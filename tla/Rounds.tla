------------------------------- MODULE Rounds -------------------------------
(***************************************************************************)
(* What round robin promises, with no task table, index or saved context:  *)
(* time is cut into rounds, and in each round every admitted task gets the *)
(* CPU exactly once.  The set of tasks is fixed when the first turn is     *)
(* given.                                                                  *)
(***************************************************************************)
CONSTANTS Task, NoTask

VARIABLES
  admitted,   \* the tasks that take part
  waiting,    \* those that have not yet had their turn in this round
  turn        \* the task that has the CPU, or NoTask before the first turn

vars == <<admitted, waiting, turn>>

Init == admitted = {} /\ waiting = {} /\ turn = NoTask

Admit(t) ==
  /\ turn = NoTask
  /\ t \notin admitted
  /\ admitted' = admitted \cup {t}
  /\ waiting' = waiting \cup {t}
  /\ UNCHANGED turn

\* The CPU goes to a task that has waited, which then waits for the next round.
Grant(t) ==
  /\ t \in waiting
  /\ turn' = t
  /\ waiting' = waiting \ {t}
  /\ UNCHANGED admitted

\* Everybody has had a turn: the next round starts with t.
NewRound(t) ==
  /\ waiting = {}
  /\ t \in admitted
  /\ turn' = t
  /\ waiting' = admitted \ {t}
  /\ UNCHANGED admitted

Next == \E t \in Task : Admit(t) \/ Grant(t) \/ NewRound(t)

Spec == Init /\ [][Next]_vars
=============================================================================
