---------------------------- MODULE TaskManager -----------------------------
(***************************************************************************)
(* The task table and the five schedulers of multitasking.cpp.  The timer  *)
(* interrupt calls schedule(); fcfs(), sjf(), srtf() and prioritySchedule()*)
(* have the same interface and could be called in its place: module        *)
(* Policies runs the system with each of them.                             *)
(*                                                                         *)
(* A context is named by the thread it belongs to.  cpustate[t] is the     *)
(* owner of the register frame the pointer leads to; when iret has popped  *)
(* a frame, the pointers to it are Dangling.                               *)
(***************************************************************************)
EXTENDS Integers, FiniteSets

CONSTANTS
  Task,            \* the Task objects
  Boot,            \* the thread of kernelMain
  NoTask,          \* an unset pointer
  Dangling,        \* a pointer to a frame that is gone
  Capacity,        \* length of the array tasks (256 in the source)
  UintSize,        \* 2 to the width of remainingTime
  Burst, Priority  \* constructor arguments of each Task

ASSUME TaskAssumption ==
  /\ Boot \notin Task /\ NoTask \notin Task /\ Dangling \notin Task
  /\ Boot # Dangling
ASSUME CapacityAssumption == Capacity \in Nat
ASSUME TimeAssumption ==
  /\ UintSize \in Nat \ {0}
  /\ Burst \in [Task -> 0 .. UintSize - 1]
  /\ Priority \in [Task -> Nat]

VARIABLES
  tasks, numTasks, currentTask,  \* the TaskManager
  cpustate, remainingTime,       \* the two mutable fields of every Task
  running,                       \* the thread on the CPU
  intFlag,                       \* kernelMain has executed sti
  adding                         \* the task addTask is about to store

table == <<tasks, numTasks>>
vars  == <<tasks, numTasks, currentTask, cpustate, remainingTime, running,
           intFlag, adding>>

Slots    == 0 .. numTasks - 1
Admitted == {tasks[i] : i \in Slots} \ {NoTask}

\* Task::Task lays out a frame on the task's own stack; TaskManager() leaves
\* the array uninitialised, which NoTask stands for.
Init ==
  /\ tasks = [i \in 0 .. Capacity - 1 |-> NoTask]
  /\ numTasks = 0
  /\ currentTask = -1
  /\ cpustate = [t \in Task |-> t]
  /\ remainingTime = Burst
  /\ running = Boot
  /\ intFlag = FALSE
  /\ adding = NoTask

-----------------------------------------------------------------------------
(* kernelMain: addTask() for some tasks, then interrupts.activate().       *)

\* Without the test of the capacity.  This and the other definitions that no
\* action uses are wrong: each makes a slip that a property must notice.
AddTaskReserveUnchecked(t) ==
  /\ running = Boot /\ ~intFlag
  /\ adding = NoTask
  /\ t \notin Admitted
  /\ numTasks' = numTasks + 1
  /\ adding' = t
  /\ UNCHANGED <<tasks, currentTask, cpustate, remainingTime, running, intFlag>>

\* tasks[numTasks++] = task: the count is incremented before the store, and
\* only while there is room.
AddTaskReserve(t) ==
  /\ running = Boot /\ ~intFlag
  /\ adding = NoTask
  /\ t \notin Admitted
  /\ numTasks < Capacity
  /\ numTasks' = numTasks + 1
  /\ adding' = t
  /\ UNCHANGED <<tasks, currentTask, cpustate, remainingTime, running, intFlag>>

AddTaskStore ==
  /\ adding # NoTask
  /\ tasks' = [tasks EXCEPT ![numTasks - 1] = adding]
  /\ adding' = NoTask
  /\ UNCHANGED <<numTasks, currentTask, cpustate, remainingTime, running,
                 intFlag>>

ActivateEarly ==
  /\ ~intFlag
  /\ intFlag' = TRUE
  /\ UNCHANGED <<table, currentTask, cpustate, remainingTime, running, adding>>

Activate ==
  /\ ~intFlag
  /\ adding = NoTask
  /\ intFlag' = TRUE
  /\ UNCHANGED <<table, currentTask, cpustate, remainingTime, running, adding>>

Setup == (\E t \in Task : AddTaskReserve(t)) \/ AddTaskStore \/ Activate

-----------------------------------------------------------------------------
(* A timer tick: int_bottom pushes the frame of the running thread, the    *)
(* scheduler gets it and returns the frame that iret pops.                 *)

\* if (numTasks == 0) return cpustate; -- the first test of all five.
TickEmpty == intFlag /\ numTasks = 0 /\ UNCHANGED vars

Tick == intFlag /\ numTasks > 0 /\ UNCHANGED <<table, intFlag, adding>>

SavedAfterAdvance ==
  LET next == (currentTask + 1) % numTasks
  IN  IF currentTask >= 0 THEN [cpustate EXCEPT ![tasks[next]] = running]
                          ELSE cpustate

\* tasks[currentTask]->cpustate = cpustate, when there is a current task.
Saved ==
  IF currentTask >= 0
    THEN [cpustate EXCEPT ![tasks[currentTask]] = running]
    ELSE cpustate

\* The frame of `owner` is popped: its thread runs and the frame is no more.
Resume(saved, owner) ==
  /\ running' = owner
  /\ cpustate' = [t \in Task |-> IF saved[t] = owner THEN Dangling
                                                     ELSE saved[t]]

\* currentTask = i; return tasks[i]->cpustate.
Dispatch(i) ==
  /\ currentTask' = i
  /\ Resume(Saved, Saved[tasks[i]])

LastBy(S, key) ==
  CHOOSE i \in S : \A j \in S : key[tasks[j]] <= key[tasks[i]]

LastOfEquals(S, key) ==
  CHOOSE i \in S : \A j \in S :
    \/ key[tasks[i]] < key[tasks[j]]
    \/ key[tasks[i]] = key[tasks[j]] /\ j <= i

\* The slot the selection loops end with: the smallest key, and of equals the
\* first.
FirstBy(S, key) ==
  CHOOSE i \in S : \A j \in S :
    \/ key[tasks[i]] < key[tasks[j]]
    \/ key[tasks[i]] = key[tasks[j]] /\ i <= j

ScheduleSkipsLast ==
  /\ Tick
  /\ Dispatch(IF currentTask + 2 < numTasks THEN currentTask + 1 ELSE 0)
  /\ UNCHANGED remainingTime

ScheduleReturnsFrame ==
  /\ Tick
  /\ currentTask' = (currentTask + 1) % numTasks
  /\ Resume(Saved, running)
  /\ UNCHANGED remainingTime

\* ROUND ROBIN (DEFAULT)
schedule ==
  /\ Tick
  /\ Dispatch((currentTask + 1) % numTasks)
  /\ UNCHANGED remainingTime

FcfsDispatching ==
  /\ Tick
  /\ Dispatch(IF currentTask = -1 THEN 0 ELSE currentTask)
  /\ UNCHANGED remainingTime

\* FCFS (NON-PREEMPTIVE): the frame is stored in the current task and returned.
fcfs ==
  /\ Tick
  /\ currentTask' = IF currentTask = -1 THEN 0 ELSE currentTask
  /\ Resume([cpustate EXCEPT ![tasks[currentTask']] = running], running)
  /\ UNCHANGED remainingTime

Unfinished == {i \in Slots : remainingTime[tasks[i]] > 0}

SjfCountingDown ==
  \/ /\ Tick
     /\ Unfinished # {}
     /\ Dispatch(IF currentTask \in Unfinished THEN currentTask
                                               ELSE FirstBy(Unfinished, Burst))
     /\ remainingTime' = [remainingTime EXCEPT ![tasks[currentTask']] = @ - 1]
  \/ intFlag /\ Unfinished = {} /\ UNCHANGED vars

\* SJF (NON-PREEMPTIVE)
sjf ==
  /\ Tick
  /\ \/ /\ currentTask \in Unfinished
        /\ Dispatch(currentTask)
     \/ /\ currentTask \notin Unfinished /\ Unfinished # {}
        /\ Dispatch(FirstBy(Unfinished, Burst))
     \/ /\ Unfinished = {}
        /\ Resume(Saved, running)
        /\ UNCHANGED currentTask
  /\ UNCHANGED remainingTime

SrtfUnfinished ==
  /\ Tick
  /\ remainingTime' = IF currentTask >= 0
       THEN [remainingTime EXCEPT ![tasks[currentTask]] = (@ - 1) % UintSize]
       ELSE remainingTime
  /\ LET left == {i \in Slots : remainingTime'[tasks[i]] > 0}
     IN  Dispatch(FirstBy(IF left = {} THEN Slots ELSE left, remainingTime'))

\* SRTF (PREEMPTIVE): the unsigned remaining time is decremented first.
srtf ==
  /\ Tick
  /\ remainingTime' = IF currentTask >= 0
       THEN [remainingTime EXCEPT ![tasks[currentTask]] = (@ - 1) % UintSize]
       ELSE remainingTime
  /\ Dispatch(FirstBy(Slots, remainingTime'))

\* PRIORITY SCHEDULING
prioritySchedule ==
  /\ Tick
  /\ Dispatch(FirstBy(Slots, Priority))
  /\ UNCHANGED remainingTime

-----------------------------------------------------------------------------
(* The specification of the system, in which doHandleInterrupt calls       *)
(* schedule().                                                             *)

Next == Setup \/ TickEmpty \/ schedule
Spec == Init /\ [][Next]_vars

\* The PIT runs freely and every frame that is resumed has IF set.
FairSpec == Spec /\ WF_vars(schedule)

-----------------------------------------------------------------------------
(* Properties.                                                             *)

\* Every variable holds a value the code can give it; in particular numTasks
\* never exceeds the array (the test in addTask).
TypeOK ==
  /\ tasks \in [0 .. Capacity - 1 -> Task \cup {NoTask}]
  /\ numTasks \in 0 .. Capacity
  /\ currentTask \in -1 .. Capacity - 1
  /\ cpustate \in [Task -> Task \cup {Boot, Dangling}]
  /\ remainingTime \in [Task -> 0 .. UintSize - 1]
  /\ running \in Task \cup {Boot}
  /\ intFlag \in BOOLEAN
  /\ adding \in Task \cup {NoTask}

\* No tick follows a pointer that addTask has counted and not yet stored
\* (multitasking.cpp:63 increments first).
SlotsFilled == intFlag => \A i \in Slots : tasks[i] \in Task

\* The context of every admitted task exists exactly once: on the CPU, or in
\* the frame its own cpustate leads to (schedule() and int_bottom).
ContextsKept ==
  \A t \in Admitted : cpustate[t] = IF running = t THEN Dangling ELSE t

\* The task the manager calls current is the one that runs.
CurrentRuns == currentTask >= 0 => running = tasks[currentTask]

\* Seen without its table, schedule() deals out turns in rounds.
Waiting == {tasks[i] : i \in {j \in Slots : j > currentTask}} \ {NoTask}
Turn    == IF running \in Task THEN running ELSE NoTask

R == INSTANCE Rounds WITH admitted <- Admitted, waiting <- Waiting, turn <- Turn
RefinesRounds == R!Spec

\* With schedule() no admitted task waits for ever.
EveryTaskRuns ==
  \A t \in Task : intFlag /\ t \in Admitted ~> running = t
=============================================================================
