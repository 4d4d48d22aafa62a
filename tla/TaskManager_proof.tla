------------------------- MODULE TaskManager_proof --------------------------
(***************************************************************************)
(* Proofs about the five schedulers, for every set of tasks and every      *)
(* capacity of the table.  Round robin: no context is ever lost or resumed *)
(* twice, and schedule() implements the turns of module Rounds.  Then the  *)
(* same about contexts for the schedulers of Policies, and whom each of    *)
(* them lets run.                                                          *)
(***************************************************************************)
EXTENDS Policies, WellFoundedInduction, TLAPS

\* The slots below numTasks hold different tasks, except that the last one is
\* still unset inside addTask; the others have never been written.
TableInv ==
  /\ \A i \in Slots : tasks[i] = NoTask => adding # NoTask /\ i = numTasks - 1
  /\ adding # NoTask => numTasks > 0 /\ tasks[numTasks - 1] = NoTask
  /\ adding \notin Admitted
  /\ \A i \in (0 .. Capacity - 1) \ Slots : tasks[i] = NoTask
  /\ \A i, j \in Slots : tasks[i] = tasks[j] => i = j

\* Before sti nothing has been scheduled; afterwards the table is complete.
BootInv ==
  /\ ~intFlag => currentTask = -1
  /\ intFlag => adding = NoTask
  /\ currentTask < numTasks

\* Where every context is.
ContextInv ==
  /\ currentTask = -1 => running = Boot
  /\ currentTask >= 0 => running = tasks[currentTask]
  /\ \A t \in Task : cpustate[t] = IF running = t THEN Dangling ELSE t

IInv == TypeOK /\ TableInv /\ BootInv /\ ContextInv

-----------------------------------------------------------------------------

\* The next index schedule() computes.
LEMMA NextIndex ==
  ASSUME NEW n \in Nat \ {0}, NEW c \in -1 .. n - 1
  PROVE  (c + 1) % n = IF c + 1 = n THEN 0 ELSE c + 1
<1>1. CASE c + 1 = n
  BY <1>1
<1>2. CASE c + 1 # n
  BY <1>2
<1>3. QED
  BY <1>1, <1>2

LEMMA InitIInv == Init => IInv
<1> SUFFICES ASSUME Init PROVE IInv
  OBVIOUS
<1>1. TypeOK
  <2>1. tasks \in [0 .. Capacity - 1 -> Task \cup {NoTask}]
    BY DEF Init
  <2>2. cpustate \in [Task -> Task \cup {Boot, Dangling}]
    BY DEF Init
  <2>3. numTasks \in 0 .. Capacity /\ currentTask \in -1 .. Capacity - 1
    BY CapacityAssumption DEF Init
  <2>4. QED
    BY <2>1, <2>2, <2>3, TimeAssumption DEF Init, TypeOK
<1>2. Slots = {} /\ Admitted = {}
  BY DEF Init, Slots, Admitted
<1>3. TableInv /\ BootInv
  BY <1>2 DEF Init, TableInv, BootInv
<1>4. ContextInv
  BY TaskAssumption DEF Init, ContextInv
<1>5. QED
  BY <1>1, <1>3, <1>4 DEF IInv

\* Slots are indices of the array, and with interrupts on every one is filled.
LEMMA SlotsHoldTasks ==
  ASSUME TypeOK, TableInv, BootInv
  PROVE  /\ Slots \subseteq 0 .. Capacity - 1
         /\ Admitted \subseteq Task
         /\ intFlag => \A i \in Slots : tasks[i] \in Task
<1>1. Slots \subseteq 0 .. Capacity - 1
  BY CapacityAssumption DEF TypeOK, Slots
<1>2. \A i \in Slots : tasks[i] \in Task \cup {NoTask}
  BY <1>1 DEF TypeOK
<1>3. Admitted \subseteq Task
  BY <1>2 DEF Admitted
<1>4. intFlag => \A i \in Slots : tasks[i] # NoTask
  BY DEF TableInv, BootInv
<1>5. QED
  BY <1>1, <1>2, <1>3, <1>4

\* What Dispatch(i) does when IInv holds and i is a slot of the table: the task
\* in the slot gets the CPU, and the thread that had it is saved.
LEMMA DispatchRuns ==
  ASSUME IInv, intFlag, NEW i \in Slots, Dispatch(i)
  PROVE  /\ currentTask' = i
         /\ tasks[i] \in Task
         /\ running' = tasks[i]
         /\ cpustate' = [t \in Task |-> IF t = tasks[i] THEN Dangling ELSE t]
<1>1. \A j \in Slots : tasks[j] \in Task
  BY SlotsHoldTasks DEF IInv
<1>2. ASSUME NEW t \in Task
      PROVE  Saved[t] = t
  <2>1. CASE currentTask >= 0
    <3>1. currentTask \in Slots /\ running = tasks[currentTask]
      BY <2>1 DEF IInv, TypeOK, BootInv, ContextInv, Slots
    <3>2. QED
      BY <1>1, <2>1, <3>1 DEF Saved, IInv, TypeOK, ContextInv
  <2>2. CASE ~(currentTask >= 0)
    <3>1. running = Boot
      BY <2>2 DEF IInv, TypeOK, ContextInv
    <3>2. QED
      BY <2>2, <3>1, TaskAssumption DEF Saved, IInv, ContextInv
  <2>3. QED
    BY <2>1, <2>2
<1>3. running' = tasks[i]
  BY <1>1, <1>2 DEF Dispatch, Resume
<1>4. cpustate' = [t \in Task |-> IF t = tasks[i] THEN Dangling ELSE t]
  BY <1>1, <1>2 DEF Dispatch, Resume
<1>5. QED
  BY <1>1, <1>3, <1>4 DEF Dispatch

\* The slot schedule() dispatches.
LEMMA ScheduleDispatches ==
  ASSUME IInv, schedule
  PROVE  LET next == IF currentTask + 1 = numTasks THEN 0 ELSE currentTask + 1
         IN  intFlag /\ next \in Slots /\ Dispatch(next)
<1>1. numTasks \in Nat \ {0} /\ currentTask \in -1 .. numTasks - 1
  BY CapacityAssumption DEF schedule, Tick, IInv, TypeOK, BootInv
<1>2. QED
  BY <1>1, NextIndex DEF schedule, Tick, Slots

\* addTask() and sti keep the table in order and schedule nothing.
LEMMA SetupKeepsTable ==
  ASSUME TypeOK, TableInv, BootInv, Setup
  PROVE  /\ TypeOK' /\ TableInv' /\ BootInv'
         /\ currentTask = -1 /\ currentTask' = -1
         /\ UNCHANGED <<cpustate, remainingTime, running>>
<1> USE TaskAssumption, CapacityAssumption
<1>1. ASSUME NEW t \in Task, AddTaskReserve(t)
      PROVE  TypeOK' /\ TableInv' /\ BootInv'
  <2>1. Slots' = Slots \cup {numTasks} /\ numTasks \in 0 .. Capacity - 1
    BY <1>1 DEF AddTaskReserve, TypeOK, Slots
  <2>2. TypeOK'
    BY <1>1, <2>1 DEF AddTaskReserve, TypeOK
  <2>3. TableInv'
    <3>1. /\ UNCHANGED tasks /\ adding' = t /\ numTasks' = numTasks + 1
          /\ adding = NoTask /\ t \notin Admitted
      BY <1>1, <2>1 DEF AddTaskReserve
    <3>2. tasks[numTasks] = NoTask
      BY <2>1 DEF TableInv, Slots
    <3>3. \A i \in Slots : tasks[i] # NoTask
      BY <3>1 DEF TableInv
    <3>4. Admitted' = Admitted
      BY <2>1, <3>1, <3>2 DEF Admitted
    <3>5. \A i, j \in Slots' : tasks[i] = tasks[j] => i = j
      BY <2>1, <3>2, <3>3 DEF TableInv
    <3>6. \A i \in Slots' : tasks'[i] = NoTask => adding' # NoTask /\ i = numTasks' - 1
      BY <2>1, <3>1, <3>3
    <3>7. numTasks' > 0 /\ tasks'[numTasks' - 1] = NoTask
      BY <2>1, <3>1, <3>2
    <3>8. \A i \in (0 .. Capacity - 1) \ Slots' : tasks'[i] = NoTask
      BY <2>1, <3>1 DEF TableInv
    <3>9. QED
      BY <3>1, <3>4, <3>5, <3>6, <3>7, <3>8 DEF TableInv
  <2>4. BootInv'
    BY <1>1, <2>1 DEF AddTaskReserve, TypeOK, BootInv
  <2>5. QED
    BY <2>2, <2>3, <2>4
<1>2. ASSUME AddTaskStore
      PROVE  TypeOK' /\ TableInv' /\ BootInv'
  <2>1. TypeOK'
    BY <1>2 DEF AddTaskStore, TypeOK, TableInv
  <2>2. TableInv'
    BY <1>2 DEF AddTaskStore, TypeOK, TableInv, Slots, Admitted
  <2>3. BootInv'
    BY <1>2 DEF AddTaskStore, TypeOK, BootInv
  <2>4. QED
    BY <2>1, <2>2, <2>3
<1>3. ASSUME Activate
      PROVE  TypeOK' /\ TableInv' /\ BootInv'
  BY <1>3 DEF Activate, table, TypeOK, TableInv, BootInv, Slots, Admitted
<1>4. /\ currentTask = -1 /\ currentTask' = -1
      /\ UNCHANGED <<cpustate, remainingTime, running>>
  BY DEF Setup, AddTaskReserve, AddTaskStore, Activate, BootInv
<1>5. QED
  BY <1>1, <1>2, <1>3, <1>4 DEF Setup

LEMMA StepIInv == IInv /\ [Next]_vars => IInv'
<1> SUFFICES ASSUME IInv, [Next]_vars PROVE IInv'
  OBVIOUS
<1> USE TaskAssumption, CapacityAssumption, TimeAssumption
<1>1. CASE Setup
  <2>1. /\ TypeOK' /\ TableInv' /\ BootInv'
        /\ currentTask = -1 /\ currentTask' = -1
        /\ UNCHANGED <<cpustate, remainingTime, running>>
    BY <1>1, SetupKeepsTable DEF IInv
  <2>2. ContextInv'
    BY <2>1 DEF IInv, ContextInv
  <2>3. QED
    BY <2>1, <2>2 DEF IInv
<1>2. CASE schedule
  <2> DEFINE next == IF currentTask + 1 = numTasks THEN 0 ELSE currentTask + 1
  <2>1. intFlag /\ next \in Slots /\ Dispatch(next)
    BY <1>2, ScheduleDispatches
  <2>2. /\ currentTask' = next
        /\ tasks[next] \in Task
        /\ running' = tasks[next]
        /\ cpustate' = [t \in Task |-> IF t = tasks[next] THEN Dangling ELSE t]
    BY <2>1, DispatchRuns
  <2> HIDE DEF next
  <2>3. UNCHANGED <<tasks, numTasks, intFlag, adding, remainingTime>>
    BY <1>2 DEF schedule, Tick, table
  <2>4. TypeOK'
    BY <2>1, <2>2, <2>3 DEF IInv, TypeOK, Slots
  <2>5. TableInv'
    BY <2>3 DEF IInv, TableInv, Slots, Admitted
  <2>6. BootInv'
    BY <2>1, <2>2, <2>3 DEF IInv, BootInv, TypeOK, Slots
  <2>7. ContextInv'
    BY <2>1, <2>2, <2>3 DEF IInv, ContextInv, TypeOK, Slots
  <2>8. QED
    BY <2>4, <2>5, <2>6, <2>7 DEF IInv
<1>3. CASE UNCHANGED vars
  BY <1>3 DEF vars, IInv, TypeOK, TableInv, BootInv, ContextInv, Slots,
              Admitted
<1>4. CASE TickEmpty
  BY <1>3, <1>4 DEF TickEmpty
<1>5. QED
  BY <1>1, <1>2, <1>3, <1>4 DEF Next

\* IInv holds whatever tasks kernelMain adds and whenever the timer ticks.
THEOREM Invariance == Spec => []IInv
BY InitIInv, StepIInv, PTL DEF Spec

-----------------------------------------------------------------------------

\* All variables keep their types; the index into tasks never leaves it.
THEOREM TypeCorrect == Spec => []TypeOK
BY Invariance, PTL DEF IInv

\* schedule() and int_bottom keep the context of every task, once.
THEOREM ContextsAreKept == Spec => []ContextsKept
<1>1. IInv => ContextsKept
  BY SlotsHoldTasks DEF IInv, ContextInv, ContextsKept
<1>2. QED
  BY <1>1, Invariance, PTL

\* The current task is the running one.
THEOREM CurrentIsRunning == Spec => []CurrentRuns
<1>1. IInv => CurrentRuns
  BY DEF IInv, ContextInv, CurrentRuns
<1>2. QED
  BY <1>1, Invariance, PTL

\* No tick meets a slot that addTask has counted but not yet stored.
THEOREM SlotsAlwaysFilled == Spec => []SlotsFilled
<1>1. IInv => SlotsFilled
  BY SlotsHoldTasks DEF IInv, SlotsFilled
<1>2. QED
  BY <1>1, Invariance, PTL

-----------------------------------------------------------------------------
(* schedule() implements Rounds.                                           *)

\* Before the first tick everybody waits for the first turn.
LEMMA FirstRound ==
  IInv /\ currentTask = -1 => Waiting = Admitted /\ Turn = NoTask
<1> SUFFICES ASSUME IInv, currentTask = -1
             PROVE  Waiting = Admitted /\ Turn = NoTask
  OBVIOUS
<1>1. {j \in Slots : j > currentTask} = Slots
  BY DEF Slots
<1>2. Waiting = Admitted
  BY <1>1 DEF Waiting, Admitted
<1>3. QED
  BY <1>2, TaskAssumption DEF IInv, ContextInv, Turn

\* A step of addTask is the admission of a task, or invisible.
LEMMA AddTaskImplements ==
  ASSUME IInv, IInv', (\E t \in Task : AddTaskReserve(t)) \/ AddTaskStore
  PROVE  [R!Next]_R!vars
<1>1. ~intFlag /\ ~intFlag' /\ currentTask = -1 /\ currentTask' = -1
  BY DEF AddTaskReserve, AddTaskStore, IInv, BootInv
<1>2. Waiting = Admitted /\ Turn = NoTask
  BY <1>1, FirstRound
<1>3. (Waiting = Admitted /\ Turn = NoTask)'
  <2>1. (currentTask = -1)'
    BY <1>1
  <2>2. QED
    BY <2>1, FirstRound, PTL
<1>4. CASE \E t \in Task : AddTaskReserve(t)
  <2>1. Slots' = Slots \cup {numTasks} /\ numTasks \in 0 .. Capacity - 1
    BY <1>4, CapacityAssumption DEF AddTaskReserve, IInv, TypeOK, Slots
  <2>2. tasks' = tasks /\ tasks[numTasks] = NoTask
    BY <1>4, <2>1 DEF AddTaskReserve, IInv, TableInv, Slots
  <2>3. Admitted' = Admitted
    BY <2>1, <2>2 DEF Admitted
  <2>4. QED
    BY <1>2, <1>3, <2>3 DEF R!vars
<1>5. CASE AddTaskStore
  <2>1. adding \in Task /\ adding \notin Admitted
    BY <1>5 DEF AddTaskStore, IInv, TypeOK, TableInv
  <2>2. numTasks - 1 \in Slots /\ Slots' = Slots /\ tasks[numTasks - 1] = NoTask
    BY <1>5 DEF AddTaskStore, IInv, TypeOK, TableInv, Slots
  <2>3. tasks' = [tasks EXCEPT ![numTasks - 1] = adding]
    BY <1>5 DEF AddTaskStore
  <2>4. tasks \in [0 .. Capacity - 1 -> Task \cup {NoTask}]
    BY DEF IInv, TypeOK
  <2>5. Slots \subseteq 0 .. Capacity - 1
    BY SlotsHoldTasks DEF IInv
  <2>6. Admitted' = Admitted \cup {adding}
    BY <2>1, <2>2, <2>3, <2>4, <2>5, TaskAssumption DEF Admitted
  <2>7. R!Admit(adding)
    BY <1>2, <1>3, <2>1, <2>6 DEF R!Admit
  <2>8. QED
    BY <2>1, <2>7 DEF R!Next
<1>6. QED
  BY <1>4, <1>5

\* A tick gives the turn to a waiting task, or starts the next round.
LEMMA ScheduleImplements ==
  ASSUME IInv, schedule
  PROVE  R!Next
<1> DEFINE next == IF currentTask + 1 = numTasks THEN 0 ELSE currentTask + 1
<1>1. intFlag /\ next \in Slots /\ Dispatch(next)
  BY ScheduleDispatches
<1>2. currentTask' = next /\ tasks[next] \in Task /\ running' = tasks[next]
  BY <1>1, DispatchRuns
<1>3. tasks' = tasks /\ Slots' = Slots /\ Admitted' = Admitted
  BY DEF schedule, Tick, table, Slots, Admitted
<1>4. \A i \in Slots : tasks[i] \in Task
  BY <1>1, SlotsHoldTasks DEF IInv
<1>5. /\ Waiting = {tasks[i] : i \in {j \in Slots : j > currentTask}}
      /\ Waiting' = {tasks[i] : i \in {j \in Slots : j > next}}
      /\ Turn' = tasks[next]
      /\ Admitted = {tasks[i] : i \in Slots}
  BY <1>2, <1>3, <1>4, TaskAssumption DEF Waiting, Turn, Admitted
<1>6. \A i, j \in Slots : tasks[i] = tasks[j] => i = j
  BY DEF IInv, TableInv
<1>7. numTasks \in Nat \ {0} /\ currentTask \in -1 .. numTasks - 1
  BY CapacityAssumption DEF schedule, Tick, IInv, TypeOK, BootInv
<1>8. CASE currentTask + 1 = numTasks
  <2>1. {j \in Slots : j > currentTask} = {} /\ next = 0
    BY <1>7, <1>8 DEF Slots
  <2>2. Waiting = {}
    BY <1>5, <2>1
  <2>3. {j \in Slots : j > next} = Slots \ {next}
    BY <2>1 DEF Slots
  <2>4. Waiting' = Admitted \ {tasks[next]}
    BY <1>1, <1>5, <1>6, <2>3
  <2>5. R!NewRound(tasks[next])
    BY <1>1, <1>3, <1>5, <2>2, <2>4 DEF R!NewRound
  <2>6. QED
    BY <1>2, <2>5 DEF R!Next
<1>9. CASE currentTask + 1 # numTasks
  <2>1. next = currentTask + 1
    BY <1>9
  <2>2. {j \in Slots : j > next} = {j \in Slots : j > currentTask} \ {next}
    BY <1>7, <2>1 DEF Slots
  <2>3. next \in {j \in Slots : j > currentTask}
    BY <1>1, <1>7, <2>1
  <2>4. Waiting' = Waiting \ {tasks[next]}
    BY <1>1, <1>5, <1>6, <2>2, <2>3
  <2>5. R!Grant(tasks[next])
    BY <1>3, <1>5, <2>3, <2>4 DEF R!Grant
  <2>6. QED
    BY <1>2, <2>5 DEF R!Next
<1>10. QED
  BY <1>8, <1>9

\* Round robin over the table with saved contexts implements turns in rounds.
THEOREM Refinement == Spec => RefinesRounds
<1>1. Init => R!Init
  BY TaskAssumption DEF Init, R!Init, Admitted, Waiting, Turn, Slots
<1>2. ASSUME IInv, IInv', [Next]_vars
      PROVE  [R!Next]_R!vars
  <2>1. CASE UNCHANGED vars \/ TickEmpty \/ Activate
    BY <2>1 DEF vars, TickEmpty, Activate, table, R!vars, Admitted, Waiting,
                Turn, Slots
  <2>2. CASE (\E t \in Task : AddTaskReserve(t)) \/ AddTaskStore
    BY <1>2, <2>2, AddTaskImplements
  <2>3. CASE schedule
    BY <1>2, <2>3, ScheduleImplements
  <2>4. QED
    BY <1>2, <2>1, <2>2, <2>3 DEF Next, Setup
<1>3. QED
  BY <1>1, <1>2, Invariance, PTL DEF Spec, RefinesRounds, R!Spec

-----------------------------------------------------------------------------
(* The choice of the selection loops.                                      *)

\* A set of natural numbers has a least one.
LEMMA LeastNatural ==
  ASSUME NEW T \in SUBSET Nat, T # {}
  PROVE  \E x \in T : \A y \in T : x <= y
<1> DEFINE Less == OpToRel(<, Nat)
<1>1. IsWellFoundedOn(Less, Nat)
  BY NatLessThanWellFounded
<1>2. PICK x \in T : \A y \in T : <<y, x>> \notin Less
  <2> HIDE DEF Less
  <2>1. QED
    BY <1>1, WFMin
<1>3. \A y \in T : ~(y < x)
  BY <1>2 DEF OpToRel
<1>4. QED
  BY <1>3

\* Slot i comes before slot j in the order of the loops.
Before(key, i, j) ==
  \/ key[tasks[i]] < key[tasks[j]]
  \/ key[tasks[i]] = key[tasks[j]] /\ i <= j

\* The loops end with a slot whose key no other undercuts, the first of those.
LEMMA FirstByLeast ==
  ASSUME NEW S \in SUBSET Nat, S # {}, NEW key,
         \A i \in S : key[tasks[i]] \in Nat
  PROVE  /\ FirstBy(S, key) \in S
         /\ \A j \in S : Before(key, FirstBy(S, key), j)
<1> DEFINE T == {key[tasks[i]] : i \in S}
<1>1. PICK k \in T : \A l \in T : k <= l
  <2>1. T \in SUBSET Nat /\ T # {}
    OBVIOUS
  <2> HIDE DEF T
  <2>2. QED
    BY <2>1, LeastNatural
<1> DEFINE Best == {i \in S : key[tasks[i]] = k}
<1>2. PICK i \in Best : \A j \in Best : i <= j
  <2>1. Best \in SUBSET Nat /\ Best # {}
    BY <1>1
  <2> HIDE DEF Best
  <2>2. QED
    BY <2>1, LeastNatural
<1>3. i \in S /\ \A j \in S : Before(key, i, j)
  <2>1. \A j \in S : key[tasks[j]] \in Nat /\ k <= key[tasks[j]]
    BY <1>1
  <2>2. \A j \in S : key[tasks[j]] = k => i <= j
    BY <1>2
  <2>3. i \in S /\ key[tasks[i]] = k /\ k \in Nat
    BY <1>2, <2>1
  <2>4. QED
    BY <2>1, <2>2, <2>3 DEF Before
<1>4. QED
  BY <1>3 DEF FirstBy, Before

-----------------------------------------------------------------------------
(* The schedulers of Policies.                                             *)

\* fcfs() has dispatched nobody and lost the context of the first task.
FcfsInv ==
  /\ running = Boot /\ currentTask \in {-1, 0}
  /\ \A t \in Task :
       cpustate[t] = IF currentTask = 0 /\ t = tasks[0] THEN Dangling ELSE t

\* The job of sjf() has time left, and no job is shorter but the empty ones.
SjfInv ==
  /\ remainingTime = Burst
  /\ currentTask >= 0 =>
       /\ Burst[tasks[currentTask]] > 0
       /\ \A i \in Slots :
            Burst[tasks[i]] > 0 => Burst[tasks[currentTask]] <= Burst[tasks[i]]

\* No task has less time left than the current one of srtf(), and every other
\* has all its time left or has been counted down past 0.
SrtfInv ==
  /\ currentTask >= 0 =>
       \A i \in Slots : remainingTime[tasks[currentTask]] <= remainingTime[tasks[i]]
  /\ \A t \in Task : \/ remainingTime[t] \in {Burst[t], UintSize - 1}
                     \/ currentTask >= 0 /\ t = tasks[currentTask]

\* prioritySchedule() stays with the task it chose first.
PriorityInv ==
  currentTask >= 0 => \A i \in Slots : Before(Priority, currentTask, i)

PInv ==
  /\ TypeOK /\ TableInv /\ BootInv
  /\ policy \in {"fcfs", "sjf", "srtf", "prioritySchedule"}
  /\ IF policy = "fcfs" THEN FcfsInv ELSE ContextInv
  /\ policy = "sjf" => SjfInv
  /\ policy = "srtf" => SrtfInv
  /\ policy = "prioritySchedule" => PriorityInv

LEMMA PolicyInitPInv == PolicyInit => PInv
<1> SUFFICES ASSUME PolicyInit PROVE PInv
  OBVIOUS
<1>1. IInv
  BY InitIInv DEF PolicyInit
<1>2. FcfsInv
  BY TaskAssumption DEF PolicyInit, Init, FcfsInv
<1>3. SjfInv /\ SrtfInv /\ PriorityInv
  BY TimeAssumption DEF PolicyInit, Init, SjfInv, SrtfInv, PriorityInv
<1>4. QED
  BY <1>1, <1>2, <1>3 DEF PolicyInit, PInv, IInv

\* Before sti, what the policies add is about tasks that have not run.
LEMMA QuietPolicies ==
  ASSUME PInv, TypeOK', currentTask = -1, currentTask' = -1, running' = Boot,
         UNCHANGED <<cpustate, remainingTime, policy>>
  PROVE  /\ IF policy' = "fcfs" THEN FcfsInv' ELSE ContextInv'
         /\ policy' = "sjf" => SjfInv'
         /\ policy' = "srtf" => SrtfInv'
         /\ policy' = "prioritySchedule" => PriorityInv'
<1>1. \A t \in Task : cpustate[t] = t
  BY TaskAssumption DEF PInv, FcfsInv, ContextInv
<1>2. FcfsInv' /\ ContextInv'
  BY <1>1, TaskAssumption DEF FcfsInv, ContextInv
<1>3. policy = "sjf" => SjfInv'
  BY DEF PInv, SjfInv
<1>4. policy = "srtf" => SrtfInv'
  BY DEF PInv, SrtfInv
<1>5. PriorityInv'
  BY DEF PriorityInv
<1>6. QED
  BY <1>2, <1>3, <1>4, <1>5

\* A tick leaves the table alone.
LEMMA TickKeepsTable ==
  ASSUME TypeOK, TableInv, BootInv, Tick,
         currentTask' \in Slots \cup {currentTask},
         cpustate' \in [Task -> Task \cup {Boot, Dangling}],
         remainingTime' \in [Task -> 0 .. UintSize - 1],
         running' \in Task \cup {Boot}
  PROVE  /\ TypeOK' /\ TableInv' /\ BootInv'
         /\ intFlag /\ numTasks > 0
         /\ Slots' = Slots /\ tasks' = tasks /\ Admitted' = Admitted
<1>1. Tick /\ UNCHANGED <<tasks, numTasks, intFlag, adding>>
  BY DEF Tick, table
<1>2. Slots' = Slots /\ Admitted' = Admitted
  BY <1>1 DEF Slots, Admitted
<1>3. TypeOK'
  BY <1>1, CapacityAssumption DEF TypeOK, Slots
<1>4. TableInv'
  BY <1>1, <1>2 DEF TableInv
<1>5. BootInv'
  BY <1>1, CapacityAssumption DEF Tick, BootInv, TypeOK, Slots
<1>6. QED
  BY <1>1, <1>2, <1>3, <1>4, <1>5 DEF Tick

\* Dispatching any slot keeps every context once.
LEMMA DispatchKeepsContexts ==
  ASSUME IInv, Tick, NEW i \in Slots, Dispatch(i),
         remainingTime' \in [Task -> 0 .. UintSize - 1]
  PROVE  /\ TypeOK' /\ TableInv' /\ BootInv' /\ ContextInv'
         /\ currentTask' = i /\ running' = tasks[i] /\ tasks[i] \in Task
         /\ Slots' = Slots /\ tasks' = tasks /\ Admitted' = Admitted
<1>1. /\ currentTask' = i /\ tasks[i] \in Task /\ running' = tasks[i]
      /\ cpustate' = [t \in Task |-> IF t = tasks[i] THEN Dangling ELSE t]
  BY DispatchRuns DEF Tick
<1>2. TypeOK /\ TableInv /\ BootInv
  BY DEF IInv
<1>3. cpustate' \in [Task -> Task \cup {Boot, Dangling}]
  BY <1>1
<1>4. /\ TypeOK' /\ TableInv' /\ BootInv'
      /\ Slots' = Slots /\ tasks' = tasks /\ Admitted' = Admitted
  BY <1>1, <1>2, <1>3, TickKeepsTable
<1>5. i \in Nat
  BY DEF Slots
<1>6. ContextInv'
  BY <1>1, <1>4, <1>5 DEF ContextInv
<1>7. QED
  BY <1>1, <1>4, <1>6

\* The indices below numTasks are numbers, and hold tasks with times.
LEMMA SlotKeys ==
  ASSUME TypeOK, TableInv, BootInv, Tick
  PROVE  /\ Slots \in SUBSET Nat /\ 0 \in Slots
         /\ \A i \in Slots : /\ tasks[i] \in Task
                             /\ Burst[tasks[i]] \in Nat
                             /\ Priority[tasks[i]] \in Nat
                             /\ remainingTime[tasks[i]] \in Nat
         /\ numTasks \in Nat /\ currentTask \in -1 .. numTasks - 1
<1>1. intFlag /\ numTasks \in Nat \ {0}
  BY CapacityAssumption DEF Tick, TypeOK
<1>2. \A i \in Slots : tasks[i] \in Task
  BY <1>1, SlotsHoldTasks
<1>3. \A t \in Task : Burst[t] \in Nat /\ Priority[t] \in Nat /\ remainingTime[t] \in Nat
  BY TimeAssumption DEF TypeOK
<1>4. QED
  BY <1>1, <1>2, <1>3, CapacityAssumption DEF Slots, TypeOK, BootInv

-----------------------------------------------------------------------------
(* One lemma for each scheduler.                                           *)

LEMMA FcfsKeeps ==
  ASSUME PInv, policy = "fcfs", fcfs, UNCHANGED policy
  PROVE  PInv'
<1>1. TypeOK /\ TableInv /\ BootInv /\ FcfsInv /\ Tick
  BY DEF PInv, fcfs
<1>2. 0 \in Slots /\ tasks[0] \in Task
  BY <1>1, SlotKeys
<1>3. currentTask' = 0
  BY <1>1 DEF fcfs, FcfsInv
<1> DEFINE saved == [cpustate EXCEPT ![tasks[currentTask']] = running]
<1>4. \A t \in Task : saved[t] = IF t = tasks[0] THEN Boot ELSE t
  BY <1>1, <1>2, <1>3 DEF FcfsInv, TypeOK
<1>5. Resume(saved, Boot)
  BY <1>1 DEF fcfs, FcfsInv
<1> HIDE DEF saved
<1>6. /\ running' = Boot
      /\ cpustate' = [t \in Task |-> IF t = tasks[0] THEN Dangling ELSE t]
  BY <1>4, <1>5, TaskAssumption DEF Resume
<1>7. cpustate' \in [Task -> Task \cup {Boot, Dangling}]
  BY <1>6
<1>8. remainingTime' \in [Task -> 0 .. UintSize - 1]
  BY <1>1 DEF fcfs, TypeOK
<1>9. TypeOK' /\ TableInv' /\ BootInv' /\ tasks' = tasks
  BY <1>1, <1>2, <1>3, <1>6, <1>7, <1>8, TickKeepsTable
<1>10. FcfsInv'
  BY <1>3, <1>6, <1>9 DEF FcfsInv
<1>11. QED
  BY <1>9, <1>10 DEF PInv

LEMMA SjfKeeps ==
  ASSUME PInv, policy = "sjf", sjf, UNCHANGED policy
  PROVE  /\ PInv'
         /\ running' # running =>
              /\ running = Boot
              /\ \A t \in Admitted : Burst[t] > 0 => Burst[running'] <= Burst[t]
<1>1. TypeOK /\ TableInv /\ BootInv /\ ContextInv /\ IInv /\ SjfInv /\ Tick
  BY DEF PInv, IInv, sjf
<1>2. /\ Slots \in SUBSET Nat /\ numTasks \in Nat
      /\ currentTask \in -1 .. numTasks - 1
      /\ \A i \in Slots : tasks[i] \in Task /\ Burst[tasks[i]] \in Nat
  BY <1>1, SlotKeys
<1>3. remainingTime' = Burst /\ Burst \in [Task -> 0 .. UintSize - 1]
  BY <1>1, TimeAssumption DEF sjf, SjfInv
<1>4. Unfinished = {i \in Slots : Burst[tasks[i]] > 0}
  BY <1>1 DEF Unfinished, SjfInv
<1>5. currentTask >= 0 => currentTask \in Unfinished
  BY <1>1, <1>2, <1>4 DEF SjfInv, Slots
<1>6. CASE currentTask \in Unfinished
  <2>1. Dispatch(currentTask) /\ currentTask \in Slots
    BY <1>4, <1>6 DEF sjf
  <2>2. /\ TypeOK' /\ TableInv' /\ BootInv' /\ ContextInv'
        /\ currentTask' = currentTask /\ running' = tasks[currentTask]
        /\ Slots' = Slots /\ tasks' = tasks
    BY <1>1, <1>3, <2>1, DispatchKeepsContexts
  <2>3. SjfInv'
    BY <1>1, <1>3, <2>2 DEF SjfInv
  <2>4. running' = running
    BY <1>1, <1>2, <2>1, <2>2 DEF ContextInv
  <2>5. QED
    BY <2>2, <2>3, <2>4 DEF PInv
<1>7. CASE currentTask \notin Unfinished
  <2>1. currentTask = -1 /\ running = Boot
    BY <1>1, <1>2, <1>5, <1>7 DEF ContextInv
  <2>2. CASE Unfinished # {}
    <3> DEFINE best == FirstBy(Unfinished, Burst)
    <3>1. /\ best \in Unfinished
          /\ \A j \in Unfinished : Before(Burst, best, j)
      BY <1>2, <1>4, <2>2, FirstByLeast
    <3>2. Dispatch(best) /\ best \in Slots
      BY <1>4, <1>7, <2>2, <3>1 DEF sjf
    <3> HIDE DEF best
    <3>3. /\ TypeOK' /\ TableInv' /\ BootInv' /\ ContextInv'
          /\ currentTask' = best /\ running' = tasks[best]
          /\ Slots' = Slots /\ tasks' = tasks
      BY <1>1, <1>3, <3>2, DispatchKeepsContexts
    <3>4. \A i \in Slots : Burst[tasks[i]] > 0 => Burst[tasks[best]] <= Burst[tasks[i]]
      BY <1>2, <1>4, <3>1, <3>2 DEF Before
    <3>5. SjfInv'
      BY <1>3, <1>4, <3>1, <3>3, <3>4 DEF SjfInv
    <3>6. \A t \in Admitted : Burst[t] > 0 => Burst[running'] <= Burst[t]
      BY <3>3, <3>4 DEF Admitted
    <3>7. QED
      BY <2>1, <3>3, <3>5, <3>6 DEF PInv
  <2>3. CASE Unfinished = {}
    <3>1. Resume(cpustate, Boot) /\ currentTask' = -1
      BY <1>7, <2>1, <2>3 DEF sjf, Saved
    <3>2. \A t \in Task : cpustate[t] = t
      BY <1>1, <2>1, TaskAssumption DEF ContextInv
    <3>3. running' = Boot /\ cpustate' = [t \in Task |-> t]
      BY <3>1, <3>2, TaskAssumption DEF Resume
    <3>4. cpustate' \in [Task -> Task \cup {Boot, Dangling}]
      BY <3>3
    <3>5. TypeOK' /\ TableInv' /\ BootInv' /\ Slots' = Slots /\ tasks' = tasks
      BY <1>1, <1>3, <2>1, <3>1, <3>3, <3>4, TickKeepsTable
    <3>6. ContextInv'
      BY <3>1, <3>3, TaskAssumption DEF ContextInv
    <3>7. SjfInv'
      BY <1>3, <3>1 DEF SjfInv
    <3>8. QED
      BY <2>1, <3>3, <3>5, <3>6, <3>7 DEF PInv
  <2>4. QED
    BY <2>2, <2>3
<1>8. QED
  BY <1>6, <1>7

LEMMA PriorityKeeps ==
  ASSUME PInv, policy = "prioritySchedule", prioritySchedule, UNCHANGED policy
  PROVE  PInv'
<1>1. TypeOK /\ TableInv /\ BootInv /\ ContextInv /\ IInv /\ Tick
  BY DEF PInv, IInv, prioritySchedule
<1> DEFINE best == FirstBy(Slots, Priority)
<1>2. best \in Slots /\ \A j \in Slots : Before(Priority, best, j)
  <2>1. /\ Slots \in SUBSET Nat /\ 0 \in Slots
        /\ \A i \in Slots : Priority[tasks[i]] \in Nat
    BY <1>1, SlotKeys
  <2>2. QED
    BY <2>1, FirstByLeast
<1>3. Dispatch(best)
  BY DEF prioritySchedule
<1> HIDE DEF best
<1>4. remainingTime' \in [Task -> 0 .. UintSize - 1]
  BY <1>1 DEF prioritySchedule, TypeOK
<1>5. /\ TypeOK' /\ TableInv' /\ BootInv' /\ ContextInv'
      /\ currentTask' = best /\ Slots' = Slots /\ tasks' = tasks
  BY <1>1, <1>2, <1>3, <1>4, DispatchKeepsContexts
<1>6. PriorityInv'
  BY <1>2, <1>5 DEF PriorityInv, Before
<1>7. QED
  BY <1>5, <1>6 DEF PInv

\* What the unsigned counter holds after it is decremented.
LEMMA Decrement ==
  ASSUME NEW v \in 0 .. UintSize - 1
  PROVE  (v - 1) % UintSize = IF v = 0 THEN UintSize - 1 ELSE v - 1
<1>1. UintSize \in Nat \ {0}
  BY TimeAssumption
<1>2. CASE v = 0
  BY <1>1, <1>2
<1>3. CASE v # 0
  BY <1>1, <1>3
<1>4. QED
  BY <1>2, <1>3

LEMMA SrtfKeeps ==
  ASSUME PInv, policy = "srtf", srtf, UNCHANGED policy
  PROVE  /\ PInv'
         /\ running' # running /\ running # Boot =>
              /\ remainingTime[running] = 0
              /\ remainingTime'[running] = UintSize - 1
<1>1. TypeOK /\ TableInv /\ BootInv /\ ContextInv /\ IInv /\ SrtfInv /\ Tick
  BY DEF PInv, IInv, srtf
<1>2. /\ Slots \in SUBSET Nat /\ 0 \in Slots /\ numTasks \in Nat
      /\ currentTask \in -1 .. numTasks - 1
      /\ \A i \in Slots : tasks[i] \in Task
  BY <1>1, SlotKeys
<1>3. UintSize \in Nat \ {0} /\ remainingTime \in [Task -> 0 .. UintSize - 1]
  BY <1>1, TimeAssumption DEF TypeOK
<1>4. remainingTime' \in [Task -> 0 .. UintSize - 1]
  <2>1. \A t \in Task : (remainingTime[t] - 1) % UintSize \in 0 .. UintSize - 1
    BY <1>3
  <2>2. QED
    BY <1>1, <1>3, <2>1 DEF srtf
<1> DEFINE best == FirstBy(Slots, remainingTime')
<1>5. best \in Slots /\ \A j \in Slots : Before(remainingTime', best, j)
  <2>1. \A i \in Slots : remainingTime'[tasks[i]] \in Nat
    BY <1>2, <1>4
  <2>2. QED
    BY <1>2, <2>1, FirstByLeast
<1>6. Dispatch(best)
  BY DEF srtf
<1> HIDE DEF best
<1>7. /\ TypeOK' /\ TableInv' /\ BootInv' /\ ContextInv'
      /\ currentTask' = best /\ Slots' = Slots /\ tasks' = tasks
  BY <1>1, <1>4, <1>5, <1>6, DispatchKeepsContexts
<1>8. \A i \in Slots : remainingTime'[tasks[best]] <= remainingTime'[tasks[i]]
  <2>1. \A i \in Slots : remainingTime'[tasks[i]] \in Nat
    BY <1>2, <1>4
  <2>2. QED
    BY <1>5, <2>1 DEF Before
<1>9. ASSUME NEW t \in Task, t # tasks[best]
      PROVE  remainingTime'[t] \in {Burst[t], UintSize - 1}
  <2>1. CASE currentTask = -1
    BY <1>1, <1>9, <2>1 DEF srtf, SrtfInv
  <2>2. CASE currentTask # -1
    <3>1. currentTask \in Slots /\ currentTask >= 0
      BY <1>2, <2>2 DEF Slots
    <3> DEFINE c == tasks[currentTask]
    <3>2. c \in Task /\ remainingTime[c] \in 0 .. UintSize - 1
      BY <1>2, <1>3, <3>1
    <3>3. /\ remainingTime'[c] =
               IF remainingTime[c] = 0 THEN UintSize - 1 ELSE remainingTime[c] - 1
          /\ \A u \in Task \ {c} : remainingTime'[u] = remainingTime[u]
      <4>1. remainingTime' = [remainingTime EXCEPT ![c] = (remainingTime[c] - 1) % UintSize]
        BY <3>1 DEF srtf
      <4>2. QED
        BY <1>3, <3>2, <4>1, Decrement
    <3>4. CASE t # c
      BY <1>1, <3>1, <3>3, <3>4 DEF SrtfInv
    <3>5. CASE t = c
      <4>1. CASE remainingTime[c] = 0
        BY <3>3, <3>5, <4>1
      <4>2. CASE remainingTime[c] # 0
        <5>1. tasks[best] # c /\ tasks[best] \in Task
          BY <1>2, <1>5, <1>9, <3>5
        <5>2. remainingTime'[tasks[best]] = remainingTime[tasks[best]]
          BY <3>3, <5>1
        <5>3. remainingTime[c] <= remainingTime[tasks[best]]
          BY <1>1, <1>5, <3>1 DEF SrtfInv
        <5>4. remainingTime'[tasks[best]] <= remainingTime'[c]
          BY <1>8, <3>1
        <5>5. remainingTime[tasks[best]] \in Nat
          BY <1>3, <5>1
        <5>6. QED
          BY <3>2, <3>3, <4>2, <5>2, <5>3, <5>4, <5>5
      <4>3. QED
        BY <4>1, <4>2
    <3>6. QED
      BY <3>4, <3>5
  <2>3. QED
    BY <2>1, <2>2
<1>10. SrtfInv'
  <2>1. currentTask' = best /\ best >= 0
    BY <1>2, <1>5, <1>7
  <2>2. \A i \in Slots' : remainingTime'[tasks'[currentTask']] <= remainingTime'[tasks'[i]]
    BY <1>7, <1>8
  <2>3. ASSUME NEW t \in Task
        PROVE  \/ remainingTime'[t] \in {Burst[t], UintSize - 1}
               \/ currentTask' >= 0 /\ t = tasks'[currentTask']
    BY <1>7, <1>9, <2>1
  <2>4. QED
    BY <2>2, <2>3 DEF SrtfInv
<1>11. ASSUME running' # running, running # Boot
       PROVE  remainingTime[running] = 0 /\ remainingTime'[running] = UintSize - 1
  <2> DEFINE c == tasks[currentTask]
  <2>1. currentTask \in Slots /\ currentTask >= 0 /\ running = c
    BY <1>1, <1>2, <1>11 DEF ContextInv, Slots
  <2>2. c \in Task /\ remainingTime[c] \in 0 .. UintSize - 1
    BY <1>2, <1>3, <2>1
  <2>3. /\ remainingTime'[c] =
             IF remainingTime[c] = 0 THEN UintSize - 1 ELSE remainingTime[c] - 1
        /\ \A u \in Task \ {c} : remainingTime'[u] = remainingTime[u]
    <3>1. remainingTime' = [remainingTime EXCEPT ![c] = (remainingTime[c] - 1) % UintSize]
      BY <2>1 DEF srtf
    <3>2. QED
      BY <1>3, <2>2, <3>1, Decrement
  <2>4. tasks[best] # c /\ tasks[best] \in Task
    <3>1. running' = tasks'[best]
      BY <1>2, <1>5, <1>7 DEF ContextInv
    <3>2. QED
      BY <1>2, <1>5, <1>7, <1>11, <2>1, <3>1
  <2>5. remainingTime'[tasks[best]] <= remainingTime'[c]
    BY <1>8, <2>1
  <2>6. remainingTime[c] <= remainingTime[tasks[best]]
    BY <1>1, <1>5, <2>1 DEF SrtfInv
  <2>7. remainingTime'[tasks[best]] = remainingTime[tasks[best]]
    BY <2>3, <2>4
  <2>8. remainingTime[tasks[best]] \in Nat
    BY <1>3, <2>4
  <2>9. remainingTime[c] = 0
    BY <2>2, <2>3, <2>5, <2>6, <2>7, <2>8
  <2>10. QED
    BY <2>1, <2>3, <2>9
<1>12. QED
  BY <1>7, <1>10, <1>11 DEF PInv

LEMMA PolicyStepPInv == PInv /\ [PolicyNext]_policyVars => PInv'
<1> SUFFICES ASSUME PInv, [PolicyNext]_policyVars PROVE PInv'
  OBVIOUS
<1>1. CASE Setup /\ UNCHANGED policy
  <2>1. TypeOK /\ TableInv /\ BootInv
    BY DEF PInv
  <2>2. /\ TypeOK' /\ TableInv' /\ BootInv'
        /\ currentTask = -1 /\ currentTask' = -1
        /\ UNCHANGED <<cpustate, remainingTime, running>>
    BY <1>1, <2>1, SetupKeepsTable
  <2>3. running = Boot
    BY <2>2 DEF PInv, FcfsInv, ContextInv
  <2>4. QED
    BY <1>1, <2>2, <2>3, QuietPolicies DEF PInv
<1>2. CASE UNCHANGED policyVars
  BY <1>2 DEF policyVars, vars, PInv, TypeOK, TableInv, BootInv, ContextInv, FcfsInv,
              SjfInv, SrtfInv, PriorityInv, Before, Slots, Admitted
<1>3. CASE TickEmpty /\ UNCHANGED policy
  BY <1>2, <1>3 DEF TickEmpty, policyVars
<1>4. CASE PolicyTick /\ UNCHANGED policy
  BY <1>4, FcfsKeeps, SjfKeeps, SrtfKeeps, PriorityKeeps DEF PolicyTick
<1>5. QED
  BY <1>1, <1>2, <1>3, <1>4 DEF PolicyNext

\* PInv holds with any of the schedulers, whatever kernelMain adds and however
\* often the timer ticks.
THEOREM PolicyInvariance == PolicySpec => []PInv
BY PolicyInitPInv, PolicyStepPInv, PTL DEF PolicySpec

\* sjf(), srtf() and prioritySchedule() keep every context exactly once;
\* fcfs() loses that of the first task and dispatches nobody.
THEOREM PoliciesKeepAllContexts == PolicySpec => []PoliciesKeepContexts
<1>1. PInv => PoliciesKeepContexts
  <2> SUFFICES ASSUME PInv PROVE PoliciesKeepContexts
    OBVIOUS
  <2>1. Admitted \subseteq Task
    BY SlotsHoldTasks DEF PInv
  <2>2. CASE policy = "fcfs"
    BY <2>2, TaskAssumption DEF PInv, FcfsInv, PoliciesKeepContexts
  <2>3. CASE policy # "fcfs"
    BY <2>1, <2>3 DEF PInv, ContextInv, PoliciesKeepContexts, ContextsKept
  <2>4. QED
    BY <2>2, <2>3
<1>2. QED
  BY <1>1, PolicyInvariance, PTL

\* The first job sjf() chooses is the shortest, and is never replaced.
THEOREM SjfKeepsItsFirst == PolicySpec => SjfMonopoly
<1>1. PInv /\ [PolicyNext]_policyVars =>
        [policy = "sjf" /\ running' # running =>
           /\ running = Boot
           /\ \A t \in Admitted : Burst[t] > 0 => Burst[running'] <= Burst[t]]_policyVars
  <2> SUFFICES ASSUME PInv, PolicyNext, policy = "sjf", running' # running
               PROVE  /\ running = Boot
                      /\ \A t \in Admitted : Burst[t] > 0 => Burst[running'] <= Burst[t]
    OBVIOUS
  <2>1. ~Setup /\ ~TickEmpty
    BY DEF Setup, AddTaskReserve, AddTaskStore, Activate, TickEmpty, vars
  <2>2. sjf /\ UNCHANGED policy
    BY <2>1 DEF PolicyNext, PolicyTick
  <2>3. QED
    BY <2>2, SjfKeeps
<1>2. QED
  BY <1>1, PolicyInvariance, PTL DEF PolicySpec, SjfMonopoly

\* srtf() preempts only after a burst is over and its counter has wrapped, for
\* counters of any width.
THEOREM SrtfPreemptsLate == PolicySpec => SrtfOverruns
<1>1. PInv /\ [PolicyNext]_policyVars =>
        [policy = "srtf" /\ running' # running /\ running # Boot =>
           /\ remainingTime[running] = 0
           /\ remainingTime'[running] = UintSize - 1]_policyVars
  <2> SUFFICES ASSUME PInv, PolicyNext, policy = "srtf",
                      running' # running, running # Boot
               PROVE  /\ remainingTime[running] = 0
                      /\ remainingTime'[running] = UintSize - 1
    OBVIOUS
  <2>1. ~Setup /\ ~TickEmpty
    BY DEF Setup, AddTaskReserve, AddTaskStore, Activate, TickEmpty, vars
  <2>2. srtf /\ UNCHANGED policy
    BY <2>1 DEF PolicyNext, PolicyTick
  <2>3. QED
    BY <2>2, SrtfKeeps
<1>2. QED
  BY <1>1, PolicyInvariance, PTL DEF PolicySpec, SrtfOverruns

\* prioritySchedule() runs the first task of the smallest priority value.
THEOREM PriorityRunsFirst == PolicySpec => []PriorityFirst
<1>1. PInv => PriorityFirst
  <2> SUFFICES ASSUME PInv, policy = "prioritySchedule", running # Boot
               PROVE  PriorityFirst
    BY DEF PriorityFirst
  <2>1. currentTask >= 0 /\ running = tasks[currentTask]
    BY DEF PInv, TypeOK, ContextInv
  <2>2. QED
    BY <2>1 DEF PInv, PriorityInv, Before, PriorityFirst
<1>2. QED
  BY <1>1, PolicyInvariance, PTL
=============================================================================
