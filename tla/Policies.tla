------------------------------ MODULE Policies ------------------------------
(***************************************************************************)
(* The system of TaskManager with any one of the schedulers that           *)
(* doHandleInterrupt could call instead of schedule().                     *)
(***************************************************************************)
EXTENDS TaskManager

VARIABLE policy         \* the scheduler that is compiled in

policyVars == <<vars, policy>>

PolicyInit ==
  /\ Init
  /\ policy \in {"fcfs", "sjf", "srtf", "prioritySchedule"}

PolicyTick ==
  \/ policy = "fcfs" /\ fcfs
  \/ policy = "sjf"  /\ sjf
  \/ policy = "srtf" /\ srtf
  \/ policy = "prioritySchedule" /\ prioritySchedule

PolicyNext == (Setup \/ TickEmpty \/ PolicyTick) /\ UNCHANGED policy

PolicySpec == PolicyInit /\ [][PolicyNext]_policyVars

-----------------------------------------------------------------------------
(* Properties.                                                             *)

\* The three schedulers that choose a task keep, like schedule(), the context
\* of every admitted task exactly once.  fcfs() serves nobody: it stores the
\* frame of kernelMain in the task that came first (multitasking.cpp:100) and
\* resumes it, and from the first tick on the context of that task is nowhere.
PoliciesKeepContexts ==
  IF policy # "fcfs" THEN ContextsKept
  ELSE currentTask >= 0 => running = Boot /\ \A t \in Task : cpustate[t] # tasks[0]

\* sjf() gives the CPU to a shortest job first and, since nothing counts
\* remainingTime down, never takes it away again.
SjfMonopoly ==
  [][policy = "sjf" /\ running' # running =>
       /\ running = Boot
       /\ \A t \in Admitted : Burst[t] > 0 => Burst[running'] <= Burst[t]]_policyVars

\* srtf() takes the CPU away from a task only after the burst is over, and one
\* tick late: it compares the times without leaving out a task that has none
\* left, so that 0 keeps the CPU until the unsigned counter has wrapped
\* (multitasking.cpp:139-149).
SrtfOverruns ==
  [][policy = "srtf" /\ running' # running /\ running # Boot =>
       /\ remainingTime[running] = 0
       /\ remainingTime'[running] = UintSize - 1]_policyVars

\* prioritySchedule() runs a task of the smallest priority value, of equals the
\* one that was added first, and nobody else ever.
PriorityFirst ==
  policy = "prioritySchedule" /\ running # Boot =>
    \A i \in Slots : \/ Priority[running] < Priority[tasks[i]]
                     \/ Priority[running] = Priority[tasks[i]] /\ currentTask <= i
=============================================================================
