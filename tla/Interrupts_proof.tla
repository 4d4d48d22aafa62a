-------------------------- MODULE Interrupts_proof --------------------------
(***************************************************************************)
(* Proofs about interrupt delivery: one inductive invariant, IInv, and the *)
(* safety and action properties of module Interrupts that follow from it,  *)
(* for every set of interrupt lines.                                       *)
(***************************************************************************)
EXTENDS Interrupts, TLAPS

\* The CPU and the handler agree: a frame on the CPU means IF is clear and a
\* stub is running, and only gated interrupts reach doHandleInterrupt.
FrameInv ==
  /\ frame = NoIRQ <=> at = "idle"
  /\ frame # NoIRQ => ~intFlag
  /\ at \in {"service", "eoi"} => frame \in Gated
  /\ at = "ignore" => frame \notin Gated

\* What is being handled came through above everything left open before it.
PriorityInv ==
  at \in {"service", "eoi", "ignore"} =>
    \A m \in missed : Line(frame) < Line(m)

\* Nothing happens before the first sti.
QuietInv ==
  pc \in BeforeSti \/ activations = 0 =>
    ~intFlag /\ frame = NoIRQ /\ missed = {}

\* Where kernelMain stands, by the number of activations behind it.
ProgressInv ==
  /\ activations = 0 =>
       /\ pc \in BeforeSti \cup {"activate", "publish", "sti"}
       /\ activeInterruptManager => pc = "sti"
  /\ activations = 2 => pc \in {"spin", "crashed"}
  /\ pc = "sti" => activeInterruptManager
  /\ ~activeInterruptManager => pc = "cli" \/ (~intFlag /\ frame = NoIRQ)
  /\ pc = "mouse" => 1 \in interruptHandler
  /\ pc \notin BeforeSti => {1, 12} \subseteq interruptHandler

IInv ==
  /\ TypeOK
  /\ FrameInv
  /\ ServiceAccounted
  /\ PriorityInv
  /\ QuietInv
  /\ ProgressInv
  /\ ClaimedMissOnlyInWindow

-----------------------------------------------------------------------------
(* The non-specific EOI.                                                   *)

\* While doHandleInterrupt sends its EOI, the highest priority in service on
\* the master is the line of the interrupt being handled, and on the slave the
\* interrupt itself: clearing the highest priority leaves what was missed.
LEMMA EOIClearsFrame ==
  ASSUME IInv, at = "eoi"
  PROVE  /\ AfterEOI(isrM) = isrM \ {Line(frame)}
         /\ AfterEOI(isrM) = {Line(m) : m \in missed}
         /\ Line(frame) \in isrM
         /\ frame >= 8 => isrS = {frame} /\ AfterEOI(isrS) = {}
         /\ \A m \in missed : frame >= 8 => m < 8
         /\ isrS = (missed \cup {frame}) \cap (8 .. 15)
<1>1. /\ frame \in IRQs
      /\ missed \subseteq IRQs
      /\ \A m \in missed : Line(frame) < Line(m)
      /\ isrM = {Line(m) : m \in missed \cup {frame}}
      /\ isrS = (missed \cup {frame}) \cap (8 .. 15)
  BY DEF IInv, TypeOK, FrameInv, Gated, IRQs, PriorityInv, ServiceAccounted,
         Open
<1>2. \A i \in IRQs : Line(i) \in Int
  BY DEF Line, IRQs, Cascade
<1>3. \A j \in isrM : j \in Int /\ Line(frame) <= j /\
                       (j # Line(frame) => Line(frame) < j)
  BY <1>1, <1>2
<1>4. Line(frame) \in isrM
  BY <1>1
<1>5. AfterEOI(isrM) = isrM \ {Line(frame)}
  BY <1>3, <1>4 DEF AfterEOI
<1>6. AfterEOI(isrM) = {Line(m) : m \in missed}
  BY <1>1, <1>2, <1>5
<1>7. \A m \in missed : frame >= 8 => m < 8
  BY <1>1 DEF Line, IRQs, Cascade
<1>8. ASSUME frame >= 8
      PROVE  isrS = {frame} /\ AfterEOI(isrS) = {}
  <2>1. isrS = {frame}
    BY <1>1, <1>7, <1>8 DEF IRQs
  <2>2. QED
    BY <1>1, <2>1 DEF AfterEOI, IRQs
<1>9. QED
  BY <1>1, <1>4, <1>5, <1>6, <1>7, <1>8

-----------------------------------------------------------------------------
(* IInv is inductive.                                                      *)

LEMMA InitIInv == Init => IInv
<1> SUFFICES ASSUME Init PROVE IInv
  OBVIOUS
<1>1. TypeOK
  <2>1. /\ irr \subseteq IRQs /\ isrM \subseteq 0 .. 7 /\ isrS \subseteq 8 .. 15
        /\ interruptHandler \subseteq IRQs /\ missed \subseteq IRQs
    BY DEF Init
  <2>2. activations \in 0 .. 2 /\ frame \in IRQs \cup {NoIRQ}
    BY DEF Init
  <2>3. pc \in PCs /\ at \in {"idle", "service", "eoi", "iret", "ignore"}
    BY DEF Init, PCs, BeforeSti
  <2>4. QED
    BY <2>1, <2>2, <2>3 DEF Init, TypeOK
<1>2. ServiceAccounted
  BY DEF Init, ServiceAccounted, Open
<1>3. QuietInv /\ ProgressInv /\ FrameInv
  BY DEF Init, QuietInv, ProgressInv, FrameInv, BeforeSti, Gated
<1>4. PriorityInv /\ ClaimedMissOnlyInWindow
  BY DEF Init, PriorityInv, ClaimedMissOnlyInWindow
<1>5. QED
  BY <1>1, <1>2, <1>3, <1>4 DEF IInv

\* The steps of kernelMain: they run with no interrupt on the CPU and leave
\* the history alone.
LEMMA BootStep == IInv /\ Boot => IInv'
<1> SUFFICES ASSUME IInv, Boot PROVE IInv'
  OBVIOUS
<1> USE DEF At, Goto, IInv, pic
<1>1. CASE ConstructManager
  BY <1>1 DEF ConstructManager, TypeOK, FrameInv, ServiceAccounted, Open,
     PriorityInv, QuietInv, ProgressInv, ClaimedMissOnlyInWindow, BeforeSti,
     PCs, Gated
<1>2. CASE ConstructKeyboard
  BY <1>2 DEF ConstructKeyboard, RegisterHandler, TypeOK, FrameInv,
     ServiceAccounted, Open, PriorityInv, QuietInv, ProgressInv,
     ClaimedMissOnlyInWindow, BeforeSti, PCs, IRQs
<1>3. CASE ConstructMouse
  BY <1>3 DEF ConstructMouse, RegisterHandler, TypeOK, FrameInv,
     ServiceAccounted, Open, PriorityInv, QuietInv, ProgressInv,
     ClaimedMissOnlyInWindow, BeforeSti, PCs, IRQs
<1>4. CASE TestActive
  BY <1>4 DEF TestActive, TypeOK, FrameInv, ServiceAccounted, Open,
     PriorityInv, QuietInv, ProgressInv, ClaimedMissOnlyInWindow, BeforeSti,
     PCs
<1>5. CASE Forget
  BY <1>5 DEF Forget, TypeOK, FrameInv, ServiceAccounted, Open, PriorityInv,
     QuietInv, ProgressInv, ClaimedMissOnlyInWindow, BeforeSti, PCs
<1>6. CASE Cli
  BY <1>6 DEF Cli, TypeOK, FrameInv, ServiceAccounted, Open, PriorityInv,
     QuietInv, ProgressInv, ClaimedMissOnlyInWindow, BeforeSti, PCs
<1>7. CASE Publish
  BY <1>7 DEF Publish, TypeOK, FrameInv, ServiceAccounted, Open, PriorityInv,
     QuietInv, ProgressInv, ClaimedMissOnlyInWindow, BeforeSti, PCs
<1>8. CASE Sti
  BY <1>8 DEF Sti, TypeOK, FrameInv, ServiceAccounted, Open, PriorityInv,
     QuietInv, ProgressInv, ClaimedMissOnlyInWindow, BeforeSti, PCs
<1>9. CASE ProbeDevices
  BY <1>9 DEF ProbeDevices, TypeOK, FrameInv, ServiceAccounted, Open,
     PriorityInv, QuietInv, ProgressInv, ClaimedMissOnlyInWindow, BeforeSti,
     PCs
<1>10. CASE Halt
  BY <1>10 DEF Halt, vars, kernel, TypeOK, FrameInv, ServiceAccounted, Open,
     PriorityInv, QuietInv, ProgressInv, ClaimedMissOnlyInWindow
<1>11. QED
  BY <1>1, <1>2, <1>3, <1>4, <1>5, <1>6, <1>7, <1>8, <1>9, <1>10 DEF Boot

\* The steps of a handler.
LEMMA HandlerStep == IInv /\ Handler => IInv'
<1> SUFFICES ASSUME IInv, Handler PROVE IInv'
  OBVIOUS
<1> USE DEF kernel, pic
<1>1. CASE Service
  <2>1. frame \in Gated /\ frame \in IRQs /\ frame # NoIRQ /\ ~intFlag
    BY <1>1 DEF Service, IInv, FrameInv, Gated, IRQs, NoIRQ
  <2>2. TypeOK' /\ FrameInv' /\ QuietInv' /\ ProgressInv'
    BY <1>1, <2>1 DEF Service, IInv, TypeOK, FrameInv, QuietInv, ProgressInv
  <2>3. Open' = Open
    BY <1>1 DEF Service, Open
  <2>4. ServiceAccounted'
    BY <1>1, <2>3 DEF Service, IInv, ServiceAccounted
  <2>5. PriorityInv'
    BY <1>1 DEF Service, IInv, PriorityInv
  <2>6. ClaimedMissOnlyInWindow'
    BY <1>1, <2>1 DEF Service, IInv, ClaimedMissOnlyInWindow, ProgressInv,
                      TypeOK, QuietInv
  <2>7. QED
    BY <2>2, <2>4, <2>5, <2>6 DEF IInv
<1>2. CASE EndOfInterrupt
  <2>1. /\ AfterEOI(isrM) = isrM \ {Line(frame)}
        /\ AfterEOI(isrM) = {Line(m) : m \in missed}
        /\ frame >= 8 => isrS = {frame} /\ AfterEOI(isrS) = {}
        /\ \A m \in missed : frame >= 8 => m < 8
        /\ isrS = (missed \cup {frame}) \cap (8 .. 15)
    BY <1>2, EOIClearsFrame DEF EndOfInterrupt
  <2>2. frame \in Gated /\ frame \in IRQs /\ missed \subseteq IRQs
    BY <1>2 DEF EndOfInterrupt, IInv, FrameInv, TypeOK, Gated, IRQs
  <2>3. isrS' = missed \cap (8 .. 15)
    BY <1>2, <2>1, <2>2 DEF EndOfInterrupt, IRQs
  <2>4. Open' = missed
    BY <1>2 DEF EndOfInterrupt, Open
  <2>5. ServiceAccounted'
    BY <1>2, <2>1, <2>3, <2>4 DEF EndOfInterrupt, ServiceAccounted
  <2>6. TypeOK'
    BY <1>2, <2>1, <2>3 DEF EndOfInterrupt, IInv, TypeOK
  <2>7. FrameInv' /\ QuietInv' /\ ProgressInv' /\ PriorityInv'
    BY <1>2 DEF EndOfInterrupt, IInv, FrameInv, QuietInv, ProgressInv,
                PriorityInv
  <2>8. ClaimedMissOnlyInWindow'
    BY <1>2 DEF EndOfInterrupt, IInv, ClaimedMissOnlyInWindow
  <2>9. QED
    BY <2>5, <2>6, <2>7, <2>8 DEF IInv
<1>3. CASE Iret
  <2>1. TypeOK' /\ FrameInv' /\ QuietInv' /\ ProgressInv' /\ PriorityInv'
    BY <1>3 DEF Iret, IInv, TypeOK, FrameInv, QuietInv, ProgressInv,
                PriorityInv, NoIRQ, Gated
  <2>2. Open' = Open
    BY <1>3 DEF Iret, Open
  <2>3. ServiceAccounted' /\ ClaimedMissOnlyInWindow'
    BY <1>3, <2>2 DEF Iret, IInv, ServiceAccounted, ClaimedMissOnlyInWindow
  <2>4. QED
    BY <2>1, <2>3 DEF IInv
<1>4. CASE IgnoreInterrupt
  <2>1. TypeOK'
    BY <1>4 DEF IgnoreInterrupt, IInv, TypeOK, FrameInv, PCs
  <2>2. Open' = Open
    BY <1>4 DEF IgnoreInterrupt, Open
  <2>3. ServiceAccounted'
    BY <1>4, <2>2 DEF IgnoreInterrupt, IInv, ServiceAccounted
  <2>4. FrameInv' /\ PriorityInv' /\ QuietInv' /\ ProgressInv'
    BY <1>4 DEF IgnoreInterrupt, IInv, FrameInv, PriorityInv, QuietInv,
                ProgressInv, BeforeSti, Gated, NoIRQ, TypeOK
  <2>5. ClaimedMissOnlyInWindow'
    BY <1>4 DEF IgnoreInterrupt, IInv, FrameInv, ClaimedMissOnlyInWindow
  <2>6. QED
    BY <2>1, <2>3, <2>4, <2>5 DEF IInv
<1>5. QED
  BY <1>1, <1>2, <1>3, <1>4 DEF Handler

\* A request, and its acceptance by the CPU.
LEMMA LineStep ==
  ASSUME IInv, NEW i \in Lines, Raise(i) \/ Accept(i)
  PROVE  IInv'
<1>0. i \in IRQs /\ i # NoIRQ
  BY LinesAssumption DEF IRQs, NoIRQ
<1> USE DEF kernel, pic
<1>1. CASE Raise(i)
  <2>1. TypeOK' /\ FrameInv' /\ QuietInv' /\ ProgressInv' /\ PriorityInv'
    BY <1>0, <1>1 DEF Raise, IInv, TypeOK, FrameInv, QuietInv, ProgressInv,
                      PriorityInv
  <2>2. ServiceAccounted' /\ ClaimedMissOnlyInWindow'
    BY <1>1 DEF Raise, IInv, ServiceAccounted, Open, ClaimedMissOnlyInWindow
  <2>3. QED
    BY <2>1, <2>2 DEF IInv
<1>2. CASE Accept(i)
  <2>1. at = "idle" /\ intFlag /\ Open = missed
    BY <1>2 DEF Accept, IInv, FrameInv, Open
  <2>2. \A m \in missed : Line(i) < Line(m)
    BY <1>2, <2>1 DEF Accept, Offered, IInv, ServiceAccounted
  <2>3. PriorityInv'
    BY <1>2, <2>2 DEF Accept, PriorityInv, Line
  <2>4. Open' = missed \cup {i}
    BY <1>2 DEF Accept, Open
  <2>5. ServiceAccounted'
    <3>1. isrM' = {Line(m) : m \in Open'}
      BY <1>2, <2>1, <2>4 DEF Accept, IInv, ServiceAccounted, Line
    <3>2. isrS' = Open' \cap (8 .. 15)
      BY <1>0, <1>2, <2>1, <2>4 DEF Accept, IInv, ServiceAccounted, IRQs
    <3>3. QED
      BY <3>1, <3>2 DEF ServiceAccounted, Line
  <2>6. TypeOK'
    <3>1. Line(i) \in 0 .. 7 /\ (i >= 8 => i \in 8 .. 15)
      BY <1>0 DEF Line, Cascade, IRQs
    <3>2. isrM' \subseteq 0 .. 7 /\ isrS' \subseteq 8 .. 15
      BY <1>2, <3>1 DEF Accept, IInv, TypeOK
    <3>3. QED
      BY <1>0, <1>2, <3>2 DEF Accept, IInv, TypeOK
  <2>7. FrameInv' /\ QuietInv' /\ ProgressInv'
    BY <1>0, <1>2 DEF Accept, IInv, FrameInv, QuietInv, ProgressInv
  <2>8. ClaimedMissOnlyInWindow'
    BY <1>2 DEF Accept, IInv, ClaimedMissOnlyInWindow
  <2>9. QED
    BY <2>3, <2>5, <2>6, <2>7, <2>8 DEF IInv
<1>3. QED
  BY <1>1, <1>2

LEMMA StepIInv == IInv /\ [Next]_vars => IInv'
<1> SUFFICES ASSUME IInv, [Next]_vars PROVE IInv'
  OBVIOUS
<1>1. CASE UNCHANGED vars
  BY <1>1 DEF vars, pic, kernel, IInv, TypeOK, FrameInv, ServiceAccounted,
     Open, PriorityInv, QuietInv, ProgressInv, ClaimedMissOnlyInWindow, Line
<1>2. CASE Next
  BY <1>2, BootStep, HandlerStep, LineStep DEF Next
<1>3. QED
  BY <1>1, <1>2

\* IInv holds in every state the boot sequence and the interrupts of any set of
\* lines can reach.
THEOREM Invariance == Spec => []IInv
BY InitIInv, StepIInv, PTL DEF Spec

-----------------------------------------------------------------------------
(* What follows.                                                           *)

\* The variables of the 8259s, of the CPU and of kernelMain keep their types.
THEOREM TypeCorrect == Spec => []TypeOK
BY Invariance, PTL DEF IInv

\* doHandleInterrupt keeps the in-service registers equal to the interrupts
\* that still await an EOI, whatever lines are wired.
THEOREM ServiceAccounting == Spec => []ServiceAccounted
BY Invariance, PTL DEF IInv

\* Before the second activate() (kernel.cpp:166) no interrupt with a gate and a
\* driver is left without its EOI.
THEOREM MissOnlyInWindow == Spec => []ClaimedMissOnlyInWindow
BY Invariance, PTL DEF IInv

\* The table of drivers is filled before doHandleInterrupt can read it.
THEOREM DriversAlwaysReady == Spec => []DriversReady
<1>1. IInv => DriversReady
  BY DEF IInv, DriversReady, FrameInv, QuietInv, ProgressInv, Gated, NoIRQ
<1>2. QED
  BY <1>1, Invariance, PTL

\* The non-specific EOIs of doHandleInterrupt retire the interrupt it handled.
THEOREM EOIRetires == Spec => EOIRetiresOwn
<1> DEFINE Step == at = "eoi" /\ at' = "iret"
                     => /\ isrM \ isrM' = {Line(frame)}
                        /\ isrS \ isrS' = {frame} \cap (8 .. 15)
<1>1. ASSUME IInv, Next, at = "eoi", at' = "iret"
      PROVE  Step
  <2>1. EndOfInterrupt
    BY <1>1 DEF IInv, FrameInv, Next, Boot, Handler, ConstructManager,
       ConstructKeyboard, ConstructMouse, RegisterHandler, TestActive, Forget,
       Cli, Publish, Sti, ProbeDevices, Halt, At, Goto, Service, Iret,
       IgnoreInterrupt, Raise, Accept, Gated, NoIRQ
  <2>2. /\ AfterEOI(isrM) = isrM \ {Line(frame)}
        /\ Line(frame) \in isrM
        /\ frame >= 8 => isrS = {frame} /\ AfterEOI(isrS) = {}
    BY <1>1, EOIClearsFrame
  <2>3. frame \in IRQs
    BY <1>1 DEF IInv, FrameInv, Gated, IRQs
  <2>4. isrM \ isrM' = {Line(frame)}
    BY <2>1, <2>2 DEF EndOfInterrupt
  <2>5. isrS \ isrS' = {frame} \cap (8 .. 15)
    <3>1. CASE frame >= 8
      <4>1. isrS = {frame} /\ isrS' = {} /\ frame \in 8 .. 15
        BY <2>1, <2>2, <2>3, <3>1 DEF EndOfInterrupt, IRQs
      <4>2. QED
        BY <4>1
    <3>2. CASE ~(frame >= 8)
      <4>1. isrS' = isrS /\ frame \notin 8 .. 15
        BY <2>1, <2>3, <3>2 DEF EndOfInterrupt, IRQs
      <4>2. QED
        BY <4>1
    <3>3. QED
      BY <3>1, <3>2
  <2>6. QED
    BY <2>4, <2>5
<1>2. IInv /\ [Next]_vars => [Step]_vars
  BY <1>1
<1>3. QED
  BY <1>2, Invariance, PTL DEF Spec, EOIRetiresOwn

\* One interrupt that gets no EOI silences its line and every line below it.
THEOREM MissMasks == Spec => MissedMasksLower
<1> DEFINE Step == frame' # frame /\ frame' # NoIRQ
                     => \A m \in missed : Line(frame') < Line(m)
<1>1. ASSUME IInv, Next, frame' # frame, frame' # NoIRQ
      PROVE  Step
  <2>1. PICK i \in Lines : Accept(i)
    BY <1>1 DEF IInv, FrameInv, Next, Boot, Handler, ConstructManager,
       ConstructKeyboard, ConstructMouse, RegisterHandler, TestActive, Forget,
       Cli, Publish, Sti, ProbeDevices, Halt, vars, At, Goto, Service,
       EndOfInterrupt, Iret, IgnoreInterrupt, Raise
  <2>2. Open = missed /\ frame' = i
    BY <1>1, <2>1 DEF Accept, IInv, FrameInv, Open
  <2>3. \A k \in isrM : Line(i) < k
    BY <2>1 DEF Accept, Offered
  <2>4. \A m \in missed : Line(m) \in isrM
    BY <1>1, <2>2 DEF IInv, ServiceAccounted
  <2>5. QED
    BY <2>2, <2>3, <2>4
<1>2. IInv /\ [Next]_vars => [Step]_vars
  BY <1>1
<1>3. QED
  BY <1>2, Invariance, PTL DEF Spec, MissedMasksLower

\* DeafForGood: after an unclaimed interrupt nothing sets IF again but the sti of
\* an activate() still to come, since ignoreInterruptRequest returns with ret
\* (interrupts.cpp:142).
THEOREM Deaf == Spec => DeafForGood
<1> DEFINE StillDeaf == ~intFlag' /\ at' \in {"ignore", "idle"}
           Revived   == pc = "sti" /\ activations' = activations + 1 /\ activations' <= 2
           Step      == ~intFlag /\ at \in {"ignore", "idle"} => StillDeaf \/ Revived
<1>1. ASSUME IInv, [Next]_vars, ~intFlag, at \in {"ignore", "idle"}
      PROVE  StillDeaf \/ Revived
  <2>1. CASE Sti
    <3>1. activations \in {0, 1}
      BY <1>1, <2>1 DEF IInv, TypeOK, ProgressInv, Sti, At
    <3>2. QED
      BY <2>1, <3>1 DEF Sti, At
  <2>2. CASE Boot /\ ~Sti
    BY <1>1, <2>2 DEF Boot, ConstructManager, ConstructKeyboard, ConstructMouse,
       RegisterHandler, TestActive, Forget, Cli, Publish, ProbeDevices, Halt, vars,
       At, Goto
  <2>3. CASE Handler
    BY <1>1, <2>3 DEF Handler, Service, EndOfInterrupt, Iret, IgnoreInterrupt
  <2>4. CASE \E i \in Lines : Raise(i) \/ Accept(i)
    BY <1>1, <2>4 DEF Raise, Accept
  <2>5. CASE UNCHANGED vars
    BY <1>1, <2>5 DEF vars
  <2>6. QED
    BY <1>1, <2>1, <2>2, <2>3, <2>4, <2>5 DEF Next
<1>2. IInv /\ [Next]_vars => [Step]_vars
  BY <1>1
<1>3. QED
  BY <1>2, Invariance, PTL DEF Spec, DeafForGood
=============================================================================
