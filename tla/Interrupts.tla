----------------------------- MODULE Interrupts -----------------------------
(***************************************************************************)
(* Interrupt delivery in Blue OS: the two cascaded 8259 controllers as     *)
(* InterruptManager programs them, the IDT gates and assembly stubs, the   *)
(* dispatch in handleInterrupt/doHandleInterrupt, and the part of          *)
(* kernelMain that can be interrupted, down to the single instructions of  *)
(* activate() and deactivate().                                            *)
(*                                                                         *)
(* An interrupt is named by its IRQ number; its vector is 0x20 + IRQ.      *)
(* kernelMain adds no task (kernel.cpp:113-115 are commented out), so      *)
(* taskManager->schedule() returns its argument and changes nothing here.  *)
(***************************************************************************)
EXTENDS Integers

CONSTANT Lines                \* the IRQ inputs with a device behind them

IRQs    == (0 .. 15) \ {2}    \* input 2 of the master carries the slave
Cascade == 2
NoIRQ   == 16

ASSUME LinesAssumption == Lines \subseteq IRQs

VARIABLES
  irr,                      \* requests latched by the 8259 pair
  isrM,                     \* in-service register of the master (inputs)
  isrS,                     \* in-service register of the slave (IRQs)
  intFlag,                    \* interrupt flag of the CPU
  activeInterruptManager,   \* is the static pointer non-null
  interruptHandler,         \* the IRQs whose slot of the table is non-null
  pc,                       \* next statement of kernelMain
  activations,              \* calls of interrupts.activate() completed
  frame,                    \* the interrupt on the CPU, or NoIRQ
  at,                       \* how far its handling has come
  missed                    \* history: interrupts left without an EOI

pic    == <<irr, isrM, isrS>>
kernel == <<activeInterruptManager, interruptHandler, pc, activations>>
vars   == <<pic, intFlag, kernel, frame, at, missed>>

\* The gates that are not the default one.
Gated == {0, 1, 12}

\* The master input that carries i, and the order the 8259s serve inputs in.
Line(i) == IF i >= 8 THEN Cascade ELSE i
Before(h, i) == Line(h) < Line(i) \/ (Line(h) = Line(i) /\ h < i)

BeforeSti == {"manager", "keyboard", "mouse"}
PCs == BeforeSti \cup {"activate", "forget", "cli", "publish", "sti",
                       "devices", "spin", "crashed"}

Init ==
  /\ irr = {} /\ isrM = {} /\ isrS = {}
  /\ intFlag = FALSE
  /\ activeInterruptManager = FALSE
  /\ interruptHandler = {}
  /\ pc = "manager"
  /\ activations = 0
  /\ frame = NoIRQ /\ at = "idle"
  /\ missed = {}

-----------------------------------------------------------------------------
(* The 8259 pair.                                                          *)

\* A device drives its request line; the edge stays latched.
Raise(i) ==
  /\ i \notin irr
  /\ irr' = irr \cup {i}
  /\ UNCHANGED <<isrM, isrS, intFlag, kernel, frame, at, missed>>

\* i is the request the pair offers to the CPU: nothing of the same or a
\* higher priority is in service on its way, and no other request comes first.
Offered(i) ==
  /\ i \in irr
  /\ \A k \in isrM : Line(i) < k
  /\ i >= 8 => \A k \in isrS : i < k
  /\ \A h \in irr \ {i} : Before(i, h)

\* What a non-specific EOI clears: the highest priority in service.
AfterEOILowest(isr) == isr \ {i \in isr : \A j \in isr : j <= i}

AfterEOI(isr) == isr \ {i \in isr : \A j \in isr : i <= j}

-----------------------------------------------------------------------------
(* kernelMain.  A thread of control runs only while no handler does.       *)

At(label) == pc = label /\ frame = NoIRQ

Goto(label) == pc' = label /\ UNCHANGED <<frame, at, missed>>

\* RegisterVector, and the other definitions no action below uses, are wrong on
\* purpose: each is the slip one of the properties must notice.
RegisterVector(label, irq, next) ==
  /\ At(label)
  /\ interruptHandler' = interruptHandler \cup {irq + 32}
  /\ Goto(next)
  /\ UNCHANGED <<pic, intFlag, activeInterruptManager, activations>>

\* InterruptManager(): empty table, ICW1..ICW4 to both 8259s, all unmasked.
ConstructManager ==
  /\ At("manager")
  /\ irr' = {} /\ isrM' = {} /\ isrS' = {}
  /\ interruptHandler' = {}
  /\ Goto("keyboard")
  /\ UNCHANGED <<intFlag, activeInterruptManager, activations>>

\* The InterruptHandler base constructor stores `this` in the table.
RegisterHandler(label, irq, next) ==
  /\ At(label)
  /\ interruptHandler' = interruptHandler \cup {irq}
  /\ Goto(next)
  /\ UNCHANGED <<pic, intFlag, activeInterruptManager, activations>>

ConstructKeyboard == RegisterHandler("keyboard", 1, "mouse")
ConstructMouse    == RegisterHandler("mouse", 12, "activate")

\* activate(): deactivate() the manager that is active, if there is one.
TestActive ==
  /\ At("activate")
  /\ Goto(IF activeInterruptManager THEN "forget" ELSE "publish")
  /\ UNCHANGED <<pic, intFlag, activeInterruptManager, interruptHandler,
                 activations>>

\* deactivate(): the pointer is cleared, and the instruction after that is cli.
Forget ==
  /\ At("forget")
  /\ activeInterruptManager' = FALSE
  /\ Goto("cli")
  /\ UNCHANGED <<pic, intFlag, interruptHandler, activations>>

Cli ==
  /\ At("cli")
  /\ intFlag' = FALSE
  /\ Goto("publish")
  /\ UNCHANGED <<pic, activeInterruptManager, interruptHandler, activations>>

PublishNothing ==
  /\ At("publish")
  /\ Goto("sti")
  /\ UNCHANGED <<pic, intFlag, activeInterruptManager, interruptHandler,
                 activations>>

Publish ==
  /\ At("publish")
  /\ activeInterruptManager' = TRUE
  /\ Goto("sti")
  /\ UNCHANGED <<pic, intFlag, interruptHandler, activations>>

Sti ==
  /\ At("sti")
  /\ intFlag' = TRUE
  /\ activations' = activations + 1
  /\ Goto(IF activations = 0 THEN "devices" ELSE "spin")
  /\ UNCHANGED <<pic, activeInterruptManager, interruptHandler>>

\* PCI, VGA and ATA set-up between the two calls of activate().
ProbeDevices ==
  /\ At("devices")
  /\ Goto("activate")
  /\ UNCHANGED <<pic, intFlag, activeInterruptManager, interruptHandler,
                 activations>>

\* while (1); or a CPU that ran off a broken stack.
Halt == (At("spin") \/ At("crashed")) /\ UNCHANGED vars

-----------------------------------------------------------------------------
(* Interrupt handling.                                                     *)

\* INTA: the 8259s move the request into service, the CPU enters the gate of
\* its vector, which is an interrupt gate and clears IF.
Accept(i) ==
  /\ intFlag /\ frame = NoIRQ
  /\ Offered(i)
  /\ irr'  = irr \ {i}
  /\ isrM' = isrM \cup {Line(i)}
  /\ isrS' = IF i >= 8 THEN isrS \cup {i} ELSE isrS
  /\ intFlag' = FALSE
  /\ frame' = i
  /\ at' = IF i \in Gated THEN "service" ELSE "ignore"
  /\ UNCHANGED <<kernel, missed>>

\* int_bottom calls handleInterrupt: without an active manager it returns at
\* once; otherwise doHandleInterrupt runs the driver or reports the interrupt.
Service ==
  /\ at = "service"
  /\ at' = IF activeInterruptManager THEN "eoi" ELSE "iret"
  /\ missed' = IF activeInterruptManager THEN missed ELSE missed \cup {frame}
  /\ UNCHANGED <<pic, intFlag, kernel, frame>>

EndOfInterruptMasterOnly ==
  /\ at = "eoi"
  /\ isrM' = AfterEOI(isrM)
  /\ at' = "iret"
  /\ UNCHANGED <<irr, isrS, intFlag, kernel, frame, missed>>

EndOfInterruptEither ==
  /\ at = "eoi"
  /\ isrM' = IF frame >= 8 THEN isrM ELSE AfterEOI(isrM)
  /\ isrS' = IF frame >= 8 THEN AfterEOI(isrS) ELSE isrS
  /\ at' = "iret"
  /\ UNCHANGED <<irr, intFlag, kernel, frame, missed>>

\* The end of doHandleInterrupt: EOI to the master and, from vector 0x28 on,
\* to the slave too.
EndOfInterrupt ==
  /\ at = "eoi"
  /\ isrM' = AfterEOI(isrM)
  /\ isrS' = IF frame >= 8 THEN AfterEOI(isrS) ELSE isrS
  /\ at' = "iret"
  /\ UNCHANGED <<irr, intFlag, kernel, frame, missed>>

\* The end of int_bottom: registers and EFLAGS of the interrupted code.
Iret ==
  /\ at = "iret"
  /\ intFlag' = TRUE
  /\ frame' = NoIRQ /\ at' = "idle"
  /\ UNCHANGED <<pic, kernel, missed>>

IgnoreWithEOI ==
  /\ at = "ignore"
  /\ isrM' = AfterEOI(isrM)
  /\ isrS' = IF frame >= 8 THEN AfterEOI(isrS) ELSE isrS
  /\ missed' = missed \cup {frame}
  /\ frame' = NoIRQ /\ at' = "idle"
  /\ intFlag' = TRUE
  /\ UNCHANGED <<irr, kernel>>

\* The default gate is the C++ function ignoreInterruptRequest, an ordinary
\* function: it sends no EOI and returns with ret, so EFLAGS stays on the
\* stack and IF stays clear.  The two leftover words corrupt the interrupted
\* code unless, like the final loop, it does not use the stack.
IgnoreInterrupt ==
  /\ at = "ignore"
  /\ missed' = missed \cup {frame}
  /\ frame' = NoIRQ /\ at' = "idle"
  /\ pc' \in {pc} \cup (IF pc = "spin" THEN {} ELSE {"crashed"})
  /\ UNCHANGED <<pic, intFlag, activeInterruptManager, interruptHandler,
                 activations>>

-----------------------------------------------------------------------------

Boot == \/ ConstructManager \/ ConstructKeyboard \/ ConstructMouse
        \/ TestActive \/ Forget \/ Cli \/ Publish \/ Sti
        \/ ProbeDevices \/ Halt

Handler == Service \/ EndOfInterrupt \/ Iret \/ IgnoreInterrupt

Next == \/ Boot
        \/ Handler
        \/ \E i \in Lines : Raise(i) \/ Accept(i)

Spec == Init /\ [][Next]_vars

\* The CPU keeps executing, and looks for an interrupt after every instruction:
\* it cannot pass one by for ever that the 8259s offer again and again.  No
\* fairness for Raise: a device may fall silent, or raise its line for ever.
Fairness == /\ WF_vars(Boot)
            /\ WF_vars(Handler)
            /\ \A i \in Lines : SF_vars(Accept(i))

FairSpec == Spec /\ Fairness

-----------------------------------------------------------------------------
(* Properties.                                                             *)

\* Every variable holds a value the code and the hardware can give it.
TypeOK ==
  /\ irr \subseteq IRQs
  /\ isrM \subseteq 0 .. 7
  /\ isrS \subseteq 8 .. 15
  /\ intFlag \in BOOLEAN
  /\ activeInterruptManager \in BOOLEAN
  /\ interruptHandler \subseteq IRQs
  /\ pc \in PCs
  /\ activations \in 0 .. 2
  /\ frame \in IRQs \cup {NoIRQ}
  /\ at \in {"idle", "service", "eoi", "iret", "ignore"}
  /\ missed \subseteq IRQs

\* The interrupts that still await an EOI: those missed, and the one being
\* handled until its EOI is sent or it is missed as well.
Open == missed \cup (IF at \in {"service", "eoi", "ignore"} THEN {frame} ELSE {})

\* The in-service registers hold exactly the open interrupts: no EOI is sent
\* twice, to the wrong controller, or dropped (doHandleInterrupt).
ServiceAccounted ==
  /\ isrM = {Line(i) : i \in Open}
  /\ isrS = Open \cap (8 .. 15)

\* The non-specific EOIs at the end of doHandleInterrupt name no interrupt, yet
\* they retire the one being handled and never one an earlier miss left open.
EOIRetiresOwn ==
  [][at = "eoi" /\ at' = "iret"
       => /\ isrM \ isrM' = {Line(frame)}
          /\ isrS \ isrS' = {frame} \cap (8 .. 15)]_vars

\* Of the interrupts that have a gate and a driver, none goes without its EOI
\* before kernelMain is inside the second activate(), between deactivate()'s
\* store and its cli: the only place where IF is set and no manager is active.
ClaimedMissOnlyInWindow ==
  missed \cap Gated # {} =>
    activations = 2 \/ (activations = 1 /\ pc \in {"cli", "publish", "sti", "crashed"})

\* An interrupt left without an EOI never comes again, and neither does any of
\* lower priority: one lost timer EOI silences the whole machine.
MissedMasksLower ==
  [][frame' # frame /\ frame' # NoIRQ
       => \A m \in missed : Line(frame') < Line(m)]_vars

\* When doHandleInterrupt looks a keyboard or mouse interrupt up, the driver is
\* there: kernelMain registers both before interrupts can arrive.
DriversReady == at = "service" /\ frame # 0 => frame \in interruptHandler

\* An interrupt nobody claims (interrupts.cpp:142) leaves interrupts off: handlers
\* no longer run and nothing sets IF again but the sti of an activate() still to
\* come.  A drive's INTRQ while kernelMain polls it costs all interrupts until
\* the second one; after that one, in the final loop, it costs them for good.
DeafForGood ==
  [][~intFlag /\ at \in {"ignore", "idle"}
       => \/ ~intFlag' /\ at' \in {"ignore", "idle"}
          \/ pc = "sti" /\ activations' = activations + 1 /\ activations' <= 2]_vars

\* As long as no interrupt is missed, a request is handled although others
\* precede it for ever, such as the timer's, provided that again and again none
\* of them is waiting when a handler has returned.
Responsive ==
  [](missed = {}) =>
    \A i \in Lines :
      []<>(frame = NoIRQ /\ \A h \in Lines : Before(h, i) => h \notin irr)
        => (i \in irr /\ pc # "manager" ~> frame = i /\ at = "eoi")

=============================================================================
