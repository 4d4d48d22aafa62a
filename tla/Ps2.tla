-------------------------------- MODULE Ps2 ---------------------------------
(***************************************************************************)
(* The keyboard and mouse drivers on the 8042 controller they share.  The  *)
(* controller has one output buffer for both devices and for its own       *)
(* answers; neither driver waits for what it asked for, and everything     *)
(* takes the controller and the devices their time.                        *)
(*                                                                         *)
(* A byte is the set of its bits that are 1.                               *)
(***************************************************************************)
EXTENDS Integers, Sequences

CONSTANTS
  Scancodes,       \* the bytes key presses send
  BIOSConfigs,     \* configuration bytes the kernel may find
  Depth            \* bytes a device holds back before it drops new ones

Byte == SUBSET (0 .. 7)
Ack  == {1, 3, 4, 5, 6, 7}          \* 0xFA

\* Bits of the configuration byte: interrupts on, and clocks off.
KeyIRQ == 0
AuxIRQ == 1
KeyOff == 4
AuxOff == 5

ASSUME BytesAssumption == Scancodes \subseteq Byte /\ BIOSConfigs \subseteq Byte
ASSUME DepthAssumption == Depth \in Nat

VARIABLES
  cfg,               \* the configuration byte
  obf, out,          \* the output buffer: full, and the last byte put there
  answers, keys, aux,\* bytes waiting for it, by source
  scanning, moving,  \* the devices report
  irr,               \* requests of lines 1 and 12 not yet accepted
  pc, status,        \* kernelMain in activateAll(), and its local variable
  offset,            \* packet bytes the mouse driver has buffered, modulo 3
  index,             \* history: bytes of packets the mouse has put in `out`
  late,              \* history: 0xFA came, and not to activate()
  stolen             \* history: mouse bytes that keyboard interrupts took

controller == <<cfg, obf, out, answers, irr>>
history    == <<late, stolen>>
devices    == <<keys, aux, scanning, moving, index>>
vars == <<controller, devices, pc, status, offset, history>>

Entry(from, byte) == [from |-> from, byte |-> byte]

Init ==
  /\ cfg \in BIOSConfigs
  /\ obf = FALSE /\ out = Entry("answer", {})
  /\ answers = <<>> /\ keys = <<>> /\ aux = <<>>
  /\ scanning \in BOOLEAN /\ moving = FALSE
  /\ irr = {}
  /\ pc = "drain" /\ status = {}
  /\ offset = 0 /\ index = 0 /\ late = 0 /\ stolen = 0

-----------------------------------------------------------------------------
(* The devices and the controller.                                         *)

KeyPress(code) ==
  /\ scanning /\ Len(keys) < Depth
  /\ keys' = Append(keys, code)
  /\ UNCHANGED <<controller, aux, scanning, moving, index, pc, status, offset,
                 history>>

\* A packet of three bytes.
Move ==
  /\ moving /\ Len(aux) < Depth
  /\ aux' = aux \o <<{3}, {}, {}>>
  /\ UNCHANGED <<controller, keys, scanning, moving, index, pc, status, offset,
                 history>>

Fill(from, byte, irq, enabled) ==
  /\ ~obf
  /\ obf' = TRUE
  /\ out' = Entry(from, byte)
  /\ irr' = IF enabled \in cfg THEN irr \cup {irq} ELSE irr
  /\ UNCHANGED <<cfg, scanning, moving, pc, status, offset, stolen>>

FillAnswer ==
  /\ answers # <<>>
  /\ Fill("answer", Head(answers), 1, KeyIRQ)
  /\ answers' = Tail(answers)
  /\ UNCHANGED <<keys, aux, index, late>>

FillKey ==
  /\ keys # <<>> /\ KeyOff \notin cfg
  /\ Fill("key", Head(keys), 1, KeyIRQ)
  /\ keys' = Tail(keys)
  /\ UNCHANGED <<answers, aux, index, late>>

FillAux ==
  /\ aux # <<>> /\ AuxOff \notin cfg
  /\ Fill("aux", Head(aux), 12, AuxIRQ)
  /\ aux' = Tail(aux)
  /\ index' = IF Head(aux) = Ack THEN index ELSE (index + 1) % 3
  /\ late' = IF Head(aux) = Ack THEN late + 1 ELSE late
  /\ UNCHANGED <<answers, keys>>

\* in 0x60: the last byte, whether or not it has been read before.
Read == obf' = FALSE /\ UNCHANGED <<cfg, out, answers, irr>>

\* Bit 5 of the status register.
AuxData == obf /\ out.from = "aux"

-----------------------------------------------------------------------------
(* kernelMain: DriverManager::activateAll() calls activate() of the        *)
(* keyboard and then of the mouse, with interrupts off.                    *)

Goto(from, to) == pc = from /\ pc' = to /\ UNCHANGED <<history, index, offset>>

\* while (commandPort.read() & 0x1) dataPort.read();
Drain ==
  /\ IF obf THEN Goto("drain", "drain") /\ Read
            ELSE Goto("drain", "keyConfig") /\ UNCHANGED controller
  /\ UNCHANGED <<keys, aux, scanning, moving, status>>

\* Enable the device (0xAE or 0xA8), which starts its clock, and ask for the
\* configuration byte (0x20).
AskConfig(from, off, to) ==
  /\ Goto(from, to)
  /\ cfg' = cfg \ {off}
  /\ answers' = Append(answers, cfg')
  /\ UNCHANGED <<obf, out, irr, keys, aux, scanning, moving, status>>

\* The answer, or whatever is there instead.
ReadConfig(from, set, clear, to) ==
  /\ Goto(from, to)
  /\ Read
  /\ status' = (out.byte \cup set) \ clear
  /\ UNCHANGED <<keys, aux, scanning, moving>>

WriteConfig(from, to) ==
  /\ Goto(from, to)
  /\ cfg' = status
  /\ UNCHANGED <<obf, out, answers, irr, keys, aux, scanning, moving, status>>

AskKeyConfig   == AskConfig("keyConfig", KeyOff, "keyRead")
ReadKeyConfig  == ReadConfig("keyRead", {KeyIRQ}, {KeyOff}, "keyWrite")
WriteKeyConfig == WriteConfig("keyWrite", "keyScan")

\* 0xF4 to the keyboard, which acknowledges it.
EnableScanning ==
  /\ Goto("keyScan", "auxConfig")
  /\ scanning' = TRUE
  /\ keys' = Append(keys, Ack)
  /\ UNCHANGED <<controller, aux, moving, status>>

AskAuxConfig   == AskConfig("auxConfig", AuxOff, "auxRead")
ReadAuxConfig  == ReadConfig("auxRead", {AuxIRQ}, {}, "auxWrite")
WriteAuxConfig == WriteConfig("auxWrite", "auxReport")

\* 0xD4, 0xF4 to the mouse.
EnableReporting ==
  /\ Goto("auxReport", "auxAck")
  /\ moving' = TRUE
  /\ aux' = Append(aux, Ack)
  /\ UNCHANGED <<controller, keys, scanning, status>>

\* Acknowledge (0xFA), if it is there by now.
ReadAck ==
  /\ pc = "auxAck" /\ pc' = "sti"
  /\ Read
  /\ late' = IF AuxData /\ out.byte = Ack THEN late - 1 ELSE late
  /\ UNCHANGED <<devices, status, offset, stolen>>

\* interrupts.activate()
Sti ==
  /\ Goto("sti", "run")
  /\ UNCHANGED <<controller, keys, aux, scanning, moving, status>>

\* while (1), at the end of kernelMain.
Spin == pc = "run" /\ UNCHANGED vars

Activate == \/ Drain
            \/ AskKeyConfig \/ ReadKeyConfig \/ WriteKeyConfig \/ EnableScanning
            \/ AskAuxConfig \/ ReadAuxConfig \/ WriteAuxConfig
            \/ EnableReporting \/ ReadAck \/ Sti

-----------------------------------------------------------------------------
(* The interrupts, line 1 before line 12.                                  *)

\* KeyboardDriver::handleInterrupt reads the data port and does not ask whose
\* byte it gets.  What it prints is left to Console.
KeyboardInterrupt ==
  /\ pc = "run" /\ 1 \in irr
  /\ irr' = irr \ {1}
  /\ obf' = FALSE
  /\ stolen' = IF AuxData THEN stolen + 1 ELSE stolen
  /\ UNCHANGED <<cfg, out, answers, devices, pc, status, offset, late>>

\* This and the other definitions that no action uses are wrong: each makes a
\* slip that a property must notice.
MouseInterruptUnchecked ==
  /\ pc = "run" /\ irr = {12}
  /\ irr' = {}
  /\ offset' = (offset + 1) % 3
  /\ obf' = FALSE
  /\ UNCHANGED <<cfg, out, answers, devices, pc, status, history>>

MouseInterruptInverted ==
  /\ pc = "run" /\ irr = {12}
  /\ irr' = {}
  /\ IF AuxData
       THEN UNCHANGED <<obf, offset>>
       ELSE obf' = FALSE /\ offset' = (offset + 1) % 3
  /\ UNCHANGED <<cfg, out, answers, devices, pc, status, history>>

MouseInterruptUnwrapped ==
  /\ pc = "run" /\ irr = {12}
  /\ irr' = {}
  /\ IF AuxData
       THEN obf' = FALSE /\ offset' = (IF offset = 3 THEN 0 ELSE offset + 1)
       ELSE UNCHANGED <<obf, offset>>
  /\ UNCHANGED <<cfg, out, answers, devices, pc, status, history>>

\* MouseDriver::handleInterrupt takes a byte only if it is one of the mouse.
MouseInterrupt ==
  /\ pc = "run" /\ irr = {12}
  /\ irr' = {}
  /\ IF AuxData
       THEN obf' = FALSE /\ offset' = (offset + 1) % 3
       ELSE UNCHANGED <<obf, offset>>
  /\ UNCHANGED <<cfg, out, answers, devices, pc, status, history>>

Next == \/ Activate \/ Spin
        \/ KeyboardInterrupt \/ MouseInterrupt
        \/ FillAnswer \/ FillKey \/ FillAux
        \/ Move \/ \E code \in Scancodes : KeyPress(code)

Spec == Init /\ [][Next]_vars

\* The CPU executes and takes the interrupts that are requested.  Nobody has to
\* press a key, and nothing makes the controller pass a byte on.
FairSpec == /\ Spec
            /\ WF_vars(Activate)
            /\ WF_vars(KeyboardInterrupt) /\ WF_vars(MouseInterrupt)

-----------------------------------------------------------------------------
(* Properties.                                                             *)

\* Every variable holds a value the drivers and the controller can give it; the
\* mouse driver's index stays inside its buffer of three.
TypeOK ==
  /\ cfg \in Byte /\ status \in Byte
  /\ obf \in BOOLEAN
  /\ out \in [from : {"answer", "key", "aux"}, byte : Byte]
  /\ answers \in Seq(Byte) /\ keys \in Seq(Byte) /\ aux \in Seq(Byte)
  /\ scanning \in BOOLEAN /\ moving \in BOOLEAN
  /\ irr \subseteq {1, 12}
  /\ offset \in 0 .. 2 /\ index \in 0 .. 2
  /\ late \in Nat /\ stolen \in Nat

\* Where the driver's packets begin: where those of the mouse do, but a byte
\* later for ever if the acknowledgement came too late for activate(), which is
\* then taken for the first byte of a packet (mouse.cpp:103), and a byte earlier
\* for ever if a keyboard interrupt, requested during activation, found a byte
\* of the mouse (keyboard.cpp:96).  Each happens once at most, and no other
\* order of bytes, requests and interrupts shifts them or puts them right.
PacketsAligned ==
  /\ late <= 1 /\ stolen <= 1
  /\ pc = "run" =>
       (offset + (IF AuxData THEN 1 ELSE 0)) % 3 = (index + late + 2 * stolen) % 3

\* A byte that neither handler will take: the one of the mouse leaves it, and
\* the interrupt of the keyboard is off.
Blocked == obf /\ out.from # "aux" /\ KeyIRQ \notin cfg /\ 1 \notin irr

\* No byte stays in the output buffer for ever and so mutes both devices, except
\* one that is Blocked; and that one stays for good.
InputFlows ==
  /\ pc = "run" /\ obf ~> ~obf \/ Blocked
  /\ [](pc = "run" /\ Blocked => []Blocked)

\* keyboard.cpp:39, "enable interrupt from keyboard": when the drivers are
\* active, the interrupt of the keyboard is on.
KeyboardInterruptOn == pc = "run" => KeyIRQ \in cfg
=============================================================================
