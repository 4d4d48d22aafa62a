-------------------------------- MODULE Pci ---------------------------------
(***************************************************************************)
(* PeripheralComponentInterconnectController::selectDrivers (pci.cpp): the *)
(* walk over buses, devices and functions.  The configuration space is     *)
(* what the machine answers; identifiers the code only prints are left out.*)
(***************************************************************************)
EXTENDS Integers, Sequences

CONSTANTS
  BusCount, DeviceCount, FunctionCount,   \* 8, 32 and 8 in the source
  Machines,                               \* what can be fitted
  Unset                                   \* a portBase that was never assigned

Bus      == 0 .. BusCount - 1
Device   == 0 .. DeviceCount - 1
Function == 0 .. FunctionCount - 1
BarNum   == 0 .. 5

\* What pci.h calls a BaseAddressRegister: its type and its address.
Register == [io : BOOLEAN, address : Nat]

\* The answers of one function.  Header type 0 has six base address registers,
\* a bridge (1) two, a CardBus bridge (2) none of this kind.
Header == [vendor : 0 .. 65535, type : 0 .. 127, multi : BOOLEAN,
           bar : [BarNum -> Register]]

VARIABLES
  machine,                    \* slots, and whether an empty one reads as 1s or 0s
  stage, bus, device, function,  \* the loops of selectDrivers()
  numFunctions, barNum,
  portBase,                   \* of the descriptor at hand
  reported                    \* the functions printed

vars == <<machine, stage, bus, device, function, numFunctions, barNum, portBase,
          reported>>

Init ==
  /\ machine \in Machines
  /\ stage = "device" /\ bus = 0 /\ device = 0 /\ function = 0
  /\ numFunctions = 1 /\ barNum = 0
  /\ portBase = Unset
  /\ reported = <<>>

-----------------------------------------------------------------------------
(* The configuration space.                                                *)

\* A slot is [fitted, aliased]: the headers of its functions, and whether it is
\* a device of one function that answers for all function numbers.  Function 0
\* is always there, and a device that has others says so.
IsSlot(slot) ==
  /\ DOMAIN slot.fitted \subseteq Function
  /\ \A f \in DOMAIN slot.fitted :
       slot.fitted[f] \in Header /\ slot.fitted[f].vendor \notin {0, 65535}
  /\ DOMAIN slot.fitted # {} => 0 \in DOMAIN slot.fitted
  /\ DOMAIN slot.fitted \ {0} # {} => slot.fitted[0].multi
  /\ slot.aliased => DOMAIN slot.fitted = {0} /\ ~slot.fitted[0].multi

\* A machine has a slot for every device; empty ones read as 1s or as 0s.
IsMachine(m) ==
  m.pulledUp \in BOOLEAN /\ \A s \in Bus \X Device : IsSlot(m.slot[s])

Ones   == [vendor |-> 65535, type |-> 127, multi |-> TRUE,
           bar |-> [n \in BarNum |-> [io |-> TRUE, address |-> 65532]]]
Zeroes == [vendor |-> 0, type |-> 0, multi |-> FALSE,
           bar |-> [n \in BarNum |-> [io |-> FALSE, address |-> 0]]]

Answer(f) ==
  LET slot == machine.slot[<<bus, device>>] IN
  IF f \in DOMAIN slot.fitted THEN slot.fitted[f]
  ELSE IF slot.aliased THEN slot.fitted[0]
  ELSE IF machine.pulledUp THEN Ones ELSE Zeroes

-----------------------------------------------------------------------------
(* The controller.                                                         *)

\* Wrong on purpose, and used by no action.
HasFunctionsAlways == TRUE

hasFunctions == Answer(0).multi

ProbeDevice ==
  /\ stage = "device"
  /\ numFunctions' = IF hasFunctions THEN FunctionCount ELSE 1
  /\ function' = 0
  /\ stage' = "function"
  /\ UNCHANGED <<machine, bus, device, barNum, portBase, reported>>

Known == Answer(function).vendor \notin {0, 65535}

SkipFunction ==
  /\ stage = "function" /\ function < numFunctions /\ ~Known
  /\ function' = function + 1
  /\ UNCHANGED <<machine, stage, bus, device, numFunctions, barNum, portBase, reported>>

FindFunction ==
  /\ stage = "function" /\ function < numFunctions /\ Known
  /\ stage' = "bar" /\ barNum' = 0 /\ portBase' = Unset
  /\ UNCHANGED <<machine, bus, device, function, numFunctions, reported>>

\* What getBaseAddressRegister() can return.  A register the header does not
\* have leaves the whole result uninitialised, one of memory its address.
Garbage == {0, 4919}

BaseAddressRegisters(n) ==
  LET header == Answer(function) IN
  IF n >= 6 - 4 * header.type THEN [io : BOOLEAN, address : Garbage]
  ELSE IF header.bar[n].io THEN {header.bar[n]}
  ELSE [io : {FALSE}, address : Garbage]

ReadRegister ==
  /\ stage = "bar" /\ barNum < 6
  /\ \E r \in BaseAddressRegisters(barNum) :
       portBase' = IF r.address # 0 /\ r.io THEN r.address ELSE portBase
  /\ barNum' = barNum + 1
  /\ UNCHANGED <<machine, stage, bus, device, function, numFunctions, reported>>

Report ==
  /\ stage = "bar" /\ barNum = 6
  /\ reported' = Append(reported, <<bus, device, function>>)
  /\ function' = function + 1
  /\ stage' = "function"
  /\ UNCHANGED <<machine, bus, device, numFunctions, barNum, portBase>>

\* The next device, of the next bus after the last one.
NextDevice ==
  /\ stage = "function" /\ function >= numFunctions
  /\ device' = (device + 1) % DeviceCount
  /\ bus' = IF device + 1 = DeviceCount THEN bus + 1 ELSE bus
  /\ stage' = IF bus' = BusCount THEN "done" ELSE "device"
  /\ UNCHANGED <<machine, function, numFunctions, barNum, portBase, reported>>

Next == \/ ProbeDevice \/ SkipFunction \/ FindFunction \/ ReadRegister
        \/ Report \/ NextDevice

Spec == Init /\ [][Next]_vars

-----------------------------------------------------------------------------
(* Properties.                                                             *)

Fitted == {x \in Bus \X Device \X Function :
             x[3] \in DOMAIN machine.slot[<<x[1], x[2]>>].fitted}

Earlier(a, b) == \/ a[1] < b[1]
                 \/ a[1] = b[1] /\ a[2] < b[2]
                 \/ a[1] = b[1] /\ a[2] = b[2] /\ a[3] < b[3]

\* Functions are reported in order, none of them twice.
InOrder ==
  \A j, k \in 1 .. Len(reported) : j < k => Earlier(reported[j], reported[k])

\* In the end they are the functions of the machine.
AllReported ==
  /\ \A j \in 1 .. Len(reported) : reported[j] \in Fitted
  /\ stage = "done" => \A x \in Fitted : \E j \in 1 .. Len(reported) : reported[j] = x

\* The ports of an ordinary device are those of its last I/O register; the
\* uninitialised registers behind the two of a bridge do not reach it.
PortsOwn ==
  stage = "bar" /\ barNum = 6 /\ Answer(function).type = 0 =>
    LET bar == Answer(function).bar
        ports == {n \in BarNum : bar[n].io /\ bar[n].address # 0}
    IN  IF ports = {} THEN portBase = Unset
        ELSE \E n \in ports : portBase = bar[n].address /\ \A k \in ports : k <= n

\* selectDrivers() reports every function on its buses exactly once and in
\* order, whether empty slots read as ones (and are probed eight times) or as
\* zeroes, and although a device of one function may answer for all eight; and
\* it takes an ordinary device's ports from its own registers.
FunctionsFound == InOrder /\ AllReported /\ PortsOwn
=============================================================================
