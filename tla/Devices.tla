------------------------------ MODULE Devices -------------------------------
(***************************************************************************)
(* Two drivers that kernelMain constructs and whose calls it has commented *)
(* out.  A kernel with one of the calls compiled in runs that driver; the  *)
(* other one stays as it was constructed.                                  *)
(***************************************************************************)
EXTENDS Vga, Sequences

CONSTANTS
  BusCount, DeviceCount, FunctionCount, Machines, Unset    \* of Pci

VARIABLES kernel,            \* the call that is compiled in
          machine, stage, bus, device, function, numFunctions, barNum, portBase,
          reported

pciVars == <<machine, stage, bus, device, function, numFunctions, barNum,
             portBase, reported>>
devices == <<kernel, vars, pciVars>>

P == INSTANCE Pci

ASSUME MachineAssumption ==
  /\ BusCount \in Nat \ {0} /\ DeviceCount \in Nat \ {0} /\ FunctionCount \in Nat \ {0}
  /\ \A m \in Machines : P!IsMachine(m)

DevicesInit == P!Init /\ Init /\ kernel \in {"selectDrivers", "SetMode"}

WithSelectDrivers == kernel = "selectDrivers" /\ P!Next /\ UNCHANGED <<kernel, vars>>

WithSetMode == kernel = "SetMode" /\ Next /\ UNCHANGED <<kernel, pciVars>>

\* kernelMain goes on.
Enumerated == stage = "done" /\ UNCHANGED devices

DevicesNext == WithSelectDrivers \/ WithSetMode \/ Enumerated

DevicesSpec == DevicesInit /\ [][DevicesNext]_devices

\* The property of Pci, which says that every function is found once.
FunctionsFound == P!FunctionsFound
=============================================================================
