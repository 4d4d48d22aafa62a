----------------------------- MODULE MCDevices ------------------------------
(***************************************************************************)
(* Instances of Devices.                                                   *)
(***************************************************************************)
EXTENDS Devices, TLC

-----------------------------------------------------------------------------
(* Machines for Pci: on every slot nothing, a device with or without ports, *)
(* one that answers for all functions, or a bridge and a controller.        *)

Memory(a) == [io |-> FALSE, address |-> a]
Ports(a)  == [io |-> TRUE, address |-> a]
Function(type, multi, bars) ==
  [vendor |-> 32902, type |-> type, multi |-> multi,
   bar |-> bars @@ [n \in 0 .. 5 |-> Memory(0)]]

Controller == Function(0, TRUE, 0 :> Ports(496) @@ 2 :> Ports(0) @@ 4 :> Ports(49152))
Bridge     == Function(1, TRUE, 0 :> Memory(4096))

Slots ==
  { [fitted |-> <<>>, aliased |-> FALSE],
    [fitted |-> 0 :> Function(0, FALSE, 0 :> Memory(8192)), aliased |-> FALSE],
    [fitted |-> 0 :> Function(0, FALSE, 1 :> Ports(53280)), aliased |-> TRUE],
    [fitted |-> 0 :> Bridge @@ 2 :> Controller, aliased |-> FALSE] }

Empty == [slot |-> [s \in {0, 1} \X {0, 1} |-> [fitted |-> <<>>, aliased |-> FALSE]],
          pulledUp |-> TRUE]
TwoByTwo == [slot : [{0, 1} \X {0, 1} -> Slots], pulledUp : BOOLEAN]

-----------------------------------------------------------------------------
(* Tables for Vga: that of SetMode() in the source.                        *)

Numbered(bytes) == [n \in 0 .. Len(bytes) - 1 |-> bytes[n + 1]]

Mode13 ==
  [misc      |-> Numbered(<<\H63>>),
   sequencer |-> Numbered(<<\H03, \H01, \H0F, \H00, \H0E>>),
   crtc      |-> Numbered(<<
     \H5F, \H4F, \H50, \H82, \H54, \H80, \HBF, \H1F, \H00, \H41, \H00, \H00, \H00,
     \H00, \H00, \H00, \H9C, \H0E, \H8F, \H28, \H40, \H96, \HB9, \HA3, \HFF>>),
   graphics  |-> Numbered(<<
     \H00, \H00, \H00, \H00, \H00, \H40, \H05, \H0F, \HFF>>),
   attribute |-> Numbered(<<
     \H00, \H01, \H02, \H03, \H04, \H05, \H06, \H07, \H08, \H09, \H0A, \H0B, \H0C,
     \H0D, \H0E, \H0F, \H41, \H00, \H0F, \H00, \H00>>)]

\* The two bits that lock and hide, each set or not, with the other registers of
\* the adapter all zeros or all ones.
BootFile(locked, access, others) ==
  [g \in Group |->
     [n \in 0 .. Last[g] |->
        IF g = "crtc" /\ n = 3 THEN access
        ELSE IF g = "crtc" /\ n = 17 THEN locked ELSE others]]
MCBootFiles == {BootFile(l, a, o) : l \in {0, 255}, a \in {0, 255}, o \in {0, 255}}

\* Beginnings and sizes of rectangles on and around a screen of 3 by 2, the
\* first ones also left of it and above it.
MCPoints  == {0, 1, 2, 3, WordSize - 1, WordSize - 2}
MCLengths == {0, 1, 2, 4}

-----------------------------------------------------------------------------
(* The driver that is not compiled in starts, and stays, in one state.  Of *)
(* the index in 0x3C0 only the bit that shows the picture varies.          *)

MCInit ==
  /\ DevicesInit
  /\ attribute \in {0, 32}
  /\ \/ kernel = "selectDrivers" /\ flipflop = "index" /\ attribute = 32
        /\ boot = BootFile(0, 0, 0)
     \/ kernel = "SetMode" /\ machine = Empty

MCSpec == MCInit /\ [][DevicesNext]_devices
=============================================================================
