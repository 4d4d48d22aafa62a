------------------------------- MODULE MCPs2 --------------------------------
(***************************************************************************)
(* One key, and the configuration bytes a BIOS leaves behind: translation  *)
(* and system flag set, any interrupts, the mouse on or off.               *)
(***************************************************************************)
EXTENDS Ps2

\* 0x1E, the key A, and its release.
MCScancodes == { {1, 2, 3, 4}, {1, 2, 3, 4, 7} }

MCConfigs == { {2, 6} \cup extra : extra \in SUBSET {KeyIRQ, AuxIRQ, AuxOff} }
=============================================================================
