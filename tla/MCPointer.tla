----------------------------- MODULE MCPointer ------------------------------
(***************************************************************************)
(* Two cells: the home of the pointer and one more.  Blanks, printed by    *)
(* anyone, and from kernelMain a byte above 127.  A byte of a packet has 8 *)
(* values, and the motions stay within an int8_t, leave it by up to half a *)
(* byte (4) and by more (-5).                                              *)
(***************************************************************************)
EXTENDS Pointer

MCMotions  == {-5, -3, 3, 4}
MCChars    == {Space, 200}
MCKeyChars == {Space}
=============================================================================
