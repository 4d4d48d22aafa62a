----------------------------- MODULE MCConsole ------------------------------
(***************************************************************************)
(* A screen of three columns and two rows, so that every text wraps and the*)
(* screen is cleared all the time.                                         *)
(***************************************************************************)
EXTENDS Console

MCTexts    == {<<"c", "\n">>, <<"c", "c", "c", "c">>}
MCKeyTexts == {<<"c">>, <<"\n">>, <<"c", "c", "\n">>}
=============================================================================
