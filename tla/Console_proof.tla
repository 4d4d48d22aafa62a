--------------------------- MODULE Console_proof ----------------------------
(***************************************************************************)
(* The cursor that kernelMain and the keyboard handler share, for a screen *)
(* of any size, any texts and key presses anywhere.                        *)
(***************************************************************************)
EXTENDS Console, TLAPS

\* Where the cursor may stand one past the last column, and the last row.
PastColumn == {"wrap", "wrapX", "columns", "nextRow", "rows", "columns0", "homeX"}
PastRow    == {"wrap", "full", "clear", "rows", "homeX", "homeY"}

CursorInv ==
  /\ x = Cols => pc \in PastColumn
  /\ y = Rows => pc \in PastRow
  /\ pc = "wrap" /\ x = Cols => y < Rows

\* What the registers hold between two accesses was on the screen when it was
\* read.
RegisterInv ==
  /\ reg # None => /\ pc \in {"newlineY", "wrapY", "nextRow"} => reg < Rows
                   /\ pc \in {"put", "putX", "blank", "nextColumn"} => reg < Cols
                   /\ pc \in {"newlineY", "wrapY", "nextRow", "put", "putX",
                              "blank", "nextColumn"}
  /\ row # None => row < Rows /\ pc \in {"put", "blank"}

IInv == TypeOK /\ CursorInv /\ RegisterInv /\ KernelStoresOnScreen

LEMMA InitIInv == Init => IInv
BY ScreenAssumption
   DEF Init, IInv, TypeOK, CursorInv, RegisterInv, KernelStoresOnScreen, Cell,
       None, Labels, PastColumn, PastRow

\* After any character the handler prints, the cursor is on the screen.
LEMMA KeyCharacterLands ==
  ASSUME TypeOK, KeyCharacter
  PROVE  x' \in 0 .. Cols - 1 /\ y' \in 0 .. Rows - 1
BY ScreenAssumption DEF TypeOK, KeyCharacter

LEMMA StepIInv == ASSUME IInv, [Next]_vars PROVE IInv'
<1> USE ScreenAssumption, TextsAssumption DEF IInv, None
<1>1. ASSUME NextCharacter PROVE IInv'
  BY <1>1 DEF NextCharacter, Step, TypeOK, CursorInv, RegisterInv,
              KernelStoresOnScreen, Labels, PastColumn, PastRow
<1>2. ASSUME Newline PROVE IInv'
  BY <1>2 DEF Newline, ResetX, IncrementY, Load, Step, TypeOK, CursorInv,
              RegisterInv, KernelStoresOnScreen, Labels, PastColumn, PastRow
<1>3. ASSUME Character PROVE IInv'
  <2>1. CASE Put("put", "putX")
    BY <2>1 DEF Put, Step, Cell, TypeOK, CursorInv,
                RegisterInv, KernelStoresOnScreen, Labels, PastColumn, PastRow
  <2>2. CASE IncrementX("putX", "wrap")
    BY <2>2 DEF IncrementX, Load, Step, TypeOK, CursorInv,
                RegisterInv, KernelStoresOnScreen, Labels, PastColumn, PastRow
  <2> QED BY <1>3, <2>1, <2>2 DEF Character
<1>4. ASSUME Wrap PROVE IInv'
  BY <1>4 DEF Wrap, Test, ResetX, IncrementY, Load, Step, TypeOK, CursorInv,
              RegisterInv, KernelStoresOnScreen, Labels, PastColumn, PastRow
<1>5. ASSUME Clear PROVE IInv'
  BY <1>5 DEF Clear, Test, ResetY, Step, TypeOK, CursorInv,
              RegisterInv, KernelStoresOnScreen, Labels, PastColumn, PastRow
<1>6. ASSUME ClearRows PROVE IInv'
  BY <1>6 DEF ClearRows, Test, ResetX, IncrementY, Load, Step, TypeOK, CursorInv,
              RegisterInv, KernelStoresOnScreen, Labels, PastColumn, PastRow
<1>7. ASSUME ClearColumns PROVE IInv'
  <2>1. CASE Put("blank", "nextColumn")
    BY <2>1 DEF Put, Step, Cell, TypeOK, CursorInv,
                RegisterInv, KernelStoresOnScreen, Labels, PastColumn, PastRow
  <2>2. CASE IncrementX("nextColumn", "columns")
    BY <2>2 DEF IncrementX, Load, Step, TypeOK, CursorInv,
                RegisterInv, KernelStoresOnScreen, Labels, PastColumn, PastRow
  <2> QED BY <1>7, <2>1, <2>2 DEF ClearColumns
<1>8. ASSUME Home PROVE IInv'
  BY <1>8 DEF Home, ResetX, ResetY, Step, TypeOK, CursorInv,
              RegisterInv, KernelStoresOnScreen, Labels, PastColumn, PastRow
<1>9. ASSUME NEW s \in Texts, CallPrint(s) PROVE IInv'
  BY <1>9 DEF CallPrint, Step, TypeOK, CursorInv,
              RegisterInv, KernelStoresOnScreen, Labels, PastColumn, PastRow
<1>10. ASSUME NEW s \in KeyTexts, KeyPress(s) PROVE IInv'
  BY <1>10 DEF KeyPress, TypeOK, CursorInv,
               RegisterInv, KernelStoresOnScreen
<1>11. ASSUME KeyCharacter PROVE IInv'
  <2>1. x' \in 0 .. Cols - 1 /\ y' \in 0 .. Rows - 1
    BY <1>11, KeyCharacterLands
  <2>2. UNCHANGED <<pc, reg, row, text>> /\ key' \in Seq({"\n", "c"})
    BY <1>11 DEF KeyCharacter, TypeOK
  <2>3. stored' \in {stored, Cell("keyboard", y, x)}
    BY <1>11 DEF KeyCharacter
  <2>4. TypeOK' /\ KernelStoresOnScreen'
    BY <2>1, <2>2, <2>3 DEF TypeOK, Cell, KernelStoresOnScreen
  <2>5. CursorInv' /\ RegisterInv'
    BY <2>1, <2>2 DEF CursorInv, RegisterInv
  <2> QED BY <2>4, <2>5
<1>12. ASSUME UNCHANGED vars PROVE IInv'
  BY <1>12 DEF vars, TypeOK, CursorInv, RegisterInv, KernelStoresOnScreen
<1> QED
  BY <1>1, <1>2, <1>3, <1>4, <1>5, <1>6, <1>7, <1>8, <1>9, <1>10, <1>11, <1>12
     DEF Next, Kernel

\* The inductive invariant: print() and the handler keep cursor and registers
\* within the bounds of each point of print().
THEOREM Invariance == Spec => []IInv
<1>1. IInv /\ [Next]_vars => IInv'
  BY StepIInv
<1> QED BY InitIInv, <1>1, PTL DEF Spec

\* The static cursor of print() never leaves its type, whoever moves it when.
THEOREM TypeCorrect == Spec => []TypeOK
<1>1. IInv => TypeOK  BY DEF IInv
<1> QED BY Invariance, <1>1, PTL

\* A print() that has returned leaves the cursor on the screen, whatever key
\* presses came in between.
THEOREM CursorAlwaysRests == Spec => []CursorRests
<1>1. IInv => CursorRests
  BY ScreenAssumption
     DEF IInv, TypeOK, CursorInv, CursorRests, PastColumn, PastRow
<1> QED BY Invariance, <1>1, PTL

\* kernelMain's print() writes to the screen only, although key presses change
\* the cursor between its accesses.
THEOREM KernelStaysOnScreen == Spec => []KernelStoresOnScreen
<1>1. IInv => KernelStoresOnScreen  BY DEF IInv
<1> QED BY Invariance, <1>1, PTL
=============================================================================
