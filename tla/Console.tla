------------------------------ MODULE Console -------------------------------
(***************************************************************************)
(* print() (print.cpp) as kernelMain and the keyboard interrupt share it.  *)
(* The cursor x, y is static, so both use the same one.  kernelMain's print*)
(* can be interrupted before every access to it; the handler runs with     *)
(* interrupts off and prints its whole text.  A character is "\n" or, for  *)
(* anything visible, "c"; what a cell shows is left out.                   *)
(***************************************************************************)
EXTENDS Integers, Sequences

CONSTANTS
  Cols, Rows,      \* 80 and 25 in the source
  Texts,           \* what kernelMain prints
  KeyTexts         \* what one key press prints

ASSUME ScreenAssumption == Cols \in Nat \ {0} /\ Rows \in Nat \ {0}
ASSUME TextsAssumption ==
  /\ Texts \subseteq Seq({"\n", "c"})
  /\ KeyTexts \subseteq Seq({"\n", "c"}) \ {<<>>}

None == -1

VARIABLES
  x, y,            \* the static cursor
  pc, reg, row,    \* kernelMain in print(): next access, registers in use
  text,            \* what it has still to print
  key,             \* what the keyboard handler has still to print
  stored           \* the last cell written, and by whom

vars == <<x, y, pc, reg, row, text, key, stored>>

Cell(who, r, c) == [by |-> who, row |-> r, col |-> c]

Init ==
  /\ x = 0 /\ y = 0
  /\ pc = "idle" /\ reg = None /\ row = None
  /\ text = <<>> /\ key = <<>>
  /\ stored = Cell("kernel", 0, 0)

-----------------------------------------------------------------------------
(* kernelMain.  VideoMemory[80*y+x] reads y, then x, then stores; x++ and  *)
(* y++ read, then write.                                                   *)

\* kernelMain executes the access `label` and goes on with `next`.
Step(label, next) == pc = label /\ key = <<>> /\ pc' = next /\ UNCHANGED key

Test(label, condition, then, else) ==
  /\ Step(label, IF condition THEN then ELSE else)
  /\ UNCHANGED <<x, y, reg, row, text, stored>>

ResetX(label, next) ==
  /\ Step(label, next)
  /\ x' = 0
  /\ UNCHANGED <<y, reg, row, text, stored>>

ResetY(label, next) ==
  /\ Step(label, next)
  /\ y' = 0
  /\ UNCHANGED <<x, reg, row, text, stored>>

\* reg := v, the first half of v++.
Load(label, v) ==
  /\ reg = None
  /\ Step(label, label)
  /\ reg' = v
  /\ UNCHANGED <<x, y, row, text, stored>>

IncrementX(label, next) ==
  \/ Load(label, x)
  \/ /\ reg # None
     /\ Step(label, next)
     /\ x' = reg + 1 /\ reg' = None
     /\ UNCHANGED <<y, row, text, stored>>

IncrementY(label, next) ==
  \/ Load(label, y)
  \/ /\ reg # None
     /\ Step(label, next)
     /\ y' = reg + 1 /\ reg' = None
     /\ UNCHANGED <<x, row, text, stored>>

Put(label, next) ==
  \/ /\ row = None
     /\ Step(label, label)
     /\ row' = y
     /\ UNCHANGED <<x, y, reg, text, stored>>
  \/ /\ row # None /\ reg = None
     /\ Step(label, label)
     /\ reg' = x
     /\ UNCHANGED <<x, y, row, text, stored>>
  \/ /\ row # None /\ reg # None
     /\ Step(label, next)
     /\ stored' = Cell("kernel", row, reg)
     /\ row' = None /\ reg' = None
     /\ UNCHANGED <<x, y, text>>

\* kernelMain calls print().
CallPrint(s) ==
  /\ Step("idle", "text")
  /\ text' = s
  /\ UNCHANGED <<x, y, reg, row, stored>>

\* str[i] != '\0', and the switch.
NextCharacter ==
  /\ Step("text", IF text = <<>> THEN "idle"
                  ELSE IF Head(text) = "\n" THEN "newline" ELSE "put")
  /\ text' = IF text = <<>> THEN text ELSE Tail(text)
  /\ UNCHANGED <<x, y, reg, row, stored>>

Newline   == ResetX("newline", "newlineY") \/ IncrementY("newlineY", "wrap")
Character == Put("put", "putX") \/ IncrementX("putX", "wrap")

\* if (x >= 80) x = 0, y++;  The definitions that no action uses, this one and
\* those below, each make a slip that a property must notice.
WrapPastEnd ==
  \/ Test("wrap", x > Cols, "wrapX", "full")
  \/ ResetX("wrapX", "wrapY")
  \/ IncrementY("wrapY", "full")

Wrap ==
  \/ Test("wrap", x >= Cols, "wrapX", "full")
  \/ ResetX("wrapX", "wrapY")
  \/ IncrementY("wrapY", "full")

\* if (y >= 25): the two loops that clear the screen have x and y themselves
\* as their variables.
ClearPastEnd ==
  \/ Test("full", y > Rows, "clear", "text")
  \/ ResetY("clear", "rows")

Clear ==
  \/ Test("full", y >= Rows, "clear", "text")
  \/ ResetY("clear", "rows")

ClearFirstRow ==
  \/ Test("rows", y < Rows, "columns0", "homeX")
  \/ ResetX("columns0", "columns")
  \/ Test("columns", x < Cols, "blank", "rows")

ClearRows ==
  \/ Test("rows", y < Rows, "columns0", "homeX")
  \/ ResetX("columns0", "columns")
  \/ Test("columns", x < Cols, "blank", "nextRow")
  \/ IncrementY("nextRow", "rows")

ClearColumns == Put("blank", "nextColumn") \/ IncrementX("nextColumn", "columns")

Home == ResetX("homeX", "homeY") \/ ResetY("homeY", "text")

Kernel == \/ NextCharacter \/ Newline \/ Character \/ Wrap
          \/ Clear \/ ClearRows \/ ClearColumns \/ Home

-----------------------------------------------------------------------------
(* KeyboardDriver::handleInterrupt: a key that scancode_to_ascii maps prints *)
(* its character, any other one "KEY 0x..", nine characters.               *)

KeyPress(s) ==
  /\ key = <<>>
  /\ key' = s
  /\ UNCHANGED <<x, y, pc, reg, row, text, stored>>

\* One turn of the loop in print(), nobody interrupting.  Of the clearing, only
\* the cursor it leaves behind is kept.
KeyCharacterWrapOnEqual ==
  /\ key # <<>>
  /\ LET newline == Head(key) = "\n"
         col     == IF newline THEN 0 ELSE x + 1
         wraps   == col = Cols
         line    == y + (IF newline \/ wraps THEN 1 ELSE 0)
     IN  /\ x' = IF wraps \/ line >= Rows THEN 0 ELSE col
         /\ y' = IF line >= Rows THEN 0 ELSE line
         /\ stored' = IF newline THEN stored ELSE Cell("keyboard", y, x)
  /\ key' = Tail(key)
  /\ UNCHANGED <<pc, reg, row, text>>

KeyCharacter ==
  /\ key # <<>>
  /\ LET newline == Head(key) = "\n"
         col     == IF newline THEN 0 ELSE x + 1
         wraps   == col >= Cols
         line    == y + (IF newline \/ wraps THEN 1 ELSE 0)
     IN  /\ x' = IF wraps \/ line >= Rows THEN 0 ELSE col
         /\ y' = IF line >= Rows THEN 0 ELSE line
         /\ stored' = IF newline THEN stored ELSE Cell("keyboard", y, x)
  /\ key' = Tail(key)
  /\ UNCHANGED <<pc, reg, row, text>>

Next == \/ Kernel \/ KeyCharacter
        \/ \E s \in Texts : CallPrint(s)
        \/ \E s \in KeyTexts : KeyPress(s)

Spec == Init /\ [][Next]_vars

\* The CPU keeps executing.
FairSpec == Spec /\ WF_vars(Kernel) /\ WF_vars(KeyCharacter)

-----------------------------------------------------------------------------
(* Properties.                                                             *)

Labels == {"idle", "text", "newline", "newlineY", "put", "putX", "wrap",
           "wrapX", "wrapY", "full", "clear", "rows", "columns0", "columns",
           "blank", "nextColumn", "nextRow", "homeX", "homeY"}

\* Every variable holds a value of its type; in particular the cursor is never
\* more than one past the last column and the last row, which a uint8_t holds.
TypeOK ==
  /\ x \in 0 .. Cols /\ y \in 0 .. Rows
  /\ pc \in Labels
  /\ reg \in None .. Cols + Rows /\ row \in None .. Rows
  /\ text \in Seq({"\n", "c"}) /\ key \in Seq({"\n", "c"})
  /\ stored \in [by : {"kernel", "keyboard"}, row : 0 .. Rows, col : 0 .. Cols]

\* Whatever key presses interrupt it and where, a print() that has returned
\* leaves the cursor on the screen, for the next one to start from.
CursorRests == pc = "idle" /\ key = <<>> => x < Cols /\ y < Rows

\* kernelMain's print() writes only to the screen, even when a key press moves
\* the cursor between the two halves of the address it computes; only the
\* handler can meet the cursor one past the last column or row, or both, and
\* spill up to a row and a cell (TypeOK bounds it).
KernelStoresOnScreen ==
  stored.by = "kernel" => stored.row < Rows /\ stored.col < Cols

\* The loops that clear the screen end although key presses move their loop
\* variables: print() returns once the keyboard is quiet for long enough.
PrintReturns == <>[](key = <<>>) => (pc # "idle" ~> pc = "idle")
=============================================================================
