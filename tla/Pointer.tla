------------------------------ MODULE Pointer -------------------------------
(***************************************************************************)
(* The text screen as the mouse interrupt (mouse.cpp) and print()          *)
(* (print.cpp) share it.  A packet puts back the cell under the pointer,   *)
(* moves the pointer, saves the cell it comes to and swaps the colours     *)
(* there.  print() takes the colours of a cell and stores them again with  *)
(* a character, and computes the address of the cell for each from the     *)
(* static cursor.  kernelMain can be interrupted anywhere between, handlers*)
(* cannot.  Where print() has its cursor is the business of Console: any   *)
(* cell may be next.                                                       *)
(***************************************************************************)
EXTENDS Integers

CONSTANTS
  Cols, Rows,      \* 80 and 25 in the source
  HomeX, HomeY,    \* 40 and 12: the pointer after activate()
  ByteSize,        \* 256: the values of an int8_t and of a byte of a packet
  Motions,         \* how far a packet can say the mouse has moved
  Chars,           \* what kernelMain prints: any byte, the disk's among them
  KeyChars         \* what handlers print: ASCII

Int8 == -(ByteSize \div 2) .. ByteSize \div 2 - 1

ASSUME ScreenAssumption ==
  /\ ByteSize \in Nat \ {0} /\ ByteSize % 2 = 0
  /\ Cols \in Nat /\ Rows \in Nat
  /\ HomeX \in 0 .. Cols - 1 /\ HomeY \in 0 .. Rows - 1
  /\ Cols - 1 \in Int8 /\ Rows - 1 \in Int8
ASSUME DataAssumption ==
  /\ Motions \subseteq -ByteSize .. ByteSize - 1   \* nine bits in the packet
  /\ Chars \subseteq 0 .. 255 /\ KeyChars \subseteq 0 .. 127

Cell   == (0 .. Cols - 1) \X (0 .. Rows - 1)
Colour == 0 .. 15

\* A cell of video memory: background and foreground, and the character.
Value  == [colours : Colour \X Colour, char : 0 .. 255]

Normal == <<0, 7>>         \* grey on black, as the boot loader leaves the screen
Black  == <<0, 0>>
White  == <<15, 15>>
Space  == 32

\* The statement of print() that stores a character: the cell where it found
\* the cursor, the cell it has read and the colours it read there.
Put == [stage : {"idle", "begun", "read"},
        cell : Cell, from : Cell, colours : Colour \X Colour]
NoPut == [stage |-> "idle", cell |-> <<HomeX, HomeY>>, from |-> <<HomeX, HomeY>>,
          colours |-> Black]

VARIABLES
  mouseX, mouseY,  \* the pointer
  data,            \* the cell saved under it
  vga,             \* the screen
  put,             \* where kernelMain is in print()
  moved,           \* a key press moved the cursor since the statement began
  straddled,       \* a packet came since the colours were read
  bright,          \* cells that a byte above 127 made white on white
  stained,         \* cells whose colours are those of another place or time
  lost,            \* cells whose last character was stored under the pointer
  text             \* the last character printed in each cell

machine == <<mouseX, mouseY, data, vga, put>>
history == <<moved, straddled, bright, stained, lost, text>>
vars    == <<machine, history>>

At   == <<mouseX, mouseY>>
Home == <<HomeX, HomeY>>

\* activate() has placed the pointer; data is a static and starts as 0.
Init ==
  /\ mouseX = HomeX /\ mouseY = HomeY
  /\ data = [colours |-> Black, char |-> 0]
  /\ vga = [cell \in Cell |-> [colours |-> Normal, char |-> Space]]
  /\ text = [cell \in Cell |-> Space]
  /\ put = NoPut
  /\ moved = FALSE /\ straddled = FALSE
  /\ bright = {} /\ stained = {Home} /\ lost = {Home}

-----------------------------------------------------------------------------
(* MouseDriver::handleInterrupt, when the third byte of a packet is in.    *)

\* What an int8_t keeps of n.
Narrow(n) == ((n + ByteSize \div 2) % ByteSize) - ByteSize \div 2

\* Definitions that no action uses, here and below, are wrong on purpose: each
\* makes a slip that a property must notice.
MovedUnsigned(p, byte, size) ==
  LET q == (p + byte) % ByteSize
  IN  IF q >= size THEN size - 1 ELSE q

\* A coordinate p moved by a byte of the packet, and clamped.
Moved(p, byte, size) ==
  LET q == Narrow(p + byte)
  IN  IF q >= size THEN size - 1 ELSE IF q < 0 THEN 0 ELSE q

DrawnShiftedUp(v) ==
  [colours |-> <<v.colours[2], v.colours[1]>>, char |-> v.char * 16]

\* drawMouseCursor(): the colours change places, and of the character the upper
\* half moves down.
Drawn(v) ==
  [colours |-> <<v.colours[2], v.colours[1]>>, char |-> v.char \div 16]

PacketDrawnFirst(dx, dy) ==
  /\ mouseX' = Moved(mouseX, dx, Cols)
  /\ mouseY' = Moved(mouseY, -dy, Rows)
  /\ data' = vga[<<mouseX', mouseY'>>]
  /\ vga' = [vga EXCEPT ![<<mouseX', mouseY'>>] = Drawn(data'), ![At] = data]
  /\ straddled' = (put.stage = "read")
  /\ UNCHANGED <<put, moved, bright, stained, lost, text>>

Packet(dx, dy) ==
  /\ mouseX' = Moved(mouseX, dx, Cols)
  /\ mouseY' = Moved(mouseY, -dy, Rows)
  /\ LET cleared == [vga EXCEPT ![At] = data]
         there   == <<mouseX', mouseY'>>
     IN  /\ data' = cleared[there]
         /\ vga' = [cleared EXCEPT ![there] = Drawn(cleared[there])]
  /\ straddled' = (put.stage = "read")
  /\ UNCHANGED <<put, moved, bright, stained, lost, text>>

-----------------------------------------------------------------------------
(* print().                                                                *)

\* (V & 0xFF00) | str[i], where V has these colours: a char is signed, so that
\* one above 127 is extended with ones over the colours.
Mixed(colours, c) ==
  [colours |-> IF c > 127 THEN White ELSE colours, char |-> c]

\* It reaches a cell.
Stored(cell, colours, c) ==
  /\ vga' = [vga EXCEPT ![cell] = Mixed(colours, c)]
  /\ text' = [text EXCEPT ![cell] = c]
  /\ lost' = IF cell = At THEN lost \cup {cell} ELSE lost \ {cell}
  /\ UNCHANGED <<mouseX, mouseY, data>>

\* kernelMain comes to VideoMemory[80*y+x] = (VideoMemory[80*y+x] & 0xFF00) | ...
Begin(cell) ==
  /\ put.stage = "idle"
  /\ put' = [NoPut EXCEPT !.stage = "begun", !.cell = cell]
  /\ UNCHANGED <<mouseX, mouseY, data, vga, history>>

\* Where 80*y+x leads when the statement computes it, once for the read and once
\* for the store, in the order the compiler likes.
Addressed(cell) == moved \/ cell = put.cell

ReadColours(from) ==
  /\ put.stage = "begun"
  /\ Addressed(from)
  /\ put' = [put EXCEPT !.stage = "read", !.from = from, !.colours = vga[from].colours]
  /\ UNCHANGED <<mouseX, mouseY, data, vga, history>>

Store(to, c) ==
  /\ put.stage = "read"
  /\ Addressed(to)
  /\ Stored(to, put.colours, c)
  /\ IF to = At \/ (c <= 127 /\ to = put.from /\ ~straddled)
     THEN UNCHANGED <<bright, stained>>
     ELSE IF c > 127
     THEN bright' = bright \cup {to} /\ stained' = stained \ {to}
     ELSE stained' = stained \cup {to} /\ UNCHANGED bright
  /\ put' = NoPut /\ moved' = FALSE /\ straddled' = FALSE

\* An interrupt prints: the keyboard's, or one without a driver.  No packet comes
\* in between.  It leaves the cursor elsewhere.
HandlerPrint(cell, c) ==
  /\ Stored(cell, vga[cell].colours, c)
  /\ moved' = (put.stage # "idle")
  /\ UNCHANGED <<put, straddled, bright, stained>>

Next ==
  \/ \E dx \in Motions, dy \in Motions : Packet(dx % ByteSize, dy % ByteSize)
  \/ \E cell \in Cell : Begin(cell) \/ ReadColours(cell)
  \/ \E cell \in Cell, c \in Chars : Store(cell, c)
  \/ \E cell \in Cell, c \in KeyChars : HandlerPrint(cell, c)

Spec == Init /\ [][Next]_vars

-----------------------------------------------------------------------------
(* Properties.                                                             *)

\* Every variable holds a value of its type; the pointer is on the screen.
TypeOK ==
  /\ At \in Cell
  /\ data \in Value /\ vga \in [Cell -> Value]
  /\ put \in Put
  /\ moved \in BOOLEAN /\ straddled \in BOOLEAN
  /\ bright \subseteq Cell /\ stained \subseteq Cell /\ lost \subseteq Cell
  /\ text \in [Cell -> 0 .. 255]

\* The colours of a cell that nobody took for another's.
Expected(cell) == IF cell \in bright THEN White ELSE Normal

\* A cell has the screen's colours, or the white on white of the byte above 127
\* that print() stored there, unless the pointer is on it or it is stained: the
\* one where the pointer began, which the first packet makes black on black, and
\* those where print() stored colours that it had read in another cell, since a
\* key press moved its cursor, or before a packet.
ColoursAccounted ==
  \A cell \in Cell \ ({At} \cup stained) : vga[cell].colours = Expected(cell)

\* A cell shows the last character printed there, unless the pointer is on it
\* or was when the character was printed.
TextAccounted ==
  \A cell \in Cell \ {At} : vga[cell].char = text[cell] \/ cell \in lost

Clamp(p, size) == IF p >= size THEN size - 1 ELSE IF p < 0 THEN 0 ELSE p

\* Where a coordinate p should be that the mouse moves by d: as far as the
\* screen reaches, but at the upper or left edge if d, up to half a byte, leads
\* beyond what an int8_t holds; longer motions wrap once, then are clamped.
Arrives(p, d, size) ==
  LET n == p + d
  IN  IF n \in Int8 THEN Clamp(n, size)
      ELSE IF d \in 1 .. ByteSize \div 2 THEN 0
      ELSE Clamp(IF n > 0 THEN n - ByteSize ELSE n + ByteSize, size)

\* The pointer goes where the mouse does, or, past what an int8_t holds, back to
\* the opposite edge: of the nine bits of a motion the driver adds eight, and its
\* clamps come after the sum has wrapped.
PointerFollows ==
  [][\A dx \in Motions, dy \in Motions :
       Packet(dx % ByteSize, dy % ByteSize) =>
         mouseX' = Arrives(mouseX, dx, Cols) /\ mouseY' = Arrives(mouseY, -dy, Rows)]_vars
=============================================================================
