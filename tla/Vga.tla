-------------------------------- MODULE Vga ---------------------------------
(***************************************************************************)
(* VideoGraphicsArray (vga.cpp): programming the registers of a mode, and  *)
(* drawing in the memory window that they select.                          *)
(***************************************************************************)
EXTENDS Integers

CONSTANTS
  Cols, Rows,        \* 320 and 200 in the source
  WordSize,          \* 2^32 in the source
  Mode,              \* g_320x200x256: the bytes of each group of registers
  BootFiles,         \* what the registers may hold at boot
  Points, Lengths,   \* arguments of the drawing calls
  Colours

Group == {"misc", "sequencer", "crtc", "graphics", "attribute"}
Byte  == 0 .. 255
Last  == [misc |-> 0, sequencer |-> 4, crtc |-> 24, graphics |-> 8, attribute |-> 20]

\* A byte for every register.
Files(r) ==
  /\ r = [g \in Group |-> r[g]]
  /\ \A g \in Group : r[g] \in [0 .. Last[g] -> Byte]

\* The table selects the graphics window.
ASSUME ModeAssumption == Files(Mode) /\ (Mode.graphics[6] \div 4) % 4 = 1
ASSUME BootAssumption == \A r \in BootFiles : Files(r)
ASSUME ScreenAssumption == WordSize \in Nat \ {0} /\ Cols \in Nat /\ Rows \in Nat
\* A loop variable that passed the largest int32_t would have no defined value.
ASSUME ArgumentAssumption ==
  /\ Points \cup Lengths \subseteq 0 .. WordSize - 1
  /\ \A p \in Points, length \in Lengths :
       p + length <= WordSize \div 2 \/ p >= WordSize \div 2 \/ p + length >= WordSize

VARIABLES
  pc, i, modeSet,  \* what the driver is doing, its loop variable, what it did
  boot,            \* the register files the BIOS left
  register,        \* the register files of the adapter
  flipflop,        \* 0x3C0 expects an "index" or "data"
  attribute,       \* the index written there, with the bit that shows the picture
  rectangle, X, Y, \* of fillRectangle
  memory           \* bytes stored in memory: [address, colour]

screen == <<boot, register, flipflop, attribute>>
vars   == <<pc, i, modeSet, screen, rectangle, X, Y, memory>>

NoRectangle == [x |-> 0, y |-> 0, w |-> 0, h |-> 0, colour |-> "black"]

Locked(r)     == r.crtc[17] >= 128      \* 0x11 bit 7 protects 0 to 7
Accessible(r) == r.crtc[3] >= 128       \* 0x03 bit 7 gives access to 0x10, 0x11

\* The BIOS leaves the locks, the index and the flip-flop as it likes.
Init ==
  /\ pc = "idle" /\ i = 0 /\ modeSet = FALSE
  /\ boot \in BootFiles /\ register = boot
  /\ flipflop \in {"index", "data"} /\ attribute \in 0 .. 63
  /\ rectangle = NoRectangle /\ X = 0 /\ Y = 0
  /\ memory = {}

-----------------------------------------------------------------------------
(* The adapter.                                                            *)

With(r, g, n, b) == [r EXCEPT ![g][n] = b]

\* A byte for a register of the CRTC.
StoreCrtc(r, n, b) ==
  IF \/ n <= 7 /\ Locked(r)
     \/ n \in {16, 17} /\ ~Accessible(r)
    THEN r
    ELSE With(r, "crtc", n, b)

\* A byte written to 0x3C0 when it expects f and a is the index.  The palette
\* takes bytes only while the picture is off.
StoreAttribute(r, f, a, b) ==
  IF f = "data" /\ a % 32 <= Last["attribute"] /\ (a % 32 <= 15 => a < 32)
    THEN With(r, "attribute", a % 32, b)
    ELSE r
Flip(f)       == IF f = "index" THEN "data" ELSE "index"
Index(f, a, b) == IF f = "index" THEN b % 64 ELSE a

\* Two bytes written to 0x3C0.
WritePair(f, b, c) ==
  LET a == Index(f, attribute, b)
      r == StoreAttribute(register, f, attribute, b)
  IN  /\ register' = StoreAttribute(r, Flip(f), a, c)
      /\ attribute' = Index(Flip(f), a, c)
      /\ flipflop' = f

-----------------------------------------------------------------------------
(* WriteRegisters().                                                       *)

SetBit7(b)   == 128 + (b % 128)
ClearBit7(b) == b % 128

\* The table, with the two bits that WriteRegisters changes in memory.
Registers ==
  With(With(Mode, "crtc", 3, SetBit7(Mode.crtc[3])),
       "crtc", 17, ClearBit7(Mode.crtc[17]))

drawing == <<modeSet, rectangle, X, Y, memory>>

\* One more register of group g; after its last the driver goes on with next.
Advance(g, next) ==
  IF i = Last[g] THEN pc' = next /\ i' = 0 ELSE pc' = pc /\ i' = i + 1

SupportsMode(width, height, colordepth) ==
  width = Cols /\ height = Rows /\ colordepth = 8

SetMode(width, height, colordepth) ==
  /\ pc = "idle"
  /\ IF SupportsMode(width, height, colordepth)
       THEN pc' = "misc" /\ modeSet' = FALSE
       ELSE UNCHANGED <<pc, modeSet>>
  /\ UNCHANGED <<i, screen, rectangle, X, Y, memory>>

WriteFile(g, next) ==
  /\ pc = g
  /\ register' = With(register, g, i, Registers[g][i])
  /\ Advance(g, next)
  /\ UNCHANGED <<boot, flipflop, attribute, drawing>>

\* Wrong on purpose, and used by no action: the lock is left for the loop.
UnlockLate ==
  /\ pc = "unlock"
  /\ register' = StoreCrtc(register, 3, SetBit7(register.crtc[3]))
  /\ pc' = "crtc"
  /\ UNCHANGED <<i, boot, flipflop, attribute, drawing>>

Unlock ==
  /\ pc = "unlock"
  /\ LET r == StoreCrtc(register, 3, SetBit7(register.crtc[3])) IN
     register' = StoreCrtc(r, 17, ClearBit7(r.crtc[17]))
  /\ pc' = "crtc"
  /\ UNCHANGED <<i, boot, flipflop, attribute, drawing>>

WriteCrtc ==
  /\ pc = "crtc"
  /\ register' = StoreCrtc(register, i, Registers.crtc[i])
  /\ Advance("crtc", "graphics")
  /\ UNCHANGED <<boot, flipflop, attribute, drawing>>

\* Reading 0x3DA makes 0x3C0 expect an index.
WriteAttribute ==
  /\ pc = "attribute"
  /\ WritePair("index", i, Registers.attribute[i])
  /\ Advance("attribute", "show")
  /\ UNCHANGED <<boot, drawing>>

ShowPicture ==
  /\ pc = "show"
  /\ attribute' = 32 /\ flipflop' = "data"
  /\ pc' = "idle" /\ modeSet' = TRUE
  /\ UNCHANGED <<i, boot, register, rectangle, X, Y, memory>>

WriteRegisters ==
  \/ WriteFile("misc", "sequencer") \/ WriteFile("sequencer", "unlock")
  \/ Unlock \/ WriteCrtc \/ WriteFile("graphics", "attribute")
  \/ WriteAttribute \/ ShowPicture

-----------------------------------------------------------------------------
(* Drawing.                                                                *)

\* The base addresses of the segments; GetFrameBufferSegment() finds out which
\* is selected.
Base(segment) ==
  CASE segment = 1 -> 655360 [] segment = 2 -> 720896 [] segment = 3 -> 753664
    [] OTHER -> 0

GetFrameBufferSegment == Base((register.graphics[6] \div 4) % 4)

\* The colours GetColorIndex() knows; any other is black.
GetColorIndex(colour) ==
  CASE colour = "blue"  -> 1  [] colour = "green" -> 2
    [] colour = "red"   -> 4  [] colour = "white" -> 63  [] OTHER -> 0

Pixel(base, p, colour) ==
  [address |-> base + Cols * p[2] + p[1], colour |-> GetColorIndex(colour)]

PutPixel(x, y, colour) ==
  IF x < Cols /\ y < Rows
    THEN memory' = memory \cup {Pixel(GetFrameBufferSegment, <<x, y>>, colour)}
    ELSE UNCHANGED memory

\* The unsigned sum of two words.
Plus(a, b) == IF a + b < WordSize THEN a + b ELSE a + b - WordSize

FillRectangle ==
  /\ pc = "idle"
  /\ rectangle' \in [x : Points, y : Points, w : Lengths, h : Lengths, colour : Colours]
  /\ X' = rectangle'.x /\ Y' = rectangle'.y
  /\ pc' = "fill"
  /\ UNCHANGED <<i, modeSet, screen, memory>>

\* Wrong on purpose, and used by no action: the sums do not wrap.
FillUnwrapped ==
  /\ pc = "fill"
  /\ IF Y >= rectangle.y + rectangle.h
       THEN pc' = "filled" /\ UNCHANGED <<X, Y, memory>>
     ELSE /\ IF X < rectangle.x + rectangle.w
               THEN /\ PutPixel(X % WordSize, Y % WordSize, rectangle.colour)
                    /\ X' = X + 1 /\ UNCHANGED Y
               ELSE Y' = Y + 1 /\ X' = rectangle.x /\ UNCHANGED memory
          /\ UNCHANGED pc
  /\ UNCHANGED <<i, modeSet, screen, rectangle>>

\* The two loops.  X and Y are signed but are compared with unsigned sums, so
\* they count modulo the word.
Fill ==
  /\ pc = "fill"
  /\ IF Y >= Plus(rectangle.y, rectangle.h)
       THEN pc' = "filled" /\ UNCHANGED <<X, Y, memory>>
     ELSE /\ IF X < Plus(rectangle.x, rectangle.w)
               THEN /\ PutPixel(X, Y, rectangle.colour)
                    /\ X' = Plus(X, 1) /\ UNCHANGED Y
               ELSE Y' = Plus(Y, 1) /\ X' = rectangle.x /\ UNCHANGED memory
          /\ UNCHANGED pc
  /\ UNCHANGED <<i, modeSet, screen, rectangle>>

Finished == pc = "filled" /\ UNCHANGED vars

Next == \/ \E w \in {Cols, 2 * Cols}, depth \in {8, 16} : SetMode(w, Rows, depth)
        \/ WriteRegisters \/ FillRectangle \/ Fill \/ Finished

Spec == Init /\ [][Next]_vars

-----------------------------------------------------------------------------
(* Properties.                                                             *)

\* The BIOS left the first registers of the CRTC locked, and hid the lock behind
\* one of them.
Sealed == Locked(boot) /\ ~Accessible(boot)
Behind(g, n) == g = "crtc" /\ n \in (0 .. 7) \cup {16, 17}

\* Whatever the BIOS left, a lock on the first registers of the CRTC, no access
\* to the lock, or a 0x3C0 that expects data, SetMode() programs every register
\* of the table, leaves the CRTC unlocked and shows the picture; but if there
\* was both a lock and no access to it, the registers behind the two bits keep
\* what the BIOS left, and SetMode() succeeds none the less.
ModeSet ==
  modeSet =>
    /\ attribute = 32
    /\ ~Sealed => ~Locked(register) /\ Accessible(register)
    /\ \A g \in Group : \A n \in 0 .. Last[g] :
         register[g][n] = IF Sealed /\ Behind(g, n) THEN boot[g][n] ELSE Registers[g][n]

GraphicsWindow == 655360         \* 0xA0000

Visible == {p \in (0 .. Cols - 1) \X (0 .. Rows - 1) :
              /\ rectangle.x <= p[1] /\ p[1] < rectangle.x + rectangle.w
              /\ rectangle.y <= p[2] /\ p[2] < rectangle.y + rectangle.h}

Wraps(p, length) == p + length >= WordSize

\* fillRectangle() clips: it stores the visible pixels of a rectangle and nothing
\* else, and once the mode is set it stores them in the graphics window; but a
\* rectangle that begins left of the screen or above it and reaches it, where the
\* unsigned sums wrap, is not drawn at all.
RectangleClipped ==
  LET base == IF modeSet THEN GraphicsWindow ELSE GetFrameBufferSegment IN
  pc = "filled" =>
    memory =
      IF Wraps(rectangle.x, rectangle.w) \/ Wraps(rectangle.y, rectangle.h) THEN {}
      ELSE {Pixel(base, p, rectangle.colour) : p \in Visible}
=============================================================================
