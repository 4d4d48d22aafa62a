--------------------------- MODULE Pointer_proof ----------------------------
(***************************************************************************)
(* Pointer, for every screen, byte size, motion and character: what the    *)
(* pointer hides is put back, except where print() and a packet or a key   *)
(* press crossed, and the pointer goes where its bytes say.                *)
(***************************************************************************)
EXTENDS Pointer, TLAPS

\* The colours saved under the pointer are those of its cell, like those of the
\* cells elsewhere, unless the cell is stained.
SavedColours == At \notin stained => data.colours = Expected(At)

\* What kernelMain has read is what the cell still has, until a packet comes.
ReadColoursInv ==
  put.stage = "read" /\ ~straddled /\ put.from \notin {At} \cup stained =>
    put.colours = Expected(put.from)

\* The character saved under the pointer is the last one printed there, unless
\* it was printed under the pointer.
SavedText == At \notin lost => data.char = text[At]

IInv == /\ TypeOK /\ ColoursAccounted /\ TextAccounted
        /\ SavedColours /\ ReadColoursInv /\ SavedText


\* Integer division by any positive divisor, as the provers take it.
LEMMA DivMod ==
  ASSUME NEW b \in Nat \ {0}, NEW n \in Int
  PROVE  /\ n \div b \in Int /\ n % b \in 0 .. b - 1
         /\ n = b * (n \div b) + (n % b)
<1>1. n \div b \in Int /\ n % b \in 0 .. b - 1
  OBVIOUS
<1>2. n % b = n - b * (n \div b)
  BY Z3
<1>3. b * (n \div b) \in Int
  BY <1>1
<1> QED
  BY <1>1, <1>2, <1>3

\* A multiple of b that is smaller than b is 0.
LEMMA SmallMultiple ==
  ASSUME NEW b \in Nat \ {0}, NEW k \in Int, b * k < b, -b < b * k
  PROVE  k = 0
<1>1. CASE k >= 1
  <2>1. b * k = b + b * (k - 1) /\ b * (k - 1) >= 0
    BY <1>1
  <2> QED
    BY <2>1, <1>1
<1>2. CASE k <= -1
  <2>1. b * k = -b - b * (-1 - k) /\ b * (-1 - k) >= 0
    BY <1>2
  <2> QED
    BY <2>1, <1>2
<1> QED
  BY <1>1, <1>2

\* Adding a multiple of the divisor leaves the remainder alone.
LEMMA SameRemainder ==
  ASSUME NEW b \in Nat \ {0}, NEW m \in 0 .. b - 1, NEW q \in Int
  PROVE  (m + b * q) % b = m
<1> DEFINE n == m + b * q
<1>1. n \in Int
  OBVIOUS
<1>2. PICK k \in Int, r \in 0 .. b - 1 : n = b * k + r /\ r = n % b
  BY <1>1, DivMod
<1>3. b * (k - q) = m - r
  BY <1>2
<1>4. k - q = 0
  <2>1. k - q \in Int /\ b * (k - q) < b /\ -b < b * (k - q)
    BY <1>3
  <2> QED
    BY <2>1, SmallMultiple
<1> QED
  BY <1>2, <1>3, <1>4

\* Narrow(p + byte) for a byte that stands for the motion d: the number in an
\* int8_t that differs from p + d by a multiple of a byte.
LEMMA NarrowExact ==
  ASSUME NEW n \in Int8, NEW k \in Int
  PROVE  Narrow(n + ByteSize * k) = n
<1> DEFINE h == ByteSize \div 2
           m == n + h
<1>1. ByteSize \in Nat \ {0} /\ h \in Nat /\ h + h = ByteSize
  BY ScreenAssumption
<1>2. m \in 0 .. ByteSize - 1 /\ n \in Int
  BY <1>1 DEF Int8
<1>3. n + ByteSize * k + h = m + ByteSize * k
  BY <1>1, <1>2
<1>4. (m + ByteSize * k) % ByteSize = m
  BY <1>1, <1>2, SameRemainder
<1> HIDE DEF m
<1>5. Narrow(n + ByteSize * k) = m - h
  BY <1>3, <1>4 DEF Narrow
<1> QED
  BY <1>1, <1>2, <1>5 DEF m

\* A coordinate p and a motion d of nine bits: eight of them are added, and the
\* sum wraps at most once before it is clamped.
LEMMA Wraps ==
  ASSUME NEW p \in Int8, p >= 0, NEW d \in -ByteSize .. ByteSize, NEW size \in Nat \ {0},
         NEW k \in Int, NEW byte, byte = d + ByteSize * k
  PROVE  Moved(p, byte, size) = Arrives(p, d, size)
<1> DEFINE n == p + d
           h == ByteSize \div 2
<1>1. ByteSize \in Nat \ {0} /\ h \in Nat /\ h + h = ByteSize
  BY ScreenAssumption
<1>2. p \in 0 .. h - 1 /\ d \in Int /\ n \in Int /\ byte \in Int /\ Int8 = -h .. h - 1
  BY <1>1 DEF Int8
<1>3. n + ByteSize * k = p + byte
  BY <1>1, <1>2
<1>4. CASE n \in Int8
  <2>1. Narrow(p + byte) = n
    BY <1>3, <1>4, NarrowExact
  <2> QED
    BY <1>4, <2>1 DEF Moved, Arrives, Clamp
<1>5. CASE n \notin Int8 /\ n > 0
  <2>1. n - ByteSize \in Int8
    BY <1>1, <1>2, <1>5
  <2>2. (n - ByteSize) + ByteSize * (k + 1) = p + byte
    BY <1>1, <1>2, <1>3
  <2>3. k + 1 \in Int
    OBVIOUS
  <2>4. Narrow(p + byte) = n - ByteSize
    BY <2>1, <2>2, <2>3, NarrowExact
  <2>5. Moved(p, byte, size) = Clamp(n - ByteSize, size)
    BY <2>4 DEF Moved, Clamp
  <2>6. d \in 1 .. h => Clamp(n - ByteSize, size) = 0
    BY <1>1, <1>2 DEF Clamp
  <2> QED
    BY <1>5, <2>5, <2>6 DEF Arrives
<1>6. CASE n \notin Int8 /\ ~(n > 0)
  <2>1. n + ByteSize \in Int8 /\ d < 1
    BY <1>1, <1>2, <1>6
  <2>2. (n + ByteSize) + ByteSize * (k - 1) = p + byte
    BY <1>1, <1>2, <1>3
  <2>3. k - 1 \in Int
    OBVIOUS
  <2>4. Narrow(p + byte) = n + ByteSize
    BY <2>1, <2>2, <2>3, NarrowExact
  <2> QED
    BY <1>2, <1>6, <2>1, <2>4 DEF Moved, Arrives, Clamp
<1> QED
  BY <1>4, <1>5, <1>6

\* So do the byte of the packet and, downwards, its negation.
LEMMA MovedArrives ==
  ASSUME NEW p \in Int8, p >= 0, NEW d \in Motions, NEW size \in Nat \ {0}
  PROVE  /\ Moved(p, d % ByteSize, size) = Arrives(p, d, size)
         /\ Moved(p, -(d % ByteSize), size) = Arrives(p, -d, size)
<1> DEFINE q == d \div ByteSize
<1>1. ByteSize \in Nat \ {0} /\ d \in Int
      /\ d \in -ByteSize .. ByteSize /\ -d \in -ByteSize .. ByteSize
  BY ScreenAssumption, DataAssumption
<1>2. q \in Int /\ d % ByteSize \in Int /\ d = ByteSize * q + (d % ByteSize)
  BY <1>1, DivMod
<1> HIDE DEF q
<1>3. /\ d % ByteSize = d + ByteSize * (-q) /\ -q \in Int
      /\ -(d % ByteSize) = (-d) + ByteSize * q
  BY <1>1, <1>2
<1>4. Moved(p, d % ByteSize, size) = Arrives(p, d, size)
  BY <1>1, <1>3, Wraps
<1>5. Moved(p, -(d % ByteSize), size) = Arrives(p, -d, size)
  BY <1>1, <1>2, <1>3, Wraps
<1> QED
  BY <1>4, <1>5

\* The clamps leave a coordinate on the screen, whatever came before them.
LEMMA MovedOnScreen ==
  ASSUME NEW p \in Int, NEW byte \in Int, NEW size \in Nat \ {0}
  PROVE  Moved(p, byte, size) \in 0 .. size - 1
<1>1. Narrow(p + byte) \in Int
  BY ScreenAssumption DEF Narrow
<1> QED
  BY <1>1 DEF Moved

\* Drawing the pointer in a cell leaves a value of video memory there.
LEMMA DrawnType ==
  ASSUME NEW v \in Value
  PROVE  Drawn(v) \in Value
<1>1. v.colours \in Colour \X Colour /\ v.char \in 0 .. 255
  BY DEF Value
<1>2. v.char \div 16 \in 0 .. 255
  BY <1>1
<1>3. <<v.colours[2], v.colours[1]>> \in Colour \X Colour
  BY <1>1
<1> QED
  BY <1>2, <1>3 DEF Drawn, Value

\* So does mixing a character into the colours of a cell.
LEMMA MixedType ==
  ASSUME NEW colours \in Colour \X Colour, NEW c \in 0 .. 255
  PROVE  /\ Mixed(colours, c) \in Value /\ Mixed(colours, c).char = c
         /\ Mixed(colours, c).colours = IF c > 127 THEN White ELSE colours
BY DEF Mixed, Value, White, Colour

\* The invariant holds when activate() has returned.
LEMMA InitInv == Init => IInv
<1> SUFFICES ASSUME Init PROVE IInv
  OBVIOUS
<1> USE DEF Init, At, Home
<1>1. TypeOK
  <2>1. Home \in Cell
    BY ScreenAssumption DEF Cell
  <2>2. Black \in Colour \X Colour /\ Normal \in Colour \X Colour
    BY DEF Black, Normal, Colour
  <2>3. NoPut \in Put
    BY <2>1, <2>2 DEF NoPut, Put
  <2>4. data \in Value /\ vga \in [Cell -> Value] /\ text \in [Cell -> 0 .. 255]
    BY <2>2 DEF Value, Space
  <2> QED
    BY <2>1, <2>3, <2>4 DEF TypeOK
<1>2. ColoursAccounted /\ TextAccounted
  BY DEF ColoursAccounted, TextAccounted, Expected
<1>3. SavedColours /\ ReadColoursInv /\ SavedText
  BY DEF SavedColours, ReadColoursInv, SavedText, NoPut
<1> QED
  BY <1>1, <1>2, <1>3 DEF IInv

\* A packet keeps the invariant: the cell left gets back what was saved.
LEMMA PacketInv ==
  ASSUME IInv, NEW bx \in Int, NEW by \in Int, Packet(bx, by)
  PROVE  IInv'
<1> DEFINE there   == <<mouseX', mouseY'>>
           cleared == [vga EXCEPT ![At] = data]
<1>1. TypeOK
  BY DEF IInv
<1>2. At \in Cell /\ mouseX \in 0 .. Cols - 1 /\ mouseY \in 0 .. Rows - 1
  BY <1>1 DEF TypeOK, At, Cell
<1>3. there \in Cell
  <2>1. mouseX' \in 0 .. Cols - 1
    <3>1. mouseX \in Int /\ Cols \in Nat \ {0}
      BY <1>2, ScreenAssumption
    <3> QED
      BY <3>1, MovedOnScreen DEF Packet
  <2>2. mouseY' \in 0 .. Rows - 1
    <3>1. mouseY \in Int /\ Rows \in Nat \ {0} /\ -by \in Int
      BY <1>2, ScreenAssumption
    <3> QED
      BY <3>1, MovedOnScreen DEF Packet
  <2> QED
    BY <2>1, <2>2 DEF Cell
<1>4. /\ cleared \in [Cell -> Value]
      /\ \A c \in Cell : cleared[c] = IF c = At THEN data ELSE vga[c]
  BY <1>1, <1>2 DEF TypeOK
<1>5. /\ At' = there
      /\ data' = cleared[there]
      /\ vga' = [cleared EXCEPT ![there] = Drawn(cleared[there])]
      /\ straddled' = (put.stage = "read")
      /\ UNCHANGED <<put, moved, bright, stained, lost, text>>
  BY DEF Packet, At
<1> HIDE DEF there, cleared
<1>6. /\ data' \in Value /\ vga' \in [Cell -> Value]
      /\ \A c \in Cell : c # there => vga'[c] = cleared[c]
  <2>1. cleared[there] \in Value /\ Drawn(cleared[there]) \in Value
    BY <1>3, <1>4, DrawnType
  <2> QED
    BY <1>3, <1>4, <1>5, <2>1
<1>7. TypeOK'
  BY <1>1, <1>3, <1>5, <1>6 DEF TypeOK
<1>8. \A c \in Cell : c \notin stained => cleared[c].colours = Expected(c)
  BY <1>4 DEF IInv, ColoursAccounted, SavedColours
<1>9. \A c \in Cell : c \notin lost => cleared[c].char = text[c]
  BY <1>4 DEF IInv, TextAccounted, SavedText
<1>10. \A c \in Cell : Expected(c)' = Expected(c)
  BY <1>5 DEF Expected
<1>11. ColoursAccounted'
  BY <1>5, <1>6, <1>8, <1>10 DEF ColoursAccounted
<1>12. TextAccounted'
  BY <1>5, <1>6, <1>9 DEF TextAccounted
<1>13. SavedColours'
  BY <1>3, <1>5, <1>8, <1>10 DEF SavedColours
<1>14. SavedText'
  BY <1>3, <1>5, <1>9 DEF SavedText
<1>15. ReadColoursInv'
  BY <1>5 DEF ReadColoursInv
<1> QED
  BY <1>7, <1>11, <1>12, <1>13, <1>14, <1>15 DEF IInv

\* Coming to the statement keeps the invariant.
LEMMA BeginInv ==
  ASSUME IInv, NEW cell \in Cell, Begin(cell)
  PROVE  IInv'
<1>1. /\ TypeOK /\ UNCHANGED <<mouseX, mouseY, data, vga, At>>
      /\ UNCHANGED <<moved, straddled, bright, stained, lost, text>>
      /\ put' = [NoPut EXCEPT !.stage = "begun", !.cell = cell]
  BY DEF IInv, Begin, history, At
<1>2. put' \in Put /\ put'.stage = "begun"
  <2>1. NoPut \in Put
    BY ScreenAssumption DEF NoPut, Put, Cell, Black, Colour
  <2> QED
    BY <1>1, <2>1 DEF Put
<1>3. TypeOK'
  BY <1>1, <1>2 DEF TypeOK
<1>4. ReadColoursInv'
  BY <1>2 DEF ReadColoursInv
<1> QED
  BY <1>1, <1>3, <1>4 DEF IInv, ColoursAccounted, TextAccounted, SavedColours,
    SavedText, Expected

\* kernelMain's read keeps the invariant.
LEMMA ReadInv ==
  ASSUME IInv, NEW from \in Cell, ReadColours(from)
  PROVE  IInv'
<1>1. /\ TypeOK /\ UNCHANGED <<mouseX, mouseY, data, vga, At>>
      /\ UNCHANGED <<moved, straddled, bright, stained, lost, text>>
      /\ put' = [put EXCEPT !.stage = "read", !.from = from,
                            !.colours = vga[from].colours]
  BY DEF IInv, ReadColours, history, At
<1>2. vga[from].colours \in Colour \X Colour /\ put \in Put
  BY <1>1 DEF TypeOK, Value
<1>3. put' \in Put /\ put'.from = from /\ put'.colours = vga[from].colours
  BY <1>1, <1>2 DEF Put
<1>4. TypeOK'
  BY <1>1, <1>3 DEF TypeOK
<1>5. ReadColoursInv'
  BY <1>1, <1>3 DEF IInv, ReadColoursInv, ColoursAccounted, Expected
<1> QED
  BY <1>1, <1>4, <1>5 DEF IInv, ColoursAccounted, TextAccounted, SavedColours,
    SavedText, Expected

\* What a store does to the text and the types, whoever makes it.
LEMMA StoredInv ==
  ASSUME IInv, NEW cell \in Cell, NEW colours \in Colour \X Colour,
         NEW c, c \in 0 .. 255, Stored(cell, colours, c)
  PROVE  /\ TextAccounted' /\ SavedText'
         /\ data' \in Value /\ vga' \in [Cell -> Value]
         /\ lost' \subseteq Cell /\ text' \in [Cell -> 0 .. 255]
         /\ mouseX' = mouseX /\ mouseY' = mouseY /\ data' = data /\ At' = At
         /\ \A d \in Cell : vga'[d].colours =
              IF d # cell THEN vga[d].colours ELSE IF c > 127 THEN White ELSE colours
<1> DEFINE stored == Mixed(colours, c)
<1>1. TypeOK
  BY DEF IInv
<1>2. /\ stored \in Value /\ stored.char = c
      /\ stored.colours = IF c > 127 THEN White ELSE colours
  BY MixedType
<1>3. /\ vga' = [vga EXCEPT ![cell] = stored]
      /\ text' = [text EXCEPT ![cell] = c]
      /\ lost' = IF cell = At THEN lost \cup {cell} ELSE lost \ {cell}
      /\ UNCHANGED <<mouseX, mouseY, data, At>>
  BY DEF Stored, At
<1> HIDE DEF stored
<1>4. /\ data' \in Value /\ vga' \in [Cell -> Value]
      /\ lost' \subseteq Cell /\ text' \in [Cell -> 0 .. 255]
  BY <1>1, <1>2, <1>3 DEF TypeOK
<1>5. /\ \A d \in Cell : vga'[d] = IF d = cell THEN stored ELSE vga[d]
      /\ \A d \in Cell : text'[d] = IF d = cell THEN c ELSE text[d]
  BY <1>1, <1>3 DEF TypeOK
<1>6. TextAccounted'
  BY <1>2, <1>3, <1>5 DEF IInv, TextAccounted
<1>7. SavedText'
  BY <1>1, <1>3, <1>5 DEF IInv, SavedText, TypeOK
<1> QED
  BY <1>2, <1>3, <1>4, <1>5, <1>6, <1>7

\* kernelMain's store keeps the invariant: it stores what the cell had, or white,
\* or the cell is stained.
LEMMA StoreInv ==
  ASSUME IInv, NEW to \in Cell, NEW c \in Chars, Store(to, c)
  PROVE  IInv'
<1>1. /\ TypeOK /\ c \in 0 .. 255 /\ put \in Put
      /\ put.stage = "read" /\ Stored(to, put.colours, c)
      /\ put' = NoPut /\ moved' = FALSE /\ straddled' = FALSE
  BY DataAssumption DEF IInv, Store, TypeOK
<1>2. put.colours \in Colour \X Colour
  BY <1>1 DEF Put
<1>3. /\ TextAccounted' /\ SavedText'
      /\ data' \in Value /\ vga' \in [Cell -> Value]
      /\ lost' \subseteq Cell /\ text' \in [Cell -> 0 .. 255]
      /\ mouseX' = mouseX /\ mouseY' = mouseY /\ data' = data /\ At' = At
      /\ \A d \in Cell : vga'[d].colours =
           IF d # to THEN vga[d].colours ELSE IF c > 127 THEN White ELSE put.colours
  BY <1>1, <1>2, StoredInv
<1>4. /\ bright \subseteq Cell /\ stained \subseteq Cell
      /\ \A d \in Cell \ {to} : (d \in bright') = (d \in bright)
      /\ \A d \in Cell \ {to} : (d \in stained') = (d \in stained)
      /\ to = At => UNCHANGED <<bright, stained>>
      /\ bright' \subseteq Cell /\ stained' \subseteq Cell
  BY <1>1 DEF Store, TypeOK
<1>5. At \in Cell
  BY <1>1 DEF TypeOK
<1>6. to \notin {At} \cup stained' => vga'[to].colours = Expected(to)'
  <2> SUFFICES ASSUME to # At, to \notin stained'
               PROVE  vga'[to].colours = Expected(to)'
    OBVIOUS
  <2>1. CASE c > 127
    <3>1. to \in bright'
      BY <1>1, <2>1 DEF Store
    <3> QED
      BY <1>3, <2>1, <3>1 DEF Expected
  <2>2. CASE ~(c > 127)
    <3>1. /\ to = put.from /\ ~straddled
          /\ UNCHANGED <<bright, stained>>
      BY <1>1, <2>2 DEF Store
    <3>2. put.colours = Expected(to)
      BY <1>1, <3>1 DEF IInv, ReadColoursInv
    <3> QED
      BY <1>3, <2>2, <3>1, <3>2 DEF Expected
  <2> QED
    BY <2>1, <2>2
<1>7. ColoursAccounted'
  <2> SUFFICES ASSUME NEW d \in Cell, d # At, d \notin stained'
               PROVE  vga'[d].colours = Expected(d)'
    BY <1>3 DEF ColoursAccounted
  <2>1. CASE d = to
    BY <1>6, <2>1
  <2>2. CASE d # to
    BY <1>3, <1>4, <2>2 DEF IInv, ColoursAccounted, Expected
  <2> QED
    BY <2>1, <2>2
<1>8. SavedColours'
  BY <1>3, <1>4, <1>5 DEF IInv, SavedColours, Expected
<1>9. NoPut \in Put /\ NoPut.stage = "idle"
  BY ScreenAssumption DEF NoPut, Put, Cell, Black, Colour
<1>10. TypeOK'
  BY <1>1, <1>3, <1>4, <1>9 DEF TypeOK
<1>11. ReadColoursInv'
  BY <1>1, <1>9 DEF ReadColoursInv
<1> QED
  BY <1>3, <1>7, <1>8, <1>10, <1>11 DEF IInv

\* The handler's print keeps the invariant: it stores the colours it finds.
LEMMA HandlerInv ==
  ASSUME IInv, NEW cell \in Cell, NEW c \in KeyChars, HandlerPrint(cell, c)
  PROVE  IInv'
<1>1. /\ TypeOK /\ c \in 0 .. 255 /\ ~(c > 127)
      /\ Stored(cell, vga[cell].colours, c)
      /\ moved' = (put.stage # "idle")
      /\ UNCHANGED <<put, straddled, bright, stained>>
  BY DataAssumption DEF IInv, HandlerPrint
<1>2. vga[cell].colours \in Colour \X Colour
  BY <1>1 DEF TypeOK, Value
<1>3. /\ TextAccounted' /\ SavedText'
      /\ data' \in Value /\ vga' \in [Cell -> Value]
      /\ lost' \subseteq Cell /\ text' \in [Cell -> 0 .. 255]
      /\ mouseX' = mouseX /\ mouseY' = mouseY /\ data' = data /\ At' = At
      /\ \A d \in Cell : vga'[d].colours = vga[d].colours
  BY <1>1, <1>2, StoredInv
<1>4. TypeOK'
  BY <1>1, <1>3 DEF TypeOK
<1>5. ColoursAccounted' /\ SavedColours' /\ ReadColoursInv'
  BY <1>1, <1>3 DEF IInv, ColoursAccounted, SavedColours, ReadColoursInv, Expected
<1> QED
  BY <1>3, <1>4, <1>5 DEF IInv

\* Every step keeps the invariant.
LEMMA NextInv == IInv /\ [Next]_vars => IInv'
<1> SUFFICES ASSUME IInv, [Next]_vars PROVE IInv'
  OBVIOUS
<1>1. ASSUME NEW dx \in Motions, NEW dy \in Motions,
             Packet(dx % ByteSize, dy % ByteSize)
      PROVE  IInv'
  <2>1. dx % ByteSize \in Int /\ dy % ByteSize \in Int
    BY DataAssumption, ScreenAssumption
  <2> QED
    BY <1>1, <2>1, PacketInv
<1>2. ASSUME NEW cell \in Cell, Begin(cell) \/ ReadColours(cell) PROVE IInv'
  BY <1>2, BeginInv, ReadInv
<1>3. ASSUME NEW cell \in Cell, NEW c \in Chars, Store(cell, c) PROVE IInv'
  BY <1>3, StoreInv
<1>4. ASSUME NEW cell \in Cell, NEW c \in KeyChars, HandlerPrint(cell, c) PROVE IInv'
  BY <1>4, HandlerInv
<1>5. CASE UNCHANGED vars
  BY <1>5 DEF vars, machine, history, IInv, TypeOK, ColoursAccounted, Expected,
       TextAccounted, SavedColours, ReadColoursInv, SavedText, At
<1> QED
  BY <1>1, <1>2, <1>3, <1>4, <1>5 DEF Next

\* The invariant, of the specification.
THEOREM Invariance == Spec => []IInv
BY InitInv, NextInv, PTL DEF Spec

\* TypeOK: the pointer never leaves the screen, though its sum with the motion
\* wraps in an int8_t (mouse.cpp:69-75), and no colour leaves its four bits.
THEOREM TypeCorrect == Spec => []TypeOK
<1>1. IInv => TypeOK
  BY DEF IInv
<1> QED
  BY <1>1, Invariance, PTL

\* ColoursAccounted: the colours of the screen, and the white that print() leaves
\* with a byte above 127, survive the pointer except at its first cell and where
\* print() stored what it had read elsewhere or before a packet.
THEOREM ColoursAreAccounted == Spec => []ColoursAccounted
<1>1. IInv => ColoursAccounted
  BY DEF IInv
<1> QED
  BY <1>1, Invariance, PTL

\* TextAccounted: the pointer takes no character away but those printed
\* under it.
THEOREM TextIsAccounted == Spec => []TextAccounted
<1>1. IInv => TextAccounted
  BY DEF IInv
<1> QED
  BY <1>1, Invariance, PTL

\* PointerFollows: the pointer goes where the mouse does; a sum that an int8_t
\* does not hold wraps before the clamps see it (mouse.cpp:70-76).
THEOREM PointerGoesAlong == Spec => PointerFollows
<1> DEFINE Follows ==
             \A dx \in Motions, dy \in Motions :
               Packet(dx % ByteSize, dy % ByteSize) =>
                 mouseX' = Arrives(mouseX, dx, Cols) /\ mouseY' = Arrives(mouseY, -dy, Rows)
<1>1. ASSUME IInv, NEW dx \in Motions, NEW dy \in Motions,
             Packet(dx % ByteSize, dy % ByteSize)
      PROVE  mouseX' = Arrives(mouseX, dx, Cols) /\ mouseY' = Arrives(mouseY, -dy, Rows)
  <2>1. At \in Cell
    BY <1>1 DEF IInv, TypeOK
  <2>2. /\ mouseX \in Int8 /\ mouseX >= 0 /\ Cols \in Nat \ {0}
        /\ mouseY \in Int8 /\ mouseY >= 0 /\ Rows \in Nat \ {0}
    BY <2>1, ScreenAssumption DEF At, Cell, Int8
  <2>3. /\ mouseX' = Moved(mouseX, dx % ByteSize, Cols)
        /\ mouseY' = Moved(mouseY, -(dy % ByteSize), Rows)
    BY <1>1 DEF Packet
  <2> QED
    BY <2>2, <2>3, MovedArrives
<1>2. IInv => [Follows]_vars
  BY <1>1
<1>3. Spec => [][Follows]_vars
  BY <1>2, Invariance, PTL DEF Spec
<1> QED
  BY <1>3 DEF PointerFollows
=============================================================================
