----------------------------- MODULE Ps2_proof ------------------------------
(***************************************************************************)
(* Proofs about Ps2, for any scan codes, BIOS configurations and depth.    *)
(*                                                                         *)
(* Where the packets begin depends on where the acknowledgement of the     *)
(* mouse is: the first of its bytes, and once it has come there is none    *)
(* among those to come.  That only one byte is stolen depends on the       *)
(* request left over from activation: a later one comes with a byte of the *)
(* keyboard in the output buffer, which keeps the mouse's out.             *)
(***************************************************************************)
EXTENDS Ps2, TLAPS

NoAck(bytes) == \A i \in 1 .. Len(bytes) : bytes[i] # Ack

AckFirst == aux # <<>> /\ Head(aux) = Ack /\ NoAck(Tail(aux)) /\ late = 0

\* Before EnableReporting the mouse has nothing to say.
SilentInv ==
  pc \notin {"auxAck", "sti", "run"} =>
    ~moving /\ aux = <<>> /\ index = 0 /\ ~AuxData /\ late = 0

\* The acknowledgement is on its way, or in the output buffer.
AckInv ==
  pc = "auxAck" =>
    /\ index = 0
    /\ \/ AckFirst /\ ~AuxData
       \/ AuxData /\ out.byte = Ack /\ NoAck(aux) /\ late = 1

Aligned ==
  (offset + (IF AuxData THEN 1 ELSE 0)) % 3 = (index + late + 2 * stolen) % 3

\* activate() has it, or it is late.
AlignedInv ==
  pc \in {"sti", "run"} => Aligned /\ (AckFirst \/ (NoAck(aux) /\ late <= 1))

OffsetInv == pc # "run" => offset = 0 /\ stolen = 0

\* No second byte can be stolen.
StolenInv ==
  /\ stolen <= 1
  /\ stolen = 1 /\ 1 \in irr => obf /\ out.from # "aux"

Place == SilentInv /\ AckInv /\ AlignedInv /\ OffsetInv /\ StolenInv

IInv == TypeOK /\ Place

-----------------------------------------------------------------------------
(* Bytes and sequences of bytes.                                           *)

\* The acknowledgement is a byte, and the bytes of a packet are others.
LEMMA Bytes ==
  /\ Ack \in Byte /\ {3} \in Byte /\ {} \in Byte
  /\ {3} # Ack /\ {} # Ack
<1>1. Ack \in Byte /\ {3} \in Byte /\ {} \in Byte
  BY DEF Ack, Byte
<1>2. 1 \in Ack /\ 1 \notin {3} /\ 1 \notin {}
  BY DEF Ack
<1>. QED BY <1>1, <1>2

\* Counting bytes modulo 3: the driver takes one, a keyboard interrupt takes
\* one, the mouse gives the acknowledgement, or a byte of a packet.
LEMMA Modulo3 ==
  ASSUME NEW o \in 0 .. 2, NEW k \in 0 .. 2, NEW l \in 0 .. 1, NEW n \in 0 .. 1
  PROVE  /\ (o + 1) % 3 \in 0 .. 2 /\ (((o + 1) % 3) + 0) % 3 = (o + 1) % 3
         /\ (o + 1) % 3 = (k + l + 2 * 0) % 3 => (o + 0) % 3 = (k + l + 2 * 1) % 3
         /\ (o + 0) % 3 = (k + 0 + 2 * n) % 3 => (o + 1) % 3 = (k + 1 + 2 * n) % 3
         /\ (o + 0) % 3 = (k + l + 2 * n) % 3 =>
              (o + 1) % 3 = (((k + 1) % 3) + l + 2 * n) % 3
OBVIOUS

\* Taking the first byte off a queue.
LEMMA TailBytes ==
  ASSUME NEW s \in Seq(Byte), s # <<>>
  PROVE  /\ Head(s) \in Byte /\ Tail(s) \in Seq(Byte)
         /\ NoAck(s) => Head(s) # Ack /\ NoAck(Tail(s))
BY DEF NoAck

\* A packet at the end of a queue.
LEMMA PacketBytes ==
  ASSUME NEW s \in Seq(Byte)
  PROVE  LET t == s \o <<{3}, {}, {}>>
         IN  /\ t \in Seq(Byte) /\ t # <<>>
             /\ s # <<>> => Head(t) = Head(s)
             /\ s # <<>> => Tail(t) = Tail(s) \o <<{3}, {}, {}>>
             /\ NoAck(s) => NoAck(t)
<1>. DEFINE p == <<{3}, {}, {}>>  t == s \o p
<1>1. p \in Seq(Byte) /\ Len(p) = 3
  BY Bytes
<1>2. \A i \in 1 .. 3 : p[i] # Ack
  BY Bytes
<1>3. t \in Seq(Byte) /\ Len(t) = Len(s) + 3
  BY <1>1
<1>4. \A i \in 1 .. Len(t) : t[i] = IF i <= Len(s) THEN s[i] ELSE p[i - Len(s)]
  BY <1>1
<1>5. NoAck(s) => NoAck(t)
  BY <1>2, <1>3, <1>4 DEF NoAck
<1>6. ASSUME s # <<>> PROVE Head(t) = Head(s) /\ Tail(t) = Tail(s) \o p
  BY <1>1, <1>6
<1>. QED BY <1>3, <1>5, <1>6

-----------------------------------------------------------------------------
(* The inductive invariant.                                                *)

LEMMA InitIInv == Init => IInv
<1> SUFFICES ASSUME Init PROVE IInv
  OBVIOUS
<1>1. TypeOK
  <2>1. cfg \in Byte /\ status \in Byte /\ {} \in Byte
    BY BytesAssumption, Bytes DEF Init
  <2>2. out \in [from : {"answer", "key", "aux"}, byte : Byte]
    BY <2>1 DEF Init, Entry
  <2>3. obf \in BOOLEAN /\ late \in Nat /\ stolen \in Nat /\ moving \in BOOLEAN
    BY DEF Init
  <2>4. answers \in Seq(Byte) /\ keys \in Seq(Byte) /\ aux \in Seq(Byte)
    BY DEF Init
  <2>. QED BY <2>1, <2>2, <2>3, <2>4 DEF Init, TypeOK
<1>2. Place
  BY DEF Place, Init, SilentInv, AckInv, AlignedInv, OffsetInv, StolenInv, AuxData, Entry
<1>. QED BY <1>1, <1>2 DEF IInv

\* Every step keeps the types.
LEMMA StepType == ASSUME TypeOK, Place, [Next]_vars PROVE TypeOK'
<1> USE BytesAssumption, Bytes
<1>1. ASSUME Drain PROVE TypeOK'
  BY <1>1 DEF TypeOK, Drain, Goto, Read, controller, history
<1>2. ASSUME NEW from, NEW off, NEW to, AskConfig(from, off, to) PROVE TypeOK'
  <2>1. cfg' \in Byte
    BY <1>2 DEF TypeOK, AskConfig, Byte
  <2>. QED BY <1>2, <2>1 DEF TypeOK, AskConfig, Goto, history
<1>3. ASSUME NEW from, NEW set \in Byte, NEW clear, NEW to,
             ReadConfig(from, set, clear, to)
      PROVE  TypeOK'
  <2>1. status' \in Byte
    BY <1>3 DEF TypeOK, ReadConfig, Byte
  <2>. QED BY <1>3, <2>1 DEF TypeOK, ReadConfig, Goto, Read, history
<1>4. ASSUME NEW from, NEW to, WriteConfig(from, to) PROVE TypeOK'
  BY <1>4 DEF TypeOK, WriteConfig, Goto, history
<1>5. ASSUME EnableScanning PROVE TypeOK'
  BY <1>5 DEF TypeOK, EnableScanning, Goto, controller, history
<1>6. ASSUME EnableReporting PROVE TypeOK'
  BY <1>6 DEF TypeOK, EnableReporting, Goto, controller, history
<1>7. ASSUME ReadAck PROVE TypeOK'
  <2>1. late' \in Nat
    <3>1. AuxData /\ out.byte = Ack => late = 1
      BY <1>7 DEF ReadAck, Place, AckInv, AuxData, AckFirst
    <3>2. CASE AuxData /\ out.byte = Ack
      BY <1>7, <3>1, <3>2 DEF ReadAck
    <3>3. CASE ~(AuxData /\ out.byte = Ack)
      BY <1>7, <3>3 DEF ReadAck, TypeOK
    <3>. QED BY <3>2, <3>3
  <2>. QED BY <1>7, <2>1 DEF TypeOK, ReadAck, Read, devices
<1>8. ASSUME Sti PROVE TypeOK'
  BY <1>8 DEF TypeOK, Sti, Goto, controller, history
<1>9. ASSUME KeyboardInterrupt PROVE TypeOK'
  <2>1. stolen' \in Nat
    <3>1. stolen' = stolen + 1 \/ stolen' = stolen
      BY <1>9 DEF KeyboardInterrupt
    <3>. QED BY <3>1 DEF TypeOK
  <2>. QED BY <1>9, <2>1 DEF TypeOK, KeyboardInterrupt, devices
<1>10. ASSUME MouseInterrupt PROVE TypeOK'
  <2>1. offset' \in 0 .. 2 /\ obf' \in BOOLEAN
    <3>1. CASE AuxData
      <4>1. obf' = FALSE /\ offset' = (offset + 1) % 3
        BY <1>10, <3>1 DEF MouseInterrupt
      <4>2. offset' \in 0 .. 2
        BY <4>1, Modulo3 DEF TypeOK
      <4>. QED BY <4>1, <4>2
    <3>2. CASE ~AuxData
      BY <1>10, <3>2 DEF TypeOK, MouseInterrupt
    <3>. QED BY <3>1, <3>2
  <2>. QED BY <1>10, <2>1 DEF TypeOK, MouseInterrupt, devices, history
<1>11. ASSUME NEW from \in {"answer", "key", "aux"}, NEW byte \in Byte,
              NEW irq \in {1, 12}, NEW enabled, Fill(from, byte, irq, enabled)
       PROVE  /\ cfg' \in Byte /\ status' \in Byte /\ obf' \in BOOLEAN
              /\ out' \in [from : {"answer", "key", "aux"}, byte : Byte]
              /\ scanning' \in BOOLEAN /\ moving' \in BOOLEAN
              /\ irr' \subseteq {1, 12} /\ offset' \in 0 .. 2
              /\ stolen' \in Nat
  BY <1>11 DEF TypeOK, Fill, Entry
<1>12. ASSUME FillAnswer PROVE TypeOK'
  BY <1>11, <1>12, TailBytes DEF TypeOK, FillAnswer
<1>13. ASSUME FillKey PROVE TypeOK'
  BY <1>11, <1>13, TailBytes DEF TypeOK, FillKey
<1>14. ASSUME FillAux PROVE TypeOK'
  BY <1>11, <1>14, TailBytes DEF TypeOK, FillAux
<1>15. ASSUME Move PROVE TypeOK'
  BY <1>15, PacketBytes DEF TypeOK, Move, controller, history
<1>16. ASSUME NEW code \in Scancodes, KeyPress(code) PROVE TypeOK'
  BY <1>16 DEF TypeOK, KeyPress, controller, history
<1>17. CASE UNCHANGED vars
  BY <1>17 DEF TypeOK, vars, controller, devices, history
<1>18. {KeyIRQ} \in Byte /\ {AuxIRQ} \in Byte
  BY DEF KeyIRQ, AuxIRQ, Byte
<1>. QED
  BY <1>1, <1>2, <1>3, <1>4, <1>5, <1>6, <1>7, <1>8, <1>9, <1>10, <1>12, <1>13,
     <1>14, <1>15, <1>16, <1>17, <1>18
     DEF Next, Activate, Spin, AskKeyConfig, ReadKeyConfig, WriteKeyConfig,
         AskAuxConfig, ReadAuxConfig, WriteAuxConfig

\* Every step keeps the acknowledgement and the packets in their places.
LEMMA StepPlace == ASSUME TypeOK, Place, [Next]_vars PROVE Place'
<1> USE DEF Place, SilentInv, AckInv, AlignedInv, OffsetInv, Aligned, AckFirst
<1>1. ASSUME UNCHANGED <<moving, aux, index, offset, late, stolen>>, ~AuxData',
             pc \notin {"auxAck", "sti", "run"},
             pc' \notin {"auxAck", "sti", "run"}
      PROVE  Place'
  BY <1>1 DEF StolenInv
<1>2. ASSUME Drain PROVE Place'
  BY <1>1, <1>2 DEF Drain, Goto, Read, controller, AuxData, history
<1>3. ASSUME AskKeyConfig \/ AskAuxConfig PROVE Place'
  BY <1>1, <1>3 DEF AskKeyConfig, AskAuxConfig, AskConfig, Goto, AuxData, history
<1>4. ASSUME ReadKeyConfig \/ ReadAuxConfig PROVE Place'
  BY <1>1, <1>4 DEF ReadKeyConfig, ReadAuxConfig, ReadConfig, Goto, Read, AuxData,
                    history
<1>5. ASSUME WriteKeyConfig \/ WriteAuxConfig PROVE Place'
  BY <1>1, <1>5 DEF WriteKeyConfig, WriteAuxConfig, WriteConfig, Goto, AuxData,
                    history
<1>6. ASSUME EnableScanning PROVE Place'
  BY <1>1, <1>6 DEF EnableScanning, Goto, controller, AuxData, history
<1>7. ASSUME EnableReporting PROVE Place'
  <2>1. /\ aux = <<>> /\ index = 0 /\ ~AuxData /\ offset = 0 /\ late = 0
        /\ stolen = 0 /\ pc' = "auxAck"
    BY <1>7 DEF EnableReporting, Goto
  <2>2. aux' = <<Ack>>
    BY <1>7, <2>1 DEF EnableReporting
  <2>3. aux' # <<>> /\ Head(aux') = Ack /\ NoAck(Tail(aux'))
    BY <2>2 DEF NoAck
  <2>. QED
    BY <1>7, <2>1, <2>3 DEF EnableReporting, Goto, controller, AuxData, history,
                            StolenInv
<1>8. ASSUME ReadAck PROVE Place'
  <2>1. /\ pc = "auxAck" /\ pc' = "sti" /\ ~AuxData'
        /\ index = 0 /\ offset = 0 /\ stolen = 0
        /\ UNCHANGED <<aux, index, offset, stolen>>
    BY <1>8 DEF ReadAck, Read, devices, AuxData
  <2>2. late' = 0 /\ (AckFirst' \/ NoAck(aux'))
    <3>1. CASE AckFirst /\ ~AuxData
      BY <1>8, <2>1, <3>1 DEF ReadAck
    <3>2. CASE AuxData /\ out.byte = Ack /\ NoAck(aux) /\ late = 1
      BY <1>8, <2>1, <3>2 DEF ReadAck
    <3>. QED BY <2>1, <3>1, <3>2
  <2>. QED BY <2>1, <2>2 DEF StolenInv
<1>9. ASSUME Sti PROVE Place'
  BY <1>9 DEF Sti, Goto, controller, AuxData, history, StolenInv
<1>10. ASSUME KeyboardInterrupt PROVE Place'
  <2>1. /\ pc = "run" /\ ~AuxData' /\ 1 \in irr /\ 1 \notin irr'
        /\ UNCHANGED <<aux, index, offset, pc, late>>
    BY <1>10 DEF KeyboardInterrupt, devices, AuxData
  <2>2. CASE AuxData
    <3>1. stolen = 0 /\ stolen' = 1
      BY <1>10, <2>1, <2>2 DEF StolenInv, KeyboardInterrupt, AuxData, TypeOK
    <3>2. late \in 0 .. 1
      BY <2>1 DEF TypeOK
    <3>3. (offset + 0) % 3 = (index + late + 2 * 1) % 3
      BY <2>1, <2>2, <3>1, <3>2, Modulo3 DEF TypeOK
    <3>. QED BY <2>1, <3>1, <3>3 DEF StolenInv
  <2>3. CASE ~AuxData
    <3>1. stolen' = stolen
      BY <1>10, <2>3 DEF KeyboardInterrupt
    <3>. QED BY <2>1, <2>3, <3>1 DEF StolenInv
  <2>. QED BY <2>2, <2>3
<1>11. ASSUME MouseInterrupt PROVE Place'
  <2>1. /\ pc = "run" /\ ~AuxData' /\ irr' = {}
        /\ UNCHANGED <<aux, index, pc, late, stolen>>
        /\ offset' = IF AuxData THEN (offset + 1) % 3 ELSE offset
    BY <1>11 DEF MouseInterrupt, devices, AuxData, history
  <2>2. Aligned'
    BY <2>1, Modulo3 DEF TypeOK
  <2>. QED BY <2>1, <2>2 DEF StolenInv
<1>12. ASSUME ~AuxData, ~AuxData', obf', out'.from # "aux",
              UNCHANGED <<moving, aux, index, pc, offset, late, stolen>>
       PROVE  Place'
  BY <1>12 DEF StolenInv
<1>13. ASSUME FillAnswer PROVE Place'
  BY <1>12, <1>13 DEF FillAnswer, Fill, Entry, AuxData
<1>14. ASSUME FillKey PROVE Place'
  BY <1>12, <1>14 DEF FillKey, Fill, Entry, AuxData
<1>15. ASSUME FillAux PROVE Place'
  <2>1. /\ aux # <<>> /\ aux' = Tail(aux) /\ ~obf /\ ~AuxData /\ AuxData'
        /\ out'.byte = Head(aux)
        /\ index' = IF Head(aux) = Ack THEN index ELSE (index + 1) % 3
        /\ late' = IF Head(aux) = Ack THEN late + 1 ELSE late
        /\ UNCHANGED <<moving, pc, offset, stolen>>
        /\ 1 \in irr' => 1 \in irr
    BY <1>15 DEF FillAux, Fill, Entry, AuxData
  <2>2. NoAck(aux) => Head(aux) # Ack /\ NoAck(Tail(aux))
    BY <2>1, TailBytes DEF TypeOK
  <2>3. StolenInv'
    BY <2>1 DEF StolenInv
  <2>4. CASE pc = "auxAck"
    BY <2>1, <2>3, <2>4
  <2>5. CASE pc \in {"sti", "run"}
    <3>1. stolen \in 0 .. 1 /\ offset \in 0 .. 2 /\ index \in 0 .. 2
      BY DEF TypeOK, StolenInv
    <3>2. CASE AckFirst
      <4>1. late = 0 /\ late' = 1 /\ index' = index /\ NoAck(aux')
        BY <2>1, <3>2
      <4>2. Aligned'
        BY <2>1, <2>5, <3>1, <4>1, Modulo3
      <4>. QED BY <2>1, <2>3, <2>5, <4>1, <4>2
    <3>3. CASE NoAck(aux) /\ late <= 1
      <4>1. /\ late' = late /\ late \in 0 .. 1
            /\ index' = (index + 1) % 3 /\ NoAck(aux')
        BY <2>1, <2>2, <3>3 DEF TypeOK
      <4>2. Aligned'
        BY <2>1, <2>5, <3>1, <4>1, Modulo3
      <4>. QED BY <2>1, <2>3, <2>5, <4>1, <4>2
    <3>. QED BY <2>5, <3>2, <3>3
  <2>. QED BY <2>1, <2>3, <2>4, <2>5
<1>16. ASSUME Move PROVE Place'
  <2>1. /\ moving /\ aux' = aux \o <<{3}, {}, {}>>
        /\ UNCHANGED <<moving, index, pc, offset, late, stolen, obf, out, irr>>
    BY <1>16 DEF Move, controller, history
  <2>2. NoAck(aux) => NoAck(aux')
    BY <2>1, PacketBytes DEF TypeOK
  <2>3. ASSUME aux # <<>>, NoAck(Tail(aux))
        PROVE  aux' # <<>> /\ Head(aux') = Head(aux) /\ NoAck(Tail(aux'))
    <3>1. Tail(aux) \in Seq(Byte)
      BY <2>3, TailBytes DEF TypeOK
    <3>2. NoAck(Tail(aux) \o <<{3}, {}, {}>>)
      BY <2>3, <3>1, PacketBytes
    <3>. QED BY <2>1, <2>3, <3>2, PacketBytes DEF TypeOK
  <2>. QED BY <2>1, <2>2, <2>3 DEF AuxData, StolenInv
<1>17. ASSUME NEW code \in Scancodes, KeyPress(code) PROVE Place'
  BY <1>17 DEF KeyPress, controller, AuxData, history, StolenInv
<1>18. CASE UNCHANGED vars
  BY <1>18 DEF vars, controller, devices, AuxData, history, StolenInv
<1>. QED
  BY <1>2, <1>3, <1>4, <1>5, <1>6, <1>7, <1>8, <1>9, <1>10, <1>11, <1>13, <1>14,
     <1>15, <1>16, <1>17, <1>18
     DEF Next, Activate, Spin

-----------------------------------------------------------------------------
(* The theorems.                                                           *)

\* IInv holds from construction on, through activate() and every packet.
THEOREM Invariance == Spec => []IInv
<1>1. IInv /\ [Next]_vars => IInv'
  BY StepType, StepPlace DEF IInv
<1>. QED BY InitIInv, <1>1, PTL DEF Spec

\* The index of the mouse driver stays in its buffer, and every byte is a byte,
\* for any scan codes and BIOS configurations (mouse.cpp:58-82).
THEOREM TypeCorrect == Spec => []TypeOK
<1>1. IInv => TypeOK
  BY DEF IInv
<1>. QED BY Invariance, <1>1, PTL

\* The driver's packets begin where those of the mouse do, but for a late
\* acknowledgement and one byte that a keyboard interrupt takes, for any number
\* of bytes that devices hold back.
THEOREM PacketsStayAligned == Spec => []PacketsAligned
<1>1. IInv => PacketsAligned
  <2> SUFFICES ASSUME IInv PROVE PacketsAligned
    OBVIOUS
  <2>1. late <= 1
    BY DEF IInv, Place, SilentInv, AckInv, AlignedInv, AckFirst
  <2>. QED BY <2>1 DEF IInv, Place, AlignedInv, Aligned, StolenInv, PacketsAligned
<1>. QED BY Invariance, <1>1, PTL
=============================================================================
