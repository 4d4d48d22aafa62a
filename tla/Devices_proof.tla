--------------------------- MODULE Devices_proof ----------------------------
(***************************************************************************)
(* Proofs about the two drivers whose calls kernelMain has commented out.  *)
(* Vga: what SetMode() programs, from any state of the adapter, and that   *)
(* rectangles are clipped, for any table, screen and width of a word.  Pci:*)
(* every function of any machine is found once.                            *)
(***************************************************************************)
EXTENDS Devices, SequenceTheorems, TLAPS

\* Where the driver is when it has passed the registers of g.
Passed ==
  [misc      |-> {"sequencer", "unlock", "crtc", "graphics", "attribute", "show"},
   sequencer |-> {"unlock", "crtc", "graphics", "attribute", "show"},
   crtc      |-> {"graphics", "attribute", "show"},
   graphics  |-> {"attribute", "show"},
   attribute |-> {"show"}]

\* What register n of g holds once SetMode() has passed it, and the ones before n.
Final(g, n) == IF Sealed /\ Behind(g, n) THEN boot[g][n] ELSE Registers[g][n]
Programmed(g, n) ==
  \A k \in 0 .. Last[g] : k < n => register[g][k] = Final(g, k)

Drawing == {"idle", "fill", "filled"}

TypeInv ==
  /\ Files(register) /\ Files(boot)
  /\ pc \in Group \cup {"unlock", "show"} \cup Drawing
  /\ i \in Nat /\ modeSet \in BOOLEAN
  /\ \A g \in Group : pc = g => i <= Last[g]
  /\ pc \notin Group => i = 0

\* What is sealed stays so; otherwise the lock can always be reached, and is open
\* once the driver has opened it.
LockInv ==
  /\ Sealed => \A k \in 0 .. Last["crtc"] :
                 Behind("crtc", k) => register["crtc"][k] = boot["crtc"][k]
  /\ ~Sealed => /\ Locked(register) => Accessible(register)
                /\ pc \in {"crtc", "graphics", "attribute", "show"} =>
                     Accessible(register) /\ ~Locked(register)

ProgressInv ==
  /\ \A g \in Group : modeSet \/ pc \in Passed[g] => Programmed(g, Last[g] + 1)
  /\ \A g \in Group : pc = g => Programmed(g, i)
  /\ modeSet => pc \in Drawing /\ attribute = 32

IInv == TypeInv /\ LockInv /\ ProgressInv

-----------------------------------------------------------------------------
(* Tables and register files.                                              *)

LEMMA LastType ==
  /\ \A g \in Group : Last[g] \in Nat
  /\ Last["misc"] = 0 /\ Last["sequencer"] = 4 /\ Last["crtc"] = 24
  /\ Last["graphics"] = 8 /\ Last["attribute"] = 20
BY DEF Last, Group

\* One register of a file changes.
LEMMA WithFile ==
  ASSUME NEW r, Files(r), NEW g \in Group, NEW n \in 0 .. Last[g], NEW b \in Byte
  PROVE  /\ Files(With(r, g, n, b))
         /\ With(r, g, n, b)[g][n] = b
         /\ \A k \in 0 .. Last[g] : k # n => With(r, g, n, b)[g][k] = r[g][k]
         /\ \A h \in Group : h # g => With(r, g, n, b)[h] = r[h]
<1> DEFINE w == With(r, g, n, b)
<1>1. w = [h \in Group |-> IF h = g THEN [r[g] EXCEPT ![n] = b] ELSE r[h]]
  BY DEF With, Files
<1>2. w[g] = [r[g] EXCEPT ![n] = b] /\ \A h \in Group : h # g => w[h] = r[h]
  BY <1>1
<1>3. w[g] \in [0 .. Last[g] -> Byte]
  BY <1>2 DEF Files
<1>4. w = [h \in Group |-> w[h]]
  BY <1>1
<1>5. Files(w)
  BY <1>2, <1>3, <1>4 DEF Files
<1>6. w[g][n] = b /\ \A k \in 0 .. Last[g] : k # n => w[g][k] = r[g][k]
  BY <1>2 DEF Files
<1>7. QED
  BY <1>2, <1>5, <1>6

LEMMA Bits ==
  ASSUME NEW b \in Byte
  PROVE  /\ SetBit7(b) \in Byte /\ SetBit7(b) >= 128
         /\ ClearBit7(b) \in Byte /\ ClearBit7(b) < 128
BY DEF SetBit7, ClearBit7, Byte

\* The table as it is written: both bits are in the file of the CRTC only.
LEMMA Table ==
  /\ Files(Registers)
  /\ Accessible(Registers) /\ ~Locked(Registers)
  /\ Registers["graphics"] = Mode["graphics"]
<1> DEFINE a == With(Mode, "crtc", 3, SetBit7(Mode["crtc"][3]))
           b == With(a, "crtc", 17, ClearBit7(Mode["crtc"][17]))
<1>1. "crtc" \in Group /\ "graphics" \in Group /\ 3 \in 0 .. Last["crtc"]
      /\ 17 \in 0 .. Last["crtc"]
  BY LastType DEF Group
<1>2. Files(Mode)
  BY ModeAssumption DEF Files
<1>3. Mode["crtc"][3] \in Byte /\ Mode["crtc"][17] \in Byte
  BY <1>1, <1>2 DEF Files
<1>4. /\ Files(a) /\ a["crtc"][3] >= 128 /\ a["graphics"] = Mode["graphics"]
  BY <1>1, <1>2, <1>3, Bits, WithFile
<1>6. /\ Files(b) /\ b["crtc"][17] < 128 /\ b["graphics"] = Mode["graphics"]
      /\ b["crtc"][3] = a["crtc"][3]
  BY <1>1, <1>3, <1>4, Bits, WithFile
<1>7. Registers = b
  BY DEF Registers
<1>8. ~(b["crtc"][17] >= 128)
  <2>1. b["crtc"][17] \in Byte
    BY <1>1, <1>6 DEF Files
  <2>2. QED
    BY <1>6, <2>1 DEF Byte
<1> HIDE DEF a, b
<1>9. QED
  BY <1>4, <1>6, <1>7, <1>8 DEF Accessible, Locked

\* What a register will hold depends on the table and on the BIOS only.
LEMMA FinalStays ==
  ASSUME boot' = boot
  PROVE  \A g \in Group : \A n : Final(g, n)' = Final(g, n)
BY DEF Final, Registers, With, Sealed, Locked, Accessible, Behind

\* Nothing that SetMode() writes gets behind the seal.
LEMMA SealHolds ==
  ASSUME IInv, Sealed
  PROVE  /\ Locked(register) /\ ~Accessible(register)
         /\ \A n \in 0 .. Last["crtc"] : \A b :
              StoreCrtc(register, n, b) =
                IF Behind("crtc", n) THEN register ELSE With(register, "crtc", n, b)
<1>1. /\ 3 \in 0 .. Last["crtc"] /\ 17 \in 0 .. Last["crtc"]
      /\ Behind("crtc", 3) /\ Behind("crtc", 17)
  BY LastType DEF Behind
<1>2. register["crtc"][3] = boot["crtc"][3] /\ register["crtc"][17] = boot["crtc"][17]
  BY <1>1 DEF IInv, LockInv
<1>3. Locked(register) /\ ~Accessible(register)
  BY <1>2 DEF Sealed, Locked, Accessible
<1>4. \A n \in 0 .. Last["crtc"] : Behind("crtc", n) <=> n <= 7 \/ n \in {16, 17}
  BY LastType DEF Behind
<1>5. QED
  BY <1>3, <1>4 DEF StoreCrtc

\* Without it, everything is written once the lock is open.
LEMMA OpenHolds ==
  ASSUME IInv, ~Sealed, pc = "crtc", NEW n, NEW b
  PROVE  StoreCrtc(register, n, b) = With(register, "crtc", n, b)
BY DEF IInv, LockInv, StoreCrtc

-----------------------------------------------------------------------------
(* The invariant.                                                          *)

LEMMA InitIInv == Init => IInv
<1> SUFFICES ASSUME Init PROVE IInv
  OBVIOUS
<1>2. Files(register) /\ Files(boot) /\ register = boot
  BY BootAssumption DEF Init
<1>3. pc = "idle" /\ i = 0 /\ modeSet = FALSE
  BY DEF Init
<1>4. \A g \in Group : pc # g /\ pc \notin Passed[g]
  BY <1>3 DEF Group, Passed
<1>5. TypeInv
  BY <1>2, <1>3, <1>4 DEF TypeInv, Drawing
<1>6. LockInv
  BY <1>2, <1>3 DEF LockInv, Sealed
<1>7. ProgressInv
  BY <1>3, <1>4 DEF ProgressInv
<1>8. QED
  BY <1>5, <1>6, <1>7 DEF IInv

\* The driver has written register i of g, or tried to, and goes on.
LEMMA Written ==
  ASSUME IInv, NEW g \in Group, pc = g, modeSet' = modeSet, boot' = boot,
         NEW next \in {"sequencer", "unlock", "graphics", "attribute", "show"},
         \A h \in Group : next \in Passed[h] => h = g \/ g \in Passed[h],
         next \in {"graphics", "attribute", "show"} =>
           g \in {"crtc", "graphics", "attribute"},
         next # g,
         register' = IF Sealed /\ Behind(g, i) THEN register
                     ELSE With(register, g, i, Registers[g][i]),
         Advance(g, next)
  PROVE  IInv'
<1>1. /\ i \in 0 .. Last[g] /\ Last[g] \in Nat /\ i \in Nat
      /\ ~modeSet /\ ~modeSet'
  <2>1. i \in Nat /\ i <= Last[g] /\ Last[g] \in Nat
    BY LastType DEF IInv, TypeInv
  <2>2. pc \notin Drawing
    BY DEF Group, Drawing
  <2>3. QED
    BY <2>1, <2>2 DEF IInv, ProgressInv
<1>2. Registers[g][i] \in Byte
  BY <1>1, Table DEF Files
<1>3. /\ Files(register)'
      /\ register'[g][i] = Final(g, i)
      /\ \A k \in 0 .. Last[g] : k # i => register'[g][k] = register[g][k]
      /\ \A h \in Group : h # g => register'[h] = register[h]
  <2>1. Files(register)
    BY DEF IInv, TypeInv
  <2>2. CASE Sealed /\ Behind(g, i)
    <3>1. g = "crtc" /\ register[g][i] = boot[g][i]
      BY <1>1, <2>2 DEF IInv, LockInv, Behind
    <3>2. register' = register
      BY <2>2
    <3>3. QED
      BY <2>1, <2>2, <3>1, <3>2 DEF Final, Files
  <2>3. CASE ~(Sealed /\ Behind(g, i))
    <3> DEFINE w == With(register, g, i, Registers[g][i])
    <3>1. /\ Files(w)
          /\ w[g][i] = Registers[g][i]
          /\ \A k \in 0 .. Last[g] : k # i => w[g][k] = register[g][k]
          /\ \A h \in Group : h # g => w[h] = register[h]
      BY <1>1, <1>2, <2>1, WithFile
    <3>2. register' = w
      BY <2>3
    <3> HIDE DEF w
    <3>3. QED
      BY <2>3, <3>1, <3>2 DEF Final, Files
  <2>4. QED
    BY <2>2, <2>3
<1>4. \/ i = Last[g] /\ pc' = next /\ i' = 0
      \/ i # Last[g] /\ pc' = g /\ i' = i + 1
  BY DEF Advance
<1>5. TypeInv'
  <2>1. pc' \in Group \cup {"unlock", "show"} \cup Drawing
    BY <1>4 DEF Group
  <2>2. \A h \in Group : pc' = h => i' <= Last[h]
    BY <1>1, <1>4, LastType
  <2>3. i' \in Nat /\ (pc' \notin Group => i' = 0)
    BY <1>1, <1>4
  <2>4. Files(boot)'
    BY DEF IInv, TypeInv, Files
  <2>5. QED
    BY <1>1, <1>3, <2>1, <2>2, <2>3, <2>4 DEF IInv, TypeInv
<1>6. LockInv'
  <2>1. pc' \in {"crtc", "graphics", "attribute", "show"} =>
          pc \in {"crtc", "graphics", "attribute", "show"}
    BY <1>4 DEF Group
  <2>2. "crtc" \in Group /\ 3 \in 0 .. Last["crtc"] /\ 17 \in 0 .. Last["crtc"]
    BY LastType DEF Group
  <2>3. Sealed' = Sealed
    BY DEF Sealed, Locked, Accessible
  <2>4. CASE g # "crtc"
    <3>1. register'["crtc"] = register["crtc"]
      BY <1>3, <2>2, <2>4
    <3>2. QED
      BY <2>1, <2>3, <3>1 DEF IInv, LockInv, Locked, Accessible
  <2>5. CASE g = "crtc" /\ Sealed
    <3>1. ASSUME NEW k \in 0 .. Last["crtc"], Behind("crtc", k)
          PROVE  register'["crtc"][k] = boot["crtc"][k]
      <4>1. register["crtc"][k] = boot["crtc"][k]
        BY <2>5, <3>1 DEF IInv, LockInv
      <4>2. QED
        BY <1>3, <2>5, <3>1, <4>1 DEF Final
    <3>2. QED
      BY <2>3, <2>5, <3>1 DEF LockInv
  <2>6. CASE g = "crtc" /\ ~Sealed
    <3>1. register["crtc"][3] >= 128 /\ ~(register["crtc"][17] >= 128)
      BY <2>6 DEF IInv, LockInv, Locked, Accessible
    <3>2. Registers["crtc"][3] >= 128 /\ ~(Registers["crtc"][17] >= 128)
      BY Table DEF Locked, Accessible
    <3>3. register'["crtc"][3] >= 128 /\ ~(register'["crtc"][17] >= 128)
      BY <1>3, <2>2, <2>6, <3>1, <3>2 DEF Final
    <3>4. QED
      BY <2>3, <2>6, <3>3 DEF LockInv, Locked, Accessible
  <2>7. QED
    BY <2>4, <2>5, <2>6
<1>7. \A h \in Group : \A k : Final(h, k)' = Final(h, k)
  BY FinalStays
<1>8. \A k \in 0 .. Last[g] : k < i + 1 => register'[g][k] = Final(g, k)
  BY <1>1, <1>3 DEF IInv, ProgressInv, Programmed
<1>9. ProgressInv'
  <2>1. ASSUME NEW h \in Group, pc' \in Passed[h] PROVE Programmed(h, Last[h] + 1)'
    <3>1. CASE h = g
      <4>1. i = Last[g]
        BY <1>4, <2>1, <3>1 DEF Passed, Group
      <4>2. QED
        BY <1>7, <1>8, <3>1, <4>1 DEF Programmed
    <3>2. CASE h # g
      <4>1. pc \in Passed[h]
        BY <1>4, <2>1, <3>2
      <4>2. Programmed(h, Last[h] + 1) /\ register'[h] = register[h]
        BY <1>3, <3>2, <4>1 DEF IInv, ProgressInv
      <4>3. QED
        BY <1>7, <4>2 DEF Programmed
    <3>3. QED
      BY <3>1, <3>2
  <2>2. ASSUME NEW h \in Group, pc' = h PROVE Programmed(h, i)'
    <3>1. CASE i = Last[g]
      <4>1. i' = 0
        BY <1>4, <2>2, <3>1
      <4>2. QED
        BY <4>1, LastType DEF Programmed
    <3>2. CASE i # Last[g]
      <4>1. h = g /\ i' = i + 1
        BY <1>4, <2>2, <3>2
      <4>2. QED
        BY <1>7, <1>8, <4>1 DEF Programmed
    <3>3. QED
      BY <3>1, <3>2
  <2>3. QED
    BY <1>1, <2>1, <2>2 DEF ProgressInv
<1>10. QED
  BY <1>5, <1>6, <1>9 DEF IInv

\* WriteRegisters() opens the lock.
LEMMA UnlockIInv ==
  ASSUME IInv, Unlock PROVE IInv'
<1> DEFINE a == StoreCrtc(register, 3, SetBit7(register["crtc"][3]))
           b == StoreCrtc(a, 17, ClearBit7(a["crtc"][17]))
<1>1. "crtc" \in Group /\ 3 \in 0 .. Last["crtc"] /\ 17 \in 0 .. Last["crtc"]
  BY LastType DEF Group
<1>2. /\ Files(register) /\ register["crtc"][3] \in Byte /\ register["crtc"][17] \in Byte
      /\ pc = "unlock" /\ i = 0 /\ boot' = boot /\ Files(boot)
  BY <1>1 DEF IInv, TypeInv, Files, Unlock, Group
<1>3. /\ Files(b)
      /\ \A h \in Group : h # "crtc" => b[h] = register[h]
      /\ Sealed => b = register
      /\ ~Sealed => b["crtc"][3] >= 128 /\ ~(b["crtc"][17] >= 128)
  <2>1. CASE Sealed
    <3>1. Behind("crtc", 3) /\ Behind("crtc", 17)
      BY DEF Behind
    <3>2. a = register
      BY <1>1, <2>1, <3>1, SealHolds
    <3>3. b = register
      BY <1>1, <2>1, <3>1, <3>2, SealHolds
    <3>4. QED
      BY <1>2, <2>1, <3>3
  <2>2. CASE ~Sealed
    <3>1. /\ Files(a) /\ a["crtc"][3] >= 128
          /\ \A h \in Group : h # "crtc" => a[h] = register[h]
      <4>1. CASE Locked(register)
        BY <1>2, <2>2, <4>1 DEF StoreCrtc, IInv, LockInv, Accessible
      <4>2. CASE ~Locked(register)
        <5>1. a = With(register, "crtc", 3, SetBit7(register["crtc"][3]))
          BY <4>2 DEF StoreCrtc
        <5>2. QED
          BY <1>1, <1>2, <5>1, Bits, WithFile
      <4>3. QED
        BY <4>1, <4>2
    <3>2. a["crtc"][17] \in Byte
      BY <1>1, <3>1 DEF Files
    <3>3. b = With(a, "crtc", 17, ClearBit7(a["crtc"][17]))
      BY <3>1 DEF StoreCrtc, Accessible
    <3> HIDE DEF a
    <3>4. /\ Files(b) /\ b["crtc"][3] = a["crtc"][3] /\ b["crtc"][17] < 128
          /\ \A h \in Group : h # "crtc" => b[h] = register[h]
      BY <1>1, <3>1, <3>2, <3>3, Bits, WithFile
    <3>5. b["crtc"][17] \in Byte
      BY <1>1, <3>4 DEF Files
    <3>6. ~(b["crtc"][17] >= 128)
      BY <3>4, <3>5 DEF Byte
    <3> HIDE DEF b
    <3>7. QED
      BY <2>2, <3>1, <3>4, <3>6
  <2>3. QED
    BY <2>1, <2>2
<1>8. register' = b /\ pc' = "crtc" /\ i' = i /\ modeSet' = modeSet
  BY DEF Unlock, drawing
<1> HIDE DEF a, b
<1>9. Files(register)' /\ Files(boot)'
  BY <1>2, <1>3, <1>8 DEF Files
<1>10. TypeInv'
  BY <1>1, <1>2, <1>8, <1>9, LastType DEF IInv, TypeInv, Drawing
<1>11. LockInv'
  <2>1. Sealed' = Sealed
    BY <1>2 DEF Sealed, Locked, Accessible
  <2>2. QED
    BY <1>2, <1>3, <1>8, <2>1 DEF IInv, LockInv, Locked, Accessible
<1>12. ProgressInv'
  <2>1. \A h \in Group : \A k : Final(h, k)' = Final(h, k)
    BY <1>2, FinalStays
  <2>2. ~modeSet'
    BY <1>2, <1>8 DEF IInv, ProgressInv, Drawing
  <2>3. ASSUME NEW g \in Group, pc' \in Passed[g] PROVE Programmed(g, Last[g] + 1)'
    <3>1. g # "crtc" /\ pc \in Passed[g]
      BY <1>2, <1>8, <2>3 DEF Passed, Group
    <3>2. Programmed(g, Last[g] + 1) /\ register'[g] = register[g]
      BY <1>3, <1>8, <3>1 DEF IInv, ProgressInv
    <3>3. QED
      BY <2>1, <3>2 DEF Programmed
  <2>4. ASSUME NEW g \in Group PROVE Programmed(g, i)'
    BY <1>2, <1>8, LastType DEF Programmed
  <2>5. QED
    BY <2>2, <2>3, <2>4 DEF ProgressInv
<1>13. QED
  BY <1>10, <1>11, <1>12 DEF IInv

\* The picture is shown: all registers have been programmed.
LEMMA ShowIInv ==
  ASSUME IInv, ShowPicture PROVE IInv'
<1>1. /\ pc = "show" /\ pc' = "idle" /\ modeSet' /\ attribute' = 32
      /\ register' = register /\ i' = i /\ boot' = boot
  BY DEF ShowPicture
<1>2. modeSet' \in BOOLEAN /\ pc' \notin Group /\ pc \notin Group
  BY <1>1 DEF ShowPicture, Group
<1>3. Files(register)' /\ Files(boot)'
  BY <1>1 DEF IInv, TypeInv, Files
<1>4. TypeInv'
  BY <1>1, <1>2, <1>3 DEF IInv, TypeInv, Drawing
<1>5. LockInv'
  BY <1>1 DEF IInv, LockInv, Sealed, Locked, Accessible
<1>6. \A g \in Group : pc \in Passed[g]
  BY <1>1 DEF Group, Passed
<1>7. \A g \in Group : Programmed(g, Last[g] + 1)'
  BY <1>1, <1>6, FinalStays DEF IInv, ProgressInv, Programmed
<1>8. ProgressInv'
  BY <1>1, <1>2, <1>7 DEF ProgressInv, Drawing
<1>9. QED
  BY <1>4, <1>5, <1>8 DEF IInv

\* The other steps of WriteRegisters() write one register each.
LEMMA WriteIInv ==
  ASSUME IInv, WriteRegisters PROVE IInv'
<1>1. CASE WriteFile("misc", "sequencer")
  BY <1>1, Written DEF WriteFile, drawing, Passed, Group, Behind
<1>2. CASE WriteFile("sequencer", "unlock")
  BY <1>2, Written DEF WriteFile, drawing, Passed, Group, Behind
<1>3. CASE Unlock
  BY <1>3, UnlockIInv
<1>4. CASE WriteCrtc
  <2>1. i \in 0 .. Last["crtc"]
    BY <1>4, LastType DEF WriteCrtc, IInv, TypeInv, Group
  <2>2. register' = IF Sealed /\ Behind("crtc", i) THEN register
                    ELSE With(register, "crtc", i, Registers["crtc"][i])
    BY <1>4, <2>1, SealHolds, OpenHolds DEF WriteCrtc
  <2>3. QED
    BY <1>4, <2>2, Written DEF WriteCrtc, drawing, Passed, Group
<1>5. CASE WriteFile("graphics", "attribute")
  BY <1>5, Written DEF WriteFile, drawing, Passed, Group, Behind
<1>6. CASE WriteAttribute
  <2>1. i \in 0 .. 20
    BY <1>6, LastType DEF WriteAttribute, IInv, TypeInv, Group
  <2>2. i % 64 = i /\ i % 32 = i
    BY <2>1
  <2>3. register' = With(register, "attribute", i, Registers["attribute"][i])
    BY <1>6, <2>1, <2>2, LastType
    DEF WriteAttribute, WritePair, StoreAttribute, Index, Flip
  <2>4. QED
    BY <1>6, <2>3, Written DEF WriteAttribute, drawing, Passed, Group, Behind
<1>7. CASE ShowPicture
  BY <1>7, ShowIInv
<1>8. QED
  BY <1>1, <1>2, <1>3, <1>4, <1>5, <1>6, <1>7 DEF WriteRegisters

\* The calls themselves, and drawing, write no register.
LEMMA OtherIInv ==
  ASSUME IInv, UNCHANGED <<i, screen>>, pc \in Drawing,
         \/ pc' = "misc" /\ ~modeSet' /\ modeSet' \in BOOLEAN
         \/ pc' \in Drawing /\ modeSet' = modeSet
  PROVE  IInv'
<1>1. /\ register' = register /\ attribute' = attribute /\ i' = 0 /\ i = 0
      /\ boot' = boot
  BY DEF screen, IInv, TypeInv, Drawing, Group
<1>2. Files(register)' /\ Files(boot)'
  BY <1>1 DEF IInv, TypeInv, Files
<1>3. TypeInv'
  BY <1>1, <1>2, LastType DEF IInv, TypeInv, Drawing, Group
<1>4. LockInv'
  BY <1>1 DEF IInv, LockInv, Sealed, Locked, Accessible, Drawing
<1>5. \A g \in Group : pc' \notin Passed[g]
  BY DEF Group, Passed, Drawing
<1>6. ASSUME NEW g \in Group, modeSet' PROVE Programmed(g, Last[g] + 1)'
  <2>1. modeSet
    BY <1>6
  <2>2. Programmed(g, Last[g] + 1)
    BY <2>1 DEF IInv, ProgressInv
  <2>3. QED
    BY <1>1, <2>2, FinalStays DEF Programmed
<1>7. \A g \in Group : Programmed(g, i)'
  BY <1>1, LastType DEF Programmed
<1>8. modeSet' => pc' \in Drawing /\ attribute' = 32
  BY <1>1 DEF IInv, ProgressInv
<1>9. ProgressInv'
  BY <1>5, <1>6, <1>7, <1>8 DEF ProgressInv
<1>10. QED
  BY <1>3, <1>4, <1>9 DEF IInv

LEMMA NextIInv == IInv /\ [Next]_vars => IInv'
<1> SUFFICES ASSUME IInv, [Next]_vars PROVE IInv'
  OBVIOUS
<1>1. CASE \E w \in {Cols, 2 * Cols}, depth \in {8, 16} : SetMode(w, Rows, depth)
  BY <1>1, OtherIInv DEF SetMode, Drawing
<1>2. CASE WriteRegisters
  BY <1>2, WriteIInv
<1>3. CASE FillRectangle
  BY <1>3, OtherIInv DEF FillRectangle, Drawing
<1>4. CASE Fill
  BY <1>4, OtherIInv DEF Fill, Drawing
<1>5. CASE UNCHANGED vars
  <2>1. UNCHANGED <<pc, i, modeSet, boot, register, attribute>>
    BY <1>5 DEF vars, screen
  <2>2. TypeInv'
    BY <2>1 DEF IInv, TypeInv, Files
  <2>3. LockInv'
    BY <2>1 DEF IInv, LockInv, Locked, Accessible, Sealed
  <2>4. \A g \in Group : \A n : Programmed(g, n)' <=> Programmed(g, n)
    BY <2>1, FinalStays DEF Programmed
  <2>5. ProgressInv'
    BY <2>1, <2>4 DEF IInv, ProgressInv
  <2>6. QED
    BY <2>2, <2>3, <2>5 DEF IInv
<1>6. QED
  BY <1>1, <1>2, <1>3, <1>4, <1>5 DEF Next, Finished

\* What is locked, and which registers are in place, at every point of SetMode().
THEOREM Invariance == Spec => []IInv
<1>1. QED
  BY InitIInv, NextIInv, PTL DEF Spec

LEMMA SetWhenSaid == IInv => ModeSet
<1> SUFFICES ASSUME IInv, modeSet PROVE ModeSet
  BY DEF ModeSet
<1>1. \A g \in Group : \A n \in 0 .. Last[g] : register[g][n] = Final(g, n)
  BY LastType DEF IInv, ProgressInv, Programmed
<1>2. ASSUME ~Sealed PROVE ~Locked(register) /\ Accessible(register)
  <2>1. "crtc" \in Group /\ 3 \in 0 .. Last["crtc"] /\ 17 \in 0 .. Last["crtc"]
    BY LastType DEF Group
  <2>2. /\ register["crtc"][3] = Registers["crtc"][3]
        /\ register["crtc"][17] = Registers["crtc"][17]
    BY <1>1, <1>2, <2>1 DEF Final
  <2>3. QED
    BY <2>2, Table DEF Locked, Accessible
<1>3. attribute = 32
  BY DEF IInv, ProgressInv
<1>4. QED
  BY <1>1, <1>2, <1>3 DEF ModeSet, Final

\* ModeSet: whatever state the BIOS leaves the adapter in, SetMode() programs every
\* register of its table that it can reach, and it can reach all of them unless
\* the CRTC is locked and the lock hidden, for any table (vga.cpp:28-91).
THEOREM ModeIsSet == Spec => []ModeSet
BY Invariance, SetWhenSaid, PTL

-----------------------------------------------------------------------------
(* Drawing.                                                                *)

Word == 0 .. WordSize - 1

Dropped == Wraps(rectangle.x, rectangle.w) \/ Wraps(rectangle.y, rectangle.h)

\* The pixels the loops have passed.
Drawn ==
  IF pc = "filled" THEN Visible
  ELSE {p \in Visible : p[2] < Y \/ (p[2] = Y /\ p[1] < X)}

Stored(pixels) == {Pixel(GetFrameBufferSegment, p, rectangle.colour) : p \in pixels}

\* Where the loops are, and what they have drawn.
DrawInv ==
  /\ pc \notin {"fill", "filled"} => memory = {}
  /\ pc \in {"fill", "filled"} =>
       /\ rectangle.x \in Word /\ rectangle.y \in Word
       /\ rectangle.w \in Word /\ rectangle.h \in Word
       /\ memory = IF Dropped THEN {} ELSE Stored(Drawn)
  /\ pc = "fill" =>
       /\ X \in Word /\ rectangle.x <= X
       /\ Wraps(rectangle.x, rectangle.w) \/ X <= rectangle.x + rectangle.w
       /\ Y \in Word /\ rectangle.y <= Y
       /\ Wraps(rectangle.y, rectangle.h) \/ Y <= rectangle.y + rectangle.h

\* A loop goes on exactly while it has not reached the end of a length that does
\* not wrap.
LEMMA LoopGoesOn ==
  ASSUME NEW p \in Word, NEW n \in Word, NEW k \in Word, p <= k
  PROVE  /\ k < Plus(p, n) <=> ~Wraps(p, n) /\ k < p + n
         /\ k < Plus(p, n) => Plus(k, 1) = k + 1 /\ k + 1 \in Word
BY ScreenAssumption DEF Plus, Wraps, Word

\* A pixel on the screen is visible if it is in the rectangle.
LEMMA VisiblePixel ==
  ASSUME NEW x \in Nat, NEW y \in Nat
  PROVE  <<x, y>> \in Visible <=>
           /\ x < Cols /\ rectangle.x <= x /\ x < rectangle.x + rectangle.w
           /\ y < Rows /\ rectangle.y <= y /\ y < rectangle.y + rectangle.h
BY ScreenAssumption DEF Visible

LEMMA VisibleType ==
  \A p \in Visible : /\ p = <<p[1], p[2]>> /\ p[1] \in Nat /\ p[2] \in Nat
                     /\ rectangle.x <= p[1] /\ p[1] < rectangle.x + rectangle.w
                     /\ rectangle.y <= p[2] /\ p[2] < rectangle.y + rectangle.h
BY ScreenAssumption DEF Visible

LEMMA StartDrawInv ==
  ASSUME DrawInv, FillRectangle PROVE DrawInv'
<1>1. /\ rectangle'.x \in Points /\ rectangle'.y \in Points
      /\ rectangle'.w \in Lengths /\ rectangle'.h \in Lengths
      /\ pc' = "fill" /\ X' = rectangle'.x /\ Y' = rectangle'.y
  BY DEF FillRectangle
<1>2. memory' = {}
  BY DEF FillRectangle, DrawInv
<1>3. /\ rectangle'.x \in Word /\ rectangle'.y \in Word
      /\ rectangle'.w \in Word /\ rectangle'.h \in Word
  BY <1>1, ArgumentAssumption DEF Word
<1>4. X' <= X' + rectangle'.w /\ Y' <= Y' + rectangle'.h /\ X' <= X' /\ Y' <= Y'
  BY <1>1, <1>3, ScreenAssumption DEF Word
<1>5. Drawn' = {}
  <2>1. ASSUME NEW p \in Visible' PROVE ~(p[2] < Y' \/ (p[2] = Y' /\ p[1] < X'))
    <3>1. /\ p[1] \in Nat /\ p[2] \in Nat
          /\ rectangle'.x <= p[1] /\ rectangle'.y <= p[2]
      BY <2>1, ScreenAssumption DEF Visible
    <3>2. QED
      BY <1>1, <1>3, <3>1 DEF Word
  <2>2. QED
    BY <1>1, <2>1 DEF Drawn
<1>6. Stored(Drawn)' = {}
  BY <1>5 DEF Stored
<1>7. QED
  BY <1>1, <1>2, <1>3, <1>4, <1>6 DEF DrawInv

LEMMA FillDrawInv ==
  ASSUME DrawInv, Fill PROVE DrawInv'
<1> USE DEF DrawInv
<1>1. /\ pc = "fill" /\ rectangle' = rectangle /\ register' = register
      /\ rectangle.x \in Word /\ rectangle.y \in Word
      /\ rectangle.w \in Word /\ rectangle.h \in Word
      /\ X \in Word /\ rectangle.x <= X /\ Y \in Word /\ rectangle.y <= Y
      /\ memory = IF Dropped THEN {} ELSE Stored(Drawn)
  BY DEF Fill, screen
<1>2. Visible' = Visible /\ Dropped' = Dropped /\ GetFrameBufferSegment' = GetFrameBufferSegment
  BY <1>1 DEF Visible, Dropped, Wraps, GetFrameBufferSegment
<1>3. \A pixels : Stored(pixels)' = Stored(pixels)
  BY <1>1, <1>2 DEF Stored
<1>4. CASE Y >= Plus(rectangle.y, rectangle.h)
  <2>1. pc' = "filled" /\ UNCHANGED memory
    BY <1>4 DEF Fill
  <2>2. ASSUME ~Dropped PROVE Drawn = Visible
    <3>1. Y >= rectangle.y + rectangle.h
      BY <1>1, <1>4, <2>2, ScreenAssumption DEF Dropped, Plus, Wraps, Word
    <3>2. \A p \in Visible : p[2] < Y
      BY <1>1, <3>1, VisibleType DEF Word
    <3>3. QED
      BY <1>1, <3>2 DEF Drawn
  <2>3. Drawn' = Visible
    BY <1>2, <2>1 DEF Drawn
  <2>4. memory' = IF Dropped' THEN {} ELSE Stored(Drawn)'
    BY <1>1, <1>2, <1>3, <2>1, <2>2, <2>3 DEF Stored
  <2>5. QED
    BY <1>1, <2>1, <2>4
<1>5. CASE ~(Y >= Plus(rectangle.y, rectangle.h)) /\ X < Plus(rectangle.x, rectangle.w)
  <2>1. /\ pc' = "fill" /\ X' = Plus(X, 1) /\ Y' = Y
        /\ PutPixel(X, Y, rectangle.colour)
    BY <1>1, <1>5 DEF Fill
  <2>2. Y < Plus(rectangle.y, rectangle.h)
    BY <1>1, <1>5, ScreenAssumption DEF Plus, Word
  <2>3. /\ X' = X + 1 /\ X + 1 \in Word /\ ~Dropped
        /\ X < rectangle.x + rectangle.w /\ Y < rectangle.y + rectangle.h
    BY <1>1, <1>5, <2>1, <2>2, LoopGoesOn DEF Dropped
  <2>4. X \in Nat /\ Y \in Nat
    BY <1>1, ScreenAssumption DEF Word
  <2>5. \A p \in Visible : p[1] < X + 1 /\ p[2] = Y <=> p[2] = Y /\ (p[1] < X \/ p = <<X, Y>>)
    BY <2>4, VisibleType
  <2>6. CASE X < Cols /\ Y < Rows
    <3>1. <<X, Y>> \in Visible
      BY <1>1, <2>3, <2>4, <2>6, VisiblePixel
    <3>2. Drawn' = Drawn \cup {<<X, Y>>}
      BY <1>1, <1>2, <2>1, <2>3, <2>4, <2>5, <3>1, VisibleType DEF Drawn
    <3>3. memory' = memory \cup {Pixel(GetFrameBufferSegment, <<X, Y>>, rectangle.colour)}
      BY <2>1, <2>6 DEF PutPixel
    <3>4. memory' = Stored(Drawn')
      BY <1>1, <2>3, <3>2, <3>3 DEF Stored
    <3>5. memory' = Stored(Drawn)'
      BY <1>1, <1>2, <3>4 DEF Stored
    <3>6. QED
      BY <1>1, <1>2, <2>1, <2>3, <3>5, ScreenAssumption DEF Word
  <2>7. CASE ~(X < Cols /\ Y < Rows)
    <3>1. <<X, Y>> \notin Visible
      BY <2>4, <2>7, VisiblePixel
    <3>2. Drawn' = Drawn
      BY <1>1, <1>2, <2>1, <2>3, <2>4, <2>5, <3>1 DEF Drawn
    <3>3. memory' = memory
      BY <2>1, <2>7 DEF PutPixel
    <3>4. memory' = Stored(Drawn)'
      BY <1>1, <1>2, <2>3, <3>2, <3>3 DEF Stored
    <3>5. QED
      BY <1>1, <1>2, <2>1, <2>3, <3>4, ScreenAssumption DEF Word
  <2>8. QED
    BY <2>6, <2>7
<1>6. CASE ~(Y >= Plus(rectangle.y, rectangle.h)) /\ ~(X < Plus(rectangle.x, rectangle.w))
  <2>1. pc' = "fill" /\ X' = rectangle.x /\ Y' = Plus(Y, 1) /\ memory' = memory
    BY <1>1, <1>6 DEF Fill
  <2>2. Y < Plus(rectangle.y, rectangle.h)
    BY <1>1, <1>6, ScreenAssumption DEF Plus, Word
  <2>3. /\ Y' = Y + 1 /\ Y + 1 \in Word
        /\ ~Wraps(rectangle.y, rectangle.h) /\ Y < rectangle.y + rectangle.h
    BY <1>1, <2>1, <2>2, LoopGoesOn
  <2>4. X \in Nat /\ Y \in Nat
    BY <1>1, ScreenAssumption DEF Word
  <2>5. ASSUME ~Dropped PROVE Drawn' = Drawn
    <3>1. X >= rectangle.x + rectangle.w
      BY <1>1, <1>6, <2>4, <2>5, LoopGoesOn, ScreenAssumption DEF Dropped, Word
    <3>2. \A p \in Visible : p[1] < X /\ ~(p[1] < rectangle.x)
      BY <1>1, <2>4, <3>1, VisibleType DEF Word
    <3>3. \A p \in Visible : p[2] < Y + 1 <=> p[2] < Y \/ p[2] = Y
      BY <2>4, VisibleType
    <3>4. Drawn = {p \in Visible : p[2] < Y \/ (p[2] = Y /\ p[1] < X)}
      BY <1>1 DEF Drawn
    <3>5. Drawn' = {p \in Visible : p[2] < Y + 1 \/ (p[2] = Y + 1 /\ p[1] < rectangle.x)}
      BY <1>2, <2>1, <2>3 DEF Drawn
    <3>6. QED
      BY <3>2, <3>3, <3>4, <3>5
  <2>6. memory' = IF Dropped' THEN {} ELSE Stored(Drawn)'
    BY <1>1, <1>2, <2>1, <2>5 DEF Stored
  <2>7. Wraps(rectangle.x, rectangle.w) \/ X' <= rectangle.x + rectangle.w
    BY <1>1, <2>1, ScreenAssumption DEF Word
  <2>8. /\ X' \in Word /\ rectangle.x <= X'
        /\ Y' \in Word /\ rectangle.y <= Y' /\ Y' <= rectangle.y + rectangle.h
    BY <1>1, <2>1, <2>3, <2>4, ScreenAssumption DEF Word
  <2>9. Wraps(rectangle.x, rectangle.w)' <=> Wraps(rectangle.x, rectangle.w)
    BY <1>1 DEF Wraps
  <2>10. QED
    BY <1>1, <2>1, <2>6, <2>7, <2>8, <2>9
<1>7. QED
  BY <1>4, <1>5, <1>6

\* Nothing else draws.
LEMMA NextDrawInv == DrawInv /\ [Next]_vars => DrawInv'
<1> SUFFICES ASSUME DrawInv, [Next]_vars PROVE DrawInv'
  OBVIOUS
<1>1. CASE FillRectangle
  BY <1>1, StartDrawInv
<1>2. CASE Fill
  BY <1>2, FillDrawInv
<1>3. CASE \/ \E w \in {Cols, 2 * Cols}, depth \in {8, 16} : SetMode(w, Rows, depth)
           \/ WriteRegisters
  <2>1. memory' = memory /\ pc \notin {"fill", "filled"} /\ pc' \notin {"fill", "filled"}
    BY <1>3 DEF SetMode, WriteRegisters, WriteFile, Unlock, WriteCrtc, WriteAttribute,
       ShowPicture, Advance, drawing
  <2>2. QED
    BY <2>1 DEF DrawInv
<1>4. CASE UNCHANGED vars
  <2>1. UNCHANGED <<pc, register, rectangle, X, Y, memory>>
    BY <1>4 DEF vars, screen
  <2>2. QED
    BY <2>1 DEF DrawInv, Dropped, Wraps, Stored, Drawn, Visible, GetFrameBufferSegment
<1>5. QED
  BY <1>1, <1>2, <1>3, <1>4 DEF Next, Finished

\* Where the loops of fillRectangle() are, and what they have stored.
THEOREM DrawingInvariance == Spec => []DrawInv
<1>1. Init => DrawInv
  BY DEF Init, DrawInv
<1>2. QED
  BY <1>1, NextDrawInv, PTL DEF Spec

\* The mode selects the graphics window.
LEMMA WindowSelected == IInv /\ modeSet => GetFrameBufferSegment = GraphicsWindow
<1> SUFFICES ASSUME IInv, modeSet PROVE GetFrameBufferSegment = GraphicsWindow
  OBVIOUS
<1>1. "graphics" \in Group /\ 6 \in 0 .. Last["graphics"] /\ ~Behind("graphics", 6)
  BY LastType DEF Group, Behind
<1>2. register["graphics"][6] = Registers["graphics"][6]
  BY <1>1, SetWhenSaid DEF ModeSet
<1>3. (register.graphics[6] \div 4) % 4 = 1
  BY <1>2, Table, ModeAssumption
<1>4. QED
  BY <1>3, SMT DEF GetFrameBufferSegment, Base, GraphicsWindow

\* fillRectangle() stores the visible pixels of a rectangle, in the graphics
\* window if the mode is set, and drops a rectangle whose sums wrap, for any
\* screen, width of a word and rectangle.
THEOREM RectanglesAreClipped == Spec => []RectangleClipped
<1>1. IInv /\ DrawInv => RectangleClipped
  <2> SUFFICES ASSUME IInv, DrawInv, pc = "filled" PROVE RectangleClipped
    BY DEF RectangleClipped
  <2>1. memory = IF Dropped THEN {} ELSE Stored(Visible)
    BY DEF DrawInv, Drawn
  <2>2. GetFrameBufferSegment = IF modeSet THEN GraphicsWindow ELSE GetFrameBufferSegment
    BY WindowSelected
  <2>3. QED
    BY <2>1, <2>2 DEF RectangleClipped, Dropped, Stored
<1>2. QED
  BY <1>1, Invariance, DrawingInvariance, PTL

-----------------------------------------------------------------------------
(* Pci: where selectDrivers() is, and what it has reported.                *)

\* The function it comes to next.
Position ==
  <<bus, device, IF stage \in {"function", "bar"} THEN function ELSE 0>>

PciTypeInv ==
  /\ machine \in Machines
  /\ stage \in {"device", "function", "bar", "done"}
  /\ bus \in Nat /\ device \in P!Device /\ function \in Nat
  /\ IF stage = "done" THEN bus = BusCount ELSE bus \in P!Bus
  /\ reported \in Seq(P!Fitted)

\* As many functions are probed as the device says it has.
ProbeInv ==
  stage \in {"function", "bar"} =>
    /\ numFunctions = IF P!Answer(0).multi THEN FunctionCount ELSE 1
    /\ stage = "bar" => function < numFunctions /\ <<bus, device, function>> \in P!Fitted

\* What lies behind it has been reported, and nothing else.
WalkInv ==
  /\ \A j \in 1 .. Len(reported) : P!Earlier(reported[j], Position)
  /\ \A x \in P!Fitted :
       P!Earlier(x, Position) => \E j \in 1 .. Len(reported) : reported[j] = x

\* The ports among the first n registers of the function at hand.
PortsBefore(n) ==
  {k \in P!BarNum : /\ k < n
                    /\ P!Answer(function).bar[k].io
                    /\ P!Answer(function).bar[k].address # 0}

\* The port p is that of the last of them.
LastPort(n, p) ==
  IF PortsBefore(n) = {} THEN p = Unset
  ELSE \E k \in PortsBefore(n) :
         /\ p = P!Answer(function).bar[k].address
         /\ \A l \in PortsBefore(n) : l <= k

PortInv ==
  stage = "bar" =>
    /\ barNum \in 0 .. 6
    /\ P!Answer(function).type = 0 => LastPort(barNum, portBase)

PciInv == PciTypeInv /\ ProbeInv /\ WalkInv /\ PortInv /\ P!InOrder

\* A function that answers with a vendor, and is asked for, is there.
LEMMA KnownIsFitted ==
  ASSUME PciTypeInv, ProbeInv, stage = "function", function < numFunctions, P!Known
  PROVE  <<bus, device, function>> \in P!Fitted
<1> DEFINE slot == machine.slot[<<bus, device>>]
<1>1. bus \in P!Bus /\ device \in P!Device /\ <<bus, device>> \in P!Bus \X P!Device
  BY DEF PciTypeInv
<1>2. P!IsSlot(slot)
  BY <1>1, MachineAssumption DEF PciTypeInv, P!IsMachine
<1>3. numFunctions = IF P!Answer(0).multi THEN FunctionCount ELSE 1
  BY DEF ProbeInv
<1>4. P!Answer(function).vendor \notin {0, 65535}
  BY DEF P!Known
<1>5. function \in DOMAIN slot.fitted
  <2> SUFFICES ASSUME function \notin DOMAIN slot.fitted
               PROVE  FALSE
    OBVIOUS
  <2>1. slot.aliased
    BY <1>4 DEF P!Answer, P!Ones, P!Zeroes
  <2>2. DOMAIN slot.fitted = {0} /\ ~slot.fitted[0].multi
    BY <1>2, <2>1 DEF P!IsSlot
  <2>3. numFunctions = 1
    BY <1>3, <2>2 DEF P!Answer
  <2>4. QED
    BY <2>2, <2>3 DEF PciTypeInv
<1>6. function \in P!Function
  BY <1>2, <1>5 DEF P!IsSlot
<1>7. QED
  BY <1>1, <1>5, <1>6 DEF P!Fitted

\* A device has no functions behind those that are probed.
LEMMA NothingBehind ==
  ASSUME PciTypeInv, ProbeInv, stage = "function",
         NEW f \in Nat, f >= numFunctions
  PROVE  <<bus, device, f>> \notin P!Fitted
<1> DEFINE slot == machine.slot[<<bus, device>>]
<1>1. <<bus, device>> \in P!Bus \X P!Device
  BY DEF PciTypeInv
<1>2. P!IsSlot(slot)
  BY <1>1, MachineAssumption DEF PciTypeInv, P!IsMachine
<1>3. numFunctions = IF P!Answer(0).multi THEN FunctionCount ELSE 1
  BY DEF ProbeInv
<1>4. SUFFICES ASSUME f \in DOMAIN slot.fitted, f \in P!Function
               PROVE  FALSE
  BY DEF P!Fitted
<1>5. f < FunctionCount /\ f # 0 /\ FunctionCount \in Nat
  BY <1>3, <1>4, MachineAssumption DEF P!Function
<1>6. 0 \in DOMAIN slot.fitted /\ slot.fitted[0].multi
  BY <1>2, <1>4, <1>5 DEF P!IsSlot
<1>7. QED
  BY <1>3, <1>5, <1>6 DEF P!Answer

\* A function that is there answers, with a vendor.
LEMMA FittedIsKnown ==
  ASSUME PciTypeInv, stage = "function", <<bus, device, function>> \in P!Fitted
  PROVE  P!Known
<1>1. /\ <<bus, device>> \in P!Bus \X P!Device
      /\ function \in DOMAIN machine.slot[<<bus, device>>].fitted
  BY DEF P!Fitted, PciTypeInv
<1>2. P!IsSlot(machine.slot[<<bus, device>>])
  BY <1>1, MachineAssumption DEF PciTypeInv, P!IsMachine
<1>3. QED
  BY <1>1, <1>2 DEF P!IsSlot, P!Known, P!Answer

\* A walk that goes one function on leaves one more behind it.
LEMMA EarlierThanNext ==
  ASSUME NEW x \in Nat \X Nat \X Nat, NEW b \in Nat, NEW d \in Nat, NEW f \in Nat
  PROVE  P!Earlier(x, <<b, d, f + 1>>) <=> P!Earlier(x, <<b, d, f>>) \/ x = <<b, d, f>>
BY DEF P!Earlier

\* The functions of the machine are triples of numbers.
LEMMA FittedType ==
  P!Fitted \subseteq P!Bus \X P!Device \X P!Function
  /\ P!Fitted \subseteq Nat \X Nat \X Nat
  /\ \A x \in P!Fitted : x[1] < BusCount /\ x[2] < DeviceCount
<1>1. P!Bus \subseteq Nat /\ P!Device \subseteq Nat /\ P!Function \subseteq Nat
  BY MachineAssumption DEF P!Bus, P!Device, P!Function
<1>2. P!Fitted \subseteq P!Bus \X P!Device \X P!Function
  BY DEF P!Fitted
<1>3. \A x \in P!Fitted :
        x[1] \in P!Bus /\ x[2] \in P!Device /\ x \in Nat \X Nat \X Nat
  BY <1>1, <1>2
<1>4. \A x \in P!Fitted : x[1] < BusCount /\ x[2] < DeviceCount
  BY <1>3, MachineAssumption DEF P!Bus, P!Device
<1>5. QED
  BY <1>2, <1>3, <1>4

LEMMA PciInitInv == P!Init => PciInv
<1> SUFFICES ASSUME P!Init PROVE PciInv
  OBVIOUS
<1>1. PciTypeInv
  BY MachineAssumption DEF P!Init, PciTypeInv, P!Bus, P!Device
<1>2. ProbeInv /\ PortInv /\ P!InOrder
  BY DEF P!Init, ProbeInv, PortInv, P!InOrder
<1>3. Position = <<0, 0, 0>> /\ reported = <<>>
  BY DEF P!Init, Position
<1>4. ASSUME NEW x \in P!Fitted
      PROVE  ~P!Earlier(x, <<0, 0, 0>>)
  BY <1>4, FittedType DEF P!Earlier
<1>5. WalkInv
  BY <1>3, <1>4 DEF WalkInv
<1>6. QED
  BY <1>1, <1>2, <1>5 DEF PciInv

LEMMA ProbeDeviceKeeps ==
  ASSUME PciInv, P!ProbeDevice
  PROVE  PciInv'
<1> USE DEF P!ProbeDevice
<1>1. P!Fitted' = P!Fitted /\ Position' = Position
  BY DEF P!Fitted, Position
<1>2. PciTypeInv'
  BY <1>1 DEF PciInv, PciTypeInv
<1>3. ProbeInv' /\ PortInv'
  BY DEF ProbeInv, PortInv, P!Answer, P!hasFunctions
<1>4. WalkInv' /\ P!InOrder'
  BY <1>1 DEF PciInv, WalkInv, P!InOrder
<1>5. QED
  BY <1>2, <1>3, <1>4 DEF PciInv

LEMMA SkipFunctionKeeps ==
  ASSUME PciInv, P!SkipFunction
  PROVE  PciInv'
<1> USE DEF P!SkipFunction
<1>1. P!Fitted' = P!Fitted
  BY DEF P!Fitted
<1>2. /\ Position = <<bus, device, function>> /\ Position' = <<bus, device, function + 1>>
      /\ bus \in Nat /\ device \in Nat /\ function \in Nat
  BY MachineAssumption DEF Position, PciInv, PciTypeInv, P!Bus, P!Device
<1>3. PciTypeInv'
  BY <1>1, <1>2 DEF PciInv, PciTypeInv
<1>4. ProbeInv' /\ PortInv' /\ P!InOrder'
  BY DEF PciInv, ProbeInv, PortInv, P!Answer, P!InOrder
<1>5. <<bus, device, function>> \notin P!Fitted
  BY FittedIsKnown DEF PciInv
<1>6. \A x \in P!Fitted : P!Earlier(x, Position') <=> P!Earlier(x, Position)
  <2> SUFFICES ASSUME NEW x \in P!Fitted
               PROVE  P!Earlier(x, Position') <=> P!Earlier(x, Position)
    OBVIOUS
  <2>1. x \in Nat \X Nat \X Nat /\ x # <<bus, device, function>>
    BY <1>5, FittedType
  <2>2. QED
    BY <1>2, <2>1, EarlierThanNext
<1>7. \A j \in 1 .. Len(reported) : reported[j] \in P!Fitted
  BY DEF PciInv, PciTypeInv
<1>8. WalkInv'
  BY <1>1, <1>6, <1>7 DEF PciInv, WalkInv
<1>9. QED
  BY <1>3, <1>4, <1>8 DEF PciInv

LEMMA FindFunctionKeeps ==
  ASSUME PciInv, P!FindFunction
  PROVE  PciInv'
<1> USE DEF P!FindFunction
<1>1. P!Fitted' = P!Fitted /\ Position' = Position
  BY DEF P!Fitted, Position
<1>2. <<bus, device, function>> \in P!Fitted
  BY KnownIsFitted DEF PciInv
<1>3. PciTypeInv' /\ ProbeInv'
  BY <1>1, <1>2 DEF PciInv, PciTypeInv, ProbeInv, P!Answer
<1>4. PortInv'
  <2>1. PortsBefore(0)' = {}
    BY DEF PortsBefore, P!BarNum
  <2>2. QED
    BY <2>1 DEF PortInv, LastPort
<1>5. WalkInv' /\ P!InOrder'
  BY <1>1 DEF PciInv, WalkInv, P!InOrder
<1>6. QED
  BY <1>3, <1>4, <1>5 DEF PciInv

LEMMA ReadRegisterKeeps ==
  ASSUME PciInv, P!ReadRegister
  PROVE  PciInv'
<1> USE DEF P!ReadRegister
<1>1. P!Fitted' = P!Fitted /\ Position' = Position
  BY DEF P!Fitted, Position
<1>2. PciTypeInv' /\ ProbeInv' /\ WalkInv' /\ P!InOrder'
  BY <1>1 DEF PciInv, PciTypeInv, ProbeInv, WalkInv, P!InOrder, P!Answer
<1>3. barNum \in 0 .. 5 /\ barNum' = barNum + 1
  BY DEF PciInv, PortInv
<1>4. PortInv'
  <2> SUFFICES ASSUME P!Answer(function).type = 0
               PROVE  LastPort(barNum + 1, portBase')
    <3>1. P!Answer(function)' = P!Answer(function)
      BY DEF P!Answer
    <3>2. PortsBefore(barNum)' = PortsBefore(barNum + 1)
      BY <1>3, <3>1 DEF PortsBefore
    <3>3. LastPort(barNum, portBase)' <=> LastPort(barNum + 1, portBase')
      BY <3>1, <3>2 DEF LastPort
    <3>4. QED
      BY <1>3, <3>1, <3>3 DEF PortInv
  <2> DEFINE own == P!Answer(function).bar[barNum]
  <2>1. PICK r \in P!BaseAddressRegisters(barNum) :
          portBase' = IF r.address # 0 /\ r.io THEN r.address ELSE portBase
    OBVIOUS
  <2>2. IF own.io THEN r = own ELSE ~r.io
    <3>1. ~(barNum >= 6 - 4 * P!Answer(function).type)
      BY <1>3
    <3>2. CASE own.io
      BY <2>1, <3>1, <3>2 DEF P!BaseAddressRegisters
    <3>3. CASE ~own.io
      <4>1. r \in [io : {FALSE}, address : P!Garbage]
        BY <2>1, <3>1, <3>3 DEF P!BaseAddressRegisters
      <4>2. QED
        BY <3>3, <4>1
    <3>4. QED
      BY <3>2, <3>3
  <2>3. LastPort(barNum, portBase)
    BY DEF PciInv, PortInv
  <2>4. CASE own.io /\ own.address # 0
    <3>1. barNum \in PortsBefore(barNum + 1)
      BY <1>3, <2>4 DEF PortsBefore, P!BarNum
    <3>2. \A k \in PortsBefore(barNum + 1) : k <= barNum
      BY <1>3 DEF PortsBefore, P!BarNum
    <3>3. portBase' = own.address
      BY <2>1, <2>2, <2>4
    <3>4. QED
      BY <3>1, <3>2, <3>3 DEF LastPort
  <2>5. CASE ~(own.io /\ own.address # 0)
    <3>1. PortsBefore(barNum + 1) = PortsBefore(barNum)
      BY <1>3, <2>5 DEF PortsBefore, P!BarNum
    <3>2. portBase' = portBase
      BY <2>1, <2>2, <2>5
    <3>3. QED
      BY <2>3, <3>1, <3>2 DEF LastPort
  <2>6. QED
    BY <2>4, <2>5
<1>5. QED
  BY <1>2, <1>4 DEF PciInv

LEMMA ReportKeeps ==
  ASSUME PciInv, P!Report
  PROVE  PciInv'
<1> USE DEF P!Report
<1> DEFINE here == <<bus, device, function>>
<1>1. P!Fitted' = P!Fitted /\ here \in P!Fitted
  BY DEF P!Fitted, PciInv, ProbeInv
<1>2. /\ Position = here /\ Position' = <<bus, device, function + 1>>
      /\ bus \in Nat /\ device \in Nat /\ function \in Nat
  BY MachineAssumption DEF Position, PciInv, PciTypeInv, P!Bus, P!Device
<1>3. reported \in Seq(P!Fitted) /\ reported' = Append(reported, here)
  BY DEF PciInv, PciTypeInv
<1>4. /\ reported' \in Seq(P!Fitted) /\ Len(reported') = Len(reported) + 1
      /\ Len(reported) \in Nat
      /\ reported'[Len(reported) + 1] = here
      /\ \A j \in 1 .. Len(reported) : reported'[j] = reported[j]
  BY <1>1, <1>3
<1> HIDE DEF here
<1>5. PciTypeInv'
  BY <1>1, <1>2, <1>4 DEF PciInv, PciTypeInv
<1>6. ProbeInv' /\ PortInv'
  BY DEF PciInv, ProbeInv, PortInv, P!Answer
<1>7. \A j \in 1 .. Len(reported) : P!Earlier(reported[j], here)
  BY <1>2 DEF PciInv, WalkInv
<1>8. P!InOrder'
  <2> SUFFICES ASSUME NEW j \in 1 .. Len(reported) + 1, NEW k \in 1 .. Len(reported) + 1,
                      j < k
               PROVE  P!Earlier(reported'[j], reported'[k])
    BY <1>4 DEF P!InOrder
  <2>1. CASE k = Len(reported) + 1
    <3>1. j \in 1 .. Len(reported) /\ reported'[j] = reported[j] /\ reported'[k] = here
      BY <1>4, <2>1
    <3>2. QED
      BY <1>7, <3>1
  <2>2. CASE k # Len(reported) + 1
    <3>1. /\ j \in 1 .. Len(reported) /\ reported'[j] = reported[j]
          /\ k \in 1 .. Len(reported) /\ reported'[k] = reported[k]
      BY <1>4, <2>2
    <3>2. P!Earlier(reported[j], reported[k])
      BY <3>1 DEF PciInv, P!InOrder
    <3>3. QED
      BY <3>1, <3>2
  <2>3. QED
    BY <2>1, <2>2
<1>9. \A x \in P!Fitted : P!Earlier(x, Position') <=> P!Earlier(x, here) \/ x = here
  BY <1>2, FittedType, EarlierThanNext DEF here
<1>10. WalkInv'
  <2>1. \A j \in 1 .. Len(reported') : P!Earlier(reported'[j], Position')
    <3> SUFFICES ASSUME NEW j \in 1 .. Len(reported) + 1
                 PROVE  reported'[j] \in P!Fitted /\ P!Earlier(reported'[j], Position')
      BY <1>4
    <3>1. reported'[j] \in P!Fitted
      BY <1>4
    <3>2. reported'[j] = here \/ P!Earlier(reported'[j], here)
      BY <1>4, <1>7
    <3>3. QED
      BY <1>9, <3>1, <3>2
  <2>2. \A x \in P!Fitted :
          P!Earlier(x, Position') => \E j \in 1 .. Len(reported') : reported'[j] = x
    <3> SUFFICES ASSUME NEW x \in P!Fitted, P!Earlier(x, Position')
                 PROVE  \E j \in 1 .. Len(reported) + 1 : reported'[j] = x
      BY <1>4
    <3>1. CASE x = here
      BY <1>4, <3>1
    <3>2. CASE x # here
      <4>1. PICK j \in 1 .. Len(reported) : reported[j] = x
        BY <1>2, <1>9, <3>2 DEF PciInv, WalkInv
      <4>2. QED
        BY <1>4, <4>1
    <3>3. QED
      BY <3>1, <3>2
  <2>3. QED
    BY <1>1, <2>1, <2>2 DEF WalkInv
<1>11. QED
  BY <1>5, <1>6, <1>8, <1>10 DEF PciInv

LEMMA NextDeviceKeeps ==
  ASSUME PciInv, P!NextDevice
  PROVE  PciInv'
<1> USE DEF P!NextDevice
<1>1. P!Fitted' = P!Fitted
  BY DEF P!Fitted
<1>2. /\ bus \in Nat /\ bus < BusCount /\ device \in Nat /\ device < DeviceCount
      /\ function \in Nat /\ BusCount \in Nat /\ DeviceCount \in Nat
  BY MachineAssumption DEF PciInv, PciTypeInv, P!Bus, P!Device
<1>3. /\ device' = IF device + 1 = DeviceCount THEN 0 ELSE device + 1
      /\ bus' = IF device + 1 = DeviceCount THEN bus + 1 ELSE bus
  <2>1. CASE device + 1 = DeviceCount
    BY <1>2, <2>1
  <2>2. CASE device + 1 # DeviceCount
    BY <1>2, <2>2
  <2>3. QED
    BY <2>1, <2>2
<1>4. PciTypeInv'
  BY <1>1, <1>2, <1>3 DEF PciInv, PciTypeInv, P!Bus, P!Device
<1>5. ProbeInv' /\ PortInv' /\ P!InOrder'
  BY DEF PciInv, ProbeInv, PortInv, P!InOrder
<1>6. /\ Position = <<bus, device, function>>
      /\ Position' = <<bus', device', 0>>
  BY DEF Position
<1>7. \A f \in Nat : f >= numFunctions => <<bus, device, f>> \notin P!Fitted
  BY NothingBehind DEF PciInv
<1>8. numFunctions \in Nat /\ function >= numFunctions
  BY MachineAssumption DEF PciInv, ProbeInv
<1>9. \A x \in P!Fitted : P!Earlier(x, Position') <=> P!Earlier(x, Position)
  <2> SUFFICES ASSUME NEW x \in P!Fitted
               PROVE  P!Earlier(x, Position') <=> P!Earlier(x, Position)
    OBVIOUS
  <2>1. x \in Nat \X Nat \X Nat /\ x[2] < DeviceCount
    BY FittedType
  <2>2. x = <<x[1], x[2], x[3]>> /\ x[1] \in Nat /\ x[2] \in Nat /\ x[3] \in Nat
    BY <2>1
  <2>3. x[1] = bus /\ x[2] = device => x[3] < function
    BY <1>2, <1>7, <1>8, <2>2
  <2>4. QED
    BY <1>2, <1>3, <1>6, <2>1, <2>2, <2>3 DEF P!Earlier
<1>10. \A j \in 1 .. Len(reported) : reported[j] \in P!Fitted
  BY DEF PciInv, PciTypeInv
<1>11. WalkInv'
  BY <1>1, <1>9, <1>10 DEF PciInv, WalkInv
<1>12. QED
  BY <1>4, <1>5, <1>11 DEF PciInv

\* A step of the walk keeps what is known of it.
LEMMA PciNextInv == PciInv /\ [P!Next]_pciVars => PciInv'
<1> SUFFICES ASSUME PciInv, [P!Next]_pciVars PROVE PciInv'
  OBVIOUS
<1>1. CASE P!Next
  BY <1>1, ProbeDeviceKeeps, SkipFunctionKeeps, FindFunctionKeeps,
     ReadRegisterKeeps, ReportKeeps, NextDeviceKeeps DEF P!Next
<1>2. CASE UNCHANGED pciVars
  <2>1. /\ P!Fitted' = P!Fitted /\ Position' = Position
        /\ \A f : P!Answer(f)' = P!Answer(f)
    BY <1>2 DEF pciVars, P!Fitted, Position, P!Answer
  <2>2. PciTypeInv' /\ ProbeInv' /\ WalkInv' /\ P!InOrder'
    BY <1>2, <2>1 DEF pciVars, PciInv, PciTypeInv, ProbeInv, WalkInv, P!InOrder
  <2>3. PortInv'
    BY <1>2 DEF pciVars, PciInv, PortInv, LastPort, PortsBefore, P!Answer
  <2>4. QED
    BY <2>2, <2>3 DEF PciInv
<1>3. QED
  BY <1>1, <1>2

\* At the end of the walk every function lies behind it, and of the six
\* registers of a function none is left.
LEMMA PciInvSuffices == PciInv => FunctionsFound
<1> SUFFICES ASSUME PciInv PROVE FunctionsFound
  OBVIOUS
<1>1. reported \in Seq(P!Fitted)
  BY DEF PciInv, PciTypeInv
<1>2. \A j \in 1 .. Len(reported) : reported[j] \in P!Fitted
  BY <1>1
<1>3. ASSUME stage = "done", NEW x \in P!Fitted
      PROVE  \E j \in 1 .. Len(reported) : reported[j] = x
  <2>1. bus = BusCount /\ x[1] < BusCount
    BY <1>3, FittedType DEF PciInv, PciTypeInv
  <2>2. P!Earlier(x, Position)
    BY <2>1 DEF P!Earlier, Position
  <2>3. QED
    BY <2>2 DEF PciInv, WalkInv
<1>4. P!AllReported
  BY <1>2, <1>3 DEF P!AllReported
<1>5. P!PortsOwn
  <2> DEFINE bar   == P!Answer(function).bar
             ports == {n \in P!BarNum : bar[n].io /\ bar[n].address # 0}
  <2> SUFFICES ASSUME stage = "bar", barNum = 6, P!Answer(function).type = 0
               PROVE  IF ports = {} THEN portBase = Unset
                      ELSE \E n \in ports :
                             portBase = bar[n].address /\ \A k \in ports : k <= n
    BY DEF P!PortsOwn
  <2>1. LastPort(6, portBase)
    BY DEF PciInv, PortInv
  <2>2. PortsBefore(6) = ports
    BY DEF PortsBefore, P!BarNum
  <2>3. QED
    BY <2>1, <2>2 DEF LastPort
<1>6. QED
  BY <1>4, <1>5 DEF PciInv, FunctionsFound, P!FunctionsFound

-----------------------------------------------------------------------------
(* The kernel with one of the two calls.                                   *)

\* A kernel with one call takes no step that the driver alone would not take.
LEMMA DriversAreApart == DevicesSpec => Spec /\ P!Spec
<1>1. DevicesInit => Init /\ P!Init
  BY DEF DevicesInit
<1>2. [DevicesNext]_devices => [Next]_vars /\ [P!Next]_(P!vars)
  BY DEF DevicesNext, WithSelectDrivers, WithSetMode, Enumerated, devices, vars,
     pciVars, P!vars
<1>3. QED
  BY <1>1, <1>2, PTL DEF DevicesSpec, Spec, P!Spec

\* The invariant of the walk.
THEOREM PciInvariance == DevicesSpec => []PciInv
<1>1. DevicesInit => PciInv
  BY PciInitInv DEF DevicesInit
<1>2. [DevicesNext]_devices => [P!Next]_pciVars
  BY DEF DevicesNext, WithSelectDrivers, WithSetMode, Enumerated, devices, pciVars
<1>3. QED
  BY <1>1, <1>2, PciNextInv, PTL DEF DevicesSpec

\* selectDrivers() reports every function of any machine once and in order, and
\* takes the ports of an ordinary device from its own registers.
THEOREM FunctionsAreFound == DevicesSpec => []FunctionsFound
<1>1. QED
  BY PciInvariance, PciInvSuffices, PTL

\* With SetMode() compiled in, the mode is set and rectangles are clipped as in
\* the driver by itself.
THEOREM KernelDraws == DevicesSpec => [](ModeSet /\ RectangleClipped)
<1>1. QED
  BY DriversAreApart, ModeIsSet, RectanglesAreClipped, PTL
=============================================================================
