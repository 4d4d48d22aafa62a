----------------------------- MODULE Ata_proof ------------------------------
(***************************************************************************)
(* Proofs about the ATA driver, for any script of calls, any drives on the *)
(* bus and any even sector size.  A call touches the data port once for    *)
(* every word of a sector, as often as its count asks beyond that, or not  *)
(* at all; and only write28() leaves a drive at work.                      *)
(***************************************************************************)
EXTENDS Ata, TLAPS

\* A drive in its data phase has at least a word to move.
DataInv == \A d \in Drive : phase[d] \in {"in", "out"} => left[d] > 0

\* Where the accesses of a count of n bytes begin and where they end.
First(n) == IF n < 0 THEN Rounded(n) ELSE 0
Last(n)  == IF Rounded(n) > SectorBytes THEN Rounded(n) ELSE SectorBytes

\* The loop variable counts the bytes of the accesses made so far.
LoopInv ==
  todo # <<>> =>
    /\ pc \in {"start", "first", "poll"} => i = 0 /\ got + junk = 0
    /\ pc = "data" => i = 2 * (got + junk) /\ (i <= Asked + 1 \/ i = 0)
    /\ pc = "rest" => /\ i = First(Asked) + 2 * (got + junk)
                      /\ i >= Rounded(Asked) /\ i <= Last(Asked)

IInv == TypeOK /\ DataInv /\ LoopInv /\ WholeSector

-----------------------------------------------------------------------------
(* Arithmetic of the loops.                                                *)

\* Rounding goes away from 0 to the next even number.
LEMMA RoundedType ==
  ASSUME NEW n \in Int
  PROVE  /\ Rounded(n) \in Int /\ Rounded(n) % 2 = 0
         /\ n >= 0 => Rounded(n) \in {n, n + 1}
         /\ n < 0 => Rounded(n) \in {n, n - 1}
BY DEF Rounded

LEMMA EndsType ==
  ASSUME NEW n \in Int
  PROVE  /\ First(n) \in Int /\ Last(n) \in Int
         /\ First(n) % 2 = 0 /\ First(n) <= 0
         /\ Last(n) >= SectorBytes /\ Last(n) >= Rounded(n)
         /\ Last(n) \in {SectorBytes, Rounded(n)}
         /\ Accesses(n) = (Last(n) - First(n)) \div 2
BY RoundedType, SectorAssumption DEF First, Last, Accesses

\* The rest of a sector starts where the loop over the bytes asked for ended,
\* or as far before its start as a negative count says.
LEMMA RestStart ==
  ASSUME NEW n \in Int, NEW k \in Nat, 2 * k >= n, 2 * k <= n + 1 \/ k = 0
  PROVE  Rounded(n) = First(n) + 2 * k
<1>1. CASE n < 0
  <2>1. k = 0
    BY <1>1
  <2>2. QED
    BY <1>1, <2>1, RoundedType DEF First
<1>2. CASE n >= 0
  BY <1>2 DEF First, Rounded
<1>3. QED
  BY <1>1, <1>2

\* An even index below the even end of a sector leaves room for one more word.
LEMMA RoomForWord ==
  ASSUME NEW m \in Int, m % 2 = 0, m < SectorBytes
  PROVE  m + 2 <= SectorBytes
BY SectorAssumption

\* The call in progress is one of the script.
LEMMA CallType ==
  ASSUME todo \in Seq(Call), todo # <<>>
  PROVE  /\ call \in Call /\ Sel \in Drive /\ Asked \in Int
         /\ Tail(todo) \in Seq(Call)
<1>1. call \in Call /\ Tail(todo) \in Seq(Call)
  BY DEF call
<1>2. QED
  BY <1>1, SectorAssumption DEF Call, Sel, Asked

LEMMA WordsType == Words \in Nat \ {0}
BY SectorAssumption DEF Words

-----------------------------------------------------------------------------
(* IInv is inductive.                                                      *)

LEMMA InitIInv == Init => IInv
<1> SUFFICES ASSUME Init PROVE IInv
  OBVIOUS
<1>1. todo \in Seq(Call)
  <2>1. todo \in Seq({c \in Call : c.op = "read28" \/ c.count >= 0})
    BY ScriptsAssumption DEF Init
  <2>2. QED
    BY <2>1
<1>2. TypeOK
  <2>1. phase \in [Drive -> {"idle", "busy", "in", "out"}] /\
        command \in [Drive -> Command] /\ left \in [Drive -> 0 .. Words]
    BY WordsType DEF Init, Command
  <2>2. QED
    BY <1>1, <2>1, SectorAssumption DEF Init, TypeOK
<1>3. DataInv /\ LoopInv /\ WholeSector
  BY DEF Init, DataInv, LoopInv, WholeSector
<1>4. QED
  BY <1>2, <1>3 DEF IInv

\* What writing a command does to the drives.
LEMMA TakeKeeps ==
  ASSUME IInv, NEW d \in Drive, NEW c \in Command, Take(d, c)
  PROVE  /\ phase' \in [Drive -> {"idle", "busy", "in", "out"}]
         /\ command' \in [Drive -> Command]
         /\ left' \in [Drive -> 0 .. Words]
         /\ err' \in [Drive -> BOOLEAN]
         /\ intrq' = intrq
         /\ DataInv'
<1>1. CASE UNCHANGED drives
  BY <1>1 DEF drives, IInv, TypeOK, DataInv
<1>2. CASE ~ UNCHANGED drives
  <2>1. /\ phase' = [phase EXCEPT ![d] = "busy"]
        /\ command' = [command EXCEPT ![d] = c]
        /\ err' = [err EXCEPT ![d] = FALSE]
        /\ left' = [left EXCEPT ![d] = IF c = "FLUSH" THEN 0 ELSE Words]
        /\ intrq' = intrq
    BY <1>2 DEF Take
  <2>2. left' \in [Drive -> 0 .. Words]
    BY <2>1, WordsType DEF IInv, TypeOK
  <2>3. /\ phase' \in [Drive -> {"idle", "busy", "in", "out"}]
        /\ command' \in [Drive -> Command]
        /\ err' \in [Drive -> BOOLEAN]
    BY <2>1 DEF IInv, TypeOK
  <2>4. ASSUME NEW x \in Drive, phase'[x] \in {"in", "out"}
        PROVE  left'[x] > 0
    <3>1. x # d /\ phase'[x] = phase[x] /\ left'[x] = left[x]
      BY <2>1, <2>4 DEF IInv, TypeOK
    <3>2. QED
      BY <2>4, <3>1 DEF IInv, DataInv
  <2>5. QED
    BY <2>1, <2>2, <2>3, <2>4 DEF DataInv
<1>3. QED
  BY <1>1, <1>2

\* The first step of a call.
LEMMA StartStep ==
  ASSUME IInv, StartIdentify \/ StartRead \/ StartWrite \/ StartFlush
  PROVE  IInv'
<1>1. /\ todo # <<>> /\ pc = "start" /\ todo' = todo
      /\ UNCHANGED <<kind, i, got, junk>>
      /\ pc' \in {"first", "poll", "data", "return"}
  BY DEF StartIdentify, StartRead, StartWrite, StartFlush, Running, Return
<1>2. Sel \in Drive /\ Asked \in Int
  BY <1>1, CallType DEF IInv, TypeOK
<1>3. \/ UNCHANGED drives
      \/ \E c \in Command : Take(Sel, c)
  BY DEF StartIdentify, StartRead, StartWrite, StartFlush, Command
<1>4. /\ phase' \in [Drive -> {"idle", "busy", "in", "out"}]
      /\ command' \in [Drive -> Command]
      /\ left' \in [Drive -> 0 .. Words]
      /\ err' \in [Drive -> BOOLEAN]
      /\ intrq' = intrq
      /\ DataInv'
  <2>1. CASE UNCHANGED drives
    BY <2>1 DEF drives, IInv, TypeOK, DataInv
  <2>2. CASE \E c \in Command : Take(Sel, c)
    BY <1>2, <2>2, TakeKeeps
  <2>3. QED
    BY <1>3, <2>1, <2>2
<1>5. nIEN' \in [Channel -> BOOLEAN]
  BY <1>2 DEF StartIdentify, StartRead, StartWrite, StartFlush, IInv, TypeOK,
     Drive
<1>6. Asked' = Asked /\ call' = call
  BY <1>1 DEF Asked, call
<1>7. TypeOK'
  BY <1>1, <1>4, <1>5, <1>6 DEF IInv, TypeOK
<1>8. LoopInv' /\ WholeSector'
  BY <1>1, <1>2, <1>6 DEF IInv, LoopInv, WholeSector, TypeOK
<1>9. QED
  BY <1>4, <1>7, <1>8 DEF IInv

\* The steps that only look at the status register.
LEMMA PollStep ==
  ASSUME IInv, Poll \/ PollFlush
  PROVE  IInv'
<1>1. /\ todo # <<>> /\ pc \in {"first", "poll"}
      /\ pc' \in {"poll", "data", "return"}
      /\ UNCHANGED <<kind, drives, nIEN, todo, i, got, junk>>
  BY DEF Poll, PollFlush, Running
<1>2. Asked \in Int
  BY <1>1, CallType DEF IInv, TypeOK
<1>3. Asked' = Asked /\ call' = call
  BY <1>1 DEF Asked, call
<1>4. TypeOK' /\ DataInv'
  BY <1>1, <1>3 DEF IInv, TypeOK, DataInv, drives
<1>5. LoopInv' /\ WholeSector'
  BY <1>1, <1>2, <1>3 DEF IInv, LoopInv, WholeSector, TypeOK
<1>6. QED
  BY <1>4, <1>5 DEF IInv

LEMMA NextCallStep ==
  ASSUME IInv, NextCall
  PROVE  IInv'
<1>1. todo' \in Seq(Call)
  BY CallType DEF NextCall, IInv, TypeOK
<1>2. TypeOK' /\ DataInv'
  BY <1>1, SectorAssumption DEF NextCall, IInv, TypeOK, DataInv, drives
<1>3. LoopInv' /\ WholeSector'
  BY DEF NextCall, LoopInv, WholeSector
<1>4. QED
  BY <1>2, <1>3 DEF IInv

\* One access to the data port is counted once, with DRQ or without.
LEMMA AccessKeeps ==
  ASSUME IInv, Sel \in Drive, NEW dir \in {"in", "out"}, Access(dir)
  PROVE  /\ phase' \in [Drive -> {"idle", "busy", "in", "out"}]
         /\ left' \in [Drive -> 0 .. Words]
         /\ UNCHANGED <<command, err, intrq>>
         /\ DataInv'
         /\ got' \in Nat /\ junk' \in Nat /\ got' + junk' = got + junk + 1
<1>1. CASE ~(kind[Sel] # "none" /\ phase[Sel] = dir)
  <2>1. junk' = junk + 1 /\ got' = got
        /\ UNCHANGED <<phase, command, left, err, intrq>>
    BY <1>1 DEF Access, drives
  <2>2. QED
    BY <2>1 DEF IInv, TypeOK, DataInv
<1>2. CASE kind[Sel] # "none" /\ phase[Sel] = dir
  <2> DEFINE p == IF left[Sel] > 1 THEN dir
                  ELSE IF dir = "out" THEN "busy" ELSE "idle"
  <2>1. /\ left' = [left EXCEPT ![Sel] = left[Sel] - 1]
        /\ phase' = [phase EXCEPT ![Sel] = p]
        /\ got' = got + 1 /\ junk' = junk
        /\ UNCHANGED <<command, err, intrq>>
    BY <1>2 DEF Access
  <2>2. left[Sel] \in 1 .. Words
    BY <1>2, WordsType DEF IInv, TypeOK, DataInv
  <2>3. left' \in [Drive -> 0 .. Words] /\ left'[Sel] = left[Sel] - 1
    BY <2>1, <2>2, WordsType DEF IInv, TypeOK
  <2>4. p \in {"idle", "busy", "in", "out"}
    OBVIOUS
  <2>5. phase' \in [Drive -> {"idle", "busy", "in", "out"}] /\ phase'[Sel] = p
    BY <2>1, <2>4 DEF IInv, TypeOK
  <2>6. ASSUME NEW x \in Drive, phase'[x] \in {"in", "out"}
        PROVE  left'[x] > 0
    <3>1. CASE x = Sel
      BY <2>2, <2>3, <2>5, <2>6, <3>1
    <3>2. CASE x # Sel
      <4>1. phase'[x] = phase[x] /\ left'[x] = left[x]
        BY <2>1, <3>2 DEF IInv, TypeOK
      <4>2. QED
        BY <2>6, <4>1 DEF IInv, DataInv
    <3>3. QED
      BY <3>1, <3>2
  <2>7. QED
    BY <2>1, <2>3, <2>5, <2>6 DEF IInv, TypeOK, DataInv
<1>3. QED
  BY <1>1, <1>2

\* The loops over the data port.
LEMMA TransferStep ==
  ASSUME IInv, Transfer
  PROVE  IInv'
<1>1. /\ todo # <<>> /\ pc \in {"data", "rest"} /\ todo' = todo
      /\ UNCHANGED <<kind, nIEN>>
  BY DEF Transfer
<1>2. Sel \in Drive /\ Asked \in Int
  BY <1>1, CallType DEF IInv, TypeOK
<1>3. Asked' = Asked /\ call' = call
  BY <1>1 DEF Asked, call
<1>4. got + junk \in Nat /\ i \in Int
  BY DEF IInv, TypeOK
<1>5. /\ First(Asked) \in Int /\ Last(Asked) \in Int /\ Rounded(Asked) \in Int
      /\ First(Asked) % 2 = 0 /\ Last(Asked) >= SectorBytes
      /\ Last(Asked) >= Rounded(Asked)
      /\ Last(Asked) \in {SectorBytes, Rounded(Asked)}
      /\ Accesses(Asked) = (Last(Asked) - First(Asked)) \div 2
  BY <1>2, EndsType, RoundedType
<1> DEFINE k == got + junk
           bound == IF pc = "data" THEN Asked ELSE SectorBytes
<1>6. CASE i < bound
  <2>1. /\ Access(IF call.op = "write28" THEN "out" ELSE "in")
        /\ i' = i + 2 /\ pc' = pc
    BY <1>1, <1>6 DEF Transfer
  <2>2. PICK dir \in {"in", "out"} : Access(dir)
    BY <2>1
  <2>3. /\ phase' \in [Drive -> {"idle", "busy", "in", "out"}]
        /\ left' \in [Drive -> 0 .. Words]
        /\ UNCHANGED <<command, err, intrq>>
        /\ DataInv'
        /\ got' \in Nat /\ junk' \in Nat /\ got' + junk' = k + 1
    BY <1>2, <2>2, AccessKeeps
  <2>4. pc = "data" => i' <= Asked + 1 /\ i' = 2 * (got' + junk')
    <3>1. SUFFICES ASSUME pc = "data"
                   PROVE  i' <= Asked + 1 /\ i' = 2 * (got' + junk')
      OBVIOUS
    <3>2. i = 2 * k /\ i < Asked
      BY <1>1, <1>6, <3>1 DEF IInv, LoopInv
    <3>3. QED
      BY <1>2, <1>4, <2>1, <2>3, <3>2
  <2>5. pc = "rest" => i' <= SectorBytes /\ i' = First(Asked) + 2 * (got' + junk')
    <3>1. SUFFICES ASSUME pc = "rest"
                   PROVE  i' <= SectorBytes /\ i' = First(Asked) + 2 * (got' + junk')
      OBVIOUS
    <3>2. i = First(Asked) + 2 * k /\ i < SectorBytes
      BY <1>1, <1>6, <3>1 DEF IInv, LoopInv
    <3>3. i % 2 = 0
      BY <1>4, <1>5, <3>2
    <3>4. i + 2 <= SectorBytes
      BY <1>4, <3>2, <3>3, RoomForWord
    <3>5. QED
      BY <1>4, <1>5, <2>1, <2>3, <3>2, <3>4
  <2>6. TypeOK'
    <3>1. i' \in Int /\ (i' <= SectorBytes \/ i' <= Asked + 1)
      BY <1>1, <1>4, <2>1, <2>4, <2>5
    <3>2. QED
      BY <1>1, <1>3, <2>1, <2>3, <3>1 DEF IInv, TypeOK
  <2>7. LoopInv'
    <3>1. pc = "rest" => i' >= Rounded(Asked) /\ i' <= Last(Asked)
      BY <1>1, <1>4, <1>5, <2>1, <2>5, SectorAssumption DEF IInv, LoopInv
    <3>2. QED
      BY <1>1, <1>3, <2>1, <2>4, <2>5, <3>1 DEF LoopInv
  <2>8. WholeSector'
    BY <1>1, <2>1 DEF WholeSector
  <2>9. QED
    BY <2>3, <2>6, <2>7, <2>8 DEF IInv
<1>7. CASE ~(i < bound)
  <2>1. /\ UNCHANGED <<phase, command, left, err, intrq, got, junk>>
        /\ IF pc = "data" THEN pc' = "rest" /\ i' = Rounded(Asked)
                          ELSE pc' = "return" /\ i' = i
    BY <1>1, <1>7 DEF Transfer, drives, Return
  <2>2. DataInv'
    BY <2>1 DEF IInv, DataInv
  <2>3. CASE pc = "data"
    <3>1. 2 * k >= Asked /\ (2 * k <= Asked + 1 \/ k = 0)
      BY <1>1, <1>2, <1>4, <1>7, <2>3 DEF IInv, LoopInv
    <3>2. i' = First(Asked) + 2 * k
      BY <1>2, <1>4, <2>1, <2>3, <3>1, RestStart
    <3>3. i' <= SectorBytes \/ i' <= Asked + 1
      <4>1. Asked >= 0 => i' \in {Asked, Asked + 1}
        BY <1>2, <2>1, <2>3, RoundedType
      <4>2. Asked < 0 => i' \in {Asked, Asked - 1}
        BY <1>2, <2>1, <2>3, RoundedType
      <4>3. QED
        BY <1>2, <4>1, <4>2
    <3>4. TypeOK'
      BY <1>1, <1>3, <1>5, <2>1, <2>3, <3>3 DEF IInv, TypeOK
    <3>5. LoopInv'
      BY <1>1, <1>3, <1>4, <1>5, <2>1, <2>3, <3>2 DEF LoopInv
    <3>6. WholeSector'
      BY <2>1, <2>3 DEF WholeSector
    <3>7. QED
      BY <2>2, <3>4, <3>5, <3>6 DEF IInv
  <2>4. CASE pc = "rest"
    <3>1. TypeOK'
      BY <1>1, <1>3, <2>1, <2>4 DEF IInv, TypeOK
    <3>2. LoopInv'
      BY <2>1, <2>4 DEF LoopInv
    <3>3. i = First(Asked) + 2 * k /\ i = Last(Asked)
      BY <1>1, <1>4, <1>5, <1>7, <2>4, SectorAssumption DEF IInv, LoopInv
    <3>4. k = Accesses(Asked)
      BY <1>4, <1>5, <3>3
    <3>5. WholeSector'
      BY <1>1, <1>2, <1>3, <2>1, <3>4 DEF WholeSector
    <3>6. QED
      BY <2>2, <3>1, <3>2, <3>5 DEF IInv
  <2>5. QED
    BY <1>1, <2>3, <2>4
<1>8. QED
  BY <1>6, <1>7

\* A drive lowers BSY.
LEMMA ReadyStep ==
  ASSUME IInv, NEW d \in Drive, DriveReady(d)
  PROVE  IInv'
<1>1. UNCHANGED <<kind, command, nIEN, todo, pc, i, got, junk>>
  BY DEF DriveReady
<1>2. intrq' \in SUBSET Channel
  BY DEF DriveReady, Interrupt, IInv, TypeOK, Drive
<1>3. /\ phase' \in [Drive -> {"idle", "busy", "in", "out"}]
      /\ left' \in [Drive -> 0 .. Words]
      /\ err' \in [Drive -> BOOLEAN]
  <2>1. /\ \E p \in {"idle", "in", "out"} : phase' = [phase EXCEPT ![d] = p]
        /\ left' = left \/ left' = [left EXCEPT ![d] = 0]
        /\ err' = err \/ \E e \in BOOLEAN : err' = [err EXCEPT ![d] = e]
    BY DEF DriveReady
  <2>2. left \in [Drive -> 0 .. Words] /\ 0 \in 0 .. Words
    BY WordsType DEF IInv, TypeOK
  <2>3. left' \in [Drive -> 0 .. Words]
    <3>1. CASE left' = left
      BY <2>2, <3>1
    <3>2. CASE left' = [left EXCEPT ![d] = 0]
      BY <2>2, <3>2
    <3>3. QED
      BY <2>1, <3>1, <3>2
  <2>4. QED
    BY <2>1, <2>3 DEF IInv, TypeOK
<1>4. DataInv'
  <2>1. CASE left[d] > 0 /\ left' = left
    BY <2>1 DEF DriveReady, IInv, TypeOK, DataInv
  <2>2. CASE /\ phase' = [phase EXCEPT ![d] = "idle"]
             /\ left' = [left EXCEPT ![d] = 0]
    BY <2>2 DEF IInv, TypeOK, DataInv
  <2>3. QED
    BY <2>1, <2>2 DEF DriveReady
<1>5. Asked' = Asked /\ call' = call
  BY <1>1 DEF Asked, call
<1>6. TypeOK'
  BY <1>1, <1>2, <1>3, <1>5 DEF IInv, TypeOK
<1>7. LoopInv' /\ WholeSector'
  BY <1>1, <1>5 DEF IInv, LoopInv, WholeSector
<1>8. QED
  BY <1>4, <1>6, <1>7 DEF IInv

LEMMA StepIInv == IInv /\ [Next]_vars => IInv'
<1> SUFFICES ASSUME IInv, [Next]_vars PROVE IInv'
  OBVIOUS
<1>1. CASE Driver
  BY <1>1, StartStep, PollStep, NextCallStep, TransferStep DEF Driver
<1>2. CASE \E d \in Drive : DriveReady(d)
  BY <1>2, ReadyStep
<1>3. CASE UNCHANGED vars
  <2>1. Asked' = Asked /\ call' = call
    BY <1>3 DEF vars, Asked, call
  <2>2. QED
    BY <1>3, <2>1 DEF vars, drives, IInv, TypeOK, DataInv, LoopInv, WholeSector
<1>4. CASE Finished
  BY <1>3, <1>4 DEF Finished
<1>5. QED
  BY <1>1, <1>2, <1>3, <1>4 DEF Next

\* IInv holds for every script, bus and sector size.
THEOREM Invariance == Spec => []IInv
BY InitIInv, StepIInv, PTL DEF Spec

-----------------------------------------------------------------------------

\* The driver and the drives keep their types, and the index of the transfer
\* loops stays within the sector or the bytes asked for.
THEOREM TypeCorrect == Spec => []TypeOK
BY Invariance, PTL DEF IInv

\* WholeSector: identify(), read28() and write28() make one access per word of
\* the sector, more only for a count that is negative or exceeds it, or none.
THEOREM SectorsAreWhole == Spec => []WholeSector
BY Invariance, PTL DEF IInv

-----------------------------------------------------------------------------
(* What the calls leave in the drives.                                     *)

\* Nothing is left of the last command the drive took, or it was a write.
Clean(d) == phase[d] = "idle" \/ command[d] = "WRITE"

\* What a drive of each kind can be doing, and after which command.
KindInv ==
  \A d \in Drive :
    /\ kind[d] = "none" => phase[d] = "idle"
    /\ phase[d] \in {"in", "out"} => kind[d] = "ata"
    /\ phase[d] = "in" => command[d] \in {"IDENTIFY", "READ"}
    /\ phase[d] = "out" => command[d] = "WRITE"
    /\ phase[d] # "idle" => ~err[d]
    /\ phase[d] = "busy" /\ command[d] = "FLUSH" => left[d] = 0

\* All drives but the one of the call in progress are clean.
OthersInv ==
  \A d \in Drive : todo = <<>> \/ d # Sel \/ pc \in {"start", "return"} => Clean(d)

\* The drive of a read or an identification has its command before it, at work
\* or refused.
PollInv ==
  (/\ todo # <<>> /\ pc \in {"first", "poll"}
   /\ call.op # "flush" /\ kind[Sel] # "none" /\ command[Sel] # "WRITE")
  => \/ phase[Sel] \in {"busy", "in"} /\ left[Sel] = Words
     \/ phase[Sel] = "idle" /\ err[Sel]

\* While it is read, got words have left it, and none is read in vain before
\* the last one has.
ReadInv ==
  (/\ todo # <<>> /\ pc \in {"data", "rest"}
   /\ call.op \in {"identify", "read28"} /\ kind[Sel] # "none"
   /\ command[Sel] # "WRITE")
  => /\ kind[Sel] = "ata"
     /\ IF got < Words THEN phase[Sel] = "in" /\ left[Sel] = Words - got /\ junk = 0
                       ELSE phase[Sel] = "idle" /\ got = Words

\* The other two calls: flush() and write28().
CallInv ==
  todo # <<>> =>
    /\ pc = "first" => call.op = "identify"
    /\ pc = "poll" => call.op # "write28"
    /\ pc \in {"data", "rest"} =>
         /\ call.op # "flush"
         /\ call.op = "write28" => Clean(Sel)
    /\ pc # "return" /\ pc # "start" /\ call.op = "identify" /\ kind[Sel] = "none" =>
         pc = "first" /\ \E u \in Unit : kind[<<Sel[1], u>>] # "none"
    /\ pc = "poll" /\ call.op = "flush" /\ kind[Sel] # "none" =>
         command[Sel] \in {"FLUSH", "WRITE"}

DInv == KindInv /\ OthersInv /\ PollInv /\ ReadInv /\ CallInv /\ SectorsWhole

-----------------------------------------------------------------------------

\* The same script means the same call.
LEMMA SameCall ==
  ASSUME todo' = todo
  PROVE  call' = call /\ Sel' = Sel /\ Asked' = Asked
BY DEF call, Sel, Asked

\* What the status register says of a drive that is there.
LEMMA StatusTells ==
  ASSUME NEW d, kind[d] # "none"
  PROVE  /\ "BSY" \in StatusOf(d) <=> phase[d] = "busy"
         /\ "ERR" \in StatusOf(d) <=> phase[d] # "busy" /\ err[d]
         /\ StatusOf(d) # {} /\ StatusOf(d) # Bits
<1>1. CASE phase[d] = "busy"
  BY <1>1 DEF StatusOf, Bits
<1>2. CASE phase[d] # "busy"
  <2>1. StatusOf(d) = {"RDY"} \cup (IF phase[d] \in {"in", "out"} THEN {"DRQ"} ELSE {})
                              \cup (IF err[d] THEN {"ERR"} ELSE {})
    BY <1>2 DEF StatusOf
  <2>2. "RDY" \in StatusOf(d) /\ "BSY" \notin StatusOf(d)
    BY <2>1
  <2>3. "BSY" \in Bits
    BY DEF Bits
  <2>4. QED
    BY <1>2, <2>1, <2>2, <2>3
<1>3. QED
  BY <1>1, <1>2

\* What it says of one that is not.
LEMMA StatusOfNone ==
  ASSUME NEW d, kind[d] = "none"
  PROVE  IF \A u \in Unit : kind[<<d[1], u>>] = "none"
           THEN StatusOf(d) = Bits /\ "BSY" \in StatusOf(d) /\ "ERR" \in StatusOf(d)
           ELSE StatusOf(d) = {}
BY DEF StatusOf, Bits

LEMMA InitDInv == Init => DInv
BY DEF Init, DInv, KindInv, OthersInv, PollInv, ReadInv, CallInv, SectorsWhole,
       Clean

\* A command written to a clean drive: it is taken, or the drive is not there,
\* or it is still at work on a write.
LEMMA TakeClean ==
  ASSUME IInv, KindInv, NEW d \in Drive, NEW c \in Command, Clean(d), Take(d, c)
  PROVE  /\ \/ UNCHANGED drives /\ (kind[d] = "none" \/ command[d] = "WRITE")
            \/ /\ kind[d] # "none" /\ phase'[d] = "busy" /\ command'[d] = c
               /\ ~err'[d] /\ left'[d] = IF c = "FLUSH" THEN 0 ELSE Words
         /\ \A x \in Drive \ {d} : /\ phase'[x] = phase[x] /\ left'[x] = left[x]
                                  /\ command'[x] = command[x] /\ err'[x] = err[x]
<1>1. CASE kind[d] = "none" \/ phase[d] = "busy"
  BY <1>1 DEF Take, drives, Clean
<1>2. CASE ~(kind[d] = "none" \/ phase[d] = "busy")
  <2>1. /\ phase' = [phase EXCEPT ![d] = "busy"]
        /\ command' = [command EXCEPT ![d] = c]
        /\ err' = [err EXCEPT ![d] = FALSE]
        /\ left' = [left EXCEPT ![d] = IF c = "FLUSH" THEN 0 ELSE Words]
    BY <1>2 DEF Take
  <2>2. QED
    BY <1>2, <2>1 DEF IInv, TypeOK
<1>3. QED
  BY <1>1, <1>2

\* A command keeps what the kinds of drives can do.
LEMMA TakeKindInv ==
  ASSUME IInv, KindInv, NEW d \in Drive, NEW c \in Command, Clean(d), Take(d, c),
         kind' = kind
  PROVE  KindInv'
<1> SUFFICES ASSUME NEW x \in Drive
             PROVE  /\ kind[x] = "none" => phase'[x] = "idle"
                    /\ phase'[x] \in {"in", "out"} => kind[x] = "ata"
                    /\ phase'[x] = "in" => command'[x] \in {"IDENTIFY", "READ"}
                    /\ phase'[x] = "out" => command'[x] = "WRITE"
                    /\ phase'[x] # "idle" => ~err'[x]
                    /\ phase'[x] = "busy" /\ command'[x] = "FLUSH" => left'[x] = 0
  BY DEF KindInv
<1>1. CASE x = d
  BY <1>1, TakeClean DEF KindInv, drives
<1>2. CASE x # d
  BY <1>2, TakeClean DEF KindInv
<1>3. QED
  BY <1>1, <1>2

\* The first step of a call.
LEMMA StartDInv ==
  ASSUME IInv, DInv, StartIdentify \/ StartRead \/ StartWrite \/ StartFlush
  PROVE  DInv'
<1>1. /\ todo # <<>> /\ pc = "start" /\ todo' = todo
      /\ UNCHANGED <<kind, i, got, junk>>
  BY DEF StartIdentify, StartRead, StartWrite, StartFlush, Running
<1>2. Sel \in Drive /\ call \in Call
  BY <1>1, CallType DEF IInv, TypeOK
<1>3. call' = call /\ Sel' = Sel /\ Asked' = Asked
  BY <1>1, SameCall
<1>4. got = 0 /\ junk = 0
  BY <1>1 DEF IInv, LoopInv, TypeOK
<1>5. \A d \in Drive : Clean(d)
  BY <1>1 DEF DInv, OthersInv
<1>6. CASE pc' = "return" /\ UNCHANGED drives
  <2>1. KindInv'
    BY <1>1, <1>6 DEF drives, DInv, KindInv
  <2>2. OthersInv'
    BY <1>5, <1>6 DEF drives, OthersInv, Clean
  <2>3. PollInv' /\ ReadInv' /\ CallInv'
    BY <1>6 DEF PollInv, ReadInv, CallInv
  <2>4. SectorsWhole'
    BY <1>1, <1>2, <1>3, <1>4, <1>5, <1>6 DEF drives, SectorsWhole, Clean
  <2>5. QED
    BY <2>1, <2>2, <2>3, <2>4 DEF DInv
<1>7. ASSUME NEW c \in Command, Take(Sel, c), pc' # "return", pc' # "start",
             \/ /\ call.op = "identify" /\ pc' = "first" /\ c = "IDENTIFY"
                /\ StatusOf(Sel) # Bits
             \/ call.op = "read28" /\ pc' = "poll" /\ c = "READ"
             \/ call.op = "write28" /\ pc' = "data" /\ c = "WRITE"
             \/ call.op = "flush" /\ pc' = "poll" /\ c = "FLUSH"
      PROVE  DInv'
  <2>1. KindInv'
    BY <1>1, <1>2, <1>5, <1>7, TakeKindInv DEF DInv
  <2>2. /\ \/ UNCHANGED drives /\ (kind[Sel] = "none" \/ command[Sel] = "WRITE")
           \/ /\ kind[Sel] # "none" /\ phase'[Sel] = "busy" /\ command'[Sel] = c
              /\ ~err'[Sel] /\ left'[Sel] = IF c = "FLUSH" THEN 0 ELSE Words
        /\ \A x \in Drive \ {Sel} : /\ phase'[x] = phase[x] /\ left'[x] = left[x]
                                   /\ command'[x] = command[x] /\ err'[x] = err[x]
    BY <1>2, <1>5, <1>7, TakeClean DEF DInv
  <2>3. OthersInv'
    BY <1>1, <1>3, <1>5, <1>7, <2>2 DEF OthersInv, Clean
  <2>4. PollInv'
    BY <1>1, <1>3, <1>7, <2>2 DEF PollInv, drives
  <2>5. ReadInv'
    BY <1>3, <1>7 DEF ReadInv
  <2>6. CallInv'
    <3>1. call.op = "identify" /\ kind[Sel] = "none" =>
            \E u \in Unit : kind[<<Sel[1], u>>] # "none"
      BY <1>7, StatusOfNone
    <3>2. c = "WRITE" => Clean(Sel)'
      BY <1>1, <1>3, <2>1, <2>2, <1>2 DEF Clean, KindInv, DInv, drives
    <3>3. c = "FLUSH" /\ kind[Sel] # "none" => command'[Sel] \in {"FLUSH", "WRITE"}
      BY <2>2 DEF drives
    <3>4. QED
      BY <1>1, <1>3, <1>7, <3>1, <3>2, <3>3 DEF CallInv
  <2>7. SectorsWhole'
    BY <1>7 DEF SectorsWhole
  <2>8. QED
    BY <2>1, <2>3, <2>4, <2>5, <2>6, <2>7 DEF DInv
<1>8. \/ pc' = "return" /\ UNCHANGED drives
      \/ \E c \in Command :
           /\ Take(Sel, c) /\ pc' # "return" /\ pc' # "start"
           /\ \/ /\ call.op = "identify" /\ pc' = "first" /\ c = "IDENTIFY"
                 /\ StatusOf(Sel) # Bits
              \/ call.op = "read28" /\ pc' = "poll" /\ c = "READ"
              \/ call.op = "write28" /\ pc' = "data" /\ c = "WRITE"
              \/ call.op = "flush" /\ pc' = "poll" /\ c = "FLUSH"
  <2>1. CASE StartIdentify
    BY <2>1 DEF StartIdentify, Running, Return, Command
  <2>2. CASE StartRead
    BY <2>2 DEF StartRead, Running, Return, Command
  <2>3. CASE StartWrite
    BY <2>3 DEF StartWrite, Running, Return, Command
  <2>4. CASE StartFlush
    BY <2>4 DEF StartFlush, Running, Command
  <2>5. QED
    BY <2>1, <2>2, <2>3, <2>4
<1>9. QED
  BY <1>6, <1>7, <1>8

\* The polls: the drive has the data ready, has refused, or is not there.
LEMMA PollDInv ==
  ASSUME IInv, DInv, Poll
  PROVE  DInv'
<1>1. /\ todo # <<>> /\ pc \in {"first", "poll"} /\ todo' = todo /\ call.op # "flush"
      /\ UNCHANGED <<kind, phase, command, left, err, i, got, junk>>
      /\ pc' = IF (pc = "first" /\ StatusOf(Sel) = {}) \/ "ERR" \in StatusOf(Sel)
                 THEN "return"
               ELSE IF "BSY" \in StatusOf(Sel) THEN "poll"
               ELSE "data"
  BY DEF Poll, drives
<1>2. Sel \in Drive /\ call \in Call
  BY <1>1, CallType DEF IInv, TypeOK
<1>3. call' = call /\ Sel' = Sel /\ Asked' = Asked
  BY <1>1, SameCall
<1>4. got = 0 /\ junk = 0
  BY <1>1 DEF IInv, LoopInv, TypeOK
<1>5. KindInv'
  BY <1>1 DEF DInv, KindInv
<1>6. call.op \in {"identify", "read28"}
  BY <1>1, <1>2 DEF DInv, CallInv, Call
<1>7. kind[Sel] # "none" =>
        /\ "BSY" \in StatusOf(Sel) <=> phase[Sel] = "busy"
        /\ "ERR" \in StatusOf(Sel) <=> phase[Sel] # "busy" /\ err[Sel]
        /\ StatusOf(Sel) # {}
  BY StatusTells
<1>8. pc' = "return" => Clean(Sel) /\ (kind[Sel] # "none" => phase[Sel] = "idle")
  <2>1. CASE kind[Sel] = "none"
    BY <1>2, <2>1 DEF DInv, KindInv, Clean
  <2>2. CASE kind[Sel] # "none"
    BY <1>1, <1>2, <1>7, <2>2 DEF DInv, KindInv, Clean
  <2>3. QED
    BY <2>1, <2>2
<1>9. OthersInv'
  <2>1. \A d \in Drive : Clean(d)' <=> Clean(d)
    BY <1>1 DEF Clean
  <2>2. \A d \in Drive \ {Sel} : Clean(d)
    BY <1>1 DEF DInv, OthersInv
  <2>3. pc' \in {"return", "poll", "data"}
    BY <1>1
  <2>4. QED
    BY <1>1, <1>3, <1>8, <2>1, <2>2, <2>3 DEF OthersInv
<1>10. PollInv'
  BY <1>1, <1>3 DEF DInv, PollInv
<1>11. ReadInv'
  <2> SUFFICES ASSUME pc' = "data", kind[Sel] # "none", command[Sel] # "WRITE"
               PROVE  /\ kind[Sel] = "ata" /\ phase[Sel] = "in"
                      /\ left[Sel] = Words - got /\ junk = 0 /\ got < Words
    BY <1>1, <1>3 DEF ReadInv
  <2>1. "BSY" \notin StatusOf(Sel) /\ "ERR" \notin StatusOf(Sel)
    BY <1>1
  <2>2. phase[Sel] # "busy" /\ ~err[Sel]
    BY <1>7, <2>1
  <2>3. phase[Sel] = "in" /\ left[Sel] = Words
    BY <1>1, <2>2 DEF DInv, PollInv
  <2>4. QED
    BY <1>2, <1>4, <2>3, WordsType DEF DInv, KindInv
<1>12. CallInv'
  <2>1. kind[Sel] = "none" /\ call.op = "identify" => pc' = "return"
    BY <1>1, StatusOfNone DEF DInv, CallInv
  <2>2. pc' # "first"
    BY <1>1
  <2>3. QED
    BY <1>1, <1>3, <1>6, <2>1, <2>2 DEF CallInv
<1>13. SectorsWhole'
  BY <1>1, <1>3, <1>4, <1>8 DEF SectorsWhole
<1>14. QED
  BY <1>5, <1>9, <1>10, <1>11, <1>12, <1>13 DEF DInv

LEMMA PollFlushDInv ==
  ASSUME IInv, DInv, PollFlush
  PROVE  DInv'
<1>1. /\ todo # <<>> /\ pc = "poll" /\ todo' = todo /\ call.op = "flush"
      /\ UNCHANGED <<kind, phase, command, left, err, i, got, junk>>
      /\ pc' = IF "BSY" \in StatusOf(Sel) THEN "poll" ELSE "return"
  BY DEF PollFlush, Running, drives
<1>2. Sel \in Drive
  BY <1>1, CallType DEF IInv, TypeOK
<1>3. call' = call /\ Sel' = Sel /\ Asked' = Asked
  BY <1>1, SameCall
<1>4. KindInv'
  BY <1>1 DEF DInv, KindInv
<1>5. pc' = "return" => Clean(Sel)
  <2>1. CASE kind[Sel] = "none"
    BY <1>2, <2>1 DEF DInv, KindInv, Clean
  <2>2. CASE kind[Sel] # "none"
    <3>1. "BSY" \in StatusOf(Sel) <=> phase[Sel] = "busy"
      BY <2>2, StatusTells
    <3>2. phase[Sel] \in {"idle", "busy", "in", "out"}
      BY <1>2 DEF IInv, TypeOK
    <3>3. command[Sel] \in {"FLUSH", "WRITE"}
      BY <1>1, <2>2 DEF DInv, CallInv
    <3>4. QED
      BY <1>1, <1>2, <3>1, <3>2, <3>3 DEF DInv, KindInv, Clean
  <2>3. QED
    BY <2>1, <2>2
<1>6. OthersInv'
  BY <1>1, <1>3, <1>5 DEF DInv, OthersInv, Clean
<1>7. PollInv' /\ ReadInv' /\ SectorsWhole'
  BY <1>1, <1>3 DEF PollInv, ReadInv, SectorsWhole
<1>8. CallInv'
  BY <1>1, <1>3 DEF DInv, CallInv
<1>9. QED
  BY <1>4, <1>6, <1>7, <1>8 DEF DInv

LEMMA NextCallDInv ==
  ASSUME IInv, DInv, NextCall
  PROVE  DInv'
<1>1. KindInv' /\ OthersInv'
  BY DEF NextCall, drives, DInv, KindInv, OthersInv, Clean
<1>2. PollInv' /\ ReadInv' /\ CallInv' /\ SectorsWhole'
  BY DEF NextCall, PollInv, ReadInv, CallInv, SectorsWhole
<1>3. QED
  BY <1>1, <1>2 DEF DInv

\* One access to the data port, as the drive of the call sees it.
LEMMA AccessDrive ==
  ASSUME IInv, Sel \in Drive, NEW dir \in {"in", "out"}, Access(dir)
  PROVE  /\ command' = command /\ err' = err
         /\ \/ /\ ~(kind[Sel] # "none" /\ phase[Sel] = dir)
               /\ phase' = phase /\ left' = left
               /\ got' = got /\ junk' = junk + 1
            \/ /\ kind[Sel] # "none" /\ phase[Sel] = dir
               /\ left'[Sel] = left[Sel] - 1
               /\ phase'[Sel] = IF left[Sel] > 1 THEN dir
                                ELSE IF dir = "out" THEN "busy" ELSE "idle"
               /\ got' = got + 1 /\ junk' = junk
               /\ \A x \in Drive \ {Sel} : phase'[x] = phase[x] /\ left'[x] = left[x]
<1>1. CASE ~(kind[Sel] # "none" /\ phase[Sel] = dir)
  BY <1>1 DEF Access, drives
<1>2. CASE kind[Sel] # "none" /\ phase[Sel] = dir
  <2>1. /\ left' = [left EXCEPT ![Sel] = left[Sel] - 1]
        /\ phase' = [phase EXCEPT ![Sel] = IF left[Sel] > 1 THEN dir
                                         ELSE IF dir = "out" THEN "busy" ELSE "idle"]
        /\ got' = got + 1 /\ junk' = junk
        /\ UNCHANGED <<command, err>>
    BY <1>2 DEF Access
  <2>2. QED
    BY <1>2, <2>1 DEF IInv, TypeOK
<1>3. QED
  BY <1>1, <1>2

\* The loops over the data port.
LEMMA TransferDInv ==
  ASSUME IInv, DInv, Transfer
  PROVE  DInv'
<1>1. /\ todo # <<>> /\ pc \in {"data", "rest"} /\ todo' = todo /\ kind' = kind
  BY DEF Transfer
<1>2. Sel \in Drive /\ call \in Call /\ Asked \in Int
  BY <1>1, CallType DEF IInv, TypeOK
<1>3. call' = call /\ Sel' = Sel /\ Asked' = Asked
  BY <1>1, SameCall
<1>4. got \in Nat /\ junk \in Nat /\ Words \in Nat \ {0}
  BY WordsType DEF IInv, TypeOK
<1>5. call.op \in {"identify", "read28", "write28"}
  BY <1>1, <1>2 DEF DInv, CallInv, Call
<1>6. CASE i < (IF pc = "data" THEN Asked ELSE SectorBytes)
  <2> DEFINE dir == IF call.op = "write28" THEN "out" ELSE "in"
  <2>1. Access(dir) /\ pc' = pc
    BY <1>1, <1>6 DEF Transfer
  <2>2. /\ command' = command /\ err' = err
        /\ \/ /\ ~(kind[Sel] # "none" /\ phase[Sel] = dir)
              /\ phase' = phase /\ left' = left
              /\ got' = got /\ junk' = junk + 1
           \/ /\ kind[Sel] # "none" /\ phase[Sel] = dir
              /\ left'[Sel] = left[Sel] - 1
              /\ phase'[Sel] = IF left[Sel] > 1 THEN dir
                               ELSE IF dir = "out" THEN "busy" ELSE "idle"
              /\ got' = got + 1 /\ junk' = junk
              /\ \A x \in Drive \ {Sel} : phase'[x] = phase[x] /\ left'[x] = left[x]
    BY <1>2, <2>1, AccessDrive
  <2>3. dir \in {"in", "out"} /\ (dir = "out" <=> call.op = "write28")
    OBVIOUS
  <2> HIDE DEF dir
  <2>4. KindInv'
    <3> SUFFICES ASSUME NEW x \in Drive
                 PROVE  /\ kind[x] = "none" => phase'[x] = "idle"
                        /\ phase'[x] \in {"in", "out"} => kind[x] = "ata"
                        /\ phase'[x] = "in" => command[x] \in {"IDENTIFY", "READ"}
                        /\ phase'[x] = "out" => command[x] = "WRITE"
                        /\ phase'[x] # "idle" => ~err[x]
                        /\ phase'[x] = "busy" /\ command[x] = "FLUSH" => left'[x] = 0
      BY <1>1, <2>2 DEF KindInv
    <3>1. CASE phase'[x] = phase[x] /\ left'[x] = left[x]
      BY <3>1 DEF DInv, KindInv
    <3>2. CASE ~(phase'[x] = phase[x] /\ left'[x] = left[x])
      <4>1. /\ x = Sel /\ kind[x] # "none" /\ phase[x] = dir
            /\ phase'[x] = dir \/ phase'[x] = IF dir = "out" THEN "busy" ELSE "idle"
        BY <2>2, <3>2
      <4>2. QED
        BY <2>3, <4>1 DEF DInv, KindInv
    <3>3. QED
      BY <3>1, <3>2
  <2>5. call.op = "write28" => Clean(Sel)'
    <3>1. SUFFICES ASSUME call.op = "write28" PROVE Clean(Sel)'
      OBVIOUS
    <3>2. Clean(Sel)
      BY <1>1, <3>1 DEF DInv, CallInv
    <3>3. CASE command[Sel] = "WRITE"
      BY <1>3, <2>2, <3>3 DEF Clean
    <3>4. CASE phase[Sel] = "idle"
      BY <1>3, <2>2, <2>3, <3>4 DEF Clean
    <3>5. QED
      BY <3>2, <3>3, <3>4 DEF Clean
  <2>6. OthersInv'
    BY <1>1, <1>3, <2>1, <2>2 DEF DInv, OthersInv, Clean
  <2>7. PollInv' /\ SectorsWhole'
    BY <1>1, <2>1 DEF PollInv, SectorsWhole
  <2>8. ReadInv'
    <3> SUFFICES ASSUME call.op \in {"identify", "read28"}, kind[Sel] # "none",
                        command[Sel] # "WRITE"
                 PROVE  /\ kind[Sel] = "ata"
                        /\ IF got' < Words
                             THEN phase'[Sel] = "in" /\ left'[Sel] = Words - got' /\ junk' = 0
                             ELSE phase'[Sel] = "idle" /\ got' = Words
      BY <1>1, <1>3, <2>1, <2>2 DEF ReadInv
    <3>1. /\ kind[Sel] = "ata"
          /\ IF got < Words THEN phase[Sel] = "in" /\ left[Sel] = Words - got /\ junk = 0
                            ELSE phase[Sel] = "idle" /\ got = Words
      BY <1>1 DEF DInv, ReadInv
    <3>2. dir = "in"
      BY <2>3
    <3>3. CASE got < Words
      BY <1>4, <2>2, <3>1, <3>2, <3>3
    <3>4. CASE ~(got < Words)
      BY <1>4, <2>2, <3>1, <3>2, <3>4
    <3>5. QED
      BY <3>3, <3>4
  <2>9. CallInv'
    BY <1>1, <1>3, <1>5, <2>1, <2>5 DEF DInv, CallInv
  <2>10. QED
    BY <2>4, <2>6, <2>7, <2>8, <2>9 DEF DInv
<1>7. CASE ~(i < (IF pc = "data" THEN Asked ELSE SectorBytes))
  <2>1. /\ UNCHANGED <<phase, command, left, err, got, junk>>
        /\ IF pc = "data" THEN pc' = "rest" ELSE pc' = "return" /\ i' = i
    BY <1>1, <1>7 DEF Transfer, drives, Return
  <2>2. KindInv'
    BY <1>1, <2>1 DEF DInv, KindInv
  <2>3. CASE pc = "data"
    <3>1. pc' = "rest"
      BY <2>1, <2>3
    <3>2. OthersInv' /\ PollInv' /\ ReadInv' /\ CallInv' /\ SectorsWhole'
      BY <1>1, <1>3, <2>1, <2>3, <3>1
         DEF DInv, OthersInv, Clean, PollInv, ReadInv, CallInv, SectorsWhole
    <3>3. QED
      BY <2>2, <3>2 DEF DInv
  <2>4. CASE pc = "rest"
    <3>1. pc' = "return"
      BY <2>1, <2>4
    <3>2. got + junk >= Words
      <4>1. /\ i = First(Asked) + 2 * (got + junk) /\ i >= SectorBytes
            /\ First(Asked) \in Int /\ First(Asked) <= 0
        BY <1>1, <1>2, <1>7, <2>4, EndsType, SectorAssumption DEF IInv, LoopInv, TypeOK
      <4>2. 2 * (got + junk) >= SectorBytes
        BY <1>4, <4>1, SectorAssumption
      <4>3. QED
        BY <1>4, <4>2, SectorAssumption DEF Words
    <3>3. ASSUME call.op \in {"identify", "read28"}, kind[Sel] # "none",
                 command[Sel] # "WRITE"
          PROVE  /\ kind[Sel] = "ata" /\ phase[Sel] = "idle" /\ got = Words
      BY <1>1, <1>4, <2>4, <3>2, <3>3 DEF DInv, ReadInv
    <3>4. Asked \in 0 .. SectorBytes => got + junk <= Words
      <4> SUFFICES ASSUME Asked \in 0 .. SectorBytes PROVE got + junk <= Words
        OBVIOUS
      <4>1. First(Asked) = 0 /\ Last(Asked) = SectorBytes
        BY SectorAssumption DEF First, Last, Rounded
      <4>2. 2 * (got + junk) <= SectorBytes
        BY <1>1, <1>4, <2>4, <4>1 DEF IInv, LoopInv
      <4>3. QED
        BY <1>4, <4>2, SectorAssumption DEF Words
    <3>5. call.op = "identify" => Asked \in 0 .. SectorBytes
      BY SectorAssumption DEF Asked
    <3>6. Clean(Sel)
      <4>1. CASE call.op = "write28"
        BY <1>1, <4>1 DEF DInv, CallInv
      <4>2. CASE kind[Sel] = "none"
        BY <1>2, <4>2 DEF DInv, KindInv, Clean
      <4>3. CASE kind[Sel] # "none" /\ call.op # "write28"
        BY <1>5, <3>3, <4>3 DEF Clean
      <4>4. QED
        BY <4>1, <4>2, <4>3
    <3>7. OthersInv'
      BY <1>1, <1>3, <2>1, <3>6 DEF DInv, OthersInv, Clean
    <3>8. PollInv' /\ ReadInv' /\ CallInv'
      BY <3>1 DEF PollInv, ReadInv, CallInv
    <3>9. SectorsWhole'
      <4> SUFFICES ASSUME call.op \in {"identify", "read28"}, command[Sel] # "WRITE"
                   PROVE  /\ kind[Sel] = "ata" =>
                              /\ phase[Sel] = "idle" /\ got \in {0, Words}
                              /\ junk = 0 \/ Asked \notin 0 .. SectorBytes
                          /\ call.op = "identify" => junk = 0
        BY <1>1, <1>3, <2>1 DEF SectorsWhole
      <4>1. CASE kind[Sel] = "none"
        <5>1. call.op # "identify"
          BY <1>1, <4>1 DEF DInv, CallInv
        <5>2. QED
          BY <4>1, <5>1
      <4>2. CASE kind[Sel] # "none"
        <5>1. phase[Sel] = "idle" /\ got = Words
          BY <3>3, <4>2
        <5>2. Asked \in 0 .. SectorBytes => junk = 0
          BY <1>4, <3>4, <5>1
        <5>3. QED
          BY <3>5, <5>1, <5>2
      <4>3. QED
        BY <4>1, <4>2
    <3>10. QED
      BY <2>2, <3>7, <3>8, <3>9 DEF DInv
  <2>5. QED
    BY <1>1, <2>3, <2>4
<1>8. QED
  BY <1>6, <1>7

\* A drive lowers BSY.
LEMMA ReadyDInv ==
  ASSUME IInv, DInv, NEW d \in Drive, DriveReady(d)
  PROVE  DInv'
<1>1. /\ phase[d] = "busy"
      /\ UNCHANGED <<kind, command, todo, pc, i, got, junk>>
  BY DEF DriveReady
<1>2. call' = call /\ Sel' = Sel /\ Asked' = Asked
  BY <1>1, SameCall
<1>3. /\ \/ /\ kind[d] = "ata" /\ left[d] > 0 /\ left'[d] = left[d] /\ err'[d] = err[d]
            /\ phase'[d] = IF command[d] = "WRITE" THEN "out" ELSE "in"
         \/ /\ phase'[d] = "idle" /\ (left[d] > 0 => err'[d])
      /\ \A x \in Drive \ {d} : /\ phase'[x] = phase[x] /\ left'[x] = left[x]
                               /\ err'[x] = err[x]
  BY DEF DriveReady, IInv, TypeOK
<1>4. KindInv'
  <2> SUFFICES ASSUME NEW x \in Drive
               PROVE  /\ kind[x] = "none" => phase'[x] = "idle"
                      /\ phase'[x] \in {"in", "out"} => kind[x] = "ata"
                      /\ phase'[x] = "in" => command[x] \in {"IDENTIFY", "READ"}
                      /\ phase'[x] = "out" => command[x] = "WRITE"
                      /\ phase'[x] # "idle" => ~err'[x]
                      /\ phase'[x] = "busy" /\ command[x] = "FLUSH" => left'[x] = 0
    BY <1>1 DEF KindInv
  <2>1. CASE x # d
    BY <1>3, <2>1 DEF DInv, KindInv
  <2>2. CASE x = d
    <3>1. command[d] \in {"IDENTIFY", "READ", "WRITE", "FLUSH"}
      BY DEF IInv, TypeOK, Command
    <3>2. QED
      BY <1>1, <1>3, <2>2, <3>1 DEF DInv, KindInv
  <2>3. QED
    BY <2>1, <2>2
<1>5. \A x \in Drive : Clean(x) => Clean(x)'
  BY <1>1, <1>3 DEF Clean
<1>6. OthersInv'
  BY <1>1, <1>2, <1>5 DEF DInv, OthersInv
<1>7. todo # <<>> => Sel \in Drive
  BY CallType DEF IInv, TypeOK
<1>8. PollInv'
  <2> SUFFICES ASSUME todo # <<>>, pc \in {"first", "poll"}, call.op # "flush",
                      kind[Sel] # "none", command[Sel] # "WRITE"
               PROVE  \/ phase'[Sel] \in {"busy", "in"} /\ left'[Sel] = Words
                      \/ phase'[Sel] = "idle" /\ err'[Sel]
    BY <1>1, <1>2 DEF PollInv
  <2>1. \/ phase[Sel] \in {"busy", "in"} /\ left[Sel] = Words
        \/ phase[Sel] = "idle" /\ err[Sel]
    BY DEF DInv, PollInv
  <2>2. CASE Sel = d
    BY <1>1, <1>3, <2>1, <2>2, WordsType
  <2>3. CASE Sel # d
    BY <1>3, <1>7, <2>1, <2>3
  <2>4. QED
    BY <2>2, <2>3
<1>9. ReadInv'
  <2> SUFFICES ASSUME todo # <<>>, pc \in {"data", "rest"},
                      call.op \in {"identify", "read28"}, kind[Sel] # "none",
                      command[Sel] # "WRITE"
               PROVE  /\ kind[Sel] = "ata"
                      /\ IF got < Words
                           THEN phase'[Sel] = "in" /\ left'[Sel] = Words - got /\ junk = 0
                           ELSE phase'[Sel] = "idle" /\ got = Words
    BY <1>1, <1>2 DEF ReadInv
  <2>1. /\ kind[Sel] = "ata"
        /\ IF got < Words THEN phase[Sel] = "in" /\ left[Sel] = Words - got /\ junk = 0
                          ELSE phase[Sel] = "idle" /\ got = Words
    BY DEF DInv, ReadInv
  <2>2. Sel # d
    BY <1>1, <2>1
  <2>3. QED
    BY <1>3, <1>7, <2>1, <2>2
<1>10. CallInv'
  <2>1. todo # <<>> /\ call.op = "write28" /\ pc \in {"data", "rest"} => Clean(Sel)'
    BY <1>2, <1>5, <1>7 DEF DInv, CallInv
  <2>2. QED
    BY <1>1, <1>2, <2>1 DEF DInv, CallInv
<1>11. SectorsWhole'
  <2> SUFFICES ASSUME todo # <<>>, pc = "return", call.op \in {"identify", "read28"},
                      command[Sel] # "WRITE"
               PROVE  /\ kind[Sel] = "ata" =>
                          /\ phase'[Sel] = "idle" /\ got \in {0, Words}
                          /\ junk = 0 \/ Asked \notin 0 .. SectorBytes
                      /\ call.op = "identify" => junk = 0
    BY <1>1, <1>2 DEF SectorsWhole
  <2>1. Clean(Sel)
    BY <1>7 DEF DInv, OthersInv
  <2>2. phase[Sel] = "idle" /\ Sel # d
    BY <1>1, <2>1 DEF Clean
  <2>3. phase'[Sel] = "idle"
    BY <1>3, <1>7, <2>2
  <2>4. QED
    BY <2>3 DEF DInv, SectorsWhole
<1>12. QED
  BY <1>4, <1>6, <1>8, <1>9, <1>10, <1>11 DEF DInv

LEMMA StepDInv == IInv /\ DInv /\ [Next]_vars => DInv'
<1> SUFFICES ASSUME IInv, DInv, [Next]_vars PROVE DInv'
  OBVIOUS
<1>1. CASE Driver
  BY <1>1, StartDInv, PollDInv, PollFlushDInv, TransferDInv, NextCallDInv DEF Driver
<1>2. CASE \E d \in Drive : DriveReady(d)
  BY <1>2, ReadyDInv
<1>3. CASE UNCHANGED vars
  <2>1. call' = call /\ Sel' = Sel /\ Asked' = Asked
    BY <1>3, SameCall DEF vars
  <2>2. QED
    BY <1>3, <2>1 DEF vars, drives, DInv, KindInv, OthersInv, Clean, PollInv,
       ReadInv, CallInv, SectorsWhole
<1>4. QED
  BY <1>1, <1>2, <1>3 DEF Next, Finished

\* DInv holds for every script, bus and sector size.
THEOREM DrivesInvariance == Spec => []DInv
<1>1. IInv /\ DInv /\ [Next]_vars => DInv'
  BY StepDInv
<1>2. QED
  BY InitDInv, <1>1, Invariance, PTL DEF Spec

\* SectorsWhole: whatever calls came before, identify() and read28() take the
\* whole sector of a disk that was not writing, and leave it idle.
THEOREM ReadsLeaveNothing == Spec => []SectorsWhole
<1>1. DInv => SectorsWhole
  BY DEF DInv
<1>2. QED
  BY <1>1, DrivesInvariance, PTL

\* CommandsToIdle: only after write28() can a command meet a drive at work.
THEOREM CommandsMeetIdle == Spec => CommandsToIdle
<1> DEFINE A == pc = "start" /\ pc' # "start" =>
                  phase[Sel] = "idle" \/ command[Sel] = "WRITE"
<1>1. IInv /\ DInv /\ [Next]_vars => [A]_vars
  <2> SUFFICES ASSUME IInv, DInv, [Next]_vars, pc = "start", pc' # "start"
               PROVE  phase[Sel] = "idle" \/ command[Sel] = "WRITE"
    OBVIOUS
  <2>1. todo # <<>>
    BY DEF Next, Driver, StartIdentify, StartRead, StartWrite, StartFlush, Running,
       Poll, PollFlush, Transfer, NextCall, DriveReady, Finished, vars
  <2>2. Sel \in Drive
    BY <2>1, CallType DEF IInv, TypeOK
  <2>3. QED
    BY <2>2 DEF DInv, OthersInv, Clean
<1>2. Spec => [][A]_vars
  BY <1>1, Invariance, DrivesInvariance, PTL DEF Spec
<1>3. QED
  BY <1>2 DEF CommandsToIdle
-----------------------------------------------------------------------------
(* Calls on an empty socket.                                               *)

\* No word moves with DRQ, and the data loops are reached only by a read that
\* did not see the floating bus, or by a write.
AbsentInv ==
  todo # <<>> /\ kind[Sel] = "none" =>
    /\ got = 0
    /\ pc = "poll" => ~Refused
    /\ pc \in {"data", "rest"} =>
         /\ call.op \in {"read28", "write28"} /\ ~Refused
         /\ call.op = "read28" => ~EmptyChannel

LEMMA SameSocket ==
  ASSUME todo' = todo, kind' = kind
  PROVE  /\ call' = call /\ Sel' = Sel /\ Asked' = Asked
         /\ Refused' = Refused /\ EmptyChannel' = EmptyChannel
BY DEF call, Sel, Asked, Refused, EmptyChannel

\* The loops end after as many accesses as the count costs.
LEMMA LoopsEnd ==
  ASSUME IInv, Transfer, pc' = "return"
  PROVE  got' + junk' = Accesses(Asked)
<1>1. /\ todo # <<>> /\ pc = "rest" /\ ~(i < SectorBytes)
      /\ UNCHANGED <<got, junk>>
  BY DEF Transfer, Return, drives
<1>2. Asked \in Int
  BY <1>1, CallType DEF IInv, TypeOK
<1>3. /\ i = First(Asked) + 2 * (got + junk)
      /\ i >= Rounded(Asked) /\ i <= Last(Asked)
  BY <1>1 DEF IInv, LoopInv
<1>4. got \in Nat /\ junk \in Nat /\ i \in Int
  BY DEF IInv, TypeOK
<1>5. /\ First(Asked) \in Int /\ Last(Asked) \in {SectorBytes, Rounded(Asked)}
      /\ Rounded(Asked) \in Int
      /\ Accesses(Asked) = (Last(Asked) - First(Asked)) \div 2
  BY <1>2, EndsType, RoundedType
<1>6. i = Last(Asked)
  BY <1>1, <1>3, <1>4, <1>5, SectorAssumption
<1>7. QED
  BY <1>1, <1>3, <1>4, <1>5, <1>6

LEMMA AbsentStep ==
  ASSUME IInv, DInv, AbsentInv, AbsentDrive, [Next]_vars
  PROVE  AbsentInv' /\ AbsentDrive'
<1>1. CASE StartIdentify \/ StartRead \/ StartWrite \/ StartFlush
  <2>1. /\ todo # <<>> /\ pc = "start" /\ UNCHANGED <<todo, kind, got, junk>>
    BY <1>1 DEF StartIdentify, StartRead, StartWrite, StartFlush, Running
  <2>2. got = 0 /\ junk = 0
    BY <2>1 DEF IInv, LoopInv, TypeOK
  <2>3. \/ call.op = "identify" /\ pc' \in {"first", "return"}
        \/ /\ call.op \in {"read28", "write28"}
           /\ IF Refused THEN pc' = "return"
              ELSE pc' = IF call.op = "read28" THEN "poll" ELSE "data"
        \/ call.op = "flush" /\ pc' = "poll"
    BY <1>1 DEF StartIdentify, StartRead, StartWrite, StartFlush, Running, Return,
       Refused
  <2>4. ~(call.op = "flush" /\ Refused)
    BY DEF Refused
  <2>5. QED
    BY <2>1, <2>2, <2>3, <2>4, SameSocket DEF AbsentInv, AbsentDrive
<1>2. CASE Poll \/ PollFlush
  <2>1. /\ todo # <<>> /\ pc \in {"first", "poll"}
        /\ UNCHANGED <<todo, kind, got, junk>>
    BY <1>2 DEF Poll, PollFlush, Running
  <2>2. got = 0 /\ junk = 0
    BY <2>1 DEF IInv, LoopInv, TypeOK
  <2>3. /\ call \in Call
        /\ pc = "poll" => call.op # "write28"
        /\ pc = "first" => call.op = "identify"
    BY <2>1, CallType DEF DInv, CallInv, IInv, TypeOK
  <2> SUFFICES ASSUME kind[Sel] = "none" PROVE AbsentInv' /\ AbsentDrive'
    BY <2>1, SameSocket DEF AbsentInv, AbsentDrive
  <2>4. /\ EmptyChannel => StatusOf(Sel) = Bits /\ "ERR" \in StatusOf(Sel)
        /\ ~EmptyChannel => StatusOf(Sel) = {}
    BY StatusOfNone DEF EmptyChannel
  <2>5. CASE Poll
    <3>1. call.op \in {"identify", "read28"}
      BY <2>3, <2>1, <2>5 DEF Poll, Call
    <3>2. CASE EmptyChannel
      <4>1. pc' = "return"
        BY <2>4, <2>5, <3>2 DEF Poll
      <4>2. QED
        BY <2>1, <2>2, <3>1, <3>2, <4>1, SameSocket DEF AbsentInv, AbsentDrive
    <3>3. CASE ~EmptyChannel
      <4>1. pc' = IF pc = "first" THEN "return" ELSE "data"
        BY <2>4, <2>5, <3>3 DEF Poll
      <4>2. pc = "poll" => call.op = "read28" /\ ~Refused
        BY <2>1, <3>1 DEF DInv, CallInv, AbsentInv
      <4>3. pc = "first" => call.op = "identify"
        BY <2>3
      <4>4. QED
        BY <2>1, <2>2, <3>3, <4>1, <4>2, <4>3, SameSocket DEF AbsentInv, AbsentDrive
    <3>4. QED
      BY <3>2, <3>3
  <2>6. CASE PollFlush
    <3>1. call.op = "flush" /\ pc' \in {"poll", "return"}
      BY <2>6 DEF PollFlush, Running
    <3>2. QED
      BY <2>1, <2>2, <3>1, SameSocket DEF AbsentInv, AbsentDrive, Refused
  <2>7. QED
    BY <1>2, <2>5, <2>6
<1>3. CASE Transfer
  <2>1. /\ todo # <<>> /\ pc \in {"data", "rest"} /\ UNCHANGED <<todo, kind>>
        /\ pc' \in {"data", "rest", "return"}
    BY <1>3 DEF Transfer, Return
  <2> SUFFICES ASSUME kind[Sel] = "none" PROVE AbsentInv' /\ AbsentDrive'
    BY <2>1, SameSocket DEF AbsentInv, AbsentDrive
  <2>2. got' = 0
    BY <1>3, <2>1 DEF Transfer, Access, AbsentInv
  <2>3. AbsentInv'
    BY <2>1, <2>2, SameSocket DEF AbsentInv
  <2>4. ASSUME pc' = "return"
        PROVE  junk' = Accesses(Asked)
    <3>1. junk' \in Nat
      BY <1>3, StepIInv DEF IInv, TypeOK
    <3>2. got' + junk' = Accesses(Asked)
      BY <1>3, <2>4, LoopsEnd
    <3>3. QED
      BY <2>2, <3>1, <3>2
  <2>5. AbsentDrive'
    BY <2>1, <2>2, <2>4, SameSocket DEF AbsentInv, AbsentDrive
  <2>6. QED
    BY <2>3, <2>5
<1>4. CASE NextCall
  BY <1>4 DEF NextCall, AbsentInv, AbsentDrive
<1>5. CASE \/ \E d \in Drive : DriveReady(d)
           \/ Finished \/ UNCHANGED vars
  <2>1. UNCHANGED <<todo, kind, pc, got, junk>>
    BY <1>5 DEF DriveReady, Finished, vars
  <2>2. QED
    BY <2>1, SameSocket DEF AbsentInv, AbsentDrive
<1>6. QED
  BY <1>1, <1>2, <1>3, <1>4, <1>5 DEF Next, Driver

\* AbsentDrive: what every call does where there is no drive, for every bus,
\* script and sector size.
THEOREM AbsentDriveUnnoticed == Spec => []AbsentDrive
<1>1. Init => AbsentInv /\ AbsentDrive
  BY DEF Init, AbsentInv, AbsentDrive
<1>2. IInv /\ DInv /\ AbsentInv /\ AbsentDrive /\ [Next]_vars => (AbsentInv /\ AbsentDrive)'
  BY AbsentStep
<1>3. QED
  BY <1>1, <1>2, Invariance, DrivesInvariance, PTL DEF Spec
=============================================================================
