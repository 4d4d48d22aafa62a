-------------------------------- MODULE Ata ---------------------------------
(***************************************************************************)
(* The ATA driver (ata.cpp) polling two IDE channels.  A script of calls,  *)
(* such as the one in kernelMain, runs against drives that take their time *)
(* over every command.  A status byte is the set of its bits the driver    *)
(* tests; 0 is {}, and 0xFF, what a bus without drives reads, all of them. *)
(***************************************************************************)
EXTENDS Integers, Sequences

CONSTANTS
  SectorBytes,   \* 512 in the source
  Scripts,       \* the possible sequences of calls
  Buses          \* the possible populations of the two channels

Channel == {"primary", "secondary"}
Unit    == {"master", "slave"}
Drive   == Channel \X Unit
Command == {"IDENTIFY", "READ", "WRITE", "FLUSH"}
LastLBA == 268435455             \* 0x0FFFFFFF
Words   == SectorBytes \div 2

Call == [op : {"identify", "read28", "write28", "flush"},
         drive : Drive, sector : Nat, count : Int]

ASSUME SectorAssumption == SectorBytes \in Nat \ {0} /\ SectorBytes % 2 = 0
\* read28() takes a signed count, write28() an unsigned one.
ASSUME ScriptsAssumption ==
  Scripts \subseteq Seq({c \in Call : c.op = "read28" \/ c.count >= 0})
ASSUME BusesAssumption == Buses \subseteq [Drive -> {"ata", "atapi", "none"}]

VARIABLES
  kind,      \* what is attached where
  phase,     \* of each drive: what it is doing
  command,   \* the last command it took
  left,      \* words left in its data phase
  err,       \* its ERR bit
  nIEN,      \* of each channel: INTRQ switched off in the control register
  intrq,     \* channels that have asserted INTRQ since identify programmed it
  todo,      \* calls to make, the first one in progress
  pc, i,     \* the point reached in that call, and its loop variable
  got, junk  \* words moved in this call with DRQ, and without

drives == <<phase, command, left, err, intrq>>
vars   == <<kind, drives, nIEN, todo, pc, i, got, junk>>

call == Head(todo)
Sel  == call.drive

Init ==
  /\ kind \in Buses
  /\ phase = [d \in Drive |-> "idle"]
  /\ command = [d \in Drive |-> "IDENTIFY"]
  /\ left = [d \in Drive |-> 0]
  /\ err = [d \in Drive |-> FALSE]
  /\ nIEN \in [Channel -> BOOLEAN]
  /\ intrq = {}
  /\ todo \in Scripts
  /\ pc = "start"
  /\ i = 0 /\ got = 0 /\ junk = 0

-----------------------------------------------------------------------------
(* The drives.                                                             *)

Bits == {"BSY", "RDY", "DRQ", "ERR"}

\* The status register as read through the selected drive.  A drive answers
\* for its missing partner with 0.
StatusOf(d) ==
  IF kind[d] = "none"
    THEN IF \A u \in Unit : kind[<<d[1], u>>] = "none" THEN Bits ELSE {}
  ELSE IF phase[d] = "busy" THEN {"BSY"}
  ELSE {"RDY"} \cup (IF phase[d] \in {"in", "out"} THEN {"DRQ"} ELSE {})
               \cup (IF err[d] THEN {"ERR"} ELSE {})

Interrupt(d) ==
  intrq' = IF nIEN[d[1]] THEN intrq ELSE intrq \cup {d[1]}

\* A command written to a busy drive is lost, one written in a data phase
\* aborts it.
Take(d, c) ==
  IF kind[d] = "none" \/ phase[d] = "busy"
    THEN UNCHANGED drives
    ELSE /\ phase' = [phase EXCEPT ![d] = "busy"]
         /\ command' = [command EXCEPT ![d] = c]
         /\ err' = [err EXCEPT ![d] = FALSE]
         /\ left' = [left EXCEPT ![d] = IF c = "FLUSH" THEN 0 ELSE Words]
         /\ UNCHANGED intrq

\* BSY falls: the data phase starts, or the command has ended well or badly.
\* Packet devices abort the commands for disks.
DriveReady(d) ==
  /\ phase[d] = "busy"
  /\ \/ /\ kind[d] = "ata" /\ left[d] > 0
        /\ phase' = [phase EXCEPT ![d] = IF command[d] = "WRITE" THEN "out" ELSE "in"]
        /\ IF command[d] = "WRITE" THEN UNCHANGED intrq ELSE Interrupt(d)
        /\ UNCHANGED <<err, left>>
     \/ /\ kind[d] = "ata" => command[d] # "IDENTIFY"
        /\ phase' = [phase EXCEPT ![d] = "idle"]
        /\ left' = [left EXCEPT ![d] = 0]
        /\ \E e \in BOOLEAN : (left[d] > 0 => e) /\ err' = [err EXCEPT ![d] = e]
        /\ Interrupt(d)
  /\ UNCHANGED <<kind, command, nIEN, todo, pc, i, got, junk>>

\* One access to the data port of the selected drive.
Access(dir) ==
  IF kind[Sel] # "none" /\ phase[Sel] = dir
    THEN /\ left' = [left EXCEPT ![Sel] = @ - 1]
         /\ phase' = [phase EXCEPT ![Sel] =
                        IF left[Sel] > 1 THEN dir
                        ELSE IF dir = "out" THEN "busy" ELSE "idle"]
         /\ got' = got + 1
         /\ UNCHANGED <<command, err, intrq, junk>>
    ELSE junk' = junk + 1 /\ UNCHANGED <<drives, got>>

-----------------------------------------------------------------------------
(* The driver.                                                             *)

Running(op) == todo # <<>> /\ call.op = op

\* Return from the call; the outcome lasts until the next one starts.
Return == pc' = "return"

NextCall ==
  /\ todo # <<>> /\ pc = "return"
  /\ todo' = Tail(todo)
  /\ pc' = "start" /\ i' = 0 /\ got' = 0 /\ junk' = 0
  /\ UNCHANGED <<kind, drives, nIEN>>

\* identify(): select, write the control port, look for a floating bus, and
\* issue IDENTIFY.
StartIdentify ==
  /\ Running("identify") /\ pc = "start"
  /\ nIEN' = [nIEN EXCEPT ![Sel[1]] = FALSE]
  /\ IF StatusOf(Sel) = Bits
       THEN Return /\ UNCHANGED drives
       ELSE pc' = "first" /\ Take(Sel, "IDENTIFY")
  /\ UNCHANGED <<kind, todo, i, got, junk>>

StartRead ==
  /\ Running("read28") /\ pc = "start"
  /\ IF call.sector > LastLBA
       THEN Return /\ UNCHANGED drives
       ELSE pc' = "poll" /\ Take(Sel, "READ")
  /\ UNCHANGED <<kind, nIEN, todo, i, got, junk>>

\* write28() goes straight from the command to the data.
StartWrite ==
  /\ Running("write28") /\ pc = "start"
  /\ IF call.sector > LastLBA \/ call.count > SectorBytes
       THEN Return /\ UNCHANGED drives
       ELSE pc' = "data" /\ Take(Sel, "WRITE")
  /\ UNCHANGED <<kind, nIEN, todo, i, got, junk>>

StartFlush ==
  /\ Running("flush") /\ pc = "start"
  /\ pc' = "poll"
  /\ Take(Sel, "FLUSH")
  /\ UNCHANGED <<kind, nIEN, todo, i, got, junk>>

\* This and the other definitions that no action uses are wrong: each makes a
\* slip that a property must notice.
PollIgnoringError ==
  /\ todo # <<>> /\ call.op # "flush" /\ pc \in {"first", "poll"}
  /\ LET status == StatusOf(Sel) IN
     pc' = IF pc = "first" /\ status = {} THEN "return"
           ELSE IF "BSY" \in status /\ "ERR" \notin status THEN "poll"
           ELSE "data"
  /\ UNCHANGED <<kind, drives, nIEN, todo, i, got, junk>>

PollForData ==
  /\ todo # <<>> /\ call.op # "flush" /\ pc \in {"first", "poll"}
  /\ LET status == StatusOf(Sel) IN
     pc' = IF (pc = "first" /\ status = {}) \/ "ERR" \in status THEN "return"
           ELSE IF "DRQ" \in status THEN "data"
           ELSE "poll"
  /\ UNCHANGED <<kind, drives, nIEN, todo, i, got, junk>>

\* while ((status & BSY) && !(status & ERR)); if (status & ERR) return;
\* The first read of identify() also returns on 0.
Poll ==
  /\ todo # <<>> /\ call.op # "flush" /\ pc \in {"first", "poll"}
  /\ LET status == StatusOf(Sel) IN
     pc' = IF (pc = "first" /\ status = {}) \/ "ERR" \in status THEN "return"
           ELSE IF "BSY" \in status THEN "poll"
           ELSE "data"
  /\ UNCHANGED <<kind, drives, nIEN, todo, i, got, junk>>

\* flush(): while (status & BSY); with or without ERR it then returns.
PollFlush ==
  /\ Running("flush") /\ pc = "poll"
  /\ pc' = IF "BSY" \in StatusOf(Sel) THEN "poll" ELSE "return"
  /\ UNCHANGED <<kind, drives, nIEN, todo, i, got, junk>>

\* identify() takes the whole sector.
Asked == IF call.op = "identify" THEN SectorBytes ELSE call.count

RoundedDown(n) == IF n % 2 = 0 THEN n ELSE n - 1

\* n + (n % 2), where the remainder has the sign of n.
Rounded(n) == IF n % 2 = 0 THEN n ELSE IF n > 0 THEN n + 1 ELSE n - 1

TransferWithoutRest ==
  /\ todo # <<>> /\ pc = "data"
  /\ IF i < Asked
       THEN /\ Access(IF call.op = "write28" THEN "out" ELSE "in")
            /\ i' = i + 2
            /\ UNCHANGED pc
       ELSE Return /\ UNCHANGED <<drives, i, got, junk>>
  /\ UNCHANGED <<kind, nIEN, todo>>

TransferOffByOne ==
  /\ todo # <<>> /\ pc \in {"data", "rest"}
  /\ IF i <= (IF pc = "data" THEN Asked - 1 ELSE SectorBytes)
       THEN /\ Access(IF call.op = "write28" THEN "out" ELSE "in")
            /\ i' = i + 2
            /\ UNCHANGED pc
       ELSE /\ IF pc = "data" THEN pc' = "rest" /\ i' = Rounded(Asked)
                              ELSE Return /\ UNCHANGED i
            /\ UNCHANGED <<drives, got, junk>>
  /\ UNCHANGED <<kind, nIEN, todo>>

\* The two loops over the data port, two bytes an access: for the bytes asked
\* for, then for the rest of the sector.
Transfer ==
  /\ todo # <<>> /\ pc \in {"data", "rest"}
  /\ IF i < (IF pc = "data" THEN Asked ELSE SectorBytes)
       THEN /\ Access(IF call.op = "write28" THEN "out" ELSE "in")
            /\ i' = i + 2
            /\ UNCHANGED pc
       ELSE /\ IF pc = "data" THEN pc' = "rest" /\ i' = Rounded(Asked)
                              ELSE Return /\ UNCHANGED i
            /\ UNCHANGED <<drives, got, junk>>
  /\ UNCHANGED <<kind, nIEN, todo>>

Finished == todo = <<>> /\ UNCHANGED vars

Driver == \/ StartIdentify \/ StartRead \/ StartWrite \/ StartFlush
          \/ Poll \/ PollFlush \/ Transfer \/ NextCall

Next == Driver \/ Finished \/ \E d \in Drive : DriveReady(d)

Spec == Init /\ [][Next]_vars

\* The driver's code runs on, and a drive that raised BSY lowers it.
FairSpec == /\ Spec
            /\ WF_vars(Driver)
            /\ \A d \in Drive : WF_vars(DriveReady(d))

-----------------------------------------------------------------------------
(* Properties.                                                             *)

\* Every variable holds a value the driver and the drives can give it, and the
\* loop variable never passes the end of the sector or of the bytes asked for.
TypeOK ==
  /\ kind \in Buses
  /\ phase \in [Drive -> {"idle", "busy", "in", "out"}]
  /\ command \in [Drive -> Command]
  /\ left \in [Drive -> 0 .. Words]
  /\ err \in [Drive -> BOOLEAN]
  /\ nIEN \in [Channel -> BOOLEAN]
  /\ intrq \subseteq Channel
  /\ todo \in Seq(Call)
  /\ pc \in {"start", "first", "poll", "data", "rest", "return"}
  /\ i \in Int /\ got \in Nat /\ junk \in Nat
  /\ todo # <<>> => i <= SectorBytes \/ i <= Asked + 1

\* The accesses that a count of n bytes costs: the words of a sector, those
\* beyond a sector, and those before its start that a negative n counts.
Accesses(n) ==
  LET first == IF n < 0 THEN Rounded(n) ELSE 0
      last  == IF Rounded(n) > SectorBytes THEN Rounded(n) ELSE SectorBytes
  IN  (last - first) \div 2

\* However many bytes are asked for, odd or even, the two loops of read28() and
\* write28(), and the one of identify(), together access the data port once for
\* every word of the sector, or not at all; only a count that is negative or
\* exceeds the sector, which read28() does not refuse, costs more.
WholeSector ==
  todo # <<>> /\ pc = "return" => got + junk \in {0, Accesses(Asked)}

\* When identify() or read28() returns and the last command the drive took was
\* no write, a disk has handed over its whole sector to it or refused the
\* command; nothing is left for the next command to trip over.  identify()
\* reads no data from anything but a disk.
SectorsWhole ==
  (/\ todo # <<>> /\ pc = "return" /\ call.op \in {"identify", "read28"}
   /\ command[Sel] # "WRITE")
  => /\ kind[Sel] = "ata" =>
          /\ phase[Sel] = "idle"
          /\ got \in {0, Words}
          /\ junk = 0 \/ Asked \notin 0 .. SectorBytes
     /\ call.op = "identify" => junk = 0

\* A command is written only to a drive that has finished the last one, unless
\* that was a write, which write28() leaves to itself.
CommandsToIdle ==
  [][pc = "start" /\ pc' # "start" =>
       phase[Sel] = "idle" \/ command[Sel] = "WRITE"]_vars

\* No drive at all on the channel of the call.
EmptyChannel == \A u \in Unit : kind[<<Sel[1], u>>] = "none"

Refused == \/ call.op \in {"read28", "write28"} /\ call.sector > LastLBA
           \/ call.op = "write28" /\ call.count > SectorBytes

\* What a call on an empty socket has done when it returns.  identify() finds
\* out and leaves; but nothing keeps its answer, and a later read28() takes the
\* status 0 of a missing slave for a drive that is ready (ata.cpp:130) and moves
\* a whole sector that no drive offers, as write28() does on any empty socket.
AbsentDrive ==
  todo # <<>> /\ pc = "return" /\ kind[Sel] = "none" =>
    /\ got = 0
    /\ junk = IF \/ call.op \in {"identify", "flush"} \/ Refused
                 \/ call.op = "read28" /\ EmptyChannel
                THEN 0 ELSE Accesses(Asked)

\* flush() of a channel with no drive at all.
Floating == Running("flush") /\ EmptyChannel

\* The calls end unless one of them flushes an empty channel, where BSY reads as
\* 1 for ever: identify(), read28() and write28() spin on no drive, packet
\* device or empty socket, nor does flush() beside one.
BootTerminates ==
  /\ []~Floating => <>(todo = <<>>)
  /\ <>Floating => []~(todo = <<>>)

\* ata.cpp:54, "Clear control port (disable interrupts)": no drive interrupts
\* on a channel that identify() has programmed.
IdentifyDisablesInterrupts == intrq = {}

\* ata.h:134, "Wait for DRQ=1": write28() gives no word to a disk that is not
\* ready to take it.
WriteWaitsForDRQ ==
  todo # <<>> /\ call.op = "write28" /\ kind[Sel] = "ata" => junk = 0
=============================================================================
