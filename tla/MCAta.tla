------------------------------- MODULE MCAta --------------------------------
(***************************************************************************)
(* Scripts and buses for Ata.  A sector has three words; a call for 25 of  *)
(* 512 bytes becomes one for 3 of 6, which is odd and ends mid-sector too. *)
(***************************************************************************)
EXTENDS Ata

Do(op, channel, unit, sector, count) ==
  [op |-> op, drive |-> <<channel, unit>>, sector |-> sector, count |-> count]

\* kernel.cpp:145-162.
KernelScript ==
  << Do("identify", "primary", "master", 0, 0),
     Do("identify", "primary", "slave", 0, 0),
     Do("write28", "primary", "slave", 0, 3),
     Do("flush", "primary", "slave", 0, 0),
     Do("read28", "primary", "slave", 0, 3),
     Do("identify", "secondary", "master", 0, 0),
     Do("identify", "secondary", "slave", 0, 0) >>

\* Any two calls on the two drives of one channel.  The sector may be the first
\* that LBA28 cannot name, and the count of a read negative or above a sector.
SomeCalls ==
  {Do(op, "primary", u, 0, 0) : op \in {"identify", "flush"}, u \in Unit} \cup
  {Do("write28", "primary", u, 0, n) : u \in Unit, n \in {3, 8}} \cup
  {Do("read28", "primary", u, 0, n) : u \in Unit, n \in {-3, 3, 7}} \cup
  {Do("read28", "primary", "master", LastLBA + 1, 3)}

KernelScripts == {KernelScript}
AnyScripts    == {KernelScript} \cup [1 .. 2 -> SomeCalls]

AllBuses == [Drive -> {"ata", "atapi", "none"}]

Bus(pm, ps, sm) ==
  [d \in Drive |-> CASE d = <<"primary", "master">>   -> pm
                     [] d = <<"primary", "slave">>    -> ps
                     [] d = <<"secondary", "master">> -> sm
                     [] OTHER                         -> "none"]

\* Anything on the primary channel, and the secondary one empty or with the DVD
\* drive of BlueOs.vbox.
SomeBuses == {bus \in AllBuses : \E k \in {"none", "atapi"} :
                bus = Bus(bus[<<"primary", "master">>], bus[<<"primary", "slave">>], k)}

\* The machine of BlueOs.vbox: a hard disk and a DVD drive, both masters; and
\* the same machine with a second disk.
VirtualBox  == {Bus("ata", "none", "atapi")}
SecondDisk  == {Bus("ata", "ata", "atapi")}
=============================================================================
