------------------------------ MODULE PacketLog ------------------------------
(***************************************************************************)
(* What a recording promises (IStorageService): packets are appended until *)
(* the file is finalized; a finalized file can be opened, read from the    *)
(* first packet on, and read from any point in time on.  A failed write    *)
(* ends the promise for that recording, never the one before or after it.  *)
(***************************************************************************)
EXTENDS Naturals, Sequences

CONSTANTS
  Times,    \* capture times of packets
  Targets   \* times a seek is given

VARIABLES
  log,      \* the packets written, in order
  sealed,   \* finalized
  intact,   \* no write of this recording has failed
  reading,  \* the file is open
  pos,      \* packets before the reader
  target,   \* the time a seek looks for, -1 if there is none
  last      \* the number of the packet that was read last, 0 if none

vars == <<log, sealed, intact, reading, pos, target, last>>

NoTarget == 0 - 1
Sorted == \A i \in 1..Len(log) - 1 : log[i] <= log[i + 1]

\* Where a seek to t may end in a recording with a packet of that time or later: in
\* front of a packet of the earliest such time.  Of several packets of the same time a
\* seek may skip some.
Landings(t) ==
  LET late == {j \in 1..Len(log) : log[j] >= t}
      first == {i \in 0..Len(log) - 1 : i + 1 \in late /\ \A j \in late : log[i + 1] <= log[j]}
  IN IF Sorted /\ late # {} THEN first ELSE 0..Len(log)

Init == log = <<>> /\ sealed = FALSE /\ intact = FALSE /\ reading = FALSE /\ pos = 0 /\ target = NoTarget /\ last = 0

Create == log' = <<>> /\ sealed' = FALSE /\ intact' \in BOOLEAN /\ UNCHANGED <<reading, pos, target, last>>
Put(t) == ~sealed /\ log' = log \o <<t>> /\ intact' \in {intact, FALSE} /\ UNCHANGED <<sealed, reading, pos, target, last>>
Seal == ~sealed /\ sealed' \in BOOLEAN /\ intact' \in {intact, FALSE} /\ UNCHANGED <<log, reading, pos, target, last>>

Open == sealed /\ reading' = TRUE /\ pos' = 0 /\ target' = NoTarget /\ last' = 0 /\ UNCHANGED <<log, sealed, intact>>
Close == reading' = FALSE /\ pos' = 0 /\ target' = NoTarget /\ last' = 0 /\ UNCHANGED <<log, sealed, intact>>

Read == /\ reading /\ target = NoTarget /\ pos < Len(log)
        /\ pos' = pos + 1 /\ last' = pos + 1
        /\ UNCHANGED <<log, sealed, intact, reading, target>>

\* A seek takes time.  Past the end, and when capture times go back, it ends at some packet.
Seek(t) == reading /\ target = NoTarget /\ target' = t /\ pos' = 0 /\ last' = 0 /\ UNCHANGED <<log, sealed, intact, reading>>
Land == /\ target # NoTarget /\ target' = NoTarget
        /\ pos' \in Landings(target)
        /\ UNCHANGED <<log, sealed, intact, reading, last>>

\* Nothing is promised of what a reader finds in a damaged file.
ReadDamaged == ~intact /\ reading /\ sealed /\ UNCHANGED <<log, sealed, intact, reading>>

Next ==
  \/ Create \/ Seal \/ Open \/ Close \/ Read \/ Land \/ ReadDamaged
  \/ \E t \in Times : Put(t)
  \/ \E t \in Targets : Seek(t)

Spec == Init /\ [][Next]_vars
=============================================================================
