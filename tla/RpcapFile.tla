------------------------------- MODULE RpcapFile -------------------------------
(***************************************************************************)
(* One .rpcap file, as StorageService writes it (RpcapWriter) and reads it *)
(* back (RpcapReader): header, schema, chunks and the index footer, whose  *)
(* place is known only to the header that Finalize writes again, last.     *)
(*                                                                         *)
(* The file is a sequence of cells; an offset is the number of cells in    *)
(* front.  A number, a packet, a footer entry and the header take one cell *)
(* each.  One WriteBytes call writes one block of cells.  It may fail with *)
(* nothing written or with some of the block, the cell Torn: the file has  *)
(* then grown and current_offset_ has not.  The rewrite of the header goes *)
(* over bytes the file already has and is taken to fail or to succeed as a *)
(* whole.  A packet is its number in the recording and its capture time;   *)
(* payload, topic and codec add nothing to where it is put.  A codec that  *)
(* fails to compress a chunk is a call that wrote nothing: the entry is    *)
(* kept and the chunk stays (only its id, which nobody reads, differs).    *)
(***************************************************************************)
EXTENDS Integers, FiniteSets, SequencesExt, FiniteSetsExt

CONSTANTS
  Times,             \* capture times
  Targets,           \* times that SeekTo is given
  KeyframeInterval,  \* kKeyframeIntervalNs
  FlushThreshold,    \* packets that make kChunkFlushThresholdBytes
  Wrap,              \* 2^64
  Buckets,           \* how many slices GetDensity is asked for
  MaxPackets,        \* packets of one recording
  MaxFaults,         \* write and compress calls that fail
  OverwriteOpen      \* whether CreateFile may name the file that is open for reading

ASSUME RpcapAssumption ==
  /\ Times \subseteq Nat /\ Targets \subseteq Nat /\ KeyframeInterval \in Nat \ {0} /\ FlushThreshold \in Nat \ {0}
  /\ Wrap \in Nat /\ (\A t \in Times : t < Wrap) /\ Buckets \in Nat \ {0}
  /\ MaxPackets \in Nat /\ MaxFaults \in Nat /\ OverwriteOpen \in BOOLEAN

VARIABLES
  file,       \* cells of the file on disk
  writer,     \* members of RpcapWriter
  writing,    \* StorageService::writing_
  reader,     \* members of RpcapReader
  reading,    \* StorageService::reading_
  target,     \* the time SeekTo is looking for, -1 when it is not running
  log,        \* history: capture times of the packets given to this recording
  sealed,     \* history: FinalizeFile has returned true for it
  intact,     \* history: every write of it has succeeded
  got,        \* history: numbers of the packets read since the file was opened or sought
  faults      \* history: write and compress calls that failed

writeVars == <<writer, writing, log, sealed, intact, faults>>
readVars == <<reader, reading, target, got>>
vars == <<file, writeVars, readVars>>

NoTarget == 0 - 1
Number(n) == [kind |-> "number", n |-> n]
PacketCell(p) == [kind |-> "packet", p |-> p]
Entry(t, offset) == [kind |-> "entry", t |-> t, offset |-> offset]
Torn == [kind |-> "torn"]
Header(schema, chunks, footer, total, duration) ==
  [kind |-> "header", schema |-> schema, chunks |-> chunks, footer |-> footer, total |-> total, duration |-> duration]
BlankHeader == Header(0, 0, 0, 0, 0)

NoWriter == [open |-> FALSE, chunk |-> <<>>, entries |-> <<>>, offset |-> 0, first |-> 0, last |-> 0, lastKey |-> 0, count |-> 0]
NoReader == [open |-> FALSE, header |-> BlankHeader, entries |-> <<>>, next |-> 0, chunk |-> <<>>, index |-> 0, more |-> FALSE]

Init ==
  /\ file = <<>> /\ writer = NoWriter /\ writing = FALSE /\ reader = NoReader /\ reading = FALSE
  /\ target = NoTarget /\ log = <<>> /\ sealed = FALSE /\ intact = FALSE /\ got = <<>>
  /\ faults = 0

-----------------------------------------------------------------------------
(***************************************************************************)
(* Writing.                                                                *)
(***************************************************************************)

\* How far a series of WriteBytes calls may get that write cells: to the end, or to where
\* one of the calls begins.
Outcomes(cells, calls) ==
  [done : {Len(cells)}, torn : {FALSE}]
    \cup (IF faults < MaxFaults THEN [done : calls, torn : BOOLEAN] ELSE {})
Succeeds(cells, o) == o.done = Len(cells)
Written(cells, o) == SubSeq(cells, 1, o.done) \o (IF o.torn THEN <<Torn>> ELSE <<>>)
CountFault(ok) == faults' = faults + (IF ok THEN 0 ELSE 1) /\ intact' = (intact /\ ok)

\* RpcapWriter::Create over a file that is truncated: the header, still blank, the
\* size of the schema and the schema.
CreateFile ==
  /\ OverwriteOpen \/ ~reader.open
  /\ LET start == <<BlankHeader, Number(1), [kind |-> "schema"]>>
     IN \E o \in Outcomes(start, 0..2) :
          LET ok == Succeeds(start, o)
          IN /\ file' = Written(start, o)
             /\ writer' = IF ok THEN [NoWriter EXCEPT !.open = TRUE, !.offset = 3] ELSE NoWriter
             /\ writing' = ok
             /\ faults' = faults + (IF ok THEN 0 ELSE 1) /\ intact' = ok
  /\ log' = <<>> /\ sealed' = FALSE
  /\ UNCHANGED readVars

\* The backend cannot open the file: what was in it stays.
CreateFileRefused ==
  /\ faults < MaxFaults
  /\ faults' = faults + 1
  /\ writer' = NoWriter /\ writing' = FALSE
  /\ UNCHANGED <<file, log, sealed, intact, readVars>>

\* A chunk: its id, the number of packets, the size of the payload and the packets.
ChunkCells(chunk) ==
  <<Number(0), Number(Len(chunk)), Number(Len(chunk))>> \o [i \in 1..Len(chunk) |-> PacketCell(chunk[i])]
ChunkCalls == 0..3

\* The entry is taken before anything is written, and kept if that fails.
WithEntry(w, force) ==
  IF w.entries = <<>> \/ force
    THEN [w EXCEPT !.lastKey = Head(w.chunk).t, !.entries = Append(@, Entry(Head(w.chunk).t, w.offset))]
    ELSE w

\* FlushChunk: a chunk that could not be written stays, and is written again later.
Flushed(w, force, o) ==
  LET tried == [WithEntry(w, force) EXCEPT !.offset = @ + o.done]
  IN IF Succeeds(ChunkCells(w.chunk), o) THEN [tried EXCEPT !.count = @ + Len(w.chunk), !.chunk = <<>>] ELSE tried

\* A packet is a keyframe by its flag, as the first one, or when the interval is over.
NeedsKeyframe(w, t, flagged) ==
  flagged \/ w.count = 0 \/ (t >= w.lastKey /\ t - w.lastKey >= KeyframeInterval)

WritePacket(t) ==
  /\ writing /\ writer.open /\ Len(log) < MaxPackets
  /\ LET p == [n |-> Len(log) + 1, t |-> t]
         w == [writer EXCEPT !.first = IF writer.count = 0 THEN t ELSE @, !.last = t, !.chunk = Append(@, p)]
         cells == ChunkCells(w.chunk)
     IN \E flagged \in BOOLEAN :
          LET force == NeedsKeyframe(writer, t, flagged)
          IN IF force \/ Len(w.chunk) >= FlushThreshold
               THEN \E o \in Outcomes(cells, ChunkCalls) :
                      /\ writer' = Flushed(w, force, o)
                      /\ file' = file \o Written(cells, o)
                      /\ CountFault(Succeeds(cells, o))
               ELSE writer' = w /\ UNCHANGED <<file, faults, intact>>
  /\ log' = Append(log, t)
  /\ UNCHANGED <<writing, sealed, readVars>>

Duration(w) == IF w.count = 0 THEN 0 ELSE (w.last - w.first) % Wrap

FooterCells(w) == <<Number(Len(w.entries))>> \o w.entries

\* What FinalizeFile does to the writer before the footer: the last chunk is written.
LastCells(w) == IF w.chunk = <<>> THEN <<>> ELSE ChunkCells(w.chunk)
LastFlushed(w) == IF w.chunk = <<>> THEN w ELSE Flushed(w, TRUE, [done |-> Len(LastCells(w)), torn |-> FALSE])
FinalHeader(w) == Header(1, 3, w.offset, w.count, Duration(w))

\* A plausible bug, for a mutant run: the header is written again before the footer.
FinalizeFileHeaderFirst ==
  /\ writing
  /\ LET last == LastCells(writer)
         w == LastFlushed(writer)
         growing == last \o FooterCells(w)
     IN \E o \in Outcomes(growing, 0..Len(growing) - 1) :
          /\ file' = [file \o Written(growing, o) EXCEPT ![1] = FinalHeader(w)]
          /\ sealed' = Succeeds(growing, o)
          /\ CountFault(sealed')
          /\ writer' = IF sealed' THEN NoWriter ELSE writer
  /\ writing' = FALSE
  /\ UNCHANGED <<log, readVars>>

\* FinalizeFile: the last chunk, the footer, then the header in place.  The last cell
\* stands for the header; a failure leaves the blank one and the backend open.
FinalizeFile ==
  /\ writing
  /\ LET last == LastCells(writer)
         w == LastFlushed(writer)
         growing == last \o FooterCells(w)
         all == Append(growing, FinalHeader(w))
         calls == (IF last = <<>> THEN {} ELSE ChunkCalls) \cup Len(last)..Len(growing)
     IN \E o \in Outcomes(all, calls) :
          /\ o.torn => o.done < Len(growing)
          /\ sealed' = Succeeds(all, o)
          /\ file' = IF sealed' THEN [file \o growing EXCEPT ![1] = FinalHeader(w)] ELSE file \o Written(all, o)
          /\ CountFault(sealed')
          /\ writer' = IF sealed' THEN NoWriter ELSE writer
  /\ writing' = FALSE
  /\ UNCHANGED <<log, readVars>>

\* The process ends at any moment and starts again: the file is what it was.
Crash ==
  /\ writer' = NoWriter /\ writing' = FALSE
  /\ reader' = NoReader /\ reading' = FALSE /\ target' = NoTarget /\ got' = <<>>
  /\ UNCHANGED <<file, log, sealed, intact, faults>>

-----------------------------------------------------------------------------
(***************************************************************************)
(* Reading.  Bytes that were meant for something else are read as any      *)
(* value: the reader gives up, or goes on with what is not a packet.       *)
(***************************************************************************)

Is(kind, i) == i \in 1..Len(file) /\ file[i].kind = kind

\* LoadSchema: at offset 0, where an unfinished header points, the header's own
\* bytes are a size beyond every limit.
LoadSchema(header) == Is("number", header.schema + 1) /\ Is("schema", header.schema + 2)

\* LoadFooter: the footers it may come back with when it succeeds.
LoadFooter(header) ==
  LET at == header.footer + 1
      n == file[at].n
      rest == SubSeq(file, at + 1, at + n)
  IN IF Is("number", at) /\ at + n <= Len(file) /\ \A c \in ToSet(rest) : c.kind = "entry"
       THEN {rest}
       ELSE {<<>>} \cup {<<Entry(0, offset)>> : offset \in 0..Len(file)}

\* The magic is the header's own; a file cut before its end has none.
HeaderRead == IF Is("header", 1) THEN file[1] ELSE BlankHeader

\* Whether RpcapReader::Open may succeed.  ProbeFile and GetDensity open the file in
\* the same way with a reader of their own.
CanOpen == Is("header", 1) /\ LoadSchema(file[1])

OpenFile ==
  /\ CanOpen /\ target = NoTarget
  /\ \E footer \in LoadFooter(HeaderRead) :
       reader' = [NoReader EXCEPT !.open = TRUE, !.header = HeaderRead, !.entries = footer,
                    !.next = HeaderRead.chunks, !.more = HeaderRead.chunks < HeaderRead.footer]
  /\ reading' = TRUE /\ got' = <<>>
  /\ UNCHANGED <<file, writeVars, target>>

\* The file is closed first.  Besides a header or a schema that is not one, the backend,
\* a codec that is missing or a footer cut short may end it.
OpenFileRefused ==
  /\ target = NoTarget
  /\ reader' = NoReader /\ reading' = FALSE /\ got' = <<>>
  /\ UNCHANGED <<file, writeVars, target>>

\* What ProbeFile says of a file on disk; nothing when the probe cannot open it.
ProbeFile == IF CanOpen THEN {[total |-> HeaderRead.total, duration |-> HeaderRead.duration]} ELSE {}

CloseFile ==
  /\ reader.open /\ target = NoTarget
  /\ reader' = NoReader /\ reading' = FALSE /\ got' = <<>>
  /\ UNCHANGED <<file, writeVars, target>>

Junk == [n |-> 0, t |-> 0]

IsChunk(offset) ==
  /\ \A i \in 1..3 : Is("number", offset + i)
  /\ file[offset + 2].n = file[offset + 3].n
  /\ \A i \in 1..file[offset + 3].n : Is("packet", offset + 3 + i)

\* A plausible bug, for a mutant run: the footer itself counts as a chunk to come.
LoadedUpToFooter(r, chunk, next) ==
  [r EXCEPT !.chunk = chunk, !.index = 0, !.next = next, !.more = next <= r.header.footer]

Loaded(r, chunk, next) ==
  [r EXCEPT !.chunk = chunk, !.index = 0, !.next = next, !.more = next < r.header.footer]

\* LoadNextChunk: the states it may leave the reader in; it returns true if there is a packet.
LoadNextChunk(r) ==
  LET stopped == [r EXCEPT !.chunk = <<>>, !.index = 0, !.more = FALSE]
  IN IF ~r.more \/ r.next >= r.header.footer THEN {stopped}
     ELSE IF IsChunk(r.next)
       THEN LET n == file[r.next + 3].n
            IN {Loaded(r, [i \in 1..n |-> file[r.next + 3 + i].p], r.next + 3 + n)}
       ELSE {stopped} \cup {Loaded(r, <<Junk>>, next) : next \in r.next + 3..Len(file) + 1}

HasMore == reading /\ reader.open /\ (reader.index < Len(reader.chunk) \/ reader.more)

ReadNext ==
  /\ reading /\ reader.open /\ target = NoTarget
  /\ \E r \in IF reader.index < Len(reader.chunk) THEN {reader} ELSE LoadNextChunk(reader) :
       IF r.index < Len(r.chunk)
         THEN /\ reader' = [r EXCEPT !.index = @ + 1]
              /\ got' = IF r.chunk[r.index + 1].n = 0 THEN got ELSE Append(got, r.chunk[r.index + 1].n)
         ELSE reader' = r /\ UNCHANGED got
  /\ UNCHANGED <<file, writeVars, reading, target>>

\* A plausible bug, for a mutant run: the search does not step back from the first late entry.
SeekChunkPast(r, t) ==
  LET late == {i \in 1..Len(r.entries) : r.entries[i].t > t}
      i == IF late = {} THEN Len(r.entries) ELSE Min(late)
  IN IF i = 0 THEN r.header.chunks ELSE r.entries[i].offset

\* The chunk a seek begins with: of the last entry in front of the first one that is too late.
SeekChunk(r, t) ==
  LET late == {i \in 1..Len(r.entries) : r.entries[i].t > t}
      i == IF late = {} THEN Len(r.entries) ELSE Min(late) - 1
  IN IF i = 0 THEN r.header.chunks ELSE r.entries[i].offset

SeekTo(t) ==
  /\ reading /\ reader.open /\ target = NoTarget
  /\ target' = t /\ got' = <<>>
  /\ reader' = Loaded(reader, <<>>, SeekChunk(reader, t))
  /\ UNCHANGED <<file, writeVars, reading>>

\* A plausible bug, for a mutant run: the loop does not ask whether there is more.
SeekStepOnly ==
  /\ target # NoTarget
  /\ \E r \in LoadNextChunk(reader) :
       LET found == {i \in 1..Len(r.chunk) : r.chunk[i].t >= target}
       IN IF found # {}
            THEN reader' = [r EXCEPT !.index = Min(found) - 1] /\ target' = NoTarget
            ELSE reader' = r /\ UNCHANGED target
  /\ UNCHANGED <<file, writeVars, reading, got>>

\* One turn of the loop in SeekTo.  Past the end it stops with the last chunk loaded
\* and calls that a success.
SeekStep ==
  /\ target # NoTarget
  /\ \E r \in LoadNextChunk(reader) :
       LET found == {i \in 1..Len(r.chunk) : r.chunk[i].t >= target}
       IN IF found # {}
            THEN reader' = [r EXCEPT !.index = Min(found) - 1] /\ target' = NoTarget
            ELSE /\ reader' = r
                 /\ target' = IF r.chunk = <<>> \/ ~r.more THEN NoTarget ELSE target
  /\ UNCHANGED <<file, writeVars, reading, got>>

\* GetChunkPacketCounts of a file that was just opened.
ChunkCounts == [i \in 1..Len(reader.entries) |->
                 [t |-> reader.entries[i].t, n |-> file[reader.entries[i].offset + 2].n]]

\* The slices that chunk i of counts covers.
Covered(counts, i, duration) ==
  LET start == Min({counts[i].t, duration})
      until == Min({IF i < Len(counts) THEN counts[i + 1].t ELSE duration, duration})
      Slice(t) == Min({Buckets - 1, (t * Buckets) \div duration})
      end == IF until > start THEN until - 1 ELSE start
  IN Slice(start)..Max({Slice(start), Slice(end)})

\* A plausible bug, for a mutant run: the rest of the division is dropped.
DensityRounded(counts, duration) ==
  [b \in 0..Buckets - 1 |->
    LET in == {i \in 1..Len(counts) : b \in Covered(counts, i, duration)}
    IN SumSet({counts[i].n \div Cardinality(Covered(counts, i, duration)) : i \in in})]

\* GetDensity: each chunk is spread evenly, the rest of the division first.
Density(counts, duration) ==
  [b \in 0..Buckets - 1 |->
    FoldSet(LAMBDA i, sum :
        LET span == Covered(counts, i, duration)
            size == Cardinality(span)
        IN sum + (counts[i].n \div size) + (IF b - Min(span) < counts[i].n % size THEN 1 ELSE 0),
      0, {i \in 1..Len(counts) : b \in Covered(counts, i, duration)})]

Next ==
  \/ CreateFile \/ CreateFileRefused \/ FinalizeFile \/ Crash
  \/ OpenFile \/ OpenFileRefused \/ CloseFile \/ ReadNext \/ SeekStep
  \/ \E t \in Times : WritePacket(t)
  \/ \E t \in Targets : SeekTo(t)

\* A seek is a loop on the caller's thread.
Spec == Init /\ [][Next]_vars /\ WF_vars(SeekStep)

-----------------------------------------------------------------------------
TypeOK ==
  /\ \A c \in ToSet(file) : c.kind \in {"header", "schema", "number", "packet", "entry", "torn"}
  /\ writer.chunk \in Seq([n : 1..MaxPackets, t : Times]) /\ Len(writer.chunk) <= MaxPackets
  /\ writer.offset \in 0..Len(file) /\ writer.count \in 0..MaxPackets
  /\ {writing, reading, sealed, intact} \subseteq BOOLEAN
  /\ reader.index \in 0..Len(reader.chunk)
  /\ target \in Targets \cup {NoTarget}
  /\ faults \in 0..MaxFaults

\* A reader, the service's own or the one ProbeFile and GetDensity make for a file
\* that may be open for recording, never gets past the header of a file that was
\* not finalized: not while it grows, nor after a crash or a failed write.
OpensOnlyFinalized == CanOpen => sealed

\* What a probe of an undamaged file tells the file list: all the packets that
\* WritePacket accepted, and, when capture times do not go back, the time they span.
SortedTimes == \A i \in 1..Len(log) - 1 : log[i] <= log[i + 1]
HeaderTellsTheRecording ==
  sealed /\ intact => \E info \in ProbeFile :
    /\ info.total = Len(log)
    /\ SortedTimes /\ log # <<>> => info.duration = Last(log) - Head(log)

\* A header that a reader accepts is that of a finalized file, and says what is in it.
HeaderTellsTheTruth == TypeOK /\ OpensOnlyFinalized /\ HeaderTellsTheRecording

\* HasMore, which the session takes for the end of the recording, is true exactly
\* when ReadNext has a packet to give.
HasMoreIsExact ==
  intact /\ reader.open /\ target = NoTarget =>
    (HasMore <=> \E r \in {reader} \cup LoadNextChunk(reader) : r.index < Len(r.chunk))

\* Reading goes forward: between two seeks no packet is returned twice or after a
\* later one, whatever writes failed and were repeated.
ReadsForward == \A i \in 1..Len(got) - 1 : got[i] < got[i + 1]

\* Reading goes forward, and ends when HasMore says so.
ReadsToTheEnd == HasMoreIsExact /\ ReadsForward

\* The slices of GetDensity add up to the packets of the chunks in the index: all of
\* the recording, if no chunk was written because of its size alone.
DensityAddsUp ==
  intact /\ reader.open /\ reader.header.duration > 0 =>
    LET counts == ChunkCounts
        density == Density(counts, reader.header.duration)
        chunks == Cardinality({o \in 3..reader.header.footer - 1 : IsChunk(o)})
        sum == FoldSet(LAMBDA b, acc : acc + density[b], 0, 0..Buckets - 1)
    IN /\ sum = FoldSet(LAMBDA i, acc : acc + counts[i].n, 0, 1..Len(counts))
       /\ sum <= Len(log) /\ (chunks = Len(counts) => sum = Len(log))

\* What a reader makes of the file is what PacketLog promises.
Position ==
  IF target # NoTarget \/ ~reader.open THEN 0
  ELSE Cardinality({i \in 1..reader.next : Is("packet", i)}) - (Len(reader.chunk) - reader.index)
Promise == INSTANCE PacketLog WITH pos <- Position, reading <- reading /\ reader.open,
             last <- IF got = <<>> THEN 0 ELSE Last(got)
ImplementsPacketLog == Promise!Spec

\* SeekTo comes to an end, even in a file where it reads what nobody wrote.
SeekReturns == target # NoTarget ~> target = NoTarget
=============================================================================
