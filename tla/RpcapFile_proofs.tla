---------------------------- MODULE RpcapFile_proofs ----------------------------
(***************************************************************************)
(* Proofs about the file of a recording: its header tells the truth, a     *)
(* reader goes forward and stops at the end, and what is read and sought   *)
(* is what PacketLog promises, whatever is written, fails or crashes.  The *)
(* place of every packet is counted, never walked to: Before(f, i), the    *)
(* packets in front of offset i, says which one of the recording it is.    *)
(***************************************************************************)
EXTENDS RpcapFile, FiniteSetTheorems, WellFoundedInduction, SequenceTheorems, TLAPS

-----------------------------------------------------------------------------
(***************************************************************************)
(* The inductive invariant.                                                *)
(***************************************************************************)

\* The cells of a file, and the members of a writer and of a reader.
Packet == [n : Nat, t : Nat]
HeaderCell == [kind : {"header"}, schema : Nat, chunks : Nat, footer : Nat, total : Nat, duration : Nat]
EntryCell == [kind : {"entry"}, t : Nat, offset : Nat]
Cell ==
  HeaderCell \cup EntryCell \cup [kind : {"number"}, n : Nat] \cup [kind : {"packet"}, p : Packet]
    \cup [kind : {"schema", "torn"}]
Writer == [open : BOOLEAN, chunk : Seq(Packet), entries : Seq(EntryCell),
           offset : Nat, first : Nat, last : Nat, lastKey : Nat, count : Nat]
Reader == [open : BOOLEAN, header : HeaderCell, entries : Seq(EntryCell),
           next : Nat, chunk : Seq(Packet), index : Nat, more : BOOLEAN]

FileTypes ==
  /\ file \in Seq(Cell) /\ writer \in Writer
  /\ log \in Seq(Times) /\ Len(log) <= MaxPackets
  /\ writing \in BOOLEAN /\ sealed \in BOOLEAN /\ intact \in BOOLEAN /\ faults \in 0..MaxFaults
  /\ writer.chunk \in Seq([n : 1..MaxPackets, t : Times])
  /\ writer.count + Len(writer.chunk) <= MaxPackets /\ writer.offset <= Len(file)
ReaderTypes ==
  /\ reader \in Reader /\ reader.index <= Len(reader.chunk)
  /\ reading \in BOOLEAN /\ target \in Targets \cup {NoTarget} /\ got \in Seq(Nat)

\* A file is written or finalized, never both; only a finalized one is open for reading.
Exclusive == writing => ~sealed /\ writer.open
Control ==
  /\ reader.open => sealed /\ reading
  /\ ~reader.open => target = NoTarget /\ got = <<>>
  /\ target # NoTarget => got = <<>>

\* The packets of a file are those of the recording, in their order, each of them at most
\* once: the k-th packet of the file is the k-th that WritePacket was given.
PacketAt(f, i) == i \in 1..Len(f) /\ f[i].kind = "packet"
Before(f, i) == Cardinality({k \in 1..i : PacketAt(f, k)})
Numbered(f, times) ==
  /\ Before(f, Len(f)) <= Len(times)
  /\ \A k \in 1..Len(f) : f[k].kind = "packet" =>
       f[k].p = [n |-> Before(f, k), t |-> times[Before(f, k)]]

\* A header that points to a schema is that of a finalized file.
Started(f) == Len(f) >= 3 /\ f[1].kind = "header" /\ f[2] = Number(1) /\ f[3].kind = "schema"
Opening ==
  /\ writing \/ sealed => Started(file)
  /\ ~sealed /\ file # <<>> /\ file[1].kind = "header" => file[1].schema = 0
  /\ sealed => file[1].schema = 1 /\ file[1].chunks = 3

\* The packets that wait in the writer follow those in the file.
Pending ==
  writing =>
    /\ writer.count = Before(file, Len(file)) /\ writer.count + Len(writer.chunk) = Len(log)
    /\ \A i \in 1..Len(writer.chunk) :
         writer.chunk[i] = [n |-> writer.count + i, t |-> log[writer.count + i]]

\* A chunk begins behind the schema and behind every other chunk, up to the offset end.
Boundary(f, o) == o = 3 \/ (PacketAt(f, o) /\ ~PacketAt(f, o + 1))
ChunkAt(f, o, end) ==
  /\ \A i \in 1..3 : f[o + i].kind = "number"
  /\ f[o + 2].n = f[o + 3].n /\ f[o + 3].n \in 1..end - (o + 3)
  /\ \A i \in 1..f[o + 3].n : f[o + 3 + i].kind = "packet"
  /\ Boundary(f, o + 3 + f[o + 3].n)
Laid(f, end) ==
  /\ end \in 3..Len(f) /\ Boundary(f, end)
  /\ \A o \in 3..end - 1 : Boundary(f, o) => ChunkAt(f, o, end)
\* An entry of the index names the chunk whose first packet has its time.
EntryOK(f, times, end, e) ==
  e.offset \in 3..end - 1 /\ Boundary(f, e.offset) /\ e.t = times[Before(f, e.offset) + 1]
\* The entries are in the order of the chunks, no two of them of the same one.
EntriesOK(f, times, end, entries) ==
  /\ \A i \in 1..Len(entries) : EntryOK(f, times, end, entries[i])
  /\ \A i, j \in 1..Len(entries) : i < j => entries[i].offset < entries[j].offset

\* A file that no write has failed on: chunks up to the offset of the writer, and nothing else.
Whole ==
  intact /\ writing =>
    /\ writer.offset = Len(file) /\ Laid(file, writer.offset)
    /\ EntriesOK(file, log, writer.offset, writer.entries)
    /\ writer.count = 0 => log = <<>>
    /\ log # <<>> => writer.first = log[1] /\ writer.last = log[Len(log)]

\* A finalized one: chunks with all packets up to the footer, then the footer; the header
\* counts the packets and the time they span.
Finished ==
  intact /\ sealed =>
    LET end == file[1].footer
    IN /\ Laid(file, end) /\ Before(file, end) = Len(log)
       /\ file[1].total = Len(log)
       /\ file[1].duration = IF log = <<>> THEN 0 ELSE (log[Len(log)] - log[1]) % Wrap
       /\ Len(file) > end /\ file[end + 1] = Number(Len(file) - end - 1)
       /\ \A i \in end + 2 .. Len(file) : file[i] \in EntryCell /\ EntryOK(file, log, end, file[i])
       /\ \A i, j \in end + 2 .. Len(file) : i < j => file[i].offset < file[j].offset

\* What was read, what is loaded and what is still in the file come in this order.
Ahead(n, next) == \A k \in 1..Len(file) : k > next /\ file[k].kind = "packet" => n < file[k].p.n
ForwardIn(r) ==
  /\ \A i \in 1..Len(r.chunk) : Ahead(r.chunk[i].n, r.next)
  /\ \A i, j \in 1..Len(r.chunk) : i < j => r.chunk[i].n < r.chunk[j].n
GotBefore(r) ==
  \A i \in 1..Len(got) :
    Ahead(got[i], r.next) /\ \A j \in r.index + 1..Len(r.chunk) : r.chunk[j].n = 0 \/ got[i] < r.chunk[j].n
Forward ==
  reader.open => ForwardIn(reader) /\ GotBefore(reader) /\ \A i, j \in 1..Len(got) : i < j => got[i] < got[j]

\* A reader stands where a chunk begins, with the packets of the one in front of it; what a
\* seek has passed over is too early, or of the time it looks for with more of that time ahead.
SoughtPast(next) ==
  \A j \in 1..Before(file, next) :
    log[j] < target \/ (log[j] = target /\ Before(file, next) < Len(log) /\ log[Before(file, next) + 1] = target)
PlacedAt(r) ==
  /\ r.header = file[1]
  /\ intact =>
       /\ EntriesOK(file, log, file[1].footer, r.entries)
       /\ r.next \in 3..file[1].footer /\ Boundary(file, r.next)
       /\ r.more <=> r.next < file[1].footer
       /\ Len(r.chunk) <= Before(file, r.next)
       /\ \A i \in 1..Len(r.chunk) :
            LET n == Before(file, r.next) - Len(r.chunk) + i
            IN r.chunk[i] = [n |-> n, t |-> log[n]]
Placed ==
  reader.open =>
    PlacedAt(reader) /\ (intact /\ target # NoTarget /\ SortedTimes => SoughtPast(reader.next))

\* A reader as ReadNext and SeekTo find it.
Ready(r) ==
  r \in Reader /\ r.open = TRUE /\ r.index <= Len(r.chunk) /\ ForwardIn(r) /\ GotBefore(r) /\ PlacedAt(r)

\* What holds of the file and its writer does not depend on who reads; what holds of the
\* reader does depend on the file.
FileInv == FileTypes /\ Exclusive /\ Numbered(file, log) /\ Opening /\ Pending /\ Whole /\ Finished
IInv == FileInv /\ ReaderTypes /\ Control /\ Forward /\ Placed

-----------------------------------------------------------------------------
(***************************************************************************)
(* Counting the packets of a file.                                         *)
(***************************************************************************)

\* The packets in front of an offset are finitely many.
LEMMA BeforeType ==
  ASSUME NEW f, NEW i \in Nat
  PROVE  IsFiniteSet({k \in 1..i : PacketAt(f, k)}) /\ Before(f, i) \in Nat /\ Before(f, i) <= i
<1>1. IsFiniteSet(1..i) /\ Cardinality(1..i) = i
  BY FS_Interval
<1>2. {k \in 1..i : PacketAt(f, k)} \in SUBSET (1..i)
  OBVIOUS
<1> QED
  BY <1>1, <1>2, FS_Subset, FS_CardinalityType DEF Before

\* There are none in front of the first cell.
LEMMA BeforeNone == ASSUME NEW f PROVE Before(f, 0) = 0
<1>1. Before(f, 0) \in Nat /\ Before(f, 0) <= 0
  BY BeforeType
<1> QED
  BY <1>1

\* Where no packet lies in between, two offsets have as many in front of them.
LEMMA BeforeGap ==
  ASSUME NEW f, NEW a \in Nat, NEW b \in Nat, a <= b, \A k \in a + 1..b : ~PacketAt(f, k)
  PROVE  Before(f, b) = Before(f, a)
<1>1. {k \in 1..b : PacketAt(f, k)} = {k \in 1..a : PacketAt(f, k)}
  OBVIOUS
<1> QED
  BY <1>1 DEF Before

\* A packet counts as one.
LEMMA BeforePacket ==
  ASSUME NEW f, NEW a \in Nat, PacketAt(f, a + 1)
  PROVE  Before(f, a + 1) = Before(f, a) + 1
<1> DEFINE S == {k \in 1..a : PacketAt(f, k)}
<1>1. {k \in 1..a + 1 : PacketAt(f, k)} = S \cup {a + 1} /\ a + 1 \notin S
  OBVIOUS
<1>2. IsFiniteSet(S) /\ Cardinality(S) \in Nat
  BY BeforeType, FS_CardinalityType
<1> HIDE DEF S
<1>3. Cardinality(S \cup {a + 1}) = Cardinality(S) + 1
  BY <1>1, <1>2, FS_AddElement
<1> QED
  BY <1>1, <1>3 DEF Before, S

\* A run of packets counts with its length.
LEMMA BeforeRun ==
  ASSUME NEW f, NEW a \in Nat, NEW n \in Nat, \A k \in a + 1..a + n : PacketAt(f, k)
  PROVE  Before(f, a + n) = Before(f, a) + n
<1> DEFINE S == {k \in 1..a : PacketAt(f, k)}
           T == a + 1..a + n
<1>1. {k \in 1..a + n : PacketAt(f, k)} = S \cup T /\ S \cap T = {}
  OBVIOUS
<1>2. IsFiniteSet(S) /\ Cardinality(S) \in Nat
  BY BeforeType, FS_CardinalityType
<1>3. IsFiniteSet(T) /\ Cardinality(T) = n
  BY FS_Interval
<1> HIDE DEF S, T
<1>4. Cardinality(S \cup T) = Cardinality(S) + Cardinality(T) - Cardinality(S \cap T)
  BY <1>2, <1>3, FS_Union
<1>5. Cardinality(S \cap T) = 0
  BY <1>1, FS_EmptySet
<1>6. Before(f, a + n) = Cardinality(S \cup T)
  BY <1>1 DEF Before
<1>7. Before(f, a) = Cardinality(S)
  BY DEF Before, S
<1> QED
  BY <1>2, <1>3, <1>4, <1>5, <1>6, <1>7

\* Further on there are no fewer.
LEMMA BeforeGrows ==
  ASSUME NEW f, NEW a \in Nat, NEW b \in Nat, a <= b
  PROVE  Before(f, a) <= Before(f, b)
<1>1. {k \in 1..a : PacketAt(f, k)} \in SUBSET {k \in 1..b : PacketAt(f, k)}
  OBVIOUS
<1>2. IsFiniteSet({k \in 1..b : PacketAt(f, k)})
  BY BeforeType
<1> QED
  BY <1>1, <1>2, FS_Subset DEF Before

\* A packet further on has a greater number.
LEMMA BeforeLater ==
  ASSUME NEW f, NEW a \in Nat, NEW b \in Nat, a < b, PacketAt(f, b)
  PROVE  Before(f, a) < Before(f, b)
<1>1. Before(f, b) = Before(f, b - 1) + 1
  <2>1. PICK c \in Nat : b = c + 1
    OBVIOUS
  <2> QED
    BY <2>1, BeforePacket
<1>2. b - 1 \in Nat /\ a <= b - 1
  OBVIOUS
<1>3. Before(f, a) <= Before(f, b - 1) /\ Before(f, a) \in Nat /\ Before(f, b - 1) \in Nat
  BY <1>2, BeforeGrows, BeforeType
<1> QED
  BY <1>1, <1>3

\* Files with the same packets in front of an offset have as many.
LEMMA BeforeSame ==
  ASSUME NEW f, NEW g, NEW i \in Nat, \A k \in 1..i : PacketAt(f, k) <=> PacketAt(g, k)
  PROVE  Before(f, i) = Before(g, i)
<1>1. {k \in 1..i : PacketAt(f, k)} = {k \in 1..i : PacketAt(g, k)}
  OBVIOUS
<1> QED
  BY <1>1 DEF Before

-----------------------------------------------------------------------------
(***************************************************************************)
(* Cells, and files that grow.                                             *)
(***************************************************************************)

\* The kind of a cell tells what is in it.
LEMMA CellKinds ==
  ASSUME NEW c \in Cell
  PROVE  /\ c.kind \in {"header", "schema", "number", "packet", "entry", "torn"}
         /\ c.kind = "number" => c.n \in Nat
         /\ c.kind = "packet" => c.p \in Packet
         /\ c.kind = "entry" => c \in EntryCell
         /\ c.kind = "header" => c \in HeaderCell
<1>1. CASE c \in HeaderCell
  BY <1>1 DEF HeaderCell
<1>2. CASE c \in EntryCell
  BY <1>2 DEF EntryCell
<1>3. CASE c \in [kind : {"number"}, n : Nat]
  BY <1>3
<1>4. CASE c \in [kind : {"packet"}, p : Packet]
  BY <1>4
<1>5. CASE c \in [kind : {"schema", "torn"}]
  BY <1>5
<1> QED
  BY <1>1, <1>2, <1>3, <1>4, <1>5 DEF Cell

\* What the writer writes are cells.
LEMMA WrittenCells ==
  /\ \A n \in Nat : Number(n) \in Cell /\ Number(n).kind = "number" /\ Number(n).n = n
  /\ \A p \in Packet : PacketCell(p) \in Cell /\ PacketCell(p).kind = "packet" /\ PacketCell(p).p = p
  /\ \A t, offset \in Nat : Entry(t, offset) \in EntryCell /\ Entry(t, offset).t = t /\ Entry(t, offset).offset = offset
  /\ EntryCell \subseteq Cell /\ \A e \in EntryCell : e.kind = "entry" /\ e.t \in Nat /\ e.offset \in Nat
  /\ HeaderCell \subseteq Cell /\ \A h \in HeaderCell : h.kind = "header"
  /\ BlankHeader \in HeaderCell /\ BlankHeader.schema = 0
  /\ [kind |-> "schema"] \in Cell /\ Torn \in Cell /\ Torn.kind = "torn"
<1>1. \A n \in Nat : Number(n) \in Cell /\ Number(n).kind = "number" /\ Number(n).n = n
  BY DEF Number, Cell
<1>2. \A p \in Packet : PacketCell(p) \in Cell /\ PacketCell(p).kind = "packet" /\ PacketCell(p).p = p
  BY DEF PacketCell, Cell
<1>3. \A t, offset \in Nat : Entry(t, offset) \in EntryCell /\ Entry(t, offset).t = t /\ Entry(t, offset).offset = offset
  BY DEF Entry, EntryCell
<1>4. EntryCell \subseteq Cell /\ \A e \in EntryCell : e.kind = "entry" /\ e.t \in Nat /\ e.offset \in Nat
  BY DEF EntryCell, Cell
<1>5. HeaderCell \subseteq Cell /\ \A h \in HeaderCell : h.kind = "header"
  BY DEF HeaderCell, Cell
<1>6. BlankHeader \in HeaderCell /\ BlankHeader.schema = 0
  BY DEF BlankHeader, Header, HeaderCell
<1>7. [kind |-> "schema"] \in Cell /\ Torn \in Cell /\ Torn.kind = "torn"
  BY DEF Torn, Cell
<1> QED
  BY <1>1, <1>2, <1>3, <1>4, <1>5, <1>6, <1>7

\* The cells of a chunk.
LEMMA ChunkCellsAre ==
  ASSUME NEW chunk \in Seq(Packet)
  PROVE  LET s == ChunkCells(chunk)
         IN /\ s \in Seq(Cell) /\ Len(s) = 3 + Len(chunk)
            /\ s[1] = Number(0) /\ s[2] = Number(Len(chunk)) /\ s[3] = Number(Len(chunk))
            /\ \A i \in 1..Len(chunk) : s[3 + i] = PacketCell(chunk[i])
<1> DEFINE a == <<Number(0), Number(Len(chunk)), Number(Len(chunk))>>
           b == [i \in 1..Len(chunk) |-> PacketCell(chunk[i])]
<1>1. a \in Seq(Cell) /\ Len(a) = 3 /\ a[1] = Number(0) /\ a[2] = Number(Len(chunk)) /\ a[3] = Number(Len(chunk))
  BY WrittenCells
<1>2. b \in Seq(Cell) /\ Len(b) = Len(chunk) /\ \A i \in 1..Len(chunk) : b[i] = PacketCell(chunk[i])
  <2>1. \A i \in 1..Len(chunk) : PacketCell(chunk[i]) \in Cell
    BY WrittenCells
  <2> QED
    BY <2>1
<1>3. ChunkCells(chunk) = a \o b
  BY DEF ChunkCells
<1> HIDE DEF a, b
<1>4. a \o b \in Seq(Cell) /\ Len(a \o b) = 3 + Len(chunk)
      /\ \A i \in 1..3 + Len(chunk) : (a \o b)[i] = IF i <= 3 THEN a[i] ELSE b[i - 3]
  <2>1. a \o b \in Seq(Cell) /\ Len(a \o b) = Len(a) + Len(b)
        /\ \A i \in 1..Len(a) + Len(b) : (a \o b)[i] = IF i <= Len(a) THEN a[i] ELSE b[i - Len(a)]
    <3>1. a \in Seq(Cell) /\ b \in Seq(Cell)
      BY <1>1, <1>2
    <3> QED
      BY <3>1, ConcatProperties
  <2>2. Len(a) = 3 /\ Len(b) = Len(chunk)
    BY <1>1, <1>2
  <2> QED
    BY <2>1, <2>2
<1>6. \A i \in 1..Len(chunk) : 3 + i \in 1..3 + Len(chunk) /\ ~(3 + i <= 3) /\ (3 + i) - 3 = i
  OBVIOUS
<1>7. \A i \in 1..Len(chunk) : (a \o b)[3 + i] = PacketCell(chunk[i])
  BY <1>2, <1>4, <1>6
<1>8. Len(chunk) \in Nat
  OBVIOUS
<1>9. \A i \in 1..3 : (a \o b)[i] = a[i]
  BY <1>4, <1>8
<1> QED
  BY <1>1, <1>3, <1>4, <1>7, <1>9

\* What a series of calls leaves: the cells up to where it got, and a torn one.
LEMMA WrittenAre ==
  ASSUME NEW cells \in Seq(Cell), NEW o, o.done \in 0..Len(cells), o.torn \in BOOLEAN
  PROVE  LET s == Written(cells, o)
         IN /\ s \in Seq(Cell) /\ Len(s) = o.done + (IF o.torn THEN 1 ELSE 0)
            /\ \A i \in 1..o.done : s[i] = cells[i]
            /\ o.torn => s[o.done + 1] = Torn
<1> DEFINE a == SubSeq(cells, 1, o.done)
           b == IF o.torn THEN <<Torn>> ELSE <<>>
<1>1. a \in Seq(Cell) /\ Len(a) = o.done /\ \A i \in 1..o.done : a[i] = cells[i]
  OBVIOUS
<1>2. b \in Seq(Cell) /\ Len(b) = (IF o.torn THEN 1 ELSE 0) /\ (o.torn => b[1] = Torn)
  BY WrittenCells
<1>3. Written(cells, o) = a \o b
  BY DEF Written
<1> HIDE DEF a, b
<1>4. a \o b \in Seq(Cell) /\ Len(a \o b) = Len(a) + Len(b)
      /\ \A i \in 1..Len(a) + Len(b) : (a \o b)[i] = IF i <= Len(a) THEN a[i] ELSE b[i - Len(a)]
  BY <1>1, <1>2, ConcatProperties
<1>5. ASSUME o.torn PROVE (a \o b)[o.done + 1] = b[1]
  BY <1>1, <1>2, <1>4, <1>5
<1> QED
  BY <1>1, <1>2, <1>3, <1>4, <1>5

\* Where the cells of a file that grew are.
LEMMA Grown ==
  ASSUME NEW f \in Seq(Cell), NEW s \in Seq(Cell)
  PROVE  /\ f \o s \in Seq(Cell) /\ Len(f \o s) = Len(f) + Len(s)
         /\ \A i \in 1..Len(f) : (f \o s)[i] = f[i]
         /\ \A i \in 1..Len(s) : (f \o s)[Len(f) + i] = s[i]
         /\ \A i \in 1..Len(f) : PacketAt(f \o s, i) <=> PacketAt(f, i)
<1>1. f \o s \in Seq(Cell) /\ Len(f \o s) = Len(f) + Len(s)
      /\ \A i \in 1..Len(f) + Len(s) : (f \o s)[i] = IF i <= Len(f) THEN f[i] ELSE s[i - Len(f)]
  BY ConcatProperties
<1>2. Len(f) \in Nat /\ Len(s) \in Nat
  OBVIOUS
<1>3. \A i \in 1..Len(f) : (f \o s)[i] = f[i]
  BY <1>1, <1>2
<1>4. \A i \in 1..Len(s) : Len(f) + i \in 1..Len(f) + Len(s) /\ ~(Len(f) + i <= Len(f)) /\ (Len(f) + i) - Len(f) = i
  BY <1>2
<1>5. \A i \in 1..Len(s) : (f \o s)[Len(f) + i] = s[i]
  BY <1>1, <1>4
<1>6. \A i \in 1..Len(f) : i \in 1..Len(f \o s)
  BY <1>1, <1>2
<1> QED
  BY <1>1, <1>3, <1>5, <1>6 DEF PacketAt

\* The packets of a file that grew keep their numbers.
LEMMA BeforeGrown ==
  ASSUME NEW f \in Seq(Cell), NEW s \in Seq(Cell), NEW i \in 0..Len(f)
  PROVE  Before(f \o s, i) = Before(f, i)
<1>1. \A k \in 1..i : PacketAt(f \o s, k) <=> PacketAt(f, k)
  BY Grown
<1> QED
  BY <1>1, BeforeSame

\* A file stays numbered when the packets it grows by have their numbers.
LEMMA NumberedGrows ==
  ASSUME NEW f \in Seq(Cell), NEW s \in Seq(Cell), NEW times, Numbered(f, times),
         Before(f \o s, Len(f \o s)) <= Len(times),
         \A i \in 1..Len(s) : s[i].kind = "packet" =>
           s[i].p = [n |-> Before(f \o s, Len(f) + i), t |-> times[Before(f \o s, Len(f) + i)]]
  PROVE  Numbered(f \o s, times)
<1> DEFINE g == f \o s
<1> SUFFICES ASSUME NEW k \in 1..Len(g), g[k].kind = "packet"
             PROVE  g[k].p = [n |-> Before(g, k), t |-> times[Before(g, k)]]
  BY DEF Numbered
<1>1. Len(f) \in Nat /\ Len(s) \in Nat /\ Len(g) = Len(f) + Len(s)
  BY Grown
<1>2. CASE k <= Len(f)
  <2>1. k \in 1..Len(f) /\ g[k] = f[k]
    BY <1>1, <1>2, Grown
  <2>2. Before(g, k) = Before(f, k)
    BY <2>1, BeforeGrown
  <2> QED
    BY <2>1, <2>2 DEF Numbered
<1>3. CASE k > Len(f)
  <2>1. k - Len(f) \in 1..Len(s) /\ Len(f) + (k - Len(f)) = k
    BY <1>1, <1>3
  <2>2. g[k] = s[k - Len(f)]
    BY <2>1, Grown
  <2> HIDE DEF g
  <2> QED
    BY <2>1, <2>2 DEF g
<1> QED
  BY <1>1, <1>2, <1>3

\* Cells that are not packets change no number.
LEMMA NumberedPlain ==
  ASSUME NEW f \in Seq(Cell), NEW s \in Seq(Cell), NEW times, Numbered(f, times),
         \A i \in 1..Len(s) : s[i].kind # "packet"
  PROVE  Before(f \o s, Len(f \o s)) = Before(f, Len(f)) /\ Numbered(f \o s, times)
<1>1. Len(f) \in Nat /\ Len(s) \in Nat /\ Len(f \o s) = Len(f) + Len(s)
  BY Grown
<1>2. \A k \in Len(f) + 1..Len(f \o s) : ~PacketAt(f \o s, k)
  <2> SUFFICES ASSUME NEW k \in Len(f) + 1..Len(f \o s) PROVE (f \o s)[k].kind # "packet"
    BY DEF PacketAt
  <2>1. k - Len(f) \in 1..Len(s) /\ Len(f) + (k - Len(f)) = k
    BY <1>1
  <2> QED
    BY <2>1, Grown
<1>3. Before(f \o s, Len(f \o s)) = Before(f \o s, Len(f))
  BY <1>1, <1>2, BeforeGap
<1>4. Before(f \o s, Len(f)) = Before(f, Len(f))
  BY <1>1, BeforeGrown
<1>5. Before(f, Len(f)) <= Len(times)
  BY DEF Numbered
<1> QED
  BY <1>3, <1>4, <1>5, NumberedGrows

\* A chunk whose packets go on from the last one of the file keeps it numbered.
LEMMA NumberedChunk ==
  ASSUME NEW f \in Seq(Cell), NEW chunk \in Seq(Packet), NEW times, times \in Seq(Nat), Numbered(f, times),
         Before(f, Len(f)) + Len(chunk) <= Len(times),
         \A i \in 1..Len(chunk) :
           chunk[i] = [n |-> Before(f, Len(f)) + i, t |-> times[Before(f, Len(f)) + i]]
  PROVE  LET g == f \o ChunkCells(chunk)
         IN Before(g, Len(g)) = Before(f, Len(f)) + Len(chunk) /\ Numbered(g, times)
<1> DEFINE s == ChunkCells(chunk)
           g == f \o s
           b == Before(f, Len(f))
<1>1. s \in Seq(Cell) /\ Len(s) = 3 + Len(chunk) /\ Len(chunk) \in Nat
      /\ \A i \in 1..Len(chunk) : s[3 + i] = PacketCell(chunk[i])
  BY ChunkCellsAre
<1>2. \A i \in 1..3 : s[i].kind = "number"
  BY ChunkCellsAre, WrittenCells
<1>3. \A i \in 1..Len(chunk) : s[3 + i].kind = "packet" /\ s[3 + i].p = chunk[i]
  BY <1>1, WrittenCells
<1> HIDE DEF s
<1>4. Len(f) \in Nat /\ Len(g) = Len(f) + 3 + Len(chunk)
  <2>1. Len(g) = Len(f) + Len(s)
    BY <1>1, Grown
  <2> HIDE DEF g
  <2> QED
    BY <1>1, <2>1
<1>5. \A i \in 1..Len(s) : g[Len(f) + i] = s[i] /\ Len(f) + i \in 1..Len(g)
  BY <1>1, <1>4, Grown
<1>6. \A k \in Len(f) + 1..Len(f) + 3 : ~PacketAt(g, k)
  <2> TAKE k \in Len(f) + 1..Len(f) + 3
  <2>1. k - Len(f) \in 1..3 /\ k - Len(f) \in 1..Len(s) /\ Len(f) + (k - Len(f)) = k
    <3>1. Len(f) \in Nat /\ Len(chunk) \in Nat /\ Len(s) = 3 + Len(chunk)
      BY <1>1, <1>4
    <3>2. \A x, y \in Nat : \A j \in x + 1..x + 3 : j - x \in 1..3 /\ j - x \in 1..3 + y /\ x + (j - x) = j
      OBVIOUS
    <3> QED
      BY <3>1, <3>2
  <2>2. g[k] = s[k - Len(f)]
    BY <2>1, <1>5
  <2>3. g[k].kind = "number"
    BY <2>1, <2>2, <1>2
  <2> QED
    BY <2>3 DEF PacketAt
<1>7. \A k \in (Len(f) + 3) + 1..(Len(f) + 3) + Len(chunk) : PacketAt(g, k)
  <2> TAKE k \in (Len(f) + 3) + 1..(Len(f) + 3) + Len(chunk)
  <2>1. PICK i \in 1..Len(chunk) : k = Len(f) + (3 + i) /\ 3 + i \in 1..Len(s)
    <3>1. k - Len(f) - 3 \in 1..Len(chunk) /\ k = Len(f) + (3 + (k - Len(f) - 3)) /\ 3 + (k - Len(f) - 3) \in 1..Len(s)
      BY <1>1, <1>4
    <3> QED
      BY <3>1
  <2>2. g[k].kind = "packet" /\ k \in 1..Len(g)
    BY <2>1, <1>3, <1>5
  <2> QED
    BY <2>2 DEF PacketAt
<1> HIDE DEF g
<1>8. Before(g, Len(f) + 3) = b
  <2>1. Before(g, Len(f) + 3) = Before(g, Len(f))
    BY <1>4, <1>6, BeforeGap
  <2>2. Before(g, Len(f)) = b
    BY <1>1, <1>4, BeforeGrown DEF g
  <2> QED
    BY <2>1, <2>2
<1>9. \A i \in 0..Len(chunk) : Before(g, Len(f) + (3 + i)) = b + i
  <2> TAKE i \in 0..Len(chunk)
  <2>1. Len(f) + 3 \in Nat /\ i \in Nat /\ Len(f) + (3 + i) = (Len(f) + 3) + i
        /\ (Len(f) + 3) + 1..(Len(f) + 3) + i \subseteq (Len(f) + 3) + 1..(Len(f) + 3) + Len(chunk)
    BY <1>1, <1>4
  <2> QED
    BY <2>1, <1>7, <1>8, BeforeRun
<1>10. Before(g, Len(g)) = b + Len(chunk)
  <2>1. Len(chunk) \in 0..Len(chunk) /\ Len(g) = Len(f) + (3 + Len(chunk))
    BY <1>1, <1>4
  <2> QED
    BY <2>1, <1>9
<1>11. \A i \in 1..Len(s) : s[i].kind = "packet" =>
         s[i].p = [n |-> Before(g, Len(f) + i), t |-> times[Before(g, Len(f) + i)]]
  <2> TAKE i \in 1..Len(s)
  <2>1. CASE i \in 1..3
    BY <2>1, <1>2
  <2>2. CASE i > 3
    <3>1. PICK j \in 1..Len(chunk) : i = 3 + j
      <4>1. i - 3 \in 1..Len(chunk) /\ i = 3 + (i - 3)
        BY <1>1, <2>2
      <4> QED
        BY <4>1
    <3>2. Before(g, Len(f) + i) = b + j
      BY <3>1, <1>9
    <3> QED
      BY <3>1, <3>2, <1>3
  <2> QED
    BY <1>1, <2>1, <2>2
<1> QED
  BY <1>1, <1>10, <1>11, NumberedGrows DEF g, s

\* A recording that goes on leaves the numbers of a file.
LEMMA NumberedLonger ==
  ASSUME NEW f \in Seq(Cell), NEW times \in Seq(Nat), NEW t \in Nat, Numbered(f, times)
  PROVE  Numbered(f, Append(times, t))
<1>1. Len(Append(times, t)) = Len(times) + 1 /\ \A i \in 1..Len(times) : Append(times, t)[i] = times[i]
  OBVIOUS
<1>2. Before(f, Len(f)) \in Nat /\ Before(f, Len(f)) <= Len(times)
  <2>1. Len(f) \in Nat
    OBVIOUS
  <2> QED
    BY <2>1, BeforeType DEF Numbered
<1>3. ASSUME NEW k \in 1..Len(f), f[k].kind = "packet"
      PROVE  Before(f, k) \in 1..Len(times)
  <2>1. PacketAt(f, k) /\ k \in Nat /\ 0 < k /\ k <= Len(f) /\ Len(f) \in Nat
    BY <1>3 DEF PacketAt
  <2>2. Before(f, 0) < Before(f, k) /\ Before(f, k) <= Before(f, Len(f)) /\ Before(f, k) \in Nat
    BY <2>1, BeforeLater, BeforeGrows, BeforeType
  <2> QED
    BY <2>2, <1>2, BeforeNone
<1> QED
  BY <1>1, <1>2, <1>3 DEF Numbered

\* Files of one length that differ only in cells that are not packets.
LEMMA NumberedSame ==
  ASSUME NEW f \in Seq(Cell), NEW g \in Seq(Cell), NEW times, Numbered(f, times), Len(g) = Len(f),
         \A k \in 1..Len(f) : g[k] = f[k] \/ (f[k].kind # "packet" /\ g[k].kind # "packet")
  PROVE  Before(g, Len(g)) = Before(f, Len(f)) /\ Numbered(g, times)
<1>1. \A k \in 1..Len(f) : PacketAt(g, k) <=> PacketAt(f, k)
  BY DEF PacketAt
<1>2. \A k \in 0..Len(f) : Before(g, k) = Before(f, k)
  <2> TAKE k \in 0..Len(f)
  <2>1. k \in Nat /\ 1..k \subseteq 1..Len(f)
    OBVIOUS
  <2> QED
    BY <2>1, <1>1, BeforeSame
<1>3. Len(f) \in 0..Len(f) /\ 1..Len(f) \subseteq 0..Len(f)
  OBVIOUS
<1>4. ASSUME NEW k \in 1..Len(g), g[k].kind = "packet"
      PROVE  g[k] = f[k] /\ k \in 1..Len(f) /\ Before(g, k) = Before(f, k)
  BY <1>2, <1>3, <1>4
<1> QED
  BY <1>2, <1>3, <1>4 DEF Numbered

-----------------------------------------------------------------------------
(***************************************************************************)
(* Where chunks begin and end.                                             *)
(***************************************************************************)

\* The cells of a chunk lie in front of the end: three numbers, then packets.
LEMMA ChunkInside ==
  ASSUME NEW f \in Seq(Cell), NEW end \in 3..Len(f), NEW o \in 3..end - 1, ChunkAt(f, o, end)
  PROVE  /\ f[o + 3].n \in Nat \ {0} /\ o + 3 + f[o + 3].n \in o + 4..end
         /\ \A k \in o + 1..o + 3 : k \in 1..Len(f) /\ ~PacketAt(f, k)
         /\ \A k \in o + 4..o + 3 + f[o + 3].n : PacketAt(f, k)
<1>1. f[o + 3].n \in 1..end - (o + 3)
  BY DEF ChunkAt
<1>2. PICK n \in Nat \ {0} : n = f[o + 3].n /\ o + 3 + n <= end
  BY <1>1
<1>3. \A k \in o + 1..o + 3 : k \in 1..Len(f) /\ k - o \in 1..3 /\ o + (k - o) = k
  BY <1>2
<1>4. \A k \in o + 1..o + 3 : f[k].kind = "number"
  BY <1>3 DEF ChunkAt
<1>5. \A k \in o + 4..o + 3 + n : k \in 1..Len(f) /\ k - (o + 3) \in 1..n /\ o + 3 + (k - (o + 3)) = k
  BY <1>2
<1>6. \A k \in o + 4..o + 3 + n : f[k].kind = "packet"
  BY <1>2, <1>5 DEF ChunkAt
<1> QED
  BY <1>2, <1>3, <1>4, <1>5, <1>6 DEF PacketAt

\* The packets in front of a chunk, of each of its own and of its end.
LEMMA ChunkBefore ==
  ASSUME NEW f \in Seq(Cell), NEW end \in 3..Len(f), NEW o \in 3..end - 1, ChunkAt(f, o, end)
  PROVE  /\ \A i \in 0..f[o + 3].n : Before(f, o + 3 + i) = Before(f, o) + i
         /\ Before(f, o) + f[o + 3].n <= Before(f, end)
<1>1. PICK n \in Nat \ {0} : n = f[o + 3].n /\ o + 3 + n <= end
  BY ChunkInside
<1>2. Before(f, o + 3) = Before(f, o)
  <2>1. o \in Nat /\ o + 3 \in Nat /\ o <= o + 3
    OBVIOUS
  <2> QED
    BY <2>1, ChunkInside, BeforeGap
<1>3. \A i \in 0..n : Before(f, o + 3 + i) = Before(f, o) + i
  <2> TAKE i \in 0..n
  <2>1. o + 3 \in Nat /\ i \in Nat /\ (o + 3) + 1..(o + 3) + i \subseteq o + 4..o + 3 + n
    BY <1>1
  <2>2. \A k \in (o + 3) + 1..(o + 3) + i : PacketAt(f, k)
    BY <2>1, <1>1, ChunkInside
  <2> QED
    BY <2>1, <2>2, <1>2, BeforeRun
<1>4. Before(f, o) + n <= Before(f, end)
  <2>1. n \in 0..n /\ o + 3 + n \in Nat /\ end \in Nat
    BY <1>1
  <2> QED
    BY <2>1, <1>1, <1>3, BeforeGrows
<1> QED
  BY <1>1, <1>3, <1>4

\* A chunk that follows the end of the chunks is the last of them.
LEMMA LaidNext ==
  ASSUME NEW f \in Seq(Cell), NEW end \in 3..Len(f), NEW later \in end + 1..Len(f),
         Laid(f, end), ChunkAt(f, end, later), later = end + 3 + f[end + 3].n
  PROVE  Laid(f, later)
<1>1. /\ \A k \in end + 1..end + 3 : ~PacketAt(f, k)
      /\ \A k \in end + 4..later : PacketAt(f, k)
  <2>1. later \in 3..Len(f) /\ end \in 3..later - 1
    OBVIOUS
  <2> QED
    BY <2>1, ChunkInside
<1>2. Boundary(f, later)
  BY DEF ChunkAt
<1> SUFFICES ASSUME NEW o \in 3..later - 1, Boundary(f, o) PROVE ChunkAt(f, o, later)
  BY <1>2 DEF Laid
<1>3. CASE o < end
  <2>1. ChunkAt(f, o, end)
    BY <1>3 DEF Laid
  <2>2. \A n : n \in 1..end - (o + 3) => n \in 1..later - (o + 3)
    OBVIOUS
  <2> QED
    BY <2>1, <2>2 DEF ChunkAt
<1>4. CASE o = end
  BY <1>4
<1>5. CASE o > end
  <2>1. PacketAt(f, o) /\ ~PacketAt(f, o + 1)
    BY <1>5 DEF Boundary
  <2>2. o \notin end + 1..end + 3
    BY <2>1, <1>1
  <2>3. o + 1 \in end + 4..later
    BY <1>5, <2>2
  <2> QED
    BY <2>1, <2>3, <1>1
<1> QED
  BY <1>3, <1>4, <1>5

\* Two files with the same chunks up to an offset: nothing between the schema and that
\* offset differs, and none goes on with a packet there.
SameChunks(f, g, end) ==
  /\ Len(g) >= end /\ \A k \in 4..end : g[k] = f[k]
  /\ \A k \in {1, 2, 3, end + 1} : ~PacketAt(f, k) /\ ~PacketAt(g, k)

\* Then chunks begin and end at the same offsets in both.
LEMMA BoundarySame ==
  ASSUME NEW f \in Seq(Cell), NEW g \in Seq(Cell), NEW end \in 3..Len(f), SameChunks(f, g, end)
  PROVE  \A o \in 3..end : Boundary(f, o) <=> Boundary(g, o)
<1>1. \A k \in 4..end : PacketAt(g, k) <=> PacketAt(f, k)
  BY DEF PacketAt, SameChunks
<1>2. \A o \in 3..end : o = 3 \/ (o \in 4..end /\ (o + 1 \in 4..end \/ o + 1 = end + 1))
  OBVIOUS
<1>3. ~PacketAt(f, end + 1) /\ ~PacketAt(g, end + 1)
  BY DEF SameChunks
<1> QED
  BY <1>1, <1>2, <1>3 DEF Boundary

\* As many packets are in front of each of those offsets.
LEMMA SameBefore ==
  ASSUME NEW f \in Seq(Cell), NEW g \in Seq(Cell), NEW end \in 3..Len(f), SameChunks(f, g, end), NEW o \in 3..end
  PROVE  Before(g, o) = Before(f, o)
<1>1. \A k \in 1..end : PacketAt(g, k) <=> PacketAt(f, k)
  <2>1. Len(g) >= end
    BY DEF SameChunks
  <2>2. \A k \in 1..end : k \in {1, 2, 3, end + 1} \/ (k \in 4..end /\ k \in 1..Len(f) /\ k \in 1..Len(g))
    BY <2>1
  <2> QED
    BY <2>2 DEF PacketAt, SameChunks
<1>2. o \in Nat /\ 1..o \subseteq 1..end
  OBVIOUS
<1> QED
  BY <1>1, <1>2, BeforeSame

\* And the layout is the same.
LEMMA LaidSame ==
  ASSUME NEW f \in Seq(Cell), NEW g \in Seq(Cell), NEW end, Laid(f, end), SameChunks(f, g, end)
  PROVE  Laid(g, end)
<1>1. end \in 3..Len(f) /\ Boundary(f, end)
  BY DEF Laid
<1>2. \A o \in 3..end : Boundary(f, o) <=> Boundary(g, o)
  BY <1>1, BoundarySame
<1>3. end \in 3..Len(g) /\ Boundary(g, end)
  BY <1>1, <1>2 DEF SameChunks
<1> SUFFICES ASSUME NEW o \in 3..end - 1, Boundary(g, o) PROVE ChunkAt(g, o, end)
  BY <1>3 DEF Laid
<1>4. ChunkAt(f, o, end)
  BY <1>1, <1>2 DEF Laid
<1>5. PICK n \in Nat \ {0} : n = f[o + 3].n /\ n \in 1..end - (o + 3)
  BY <1>1, <1>4, ChunkInside DEF ChunkAt
<1>6. \A i \in 1..3 : o + i \in 4..end /\ g[o + i] = f[o + i]
  <2>1. o \in Nat /\ end \in Nat /\ o >= 3 /\ o + 4 <= end
    BY <1>1, <1>5
  <2>2. \A i \in 1..3 : o + i \in 4..end
    BY <2>1
  <2> QED
    BY <2>2 DEF SameChunks
<1>7. \A i \in 1..n : o + 3 + i \in 4..end /\ g[o + 3 + i] = f[o + 3 + i]
  BY <1>1, <1>5 DEF SameChunks
<1>8. o + 3 + n \in 3..end
  BY <1>1, <1>5
<1>9. g[o + 2] = f[o + 2] /\ g[o + 3] = f[o + 3]
  BY <1>6
<1> QED
  BY <1>2, <1>4, <1>5, <1>6, <1>7, <1>8, <1>9 DEF ChunkAt

\* The end of the chunks is not followed by a packet.
LEMMA LaidEnd == ASSUME NEW f, NEW end, Laid(f, end), end > 3 PROVE PacketAt(f, end) /\ ~PacketAt(f, end + 1)
BY DEF Laid, Boundary

\* The packet an entry of the footer points to is one of the file's.
LEMMA EntryInside ==
  ASSUME NEW f \in Seq(Cell), NEW end, Laid(f, end), NEW times, NEW e, EntryOK(f, times, end, e)
  PROVE  Before(f, e.offset) \in Nat /\ Before(f, e.offset) + 1 <= Before(f, end)
<1>1. end \in 3..Len(f) /\ e.offset \in 3..end - 1 /\ ChunkAt(f, e.offset, end)
  BY DEF EntryOK, Laid
<1>2. f[e.offset + 3].n \in Nat \ {0} /\ Before(f, e.offset) + f[e.offset + 3].n <= Before(f, end)
  BY <1>1, ChunkInside, ChunkBefore
<1>3. Before(f, e.offset) \in Nat /\ Before(f, end) \in Nat
  <2>1. e.offset \in Nat /\ end \in Nat
    BY <1>1
  <2> QED
    BY <2>1, BeforeType
<1> QED
  BY <1>2, <1>3

\* The entries of the footer stay right when chunks follow, and packets that are not
\* written yet.
LEMMA EntriesSame ==
  ASSUME NEW f \in Seq(Cell), NEW g \in Seq(Cell), NEW end, NEW later \in Nat, end <= later,
         Laid(f, end), SameChunks(f, g, end), NEW times, NEW times2, Before(f, end) <= Len(times), Len(times) \in Nat,
         \A i \in 1..Len(times) : times2[i] = times[i], NEW entries, EntriesOK(f, times, end, entries)
  PROVE  EntriesOK(g, times2, later, entries)
<1> SUFFICES ASSUME NEW j \in 1..Len(entries) PROVE EntryOK(g, times2, later, entries[j])
  <2>1. \A i, j \in 1..Len(entries) : i < j => entries[i].offset < entries[j].offset
    BY DEF EntriesOK
  <2> QED
    BY <2>1 DEF EntriesOK
<1> DEFINE e == entries[j]
<1>0. EntryOK(f, times, end, e)
  BY DEF EntriesOK
<1> HIDE DEF e
<1>1. end \in 3..Len(f) /\ e.offset \in 3..end - 1 /\ Boundary(f, e.offset)
  BY <1>0 DEF Laid, EntryOK
<1>2. Boundary(g, e.offset) /\ Before(g, e.offset) = Before(f, e.offset)
  <2>1. e.offset \in 3..end
    BY <1>1
  <2> QED
    BY <1>1, <2>1, BoundarySame, SameBefore
<1>4. Before(f, e.offset) + 1 \in 1..Len(times)
  <2>1. Before(f, e.offset) \in Nat /\ Before(f, e.offset) + 1 <= Before(f, end)
    BY <1>0, EntryInside
  <2>2. Before(f, end) \in Nat
    <3>1. end \in Nat
      BY <1>1
    <3> QED
      BY <3>1, BeforeType
  <2> QED
    BY <2>1, <2>2
<1>5. e.offset \in 3..later - 1
  BY <1>1
<1>6. EntryOK(g, times2, later, e)
  BY <1>0, <1>2, <1>4, <1>5 DEF EntryOK
<1> QED
  BY <1>6 DEF e

-----------------------------------------------------------------------------
(***************************************************************************)
(* Least numbers and sorted times.                                         *)
(***************************************************************************)

\* A set of natural numbers has a least one.
LEMMA Least ==
  ASSUME NEW S \in SUBSET Nat, S # {}
  PROVE  \E m \in S : \A k \in S : m <= k
<1> DEFINE R == {ss \in Nat \X Nat : ss[1] < ss[2]}
<1>1. IsWellFoundedOn(R, Nat)
  BY NatLessThanWellFounded DEF OpToRel
<1>2. \A m, k \in Nat : <<k, m>> \in R <=> k < m
  OBVIOUS
<1> HIDE DEF R
<1>3. PICK m \in S : \A k \in S : ~(<<k, m>> \in R)
  BY <1>1, WFMin
<1>4. \A k \in S : m <= k
  <2> TAKE k \in S
  <2>1. k \in Nat /\ m \in Nat /\ ~(k < m)
    BY <1>2, <1>3
  <2> QED
    BY <2>1
<1> QED
  BY <1>4

\* Min is that number.
LEMMA MinIsLeast ==
  ASSUME NEW S \in SUBSET Nat, S # {}
  PROVE  Min(S) \in S /\ \A k \in S : Min(S) <= k
BY Least DEF Min

\* Times that never go back from one packet to the next never go back.
LEMMA SortedPairs ==
  ASSUME NEW times \in Seq(Nat), \A i \in 1..Len(times) - 1 : times[i] <= times[i + 1],
         NEW j \in 1..Len(times), NEW k \in j..Len(times)
  PROVE  times[j] <= times[k]
<1> DEFINE S == {i \in j..Len(times) : times[i] < times[j]}
<1> SUFFICES ASSUME S # {} PROVE FALSE
  <2>1. times[j] \in Nat /\ times[k] \in Nat
    OBVIOUS
  <2> QED
    BY <2>1
<1>1. S \in SUBSET Nat
  OBVIOUS
<1>2. PICK m \in S : \A i \in S : m <= i
  <2> HIDE DEF S
  <2> QED
    BY <1>1, Least
<1>3. m \in j + 1..Len(times) /\ m - 1 \in j..Len(times) /\ m - 1 \notin S /\ m - 1 \in 1..Len(times) - 1
  <2>1. m \in j..Len(times) /\ times[m] < times[j] /\ times[j] \in Nat
    OBVIOUS
  <2>2. m # j
    BY <2>1
  <2>3. m - 1 \notin S
    BY <1>2, <2>1
  <2> QED
    BY <2>1, <2>2, <2>3
<1>4. times[m - 1] <= times[m] /\ times[m - 1] \in Nat /\ times[m] \in Nat /\ times[j] \in Nat
  <2>1. times[m - 1] <= times[(m - 1) + 1] /\ (m - 1) + 1 = m
    BY <1>3
  <2> QED
    BY <1>3, <2>1
<1>5. times[m] < times[j] /\ ~(times[m - 1] < times[j])
  BY <1>3
<1> HIDE DEF S
<1>6. \A x, y, z \in Nat : ~(y <= z /\ z < x /\ ~(y < x))
  OBVIOUS
<1> QED
  BY <1>4, <1>5, <1>6

-----------------------------------------------------------------------------
(***************************************************************************)
(* Writing.                                                                *)
(***************************************************************************)

\* The types that the invariant keeps are those the run checks.
LEMMA TypesTypeOK == FileTypes /\ ReaderTypes => TypeOK
<1> SUFFICES ASSUME FileTypes, ReaderTypes PROVE TypeOK
  OBVIOUS
<1>1. \A c \in ToSet(file) : c.kind \in {"header", "schema", "number", "packet", "entry", "torn"}
  <2> SUFFICES ASSUME NEW c \in ToSet(file) PROVE c \in Cell
    BY CellKinds
  <2>1. PICK i \in DOMAIN file : c = file[i]
    BY DEF ToSet
  <2> QED
    BY <2>1 DEF FileTypes
<1>2. Len(writer.chunk) \in Nat /\ writer.count \in Nat /\ writer.offset \in Nat /\ Len(file) \in Nat
      /\ reader.index \in Nat /\ Len(reader.chunk) \in Nat
  BY DEF FileTypes, ReaderTypes, Writer, Reader
<1>3. MaxPackets \in Nat
  BY RpcapAssumption
<1>4. Len(writer.chunk) <= MaxPackets /\ writer.offset \in 0..Len(file) /\ writer.count \in 0..MaxPackets
      /\ reader.index \in 0..Len(reader.chunk)
  <2>1. /\ writer.count + Len(writer.chunk) <= MaxPackets /\ writer.offset <= Len(file)
        /\ reader.index <= Len(reader.chunk)
    BY DEF FileTypes, ReaderTypes
  <2> QED
    BY <2>1, <1>2, <1>3
<1>5. {writing, reading, sealed, intact} \subseteq BOOLEAN
  BY DEF FileTypes, ReaderTypes
<1> QED
  BY <1>1, <1>4, <1>5 DEF FileTypes, ReaderTypes, TypeOK

\* How far a series of calls may get.
LEMMA OutcomeIs ==
  ASSUME NEW cells \in Seq(Cell), NEW calls \in SUBSET (0..Len(cells) - 1), NEW o \in Outcomes(cells, calls)
  PROVE  /\ o.done \in 0..Len(cells) /\ o.torn \in BOOLEAN
         /\ Succeeds(cells, o) => Written(cells, o) = cells
         /\ ~Succeeds(cells, o) => o.done \in calls /\ faults < MaxFaults
<1>1. \/ o.done = Len(cells) /\ o.torn = FALSE
      \/ faults < MaxFaults /\ o.done \in calls /\ o.torn \in BOOLEAN
  BY DEF Outcomes
<1>2. ASSUME Succeeds(cells, o) PROVE Written(cells, o) = cells
  <2>1. o.done = Len(cells) /\ o.torn = FALSE
    BY <1>1, <1>2 DEF Succeeds
  <2>2. SubSeq(cells, 1, Len(cells)) = cells
    BY SubSeqFull
  <2>3. Written(cells, o) = cells \o <<>>
    BY <2>1, <2>2 DEF Written
  <2> QED
    BY <2>3, ConcatEmptySeq
<1>3. ASSUME ~Succeeds(cells, o) PROVE o.done \in calls /\ faults < MaxFaults
  BY <1>1, <1>3 DEF Succeeds
<1>4. Len(cells) \in 0..Len(cells) /\ calls \subseteq 0..Len(cells)
  OBVIOUS
<1>5. o.done \in 0..Len(cells) /\ o.torn \in BOOLEAN
  BY <1>1, <1>4
<1> QED
  BY <1>2, <1>3, <1>5

\* What FlushChunk leaves of the writer.
LEMMA FlushedIs ==
  ASSUME NEW w \in Writer, w.chunk # <<>>, NEW force \in BOOLEAN, NEW o, o.done \in 0..3 + Len(w.chunk)
  PROVE  LET u == Flushed(w, force, o)
         IN /\ u \in Writer /\ u.open = w.open /\ u.first = w.first /\ u.last = w.last
            /\ u.offset = w.offset + o.done
            /\ u.entries \in {w.entries, Append(w.entries, Entry(Head(w.chunk).t, w.offset))}
            /\ IF o.done = 3 + Len(w.chunk)
                 THEN u.count = w.count + Len(w.chunk) /\ u.chunk = <<>>
                 ELSE u.count = w.count /\ u.chunk = w.chunk
<1> DEFINE v == WithEntry(w, force)
           r == [v EXCEPT !.offset = @ + o.done]
<1>1. Head(w.chunk) \in Packet /\ Len(w.chunk) \in Nat /\ w.offset \in Nat /\ w.count \in Nat /\ o.done \in Nat
  BY DEF Writer
<1>2. Head(w.chunk).t \in Nat
  BY <1>1 DEF Packet
<1>3. v \in Writer /\ v.open = w.open /\ v.first = w.first /\ v.last = w.last /\ v.offset = w.offset
      /\ v.count = w.count /\ v.chunk = w.chunk
      /\ v.entries \in {w.entries, Append(w.entries, Entry(Head(w.chunk).t, w.offset))}
  <2>1. Entry(Head(w.chunk).t, w.offset) \in EntryCell
    BY <1>1, <1>2, WrittenCells
  <2>2. w.entries \in Seq(EntryCell) /\ Append(w.entries, Entry(Head(w.chunk).t, w.offset)) \in Seq(EntryCell)
    BY <2>1 DEF Writer
  <2>3. CASE w.entries = <<>> \/ force
    <3>1. v = [w EXCEPT !.lastKey = Head(w.chunk).t, !.entries = Append(@, Entry(Head(w.chunk).t, w.offset))]
      BY <2>3 DEF WithEntry
    <3> QED
      BY <3>1, <1>2, <2>2 DEF Writer
  <2>4. CASE ~(w.entries = <<>> \/ force)
    <3>1. v = w
      BY <2>4 DEF WithEntry
    <3> QED
      BY <3>1
  <2> QED
    BY <2>3, <2>4
<1> HIDE DEF v
<1>4. r \in Writer /\ r.offset = w.offset + o.done /\ r.open = v.open /\ r.first = v.first /\ r.last = v.last
      /\ r.entries = v.entries /\ r.count = v.count /\ r.chunk = v.chunk
  <2>1. w.offset + o.done \in Nat /\ r = [v EXCEPT !.offset = w.offset + o.done]
    BY <1>1, <1>3
  <2> HIDE DEF r
  <2> QED
    BY <2>1, <1>3 DEF Writer
<1> HIDE DEF r
<1>5. Succeeds(ChunkCells(w.chunk), o) <=> o.done = 3 + Len(w.chunk)
  <2>1. w.chunk \in Seq(Packet)
    BY DEF Writer
  <2> QED
    BY <2>1, ChunkCellsAre DEF Succeeds
<1>6. CASE o.done = 3 + Len(w.chunk)
  <2>1. Flushed(w, force, o) = [r EXCEPT !.count = @ + Len(w.chunk), !.chunk = <<>>]
    BY <1>5, <1>6 DEF Flushed, r, v
  <2> DEFINE count == r.count + Len(w.chunk)
  <2>2. count \in Nat /\ <<>> \in Seq(Packet)
    BY <1>1, <1>3, <1>4
  <2>3. Flushed(w, force, o) = [r EXCEPT !.count = count, !.chunk = <<>>]
    BY <2>1
  <2>4. count = w.count + Len(w.chunk)
    BY <1>3, <1>4
  <2> HIDE DEF count
  <2>5. LET u == Flushed(w, force, o)
        IN /\ u \in Writer /\ u.count = count /\ u.chunk = <<>> /\ u.offset = r.offset /\ u.open = r.open
           /\ u.first = r.first /\ u.last = r.last /\ u.entries = r.entries
    BY <2>2, <2>3, <1>4 DEF Writer
  <2> QED
    BY <2>4, <2>5, <1>3, <1>4, <1>6
<1>7. CASE o.done # 3 + Len(w.chunk)
  <2>1. Flushed(w, force, o) = r
    BY <1>5, <1>7 DEF Flushed, r, v
  <2> QED
    BY <2>1, <1>3, <1>4, <1>7
<1> QED
  BY <1>6, <1>7

\* FlushChunk in a file that is whole: the chunk follows the others, and an entry, if
\* one is made, is that of the chunk.
LEMMA FlushWhole ==
  ASSUME NEW f \in Seq(Cell), NEW times \in Seq(Nat), NEW w \in Writer, w.chunk # <<>>,
         Numbered(f, times), w.count = Before(f, Len(f)), w.count + Len(w.chunk) <= Len(times),
         \A i \in 1..Len(w.chunk) : w.chunk[i] = [n |-> w.count + i, t |-> times[w.count + i]],
         w.offset = Len(f), Laid(f, Len(f)), \A k \in 1..3 : ~PacketAt(f, k),
         EntriesOK(f, times, Len(f), w.entries),
         NEW force \in BOOLEAN, NEW o, o.done = 3 + Len(w.chunk)
  PROVE  LET g == f \o ChunkCells(w.chunk)
             u == Flushed(w, force, o)
         IN u.offset = Len(g) /\ Laid(g, Len(g)) /\ EntriesOK(g, times, Len(g), u.entries)
<1> DEFINE s == ChunkCells(w.chunk)
           g == f \o s
           u == Flushed(w, force, o)
           end == Len(f)
           n == Len(w.chunk)
<1>1. w.chunk \in Seq(Packet) /\ n \in Nat \ {0} /\ w.entries \in Seq(EntryCell) /\ end \in Nat /\ w.offset \in Nat
  BY DEF Writer
<1>2. s \in Seq(Cell) /\ Len(s) = 3 + n
  BY <1>1, ChunkCellsAre
<1>3. (\A i \in 1..3 : s[i].kind = "number") /\ s[2].n = n /\ s[3].n = n
  <2>1. s[1] = Number(0) /\ s[2] = Number(n) /\ s[3] = Number(n)
    BY <1>1, ChunkCellsAre
  <2>2. Number(0).kind = "number" /\ Number(n).kind = "number" /\ Number(n).n = n
    BY <1>1, WrittenCells
  <2>3. \A i \in 1..3 : i = 1 \/ i = 2 \/ i = 3
    OBVIOUS
  <2> HIDE DEF s, n
  <2> QED
    BY <2>1, <2>2, <2>3
<1>5. \A i \in 1..n : s[3 + i].kind = "packet"
  <2> TAKE i \in 1..n
  <2>1. s[3 + i] = PacketCell(w.chunk[i]) /\ w.chunk[i] \in Packet
    BY <1>1, ChunkCellsAre
  <2> QED
    BY <2>1, WrittenCells
<1> HIDE DEF s
<1>0. end = Len(f) /\ n = Len(w.chunk)
  OBVIOUS
<1> HIDE DEF end, n
<1>6. g \in Seq(Cell) /\ Len(g) = end + 3 + n /\ (\A i \in 1..end : g[i] = f[i])
      /\ (\A i \in 1..Len(s) : g[end + i] = s[i]) /\ (\A i \in 1..end : PacketAt(g, i) <=> PacketAt(f, i))
  <2>1. Len(g) = end + Len(s)
    BY <1>0, <1>2, Grown
  <2>2. Len(g) = end + 3 + n
    BY <2>1, <1>1, <1>2
  <2> QED
    BY <2>2, <1>0, <1>2, Grown
<1>e. end \in Nat /\ n \in Nat \ {0} /\ Len(g) = end + 3 + n
  BY <1>1, <1>6
<1>7. end \in 3..Len(f) /\ end \in 3..Len(g) /\ Len(g) >= end /\ Laid(f, end)
  <2>1. end \in 3..Len(f) /\ Laid(f, end)
    BY <1>0 DEF Laid
  <2>2. end \in 3..Len(g) /\ Len(g) >= end
    BY <2>1, <1>e
  <2> QED
    BY <2>1, <2>2
<1>8. (\A i \in 1..3 : g[end + i].kind = "number") /\ g[end + 2].n = n /\ g[end + 3].n = n
  <2>1. \A i \in 1..3 : i \in 1..Len(s)
    BY <1>1, <1>2
  <2>2. \A i \in 1..3 : g[end + i] = s[i]
    BY <2>1, <1>6
  <2>3. 2 \in 1..3 /\ 3 \in 1..3
    OBVIOUS
  <2>4. g[end + 2] = s[2] /\ g[end + 3] = s[3]
    BY <2>2, <2>3
  <2> QED
    BY <2>2, <2>4, <1>3
<1>9. \A i \in 1..n : g[end + 3 + i].kind = "packet"
  <2> TAKE i \in 1..n
  <2>1. 3 + i \in 1..Len(s) /\ end + 3 + i = end + (3 + i)
    <3>1. Len(s) = 3 + n /\ n \in Nat /\ end \in Nat
      BY <1>1, <1>2
    <3> QED
      BY <3>1
  <2> QED
    BY <2>1, <1>5, <1>6
<1>10. ~PacketAt(f, end + 1) /\ ~PacketAt(g, end + 1)
  <2>1. g[end + 1].kind = "number"
    <3>1. 1 \in 1..3
      OBVIOUS
    <3> QED
      BY <3>1, <1>8
  <2>2. ~(end + 1 \in 1..Len(f))
    BY <1>0, <1>1
  <2> QED
    BY <2>1, <2>2 DEF PacketAt
<1>11. \A k \in 4..end : g[k] = f[k]
  BY <1>1, <1>6
<1>12. SameChunks(f, g, end) /\ Laid(g, end)
  <2>1. \A k \in 1..3 : k \in 1..end
    BY <1>7
  <2>2. \A k \in 1..3 : ~PacketAt(g, k)
    BY <2>1, <1>6
  <2>3. SameChunks(f, g, end)
    BY <2>2, <1>7, <1>10, <1>11 DEF SameChunks
  <2> QED
    BY <2>3, <1>6, <1>7, LaidSame
<1>13. Boundary(g, Len(g))
  <2>1. Len(g) = end + 3 + n /\ n \in 1..n /\ Len(g) \in 1..Len(g) /\ ~(Len(g) + 1 \in 1..Len(g))
    BY <1>e
  <2> QED
    BY <2>1, <1>9 DEF Boundary, PacketAt
<1>14. ChunkAt(g, end, Len(g))
  <2>1. Len(g) = end + 3 + n /\ n \in 1..Len(g) - (end + 3)
    BY <1>e
  <2> QED
    BY <2>1, <1>8, <1>9, <1>13 DEF ChunkAt
<1>15. Laid(g, Len(g))
  <2>1. Len(g) \in end + 1..Len(g) /\ Len(g) = end + 3 + g[end + 3].n
    BY <1>e, <1>8
  <2> QED
    BY <2>1, <1>6, <1>7, <1>12, <1>14, LaidNext
<1>16. EntriesOK(g, times, Len(g), w.entries)
  <2>1. Before(f, end) <= Len(times) /\ Len(times) \in Nat
    BY <1>0 DEF Numbered
  <2>2. Len(g) \in Nat /\ end <= Len(g)
    BY <1>e
  <2>3. EntriesOK(f, times, end, w.entries)
    BY <1>0
  <2> QED
    BY <2>1, <2>2, <2>3, <1>6, <1>7, <1>12, EntriesSame
<1>17. EntryOK(g, times, Len(g), Entry(Head(w.chunk).t, w.offset))
  <2>1. Head(w.chunk) = w.chunk[1] /\ 1 \in 1..Len(w.chunk)
    BY <1>0, <1>1
  <2>2. Head(w.chunk) = [n |-> w.count + 1, t |-> times[w.count + 1]] /\ Head(w.chunk) \in Packet
    BY <1>1, <2>1
  <2>3. Head(w.chunk).t = times[w.count + 1] /\ Head(w.chunk).t \in Nat
    BY <2>2 DEF Packet
  <2>4. Entry(Head(w.chunk).t, w.offset).t = times[w.count + 1] /\ Entry(Head(w.chunk).t, w.offset).offset = end
    <3>1. w.offset \in Nat /\ w.offset = end
      BY <1>0, <1>1
    <3>2. \A t, offset \in Nat : Entry(t, offset).t = t /\ Entry(t, offset).offset = offset
      BY WrittenCells
    <3> QED
      BY <3>1, <3>2, <2>3
  <2>5. Before(g, end) = w.count /\ Boundary(g, end) /\ end \in 3..Len(g) - 1
    <3>1. Before(g, end) = Before(f, end)
      <4>1. end \in 0..Len(f)
        BY <1>0, <1>1
      <4> QED
        BY <4>1, <1>2, BeforeGrown DEF g
    <3>2. end \in 3..Len(g) - 1
      BY <1>e, <1>7
    <3> QED
      BY <3>1, <3>2, <1>0, <1>12 DEF Laid
  <2> QED
    BY <2>4, <2>5 DEF EntryOK
<1>18. u.offset = Len(g) /\ u.entries \in {w.entries, Append(w.entries, Entry(Head(w.chunk).t, w.offset))}
  <2>1. o.done \in 0..3 + Len(w.chunk)
    BY <1>0, <1>1
  <2>2. u.offset = w.offset + o.done /\ u.entries \in {w.entries, Append(w.entries, Entry(Head(w.chunk).t, w.offset))}
    BY <2>1, FlushedIs
  <2>3. w.offset + o.done = Len(g)
    <3>1. w.offset = end /\ o.done = 3 + n
      BY <1>0
    <3>2. end + (3 + n) = Len(g)
      BY <1>e
    <3> QED
      BY <3>1, <3>2
  <2> QED
    BY <2>2, <2>3
<1>19. EntriesOK(g, times, Len(g), u.entries)
  <2>1. CASE u.entries = w.entries
    BY <2>1, <1>16
  <2>2. CASE u.entries = Append(w.entries, Entry(Head(w.chunk).t, w.offset))
    <3>1. Len(u.entries) = Len(w.entries) + 1 /\ u.entries[Len(w.entries) + 1] = Entry(Head(w.chunk).t, w.offset)
          /\ \A i \in 1..Len(w.entries) : u.entries[i] = w.entries[i]
      BY <1>1, <2>2
    <3>2. \A i \in 1..Len(u.entries) : i \in 1..Len(w.entries) \/ i = Len(w.entries) + 1
      BY <1>1, <3>1
    <3>3. \A i \in 1..Len(u.entries) : EntryOK(g, times, Len(g), u.entries[i])
      BY <3>1, <3>2, <1>16, <1>17 DEF EntriesOK
    <3>4. ASSUME NEW i \in 1..Len(u.entries), NEW j \in 1..Len(u.entries), i < j
          PROVE  u.entries[i].offset < u.entries[j].offset
      <4>1. CASE j \in 1..Len(w.entries)
        <5>1. i \in 1..Len(w.entries)
          BY <4>1, <3>4
        <5> QED
          BY <5>1, <4>1, <3>1, <3>4, <1>16 DEF EntriesOK
      <4>2. CASE j = Len(w.entries) + 1
        <5>1. i \in 1..Len(w.entries)
          BY <4>2, <3>2, <3>4
        <5>2. u.entries[i].offset \in 3..end - 1
          BY <5>1, <3>1, <1>0 DEF EntriesOK, EntryOK
        <5>3. u.entries[j].offset = end
          <6>1. w.offset \in Nat /\ w.offset = end
            BY <1>0, <1>1
          <6>2. Head(w.chunk) \in Packet
            BY <1>0, <1>1
          <6>3. Head(w.chunk).t \in Nat
            BY <6>2 DEF Packet
          <6>5. \A t, offset \in Nat : Entry(t, offset).offset = offset
            BY WrittenCells
          <6>4. Entry(Head(w.chunk).t, w.offset).offset = end
            BY <6>1, <6>3, <6>5
          <6> QED
            BY <6>4, <4>2, <3>1
        <5>4. \A a \in 3..end - 1 : a < end
          BY <1>e
        <5> QED
          BY <5>2, <5>3, <5>4
      <4> QED
        BY <4>1, <4>2, <3>2
    <3> QED
      BY <3>3, <3>4 DEF EntriesOK
  <2> QED
    BY <2>1, <2>2, <1>18
<1> QED
  BY <1>15, <1>18, <1>19 DEF g, s

\* A file without packets.
LEMMA NoPackets ==
  ASSUME NEW f \in Seq(Cell), NEW times \in Seq(Nat), \A k \in 1..Len(f) : f[k].kind # "packet"
  PROVE  Before(f, Len(f)) = 0 /\ Numbered(f, times)
<1>1. \A k \in 1..Len(f) : ~PacketAt(f, k)
  BY DEF PacketAt
<1>2. Before(f, Len(f)) = Before(f, 0)
  <2>1. 0 \in Nat /\ Len(f) \in Nat /\ 0 <= Len(f) /\ 0 + 1..Len(f) = 1..Len(f)
    OBVIOUS
  <2> QED
    BY <2>1, <1>1, BeforeGap
<1>3. Len(times) \in Nat
  OBVIOUS
<1> QED
  BY <1>2, <1>3, BeforeNone DEF Numbered

\* What is not read stays right.
LEMMA ClosedKeeps ==
  ASSUME ~reader.open, UNCHANGED readVars
  PROVE  Forward' /\ Placed'
BY DEF readVars, Forward, Placed

\* A closed writer.
LEMMA NoWriterType ==
  /\ NoWriter \in Writer /\ NoWriter.open = FALSE /\ NoWriter.chunk = <<>> /\ NoWriter.entries = <<>>
  /\ NoWriter.offset = 0 /\ NoWriter.count = 0
  /\ <<>> \in Seq([n : 1..MaxPackets, t : Times]) /\ <<>> \in Seq(Packet) /\ <<>> \in Seq(EntryCell)
BY DEF NoWriter, Writer

\* The start of a file: no packet, no header of a finished recording.
LEMMA CreateKeeps == FileInv /\ CreateFile => FileInv'
<1> SUFFICES ASSUME FileInv, CreateFile PROVE FileInv'
  OBVIOUS
<1> DEFINE start == <<BlankHeader, Number(1), [kind |-> "schema"]>>
<1>1. PICK o \in Outcomes(start, 0..2) :
        /\ file' = Written(start, o)
        /\ writer' = IF Succeeds(start, o) THEN [NoWriter EXCEPT !.open = TRUE, !.offset = 3] ELSE NoWriter
        /\ writing' = Succeeds(start, o)
        /\ faults' = faults + (IF Succeeds(start, o) THEN 0 ELSE 1) /\ intact' = Succeeds(start, o)
  BY DEF CreateFile
<1>2. log' = <<>> /\ sealed' = FALSE
  BY DEF CreateFile
<1>3. start \in Seq(Cell) /\ Len(start) = 3 /\ start[1] = BlankHeader /\ start[2] = Number(1)
      /\ start[3] = [kind |-> "schema"]
  <2>1. BlankHeader \in Cell /\ Number(1) \in Cell /\ [kind |-> "schema"] \in Cell
    BY WrittenCells
  <2> QED
    BY <2>1
<1>4. (\A i \in 1..3 : start[i].kind # "packet") /\ start[1].kind = "header" /\ start[1].schema = 0
      /\ start[3].kind = "schema"
  <2>1. start[1].kind = "header" /\ start[2].kind = "number" /\ start[1].schema = 0
    BY <1>3, WrittenCells
  <2>2. start[3].kind = "schema"
    BY <1>3
  <2>3. \A i \in 1..3 : i = 1 \/ i = 2 \/ i = 3
    OBVIOUS
  <2> QED
    BY <2>1, <2>2, <2>3
<1> HIDE DEF start
<1>5. /\ o.done \in 0..3 /\ o.torn \in BOOLEAN
      /\ Succeeds(start, o) => file' = start
      /\ ~Succeeds(start, o) => faults < MaxFaults
  <2>1. 0..2 \in SUBSET (0..Len(start) - 1)
    BY <1>3
  <2> QED
    BY <2>1, <1>1, <1>3, OutcomeIs
<1>6. /\ file' \in Seq(Cell) /\ Len(file') = o.done + (IF o.torn THEN 1 ELSE 0)
      /\ \A i \in 1..o.done : file'[i] = start[i]
      /\ o.torn => file'[o.done + 1] = Torn
  BY <1>1, <1>3, <1>5, WrittenAre
<1>7. \A i \in 1..Len(file') : (i \in 1..3 /\ file'[i] = start[i]) \/ file'[i] = Torn
  <2> TAKE i \in 1..Len(file')
  <2>1. i \in 1..o.done \/ (o.torn /\ i = o.done + 1)
    BY <1>5, <1>6
  <2>2. i \in 1..o.done => i \in 1..3
    BY <1>5
  <2> QED
    BY <2>1, <2>2, <1>6
<1>8. \A i \in 1..Len(file') : file'[i].kind # "packet"
  <2>1. Torn.kind = "torn"
    BY WrittenCells
  <2> QED
    BY <2>1, <1>4, <1>7
<1>9. Before(file', Len(file')) = 0 /\ Numbered(file', log')
  <2>1. log' \in Seq(Nat)
    BY <1>2
  <2> QED
    BY <2>1, <1>6, <1>8, NoPackets
<1>10. FileTypes'
  <2>1. faults' \in 0..MaxFaults
    BY <1>1, <1>5, RpcapAssumption DEF FileInv, FileTypes
  <2>2. writer' \in Writer /\ writer'.chunk = <<>> /\ writer'.count = 0 /\ writer'.offset <= Len(file')
    <3>1. CASE Succeeds(start, o)
      <4>1. writer' = [NoWriter EXCEPT !.open = TRUE, !.offset = 3] /\ Len(file') = 3
        BY <3>1, <1>1, <1>3, <1>5
      <4>2. writer' = [open |-> TRUE, chunk |-> <<>>, entries |-> <<>>, offset |-> 3, first |-> 0, last |-> 0,
                       lastKey |-> 0, count |-> 0]
        BY <4>1 DEF NoWriter
      <4>3. writer' \in Writer /\ writer'.chunk = <<>> /\ writer'.count = 0 /\ writer'.offset = 3
        BY <4>2, NoWriterType DEF Writer
      <4> QED
        BY <4>1, <4>3
    <3>2. CASE ~Succeeds(start, o)
      <4>1. Len(file') \in Nat
        BY <1>6
      <4> QED
        BY <4>1, <3>2, <1>1, NoWriterType
    <3> QED
      BY <3>1, <3>2
  <2>3. writing' \in BOOLEAN /\ intact' \in BOOLEAN /\ sealed' \in BOOLEAN
    BY <1>1, <1>2 DEF Succeeds
  <2>4. log' \in Seq(Times) /\ Len(log') <= MaxPackets
    BY <1>2, RpcapAssumption
  <2>5. /\ writer'.chunk \in Seq([n : 1..MaxPackets, t : Times])
        /\ writer'.count + Len(writer'.chunk) <= MaxPackets
    BY <2>2, NoWriterType, RpcapAssumption
  <2> QED
    BY <1>6, <2>1, <2>2, <2>3, <2>4, <2>5 DEF FileTypes
<1>11. Exclusive'
  BY <1>1, <1>2 DEF NoWriter, Exclusive
<1>12. Opening'
  <2>1. ASSUME writing' PROVE Started(file')
    <3>1. file' = start
      BY <1>1, <1>5, <2>1
    <3> QED
      BY <3>1, <1>3, <1>4 DEF Started
  <2>2. file' # <<>> /\ file'[1].kind = "header" => file'[1].schema = 0
    <3> SUFFICES ASSUME file' # <<>>, file'[1].kind = "header" PROVE file'[1].schema = 0
      OBVIOUS
    <3>1. 1 \in 1..Len(file')
      BY <1>6
    <3>2. file'[1] # Torn
      BY WrittenCells
    <3> QED
      BY <3>1, <3>2, <1>4, <1>7
  <2> QED
    BY <2>1, <2>2, <1>2 DEF Opening
<1>13. Pending' /\ Whole'
  <2> SUFFICES ASSUME writing' PROVE Pending' /\ Whole'
    BY DEF Pending, Whole
  <2>1. file' = start /\ Len(file') = 3
    BY <1>1, <1>3, <1>5
  <2>2. writer'.chunk = <<>> /\ writer'.entries = <<>> /\ writer'.offset = 3 /\ writer'.count = 0
    BY <1>1 DEF NoWriter
  <2>3. Pending'
    BY <2>2, <1>2, <1>9 DEF Pending
  <2>4. Laid(file', 3) /\ EntriesOK(file', log', 3, <<>>)
    BY <2>1 DEF Laid, EntriesOK, Boundary
  <2> QED
    BY <2>1, <2>2, <2>3, <2>4, <1>2 DEF Whole
<1>14. Finished'
  BY <1>2 DEF Finished
<1> QED
  BY <1>9, <1>10, <1>11, <1>12, <1>13, <1>14 DEF FileInv

\* Nothing is recorded, and no file changes.
LEMMA StoppedKeeps ==
  ASSUME FileInv, writer' = NoWriter, writing' = FALSE, UNCHANGED <<file, log, sealed, intact>>,
         faults' \in 0..MaxFaults
  PROVE  FileInv'
<1>1. Numbered(file, log)' /\ Opening' /\ Finished'
  BY DEF FileInv, Opening, Finished, Started
<1>2. Exclusive' /\ Pending' /\ Whole'
  BY DEF Exclusive, Pending, Whole
<1>3. 0 <= Len(file) /\ Len(writer'.chunk) = 0 /\ 0 + 0 <= MaxPackets
  BY NoWriterType, RpcapAssumption DEF FileInv, FileTypes
<1>4. /\ writer' \in Writer /\ writer'.offset <= Len(file') /\ writer'.count + Len(writer'.chunk) <= MaxPackets
      /\ writer'.chunk \in Seq([n : 1..MaxPackets, t : Times])
  BY <1>3, NoWriterType
<1>5. file' \in Seq(Cell) /\ log' \in Seq(Times) /\ Len(log') <= MaxPackets /\ writing' \in BOOLEAN
      /\ sealed' \in BOOLEAN /\ intact' \in BOOLEAN
  BY DEF FileInv, FileTypes
<1> QED
  BY <1>1, <1>2, <1>4, <1>5 DEF FileInv, FileTypes

\* A file that cannot be created, and a crash at any moment.
LEMMA CreateRefusedKeeps == FileInv /\ (CreateFileRefused \/ Crash) => FileInv'
<1> SUFFICES ASSUME FileInv, CreateFileRefused \/ Crash PROVE FileInv'
  OBVIOUS
<1>1. writer' = NoWriter /\ writing' = FALSE /\ UNCHANGED <<file, log, sealed, intact>>
  BY DEF CreateFileRefused, Crash
<1>2. faults' \in 0..MaxFaults
  BY RpcapAssumption DEF CreateFileRefused, Crash, FileInv, FileTypes
<1> QED
  BY <1>1, <1>2, StoppedKeeps

\* A reader that is closed.
LEMMA NoReaderType ==
  /\ NoReader \in Reader /\ NoReader.open = FALSE /\ NoReader.index = 0 /\ NoReader.chunk = <<>>
  /\ NoReader.index <= Len(NoReader.chunk) /\ <<>> \in Seq(Nat)
<1>1. BlankHeader \in HeaderCell /\ <<>> \in Seq(EntryCell) /\ <<>> \in Seq(Packet) /\ FALSE \in BOOLEAN /\ 0 \in Nat
  BY WrittenCells
<1>2. NoReader.open = FALSE /\ NoReader.index = 0 /\ NoReader.chunk = <<>>
  BY DEF NoReader
<1> QED
  BY <1>1, <1>2 DEF NoReader, Reader

\* Before anything was recorded.
LEMMA InitHolds == Init => IInv
<1> SUFFICES ASSUME Init PROVE IInv
  OBVIOUS
<1>1. file = <<>> /\ log = <<>> /\ Len(file) = 0 /\ Len(log) = 0 /\ Before(file, 0) = 0
  BY BeforeNone DEF Init
<1>2. FileTypes /\ ReaderTypes
  <2>1. MaxPackets \in Nat /\ 0 \in 0..MaxFaults
    BY RpcapAssumption
  <2>2. file \in Seq(Cell) /\ log \in Seq(Times) /\ got \in Seq(Nat) /\ Len(log) <= MaxPackets
    BY <1>1, <2>1 DEF Init
  <2>3. /\ writer \in Writer /\ writer.chunk \in Seq([n : 1..MaxPackets, t : Times])
        /\ writer.count + Len(writer.chunk) <= MaxPackets /\ writer.offset <= Len(file)
    <3>1. writer = NoWriter /\ Len(writer.chunk) = 0 /\ 0 + 0 <= MaxPackets /\ 0 <= Len(file)
      BY <1>1, <2>1, NoWriterType DEF Init
    <3> QED
      BY <3>1, NoWriterType
  <2>4. reader \in Reader /\ reader.index <= Len(reader.chunk)
    BY NoReaderType DEF Init
  <2> QED
    BY <2>1, <2>2, <2>3, <2>4 DEF Init, FileTypes, ReaderTypes
<1>3. Numbered(file, log)
  BY <1>1 DEF Numbered
<1> QED
  BY <1>2, <1>3, <1>1, NoReaderType DEF Init, IInv, FileInv, Exclusive, Control, Opening, Pending, Whole, Finished, Forward, Placed

\* A file that grows keeps its start.
LEMMA StartedGrows ==
  ASSUME NEW f \in Seq(Cell), NEW s \in Seq(Cell), Started(f)
  PROVE  /\ Started(f \o s) /\ (f \o s)[1] = f[1]
         /\ \A k \in 1..3 : ~PacketAt(f, k) /\ ~PacketAt(f \o s, k)
<1> DEFINE g == f \o s
<1>1. g \in Seq(Cell) /\ Len(g) = Len(f) + Len(s) /\ \A i \in 1..Len(f) : g[i] = f[i]
  BY Grown
<1>2. Len(f) \in Nat /\ Len(s) \in Nat /\ Len(f) >= 3
  BY DEF Started
<1> HIDE DEF g
<1>3. Len(g) >= 3 /\ 1 \in 1..Len(f) /\ 2 \in 1..Len(f) /\ 3 \in 1..Len(f)
  BY <1>1, <1>2
<1>4. g[1] = f[1] /\ g[2] = f[2] /\ g[3] = f[3]
  BY <1>1, <1>3
<1>5. f[1].kind = "header" /\ f[2].kind = "number" /\ f[3].kind = "schema"
  BY WrittenCells DEF Started
<1>6. \A k \in 1..3 : k = 1 \/ k = 2 \/ k = 3
  OBVIOUS
<1>7. \A k \in 1..3 : f[k].kind # "packet" /\ g[k].kind # "packet"
  BY <1>4, <1>5, <1>6
<1> QED
  BY <1>3, <1>4, <1>7 DEF Started, PacketAt, g

\* A chunk that was cut leaves no packet: the packets are one call, the last.
LEMMA CutChunkPlain ==
  ASSUME NEW chunk \in Seq(Packet), NEW o, o.done \in 0..3, o.torn \in BOOLEAN
  PROVE  LET s == Written(ChunkCells(chunk), o)
         IN s \in Seq(Cell) /\ \A i \in 1..Len(s) : s[i].kind # "packet"
<1> DEFINE c == ChunkCells(chunk)
           s == Written(c, o)
<1>1. c \in Seq(Cell) /\ Len(c) = 3 + Len(chunk) /\ (\A i \in 1..3 : c[i].kind = "number") /\ Len(chunk) \in Nat
  <2>1. \A i \in 1..3 : i = 1 \/ i = 2 \/ i = 3
    OBVIOUS
  <2>2. Len(chunk) \in Nat
    OBVIOUS
  <2>3. c[1].kind = "number" /\ c[2].kind = "number" /\ c[3].kind = "number"
    BY <2>2, ChunkCellsAre, WrittenCells
  <2> QED
    BY <2>1, <2>2, <2>3, ChunkCellsAre
<1> HIDE DEF c
<1>2. o.done \in 0..Len(c)
  BY <1>1
<1>3. /\ s \in Seq(Cell) /\ Len(s) = o.done + (IF o.torn THEN 1 ELSE 0)
      /\ \A i \in 1..o.done : s[i] = c[i]
      /\ o.torn => s[o.done + 1] = Torn
  BY <1>1, <1>2, WrittenAre
<1>4. \A i \in 1..Len(s) : s[i].kind # "packet"
  <2> TAKE i \in 1..Len(s)
  <2>1. (i \in 1..o.done /\ i \in 1..3) \/ (o.torn /\ i = o.done + 1)
    BY <1>3
  <2>2. Torn.kind = "torn"
    BY WrittenCells
  <2> QED
    BY <2>1, <2>2, <1>1, <1>3
<1> QED
  BY <1>3, <1>4 DEF s, c

\* The writer with one more packet in its chunk.
With(w, p) == [w EXCEPT !.first = IF w.count = 0 THEN p.t ELSE @, !.last = p.t, !.chunk = Append(@, p)]

\* A recording that is written is not finalized.
LEMMA WritingAlone == FileInv /\ writing => ~sealed /\ writer.open /\ Started(file)
BY DEF FileInv, Exclusive, Opening

\* What the writer holds after a packet was added, before anything is written.
LEMMA Added ==
  ASSUME FileInv, writing, Len(log) < MaxPackets, NEW t \in Times
  PROVE  LET w == With(writer, [n |-> Len(log) + 1, t |-> t])
             times == Append(log, t)
         IN /\ w \in Writer /\ w.chunk \in Seq([n : 1..MaxPackets, t : Times]) /\ w.chunk # <<>> /\ w.open
            /\ w.count = writer.count /\ w.offset = writer.offset /\ w.entries = writer.entries /\ w.lastKey = writer.lastKey
            /\ w.last = t /\ w.first = IF writer.count = 0 THEN t ELSE writer.first
            /\ times \in Seq(Times) /\ times \in Seq(Nat) /\ Len(times) = Len(log) + 1 /\ times[Len(times)] = t
            /\ \A i \in 1..Len(log) : times[i] = log[i]
            /\ w.count + Len(w.chunk) = Len(times)
            /\ \A i \in 1..Len(w.chunk) : w.chunk[i] = [n |-> w.count + i, t |-> times[w.count + i]]
<1> DEFINE p == [n |-> Len(log) + 1, t |-> t]
           w == With(writer, p)
           times == Append(log, t)
           c == writer.chunk
<1>1. /\ log \in Seq(Times) /\ log \in Seq(Nat) /\ Len(log) \in Nat /\ writer \in Writer /\ c \in Seq([n : 1..MaxPackets, t : Times])
      /\ c \in Seq(Packet) /\ Len(c) \in Nat /\ writer.count \in Nat /\ t \in Nat /\ MaxPackets \in Nat
  <2>1. log \in Seq(Times) /\ writer \in Writer /\ c \in Seq([n : 1..MaxPackets, t : Times])
    BY DEF FileInv, FileTypes
  <2>2. Times \subseteq Nat /\ MaxPackets \in Nat
    BY RpcapAssumption
  <2>3. log \in Seq(Nat) /\ t \in Nat
    BY <2>1, <2>2, SeqMonotonic
  <2>4. c \in Seq(Packet) /\ writer.count \in Nat
    BY <2>1 DEF Writer
  <2> QED
    BY <2>1, <2>2, <2>3, <2>4
<1>2. /\ writer.count + Len(c) = Len(log)
      /\ \A i \in 1..Len(c) : c[i] = [n |-> writer.count + i, t |-> log[writer.count + i]]
  BY DEF FileInv, Pending
<1>3. p \in Packet /\ p \in [n : 1..MaxPackets, t : Times] /\ p.t = t
  <2>1. Len(log) + 1 \in 1..MaxPackets /\ Len(log) + 1 \in Nat
    BY <1>1
  <2> QED
    BY <2>1, <1>1 DEF Packet
<1>4. times \in Seq(Times) /\ times \in Seq(Nat) /\ Len(times) = Len(log) + 1 /\ times[Len(times)] = t
      /\ \A i \in 1..Len(log) : times[i] = log[i]
  BY <1>1
<1> HIDE DEF p, times
<1>5. /\ w \in Writer /\ w.open = writer.open
      /\ w.count = writer.count /\ w.offset = writer.offset /\ w.entries = writer.entries /\ w.lastKey = writer.lastKey
      /\ w.last = t /\ w.first = (IF writer.count = 0 THEN t ELSE writer.first) /\ w.chunk = Append(c, p)
  <2> DEFINE first == IF writer.count = 0 THEN t ELSE writer.first
             chunk == Append(c, p)
  <2>1. first \in Nat /\ chunk \in Seq(Packet)
    BY <1>1, <1>3 DEF Writer
  <2>2. w = [writer EXCEPT !.first = first, !.last = t, !.chunk = chunk]
    BY <1>1, <1>3 DEF With
  <2> HIDE DEF first, chunk, w
  <2>3. /\ w \in Writer /\ w.open = writer.open
      /\ w.count = writer.count /\ w.offset = writer.offset /\ w.entries = writer.entries /\ w.lastKey = writer.lastKey
      /\ w.last = t /\ w.first = first /\ w.chunk = chunk
    BY <2>1, <2>2, <1>1 DEF Writer
  <2> QED
    BY <2>3 DEF first, chunk
<1> HIDE DEF w
<1>6. w.chunk \in Seq([n : 1..MaxPackets, t : Times]) /\ w.chunk # <<>> /\ Len(w.chunk) = Len(c) + 1
      /\ w.chunk[Len(c) + 1] = p /\ \A i \in 1..Len(c) : w.chunk[i] = c[i]
  <2>1. Append(c, p) \in Seq([n : 1..MaxPackets, t : Times]) /\ Len(Append(c, p)) = Len(c) + 1
        /\ Append(c, p)[Len(c) + 1] = p /\ \A i \in 1..Len(c) : Append(c, p)[i] = c[i]
    BY <1>1, <1>3
  <2>2. Append(c, p) # <<>>
    <3>1. Len(c) \in Nat /\ Len(<<>>) = 0
      BY <1>1
    <3>2. Len(Append(c, p)) # Len(<<>>)
      BY <2>1, <3>1
    <3> QED
      BY <3>2, Zenon
  <2>3. w.chunk = Append(c, p)
    BY <1>5
  <2> QED
    BY <2>1, <2>2, <2>3, Zenon
<1>7. w.count + Len(w.chunk) = Len(times)
  <2>1. \A a, b, l \in Nat : a + b = l => a + (b + 1) = l + 1
    OBVIOUS
  <2>2. writer.count + (Len(c) + 1) = Len(log) + 1
    <3>1. writer.count \in Nat /\ Len(c) \in Nat /\ Len(log) \in Nat /\ writer.count + Len(c) = Len(log)
      BY <1>1, <1>2
    <3> QED
      BY <3>1, <2>1
  <2>3. w.count = writer.count /\ Len(w.chunk) = Len(c) + 1 /\ Len(times) = Len(log) + 1
    BY <1>4, <1>5, <1>6
  <2> QED
    BY <2>2, <2>3
<1>8. \A i \in 1..Len(w.chunk) : w.chunk[i] = [n |-> w.count + i, t |-> times[w.count + i]]
  <2> TAKE i \in 1..Len(w.chunk)
  <2>1. CASE i \in 1..Len(c)
    <3>1. writer.count + i \in 1..Len(log)
      <4>1. \A a, b, l \in Nat : a + b = l => \A j \in 1..b : a + j \in 1..l
        OBVIOUS
      <4> QED
        BY <4>1, <2>1, <1>1, <1>2
    <3> QED
      BY <2>1, <3>1, <1>2, <1>4, <1>5, <1>6
  <2>2. CASE i = Len(c) + 1
    <3>1. writer.count + i = Len(log) + 1 /\ writer.count + i = Len(times)
      BY <2>2, <1>1, <1>2, <1>4
    <3>2. w.chunk[i] = p /\ times[writer.count + i] = t
      BY <2>2, <3>1, <1>4, <1>6
    <3>3. p = [n |-> Len(log) + 1, t |-> t]
      BY DEF p
    <3> QED
      BY <3>1, <3>2, <3>3, <1>5
  <2>3. i \in 1..Len(c) \/ i = Len(c) + 1
    BY <1>1, <1>6
  <2> QED
    BY <2>1, <2>2, <2>3
<1> QED
  BY <1>4, <1>5, <1>6, <1>7, <1>8, WritingAlone DEF w, p, times

\* In a recording that is whole, the entries of what was written before a packet stay right.
LEMMA AddedWhole ==
  ASSUME FileInv, writing, intact, NEW t \in Times
  PROVE  LET times == Append(log, t)
         IN /\ writer.offset = Len(file) /\ Laid(file, Len(file))
            /\ EntriesOK(file, times, Len(file), writer.entries)
            /\ times[1] = IF writer.count = 0 THEN t ELSE writer.first
<1> DEFINE times == Append(log, t)
<1>1. /\ writer.offset = Len(file) /\ Laid(file, Len(file)) /\ EntriesOK(file, log, Len(file), writer.entries)
      /\ writer.count = 0 => log = <<>>
      /\ log # <<>> => writer.first = log[1]
  BY DEF FileInv, Whole
<1>2. file \in Seq(Cell) /\ log \in Seq(Times) /\ Len(log) \in Nat /\ Len(file) \in Nat
  BY DEF FileInv, FileTypes
<1>3. times \in Seq(Times) /\ \A i \in 1..Len(log) : times[i] = log[i]
  BY <1>2
<1>4. times[1] = IF writer.count = 0 THEN t ELSE writer.first
  <2>1. CASE log = <<>>
    <3>1. writer.count = 0
      <4>1. writer.count + Len(writer.chunk) = 0 /\ writer.count \in Nat /\ Len(writer.chunk) \in Nat
        BY <2>1 DEF FileInv, Pending, FileTypes, Writer
      <4> QED
        BY <4>1
    <3> QED
      BY <2>1, <3>1
  <2>2. CASE log # <<>>
    <3>1. 1 \in 1..Len(log)
      BY <2>2, <1>2
    <3> QED
      BY <2>2, <3>1, <1>1, <1>3
  <2> QED
    BY <2>1, <2>2
<1> HIDE DEF times
<1>5. EntriesOK(file, times, Len(file), writer.entries)
  <2>1. \A k \in 1..3 : ~PacketAt(file, k)
    <3>1. Started(file)
      BY WritingAlone
    <3>2. file \o <<>> \in Seq(Cell) /\ <<>> \in Seq(Cell)
      BY <1>2
    <3> QED
      BY <3>1, <3>2, <1>2, StartedGrows
  <2>2. ~PacketAt(file, Len(file) + 1)
    BY <1>2 DEF PacketAt
  <2>3. SameChunks(file, file, Len(file))
    BY <2>1, <2>2, <1>2 DEF SameChunks
  <2>4. Before(file, Len(file)) <= Len(log)
    BY DEF FileInv, Numbered
  <2>5. Len(file) <= Len(file)
    BY <1>2
  <2> QED
    BY <2>3, <2>4, <2>5, <1>1, <1>2, <1>3, EntriesSame
<1> QED
  BY <1>1, <1>4, <1>5 DEF times

\* While a recording is written, what is said of its packets is left to show after a
\* step that lets the file grow.
LEMMA WritingKeeps ==
  ASSUME FileInv, writing, writing' \in BOOLEAN, sealed' = FALSE, NEW s \in Seq(Cell), file' = file \o s,
         writing' => writer'.open, writer' \in Writer, writer'.chunk \in Seq([n : 1..MaxPackets, t : Times]),
         writer'.count + Len(writer'.chunk) <= MaxPackets, writer'.offset <= Len(file'),
         log' \in Seq(Times), Len(log') <= MaxPackets, faults' \in 0..MaxFaults, intact' \in BOOLEAN,
         Numbered(file', log'), Pending', Whole'
  PROVE  FileInv'
<1>1. Started(file) /\ file \in Seq(Cell)
  BY WritingAlone DEF FileInv, FileTypes
<1>3. FileTypes'
  <2>1. file' \in Seq(Cell)
    BY <1>1, Grown
  <2>2. sealed' \in BOOLEAN
    OBVIOUS
  <2> QED
    BY <2>1, <2>2 DEF FileTypes
<1>4. Exclusive'
  BY DEF Exclusive
<1>5. Opening'
  <2>1. Started(file') /\ file'[1] = file[1]
    BY <1>1, StartedGrows
  <2>2. file[1].kind = "header" /\ file # <<>>
    BY <1>1 DEF Started
  <2>3. file[1].schema = 0
    BY <2>2, WritingAlone DEF FileInv, Opening
  <2> QED
    BY <2>1, <2>3 DEF Opening
<1>6. Finished'
  BY DEF Finished
<1> QED
  BY <1>3, <1>4, <1>5, <1>6 DEF FileInv

\* A write call that failed costs one fault; one that did not, none.
LEMMA FaultCounted ==
  ASSUME FileInv, NEW ok \in BOOLEAN, ~ok => faults < MaxFaults, CountFault(ok)
  PROVE  faults' \in 0..MaxFaults /\ intact' \in BOOLEAN /\ (intact' <=> intact /\ ok)
<1>1. faults \in 0..MaxFaults /\ intact \in BOOLEAN /\ MaxFaults \in Nat
  BY RpcapAssumption DEF FileInv, FileTypes
<1>2. faults' = faults + (IF ok THEN 0 ELSE 1) /\ intact' = (intact /\ ok)
  BY DEF CountFault
<1>3. faults' \in 0..MaxFaults
  BY <1>1, <1>2
<1> QED
  BY <1>1, <1>2, <1>3

\* A packet is recorded.
LEMMA WriteKeeps == ASSUME FileInv, NEW t \in Times, WritePacket(t) PROVE FileInv'
<1> DEFINE p == [n |-> Len(log) + 1, t |-> t]
           w == With(writer, p)
           times == Append(log, t)
           cells == ChunkCells(w.chunk)
<1>1. writing /\ Len(log) < MaxPackets /\ log' = times /\ UNCHANGED <<writing, sealed>>
  BY DEF WritePacket
<1>2. w = [writer EXCEPT !.first = IF writer.count = 0 THEN t ELSE @, !.last = t, !.chunk = Append(@, p)]
  BY DEF With
<1> DEFINE v == [writer EXCEPT !.first = IF writer.count = 0 THEN t ELSE @, !.last = t, !.chunk = Append(@, p)]
<1>0. PICK flagged \in BOOLEAN :
        IF NeedsKeyframe(writer, t, flagged) \/ Len(v.chunk) >= FlushThreshold
          THEN \E o \in Outcomes(ChunkCells(v.chunk), ChunkCalls) :
                 /\ writer' = Flushed(v, NeedsKeyframe(writer, t, flagged), o)
                 /\ file' = file \o Written(ChunkCells(v.chunk), o)
                 /\ CountFault(Succeeds(ChunkCells(v.chunk), o))
          ELSE writer' = v /\ UNCHANGED <<file, faults, intact>>
  BY DEF WritePacket
<1> DEFINE force == NeedsKeyframe(writer, t, flagged)
<1>3. IF force \/ Len(w.chunk) >= FlushThreshold
        THEN \E o \in Outcomes(cells, ChunkCalls) :
               /\ writer' = Flushed(w, force, o)
               /\ file' = file \o Written(cells, o)
               /\ CountFault(Succeeds(cells, o))
        ELSE writer' = w /\ UNCHANGED <<file, faults, intact>>
  <2>1. w = v
    BY <1>2
  <2> HIDE DEF v, w
  <2> QED
    BY <1>0, <2>1
<1> HIDE DEF v
<1>4. /\ w \in Writer /\ w.chunk \in Seq([n : 1..MaxPackets, t : Times]) /\ w.chunk # <<>> /\ w.open
      /\ w.count = writer.count /\ w.offset = writer.offset /\ w.entries = writer.entries
      /\ w.last = t /\ w.first = (IF writer.count = 0 THEN t ELSE writer.first)
      /\ times \in Seq(Times) /\ times \in Seq(Nat) /\ Len(times) = Len(log) + 1 /\ times[Len(times)] = t
      /\ w.count + Len(w.chunk) = Len(times)
      /\ \A i \in 1..Len(w.chunk) : w.chunk[i] = [n |-> w.count + i, t |-> times[w.count + i]]
  BY <1>1, Added
<1>5. /\ file \in Seq(Cell) /\ log \in Seq(Nat) /\ t \in Nat /\ Numbered(file, log) /\ intact \in BOOLEAN
      /\ writer.offset <= Len(file) /\ writer.offset \in Nat /\ writer.count \in Nat /\ MaxPackets \in Nat
  <2>1. Times \subseteq Nat /\ MaxPackets \in Nat
    BY RpcapAssumption
  <2>2. log \in Seq(Times)
    BY DEF FileInv, FileTypes
  <2>3. log \in Seq(Nat)
    BY <2>1, <2>2, SeqMonotonic
  <2> QED
    BY <2>1, <2>3 DEF FileInv, FileTypes, Writer
<1>6. Numbered(file, times) /\ writer.count = Before(file, Len(file))
  BY <1>1, <1>5, NumberedLonger DEF FileInv, Pending
<1>7. \A k \in 1..3 : ~PacketAt(file, k)
  <2>1. Started(file) /\ <<>> \in Seq(Cell)
    BY <1>1, WritingAlone
  <2> QED
    BY <2>1, <1>5, StartedGrows
<1>8. sealed' = FALSE /\ writing' /\ writing' \in BOOLEAN
  <2>1. sealed \in BOOLEAN /\ writing \in BOOLEAN
    BY DEF FileInv, FileTypes
  <2> QED
    BY <2>1, <1>1, WritingAlone
<1>9. intact => /\ writer.offset = Len(file) /\ Laid(file, Len(file)) /\ EntriesOK(file, times, Len(file), writer.entries)
                /\ times[1] = w.first
  BY <1>1, <1>4, AddedWhole
<1>10. force \in BOOLEAN /\ (writer.count = 0 => force)
  BY DEF NeedsKeyframe
<1>a. w.chunk \in Seq(Packet) /\ Len(w.chunk) \in Nat \ {0} /\ cells \in Seq(Cell) /\ Len(cells) = 3 + Len(w.chunk)
  <2>1. w.chunk \in Seq(Packet)
    BY <1>4 DEF Writer
  <2> QED
    BY <2>1, <1>4, ChunkCellsAre
<1> HIDE DEF w, times, force
<1>b. times # <<>> /\ Len(times) <= MaxPackets /\ Len(times) \in Nat
  <2>1. Len(times) = Len(log) + 1 /\ Len(log) \in Nat
    BY <1>4, <1>5
  <2>2. Len(times) # 0 /\ Len(times) <= MaxPackets /\ Len(times) \in Nat
    BY <2>1, <1>1, <1>5
  <2> QED
    BY <2>2
<1>11. CASE ~(force \/ Len(w.chunk) >= FlushThreshold)
  <2>1. writer' = w /\ UNCHANGED <<file, faults, intact>> /\ writer.count # 0
    BY <1>3, <1>10, <1>11
  <2>2. <<>> \in Seq(Cell) /\ file' = file \o <<>>
    BY <1>5, <2>1
  <2>3. Numbered(file', log')
    BY <2>1, <1>1, <1>6
  <2>4. Pending'
    BY <2>1, <1>1, <1>4, <1>6 DEF Pending
  <2>5. Whole'
    BY <2>1, <1>1, <1>4, <1>9 DEF Whole
  <2>6. faults' \in 0..MaxFaults /\ intact' \in BOOLEAN
    BY <2>1 DEF FileInv, FileTypes
  <2>7. writer'.count + Len(writer'.chunk) <= MaxPackets /\ writer'.offset <= Len(file')
    BY <2>1, <1>4, <1>5, <1>b
  <2> QED
    BY <2>1, <2>2, <2>3, <2>4, <2>5, <2>6, <2>7, <1>1, <1>4, <1>8, <1>b, WritingKeeps
<1>12. CASE force \/ Len(w.chunk) >= FlushThreshold
  <2>1. PICK o \in Outcomes(cells, ChunkCalls) :
           /\ writer' = Flushed(w, force, o)
           /\ file' = file \o Written(cells, o)
           /\ CountFault(Succeeds(cells, o))
    BY <1>3, <1>12
  <2> HIDE DEF cells
  <2>2. /\ o.done \in 0..Len(cells) /\ o.torn \in BOOLEAN
        /\ Succeeds(cells, o) => Written(cells, o) = cells
        /\ ~Succeeds(cells, o) => o.done \in 0..3 /\ faults < MaxFaults
    <3>1. ChunkCalls \in SUBSET (0..Len(cells) - 1)
      BY <1>a DEF ChunkCalls
    <3> QED
      BY <3>1, <1>a, OutcomeIs DEF ChunkCalls
  <2>3. Succeeds(cells, o) \in BOOLEAN /\ (Succeeds(cells, o) <=> o.done = 3 + Len(w.chunk))
    BY <1>a DEF Succeeds
  <2>4. faults' \in 0..MaxFaults /\ intact' \in BOOLEAN /\ (intact' <=> intact /\ Succeeds(cells, o))
    BY <2>1, <2>2, <2>3, FaultCounted
  <2>5. /\ writer' \in Writer /\ writer'.open = w.open /\ writer'.first = w.first /\ writer'.last = w.last
        /\ writer'.offset = w.offset + o.done
        /\ IF o.done = 3 + Len(w.chunk)
             THEN writer'.count = w.count + Len(w.chunk) /\ writer'.chunk = <<>>
             ELSE writer'.count = w.count /\ writer'.chunk = w.chunk
    <3>1. o.done \in 0..3 + Len(w.chunk)
      BY <2>2, <1>a
    <3> DEFINE u == Flushed(w, force, o)
    <3>2. force \in BOOLEAN /\ w \in Writer /\ w.chunk # <<>>
      BY <1>4, <1>10
    <3>3. /\ u \in Writer /\ u.open = w.open /\ u.first = w.first /\ u.last = w.last
          /\ u.offset = w.offset + o.done
          /\ IF o.done = 3 + Len(w.chunk)
               THEN u.count = w.count + Len(w.chunk) /\ u.chunk = <<>>
               ELSE u.count = w.count /\ u.chunk = w.chunk
      BY <3>1, <3>2, FlushedIs
    <3> HIDE DEF u
    <3>4. writer' = u
      BY <2>1 DEF u
    <3> QED
      BY <3>3, <3>4
  <2>6. Written(cells, o) \in Seq(Cell) /\ Len(Written(cells, o)) = o.done + (IF o.torn THEN 1 ELSE 0)
    BY <1>a, <2>2, WrittenAre
  <2>7. writer'.offset <= Len(file')
    <3>0. Len(file') = Len(file) + Len(Written(cells, o))
      BY <2>1, <2>6, <1>5, Grown
    <3>1. Len(file') = Len(file) + (o.done + (IF o.torn THEN 1 ELSE 0))
      BY <3>0, <2>6
    <3>2. Len(file) \in Nat /\ o.done \in Nat
      BY <1>5, <2>2
    <3>3. Len(file') \in Nat /\ Len(file') >= Len(file) + o.done
      BY <3>1, <3>2
    <3>4. w.offset \in Nat /\ w.offset <= Len(file)
      BY <1>4, <1>5
    <3>5. writer'.offset = w.offset + o.done
      BY <2>5
    <3>6. \A x, y, z, k \in Nat : x <= y /\ z >= y + k => x + k <= z
      OBVIOUS
    <3> QED
      BY <3>2, <3>3, <3>4, <3>5, <3>6
  <2>8. CASE Succeeds(cells, o)
    <3>1. file' = file \o cells /\ writer'.count = w.count + Len(w.chunk) /\ writer'.chunk = <<>> /\ o.done = 3 + Len(w.chunk)
      BY <2>1, <2>2, <2>3, <2>5, <2>8
    <3>2. Before(file', Len(file')) = Before(file, Len(file)) + Len(w.chunk) /\ Numbered(file', times)
      <4>1. Before(file, Len(file)) = w.count /\ w.count + Len(w.chunk) <= Len(times)
        BY <1>4, <1>6, <1>b
      <4> QED
        BY <4>1, <3>1, <1>4, <1>5, <1>6, <1>a, NumberedChunk DEF cells
    <3>3. writer'.count = Len(times) /\ Before(file', Len(file')) = Len(times)
      BY <3>1, <3>2, <1>4, <1>6
    <3>4. writer'.chunk \in Seq([n : 1..MaxPackets, t : Times]) /\ writer'.count + Len(writer'.chunk) = Len(times)
      <4>1. Len(writer'.chunk) = 0 /\ Len(times) + 0 = Len(times)
        BY <3>1, <1>b
      <4> QED
        BY <4>1, <3>1, <3>3, NoWriterType
    <3>5. Pending'
      <4>1. \A i \in 1..Len(writer'.chunk) : FALSE
        BY <3>1
      <4> QED
        BY <4>1, <3>3, <3>4, <1>1 DEF Pending
    <3>6. Whole'
      <4> SUFFICES ASSUME intact' PROVE Whole'
        BY DEF Whole
      <4>1. intact
        BY <2>4
      <4>2. writer'.offset = Len(file') /\ Laid(file', Len(file')) /\ EntriesOK(file', times, Len(file'), writer'.entries)
        <5>1. w.count + Len(w.chunk) <= Len(times) /\ w.offset = Len(file) /\ Laid(file, Len(file))
              /\ EntriesOK(file, times, Len(file), w.entries) /\ w.count = Before(file, Len(file))
          BY <4>1, <1>4, <1>6, <1>9, <1>b
        <5> DEFINE g == file \o ChunkCells(w.chunk)
                   u == Flushed(w, force, o)
        <5>2. force \in BOOLEAN /\ w \in Writer /\ w.chunk # <<>> /\ times \in Seq(Nat) /\ o.done = 3 + Len(w.chunk)
              /\ \A i \in 1..Len(w.chunk) : w.chunk[i] = [n |-> w.count + i, t |-> times[w.count + i]]
          BY <3>1, <1>4, <1>10
        <5>3. u.offset = Len(g) /\ Laid(g, Len(g)) /\ EntriesOK(g, times, Len(g), u.entries)
          <6>1. file \in Seq(Cell) /\ Numbered(file, times) /\ \A k \in 1..3 : ~PacketAt(file, k)
            BY <1>5, <1>6, <1>7
          <6> HIDE DEF g, u
          <6> QED
            BY <6>1, <5>1, <5>2, FlushWhole DEF g, u
        <5>4. g = file' /\ u = writer'
          BY <3>1, <2>1 DEF cells
        <5> HIDE DEF g, u
        <5> QED
          BY <5>3, <5>4
      <4>3. writer'.count # 0
        BY <3>3, <1>b
      <4>4. writer'.first = times[1] /\ writer'.last = times[Len(times)]
        BY <4>1, <2>5, <1>4, <1>9
      <4> QED
        BY <4>2, <4>3, <4>4, <1>1 DEF Whole
    <3> QED
      BY <3>1, <3>2, <3>4, <3>5, <3>6, <2>1, <2>4, <2>5, <2>6, <2>7, <1>1, <1>4, <1>8, <1>b, WritingKeeps
  <2>9. CASE ~Succeeds(cells, o)
    <3>1. writer'.count = w.count /\ writer'.chunk = w.chunk /\ ~intact' /\ o.done \in 0..3
      BY <2>2, <2>3, <2>4, <2>5, <2>9
    <3>2. \A i \in 1..Len(Written(cells, o)) : Written(cells, o)[i].kind # "packet"
      BY <3>1, <2>2, <1>a, CutChunkPlain DEF cells
    <3>3. Before(file', Len(file')) = Before(file, Len(file)) /\ Numbered(file', times)
      BY <3>2, <2>1, <2>6, <1>5, <1>6, NumberedPlain
    <3>4. Pending'
      BY <3>1, <3>3, <1>1, <1>4, <1>6 DEF Pending
    <3>5. Whole'
      BY <3>1 DEF Whole
    <3>6. writer'.count + Len(writer'.chunk) <= MaxPackets /\ writer'.chunk \in Seq([n : 1..MaxPackets, t : Times])
      BY <3>1, <1>4, <1>b
    <3> QED
      BY <3>3, <3>4, <3>5, <3>6, <2>1, <2>4, <2>5, <2>6, <2>7, <1>1, <1>4, <1>8, <1>b, WritingKeeps
  <2> QED
    BY <2>8, <2>9
<1> QED
  BY <1>11, <1>12

\* Of three runs of cells, it does not matter which two are put together first.
LEMMA CellsConcat == \A s, t, u \in Seq(Cell) : (s \o t) \o u = s \o (t \o u)
BY ConcatAssociative

\* Behind a there are cells, none of which is a packet.
Followed(s, a, r) == r \in Seq(Cell) /\ s = a \o r /\ \A i \in 1..Len(r) : r[i].kind # "packet"

\* Calls that wrote all of a first part have left it in front.
LEMMA WrittenSplit ==
  ASSUME NEW a \in Seq(Cell), NEW b \in Seq(Cell), \A i \in 1..Len(b) : b[i].kind # "packet",
         NEW o, o.done \in Len(a)..Len(a) + Len(b), o.torn \in BOOLEAN
  PROVE  \E r : Followed(Written(a \o b, o), a, r)
<1> DEFINE c == a \o b
           s == Written(c, o)
           r == SubSeq(s, Len(a) + 1, Len(s))
<1>1. c \in Seq(Cell) /\ Len(c) = Len(a) + Len(b) /\ Len(a) \in Nat /\ Len(b) \in Nat
      /\ (\A i \in 1..Len(a) : c[i] = a[i]) /\ \A i \in 1..Len(b) : c[Len(a) + i] = b[i]
  BY Grown
<1> HIDE DEF c
<1>2. o.done \in 0..Len(c) /\ o.done \in Nat /\ o.done - Len(a) \in Nat
  BY <1>1
<1>3. /\ s \in Seq(Cell) /\ Len(s) = o.done + (IF o.torn THEN 1 ELSE 0)
      /\ \A i \in 1..o.done : s[i] = c[i]
      /\ o.torn => s[o.done + 1] = Torn
  BY <1>1, <1>2, WrittenAre
<1> HIDE DEF s
<1>4. Len(s) \in Nat /\ Len(a) <= Len(s) /\ Len(s) - Len(a) >= o.done - Len(a)
  BY <1>1, <1>2, <1>3
<1>5. r \in Seq(Cell) /\ Len(r) = Len(s) - Len(a) /\ \A i \in 1..Len(s) - Len(a) : r[i] = s[Len(a) + i]
  <2>1. \A i \in Len(a) + 1..Len(s) : s[i] \in Cell
    BY <1>1, <1>3, <1>4
  <2>2. Len(a) + 1 \in Int /\ Len(s) \in Int
    BY <1>1, <1>4
  <2>3. /\ r \in Seq(Cell) /\ Len(r) = IF Len(a) + 1 <= Len(s) THEN Len(s) - (Len(a) + 1) + 1 ELSE 0
        /\ \A i \in 1..Len(s) - (Len(a) + 1) + 1 : r[i] = s[Len(a) + 1 + i - 1]
    BY <2>1, <2>2, SubSeqProperties
  <2> HIDE DEF r
  <2>4. Len(r) = Len(s) - Len(a) /\ Len(s) - (Len(a) + 1) + 1 = Len(s) - Len(a)
    BY <2>3, <1>1, <1>4
  <2>5. \A i \in 1..Len(s) - Len(a) : r[i] = s[Len(a) + i]
    <3> TAKE i \in 1..Len(s) - Len(a)
    <3>1. Len(a) + 1 + i - 1 = Len(a) + i
      BY <1>1
    <3> QED
      BY <3>1, <2>3, <2>4
  <2> QED
    BY <2>3, <2>4, <2>5
<1> HIDE DEF r
<1>6. s = a \o r
  <2>1. a \o r \in Seq(Cell) /\ Len(a \o r) = Len(a) + Len(r)
        /\ (\A i \in 1..Len(a) : (a \o r)[i] = a[i]) /\ \A i \in 1..Len(r) : (a \o r)[Len(a) + i] = r[i]
    BY <1>5, Grown
  <2>2. Len(a \o r) = Len(s)
    BY <2>1, <1>1, <1>4, <1>5
  <2> DEFINE q == a \o r
  <2> HIDE DEF q
  <2>4. (\A i \in 1..Len(a) : q[i] = a[i]) /\ \A i \in 1..Len(r) : q[Len(a) + i] = r[i]
    BY <2>1 DEF q
  <2>3. \A i \in 1..Len(s) : s[i] = q[i]
    <3> TAKE i \in 1..Len(s)
    <3>1. CASE i <= Len(a)
      <4>1. i \in 1..Len(a) /\ i \in 1..o.done
        BY <3>1, <1>1, <1>2
      <4> QED
        BY <4>1, <2>4, <1>1, <1>3
    <3>2. CASE i > Len(a)
      <4>1. i - Len(a) \in 1..Len(s) - Len(a) /\ Len(a) + (i - Len(a)) = i
        BY <3>2, <1>1, <1>4
      <4> DEFINE j == i - Len(a)
      <4>2. j \in 1..Len(s) - Len(a) /\ j \in 1..Len(r) /\ Len(a) + j = i
        BY <4>1, <1>5
      <4> HIDE DEF j
      <4>3. q[Len(a) + j] = r[j] /\ r[j] = s[Len(a) + j]
        BY <4>2, <2>4, <1>5
      <4> QED
        BY <4>2, <4>3
    <3> QED
      BY <3>1, <3>2, <1>1
  <2> QED
    BY <2>1, <2>2, <2>3, <1>3, SeqEqual DEF q
<1>7. \A i \in 1..Len(r) : r[i].kind # "packet"
  <2> TAKE i \in 1..Len(r)
  <2>1. r[i] = s[Len(a) + i] /\ i \in Nat
    BY <1>5
  <2>2. CASE Len(a) + i <= o.done
    <3>1. Len(a) + i \in 1..o.done /\ i \in 1..Len(b)
      <4>1. \A x, y, z, j \in Nat : x + j <= z /\ z <= x + y /\ 1 <= j => x + j \in 1..z /\ j \in 1..y
        OBVIOUS
      <4> QED
        BY <4>1, <2>1, <2>2, <1>1, <1>2
    <3> QED
      BY <3>1, <2>1, <1>1, <1>3
  <2>3. CASE ~(Len(a) + i <= o.done)
    <3>1. o.torn /\ Len(a) + i = o.done + 1
      <4>1. i <= Len(s) - Len(a)
        BY <1>5, <1>4
      <4>2. Len(s) = o.done + (IF o.torn THEN 1 ELSE 0)
        BY <1>3
      <4>3. Len(a) \in Nat /\ o.done \in Nat /\ Len(s) \in Nat
        BY <1>1, <1>2, <1>4
      <4> QED
        BY <4>1, <4>2, <4>3, <2>1, <2>3
    <3>2. Torn.kind # "packet"
      BY WrittenCells
    <3>3. s[Len(a) + i] = Torn
      BY <3>1, <1>3
    <3> QED
      BY <3>2, <3>3, <2>1
  <2> QED
    BY <2>2, <2>3
<1>8. Followed(s, a, r)
  BY <1>5, <1>6, <1>7 DEF Followed
<1> QED
  BY <1>8 DEF s, c

\* Of calls that wrote all packets, what else they wrote changes no number.
LEMMA WrittenNumbered ==
  ASSUME NEW f \in Seq(Cell), NEW a \in Seq(Cell), NEW b \in Seq(Cell), NEW times, Numbered(f \o a, times),
         \A i \in 1..Len(b) : b[i].kind # "packet",
         NEW o, o.done \in Len(a)..Len(a) + Len(b), o.torn \in BOOLEAN
  PROVE  Numbered(f \o Written(a \o b, o), times)
<1>1. PICK r : Followed(Written(a \o b, o), a, r)
  BY WrittenSplit
<1>2. f \o Written(a \o b, o) = (f \o a) \o r
  <2>1. Written(a \o b, o) = a \o r /\ r \in Seq(Cell)
    BY <1>1 DEF Followed
  <2>2. (f \o a) \o r = f \o (a \o r)
    BY <2>1, CellsConcat
  <2> QED
    BY <2>1, <2>2
<1>3. f \o a \in Seq(Cell)
  BY Grown
<1> QED
  BY <1>1, <1>2, <1>3, NumberedPlain DEF Followed

\* What FinalizeFile writes first: the packets that are still in memory.
LEMMA LastChunkIs ==
  ASSUME FileInv, writing
  PROVE  LET last == LastCells(writer)
             w == LastFlushed(writer)
             g == file \o last
         IN /\ last \in Seq(Cell) /\ w \in Writer
            /\ w.first = writer.first /\ w.last = writer.last /\ w.count = Len(log)
            /\ Before(g, Len(g)) = Len(log) /\ Numbered(g, log)
            /\ intact => w.offset = Len(g) /\ Laid(g, Len(g)) /\ EntriesOK(g, log, Len(g), w.entries)
            /\ IF writer.chunk = <<>> THEN last = <<>> ELSE last = ChunkCells(writer.chunk) /\ Len(last) >= 4
<1> DEFINE last == LastCells(writer)
           w == LastFlushed(writer)
           g == file \o last
           c == writer.chunk
<1>1. /\ file \in Seq(Cell) /\ log \in Seq(Nat) /\ writer \in Writer /\ c \in Seq(Packet) /\ writer.count \in Nat
      /\ Len(c) \in Nat /\ Len(log) \in Nat
  <2>1. log \in Seq(Times) /\ Times \subseteq Nat
    BY RpcapAssumption DEF FileInv, FileTypes
  <2>2. log \in Seq(Nat)
    BY <2>1, SeqMonotonic
  <2> QED
    BY <2>2 DEF FileInv, FileTypes, Writer
<1>2. /\ Numbered(file, log) /\ writer.count = Before(file, Len(file)) /\ writer.count + Len(c) = Len(log)
      /\ \A i \in 1..Len(c) : c[i] = [n |-> writer.count + i, t |-> log[writer.count + i]]
  BY DEF FileInv, Pending
<1>3. intact => writer.offset = Len(file) /\ Laid(file, Len(file)) /\ EntriesOK(file, log, Len(file), writer.entries)
  BY DEF FileInv, Whole
<1>4. CASE c = <<>>
  <2>1. last = <<>> /\ w = writer
    BY <1>4 DEF LastCells, LastFlushed
  <2>2. <<>> \in Seq(Cell) /\ g = file
    BY <2>1, <1>1, ConcatEmptySeq
  <2>3. writer.count = Len(log)
    <3>1. Len(c) = 0
      BY <1>4
    <3> QED
      BY <3>1, <1>1, <1>2
  <2> HIDE DEF last, w, g
  <2> QED
    BY <2>1, <2>2, <2>3, <1>1, <1>2, <1>3, <1>4 DEF last, w, g
<1>5. CASE c # <<>>
  <2> DEFINE o == [done |-> Len(last), torn |-> FALSE]
  <2>1. last = ChunkCells(c) /\ w = Flushed(writer, TRUE, o)
    BY <1>5 DEF LastCells, LastFlushed
  <2>2. last \in Seq(Cell) /\ Len(last) = 3 + Len(c) /\ Len(last) >= 4
    <3>1. last \in Seq(Cell) /\ Len(last) = 3 + Len(c)
      BY <2>1, <1>1, ChunkCellsAre
    <3>2. Len(c) # 0
      BY <1>1, <1>5
    <3> QED
      BY <3>1, <3>2, <1>1
  <2>3. o.done = 3 + Len(c)
    BY <2>2
  <2> HIDE DEF last, o
  <2>4. o.done \in 0..3 + Len(c) /\ TRUE \in BOOLEAN
    BY <2>3, <1>1
  <2> DEFINE u == Flushed(writer, TRUE, o)
  <2>5. u \in Writer /\ u.first = writer.first /\ u.last = writer.last /\ u.count = writer.count + Len(c)
    BY <2>3, <2>4, <1>1, <1>5, FlushedIs
  <2>6. Before(g, Len(g)) = Before(file, Len(file)) + Len(c) /\ Numbered(g, log)
    <3>1. Before(file, Len(file)) + Len(c) <= Len(log)
      BY <1>1, <1>2
    <3>2. \A i \in 1..Len(c) : c[i] = [n |-> Before(file, Len(file)) + i, t |-> log[Before(file, Len(file)) + i]]
      BY <1>2
    <3> QED
      BY <3>1, <3>2, <2>1, <1>1, <1>2, NumberedChunk
  <2>7. ASSUME intact PROVE u.offset = Len(g) /\ Laid(g, Len(g)) /\ EntriesOK(g, log, Len(g), u.entries)
    <3>1. writer.count + Len(c) <= Len(log)
      BY <1>1, <1>2
    <3>2. \A k \in 1..3 : ~PacketAt(file, k)
      <4>1. Started(file) /\ <<>> \in Seq(Cell)
        BY WritingAlone
      <4> QED
        BY <4>1, <1>1, StartedGrows
    <3>3. writer.offset = Len(file) /\ Laid(file, Len(file)) /\ EntriesOK(file, log, Len(file), writer.entries)
      BY <2>7, <1>3
    <3> DEFINE h == file \o ChunkCells(c)
    <3>4. u.offset = Len(h) /\ Laid(h, Len(h)) /\ EntriesOK(h, log, Len(h), u.entries)
      BY <3>1, <3>2, <3>3, <2>3, <2>4, <1>1, <1>2, <1>5, FlushWhole
    <3>5. h = g
      BY <2>1
    <3> HIDE DEF h, g, u
    <3> QED
      BY <3>4, <3>5
  <2>8. u = w
    BY <2>1
  <2>9. Before(g, Len(g)) = Len(log) /\ u.count = Len(log)
    BY <2>5, <2>6, <1>2
  <2> HIDE DEF u, w, g
  <2> QED
    BY <2>1, <2>2, <2>5, <2>6, <2>7, <2>8, <2>9, <1>5 DEF last, w, g
<1> QED
  BY <1>4, <1>5

\* The entries and the header of a finished file.
LEMMA FooterCellsAre ==
  ASSUME NEW w \in Writer
  PROVE  LET s == FooterCells(w)
         IN /\ s \in Seq(Cell) /\ Len(s) = 1 + Len(w.entries) /\ s[1] = Number(Len(w.entries))
            /\ \A i \in 1..Len(w.entries) : s[1 + i] = w.entries[i] /\ s[1 + i] \in EntryCell
            /\ \A i \in 1..Len(s) : s[i].kind # "packet"
<1> DEFINE a == <<Number(Len(w.entries))>>
           e == w.entries
           s == FooterCells(w)
<1>1. e \in Seq(EntryCell) /\ Len(e) \in Nat
  BY DEF Writer
<1>2. e \in Seq(Cell)
  BY <1>1, WrittenCells, SeqMonotonic
<1>3. a \in Seq(Cell) /\ Len(a) = 1 /\ a[1] = Number(Len(e)) /\ a[1].kind = "number"
  <2>1. Number(Len(e)) \in Cell /\ Number(Len(e)).kind = "number"
    BY <1>1, WrittenCells
  <2> QED
    BY <2>1
<1>4. s = a \o e
  BY DEF FooterCells
<1> HIDE DEF a, e, s
<1>5. /\ s \in Seq(Cell) /\ Len(s) = 1 + Len(e) /\ s[1] = a[1]
      /\ \A i \in 1..Len(e) : s[1 + i] = e[i]
  <2>1. 1 \in 1..Len(a)
    BY <1>3
  <2>2. a \o e \in Seq(Cell) /\ Len(a \o e) = Len(a) + Len(e) /\ (a \o e)[1] = a[1]
        /\ \A i \in 1..Len(e) : (a \o e)[Len(a) + i] = e[i]
    BY <2>1, <1>2, <1>3, Grown
  <2> QED
    BY <2>2, <1>3, <1>4
<1>6. \A i \in 1..Len(e) : e[i] \in EntryCell /\ e[i].kind = "entry"
  <2> TAKE i \in 1..Len(e)
  <2>1. e[i] \in EntryCell
    BY <1>1, ElementOfSeq
  <2> QED
    BY <2>1, WrittenCells
<1>7. \A i \in 1..Len(s) : s[i].kind # "packet"
  <2> TAKE i \in 1..Len(s)
  <2>1. i = 1 \/ (i - 1 \in 1..Len(e) /\ 1 + (i - 1) = i)
    BY <1>1, <1>5
  <2> QED
    BY <2>1, <1>3, <1>5, <1>6
<1> QED
  BY <1>3, <1>5, <1>6, <1>7 DEF s, e

\* The header that ends a recording.
LEMMA FinalHeaderIs ==
  ASSUME FileInv, NEW w \in Writer, w.count = Len(log)
  PROVE  LET h == FinalHeader(w)
         IN /\ h \in HeaderCell /\ h.schema = 1 /\ h.chunks = 3 /\ h.footer = w.offset /\ h.total = Len(log)
            /\ h.duration = IF log = <<>> THEN 0 ELSE (w.last - w.first) % Wrap
<1>1. log \in Seq(Times) /\ Len(log) \in Nat /\ (Len(log) = 0 <=> log = <<>>)
  BY DEF FileInv, FileTypes
<1>2. Duration(w) = IF log = <<>> THEN 0 ELSE (w.last - w.first) % Wrap
  BY <1>1 DEF Duration
<1>3. Duration(w) \in Nat
  <2>1. CASE log # <<>>
    <3>1. log[1] \in Times
      <4>1. 1 \in 1..Len(log)
        BY <2>1, <1>1
      <4> QED
        BY <4>1, <1>1, ElementOfSeq
    <3>2. Wrap \in Nat /\ Wrap > 0
      <4>1. PICK t \in Times : TRUE
        BY <3>1
      <4>2. t \in Nat /\ t < Wrap /\ Wrap \in Nat
        BY RpcapAssumption
      <4> QED
        BY <4>2
    <3>3. w.last - w.first \in Int
      BY DEF Writer
    <3>4. (w.last - w.first) % Wrap \in Nat
      <4>1. \A x \in Int : x % Wrap \in Nat
        BY <3>2
      <4> QED
        BY <4>1, <3>3
    <3> QED
      BY <3>4, <2>1, <1>2
  <2> QED
    BY <2>1, <1>2
<1> HIDE DEF Duration
<1>4. w.offset \in Nat
  BY DEF Writer
<1> QED
  BY <1>1, <1>2, <1>3, <1>4 DEF FinalHeader, Header, HeaderCell

\* A recording that is finished: the header in place, the footer behind the chunks.
LEMMA SealKeeps ==
  ASSUME FileInv, writing, writing' = FALSE, sealed' = TRUE, intact' = intact, log' = log,
         writer' = NoWriter, faults' \in 0..MaxFaults,
         LET w == LastFlushed(writer)
         IN file' = [file \o (LastCells(writer) \o FooterCells(w)) EXCEPT ![1] = FinalHeader(w)]
  PROVE  FileInv'
<1> DEFINE last == LastCells(writer)
           w == LastFlushed(writer)
           g == file \o last
           foot == FooterCells(w)
           h == g \o foot
           header == FinalHeader(w)
           end == Len(g)
<1>1. /\ file \in Seq(Cell) /\ Started(file) /\ log \in Seq(Nat) /\ Len(log) \in Nat
  <2>1. log \in Seq(Times) /\ Times \subseteq Nat
    BY RpcapAssumption DEF FileInv, FileTypes
  <2>2. log \in Seq(Nat)
    BY <2>1, SeqMonotonic
  <2> QED
    BY <2>2, WritingAlone DEF FileInv, FileTypes
<1>2. /\ last \in Seq(Cell) /\ w \in Writer /\ w.first = writer.first /\ w.last = writer.last /\ w.count = Len(log)
      /\ Before(g, end) = Len(log) /\ Numbered(g, log)
      /\ intact => w.offset = end /\ Laid(g, end) /\ EntriesOK(g, log, end, w.entries)
  BY LastChunkIs
<1>3. /\ foot \in Seq(Cell) /\ Len(foot) = 1 + Len(w.entries) /\ foot[1] = Number(Len(w.entries))
      /\ (\A i \in 1..Len(w.entries) : foot[1 + i] = w.entries[i] /\ foot[1 + i] \in EntryCell)
      /\ \A i \in 1..Len(foot) : foot[i].kind # "packet"
  BY <1>2, FooterCellsAre
<1>4. /\ header \in HeaderCell /\ header.schema = 1 /\ header.chunks = 3 /\ header.footer = w.offset /\ header.total = Len(log)
      /\ header.duration = IF log = <<>> THEN 0 ELSE (w.last - w.first) % Wrap
  BY <1>2, FinalHeaderIs
<1>5. header \in Cell /\ header.kind = "header" /\ Len(w.entries) \in Nat
  BY <1>2, <1>4, WrittenCells DEF Writer
<1>6. file' = [h EXCEPT ![1] = header]
  <2>1. file' = [file \o (last \o foot) EXCEPT ![1] = header]
    OBVIOUS
  <2>2. (file \o last) \o foot = file \o (last \o foot)
    <3>1. file \in Seq(Cell) /\ last \in Seq(Cell) /\ foot \in Seq(Cell)
      BY <1>1, <1>2, <1>3
    <3> HIDE DEF last, foot
    <3> QED
      BY <3>1, CellsConcat, Zenon
  <2> QED
    BY <2>1, <2>2
<1> HIDE DEF last, w, foot, header
<1>7. /\ g \in Seq(Cell) /\ end \in Nat /\ Started(g)
  BY <1>1, <1>2, Grown, StartedGrows
<1>8. end >= 3 /\ 3 \in 1..end
  BY <1>7 DEF Started
<1> HIDE DEF g
<1>9. /\ h \in Seq(Cell) /\ Len(h) = end + (1 + Len(w.entries)) /\ Started(h)
      /\ (\A i \in 1..end : h[i] = g[i]) /\ \A i \in 1..Len(foot) : h[end + i] = foot[i]
  <2>1. /\ h \in Seq(Cell) /\ Len(h) = end + Len(foot)
        /\ (\A i \in 1..end : h[i] = g[i]) /\ \A i \in 1..Len(foot) : h[end + i] = foot[i]
    BY <1>3, <1>7, Grown
  <2> QED
    BY <2>1, <1>3, <1>7, StartedGrows
<1>10. Numbered(h, log) /\ Before(h, Len(h)) = Len(log)
  BY <1>2, <1>3, <1>7, NumberedPlain
<1> HIDE DEF h, end
<1>e. end = Len(g)
  BY DEF end
<1>12. Len(h) \in Nat /\ Len(h) > end /\ Len(h) >= 4
  <2>1. Len(h) = end + (1 + Len(w.entries)) /\ Len(w.entries) \in Nat /\ end \in Nat /\ end >= 3
    BY <1>5, <1>7, <1>8, <1>9 DEF end
  <2> QED
    BY <2>1
<1>11. /\ file' \in Seq(Cell) /\ Len(file') = Len(h) /\ file'[1] = header
       /\ \A k \in 1..Len(h) : k # 1 => file'[k] = h[k]
  <2>1. 1 \in 1..Len(h)
    BY <1>12
  <2>2. \A k \in 1..Len(h) : file'[k] = IF k = 1 THEN header ELSE h[k]
    BY <2>1, <1>5, <1>6, <1>9, ExceptSeq
  <2>3. file' \in Seq(Cell) /\ Len(file') = Len(h)
    <3>1. [h EXCEPT ![1] = header] \in Seq(Cell) /\ Len([h EXCEPT ![1] = header]) = Len(h)
      <4>1. h \in Seq(Cell) /\ header \in Cell
        BY <1>5, <1>9
      <4> QED
        BY <2>1, <4>1, ExceptSeq
    <3> QED
      BY <3>1, <1>6
  <2> QED
    BY <2>1, <2>2, <2>3
<1>13. Numbered(file', log')
  <2>1. h[1].kind # "packet"
    BY <1>9 DEF Started
  <2>2. \A k \in 1..Len(h) : file'[k] = h[k] \/ (h[k].kind # "packet" /\ file'[k].kind # "packet")
    BY <2>1, <1>5, <1>11
  <2>3. Numbered(file', log)
    BY <2>2, <1>9, <1>10, <1>11, NumberedSame
  <2> QED
    BY <2>3
<1>14. Started(file')
  <2>1. 2 \in 1..Len(h) /\ 3 \in 1..Len(h) /\ Len(file') >= 3
    BY <1>11, <1>12
  <2>2. file'[2] = h[2] /\ file'[3] = h[3]
    BY <2>1, <1>11
  <2> QED
    BY <2>1, <2>2, <1>5, <1>9, <1>11 DEF Started
<1>15. Opening'
  BY <1>4, <1>11, <1>14 DEF Opening
<1>16. Pending' /\ Whole'
  BY DEF Pending, Whole
<1>17. Exclusive'
  BY DEF Exclusive
<1>18. FileTypes'
  <2>1. /\ writer' \in Writer /\ writer'.offset <= Len(file') /\ writer'.count + Len(writer'.chunk) <= MaxPackets
        /\ writer'.chunk \in Seq([n : 1..MaxPackets, t : Times])
    <3>1. Len(writer'.chunk) = 0 /\ 0 + 0 <= MaxPackets /\ 0 <= Len(file')
      BY <1>11, <1>12, NoWriterType, RpcapAssumption
    <3> QED
      BY <3>1, NoWriterType
  <2>2. /\ log' \in Seq(Times) /\ Len(log') <= MaxPackets /\ intact' \in BOOLEAN /\ writing' \in BOOLEAN
        /\ sealed' \in BOOLEAN
    BY DEF FileInv, FileTypes
  <2> QED
    BY <2>1, <2>2, <1>11 DEF FileTypes
<1>19. Finished'
  <2> SUFFICES ASSUME intact' PROVE Finished'
    BY DEF Finished
  <2>1. intact /\ w.offset = end /\ Laid(g, end) /\ EntriesOK(g, log, end, w.entries) /\ file'[1].footer = end
    BY <1>2, <1>4, <1>11 DEF end
  <2>2. file'[end + 1] = Number(Len(w.entries)) /\ Len(file') - end - 1 = Len(w.entries)
    <3>1. 1 \in 1..Len(foot) /\ end + 1 \in 1..Len(h) /\ end + 1 # 1
      BY <1>3, <1>5, <1>7, <1>8, <1>9
    <3>2. file'[end + 1] = foot[1]
      BY <3>1, <1>9, <1>11
    <3>3. Len(file') = end + (1 + Len(w.entries))
      BY <1>9, <1>11
    <3>4. Len(file') - end - 1 = Len(w.entries)
      BY <3>3, <1>5, <1>7
    <3> QED
      BY <3>2, <3>4, <1>3
  <2>3. SameChunks(g, file', end)
    <3>1. \A k \in 4..end : file'[k] = g[k]
      <4> TAKE k \in 4..end
      <4>1. k \in 1..Len(h) /\ k \in 1..end /\ k # 1
        BY <1>7, <1>12
      <4> QED
        BY <4>1, <1>9, <1>11
    <3>2. ~PacketAt(g, 1) /\ ~PacketAt(g, 2) /\ ~PacketAt(g, 3)
      BY <1>7, WrittenCells DEF Started, PacketAt
    <3>3. ~PacketAt(file', 1) /\ ~PacketAt(file', 2) /\ ~PacketAt(file', 3)
      BY <1>14, WrittenCells DEF Started, PacketAt
    <3>4. ~PacketAt(g, end + 1)
      BY <1>7 DEF PacketAt, end
    <3>5. ~PacketAt(file', end + 1)
      BY <2>2, <1>5, WrittenCells DEF PacketAt
    <3>6. Len(file') >= end
      BY <1>7, <1>11, <1>12
    <3> QED
      BY <3>1, <3>2, <3>3, <3>4, <3>5, <3>6 DEF SameChunks
  <2>4. Laid(file', end)
    BY <2>1, <2>3, <1>7, <1>11, LaidSame
  <2>5. Before(file', end) = Len(log)
    <3>1. end \in 3..Len(g) /\ end \in 3..end
      BY <1>e, <1>7, <1>8
    <3> QED
      BY <3>1, <2>3, <1>2, <1>7, <1>11, SameBefore
  <2>6. EntriesOK(file', log, end, w.entries)
    <3>1. Before(g, end) <= Len(log) /\ end <= end
      BY <1>1, <1>2, <1>7
    <3>2. \A i \in 1..Len(log) : log[i] = log[i]
      OBVIOUS
    <3> QED
      BY <3>1, <3>2, <2>1, <2>3, <1>1, <1>7, <1>11, EntriesSame
  <2>a. \A i \in end + 2..Len(file') : /\ i - end - 1 \in 1..Len(w.entries) /\ file'[i] \in EntryCell
                                       /\ file'[i] = w.entries[i - end - 1]
    <3> TAKE i \in end + 2..Len(file')
    <3> DEFINE j == i - end - 1
    <3>1. j \in 1..Len(w.entries) /\ 1 + j \in 1..Len(foot) /\ end + (1 + j) = i /\ i \in 1..Len(h) /\ i # 1
      BY <1>3, <1>5, <1>7, <1>8, <1>9, <1>11
    <3> HIDE DEF j
    <3>2. file'[i] = h[i] /\ h[end + (1 + j)] = foot[1 + j]
      BY <3>1, <1>9, <1>11
    <3>3. foot[1 + j] = w.entries[j] /\ foot[1 + j] \in EntryCell
      BY <3>1, <1>3
    <3>4. file'[i] = w.entries[j] /\ file'[i] \in EntryCell
      BY <3>1, <3>2, <3>3
    <3> QED
      BY <3>1, <3>4 DEF j
  <2>7. \A i \in end + 2..Len(file') : file'[i] \in EntryCell /\ EntryOK(file', log, end, file'[i])
    BY <2>a, <2>6 DEF EntriesOK
  <2>b. ASSUME NEW i \in end + 2..Len(file'), NEW j \in end + 2..Len(file'), i < j
        PROVE  file'[i].offset < file'[j].offset
    <3>1. i - end - 1 < j - end - 1
      BY <2>b, <1>7
    <3>2. \A k, l \in 1..Len(w.entries) : k < l => w.entries[k].offset < w.entries[l].offset
      BY <2>6 DEF EntriesOK
    <3> QED
      BY <3>1, <3>2, <2>a
  <2>8. file'[1].duration = IF log = <<>> THEN 0 ELSE (log[Len(log)] - log[1]) % Wrap
    <3>1. log # <<>> => writer.first = log[1] /\ writer.last = log[Len(log)]
      BY <2>1 DEF FileInv, Whole
    <3> QED
      BY <3>1, <1>2, <1>4, <1>11
  <2>9. file'[1].total = Len(log) /\ Len(file') > end
    BY <1>4, <1>11, <1>12
  <2> QED
    BY <2>1, <2>2, <2>4, <2>5, <2>7, <2>8, <2>9, <2>b DEF Finished
<1> QED
  BY <1>13, <1>15, <1>16, <1>17, <1>18, <1>19 DEF FileInv

\* FinalizeFile: it returns true, or leaves a file without a header and maybe a footer.
LEMMA FinalizeKeeps == FileInv /\ FinalizeFile => FileInv'
<1> SUFFICES ASSUME FileInv, FinalizeFile PROVE FileInv'
  OBVIOUS
<1> DEFINE last == LastCells(writer)
           w == LastFlushed(writer)
           foot == FooterCells(w)
           header == FinalHeader(w)
           growing == last \o foot
           all == Append(growing, header)
           calls == (IF last = <<>> THEN {} ELSE ChunkCalls) \cup Len(last)..Len(growing)
           tail == Append(foot, header)
<1>1. writing /\ writing' = FALSE /\ log' = log
  BY DEF FinalizeFile
<1>2. PICK o \in Outcomes(all, calls) :
        /\ sealed' = Succeeds(all, o)
        /\ file' = IF sealed' THEN [file \o growing EXCEPT ![1] = header] ELSE file \o Written(all, o)
        /\ CountFault(sealed')
        /\ writer' = IF sealed' THEN NoWriter ELSE writer
  BY DEF FinalizeFile
<1>3. /\ file \in Seq(Cell) /\ log \in Seq(Nat) /\ Len(log) \in Nat
  <2>1. log \in Seq(Times) /\ Times \subseteq Nat
    BY RpcapAssumption DEF FileInv, FileTypes
  <2>2. log \in Seq(Nat)
    BY <2>1, SeqMonotonic
  <2> QED
    BY <2>2 DEF FileInv, FileTypes
<1>4. /\ last \in Seq(Cell) /\ w \in Writer /\ w.count = Len(log)
      /\ Numbered(file \o last, log)
      /\ IF writer.chunk = <<>> THEN last = <<>> ELSE last = ChunkCells(writer.chunk) /\ Len(last) >= 4
  BY <1>1, LastChunkIs
<1>5. foot \in Seq(Cell) /\ Len(foot) \in Nat /\ \A i \in 1..Len(foot) : foot[i].kind # "packet"
  BY <1>4, FooterCellsAre
<1>6. header \in Cell /\ header.kind = "header"
  BY <1>4, FinalHeaderIs, WrittenCells
<1> HIDE DEF w, foot, header
<1>7. tail \in Seq(Cell) /\ Len(tail) = Len(foot) + 1 /\ \A i \in 1..Len(tail) : tail[i].kind # "packet"
  <2>1. tail \in Seq(Cell) /\ Len(tail) = Len(foot) + 1 /\ tail[Len(foot) + 1] = header
        /\ \A i \in 1..Len(foot) : tail[i] = foot[i]
    BY <1>5, <1>6
  <2> HIDE DEF tail
  <2>2. \A i \in 1..Len(tail) : i \in 1..Len(foot) \/ i = Len(foot) + 1
    BY <2>1, <1>5
  <2> QED
    BY <2>1, <2>2, <1>5, <1>6
<1>8. all = last \o tail /\ Len(growing) = Len(last) + Len(foot)
  <2>1. all = growing \o <<header>> /\ tail = foot \o <<header>> /\ <<header>> \in Seq(Cell)
    BY <1>4, <1>5, <1>6
  <2>2. (last \o foot) \o <<header>> = last \o (foot \o <<header>>)
    BY <2>1, <1>4, <1>5, ConcatAssociative
  <2> QED
    BY <2>1, <2>2, <1>4, <1>5, Grown
<1>9. all \in Seq(Cell) /\ Len(all) = Len(last) + Len(tail) /\ Len(last) \in Nat
  BY <1>4, <1>7, <1>8, Grown
<1>10. calls \in SUBSET (0..Len(all) - 1)
  <2>1. Len(growing) \in Nat /\ Len(all) - 1 = Len(growing) /\ Len(last) <= Len(growing)
    BY <1>5, <1>7, <1>8, <1>9
  <2>2. Len(last)..Len(growing) \subseteq 0..Len(all) - 1
    BY <2>1, <1>9
  <2>3. last # <<>> => ChunkCalls \subseteq 0..Len(all) - 1
    <3>1. last # <<>> => Len(last) >= 4
      BY <1>4
    <3> QED
      BY <3>1, <2>1, <1>9 DEF ChunkCalls
  <2> QED
    BY <2>2, <2>3
<1>11. /\ o.done \in 0..Len(all) /\ o.torn \in BOOLEAN
       /\ ~Succeeds(all, o) => o.done \in calls /\ faults < MaxFaults
  <2> HIDE DEF all, calls
  <2> QED
    BY <1>9, <1>10, OutcomeIs
<1>12. sealed' \in BOOLEAN
  BY <1>2 DEF Succeeds
<1>13. faults' \in 0..MaxFaults /\ intact' \in BOOLEAN /\ (intact' <=> intact /\ sealed')
  <2> HIDE DEF all, calls
  <2> QED
    BY <1>2, <1>11, <1>12, FaultCounted
<1>14. CASE sealed'
  <2>1. sealed' = TRUE /\ writer' = NoWriter /\ file' = [file \o growing EXCEPT ![1] = header]
    BY <1>2, <1>12, <1>14
  <2>2. intact' = intact
    BY <1>13, <1>14 DEF FileInv, FileTypes
  <2> QED
    BY <2>1, <2>2, <1>1, <1>13, SealKeeps DEF w, foot, header
<1>15. CASE ~sealed'
  <2> DEFINE s == Written(all, o)
  <2>1. sealed' = FALSE /\ writer' = writer /\ file' = file \o s /\ ~intact' /\ o.done \in calls
    BY <1>2, <1>11, <1>12, <1>13, <1>15
  <2>2. s \in Seq(Cell) /\ Len(s) = o.done + (IF o.torn THEN 1 ELSE 0)
    <3> HIDE DEF all
    <3> QED
      BY <1>9, <1>11, WrittenAre
  <2>3. Numbered(file', log)
    <3>1. CASE o.done \in Len(last)..Len(growing)
      <4>1. o.done \in Len(last)..Len(last) + Len(tail)
        BY <3>1, <1>5, <1>7, <1>8, <1>9
      <4>2. /\ file \in Seq(Cell) /\ last \in Seq(Cell) /\ tail \in Seq(Cell) /\ Numbered(file \o last, log)
            /\ \A i \in 1..Len(tail) : tail[i].kind # "packet"
        BY <1>3, <1>4, <1>7
      <4>3. o.torn \in BOOLEAN /\ file' = file \o Written(last \o tail, o)
        BY <1>8, <1>11, <2>1
      <4> HIDE DEF last, tail, all, growing, calls, s
      <4>4. Numbered(file \o Written(last \o tail, o), log)
        BY <4>1, <4>2, <4>3, WrittenNumbered
      <4> QED
        BY <4>3, <4>4
    <3>2. CASE last # <<>> /\ o.done \in 0..3
      <4> DEFINE c == ChunkCells(writer.chunk)
                 q == Written(c, o)
      <4>1. last = c /\ Len(last) >= 4 /\ writer.chunk \in Seq(Packet)
        BY <3>2, <1>4 DEF FileInv, FileTypes, Writer
      <4>2. q \in Seq(Cell) /\ \A i \in 1..Len(q) : q[i].kind # "packet"
        BY <4>1, <3>2, <1>11, CutChunkPlain
      <4>3. s = q
        <5>1. SubSeq(last \o tail, 1, o.done) = SubSeq(last, 1, o.done)
          <6> DEFINE a == SubSeq(last \o tail, 1, o.done)
                     b == SubSeq(last, 1, o.done)
          <6>0. last \in Seq(Cell) /\ last \o tail \in Seq(Cell) /\ o.done \in 0..Len(last) /\ o.done \in 0..Len(last \o tail)
            BY <4>1, <3>2, <1>4, <1>7, <1>8, <1>9
          <6>1. a \in Seq(Cell) /\ Len(a) = o.done /\ \A i \in 1..o.done : a[i] = (last \o tail)[i]
            <7> HIDE DEF last, tail
            <7> QED
              BY <6>0
          <6>2. b \in Seq(Cell) /\ Len(b) = o.done /\ \A i \in 1..o.done : b[i] = last[i]
            <7> HIDE DEF last, tail
            <7> QED
              BY <6>0
          <6>3. \A i \in 1..o.done : i \in 1..Len(last)
            BY <6>0
          <6>4. \A i \in 1..o.done : (last \o tail)[i] = last[i]
            <7> HIDE DEF last, tail
            <7> QED
              BY <6>3, <1>4, <1>7, Grown
          <6> HIDE DEF a, b, last, tail
          <6> QED
            BY <6>1, <6>2, <6>4, SeqEqual DEF a, b
        <5> QED
          BY <5>1, <4>1, <1>8 DEF Written
      <4> QED
        BY <4>2, <4>3, <2>1, <1>3, NumberedPlain DEF FileInv
    <3>3. o.done \in Len(last)..Len(growing) \/ (last # <<>> /\ o.done \in 0..3)
      BY <2>1 DEF ChunkCalls
    <3> QED
      BY <3>1, <3>2, <3>3
  <2>4. Pending' /\ Whole'
    BY <1>1 DEF Pending, Whole
  <2>5. /\ writer' \in Writer /\ writer'.chunk \in Seq([n : 1..MaxPackets, t : Times])
        /\ writer'.count + Len(writer'.chunk) <= MaxPackets
        /\ log' \in Seq(Times) /\ Len(log') <= MaxPackets /\ writing' \in BOOLEAN
    BY <2>1, <1>1 DEF FileInv, FileTypes
  <2>6. writer'.offset <= Len(file')
    <3>1. writer'.offset <= Len(file) /\ writer'.offset \in Nat /\ Len(file) \in Nat
      BY <2>1 DEF FileInv, FileTypes, Writer
    <3>2. Len(file') = Len(file) + Len(s) /\ Len(s) \in Nat
      <4> HIDE DEF s
      <4>1. Len(file') = Len(file) + Len(s)
        BY <2>1, <2>2, <1>3, Grown
      <4>2. Len(s) \in Nat
        BY <2>2, LenProperties
      <4> QED
        BY <4>1, <4>2
    <3> QED
      BY <3>1, <3>2
  <2>7. Numbered(file', log') /\ writing
    BY <2>3, <1>1
  <2> HIDE DEF s
  <2> QED
    BY <2>1, <2>2, <2>4, <2>5, <2>6, <2>7, <1>1, <1>13, WritingKeeps
<1> QED
  BY <1>14, <1>15

-----------------------------------------------------------------------------
(***************************************************************************)
(* Reading.                                                                *)
(***************************************************************************)

\* Reading leaves the file and its writer.
LEMMA FileStays == FileInv /\ UNCHANGED <<file, writeVars>> => FileInv'
<1> SUFFICES ASSUME FileInv, UNCHANGED <<file, writeVars>> PROVE FileInv'
  OBVIOUS
<1>1. FileTypes' /\ Exclusive'
  BY DEF writeVars, FileInv, FileTypes, Exclusive
<1>2. Numbered(file, log)' /\ Opening' /\ Finished'
  BY DEF writeVars, FileInv, Opening, Finished, Started
<1>3. Pending' /\ Whole'
  BY DEF writeVars, FileInv, Pending, Whole
<1> QED
  BY <1>1, <1>2, <1>3 DEF FileInv

\* What it does to the reader is left to show.
LEMMA ReadingKeeps ==
  ASSUME IInv, UNCHANGED <<file, writeVars>>,
         reader' \in Reader, reader'.index <= Len(reader'.chunk), got' \in Seq(Nat), reading' \in BOOLEAN,
         target' \in Targets \cup {NoTarget}, reader'.open => sealed /\ reading',
         ~reader'.open => target' = NoTarget /\ got' = <<>>, target' # NoTarget => got' = <<>>,
         Forward', Placed'
  PROVE  IInv'
<1>1. FileInv'
  BY FileStays DEF IInv
<1>2. ReaderTypes'
  BY DEF ReaderTypes
<1>3. Control'
  BY DEF writeVars, Control
<1> QED
  BY <1>1, <1>2, <1>3 DEF IInv

\* A file is closed, or cannot be opened.
LEMMA CloseKeeps == IInv /\ (CloseFile \/ OpenFileRefused) => IInv'
<1> SUFFICES ASSUME IInv, CloseFile \/ OpenFileRefused PROVE IInv'
  OBVIOUS
<1>1. target = NoTarget /\ reader' = NoReader /\ reading' = FALSE /\ got' = <<>> /\ UNCHANGED <<file, writeVars>>
      /\ target' = target
  BY DEF CloseFile, OpenFileRefused
<1>2. Forward' /\ Placed'
  BY <1>1, NoReaderType DEF Forward, Placed
<1> QED
  BY <1>1, <1>2, NoReaderType, ReadingKeeps

\* A reader gets past the header only of a file that was finalized.
LEMMA OpensSealed == FileInv => OpensOnlyFinalized
<1> SUFFICES ASSUME FileInv, CanOpen PROVE sealed
  BY DEF OpensOnlyFinalized
<1>1. 1 \in 1..Len(file) /\ file[1].kind = "header" /\ file # <<>>
  BY DEF CanOpen, Is
<1>2. ASSUME ~sealed PROVE FALSE
  <2>1. file[1].schema = 0
    BY <1>1, <1>2 DEF FileInv, Opening
  <2>2. file[0 + 1].kind = "number"
    BY <2>1 DEF CanOpen, LoadSchema, Is
  <2> QED
    BY <2>2, <1>1
<1> QED
  BY <1>2

\* The footer of an undamaged file is read as it was written.
LEMMA FooterRead ==
  ASSUME FileInv, sealed, NEW footer \in LoadFooter(file[1])
  PROVE  footer \in Seq(EntryCell) /\ (intact => EntriesOK(file, log, file[1].footer, footer))
<1> DEFINE end == file[1].footer
           at == end + 1
           n == file[at].n
           rest == SubSeq(file, at + 1, at + n)
           ok == Is("number", at) /\ at + n <= Len(file) /\ \A c \in ToSet(rest) : c.kind = "entry"
<1>1. file \in Seq(Cell) /\ Len(file) \in Nat /\ file[1] \in HeaderCell /\ end \in Nat
  <2>1. file \in Seq(Cell) /\ Len(file) \in Nat
    BY DEF FileInv, FileTypes
  <2>2. Len(file) >= 3 /\ file[1].kind = "header"
    BY DEF FileInv, Opening, Started
  <2>3. 1 \in 1..Len(file)
    BY <2>1, <2>2
  <2>4. file[1] \in Cell
    BY <2>1, <2>3, ElementOfSeq
  <2>5. file[1] \in HeaderCell
    BY <2>2, <2>4, CellKinds
  <2> QED
    BY <2>1, <2>5 DEF HeaderCell
<1>2. footer \in (IF ok THEN {rest} ELSE {<<>>} \cup {<<Entry(0, offset)>> : offset \in 0..Len(file)})
  BY DEF LoadFooter
<1>3. ASSUME Is("number", at), at + n <= Len(file), n \in Nat
      PROVE  /\ rest \in Seq(Cell) /\ Len(rest) = n /\ (\A i \in 1..n : rest[i] = file[at + i])
             /\ \A c \in ToSet(rest) : \E i \in 1..n : c = file[at + i]
             /\ \A i \in 1..n : rest[i] \in ToSet(rest)
  <2>1. \A i \in at + 1..at + n : i \in 1..Len(file)
    BY <1>1, <1>3
  <2>2. \A i \in at + 1..at + n : file[i] \in Cell
    BY <2>1, <1>1, ElementOfSeq
  <2>3. at + 1 \in Int /\ at + n \in Int
    <3>1. at \in Nat /\ n \in Nat
      BY <1>1, <1>3
    <3> HIDE DEF n, at
    <3> QED
      BY <3>1
  <2> HIDE DEF n, at
  <2> DEFINE a == at + 1
             b == at + n
  <2>a. a \in Int /\ b \in Int /\ (\A i \in a..b : file[i] \in Cell) /\ rest = SubSeq(file, a, b)
    BY <2>2, <2>3
  <2> HIDE DEF a, b
  <2>b. /\ SubSeq(file, a, b) \in Seq(Cell) /\ Len(SubSeq(file, a, b)) = IF a <= b THEN b - a + 1 ELSE 0
        /\ \A i \in 1..b - a + 1 : SubSeq(file, a, b)[i] = file[a + i - 1]
    BY <2>a, SubSeqProperties
  <2> HIDE DEF rest
  <2>4. /\ rest \in Seq(Cell) /\ Len(rest) = IF a <= b THEN b - a + 1 ELSE 0
        /\ \A i \in 1..b - a + 1 : rest[i] = file[a + i - 1]
    BY <2>a, <2>b
  <2>5. at \in Nat /\ n \in Nat
    BY <1>1, <1>3 DEF at
  <2>c. b - a + 1 = n /\ (a <= b <=> n # 0) /\ \A i \in 1..n : a + i - 1 = at + i
    BY <2>5 DEF a, b
  <2>6. Len(rest) = n
    BY <2>4, <2>5, <2>c
  <2>7. \A i \in 1..n : rest[i] = file[at + i]
    BY <2>4, <2>c
  <2>8. DOMAIN rest = 1..n
    BY <2>4, <2>6, LenProperties
  <2> QED
    BY <2>4, <2>6, <2>7, <2>8 DEF ToSet
<1>4. ASSUME ok PROVE footer \in Seq(EntryCell)
  <2>1. n \in Nat
    <3>1. at \in 1..Len(file) /\ file[at].kind = "number"
      BY <1>4 DEF Is
    <3>2. file[at] \in Cell
      BY <3>1, <1>1, ElementOfSeq
    <3> QED
      BY <3>1, <3>2, CellKinds
  <2>2. rest \in Seq(Cell) /\ Len(rest) = n /\ \A i \in 1..n : rest[i].kind = "entry"
    BY <2>1, <1>3, <1>4
  <2> HIDE DEF rest, n
  <2>3. \A i \in 1..Len(rest) : rest[i] \in EntryCell
    <3> TAKE i \in 1..Len(rest)
    <3>1. rest[i] \in Cell
      BY <2>2, ElementOfSeq
    <3> QED
      BY <3>1, <2>2, CellKinds
  <2>4. rest \in Seq(EntryCell)
    <3>1. rest \in [1..Len(rest) -> Cell] /\ Len(rest) \in Nat
      BY <2>2, LenProperties
    <3>2. rest \in [1..Len(rest) -> EntryCell]
      BY <2>3, <3>1
    <3> QED
      BY <3>1, <3>2, SeqDef
  <2>5. footer = rest
    BY <1>2, <1>4 DEF rest, n
  <2> QED
    BY <2>4, <2>5
<1>5. ASSUME ~ok PROVE footer \in Seq(EntryCell)
  <2>1. footer = <<>> \/ \E offset \in 0..Len(file) : footer = <<Entry(0, offset)>>
    BY <1>2, <1>5
  <2>2. \A offset \in 0..Len(file) : <<Entry(0, offset)>> \in Seq(EntryCell)
    <3> TAKE offset \in 0..Len(file)
    <3>1. Entry(0, offset) \in EntryCell
      BY WrittenCells
    <3> QED
      BY <3>1
  <2> QED
    BY <2>1, <2>2, EmptySeq
<1>6. ASSUME intact PROVE ok /\ EntriesOK(file, log, end, footer)
  <2>1. /\ Len(file) > end /\ file[at] = Number(Len(file) - end - 1)
        /\ \A i \in end + 2..Len(file) : file[i] \in EntryCell /\ EntryOK(file, log, end, file[i])
    BY <1>6 DEF FileInv, Finished
  <2>2. Len(file) - end - 1 \in Nat /\ at \in 1..Len(file)
    BY <2>1, <1>1
  <2>3. n = Len(file) - end - 1 /\ Is("number", at)
    BY <2>1, <2>2, WrittenCells DEF Is
  <2>4. n \in Nat /\ at + n = Len(file) /\ at + n <= Len(file)
    <3>1. \A x \in Nat : end + 1 + (x - end - 1) = x
      BY <1>1
    <3>2. at + n = Len(file)
      BY <3>1, <2>3, <1>1
    <3> QED
      BY <3>2, <2>2, <2>3, <1>1
  <2>5. \A i \in 1..n : at + i \in end + 2..Len(file)
    <3>1. \A x \in Nat : end + 1 + x = Len(file) => \A i \in 1..x : end + 1 + i \in end + 2..Len(file)
      BY <1>1
    <3> QED
      BY <3>1, <2>4
  <2>6. \A i \in 1..n : file[at + i] \in EntryCell /\ EntryOK(file, log, end, file[at + i]) /\ file[at + i].kind = "entry"
    BY <2>1, <2>5, WrittenCells
  <2>7. Len(rest) = n /\ (\A i \in 1..n : rest[i] = file[at + i])
        /\ \A c \in ToSet(rest) : \E i \in 1..n : c = file[at + i]
    BY <2>3, <2>4, <1>3
  <2>8. \A c \in ToSet(rest) : c.kind = "entry"
    BY <2>6, <2>7
  <2>9. ok
    BY <2>3, <2>4, <2>8
  <2>10. footer = rest
    BY <2>9, <1>2
  <2> HIDE DEF rest
  <2>12. ASSUME NEW i \in 1..n, NEW j \in 1..n, i < j PROVE file[at + i].offset < file[at + j].offset
    <3>1. \A k, l \in end + 2..Len(file) : k < l => file[k].offset < file[l].offset
      BY <1>6 DEF FileInv, Finished
    <3>2. at + i < at + j
      BY <2>12, <2>4, <1>1
    <3> QED
      BY <3>1, <3>2, <2>5
  <2>11. EntriesOK(file, log, end, footer)
    BY <2>6, <2>7, <2>10, <2>12 DEF EntriesOK
  <2> QED
    BY <2>9, <2>11
<1> QED
  BY <1>4, <1>5, <1>6

\* A file is opened: the reader is in front of the first chunk.
LEMMA OpenKeeps == IInv /\ OpenFile => IInv' /\ sealed /\ reader'.open /\ reader'.next = 3 /\ reader'.chunk = <<>>
<1> SUFFICES ASSUME IInv, OpenFile PROVE IInv' /\ sealed /\ reader'.open /\ reader'.next = 3 /\ reader'.chunk = <<>>
  OBVIOUS
<1>1. sealed /\ HeaderRead = file[1] /\ target = NoTarget
  <2>1. CanOpen /\ target = NoTarget
    BY DEF OpenFile
  <2> QED
    BY <2>1, OpensSealed DEF IInv, OpensOnlyFinalized, CanOpen, HeaderRead
<1>2. PICK footer \in LoadFooter(file[1]) :
        reader' = [NoReader EXCEPT !.open = TRUE, !.header = file[1], !.entries = footer,
                     !.next = file[1].chunks, !.more = file[1].chunks < file[1].footer]
  BY <1>1 DEF OpenFile
<1>3. footer \in Seq(EntryCell) /\ (intact => EntriesOK(file, log, file[1].footer, footer))
  BY <1>1, FooterRead DEF IInv
<1>4. Started(file) /\ file[1].chunks = 3 /\ file \in Seq(Cell)
  BY <1>1 DEF IInv, FileInv, Opening, FileTypes
<1>5. file[1] \in HeaderCell /\ file[1].footer \in Nat
  <2>1. Len(file) \in Nat /\ Len(file) >= 3 /\ file[1].kind = "header"
    BY <1>4 DEF Started
  <2>2. 1 \in 1..Len(file)
    BY <2>1
  <2>3. file[1] \in Cell
    BY <2>2, <1>4, ElementOfSeq
  <2>4. file[1] \in HeaderCell
    BY <2>1, <2>3, CellKinds
  <2> QED
    BY <2>4 DEF HeaderCell
<1> DEFINE more == 3 < file[1].footer
<1>6. reader' = [open |-> TRUE, header |-> file[1], entries |-> footer, next |-> 3, chunk |-> <<>>, index |-> 0, more |-> more]
  BY <1>2, <1>4 DEF NoReader
<1>7. reader' \in Reader
  <2>1. more \in BOOLEAN /\ <<>> \in Seq(Packet) /\ 3 \in Nat /\ 0 \in Nat /\ TRUE \in BOOLEAN
    BY NoWriterType
  <2> HIDE DEF more
  <2> QED
    BY <2>1, <1>3, <1>5, <1>6 DEF Reader
<1>8. reading' = TRUE /\ got' = <<>> /\ UNCHANGED <<file, writeVars>> /\ target' = target
  BY DEF OpenFile
<1>9. reader'.index = 0 /\ reader'.chunk = <<>> /\ reader'.open = TRUE /\ reader'.next = 3 /\ reader'.header = file[1]
      /\ reader'.entries = footer /\ reader'.more = more /\ Len(reader'.chunk) = 0
  BY <1>6
<1>10. Forward'
  BY <1>8, <1>9 DEF Forward, ForwardIn, GotBefore
<1>11. Placed'
  <2>1. PlacedAt(reader)'
    <3>1. reader'.header = file'[1]
      BY <1>8, <1>9
    <3>2. ASSUME intact'
          PROVE  /\ EntriesOK(file, log, file[1].footer, footer) /\ 3 \in 3..file[1].footer /\ Boundary(file, 3)
                 /\ 0 <= Before(file, 3)
      <4>1. intact
        BY <3>2, <1>8 DEF writeVars
      <4>2. file[1].footer >= 3
        BY <4>1, <1>1 DEF IInv, FileInv, Finished, Laid
      <4>3. Before(file, 3) \in Nat
        BY BeforeType
      <4> QED
        BY <4>1, <4>2, <4>3, <1>3, <1>5 DEF Boundary
    <3>3. file' = file /\ log' = log
      BY <1>8 DEF writeVars
    <3>4. \A i \in 1..Len(reader'.chunk) : FALSE
      BY <1>9
    <3> QED
      BY <3>1, <3>2, <3>3, <3>4, <1>9 DEF PlacedAt
  <2> QED
    BY <2>1, <1>1, <1>8 DEF Placed
<1>12. reader'.index <= Len(reader'.chunk) /\ got' \in Seq(Nat) /\ target' \in Targets \cup {NoTarget}
  BY <1>1, <1>8, <1>9
<1> QED
  BY <1>1, <1>7, <1>8, <1>9, <1>10, <1>11, <1>12, ReadingKeeps

\* What is in front of all packets from one offset on is in front of those further on.
LEMMA AheadLater ==
  ASSUME NEW n, NEW a \in Nat, NEW b \in Nat, a <= b, Ahead(n, a)
  PROVE  Ahead(n, b)
<1> SUFFICES ASSUME NEW k \in 1..Len(file), k > b, file[k].kind = "packet" PROVE n < file[k].p.n
  BY DEF Ahead
<1>1. k > a
  <2>1. k \in Int
    OBVIOUS
  <2> QED
    BY <2>1
<1> QED
  BY <1>1 DEF Ahead

\* The number of a packet is its first member.
LEMMA NumberOf == \A a, b : [n |-> a, t |-> b].n = a /\ [n |-> a, t |-> b].t = b
OBVIOUS

\* What LoadNextChunk takes for a chunk: packets of the recording, in their order.
LEMMA ChunkRead ==
  ASSUME FileInv, NEW o \in Nat, IsChunk(o)
  PROVE  LET n == file[o + 3].n
             chunk == [i \in 1..n |-> file[o + 3 + i].p]
         IN /\ n \in Nat /\ chunk \in Seq(Packet) /\ Len(chunk) = n
            /\ \A i \in 1..n : chunk[i] = [n |-> Before(file, o + 3 + i), t |-> log[Before(file, o + 3 + i)]]
            /\ \A i, j \in 1..n : i < j => chunk[i].n < chunk[j].n
            /\ \A i \in 1..n : Ahead(chunk[i].n, o + 3 + n)
            /\ \A m : Ahead(m, o) => \A i \in 1..n : m < chunk[i].n
<1> DEFINE n == file[o + 3].n
           chunk == [i \in 1..n |-> file[o + 3 + i].p]
<1>1. file \in Seq(Cell) /\ Numbered(file, log)
  BY DEF FileInv, FileTypes
<1>2. n \in Nat
  <2>1. 3 \in 1..3
    OBVIOUS
  <2>2. o + 3 \in 1..Len(file) /\ file[o + 3].kind = "number"
    BY <2>1 DEF IsChunk, Is
  <2>3. file[o + 3] \in Cell
    BY <2>2, <1>1, ElementOfSeq
  <2> QED
    BY <2>2, <2>3, CellKinds
<1>3. \A i \in 1..n : o + 3 + i \in 1..Len(file) /\ file[o + 3 + i].kind = "packet"
  BY DEF IsChunk, Is
<1> HIDE DEF n
<1>4. \A i \in 1..n : file[o + 3 + i].p \in Packet
  <2> TAKE i \in 1..n
  <2>1. file[o + 3 + i] \in Cell
    BY <1>1, <1>3, ElementOfSeq
  <2> QED
    BY <2>1, <1>3, CellKinds
<1>5. chunk \in Seq(Packet) /\ Len(chunk) = n /\ \A i \in 1..n : chunk[i] = file[o + 3 + i].p
  BY <1>2, <1>4
<1> HIDE DEF chunk
<1>6. \A i \in 1..n : chunk[i] = [n |-> Before(file, o + 3 + i), t |-> log[Before(file, o + 3 + i)]]
  BY <1>1, <1>3, <1>5 DEF Numbered
<1>n. \A i \in 1..n : chunk[i].n = Before(file, o + 3 + i)
  <2> TAKE i \in 1..n
  <2>1. chunk[i] = [n |-> Before(file, o + 3 + i), t |-> log[Before(file, o + 3 + i)]]
    BY <1>6
  <2> QED
    BY <2>1, NumberOf
<1>7. \A k, l \in 1..Len(file) : k < l /\ file[l].kind = "packet" => Before(file, k) < Before(file, l)
  <2> SUFFICES ASSUME NEW k \in 1..Len(file), NEW l \in 1..Len(file), k < l, file[l].kind = "packet"
               PROVE  Before(file, k) < Before(file, l)
    OBVIOUS
  <2>1. k \in Nat /\ l \in Nat
    OBVIOUS
  <2>2. PacketAt(file, l)
    BY DEF PacketAt
  <2> QED
    BY <2>1, <2>2, BeforeLater
<1>8. \A i, j \in 1..n : i < j => chunk[i].n < chunk[j].n
  <2> SUFFICES ASSUME NEW i \in 1..n, NEW j \in 1..n, i < j PROVE chunk[i].n < chunk[j].n
    OBVIOUS
  <2>1. o + 3 + i < o + 3 + j
    BY <1>2
  <2>2. Before(file, o + 3 + i) < Before(file, o + 3 + j)
    BY <2>1, <1>3, <1>7
  <2>3. chunk[i].n = Before(file, o + 3 + i) /\ chunk[j].n = Before(file, o + 3 + j)
    BY <1>n
  <2> QED
    BY <2>2, <2>3
<1>9. \A i \in 1..n : Ahead(chunk[i].n, o + 3 + n)
  <2> SUFFICES ASSUME NEW i \in 1..n, NEW k \in 1..Len(file), k > o + 3 + n, file[k].kind = "packet"
               PROVE  chunk[i].n < file[k].p.n
    BY DEF Ahead
  <2>1. o + 3 + i < k
    BY <1>2
  <2>2. Before(file, o + 3 + i) < Before(file, k)
    BY <2>1, <1>3, <1>7
  <2>3. file[k].p.n = Before(file, k)
    <3>1. file[k].p = [n |-> Before(file, k), t |-> log[Before(file, k)]]
      BY <1>1 DEF Numbered
    <3> QED
      BY <3>1, NumberOf
  <2>4. chunk[i].n = Before(file, o + 3 + i)
    BY <1>n
  <2> QED
    BY <2>2, <2>3, <2>4
<1>10. \A m : Ahead(m, o) => \A i \in 1..n : m < chunk[i].n
  <2> SUFFICES ASSUME NEW m, Ahead(m, o), NEW i \in 1..n PROVE m < chunk[i].n
    OBVIOUS
  <2>1. o + 3 + i > o
    BY <1>2
  <2>2. m < file[o + 3 + i].p.n
    BY <2>1, <1>3 DEF Ahead
  <2> QED
    BY <2>2, <1>5
<1> QED
  BY <1>2, <1>5, <1>6, <1>8, <1>9, <1>10 DEF n, chunk

\* The packets of a file are numbered from one on.
LEMMA NumbersPositive == ASSUME FileInv, NEW next PROVE Ahead(0, next)
<1> SUFFICES ASSUME NEW k \in 1..Len(file), file[k].kind = "packet" PROVE 0 < file[k].p.n
  BY DEF Ahead
<1>1. file[k].p.n = Before(file, k)
  <2>1. file[k].p = [n |-> Before(file, k), t |-> log[Before(file, k)]]
    BY DEF FileInv, Numbered
  <2> QED
    BY <2>1, NumberOf
<1>2. 0 \in Nat /\ k \in Nat /\ 0 < k /\ PacketAt(file, k)
  BY DEF PacketAt
<1>3. Before(file, 0) < Before(file, k)
  BY <1>2, BeforeLater
<1> QED
  BY <1>1, <1>3, BeforeNone

\* A reader in a state of the invariant is ready.
LEMMA ReaderReady == ASSUME IInv, reader.open PROVE Ready(reader) /\ sealed /\ reading
<1>1. reader.open = TRUE
  BY DEF IInv, ReaderTypes, Reader
<1> QED
  BY <1>1 DEF IInv, ReaderTypes, Control, Forward, Placed, Ready

\* LoadNextChunk leaves a reader that is ready, in front of the packets of the next chunk.
LEMMA LoadedIs ==
  ASSUME IInv, reader.open, NEW r \in LoadNextChunk(reader)
  PROVE  /\ Ready(r) /\ r.index = 0
         /\ intact => /\ Before(file, r.next) = Before(file, reader.next) + Len(r.chunk)
                      /\ r.chunk # <<>> <=> reader.more
<1> DEFINE stopped == [reader EXCEPT !.chunk = <<>>, !.index = 0, !.more = FALSE]
           o == reader.next
           end == reader.header.footer
<1>1. Ready(reader) /\ reader \in Reader /\ reader.open = TRUE /\ o \in Nat /\ end \in Nat /\ reader.more \in BOOLEAN
      /\ Len(file) \in Nat /\ file \in Seq(Cell)
  <2>1. Ready(reader)
    BY ReaderReady
  <2>2. reader \in Reader /\ reader.open = TRUE /\ o \in Nat /\ reader.header \in HeaderCell /\ reader.more \in BOOLEAN
    BY <2>1 DEF Ready, Reader
  <2>3. end \in Nat
    BY <2>2 DEF HeaderCell
  <2>4. Len(file) \in Nat /\ file \in Seq(Cell)
    BY DEF IInv, FileInv, FileTypes
  <2> QED
    BY <2>1, <2>2, <2>3, <2>4
<1>2. \A i \in 1..Len(got) : Ahead(got[i], o)
  BY <1>1 DEF Ready, GotBefore
<1>3. intact => /\ end = file[1].footer /\ EntriesOK(file, log, end, reader.entries) /\ o \in 3..end /\ Boundary(file, o)
                /\ (reader.more <=> o < end) /\ Before(file, o) \in Nat
                /\ end \in 3..Len(file) /\ (o < end => ChunkAt(file, o, end))
  <2> SUFFICES ASSUME intact
               PROVE  /\ end = file[1].footer /\ EntriesOK(file, log, end, reader.entries) /\ o \in 3..end /\ Boundary(file, o)
                      /\ (reader.more <=> o < end) /\ Before(file, o) \in Nat
                      /\ end \in 3..Len(file) /\ (o < end => ChunkAt(file, o, end))
    OBVIOUS
  <2>1. /\ reader.header = file[1] /\ EntriesOK(file, log, end, reader.entries) /\ o \in 3..end /\ Boundary(file, o)
        /\ (reader.more <=> o < end)
    BY <1>1 DEF Ready, PlacedAt
  <2>2. sealed
    BY ReaderReady
  <2>3. Laid(file, end)
    BY <2>1, <2>2 DEF IInv, FileInv, Finished
  <2>4. o < end => o \in 3..end - 1
    BY <2>1, <1>1
  <2> QED
    BY <2>1, <2>3, <2>4, <1>1, BeforeType DEF Laid
<1>4. r \in (IF ~reader.more \/ o >= end THEN {stopped}
             ELSE IF IsChunk(o)
               THEN LET n == file[o + 3].n
                    IN {Loaded(reader, [i \in 1..n |-> file[o + 3 + i].p], o + 3 + n)}
               ELSE {stopped} \cup {Loaded(reader, <<Junk>>, next) : next \in o + 3..Len(file) + 1})
  BY DEF LoadNextChunk
<1>5. /\ stopped \in Reader /\ stopped.open = TRUE /\ stopped.index = 0 /\ stopped.chunk = <<>> /\ stopped.next = o
      /\ stopped.more = FALSE /\ stopped.header = reader.header /\ stopped.entries = reader.entries
  <2>1. <<>> \in Seq(Packet) /\ 0 \in Nat /\ FALSE \in BOOLEAN
    BY NoWriterType
  <2> QED
    BY <2>1, <1>1 DEF Reader
<1> HIDE DEF stopped
<1>6. \A chunk \in Seq(Packet), next \in Nat :
        LET l == Loaded(reader, chunk, next)
        IN /\ l \in Reader /\ l.open = TRUE /\ l.index = 0 /\ l.chunk = chunk /\ l.next = next
           /\ l.more = (next < end) /\ l.header = reader.header /\ l.entries = reader.entries
  <2> SUFFICES ASSUME NEW chunk \in Seq(Packet), NEW next \in Nat
               PROVE  LET l == Loaded(reader, chunk, next)
                      IN /\ l \in Reader /\ l.open = TRUE /\ l.index = 0 /\ l.chunk = chunk /\ l.next = next
                         /\ l.more = (next < end) /\ l.header = reader.header /\ l.entries = reader.entries
    OBVIOUS
  <2> DEFINE more == next < end
  <2>1. more \in BOOLEAN /\ 0 \in Nat /\ Loaded(reader, chunk, next) = [reader EXCEPT !.chunk = chunk, !.index = 0, !.next = next, !.more = more]
    BY DEF Loaded
  <2> HIDE DEF more
  <2>2. LET l == Loaded(reader, chunk, next)
        IN /\ l \in Reader /\ l.open = TRUE /\ l.index = 0 /\ l.chunk = chunk /\ l.next = next
           /\ l.more = more /\ l.header = reader.header /\ l.entries = reader.entries
    BY <2>1, <1>1 DEF Reader
  <2> QED
    BY <2>2 DEF more
<1> HIDE DEF o, end
<1>7. CASE r = stopped
  <2>1. \A i \in 1..Len(r.chunk) : FALSE
    BY <1>5, <1>7
  <2>2. ForwardIn(r)
    BY <2>1 DEF ForwardIn
  <2>3. GotBefore(r)
    <3>1. \A j \in r.index + 1..Len(r.chunk) : FALSE
      BY <1>5, <1>7
    <3> QED
      BY <3>1, <1>2, <1>5, <1>7 DEF GotBefore
  <2>4. ASSUME intact PROVE ~reader.more /\ ~(o < end)
    <3>1. CASE ~reader.more \/ o >= end
      BY <3>1, <2>4, <1>1, <1>3
    <3>2. CASE reader.more /\ ~(o >= end)
      <4>1. ChunkAt(file, o, end) /\ o \in 3..end - 1 /\ end \in 3..Len(file)
        BY <3>2, <2>4, <1>1, <1>3
      <4>2. IsChunk(o)
        <5>1. /\ file[o + 3].n \in Nat \ {0} /\ \A k \in o + 1..o + 3 : k \in 1..Len(file)
              /\ \A k \in o + 4..o + 3 + file[o + 3].n : PacketAt(file, k)
          BY <4>1, <1>1, ChunkInside
        <5>2. \A i \in 1..3 : o + i \in o + 1..o + 3
          BY <1>1
        <5>3. \A i \in 1..file[o + 3].n : o + 3 + i \in o + 4..o + 3 + file[o + 3].n
          BY <5>1, <1>1
        <5> QED
          BY <4>1, <5>1, <5>2, <5>3 DEF ChunkAt, IsChunk, Is, PacketAt
      <4> DEFINE n == file[o + 3].n
                 chunk == [i \in 1..n |-> file[o + 3 + i].p]
      <4>3. r = Loaded(reader, chunk, o + 3 + n)
        BY <4>2, <3>2, <1>4
      <4>4. n \in Nat /\ chunk \in Seq(Packet) /\ Len(chunk) = n
        BY <4>2, <1>1, ChunkRead DEF IInv
      <4>5. n # 0
        BY <4>1 DEF ChunkAt
      <4> HIDE DEF n, chunk
      <4>6. r.chunk = chunk /\ o + 3 + n \in Nat
        BY <4>3, <4>4, <1>1, <1>6
      <4>7. Len(r.chunk) = 0
        BY <1>5, <1>7
      <4> QED
        BY <4>4, <4>5, <4>6, <4>7
    <3> QED
      BY <3>1, <3>2
  <2>5. PlacedAt(r)
    <3>1. r.header = file[1]
      BY <1>1, <1>5, <1>7 DEF Ready, PlacedAt
    <3>2. intact => Len(r.chunk) <= Before(file, r.next)
      <4>1. Len(r.chunk) = 0 /\ r.next = o
        BY <1>5, <1>7
      <4> QED
        BY <4>1, <1>3
    <3>3. intact => EntriesOK(file, log, file[1].footer, r.entries) /\ r.next \in 3..file[1].footer /\ Boundary(file, r.next)
      BY <1>3, <1>5, <1>7
    <3>4. intact => (r.more <=> r.next < file[1].footer)
      BY <2>4, <1>3, <1>5, <1>7
    <3> QED
      BY <3>1, <3>2, <3>3, <3>4, <2>1 DEF PlacedAt
  <2>6. ASSUME intact
        PROVE  Before(file, r.next) = Before(file, reader.next) + Len(r.chunk) /\ (r.chunk # <<>> <=> reader.more)
    <3>1. Len(r.chunk) = 0 /\ r.next = reader.next /\ r.chunk = <<>> /\ Before(file, reader.next) \in Nat
      BY <2>6, <1>3, <1>5, <1>7 DEF o
    <3>2. Before(file, reader.next) = Before(file, reader.next) + 0
      BY <3>1
    <3> QED
      BY <3>1, <3>2, <2>4, <2>6
  <2> QED
    <3>1. r.index <= Len(r.chunk)
      BY <1>5, <1>7
    <3> QED
      BY <3>1, <2>2, <2>3, <2>5, <2>6, <1>5, <1>7 DEF Ready
<1>8. CASE reader.more /\ ~(o >= end) /\ IsChunk(o)
  <2> DEFINE n == file[o + 3].n
             chunk == [i \in 1..n |-> file[o + 3 + i].p]
             next == o + 3 + n
  <2>1. r = Loaded(reader, chunk, next)
    BY <1>4, <1>8
  <2>2. /\ n \in Nat /\ chunk \in Seq(Packet) /\ Len(chunk) = n
        /\ \A i \in 1..n : chunk[i] = [n |-> Before(file, o + 3 + i), t |-> log[Before(file, o + 3 + i)]]
        /\ \A i, j \in 1..n : i < j => chunk[i].n < chunk[j].n
        /\ \A i \in 1..n : Ahead(chunk[i].n, next)
        /\ \A m : Ahead(m, o) => \A i \in 1..n : m < chunk[i].n
    BY <1>1, <1>8, ChunkRead DEF IInv
  <2>n. n = file[o + 3].n
    OBVIOUS
  <2> HIDE DEF n, chunk
  <2>3. next \in Nat /\ o <= next
    BY <2>2, <1>1
  <2>4. /\ r \in Reader /\ r.open = TRUE /\ r.index = 0 /\ r.chunk = chunk /\ r.next = next
        /\ r.more = (next < end) /\ r.header = reader.header /\ r.entries = reader.entries
    BY <2>1, <2>2, <2>3, <1>6
  <2>5. ForwardIn(r)
    BY <2>2, <2>4 DEF ForwardIn
  <2>6. GotBefore(r)
    <3>1. \A i \in 1..Len(got) : Ahead(got[i], next)
      BY <2>3, <1>1, <1>2, AheadLater
    <3>2. \A i \in 1..Len(got) : \A j \in 1..n : got[i] < chunk[j].n
      BY <2>2, <1>2
    <3>3. r.index + 1..Len(r.chunk) = 1..n
      BY <2>2, <2>4
    <3> QED
      BY <3>1, <3>2, <3>3, <2>4 DEF GotBefore
  <2>7. ASSUME intact
        PROVE  /\ n # 0 /\ next \in 3..end /\ Boundary(file, next) /\ n <= Before(file, next)
               /\ Before(file, next) = Before(file, o) + n
               /\ \A i \in 1..n : Before(file, o + 3 + i) = Before(file, next) - n + i
    <3>1. ChunkAt(file, o, end) /\ o \in 3..end - 1 /\ end \in 3..Len(file) /\ Before(file, o) \in Nat
      BY <2>7, <1>1, <1>3, <1>8
    <3>2. n \in Nat \ {0} /\ next \in o + 4..end
      BY <3>1, <2>n, <1>1, ChunkInside
    <3>3. \A i \in 0..n : Before(file, o + 3 + i) = Before(file, o) + i
      BY <3>1, <2>n, <1>1, ChunkBefore
    <3>4. n \in 0..n /\ \A i \in 1..n : i \in 0..n
      BY <3>2
    <3>5. Before(file, next) = Before(file, o) + n
      BY <3>3, <3>4
    <3>6. \A i \in 1..n : Before(file, o + 3 + i) = Before(file, next) - n + i
      <4>1. \A a, b \in Nat : \A i \in 1..b : a + i = (a + b) - b + i
        OBVIOUS
      <4> QED
        BY <4>1, <3>1, <3>2, <3>3, <3>4, <3>5
    <3>7. n <= Before(file, next)
      BY <3>1, <3>2, <3>5
    <3>8. next \in 3..end
      BY <3>1, <3>2, <1>1
    <3>9. Boundary(file, next)
      BY <3>1, <2>n DEF ChunkAt
    <3> QED
      BY <3>2, <3>5, <3>6, <3>7, <3>8, <3>9
  <2> HIDE DEF next
  <2>8. PlacedAt(r)
    <3>1. r.header = file[1]
      BY <2>4, <1>1 DEF Ready, PlacedAt
    <3> SUFFICES ASSUME intact PROVE PlacedAt(r)
      BY <3>1 DEF PlacedAt
    <3>2. EntriesOK(file, log, file[1].footer, r.entries) /\ r.next \in 3..file[1].footer /\ Boundary(file, r.next)
      BY <2>4, <2>7, <1>3
    <3>3. r.more <=> r.next < file[1].footer
      BY <2>4, <1>3
    <3>4. Len(r.chunk) <= Before(file, r.next)
      BY <2>2, <2>4, <2>7
    <3>5. \A i \in 1..Len(r.chunk) : LET m == Before(file, r.next) - Len(r.chunk) + i IN r.chunk[i] = [n |-> m, t |-> log[m]]
      BY <2>2, <2>4, <2>7
    <3> QED
      BY <3>1, <3>2, <3>3, <3>4, <3>5 DEF PlacedAt
  <2>9. r.index <= Len(r.chunk)
    BY <2>2, <2>4
  <2>10. intact => Before(file, r.next) = Before(file, reader.next) + Len(r.chunk) /\ r.chunk # <<>> /\ reader.more
    <3>1. Len(r.chunk) # 0 => r.chunk # <<>>
      OBVIOUS
    <3> QED
      BY <3>1, <2>2, <2>4, <2>7, <1>8 DEF o
  <2> QED
    BY <2>4, <2>5, <2>6, <2>8, <2>9, <2>10 DEF Ready
<1>9. CASE reader.more /\ ~(o >= end) /\ ~IsChunk(o) /\ r # stopped
  <2>1. PICK next \in o + 3..Len(file) + 1 : r = Loaded(reader, <<Junk>>, next)
    BY <1>4, <1>9
  <2>2. next \in Nat /\ o <= next
    BY <1>1
  <2>3. <<Junk>> \in Seq(Packet) /\ Len(<<Junk>>) = 1 /\ <<Junk>>[1] = Junk /\ Junk.n = 0
    <3>1. Junk \in Packet /\ Junk.n = 0
      BY DEF Junk, Packet
    <3> QED
      BY <3>1
  <2>4. /\ r \in Reader /\ r.open = TRUE /\ r.index = 0 /\ r.chunk = <<Junk>> /\ r.next = next
        /\ r.header = reader.header /\ r.entries = reader.entries
    BY <2>1, <2>2, <2>3, <1>6
  <2>5. Len(r.chunk) = 1 /\ (\A i \in 1..Len(r.chunk) : i = 1) /\ r.chunk[1].n = 0
    BY <2>3, <2>4
  <2>6. ForwardIn(r)
    <3>1. Ahead(0, r.next)
      BY NumbersPositive DEF IInv
    <3>2. \A i, j \in 1..Len(r.chunk) : ~(i < j)
      BY <2>5
    <3> QED
      BY <3>1, <3>2, <2>5 DEF ForwardIn
  <2>7. GotBefore(r)
    <3>1. \A i \in 1..Len(got) : Ahead(got[i], next)
      BY <2>2, <1>1, <1>2, AheadLater
    <3>2. \A j \in r.index + 1..Len(r.chunk) : r.chunk[j].n = 0
      BY <2>4, <2>5
    <3> QED
      BY <3>1, <3>2, <2>4 DEF GotBefore
  <2>8. ~intact
    <3> SUFFICES ASSUME intact PROVE FALSE
      OBVIOUS
    <3>1. ChunkAt(file, o, end) /\ o \in 3..end - 1 /\ end \in 3..Len(file)
      BY <1>1, <1>3, <1>9
    <3>2. /\ file[o + 3].n \in Nat \ {0} /\ \A k \in o + 1..o + 3 : k \in 1..Len(file)
          /\ \A k \in o + 4..o + 3 + file[o + 3].n : PacketAt(file, k)
      BY <3>1, <1>1, ChunkInside
    <3>3. \A i \in 1..3 : o + i \in o + 1..o + 3
      BY <1>1
    <3>4. \A i \in 1..file[o + 3].n : o + 3 + i \in o + 4..o + 3 + file[o + 3].n
      BY <3>2, <1>1
    <3>5. IsChunk(o)
      BY <3>1, <3>2, <3>3, <3>4 DEF ChunkAt, IsChunk, Is, PacketAt
    <3> QED
      BY <3>5, <1>9
  <2>9. PlacedAt(r)
    BY <2>4, <2>8, <1>1 DEF Ready, PlacedAt
  <2>10. r.index <= Len(r.chunk)
    BY <2>4, <2>5
  <2> QED
    BY <2>4, <2>6, <2>7, <2>8, <2>9, <2>10 DEF Ready
<1> QED
  BY <1>4, <1>7, <1>8, <1>9

\* What is said of a reader stays true while the file does.
LEMMA ReaderStays ==
  ASSUME file' = file, log' = log, intact' = intact, NEW r, reader' = r
  PROVE  /\ ForwardIn(r) => ForwardIn(reader)'
         /\ PlacedAt(r) => PlacedAt(reader)'
         /\ got' = got /\ GotBefore(r) => GotBefore(reader)'
         /\ \A n, next : Ahead(n, next) => Ahead(n, next)'
<1>1. ForwardIn(r) => ForwardIn(reader)'
  BY DEF ForwardIn, Ahead
<1>2. PlacedAt(r) => PlacedAt(reader)'
  BY DEF PlacedAt
<1>3. got' = got /\ GotBefore(r) => GotBefore(reader)'
  BY DEF GotBefore, Ahead
<1>4. \A n, next : Ahead(n, next) => Ahead(n, next)'
  BY DEF Ahead
<1> QED
  BY <1>1, <1>2, <1>3, <1>4

\* The reader that ReadNext reads from.
ReadsFrom == IF reader.index < Len(reader.chunk) THEN {reader} ELSE LoadNextChunk(reader)

\* It is ready, and in an undamaged file as far as the one before.
LEMMA ReadsFromIs ==
  ASSUME IInv, reader.open, NEW r \in ReadsFrom
  PROVE  /\ Ready(r)
         /\ intact => Before(file, r.next) - (Len(r.chunk) - r.index) = Before(file, reader.next) - (Len(reader.chunk) - reader.index)
<1>1. CASE reader.index < Len(reader.chunk)
  <2>1. r = reader
    BY <1>1 DEF ReadsFrom
  <2> QED
    BY <2>1, ReaderReady
<1>2. CASE ~(reader.index < Len(reader.chunk))
  <2>1. r \in LoadNextChunk(reader)
    BY <1>2 DEF ReadsFrom
  <2>2. Ready(r) /\ r.index = 0 /\ (intact => Before(file, r.next) = Before(file, reader.next) + Len(r.chunk))
    BY <2>1, LoadedIs
  <2>3. reader.index \in Nat /\ Len(reader.chunk) \in Nat /\ reader.index <= Len(reader.chunk) /\ reader.next \in Nat
    BY DEF IInv, ReaderTypes, Reader
  <2>4. reader.index = Len(reader.chunk)
    BY <2>3, <1>2
  <2>5. Len(r.chunk) \in Nat /\ Before(file, reader.next) \in Nat
    <3>1. r \in Reader
      BY <2>2 DEF Ready
    <3>2. r.chunk \in Seq(Packet)
      BY <3>1 DEF Reader
    <3>3. Len(r.chunk) \in Nat
      BY <3>2, LenProperties
    <3>4. Before(file, reader.next) \in Nat
      BY <2>3, BeforeType
    <3> QED
      BY <3>3, <3>4
  <2>6. \A a, b, c \in Nat : (a + b) - (b - 0) = a - (c - c)
    OBVIOUS
  <2> QED
    BY <2>2, <2>3, <2>4, <2>5, <2>6
<1> QED
  BY <1>1, <1>2

\* What the reader becomes when a packet is taken from it.
LEMMA TakenIs ==
  ASSUME NEW r \in Reader, r.index < Len(r.chunk)
  PROVE  LET u == [r EXCEPT !.index = @ + 1]
         IN /\ u \in Reader /\ u.index = r.index + 1 /\ u.index <= Len(r.chunk) /\ u.open = r.open /\ u.header = r.header
            /\ u.entries = r.entries /\ u.next = r.next /\ u.chunk = r.chunk /\ u.more = r.more
            /\ r.index + 1 \in 1..Len(r.chunk) /\ r.chunk[r.index + 1] \in Packet /\ r.chunk[r.index + 1].n \in Nat
<1>1. r.index \in Nat /\ r.index + 1 \in Nat /\ r.chunk \in Seq(Packet) /\ Len(r.chunk) \in Nat
  BY DEF Reader
<1>2. r.index + 1 \in 1..Len(r.chunk) /\ r.index + 1 <= Len(r.chunk)
  BY <1>1
<1>3. r.chunk[r.index + 1] \in Packet
  BY <1>1, <1>2, ElementOfSeq
<1>4. r.chunk[r.index + 1].n \in Nat
  BY <1>3 DEF Packet
<1> DEFINE i == r.index + 1
           u == [r EXCEPT !.index = i]
<1>5. i \in Nat
  BY <1>1
<1> HIDE DEF i
<1>6. u \in Reader /\ u.index = i /\ u.open = r.open /\ u.header = r.header
      /\ u.entries = r.entries /\ u.next = r.next /\ u.chunk = r.chunk /\ u.more = r.more
  BY <1>5 DEF Reader
<1> QED
  BY <1>2, <1>3, <1>4, <1>6 DEF i

\* What is said of where a reader is does not depend on how far it is in its chunk.
LEMMA TakenStays ==
  ASSUME NEW r, NEW u, u.header = r.header, u.entries = r.entries, u.next = r.next, u.chunk = r.chunk, u.more = r.more
  PROVE  (ForwardIn(r) => ForwardIn(u)) /\ (PlacedAt(r) => PlacedAt(u))
BY DEF ForwardIn, PlacedAt

\* A packet is read, or the reader is at the end.
LEMMA ReadKeeps == IInv /\ ReadNext => IInv'
<1> SUFFICES ASSUME IInv, ReadNext PROVE IInv'
  OBVIOUS
<1>1. reading /\ reader.open /\ target = NoTarget /\ UNCHANGED <<file, writeVars>> /\ UNCHANGED <<reading, target>>
  BY DEF ReadNext
<1>2. file' = file /\ log' = log /\ intact' = intact
  BY <1>1 DEF writeVars
<1>3. PICK r \in ReadsFrom :
        IF r.index < Len(r.chunk)
          THEN /\ reader' = [r EXCEPT !.index = @ + 1]
               /\ got' = IF r.chunk[r.index + 1].n = 0 THEN got ELSE Append(got, r.chunk[r.index + 1].n)
          ELSE reader' = r /\ UNCHANGED got
  BY DEF ReadNext, ReadsFrom
<1>4. Ready(r) /\ r \in Reader /\ r.open = TRUE /\ r.index <= Len(r.chunk) /\ ForwardIn(r) /\ GotBefore(r) /\ PlacedAt(r)
  BY <1>1, <1>3, ReadsFromIs DEF Ready
<1>5. /\ sealed /\ reading' /\ reading' \in BOOLEAN /\ target' = NoTarget
      /\ got \in Seq(Nat) /\ \A i, j \in 1..Len(got) : i < j => got[i] < got[j]
  BY <1>1, ReaderReady DEF IInv, ReaderTypes, Forward
<1>6. CASE ~(r.index < Len(r.chunk))
  <2>1. reader' = r /\ got' = got
    BY <1>3, <1>6
  <2>2. ForwardIn(reader)' /\ PlacedAt(reader)' /\ GotBefore(reader)'
    BY <2>1, <1>2, <1>4, ReaderStays
  <2>3. Forward' /\ Placed'
    BY <2>1, <2>2, <1>5 DEF Forward, Placed
  <2> QED
    BY <2>1, <2>3, <1>1, <1>4, <1>5, ReadingKeeps
<1>7. CASE r.index < Len(r.chunk)
  <2> DEFINE u == [r EXCEPT !.index = @ + 1]
             i == r.index + 1
             m == r.chunk[i].n
  <2>1. reader' = u /\ got' = IF m = 0 THEN got ELSE Append(got, m)
    BY <1>3, <1>7
  <2>2. /\ u \in Reader /\ u.index = i /\ u.index <= Len(u.chunk) /\ u.open = TRUE /\ u.header = r.header
        /\ u.entries = r.entries /\ u.next = r.next /\ u.chunk = r.chunk /\ u.more = r.more
        /\ i \in 1..Len(r.chunk) /\ m \in Nat
    BY <1>4, <1>7, TakenIs
  <2>3. r.index \in Nat /\ Len(r.chunk) \in Nat
    BY <1>4 DEF Reader
  <2>4. i \in r.index + 1..Len(r.chunk) /\ \A j \in i + 1..Len(r.chunk) : j \in r.index + 1..Len(r.chunk) /\ j \in 1..Len(r.chunk) /\ i < j
    BY <2>2, <2>3
  <2> HIDE DEF u, i
  <2>5. ForwardIn(u) /\ PlacedAt(u)
    BY <2>2, <1>4, TakenStays
  <2>6. /\ Ahead(m, u.next) /\ \A j \in u.index + 1..Len(u.chunk) : m < u.chunk[j].n
    BY <2>2, <2>4, <1>4 DEF ForwardIn
  <2>7. \A k \in 1..Len(got) :
          /\ Ahead(got[k], u.next) /\ (m = 0 \/ got[k] < m)
          /\ \A j \in u.index + 1..Len(u.chunk) : u.chunk[j].n = 0 \/ got[k] < u.chunk[j].n
    BY <2>2, <2>4, <1>4 DEF GotBefore
  <2> HIDE DEF m
  <2>8. /\ got' \in Seq(Nat)
        /\ \A k \in 1..Len(got') : Ahead(got'[k], u.next) /\ \A j \in u.index + 1..Len(u.chunk) : u.chunk[j].n = 0 \/ got'[k] < u.chunk[j].n
        /\ \A k, l \in 1..Len(got') : k < l => got'[k] < got'[l]
    <3>1. CASE m = 0
      <4>1. got' = got
        BY <2>1, <3>1
      <4> QED
        BY <4>1, <2>7, <1>5
    <3>2. CASE m # 0
      <4>1. /\ got' \in Seq(Nat) /\ Len(got') = Len(got) + 1 /\ got'[Len(got) + 1] = m /\ Len(got) \in Nat
            /\ \A k \in 1..Len(got) : got'[k] = got[k]
        <5>1. got' = Append(got, m) /\ m \in Nat
          BY <2>1, <2>2, <3>2
        <5> QED
          BY <5>1, <1>5
      <4>2. \A k \in 1..Len(got') : k \in 1..Len(got) \/ k = Len(got) + 1
        BY <4>1
      <4>3. \A k \in 1..Len(got') : Ahead(got'[k], u.next) /\ \A j \in u.index + 1..Len(u.chunk) : u.chunk[j].n = 0 \/ got'[k] < u.chunk[j].n
        BY <4>1, <4>2, <2>6, <2>7
      <4>4. \A k, l \in 1..Len(got') : k < l => got'[k] < got'[l]
        <5> SUFFICES ASSUME NEW k \in 1..Len(got'), NEW l \in 1..Len(got'), k < l PROVE got'[k] < got'[l]
          OBVIOUS
        <5>1. k \in 1..Len(got)
          BY <4>1
        <5>2. CASE l \in 1..Len(got)
          BY <5>1, <5>2, <4>1, <1>5
        <5>3. CASE l = Len(got) + 1
          BY <5>1, <5>3, <4>1, <2>7, <3>2
        <5> QED
          BY <5>2, <5>3, <4>2
      <4> QED
        BY <4>1, <4>3, <4>4
    <3> QED
      BY <3>1, <3>2
  <2>9. ForwardIn(reader)' /\ PlacedAt(reader)'
    BY <2>1, <2>5, <1>2, ReaderStays
  <2>10. GotBefore(reader)'
    BY <2>1, <2>8, <1>2 DEF GotBefore, Ahead
  <2>11. Forward' /\ Placed'
    BY <2>8, <2>9, <2>10, <1>5 DEF Forward, Placed
  <2> QED
    BY <2>1, <2>2, <2>8, <2>11, <1>1, <1>5, ReadingKeeps
<1> QED
  BY <1>6, <1>7

\* The entry a seek begins with is not too late, and none in front of the first one is.
LEMMA SeekEntryIs ==
  ASSUME reader \in Reader, NEW t
  PROVE  LET e == reader.entries
             late == {i \in 1..Len(e) : e[i].t > t}
             i == IF late = {} THEN Len(e) ELSE Min(late) - 1
         IN i \in 0..Len(e) /\ (i # 0 => ~(e[i].t > t)) /\ SeekChunk(reader, t) \in Nat
<1> DEFINE e == reader.entries
           late == {i \in 1..Len(e) : e[i].t > t}
           i == IF late = {} THEN Len(e) ELSE Min(late) - 1
           next == IF i = 0 THEN reader.header.chunks ELSE e[i].offset
<1>1. next = SeekChunk(reader, t)
  BY DEF SeekChunk
<1>2. e \in Seq(EntryCell) /\ Len(e) \in Nat /\ reader.header.chunks \in Nat
  <2>1. e \in Seq(EntryCell) /\ reader.header \in HeaderCell
    BY DEF Reader
  <2> QED
    BY <2>1, LenProperties DEF HeaderCell
<1>3. i \in 0..Len(e) /\ (i # 0 => ~(e[i].t > t))
  <2>1. (\A k \in 1..Len(e) : k \notin late => ~(e[k].t > t)) /\ late \in SUBSET Nat /\ late \subseteq 1..Len(e)
    OBVIOUS
  <2>2. late = {} => i = Len(e)
    OBVIOUS
  <2>3. late # {} => i = Min(late) - 1
    OBVIOUS
  <2> HIDE DEF late, i
  <2>4. late # {} => Min(late) \in late /\ \A k \in late : Min(late) <= k
    BY <2>1, MinIsLeast
  <2>5. i \in 0..Len(e) /\ i \notin late
    <3>1. CASE late = {}
      BY <3>1, <2>2, <1>2
    <3>2. CASE late # {}
      <4> DEFINE m == Min(late)
      <4>1. m \in late /\ i = m - 1 /\ \A k \in late : m <= k
        BY <3>2, <2>3, <2>4
      <4> HIDE DEF m
      <4>2. m \in 1..Len(e) /\ m \in Nat
        BY <4>1, <2>1
      <4>3. i \in 0..Len(e) /\ ~(m <= i)
        BY <4>1, <4>2, <1>2
      <4> QED
        BY <4>1, <4>3
    <3> QED
      BY <3>1, <3>2
  <2>6. i # 0 => i \in 1..Len(e)
    BY <2>5, <1>2
  <2> QED
    BY <2>1, <2>5, <2>6
<1> HIDE DEF i
<1>4. next \in Nat
  <2>1. CASE i = 0
    BY <2>1, <1>2
  <2>2. CASE i # 0
    <3>1. i \in 1..Len(e)
      BY <2>2, <1>2, <1>3
    <3>2. e[i] \in EntryCell
      BY <3>1, <1>2, ElementOfSeq
    <3> QED
      BY <2>2, <3>2 DEF EntryCell
  <2> QED
    BY <2>1, <2>2
<1> HIDE DEF next
<1> QED
  BY <1>1, <1>3, <1>4 DEF i, late, e

\* The chunk a seek begins with: no packet in front of it is later than the target, and
\* as late only if the chunk begins with one.
LEMMA SeekChunkIs ==
  ASSUME IInv, reader.open, NEW t \in Targets
  PROVE  LET next == SeekChunk(reader, t)
         IN /\ next \in Nat
            /\ intact => /\ next \in 3..file[1].footer /\ Boundary(file, next)
                         /\ SortedTimes =>
                              \A j \in 1..Before(file, next) :
                                log[j] < t \/ (log[j] = t /\ Before(file, next) < Len(log) /\ log[Before(file, next) + 1] = t)
<1> DEFINE e == reader.entries
           late == {i \in 1..Len(e) : e[i].t > t}
           i == IF late = {} THEN Len(e) ELSE Min(late) - 1
           next == IF i = 0 THEN reader.header.chunks ELSE e[i].offset
<1>1. next = SeekChunk(reader, t)
  BY DEF SeekChunk
<1>2. /\ Ready(reader) /\ sealed /\ e \in Seq(EntryCell) /\ Len(e) \in Nat /\ reader.header.chunks \in Nat /\ t \in Nat
      /\ file \in Seq(Cell) /\ log \in Seq(Nat) /\ Len(log) \in Nat
  <2>1. Ready(reader) /\ sealed
    BY ReaderReady
  <2>2. e \in Seq(EntryCell) /\ Len(e) \in Nat /\ reader.header \in HeaderCell
    BY <2>1 DEF Ready, Reader
  <2>3. log \in Seq(Times) /\ Times \subseteq Nat /\ Targets \subseteq Nat /\ file \in Seq(Cell)
    BY RpcapAssumption DEF IInv, FileInv, FileTypes
  <2>4. log \in Seq(Nat)
    BY <2>3, SeqMonotonic
  <2> QED
    BY <2>1, <2>2, <2>3, <2>4 DEF HeaderCell
<1>3. i \in 0..Len(e) /\ (i # 0 => ~(e[i].t > t)) /\ SeekChunk(reader, t) \in Nat
  <2>1. reader \in Reader
    BY <1>2 DEF Ready
  <2> QED
    BY <2>1, SeekEntryIs
<1>4. next \in Nat
  BY <1>1, <1>3
<1> HIDE DEF i
<1>5. ASSUME intact
      PROVE  /\ next \in 3..file[1].footer /\ Boundary(file, next)
             /\ SortedTimes =>
                  \A j \in 1..Before(file, next) :
                    log[j] < t \/ (log[j] = t /\ Before(file, next) < Len(log) /\ log[Before(file, next) + 1] = t)
  <2> DEFINE end == file[1].footer
  <2>1. EntriesOK(file, log, end, e) /\ reader.header = file[1]
    BY <1>2, <1>5 DEF Ready, PlacedAt
  <2>2. file[1].chunks = 3 /\ Started(file) /\ Laid(file, end) /\ Before(file, end) = Len(log)
    BY <1>2, <1>5 DEF IInv, FileInv, Opening, Finished
  <2>3. end \in 3..Len(file)
    BY <2>2 DEF Laid
  <2>4. CASE i = 0
    <3>1. next = 3 /\ 3 \in 3..end
      BY <2>1, <2>2, <2>3, <2>4
    <3>2. Before(file, 3) = 0
      <4>1. <<>> \in Seq(Cell)
        OBVIOUS
      <4>2. \A k \in 1..3 : ~PacketAt(file, k)
        BY <4>1, <2>2, <1>2, StartedGrows
      <4>3. 0 \in Nat /\ 3 \in Nat /\ 0 <= 3 /\ 0 + 1..3 = 1..3
        OBVIOUS
      <4>4. Before(file, 3) = Before(file, 0)
        BY <4>2, <4>3, BeforeGap
      <4> QED
        BY <4>4, BeforeNone
    <3>3. \A j \in 1..Before(file, next) : FALSE
      BY <3>1, <3>2
    <3> QED
      BY <3>1, <3>3 DEF Boundary
  <2>5. CASE i # 0
    <3>1. i \in 1..Len(e) /\ ~(e[i].t > t) /\ next = e[i].offset
      BY <2>5, <1>2, <1>3
    <3>2. EntryOK(file, log, end, e[i])
      BY <3>1, <2>1 DEF EntriesOK
    <3> DEFINE b == Before(file, next)
    <3> HIDE DEF end, next
    <3>a. Before(file, e[i].offset) \in Nat /\ Before(file, e[i].offset) + 1 <= Before(file, end)
      BY <3>2, <2>2, <1>2, EntryInside
    <3>b. b \in Nat /\ b + 1 <= Len(log)
      BY <3>a, <3>1, <2>2
    <3>c. next \in 3..end - 1 /\ Boundary(file, next) /\ e[i].t = log[b + 1]
      BY <3>1, <3>2 DEF EntryOK
    <3>3. next \in 3..end - 1 /\ Boundary(file, next) /\ e[i].t = log[b + 1] /\ b \in Nat /\ b + 1 <= Len(log)
      BY <3>b, <3>c
    <3>4. next \in 3..end
      <4>1. end \in Nat /\ next \in 3..end - 1
        BY <3>c, <2>3
      <4> QED
        BY <4>1
    <3> HIDE DEF b
    <3>5. ASSUME SortedTimes, NEW j \in 1..b PROVE log[j] < t \/ (log[j] = t /\ b < Len(log) /\ log[b + 1] = t)
      <4>1. j \in 1..Len(log) /\ b + 1 \in j..Len(log) /\ b + 1 \in 1..Len(log) /\ b < Len(log)
        BY <3>3, <1>2
      <4>2. log[j] <= log[b + 1]
        BY <3>5, <4>1, <1>2, SortedPairs DEF SortedTimes
      <4>3. log[j] \in Nat /\ log[b + 1] \in Nat
        BY <4>1, <1>2, ElementOfSeq
      <4>4. log[b + 1] <= t
        BY <3>1, <3>3, <4>3, <1>2
      <4> QED
        BY <4>1, <4>2, <4>3, <4>4, <1>2
    <3>6. SortedTimes => \A j \in 1..b : log[j] < t \/ (log[j] = t /\ b < Len(log) /\ log[b + 1] = t)
      BY <3>5
    <3> QED
      BY <3>3, <3>4, <3>6 DEF b, end
  <2> QED
    BY <2>4, <2>5
<1> HIDE DEF next
<1> QED
  BY <1>1, <1>4, <1>5

\* A seek begins.
LEMMA SeekKeeps == ASSUME IInv, NEW t \in Targets, SeekTo(t) PROVE IInv' /\ reader'.open /\ sealed
<1> DEFINE next == SeekChunk(reader, t)
           more == next < reader.header.footer
<1>1. /\ reading /\ reader.open /\ target = NoTarget /\ target' = t /\ got' = <<>>
      /\ UNCHANGED <<file, writeVars>> /\ reading' = reading
      /\ reader' = [reader EXCEPT !.chunk = <<>>, !.index = 0, !.next = next, !.more = more]
  BY DEF SeekTo, Loaded
<1>2. file' = file /\ log' = log /\ intact' = intact
  BY <1>1 DEF writeVars
<1>3. /\ next \in Nat
      /\ intact => /\ next \in 3..file[1].footer /\ Boundary(file, next)
                   /\ SortedTimes =>
                        \A j \in 1..Before(file, next) :
                          log[j] < t \/ (log[j] = t /\ Before(file, next) < Len(log) /\ log[Before(file, next) + 1] = t)
  BY <1>1, SeekChunkIs
<1>4. Ready(reader) /\ sealed /\ reader \in Reader /\ reader.open = TRUE
  BY <1>1, ReaderReady DEF Ready
<1>5. more \in BOOLEAN
  OBVIOUS
<1> HIDE DEF next, more
<1>6. /\ reader' \in Reader /\ reader'.index = 0 /\ reader'.chunk = <<>> /\ reader'.next = next /\ reader'.more = more
      /\ reader'.open = TRUE /\ reader'.header = reader.header /\ reader'.entries = reader.entries
  BY <1>1, <1>3, <1>4, <1>5, NoWriterType DEF Reader
<1>7. Len(reader'.chunk) = 0 /\ \A i \in 1..Len(reader'.chunk) : FALSE
  BY <1>6
<1>8. Forward'
  BY <1>1, <1>7 DEF Forward, ForwardIn, GotBefore
<1>9. PlacedAt(reader')
  <2>1. reader'.header = file[1] /\ (intact => EntriesOK(file, log, file[1].footer, reader'.entries))
    BY <1>4, <1>6 DEF Ready, PlacedAt
  <2>2. intact => (reader'.more <=> reader'.next < file[1].footer)
    BY <1>4, <1>6 DEF Ready, PlacedAt, more
  <2>3. intact => Len(reader'.chunk) <= Before(file, reader'.next)
    <3>1. Before(file, next) \in Nat
      BY <1>3, BeforeType
    <3>2. 0 <= Before(file, next)
      BY <3>1
    <3> QED
      BY <3>2, <1>6, <1>7
  <2> QED
    BY <2>1, <2>2, <2>3, <1>3, <1>6, <1>7 DEF PlacedAt
<1>10. Placed'
  <2>1. PlacedAt(reader)'
    BY <1>2, <1>9 DEF PlacedAt
  <2>2. intact /\ SortedTimes => SoughtPast(reader.next)'
    BY <1>1, <1>2, <1>3, <1>6 DEF SoughtPast
  <2> QED
    BY <2>1, <2>2, <1>2 DEF Placed, SortedTimes
<1>11. target' \in Targets \cup {NoTarget} /\ reader'.index <= Len(reader'.chunk) /\ got' \in Seq(Nat) /\ reading' \in BOOLEAN
  BY <1>1, <1>6, <1>7 DEF IInv, ReaderTypes
<1> QED
  BY <1>1, <1>4, <1>6, <1>8, <1>10, <1>11, ReadingKeeps

\* What the reader becomes when a seek puts it in front of a packet of its chunk.
LEMMA LandedIs ==
  ASSUME NEW r \in Reader, NEW k \in 0..Len(r.chunk)
  PROVE  LET u == [r EXCEPT !.index = k]
         IN /\ u \in Reader /\ u.index = k /\ u.index <= Len(u.chunk) /\ u.open = r.open /\ u.header = r.header
            /\ u.entries = r.entries /\ u.next = r.next /\ u.chunk = r.chunk /\ u.more = r.more
<1>1. k \in Nat /\ k <= Len(r.chunk)
  OBVIOUS
<1> QED
  BY <1>1 DEF Reader

\* The packets of a chunk that are late enough.
Late(r) == {i \in 1..Len(r.chunk) : r.chunk[i].t >= target}

\* The first of them.
LEMMA LateIs ==
  ASSUME NEW r, Late(r) # {}
  PROVE  LET m == Min(Late(r))
         IN m \in 1..Len(r.chunk) /\ r.chunk[m].t >= target /\ \A i \in 1..Len(r.chunk) : r.chunk[i].t >= target => m <= i
<1> DEFINE m == Min(Late(r))
<1>1. Late(r) \in SUBSET Nat
  BY DEF Late
<1>2. m \in Late(r) /\ \A k \in Late(r) : m <= k
  BY <1>1, MinIsLeast
<1> HIDE DEF m
<1> QED
  BY <1>2 DEF Late, m

\* In an undamaged file a turn of the loop goes on behind packets that are too early.
LEMMA SoughtOn ==
  ASSUME IInv, reader.open, intact, target # NoTarget, SortedTimes, NEW r \in LoadNextChunk(reader),
         r.chunk # <<>>, Late(r) = {}
  PROVE  \A j \in 1..Before(file, r.next) : log[j] < target
<1> DEFINE b == Before(file, reader.next)
           n == Len(r.chunk)
           c == Before(file, r.next)
<1>1. Ready(r) /\ c = b + n
  BY LoadedIs
<1>2. r \in Reader /\ r.chunk \in Seq(Packet) /\ n \in Nat /\ reader.next \in Nat /\ r.next \in Nat /\ target \in Nat
  <2>1. r \in Reader
    BY <1>1 DEF Ready
  <2>2. reader.next \in Nat
    BY DEF IInv, ReaderTypes, Reader
  <2>3. target \in Nat
    BY RpcapAssumption DEF IInv, ReaderTypes
  <2>4. r.chunk \in Seq(Packet) /\ r.next \in Nat
    BY <2>1 DEF Reader
  <2> QED
    BY <2>1, <2>2, <2>3, <2>4, LenProperties
<1>3. b \in Nat /\ c \in Nat
  BY <1>2, BeforeType
<1>4. SoughtPast(reader.next)
  BY DEF IInv, Placed
<1>5. \A i \in 1..n : r.chunk[i] = [n |-> c - n + i, t |-> log[c - n + i]]
  BY <1>1 DEF Ready, PlacedAt
<1>6. c <= Len(log) /\ Len(log) \in Nat /\ log \in Seq(Nat) /\ file \in Seq(Cell)
  <2>1. log \in Seq(Times) /\ Times \subseteq Nat /\ file \in Seq(Cell)
    BY RpcapAssumption DEF IInv, FileInv, FileTypes
  <2>2. log \in Seq(Nat)
    BY <2>1, SeqMonotonic
  <2>3. Laid(file, file[1].footer) /\ Before(file, file[1].footer) = Len(log)
    BY ReaderReady DEF IInv, FileInv, Finished
  <2>4. r.next \in 3..file[1].footer
    BY <1>1 DEF Ready, PlacedAt
  <2>5. file[1].footer \in Nat /\ r.next <= file[1].footer
    <3>1. file[1].footer \in 3..Len(file)
      BY <2>3 DEF Laid
    <3> QED
      BY <3>1, <2>4
  <2>6. c <= Before(file, file[1].footer)
    BY <2>5, <1>2, BeforeGrows
  <2> QED
    BY <2>1, <2>2, <2>3, <2>6, LenProperties
<1> HIDE DEF b, c, n
<1>7. \A j \in b + 1..c : log[j] < target
  <2> TAKE j \in b + 1..c
  <2> DEFINE i == j - b
  <2>1. i \in 1..n /\ c - n + i = j /\ j \in 1..Len(log)
    <3>1. \A x, y, l \in Nat : x + y <= l => \A k \in x + 1..x + y : k - x \in 1..y /\ x + y - y + (k - x) = k /\ k \in 1..l
      OBVIOUS
    <3>2. c = b + n /\ n \in Nat
      BY <1>1, <1>2 DEF b, c, n
    <3> QED
      BY <3>1, <3>2, <1>3, <1>6
  <2> HIDE DEF i
  <2>2. r.chunk[i].t = log[j]
    <3>1. r.chunk[i] = [n |-> j, t |-> log[j]]
      BY <2>1, <1>5
    <3> QED
      BY <3>1, NumberOf
  <2>3. ~(r.chunk[i].t >= target)
    BY <2>1 DEF Late, n
  <2>4. log[j] \in Nat
    BY <2>1, <1>6, ElementOfSeq
  <2> QED
    BY <2>2, <2>3, <2>4, <1>2
<1>8. n # 0
  BY <1>2 DEF n
<1>9. b + 1 \in b + 1..c /\ log[b + 1] < target
  <2>1. b + 1 \in b + 1..c
    BY <1>1, <1>2, <1>3, <1>8 DEF b, c, n
  <2> QED
    BY <2>1, <1>7
<1>10. \A j \in 1..b : log[j] < target
  <2> TAKE j \in 1..b
  <2>1. log[j] < target \/ log[b + 1] = target
    BY <1>4 DEF SoughtPast, b
  <2> QED
    BY <2>1, <1>9, <1>2
<1>11. \A j \in 1..c : j \in 1..b \/ j \in b + 1..c
  BY <1>3
<1> QED
  BY <1>7, <1>10, <1>11 DEF c

\* One turn of the loop in SeekTo.
LEMMA StepKeeps == IInv /\ SeekStep => IInv' /\ reader.open /\ reader'.open /\ sealed
<1> SUFFICES ASSUME IInv, SeekStep PROVE IInv' /\ reader.open /\ reader'.open /\ sealed
  OBVIOUS
<1>1. target # NoTarget /\ UNCHANGED <<file, writeVars>> /\ reading' = reading /\ got' = got
  BY DEF SeekStep
<1>2. file' = file /\ log' = log /\ intact' = intact
  BY <1>1 DEF writeVars
<1>3. PICK r \in LoadNextChunk(reader) :
        IF Late(r) # {}
          THEN reader' = [r EXCEPT !.index = Min(Late(r)) - 1] /\ target' = NoTarget
          ELSE /\ reader' = r
               /\ target' = IF r.chunk = <<>> \/ ~r.more THEN NoTarget ELSE target
  BY DEF SeekStep, Late
<1>4. reader.open /\ got = <<>> /\ target \in Targets
  BY <1>1 DEF IInv, Control, ReaderTypes
<1>5. Ready(r) /\ r \in Reader /\ r.open = TRUE /\ r.index <= Len(r.chunk) /\ ForwardIn(r) /\ PlacedAt(r) /\ sealed /\ reading
  BY <1>3, <1>4, LoadedIs, ReaderReady DEF Ready
<1>6. \E u : /\ reader' = u /\ u \in Reader /\ u.index <= Len(u.chunk) /\ u.open = TRUE /\ ForwardIn(u) /\ PlacedAt(u)
             /\ u.next = r.next
  <2>1. CASE Late(r) = {}
    BY <2>1, <1>3, <1>5
  <2>2. CASE Late(r) # {}
    <3> DEFINE k == Min(Late(r)) - 1
               u == [r EXCEPT !.index = k]
    <3>1. reader' = u
      BY <2>2, <1>3
    <3>2. k \in 0..Len(r.chunk)
      <4>1. Min(Late(r)) \in 1..Len(r.chunk)
        BY <2>2, LateIs
      <4>2. r.chunk \in Seq(Packet)
        BY <1>5 DEF Reader
      <4>3. Len(r.chunk) \in Nat
        BY <4>2, LenProperties
      <4> QED
        BY <4>1, <4>3
    <3> HIDE DEF k
    <3>3. /\ u \in Reader /\ u.index <= Len(u.chunk) /\ u.open = r.open /\ u.header = r.header
          /\ u.entries = r.entries /\ u.next = r.next /\ u.chunk = r.chunk /\ u.more = r.more
      BY <3>2, <1>5, LandedIs
    <3> HIDE DEF u
    <3>4. ForwardIn(u) /\ PlacedAt(u)
      BY <3>3, <1>5, TakenStays
    <3> QED
      BY <3>1, <3>3, <3>4, <1>5
  <2> QED
    BY <2>1, <2>2
<1>7. reader' \in Reader /\ reader'.index <= Len(reader'.chunk) /\ reader'.open = TRUE /\ reader'.next = r.next
      /\ ForwardIn(reader)' /\ PlacedAt(reader)'
  <2>1. PICK u : /\ reader' = u /\ u \in Reader /\ u.index <= Len(u.chunk) /\ u.open = TRUE /\ ForwardIn(u) /\ PlacedAt(u)
                 /\ u.next = r.next
    BY <1>6
  <2>2. ForwardIn(reader)' /\ PlacedAt(reader)'
    BY <2>1, <1>2, ReaderStays
  <2> QED
    BY <2>1, <2>2
<1>8. Forward'
  <2>1. \A i \in 1..Len(got') : FALSE
    BY <1>1, <1>4
  <2> QED
    BY <2>1, <1>7 DEF Forward, GotBefore
<1>9. target' # NoTarget => target' = target /\ Late(r) = {} /\ r.chunk # <<>>
  BY <1>3
<1>10. Placed'
  <2>1. ASSUME intact', target' # NoTarget, SortedTimes' PROVE SoughtPast(reader.next)'
    <3>1. intact /\ SortedTimes
      BY <2>1, <1>2 DEF SortedTimes
    <3>2. \A j \in 1..Before(file, r.next) : log[j] < target
      BY <2>1, <3>1, <1>1, <1>3, <1>4, <1>9, SoughtOn
    <3> QED
      BY <3>2, <2>1, <1>2, <1>7, <1>9 DEF SoughtPast
  <2> QED
    BY <2>1, <1>7 DEF Placed
<1>11. target' \in Targets \cup {NoTarget} /\ got' \in Seq(Nat) /\ got' = <<>> /\ reading' \in BOOLEAN /\ reading'
  BY <1>1, <1>4, <1>5, <1>9 DEF IInv, ReaderTypes
<1> QED
  BY <1>1, <1>4, <1>5, <1>7, <1>8, <1>10, <1>11, ReadingKeeps

-----------------------------------------------------------------------------
(***************************************************************************)
(* The theorems.                                                           *)
(***************************************************************************)

\* Every step keeps the invariant of the file, whoever has it open.
LEMMA FileKeeps == FileInv /\ [Next]_vars => FileInv'
<1> SUFFICES ASSUME FileInv, [Next]_vars PROVE FileInv'
  OBVIOUS
<1>1. CASE CreateFile
  BY <1>1, CreateKeeps
<1>2. CASE CreateFileRefused \/ Crash
  BY <1>2, CreateRefusedKeeps
<1>3. CASE FinalizeFile
  BY <1>3, FinalizeKeeps
<1>4. CASE \E t \in Times : WritePacket(t)
  BY <1>4, WriteKeeps
<1>5. CASE OpenFile \/ OpenFileRefused \/ CloseFile \/ ReadNext \/ SeekStep
  <2>1. UNCHANGED <<file, writeVars>>
    BY <1>5 DEF OpenFile, OpenFileRefused, CloseFile, ReadNext, SeekStep
  <2> QED
    BY <2>1, FileStays
<1>6. CASE \E t \in Targets : SeekTo(t)
  <2>1. UNCHANGED <<file, writeVars>>
    BY <1>6 DEF SeekTo
  <2> QED
    BY <2>1, FileStays
<1>7. CASE UNCHANGED vars
  <2>1. UNCHANGED <<file, writeVars>>
    BY <1>7 DEF vars
  <2> QED
    BY <2>1, FileStays
<1> QED
  BY <1>1, <1>2, <1>3, <1>4, <1>5, <1>6, <1>7 DEF Next

\* A recording that is written is not read.
LEMMA WritingUnread == IInv /\ writing => ~sealed /\ ~reader.open
BY WritingAlone DEF IInv, Control

\* What is said of the reader stays when nothing that it is about changes, and when it is closed.
LEMMA ReaderUntouched ==
  ASSUME IInv, UNCHANGED readVars, ~reader.open \/ UNCHANGED <<file, log, sealed, intact>>
  PROVE  ReaderTypes' /\ Control' /\ Forward' /\ Placed'
<1>1. UNCHANGED <<reader, reading, target, got>>
  BY DEF readVars
<1>2. ReaderTypes'
  BY <1>1 DEF IInv, ReaderTypes
<1>3. CASE ~reader.open
  <2>1. Control'
    BY <1>1, <1>3 DEF IInv, Control
  <2> QED
    BY <2>1, <1>2, <1>3, ClosedKeeps
<1>4. CASE UNCHANGED <<file, log, sealed, intact>>
  <2>1. Control'
    BY <1>1, <1>4 DEF IInv, Control
  <2>2. Forward' /\ Placed'
    BY <1>1, <1>4 DEF IInv, Forward, ForwardIn, GotBefore, Ahead, Placed, PlacedAt, SoughtPast, SortedTimes
  <2> QED
    BY <2>1, <2>2, <1>2
<1> QED
  BY <1>3, <1>4

\* Every step keeps the invariant, if no file is created anew while it is open for reading.
LEMMA StepsKeep == IInv /\ ~OverwriteOpen /\ [Next]_vars => IInv'
<1> SUFFICES ASSUME IInv, ~OverwriteOpen, [Next]_vars PROVE IInv'
  OBVIOUS
<1>1. FileInv'
  BY FileKeeps DEF IInv
<1>2. CASE CreateFile
  <2>1. UNCHANGED readVars /\ ~reader.open
    BY <1>2 DEF CreateFile
  <2> QED
    BY <2>1, <1>1, ReaderUntouched DEF IInv
<1>3. CASE CreateFileRefused
  <2>1. UNCHANGED readVars /\ UNCHANGED <<file, log, sealed, intact>>
    BY <1>3 DEF CreateFileRefused
  <2> QED
    BY <2>1, <1>1, ReaderUntouched DEF IInv
<1>4. CASE FinalizeFile \/ \E t \in Times : WritePacket(t)
  <2>1. writing /\ UNCHANGED readVars
    BY <1>4 DEF FinalizeFile, WritePacket
  <2>2. ~reader.open
    BY <2>1, WritingUnread
  <2> QED
    BY <2>1, <2>2, <1>1, ReaderUntouched DEF IInv
<1>5. CASE Crash
  <2>1. reader' = NoReader /\ reading' = FALSE /\ target' = NoTarget /\ got' = <<>>
    BY <1>5 DEF Crash
  <2>2. ReaderTypes' /\ Control' /\ Forward' /\ Placed'
    BY <2>1, NoReaderType DEF ReaderTypes, Control, Forward, Placed
  <2> QED
    BY <2>2, <1>1 DEF IInv
<1>6. CASE OpenFile
  BY <1>6, OpenKeeps
<1>7. CASE OpenFileRefused \/ CloseFile
  BY <1>7, CloseKeeps
<1>8. CASE ReadNext
  BY <1>8, ReadKeeps
<1>9. CASE SeekStep
  BY <1>9, StepKeeps
<1>10. CASE \E t \in Targets : SeekTo(t)
  BY <1>10, SeekKeeps
<1>11. CASE UNCHANGED vars
  <2>1. UNCHANGED readVars /\ UNCHANGED <<file, log, sealed, intact>>
    BY <1>11 DEF vars, writeVars
  <2> QED
    BY <2>1, <1>1, ReaderUntouched DEF IInv
<1> QED
  BY <1>2, <1>3, <1>4, <1>5, <1>6, <1>7, <1>8, <1>9, <1>10, <1>11 DEF Next

\* A recording, the file it is in and the reader of that file always fit together.
THEOREM FileFits == ~OverwriteOpen => (Spec => []IInv)
<1> SUFFICES ASSUME ~OverwriteOpen PROVE Spec => []IInv
  OBVIOUS
<1>1. Init => IInv
  BY InitHolds
<1>2. IInv /\ [Next]_vars => IInv'
  BY StepsKeep
<1> QED
  BY <1>1, <1>2, PTL DEF Spec

\* The header of a finished file tells a probe how long the recording is.
LEMMA HeaderTells == FileInv => HeaderTellsTheRecording
<1> SUFFICES ASSUME FileInv, sealed, intact
             PROVE  \E info \in ProbeFile :
                      info.total = Len(log) /\ (SortedTimes /\ log # <<>> => info.duration = Last(log) - Head(log))
  BY DEF HeaderTellsTheRecording
<1>1. /\ file \in Seq(Cell) /\ log \in Seq(Times) /\ Times \subseteq Nat /\ Len(log) \in Nat
      /\ Started(file) /\ file[1].schema = 1
      /\ file[1].total = Len(log)
      /\ file[1].duration = IF log = <<>> THEN 0 ELSE (log[Len(log)] - log[1]) % Wrap
  BY RpcapAssumption DEF FileInv, FileTypes, Opening, Finished
<1>2. 1 \in 1..Len(file) /\ 2 \in 1..Len(file) /\ 3 \in 1..Len(file)
  BY <1>1 DEF Started
<1>3. CanOpen
  <2>1. file[1].kind = "header" /\ file[2].kind = "number" /\ file[3].kind = "schema"
    BY <1>1, WrittenCells DEF Started
  <2>2. Is("header", 1) /\ Is("number", 2) /\ Is("schema", 3)
    BY <1>2, <2>1 DEF Is
  <2>3. file[1].schema + 1 = 2 /\ file[1].schema + 2 = 3
    BY <1>1
  <2> QED
    BY <2>2, <2>3 DEF CanOpen, LoadSchema
<1> DEFINE info == [total |-> file[1].total, duration |-> file[1].duration]
<1>4. info \in ProbeFile
  <2>1. HeaderRead = file[1]
    BY <1>3 DEF CanOpen, HeaderRead
  <2> QED
    BY <1>3, <2>1 DEF ProbeFile
<1>5. info.total = file[1].total /\ info.duration = file[1].duration
  OBVIOUS
<1> HIDE DEF info
<1>6. ASSUME SortedTimes, log # <<>> PROVE file[1].duration = Last(log) - Head(log)
  <2> DEFINE a == log[1]
             b == log[Len(log)]
  <2>1. 1 \in 1..Len(log) /\ Len(log) \in 1..Len(log)
    BY <1>1, <1>6
  <2>2. a \in Times /\ b \in Times
    BY <2>1, <1>1, ElementOfSeq
  <2>3. log \in Seq(Nat)
    BY <1>1, SeqMonotonic
  <2>4. a <= b
    BY <2>1, <2>3, <1>6, SortedPairs DEF SortedTimes
  <2>5. Last(log) = b /\ Head(log) = a
    BY <1>1, <1>6 DEF Last
  <2>6. file[1].duration = (b - a) % Wrap
    BY <1>1, <1>6
  <2> HIDE DEF a, b
  <2>7. a \in Nat /\ b \in Nat /\ b < Wrap /\ Wrap \in Nat
    BY <2>2, RpcapAssumption
  <2>8. (b - a) % Wrap = b - a
    <3>1. b - a \in Nat /\ b - a < Wrap /\ Wrap > 0
      BY <2>4, <2>7
    <3>2. \A x \in Nat : \A w \in Nat : w > 0 /\ x < w => x % w = x
      OBVIOUS
    <3> QED
      BY <3>1, <3>2, <2>7
  <2> QED
    BY <2>5, <2>6, <2>8
<1> QED
  BY <1>1, <1>4, <1>5, <1>6

\* HasMore is exact.
LEMMA MoreIsExact == IInv => HasMoreIsExact
<1> SUFFICES ASSUME IInv, intact, reader.open, target = NoTarget
             PROVE  HasMore <=> \E r \in {reader} \cup LoadNextChunk(reader) : r.index < Len(r.chunk)
  BY DEF HasMoreIsExact
<1>1. reading
  BY ReaderReady
<1>2. ASSUME NEW r \in LoadNextChunk(reader) PROVE (r.index < Len(r.chunk)) <=> reader.more
  <2>1. Ready(r) /\ r.index = 0 /\ (r.chunk # <<>> <=> reader.more)
    BY LoadedIs
  <2>2. r.chunk \in Seq(Packet)
    BY <2>1 DEF Ready, Reader
  <2>3. Len(r.chunk) \in Nat /\ (Len(r.chunk) = 0 <=> r.chunk = <<>>)
    BY <2>2
  <2>4. 0 < Len(r.chunk) <=> r.chunk # <<>>
    BY <2>3
  <2> QED
    BY <2>1, <2>4
<1>3. \E r \in LoadNextChunk(reader) : TRUE
  BY DEF LoadNextChunk
<1> QED
  BY <1>1, <1>2, <1>3 DEF HasMore

\* Reading goes forward.
LEMMA GoesForward == IInv => ReadsForward
<1> SUFFICES ASSUME IInv, NEW i \in 1..Len(got) - 1 PROVE got[i] < got[i + 1]
  BY DEF ReadsForward
<1>1. got \in Seq(Nat) /\ Len(got) \in Nat
  BY DEF IInv, ReaderTypes
<1>2. i \in 1..Len(got) /\ i + 1 \in 1..Len(got) /\ i < i + 1 /\ Len(got) # 0
  BY <1>1
<1>3. reader.open
  <2>1. got # <<>>
    BY <1>2
  <2> QED
    BY <2>1 DEF IInv, Control
<1> QED
  BY <1>2, <1>3 DEF IInv, Forward

\* What LoadNextChunk leaves is a reader, whatever the file has become.
LEMMA LoadedType ==
  ASSUME FileInv, reader \in Reader, NEW r \in LoadNextChunk(reader)
  PROVE  r \in Reader /\ r.index = 0
<1> DEFINE stopped == [reader EXCEPT !.chunk = <<>>, !.index = 0, !.more = FALSE]
           o == reader.next
<1>1. o \in Nat /\ Len(file) \in Nat
  BY DEF Reader, FileInv, FileTypes
<1>2. stopped \in Reader /\ stopped.index = 0
  <2>1. <<>> \in Seq(Packet) /\ 0 \in Nat /\ FALSE \in BOOLEAN
    BY NoWriterType
  <2> QED
    BY <2>1 DEF Reader
<1>3. ASSUME NEW chunk \in Seq(Packet), NEW next \in Nat
      PROVE  Loaded(reader, chunk, next) \in Reader /\ Loaded(reader, chunk, next).index = 0
  <2> DEFINE more == next < reader.header.footer
  <2>1. more \in BOOLEAN /\ 0 \in Nat /\ Loaded(reader, chunk, next) = [reader EXCEPT !.chunk = chunk, !.index = 0, !.next = next, !.more = more]
    BY DEF Loaded
  <2> HIDE DEF more
  <2> QED
    BY <2>1 DEF Reader
<1>4. \/ r = stopped
      \/ IsChunk(o) /\ r = Loaded(reader, [i \in 1..file[o + 3].n |-> file[o + 3 + i].p], o + 3 + file[o + 3].n)
      \/ \E next \in o + 3..Len(file) + 1 : r = Loaded(reader, <<Junk>>, next)
  BY DEF LoadNextChunk
<1> HIDE DEF stopped, o
<1>5. CASE r = stopped
  BY <1>2, <1>5
<1>6. CASE IsChunk(o) /\ r = Loaded(reader, [i \in 1..file[o + 3].n |-> file[o + 3 + i].p], o + 3 + file[o + 3].n)
  <2> DEFINE n == file[o + 3].n
             chunk == [i \in 1..n |-> file[o + 3 + i].p]
  <2>1. n \in Nat /\ chunk \in Seq(Packet)
    BY <1>1, <1>6, ChunkRead
  <2> HIDE DEF n, chunk
  <2>2. o + 3 + n \in Nat /\ r = Loaded(reader, chunk, o + 3 + n)
    BY <2>1, <1>1, <1>6 DEF n, chunk
  <2> QED
    BY <2>1, <2>2, <1>3
<1>7. CASE \E next \in o + 3..Len(file) + 1 : r = Loaded(reader, <<Junk>>, next)
  <2>1. PICK next \in o + 3..Len(file) + 1 : r = Loaded(reader, <<Junk>>, next)
    BY <1>7
  <2>2. next \in Nat
    BY <1>1
  <2>3. <<Junk>> \in Seq(Packet)
    BY DEF Junk, Packet
  <2> QED
    BY <2>1, <2>2, <2>3, <1>3
<1> QED
  BY <1>4, <1>5, <1>6, <1>7

\* A reader keeps its type even when its file is created anew under it.
LEMMA ReaderTypesKept == FileInv /\ ReaderTypes /\ [Next]_vars => ReaderTypes'
<1> SUFFICES ASSUME FileInv, ReaderTypes, [Next]_vars PROVE ReaderTypes'
  OBVIOUS
<1>1. /\ reader \in Reader /\ reader.index <= Len(reader.chunk)
      /\ reading \in BOOLEAN /\ target \in Targets \cup {NoTarget} /\ got \in Seq(Nat)
  BY DEF ReaderTypes
<1>2. CASE UNCHANGED readVars
  BY <1>1, <1>2 DEF readVars, ReaderTypes
<1>3. CASE reader' = NoReader /\ reading' = FALSE /\ target' = NoTarget /\ got' = <<>>
  BY <1>3, NoReaderType DEF ReaderTypes
<1>4. CASE OpenFile
  <2>1. CanOpen /\ target' = NoTarget /\ reading' = TRUE /\ got' = <<>>
    BY <1>4 DEF OpenFile
  <2>2. sealed /\ HeaderRead = file[1] /\ 1 \in 1..Len(file) /\ file[1].kind = "header"
    BY <2>1, OpensSealed DEF OpensOnlyFinalized, CanOpen, HeaderRead, Is
  <2>3. file[1] \in HeaderCell
    <3>1. file[1] \in Cell
      BY <2>2, ElementOfSeq DEF FileInv, FileTypes
    <3> QED
      BY <3>1, <2>2, CellKinds
  <2> DEFINE more == file[1].chunks < file[1].footer
  <2>4. PICK footer \in LoadFooter(file[1]) :
          reader' = [NoReader EXCEPT !.open = TRUE, !.header = file[1], !.entries = footer,
                       !.next = file[1].chunks, !.more = more]
    BY <2>2, <1>4 DEF OpenFile
  <2>5. footer \in Seq(EntryCell) /\ file[1].chunks \in Nat /\ more \in BOOLEAN
    BY <2>2, <2>3, FooterRead DEF HeaderCell
  <2> HIDE DEF more
  <2>6. reader' \in Reader /\ reader'.index = 0 /\ reader'.chunk = <<>>
    BY <2>3, <2>4, <2>5, NoReaderType DEF Reader
  <2> QED
    BY <2>1, <2>6 DEF ReaderTypes
<1>5. CASE ReadNext
  <2>1. PICK r \in ReadsFrom :
          IF r.index < Len(r.chunk)
            THEN /\ reader' = [r EXCEPT !.index = @ + 1]
                 /\ got' = IF r.chunk[r.index + 1].n = 0 THEN got ELSE Append(got, r.chunk[r.index + 1].n)
            ELSE reader' = r /\ got' = got
    BY <1>5 DEF ReadNext, ReadsFrom
  <2>2. r \in Reader /\ r.index <= Len(r.chunk)
    <3>1. CASE r = reader
      BY <3>1, <1>1
    <3>2. CASE r \in LoadNextChunk(reader)
      <4>1. r \in Reader /\ r.index = 0
        BY <3>2, <1>1, LoadedType
      <4>2. Len(r.chunk) \in Nat
        BY <4>1 DEF Reader
      <4> QED
        BY <4>1, <4>2
    <3> QED
      BY <3>1, <3>2 DEF ReadsFrom
  <2>3. reading' \in BOOLEAN /\ target' \in Targets \cup {NoTarget}
    BY <1>1, <1>5 DEF ReadNext
  <2>4. CASE ~(r.index < Len(r.chunk))
    BY <2>1, <2>2, <2>3, <2>4, <1>1 DEF ReaderTypes
  <2>5. CASE r.index < Len(r.chunk)
    <3> DEFINE u == [r EXCEPT !.index = @ + 1]
               m == r.chunk[r.index + 1].n
    <3>1. u \in Reader /\ u.index <= Len(u.chunk) /\ m \in Nat
      BY <2>2, <2>5, TakenIs
    <3>2. reader' = u /\ got' = IF m = 0 THEN got ELSE Append(got, m)
      BY <2>1, <2>5
    <3> HIDE DEF u, m
    <3>3. got' \in Seq(Nat)
      BY <3>1, <3>2, <1>1
    <3> QED
      BY <3>1, <3>2, <3>3, <2>3 DEF ReaderTypes
  <2> QED
    BY <2>4, <2>5
<1>6. ASSUME NEW t \in Targets, SeekTo(t) PROVE ReaderTypes'
  <2> DEFINE next == SeekChunk(reader, t)
             more == next < reader.header.footer
  <2>1. /\ target' = t /\ got' = <<>> /\ reading' = reading
        /\ reader' = [reader EXCEPT !.chunk = <<>>, !.index = 0, !.next = next, !.more = more]
    BY <1>6 DEF SeekTo, Loaded
  <2>2. more \in BOOLEAN
    OBVIOUS
  <2> HIDE DEF more
  <2>4. SeekChunk(reader, t) \in Nat
    BY <1>1, SeekEntryIs
  <2> HIDE DEF next
  <2>3. reader' \in Reader /\ reader'.index = 0 /\ reader'.chunk = <<>>
    BY <2>1, <2>2, <2>4, <1>1, NoWriterType DEF next, Reader
  <2> QED
    BY <2>1, <2>3, <1>1 DEF ReaderTypes
<1>7. CASE SeekStep
  <2>1. PICK r \in LoadNextChunk(reader) :
          IF Late(r) # {}
            THEN reader' = [r EXCEPT !.index = Min(Late(r)) - 1] /\ target' = NoTarget
            ELSE /\ reader' = r
                 /\ target' = IF r.chunk = <<>> \/ ~r.more THEN NoTarget ELSE target
    BY <1>7 DEF SeekStep, Late
  <2>2. r \in Reader /\ r.index = 0 /\ r.chunk \in Seq(Packet)
    BY <1>1, LoadedType DEF Reader
  <2>3. Len(r.chunk) \in Nat
    BY <2>2, LenProperties
  <2>4. reader' \in Reader /\ reader'.index <= Len(reader'.chunk)
    <3>1. CASE Late(r) = {}
      BY <3>1, <2>1, <2>2, <2>3
    <3>2. CASE Late(r) # {}
      <4> DEFINE k == Min(Late(r)) - 1
      <4>1. reader' = [r EXCEPT !.index = k]
        BY <3>2, <2>1
      <4>2. k \in 0..Len(r.chunk)
        <5>1. Min(Late(r)) \in 1..Len(r.chunk)
          BY <3>2, LateIs
        <5> QED
          BY <5>1, <2>3
      <4> HIDE DEF k
      <4> QED
        BY <4>1, <4>2, <2>2, LandedIs
    <3> QED
      BY <3>1, <3>2
  <2>5. reading' \in BOOLEAN /\ got' \in Seq(Nat) /\ target' \in Targets \cup {NoTarget}
    BY <2>1, <1>1, <1>7 DEF SeekStep
  <2> QED
    BY <2>4, <2>5 DEF ReaderTypes
<1> QED
  <2>1. \/ UNCHANGED readVars
        \/ reader' = NoReader /\ reading' = FALSE /\ target' = NoTarget /\ got' = <<>>
        \/ OpenFile \/ ReadNext \/ SeekStep \/ \E t \in Targets : SeekTo(t)
    BY DEF Next, vars, CreateFile, CreateFileRefused, FinalizeFile, WritePacket, Crash, CloseFile, OpenFileRefused
  <2> QED
    BY <2>1, <1>2, <1>3, <1>4, <1>5, <1>6, <1>7

\* The file and its writer fit together, also when it is created anew while it is being read.
THEOREM FileSound == Spec => [](FileInv /\ ReaderTypes)
<1>1. Init => FileInv /\ ReaderTypes
  BY InitHolds DEF IInv
<1>2. FileInv /\ ReaderTypes /\ [Next]_vars => FileInv' /\ ReaderTypes'
  BY FileKeeps, ReaderTypesKept
<1> QED
  BY <1>1, <1>2, PTL DEF Spec

\* A header that a reader accepts is that of a finalized file, and what it tells of an
\* undamaged recording is true: the first thing Open relies on, after any failed write and
\* crash, and when the file is created anew while it is being read.
THEOREM HeaderTrue == Spec => []HeaderTellsTheTruth
<1>1. FileInv /\ ReaderTypes => HeaderTellsTheTruth
  BY TypesTypeOK, OpensSealed, HeaderTells DEF HeaderTellsTheTruth, FileInv
<1>2. Spec => [](FileInv /\ ReaderTypes)
  BY FileSound
<1> QED
  BY <1>1, <1>2, PTL

\* Every packet that is read comes after the one before, and HasMore says exactly when
\* there is another one, whatever the layout of the chunks.
THEOREM ReadToTheEnd == ~OverwriteOpen => (Spec => []ReadsToTheEnd)
<1> SUFFICES ASSUME ~OverwriteOpen PROVE Spec => []ReadsToTheEnd
  OBVIOUS
<1>1. IInv => ReadsToTheEnd
  BY MoreIsExact, GoesForward DEF ReadsToTheEnd
<1>2. Spec => []IInv
  BY FileFits
<1> QED
  BY <1>1, <1>2, PTL

-----------------------------------------------------------------------------
(***************************************************************************)
(* What PacketLog promises.                                                *)
(***************************************************************************)

\* The packets in front of the next one a reader gives.
Where(r) == Before(file, r.next) - (Len(r.chunk) - r.index)

\* That is the position of the reader.
LEMMA PositionIs == Position = IF target # NoTarget \/ ~reader.open THEN 0 ELSE Where(reader)
BY DEF Position, Where, Before, Is, PacketAt

\* So it is after a step that leaves the file as it is.
LEMMA PositionAfter ==
  ASSUME file' = file
  PROVE  Position' = IF target' # NoTarget \/ ~reader'.open THEN 0 ELSE Where(reader')
BY DEF Position, Where, Before, Is, PacketAt

\* A reader in an undamaged file is at one of the recording's packets, or behind the last.
LEMMA ReadyWhere ==
  ASSUME IInv, sealed, intact, NEW r, Ready(r)
  PROVE  /\ Before(file, r.next) \in Nat /\ Before(file, r.next) <= Len(log) /\ Len(log) \in Nat
         /\ Len(r.chunk) \in Nat /\ r.index \in Nat /\ r.index <= Len(r.chunk) /\ Len(r.chunk) <= Before(file, r.next)
         /\ Where(r) \in 0..Len(log) /\ (r.index < Len(r.chunk) => Where(r) < Len(log))
         /\ \A i \in 1..Len(r.chunk) :
              LET n == Before(file, r.next) - Len(r.chunk) + i
              IN r.chunk[i].n = n /\ r.chunk[i].t = log[n] /\ n \in 1..Len(log)
         /\ (~r.more => Before(file, r.next) = Len(log)) /\ log \in Seq(Nat)
<1> DEFINE b == Before(file, r.next)
           n == Len(r.chunk)
           end == file[1].footer
<1>1. /\ r \in Reader /\ r.index <= n /\ r.next \in 3..end /\ n <= b
      /\ \A i \in 1..n : r.chunk[i] = [n |-> b - n + i, t |-> log[b - n + i]]
      /\ r.more <=> r.next < end
  BY DEF Ready, PlacedAt
<1>2. Laid(file, end) /\ Before(file, end) = Len(log)
  BY DEF IInv, FileInv, Finished
<1>3. log \in Seq(Nat) /\ Len(log) \in Nat /\ file \in Seq(Cell) /\ Len(file) \in Nat
  <2>1. log \in Seq(Times) /\ Times \subseteq Nat /\ file \in Seq(Cell)
    BY RpcapAssumption DEF IInv, FileInv, FileTypes
  <2>2. log \in Seq(Nat)
    BY <2>1, SeqMonotonic
  <2> QED
    BY <2>1, <2>2, LenProperties
<1>4. end \in Nat /\ r.next \in Nat /\ r.next <= end /\ (~r.more => r.next = end)
  <2>1. end \in 3..Len(file)
    BY <1>2 DEF Laid
  <2>2. end \in Nat
    BY <2>1
  <2>3. r.next \in Nat /\ r.next <= end /\ ~(r.next < end) => r.next = end
    BY <1>1, <2>2
  <2> QED
    BY <1>1, <2>2, <2>3
<1>5. b \in Nat /\ b <= Len(log)
  BY <1>2, <1>4, BeforeType, BeforeGrows
<1>6. n \in Nat /\ r.index \in Nat
  <2>1. r.chunk \in Seq(Packet) /\ r.index \in Nat
    BY <1>1 DEF Reader
  <2> QED
    BY <2>1, LenProperties
<1>7. ~r.more => b = Len(log)
  BY <1>2, <1>4
<1> HIDE DEF b, n
<1>8. \A i \in 1..n : r.chunk[i].n = b - n + i /\ r.chunk[i].t = log[b - n + i] /\ b - n + i \in 1..Len(log)
  <2> TAKE i \in 1..n
  <2>1. r.chunk[i] = [n |-> b - n + i, t |-> log[b - n + i]]
    BY <1>1 DEF b, n
  <2>2. b - n + i \in 1..Len(log)
    <3>1. n <= b
      BY <1>1 DEF b, n
    <3> QED
      BY <3>1, <1>3, <1>5, <1>6
  <2> QED
    BY <2>1, <2>2, NumberOf
<1>9. b - (n - r.index) \in 0..Len(log) /\ (r.index < n => b - (n - r.index) < Len(log))
  <2>1. n <= b /\ r.index <= n
    BY <1>1 DEF b, n
  <2>2. \A x, y, z, l \in Nat :
          y <= x /\ z <= y /\ x <= l => x - (y - z) \in 0..l /\ (z < y => x - (y - z) < l)
    OBVIOUS
  <2> QED
    BY <2>1, <2>2, <1>3, <1>5, <1>6
<1> QED
  BY <1>1, <1>3, <1>5, <1>6, <1>7, <1>8, <1>9 DEF b, n, Where

\* Nothing is read, and no file that is read changes.
LEMMA ReaderStill ==
  ASSUME UNCHANGED readVars, ~reader.open \/ file' = file
  PROVE  /\ Position' = Position /\ (reading /\ reader.open)' = (reading /\ reader.open)
         /\ target' = target /\ got' = got
<1>1. reader' = reader /\ reading' = reading /\ target' = target /\ got' = got
  BY DEF readVars
<1>2. CASE file' = file
  BY <1>1, <1>2 DEF Position, Is
<1>3. CASE ~reader.open
  BY <1>1, <1>3 DEF Position
<1> QED
  BY <1>1, <1>2, <1>3

\* What the writer does is what the recording promises.
LEMMA WritesPromised ==
  IInv /\ ~OverwriteOpen /\ (CreateFile \/ CreateFileRefused \/ FinalizeFile \/ \E t \in Times : WritePacket(t))
    => [Promise!Next]_Promise!vars
<1> SUFFICES ASSUME IInv, ~OverwriteOpen,
                    CreateFile \/ CreateFileRefused \/ FinalizeFile \/ \E t \in Times : WritePacket(t)
             PROVE  [Promise!Next]_Promise!vars
  OBVIOUS
<1>1. CASE CreateFile
  <2>1. ~reader.open /\ UNCHANGED readVars /\ log' = <<>> /\ sealed' = FALSE /\ intact' \in BOOLEAN
    BY <1>1 DEF CreateFile, Succeeds
  <2>2. Promise!Create
    BY <2>1, ReaderStill DEF Promise!Create
  <2> QED
    BY <2>2 DEF Promise!Next
<1>2. CASE CreateFileRefused
  <2>1. UNCHANGED <<file, log, sealed, intact>> /\ UNCHANGED readVars
    BY <1>2 DEF CreateFileRefused
  <2> QED
    BY <2>1, ReaderStill DEF Promise!vars
<1>3. CASE FinalizeFile
  <2>1. ~reader.open /\ UNCHANGED readVars /\ log' = log /\ ~sealed /\ sealed' \in BOOLEAN /\ intact' \in {intact, FALSE}
    BY <1>3, WritingUnread DEF FinalizeFile, Succeeds, CountFault, IInv, FileInv, FileTypes
  <2>2. Promise!Seal
    BY <2>1, ReaderStill DEF Promise!Seal
  <2> QED
    BY <2>2 DEF Promise!Next
<1>4. ASSUME NEW t \in Times, WritePacket(t) PROVE [Promise!Next]_Promise!vars
  <2>1. ~reader.open /\ UNCHANGED readVars /\ log' = Append(log, t) /\ ~sealed /\ sealed' = sealed
    BY <1>4, WritingUnread DEF WritePacket
  <2>2. intact' \in {intact, FALSE}
    BY <1>4 DEF WritePacket, CountFault, IInv, FileInv, FileTypes
  <2>3. Append(log, t) = log \o <<t>>
    <3>1. log \in Seq(Times)
      BY DEF IInv, FileInv, FileTypes
    <3> QED
      BY <3>1, AppendIsConcat
  <2>4. Promise!Put(t)
    BY <2>1, <2>2, <2>3, ReaderStill DEF Promise!Put
  <2> QED
    BY <2>4 DEF Promise!Next
<1> QED
  BY <1>1, <1>2, <1>3, <1>4

\* A file that is opened is read from its first packet on; one that is closed, or whose
\* reader crashed, is not read.
LEMMA OpensPromised ==
  IInv /\ (OpenFile \/ OpenFileRefused \/ CloseFile \/ Crash) => [Promise!Next]_Promise!vars
<1> SUFFICES ASSUME IInv, OpenFile \/ OpenFileRefused \/ CloseFile \/ Crash PROVE [Promise!Next]_Promise!vars
  OBVIOUS
<1>1. CASE OpenFile
  <2>1. /\ sealed /\ reader'.open /\ reader'.next = 3 /\ reader'.chunk = <<>> /\ reader'.index = 0
        /\ reading' = TRUE /\ got' = <<>> /\ target' = NoTarget /\ UNCHANGED <<file, log, sealed, intact>>
    <3>1. reader'.index = 0
      BY <1>1 DEF OpenFile, NoReader
    <3>2. target = NoTarget /\ target' = target /\ reading' = TRUE /\ got' = <<>> /\ UNCHANGED <<file, writeVars>>
      BY <1>1 DEF OpenFile
    <3> QED
      BY <3>1, <3>2, <1>1, OpenKeeps DEF writeVars
  <2>2. Where(reader') = 0
    <3>1. Started(file) /\ file \in Seq(Cell) /\ <<>> \in Seq(Cell)
      BY <2>1 DEF IInv, FileInv, Opening, FileTypes
    <3>2. \A k \in 1..3 : ~PacketAt(file, k)
      BY <3>1, StartedGrows
    <3>3. 0 \in Nat /\ 3 \in Nat /\ 0 <= 3 /\ 0 + 1..3 = 1..3
      OBVIOUS
    <3>4. Before(file, 3) = 0
      BY <3>2, <3>3, BeforeGap, BeforeNone
    <3>5. Len(reader'.chunk) = 0 /\ 0 - (0 - 0) = 0
      BY <2>1
    <3> QED
      BY <3>4, <3>5, <2>1 DEF Where
  <2>3. Position' = 0
    BY <2>1, <2>2, PositionAfter
  <2>4. Promise!Open
    BY <2>1, <2>3 DEF Promise!Open, Promise!NoTarget, NoTarget
  <2> QED
    BY <2>4 DEF Promise!Next
<1>2. CASE OpenFileRefused \/ CloseFile \/ Crash
  <2>1. reader' = NoReader /\ target' = NoTarget /\ got' = <<>> /\ UNCHANGED <<log, sealed, intact>> /\ reading' = FALSE
    BY <1>2 DEF OpenFileRefused, CloseFile, Crash, writeVars
  <2>2. Position' = 0
    BY <2>1, NoReaderType DEF Position
  <2>3. Promise!Close
    BY <2>1, <2>2 DEF Promise!Close, Promise!NoTarget, NoTarget
  <2> QED
    BY <2>3 DEF Promise!Next
<1> QED
  BY <1>1, <1>2

\* A packet that is read is the next one of the recording.
LEMMA ReadPromised == IInv /\ ReadNext => [Promise!Next]_Promise!vars
<1> SUFFICES ASSUME IInv, ReadNext PROVE [Promise!Next]_Promise!vars
  OBVIOUS
<1>1. reading /\ reader.open /\ target = NoTarget /\ UNCHANGED <<file, log, sealed, intact, reading, target>>
  BY DEF ReadNext, writeVars
<1>2. PICK r \in ReadsFrom :
        IF r.index < Len(r.chunk)
          THEN /\ reader' = [r EXCEPT !.index = @ + 1]
               /\ got' = IF r.chunk[r.index + 1].n = 0 THEN got ELSE Append(got, r.chunk[r.index + 1].n)
          ELSE reader' = r /\ UNCHANGED got
  BY DEF ReadNext, ReadsFrom
<1>3. Ready(r) /\ r \in Reader /\ r.open = TRUE /\ sealed /\ (intact => Where(r) = Where(reader))
  BY <1>1, <1>2, ReadsFromIs, ReaderReady DEF Ready, Where
<1>4. reader'.open
  <2>1. CASE r.index < Len(r.chunk)
    BY <2>1, <1>2, <1>3, TakenIs
  <2>2. CASE ~(r.index < Len(r.chunk))
    BY <2>2, <1>2, <1>3
  <2> QED
    BY <2>1, <2>2
<1>5. CASE ~intact
  <2>1. Promise!ReadDamaged
    BY <1>1, <1>3, <1>4, <1>5 DEF Promise!ReadDamaged
  <2> QED
    BY <2>1 DEF Promise!Next
<1>6. CASE intact
  <2>1. Position = Where(r) /\ Position' = Where(reader')
    BY <1>1, <1>3, <1>4, <1>6, PositionIs, PositionAfter
  <2>2. CASE ~(r.index < Len(r.chunk))
    <3>1. reader' = r /\ got' = got
      BY <2>2, <1>2
    <3>2. Position' = Position
      BY <3>1, <2>1
    <3> QED
      BY <3>1, <3>2, <1>1, <1>4 DEF Promise!vars
  <2>3. CASE r.index < Len(r.chunk)
    <3> DEFINE u == [r EXCEPT !.index = @ + 1]
               i == r.index + 1
               m == r.chunk[i].n
    <3>1. reader' = u /\ got' = IF m = 0 THEN got ELSE Append(got, m)
      BY <2>3, <1>2
    <3>2. u.index = i /\ u.next = r.next /\ u.chunk = r.chunk /\ i \in 1..Len(r.chunk)
      BY <2>3, <1>3, TakenIs
    <3>3. /\ Before(file, r.next) \in Nat /\ Len(r.chunk) \in Nat /\ r.index \in Nat
          /\ Where(r) \in 0..Len(log) /\ Where(r) < Len(log) /\ Len(log) \in Nat
          /\ m = Before(file, r.next) - Len(r.chunk) + i
      BY <3>2, <2>3, <1>3, <1>6, ReadyWhere
    <3> HIDE DEF u, m
    <3>4. Where(u) = Where(r) + 1 /\ m = Where(r) + 1 /\ m # 0
      <4>1. \A x, y, z \in Nat : x - (y - (z + 1)) = (x - (y - z)) + 1 /\ x - y + (z + 1) = (x - (y - z)) + 1
        OBVIOUS
      <4>2. Where(r) + 1 # 0
        BY <3>3
      <4>3. Where(u) = Before(file, r.next) - (Len(r.chunk) - (r.index + 1))
        BY <3>2 DEF Where
      <4>4. Where(u) = Where(r) + 1
        BY <4>1, <4>3, <3>3 DEF Where
      <4>5. m = Where(r) + 1
        BY <4>1, <3>3 DEF Where
      <4> QED
        BY <4>2, <4>4, <4>5
    <3>5. got' = Append(got, m) /\ got \in Seq(Nat) /\ m \in Nat
      <4>1. got \in Seq(Nat)
        BY DEF IInv, ReaderTypes
      <4>2. m \in Nat
        BY <3>3, <3>4
      <4> QED
        BY <4>1, <4>2, <3>1, <3>4
    <3>6. got' # <<>> /\ Last(got') = m
      BY <3>5 DEF Last
    <3>7. Position' = Position + 1
      BY <3>1, <3>4, <2>1
    <3>8. Promise!Read
      <4>1. Position < Len(log) /\ (IF got' = <<>> THEN 0 ELSE Last(got')) = Position + 1
        BY <3>3, <3>4, <3>6, <2>1
      <4> QED
        BY <4>1, <3>7, <1>1, <1>4 DEF Promise!Read, Promise!NoTarget, NoTarget
    <3> QED
      BY <3>8 DEF Promise!Next
  <2> QED
    BY <2>2, <2>3
<1> QED
  BY <1>5, <1>6

\* A seek that begins.
LEMMA SeekPromised == ASSUME IInv, NEW t \in Targets, SeekTo(t) PROVE [Promise!Next]_Promise!vars
<1>1. /\ reading /\ reader.open /\ target = NoTarget /\ target' = t /\ got' = <<>> /\ reading' = reading
      /\ UNCHANGED <<file, log, sealed, intact>>
  BY DEF SeekTo, writeVars
<1>2. reader'.open
  BY SeekKeeps
<1>3. t # NoTarget
  <2>1. t \in Nat
    BY RpcapAssumption
  <2> QED
    BY <2>1 DEF NoTarget
<1>4. Position' = 0
  BY <1>1, <1>3, PositionAfter
<1>5. Promise!Seek(t)
  BY <1>1, <1>2, <1>4 DEF Promise!Seek, Promise!NoTarget, NoTarget
<1> QED
  BY <1>5 DEF Promise!Next

\* A turn of the loop that finds a packet ends in front of the earliest one of its time.
LEMMA SeekFinds ==
  ASSUME IInv, reader.open, intact, target # NoTarget, NEW r \in LoadNextChunk(reader), Late(r) # {}
  PROVE  LET p == Before(file, r.next) - Len(r.chunk) + Min(Late(r))
         IN /\ Where([r EXCEPT !.index = Min(Late(r)) - 1]) = p - 1 /\ p \in 1..Len(log)
            /\ log[p] >= target
            /\ SortedTimes => \A j \in 1..Len(log) : log[j] >= target => log[p] <= log[j]
<1> DEFINE m == Min(Late(r))
           b == Before(file, r.next)
           n == Len(r.chunk)
           a == Before(file, reader.next)
           p == b - n + m
           u == [r EXCEPT !.index = m - 1]
<1>1. Ready(r) /\ b = a + n /\ sealed
  BY LoadedIs, ReaderReady
<1>2. /\ b \in Nat /\ n \in Nat /\ Len(log) \in Nat /\ log \in Seq(Nat)
      /\ \A i \in 1..n : r.chunk[i].t = log[b - n + i] /\ b - n + i \in 1..Len(log)
  BY <1>1, ReadyWhere
<1>3. m \in 1..n /\ r.chunk[m].t >= target /\ \A i \in 1..n : r.chunk[i].t >= target => m <= i
  BY LateIs
<1>4. a \in Nat /\ target \in Nat
  <2>1. reader.next \in Nat
    BY DEF IInv, ReaderTypes, Reader
  <2>2. target \in Nat
    BY RpcapAssumption DEF IInv, ReaderTypes
  <2> QED
    BY <2>1, <2>2, BeforeType
<1>5. u.index = m - 1 /\ u.next = r.next /\ u.chunk = r.chunk
  <2>1. m - 1 \in 0..n
    BY <1>2, <1>3
  <2>2. r \in Reader
    BY <1>1 DEF Ready
  <2> HIDE DEF m
  <2> QED
    BY <2>1, <2>2, LandedIs
<1> SUFFICES /\ Where(u) = p - 1 /\ p \in 1..Len(log) /\ log[p] >= target
             /\ SortedTimes => \A j \in 1..Len(log) : log[j] >= target => log[p] <= log[j]
  OBVIOUS
<1>6. SoughtPast(reader.next) \/ ~SortedTimes
  BY DEF IInv, Placed
<1> HIDE DEF u, m, b, n, a
<1>7. Where(u) = p - 1
  <2>1. Where(u) = b - (n - (m - 1))
    BY <1>5 DEF Where, b, n
  <2>2. \A x, y, z \in Nat : x - (y - (z - 1)) = (x - y + z) - 1
    OBVIOUS
  <2>3. b \in Nat /\ n \in Nat /\ m \in Nat
    BY <1>2, <1>3
  <2>4. b - (n - (m - 1)) = p - 1
    BY <2>2, <2>3
  <2> HIDE DEF p
  <2> QED
    BY <2>1, <2>4
<1>8. p \in 1..Len(log) /\ log[p] >= target
  BY <1>2, <1>3
<1>9. ASSUME SortedTimes, NEW j \in 1..Len(log), log[j] >= target PROVE log[p] <= log[j]
  <2>1. log[j] \in Nat /\ log[p] \in Nat
    BY <1>2, <1>8, ElementOfSeq
  <2>2. CASE j >= p
    <3>1. j \in p..Len(log)
      BY <2>2, <1>8, <1>2
    <3> QED
      BY <3>1, <1>2, <1>8, <1>9, SortedPairs DEF SortedTimes
  <2>3. CASE j < p /\ j > a
    <3> DEFINE i == j - a
    <3>1. i \in 1..n /\ b - n + i = j /\ i < m
      <4>1. \A x, y \in Nat : \A k \in 1..y : \A l \in Nat :
              l < x + y - y + k /\ l > x => l - x \in 1..y /\ x + y - y + (l - x) = l /\ l - x < k
        OBVIOUS
      <4>2. b = a + n
        BY <1>1 DEF a, b, n
      <4> QED
        BY <4>1, <4>2, <2>3, <1>2, <1>3, <1>4
    <3> HIDE DEF i
    <3>2. r.chunk[i].t = log[j]
      BY <3>1, <1>2
    <3>3. m <= i
      BY <3>1, <3>2, <1>9, <1>3
    <3> QED
      BY <3>1, <3>3, <1>2, <1>3
  <2>4. CASE j <= a
    <3>1. j \in 1..a
      BY <2>4, <1>4
    <3>2. log[j] < target \/ (log[j] = target /\ log[a + 1] = target)
      BY <3>1, <1>6, <1>9 DEF SoughtPast, a
    <3>3. log[j] = target /\ log[a + 1] = target
      BY <3>2, <2>1, <1>4, <1>9
    <3>4. 1 \in 1..n /\ b - n + 1 = a + 1
      <4>1. \A x, y \in Nat : x + y - y + 1 = x + 1
        OBVIOUS
      <4>2. b = a + n
        BY <1>1 DEF a, b, n
      <4>3. 1 \in 1..n
        BY <1>2, <1>3
      <4> QED
        BY <4>1, <4>2, <4>3, <1>2, <1>4
    <3>5. r.chunk[1].t = target
      BY <3>3, <3>4, <1>2
    <3>6. m <= 1
      BY <3>4, <3>5, <1>3, <1>4
    <3>7. m = 1
      BY <3>6, <1>3
    <3>8. p = a + 1
      BY <3>4, <3>7
    <3> QED
      BY <3>3, <3>8, <2>1
  <2>5. j >= p \/ (j < p /\ j > a) \/ j <= a
    BY <1>4, <1>8
  <2> QED
    BY <2>2, <2>3, <2>4, <2>5
<1> QED
  BY <1>7, <1>8, <1>9

\* A turn of the loop that gives up has every packet of an ordered recording behind it.
LEMMA SeekGivesUp ==
  ASSUME IInv, reader.open, intact, target # NoTarget, SortedTimes, NEW r \in LoadNextChunk(reader),
         Late(r) = {}, r.chunk = <<>> \/ ~r.more
  PROVE  \A j \in 1..Len(log) : log[j] < target
<1>1. Ready(r) /\ Ready(reader) /\ sealed /\ (r.chunk # <<>> <=> reader.more)
  BY LoadedIs, ReaderReady
<1>2. CASE r.chunk # <<>>
  <2>1. Before(file, r.next) = Len(log)
    BY <1>1, <1>2, ReadyWhere
  <2> QED
    BY <2>1, <1>2, SoughtOn
<1>3. CASE r.chunk = <<>>
  <2>1. Before(file, reader.next) = Len(log) /\ Len(log) \in Nat
    BY <1>1, <1>3, ReadyWhere
  <2>2. SoughtPast(reader.next)
    BY DEF IInv, Placed
  <2>3. ~(Len(log) < Len(log))
    BY <2>1
  <2> QED
    BY <2>1, <2>2, <2>3 DEF SoughtPast
<1> QED
  BY <1>2, <1>3

\* A seek ends where the recording promises.
LEMMA StepPromised == IInv /\ SeekStep => [Promise!Next]_Promise!vars
<1> SUFFICES ASSUME IInv, SeekStep PROVE [Promise!Next]_Promise!vars
  OBVIOUS
<1>1. target # NoTarget /\ UNCHANGED <<file, log, sealed, intact, reading, got>>
  BY DEF SeekStep, writeVars
<1>2. reader.open /\ reader'.open /\ sealed /\ reading
  BY StepKeeps, ReaderReady
<1>3. PICK r \in LoadNextChunk(reader) :
        IF Late(r) # {}
          THEN reader' = [r EXCEPT !.index = Min(Late(r)) - 1] /\ target' = NoTarget
          ELSE /\ reader' = r
               /\ target' = IF r.chunk = <<>> \/ ~r.more THEN NoTarget ELSE target
  BY DEF SeekStep, Late
<1>4. CASE ~intact
  <2>1. Promise!ReadDamaged
    BY <1>1, <1>2, <1>4 DEF Promise!ReadDamaged
  <2> QED
    BY <2>1 DEF Promise!Next
<1>5. CASE intact /\ target' # NoTarget
  <2>1. target' = target
    BY <1>3, <1>5
  <2>2. Position = 0 /\ Position' = 0
    BY <1>1, <1>5, PositionIs, PositionAfter
  <2> QED
    BY <2>1, <2>2, <1>1, <1>2 DEF Promise!vars
<1>6. CASE intact /\ target' = NoTarget
  <2>1. Position' = Where(reader')
    BY <1>1, <1>2, <1>6, PositionAfter
  <2>2. Len(log) \in Nat /\ log \in Seq(Nat) /\ Ready(r) /\ Where(r) \in 0..Len(log)
    <3>1. Ready(r)
      BY <1>2, <1>3, LoadedIs
    <3> QED
      BY <3>1, <1>2, <1>6, ReadyWhere
  <2> DEFINE late == {j \in 1..Len(log) : log[j] >= target}
             first == {i \in 0..Len(log) - 1 : i + 1 \in late /\ \A j \in late : log[i + 1] <= log[j]}
  <2>3. Promise!Landings(target) = IF SortedTimes /\ late # {} THEN first ELSE 0..Len(log)
    BY DEF Promise!Landings, Promise!Sorted, SortedTimes
  <2>4. Position' \in Promise!Landings(target)
    <3>1. CASE Late(r) # {}
      <4> DEFINE p == Before(file, r.next) - Len(r.chunk) + Min(Late(r))
      <4>1. /\ Where(reader') = p - 1 /\ p \in 1..Len(log) /\ log[p] >= target
            /\ SortedTimes => \A j \in 1..Len(log) : log[j] >= target => log[p] <= log[j]
        <5>1. reader' = [r EXCEPT !.index = Min(Late(r)) - 1]
          BY <3>1, <1>3
        <5>2. LET q == Before(file, r.next) - Len(r.chunk) + Min(Late(r))
              IN /\ Where([r EXCEPT !.index = Min(Late(r)) - 1]) = q - 1 /\ q \in 1..Len(log)
                 /\ log[q] >= target
                 /\ SortedTimes => \A j \in 1..Len(log) : log[j] >= target => log[q] <= log[j]
          BY <3>1, <1>1, <1>2, <1>3, <1>6, SeekFinds
        <5> QED
          BY <5>1, <5>2
      <4> HIDE DEF p
      <4>2. p - 1 \in 0..Len(log) - 1 /\ p - 1 \in 0..Len(log) /\ (p - 1) + 1 = p
        BY <4>1, <2>2
      <4>3. p \in late /\ (SortedTimes => \A j \in late : log[p] <= log[j])
        BY <4>1
      <4>4. SortedTimes => p - 1 \in first
        BY <4>2, <4>3
      <4> HIDE DEF late, first
      <4> QED
        BY <4>1, <4>2, <4>4, <2>1, <2>3
    <3>2. CASE Late(r) = {}
      <4>1. reader' = r /\ (r.chunk = <<>> \/ ~r.more)
        BY <3>2, <1>1, <1>3, <1>6
      <4>2. SortedTimes => late = {}
        <5>1. SortedTimes => \A j \in 1..Len(log) : log[j] < target
          BY <4>1, <3>2, <1>1, <1>2, <1>3, <1>6, SeekGivesUp
        <5>2. \A j \in 1..Len(log) : log[j] \in Nat
          BY <2>2
        <5>3. target \in Nat
          BY <1>1, RpcapAssumption DEF IInv, ReaderTypes
        <5> QED
          BY <5>1, <5>2, <5>3
      <4> HIDE DEF late, first
      <4> QED
        BY <4>1, <4>2, <2>1, <2>2, <2>3
    <3> QED
      BY <3>1, <3>2
  <2>5. Promise!Land
    BY <2>4, <1>1, <1>2, <1>6 DEF Promise!Land, Promise!NoTarget, NoTarget
  <2> QED
    BY <2>5 DEF Promise!Next
<1> QED
  BY <1>4, <1>5, <1>6

\* Whatever is done to the file and to its reader is what a recording promises, or
\* changes nothing of it.
LEMMA StepsPromised == IInv /\ ~OverwriteOpen /\ [Next]_vars => [Promise!Next]_Promise!vars
<1> SUFFICES ASSUME IInv, ~OverwriteOpen, [Next]_vars PROVE [Promise!Next]_Promise!vars
  OBVIOUS
<1>1. CASE CreateFile \/ CreateFileRefused \/ FinalizeFile \/ \E t \in Times : WritePacket(t)
  BY <1>1, WritesPromised
<1>2. CASE OpenFile \/ OpenFileRefused \/ CloseFile \/ Crash
  BY <1>2, OpensPromised
<1>3. CASE ReadNext
  BY <1>3, ReadPromised
<1>4. CASE SeekStep
  BY <1>4, StepPromised
<1>5. CASE \E t \in Targets : SeekTo(t)
  BY <1>5, SeekPromised
<1>6. CASE UNCHANGED vars
  <2>1. UNCHANGED readVars /\ UNCHANGED <<file, log, sealed, intact>>
    BY <1>6 DEF vars, writeVars
  <2> QED
    BY <2>1, ReaderStill DEF Promise!vars
<1> QED
  BY <1>1, <1>2, <1>3, <1>4, <1>5, <1>6 DEF Next

\* The writer and the reader of a file keep what PacketLog promises of a recording: what is
\* read is what was written, in order, and a seek ends at the first packet late enough.
THEOREM FileKeepsPromise == ~OverwriteOpen => (Spec => ImplementsPacketLog)
<1> SUFFICES ASSUME ~OverwriteOpen PROVE Spec => ImplementsPacketLog
  OBVIOUS
<1>1. Init => Promise!Init
  <2> SUFFICES ASSUME Init PROVE Promise!Init
    OBVIOUS
  <2>1. ~reader.open
    BY NoReaderType DEF Init
  <2>2. Position = 0
    BY <2>1 DEF Position
  <2> QED
    BY <2>1, <2>2 DEF Init, Promise!Init, Promise!NoTarget, NoTarget
<1>2. IInv /\ [Next]_vars => [Promise!Next]_Promise!vars
  BY StepsPromised
<1>3. Spec => []IInv
  BY FileFits
<1> QED
  BY <1>1, <1>2, <1>3, PTL DEF Spec, ImplementsPacketLog, Promise!Spec

-----------------------------------------------------------------------------
(***************************************************************************)
(* Sums over finite sets, and what FoldSet makes of them.                  *)
(***************************************************************************)

\* The element that a fold takes out first, and what a fold that adds g does to every
\* subset of S.
One(s) == CHOOSE x \in s : TRUE
IsSum(g, S, f) == f = [s \in SUBSET S |-> IF s = {} THEN 0 ELSE f[s \ {One(s)}] + g[One(s)]]
SumOf(g, S) == (CHOOSE f : IsSum(g, S, f))[S]

\* The element is one of the set.
LEMMA OneIn == ASSUME NEW s, s # {} PROVE One(s) \in s
BY DEF One

\* What holds of the empty set, and of every set when it holds of the set without any one
\* of its elements, holds of every finite set.
LEMMA SetInduction ==
  ASSUME NEW S, IsFiniteSet(S), NEW Good \in SUBSET SUBSET S, {} \in Good,
         \A s \in SUBSET S : s # {} /\ (\A x \in s : s \ {x} \in Good) => s \in Good
  PROVE  SUBSET S \subseteq Good
<1> DEFINE Bad == {k \in Nat : \E s \in SUBSET S : s \notin Good /\ Cardinality(s) = k}
<1> SUFFICES ASSUME NEW t \in SUBSET S, t \notin Good PROVE FALSE
  OBVIOUS
<1>1. \A s \in SUBSET S : IsFiniteSet(s) /\ Cardinality(s) \in Nat
  BY FS_Subset, FS_CardinalityType
<1>2. Cardinality(t) \in Bad /\ Bad \in SUBSET Nat
  BY <1>1
<1>3. PICK m \in Bad : \A k \in Bad : m <= k
  BY <1>2, Least
<1>4. PICK s \in SUBSET S : s \notin Good /\ Cardinality(s) = m
  BY <1>3
<1>5. ASSUME NEW x \in s PROVE s \ {x} \in Good
  <2>1. s \ {x} \in SUBSET S
    OBVIOUS
  <2>2. Cardinality(s \ {x}) = m - 1 /\ Cardinality(s \ {x}) \in Nat /\ m \in Nat
    BY <1>1, <1>3, <1>4, <2>1, FS_RemoveElement
  <2>3. ~(m <= Cardinality(s \ {x}))
    BY <2>2
  <2> QED
    BY <2>1, <2>2, <2>3, <1>3
<1> QED
  BY <1>4, <1>5

\* There is such a function.
LEMMA SumExists == ASSUME NEW g, NEW S, IsFiniteSet(S) PROVE \E f : IsSum(g, S, f)
<1> DEFINE Level(k) == {s \in SUBSET S : Cardinality(s) <= k}
           Part(f, k) == f = [s \in Level(k) |-> IF s = {} THEN 0 ELSE f[s \ {One(s)}] + g[One(s)]]
           Bad == {k \in Nat : \A f : ~Part(f, k)}
<1>1. \A s \in SUBSET S : IsFiniteSet(s) /\ Cardinality(s) \in Nat /\ Cardinality(s) <= Cardinality(S)
  BY FS_Subset, FS_CardinalityType
<1>2. Bad = {}
  <2> SUFFICES ASSUME Bad # {} PROVE FALSE
    OBVIOUS
  <2>1. PICK m \in Bad : \A k \in Bad : m <= k
    <3>1. Bad \in SUBSET Nat
      OBVIOUS
    <3> HIDE DEF Bad
    <3> QED
      BY <3>1, Least
  <2>2. CASE m = 0
    <3> DEFINE f == [s \in Level(0) |-> 0]
    <3>1. \A s \in Level(0) : s = {}
      <4> TAKE s \in Level(0)
      <4>1. IsFiniteSet(s) /\ Cardinality(s) = 0
        BY <1>1
      <4> QED
        BY <4>1, FS_EmptySet
    <3>2. Part(f, 0)
      BY <3>1
    <3> QED
      BY <2>1, <2>2, <3>2
  <2>3. CASE m # 0
    <3>1. m \in Nat /\ m - 1 \in Nat /\ m - 1 < m
      BY <2>1, <2>3
    <3>2. m - 1 \notin Bad
      <4> HIDE DEF Bad
      <4>1. ~(m <= m - 1)
        BY <3>1
      <4> QED
        BY <2>1, <4>1
    <3>3. PICK f : Part(f, m - 1)
      BY <3>1, <3>2
    <3> DEFINE h == [s \in Level(m) |-> IF s = {} THEN 0 ELSE f[s \ {One(s)}] + g[One(s)]]
    <3>4. ASSUME NEW s \in Level(m), s # {} PROVE h[s \ {One(s)}] = f[s \ {One(s)}]
      <4> DEFINE t == s \ {One(s)}
      <4>1. t \in SUBSET S /\ Cardinality(t) = Cardinality(s) - 1
        BY <1>1, <3>4, OneIn, FS_RemoveElement
      <4>2. Cardinality(s) \in Nat /\ Cardinality(s) <= m
        BY <1>1
      <4>3. t \in Level(m - 1) /\ t \in Level(m)
        BY <4>1, <4>2, <3>1, <1>1
      <4> HIDE DEF t
      <4>4. f[t] = IF t = {} THEN 0 ELSE f[t \ {One(t)}] + g[One(t)]
        BY <4>3, <3>3
      <4>5. h[t] = IF t = {} THEN 0 ELSE f[t \ {One(t)}] + g[One(t)]
        BY <4>3
      <4> QED
        BY <4>4, <4>5 DEF t
    <3>5. Part(h, m)
      <4> DEFINE e(s) == IF s = {} THEN 0 ELSE f[s \ {One(s)}] + g[One(s)]
                 d(s) == IF s = {} THEN 0 ELSE h[s \ {One(s)}] + g[One(s)]
      <4>1. \A s \in Level(m) : e(s) = d(s)
        BY <3>4
      <4>2. h = [s \in Level(m) |-> e(s)]
        OBVIOUS
      <4> HIDE DEF e
      <4>3. [s \in Level(m) |-> e(s)] = [s \in Level(m) |-> d(s)]
        BY <4>1
      <4> QED
        BY <4>2, <4>3
    <3> QED
      BY <2>1, <3>5
  <2> QED
    BY <2>2, <2>3
<1>3. Cardinality(S) \in Nat /\ Level(Cardinality(S)) = SUBSET S
  BY <1>1, FS_CardinalityType
<1>4. PICK f : Part(f, Cardinality(S))
  <2>1. Cardinality(S) \notin Bad
    BY <1>2
  <2> HIDE DEF Part
  <2> QED
    BY <2>1, <1>3
<1>5. IsSum(g, S, f)
  BY <1>3, <1>4 DEF IsSum
<1> QED
  BY <1>5

\* Two such functions agree where what they add agrees.
LEMMA SumsAgree ==
  ASSUME NEW S, IsFiniteSet(S), NEW g, NEW h, NEW T, NEW f, NEW k, IsSum(g, S, f), IsSum(h, T, k),
         S \subseteq T, \A x \in S : g[x] = h[x]
  PROVE  f[S] = k[S]
<1> DEFINE Good == {s \in SUBSET S : f[s] = k[s]}
<1>1. \A s \in SUBSET S : /\ f[s] = IF s = {} THEN 0 ELSE f[s \ {One(s)}] + g[One(s)]
                          /\ k[s] = IF s = {} THEN 0 ELSE k[s \ {One(s)}] + h[One(s)]
  BY DEF IsSum
<1>2. {} \in Good
  BY <1>1
<1>3. ASSUME NEW s \in SUBSET S, s # {}, \A x \in s : s \ {x} \in Good PROVE s \in Good
  <2>1. One(s) \in s /\ One(s) \in S
    BY <1>3, OneIn
  <2>2. f[s \ {One(s)}] = k[s \ {One(s)}]
    BY <2>1, <1>3
  <2>3. f[s] = f[s \ {One(s)}] + g[One(s)] /\ k[s] = k[s \ {One(s)}] + h[One(s)]
    BY <1>1, <1>3
  <2> QED
    BY <2>1, <2>2, <2>3
<1>4. Good \in SUBSET SUBSET S
  OBVIOUS
<1> HIDE DEF Good
<1>5. SUBSET S \subseteq Good
  BY <1>2, <1>3, <1>4, SetInduction
<1> QED
  BY <1>5 DEF Good

\* So the sum does not depend on the rest.
LEMMA SumIs ==
  ASSUME NEW S, IsFiniteSet(S), NEW g, NEW h, NEW T, NEW k, IsSum(h, T, k), S \subseteq T, \A x \in S : g[x] = h[x]
  PROVE  SumOf(g, S) = k[S]
<1> DEFINE f == CHOOSE q : IsSum(g, S, q)
<1>1. IsSum(g, S, f)
  BY SumExists
<1>2. SumOf(g, S) = f[S]
  BY DEF SumOf
<1> HIDE DEF f
<1> QED
  BY <1>1, <1>2, SumsAgree

\* Where what is added agrees the sums do.
LEMMA SumSame ==
  ASSUME NEW S, IsFiniteSet(S), NEW g, NEW h, \A x \in S : g[x] = h[x]
  PROVE  SumOf(g, S) = SumOf(h, S)
<1>1. PICK k : IsSum(h, S, k)
  BY SumExists
<1>2. SumOf(g, S) = k[S] /\ SumOf(h, S) = k[S]
  BY <1>1, SumIs
<1> QED
  BY <1>2

\* The empty sum, and the first element taken out.
LEMMA SumFirst ==
  ASSUME NEW S, IsFiniteSet(S), NEW g
  PROVE  SumOf(g, S) = IF S = {} THEN 0 ELSE SumOf(g, S \ {One(S)}) + g[One(S)]
<1>1. PICK k : IsSum(g, S, k)
  BY SumExists
<1>2. SumOf(g, S) = k[S]
  BY <1>1, SumIs
<1>3. SumOf(g, S \ {One(S)}) = k[S \ {One(S)}]
  <2>1. IsFiniteSet(S \ {One(S)}) /\ S \ {One(S)} \subseteq S
    BY FS_RemoveElement
  <2> QED
    BY <1>1, <2>1, SumIs
<1>4. k[S] = IF S = {} THEN 0 ELSE k[S \ {One(S)}] + g[One(S)]
  BY <1>1 DEF IsSum
<1> QED
  BY <1>2, <1>3, <1>4

\* A sum of numbers is a number.
LEMMA SumNat ==
  ASSUME NEW S, IsFiniteSet(S), NEW g, \A x \in S : g[x] \in Nat
  PROVE  SumOf(g, S) \in Nat
<1> DEFINE Good == {s \in SUBSET S : SumOf(g, s) \in Nat}
<1>1. \A s \in SUBSET S : IsFiniteSet(s)
  BY FS_Subset
<1>2. {} \in Good
  BY <1>1, SumFirst
<1>3. ASSUME NEW s \in SUBSET S, s # {}, \A x \in s : s \ {x} \in Good PROVE s \in Good
  <2>1. One(s) \in s
    BY <1>3, OneIn
  <2>2. SumOf(g, s \ {One(s)}) \in Nat /\ g[One(s)] \in Nat
    BY <2>1, <1>3
  <2>3. SumOf(g, s) = SumOf(g, s \ {One(s)}) + g[One(s)]
    BY <1>1, <1>3, SumFirst
  <2> QED
    BY <2>2, <2>3
<1>4. Good \in SUBSET SUBSET S
  OBVIOUS
<1> HIDE DEF Good
<1>5. SUBSET S \subseteq Good
  BY <1>2, <1>3, <1>4, SetInduction
<1> QED
  BY <1>5 DEF Good

\* Any element may be taken out.
LEMMA SumOut ==
  ASSUME NEW S, IsFiniteSet(S), NEW g, \A x \in S : g[x] \in Nat, NEW y \in S
  PROVE  SumOf(g, S) = SumOf(g, S \ {y}) + g[y]
<1> DEFINE Good == {s \in SUBSET S : \A x \in s : SumOf(g, s) = SumOf(g, s \ {x}) + g[x]}
<1>1. \A s \in SUBSET S : IsFiniteSet(s) /\ SumOf(g, s) \in Nat
  BY FS_Subset, SumNat
<1>2. {} \in Good
  OBVIOUS
<1>3. ASSUME NEW s \in SUBSET S, s # {}, \A x \in s : s \ {x} \in Good PROVE s \in Good
  <2> DEFINE o == One(s)
  <2> SUFFICES ASSUME NEW x \in s PROVE SumOf(g, s) = SumOf(g, s \ {x}) + g[x]
    OBVIOUS
  <2>1. o \in s
    BY <1>3, OneIn
  <2>2. SumOf(g, s) = SumOf(g, s \ {o}) + g[o]
    BY <1>1, <1>3, SumFirst
  <2> HIDE DEF o
  <2>3. CASE x = o
    BY <2>2, <2>3
  <2>4. CASE x # o
    <3> DEFINE t == (s \ {o}) \ {x}
    <3>1. t = (s \ {x}) \ {o} /\ o \in s \ {x} /\ x \in s \ {o}
      BY <2>1, <2>4
    <3>2. s \ {o} \in Good /\ s \ {x} \in Good
      BY <2>1, <1>3
    <3>3. SumOf(g, s \ {o}) = SumOf(g, t) + g[x]
      BY <3>1, <3>2
    <3>4. SumOf(g, s \ {x}) = SumOf(g, t) + g[o]
      BY <3>1, <3>2
    <3>5. SumOf(g, t) \in Nat /\ g[x] \in Nat /\ g[o] \in Nat
      BY <1>1, <2>1
    <3> HIDE DEF t
    <3> QED
      BY <2>2, <3>3, <3>4, <3>5
  <2> QED
    BY <2>3, <2>4
<1>4. Good \in SUBSET SUBSET S
  OBVIOUS
<1> HIDE DEF Good
<1>5. SUBSET S \subseteq Good
  BY <1>2, <1>3, <1>4, SetInduction
<1>6. S \in Good
  BY <1>5
<1> QED
  BY <1>6 DEF Good

\* A sum of sums.
LEMMA SumPlus ==
  ASSUME NEW S, IsFiniteSet(S), NEW f, NEW g, NEW h,
         \A x \in S : f[x] \in Nat /\ g[x] \in Nat /\ h[x] = f[x] + g[x]
  PROVE  SumOf(h, S) = SumOf(f, S) + SumOf(g, S)
<1> DEFINE Good == {s \in SUBSET S : SumOf(h, s) = SumOf(f, s) + SumOf(g, s)}
<1>1. \A s \in SUBSET S : IsFiniteSet(s) /\ SumOf(f, s) \in Nat /\ SumOf(g, s) \in Nat
  BY FS_Subset, SumNat
<1>2. {} \in Good
  <2>1. IsFiniteSet({})
    BY FS_EmptySet
  <2>2. SumOf(h, {}) = 0 /\ SumOf(f, {}) = 0 /\ SumOf(g, {}) = 0
    BY <2>1, SumFirst
  <2> QED
    BY <2>2
<1>3. ASSUME NEW s \in SUBSET S, s # {}, \A x \in s : s \ {x} \in Good PROVE s \in Good
  <2> DEFINE o == One(s)
             t == s \ {o}
  <2>1. o \in s
    BY <1>3, OneIn
  <2>2. SumOf(h, s) = SumOf(h, t) + h[o] /\ SumOf(f, s) = SumOf(f, t) + f[o] /\ SumOf(g, s) = SumOf(g, t) + g[o]
    BY <1>1, <1>3, SumFirst
  <2>3. SumOf(h, t) = SumOf(f, t) + SumOf(g, t)
    BY <2>1, <1>3
  <2>4. SumOf(f, t) \in Nat /\ SumOf(g, t) \in Nat /\ f[o] \in Nat /\ g[o] \in Nat /\ h[o] = f[o] + g[o]
    BY <2>1, <1>1
  <2> HIDE DEF t, o
  <2>5. SumOf(h, s) = SumOf(f, s) + SumOf(g, s)
    BY <2>2, <2>3, <2>4
  <2> QED
    BY <2>5
<1>4. Good \in SUBSET SUBSET S
  OBVIOUS
<1> HIDE DEF Good
<1>5. SUBSET S \subseteq Good
  BY <1>2, <1>3, <1>4, SetInduction
<1>6. S \in Good
  BY <1>5
<1> QED
  BY <1>6 DEF Good

\* Elements that add nothing may be left out.
LEMMA SumSupport ==
  ASSUME NEW S, IsFiniteSet(S), NEW g, \A x \in S : g[x] \in Nat, NEW T \in SUBSET S, \A x \in S \ T : g[x] = 0
  PROVE  SumOf(g, S) = SumOf(g, T)
<1> DEFINE Good == {s \in SUBSET S : SumOf(g, s) = SumOf(g, s \cap T)}
<1>1. \A s \in SUBSET S : /\ IsFiniteSet(s) /\ SumOf(g, s) \in Nat
                          /\ \A x \in s : SumOf(g, s) = SumOf(g, s \ {x}) + g[x]
  BY FS_Subset, SumNat, SumOut
<1>2. {} \in Good
  <2>1. {} \cap T = {}
    OBVIOUS
  <2> QED
    BY <2>1
<1>3. ASSUME NEW s \in SUBSET S, s # {}, \A x \in s : s \ {x} \in Good PROVE s \in Good
  <2>1. PICK x \in s : TRUE
    BY <1>3
  <2>2. SumOf(g, s) = SumOf(g, s \ {x}) + g[x]
    BY <1>1
  <2>3. SumOf(g, s \ {x}) = SumOf(g, (s \ {x}) \cap T)
    BY <1>3
  <2>4. CASE x \in T
    <3>1. s \cap T \in SUBSET S /\ x \in s \cap T /\ (s \cap T) \ {x} = (s \ {x}) \cap T
      BY <2>4
    <3>2. SumOf(g, s \cap T) = SumOf(g, (s \ {x}) \cap T) + g[x]
      BY <3>1, <1>1
    <3> QED
      BY <2>2, <2>3, <3>2
  <2>5. CASE x \notin T
    <3>1. (s \ {x}) \cap T = s \cap T /\ g[x] = 0 /\ s \ {x} \in SUBSET S
      BY <2>5
    <3>2. SumOf(g, s \ {x}) \in Nat
      BY <3>1, <1>1
    <3>3. SumOf(g, s) = SumOf(g, s \ {x})
      BY <2>2, <3>1, <3>2
    <3>4. SumOf(g, s \ {x}) = SumOf(g, s \cap T)
      BY <2>3, <3>1
    <3> QED
      BY <3>3, <3>4
  <2> QED
    BY <2>4, <2>5
<1>4. Good \in SUBSET SUBSET S
  OBVIOUS
<1>5. SUBSET S \subseteq Good
  <2> HIDE DEF Good
  <2> QED
    BY <1>2, <1>3, <1>4, SetInduction
<1>6. S \in Good
  BY <1>5
<1>7. S \cap T = T
  OBVIOUS
<1> QED
  BY <1>6, <1>7

\* A sum over numbers from one on, one number more.
LEMMA SumNext ==
  ASSUME NEW n \in Nat, NEW g, \A x \in 1..n + 1 : g[x] \in Nat
  PROVE  SumOf(g, 1..n + 1) = SumOf(g, 1..n) + g[n + 1]
<1>1. IsFiniteSet(1..n + 1) /\ n + 1 \in 1..n + 1 /\ (1..n + 1) \ {n + 1} = 1..n
  BY FS_Interval
<1> QED
  BY <1>1, SumOut

\* What holds of the sum over no number, and goes on from each number to the next, holds up to n.
LEMMA Counting ==
  ASSUME NEW n \in Nat, NEW Good \in SUBSET (0..n), 0 \in Good, \A k \in 0..n - 1 : k \in Good => k + 1 \in Good
  PROVE  n \in Good
<1> DEFINE Bad == 0..n \ Good
<1> SUFFICES ASSUME n \in Bad PROVE FALSE
  OBVIOUS
<1>1. Bad \in SUBSET Nat /\ Bad # {} /\ 0 \notin Bad
  OBVIOUS
<1>2. PICK m \in Bad : \A k \in Bad : m <= k
  <2> HIDE DEF Bad
  <2> QED
    BY <1>1, Least
<1>3. m \in 1..n
  BY <1>1, <1>2
<1>4. m - 1 \in 0..n - 1 /\ ~(m <= m - 1) /\ (m - 1) + 1 = m
  BY <1>3
<1>5. m - 1 \in Good
  BY <1>2, <1>4
<1> QED
  BY <1>2, <1>4, <1>5

\* The rows of a table of n rows, and its columns, with what each of them adds up to.
Table(n, R, w, rows, v, columns) ==
  /\ n \in Nat /\ IsFiniteSet(R)
  /\ \A i \in 1..n : \A b \in R : w[i][b] \in Nat /\ v[b][i] = w[i][b]
  /\ \A i \in 1..n : rows[i] = SumOf(w[i], R)
  /\ \A b \in R : columns[b] = SumOf(v[b], 1..n)

\* Sums may be taken row by row or column by column.
LEMMA SumSwap ==
  ASSUME NEW n, NEW R, NEW w, NEW rows, NEW v, NEW columns, Table(n, R, w, rows, v, columns)
  PROVE  SumOf(columns, R) = SumOf(rows, 1..n)
<1>0. /\ n \in Nat /\ IsFiniteSet(R)
      /\ \A i \in 1..n : \A b \in R : w[i][b] \in Nat /\ v[b][i] = w[i][b]
      /\ \A i \in 1..n : rows[i] = SumOf(w[i], R)
      /\ \A b \in R : columns[b] = SumOf(v[b], 1..n)
  BY DEF Table
<1> USE <1>0
<1> DEFINE upTo(k) == [b \in R |-> SumOf(v[b], 1..k)]
           Good == {k \in 0..n : SumOf(upTo(k), R) = SumOf(rows, 1..k)}
<1>1. ASSUME NEW k \in 0..n, NEW b \in R PROVE upTo(k)[b] = SumOf(v[b], 1..k) /\ upTo(k)[b] \in Nat
  <2>0. k \in Int /\ 1..k \subseteq 1..n
    OBVIOUS
  <2>1. IsFiniteSet(1..k) /\ \A i \in 1..k : v[b][i] \in Nat
    <3>1. IsFiniteSet(1..k)
      BY <2>0, FS_Interval
    <3>2. \A i \in 1..k : v[b][i] = w[i][b] /\ w[i][b] \in Nat
      BY <2>0
    <3> QED
      BY <3>1, <3>2
  <2>2. upTo(k)[b] = SumOf(v[b], 1..k)
    OBVIOUS
  <2> HIDE DEF upTo
  <2> QED
    BY <2>1, <2>2, SumNat
<1>2. ASSUME NEW i \in 1..n PROVE rows[i] \in Nat
  BY SumNat
<1>3. 0 \in Good
  <2>1. 1..0 = {} /\ IsFiniteSet({}) /\ 0 \in 0..n
    BY FS_EmptySet
  <2>2. \A b \in R : upTo(0)[b] = 0
    <3> TAKE b \in R
    <3>1. upTo(0)[b] = SumOf(v[b], {})
      BY <2>1
    <3> HIDE DEF upTo
    <3> QED
      BY <3>1, <2>1, SumFirst
  <2> HIDE DEF upTo
  <2>3. \A x \in R : upTo(0)[x] \in Nat
    BY <2>2
  <2>4. SumOf(upTo(0), R) = SumOf(upTo(0), {})
    BY <2>2, <2>3, SumSupport
  <2>5. SumOf(upTo(0), {}) = 0 /\ SumOf(rows, 1..0) = 0
    BY <2>1, SumFirst
  <2> QED
    BY <2>1, <2>4, <2>5
<1>4. ASSUME NEW k \in 0..n - 1, k \in Good PROVE k + 1 \in Good
  <2>1. k \in Nat /\ k + 1 \in 0..n /\ k \in 0..n /\ k + 1 \in 1..n
    OBVIOUS
  <2>2. \A b \in R : upTo(k + 1)[b] = upTo(k)[b] + w[k + 1][b] /\ upTo(k)[b] \in Nat /\ w[k + 1][b] \in Nat
    <3> TAKE b \in R
    <3>1. \A i \in 1..k + 1 : v[b][i] = w[i][b] /\ v[b][i] \in Nat
      BY <2>1
    <3>2. k + 1 \in 1..k + 1
      BY <2>1
    <3>3. SumOf(v[b], 1..k + 1) = SumOf(v[b], 1..k) + v[b][k + 1]
      BY <3>1, <2>1, SumNext
    <3>4. upTo(k + 1)[b] = SumOf(v[b], 1..k + 1) /\ upTo(k)[b] = SumOf(v[b], 1..k) /\ upTo(k)[b] \in Nat
      BY <2>1, <1>1
    <3> QED
      BY <3>1, <3>2, <3>3, <3>4
  <2> HIDE DEF upTo
  <2>3. SumOf(upTo(k + 1), R) = SumOf(upTo(k), R) + SumOf(w[k + 1], R)
    <3> DEFINE before == upTo(k)
               after == upTo(k + 1)
               next == w[k + 1]
    <3>1. \A b \in R : before[b] \in Nat /\ next[b] \in Nat /\ after[b] = before[b] + next[b]
      BY <2>2
    <3> HIDE DEF before, after, next
    <3>2. SumOf(after, R) = SumOf(before, R) + SumOf(next, R)
      BY <3>1, SumPlus
    <3> QED
      BY <3>2 DEF before, after, next
  <2>4. \A i \in 1..k + 1 : rows[i] \in Nat
    BY <2>1, <1>2
  <2>5. SumOf(rows, 1..k + 1) = SumOf(rows, 1..k) + rows[k + 1]
    BY <2>1, <2>4, SumNext
  <2>6. SumOf(upTo(k), R) = SumOf(rows, 1..k) /\ rows[k + 1] = SumOf(w[k + 1], R)
    BY <1>4, <2>1
  <2> QED
    BY <2>1, <2>3, <2>5, <2>6
<1>5. Good \in SUBSET (0..n)
  OBVIOUS
<1>6. n \in Good
  <2> HIDE DEF Good
  <2> QED
    BY <1>3, <1>4, <1>5, Counting
<1>7. \A b \in R : columns[b] = upTo(n)[b]
  OBVIOUS
<1> HIDE DEF upTo
<1>8. SumOf(columns, R) = SumOf(upTo(n), R)
  BY <1>7, SumSame
<1> QED
  BY <1>6, <1>8

\* A quotient of numbers is a number, and so is what is left.
LEMMA Quotients ==
  \A d \in Nat \ {0} : \A m \in Nat : m \div d \in Nat /\ m % d \in Nat /\ m % d < d /\ m = d * (m \div d) + (m % d)
<1>1. \A d \in Nat \ {0} : \A m \in Nat : m \div d \in Nat
  OBVIOUS
<1>2. \A d \in Nat \ {0} : \A m \in Nat : m % d \in Nat /\ m % d < d
  OBVIOUS
<1>3. \A d \in Nat \ {0} : \A m \in Nat : m = d * (m \div d) + (m % d)
  OBVIOUS
<1> QED
  BY <1>1, <1>2, <1>3

\* Packets spread evenly over slices, the rest of the division first, stay as many.
LEMMA SpreadEvenly ==
  ASSUME NEW n \in Nat, NEW lo \in Nat, NEW hi \in Nat, lo <= hi, NEW g,
         \A b \in lo..hi : g[b] = (n \div (hi - lo + 1)) + (IF b - lo < n % (hi - lo + 1) THEN 1 ELSE 0)
  PROVE  SumOf(g, lo..hi) = n
<1> DEFINE size == hi - lo + 1
           q == n \div size
           r == n % size
           Good == {k \in 0..size : SumOf(g, lo..lo + k - 1) = k * q + (IF k < r THEN k ELSE r)}
<1>1. size \in Nat \ {0}
  OBVIOUS
<1>2. q \in Nat /\ r \in Nat /\ r < size /\ n = size * q + r
  <2> HIDE DEF size
  <2> QED
    BY <1>1, Quotients
<1>3. \A b \in lo..hi : g[b] = q + (IF b - lo < r THEN 1 ELSE 0)
  OBVIOUS
<1>4. hi = lo + size - 1
  OBVIOUS
<1> HIDE DEF size, q, r
<1>5. \A b \in lo..hi : g[b] \in Nat
  BY <1>2, <1>3
<1>6. 0 \in Good
  <2>1. lo..lo + 0 - 1 = {} /\ IsFiniteSet({}) /\ 0 \in 0..size
    BY <1>1, FS_EmptySet
  <2>2. SumOf(g, {}) = 0
    BY <2>1, SumFirst
  <2>3. 0 * q + (IF 0 < r THEN 0 ELSE r) = 0
    BY <1>2
  <2> QED
    BY <2>1, <2>2, <2>3
<1>7. ASSUME NEW k \in 0..size - 1, k \in Good PROVE k + 1 \in Good
  <2> DEFINE S == lo..lo + (k + 1) - 1
  <2>1. k \in Nat /\ k + 1 \in 0..size /\ lo + k \in lo..hi
    BY <1>1, <1>4
  <2>2. lo + k \in S /\ S \ {lo + k} = lo..lo + k - 1 /\ S \subseteq lo..hi
    BY <1>1, <1>4, <2>1
  <2>3. IsFiniteSet(S)
    BY <2>1, FS_Interval
  <2> HIDE DEF S
  <2>4. SumOf(g, S) = SumOf(g, lo..lo + k - 1) + g[lo + k]
    <3>1. \A x \in S : g[x] \in Nat
      BY <2>2, <1>5
    <3>2. SumOf(g, S) = SumOf(g, S \ {lo + k}) + g[lo + k]
      BY <3>1, <2>2, <2>3, SumOut
    <3> QED
      BY <3>2, <2>2
  <2>5. g[lo + k] = q + (IF k < r THEN 1 ELSE 0)
    <3>1. (lo + k) - lo = k
      BY <2>1
    <3> QED
      BY <3>1, <2>1, <1>3
  <2>6. SumOf(g, lo..lo + k - 1) = k * q + (IF k < r THEN k ELSE r)
    BY <1>7
  <2>7. k * q \in Nat /\ (k + 1) * q = k * q + q
    BY <2>1, <1>2
  <2>8. k * q + (IF k < r THEN k ELSE r) + (q + (IF k < r THEN 1 ELSE 0)) = (k + 1) * q + (IF k + 1 < r THEN k + 1 ELSE r)
    <3> DEFINE p == k * q
               s == (k + 1) * q
    <3>1. p \in Nat /\ s = p + q
      BY <2>7
    <3> HIDE DEF p, s
    <3>2. p + (IF k < r THEN k ELSE r) + (q + (IF k < r THEN 1 ELSE 0)) = s + (IF k + 1 < r THEN k + 1 ELSE r)
      BY <3>1, <2>1, <1>2
    <3> QED
      BY <3>2 DEF p, s
  <2>9. SumOf(g, S) = (k + 1) * q + (IF k + 1 < r THEN k + 1 ELSE r)
    BY <2>4, <2>5, <2>6, <2>8
  <2> QED
    BY <2>1, <2>9 DEF S
<1>8. Good \in SUBSET (0..size)
  OBVIOUS
<1>9. size \in Good
  <2> HIDE DEF Good
  <2> QED
    BY <1>1, <1>6, <1>7, <1>8, Counting
<1>10. SumOf(g, lo..lo + size - 1) = size * q + r
  BY <1>2, <1>9
<1> QED
  BY <1>2, <1>4, <1>10

-----------------------------------------------------------------------------
(***************************************************************************)
(* The density of a file.                                                  *)
(***************************************************************************)

\* The packets of each chunk.
Sizes(counts) == [i \in 1..Len(counts) |-> counts[i].n]

\* What chunk i adds to slice b of those it covers.
Share(counts, i, duration, b) ==
  LET span == Covered(counts, i, duration)
      size == Cardinality(span)
  IN (counts[i].n \div size) + (IF b - Min(span) < counts[i].n % size THEN 1 ELSE 0)

\* Those slices are some in a row, at least one.
LEMMA CoveredIs ==
  ASSUME NEW counts, Len(counts) \in Nat, \A i \in 1..Len(counts) : counts[i].t \in Nat,
         NEW duration \in Nat \ {0}, NEW i \in 1..Len(counts)
  PROVE  \E lo, hi \in 0..Buckets - 1 : lo <= hi /\ Covered(counts, i, duration) = lo..hi
<1> DEFINE begin == Min({counts[i].t, duration})
           until == Min({IF i < Len(counts) THEN counts[i + 1].t ELSE duration, duration})
           Slice(t) == Min({Buckets - 1, (t * Buckets) \div duration})
           end == IF until > begin THEN until - 1 ELSE begin
<1>1. Buckets \in Nat \ {0}
  BY RpcapAssumption
<1>2. \A x, y \in Nat : Min({x, y}) \in Nat /\ Min({x, y}) <= x
  <2> TAKE x, y \in Nat
  <2>1. {x, y} \in SUBSET Nat /\ {x, y} # {}
    OBVIOUS
  <2>2. Min({x, y}) \in {x, y} /\ \A k \in {x, y} : Min({x, y}) <= k
    BY <2>1, MinIsLeast
  <2> QED
    BY <2>2
<1>3. begin \in Nat
  BY <1>2
<1>4. until \in Nat
  <2>1. i + 1 \in 1..Len(counts) \/ ~(i < Len(counts))
    OBVIOUS
  <2>2. (IF i < Len(counts) THEN counts[i + 1].t ELSE duration) \in Nat
    BY <2>1
  <2> QED
    BY <2>2, <1>2
<1> HIDE DEF begin, until
<1>5. end \in Nat
  BY <1>3, <1>4
<1>6. \A t \in Nat : Slice(t) \in 0..Buckets - 1
  <2> TAKE t \in Nat
  <2>1. t * Buckets \in Nat /\ Buckets - 1 \in Nat
    BY <1>1
  <2>2. (t * Buckets) \div duration \in Nat
    <3> DEFINE x == t * Buckets
    <3>1. x \in Nat
      BY <2>1
    <3> HIDE DEF x
    <3>2. x \div duration \in Nat
      BY <3>1, Quotients
    <3> QED
      BY <3>2 DEF x
  <2>3. (t * Buckets) \div duration \in Nat /\ Buckets - 1 \in Nat
    BY <2>1, <2>2
  <2>4. Slice(t) \in Nat /\ Slice(t) <= Buckets - 1
    BY <2>3, <1>2
  <2> HIDE DEF Slice
  <2> QED
    BY <2>4, <1>1
<1> HIDE DEF end, Slice
<1> DEFINE lo == Slice(begin)
           late == Slice(end)
           hi == Max({lo, late})
<1>7. lo \in 0..Buckets - 1 /\ late \in 0..Buckets - 1
  BY <1>3, <1>5, <1>6
<1> HIDE DEF lo, late
<1>8. hi \in {lo, late} /\ lo <= hi
  <2> DEFINE most == IF lo <= late THEN late ELSE lo
  <2>1. lo \in Nat /\ late \in Nat
    BY <1>7
  <2>2. most \in {lo, late} /\ \A y \in {lo, late} : most >= y
    BY <2>1
  <2>3. hi \in {lo, late} /\ \A y \in {lo, late} : hi >= y
    <3> HIDE DEF most
    <3> QED
      BY <2>2 DEF Max
  <2> QED
    BY <2>1, <2>3
<1> HIDE DEF hi
<1>9. hi \in 0..Buckets - 1
  BY <1>7, <1>8
<1>10. Covered(counts, i, duration) = lo..hi
  BY DEF Covered, begin, until, Slice, end, lo, late, hi
<1> QED
  BY <1>7, <1>8, <1>9, <1>10

\* Each chunk is spread over the slices that it covers.
LEMMA SharesAddUp ==
  ASSUME NEW counts, Len(counts) \in Nat, \A i \in 1..Len(counts) : counts[i].t \in Nat /\ counts[i].n \in Nat,
         NEW duration \in Nat \ {0}, NEW i \in 1..Len(counts), NEW g,
         \A b \in Covered(counts, i, duration) : g[b] = Share(counts, i, duration, b)
  PROVE  /\ SumOf(g, Covered(counts, i, duration)) = counts[i].n
         /\ \A b \in Covered(counts, i, duration) : Share(counts, i, duration, b) \in Nat
         /\ Covered(counts, i, duration) \subseteq 0..Buckets - 1
<1> DEFINE span == Covered(counts, i, duration)
           n == counts[i].n
<1>1. PICK lo, hi \in 0..Buckets - 1 : lo <= hi /\ span = lo..hi
  BY CoveredIs
<1>2. lo \in Nat /\ hi \in Nat /\ n \in Nat /\ lo..hi \subseteq 0..Buckets - 1
  BY <1>1, RpcapAssumption
<1>3. Cardinality(span) = hi - lo + 1
  <2>1. Cardinality(lo..hi) = IF lo > hi THEN 0 ELSE hi - lo + 1
    <3>1. lo \in Int /\ hi \in Int
      BY <1>2
    <3> HIDE DEF span
    <3> QED
      BY <3>1, FS_Interval
  <2> HIDE DEF span
  <2>2. ~(lo > hi)
    BY <1>1, <1>2
  <2> QED
    BY <2>1, <2>2, <1>1
<1>4. Min(span) = lo
  <2> HIDE DEF span
  <2>a. lo <= hi
    BY <1>1
  <2>b. lo..hi \in SUBSET Nat
    BY <1>2
  <2>1. lo \in lo..hi /\ \A k \in lo..hi : lo <= k
    BY <2>a, <1>2
  <2>2. Min(lo..hi) \in lo..hi /\ \A k \in lo..hi : Min(lo..hi) <= k
    BY <2>b, <2>1, MinIsLeast
  <2>3. Min(lo..hi) <= lo /\ lo <= Min(lo..hi) /\ Min(lo..hi) \in Nat
    BY <2>1, <2>2
  <2>4. Min(lo..hi) = lo
    BY <2>3, <1>2
  <2> QED
    BY <2>4, <1>1
<1> HIDE DEF n
<1>5. \A b \in lo..hi : g[b] = (n \div (hi - lo + 1)) + (IF b - lo < n % (hi - lo + 1) THEN 1 ELSE 0)
                        /\ Share(counts, i, duration, b) = g[b]
  BY <1>1, <1>3, <1>4 DEF Share, n
<1>6. SumOf(g, lo..hi) = n
  <2>1. \A b \in lo..hi : g[b] = (n \div (hi - lo + 1)) + (IF b - lo < n % (hi - lo + 1) THEN 1 ELSE 0)
    BY <1>5
  <2>2. lo <= hi
    BY <1>1
  <2> QED
    BY <2>1, <2>2, <1>2, SpreadEvenly
<1>7. \A b \in lo..hi : g[b] \in Nat
  <2>2. hi - lo + 1 \in Nat \ {0}
    BY <1>1, <1>2
  <2>3. n \div (hi - lo + 1) \in Nat
    <3> DEFINE d == hi - lo + 1
    <3> HIDE DEF d
    <3>1. n \div d \in Nat
      BY <2>2, <1>2, Quotients DEF d
    <3> QED
      BY <3>1 DEF d
  <2> DEFINE q == n \div (hi - lo + 1)
             r(b) == IF b - lo < n % (hi - lo + 1) THEN 1 ELSE 0
  <2>4. \A b \in lo..hi : g[b] = q + r(b) /\ r(b) \in Nat
    BY <1>5
  <2>5. q \in Nat
    BY <2>3
  <2> HIDE DEF q, r, span
  <2> QED
    BY <2>4, <2>5
<1> QED
  BY <1>1, <1>2, <1>5, <1>6, <1>7 DEF n

\* A slice gets what the chunks that cover it add to it.
LEMMA DensityIs ==
  ASSUME NEW counts, Len(counts) \in Nat, \A i \in 1..Len(counts) : counts[i].t \in Nat /\ counts[i].n \in Nat,
         NEW duration \in Nat \ {0}, NEW b \in 0..Buckets - 1
  PROVE  LET in == {i \in 1..Len(counts) : b \in Covered(counts, i, duration)}
         IN Density(counts, duration)[b] = SumOf([i \in in |-> Share(counts, i, duration, b)], in)
<1> DEFINE in == {i \in 1..Len(counts) : b \in Covered(counts, i, duration)}
           g == [i \in in |-> Share(counts, i, duration, b)]
           more(x, sum) ==
             LET span == Covered(counts, x, duration)
                 size == Cardinality(span)
             IN sum + (counts[x].n \div size) + (IF b - Min(span) < counts[x].n % size THEN 1 ELSE 0)
           Fold(f) == f = [s \in SUBSET in |-> IF s = {} THEN 0 ELSE more(One(s), f[s \ {One(s)}])]
           fold == CHOOSE f : Fold(f)
<1>1. Density(counts, duration)[b] = fold[in]
  BY DEF Density, FoldSet, MapThenFoldSet, One
<1>2. IsFiniteSet(in) /\ in \in SUBSET (1..Len(counts))
  <2>1. IsFiniteSet(1..Len(counts)) /\ in \in SUBSET (1..Len(counts))
    BY FS_Interval
  <2> QED
    BY <2>1, FS_Subset
<1>3. \A x \in in : g[x] = Share(counts, x, duration, b)
  OBVIOUS
<1>4. \A x \in in : /\ counts[x].n \div Cardinality(Covered(counts, x, duration)) \in Nat
                    /\ Share(counts, x, duration, b) \in Nat
  <2> TAKE x \in in
  <2>1. x \in 1..Len(counts) /\ b \in Covered(counts, x, duration)
    OBVIOUS
  <2>2. PICK lo, hi \in 0..Buckets - 1 : lo <= hi /\ Covered(counts, x, duration) = lo..hi
    BY <2>1, CoveredIs
  <2>3. lo \in Nat /\ hi \in Nat /\ hi - lo + 1 \in Nat \ {0} /\ counts[x].n \in Nat
    BY <2>1, <2>2, RpcapAssumption
  <2>4. Cardinality(lo..hi) = hi - lo + 1
    <3>1. lo \in Int /\ hi \in Int
      BY <2>3
    <3>2. Cardinality(lo..hi) = IF lo > hi THEN 0 ELSE hi - lo + 1
      BY <3>1, FS_Interval
    <3>3. ~(lo > hi)
      BY <2>2, <2>3
    <3> QED
      BY <3>2, <3>3
  <2>5. Cardinality(Covered(counts, x, duration)) \in Nat \ {0}
    BY <2>2, <2>3, <2>4
  <2>6. counts[x].n \div Cardinality(Covered(counts, x, duration)) \in Nat
    BY <2>3, <2>5, Quotients
  <2> QED
    BY <2>6 DEF Share
<1>5. PICK k : IsSum(g, in, k)
  BY <1>2, SumExists
<1>6. \A s \in SUBSET in : k[s] \in Nat
  <2> TAKE s \in SUBSET in
  <2>1. IsFiniteSet(s) /\ \A x \in s : g[x] \in Nat
    BY <1>2, <1>3, <1>4, FS_Subset
  <2> HIDE DEF in, g
  <2>2. SumOf(g, s) \in Nat /\ SumOf(g, s) = k[s]
    BY <2>1, <1>5, SumNat, SumIs
  <2> QED
    BY <2>2
<1>7. k = [s \in SUBSET in |-> IF s = {} THEN 0 ELSE k[s \ {One(s)}] + g[One(s)]]
  BY <1>5 DEF IsSum
<1>8. \A x \in in : \A sum \in Nat : more(x, sum) = sum + g[x]
  <2> TAKE x \in in
  <2> TAKE sum \in Nat
  <2> DEFINE q == counts[x].n \div Cardinality(Covered(counts, x, duration))
             r == IF b - Min(Covered(counts, x, duration)) < counts[x].n % Cardinality(Covered(counts, x, duration)) THEN 1 ELSE 0
  <2>1. more(x, sum) = sum + q + r /\ g[x] = q + r
    BY <1>3 DEF Share
  <2>2. q \in Nat /\ r \in Nat
    BY <1>4
  <2> HIDE DEF q, r, more, in, g
  <2> QED
    BY <2>1, <2>2
<1> HIDE DEF more, g, in
<1>9. Fold(k)
  <2> DEFINE e(s) == IF s = {} THEN 0 ELSE k[s \ {One(s)}] + g[One(s)]
             d(s) == IF s = {} THEN 0 ELSE more(One(s), k[s \ {One(s)}])
  <2>1. \A s \in SUBSET in : e(s) = d(s)
    <3> SUFFICES ASSUME NEW s \in SUBSET in, s # {} PROVE k[s \ {One(s)}] + g[One(s)] = more(One(s), k[s \ {One(s)}])
      OBVIOUS
    <3>1. One(s) \in in /\ k[s \ {One(s)}] \in Nat
      BY <1>6, OneIn
    <3> QED
      BY <3>1, <1>8
  <2>2. k = [s \in SUBSET in |-> e(s)]
    BY <1>7
  <2> HIDE DEF e
  <2>3. [s \in SUBSET in |-> e(s)] = [s \in SUBSET in |-> d(s)]
    BY <2>1
  <2> QED
    BY <2>2, <2>3
<1>10. Fold(fold)
  <2> HIDE DEF Fold
  <2> QED
    BY <1>9
<1> HIDE DEF fold
<1>11. \A s \in SUBSET in : fold[s] = IF s = {} THEN 0 ELSE more(One(s), fold[s \ {One(s)}])
  BY <1>10
<1> HIDE DEF Fold
<1> DEFINE Good == {s \in SUBSET in : fold[s] = k[s]}
<1>12. {} \in Good
  BY <1>7, <1>11
<1>13. ASSUME NEW s \in SUBSET in, s # {}, \A x \in s : s \ {x} \in Good PROVE s \in Good
  <2>1. One(s) \in s /\ One(s) \in in
    BY <1>13, OneIn
  <2>2. fold[s \ {One(s)}] = k[s \ {One(s)}] /\ k[s \ {One(s)}] \in Nat
    BY <2>1, <1>6, <1>13
  <2>3. fold[s] = more(One(s), fold[s \ {One(s)}]) /\ k[s] = k[s \ {One(s)}] + g[One(s)]
    BY <1>7, <1>11, <1>13
  <2> QED
    BY <2>1, <2>2, <2>3, <1>8
<1>14. Good \in SUBSET SUBSET in
  OBVIOUS
<1>15. SUBSET in \subseteq Good
  <2> HIDE DEF Good
  <2> QED
    BY <1>2, <1>12, <1>13, <1>14, SetInduction
<1>16. fold[in] = k[in]
  BY <1>15
<1>17. SumOf(g, in) = k[in]
  BY <1>2, <1>5, SumIs
<1> QED
  BY <1>1, <1>16, <1>17 DEF g, in

\* The slices add up to the packets of the chunks.
LEMMA SlicesAddUp ==
  ASSUME NEW counts, Len(counts) \in Nat, \A i \in 1..Len(counts) : counts[i].t \in Nat /\ counts[i].n \in Nat,
         NEW duration \in Nat \ {0}
  PROVE  SumOf(Density(counts, duration), 0..Buckets - 1) = SumOf(Sizes(counts), 1..Len(counts))
<1> DEFINE R == 0..Buckets - 1
           m == Len(counts)
           span(i) == Covered(counts, i, duration)
           row(i) == [b \in R |-> IF b \in span(i) THEN Share(counts, i, duration, b) ELSE 0]
           w == [i \in 1..m |-> row(i)]
           v == [b \in R |-> [i \in 1..m |-> w[i][b]]]
           columns == Density(counts, duration)
           rows == Sizes(counts)
<1>1. IsFiniteSet(R) /\ IsFiniteSet(1..m)
  <2>1. Buckets - 1 \in Int /\ m \in Int
    BY RpcapAssumption
  <2> QED
    BY <2>1, FS_Interval
<1>2. \A i \in 1..m : \A b \in R : w[i][b] = IF b \in span(i) THEN Share(counts, i, duration, b) ELSE 0
  OBVIOUS
<1>3. \A i \in 1..m : /\ rows[i] = counts[i].n /\ span(i) \subseteq R
                      /\ \A b \in span(i) : Share(counts, i, duration, b) \in Nat
                      /\ SumOf(w[i], span(i)) = counts[i].n
  <2> TAKE i \in 1..m
  <2>1. PICK lo, hi \in R : span(i) = lo..hi
    BY CoveredIs
  <2>2. lo..hi \subseteq R
    BY <2>1, RpcapAssumption
  <2>3. \A b \in span(i) : w[i][b] = Share(counts, i, duration, b)
    BY <2>1, <2>2, <1>2
  <2> HIDE DEF w
  <2>4. /\ SumOf(w[i], span(i)) = counts[i].n
        /\ \A b \in span(i) : Share(counts, i, duration, b) \in Nat
    BY <2>3, SharesAddUp
  <2>5. rows[i] = counts[i].n
    BY DEF Sizes
  <2> QED
    BY <2>1, <2>2, <2>4, <2>5
<1>v. \A b \in R : \A i \in 1..m : v[b][i] = w[i][b]
  <2> HIDE DEF w
  <2> QED
    OBVIOUS
<1> HIDE DEF w, v, rows
<1>4. \A i \in 1..m : \A b \in R : w[i][b] \in Nat
  BY <1>2, <1>3
<1>5. \A i \in 1..m : rows[i] = SumOf(w[i], R)
  <2> TAKE i \in 1..m
  <2>1. span(i) \in SUBSET R /\ \A b \in R \ span(i) : w[i][b] = 0
    BY <1>2, <1>3
  <2>2. SumOf(w[i], R) = SumOf(w[i], span(i))
    <3>1. \A b \in R : w[i][b] \in Nat
      BY <1>4
    <3> HIDE DEF R, span
    <3> QED
      BY <2>1, <3>1, <1>1, SumSupport
  <2> QED
    BY <2>2, <1>3
<1>6. \A b \in R : columns[b] = SumOf(v[b], 1..m)
  <2> TAKE b \in R
  <2> DEFINE in == {i \in 1..m : b \in span(i)}
             share == [i \in in |-> Share(counts, i, duration, b)]
             col == v[b]
  <2>1. columns[b] = SumOf(share, in)
    BY DensityIs
  <2>2. in \in SUBSET (1..m) /\ \A i \in in : share[i] = col[i]
    BY <1>2, <1>v
  <2>3. (\A i \in 1..m : col[i] \in Nat) /\ \A i \in (1..m) \ in : col[i] = 0
    <3>1. \A i \in 1..m : col[i] = w[i][b] /\ w[i][b] \in Nat
      BY <1>4, <1>v
    <3>2. ASSUME NEW i \in (1..m) \ in PROVE w[i][b] = 0
      <4>1. i \in 1..m /\ b \notin span(i)
        BY <3>2
      <4> HIDE DEF span
      <4> QED
        BY <4>1, <1>2
    <3> HIDE DEF in, col
    <3> QED
      BY <3>1, <3>2
  <2>4. IsFiniteSet(in)
    BY <2>2, <1>1, FS_Subset
  <2> HIDE DEF in, share, col, columns
  <2>5. SumOf(share, in) = SumOf(col, in)
    BY <2>2, <2>4, SumSame
  <2>6. SumOf(col, 1..m) = SumOf(col, in)
    <3> HIDE DEF m
    <3> QED
      BY <2>2, <2>3, <1>1, SumSupport
  <2> QED
    BY <2>1, <2>5, <2>6 DEF col
<1> HIDE DEF columns
<1>7. SumOf(columns, R) = SumOf(rows, 1..m)
  <2>1. m \in Nat
    OBVIOUS
  <2>2. IsFiniteSet(R)
    BY <1>1
  <2> HIDE DEF R, m
  <2>3. Table(m, R, w, rows, v, columns)
    BY <2>1, <2>2, <1>4, <1>5, <1>6, <1>v DEF Table
  <2> QED
    BY <2>3, SumSwap
<1> QED
  BY <1>7 DEF columns, rows

\* Chunks that entries name, one behind the other, have at most the packets of the file,
\* and all of them when every chunk is named.
LEMMA ChunksAddUp ==
  ASSUME NEW f \in Seq(Cell), NEW end, Laid(f, end), \A k \in 1..3 : ~PacketAt(f, k),
         NEW times, NEW e \in Seq(EntryCell), EntriesOK(f, times, end, e),
         NEW g, \A i \in 1..Len(e) : g[i] = f[e[i].offset + 2].n
  PROVE  /\ \A i \in 1..Len(e) : g[i] \in Nat
         /\ SumOf(g, 1..Len(e)) <= Before(f, end)
         /\ (\A o \in 3..end - 1 : Boundary(f, o) => \E i \in 1..Len(e) : e[i].offset = o)
              => SumOf(g, 1..Len(e)) = Before(f, end)
<1> DEFINE m == Len(e)
           off(i) == e[i].offset
           stop(i) == IF i = 0 THEN 3 ELSE off(i) + 3 + g[i]
           sum(k) == SumOf(g, 1..k)
<1>1. end \in 3..Len(f) /\ end \in Nat /\ m \in Nat /\ Boundary(f, end) /\ Before(f, end) \in Nat
  <2>1. end \in 3..Len(f) /\ Boundary(f, end) /\ m \in Nat
    BY DEF Laid
  <2>2. end \in Nat
    BY <2>1
  <2> QED
    BY <2>1, <2>2, BeforeType
<1>2. \A i \in 1..m : /\ off(i) \in 3..end - 1 /\ Boundary(f, off(i)) /\ ChunkAt(f, off(i), end)
                      /\ g[i] = f[off(i) + 3].n
  <2> TAKE i \in 1..m
  <2>1. off(i) \in 3..end - 1 /\ Boundary(f, off(i))
    BY DEF EntriesOK, EntryOK
  <2>2. ChunkAt(f, off(i), end)
    BY <2>1 DEF Laid
  <2> QED
    BY <2>1, <2>2 DEF ChunkAt
<1>3. \A i, j \in 1..m : i < j => off(i) < off(j)
  BY DEF EntriesOK
<1> HIDE DEF m, off
<1>4. \A i \in 1..m :
        /\ off(i) \in Nat /\ off(i) >= 3 /\ g[i] \in Nat \ {0} /\ off(i) + 3 + g[i] \in off(i) + 4..end
        /\ \A k \in off(i) + 1..off(i) + 3 : ~PacketAt(f, k)
        /\ \A k \in off(i) + 4..off(i) + 3 + g[i] : PacketAt(f, k)
        /\ Boundary(f, off(i) + 3 + g[i])
        /\ Before(f, off(i) + 3 + g[i]) = Before(f, off(i)) + g[i]
  <2> TAKE i \in 1..m
  <2> DEFINE o == off(i)
             n == f[o + 3].n
  <2>1. o \in 3..end - 1 /\ ChunkAt(f, o, end) /\ g[i] = n
    BY <1>2
  <2> HIDE DEF o
  <2>2. /\ n \in Nat \ {0} /\ o + 3 + n \in o + 4..end
        /\ \A k \in o + 1..o + 3 : ~PacketAt(f, k)
        /\ \A k \in o + 4..o + 3 + n : PacketAt(f, k)
    BY <2>1, <1>1, ChunkInside
  <2>3. \A j \in 0..n : Before(f, o + 3 + j) = Before(f, o) + j
    BY <2>1, <1>1, ChunkBefore
  <2>4. Boundary(f, o + 3 + n)
    BY <2>1 DEF ChunkAt
  <2>5. o \in Nat /\ o >= 3 /\ n \in 0..n
    BY <2>1, <2>2, <1>1
  <2>6. Before(f, o + 3 + n) = Before(f, o) + n
    BY <2>3, <2>5
  <2> HIDE DEF n
  <2> QED
    BY <2>1, <2>2, <2>4, <2>5, <2>6 DEF o
<1>5. \A i \in 1..m : \A o \in 3..end : Boundary(f, o) /\ off(i) < o => off(i) + 3 + g[i] <= o
  <2> SUFFICES ASSUME NEW i \in 1..m, NEW o \in 3..end, Boundary(f, o), off(i) < o, ~(off(i) + 3 + g[i] <= o) PROVE FALSE
    OBVIOUS
  <2> DEFINE a == off(i)
             n == g[i]
  <2>1. a \in Nat /\ a >= 3 /\ n \in Nat \ {0} /\ (\A k \in a + 1..a + 3 : ~PacketAt(f, k))
        /\ \A k \in a + 4..a + 3 + n : PacketAt(f, k)
    BY <1>4
  <2>2. a < o /\ ~(a + 3 + n <= o)
    OBVIOUS
  <2> HIDE DEF a, n
  <2>3. o \in Nat /\ o # 3
    BY <2>1, <2>2
  <2>4. PacketAt(f, o) /\ ~PacketAt(f, o + 1)
    BY <2>3 DEF Boundary
  <2>5. o \notin a + 1..a + 3 /\ o + 1 \notin a + 4..a + 3 + n
    BY <2>1, <2>4
  <2> QED
    BY <2>1, <2>2, <2>3, <2>5
<1>6. \A i \in 1..m : g[i] \in Nat
  BY <1>4
<1>7. \A k \in 0..m : stop(k) \in 3..end /\ Boundary(f, stop(k)) /\ Before(f, stop(k)) \in Nat
  <2> TAKE k \in 0..m
  <2>1. CASE k = 0
    <3>1. stop(k) = 3
      BY <2>1
    <3>2. 3 \in 3..end
      BY <1>1
    <3>3. Boundary(f, 3)
      BY DEF Boundary
    <3>4. Before(f, 3) \in Nat
      BY BeforeType
    <3> QED
      BY <3>1, <3>2, <3>3, <3>4
  <2>2. CASE k # 0
    <3>1. k \in 1..m /\ stop(k) = off(k) + 3 + g[k]
      BY <2>2, <1>1
    <3> DEFINE a == off(k)
               n == g[k]
    <3>2. a \in Nat /\ a >= 3 /\ n \in Nat /\ a + 3 + n <= end /\ Boundary(f, a + 3 + n)
      BY <3>1, <1>4
    <3>3. stop(k) = a + 3 + n
      BY <3>1
    <3> HIDE DEF a, n, stop
    <3>4. stop(k) \in 3..end /\ stop(k) \in Nat
      BY <3>2, <3>3, <1>1
    <3>5. Before(f, stop(k)) \in Nat
      BY <3>4, BeforeType
    <3> QED
      BY <3>2, <3>3, <3>4, <3>5
  <2> QED
    BY <2>1, <2>2
<1>8. \A k \in 0..m - 1 : /\ k + 1 \in 1..m /\ stop(k) <= off(k + 1) /\ sum(k) \in Nat /\ sum(k + 1) = sum(k) + g[k + 1]
                          /\ stop(k + 1) = off(k + 1) + 3 + g[k + 1]
                          /\ Before(f, stop(k + 1)) = Before(f, off(k + 1)) + g[k + 1]
  <2> TAKE k \in 0..m - 1
  <2>1. k \in Nat /\ k + 1 \in 1..m /\ k + 1 # 0 /\ 1..k + 1 \subseteq 1..m /\ 1..k \subseteq 1..m /\ k \in Int
    BY <1>1
  <2>2. stop(k + 1) = off(k + 1) + 3 + g[k + 1]
    BY <2>1
  <2>3. Before(f, stop(k + 1)) = Before(f, off(k + 1)) + g[k + 1]
    BY <2>1, <2>2, <1>4
  <2>4. sum(k + 1) = sum(k) + g[k + 1]
    <3>1. \A x \in 1..k + 1 : g[x] \in Nat
      BY <2>1, <1>6
    <3> QED
      BY <3>1, <2>1, SumNext
  <2>5. sum(k) \in Nat
    <3>1. IsFiniteSet(1..k) /\ \A x \in 1..k : g[x] \in Nat
      BY <2>1, <1>6, FS_Interval
    <3> QED
      BY <3>1, SumNat
  <2>6. stop(k) <= off(k + 1)
    <3>1. CASE k = 0
      <4>1. off(k + 1) >= 3 /\ stop(k) = 3 /\ off(k + 1) \in Nat
        BY <2>1, <3>1, <1>4
      <4> QED
        BY <4>1
    <3>2. CASE k # 0
      <4>1. k \in 1..m /\ k < k + 1
        BY <2>1, <3>2, <1>1
      <4>2. off(k) < off(k + 1) /\ Boundary(f, off(k + 1)) /\ off(k + 1) \in 3..end - 1
        BY <4>1, <2>1, <1>2, <1>3
      <4>3. off(k + 1) \in 3..end
        BY <4>2, <1>1
      <4>4. off(k) + 3 + g[k] <= off(k + 1)
        BY <4>1, <4>2, <4>3, <1>5
      <4> QED
        BY <4>1, <4>4, <3>2
    <3> QED
      BY <3>1, <3>2
  <2> HIDE DEF stop, sum
  <2> QED
    BY <2>1, <2>2, <2>3, <2>4, <2>5, <2>6
<1>9. sum(0) = 0
  <2>1. 1..0 = {} /\ IsFiniteSet({})
    BY FS_EmptySet
  <2> QED
    BY <2>1, SumFirst
<1>10. sum(m) \in Nat
  <2>1. IsFiniteSet(1..m)
    BY <1>1, FS_Interval
  <2> QED
    BY <2>1, <1>6, SumNat
<1>11. stop(0) = 3
  OBVIOUS
<1> HIDE DEF stop, sum
<1>12. sum(m) <= Before(f, stop(m))
  <2> DEFINE Good == {k \in 0..m : sum(k) <= Before(f, stop(k))}
  <2>1. 0 \in Good
    <3>1. 0 \in 0..m
      BY <1>1
    <3>2. Before(f, stop(0)) \in Nat
      BY <3>1, <1>7
    <3> QED
      BY <3>1, <3>2, <1>9
  <2>2. ASSUME NEW k \in 0..m - 1, k \in Good PROVE k + 1 \in Good
    <3>1. k + 1 \in 1..m /\ k + 1 \in 0..m /\ k \in 0..m
      BY <1>1
    <3> DEFINE a == Before(f, stop(k))
               b == Before(f, off(k + 1))
    <3>2. a <= b /\ a \in Nat /\ b \in Nat
      <4>1. stop(k) \in 3..end /\ off(k + 1) \in Nat /\ stop(k) <= off(k + 1) /\ a \in Nat
        BY <3>1, <1>4, <1>7, <1>8
      <4>2. stop(k) \in Nat
        BY <4>1
      <4>3. a <= b
        BY <4>1, <4>2, BeforeGrows
      <4>4. b \in Nat
        BY <4>1, BeforeType
      <4> QED
        BY <4>1, <4>3, <4>4
    <3>3. sum(k) \in Nat /\ sum(k + 1) = sum(k) + g[k + 1] /\ Before(f, stop(k + 1)) = b + g[k + 1] /\ g[k + 1] \in Nat
      BY <3>1, <1>6, <1>8
    <3>4. sum(k) <= a
      BY <2>2
    <3> HIDE DEF a, b, Good
    <3>5. sum(k + 1) <= Before(f, stop(k + 1))
      BY <3>2, <3>3, <3>4
    <3> QED
      BY <3>1, <3>5 DEF Good
  <2>3. Good \in SUBSET (0..m)
    OBVIOUS
  <2>4. m \in Good
    <3> HIDE DEF Good
    <3> QED
      BY <2>1, <2>2, <2>3, <1>1, Counting
  <2> QED
    BY <2>4
<1>13. m \in 0..m
  BY <1>1
<1>14. sum(m) <= Before(f, end)
  <2>1. stop(m) \in Nat /\ stop(m) <= end /\ Before(f, stop(m)) \in Nat
    <3>1. stop(m) \in 3..end /\ Before(f, stop(m)) \in Nat
      BY <1>7, <1>13
    <3> QED
      BY <3>1, <1>1
  <2>2. Before(f, stop(m)) <= Before(f, end)
    BY <2>1, <1>1, BeforeGrows
  <2> QED
    BY <2>1, <2>2, <1>1, <1>10, <1>12
<1>15. ASSUME \A o \in 3..end - 1 : Boundary(f, o) => \E i \in 1..m : off(i) = o
       PROVE  sum(m) = Before(f, end)
  <2>1. ASSUME NEW k \in 0..m, stop(k) # end PROVE k \in 0..m - 1 /\ off(k + 1) = stop(k)
    <3>1. stop(k) \in 3..end /\ Boundary(f, stop(k))
      BY <1>7
    <3>2. stop(k) \in 3..end - 1
      BY <3>1, <2>1, <1>1
    <3>3. PICK j \in 1..m : off(j) = stop(k)
      BY <3>1, <3>2, <1>15
    <3>4. ASSUME j <= k PROVE FALSE
      <4>1. k \in 1..m /\ j \in Nat /\ k \in Nat
        BY <3>4, <1>1
      <4>2. stop(k) = off(k) + 3 + g[k] /\ off(k) \in Nat /\ g[k] \in Nat
        BY <4>1, <1>4 DEF stop
      <4>3. off(j) <= off(k)
        <5>1. CASE j = k
          BY <5>1, <4>2
        <5>2. CASE j < k
          <6>1. off(j) < off(k) /\ off(j) \in Nat
            BY <5>2, <4>1, <1>3, <1>4
          <6> QED
            BY <6>1, <4>2
        <5> QED
          BY <5>1, <5>2, <4>1, <3>4
      <4> QED
        BY <4>2, <4>3, <3>3
    <3>5. k \in 0..m - 1 /\ j >= k + 1 /\ j \in Nat
      BY <3>4, <1>1
    <3>6. stop(k) <= off(k + 1) /\ k + 1 \in 1..m
      BY <3>5, <1>8
    <3>7. ASSUME k + 1 < j PROVE FALSE
      <4>1. off(k + 1) < off(j)
        BY <3>6, <3>7, <1>3
      <4>2. off(k + 1) \in Nat /\ off(j) \in Nat
        BY <3>6, <1>4
      <4> QED
        BY <4>1, <4>2, <3>3, <3>6
    <3>8. j = k + 1
      BY <3>5, <3>7
    <3> QED
      BY <3>3, <3>5, <3>8
  <2>2. stop(m) = end
    <3>1. m \notin 0..m - 1
      BY <1>1
    <3> QED
      BY <3>1, <2>1, <1>13
  <2> DEFINE Good == {k \in 0..m : sum(k) = Before(f, stop(k))}
  <2>3. 0 \in Good
    <3>1. 0 \in 0..m
      BY <1>1
    <3>2. Before(f, 3) = Before(f, 0) /\ Before(f, 0) = 0
      <4>1. 0 \in Nat /\ 3 \in Nat /\ 0 <= 3 /\ \A k \in 0 + 1..3 : ~PacketAt(f, k)
        OBVIOUS
      <4> QED
        BY <4>1, BeforeGap, BeforeNone
    <3> QED
      BY <3>1, <3>2, <1>9, <1>11
  <2>4. ASSUME NEW k \in 0..m - 1, k \in Good PROVE k + 1 \in Good
    <3>1. k + 1 \in 1..m /\ k + 1 \in 0..m /\ k \in 0..m
      BY <1>1
    <3>2. off(k + 1) = stop(k)
      <4>1. stop(k) <= off(k + 1) /\ off(k + 1) \in 3..end - 1 /\ stop(k) \in 3..end
        BY <3>1, <1>2, <1>7, <1>8
      <4>2. stop(k) # end
        BY <4>1, <1>1
      <4> QED
        BY <4>2, <3>1, <2>1
    <3>3. sum(k + 1) = sum(k) + g[k + 1] /\ Before(f, stop(k + 1)) = Before(f, off(k + 1)) + g[k + 1]
      BY <1>8
    <3>4. sum(k) = Before(f, stop(k))
      BY <2>4
    <3>5. sum(k + 1) = Before(f, stop(k + 1))
      BY <3>2, <3>3, <3>4
    <3> QED
      BY <3>1, <3>5
  <2>5. Good \in SUBSET (0..m)
    OBVIOUS
  <2>6. m \in Good
    <3> HIDE DEF Good
    <3> QED
      BY <2>3, <2>4, <2>5, <1>1, Counting
  <2> QED
    BY <2>2, <2>6
<1> QED
  BY <1>6, <1>14, <1>15 DEF m, off, sum

\* The sum over the chunks as DensityAddsUp adds them.
LEMMA FoldedSizes ==
  ASSUME NEW counts, Len(counts) \in Nat
  PROVE  FoldSet(LAMBDA i, acc : acc + counts[i].n, 0, 1..Len(counts)) = SumOf(Sizes(counts), 1..Len(counts))
<1> DEFINE S == 1..Len(counts)
           g == Sizes(counts)
           Fold(f) == f = [s \in SUBSET S |-> IF s = {} THEN 0 ELSE f[s \ {One(s)}] + counts[One(s)].n]
           fold == CHOOSE f : Fold(f)
<1>1. FoldSet(LAMBDA i, acc : acc + counts[i].n, 0, S) = fold[S]
  BY DEF FoldSet, MapThenFoldSet, One
<1>2. IsFiniteSet(S) /\ \A x \in S : g[x] = counts[x].n
  BY FS_Interval DEF Sizes
<1> HIDE DEF S, g
<1>3. \A f : Fold(f) <=> IsSum(g, S, f)
  <2> TAKE f
  <2> DEFINE e(s) == IF s = {} THEN 0 ELSE f[s \ {One(s)}] + counts[One(s)].n
             d(s) == IF s = {} THEN 0 ELSE f[s \ {One(s)}] + g[One(s)]
  <2>1. \A s \in SUBSET S : e(s) = d(s)
    <3> SUFFICES ASSUME NEW s \in SUBSET S, s # {} PROVE counts[One(s)].n = g[One(s)]
      OBVIOUS
    <3> QED
      BY <1>2, OneIn
  <2>2. Fold(f) <=> f = [s \in SUBSET S |-> e(s)]
    OBVIOUS
  <2>3. IsSum(g, S, f) <=> f = [s \in SUBSET S |-> d(s)]
    BY DEF IsSum
  <2> HIDE DEF e, d, Fold
  <2>4. [s \in SUBSET S |-> e(s)] = [s \in SUBSET S |-> d(s)]
    BY <2>1
  <2> QED
    BY <2>2, <2>3, <2>4
<1>4. IsSum(g, S, fold)
  <2>1. PICK k : IsSum(g, S, k)
    BY <1>2, SumExists
  <2> HIDE DEF Fold
  <2>2. Fold(k)
    BY <2>1, <1>3
  <2>3. Fold(fold)
    BY <2>2
  <2> QED
    BY <2>3, <1>3
<1> HIDE DEF fold
<1>5. SumOf(g, S) = fold[S]
  BY <1>2, <1>4, SumIs
<1> QED
  BY <1>1, <1>5 DEF g, S

\* A chunk is one that LoadNextChunk can read.
LEMMA ChunkReadable ==
  ASSUME file \in Seq(Cell), NEW end \in 3..Len(file), NEW o \in 3..end - 1, ChunkAt(file, o, end)
  PROVE  IsChunk(o)
<1> DEFINE n == file[o + 3].n
<1>1. n \in Nat \ {0} /\ o + 3 + n \in o + 4..end
  BY ChunkInside
<1>2. o \in Nat /\ o >= 3 /\ end \in Nat /\ end <= Len(file) /\ Len(file) \in Nat
  OBVIOUS
<1>3. /\ \A i \in 1..3 : file[o + i].kind = "number"
      /\ file[o + 2].n = n
      /\ \A i \in 1..n : file[o + 3 + i].kind = "packet"
  BY DEF ChunkAt
<1> HIDE DEF n
<1>4. (\A i \in 1..3 : o + i \in 1..Len(file)) /\ \A i \in 1..n : o + 3 + i \in 1..Len(file)
  BY <1>1, <1>2
<1>5. (\A i \in 1..3 : Is("number", o + i)) /\ \A i \in 1..n : Is("packet", o + 3 + i)
  BY <1>3, <1>4 DEF Is
<1> QED
  BY <1>3, <1>5 DEF IsChunk, n

\* The offsets at which LoadNextChunk can read a chunk.
Readable(end) == {o \in 3..end - 1 : IsChunk(o)}

\* Entries as many as the chunks name every one of them.
LEMMA AllNamed ==
  ASSUME file \in Seq(Cell), NEW end, Laid(file, end), NEW times, NEW e \in Seq(EntryCell), EntriesOK(file, times, end, e),
         Cardinality(Readable(end)) = Len(e)
  PROVE  \A o \in 3..end - 1 : Boundary(file, o) => \E i \in 1..Len(e) : e[i].offset = o
<1> DEFINE m == Len(e)
           chunks == Readable(end)
           name == [i \in 1..m |-> e[i].offset]
<1>1. m \in Nat /\ end \in 3..Len(file) /\ \A o \in 3..end - 1 : Boundary(file, o) => o \in chunks
  BY ChunkReadable DEF Laid, Readable
<1>2. IsFiniteSet(chunks)
  <2>1. 3 \in Int /\ end - 1 \in Int
    BY <1>1
  <2>2. IsFiniteSet(3..end - 1) /\ chunks \in SUBSET (3..end - 1)
    BY <2>1, FS_Interval DEF Readable
  <2> HIDE DEF chunks
  <2> QED
    BY <2>2, FS_Subset
<1>3. IsFiniteSet(1..m) /\ Cardinality(1..m) = m
  <2>1. 1 \in Int /\ m \in Int /\ m \in Nat
    BY <1>1
  <2> HIDE DEF m
  <2>2. IsFiniteSet(1..m) /\ Cardinality(1..m) = IF 1 > m THEN 0 ELSE m - 1 + 1
    BY <2>1, FS_Interval
  <2> QED
    BY <2>1, <2>2
<1>4. \A i \in 1..m : name[i] = e[i].offset /\ name[i] \in chunks /\ name[i] \in Nat
  <2> TAKE i \in 1..m
  <2>1. e[i].offset \in 3..end - 1 /\ Boundary(file, e[i].offset)
    BY DEF EntriesOK, EntryOK
  <2> HIDE DEF chunks
  <2>2. e[i].offset \in chunks /\ e[i].offset \in Nat
    BY <2>1, <1>1
  <2> QED
    BY <2>2
<1>5. \A i, j \in 1..m : i < j => name[i] < name[j]
  BY <1>4 DEF EntriesOK
<1>6. DOMAIN name = 1..m
  OBVIOUS
<1>7. Cardinality(chunks) = m
  OBVIOUS
<1> HIDE DEF chunks
<1>8. name \in [1..m -> chunks]
  BY <1>4
<1> HIDE DEF name, m
<1>9. name \in Injection(1..m, chunks)
  <2>1. ASSUME NEW i \in 1..m, NEW j \in 1..m, name[i] = name[j] PROVE i = j
    <3>1. ~(i < j) /\ ~(j < i)
      <4>1. name[i] \in Nat
        BY <1>4
      <4>2. ~(name[i] < name[j]) /\ ~(name[j] < name[i])
        BY <2>1, <4>1
      <4> QED
        BY <4>2, <1>5
    <3> QED
      BY <3>1, <1>1
  <2> QED
    BY <2>1, <1>8 DEF Injection, IsInjective
<1>10. name \in Surjection(1..m, chunks)
  BY <1>2, <1>3, <1>7, <1>9, FS_Injection
<1>11. \A o \in chunks : \E i \in 1..m : name[i] = o
  BY <1>10 DEF Surjection
<1> QED
  BY <1>1, <1>4, <1>11 DEF m

\* What GetDensity says of an undamaged file.
LEMMA AddsUp == IInv => DensityAddsUp
<1> DEFINE counts == ChunkCounts
           duration == reader.header.duration
           density == Density(counts, duration)
           chunks == Cardinality({o \in 3..reader.header.footer - 1 : IsChunk(o)})
           sum == FoldSet(LAMBDA b, acc : acc + density[b], 0, 0..Buckets - 1)
           all == FoldSet(LAMBDA i, acc : acc + counts[i].n, 0, 1..Len(counts))
           e == reader.entries
           end == reader.header.footer
<1> SUFFICES ASSUME IInv, intact, reader.open, duration > 0
             PROVE  sum = all /\ sum <= Len(log) /\ (chunks = Len(counts) => sum = Len(log))
  BY DEF DensityAddsUp
<1>1. sum = SumOf(density, 0..Buckets - 1)
  BY DEF FoldSet, MapThenFoldSet, SumOf, IsSum, One
<1>2. /\ file \in Seq(Cell) /\ e \in Seq(EntryCell) /\ Len(e) \in Nat /\ sealed /\ reader.header = file[1]
      /\ duration \in Nat \ {0} /\ end = file[1].footer
  <2>1. /\ file \in Seq(Cell) /\ reader \in Reader /\ sealed /\ reader.header = file[1]
    BY DEF IInv, FileInv, FileTypes, ReaderTypes, Control, Placed, PlacedAt
  <2>2. e \in Seq(EntryCell) /\ reader.header \in HeaderCell
    BY <2>1 DEF Reader
  <2>3. duration \in Nat
    BY <2>2 DEF HeaderCell
  <2>4. Len(e) \in Nat
    BY <2>2
  <2> QED
    BY <2>1, <2>2, <2>3, <2>4
<1>3. Laid(file, end) /\ Before(file, end) = Len(log) /\ EntriesOK(file, log, end, e)
  BY <1>2 DEF IInv, FileInv, Finished, Placed, PlacedAt
<1>4. \A k \in 1..3 : ~PacketAt(file, k)
  <2>1. Started(file) /\ file[2].kind = "number"
    BY <1>2, WrittenCells DEF IInv, FileInv, Opening, Started
  <2>2. ~PacketAt(file, 1) /\ ~PacketAt(file, 2) /\ ~PacketAt(file, 3)
    BY <2>1 DEF Started, PacketAt
  <2> QED
    BY <2>2
<1>5. counts = [i \in 1..Len(e) |-> [t |-> e[i].t, n |-> file[e[i].offset + 2].n]]
  BY DEF ChunkCounts
<1>6. Len(counts) = Len(e) /\ \A i \in 1..Len(e) : counts[i].t = e[i].t /\ counts[i].n = file[e[i].offset + 2].n
  <2> HIDE DEF counts, e
  <2> QED
    BY <1>2, <1>5
<1> HIDE DEF counts, density, sum, all, chunks
<1>7. all = SumOf(Sizes(counts), 1..Len(counts))
  <2>1. Len(counts) \in Nat
    BY <1>2, <1>6
  <2> QED
    BY <2>1, FoldedSizes DEF all
<1> DEFINE g == Sizes(counts)
<1>8. \A i \in 1..Len(e) : g[i] = file[e[i].offset + 2].n /\ g[i] = counts[i].n
  BY <1>6 DEF Sizes
<1> HIDE DEF g, e, end, duration
<1>9. /\ \A i \in 1..Len(e) : g[i] \in Nat
      /\ SumOf(g, 1..Len(e)) <= Len(log)
      /\ (\A o \in 3..end - 1 : Boundary(file, o) => \E i \in 1..Len(e) : e[i].offset = o)
           => SumOf(g, 1..Len(e)) = Len(log)
  BY <1>2, <1>3, <1>4, <1>8, ChunksAddUp
<1>10. \A i \in 1..Len(counts) : counts[i].t \in Nat /\ counts[i].n \in Nat
  <2> TAKE i \in 1..Len(counts)
  <2>1. e[i] \in EntryCell /\ counts[i].t = e[i].t /\ counts[i].n = g[i] /\ g[i] \in Nat
    BY <1>2, <1>6, <1>8, <1>9, ElementOfSeq
  <2> QED
    BY <2>1, WrittenCells
<1>11. sum = all
  <2>1. SumOf(density, 0..Buckets - 1) = SumOf(Sizes(counts), 1..Len(counts))
    <3>1. Len(counts) \in Nat
      BY <1>2, <1>6
    <3> QED
      BY <3>1, <1>2, <1>10, SlicesAddUp DEF density
  <2> QED
    BY <2>1, <1>1, <1>7
<1>12. all = SumOf(g, 1..Len(e))
  BY <1>6, <1>7 DEF g
<1>13. ASSUME chunks = Len(counts) PROVE all = Len(log)
  <2>1. Cardinality(Readable(end)) = Len(e)
    BY <1>6, <1>13 DEF chunks, end, Readable
  <2>2. \A o \in 3..end - 1 : Boundary(file, o) => \E i \in 1..Len(e) : e[i].offset = o
    BY <2>1, <1>2, <1>3, AllNamed
  <2> QED
    BY <2>2, <1>9, <1>12
<1> QED
  BY <1>9, <1>11, <1>12, <1>13

\* The slices of GetDensity add up to the packets of the chunks in the index, never to more
\* than the recording has, and to all of them when every chunk has an entry, however many
\* slices are asked for and whatever the capture times are.
THEOREM DensityCorrect == ~OverwriteOpen => (Spec => []DensityAddsUp)
<1> SUFFICES ASSUME ~OverwriteOpen PROVE Spec => []DensityAddsUp
  OBVIOUS
<1>1. IInv => DensityAddsUp
  BY AddsUp
<1>2. Spec => []IInv
  BY FileFits
<1> QED
  BY <1>1, <1>2, PTL
================================================================================
