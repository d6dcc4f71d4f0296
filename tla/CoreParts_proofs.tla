--------------------------- MODULE CoreParts_proofs ---------------------------
(***************************************************************************)
(* Proofs about the two parts of recplay_core that call nobody: module     *)
(* Timeline, for all positions, speeds and clock bounds, and module        *)
(* SpscRing, for every capacity and every set of items.                    *)
(*                                                                         *)
(* TimelineTypeOK is inductive; its last two conjuncts are what the        *)
(* refinement of PlaybackClock needs: the stretch under way began in the   *)
(* past, so that Now counts every tick of it, and a paused position is     *)
(* never before the origin, so that Start goes back.                       *)
(*                                                                         *)
(* The indices of the ring are only ever advanced by Succ and compared     *)
(* through Size and Offset; the first lemmas about it say what % does on   *)
(* the numbers below twice the capacity, and no later step needs more.     *)
(***************************************************************************)
EXTENDS SpscRing, Timeline, TLAPS

-----------------------------------------------------------------------------
(***************************************************************************)
(* The timeline.                                                           *)
(***************************************************************************)

\* The position is a natural number, never before the origin.
LEMMA NowIsNat == TimelineTypeOK => Now \in Nat /\ Now >= origin
<1> SUFFICES ASSUME TimelineTypeOK PROVE Now \in Nat /\ Now >= origin
  OBVIOUS
<1>1. CASE paused
  BY <1>1 DEF Now, TimelineTypeOK
<1>2. CASE ~paused
  <2> DEFINE elapsed == IF clock > clockStart THEN clock - clockStart ELSE 0
  <2>1. elapsed \in Nat /\ speed \in Nat /\ origin \in Nat
    BY DEF TimelineTypeOK
  <2>2. elapsed * speed \in Nat
    BY <2>1
  <2>3. Now = origin + elapsed * speed
    BY <1>2 DEF Now
  <2> HIDE DEF elapsed
  <2> QED
    BY <2>1, <2>2, <2>3
<1> QED
  BY <1>1, <1>2

\* A stretch that begins now is at its origin.
LEMMA NowAtStart == TimelineTypeOK /\ paused = FALSE /\ clockStart = clock => Now = origin
<1> SUFFICES ASSUME TimelineTypeOK, paused = FALSE, clockStart = clock PROVE Now = origin
  OBVIOUS
<1>1. Now = origin + (IF clock > clockStart THEN clock - clockStart ELSE 0) * speed
  BY Zenon DEF Now
<1>2. (IF clock > clockStart THEN clock - clockStart ELSE 0) = 0
  BY DEF TimelineTypeOK
<1>3. speed \in Nat /\ origin \in Nat
  BY DEF TimelineTypeOK
<1>4. 0 * speed = 0
  BY <1>3
<1> QED
  BY <1>1, <1>2, <1>3, <1>4

\* The initial state has the types.
LEMMA InitTypeOK == TimelineInit => TimelineTypeOK
BY TimelineAssumption DEF TimelineInit, TimelineTypeOK

\* Every step keeps the types.
LEMMA NextTypeOK == TimelineTypeOK /\ [TimelineNext]_timelineVars => TimelineTypeOK'
<1> SUFFICES ASSUME TimelineTypeOK, [TimelineNext]_timelineVars PROVE TimelineTypeOK'
  OBVIOUS
<1> USE TimelineAssumption
<1>0. Now \in Nat /\ Now >= origin
  BY NowIsNat
<1>1. ASSUME NEW target \in Positions, SeekTo(target) PROVE TimelineTypeOK'
  BY <1>1 DEF SeekTo, TimelineTypeOK
<1>2. ASSUME NEW s \in Speeds, SetSpeed(s) PROVE TimelineTypeOK'
  <2>1. speed' \in Nat \ {0}
    BY <1>2 DEF SetSpeed
  <2> QED
    BY <2>1, <1>2, <1>0 DEF SetSpeed, TimelineTypeOK
<1>3. CASE Start
  <2>1. clockStart' = clock /\ clock' = clock /\ pausedAt' = origin /\ paused' = FALSE
        /\ origin' = origin /\ speed' = speed
    BY <1>3 DEF Start
  <2>2. origin' \in Nat /\ speed' \in Nat \ {0} /\ pausedAt' \in Nat
        /\ clock' \in Nat /\ clockStart' \in 0 .. clock'
    BY <2>1 DEF TimelineTypeOK
  <2>3. paused' \in BOOLEAN /\ (paused' => pausedAt' >= origin')
    BY <2>1, Zenon
  <2> QED
    BY <2>2, <2>3, Zenon DEF TimelineTypeOK
<1>4. CASE Pause
  BY <1>4, <1>0 DEF Pause, TimelineTypeOK
<1>5. CASE Resume
  <2>1. clockStart' = clock /\ clock' = clock /\ pausedAt' = pausedAt /\ paused' = FALSE
        /\ origin' = pausedAt /\ speed' = speed
    BY <1>5 DEF Resume
  <2>2. origin' \in Nat /\ speed' \in Nat \ {0} /\ pausedAt' \in Nat
        /\ clock' \in Nat /\ clockStart' \in 0 .. clock'
    BY <2>1 DEF TimelineTypeOK
  <2>3. paused' \in BOOLEAN /\ (paused' => pausedAt' >= origin')
    BY <2>1, Zenon
  <2> QED
    BY <2>2, <2>3, Zenon DEF TimelineTypeOK
<1>6. CASE Tick
  BY <1>6 DEF Tick, TimelineTypeOK
<1>7. CASE UNCHANGED timelineVars
  BY <1>7 DEF timelineVars, TimelineTypeOK
<1> QED
  BY <1>1, <1>2, <1>3, <1>4, <1>5, <1>6, <1>7 DEF TimelineNext, SetOrigin

\* In every behavior the variables have their types, the stretch under way began
\* in the past and a paused position is not before the origin.
THEOREM TimelineTypeCorrect == TimelineSpec => []TimelineTypeOK
<1>1. TimelineInit => TimelineTypeOK
  BY InitTypeOK
<1>2. TimelineTypeOK /\ [TimelineNext]_timelineVars => TimelineTypeOK'
  BY NextTypeOK
<1> QED
  BY <1>1, <1>2, PTL DEF TimelineSpec

\* A tick moves the position by the speed in force.
LEMMA TickAdvances == TimelineTypeOK /\ Tick => Clock!Advance
<1> SUFFICES ASSUME TimelineTypeOK, Tick PROVE Clock!Advance
  OBVIOUS
<1>1. clock' = clock + 1 /\ UNCHANGED <<origin, speed, paused, pausedAt, clockStart>>
  BY DEF Tick
<1>2. CASE paused
  BY <1>1, <1>2 DEF Clock!Advance, Now
<1>3. CASE ~paused
  <2>1. PICK e \in Nat : e = clock - clockStart
    BY DEF TimelineTypeOK
  <2>2. Now = origin + e * speed
    BY <1>3, <2>1 DEF Now, TimelineTypeOK
  <2>3. Now' = origin + (e + 1) * speed
    BY <1>1, <1>3, <2>1 DEF Now, TimelineTypeOK
  <2>4. origin \in Nat /\ speed \in Nat
    BY DEF TimelineTypeOK
  <2>5. (e + 1) * speed = e * speed + speed
    BY <2>1, <2>4
  <2>6. e * speed \in Nat
    BY <2>1, <2>4
  <2>7. Now' = Now + speed
    BY <2>2, <2>3, <2>4, <2>5, <2>6
  <2> QED
    BY <1>1, <1>3, <2>7 DEF Clock!Advance
<1> QED
  BY <1>2, <1>3

\* Every other operation is the one of PlaybackClock it should be.
LEMMA NextClock == TimelineTypeOK /\ TimelineTypeOK' /\ [TimelineNext]_timelineVars => [Clock!Next]_<<clock, Now, speed, paused>>
<1> SUFFICES ASSUME TimelineTypeOK, TimelineTypeOK', [TimelineNext]_timelineVars
             PROVE  [Clock!Next]_<<clock, Now, speed, paused>>
  OBVIOUS
<1> USE TimelineAssumption
<1>0. Now \in Nat /\ Now >= origin
  BY NowIsNat
<1>a. (TimelineTypeOK /\ paused = FALSE /\ clockStart = clock => Now = origin)'
  BY NowAtStart, PTL
<1>1. ASSUME NEW target \in Positions, SeekTo(target) PROVE Clock!Jump
  <2>1. CASE paused
    BY <1>1, <2>1 DEF SeekTo, Clock!Jump, Now
  <2>2. CASE ~paused
    <3>1. Now' = origin'
      BY <1>1, <2>2, <1>a DEF SeekTo, TimelineTypeOK
    <3> QED
      BY <3>1, <1>1 DEF SeekTo, Clock!Jump
  <2> QED
    BY <2>1, <2>2
<1>2. ASSUME NEW s \in Speeds, SetSpeed(s) PROVE Clock!SetRate
  <2>1. speed' \in Nat \ {0}
    BY DEF TimelineTypeOK
  <2>2. CASE paused
    BY <1>2, <2>1, <2>2 DEF SetSpeed, Clock!SetRate, Now
  <2>3. CASE ~paused
    <3>1. clockStart' = clock' /\ paused' = FALSE /\ origin' = Now
      BY <1>2, <2>3 DEF SetSpeed, TimelineTypeOK
    <3>2. Now' = origin'
      BY <3>1, <1>a
    <3> QED
      BY <1>2, <2>1, <3>1, <3>2 DEF SetSpeed, Clock!SetRate
  <2> QED
    BY <2>2, <2>3
<1>3. CASE Start
  <2>1. clockStart' = clock' /\ paused' = FALSE /\ origin' = origin
    BY <1>3 DEF Start
  <2>2. Now' = origin
    BY <2>1, <1>a
  <2>3. Now' \in 0 .. Now
    BY <2>2, <1>0 DEF TimelineTypeOK
  <2> QED
    BY <1>3, <2>1, <2>3 DEF Start, Clock!Restart, Clock!Next
<1>4. CASE Pause
  <2>1. Now' = pausedAt' /\ paused' = TRUE /\ pausedAt' = Now
    BY <1>4 DEF Pause, Now
  <2> QED
    BY <1>4, <2>1 DEF Pause, Clock!Freeze, Clock!Next
<1>5. CASE Resume
  <2>1. clockStart' = clock' /\ paused' = FALSE /\ origin' = Now
    BY <1>5 DEF Resume, Now
  <2>2. Now' = origin'
    BY <2>1, <1>a
  <2> QED
    BY <1>5, <2>1, <2>2 DEF Resume, Clock!Thaw, Clock!Next
<1>6. CASE Tick
  <2>1. Clock!Advance
    BY <1>6, TickAdvances
  <2> QED
    BY <2>1 DEF Clock!Next
<1>7. CASE UNCHANGED timelineVars
  <2>1. Now' = Now
    BY <1>7, Zenon DEF timelineVars, Now
  <2> QED
    BY <1>7, <2>1 DEF timelineVars
<1> QED
  BY <1>1, <1>2, <1>3, <1>4, <1>5, <1>6, <1>7 DEF TimelineNext, SetOrigin, Clock!Next

\* For every clock, speed and sequence of calls the timeline is a playback clock:
\* neither a change of speed, nor a pause, nor a resume moves the position, and
\* every tick moves it by the speed in force.
THEOREM TimelineImplementsClock == TimelineSpec => ImplementsPlaybackClock
<1>1. TimelineInit => Clock!Init
  BY TimelineAssumption DEF TimelineInit, Clock!Init, Now
<1>2. TimelineTypeOK /\ TimelineTypeOK' /\ [TimelineNext]_timelineVars => [Clock!Next]_<<clock, Now, speed, paused>>
  BY NextClock
<1> QED
  BY <1>1, <1>2, TimelineTypeCorrect, PTL DEF TimelineSpec, ImplementsPlaybackClock, Clock!Spec

-----------------------------------------------------------------------------
(***************************************************************************)
(* The ring.                                                               *)
(***************************************************************************)

USE CapacityAssumption, NoItemAssumption

\* The remainder of a number below twice the capacity: that number, less the
\* capacity if it reaches it.
LEMMA ModBelowTwice ==
  \A a \in 0 .. 2 * Capacity - 1 :
    a % Capacity = IF a < Capacity THEN a ELSE a - Capacity
<1> TAKE a \in 0 .. 2 * Capacity - 1
<1>1. CASE a < Capacity
  BY <1>1
<1>2. CASE a >= Capacity
  <2>1. a = Capacity * 1 + (a - Capacity) /\ a - Capacity \in 0 .. Capacity - 1
    BY <1>2
  <2> QED BY <1>2, <2>1
<1> QED BY <1>1, <1>2

\* Succ stays inside the ring: the mask (RingBuffer.h:25) does its work.
LEMMA SuccInSlots ==
  ASSUME NEW i \in Slots
  PROVE  /\ Succ(i) \in Slots
         /\ Succ(i) = IF i + 1 = Capacity THEN 0 ELSE i + 1
<1>1. i + 1 \in 0 .. 2 * Capacity - 1
  BY DEF Slots
<1>2. PICK a \in 0 .. 2 * Capacity - 1 : a = i + 1
  BY <1>1, Zenon
<1>3. Succ(i) = IF a < Capacity THEN a ELSE a - Capacity
  BY <1>2, ModBelowTwice, Zenon DEF Succ
<1> QED BY <1>2, <1>3 DEF Slots

\* The distance from slot t round to slot h.
LEMMA Distance ==
  ASSUME NEW h \in Slots, NEW t \in Slots
  PROVE  /\ (h + Capacity - t) % Capacity \in Slots
         /\ (h + Capacity - t) % Capacity =
              IF h < t THEN h + Capacity - t ELSE h - t
<1>1. h + Capacity - t \in 0 .. 2 * Capacity - 1
  BY DEF Slots
<1>2. PICK a \in 0 .. 2 * Capacity - 1 : a = h + Capacity - t
  BY <1>1, Zenon
<1>3. (h + Capacity - t) % Capacity = IF a < Capacity THEN a ELSE a - Capacity
  BY <1>2, ModBelowTwice, Zenon
<1> QED BY <1>2, <1>3 DEF Slots

-----------------------------------------------------------------------------
\* The inductive invariant: the three invariants together, none of which is
\* inductive without the other two.
IInv == TypeOK /\ ReservedSlotsSafe /\ SlotsHoldPublishedItems

LEMMA InitIInv == Init => IInv
<1> SUFFICES ASSUME Init PROVE IInv
  OBVIOUS
<1>1. TypeOK
  BY DEF Init, TypeOK, Slots
<1>2. ReservedSlotsSafe
  BY DEF Init, ReservedSlotsSafe
<1>3. \A s \in Slots : Size = 0 /\ Offset(s) >= 0
  BY Distance DEF Init, Size, Offset, Slots
<1>4. SlotsHoldPublishedItems
  BY <1>3, Distance DEF Init, SlotsHoldPublishedItems, Size, Offset, Slots
<1> QED BY <1>1, <1>2, <1>4 DEF IInv

LEMMA NextIInv == IInv /\ [Next]_vars => IInv'
<1> SUFFICES ASSUME IInv, [Next]_vars PROVE IInv'
  OBVIOUS
<1> USE DEF IInv
<1> HIDE DEF Size, Offset
<1>0. /\ Succ(head) \in Slots
      /\ Succ(tail) \in Slots
      /\ Succ(head) = IF head + 1 = Capacity THEN 0 ELSE head + 1
      /\ Succ(tail) = IF tail + 1 = Capacity THEN 0 ELSE tail + 1
  BY SuccInSlots DEF TypeOK
<1>s. Size = IF head < tail THEN head + Capacity - tail ELSE head - tail
  BY Distance DEF TypeOK, Size
<1>o. \A s \in Slots : Offset(s) = IF s < tail THEN s + Capacity - tail ELSE s - tail
  BY Distance DEF TypeOK, Offset
<1>1. CASE PushFull
  BY <1>1 DEF PushFull, TypeOK, ReservedSlotsSafe, SlotsHoldPublishedItems, consumerVars, Size, Offset
<1>2. ASSUME NEW v \in Items, PushReserve(v) PROVE IInv'
  BY <1>2 DEF PushReserve, TypeOK, ReservedSlotsSafe, SlotsHoldPublishedItems, consumerVars, Size, Offset
<1>3. CASE PushStore
  <2>1. TypeOK' /\ ReservedSlotsSafe'
    BY <1>3 DEF PushStore, TypeOK, ReservedSlotsSafe, consumerVars
  <2>2. Size' = Size /\ \A s \in Slots : Offset(s)' = Offset(s)
    BY <1>3 DEF PushStore, consumerVars, Size, Offset
  <2>3. ~(Offset(head) < Size)
    BY <1>s, <1>o DEF TypeOK, Slots
  <2>4. SlotsHoldPublishedItems'
    BY <1>3, <2>2, <2>3 DEF PushStore, TypeOK, SlotsHoldPublishedItems, consumerVars
  <2> QED BY <2>1, <2>4
<1>4. CASE PushPublish
  <2>1. TypeOK' /\ ReservedSlotsSafe'
    BY <1>0, <1>4 DEF PushPublish, TypeOK, ReservedSlotsSafe, consumerVars
  <2>2. head' \in Slots /\ tail' = tail /\ buffer' = buffer /\ cpc' = cpc
    BY <1>0, <1>4 DEF PushPublish, TypeOK, consumerVars
  <2>3. Size' = IF head' < tail THEN head' + Capacity - tail ELSE head' - tail
    BY <2>2, Distance DEF TypeOK, Size
  <2>4. Succ(head) # tail
    BY <1>4 DEF PushPublish, ReservedSlotsSafe
  <2>5. Size' = Size + 1
    BY <1>0, <1>4, <1>s, <2>3, <2>4 DEF PushPublish, TypeOK, Slots
  <2>6. ASSUME NEW s \in Slots
        PROVE  Offset(s)' = Offset(s) /\ (Offset(s) = Size <=> s = head)
    BY <1>s, <1>o, <2>2 DEF Offset, TypeOK, Slots
  <2>7. SlotsHoldPublishedItems'
    BY <1>4, <1>s, <1>o, <2>2, <2>5, <2>6
    DEF PushPublish, TypeOK, ReservedSlotsSafe, SlotsHoldPublishedItems, consumerVars, Slots
  <2> QED BY <2>1, <2>7
<1>5. CASE PopEmpty
  BY <1>5 DEF PopEmpty, TypeOK, ReservedSlotsSafe, SlotsHoldPublishedItems, producerVars, Size, Offset
<1>6. CASE PopReserve
  BY <1>6 DEF PopReserve, TypeOK, ReservedSlotsSafe, SlotsHoldPublishedItems, producerVars, Size, Offset
<1>7. CASE PopTake
  <2>1. TypeOK' /\ ReservedSlotsSafe'
    BY <1>7 DEF PopTake, TypeOK, ReservedSlotsSafe, producerVars
  <2>2. Size' = Size /\ \A s \in Slots : Offset(s)' = Offset(s)
    BY <1>7 DEF PopTake, producerVars, Size, Offset
  <2>3. Offset(tail) < Size /\ head # tail
    BY <1>7, <1>s, <1>o DEF PopTake, TypeOK, ReservedSlotsSafe, Slots
  <2>4. buffer[tail] # NoItem
    BY <1>7, <2>3 DEF PopTake, TypeOK, SlotsHoldPublishedItems
  <2>5. SlotsHoldPublishedItems'
    BY <1>7, <2>2, <2>3, <2>4 DEF PopTake, TypeOK, SlotsHoldPublishedItems, producerVars
  <2> QED BY <2>1, <2>5
<1>8. CASE PopPublish
  <2>1. TypeOK' /\ ReservedSlotsSafe'
    BY <1>0, <1>8 DEF PopPublish, TypeOK, ReservedSlotsSafe, producerVars, Slots
  <2>2. tail' \in Slots /\ head' = head /\ buffer' = buffer /\ ppc' = ppc /\ head # tail
    BY <1>0, <1>8 DEF PopPublish, TypeOK, ReservedSlotsSafe, producerVars
  <2>3. Size' = IF head < tail' THEN head + Capacity - tail' ELSE head - tail'
    BY <2>2, Distance DEF TypeOK, Size
  <2>4. Size' = Size - 1 /\ Size \in Nat \ {0}
    BY <1>0, <1>8, <1>s, <2>2, <2>3 DEF PopPublish, TypeOK, Slots
  <2>5. ASSUME NEW s \in Slots
        PROVE  Offset(s)' = IF s = tail THEN Capacity - 1 ELSE Offset(s) - 1
    <3>1. Offset(s)' = IF s < tail' THEN s + Capacity - tail' ELSE s - tail'
      BY <2>2, Distance DEF Offset
    <3>2. tail' = IF tail + 1 = Capacity THEN 0 ELSE tail + 1
      BY <1>0, <1>8 DEF PopPublish
    <3>3. Offset(s) = IF s < tail THEN s + Capacity - tail ELSE s - tail
      BY <1>o
    <3>4. tail \in Nat /\ tail < Capacity /\ s \in Nat /\ s < Capacity
      BY DEF TypeOK, Slots
    <3> QED BY <3>1, <3>2, <3>3, <3>4
  <2>6. ASSUME NEW s \in Slots
        PROVE  Offset(s) = 0 <=> s = tail
    BY <1>o DEF TypeOK, Slots
  <2>7. Size <= Capacity - 1
    BY <1>s DEF TypeOK, Slots
  <2>8. ASSUME NEW s \in Slots
        PROVE  Offset(s)' < Size' <=> Offset(s) < Size /\ s # tail
    BY <1>o, <2>4, <2>5, <2>6, <2>7 DEF TypeOK, Slots
  <2>9. SlotsHoldPublishedItems'
    BY <1>8, <2>2, <2>8
    DEF PopPublish, TypeOK, SlotsHoldPublishedItems, producerVars
  <2> QED BY <2>1, <2>9
<1>9. CASE UNCHANGED vars
  BY <1>9 DEF vars, producerVars, consumerVars, TypeOK, ReservedSlotsSafe, SlotsHoldPublishedItems, Size, Offset
<1> QED BY <1>1, <1>2, <1>3, <1>4, <1>5, <1>6, <1>7, <1>8, <1>9 DEF Next, Producer, Consumer

\* The invariant holds in every reachable state, for every capacity.
THEOREM Invariant == Spec => []IInv
BY InitIInv, NextIInv, PTL DEF Spec

\* Indices, results and locals keep their types.
THEOREM TypeCorrect == Spec => []TypeOK
BY Invariant, PTL DEF IInv

\* Producer and consumer are never in one slot of buffer_, whatever the age of
\* the index each has loaded.
THEOREM SlotsNeverShared == Spec => []ReservedSlotsSafe
BY Invariant, PTL DEF IInv

\* A published slot holds a packet until it is popped, and no other slot does.
THEOREM PublishedItemsKept == Spec => []SlotsHoldPublishedItems
BY Invariant, PTL DEF IInv

-----------------------------------------------------------------------------
(***************************************************************************)
(* SpscRing implements BoundedFifo.                                        *)
(***************************************************************************)

\* The slot i - 1 places past slot t.
LEMMA SlotPast ==
  ASSUME NEW t \in Slots, NEW i \in 1 .. Capacity
  PROVE  /\ (t + i - 1) % Capacity \in Slots
         /\ (t + i - 1) % Capacity =
              IF t + i - 1 < Capacity THEN t + i - 1 ELSE t + i - 1 - Capacity
<1>1. t + i - 1 \in 0 .. 2 * Capacity - 1
  BY DEF Slots
<1>2. PICK a \in 0 .. 2 * Capacity - 1 : a = t + i - 1
  BY <1>1, Zenon
<1>3. (t + i - 1) % Capacity = IF a < Capacity THEN a ELSE a - Capacity
  BY <1>2, ModBelowTwice, Zenon
<1> QED BY <1>2, <1>3 DEF Slots

\* The slots from tail_ up to head_ are a sequence of items.
QueueOK ==
  /\ Size \in 0 .. Capacity - 1
  /\ Queue \in Seq(Items)
  /\ Len(Queue) = Size

LEMMA QueueContents == IInv => QueueOK
<1> SUFFICES ASSUME TypeOK, SlotsHoldPublishedItems PROVE QueueOK
  BY DEF IInv
<1>1. Size \in 0 .. Capacity - 1
  BY Distance DEF TypeOK, Size, Slots
<1>2. ASSUME NEW i \in 1 .. Size
      PROVE  Queue[i] \in Items
  <2> DEFINE s == (tail + i - 1) % Capacity
  <2>1. s \in Slots /\ s = IF tail + i - 1 < Capacity THEN tail + i - 1 ELSE tail + i - 1 - Capacity
    BY <1>1, SlotPast DEF TypeOK
  <2>2. Offset(s) = IF s < tail THEN s + Capacity - tail ELSE s - tail
    BY <2>1, Distance DEF TypeOK, Offset
  <2>3. Offset(s) = i - 1 /\ (s = tail => i = 1)
    BY <1>1, <2>1, <2>2 DEF TypeOK, Slots
  <2>4. ~(cpc = "publish" /\ i = 1) => buffer[s] \in Items
    <3> HIDE DEF s
    <3> QED BY <1>1, <2>1, <2>3 DEF TypeOK, SlotsHoldPublishedItems
  <2>5. cpc = "publish" => taken \in Items
    BY DEF TypeOK, SlotsHoldPublishedItems
  <2> QED BY <2>4, <2>5 DEF Queue
<1>3. Queue = [i \in 1 .. Size |-> Queue[i]] /\ DOMAIN Queue = 1 .. Size
  BY DEF Queue
<1> QED BY <1>1, <1>2, <1>3 DEF QueueOK

\* The ring starts as the empty queue.
LEMMA InitFifo == Init => Fifo!Init
<1> SUFFICES ASSUME Init PROVE Fifo!Init
  OBVIOUS
<1>1. QueueOK
  BY InitIInv, QueueContents
<1>2. Size = 0
  BY Distance DEF Init, Size, Slots
<1>3. Queue = <<>>
  BY <1>1, <1>2 DEF QueueOK
<1> QED BY <1>3 DEF Init, Fifo!Init

\* Two sequences of one length with the same elements are equal.
LEMMA SeqEqual ==
  ASSUME NEW S, NEW a \in Seq(S), NEW b \in Seq(S), Len(a) = Len(b),
         \A i \in 1 .. Len(a) : a[i] = b[i]
  PROVE  a = b
OBVIOUS

\* What position i of the queue is, from the slots.
LEMMA QueueAt ==
  ASSUME TypeOK, NEW i \in 1 .. Size
  PROVE  Queue[i] = IF i = 1 /\ cpc = "publish" THEN taken
                    ELSE buffer[(tail + i - 1) % Capacity]
BY DEF Queue

\* Only the two stores of an index change the queue.
LEMMA InternalSteps ==
  ASSUME IInv, IInv',
         PushStore \/ PopTake \/ PopReserve \/ (\E v \in Items : PushReserve(v))
  PROVE  Queue' = Queue
<1>1. head' = head /\ tail' = tail /\ Size' = Size
  BY DEF PushStore, PopTake, PopReserve, PushReserve, producerVars, consumerVars, Size
<1>2. /\ Size \in 0 .. Capacity - 1
      /\ Queue \in Seq(Items)  /\ Len(Queue) = Size
  BY QueueContents DEF QueueOK
<1>p. QueueOK'
  BY QueueContents, PTL
<1>3. /\ Queue' \in Seq(Items) /\ Len(Queue') = Size
  BY <1>1, <1>p DEF QueueOK
<1>4. ASSUME NEW i \in 1 .. Size
      PROVE  Queue'[i] = Queue[i]
  <2> DEFINE s == (tail + i - 1) % Capacity
  <2>1. s \in Slots /\ s = IF tail + i - 1 < Capacity THEN tail + i - 1 ELSE tail + i - 1 - Capacity
    BY <1>2, SlotPast DEF TypeOK, IInv
  <2>2. Size = IF head < tail THEN head + Capacity - tail ELSE head - tail
    BY Distance DEF TypeOK, Size, IInv
  <2>3. s # head /\ (s = tail <=> i = 1)
    <3> HIDE DEF s
    <3> QED BY <1>2, <2>1, <2>2 DEF TypeOK, Slots, IInv
  <2>4. Queue[i] = IF i = 1 /\ cpc = "publish" THEN taken ELSE buffer[s]
    BY DEF Queue
  <2>5. Queue'[i] = IF i = 1 /\ cpc' = "publish" THEN taken' ELSE buffer'[s]
    BY <1>1 DEF Queue
  <2> HIDE DEF s
  <2>6. CASE PopTake
    BY <2>1, <2>3, <2>4, <2>5, <2>6 DEF PopTake, TypeOK, IInv
  <2>7. CASE PushStore
    BY <2>1, <2>3, <2>4, <2>5, <2>7 DEF PushStore, TypeOK, IInv, consumerVars
  <2>8. CASE PopReserve
    BY <2>4, <2>5, <2>8 DEF PopReserve
  <2>9. CASE \E v \in Items : PushReserve(v)
    BY <2>4, <2>5, <2>9 DEF PushReserve, consumerVars
  <2> QED BY <2>6, <2>7, <2>8, <2>9
<1> QED BY <1>2, <1>3, <1>4, SeqEqual

\* The store of head_ is the push of the abstract queue.
LEMMA PublishIsPush ==
  ASSUME IInv, IInv', PushPublish
  PROVE  Fifo!Push(item)
<1>1. /\ tail' = tail /\ cpc' = cpc /\ taken' = taken /\ buffer' = buffer
      /\ head' \in Slots /\ item \in Items /\ buffer[head] = item
  BY DEF PushPublish, consumerVars, IInv, TypeOK, SlotsHoldPublishedItems
<1>2. head' = IF head + 1 = Capacity THEN 0 ELSE head + 1
  BY SuccInSlots DEF PushPublish, IInv, TypeOK
<1>3. head' # tail
  BY DEF PushPublish, IInv, ReservedSlotsSafe
<1>4. Size = IF head < tail THEN head + Capacity - tail ELSE head - tail
  BY Distance DEF TypeOK, Size, IInv
<1>5. Size' = IF head' < tail THEN head' + Capacity - tail ELSE head' - tail
  BY <1>1, Distance DEF TypeOK, Size, IInv
<1>6. Size' = Size + 1 /\ Size \in 0 .. Capacity - 2
  BY <1>2, <1>3, <1>4, <1>5 DEF TypeOK, Slots, IInv
<1>p. QueueOK'
  BY QueueContents, PTL
<1>7. /\ Queue \in Seq(Items) /\ Len(Queue) = Size
      /\ Queue' \in Seq(Items) /\ Len(Queue') = Size + 1
  BY <1>6, <1>p, QueueContents DEF QueueOK
<1>8. ASSUME NEW i \in 1 .. Size
      PROVE  Queue'[i] = Queue[i]
  BY <1>1, <1>6 DEF Queue
<1>9. Queue'[Size + 1] = item
  <2>1. (tail + (Size + 1) - 1) % Capacity = head
    BY <1>4, <1>6, SlotPast DEF TypeOK, Slots, IInv
  <2>2. ~(Size + 1 = 1 /\ cpc = "publish")
    BY <1>4, <1>6 DEF IInv, TypeOK, ReservedSlotsSafe, Slots
  <2> QED BY <1>1, <1>6, <2>1, <2>2 DEF Queue
<1>10. Queue' = Append(Queue, item)
  <2>1. /\ Append(Queue, item) \in Seq(Items)
        /\ Len(Append(Queue, item)) = Size + 1
        /\ \A i \in 1 .. Size + 1 :
             Append(Queue, item)[i] = IF i = Size + 1 THEN item ELSE Queue[i]
    BY <1>1, <1>6, <1>7
  <2> QED BY <1>6, <1>7, <1>8, <1>9, <2>1, SeqEqual
<1> QED BY <1>6, <1>7, <1>10 DEF PushPublish, consumerVars, Fifo!Push

\* The store of tail_ is the pop of the abstract queue.
LEMMA PublishIsPop ==
  ASSUME IInv, IInv', PopPublish
  PROVE  Fifo!Pop
<1>1. /\ head' = head /\ ppc' = ppc /\ buffer' = buffer /\ cpc = "publish" /\ cpc' = "idle"
      /\ tail' \in Slots /\ head # tail
  BY DEF PopPublish, producerVars, IInv, TypeOK, ReservedSlotsSafe
<1>2. tail' = IF tail + 1 = Capacity THEN 0 ELSE tail + 1
  BY SuccInSlots DEF PopPublish, IInv, TypeOK
<1>3. Size = IF head < tail THEN head + Capacity - tail ELSE head - tail
  BY Distance DEF TypeOK, Size, IInv
<1>4. Size' = IF head < tail' THEN head + Capacity - tail' ELSE head - tail'
  BY <1>1, Distance DEF TypeOK, Size, IInv
<1>5. Size' = Size - 1 /\ Size \in 1 .. Capacity - 1
  BY <1>1, <1>2, <1>3, <1>4 DEF TypeOK, Slots, IInv
<1>p. QueueOK'
  BY QueueContents, PTL
<1>6. /\ Queue \in Seq(Items) /\ Len(Queue) = Size
      /\ Queue' \in Seq(Items) /\ Len(Queue') = Size - 1
  BY <1>5, <1>p, QueueContents DEF QueueOK
<1>7. Queue[1] = taken
  BY <1>1, <1>5 DEF Queue
<1>8. ASSUME NEW i \in 1 .. Size - 1
      PROVE  Queue'[i] = Queue[i + 1]
  <2>1. (tail' + i - 1) % Capacity =
          IF tail' + i - 1 < Capacity THEN tail' + i - 1 ELSE tail' + i - 1 - Capacity
    BY <1>1, <1>5, SlotPast
  <2>2. i + 1 \in 1 .. Capacity
    BY <1>5
  <2>3. PICK j \in 1 .. Capacity : j = i + 1
    BY <2>2, Zenon
  <2>4. (tail + j - 1) % Capacity =
          IF tail + j - 1 < Capacity THEN tail + j - 1 ELSE tail + j - 1 - Capacity
    BY SlotPast DEF IInv, TypeOK
  <2>5. (tail + j - 1) % Capacity = (tail' + i - 1) % Capacity
    BY <1>2, <2>1, <2>3, <2>4 DEF IInv, TypeOK, Slots
  <2>6. Queue'[i] = buffer[(tail' + i - 1) % Capacity]
    BY <1>1, <1>5 DEF Queue
  <2>7. j \in 1 .. Size /\ j # 1
    BY <1>5, <2>3
  <2>8. Queue[j] = buffer[(tail + j - 1) % Capacity]
    BY <2>7 DEF Queue
  <2> QED BY <2>3, <2>5, <2>6, <2>8
<1>9. Queue' = Tail(Queue)
  <2>1. /\ Tail(Queue) \in Seq(Items)
        /\ Len(Tail(Queue)) = Size - 1
        /\ \A i \in 1 .. Size - 1 : Tail(Queue)[i] = Queue[i + 1]
    BY <1>5, <1>6
  <2> QED BY <1>6, <1>8, <2>1, SeqEqual
<1>10. Queue # <<>> /\ Head(Queue) = taken
  BY <1>5, <1>6, <1>7
<1> QED BY <1>9, <1>10 DEF PopPublish, producerVars, Fifo!Pop

\* Every step of the ring is a step of the abstract queue or leaves it alone.
LEMMA NextFifo == IInv /\ IInv' /\ [Next]_vars => [Fifo!Next]_(Fifo!vars)
<1> SUFFICES ASSUME IInv, IInv', [Next]_vars PROVE [Fifo!Next]_(Fifo!vars)
  OBVIOUS
<1>s. /\ Size = IF head < tail THEN head + Capacity - tail ELSE head - tail
      /\ Size \in 0 .. Capacity - 1
      /\ Queue \in Seq(Items) /\ Len(Queue) = Size
  BY Distance, QueueContents DEF TypeOK, Size, IInv, QueueOK
<1>1. CASE PushFull
  <2>0. tail = IF head + 1 = Capacity THEN 0 ELSE head + 1
    BY <1>1, SuccInSlots DEF PushFull, IInv, TypeOK
  <2>1. Size = Capacity - 1
    BY <1>s, <2>0 DEF IInv, TypeOK, Slots
  <2>2. Queue' = Queue
    BY <1>1 DEF PushFull, consumerVars, Queue, Size
  <2> QED BY <1>1, <1>s, <2>1, <2>2 DEF PushFull, consumerVars, Fifo!PushFull, Fifo!Next
<1>2. CASE PushPublish
  <2>1. item \in Items
    BY <1>2 DEF PushPublish, IInv, TypeOK, SlotsHoldPublishedItems
  <2> QED BY <1>2, <2>1, PublishIsPush DEF Fifo!Next
<1>3. CASE PopEmpty
  <2>1. Queue = <<>>
    BY <1>3, <1>s DEF PopEmpty, IInv, TypeOK, Slots
  <2>2. Queue' = Queue
    BY <1>3 DEF PopEmpty, producerVars, Queue, Size
  <2> QED BY <1>3, <2>1, <2>2 DEF PopEmpty, producerVars, Fifo!PopEmpty, Fifo!Next
<1>4. CASE PopPublish
  BY <1>4, PublishIsPop DEF Fifo!Next
<1>5. CASE PushStore \/ PopTake \/ PopReserve \/ \E v \in Items : PushReserve(v)
  <2>1. Queue' = Queue
    BY <1>5, InternalSteps
  <2>2. pushed' = pushed /\ popped' = popped
    BY <1>5 DEF PushStore, PopTake, PopReserve, PushReserve, producerVars, consumerVars
  <2> QED BY <2>1, <2>2 DEF Fifo!vars
<1>6. CASE UNCHANGED vars
  BY <1>6 DEF vars, producerVars, consumerVars, Queue, Size, Fifo!vars
<1> QED BY <1>1, <1>2, <1>3, <1>4, <1>5, <1>6 DEF Next, Producer, Consumer

\* The ring behaves as one atomic bounded FIFO, for every capacity and every
\* set of items.
THEOREM RingImplementsFifo == Spec => ImplementsFifo
BY InitFifo, NextFifo, Invariant, PTL DEF Spec, ImplementsFifo, Fifo!Spec
=============================================================================
