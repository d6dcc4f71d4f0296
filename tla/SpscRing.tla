------------------------------ MODULE SpscRing ------------------------------
(***************************************************************************)
(* SPSCRingBuffer of src/bundles/recplay_core/src/RingBuffer.h, one action *)
(* per access to memory the two threads share: the load of the other       *)
(* side's index, the access to the slot, the store of one's own index.     *)
(* A thread's load of its own index is not an action: only it writes it.   *)
(* The release stores and acquire loads of the code order the slot access  *)
(* before the index, so the steps of one thread take effect in program     *)
(* order.                                                                  *)
(***************************************************************************)
EXTENDS Naturals, Sequences

CONSTANTS
  Items,      \* values pushed
  NoItem,     \* a default-constructed or moved-from slot; std::nullopt
  Capacity    \* template parameter: number of slots

\* static_assert at RingBuffer.h:18 also makes Capacity a power of two, so that
\* (i + 1) & kMask is (i + 1) % Capacity; nothing else of it is needed.
ASSUME CapacityAssumption == Capacity \in Nat \ {0}
ASSUME NoItemAssumption == NoItem \notin Items

VARIABLES
  head,       \* head_: next slot the producer fills
  tail,       \* tail_: next slot the consumer empties
  buffer,     \* buffer_
  ppc,        \* where the producer is in TryPush: "idle", "store", "publish"
  item,       \* its argument
  cpc,        \* where the consumer is in TryPop: "idle", "take", "publish"
  taken,      \* its local item
  pushed,     \* result of the last TryPush
  popped      \* result of the last TryPop

producerVars == <<head, ppc, item, pushed>>
consumerVars == <<tail, cpc, taken, popped>>
vars == <<buffer, producerVars, consumerVars>>

Slots == 0 .. Capacity - 1

\* A mutant of Succ: the mask is forgotten.
SuccUnmasked(i) == i + 1

\* (i + 1) & kMask
Succ(i) == (i + 1) % Capacity

\* Size(): also what IsEmpty and IsFull compare
Size == (head + Capacity - tail) % Capacity

Init ==
  /\ head = 0
  /\ tail = 0
  /\ buffer = [s \in Slots |-> NoItem]
  /\ ppc = "idle"
  /\ item = NoItem
  /\ cpc = "idle"
  /\ taken = NoItem
  /\ pushed = "none"
  /\ popped = NoItem

-----------------------------------------------------------------------------
(***************************************************************************)
(* Plausible bugs, for the mutant runs only.                               *)
(***************************************************************************)

\* The full test compares head_ itself with tail_: no slot is kept free.
PushReserveNoGap(v) ==
  /\ ppc = "idle"
  /\ ppc' = "store"
  /\ item' = v
  /\ UNCHANGED <<head, pushed, buffer, consumerVars>>

\* The pointer is copied out of the slot instead of moved.
PopTakeByCopy ==
  /\ cpc = "take"
  /\ taken' = buffer[tail]
  /\ cpc' = "publish"
  /\ UNCHANGED <<buffer, tail, popped, producerVars>>

\* The emptiness test looks one slot ahead.
PopEmptyOneEarly ==
  /\ cpc = "idle"
  /\ Succ(tail) = head
  /\ popped' = NoItem
  /\ UNCHANGED <<tail, cpc, taken, buffer, producerVars>>

-----------------------------------------------------------------------------
(***************************************************************************)
(* TryPush.                                                                *)
(***************************************************************************)

\* The load of tail_ finds no free slot: return false.
PushFull ==
  /\ ppc = "idle"
  /\ Succ(head) = tail
  /\ pushed' = "full"
  /\ UNCHANGED <<head, ppc, item, buffer, consumerVars>>

\* The load of tail_ finds a free slot: go on to fill it.
PushReserve(v) ==
  /\ ppc = "idle"
  /\ Succ(head) # tail
  /\ ppc' = "store"
  /\ item' = v
  /\ UNCHANGED <<head, pushed, buffer, consumerVars>>

PushStore ==
  /\ ppc = "store"
  /\ buffer' = [buffer EXCEPT ![head] = item]
  /\ ppc' = "publish"
  /\ UNCHANGED <<head, item, pushed, consumerVars>>

PushPublish ==
  /\ ppc = "publish"
  /\ head' = Succ(head)
  /\ pushed' = "ok"
  /\ ppc' = "idle"
  /\ item' = NoItem
  /\ UNCHANGED <<buffer, consumerVars>>

(***************************************************************************)
(* TryPop.                                                                 *)
(***************************************************************************)

\* The load of head_ finds the buffer empty: return nullopt.
PopEmpty ==
  /\ cpc = "idle"
  /\ tail = head
  /\ popped' = NoItem
  /\ UNCHANGED <<tail, cpc, taken, buffer, producerVars>>

PopReserve ==
  /\ cpc = "idle"
  /\ tail # head
  /\ cpc' = "take"
  /\ UNCHANGED <<tail, taken, popped, buffer, producerVars>>

\* std::move leaves the slot's pointer null.
PopTake ==
  /\ cpc = "take"
  /\ taken' = buffer[tail]
  /\ buffer' = [buffer EXCEPT ![tail] = NoItem]
  /\ cpc' = "publish"
  /\ UNCHANGED <<tail, popped, producerVars>>

PopPublish ==
  /\ cpc = "publish"
  /\ tail' = Succ(tail)
  /\ popped' = taken
  /\ taken' = NoItem
  /\ cpc' = "idle"
  /\ UNCHANGED <<buffer, producerVars>>

Producer ==
  \/ PushFull
  \/ \E v \in Items : PushReserve(v)
  \/ PushStore
  \/ PushPublish

Consumer ==
  \/ PopEmpty
  \/ PopReserve
  \/ PopTake
  \/ PopPublish

Next == Producer \/ Consumer

Spec == Init /\ [][Next]_vars

-----------------------------------------------------------------------------
(***************************************************************************)
(* Properties.                                                             *)
(***************************************************************************)

\* Both indices stay inside buffer_ (RingBuffer.h:73-75), and results and locals
\* are what TryPush and TryPop can produce.
TypeOK ==
  /\ head \in Slots
  /\ tail \in Slots
  /\ buffer \in [Slots -> Items \cup {NoItem}]
  /\ ppc \in {"idle", "store", "publish"}
  /\ item \in Items \cup {NoItem}
  /\ cpc \in {"idle", "take", "publish"}
  /\ taken \in Items \cup {NoItem}
  /\ pushed \in {"none", "ok", "full"}
  /\ popped \in Items \cup {NoItem}

\* How far slot s lies past tail_, going round.
Offset(s) == (s + Capacity - tail) % Capacity

\* The tail_ a producer loaded may be old by the time it stores into its slot,
\* and so may the head_ a consumer loaded: still the slot the producer is
\* filling is free, the slot the consumer is emptying is published, and the
\* two threads are never in one slot.
ReservedSlotsSafe ==
  /\ ppc # "idle" => Succ(head) # tail
  /\ cpc # "idle" => head # tail

\* Every published slot holds an item, except the one the consumer has just
\* moved out of; every other slot is empty, except the one the producer has
\* just filled.  So TryPop never returns a null packet, and the ring keeps no
\* reference to a packet it has handed over.
SlotsHoldPublishedItems ==
  /\ \A s \in Slots :
       buffer[s] # NoItem <=>
         \/ Offset(s) < Size /\ ~(cpc = "publish" /\ s = tail)
         \/ ppc = "publish" /\ s = head
  /\ ppc # "idle" => item # NoItem
  /\ ppc = "publish" => buffer[head] = item
  /\ cpc = "publish" => taken # NoItem

\* The queue the two indices stand for: the slots from tail_ up to head_; the
\* item being popped still counts until the store of tail_.
Queue ==
  [i \in 1 .. Size |->
     IF i = 1 /\ cpc = "publish" THEN taken ELSE buffer[(tail + i - 1) % Capacity]]

Fifo == INSTANCE BoundedFifo WITH queue <- Queue, Bound <- Capacity - 1

\* Pushes and pops that overlap step by step still behave as one atomic queue
\* that gives the items back in the order they were pushed, loses and
\* duplicates none, refuses a push only when Capacity - 1 items are in it and
\* a pop only when none is.
ImplementsFifo == Fifo!Spec
=============================================================================
