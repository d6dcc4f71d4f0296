----------------------------- MODULE BoundedFifo -----------------------------
(***************************************************************************)
(* What SPSCRingBuffer (RingBuffer.h) promises the protocol thread that    *)
(* pushes and the worker that pops: one atomic FIFO of at most Bound items *)
(* whose TryPush fails only when the queue is full and whose TryPop fails  *)
(* only when it is empty.  Module SpscRing is shown to implement it.       *)
(***************************************************************************)
EXTENDS Naturals, Sequences

CONSTANTS
  Items,    \* what is pushed (PacketPtr in CoreEngine)
  NoItem,   \* std::nullopt
  Bound     \* GetCapacity(): the items that fit

VARIABLES
  queue,    \* the items pushed and not yet popped, oldest first
  pushed,   \* result of the last TryPush: "none" before the first one
  popped    \* result of the last TryPop: an item or NoItem

vars == <<queue, pushed, popped>>

Init ==
  /\ queue = <<>>
  /\ pushed = "none"
  /\ popped = NoItem

Push(v) ==
  /\ Len(queue) < Bound
  /\ queue' = Append(queue, v)
  /\ pushed' = "ok"
  /\ UNCHANGED popped

PushFull ==
  /\ Len(queue) = Bound
  /\ pushed' = "full"
  /\ UNCHANGED <<queue, popped>>

Pop ==
  /\ queue # <<>>
  /\ popped' = Head(queue)
  /\ queue' = Tail(queue)
  /\ UNCHANGED pushed

PopEmpty ==
  /\ queue = <<>>
  /\ popped' = NoItem
  /\ UNCHANGED <<queue, pushed>>

Next ==
  \/ \E v \in Items : Push(v)
  \/ PushFull
  \/ Pop
  \/ PopEmpty

Spec == Init /\ [][Next]_vars
=============================================================================
