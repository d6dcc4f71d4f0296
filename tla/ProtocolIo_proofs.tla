--------------------------- MODULE ProtocolIo_proofs ---------------------------
(***************************************************************************)
(* What is proved of the protocol services: whatever was started is        *)
(* served, a socket has one loop while no handler of an older capture is   *)
(* left, and a service whose context is reset has nothing that runs.       *)
(***************************************************************************)
EXTENDS ProtocolIo, FiniteSetTheorems, SequenceTheorems, TLAPS

Kinds == {"udp", "acceptor", "connecting", "stream"}
HandleType == [kind : Kinds, capture : Nat, open : BOOLEAN, pending : Nat]
DoneType == [h : Nat, ok : BOOLEAN]
IoType == [pc : Kinds \cup {"idle", "callback", "again", "remove"}, h : Nat, ok : BOOLEAN, cb : Nat]
CaptureOps == {"StartCapture", "StopCapture"}
ReplayOps == {"StartReplay", "StopReplay"}
CallType ==
  [op : CaptureOps \cup ReplayOps \cup {"none"},
   pc : {"idle", "close", "closeTaken", "closeReplay", "reset", "join", "open", "arm", "attach",
         "endReplay", "context", "connect", "return"},
   mode : Modes \cup {"none"}, failed : BOOLEAN, stolen : SUBSET Nat]

\* Every variable has its type, records with all their fields.
Types ==
  /\ service \in {"udp", "tcp"} /\ context \in {"none", "running", "stopped"}
  /\ capturing \in BOOLEAN /\ callback \in Nat /\ listener \in Nat /\ sockets \in SUBSET Nat
  /\ replay \in BOOLEAN /\ replaying \in BOOLEAN /\ lingering \in BOOLEAN
  /\ handles \in Seq(HandleType) /\ queue \in Seq(DoneType) /\ io \in IoType /\ call \in CallType
  /\ captures \in 0..MaxCaptures /\ events \in Nat /\ delivered \in SUBSET (Nat \X Nat)

\* What is referred to is a handle of the context.
Refers ==
  /\ listener \in 0..Len(handles) /\ sockets \subseteq 1..Len(handles)
  /\ call.stolen \subseteq 1..Len(handles)
  /\ \A i \in 1..Len(queue) : queue[i].h \in 1..Len(handles)
  /\ IF io.pc = "idle" THEN io = IoIdle ELSE io.h \in 1..Len(handles)

\* Which call is at which section, and what holds there.
Cleared == ~capturing /\ callback = 0 /\ listener = 0 /\ sockets = {}
Control ==
  /\ At("idle") => call = NoCall
  /\ call.op = "none" => At("idle")
  /\ At("close") \/ At("closeTaken") => call.op \in CaptureOps
  /\ At("open") \/ At("arm") \/ At("attach") => call.op = "StartCapture" /\ ~call.failed
  /\ At("closeTaken") \/ At("attach") => service = "tcp"
  /\ At("arm") => service = "udp" /\ listener # 0 /\ capturing
  /\ At("attach") => listener = 0
  /\ At("closeReplay") \/ At("endReplay") \/ At("context") \/ At("connect") => call.op \in ReplayOps
  /\ At("join") => ~InUse
  /\ call.stolen # {} => At("closeTaken")
  /\ call.op \in CaptureOps /\ call.pc \in {"closeTaken", "reset", "join", "open"} => Cleared
  /\ call.op = "StartCapture" /\ ~call.failed /\ call.pc \in {"close", "closeTaken", "reset", "join", "open"} =>
       captures < MaxCaptures

\* A context is there for what is open, and is gone only with all it ran.
Context ==
  /\ context = "none" => handles = <<>>
  /\ context = "stopped" => At("join")
  /\ replay \/ At("attach") \/ At("arm") \/ At("connect") => context # "none"

\* What a capture has: a callback, a source, and open sockets of the service's kind.
Sources ==
  /\ capturing => callback # 0
  /\ callback # 0 => callback = captures
  /\ capturing => listener # 0 \/ sockets # {} \/ At("attach") \/ At("close")
  /\ service = "udp" => sockets = {} /\ \A h \in 1..Len(handles) : handles[h].kind = "udp"
  /\ service = "tcp" => \A h \in 1..Len(handles) : handles[h].kind # "udp"
  /\ listener # 0 => handles[listener].open /\ handles[listener].kind \in {"udp", "acceptor"}
  /\ \A h \in sockets : handles[h].open /\ handles[h].kind \in {"stream", "connecting"}
  /\ \A h \in 1..Len(handles) : handles[h].open \/ handles[h].pending = 0

\* The handler that runs is of its handle's kind.
Handlers ==
  /\ io.pc \in Kinds => handles[io.h].kind = io.pc
  /\ io.pc = "remove" => handles[io.h].kind \in {"stream", "connecting"}
  /\ io.pc = "callback" => handles[io.h].kind \in {"udp", "stream"}
  /\ io.pc = "again" => handles[io.h].kind \in {"udp", "stream", "acceptor"}

\* Every loop of a capture goes on; that of a UDP capture begins with ArmUdp and ends with
\* an error.
Queued(h) == \E i \in 1..Len(queue) : queue[i].h = h
Alive(h) == handles[h].pending > 0 \/ InHand(h) \/ Queued(h)
Failed == service = "udp" /\ "error" \in lost
Loops ==
  capturing /\ ~At("close") =>
    /\ listener # 0 => At("arm") \/ Alive(listener) \/ Failed
    /\ \A h \in sockets : Alive(h)

\* What was started captures, or something has ended it.
Started ==
  /\ started \in BOOLEAN /\ lost \in SUBSET Ends
  /\ started \/ (call.op = "StartCapture" /\ ~call.failed /\ call.pc \in {"arm", "attach", "return"}) =>
    capturing \/ lost # {}

\* Without handlers of an older capture a handle is in one place only, and every
\* handle, and the packet in hand, is of the last capture.
Tokens ==
  /\ \A h \in 1..Len(handles) :
       /\ handles[h].pending <= 1
       /\ handles[h].pending = 1 => ~InHand(h) /\ ~Queued(h)
       /\ InHand(h) => ~Queued(h)
  /\ \A i, j \in 1..Len(queue) : queue[i].h = queue[j].h => i = j
Single ==
  /\ Tokens
  /\ \A h \in 1..Len(handles) :
       /\ handles[h].capture = captures
       /\ handles[h].kind \in {"udp", "acceptor"} => listener \in {0, h}
  /\ At("arm") => ~Alive(listener)
  /\ At("open") \/ At("attach") => handles = <<>>
  /\ io.pc = "callback" => io.cb = captures
  /\ \A d \in delivered : d[1] = d[2]

IInv ==
  /\ Types /\ Refers /\ Control /\ Context /\ Sources /\ Handlers /\ Loops
  /\ lingering \/ Single
-----------------------------------------------------------------------------
(***************************************************************************)
(* The operators on handles and on the queue.                              *)
(***************************************************************************)

\* What the types say of a handle and of an entry of the queue.
LEMMA Typed ==
  ASSUME Types
  PROVE  /\ handles \in Seq(HandleType) /\ Len(handles) \in Nat
         /\ \A h \in 1..Len(handles) :
              /\ handles[h] \in HandleType
              /\ handles[h].kind \in Kinds /\ handles[h].capture \in Nat
              /\ handles[h].open \in BOOLEAN /\ handles[h].pending \in Nat
         /\ queue \in Seq(DoneType) /\ Len(queue) \in Nat
         /\ \A i \in 1..Len(queue) : queue[i].h \in Nat /\ queue[i].ok \in BOOLEAN
<1>1. handles \in Seq(HandleType) /\ queue \in Seq(DoneType)
  BY DEF Types
<1>2. \A h \in 1..Len(handles) : handles[h] \in HandleType
  BY <1>1
<1>3. \A i \in 1..Len(queue) : queue[i] \in DoneType
  BY <1>1
<1>4. Len(handles) \in Nat /\ Len(queue) \in Nat
  BY <1>1
<1>5. \A x \in HandleType : x.kind \in Kinds /\ x.capture \in Nat /\ x.open \in BOOLEAN /\ x.pending \in Nat
  BY DEF HandleType
<1>6. \A x \in DoneType : x.h \in Nat /\ x.ok \in BOOLEAN
  BY DEF DoneType
<1> QED
  BY <1>1, <1>2, <1>3, <1>4, <1>5, <1>6

\* The pairs of a handle and one of its pending operations are finitely many.
LEMMA PendingFinite ==
  ASSUME Types, NEW closed, closed \subseteq 1..Len(handles)
  PROVE  IsFiniteSet(Pending(handles, closed))
<1> DEFINE Of == [h \in closed |-> {h} \X (1..handles[h].pending)]
           All == {{h} \X (1..handles[h].pending) : h \in closed}
<1>1. IsFiniteSet(closed)
  <2>1. Len(handles) \in Nat
    BY Typed
  <2>2. IsFiniteSet(1..Len(handles))
    BY <2>1, FS_Interval
  <2> QED
    BY <2>2, FS_Subset
<1>2. IsFiniteSet(All)
  <2>1. Of \in Surjection(closed, All)
    BY DEF Surjection
  <2> QED
    BY <1>1, <2>1, FS_Surjection
<1>3. ASSUME NEW h \in closed PROVE IsFiniteSet({h} \X (1..handles[h].pending))
  <2> DEFINE n == handles[h].pending
  <2>1. n \in Nat
    BY Typed
  <2> HIDE DEF n
  <2>2. IsFiniteSet(1..n)
    BY <2>1, FS_Interval
  <2>3. IsFiniteSet({h})
    BY FS_Singleton
  <2> QED
    BY <2>2, <2>3, FS_Product DEF n
<1>4. \A S \in All : IsFiniteSet(S)
  BY <1>3
<1> QED
  BY <1>2, <1>4, FS_UNION DEF Pending

\* The updates of a handle keep its type.
LEMMA HandleUpdates ==
  ASSUME NEW x \in HandleType
  PROVE  /\ [x EXCEPT !.open = FALSE, !.pending = 0] \in HandleType
         /\ [x EXCEPT !.pending = x.pending + 1] \in HandleType
         /\ x.pending > 0 => [x EXCEPT !.pending = x.pending - 1] \in HandleType
         /\ [x EXCEPT !.kind = "stream"] \in HandleType
<1>1. [x EXCEPT !.open = FALSE, !.pending = 0] \in HandleType
  BY DEF HandleType
<1>2. [x EXCEPT !.pending = x.pending + 1] \in HandleType
  BY DEF HandleType
<1>3. x.pending > 0 => [x EXCEPT !.pending = x.pending - 1] \in HandleType
  BY DEF HandleType
<1>4. [x EXCEPT !.kind = "stream"] \in HandleType
  BY DEF HandleType, Kinds
<1> QED
  BY <1>1, <1>2, <1>3, <1>4

\* What appending a sequence makes of a sequence.
LEMMA Appended ==
  ASSUME NEW S, NEW q \in Seq(S), NEW t \in Seq(S), NEW r, r = q \o t
  PROVE  /\ r \in Seq(S) /\ Len(r) = Len(q) + Len(t) /\ Len(q) \in Nat /\ Len(t) \in Nat
         /\ \A i \in 1..Len(q) : r[i] = q[i]
         /\ \A i \in (Len(q) + 1)..Len(r) : i - Len(q) \in 1..Len(t) /\ r[i] = t[i - Len(q)]
<1>1. r \in Seq(S) /\ Len(r) = Len(q) + Len(t) /\ Len(q) \in Nat /\ Len(t) \in Nat
  OBVIOUS
<1>2. \A i \in 1..Len(q) : r[i] = q[i]
  BY ConcatProperties
<1>3. \A i \in (Len(q) + 1)..Len(r) : i - Len(q) \in 1..Len(t) /\ r[i] = t[i - Len(q)]
  BY <1>1, ConcatProperties
<1> QED
  BY <1>1, <1>2, <1>3

\* One failure for each element of an order in which handles are closed.
LEMMA FailuresEffect ==
  ASSUME NEW n \in Nat, NEW order, DOMAIN order = 1..n, \A i \in 1..n : order[i][1] \in Nat
  PROVE  /\ Failures(order) \in Seq(DoneType) /\ Len(Failures(order)) = n
         /\ \A i \in 1..n : Failures(order)[i].h = order[i][1] /\ ~Failures(order)[i].ok
<1> DEFINE news == [i \in 1..n |-> Done(order[i][1], FALSE)]
<1>1. Failures(order) = news
  BY DEF Failures
<1>2. \A i \in 1..n : news[i] \in DoneType /\ news[i].h = order[i][1] /\ ~news[i].ok
  BY DEF Done, DoneType
<1>3. news = [i \in 1..n |-> news[i]]
  OBVIOUS
<1> HIDE DEF news
<1>4. news \in Seq(DoneType) /\ Len(news) = n
  BY <1>2, <1>3
<1> QED
  BY <1>1, <1>2, <1>4

\* A handle and what closing made of it.
Shut(new, old) == new.kind = old.kind /\ new.capture = old.capture /\ ~new.open /\ new.pending = 0

\* What closing makes of a sequence of handles.
LEMMA ClosedHandles ==
  ASSUME NEW hs \in Seq(HandleType), NEW closed
  PROVE  /\ Close(hs, closed) \in Seq(HandleType) /\ Len(Close(hs, closed)) = Len(hs)
         /\ \A h \in 1..Len(hs) : h \notin closed => Close(hs, closed)[h] = hs[h]
         /\ \A h \in 1..Len(hs) : h \in closed => Shut(Close(hs, closed)[h], hs[h])
<1> DEFINE c == [h \in 1..Len(hs) |-> IF h \in closed THEN [hs[h] EXCEPT !.open = FALSE, !.pending = 0] ELSE hs[h]]
<1>1. Close(hs, closed) = c
  BY DEF Close
<1>2. \A h \in 1..Len(hs) : hs[h] \in HandleType
  OBVIOUS
<1>3. \A h \in 1..Len(hs) :
        c[h] = IF h \in closed THEN [hs[h] EXCEPT !.open = FALSE, !.pending = 0] ELSE hs[h]
  OBVIOUS
<1>4. \A h \in 1..Len(hs) : c[h] \in HandleType
  BY <1>2, <1>3, HandleUpdates
<1>5. c = [h \in 1..Len(hs) |-> c[h]] /\ Len(hs) \in Nat
  OBVIOUS
<1>6. \A h \in 1..Len(hs) : h \in closed => Shut(c[h], hs[h])
  BY <1>2, <1>3 DEF Shut, HandleType
<1>7. \A h \in 1..Len(hs) : h \notin closed => c[h] = hs[h]
  BY <1>3
<1> HIDE DEF c
<1>8. c \in Seq(HandleType) /\ Len(c) = Len(hs)
  BY <1>4, <1>5
<1> QED
  BY <1>1, <1>6, <1>7, <1>8

\* close keeps every handle, the closed ones without pending operations, and appends
\* one failure for each operation that was pending on them.
LEMMA CloseAllEffect ==
  ASSUME Types, NEW closed, closed \subseteq 1..Len(handles), CloseAll(closed)
  PROVE  /\ handles' \in Seq(HandleType) /\ Len(handles') = Len(handles)
         /\ \A h \in 1..Len(handles) : h \notin closed => handles'[h] = handles[h]
         /\ \A h \in closed : Shut(handles'[h], handles[h])
         /\ queue' \in Seq(DoneType) /\ Len(queue) <= Len(queue')
         /\ \A i \in 1..Len(queue) : queue'[i] = queue[i]
         /\ \A i \in (Len(queue) + 1)..Len(queue') :
              ~queue'[i].ok /\ queue'[i].h \in closed /\ handles[queue'[i].h].pending > 0
         /\ (\A h \in closed : handles[h].pending <= 1) =>
              \A i, j \in (Len(queue) + 1)..Len(queue') : queue'[i].h = queue'[j].h => i = j
<1> DEFINE P == Pending(handles, closed)
           N == Cardinality(P)
<1>1. \A p \in P : /\ p[1] \in closed /\ p[2] \in 1..handles[p[1]].pending /\ p = <<p[1], p[2]>>
                   /\ p[1] \in Nat
  BY DEF Pending
<1>2. IsFiniteSet(P)
  BY PendingFinite
<1>3. PICK order \in [1..N -> P] :
        /\ \A i, j \in 1..N : i # j => order[i] # order[j]
        /\ queue' = queue \o Failures(order)
  BY DEF CloseAll, SetToSeqs
<1> HIDE DEF P
<1>4. N \in Nat
  BY <1>2, FS_CardinalityType
<1> HIDE DEF N
<1>5. queue \in Seq(DoneType) /\ Len(queue) \in Nat
  BY Typed
<1>6. \A p \in P : p[1] \in Nat
  BY <1>1
<1>7. /\ queue' \in Seq(DoneType) /\ Len(queue') = Len(queue) + N
      /\ \A i \in 1..Len(queue) : queue'[i] = queue[i]
      /\ \A i \in (Len(queue) + 1)..Len(queue') :
           i - Len(queue) \in 1..N /\ queue'[i].h = order[i - Len(queue)][1] /\ ~queue'[i].ok
  <2>1. DOMAIN order = 1..N /\ \A i \in 1..N : order[i][1] \in Nat
    BY <1>3, <1>6
  <2>2. PICK news : news = Failures(order)
    OBVIOUS
  <2>3. /\ news \in Seq(DoneType) /\ Len(news) = N
        /\ \A i \in 1..N : news[i].h = order[i][1] /\ ~news[i].ok
    BY <1>4, <2>1, <2>2, FailuresEffect
  <2>4. queue' = queue \o news
    BY <1>3, <2>2
  <2>5. /\ queue' \in Seq(DoneType) /\ Len(queue') = Len(queue) + Len(news)
        /\ \A i \in 1..Len(queue) : queue'[i] = queue[i]
        /\ \A i \in (Len(queue) + 1)..Len(queue') :
             i - Len(queue) \in 1..Len(news) /\ queue'[i] = news[i - Len(queue)]
    BY <1>5, <2>3, <2>4, Appended
  <2> QED
    BY <2>3, <2>5
<1>8. \A i \in 1..N : order[i] \in P
  BY <1>3
<1>9. ASSUME NEW i \in (Len(queue) + 1)..Len(queue')
      PROVE  ~queue'[i].ok /\ queue'[i].h \in closed /\ handles[queue'[i].h].pending > 0
  <2>1. PICK p \in P : queue'[i].h = p[1] /\ ~queue'[i].ok
    BY <1>7, <1>8
  <2>2. handles[p[1]].pending \in Nat
    BY <1>1, Typed
  <2>3. handles[p[1]].pending > 0
    BY <1>1, <2>2
  <2> QED
    BY <1>1, <2>1, <2>3
<1>10. ASSUME \A h \in closed : handles[h].pending <= 1,
              NEW i \in (Len(queue) + 1)..Len(queue'), NEW j \in (Len(queue) + 1)..Len(queue'),
              queue'[i].h = queue'[j].h
       PROVE  i = j
  <2>1. PICK k \in 1..N : k = i - Len(queue) /\ queue'[i].h = order[k][1]
    BY <1>7
  <2>2. PICK l \in 1..N : l = j - Len(queue) /\ queue'[j].h = order[l][1]
    BY <1>7
  <2>3. order[k] \in P /\ order[l] \in P
    BY <1>8
  <2>4. ASSUME NEW p \in P PROVE p[2] = 1
    <3>1. handles[p[1]].pending \in Nat /\ handles[p[1]].pending <= 1
      BY <1>1, <1>10, Typed
    <3> QED
      BY <1>1, <3>1
  <2>5. order[k] = order[l]
    BY <1>1, <1>10, <2>1, <2>2, <2>3, <2>4
  <2>6. k = l
    BY <1>3, <2>5
  <2> QED
    BY <2>1, <2>2, <2>6, <1>5, <1>7, <1>4
<1>11. /\ handles' \in Seq(HandleType) /\ Len(handles') = Len(handles)
       /\ \A h \in 1..Len(handles) : h \notin closed => handles'[h] = handles[h]
       /\ \A h \in closed : Shut(handles'[h], handles[h])
  <2>1. handles \in Seq(HandleType) /\ handles' = Close(handles, closed)
    BY Typed DEF CloseAll
  <2>2. PICK c : c = Close(handles, closed)
    OBVIOUS
  <2>3. /\ c \in Seq(HandleType) /\ Len(c) = Len(handles)
        /\ \A h \in 1..Len(handles) : h \notin closed => c[h] = handles[h]
        /\ \A h \in 1..Len(handles) : h \in closed => Shut(c[h], handles[h])
    BY <2>1, <2>2, ClosedHandles
  <2>4. handles' = c
    BY <2>1, <2>2
  <2> QED
    BY <2>3, <2>4
<1>12. Len(queue) <= Len(queue')
  BY <1>4, <1>5, <1>7
<1> QED
  BY <1>7, <1>9, <1>10, <1>11, <1>12

\* An operation begun is pending on an open handle, and a failure in the queue on a
\* closed one.
LEMMA BeginEffect ==
  ASSUME NEW hs \in Seq(HandleType), NEW h \in 1..Len(hs)
  PROVE  /\ Begin(hs, h) \in Seq(HandleType) /\ Len(Begin(hs, h)) = Len(hs)
         /\ \A g \in 1..Len(hs) :
              Begin(hs, h)[g] = IF g = h /\ hs[h].open
                                THEN [hs[h] EXCEPT !.pending = hs[h].pending + 1] ELSE hs[g]
<1>1. hs[h] \in HandleType
  OBVIOUS
<1>2. [hs[h] EXCEPT !.pending = hs[h].pending + 1] \in HandleType
  BY <1>1, HandleUpdates
<1> QED
  BY <1>2 DEF Begin

-----------------------------------------------------------------------------
(***************************************************************************)
(* The steps of a call that leave the handles, the queue and the I/O       *)
(* thread's handler alone.                                                 *)
(***************************************************************************)

\* A call begins.
LEMMA CallKeeps ==
  ASSUME IInv, NEW op \in CaptureOps \cup ReplayOps, Call(op)
  PROVE  IInv'
<1> USE ProtocolIoAssumption DEF IInv, Call, At, NoCall, runtime, captureVars, replayVars, history, outcome
<1>1. Types'
  <2>1. PICK mode \in Modes \cup {"none"} :
          call' = [op |-> op, mode |-> mode, failed |-> FALSE, stolen |-> {},
                   pc |-> IF op \in CaptureOps THEN "close" ELSE "closeReplay"]
    BY DEF CaptureOps, ReplayOps
  <2>2. call' \in CallType
    BY <2>1 DEF CallType, CaptureOps, ReplayOps
  <2> QED
    BY <2>2 DEF Types
<1>2. Refers'
  BY DEF Refers
<1>3. Control'
  BY DEF Control, Types, CallType, Cleared, InUse, CaptureOps, ReplayOps
<1>4. Context'
  BY DEF Context, Types, CallType, CaptureOps, ReplayOps
<1>5. Sources'
  BY DEF Sources, Types, CallType, CaptureOps, ReplayOps
<1>6. Handlers'
  BY DEF Handlers
<1>7. Loops'
  BY DEF Loops, Failed, Alive, InHand, Queued
<1>8. (lingering \/ Single)'
  BY DEF Single, Tokens, Types, CallType, CaptureOps, ReplayOps, Alive, InHand, Queued
<1> QED
  BY <1>1, <1>2, <1>3, <1>4, <1>5, <1>6, <1>7, <1>8

\* The replay's sockets are closed.
LEMMA CloseReplayKeeps ==
  ASSUME IInv, CloseReplay
  PROVE  IInv'
<1> USE ProtocolIoAssumption DEF IInv, CloseReplay, At, Goto, runtime, captureVars, replayVars, history, outcome
<1>1. Types'
  <2>1. call' \in CallType
    BY DEF Types, CallType
  <2> QED
    BY <2>1 DEF Types
<1>2. Refers'
  BY DEF Refers
<1>3. Control'
  BY DEF Control, Types, CallType, Cleared, InUse, CaptureOps, ReplayOps
<1>4. Context'
  BY DEF Context, Types, CallType, CaptureOps, ReplayOps
<1>5. Sources'
  BY DEF Sources, Types, CallType, CaptureOps, ReplayOps
<1>6. Handlers'
  BY DEF Handlers
<1>7. Loops'
  BY DEF Loops, Failed, Alive, InHand, Queued
<1>8. (lingering \/ Single)'
  BY DEF Single, Tokens, Types, CallType, CaptureOps, ReplayOps, Alive, InHand, Queued
<1> QED
  BY <1>1, <1>2, <1>3, <1>4, <1>5, <1>6, <1>7, <1>8

\* The flag of the replay is cleared.
LEMMA EndReplayKeeps ==
  ASSUME IInv, EndReplay
  PROVE  IInv'
<1> USE ProtocolIoAssumption DEF IInv, EndReplay, At, Goto, runtime, captureVars, replayVars, history, outcome
<1>1. Types'
  <2>1. call' \in CallType
    BY DEF Types, CallType
  <2> QED
    BY <2>1 DEF Types
<1>2. Refers'
  BY DEF Refers
<1>3. Control'
  BY DEF Control, Types, CallType, Cleared, InUse, CaptureOps, ReplayOps
<1>4. Context'
  BY DEF Context, Types, CallType, CaptureOps, ReplayOps
<1>5. Sources'
  BY DEF Sources, Types, CallType, CaptureOps, ReplayOps
<1>6. Handlers'
  BY DEF Handlers
<1>7. Loops'
  BY DEF Loops, Failed, Alive, InHand, Queued
<1>8. (lingering \/ Single)'
  BY DEF Single, Tokens, Types, CallType, CaptureOps, ReplayOps, Alive, InHand, Queued
<1> QED
  BY <1>1, <1>2, <1>3, <1>4, <1>5, <1>6, <1>7, <1>8

\* The context of a replay is made.
LEMMA MakeContextKeeps ==
  ASSUME IInv, MakeContext
  PROVE  IInv'
<1> USE ProtocolIoAssumption DEF IInv, MakeContext, At, Goto, runtime, captureVars, replayVars, history, outcome
<1>1. Types'
  <2>1. call' \in CallType
    BY DEF Types, CallType, ContextInUse
  <2> QED
    BY <2>1 DEF Types, ContextInUse
<1>2. Refers'
  BY DEF Refers
<1>3. Control'
  BY DEF Control, Types, CallType, Cleared, InUse, CaptureOps, ReplayOps, ContextInUse
<1>4. Context'
  BY DEF Context, Types, CallType, CaptureOps, ReplayOps, ContextInUse
<1>5. Sources'
  BY DEF Sources, Types, CallType, CaptureOps, ReplayOps, ContextInUse
<1>6. Handlers'
  BY DEF Handlers
<1>7. Loops'
  BY DEF Loops, Failed, Alive, InHand, Queued, ContextInUse
<1>8. (lingering \/ Single)'
  BY DEF Single, Tokens, Types, CallType, CaptureOps, ReplayOps, Alive, InHand, Queued, ContextInUse
<1> QED
  BY <1>1, <1>2, <1>3, <1>4, <1>5, <1>6, <1>7, <1>8

\* A replay has its sockets.
LEMMA ConnectReplayKeeps ==
  ASSUME IInv, ConnectReplay
  PROVE  IInv'
<1> USE ProtocolIoAssumption DEF IInv, ConnectReplay, At, Goto, runtime, captureVars, replayVars, history, outcome
<1>1. Types'
  <2>1. call' \in CallType
    BY DEF Types, CallType
  <2> QED
    BY <2>1 DEF Types
<1>2. Refers'
  BY DEF Refers
<1>3. Control'
  BY DEF Control, Types, CallType, Cleared, InUse, CaptureOps, ReplayOps
<1>4. Context'
  BY DEF Context, Types, CallType, CaptureOps, ReplayOps
<1>5. Sources'
  BY DEF Sources, Types, CallType, CaptureOps, ReplayOps
<1>6. Handlers'
  BY DEF Handlers
<1>7. Loops'
  BY DEF Loops, Failed, Alive, InHand, Queued
<1>8. (lingering \/ Single)'
  BY DEF Single, Tokens, Types, CallType, CaptureOps, ReplayOps, Alive, InHand, Queued
<1> QED
  BY <1>1, <1>2, <1>3, <1>4, <1>5, <1>6, <1>7, <1>8

\* A replay cannot be started.
LEMMA FailReplayKeeps ==
  ASSUME IInv, FailReplay
  PROVE  IInv'
<1> USE ProtocolIoAssumption DEF IInv, FailReplay, At, Goto, runtime, captureVars, replayVars, history, outcome
<1>1. Types'
  <2>1. call' \in CallType
    BY DEF Types, CallType
  <2> QED
    BY <2>1 DEF Types
<1>2. Refers'
  BY DEF Refers
<1>3. Control'
  BY DEF Control, Types, CallType, Cleared, InUse, CaptureOps, ReplayOps
<1>4. Context'
  BY DEF Context, Types, CallType, CaptureOps, ReplayOps
<1>5. Sources'
  BY DEF Sources, Types, CallType, CaptureOps, ReplayOps
<1>6. Handlers'
  BY DEF Handlers
<1>7. Loops'
  BY DEF Loops, Failed, Alive, InHand, Queued
<1>8. (lingering \/ Single)'
  BY DEF Single, Tokens, Types, CallType, CaptureOps, ReplayOps, Alive, InHand, Queued
<1> QED
  BY <1>1, <1>2, <1>3, <1>4, <1>5, <1>6, <1>7, <1>8

\* A call returns.
LEMMA ReturnKeeps ==
  ASSUME IInv, Return
  PROVE  IInv'
<1> USE ProtocolIoAssumption DEF IInv, Return, At, Goto, runtime, captureVars, replayVars, history, outcome
<1>1. Types'
  <2>1. call' \in CallType
    BY DEF Types, CallType, NoCall
  <2> QED
    BY <2>1 DEF Types
<1>2. Refers'
  BY DEF Refers, NoCall
<1>3. Control'
  BY DEF Control, Types, CallType, Cleared, InUse, CaptureOps, ReplayOps, NoCall
<1>4. Context'
  BY DEF Context, Types, CallType, CaptureOps, ReplayOps, NoCall
<1>5. Sources'
  BY DEF Sources, Types, CallType, CaptureOps, ReplayOps, NoCall
<1>6. Handlers'
  BY DEF Handlers
<1>7. Loops'
  BY DEF Loops, Failed, Alive, InHand, Queued, NoCall
<1>8. (lingering \/ Single)'
  BY DEF Single, Tokens, Types, CallType, CaptureOps, ReplayOps, Alive, InHand, Queued, NoCall
<1> QED
  BY <1>1, <1>2, <1>3, <1>4, <1>5, <1>6, <1>7, <1>8

\* Where a call goes on after it has looked at the context, or has ended its thread.
LEMMA AfterResetGoes ==
  ASSUME Types, Control, At("reset") \/ At("join")
  PROVE  \/ AfterReset = "return"
         \/ AfterReset = "open" /\ call.op = "StartCapture" /\ ~call.failed
         \/ AfterReset = "endReplay" /\ call.op \in ReplayOps
<1>1. call.op \in CaptureOps \cup ReplayOps
  BY DEF Types, CallType, Control, At
<1>2. CASE call.failed \/ call.op = "StopCapture"
  BY <1>2 DEF AfterReset
<1>3. CASE ~call.failed /\ call.op = "StartCapture"
  BY <1>3 DEF AfterReset
<1>4. CASE ~call.failed /\ call.op \in ReplayOps
  BY <1>4 DEF AfterReset, ReplayOps
<1> QED
  BY <1>1, <1>2, <1>3, <1>4 DEF CaptureOps

\* The context is stopped unless something is open.
LEMMA ResetIoKeeps ==
  ASSUME IInv, ResetIo
  PROVE  IInv'
<1> USE ProtocolIoAssumption DEF IInv, ResetIo, At, Goto, runtime, captureVars, replayVars, history, outcome
<1>1. Types'
  <2>1. call' \in CallType
    BY DEF Types, CallType, AfterReset, InUse
  <2> QED
    BY <2>1 DEF Types
<1>2. Refers'
  BY DEF Refers, Types, CallType, AfterReset
<1>3. Control'
  <2>1. CASE InUse
    <3>1. /\ call'.pc = AfterReset /\ call'.op = call.op /\ call'.mode = call.mode
          /\ call'.failed = call.failed /\ call'.stolen = call.stolen
      BY <2>1 DEF Types, CallType
    <3>2. \/ AfterReset = "return"
          \/ AfterReset = "open" /\ call.op = "StartCapture" /\ ~call.failed
          \/ AfterReset = "endReplay" /\ call.op \in ReplayOps
      BY AfterResetGoes
    <3> QED
      BY <2>1, <3>1, <3>2 DEF Control, Cleared, InUse, CaptureOps, ReplayOps
  <2>2. CASE ~InUse
    BY <2>2 DEF Control, Types, CallType, Cleared, InUse, CaptureOps, ReplayOps
  <2> QED
    BY <2>1, <2>2
<1>4. Context'
  BY DEF Context, Types, CallType, CaptureOps, ReplayOps, AfterReset, InUse
<1>5. Sources'
  BY DEF Sources, Types, CallType, CaptureOps, ReplayOps, AfterReset, InUse
<1>6. Handlers'
  BY DEF Handlers
<1>7. Loops'
  BY DEF Loops, Failed, Alive, InHand, Queued, AfterReset, InUse
<1>8. (lingering \/ Single)'
  BY DEF Single, Tokens, Types, CallType, CaptureOps, ReplayOps, Alive, InHand, Queued, AfterReset, InUse
<1> QED
  BY <1>1, <1>2, <1>3, <1>4, <1>5, <1>6, <1>7, <1>8

\* The I/O thread has ended: the context goes with all it ran.
LEMMA JoinIoKeeps ==
  ASSUME IInv, JoinIo
  PROVE  IInv'
<1> USE ProtocolIoAssumption DEF IInv, JoinIo, At, Goto, captureVars, replayVars
<1>1. ~capturing /\ listener = 0 /\ sockets = {} /\ ~replay /\ io = IoIdle
  <2>1. listener = 0 /\ sockets = {} /\ ~replay
    BY DEF Control, InUse
  <2>2. io = IoIdle
    BY DEF Refers
  <2> QED
    BY <2>1, <2>2 DEF Sources
<1>2. /\ call'.pc = AfterReset /\ call'.op = call.op /\ call'.mode = call.mode
      /\ call'.failed = call.failed /\ call'.stolen = call.stolen
  BY DEF Types, CallType
<1>3. AfterReset \in {"return", "open", "endReplay"}
  BY AfterResetGoes DEF IInv
<1>4. Types'
  <2>1. call' \in CallType
    BY <1>3 DEF Types, CallType
  <2>2. handles' \in Seq(HandleType) /\ queue' \in Seq(DoneType)
    OBVIOUS
  <2>3. context' \in {"none", "running", "stopped"} /\ lingering' \in BOOLEAN
    OBVIOUS
  <2>4. delivered' \in SUBSET (Nat \X Nat)
    OBVIOUS
  <2> QED
    BY <2>1, <2>2, <2>3, <2>4 DEF Types
<1>5. handles' = <<>> /\ Len(handles') = 0 /\ queue' = <<>> /\ Len(queue') = 0
  OBVIOUS
<1>6. Refers'
  BY <1>1, <1>2, <1>5 DEF Refers, Control, Cleared, IoIdle
<1>7. Control'
  BY <1>1, <1>2, AfterResetGoes DEF Control, Cleared, InUse, CaptureOps, ReplayOps
<1>8. Context'
  BY <1>1, <1>2, <1>3, <1>5 DEF Context
<1>9. Sources'
  BY <1>1, <1>5 DEF Sources, Cleared
<1>10. Handlers'
  BY <1>1, <1>5 DEF Handlers, IoIdle, Kinds
<1>11. Loops'
  BY <1>1 DEF Loops, Failed, Cleared
<1>12. (lingering \/ Single)'
  BY <1>1, <1>2, <1>3, <1>5 DEF Single, Tokens, IoIdle
<1> QED
  BY <1>4, <1>6, <1>7, <1>8, <1>9, <1>10, <1>11, <1>12

-----------------------------------------------------------------------------
(***************************************************************************)
(* Closing.                                                                *)
(***************************************************************************)

\* Closing keeps what the queue and the handles refer to, and tells apart what was
\* queued before from the failures of what was pending.
LEMMA CloseQueued ==
  ASSUME Types, Refers, NEW closed, closed \subseteq 1..Len(handles), CloseAll(closed)
  PROVE  /\ \A i \in 1..Len(queue') : queue'[i].h \in 1..Len(handles')
         /\ \A h \in 1..Len(handles) : Queued(h) => Queued(h)'
         /\ \A h \in 1..Len(handles) :
              Queued(h)' => Queued(h) \/ (h \in closed /\ handles[h].pending > 0)
<1>1. Len(queue) \in Nat /\ Len(queue') \in Nat
  BY CloseAllEffect, Typed
<1>2. Len(handles') = Len(handles) /\ Len(queue) <= Len(queue')
  BY CloseAllEffect
<1>3. \A i \in 1..Len(queue') : i \in 1..Len(queue) \/ i \in (Len(queue) + 1)..Len(queue')
  BY <1>1
<1>4. \A i \in 1..Len(queue) : i \in 1..Len(queue') /\ queue'[i] = queue[i]
  <2>1. \A i \in 1..Len(queue) : queue'[i] = queue[i]
    BY CloseAllEffect
  <2> QED
    BY <1>1, <1>2, <2>1
<1>5. \A i \in (Len(queue) + 1)..Len(queue') : queue'[i].h \in closed /\ handles[queue'[i].h].pending > 0
  BY CloseAllEffect
<1>6. \A i \in 1..Len(queue') : queue'[i].h \in 1..Len(handles')
  BY <1>2, <1>3, <1>4, <1>5 DEF Refers
<1>7. \A h \in 1..Len(handles) : Queued(h) => Queued(h)'
  BY <1>4 DEF Queued
<1>8. \A h \in 1..Len(handles) :
        Queued(h)' => Queued(h) \/ (h \in closed /\ handles[h].pending > 0)
  BY <1>3, <1>4, <1>5 DEF Queued
<1> QED
  BY <1>6, <1>7, <1>8

\* Closing leaves what was in one place in one place.
LEMMA CloseKeepsTokens ==
  ASSUME Types, Refers, Tokens, NEW closed, closed \subseteq 1..Len(handles), CloseAll(closed),
         io' \in {io, IoIdle}
  PROVE  Tokens'
<1>1. Len(handles') = Len(handles) /\ Len(queue) \in Nat /\ Len(queue') \in Nat
  <2>1. Len(handles') = Len(handles) /\ queue' \in Seq(DoneType)
    BY CloseAllEffect
  <2>2. Len(queue) \in Nat
    BY Typed
  <2> QED
    BY <2>1, <2>2
<1>2. \A h \in 1..Len(handles) : InHand(h)' => InHand(h)
  BY DEF InHand, IoIdle
<1>3. ASSUME NEW h \in 1..Len(handles)
      PROVE  /\ handles'[h].pending <= 1
             /\ handles'[h].pending = 1 => ~InHand(h)' /\ ~Queued(h)'
             /\ InHand(h)' => ~Queued(h)'
  <2>1. /\ handles[h].pending \in Nat /\ handles[h].pending <= 1
        /\ handles[h].pending = 1 => ~InHand(h) /\ ~Queued(h)
        /\ InHand(h) => ~Queued(h)
    BY Typed DEF Tokens
  <2>2. Queued(h)' => Queued(h) \/ (h \in closed /\ handles[h].pending > 0)
    BY CloseQueued
  <2>3. IF h \in closed THEN handles'[h].pending = 0 ELSE handles'[h] = handles[h]
    BY CloseAllEffect DEF Shut
  <2> QED
    BY <1>2, <2>1, <2>2, <2>3
<1>4. ASSUME NEW i \in 1..Len(queue'), NEW j \in 1..Len(queue'), queue'[i].h = queue'[j].h
      PROVE  i = j
  <2>1. \A k \in 1..Len(queue') : k \in 1..Len(queue) \/ k \in (Len(queue) + 1)..Len(queue')
    BY <1>1
  <2>2. \A k \in 1..Len(queue) : queue'[k] = queue[k] /\ Queued(queue[k].h)
    BY CloseAllEffect DEF Queued
  <2>3. \A k \in (Len(queue) + 1)..Len(queue') : ~Queued(queue'[k].h)
    <3>1. \A k \in (Len(queue) + 1)..Len(queue') :
            queue'[k].h \in closed /\ handles[queue'[k].h].pending > 0
      BY CloseAllEffect
    <3>2. \A h \in closed : handles[h].pending > 0 => handles[h].pending = 1
      BY Typed DEF Tokens
    <3> QED
      BY <3>1, <3>2 DEF Tokens
  <2>4. \A k, l \in (Len(queue) + 1)..Len(queue') : queue'[k].h = queue'[l].h => k = l
    BY CloseAllEffect DEF Tokens
  <2> QED
    BY <1>4, <2>1, <2>2, <2>3, <2>4 DEF Tokens
<1> QED
  BY <1>1, <1>3, <1>4 DEF Tokens

\* What closing means for handles and the queue, besides Tokens: kinds and captures
\* and what is closed has nothing pending.
LEMMA CloseKeepsHandles ==
  ASSUME Types, Refers, Context, Sources, Handlers,
         NEW closed, closed \subseteq 1..Len(handles), CloseAll(closed)
  PROVE  /\ Len(handles') = Len(handles) /\ (handles = <<>> => handles' = <<>>)
         /\ \A h \in 1..Len(handles) :
              /\ handles'[h].kind = handles[h].kind /\ handles'[h].capture = handles[h].capture
              /\ handles'[h].open \/ handles'[h].pending = 0
              /\ handles'[h].open => handles[h].open
              /\ h \notin closed => handles'[h] = handles[h]
<1>1. /\ Len(handles') = Len(handles)
      /\ Len(queue) \in Nat /\ Len(queue') \in Nat /\ handles' \in Seq(HandleType)
  <2>1. Len(handles') = Len(handles) /\ queue' \in Seq(DoneType) /\ handles' \in Seq(HandleType)
    BY CloseAllEffect
  <2>2. Len(queue) \in Nat
    BY Typed
  <2> QED
    BY <2>1, <2>2
<1>2. ASSUME NEW h \in 1..Len(handles)
      PROVE  /\ handles'[h].kind = handles[h].kind /\ handles'[h].capture = handles[h].capture
             /\ handles'[h].open \/ handles'[h].pending = 0
             /\ handles'[h].open => handles[h].open
             /\ h \notin closed => handles'[h] = handles[h]
  <2>1. h \notin closed => handles'[h] = handles[h]
    BY CloseAllEffect
  <2>2. h \in closed => Shut(handles'[h], handles[h])
    BY CloseAllEffect
  <2>3. handles[h].open \/ handles[h].pending = 0
    BY DEF Sources
  <2> QED
    BY <2>1, <2>2, <2>3 DEF Shut
<1>3. handles = <<>> => handles' = <<>>
  BY <1>1
<1> QED
  BY <1>1, <1>2, <1>3

\* StopCapture's section under the mutex.
LEMMA CloseCaptureKeeps ==
  ASSUME IInv, CloseCapture
  PROVE  IInv'
<1> USE ProtocolIoAssumption DEF IInv, At, replayVars, history, outcome
<1> DEFINE closed == {listener} \ {0}
<1>1. /\ At("close") /\ Cleared' /\ CloseAll(closed)
      /\ call' = [call EXCEPT !.pc = IF service = "tcp" THEN "closeTaken" ELSE "reset", !.stolen = sockets]
      /\ UNCHANGED <<service, context, replay, replaying, io, captures, events, delivered, lingering>>
  BY DEF CloseCapture, Cleared
<1>2. closed \subseteq 1..Len(handles)
  BY Typed DEF Refers
<1> HIDE DEF closed
<1>3. /\ call'.pc = IF service = "tcp" THEN "closeTaken" ELSE "reset"
      /\ call'.op = call.op /\ call'.mode = call.mode /\ call'.failed = call.failed /\ call'.stolen = sockets
  BY <1>1 DEF Types, CallType
<1>4. Types'
  <2>1. call' \in CallType
    BY <1>1 DEF Types, CallType
  <2>2. handles' \in Seq(HandleType) /\ queue' \in Seq(DoneType)
    BY <1>1, <1>2, CloseAllEffect
  <2>3. /\ service' = service /\ context' = context /\ ~capturing' /\ callback' = 0
        /\ listener' = 0 /\ sockets' = {} /\ replay' = replay /\ replaying' = replaying
        /\ io' = io /\ captures' = captures /\ events' = events /\ delivered' = delivered
        /\ lingering' = lingering
    BY <1>1 DEF Cleared
  <2>4. capturing' \in BOOLEAN
    BY DEF CloseCapture
  <2> QED
    BY <2>1, <2>2, <2>3, <2>4 DEF Types
<1>5. Len(handles') = Len(handles) /\ (handles = <<>> => handles' = <<>>)
  BY <1>1, <1>2, CloseKeepsHandles
<1>6. Refers'
  <2>1. \A i \in 1..Len(queue') : queue'[i].h \in 1..Len(handles')
    BY <1>1, <1>2, CloseQueued
  <2> QED
    BY <1>1, <1>3, <1>5, <2>1, Typed DEF Refers, Cleared
<1>7. Control'
  BY <1>1, <1>3 DEF Control, Cleared, InUse, Sources, Types, CaptureOps, ReplayOps
<1>8. Context'
  BY <1>1, <1>3, <1>5 DEF Context
<1>9. Sources'
  BY <1>1, <1>2, <1>5, CloseKeepsHandles DEF Sources, Cleared
<1>10. Handlers'
  <2>1. io.pc # "idle" => io.h \in 1..Len(handles)
    BY DEF Refers
  <2> QED
    BY <1>1, <1>2, <1>5, <2>1, CloseKeepsHandles DEF Handlers, Kinds
<1>11. Loops'
  BY <1>1 DEF Loops, Failed, Cleared
<1>12. (lingering \/ Single)'
  <2> SUFFICES ASSUME Single PROVE Single'
    BY <1>1
  <2>1. Tokens'
    BY <1>1, <1>2, CloseKeepsTokens DEF Single
  <2>2. \A h \in 1..Len(handles') :
          handles'[h].capture = captures' /\ (handles'[h].kind \in {"udp", "acceptor"} => listener' \in {0, h})
    BY <1>1, <1>2, <1>5, CloseKeepsHandles DEF Single, Cleared
  <2> QED
    BY <1>1, <1>3, <2>1, <2>2 DEF Single
<1> QED
  BY <1>4, <1>6, <1>7, <1>8, <1>9, <1>10, <1>11, <1>12

\* StopCapture of TCP closes the sockets it took away.
LEMMA CloseTakenKeeps ==
  ASSUME IInv, CloseTaken
  PROVE  IInv'
<1> USE ProtocolIoAssumption DEF IInv, At, captureVars, replayVars, history, outcome
<1> DEFINE closed == call.stolen
<1>1. /\ At("closeTaken") /\ CloseAll(closed)
      /\ call' = [call EXCEPT !.pc = "reset", !.stolen = {}]
      /\ UNCHANGED <<service, context, capturing, callback, listener, sockets, replay, replaying, io,
                     captures, events, delivered, lingering>>
  BY DEF CloseTaken
<1>2. closed \subseteq 1..Len(handles) /\ Cleared
  BY <1>1 DEF Refers, Control, CaptureOps
<1> HIDE DEF closed
<1>3. /\ call'.pc = "reset" /\ call'.stolen = {}
      /\ call'.op = call.op /\ call'.mode = call.mode /\ call'.failed = call.failed
  BY <1>1 DEF Types, CallType
<1>4. Types'
  <2>1. call' \in CallType
    BY <1>1 DEF Types, CallType
  <2>2. handles' \in Seq(HandleType) /\ queue' \in Seq(DoneType)
    BY <1>1, <1>2, CloseAllEffect
  <2>3. /\ service' = service /\ context' = context /\ capturing' = capturing /\ callback' = callback
        /\ listener' = listener /\ sockets' = sockets /\ replay' = replay /\ replaying' = replaying
        /\ io' = io /\ captures' = captures /\ events' = events /\ delivered' = delivered
        /\ lingering' = lingering
    BY <1>1
  <2> QED
    BY <2>1, <2>2, <2>3 DEF Types
<1>5. Len(handles') = Len(handles) /\ (handles = <<>> => handles' = <<>>)
  BY <1>1, <1>2, CloseKeepsHandles
<1>6. Refers'
  <2>1. \A i \in 1..Len(queue') : queue'[i].h \in 1..Len(handles')
    BY <1>1, <1>2, CloseQueued
  <2> QED
    BY <1>1, <1>3, <1>5, <2>1 DEF Refers
<1>7. Control'
  BY <1>1, <1>3 DEF Control, Cleared, InUse, CaptureOps, ReplayOps
<1>8. Context'
  BY <1>1, <1>3, <1>5 DEF Context
<1>9. Sources'
  BY <1>1, <1>2, <1>5, CloseKeepsHandles DEF Sources, Cleared
<1>10. Handlers'
  <2>1. io.pc # "idle" => io.h \in 1..Len(handles)
    BY DEF Refers
  <2> QED
    BY <1>1, <1>2, <1>5, <2>1, CloseKeepsHandles DEF Handlers, Kinds
<1>11. Loops'
  BY <1>1, <1>2 DEF Loops, Failed, Cleared
<1>12. (lingering \/ Single)'
  <2> SUFFICES ASSUME Single PROVE Single'
    BY <1>1
  <2>1. Tokens'
    BY <1>1, <1>2, CloseKeepsTokens DEF Single
  <2>2. \A h \in 1..Len(handles') :
          handles'[h].capture = captures' /\ (handles'[h].kind \in {"udp", "acceptor"} => listener' \in {0, h})
    BY <1>1, <1>2, <1>5, CloseKeepsHandles DEF Single, Cleared
  <2> QED
    BY <1>1, <1>3, <2>1, <2>2 DEF Single
<1> QED
  BY <1>4, <1>6, <1>7, <1>8, <1>9, <1>10, <1>11, <1>12

-----------------------------------------------------------------------------
(***************************************************************************)
(* The steps that give a capture its source.                               *)
(***************************************************************************)

\* A handle more leaves those before it as they are.
LEMMA NewHandle ==
  ASSUME Types, NEW x \in HandleType, handles' = Append(handles, x)
  PROVE  /\ handles' \in Seq(HandleType) /\ Len(handles') = Len(handles) + 1
         /\ \A h \in 1..Len(handles') : h \in 1..Len(handles) \/ h = Len(handles) + 1
         /\ \A h \in 1..Len(handles) : h \in 1..Len(handles') /\ handles'[h] = handles[h]
         /\ Len(handles) + 1 \in 1..Len(handles') /\ Len(handles) + 1 \notin 1..Len(handles)
         /\ handles'[Len(handles) + 1] = x
<1>1. handles \in Seq(HandleType) /\ Len(handles) \in Nat
  BY Typed
<1>2. handles' \in Seq(HandleType) /\ Len(handles') = Len(handles) + 1
  BY <1>1
<1>3. \A h \in 1..Len(handles) : handles'[h] = handles[h]
  BY <1>1
<1>4. handles'[Len(handles) + 1] = x
  BY <1>1
<1> QED
  BY <1>1, <1>2, <1>3, <1>4

\* StartCapture of UDP opens its socket, or fails and cleans up.
LEMMA OpenUdpKeeps ==
  ASSUME IInv, OpenUdp
  PROVE  IInv'
<1> USE ProtocolIoAssumption DEF IInv, At, Goto
<1>1. /\ At("open") /\ service = "udp" /\ Cleared /\ captures < MaxCaptures
      /\ call.op = "StartCapture" /\ ~call.failed /\ call.stolen = {}
      /\ UNCHANGED <<service, queue, replay, replaying, io, events, delivered, lingering, sockets>>
  BY DEF OpenUdp, captureVars, replayVars, Control, CaptureOps
<1>2. CASE call' = [call EXCEPT !.pc = "close", !.failed = TRUE]
           /\ UNCHANGED <<context, handles, captureVars, captures>>
  <2>1. /\ call'.pc = "close" /\ call'.op = call.op /\ call'.mode = call.mode
        /\ call'.failed /\ call'.stolen = call.stolen /\ call' \in CallType
    BY <1>2 DEF Types, CallType
  <2> HIDE <1>2
  <2>2. /\ context' = context /\ handles' = handles /\ capturing' = capturing /\ callback' = callback
        /\ listener' = listener /\ captures' = captures
    BY <1>2 DEF captureVars
  <2>3. Types'
    BY <1>1, <2>1, <2>2 DEF Types
  <2>4. Refers'
    BY <1>1, <2>1, <2>2 DEF Refers
  <2>5. Control'
    BY <1>1, <2>1, <2>2 DEF Control, Cleared, InUse, CaptureOps, ReplayOps
  <2>6. Context'
    BY <1>1, <2>1, <2>2 DEF Context
  <2>7. Sources' /\ Handlers'
    BY <1>1, <2>1, <2>2 DEF Sources, Handlers, Cleared
  <2>8. Loops'
    BY <1>1, <2>1, <2>2 DEF Loops, Failed, Cleared
  <2>9. (lingering \/ Single)'
    BY <1>1, <2>1, <2>2 DEF Single, Tokens, InHand, Queued
  <2> QED
    BY <2>3, <2>4, <2>5, <2>6, <2>7, <2>8, <2>9
<1>3. CASE /\ captures' = captures + 1
           /\ handles' = Append(handles, Handle("udp", captures + 1, 0))
           /\ capturing' = TRUE /\ callback' = captures + 1 /\ listener' = Len(handles) + 1
           /\ context' = ContextInUse /\ call' = [call EXCEPT !.pc = "arm"]
  <2>0. PICK new : new = Len(handles) + 1
    OBVIOUS
  <2>1. /\ call'.pc = "arm" /\ call'.op = call.op /\ call'.mode = call.mode
        /\ call'.failed = call.failed /\ call'.stolen = call.stolen /\ call' \in CallType
    BY <1>3 DEF Types, CallType
  <2>2. PICK x : x = [kind |-> "udp", capture |-> captures + 1, open |-> TRUE, pending |-> 0]
    OBVIOUS
  <2>3. x \in HandleType /\ handles' = Append(handles, x)
    <3>1. Handle("udp", captures + 1, 0) = x
      BY <2>2 DEF Handle
    <3>2. x \in HandleType
      BY <2>2 DEF HandleType, Kinds, Types
    <3> QED
      BY <1>3, <3>1, <3>2
  <2>4. /\ handles' \in Seq(HandleType) /\ Len(handles') = new /\ new \in Nat \ {0} /\ Len(handles) \in Nat
        /\ \A h \in 1..Len(handles') : h \in 1..Len(handles) \/ h = new
        /\ \A h \in 1..Len(handles) : h \in 1..Len(handles') /\ handles'[h] = handles[h]
        /\ new \in 1..Len(handles') /\ new \notin 1..Len(handles) /\ handles'[new] = x
    BY <2>0, <2>3, NewHandle, Typed
  <2>5. /\ captures' = captures + 1 /\ captures' \in 0..MaxCaptures /\ captures' # 0
        /\ callback' = captures' /\ capturing' /\ capturing' \in BOOLEAN /\ listener' = new
    BY <1>1, <1>3, <2>0 DEF Types
  <2>6. context' # "none" /\ (context = "stopped" <=> context' = "stopped")
        /\ context' \in {"none", "running", "stopped"}
    BY <1>3 DEF ContextInUse, Types
  <2>7. Types'
    BY <1>1, <2>1, <2>4, <2>5, <2>6 DEF Types
  <2>8. Refers'
    BY <1>1, <2>1, <2>4, <2>5 DEF Refers, Cleared
  <2>9. Control'
    BY <1>1, <2>1, <2>4, <2>5 DEF Control, CaptureOps, ReplayOps
  <2>10. Context'
    BY <1>1, <2>1, <2>6 DEF Context
  <2>11. Sources'
    BY SMTT(30), <1>1, <2>1, <2>2, <2>4, <2>5 DEF Sources, Cleared
  <2>12. Handlers'
    BY <1>1, <2>4 DEF Handlers, Refers, Kinds
  <2>13. Loops'
    BY <1>1, <2>1 DEF Loops, Failed, Cleared
  <2>14. (lingering \/ Single)'
    <3> SUFFICES ASSUME Single PROVE Single'
      BY <1>1
    <3>1. Len(handles) = 0 /\ io = IoIdle /\ Len(queue) = 0
      <4>1. Len(handles) = 0
        BY <1>1 DEF Single
      <4>2. Len(queue) \in Nat
        BY Typed
      <4> QED
        BY <4>1, <4>2 DEF Refers
    <3>2. Len(queue') = 0 /\ io' = IoIdle
      BY <1>1, <3>1
    <3>3. \A h \in 1..Len(handles') : h = new
      BY <2>4, <3>1
    <3>4. ~Queued(new)' /\ ~InHand(new)'
      BY <3>2 DEF Queued, InHand, IoIdle
    <3>5. handles'[new].pending = 0 /\ handles'[new].capture = captures'
      BY <2>2, <2>4, <2>5
    <3>6. Tokens'
      BY <3>2, <3>3, <3>4, <3>5 DEF Tokens
    <3>7. ~Alive(listener)'
      BY <2>5, <3>4, <3>5 DEF Alive
    <3> QED
      BY <1>1, <2>1, <2>5, <3>2, <3>3, <3>5, <3>6, <3>7 DEF Single, IoIdle
  <2> QED
    BY <2>7, <2>8, <2>9, <2>10, <2>11, <2>12, <2>13, <2>14
<1> QED
  BY <1>2, <1>3 DEF OpenUdp

\* The first receive is begun on the socket that StartCapture opened.
LEMMA ArmUdpKeeps ==
  ASSUME IInv, ArmUdp
  PROVE  IInv'
<1> USE ProtocolIoAssumption DEF IInv, At, Goto
<1>1. /\ At("arm") /\ service = "udp" /\ sockets = {} /\ call.op = "StartCapture" /\ call.stolen = {}
      /\ listener \in 1..Len(handles) /\ handles[listener].open
      /\ handles' = Begin(handles, listener)
      /\ UNCHANGED <<service, context, queue, capturing, callback, listener, sockets, replay, replaying,
                     io, captures, events, delivered, lingering>>
  BY Typed DEF ArmUdp, captureVars, replayVars, history, outcome, Control, Refers, Sources
<1>2. /\ call'.pc = "return" /\ call'.op = call.op /\ call'.mode = call.mode
      /\ call'.failed = call.failed /\ call'.stolen = call.stolen /\ call' \in CallType
  BY DEF ArmUdp, Types, CallType
<1>3. PICK b : b = Begin(handles, listener)
  OBVIOUS
<1>4. /\ handles' \in Seq(HandleType) /\ Len(handles') = Len(handles)
      /\ \A h \in 1..Len(handles) : h # listener => handles'[h] = handles[h]
      /\ handles'[listener] = [handles[listener] EXCEPT !.pending = handles[listener].pending + 1]
  <2>1. handles \in Seq(HandleType)
    BY Typed
  <2>2. /\ b \in Seq(HandleType) /\ Len(b) = Len(handles)
        /\ \A g \in 1..Len(handles) :
             b[g] = IF g = listener /\ handles[listener].open
                    THEN [handles[listener] EXCEPT !.pending = handles[listener].pending + 1] ELSE handles[g]
    BY <1>1, <1>3, <2>1, BeginEffect
  <2>3. handles' = b
    BY <1>1, <1>3
  <2> QED
    BY <1>1, <2>2, <2>3
<1>5. /\ Len(handles') = Len(handles)
      /\ \A h \in 1..Len(handles) :
           /\ handles'[h].kind = handles[h].kind /\ handles'[h].capture = handles[h].capture
           /\ handles'[h].open = handles[h].open
           /\ h # listener => handles'[h].pending = handles[h].pending
      /\ handles'[listener].pending = handles[listener].pending + 1 /\ handles[listener].pending \in Nat
  <2>1. handles[listener] \in HandleType
    BY <1>1, Typed
  <2>2. /\ handles'[listener].kind = handles[listener].kind
        /\ handles'[listener].capture = handles[listener].capture
        /\ handles'[listener].open = handles[listener].open
        /\ handles'[listener].pending = handles[listener].pending + 1 /\ handles[listener].pending \in Nat
    BY <1>4, <2>1 DEF HandleType
  <2> QED
    BY <1>4, <2>2
<1>6. Types'
  BY <1>1, <1>2, <1>4 DEF Types
<1>7. Refers'
  BY <1>1, <1>2, <1>4 DEF Refers
<1>8. Control'
  BY <1>1, <1>2 DEF Control, CaptureOps, ReplayOps
<1>9. Context'
  BY <1>1, <1>2, <1>4 DEF Context
<1>10. Sources'
  <2>1. \A h \in 1..Len(handles') : handles'[h].kind = "udp" /\ (handles'[h].open \/ handles'[h].pending = 0)
    <3>1. \A h \in 1..Len(handles) : handles[h].kind = "udp" /\ (handles[h].open \/ handles[h].pending = 0)
      BY <1>1 DEF Sources
    <3>2. handles'[listener].open
      BY <1>1, <1>5
    <3> QED
      BY <1>5, <3>1, <3>2
  <2>2. handles'[listener].open
    BY <1>1, <1>5
  <2>3. capturing => callback # 0
    BY DEF Sources
  <2>4. callback # 0 => callback = captures
    BY DEF Sources
  <2> QED
    BY <1>1, <1>2, <1>5, <2>1, <2>2, <2>3, <2>4 DEF Sources
<1>11. Handlers'
  BY <1>1, <1>5 DEF Handlers, Refers, Kinds
<1>12. Loops'
  BY <1>1, <1>5 DEF Loops, Failed, Alive
<1>13. (lingering \/ Single)'
  <2> SUFFICES ASSUME Single PROVE Single'
    BY <1>1
  <2>1. handles[listener].pending = 0 /\ ~InHand(listener) /\ ~Queued(listener)
    BY <1>1, <1>5 DEF Single, Alive
  <2>2. /\ \A h \in 1..Len(handles) : Queued(h)' <=> Queued(h)
        /\ \A h \in 1..Len(handles) : InHand(h)' <=> InHand(h)
    BY <1>1 DEF Queued, InHand
  <2>3. Tokens'
    BY <1>1, <1>5, <2>1, <2>2 DEF Single, Tokens
  <2> QED
    BY <1>1, <1>2, <1>5, <2>3 DEF Single
<1> QED
  BY <1>6, <1>7, <1>8, <1>9, <1>10, <1>11, <1>12, <1>13

\* StartCapture of TCP says that it captures.
LEMMA OpenTcpKeeps ==
  ASSUME IInv, OpenTcp
  PROVE  IInv'
<1> USE ProtocolIoAssumption DEF IInv, At, Goto
<1>1. /\ At("open") /\ service = "tcp" /\ Cleared /\ captures < MaxCaptures
      /\ call.op = "StartCapture" /\ ~call.failed /\ call.stolen = {}
      /\ UNCHANGED <<service, handles, queue, listener, sockets, replay, replaying, io, events, delivered, lingering>>
  BY DEF OpenTcp, replayVars, Control, CaptureOps
<1>2. /\ call'.pc = "attach" /\ call'.op = call.op /\ call'.mode = call.mode
      /\ call'.failed = call.failed /\ call'.stolen = call.stolen /\ call' \in CallType
  BY DEF OpenTcp, Types, CallType
<1>3. /\ captures' = captures + 1 /\ captures' \in 0..MaxCaptures /\ captures' # 0
      /\ callback' = captures' /\ capturing' /\ capturing' \in BOOLEAN
  BY <1>1 DEF OpenTcp, Types
<1>4. context' # "none" /\ (context = "stopped" <=> context' = "stopped")
      /\ context' \in {"none", "running", "stopped"}
  BY DEF OpenTcp, ContextInUse, Types
<1>5. Types'
  BY <1>1, <1>2, <1>3, <1>4 DEF Types
<1>6. Refers'
  BY <1>1, <1>2 DEF Refers
<1>7. Control'
  BY <1>1, <1>2 DEF Control, Cleared, CaptureOps, ReplayOps
<1>8. Context'
  BY <1>1, <1>2, <1>4 DEF Context
<1>9. Sources'
  BY <1>1, <1>2, <1>3 DEF Sources, Cleared
<1>10. Handlers'
  BY <1>1 DEF Handlers
<1>11. Loops'
  BY <1>1 DEF Loops, Failed, Cleared
<1>12. (lingering \/ Single)'
  <2> SUFFICES ASSUME Single PROVE Single'
    BY <1>1
  <2>1. handles = <<>> /\ Len(handles) = 0 /\ io = IoIdle
    BY <1>1 DEF Single, Refers
  <2>2. Tokens'
    BY <1>1 DEF Single, Tokens, InHand, Queued
  <2> QED
    BY <1>1, <1>2, <2>1, <2>2 DEF Single, IoIdle
<1> QED
  BY <1>5, <1>6, <1>7, <1>8, <1>9, <1>10, <1>11, <1>12

\* The acceptor of a server, or the socket with which a client connects; the acceptor
\* may fail to bind, the address of the client may be none.
LEMMA AttachTcpKeeps ==
  ASSUME IInv, AttachTcp
  PROVE  IInv'
<1> USE ProtocolIoAssumption DEF IInv, At, Goto
<1>1. /\ At("attach") /\ service = "tcp" /\ listener = 0 /\ context # "none"
      /\ call.op = "StartCapture" /\ ~call.failed /\ call.stolen = {}
      /\ UNCHANGED <<service, context, queue, capturing, callback, replay, replaying, io, captures, events,
                     delivered, lingering>>
  BY DEF AttachTcp, replayVars, history, outcome, Control, Context
<1>2. CASE call' = [call EXCEPT !.pc = "close", !.failed = TRUE] /\ UNCHANGED <<handles, listener, sockets>>
  <2>1. /\ call'.pc = "close" /\ call'.op = call.op /\ call'.mode = call.mode
        /\ call'.failed /\ call'.stolen = call.stolen /\ call' \in CallType
    BY <1>2 DEF Types, CallType
  <2>2. Types'
    BY <1>1, <1>2, <2>1 DEF Types
  <2>3. Refers'
    BY <1>1, <1>2, <2>1 DEF Refers
  <2>4. Control'
    BY <1>1, <1>2, <2>1 DEF Control, CaptureOps, ReplayOps
  <2>5. Context'
    BY <1>1, <1>2, <2>1 DEF Context
  <2>6. Sources' /\ Handlers'
    BY <1>1, <1>2, <2>1 DEF Sources, Handlers
  <2>7. Loops'
    BY <1>1, <1>2, <2>1 DEF Loops, Failed, Alive, InHand, Queued
  <2>8. (lingering \/ Single)'
    BY <1>1, <1>2, <2>1 DEF Single, Tokens, InHand, Queued
  <2> QED
    BY <2>2, <2>3, <2>4, <2>5, <2>6, <2>7, <2>8
<1>3. ASSUME NEW kind \in {"acceptor", "connecting"}, NEW n \in 0..1, NEW new, new = Len(handles) + 1,
             handles' = Append(handles, Handle(kind, captures, n)),
             call' = IF n = 1 THEN [call EXCEPT !.pc = "return"]
                              ELSE [call EXCEPT !.pc = "close", !.failed = TRUE],
             IF kind = "acceptor" THEN listener' = new /\ sockets' = sockets
                                  ELSE listener' = 0 /\ sockets' = sockets \cup {new}
      PROVE  IInv'
  <2>1. /\ call'.pc = IF n = 1 THEN "return" ELSE "close"
        /\ call'.op = call.op /\ call'.mode = call.mode
        /\ call'.failed <=> n # 1
        /\ call'.stolen = call.stolen /\ call' \in CallType
    BY <1>1, <1>3 DEF Types, CallType
  <2>2. PICK x : x = Handle(kind, captures, n)
    OBVIOUS
  <2>3. /\ x \in HandleType /\ x.kind = kind /\ x.capture = captures /\ x.open /\ x.pending = n /\ n \in Nat
    BY <2>2 DEF Handle, HandleType, Kinds, Types
  <2>4. /\ handles' \in Seq(HandleType) /\ Len(handles') = new /\ new \in Nat \ {0} /\ Len(handles) \in Nat
        /\ \A h \in 1..Len(handles') : h \in 1..Len(handles) \/ h = new
        /\ \A h \in 1..Len(handles) : h \in 1..Len(handles') /\ handles'[h] = handles[h]
        /\ new \in 1..Len(handles') /\ new \notin 1..Len(handles) /\ handles'[new] = x
    BY <1>3, <2>2, <2>3, NewHandle, Typed
  <2>5. listener' \in {0, new} /\ sockets' \in {sockets, sockets \cup {new}}
    BY <1>3
  <2>6. Types'
    BY <1>1, <2>1, <2>4, <2>5 DEF Types
  <2>7. Refers'
    BY <1>1, <2>1, <2>4, <2>5 DEF Refers
  <2>8. Control'
    BY <1>1, <2>1 DEF Control, CaptureOps, ReplayOps
  <2>9. Context'
    BY <1>1, <2>1 DEF Context
  <2>10. Sources'
    <3>1. sockets \subseteq 1..Len(handles)
      BY DEF Refers
    <3>2. capturing => listener' # 0 \/ sockets' # {}
      BY <1>3, <2>4
    <3>3. \A h \in 1..Len(handles') : handles'[h].kind # "udp" /\ (handles'[h].open \/ handles'[h].pending = 0)
      BY <1>1, <2>3, <2>4 DEF Sources
    <3>4. listener' # 0 => handles'[listener'].open /\ handles'[listener'].kind \in {"udp", "acceptor"}
      BY <1>3, <2>3, <2>4
    <3>5. \A h \in sockets' : handles'[h].open /\ handles'[h].kind \in {"stream", "connecting"}
      BY <1>3, <2>3, <2>4, <3>1 DEF Sources
    <3> QED
      BY <1>1, <3>2, <3>3, <3>4, <3>5 DEF Sources
  <2>11. Handlers'
    BY <1>1, <2>4 DEF Handlers, Refers, Kinds
  <2>12. Loops'
    <3> SUFFICES ASSUME capturing, n = 1 PROVE Loops'
      BY <1>1, <2>1 DEF Loops
    <3>1. Alive(new)'
      BY <2>3, <2>4 DEF Alive
    <3>2. \A h \in sockets : Alive(h)'
      BY <1>1, <2>4 DEF Loops, Alive, InHand, Queued, Refers
    <3>3. listener' # 0 => Alive(listener)'
      BY <2>3, <2>4, <2>5 DEF Alive
    <3> QED
      BY <1>1, <2>5, <3>1, <3>2, <3>3 DEF Loops
  <2>13. (lingering \/ Single)'
    <3> SUFFICES ASSUME Single PROVE Single'
      BY <1>1
    <3>1. Len(handles) = 0 /\ io = IoIdle /\ Len(queue) = 0
      <4>1. Len(handles) = 0
        BY <1>1 DEF Single
      <4>2. Len(queue) \in Nat
        BY Typed
      <4> QED
        BY <4>1, <4>2 DEF Refers
    <3>2. Len(queue') = 0 /\ io' = IoIdle
      BY <1>1, <3>1
    <3>3. \A h \in 1..Len(handles') : h = new
      BY <2>4, <3>1
    <3>4. ~Queued(new)' /\ ~InHand(new)'
      BY <3>2 DEF Queued, InHand, IoIdle
    <3>5. Tokens'
      BY <2>3, <2>4, <3>2, <3>3, <3>4 DEF Tokens
    <3> QED
      BY <1>1, <1>3, <2>1, <2>3, <2>4, <3>2, <3>3, <3>5 DEF Single, IoIdle
  <2> QED
    BY <2>6, <2>7, <2>8, <2>9, <2>10, <2>11, <2>12, <2>13
<1>4. CASE /\ listener' = Len(handles) + 1 /\ UNCHANGED sockets
           /\ handles' = Append(handles, Handle("acceptor", captures, 1)) /\ call' = [call EXCEPT !.pc = "return"]
  BY <1>3, <1>4
<1>5. CASE /\ sockets' = sockets \cup {Len(handles) + 1} /\ UNCHANGED listener
           /\ handles' = Append(handles, Handle("connecting", captures, 1)) /\ call' = [call EXCEPT !.pc = "return"]
  BY <1>1, <1>3, <1>5
<1>6. CASE /\ sockets' = sockets \cup {Len(handles) + 1} /\ UNCHANGED listener
           /\ handles' = Append(handles, Handle("connecting", captures, 0))
           /\ call' = [call EXCEPT !.pc = "close", !.failed = TRUE]
  BY <1>1, <1>3, <1>6
<1> QED
  BY <1>2, <1>4, <1>5, <1>6 DEF AttachTcp

-----------------------------------------------------------------------------
(***************************************************************************)
(* Peers and the I/O thread.                                               *)
(***************************************************************************)

\* One completed operation more.
LEMMA QueueGrows ==
  ASSUME Types, NEW d \in DoneType, queue' = Append(queue, d)
  PROVE  /\ queue' \in Seq(DoneType) /\ Len(queue') = Len(queue) + 1
         /\ \A i \in 1..Len(queue') :
              (i \in 1..Len(queue) /\ queue'[i] = queue[i]) \/ (i = Len(queue) + 1 /\ queue'[i] = d)
         /\ \A h : Queued(h)' <=> (Queued(h) \/ h = d.h)
<1>1. queue \in Seq(DoneType) /\ Len(queue) \in Nat
  BY Typed
<1>2. queue' \in Seq(DoneType) /\ Len(queue') = Len(queue) + 1
  BY <1>1
<1>3. \A i \in 1..Len(queue) : i \in 1..Len(queue') /\ queue'[i] = queue[i]
  BY <1>1
<1>4. Len(queue) + 1 \in 1..Len(queue') /\ queue'[Len(queue) + 1] = d
  BY <1>1
<1>5. \A i \in 1..Len(queue') : i \in 1..Len(queue) \/ i = Len(queue) + 1
  BY <1>1, <1>2
<1>6. \A h : Queued(h)' <=> (Queued(h) \/ h = d.h)
  BY <1>3, <1>4, <1>5 DEF Queued
<1> QED
  BY <1>2, <1>3, <1>4, <1>5, <1>6

\* One handle with other operations pending, or of another kind, than before.
OneChanged(h, pending) ==
  /\ handles' \in Seq(HandleType) /\ Len(handles') = Len(handles)
  /\ \A g \in 1..Len(handles) :
       /\ handles'[g].capture = handles[g].capture
       /\ handles'[g].open <=> handles[g].open
       /\ g # h => handles'[g].pending = handles[g].pending /\ handles'[g].kind = handles[g].kind
  /\ handles'[h].pending = pending

\* A datagram, data, a connection; a peer that leaves or cannot be reached, an error.
LEMMA EventKeeps ==
  ASSUME IInv, NEW h \in DOMAIN handles, Event(h)
  PROVE  IInv'
<1> USE ProtocolIoAssumption DEF IInv, At
<1>1. PICK ok \in BOOLEAN :
        queue' = Append(queue, Done(h, ok))
  BY DEF Event
<1>2. h \in 1..Len(handles) /\ handles[h] \in HandleType /\ handles[h].pending > 0 /\ handles[h].pending \in Nat
  BY Typed DEF Event
<1>3. /\ handles' = [handles EXCEPT ![h].pending = @ - 1] /\ events' = events + 1
      /\ UNCHANGED <<service, context, capturing, callback, listener, sockets, replay, replaying,
                     io, call, captures, delivered, lingering, started, lost>>
  BY DEF Event, captureVars, replayVars, outcome
<1>4. PICK x : x = [handles[h] EXCEPT !.pending = handles[h].pending - 1]
  OBVIOUS
<1>5. x \in HandleType
  BY <1>2, <1>4, HandleUpdates
<1>6. /\ x.kind = handles[h].kind /\ x.capture = handles[h].capture /\ x.open = handles[h].open
      /\ x.pending = handles[h].pending - 1
  BY <1>2, <1>4 DEF HandleType
<1>7. OneChanged(h, handles[h].pending - 1) /\ handles'[h].kind = handles[h].kind
  <2>1. handles' = [handles EXCEPT ![h] = x]
    BY <1>3, <1>4
  <2>2. handles \in Seq(HandleType)
    BY Typed
  <2>3. handles' \in Seq(HandleType) /\ Len(handles') = Len(handles)
    BY <1>2, <1>5, <2>1, <2>2
  <2>4. \A g \in 1..Len(handles) : handles'[g] = IF g = h THEN x ELSE handles[g]
    BY <1>2, <2>1, <2>2
  <2> QED
    BY <1>2, <1>6, <2>3, <2>4 DEF OneChanged
<1>8. PICK d \in DoneType : d = Done(h, ok) /\ d.h = h /\ d.ok = ok
  <2>1. ok \in BOOLEAN
    BY <1>1
  <2>2. h \in Nat
    BY <1>2
  <2>3. Done(h, ok) \in DoneType /\ Done(h, ok).h = h /\ Done(h, ok).ok = ok
    BY <2>1, <2>2 DEF Done, DoneType
  <2> QED
    BY <2>3
<1>9. /\ queue' \in Seq(DoneType) /\ Len(queue') = Len(queue) + 1
      /\ \A i \in 1..Len(queue') :
           (i \in 1..Len(queue) /\ queue'[i] = queue[i]) \/ (i = Len(queue) + 1 /\ queue'[i] = d)
      /\ \A g : Queued(g)' <=> (Queued(g) \/ g = h)
  BY <1>1, <1>8, QueueGrows
<1>10. handles[h].open
  BY <1>2 DEF Sources
<1>11. Types'
  BY <1>3, <1>7, <1>9 DEF Types, OneChanged
<1>12. Refers'
  <2>1. Len(handles') = Len(handles)
    BY <1>7 DEF OneChanged
  <2>2. \A i \in 1..Len(queue') : queue'[i].h \in 1..Len(handles')
    BY <1>2, <1>8, <1>9, <2>1 DEF Refers
  <2> QED
    BY <1>3, <2>1, <2>2 DEF Refers
<1>13. Control'
  BY <1>3 DEF Control, Cleared, InUse
<1>14. Context'
  <2>1. handles # <<>>
    BY <1>2
  <2> QED
    BY <1>3, <2>1 DEF Context
<1>15. Sources'
  <2>1. \A g \in 1..Len(handles') :
          handles'[g].kind = handles[g].kind /\ (handles'[g].open \/ handles'[g].pending = 0)
    BY <1>2, <1>7, <1>10 DEF Sources, OneChanged
  <2>2. \A g \in sockets : g \in 1..Len(handles)
    BY DEF Refers
  <2>3. listener # 0 => listener \in 1..Len(handles)
    BY Typed DEF Refers
  <2> QED
    BY <1>3, <1>7, <2>1, <2>2, <2>3 DEF Sources, OneChanged
<1>16. Handlers'
  <2>1. io.pc # "idle" => io.h \in 1..Len(handles)
    BY DEF Refers
  <2>2. \A g \in 1..Len(handles) : handles'[g].kind = handles[g].kind /\ (handles'[g].open <=> handles[g].open)
    BY <1>7 DEF OneChanged
  <2> QED
    BY <1>3, <2>1, <2>2 DEF Handlers, Kinds
<1>17. Loops'
  <2>1. \A g \in 1..Len(handles) : Alive(g) => Alive(g)'
    BY <1>3, <1>7, <1>9 DEF Alive, InHand, OneChanged
  <2>2. \A g \in sockets : g \in 1..Len(handles)
    BY DEF Refers
  <2>3. listener # 0 => listener \in 1..Len(handles)
    BY Typed DEF Refers
  <2>4. capturing /\ ~At("close") /\ listener # 0 => At("arm") \/ Alive(listener)' \/ Failed
    BY <2>1, <2>3, <1>3 DEF Loops, Alive, InHand, Queued
  <2> QED
    BY <1>3, <2>1, <2>2, <2>4 DEF Loops, Failed
<1>18. (lingering \/ Single)'
  <2> SUFFICES ASSUME Single PROVE Single'
    BY <1>3
  <2>1. handles[h].pending = 1 /\ ~InHand(h) /\ ~Queued(h)
    BY <1>2 DEF Single, Tokens
  <2>2. \A g \in 1..Len(handles) : InHand(g)' <=> InHand(g)
    BY <1>3 DEF InHand
  <2>3. ASSUME NEW g \in 1..Len(handles')
        PROVE  /\ handles'[g].pending <= 1
               /\ handles'[g].pending = 1 => ~InHand(g)' /\ ~Queued(g)'
               /\ InHand(g)' => ~Queued(g)'
    BY <1>7, <1>9, <2>1, <2>2 DEF Single, Tokens, OneChanged
  <2>4. ASSUME NEW i \in 1..Len(queue'), NEW j \in 1..Len(queue'), queue'[i].h = queue'[j].h
        PROVE  i = j
    <3>1. \A k \in 1..Len(queue) : queue[k].h # h
      BY <2>1 DEF Queued
    <3> QED
      BY <1>8, <1>9, <2>4, <3>1 DEF Single, Tokens
  <2>5. Tokens'
    BY <2>3, <2>4 DEF Tokens
  <2>6. ~At("arm")' \/ ~Alive(listener)'
    <3>1. At("arm") => listener \in 1..Len(handles) /\ ~Alive(listener)
      BY Typed DEF Single, Control, Refers
    <3>2. ASSUME At("arm"), Alive(listener)' PROVE FALSE
      <4>1. listener' = listener /\ listener # h
        BY <1>2, <1>3, <3>1, <3>2 DEF Alive
      <4>2. \/ handles'[listener].pending > 0
            \/ io'.pc # "idle" /\ io'.h = listener
            \/ \E i \in 1..Len(queue') : queue'[i].h = listener
        BY <3>2, <4>1 DEF Alive, InHand, Queued
      <4>3. ~(\E i \in 1..Len(queue') : queue'[i].h = listener)
        BY <1>8, <1>9, <3>1, <3>2, <4>1 DEF Alive, Queued
      <4>4. handles'[listener].pending = handles[listener].pending
        BY <1>7, <3>1, <3>2, <4>1 DEF OneChanged
      <4> QED
        BY <1>3, <3>1, <3>2, <4>2, <4>3, <4>4 DEF Alive, InHand
    <3> QED
      BY <1>3, <3>2
  <2>7. ~At("open") /\ ~At("attach")
    BY <1>2 DEF Single
  <2>8. \A g \in 1..Len(handles') :
          handles'[g].capture = captures' /\ (handles'[g].kind \in {"udp", "acceptor"} => listener' \in {0, g})
    BY <1>3, <1>7 DEF Single, OneChanged
  <2> QED
    BY <1>3, <2>5, <2>6, <2>7, <2>8 DEF Single
<1> QED
  BY <1>11, <1>12, <1>13, <1>14, <1>15, <1>16, <1>17, <1>18

\* One completed operation less.
LEMMA QueueShrinks ==
  ASSUME Types, queue # <<>>, queue' = Tail(queue)
  PROVE  /\ queue' \in Seq(DoneType) /\ 1 \in 1..Len(queue) /\ Head(queue) = queue[1]
         /\ \A i \in 1..Len(queue') : i + 1 \in 1..Len(queue) /\ queue'[i] = queue[i + 1] /\ i \in Nat
         /\ \A h : Queued(h) => Queued(h)' \/ h = Head(queue).h
         /\ \A h : Queued(h)' => Queued(h)
<1>1. queue \in Seq(DoneType) /\ Len(queue) \in Nat /\ Len(queue) # 0
  BY Typed
<1>2. queue' \in Seq(DoneType) /\ Len(queue') = Len(queue) - 1 /\ Head(queue) = queue[1]
  BY <1>1
<1>3. \A i \in 1..Len(queue') : i + 1 \in 1..Len(queue) /\ queue'[i] = queue[i + 1] /\ i \in Nat
  BY <1>1, <1>2
<1>4. \A i \in 1..Len(queue) : i = 1 \/ \E j \in 1..Len(queue') : i = j + 1
  <2> SUFFICES ASSUME NEW i \in 1..Len(queue), i # 1 PROVE i - 1 \in 1..Len(queue') /\ i = (i - 1) + 1
    OBVIOUS
  <2> QED
    BY <1>1, <1>2
<1>5. ASSUME NEW h, Queued(h), h # Head(queue).h PROVE Queued(h)'
  <2>1. PICK i \in 1..Len(queue) : queue[i].h = h
    BY <1>5 DEF Queued
  <2>2. PICK j \in 1..Len(queue') : i = j + 1
    BY <1>2, <1>4, <1>5, <2>1
  <2>3. queue'[j].h = h
    BY <1>3, <2>1, <2>2
  <2> QED
    BY <2>3 DEF Queued
<1>6. \A h : Queued(h)' => Queued(h)
  BY <1>3 DEF Queued
<1> QED
  BY <1>1, <1>2, <1>3, <1>5, <1>6

\* The thread takes the handler of the operation that completed first.
LEMMA TakeHandlerKeeps ==
  ASSUME IInv, TakeHandler
  PROVE  IInv'
<1> USE ProtocolIoAssumption DEF IInv, At
<1>1. PICK d : d = Head(queue)
  OBVIOUS
<1>2. /\ io.pc = "idle" /\ context = "running" /\ queue # <<>> /\ queue' = Tail(queue)
      /\ io' = [pc |-> handles[d.h].kind, h |-> d.h, ok |-> d.ok, cb |-> 0]
      /\ UNCHANGED <<service, context, handles, capturing, callback, listener, sockets, replay, replaying,
                     call, captures, events, delivered, lingering, lost>>
  BY <1>1 DEF TakeHandler, IoIdle, captureVars, replayVars, history, outcome
<1>3. /\ queue' \in Seq(DoneType) /\ 1 \in 1..Len(queue) /\ d = queue[1]
      /\ \A i \in 1..Len(queue') : i + 1 \in 1..Len(queue) /\ queue'[i] = queue[i + 1] /\ i \in Nat
      /\ \A h : Queued(h) => Queued(h)' \/ h = d.h
      /\ \A h : Queued(h)' => Queued(h)
  BY <1>1, <1>2, QueueShrinks
<1>4. d.h \in 1..Len(handles) /\ d.h \in Nat /\ d.ok \in BOOLEAN
  BY <1>3, Typed DEF Refers
<1>5. handles[d.h].kind \in Kinds
  BY <1>4, Typed
<1>6. io'.pc = handles[d.h].kind /\ io'.h = d.h /\ io'.ok = d.ok /\ io'.pc # "idle" /\ io'.pc \in Kinds
  BY <1>2, <1>5 DEF Kinds
<1>7. Types'
  <2>1. io' \in IoType
    BY <1>2, <1>4, <1>5 DEF IoType
  <2> QED
    BY <1>2, <1>3, <2>1 DEF Types
<1>8. Refers'
  BY <1>2, <1>3, <1>4, <1>6 DEF Refers
<1>9. Control' /\ Context' /\ Sources'
  <2>1. Control'
    BY <1>2 DEF Control, Cleared, InUse
  <2>2. Context'
    BY <1>2 DEF Context
  <2>3. Sources'
    BY <1>2 DEF Sources
  <2> QED
    BY <2>1, <2>2, <2>3
<1>10. Handlers'
  BY <1>2, <1>6 DEF Handlers, Kinds
<1>11. Loops'
  <2>1. \A h : Alive(h) => Alive(h)'
    BY <1>2, <1>3, <1>6 DEF Alive, InHand
  <2>2. capturing /\ ~At("close") /\ listener # 0 => At("arm") \/ Alive(listener)' \/ Failed
    BY <1>2, <2>1 DEF Loops, Alive, InHand, Queued
  <2> QED
    BY <1>2, <2>1, <2>2 DEF Loops, Failed
<1>12. (lingering \/ Single)'
  <2> SUFFICES ASSUME Single PROVE Single'
    BY <1>2
  <2>1. Queued(d.h)
    BY <1>3 DEF Queued
  <2>2. handles[d.h].pending # 1
    BY <1>4, <2>1 DEF Single, Tokens
  <2>3. ~Queued(d.h)'
    BY <1>2, <1>3 DEF Queued, Single, Tokens
  <2>4. Tokens'
    <3>1. ASSUME NEW h \in 1..Len(handles')
          PROVE  /\ handles'[h].pending <= 1
                 /\ handles'[h].pending = 1 => ~InHand(h)' /\ ~Queued(h)'
                 /\ InHand(h)' => ~Queued(h)'
      <4>1. InHand(h)' => h = d.h
        BY <1>6 DEF InHand
      <4>2. h = d.h => ~Queued(h)'
        BY <1>2, <1>3 DEF Queued, Single, Tokens
      <4> QED
        BY <1>2, <1>3, <2>2, <4>1, <4>2 DEF Single, Tokens
    <3>2. \A i, j \in 1..Len(queue') : queue'[i].h = queue'[j].h => i = j
      <4> SUFFICES ASSUME NEW i \in 1..Len(queue'), NEW j \in 1..Len(queue'), queue'[i].h = queue'[j].h
                   PROVE  i = j
        OBVIOUS
      <4>1. i + 1 \in 1..Len(queue) /\ j + 1 \in 1..Len(queue)
        BY <1>3
      <4>2. queue[i + 1].h = queue[j + 1].h
        BY <1>3
      <4>3. i + 1 = j + 1
        BY <4>1, <4>2 DEF Single, Tokens
      <4> QED
        BY <4>3
    <3> QED
      BY <3>1, <3>2 DEF Tokens
  <2>5. At("arm") => ~Alive(listener)'
    <3>1. At("arm") => ~Queued(listener) /\ ~(handles[listener].pending > 0)
      BY DEF Single, Alive
    <3>2. At("arm") => listener # d.h
      BY <2>1, <3>1
    <3>3. At("arm") => ~Queued(listener)' /\ ~InHand(listener)'
      BY <1>2, <1>3, <1>6, <3>1, <3>2 DEF Queued, InHand
    <3> QED
      BY <1>2, <3>1, <3>3 DEF Alive
  <2>6. handles # <<>>
    BY <1>4
  <2>7. io'.pc # "callback"
    BY <1>6 DEF Kinds
  <2> QED
    BY <1>2, <2>4, <2>5, <2>6, <2>7 DEF Single
<1> QED
  BY <1>7, <1>8, <1>9, <1>10, <1>11, <1>12

\* A handler that runs goes on to its next section: handles, queue and sockets stay.
LEMMA InHandKeeps ==
  ASSUME IInv, io.pc # "idle", io' \in IoType, io'.pc # "idle", io'.h = io.h,
         UNCHANGED <<service, runtime, captureVars, replayVars, call, captures, events, lingering>>,
         delivered' \in SUBSET (Nat \X Nat), Handlers', Failed => Failed',
         Single => (io'.pc = "callback" => io'.cb = captures) /\ \A d \in delivered' : d[1] = d[2]
  PROVE  IInv'
<1> USE ProtocolIoAssumption DEF IInv, At, runtime, captureVars, replayVars
<1>1. Types'
  BY DEF Types
<1>2. Refers'
  BY DEF Refers
<1>3. Control'
  BY DEF Control, Cleared, InUse
<1>4. Context'
  BY DEF Context
<1>5. Sources'
  BY DEF Sources
<1>6. Loops'
  BY DEF Loops, Alive, InHand, Queued
<1>7. (lingering \/ Single)'
  BY DEF Single, Tokens, Alive, InHand, Queued
<1> QED
  BY <1>1, <1>2, <1>3, <1>4, <1>5, <1>6, <1>7

\* A handler returns: no loop of the capture ends with it.
LEMMA HandlerEnds ==
  ASSUME IInv, io' = IoIdle, Failed => Failed',
         capturing => io.h \notin sockets, capturing /\ io.h = listener => Failed',
         UNCHANGED <<service, runtime, captureVars, replayVars, call, captures, events, lingering, delivered>>
  PROVE  IInv'
<1> USE ProtocolIoAssumption DEF IInv, At, runtime, captureVars, replayVars
<1>1. Types'
  <2>1. io' \in IoType
    BY DEF IoIdle, IoType
  <2> QED
    BY <2>1 DEF Types
<1>2. Refers'
  BY DEF Refers, IoIdle
<1>3. Control'
  BY DEF Control, Cleared, InUse
<1>4. Context'
  BY DEF Context
<1>5. Sources'
  BY DEF Sources
<1>6. Handlers'
  BY DEF Handlers, IoIdle, Kinds
<1>7. Loops'
  BY DEF Loops, Alive, InHand, Queued
<1>8. (lingering \/ Single)'
  BY DEF Single, Tokens, Alive, InHand, Queued, IoIdle
<1> QED
  BY <1>1, <1>2, <1>3, <1>4, <1>5, <1>6, <1>7, <1>8

\* The handler of a receive or a read decides.
LEMMA HandleReadKeeps ==
  ASSUME IInv, HandleRead
  PROVE  IInv'
<1> USE ProtocolIoAssumption DEF IInv
<1>1. /\ io.pc \in {"udp", "stream"} /\ io \in IoType /\ io.h \in 1..Len(handles) /\ handles[io.h].kind = io.pc
      /\ UNCHANGED <<service, runtime, captureVars, replayVars, call, captures, events, lingering, delivered>>
  BY DEF HandleRead, Refers, Handlers, Kinds, Types
<1>2. Failed => Failed'
  BY DEF HandleRead, EndsUdp, Failed
<1>3. CASE io.ok /\ capturing /\ callback # 0
  <2>1. io' = [io EXCEPT !.pc = "callback", !.cb = callback]
    BY <1>3 DEF HandleRead
  <2>2. io'.pc = "callback" /\ io'.h = io.h /\ io'.cb = callback /\ io' \in IoType
    BY <1>1, <2>1 DEF IoType, Types
  <2>3. Handlers'
    BY <1>1, <2>2 DEF runtime, Handlers, Kinds
  <2>4. callback = captures
    BY <1>3 DEF Sources
  <2>5. delivered' \in SUBSET (Nat \X Nat) /\ (Single => \A d \in delivered' : d[1] = d[2])
    BY <1>1 DEF Types, Single
  <2> QED
    BY <1>1, <1>2, <2>2, <2>3, <2>4, <2>5, InHandKeeps
<1>4. CASE ~(io.ok /\ capturing /\ callback # 0) /\ io.pc = "stream" /\ ~io.ok
  <2>1. io' = [io EXCEPT !.pc = "remove"]
    BY <1>4 DEF HandleRead
  <2>2. io'.pc = "remove" /\ io'.h = io.h /\ io' \in IoType
    BY <1>1, <2>1 DEF IoType
  <2>3. Handlers'
    BY <1>1, <1>4, <2>2 DEF runtime, Handlers, Kinds
  <2>4. delivered' \in SUBSET (Nat \X Nat) /\ (Single => \A d \in delivered' : d[1] = d[2])
    BY <1>1 DEF Types, Single
  <2> QED
    BY <1>1, <1>2, <2>2, <2>3, <2>4, InHandKeeps
<1>5. CASE ~(io.ok /\ capturing /\ callback # 0) /\ ~(io.pc = "stream" /\ ~io.ok)
  <2>1. io' = IoIdle
    BY <1>5 DEF HandleRead
  <2>2. capturing => ~io.ok /\ io.pc = "udp"
    BY <1>1, <1>5 DEF Sources
  <2>3. capturing => service = "udp" /\ io.h \notin sockets
    BY <1>1, <2>2 DEF Sources, Types
  <2>4. capturing /\ io.h = listener => Failed'
    BY <1>1, <2>2, <2>3 DEF HandleRead, EndsUdp, Failed
  <2> QED
    BY <1>1, <1>2, <2>1, <2>3, <2>4, HandlerEnds
<1> QED
  BY <1>3, <1>4, <1>5

\* A packet goes to the callback that the handler copied.
LEMMA CallCallbackKeeps ==
  ASSUME IInv, CallCallback
  PROVE  IInv'
<1> USE ProtocolIoAssumption DEF IInv
<1>1. /\ io.pc = "callback" /\ io \in IoType /\ io.h \in 1..Len(handles)
      /\ handles[io.h].kind \in {"udp", "stream"} /\ handles[io.h].capture \in Nat
      /\ io' = [io EXCEPT !.pc = "again"]
      /\ delivered' = delivered \cup {<<handles[io.h].capture, io.cb>>}
      /\ UNCHANGED <<service, runtime, captureVars, replayVars, call, captures, events, lingering>>
  BY Typed DEF CallCallback, Refers, Handlers, Types
<1>2. io'.pc = "again" /\ io'.h = io.h /\ io' \in IoType /\ io.cb \in Nat
  BY <1>1 DEF IoType
<1>3. Handlers'
  BY <1>1, <1>2 DEF runtime, Handlers, Kinds
<1>4. delivered' \in SUBSET (Nat \X Nat)
  BY <1>1, <1>2 DEF Types
<1>5. Single => \A d \in delivered' : d[1] = d[2]
  BY <1>1 DEF Single
<1>6. Failed => Failed'
  BY DEF CallCallback, outcome, Failed
<1> QED
  BY <1>1, <1>2, <1>3, <1>4, <1>5, <1>6, InHandKeeps

\* The next operation is begun on a handle of hs, which are the handles but for the
\* kind of h: it is pending, or on a closed handle has failed.
LEMMA BeginStep ==
  ASSUME Types, NEW h \in 1..Len(handles), NEW hs \in Seq(HandleType), Len(hs) = Len(handles),
         \A g \in 1..Len(handles) :
           /\ hs[g].capture = handles[g].capture /\ hs[g].open = handles[g].open
           /\ hs[g].pending = handles[g].pending
           /\ g # h => hs[g].kind = handles[g].kind,
         handles' = Begin(hs, h), queue' = BeginQueue(handles, h)
  PROVE  /\ OneChanged(h, IF handles[h].open THEN handles[h].pending + 1 ELSE handles[h].pending)
         /\ handles'[h].kind = hs[h].kind
         /\ queue' \in Seq(DoneType)
         /\ \A i \in 1..Len(queue') :
              \/ i \in 1..Len(queue) /\ queue'[i] = queue[i]
              \/ i = Len(queue) + 1 /\ queue'[i].h = h /\ ~queue'[i].ok /\ ~handles[h].open
         /\ \A g : Queued(g)' <=> (Queued(g) \/ (g = h /\ ~handles[h].open))
<1>1. PICK b : b = Begin(hs, h)
  OBVIOUS
<1>2. /\ b \in Seq(HandleType) /\ Len(b) = Len(handles)
      /\ \A g \in 1..Len(handles) :
           b[g] = IF g = h /\ hs[h].open THEN [hs[h] EXCEPT !.pending = hs[h].pending + 1] ELSE hs[g]
  BY <1>1, BeginEffect
<1>3. handles' = b
  BY <1>1
<1>4. hs[h] \in HandleType /\ handles[h].open \in BOOLEAN /\ handles[h].pending \in Nat
  BY Typed
<1>5. OneChanged(h, IF handles[h].open THEN handles[h].pending + 1 ELSE handles[h].pending)
      /\ handles'[h].kind = hs[h].kind
  <2>1. CASE handles[h].open
    <3>1. b[h] = [hs[h] EXCEPT !.pending = hs[h].pending + 1] /\ \A g \in 1..Len(handles) : g # h => b[g] = hs[g]
      BY <1>2, <2>1
    <3>2. /\ b[h].kind = hs[h].kind /\ b[h].capture = hs[h].capture /\ b[h].open = hs[h].open
          /\ b[h].pending = hs[h].pending + 1
      BY <1>4, <3>1 DEF HandleType
    <3>3. /\ b[h].capture = handles[h].capture /\ b[h].open = handles[h].open
          /\ b[h].pending = handles[h].pending + 1
      BY <3>2
    <3>4. ASSUME NEW g \in 1..Len(handles)
          PROVE  /\ b[g].capture = handles[g].capture /\ (b[g].open <=> handles[g].open)
                 /\ g # h => b[g].pending = handles[g].pending /\ b[g].kind = handles[g].kind
      <4>1. CASE g = h
        BY ONLY <3>3, <4>1
      <4>2. CASE g # h
        <5>1. b[g] = hs[g]
          BY ONLY <3>1, <4>2
        <5> QED
          BY <4>2, <5>1
      <4> QED
        BY ONLY <4>1, <4>2
    <3>5. OneChanged(h, handles[h].pending + 1) /\ handles'[h].kind = hs[h].kind
      BY <1>2, <1>3, <3>2, <3>3, <3>4 DEF OneChanged
    <3> QED
      BY <2>1, <3>5
  <2>2. CASE ~handles[h].open
    <3>1. \A g \in 1..Len(handles) : b[g] = hs[g]
      BY <1>2, <2>2
    <3>2. OneChanged(h, handles[h].pending) /\ handles'[h].kind = hs[h].kind
      BY <1>2, <1>3, <3>1 DEF OneChanged
    <3> QED
      BY <2>2, <3>2
  <2> QED
    BY <2>1, <2>2
<1>6. CASE handles[h].open
  <2>1. queue' = queue
    BY <1>6 DEF BeginQueue
  <2>2. queue' \in Seq(DoneType)
    BY <2>1, Typed
  <2>3. \A g : Queued(g)' <=> Queued(g)
    BY <2>1 DEF Queued
  <2> QED
    BY <1>5, <1>6, <2>1, <2>2, <2>3
<1>7. CASE ~handles[h].open
  <2>1. PICK d \in DoneType : d = Done(h, FALSE) /\ d.h = h /\ ~d.ok
    <3>1. h \in Nat
      OBVIOUS
    <3>2. Done(h, FALSE) \in DoneType /\ Done(h, FALSE).h = h /\ ~Done(h, FALSE).ok
      BY <3>1 DEF Done, DoneType
    <3> QED
      BY <3>2
  <2>2. queue' = Append(queue, d)
    BY <1>7, <2>1 DEF BeginQueue
  <2> QED
    BY <1>5, <1>7, <2>1, <2>2, QueueGrows
<1> QED
  BY <1>6, <1>7

\* A handler returns and has begun the next operation: the loop it belongs to goes on,
\* with one operation unless handlers of an older capture are left.
LEMMA BeginKeeps ==
  ASSUME IInv, NEW h \in 1..Len(handles), NEW hs \in Seq(HandleType), Len(hs) = Len(handles),
         \A g \in 1..Len(handles) :
           /\ hs[g].capture = handles[g].capture /\ hs[g].open = handles[g].open
           /\ hs[g].pending = handles[g].pending
           /\ g # h => hs[g].kind = handles[g].kind,
         hs[h].kind = handles[h].kind \/ (handles[h].kind = "connecting" /\ hs[h].kind = "stream"),
         handles' = Begin(hs, h), queue' = BeginQueue(handles, h),
         io.pc # "idle", io' = IoIdle,
         capturing /\ (io.h = listener \/ io.h \in sockets) => h = io.h,
         Single => h = io.h,
         UNCHANGED <<service, context, captureVars, replayVars, call, history>>
  PROVE  IInv'
<1> USE ProtocolIoAssumption DEF IInv, At, captureVars, replayVars, history, outcome
<1>1. PICK n : n = IF handles[h].open THEN handles[h].pending + 1 ELSE handles[h].pending
  OBVIOUS
<1>2. /\ OneChanged(h, n) /\ handles'[h].kind = hs[h].kind /\ queue' \in Seq(DoneType)
      /\ \A i \in 1..Len(queue') :
           \/ i \in 1..Len(queue) /\ queue'[i] = queue[i]
           \/ i = Len(queue) + 1 /\ queue'[i].h = h /\ ~queue'[i].ok /\ ~handles[h].open
      /\ \A g : Queued(g)' <=> (Queued(g) \/ (g = h /\ ~handles[h].open))
  BY <1>1, BeginStep
<1>3. handles[h].pending \in Nat /\ handles[h].open \in BOOLEAN /\ (handles[h].open \/ handles[h].pending = 0)
  BY Typed DEF Sources
<1>4. io.h \in 1..Len(handles) /\ Len(handles') = Len(handles) /\ handles # <<>>
  BY <1>2 DEF Refers, OneChanged
<1>5. Alive(h)'
  BY <1>1, <1>2, <1>3 DEF Alive, OneChanged
<1>6. ASSUME NEW g \in 1..Len(handles), g # io.h, Alive(g)
      PROVE  Alive(g)'
  <2>1. handles[g].pending > 0 \/ Queued(g)
    BY <1>6 DEF Alive, InHand
  <2>2. g # h => handles'[g].pending = handles[g].pending
    BY <1>2 DEF OneChanged
  <2>3. Queued(g) => Queued(g)'
    BY <1>2
  <2> QED
    BY <1>5, <2>1, <2>2, <2>3 DEF Alive
<1>7. Types'
  <2>1. io' \in IoType
    BY DEF IoIdle, IoType
  <2> QED
    BY <1>2, <2>1 DEF Types, OneChanged
<1>8. Refers'
  <2>1. \A i \in 1..Len(queue') : queue'[i].h \in 1..Len(handles')
    BY <1>2, <1>4 DEF Refers
  <2> QED
    BY <1>4, <2>1 DEF Refers, IoIdle
<1>9. Control'
  BY DEF Control, Cleared, InUse
<1>10. Context'
  BY <1>4 DEF Context
<1>11. Sources'
  <2>1. ASSUME NEW g \in 1..Len(handles)
        PROVE  /\ handles'[g].open \/ handles'[g].pending = 0
               /\ handles'[g].open <=> handles[g].open
               /\ service = "udp" => handles'[g].kind = "udp"
               /\ service = "tcp" => handles'[g].kind # "udp"
               /\ handles[g].kind \in {"udp", "acceptor"} => handles'[g].kind \in {"udp", "acceptor"}
               /\ handles[g].kind \in {"stream", "connecting"} => handles'[g].kind \in {"stream", "connecting"}
    <3>1. handles[g].open \/ handles[g].pending = 0
      BY DEF Sources
    <3>2. /\ service = "udp" => handles[g].kind = "udp"
          /\ service = "tcp" => handles[g].kind # "udp"
      BY DEF Sources
    <3>3. CASE g = h
      BY <1>1, <1>2, <1>3, <3>2, <3>3 DEF OneChanged
    <3>4. CASE g # h
      BY <1>2, <3>1, <3>2, <3>4 DEF OneChanged
    <3> QED
      BY <3>3, <3>4
  <2>2. listener # 0 => listener \in 1..Len(handles)
    BY Typed DEF Refers
  <2>3. \A g \in sockets : g \in 1..Len(handles)
    BY DEF Refers
  <2>4. /\ listener # 0 => handles[listener].open /\ handles[listener].kind \in {"udp", "acceptor"}
        /\ \A g \in sockets : handles[g].open /\ handles[g].kind \in {"stream", "connecting"}
        /\ capturing => callback # 0
        /\ callback # 0 => callback = captures
        /\ capturing => listener # 0 \/ sockets # {} \/ At("attach") \/ At("close")
        /\ service = "udp" => sockets = {}
    BY DEF Sources
  <2> QED
    BY <1>4, <2>1, <2>2, <2>3, <2>4 DEF Sources
<1>12. Handlers'
  BY DEF Handlers, IoIdle, Kinds
<1>13. Loops'
  <2>1. listener # 0 => listener \in 1..Len(handles)
    BY Typed DEF Refers
  <2>2. \A g \in sockets : g \in 1..Len(handles)
    BY DEF Refers
  <2>3. ASSUME capturing, ~At("close"), NEW g \in sockets PROVE Alive(g)'
    <3>1. Alive(g)
      BY <2>3 DEF Loops
    <3> QED
      BY <1>5, <1>6, <2>2, <2>3, <3>1
  <2>4. ASSUME capturing, ~At("close"), listener # 0 PROVE At("arm") \/ Alive(listener)' \/ Failed
    <3>1. PICK l \in 1..Len(handles) : l = listener /\ listener' = l
      BY <2>1, <2>4
    <3>2. At("arm") \/ Alive(l) \/ Failed
      BY <2>4, <3>1 DEF Loops
    <3>3. At("arm") \/ Alive(l)' \/ Failed
      BY <1>5, <1>6, <2>4, <3>1, <3>2
    <3> QED
      BY <3>1, <3>3 DEF Alive, InHand, Queued
  <2> QED
    BY <2>3, <2>4 DEF Loops, Failed
<1>14. (lingering \/ Single)'
  <2> SUFFICES ASSUME Single PROVE Single'
    OBVIOUS
  <2>1. h = io.h /\ InHand(h) /\ ~Queued(h) /\ handles[h].pending = 0
    BY <1>3 DEF Single, Tokens, InHand
  <2>2. \A g : ~InHand(g)'
    BY DEF InHand, IoIdle
  <2>3. ASSUME NEW g \in 1..Len(handles')
        PROVE  handles'[g].pending <= 1 /\ (handles'[g].pending = 1 => ~Queued(g)')
    <3>1. CASE g = h
      BY <1>1, <1>2, <2>1, <3>1 DEF OneChanged
    <3>2. CASE g # h
      BY <1>2, <1>4, <3>2 DEF OneChanged, Single, Tokens
    <3> QED
      BY <3>1, <3>2
  <2>4. ASSUME NEW i \in 1..Len(queue'), NEW j \in 1..Len(queue'), queue'[i].h = queue'[j].h
        PROVE  i = j
    <3>1. \A k \in 1..Len(queue) : queue[k].h # h
      BY <2>1 DEF Queued
    <3> QED
      BY SMTT(30), <1>2, <2>4, <3>1 DEF Single, Tokens
  <2>5. Tokens'
    BY <2>2, <2>3, <2>4 DEF Tokens
  <2>6. ASSUME At("arm") PROVE ~Alive(listener)'
    <3>1. PICK l \in 1..Len(handles) : l = listener /\ listener' = l
      BY <2>6, Typed DEF Refers, Control
    <3>2. ~Queued(l) /\ ~InHand(l) /\ ~(handles[l].pending > 0)
      BY <2>6, <3>1 DEF Single, Alive
    <3>3. l # h
      BY <2>1, <3>2
    <3>4. ~Queued(l)' /\ ~(handles'[l].pending > 0)
      BY <1>2, <3>2, <3>3 DEF OneChanged
    <3> QED
      BY <2>2, <3>1, <3>4 DEF Alive, InHand, Queued
  <2>7. \A g \in 1..Len(handles') :
          handles'[g].capture = captures' /\ (handles'[g].kind \in {"udp", "acceptor"} => listener' \in {0, g})
    BY <1>2, <1>4 DEF Single, OneChanged
  <2> QED
    BY <1>4, <2>5, <2>6, <2>7 DEF Single, IoIdle
<1> QED
  BY <1>7, <1>8, <1>9, <1>10, <1>11, <1>12, <1>13, <1>14

\* The next receive or accept is begun on the socket or acceptor of the moment.
LEMMA AgainKeeps ==
  ASSUME IInv, Again
  PROVE  IInv'
<1> USE ProtocolIoAssumption DEF IInv
<1>1. /\ io.pc = "again" /\ io.h \in 1..Len(handles) /\ io.h # 0
      /\ handles[io.h].kind \in {"udp", "stream", "acceptor"} /\ io' = IoIdle
      /\ UNCHANGED <<service, context, captureVars, replayVars, call, history>>
  BY DEF Again, Refers, Handlers
<1>2. PICK h : h = IF handles[io.h].kind = "stream" THEN io.h ELSE listener
  OBVIOUS
<1>3. IF h = 0 THEN UNCHANGED <<handles, queue>>
      ELSE handles' = Begin(handles, h) /\ queue' = BeginQueue(handles, h)
  BY <1>2 DEF Again
<1>4. CASE h = 0
  <2>1. listener = 0 /\ handles[io.h].kind # "stream"
    BY <1>1, <1>2, <1>4
  <2>2. io.h # listener /\ io.h \notin sockets
    BY <1>1, <2>1 DEF Sources
  <2> QED
    BY <1>1, <1>3, <1>4, <2>2, HandlerEnds DEF runtime, history, outcome, Failed
<1>5. CASE h # 0
  <2>1. h \in 1..Len(handles)
    BY <1>1, <1>2, <1>5, Typed DEF Refers
  <2>2. handles \in Seq(HandleType)
    BY Typed
  <2>3. io.h = listener \/ io.h \in sockets => h = io.h
    BY <1>1, <1>2 DEF Sources
  <2>4. Single => h = io.h
    BY <1>1, <1>2, <1>5 DEF Single
  <2> QED
    BY <1>1, <1>3, <1>5, <2>1, <2>2, <2>3, <2>4, BeginKeeps
<1> QED
  BY <1>4, <1>5

\* A client's socket has connected, and is read from, or cannot connect.
LEMMA HandleConnectKeeps ==
  ASSUME IInv, HandleConnect
  PROVE  IInv'
<1> USE ProtocolIoAssumption DEF IInv
<1>1. /\ io.pc = "connecting" /\ io.h \in 1..Len(handles) /\ handles[io.h].kind = "connecting" /\ io \in IoType
      /\ UNCHANGED <<service, context, captureVars, replayVars, call, history>>
  BY DEF HandleConnect, Refers, Handlers, Kinds, Types
<1>2. CASE io.ok
  <2>1. PICK hs : hs = [handles EXCEPT ![io.h].kind = "stream"]
    OBVIOUS
  <2>2. PICK x : x = [handles[io.h] EXCEPT !.kind = "stream"]
    OBVIOUS
  <2>3. handles[io.h] \in HandleType /\ x \in HandleType
    BY <1>1, <2>2, Typed, HandleUpdates
  <2>4. /\ x.kind = "stream" /\ x.capture = handles[io.h].capture /\ x.open = handles[io.h].open
        /\ x.pending = handles[io.h].pending
    BY <2>2, <2>3 DEF HandleType
  <2>5. handles \in Seq(HandleType)
    BY Typed
  <2>6. hs = [handles EXCEPT ![io.h] = x]
    BY <2>1, <2>2
  <2>7. hs \in Seq(HandleType) /\ Len(hs) = Len(handles)
    BY <1>1, <2>3, <2>5, <2>6
  <2>8. \A g \in 1..Len(handles) : hs[g] = IF g = io.h THEN x ELSE handles[g]
    BY <1>1, <2>5, <2>6
  <2>9. handles' = Begin(hs, io.h) /\ queue' = BeginQueue(handles, io.h) /\ io' = IoIdle
    BY <1>2, <2>1 DEF HandleConnect
  <2>10. /\ \A g \in 1..Len(handles) :
              /\ hs[g].capture = handles[g].capture /\ hs[g].open = handles[g].open
              /\ hs[g].pending = handles[g].pending
              /\ g # io.h => hs[g].kind = handles[g].kind
         /\ hs[io.h].kind = "stream"
    BY <1>1, <2>4, <2>8
  <2> QED
    BY <1>1, <2>7, <2>9, <2>10, BeginKeeps
<1>3. CASE ~io.ok
  <2>1. io' = [io EXCEPT !.pc = "remove"] /\ UNCHANGED <<handles, queue>>
    BY <1>3 DEF HandleConnect
  <2>2. io'.pc = "remove" /\ io'.h = io.h /\ io' \in IoType
    BY <1>1, <2>1 DEF IoType
  <2>3. Handlers'
    BY <1>1, <2>1, <2>2 DEF Handlers, Kinds
  <2>4. delivered' \in SUBSET (Nat \X Nat) /\ (Single => \A d \in delivered' : d[1] = d[2])
    BY <1>1 DEF history, outcome, Types, Single
  <2> QED
    BY <1>1, <2>1, <2>2, <2>3, <2>4, InHandKeeps DEF runtime, history, outcome, Failed
<1> QED
  BY <1>2, <1>3

\* A connection that was accepted gets a socket of its own while the service captures.
LEMMA HandleAcceptKeeps ==
  ASSUME IInv, HandleAccept
  PROVE  IInv'
<1> USE ProtocolIoAssumption DEF IInv, At
<1>1. /\ io.pc = "acceptor" /\ io.h \in 1..Len(handles) /\ handles[io.h].kind = "acceptor" /\ io \in IoType
      /\ UNCHANGED <<service, context, queue, capturing, callback, listener, replay, replaying, call,
                     captures, events, delivered, lingering, lost>>
  BY DEF HandleAccept, replayVars, history, outcome, Refers, Handlers, Kinds, Types
<1>2. ASSUME UNCHANGED <<handles, sockets>>, io' = IoIdle, capturing => listener = 0
      PROVE  IInv'
  <2>1. capturing => io.h # listener /\ io.h \notin sockets
    BY <1>1, <1>2 DEF Sources
  <2> QED
    BY <1>1, <1>2, <2>1, HandlerEnds DEF runtime, captureVars, replayVars, Failed
<1>3. ASSUME UNCHANGED <<handles, sockets>>, io' = [io EXCEPT !.pc = "again"]
      PROVE  IInv'
  <2>1. io'.pc = "again" /\ io'.h = io.h /\ io' \in IoType
    BY <1>1, <1>3 DEF IoType
  <2>2. Handlers'
    BY <1>1, <1>3, <2>1 DEF Handlers, Kinds
  <2>3. delivered' \in SUBSET (Nat \X Nat) /\ (Single => \A d \in delivered' : d[1] = d[2])
    BY <1>1 DEF Types, Single
  <2> QED
    BY <1>1, <1>3, <2>1, <2>2, <2>3, InHandKeeps DEF runtime, captureVars, replayVars, Failed
<1>4. ASSUME capturing, NEW new, new = Len(handles) + 1,
             handles' = Append(handles, Handle("stream", handles[io.h].capture, 1)),
             sockets' = sockets \cup {new}, io' = [io EXCEPT !.pc = "again"]
      PROVE  IInv'
  <2>1. io'.pc = "again" /\ io'.h = io.h /\ io' \in IoType
    BY <1>1, <1>4 DEF IoType
  <2>2. PICK x : x = Handle("stream", handles[io.h].capture, 1)
    OBVIOUS
  <2>3. handles[io.h].capture \in Nat
    BY <1>1, Typed
  <2>4. x \in HandleType /\ x.kind = "stream" /\ x.capture = handles[io.h].capture /\ x.open /\ x.pending = 1
    BY <2>2, <2>3 DEF Handle, HandleType, Kinds
  <2>5. /\ handles' \in Seq(HandleType) /\ Len(handles') = new /\ new \in Nat \ {0} /\ Len(handles) \in Nat
        /\ \A h \in 1..Len(handles') : h \in 1..Len(handles) \/ h = new
        /\ \A h \in 1..Len(handles) : h \in 1..Len(handles') /\ handles'[h] = handles[h]
        /\ new \in 1..Len(handles') /\ new \notin 1..Len(handles) /\ handles'[new] = x
    BY <1>4, <2>2, <2>4, NewHandle, Typed
  <2>6. service = "tcp"
    BY <1>1 DEF Types, Sources
  <2>7. handles # <<>>
    BY <1>1
  <2>8. Types'
    BY <1>1, <1>4, <2>1, <2>5 DEF Types
  <2>9. Refers'
    BY <1>1, <1>4, <2>1, <2>5 DEF Refers
  <2>10. Control'
    <3>1. ~At("join") /\ ~(call.op \in CaptureOps /\ call.pc \in {"closeTaken", "reset", "join", "open"})
      BY <1>4 DEF Control, InUse, Sources, Cleared
    <3> QED
      BY <1>1, <3>1 DEF Control
  <2>11. Context'
    BY <1>1, <2>7 DEF Context
  <2>12. Sources'
    <3>1. \A h \in 1..Len(handles') : handles'[h].kind # "udp" /\ (handles'[h].open \/ handles'[h].pending = 0)
      BY <2>4, <2>5, <2>6 DEF Sources
    <3>2. listener # 0 => handles'[listener].open /\ handles'[listener].kind \in {"udp", "acceptor"}
      <4>1. listener # 0 => listener \in 1..Len(handles)
        BY Typed DEF Refers
      <4> QED
        BY <2>5, <4>1 DEF Sources
    <3>3. \A h \in sockets' : handles'[h].open /\ handles'[h].kind \in {"stream", "connecting"}
      BY <1>4, <2>4, <2>5 DEF Sources, Refers
    <3> QED
      BY <1>1, <1>4, <2>6, <3>1, <3>2, <3>3 DEF Sources
  <2>13. Handlers'
    BY <1>1, <2>1, <2>5 DEF Handlers, Refers, Kinds
  <2>14. \A h \in 1..Len(handles) : Alive(h) => Alive(h)'
    BY <1>1, <2>1, <2>5 DEF Alive, InHand, Queued
  <2>15. Loops'
    <3> SUFFICES ASSUME ~At("close") PROVE Loops'
      BY <1>1 DEF Loops
    <3>1. Alive(new)'
      BY <2>4, <2>5 DEF Alive
    <3>2. \A h \in sockets : Alive(h)'
      BY <1>4, <2>14 DEF Loops, Failed, Refers
    <3>3. ASSUME listener # 0 PROVE At("arm") \/ Alive(listener)' \/ Failed
      <4>1. PICK l \in 1..Len(handles) : l = listener /\ listener' = l
        BY <1>1, <3>3, Typed DEF Refers
      <4>2. At("arm") \/ Alive(l)' \/ Failed
        BY <1>4, <2>14, <3>3, <4>1 DEF Loops, Failed
      <4> QED
        BY <4>1, <4>2 DEF Alive, InHand, Queued
    <3> QED
      BY <1>1, <1>4, <3>1, <3>2, <3>3 DEF Loops, Failed
  <2>16. (lingering \/ Single)'
    <3> SUFFICES ASSUME Single PROVE Single'
      BY <1>1
    <3>1. \A h : Queued(h)' <=> Queued(h)
      BY <1>1 DEF Queued
    <3>2. \A h : InHand(h)' <=> InHand(h)
      BY <1>1, <2>1 DEF InHand
    <3>3. ~Queued(new) /\ ~InHand(new)
      BY <1>1, <2>5 DEF Queued, InHand, Refers
    <3>4. Tokens'
      BY <1>1, <2>4, <2>5, <3>1, <3>2, <3>3 DEF Single, Tokens
    <3>5. \A h \in 1..Len(handles') :
            handles'[h].capture = captures' /\ (handles'[h].kind \in {"udp", "acceptor"} => listener' \in {0, h})
      BY <1>1, <2>4, <2>5 DEF Single
    <3>6. ~At("arm")
      BY <2>6 DEF Control
    <3> QED
      BY <1>1, <2>1, <2>7, <3>4, <3>5, <3>6 DEF Single
  <2> QED
    BY <2>8, <2>9, <2>10, <2>11, <2>12, <2>13, <2>15, <2>16
<1>5. CASE io.ok /\ capturing
  BY <1>4, <1>5 DEF HandleAccept
<1>6. CASE io.ok /\ ~capturing
  BY <1>2, <1>6 DEF HandleAccept
<1>7. CASE ~io.ok
  BY <1>2, <1>3, <1>7 DEF HandleAccept
<1> QED
  BY <1>5, <1>6, <1>7

\* A socket that failed is closed and forgotten; the last one ends the capture of a client.
LEMMA RemoveCaptureSocketKeeps ==
  ASSUME IInv, RemoveCaptureSocket
  PROVE  IInv'
<1> USE ProtocolIoAssumption DEF IInv, At
<1>1. /\ io.pc = "remove" /\ io.h \in 1..Len(handles) /\ handles[io.h].kind \in {"stream", "connecting"}
      /\ io' = IoIdle /\ sockets' = sockets \ {io.h}
      /\ UNCHANGED <<service, context, listener, replay, replaying, call, captures, events, delivered, lingering>>
  BY DEF RemoveCaptureSocket, replayVars, history, outcome, Refers, Handlers
<1>2. PICK closed : closed = {io.h}
  OBVIOUS
<1>3. CloseAll(closed) /\ closed \subseteq 1..Len(handles)
  BY <1>1, <1>2 DEF RemoveCaptureSocket
<1>4. IF sockets' = {} /\ listener = 0
        THEN ~capturing' /\ capturing' \in BOOLEAN /\ callback' = 0
        ELSE capturing' = capturing /\ callback' = callback
  BY DEF RemoveCaptureSocket, Types
<1>5. io.h # listener
  BY <1>1 DEF Sources
<1>6. /\ Len(handles') = Len(handles) /\ (handles = <<>> => handles' = <<>>)
      /\ \A h \in 1..Len(handles) :
           /\ handles'[h].kind = handles[h].kind /\ handles'[h].capture = handles[h].capture
           /\ handles'[h].open \/ handles'[h].pending = 0
           /\ handles'[h].open => handles[h].open
           /\ h # io.h => handles'[h] = handles[h]
  BY <1>2, <1>3, CloseKeepsHandles
<1>7. /\ \A i \in 1..Len(queue') : queue'[i].h \in 1..Len(handles')
      /\ \A h \in 1..Len(handles) : Queued(h) => Queued(h)'
      /\ \A h \in 1..Len(handles) :
           Queued(h)' => Queued(h) \/ (h = io.h /\ handles[h].pending > 0)
  BY <1>2, <1>3, CloseQueued
<1>8. \A h : ~InHand(h)'
  BY <1>1 DEF InHand, IoIdle
<1>9. \A h \in 1..Len(handles) : h # io.h /\ Alive(h) => Alive(h)'
  BY <1>6, <1>7 DEF Alive, InHand
<1>10. listener # 0 => listener \in 1..Len(handles)
  BY Typed DEF Refers
<1>11. Types'
  <2>1. handles' \in Seq(HandleType) /\ queue' \in Seq(DoneType)
    BY <1>3, CloseAllEffect
  <2>2. io' \in IoType
    BY <1>1 DEF IoIdle, IoType
  <2>3. capturing' \in BOOLEAN /\ callback' \in Nat
    BY <1>4 DEF Types
  <2> QED
    BY <1>1, <2>1, <2>2, <2>3 DEF Types
<1>12. Refers'
  BY <1>1, <1>6, <1>7 DEF Refers, IoIdle
<1>13. Control'
  <2>1. call.op \in CaptureOps /\ call.pc \in {"closeTaken", "reset", "join", "open"} => Cleared'
    BY <1>1, <1>4 DEF Control, Cleared
  <2>2. At("arm") => capturing'
    BY <1>1, <1>4 DEF Control
  <2>3. At("join") => ~InUse'
    BY <1>1 DEF Control, InUse
  <2> QED
    BY <1>1, <2>1, <2>2, <2>3 DEF Control
<1>14. Context'
  BY <1>1, <1>6 DEF Context
<1>15. Sources'
  <2>1. capturing' => callback' # 0
    BY <1>4 DEF Sources
  <2>2. callback' # 0 => callback' = captures'
    BY <1>1, <1>4 DEF Sources
  <2>3. capturing' => listener' # 0 \/ sockets' # {}
    BY <1>1, <1>4
  <2>4. /\ service = "udp" => sockets' = {} /\ \A h \in 1..Len(handles') : handles'[h].kind = "udp"
        /\ service = "tcp" => \A h \in 1..Len(handles') : handles'[h].kind # "udp"
    BY <1>1, <1>6 DEF Sources
  <2>5. listener' # 0 => handles'[listener'].open /\ handles'[listener'].kind \in {"udp", "acceptor"}
    BY <1>1, <1>5, <1>6, <1>10 DEF Sources
  <2>6. \A h \in sockets' : handles'[h].open /\ handles'[h].kind \in {"stream", "connecting"}
    BY <1>1, <1>6 DEF Sources, Refers
  <2> QED
    BY <1>1, <1>6, <2>1, <2>2, <2>3, <2>4, <2>5, <2>6 DEF Sources
<1>16. Handlers'
  BY <1>1, <1>6 DEF Handlers, IoIdle, Kinds
<1>17. Loops'
  <2>1. capturing' => capturing
    BY <1>4
  <2>4. Failed => Failed'
    BY <1>1 DEF RemoveCaptureSocket, Failed
  <2>2. ASSUME capturing', ~At("close"), NEW h \in sockets' PROVE Alive(h)'
    BY <1>1, <1>9, <2>1, <2>2 DEF Loops, Failed, Refers
  <2>3. ASSUME capturing', ~At("close"), listener' # 0 PROVE At("arm")' \/ Alive(listener)' \/ Failed'
    <3>1. PICK l \in 1..Len(handles) : l = listener /\ listener' = l
      BY <1>1, <1>10, <2>3
    <3>2. At("arm") \/ Alive(l) \/ Failed
      BY <2>1, <2>3, <3>1 DEF Loops
    <3>3. At("arm") \/ Alive(l)' \/ Failed'
      BY <1>5, <1>9, <2>4, <3>1, <3>2
    <3> QED
      BY <1>1, <3>1, <3>3 DEF Alive, InHand, Queued
  <2> QED
    BY <1>1, <2>2, <2>3 DEF Loops
<1>18. (lingering \/ Single)'
  <2> SUFFICES ASSUME Single PROVE Single'
    BY <1>1
  <2>1. Tokens'
    BY <1>1, <1>3, CloseKeepsTokens DEF Single
  <2>2. \A h \in 1..Len(handles') :
          handles'[h].capture = captures' /\ (handles'[h].kind \in {"udp", "acceptor"} => listener' \in {0, h})
    BY <1>1, <1>6 DEF Single
  <2>3. ~At("arm")
    BY <1>1 DEF Control, Sources
  <2> QED
    BY <1>1, <1>6, <2>1, <2>2, <2>3 DEF Single, IoIdle
<1> QED
  BY <1>11, <1>12, <1>13, <1>14, <1>15, <1>16, <1>17, <1>18

-----------------------------------------------------------------------------
\* The initial state satisfies the invariant.
LEMMA InitIInv == Init => IInv
<1> SUFFICES ASSUME Init PROVE IInv
  OBVIOUS
<1> USE ProtocolIoAssumption DEF Init
<1>1. service \in {"udp", "tcp"}
  BY DEF Services
<1>2. io \in IoType /\ call \in CallType
  BY DEF IoIdle, NoCall, IoType, CallType
<1>3. Types
  <2>1. handles \in Seq(HandleType) /\ queue \in Seq(DoneType)
    OBVIOUS
  <2>2. delivered \in SUBSET (Nat \X Nat)
    OBVIOUS
  <2>3. /\ context = "none" /\ capturing = FALSE /\ callback = 0 /\ listener = 0 /\ sockets = {}
        /\ replay = FALSE /\ replaying = FALSE /\ lingering = FALSE /\ events = 0
    OBVIOUS
  <2>4. captures \in 0..MaxCaptures
    OBVIOUS
  <2> HIDE DEF Init
  <2> QED
    BY <1>1, <1>2, <2>1, <2>2, <2>3, <2>4 DEF Types
<1>4. Refers /\ Context /\ Sources /\ Handlers /\ Loops
  BY DEF Refers, Context, Sources, Handlers, Loops, Failed, IoIdle, NoCall, At, Kinds
<1>5. Control
  BY DEF Control, NoCall, At, CaptureOps
<1>6. Single
  BY DEF Single, Tokens, NoCall, At, IoIdle
<1> QED
  BY <1>3, <1>4, <1>5, <1>6 DEF IInv

\* Every step keeps the invariant.
LEMMA NextIInv == IInv /\ [Next]_vars => IInv'
<1> SUFFICES ASSUME IInv, [Next]_vars PROVE IInv'
  OBVIOUS
<1>1. CASE \E op \in {"StartCapture", "StopCapture", "StartReplay", "StopReplay"} : Call(op)
  BY <1>1, CallKeeps DEF CaptureOps, ReplayOps
<1>2. CASE \E h \in DOMAIN handles : Event(h)
  BY <1>2, EventKeeps
<1>3. CASE ApiStep
  BY <1>3, CloseCaptureKeeps, CloseTakenKeeps, CloseReplayKeeps, ResetIoKeeps, JoinIoKeeps, OpenUdpKeeps,
     ArmUdpKeeps, OpenTcpKeeps, AttachTcpKeeps, EndReplayKeeps, MakeContextKeeps, ConnectReplayKeeps,
     FailReplayKeeps, ReturnKeeps DEF ApiStep
<1>4. CASE IoStep
  BY <1>4, TakeHandlerKeeps, HandleReadKeeps, CallCallbackKeeps, AgainKeeps, HandleAcceptKeeps,
     HandleConnectKeeps, RemoveCaptureSocketKeeps DEF IoStep
<1>5. CASE UNCHANGED vars
  <2> USE <1>5 DEF vars, runtime, captureVars, replayVars, history, outcome, IInv, At
  <2>1. Types'
    BY DEF Types
  <2>2. Refers' /\ Control' /\ Context'
    BY DEF Refers, Control, Context, Cleared, InUse
  <2>3. Sources' /\ Handlers'
    BY DEF Sources, Handlers
  <2>4. Loops'
    BY DEF Loops, Failed, Alive, InHand, Queued
  <2>5. (lingering \/ Single)'
    BY DEF Single, Tokens, Alive, InHand, Queued
  <2> QED
    BY <2>1, <2>2, <2>3, <2>4, <2>5
<1> QED
  BY <1>1, <1>2, <1>3, <1>4, <1>5 DEF Next

\* A step that keeps what was started, what captures and what has been lost.
LEMMA StartedStays ==
  ASSUME Started, UNCHANGED <<capturing, started, lost>>,
         /\ call'.op = "StartCapture" /\ ~call'.failed /\ call'.pc \in {"arm", "attach", "return"} =>
              call.op = "StartCapture" /\ ~call.failed /\ call.pc \in {"arm", "attach", "return"}
  PROVE  Started'
<1> QED
  BY DEF Started

\* What was started captures, or something has ended it: calls.
LEMMA ApiKeepsStarted ==
  ASSUME IInv, Started, ApiStep
  PROVE  Started'
<1> USE DEF IInv, At, Goto
<1>1. call \in CallType /\ capturing \in BOOLEAN
  BY DEF Types
<1>2. CASE CloseCapture
  <2>1. /\ started' = FALSE /\ lost' = lost
        /\ call'.pc \in {"closeTaken", "reset"}
    BY <1>1, <1>2 DEF CloseCapture, CallType
  <2> QED
    BY <2>1 DEF Started
<1>3. CASE CloseTaken
  <2>1. UNCHANGED <<capturing, started, lost>> /\ call'.pc = "reset"
    BY <1>1, <1>3 DEF CloseTaken, captureVars, history, outcome, CallType
  <2> QED
    BY <2>1, StartedStays
<1>4. CASE CloseReplay
  <2>1. UNCHANGED <<capturing, started, lost>> /\ call'.pc = "reset"
    BY <1>1, <1>4 DEF CloseReplay, captureVars, history, outcome, CallType
  <2> QED
    BY <2>1, StartedStays
<1>5. CASE ResetIo \/ JoinIo
  <2>1. /\ UNCHANGED <<capturing, started, lost>> /\ call'.op = call.op /\ call'.failed = call.failed
        /\ call'.pc \in {AfterReset, "join"}
    BY <1>1, <1>5 DEF ResetIo, JoinIo, captureVars, outcome, CallType
  <2>2. call.op = "StartCapture" /\ ~call.failed => AfterReset = "open"
    BY DEF AfterReset
  <2> QED
    BY <2>1, <2>2, StartedStays
<1>6. CASE OpenUdp
  <2>1. \/ capturing' /\ started' = started /\ lost' = {}
        \/ UNCHANGED <<capturing, started, lost>> /\ call'.pc = "close"
    BY <1>1, <1>6 DEF OpenUdp, captureVars, CallType
  <2>2. CASE capturing' /\ started' = started /\ lost' = {}
    BY <2>2 DEF Started
  <2>3. CASE UNCHANGED <<capturing, started, lost>> /\ call'.pc = "close"
    BY <2>3, StartedStays
  <2> QED
    BY <2>1, <2>2, <2>3
<1>7. CASE OpenTcp
  <2>1. capturing' /\ started' = started /\ lost' = {}
    BY <1>7 DEF OpenTcp
  <2> QED
    BY <2>1 DEF Started
<1>8. CASE ArmUdp
  <2>1. /\ UNCHANGED <<capturing, started, lost>> /\ call'.op = call.op /\ call'.failed = call.failed
        /\ call.pc = "arm"
    BY <1>1, <1>8 DEF ArmUdp, captureVars, history, outcome, CallType
  <2> QED
    BY <2>1, StartedStays
<1>9. CASE AttachTcp
  <2>1. /\ UNCHANGED <<capturing, started, lost>> /\ call'.op = call.op /\ call.pc = "attach"
        /\ call'.pc = "close" \/ call'.failed = call.failed
    BY <1>1, <1>9 DEF AttachTcp, history, outcome, CallType
  <2> QED
    BY <2>1, StartedStays
<1>10. CASE EndReplay \/ MakeContext \/ ConnectReplay \/ FailReplay
  <2>1. UNCHANGED <<capturing, started, lost>> /\ call'.op = call.op
    BY <1>1, <1>10 DEF EndReplay, MakeContext, ConnectReplay, FailReplay, captureVars, history, outcome, CallType
  <2>2. call.op \in ReplayOps
    BY <1>10 DEF EndReplay, MakeContext, ConnectReplay, FailReplay, Control
  <2> QED
    BY <2>1, <2>2, StartedStays DEF ReplayOps
<1>11. CASE Return
  <2>1. /\ UNCHANGED <<capturing, lost>> /\ call.pc = "return" /\ call'.op = "none"
        /\ started' = (started \/ (call.op = "StartCapture" /\ ~call.failed))
    BY <1>11 DEF Return, captureVars, NoCall
  <2> QED
    BY <2>1 DEF Started
<1> QED
  BY <1>2, <1>3, <1>4, <1>5, <1>6, <1>7, <1>8, <1>9, <1>10, <1>11 DEF ApiStep

\* What was started captures, or something has ended it: the handlers.
LEMMA IoKeepsStarted ==
  ASSUME IInv, Started, IoStep
  PROVE  Started'
<1> USE DEF IInv
<1>1. CASE TakeHandler \/ CallCallback \/ Again \/ HandleAccept \/ HandleConnect
  <2>1. UNCHANGED <<capturing, started, lost, call>>
    BY <1>1 DEF TakeHandler, CallCallback, Again, HandleAccept, HandleConnect, captureVars, history, outcome
  <2> QED
    BY <2>1, StartedStays
<1>2. CASE HandleRead
  <2>1. UNCHANGED <<capturing, started, call>> /\ lost' \in {lost, lost \cup {"error"}}
    BY <1>2 DEF HandleRead, EndsUdp, captureVars
  <2> QED
    BY <2>1 DEF Started, Ends
<1>3. CASE RemoveCaptureSocket
  <2>1. /\ UNCHANGED <<started, call>>
        /\ \/ UNCHANGED <<capturing, lost>>
           \/ ~capturing /\ ~capturing' /\ lost' = lost
           \/ lost' \in {lost \cup {"error"}, lost \cup {"older"}}
    BY <1>3 DEF RemoveCaptureSocket, Types
  <2> QED
    BY <2>1 DEF Started, Ends
<1> QED
  BY <1>1, <1>2, <1>3 DEF IoStep

\* The invariants hold throughout.
LEMMA Invariance == Spec => [](IInv /\ Started)
<1>1. Init => Started
  <2> SUFFICES ASSUME Init PROVE Started
    OBVIOUS
  <2>1. started = FALSE /\ lost = {} /\ call.op = "none"
    BY DEF Init, NoCall
  <2> QED
    BY <2>1 DEF Started
<1>2. IInv /\ Started /\ [Next]_vars => Started'
  <2> SUFFICES ASSUME IInv, Started, [Next]_vars PROVE Started'
    OBVIOUS
  <2>1. CASE \E op \in {"StartCapture", "StopCapture", "StartReplay", "StopReplay"} : Call(op)
    <3>1. UNCHANGED <<capturing, started, lost>> /\ call'.pc \in {"close", "closeReplay"}
      BY <2>1 DEF Call, NoCall, captureVars, history, outcome
    <3> QED
      BY <3>1, StartedStays
  <2>2. CASE \E h \in DOMAIN handles : Event(h)
    <3>1. UNCHANGED <<capturing, started, lost, call>>
      BY <2>2 DEF Event, captureVars, outcome
    <3> QED
      BY <3>1, StartedStays
  <2>3. CASE UNCHANGED vars
    <3>1. UNCHANGED <<capturing, started, lost, call>>
      BY <2>3 DEF vars, captureVars, history, outcome
    <3> QED
      BY <3>1, StartedStays
  <2> QED
    BY <2>1, <2>2, <2>3, ApiKeepsStarted, IoKeepsStarted DEF Next
<1> QED
  BY <1>1, <1>2, InitIInv, NextIInv, PTL DEF Spec

-----------------------------------------------------------------------------
\* What was started and not stopped is served, in whatever order captures and replays come
\* and go and whatever the peers do: its context's thread runs; a capture goes on until an
\* error of its own I/O or the handler of an older capture ends it; while it goes on it has
\* a source, and each of its accept and read loops goes on, and a receive loop of UDP until
\* a receive fails.
THEOREM Served == Spec => []StartedIsServed
<1>1. IInv /\ Started => StartedIsServed
  <2> SUFFICES ASSUME IInv, Started PROVE StartedIsServed
    OBVIOUS
  <2> USE DEF IInv
  <2>1. DOMAIN handles = 1..Len(handles) /\ DOMAIN queue = 1..Len(queue)
    BY Typed
  <2>2. TypeOK
    <3>1. callback \in 0..MaxCaptures /\ (capturing => callback # 0)
      BY ProtocolIoAssumption DEF Types, Sources
    <3>2. io.h \in 0..Len(handles)
      BY Typed DEF Refers, IoIdle
    <3> QED
      BY <2>1, <3>1, <3>2 DEF TypeOK, Types, Refers, Started
  <2>3. OpenIsServed
    <3> SUFFICES ASSUME Idle, InUse PROVE context = "running"
      BY DEF OpenIsServed
    <3>1. context # "stopped"
      BY DEF Idle, At, Context
    <3>2. context = "none" => Len(handles) = 0 /\ ~replay
      BY DEF Context
    <3>3. Len(handles) = 0 => listener = 0 /\ sockets = {}
      BY DEF Refers
    <3>4. context \in {"none", "running", "stopped"}
      BY DEF Types
    <3> QED
      BY <3>1, <3>2, <3>3, <3>4 DEF InUse
  <2>4. LoopsGoOn
    <3>1. ASSUME Idle, capturing, NEW h \in ({listener} \cup sockets) \ {0}
          PROVE  Alive(h) \/ Failed
      BY <3>1 DEF Idle, At, Loops
    <3> QED
      BY <2>1, <3>1 DEF LoopsGoOn, Alive, Queued, Failed
  <2>5. CapturingHasSource
    BY DEF CapturingHasSource, Idle, Sources, At
  <2>6. StartedCaptures
    BY DEF StartedCaptures, Idle, Started, At
  <2> QED
    BY <2>2, <2>3, <2>4, <2>5, <2>6 DEF StartedIsServed
<1> QED
  BY <1>1, Invariance, PTL

\* Unless a capture was closed while the I/O thread went on for a replay, a socket has one
\* operation at a time and a packet goes to the callback of the capture that received it.
THEOREM OneLoop == Spec => []OneLoopEach
<1>1. IInv => OneLoopEach
  BY Typed DEF IInv, Single, Tokens, OneLoopEach
<1> QED
  BY <1>1, Invariance, PTL

\* Once the context is reset no handler runs and none is left to run.
THEOREM Quiet == Spec => []QuietWhenReset
<1>1. IInv => QuietWhenReset
  <2> SUFFICES ASSUME IInv, context = "none" PROVE io = IoIdle /\ queue = <<>>
    BY DEF QuietWhenReset
  <2>1. Len(handles) = 0
    BY DEF IInv, Context
  <2>2. io = IoIdle
    BY <2>1 DEF IInv, Refers
  <2>3. Len(queue) \in Nat /\ queue \in Seq(DoneType)
    BY Typed DEF IInv
  <2>4. Len(queue) = 0
    BY <2>1, <2>3 DEF IInv, Refers
  <2> QED
    BY <2>2, <2>3, <2>4
<1> QED
  BY <1>1, Invariance, PTL
=============================================================================
