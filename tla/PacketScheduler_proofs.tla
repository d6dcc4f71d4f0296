------------------------ MODULE PacketScheduler_proofs ------------------------
(***************************************************************************)
(* The invariants of module PacketScheduler for every number of packets,   *)
(* every prefetch depth, every speed, below or above normal, and every     *)
(* bound of the clock.  IInv is inductive.  Its parts: Control ties the    *)
(* two threads' places to running_ and to the packet in flight; Once tells *)
(* where each packet can be; Owed counts the packet a Stop under way may   *)
(* still cost; Timely bounds every dispatch time by the timeline or, at    *)
(* speeds below normal, by the clock.                                      *)
(***************************************************************************)
EXTENDS PacketScheduler, FiniteSetTheorems, TLAPS

Control ==
  /\ computing.on => Filling /\ next <= NumPackets /\ left > 0
  /\ thread \in {"popped", "dispatch"} <=> inflight # 0
  /\ thread \in {None, "exited"} => ~running
  /\ api = "filling" => thread = None
  /\ api \in {"idle", "filling", "spawn"} /\ ~running => thread = None
  /\ api \notin {"idle", "filling"} => ~running

Once ==
  /\ \A e \in queue : e.pkt < next
  /\ \A e, f \in queue : e.pkt = f.pkt => e = f
  /\ \A p \in SentPackets \cup lost : p < next
  /\ inflight # 0 =>
       /\ inflight < next
       /\ inflight \notin SentPackets \cup lost
       /\ \A e \in queue : e.pkt # inflight
  /\ HandedOverOnce

Stopping == ~running /\ thread \notin {None, "exited"}
Owed == IF Stopping THEN 1 ELSE 0
Counted == IsFiniteSet(lost) /\ Cardinality(lost) + Owed <= stops

\* By time c the timeline, or the clock if it is the faster one, is at capture.
Reaches(c, capture) == Position(c) >= capture \/ c >= capture

Timely ==
  /\ \A e \in queue : Reaches(e.due, CaptureTime[e.pkt])
  /\ inflight # 0 => Reaches(clock, CaptureTime[inflight])
  /\ computing.on => computing.position <= Position(clock)
  /\ NeverEarly

IInv == TypeOK /\ Control /\ Once /\ Counted /\ Timely
-----------------------------------------------------------------------------
\* The initial state satisfies every part of the invariant.
LEMMA InitIInv == Init => IInv
<1> SUFFICES ASSUME Init PROVE IInv
  OBVIOUS
<1> USE SchedulerAssumption DEF Init
<1>1. TypeOK
  <2>1. sent \in Seq(Packets \X Nat)
    OBVIOUS
  <2>2. left \in 0 .. Prefetch /\ next \in 1 .. NumPackets + 1 /\ stops \in 0 .. MaxStops
    OBVIOUS
  <2>3. computing \in [on: BOOLEAN, position: Nat]
    BY DEF NotComputing
  <2> QED
    BY <2>1, <2>2, <2>3 DEF TypeOK, None, Packets
<1>2. Control
  BY DEF Control, None, NotComputing, Filling
<1>3. SentPackets = {}
  BY DEF SentPackets
<1>4. Once
  BY <1>3 DEF Once, HandedOverOnce
<1>5. Counted
  BY FS_EmptySet DEF Counted, Owed, Stopping, None
<1>6. Timely
  BY DEF Timely, NeverEarly, NotComputing
<1> QED
  BY <1>1, <1>2, <1>4, <1>5, <1>6 DEF IInv

\* A notify leaves the thread in one of its places, and wakes only a blocked one.
LEMMA NotifiedPlace ==
  ASSUME TypeOK
  PROVE  /\ Notified(thread) \in {thread, "idleWoken", "timedWoken"}
         /\ Notified(thread) # thread => thread \in {"idle", "timed"}
         /\ thread \notin {"idle", "timed"} => Notified(thread) = thread
BY DEF Notified

\* What the truncated division says of a position.
LEMMA PositionBounds ==
  ASSUME NEW c \in Nat
  PROVE  /\ Position(c) \in Nat
         /\ NormalSpeed * Position(c) <= c * Speed
         /\ c * Speed < NormalSpeed * Position(c) + NormalSpeed
<1> USE SchedulerAssumption
<1>1. c * Speed \in Nat
  OBVIOUS
<1>2. ASSUME NEW n \in Nat, NEW d \in Nat \ {0}
      PROVE  n \div d \in Nat /\ d * (n \div d) <= n /\ n < d * (n \div d) + d
  <2>1. n = d * (n \div d) + (n % d) /\ n % d \in 0 .. d - 1 /\ n \div d \in Int
    BY <1>2
  <2>2. n \div d >= 0
    BY <1>2
  <2> QED
    BY <2>1, <2>2
<1> QED
  BY <1>1, <1>2 DEF Position

\* Every step keeps the types; the fill counters because an Enqueue begins only
\* with packets and room left.
LEMMA NextTypeOK == TypeOK /\ Control /\ [Next]_vars => TypeOK'
<1> SUFFICES ASSUME TypeOK, Control, [Next]_vars PROVE TypeOK'
  OBVIOUS
<1> USE SchedulerAssumption DEF TypeOK, None, threadVars, readerVars, history
<1>1. CASE CheckOuter
  BY <1>1 DEF CheckOuter
<1>2. CASE LeaveInner
  BY <1>2 DEF LeaveInner
<1>3. CASE Pop
  <2>1. PICK e \in queue : queue' = queue \ {e} /\ inflight' = e.pkt
    BY <1>3 DEF Pop
  <2> QED
    BY <1>3, <2>1 DEF Pop
<1>4. CASE DecideIdle
  BY <1>4 DEF DecideIdle
<1>5. CASE DecideTimed
  BY <1>5 DEF DecideTimed
<1>6. CASE Block
  BY <1>6 DEF Block
<1>7. CASE WakeIdle
  BY <1>7 DEF WakeIdle
<1>8. CASE WakeTimed
  BY <1>8 DEF WakeTimed
<1>9. CASE TimeOut
  BY <1>9 DEF TimeOut
<1>10. CASE RecheckRunning
  BY <1>10 DEF RecheckRunning, Control
<1>11. CASE Dispatch
  <2>1. inflight \in Packets
    BY <1>11 DEF Dispatch, Control
  <2>2. sent' \in Seq(Packets \X Nat)
    BY <1>11, <2>1 DEF Dispatch
  <2>3. left' \in 0 .. Prefetch
    BY <1>11 DEF Dispatch
  <2>4. api # "filling"
    BY <1>11 DEF Dispatch, Control
  <2> QED
    BY <1>11, <2>2, <2>3, <2>4 DEF Dispatch
<1>12. CASE SpuriousWake
  BY <1>12, NotifiedPlace DEF SpuriousWake
<1>13. CASE ReadTimeline
  <2>1. Position(clock) \in Nat
    BY PositionBounds
  <2> QED
    BY <1>13, <2>1 DEF ReadTimeline
<1>14. CASE Push
  <2>1. next \in Packets /\ left > 0
    BY <1>14 DEF Push, Control, Packets
  <2>2. DispatchTime(CaptureTime[next], computing.position) \in Nat
    BY <2>1 DEF DispatchTime
  <2>3. queue' \subseteq [pkt: Packets, due: Nat]
    BY <1>14, <2>1, <2>2 DEF Push
  <2>4. next' \in 1 .. NumPackets + 1 /\ left' \in 0 .. Prefetch
    BY <1>14, <2>1 DEF Push, Packets
  <2> QED
    BY <1>14, <2>3, <2>4, NotifiedPlace DEF Push, NotComputing
<1>15. CASE FillDone
  BY <1>15 DEF FillDone
<1>16. CASE CallFill
  BY <1>16 DEF CallFill
<1>17. CASE Clear
  BY <1>17 DEF Clear
<1>18. CASE CallStop
  <2>1. stops' \in 0 .. MaxStops
    BY <1>18 DEF CallStop
  <2>2. api' \in {"notifyStop", "notifyStart"} /\ running' = FALSE
    BY <1>18 DEF CallStop
  <2> QED
    BY <1>18, <2>1, <2>2 DEF CallStop
<1>19. CASE NotifyStop
  BY <1>19, NotifiedPlace DEF NotifyStop
<1>20. CASE Join
  BY <1>20 DEF Join
<1>21. CASE Spawn
  BY <1>21 DEF Spawn
<1>22. CASE Tick
  BY <1>22 DEF Tick
<1>23. CASE UNCHANGED vars
  BY <1>23 DEF vars
<1> QED
  BY <1>1, <1>2, <1>3, <1>4, <1>5, <1>6, <1>7, <1>8, <1>9, <1>10, <1>11, <1>12, <1>13, <1>14, <1>15,
     <1>16, <1>17, <1>18, <1>19, <1>20, <1>21, <1>22, <1>23
     DEF Next, Loop, Enqueue, Finish

\* Every step keeps Control: in particular a thread that ends has seen running_
\* down, and running_ goes up only where no thread is left.
LEMMA NextControl == TypeOK /\ Control /\ [Next]_vars => Control'
<1> SUFFICES ASSUME TypeOK, Control, [Next]_vars PROVE Control'
  OBVIOUS
<1> USE SchedulerAssumption DEF Control, Filling, None, threadVars, readerVars, history
<1>1. CASE CheckOuter
  BY <1>1 DEF CheckOuter
<1>2. CASE LeaveInner
  BY <1>2 DEF LeaveInner
<1>3. CASE Pop
  <2>1. inflight' \in Packets /\ inflight' # 0
    BY <1>3 DEF Pop, TypeOK, Packets
  <2> QED
    BY <1>3, <2>1 DEF Pop
<1>4. CASE DecideIdle
  BY <1>4 DEF DecideIdle
<1>5. CASE DecideTimed
  BY <1>5 DEF DecideTimed
<1>6. CASE Block
  BY <1>6 DEF Block
<1>7. CASE WakeIdle
  BY <1>7 DEF WakeIdle
<1>8. CASE WakeTimed
  BY <1>8 DEF WakeTimed
<1>9. CASE TimeOut
  BY <1>9 DEF TimeOut
<1>10. CASE RecheckRunning
  BY <1>10 DEF RecheckRunning
<1>11. CASE Dispatch
  BY <1>11 DEF Dispatch
<1>12. CASE SpuriousWake
  BY <1>12 DEF SpuriousWake, Notified
<1>13. CASE ReadTimeline
  BY <1>13 DEF ReadTimeline, TypeOK
<1>14. CASE Push
  <2>1. (thread' = thread) \/ (thread \in {"idle", "timed"} /\ thread' \in {"idleWoken", "timedWoken"})
    BY <1>14 DEF Push, Notified
  <2> QED
    BY <1>14, <2>1 DEF Push, NotComputing
<1>15. CASE FillDone
  BY <1>15 DEF FillDone
<1>16. CASE CallFill
  BY <1>16 DEF CallFill, TypeOK
<1>17. CASE Clear
  BY <1>17 DEF Clear
<1>18. CASE CallStop
  BY <1>18 DEF CallStop
<1>19. CASE NotifyStop
  <2>1. (thread' = thread) \/ (thread \in {"idle", "timed"} /\ thread' \in {"idleWoken", "timedWoken"})
    BY <1>19 DEF NotifyStop, Notified
  <2> QED
    BY <1>19, <2>1 DEF NotifyStop
<1>20. CASE Join
  BY <1>20 DEF Join
<1>21. CASE Spawn
  BY <1>21 DEF Spawn
<1>22. CASE Tick
  BY <1>22 DEF Tick
<1>23. CASE UNCHANGED vars
  BY <1>23 DEF vars
<1> QED
  BY <1>1, <1>2, <1>3, <1>4, <1>5, <1>6, <1>7, <1>8, <1>9, <1>10, <1>11, <1>12, <1>13, <1>14, <1>15,
     <1>16, <1>17, <1>18, <1>19, <1>20, <1>21, <1>22, <1>23
     DEF Next, Loop, Enqueue, Finish

\* Taking a packet, handing it over and dropping it each move it to a place of
\* its own; Push adds one that was nowhere yet.
LEMMA NextOnce == TypeOK /\ Control /\ Once /\ [Next]_vars => Once'
<1> SUFFICES ASSUME TypeOK, Control, Once, [Next]_vars PROVE Once'
  OBVIOUS
<1> USE SchedulerAssumption
<1>1. CASE UNCHANGED <<queue, inflight, next, sent, lost>>
  BY <1>1 DEF Once, HandedOverOnce, SentPackets
<1>2. CASE Pop
  <2>1. PICK e \in queue : queue' = queue \ {e} /\ inflight' = e.pkt
    BY <1>2 DEF Pop
  <2>2. UNCHANGED <<next, sent, lost>>
    BY <1>2 DEF Pop, readerVars, history
  <2>3. SentPackets' = SentPackets
    BY <2>2 DEF SentPackets
  <2> QED
    BY <2>1, <2>2, <2>3 DEF Once, HandedOverOnce
<1>3. CASE RecheckRunning
  <2>1. CASE running
    BY <1>3, <2>1, <1>1 DEF RecheckRunning, readerVars
  <2>2. CASE ~running
    <3>1. inflight # 0 /\ inflight' = 0 /\ lost' = lost \cup {inflight} /\ UNCHANGED <<queue, next, sent>>
      BY <1>3, <2>2 DEF RecheckRunning, Control, readerVars
    <3>2. SentPackets' = SentPackets
      BY <3>1 DEF SentPackets
    <3> QED
      BY <3>1, <3>2 DEF Once, HandedOverOnce
  <2> QED
    BY <2>1, <2>2
<1>4. CASE Dispatch
  <2>1. inflight # 0 /\ inflight' = 0 /\ UNCHANGED <<queue, next, lost>>
    BY <1>4 DEF Dispatch, Control
  <2>2. sent' = Append(sent, <<inflight, clock>>) /\ sent \in Seq(Packets \X Nat)
    BY <1>4 DEF Dispatch, TypeOK
  <2>3. Len(sent') = Len(sent) + 1 /\ Len(sent) \in Nat
    BY <2>2
  <2>4. \A i \in 1 .. Len(sent) : sent'[i] = sent[i]
    BY <2>2
  <2>5. sent'[Len(sent) + 1][1] = inflight
    BY <2>2
  <2>6. SentPackets' = SentPackets \cup {inflight}
    BY <2>3, <2>4, <2>5 DEF SentPackets
  <2>7. \A i \in 1 .. Len(sent) : sent[i][1] # inflight
    BY <2>1 DEF Once, SentPackets
  <2>8. \A i, j \in 1 .. Len(sent') : i # j => sent'[i][1] # sent'[j][1]
    <3> SUFFICES ASSUME NEW i \in 1 .. Len(sent'), NEW j \in 1 .. Len(sent'), i # j
                 PROVE  sent'[i][1] # sent'[j][1]
      OBVIOUS
    <3>1. CASE i \in 1 .. Len(sent) /\ j \in 1 .. Len(sent)
      BY <3>1, <2>4 DEF Once, HandedOverOnce
    <3>2. CASE i = Len(sent) + 1
      <4>1. j \in 1 .. Len(sent)
        BY <3>2, <2>3
      <4> QED
        BY <4>1, <3>2, <2>4, <2>5, <2>7
    <3>3. CASE j = Len(sent) + 1
      <4>1. i \in 1 .. Len(sent)
        BY <3>3, <2>3
      <4> QED
        BY <4>1, <3>3, <2>4, <2>5, <2>7
    <3> QED
      BY <3>1, <3>2, <3>3, <2>3
  <2> QED
    BY <2>1, <2>6, <2>8 DEF Once, HandedOverOnce
<1>5. CASE Push
  <2>1. UNCHANGED <<inflight, sent, lost>> /\ next' = next + 1 /\ next \in Nat
    BY <1>5 DEF Push, history, TypeOK
  <2>2. PICK new : new.pkt = next /\ queue' = queue \cup {new}
    BY <1>5 DEF Push
  <2>3. SentPackets' = SentPackets
    BY <2>1 DEF SentPackets
  <2>4. \A e \in queue : e.pkt \in Nat /\ e.pkt # next
    BY <2>1 DEF Once, TypeOK, Packets
  <2>5. \A p \in SentPackets \cup lost \cup {inflight} : p # next
    <3>1. inflight \in Nat /\ next # 0
      BY DEF TypeOK, Packets
    <3> QED
      BY <2>1, <3>1 DEF Once
  <2>6. \A p \in SentPackets \cup lost : p \in Nat
    <3>1. SentPackets \subseteq Packets
      BY DEF SentPackets, TypeOK
    <3> QED
      BY <3>1 DEF TypeOK, Packets
  <2>7. \A p \in SentPackets' \cup lost' : p < next'
    BY <2>1, <2>3, <2>6 DEF Once
  <2>8. \A e \in queue' : e.pkt < next'
    BY <2>1, <2>2, <2>4 DEF Once
  <2>9. \A e, f \in queue' : e.pkt = f.pkt => e = f
    BY <2>2, <2>4 DEF Once
  <2>10. inflight' # 0 =>
           /\ inflight' < next'
           /\ inflight' \notin SentPackets' \cup lost'
           /\ \A e \in queue' : e.pkt # inflight'
    <3>1. inflight \in Nat
      BY DEF TypeOK, Packets
    <3> QED
      BY <3>1, <2>1, <2>2, <2>3, <2>5 DEF Once
  <2>11. HandedOverOnce'
    BY <2>1, <2>2, <2>3, <2>5 DEF Once, HandedOverOnce
  <2> QED
    BY <2>7, <2>8, <2>9, <2>10, <2>11 DEF Once
<1>6. CASE Clear
  <2>1. queue' = {} /\ UNCHANGED <<inflight, next, sent, lost>>
    BY <1>6 DEF Clear, threadVars, readerVars, history
  <2>2. SentPackets' = SentPackets
    BY <2>1 DEF SentPackets
  <2> QED
    BY <2>1, <2>2 DEF Once, HandedOverOnce
<1>7. CASE CheckOuter \/ LeaveInner \/ DecideIdle \/ DecideTimed \/ Block \/ WakeIdle \/ WakeTimed \/ TimeOut
  BY <1>7, <1>1 DEF CheckOuter, LeaveInner, DecideIdle, DecideTimed, Block, WakeIdle, WakeTimed, TimeOut,
                    threadVars, readerVars, history
<1>8. CASE SpuriousWake \/ ReadTimeline \/ FillDone \/ CallFill \/ CallStop \/ NotifyStop \/ Join \/ Spawn \/ Tick
  BY <1>8, <1>1 DEF SpuriousWake, ReadTimeline, FillDone, CallFill, CallStop, NotifyStop, Join, Spawn, Tick,
                    threadVars, readerVars, history
<1>9. CASE UNCHANGED vars
  BY <1>9, <1>1 DEF vars, threadVars, readerVars, history
<1> QED
  BY <1>2, <1>3, <1>4, <1>5, <1>6, <1>7, <1>8, <1>9 DEF Next, Loop, Enqueue, Finish

\* Only CallStop makes a Stop owe a packet, and it is counted; the packet is
\* dropped where the thread ends, which settles what was owed.
LEMMA NextCounted == TypeOK /\ Control /\ Counted /\ [Next]_vars => Counted'
<1> SUFFICES ASSUME TypeOK, Control, Counted, [Next]_vars PROVE Counted'
  OBVIOUS
<1> USE SchedulerAssumption
<1>1. /\ IsFiniteSet(lost) /\ Cardinality(lost) \in Nat /\ stops \in Nat
      /\ Owed \in {0, 1} /\ Owed' \in {0, 1}
  BY FS_CardinalityType DEF Counted, Owed, TypeOK
<1>2. ASSUME UNCHANGED <<lost, stops>>, Stopping' => Stopping PROVE Counted'
  <2>1. Owed' <= Owed
    BY <1>2 DEF Owed
  <2> QED
    BY <1>1, <1>2, <2>1 DEF Counted
<1>3. CASE RecheckRunning
  <2>1. CASE running
    <3>1. UNCHANGED <<lost, stops>> /\ ~Stopping'
      BY <1>3, <2>1 DEF RecheckRunning, Stopping
    <3> QED
      BY <3>1, <1>2
  <2>2. CASE ~running
    <3>1. Stopping /\ ~Stopping' /\ lost' = lost \cup {inflight} /\ stops' = stops
      BY <1>3, <2>2 DEF RecheckRunning, Stopping, None
    <3>2. Owed = 1 /\ Owed' = 0
      BY <3>1 DEF Owed
    <3>3. IsFiniteSet(lost') /\ Cardinality(lost') <= Cardinality(lost) + 1
      <4>1. IsFiniteSet(lost \cup {inflight})
        BY <1>1, FS_AddElement
      <4>2. Cardinality(lost \cup {inflight}) = Cardinality(lost) + (IF inflight \in lost THEN 0 ELSE 1)
        <5>1. CASE inflight \in lost
          <6>1. lost \cup {inflight} = lost
            BY <5>1
          <6> QED
            BY <1>1, <5>1, <6>1
        <5>2. CASE inflight \notin lost
          BY <1>1, <5>2, FS_AddElement
        <5> QED
          BY <5>1, <5>2
      <4> QED
        BY <1>1, <3>1, <4>1, <4>2
    <3>4. Cardinality(lost') \in Nat
      BY <3>3, FS_CardinalityType
    <3> QED
      BY <1>1, <3>1, <3>2, <3>3, <3>4 DEF Counted
  <2> QED
    BY <2>1, <2>2
<1>4. CASE CallStop
  <2>1. UNCHANGED lost /\ stops' = stops + 1
    BY <1>4 DEF CallStop
  <2>2. CASE Stopping
    BY <2>2, <1>4 DEF CallStop, Control, Stopping
  <2>3. CASE ~Stopping
    BY <1>1, <2>1, <2>3 DEF Counted, Owed
  <2> QED
    BY <2>2, <2>3
<1>5. CASE CheckOuter \/ LeaveInner \/ Pop \/ DecideIdle \/ DecideTimed \/ Block \/ WakeIdle \/ WakeTimed \/ TimeOut
  BY <1>5, <1>2 DEF CheckOuter, LeaveInner, Pop, DecideIdle, DecideTimed, Block, WakeIdle, WakeTimed, TimeOut,
                    Stopping, None, history
<1>6. CASE Dispatch
  BY <1>6, <1>2 DEF Dispatch, Stopping, None
<1>7. CASE SpuriousWake
  BY <1>7, <1>2 DEF SpuriousWake, Stopping, None, history
<1>8. CASE Push \/ NotifyStop
  BY <1>8, <1>2 DEF Push, NotifyStop, Notified, Stopping, None, history
<1>9. CASE ReadTimeline \/ FillDone \/ CallFill \/ Clear
  BY <1>9, <1>2 DEF ReadTimeline, FillDone, CallFill, Clear, Stopping, None, threadVars, history
<1>10. CASE Join \/ Spawn \/ Tick
  BY <1>10, <1>2 DEF Join, Spawn, Tick, Stopping, None, threadVars, history
<1>11. CASE UNCHANGED vars
  BY <1>11, <1>2 DEF vars, Stopping, threadVars, history
<1> QED
  BY <1>3, <1>4, <1>5, <1>6, <1>7, <1>8, <1>9, <1>10, <1>11 DEF Next, Loop, Enqueue, Finish

\* A bound on scaled times is a bound on positions.
LEMMA PositionAtLeast ==
  ASSUME NEW c \in Nat, NEW q \in Int, NormalSpeed * q <= c * Speed
  PROVE  q <= Position(c)
<1> USE SchedulerAssumption
<1>1. NormalSpeed * q < NormalSpeed * (Position(c) + 1) /\ Position(c) \in Nat
  <2>1. PICK p \in Nat : p = Position(c)
    BY PositionBounds
  <2>2. c * Speed < NormalSpeed * p + NormalSpeed /\ c * Speed \in Nat
    BY <2>1, PositionBounds
  <2>3. NormalSpeed * (p + 1) = NormalSpeed * p + NormalSpeed /\ NormalSpeed * p \in Nat /\ NormalSpeed * q \in Int
    OBVIOUS
  <2>4. NormalSpeed * q < NormalSpeed * (p + 1)
    BY <2>2, <2>3
  <2> QED
    BY <2>1, <2>4
<1> SUFFICES ASSUME q > Position(c) PROVE FALSE
  BY <1>1
<1>2. PICK k \in Nat : q = Position(c) + 1 + k
  <2>1. q - (Position(c) + 1) \in Nat
    BY <1>1
  <2> QED
    BY <1>1, <2>1
<1>3. NormalSpeed * q = NormalSpeed * (Position(c) + 1) + NormalSpeed * k /\ NormalSpeed * k \in Nat
  BY <1>1, <1>2
<1> QED
  BY <1>1, <1>3

\* The timeline only advances, so a packet that was due stays due.
LEMMA PositionGrows ==
  ASSUME NEW c \in Nat, NEW d \in Nat, c <= d
  PROVE  Position(c) \in Nat /\ Position(d) \in Nat /\ Position(c) <= Position(d)
<1> USE SchedulerAssumption
<1>1. PICK k \in Nat : d = c + k
  <2>1. d - c \in Nat /\ d = c + (d - c)
    OBVIOUS
  <2> QED
    BY <2>1
<1>2. c * Speed \in Nat /\ k * Speed \in Nat /\ d * Speed = c * Speed + k * Speed
  BY <1>1
<1>3. NormalSpeed * Position(c) <= d * Speed
  <2>1. PICK p \in Nat : p = Position(c)
    BY PositionBounds
  <2>2. NormalSpeed * p <= c * Speed /\ NormalSpeed * p \in Nat
    BY <2>1, PositionBounds
  <2>3. NormalSpeed * p <= d * Speed
    BY <1>2, <2>2
  <2> QED
    BY <2>1, <2>3
<1>4. Position(c) \in Nat /\ Position(d) \in Nat
  BY PositionBounds
<1>5. Position(c) \in Int
  BY <1>4
<1> QED
  BY <1>3, <1>4, <1>5, PositionAtLeast

\* At normal speed or above the timeline gains at least what the clock gains.
LEMMA FastTimeline ==
  ASSUME NEW c \in Nat, NEW wait \in Nat, Speed >= NormalSpeed
  PROVE  Position(c) + wait <= Position(c + wait)
<1> USE SchedulerAssumption
<1>1. wait * NormalSpeed <= wait * Speed
  <2>1. PICK k \in Nat : Speed = NormalSpeed + k
    <3>1. Speed - NormalSpeed \in Nat
      OBVIOUS
    <3> QED
      BY <3>1
  <2>2. wait * Speed = wait * NormalSpeed + wait * k /\ wait * k \in Nat /\ wait * NormalSpeed \in Nat
    BY <2>1
  <2> QED
    BY <2>2
<1>2. (c + wait) * Speed = c * Speed + wait * Speed
  OBVIOUS
<1>3. PICK p \in Nat : p = Position(c)
  BY PositionBounds
<1>4. NormalSpeed * p <= c * Speed
  BY <1>3, PositionBounds
<1>5. NormalSpeed * (p + wait) = NormalSpeed * p + wait * NormalSpeed
  OBVIOUS
<1>6. NormalSpeed * p \in Int /\ wait * NormalSpeed \in Int /\ wait * Speed \in Int /\ c * Speed \in Int
  OBVIOUS
<1>7. NormalSpeed * (p + wait) <= (c + wait) * Speed
  BY <1>1, <1>2, <1>4, <1>5, <1>6
<1>8. c + wait \in Nat /\ p + wait \in Int
  OBVIOUS
<1>9. p + wait <= Position(c + wait)
  BY <1>7, <1>8, PositionAtLeast
<1> QED
  BY <1>3, <1>9

\* At normal speed or below the timeline is not ahead of the clock.
LEMMA SlowTimeline ==
  ASSUME NEW c \in Nat, Speed <= NormalSpeed
  PROVE  Position(c) <= c
<1> USE SchedulerAssumption
<1>1. c * Speed <= c * NormalSpeed
  <2>1. PICK k \in Nat : NormalSpeed = Speed + k
    <3>1. NormalSpeed - Speed \in Nat
      OBVIOUS
    <3> QED
      BY <3>1
  <2>2. c * NormalSpeed = c * Speed + c * k /\ c * k \in Nat /\ c * Speed \in Nat
    BY <2>1
  <2> QED
    BY <2>2
<1>2. NormalSpeed * Position(c) <= NormalSpeed * c /\ Position(c) \in Nat
  <2>1. PICK p \in Nat : p = Position(c)
    BY PositionBounds
  <2>2. NormalSpeed * p <= c * Speed
    BY <2>1, PositionBounds
  <2>3. NormalSpeed * p \in Int /\ c * Speed \in Int /\ c * NormalSpeed = NormalSpeed * c
    OBVIOUS
  <2>4. NormalSpeed * p <= NormalSpeed * c
    BY <1>1, <2>2, <2>3
  <2> QED
    BY <2>1, <2>4
<1> SUFFICES ASSUME Position(c) > c PROVE FALSE
  BY <1>2
<1>3. PICK k \in Nat : Position(c) = c + 1 + k
  <2>1. Position(c) - (c + 1) \in Nat
    BY <1>2
  <2> QED
    BY <1>2, <2>1
<1>4. NormalSpeed * Position(c) = NormalSpeed * c + NormalSpeed + NormalSpeed * k /\ NormalSpeed * k \in Nat
  BY <1>3
<1> QED
  BY <1>2, <1>4

\* A time that reaches a packet is followed by times that do.
LEMMA ReachesGrows ==
  ASSUME NEW c \in Nat, NEW d \in Nat, c <= d, NEW capture \in Nat, Reaches(c, capture)
  PROVE  Reaches(d, capture)
BY PositionGrows DEF Reaches

\* The dispatch time computed from an earlier reading of the timeline is never
\* before the time at which the timeline, or the clock if it is the faster one,
\* reaches the packet.
LEMMA DispatchTimeTimely ==
  ASSUME NEW capture \in Nat, NEW position \in Nat, clock \in Nat, position <= Position(clock)
  PROVE  Reaches(DispatchTime(capture, position), capture)
<1> USE SchedulerAssumption DEF Reaches
<1>1. Position(clock) \in Nat
  BY PositionBounds
<1>2. CASE capture <= position
  BY <1>1, <1>2 DEF DispatchTime
<1>3. CASE ~(capture <= position)
  <2>1. PICK wait \in Nat : wait = capture - position
    <3>1. capture - position \in Nat
      BY <1>3
    <3> QED
      BY <3>1
  <2>2. DispatchTime(capture, position) = clock + wait
    BY <1>3, <2>1 DEF DispatchTime
  <2>3. CASE Speed <= NormalSpeed
    <3>1. position <= clock
      BY <1>1, <2>3, SlowTimeline
    <3> QED
      BY <2>1, <2>2, <3>1
  <2>4. CASE Speed >= NormalSpeed
    <3>1. Position(clock) + wait <= Position(clock + wait)
      BY <2>1, <2>4, FastTimeline
    <3>2. clock + wait \in Nat /\ Position(clock + wait) \in Nat
      <4>1. clock + wait \in Nat
        BY <2>1
      <4> QED
        BY <4>1, PositionBounds
    <3> QED
      BY <1>1, <2>1, <2>2, <3>1, <3>2
  <2> QED
    BY <2>3, <2>4
<1> QED
  BY <1>2, <1>3

\* Dispatch times are computed in time, and a popped packet was due.
LEMMA NextTimely == TypeOK /\ Control /\ Timely /\ [Next]_vars => Timely'
<1> SUFFICES ASSUME TypeOK, Control, Timely, [Next]_vars PROVE Timely'
  OBVIOUS
<1> USE SchedulerAssumption
<1>1. clock \in Nat /\ clock' \in Nat /\ clock <= clock'
  <2>1. clock' = clock \/ clock' = clock + 1
    BY DEF Next, Loop, Enqueue, Finish, CheckOuter, LeaveInner, Pop, DecideIdle, DecideTimed, Block, WakeIdle,
           WakeTimed, TimeOut, RecheckRunning, Dispatch, SpuriousWake, ReadTimeline, Push, FillDone, CallFill,
           Clear, CallStop, NotifyStop, Join, Spawn, Tick, vars
  <2> QED
    BY <2>1 DEF TypeOK
<1>2. Position(clock) <= Position(clock') /\ Position(clock) \in Nat /\ Position(clock') \in Nat
  BY <1>1, PositionGrows
<1>3. inflight # 0 => Reaches(clock', CaptureTime[inflight])
  <2>1. inflight # 0 => CaptureTime[inflight] \in Nat
    BY DEF TypeOK
  <2> QED
    BY <1>1, <2>1, ReachesGrows DEF Timely
<1>4. computing.on => computing.position <= Position(clock')
  <2>1. computing.position \in Nat
    BY DEF TypeOK
  <2> QED
    BY <1>2, <2>1 DEF Timely
<1>5. ASSUME queue' \subseteq queue, UNCHANGED <<inflight, computing, sent>> PROVE Timely'
  BY <1>3, <1>4, <1>5 DEF Timely, NeverEarly
<1>6. CASE Pop
  <2>1. PICK e \in queue : e.due <= clock /\ queue' = queue \ {e} /\ inflight' = e.pkt
    BY <1>6 DEF Pop
  <2>2. e.due \in Nat /\ CaptureTime[e.pkt] \in Nat
    BY DEF TypeOK
  <2>3. e.due <= clock'
    BY <1>1, <2>1, <2>2
  <2>4. Reaches(clock', CaptureTime[inflight'])
    BY <1>1, <2>1, <2>2, <2>3, ReachesGrows DEF Timely
  <2>5. UNCHANGED <<computing, sent>>
    BY <1>6 DEF Pop, history
  <2> QED
    BY <1>4, <2>1, <2>4, <2>5 DEF Timely, NeverEarly
<1>7. CASE RecheckRunning
  <2>1. inflight' \in {inflight, 0} /\ UNCHANGED <<queue, computing, sent>>
    BY <1>7 DEF RecheckRunning
  <2> QED
    BY <1>3, <1>4, <2>1 DEF Timely, NeverEarly
<1>8. CASE Dispatch
  <2>1. inflight # 0 /\ inflight' = 0 /\ UNCHANGED <<queue, computing, clock>>
    BY <1>8 DEF Dispatch, Control
  <2>2. sent' = Append(sent, <<inflight, clock>>) /\ sent \in Seq(Packets \X Nat)
    BY <1>8 DEF Dispatch, TypeOK
  <2>3. Len(sent') = Len(sent) + 1 /\ Len(sent) \in Nat
    BY <2>2
  <2>4. \A i \in 1 .. Len(sent) : sent'[i] = sent[i]
    BY <2>2
  <2>5. sent'[Len(sent) + 1][1] = inflight /\ sent'[Len(sent) + 1][2] = clock
    BY <2>2
  <2>6. NeverEarly'
    <3> SUFFICES ASSUME NEW i \in 1 .. Len(sent')
                 PROVE  Reaches(sent'[i][2], CaptureTime[sent'[i][1]])
      BY DEF NeverEarly, Reaches
    <3>1. CASE i \in 1 .. Len(sent)
      BY <2>4, <3>1 DEF Timely, NeverEarly, Reaches
    <3>2. CASE i = Len(sent) + 1
      BY <2>1, <2>5, <3>2 DEF Timely
    <3> QED
      BY <2>3, <3>1, <3>2
  <2> QED
    BY <1>4, <2>1, <2>6 DEF Timely
<1>9. CASE ReadTimeline
  <2>1. computing' = [on |-> TRUE, position |-> Position(clock)] /\ UNCHANGED <<queue, inflight, sent>>
    BY <1>9 DEF ReadTimeline, threadVars, history
  <2> QED
    BY <1>2, <1>3, <2>1 DEF Timely, NeverEarly
<1>10. CASE Push
  <2>1. /\ queue' = queue \cup {[pkt |-> next, due |-> DispatchTime(CaptureTime[next], computing.position)]}
        /\ computing' = NotComputing /\ UNCHANGED <<inflight, sent>>
    BY <1>10 DEF Push, history
  <2>2. CaptureTime[next] \in Nat /\ computing.position \in Nat
    BY <1>10 DEF Push, Control, TypeOK, Packets
  <2>3. computing.position <= Position(clock)
    BY <1>10 DEF Push, Timely
  <2>4. Reaches(DispatchTime(CaptureTime[next], computing.position), CaptureTime[next])
    BY <1>1, <2>2, <2>3, DispatchTimeTimely
  <2> QED
    BY <1>3, <2>1, <2>4 DEF Timely, NeverEarly, NotComputing
<1>11. CASE Clear
  BY <1>5, <1>11 DEF Clear, threadVars, history
<1>12. CASE CheckOuter \/ LeaveInner \/ DecideIdle \/ DecideTimed \/ Block \/ WakeIdle \/ WakeTimed \/ TimeOut
  BY <1>12, <1>5 DEF CheckOuter, LeaveInner, DecideIdle, DecideTimed, Block, WakeIdle, WakeTimed,
     TimeOut, history
<1>13. CASE SpuriousWake \/ FillDone \/ CallFill \/ CallStop \/ NotifyStop \/ Join \/ Spawn \/ Tick
  BY <1>13, <1>5 DEF SpuriousWake, FillDone, CallFill, CallStop, NotifyStop, Join, Spawn, Tick,
     threadVars, history
<1>14. CASE UNCHANGED vars
  BY <1>14, <1>5 DEF vars, threadVars, history
<1> QED
  BY <1>6, <1>7, <1>8, <1>9, <1>10, <1>11, <1>12, <1>13, <1>14 DEF Next, Loop, Enqueue, Finish
-----------------------------------------------------------------------------
\* The invariant holds in every reachable state.
THEOREM Invariant == Spec => []IInv
<1>1. IInv /\ [Next]_vars => IInv'
  BY NextTypeOK, NextControl, NextOnce, NextCounted, NextTimely DEF IInv
<1> QED
  BY InitIInv, <1>1, PTL DEF Spec

\* Every variable keeps its type, and the scheduler thread and the API thread
\* never fill the queue at once.
THEOREM TypeCorrect == Spec => []TypeOK
<1>1. IInv => TypeOK
  BY DEF IInv
<1> QED
  BY Invariant, <1>1, PTL

\* After Stop returns no scheduler thread is left and no packet is in flight.
THEOREM StopLeavesNothing == Spec => []QuietAfterStop
<1>1. IInv => QuietAfterStop
  BY DEF IInv, Control, QuietAfterStop, None
<1> QED
  BY Invariant, <1>1, PTL

\* Over a whole run at most one packet is lost for each Stop.
THEOREM StopLosesAtMostOne == Spec => []LossBoundedByStops
<1>1. IInv => LossBoundedByStops
  <2> SUFFICES ASSUME IInv PROVE LossBoundedByStops
    OBVIOUS
  <2>1. Cardinality(lost) \in Nat /\ Owed \in {0, 1} /\ stops \in Nat
    BY FS_CardinalityType DEF IInv, Counted, Owed, TypeOK
  <2> QED
    BY <2>1 DEF IInv, Counted, LossBoundedByStops
<1> QED
  BY Invariant, <1>1, PTL

\* No packet is handed to the callback twice, or after it was dropped.
THEOREM PacketsHandedOverOnce == Spec => []HandedOverOnce
<1>1. IInv => HandedOverOnce
  BY DEF IInv, Once
<1> QED
  BY Invariant, <1>1, PTL

\* At every speed, no packet is sent before the timeline reaches its capture
\* time or would reach it at normal speed.
THEOREM PacketsNeverEarly == Spec => []NeverEarly
<1>1. IInv => NeverEarly
  BY DEF IInv, Timely
<1> QED
  BY Invariant, <1>1, PTL

\* At normal speed and above, no packet is sent before the timeline reaches its
\* capture time.
THEOREM FastPacketsFollowTimeline ==
  ASSUME Speed >= NormalSpeed
  PROVE  Spec => []FollowsTimeline
<1>1. IInv => FollowsTimeline
  <2> SUFFICES ASSUME IInv, NEW i \in 1 .. Len(sent)
               PROVE  Position(sent[i][2]) >= CaptureTime[sent[i][1]]
    BY DEF FollowsTimeline
  <2>1. sent[i] \in Packets \X Nat
    BY DEF IInv, TypeOK
  <2>2. sent[i][2] \in Nat /\ CaptureTime[sent[i][1]] \in Nat
    BY <2>1, SchedulerAssumption
  <2>3. PICK at \in Nat : at = sent[i][2]
    BY <2>2
  <2>4. Position(at) \in Nat /\ at <= Position(at)
    <3>1. 0 \in Nat /\ 0 + at = at
      OBVIOUS
    <3>2. Position(0) + at <= Position(0 + at)
      BY <3>1, FastTimeline
    <3>3. Position(0) \in Nat /\ Position(at) \in Nat
      BY <3>1, PositionBounds
    <3> QED
      BY <3>1, <3>2, <3>3
  <2>5. Position(sent[i][2]) >= CaptureTime[sent[i][1]] \/ sent[i][2] >= CaptureTime[sent[i][1]]
    BY DEF IInv, Timely, NeverEarly
  <2> QED
    BY <2>2, <2>3, <2>4, <2>5
<1> QED
  BY Invariant, <1>1, PTL
=============================================================================
