------------------------------- MODULE Timeline -------------------------------
(***************************************************************************)
(* TimelineEngine (recplay_core/src/TimelineEngine.cpp): the playback      *)
(* position, kept as an origin, the clock reading it was taken at and a    *)
(* speed.  Every operation holds the engine's mutex, so each is one step.  *)
(* Speeds are whole numbers of position units per tick, one of them the    *)
(* normal speed; widths and the rounding of a double are left out.         *)
(***************************************************************************)
EXTENDS Integers

CONSTANTS
  Positions,    \* the positions SetOrigin and SeekTo are given
  Speeds,       \* the speeds SetSpeed is given, some not positive
  NormalSpeed,  \* 1.0
  MaxClock      \* bound of the clock

ASSUME TimelineAssumption ==
  /\ Positions \subseteq Nat
  /\ Speeds \subseteq Int
  /\ NormalSpeed \in Nat \ {0}
  /\ MaxClock \in Nat

VARIABLES
  origin,      \* origin_ns_
  speed,       \* speed_
  paused,      \* paused_
  pausedAt,    \* paused_at_ns_
  clockStart,  \* clock_start_ns_
  clock        \* the steady clock

timelineVars == <<origin, speed, paused, pausedAt, clockStart, clock>>

\* ComputeNowLocked
Now ==
  IF paused THEN pausedAt
  ELSE origin + (IF clock > clockStart THEN clock - clockStart ELSE 0) * speed

TimelineInit ==
  /\ origin = 0 /\ speed = NormalSpeed
  /\ paused = TRUE /\ pausedAt = 0
  /\ clockStart = 0 /\ clock = 0

\* SetOrigin and SeekTo do the same.
SeekTo(target) ==
  /\ origin' = target
  /\ IF paused THEN pausedAt' = target /\ UNCHANGED clockStart
               ELSE clockStart' = clock /\ UNCHANGED pausedAt
  /\ UNCHANGED <<speed, paused, clock>>

SetOrigin(target) == SeekTo(target)

\* A plausible bug, for a mutant run: the new speed applies to the time before it.
SetSpeedWithoutRebase(s) ==
  /\ speed' = IF s <= 0 THEN NormalSpeed ELSE s
  /\ UNCHANGED <<origin, clockStart, paused, pausedAt, clock>>

\* A plausible bug, for a mutant run: a speed that is not positive is taken.
SetSpeedUnchecked(s) ==
  /\ IF paused THEN UNCHANGED <<origin, clockStart>>
               ELSE origin' = Now /\ clockStart' = clock
  /\ speed' = s
  /\ UNCHANGED <<paused, pausedAt, clock>>

SetSpeed(s) ==
  /\ IF paused THEN UNCHANGED <<origin, clockStart>>
               ELSE origin' = Now /\ clockStart' = clock
  /\ speed' = IF s <= 0 THEN NormalSpeed ELSE s
  /\ UNCHANGED <<paused, pausedAt, clock>>

Start ==
  /\ clockStart' = clock
  /\ pausedAt' = origin
  /\ paused' = FALSE
  /\ UNCHANGED <<origin, speed, clock>>

Pause ==
  /\ ~paused
  /\ pausedAt' = Now
  /\ paused' = TRUE
  /\ UNCHANGED <<origin, speed, clockStart, clock>>

Resume ==
  /\ paused
  /\ origin' = pausedAt
  /\ clockStart' = clock
  /\ paused' = FALSE
  /\ UNCHANGED <<speed, pausedAt, clock>>

Tick ==
  /\ clock < MaxClock
  /\ clock' = clock + 1
  /\ UNCHANGED <<origin, speed, paused, pausedAt, clockStart>>

TimelineNext ==
  \/ \E target \in Positions : SetOrigin(target) \/ SeekTo(target)
  \/ \E s \in Speeds : SetSpeed(s)
  \/ Start \/ Pause \/ Resume \/ Tick

TimelineSpec == TimelineInit /\ [][TimelineNext]_timelineVars

-----------------------------------------------------------------------------
\* Every variable has its type, the start of the current stretch is not in the
\* future, and a paused position is not before the origin.
TimelineTypeOK ==
  /\ origin \in Nat /\ speed \in Nat \ {0}
  /\ paused \in BOOLEAN /\ pausedAt \in Nat
  /\ clock \in Nat /\ clockStart \in 0 .. clock
  /\ paused => pausedAt >= origin

\* TimelineEngine implements PlaybackClock: its position never jumps by a change
\* of speed, a pause or a resume, stands still while paused and advances at the
\* speed in force with every tick.
Clock ==
  INSTANCE PlaybackClock
    WITH Targets <- Positions, time <- clock, pos <- Now, rate <- speed, frozen <- paused
ImplementsPlaybackClock == Clock!Spec
=============================================================================
