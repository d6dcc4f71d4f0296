---------------------------- MODULE PlaybackClock ----------------------------
(***************************************************************************)
(* What TimelineEngine promises its users: a position that advances by its *)
(* rate with every tick of the clock, stands still while frozen, and moves *)
(* otherwise only when it is told to.  A change of rate, a freeze or a     *)
(* thaw leaves it where it is.                                             *)
(***************************************************************************)
EXTENDS Naturals

CONSTANT Targets  \* the positions it may be told to move to

VARIABLES time, pos, rate, frozen

Init == time = 0 /\ pos = 0 /\ rate \in Nat \ {0} /\ frozen = TRUE

Advance ==
  /\ time' = time + 1
  /\ pos' = IF frozen THEN pos ELSE pos + rate
  /\ UNCHANGED <<rate, frozen>>

Jump == pos' \in Targets /\ UNCHANGED <<time, rate, frozen>>
SetRate == rate' \in Nat \ {0} /\ UNCHANGED <<time, pos, frozen>>
Freeze == frozen' = TRUE /\ UNCHANGED <<time, pos, rate>>
Thaw == frozen' = FALSE /\ UNCHANGED <<time, pos, rate>>

\* A restart goes back to where the position was last moved to or its rate
\* changed, never ahead of where it is.
Restart == pos' \in 0 .. pos /\ frozen' = FALSE /\ UNCHANGED <<time, rate>>

Next == Advance \/ Jump \/ SetRate \/ Freeze \/ Thaw \/ Restart

Spec == Init /\ [][Next]_<<time, pos, rate, frozen>>
=============================================================================
