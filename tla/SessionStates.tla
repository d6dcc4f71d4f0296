---------------------------- MODULE SessionStates ----------------------------
(***************************************************************************)
(* The states of a session and the transitions SessionStateMachine allows  *)
(* between them (SessionStateMachine.cpp, enum SessionState in Packet.h).  *)
(***************************************************************************)

SessionState ==
  {"Idle", "Recording", "RecordingPaused", "Stopped",
   "Playing", "PlaybackPaused", "Seeking"}

RecordingStates == {"Recording", "RecordingPaused"}
PlaybackStates == {"Playing", "PlaybackPaused", "Seeking"}

Successors ==
  [Idle            |-> {"Recording", "Stopped"},
   Recording       |-> {"RecordingPaused", "Stopped"},
   RecordingPaused |-> {"Recording", "Stopped"},
   Stopped         |-> {"Playing", "Idle"},
   Playing         |-> {"PlaybackPaused", "Seeking", "Stopped"},
   PlaybackPaused  |-> {"Playing", "Seeking", "Stopped"},
   Seeking         |-> {"Playing", "PlaybackPaused"}]

IsValidTransition(from, to) == to \in Successors[from]
=============================================================================
