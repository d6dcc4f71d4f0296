---------------------------- MODULE MCSessionRace ----------------------------
\* One playback of two protocols that the HTTP thread opens, plays, pauses and seeks in
\* while another thread stops it at any moment, as the bundle activator does at shutdown
\* (recplay_session/src/Activator.cpp:26-46).  Every engine call that can fail fails at times.
EXTENDS Session, TLC
CONSTANTS http, framework, p1, p2

OfferedIn(c, op, states) == {<<c, op, s>> : s \in states}
MCCallers == {http, framework}
MCProtocols == {p1, p2}
Symmetry == Permutations(MCProtocols)
MCOffered ==
  OfferedIn(http, "OpenForPlayback", {"Idle"})
    \cup OfferedIn(http, "StartRecording", SessionState \ {"Idle"})
    \cup OfferedIn(http, "SetReplayTargets", {"Idle"})
    \cup OfferedIn(http, "Play", SessionState)
    \cup OfferedIn(http, "Pause", SessionState)
    \cup OfferedIn(http, "SeekTo", SessionState)
    \cup OfferedIn(framework, "Stop", SessionState)
MCFaults == FaultNames
MCFileLengths == {0, 2}
MCLoopRanges == {<<0, 0>>}
=============================================================================
