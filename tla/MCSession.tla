------------------------------- MODULE MCSession -------------------------------
\* One client, with every engine call that can fail failing at times.  Calls come in
\* any state, but for two that the web UI keeps to some: it offers a new recording in
\* every state but the two of a recording (RecorderView), and the stop of one never
\* while it plays back (TransportBar, transportBarModel.ts).  There are one protocol, an
\* empty file and one that is refilled twice, and a loop range inside the latter.
EXTENDS Session
CONSTANTS http, p1

Offers1(op, states) == {<<http, op, s>> : s \in states}
MCCallers == {http}
MCProtocols == {p1}
MCOffered ==
  Offers1("StartRecording", SessionState \ RecordingStates)
    \cup Offers1("PauseRecording", SessionState)
    \cup Offers1("ResumeRecording", SessionState)
    \cup Offers1("StopRecording", SessionState \ PlaybackStates)
    \cup Offers1("OpenForPlayback", SessionState)
    \cup Offers1("Play", SessionState)
    \cup Offers1("Pause", SessionState)
    \cup Offers1("SeekTo", SessionState)
    \cup Offers1("Stop", SessionState)
    \cup Offers1("SetLoopRange", SessionState)
    \cup Offers1("SetReplayTargets", {"Stopped"})
MCFaults == FaultNames
MCFileLengths == {0, 3}
MCLoopRanges == {<<2, 3>>}
=============================================================================
