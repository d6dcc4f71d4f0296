-------------------------- MODULE MCSessionOpenRecord --------------------------
\* One client opens a file during a recording: PlayerView offers every file at any
\* time (PlayerView.tsx:165).
EXTENDS Session
CONSTANTS http, p1

MCCallers == {http}
MCProtocols == {p1}
MCOffered ==
  {<<http, "StartRecording", "Idle">>, <<http, "StopRecording", "Recording">>,
   <<http, "OpenForPlayback", "Recording">>}
MCFaults == {}
MCFileLengths == {2}
MCLoopRanges == {<<0, 0>>}
=============================================================================
