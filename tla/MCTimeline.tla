------------------------------ MODULE MCTimeline ------------------------------
\* Two positions to seek to, half, normal and double speed and one that is not
\* positive, and four ticks: enough for a pause, a change of speed and a seek in
\* one stretch of playback.
EXTENDS Timeline
MCPositions == {0, 5}
MCSpeeds == {-1, 1, 2, 4}
=============================================================================
