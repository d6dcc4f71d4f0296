----------------------------- MODULE MCWebEvents -----------------------------
\* Two transitions, a change of the targets and an interval of the statistics, while
\* both services come and go; the history and the list of callbacks hold one entry,
\* so that both overflow.
EXTENDS WebEvents
=============================================================================
