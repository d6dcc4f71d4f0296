------------------------------ MODULE MCRpcapFile ------------------------------
\* Three packets at two times, a keyframe after one unit, a flush at two packets: every
\* way to lay three packets into chunks, with times that go back among them.  One
\* write call fails, and a recording may take the place of the one before.
EXTENDS RpcapFile
MCTimes == 0..1
MCTargets == 0..2
=============================================================================
