-------------------------- MODULE MCPacketScheduler --------------------------
\* Four packets, two of them captured at the same time, read two at a time; the
\* scheduler is started, stopped or restarted up to three times while the clock
\* runs from 0 to 3 and beyond while the thread waits for a packet's time.  The
\* runs are at half speed, the one that tells the timeline from the clock.
EXTENDS PacketScheduler
MCCaptureTime == <<0, 1, 1, 3>>
=============================================================================
