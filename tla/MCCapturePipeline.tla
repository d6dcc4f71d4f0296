--------------------------- MODULE MCCapturePipeline ---------------------------
\* A recording of one protocol, beside which another one captures as a plugin that is
\* started and stopped at any time.  Either may refuse to start.  The recorded protocol
\* receives three packets, of which the second is filtered, the plugin one; each ring
\* holds one packet and fills at once.
EXTENDS CapturePipeline
CONSTANTS udp, tcp

MCProtocols == {udp, tcp}
MCRequests == {{udp}}
MCPlugins == {tcp}
MCNone == {}
MCPackets == [p \in MCProtocols |-> IF p = udp THEN 3 ELSE 1]
MCFiltered == {2}
=============================================================================
