------------------------------ MODULE MCProtocolIo ------------------------------
\* Both services, TCP as a server and as a client; two captures, so that handlers of
\* the first can meet the second, around any number of replays; three events.
EXTENDS ProtocolIo
MCModes == {"udp", "server", "client"}
=============================================================================
