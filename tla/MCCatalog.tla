------------------------------ MODULE MCCatalog ------------------------------
\* Two protocols, two topics on one channel each, and a mapping between them.
EXTENDS Catalog

CONSTANT Bad
MCAutoStart == <<"core", "session", "web", "storage", "udp", "tcp">>
MCProtocols == {"udp", "tcp"}
MCDefault == [udp |-> [topic |-> "a", channel |-> 1], tcp |-> [topic |-> "b", channel |-> 2]]
MCConfigs == Range(MCDefault) \cup {Bad}
MCMappings == {<<>>, <<[source |-> "a", target |-> "b"]>>}
=============================================================================
