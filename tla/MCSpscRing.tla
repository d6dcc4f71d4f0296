------------------------------ MODULE MCSpscRing ------------------------------
\* SpscRing with four slots and two distinguishable packets: the indices wrap,
\* the ring fills (three items) and drains, and any order of items occurs.
EXTENDS SpscRing
CONSTANTS p1, p2
MCItems == {p1, p2}
=============================================================================
