---------------------------- MODULE MCLeDevices ----------------------------
\* Values for TLC.  The addresses and the objects are interchangeable.
EXTENDS LeDevices, TLC

Symmetry == Permutations(Address) \cup Permutations(Object)
=============================================================================
