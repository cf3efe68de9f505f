----------------------------- MODULE MCPairing -----------------------------
\* Values for TLC.  The addresses are interchangeable, and so are the adapters.
EXTENDS Pairing, TLC

Symmetry == Permutations(Adapter) \cup Permutations(Address)
=============================================================================
