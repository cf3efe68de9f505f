------------------------------- MODULE MCGatt -------------------------------
EXTENDS Gatt, TLC

CONSTANTS d1, d2, s1, s2, c1, e1

\* Two services of the first device, with one characteristic and descriptor;
\* the second device only connects.
MCParentOf == (s1 :> d1) @@ (s2 :> d1) @@ (c1 :> s1) @@ (e1 :> c1)
MCUuidOf == (s1 :> s1) @@ (s2 :> s2)
=============================================================================
