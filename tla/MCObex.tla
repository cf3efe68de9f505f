------------------------------- MODULE MCObex -------------------------------
(* Obex for TLC: the path of the first session begins those of the others that  *)
(* start with the same digits (session1, session10).                            *)
EXTENDS Obex

CONSTANTS s1, s2

SessionPrefix == {<<s1, s2>>}
=============================================================================
