----------------------------- MODULE MCProfiles -----------------------------
(* A small instance of module Profiles.  The objects of serial port channels are
   interchangeable. *)
EXTENDS Profiles, TLC

MCGets == {"COMPOSITION_DATA", "DEFAULT_TTL_GET"}
MCSets == {"APPKEY_ADD", "NODE_RESET", "DEFAULT_TTL_SET"}

Symmetry == Permutations(Channel)
=============================================================================
