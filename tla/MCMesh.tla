------------------------------- MODULE MCMesh -------------------------------
(* A small instance of module Mesh.  The commands are one that only reads, one that is
   also sent by the key refresh, and one whose answer removes the node. *)
EXTENDS Mesh, TLC

MCGets == {"COMPOSITION_DATA", "DEFAULT_TTL_GET"}
MCSets == {"APPKEY_ADD", "NODE_RESET", "DEFAULT_TTL_SET"}
=============================================================================
