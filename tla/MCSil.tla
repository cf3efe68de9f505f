--------------------------------- MODULE MCSil ---------------------------------
(* Three adapters, of which the path of one is the beginning of another's. *)
EXTENDS Sil

CONSTANTS hci0, hci1, hci10, dev10

MCPrefixOf == {<<p, p>> : p \in Path} \cup {<<hci1, hci10>>}
MCNoPrefix == {<<p, p>> : p \in Path}
MCOwner == [d \in Device |-> hci10]
=============================================================================
