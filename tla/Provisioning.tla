---------------------------- MODULE Provisioning ----------------------------
(***************************************************************************)
(* Nodes added to a mesh network (Bluez5MeshAdvProvisioner,                *)
(* Bluez5MeshAdvProvAgent): the daemon adds one at a time, may ask the     *)
(* client for a number or a key, and is then given the next addresses, one *)
(* for each element of the node.  The client may replace the addresses the *)
(* provisioner goes by with a list of its own.                             *)
(*                                                                         *)
(* Nodes are numbered as they are added.                                   *)
(***************************************************************************)
EXTENDS Naturals

CONSTANTS
    FirstAddress,  \* 0x00aa
    UnicastEnd,    \* 0x8000: addresses are 16 bits, and half of them are unicast
    Counts,        \* numbers of elements a node may have
    MaxNodes       \* bound: nodes ever added

ProvisioningAssumption ==
    /\ UnicastEnd \in Nat \ {0} /\ FirstAddress \in 1..UnicastEnd - 1
    /\ Counts \subseteq 1..UnicastEnd /\ MaxNodes \in Nat

VARIABLES
    node,                      \* external: the nodes, in progress or not
    mUnicastAddressAvailable,
    invocation,                \* the node each kept invocation is of, or 0
    omitted,                   \* nodes in progress that were not in the client's list
    adrift                     \* addresses are given without regard to those in use

vars == <<node, mUnicastAddressAvailable, invocation, omitted, adrift>>

NodeIds == 1..MaxNodes
Numbers == 2 * UnicastEnd
Prompts == {"numeric", "static"}
LOCAL_NODE_ADDRESS == 1

\* `apart': the earlier nodes whose addresses were known when it was given its own.
Node == [stage : {"none", "asked", "addressed", "complete", "failed"},
         waits : Prompts \union {"no"}, first : 0..Numbers - 1, count : Counts \union {0},
         apart : SUBSET NodeIds]

Unused == [stage |-> "none", waits |-> "no", first |-> 0, count |-> 0, apart |-> {}]

TypeOK ==
    /\ node \in [NodeIds -> Node]
    /\ mUnicastAddressAvailable \in 0..Numbers - 1
    /\ invocation \in [Prompts -> NodeIds \union {0}]
    /\ omitted \subseteq NodeIds
    /\ adrift \in BOOLEAN

Init ==
    /\ node = [n \in NodeIds |-> Unused]
    /\ mUnicastAddressAvailable = FirstAddress
    /\ invocation = [k \in Prompts |-> 0]
    /\ omitted = {} /\ adrift = FALSE

\* What became of its addresses no longer matters.
Failed == [Unused EXCEPT !.stage = "failed"]

Stage(s) == {n \in NodeIds : node[n].stage = s}
InProgress == Stage("asked") \union Stage("addressed")
Addresses(n) == node[n].first..node[n].first + node[n].count - 1

\* The earlier nodes whose addresses the provisioner knows of.
Known(n) == IF adrift THEN {} ELSE 1..n - 1 \ omitted

\* The daemon refuses a node while it adds another, which nobody is told.
Provision(n) ==
    /\ InProgress = {}
    /\ node[n].stage = "none" /\ \A m \in 1..n - 1 : node[m].stage # "none"
    /\ node' = [node EXCEPT ![n].stage = "asked"]
    /\ UNCHANGED <<mUnicastAddressAvailable, invocation, omitted, adrift>>

\* Mutant: a prompt that was never answered is kept.
HandlePromptIfNone(n, k) ==
    /\ node[n].stage = "asked" /\ node[n].waits = "no"
    /\ node' = [node EXCEPT ![n].waits = k]
    /\ invocation' = [invocation EXCEPT ![k] = IF @ = 0 THEN n ELSE @]
    /\ UNCHANGED <<mUnicastAddressAvailable, omitted, adrift>>

\* handlePromptNumeric, handlePromptStatic: what was kept is forgotten.
HandlePrompt(n, k) ==
    /\ node[n].stage = "asked" /\ node[n].waits = "no"
    /\ node' = [node EXCEPT ![n].waits = k]
    /\ invocation' = [invocation EXCEPT ![k] = n]
    /\ UNCHANGED <<mUnicastAddressAvailable, omitted, adrift>>

\* supplyNumeric, supplyStatic: the answer goes to what is kept, asked for still or
\* not.
Supply(k) ==
    /\ invocation[k] # 0
    /\ node' = [node EXCEPT ![invocation[k]].waits = "no"]
    /\ invocation' = [invocation EXCEPT ![k] = 0]
    /\ UNCHANGED <<mUnicastAddressAvailable, omitted, adrift>>

\* Mutant: the element of the node that is its address is counted twice.
HandleRequestProvDataOverlaps(n, count) ==
    /\ node[n].stage = "asked" /\ node[n].waits = "no"
    /\ node' = [node EXCEPT ![n] =
           [stage |-> "addressed", waits |-> "no", first |-> mUnicastAddressAvailable,
            count |-> count, apart |-> Known(n)]]
    /\ mUnicastAddressAvailable' = (mUnicastAddressAvailable + count - 1) % Numbers
    /\ adrift' = (adrift \/ mUnicastAddressAvailable + count >= Numbers)
    /\ UNCHANGED <<invocation, omitted>>

HandleRequestProvData(n, count) ==
    /\ node[n].stage = "asked" /\ node[n].waits = "no"
    /\ node' = [node EXCEPT ![n] =
           [stage |-> "addressed", waits |-> "no", first |-> mUnicastAddressAvailable,
            count |-> count, apart |-> Known(n)]]
    /\ mUnicastAddressAvailable' = (mUnicastAddressAvailable + count) % Numbers
    /\ adrift' = (adrift \/ mUnicastAddressAvailable + count >= Numbers)
    /\ UNCHANGED <<invocation, omitted>>

\* The daemon takes unicast addresses only.
HandleAddNodeComplete(n) ==
    /\ node[n].stage = "addressed" /\ Addresses(n) \subseteq 1..UnicastEnd - 1
    /\ node' = [node EXCEPT ![n].stage = "complete"]
    /\ UNCHANGED <<mUnicastAddressAvailable, invocation, omitted, adrift>>

\* A prompt that waits is not withdrawn.  The same if the daemon stops, untold.
HandleAddNodeFailed(n) ==
    /\ n \in InProgress
    /\ node' = [node EXCEPT ![n] = Failed]
    /\ UNCHANGED <<mUnicastAddressAvailable, invocation, omitted, adrift>>

\* The client lists the elements of the nodes it was told of, and its own or not.
\* The last of an empty list is whatever lies before it in memory.
UpdateNodeInfo(own) ==
    LET list == own \union UNION {Addresses(n) : n \in Stage("complete")}
    IN  /\ \/ list = {} /\ mUnicastAddressAvailable' \in 0..Numbers - 1
           \/ \E last \in list :
                 /\ \A a \in list : a <= last
                 /\ mUnicastAddressAvailable' = (last + 1) % Numbers
        /\ omitted' = Stage("addressed")
        /\ adrift' = (list = {})
        /\ UNCHANGED <<node, invocation>>

\* The process starts again, and the client has not told it what it knows; the
\* daemon gives up the node in progress.
Restart ==
    /\ mUnicastAddressAvailable' = FirstAddress
    /\ invocation' = [k \in Prompts |-> 0]
    /\ omitted' = {} /\ adrift' = (Stage("complete") # {})
    /\ node' = [n \in NodeIds |-> IF n \in InProgress THEN Failed ELSE node[n]]

Next ==
    \/ \E n \in NodeIds :
          \/ Provision(n) \/ HandleAddNodeComplete(n) \/ HandleAddNodeFailed(n)
          \/ \E k \in Prompts : HandlePrompt(n, k)
          \/ \E count \in Counts : HandleRequestProvData(n, count)
    \/ \E k \in Prompts : Supply(k)
    \/ \E own \in {{}, {LOCAL_NODE_ADDRESS}} : UpdateNodeInfo(own)
    \/ Restart

Spec == Init /\ [][Next]_vars

(***************************************************************************)
(* Properties.                                                             *)
(***************************************************************************)
\* Two nodes of the network have no address in common, whatever failed between them
\* and whichever lists the client gave, unless the later was given its own after a
\* restart, an empty list or 2^16 addresses, or after a list that lacked the earlier,
\* which was in progress; and the answer to a prompt reaches the node that waits.
NodesApart ==
    /\ \A n \in Stage("complete") : \A m \in node[n].apart \intersect Stage("complete") :
          Addresses(m) \intersect Addresses(n) = {}
    /\ \A n \in InProgress : node[n].waits # "no" => invocation[node[n].waits] = n
=============================================================================
