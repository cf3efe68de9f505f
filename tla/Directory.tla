------------------------------- MODULE Directory -------------------------------
(***************************************************************************)
(* What the service promises of adapters: those it lists are adapters      *)
(* BlueZ has, or has had until a moment ago; once it is attached to BlueZ  *)
(* it lists each adapter that stays, and drops each that is gone, and      *)
(* nothing else changes the list: no adapter that stays is ever dropped.   *)
(***************************************************************************)
CONSTANT Path   \* object paths of adapters

VARIABLES
  present,   \* the adapters BlueZ has
  known,     \* the adapters the client can get
  attached   \* the service has been able to read BlueZ's objects once

vars == <<present, known, attached>>

Init == present = {} /\ known = {} /\ attached = FALSE

\* BlueZ, or one of its adapters, comes or goes.
Change ==
  /\ present' \in SUBSET Path
  /\ UNCHANGED <<known, attached>>

Attach ==
  /\ ~attached
  /\ attached' = TRUE
  /\ known' = known \cup present
  /\ UNCHANGED present

Learn(S) ==
  /\ attached
  /\ S \subseteq present
  /\ known' = known \cup S
  /\ UNCHANGED <<present, attached>>

Forget(S) ==
  /\ S \cap present = {}
  /\ known' = known \ S
  /\ UNCHANGED <<present, attached>>

Next == Change \/ Attach \/ \E S \in SUBSET Path : Learn(S) \/ Forget(S)

LearnOf(p) == \E S \in SUBSET Path : p \in S \ known /\ Learn(S)
ForgetOf(p) == \E S \in SUBSET Path : p \in S \cap known /\ Forget(S)

Spec ==
  /\ Init
  /\ [][Next]_vars
  /\ \A p \in Path : WF_vars(LearnOf(p)) /\ WF_vars(ForgetOf(p))
=============================================================================
