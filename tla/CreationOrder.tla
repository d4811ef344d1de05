--------------------------- MODULE CreationOrder ----------------------------
(***************************************************************************)
(* What fabfed promises about the order of creation, free of phases,       *)
(* queues and events: a resource is begun only when every resource of      *)
(* another provider it depends on is complete, and nothing that was        *)
(* created is ever taken back.                                             *)
(***************************************************************************)
EXTENDS Workflow

VARIABLES
  w,         \* the workflow
  begun,     \* resources some instance of which exists
  complete   \* resources all of whose instances exist

Allowed(r) == External(w, r) \subseteq complete

\* One more instance of r: its first, its last, both or neither.
Create(r) ==
  /\ Allowed(r)
  /\ begun' = begun \cup {r}
  /\ complete' \in {complete, complete \cup {r}}
  /\ UNCHANGED w

Init == WellFormed(w) /\ begun = {} /\ complete = {}
Next == \E r \in Res \ complete : Create(r)
Spec == Init /\ [][Next]_<<w, begun, complete>>
=============================================================================
