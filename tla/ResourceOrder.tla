--------------------------- MODULE ResourceOrder ---------------------------
(***************************************************************************)
(* order_resources: the list in which every other part of fabfed goes      *)
(* through the resources.  It is computed when the configuration has been  *)
(* parsed, and again when the stitching policy has changed which network   *)
(* waits for which, in module Stitching, which extends this one.           *)
(* Resources are numbered as the configuration lists them; module Workflow *)
(* numbers them by the place they are given here.                          *)
(***************************************************************************)
EXTENDS Naturals, Sequences

CONSTANT N  \* how many resources the configuration lists

Res == 1..N

ASSUME OrderAssumption == N \in Nat

VARIABLES
  deps,     \* the dependency map that evaluate returned
  left,     \* the keys still in it
  waits,    \* waits[r]: what is left of the set of r
  ordered,  \* ordered_resources
  raised    \* "circular dependencies"

order == <<deps, left, waits, ordered, raised>>

Free == {r \in left : waits[r] = {}}

\* Variant of First: a resource that waits for others may go.
FirstLeft(r) == r \in left /\ \A s \in left : r <= s

\* The first key, in the order of the map, that waits for nothing.
First(r) == r \in Free /\ \A s \in Free : r <= s

\* Variant of Move: the others go on waiting for it.
MoveOnly(r) ==
  /\ left' = left \ {r}
  /\ ordered' = Append(ordered, r)
  /\ UNCHANGED waits

Move(r) ==
  /\ left' = left \ {r}
  /\ ordered' = Append(ordered, r)
  /\ waits' = [s \in Res |-> waits[s] \ {r}]

Take(r) ==
  /\ ~raised
  /\ First(r)
  /\ Move(r)
  /\ UNCHANGED <<deps, raised>>

\* Variant of Raise: the search goes on.
RaiseNot ==
  /\ ~raised /\ left # {} /\ Free = {}
  /\ UNCHANGED order

Raise ==
  /\ ~raised /\ left # {} /\ Free = {}
  /\ raised' = TRUE
  /\ UNCHANGED <<deps, left, waits, ordered>>

OrderInit ==
  /\ deps \in [Res -> SUBSET Res]
  /\ left = Res /\ waits = deps
  /\ ordered = <<>> /\ raised = FALSE

OrderNext == Raise \/ \E r \in Res : Take(r)

OrderSpec     == OrderInit /\ [][OrderNext]_order
OrderFairSpec == OrderSpec /\ WF_order(OrderNext)
-----------------------------------------------------------------------------
Placed == {ordered[i] : i \in 1..Len(ordered)}

\* The types of the variables; the keys are split between the map and the list.
OrderTypeOK ==
  /\ deps \in [Res -> SUBSET Res]
  /\ waits \in [Res -> SUBSET Res]
  /\ left \subseteq Res /\ raised \in BOOLEAN
  /\ ordered \in Seq(Res)
  /\ left = Res \ Placed

\* Every place of the list holds what depends on earlier places only: this is
\* what the controller relies on to add, create and, backwards, delete.
Topological ==
  \A i \in 1..Len(ordered) :
    deps[ordered[i]] \subseteq {ordered[j] : j \in 1..(i - 1)}

\* Resources each of which needs another of them: there is a cycle.
Circular(S) == S # {} /\ \A r \in S : deps[r] \cap S # {}

\* The exception is raised for circular dependencies, and only for them: a list
\* is returned exactly when no resource needs itself, directly or through others.
RaisesIffCircular ==
  /\ raised => \E S \in SUBSET Res : Circular(S)
  /\ left = {} => \A S \in SUBSET Res : ~Circular(S)

\* A configuration is either ordered or refused.
Decides == <>(left = {} \/ raised)
=============================================================================
