------------------------------ MODULE Workflow ------------------------------
(***************************************************************************)
(* A fabfed workflow as the controller sees it once the configuration has  *)
(* been parsed and ordered: resources over providers, and the dependencies *)
(* of a resource on the attributes of others.  Resources are numbered by   *)
(* their position in the ordered list, so a resource depends only on       *)
(* resources with a smaller number (module ResourceOrder is about that).   *)
(***************************************************************************)
EXTENDS Naturals

CONSTANTS
  N,          \* how many resources a workflow has
  Providers,  \* the labels of the providers
  Workflows   \* the workflows under study, a set of the records below

Res   == 1..N
Kinds == {"node", "network", "service"}

(***************************************************************************)
(* provider  the provider a resource names                                 *)
(* kind      its type; only "service" matters to the order of the phases   *)
(* count     how many instances of it are asked for                        *)
(* needs     the resources it depends on                                   *)
(* late      of those, the ones read through an attribute that is empty    *)
(*           until the instance has been created                           *)
(* blank     of those, the ones read through an attribute nobody ever sets *)
(* async     the provider reports its instances from the wait call         *)
(***************************************************************************)
WorkflowType ==
  [provider : [Res -> Providers],
   kind     : [Res -> Kinds],
   count    : [Res -> Nat \ {0}],
   needs    : [Res -> SUBSET Res],
   late     : [Res -> SUBSET Res],
   blank    : [Res -> SUBSET Res],
   async    : SUBSET Res]

WellFormed(w) ==
  /\ w \in WorkflowType
  /\ \A r \in Res : /\ w.needs[r] \subseteq 1..(r - 1)
                    /\ w.late[r]  \subseteq w.needs[r]
                    /\ w.blank[r] \subseteq w.needs[r]
  \* the providers that offer services report them from the create call
  /\ \A r \in w.async : w.kind[r] # "service"

ASSUME WorkflowAssumption ==
  /\ N \in Nat
  /\ \A w \in Workflows : WellFormed(w)

\* A dependency is external when it crosses providers.
External(w, r) == {d \in w.needs[r] : w.provider[d] # w.provider[r]}
Internal(w, r) == {d \in w.needs[r] : w.provider[d] = w.provider[r]}

IsService(w, r) == w.kind[r] = "service"
=============================================================================
