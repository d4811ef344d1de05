----------------------------- MODULE MCSession ------------------------------
(***************************************************************************)
(* Small workflows for Session: three resources, the second asked for      *)
(* twice; a chain, a fan-in and a fan-out of dependencies; providers that  *)
(* make all, or some, of the dependencies external.                        *)
(***************************************************************************)
EXTENDS Session

CONSTANTS p1, p2, p3

Placed == {[r \in Res |-> CASE r = 1 -> p1 [] r = 2 -> p2 [] r = 3 -> p3],
           [r \in Res |-> IF r = 1 THEN p1 ELSE p2],
           [r \in Res |-> IF r = 2 THEN p2 ELSE p1]}

Linked == {[r \in Res |-> 1..(r - 1) \cap {r - 1}],
           [r \in Res |-> IF r = 3 THEN {1, 2} ELSE {}],
           [r \in Res |-> IF r = 1 THEN {} ELSE {1}]}

Three ==
  [provider : Placed,
   kind     : {[r \in Res |-> "network"]},
   count    : {[r \in Res |-> IF r = 2 THEN 2 ELSE 1]},
   needs    : Linked,
   late     : {[r \in Res |-> {}]},
   blank    : {[r \in Res |-> {}]},
   async    : {{}}]
=============================================================================
