------------------------------ MODULE MCApply -------------------------------
(***************************************************************************)
(* Workflows for TLC: every dependency graph over N = 4 resources and      *)
(* every way to spread them over two providers (the first is on P, by      *)
(* symmetry), for a few mixtures of resource types, of providers that      *)
(* report from the create call or from the wait call, and of counts.       *)
(***************************************************************************)
EXTENDS Apply

CONSTANTS P, Q

Graphs    == {n \in [Res -> SUBSET Res] : \A r \in Res : n[r] \subseteq 1..(r - 1)}
Spreads   == {p \in [Res -> Providers] : p[1] = P}
None      == [r \in Res |-> {}]
Ones      == [r \in Res |-> 1]

Attributes(late, blank) == [late |-> late, blank |-> blank]

\* Every instance attribute has a value from the constructor on.
Plain(g) == {Attributes(None, None)}
\* ... or only once it is created, or it is one that nobody sets.
Varied(g) == {Attributes(None, None), Attributes(g, None),
              Attributes(None, [None EXCEPT ![4] = g[4]])}

Make(kind, async, count, p, g, a) ==
  [provider |-> p, kind |-> kind, count |-> count, needs |-> g,
   late |-> a.late, blank |-> a.blank, async |-> async]

Mixed(kind, async, count, Values(_)) ==
  UNION {{Make(kind, async, count, p, g, a) : a \in Values(g)} :
           p \in Spreads, g \in Graphs}

Shapes ==
  LET n == "node"  s == "service"
  IN  Mixed(<<n, n, n, n>>, {1, 3}, <<2, 1, 1, 1>>, Plain)
        \cup Mixed(<<s, n, n, s>>, {2}, Ones, Plain)
        \cup Mixed(<<n, s, s, s>>, {}, <<2, 1, 1, 1>>, Varied)
=============================================================================
