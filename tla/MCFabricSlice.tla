--------------------------- MODULE MCFabricSlice ----------------------------
(***************************************************************************)
(* Three resources: one or two networks, nodes on them or on their own,    *)
(* waiting for other providers and needed by them, before and after each   *)
(* other in the list.                                                      *)
(***************************************************************************)
EXTENDS FabricSlice

Layout(nets, link, waits, serves) ==
  [nets |-> nets, link |-> link, waits |-> waits, serves |-> serves]

Pair  == <<{}, {1}, {}>>   \* a node on the network, something on its own
Star  == <<{}, {1}, {1}>>  \* two nodes on the network
Late  == <<{}, {}, {2}>>   \* a node on the second network

Small ==
  {Layout({1}, Star, {1}, {}),         \* the network waits, its nodes are parked
   Layout({1}, Star, {2, 3}, {2}),     \* nodes wait, one is waited for
   Layout({1}, Pair, {3}, {1}),        \* a slice needed before it is complete
   Layout({1, 3}, Pair, {2}, {1}),
   Layout({1, 2}, Late, {3}, {1, 2})}
=============================================================================
