---------------------------- MODULE MCStitching -----------------------------
(***************************************************************************)
(* Two families of configurations.  Pairs: two networks under many         *)
(* policies, with every kind of wish.  Webs: up to four networks under one *)
(* policy, with peerings and layer 3 configurations they share.  Type 2 is *)
(* FABRIC; 1 sorts before it, like chi, and 3 after it, like sense.        *)
(***************************************************************************)
EXTENDS Stitching

None == <<>>

Port(t, name, preference, member, attrs) ==
  [provider |-> t, preference |-> preference, member |-> member,
   attrs |-> [name |-> name] @@ attrs, option |-> [device |-> {name}]]

Group(t, name, consumers, producers) ==
  [provider |-> t, consumers |-> consumers, producers |-> producers,
   attrs |-> [name |-> name], option |-> None]

Wish(key, value) == [key |-> key, values |-> {value}]

Entry(net, other, options) ==
  [net |-> net, other |-> other, options |-> options, supplied |-> {}]

Both == {"consumer", "producer"}

\* The groups G and H between FABRIC and a type t; roles are those of FABRIC.
Groups(t, roles, side) ==
  [i \in 1..2 |->
     LET For(role) == IF role \in roles[i] THEN {IF side = 2 THEN t ELSE 2} ELSE {}
     IN  IF side = 2 THEN Group(2, <<"G", "H">>[i], For("consumer"), For("producer"))
         ELSE Group(t, <<"G", "H">>[i], For("producer"), For("consumer"))]

Reversed(s) == <<s[2], s[1]>>

PairPolicy(t, mine, theirs, member, roles) ==
  parse_policy(
    [s \in {2, t} |->
       IF s = 2
       THEN [ports  |-> <<Port(2, "A", mine[1], member[1], [profile |-> "pf"]),
                          Port(2, "B", mine[2], member[2], [site |-> "y", profile |-> "pg"])>>,
             groups |-> Groups(t, roles, 2)]
       ELSE [ports  |-> <<Port(t, "A", theirs[1], member[1], [site |-> "z"]),
                          Port(t, "B", theirs[2], member[2], [site |-> "y"])>>,
             groups |-> Reversed(Groups(t, roles, t))]],
    [pg |-> <<>>],
    [s \in {2, t} |->
       IF s = 2 THEN [pf |-> <<[site |-> "x"], [name |-> "C", site |-> "w"]>>] ELSE None])

Levels == {<<1, 2>>, <<2, 1>>, <<0, 0>>}

PairPolicies ==
  {PairPolicy(t, mine, theirs, member, <<role, {"consumer"}>>) :
     t \in {1, 3}, mine \in Levels, theirs \in Levels,
     member \in {<<{"G"}, {"G"}>>, <<{"G"}, {"H"}>>, <<{"G", "H"}, {"H"}>>}, role \in {{"producer"}, Both}}

\* All ports are in a group that has no role.
Unoffered == PairPolicy(3, <<1, 2>>, <<1, 2>>, <<{"G"}, {"G"}>>, <<{}, {"consumer"}>>)

Wishes3 == {<<>>, <<Wish("port_name", "B")>>, <<Wish("group_name", "H")>>,
            <<Wish("device", "none"), Wish("device", "A")>>}

Plain == [subnet |-> TRUE, plain |-> TRUE, start |-> 0, end |-> 0]

\* Network 2 says stitch_with; 3 is a node on 1, and 4 one on 2.
PairOf(policy, first, options, attrs) ==
  LET t == CHOOSE s \in DOMAIN policy : s # 2
  IN  [policy |-> policy, nets |-> {1, 2}, provider |-> <<1, 2, 1, 2>>,
       type |-> IF first = 2 THEN <<2, t>> ELSE <<t, 2>>,
       needs |-> <<{}, {}, {1}, {2}>>, attrs |-> attrs,
       stitches |-> <<Entry(2, 1, options)>>,
       layer3 |-> <<1, 1, 0, 0>>, range |-> <<Plain>>,
       peering |-> <<{}, {}, {}, {}>>, account |-> {}]

NoAttrs == <<None, None, None, None>>

Pairs ==
  {PairOf(policy, first, options, NoAttrs) :
     policy \in PairPolicies, first \in {1, 2}, options \in Wishes3}
  \cup {PairOf(Unoffered, first, <<>>, NoAttrs) : first \in {1, 2}}
  \cup
  {PairOf(policy, first, <<>>, attrs) :
     policy \in PairPolicies, first \in {1, 2},
     attrs \in {<<None, [site |-> "y"], None, None>>,
                <<None, None, None, [site |-> "x"]>>,
                <<[profile |-> "pg"], None, None, None>>}}

(***************************************************************************)
(* FABRIC consumes what type 3 produces, and the other way round for type  *)
(* 1; types 1 and 3 have a stitch of their own.                            *)
(***************************************************************************)
WebPolicy ==
  [s \in 1..3 |->
     CASE s = 2 -> [ports  |-> <<Port(2, "A", 1, {"G"}, [site |-> "x"]),
                                 Port(2, "B", 2, {"H"}, [site |-> "y"])>>,
                    groups |-> <<Group(2, "G", {}, {1}), Group(2, "H", {3}, {})>>]
       [] s = 1 -> [ports  |-> <<Port(1, "A", 0, {"G"}, None), Port(1, "D", 0, {"K"}, None)>>,
                    groups |-> <<Group(1, "G", {2}, {}), Group(1, "K", {}, {3})>>]
       [] s = 3 -> [ports  |-> <<Port(3, "B", 0, {"H"}, None), Port(3, "D", 0, {"K"}, None)>>,
                    groups |-> <<Group(3, "H", {}, {2}), Group(3, "K", {1}, {})>>]]

Web(type, nets, needs, pairs, l3, whole, peering) ==
  [policy |-> WebPolicy, nets |-> nets, provider |-> <<1, 2, 3, 4>>, type |-> type,
   needs |-> needs, attrs |-> NoAttrs,
   stitches |-> [i \in DOMAIN pairs |-> Entry(pairs[i][1], pairs[i][2], <<>>)],
   layer3 |-> l3, range |-> <<whole, Plain>>, peering |-> peering, account |-> {"c"}]

Apart  == <<{}, {}, {}, {}>>
NoPeer == Apart

\* One host for each network, less than that, a range of its own, none at all.
Ranges == {Plain, [Plain EXCEPT !.start = 10, !.end = 13],
           [Plain EXCEPT !.start = 10, !.end = 16],
           [Plain EXCEPT !.start = 10, !.end = 11],
           [Plain EXCEPT !.plain = FALSE], [Plain EXCEPT !.subnet = FALSE]}

Shared == {<<1, 1, 1, 1>>, <<1, 1, 0, 2>>, <<1, 2, 1, 2>>}

\* Node 1 of FABRIC has two networks, 2 and 3, or is named by them.
Around(needs, pairs) ==
  [Web(<<2, 3, 1, 3>>, {2, 3, 4}, needs, pairs, <<0, 1, 1, 1>>, Plain, NoPeer)
     EXCEPT !.provider = <<1, 1, 1, 2>>]

Named1 == Entry(2, 1, <<>>)

\* A port with a name and a peer with a site and no name.
Supplied ==
  [Web(<<2, 1, 3, 3>>, {1, 2}, Apart, <<<<2, 1>>>>, <<0, 0, 0, 0>>, Plain, NoPeer)
     EXCEPT !.stitches = <<[Named1 EXCEPT !.supplied =
       {[port |-> [provider |-> 1, attrs |-> [name |-> "my_policy"], option |-> None],
         peer |-> [provider |-> 2, attrs |-> [site |-> "y"], option |-> [device |-> {"U"}]],
         producer |-> 1, consumer |-> 2]}]>>]

\* Two networks of one provider.
OneProvider ==
  [Web(<<2, 2, 3, 3>>, {1, 2}, Apart, <<<<2, 1>>>>, <<0, 0, 0, 0>>, Plain, NoPeer)
     EXCEPT !.provider = <<1, 1, 3, 4>>]

\* FABRIC consumes from type 3 in one group and produces for it in the other, so
\* that it waits for network 2 and not for 3.
Twofold(peering) ==
  [Web(<<2, 3, 3, 3>>, 1..3, Apart, <<>>, <<0, 0, 0, 0>>, Plain, peering)
     EXCEPT !.stitches = <<Entry(2, 1, <<Wish("group_name", "G")>>),
                           Entry(3, 1, <<Wish("group_name", "H")>>)>>,
            !.policy = PairPolicy(3, <<1, 2>>, <<1, 2>>, <<{"G"}, {"H"}>>,
                                  <<{"consumer"}, {"producer"}>>)]

Webs ==
  \* a FABRIC network between clouds
  {Web(<<2, 1, 3, t>>, 1..4, Apart, pairs, l3, whole, peering) :
     t \in {1, 3}, pairs \in {<<<<2, 1>>, <<3, 1>>, <<4, 1>>>>, <<<<3, 1>>, <<4, 1>>>>}, l3 \in Shared, whole \in Ranges,
     peering \in {NoPeer, <<{"b", "c"}, {"c"}, {"b"}, {}>>, <<{"a", "b"}, {}, {"b"}, {"a"}>>,
                  <<{"a"}, {}, {"a"}, {"a"}>>, <<{"c", "a"}, {"c"}, {"b"}, {"a"}>>}}
  \cup
  \* in a circle, or not, and with other references between them
  {Web(<<2, 1, 3, 2>>, 1..3, needs, pairs, <<1, 1, 1, 0>>, Plain, NoPeer) :
     needs \in {Apart, <<{}, {1}, {}, {}>>, <<{}, {}, {1}, {3}>>},
     pairs \in {<<<<2, 1>>, <<3, 1>>, <<3, 2>>>>, <<<<2, 1>>, <<3, 1>>>>, <<<<3, 1>>>>, <<>>}}
  \cup {Around(needs, pairs) : needs \in {<<{}, {1}, {1}, {}>>, <<{}, {1}, {}, {}>>},
                               pairs \in {<<<<4, 2>>>>, <<<<4, 2>>, <<4, 3>>>>, <<>>}}
  \cup {Twofold(peering) : peering \in {<<{"a"}, {"a"}, {}, {}>>, <<{"a"}, {}, {"a"}, {}>>}}
  \* one provider only, or a type without a policy
  \cup {Supplied, OneProvider, Web(<<2, 4, 3, 3>>, 1..2, Apart, <<<<2, 1>>>>, <<0, 0, 0, 0>>, Plain, NoPeer)}

All == Pairs \cup Webs
=============================================================================
