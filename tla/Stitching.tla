----------------------------- MODULE Stitching ------------------------------
(***************************************************************************)
(* Controller.init, on the resources of a configuration that has been      *)
(* parsed and ordered: the policy is consulted for every pair of networks  *)
(* to be stitched, the resources are ordered again, sites are filled in,   *)
(* layer 3 ranges are divided, and peerings are shared out.  In the end    *)
(* the FABRIC provider builds its ports from the result.  The order is     *)
(* that of module ResourceOrder, whose variables are among those of init.  *)
(*                                                                         *)
(* Resources are numbered by their first order.  An address is the number  *)
(* of the host in its subnet.                                              *)
(***************************************************************************)
EXTENDS Policy, ResourceOrder

CONSTANTS
  FABRIC,   \* the type of the FABRIC provider
  Configs   \* the configurations under study, a set of the records below

(***************************************************************************)
(* policy    what parse_policy made of the files                           *)
(* nets      the networks; the others are nodes                            *)
(* provider  the provider of a resource                                    *)
(* type      the type of a provider                                        *)
(* needs     the resources a resource refers to, stitch_with left out      *)
(* attrs     the site and the profile of a resource, when it has them      *)
(* stitches  the entries of stitch_with, in the order of their networks:   *)
(*           [net, other, options, supplied], supplied being a set that    *)
(*           holds the stitch the configuration spells out, if it does     *)
(* layer3    the layer 3 configuration of a network, 0 for none            *)
(* range     of a layer 3 configuration: [subnet, plain, start, end]       *)
(* peering   the peerings of a network                                     *)
(* account   the peerings for which a cloud account is configured          *)
(***************************************************************************)
\* An entry of stitch_with; what is spelled out is taken as it is, and taken here
\* to be of the two types.  Its ports have a name or not.
WellFormedEntry(c, e) ==
  LET t == c.type[c.provider[e.net]]
      u == c.type[c.provider[e.other]]
  IN  /\ e.net \in c.nets /\ e.other \in c.nets \cap 1..(e.net - 1)
      /\ e.options \in Seq(ToSet(e.options))
      /\ \A x \in e.supplied :
           /\ t # u /\ {x.port.provider, x.peer.provider} = {t, u}
           /\ {x.producer, x.consumer} = {t, u}

\* Unset addresses are those of the second and the last host.
Filled(g) == [start |-> IF g.start = 0 THEN 2 ELSE g.start,
              end   |-> IF g.end = 0 THEN 254 ELSE g.end]

\* A range holds an address at least.
ASSUME StitchingAssumption ==
  \A c \in Configs :
    /\ WellFormed(c.policy)
    /\ c.nets \subseteq Res
    /\ \A r \in Res : /\ c.needs[r] \subseteq 1..(r - 1)
                      /\ c.type[c.provider[r]] \in Nat
                      /\ c.peering[r] # {} => r \in c.nets
    /\ c.stitches \in Seq(ToSet(c.stitches))
    /\ \A e \in ToSet(c.stitches) : WellFormedEntry(c, e)
    /\ \A r \in c.nets : c.layer3[r] # 0 =>
         LET g == c.range[c.layer3[r]]
         IN  g.start \in Nat /\ g.end \in Nat /\ Filled(g).start <= Filled(g).end

VARIABLES
  config,   \* the configuration
  stage,    \* what init is doing
  at,       \* how many steps of the stage have been taken
  faces,    \* stitch_interface of each network
  infos,    \* stitch_info of each network
  site,     \* the site of each resource, if it has one
  range,    \* the DHCP range of each network with a layer 3 configuration
  peer,     \* what init adds to each peering: labels, and the key
  peer3,    \* peer_layer3 of each network
  ports     \* the facility ports of a FABRIC network, one for each peering

layer3 == <<range, peer, peer3>>
vars   == <<config, stage, at, faces, infos, order, site, layer3, ports>>

Type(r)  == config.type[config.provider[r]]
Nodes    == Res \ config.nets
Given(r, k) == IF k \in DOMAIN config.attrs[r] THEN config.attrs[r][k] ELSE ""

Fail == stage' = "failed" /\ at' = 0
-----------------------------------------------------------------------------
(***************************************************************************)
(* handle_stitch_info.                                                     *)
(***************************************************************************)

\* stitch_with is a dependency of its network as long as it is there.
Partners(r) == {e.other : e \in {x \in ToSet(config.stitches) : x.net = r}}

\* Its own site, that of a node it refers to, in any order, or of the first node
\* that refers to it.
find_site(r) ==
  LET below == {n \in config.needs[r] \cap Nodes : Given(n, "site") # ""}
      above == {n \in Nodes : r \in config.needs[n] /\ Given(n, "site") # ""}
  IN  IF Given(r, "site") # "" THEN {Given(r, "site")}
      ELSE IF below # {} THEN {Given(n, "site") : n \in below}
      ELSE {IF above = {} THEN "" ELSE Given(Min(above), "site")}

\* Its own profile, or that of the first network it refers to.
find_profile(r) ==
  LET below == {n \in (config.needs[r] \cup Partners(r)) \cap config.nets :
                  Given(n, "profile") # ""}
  IN  IF Given(r, "profile") # "" \/ below = {} THEN Given(r, "profile")
      ELSE Given(Min(below), "profile")

Found(e) ==
  UNION {find_stitch_port(config.policy, Type(e.net), Type(e.other), s,
                          find_profile(e.net), e.options) : s \in find_site(e.net)}

\* What is left of a port when its preference, its groups and the attributes that
\* are not in K are taken away.
Bare(port, K) ==
  [provider |-> port.provider, attrs |-> Restrict(port.attrs, K), option |-> port.option]

\* Only the port keeps its name.
clean_up_port(x) ==
  [x EXCEPT !.port = Bare(x.port, DOMAIN x.port.attrs),
            !.peer = Bare(x.peer, DOMAIN x.peer.attrs \ {"name"})]

\* What is spelled out is not cleaned up.
Chosen(e) ==
  IF e.supplied # {} THEN e.supplied ELSE {clean_up_port(x) : x \in Found(e)}

\* Only networks of two providers are stitched.
Across(e) == config.provider[e.net] # config.provider[e.other]

\* Variant of Seen: the port of the policy comes first at both ends.
SeenSame(x, r, labels) ==
  [own |-> x.port, peer |-> x.peer, producer |-> x.producer,
   consumer |-> x.consumer, labels |-> labels]

\* The stitch as the network r sees it, its own port first.
Seen(x, r, labels) ==
  LET mine == Type(r) = x.peer.provider
  IN  [own  |-> IF mine THEN x.peer ELSE x.port,
       peer |-> IF mine THEN x.port ELSE x.peer,
       producer |-> x.producer, consumer |-> x.consumer, labels |-> labels]

\* Variant of Consumer: stitch_with says who waits.
ConsumerNet(e, x) == e.net

Consumer(e, x) == IF Type(e.net) = x.consumer THEN e.net ELSE e.other

Stitch ==
  /\ stage = "stitch" /\ at < Len(config.stitches)
  /\ LET e == config.stitches[at + 1]
     IN  Across(e) /\ \E x \in Chosen(e) :
           LET c == Consumer(e, x)
               p == (e.net + e.other) - c
           IN  /\ faces' = [faces EXCEPT ![c] = @ \cup {p}]
               /\ infos' = [infos EXCEPT
                    ![e.net]   = Append(@, Seen(x, e.net, {e.net, e.other})),
                    ![e.other] = Append(@, Seen(x, e.other, {e.net, e.other}))]
  /\ at' = at + 1
  /\ UNCHANGED <<config, stage, order, site, layer3, ports>>

\* "only network stitching across providers is supported", or StitchPortNotFound.
NotFound ==
  /\ stage = "stitch" /\ at < Len(config.stitches)
  /\ LET e == config.stitches[at + 1] IN ~Across(e) \/ Chosen(e) = {}
  /\ Fail
  /\ UNCHANGED <<config, faces, infos, order, site, layer3, ports>>

\* The dependencies are evaluated again, stitch_interface instead of stitch_with.
Evaluate ==
  /\ stage = "stitch" /\ at = Len(config.stitches)
  /\ stage' = "order" /\ at' = 0
  /\ deps' = [r \in Res |-> config.needs[r] \cup faces[r]]
  /\ waits' = deps' /\ left' = Res
  /\ UNCHANGED <<config, faces, infos, ordered, raised, site, layer3, ports>>

Reorder ==
  /\ stage = "order" /\ left # {} /\ ~raised
  /\ OrderNext
  /\ UNCHANGED <<config, stage, at, faces, infos, site, layer3, ports>>

EndOrder ==
  /\ stage = "order"
  /\ IF raised THEN Fail ELSE left = {} /\ stage' = "site" /\ at' = 0
  /\ UNCHANGED <<config, faces, infos, order, site, layer3, ports>>
-----------------------------------------------------------------------------
(***************************************************************************)
(* fix_node_site and fix_network_site.                                     *)
(***************************************************************************)

\* get_stitch_port_for_provider: the end of each stitch that is of type t.
Ends(r, t) ==
  LET mine == Picked(infos[r], {i \in DOMAIN infos[r] :
                t \in {infos[r][i].own.provider, infos[r][i].peer.provider}})
  IN  [i \in DOMAIN mine |->
         IF mine[i].own.provider = t
         THEN [port |-> mine[i].own, peer |-> mine[i].peer.provider, labels |-> mine[i].labels]
         ELSE [port |-> mine[i].peer, peer |-> mine[i].own.provider, labels |-> mine[i].labels]]

SiteOf(port) == IF "site" \in DOMAIN port.attrs THEN port.attrs.site ELSE ""

\* A network with one stitch is where its port is; with several, nowhere.
StitchSite(r) ==
  IF Len(Ends(r, Type(r))) = 1 THEN SiteOf(Ends(r, Type(r))[1].port) ELSE ""

\* The first network of the provider that has a site, is where it is or is torn
\* between several stitches decides; a network without stitches says nothing.
Decisive(n) == site[n] # "" \/ Len(Ends(n, Type(n))) > 0

NodeSites(r) ==
  LET near  == {n \in config.nets : config.provider[n] = config.provider[r]}
      below == {n \in near \cap deps[r] : Decisive(n)}
      above == {n \in near : r \in deps[n] /\ Decisive(n)}
      Of(n) == IF site[n] # "" THEN site[n] ELSE StitchSite(n)
  IN  IF below # {} THEN {Of(n) : n \in below}
      ELSE {IF above = {} THEN "" 
            ELSE Of(Earliest(ordered, {i \in Res : ordered[i] \in above}))}

FixSite ==
  /\ stage = "site" /\ at < N
  /\ LET r == ordered[at + 1]
     IN  \E s \in IF site[r] # "" THEN {site[r]}
                  ELSE IF r \in Nodes THEN NodeSites(r) ELSE {StitchSite(r)} :
           site' = [site EXCEPT ![r] = s]
  /\ at' = at + 1
  /\ UNCHANGED <<config, stage, faces, infos, order, layer3, ports>>
-----------------------------------------------------------------------------
(***************************************************************************)
(* populate_layer3_config and partition_layer3_config.                     *)
(***************************************************************************)
Layers == {config.layer3[r] : r \in config.nets} \ {0}

Position(r) == SelectInSeq(ordered, LAMBDA x : x = r)

\* The networks of a configuration, and the turn of one of them.
Users(l) == {r \in config.nets : config.layer3[r] = l}
Turn(r)  == Cardinality({n \in Users(config.layer3[r]) : Position(n) <= Position(r)})

NoRange == [start |-> 0, end |-> 0]

Whole(l) == Filled(config.range[l])

\* Variant of Part: the parts are as long as they should be.
PartLong(w, n, i) ==
  LET interval == (w.end - w.start) \div n
      start    == w.start + (i - 1) * interval
  IN  [start |-> start, end |-> Min({start + interval, w.end})]

\* Variant of Part: the start is not capped.
PartBeyond(w, n, i) ==
  LET interval == (w.end - w.start) \div n
      start    == w.start + (i - 1) * (interval + 1)
  IN  [start |-> start, end |-> Min({start + interval, w.end})]

\* The part of the i-th of n networks; each part starts after the end of the one
\* before, which is the end of the whole at most.
Part(w, n, i) ==
  LET interval == (w.end - w.start) \div n
      start    == Min({w.start + (i - 1) * (interval + 1), w.end + 1})
  IN  [start |-> start, end |-> Min({start + interval, w.end})]

\* A range given with a prefix length is left to every network.
Divided(l) == Cardinality(Users(l)) > 1 /\ config.range[l].plain

Partition ==
  /\ stage = "site" /\ at = N
  /\ \A l \in Layers : config.range[l].subnet
  /\ stage' = "peer" /\ at' = 0
  /\ range' = [r \in Res |->
       LET l == config.layer3[r]
       IN  IF r \in Nodes \/ l = 0 THEN NoRange
           ELSE IF ~Divided(l) THEN Whole(l)
           ELSE Part(Whole(l), Cardinality(Users(l)), Turn(r))]
  /\ UNCHANGED <<config, faces, infos, order, site, peer, peer3, ports>>

\* "must have a subnet in its layer3 config"
NoSubnet ==
  /\ stage = "site" /\ at = N
  /\ \E l \in Layers : ~config.range[l].subnet
  /\ Fail
  /\ UNCHANGED <<config, faces, infos, order, site, layer3, ports>>
-----------------------------------------------------------------------------
(***************************************************************************)
(* Peerings: labels are the networks that list one, to be matched with the *)
(* labels of the stitches; the key is generated for the first of them.     *)
(***************************************************************************)
Peerings == UNION {config.peering[r] : r \in config.nets}

Label ==
  /\ stage = "peer" /\ at < N
  /\ LET r == ordered[at + 1]
     IN  peer' = [p \in DOMAIN peer |->
                    IF p \in config.peering[r]
                    THEN [labels |-> peer[p].labels \cup {r},
                          key    |-> IF peer[p].key = 0 THEN config.provider[r]
                                     ELSE peer[p].key]
                    ELSE peer[p]]
  /\ at' = at + 1
  /\ UNCHANGED <<config, stage, faces, infos, order, site, range, peer3, ports>>

\* The layer 3 configurations of the networks a network shares a peering with.
Introduce ==
  /\ stage = "peer" /\ at = N
  /\ stage' = "build" /\ at' = 0
  /\ peer3' = [r \in Res |->
       {n \in config.nets \ {r} : config.peering[n] \cap config.peering[r] # {}
                                  /\ config.layer3[n] # 0}]
  /\ UNCHANGED <<config, faces, infos, order, site, range, peer, ports>>

\* Variant of StitchOf: the first stitch will do.
StitchOfFirst(p, ends) == IF ends = <<>> THEN 0 ELSE 1

\* _get_stitch_info_index: the stitch with the labels of the peering, or none.
StitchOf(p, ends) == SelectInSeq(ends, LAMBDA x : x.labels = peer[p].labels)

(***************************************************************************)
(* NetworkBuilder of the FABRIC provider.  A port needs an account, or the *)
(* pairing key of a network that was waited for, found by its type.        *)
(***************************************************************************)
Built == {r \in config.nets : Type(r) = FABRIC}

EndOf(r, p) == Ends(r, FABRIC)[StitchOf(p, Ends(r, FABRIC))]

Keys(r, p) ==
  IF p \in config.account THEN {0}
  ELSE {n \in faces[r] : Type(n) = EndOf(r, p).peer}

Buildable(r, p) == StitchOf(p, Ends(r, FABRIC)) # 0 /\ Keys(r, p) # {}

Build ==
  /\ stage = "build"
  /\ \A r \in Built : \A p \in config.peering[r] : Buildable(r, p)
  /\ stage' = "done" /\ at' = 0
  /\ ports' \in {f \in [Built -> [Peerings -> Res \cup {0}]] :
                   \A r \in Built, p \in Peerings :
                     f[r][p] \in IF p \in config.peering[r] THEN Keys(r, p) ELSE {0}}
  /\ UNCHANGED <<config, faces, infos, order, site, layer3>>

\* "Did not expect peering with no stitch port", or no account.
Unmatched ==
  /\ stage = "build"
  /\ \E r \in Built : \E p \in config.peering[r] : ~Buildable(r, p)
  /\ Fail
  /\ UNCHANGED <<config, faces, infos, order, site, layer3, ports>>
-----------------------------------------------------------------------------
Init ==
  /\ config \in Configs
  /\ stage = "stitch" /\ at = 0
  /\ faces = [r \in Res |-> {}] /\ infos = [r \in Res |-> <<>>]
  /\ deps = faces /\ left = {} /\ waits = faces /\ ordered = <<>> /\ raised = FALSE
  /\ site = [r \in Res |-> Given(r, "site")]
  /\ range = [r \in Res |-> NoRange]
  /\ peer = [p \in Peerings |-> [labels |-> {}, key |-> 0]]
  /\ peer3 = faces
  /\ ports = [r \in Built |-> [p \in Peerings |-> 0]]

Next ==
  \/ Stitch \/ NotFound \/ Evaluate \/ Reorder \/ EndOrder
  \/ FixSite \/ Partition \/ NoSubnet \/ Label \/ Introduce \/ Build \/ Unmatched

Spec == Init /\ [][Next]_vars
-----------------------------------------------------------------------------
(***************************************************************************)
(* Properties.                                                             *)
(***************************************************************************)

\* The types of the variables; a range with nothing left in it ends just before
\* its start.
TypeOK ==
  /\ config \in Configs
  /\ stage \in {"stitch", "order", "site", "peer", "build", "done", "failed"}
  /\ at \in 0..(N + Len(config.stitches))
  /\ faces \in [Res -> SUBSET config.nets]
  /\ \A r \in Res : \A i \in DOMAIN infos[r] : infos[r][i].labels \subseteq config.nets
  /\ ordered \in Seq(Res) /\ left \subseteq Res /\ raised \in BOOLEAN
  /\ DOMAIN site = Res /\ range \in [Res -> [start : Nat, end : Nat]]
  /\ \A r \in Res : range[r].start <= range[r].end + 1
  /\ peer3 \in [Res -> SUBSET config.nets]

\* "the producer is processed first": after the resources have been ordered
\* again, the network that consumes a stitch comes after the one that produces
\* it, whichever of them says stitch_with.
ProducerFirst ==
  stage \in {"site", "peer", "build", "done"} =>
    \A r \in config.nets : \A i \in DOMAIN infos[r] :
      LET x == infos[r][i]
      IN  Type(r) = x.producer /\ x.producer # x.consumer =>
            \A n \in x.labels \ {r} : Position(r) < Position(n)

(***************************************************************************)
(* What the policy offers for types p and q, without the order of things:  *)
(* the ports of the type that is last in the alphabet, with a peer.        *)
(***************************************************************************)
Linked(policy, c, d) ==
  {Name(g) : g \in {x \in ToSet(policy[c].groups) : d \in x.consumers}}
    \cap {Name(h) : h \in {x \in ToSet(policy[d].groups) : c \in x.producers}}

Offers(policy, p, q) ==
  LET Of(t)  == IF t \in DOMAIN policy THEN ToSet(policy[t].ports) ELSE {}
      common == Linked(policy, p, q) \cup Linked(policy, q, p)
  IN  {o \in [port : Of(Max({p, q})), peer : Of(Min({p, q})), consumer : {p, q}] :
         /\ p # q
         /\ Name(o.port) = Name(o.peer)
         /\ o.port.member \cap Linked(policy, o.consumer, (p + q) - o.consumer) # {}
         /\ o.peer.member \cap common # {}}

\* What entry e may come to: what the configuration spells out, or an offer of the
\* policy that has been cleaned up.
Terms(e) ==
  IF e.supplied # {} THEN e.supplied
  ELSE {clean_up_port(o) : o \in Offers(config.policy, Type(e.net), Type(e.other))}

Titled(port) == "name" \in DOMAIN port.attrs

\* x is a stitch between the networks of entry e on its terms, seen from one of
\* them; the ends of what comes from the policy can be told apart by the name.
Meets(x, e) ==
  /\ x.labels = {e.net, e.other}
  /\ \E o \in Terms(e) :
       /\ {<<x.own, x.peer>>, <<x.peer, x.own>>} = {<<o.port, o.peer>>, <<o.peer, o.port>>}
       /\ x.consumer = o.consumer
  /\ e.supplied = {} => Titled(x.own) # Titled(x.peer)

\* Both ends of a stitch are told of it, each with its own port first.  It is one of
\* the entries, and has its terms: the ports are a pair that the policy offers for
\* the two types or that the configuration spells out, in one direction or the
\* other, and the consumer is the one that was offered with them.  A stitch of the
\* policy keeps its name at one end, where -stitch-info looks for it.
Mirrored ==
  \A r \in config.nets : \A i \in DOMAIN infos[r] :
    LET x == infos[r][i]
    IN  /\ x.own.provider = Type(r)
        /\ \E n \in x.labels \ {r} : \E j \in DOMAIN infos[n] :
             infos[n][j] = [x EXCEPT !.own = x.peer, !.peer = x.own]
        /\ \E e \in ToSet(config.stitches) : Meets(x, e)

\* An offer is what option o asks for: a group by the name all its ports share,
\* anything else as an attribute or an option of one of the two ports.
Asked(o, offer) ==
  IF o.key = "group_name" THEN \E g \in offer.port.member : o.values = {g}
  ELSE \E d \in {offer.port, offer.peer} :
         Fits(IF o.key = "port_name" THEN "name" ELSE o.key, o.values, d)

Has(port, k, value) ==
  value # "" /\ <<k, value>> \in {<<a, port.attrs[a]>> : a \in DOMAIN port.attrs}

\* What is asked for, the most important first, as sets of offers.
Wishes(offers, s, profile, options) ==
  [i \in DOMAIN options |-> {o \in offers : Asked(options[i], o)}]
    \o <<{o \in offers : Has(o.port, "profile", profile)},
         {o \in offers : Has(o.port, "site", s)},
         offers>>

Current == config.stitches[at + 1]
Asking  == stage = "stitch" /\ at < Len(config.stitches) /\ Current.supplied = {}

\* Every option means one thing: one that names a group is about the ports of that
\* group, each in no other, and one that does not is about ports.  The code also
\* takes it the other way round, and finds a port of several groups through the
\* first of them only.
Plainly(policy, options) ==
  \A o \in ToSet(options) : \A t \in DOMAIN policy :
    /\ \A g \in ToSet(policy[t].groups) :
         IF o.key = "group_name" THEN ~check_options("name", o.values, g)
         ELSE ~Fits(GroupKey(o.key), o.values, g)
    /\ o.key = "group_name" =>
         \A s \in ToSet(policy[t].ports) :
           /\ \A g, h \in s.member : g = h
           /\ \A k \in {"name", "group_name"} : ~Fits(k, o.values, s)

\* The stitch that is chosen is what the policy offers, the most important wish
\* that can be met is met, and among the offers that meet it the chosen port has
\* the highest preference on its side; none is found only if none is offered.
BestOffer ==
  Asking /\ Plainly(config.policy, Current.options) =>
    LET p      == Type(Current.net)
        q      == Type(Current.other)
        offers == Offers(config.policy, p, q)
    IN  \A s \in find_site(Current.net) :
          LET chosen == find_stitch_port(config.policy, p, q, s,
                                         find_profile(Current.net), Current.options)
              wishes == Wishes(offers, s, find_profile(Current.net), Current.options)
              best   == Earliest(wishes, {i \in DOMAIN wishes : wishes[i] # {}})
          IN  IF offers = {} THEN chosen = {}
              ELSE \E x \in chosen : \E o \in best :
                     /\ o = [port |-> x.port, peer |-> x.peer, consumer |-> x.consumer]
                     /\ \A b \in best : b.port.preference <= o.port.preference

\* No two offers of a pair of types have the same preference.
Ranks(policy, p, q) ==
  \A a, b \in Offers(policy, p, q) :
    a.port.preference = b.port.preference => a = b

\* When preferences tell the offers apart, the stitch does not depend on which
\* of the two networks says stitch_with.
EitherWay ==
  Asking /\ Ranks(config.policy, Type(Current.net), Type(Current.other)) =>
    \A s \in find_site(Current.net) :
      LET Of(p, q) == find_stitch_port(config.policy, p, q, s,
                                       find_profile(Current.net), <<>>)
      IN  Of(Type(Current.net), Type(Current.other))
            = Of(Type(Current.other), Type(Current.net))

\* "the one with the highest preference gets selected" (docs/workflow_design.md)
HighestPreference ==
  Asking /\ Current.options = <<>> /\ find_profile(Current.net) = ""
         /\ find_site(Current.net) = {""} =>
    \A x \in Found(Current) :
      \A o \in Offers(config.policy, Type(Current.net), Type(Current.other)) :
        Max({o.port.preference, o.peer.preference})
          <= Max({x.port.preference, x.peer.preference})

Hosts(r) == range[r].start..range[r].end

\* Networks that share a layer 3 configuration never hand out the same address,
\* nor one outside of its range; none is left without one, as long as there are
\* not more of them than addresses in a part.
DisjointRanges ==
  stage \in {"peer", "build", "done"} =>
    \A l \in {x \in Layers : Divided(x)} :
      LET users == Users(l)
          whole == Whole(l)
      IN  /\ \A r \in users : Hosts(r) \subseteq whole.start..whole.end
          /\ \A r, n \in users : r # n => Hosts(r) \cap Hosts(n) = {}
          /\ Cardinality(users) - 1 <= (whole.end - whole.start) \div Cardinality(users)
               => \A r \in users : Hosts(r) # {}

\* A peering that is listed by the two networks of a stitch and by no other gets
\* the port of that stitch, although the controller labels the peering and the
\* policy the stitch; the key is that of the network at the other end, if this one
\* waits for no other network of its type.
PeeringOfStitch ==
  stage = "done" =>
    \A r \in Built : \A p \in config.peering[r] :
      LET users == {n \in config.nets : p \in config.peering[n]}
          lone  == \A n \in users \ {r}, m \in faces[r] : Type(m) = Type(n) => m = n
      IN  /\ EndOf(r, p).labels = users
          /\ ports[r][p] # 0 /\ lone => ports[r][p] \in users
=============================================================================
