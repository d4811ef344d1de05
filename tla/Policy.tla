------------------------------- MODULE Policy -------------------------------
(***************************************************************************)
(* The stitching policy: which ports of two types of providers make a      *)
(* stitch, who of the two produces it, and which one a network gets.       *)
(* Types of providers are numbers, in the order in which Python sorts      *)
(* their names; all other data of a port or group are in attrs.            *)
(***************************************************************************)
EXTENDS Integers, SequencesExt, FiniteSetsExt

(***************************************************************************)
(* A port:  [provider, preference, member, attrs, option]                  *)
(* A group: [provider, consumers, producers, attrs, option]                *)
(* attrs maps the attributes that are there to values, the name among      *)
(* them; option maps a key to the set of the values it accepts.            *)
(***************************************************************************)
Name(x) == x.attrs.name

FlatMap(s, Op(_)) == FlattenSeq([i \in DOMAIN s |-> Op(s[i])])

Earliest(s, S) == s[Min(S)]

\* The elements of S, each after those that before maps it to.
Sorted(S, before) ==
  [i \in 1..Cardinality(S) |-> CHOOSE x \in S : Cardinality(before[x]) = i - 1]

\* The elements of a sequence at the places in I, in their order.
Picked(s, I) ==
  LET place == Sorted(I, [i \in I |-> {j \in I : j < i}])
  IN  [n \in DOMAIN place |-> s[place[n]]]

\* What parse_policy makes of files in which ports and groups have a name: it gives
\* them the type they are listed under, and every port a preference.
WellFormed(policy) ==
  \A t \in DOMAIN policy :
    /\ t \in Nat
    /\ policy[t].ports \in Seq(ToSet(policy[t].ports))
    /\ policy[t].groups \in Seq(ToSet(policy[t].groups))
    /\ \A s \in ToSet(policy[t].ports) :
         s.provider = t /\ s.preference \in Int /\ "name" \in DOMAIN s.attrs
    /\ \A g \in ToSet(policy[t].groups) : g.provider = t /\ "name" \in DOMAIN g.attrs

(***************************************************************************)
(* parse_policy.  What FABRIC or the details file know of the facility     *)
(* port a profile names replaces the port by one or several.               *)
(***************************************************************************)
Refine(port, details) ==
  [i \in DOMAIN details |-> [port EXCEPT !.attrs = details[i] @@ @]]

Known(port, table) ==
  "profile" \in DOMAIN port.attrs /\ port.attrs.profile \in DOMAIN table

\* Ports the details give another name to are dropped.
Named(port, details) ==
  Picked(details, {i \in DOMAIN details :
    "name" \notin DOMAIN details[i] \/ details[i].name = Name(port)})

Effective(port, remote, local) ==
  IF Known(port, remote) /\ remote[port.attrs.profile] # <<>>
  THEN Refine(port, remote[port.attrs.profile])
  ELSE IF Known(port, local)
       THEN Refine(port, Named(port, local[port.attrs.profile]))
       ELSE <<port>>

parse_policy(raw, remote, details) ==
  [t \in DOMAIN raw |->
     [ports  |-> FlatMap(raw[t].ports, LAMBDA p : Effective(p, remote, details[t])),
      groups |-> raw[t].groups]]

(***************************************************************************)
(* find_stitch_port_for_providers, for the types p and q in this order.    *)
(***************************************************************************)
Info(port, producer, consumer) ==
  [port |-> port, peer |-> port, producer |-> producer.provider,
   consumer |-> consumer.provider, ends |-> {producer, consumer}]

Members(policy, g) ==
  LET ports == policy[g.provider].ports
  IN  Picked(ports, {i \in DOMAIN ports : Name(g) \in ports[i].member})

\* The ports of group g of p, then those of its counterpart.
Joined(policy, g, h, producer, consumer) ==
  LET ports == Members(policy, g) \o Members(policy, h)
  IN  [i \in DOMAIN ports |-> Info(ports[i], producer, consumer)]

\* A type the policy does not have is a KeyError or leads to no stitch.
Collected(policy, p, q) ==
  IF ~({p, q} \subseteq DOMAIN policy) THEN <<>>
  ELSE FlatMap(policy[p].groups, LAMBDA g :
         FlatMap(policy[q].groups, LAMBDA h :
           IF q \in g.consumers /\ p \in h.producers /\ Name(g) = Name(h)
           THEN Joined(policy, g, h, h, g) ELSE <<>>)
         \o
         FlatMap(policy[q].groups, LAMBDA h :
           IF q \in g.producers /\ p \in h.consumers /\ Name(g) = Name(h)
           THEN Joined(policy, g, h, g, h) ELSE <<>>))

\* Variant of Outranks: lowest preference first.
OutranksUp(preference, j, i) ==
  preference[j] < preference[i] \/ (preference[j] = preference[i] /\ j < i)

\* Place j of a list with these preferences comes before place i.
Outranks(preference, j, i) ==
  preference[j] > preference[i] \/ (preference[j] = preference[i] /\ j < i)

\* A stable sort, highest preference first.
Ranked(infos) ==
  LET places     == DOMAIN infos
      preference == [i \in places |-> infos[i].port.preference]
      place      == Sorted(places, [i \in places |->
                                      {j \in places : Outranks(preference, j, i)}])
  IN  [n \in DOMAIN place |-> infos[place[n]]]

Same(x, y) == x.port = y.port /\ x.producer = y.producer /\ x.consumer = y.consumer

Distinct(infos) ==
  Picked(infos, {i \in DOMAIN infos : \A j \in 1..(i - 1) : ~Same(infos[i], infos[j])})

find_stitch_port_for_providers(policy, p, q) == Distinct(Ranked(Collected(policy, p, q)))

\* Variant of Faces: either side may be the peer.
FacesBoth(port, sp, producer, consumer) ==
  sp.provider # port.provider /\ Name(sp) = Name(port)

\* The peer is a port of the type that is first in the alphabet.
Faces(port, sp, producer, consumer) ==
  /\ sp.provider # port.provider
  /\ sp.provider = Min({producer, consumer})
  /\ Name(sp) = Name(port)

peer_stitch_ports(infos) ==
  FlatMap(infos, LAMBDA x :
    LET peers == Picked(infos, {i \in DOMAIN infos :
                   Faces(x.port, infos[i].port, x.producer, x.consumer)})
    IN  [i \in DOMAIN peers |-> [x EXCEPT !.peer = peers[i].port]])

(***************************************************************************)
(* find_stitch_port.  An option is [key, values]; a plain value is a       *)
(* singleton.  The loops assign to the key they go through, so that        *)
(* "port_name" is also the name of a group, and "group_name" the name of a *)
(* port from the second stitch on.                                         *)
(***************************************************************************)
PortKey(k, i) == IF k = "port_name" \/ (k = "group_name" /\ i > 1) THEN "name" ELSE k
GroupKey(k)   == IF k \in {"port_name", "group_name"} THEN "name" ELSE k

check_options(k, values, d) == k \in DOMAIN d.option /\ d.option[k] \cap values # {}

Fits(k, values, d) ==
  \/ k \in DOMAIN d.attrs /\ {d.attrs[k]} = values
  \/ check_options(k, values, d)

ByOption(infos, o) ==
  {i \in DOMAIN infos :
     \/ \E d \in {infos[i].port, infos[i].peer} : Fits(PortKey(o.key, i), o.values, d)
     \/ \E g \in infos[i].ends : Fits(GroupKey(o.key), o.values, g)}

\* The peer is not looked at.
ByAttribute(infos, k, value) ==
  {i \in DOMAIN infos : /\ value # ""
                        /\ k \in DOMAIN infos[i].port.attrs
                        /\ infos[i].port.attrs[k] = value}

\* What is asked for, the most important first; anything goes in the end.
Criteria(infos, site, profile, options) ==
  [i \in DOMAIN options |-> ByOption(infos, options[i])]
    \o <<ByAttribute(infos, "profile", profile), ByAttribute(infos, "site", site),
         DOMAIN infos>>

\* The stitch without its groups, in a set that is empty when there is none.
find_stitch_port(policy, p, q, site, profile, options) ==
  LET infos == peer_stitch_ports(find_stitch_port_for_providers(policy, p, q))
      hits  == Criteria(infos, site, profile, options)
      met   == {i \in DOMAIN hits : hits[i] # {}}
      x     == Earliest(infos, Earliest(hits, met))
  IN  IF met = {} THEN {}
      ELSE {[port |-> x.port, peer |-> x.peer, producer |-> x.producer,
             consumer |-> x.consumer]}
=============================================================================
