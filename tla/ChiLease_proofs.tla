-------------------------- MODULE ChiLease_proofs ---------------------------
(***************************************************************************)
(* The invariants of ChiLease, for any number of commands and of nodes.    *)
(***************************************************************************)
EXTENDS ChiLease, WellFoundedInduction, TLAPS

\* Where create makes the parts of a network, and where it is about nodes.
Building == {"subnet", "router", "attach"}
Numbered == {"server", "wait", "report"}
Creating == {"create", "lease", "leased"} \cup Building \cup Numbered

\* Create keeps to its steps, and to the names its resource has.
StepInv ==
  /\ late => second = "network"
  /\ step \in Creating => phase = "apply"
  /\ step \in Building => Kind(at) = "network"
  /\ step \in Numbered => Kind(at) = "node"
  /\ phase = "apply" => name \in Names(at)

\* added_map has everything, or it was computed too early.
CacheInv ==
  /\ cache \in {{}, Res} \/ (late /\ cache = {1})
  /\ phase = "apply" /\ step = "unmake" /\ Kind(at) = "network" => late /\ at = 2

\* What create has found or made is there.
PartsInv ==
  /\ step \in Building \cup {"server"} => Lease(at, name) = "active"
  /\ step = "router" => "subnet" \in Parts(at, name)
  /\ step = "attach" => {"subnet", "router"} \subseteq Parts(at, name)
  /\ step = "report" => \A n \in Names(at) : "up" \in Parts(at, n)

\* Create has not got to making the router of r.
Before(r) ==
  \/ phase = "idle"
  \/ phase = "apply" /\ (r > at \/ (r = at /\ step \in {"create", "lease", "leased", "subnet", "router"}))

\* A router that is not attached then was left by an earlier command.
RouterInv == \A r \in Res : Before(r) /\ Detached(r) => "router" \in kept

\* Create has not got beyond the surplus nodes, and it has.
Uncounted == phase = "idle" \/ (phase = "apply" /\ (at = 1 \/ step \in {"create", "unmake"}))
Counting == step \in {"lease", "leased"} \cup Numbered /\ at = 2

\* The nodes there are have numbers the session file covers, then some of those
\* the configuration asks for, unless others were left by an earlier command.
CountInv ==
  second = "node" /\ "nodes" \notin kept =>
    /\ Uncounted => There(2) \subseteq 1..savedCount
    /\ Counting => There(2) \subseteq 1..config

\* A destroy goes from the second resource to the first and has taken apart those
\* that it has dealt with.
DestroyInv ==
  phase = "destroy" =>
    /\ step = "unmake" => at \in todo /\ todo \subseteq 1..at
    /\ step = "end" => todo = {}
    /\ step \in {"unmake", "end"}
    /\ failed = {} => \A r \in Tracked \ todo : There(r) \cap Names(r) = {}

IInv ==
  TypeOK /\ StepInv /\ CacheInv /\ PartsInv /\ RouterInv /\ CountInv /\ DestroyInv
-----------------------------------------------------------------------------
USE ChiAssumption DEF Res

Cloud == [Res -> [Name ->
           [lease : {"none", "pending", "active", "error"},
            parts : SUBSET {"subnet", "router", "attached", "server", "up"}]]]

\* The actions that do alike, taken together.
Leasings == LeaseFound \/ LeasePending \/ LeaseBroken \/ CreateLease \/ LeaseActive
Builds   == Subnet \/ CreateRouter
Built    == RouterFound \/ Attach
Unmaking == UnmakePart \/ UnmakeLease

\* Next, with those.
LEMMA Actions ==
  ASSUME [Next]_vars
  PROVE  \/ UNCHANGED vars \/ Chameleon \/ Edit \/ StartApply \/ StartDestroy \/ Raise
         \/ Interrupt \/ EndApply \/ EndDestroy \/ Die \/ Create \/ StillPending \/ Leasings
         \/ Builds \/ Built \/ Server \/ Up \/ Report \/ Unmaking \/ Unmade
BY DEF Next, Leasings, Builds, Built, Unmaking

\* The first resource is a network, which has one name.
LEMMA Named ==
  ASSUME TypeOK, NEW r \in Res
  PROVE  /\ Names(r) \subseteq Name /\ 1 \in Names(r)
         /\ Kind(r) \in {"network", "node"} /\ (r = 1 => Kind(r) = "network")
         /\ (Kind(r) = "node" => r = 2 /\ second = "node")
         /\ (r = 2 => Kind(r) = second)
BY DEF TypeOK, Names, Kind, Name

\* Of what has a name there is one with the least number.
LEMMA LeastIn ==
  ASSUME NEW ns \in SUBSET Name, ns # {}
  PROVE  Least(ns) \in ns
<1>1. ns \subseteq Nat
  BY DEF Name
<1>2. PICK n \in ns : \A m \in ns : n <= m
  <2>1. IsWellFoundedOn(OpToRel(<, Nat), Nat)
    BY NatLessThanWellFounded
  <2>2. PICK x \in ns : \A y \in ns : ~ (<<y, x>> \in OpToRel(<, Nat))
    BY <1>1, <2>1, WFMin
  <2>3. \A y \in ns : ~ (y < x)
    BY <1>1, <2>2 DEF OpToRel
  <2> QED  BY <1>1, <2>3
<1> QED  BY <1>2 DEF Least
-----------------------------------------------------------------------------
(***************************************************************************)
(* What steps do to the cloud, object by object.                           *)
(***************************************************************************)
Same(r, n) == Lease(r, n)' = Lease(r, n) /\ Parts(r, n)' = Parts(r, n)
Only(r, n) == \A q \in Res, m \in Name : q # r \/ m # n => Same(q, m)

LEMMA LeasedOnly ==
  ASSUME cloud \in Cloud, NEW r \in Res, NEW n \in Name,
         NEW l \in {"none", "pending", "active", "error"}, Leased(r, n, l)
  PROVE  /\ cloud' \in Cloud /\ Only(r, n)
         /\ Lease(r, n)' = l /\ Parts(r, n)' = Parts(r, n)
BY DEF Leased, Cloud, Only, Same, Lease, Parts

LEMMA PartedOnly ==
  ASSUME cloud \in Cloud, NEW r \in Res, NEW n \in Name,
         NEW p \in SUBSET {"subnet", "router", "attached", "server", "up"}, Parted(r, n, p)
  PROVE  /\ cloud' \in Cloud /\ Only(r, n)
         /\ Lease(r, n)' = Lease(r, n) /\ Parts(r, n)' = p
BY DEF Parted, Cloud, Only, Same, Lease, Parts

\* The kinds of change.
Ended(r, n) ==
  Lease(r, n) = "pending" /\ Lease(r, n)' \in {"active", "error"} /\ Parts(r, n)' = Parts(r, n)

Booted(r, n) ==
  /\ Lease(r, n)' = Lease(r, n)
  /\ Parts(r, n) = {"server"} /\ Parts(r, n)' = {"server", "up"}

Lost(r, n) ==
  /\ phase = "idle" /\ phase' = "idle"
  /\ Lease(r, n) = "active" /\ Lease(r, n)' = "error" /\ Parts(r, n)' = {}

Asked(r, n) ==
  /\ phase = "apply" /\ step = "lease" /\ r = at /\ n = name
  /\ Parts(r, n)' = Parts(r, n)
  /\ \/ Lease(r, n) = "error" /\ Lease(r, n)' = "none"
     \/ Lease(r, n) = "none" /\ Lease(r, n)' = "pending"

Part(s) == CASE s = "subnet" -> "subnet" [] s = "router" -> "router"
             [] s = "attach" -> "attached" [] OTHER -> "server"

Gained(r, n) ==
  /\ step \in Building \cup {"server"} /\ step' # step /\ r = at /\ n = name
  /\ Lease(r, n)' = Lease(r, n) /\ Parts(r, n)' = Parts(r, n) \cup {Part(step)}

Taken(r, n) ==
  /\ step = "unmake" /\ r = at /\ n \in Doomed
  /\ Parts(r, n) # {} /\ Parts(r, n)' \subseteq Parts(r, n) /\ Lease(r, n)' = Lease(r, n)

Freed(r, n) ==
  /\ step = "unmake" /\ r = at /\ n \in Doomed
  /\ Parts(r, n) = {} /\ Parts(r, n)' = {} /\ Lease(r, n)' = "none"

Change(r, n) ==
  /\ Only(r, n)
  /\ \/ Ended(r, n) \/ Booted(r, n) \/ Lost(r, n) \/ Asked(r, n) \/ Gained(r, n)
     \/ Taken(r, n) \/ Freed(r, n)

\* At most one object changes.
LEMMA CloudStep ==
  ASSUME IInv, [Next]_vars
  PROVE  /\ cloud' \in Cloud
         /\ UNCHANGED cloud \/ \E r \in Res, n \in Name : Change(r, n)
<1>0. TypeOK /\ cloud \in Cloud /\ at \in Res /\ name \in Name
  BY DEF IInv, TypeOK, Cloud
<1>1. PICK r \in Res, n \in Name : r = at /\ n = name
  BY <1>0
<1>2. CASE UNCHANGED cloud
  BY <1>0, <1>2
<1>3. CASE Chameleon
  <2>1. PICK q \in Res, m \in Name :
          \/ Lease(q, m) = "pending" /\ \E s \in {"active", "error"} : Leased(q, m, s)
          \/ Parts(q, m) = {"server"} /\ Parted(q, m, {"server", "up"})
          \/ /\ phase = "idle" /\ Lease(q, m) = "active"
             /\ cloud' = [cloud EXCEPT ![q][m] = [lease |-> "error", parts |-> {}]]
    BY <1>3 DEF Chameleon
  <2>2. CASE Lease(q, m) = "pending" /\ \E s \in {"active", "error"} : Leased(q, m, s)
    <3>1. PICK s \in {"active", "error"} : Leased(q, m, s)
      BY <2>2
    <3>2. s \in {"none", "pending", "active", "error"}
      OBVIOUS
    <3>3. cloud' \in Cloud /\ Only(q, m) /\ Ended(q, m)
      BY <1>0, <2>2, <3>1, <3>2, LeasedOnly DEF Ended
    <3> QED  BY <3>3 DEF Change
  <2>3. CASE Parts(q, m) = {"server"} /\ Parted(q, m, {"server", "up"})
    <3>1. {"server", "up"} \in SUBSET {"subnet", "router", "attached", "server", "up"}
      OBVIOUS
    <3>2. cloud' \in Cloud /\ Only(q, m) /\ Booted(q, m)
      BY <1>0, <2>3, <3>1, PartedOnly DEF Booted
    <3> QED  BY <3>2 DEF Change
  <2>4. CASE /\ phase = "idle" /\ Lease(q, m) = "active"
             /\ cloud' = [cloud EXCEPT ![q][m] = [lease |-> "error", parts |-> {}]]
    <3>1. phase' = "idle"
      BY <1>3, <2>4 DEF Chameleon, session
    <3>2. cloud' \in Cloud /\ Only(q, m) /\ Lost(q, m)
      BY <1>0, <2>4, <3>1 DEF Cloud, Only, Same, Lease, Parts, Lost
    <3> QED  BY <3>2 DEF Change
  <2> QED  BY <2>1, <2>2, <2>3, <2>4
<1>4. CASE LeaseBroken \/ CreateLease
  <2>1. PICK l \in {"none", "pending", "active", "error"} :
          /\ Leased(r, n, l)
          /\ \/ Lease(r, n) = "error" /\ l = "none"
             \/ Lease(r, n) = "none" /\ l = "pending"
    BY <1>4, <1>1 DEF LeaseBroken, CreateLease
  <2>2. phase = "apply" /\ step = "lease"
    BY <1>4, <1>1 DEF LeaseBroken, CreateLease, Leasing, Goes
  <2>3. cloud' \in Cloud /\ Only(r, n) /\ Lease(r, n)' = l
        /\ Parts(r, n)' = Parts(r, n)
    BY <1>0, <2>1, LeasedOnly
  <2>4. Asked(r, n)
    BY <1>1, <2>1, <2>2, <2>3 DEF Asked
  <2> QED  BY <1>0, <2>3, <2>4 DEF Change
<1>5. CASE (Builds \/ Attach \/ Server) /\ cloud' # cloud
  <2>1. /\ step \in Building \cup {"server"}
        /\ Parted(r, n, Parts(r, n) \cup {Part(step)})
    BY <1>5, <1>1 DEF Builds, Subnet, CreateRouter, Attach, Server, Goes, Adds, Finds, Part, Building
  <2>2. Parts(r, n) \cup {Part(step)}
          \in SUBSET {"subnet", "router", "attached", "server", "up"}
    BY <1>0 DEF Cloud, Parts, Part
  <2>3. cloud' \in Cloud /\ Only(r, n) /\ Lease(r, n)' = Lease(r, n)
        /\ Parts(r, n)' = Parts(r, n) \cup {Part(step)}
    BY <1>0, <2>1, <2>2, PartedOnly
  <2>4. step' # step
    BY <1>5, <2>1 DEF Builds, Subnet, CreateRouter, Goes, Attach, NetworkCreated, Server,
       NextNode, GoesOn, Building
  <2> QED  BY <1>1, <2>1, <2>3, <2>4 DEF Change, Gained
<1>6. CASE Unmaking
  <2>1. step = "unmake" /\ Doomed # {} /\ Doomed \subseteq Name
    BY <1>6 DEF Unmaking, UnmakePart, UnmakeLease, Unmakes, Doomed, There
  <2>2. PICK m \in Doomed : m = Least(Doomed) /\ m \in Name
    BY <2>1, LeastIn
  <2>3. CASE UnmakePart
    <3>1. PICK p \in SUBSET Parts(r, m) : Parted(r, m, p) /\ Parts(r, m) # {}
      BY <1>1, <2>2, <2>3 DEF UnmakePart
    <3>2. p \in SUBSET {"subnet", "router", "attached", "server", "up"}
      BY <1>0, <2>2 DEF Cloud, Parts
    <3>3. cloud' \in Cloud /\ Only(r, m) /\ Lease(r, m)' = Lease(r, m) /\ Parts(r, m)' = p
      BY <1>0, <2>2, <3>1, <3>2, PartedOnly
    <3> QED  BY <1>1, <2>1, <2>2, <3>1, <3>3 DEF Change, Taken
  <2>4. CASE UnmakeLease
    <3>1. Parts(r, m) = {} /\ Leased(r, m, "none")
      BY <1>1, <2>2, <2>4 DEF UnmakeLease
    <3>2. cloud' \in Cloud /\ Only(r, m) /\ Lease(r, m)' = "none" /\ Parts(r, m)' = {}
      BY <1>0, <2>2, <3>1, LeasedOnly
    <3> QED  BY <1>1, <2>1, <2>2, <3>1, <3>2 DEF Change, Freed
  <2> QED  BY <1>6, <2>3, <2>4 DEF Unmaking
<1>7. CASE \/ UNCHANGED vars \/ Edit \/ StartApply \/ StartDestroy \/ Raise \/ Interrupt
           \/ EndApply \/ EndDestroy \/ Die
  BY <1>7, <1>2 DEF vars, Edit, StartApply, StartDestroy, Raise, Interrupt, EndApply,
     EndDestroy, Die
<1>8. CASE \/ Create \/ StillPending \/ LeaseFound \/ LeasePending \/ LeaseActive
           \/ RouterFound \/ Up \/ Report \/ Unmade
  BY <1>8, <1>2 DEF Create, StillPending, Goes, LeaseFound, LeasePending, LeaseActive,
     RouterFound, Up, Report, Unmade
<1> QED
  BY <1>2, <1>3, <1>4, <1>5, <1>6, <1>7, <1>8, Actions DEF Leasings, Built
-----------------------------------------------------------------------------
(***************************************************************************)
(* The variables of the session keep their types.                          *)
(***************************************************************************)
\* The file after a command has the type of a file.
LEMMA SavesOK ==
  ASSUME SessionOK(Facts), NEW ok \in BOOLEAN, SaveApply(ok) \/ SaveDestroy \/ Dies
  PROVE  SessionOK(Facts)'
<1>1. saved' \in [known : [Res -> SUBSET Facts], failed : SUBSET Res, counted : BOOLEAN]
  <2>1. CASE SaveApply(ok)
    <3>1. Reconciled \in [Res -> SUBSET Facts] /\ failed \subseteq Res
      BY DEF SessionOK, Reconciled
    <3>2. {TRUE, \E r \in Res : reported[r] # {}} \subseteq BOOLEAN
      BY ZenonT(30)
    <3>3. PICK s \in [known : {Reconciled}, failed : {failed},
                      counted : {TRUE, \E r \in Res : reported[r] # {}}] : saved' = s
      BY <2>1 DEF SaveApply
    <3> QED  BY <3>1, <3>2, <3>3
  <2>2. CASE SaveDestroy
    BY <2>2 DEF SaveDestroy, SessionOK, NoFile, Unknown
  <2>3. CASE Dies
    BY <2>3 DEF Dies, SessionOK
  <2> QED  BY <2>1, <2>2, <2>3
<1>2. PICK command \in {"apply", "destroy"}, good \in BOOLEAN : Ends(command, good)
  BY DEF SaveApply, SaveDestroy, Dies, SessionOK
<1> QED  BY <1>1, <1>2 DEF SessionOK, Ends, Unknown

\* Every step keeps them.
LEMMA SessionStep ==
  ASSUME IInv, [Next]_vars
  PROVE  SessionOK(Facts)'
<1>0. SessionOK(Facts) /\ at \in Res /\ name \in Name
  BY DEF IInv, TypeOK
<1>1. ASSUME UNCHANGED session PROVE SessionOK(Facts)'
  BY <1>0, <1>1 DEF SessionOK, session
<1>2. ASSUME NEW r \in Res, Fails(r) PROVE SessionOK(Facts)'
  BY <1>0, <1>2 DEF Fails, Reached, SessionOK
<1>3. ASSUME NEW r \in Res, Reached(r), UNCHANGED <<reported, failed>> PROVE SessionOK(Facts)'
  BY <1>0, <1>3 DEF Reached, SessionOK
<1>4. ASSUME NEW r \in Res, NEW n \in Name,
             reported' = [reported EXCEPT ![r] = {[upto |-> n]}], UNCHANGED failed,
             Reached(r) \/ UNCHANGED <<phase, todo, saved, last, left>>
      PROVE  SessionOK(Facts)'
  <2>1. [upto |-> n] \in Facts
    BY DEF Facts
  <2> QED  BY <1>0, <1>4, <2>1 DEF Reached, SessionOK
<1>5. CASE UNCHANGED vars \/ Chameleon \/ Edit \/ Create \/ StillPending \/ Leasings \/ Builds
           \/ Server \/ Up
           \/ Unmaking
  BY <1>1, <1>5 DEF vars, Chameleon, Edit, Create, StillPending, Leasings, LeaseFound, LeasePending,
     LeaseBroken, CreateLease, LeaseActive, Leasing, Builds, Subnet, CreateRouter, Server, Up,
     Unmaking, UnmakePart, UnmakeLease, Unmakes, Goes
<1>6. CASE StartApply
  BY <1>0, <1>6, SessionAssumption DEF StartApply, Begins, SessionOK
<1>7. CASE StartDestroy
  <2>1. Tracked \subseteq Res
    BY <1>0 DEF Tracked, Saved, SessionOK
  <2> QED  BY <1>0, <1>7, <2>1, SessionAssumption DEF StartDestroy, Begins, SessionOK
<1>8. CASE Raise \/ Interrupt
  BY <1>0, <1>2, <1>8 DEF Raise, Interrupt
<1>9. CASE EndApply \/ EndDestroy \/ Die
  <2>1. PICK ok \in BOOLEAN : SaveApply(ok) \/ SaveDestroy \/ Dies
    BY <1>9 DEF EndApply, EndDestroy, Die
  <2> QED  BY <1>0, <2>1, SavesOK
<1>10. CASE Built
  <2>1. Succeeds(at, [upto |-> 1])
    BY <1>10 DEF Built, RouterFound, Attach, NetworkCreated
  <2>2. 1 \in Name
    BY DEF Name
  <2> QED  BY <1>0, <1>4, <2>1, <2>2 DEF Succeeds
<1>11. CASE Report
  BY <1>0, <1>4, <1>11 DEF Report
<1>12. CASE Unmade
  BY <1>0, <1>1, <1>3, <1>12 DEF Unmade
<1> QED
  BY <1>5, <1>6, <1>7, <1>8, <1>9, <1>10, <1>11, <1>12, Actions
-----------------------------------------------------------------------------
(***************************************************************************)
(* Where the program goes.                                                 *)
(***************************************************************************)
\* To the next resource, to the wait for nodes, or to the end.
LEMMA Onward ==
  ASSUME TypeOK, phase \in {"apply", "destroy"}, NEW ok \in BOOLEAN, GoesOn(ok)
  PROVE  /\ UNCHANGED <<setting, control, cache, kept>> /\ at' \in Res /\ name' \in Name
         /\ phase = "apply" =>
              /\ name' = 1
              /\ \/ at = 1 /\ at' = 2 /\ step' = "create"
                 \/ at = 2 /\ at' = 2 /\ step' = "wait" /\ second = "node" /\ step # "report"
                 \/ at' = at /\ step' = "end"
         /\ phase = "destroy" =>
              /\ at' = 1
              /\ \/ at = 2 /\ 1 \in todo /\ step' = "unmake"
                 \/ (at # 2 \/ 1 \notin todo) /\ step' = "end"
<1>1. at \in Res /\ name \in Name /\ 1 \in Name
  BY DEF TypeOK, Name
<1>2. CASE phase = "apply"
  BY <1>1, <1>2 DEF GoesOn
<1>3. CASE phase = "destroy"
  BY <1>1, <1>3 DEF GoesOn
<1> QED  BY <1>2, <1>3


\* Within a command the configuration and the session file are what they are, and
\* when it ends what it leaves is noted.
LEMMA Steady ==
  ASSUME IInv, [Next]_vars
  PROVE  /\ UNCHANGED setting /\ kept \subseteq kept'
         /\ config' \in Name /\ savedCount' \in {0, savedCount, config}
         /\ phase' = phase \/ phase = "idle" \/ phase' = "idle"
         /\ phase' # "idle" => UNCHANGED <<config, savedCount, saved, kept>>
         /\ phase' = "idle" /\ phase = "idle" => UNCHANGED <<savedCount, kept>>
         /\ phase' = "idle" /\ phase # "idle" =>
              Left(savedCount') /\ UNCHANGED <<cloud, place>> /\ step' = "idle"
         /\ phase' # "idle" /\ phase = "idle" => UNCHANGED cloud
<1>1. CASE \/ UNCHANGED vars \/ Chameleon \/ Create \/ StillPending \/ Leasings \/ Builds
           \/ Up \/ Unmaking
  BY <1>1 DEF vars, Chameleon, Create, StillPending, Leasings, LeaseFound, LeasePending, LeaseBroken,
     CreateLease, LeaseActive, Leasing, Builds, Subnet, CreateRouter, Up, Unmaking, UnmakePart,
     UnmakeLease, Unmakes, Goes, session, setting, control, IInv, TypeOK
<1>2. CASE Edit \/ StartApply \/ StartDestroy
  BY <1>2 DEF Edit, StartApply, StartDestroy, Begins, session, setting, control, IInv, TypeOK
<1>3. CASE EndApply \/ EndDestroy \/ Die
  <2>1. phase # "idle" /\ phase' = "idle"
    BY <1>3 DEF EndApply, EndDestroy, Die, SaveApply, SaveDestroy, Dies, Ends
  <2>2. UNCHANGED <<setting, cloud, place>> /\ Left(savedCount') /\ step' = "idle"
    BY <1>3 DEF EndApply, EndDestroy, Die, control
  <2>3. kept \subseteq kept'
    BY <2>2 DEF Left
  <2>4. config' \in Name /\ savedCount' \in {0, savedCount, config}
    BY <1>3 DEF EndApply, EndDestroy, Die, control, IInv, TypeOK
  <2> QED  BY <2>1, <2>2, <2>3, <2>4
<1>4. CASE Raise \/ Interrupt
  BY <1>4 DEF Raise, Interrupt, Fails, Reached, GoesOn, setting, control, IInv, TypeOK
<1>5. CASE Built
  BY <1>5 DEF Built, RouterFound, Attach, NetworkCreated, Succeeds, Reached, GoesOn, setting,
     control, IInv, TypeOK
<1>6. CASE Server \/ Report
  BY <1>6 DEF Server, NextNode, Report, Reached, GoesOn, session, setting, control, IInv, TypeOK
<1>7. CASE Unmade
  BY <1>7 DEF Unmade, Reached, GoesOn, session, setting, control, IInv, TypeOK
<1> QED
  BY <1>1, <1>2, <1>3, <1>4, <1>5, <1>6, <1>7, Actions

\* A command starts with the first resource in an apply, with the last one in a
\* destroy; the user and Chameleon do not move the program.
LEMMA Starts ==
  ASSUME IInv, [Next]_vars, phase = "idle"
  PROVE  \/ phase' = "idle" /\ UNCHANGED <<step, place>>
         \/ /\ phase' = "apply" /\ at' = 1 /\ name' = 1 /\ step' = "create" /\ cache' = {}
            /\ UNCHANGED saved
         \/ /\ phase' = "destroy" /\ at' = (IF 2 \in Tracked THEN 2 ELSE 1) /\ step' = "unmake"
            /\ todo' = Tracked /\ Tracked # {} /\ UNCHANGED <<saved, name, cache>>
<1>0. step = "idle"
  BY DEF IInv, TypeOK
<1>1. CASE UNCHANGED vars \/ Chameleon \/ Edit
  BY <1>1 DEF vars, Chameleon, Edit, session, place
<1>2. CASE StartApply \/ StartDestroy
  BY <1>2 DEF StartApply, StartDestroy, Begins
<1>3. CASE EndApply \/ EndDestroy \/ Die \/ Create \/ StillPending \/ Leasings \/ Builds \/ Up
  BY <1>0, <1>3 DEF EndApply, EndDestroy, Die, Dies, Create, StillPending, Leasings, LeaseFound, LeasePending,
     LeaseBroken, CreateLease, LeaseActive, Leasing, Builds, Subnet, CreateRouter, Up, Goes
<1>4. CASE Raise \/ Interrupt \/ Built \/ Server \/ Report \/ Unmaking \/ Unmade
  BY <1>0, <1>4 DEF Raise, Interrupt, Built, RouterFound, Attach, Server, Report, Unmaking,
     UnmakePart, UnmakeLease, Unmakes, Unmade
<1> QED
  BY <1>1, <1>2, <1>3, <1>4, Actions

\* The steps of an apply that leave the program where it is, and those that take
\* it from one step to the next.
Rests     == UNCHANGED <<step, at, name, cache>>
Looks     == /\ step = "create" /\ UNCHANGED <<at, name>> /\ cache' = Computed
             /\ step' = IF Deletes(cache') THEN "unmake" ELSE "lease"
Waits     == step = "lease" /\ step' = "leased" /\ UNCHANGED <<at, name, cache>>
Makes     == /\ step \in {"lease", "leased"} /\ step' = Made /\ Lease(at, name) = "active"
             /\ UNCHANGED <<at, name, cache>>
HasSubnet == /\ step = "subnet" /\ step' = "router" /\ "subnet" \in Parts(at, name)'
             /\ UNCHANGED <<at, name, cache>>
HasRouter == /\ step = "router" /\ step' = "attach" /\ "router" \in Parts(at, name)'
             /\ UNCHANGED <<at, name, cache>>
Numbers   == /\ name < config /\ name' = name + 1 /\ UNCHANGED <<at, cache>>
             /\ \/ step = "server" /\ step' = "lease"
                \/ step = "report" /\ step' = "report"
Awaits    == step = "server" /\ step' = "wait" /\ name' = 1 /\ UNCHANGED <<at, cache>>
AllUp     == /\ step = "wait" /\ step' = "report" /\ name' = 1 /\ UNCHANGED <<at, cache, cloud>>
             /\ \A n \in 1..config : "up" \in Parts(at, n)
Recreates == /\ step = "unmake" /\ step' = "lease" /\ Doomed = {} /\ Kind(at) = "node"
             /\ UNCHANGED <<at, name, cache, cloud>>
Advances  == at = 1 /\ at' = 2 /\ step' = "create" /\ name' = 1 /\ UNCHANGED cache
Stops     == step' = "end" /\ name' \in {1, name} /\ UNCHANGED <<at, cache>>

Moves ==
  \/ Rests \/ Looks \/ Waits \/ Makes \/ HasSubnet \/ HasRouter \/ Numbers \/ Awaits \/ AllUp
  \/ Recreates \/ Advances \/ Stops

\* There are no others.
LEMMA ApplyStep ==
  ASSUME IInv, [Next]_vars, phase = "apply", phase' = "apply"
  PROVE  Moves
<1>0. TypeOK /\ StepInv /\ at \in Res /\ step # "idle" /\ (Kind(at) = "node" => at = 2 /\ second = "node")
      /\ (at = 2 => Kind(at) = second)
  BY Named DEF IInv, TypeOK
<1>1. CASE UNCHANGED vars \/ Chameleon \/ Unmaking
  BY <1>1 DEF vars, place, Chameleon, Unmaking, UnmakePart, UnmakeLease, Unmakes, Moves, Rests
<1>2. CASE Edit \/ StartApply \/ StartDestroy \/ EndApply \/ EndDestroy \/ Die
  BY <1>2 DEF Edit, StartApply, StartDestroy, Begins, EndApply, SaveApply, EndDestroy,
     SaveDestroy, Die, Dies, Ends
<1>3. CASE Raise
  BY <1>0, <1>3 DEF Raise, GoesOn, Moves, Advances, Stops
<1>4. CASE Interrupt
  BY <1>4 DEF Interrupt, place, Moves, Stops
<1>5. CASE Create
  BY <1>5 DEF Create, Moves, Looks
<1>6. CASE Leasings
  BY <1>6 DEF Leasings, LeaseFound, LeasePending, LeaseBroken, CreateLease, LeaseActive,
     Leasing, Goes, Moves, Rests, Waits, Makes
<1>7. CASE Builds
  <2>1. UNCHANGED <<at, name, cache>>
    BY <1>7 DEF Builds, Subnet, CreateRouter, Goes, Finds, Adds
  <2>2. PICK r \in Res, n \in Name : r = at /\ n = name
    BY <1>0 DEF TypeOK
  <2>3. \/ /\ step = "subnet" /\ step' = "router"
           /\ \/ "subnet" \in Parts(r, n) /\ UNCHANGED cloud
              \/ Parted(r, n, Parts(r, n) \cup {"subnet"})
        \/ step = "router" /\ step' = "attach" /\ Parted(r, n, Parts(r, n) \cup {"router"})
    BY <1>7, <2>2 DEF Builds, Subnet, CreateRouter, Goes, Finds, Adds, Has
  <2>4. \/ "subnet" \in Parts(r, n)' /\ step = "subnet" /\ step' = "router"
        \/ "router" \in Parts(r, n)' /\ step = "router" /\ step' = "attach"
    BY <1>0, <2>3 DEF TypeOK, Parted, Parts
  <2>5. Parts(at, name)' = Parts(r, n)'
    BY <2>1, <2>2 DEF Parts
  <2> QED  BY <2>1, <2>4, <2>5 DEF Moves, HasSubnet, HasRouter
<1>8. CASE Built
  BY <1>0, <1>8 DEF Built, RouterFound, Attach, NetworkCreated, GoesOn, StepInv, Building,
     Moves, Advances, Stops
<1>9. CASE Server
  BY <1>0, <1>9 DEF Server, NextNode, GoesOn, StepInv, Numbered, Moves, Numbers, Awaits, Stops
<1>10. CASE Up
  BY <1>10 DEF Up, Goes, Moves, AllUp
<1>11. CASE Report
  BY <1>0, <1>11 DEF Report, GoesOn, StepInv, Numbered, Moves, Numbers, Stops
<1>12. CASE Unmade
  BY <1>0, <1>12 DEF Unmade, GoesOn, place, Moves, Recreates, Advances, Stops
<1>13. CASE StillPending
  BY <1>13 DEF StillPending, Goes, Moves, Stops
<1> QED
  BY <1>1, <1>2, <1>3, <1>4, <1>5, <1>6, <1>7, <1>8, <1>9, <1>10, <1>11, <1>12, <1>13, Actions

\* The steps of a destroy, where the program takes a resource apart or goes to
\* the one before it.
LEMMA DestroyStep ==
  ASSUME IInv, [Next]_vars, phase = "destroy", phase' = "destroy"
  PROVE  /\ UNCHANGED <<name, cache>>
         /\ \/ UNCHANGED <<step, at, todo, failed>>
            \/ /\ step = "unmake" /\ at' = 1 /\ todo' = todo \ {at}
               /\ step' = IF at = 2 /\ 1 \in todo THEN "unmake" ELSE "end"
               /\ UNCHANGED cloud
               /\ \/ failed' = failed \cup {at}
                  \/ failed' = failed /\ There(at) \cap Names(at) = {}
<1>0. step \in {"unmake", "end"} /\ step \notin Creating
  BY DEF IInv, DestroyInv, StepInv
<1>1. CASE UNCHANGED vars \/ Chameleon \/ Unmaking
  BY <1>1 DEF vars, session, place, Chameleon, Unmaking, UnmakePart, UnmakeLease, Unmakes
<1>2. CASE Edit \/ StartApply \/ StartDestroy \/ EndApply \/ EndDestroy \/ Die \/ Interrupt \/ Create
         \/ StillPending
  BY <1>2 DEF Edit, StartApply, StartDestroy, Begins, EndApply, EndDestroy, SaveDestroy, Die,
     Dies, Ends, Interrupt, Create, StillPending, Goes
<1>3. CASE Raise
  BY <1>0, <1>3 DEF Raise, Fails, Reached, GoesOn
<1>4. CASE Leasings \/ Builds \/ Built \/ Server \/ Up \/ Report
  BY <1>0, <1>4 DEF Leasings, LeaseFound, LeasePending, LeaseBroken, CreateLease, LeaseActive,
     Leasing, Builds, Subnet, CreateRouter, Built, RouterFound, Attach, Server, Up, Report,
     Goes, Creating, Building, Numbered
<1>5. CASE Unmade
  BY <1>0, <1>5 DEF Unmade, Reached, GoesOn, Doomed
<1> QED
  BY <1>1, <1>2, <1>3, <1>4, <1>5, Actions
-----------------------------------------------------------------------------
(***************************************************************************)
(* The other types.                                                        *)
(***************************************************************************)
\* While a command runs nothing goes but what a delete is about: what is active
\* stays so, and parts are only added.
LEMMA Grows ==
  ASSUME IInv, [Next]_vars, phase # "idle", NEW r \in Res, NEW n \in Name,
         step # "unmake" \/ r # at \/ n \notin Doomed
  PROVE  /\ Lease(r, n) = "active" => Lease(r, n)' = "active"
         /\ Parts(r, n) \subseteq Parts(r, n)'
<1>1. CASE UNCHANGED cloud
  BY <1>1 DEF Lease, Parts
<1>2. ASSUME NEW q \in Res, NEW m \in Name, Change(q, m)
      PROVE  /\ Lease(r, n) = "active" => Lease(r, n)' = "active"
             /\ Parts(r, n) \subseteq Parts(r, n)'
  <2>1. CASE q # r \/ m # n
    BY <1>2, <2>1 DEF Change, Only, Same
  <2>2. CASE q = r /\ m = n
    BY <1>2, <2>2 DEF Change, Ended, Booted, Lost, Asked, Gained, Taken, Freed
  <2> QED  BY <2>1, <2>2
<1> QED  BY <1>1, <1>2, CloudStep

\* What has parts has an active lease.
Tied == \A r \in Res, n \in Name : Parts(r, n) # {} => Lease(r, n) = "active"

LEMMA TiedStep ==
  ASSUME IInv, [Next]_vars
  PROVE  Tied'
<1>0. Tied
  BY DEF IInv, TypeOK, Tied
<1>1. CASE UNCHANGED cloud
  BY <1>0, <1>1 DEF Tied, Lease, Parts
<1>2. ASSUME NEW r \in Res, NEW n \in Name, Change(r, n) PROVE Tied'
  <2>1. Parts(r, n)' # {} => Lease(r, n)' = "active"
    <3>1. Parts(r, n) # {} => Lease(r, n) = "active"
      BY <1>0 DEF Tied
    <3>2. CASE Ended(r, n) \/ Booted(r, n) \/ Lost(r, n) \/ Asked(r, n) \/ Taken(r, n) \/ Freed(r, n)
      BY <3>1, <3>2 DEF Ended, Booted, Lost, Asked, Taken, Freed
    <3>3. CASE Gained(r, n)
      BY <3>3 DEF Gained, IInv, PartsInv
    <3> QED  BY <1>2, <3>2, <3>3 DEF Change
  <2>2. ASSUME NEW q \in Res, NEW m \in Name PROVE Parts(q, m)' # {} => Lease(q, m)' = "active"
    <3>1. CASE q # r \/ m # n
      BY <1>0, <1>2, <3>1 DEF Tied, Change, Only, Same
    <3> QED  BY <2>1, <3>1
  <2> QED  BY <2>2 DEF Tied
<1> QED  BY <1>1, <1>2, CloudStep

Steps == {"idle", "end", "create", "lease", "leased", "subnet", "router", "attach", "server",
          "wait", "report", "unmake"}

\* The program is somewhere.
LEMMA PlaceStep ==
  ASSUME IInv, [Next]_vars
  PROVE  /\ at' \in Res /\ name' \in Name /\ cache' \subseteq Res
         /\ step' \in Steps /\ (step' = "idle" <=> phase' = "idle")
<1>0. /\ at \in Res /\ name \in Name /\ cache \subseteq Res /\ 1 \in Res /\ 2 \in Res /\ 1 \in Name
      /\ step \in Steps /\ (step = "idle" <=> phase = "idle")
      /\ config \in Name
  BY DEF IInv, TypeOK, Steps, Name
<1>1. CASE phase = "idle"
  <2>1. CASE phase' = "idle"
    BY <1>0, <1>1, <2>1, Starts DEF place
  <2>2. CASE phase' # "idle"
    <3>1. at' \in {1, 2} /\ name' \in {1, name} /\ cache' \in {{}, cache}
          /\ step' \in {"create", "unmake"}
      BY <1>1, <2>2, Starts
    <3> QED  BY <1>0, <2>2, <3>1 DEF Steps
  <2> QED  BY <2>1, <2>2
<1>2. CASE phase # "idle" /\ phase' = "idle"
  <2>1. UNCHANGED place /\ step' = "idle"
    BY <1>2, Steady
  <2> QED  BY <1>0, <1>2, <2>1 DEF place, Steps
<1>3. CASE phase = "apply" /\ phase' = "apply"
  <2>1. cache' \in {cache, Computed} /\ Computed \subseteq Res
    BY <1>0, <1>3, ApplyStep DEF Computed, Added, Moves, Rests, Looks, Waits, Makes, HasSubnet,
       HasRouter, Numbers, Awaits, AllUp, Recreates, Advances, Stops
  <2>2. at' \in {at, 2} /\ (name' \in {1, name} \/ (name < config /\ name' = name + 1))
    BY <1>3, ApplyStep DEF Moves, Rests, Looks, Waits, Makes, HasSubnet, HasRouter, Numbers,
       Awaits, AllUp, Recreates, Advances, Stops
  <2>3. name < config => name + 1 \in Name
    BY <1>0 DEF Name
  <2>4. step' \in Steps \ {"idle"}
    BY <1>0, <1>3, ApplyStep DEF Moves, Rests, Looks, Waits, Makes, HasSubnet, HasRouter,
       Numbers, Awaits, AllUp, Recreates, Advances, Stops, Steps, Made
  <2> QED  BY <1>0, <1>3, <2>1, <2>2, <2>3, <2>4
<1>4. CASE phase = "destroy" /\ phase' = "destroy"
  <2>1. at' \in {at, 1} /\ UNCHANGED <<name, cache>> /\ step' \in {step, "unmake", "end"}
    BY <1>4, DestroyStep
  <2> QED  BY <1>0, <1>4, <2>1 DEF Steps
<1>5. phase \in {"idle", "apply", "destroy"} /\ (phase' = phase \/ phase = "idle" \/ phase' = "idle")
  BY Steady DEF IInv, TypeOK, SessionOK
<1> QED  BY <1>1, <1>2, <1>3, <1>4, <1>5

\* Every variable keeps its type.
LEMMA TypeStep ==
  ASSUME IInv, [Next]_vars
  PROVE  TypeOK'
<1>1. SessionOK(Facts)' /\ cloud' \in Cloud /\ Tied'
  BY SessionStep, CloudStep, TiedStep
<1>2. TypeOK
  BY DEF IInv
<1>3. /\ second' \in {"network", "node"} /\ first' \in BOOLEAN /\ late' \in BOOLEAN
  BY <1>2, Steady DEF TypeOK, setting
<1>4. config' \in Name /\ savedCount' \in 0..MaxCount /\ kept' \subseteq {"nodes", "router"}
  <2>1. config' \in Name /\ savedCount' \in {0, savedCount, config}
    BY <1>2, Steady DEF TypeOK
  <2>2. config \in 0..MaxCount /\ savedCount \in 0..MaxCount /\ 0 \in 0..MaxCount
    BY <1>2 DEF TypeOK, Name
  <2>3. CASE phase' = "idle" /\ phase # "idle"
    <3>1. kept' \subseteq kept \cup {"nodes", "router"}
      BY <2>3, Steady DEF Left
    <3> QED  BY <1>2, <2>1, <2>2, <3>1 DEF TypeOK
  <2>4. CASE ~(phase' = "idle" /\ phase # "idle")
    BY <1>2, <2>1, <2>2, <2>4, Steady DEF TypeOK
  <2> QED  BY <2>3, <2>4
<1>5. /\ at' \in Res /\ name' \in Name /\ cache' \subseteq Res
      /\ step' \in Steps /\ (step' = "idle" <=> phase' = "idle")
  BY PlaceStep
<1> QED  BY <1>1, <1>3, <1>4, <1>5 DEF TypeOK, Cloud, Tied, Steps
-----------------------------------------------------------------------------
(***************************************************************************)
(* The parts of the invariant.                                             *)
(***************************************************************************)
\* Kinds stay, and so do names within a command.
LEMMA Kinds ==
  ASSUME IInv, [Next]_vars, NEW r \in Res
  PROVE  /\ Kind(r)' = Kind(r) /\ Kind(r) \in {"network", "node"}
         /\ phase' # "idle" => Names(r)' = Names(r)
         /\ Kind(r) = "network" => Names(r) = {1}
         /\ Kind(r) = "node" => r = 2 /\ second = "node" /\ Names(r) = 1..config
BY Steady DEF IInv, TypeOK, Kind, Names, setting

\* Create keeps to its steps.
LEMMA StepStep ==
  ASSUME IInv, [Next]_vars
  PROVE  StepInv'
<1>0. StepInv /\ at \in Res /\ at' \in Res /\ (step = "idle" <=> phase = "idle")
      /\ (step' = "idle" <=> phase' = "idle")
  BY PlaceStep DEF IInv, TypeOK
<1>1. late' => second' = "network"
  BY <1>0, Steady DEF StepInv, setting
<1>2. CASE phase' = "idle"
  BY <1>0, <1>1, <1>2 DEF StepInv, Creating, Building, Numbered
<1>3. CASE phase' = "destroy"
  <2>1. step' \notin Creating
    <3>1. CASE phase = "idle"
      BY <1>3, <3>1, Starts DEF Creating, Building, Numbered
    <3>2. CASE phase = "destroy"
      BY <1>0, <1>3, <3>2, DestroyStep DEF StepInv, Creating, Building, Numbered
    <3> QED  BY <1>3, <3>1, <3>2, Steady
  <2> QED  BY <1>1, <1>3, <2>1 DEF StepInv, Creating
<1>4. CASE phase' = "apply" /\ phase = "idle"
  <2>1. at' = 1 /\ name' = 1 /\ step' = "create"
    BY <1>4, Starts
  <2>2. Names(at)' = {1}
    BY <2>1 DEF Names, Kind
  <2> QED  BY <1>1, <1>4, <2>1, <2>2 DEF StepInv, Building, Numbered
<1>5. CASE phase' = "apply" /\ phase = "apply"
  <2>1. Moves
    BY <1>5, ApplyStep
  <2>2. CASE at' = at
    <3>1. /\ Kind(at)' = Kind(at) /\ Names(at)' = Names(at)
          /\ Kind(at) \in {"network", "node"} /\ 1 \in Names(at)
          /\ (Kind(at) = "node" => Names(at) = 1..config)
      BY <1>0, <1>5, <2>2, Steady, Named DEF Kind, Names, setting, IInv
    <3>2. step' \in Building => Kind(at) = "network"
      BY <1>0, <2>1, <2>2, <3>1 DEF Moves, Rests, Looks, Waits, Makes, HasSubnet, HasRouter,
         Numbers, Awaits, AllUp, Recreates, Advances, Stops, StepInv, Building, Numbered, Made
    <3>3. step' \in Numbered => Kind(at) = "node"
      BY <1>0, <2>1, <2>2, <3>1 DEF Moves, Rests, Looks, Waits, Makes, HasSubnet, HasRouter,
         Numbers, Awaits, AllUp, Recreates, Advances, Stops, StepInv, Building, Numbered, Made
    <3>4. name' \in Names(at)
      <4>1. CASE Numbers
        <5>1. step \in Numbered \/ step = "server"
          BY <4>1 DEF Numbers, Numbered
        <5>2. Kind(at) = "node" /\ Names(at) = 1..config /\ name \in Nat /\ config \in Nat
          BY <1>0, <3>1, <5>1 DEF StepInv, Numbered, IInv, TypeOK, Name
        <5> QED  BY <4>1, <5>2 DEF Numbers
      <4>2. CASE ~Numbers
        <5>1. name' \in {1, name}
          BY <2>1, <4>2 DEF Moves, Rests, Looks, Waits, Makes, HasSubnet, HasRouter, Awaits,
             AllUp, Recreates, Advances, Stops
        <5> QED  BY <1>0, <1>5, <3>1, <5>1 DEF StepInv
      <4> QED  BY <4>1, <4>2
    <3> QED  BY <1>1, <1>5, <3>1, <3>2, <3>3, <3>4 DEF StepInv
  <2>3. CASE at' # at
    <3>1. at' = 2 /\ name' = 1 /\ step' = "create"
      BY <2>1, <2>3 DEF Moves, Rests, Looks, Waits, Makes, HasSubnet, HasRouter, Numbers,
         Awaits, AllUp, Recreates, Advances, Stops
    <3>2. 1 \in Names(at)'
      <4>1. config' \in Nat \ {0}
        BY Steady DEF Name
      <4> QED  BY <4>1 DEF Names
    <3> QED  BY <1>1, <1>5, <3>1, <3>2 DEF StepInv, Building, Numbered
  <2> QED  BY <2>2, <2>3
<1> QED
  BY <1>2, <1>3, <1>4, <1>5, SessionStep, Steady DEF SessionOK

\* added_map lacks a network only if it was computed for another one.
LEMMA CacheStep ==
  ASSUME IInv, [Next]_vars
  PROVE  CacheInv'
<1>0. CacheInv /\ StepInv /\ late' = late /\ at \in Res /\ 1 \in Res /\ 2 \in Res
  BY Steady DEF IInv, setting, TypeOK
<1>1. CASE phase' = "idle"
  <2>1. cache' = cache
    BY <1>1, Steady, Starts DEF place
  <2> QED  BY <1>0, <1>1, <2>1 DEF CacheInv
<1>2. CASE phase' = "destroy"
  <2>1. cache' = cache
    BY <1>2, Steady, Starts, DestroyStep
  <2> QED  BY <1>0, <1>2, <2>1 DEF CacheInv
<1>3. CASE phase' = "apply" /\ phase = "idle"
  <2>1. cache' = {} /\ step' = "create"
    BY <1>3, Starts
  <2> QED  BY <2>1 DEF CacheInv
<1>4. CASE phase' = "apply" /\ phase = "apply"
  <2>1. Moves
    BY <1>4, ApplyStep
  <2>2. CASE at' = at
    <3>1. Kind(at)' = Kind(at)
      BY <2>2, Steady DEF Kind, setting
    <3>2. CASE Looks
      <4>1. cache' = Computed /\ Computed \in {{}, Res, cache, Added}
        BY <3>2 DEF Looks, Computed
      <4>2. Added = Res \/ (late /\ at = 1 /\ Added = {1})
        BY DEF Added
      <4>3. cache' \in {{}, Res} \/ (late /\ cache' = {1})
        BY <1>0, <4>1, <4>2 DEF CacheInv
      <4>4. ASSUME step' = "unmake", Kind(at) = "network" PROVE late /\ at = 2
        <5>1. savedCount # 0 /\ at \notin cache'
          BY <3>2, <4>4 DEF Looks, Deletes, Surplus
        <5>2. cache # {}
          BY <1>0, <4>1, <4>2, <5>1 DEF Computed
        <5>3. cache' # {}
          BY <4>1, <5>2 DEF Computed
        <5> QED  BY <1>0, <4>3, <5>1, <5>3
      <4> QED  BY <1>0, <2>2, <3>1, <4>3, <4>4 DEF CacheInv
    <3>3. CASE ~Looks
      <4>1. cache' = cache /\ (step' = "unmake" => step = "unmake")
        BY <2>1, <3>3 DEF Moves, Rests, Waits, Makes, HasSubnet, HasRouter, Numbers, Awaits,
           AllUp, Recreates, Advances, Stops, Made
      <4> QED  BY <1>0, <1>4, <2>2, <3>1, <4>1 DEF CacheInv
    <3> QED  BY <3>2, <3>3
  <2>3. CASE at' # at
    <3>1. cache' = cache /\ step' = "create"
      BY <2>1, <2>3 DEF Moves, Rests, Looks, Waits, Makes, HasSubnet, HasRouter, Numbers,
         Awaits, AllUp, Recreates, Advances, Stops
    <3> QED  BY <1>0, <3>1 DEF CacheInv
  <2> QED  BY <2>2, <2>3
<1> QED
  BY <1>1, <1>2, <1>3, <1>4, SessionStep, Steady DEF SessionOK

\* What create has found or made stays there.
LEMMA PartsStep ==
  ASSUME IInv, [Next]_vars
  PROVE  PartsInv'
<1>0. PartsInv /\ StepInv /\ StepInv' /\ TypeOK /\ at \in Res /\ name \in Name
  BY StepStep DEF IInv, TypeOK
<1>1. CASE step' \notin Building \cup {"server", "report"}
  BY <1>1 DEF PartsInv, Building
<1>2. CASE step' \in Building \cup {"server", "report"}
  <2>1. phase' = "apply" /\ step' # "create" /\ step' # "end"
    BY <1>0, <1>2 DEF StepInv, Creating, Building, Numbered
  <2>2. phase = "apply"
    BY <2>1, Steady, Starts
  <2>3. Moves /\ at' = at
    BY <2>1, <2>2, ApplyStep DEF Moves, Rests, Looks, Waits, Makes, HasSubnet, HasRouter,
       Numbers, Awaits, AllUp, Recreates, Advances, Stops
  <2>4. Names(at)' = Names(at) /\ Names(at) \subseteq Name
    BY <1>0, <2>1, <2>3, Steady, Named DEF Names, Kind, setting
  <2>5. PICK r \in Res : r = at
    BY <1>0
  <2>6. step # "unmake"
    BY <1>2, <2>3 DEF Moves, Rests, Looks, Waits, Makes, HasSubnet, HasRouter, Numbers, Awaits,
       AllUp, Recreates, Advances, Stops, Building
  <2>7. \A n \in Name : /\ Lease(r, n) = "active" => Lease(r, n)' = "active"
                        /\ Parts(r, n) \subseteq Parts(r, n)'
    BY <2>2, <2>6, Grows
  <2>8. CASE step' = "report"
    <3>1. \A n \in Names(at) : "up" \in Parts(r, n)
      <4>1. CASE step = "report"
        BY <1>0, <2>5, <4>1 DEF PartsInv
      <4>2. CASE step # "report"
        <5>1. AllUp
          BY <2>3, <2>8, <4>2 DEF Moves, Rests, Looks, Waits, Makes, HasSubnet, HasRouter,
             Numbers, Awaits, Recreates, Advances, Stops, Made
        <5>2. Kind(at) = "node"
          BY <1>0, <5>1 DEF AllUp, StepInv, Numbered
        <5> QED  BY <2>5, <5>1, <5>2 DEF AllUp, Names
      <4> QED  BY <4>1, <4>2
    <3>2. \A n \in Names(at) : "up" \in Parts(r, n)'
      BY <2>4, <2>7, <3>1
    <3>3. \A n : Parts(at, n)' = Parts(r, n)'
      BY <2>3, <2>5 DEF Parts
    <3> QED  BY <2>4, <2>8, <3>2, <3>3 DEF PartsInv, Building
  <2>9. CASE step' # "report"
    <3>1. PICK n \in Name : n = name /\ name' = n
      BY <1>0, <1>2, <2>3, <2>9 DEF Moves, Rests, Looks, Waits, Makes, HasSubnet, HasRouter,
         Numbers, Awaits, AllUp, Recreates, Advances, Stops, Building
    <3>2. Lease(at, name)' = Lease(r, n)' /\ Parts(at, name)' = Parts(r, n)'
      BY <2>3, <2>5, <3>1 DEF Lease, Parts
    <3>3. Lease(r, n) = "active"
      BY <1>0, <1>2, <2>3, <2>5, <2>9, <3>1 DEF Moves, Rests, Looks, Waits, Makes, HasSubnet,
         HasRouter, Numbers, Awaits, AllUp, Recreates, Advances, Stops, Building, PartsInv
    <3>4. step' = "router" => "subnet" \in Parts(r, n)'
      BY <1>0, <2>3, <2>5, <2>7, <3>1, <3>2 DEF Moves, Rests, Looks, Waits, Makes, HasSubnet,
         HasRouter, Numbers, Awaits, AllUp, Recreates, Advances, Stops, Made, PartsInv
    <3>5. step' = "attach" => {"subnet", "router"} \subseteq Parts(r, n)'
      BY <1>0, <2>3, <2>5, <2>7, <3>1, <3>2 DEF Moves, Rests, Looks, Waits, Makes, HasSubnet,
         HasRouter, Numbers, Awaits, AllUp, Recreates, Advances, Stops, Made, PartsInv
    <3> QED  BY <2>7, <2>9, <3>2, <3>3, <3>4, <3>5 DEF PartsInv
  <2> QED  BY <2>8, <2>9
<1> QED  BY <1>1, <1>2

\* A router that has lost its attachment, or has not had one yet, is being made or
\* unmade in this command.
LEMMA DetachedStep ==
  ASSUME IInv, [Next]_vars, NEW r \in Res, Detached(r)', ~Detached(r)
  PROVE  /\ Kind(r) = "network" /\ r = at /\ step \in {"router", "unmake"}
         /\ step = "router" => step' # step
<1>1. Kind(r) = "network" /\ "router" \in Parts(r, 1)' /\ "attached" \notin Parts(r, 1)'
  BY Kinds DEF Detached
<1>2. 1 \in Name /\ ("router" \notin Parts(r, 1) \/ "attached" \in Parts(r, 1))
  BY <1>1 DEF Detached, Name
<1>3. PICK q \in Res, m \in Name : Change(q, m)
  BY <1>1, <1>2, CloudStep DEF Parts
<1>4. q = r /\ m = 1
  BY <1>1, <1>2, <1>3 DEF Change, Only, Same
<1>5. Gained(r, 1) \/ Taken(r, 1)
  BY <1>1, <1>2, <1>3, <1>4 DEF Change, Ended, Booted, Lost, Asked, Freed
<1>6. CASE Gained(r, 1)
  BY <1>1, <1>2, <1>6 DEF Gained, Part, Building
<1>7. CASE Taken(r, 1)
  BY <1>1, <1>7 DEF Taken
<1> QED  BY <1>5, <1>6, <1>7

\* Routers that are not attached are those of earlier commands.
LEMMA RouterStep ==
  ASSUME IInv, [Next]_vars
  PROVE  RouterInv'
<1> SUFFICES ASSUME NEW r \in Res, Before(r)', Detached(r)' PROVE "router" \in kept'
  BY DEF RouterInv
<1>0. kept \subseteq kept' /\ (Before(r) /\ Detached(r) => "router" \in kept)
      /\ Kind(r) = "network" /\ at \in Res /\ StepInv
      /\ (step = "idle" <=> phase = "idle")
  BY Steady, Kinds DEF IInv, RouterInv, Detached, TypeOK
<1>1. CASE phase' = "idle" /\ phase # "idle"
  <2>1. Left(savedCount') /\ UNCHANGED cloud
    BY <1>1, Steady
  <2>2. Detached(r)
    BY <2>1, Kinds DEF Detached, Parts
  <2> QED  BY <2>1, <2>2 DEF Left
<1>2. CASE phase = "idle"
  <2>1. Before(r) /\ Detached(r)
    BY <1>0, <1>2, DetachedStep DEF Before
  <2> QED  BY <1>0, <2>1
<1>3. CASE phase' = "apply" /\ phase = "apply"
  <2>1. Moves
    BY <1>3, ApplyStep
  <2>2. r > at' \/ (r = at' /\ step' \in {"create", "lease", "leased", "subnet", "router"})
    BY <1>3 DEF Before
  <2>3. r > at \/ (r = at /\ step \in {"create", "lease", "leased", "subnet", "router", "unmake"})
    BY <1>0, <2>1, <2>2 DEF Moves, Rests, Looks, Waits, Makes, HasSubnet, HasRouter, Numbers,
       Awaits, AllUp, Recreates, Advances, Stops, Made, StepInv, Building, Numbered
  <2>4. r = at => step # "unmake"
    BY <1>0, <2>1, <2>2 DEF Moves, Rests, Looks, Waits, Makes, HasSubnet, HasRouter, Numbers,
       Awaits, AllUp, Recreates, Advances, Stops, Made
  <2>5. Before(r)
    BY <1>3, <2>3, <2>4 DEF Before
  <2>6. Detached(r)
    <3>1. ASSUME ~Detached(r) PROVE FALSE
      <4>1. r = at /\ step = "router" /\ step' # step
        BY <1>0, <2>3, <2>4, <3>1, DetachedStep
      <4> QED  BY <1>0, <2>1, <2>2, <4>1 DEF Moves, Rests, Looks, Waits, Makes, HasSubnet, HasRouter,
         Numbers, Awaits, AllUp, Recreates, Advances, Stops, Made
    <3> QED  BY <3>1
  <2> QED  BY <1>0, <2>5, <2>6
<1>4. CASE phase' = "destroy"
  BY <1>4 DEF Before
<1> QED
  BY <1>1, <1>2, <1>3, <1>4, SessionStep, Steady DEF SessionOK

-----------------------------------------------------------------------------
\* What is there is what has a lease, of whatever state.
LEMMA ThereIs ==
  ASSUME IInv, [Next]_vars, NEW r \in Res, NEW n \in Name
  PROVE  /\ n \in There(r) <=> Lease(r, n) # "none"
         /\ n \in There(r)' <=> Lease(r, n)' # "none"
<1>1. ASSUME cloud \in Cloud, Tied PROVE n \in There(r) <=> Lease(r, n) # "none"
  <2>1. cloud[r][n] \in [lease : {"none", "pending", "active", "error"},
                         parts : SUBSET {"subnet", "router", "attached", "server", "up"}]
    BY <1>1 DEF Cloud
  <2>2. cloud[r][n].lease = "none" => cloud[r][n].parts = {}
    BY <1>1 DEF Tied, Lease, Parts
  <2>3. cloud[r][n] = Nothing <=> cloud[r][n].lease = "none"
    BY <2>1, <2>2 DEF Nothing
  <2> QED  BY <2>3 DEF There, Lease
<1>2. ASSUME cloud' \in Cloud, Tied' PROVE n \in There(r)' <=> Lease(r, n)' # "none"
  <2>1. cloud'[r][n] \in [lease : {"none", "pending", "active", "error"},
                          parts : SUBSET {"subnet", "router", "attached", "server", "up"}]
    BY <1>2 DEF Cloud
  <2>2. cloud'[r][n].lease = "none" => cloud'[r][n].parts = {}
    BY <1>2 DEF Tied, Lease, Parts
  <2>3. cloud'[r][n] = Nothing <=> cloud'[r][n].lease = "none"
    BY <2>1, <2>2 DEF Nothing
  <2> QED  BY <2>3 DEF There, Lease
<1> QED  BY <1>1, <1>2, CloudStep, TiedStep DEF IInv, TypeOK, Cloud, Tied

\* Leases are made one at a time.
LEMMA ThereStep ==
  ASSUME IInv, [Next]_vars, NEW r \in Res, NEW n, n \in There(r)', n \notin There(r)
  PROVE  phase = "apply" /\ step = "lease" /\ r = at /\ n = name
<1>1. n \in Name
  BY DEF There
<1>2. Lease(r, n)' # "none" /\ Lease(r, n) = "none"
  BY <1>1, ThereIs
<1>3. PICK q \in Res, m \in Name : Change(q, m)
  BY <1>2, CloudStep DEF Lease
<1>4. q = r /\ m = n
  BY <1>1, <1>2, <1>3 DEF Change, Only, Same
<1>5. IInv
  OBVIOUS
<1>6. Asked(r, n) \/ Gained(r, n) \/ Taken(r, n)
  BY <1>2, <1>3, <1>4, <1>5 DEF Change, Ended, Booted, Lost, Freed
<1> QED  BY <1>2, <1>6 DEF Asked, Gained, Taken

\* The nodes there are are those that are counted.
LEMMA CountStep ==
  ASSUME IInv, [Next]_vars
  PROVE  CountInv'
<1> SUFFICES ASSUME second' = "node", "nodes" \notin kept'
             PROVE  /\ Uncounted' => There(2)' \subseteq 1..savedCount'
                    /\ Counting' => There(2)' \subseteq 1..config'
  BY DEF CountInv
<1>0. /\ second = "node" /\ "nodes" \notin kept /\ 2 \in Res /\ at \in Res
      /\ Uncounted => There(2) \subseteq 1..savedCount
      /\ Counting => There(2) \subseteq 1..config
      /\ StepInv /\ ~late /\ (step = "idle" <=> phase = "idle") /\ savedCount \in Nat /\ config \in Nat
  BY Steady DEF IInv, CountInv, StepInv, TypeOK, setting, Name
<1>1. There(2) \subseteq Name /\ There(2)' \subseteq Name
  BY DEF There
<1>2. CASE phase' = "idle" /\ phase # "idle"
  <2>1. Left(savedCount') /\ UNCHANGED cloud /\ step' = "idle"
    BY <1>2, Steady
  <2>2. There(2)' = There(2)
    BY <2>1 DEF There
  <2>3. savedCount' \in Nat /\ \A n \in There(2) : ~(n > savedCount')
    BY <1>0, <2>1, Steady DEF Left
  <2>4. There(2)' \subseteq 1..savedCount'
    BY <1>1, <2>2, <2>3 DEF Name
  <2> QED  BY <2>1, <2>4 DEF Counting, Numbered
<1>3. CASE phase = "idle"
  <2>1. There(2)' \subseteq There(2)
    BY <1>0, <1>3, ThereStep
  <2>2. savedCount' = savedCount /\ step' \in {"idle", "create", "unmake"}
    BY <1>0, <1>3, Steady, Starts
  <2> QED  BY <1>0, <1>3, <2>1, <2>2 DEF Uncounted, Counting, Numbered
<1>4. CASE phase' = "apply" /\ phase = "apply"
  <2>1. Moves /\ UNCHANGED <<config, savedCount>>
    BY <1>4, ApplyStep, Steady
  <2>2. Kind(at) = "node" => at = 2
    BY <1>0 DEF Kind
  <2>3. at = 2 => Kind(at) = "node" /\ Names(at) = 1..config
    BY <1>0 DEF Kind, Names
  <2>4. CASE Uncounted'
    <3>1. at = 1 \/ step \in {"create", "unmake"}
      BY <1>0, <1>4, <2>1, <2>4 DEF Uncounted, Moves, Rests, Looks, Waits, Makes, HasSubnet,
         HasRouter, Numbers, Awaits, AllUp, Recreates, Advances, Stops, Made
    <3>2. There(2)' \subseteq There(2)
      BY <1>0, <3>1, ThereStep
    <3>3. ~Counting'
      BY <1>4, <2>4 DEF Uncounted, Counting, Numbered
    <3> QED  BY <1>0, <1>4, <2>1, <3>1, <3>2, <3>3 DEF Uncounted
  <2>5. CASE Counting'
    <3>1. at = 2 /\ at' = 2
      BY <1>0, <2>1, <2>5 DEF Counting, Numbered, Moves, Rests, Looks, Waits, Makes, HasSubnet,
         HasRouter, Numbers, Awaits, AllUp, Recreates, Advances, Stops
    <3>2. CASE Looks
      <4>1. Surplus = {} /\ step = "create"
        BY <2>5, <3>2 DEF Looks, Deletes, Counting, Numbered
      <4>2. (config + 1)..savedCount = {}
        BY <2>3, <3>1, <4>1 DEF Surplus
      <4>3. 1..savedCount \subseteq 1..config
        <5>1. ~(config + 1 <= savedCount)
          BY <1>0, <4>2
        <5> QED  BY <1>0, <5>1
      <4>4. There(2)' \subseteq There(2)
        BY <1>0, <4>1, ThereStep
      <4>5. ~Uncounted'
        BY <1>4, <2>5, <3>1 DEF Uncounted, Counting, Numbered
      <4> QED  BY <1>0, <1>4, <2>1, <4>1, <4>3, <4>4, <4>5 DEF Uncounted
    <3>3. CASE Recreates
      <4>1. There(2) \cap Surplus = {} /\ step = "unmake" /\ Surplus = (config + 1)..savedCount
        BY <1>4, <2>3, <3>1, <3>3 DEF Recreates, Doomed, Surplus
      <4>2. There(2) \subseteq 1..savedCount
        BY <1>0, <1>4, <4>1 DEF Uncounted
      <4>3. ASSUME NEW n \in There(2) PROVE n \in 1..config
        <5>1. n \in 1..savedCount /\ n \notin (config + 1)..savedCount
          BY <4>1, <4>2, <4>3
        <5> QED  BY <1>0, <5>1
      <4>4. There(2)' \subseteq There(2)
        BY <1>0, <4>1, ThereStep
      <4>5. ~Uncounted'
        BY <1>4, <2>5, <3>1 DEF Uncounted, Counting, Numbered
      <4> QED  BY <2>1, <4>3, <4>4, <4>5
    <3>4. CASE ~Looks /\ ~Recreates
      <4>1. Counting
        BY <1>0, <2>1, <2>5, <3>1, <3>4 DEF Counting, Numbered, Moves, Rests, Waits, Makes,
           HasSubnet, HasRouter, Numbers, Awaits, AllUp, Advances, Stops
      <4>2. name \in 1..config
        BY <1>0, <1>4, <2>3, <3>1 DEF StepInv
      <4>3. There(2)' \subseteq There(2) \cup {name}
        BY <1>0, ThereStep
      <4>4. ~Uncounted'
        BY <1>4, <2>5, <3>1 DEF Uncounted, Counting, Numbered
      <4> QED  BY <1>0, <2>1, <4>1, <4>2, <4>3, <4>4
    <3> QED  BY <3>2, <3>3, <3>4
  <2> QED  BY <2>4, <2>5
<1>5. CASE phase' = "destroy"
  <2>1. step' \notin Creating
    BY <1>5, StepStep DEF StepInv
  <2> QED  BY <1>5, <2>1 DEF Uncounted, Counting, Creating
<1> QED
  BY <1>2, <1>3, <1>4, <1>5, SessionStep, Steady DEF SessionOK

\* What a destroy has taken apart stays so.
LEMMA TakenStep ==
  ASSUME IInv, [Next]_vars
  PROVE  DestroyInv'
<1> SUFFICES ASSUME phase' = "destroy" PROVE DestroyInv'
  BY DEF DestroyInv
<1>0. \A r \in Res : Names(r)' = Names(r)
  BY Kinds
<1>1. UNCHANGED saved
  BY Steady
<1>2. Tracked' = Tracked /\ Tracked \subseteq Res
  BY <1>1 DEF Tracked, Saved, IInv, TypeOK, SessionOK
<1>3. CASE phase = "idle"
  <2>1. at' = (IF 2 \in Tracked THEN 2 ELSE 1) /\ step' = "unmake" /\ todo' = Tracked /\ Tracked # {}
    BY <1>3, Starts
  <2>2. at' \in todo' /\ todo' \subseteq 1..at'
    <3>1. CASE 2 \in Tracked
      BY <1>2, <2>1, <3>1
    <3>2. CASE 2 \notin Tracked
      <4>1. \A r \in Res : r = 1 \/ r = 2
        OBVIOUS
      <4>2. Tracked = {1}
        BY <1>2, <2>1, <3>2, <4>1
      <4> QED  BY <2>1, <3>2, <4>2
    <3> QED  BY <3>1, <3>2
  <2> QED  BY <1>2, <2>1, <2>2 DEF DestroyInv
<1>4. CASE phase = "destroy"
  <2>0. /\ step = "unmake" => at \in todo /\ todo \subseteq 1..at
        /\ step = "end" => todo = {}
        /\ step \in {"unmake", "end"}
        /\ failed = {} => \A r \in Tracked \ todo : There(r) \cap Names(r) = {}
        /\ at \in Res
    BY <1>4 DEF IInv, DestroyInv, TypeOK
  <2>1. \A r \in Res : There(r)' \subseteq There(r)
    BY <1>4, ThereStep
  <2>2. CASE UNCHANGED <<step, at, todo, failed>>
    <3>1. failed' = {} => \A r \in Tracked' \ todo' : (There(r) \cap Names(r) = {})'
      BY <1>0, <1>2, <2>0, <2>1, <2>2
    <3> QED  BY <2>0, <2>2, <3>1 DEF DestroyInv
  <2>3. CASE /\ step = "unmake" /\ at' = 1 /\ todo' = todo \ {at}
             /\ step' = IF at = 2 /\ 1 \in todo THEN "unmake" ELSE "end"
             /\ failed' = failed \cup {at} \/ (failed' = failed /\ There(at) \cap Names(at) = {})
    <3>1. failed' = {} => \A r \in Tracked' \ todo' : (There(r) \cap Names(r) = {})'
      BY <1>0, <1>2, <2>0, <2>1, <2>3
    <3>2. step' = "unmake" => at' \in todo' /\ todo' \subseteq 1..at'
      BY <2>0, <2>3
    <3>3. step' = "end" => todo' = {}
      BY <2>0, <2>3
    <3> QED  BY <2>3, <3>1, <3>2, <3>3 DEF DestroyInv
  <2> QED  BY <1>4, <2>2, <2>3, DestroyStep
<1> QED  BY <1>3, <1>4, Steady


\* There is nothing, and nothing has been done.
LEMMA Initially == Init => IInv
<1> SUFFICES ASSUME Init PROVE IInv
  OBVIOUS
<1>1. SessionOK(Facts)
  BY SessionAssumption DEF Init, SessionInit, SessionOK, NoFile, Unknown
<1>2. /\ cloud = [r \in Res |-> [n \in Name |-> Nothing]] /\ 1 \in Name
      /\ \A r \in Res, n \in Name : Parts(r, n) = {} /\ Lease(r, n) = "none"
      /\ \A r \in Res : There(r) = {}
  BY DEF Init, Nothing, Parts, Lease, There, Name
<1>3. /\ step = "idle" /\ phase = "idle" /\ config = 1 /\ savedCount = 0
      /\ at = 1 /\ name = 1 /\ cache = {} /\ kept = {}
      /\ second \in {"network", "node"} /\ first \in BOOLEAN /\ late \in BOOLEAN
      /\ late => second = "network"
  BY DEF Init, SessionInit
<1>4. cloud \in Cloud
  BY <1>2 DEF Cloud, Nothing
<1>5. TypeOK
  BY <1>1, <1>2, <1>3, <1>4 DEF TypeOK, Cloud
<1>6. StepInv /\ CacheInv /\ PartsInv
  BY <1>3 DEF StepInv, CacheInv, PartsInv, Creating, Building, Numbered
<1>7. RouterInv /\ CountInv /\ DestroyInv
  <2>1. \A r \in Res : ~Detached(r)
    BY <1>2 DEF Detached
  <2> QED  BY <1>2, <1>3, <2>1 DEF RouterInv, CountInv, DestroyInv
<1> QED  BY <1>5, <1>6, <1>7 DEF IInv

\* The inductive invariant: types, where the program can be, what create has made,
\* what earlier commands have left, and what a destroy has taken apart.
THEOREM Invariant == Spec => []IInv
<1>1. ASSUME IInv, [Next]_vars PROVE IInv'
  BY <1>1, TypeStep, StepStep, CacheStep, PartsStep, RouterStep, CountStep, TakenStep DEF IInv
<1> QED  BY Initially, <1>1, PTL DEF Spec
-----------------------------------------------------------------------------
\* Every variable keeps its type, and nothing but what has an active lease has
\* parts.
THEOREM TypeCorrect == Spec => []TypeOK
BY Invariant, PTL DEF IInv

\* A destroy that ends well leaves nothing of what the configuration names of the
\* resources it is about.
THEOREM LeavesNothingHolds == Spec => []LeavesNothing
<1>1. IInv => LeavesNothing
  BY DEF IInv, DestroyInv, LeavesNothing
<1> QED  BY <1>1, Invariant, PTL

\* What a step of Spares says.
Spare ==
  phase = "apply" =>
    \A r \in Res : \A n \in Names(r) :
      Lease(r, n) = "active" /\ Lease(r, n)' # "active" => late /\ r = 2

\* Only a delete takes a lease, of surplus nodes or of a network that is late.
LEMMA Sparing ==
  ASSUME IInv, [Next]_vars
  PROVE  Spare
<1> SUFFICES ASSUME phase = "apply", NEW r \in Res, NEW n \in Names(r),
                    Lease(r, n) = "active", Lease(r, n)' # "active"
             PROVE  late /\ r = 2
  BY DEF Spare
<1>1. n \in Name
  BY Named DEF IInv
<1>2. step = "unmake" /\ r = at /\ n \in Doomed
  BY <1>1, Grows
<1>3. Kind(r) = "network"
  <2>1. CASE Kind(r) = "node"
    <3>1. n \in (config + 1)..savedCount
      BY <1>2, <2>1 DEF Doomed, Surplus
    <3>2. n \in 1..config /\ config \in Nat /\ savedCount \in Nat
      BY <2>1 DEF Names, IInv, TypeOK, Name
    <3> QED  BY <3>1, <3>2
  <2> QED  BY <2>1, Kinds
<1> QED  BY <1>2, <1>3 DEF IInv, CacheInv

\* An apply takes down nothing that the configuration asks for, but a network that
\* was not there when added_map was computed.
THEOREM SparesHolds == Spec => Spares
<1>1. IInv /\ [Next]_vars => [Spare]_vars
  BY Sparing
<1> QED  BY <1>1, Invariant, PTL DEF Spec, Spares, Spare

\* What a step of Reported says.
Reporting ==
  \A r \in Res : phase' = "apply" /\ reported'[r] # reported[r] =>
    IF Kind(r) = "network"
    THEN /\ Lease(r, 1) = "active" /\ {"subnet", "router"} \subseteq Parts(r, 1)'
         /\ "attached" \in Parts(r, 1)' \/ "router" \in kept
    ELSE /\ \A n \in 1..config : "up" \in Parts(r, n)
         /\ There(r) \subseteq 1..config \/ "nodes" \in kept

\* A network is reported when its router is found or attached, nodes at the end.
LEMMA ReportStep ==
  ASSUME IInv, [Next]_vars, phase' = "apply", reported' # reported
  PROVE  Built \/ Report
<1>1. CASE UNCHANGED vars \/ Chameleon \/ Edit \/ Create \/ StillPending \/ Leasings \/ Builds
           \/ Server \/ Up
           \/ Unmaking
  BY <1>1 DEF vars, Chameleon, Edit, Create, StillPending, Leasings, LeaseFound, LeasePending, LeaseBroken,
     CreateLease, LeaseActive, Leasing, Builds, Subnet, CreateRouter, Server, Up, Unmaking,
     UnmakePart, UnmakeLease, Unmakes, Goes, session
<1>2. CASE StartApply \/ StartDestroy \/ Raise \/ Interrupt
  BY <1>2 DEF StartApply, StartDestroy, Begins, Raise, Interrupt, Fails
<1>3. CASE EndApply \/ EndDestroy \/ Die
  BY <1>3 DEF EndApply, EndDestroy, Die, SaveApply, SaveDestroy, Dies, Ends
<1>4. CASE Unmade
  BY <1>4 DEF Unmade, session
<1> QED
  BY <1>1, <1>2, <1>3, <1>4, Actions

\* Every step reports what there is.
LEMMA Reports ==
  ASSUME IInv, [Next]_vars
  PROVE  Reporting
<1> SUFFICES ASSUME NEW r \in Res, phase' = "apply", reported'[r] # reported[r]
             PROVE  IF Kind(r) = "network"
                    THEN /\ Lease(r, 1) = "active" /\ {"subnet", "router"} \subseteq Parts(r, 1)'
                         /\ "attached" \in Parts(r, 1)' \/ "router" \in kept
                    ELSE /\ \A n \in 1..config : "up" \in Parts(r, n)
                         /\ There(r) \subseteq 1..config \/ "nodes" \in kept
  BY DEF Reporting
<1>0. /\ reported \in [Res -> SUBSET Facts] /\ at \in Res /\ cloud \in Cloud
      /\ StepInv /\ PartsInv /\ RouterInv /\ CountInv
  BY DEF IInv, TypeOK, SessionOK, Cloud
<1>1. r = at
  <2>1. Built \/ Report
    BY ReportStep
  <2>2. PICK known : reported' = [reported EXCEPT ![at] = known]
    BY <2>1 DEF Built, RouterFound, Attach, NetworkCreated, Succeeds, Report
  <2> QED  BY <1>0, <2>2
<1>2. CASE Built
  <2>1. phase = "apply" /\ step \in {"router", "attach"} /\ Kind(r) = "network" /\ name = 1
    BY <1>0, <1>1, <1>2, Kinds DEF Built, RouterFound, Attach, StepInv, Creating, Building
  <2>2. /\ Lease(r, 1) = "active" /\ "subnet" \in Parts(r, 1)
        /\ step = "attach" => "router" \in Parts(r, 1)
    BY <1>0, <1>1, <2>1 DEF PartsInv, Building
  <2>3. CASE RouterFound
    <3>1. "router" \in Parts(r, 1) /\ Parts(r, 1)' = Parts(r, 1) /\ step = "router"
      BY <1>1, <2>1, <2>3 DEF RouterFound, Has, Parts
    <3>2. "attached" \in Parts(r, 1) \/ "router" \in kept
      BY <1>0, <1>1, <2>1, <3>1 DEF RouterInv, Before, Detached
    <3> QED  BY <2>1, <2>2, <3>1, <3>2
  <2>4. CASE Attach
    <3>1. Parted(r, 1, Parts(r, 1) \cup {"attached"}) /\ step = "attach"
      BY <1>1, <2>1, <2>4 DEF Attach
    <3>2. Parts(r, 1)' = Parts(r, 1) \cup {"attached"}
      <4>1. 1 \in Name
        BY DEF Name
      <4> QED  BY <1>0, <3>1, <4>1 DEF Cloud, Parted, Parts
    <3> QED  BY <2>1, <2>2, <3>1, <3>2
  <2> QED  BY <1>2, <2>3, <2>4 DEF Built
<1>3. CASE Report
  <2>1. phase = "apply" /\ step = "report" /\ Kind(r) = "node" /\ r = 2 /\ second = "node"
        /\ Names(r) = 1..config
    BY <1>0, <1>1, <1>3, Kinds DEF Report, StepInv, Creating, Numbered
  <2>2. \A n \in 1..config : "up" \in Parts(r, n)
    BY <1>0, <1>1, <2>1 DEF PartsInv
  <2>3. There(r) \subseteq 1..config \/ "nodes" \in kept
    BY <1>0, <1>1, <2>1 DEF CountInv, Counting, Numbered
  <2> QED  BY <2>1, <2>2, <2>3
<1> QED  BY <1>2, <1>3, ReportStep

\* A network is reported with a lease, a subnet and a router that is attached unless
\* an earlier command has left it so; nodes when they are up, and no more than the
\* configuration asks for unless an earlier command has left some.
THEOREM ReportedHolds == Spec => Reported
<1>1. IInv /\ [Next]_vars => [Reporting]_vars
  BY Reports
<1> QED  BY <1>1, Invariant, PTL DEF Spec, Reported, Reporting
=============================================================================
