------------------------------ MODULE ChiLease ------------------------------
(***************************************************************************)
(* The Chameleon provider.  Whatever has a name has a lease of its own: a  *)
(* network gets a subnet and a router that is attached to it, a node gets  *)
(* a server.  Each is looked up first and made if it is not there.         *)
(*                                                                         *)
(* Resource 1 is a network.  Resource 2 is a second network, which may     *)
(* have to wait for a provider that needs the first one, or it is nodes,   *)
(* whose number the user may change.                                       *)
(*                                                                         *)
(* Chameleon starts leases and servers by itself; leases end while no      *)
(* command runs, and take what they are for along.  Any call may raise.    *)
(***************************************************************************)
EXTENDS ProviderSession

CONSTANT MaxCount  \* how many nodes the user asks for, at most

ASSUME ChiAssumption == N = 2 /\ MaxCount \in Nat \ {0}

VARIABLES
  second,      \* what resource 2 is: "network" or "node"
  first,       \* another provider needs resource 1
  late,        \* resource 2 waits for that provider
  cloud,       \* by resource and number: lease, and the parts there are
  config,      \* RES_COUNT of the nodes
  savedCount,  \* total_count in the session file, 0 without a file
  step,        \* where in create, wait or delete the program is
  at,          \* the resource it is about
  name,        \* the number of the node that is being created
  cache,       \* added_map, by resource, {} before it is computed
  kept         \* what commands have left: "nodes" beyond those the file counts,
               \* and a "router" that is not attached

setting == <<second, first, late>>
control == <<config, savedCount>>
place   == <<at, name, cache>>
vars    == <<session, setting, cloud, control, step, place, kept>>

Name  == 1..MaxCount
Facts == [upto : Name]

Nothing == [lease |-> "none", parts |-> {}]
Kind(r) == IF r = 1 THEN "network" ELSE second
Names(r) == IF Kind(r) = "node" THEN 1..config ELSE {1}
There(r) == {n \in Name : cloud[r][n] # Nothing}
Least(ns) == CHOOSE n \in ns : \A m \in ns : n <= m

Lease(r, n) == cloud[r][n].lease
Parts(r, n) == cloud[r][n].parts
Leased(r, n, lease) == cloud' = [cloud EXCEPT ![r][n].lease = lease]
Parted(r, n, parts) == cloud' = [cloud EXCEPT ![r][n].parts = parts]

Detached(r) ==
  Kind(r) = "network" /\ "router" \in Parts(r, 1) /\ "attached" \notin Parts(r, 1)

Left(count) ==
  kept' = kept \cup (IF second = "node" /\ \E n \in There(2) : n > count
                     THEN {"nodes"} ELSE {})
               \cup (IF \E r \in Res : Detached(r) THEN {"router"} ELSE {})
-----------------------------------------------------------------------------
(***************************************************************************)
(* Chameleon.                                                              *)
(***************************************************************************)
Chameleon ==
  /\ \E r \in Res, n \in Name :
       \/ Lease(r, n) = "pending" /\ \E s \in {"active", "error"} : Leased(r, n, s)
       \/ Parts(r, n) = {"server"} /\ Parted(r, n, {"server", "up"})
       \/ /\ phase = "idle" /\ Lease(r, n) = "active"
          /\ cloud' = [cloud EXCEPT ![r][n] = [lease |-> "error", parts |-> {}]]
  /\ UNCHANGED <<session, setting, control, step, place, kept>>
-----------------------------------------------------------------------------
(***************************************************************************)
(* User, controller and provider.                                          *)
(***************************************************************************)
Edit ==
  /\ phase = "idle" /\ second = "node"
  /\ config' \in Name \ {config}
  /\ UNCHANGED <<session, setting, cloud, savedCount, step, place, kept>>

StartApply ==
  /\ Begins("apply", Res)
  /\ step' = "create" /\ at' = 1 /\ name' = 1 /\ cache' = {}
  /\ UNCHANGED <<setting, cloud, control, kept>>

StartDestroy ==
  /\ Tracked # {} /\ Begins("destroy", Tracked)
  /\ step' = "unmake" /\ at' = IF 2 \in Tracked THEN 2 ELSE 1
  /\ UNCHANGED <<setting, cloud, control, name, cache, kept>>

\* The controller goes on with the next resource, which comes before in a destroy.
GoesOn(ok) ==
  /\ IF phase = "apply"
     THEN /\ step' = IF at = 1 /\ (ok \/ ~first) THEN "create"
                     ELSE IF at = 2 /\ second = "node" /\ ok /\ failed = {} /\ step # "report"
                     THEN "wait" ELSE "end"
          /\ at' = IF at = 1 /\ (ok \/ ~first) THEN 2 ELSE at
          /\ name' = 1
     ELSE /\ step' = IF at = 2 /\ 1 \in todo THEN "unmake" ELSE "end"
          /\ at' = 1 /\ UNCHANGED name
  /\ UNCHANGED <<setting, control, cache, kept>>

\* The resource at hand fails.
Raise ==
  /\ step \notin {"idle", "end", "create"} /\ Fails(at) /\ GoesOn(FALSE)
  /\ UNCHANGED cloud

\* The user interrupts an apply, which ends then.
Interrupt ==
  /\ phase = "apply" /\ step # "end" /\ Fails(at) /\ step' = "end"
  /\ UNCHANGED <<setting, cloud, control, place, kept>>

EndApply ==
  /\ phase = "apply" /\ step = "end" /\ SaveApply(failed = {} /\ todo = {})
  /\ savedCount' = config /\ step' = "idle" /\ Left(config)
  /\ UNCHANGED <<setting, cloud, config, place>>

EndDestroy ==
  /\ step = "end" /\ SaveDestroy
  /\ savedCount' = (IF failed = {} THEN 0 ELSE savedCount)
  /\ step' = "idle" /\ Left(savedCount')
  /\ UNCHANGED <<setting, cloud, config, place>>

Die ==
  /\ Dies /\ step' = "idle" /\ Left(savedCount)
  /\ UNCHANGED <<setting, cloud, control, place>>
-----------------------------------------------------------------------------
Goes(from, to) ==
  /\ phase = "apply" /\ step = from /\ step' = to
  /\ UNCHANGED <<session, setting, control, at, cache, kept>>

(***************************************************************************)
(* do_create_resource.                                                     *)
(***************************************************************************)
Added == IF late /\ at = 1 THEN {1} ELSE Res

\* _compute_added_map: once, and only if there is a saved state.
Computed == IF savedCount # 0 /\ cache = {} THEN Added ELSE cache

\* Variant of Surplus: nodes beyond those asked for stay.
NoSurplus == {}

\* The nodes of existing_map that are not in added_map.
Surplus == IF Kind(at) = "node" THEN (config + 1)..savedCount ELSE {}

\* The network is in existing_map and not in added_map, or nodes are.
Deletes(added) == (savedCount # 0 /\ at \notin added) \/ Surplus # {}

Create ==
  /\ phase = "apply" /\ step = "create"
  /\ cache' = Computed
  /\ step' = IF Deletes(cache') THEN "unmake" ELSE "lease"
  /\ UNCHANGED <<session, setting, cloud, control, at, name, kept>>

\* What still waits for another provider is passed over, which is no failure of its
\* own.
StillPending ==
  /\ Goes("create", "end") /\ late /\ at = 2
  /\ UNCHANGED <<cloud, name>>

(***************************************************************************)
(* LeaseHelper.create_lease_if_needed.                                     *)
(***************************************************************************)
Leasing(to) == Goes("lease", to) /\ UNCHANGED name

Made == IF Kind(at) = "node" THEN "server" ELSE "subnet"

LeaseFound   == Leasing(Made) /\ Lease(at, name) = "active" /\ UNCHANGED cloud
LeasePending == Leasing("leased") /\ Lease(at, name) = "pending" /\ UNCHANGED cloud
LeaseBroken  == Leasing("lease") /\ Lease(at, name) = "error" /\ Leased(at, name, "none")
CreateLease  == Leasing("leased") /\ Lease(at, name) = "none" /\ Leased(at, name, "pending")

LeaseActive ==
  /\ Goes("leased", Made) /\ Lease(at, name) = "active"
  /\ UNCHANGED <<cloud, name>>

(***************************************************************************)
(* ChiNetwork.create.                                                      *)
(***************************************************************************)
Has(part) == part \in Parts(at, name)
Adds(part) == Parted(at, name, Parts(at, name) \cup {part}) /\ UNCHANGED name
Finds(part) == Has(part) /\ UNCHANGED <<cloud, name>>

Subnet ==
  \/ Goes("subnet", "router") /\ Finds("subnet")
  \/ Goes("subnet", "router") /\ ~Has("subnet") /\ Adds("subnet")

NetworkCreated ==
  /\ Succeeds(at, [upto |-> 1]) /\ GoesOn(TRUE)

\* A router that is there is taken to be attached.
RouterFound ==
  /\ step = "router" /\ Has("router")
  /\ NetworkCreated /\ UNCHANGED cloud

CreateRouter == Goes("router", "attach") /\ ~Has("router") /\ Adds("router")

Attach ==
  /\ step = "attach"
  /\ NetworkCreated /\ Parted(at, name, Parts(at, name) \cup {"attached"})

(***************************************************************************)
(* ChiNode.create, one after the other, then the wait for all of them.     *)
(***************************************************************************)
NextNode ==
  IF name < config
  THEN /\ step' = "lease" /\ name' = name + 1
       /\ UNCHANGED <<setting, control, at, cache, kept>>
  ELSE GoesOn(TRUE)

Server ==
  /\ step = "server" /\ NextNode
  /\ IF Has("server") THEN UNCHANGED cloud
     ELSE Parted(at, name, Parts(at, name) \cup {"server"})
  /\ UNCHANGED session

Up ==
  /\ Goes("wait", "report") /\ name' = 1
  /\ \A n \in 1..config : "up" \in Parts(at, n)
  /\ UNCHANGED cloud

\* wait_for_ssh and on_created, for one node after the other.
Report ==
  /\ step = "report"
  /\ reported' = [reported EXCEPT ![at] = {[upto |-> name]}]
  /\ UNCHANGED <<failed, cloud>>
  /\ IF name < config
     THEN /\ name' = name + 1
          /\ UNCHANGED <<phase, todo, saved, last, left, setting, control, step, at, cache, kept>>
     ELSE Reached(at) /\ GoesOn(TRUE)

(***************************************************************************)
(* ChiNetwork.delete and ChiNode.delete: parts in order, then the lease.   *)
(* In an apply that is the network added_map lacks, or surplus nodes.      *)
(***************************************************************************)
\* Variant of Doomed: added_map is not looked at for nodes.
DoomedExisting ==
  There(at) \cap IF phase = "apply" /\ Kind(at) = "node" THEN 1..savedCount ELSE Names(at)

\* Variant of Doomed: the names of all nodes but the first are forgotten.
DoomedFirst ==
  There(at) \cap IF phase = "apply" /\ Kind(at) = "node" THEN Surplus ELSE {1}

Doomed ==
  There(at) \cap IF phase = "apply" /\ Kind(at) = "node" THEN Surplus ELSE Names(at)

Unmakes ==
  /\ step = "unmake" /\ Doomed # {}
  /\ UNCHANGED <<session, setting, control, step, place, kept>>

UnmakePart ==
  /\ Unmakes
  /\ LET n == Least(Doomed)
         p == Parts(at, n)
     IN  /\ p # {}
         /\ Parted(at, n, IF "attached" \in p THEN p \ {"attached"}
                          ELSE IF "router" \in p THEN p \ {"router"} ELSE {})

\* Variant of UnmakeLease: the lease comes first.
UnmakeLeaseFirst ==
  /\ Unmakes
  /\ Leased(at, Least(Doomed), "none")

UnmakeLease ==
  /\ Unmakes
  /\ LET n == Least(Doomed) IN Parts(at, n) = {} /\ Leased(at, n, "none")

\* Nodes are created next; a network is not, nor is it reported.
Unmade ==
  /\ step = "unmake" /\ Doomed = {} /\ UNCHANGED cloud
  /\ IF phase = "apply" /\ Kind(at) = "node"
     THEN step' = "lease" /\ UNCHANGED <<session, setting, control, place, kept>>
     ELSE Reached(at) /\ UNCHANGED <<reported, failed>> /\ GoesOn(TRUE)
-----------------------------------------------------------------------------
Init ==
  /\ SessionInit
  /\ second \in {"network", "node"} /\ first \in BOOLEAN
  /\ late \in IF first /\ second = "network" THEN BOOLEAN ELSE {FALSE}
  /\ cloud = [r \in Res |-> [n \in Name |-> Nothing]]
  /\ config = 1 /\ savedCount = 0
  /\ step = "idle" /\ at = 1 /\ name = 1 /\ cache = {} /\ kept = {}

Next ==
  \/ Chameleon \/ Edit
  \/ StartApply \/ StartDestroy \/ Raise \/ Interrupt \/ EndApply \/ EndDestroy \/ Die
  \/ Create \/ StillPending
  \/ LeaseFound \/ LeasePending \/ LeaseBroken \/ CreateLease \/ LeaseActive
  \/ Subnet \/ RouterFound \/ CreateRouter \/ Attach \/ Server \/ Up \/ Report
  \/ UnmakePart \/ UnmakeLease \/ Unmade

Spec == Init /\ [][Next]_vars
-----------------------------------------------------------------------------
(***************************************************************************)
(* Types, and that nothing but what is leased has parts while a command is *)
(* not taking it apart.                                                    *)
(***************************************************************************)
TypeOK ==
  /\ SessionOK(Facts)
  /\ second \in {"network", "node"} /\ first \in BOOLEAN /\ late \in BOOLEAN
  /\ cloud \in [Res -> [Name ->
       [lease : {"none", "pending", "active", "error"},
        parts : SUBSET {"subnet", "router", "attached", "server", "up"}]]]
  /\ \A r \in Res, n \in Name : Parts(r, n) # {} => Lease(r, n) = "active"
  /\ config \in Name /\ savedCount \in 0..MaxCount
  /\ step \in {"idle", "end", "create", "lease", "leased", "subnet", "router", "attach",
               "server", "wait", "report", "unmake"}
  /\ step = "idle" <=> phase = "idle"
  /\ at \in Res /\ name \in Name /\ cache \subseteq Res /\ kept \subseteq {"nodes", "router"}

(***************************************************************************)
(* A network is reported with an active lease, a subnet and a router, and  *)
(* the router is attached, unless a command has been cut short between     *)
(* router and attachment: create does not attach a router that it finds.   *)
(* Nodes are reported once all of them are up, and then there are no more  *)
(* than the configuration asks for, unless a command has left some that    *)
(* the counts of the session file do not cover.                            *)
(***************************************************************************)
Reported ==
  [][\A r \in Res : phase' = "apply" /\ reported'[r] # reported[r] =>
       IF Kind(r) = "network"
       THEN /\ Lease(r, 1) = "active" /\ {"subnet", "router"} \subseteq Parts(r, 1)'
            /\ "attached" \in Parts(r, 1)' \/ "router" \in kept
       ELSE /\ \A n \in 1..config : "up" \in Parts(r, n)
            /\ There(r) \subseteq 1..config \/ "nodes" \in kept]_vars

(***************************************************************************)
(* A destroy that ends well leaves nothing of what the configuration names *)
(* of the resources it is about.                                           *)
(***************************************************************************)
LeavesNothing ==
  phase = "destroy" /\ step = "end" /\ failed = {} =>
    \A r \in Tracked : There(r) \cap Names(r) = {}

(***************************************************************************)
(* An apply takes down nothing that is up and that the configuration asks  *)
(* for, but a network that was not there when added_map was computed: it   *)
(* waits for another provider, and the map is never computed again.        *)
(***************************************************************************)
Spares ==
  [][phase = "apply" =>
       \A r \in Res : \A n \in Names(r) :
         Lease(r, n) = "active" /\ Lease(r, n)' # "active" => late /\ r = 2]_vars
=============================================================================
