---------------------------- MODULE FabricSlice -----------------------------
(***************************************************************************)
(* The FABRIC provider.  All of its resources live in one slice, which is  *)
(* built locally, submitted once and waited for as a whole, although the   *)
(* controller adds, creates, waits for and deletes them one at a time.     *)
(*                                                                         *)
(* A series of -apply and -destroy commands on one session, seen from this *)
(* provider: the loops of the controller over its resources, the queues of *)
(* module Apply reduced to sets, and the slice at FABRIC, which changes    *)
(* its state by itself.  Other providers are present in that they release  *)
(* pending resources and may need the ones listed in wf.serves.            *)
(***************************************************************************)
EXTENDS Naturals

CONSTANTS
  N,        \* how many resources the provider has
  Layouts,  \* what they are, a set of the records below
  Commands  \* how many commands are run on the session

Res == 1..N

(***************************************************************************)
(* nets    the resources that are networks; the others are nodes           *)
(* link    the networks a node is attached to                              *)
(* waits   the resources with an external dependency                       *)
(* serves  the resources on which some of another provider depend          *)
(***************************************************************************)
LayoutType ==
  [nets : SUBSET Res, link : [Res -> SUBSET Res],
   waits : SUBSET Res, serves : SUBSET Res]

ASSUME FabricAssumption ==
  /\ N \in Nat /\ Commands \in Nat
  /\ \A w \in Layouts :
       /\ w \in LayoutType
       /\ \A r \in Res : w.link[r] \subseteq w.nets \cap 1..(r - 1)
       /\ \A r \in w.nets : w.link[r] = {}

VARIABLES
  wf,        \* the layout
  config,    \* the resources the configuration lists
  fabric,    \* the slice at FABRIC: its state and what it consists of
  saved,     \* the session file, as far as this provider is concerned
  phase,     \* the loop of the controller
  cur,       \* the resource that loop has reached
  step,      \* where in the provider call for cur the program is
  slice,     \* the flags of FabricSlice
  topo,      \* the local copy of the slice, slice_object
  existing,  \* existing_nodes and existing_networks
  listed,    \* provider.nodes and provider.networks
  added,     \* Provider._added
  pending,   \* Provider._pending
  ready,     \* Provider._no_longer_pending
  parked,    \* Provider.pending_internal
  failed,    \* Provider._failed
  reported,  \* the resources creation_details lists as created
  errors,    \* the loop has collected an exception
  todo,      \* resources Controller.destroy has yet to reach
  skip,      \* skip_resources of Controller.destroy
  remaining, \* remaining_resources of Controller.destroy
  last,      \* the last command that ended, and how
  left       \* commands still to come

session == <<wf, config, left>>
loop    == <<phase, cur, step, errors>>
object  == <<slice, topo, existing>>
queues  == <<added, listed, pending, ready, parked>>
results == <<failed, reported>>
destroy == <<todo, skip, remaining>>
vars    == <<session, fabric, saved, loop, object, queues, results, destroy, last>>

Nodes == Res \ wf.nets
Nets  == wf.nets

NoSlice == [state |-> "none", has |-> {}]
NoFile  == [states |-> {}, counted |-> FALSE, failed |-> {}]
\* found: the local object stands for the slice that exists at FABRIC.
Unset   == [found |-> FALSE, created |-> FALSE, modified |-> FALSE,
            submitted |-> FALSE, notified |-> FALSE]

Moving  == {"Configuring", "Modifying"}
Failing == {"StableError", "ModifyError"}

\* What a run goes through: what is configured, and what only has a state.
Planned == config \cup saved.states
Serving == config \cap wf.serves

\* A configuration names the networks its nodes are attached to.
Configs == {c \in SUBSET Res : \A r \in c : wf.link[r] \subseteq c}

(***************************************************************************)
(* FABRIC: a slice that was submitted becomes stable, or fails.            *)
(***************************************************************************)
Settle ==
  /\ fabric.state \in Moving
  /\ fabric' \in [state : IF fabric.state = "Configuring"
                          THEN {"StableOK", "StableError"}
                          ELSE {"StableOK", "ModifyError"},
                  has   : {fabric.has}]
  /\ UNCHANGED <<session, saved, loop, object, queues, results, destroy, last>>

\* The process ends; what it knew is gone.
Ended(command, ok) ==
  /\ phase' = "idle" /\ cur' = 1 /\ step' = "idle" /\ errors' = FALSE
  /\ slice' = Unset /\ topo' = {} /\ existing' = {}
  /\ added' = {} /\ listed' = {} /\ pending' = {} /\ ready' = {} /\ parked' = {}
  /\ failed' = {} /\ reported' = {} /\ todo' = {} /\ skip' = {} /\ remaining' = {}
  /\ last' = [command |-> command, ok |-> ok]
-----------------------------------------------------------------------------
(***************************************************************************)
(* The plan.  FabricProvider._init_slice, at the first validation.         *)
(***************************************************************************)
StartApply ==
  /\ phase = "idle" /\ left > 0
  /\ config' \in Configs
  /\ config' \cup saved.states # {}
  /\ left' = left - 1
  /\ phase' = "init"
  /\ last' = [command |-> "none", ok |-> FALSE]
  /\ UNCHANGED <<wf, fabric, saved, cur, step, errors, object, queues, results,
                 destroy>>

Opened(f, names) ==
  /\ phase = "init"
  /\ phase' = "add"
  /\ slice' = f
  /\ topo' = names /\ existing' = names
  /\ UNCHANGED <<session, saved, cur, step, errors, queues, results, destroy, last>>

\* The slice is there.
InitFound ==
  /\ fabric.state = "StableOK"
  /\ Opened([Unset EXCEPT !.found = TRUE, !.created = TRUE], fabric.has)
  /\ UNCHANGED fabric

\* There is none, or it could not be looked up: any exception is taken for that.
InitNew ==
  /\ Opened([Unset EXCEPT !.found = fabric.state = "none"], {})
  /\ UNCHANGED fabric

\* A slice in error is deleted.
InitReplace ==
  /\ fabric.state \in Failing
  /\ fabric' = NoSlice
  /\ Opened([Unset EXCEPT !.found = TRUE], {})

\* The retries are used up, on a slice that does not settle or on errors: the
\* plan fails and nothing is saved.
InitFails ==
  /\ phase = "init" /\ fabric.state \notin {"none", "StableOK"}
  /\ Ended("apply", FALSE)
  /\ UNCHANGED <<session, fabric, saved>>
-----------------------------------------------------------------------------
(***************************************************************************)
(* FabricSlice.add_resource, for a set of resources: what the slice has    *)
(* already is found there, what is new is put in the local copy.  The flag *)
(* slice_modified is only read of a slice that is there.                   *)
(***************************************************************************)
AddToSlice(rs) ==
  LET new == rs \ existing
  IN  /\ listed' = listed \cup rs
      /\ topo' = topo \cup new
      /\ slice' = [slice EXCEPT !.modified =
                     @ \/ new \cap Nodes # {} \/ (new # {} /\ slice.created)]

\* The networks of a node have been added, the ones in nets included.
Attachable(r, nets) == wf.link[r] \subseteq listed \cup nets

\* Provider.add_resource during the plan; dropped resources have nothing to add.
Add ==
  /\ phase = "add" /\ cur \in Planned
  /\ cur' = cur + 1
  /\ CASE cur \notin config ->
            added' = added \cup {cur} /\ UNCHANGED <<slice, topo, listed, pending, parked>>
       [] cur \in config /\ cur \in wf.waits ->
            pending' = pending \cup {cur} /\ UNCHANGED <<slice, topo, listed, added, parked>>
       [] cur \in config \ wf.waits /\ ~Attachable(cur, {}) ->
            parked' = parked \cup {cur} /\ UNCHANGED <<slice, topo, listed, added, pending>>
       [] OTHER ->
            /\ AddToSlice({cur})
            /\ added' = added \cup {cur}
            /\ UNCHANGED <<pending, parked>>
  /\ UNCHANGED <<session, fabric, saved, phase, step, errors, existing, ready,
                 results, destroy, last>>

\* A resource cannot be built: the plan fails when the others have been added.
AddFails ==
  /\ phase = "add" /\ cur \in config
  /\ Ended("apply", FALSE)
  /\ UNCHANGED <<session, fabric, saved>>
-----------------------------------------------------------------------------
(***************************************************************************)
(* The loops of Controller.apply.                                          *)
(***************************************************************************)
Loops == {"first", "rest", "wait"}

Selected ==
  CASE phase = "first"           -> Serving
    [] phase \in {"rest", "wait"} -> Planned \ Serving
    [] OTHER                     -> Planned

SkipOver ==
  /\ phase \in Loops \cup {"add"} /\ cur \in Res \ Selected /\ step = "idle"
  /\ cur' = cur + 1
  /\ UNCHANGED <<session, fabric, saved, phase, step, errors, object, queues,
                 results, destroy, last>>

NextLoop ==
  /\ phase \in {"add", "first", "rest"} /\ cur = N + 1 /\ ~errors
  /\ phase' = CASE phase = "add" -> "first" [] phase = "first" -> "rest"
                [] phase = "rest" -> "wait"
  /\ cur' = 1
  /\ UNCHANGED <<session, fabric, saved, step, errors, object, queues, results,
                 destroy, last>>

\* Variant of Release: it stays pending.
ReleaseCopy(r) ==
  /\ phase = "first" /\ step = "idle" /\ r \in pending \ ready
  /\ r \in Serving => cur <= r
  /\ ready' = ready \cup {r}
  /\ UNCHANGED <<session, fabric, saved, loop, object, added, listed, pending,
                 parked, results, destroy, last>>

\* A resource of another provider that r waits for is created: in the first
\* loop, and before the turn of r, because the list is in order.
Release(r) ==
  /\ phase = "first" /\ step = "idle" /\ r \in pending
  /\ r \in Serving => cur <= r
  /\ pending' = pending \ {r}
  /\ ready' = ready \cup {r}
  /\ UNCHANGED <<session, fabric, saved, loop, object, added, listed, parked,
                 results, destroy, last>>

\* reconcile_states.  Other providers may have created something or not.
Save(rep, bad) ==
  saved' \in
    [states  : {rep \cup (IF saved.counted /\ ~(Planned \subseteq config /\ rep = Planned)
                          THEN saved.states ELSE {})},
     counted : {TRUE} \cup {rep # {}},
     failed  : {bad}]

EndApply ==
  /\ phase \in Loops /\ cur = N + 1
  /\ errors \/ phase = "wait"
  /\ Save(reported, failed)
  /\ Ended("apply", ~errors /\ failed = {} /\ pending = {} /\ parked = {})
  /\ UNCHANGED <<session, fabric>>

Returns(s) ==
  /\ IF s = "idle" THEN cur' = cur + 1 ELSE UNCHANGED cur
  /\ step' = s
  /\ UNCHANGED <<phase, errors>>

Raised ==
  /\ cur' = cur + 1 /\ step' = "idle" /\ errors' = TRUE
  /\ UNCHANGED phase

\* The provider marks the resource it was called for.
CallRaises ==
  /\ Raised
  /\ failed' = failed \cup {cur}
-----------------------------------------------------------------------------
(***************************************************************************)
(* Provider.create_resource: what has been released is added, with the     *)
(* nodes that were parked behind it; any of it may fail.                   *)
(***************************************************************************)
Tried == IF ready = {} THEN {} ELSE ready \cup parked

CanAdd(bad) == {r \in Tried \ bad : Attachable(r, (ready \cap Nets) \ bad)}

Failures == {bad \in SUBSET Tried : \A r \in bad : Attachable(r, (ready \cap Nets) \ bad)}

Drain ==
  /\ phase \in {"first", "rest"} /\ cur \in Selected /\ step = "idle"
  /\ \E bad \in Failures :
       LET good == CanAdd(bad)
       IN  /\ cur \notin ready \cap bad
           /\ AddToSlice(good)
           /\ added' = added \cup good
           /\ ready' = ready \cap bad
           /\ parked' = (parked \cup ready) \ (good \cup bad)
           /\ failed' = failed \cup bad
           /\ Returns(IF cur \in added \cup good THEN "create" ELSE "idle")
  /\ UNCHANGED <<session, fabric, saved, existing, pending, reported, destroy, last>>

\* The failure is the one of cur: what has not been tried yet is lost.
DrainRaises ==
  /\ phase \in {"first", "rest"} /\ cur \in Selected \cap ready /\ step = "idle"
  /\ \E bad \in Failures : \E good \in SUBSET CanAdd(bad) :
       /\ cur \in bad
       /\ AddToSlice(good)
       /\ added' = added \cup good
       /\ ready' = ready \cap bad
       /\ parked' = parked \ (good \cup bad)
       /\ failed' = failed \cup bad
       /\ Raised
  /\ UNCHANGED <<session, fabric, saved, existing, pending, reported, destroy, last>>
-----------------------------------------------------------------------------
(***************************************************************************)
(* FabricSlice.create_resource.                                            *)
(***************************************************************************)
Creating == step = "create"

\* Variant of Obsolete: networks stay.
ObsoleteNodes == (existing \ listed) \cap Nodes

\* What the slice has and nobody has added is to be removed.
Obsolete == existing \ listed

\* Among the networks there are, those of an obsolete node are found through its
\* saved state.
Untraceable == {r \in Obsolete \cap Nodes : listed \cap Nets # {} /\ r \notin saved.states}

\* A new network next to one that was there is looked up among the nodes.
Mistaken == /\ listed \cap existing \cap Nets # {}
            /\ (listed \ existing) \cap Nets # {}

\* Variant of Submittable: the resources that wait are not waited for.
SubmittablePending == failed = {} /\ ~slice.submitted

Submittable == failed = {} /\ pending = {} /\ ~slice.submitted

Refuse ==
  /\ Creating /\ failed # {}
  /\ CallRaises
  /\ UNCHANGED <<session, fabric, saved, object, queues, reported, destroy, last>>

AfterCreate == IF phase = "first" THEN "await" ELSE "idle"

\* Something is pending, or the slice has been submitted: nothing is done.
HoldBack ==
  /\ Creating /\ failed = {} /\ ~Submittable
  /\ Returns(AfterCreate)
  /\ UNCHANGED <<session, fabric, saved, object, queues, results, destroy, last>>

\* KeyError, after some of what is obsolete has been removed.
KeyError ==
  /\ Creating /\ Submittable /\ slice.created
  /\ \E gone \in SUBSET Obsolete :
       /\ topo' = topo \ gone
       /\ slice' = [slice EXCEPT !.modified = @ \/ gone # {}]
       /\ \/ Untraceable # {} /\ Untraceable \cap gone = {} /\ gone \subseteq Nodes
          \/ Untraceable = {} /\ Mistaken /\ gone = Obsolete
  /\ CallRaises
  /\ UNCHANGED <<session, fabric, saved, existing, queues, reported, destroy, last>>

Removing == IF slice.created THEN Obsolete ELSE {}
Modified == slice.modified \/ Removing # {}
Sound    == slice.created => Untraceable = {} /\ ~Mistaken

Unchanged ==
  /\ Creating /\ Submittable /\ Sound /\ slice.created /\ ~Modified
  /\ Returns(AfterCreate)
  /\ UNCHANGED <<session, fabric, saved, object, queues, results, destroy, last>>

\* FABRIC accepts the slice, unless it has one of that name already.
Accepted ==
  /\ slice.found
  /\ fabric' = [state |-> IF slice.created THEN "Modifying" ELSE "Configuring",
                has   |-> topo \ Removing]

Submit ==
  /\ Creating /\ Submittable /\ Sound /\ (slice.created => Modified)
  /\ topo' = topo \ Removing
  /\ \/ /\ Accepted
        /\ slice' = [slice EXCEPT !.modified = Modified, !.submitted = TRUE]
        /\ Returns(AfterCreate)
        /\ UNCHANGED failed
     \* the call raises, whether it reached FABRIC or not
     \/ /\ Accepted \/ UNCHANGED fabric
        /\ slice' = [slice EXCEPT !.modified = Modified]
        /\ CallRaises
  /\ UNCHANGED <<session, saved, existing, queues, reported, destroy, last>>
-----------------------------------------------------------------------------
(***************************************************************************)
(* FabricSlice.wait_for_create_resource.                                   *)
(***************************************************************************)
EnterWait ==
  /\ phase = "wait" /\ cur \in Selected /\ step = "idle"
  /\ Returns(IF cur \in added THEN "await" ELSE "idle")
  /\ UNCHANGED <<session, fabric, saved, object, queues, results, destroy, last>>

Steady == slice.created /\ ~slice.modified

\* Networking is set up on every node; every resource is looked up by its name.
Networked == listed \subseteq fabric.has

\* The slice needed nothing: everything in it is reported, once.
ReportExisting ==
  /\ step = "await" /\ Steady /\ ~slice.notified /\ Networked
  /\ reported' = reported \cup listed
  /\ slice' = [slice EXCEPT !.notified = TRUE]
  /\ Returns("idle")
  /\ UNCHANGED <<session, fabric, saved, topo, existing, queues, failed, destroy, last>>

AlreadyReported ==
  /\ step = "await" /\ Steady /\ slice.notified
  /\ Returns("idle")
  /\ UNCHANGED <<session, fabric, saved, object, queues, results, destroy, last>>

\* "Please Apply again"
NetworkingFails ==
  /\ step = "await" /\ Steady /\ ~slice.notified
  /\ CallRaises
  /\ UNCHANGED <<session, fabric, saved, object, queues, reported, destroy, last>>

\* The wait is over, which is remembered whatever happens next.
Stable ==
  /\ step = "await" /\ ~Steady
  /\ slice.found /\ fabric.state = "StableOK"
  /\ existing' = (listed \cap Nodes) \cup (fabric.has \cap Nets)

\* Variant of ReportNew: what was added is reported without a look at the slice.
ReportAll ==
  /\ Stable
  /\ reported' = reported \cup listed
  /\ slice' = [slice EXCEPT !.created = TRUE, !.modified = FALSE, !.notified = TRUE]
  /\ Returns("idle")
  /\ UNCHANGED <<session, fabric, saved, topo, queues, failed, destroy, last>>

ReportNew ==
  /\ Stable /\ Networked
  /\ reported' = reported \cup listed
  /\ slice' = [slice EXCEPT !.created = TRUE, !.modified = FALSE, !.notified = TRUE]
  /\ Returns("idle")
  /\ UNCHANGED <<session, fabric, saved, topo, queues, failed, destroy, last>>

NewNetworkingFails ==
  /\ Stable
  /\ slice' = [slice EXCEPT !.created = TRUE, !.modified = FALSE]
  /\ CallRaises
  /\ UNCHANGED <<session, fabric, saved, topo, queues, reported, destroy, last>>

\* The slice is in error, does not settle in time, or was never submitted.
WaitFails ==
  /\ step = "await" /\ ~Steady
  /\ ~slice.found \/ fabric.state # "StableOK"
  /\ CallRaises
  /\ UNCHANGED <<session, fabric, saved, object, queues, reported, destroy, last>>

\* Nodes are reported before networks: an interrupt may come in between.
Cut(S) == S \cap Nets # {} => listed \cap Nodes \subseteq S

Interrupt ==
  /\ phase \in Loops
  /\ \E S \in SUBSET (IF step = "await" /\ fabric.state = "StableOK" /\ Networked
                      THEN listed ELSE {}) :
       /\ Cut(S)
       /\ Save(reported \cup S, failed \cup (IF step = "idle" THEN {} ELSE {cur}))
  /\ Ended("apply", FALSE)
  /\ UNCHANGED <<session, fabric>>

Kill ==
  /\ phase \in Loops \cup {"init", "add"}
  /\ Ended("apply", FALSE)
  /\ UNCHANGED <<session, fabric, saved>>
-----------------------------------------------------------------------------
(***************************************************************************)
(* Controller.destroy, on the resources of this provider, backwards.  What *)
(* undeleted resources of other providers need is in skip_resources.       *)
(***************************************************************************)
StartDestroy ==
  /\ phase = "idle" /\ left > 0
  /\ config' \in Configs
  /\ left' = left - 1
  /\ phase' = "destroy"
  /\ todo' = config' \cap (saved.states \cup saved.failed)
  /\ skip' \in SUBSET (config' \cap wf.serves \cap saved.states)
  /\ last' = [command |-> "none", ok |-> FALSE]
  \* init_slice: any exception is taken for a slice that is not there
  /\ \E seen \in {fabric.state # "none", FALSE} :
       /\ slice' = [Unset EXCEPT !.found = seen]
       /\ existing' = IF seen /\ fabric.state = "StableOK" THEN fabric.has ELSE {}
  /\ UNCHANGED <<wf, fabric, saved, cur, step, errors, topo, queues, results,
                 remaining>>

Backwards(r) == phase = "destroy" /\ r \in todo /\ \A s \in todo : s <= r

Spare(r) ==
  /\ Backwards(r) /\ r \in skip
  /\ todo' = todo \ {r}
  /\ remaining' = remaining \cup {r}
  /\ UNCHANGED <<session, fabric, saved, loop, object, queues, results, skip, last>>

\* A node of a slice with networks is left to the deletion of a network.
Leave(r) ==
  /\ Backwards(r) /\ r \notin skip
  /\ (r \in Nodes /\ existing \cap Nets # {}) \/ ~slice.found
  /\ todo' = todo \ {r}
  /\ UNCHANGED <<session, fabric, saved, loop, object, queues, results, skip,
                 remaining, last>>

\* The whole slice goes.
Delete(r) ==
  /\ Backwards(r) /\ r \notin skip
  /\ ~(r \in Nodes /\ existing \cap Nets # {}) /\ slice.found
  /\ todo' = todo \ {r}
  /\ \/ /\ fabric' = NoSlice
        /\ slice' = Unset
        /\ UNCHANGED <<failed, remaining>>
     \/ /\ fabric' \in {fabric, NoSlice}
        /\ failed' = failed \cup {r}
        /\ remaining' = remaining \cup {r}
        /\ UNCHANGED slice
  /\ UNCHANGED <<session, saved, loop, topo, existing, queues, reported, skip, last>>

EndDestroy ==
  /\ phase = "destroy" /\ todo = {}
  /\ saved' = IF remaining = {} THEN NoFile
              ELSE [states |-> remaining \cap saved.states, failed |-> failed,
                    counted |-> saved.counted]
  /\ Ended("destroy", failed = {})
  /\ UNCHANGED <<session, fabric>>

StopDestroy ==
  /\ phase = "destroy"
  /\ Ended("destroy", FALSE)
  /\ UNCHANGED <<session, fabric, saved>>
-----------------------------------------------------------------------------
Init ==
  /\ wf \in Layouts
  /\ config = {} /\ fabric = NoSlice /\ saved = NoFile
  /\ phase = "idle" /\ cur = 1 /\ step = "idle" /\ errors = FALSE
  /\ slice = Unset /\ topo = {} /\ existing = {}
  /\ added = {} /\ listed = {} /\ pending = {} /\ ready = {} /\ parked = {}
  /\ failed = {} /\ reported = {} /\ todo = {} /\ skip = {} /\ remaining = {}
  /\ last = [command |-> "none", ok |-> FALSE]
  /\ left = Commands

Plans    == StartApply \/ InitFound \/ InitNew \/ InitReplace \/ InitFails \/ Add \/ AddFails
Controls == SkipOver \/ NextLoop \/ EndApply \/ Interrupt \/ Kill
Creates  == Drain \/ DrainRaises \/ Refuse \/ HoldBack \/ KeyError \/ Unchanged \/ Submit
Waits    == EnterWait \/ ReportExisting \/ AlreadyReported \/ NetworkingFails
              \/ ReportNew \/ NewNetworkingFails \/ WaitFails
Destroys == StartDestroy \/ EndDestroy \/ StopDestroy

Next ==
  \/ Settle \/ Plans \/ Controls \/ Creates \/ Waits \/ Destroys
  \/ \E r \in Res : Release(r) \/ Spare(r) \/ Leave(r) \/ Delete(r)

Spec == Init /\ [][Next]_vars
-----------------------------------------------------------------------------
(***************************************************************************)
(* Properties.                                                             *)
(***************************************************************************)

\* The types of the variables; a resource is in one queue at most.
TypeOK ==
  /\ wf \in Layouts /\ config \in Configs /\ left \in 0..Commands
  /\ fabric.state \in {"none", "StableOK"} \cup Moving \cup Failing
  /\ saved \in [states : SUBSET Res, counted : BOOLEAN, failed : SUBSET Res]
  /\ phase \in {"idle", "init", "add", "destroy"} \cup Loops
  /\ cur \in 1..(N + 1) /\ step \in {"idle", "create", "await"} /\ errors \in BOOLEAN
  /\ slice \in [found : BOOLEAN, created : BOOLEAN, modified : BOOLEAN,
                submitted : BOOLEAN, notified : BOOLEAN]
  /\ \A S \in {fabric.has, topo, existing, added, listed, pending, ready, parked,
               failed, reported, todo, skip, remaining} : S \subseteq Res
  /\ \A S \in {added, pending, ready} : S \cap parked = {}
  /\ added \cap (pending \cup ready) = {} /\ pending \cap ready = {}

\* A resource is reported as created, and remembered by the session and handed
\* to what depends on it, only if it is in the slice at FABRIC: not if it was
\* added too late for the request, or to a slice that was not submitted.
ReportedExists == reported \subseteq fabric.has

\* Whatever is pending, parked, lost or fails to be added, an apply takes nothing
\* from a working slice that the configuration still lists.
KeepsConfigured ==
  [][(phase = "init" /\ fabric.state \notin Failing) \/ phase \in Loops
       => fabric.has \cap config \subseteq fabric'.has]_vars

\* After an apply that succeeds the slice is stable and consists of what the
\* configuration lists, whatever the commands before it left behind.
MatchesConfig ==
  last = [command |-> "apply", ok |-> TRUE] =>
    fabric.state = "StableOK" /\ fabric.has = config
=============================================================================
