------------------------------- MODULE Apply --------------------------------
(***************************************************************************)
(* `fabfed workflow -apply' on a session with no saved resources: the add  *)
(* and apply phases of the Controller, the queues each Provider keeps for  *)
(* resources whose dependencies are not resolved yet, and the creation     *)
(* events the ControllerResourceListener delivers to the providers.  The   *)
(* program is one thread; what is nondeterministic is the workflow, which  *)
(* provider calls fail, and when the user interrupts.                      *)
(***************************************************************************)
EXTENDS Workflow, FiniteSets, Sequences

VARIABLES
  wf,          \* the workflow, fixed from the start
  phase,       \* the loop the controller is in
  cur,         \* the resource that loop has reached, N + 1 when it is over
  step,        \* where in the provider call for cur the program is
  errors,      \* the exceptions the loop has collected are not empty
  added,       \* Provider._added, over all providers
  pending,     \* Provider._pending, over all providers
  ready,       \* Provider._no_longer_pending
  draining,    \* temp_no_longer_pending, the list create_resource empties
  parked,      \* Provider.pending_internal
  retrying,    \* temp, the parked resources create_resource tries again
  heard,       \* pending resources the current creation event has yet to reach
  got,         \* got[r][d]: values r has collected for its dependency on d
  made,        \* how many names creation_details lists for a resource
  failed,      \* Provider._failed, over all providers
  failedCount, \* creation_details[label]['failed_count']
  broken,      \* workflow_failed
  exit         \* the exit status of the command and whether it saved states

control == <<phase, cur, step, errors>>
queues  == <<added, pending, ready, draining, parked, retrying>>
values  == <<heard, got, made>>
faults  == <<failed, failedCount>>
outcome == <<broken, exit>>
vars    == <<wf, control, queues, values, faults, outcome>>

Phases == {"validate", "add", "first", "rest", "wait", "test", "service",
           "save", "exit"}
Steps  == {"idle", "drain", "added", "retry", "create", "await"}

Count(r) == wf.count[r]
Prov(r)  == wf.provider[r]
ExtDeps(r) == External(wf, r)
IntDeps(r) == Internal(wf, r)

NonServices == {r \in Res : ~IsService(wf, r)}

\* Labels on which a non-service resource of another provider depends.
CreateAndWait == UNION {ExtDeps(r) : r \in NonServices}

\* The resources a phase of Controller.apply works on.
Selected(ph) ==
  CASE ph = "first"           -> NonServices \cap CreateAndWait
    [] ph \in {"rest", "wait"} -> NonServices \ CreateAndWait
    [] ph = "service"         -> Res \ NonServices
    [] OTHER                  -> {}

Creating == {"first", "rest", "service"}
-----------------------------------------------------------------------------
(***************************************************************************)
(* Provider.add_resource.  It may set the resource aside, which is not an  *)
(* error, and it calls the provider's do_add_resource otherwise.           *)
(***************************************************************************)

\* No value at all for some dependency: the resolved list is the shorter one.
Blocked(r)  == \E d \in ExtDeps(r) : got[r][d] = 0
IntShort(r) == \E d \in IntDeps(r) : got[r][d] = 0

\* How many objects of d have a value for r while r is being added.
Visible(r, d) ==
  IF d \in wf.blank[r] THEN 0
  ELSE IF d \in wf.late[r] THEN made[d]
  ELSE IF d \in added THEN Count(d) ELSE 0

AtMost(m, n) == IF m <= n THEN m ELSE n

\* DependencyResolver.resolve_dependency for every object of the provider.
Resolved(r) ==
  [got EXCEPT ![r] = [d \in Res |-> IF d \in IntDeps(r)
                                    THEN AtMost(@[d] + Visible(r, d), Count(d))
                                    ELSE @[d]]]

IntFull(g, r) == \A d \in IntDeps(r) : g[r][d] = Count(d)

AddPending(r) ==
  /\ Blocked(r)
  /\ pending' = pending \cup {r}
  /\ UNCHANGED <<added, parked, got, faults>>

AddParked(r) ==
  /\ ~Blocked(r)
  /\ IntShort(r)
  /\ ~IntFull(Resolved(r), r)
  /\ got' = Resolved(r)
  /\ parked' = [parked EXCEPT ![Prov(r)] = Append(@, r)]
  /\ UNCHANGED <<added, pending, faults>>

\* Variant of AddReached: whether the internal dependencies resolved is ignored.
AddReachedAnyway(r) ==
  /\ ~Blocked(r)
  /\ got' = IF IntShort(r) THEN Resolved(r) ELSE got
  /\ UNCHANGED <<pending, parked>>

\* do_add_resource is reached.
AddReached(r) ==
  /\ ~Blocked(r)
  /\ IntShort(r) => IntFull(Resolved(r), r)
  /\ got' = IF IntShort(r) THEN Resolved(r) ELSE got
  /\ UNCHANGED <<pending, parked>>

AddDone(r) ==
  /\ AddReached(r)
  /\ added' = added \cup {r}
  /\ UNCHANGED faults

\* AddReturns(r) is add_resource returning, AddRaises(r) is it raising.
AddReturns(r) == AddPending(r) \/ AddParked(r) \/ AddDone(r)

\* Variant of Fail: the resource is marked, its failures are not counted.
FailUncounted(r, what) ==
  /\ failed' = [failed EXCEPT ![r] = what]
  /\ UNCHANGED failedCount

Fail(r, what) ==
  /\ failed' = [failed EXCEPT ![r] = what]
  /\ failedCount' = [failedCount EXCEPT ![r] = Count(r) - made[r]]

AddRaises(r) ==
  /\ AddReached(r)
  /\ Fail(r, "ADD")
  /\ UNCHANGED added
-----------------------------------------------------------------------------
(***************************************************************************)
(* Controller.add: validate every resource, then add every resource.       *)
(***************************************************************************)

Advance(err) ==
  /\ cur' = cur + 1
  /\ step' = "idle"
  /\ errors' = (errors \/ err)
  /\ UNCHANGED phase

Validate ==
  /\ phase = "validate" /\ cur \in Res /\ step = "idle"
  /\ \/ Advance(FALSE) /\ UNCHANGED failed
     \/ Advance(TRUE)  /\ failed' = [failed EXCEPT ![cur] = "VALIDATE"]
  /\ UNCHANGED <<wf, queues, values, failedCount, outcome>>

Add ==
  /\ phase = "add" /\ cur \in Res /\ step = "idle"
  /\ \/ AddReturns(cur) /\ Advance(FALSE)
     \/ AddRaises(cur)  /\ Advance(TRUE)
  /\ UNCHANGED <<wf, ready, draining, retrying, heard, made, outcome>>

\* An exception or an interrupt before Controller.apply: nothing is saved.
Quit ==
  /\ phase' = "exit"
  /\ exit' = [code |-> 1, saved |-> FALSE]
  /\ UNCHANGED <<wf, cur, step, errors, queues, values, faults, broken>>

PlanFails ==
  /\ phase \in {"validate", "add"} /\ cur = N + 1 /\ errors
  /\ Quit

PlanInterrupted ==
  /\ phase \in {"validate", "add"} /\ cur \in Res
  /\ Quit
-----------------------------------------------------------------------------
(***************************************************************************)
(* Controller.apply: the loops over the resources.                         *)
(***************************************************************************)

NextPhase ==
  CASE phase = "validate" -> "add"
    [] phase = "add"      -> "first"
    [] phase = "first"    -> "rest"
    [] phase = "rest"     -> "wait"
    [] phase = "wait"     -> "test"
    [] phase = "service"  -> "save"

EndPhase ==
  /\ phase \in {"validate", "add", "first", "rest", "wait", "service"}
  /\ cur = N + 1 /\ step = "idle" /\ ~errors
  /\ phase' = NextPhase
  /\ cur' = 1
  /\ UNCHANGED <<wf, step, errors, queues, values, faults, outcome>>

\* The exceptions of a loop are raised when the loop is over.
PhaseRaises ==
  /\ phase \in {"first", "rest", "wait", "service"} /\ cur = N + 1
  /\ step = "idle" /\ errors
  /\ phase' = "save"
  /\ broken' = TRUE
  /\ UNCHANGED <<wf, cur, step, errors, queues, values, faults, exit>>

\* SshNodeTester logs into the nodes of every provider; any may fail to answer.
Test ==
  /\ phase = "test"
  /\ \/ phase' = "service" /\ UNCHANGED broken
     \/ /\ \E r \in added : wf.kind[r] = "node"
        /\ phase' = "save"
        /\ broken' = TRUE
  /\ UNCHANGED <<wf, cur, step, errors, queues, values, faults, exit>>

Skip ==
  /\ phase \in {"first", "rest", "wait", "service"}
  /\ cur \in Res \ Selected(phase) /\ step = "idle"
  /\ Advance(FALSE)
  /\ UNCHANGED <<wf, queues, values, faults, outcome>>
-----------------------------------------------------------------------------
(***************************************************************************)
(* Provider.create_resource: first the resources whose external            *)
(* dependencies have been resolved since the last call are added, and      *)
(* after each of them the parked resources are tried again.                *)
(***************************************************************************)

Goto(s) == step' = s /\ UNCHANGED <<phase, cur, errors>>

\* Variant of EnterCreate: the drained list is not reset.
EnterCreateKeeping ==
  /\ phase \in Creating /\ cur \in Selected(phase) /\ step = "idle"
  /\ draining' = ready[Prov(cur)]
  /\ Goto("drain")
  /\ UNCHANGED <<wf, ready, added, pending, parked, retrying, values, faults, outcome>>

EnterCreate ==
  /\ phase \in Creating /\ cur \in Selected(phase) /\ step = "idle"
  /\ draining' = ready[Prov(cur)]
  /\ ready' = [ready EXCEPT ![Prov(cur)] = <<>>]
  /\ Goto("drain")
  /\ UNCHANGED <<wf, added, pending, parked, retrying, values, faults, outcome>>

Drain ==
  /\ step = "drain" /\ draining # <<>>
  /\ AddReturns(Head(draining))
  /\ draining' = Tail(draining)
  /\ Goto("added")
  /\ UNCHANGED <<wf, ready, retrying, heard, made, outcome>>

\* Variant of DrainFails: the resource goes back to the list being drained.
DrainFailsInPlace ==
  LET r == Head(draining)
  IN  /\ step = "drain" /\ draining # <<>>
      /\ AddRaises(r)
      /\ draining' = Append(Tail(draining), r)
      /\ Goto("drain")
      /\ UNCHANGED <<wf, ready, retrying, heard, made, outcome>>

\* The error is logged, unless the resource is the one being created: then
\* create_resource raises, whatever is left in its temporary list.
DrainFails ==
  LET r == Head(draining)
  IN  /\ step = "drain" /\ draining # <<>>
      /\ AddRaises(r)
      /\ ready' = [ready EXCEPT ![Prov(cur)] = Append(@, r)]
      /\ IF r = cur
         THEN draining' = <<>> /\ Advance(TRUE)
         ELSE draining' = Tail(draining) /\ Goto("drain")
      /\ UNCHANGED <<wf, retrying, heard, made, outcome>>

StartRetry ==
  /\ step = "added"
  /\ retrying' = parked[Prov(cur)]
  /\ parked' = [parked EXCEPT ![Prov(cur)] = <<>>]
  /\ Goto("retry")
  /\ UNCHANGED <<wf, added, pending, ready, draining, values, faults, outcome>>

\* A resource whose second attempt raises is logged and dropped.
Retry ==
  /\ step = "retry" /\ retrying # <<>>
  /\ AddReturns(Head(retrying)) \/ AddRaises(Head(retrying))
  /\ retrying' = Tail(retrying)
  /\ Goto("retry")
  /\ UNCHANGED <<wf, ready, draining, heard, made, outcome>>

EndRetry ==
  /\ step = "retry" /\ retrying = <<>>
  /\ Goto("drain")
  /\ UNCHANGED <<wf, queues, values, faults, outcome>>

\* Variant of EndDrain: do_create_resource is called for every resource.
EndDrainAlways ==
  /\ step = "drain" /\ draining = <<>>
  /\ Goto("create")
  /\ UNCHANGED <<wf, queues, values, faults, outcome>>

\* A resource that is not added by now is silently not created.
EndDrain ==
  /\ step = "drain" /\ draining = <<>>
  /\ IF cur \in added THEN Goto("create")
     ELSE IF phase = "first" THEN Goto("await") ELSE Advance(FALSE)
  /\ UNCHANGED <<wf, queues, values, faults, outcome>>
-----------------------------------------------------------------------------
(***************************************************************************)
(* The provider's do_create_resource and do_wait_for_create_resource.  The *)
(* one that reports the instances does so one at a time, and each report   *)
(* runs on_created in every provider before the next instance.             *)
(***************************************************************************)

Reports(s) ==
  \/ s = "create" /\ cur \notin wf.async
  \/ s = "await"  /\ cur \in wf.async /\ cur \in added

\* Variant of MakeOne: an instance is created again.
MakeOneMore ==
  /\ step \in {"create", "await"} /\ heard = {}
  /\ Reports(step)
  /\ made[cur] <= Count(cur)
  /\ made' = [made EXCEPT ![cur] = @ + 1]
  /\ heard' = {r \in pending : Prov(r) # Prov(cur)}
  /\ UNCHANGED <<wf, control, queues, got, faults, outcome>>

MakeOne ==
  /\ step \in {"create", "await"} /\ heard = {}
  /\ Reports(step)
  /\ made[cur] < Count(cur)
  /\ made' = [made EXCEPT ![cur] = @ + 1]
  /\ heard' = {r \in pending : Prov(r) # Prov(cur)}
  /\ UNCHANGED <<wf, control, queues, got, faults, outcome>>

\* Variant of OnCreated: one value for each dependency is enough.
OnCreatedAny(r) ==
  LET g == IF cur \in ExtDeps(r) /\ cur \notin wf.blank[r]
           THEN [got EXCEPT ![r][cur] = AtMost(@ + 1, Count(cur))]
           ELSE got
  IN  /\ r \in heard /\ \A s \in heard : r <= s
      /\ heard' = heard \ {r}
      /\ got' = g
      /\ IF \A d \in ExtDeps(r) : g[r][d] > 0
         THEN /\ pending' = pending \ {r}
              /\ ready' = [ready EXCEPT ![Prov(r)] = Append(@, r)]
         ELSE UNCHANGED <<pending, ready>>
      /\ UNCHANGED <<wf, control, added, draining, parked, retrying, made,
                     faults, outcome>>

\* Provider.on_created in the provider of r, for its pending resource r.
OnCreated(r) ==
  LET g == IF cur \in ExtDeps(r) /\ cur \notin wf.blank[r]
           THEN [got EXCEPT ![r][cur] = AtMost(@ + 1, Count(cur))]
           ELSE got
  IN  /\ r \in heard /\ \A s \in heard : r <= s
      /\ heard' = heard \ {r}
      /\ got' = g
      /\ IF \A d \in ExtDeps(r) : g[r][d] = Count(d)
         THEN /\ pending' = pending \ {r}
              /\ ready' = [ready EXCEPT ![Prov(r)] = Append(@, r)]
         ELSE UNCHANGED <<pending, ready>>
      /\ UNCHANGED <<wf, control, added, draining, parked, retrying, made,
                     faults, outcome>>

\* The call for cur returns: the wait call follows in the first phase.
EndCall ==
  /\ step \in {"create", "await"} /\ heard = {}
  /\ Reports(step) => made[cur] = Count(cur)
  /\ IF step = "create" /\ phase = "first" THEN Goto("await") ELSE Advance(FALSE)
  /\ UNCHANGED <<wf, queues, values, faults, outcome>>

\* An exception, which may come after the last instance has been reported.
CallFails ==
  /\ step \in {"create", "await"} /\ heard = {} /\ cur \in added
  /\ step = "create" \/ cur \in wf.async
  /\ Fail(cur, "CREATE")
  /\ Advance(TRUE)
  /\ UNCHANGED <<wf, queues, values, outcome>>

EnterWait ==
  /\ phase = "wait" /\ cur \in Selected(phase) /\ step = "idle"
  /\ Goto("await")
  /\ UNCHANGED <<wf, queues, values, faults, outcome>>

\* Ctrl-C in Controller.apply.  The provider call in progress, if any, marks
\* its resource as failed; what create_resource holds in its lists is lost.
Interrupt ==
  /\ phase \in {"first", "rest", "wait", "test", "service"}
  /\ phase' = "save" /\ step' = "idle"
  /\ broken' = TRUE
  /\ heard' = {}
  /\ draining' = <<>> /\ retrying' = <<>>
  /\ IF step \in {"create", "await"} /\ cur \in added
     THEN Fail(cur, "CREATE")
     ELSE UNCHANGED faults
  /\ UNCHANGED <<wf, cur, errors, added, pending, ready, parked, got, made, exit>>
-----------------------------------------------------------------------------
\* utils.get_counters over the states the providers report.
\* Variant of SomePending: the parked resources are not counted.
SomePendingExternally == pending # {}

SomePending == pending # {} \/ \E p \in Providers : parked[p] # <<>>
SomeFailed  == \E r \in Res : failedCount[r] # 0

Save ==
  /\ phase = "save"
  /\ phase' = "exit"
  /\ exit' = [code  |-> IF broken \/ SomePending \/ SomeFailed THEN 1 ELSE 0,
              saved |-> TRUE]
  /\ UNCHANGED <<wf, cur, step, errors, queues, values, faults, broken>>

\* The command has ended.
Terminated == phase = "exit" /\ UNCHANGED vars

Init ==
  /\ wf \in Workflows
  /\ phase = "validate" /\ cur = 1 /\ step = "idle" /\ errors = FALSE
  /\ added = {} /\ pending = {} /\ heard = {}
  /\ ready = [p \in Providers |-> <<>>] /\ parked = [p \in Providers |-> <<>>]
  /\ draining = <<>> /\ retrying = <<>>
  /\ got = [r \in Res |-> [d \in Res |-> 0]]
  /\ made = [r \in Res |-> 0]
  /\ failed = [r \in Res |-> "no"] /\ failedCount = [r \in Res |-> 0]
  /\ broken = FALSE /\ exit = [code |-> 0, saved |-> FALSE]

Next ==
  \/ Validate \/ Add \/ PlanFails \/ PlanInterrupted
  \/ EndPhase \/ PhaseRaises \/ Test \/ Skip
  \/ EnterCreate \/ Drain \/ DrainFails \/ StartRetry \/ Retry \/ EndRetry
  \/ EndDrain \/ MakeOne \/ (\E r \in Res : OnCreated(r)) \/ EndCall
  \/ CallFails \/ EnterWait \/ Interrupt \/ Save \/ Terminated

Spec     == Init /\ [][Next]_vars
FairSpec == Spec /\ WF_vars(Next)
-----------------------------------------------------------------------------
(***************************************************************************)
(* Properties.                                                             *)
(***************************************************************************)

\* The types of the variables, by the part of the program that moves them.
ControlOK ==
  /\ phase \in Phases /\ cur \in 1..(N + 1) /\ step \in Steps
  /\ errors \in BOOLEAN /\ broken \in BOOLEAN
  /\ exit \in [code : {0, 1}, saved : BOOLEAN]

QueuesOK ==
  /\ added \subseteq Res /\ pending \subseteq Res
  /\ ready \in [Providers -> Seq(Res)] /\ parked \in [Providers -> Seq(Res)]
  /\ draining \in Seq(Res) /\ retrying \in Seq(Res)

ValuesOK ==
  /\ heard \subseteq Res
  /\ got \in [Res -> [Res -> Nat]]
  /\ made \in [Res -> Nat]

FaultsOK ==
  /\ failed \in [Res -> {"no", "VALIDATE", "ADD", "CREATE"}]
  /\ failedCount \in [Res -> Nat]

TypeOK == WellFormed(wf) /\ ControlOK /\ QueuesOK /\ ValuesOK /\ FaultsOK

\* "the controller would `add' the fabric node after `creating' the chameleon
\* network" (docs/workflow_design.md): whatever fails and in whichever order
\* events arrive, a resource is handed to its provider only when every
\* instance of every external dependency has been created.
ExternalFirst ==
  \A r \in added : \A d \in ExtDeps(r) : made[d] = Count(d)

\* A resource reaches its provider with every value of its external
\* dependencies, and with a value at least for each internal one.
AddedHasValues ==
  \A r \in added :
    /\ \A d \in ExtDeps(r) : got[r][d] = Count(d)
    /\ \A d \in IntDeps(r) : got[r][d] > 0

Occurrences(r, s) == Cardinality({i \in DOMAIN s : s[i] = r})

\* The three assertions of add_resource (already added, already pending,
\* already parked) never fire: a resource is in one queue, and once.
OnePlace ==
  \A r \in Res :
    (IF r \in added THEN 1 ELSE 0) + (IF r \in pending THEN 1 ELSE 0)
      + Occurrences(r, ready[Prov(r)]) + Occurrences(r, draining)
      + Occurrences(r, parked[Prov(r)]) + Occurrences(r, retrying) <= 1

In(r, s) == \E i \in 1..Len(s) : s[i] = r

\* r has left pending, or never was there: it is added or about to be.
Released(r) ==
  \/ r \in added
  \/ \E p \in Providers : In(r, ready[p]) \/ In(r, parked[p])
  \/ In(r, draining) \/ In(r, retrying)

\* Controller.apply can lose a resource from every queue (a raise in the middle
\* of the temporary list, a failed second attempt, an interrupt), but then the
\* command is bound to report a failure.
LostIsReported ==
  phase \in {"first", "rest", "wait", "test", "service", "save"} =>
    \A r \in Res :
      r \in pending \/ Released(r) \/ errors \/ broken \/ failedCount[r] > 0

\* What r depends on, directly or not, without leaving its provider.
Within(r) ==
  {d \in Res : \A S \in SUBSET Res :
     IntDeps(r) \subseteq S /\ (\A x \in S : IntDeps(x) \subseteq S) => d \in S}

\* r reads an attribute that an object of its own provider has only once created.
ReadsLate(r) == wf.late[r] \cap IntDeps(r) # {}

\* x or something it needs has to wait for another provider.
Waits(x) == \E y \in {x} \cup Within(x) : ExtDeps(y) # {}

\* r needs a b that may still be waiting for a resource of its own provider when
\* the values b gets from another provider have arrived: b is parked then, and
\* behind r if r was parked before.
Overtaken(r) ==
  \E b \in IntDeps(r) : ExtDeps(b) # {} /\ \E x \in IntDeps(b) : Waits(x)

\* a may be added after its turn to be created.
Unsettled(a) == \E d \in {a} \cup Within(a) : ReadsLate(d) \/ Overtaken(d)

Excused(r) ==
  \/ Unsettled(r)
  \/ /\ r \in NonServices
     /\ \E d \in {r} \cup Within(r) : \E s \in wf.needs[d] : IsService(wf, s)

\* Exit status 0 means that the states are saved and that everything has been
\* created, but for what is excused, although exceptions were swallowed on the way.
CleanExit ==
  phase = "exit" /\ exit.code = 0 =>
    exit.saved /\ \A r \in Res : made[r] < Count(r) => Excused(r)

\* Draining the queues terminates: the resources put back while a list is being
\* drained wait for the next call.
Terminates == <>(phase = "exit")

\* The detailed workflow creates in the order CreationOrder allows.
Order == INSTANCE CreationOrder WITH
           w        <- wf,
           begun    <- {r \in Res : made[r] > 0},
           complete <- {r \in Res : made[r] = Count(r)}

CreatesInOrder == Order!Spec
=============================================================================
