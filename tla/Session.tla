------------------------------ MODULE Session -------------------------------
(***************************************************************************)
(* The life of a session: a sequence of `fabfed workflow' commands, -apply *)
(* and -destroy, over the file that remembers what the session created.    *)
(* What exists in the testbeds (cloud) is not known to the program except  *)
(* through that file, and the two drift apart when commands fail, are      *)
(* interrupted or killed, or when the configuration is edited in between.  *)
(*                                                                         *)
(* The create phase is the one of CreationOrder, which Apply implements: a *)
(* resource is begun when the resources of other providers it depends on   *)
(* are complete.  Controller.destroy and the reconciliation of states are  *)
(* modelled in full.  Instances of a resource are created in the order of  *)
(* their index, so a number says which of them exist.                      *)
(***************************************************************************)
EXTENDS Workflow

CONSTANTS
  Commands,  \* how many commands are run on the session
  MayCrash,  \* the process may be killed
  MayEdit    \* the user may take resources out of the configuration, and back

ASSUME SessionAssumption ==
  Commands \in Nat /\ MayCrash \in BOOLEAN /\ MayEdit \in BOOLEAN

VARIABLES
  wf,        \* the workflow
  config,    \* the resources the configuration file lists now
  cloud,     \* cloud[r]: instances of r that exist
  saved,     \* the session file: list of ProviderStates, by resource
  phase,     \* the command in progress
  todo,      \* resources the command has yet to deal with
  made,      \* creation_details of the run: instances created, by resource
  failed,    \* Provider._failed, over all providers
  remaining, \* remaining_resources of Controller.destroy
  skip,      \* skip_resources of Controller.destroy
  last,      \* the last command to end, and its exit status
  left       \* commands still to come

run  == <<todo, made, failed, remaining, skip>>
vars == <<wf, config, cloud, saved, phase, run, last, left>>

Count(r)   == wf.count[r]
Prov(r)    == wf.provider[r]
ExtDeps(r) == External(wf, r)

Nothing == [r \in Res |-> 0]

\* states[r]: instances of r with a ResourceState; created[r]: created_count.
NoFile == [exists |-> FALSE, states |-> Nothing, failed |-> {}, created |-> Nothing]

HasState(r) == saved.states[r] > 0
Larger(m, n) == IF m >= n THEN m ELSE n

\* A configuration is parsed only if the resources it refers to are in it.
Configs == {c \in SUBSET Res : \A r \in c : wf.needs[r] \subseteq c}

\* The command ends; what its process knew is gone.
Ended(command, code) ==
  /\ phase' = "idle"
  /\ todo' = {} /\ made' = Nothing /\ failed' = {}
  /\ remaining' = {} /\ skip' = {}
  /\ last' = [command |-> command, code |-> code]

EditConfig ==
  /\ MayEdit /\ phase = "idle"
  /\ config' \in Configs \ {config, {}}
  /\ UNCHANGED <<wf, cloud, saved, phase, run, last, left>>
-----------------------------------------------------------------------------
(***************************************************************************)
(* fabfed workflow -apply                                                  *)
(***************************************************************************)

\* The plan: what is in the configuration, and what has a state but no longer is.
Planned == config \cup {r \in Res : HasState(r)}

StartApply ==
  /\ phase = "idle" /\ left > 0
  /\ phase' = "apply"
  /\ left' = left - 1
  /\ todo' = Planned
  /\ last' = [command |-> "none", code |-> 0]
  /\ UNCHANGED <<wf, config, cloud, saved, made, failed, remaining, skip>>

Ready(r) == \A d \in ExtDeps(r) : made[d] = Count(d)

\* An instance that exists already is adopted by its name.
Create(r) ==
  /\ phase = "apply" /\ r \in todo \cap config /\ Ready(r)
  /\ todo' = todo \ {r}
  /\ made' = [made EXCEPT ![r] = Count(r)]
  /\ cloud' = [cloud EXCEPT ![r] = Larger(@, Count(r))]
  /\ UNCHANGED <<wf, config, saved, phase, failed, remaining, skip, last, left>>

\* The call raises after k instances; the next one may exist all the same.
CreateFails(r) ==
  /\ phase = "apply" /\ r \in todo \cap config /\ Ready(r)
  /\ todo' = todo \ {r}
  /\ \E k \in 0..(Count(r) - 1) :
       /\ made' = [made EXCEPT ![r] = k]
       /\ \E n \in {k, k + 1} : cloud' = [cloud EXCEPT ![r] = Larger(@, n)]
  /\ failed' = failed \cup {r}
  /\ UNCHANGED <<wf, config, saved, phase, remaining, skip, last, left>>

\* A planned resource that is not in the configuration is deleted.
Drop(r) ==
  /\ phase = "apply" /\ r \in todo \ config
  /\ todo' = todo \ {r}
  /\ \/ cloud' = [cloud EXCEPT ![r] = 0] /\ UNCHANGED failed
     \/ failed' = failed \cup {r} /\ UNCHANGED cloud
  /\ UNCHANGED <<wf, config, saved, phase, made, remaining, skip, last, left>>

\* Every resource of p that was planned has all its instances: the providers
\* compare the sums, and no resource has more instances than it asks for.
AllCreated(p) ==
  \A r \in Planned : Prov(r) = p => r \in config /\ made[r] = Count(r)

\* Variant of KeptState: a provider that created something is trusted.
KeptStateIfNone(r) ==
  /\ \A q \in Planned : Prov(q) = Prov(r) => made[q] = 0
  /\ ~(r \in config /\ made[r] = Count(r))

\* reconcile_state: the saved state of r is kept next to the new ones.
KeptState(r) ==
  /\ ~AllCreated(Prov(r))
  /\ ~(r \in config /\ made[r] = Count(r))

\* reconcile_states: saved states count only if the file says that something
\* had been created by the run that wrote it.
Reconciled ==
  LET trusted == \E r \in Res : saved.created[r] > 0
  IN  [exists  |-> TRUE,
       states  |-> [r \in Res |-> IF trusted /\ KeptState(r)
                                  THEN Larger(made[r], saved.states[r])
                                  ELSE made[r]],
       failed  |-> failed,
       created |-> made]

\* The loops are over, or were left by an exception or an interrupt.
EndApply ==
  /\ phase = "apply"
  /\ saved' = Reconciled
  /\ \/ /\ \A r \in todo : r \in config /\ ~Ready(r)
        /\ Ended("apply", IF todo = {} /\ failed = {} THEN 0 ELSE 1)
     \/ Ended("apply", 1)
  /\ UNCHANGED <<wf, config, cloud, left>>

\* The process is killed before save_states has moved the new file into place.
Crash ==
  /\ MayCrash /\ phase = "apply"
  /\ Ended("apply", 1)
  /\ UNCHANGED <<wf, config, cloud, saved, left>>
-----------------------------------------------------------------------------
(***************************************************************************)
(* fabfed workflow -destroy: Controller.destroy goes through the resources *)
(* of the configuration backwards, and spares what a resource it could not *)
(* delete needs from other providers.                                      *)
(***************************************************************************)

\* The states of every external dependency are looked up; one that has none is
\* an exception nobody catches.
MissingState == \E r \in config : HasState(r) /\ \E d \in ExtDeps(r) : ~HasState(d)

StartDestroy ==
  /\ phase = "idle" /\ left > 0 /\ saved.exists
  /\ left' = left - 1
  /\ IF MissingState
     THEN Ended("destroy", 1)
     ELSE /\ phase' = "destroy"
          /\ todo' = {r \in config : HasState(r) \/ r \in saved.failed}
          /\ last' = [command |-> "none", code |-> 0]
          /\ UNCHANGED <<made, failed, remaining, skip>>
  /\ UNCHANGED <<wf, config, cloud, saved>>

\* There is nothing to destroy, and the command succeeds.
DestroyNothing ==
  /\ phase = "idle" /\ left > 0 /\ ~saved.exists
  /\ left' = left - 1
  /\ Ended("destroy", 0)
  /\ UNCHANGED <<wf, config, cloud, saved>>

Backwards(r) == phase = "destroy" /\ r \in todo /\ \A s \in todo : s <= r

\* Labels of EXTERNAL_DEPENDENCY_STATES, which only a resource with states has.
ExternalStates(r) == IF HasState(r) THEN ExtDeps(r) ELSE {}

\* Variant of Keep: what the resource needs is not spared.
KeepAlone(r) ==
  /\ remaining' = remaining \cup {r}
  /\ UNCHANGED skip

Keep(r) ==
  /\ remaining' = remaining \cup {r}
  /\ skip' = skip \cup ExternalStates(r)

\* Variant of Skip: what a skipped resource needs is not spared.
SkipAlone(r) ==
  /\ Backwards(r) /\ r \in skip
  /\ todo' = todo \ {r}
  /\ KeepAlone(r)
  /\ UNCHANGED <<wf, config, cloud, saved, phase, made, failed, last, left>>

Skip(r) ==
  /\ Backwards(r) /\ r \in skip
  /\ todo' = todo \ {r}
  /\ Keep(r)
  /\ UNCHANGED <<wf, config, cloud, saved, phase, made, failed, last, left>>

Delete(r) ==
  /\ Backwards(r) /\ r \notin skip
  /\ todo' = todo \ {r}
  /\ cloud' = [cloud EXCEPT ![r] = 0]
  /\ UNCHANGED <<wf, config, saved, phase, made, failed, remaining, skip, last, left>>

\* Some instances may be gone before the provider raises.
DeleteFails(r) ==
  /\ Backwards(r) /\ r \notin skip
  /\ todo' = todo \ {r}
  /\ \E k \in 0..cloud[r] : cloud' = [cloud EXCEPT ![r] = k]
  /\ failed' = failed \cup {r}
  /\ Keep(r)
  /\ UNCHANGED <<wf, config, saved, phase, made, last, left>>

\* Variant of Stays: failures are not worth remembering.
StaysForStates(p) ==
  \E r \in Res : Prov(r) = p /\ r \in remaining /\ HasState(r)

\* A ProviderState stays if it has states or failures to remember.
Stays(p) ==
  \E r \in Res : Prov(r) = p /\ (r \in failed \/ (r \in remaining /\ HasState(r)))

Remembered ==
  [exists  |-> \E p \in Providers : Stays(p),
   states  |-> [r \in Res |-> IF r \in remaining THEN saved.states[r] ELSE 0],
   failed  |-> failed,
   created |-> [r \in Res |-> IF Stays(Prov(r)) THEN saved.created[r] ELSE 0]]

EndDestroy ==
  /\ phase = "destroy" /\ todo = {}
  /\ saved' = IF remaining = {} THEN NoFile ELSE Remembered
  /\ Ended("destroy", IF failed = {} THEN 0 ELSE 1)
  /\ UNCHANGED <<wf, config, cloud, left>>

\* Ctrl-C, or a kill: the file still lists what has been deleted.
StopDestroy ==
  /\ phase = "destroy"
  /\ Ended("destroy", 1)
  /\ UNCHANGED <<wf, config, cloud, saved, left>>
-----------------------------------------------------------------------------
Init ==
  /\ wf \in Workflows
  /\ config = Res /\ cloud = Nothing /\ saved = NoFile
  /\ phase = "idle" /\ todo = {} /\ made = Nothing /\ failed = {}
  /\ remaining = {} /\ skip = {}
  /\ last = [command |-> "none", code |-> 0]
  /\ left = Commands

Next ==
  \/ EditConfig \/ StartApply \/ EndApply \/ Crash
  \/ StartDestroy \/ DestroyNothing \/ EndDestroy \/ StopDestroy
  \/ \E r \in Res : \/ Create(r) \/ CreateFails(r) \/ Drop(r)
                    \/ Skip(r) \/ Delete(r) \/ DeleteFails(r)

Spec == Init /\ [][Next]_vars
-----------------------------------------------------------------------------
(***************************************************************************)
(* Properties.                                                             *)
(***************************************************************************)

\* No more instances than were asked for.
Bounded(counts) == counts \in [Res -> Nat] /\ \A r \in Res : counts[r] <= Count(r)

FileType == [exists  : BOOLEAN, states : [Res -> Nat],
             failed  : SUBSET Res, created : [Res -> Nat]]

\* The types of the variables; no instance exists, or is recorded, twice.
TypeOK ==
  /\ WellFormed(wf)
  /\ config \in Configs
  /\ saved \in FileType
  /\ Bounded(cloud) /\ Bounded(made)
  /\ Bounded(saved.states) /\ Bounded(saved.created)
  /\ phase \in {"idle", "apply", "destroy"}
  /\ todo \subseteq Res /\ failed \subseteq Res
  /\ remaining \subseteq Res /\ skip \subseteq Res
  /\ last \in [command : {"none", "apply", "destroy"}, code : {0, 1}]
  /\ left \in 0..Commands

\* Controller.destroy looks up the states of external dependencies without
\* asking whether there are any: however commands fail or are cut short, a
\* resource in the file has its external dependencies there too.
StatesClosed == ~MissingState

\* Whatever could not be deleted keeps what it needs from other providers.
KeepsNeeded ==
  phase = "destroy" =>
    \A r \in remaining : HasState(r) => ExtDeps(r) \subseteq todo \cup remaining

\* The directory of the session is removed only when everything the file knew of
\* and the configuration lists is gone.
Knew(r) == HasState(r) \/ r \in saved.failed

RemovedWhenGone ==
  [][saved.exists /\ ~saved'.exists =>
       \A r \in config : Knew(r) => cloud[r] = 0]_vars

\* An apply that follows one that created something forgets nothing that exists.
Survives ==
  [][(\E r \in Res : saved.created[r] > 0) /\ phase = "apply" =>
       \A r \in Res : HasState(r) /\ cloud'[r] > 0 => saved'.states[r] > 0]_vars

\* "-destroy: delete resources" (fabfed/util/utils.py): once the command has
\* succeeded nothing the session created is left.
DestroyDeletes ==
  last = [command |-> "destroy", code |-> 0] => cloud = Nothing
=============================================================================
