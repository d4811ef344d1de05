--------------------------- MODULE SenseInstance ----------------------------
(***************************************************************************)
(* The Sense provider: a network is a service instance, found by its alias *)
(* or made, then provisioned; its nodes are read from the instance.  When  *)
(* the counts of the configuration are not those of the saved state, the   *)
(* instance is deleted first and made again.                               *)
(*                                                                         *)
(* Sense provisions and cancels by itself.  Any call may raise and any     *)
(* wait may time out.  Resource 1 is the network, resource 2 its node.     *)
(***************************************************************************)
EXTENDS ProviderSession

CONSTANTS
  Ids,     \* how many instances Sense creates, at most
  Configs  \* how many times the user has a configuration, at most

ASSUME SenseAssumption == N = 2 /\ Ids \in Nat /\ Configs \in Nat \ {0}

VARIABLES
  instances,    \* instances with the alias of the network
  config,       \* the configuration, counted
  savedConfig,  \* the configuration whose counts the session file has
  step,         \* where in create or delete the program is
  uuid,         \* si_uuid
  twice,        \* an instance was created again after a call that had got through
  kept          \* a command has left an instance whose counts the file does not have

control == <<config, savedConfig>>
watch   == <<twice, kept>>
vars    == <<session, instances, control, step, uuid, watch>>

Network == 1
Node    == 2
Id      == 1..Ids
Facts   == [instance : Id]

Listed == {i \in Id : instances[i].state \notin {"new", "deleted"}}
Fresh  == {i \in Id : instances[i].state = "new"}

Becomes(i, state) == instances' = [instances EXCEPT ![i].state = state]
-----------------------------------------------------------------------------
(***************************************************************************)
(* Sense.                                                                  *)
(***************************************************************************)
Works ==
  /\ \E i \in Id, s \in {<<"committing", "ready">>, <<"committing", "failed">>,
                         <<"cancelling", "cancelled">>, <<"cancelling", "failed">>} :
       instances[i].state = s[1] /\ Becomes(i, s[2])
  /\ UNCHANGED <<session, control, step, uuid, watch>>
-----------------------------------------------------------------------------
(***************************************************************************)
(* User, controller and provider.                                          *)
(***************************************************************************)
Edit ==
  /\ phase = "idle" /\ config < Configs
  /\ config' = config + 1
  /\ UNCHANGED <<session, instances, savedConfig, step, uuid, watch>>

\* Variant of Modified: counts are compared if something was created.
ModifiedIfCreated == Saved # {} /\ savedConfig # config

\* Provider.modified: the file has counts, and they are others.
Modified == savedConfig # 0 /\ savedConfig # config

StartApply ==
  /\ Begins("apply", Res) /\ step' = "network"
  /\ UNCHANGED <<instances, control, uuid, watch>>

StartDestroy ==
  /\ Tracked # {}
  /\ Begins("destroy", Tracked) /\ step' = "delete"
  /\ UNCHANGED <<instances, control, uuid, watch>>

\* create_resource of the node follows that of a network that failed, unless
\* another provider waits for the network.
Follows == step' \in IF Network \in todo THEN {"node", "end"} ELSE {"end"}

Unmaking == {"unmake", "cancelled", "gone"}

Fail(step1) == Fails(IF Network \in todo THEN Network ELSE Node) /\ step1

\* The resource at hand fails.
Raise ==
  /\ phase = "apply" /\ step \in {"find", "create", "created", "status", "wait", "node", "details"}
  /\ Fail(Follows)
  /\ UNCHANGED <<instances, control, uuid, watch>>

\* The user interrupts an apply, which ends then.
Interrupt ==
  /\ phase = "apply" /\ step # "end"
  /\ Fail(step' = "end")
  /\ kept' = (kept \/ (Modified /\ step \in Unmaking \cup {"network"}))
  /\ UNCHANGED <<instances, control, uuid, twice>>

\* The network fails in a destroy.
RaiseInDelete ==
  /\ phase = "destroy" /\ step \notin {"delete", "end"}
  /\ Fails(Network) /\ step' = "end"
  /\ UNCHANGED <<instances, control, uuid, watch>>

EndApply ==
  /\ phase = "apply" /\ step = "end"
  /\ SaveApply(failed = {})
  /\ savedConfig' = config /\ step' = "idle" /\ uuid' = 0
  /\ UNCHANGED <<instances, config, watch>>

EndDestroy ==
  /\ step = "end" /\ SaveDestroy
  /\ savedConfig' = IF failed = {} THEN 0 ELSE savedConfig
  /\ step' = "idle" /\ uuid' = 0
  /\ UNCHANGED <<instances, config, watch>>

Die ==
  /\ Dies /\ step' = "idle" /\ uuid' = 0
  /\ kept' = (kept \/ Listed # {})
  /\ UNCHANGED <<instances, control, twice>>
-----------------------------------------------------------------------------
Goes(from, to) == step = from /\ step' = to /\ UNCHANGED <<session, control>>

(***************************************************************************)
(* do_create_resource and SenseNetwork.create.                             *)
(***************************************************************************)
Keep ==
  /\ Goes("network", "find") /\ ~Modified
  /\ UNCHANGED <<instances, uuid, watch>>

Modify ==
  /\ Goes("network", "unmake") /\ Modified
  /\ UNCHANGED <<instances, uuid, watch>>

\* An exception while the old instance is deleted is logged.
KeepInstead ==
  /\ phase = "apply" /\ step \in Unmaking /\ Goes(step, "find")
  /\ kept' = TRUE
  /\ UNCHANGED <<instances, uuid, twice>>

\* find_instance_by_alias
Find ==
  /\ Goes("find", "status") /\ uuid' \in Listed
  /\ UNCHANGED <<instances, watch>>

\* Variant of FindNone: an instance that is not ready is not found.
FindNoneReady ==
  /\ Goes("find", "create") /\ \A i \in Listed : instances[i].state # "ready"
  /\ uuid' = 0
  /\ UNCHANGED <<instances, watch>>

FindNone ==
  /\ Goes("find", "create") /\ Listed = {}
  /\ uuid' = 0
  /\ UNCHANGED <<instances, watch>>

\* create_instance
CreateInstance ==
  /\ Goes("create", "created")
  /\ uuid' \in Fresh /\ \A j \in Fresh : uuid' <= j
  /\ instances' = [instances EXCEPT ![uuid'] = [state |-> "compiled", config |-> config]]
  /\ twice' = (twice \/ uuid # 0)
  /\ UNCHANGED kept

\* Its answer, or the status after it, is lost: it is created again.
CreateAgain ==
  /\ Goes("created", "create")
  /\ UNCHANGED <<instances, uuid, watch>>

Status ==
  /\ Goes("created", "status")
  /\ UNCHANGED <<instances, uuid, watch>>

\* instance_operate.  That it is refused is logged, and so the status is waited for.
Provision ==
  /\ Goes("status", "wait") /\ instances[uuid].state \notin {"ready", "failed"}
  /\ \/ instances[uuid].state = "compiled" /\ Becomes(uuid, "committing")
     \/ UNCHANGED instances
  /\ UNCHANGED <<uuid, watch>>

NetworkCreated ==
  /\ phase = "apply" /\ step \in {"status", "wait"} /\ instances[uuid].state = "ready"
  /\ Succeeds(Network, [instance |-> uuid]) /\ step' = "node"
  /\ UNCHANGED <<instances, control, uuid, watch>>

(***************************************************************************)
(* SenseNode.create: the instance of the alias must be ready.              *)
(***************************************************************************)
NodeFound ==
  /\ Goes("node", "details")
  /\ \E i \in Listed : instances[i].state = "ready" /\ uuid' = i
  /\ UNCHANGED <<instances, watch>>

\* manifest_create looks the instance up again.
NodeCreated ==
  /\ phase = "apply" /\ step = "details"
  /\ \E i \in Listed : Succeeds(Node, [instance |-> i])
  /\ step' = "end"
  /\ UNCHANGED <<instances, control, uuid, watch>>

(***************************************************************************)
(* do_delete_resource, and delete_instance, which a modification uses too. *)
(***************************************************************************)
\* Nothing is done about nodes.
DeleteNode ==
  /\ step = "delete" /\ Node \in todo
  /\ Reached(Node)
  /\ UNCHANGED <<reported, failed, instances, control, step, uuid, watch>>

DeleteNetwork ==
  /\ Goes("delete", IF Network \in todo THEN "unmake" ELSE "end") /\ Node \notin todo
  /\ UNCHANGED <<instances, uuid, watch>>

\* The instance is gone: on with create, or that was it.
Unmade ==
  \/ /\ phase = "apply" /\ step' = "find"
     /\ UNCHANGED session
  \/ /\ phase = "destroy" /\ step' = "end"
     /\ Reached(Network) /\ UNCHANGED <<reported, failed>>

NoInstance ==
  /\ step = "unmake" /\ Listed = {} /\ Unmade
  /\ UNCHANGED <<instances, control, uuid, watch>>

DeleteCompiled ==
  /\ step = "unmake" /\ Unmade
  /\ \E i \in Listed : instances[i].state = "compiled" /\ Becomes(i, "deleted") /\ uuid' = i
  /\ UNCHANGED <<control, watch>>

\* By force when the instance is not ready.
Cancel ==
  /\ Goes("unmake", "cancelled")
  /\ \E i \in Listed :
       instances[i].state \in {"committing", "ready"} /\ Becomes(i, "cancelling") /\ uuid' = i
  /\ UNCHANGED watch

Cancelled ==
  /\ Goes("unmake", "cancelled")
  /\ \E i \in Listed : instances[i].state \in {"cancelling", "cancelled"} /\ uuid' = i
  /\ UNCHANGED <<instances, watch>>

CancelReady ==
  /\ Goes("cancelled", "gone") /\ instances[uuid].state = "cancelled"
  /\ UNCHANGED <<instances, uuid, watch>>

DeleteInstance ==
  /\ step = "gone" /\ Unmade
  /\ Becomes(uuid, "deleted")
  /\ UNCHANGED <<control, uuid, watch>>
-----------------------------------------------------------------------------
Init ==
  /\ SessionInit
  /\ instances = [i \in Id |-> [state |-> "new", config |-> 0]]
  /\ config = 1 /\ savedConfig = 0
  /\ step = "idle" /\ uuid = 0
  /\ twice = FALSE /\ kept = FALSE

Next ==
  \/ Works \/ Edit
  \/ StartApply \/ StartDestroy \/ Raise \/ Interrupt \/ RaiseInDelete 
  \/ EndApply \/ EndDestroy \/ Die
  \/ Keep \/ Modify \/ KeepInstead \/ Find \/ FindNone \/ CreateInstance \/ CreateAgain
  \/ Status \/ Provision \/ NetworkCreated \/ NodeFound \/ NodeCreated
  \/ DeleteNode \/ DeleteNetwork \/ NoInstance \/ DeleteCompiled \/ Cancel \/ Cancelled
  \/ CancelReady \/ DeleteInstance

Spec == Init /\ [][Next]_vars
-----------------------------------------------------------------------------
Steps == {"idle", "end", "network", "unmake", "find", "create", "created", "status", "wait",
          "node", "details", "delete", "cancelled", "gone"}

(***************************************************************************)
(* Types, and that status, provision and delete are never asked of Sense   *)
(* without the identifier of an instance.                                  *)
(***************************************************************************)
TypeOK ==
  /\ SessionOK(Facts)
  /\ instances \in [Id -> [state  : {"new", "compiled", "committing", "ready", "failed",
                                     "cancelling", "cancelled", "deleted"},
                           config : 0..Configs]]
  /\ config \in 1..Configs /\ savedConfig \in 0..Configs
  /\ step \in Steps /\ (step = "idle" <=> phase = "idle")
  /\ uuid \in 0..Ids
  /\ step \in {"created", "status", "wait", "cancelled", "gone"} => uuid \in Listed
  /\ twice \in BOOLEAN /\ kept \in BOOLEAN

(***************************************************************************)
(* However applies and destroys are cut short, the alias is that of one    *)
(* instance, and of none when delete has returned: except when an instance *)
(* was created again because the answer to the first call was lost, which  *)
(* nothing ever finds out.                                                 *)
(***************************************************************************)
OneInstance ==
  ~twice =>
    /\ Cardinality(Listed) <= 1
    /\ phase = "destroy" /\ step = "end" /\ failed = {} => Listed = {}

(***************************************************************************)
(* What is reported as created is ready and has been made for the          *)
(* configuration at hand.  An older one is in use only if a modification   *)
(* went on, or was interrupted, without having deleted it, or a command    *)
(* was killed, so that the file has not the counts it was made with.       *)
(***************************************************************************)
Current ==
  [][phase' = "apply" =>
       \A r \in Res : \A f \in reported'[r] \ reported[r] :
         ~twice => /\ instances[f.instance].state = "ready"
                   /\ kept \/ instances[f.instance].config = config]_vars
=============================================================================
