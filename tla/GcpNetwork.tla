----------------------------- MODULE GcpNetwork -----------------------------
(***************************************************************************)
(* The network of the GCP provider: a router in a VPC that is there        *)
(* already, a VLAN attachment of the router, whose pairing key FABRIC      *)
(* needs, and the MD5 key of the router's BGP peer.                        *)
(*                                                                         *)
(* GCP carries a request out as an operation that ends later, done or in   *)
(* error.  check_operation_result polls it for a while: it takes an error  *)
(* for success, and when it gives up the operation goes on without it.     *)
(*                                                                         *)
(* Names that would be those of AwsNetwork as well begin with Gcp: the     *)
(* theorems of the two, which have one resource each, are proved together. *)
(***************************************************************************)
EXTENDS ProviderSession

CONSTANT Keys  \* how many attachments, each with its pairing key, GCP creates at most

ASSUME GcpAssumption == N = 1 /\ Keys \in Nat

VARIABLES
  router,      \* "none", "plain", or "keyed" when its peer has the MD5 key
  attachment,  \* the pairing key of the attachment, 0 if there is none
  made,        \* attachments made so far
  operations,  \* operations under way
  stage,       \* where in create or delete the program is
  found,       \* the pairing key of the attachment create has found
  late,        \* operations of an earlier command were under way in this one
  erred        \* an operation has ended in error in this command

gcp     == <<router, attachment, made>>
mishaps == <<late, erred>>
gcpVars == <<session, gcp, operations, stage, found, mishaps>>

Kinds == {"insertRouter", "insertAttachment", "patchRouter", "deleteRouter", "deleteAttachment"}
KeyFacts == [key : 1..Keys]
-----------------------------------------------------------------------------
(***************************************************************************)
(* GCP: an operation ends, with its effect if there is what it is about.   *)
(***************************************************************************)
Effect(kind) ==
  \/ /\ kind = "insertRouter" /\ router = "none"
     /\ router' = "plain" /\ UNCHANGED <<attachment, made>>
  \/ /\ kind = "insertAttachment" /\ router # "none" /\ attachment = 0 /\ made < Keys
     /\ made' = made + 1 /\ attachment' = made' /\ UNCHANGED router
  \/ /\ kind = "patchRouter" /\ router # "none"
     /\ router' = "keyed" /\ UNCHANGED <<attachment, made>>
  \/ /\ kind = "deleteAttachment" /\ attachment # 0
     /\ attachment' = 0 /\ UNCHANGED <<router, made>>
  \/ /\ kind = "deleteRouter" /\ router # "none" /\ attachment = 0
     /\ router' = "none" /\ UNCHANGED <<attachment, made>>

OperationDone ==
  /\ \E kind \in operations : Effect(kind) /\ operations' = operations \ {kind}
  /\ UNCHANGED <<session, stage, found, mishaps>>

OperationErred ==
  /\ \E kind \in operations : operations' = operations \ {kind}
  /\ erred' = TRUE
  /\ UNCHANGED <<session, gcp, stage, found, late>>
-----------------------------------------------------------------------------
(***************************************************************************)
(* Controller and provider: one call to GcpNetwork.create or delete.       *)
(***************************************************************************)
Start(command, at) ==
  /\ Begins(command, Res) /\ stage' = at
  /\ late' = (operations # {}) /\ erred' = FALSE
  /\ UNCHANGED <<gcp, operations, found>>

GcpStartApply   == Start("apply", "vpc")
GcpStartDestroy == Tracked # {} /\ Start("destroy", "findAttachment")

\* A request is refused, or a poll fails or is the last one.
GivesUp ==
  /\ stage \notin {"idle", "end"}
  /\ Fails(1) /\ stage' = "end"
  /\ UNCHANGED <<gcp, operations, found, mishaps>>

GcpEnd ==
  /\ stage = "end"
  /\ \/ phase = "apply" /\ SaveApply(failed = {})
     \/ SaveDestroy
  /\ stage' = "idle" /\ found' = 0
  /\ UNCHANGED <<gcp, operations, mishaps>>

GcpDie == Dies /\ stage' = "idle" /\ found' = 0 /\ UNCHANGED <<gcp, operations, mishaps>>
-----------------------------------------------------------------------------
Passes(from, to) == stage = from /\ stage' = to /\ UNCHANGED <<session, gcp, mishaps>>

\* The request for an operation is accepted.
Asks(kind) == kind \notin operations /\ operations' = operations \cup {kind}

\* check_operation_result: the operation is done, whatever its outcome.
Waits(kind) == kind \notin operations /\ UNCHANGED operations

(***************************************************************************)
(* GcpNetwork.create.                                                      *)
(***************************************************************************)
FindVpc    == Passes("vpc", "router") /\ UNCHANGED <<operations, found>>
FindRouter == Passes("router", "attachment") /\ router # "none" /\ UNCHANGED <<operations, found>>

InsertRouter ==
  /\ Passes("router", "routerDone") /\ router = "none"
  /\ Asks("insertRouter") /\ UNCHANGED found

RouterInserted == Passes("routerDone", "attachment") /\ Waits("insertRouter") /\ UNCHANGED found

\* Variant of FindAttachment: the router of an attachment that is there already is
\* not patched.
FindAttachmentKeyed ==
  /\ stage = "attachment" /\ attachment # 0 /\ found' = attachment
  /\ Succeeds(1, [key |-> found']) /\ stage' = "end"
  /\ UNCHANGED <<gcp, operations, mishaps>>

FindAttachment ==
  /\ Passes("attachment", "patch") /\ attachment # 0 /\ found' = attachment
  /\ UNCHANGED operations

InsertAttachment ==
  /\ Passes("attachment", "attachmentDone") /\ attachment = 0
  /\ Asks("insertAttachment") /\ UNCHANGED found

AttachmentInserted ==
  /\ Passes("attachmentDone", "again") /\ Waits("insertAttachment") /\ UNCHANGED found

\* It is not missed when it is not there: patch_router finds no BGP peer then.
FindAttachmentAgain ==
  /\ Passes("again", "patch") /\ found' = attachment /\ UNCHANGED operations

PatchRouter ==
  /\ Passes("patch", "patched") /\ router # "none" /\ attachment # 0
  /\ Asks("patchRouter") /\ UNCHANGED found

\* The pairing key is read last; None has none.
KeyRead ==
  /\ stage = "patched" /\ Waits("patchRouter") /\ found # 0
  /\ Succeeds(1, [key |-> found]) /\ stage' = "end"
  /\ UNCHANGED <<gcp, found, mishaps>>

(***************************************************************************)
(* GcpNetwork.delete.                                                      *)
(***************************************************************************)
NoAttachment ==
  /\ Passes("findAttachment", "findRouter") /\ attachment = 0
  /\ UNCHANGED <<operations, found>>

DeleteAttachment ==
  /\ Passes("findAttachment", "attachmentGone") /\ attachment # 0
  /\ Asks("deleteAttachment") /\ UNCHANGED found

AttachmentDeleted ==
  /\ Passes("attachmentGone", "findRouter") /\ Waits("deleteAttachment") /\ UNCHANGED found

Returns ==
  /\ Reached(1) /\ stage' = "end"
  /\ UNCHANGED <<gcp, found, reported, failed, mishaps>>

NoRouter == stage = "findRouter" /\ router = "none" /\ Returns /\ UNCHANGED operations

\* GCP refuses to delete a router that is in use.
DeleteRouter ==
  /\ Passes("findRouter", "routerGone") /\ router # "none" /\ attachment = 0
  /\ Asks("deleteRouter") /\ UNCHANGED found

\* Variant of RouterDeleted: the operation is not waited for.
RouterDeletedSoon == stage = "routerGone" /\ UNCHANGED operations /\ Returns

RouterDeleted == stage = "routerGone" /\ Waits("deleteRouter") /\ Returns
-----------------------------------------------------------------------------
GcpInit ==
  /\ SessionInit
  /\ router = "none" /\ attachment = 0 /\ made = 0 /\ operations = {}
  /\ stage = "idle" /\ found = 0 /\ late = FALSE /\ erred = FALSE

GcpNext ==
  \/ OperationDone \/ OperationErred
  \/ GcpStartApply \/ GcpStartDestroy \/ GivesUp \/ GcpEnd \/ GcpDie
  \/ FindVpc \/ FindRouter \/ InsertRouter \/ RouterInserted \/ FindAttachment
  \/ InsertAttachment \/ AttachmentInserted \/ FindAttachmentAgain \/ PatchRouter \/ KeyRead
  \/ NoAttachment \/ DeleteAttachment \/ AttachmentDeleted
  \/ NoRouter \/ DeleteRouter \/ RouterDeleted

GcpSpec == GcpInit /\ [][GcpNext]_gcpVars
-----------------------------------------------------------------------------
Stages == {"idle", "end", "vpc", "router", "routerDone", "attachment", "attachmentDone", "again",
          "patch", "patched", "findAttachment", "attachmentGone", "findRouter", "routerGone"}

\* The operation a step waits for.
Awaited == [routerDone |-> "insertRouter", attachmentDone |-> "insertAttachment",
            patched |-> "patchRouter", attachmentGone |-> "deleteAttachment",
            routerGone |-> "deleteRouter"]

(***************************************************************************)
(* Types, and that a command that met no operation of an earlier one has   *)
(* at most the operation it is waiting for under way, until it gives up.   *)
(***************************************************************************)
GcpTypeOK ==
  /\ SessionOK(KeyFacts)
  /\ router \in {"none", "plain", "keyed"}
  /\ attachment \in 0..made /\ made \in 0..Keys /\ found \in 0..made
  /\ operations \subseteq Kinds /\ stage \in Stages
  /\ late \in BOOLEAN /\ erred \in BOOLEAN
  /\ stage = "idle" <=> phase = "idle"
  /\ ~late /\ stage \notin {"idle", "end"} =>
       operations \subseteq {Awaited[s] : s \in DOMAIN Awaited \cap {stage}}

(***************************************************************************)
(* The network is reported with the pairing key of the attachment there    *)
(* is, on a router whose peer has its MD5 key, also when earlier runs were *)
(* cut short; unless GCP was still at work for one of those, or one of the *)
(* operations ended in error, which nobody looks at.                       *)
(***************************************************************************)
Usable ==
  [][reported' # reported /\ phase' = "apply" /\ ~late /\ ~erred =>
       router = "keyed" /\ reported'[1] = {[key |-> attachment]}]_gcpVars

(***************************************************************************)
(* A destroy that ends well leaves neither attachment nor router, with the *)
(* same two exceptions.                                                    *)
(***************************************************************************)
GcpLeavesNothing ==
  phase = "destroy" /\ stage = "end" /\ failed = {} /\ ~late /\ ~erred =>
    router = "none" /\ attachment = 0
=============================================================================
