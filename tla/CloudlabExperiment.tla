------------------------- MODULE CloudlabExperiment -------------------------
(***************************************************************************)
(* The Cloudlab provider: a network is an experiment with the name of the  *)
(* session, started if there is none of it, and its nodes are read from    *)
(* the status of the experiment.  When the counts of the configuration are *)
(* not those of the saved state, the experiment is terminated first.       *)
(*                                                                         *)
(* Cloudlab instantiates and terminates by itself; it says nothing but     *)
(* "ready" of an experiment whose execute services are still running.  Any *)
(* call may raise.  Resource 1 is the network, resource 2 its node.        *)
(***************************************************************************)
EXTENDS ProviderSession

CONSTANT Configs  \* how many times the user has a configuration, at most

ASSUME CloudlabAssumption == N = 2 /\ Configs \in Nat \ {0}

VARIABLES
  experiment,   \* its state, and the configuration it was started for
  config,       \* the configuration, counted
  savedConfig,  \* the configuration whose counts the session file has
  first,        \* another provider needs the network, which is waited for first
  step,         \* where in create, wait or delete the program is
  gaveUp,       \* wait_for_create has run out of polls in this command
  kept          \* a command has left an experiment whose counts the file does not have

control == <<config, savedConfig, first>>
watch   == <<gaveUp, kept>>
vars    == <<session, experiment, control, step, watch>>

Network == 1
Node    == 2
Facts   == [config : 1..Configs]

None == [state |-> "none", config |-> 0]
-----------------------------------------------------------------------------
Moves(from, to) ==
  /\ experiment.state = from /\ experiment' = [experiment EXCEPT !.state = to]
  /\ UNCHANGED <<session, control, step, watch>>

Server ==
  \/ Moves("created", "booted")
  \/ Moves("booted", "ready")
  \/ Moves("created", "failed")
  \/ /\ experiment.state = "terminating" /\ experiment' = None
     /\ UNCHANGED <<session, control, step, watch>>
-----------------------------------------------------------------------------
(***************************************************************************)
(* User, controller and provider.                                          *)
(***************************************************************************)
Edit ==
  /\ phase = "idle" /\ config < Configs
  /\ config' = config + 1
  /\ UNCHANGED <<session, experiment, savedConfig, first, step, watch>>

\* Variant of Modified: the provider never is.
Unmodified == FALSE

\* Provider.modified: the file has counts, and they are others.
Modified == savedConfig # 0 /\ savedConfig # config

StartApply ==
  /\ Begins("apply", Res) /\ step' = "network" /\ gaveUp' = FALSE
  /\ UNCHANGED <<experiment, control, kept>>

StartDestroy ==
  /\ Tracked # {}
  /\ Begins("destroy", Tracked) /\ step' = "delete"
  /\ UNCHANGED <<experiment, control, watch>>

\* create_resource of the network raises, and that of the node follows, unless
\* another provider needs the network.
RaiseInCreate ==
  /\ step = "find" /\ Fails(Network)
  /\ step' = IF first THEN "end" ELSE "node"
  /\ UNCHANGED <<experiment, control, watch>>

RaiseInWait ==
  /\ step = "wait" /\ Fails(Network)
  /\ step' = IF first THEN "end" ELSE "nodeWait"
  /\ UNCHANGED <<experiment, control, watch>>

\* Nothing is waited for once something has failed to be created.
RaiseInNode ==
  /\ step = "node" /\ Fails(Node) /\ step' = "end"
  /\ UNCHANGED <<experiment, control, watch>>

Unmaking == {"unmake", "terminate"}

\* The user interrupts an apply, which ends then.
Interrupt ==
  /\ phase = "apply" /\ step # "end"
  /\ Fails(IF step \in {"node", "nodeWait"} THEN Node ELSE Network) /\ step' = "end"
  /\ kept' = (kept \/ (Modified /\ step \in Unmaking \cup {"network"}))
  /\ UNCHANGED <<experiment, control, gaveUp>>

RaiseInDelete ==
  /\ phase = "destroy" /\ step \in Unmaking
  /\ Fails(Network) /\ step' = "end"
  /\ UNCHANGED <<experiment, control, watch>>

EndApply ==
  /\ phase = "apply" /\ step = "end"
  /\ SaveApply(failed = {})
  /\ savedConfig' = config /\ step' = "idle"
  /\ UNCHANGED <<experiment, config, first, watch>>

EndDestroy ==
  /\ step = "end" /\ SaveDestroy
  /\ savedConfig' = IF failed = {} THEN 0 ELSE savedConfig
  /\ kept' = (kept \/ (failed = {} /\ experiment # None)) /\ step' = "idle"
  /\ UNCHANGED <<experiment, config, first, gaveUp>>

Die ==
  /\ Dies /\ step' = "idle"
  /\ kept' = (kept \/ experiment # None)
  /\ UNCHANGED <<experiment, control, gaveUp>>
-----------------------------------------------------------------------------
Goes(from, to) == step = from /\ step' = to /\ UNCHANGED <<session, control>>

(***************************************************************************)
(* do_create_resource and do_wait_for_create_resource.                     *)
(***************************************************************************)
Keep == Goes("network", "find") /\ ~Modified /\ UNCHANGED <<experiment, watch>>

Modify == Goes("network", "unmake") /\ Modified /\ UNCHANGED <<experiment, watch>>

\* An exception while the old experiment is terminated is logged.
KeepInstead ==
  /\ phase = "apply" /\ step \in Unmaking /\ Goes(step, "find")
  /\ kept' = TRUE
  /\ UNCHANGED <<experiment, gaveUp>>

After == IF first THEN "wait" ELSE "node"

\* CloudNetwork.create
StartExperiment ==
  /\ Goes("find", After) /\ experiment = None
  /\ experiment' = [state |-> "created", config |-> config]
  /\ UNCHANGED watch

FindExperiment ==
  /\ Goes("find", After) /\ experiment # None
  /\ UNCHANGED <<experiment, watch>>

\* CloudlabNode.create
NodeRead ==
  /\ Goes("node", IF first THEN "nodeWait" ELSE IF failed = {} THEN "wait" ELSE "end")
  /\ experiment.state \in {"booted", "ready"}
  /\ UNCHANGED <<experiment, watch>>

\* CloudNetwork.wait_for_create, which ends by its last poll: then the network is
\* reported all the same, if there is a manifest to read.
NetworkReady ==
  /\ step = "wait"
  /\ experiment.state \notin {"none", "failed"}
  /\ gaveUp' = (experiment.state # "ready")
  /\ Succeeds(Network, [config |-> experiment.config])
  /\ step' = IF first THEN "node" ELSE "nodeWait"
  /\ UNCHANGED <<experiment, control, kept>>

\* The nodes are reported, whatever came of the wait for their network.
NodeReported ==
  /\ step = "nodeWait"
  /\ Succeeds(Node, [config |-> experiment.config]) /\ step' = "end"
  /\ UNCHANGED <<experiment, control, watch>>

(***************************************************************************)
(* do_delete_resource, and CloudNetwork.delete, which a modification uses  *)
(* too.                                                                    *)
(***************************************************************************)
\* Nothing is done about nodes.
DeleteNode ==
  /\ step = "delete" /\ Node \in todo
  /\ Reached(Node)
  /\ UNCHANGED <<reported, failed, experiment, control, step, watch>>

DeleteNetwork ==
  /\ Goes("delete", IF Network \in todo THEN "unmake" ELSE "end") /\ Node \notin todo
  /\ UNCHANGED <<experiment, watch>>

\* The experiment is gone: on with create, or that was it.
Unmade ==
  \/ /\ phase = "apply" /\ step' = "find"
     /\ UNCHANGED session
  \/ /\ phase = "destroy" /\ step' = "end"
     /\ Reached(Network) /\ UNCHANGED <<reported, failed>>

NoExperiment ==
  /\ step = "unmake" /\ experiment = None /\ Unmade
  /\ UNCHANGED <<experiment, control, watch>>

\* Variant of Terminate: that Cloudlab refuses is not looked at.
TerminateAnyway ==
  /\ Goes("unmake", "terminate") /\ experiment # None
  /\ experiment' \in [state : {experiment.state, "terminating"}, config : {experiment.config}]
  /\ UNCHANGED watch

Terminate ==
  /\ Goes("unmake", "terminate") /\ experiment # None
  /\ experiment' = [experiment EXCEPT !.state = "terminating"]
  /\ UNCHANGED watch

\* Variant of Terminated: there is no loop.
TerminatedSoon ==
  /\ step = "terminate" /\ Unmade
  /\ UNCHANGED <<experiment, control, watch>>

\* The loop has no bound.
Terminated ==
  /\ step = "terminate" /\ experiment = None /\ Unmade
  /\ UNCHANGED <<experiment, control, watch>>
-----------------------------------------------------------------------------
Init ==
  /\ SessionInit
  /\ experiment = None
  /\ config = 1 /\ savedConfig = 0 /\ first \in BOOLEAN
  /\ step = "idle" /\ gaveUp = FALSE /\ kept = FALSE

\* What keeps the program going; that a call raises is not among it.
Program ==
  \/ RaiseInWait \/ RaiseInNode \/ EndApply \/ EndDestroy
  \/ Keep \/ Modify \/ StartExperiment \/ FindExperiment \/ NodeRead \/ NetworkReady
  \/ NodeReported \/ DeleteNode \/ DeleteNetwork \/ NoExperiment \/ Terminate \/ Terminated

Next ==
  \/ Server \/ Edit \/ StartApply \/ StartDestroy \/ Interrupt \/ Die
  \/ RaiseInCreate \/ KeepInstead \/ RaiseInDelete \/ Program

Spec == Init /\ [][Next]_vars

\* The program runs, and Cloudlab ends what it has begun.
FairSpec == Spec /\ WF_vars(Program) /\ WF_vars(Server)
-----------------------------------------------------------------------------
(***************************************************************************)
(* Types, and that a file with counts is that of a configuration before.   *)
(***************************************************************************)
TypeOK ==
  /\ SessionOK(Facts)
  /\ experiment \in {None} \cup
       [state : {"created", "booted", "ready", "failed", "terminating"}, config : 1..Configs]
  /\ config \in 1..Configs /\ savedConfig \in 0..config /\ first \in BOOLEAN
  /\ step \in {"idle", "end", "network", "unmake", "terminate", "find", "node", "wait",
               "nodeWait", "delete"}
  /\ step = "idle" <=> phase = "idle"
  /\ gaveUp \in BOOLEAN /\ kept \in BOOLEAN

(***************************************************************************)
(* A network is reported when its experiment is ready, services included,  *)
(* unless the polls ran out, which is no error: the comparison after the   *)
(* loop never holds.  Nodes are reported of an experiment that has booted. *)
(* Both are those of the configuration at hand, unless a modification went *)
(* on, or was interrupted, without having terminated the old experiment,   *)
(* or a command has left one that the session file knows nothing of.       *)
(***************************************************************************)
Reported ==
  [][phase' = "apply" =>
       /\ reported'[Network] # reported[Network] =>
            experiment.state = "ready" \/ gaveUp'
       /\ reported'[Node] # reported[Node] =>
            experiment.state \in {"booted", "ready"}
       /\ \A r \in Res : \A f \in reported'[r] \ reported[r] :
            kept \/ f.config = config]_vars

(***************************************************************************)
(* A destroy that ends well has terminated the experiment, if it was about *)
(* the network: a file that has but a failed node is not.                  *)
(***************************************************************************)
LeavesNothing ==
  phase = "destroy" /\ step = "end" /\ failed = {} /\ Network \in Tracked =>
    experiment = None

(***************************************************************************)
(* Every command ends, though the wait for an experiment to be terminated  *)
(* has no bound: it relies on Cloudlab to end it.                          *)
(***************************************************************************)
CommandEnds == phase # "idle" ~> phase = "idle"
=============================================================================
