--------------------- MODULE CloudlabExperiment_proofs ----------------------
(***************************************************************************)
(* The invariants of CloudlabExperiment, for any number of commands and of *)
(* configurations.                                                         *)
(***************************************************************************)
EXTENDS CloudlabExperiment, TLAPS

Up == {"booted", "ready"}

\* The node has been read from an experiment that had booted.
ReadInv ==
  /\ step = "nodeWait" => experiment.state \in Up
  /\ step = "wait" /\ ~first => experiment.state \in Up

\* The experiment there is, if there is one, was started for configuration c.
Of(c) == experiment = None \/ (c # 0 /\ experiment.config = c)

\* What every step of an apply and of a destroy knows of the experiment, as long
\* as no command has left one behind: first what the file says, then what it is.
AgeInv ==
  ~kept =>
    /\ phase \in {"idle", "destroy"} \/ step = "network" => Of(savedConfig)
    /\ phase = "apply" /\ step \notin Unmaking \cup {"network"} => Of(config)

StepInv ==
  /\ step \in {"idle", "delete", "unmake", "terminate", "end"} \/ phase = "apply"
  /\ step = "delete" => phase = "destroy"
  /\ phase = "apply" /\ step \in Unmaking => Modified
  /\ phase = "destroy" /\ step = "delete" /\ Network \in Tracked => Network \in todo

IInv == TypeOK /\ StepInv /\ ReadInv /\ AgeInv /\ LeavesNothing
-----------------------------------------------------------------------------
USE CloudlabAssumption DEF Res, Network, Node

\* The types hold at first.
LEMMA TypeInit == Init => TypeOK
<1> SUFFICES ASSUME Init PROVE TypeOK
  OBVIOUS
<1>1. SessionOK(Facts)
  BY SessionAssumption DEF Init, SessionInit, SessionOK, NoFile, Unknown
<1>2. config \in 1..Configs /\ savedConfig \in 0..config
  BY DEF Init
<1>3. step \in {"idle"} /\ phase = "idle" /\ experiment = None
  BY DEF Init, SessionInit
<1>4. first \in BOOLEAN /\ gaveUp \in BOOLEAN /\ kept \in BOOLEAN
  BY DEF Init
<1> QED  BY <1>1, <1>2, <1>3, <1>4 DEF TypeOK

\* And so does the invariant: there is no experiment.
LEMMA Initially == Init => IInv
BY TypeInit DEF Init, IInv, StepInv, ReadInv, AgeInv, LeavesNothing, SessionInit, Of, None, Unmaking

(***************************************************************************)
(* The variables of the session keep their types.                          *)
(***************************************************************************)
\* The file after a command has the type of a file.
LEMMA SavesOK ==
  ASSUME SessionOK(Facts), NEW ok \in BOOLEAN, SaveApply(ok) \/ SaveDestroy \/ Dies
  PROVE  SessionOK(Facts)'
<1>1. saved' \in [known : [Res -> SUBSET Facts], failed : SUBSET Res, counted : BOOLEAN]
  <2>1. CASE SaveApply(ok)
    <3>1. Reconciled \in [Res -> SUBSET Facts] /\ failed \subseteq Res
      BY DEF SessionOK, Reconciled
    <3>2. {TRUE, \E r \in Res : reported[r] # {}} \subseteq BOOLEAN
      BY ZenonT(30)
    <3>3. PICK s \in [known : {Reconciled}, failed : {failed},
                      counted : {TRUE, \E r \in Res : reported[r] # {}}] : saved' = s
      BY <2>1 DEF SaveApply
    <3> QED  BY <3>1, <3>2, <3>3
  <2>2. CASE SaveDestroy
    BY <2>2 DEF SaveDestroy, SessionOK, NoFile, Unknown
  <2>3. CASE Dies
    BY <2>3 DEF Dies, SessionOK
  <2> QED  BY <2>1, <2>2, <2>3
<1>2. PICK command \in {"apply", "destroy"}, good \in BOOLEAN : Ends(command, good)
  BY DEF SaveApply, SaveDestroy, Dies, SessionOK
<1> QED  BY <1>1, <1>2 DEF SessionOK, Ends, Unknown

\* Every step keeps them.
LEMMA SessionStep ==
  ASSUME IInv, [Next]_vars
  PROVE  SessionOK(Facts)'
<1>0. SessionOK(Facts) /\ config \in 1..Configs
  BY DEF IInv, TypeOK
<1>1. ASSUME UNCHANGED session PROVE SessionOK(Facts)'
  BY <1>0, <1>1 DEF SessionOK, session
<1>2. ASSUME NEW r \in Res, Fails(r) PROVE SessionOK(Facts)'
  BY <1>0, <1>2 DEF Fails, Reached, SessionOK
<1>3. ASSUME NEW r \in Res, Reached(r), UNCHANGED <<reported, failed>> PROVE SessionOK(Facts)'
  BY <1>0, <1>3 DEF Reached, SessionOK
<1>4. CASE UNCHANGED vars \/ Server \/ Edit
  BY <1>1, <1>4 DEF vars, Server, Moves, Edit
<1>5. CASE StartApply
  BY <1>0, <1>5, SessionAssumption DEF StartApply, Begins, SessionOK
<1>6. CASE StartDestroy
  <2>1. Tracked \subseteq Res
    BY <1>0 DEF Tracked, Saved, SessionOK
  <2> QED  BY <1>0, <1>6, <2>1, SessionAssumption DEF StartDestroy, Begins, SessionOK
<1>7. CASE RaiseInCreate \/ RaiseInWait \/ RaiseInNode \/ Interrupt \/ RaiseInDelete
  BY <1>2, <1>7 DEF RaiseInCreate, RaiseInWait, RaiseInNode, Interrupt, RaiseInDelete
<1>8. CASE EndApply
  BY <1>0, <1>8, SavesOK DEF EndApply
<1>9. CASE EndDestroy
  BY <1>0, <1>9, SavesOK DEF EndDestroy
<1>10. CASE Die
  BY <1>0, <1>10, SavesOK DEF Die
<1>11. CASE Keep \/ Modify \/ KeepInstead \/ StartExperiment \/ FindExperiment \/ NodeRead
              \/ DeleteNetwork \/ Terminate
  BY <1>1, <1>11 DEF Keep, Modify, KeepInstead, StartExperiment, FindExperiment, NodeRead,
                     DeleteNetwork, Terminate, Goes
<1>12. CASE NetworkReady \/ NodeReported
  <2>1. experiment.config \in 1..Configs
    BY <1>12 DEF NetworkReady, NodeReported, IInv, TypeOK, ReadInv, Up, None
  <2>2. [config |-> experiment.config] \in Facts
    BY <2>1 DEF Facts
  <2>3. PICK r \in Res : Succeeds(r, [config |-> experiment.config])
    BY <1>12 DEF NetworkReady, NodeReported
  <2> QED  BY <1>0, <2>2, <2>3 DEF Succeeds, Reached, SessionOK
<1>13. CASE DeleteNode
  BY <1>3, <1>13 DEF DeleteNode
<1>14. CASE NoExperiment \/ Terminated
  BY <1>1, <1>3, <1>14 DEF NoExperiment, Terminated, Unmade
<1> QED
  BY <1>4, <1>5, <1>6, <1>7, <1>8, <1>9, <1>10, <1>11, <1>12, <1>13, <1>14 DEF Next, Program

(***************************************************************************)
(* The other variables, and what ties them together: one step for each     *)
(* action, from the types of the session after it.                         *)
(***************************************************************************)
LEMMA TypeStep ==
  ASSUME IInv, [Next]_vars
  PROVE  TypeOK'
<1>0. SessionOK(Facts)' /\ TypeOK
  BY SessionStep DEF IInv
<1> USE <1>0 DEF TypeOK
<1>1. CASE UNCHANGED vars
  BY <1>1 DEF vars, session, control, watch
<1>2. CASE Server
  BY <1>2 DEF Server, Moves, session, control, watch, None
<1>3. CASE Edit
  <2>1. config' \in 1..Configs /\ savedConfig' \in 0..config'
    BY <1>3 DEF Edit
  <2> QED  BY <1>3, <2>1 DEF Edit, session, watch
<1>13. CASE StartApply \/ StartDestroy
  <2>1. phase' # "idle" /\ step' \in {"network", "delete"} /\ gaveUp' \in BOOLEAN
    BY <1>13 DEF StartApply, StartDestroy, Begins, watch
  <2> QED  BY <1>13, <2>1 DEF StartApply, StartDestroy, control, watch
<1>4. CASE RaiseInCreate \/ RaiseInWait \/ RaiseInNode \/ RaiseInDelete
  <2>1. phase # "idle" /\ UNCHANGED <<phase, experiment, control, watch>>
    BY <1>4 DEF RaiseInCreate, RaiseInWait, RaiseInNode, RaiseInDelete, Fails, Reached
  <2>2. step' \in {"end", "node", "nodeWait"}
    BY <1>4 DEF RaiseInCreate, RaiseInWait, RaiseInNode, RaiseInDelete
  <2> QED  BY <2>1, <2>2 DEF control, watch
<1>5. CASE Interrupt
  <2>1. kept' \in BOOLEAN
    BY <1>5 DEF Interrupt
  <2> QED  BY <1>5, <2>1 DEF Interrupt, Fails, Reached, control
<1>6. CASE EndApply
  BY <1>6 DEF EndApply, SaveApply, Ends, watch
<1>7. CASE EndDestroy
  BY <1>7 DEF EndDestroy, SaveDestroy, Ends
<1>8. CASE Die
  BY <1>8 DEF Die, Dies, Ends, control
<1>9. CASE Keep \/ Modify \/ KeepInstead \/ FindExperiment \/ NodeRead \/ DeleteNetwork
  BY <1>9 DEF Keep, Modify, KeepInstead, FindExperiment, NodeRead, DeleteNetwork, Goes, After,
              session, control, watch
<1>10. CASE StartExperiment \/ Terminate
  BY <1>10 DEF StartExperiment, Terminate, Goes, After, session, control, watch, None
<1>11. CASE NetworkReady \/ NodeReported \/ DeleteNode
  BY <1>11 DEF NetworkReady, NodeReported, DeleteNode, Succeeds, Reached, control, watch
<1>12. CASE NoExperiment \/ Terminated
  BY <1>12 DEF NoExperiment, Terminated, Unmade, Reached, session, control, watch
<1> QED
  BY <1>1, <1>2, <1>3, <1>4, <1>5, <1>6, <1>7, <1>8, <1>9, <1>10, <1>11, <1>12, <1>13 DEF Next, Program

\* A command stays where its phase can be.
LEMMA StepStep ==
  ASSUME IInv, [Next]_vars
  PROVE  StepInv'
<1> USE DEF StepInv, IInv, TypeOK, Unmaking
<1>1. CASE UNCHANGED vars
  BY <1>1 DEF vars, session, control, watch, Modified, Tracked, Saved
<1>2. CASE Server
  BY <1>2 DEF Server, Moves, session, control, watch, Modified, Tracked, Saved
<1>3. CASE Edit \/ StartApply \/ StartDestroy
  BY <1>3 DEF Edit, StartApply, StartDestroy, Begins, session, control, watch, Modified, Tracked, Saved
<1>4. CASE RaiseInCreate \/ RaiseInWait \/ RaiseInNode \/ RaiseInDelete \/ Interrupt
  BY <1>4 DEF RaiseInCreate, RaiseInWait, RaiseInNode, RaiseInDelete, Interrupt, Fails, Reached
<1>5. CASE EndApply \/ EndDestroy \/ Die
  BY <1>5 DEF EndApply, EndDestroy, Die
<1>6. CASE Keep \/ Modify \/ KeepInstead \/ FindExperiment \/ NodeRead \/ DeleteNetwork
             \/ StartExperiment \/ Terminate
  BY <1>6 DEF Keep, Modify, KeepInstead, FindExperiment, NodeRead, DeleteNetwork, StartExperiment,
              Terminate, Goes, After, session, control, Modified
<1>7. CASE NetworkReady \/ NodeReported
  BY <1>7 DEF NetworkReady, NodeReported, Succeeds, Reached
<1>8. CASE DeleteNode
  BY <1>8 DEF DeleteNode, Reached, Tracked, Saved
<1>9. CASE NoExperiment \/ Terminated
  BY <1>9 DEF NoExperiment, Terminated, Unmade, Reached, session
<1> QED
  BY <1>1, <1>2, <1>3, <1>4, <1>5, <1>6, <1>7, <1>8, <1>9 DEF Next, Program

\* What has been read of the experiment stays so.
LEMMA ReadStep ==
  ASSUME IInv, [Next]_vars
  PROVE  ReadInv'
<1> USE DEF ReadInv, IInv, TypeOK, Up
<1>1. CASE UNCHANGED vars
  BY <1>1 DEF vars, session, control, watch
<1>2. CASE Server
  BY <1>2 DEF Server, Moves, session, control, watch, None
<1>3. CASE Edit \/ StartApply \/ StartDestroy
  BY <1>3 DEF Edit, StartApply, StartDestroy, session, control, watch
<1>4. CASE RaiseInCreate \/ RaiseInWait \/ RaiseInNode \/ RaiseInDelete \/ Interrupt
  BY <1>4 DEF RaiseInCreate, RaiseInWait, RaiseInNode, RaiseInDelete, Interrupt, control, watch
<1>5. CASE EndApply \/ EndDestroy \/ Die
  BY <1>5 DEF EndApply, EndDestroy, Die
<1>6. CASE Keep \/ Modify \/ KeepInstead \/ FindExperiment \/ NodeRead \/ DeleteNetwork
             \/ StartExperiment \/ Terminate
  BY <1>6 DEF Keep, Modify, KeepInstead, FindExperiment, NodeRead, DeleteNetwork, StartExperiment,
              Terminate, Goes, After, session, control, watch
<1>7. CASE NetworkReady \/ NodeReported \/ DeleteNode
  BY <1>7 DEF NetworkReady, NodeReported, DeleteNode, control, watch
<1>8. CASE NoExperiment \/ Terminated
  BY <1>8 DEF NoExperiment, Terminated, Unmade, control, watch
<1> QED
  BY <1>1, <1>2, <1>3, <1>4, <1>5, <1>6, <1>7, <1>8 DEF Next, Program

\* The experiment is that of the file or of the configuration.
LEMMA AgeStep ==
  ASSUME IInv, [Next]_vars
  PROVE  AgeInv'
<1> USE DEF AgeInv, StepInv, ReadInv, IInv, TypeOK, Of
<1>1. CASE UNCHANGED vars
  BY <1>1 DEF vars, session, control, watch, Unmaking
<1>2. CASE Server
  <2>1. experiment' = None \/ (experiment # None /\ experiment'.config = experiment.config)
    BY <1>2 DEF Server, Moves, None
  <2>2. UNCHANGED <<session, control, step, watch>>
    BY <1>2 DEF Server, Moves
  <2> QED  BY <2>1, <2>2 DEF session, control, watch, Unmaking
<1>3. CASE Edit \/ StartApply \/ StartDestroy
  BY <1>3 DEF Edit, StartApply, StartDestroy, Begins, session, control, watch, Unmaking
<1>4. CASE RaiseInCreate \/ RaiseInWait \/ RaiseInNode \/ RaiseInDelete
  BY <1>4 DEF RaiseInCreate, RaiseInWait, RaiseInNode, RaiseInDelete, Fails, Reached, control,
              watch, Unmaking
<1>5. CASE Interrupt
  BY <1>5 DEF Interrupt, Fails, Reached, control, Modified, Unmaking
<1>6. CASE EndApply
  BY <1>6 DEF EndApply, SaveApply, Ends, watch, Unmaking
<1>7. CASE EndDestroy
  BY <1>7 DEF EndDestroy, SaveDestroy, Ends
<1>8. CASE Die
  BY <1>8 DEF Die, Dies, Ends, control
<1>9. CASE Keep \/ Modify
  BY <1>9 DEF Keep, Modify, Modified, Goes, session, control, watch, Unmaking
<1>10. CASE KeepInstead
  BY <1>10 DEF KeepInstead
<1>11. CASE FindExperiment \/ NodeRead \/ DeleteNetwork
  BY <1>11 DEF FindExperiment, NodeRead, DeleteNetwork, Goes, After, session, control, watch, Unmaking
<1>12. CASE StartExperiment
  BY <1>12 DEF StartExperiment, Goes, After, session, control, watch
<1>13. CASE Terminate
  <2>1. experiment'.config = experiment.config
    BY <1>13 DEF Terminate, None
  <2> QED  BY <1>13, <2>1 DEF Terminate, Goes, session, control, watch, Unmaking
<1>14. CASE NetworkReady \/ NodeReported \/ DeleteNode
  BY <1>14 DEF NetworkReady, NodeReported, DeleteNode, Succeeds, Reached, control, watch, Unmaking
<1>15. CASE NoExperiment \/ Terminated
  BY <1>15 DEF NoExperiment, Terminated, Unmade, Reached, session, control, watch, Unmaking
<1> QED
  BY <1>1, <1>2, <1>3, <1>4, <1>5, <1>6, <1>7, <1>8, <1>9, <1>10, <1>11, <1>12, <1>13, <1>14,
     <1>15 DEF Next, Program

\* What a destroy has gone through is gone.
LEMMA LeaveStep ==
  ASSUME IInv, [Next]_vars
  PROVE  LeavesNothing'
<1> USE DEF LeavesNothing, StepInv, IInv, TypeOK
<1>1. CASE UNCHANGED vars
  BY <1>1 DEF vars, session, Tracked, Saved
<1>2. CASE Server
  BY <1>2 DEF Server, Moves, session, None, Tracked, Saved
<1>3. CASE Edit \/ StartApply \/ StartDestroy
  BY <1>3 DEF Edit, StartApply, StartDestroy, Begins, session
<1>4. CASE RaiseInCreate \/ RaiseInWait \/ RaiseInNode \/ RaiseInDelete \/ Interrupt
  BY <1>4 DEF RaiseInCreate, RaiseInWait, RaiseInNode, RaiseInDelete, Interrupt, Fails, Reached
<1>5. CASE EndApply \/ EndDestroy \/ Die
  BY <1>5 DEF EndApply, EndDestroy, Die, SaveApply, SaveDestroy, Dies, Ends
<1>6. CASE Keep \/ Modify \/ KeepInstead \/ FindExperiment \/ NodeRead \/ StartExperiment
             \/ Terminate
  BY <1>6 DEF Keep, Modify, KeepInstead, FindExperiment, NodeRead, StartExperiment,
              Terminate, Goes, session
<1>7. CASE DeleteNetwork
  BY <1>7 DEF DeleteNetwork, Goes, session, Tracked, Saved
<1>8. CASE NetworkReady \/ NodeReported \/ DeleteNode
  BY <1>8 DEF NetworkReady, NodeReported, DeleteNode, Succeeds, Reached
<1>9. CASE NoExperiment \/ Terminated
  BY <1>9 DEF NoExperiment, Terminated, Unmade, session
<1> QED
  BY <1>1, <1>2, <1>3, <1>4, <1>5, <1>6, <1>7, <1>8, <1>9 DEF Next, Program

\* The inductive invariant: types, where the program can be, what a node has been
\* read from, and how old the experiment is.
THEOREM Invariant == Spec => []IInv
<1>1. ASSUME IInv, [Next]_vars PROVE IInv'
  BY <1>1, TypeStep, StepStep, ReadStep, AgeStep, LeaveStep DEF IInv
<1> QED  BY Initially, <1>1, PTL DEF Spec
-----------------------------------------------------------------------------
\* Every variable keeps its type, and the counts in the file are those of a
\* configuration there has been.
THEOREM TypeCorrect == Spec => []TypeOK
BY Invariant, PTL DEF IInv

\* A step of the program that reports something: the network or the node.
LEMMA ReportStep ==
  ASSUME IInv, [Next]_vars, phase' = "apply", reported' # reported
  PROVE  NetworkReady \/ NodeReported
<1>1. CASE UNCHANGED vars
  BY <1>1 DEF vars, session
<1>2. CASE Server \/ Edit \/ StartApply \/ StartDestroy
  BY <1>2 DEF Server, Moves, Edit, StartApply, StartDestroy, Begins, session
<1>3. CASE RaiseInCreate \/ RaiseInWait \/ RaiseInNode \/ RaiseInDelete \/ Interrupt
  BY <1>3 DEF RaiseInCreate, RaiseInWait, RaiseInNode, RaiseInDelete, Interrupt, Fails
<1>4. CASE EndApply \/ EndDestroy \/ Die
  BY <1>4 DEF EndApply, EndDestroy, Die, SaveApply, SaveDestroy, Dies, Ends
<1>5. CASE Keep \/ Modify \/ KeepInstead \/ FindExperiment \/ NodeRead \/ StartExperiment
             \/ Terminate \/ DeleteNetwork
  BY <1>5 DEF Keep, Modify, KeepInstead, FindExperiment, NodeRead, StartExperiment, Terminate,
              DeleteNetwork, Goes, session
<1>6. CASE DeleteNode \/ NoExperiment \/ Terminated
  BY <1>6 DEF DeleteNode, NoExperiment, Terminated, Unmade, session
<1> QED
  BY <1>1, <1>2, <1>3, <1>4, <1>5, <1>6 DEF Next, Program

\* What a step of Reported says.
Report ==
  phase' = "apply" =>
    /\ reported'[Network] # reported[Network] => experiment.state = "ready" \/ gaveUp'
    /\ reported'[Node] # reported[Node] => experiment.state \in {"booted", "ready"}
    /\ \A r \in Res : \A f \in reported'[r] \ reported[r] : kept \/ f.config = config

\* Every step reports what there is.
LEMMA Reports ==
  ASSUME IInv, [Next]_vars
  PROVE  Report
<1> SUFFICES ASSUME phase' = "apply", reported' # reported PROVE Report
  BY DEF Report
<1>0. reported \in [Res -> SUBSET Facts] /\ Res = {Network, Node}
  BY DEF IInv, TypeOK, SessionOK
<1>1. ASSUME NEW r \in Res, Succeeds(r, [config |-> experiment.config])
      PROVE  /\ reported'[r] = {[config |-> experiment.config]}
             /\ \A n \in Res \ {r} : reported'[n] = reported[n]
  BY <1>0, <1>1 DEF Succeeds
<1>2. CASE NetworkReady
  <2>1. kept \/ experiment.config = config
    BY <1>2 DEF NetworkReady, IInv, StepInv, AgeInv, Of, None, Unmaking
  <2>2. experiment.state = "ready" \/ gaveUp'
    BY <1>2 DEF NetworkReady
  <2>3. Network \in Res /\ Succeeds(Network, [config |-> experiment.config])
    BY <1>2, <1>0 DEF NetworkReady
  <2>4. reported'[Network] = {[config |-> experiment.config]} /\ reported'[Node] = reported[Node]
    BY <2>3, <1>1, <1>0
  <2>5. \A f \in reported'[Network] : f.config = experiment.config
    BY <2>4
  <2> QED  BY <1>0, <2>1, <2>2, <2>4, <2>5 DEF Report
<1>3. CASE NodeReported
  <2>1. kept \/ experiment.config = config
    BY <1>3 DEF NodeReported, IInv, StepInv, ReadInv, AgeInv, Of, None, Unmaking, Up
  <2>2. experiment.state \in {"booted", "ready"}
    BY <1>3 DEF NodeReported, IInv, ReadInv, Up
  <2>3. Node \in Res /\ Succeeds(Node, [config |-> experiment.config])
    BY <1>3, <1>0 DEF NodeReported
  <2>4. reported'[Node] = {[config |-> experiment.config]} /\ reported'[Network] = reported[Network]
    BY <2>3, <1>1, <1>0
  <2>5. \A f \in reported'[Node] : f.config = experiment.config
    BY <2>4
  <2> QED  BY <1>0, <2>1, <2>2, <2>4, <2>5 DEF Report
<1> QED  BY <1>2, <1>3, ReportStep

\* A network is reported when it is ready or was given up, a node when it has
\* booted, both of the configuration at hand unless something was left behind.
THEOREM ReportedHolds == Spec => Reported
<1>1. IInv /\ [Next]_vars => [Report]_vars
  BY Reports
<1> QED  BY <1>1, Invariant, PTL DEF Spec, Reported, Report

\* A destroy that ends well and was about the network has terminated the
\* experiment.
THEOREM LeavesNothingHolds == Spec => []LeavesNothing
BY Invariant, PTL DEF IInv
=============================================================================
