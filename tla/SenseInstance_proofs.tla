------------------------ MODULE SenseInstance_proofs ------------------------
(***************************************************************************)
(* The invariants of SenseInstance, for any number of commands, instances  *)
(* and configurations.                                                     *)
(***************************************************************************)
EXTENDS SenseInstance, TLAPS, FiniteSetTheorems

\* Where the program can be, and that the network is never passed over.
StepInv ==
  /\ step \in Unmaking \cup {"idle", "delete", "end"} \/ phase = "apply"
  /\ step = "delete" => phase = "destroy" /\ Network \in todo
  /\ phase = "apply" /\ step \in Unmaking => Modified
  /\ step = "create" /\ uuid = 0 => Listed = {}
  /\ step = "details" => uuid \in Listed /\ instances[uuid].state = "ready"

\* What a file knows of, it knows of the network, or of its failure.
FileInv ==
  /\ phase = "idle" => failed = {}
  /\ phase = "destroy" => failed \subseteq {Network}
  /\ phase = "apply" /\ Network \notin todo => reported[Network] # {} \/ Network \in failed
  /\ phase = "apply" /\ step \in {"node", "details", "end"} => Network \notin todo
  /\ Tracked # {} => Network \in Tracked

AtMostOne ==
  ~twice =>
    /\ \A i, j \in Listed : i = j
    /\ phase = "destroy" /\ step = "end" /\ failed = {} => Listed = {}

\* Instances were made for configuration c.
Of(c) == \A i \in Listed : c # 0 /\ instances[i].config = c

AgeInv ==
  ~kept /\ ~twice =>
    /\ phase \in {"idle", "destroy"} \/ step = "network" => Of(savedConfig)
    /\ phase = "apply" /\ step \notin Unmaking \cup {"network"} => Of(config)

IInv == TypeOK /\ StepInv /\ FileInv /\ AtMostOne /\ AgeInv
-----------------------------------------------------------------------------
USE SenseAssumption DEF Res, Network, Node

States == {"new", "compiled", "committing", "ready", "failed", "cancelling", "cancelled", "deleted"}

\* An instance that changes its state, and is there still.
LEMMA BecomesListed ==
  ASSUME TypeOK, NEW i \in Listed, NEW s \in States \ {"new", "deleted"}, Becomes(i, s)
  PROVE  /\ instances' \in [Id -> [state : States, config : 0..Configs]]
         /\ Listed' = Listed
         /\ \A j \in Id : instances'[j].config = instances[j].config
         /\ \A j \in Id \ {i} : instances'[j] = instances[j]
         /\ instances'[i].state = s
<1>1. instances \in [Id -> [state : States, config : 0..Configs]] /\ i \in Id
  BY DEF TypeOK, States, Listed
<1>2. instances' = [instances EXCEPT ![i] = [instances[i] EXCEPT !.state = s]]
  BY <1>1 DEF Becomes
<1>3. [instances[i] EXCEPT !.state = s] \in [state : States, config : 0..Configs]
  BY <1>1
<1>4. \A j \in Id : instances'[j] = IF j = i THEN [instances[i] EXCEPT !.state = s] ELSE instances[j]
  BY <1>1, <1>2
<1>5. instances'[i].state = s /\ instances'[i].config = instances[i].config
  BY <1>1, <1>4
<1>6. instances' \in [Id -> [state : States, config : 0..Configs]]
  BY <1>1, <1>2, <1>3
<1>7. Listed' = Listed
  BY <1>4, <1>5 DEF Listed
<1> QED  BY <1>1, <1>4, <1>5, <1>6, <1>7

\* An instance that is deleted.
LEMMA BecomesDeleted ==
  ASSUME TypeOK, NEW i \in Listed, Becomes(i, "deleted")
  PROVE  /\ instances' \in [Id -> [state : States, config : 0..Configs]]
         /\ Listed' = Listed \ {i}
         /\ \A j \in Id : instances'[j].config = instances[j].config
<1>1. instances \in [Id -> [state : States, config : 0..Configs]] /\ i \in Id
  BY DEF TypeOK, States, Listed
<1>2. instances' = [instances EXCEPT ![i] = [instances[i] EXCEPT !.state = "deleted"]]
  BY <1>1 DEF Becomes
<1>3. [instances[i] EXCEPT !.state = "deleted"] \in [state : States, config : 0..Configs]
  BY <1>1 DEF States
<1>4. \A j \in Id : instances'[j] = IF j = i THEN [instances[i] EXCEPT !.state = "deleted"]
                                     ELSE instances[j]
  BY <1>1, <1>2
<1>5. instances'[i].state = "deleted" /\ instances'[i].config = instances[i].config
  BY <1>1, <1>4
<1>6. instances' \in [Id -> [state : States, config : 0..Configs]]
  BY <1>1, <1>2, <1>3
<1>7. Listed' = Listed \ {i}
  BY <1>4, <1>5 DEF Listed
<1> QED  BY <1>1, <1>4, <1>5, <1>6, <1>7

\* A new instance is listed, with the configuration at hand.
LEMMA Created ==
  ASSUME TypeOK, CreateInstance
  PROVE  /\ uuid' \in Id \ Listed
         /\ instances' \in [Id -> [state : States, config : 0..Configs]]
         /\ Listed' = Listed \cup {uuid'}
         /\ instances'[uuid'] = [state |-> "compiled", config |-> config]
         /\ \A j \in Id \ {uuid'} : instances'[j] = instances[j]
<1>1. instances \in [Id -> [state : States, config : 0..Configs]]
  BY DEF TypeOK, States
<1>2. uuid' \in Id \ Listed
  BY DEF CreateInstance, Fresh, Listed
<1>3. [state |-> "compiled", config |-> config] \in [state : States, config : 0..Configs]
  BY DEF TypeOK, States
<1>4. instances' = [instances EXCEPT ![uuid'] = [state |-> "compiled", config |-> config]]
  BY DEF CreateInstance
<1>5. instances'[uuid'] = [state |-> "compiled", config |-> config]
      /\ \A j \in Id \ {uuid'} : instances'[j] = instances[j]
  BY <1>1, <1>2, <1>4
<1>6. instances' \in [Id -> [state : States, config : 0..Configs]]
  BY <1>1, <1>3, <1>4
<1>7. Listed' = Listed \cup {uuid'}
  BY <1>2, <1>5 DEF Listed
<1> QED  BY <1>2, <1>5, <1>6, <1>7

\* Sense at work: instances stay listed, and those that are ready stay so.
LEMMA Working ==
  ASSUME TypeOK, Works
  PROVE  /\ instances' \in [Id -> [state : States, config : 0..Configs]]
         /\ Listed' = Listed
         /\ \A j \in Id : instances'[j].config = instances[j].config
         /\ \A j \in Id : instances[j].state = "ready" => instances'[j].state = "ready"
<1>1. PICK i \in Id, s \in {<<"committing", "ready">>, <<"committing", "failed">>,
                            <<"cancelling", "cancelled">>, <<"cancelling", "failed">>} :
        instances[i].state = s[1] /\ Becomes(i, s[2])
  BY DEF Works
<1>2. s[1] \in {"committing", "cancelling"} /\ s[2] \in States \ {"new", "deleted"}
  BY DEF States
<1>3. i \in Listed
  BY <1>1, <1>2 DEF Listed
<1> QED  BY <1>1, <1>2, <1>3, BecomesListed

\* Steps that look at the instances, and go on.
Looking == \/ Keep \/ Modify \/ KeepInstead \/ Find \/ FindNone \/ CreateAgain \/ Status
           \/ NodeFound \/ DeleteNetwork \/ Cancelled \/ CancelReady

\* Steps that end what was to be deleted.
Ending == NoInstance \/ DeleteCompiled \/ DeleteInstance

\* Next, with the actions that do alike taken together.
LEMMA Actions ==
  ASSUME [Next]_vars
  PROVE  \/ UNCHANGED vars \/ Works \/ Edit \/ StartApply \/ StartDestroy \/ Raise
         \/ Interrupt \/ RaiseInDelete \/ EndApply \/ EndDestroy \/ Die \/ Looking
         \/ CreateInstance \/ Provision \/ NetworkCreated \/ NodeCreated \/ DeleteNode
         \/ Cancel \/ Ending
BY DEF Next, Looking, Ending

\* None of those touches Sense or the session.
LEMMA Looks ==
  ASSUME Looking
  PROVE  UNCHANGED <<session, control, instances, twice>>
BY DEF Looking, Keep, Modify, KeepInstead, Find, FindNone, CreateAgain, Status, NodeFound,
       DeleteNetwork, Cancelled, CancelReady, Goes, watch

\* There is no instance and no file.
LEMMA Initially == Init => IInv
<1> SUFFICES ASSUME Init PROVE IInv
  OBVIOUS
<1>1. SessionOK(Facts)
  BY SessionAssumption DEF Init, SessionInit, SessionOK, NoFile, Unknown
<1>2. step = "idle" /\ phase = "idle" /\ failed = {} /\ saved = NoFile /\ uuid = 0
  BY DEF Init, SessionInit
<1>3. Listed = {} /\ Tracked = {}
  BY <1>2 DEF Init, Listed, Tracked, Saved, NoFile, Unknown
<1>4. instances \in [Id -> [state : States, config : 0..Configs]]
  BY DEF Init, States
<1>5. config \in 1..Configs /\ savedConfig \in 0..Configs
  BY DEF Init
<1>6. twice \in BOOLEAN /\ kept \in BOOLEAN
  BY DEF Init
<1>7. TypeOK
  BY <1>1, <1>2, <1>4, <1>5, <1>6 DEF TypeOK, States, Steps
<1> QED  BY <1>2, <1>3, <1>7 DEF IInv, StepInv, FileInv, AtMostOne, AgeInv, Of, Unmaking

(***************************************************************************)
(* The variables of the session keep their types.                          *)
(***************************************************************************)
\* The file after a command has the type of a file.
LEMMA SavesOK ==
  ASSUME SessionOK(Facts), NEW ok \in BOOLEAN, SaveApply(ok) \/ SaveDestroy \/ Dies
  PROVE  SessionOK(Facts)'
<1>1. saved' \in [known : [Res -> SUBSET Facts], failed : SUBSET Res, counted : BOOLEAN]
  <2>1. CASE SaveApply(ok)
    <3>1. Reconciled \in [Res -> SUBSET Facts] /\ failed \subseteq Res
      BY DEF SessionOK, Reconciled
    <3>2. {TRUE, \E r \in Res : reported[r] # {}} \subseteq BOOLEAN
      BY ZenonT(30)
    <3>3. PICK s \in [known : {Reconciled}, failed : {failed},
                      counted : {TRUE, \E r \in Res : reported[r] # {}}] : saved' = s
      BY <2>1 DEF SaveApply
    <3> QED  BY <3>1, <3>2, <3>3
  <2>2. CASE SaveDestroy
    BY <2>2 DEF SaveDestroy, SessionOK, NoFile, Unknown
  <2>3. CASE Dies
    BY <2>3 DEF Dies, SessionOK
  <2> QED  BY <2>1, <2>2, <2>3
<1>2. PICK command \in {"apply", "destroy"}, good \in BOOLEAN : Ends(command, good)
  BY DEF SaveApply, SaveDestroy, Dies, SessionOK
<1> QED  BY <1>1, <1>2 DEF SessionOK, Ends, Unknown

\* Every step keeps them.
LEMMA SessionStep ==
  ASSUME IInv, [Next]_vars
  PROVE  SessionOK(Facts)'
<1>0. SessionOK(Facts)
  BY DEF IInv, TypeOK
<1>1. ASSUME UNCHANGED session PROVE SessionOK(Facts)'
  BY <1>0, <1>1 DEF SessionOK, session
<1>2. ASSUME NEW r \in Res, Reached(r), UNCHANGED <<reported, failed>> PROVE SessionOK(Facts)'
  BY <1>0, <1>2 DEF Reached, SessionOK
<1>3. CASE UNCHANGED vars \/ Works \/ Edit \/ CreateInstance \/ Provision \/ Cancel
  BY <1>1, <1>3 DEF vars, Works, Edit, CreateInstance, Provision, Cancel, Goes
<1>4. CASE StartApply
  BY <1>0, <1>4, SessionAssumption DEF StartApply, Begins, SessionOK
<1>5. CASE StartDestroy
  <2>1. Tracked \subseteq Res
    BY <1>0 DEF Tracked, Saved, SessionOK
  <2> QED  BY <1>0, <1>5, <2>1, SessionAssumption DEF StartDestroy, Begins, SessionOK
<1>6. CASE Raise \/ Interrupt \/ RaiseInDelete
  <2>1. PICK r \in Res : Fails(r)
    BY <1>6 DEF Raise, Interrupt, RaiseInDelete, Fail
  <2> QED  BY <1>0, <2>1 DEF Fails, Reached, SessionOK
<1>7. CASE EndApply
  BY <1>0, <1>7, SavesOK DEF EndApply
<1>8. CASE EndDestroy
  BY <1>0, <1>8, SavesOK DEF EndDestroy
<1>9. CASE Die
  BY <1>0, <1>9, SavesOK DEF Die
<1>10. CASE Looking
  BY <1>1, <1>10, Looks
<1>11. CASE NetworkCreated
  <2>1. [instance |-> uuid] \in Facts
    BY <1>11 DEF NetworkCreated, Facts, IInv, TypeOK, Listed
  <2> QED  BY <1>0, <1>11, <2>1 DEF NetworkCreated, Succeeds, Reached, SessionOK
<1>12. CASE NodeCreated
  <2>1. PICK i \in Listed : Succeeds(Node, [instance |-> i])
    BY <1>12 DEF NodeCreated
  <2>2. [instance |-> i] \in Facts
    BY DEF Facts, Listed
  <2> QED  BY <1>0, <2>1, <2>2 DEF Succeeds, Reached, SessionOK
<1>13. CASE DeleteNode
  BY <1>2, <1>13 DEF DeleteNode
<1>14. CASE Ending
  BY <1>1, <1>2, <1>14 DEF Ending, NoInstance, DeleteCompiled, DeleteInstance, Unmade
<1> QED
  BY <1>3, <1>4, <1>5, <1>6, <1>7, <1>8, <1>9, <1>10, <1>11, <1>12, <1>13, <1>14, Actions

(***************************************************************************)
(* The instances, and the identifier of the one at hand.                   *)
(***************************************************************************)
LEMMA Still ==
  ASSUME UNCHANGED instances
  PROVE  Listed' = Listed
BY DEF Listed

\* Instances keep their type.
LEMMA InstancesStep ==
  ASSUME IInv, [Next]_vars
  PROVE  instances' \in [Id -> [state : States, config : 0..Configs]]
<1>0. TypeOK /\ instances \in [Id -> [state : States, config : 0..Configs]]
  BY DEF IInv, TypeOK, States
<1>1. CASE UNCHANGED instances
  BY <1>0, <1>1
<1>2. CASE Works
  BY <1>0, <1>2, Working
<1>3. CASE CreateInstance
  BY <1>0, <1>3, Created
<1>4. CASE Provision
  <2>1. uuid \in Listed
    BY <1>4 DEF Provision, Goes, IInv, TypeOK
  <2> QED  BY <1>0, <1>1, <1>4, <2>1, BecomesListed DEF Provision, States
<1>5. CASE Cancel
  BY <1>0, <1>5, BecomesListed DEF Cancel, States
<1>6. CASE Ending
  <2>1. step = "gone" => uuid \in Listed
    BY DEF IInv, TypeOK
  <2> QED  BY <1>0, <1>1, <1>6, <2>1, BecomesDeleted DEF Ending, NoInstance, DeleteCompiled, DeleteInstance
<1>7. CASE Looking
  BY <1>1, <1>7, Looks
<1>8. CASE \/ UNCHANGED vars \/ Edit \/ StartApply \/ StartDestroy \/ Raise \/ Interrupt
           \/ RaiseInDelete \/ EndApply \/ EndDestroy \/ Die \/ NetworkCreated \/ NodeCreated
           \/ DeleteNode
  BY <1>1, <1>8 DEF vars, Edit, StartApply, StartDestroy, Raise, Interrupt, RaiseInDelete,
     EndApply, EndDestroy, Die, NetworkCreated, NodeCreated, DeleteNode
<1> QED  BY <1>2, <1>3, <1>4, <1>5, <1>6, <1>7, <1>8, Actions

\* What the program takes for an instance is one.
LEMMA UuidStep ==
  ASSUME IInv, [Next]_vars
  PROVE  /\ uuid' \in 0..Ids
         /\ step' \in {"created", "status", "wait", "cancelled", "gone"} => uuid' \in Listed'
<1>0. /\ uuid \in 0..Ids /\ TypeOK
      /\ step \in {"created", "status", "wait", "cancelled", "gone"} => uuid \in Listed
  BY DEF IInv, TypeOK
<1>1. Listed \subseteq Id
  BY DEF Listed
<1>2. CASE UNCHANGED vars \/ Edit
  BY <1>0, <1>2, Still DEF vars, Edit, session
<1>3. CASE Works
  BY <1>0, <1>3, Working DEF Works
<1>4. CASE \/ StartApply \/ StartDestroy \/ Raise \/ Interrupt \/ RaiseInDelete \/ EndApply
           \/ EndDestroy \/ Die
  BY <1>0, <1>4 DEF StartApply, StartDestroy, Raise, Fail, Follows, Interrupt, RaiseInDelete,
     EndApply, EndDestroy, Die
<1>5. CASE Looking
  <2>1. Listed' = Listed
    BY <1>5, Looks, Still
  <2>2. \/ uuid' = uuid /\ step' \in {"find", "unmake", "create", "end"}
        \/ uuid' = uuid /\ step = "created"
        \/ uuid' = uuid /\ step = "cancelled"
        \/ uuid' \in Listed
        \/ uuid' = 0 /\ step' = "create"
    <3>1. CASE Keep \/ Modify \/ KeepInstead \/ CreateAgain \/ Status \/ CancelReady
      BY <3>1 DEF Keep, Modify, KeepInstead, CreateAgain, Status, CancelReady, Goes
    <3>2. CASE DeleteNetwork
      BY <3>2 DEF DeleteNetwork, Goes
    <3>3. CASE Find \/ FindNone
      BY <3>3 DEF Find, FindNone, Goes
    <3>4. CASE NodeFound \/ Cancelled
      BY <3>4 DEF NodeFound, Cancelled
    <3> QED  BY <1>5, <3>1, <3>2, <3>3, <3>4 DEF Looking
  <2>3. \A i \in Listed : i \in 0..Ids
    BY <1>1 DEF Id
  <2>4. 0 \in 0..Ids
    OBVIOUS
  <2> QED  BY <1>0, <2>1, <2>2, <2>3, <2>4
<1>6. CASE CreateInstance
  <2>1. uuid' \in Id /\ uuid' \in Listed'
    BY <1>0, <1>6, Created
  <2> QED  BY <2>1 DEF Id
<1>7. CASE Provision
  <2>1. uuid \in Listed /\ uuid' = uuid
    BY <1>0, <1>7 DEF Provision, Goes
  <2>2. Listed' = Listed
    BY <1>0, <1>7, <2>1, Still, BecomesListed DEF Provision, States
  <2> QED  BY <1>0, <2>1, <2>2
<1>8. CASE NetworkCreated \/ NodeCreated \/ DeleteNode
  BY <1>0, <1>8 DEF NetworkCreated, NodeCreated, DeleteNode
<1>9. CASE Cancel
  <2>1. PICK i \in Listed : Becomes(i, "cancelling") /\ uuid' = i
    BY <1>9 DEF Cancel
  <2>2. Listed' = Listed
    BY <1>0, <2>1, BecomesListed DEF States
  <2> QED  BY <1>1, <2>1, <2>2 DEF Id
<1>10. CASE Ending
  <2>1. step' \in {"find", "end"}
    BY <1>10 DEF Ending, NoInstance, DeleteCompiled, DeleteInstance, Unmade
  <2>2. uuid' \in 0..Ids
    BY <1>0, <1>1, <1>10 DEF Ending, NoInstance, DeleteCompiled, DeleteInstance, Id
  <2> QED  BY <2>1, <2>2
<1> QED
  BY <1>2, <1>3, <1>4, <1>5, <1>6, <1>7, <1>8, <1>9, <1>10, Actions

\* The program counter, and the configurations, keep their types.
LEMMA ControlStep ==
  ASSUME IInv, [Next]_vars
  PROVE  /\ config' \in 1..Configs /\ savedConfig' \in 0..Configs
         /\ step' \in Steps /\ (step' = "idle" <=> phase' = "idle")
<1>0. /\ config \in 1..Configs /\ savedConfig \in 0..Configs
      /\ step \in Steps /\ (step = "idle" <=> phase = "idle")
  BY DEF IInv, TypeOK
<1> USE <1>0
<1>1. CASE UNCHANGED vars
  BY <1>1 DEF vars, session, control
<1>2. CASE Works
  BY <1>2 DEF Works, session, control
<1>3. CASE Edit
  BY <1>3 DEF Edit, session
<1>4. CASE StartApply \/ StartDestroy
  BY <1>4 DEF StartApply, StartDestroy, Begins, control, Steps
<1>5. CASE Raise \/ Interrupt \/ RaiseInDelete
  <2>1. phase # "idle" /\ UNCHANGED <<phase, control>>
    BY <1>5 DEF Raise, Fail, Interrupt, RaiseInDelete, Fails, Reached
  <2>2. step' \in {"node", "end"}
    BY <1>5 DEF Raise, Fail, Follows, Interrupt, RaiseInDelete
  <2> QED  BY <2>1, <2>2 DEF control, Steps
<1>6. CASE EndApply
  BY <1>6 DEF EndApply, SaveApply, Ends, Steps
<1>7. CASE EndDestroy
  BY <1>7 DEF EndDestroy, SaveDestroy, Ends, Steps
<1>8. CASE Die
  BY <1>8 DEF Die, Dies, Ends, control, Steps
<1>9. CASE Looking
  <2>1. step # "idle" /\ step' \in Steps \ {"idle"}
    BY <1>9 DEF Looking, Keep, Modify, KeepInstead, Find, FindNone, CreateAgain, Status,
       NodeFound, DeleteNetwork, Cancelled, CancelReady, Goes, Unmaking, Steps
  <2> QED  BY <1>9, <2>1, Looks DEF session, control
<1>10. CASE CreateInstance \/ Provision \/ Cancel
  BY <1>10 DEF CreateInstance, Provision, Cancel, Goes, session, control, Steps
<1>11. CASE NetworkCreated \/ NodeCreated \/ DeleteNode
  BY <1>11 DEF NetworkCreated, NodeCreated, DeleteNode, Succeeds, Reached, control, Steps
<1>12. CASE Ending
  BY <1>12 DEF Ending, NoInstance, DeleteCompiled, DeleteInstance, Unmade, Reached, session,
     control, Steps
<1> QED
  BY <1>1, <1>2, <1>3, <1>4, <1>5, <1>6, <1>7, <1>8, <1>9, <1>10, <1>11, <1>12, Actions

\* All of the types.
LEMMA TypeStep ==
  ASSUME IInv, [Next]_vars
  PROVE  TypeOK'
<1>1. twice' \in BOOLEAN
  <2>1. twice \in BOOLEAN
    BY DEF IInv, TypeOK
  <2>2. CASE CreateInstance
    BY <2>2 DEF CreateInstance
  <2>3. twice' = twice \/ CreateInstance
    BY Looks, Actions DEF vars, Works, Edit, StartApply, StartDestroy, Raise, Interrupt,
       RaiseInDelete, EndApply, EndDestroy, Die, Provision, NetworkCreated, NodeCreated,
       DeleteNode, Cancel, Ending, NoInstance, DeleteCompiled, DeleteInstance, watch
  <2> QED  BY <2>1, <2>2, <2>3
<1>2. kept' \in BOOLEAN
  <2>1. kept \in BOOLEAN
    BY DEF IInv, TypeOK
  <2>2. CASE Interrupt \/ Die \/ KeepInstead
    BY <2>2 DEF Interrupt, Die, KeepInstead
  <2>3. CASE Looking
    BY <2>1, <2>2, <2>3 DEF Looking, Keep, Modify, Find, FindNone, CreateAgain, Status,
       NodeFound, DeleteNetwork, Cancelled, CancelReady, watch
  <2>4. kept' = kept \/ Interrupt \/ Die \/ Looking
    BY Actions DEF vars, Works, Edit, StartApply, StartDestroy, Raise, RaiseInDelete, EndApply,
       EndDestroy, CreateInstance, Provision, NetworkCreated, NodeCreated, DeleteNode, Cancel,
       Ending, NoInstance, DeleteCompiled, DeleteInstance, watch
  <2> QED  BY <2>1, <2>2, <2>3, <2>4
<1> QED
  BY <1>1, <1>2, SessionStep, InstancesStep, UuidStep, ControlStep DEF TypeOK, States

(***************************************************************************)
(* Where the program is, and what it has found there.                      *)
(***************************************************************************)
LEMMA StepStep ==
  ASSUME IInv, [Next]_vars
  PROVE  StepInv'
<1> USE DEF StepInv, Unmaking
<1>0. /\ StepInv /\ TypeOK /\ Listed \subseteq Id
      /\ step = "idle" <=> phase = "idle"
  BY DEF IInv, TypeOK, Listed
<1>1. CASE UNCHANGED vars
  BY <1>0, <1>1, Still DEF vars, session, control, Modified
<1>2. CASE Works
  <2>1. UNCHANGED <<session, control, step, uuid>>
    BY <1>2 DEF Works
  <2>2. Listed' = Listed /\ \A j \in Id : instances[j].state = "ready" => instances'[j].state = "ready"
    BY <1>0, <1>2, Working
  <2> QED  BY <1>0, <2>1, <2>2 DEF session, control, Modified
<1>3. CASE Edit
  BY <1>0, <1>3 DEF Edit, session
<1>4. CASE StartApply
  BY <1>4 DEF StartApply, Begins
<1>5. CASE StartDestroy
  BY <1>5 DEF StartDestroy, Begins, IInv, FileInv
<1>6. CASE Raise \/ Interrupt \/ RaiseInDelete
  <2>1. step' \in {"node", "end"} /\ phase' = phase
    BY <1>6 DEF Raise, Fail, Follows, Interrupt, RaiseInDelete, Fails, Reached
  <2>2. step' = "end" \/ phase = "apply"
    BY <1>6 DEF Raise, Interrupt, RaiseInDelete
  <2> QED  BY <2>1, <2>2
<1>7. CASE EndApply \/ EndDestroy \/ Die
  BY <1>7 DEF EndApply, EndDestroy, Die
<1>8. CASE Looking
  <2>1. UNCHANGED <<session, control, instances>> /\ Listed' = Listed
    BY <1>8, Looks, Still
  <2>2. CASE Keep \/ Modify
    BY <1>0, <2>1, <2>2 DEF Keep, Modify, Goes, session, control, Modified
  <2>3. CASE KeepInstead \/ Find \/ FindNone
    BY <1>0, <2>1, <2>3 DEF KeepInstead, Find, FindNone, Goes, session
  <2>4. CASE CreateAgain \/ Status
    <3>1. uuid \in Id
      BY <1>0, <2>4 DEF CreateAgain, Status, Goes, IInv, TypeOK
    <3>2. uuid' # 0
      BY <2>4, <3>1 DEF CreateAgain, Status, Id
    <3> QED  BY <1>0, <2>1, <2>4, <3>2 DEF CreateAgain, Status, Goes, session
  <2>5. CASE NodeFound
    BY <1>0, <2>1, <2>5 DEF NodeFound, Goes, session
  <2>6. CASE DeleteNetwork
    BY <1>0, <2>1, <2>6 DEF DeleteNetwork, Goes, session
  <2>7. CASE Cancelled \/ CancelReady
    BY <1>0, <2>1, <2>7 DEF Cancelled, CancelReady, Goes, session, control, Modified
  <2> QED  BY <1>8, <2>2, <2>3, <2>4, <2>5, <2>6, <2>7 DEF Looking
<1>9. CASE CreateInstance \/ Provision
  <2>1. step' \in {"created", "wait"} /\ step \in {"create", "status"} /\ phase' = phase
    BY <1>9 DEF CreateInstance, Provision, Goes, session
  <2> QED  BY <1>0, <2>1
<1>10. CASE Cancel
  BY <1>0, <1>10 DEF Cancel, Goes, session, control, Modified
<1>11. CASE NetworkCreated \/ NodeCreated
  BY <1>11 DEF NetworkCreated, NodeCreated, Succeeds, Reached
<1>12. CASE DeleteNode
  BY <1>0, <1>12, Still DEF DeleteNode, Reached, control
<1>13. CASE Ending
  <2>1. (phase = "apply" /\ phase' = "apply" /\ step' = "find") \/ step' = "end"
    BY <1>13 DEF Ending, NoInstance, DeleteCompiled, DeleteInstance, Unmade, session
  <2> QED  BY <2>1
<1> QED
  BY <1>1, <1>2, <1>3, <1>4, <1>5, <1>6, <1>7, <1>8, <1>9, <1>10, <1>11, <1>12, <1>13, Actions

(***************************************************************************)
(* What the session file knows of.                                         *)
(***************************************************************************)
LEMMA SavedByApply ==
  ASSUME IInv, EndApply
  PROVE  Network \in Tracked'
<1>1. /\ phase = "apply" /\ step = "end" /\ SaveApply(failed = {})
      /\ saved.known \in [Res -> SUBSET Facts] /\ failed \subseteq Res
  BY DEF EndApply, IInv, TypeOK, SessionOK
<1>2. reported[Network] # {} \/ Network \in failed
  BY <1>1 DEF IInv, FileInv
<1>3. saved'.known = Reconciled /\ saved'.failed = failed
  BY <1>1 DEF SaveApply
<1>4. Reconciled[Network] # {} \/ Network \in failed
  BY <1>2 DEF Reconciled
<1> QED  BY <1>3, <1>4 DEF Tracked, Saved

\* A destroy keeps the network if it keeps anything.
LEMMA SavedByDestroy ==
  ASSUME IInv, EndDestroy
  PROVE  Tracked' # {} => Network \in Tracked'
<1>1. phase = "destroy" /\ SaveDestroy /\ failed \subseteq {Network}
  BY DEF EndDestroy, SaveDestroy, IInv, FileInv
<1>2. CASE failed = {}
  <2>1. saved' = NoFile
    BY <1>1, <1>2 DEF SaveDestroy
  <2> QED  BY <2>1 DEF Tracked, Saved, NoFile, Unknown
<1>3. CASE failed # {}
  <2>1. saved'.failed = failed
    BY <1>1, <1>3 DEF SaveDestroy
  <2> QED  BY <1>1, <1>3, <2>1 DEF Tracked
<1> QED  BY <1>2, <1>3

\* The file never knows of the node without the network.
LEMMA FileStep ==
  ASSUME IInv, [Next]_vars
  PROVE  FileInv'
<1> USE DEF FileInv
<1>0. /\ FileInv /\ StepInv /\ todo \subseteq Res /\ failed \subseteq Res
      /\ reported \in [Res -> SUBSET Facts]
      /\ step = "idle" <=> phase = "idle"
  BY DEF IInv, TypeOK, SessionOK
<1>1. CASE UNCHANGED vars \/ Works \/ Edit
  <2>1. UNCHANGED <<session, step>>
    BY <1>1 DEF vars, Works, Edit
  <2> QED  BY <1>0, <2>1 DEF session, Tracked, Saved
<1>2. CASE StartApply
  BY <1>0, <1>2 DEF StartApply, Begins, Tracked, Saved
<1>3. CASE StartDestroy
  BY <1>0, <1>3 DEF StartDestroy, Begins, Tracked, Saved
<1>4. CASE Raise \/ Interrupt \/ RaiseInDelete
  <2>1. /\ UNCHANGED <<phase, saved, reported>> /\ phase # "idle"
        /\ \/ failed' = failed \cup {Network} /\ todo' = todo \ {Network}
           \/ failed' = failed \cup {Node} /\ todo' = todo \ {Node} /\ Network \notin todo
              /\ phase = "apply"
    BY <1>4 DEF Raise, Fail, Interrupt, RaiseInDelete, Fails, Reached
  <2>2. Tracked' = Tracked
    BY <2>1 DEF Tracked, Saved
  <2> QED  BY <1>0, <2>1, <2>2
<1>5. CASE EndApply
  BY <1>5, SavedByApply DEF EndApply, SaveApply, Ends
<1>6. CASE EndDestroy
  BY <1>6, SavedByDestroy DEF EndDestroy, SaveDestroy, Ends
<1>7. CASE Die
  BY <1>0, <1>7 DEF Die, Dies, Ends, Tracked, Saved
<1>8. CASE Looking
  <2>1. /\ UNCHANGED session
        /\ step' \in {"node", "details", "end"} => step = "node" \/ phase = "destroy"
    BY <1>0, <1>8, Looks DEF Looking, Keep, Modify, KeepInstead, Find, FindNone, CreateAgain,
       Status, NodeFound, DeleteNetwork, Cancelled, CancelReady, Goes, StepInv
  <2> QED  BY <1>0, <2>1 DEF session, Tracked, Saved
<1>9. CASE CreateInstance \/ Provision \/ Cancel
  BY <1>0, <1>9 DEF CreateInstance, Provision, Cancel, Goes, session, Tracked, Saved
<1>10. CASE NetworkCreated
  <2>1. reported'[Network] = {[instance |-> uuid]}
    BY <1>0, <1>10 DEF NetworkCreated, Succeeds
  <2> QED  BY <1>0, <1>10, <2>1 DEF NetworkCreated, Succeeds, Reached, Tracked, Saved
<1>11. CASE NodeCreated
  BY <1>0, <1>11 DEF NodeCreated, Succeeds, Reached, Tracked, Saved
<1>12. CASE DeleteNode
  BY <1>0, <1>12 DEF DeleteNode, Reached, StepInv, Tracked, Saved
<1>13. CASE Ending
  BY <1>0, <1>13 DEF Ending, NoInstance, DeleteCompiled, DeleteInstance, Unmade, Reached,
     session, Tracked, Saved
<1> QED
  BY <1>1, <1>2, <1>3, <1>4, <1>5, <1>6, <1>7, <1>8, <1>9, <1>10, <1>11, <1>12, <1>13, Actions

(***************************************************************************)
(* At most one instance, and none when it has been deleted.                *)
(***************************************************************************)
LEMMA OneStep ==
  ASSUME IInv, [Next]_vars
  PROVE  AtMostOne'
<1> USE DEF AtMostOne
<1>0. /\ AtMostOne /\ TypeOK
      /\ step = "idle" <=> phase = "idle"
      /\ step \in {"created", "status", "wait", "cancelled", "gone"} => uuid \in Listed
  BY DEF IInv, TypeOK
<1>1. CASE UNCHANGED vars \/ Edit
  <2>1. UNCHANGED <<session, step, twice, instances>>
    BY <1>1 DEF vars, Edit, watch
  <2> QED  BY <1>0, <2>1, Still DEF session
<1>2. CASE Works
  <2>1. UNCHANGED <<session, step, twice>>
    BY <1>2 DEF Works, watch
  <2> QED  BY <1>0, <1>2, <2>1, Working DEF session
<1>3. CASE StartApply \/ StartDestroy
  BY <1>0, <1>3, Still DEF StartApply, StartDestroy, watch
<1>4. CASE Raise \/ Interrupt \/ RaiseInDelete
  <2>1. UNCHANGED <<instances, twice>>
    BY <1>4 DEF Raise, Interrupt, RaiseInDelete, watch
  <2>2. failed' # {}
    BY <1>4 DEF Raise, Interrupt, RaiseInDelete, Fail, Fails
  <2> QED  BY <1>0, <2>1, <2>2, Still
<1>5. CASE EndApply \/ EndDestroy \/ Die
  BY <1>0, <1>5, Still DEF EndApply, EndDestroy, Die, watch
<1>6. CASE Looking
  <2>1. UNCHANGED <<session, instances, twice>>
    BY <1>6, Looks
  <2>2. phase' = "destroy" => step' # "end"
    BY <1>0, <1>6, <2>1 DEF Looking, Keep, Modify, KeepInstead, Find, FindNone, CreateAgain,
       Status, NodeFound, DeleteNetwork, Cancelled, CancelReady, Goes, IInv, StepInv, session
  <2> QED  BY <1>0, <2>1, <2>2, Still
<1>7. CASE CreateInstance
  <2>1. step = "create" /\ step' = "created" /\ twice' = (twice \/ uuid # 0)
    BY <1>7 DEF CreateInstance, Goes
  <2>2. CASE twice'
    BY <2>2
  <2>3. CASE ~twice'
    <3>1. Listed = {}
      BY <2>1, <2>3 DEF IInv, StepInv
    <3> QED  BY <1>0, <1>7, <2>1, <3>1, Created
  <2> QED  BY <2>2, <2>3
<1>8. CASE Provision \/ Cancel
  <2>1. PICK i \in Listed, s \in States \ {"new", "deleted"} : Becomes(i, s) \/ UNCHANGED instances
    BY <1>0, <1>8 DEF Provision, Cancel, Goes, States
  <2>2. Listed' = Listed
    BY <1>0, <2>1, Still, BecomesListed
  <2>3. step' # "end" /\ twice' = twice
    BY <1>8 DEF Provision, Cancel, Goes, watch
  <2> QED  BY <1>0, <2>2, <2>3
<1>9. CASE NetworkCreated \/ NodeCreated
  BY <1>0, <1>9, Still DEF NetworkCreated, NodeCreated, Succeeds, Reached, watch
<1>10. CASE DeleteNode
  BY <1>0, <1>10, Still DEF DeleteNode, Reached, watch
<1>11. CASE Ending
  <2>1. twice' = twice
    BY <1>11 DEF Ending, NoInstance, DeleteCompiled, DeleteInstance, watch
  <2>2. \/ Listed = {} /\ Listed' = {}
        \/ \E i \in Listed : Listed' = Listed \ {i}
    BY <1>0, <1>11, Still, BecomesDeleted DEF Ending, NoInstance, DeleteCompiled, DeleteInstance
  <2> QED  BY <1>0, <2>1, <2>2
<1> QED
  BY <1>1, <1>2, <1>3, <1>4, <1>5, <1>6, <1>7, <1>8, <1>9, <1>10, <1>11, Actions

(***************************************************************************)
(* Which configuration the instances were made for.                        *)
(***************************************************************************)
\* What a step does to the configurations: nothing changes, and an instance may go.
LEMMA AgeKept ==
  ASSUME IInv, Listed' \subseteq Listed, \A j \in Id : instances'[j].config = instances[j].config,
         kept' = kept, twice' = twice, UNCHANGED control,
         \/ phase' = phase /\ step' = step
         \/ phase' \in {"idle", "destroy"} /\ phase \in {"idle", "destroy"}
         \/ phase' = "apply" /\ step' = "network" /\ phase = "idle"
         \/ /\ phase' = "apply" /\ step' \notin Unmaking \cup {"network"}
            /\ phase = "apply" /\ step \notin Unmaking \cup {"network"}
         \/ phase' = "apply" /\ step' \in Unmaking
  PROVE  AgeInv'
<1>1. Listed \subseteq Id /\ AgeInv
  BY DEF Listed, IInv
<1>2. \A i \in Listed' : i \in Listed /\ instances'[i].config = instances[i].config
  BY <1>1
<1>3. savedConfig' = savedConfig /\ config' = config
  BY DEF control
<1>4. Of(savedConfig) => Of(savedConfig)'
  BY <1>2, <1>3 DEF Of
<1>5. Of(config) => Of(config)'
  BY <1>2, <1>3 DEF Of
<1>6. "network" \notin Unmaking
  BY DEF Unmaking
<1> QED  BY <1>1, <1>4, <1>5, <1>6 DEF AgeInv

\* Unless the counts have changed, what the file says holds of the configuration.
LEMMA NotModified ==
  ASSUME Of(savedConfig), ~Modified
  PROVE  Of(config)
<1>1. savedConfig = 0 \/ savedConfig = config
  BY DEF Modified
<1> QED  BY <1>1 DEF Of

\* There is nothing to say where there is no instance.
LEMMA AgeOfNone ==
  ASSUME Listed' = {}
  PROVE  AgeInv'
<1>1. Of(savedConfig)' /\ Of(config)'
  BY DEF Of
<1> QED  BY <1>1 DEF AgeInv

\* The instance is that of the file or of the configuration.
LEMMA AgeStep ==
  ASSUME IInv, [Next]_vars
  PROVE  AgeInv'
<1>0. /\ TypeOK /\ StepInv /\ AtMostOne /\ AgeInv
      /\ phase \in {"idle", "apply", "destroy"}
      /\ step = "idle" <=> phase = "idle"
  BY DEF IInv, TypeOK, SessionOK
<1>1. CASE UNCHANGED vars
  BY <1>1, AgeKept, Still DEF vars, session, watch
<1>2. CASE Edit
  <2>1. phase' \in {"idle"} /\ UNCHANGED <<instances, kept, twice, savedConfig>> /\ phase = "idle"
    BY <1>2 DEF Edit, session, watch
  <2>2. Of(savedConfig) => Of(savedConfig)'
    BY <2>1, Still DEF Of
  <2> QED  BY <1>0, <2>1, <2>2 DEF AgeInv, IInv, TypeOK
<1>3. CASE Works
  <2>1. UNCHANGED <<phase, control, step, kept, twice>>
    BY <1>3 DEF Works, session, watch
  <2> QED  BY <1>0, <1>3, <2>1, AgeKept, Working
<1>4. CASE StartApply \/ StartDestroy
  <2>1. UNCHANGED <<instances, control, kept, twice>>
    BY <1>4 DEF StartApply, StartDestroy, watch
  <2>2. phase = "idle" /\ (phase' = "destroy" \/ (phase' = "apply" /\ step' = "network"))
    BY <1>4 DEF StartApply, StartDestroy, Begins
  <2> QED  BY <2>1, <2>2, Still, AgeKept
<1>5. CASE Raise \/ RaiseInDelete
  <2>1. UNCHANGED <<instances, control, kept, twice, phase>> /\ step' \in {"node", "end"}
    BY <1>5 DEF Raise, RaiseInDelete, Fail, Follows, Fails, Reached, watch
  <2>2. phase = "destroy" \/ (phase = "apply" /\ step \notin Unmaking \cup {"network"})
    BY <1>5 DEF Raise, RaiseInDelete, Unmaking
  <2>3. step' \notin Unmaking \cup {"network"}
    BY <2>1 DEF Unmaking
  <2> QED  BY <2>1, <2>2, <2>3, Still, AgeKept
<1>6. CASE Interrupt
  <2>1. /\ UNCHANGED <<instances, control, twice, phase>> /\ step' = "end" /\ phase = "apply"
        /\ kept' = (kept \/ (Modified /\ step \in Unmaking \cup {"network"}))
    BY <1>6 DEF Interrupt, Fail, Fails, Reached
  <2>2. CASE kept'
    BY <2>2 DEF AgeInv
  <2>3. CASE ~kept' /\ step = "network"
    <3>1. ~twice => Of(config)
      BY <1>0, <2>1, <2>3, NotModified DEF AgeInv
    <3>2. Of(config) => Of(config)'
      BY <2>1, Still DEF Of, control
    <3> QED  BY <2>1, <3>1, <3>2 DEF AgeInv
  <2>4. CASE ~kept' /\ step # "network"
    <3>1. step \notin Unmaking
      BY <1>0, <2>1, <2>4 DEF StepInv
    <3>2. step' \notin Unmaking \cup {"network"}
      BY <2>1 DEF Unmaking
    <3>3. kept \in BOOLEAN
      BY <1>0 DEF TypeOK
    <3>4. ~kept
      BY <2>1, <2>4
    <3>5. ~twice => Of(config)
      BY <1>0, <2>1, <2>4, <3>1, <3>4 DEF AgeInv
    <3>6. Of(config) => Of(config)'
      BY <2>1, Still DEF Of, control
    <3> QED  BY <2>1, <3>5, <3>6 DEF AgeInv
  <2> QED  BY <2>2, <2>3, <2>4
<1>7. CASE EndApply
  <2>1. /\ UNCHANGED <<instances, kept, twice>> /\ savedConfig' = config /\ phase' = "idle"
        /\ phase = "apply" /\ step = "end"
    BY <1>7 DEF EndApply, SaveApply, Ends, watch
  <2>2. ~kept /\ ~twice => Of(config)
    BY <1>0, <2>1 DEF AgeInv, Unmaking
  <2>3. Of(config) => Of(savedConfig)'
    BY <2>1, Still DEF Of
  <2> QED  BY <2>1, <2>2, <2>3 DEF AgeInv
<1>8. CASE EndDestroy
  <2>1. /\ UNCHANGED <<instances, config, kept, twice>> /\ phase' = "idle"
        /\ phase = "destroy" /\ step = "end"
        /\ savedConfig' = IF failed = {} THEN 0 ELSE savedConfig
    BY <1>8 DEF EndDestroy, SaveDestroy, Ends, watch
  <2>2. CASE failed = {}
    <3>1. ~twice => Of(savedConfig)'
      BY <1>0, <2>1, <2>2, Still DEF AtMostOne, Of
    <3> QED  BY <2>1, <3>1 DEF AgeInv
  <2>3. CASE failed # {}
    BY <2>1, <2>3, Still, AgeKept DEF control
  <2> QED  BY <2>2, <2>3
<1>9. CASE Die
  <2>1. UNCHANGED instances /\ kept' = (kept \/ Listed # {})
    BY <1>9 DEF Die
  <2>2. CASE kept'
    BY <2>2 DEF AgeInv
  <2>3. CASE ~kept'
    BY <2>1, <2>3, Still, AgeOfNone
  <2> QED  BY <2>2, <2>3
<1>10. CASE Looking
  <2>1. UNCHANGED <<phase, control, instances, twice>>
    BY <1>10, Looks DEF session
  <2>2. CASE Keep
    <3>1. step = "network" /\ step' = "find" /\ kept' = kept /\ ~Modified
      BY <2>2 DEF Keep, Goes, watch
    <3>2. phase = "apply"
      BY <1>0, <3>1 DEF StepInv, Unmaking
    <3>3. ~kept /\ ~twice => Of(config)
      BY <1>0, <3>1, NotModified DEF AgeInv
    <3>4. Of(config) => Of(config)'
      BY <2>1, Still DEF Of, control
    <3> QED  BY <2>1, <3>1, <3>2, <3>3, <3>4 DEF AgeInv
  <2>3. CASE KeepInstead
    BY <2>3 DEF KeepInstead, AgeInv
  <2>4. CASE Find \/ FindNone \/ CreateAgain \/ Status \/ NodeFound
    <3>1. step' \notin Unmaking \cup {"network"} /\ step \notin Unmaking \cup {"network"}
      BY <2>4 DEF Find, FindNone, CreateAgain, Status, NodeFound, Goes, Unmaking
    <3>2. kept' = kept
      BY <2>4 DEF Find, FindNone, CreateAgain, Status, NodeFound, watch
    <3>3. phase = "apply"
      BY <1>0, <2>4 DEF Find, FindNone, CreateAgain, Status, NodeFound, Goes, StepInv, Unmaking
    <3> QED  BY <2>1, <3>1, <3>2, <3>3, Still, AgeKept
  <2>5. CASE Modify \/ DeleteNetwork \/ Cancelled \/ CancelReady
    <3>1. step' \in Unmaking \cup {"end"} /\ kept' = kept
      BY <2>5 DEF Modify, DeleteNetwork, Cancelled, CancelReady, Goes, Unmaking, watch
    <3>2. step' = "end" => phase = "destroy"
      BY <1>0, <2>5 DEF Modify, DeleteNetwork, Cancelled, CancelReady, Goes, StepInv
    <3>3. phase # "idle"
      BY <1>0, <2>5 DEF Modify, DeleteNetwork, Cancelled, CancelReady, Goes
    <3>4. \/ phase' \in {"idle", "destroy"} /\ phase \in {"idle", "destroy"}
          \/ phase' = "apply" /\ step' \in Unmaking
      BY <1>0, <2>1, <3>1, <3>2, <3>3
    <3> QED  BY <2>1, <3>1, <3>4, Still, AgeKept
  <2> QED  BY <1>10, <2>2, <2>3, <2>4, <2>5 DEF Looking
<1>11. CASE CreateInstance
  <2>1. /\ step = "create" /\ step' = "created" /\ twice' = (twice \/ uuid # 0)
        /\ UNCHANGED <<phase, config, kept>>
    BY <1>11 DEF CreateInstance, Goes, session, control
  <2>2. CASE twice'
    BY <2>2 DEF AgeInv
  <2>3. CASE ~twice'
    <3>1. Listed = {}
      BY <1>0, <2>1, <2>3 DEF StepInv
    <3>2. Listed' = {uuid'} /\ instances'[uuid'].config = config
      BY <1>0, <1>11, <3>1, Created
    <3>3. config # 0
      BY <1>0 DEF TypeOK
    <3>4. Of(config)'
      BY <2>1, <3>2, <3>3 DEF Of
    <3>5. phase = "apply"
      BY <1>0, <2>1 DEF StepInv, Unmaking
    <3> QED  BY <2>1, <3>4, <3>5 DEF AgeInv
  <2> QED  BY <2>2, <2>3
<1>12. CASE Provision \/ Cancel
  <2>1. PICK i \in Listed, s \in States \ {"new", "deleted"} : Becomes(i, s) \/ UNCHANGED instances
    BY <1>0, <1>12 DEF Provision, Cancel, Goes, States, TypeOK
  <2>2. Listed' = Listed /\ \A j \in Id : instances'[j].config = instances[j].config
    BY <1>0, <2>1, Still, BecomesListed
  <2>3. UNCHANGED <<phase, control, kept, twice>>
    BY <1>12 DEF Provision, Cancel, Goes, session, watch
  <2>4. \/ /\ phase = "apply"
           /\ step' \notin Unmaking \cup {"network"} /\ step \notin Unmaking \cup {"network"}
        \/ step' \in Unmaking /\ phase # "idle"
    BY <1>0, <1>12 DEF Provision, Cancel, Goes, Unmaking, StepInv
  <2> QED  BY <1>0, <2>2, <2>3, <2>4, AgeKept
<1>13. CASE NetworkCreated \/ NodeCreated
  <2>1. UNCHANGED <<instances, control, kept, twice, phase>> /\ phase = "apply"
    BY <1>13 DEF NetworkCreated, NodeCreated, Succeeds, Reached, watch
  <2>2. step' \notin Unmaking \cup {"network"} /\ step \notin Unmaking \cup {"network"}
    BY <1>13 DEF NetworkCreated, NodeCreated, Unmaking
  <2> QED  BY <2>1, <2>2, Still, AgeKept
<1>14. CASE DeleteNode
  <2>1. UNCHANGED <<instances, control, kept, twice, phase, step>>
    BY <1>14 DEF DeleteNode, Reached, watch
  <2> QED  BY <2>1, Still, AgeKept
<1>15. CASE Ending
  <2>1. twice' = twice
    BY <1>15 DEF Ending, NoInstance, DeleteCompiled, DeleteInstance, watch
  <2>2. \/ Listed = {} /\ Listed' = {}
        \/ \E i \in Listed : Listed' = Listed \ {i}
    BY <1>0, <1>15, Still, BecomesDeleted DEF Ending, NoInstance, DeleteCompiled, DeleteInstance,
       TypeOK
  <2>3. CASE twice
    BY <2>1, <2>3 DEF AgeInv
  <2>4. CASE ~twice
    BY <1>0, <2>2, <2>4, AgeOfNone DEF AtMostOne
  <2> QED  BY <2>3, <2>4
<1> QED
  BY <1>1, <1>2, <1>3, <1>4, <1>5, <1>6, <1>7, <1>8, <1>9, <1>10, <1>11, <1>12, <1>13, <1>14,
     <1>15, Actions

\* The inductive invariant: types, where the program is, what the file knows of,
\* that there is one instance, and which configuration it was made for.
THEOREM Invariant == Spec => []IInv
<1>1. ASSUME IInv, [Next]_vars PROVE IInv'
  BY <1>1, TypeStep, StepStep, FileStep, OneStep, AgeStep DEF IInv
<1> QED  BY Initially, <1>1, PTL DEF Spec
-----------------------------------------------------------------------------
\* Every variable keeps its type, and status, provision and delete are never
\* asked of Sense without the identifier of an instance.
THEOREM TypeCorrect == Spec => []TypeOK
BY Invariant, PTL DEF IInv

\* What a step of Current says.
Report ==
  phase' = "apply" =>
    \A r \in Res : \A f \in reported'[r] \ reported[r] :
      ~twice => /\ instances[f.instance].state = "ready"
                /\ kept \/ instances[f.instance].config = config

\* Every step reports what there is.
LEMMA Reported ==
  ASSUME IInv, [Next]_vars
  PROVE  Report
<1>0. reported \in [Res -> SUBSET Facts] /\ StepInv
  BY DEF IInv, TypeOK, SessionOK
<1>1. ASSUME reported' = reported PROVE Report
  BY <1>1 DEF Report
<1>2. CASE NetworkCreated
  <2>1. \A r \in Res : \A f \in reported'[r] \ reported[r] : f = [instance |-> uuid]
    BY <1>0, <1>2 DEF NetworkCreated, Succeeds
  <2>2. uuid \in Listed /\ instances[uuid].state = "ready"
    BY <1>2 DEF NetworkCreated, IInv, TypeOK
  <2>3. ~kept /\ ~twice => Of(config)
    BY <1>2 DEF NetworkCreated, IInv, AgeInv, Unmaking
  <2>4. ~twice => kept \/ instances[uuid].config = config
    BY <2>2, <2>3 DEF Of, IInv, TypeOK
  <2> QED  BY <2>1, <2>2, <2>4 DEF Report
<1>3. CASE NodeCreated
  <2>1. PICK i \in Listed : Succeeds(Node, [instance |-> i])
    BY <1>3 DEF NodeCreated
  <2>2. \A r \in Res : \A f \in reported'[r] \ reported[r] : f = [instance |-> i]
    BY <1>0, <2>1 DEF Succeeds
  <2>3. ~twice => instances[i].state = "ready"
    BY <1>0, <1>3 DEF NodeCreated, StepInv, IInv, AtMostOne
  <2>4. ~kept /\ ~twice => Of(config)
    BY <1>3 DEF NodeCreated, IInv, AgeInv, Unmaking
  <2>5. ~twice => kept \/ instances[i].config = config
    BY <2>4 DEF Of
  <2> QED  BY <2>2, <2>3, <2>5 DEF Report
<1>4. CASE StartApply \/ StartDestroy
  BY <1>1, <1>4 DEF StartApply, StartDestroy, Begins
<1>5. CASE EndApply \/ EndDestroy \/ Die
  BY <1>5 DEF EndApply, EndDestroy, Die, SaveApply, SaveDestroy, Dies, Ends, Report
<1>6. CASE UNCHANGED vars \/ Works \/ Edit \/ CreateInstance \/ Provision \/ Cancel
  BY <1>1, <1>6 DEF vars, Works, Edit, CreateInstance, Provision, Cancel, Goes, session
<1>7. CASE Raise \/ Interrupt \/ RaiseInDelete
  BY <1>1, <1>7 DEF Raise, Fail, Interrupt, RaiseInDelete, Fails
<1>8. CASE Looking
  BY <1>1, <1>8, Looks DEF session
<1>9. CASE DeleteNode
  BY <1>1, <1>9 DEF DeleteNode
<1>10. CASE Ending
  BY <1>1, <1>10 DEF Ending, NoInstance, DeleteCompiled, DeleteInstance, Unmade, session
<1> QED  BY <1>2, <1>3, <1>4, <1>5, <1>6, <1>7, <1>8, <1>9, <1>10, Actions

\* Instances that are equal are one.
LEMMA OneIsOne ==
  ASSUME IInv
  PROVE  OneInstance
<1>1. CASE twice
  BY <1>1 DEF OneInstance
<1>2. CASE ~twice
  <2>1. /\ \A i, j \in Listed : i = j
        /\ phase = "destroy" /\ step = "end" /\ failed = {} => Listed = {}
    BY <1>2 DEF IInv, AtMostOne
  <2>2. CASE Listed = {}
    <3>1. Cardinality(Listed) = 0
      BY <2>2, FS_EmptySet
    <3> QED  BY <2>1, <3>1 DEF OneInstance
  <2>3. CASE Listed # {}
    <3>1. PICK i : Listed = {i}
      BY <2>1, <2>3
    <3>2. Cardinality(Listed) = 1
      BY <3>1, FS_Singleton
    <3> QED  BY <2>1, <3>2 DEF OneInstance
  <2> QED  BY <2>2, <2>3
<1> QED  BY <1>1, <1>2

\* What is reported is ready and made for the configuration at hand, unless an
\* instance was created twice or an older one was kept.
THEOREM CurrentHolds == Spec => Current
<1>1. IInv /\ [Next]_vars => [Report]_vars
  BY Reported
<1> QED  BY <1>1, Invariant, PTL DEF Spec, Current, Report

\* The alias is that of one instance at most, and of none when a destroy says so,
\* unless an instance was created twice.
THEOREM OneInstanceHolds == Spec => []OneInstance
BY OneIsOne, Invariant, PTL
=============================================================================
