--------------------------- MODULE Session_proofs ---------------------------
(***************************************************************************)
(* Proofs about Session, for every workflow, any number of commands, and   *)
(* whatever fails, is interrupted, killed or edited between them: the file *)
(* never lists a resource without its external dependencies (so that       *)
(* Controller.destroy finds their states), a destroy spares what is still  *)
(* needed, and the file is neither removed early nor forgetful.            *)
(***************************************************************************)
EXTENDS Session, TLAPS

\* Between commands the process does not exist; only destroy keeps and skips.
IdleInv ==
  /\ phase = "idle" => todo = {} /\ failed = {}
  /\ phase # "apply" => made = Nothing
  /\ phase # "destroy" => remaining = {} /\ skip = {}

\* A resource is begun after its external dependencies, and only once.
MadeInv ==
  /\ \A r \in todo : made[r] = 0
  /\ \A r \in Res : made[r] > 0 => \A d \in ExtDeps(r) : made[d] = Count(d)

\* The file has the external dependencies of whatever it has.
FileInv == \A r \in Res : HasState(r) => \A d \in ExtDeps(r) : HasState(d)

\* The backward loop: what r needs is still to come when r is reached, and is
\* marked to be skipped when r has to stay.
LoopInv ==
  /\ \A r \in todo : HasState(r) => ExtDeps(r) \subseteq todo
  /\ \A r \in remaining : HasState(r) =>
       /\ ExtDeps(r) \subseteq todo \cup remaining
       /\ ExtDeps(r) \cap todo \subseteq skip

\* What the loop has passed is gone or stays, and something stays only if
\* something failed.
GoneInv ==
  /\ \A r \in config : Knew(r) => r \in todo \cup remaining \/ cloud[r] = 0
  /\ remaining # {} \/ skip # {} => failed # {}

DestroyInv == phase = "destroy" => LoopInv /\ GoneInv

IInv == TypeOK /\ IdleInv /\ MadeInv /\ FileInv /\ DestroyInv
-----------------------------------------------------------------------------
(***************************************************************************)
(* The workflow, numbers of instances, and the file.                       *)
(***************************************************************************)

\* What WellFormed says of one resource, in the vocabulary of Session.
LEMMA Dependencies ==
  ASSUME WellFormed(wf), NEW r \in Res
  PROVE  /\ ExtDeps(r) \subseteq Res
         /\ ExtDeps(r) \subseteq wf.needs[r]
         /\ \A d \in ExtDeps(r) : d < r
         /\ Prov(r) \in Providers
         /\ Count(r) \in Nat /\ Count(r) > 0
<1>1. /\ wf.needs \in [Res -> SUBSET Res]
      /\ wf.count \in [Res -> Nat \ {0}]
      /\ wf.provider \in [Res -> Providers]
      /\ wf.needs[r] \subseteq 1..(r - 1)
  BY DEF WellFormed, WorkflowType
<1>2. N \in Nat
  BY WorkflowAssumption
<1> QED
  BY <1>1, <1>2 DEF ExtDeps, External, Prov, Count, Res

\* The workflow is fixed, and with it everything derived from it alone.
LEMMA Frozen ==
  ASSUME wf' = wf
  PROVE  /\ WellFormed(wf)' <=> WellFormed(wf)
         /\ \A r : /\ ExtDeps(r)' = ExtDeps(r) /\ Count(r)' = Count(r)
                   /\ Prov(r)' = Prov(r)
         /\ Configs' = Configs
  BY DEF WellFormed, WorkflowType, Res, Kinds, ExtDeps, External, Count, Prov,
         Configs

\* Larger returns the larger of two numbers.
LEMMA LargerNat ==
  ASSUME NEW m \in Nat, NEW n \in Nat
  PROVE  /\ Larger(m, n) \in Nat
         /\ m <= Larger(m, n) /\ n <= Larger(m, n)
         /\ Larger(m, n) \in {m, n}
  BY DEF Larger

\* No instances at all are not too many.
LEMMA NothingBounded == WellFormed(wf) => Bounded(Nothing)
  BY Dependencies DEF Bounded, Nothing

\* The number of instances of one resource is set to something it may be.
LEMMA SetBounded ==
  ASSUME NEW f, Bounded(f), NEW r \in Res, NEW n \in Nat, n <= Count(r)
  PROVE  Bounded([f EXCEPT ![r] = n])
  BY DEF Bounded

\* The fields of a file.
LEMMA FileFields ==
  ASSUME TypeOK
  PROVE  /\ saved.exists \in BOOLEAN
         /\ saved.states \in [Res -> Nat]
         /\ saved.failed \in SUBSET Res
         /\ saved.created \in [Res -> Nat]
  BY DEF TypeOK, FileType

\* TypeOK after a step, from what the step assigns.
LEMMA TypeNext ==
  ASSUME TypeOK, wf' = wf, config' \in Configs, saved' \in FileType,
         Bounded(cloud'), Bounded(made'),
         Bounded(saved'.states), Bounded(saved'.created),
         phase' \in {"idle", "apply", "destroy"},
         todo' \subseteq Res, failed' \subseteq Res,
         remaining' \subseteq Res, skip' \subseteq Res,
         last' \in [command : {"none", "apply", "destroy"}, code : {0, 1}],
         left' \in 0..Commands
  PROVE  TypeOK'
  BY Frozen DEF TypeOK, Bounded, FileType

\* A step that leaves the file alone keeps it closed.
LEMMA SameFile ==
  ASSUME FileInv, wf' = wf, saved' = saved
  PROVE  FileInv'
  BY Frozen DEF FileInv, HasState

\* A command that has ended leaves a process without memory.
LEMMA EndedInvariant ==
  ASSUME IInv, NEW command \in {"apply", "destroy"}, NEW code \in {0, 1},
         Ended(command, code),
         wf' = wf, config' = config, Bounded(cloud'), saved' \in FileType,
         Bounded(saved'.states), Bounded(saved'.created),
         left' \in 0..Commands, FileInv'
  PROVE  IInv'
<1>1. /\ phase' = "idle" /\ todo' = {} /\ made' = Nothing /\ failed' = {}
      /\ remaining' = {} /\ skip' = {}
      /\ last' = [command |-> command, code |-> code]
  BY DEF Ended
<1>2. TypeOK'
  <2>1. Bounded(made')
    BY <1>1, NothingBounded DEF IInv, TypeOK
  <2>2. config' \in Configs
    BY DEF IInv, TypeOK
  <2> QED
    BY <1>1, <2>1, <2>2, TypeNext DEF IInv
<1>3. IdleInv' /\ DestroyInv'
  BY <1>1, Frozen DEF IdleInv, DestroyInv, Nothing
<1>4. MadeInv'
  BY <1>1 DEF MadeInv, Nothing
<1> QED
  BY <1>2, <1>3, <1>4 DEF IInv
-----------------------------------------------------------------------------
(***************************************************************************)
(* Between commands, and the steps of an apply.                            *)
(***************************************************************************)

LEMMA InitInvariant == Init => IInv
<1> SUFFICES ASSUME Init PROVE IInv
  OBVIOUS
<1>1. WellFormed(wf)
  BY WorkflowAssumption DEF Init
<1>2. Res \in Configs
  BY <1>1 DEF Configs, WellFormed, WorkflowType
<1>3. Bounded(Nothing) /\ NoFile \in FileType
  BY <1>1, NothingBounded DEF NoFile, FileType, Nothing
<1>4. NoFile.states = Nothing /\ NoFile.created = Nothing
  BY DEF NoFile
<1>5. TypeOK
  BY <1>1, <1>2, <1>3, <1>4, SessionAssumption DEF Init, TypeOK
<1>6. IdleInv /\ DestroyInv
  BY DEF Init, IdleInv, DestroyInv
<1>7. MadeInv /\ FileInv
  BY <1>4 DEF Init, MadeInv, FileInv, HasState, Nothing
<1> QED
  BY <1>5, <1>6, <1>7 DEF IInv

LEMMA EditInvariant == IInv /\ EditConfig => IInv'
<1> SUFFICES ASSUME IInv, EditConfig PROVE IInv'
  OBVIOUS
<1> USE DEF IInv
<1>1. TypeOK'
  BY TypeNext DEF EditConfig, run, TypeOK
<1>2. FileInv'
  BY SameFile DEF EditConfig
<1>3. MadeInv'
  BY Frozen DEF EditConfig, run, MadeInv
<1>4. IdleInv' /\ DestroyInv'
  BY DEF EditConfig, run, IdleInv, DestroyInv, Nothing
<1> QED
  BY <1>1, <1>2, <1>3, <1>4

LEMMA StartApplyInvariant == IInv /\ StartApply => IInv'
<1> SUFFICES ASSUME IInv, StartApply PROVE IInv'
  OBVIOUS
<1> USE DEF IInv
<1>1. made = Nothing /\ remaining = {} /\ skip = {} /\ failed = {}
  BY DEF StartApply, IdleInv
<1>2. Planned \subseteq Res /\ left - 1 \in 0..Commands
  BY SessionAssumption DEF StartApply, TypeOK, Planned, Configs
<1>3. TypeOK'
  BY <1>2, TypeNext DEF StartApply, TypeOK
<1>4. FileInv'
  BY SameFile DEF StartApply
<1>5. MadeInv'
  BY <1>1, <1>2 DEF StartApply, MadeInv, Nothing
<1>6. IdleInv' /\ DestroyInv'
  BY <1>1 DEF StartApply, IdleInv, DestroyInv, Nothing
<1> QED
  BY <1>3, <1>4, <1>5, <1>6

\* What Create, CreateFails and Drop have in common: a resource is taken from
\* todo, and what it is said to have made is in order.
LEMMA ApplyStepInvariant ==
  ASSUME IInv, phase = "apply", NEW r \in todo,
         todo' = todo \ {r}, Bounded(cloud'),
         NEW n \in Nat, n <= Count(r), n > 0 => Ready(r),
         made' = [made EXCEPT ![r] = n],
         failed' \subseteq Res,
         UNCHANGED <<wf, config, saved, phase, remaining, skip, last, left>>
  PROVE  IInv'
<1> USE DEF IInv
<1>1. r \in Res /\ made[r] = 0 /\ made \in [Res -> Nat]
  BY DEF TypeOK, MadeInv, Bounded
<1>2. TypeOK'
  <2>1. Bounded(made')
    BY <1>1, SetBounded DEF TypeOK
  <2> QED
    BY <2>1, TypeNext DEF TypeOK
<1>3. FileInv'
  BY SameFile
<1>4. MadeInv'
  <2>1. \A s \in todo' : made'[s] = 0
    BY <1>1 DEF MadeInv, TypeOK
  <2>2. ASSUME NEW s \in Res, made'[s] > 0, NEW d \in ExtDeps(s)
        PROVE  made'[d] = Count(d)
    <3>1. /\ d \in Res /\ d # s /\ Count(d) > 0
          /\ Count(d) \in Nat
      <4>1. d \in Res /\ d < s /\ s \in Nat
        BY <2>2, Dependencies DEF TypeOK, Res
      <4> QED
        BY <4>1, Dependencies DEF TypeOK, Res
    <3>2. made[d] = Count(d)
      BY <1>1, <2>2 DEF MadeInv, Ready
    <3>3. d # r
      BY <3>1, <3>2, <1>1
    <3> QED
      BY <1>1, <3>1, <3>2, <3>3
  <2> QED
    BY <2>1, <2>2, Frozen DEF MadeInv
<1>5. IdleInv' /\ DestroyInv'
  BY DEF IdleInv, DestroyInv
<1> QED
  BY <1>2, <1>3, <1>4, <1>5

LEMMA CreateInvariant ==
  ASSUME IInv, NEW r \in Res, Create(r)
  PROVE  IInv'
<1>1. Count(r) \in Nat /\ cloud \in [Res -> Nat] /\ cloud[r] <= Count(r)
  BY Dependencies DEF IInv, TypeOK, Bounded
<1>2. Larger(cloud[r], Count(r)) \in Nat /\ Larger(cloud[r], Count(r)) <= Count(r)
  BY <1>1, LargerNat
<1>3. Bounded(cloud')
  BY <1>2, SetBounded DEF Create, IInv, TypeOK
<1>4. failed' \subseteq Res
  BY DEF Create, IInv, TypeOK
<1>5. /\ phase = "apply" /\ r \in todo /\ Ready(r)
      /\ todo' = todo \ {r} /\ made' = [made EXCEPT ![r] = Count(r)]
      /\ UNCHANGED <<wf, config, saved, phase, remaining, skip, last, left>>
  BY DEF Create
<1>6. Count(r) <= Count(r)
  BY <1>1
<1> QED
  BY <1>1, <1>3, <1>4, <1>5, <1>6, ApplyStepInvariant

LEMMA CreateFailsInvariant ==
  ASSUME IInv, NEW r \in Res, CreateFails(r)
  PROVE  IInv'
<1>1. Count(r) \in Nat /\ cloud \in [Res -> Nat] /\ cloud[r] <= Count(r)
  BY Dependencies DEF IInv, TypeOK, Bounded
<1>2. PICK k \in 0..(Count(r) - 1) :
        /\ made' = [made EXCEPT ![r] = k]
        /\ \E n \in {k, k + 1} : cloud' = [cloud EXCEPT ![r] = Larger(@, n)]
  BY DEF CreateFails
<1>3. PICK n \in {k, k + 1} : cloud' = [cloud EXCEPT ![r] = Larger(cloud[r], n)]
  BY <1>2
<1>4. k \in Nat /\ k <= Count(r) /\ n \in Nat /\ n <= Count(r)
  BY <1>1
<1>5. Larger(cloud[r], n) \in Nat /\ Larger(cloud[r], n) <= Count(r)
  BY <1>1, <1>4, LargerNat
<1>6. Bounded(cloud')
  BY <1>3, <1>5, SetBounded DEF IInv, TypeOK
<1>7. failed' \subseteq Res
  BY DEF CreateFails, IInv, TypeOK
<1> QED
  BY <1>2, <1>4, <1>6, <1>7, ApplyStepInvariant DEF CreateFails

LEMMA DropInvariant ==
  ASSUME IInv, NEW r \in Res, Drop(r)
  PROVE  IInv'
<1>1. Bounded([cloud EXCEPT ![r] = 0])
  BY Dependencies, SetBounded DEF IInv, TypeOK
<1>2. Bounded(cloud') /\ failed' \subseteq Res
  BY <1>1 DEF Drop, IInv, TypeOK
<1>3. made[r] = 0 /\ made \in [Res -> Nat]
  BY DEF Drop, IInv, TypeOK, MadeInv, Bounded
<1>4. made' = [made EXCEPT ![r] = 0]
  BY <1>3 DEF Drop
<1>5. 0 <= Count(r)
  BY Dependencies DEF IInv, TypeOK
<1>6. /\ phase = "apply" /\ r \in todo /\ todo' = todo \ {r}
      /\ UNCHANGED <<wf, config, saved, phase, remaining, skip, last, left>>
  BY DEF Drop
<1>7. ~(0 > 0)
  OBVIOUS
<1> QED
  BY <1>2, <1>4, <1>5, <1>6, <1>7, ApplyStepInvariant

\* The states the file will have: what was made, or what it had if that is kept.
LEMMA ReconciledStates ==
  ASSUME IInv, NEW r \in Res
  PROVE  /\ Reconciled.states[r] \in Nat
         /\ Reconciled.states[r] <= Count(r)
         /\ made[r] <= Reconciled.states[r]
         /\ \/ Reconciled.states[r] = made[r]
            \/ /\ (\E s \in Res : saved.created[s] > 0) /\ KeptState(r)
               /\ Reconciled.states[r] = Larger(made[r], saved.states[r])
<1>1. /\ made[r] \in Nat /\ made[r] <= Count(r) /\ Count(r) \in Nat
      /\ saved.states[r] \in Nat /\ saved.states[r] <= Count(r)
  BY Dependencies DEF IInv, TypeOK, Bounded
<1>2. Reconciled.states[r] =
        IF (\E s \in Res : saved.created[s] > 0) /\ KeptState(r)
        THEN Larger(made[r], saved.states[r]) ELSE made[r]
  BY DEF Reconciled
<1>3. LET m == Larger(made[r], saved.states[r])
      IN  m \in Nat /\ m <= Count(r) /\ made[r] <= m
  BY <1>1, LargerNat
<1>4. CASE (\E s \in Res : saved.created[s] > 0) /\ KeptState(r)
  BY <1>2, <1>3, <1>4
<1>5. CASE ~((\E s \in Res : saved.created[s] > 0) /\ KeptState(r))
  <2>1. Reconciled.states[r] = made[r]
    BY <1>2, <1>5
  <2> QED
    BY <1>1, <2>1
<1> QED
  BY <1>4, <1>5

\* A planned resource whose saved state is not kept has been made.
LEMMA NotKept ==
  ASSUME IInv, NEW r \in Res, HasState(r), ~KeptState(r)
  PROVE  made[r] > 0
<1>1. r \in Planned /\ Count(r) > 0
  BY Dependencies DEF Planned, IInv, TypeOK
<1> QED
  BY <1>1 DEF KeptState, AllCreated

LEMMA ReconciledType ==
  ASSUME IInv
  PROVE  /\ Reconciled \in FileType
         /\ Bounded(Reconciled.states) /\ Bounded(Reconciled.created)
<1>1. /\ Reconciled.exists = TRUE
      /\ Reconciled.failed = failed /\ Reconciled.created = made
  BY DEF Reconciled
<1>2. \A r \in Res : Reconciled.states[r] \in Nat /\ Reconciled.states[r] <= Count(r)
  BY ReconciledStates
<1>3. DOMAIN Reconciled.states = Res
  BY DEF Reconciled
<1>4. Reconciled.states = [r \in Res |-> Reconciled.states[r]]
  BY DEF Reconciled
<1>5. Bounded(Reconciled.states)
  BY <1>2, <1>4 DEF Bounded
<1>6. Bounded(made) /\ failed \subseteq Res
  BY DEF IInv, TypeOK
<1>7. Reconciled = [exists |-> TRUE, states |-> Reconciled.states,
                    failed |-> failed, created |-> made]
  BY DEF Reconciled
<1> QED
  BY <1>1, <1>5, <1>6, <1>7 DEF FileType, Bounded

\* Reconciliation keeps the file closed under external dependencies.
LEMMA ReconciledClosed ==
  ASSUME IInv, wf' = wf, saved' = Reconciled
  PROVE  FileInv'
<1> SUFFICES ASSUME NEW r \in Res, Reconciled.states[r] > 0, NEW d \in ExtDeps(r)
             PROVE  Reconciled.states[d] > 0
  BY Frozen DEF FileInv, HasState
<1>1. /\ d \in Res /\ Count(d) > 0 /\ Count(d) \in Nat
  BY Dependencies DEF IInv, TypeOK
<1>2. /\ made[r] \in Nat /\ made[d] \in Nat /\ saved.states[r] \in Nat
      /\ saved.states[d] \in Nat
  BY <1>1 DEF IInv, TypeOK, Bounded
<1>3. CASE made[r] > 0
  <2>1. made[d] = Count(d)
    BY <1>3 DEF IInv, MadeInv
  <2> QED
    BY <2>1, <1>1, <1>2, ReconciledStates
<1>4. CASE made[r] = 0
  <2>1. /\ \E s \in Res : saved.created[s] > 0
        /\ Reconciled.states[r] = Larger(made[r], saved.states[r])
    BY <1>4, ReconciledStates
  <2>2. HasState(r)
    BY <2>1, <1>2, <1>4, LargerNat DEF HasState
  <2>3. HasState(d)
    BY <2>2 DEF IInv, FileInv
  <2>4. CASE KeptState(d)
    <3>1. Reconciled.states[d] = Larger(made[d], saved.states[d])
      BY <2>1, <2>4, <1>1 DEF Reconciled
    <3>2. saved.states[d] <= Larger(made[d], saved.states[d])
      BY <1>2, LargerNat
    <3>3. Larger(made[d], saved.states[d]) \in Nat
      BY <1>2, LargerNat
    <3> QED
      BY <3>1, <3>2, <3>3, <2>3, <1>2 DEF HasState
  <2>5. CASE ~KeptState(d)
    <3>1. made[d] > 0
      BY <2>3, <2>5, <1>1, NotKept
    <3> QED
      BY <3>1, <1>1, <1>2, ReconciledStates
  <2> QED
    BY <2>4, <2>5
<1> QED
  BY <1>2, <1>3, <1>4

LEMMA EndApplyInvariant == IInv /\ EndApply => IInv'
<1> SUFFICES ASSUME IInv, EndApply PROVE IInv'
  OBVIOUS
<1>1. PICK code \in {0, 1} : Ended("apply", code)
  BY DEF EndApply
<1>2. saved' = Reconciled /\ UNCHANGED <<wf, config, cloud, left>>
  BY DEF EndApply
<1>3. FileInv'
  BY <1>2, ReconciledClosed
<1>4. Bounded(cloud') /\ left' \in 0..Commands
  BY <1>2 DEF IInv, TypeOK
<1>5. saved' \in FileType /\ Bounded(saved'.states) /\ Bounded(saved'.created)
  BY <1>2, ReconciledType
<1> QED
  BY <1>1, <1>2, <1>3, <1>4, <1>5, EndedInvariant

\* A command that is killed, or has nothing to do, leaves the file as it was.
LEMMA KilledInvariant ==
  ASSUME IInv, NEW command \in {"apply", "destroy"}, NEW code \in {0, 1},
         Ended(command, code),
         UNCHANGED <<wf, config, cloud, saved>>, left' \in 0..Commands
  PROVE  IInv'
<1>1. FileInv'
  BY SameFile DEF IInv
<1>2. /\ Bounded(cloud') /\ saved' \in FileType
      /\ Bounded(saved'.states) /\ Bounded(saved'.created)
  BY DEF IInv, TypeOK
<1> QED
  BY <1>1, <1>2, EndedInvariant

LEMMA CrashInvariant == IInv /\ Crash => IInv'
  BY KilledInvariant DEF Crash, IInv, TypeOK
-----------------------------------------------------------------------------
(***************************************************************************)
(* The steps of a destroy.                                                 *)
(***************************************************************************)

LEMMA StopDestroyInvariant == IInv /\ StopDestroy => IInv'
  BY KilledInvariant DEF StopDestroy, IInv, TypeOK

LEMMA DestroyNothingInvariant == IInv /\ DestroyNothing => IInv'
<1> SUFFICES ASSUME IInv, DestroyNothing PROVE IInv'
  OBVIOUS
<1>1. left' \in 0..Commands
  BY SessionAssumption DEF DestroyNothing, IInv, TypeOK
<1> QED
  BY <1>1, KilledInvariant DEF DestroyNothing

LEMMA StartDestroyInvariant == IInv /\ StartDestroy => IInv'
<1> SUFFICES ASSUME IInv, StartDestroy PROVE IInv'
  OBVIOUS
<1> USE DEF IInv
<1>1. left' \in 0..Commands
  BY SessionAssumption DEF StartDestroy, TypeOK
<1>2. UNCHANGED <<wf, config, cloud, saved>>
  BY DEF StartDestroy
<1>3. CASE MissingState
  BY <1>1, <1>2, <1>3, KilledInvariant DEF StartDestroy
<1>4. CASE ~MissingState
  <2>1. /\ phase = "idle" /\ phase' = "destroy"
        /\ todo' = {r \in config : HasState(r) \/ r \in saved.failed}
        /\ last' = [command |-> "none", code |-> 0]
        /\ UNCHANGED <<made, failed, remaining, skip>>
    BY <1>4 DEF StartDestroy
  <2>2. /\ made = Nothing /\ remaining = {} /\ skip = {} /\ failed = {}
        /\ config \subseteq Res
    BY <2>1 DEF IdleInv, TypeOK, Configs
  <2>3. TypeOK'
    BY <1>1, <1>2, <2>1, <2>2, TypeNext DEF TypeOK
  <2>4. FileInv'
    BY <1>2, SameFile
  <2>5. MadeInv'
    BY <2>1, <2>2 DEF MadeInv, Nothing
  <2>6. IdleInv'
    BY <2>1, <2>2 DEF IdleInv, Nothing
  <2>7. \A r \in Res : (HasState(r)' <=> HasState(r)) /\ (Knew(r)' <=> Knew(r))
    BY <1>2 DEF HasState, Knew
  <2>8. ASSUME NEW r \in todo', HasState(r), NEW d \in ExtDeps(r)
        PROVE  d \in todo'
    <3>1. r \in config /\ r \in Res
      BY <2>1, <2>2, <2>8
    <3>2. d \in config
      BY <3>1, Dependencies DEF TypeOK, Configs
    <3>3. HasState(d)
      BY <1>4, <2>8, <3>1 DEF MissingState
    <3> QED
      BY <2>1, <3>2, <3>3
  <2>9. LoopInv'
    BY <1>2, <2>1, <2>2, <2>7, <2>8, Frozen DEF LoopInv
  <2>10. GoneInv'
    BY <1>2, <2>1, <2>2, <2>7 DEF GoneInv, Knew
  <2> QED
    BY <2>3, <2>4, <2>5, <2>6, <2>9, <2>10 DEF DestroyInv
<1> QED
  BY <1>3, <1>4

\* What the three steps of the loop have in common: the largest resource of
\* todo is dealt with, and the plan of the rest stands.
LEMMA LoopStep ==
  ASSUME IInv, NEW r \in Res, Backwards(r), todo' = todo \ {r},
         Bounded(cloud'), failed' \subseteq Res,
         remaining' \subseteq Res, skip' \subseteq Res,
         UNCHANGED <<wf, config, saved, phase, made, last, left>>
  PROVE  /\ TypeOK' /\ FileInv' /\ MadeInv' /\ IdleInv'
         /\ \A s \in todo' : HasState(s)' => ExtDeps(s)' \subseteq todo'
         /\ phase' = "destroy" /\ LoopInv /\ GoneInv
<1> USE DEF IInv
<1>1. phase = "destroy" /\ r \in todo /\ (\A s \in todo : s <= r)
  BY DEF Backwards
<1>2. TypeOK'
  BY TypeNext DEF TypeOK
<1>3. FileInv'
  BY SameFile
<1>4. MadeInv'
  BY Frozen DEF MadeInv
<1>5. IdleInv'
  BY <1>1 DEF IdleInv, Nothing
<1>6. LoopInv /\ GoneInv
  BY <1>1 DEF DestroyInv
<1>7. ASSUME NEW s \in todo', HasState(s), NEW d \in ExtDeps(s)
      PROVE  d \in todo'
  <2>1. s \in todo /\ s \in Res /\ d \in todo
    BY <1>6, <1>7 DEF LoopInv, TypeOK
  <2>2. d < s /\ s <= r
    BY <1>1, <1>7, <2>1, Dependencies DEF TypeOK
  <2>3. d \in Nat /\ s \in Nat /\ r \in Nat
    BY <2>1 DEF TypeOK, Res
  <2> QED
    BY <2>1, <2>2, <2>3
<1> QED
  BY <1>1, <1>2, <1>3, <1>4, <1>5, <1>6, <1>7, Frozen DEF HasState

\* What is kept is marked, with its external dependencies.
LEMMA KeepInvariant ==
  ASSUME IInv, NEW r \in Res, Backwards(r), todo' = todo \ {r}, Keep(r),
         Bounded(cloud'), failed' \subseteq Res, failed' # {},
         \A s \in Res \ {r} : cloud'[s] = cloud[s],
         UNCHANGED <<wf, config, saved, phase, made, last, left>>
  PROVE  IInv'
<1>1. /\ remaining' = remaining \cup {r}
      /\ skip' = skip \cup ExternalStates(r)
  BY DEF Keep
<1>2. ExternalStates(r) \subseteq Res
  BY Dependencies DEF ExternalStates, IInv, TypeOK
<1>3. remaining' \subseteq Res /\ skip' \subseteq Res
  BY <1>1, <1>2 DEF IInv, TypeOK
<1>4. /\ TypeOK' /\ FileInv' /\ MadeInv' /\ IdleInv'
      /\ \A s \in todo' : HasState(s)' => ExtDeps(s)' \subseteq todo'
      /\ phase' = "destroy" /\ LoopInv /\ GoneInv
  BY <1>3, LoopStep
<1>5. ASSUME NEW s \in remaining', HasState(s)
      PROVE  /\ ExtDeps(s) \subseteq todo' \cup remaining'
             /\ ExtDeps(s) \cap todo' \subseteq skip'
  <2>1. CASE s = r
    <3>1. ExtDeps(r) \subseteq todo
      BY <1>4, <1>5, <2>1 DEF LoopInv, Backwards
    <3>2. ExtDeps(r) \subseteq skip'
      BY <1>1, <1>5, <2>1 DEF ExternalStates
    <3> QED
      BY <1>1, <2>1, <3>1, <3>2
  <2>2. CASE s \in remaining
    <3>1. /\ ExtDeps(s) \subseteq todo \cup remaining
          /\ ExtDeps(s) \cap todo \subseteq skip
      BY <1>4, <1>5, <2>2 DEF LoopInv
    <3> QED
      BY <1>1, <3>1
  <2> QED
    BY <1>1, <1>5, <2>1, <2>2
<1>6. LoopInv'
  BY <1>4, <1>5, Frozen DEF LoopInv, HasState
<1>7. ASSUME NEW s \in config, Knew(s)
      PROVE  s \in todo' \cup remaining' \/ cloud'[s] = 0
  <2>1. s \in Res
    BY DEF IInv, TypeOK, Configs
  <2> QED
    BY <1>1, <1>4, <1>7, <2>1 DEF GoneInv
<1>8. GoneInv'
  BY <1>7 DEF GoneInv, Knew, HasState
<1> QED
  BY <1>4, <1>6, <1>8 DEF IInv, DestroyInv

LEMMA SkipInvariant ==
  ASSUME IInv, NEW r \in Res, Skip(r)
  PROVE  IInv'
<1>1. /\ Backwards(r) /\ r \in skip /\ todo' = todo \ {r} /\ Keep(r)
      /\ UNCHANGED <<wf, config, saved, phase, made, last, left>>
      /\ failed' = failed /\ cloud' = cloud
  BY DEF Skip
<1>2. failed # {}
  BY <1>1 DEF IInv, DestroyInv, GoneInv, Backwards
<1>3. Bounded(cloud') /\ failed' \subseteq Res
  BY <1>1 DEF IInv, TypeOK
<1>4. \A s \in Res \ {r} : cloud'[s] = cloud[s]
  BY <1>1
<1> QED
  BY <1>1, <1>2, <1>3, <1>4, KeepInvariant

LEMMA DeleteFailsInvariant ==
  ASSUME IInv, NEW r \in Res, DeleteFails(r)
  PROVE  IInv'
<1>1. /\ Backwards(r) /\ todo' = todo \ {r} /\ Keep(r)
      /\ failed' = failed \cup {r}
      /\ UNCHANGED <<wf, config, saved, phase, made, last, left>>
  BY DEF DeleteFails
<1>2. PICK k \in 0..cloud[r] : cloud' = [cloud EXCEPT ![r] = k]
  BY DEF DeleteFails
<1>3. /\ cloud \in [Res -> Nat] /\ cloud[r] \in Nat /\ cloud[r] <= Count(r)
      /\ Count(r) \in Nat
  BY Dependencies DEF IInv, TypeOK, Bounded
<1>4. k \in Nat /\ k <= Count(r)
  BY <1>3
<1>5. Bounded(cloud')
  BY <1>2, <1>4, SetBounded DEF IInv, TypeOK
<1>6. \A s \in Res \ {r} : cloud'[s] = cloud[s]
  BY <1>2, <1>3
<1>7. failed' \subseteq Res /\ failed' # {}
  BY <1>1 DEF IInv, TypeOK
<1> QED
  BY <1>1, <1>5, <1>6, <1>7, KeepInvariant

\* Nothing that stays needs what is deleted: it would be marked.
LEMMA DeleteInvariant ==
  ASSUME IInv, NEW r \in Res, Delete(r)
  PROVE  IInv'
<1>1. /\ Backwards(r) /\ r \notin skip /\ todo' = todo \ {r}
      /\ cloud' = [cloud EXCEPT ![r] = 0]
      /\ UNCHANGED <<wf, config, saved, phase, made, last, left>>
      /\ UNCHANGED <<failed, remaining, skip>>
  BY DEF Delete
<1>2. 0 <= Count(r) /\ cloud \in [Res -> Nat]
  BY Dependencies DEF IInv, TypeOK, Bounded
<1>3. Bounded(cloud')
  BY <1>1, <1>2, SetBounded DEF IInv, TypeOK
<1>4. failed' \subseteq Res /\ remaining' \subseteq Res /\ skip' \subseteq Res
  BY <1>1 DEF IInv, TypeOK
<1>5. /\ TypeOK' /\ FileInv' /\ MadeInv' /\ IdleInv'
      /\ \A s \in todo' : HasState(s)' => ExtDeps(s)' \subseteq todo'
      /\ phase' = "destroy" /\ LoopInv /\ GoneInv
  BY <1>1, <1>3, <1>4, LoopStep
<1>6. ASSUME NEW s \in remaining, HasState(s)
      PROVE  /\ ExtDeps(s) \subseteq todo' \cup remaining
             /\ ExtDeps(s) \cap todo' \subseteq skip
  BY <1>1, <1>5, <1>6 DEF LoopInv, Backwards
<1>7. LoopInv'
  BY <1>1, <1>5, <1>6, Frozen DEF LoopInv, HasState
<1>8. ASSUME NEW s \in config, Knew(s)
      PROVE  s \in todo' \cup remaining \/ cloud'[s] = 0
  <2>1. s \in Res
    BY DEF IInv, TypeOK, Configs
  <2> QED
    BY <1>1, <1>2, <1>5, <1>8, <2>1 DEF GoneInv
<1>9. GoneInv'
  BY <1>1, <1>5, <1>8 DEF GoneInv, Knew, HasState
<1> QED
  BY <1>5, <1>7, <1>9 DEF IInv, DestroyInv

\* What is left of the file after a destroy.
LEMMA RememberedType ==
  ASSUME IInv
  PROVE  /\ Remembered \in FileType /\ NoFile \in FileType
         /\ Bounded(Remembered.states) /\ Bounded(Remembered.created)
         /\ Bounded(NoFile.states) /\ Bounded(NoFile.created)
<1> DEFINE st == [r \in Res |-> IF r \in remaining THEN saved.states[r] ELSE 0]
           cr == [r \in Res |-> IF Stays(Prov(r)) THEN saved.created[r] ELSE 0]
           ex == \E p \in Providers : Stays(p)
<1>1. Bounded(saved.states) /\ Bounded(saved.created) /\ Bounded(Nothing)
  BY NothingBounded DEF IInv, TypeOK
<1>2. \A r \in Res : 0 <= Count(r)
  BY Dependencies DEF IInv, TypeOK
<1>3. Bounded(st)
  BY <1>1, <1>2 DEF Bounded
<1>4. Bounded(cr)
  BY <1>1, <1>2 DEF Bounded
<1>5. Remembered = [exists |-> ex, states |-> st, failed |-> failed, created |-> cr]
  BY DEF Remembered
<1>6. NoFile = [exists |-> FALSE, states |-> Nothing, failed |-> {}, created |-> Nothing]
  BY DEF NoFile
<1>7. ex \in BOOLEAN /\ failed \subseteq Res
  BY DEF IInv, TypeOK
<1>8. st \in [Res -> Nat] /\ cr \in [Res -> Nat] /\ Nothing \in [Res -> Nat]
  BY <1>1, <1>3, <1>4 DEF Bounded
<1> HIDE DEF st, cr, ex
<1>9. Remembered \in FileType /\ NoFile \in FileType
  BY <1>5, <1>6, <1>7, <1>8 DEF FileType
<1> QED
  BY <1>1, <1>3, <1>4, <1>5, <1>6, <1>9

\* Among what stays are its external dependencies.
LEMMA RememberedClosed ==
  ASSUME IInv, phase = "destroy", todo = {}, wf' = wf,
         saved' = IF remaining = {} THEN NoFile ELSE Remembered
  PROVE  FileInv'
<1> SUFFICES ASSUME NEW r \in Res, saved'.states[r] > 0, NEW d \in ExtDeps(r)
             PROVE  saved'.states[d] > 0
  BY Frozen DEF FileInv, HasState
<1>1. remaining # {}
  BY DEF NoFile, Nothing
<1>2. \A s \in Res :
        saved'.states[s] = IF s \in remaining THEN saved.states[s] ELSE 0
  BY <1>1 DEF Remembered
<1>3. r \in remaining /\ HasState(r)
  BY <1>2 DEF HasState
<1>4. d \in remaining
  BY <1>3 DEF IInv, DestroyInv, LoopInv
<1>5. d \in Res /\ HasState(d)
  BY <1>3, Dependencies DEF IInv, TypeOK, FileInv
<1> QED
  BY <1>2, <1>4, <1>5 DEF HasState

LEMMA EndDestroyInvariant == IInv /\ EndDestroy => IInv'
<1> SUFFICES ASSUME IInv, EndDestroy PROVE IInv'
  OBVIOUS
<1>1. PICK code \in {0, 1} : Ended("destroy", code)
  BY DEF EndDestroy
<1>2. /\ phase = "destroy" /\ todo = {}
      /\ saved' = IF remaining = {} THEN NoFile ELSE Remembered
      /\ UNCHANGED <<wf, config, cloud, left>>
  BY DEF EndDestroy
<1>3. FileInv'
  BY <1>2, RememberedClosed
<1>4. Bounded(cloud') /\ left' \in 0..Commands
  BY <1>2 DEF IInv, TypeOK
<1>5. saved' \in FileType /\ Bounded(saved'.states) /\ Bounded(saved'.created)
  BY <1>2, RememberedType
<1> QED
  BY <1>1, <1>2, <1>3, <1>4, <1>5, EndedInvariant
-----------------------------------------------------------------------------
(***************************************************************************)
(* The theorems.                                                           *)
(***************************************************************************)

\* Every step of every command keeps the invariant.
LEMMA StepInvariant == IInv /\ [Next]_vars => IInv'
<1> SUFFICES ASSUME IInv, [Next]_vars PROVE IInv'
  OBVIOUS
<1>1. CASE EditConfig
  BY <1>1, EditInvariant
<1>2. CASE StartApply
  BY <1>2, StartApplyInvariant
<1>3. CASE EndApply
  BY <1>3, EndApplyInvariant
<1>4. CASE Crash
  BY <1>4, CrashInvariant
<1>5. CASE StartDestroy
  BY <1>5, StartDestroyInvariant
<1>6. CASE EndDestroy
  BY <1>6, EndDestroyInvariant
<1>7. CASE StopDestroy
  BY <1>7, StopDestroyInvariant
<1>8. CASE DestroyNothing
  BY <1>8, DestroyNothingInvariant
<1>9. ASSUME NEW r \in Res, Create(r) \/ CreateFails(r) \/ Drop(r)
      PROVE  IInv'
  BY <1>9, CreateInvariant, CreateFailsInvariant, DropInvariant
<1>10. ASSUME NEW r \in Res, Skip(r) \/ Delete(r) \/ DeleteFails(r)
      PROVE  IInv'
  BY <1>10, SkipInvariant, DeleteInvariant, DeleteFailsInvariant
<1>11. CASE UNCHANGED vars
  <2>1. UNCHANGED <<wf, config, cloud, saved, phase, todo, made, failed,
                    remaining, skip, last, left>>
    BY <1>11 DEF vars, run
  <2>2. TypeOK'
    BY <2>1, TypeNext DEF IInv, TypeOK
  <2>3. FileInv'
    BY <2>1, SameFile DEF IInv
  <2>4. IdleInv' /\ MadeInv'
    BY <2>1, Frozen DEF IInv, IdleInv, MadeInv, Nothing
  <2>5. DestroyInv'
    BY <2>1, Frozen DEF IInv, DestroyInv, LoopInv, GoneInv, HasState, Knew
  <2> QED
    BY <2>2, <2>3, <2>4, <2>5 DEF IInv
<1> QED
  BY <1>1, <1>2, <1>3, <1>4, <1>5, <1>6, <1>7, <1>8, <1>9, <1>10, <1>11 DEF Next

\* The invariant holds in every reachable state.
THEOREM Invariant == Spec => []IInv
  BY InitInvariant, StepInvariant, PTL DEF Spec

\* Variables keep their types, and no instance is made or recorded twice.
THEOREM TypeCorrect == Spec => []TypeOK
  BY Invariant, PTL DEF IInv

\* Controller.destroy finds the states of every external dependency it looks
\* up, whatever happened to the commands before it.
THEOREM StatesClosedHolds == Spec => []StatesClosed
<1>1. IInv => StatesClosed
  BY DEF IInv, TypeOK, FileInv, StatesClosed, MissingState, Configs
<1> QED
  BY <1>1, Invariant, PTL

\* A destroy keeps what the resources it could not delete need.
THEOREM KeepsNeededHolds == Spec => []KeepsNeeded
<1>1. IInv => KeepsNeeded
  BY DEF IInv, DestroyInv, LoopInv, KeepsNeeded
<1> QED
  BY <1>1, Invariant, PTL

\* Only two steps write the file.
LEMMA FileStep ==
  ASSUME [Next]_vars, saved' # saved
  PROVE  EndApply \/ EndDestroy
  BY DEF Next, vars, run, EditConfig, StartApply, Crash, StartDestroy,
         DestroyNothing, StopDestroy, Create, CreateFails, Drop, Skip, Delete, DeleteFails

\* A destroy removes the session's directory only when everything the file
\* knew of and the configuration lists is gone.
THEOREM RemovedWhenGoneHolds == Spec => RemovedWhenGone
<1>1. ASSUME IInv, [Next]_vars, saved.exists, ~saved'.exists,
             NEW r \in config, Knew(r)
      PROVE  cloud[r] = 0
  <2>1. EndDestroy
    <3>1. ~EndApply
      BY <1>1 DEF EndApply, Reconciled
    <3> QED
      BY <1>1, <3>1, FileStep
  <2>2. /\ phase = "destroy" /\ todo = {}
        /\ saved' = IF remaining = {} THEN NoFile ELSE Remembered
    BY <2>1 DEF EndDestroy
  <2>3. GoneInv
    BY <1>1, <2>2 DEF IInv, DestroyInv
  <2>4. ASSUME remaining # {} PROVE FALSE
    <3>1. PICK f \in failed : TRUE
      BY <2>3, <2>4 DEF GoneInv
    <3>2. f \in Res /\ Prov(f) \in Providers
      BY <1>1, Dependencies DEF IInv, TypeOK
    <3>3. Stays(Prov(f))
      BY <3>2 DEF Stays
    <3>4. Remembered.exists
      BY <3>2, <3>3 DEF Remembered
    <3> QED
      BY <1>1, <2>2, <2>4, <3>4
  <2> QED
    BY <1>1, <2>2, <2>3, <2>4 DEF GoneInv
<1>2. IInv /\ [Next]_vars =>
        [saved.exists /\ ~saved'.exists =>
           \A r \in config : Knew(r) => cloud[r] = 0]_vars
  BY <1>1
<1> QED
  BY <1>2, Invariant, PTL DEF Spec, RemovedWhenGone

\* An apply after one that created something forgets nothing that exists.
THEOREM SurvivesHolds == Spec => Survives
<1>1. ASSUME IInv, [Next]_vars, \E r \in Res : saved.created[r] > 0,
             phase = "apply", NEW r \in Res, HasState(r)
      PROVE  saved'.states[r] > 0
  <2>1. CASE saved' = saved
    BY <1>1, <2>1 DEF HasState
  <2>2. CASE saved' # saved
    <3>1. saved' = Reconciled
      BY <1>1, <2>2, FileStep DEF EndApply, EndDestroy
    <3>2. made[r] \in Nat /\ saved.states[r] \in Nat
      BY <1>1 DEF IInv, TypeOK, Bounded
    <3>3. CASE KeptState(r)
      <4>1. Reconciled.states[r] = Larger(made[r], saved.states[r])
        BY <1>1, <3>3 DEF Reconciled
      <4>2. /\ Larger(made[r], saved.states[r]) \in Nat
            /\ saved.states[r] <= Larger(made[r], saved.states[r])
        BY <3>2, LargerNat
      <4> QED
        BY <1>1, <3>1, <3>2, <4>1, <4>2 DEF HasState
    <3>4. CASE ~KeptState(r)
      <4>1. made[r] > 0
        BY <1>1, <3>4, NotKept
      <4>2. Reconciled.states[r] \in Nat /\ made[r] <= Reconciled.states[r]
        BY <1>1, ReconciledStates
      <4> QED
        BY <3>1, <3>2, <4>1, <4>2
    <3> QED
      BY <3>3, <3>4
  <2> QED
    BY <2>1, <2>2
<1>2. IInv /\ [Next]_vars =>
        [(\E r \in Res : saved.created[r] > 0) /\ phase = "apply" =>
           \A r \in Res : HasState(r) /\ cloud'[r] > 0 => saved'.states[r] > 0]_vars
  BY <1>1
<1> QED
  BY <1>2, Invariant, PTL DEF Spec, Survives
=============================================================================
