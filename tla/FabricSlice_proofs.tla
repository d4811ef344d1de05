------------------------- MODULE FabricSlice_proofs -------------------------
(***************************************************************************)
(* Proofs about FabricSlice: its type invariant, that nothing is reported  *)
(* that is not in the slice (ReportedExists), that an apply that succeeds  *)
(* leaves what is configured (MatchesConfig), and that an apply takes      *)
(* nothing that is configured from a working slice (KeepsConfigured).      *)
(*                                                                         *)
(* All of it is about one command: what earlier ones left is read from     *)
(* FABRIC when the plan begins, and nothing is assumed of it.              *)
(***************************************************************************)
EXTENDS FabricSlice, TLAPS

\* The types of the records.
SliceType == [found : BOOLEAN, created : BOOLEAN, modified : BOOLEAN,
              submitted : BOOLEAN, notified : BOOLEAN]
FileType  == [states : SUBSET Res, counted : BOOLEAN, failed : SUBSET Res]
StateType == {"none", "StableOK"} \cup Moving \cup Failing

\* TypeOK, set by set, and the record that stands for FABRIC.
Typed ==
  /\ wf \in Layouts /\ config \in Configs /\ left \in 0..Commands
  /\ fabric \in [state : StateType, has : SUBSET Res]
  /\ saved \in FileType
  /\ phase \in {"idle", "init", "add", "destroy"} \cup Loops
  /\ cur \in 1..(N + 1) /\ step \in {"idle", "create", "await"} /\ errors \in BOOLEAN
  /\ slice \in SliceType
  /\ topo \subseteq Res /\ existing \subseteq Res /\ added \subseteq Res
  /\ listed \subseteq Res /\ pending \subseteq Res /\ ready \subseteq Res
  /\ parked \subseteq Res /\ failed \subseteq Res /\ reported \subseteq Res
  /\ todo \subseteq Res /\ skip \subseteq Res /\ remaining \subseteq Res
  /\ added \cap parked = {} /\ pending \cap parked = {} /\ ready \cap parked = {}
  /\ added \cap (pending \cup ready) = {} /\ pending \cap ready = {}

\* An apply is past init_slice.
Running == phase \in Loops \cup {"add"}
Queued  == added \cup pending \cup ready \cup parked

\* A resource is listed when it has been added and is configured; a network never has to
\* be parked, because it is attached to nothing.
QueueInv ==
  /\ listed = added \cap config
  /\ pending \cup ready \cup parked \subseteq config
  /\ parked \cap Nets = {}

\* Between commands, in a destroy and before the plan nothing is queued; the plan puts
\* each resource in a queue; and there it stays, in another perhaps, unless something
\* fails.  A command that can change something has not ended.
StartInv ==
  /\ phase # "idle" => last.command = "none"
  /\ phase \in {"idle", "init", "destroy"} =>
       Queued = {} /\ reported = {} /\ cur = 1 /\ step = "idle" /\ ~errors
  /\ phase = "add" => ready = {} /\ step = "idle" /\ Queued = Planned \cap 1..(cur - 1)
  /\ phase \in {"init", "add"} \cup Loops => Planned # {}
  /\ phase \in Loops /\ failed = {} => Planned \subseteq Queued

\* What is parked misses a network.
ParkInv == failed = {} => \A r \in parked : ~Attachable(r, {})

\* A call is in progress only for a resource of the loop, and to create only what was
\* added, when everything released has been tried; the loop remembers an exception only
\* if the provider does.
CallInv ==
  /\ step # "idle" => cur \in Selected
  /\ step = "create" =>
       phase \in {"first", "rest"} /\ cur \in added /\ (failed = {} => ready = {})
  /\ step = "await" => phase \in {"first", "wait"}
  /\ errors => failed # {}

\* What the queues and the control need.
QInv == Typed /\ QueueInv /\ StartInv /\ ParkInv /\ CallInv
-----------------------------------------------------------------------------
\* The two forms of the type invariant.
LEMMA TypedIsTypeOK == Typed => TypeOK
  BY DEF Typed, TypeOK, SliceType, FileType, StateType

\* What the assumption says of the layout at hand.
LEMMA LayoutFacts ==
  ASSUME wf \in Layouts
  PROVE  /\ Nets \subseteq Res
         /\ \A r \in Res : wf.link[r] \subseteq Nets /\ wf.link[r] \subseteq 1..(r - 1)
         /\ \A r \in Nets : wf.link[r] = {}
         /\ Serving \subseteq config
  BY FabricAssumption DEF LayoutType, Nets, Serving

\* The updates of the flags keep their type.
LEMMA SliceUpdates ==
  /\ Unset \in SliceType
  /\ [Unset EXCEPT !.found = TRUE, !.created = TRUE] \in SliceType
  /\ \A b \in BOOLEAN : [Unset EXCEPT !.found = b] \in SliceType
  /\ slice \in SliceType =>
       /\ \A b \in BOOLEAN :
            /\ [slice EXCEPT !.modified = b] \in SliceType
            /\ [slice EXCEPT !.modified = b, !.submitted = TRUE] \in SliceType
       /\ [slice EXCEPT !.notified = TRUE] \in SliceType
       /\ [slice EXCEPT !.created = TRUE, !.modified = FALSE] \in SliceType
       /\ [slice EXCEPT !.created = TRUE, !.modified = FALSE, !.notified = TRUE]
            \in SliceType
  BY DEF SliceType, Unset

\* The end of a command, for the types.
LEMMA TypedEnd ==
  ASSUME Typed, NEW c, NEW ok, Ended(c, ok), UNCHANGED <<session, fabric>>,
         saved' \in FileType
  PROVE  Typed'
<1>1. N \in Nat /\ 1 \in 1..(N + 1)
  BY FabricAssumption
<1>2. Configs' = Configs
  BY DEF session, Configs
<1>3. QED
  BY <1>1, <1>2, SliceUpdates DEF Typed, Ended, session

\* The loops are about resources.
LEMMA CurInRes == Typed => Selected \subseteq Res
  BY DEF Selected, Typed, Serving, Planned, Configs, FileType

\* What all calls that raise do.
RaisingCall ==
  /\ step # "idle" /\ CallRaises
  /\ UNCHANGED <<session, saved, queues, reported, destroy, last>>

\* The calls that raise without a request to FABRIC.
LEMMA RaisingCalls ==
  Refuse \/ KeyError \/ NetworkingFails \/ NewNetworkingFails \/ WaitFails => RaisingCall
  BY DEF Refuse, KeyError, NetworkingFails, NewNetworkingFails, WaitFails, Creating, Stable,
         RaisingCall

\* What is saved has the type of the file.
LEMMA SaveTyped ==
  ASSUME Typed, NEW rep \in SUBSET Res, NEW bad \in SUBSET Res, Save(rep, bad)
  PROVE  saved' \in FileType
<1>1. rep \cup (IF saved.counted /\ ~(Planned \subseteq config /\ rep = Planned)
                THEN saved.states ELSE {}) \subseteq Res
  BY DEF Typed, FileType
<1>2. {TRUE} \cup {rep # {}} \subseteq BOOLEAN
  OBVIOUS
<1>3. QED
  BY <1>1, <1>2 DEF Save, FileType

\* The four outcomes of adding a resource.
LEMMA AddCases ==
  ASSUME Add
  PROVE  /\ phase = "add" /\ cur \in Planned /\ cur' = cur + 1
         /\ UNCHANGED <<session, fabric, saved, phase, step, errors, existing, ready,
                        results, destroy, last>>
         /\ \/ /\ cur \notin config /\ added' = added \cup {cur}
               /\ UNCHANGED <<slice, topo, listed, pending, parked>>
            \/ /\ cur \in config /\ pending' = pending \cup {cur}
               /\ UNCHANGED <<slice, topo, listed, added, parked>>
            \/ /\ cur \in config /\ ~Attachable(cur, {}) /\ parked' = parked \cup {cur}
               /\ UNCHANGED <<slice, topo, listed, added, pending>>
            \/ /\ cur \in config /\ AddToSlice({cur}) /\ added' = added \cup {cur}
               /\ UNCHANGED <<pending, parked>>
<1>1. CASE cur \notin config
  BY <1>1 DEF Add
<1>2. CASE cur \in config /\ cur \in wf.waits
  BY <1>2 DEF Add
<1>3. CASE cur \in config \ wf.waits /\ ~Attachable(cur, {})
  BY <1>3 DEF Add
<1>4. CASE cur \in config \ wf.waits /\ Attachable(cur, {})
  BY <1>4 DEF Add
<1>5. QED
  BY <1>1, <1>2, <1>3, <1>4

\* Adding to the slice keeps the types.
LEMMA SliceTyped ==
  ASSUME Typed, NEW rs \in SUBSET Res, AddToSlice(rs)
  PROVE  /\ listed' \subseteq Res /\ topo' \subseteq Res
         /\ slice' \in SliceType
<1> DEFINE new == rs \ existing
           b   == slice.modified \/ new \cap Nodes # {} \/ (new # {} /\ slice.created)
<1>1. b \in BOOLEAN /\ slice' = [slice EXCEPT !.modified = b]
  BY DEF AddToSlice
<1> HIDE DEF b
<1>2. slice' \in SliceType
  BY <1>1, SliceUpdates DEF Typed
<1>3. QED
  BY <1>2 DEF AddToSlice, Typed

\* The types are kept by every step.
LEMMA TypedStep == QInv /\ [Next]_vars => Typed'
<1> SUFFICES ASSUME Typed, QueueInv, StartInv, CallInv, [Next]_vars PROVE Typed'
  BY DEF QInv
<1> USE FabricAssumption
<1>0. Nets \subseteq Res
  BY LayoutFacts DEF Typed
<1>1. CASE UNCHANGED vars
  BY <1>1 DEF vars, session, loop, object, queues, results, destroy, Typed, Configs
<1>2. CASE Settle
  BY <1>2 DEF Settle, Typed, session, loop, object, queues, results, destroy, Configs,
              Moving, Failing, StateType
<1>3. CASE StartApply
  <2>1. Configs' = Configs
    BY <1>3 DEF StartApply, Configs
  <2>2. left' \in 0..Commands
    BY <1>3 DEF StartApply, Typed
  <2>3. QED
    BY <1>3, <2>1, <2>2 DEF StartApply, Typed, object, queues, results, destroy
<1>4. CASE InitFound
  BY <1>4, SliceUpdates DEF InitFound, Opened, Typed, session, queues, results, destroy, Configs
<1>5. CASE InitNew
  BY <1>5, SliceUpdates DEF InitNew, Opened, Typed, session, queues, results, destroy, Configs
<1>6. CASE InitReplace
  BY <1>6, SliceUpdates
     DEF InitReplace, Opened, Typed, session, queues, results, destroy, Configs, NoSlice, StateType
<1>7. CASE InitFails
  BY <1>7, TypedEnd DEF InitFails, Typed
<1>8. CASE Add
  <2>1. cur \in Res /\ cur + 1 \in 1..(N + 1)
    BY <1>8 DEF Add, Planned, Typed, Configs, FileType, Res
  <2>2. cur \notin added /\ cur \notin pending /\ cur \notin parked /\ ready = {}
    BY <1>8, <2>1, AddCases DEF StartInv, Queued
  <2>3. Configs' = Configs
    BY <1>8, AddCases DEF session, Configs
  <2>4. /\ added' \subseteq Res /\ pending' \subseteq Res /\ parked' \subseteq Res
        /\ added' \cap parked' = {} /\ pending' \cap parked' = {}
        /\ added' \cap pending' = {} /\ ready' = {}
    <3>1. \/ added' = added \cup {cur} /\ UNCHANGED <<pending, parked, ready>>
          \/ pending' = pending \cup {cur} /\ UNCHANGED <<added, parked, ready>>
          \/ parked' = parked \cup {cur} /\ UNCHANGED <<added, pending, ready>>
      BY <1>8, AddCases
    <3>2. /\ added \subseteq Res /\ pending \subseteq Res /\ parked \subseteq Res
          /\ added \cap parked = {} /\ pending \cap parked = {} /\ added \cap pending = {}
      BY DEF Typed
    <3>3. QED
      BY <2>1, <2>2, <3>1, <3>2
  <2>5. slice' \in SliceType /\ topo' \subseteq Res /\ listed' \subseteq Res
    <3>1. AddToSlice({cur}) \/ UNCHANGED <<slice, topo, listed>>
      BY <1>8, AddCases
    <3>2. UNCHANGED <<slice, topo, listed>> => slice' \in SliceType /\ topo' \subseteq Res /\ listed' \subseteq Res
      BY DEF Typed
    <3>3. {cur} \in SUBSET Res
      BY <2>1
    <3>4. QED
      BY <3>1, <3>2, <3>3, SliceTyped
  <2>6. UNCHANGED <<session, fabric, saved, phase, step, errors, existing, results, destroy>>
        /\ cur' \in 1..(N + 1)
    BY <1>8, AddCases, <2>1
  <2>7. QED
    BY <2>3, <2>4, <2>5, <2>6 DEF Typed, session, results, destroy
<1>9. CASE AddFails
  BY <1>9, TypedEnd DEF AddFails, Typed
<1>10. CASE SkipOver
  <2>1. cur + 1 \in 1..(N + 1)
    BY <1>10 DEF SkipOver, Res
  <2>2. QED
    BY <1>10, <2>1 DEF SkipOver, Typed, session, object, queues, results, destroy, Configs
<1>11. CASE NextLoop
  <2>1. phase' \in Loops /\ 1 \in 1..(N + 1)
    BY <1>11 DEF NextLoop, Loops
  <2>2. QED
    BY <1>11, <2>1 DEF NextLoop, Typed, session, object, queues, results, destroy, Configs
<1>12. CASE EndApply
  <2>1. saved' \in FileType
    BY <1>12, SaveTyped DEF EndApply, Typed
  <2>2. QED
    BY <1>12, <2>1, TypedEnd DEF EndApply
<1>13. CASE Interrupt
  <2>1. PICK S \in SUBSET (IF step = "await" /\ fabric.state = "StableOK" /\ Networked
                          THEN listed ELSE {}) :
              Save(reported \cup S, failed \cup (IF step = "idle" THEN {} ELSE {cur}))
    BY <1>13 DEF Interrupt
  <2>2. S \subseteq Res
    BY <2>1 DEF Typed
  <2>3. step # "idle" => cur \in Res
    BY CurInRes DEF CallInv
  <2>4. saved' \in FileType
    BY <2>1, <2>2, <2>3, SaveTyped DEF Typed
  <2>5. QED
    BY <1>13, <2>4, TypedEnd DEF Interrupt
<1>14. CASE Kill
  BY <1>14, TypedEnd DEF Kill, Typed
<1>15. CASE Drain
  <2>1. PICK bad \in Failures :
          LET good == CanAdd(bad)
          IN  /\ cur \notin ready \cap bad
              /\ AddToSlice(good)
              /\ added' = added \cup good
              /\ ready' = ready \cap bad
              /\ parked' = (parked \cup ready) \ (good \cup bad)
              /\ failed' = failed \cup bad
              /\ Returns(IF cur \in added \cup good THEN "create" ELSE "idle")
    BY <1>15 DEF Drain
  <2>2. bad \subseteq ready \cup parked /\ CanAdd(bad) \subseteq (ready \cup parked) \ bad
    BY DEF Failures, CanAdd, Tried
  <2>3. cur' \in 1..(N + 1) /\ step' \in {"idle", "create", "await"}
    BY <1>15, <2>1, CurInRes DEF Drain, Returns, Typed, Res
  <2>4. QED
    BY <1>15, <2>1, <2>2, <2>3, SliceTyped
       DEF Drain, Returns, Typed, session, destroy, Configs
<1>16. CASE DrainRaises
  <2>1. PICK bad \in Failures : \E good \in SUBSET CanAdd(bad) :
              /\ cur \in bad
              /\ AddToSlice(good)
              /\ added' = added \cup good
              /\ ready' = ready \cap bad
              /\ parked' = parked \ (good \cup bad)
              /\ failed' = failed \cup bad
              /\ Raised
    BY <1>16 DEF DrainRaises
  <2>2. PICK good \in SUBSET CanAdd(bad) :
              /\ AddToSlice(good)
              /\ added' = added \cup good
              /\ ready' = ready \cap bad
              /\ parked' = parked \ (good \cup bad)
              /\ failed' = failed \cup bad
              /\ Raised
    BY <2>1
  <2>3. bad \subseteq ready \cup parked /\ good \subseteq (ready \cup parked) \ bad
    BY DEF Failures, CanAdd, Tried
  <2>4. cur' \in 1..(N + 1) /\ step' \in {"idle", "create", "await"}
    BY <1>16, <2>2, CurInRes DEF DrainRaises, Raised, Typed, Res
  <2>5. QED
    BY <1>16, <2>2, <2>3, <2>4, SliceTyped
       DEF DrainRaises, Raised, Typed, session, destroy, Configs
<1>17. CASE Refuse \/ KeyError \/ NetworkingFails \/ NewNetworkingFails \/ WaitFails
  <2>1. cur \in Res /\ cur + 1 \in 1..(N + 1)
    BY <1>17, RaisingCalls, CurInRes DEF RaisingCall, CallInv, Res
  <2>2. topo' \subseteq Res /\ existing' \subseteq Res
    BY <1>17 DEF Refuse, KeyError, NetworkingFails, NewNetworkingFails, WaitFails, Stable, Typed,
                 object
  <2>3. slice' \in SliceType
    <3>1. CASE KeyError
      <4>1. PICK gone \in SUBSET Obsolete :
                   slice' = [slice EXCEPT !.modified = slice.modified \/ gone # {}]
        BY <3>1 DEF KeyError
      <4>2. (slice.modified \/ gone # {}) \in BOOLEAN
        OBVIOUS
      <4>3. QED
        BY <4>1, <4>2, SliceUpdates DEF Typed
    <3>2. QED
      BY <1>17, <3>1, SliceUpdates
         DEF Refuse, NetworkingFails, NewNetworkingFails, WaitFails, Typed, object
  <2>4. UNCHANGED fabric
    BY <1>17 DEF Refuse, KeyError, NetworkingFails, NewNetworkingFails, WaitFails
  <2>5. QED
    BY <1>17, <2>1, <2>2, <2>3, <2>4, RaisingCalls
       DEF RaisingCall, CallRaises, Raised, Typed, session, queues, destroy, Configs
<1>18. CASE Submit
  <2>1. cur \in Res /\ cur + 1 \in 1..(N + 1)
    BY <1>18, CurInRes DEF Submit, Creating, CallInv, Res
  <2>2. topo' \subseteq Res /\ UNCHANGED existing
    BY <1>18 DEF Submit, Typed
  <2>3. Modified \in BOOLEAN
    BY DEF Modified
  <2>4. slice' \in SliceType
    <3>1. [slice EXCEPT !.modified = Modified] \in SliceType
          /\ [slice EXCEPT !.modified = Modified, !.submitted = TRUE] \in SliceType
      BY <2>3, SliceUpdates DEF Typed
    <3>2. QED
      BY <1>18, <3>1 DEF Submit
  <2>5. fabric' \in [state : StateType, has : SUBSET Res]
    BY <1>18 DEF Submit, Accepted, Typed, Moving, StateType
  <2>6. phase' = phase /\ errors' \in BOOLEAN /\ cur' \in 1..(N + 1) /\ failed' \subseteq Res
        /\ step' \in {"idle", "create", "await"}
    BY <1>18, <2>1 DEF Submit, Returns, AfterCreate, CallRaises, Raised, Typed
  <2>7. QED
    BY <1>18, <2>2, <2>4, <2>5, <2>6 DEF Submit, Typed, session, queues, destroy, Configs
<1>19. CASE HoldBack \/ Unchanged \/ EnterWait \/ ReportExisting \/ AlreadyReported \/ ReportNew
  <2>1. cur \in Res /\ cur + 1 \in 1..(N + 1)
    BY <1>19, CurInRes DEF HoldBack, Unchanged, EnterWait, ReportExisting, AlreadyReported,
                           ReportNew, Stable, Creating, CallInv, Res
  <2>2. topo' \subseteq Res /\ existing' \subseteq Res /\ reported' \subseteq Res
    BY <1>19, <1>0 DEF HoldBack, Unchanged, EnterWait, ReportExisting, AlreadyReported,
                 ReportNew, Stable, Typed, object, results
  <2>3. slice' \in SliceType
    BY <1>19, SliceUpdates DEF HoldBack, Unchanged, EnterWait, ReportExisting,
                               AlreadyReported, ReportNew, Typed, object
  <2>4. \E s \in {"idle", "create", "await"} : Returns(s)
    BY <1>19 DEF HoldBack, Unchanged, EnterWait, ReportExisting, AlreadyReported,
                 ReportNew, AfterCreate
  <2>5. phase' = phase /\ errors' = errors /\ cur' \in 1..(N + 1) 
        /\ step' \in {"idle", "create", "await"}
    BY <2>1, <2>4 DEF Returns, Typed
  <2>6. UNCHANGED <<session, fabric, saved, queues, failed, destroy, last>>
    BY <1>19 DEF HoldBack, Unchanged, EnterWait, ReportExisting, AlreadyReported,
                 ReportNew, results
  <2>7. QED
    BY <2>2, <2>3, <2>5, <2>6 DEF Typed, session, queues, destroy, Configs
<1>20. CASE StartDestroy
  <2>1. Configs' = Configs
    BY <1>20 DEF StartDestroy, Configs
  <2>2. left' \in 0..Commands
    BY <1>20 DEF StartDestroy, Typed
  <2>3. existing' \subseteq Res /\ todo' \subseteq Res /\ skip' \subseteq Res
    BY <1>20 DEF StartDestroy, Typed, Configs
  <2>4. slice' \in SliceType
    <3>1. PICK seen \in {fabric.state # "none", FALSE} : slice' = [Unset EXCEPT !.found = seen]
      BY <1>20 DEF StartDestroy
    <3>2. seen \in BOOLEAN
      OBVIOUS
    <3>3. QED
      BY <3>1, <3>2, SliceUpdates
  <2>5. QED
    BY <1>20, <2>1, <2>2, <2>3, <2>4 DEF StartDestroy, Typed, queues, results
<1>21. CASE EndDestroy
  <2>1. saved' \in FileType
    BY <1>21 DEF EndDestroy, Typed, NoFile, FileType
  <2>2. QED
    BY <1>21, <2>1, TypedEnd DEF EndDestroy
<1>22. CASE StopDestroy
  BY <1>22, TypedEnd DEF StopDestroy, Typed
<1>23. ASSUME NEW r \in Res, Release(r) PROVE Typed'
  BY <1>23 DEF Release, Typed, session, loop, object, results, destroy, Configs
<1>24. ASSUME NEW r \in Res, Spare(r) \/ Leave(r) PROVE Typed'
  BY <1>24 DEF Spare, Leave, Typed, session, loop, object, queues, results, Configs
<1>25. ASSUME NEW r \in Res, Delete(r) PROVE Typed'
  <2>1. fabric' \in [state : StateType, has : SUBSET Res]
    BY <1>25 DEF Delete, Typed, NoSlice, StateType
  <2>2. slice' \in SliceType /\ todo' \subseteq Res /\ failed' \subseteq Res /\ remaining' \subseteq Res
    <3>1. slice' \in {slice, Unset}
      BY <1>25 DEF Delete
    <3>2. slice' \in SliceType
      BY <3>1, SliceUpdates DEF Typed
    <3>3. QED
      BY <1>25, <3>2 DEF Delete, Typed
  <2>3. QED
    BY <1>25, <2>1, <2>2 DEF Delete, Typed, session, loop, queues, Configs
<1>26. QED
  BY <1>1, <1>2, <1>3, <1>4, <1>5, <1>6, <1>7, <1>8, <1>9, <1>10, <1>11, <1>12, <1>13, <1>14,
     <1>15, <1>16, <1>17, <1>18, <1>19, <1>20, <1>21, <1>22, <1>23, <1>24, <1>25
     DEF Next, Plans, Controls, Creates, Waits, Destroys

\* What draining does when good has been added and bad has failed.
DrainEffect(good, bad) ==
  /\ phase \in {"first", "rest"} /\ cur \in Selected /\ step = "idle"
  /\ good \subseteq ready \cup parked /\ bad \subseteq ready \cup parked /\ good \cap bad = {}
  /\ AddToSlice(good) /\ added' = added \cup good /\ ready' = ready \cap bad
  /\ parked' \subseteq (parked \cup ready) \ (good \cup bad) /\ failed' = failed \cup bad
  /\ good = CanAdd(bad) \/ parked' \subseteq parked
  /\ bad = {} => good = CanAdd({}) /\ parked' = (parked \cup ready) \ good
  /\ \/ Returns(IF cur \in added \cup good THEN "create" ELSE "idle")
     \/ cur \in bad /\ Raised
  /\ \/ Queued \subseteq Queued' \/ failed' # {}
  /\ UNCHANGED <<session, fabric, saved, existing, pending, reported, destroy, last>>

\* Both forms of it, with and without an exception.
LEMMA Drains ==
  ASSUME Drain \/ DrainRaises
  PROVE  \E good, bad : DrainEffect(good, bad)
<1>1. CASE Drain
  <2>1. PICK bad \in Failures :
          LET good == CanAdd(bad)
          IN  /\ cur \notin ready \cap bad
              /\ AddToSlice(good)
              /\ added' = added \cup good
              /\ ready' = ready \cap bad
              /\ parked' = (parked \cup ready) \ (good \cup bad)
              /\ failed' = failed \cup bad
              /\ Returns(IF cur \in added \cup good THEN "create" ELSE "idle")
    BY <1>1 DEF Drain
  <2>2. bad \subseteq ready \cup parked /\ CanAdd(bad) \subseteq (ready \cup parked) \ bad
    BY DEF Failures, CanAdd, Tried
  <2>3. Queued \subseteq Queued' \/ failed' # {}
    <3>1. CASE bad = {}
      BY <1>1, <2>1, <2>2, <3>1 DEF Drain, Queued
    <3>2. QED
      BY <2>1, <3>1
  <2>4. DrainEffect(CanAdd(bad), bad)
    BY <1>1, <2>1, <2>2, <2>3 DEF Drain, DrainEffect
  <2>5. QED
    BY <2>4
<1>2. CASE DrainRaises
  <2>1. PICK bad \in Failures : \E good \in SUBSET CanAdd(bad) :
              /\ cur \in bad
              /\ AddToSlice(good)
              /\ added' = added \cup good
              /\ ready' = ready \cap bad
              /\ parked' = parked \ (good \cup bad)
              /\ failed' = failed \cup bad
              /\ Raised
    BY <1>2 DEF DrainRaises
  <2>2. PICK good \in SUBSET CanAdd(bad) :
              /\ cur \in bad
              /\ AddToSlice(good)
              /\ added' = added \cup good
              /\ ready' = ready \cap bad
              /\ parked' = parked \ (good \cup bad)
              /\ failed' = failed \cup bad
              /\ Raised
    BY <2>1
  <2>3. bad \subseteq ready \cup parked /\ good \subseteq (ready \cup parked) \ bad
    BY DEF Failures, CanAdd, Tried
  <2>4. DrainEffect(good, bad)
    BY <1>2, <2>2, <2>3 DEF DrainRaises, DrainEffect
  <2>5. QED
    BY <2>4
<1>3. QED
  BY <1>1, <1>2

\* The actions by what they have in common.
Opening == InitFound \/ InitNew \/ InitReplace
Quiet ==
  \/ HoldBack \/ Unchanged \/ EnterWait \/ ReportExisting \/ AlreadyReported \/ ReportNew
Raising == Refuse \/ KeyError \/ NetworkingFails \/ NewNetworkingFails \/ WaitFails
Ending == \E c \in {"apply", "destroy"}, ok \in BOOLEAN : Ended(c, ok)
Destroying == \E r \in Res : Spare(r) \/ Leave(r) \/ Delete(r)
Releasing == \E r \in Res : Release(r)

\* Every step is of one of these kinds.
LEMMA Kinds ==
  ASSUME [Next]_vars
  PROVE  \/ UNCHANGED vars \/ Settle \/ StartApply \/ Opening \/ Add \/ SkipOver \/ NextLoop
         \/ Drain \/ DrainRaises \/ Raising \/ Submit \/ Quiet
         \/ Ending /\ UNCHANGED session
         \/ StartDestroy \/ Destroying \/ Releasing
<1>1. AddFails \/ InitFails \/ Kill \/ Interrupt \/ EndApply \/ EndDestroy \/ StopDestroy =>
        Ending /\ UNCHANGED session
  <2>1. (~errors /\ failed = {} /\ pending = {} /\ parked = {}) \in BOOLEAN
        /\ (failed = {}) \in BOOLEAN
    OBVIOUS
  <2>2. QED
    BY <2>1 DEF AddFails, InitFails, Kill, Interrupt, EndApply, EndDestroy, StopDestroy, Ending
<1>2. QED
  BY <1>1 DEF Next, Plans, Controls, Creates, Waits, Destroys, Opening, Quiet, Raising,
              Destroying, Releasing

\* What no call, report or deletion changes.
LEMMA Others ==
  ASSUME Settle \/ Opening \/ SkipOver \/ NextLoop \/ Raising \/ Submit \/ Quiet \/ Destroying
         \/ UNCHANGED vars
  PROVE  UNCHANGED <<wf, config, saved, last, queues>> /\ (failed' = {} => failed = {})
<1>1. CASE Settle \/ Opening \/ SkipOver \/ NextLoop \/ UNCHANGED vars
  BY <1>1 DEF Settle, Opening, InitFound, InitNew, InitReplace, Opened, SkipOver, NextLoop, vars,
              session, results
<1>2. CASE Raising
  BY <1>2, RaisingCalls DEF Raising, RaisingCall, CallRaises, session
<1>3. CASE Submit
  BY <1>3 DEF Submit, CallRaises, session
<1>4. CASE Quiet
  BY <1>4 DEF Quiet, HoldBack, Unchanged, EnterWait, ReportExisting, AlreadyReported, ReportNew,
              session, results
<1>5. CASE Destroying
  BY <1>5 DEF Destroying, Spare, Leave, Delete, session, results
<1>6. QED
  BY <1>1, <1>2, <1>3, <1>4, <1>5

\* In the plan nothing that has been added, parked or held back comes again.
LEMMA QueueStep == QInv /\ [Next]_vars => QueueInv' /\ ParkInv'
<1> SUFFICES ASSUME QInv, [Next]_vars PROVE QueueInv' /\ ParkInv'
  OBVIOUS
<1> USE DEF QInv
<1>0. /\ Nets \subseteq Res
      /\ \A r \in Res : wf.link[r] \subseteq Nets /\ wf.link[r] \subseteq 1..(r - 1)
      /\ \A r \in Nets : wf.link[r] = {}
  BY LayoutFacts DEF Typed
<1>1. CASE Settle \/ Opening \/ SkipOver \/ NextLoop \/ Raising \/ Submit \/ Quiet \/ Destroying
           \/ UNCHANGED vars
  BY <1>1, Others DEF QueueInv, ParkInv, queues, Attachable, Nets
<1>2. CASE StartApply \/ StartDestroy
  <2>1. Queued = {} /\ UNCHANGED <<wf, queues, failed>>
    BY <1>2 DEF StartApply, StartDestroy, StartInv, results
  <2>2. QED
    BY <2>1 DEF QueueInv, ParkInv, queues, Queued, Nets
<1>3. CASE Ending /\ UNCHANGED session
  BY <1>3 DEF Ending, Ended, QueueInv, ParkInv, session, Nets
<1>4. CASE Releasing
  BY <1>4 DEF Releasing, Release, QueueInv, ParkInv, session, results, Attachable, Nets
<1>5. CASE Add
  <2>1. PICK r : r = cur
    OBVIOUS
  <2>2. UNCHANGED <<wf, config, failed, ready>> /\ phase = "add" /\ r \in Res
    BY <1>5, <2>1, AddCases, CurInRes DEF session, results, Planned, Typed, Configs, FileType
  <2>3. CASE r \notin config /\ added' = added \cup {r} /\ UNCHANGED <<listed, pending, parked>>
    BY <2>2, <2>3 DEF QueueInv, ParkInv, Attachable, Nets
  <2>4. CASE r \in config /\ pending' = pending \cup {r} /\ UNCHANGED <<added, listed, parked>>
    BY <2>2, <2>4 DEF QueueInv, ParkInv, Attachable, Nets
  <2>5. CASE r \in config /\ ~Attachable(r, {}) /\ parked' = parked \cup {r}
             /\ UNCHANGED <<added, listed, pending>>
    BY <1>0, <2>2, <2>5 DEF QueueInv, ParkInv, Attachable, Nets
  <2>6. CASE r \in config /\ AddToSlice({r}) /\ added' = added \cup {r}
             /\ UNCHANGED <<pending, parked>>
    <3>1. listed' = listed \cup {r}
      BY <2>6 DEF AddToSlice
    <3>2. \A x \in parked : r \notin wf.link[x]
      <4> SUFFICES ASSUME NEW x \in parked PROVE r \notin wf.link[x]
        OBVIOUS
      <4>1. x \in Res /\ x \in 1..(r - 1)
        BY <2>1, <2>2 DEF StartInv, Queued, Typed
      <4>2. QED
        BY <1>0, <4>1, FabricAssumption DEF Res
    <3>3. QED
      BY <2>2, <2>6, <3>1, <3>2 DEF QueueInv, ParkInv, Attachable, Nets
  <2>7. QED
    BY <1>5, <2>1, <2>3, <2>4, <2>5, <2>6, AddCases
<1>6. CASE Drain \/ DrainRaises
  <2>1. PICK good, bad : DrainEffect(good, bad)
    BY <1>6, Drains
  <2>2. QueueInv'
    <3>1. /\ wf' = wf /\ config' = config /\ pending' = pending
          /\ listed' = listed \cup good /\ added' = added \cup good /\ ready' \subseteq ready
          /\ good \subseteq ready \cup parked /\ parked' \subseteq (parked \cup ready) \ good
      BY <2>1 DEF DrainEffect, AddToSlice, session
    <3>2. parked' \cap Nets = {}
      <4> SUFFICES ASSUME NEW r \in parked', r \in Nets PROVE FALSE
        OBVIOUS
      <4>1. r \in ready \ good /\ r \notin bad /\ ~(parked' \subseteq parked)
        BY <2>1, <3>1 DEF DrainEffect, QueueInv
      <4>2. good = CanAdd(bad) /\ r \in Tried \ bad
        BY <2>1, <4>1 DEF DrainEffect, Tried
      <4>3. Attachable(r, (ready \cap Nets) \ bad)
        BY <1>0 DEF Attachable
      <4>4. QED
        BY <4>1, <4>2, <4>3 DEF CanAdd
    <3>3. QED
      BY <3>1, <3>2 DEF QueueInv, Nets
  <2>3. ASSUME failed' = {}, NEW r \in parked' PROVE ~Attachable(r, {})'
    <3>1. bad = {} /\ failed = {} /\ good = CanAdd({}) /\ parked' = (parked \cup ready) \ good
          /\ listed' = listed \cup good /\ wf' = wf
      BY <2>1, <2>3 DEF DrainEffect, AddToSlice, session
    <3>2. CASE ready = {}
      <4>1. good = {} /\ r \in parked
        BY <2>3, <3>1, <3>2 DEF CanAdd, Tried
      <4>2. QED
        BY <3>1, <4>1 DEF ParkInv, Attachable
    <3>3. CASE ready # {}
      <4>1. r \in Tried /\ ~Attachable(r, ready \cap Nets)
        BY <2>3, <3>1, <3>3 DEF CanAdd, Tried
      <4>2. PICK n \in wf.link[r] : n \notin listed /\ n \notin ready \cap Nets
        BY <4>1 DEF Attachable
      <4>3. r \in Res /\ n \in Nets
        BY <1>0, <2>3, <3>1 DEF Typed
      <4>4. n \notin good
        BY <3>1, <4>2, <4>3, <2>1 DEF DrainEffect, QueueInv
      <4>5. QED
        BY <3>1, <4>2, <4>4 DEF Attachable
    <3>4. QED
      BY <3>2, <3>3
  <2>4. QED
    BY <2>2, <2>3 DEF ParkInv
<1>7. QED
  BY <1>1, <1>2, <1>3, <1>4, <1>5, <1>6, Kinds

\* Calls begin and end as CallInv says.
LEMMA CallStep == QInv /\ [Next]_vars => CallInv'
<1> SUFFICES ASSUME QInv, [Next]_vars PROVE CallInv'
  OBVIOUS
<1> USE DEF QInv
<1>0. N \in Nat
  BY FabricAssumption
<1>1. CASE UNCHANGED vars \/ Settle
  BY <1>1 DEF vars, Settle, CallInv, Selected, Serving, Planned, session, loop, queues, results
<1>2. CASE Opening \/ StartApply \/ StartDestroy
  BY <1>2 DEF Opening, InitFound, InitNew, InitReplace, Opened, StartApply, StartDestroy, CallInv,
              StartInv
<1>3. CASE Ending /\ UNCHANGED session
  BY <1>3 DEF Ending, Ended, CallInv
<1>4. CASE Add
  <2>1. step' = "idle" /\ errors' = errors /\ failed' = failed
    BY <1>4, AddCases DEF StartInv, results
  <2>2. QED
    BY <2>1 DEF CallInv
<1>5. CASE SkipOver \/ Releasing
  BY <1>5 DEF SkipOver, Releasing, Release, CallInv, loop, results
<1>6. CASE NextLoop
  <2>1. step = "idle"
    BY <1>6, <1>0, CurInRes DEF NextLoop, CallInv, Res
  <2>2. QED
    BY <1>6, <2>1 DEF NextLoop, CallInv, results
<1>7. CASE Raising
  BY <1>7, RaisingCalls DEF Raising, RaisingCall, CallRaises, Raised, CallInv
<1>8. CASE Submit
  <2>1. UNCHANGED <<wf, config, saved, queues, phase>>
    BY <1>8 DEF Submit, Returns, CallRaises, Raised, session
  <2>2. Selected' = Selected
    BY <2>1 DEF Selected, Planned, Serving
  <2>3. phase \in {"first", "rest"} /\ cur \in Selected
    BY <1>8 DEF Submit, Creating, CallInv
  <2>4. CASE Returns(AfterCreate) /\ UNCHANGED failed
    BY <2>1, <2>2, <2>3, <2>4 DEF Returns, AfterCreate, CallInv
  <2>5. CASE CallRaises
    BY <2>5 DEF CallRaises, Raised, CallInv
  <2>6. QED
    BY <1>8, <2>4, <2>5 DEF Submit
<1>9. CASE Quiet
  <2>1. UNCHANGED <<wf, config, saved, queues>> /\ failed' = failed
    BY <1>9 DEF Quiet, HoldBack, Unchanged, EnterWait, ReportExisting, AlreadyReported, ReportNew,
                session, results
  <2>2. Selected' = Selected \/ phase' # phase
    BY <2>1 DEF Selected, Planned, Serving
  <2>3. CASE HoldBack \/ Unchanged
    <3>1. phase \in {"first", "rest"} /\ cur \in Selected /\ Returns(AfterCreate)
      BY <2>3 DEF HoldBack, Unchanged, Creating, CallInv
    <3>2. QED
      BY <2>1, <2>2, <3>1 DEF Returns, AfterCreate, CallInv
  <2>4. CASE EnterWait
    BY <2>1, <2>2, <2>4 DEF EnterWait, Returns, CallInv
  <2>5. CASE ReportExisting \/ AlreadyReported \/ ReportNew
    <3>1. Returns("idle")
      BY <2>5 DEF ReportExisting, AlreadyReported, ReportNew
    <3>2. QED
      BY <2>1, <3>1 DEF Returns, CallInv
  <2>6. QED
    BY <1>9, <2>3, <2>4, <2>5 DEF Quiet
<1>10. CASE Destroying
  <2>1. step' = "idle" /\ ~errors'
    BY <1>10 DEF Destroying, Spare, Leave, Delete, Backwards, StartInv, loop
  <2>2. QED
    BY <2>1 DEF CallInv
<1>11. CASE Drain \/ DrainRaises
  <2>1. PICK good, bad : DrainEffect(good, bad)
    BY <1>11, Drains
  <2>2. UNCHANGED <<wf, config, saved, phase>>
    BY <2>1 DEF DrainEffect, Returns, Raised, session
  <2>3. Selected' = Selected
    BY <2>2 DEF Selected, Planned, Serving
  <2>4. CASE cur \in bad /\ Raised
    BY <2>1, <2>4 DEF DrainEffect, Raised, CallInv
  <2>5. CASE Returns(IF cur \in added \cup good THEN "create" ELSE "idle")
    <3>1. errors' = errors /\ (failed' = {} => failed = {} /\ bad = {}) /\ ready' = ready \cap bad
      BY <2>1, <2>5 DEF DrainEffect, Returns
    <3>2. CASE cur \in added \cup good
      BY <2>1, <2>2, <2>3, <2>5, <3>1, <3>2 DEF DrainEffect, Returns, CallInv
    <3>3. CASE cur \notin added \cup good
      BY <2>5, <3>1, <3>3 DEF Returns, CallInv
    <3>4. QED
      BY <3>2, <3>3
  <2>6. QED
    BY <2>1, <2>4, <2>5 DEF DrainEffect
<1>12. QED
  BY <1>1, <1>2, <1>3, <1>4, <1>5, <1>6, <1>7, <1>8, <1>9, <1>10, <1>11, Kinds

\* The plan puts every resource somewhere, and only a failure loses it.
LEMMA StartStep == QInv /\ [Next]_vars => StartInv'
<1> SUFFICES ASSUME QInv, [Next]_vars PROVE StartInv'
  OBVIOUS
<1> USE DEF QInv
<1>0. N \in Nat /\ cur \in 1..(N + 1) /\ Planned \subseteq Res
  BY FabricAssumption DEF Typed, Planned, Configs, FileType
<1>1. CASE UNCHANGED vars \/ Settle
  BY <1>1 DEF vars, Settle, StartInv, Planned, Queued, session, loop, queues, results
<1>2. CASE Opening
  <2>1. 1..(cur - 1) = {}
    BY <1>2 DEF Opening, InitFound, InitNew, InitReplace, Opened, StartInv
  <2>2. phase = "init" /\ phase' = "add" /\ failed' = failed
        /\ UNCHANGED <<session, saved, cur, step, errors, queues, reported, last>>
    BY <1>2 DEF Opening, InitFound, InitNew, InitReplace, Opened, results
  <2>3. QED
    BY <2>1, <2>2 DEF StartInv, Planned, Queued, session, queues, Loops
<1>3. CASE StartApply
  BY <1>3 DEF StartApply, StartInv, Planned, Queued, queues, results, Loops
<1>4. CASE StartDestroy
  BY <1>4 DEF StartDestroy, StartInv, Queued, queues, results, Loops
<1>5. CASE Ending /\ UNCHANGED session
  BY <1>5 DEF Ending, Ended, StartInv, Queued, Loops
<1>6. CASE Add
  <2>1. UNCHANGED <<config, saved, phase, step, ready, last>> /\ phase = "add" /\ cur \in Planned
        /\ cur' = cur + 1
    BY <1>6, AddCases DEF session
  <2>2. Queued' = Queued \cup {cur}
    <3>1. \/ added' = added \cup {cur} /\ UNCHANGED <<pending, parked, ready>>
          \/ pending' = pending \cup {cur} /\ UNCHANGED <<added, parked, ready>>
          \/ parked' = parked \cup {cur} /\ UNCHANGED <<added, pending, ready>>
      BY <1>6, AddCases
    <3>2. QED
      BY <3>1 DEF Queued
  <2>3. 1..(cur' - 1) = 1..(cur - 1) \cup {cur}
    BY <1>0, <2>1
  <2>4. QED
    BY <2>1, <2>2, <2>3 DEF StartInv, Planned, Loops
<1>7. CASE SkipOver
  <2>1. UNCHANGED <<config, saved, phase, step, queues, reported, failed, last>>
        /\ phase \in Loops \cup {"add"} /\ cur' = cur + 1 /\ cur \notin Selected
    BY <1>7 DEF SkipOver, session, results
  <2>2. CASE phase = "add"
    <3>1. Planned \cap 1..(cur' - 1) = Planned \cap 1..(cur - 1)
      BY <1>0, <2>1, <2>2 DEF Selected
    <3>2. QED
      BY <2>1, <2>2, <3>1 DEF StartInv, Planned, Queued, queues, Loops
  <2>3. CASE phase \in Loops
    BY <2>1, <2>3 DEF StartInv, Planned, Queued, queues, Loops
  <2>4. QED
    BY <2>1, <2>2, <2>3
<1>8. CASE NextLoop
  <2>1. UNCHANGED <<config, saved, queues, failed, last>> /\ phase' \in Loops
        /\ phase \in {"add", "first", "rest"} /\ cur = N + 1
    BY <1>8 DEF NextLoop, session, results, Loops
  <2>2. phase = "add" => Planned \subseteq Queued
    BY <1>0, <2>1 DEF StartInv, Res
  <2>3. QED
    BY <2>1, <2>2 DEF StartInv, Planned, Queued, queues, Loops
<1>9. CASE Drain \/ DrainRaises
  <2>1. PICK good, bad : DrainEffect(good, bad)
    BY <1>9, Drains
  <2>2. UNCHANGED <<config, saved, phase, last>> /\ phase \in Loops /\ failed \subseteq failed'
        /\ (Queued \subseteq Queued' \/ failed' # {})
    BY <2>1 DEF DrainEffect, Returns, Raised, session, Loops
  <2>3. QED
    BY <2>2 DEF StartInv, Planned, Loops
<1>10. CASE Raising \/ Submit \/ Quiet
  <2>1. phase' = phase /\ UNCHANGED <<wf, config, saved, last, queues>>
        /\ (failed' = {} => failed = {})
    <3>1. UNCHANGED phase
      BY <1>10, RaisingCalls
         DEF Raising, RaisingCall, CallRaises, Raised, Submit, Quiet, HoldBack, Unchanged,
             EnterWait, ReportExisting, AlreadyReported, ReportNew, Returns
    <3>2. QED
      BY <1>10, <3>1, Others
  <2>2. phase \in Loops
    <3>1. step # "idle" \/ phase = "wait"
      BY <1>10, RaisingCalls
         DEF Raising, RaisingCall, Submit, Quiet, HoldBack, Unchanged, EnterWait, ReportExisting,
             AlreadyReported, ReportNew, Stable, Creating
    <3>2. QED
      BY <3>1 DEF Typed, CallInv, Loops
  <2>3. QED
    BY <2>1, <2>2 DEF StartInv, Planned, Queued, queues, Loops
<1>11. CASE Destroying
  <2>1. phase = "destroy" /\ UNCHANGED <<loop, queues, reported, last>>
    BY <1>11 DEF Destroying, Spare, Leave, Delete, Backwards, results
  <2>2. QED
    BY <2>1 DEF StartInv, Queued, loop, queues, Loops
<1>12. CASE Releasing
  <2>1. phase \in Loops /\ UNCHANGED <<session, saved, loop, results, last>> /\ Queued' = Queued
    BY <1>12 DEF Releasing, Release, Queued, Loops
  <2>2. QED
    BY <2>1 DEF StartInv, Planned, session, loop, results, Loops
<1>13. QED
  BY <1>1, <1>2, <1>3, <1>4, <1>5, <1>6, <1>7, <1>8, <1>9, <1>10, <1>11, <1>12, Kinds

\* QInv is inductive.
LEMMA QueuesKept == QInv /\ [Next]_vars => QInv'
  BY TypedStep, QueueStep, StartStep, CallStep DEF QInv
-----------------------------------------------------------------------------
\* While nothing has failed, the local copy is what the slice had and what has been
\* added, and the flags say how it differs from FABRIC's; once it has been
\* submitted FABRIC has exactly what is configured.
SliceInv ==
  Running /\ failed = {} =>
    IF slice.submitted
    THEN /\ config \subseteq listed /\ fabric.has = config
         /\ Steady => fabric.state = "StableOK"
    ELSE /\ topo = existing \cup listed
         /\ slice.created =>
              /\ fabric = [state |-> "StableOK", has |-> existing]
              /\ slice.modified <=> ~(listed \subseteq existing)
         /\ ~slice.created => existing = {} /\ (slice.found => fabric = NoSlice)

\* When nothing waits, nothing is parked, and all that is configured is added.
LEMMA Complete ==
  QInv /\ phase \in Loops /\ failed = {} /\ pending = {} /\ ready = {}
    => parked = {} /\ config \subseteq listed
<1> SUFFICES ASSUME QInv, phase \in Loops, failed = {}, pending = {}, ready = {}
             PROVE  parked = {} /\ config \subseteq listed
  OBVIOUS
<1> USE DEF QInv
<1>1. config \subseteq added \cup parked
  BY DEF StartInv, Queued, Planned
<1>2. parked = {}
  <2> SUFFICES ASSUME NEW r \in parked PROVE FALSE
    OBVIOUS
  <2>1. PICK n \in wf.link[r] : n \notin listed
    BY DEF ParkInv, Attachable
  <2>2. r \in config /\ r \in Res
    BY DEF QueueInv, Typed
  <2>3. n \in Nets /\ n \in config
    BY <2>1, <2>2, LayoutFacts DEF Typed, Configs
  <2>4. QED
    BY <1>1, <2>1, <2>3 DEF QueueInv
<1>3. QED
  BY <1>1, <1>2 DEF QueueInv

\* Adding resources keeps the local copy in step with the flags.
LEMMA AddKeeps ==
  ASSUME SliceInv, Running, failed = {}, slice \in SliceType, NEW rs, AddToSlice(rs),
         UNCHANGED <<config, fabric, existing>>, slice.submitted => rs = {}
  PROVE  SliceInv'
<1> DEFINE new == rs \ existing
<1>1. /\ listed' = listed \cup rs /\ topo' = topo \cup new
      /\ slice'.found = slice.found /\ slice'.created = slice.created
      /\ slice'.submitted = slice.submitted
      /\ slice'.modified = (slice.modified \/ new \cap Nodes # {} \/ (new # {} /\ slice.created))
  BY DEF AddToSlice, SliceType
<1>2. CASE slice.submitted
  <2>1. listed' = listed /\ (slice'.modified <=> slice.modified)
    BY <1>1, <1>2
  <2>2. QED
    BY <1>1, <1>2, <2>1 DEF SliceInv, Steady
<1>3. CASE ~slice.submitted
  <2>1. topo' = existing' \cup listed'
    BY <1>1, <1>3 DEF SliceInv
  <2>2. slice.created => (slice'.modified <=> ~(listed' \subseteq existing'))
    <3>1. slice.created => (slice.modified <=> ~(listed \subseteq existing))
      BY <1>3 DEF SliceInv
    <3>2. new # {} <=> ~(rs \subseteq existing)
      OBVIOUS
    <3>3. QED
      BY <1>1, <3>1, <3>2
  <2>3. QED
    BY <1>1, <1>3, <2>1, <2>2 DEF SliceInv
<1>4. QED
  BY <1>2, <1>3

\* A slice that is not there has nothing.
NoneInv == fabric.state = "none" => fabric = NoSlice

\* Only the deletion makes it disappear.
LEMMA NoneStep == NoneInv /\ [Next]_vars => NoneInv'
<1> SUFFICES ASSUME NoneInv, [Next]_vars PROVE NoneInv'
  OBVIOUS
<1>1. \/ fabric' \in {fabric, NoSlice}
      \/ fabric'.state \in Moving \cup Failing \cup {"StableOK"}
  <2>1. CASE Settle
    BY <2>1 DEF Settle, Failing
  <2>2. CASE Submit
    BY <2>2 DEF Submit, Accepted, Moving
  <2>3. CASE Raising \/ Quiet \/ Drain \/ DrainRaises \/ SkipOver \/ NextLoop \/ Releasing
    BY <2>3 DEF Raising, Refuse, KeyError, NetworkingFails, NewNetworkingFails, WaitFails, Quiet,
                HoldBack, Unchanged, EnterWait, ReportExisting, AlreadyReported, ReportNew, Drain,
                DrainRaises, SkipOver, NextLoop, Releasing, Release
  <2>4. CASE StartApply \/ StartDestroy \/ Opening \/ Add \/ Destroying
    BY <2>4 DEF StartApply, StartDestroy, Opening, InitFound, InitNew, InitReplace, Add, Destroying,
                Spare, Leave, Delete
  <2>5. CASE InitFails \/ AddFails \/ EndApply \/ Interrupt \/ Kill \/ EndDestroy \/ StopDestroy
             \/ UNCHANGED vars
    BY <2>5 DEF InitFails, AddFails, EndApply, Interrupt, Kill, EndDestroy, StopDestroy, vars
  <2>6. QED
    BY <2>1, <2>2, <2>3, <2>4, <2>5
       DEF Next, Plans, Controls, Creates, Waits, Destroys, Raising, Quiet, Opening, Destroying,
           Releasing
<1>2. QED
  BY <1>1 DEF NoneInv, NoSlice, Moving, Failing

\* SliceInv is inductive: a request is only made when everything is added, and what was
\* not part of it is not found when the slice is stable again.
LEMMA SliceStep == QInv /\ NoneInv /\ SliceInv /\ [Next]_vars => SliceInv'
<1> SUFFICES ASSUME QInv, NoneInv, SliceInv, [Next]_vars PROVE SliceInv'
  OBVIOUS
<1> USE DEF QInv
<1>1. CASE UNCHANGED vars \/ SkipOver \/ NextLoop \/ Releasing
  <2>1. UNCHANGED <<config, fabric, object, listed, failed>> /\ (Running' => Running)
    BY <1>1 DEF vars, SkipOver, NextLoop, Releasing, Release, Running, Loops, session, loop, queues,
                results
  <2>2. QED
    BY <2>1 DEF SliceInv, Steady, object
<1>2. CASE Settle
  <2>1. UNCHANGED <<config, object, listed, failed, phase>> /\ fabric.state \in Moving
        /\ fabric'.has = fabric.has
    BY <1>2 DEF Settle, session, loop, queues, results
  <2>2. QED
    BY <2>1 DEF SliceInv, Steady, Running, object, Moving, NoSlice
<1>3. CASE StartApply \/ StartDestroy \/ Ending \/ Destroying
  <2>1. ~Running'
    BY <1>3 DEF StartApply, StartDestroy, Ending, Ended, Destroying, Spare, Leave, Delete, Backwards,
                loop, Running, Loops
  <2>2. QED
    BY <2>1 DEF SliceInv
<1>4. CASE Opening
  <2>1. listed' = {}
    BY <1>4 DEF Opening, InitFound, InitNew, InitReplace, Opened, StartInv, QueueInv, Queued, queues
  <2>2. CASE InitFound
    BY <2>1, <2>2 DEF InitFound, Opened, SliceInv, Unset, Typed
  <2>3. CASE InitNew
    BY <2>1, <2>3 DEF InitNew, Opened, SliceInv, NoneInv, Unset, Typed
  <2>4. CASE InitReplace
    BY <2>1, <2>4 DEF InitReplace, Opened, SliceInv, Unset
  <2>5. QED
    BY <1>4, <2>2, <2>3, <2>4 DEF Opening
<1>5. CASE Add
  <2>1. PICK r : r = cur
    OBVIOUS
  <2>2. UNCHANGED <<config, fabric, existing, failed, phase>> /\ phase = "add"
    BY <1>5, AddCases DEF session, results
  <2>3. CASE AddToSlice({r}) /\ r \in config
    <3>1. ~(config \subseteq listed)
      BY <1>5, <2>1, <2>3, AddCases DEF StartInv, QueueInv, Queued, Typed, Res
    <3>2. CASE failed = {}
      BY <2>2, <2>3, <3>1, <3>2, AddKeeps DEF SliceInv, Running, Typed
    <3>3. QED
      BY <2>2, <3>2 DEF SliceInv
  <2>4. CASE UNCHANGED <<slice, topo, listed>>
    BY <2>2, <2>4 DEF SliceInv, Steady, Running
  <2>5. QED
    BY <1>5, <2>1, <2>3, <2>4, AddCases
<1>6. CASE Drain \/ DrainRaises
  <2>1. PICK good, bad : DrainEffect(good, bad)
    BY <1>6, Drains
  <2>2. CASE failed' = {}
    <3>1. failed = {} /\ Running /\ UNCHANGED <<config, fabric, existing>> /\ AddToSlice(good)
          /\ good \subseteq ready \cup parked
      BY <2>1, <2>2 DEF DrainEffect, Running, Loops, session
    <3>2. slice.submitted => good = {}
      BY <3>1 DEF SliceInv, QueueInv, Typed
    <3>3. QED
      BY <3>1, <3>2, AddKeeps DEF Typed
  <2>3. QED
    BY <2>2 DEF SliceInv
<1>7. CASE Raising
  BY <1>7, RaisingCalls DEF Raising, RaisingCall, CallRaises, SliceInv
<1>8. CASE Submit
  <2>1. CASE CallRaises
    BY <2>1 DEF CallRaises, SliceInv
  <2>2. CASE Accepted /\ UNCHANGED failed
             /\ slice' = [slice EXCEPT !.modified = Modified, !.submitted = TRUE]
    <3>1. /\ phase \in {"first", "rest"} /\ failed = {} /\ pending = {} /\ ~slice.submitted
          /\ UNCHANGED <<config, listed>> /\ (slice.created => Modified)
          /\ fabric'.has = topo \ Removing /\ slice.found
      BY <1>8, <2>2 DEF Submit, Creating, Submittable, CallInv, Accepted, session, queues
    <3>2. config \subseteq listed
      BY <1>8, <3>1, Complete DEF Submit, Creating, CallInv, Loops
    <3>3. slice'.submitted /\ slice'.created = slice.created /\ slice'.modified = Modified
      BY <2>2 DEF Typed, SliceType
    <3>4. ~Steady'
      BY <3>1, <3>3 DEF Steady
    <3>5. topo = existing \cup listed /\ (~slice.created => existing = {})
      BY <3>1 DEF SliceInv, Running, Loops
    <3>6. topo \ Removing = config
      BY <3>2, <3>5 DEF Removing, Obsolete, QueueInv
    <3>7. QED
      BY <3>1, <3>2, <3>3, <3>4, <3>6 DEF SliceInv
  <2>3. QED
    BY <1>8, <2>1, <2>2 DEF Submit
<1>9. CASE Quiet
  <2>1. UNCHANGED <<config, fabric, topo, listed, failed, phase>>
    BY <1>9 DEF Quiet, HoldBack, Unchanged, EnterWait, ReportExisting, AlreadyReported, ReportNew,
                Returns, session, object, queues, results
  <2>2. CASE UNCHANGED <<slice, existing>>
    BY <2>1, <2>2 DEF SliceInv, Steady, Running
  <2>3. CASE ReportExisting
    <3>1. /\ existing' = existing /\ slice'.submitted = slice.submitted
          /\ slice'.created = slice.created /\ slice'.modified = slice.modified
          /\ slice'.found = slice.found
      BY <2>3 DEF ReportExisting, Typed, SliceType
    <3>2. QED
      BY <2>1, <3>1 DEF SliceInv, Steady, Running
  <2>4. CASE ReportNew
    <3>1. slice'.submitted = slice.submitted /\ Stable /\ Networked
      BY <2>4 DEF ReportNew, Typed, SliceType
    <3>2. Running /\ failed = {} => slice.submitted
      BY <3>1 DEF SliceInv, Stable, Steady, Networked, NoSlice
    <3>3. QED
      BY <2>1, <3>1, <3>2 DEF SliceInv, Stable, Running
  <2>5. QED
    BY <1>9, <2>2, <2>3, <2>4
       DEF Quiet, HoldBack, Unchanged, EnterWait, AlreadyReported, object
<1>10. QED
  BY <1>1, <1>2, <1>3, <1>4, <1>5, <1>6, <1>7, <1>8, <1>9, Kinds
-----------------------------------------------------------------------------
\* What is configured has been added, and the slice has been submitted or is found to
\* need nothing.
Decided ==
  /\ config \subseteq listed
  /\ slice.submitted \/ (Steady /\ existing \subseteq listed)

\* The last resource that could bring about the decision has had its turn.
Over ==
  \/ phase = "first" /\ Planned \subseteq Serving /\ \A r \in Serving : r < cur
  \/ phase = "rest" /\ (Planned \subseteq Serving \/ \E r \in Planned \ Serving : r < cur)
  \/ phase = "wait"

DecideInv ==
  failed = {} /\ pending = {} /\ (Over \/ (phase = "first" /\ step = "await")) => Decided

\* What has been submitted is going to be waited for.
WaitInv ==
  /\ phase = "add" => ~slice.submitted
  /\ phase \in Loops /\ failed = {} /\ slice.submitted /\ ~Steady =>
       \/ phase = "first" /\ step = "await"
       \/ phase = "rest" /\ (Planned \ Serving) \cap added # {}
       \/ phase = "wait" /\ \E r \in (Planned \ Serving) \cap added : cur <= r

\* Once everything is added, a call to create adds nothing.
LEMMA DrainsNothing ==
  ASSUME QInv, config \subseteq listed, NEW good, NEW bad, DrainEffect(good, bad)
  PROVE  UNCHANGED <<listed, added>> /\ slice'.submitted = slice.submitted /\ (Steady' <=> Steady)
<1>1. good = {}
  BY DEF QInv, DrainEffect, QueueInv, Typed
<1>2. AddToSlice({}) /\ added' = added
  BY <1>1 DEF DrainEffect
<1>3. listed' = listed /\ slice'.submitted = slice.submitted /\ slice'.created = slice.created
      /\ slice'.modified = (slice.modified \/ FALSE)
  BY <1>2 DEF AddToSlice, QInv, Typed, SliceType
<1>4. QED
  BY <1>2, <1>3 DEF Steady

\* The decision is not taken back, unless something fails.
LEMMA DecidedStays ==
  ASSUME QInv, SliceInv, [Next]_vars, Decided, phase \in Loops, phase' \in Loops, failed' = {}
  PROVE  Decided'
<1>1. CASE UNCHANGED vars \/ Settle \/ SkipOver \/ NextLoop \/ Releasing
  BY <1>1 DEF vars, Settle, SkipOver, NextLoop, Releasing, Release, Decided, Steady, session, object,
              queues
<1>2. CASE StartApply \/ StartDestroy \/ Opening \/ Ending \/ Destroying \/ Add
  BY <1>2, AddCases
     DEF StartApply, StartDestroy, Opening, InitFound, InitNew, InitReplace, Opened, Ending, Ended,
         Destroying, Spare, Leave, Delete, Backwards, Loops
<1>3. CASE Drain \/ DrainRaises
  <2>1. PICK good, bad : DrainEffect(good, bad)
    BY <1>3, Drains
  <2>2. UNCHANGED <<config, existing>>
    BY <2>1 DEF DrainEffect, session
  <2>3. QED
    BY <2>1, <2>2, DrainsNothing DEF Decided
<1>4. CASE Raising
  BY <1>4, RaisingCalls DEF Raising, RaisingCall, CallRaises
<1>5. CASE Submit
  <2>1. UNCHANGED <<config, listed>> /\ slice' = [slice EXCEPT !.modified = Modified, !.submitted = TRUE]
    BY <1>5 DEF Submit, CallRaises, session, queues
  <2>2. QED
    BY <2>1 DEF Decided, QInv, Typed, SliceType
<1>6. CASE Quiet
  <2>1. UNCHANGED <<config, listed>>
    BY <1>6 DEF Quiet, HoldBack, Unchanged, EnterWait, ReportExisting, AlreadyReported, ReportNew,
                session, queues
  <2>2. CASE ReportExisting
    <3>1. /\ existing' = existing /\ slice'.submitted = slice.submitted
          /\ slice'.created = slice.created /\ slice'.modified = slice.modified
      BY <2>2 DEF ReportExisting, QInv, Typed, SliceType
    <3>2. QED
      BY <2>1, <3>1 DEF Decided, Steady
  <2>3. CASE ReportNew
    <3>1. slice'.submitted = slice.submitted /\ ~Steady
      BY <2>3 DEF ReportNew, Stable, QInv, Typed, SliceType
    <3>2. QED
      BY <2>1, <3>1 DEF Decided
  <2>4. CASE HoldBack \/ Unchanged \/ EnterWait \/ AlreadyReported
    BY <2>1, <2>4 DEF HoldBack, Unchanged, EnterWait, AlreadyReported, object, Decided, Steady
  <2>5. QED
    BY <1>6, <2>2, <2>3, <2>4 DEF Quiet
<1>7. QED
  BY <1>1, <1>2, <1>3, <1>4, <1>5, <1>6, Kinds

\* DecideInv is inductive: the last call to create decides, because what could hold it
\* back is either released before or stays for good.
LEMMA DecideStep == QInv /\ SliceInv /\ DecideInv /\ [Next]_vars => DecideInv'
<1> SUFFICES ASSUME QInv, SliceInv, DecideInv, [Next]_vars, failed' = {}, pending' = {},
                    Over' \/ (phase' = "first" /\ step' = "await")
             PROVE  Decided'
  BY DEF DecideInv
<1>0. N \in Nat /\ cur \in 1..(N + 1) /\ Planned \subseteq Res /\ phase' \in Loops
  BY FabricAssumption DEF QInv, Typed, Planned, Configs, FileType, Over, Loops
<1>1. CASE UNCHANGED vars \/ Settle
  BY <1>1 DEF vars, Settle, DecideInv, Over, Decided, Steady, Planned, Serving, session, loop, object,
              queues, results
<1>2. CASE StartApply \/ StartDestroy \/ Opening \/ Ending \/ Destroying \/ Add
  BY <1>0, <1>2, AddCases
     DEF StartApply, StartDestroy, Opening, InitFound, InitNew, InitReplace, Opened, Ending, Ended,
         Destroying, Spare, Leave, Delete, Backwards, Loops, loop
<1>3. CASE Releasing
  <2>1. PICK r \in Res : Release(r)
    BY <1>3 DEF Releasing
  <2>2. phase = "first" /\ step = "idle" /\ r \in config /\ (r \in Serving => cur <= r)
        /\ UNCHANGED <<session, saved, loop>>
    BY <2>1 DEF Release, QInv, QueueInv
  <2>3. Planned \subseteq Serving /\ \A s \in Serving : s < cur
    BY <2>2 DEF Over, Planned, Serving, session, loop
  <2>4. r \in Serving
    BY <2>2, <2>3 DEF Planned
  <2>5. QED
    BY <1>0, <2>2, <2>3, <2>4 DEF Res
<1>4. CASE SkipOver
  <2>1. /\ phase \in Loops /\ cur \notin Selected /\ cur' = cur + 1 /\ step = "idle"
        /\ UNCHANGED <<session, saved, phase, step, object, queues, results>>
    BY <1>0, <1>4 DEF SkipOver
  <2>2. Over' => Over
    BY <1>0, <2>1 DEF Over, Planned, Serving, Selected, session, Res
  <2>3. Decided
    BY <2>1, <2>2 DEF DecideInv, queues, results
  <2>4. QED
    BY <1>0, <2>1, <2>3, DecidedStays
<1>5. CASE NextLoop
  <2>1. /\ cur = N + 1 /\ cur' = 1 /\ step' = step
        /\ UNCHANGED <<session, saved, object, queues, results>>
        /\ \/ phase = "add" /\ phase' = "first"
           \/ phase = "first" /\ phase' = "rest"
           \/ phase = "rest" /\ phase' = "wait"
    BY <1>5 DEF NextLoop
  <2>2. step = "idle"
    BY <1>0, <2>1, CurInRes DEF QInv, CallInv, Res
  <2>3. Planned' = Planned /\ Serving' = Serving /\ Planned # {}
    BY <2>1 DEF Planned, Serving, session, QInv, StartInv, Loops
  <2>4. Over' => Over
    <3>1. CASE phase = "add" /\ phase' = "first"
      <4>1. PICK r \in Planned : r \in 1..N
        BY <1>0, <2>3 DEF Res
      <4>2. ~(r < cur')
        BY <2>1, <4>1
      <4>3. QED
        BY <2>3, <3>1, <4>1, <4>2 DEF Over
    <3>2. CASE phase = "first" /\ phase' = "rest"
      <4>1. \A r \in Planned : ~(r < cur') /\ r < cur
        BY <1>0, <2>1 DEF Res
      <4>2. Serving \subseteq Planned
        BY DEF Serving, Planned
      <4>3. QED
        BY <2>3, <3>2, <4>1, <4>2 DEF Over
    <3>3. CASE phase = "rest" /\ phase' = "wait"
      <4>1. \A r \in Planned : r < cur
        BY <1>0, <2>1 DEF Res
      <4>2. QED
        BY <3>3, <4>1 DEF Over
    <3>4. QED
      BY <2>1, <3>1, <3>2, <3>3
  <2>5. Decided
    BY <2>1, <2>2, <2>4 DEF DecideInv, queues, results
  <2>6. phase \in Loops
    BY <2>1, <2>2, <2>4 DEF Over, Loops
  <2>7. QED
    BY <1>0, <2>5, <2>6, DecidedStays
<1>6. CASE Drain \/ DrainRaises
  <2>1. PICK good, bad : DrainEffect(good, bad)
    BY <1>6, Drains
  <2>2. /\ failed = {} /\ bad = {} /\ ready' = {} /\ pending = {} /\ phase \in {"first", "rest"}
        /\ added' = added \cup good /\ cur \in Selected
        /\ Returns(IF cur \in added' THEN "create" ELSE "idle")
        /\ UNCHANGED <<session, saved>>
    BY <2>1 DEF DrainEffect
  <2>3. phase' = phase /\ Planned' = Planned /\ Serving' = Serving
    BY <2>2 DEF Returns, Planned, Serving, session
  <2>4. parked' = {} /\ Planned' \subseteq Queued'
    <3>1. QInv'
      BY QueuesKept
    <3>2. (QInv /\ phase \in Loops /\ failed = {} /\ pending = {} /\ ready = {}
             => parked = {} /\ config \subseteq listed)'
      BY Complete, PTL
    <3>3. QED
      BY <1>0, <3>1, <3>2, <2>2 DEF QInv, StartInv, Loops
  <2>5. cur \in added'
    BY <2>2, <2>3, <2>4 DEF Queued, Selected, Serving, Planned
  <2>6. cur' = cur /\ step' = "create"
    BY <2>2, <2>5 DEF Returns
  <2>7. Decided
    BY <2>2, <2>3, <2>6 DEF DecideInv, Over
  <2>8. QED
    BY <1>0, <2>3, <2>7, DecidedStays
<1>7. CASE Raising
  BY <1>7, RaisingCalls DEF Raising, RaisingCall, CallRaises
<1>8. CASE Submit
  <2>1. /\ UNCHANGED <<config, listed, queues>> /\ failed = {} /\ step = "create" /\ pending = {}
        /\ slice' = [slice EXCEPT !.modified = Modified, !.submitted = TRUE]
    BY <1>8 DEF Submit, CallRaises, Creating, Submittable, session, queues
  <2>2. config \subseteq listed
    BY <2>1, Complete DEF QInv, CallInv, Loops
  <2>3. slice'.submitted
    BY <2>1 DEF QInv, Typed, SliceType
  <2>4. QED
    BY <2>1, <2>2, <2>3 DEF Decided
<1>9. CASE HoldBack \/ Unchanged
  <2>1. /\ failed = {} /\ pending = {} /\ step = "create"
        /\ UNCHANGED <<config, listed, slice, existing>>
    BY <1>9 DEF HoldBack, Unchanged, Creating, Submittable, session, queues, results, object
  <2>2. config \subseteq listed /\ phase \in Loops
    BY <2>1, Complete DEF QInv, CallInv, Loops
  <2>3. slice.submitted \/ (Steady /\ existing \subseteq listed)
    BY <1>9, <2>1 DEF HoldBack, Unchanged, Submittable, Modified, Removing, Obsolete, Steady
  <2>4. QED
    BY <2>1, <2>2, <2>3 DEF Decided, Steady
<1>10. CASE EnterWait \/ ReportExisting \/ AlreadyReported \/ ReportNew
  <2>1. /\ failed = {} /\ pending = {} /\ phase' = phase
        /\ phase = "wait" \/ (phase = "first" /\ step = "await")
    BY <1>10 DEF EnterWait, ReportExisting, AlreadyReported, ReportNew, Stable, QInv, CallInv, Returns,
                 queues, results
  <2>2. Decided
    BY <2>1 DEF DecideInv, Over
  <2>3. QED
    BY <1>0, <2>1, <2>2, DecidedStays
<1>11. QED
  BY <1>1, <1>2, <1>3, <1>4, <1>5, <1>6, <1>7, <1>8, <1>9, <1>10, Kinds DEF Quiet

\* WaitInv is inductive.
LEMMA WaitStep == QInv /\ SliceInv /\ WaitInv /\ [Next]_vars => WaitInv'
<1> SUFFICES ASSUME QInv, SliceInv, WaitInv, [Next]_vars PROVE WaitInv'
  OBVIOUS
<1> USE DEF QInv
<1>0. N \in Nat /\ cur \in 1..(N + 1) /\ Planned \subseteq Res
  BY FabricAssumption DEF Typed, Planned, Configs, FileType
<1>1. CASE UNCHANGED vars \/ Settle
  BY <1>1 DEF vars, Settle, WaitInv, Steady, Planned, Serving, session, loop, object, queues, results
<1>2. CASE StartApply \/ StartDestroy \/ Ending \/ Destroying
  BY <1>2 DEF StartApply, StartDestroy, Ending, Ended, Destroying, Spare, Leave, Delete, Backwards,
              Loops, loop, WaitInv
<1>3. CASE Opening
  BY <1>3 DEF Opening, InitFound, InitNew, InitReplace, Opened, Unset, Loops, WaitInv
<1>4. CASE Add
  <2>1. phase = "add" /\ phase' = "add" /\ (AddToSlice({cur}) \/ UNCHANGED slice)
    BY <1>4, AddCases
  <2>2. slice'.submitted = slice.submitted
    BY <2>1 DEF AddToSlice, Typed, SliceType
  <2>3. QED
    BY <2>1, <2>2 DEF WaitInv, Loops
<1>5. CASE Releasing \/ SkipOver
  <2>1. /\ UNCHANGED <<session, saved, phase, step, slice, added, failed>> /\ step = "idle"
        /\ cur' = cur \/ (cur' = cur + 1 /\ cur \notin Selected)
    BY <1>5 DEF Releasing, Release, SkipOver, loop, object, queues, results
  <2>2. Planned' = Planned /\ Serving' = Serving
    BY <2>1 DEF Planned, Serving, session
  <2>3. CASE phase = "wait"
    <3>1. Selected = Planned \ Serving
      BY <2>3 DEF Selected
    <3>2. \A r \in Planned \ Serving : cur <= r => cur' <= r
      BY <1>0, <2>1, <3>1 DEF Res
    <3>3. QED
      BY <2>1, <2>2, <2>3, <3>2 DEF WaitInv, Steady
  <2>4. CASE phase # "wait"
    BY <2>1, <2>2, <2>4 DEF WaitInv, Steady
  <2>5. QED
    BY <2>3, <2>4
<1>6. CASE NextLoop
  <2>1. /\ cur = N + 1 /\ cur' = 1 /\ step' = step
        /\ UNCHANGED <<session, saved, object, added, failed>>
        /\ \/ phase = "add" /\ phase' = "first"
           \/ phase = "first" /\ phase' = "rest"
           \/ phase = "rest" /\ phase' = "wait"
    BY <1>6 DEF NextLoop, queues, results
  <2>2. step = "idle"
    BY <1>0, <2>1, CurInRes DEF CallInv, Res
  <2>3. Planned' = Planned /\ Serving' = Serving
    BY <2>1 DEF Planned, Serving, session
  <2>4. \A r \in Planned : cur' <= r
    BY <1>0, <2>1 DEF Res
  <2>5. QED
    BY <2>1, <2>2, <2>3, <2>4 DEF WaitInv, Loops, Steady, object
<1>7. CASE Drain \/ DrainRaises
  <2>1. PICK good, bad : DrainEffect(good, bad)
    BY <1>7, Drains
  <2>2. /\ phase' = phase /\ phase \in {"first", "rest"} /\ step = "idle" /\ failed \subseteq failed'
        /\ UNCHANGED <<session, saved>>
    BY <2>1 DEF DrainEffect, Returns, Raised
  <2>3. slice'.submitted = slice.submitted
    BY <2>1 DEF DrainEffect, AddToSlice, Typed, SliceType
  <2>4. CASE failed' = {} /\ slice.submitted
    <3>1. failed = {} /\ config \subseteq listed
      BY <2>2, <2>4 DEF SliceInv, Running, Loops
    <3>2. added' = added /\ (Steady' <=> Steady)
      BY <2>1, <3>1, DrainsNothing
    <3>3. QED
      BY <2>2, <2>3, <2>4, <3>1, <3>2 DEF WaitInv, Planned, Serving, session, Loops
  <2>5. QED
    BY <2>2, <2>3, <2>4 DEF WaitInv
<1>8. CASE Raising
  <2>1. phase' = phase /\ failed' # {} /\ phase # "add"
    BY <1>8, RaisingCalls DEF Raising, RaisingCall, CallRaises, Raised, CallInv, StartInv
  <2>2. QED
    BY <2>1 DEF WaitInv
<1>9. CASE Submit
  <2>1. phase' = phase /\ phase \in {"first", "rest"} /\ cur \in Selected /\ cur \in added
        /\ UNCHANGED <<session, saved, added>>
    BY <1>9 DEF Submit, Returns, CallRaises, Raised, Creating, CallInv, queues
  <2>2. CASE CallRaises
    BY <2>1, <2>2 DEF CallRaises, WaitInv
  <2>3. CASE Returns(AfterCreate)
    BY <2>1, <2>3 DEF Returns, AfterCreate, WaitInv, Selected, Planned, Serving, session
  <2>4. QED
    BY <1>9, <2>2, <2>3 DEF Submit
<1>10. CASE HoldBack \/ Unchanged
  <2>1. /\ phase' = phase /\ phase \in {"first", "rest"} /\ step = "create"
        /\ UNCHANGED <<session, saved, slice, added, failed>>
    BY <1>10 DEF HoldBack, Unchanged, Returns, Creating, CallInv, object, queues, results
  <2>2. QED
    BY <2>1 DEF WaitInv, Steady, Planned, Serving, session
<1>11. CASE EnterWait
  <2>1. /\ phase' = phase /\ phase = "wait" /\ cur \in Selected
        /\ cur' = cur \/ (cur' = cur + 1 /\ cur \notin added)
        /\ UNCHANGED <<session, saved, slice, added, failed>>
    BY <1>11 DEF EnterWait, Returns, object, queues, results
  <2>2. \A r \in (Planned \ Serving) \cap added : cur <= r => cur' <= r
    BY <1>0, <2>1 DEF Res
  <2>3. Planned' = Planned /\ Serving' = Serving
    BY <2>1 DEF Planned, Serving, session
  <2>4. QED
    BY <2>1, <2>2, <2>3 DEF WaitInv, Steady
<1>12. CASE ReportExisting \/ AlreadyReported \/ ReportNew
  <2>1. phase' = phase /\ phase # "add"
    BY <1>12 DEF ReportExisting, AlreadyReported, ReportNew, Stable, Returns, CallInv
  <2>2. Steady'
    BY <1>12 DEF ReportExisting, AlreadyReported, ReportNew, Steady, object, Typed, SliceType
  <2>3. QED
    BY <2>1, <2>2 DEF WaitInv
<1>13. QED
  BY <1>1, <1>2, <1>3, <1>4, <1>5, <1>6, <1>7, <1>8, <1>9, <1>10, <1>11, <1>12, Kinds DEF Quiet
-----------------------------------------------------------------------------
\* What is reported was added, and is at FABRIC.
RepInv == reported \subseteq listed /\ ReportedExists

\* The inductive invariant.
IInv == QInv /\ NoneInv /\ SliceInv /\ DecideInv /\ WaitInv /\ RepInv /\ MatchesConfig

\* What a request removes is nothing that is configured.
LEMMA Requested ==
  ASSUME QInv, SliceInv, Submit
  PROVE  /\ config \subseteq listed /\ listed \subseteq topo \ Removing
         /\ fabric'.has \in {fabric.has, topo \ Removing}
<1>1. /\ step = "create" /\ failed = {} /\ pending = {} /\ ~slice.submitted
      /\ fabric'.has \in {fabric.has, topo \ Removing}
  BY DEF Submit, Creating, Submittable, Accepted
<1>2. phase \in {"first", "rest"} /\ ready = {}
  BY <1>1 DEF QInv, CallInv
<1>3. config \subseteq listed
  BY <1>1, <1>2, Complete DEF Loops
<1>4. topo = existing \cup listed
  BY <1>1, <1>2 DEF SliceInv, Running, Loops
<1>5. QED
  BY <1>1, <1>3, <1>4 DEF Removing, Obsolete

\* Reports are made of what has been looked up, and no request removes it.
LEMMA ReportStep == QInv /\ SliceInv /\ RepInv /\ [Next]_vars => RepInv'
<1> SUFFICES ASSUME QInv, SliceInv, RepInv, [Next]_vars PROVE RepInv'
  OBVIOUS
<1> USE DEF RepInv, ReportedExists
<1>1. CASE UNCHANGED vars \/ Settle \/ SkipOver \/ NextLoop \/ Releasing
  BY <1>1 DEF vars, Settle, SkipOver, NextLoop, Releasing, Release, queues, results
<1>2. CASE StartApply \/ StartDestroy \/ Ending \/ Destroying \/ Opening
  <2>1. reported' = {}
    BY <1>2 DEF StartApply, StartDestroy, Ending, Ended, Destroying, Spare, Leave, Delete, Backwards,
                Opening, InitFound, InitNew, InitReplace, Opened, results, QInv, StartInv
  <2>2. QED
    BY <2>1
<1>3. CASE Add
  <2>1. UNCHANGED <<fabric, reported>> /\ listed \subseteq listed'
    BY <1>3, AddCases DEF results, AddToSlice
  <2>2. QED
    BY <2>1
<1>4. CASE Drain \/ DrainRaises
  <2>1. UNCHANGED <<fabric, reported>> /\ listed \subseteq listed'
    BY <1>4, Drains DEF DrainEffect, AddToSlice
  <2>2. QED
    BY <2>1
<1>5. CASE Raising
  BY <1>5, RaisingCalls DEF Raising, RaisingCall, Refuse, KeyError, NetworkingFails,
                            NewNetworkingFails, WaitFails, queues
<1>6. CASE Submit
  <2>1. reported' = reported /\ listed' = listed
    BY <1>6 DEF Submit, queues
  <2>2. QED
    BY <1>6, <2>1, Requested
<1>7. CASE Quiet
  <2>1. fabric' = fabric /\ listed' = listed
    BY <1>7 DEF Quiet, HoldBack, Unchanged, EnterWait, ReportExisting, AlreadyReported, ReportNew,
                queues
  <2>2. reported' = reported \/ (Networked /\ reported' = reported \cup listed)
    BY <1>7 DEF Quiet, HoldBack, Unchanged, EnterWait, ReportExisting, AlreadyReported, ReportNew,
                results
  <2>3. QED
    BY <2>1, <2>2 DEF Networked
<1>8. QED
  BY <1>1, <1>2, <1>3, <1>4, <1>5, <1>6, <1>7, Kinds

\* Whatever is reported at the end is in the slice, which is what is configured.
LEMMA EndMatches ==
  ASSUME QInv, SliceInv, DecideInv, WaitInv, EndApply,
         ~errors, failed = {}, pending = {}
  PROVE  fabric.state = "StableOK" /\ fabric.has = config
<1>1. phase = "wait" /\ cur = N + 1
  BY DEF EndApply
<1>2. Decided
  BY <1>1 DEF DecideInv, Over
<1>3. listed \subseteq config
  BY DEF QInv, QueueInv
<1>4. Running /\ phase \in Loops
  BY <1>1 DEF Running, Loops
<1>5. CASE slice.submitted
  <2>1. Steady
    <3>1. \A r \in Planned : ~(cur <= r)
      BY <1>1, FabricAssumption DEF QInv, Typed, Planned, Configs, FileType, Res
    <3>2. QED
      BY <1>1, <1>4, <1>5, <3>1 DEF WaitInv
  <2>2. QED
    BY <1>4, <1>5, <2>1 DEF SliceInv
<1>6. CASE ~slice.submitted
  <2>1. slice.created /\ ~slice.modified /\ existing \subseteq listed /\ config \subseteq listed
    BY <1>2, <1>6 DEF Decided, Steady
  <2>2. QED
    BY <1>3, <1>4, <1>6, <2>1 DEF SliceInv
<1>7. QED
  BY <1>5, <1>6

\* MatchesConfig is kept: nothing but a new command disturbs a stable slice.
LEMMA MatchStep ==
  QInv /\ SliceInv /\ DecideInv /\ WaitInv /\ MatchesConfig /\ [Next]_vars => MatchesConfig'
<1> SUFFICES ASSUME QInv, SliceInv, DecideInv, WaitInv, MatchesConfig, [Next]_vars,
                    last' = [command |-> "apply", ok |-> TRUE]
             PROVE  fabric'.state = "StableOK" /\ fabric'.has = config'
  BY DEF MatchesConfig
<1>1. CASE UNCHANGED vars
  BY <1>1 DEF vars, session, MatchesConfig
<1>2. CASE Settle
  BY <1>2 DEF Settle, MatchesConfig, Moving
<1>3. CASE StartApply \/ StartDestroy
  BY <1>3 DEF StartApply, StartDestroy
<1>4. CASE InitFails \/ AddFails \/ Interrupt \/ Kill \/ EndDestroy \/ StopDestroy
  BY <1>4 DEF InitFails, AddFails, Interrupt, Kill, EndDestroy, StopDestroy, Ended
<1>5. CASE EndApply
  <2>1. ~errors /\ failed = {} /\ pending = {} /\ parked = {}
    <3> DEFINE ok == ~errors /\ failed = {} /\ pending = {} /\ parked = {}
    <3>1. last' = [command |-> "apply", ok |-> ok]
      BY <1>5 DEF EndApply, Ended
    <3>2. ok \in BOOLEAN
      OBVIOUS
    <3> HIDE DEF ok
    <3>3. ok = TRUE
      BY <3>1
    <3>4. ok
      BY <3>3
    <3>5. QED
      BY <3>4 DEF ok
  <2>2. QED
    BY <1>5, <2>1, EndMatches DEF EndApply, session
<1>6. CASE last' = last /\ phase # "idle"
  BY <1>6 DEF QInv, StartInv
<1>7. QED
  <2>1. Opening \/ Add \/ SkipOver \/ NextLoop \/ Drain \/ DrainRaises \/ Raising \/ Submit \/ Quiet
          \/ Destroying \/ Releasing => last' = last /\ phase # "idle"
    <3>1. Raising \/ Submit \/ Quiet => last' = last /\ phase # "idle"
      <4>1. Raising \/ Submit \/ Quiet => step # "idle" \/ phase = "wait"
        BY RaisingCalls
           DEF Raising, RaisingCall, Submit, Quiet, HoldBack, Unchanged, EnterWait, ReportExisting,
               AlreadyReported, ReportNew, Stable, Creating
      <4>2. QED
        BY <4>1, Others DEF QInv, StartInv
    <3>2. Opening \/ SkipOver \/ NextLoop \/ Destroying => last' = last /\ phase # "idle"
      BY DEF Opening, InitFound, InitNew, InitReplace, Opened, SkipOver, NextLoop, Destroying, Spare,
             Leave, Delete, Backwards, Loops
    <3>3. Add \/ Drain \/ DrainRaises \/ Releasing => last' = last /\ phase # "idle"
      BY DEF Add, Drain, DrainRaises, Releasing, Release
    <3>4. QED
      BY <3>1, <3>2, <3>3
  <2>2. QED
    BY <1>1, <1>2, <1>3, <1>4, <1>5, <1>6, <2>1
       DEF Next, Plans, Controls, Creates, Waits, Destroys, Opening, Raising, Quiet, Destroying,
           Releasing

\* The invariant holds in the beginning.
LEMMA InitInv == Init => IInv
<1> SUFFICES ASSUME Init PROVE IInv
  OBVIOUS
<1>1. Typed
  <2>1. N \in Nat /\ Commands \in Nat
    BY FabricAssumption
  <2>2. Unset \in SliceType /\ NoFile \in FileType /\ NoSlice \in [state : StateType, has : SUBSET Res]
    BY DEF Unset, SliceType, NoFile, FileType, NoSlice, StateType
  <2>3. {} \in Configs
    BY DEF Configs
  <2>4. 1 \in 1..(N + 1) /\ Commands \in 0..Commands
    BY <2>1
  <2>5. cur \in 1..(N + 1) /\ left \in 0..Commands /\ errors \in BOOLEAN
    BY <2>4 DEF Init
  <2>6. wf \in Layouts /\ config \in Configs /\ slice \in SliceType /\ saved \in FileType
        /\ fabric \in [state : StateType, has : SUBSET Res]
    BY <2>2, <2>3 DEF Init, Configs
  <2>7. QED
    BY <2>5, <2>6 DEF Init, Typed
<1>2. QInv
  BY <1>1 DEF Init, QInv, QueueInv, StartInv, ParkInv, CallInv, Queued, Loops
<1>3. NoneInv /\ SliceInv /\ DecideInv /\ WaitInv
  BY DEF Init, NoneInv, SliceInv, Running, DecideInv, Over, WaitInv, Loops
<1>4. RepInv /\ MatchesConfig
  BY DEF Init, RepInv, ReportedExists, MatchesConfig
<1>5. QED
  BY <1>2, <1>3, <1>4 DEF IInv

\* Every step keeps it.
LEMMA NextInv == IInv /\ [Next]_vars => IInv'
  BY QueuesKept, NoneStep, SliceStep, DecideStep, WaitStep, ReportStep, MatchStep DEF IInv

\* So it always holds.
LEMMA Invariant == Spec => []IInv
  BY InitInv, NextInv, PTL DEF Spec
-----------------------------------------------------------------------------
\* The variables have their types, and a resource is in one queue at most.
THEOREM TypeCorrect == Spec => []TypeOK
<1>1. IInv => TypeOK
  BY TypedIsTypeOK DEF IInv, QInv
<1>2. QED
  BY <1>1, Invariant, PTL

\* What is reported as created is in the slice at FABRIC.
THEOREM ReportedExistsHolds == Spec => []ReportedExists
<1>1. IInv => ReportedExists
  BY DEF IInv, RepInv
<1>2. QED
  BY <1>1, Invariant, PTL

\* An apply that succeeds leaves a stable slice that consists of what is configured.
THEOREM MatchesConfigHolds == Spec => []MatchesConfig
<1>1. IInv => MatchesConfig
  BY DEF IInv
<1>2. QED
  BY <1>1, Invariant, PTL

\* An apply takes nothing that is configured from a working slice.
THEOREM KeepsConfiguredHolds == Spec => KeepsConfigured
<1> DEFINE Keeping ==
      (phase = "init" /\ fabric.state \notin Failing) \/ phase \in Loops
        => fabric.has \cap config \subseteq fabric'.has
<1>1. IInv /\ [Next]_vars => [Keeping]_vars
  <2> SUFFICES ASSUME IInv, [Next]_vars PROVE [Keeping]_vars
    OBVIOUS
  <2>1. CASE UNCHANGED vars
    BY <2>1
  <2>2. CASE Submit
    BY <2>2, Requested DEF IInv
  <2>3. CASE fabric'.has = fabric.has
    BY <2>3
  <2>4. CASE InitReplace
    BY <2>4 DEF InitReplace, Opened, Loops
  <2>5. CASE Destroying
    BY <2>5 DEF Destroying, Spare, Leave, Delete, Backwards, Loops
  <2>6. QED
    <3>1. Settle \/ StartApply \/ InitFound \/ InitNew \/ Add \/ SkipOver \/ NextLoop \/ Drain
            \/ DrainRaises \/ Raising \/ Quiet \/ StartDestroy \/ Releasing
            => fabric'.has = fabric.has
      BY DEF Settle, StartApply, InitFound, InitNew, Add, SkipOver, NextLoop, Drain, DrainRaises,
             Raising, Refuse, KeyError, NetworkingFails, NewNetworkingFails, WaitFails, Quiet, HoldBack,
             Unchanged, EnterWait, ReportExisting, AlreadyReported, ReportNew, StartDestroy, Releasing,
             Release
    <3>2. InitFails \/ AddFails \/ EndApply \/ Interrupt \/ Kill \/ EndDestroy \/ StopDestroy
            => fabric'.has = fabric.has
      BY DEF InitFails, AddFails, EndApply, Interrupt, Kill, EndDestroy, StopDestroy
    <3>3. QED
      BY <2>1, <2>2, <2>3, <2>4, <2>5, <3>1, <3>2
         DEF Next, Plans, Controls, Creates, Waits, Destroys, Opening, Raising, Quiet, Destroying,
             Releasing
<1>2. QED
  BY <1>1, Invariant, PTL DEF Spec, KeepsConfigured
=============================================================================
