---------------------------- MODULE Apply_proofs ----------------------------
(***************************************************************************)
(* Proofs about Apply: its type invariant, that a resource is handed to    *)
(* its provider only after its external dependencies (ExternalFirst) and   *)
(* with the values of all of them (AddedHasValues), that it implements     *)
(* CreationOrder, that no resource is in two queues (OnePlace), that one   *)
(* lost from every queue is reported (LostIsReported), and that a command  *)
(* that reports success has created everything it can (CleanExit).         *)
(***************************************************************************)
EXTENDS Apply, FiniteSetTheorems, WellFoundedInduction, TLAPS

\* All the values of the external dependencies of r have arrived.
ExtFull(r) == \A d \in ExtDeps(r) : got[r][d] = Count(d)

\* The phases before Controller.apply.
Before == {"validate", "add"}

\* A call is in progress only for a resource, after the plan; reports only
\* inside a call; and a provider is asked to create only what it was given.
CallInv ==
  /\ step # "idle" => cur \in Res /\ phase \notin Before
  /\ heard # {} => step \in {"create", "await"}
  /\ step = "create" => cur \in added

\* Nothing has a value of an external dependency before the first creation.
QuietInv ==
  phase \in Before =>
    \A r \in Res : \A d \in ExtDeps(r) : got[r][d] = 0

\* No more values than instances, not even counting the report under way.
CountInv ==
  /\ \A d \in Res : made[d] <= Count(d)
  /\ \A r \in Res : \A d \in ExtDeps(r) : got[r][d] <= made[d]
  /\ \A r \in heard : cur \in ExtDeps(r) => got[r][cur] < made[cur]

\* Whatever has left pending has all of its external values.
QueueInv == \A r \in Res : Released(r) => ExtFull(r)

IInv == TypeOK /\ CallInv /\ QuietInv /\ CountInv /\ QueueInv
-----------------------------------------------------------------------------
(***************************************************************************)
(* The workflow and its dependencies, and membership in a queue.           *)
(***************************************************************************)

\* What WellFormed says of one resource, in the vocabulary of Apply.
LEMMA Dependencies ==
  ASSUME WellFormed(wf), NEW r \in Res
  PROVE  /\ ExtDeps(r) \subseteq Res
         /\ IntDeps(r) \subseteq Res
         /\ ExtDeps(r) \cap IntDeps(r) = {}
         /\ Prov(r) \in Providers
         /\ Count(r) \in Nat \ {0}
  BY DEF WellFormed, WorkflowType, ExtDeps, IntDeps, External, Internal,
         Prov, Count

\* The workflow is fixed, and with it everything derived from it alone.
LEMMA Frozen ==
  ASSUME wf' = wf
  PROVE  /\ WellFormed(wf)' <=> WellFormed(wf)
         /\ \A r : /\ ExtDeps(r)' = ExtDeps(r) /\ IntDeps(r)' = IntDeps(r)
                   /\ Count(r)' = Count(r) /\ Prov(r)' = Prov(r)
  BY DEF WellFormed, WorkflowType, Res, Kinds, ExtDeps, IntDeps, External,
         Internal, Count, Prov

\* Appending a resource, taking the head off, and emptying.
LEMMA Membership ==
  ASSUME NEW s \in Seq(Res)
  PROVE  /\ \A r \in Res : /\ Append(s, r) \in Seq(Res)
                           /\ \A x : In(x, Append(s, r)) => In(x, s) \/ x = r
         /\ s # <<>> => /\ Head(s) \in Res /\ In(Head(s), s)
                        /\ Tail(s) \in Seq(Res)
                        /\ \A x : In(x, Tail(s)) => In(x, s)
         /\ \A x : ~In(x, <<>>)
         /\ <<>> \in Seq(Res)
<1>1. ASSUME NEW r \in Res
      PROVE  /\ Append(s, r) \in Seq(Res)
             /\ \A x : In(x, Append(s, r)) => In(x, s) \/ x = r
  BY DEF In
<1>2. ASSUME s # <<>>
      PROVE  /\ Head(s) \in Res /\ In(Head(s), s)
             /\ Tail(s) \in Seq(Res)
             /\ \A x : In(x, Tail(s)) => In(x, s)
  BY <1>2 DEF In
<1>3. /\ \A x : ~In(x, <<>>)
      /\ <<>> \in Seq(Res)
  BY DEF In
<1>4. QED
  BY <1>1, <1>2, <1>3

\* Resolving internal dependencies yields naturals and leaves external ones alone.
LEMMA ResolvedFacts ==
  ASSUME TypeOK, NEW r \in Res
  PROVE  /\ Resolved(r) \in [Res -> [Res -> Nat]]
         /\ \A x \in Res : \A d \in ExtDeps(x) : Resolved(r)[x][d] = got[x][d]
<1>1. WellFormed(wf) /\ got \in [Res -> [Res -> Nat]] /\ made \in [Res -> Nat]
  BY DEF TypeOK, ValuesOK
<1>2. \A d \in Res : Count(d) \in Nat
  BY <1>1, Dependencies
<1>3. \A d \in Res : Visible(r, d) \in Nat
  BY <1>1, <1>2 DEF Visible
<1>4. \A d \in Res : AtMost(got[r][d] + Visible(r, d), Count(d)) \in Nat
  BY <1>1, <1>2, <1>3 DEF AtMost
<1>5. Resolved(r) = [got EXCEPT ![r] = [d \in Res |->
                       IF d \in IntDeps(r)
                       THEN AtMost(got[r][d] + Visible(r, d), Count(d))
                       ELSE got[r][d]]]
  BY <1>1 DEF Resolved
<1>6. Resolved(r) \in [Res -> [Res -> Nat]]
  BY <1>1, <1>4, <1>5
<1>7. ASSUME NEW x \in Res, NEW d \in ExtDeps(x)
      PROVE  Resolved(r)[x][d] = got[x][d]
  <2>1. d \in Res /\ d \notin IntDeps(x)
    BY <1>1, Dependencies
  <2>2. QED
    BY <1>1, <1>5, <2>1
<1>8. QED
  BY <1>6, <1>7
-----------------------------------------------------------------------------
(***************************************************************************)
(* A call of add_resource.                                                 *)
(***************************************************************************)

\* A resource that is handed on by add_resource has all its external values.
LEMMA UnblockedIsFull ==
  ASSUME IInv, NEW r \in Res, ~Blocked(r), ExtFull(r) \/ phase \in Before
  PROVE  ExtFull(r)
  BY DEF IInv, QuietInv, Blocked, ExtFull

\* What a resource owes to its counters when it fails.
LEMMA FailFacts ==
  ASSUME IInv, NEW r \in Res, NEW what \in {"VALIDATE", "ADD", "CREATE"},
         Fail(r, what)
  PROVE  FaultsOK'
<1>1. Count(r) - made[r] \in Nat
  BY Dependencies DEF IInv, TypeOK, ValuesOK, CountInv
<1>2. QED
  BY <1>1 DEF Fail, IInv, TypeOK, FaultsOK

\* External values do not change.
ValuesKept ==
  \A x \in Res : \A d \in ExtDeps(x) : got'[x][d] = got[x][d]

\* The types of what add_resource touches.
AddOK ==
  /\ added \subseteq Res /\ pending \subseteq Res
  /\ parked \in [Providers -> Seq(Res)]
  /\ got \in [Res -> [Res -> Nat]]

\* Only r can be new among the added and the parked, if it has its values.
OnlyNew(r) ==
  /\ \A x \in added' : x \in added \/ (x = r /\ ExtFull(r))
  /\ \A p \in Providers : \A x \in Res :
       In(x, parked'[p]) => In(x, parked[p]) \/ (x = r /\ ExtFull(r))

\* A call of add_resource keeps the types and the external values, and adds r only.
LEMMA AddFacts ==
  ASSUME IInv, NEW r \in Res, AddReturns(r) \/ AddRaises(r),
         ExtFull(r) \/ phase \in Before
  PROVE  AddOK' /\ FaultsOK' /\ ValuesKept /\ OnlyNew(r) /\ added \subseteq added'
<1>0. /\ AddOK /\ FaultsOK /\ Prov(r) \in Providers
      /\ \A p \in Providers : parked[p] \in Seq(Res)
  BY Dependencies DEF IInv, TypeOK, QueuesOK, ValuesOK, AddOK
<1>1. CASE AddPending(r)
  BY <1>0, <1>1 DEF AddPending, faults, AddOK, FaultsOK, ValuesKept, OnlyNew
<1>2. CASE AddParked(r)
  <2>1. ExtFull(r)
    BY <1>2, UnblockedIsFull DEF AddParked
  <2>2. parked' = [parked EXCEPT ![Prov(r)] = Append(parked[Prov(r)], r)]
    BY <1>2 DEF AddParked
  <2>3. /\ Append(parked[Prov(r)], r) \in Seq(Res)
        /\ \A x : In(x, Append(parked[Prov(r)], r)) => In(x, parked[Prov(r)]) \/ x = r
    BY <1>0, Membership
  <2>4. parked' \in [Providers -> Seq(Res)]
    BY <1>0, <2>2, <2>3 DEF AddOK
  <2>5. OnlyNew(r)
    BY <1>0, <1>2, <2>1, <2>2, <2>3 DEF AddParked, OnlyNew, AddOK
  <2>6. got' \in [Res -> [Res -> Nat]] /\ ValuesKept
    BY <1>2, ResolvedFacts DEF AddParked, ValuesKept, IInv
  <2>7. QED
    BY <1>0, <1>2, <2>4, <2>5, <2>6 DEF AddParked, faults, AddOK, FaultsOK
<1>3. ASSUME AddReached(r)
      PROVE  /\ ExtFull(r)
             /\ got' \in [Res -> [Res -> Nat]] /\ ValuesKept
             /\ pending' = pending /\ parked' = parked
  <2>1. ExtFull(r)
    BY <1>3, UnblockedIsFull DEF AddReached
  <2>2. got' \in [Res -> [Res -> Nat]] /\ ValuesKept
    BY <1>0, <1>3, ResolvedFacts DEF AddReached, ValuesKept, AddOK, IInv
  <2>3. QED
    BY <1>3, <2>1, <2>2 DEF AddReached
<1>4. CASE AddDone(r)
  BY <1>0, <1>3, <1>4 DEF AddDone, faults, AddOK, FaultsOK, OnlyNew
<1>5. CASE AddRaises(r)
  <2>1. FaultsOK'
    BY <1>5, FailFacts DEF AddRaises
  <2>2. QED
    BY <1>0, <1>3, <1>5, <2>1 DEF AddRaises, AddOK, OnlyNew
<1>6. QED
  BY <1>1, <1>2, <1>4, <1>5 DEF AddReturns
-----------------------------------------------------------------------------
(***************************************************************************)
(* IInv is inductive.  Most actions only move the control or the queues;   *)
(* two lemmas say what such a step has to establish.                       *)
(***************************************************************************)

\* Going on to the next resource of the loop ends the call for this one.
LEMMA AdvanceFacts ==
  ASSUME IInv, cur \in Res, NEW err \in BOOLEAN, Advance(err),
         UNCHANGED outcome
  PROVE  ControlOK' /\ step' = "idle" /\ phase' = phase
  BY WorkflowAssumption DEF Advance, IInv, TypeOK, ControlOK, Res, Steps, outcome

\* A step inside the call leaves the loop where it is.
LEMMA GotoFacts ==
  ASSUME IInv, NEW s \in Steps, Goto(s), UNCHANGED outcome
  PROVE  ControlOK' /\ step' = s /\ phase' = phase /\ cur' = cur
  BY DEF Goto, IInv, TypeOK, ControlOK, outcome

\* No creation is undone, and none can be before the first.
Forward == phase' \in Before => phase \in Before

\* A step that calls add_resource or moves resources between the queues: what
\* it releases has its values.
LEMMA QueueStep ==
  ASSUME IInv, ControlOK', QueuesOK', FaultsOK', CallInv', Forward, ValuesKept,
         UNCHANGED <<wf, made>>, got' \in [Res -> [Res -> Nat]],
         heard' = {} \/ (heard' = heard /\ cur' = cur),
         \A x \in Res : Released(x)' => Released(x) \/ ExtFull(x)
  PROVE  IInv'
<1>1. TypeOK'
  <2>1. WellFormed(wf)' /\ ValuesOK'
    BY Frozen DEF IInv, TypeOK, ValuesOK
  <2>2. QED
    BY <2>1 DEF TypeOK
<1>2. QuietInv'
  BY Frozen DEF IInv, QuietInv, Forward, ValuesKept
<1>3. CountInv'
  <2>1. WellFormed(wf) /\ heard \subseteq Res /\ heard' \subseteq heard
    BY DEF IInv, TypeOK, ValuesOK
  <2>2. (\A d \in Res : made[d] <= Count(d))'
    BY Frozen DEF IInv, CountInv
  <2>3. (\A r \in Res : \A d \in ExtDeps(r) : got[r][d] <= made[d])'
    BY Frozen DEF IInv, CountInv, ValuesKept
  <2>4. (\A r \in heard : cur \in ExtDeps(r) => got[r][cur] < made[cur])'
    BY <2>1, Frozen DEF IInv, CountInv, ValuesKept
  <2>5. QED
    BY <2>2, <2>3, <2>4 DEF CountInv
<1>4. QueueInv'
  <2>1. \A x \in Res : ExtFull(x) => ExtFull(x)'
    BY Frozen DEF ExtFull, ValuesKept
  <2>2. QED
    BY <2>1 DEF IInv, QueueInv
<1>5. QED
  BY <1>1, <1>2, <1>3, <1>4 DEF IInv

\* A step that moves the control, and may empty the temporary lists.
LEMMA ControlStep ==
  ASSUME IInv, ControlOK', FaultsOK', CallInv', Forward,
         UNCHANGED <<wf, added, pending, ready, parked, got, made>>,
         draining' \in {draining, <<>>}, retrying' \in {retrying, <<>>},
         heard' = {} \/ (heard' = heard /\ cur' = cur)
  PROVE  IInv'
<1>1. QueuesOK'
  BY Membership DEF IInv, TypeOK, QueuesOK
<1>2. ValuesKept /\ got' \in [Res -> [Res -> Nat]]
  BY DEF ValuesKept, IInv, TypeOK, ValuesOK
<1>3. \A x \in Res : Released(x)' => Released(x)
  <2>1. draining \in Seq(Res)
    BY DEF IInv, TypeOK, QueuesOK
  <2>2. \A x \in Res : /\ In(x, draining') => In(x, draining)
                       /\ In(x, retrying') => In(x, retrying)
    BY <2>1, Membership
  <2>3. QED
    BY <2>2 DEF Released
<1>4. QED
  BY <1>1, <1>2, <1>3, QueueStep
-----------------------------------------------------------------------------
\* The steps that only move the control.
LEMMA ControlActions ==
  ASSUME IInv,
         \/ Validate \/ PlanFails \/ PlanInterrupted \/ EndPhase \/ PhaseRaises
         \/ Test \/ Skip \/ EndRetry \/ EndDrain \/ EndCall \/ CallFails
         \/ EnterWait \/ Interrupt \/ Save \/ Terminated
  PROVE  IInv'
<1> USE DEF queues, values, outcome
<1>0. ControlOK /\ FaultsOK /\ CallInv
  BY DEF IInv, TypeOK
<1>1. CASE Validate
  <2>1. /\ FaultsOK' /\ \E err \in BOOLEAN : Advance(err)
    BY <1>0, <1>1 DEF Validate, FaultsOK
  <2>2. /\ ControlOK' /\ step' = "idle" /\ phase' = phase
        /\ UNCHANGED <<wf, queues, values>> /\ step = "idle"
    BY <1>1, <2>1, AdvanceFacts DEF Validate
  <2>3. heard = {}
    BY <1>0, <2>2 DEF CallInv
  <2>4. QED
    BY <1>0, <2>1, <2>2, <2>3, ControlStep DEF CallInv, Forward
<1>2. CASE PlanFails \/ PlanInterrupted
  <2>1. /\ phase' = "exit" /\ exit' \in [code : {0, 1}, saved : BOOLEAN]
        /\ UNCHANGED <<wf, cur, step, errors, queues, values, faults, broken>>
    <3>1. Quit
      BY <1>2 DEF PlanFails, PlanInterrupted
    <3>2. QED
      BY <3>1 DEF Quit
  <2>2. ControlOK' /\ FaultsOK' /\ CallInv'
    BY <1>0, <2>1 DEF ControlOK, FaultsOK, CallInv, Phases, faults, Before
  <2>3. QED
    BY <2>1, <2>2, ControlStep DEF Forward, Before
<1>3. CASE EndPhase
  <2>1. /\ phase' = NextPhase /\ cur' = 1 /\ step = "idle"
        /\ UNCHANGED <<wf, step, errors, queues, values, faults, outcome>>
        /\ phase \in {"validate", "add", "first", "rest", "wait", "service"}
    BY <1>3 DEF EndPhase
  <2>2. phase' \in Phases /\ Forward
    BY <2>1 DEF NextPhase, Phases, Forward, Before
  <2>3. ControlOK'
    BY <1>0, <2>1, <2>2, WorkflowAssumption DEF ControlOK
  <2>4. heard = {}
    BY <1>0, <2>1 DEF CallInv
  <2>5. FaultsOK' /\ CallInv'
    BY <1>0, <2>1, <2>4 DEF FaultsOK, CallInv, faults
  <2>6. QED
    BY <2>1, <2>2, <2>3, <2>4, <2>5, ControlStep
<1>4. CASE PhaseRaises \/ Test
  <2>1. /\ phase' \in {"save", "service"} /\ broken' \in BOOLEAN
        /\ UNCHANGED <<wf, cur, step, errors, queues, values, faults, exit>>
    BY <1>0, <1>4 DEF PhaseRaises, Test, ControlOK
  <2>2. ControlOK' /\ FaultsOK' /\ CallInv'
    BY <1>0, <2>1 DEF ControlOK, FaultsOK, CallInv, Phases, faults, Before
  <2>3. QED
    BY <2>1, <2>2, ControlStep DEF Forward, Before
<1>5. CASE Skip
  <2>1. /\ ControlOK' /\ step' = "idle" /\ phase' = phase /\ step = "idle"
        /\ UNCHANGED <<wf, queues, values, faults>>
    BY <1>5, AdvanceFacts DEF Skip
  <2>2. heard = {} /\ CallInv' /\ FaultsOK'
    BY <1>0, <2>1 DEF CallInv, FaultsOK, faults
  <2>3. QED
    BY <2>1, <2>2, ControlStep DEF Forward
<1>6. CASE EndRetry \/ EnterWait
  <2>1. /\ ControlOK' /\ phase' = phase /\ cur' = cur
        /\ step' \in {"drain", "await"} /\ cur \in Res /\ phase \notin Before
        /\ UNCHANGED <<wf, queues, values, faults>>
    <3>1. cur \in Res /\ phase \notin Before
      BY <1>0, <1>6 DEF EndRetry, EnterWait, CallInv, Selected, NonServices, Before
    <3>2. QED
      BY <1>6, <3>1, GotoFacts DEF EndRetry, EnterWait, Steps
  <2>2. heard = {}
    BY <1>0, <1>6 DEF EndRetry, EnterWait, CallInv
  <2>3. CallInv' /\ FaultsOK'
    BY <1>0, <2>1, <2>2 DEF CallInv, FaultsOK, faults
  <2>4. QED
    BY <2>1, <2>3, ControlStep DEF Forward
<1>7. CASE EndDrain \/ EndCall
  <2>1. /\ cur \in Res /\ phase \notin Before /\ heard = {}
        /\ UNCHANGED <<wf, queues, values, faults, outcome>>
    BY <1>0, <1>7 DEF EndDrain, EndCall, CallInv
  <2>2. \/ Advance(FALSE)
        \/ Goto("await")
        \/ Goto("create") /\ cur \in added
    BY <1>7 DEF EndDrain, EndCall
  <2>3. /\ ControlOK' /\ phase' = phase
        /\ \/ step' = "idle"
           \/ step' = "await" /\ cur' = cur
           \/ step' = "create" /\ cur' = cur /\ cur \in added
    BY <2>1, <2>2, AdvanceFacts, GotoFacts DEF Steps
  <2>4. CallInv' /\ FaultsOK'
    BY <1>0, <2>1, <2>3 DEF CallInv, FaultsOK, faults
  <2>5. QED
    BY <2>1, <2>3, <2>4, ControlStep DEF Forward
<1>8. CASE CallFails
  <2>1. cur \in Res /\ heard = {} /\ UNCHANGED <<wf, queues, values, outcome>>
    BY <1>0, <1>8 DEF CallFails, CallInv
  <2>2. ControlOK' /\ phase' = phase /\ step' = "idle"
    BY <1>8, <2>1, AdvanceFacts DEF CallFails
  <2>3. FaultsOK'
    BY <1>8, <2>1, FailFacts DEF CallFails
  <2>4. CallInv'
    BY <2>1, <2>2 DEF CallInv
  <2>5. QED
    BY <2>1, <2>2, <2>3, <2>4, ControlStep DEF Forward
<1>9. CASE Interrupt
  <2>1. FaultsOK'
    <3>1. CASE step \in {"create", "await"} /\ cur \in added
      BY <1>0, <1>9, <3>1, FailFacts DEF Interrupt, CallInv
    <3>2. CASE ~(step \in {"create", "await"} /\ cur \in added)
      BY <1>0, <1>9, <3>2 DEF Interrupt, FaultsOK, faults
    <3>3. QED
      BY <3>1, <3>2
  <2>2. ControlOK' /\ CallInv' /\ Forward
    BY <1>0, <1>9 DEF Interrupt, ControlOK, CallInv, Phases, Steps, Forward, Before
  <2>3. QED
    BY <1>9, <2>1, <2>2, ControlStep DEF Interrupt
<1>10. CASE Save
  <2>1. /\ phase' = "exit" /\ exit' \in [code : {0, 1}, saved : BOOLEAN]
        /\ UNCHANGED <<wf, cur, step, errors, queues, values, faults, broken>>
    BY <1>10 DEF Save
  <2>2. ControlOK' /\ FaultsOK' /\ CallInv'
    BY <1>0, <2>1 DEF ControlOK, FaultsOK, CallInv, Phases, faults, Before
  <2>3. QED
    BY <2>1, <2>2, ControlStep DEF Forward, Before
<1>11. CASE Terminated
  <2>1. UNCHANGED vars
    BY <1>11 DEF Terminated
  <2>2. ControlOK' /\ FaultsOK' /\ CallInv'
    BY <1>0, <2>1 DEF ControlOK, FaultsOK, CallInv, vars, control, faults
  <2>3. QED
    BY <2>1, <2>2, ControlStep DEF Forward, vars, control
<1>12. QED
  BY <1>1, <1>2, <1>3, <1>4, <1>5, <1>6, <1>7, <1>8, <1>9, <1>10, <1>11
-----------------------------------------------------------------------------
\* The first attempt to add a resource, in the add phase.
LEMMA AddAction ==
  ASSUME IInv, Add
  PROVE  IInv'
<1>1. /\ cur \in Res /\ phase = "add" /\ step = "idle"
      /\ UNCHANGED <<wf, ready, draining, retrying, heard, made, outcome>>
  BY DEF Add
<1>2. AddReturns(cur) \/ AddRaises(cur)
  BY DEF Add
<1>3. AddOK' /\ FaultsOK' /\ ValuesKept /\ OnlyNew(cur) /\ added \subseteq added'
  BY <1>1, <1>2, AddFacts DEF Before
<1>4. ControlOK' /\ step' = "idle" /\ phase' = phase
  BY <1>1, AdvanceFacts DEF Add
<1>5. heard = {} /\ CallInv'
  BY <1>1, <1>4 DEF IInv, CallInv
<1>6. QueuesOK'
  BY <1>1, <1>3 DEF AddOK, QueuesOK, IInv, TypeOK
<1>7. \A x \in Res : Released(x)' => Released(x) \/ ExtFull(x)
  BY <1>1, <1>3 DEF Released, OnlyNew
<1>8. QED
  BY <1>1, <1>3, <1>4, <1>5, <1>6, <1>7, QueueStep DEF Forward, AddOK

\* The resources create_resource adds before it creates.
LEMMA DrainActions ==
  ASSUME IInv, Drain \/ DrainFails
  PROVE  IInv'
<1> DEFINE r == Head(draining)
<1>1. /\ step = "drain" /\ draining # <<>> /\ draining \in Seq(Res)
      /\ UNCHANGED <<wf, retrying, heard, made, outcome>>
      /\ ready \in [Providers -> Seq(Res)] /\ Prov(cur) \in Providers
      /\ cur \in Res /\ phase \notin Before /\ heard = {}
  <2>1. cur \in Res /\ step = "drain"
    BY DEF Drain, DrainFails, IInv, CallInv
  <2>2. QED
    BY <2>1, Dependencies DEF Drain, DrainFails, IInv, CallInv, TypeOK, QueuesOK
<1>2. r \in Res /\ ExtFull(r) /\ Released(r)
  BY <1>1, Membership DEF Released, IInv, QueueInv
<1>3. AddReturns(r) \/ AddRaises(r)
  BY DEF Drain, DrainFails
<1>4. AddOK' /\ FaultsOK' /\ ValuesKept /\ OnlyNew(r) /\ added \subseteq added'
  BY <1>2, <1>3, AddFacts
<1>5. /\ ready' \in [Providers -> Seq(Res)]
      /\ \A p \in Providers : \A x \in Res :
           In(x, ready'[p]) => In(x, ready[p]) \/ x = r
  <2>1. CASE Drain
    BY <1>1, <2>1 DEF Drain
  <2>2. CASE DrainFails
    <3>1. ready' = [ready EXCEPT ![Prov(cur)] = Append(ready[Prov(cur)], r)]
      BY <2>2 DEF DrainFails
    <3>2. /\ Append(ready[Prov(cur)], r) \in Seq(Res)
          /\ \A x : In(x, Append(ready[Prov(cur)], r)) => In(x, ready[Prov(cur)]) \/ x = r
      BY <1>1, <1>2, Membership
    <3>3. QED
      BY <1>1, <3>1, <3>2
  <2>3. QED
    BY <2>1, <2>2
<1>6. /\ draining' \in Seq(Res)
      /\ \A x \in Res : In(x, draining') => In(x, draining)
  <2>1. draining' = <<>> \/ draining' = Tail(draining)
    BY DEF Drain, DrainFails
  <2>2. CASE draining' = <<>>
    BY <1>1, <2>2, Membership
  <2>3. CASE draining' = Tail(draining)
    BY <1>1, <2>3, Membership
  <2>4. QED
    BY <2>1, <2>2, <2>3
<1>7. /\ ControlOK' /\ phase' = phase
      /\ step' = "idle" \/ (cur' = cur /\ step' \in {"added", "drain"})
  BY <1>1, AdvanceFacts, GotoFacts DEF Drain, DrainFails, Steps
<1>8. CallInv'
  BY <1>1, <1>7 DEF CallInv
<1>9. QueuesOK'
  BY <1>1, <1>4, <1>5, <1>6 DEF AddOK, QueuesOK, IInv, TypeOK
<1>10. \A x \in Res : Released(x)' => Released(x) \/ ExtFull(x)
  BY <1>1, <1>2, <1>4, <1>5, <1>6 DEF Released, OnlyNew
<1>11. QED
  BY <1>1, <1>4, <1>7, <1>8, <1>9, <1>10, QueueStep DEF Forward, AddOK

\* The parked resources it tries again.
LEMMA RetryAction ==
  ASSUME IInv, Retry
  PROVE  IInv'
<1> DEFINE r == Head(retrying)
<1>1. /\ step = "retry" /\ retrying # <<>> /\ retrying \in Seq(Res)
      /\ UNCHANGED <<wf, ready, draining, heard, made, outcome>>
      /\ retrying' = Tail(retrying)
      /\ cur \in Res /\ phase \notin Before /\ heard = {}
  BY DEF Retry, IInv, CallInv, TypeOK, QueuesOK
<1>2. r \in Res /\ ExtFull(r)
  BY <1>1, Membership DEF Released, IInv, QueueInv
<1>3. AddOK' /\ FaultsOK' /\ ValuesKept /\ OnlyNew(r) /\ added \subseteq added'
  BY <1>2, AddFacts DEF Retry
<1>4. ControlOK' /\ phase' = phase /\ cur' = cur /\ step' = "retry"
  BY <1>1, GotoFacts DEF Retry, Steps
<1>5. CallInv'
  BY <1>1, <1>4 DEF CallInv
<1>6. retrying' \in Seq(Res) /\ \A x \in Res : In(x, retrying') => In(x, retrying)
  BY <1>1, Membership
<1>7. QueuesOK'
  BY <1>1, <1>3, <1>6 DEF AddOK, QueuesOK, IInv, TypeOK
<1>8. \A x \in Res : Released(x)' => Released(x) \/ ExtFull(x)
  BY <1>1, <1>3, <1>6 DEF Released, OnlyNew
<1>9. QED
  BY <1>1, <1>3, <1>4, <1>5, <1>7, <1>8, QueueStep DEF Forward, AddOK

\* Taking a queue into a temporary list.
LEMMA TakeActions ==
  ASSUME IInv, EnterCreate \/ StartRetry
  PROVE  IInv'
<1> DEFINE p == Prov(cur)
<1>1. /\ cur \in Res /\ phase \notin Before /\ heard = {} /\ p \in Providers
      /\ UNCHANGED <<wf, added, pending, values, faults, outcome>>
  <2>1. cur \in Res /\ phase \notin Before
    BY DEF EnterCreate, StartRetry, IInv, CallInv, Selected, Creating,
           NonServices, Before
  <2>2. QED
    BY <2>1, Dependencies DEF EnterCreate, StartRetry, IInv, CallInv, TypeOK
<1>2. QueuesOK
  BY DEF IInv, TypeOK
<1>3. ready[p] \in Seq(Res) /\ parked[p] \in Seq(Res) /\ <<>> \in Seq(Res)
      /\ \A x : ~In(x, <<>>)
  BY <1>1, <1>2, Membership DEF QueuesOK
<1>4. QueuesOK' /\ \A x \in Res : Released(x)' => Released(x)
  <2>1. CASE EnterCreate
    <3>1. /\ draining' = ready[p] /\ ready' = [ready EXCEPT ![p] = <<>>]
          /\ UNCHANGED <<parked, retrying>>
      BY <2>1 DEF EnterCreate
    <3>2. QueuesOK'
      BY <1>1, <1>2, <1>3, <3>1 DEF QueuesOK
    <3>3. QED
      BY <1>1, <1>2, <1>3, <3>1, <3>2 DEF Released, QueuesOK
  <2>2. CASE StartRetry
    <3>1. /\ retrying' = parked[p] /\ parked' = [parked EXCEPT ![p] = <<>>]
          /\ UNCHANGED <<ready, draining>>
      BY <2>2 DEF StartRetry
    <3>2. QueuesOK'
      BY <1>1, <1>2, <1>3, <3>1 DEF QueuesOK
    <3>3. QED
      BY <1>1, <1>2, <1>3, <3>1, <3>2 DEF Released, QueuesOK
  <2>3. QED
    BY <2>1, <2>2
<1>5. ControlOK' /\ phase' = phase /\ cur' = cur /\ step' \in {"drain", "retry"}
  BY <1>1, GotoFacts DEF EnterCreate, StartRetry, Steps
<1>6. CallInv' /\ FaultsOK'
  BY <1>1, <1>5 DEF CallInv, FaultsOK, IInv, TypeOK, values, faults
<1>7. ValuesKept /\ got' \in [Res -> [Res -> Nat]] /\ UNCHANGED <<wf, made, heard>>
  BY <1>1 DEF ValuesKept, values, IInv, TypeOK, ValuesOK
<1>8. QED
  BY <1>1, <1>4, <1>5, <1>6, <1>7, QueueStep DEF Forward
-----------------------------------------------------------------------------
\* One more instance of cur, to be reported to whoever waits elsewhere.
LEMMA MakeAction ==
  ASSUME IInv, MakeOne
  PROVE  IInv'
<1>1. /\ cur \in Res /\ step \in {"create", "await"} /\ heard = {}
      /\ made \in [Res -> Nat] /\ made[cur] < Count(cur)
      /\ made' = [made EXCEPT ![cur] = made[cur] + 1]
      /\ heard' = {r \in pending : Prov(r) # Prov(cur)}
      /\ UNCHANGED <<wf, control, queues, got, faults, outcome>>
      /\ WellFormed(wf) /\ pending \subseteq Res
  BY DEF MakeOne, IInv, CallInv, TypeOK, ValuesOK, QueuesOK
<1>2. TypeOK'
  <2>1. WellFormed(wf)' /\ heard' \subseteq Res /\ made' \in [Res -> Nat]
    BY <1>1, Frozen
  <2>2. ControlOK'
    BY <1>1 DEF ControlOK, control, outcome, IInv, TypeOK
  <2>3. QueuesOK' /\ FaultsOK'
    BY <1>1 DEF QueuesOK, FaultsOK, queues, faults, IInv, TypeOK
  <2>4. QED
    BY <1>1, <2>1, <2>2, <2>3 DEF TypeOK, ValuesOK, IInv
<1>3. CallInv' /\ QuietInv'
  BY <1>1, Frozen DEF CallInv, QuietInv, IInv, control, queues
<1>4. CountInv'
  <2>1. \A d \in Res : Count(d) \in Nat /\ Count(d)' = Count(d)
    BY <1>1, Dependencies, Frozen
  <2>2. \A r \in Res : /\ ExtDeps(r)' = ExtDeps(r) /\ ExtDeps(r) \subseteq Res
                        /\ got'[r] = got[r]
    BY <1>1, Dependencies, Frozen
  <2>3. got \in [Res -> [Res -> Nat]] /\ cur' = cur
    BY <1>1 DEF IInv, TypeOK, ValuesOK, control
  <2>4. (\A d \in Res : made[d] <= Count(d))'
    BY <1>1, <2>1 DEF IInv, CountInv
  <2>5. \A r \in Res : \A d \in ExtDeps(r) : got[r][d] <= made[d] /\ got[r][d] \in Nat
    BY <2>2, <2>3 DEF IInv, CountInv
  <2>6. (\A r \in Res : \A d \in ExtDeps(r) : got[r][d] <= made[d])'
    BY <1>1, <2>2, <2>5
  <2>7. (\A r \in heard : cur \in ExtDeps(r) => got[r][cur] < made[cur])'
    BY <1>1, <2>2, <2>3, <2>5
  <2>8. QED
    BY <2>4, <2>6, <2>7 DEF CountInv
<1>5. QueueInv'
  BY <1>1, Frozen DEF QueueInv, Released, ExtFull, IInv, queues
<1>6. QED
  BY <1>2, <1>3, <1>4, <1>5 DEF IInv

\* A report reaches r: it takes the value, and may be released by it.
LEMMA HearAction ==
  ASSUME IInv, NEW r \in Res, OnCreated(r)
  PROVE  IInv'
<1>1. /\ r \in heard /\ heard' = heard \ {r} /\ heard \subseteq Res
      /\ UNCHANGED <<wf, control, added, draining, parked, retrying, made, faults, outcome>>
      /\ cur \in Res /\ phase \notin Before /\ step \in {"create", "await"}
      /\ WellFormed(wf) /\ made \in [Res -> Nat] /\ got \in [Res -> [Res -> Nat]]
      /\ \A d \in Res : Count(d) \in Nat /\ made[d] <= Count(d)
  BY Dependencies DEF OnCreated, IInv, CallInv, TypeOK, ValuesOK, CountInv
<1>2. \/ got' = got
      \/ cur \in ExtDeps(r) /\ got' = [got EXCEPT ![r] =
                                       [got[r] EXCEPT ![cur] = got[r][cur] + 1]]
  <2>1. CASE cur \in ExtDeps(r) /\ cur \notin wf.blank[r]
    <3>1. got[r][cur] < made[cur]
      BY <1>1, <2>1 DEF IInv, CountInv
    <3>2. AtMost(got[r][cur] + 1, Count(cur)) = got[r][cur] + 1
      BY <1>1, <3>1 DEF AtMost
    <3>3. QED
      BY <1>1, <2>1, <3>2 DEF OnCreated
  <2>2. CASE ~(cur \in ExtDeps(r) /\ cur \notin wf.blank[r])
    BY <2>2 DEF OnCreated
  <2>3. QED
    BY <2>1, <2>2
<1>3. got' \in [Res -> [Res -> Nat]]
  BY <1>1, <1>2
<1>4. \A x \in Res : \A d \in Res : got'[x][d] # got[x][d] =>
        /\ x = r /\ d = cur /\ cur \in ExtDeps(r) /\ got'[x][d] = got[x][d] + 1
  BY <1>1, <1>2
<1>5. /\ \/ UNCHANGED <<pending, ready>>
         \/ /\ ExtFull(r)'
            /\ pending' = pending \ {r}
            /\ ready' = [ready EXCEPT ![Prov(r)] = Append(ready[Prov(r)], r)]
      /\ \A x \in Res : ExtDeps(x)' = ExtDeps(x) /\ ExtDeps(x) \subseteq Res
      /\ \A x : Count(x)' = Count(x)
  <2>1. /\ \A x \in Res : ExtDeps(x)' = ExtDeps(x) /\ ExtDeps(x) \subseteq Res
        /\ \A x : Count(x)' = Count(x)
    BY <1>1, Frozen, Dependencies
  <2>2. QED
    BY <2>1 DEF OnCreated, ExtFull
<1>6. QueuesOK' /\ \A x \in Res : Released(x)' => Released(x) \/ ExtFull(x)'
  <2>1. QueuesOK /\ Prov(r) \in Providers
    BY <1>1, Dependencies DEF IInv, TypeOK
  <2>2. CASE UNCHANGED <<pending, ready>>
    BY <1>1, <2>1, <2>2 DEF QueuesOK, Released
  <2>3. CASE /\ ExtFull(r)'
             /\ pending' = pending \ {r}
             /\ ready' = [ready EXCEPT ![Prov(r)] = Append(ready[Prov(r)], r)]
    <3>1. /\ Append(ready[Prov(r)], r) \in Seq(Res)
          /\ \A x : In(x, Append(ready[Prov(r)], r)) => In(x, ready[Prov(r)]) \/ x = r
      BY <2>1, Membership DEF QueuesOK
    <3>2. QueuesOK'
      BY <1>1, <2>1, <2>3, <3>1 DEF QueuesOK
    <3>3. \A p \in Providers : \A x \in Res :
            In(x, ready'[p]) => In(x, ready[p]) \/ x = r
      BY <2>1, <2>3, <3>1 DEF QueuesOK
    <3>4. QED
      BY <1>1, <2>3, <3>2, <3>3 DEF Released
  <2>4. QED
    BY <1>5, <2>2, <2>3
<1>7. TypeOK'
  <2>1. ControlOK' /\ FaultsOK'
    BY <1>1 DEF ControlOK, FaultsOK, control, outcome, faults, IInv, TypeOK
  <2>2. QED
    BY <1>1, <1>3, <1>6, <2>1, Frozen DEF TypeOK, ValuesOK
<1>8. CallInv' /\ QuietInv'
  BY <1>1 DEF CallInv, QuietInv, IInv, control
<1>9. CountInv'
  <2>1. (\A d \in Res : made[d] <= Count(d))'
    BY <1>1, <1>5
  <2>2. \A x \in Res : \A d \in ExtDeps(x) : got[x][d] <= made[d] /\ got[x][d] \in Nat
    BY <1>1, <1>5 DEF IInv, CountInv
  <2>3. cur \in ExtDeps(r) => got[r][cur] < made[cur]
    BY <1>1 DEF IInv, CountInv
  <2>4. (\A x \in Res : \A d \in ExtDeps(x) : got[x][d] <= made[d])'
    <3>1. ASSUME NEW x \in Res, NEW d \in ExtDeps(x)
          PROVE  got'[x][d] <= made[d]
      <4>1. d \in Res /\ made[d] \in Nat
        BY <1>1, <1>5, <3>1
      <4>2. got[x][d] <= made[d] /\ got[x][d] \in Nat
        BY <2>2, <3>1
      <4>3. CASE got'[x][d] = got[x][d]
        BY <4>2, <4>3
      <4>4. CASE got'[x][d] # got[x][d]
        BY <1>4, <2>3, <4>1, <4>2, <4>4
      <4>5. QED
        BY <4>3, <4>4
    <3>2. QED
      BY <1>1, <1>5, <3>1
  <2>5. (\A x \in heard : cur \in ExtDeps(x) => got[x][cur] < made[cur])'
    BY <1>1, <1>4, <1>5 DEF IInv, CountInv, control
  <2>6. QED
    BY <2>1, <2>4, <2>5 DEF CountInv
<1>10. QueueInv'
  <2>1. ASSUME NEW x \in Res, ExtFull(x)
        PROVE  ExtFull(x)'
    <3>1. ASSUME NEW d \in ExtDeps(x)
          PROVE  got'[x][d] = Count(d)
      <4>1. got[x][d] = Count(d) /\ d \in Res
        BY <1>5, <2>1, <3>1 DEF ExtFull
      <4>2. got'[x][d] = got[x][d]
        BY <1>1, <1>4, <4>1 DEF IInv, CountInv
      <4>3. QED
        BY <4>1, <4>2
    <3>2. QED
      BY <1>5, <3>1 DEF ExtFull
  <2>2. QED
    BY <1>6, <2>1 DEF QueueInv, IInv
<1>11. QED
  BY <1>7, <1>8, <1>9, <1>10 DEF IInv
-----------------------------------------------------------------------------
(***************************************************************************)
(* The theorems.                                                           *)
(***************************************************************************)

\* A run starts in the invariant, for every workflow under study.
THEOREM InitInvariant == Init => IInv
<1> SUFFICES ASSUME Init PROVE IInv
  OBVIOUS
<1>1. WellFormed(wf) /\ N \in Nat
  BY WorkflowAssumption DEF Init
<1>2. <<>> \in Seq(Res) /\ \A x : ~In(x, <<>>)
  BY DEF In
<1>3. TypeOK
  <2>1. ControlOK
    <3>1. cur \in 1..(N + 1)
      BY <1>1 DEF Init
    <3>2. QED
      BY <3>1 DEF Init, ControlOK, Phases, Steps
  <2>2. ValuesOK /\ FaultsOK
    BY DEF Init, ValuesOK, FaultsOK
  <2>3. QueuesOK
    BY <1>2 DEF Init, QueuesOK
  <2>4. QED
    BY <1>1, <2>1, <2>2, <2>3 DEF TypeOK
<1>4. CallInv
  BY DEF Init, CallInv
<1>5. \A r \in Res : \A d \in ExtDeps(r) : got[r][d] = 0 /\ d \in Res
  BY <1>1, Dependencies DEF Init
<1>6. QuietInv /\ CountInv
  <2>1. \A d \in Res : made[d] = 0 /\ Count(d) \in Nat
    BY <1>1, Dependencies DEF Init
  <2>2. QED
    BY <1>5, <2>1 DEF Init, QuietInv, CountInv
<1>7. QueueInv
  BY <1>2 DEF Init, QueueInv, Released
<1>8. QED
  BY <1>3, <1>4, <1>6, <1>7 DEF IInv

\* Every step of Controller.add and Controller.apply keeps it.
THEOREM StepInvariant == IInv /\ [Next]_vars => IInv'
<1> SUFFICES ASSUME IInv, [Next]_vars PROVE IInv'
  OBVIOUS
<1>1. CASE UNCHANGED vars
  <2>1. FaultsOK' /\ ControlOK' /\ CallInv'
    BY <1>1 DEF vars, control, outcome, faults, queues, values,
                FaultsOK, ControlOK, CallInv, IInv, TypeOK
  <2>2. QED
    BY <1>1, <2>1, ControlStep DEF vars, control, queues, values, Forward
<1>2. CASE Next
  BY <1>2, ControlActions, AddAction, DrainActions, RetryAction, TakeActions,
     MakeAction, HearAction DEF Next
<1>3. QED
  BY <1>1, <1>2

\* Hence it holds throughout every run.
THEOREM Invariant == Spec => []IInv
<1>1. Init => IInv
  BY InitInvariant
<1>2. IInv /\ [Next]_vars => IInv'
  BY StepInvariant
<1>3. QED
  BY <1>1, <1>2, PTL DEF Spec

\* Whatever the workflow, the variables keep their types: the queues hold
\* resources of the workflow, and no counter goes below zero.
THEOREM TypeCorrect == Spec => []TypeOK
<1>1. IInv => TypeOK
  BY DEF IInv
<1>2. QED
  BY <1>1, Invariant, PTL

\* What has been handed to a provider has its dependencies in other providers.
LEMMA AddedIsReady == IInv => ExternalFirst
<1> SUFFICES ASSUME IInv, NEW r \in added, NEW d \in ExtDeps(r)
             PROVE  made[d] = Count(d)
  BY DEF ExternalFirst
<1>1. r \in Res
  BY DEF IInv, TypeOK, QueuesOK
<1>2. d \in Res /\ Count(d) \in Nat /\ made[d] \in Nat
  BY <1>1, Dependencies DEF IInv, TypeOK, ValuesOK
<1>3. got[r][d] = Count(d)
  BY <1>1 DEF IInv, QueueInv, Released, ExtFull
<1>4. got[r][d] <= made[d] /\ made[d] <= Count(d)
  BY <1>1, <1>2 DEF IInv, CountInv
<1>5. QED
  BY <1>2, <1>3, <1>4

\* For every workflow, every failure and every interrupt: a resource reaches its
\* provider's do_add_resource only after every instance of every dependency in
\* another provider has been created.
THEOREM ExternalFirstHolds == Spec => []ExternalFirst
BY AddedIsReady, Invariant, PTL

\* Only the report of an instance changes what has been created.
LEMMA OthersStutter ==
  ASSUME [Next]_vars, ~MakeOne
  PROVE  UNCHANGED <<wf, made>>
<1> USE DEF values, queues, control, outcome
<1>1. CASE UNCHANGED vars
  BY <1>1 DEF vars
<1>2. CASE \/ Validate \/ Add \/ PlanFails \/ PlanInterrupted
           \/ EndPhase \/ PhaseRaises \/ Test \/ Skip
  BY <1>2 DEF Validate, Add, PlanFails, PlanInterrupted, Quit, EndPhase,
              PhaseRaises, Test, Skip
<1>3. CASE \/ EnterCreate \/ Drain \/ DrainFails \/ StartRetry \/ Retry
           \/ EndRetry \/ EndDrain
  BY <1>3 DEF EnterCreate, Drain, DrainFails, StartRetry, Retry, EndRetry, EndDrain
<1>4. CASE \/ (\E r \in Res : OnCreated(r)) \/ EndCall \/ CallFails
           \/ EnterWait \/ Interrupt \/ Save \/ Terminated
  BY <1>4 DEF OnCreated, EndCall, CallFails, EnterWait, Interrupt, Save,
              Terminated, vars
<1>5. QED
  BY <1>1, <1>2, <1>3, <1>4 DEF Next

\* The report of an instance is a creation CreationOrder allows.
LEMMA MakeIsCreate ==
  ASSUME IInv, MakeOne
  PROVE  Order!Next
<1> DEFINE begun    == {r \in Res : made[r] > 0}
           complete == {r \in Res : made[r] = Count(r)}
<1>1. /\ cur \in Res /\ cur \in added /\ made[cur] < Count(cur)
      /\ made \in [Res -> Nat] /\ WellFormed(wf) /\ wf' = wf
      /\ made' = [made EXCEPT ![cur] = made[cur] + 1]
  BY DEF MakeOne, Reports, IInv, CallInv, TypeOK, ValuesOK
<1>2. \A r \in Res : Count(r)' = Count(r) /\ Count(r) \in Nat
  BY <1>1, Frozen, Dependencies
<1>3. External(wf, cur) \subseteq complete
  BY <1>1, AddedIsReady, Dependencies DEF ExternalFirst, ExtDeps
<1>4. begun' = begun \cup {cur}
  BY <1>1
<1>5. complete' = complete \/ complete' = complete \cup {cur}
  BY <1>1, <1>2
<1>6. cur \in Res \ complete
  BY <1>1, <1>2
<1>7. Order!Res = Res /\ \A r : Order!External(wf, r) = External(wf, r)
  BY DEF Order!Res, Res, Order!External, External
<1>8. PICK x \in Order!Res \ complete : x = cur
  BY <1>6, <1>7
<1>9. Order!Create(x)
  <2>1. Order!Allowed(x)
    BY <1>3, <1>7, <1>8 DEF Order!Allowed
  <2>2. QED
    BY <1>1, <1>4, <1>5, <1>8, <2>1 DEF Order!Create
<1>10. QED
  BY <1>9 DEF Order!Next

\* The phases, queues and events of the program create resources in an order
\* CreationOrder allows: each provider's resources wait for the others'.
THEOREM Implements == Spec => CreatesInOrder
<1>1. Init => Order!Init
  <2> SUFFICES ASSUME Init PROVE Order!Init
    OBVIOUS
  <2>1. WellFormed(wf) /\ \A r \in Res : made[r] = 0 /\ Count(r) # 0
    BY WorkflowAssumption, Dependencies DEF Init
  <2>2. Order!WellFormed(wf)
    BY <2>1 DEF Order!WellFormed, WellFormed, Order!WorkflowType, WorkflowType,
                Order!Res, Res, Order!Kinds, Kinds
  <2>3. QED
    BY <2>1, <2>2 DEF Order!Init
<1>2. IInv /\ [Next]_vars =>
        [Order!Next]_<<wf, {r \in Res : made[r] > 0},
                           {r \in Res : made[r] = Count(r)}>>
  <2> SUFFICES ASSUME IInv, [Next]_vars, ~MakeOne
               PROVE  UNCHANGED <<wf, {r \in Res : made[r] > 0},
                                      {r \in Res : made[r] = Count(r)}>>
    BY MakeIsCreate
  <2>1. UNCHANGED <<wf, made>>
    BY OthersStutter
  <2>2. \A r \in Res : Count(r)' = Count(r)
    BY <2>1, Frozen
  <2>3. QED
    BY <2>1, <2>2
<1>3. QED
  BY <1>1, <1>2, Invariant, PTL DEF Spec, CreatesInOrder, Order!Spec
-----------------------------------------------------------------------------
(***************************************************************************)
(* AddedHasValues: the external half is QueueInv; the internal one holds   *)
(* because do_add_resource is reached only with a value for each internal  *)
(* dependency, and no value is ever taken back.                            *)
(***************************************************************************)

\* A value for every internal dependency of what has been added.
InternalInv == \A r \in added : \A d \in IntDeps(r) : got[r][d] > 0

\* What r has of d, it keeps.
Keeps == \A r \in Res : \A d \in Res : got[r][d] > 0 => got'[r][d] > 0

\* Resolving again never takes a value back.
LEMMA ResolvedKeeps ==
  ASSUME TypeOK, NEW r \in Res, got' = Resolved(r)
  PROVE  Keeps
<1>1. WellFormed(wf) /\ got \in [Res -> [Res -> Nat]] /\ made \in [Res -> Nat]
  BY DEF TypeOK, ValuesOK
<1>2. \A d \in Res : Count(d) \in Nat /\ Count(d) > 0
  BY <1>1, Dependencies
<1>3. \A d \in Res : Visible(r, d) \in Nat
  BY <1>1, <1>2 DEF Visible
<1>4. \A d \in Res : got[r][d] > 0 =>
        AtMost(got[r][d] + Visible(r, d), Count(d)) > 0
  BY <1>1, <1>2, <1>3 DEF AtMost
<1>5. got' = [got EXCEPT ![r] = [d \in Res |->
                IF d \in IntDeps(r)
                THEN AtMost(got[r][d] + Visible(r, d), Count(d))
                ELSE got[r][d]]]
  BY <1>1 DEF Resolved
<1>6. QED
  BY <1>1, <1>4, <1>5 DEF Keeps

\* A call of add_resource keeps the values, and adds r only with all of its own.
LEMMA AddKeeps ==
  ASSUME IInv, NEW r \in Res, AddReturns(r) \/ AddRaises(r), wf' = wf
  PROVE  /\ Keeps
         /\ \A x \in added' : x \in added \/
              (x = r /\ \A d \in IntDeps(r) : got'[r][d] > 0)
<1>1. TypeOK /\ \A d \in IntDeps(r) : d \in Res /\ Count(d) \in Nat \ {0}
  BY Dependencies DEF IInv, TypeOK
<1>2. CASE AddPending(r)
  BY <1>2 DEF AddPending, Keeps
<1>3. CASE AddParked(r)
  BY <1>1, <1>3, ResolvedKeeps DEF AddParked
<1>4. ASSUME AddReached(r)
      PROVE  Keeps /\ \A d \in IntDeps(r) : got'[r][d] > 0
  <2>1. CASE IntShort(r)
    <3>1. got' = Resolved(r) /\ IntFull(got', r)
      BY <1>4, <2>1 DEF AddReached
    <3>2. \A d \in IntDeps(r) : got'[r][d] = Count(d)
      BY <3>1 DEF IntFull
    <3>3. QED
      BY <1>1, <3>1, <3>2, ResolvedKeeps
  <2>2. CASE ~IntShort(r)
    <3>1. got' = got /\ \A d \in IntDeps(r) : got[r][d] # 0
      BY <1>4, <2>2 DEF AddReached, IntShort
    <3>2. got \in [Res -> [Res -> Nat]]
      BY <1>1 DEF TypeOK, ValuesOK
    <3>3. QED
      BY <1>1, <3>1, <3>2 DEF Keeps
  <2>3. QED
    BY <2>1, <2>2
<1>5. CASE AddDone(r)
  BY <1>4, <1>5 DEF AddDone
<1>6. CASE AddRaises(r)
  BY <1>4, <1>6 DEF AddRaises
<1>7. QED
  BY <1>2, <1>3, <1>5, <1>6 DEF AddReturns

\* The resource a step hands to add_resource, and that every other step adds none.
LEMMA WhoIsAdded ==
  ASSUME IInv, [Next]_vars
  PROVE  \/ \E r \in Res : (AddReturns(r) \/ AddRaises(r)) /\ wf' = wf
         \/ UNCHANGED <<wf, added, got>>
         \/ \E r \in Res : OnCreated(r)
<1> USE DEF values, queues, control, outcome
<1>1. CASE UNCHANGED vars
  BY <1>1 DEF vars
<1>2. CASE Add
  BY <1>2 DEF Add
<1>3. CASE Drain \/ DrainFails
  <2>1. Head(draining) \in Res
    BY <1>3, Membership DEF Drain, DrainFails, IInv, TypeOK, QueuesOK
  <2>2. QED
    BY <1>3, <2>1 DEF Drain, DrainFails
<1>4. CASE Retry
  <2>1. Head(retrying) \in Res
    BY <1>4, Membership DEF Retry, IInv, TypeOK, QueuesOK
  <2>2. QED
    BY <1>4, <2>1 DEF Retry
<1>5. CASE \/ Validate \/ PlanFails \/ PlanInterrupted \/ EndPhase
           \/ PhaseRaises \/ Test \/ Skip \/ EnterCreate \/ StartRetry
  BY <1>5 DEF Validate, PlanFails, PlanInterrupted, Quit, EndPhase,
              PhaseRaises, Test, Skip, EnterCreate, StartRetry
<1>6. CASE \/ EndRetry \/ EndDrain \/ MakeOne \/ EndCall \/ CallFails
           \/ EnterWait \/ Interrupt \/ Save \/ Terminated
  BY <1>6 DEF EndRetry, EndDrain, MakeOne, EndCall, CallFails, EnterWait,
              Interrupt, Save, Terminated, vars
<1>7. QED
  BY <1>1, <1>2, <1>3, <1>4, <1>5, <1>6 DEF Next

\* No step leaves an added resource without one of its values.
LEMMA InternalStep ==
  ASSUME IInv, InternalInv, [Next]_vars
  PROVE  InternalInv'
<1>1. WellFormed(wf) /\ added \subseteq Res /\ got \in [Res -> [Res -> Nat]]
  BY DEF IInv, TypeOK, QueuesOK, ValuesOK
<1>2. CASE \E r \in Res : (AddReturns(r) \/ AddRaises(r)) /\ wf' = wf
  <2>1. PICK r \in Res : (AddReturns(r) \/ AddRaises(r)) /\ wf' = wf
    BY <1>2
  <2>2. /\ Keeps
        /\ \A x \in added' : x \in added \/
             (x = r /\ \A d \in IntDeps(r) : got'[r][d] > 0)
    BY <2>1, AddKeeps
  <2>3. \A x \in Res : IntDeps(x)' = IntDeps(x) /\ IntDeps(x) \subseteq Res
    BY <1>1, <2>1, Frozen, Dependencies
  <2>4. QED
    BY <1>1, <2>2, <2>3 DEF InternalInv, Keeps
<1>3. CASE UNCHANGED <<wf, added, got>>
  BY <1>3, Frozen DEF InternalInv
<1>4. CASE \E r \in Res : OnCreated(r)
  <2>1. PICK r \in Res : OnCreated(r)
    BY <1>4
  <2>2. UNCHANGED <<wf, added>>
    BY <2>1 DEF OnCreated
  <2>3. \A x \in Res : /\ IntDeps(x)' = IntDeps(x)
                        /\ IntDeps(x) \cap ExtDeps(x) = {}
                        /\ IntDeps(x) \subseteq Res
    BY <1>1, <2>2, Frozen, Dependencies
  <2>4. \A x \in Res : \A d \in IntDeps(x) : got'[x][d] = got[x][d]
    <3>1. got' = got \/ (cur \in ExtDeps(r) /\
            got' = [got EXCEPT ![r][cur] = AtMost(@ + 1, Count(cur))])
      BY <2>1 DEF OnCreated
    <3>2. QED
      BY <1>1, <2>3, <3>1
  <2>5. QED
    BY <1>1, <2>2, <2>3, <2>4 DEF InternalInv
<1>5. QED
  BY <1>2, <1>3, <1>4, WhoIsAdded

\* A resource reaches its provider with every value of its external dependencies
\* and a value for each internal one, whatever fails and in whichever order the
\* creation events arrive.
THEOREM AddedHasValuesHolds == Spec => []AddedHasValues
<1>1. Init => InternalInv
  BY DEF Init, InternalInv
<1>2. IInv /\ InternalInv /\ [Next]_vars => InternalInv'
  BY InternalStep
<1>3. IInv /\ InternalInv => AddedHasValues
  BY DEF IInv, TypeOK, QueuesOK, QueueInv, Released, ExtFull, InternalInv,
         AddedHasValues
<1>4. QED
  BY <1>1, <1>2, <1>3, Invariant, PTL DEF Spec
-----------------------------------------------------------------------------
(***************************************************************************)
(* Where a resource is: in one place, once.                                *)
(***************************************************************************)

\* r is in a queue or in one of the temporary lists of create_resource.
Waiting(r) ==
  \/ In(r, ready[Prov(r)]) \/ In(r, parked[Prov(r)])
  \/ In(r, draining) \/ In(r, retrying)

\* r has not been given to a provider.
Fresh(r) == r \notin added /\ r \notin pending /\ ~Waiting(r)

\* No resource twice in a list.
Once(s) == \A i, j \in 1..Len(s) : s[i] = s[j] => i = j

\* The temporary lists are empty outside of the loops that empty them.
ListInv ==
  /\ step \notin {"drain", "added", "retry"} => draining = <<>>
  /\ step # "retry" => retrying = <<>>

\* A resource waits in the queues of its own provider.
HomeInv ==
  /\ \A p \in Providers : \A r \in Res :
       In(r, ready[p]) \/ In(r, parked[p]) => p = Prov(r)
  /\ \A r \in Res : In(r, draining) \/ In(r, retrying) => Prov(r) = Prov(cur)

OnceInv ==
  /\ \A p \in Providers : Once(ready[p]) /\ Once(parked[p])
  /\ Once(draining) /\ Once(retrying)

\* No resource is in two places.
Alone(r) ==
  /\ r \in added => r \notin pending /\ ~Waiting(r)
  /\ r \in pending => ~Waiting(r)
  /\ In(r, ready[Prov(r)]) =>
       ~In(r, parked[Prov(r)]) /\ ~In(r, draining) /\ ~In(r, retrying)
  /\ In(r, parked[Prov(r)]) => ~In(r, draining) /\ ~In(r, retrying)
  /\ In(r, draining) => ~In(r, retrying)

AloneInv == \A r \in Res : Alone(r)

\* Controller.add has not reached the resources from cur on.
FreshInv ==
  /\ phase = "validate" => \A r \in Res : Fresh(r)
  /\ phase = "add" => \A r \in Res : cur <= r => Fresh(r)

\* Creation events go to pending resources only.
HeardInv == heard \subseteq pending

PlaceInv == ListInv /\ HomeInv /\ OnceInv /\ AloneInv /\ FreshInv /\ HeardInv

\* Appending, and taking the head off, on lists without duplicates.
LEMMA OnceFacts ==
  ASSUME NEW s \in Seq(Res)
  PROVE  /\ \A r \in Res :
              /\ \A x : In(x, Append(s, r)) <=> In(x, s) \/ x = r
              /\ Once(s) /\ ~In(r, s) => Once(Append(s, r))
         /\ s # <<>> =>
              /\ \A x : In(x, s) <=> x = Head(s) \/ In(x, Tail(s))
              /\ Once(s) => Once(Tail(s)) /\ ~In(Head(s), Tail(s))
         /\ Once(<<>>)
<1>1. ASSUME NEW r \in Res
      PROVE  /\ \A x : In(x, Append(s, r)) <=> In(x, s) \/ x = r
             /\ Once(s) /\ ~In(r, s) => Once(Append(s, r))
  <2>1. /\ Len(Append(s, r)) = Len(s) + 1
        /\ \A i \in 1..Len(s) : Append(s, r)[i] = s[i]
        /\ Append(s, r)[Len(s) + 1] = r
        /\ Len(s) \in Nat
    OBVIOUS
  <2>2. \A x : In(x, Append(s, r)) <=> In(x, s) \/ x = r
    BY <2>1 DEF In
  <2>3. ASSUME Once(s), ~In(r, s), NEW i \in 1..(Len(s) + 1), NEW j \in 1..(Len(s) + 1),
               Append(s, r)[i] = Append(s, r)[j]
        PROVE  i = j
    <3>1. CASE i \in 1..Len(s) /\ j \in 1..Len(s)
      BY <2>1, <2>3, <3>1 DEF Once
    <3>2. CASE i = Len(s) + 1 /\ j \in 1..Len(s)
      BY <2>1, <2>3, <3>2 DEF In
    <3>3. CASE j = Len(s) + 1 /\ i \in 1..Len(s)
      BY <2>1, <2>3, <3>3 DEF In
    <3>4. CASE i = Len(s) + 1 /\ j = Len(s) + 1
      BY <3>4
    <3>5. QED
      BY <2>1, <3>1, <3>2, <3>3, <3>4
  <2>4. Once(s) /\ ~In(r, s) => Once(Append(s, r))
    BY <2>1, <2>3 DEF Once
  <2>5. QED
    BY <2>2, <2>4
<1>2. ASSUME s # <<>>
      PROVE  /\ \A x : In(x, s) <=> x = Head(s) \/ In(x, Tail(s))
             /\ Once(s) => Once(Tail(s)) /\ ~In(Head(s), Tail(s))
  <2>1. /\ Len(s) \in Nat /\ Len(s) >= 1 /\ Head(s) = s[1]
        /\ Len(Tail(s)) = Len(s) - 1
        /\ \A i \in 1..(Len(s) - 1) : Tail(s)[i] = s[i + 1]
    BY <1>2
  <2>2. ASSUME NEW x, In(x, s), x # Head(s)
        PROVE  In(x, Tail(s))
    <3>1. PICK i \in 1..Len(s) : s[i] = x
      BY <2>2 DEF In
    <3>2. i - 1 \in 1..(Len(s) - 1) /\ Tail(s)[i - 1] = x
      BY <2>1, <2>2, <3>1
    <3>3. QED
      BY <2>1, <3>2 DEF In
  <2>3. \A x : x = Head(s) \/ In(x, Tail(s)) => In(x, s)
    <3>1. \A i \in 1..(Len(s) - 1) : i + 1 \in 1..Len(s)
      BY <2>1
    <3>2. QED
      BY <2>1, <3>1 DEF In
  <2>4. ASSUME Once(s)
        PROVE  Once(Tail(s)) /\ ~In(Head(s), Tail(s))
    <3>1. \A i \in 1..(Len(s) - 1) : i + 1 \in 1..Len(s)
      BY <2>1
    <3>2. ASSUME NEW i \in 1..(Len(s) - 1), NEW j \in 1..(Len(s) - 1),
                 Tail(s)[i] = Tail(s)[j]
          PROVE  i = j
      <4>1. i + 1 = j + 1
        BY <2>1, <2>4, <3>1, <3>2 DEF Once
      <4>2. QED
        BY <2>1, <4>1
    <3>3. \A i \in 1..(Len(s) - 1) : Tail(s)[i] # Head(s)
      BY <2>1, <2>4, <3>1 DEF Once
    <3>4. QED
      BY <2>1, <3>2, <3>3 DEF Once, In
  <2>5. QED
    BY <2>2, <2>3, <2>4
<1>3. Once(<<>>)
  BY DEF Once
<1>4. QED
  BY <1>1, <1>2, <1>3
\* x is nowhere it was not before.
Stays(x) ==
  /\ x \in added' => x \in added
  /\ x \in pending' => x \in pending
  /\ In(x, ready'[Prov(x)]) => In(x, ready[Prov(x)])
  /\ In(x, parked'[Prov(x)]) => In(x, parked[Prov(x)])
  /\ In(x, draining') => In(x, draining)
  /\ In(x, retrying') => In(x, retrying)

\* What stays where it was is still in one place, or still untouched.
LEMMA StaysFacts ==
  ASSUME wf' = wf, NEW x \in Res, Stays(x)
  PROVE  (Alone(x) => Alone(x)') /\ (Fresh(x) => Fresh(x)')
<1>1. Prov(x)' = Prov(x)
  BY Frozen
<1>2. QED
  BY <1>1 DEF Stays, Alone, Fresh, Waiting

\* A step that moves at most r: everything else follows from its parts.
LEMMA MoveStep ==
  ASSUME PlaceInv, wf' = wf, NEW r \in Res, Alone(r)',
         \A x \in Res \ {r} : Stays(x), ListInv', HomeInv', OnceInv', HeardInv',
         phase' = phase, phase = "validate" => Stays(r),
         phase = "add" => cur' = cur + 1 /\ cur = r
  PROVE  PlaceInv'
<1>1. AloneInv'
  BY StaysFacts DEF AloneInv, PlaceInv
<1>2. FreshInv'
  <2>1. CASE phase = "validate"
    <3>1. \A x \in Res : Stays(x)
      BY <2>1
    <3>2. QED
      BY <2>1, <3>1, StaysFacts DEF FreshInv, PlaceInv
  <2>2. CASE phase = "add"
    <3>1. \A x \in Res : cur + 1 <= x => x # r /\ cur <= x
      BY <2>2, WorkflowAssumption DEF Res
    <3>2. QED
      BY <2>2, <3>1, StaysFacts DEF FreshInv, PlaceInv
  <2>3. CASE phase \notin {"validate", "add"}
    BY <2>3 DEF FreshInv
  <2>4. QED
    BY <2>1, <2>2, <2>3
<1>3. QED
  BY <1>1, <1>2 DEF PlaceInv

\* A step that moves the control, and may empty the temporary lists.
LEMMA PlaceControl ==
  ASSUME IInv, PlaceInv, UNCHANGED <<wf, added, pending, ready, parked>>,
         draining' \in {draining, <<>>}, retrying' \in {retrying, <<>>},
         ListInv', HeardInv',
         cur' = cur \/ (draining' = <<>> /\ retrying' = <<>>),
         phase' = "validate" => phase = "validate",
         phase' = "add" => phase = "validate" \/ (phase = "add" /\ cur' \in Nat /\ cur <= cur')
  PROVE  PlaceInv'
<1>1. /\ draining \in Seq(Res) /\ retrying \in Seq(Res)
      /\ \A x : Prov(x)' = Prov(x)
      /\ cur \in Nat /\ WellFormed(wf)
  BY Frozen, WorkflowAssumption DEF IInv, TypeOK, QueuesOK, ControlOK
<1>2. \A x : ~In(x, <<>>)
  BY DEF In
<1>3. \A x \in Res : Stays(x)
  BY <1>1, <1>2 DEF Stays
<1>4. AloneInv'
  BY <1>3, StaysFacts DEF AloneInv, PlaceInv
<1>5. OnceInv'
  BY <1>1, OnceFacts DEF OnceInv, PlaceInv
<1>6. HomeInv'
  <2>1. \A p \in Providers : \A r \in Res :
          In(r, ready'[p]) \/ In(r, parked'[p]) => p = Prov(r)
    BY DEF PlaceInv, HomeInv
  <2>2. \A r \in Res : In(r, draining') \/ In(r, retrying') => Prov(r) = Prov(cur')
    BY <1>2 DEF PlaceInv, HomeInv
  <2>3. Prov(cur)' = Prov(cur')
    BY DEF Prov
  <2>4. QED
    BY <1>1, <2>1, <2>2, <2>3 DEF HomeInv
<1>7. FreshInv'
  <2>1. phase' = "validate" => \A x \in Res : Fresh(x)'
    BY <1>3, StaysFacts DEF FreshInv, PlaceInv
  <2>2. phase' = "add" => \A x \in Res : cur' <= x => Fresh(x)'
    <3>1. SUFFICES ASSUME phase' = "add", NEW x \in Res, cur' <= x
                   PROVE  Fresh(x)
      BY <1>3, StaysFacts
    <3>2. CASE phase = "validate"
      BY <3>2 DEF FreshInv, PlaceInv
    <3>3. CASE phase = "add" /\ cur' \in Nat /\ cur <= cur'
      <4>1. cur <= x
        BY <1>1, <3>1, <3>3 DEF Res
      <4>2. QED
        BY <3>3, <4>1 DEF FreshInv, PlaceInv
    <3>4. QED
      BY <3>1, <3>2, <3>3
  <2>3. QED
    BY <2>1, <2>2 DEF FreshInv
<1>8. QED
  BY <1>4, <1>5, <1>6, <1>7 DEF PlaceInv

\* Where add_resource puts r, if r is nowhere else.
LEMMA AddTo ==
  ASSUME IInv, PlaceInv, NEW r \in Res, AddReturns(r) \/ AddRaises(r), wf' = wf,
         r \notin added, r \notin pending, ~In(r, parked[Prov(r)])
  PROVE  /\ \A x \in Res \ {r} :
              /\ x \in added' => x \in added
              /\ x \in pending' => x \in pending
              /\ \A p \in Providers : In(x, parked'[p]) => In(x, parked[p])
         /\ \A p \in Providers : Once(parked'[p]) /\ (In(r, parked'[p]) => p = Prov(r))
         /\ r \in added' => r \notin pending' /\ ~In(r, parked'[Prov(r)])
         /\ r \in pending' => ~In(r, parked'[Prov(r)])
         /\ pending \subseteq pending'
         /\ AddRaises(r) => UNCHANGED <<added, pending, parked>>
<1>1. /\ parked \in [Providers -> Seq(Res)] /\ Prov(r) \in Providers
      /\ \A p \in Providers : Once(parked[p]) /\ (In(r, parked[p]) => p = Prov(r))
  BY Dependencies DEF IInv, TypeOK, QueuesOK, PlaceInv, OnceInv, HomeInv
<1>2. CASE AddPending(r)
  <2>1. pending' = pending \cup {r} /\ UNCHANGED <<added, parked>>
    BY <1>2 DEF AddPending
  <2>2. AddRaises(r) => UNCHANGED <<added, pending, parked>>
    BY <1>2 DEF AddPending, AddRaises, AddReached
  <2>3. QED
    BY <1>1, <2>1, <2>2
<1>3. CASE AddParked(r)
  <2>1. /\ parked' = [parked EXCEPT ![Prov(r)] = Append(parked[Prov(r)], r)]
        /\ UNCHANGED <<added, pending>>
    BY <1>3 DEF AddParked
  <2>2. /\ \A x : In(x, Append(parked[Prov(r)], r)) <=> In(x, parked[Prov(r)]) \/ x = r
        /\ Once(Append(parked[Prov(r)], r))
    BY <1>1, OnceFacts
  <2>3. ~AddRaises(r)
    <3>1. parked[Prov(r)] # parked'[Prov(r)]
      BY <1>1, <2>1, <2>2
    <3>2. QED
      BY <3>1 DEF AddRaises, AddReached
  <2>4. QED
    BY <1>1, <2>1, <2>2, <2>3
<1>4. CASE AddDone(r)
  <2>1. added' = added \cup {r} /\ UNCHANGED <<pending, parked>>
    BY <1>4 DEF AddDone, AddReached
  <2>2. ~AddRaises(r)
    BY <2>1 DEF AddRaises
  <2>3. QED
    BY <1>1, <2>1, <2>2
<1>5. CASE AddRaises(r)
  <2>1. UNCHANGED <<added, pending, parked>>
    BY <1>5 DEF AddRaises, AddReached
  <2>2. QED
    BY <1>1, <2>1
<1>6. QED
  BY <1>2, <1>3, <1>4, <1>5 DEF AddReturns

\* The first attempt to add a resource: it was nowhere before.
LEMMA PlaceAdd ==
  ASSUME IInv, PlaceInv, Add
  PROVE  PlaceInv'
<1>1. /\ cur \in Res /\ phase = "add" /\ step = "idle" /\ heard = {}
      /\ UNCHANGED <<wf, ready, draining, retrying, heard>>
      /\ phase' = phase /\ step' = "idle" /\ cur' = cur + 1
      /\ AddReturns(cur) \/ AddRaises(cur)
      /\ draining = <<>> /\ retrying = <<>>
  BY DEF Add, Advance, IInv, CallInv, PlaceInv, ListInv
<1>2. Fresh(cur)
  BY <1>1 DEF PlaceInv, FreshInv, Res
<1>3. /\ \A x \in Res \ {cur} :
           /\ x \in added' => x \in added
           /\ x \in pending' => x \in pending
           /\ \A p \in Providers : In(x, parked'[p]) => In(x, parked[p])
      /\ \A p \in Providers : Once(parked'[p]) /\ (In(cur, parked'[p]) => p = Prov(cur))
      /\ cur \in added' => cur \notin pending' /\ ~In(cur, parked'[Prov(cur)])
      /\ cur \in pending' => ~In(cur, parked'[Prov(cur)])
  BY <1>1, <1>2, AddTo DEF Fresh, Waiting
<1>4. /\ \A x : Prov(x)' = Prov(x) /\ ~In(x, <<>>)
      /\ \A x \in Res : Prov(x) \in Providers
  BY <1>1, Frozen, Dependencies DEF In, IInv, TypeOK
<1>5. \A x \in Res \ {cur} : Stays(x)
  BY <1>1, <1>3, <1>4 DEF Stays
<1>6. HomeInv'
  BY <1>1, <1>3, <1>4 DEF HomeInv, PlaceInv
<1>7. OnceInv' /\ ListInv' /\ HeardInv'
  BY <1>1, <1>3 DEF OnceInv, ListInv, HeardInv, PlaceInv
<1>8. ~In(cur, ready'[Prov(cur)]) /\ ~In(cur, draining') /\ ~In(cur, retrying')
  BY <1>1, <1>2 DEF Fresh, Waiting
<1>9. /\ cur \in added' => cur \notin pending' /\ ~In(cur, parked'[Prov(cur)])
      /\ cur \in pending' => ~In(cur, parked'[Prov(cur)])
  BY <1>3
<1>10. \A r \in Res : r = cur => Alone(r)'
  BY <1>4, <1>8, <1>9 DEF Alone, Waiting
<1>11. PICK r \in Res : r = cur
  BY <1>1
<1>12. Alone(r)'
  BY <1>10, <1>11
<1>13. QED
  BY <1>1, <1>5, <1>6, <1>7, <1>11, <1>12, MoveStep

\* A resource whose values have arrived goes from the drained list to where
\* add_resource puts it, or back to the queue when it raises.
LEMMA PlaceDrain ==
  ASSUME IInv, PlaceInv, Drain \/ DrainFails
  PROVE  PlaceInv'
<1> DEFINE p == Prov(cur)
<1>0. Head(draining) \in Res
  BY Membership DEF Drain, DrainFails, IInv, TypeOK, QueuesOK
<1> PICK r \in Res : r = Head(draining)
  BY <1>0
<1>1. /\ step = "drain" /\ draining # <<>> /\ draining \in Seq(Res)
      /\ UNCHANGED <<wf, retrying, heard>> /\ retrying = <<>> /\ heard = {}
      /\ ready \in [Providers -> Seq(Res)]
      /\ cur \in Res /\ phase \notin Before /\ phase' = phase
      /\ AddReturns(r) \/ AddRaises(r)
  BY DEF Drain, DrainFails, Goto, Advance, IInv, CallInv, TypeOK, QueuesOK,
         PlaceInv, ListInv
<1>2. r \in Res /\ In(r, draining) /\ ~In(r, Tail(draining)) /\ Tail(draining) \in Seq(Res)
      /\ Once(Tail(draining)) /\ Once(<<>>) /\ (\A x : ~In(x, <<>>))
      /\ \A x : In(x, Tail(draining)) => In(x, draining)
  BY <1>1, Membership, OnceFacts DEF PlaceInv, OnceInv
<1>3. /\ p = Prov(r) /\ p \in Providers /\ Alone(r)
      /\ \A x : Prov(x)' = Prov(x)
      /\ \A x \in Res : Prov(x) \in Providers
  BY <1>1, <1>2, Frozen, Dependencies DEF PlaceInv, HomeInv, AloneInv, IInv, TypeOK
<1>4. /\ r \notin added /\ r \notin pending /\ ~In(r, ready[p]) /\ ~In(r, parked[p])
      /\ ~In(r, retrying)
  BY <1>2, <1>3 DEF Alone, Waiting
<1>5. /\ \A x \in Res \ {r} :
           /\ x \in added' => x \in added
           /\ x \in pending' => x \in pending
           /\ \A q \in Providers : In(x, parked'[q]) => In(x, parked[q])
      /\ \A q \in Providers : Once(parked'[q]) /\ (In(r, parked'[q]) => q = Prov(r))
      /\ r \in added' => r \notin pending' /\ ~In(r, parked'[Prov(r)])
      /\ r \in pending' => ~In(r, parked'[Prov(r)])
      /\ AddRaises(r) => UNCHANGED <<added, pending, parked>>
  BY <1>1, <1>2, <1>3, <1>4, AddTo
<1>6. draining' \in {Tail(draining), <<>>}
  BY DEF Drain, DrainFails
<1>7. ~In(r, draining') /\ Once(draining') /\ \A x : In(x, draining') => In(x, draining)
  BY <1>2, <1>6
<1>8. \/ ready' = ready
      \/ /\ AddRaises(r)
         /\ ready' = [ready EXCEPT ![p] = Append(ready[p], r)]
  BY DEF Drain, DrainFails
<1>9. /\ \A x \in Res : \A q \in Providers :
           In(x, ready'[q]) => In(x, ready[q]) \/ (x = r /\ q = p)
      /\ \A q \in Providers : Once(ready'[q])
      /\ In(r, ready'[p]) => AddRaises(r)
  <2>1. \A q \in Providers : Once(ready[q])
    BY DEF PlaceInv, OnceInv
  <2>2. CASE ready' = ready
    BY <1>4, <2>1, <2>2
  <2>3. CASE AddRaises(r) /\ ready' = [ready EXCEPT ![p] = Append(ready[p], r)]
    <3>1. /\ \A x : In(x, Append(ready[p], r)) <=> In(x, ready[p]) \/ x = r
          /\ Once(Append(ready[p], r))
      BY <1>1, <1>2, <1>3, <1>4, <2>1, OnceFacts
    <3>2. QED
      BY <1>1, <1>3, <2>1, <2>3, <3>1
  <2>4. QED
    BY <1>8, <2>2, <2>3
<1>10. \A x \in Res \ {r} : Stays(x)
  BY <1>1, <1>3, <1>5, <1>7, <1>9 DEF Stays
<1>11. HomeInv'
  <2>1. cur' = cur \/ draining' = <<>>
    BY DEF Drain, DrainFails, Goto
  <2>2. \A x \in Res : In(x, draining') => Prov(x) = Prov(cur')
    BY <1>2, <1>7, <2>1 DEF PlaceInv, HomeInv
  <2>3. \A x \in Res : ~In(x, retrying')
    BY <1>1, <1>2
  <2>4. Prov(cur)' = Prov(cur')
    BY <1>1 DEF Prov
  <2>5. \A q \in Providers : \A x \in Res :
          In(x, ready'[q]) \/ In(x, parked'[q]) => q = Prov(x)
    BY <1>3, <1>5, <1>9 DEF PlaceInv, HomeInv
  <2>6. QED
    BY <1>3, <2>2, <2>3, <2>4, <2>5 DEF HomeInv
<1>12. OnceInv' /\ HeardInv'
  BY <1>1, <1>2, <1>5, <1>7, <1>9 DEF OnceInv, HeardInv
<1>13. ListInv'
  BY <1>1 DEF Drain, DrainFails, Goto, Advance, ListInv
<1>14. Alone(r)'
  <2>1. /\ r \in added' => r \notin pending' /\ ~In(r, parked'[Prov(r)])
        /\ r \in pending' => ~In(r, parked'[Prov(r)])
        /\ In(r, ready'[Prov(r)]) =>
             r \notin added' /\ r \notin pending' /\ ~In(r, parked'[Prov(r)])
        /\ ~In(r, draining') /\ ~In(r, retrying')
    BY <1>1, <1>3, <1>4, <1>5, <1>7, <1>9
  <2>2. QED
    BY <1>3, <2>1 DEF Alone, Waiting
<1>15. QED
  BY <1>1, <1>2, <1>10, <1>11, <1>12, <1>13, <1>14, MoveStep DEF Before

\* A parked resource is tried again.
LEMMA PlaceRetry ==
  ASSUME IInv, PlaceInv, Retry
  PROVE  PlaceInv'
<1>0. Head(retrying) \in Res
  BY Membership DEF Retry, IInv, TypeOK, QueuesOK
<1> PICK r \in Res : r = Head(retrying)
  BY <1>0
<1>1. /\ step = "retry" /\ retrying # <<>> /\ retrying \in Seq(Res)
      /\ UNCHANGED <<wf, ready, draining, heard, cur>> /\ heard = {}
      /\ retrying' = Tail(retrying)
      /\ cur \in Res /\ phase \notin Before /\ phase' = phase /\ step' = "retry"
      /\ AddReturns(r) \/ AddRaises(r)
  BY DEF Retry, Goto, IInv, CallInv, TypeOK, QueuesOK
<1>2. /\ In(r, retrying) /\ ~In(r, Tail(retrying)) /\ Once(Tail(retrying))
      /\ \A x : In(x, Tail(retrying)) => In(x, retrying)
  BY <1>1, Membership, OnceFacts DEF PlaceInv, OnceInv
<1>3. /\ Alone(r) /\ \A x : Prov(x)' = Prov(x)
      /\ \A x \in Res : Prov(x) \in Providers
  BY <1>1, Frozen, Dependencies DEF PlaceInv, AloneInv, IInv, TypeOK
<1>4. /\ r \notin added /\ r \notin pending /\ ~In(r, ready[Prov(r)])
      /\ ~In(r, parked[Prov(r)]) /\ ~In(r, draining)
  BY <1>2, <1>3 DEF Alone, Waiting
<1>5. /\ \A x \in Res \ {r} :
           /\ x \in added' => x \in added
           /\ x \in pending' => x \in pending
           /\ \A q \in Providers : In(x, parked'[q]) => In(x, parked[q])
      /\ \A q \in Providers : Once(parked'[q]) /\ (In(r, parked'[q]) => q = Prov(r))
      /\ r \in added' => r \notin pending' /\ ~In(r, parked'[Prov(r)])
      /\ r \in pending' => ~In(r, parked'[Prov(r)])
  BY <1>1, <1>4, AddTo
<1>6. \A x \in Res \ {r} : Stays(x)
  BY <1>1, <1>2, <1>3, <1>5 DEF Stays
<1>7. HomeInv'
  <2>1. \A q \in Providers : \A x \in Res :
          In(x, ready'[q]) \/ In(x, parked'[q]) => q = Prov(x)
    BY <1>1, <1>5 DEF PlaceInv, HomeInv
  <2>2. \A x \in Res : In(x, draining') \/ In(x, retrying') => Prov(x) = Prov(cur)
    BY <1>1, <1>2 DEF PlaceInv, HomeInv
  <2>3. Prov(cur)' = Prov(cur)
    BY <1>1 DEF Prov
  <2>4. QED
    BY <1>3, <2>1, <2>2, <2>3 DEF HomeInv
<1>8. OnceInv' /\ HeardInv' /\ ListInv'
  BY <1>1, <1>2, <1>5 DEF OnceInv, HeardInv, ListInv, PlaceInv
<1>9. Alone(r)'
  BY <1>1, <1>2, <1>3, <1>4, <1>5 DEF Alone, Waiting
<1>10. QED
  BY <1>1, <1>6, <1>7, <1>8, <1>9, MoveStep DEF Before

\* The queue of ready resources becomes the list to drain.
LEMMA PlaceEnter ==
  ASSUME IInv, PlaceInv, EnterCreate
  PROVE  PlaceInv'
<1> DEFINE p == Prov(cur)
<1>1. /\ step = "idle" /\ cur \in Res /\ phase \notin Before
      /\ UNCHANGED <<wf, added, pending, parked, retrying, heard, phase, cur>>
      /\ draining' = ready[p] /\ ready' = [ready EXCEPT ![p] = <<>>]
      /\ draining = <<>> /\ retrying = <<>> /\ step' = "drain"
      /\ ready \in [Providers -> Seq(Res)]
  BY DEF EnterCreate, Goto, Selected, Creating, NonServices, Before, PlaceInv,
         ListInv, IInv, TypeOK, QueuesOK, values
<1>2. /\ \A x : Prov(x)' = Prov(x) /\ ~In(x, <<>>)
      /\ \A x \in Res : Prov(x) \in Providers
      /\ Once(<<>>) /\ p \in Providers /\ p' = p
  BY <1>1, Frozen, Dependencies DEF IInv, TypeOK, In, Once, Prov
<1>3. \A q \in Providers : ready'[q] = IF q = p THEN <<>> ELSE ready[q]
  BY <1>1
<1>4. \A x \in Res : In(x, draining') => p = Prov(x) /\ In(x, ready[Prov(x)])
  BY <1>1, <1>2 DEF PlaceInv, HomeInv
<1>5. ASSUME NEW x \in Res
      PROVE  Alone(x)'
  <2>1. Alone(x) /\ ~In(x, draining) /\ ~In(x, retrying) /\ ~In(x, retrying')
    BY <1>1, <1>2 DEF PlaceInv, AloneInv
  <2>2. In(x, ready'[Prov(x)]) => In(x, ready[Prov(x)]) /\ ~In(x, draining')
    BY <1>2, <1>3, <1>4
  <2>3. QED
    BY <1>1, <1>2, <1>4, <2>1, <2>2 DEF Alone, Waiting
<1>6. HomeInv'
  BY <1>1, <1>2, <1>3, <1>4 DEF PlaceInv, HomeInv
<1>7. OnceInv' /\ ListInv' /\ FreshInv' /\ HeardInv'
  BY <1>1, <1>2, <1>3 DEF PlaceInv, OnceInv, ListInv, FreshInv, HeardInv, Before
<1>8. QED
  BY <1>5, <1>6, <1>7 DEF PlaceInv, AloneInv

\* The parked resources become the list to try again.
LEMMA PlaceStart ==
  ASSUME IInv, PlaceInv, StartRetry
  PROVE  PlaceInv'
<1> DEFINE p == Prov(cur)
<1>1. /\ step = "added" /\ cur \in Res /\ phase \notin Before
      /\ UNCHANGED <<wf, added, pending, ready, draining, heard, phase, cur>>
      /\ retrying' = parked[p] /\ parked' = [parked EXCEPT ![p] = <<>>]
      /\ retrying = <<>> /\ step' = "retry"
      /\ parked \in [Providers -> Seq(Res)]
  BY DEF StartRetry, Goto, CallInv, PlaceInv, ListInv, IInv, TypeOK, QueuesOK, values
<1>2. /\ \A x : Prov(x)' = Prov(x) /\ ~In(x, <<>>)
      /\ \A x \in Res : Prov(x) \in Providers
      /\ Once(<<>>) /\ p \in Providers /\ p' = p
  BY <1>1, Frozen, Dependencies DEF IInv, TypeOK, In, Once, Prov
<1>3. \A q \in Providers : parked'[q] = IF q = p THEN <<>> ELSE parked[q]
  BY <1>1
<1>4. \A x \in Res : In(x, retrying') => p = Prov(x) /\ In(x, parked[Prov(x)])
  BY <1>1, <1>2 DEF PlaceInv, HomeInv
<1>5. ASSUME NEW x \in Res
      PROVE  Alone(x)'
  <2>1. Alone(x) /\ ~In(x, retrying)
    BY <1>1, <1>2 DEF PlaceInv, AloneInv
  <2>2. In(x, parked'[Prov(x)]) => In(x, parked[Prov(x)]) /\ ~In(x, retrying')
    BY <1>2, <1>3, <1>4
  <2>3. QED
    BY <1>1, <1>2, <1>4, <2>1, <2>2 DEF Alone, Waiting
<1>6. HomeInv'
  BY <1>1, <1>2, <1>3, <1>4 DEF PlaceInv, HomeInv
<1>7. OnceInv' /\ ListInv' /\ FreshInv' /\ HeardInv'
  BY <1>1, <1>2, <1>3 DEF PlaceInv, OnceInv, ListInv, FreshInv, HeardInv, Before
<1>8. QED
  BY <1>5, <1>6, <1>7 DEF PlaceInv, AloneInv

\* A report releases a pending resource, if it releases it at all.
LEMMA PlaceHear ==
  ASSUME IInv, PlaceInv, NEW r \in Res, OnCreated(r)
  PROVE  PlaceInv'
<1>1. /\ r \in heard /\ heard' = heard \ {r} /\ heard \subseteq pending
      /\ UNCHANGED <<wf, phase, cur, step, added, draining, parked, retrying>>
      /\ cur \in Res /\ phase \notin Before /\ step \in {"create", "await"}
      /\ \/ UNCHANGED <<pending, ready>>
         \/ /\ pending' = pending \ {r}
            /\ ready' = [ready EXCEPT ![Prov(r)] = Append(ready[Prov(r)], r)]
      /\ draining = <<>> /\ retrying = <<>>
      /\ ready \in [Providers -> Seq(Res)]
  BY DEF OnCreated, IInv, CallInv, PlaceInv, HeardInv, ListInv, TypeOK, QueuesOK, control
<1>2. /\ \A x : Prov(x)' = Prov(x) /\ ~In(x, <<>>)
      /\ \A x \in Res : Prov(x) \in Providers
      /\ Prov(cur)' = Prov(cur)
  BY <1>1, Frozen, Dependencies DEF IInv, TypeOK, In, Prov
<1>3. Alone(r) /\ r \in pending /\ r \notin added /\ ~In(r, ready[Prov(r)])
      /\ ~In(r, parked[Prov(r)])
  BY <1>1 DEF PlaceInv, AloneInv, Alone, Waiting
<1>4. CASE UNCHANGED <<pending, ready>>
  <2>1. /\ HeardInv' /\ ListInv'
        /\ cur' = cur \/ (draining' = <<>> /\ retrying' = <<>>)
    BY <1>1, <1>4 DEF HeardInv, ListInv
  <2>2. QED
    BY <1>1, <1>4, <2>1, PlaceControl DEF Before
<1>5. CASE /\ pending' = pending \ {r}
           /\ ready' = [ready EXCEPT ![Prov(r)] = Append(ready[Prov(r)], r)]
  <2>1. /\ \A x : In(x, Append(ready[Prov(r)], r)) <=> In(x, ready[Prov(r)]) \/ x = r
        /\ Once(Append(ready[Prov(r)], r))
        /\ \A q \in Providers : Once(ready[q])
    BY <1>1, <1>2, <1>3, OnceFacts DEF PlaceInv, OnceInv
  <2>2. /\ \A x \in Res : \A q \in Providers :
             In(x, ready'[q]) => In(x, ready[q]) \/ (x = r /\ q = Prov(r))
        /\ \A q \in Providers : Once(ready'[q])
    BY <1>1, <1>2, <1>5, <2>1
  <2>3. \A x \in Res \ {r} : Stays(x)
    BY <1>1, <1>2, <1>5, <2>2 DEF Stays
  <2>4. HomeInv' /\ OnceInv' /\ ListInv' /\ HeardInv'
    BY <1>1, <1>2, <1>5, <2>2 DEF PlaceInv, HomeInv, OnceInv, ListInv, HeardInv
  <2>5. Alone(r)'
    BY <1>1, <1>2, <1>3, <1>5 DEF Alone, Waiting
  <2>6. QED
    BY <1>1, <2>3, <2>4, <2>5, MoveStep DEF Before
<1>6. QED
  BY <1>1, <1>4, <1>5

\* The steps that move no resource, but may forget what a list holds.
LEMMA PlaceOthers ==
  ASSUME IInv, PlaceInv,
         \/ Validate \/ PlanFails \/ PlanInterrupted \/ EndPhase \/ PhaseRaises
         \/ Test \/ Skip \/ EndRetry \/ EndDrain \/ MakeOne \/ EndCall \/ CallFails
         \/ EnterWait \/ Interrupt \/ Save \/ UNCHANGED vars
  PROVE  PlaceInv'
<1> USE DEF queues, values, outcome, control
<1>0. ListInv /\ HeardInv /\ CallInv /\ cur \in Nat
  BY WorkflowAssumption DEF PlaceInv, IInv, TypeOK, ControlOK
<1>1. CASE Validate \/ Skip \/ CallFails
  <2>1. /\ UNCHANGED <<wf, queues, heard, phase>> /\ step' = "idle" /\ cur' = cur + 1
        /\ step \in {"idle", "create", "await"}
    BY <1>1 DEF Validate, Skip, CallFails, Advance
  <2>2. ListInv' /\ HeardInv' /\ draining' = <<>> /\ retrying' = <<>>
    BY <1>0, <2>1 DEF ListInv, HeardInv
  <2>3. QED
    BY <1>0, <2>1, <2>2, PlaceControl
<1>2. CASE EndDrain \/ EndCall
  <2>1. /\ UNCHANGED <<wf, queues, heard, phase>>
        /\ step' \in {"idle", "create", "await"} /\ draining = <<>> /\ retrying = <<>>
        /\ phase \notin Before
    BY <1>0, <1>2 DEF EndDrain, EndCall, Advance, Goto, ListInv, CallInv
  <2>2. ListInv' /\ HeardInv'
    BY <1>0, <2>1 DEF ListInv, HeardInv
  <2>3. QED
    BY <2>1, <2>2, PlaceControl DEF Before
<1>3. CASE EndPhase
  <2>1. /\ UNCHANGED <<wf, queues, heard, step>> /\ step = "idle" /\ phase' = NextPhase
        /\ phase \in {"validate", "add", "first", "rest", "wait", "service"}
    BY <1>3 DEF EndPhase
  <2>2. phase' # "validate" /\ (phase' = "add" => phase = "validate")
    BY <2>1 DEF NextPhase
  <2>3. ListInv' /\ HeardInv' /\ draining' = <<>> /\ retrying' = <<>>
    BY <1>0, <2>1 DEF ListInv, HeardInv
  <2>4. QED
    BY <2>1, <2>2, <2>3, PlaceControl
<1>4. CASE PlanFails \/ PlanInterrupted \/ PhaseRaises \/ Test \/ Save
  <2>1. /\ UNCHANGED <<wf, queues, heard, step, cur>>
        /\ phase' \in {"exit", "save", "service"}
    BY <1>4 DEF PlanFails, PlanInterrupted, Quit, PhaseRaises, Test, Save
  <2>2. ListInv' /\ HeardInv'
    BY <1>0, <2>1 DEF ListInv, HeardInv
  <2>3. QED
    BY <2>1, <2>2, PlaceControl
<1>5. CASE EndRetry \/ EnterWait
  <2>1. /\ UNCHANGED <<wf, queues, heard, phase, cur>> /\ retrying = <<>>
        /\ step' = "drain" \/ (step' = "await" /\ step = "idle")
    BY <1>0, <1>5 DEF EndRetry, EnterWait, Goto, ListInv
  <2>2. ListInv' /\ HeardInv'
    BY <1>0, <2>1 DEF ListInv, HeardInv
  <2>3. QED
    BY <1>0, <2>1, <2>2, PlaceControl
<1>6. CASE MakeOne
  <2>1. /\ UNCHANGED <<wf, queues, phase, cur, step>>
        /\ heard' = {r \in pending : Prov(r) # Prov(cur)}
    BY <1>6 DEF MakeOne
  <2>2. ListInv' /\ HeardInv'
    BY <1>0, <2>1 DEF ListInv, HeardInv
  <2>3. QED
    BY <1>0, <2>1, <2>2, PlaceControl
<1>7. CASE Interrupt
  <2>1. /\ UNCHANGED <<wf, added, pending, ready, parked, cur>>
        /\ phase' = "save" /\ heard' = {} /\ draining' = <<>> /\ retrying' = <<>>
    BY <1>7 DEF Interrupt
  <2>2. ListInv' /\ HeardInv'
    BY <2>1 DEF ListInv, HeardInv
  <2>3. QED
    BY <2>1, <2>2, PlaceControl
<1>8. CASE UNCHANGED vars
  <2>1. UNCHANGED <<wf, queues, heard, phase, cur, step>>
    BY <1>8 DEF vars
  <2>2. ListInv' /\ HeardInv'
    BY <1>0, <2>1 DEF ListInv, HeardInv
  <2>3. QED
    BY <1>0, <2>1, <2>2, PlaceControl
<1>9. QED
  BY <1>1, <1>2, <1>3, <1>4, <1>5, <1>6, <1>7, <1>8

\* No resource is anywhere at the start.
LEMMA PlaceInit == Init => PlaceInv
<1> SUFFICES ASSUME Init PROVE PlaceInv
  OBVIOUS
<1>1. /\ Once(<<>>) /\ \A x : ~In(x, <<>>)
      /\ \A r \in Res : Prov(r) \in Providers
  BY WorkflowAssumption, Dependencies DEF Init, Once, In
<1>2. \A r \in Res : Fresh(r) /\ Alone(r)
  BY <1>1 DEF Init, Fresh, Waiting, Alone
<1>3. QED
  BY <1>1, <1>2 DEF Init, PlaceInv, ListInv, HomeInv, OnceInv, AloneInv,
                    FreshInv, HeardInv

\* PlaceInv is inductive.
LEMMA PlaceStep ==
  ASSUME IInv, PlaceInv, [Next]_vars
  PROVE  PlaceInv'
<1>1. CASE Terminated
  BY <1>1, PlaceOthers DEF Terminated
<1>2. QED
  BY <1>1, PlaceAdd, PlaceDrain, PlaceRetry, PlaceEnter, PlaceStart, PlaceHear,
     PlaceOthers DEF Next

\* PlaceInv, the strengthening of OnePlace, holds for every workflow.
THEOREM PlaceInvariant == Spec => []PlaceInv
<1>1. Init => PlaceInv
  BY PlaceInit
<1>2. IInv /\ PlaceInv /\ [Next]_vars => PlaceInv'
  BY PlaceStep
<1>3. QED
  BY <1>1, <1>2, Invariant, PTL DEF Spec

\* A list without duplicates holds r once, or not at all.
LEMMA OccurrencesFacts ==
  ASSUME NEW s \in Seq(Res), Once(s), NEW r
  PROVE  Occurrences(r, s) = IF In(r, s) THEN 1 ELSE 0
<1> DEFINE places == {i \in DOMAIN s : s[i] = r}
<1>1. CASE In(r, s)
  <2>1. PICK i \in 1..Len(s) : s[i] = r
    BY <1>1 DEF In
  <2>2. places = {i}
    BY <2>1 DEF Once
  <2>3. Cardinality({i}) = 1
    BY FS_Singleton
  <2>4. QED
    BY <1>1, <2>2, <2>3 DEF Occurrences
<1>2. CASE ~In(r, s)
  <2>1. places = {}
    BY <1>2 DEF In
  <2>2. QED
    BY <1>2, <2>1, FS_EmptySet DEF Occurrences
<1>3. QED
  BY <1>1, <1>2

\* PlaceInv bounds the number of places a resource is in.
LEMMA PlaceIsOne == IInv /\ PlaceInv => OnePlace
<1> SUFFICES ASSUME IInv, PlaceInv, NEW r \in Res
             PROVE  (IF r \in added THEN 1 ELSE 0) + (IF r \in pending THEN 1 ELSE 0)
                      + Occurrences(r, ready[Prov(r)]) + Occurrences(r, draining)
                      + Occurrences(r, parked[Prov(r)]) + Occurrences(r, retrying) <= 1
  BY DEF OnePlace
<1>1. /\ ready[Prov(r)] \in Seq(Res) /\ parked[Prov(r)] \in Seq(Res)
      /\ draining \in Seq(Res) /\ retrying \in Seq(Res)
      /\ Once(ready[Prov(r)]) /\ Once(parked[Prov(r)])
      /\ Once(draining) /\ Once(retrying)
  BY Dependencies DEF IInv, TypeOK, QueuesOK, PlaceInv, OnceInv
<1>2. /\ Occurrences(r, ready[Prov(r)]) = IF In(r, ready[Prov(r)]) THEN 1 ELSE 0
      /\ Occurrences(r, parked[Prov(r)]) = IF In(r, parked[Prov(r)]) THEN 1 ELSE 0
      /\ Occurrences(r, draining) = IF In(r, draining) THEN 1 ELSE 0
      /\ Occurrences(r, retrying) = IF In(r, retrying) THEN 1 ELSE 0
  BY <1>1, OccurrencesFacts
<1>3. Alone(r)
  BY DEF PlaceInv, AloneInv
<1>4. QED
  BY <1>2, <1>3 DEF Alone, Waiting

\* The assertions of add_resource never fire, for any workflow and any fault: a
\* resource is added, pending, ready, parked or in a temporary list, and once.
THEOREM OnePlaceHolds == Spec => []OnePlace
BY PlaceIsOne, Invariant, PlaceInvariant, PTL
-----------------------------------------------------------------------------
(***************************************************************************)
(* LostIsReported.                                                         *)
(***************************************************************************)

\* Instances are reported of resources that have been added.
MadeInv == \A r \in Res : made[r] > 0 => r \in added

\* Where a resource can be, or that its loss is on record.
Accounted(r) == \/ r \in pending \/ Released(r)
                \/ errors \/ broken \/ failedCount[r] > 0

\* What Controller.add has been through is accounted for, and so is everything
\* in Controller.apply.
LossInv ==
  /\ phase = "add" => \A r \in Res : r < cur => Accounted(r)
  /\ LostIsReported

\* Added resources stay added.
LEMMA MadeStep ==
  ASSUME IInv, MadeInv, [Next]_vars
  PROVE  MadeInv'
<1>1. made \in [Res -> Nat]
  BY DEF IInv, TypeOK, ValuesOK
<1>2. added \subseteq added'
  <2>1. ASSUME NEW r, AddReturns(r) \/ AddRaises(r)
        PROVE  added \subseteq added'
    BY <2>1 DEF AddReturns, AddRaises, AddPending, AddParked, AddDone
  <2>2. CASE Add \/ Drain \/ DrainFails \/ Retry
    BY <2>1, <2>2 DEF Add, Drain, DrainFails, Retry
  <2>3. CASE ~(Add \/ Drain \/ DrainFails \/ Retry)
    BY <2>3 DEF Next, vars, queues, control, Validate, PlanFails, PlanInterrupted,
       Quit, EndPhase, PhaseRaises, Test, Skip, EnterCreate, StartRetry, EndRetry,
       EndDrain, MakeOne, OnCreated, EndCall, CallFails, EnterWait, Interrupt,
       Save, Terminated
  <2>4. QED
    BY <2>2, <2>3
<1>3. CASE MakeOne
  <2>1. /\ made' = [made EXCEPT ![cur] = made[cur] + 1] /\ cur \in added
    BY <1>3 DEF MakeOne, Reports, IInv, CallInv
  <2>2. QED
    BY <1>1, <1>2, <2>1 DEF MadeInv
<1>4. CASE ~MakeOne
  BY <1>2, <1>4, OthersStutter DEF MadeInv
<1>5. QED
  BY <1>3, <1>4

\* The record of a loss is kept.
Recorded(r) == errors \/ broken \/ failedCount[r] > 0

\* A step of Controller.apply that accounts for each resource.
LEMMA LossStep ==
  ASSUME LossInv, phase' # "add",
         phase' \in {"first", "rest", "wait", "test", "service", "save"} =>
           /\ phase \in {"first", "rest", "wait", "test", "service", "save"}
           /\ \A r \in Res : /\ Recorded(r) => Accounted(r)'
                             /\ r \in pending \/ Released(r) => Accounted(r)'
  PROVE  LossInv'
BY DEF LossInv, LostIsReported, Accounted, Recorded

\* After add_resource, r is pending, parked or added, unless it raised.
LEMMA AddLands ==
  ASSUME IInv, NEW r \in Res, AddReturns(r) \/ AddRaises(r), wf' = wf
  PROVE  /\ added \subseteq added' /\ pending \subseteq pending'
         /\ \A p \in Providers : \A x : In(x, parked[p]) => In(x, parked'[p])
         /\ AddReturns(r) =>
              /\ r \in added' \/ r \in pending' \/ In(r, parked'[Prov(r)])
              /\ UNCHANGED faults
         /\ AddRaises(r) => Fail(r, "ADD")
         /\ Prov(r) \in Providers
<1>1. parked \in [Providers -> Seq(Res)] /\ Prov(r) \in Providers
  BY Dependencies DEF IInv, TypeOK, QueuesOK
<1>2. AddRaises(r) => Fail(r, "ADD")
  BY DEF AddRaises
<1>3. CASE AddPending(r)
  BY <1>1, <1>2, <1>3 DEF AddPending
<1>4. CASE AddParked(r)
  <2>1. /\ parked' = [parked EXCEPT ![Prov(r)] = Append(parked[Prov(r)], r)]
        /\ UNCHANGED <<added, pending, faults>>
    BY <1>4 DEF AddParked
  <2>2. \A x : In(x, Append(parked[Prov(r)], r)) <=> In(x, parked[Prov(r)]) \/ x = r
    BY <1>1, OnceFacts
  <2>3. QED
    BY <1>1, <1>2, <2>1, <2>2
<1>5. CASE AddDone(r)
  <2>1. added' = added \cup {r} /\ UNCHANGED <<pending, parked, faults>>
    BY <1>5 DEF AddDone, AddReached
  <2>2. QED
    BY <1>1, <1>2, <2>1
<1>6. CASE AddRaises(r) /\ ~AddReturns(r)
  <2>1. UNCHANGED <<added, pending, parked>>
    BY <1>6 DEF AddRaises, AddReached
  <2>2. QED
    BY <1>1, <1>2, <1>6, <2>1
<1>7. QED
  BY <1>3, <1>4, <1>5, <1>6 DEF AddReturns

\* What Controller.add leaves behind it.
LEMMA LossAdd ==
  ASSUME IInv, LossInv, Add
  PROVE  LossInv'
<1>1. /\ cur \in Res /\ phase = "add" /\ phase' = "add" /\ cur' = cur + 1
      /\ UNCHANGED <<wf, ready, draining, retrying, broken>>
      /\ \/ AddReturns(cur) /\ errors' = errors
         \/ AddRaises(cur) /\ errors' = TRUE
      /\ errors \in BOOLEAN
  BY DEF Add, Advance, outcome, IInv, TypeOK, ControlOK
<1>2. /\ added \subseteq added' /\ pending \subseteq pending'
      /\ \A p \in Providers : \A x : In(x, parked[p]) => In(x, parked'[p])
      /\ AddReturns(cur) =>
           /\ cur \in added' \/ cur \in pending' \/ In(cur, parked'[Prov(cur)])
           /\ UNCHANGED faults
      /\ Prov(cur) \in Providers
  BY <1>1, AddLands
<1>3. CASE AddRaises(cur) /\ errors' = TRUE
  BY <1>1, <1>3 DEF LossInv, LostIsReported, Accounted
<1>4. CASE AddReturns(cur) /\ errors' = errors
  <2>1. \A r \in Res : r < cur => Accounted(r)'
    BY <1>1, <1>2, <1>4 DEF LossInv, Accounted, Released, faults
  <2>2. \A r \in Res : r = cur => r \in pending' \/ Released(r)'
    BY <1>1, <1>2, <1>4 DEF Released
  <2>3. \A r \in Res : r < cur + 1 => r < cur \/ r = cur
    BY <1>1 DEF Res
  <2>4. QED
    BY <1>1, <2>1, <2>2, <2>3 DEF LossInv, LostIsReported, Accounted
<1>5. QED
  BY <1>1, <1>3, <1>4

\* What is drained is put somewhere; or its loss is an error of this loop.
LEMMA LossDrain ==
  ASSUME IInv, PlaceInv, LossInv, Drain \/ DrainFails
  PROVE  LossInv'
<1> DEFINE p == Prov(cur)
<1>0. Head(draining) \in Res
  BY Membership DEF Drain, DrainFails, IInv, TypeOK, QueuesOK
<1> PICK r \in Res : r = Head(draining)
  BY <1>0
<1>1. /\ step = "drain" /\ draining # <<>> /\ draining \in Seq(Res)
      /\ UNCHANGED <<wf, retrying, broken, phase>>
      /\ ready \in [Providers -> Seq(Res)]
      /\ cur \in Res /\ phase \notin Before /\ p \in Providers
      /\ AddReturns(r) \/ AddRaises(r)
      /\ errors' = errors \/ errors' = TRUE
      /\ errors \in BOOLEAN
  <2>1. /\ step = "drain" /\ cur \in Res /\ phase \notin Before
    BY DEF Drain, DrainFails, IInv, CallInv
  <2>2. p \in Providers
    BY <2>1, Dependencies DEF IInv, TypeOK
  <2>3. errors' = errors \/ errors' = TRUE
    BY DEF Drain, DrainFails, Goto, Advance, IInv, TypeOK, ControlOK
  <2>4. QED
    BY <2>1, <2>2, <2>3 DEF Drain, DrainFails, Goto, Advance, IInv, TypeOK,
                            QueuesOK, ControlOK, outcome
<1>2. /\ added \subseteq added' /\ pending \subseteq pending'
      /\ \A q \in Providers : \A x : In(x, parked[q]) => In(x, parked'[q])
      /\ Prov(r) \in Providers
      /\ AddReturns(r) =>
           /\ r \in added' \/ r \in pending' \/ In(r, parked'[Prov(r)])
           /\ UNCHANGED faults
      /\ AddRaises(r) => Fail(r, "ADD")
  BY <1>1, AddLands
<1>3. \A x : In(x, draining) <=> x = r \/ In(x, Tail(draining))
  BY <1>1, OnceFacts
<1>4. CASE errors' = TRUE
  BY <1>1, <1>4, LossStep DEF Accounted, Before
<1>5. CASE errors' # TRUE
  <2>1. draining' = Tail(draining) /\ errors' = errors
    BY <1>1, <1>5 DEF Drain, DrainFails, Advance
  <2>2. \/ ready' = ready /\ AddReturns(r)
        \/ ready' = [ready EXCEPT ![p] = Append(ready[p], r)] /\ AddRaises(r)
    BY DEF Drain, DrainFails
  <2>3. /\ \A q \in Providers : \A x : In(x, ready[q]) => In(x, ready'[q])
        /\ r \in pending' \/ Released(r)'
    <3>1. CASE ready' = ready /\ AddReturns(r)
      BY <1>1, <1>2, <3>1 DEF Released
    <3>2. CASE ready' = [ready EXCEPT ![p] = Append(ready[p], r)] /\ AddRaises(r)
      <4>1. \A x : In(x, Append(ready[p], r)) <=> In(x, ready[p]) \/ x = r
        BY <1>1, OnceFacts
      <4>2. In(r, ready'[p]) /\ \A q \in Providers : \A x : In(x, ready[q]) => In(x, ready'[q])
        BY <1>1, <3>2, <4>1
      <4>3. QED
        BY <1>1, <4>2 DEF Released
    <3>3. QED
      BY <2>2, <3>1, <3>2
  <2>4. \A x \in Res : x \in pending \/ Released(x) => x \in pending' \/ Released(x)'
    BY <1>1, <1>2, <1>3, <2>1, <2>3 DEF Released
  <2>5. \A x \in Res : x # r => failedCount'[x] = failedCount[x]
    <3>1. failedCount \in [Res -> Nat]
      BY DEF IInv, TypeOK, FaultsOK
    <3>2. QED
      BY <1>1, <1>2, <3>1 DEF Fail, faults
  <2>6. \A x \in Res : Recorded(x) => Accounted(x)'
    <3>1. \A x \in Res : x # r /\ Recorded(x) => Recorded(x)'
      BY <1>1, <2>1, <2>5 DEF Recorded
    <3>2. \A x \in Res : Recorded(x)' => Accounted(x)'
      BY DEF Recorded, Accounted
    <3>3. \A x \in Res : x = r => x \in pending' \/ Released(x)'
      BY <2>3
    <3>4. QED
      BY <3>1, <3>2, <3>3 DEF Accounted
  <2>7. QED
    BY <1>1, <2>4, <2>6, LossStep DEF Accounted, Before
<1>6. QED
  BY <1>4, <1>5

\* A step that keeps every record, and loses no resource.
LEMMA LossMove ==
  ASSUME LossInv, phase \notin Before, UNCHANGED <<phase, errors, broken, failedCount>>,
         \A x \in Res : x \in pending \/ Released(x) => x \in pending' \/ Released(x)'
  PROVE  LossInv'
<1>1. \A x \in Res : /\ Recorded(x) => Accounted(x)'
                     /\ x \in pending \/ Released(x) => Accounted(x)'
  BY DEF Recorded, Accounted
<1>2. QED
  BY <1>1, LossStep DEF Before

\* A second attempt that raises is counted: no instance of the resource is there.
LEMMA LossRetry ==
  ASSUME IInv, PlaceInv, MadeInv, LossInv, Retry
  PROVE  LossInv'
<1>0. Head(retrying) \in Res
  BY Membership DEF Retry, IInv, TypeOK, QueuesOK
<1> PICK r \in Res : r = Head(retrying)
  BY <1>0
<1>1. /\ retrying \in Seq(Res) /\ retrying # <<>> /\ retrying' = Tail(retrying)
      /\ AddReturns(r) \/ AddRaises(r)
      /\ UNCHANGED <<wf, ready, draining, made, phase, errors, broken>>
      /\ phase \notin Before
  BY DEF Retry, Goto, outcome, IInv, TypeOK, QueuesOK, CallInv
<1>2. /\ added \subseteq added' /\ pending \subseteq pending'
      /\ \A q \in Providers : \A x : In(x, parked[q]) => In(x, parked'[q])
      /\ AddReturns(r) =>
           /\ r \in added' \/ r \in pending' \/ In(r, parked'[Prov(r)])
           /\ UNCHANGED faults
      /\ AddRaises(r) => Fail(r, "ADD")
      /\ Prov(r) \in Providers
  BY <1>1, AddLands
<1>3. \A x : In(x, retrying) <=> x = r \/ In(x, Tail(retrying))
  BY <1>1, OnceFacts
<1>4. \A x \in Res \ {r} : x \in pending \/ Released(x) => x \in pending' \/ Released(x)'
  BY <1>1, <1>2, <1>3 DEF Released
<1>5. CASE AddReturns(r)
  <2>1. UNCHANGED failedCount
    BY <1>2, <1>5 DEF faults
  <2>2. r \in pending' \/ Released(r)'
    BY <1>2, <1>5 DEF Released
  <2>3. QED
    BY <1>1, <1>4, <2>1, <2>2, LossMove
<1>6. CASE AddRaises(r)
  <2>1. made[r] = 0
    <3>1. In(r, retrying)
      BY <1>3
    <3>2. r \notin added
      BY <3>1 DEF PlaceInv, AloneInv, Alone, Waiting
    <3>3. made[r] \in Nat
      BY DEF IInv, TypeOK, ValuesOK
    <3>4. QED
      BY <3>2, <3>3 DEF MadeInv
  <2>2. failedCount \in [Res -> Nat] /\ Count(r) \in Nat \ {0}
    BY Dependencies DEF IInv, TypeOK, FaultsOK
  <2>3. failedCount' = [failedCount EXCEPT ![r] = Count(r) - made[r]]
    BY <1>2, <1>6 DEF Fail
  <2>4. failedCount'[r] > 0
    BY <2>1, <2>2, <2>3
  <2>5. \A x \in Res \ {r} : failedCount'[x] = failedCount[x]
    BY <2>2, <2>3
  <2>6. Accounted(r)'
    BY <2>4 DEF Accounted
  <2>7. \A x \in Res \ {r} : /\ Recorded(x) => Accounted(x)'
                             /\ x \in pending \/ Released(x) => Accounted(x)'
    BY <1>1, <1>4, <2>5 DEF Recorded, Accounted
  <2>8. QED
    BY <1>1, <2>6, <2>7, LossStep DEF Before
<1>7. QED
  BY <1>1, <1>5, <1>6

\* What is taken from a queue is in the temporary list, which was empty.
LEMMA LossTake ==
  ASSUME IInv, PlaceInv, LossInv, EnterCreate \/ StartRetry
  PROVE  LossInv'
<1> DEFINE p == Prov(cur)
<1>0. /\ \A x : ~In(x, <<>>)
      /\ ready \in [Providers -> Seq(Res)] /\ parked \in [Providers -> Seq(Res)]
  BY DEF In, IInv, TypeOK, QueuesOK
<1>1. CASE EnterCreate
  <2>1. /\ draining = <<>> /\ draining' = ready[p]
        /\ ready' = [ready EXCEPT ![p] = <<>>]
        /\ UNCHANGED <<added, pending, parked, retrying, phase, errors, broken, failedCount>>
        /\ phase \notin Before
    BY <1>1 DEF EnterCreate, Goto, faults, outcome, PlaceInv, ListInv, Creating, Before
  <2>2. \A q \in Providers : \A x : In(x, ready[q]) => In(x, ready'[q]) \/ In(x, draining')
    BY <1>0, <2>1
  <2>3. \A x \in Res : x \in pending \/ Released(x) => x \in pending' \/ Released(x)'
    BY <1>0, <2>1, <2>2 DEF Released
  <2>4. QED
    BY <2>1, <2>3, LossMove
<1>2. CASE StartRetry
  <2>1. /\ retrying = <<>> /\ retrying' = parked[p]
        /\ parked' = [parked EXCEPT ![p] = <<>>]
        /\ UNCHANGED <<added, pending, ready, draining, phase, errors, broken, failedCount>>
        /\ phase \notin Before
    BY <1>2 DEF StartRetry, Goto, faults, outcome, PlaceInv, ListInv, IInv, CallInv
  <2>2. \A q \in Providers : \A x : In(x, parked[q]) => In(x, parked'[q]) \/ In(x, retrying')
    BY <1>0, <2>1
  <2>3. \A x \in Res : x \in pending \/ Released(x) => x \in pending' \/ Released(x)'
    BY <1>0, <2>1, <2>2 DEF Released
  <2>4. QED
    BY <2>1, <2>3, LossMove
<1>3. QED
  BY <1>1, <1>2

\* What leaves pending is ready.
LEMMA LossHear ==
  ASSUME IInv, LossInv, NEW r \in Res, OnCreated(r)
  PROVE  LossInv'
<1>1. /\ UNCHANGED <<added, parked, draining, retrying, phase, errors, broken, failedCount>>
      /\ ready \in [Providers -> Seq(Res)] /\ Prov(r) \in Providers
      /\ phase \notin Before
  BY Dependencies DEF OnCreated, control, faults, outcome, IInv, TypeOK, QueuesOK, CallInv
<1>2. CASE UNCHANGED <<pending, ready>>
  <2>1. \A x \in Res : x \in pending \/ Released(x) => x \in pending' \/ Released(x)'
    BY <1>1, <1>2 DEF Released
  <2>2. QED
    BY <1>1, <2>1, LossMove
<1>3. CASE /\ pending' = pending \ {r}
           /\ ready' = [ready EXCEPT ![Prov(r)] = Append(ready[Prov(r)], r)]
  <2>1. \A x : In(x, Append(ready[Prov(r)], r)) <=> In(x, ready[Prov(r)]) \/ x = r
    BY <1>1, OnceFacts
  <2>2. /\ In(r, ready'[Prov(r)])
        /\ \A q \in Providers : \A x : In(x, ready[q]) => In(x, ready'[q])
    BY <1>1, <1>3, <2>1
  <2>3. \A x \in Res : x \in pending \/ Released(x) => x \in pending' \/ Released(x)'
    BY <1>1, <1>3, <2>2 DEF Released
  <2>4. QED
    BY <1>1, <2>3, LossMove
<1>4. QED
  BY <1>2, <1>3 DEF OnCreated

\* The steps that move no resource: what they forget is empty, or they record
\* a failure; and Controller.add hands over when it has been through them all.
LEMMA LossOthers ==
  ASSUME IInv, PlaceInv, LossInv,
         \/ Validate \/ PlanFails \/ PlanInterrupted \/ EndPhase \/ PhaseRaises
         \/ Test \/ Skip \/ EndRetry \/ EndDrain \/ MakeOne \/ EndCall \/ CallFails
         \/ EnterWait \/ Interrupt \/ Save \/ UNCHANGED vars
  PROVE  LossInv'
<1> DEFINE After == {"first", "rest", "wait", "test", "service", "save"}
<1>0. \A x \in Res : Recorded(x) => Accounted(x)
  BY DEF Recorded, Accounted
<1>1. CASE Validate
  <2>1. phase' = "validate"
    BY <1>1 DEF Validate, Advance
  <2>2. QED
    BY <2>1 DEF LossInv, LostIsReported
<1>2. CASE PlanFails \/ PlanInterrupted \/ Save
  <2>1. phase' = "exit"
    BY <1>2 DEF PlanFails, PlanInterrupted, Quit, Save
  <2>2. QED
    BY <2>1 DEF LossInv, LostIsReported
<1>3. CASE PhaseRaises \/ Interrupt
  <2>1. broken' = TRUE /\ phase' = "save"
    BY <1>3 DEF PhaseRaises, Interrupt
  <2>2. QED
    BY <2>1 DEF LossInv, LostIsReported, Accounted
<1>4. CASE CallFails
  <2>1. errors' = TRUE /\ phase' = phase /\ phase \notin Before
    BY <1>4 DEF CallFails, Advance, IInv, CallInv, TypeOK, ControlOK
  <2>2. QED
    BY <2>1 DEF LossInv, LostIsReported, Accounted, Before
<1>5. CASE Test
  <2>1. /\ UNCHANGED <<errors, queues, faults>> /\ phase = "test"
        /\ phase' \in {"service", "save"}
    BY <1>5 DEF Test
  <2>2. (phase' = "service" /\ UNCHANGED broken) \/ (phase' = "save" /\ broken' = TRUE)
    BY <1>5 DEF Test
  <2>3. CASE phase' = "save" /\ broken' = TRUE
    BY <2>1, <2>3 DEF LossInv, LostIsReported, Accounted
  <2>4. CASE phase' = "service" /\ UNCHANGED broken
    BY <2>1, <2>4 DEF LossInv, LostIsReported, Accounted, Released, queues, faults
  <2>5. QED
    BY <2>2, <2>3, <2>4
<1>6. CASE EndPhase
  <2>1. /\ UNCHANGED <<errors, queues, faults, broken>> /\ cur = N + 1 /\ cur' = 1
        /\ phase' = NextPhase
        /\ phase \in {"validate", "add", "first", "rest", "wait", "service"}
    BY <1>6 DEF EndPhase, outcome
  <2>2. \A x \in Res : Accounted(x) => Accounted(x)'
    BY <2>1 DEF Accounted, Released, queues, faults
  <2>3. CASE phase = "validate"
    <3>1. phase' = "add" /\ \A x \in Res : ~(x < cur')
      BY <2>1, <2>3, WorkflowAssumption DEF NextPhase, Res
    <3>2. QED
      BY <3>1 DEF LossInv, LostIsReported
  <2>4. CASE phase = "add"
    <3>1. phase' = "first" /\ \A x \in Res : x < cur
      BY <2>1, <2>4, WorkflowAssumption DEF NextPhase, Res
    <3>2. QED
      BY <2>2, <2>4, <3>1 DEF LossInv, LostIsReported, Accounted
  <2>5. CASE phase \in {"first", "rest", "wait", "service"}
    <3>1. phase' # "add" /\ \A x \in Res : Accounted(x)
      BY <2>1, <2>5 DEF NextPhase, LossInv, LostIsReported, Accounted
    <3>2. QED
      BY <2>2, <3>1 DEF LossInv, LostIsReported, Accounted
  <2>6. QED
    BY <2>1, <2>3, <2>4, <2>5
<1>7. CASE Skip \/ EndRetry \/ EndDrain \/ MakeOne \/ EndCall \/ EnterWait
  <2>1. /\ UNCHANGED <<queues, faults, phase, broken>> /\ phase \notin Before
        /\ errors' = errors
    BY <1>7 DEF Skip, EndRetry, EndDrain, MakeOne, EndCall, EnterWait, Advance, Goto,
       outcome, control, IInv, CallInv, TypeOK, ControlOK, Before
  <2>2. \A x \in Res : x \in pending \/ Released(x) => x \in pending' \/ Released(x)'
    BY <2>1 DEF Released, queues
  <2>3. QED
    BY <2>1, <2>2, LossMove DEF faults
<1>8. CASE UNCHANGED vars
  BY <1>8 DEF vars, control, queues, faults, outcome, LossInv, LostIsReported,
              Accounted, Released
<1>9. QED
  BY <1>1, <1>2, <1>3, <1>4, <1>5, <1>6, <1>7, <1>8

\* LossInv is inductive.
LEMMA LossNext ==
  ASSUME IInv, PlaceInv, MadeInv, LossInv, [Next]_vars
  PROVE  LossInv'
<1>1. CASE Terminated
  BY <1>1, LossOthers DEF Terminated
<1>2. QED
  BY <1>1, LossAdd, LossDrain, LossRetry, LossTake, LossHear, LossOthers DEF Next

\* Whatever create_resource loses, the command does not report success: for any
\* workflow, any failing calls and an interrupt at any point.
THEOREM LostIsReportedHolds == Spec => []LostIsReported
<1>1. Init => MadeInv /\ LossInv
  BY DEF Init, MadeInv, LossInv, LostIsReported
<1>2. IInv /\ PlaceInv /\ MadeInv /\ LossInv /\ [Next]_vars => MadeInv' /\ LossInv'
  BY MadeStep, LossNext
<1>3. LossInv => LostIsReported
  BY DEF LossInv
<1>4. QED
  BY <1>1, <1>2, <1>3, Invariant, PlaceInvariant, PTL DEF Spec
-----------------------------------------------------------------------------
(***************************************************************************)
(* CleanExit. A failure that is put on record stays there (CleanBack), so  *)
(* a command that ends with status 0 had none (Clean). Then no resource is *)
(* lost (LiveInv), and none waits for what nobody will ever provide:       *)
(* Hopeless is for good and shows at the end (HopelessStays). Otherwise    *)
(* the lists of parked resources keep the order of the workflow (OrderInv) *)
(* and whatever is not excused is added before its turn and created by the *)
(* end of it (TurnInv).                                                    *)
(***************************************************************************)

\* A set of naturals that is not empty has a least element.
LEMMA Least ==
  ASSUME NEW S \in SUBSET Nat, S # {}
  PROVE  \E n \in S : \A m \in S : n <= m
<1>1. PICK x \in S : \A y \in S : ~ (<<y, x>> \in OpToRel(<, Nat))
  BY NatLessThanWellFounded, WFMin
<1>2. \A y \in S : ~(y < x)
  BY <1>1 DEF OpToRel
<1>3. QED
  BY <1>2

\* Within(r) is closed under the dependencies on the same provider, and the
\* smallest such set that holds those of r.
LEMMA WithinLeast ==
  ASSUME WellFormed(wf), NEW r \in Res
  PROVE  /\ Within(r) \subseteq Res
         /\ IntDeps(r) \subseteq Within(r)
         /\ \A d \in Within(r) : IntDeps(d) \subseteq Within(r)
         /\ \A S \in SUBSET Res :
              IntDeps(r) \subseteq S /\ (\A x \in S : IntDeps(x) \subseteq S)
                => Within(r) \subseteq S
<1>1. \A x \in Res : IntDeps(x) \subseteq Res
  BY Dependencies
<1>2. Within(r) \subseteq Res
  BY DEF Within
<1>3. IntDeps(r) \subseteq Within(r)
  BY <1>1 DEF Within
<1>4. \A S \in SUBSET Res :
        IntDeps(r) \subseteq S /\ (\A x \in S : IntDeps(x) \subseteq S)
          => Within(r) \subseteq S
  BY DEF Within
<1>5. ASSUME NEW d \in Within(r), NEW y \in IntDeps(d)
      PROVE  y \in Within(r)
  <2>1. y \in Res
    BY <1>1, <1>2, <1>5
  <2>2. ASSUME NEW S \in SUBSET Res, IntDeps(r) \subseteq S,
               \A x \in S : IntDeps(x) \subseteq S
        PROVE  y \in S
    BY <1>4, <1>5, <2>2
  <2>3. QED
    BY <2>1, <2>2 DEF Within
<1>6. QED
  BY <1>2, <1>3, <1>4, <1>5

\* What r depends on within its provider comes before it and is needed by
\* r or by something else in between.
LEMMA WithinFacts ==
  ASSUME WellFormed(wf), NEW r \in Res
  PROVE  /\ \A d \in Within(r) : d \in Res /\ Prov(d) = Prov(r) /\ d < r
         /\ \A d \in Within(r) : Within(d) \subseteq Within(r)
         /\ \A d \in Within(r) : \E y \in {r} \cup Within(r) : d \in IntDeps(y)
<1>1. /\ Within(r) \subseteq Res
      /\ IntDeps(r) \subseteq Within(r)
      /\ \A d \in Within(r) : IntDeps(d) \subseteq Within(r)
      /\ \A S \in SUBSET Res :
           IntDeps(r) \subseteq S /\ (\A x \in S : IntDeps(x) \subseteq S)
             => Within(r) \subseteq S
  BY WithinLeast
<1>2. \A x \in Res : \A d \in IntDeps(x) : d \in Res /\ Prov(d) = Prov(x) /\ d < x
  BY WorkflowAssumption DEF WellFormed, WorkflowType, IntDeps, Internal, Prov, Res
<1>3. Within(r) \subseteq {d \in Res : Prov(d) = Prov(r) /\ d < r}
  <2>1. \A x, y, z \in Res : x < y /\ y < z => x < z
    BY WorkflowAssumption DEF Res
  <2>2. QED
    BY <1>1, <1>2, <2>1
<1>4. \A d \in Within(r) : Within(d) \subseteq Within(r)
  <2>1. ASSUME NEW d \in Within(r)
        PROVE  Within(d) \subseteq Within(r)
    <3>1. /\ d \in Res /\ Within(r) \in SUBSET Res
          /\ IntDeps(d) \subseteq Within(r)
          /\ \A x \in Within(r) : IntDeps(x) \subseteq Within(r)
      BY <1>1
    <3>2. QED
      BY <3>1, WithinLeast
  <2>2. QED
    BY <2>1
<1>5. Within(r) \subseteq {d \in Within(r) : \E y \in {r} \cup Within(r) : d \in IntDeps(y)}
  <2> DEFINE S == {d \in Within(r) : \E y \in {r} \cup Within(r) : d \in IntDeps(y)}
  <2>1. S \in SUBSET Res /\ IntDeps(r) \subseteq S
    BY <1>1
  <2>2. \A x \in S : IntDeps(x) \subseteq S
    BY <1>1
  <2>3. QED
    BY <1>1, <2>1, <2>2
<1>6. QED
  BY <1>3, <1>4, <1>5

\* r and what it depends on within its provider.
Chain(r) == {r} \cup Within(r)

\* Everything on the chain of r is before its end; chains are nested.
LEMMA ChainFacts ==
  ASSUME WellFormed(wf), NEW r \in Res
  PROVE  /\ r \in Chain(r)
         /\ \A d \in Chain(r) : /\ d \in Res /\ Prov(d) = Prov(r) /\ d <= r
                                /\ Chain(d) \subseteq Chain(r)
                                /\ IntDeps(d) \subseteq Chain(r)
         /\ \A d \in Chain(r) : d = r \/ \E y \in Chain(r) : d \in IntDeps(y)
<1>1. r \in Nat
  BY WorkflowAssumption DEF Res
<1>2. /\ IntDeps(r) \subseteq Within(r)
      /\ \A d \in Within(r) : IntDeps(d) \subseteq Within(r)
  BY WithinLeast
<1>3. \A d \in Within(r) : d \in Nat /\ d \in Res /\ Prov(d) = Prov(r) /\ d < r
  BY WithinFacts, WorkflowAssumption DEF Res
<1>4. /\ \A d \in Within(r) : Within(d) \subseteq Within(r)
      /\ \A d \in Within(r) : \E y \in {r} \cup Within(r) : d \in IntDeps(y)
  BY WithinFacts
<1>5. \A d \in Chain(r) : d <= r
  BY <1>1, <1>3 DEF Chain
<1>6. QED
  BY <1>2, <1>3, <1>4, <1>5 DEF Chain

\* What holds up a resource holds up everything above it on its provider.
LEMMA HeldUp ==
  ASSUME WellFormed(wf), NEW r \in Res, NEW d \in Chain(r)
  PROVE  /\ Unsettled(d) => Unsettled(r)
         /\ Waits(d) => Waits(r)
         /\ ReadsLate(d) => Unsettled(r)
         /\ Overtaken(d) => Unsettled(r)
<1>1. Chain(d) \subseteq Chain(r)
  BY ChainFacts
<1>2. QED
  BY <1>1 DEF Unsettled, Waits, Chain
-----------------------------------------------------------------------------
(***************************************************************************)
(* A run of the command without failures.                                  *)
(***************************************************************************)

\* What has been proved so far.
Known == IInv /\ PlaceInv /\ MadeInv /\ LossInv

Applying == {"first", "rest", "wait", "test", "service"}

\* Nothing has gone wrong.
Clean == ~errors /\ ~broken /\ \A r \in Res : failedCount[r] = 0

\* A loop goes on, or the next one begins, with no call in progress.
Onward ==
  /\ step' = step
  /\ \/ /\ phase \in {"validate", "first", "rest", "wait", "service"} /\ step = "idle"
        /\ cur \in Res \ Selected(phase) /\ cur' = cur + 1 /\ phase' = phase
        /\ UNCHANGED outcome
     \/ EndPhase
     \/ /\ phase = "test" /\ phase' = "service" /\ cur' = cur
        /\ UNCHANGED outcome

\* The steps that move the control and nothing else, when nothing goes wrong.
Moves ==
  /\ UNCHANGED <<wf, queues, values>>
  /\ \/ Onward \/ PlanInterrupted \/ EndRetry \/ EndDrain \/ EndCall
     \/ EnterWait \/ Save \/ UNCHANGED vars

\* The steps of a run in which nothing goes wrong.
CleanNext ==
  \/ Moves
  \/ Add /\ AddReturns(cur) /\ cur' = cur + 1 /\ phase' = phase /\ step' = "idle"
  \/ EnterCreate \/ Drain \/ StartRetry
  \/ Retry /\ AddReturns(Head(retrying))
  \/ MakeOne \/ \E r \in Res : OnCreated(r)

\* A failure is put on record and stays there.
LEMMA CleanBack ==
  ASSUME Known, [Next]_vars, Clean'
  PROVE  Clean /\ wf' = wf /\ CleanNext
<1>1. /\ errors \in BOOLEAN /\ broken \in BOOLEAN
      /\ failedCount \in [Res -> Nat] /\ made \in [Res -> Nat]
      /\ \A r \in Res : Count(r) \in Nat \ {0} /\ made[r] <= Count(r)
  BY Dependencies DEF Known, IInv, TypeOK, ControlOK, FaultsOK, ValuesOK, CountInv
<1>2. ASSUME NEW r \in Res, AddRaises(r), r \notin added
      PROVE  FALSE
  <2>1. made[r] = 0
    BY <1>1, <1>2 DEF Known, MadeInv
  <2>2. failedCount'[r] = Count(r)
    BY <1>1, <1>2, <2>1 DEF AddRaises, Fail
  <2>3. QED
    BY <1>1, <2>2 DEF Clean
<1>3. CASE Add
  <2>1. cur \in Res /\ cur \notin added
    BY <1>3 DEF Add, Known, PlaceInv, FreshInv, Fresh, Res
  <2>2. AddReturns(cur) /\ Advance(FALSE)
    <3>1. PICK r \in Res : r = cur
      BY <2>1
    <3>2. QED
      BY <1>2, <1>3, <2>1, <3>1 DEF Add
  <2>3. UNCHANGED <<wf, faults, broken>> /\ errors' = (errors \/ FALSE)
    <3>1. AddReturns(cur) => UNCHANGED faults
      BY DEF AddReturns, AddPending, AddParked, AddDone, AddReached
    <3>2. QED
      BY <1>3, <2>2, <3>1 DEF Add, Advance, outcome
  <2>4. QED
    BY <1>1, <1>3, <2>2, <2>3 DEF Clean, CleanNext, Advance, faults
<1>4. CASE Drain \/ Retry
  <2>1. Head(draining) \in Res \/ Head(retrying) \in Res
    BY <1>4, Membership DEF Drain, Retry, Known, IInv, TypeOK, QueuesOK
  <2>2. Drain \/ (Retry /\ AddReturns(Head(retrying)))
    <3>1. SUFFICES ASSUME Retry
                   PROVE  AddReturns(Head(retrying))
      BY <1>4
    <3>2. Head(retrying) \in Res /\ In(Head(retrying), retrying)
      BY <3>1, Membership DEF Retry, Known, IInv, TypeOK, QueuesOK
    <3>3. PICK r \in Res : r = Head(retrying) /\ In(r, retrying)
      BY <3>2
    <3>4. r \notin added
      BY <3>3 DEF Known, PlaceInv, AloneInv, Alone, Waiting
    <3>5. ~AddRaises(r)
      BY <1>2, <3>4
    <3>6. QED
      BY <3>1, <3>3, <3>5 DEF Retry
  <2>3. UNCHANGED <<wf, faults, broken, errors>>
    <3>1. \A r : AddReturns(r) => UNCHANGED faults
      BY DEF AddReturns, AddPending, AddParked, AddDone, AddReached
    <3>2. QED
      BY <2>2, <3>1 DEF Drain, Retry, outcome, Goto
  <2>4. QED
    BY <2>2, <2>3 DEF Clean, CleanNext, faults
<1>5. CASE DrainFails
  <2>1. Head(draining) \in Res /\ In(Head(draining), draining) /\ AddRaises(Head(draining))
    BY <1>5, Membership DEF DrainFails, Known, IInv, TypeOK, QueuesOK
  <2>2. PICK r \in Res : r = Head(draining) /\ In(r, draining)
    BY <2>1
  <2>3. r \notin added
    BY <2>2 DEF Known, PlaceInv, AloneInv, Alone, Waiting
  <2>4. QED
    BY <1>2, <2>1, <2>2, <2>3
<1>6. CASE CallFails
  <2>1. errors' = TRUE
    BY <1>1, <1>6 DEF CallFails, Advance
  <2>2. QED
    BY <2>1 DEF Clean
<1>7. CASE PhaseRaises \/ Interrupt
  <2>1. broken' = TRUE
    BY <1>7 DEF PhaseRaises, Interrupt
  <2>2. QED
    BY <2>1 DEF Clean
<1>8. CASE Validate \/ PlanFails \/ Skip
  <2>1. ~PlanFails
    BY DEF PlanFails, Quit, Clean
  <2>2. Advance(FALSE) /\ step = "idle" /\ phase \in {"validate", "first", "rest", "wait", "service"}
    <3>1. CASE Validate
      <4>1. ~Advance(TRUE)
        BY <1>1 DEF Advance, Clean
      <4>2. QED
        BY <3>1, <4>1 DEF Validate
    <3>2. QED
      BY <1>8, <2>1, <3>1 DEF Skip
  <2>3. cur \in Res \ Selected(phase)
    BY <1>8, <2>1 DEF Validate, Skip, Selected
  <2>4. UNCHANGED <<wf, queues, values, failedCount, outcome>>
    BY <1>8, <2>1 DEF Validate, Skip, faults
  <2>5. errors' = (errors \/ FALSE) /\ phase' = phase /\ step' = "idle" /\ cur' = cur + 1
    BY <2>2 DEF Advance
  <2>6. Onward
    BY <2>2, <2>3, <2>4, <2>5 DEF Onward
  <2>7. Clean
    BY <1>1, <2>4, <2>5 DEF Clean, outcome
  <2>8. QED
    BY <2>4, <2>6, <2>7 DEF CleanNext, Moves
<1>9. CASE Test
  <2>1. phase' = "service" /\ UNCHANGED broken
    BY <1>9 DEF Test, Clean
  <2>2. UNCHANGED <<wf, cur, step, errors, queues, values, faults, exit>> /\ phase = "test"
    BY <1>9 DEF Test
  <2>3. QED
    BY <2>1, <2>2 DEF Clean, CleanNext, Moves, Onward, faults, outcome
<1>10. CASE \/ PlanInterrupted \/ EndPhase \/ EnterCreate \/ StartRetry \/ EndRetry
            \/ EndDrain \/ MakeOne \/ (\E r \in Res : OnCreated(r)) \/ EndCall
            \/ EnterWait \/ Save \/ UNCHANGED vars
  <2>1. wf' = wf
    BY <1>10 DEF PlanInterrupted, Quit, EndPhase, EnterCreate, StartRetry, EndRetry,
       EndDrain, MakeOne, OnCreated, EndCall, EnterWait, Save, vars
  <2>2. UNCHANGED faults
    BY <1>10 DEF PlanInterrupted, Quit, EndPhase, EnterCreate, StartRetry, EndRetry,
       EndDrain, MakeOne, OnCreated, EndCall, EnterWait, Save, vars
  <2>3. UNCHANGED broken
    BY <1>10 DEF PlanInterrupted, Quit, EndPhase, EnterCreate, StartRetry, EndRetry,
       EndDrain, MakeOne, OnCreated, EndCall, EnterWait, Save, vars, outcome
  <2>4. errors' = errors
    BY <1>1, <1>10 DEF PlanInterrupted, Quit, EndPhase, EnterCreate, StartRetry, EndRetry,
       EndDrain, MakeOne, OnCreated, EndCall, EnterWait, Save, vars, Advance, Goto, control
  <2>5. Clean
    BY <2>2, <2>3, <2>4 DEF Clean, faults
  <2>6. CleanNext
    <3>1. CASE EndPhase
      BY <3>1 DEF EndPhase, CleanNext, Moves, Onward
    <3>2. CASE \/ PlanInterrupted \/ EndRetry \/ EndDrain \/ EndCall
               \/ EnterWait \/ Save \/ UNCHANGED vars
      <4>1. UNCHANGED <<wf, queues, values>>
        BY <3>2 DEF PlanInterrupted, Quit, EndRetry,
           EndDrain, EndCall, EnterWait, Save, vars
      <4>2. QED
        BY <3>2, <4>1 DEF CleanNext, Moves
    <3>3. QED
      BY <1>10, <3>1, <3>2 DEF CleanNext
  <2>7. QED
    BY <2>1, <2>5, <2>6
<1>11. CASE Terminated
  BY <1>10, <1>11 DEF Terminated
<1>12. QED
  BY <1>3, <1>4, <1>5, <1>6, <1>7, <1>8, <1>9, <1>10, <1>11 DEF Next
\* What is derived from the workflow alone is as fixed as the workflow.
LEMMA StillSo ==
  ASSUME wf' = wf
  PROVE  /\ \A ph : Selected(ph)' = Selected(ph)
         /\ NonServices' = NonServices
         /\ \A r : /\ Within(r)' = Within(r)
                   /\ Waits(r)' = Waits(r)
                   /\ Unsettled(r)' = Unsettled(r)
                   /\ Excused(r)' = Excused(r)
<1>1. /\ \A r : ExtDeps(r)' = ExtDeps(r) /\ IntDeps(r)' = IntDeps(r)
      /\ Res' = Res
  BY Frozen DEF Res
<1>2. NonServices' = NonServices
  BY DEF NonServices, IsService, Res
<1>3. CreateAndWait' = CreateAndWait
  BY <1>1, <1>2 DEF CreateAndWait
<1>4. \A ph : Selected(ph)' = Selected(ph)
  BY <1>1, <1>2, <1>3 DEF Selected
<1>5. ASSUME NEW r
      PROVE  /\ Within(r)' = Within(r)
             /\ Waits(r)' = Waits(r)
             /\ Unsettled(r)' = Unsettled(r)
             /\ Excused(r)' = Excused(r)
  <2>1. \A x : Within(x)' = Within(x)
    BY <1>1 DEF Within
  <2>2. \A x : Waits(x)' = Waits(x)
    BY <1>1, <2>1 DEF Waits
  <2>3. \A x : Overtaken(x)' = Overtaken(x)
    BY <1>1, <2>2 DEF Overtaken
  <2>4. \A x : ReadsLate(x)' = ReadsLate(x)
    BY <1>1 DEF ReadsLate
  <2>5. \A x : Unsettled(x)' = Unsettled(x)
    BY <2>1, <2>3, <2>4 DEF Unsettled
  <2>6. Excused(r)' = Excused(r)
    BY <1>2, <2>1, <2>5 DEF Excused, IsService
  <2>7. QED
    BY <2>1, <2>2, <2>5, <2>6
<1>6. QED
  BY <1>2, <1>4, <1>5

\* A call is in progress only for a resource the phase works on, and in the
\* phases that make such calls.
CallAt ==
  /\ step \in {"drain", "added", "retry", "create"} =>
       phase \in Creating /\ cur \in Selected(phase)
  /\ step = "await" => phase \in {"first", "wait"} /\ cur \in Selected(phase)

\* Whatever goes wrong, a call is where it belongs.
LEMMA CallAtStep ==
  ASSUME Known, CallAt, [Next]_vars
  PROVE  CallAt'
<1>0. step \in Steps
  BY DEF Known, IInv, TypeOK, ControlOK
<1>1. ASSUME step' = "idle"
      PROVE  CallAt'
  BY <1>1 DEF CallAt
<1>2. CASE \/ Validate \/ Add \/ Skip \/ CallFails \/ Interrupt
           \/ PlanFails \/ PlanInterrupted \/ EndPhase \/ PhaseRaises \/ Test \/ Save
  <2>1. step' = "idle"
    BY <1>0, <1>2 DEF Validate, Add, Skip, CallFails, Interrupt, PlanFails, PlanInterrupted,
       Quit, EndPhase, PhaseRaises, Test, Save, Advance, Known, IInv, CallInv, Before,
       CallAt, Creating, Steps
  <2>2. QED
    BY <1>1, <2>1
<1>3. CASE \/ EnterCreate \/ Drain \/ StartRetry \/ Retry \/ MakeOne
           \/ EndRetry \/ EnterWait \/ \E r \in Res : OnCreated(r)
  <2>1. phase' = phase /\ cur' = cur /\ wf' = wf
    BY <1>3 DEF EnterCreate, Drain, StartRetry, Retry, EndRetry, EnterWait, MakeOne,
                OnCreated, Goto, control
  <2>2. \A ph : Selected(ph)' = Selected(ph)
    BY <2>1, StillSo
  <2>3. \/ EnterCreate /\ step' = "drain"
        \/ EnterWait /\ step' = "await"
        \/ step' = step
        \/ step' \in {"drain", "added", "retry"} /\ step \in {"drain", "added", "retry"}
    BY <1>3 DEF EnterCreate, Drain, StartRetry, Retry, EndRetry, EnterWait, MakeOne,
                OnCreated, Goto, control
  <2>4. CASE EnterCreate
    BY <2>1, <2>2, <2>4 DEF EnterCreate, Goto, CallAt
  <2>5. CASE EnterWait
    BY <2>1, <2>2, <2>5 DEF EnterWait, Goto, CallAt
  <2>6. QED
    BY <2>1, <2>2, <2>3, <2>4, <2>5 DEF CallAt
<1>4. CASE DrainFails \/ EndDrain \/ EndCall
  <2>1. /\ wf' = wf
        /\ \/ step' = "idle"
           \/ /\ step' \in {"drain", "create"} /\ phase' = phase /\ cur' = cur
              /\ step = "drain"
           \/ /\ step' = "await" /\ phase' = phase /\ cur' = cur
              /\ step \in {"drain", "create"} /\ phase = "first"
    BY <1>4 DEF DrainFails, EndDrain, EndCall, Goto, Advance
  <2>2. \A ph : Selected(ph)' = Selected(ph)
    BY <2>1, StillSo
  <2>3. QED
    BY <2>1, <2>2 DEF CallAt
<1>5. CASE Terminated \/ UNCHANGED vars
  <2>1. UNCHANGED vars
    BY <1>5 DEF Terminated
  <2>2. QED
    BY <2>1, StillSo DEF vars, control, CallAt, Creating
<1>6. QED
  BY <1>2, <1>3, <1>4, <1>5 DEF Next

\* A success is what is left when nothing is.
ErrInv ==
  /\ phase = "test" => ~errors
  /\ phase = "save" /\ errors => broken
  /\ phase = "exit" /\ exit.code = 0 =>
       exit.saved /\ Clean /\ pending = {} /\ \A p \in Providers : parked[p] = <<>>

\* ErrInv is inductive, whatever goes wrong.
LEMMA ErrStep ==
  ASSUME Known, CallAt, ErrInv, [Next]_vars
  PROVE  ErrInv'
<1>0. errors \in BOOLEAN /\ phase \in Phases
  BY DEF Known, IInv, TypeOK, ControlOK
<1>1. CASE PlanFails \/ PlanInterrupted
  <2>1. phase' = "exit" /\ exit'.code = 1
    BY <1>1 DEF PlanFails, PlanInterrupted, Quit
  <2>2. QED
    BY <2>1 DEF ErrInv
<1>2. CASE Save
  <2>1. /\ phase = "save" /\ phase' = "exit" /\ exit'.saved = TRUE
        /\ exit'.code = IF broken \/ SomePending \/ SomeFailed THEN 1 ELSE 0
        /\ UNCHANGED <<errors, queues, faults, broken>>
    BY <1>2 DEF Save
  <2>2. exit'.code = 0 => ~broken /\ ~SomePending /\ ~SomeFailed
    BY <2>1
  <2>3. ~broken /\ ~SomePending /\ ~SomeFailed =>
           Clean /\ pending = {} /\ \A p \in Providers : parked[p] = <<>>
    BY <2>1 DEF ErrInv, Clean, SomePending, SomeFailed
  <2>4. Clean /\ pending = {} /\ (\A p \in Providers : parked[p] = <<>>) =>
          Clean' /\ pending' = {} /\ \A p \in Providers : parked'[p] = <<>>
    BY <2>1 DEF Clean, queues, faults
  <2>5. QED
    BY <2>1, <2>2, <2>3, <2>4 DEF ErrInv
<1>3. CASE Interrupt \/ PhaseRaises
  <2>1. broken' = TRUE /\ phase' = "save"
    BY <1>3 DEF Interrupt, PhaseRaises
  <2>2. QED
    BY <2>1 DEF ErrInv
<1>4. CASE Test
  <2>1. phase' \in {"service", "save"} /\ errors' = errors /\ ~errors
    BY <1>4 DEF Test, ErrInv
  <2>2. QED
    BY <2>1 DEF ErrInv
<1>5. CASE EndPhase
  <2>1. phase' \in Phases \ {"exit"} /\ errors' = errors /\ ~errors
    BY <1>5 DEF EndPhase, NextPhase, Phases
  <2>2. QED
    BY <2>1 DEF ErrInv
<1>6. CASE UNCHANGED vars \/ Terminated
  BY <1>6 DEF vars, Terminated, ErrInv, Clean, control, queues, faults, outcome
<1>7. CASE \/ Validate \/ Add \/ Skip \/ EnterCreate \/ Drain \/ DrainFails
           \/ StartRetry \/ Retry \/ EndRetry \/ EndDrain \/ MakeOne
           \/ (\E r \in Res : OnCreated(r)) \/ EndCall \/ CallFails \/ EnterWait
  <2>1. phase' = phase
    BY <1>7 DEF Validate, Add, Skip, EnterCreate, Drain, DrainFails, StartRetry, Retry,
       EndRetry, EndDrain, MakeOne, OnCreated, EndCall, CallFails, EnterWait,
       Advance, Goto, control
  <2>2. phase \notin {"test", "save", "exit"}
    <3>1. CASE Validate \/ Add \/ Skip \/ EnterCreate \/ EnterWait
      BY <3>1 DEF Validate, Add, Skip, EnterCreate, EnterWait, Creating
    <3>2. CASE \/ Drain \/ DrainFails \/ StartRetry \/ Retry \/ EndRetry \/ EndDrain
               \/ MakeOne \/ (\E r \in Res : OnCreated(r)) \/ EndCall \/ CallFails
      <4>1. step \in {"drain", "added", "retry", "create", "await"}
        BY <3>2 DEF Drain, DrainFails, StartRetry, Retry, EndRetry, EndDrain, MakeOne,
           OnCreated, EndCall, CallFails, Known, IInv, CallInv
      <4>2. QED
        BY <4>1 DEF CallAt, Creating
    <3>3. QED
      BY <1>7, <3>1, <3>2
  <2>3. QED
    BY <2>1, <2>2 DEF ErrInv
<1>8. QED
  BY <1>1, <1>2, <1>3, <1>4, <1>5, <1>6, <1>7 DEF Next
-----------------------------------------------------------------------------
(***************************************************************************)
(* What a clean run has collected.                                         *)
(***************************************************************************)

\* An attribute nobody sets is never resolved.
BlankInv == \A x \in Res : \A d \in wf.blank[x] : got[x][d] = 0

\* What resolving does to the values of one resource and of the others.
LEMMA ResolvedValues ==
  ASSUME TypeOK, NEW r \in Res
  PROVE  /\ \A x \in Res \ {r} : Resolved(r)[x] = got[x]
         /\ \A d \in IntDeps(r) :
              Resolved(r)[r][d] = AtMost(got[r][d] + Visible(r, d), Count(d))
         /\ \A d \in Res \ IntDeps(r) : Resolved(r)[r][d] = got[r][d]
         /\ \A d \in IntDeps(r) : d \in Res /\ got[r][d] \in Nat /\ Count(d) \in Nat \ {0}
         /\ wf.blank[r] \subseteq Res
<1>1. WellFormed(wf) /\ got \in [Res -> [Res -> Nat]]
  BY DEF TypeOK, ValuesOK
<1>2. IntDeps(r) \subseteq Res /\ \A d \in Res : Count(d) \in Nat \ {0}
  BY <1>1, Dependencies
<1>3. Resolved(r) = [got EXCEPT ![r] = [d \in Res |->
                       IF d \in IntDeps(r)
                       THEN AtMost(got[r][d] + Visible(r, d), Count(d))
                       ELSE got[r][d]]]
  BY <1>1 DEF Resolved
<1>4. wf.blank[r] \subseteq Res
  BY <1>1 DEF WellFormed, WorkflowType
<1>5. QED
  BY <1>1, <1>2, <1>3, <1>4

\* BlankInv is inductive.
LEMMA BlankStep ==
  ASSUME IInv, BlankInv, [Next]_vars
  PROVE  BlankInv'
<1>1. /\ WellFormed(wf) /\ got \in [Res -> [Res -> Nat]]
      /\ \A x \in Res : wf.blank[x] \subseteq Res /\ Count(x) \in Nat
  BY Dependencies DEF IInv, TypeOK, ValuesOK, WellFormed, WorkflowType
<1>2. CASE \E r \in Res : (AddReturns(r) \/ AddRaises(r)) /\ wf' = wf
  <2>1. PICK r \in Res : (AddReturns(r) \/ AddRaises(r)) /\ wf' = wf
    BY <1>2
  <2>2. got' \in {got, Resolved(r)}
    BY <2>1 DEF AddReturns, AddRaises, AddPending, AddParked, AddDone, AddReached
  <2>3. \A d \in wf.blank[r] : Resolved(r)[r][d] = 0
    <3>1. SUFFICES ASSUME NEW d \in wf.blank[r], d \in IntDeps(r)
                   PROVE  AtMost(got[r][d] + Visible(r, d), Count(d)) = 0
      BY <1>1, ResolvedValues DEF BlankInv, IInv
    <3>2. got[r][d] = 0 /\ Visible(r, d) = 0 /\ Count(d) \in Nat
      BY <1>1 DEF BlankInv, Visible
    <3>3. QED
      BY <3>2 DEF AtMost
  <2>4. \A x \in Res \ {r} : Resolved(r)[x] = got[x]
    BY ResolvedValues DEF IInv
  <2>5. QED
    BY <2>1, <2>2, <2>3, <2>4 DEF BlankInv
<1>3. CASE UNCHANGED <<wf, added, got>>
  BY <1>3 DEF BlankInv
<1>4. CASE \E r \in Res : OnCreated(r)
  <2>1. PICK r \in Res : OnCreated(r)
    BY <1>4
  <2>2. wf' = wf
    BY <2>1 DEF OnCreated
  <2>3. got' = got \/ (cur \notin wf.blank[r] /\
          got' = [got EXCEPT ![r][cur] = AtMost(@ + 1, Count(cur))])
    BY <2>1 DEF OnCreated
  <2>4. QED
    BY <1>1, <2>2, <2>3 DEF BlankInv
<1>5. QED
  BY <1>2, <1>3, <1>4, WhoIsAdded

\* r is parked: some internal dependency is not resolved to the last object.
ParkedFor(r) == \E d \in IntDeps(r) : Resolved(r)[r][d] # Count(d)

\* What add_resource does, when it returns, with a resource that is nowhere.
LEMMA AddEffects ==
  ASSUME Known, NEW r \in Res, AddReturns(r), wf' = wf
  PROVE  /\ \A x \in Res \ {r} : got'[x] = got[x]
         /\ \/ /\ Blocked(r) /\ pending' = pending \cup {r}
               /\ UNCHANGED <<added, parked, got>>
            \/ /\ ~Blocked(r) /\ ParkedFor(r)
               /\ parked' = [parked EXCEPT ![Prov(r)] = Append(parked[Prov(r)], r)]
               /\ UNCHANGED <<added, pending>>
            \/ /\ ~Blocked(r) /\ added' = added \cup {r}
               /\ UNCHANGED <<pending, parked>>
<1>1. \A x \in Res \ {r} : Resolved(r)[x] = got[x]
  BY ResolvedValues DEF Known, IInv
<1>2. CASE AddPending(r)
  BY <1>2 DEF AddPending
<1>3. CASE AddParked(r)
  <2>1. /\ ~Blocked(r) /\ ~IntFull(Resolved(r), r) /\ got' = Resolved(r)
        /\ parked' = [parked EXCEPT ![Prov(r)] = Append(parked[Prov(r)], r)]
        /\ UNCHANGED <<added, pending>>
    BY <1>3 DEF AddParked
  <2>2. ParkedFor(r)
    BY <2>1 DEF IntFull, ParkedFor
  <2>3. QED
    BY <1>1, <2>1, <2>2
<1>4. CASE AddDone(r)
  <2>1. /\ ~Blocked(r) /\ got' \in {got, Resolved(r)} /\ added' = added \cup {r}
        /\ UNCHANGED <<pending, parked>>
    BY <1>4 DEF AddDone, AddReached
  <2>2. QED
    BY <1>1, <2>1
<1>5. QED
  BY <1>2, <1>3, <1>4 DEF AddReturns

\* A resource that has been waiting is not blocked any more: when it is drained
\* or tried again it is added or parked.
LEMMA Unblocked ==
  ASSUME Known, NEW r \in Res, In(r, draining) \/ In(r, retrying)
  PROVE  ~Blocked(r)
<1>1. ExtFull(r)
  BY DEF Known, IInv, QueueInv, Released
<1>2. \A d \in ExtDeps(r) : d \in Res /\ Count(d) # 0
  BY Dependencies DEF Known, IInv, TypeOK
<1>3. QED
  BY <1>1, <1>2 DEF ExtFull, Blocked
\* What waits for another provider needs something of it.
WaitedInv ==
  \A x \in Res :
    x \in pending \/ In(x, draining) \/ In(x, ready[Prov(x)]) => ExtDeps(x) # {}

\* Nothing is created before the plan is over.
ZeroInv == phase \in Before => \A r \in Res : made[r] = 0

\* create_resource finds the whole list: nothing new is ready until it returns.
ReadyInv == step \in {"drain", "added", "retry"} => ready[Prov(cur)] = <<>>

\* A pending resource has the values of all that is made of what it waits for,
\* but for the instance that is being reported.
PendInv ==
  \A x \in pending : \A e \in ExtDeps(x) \ wf.blank[x] :
    got[x][e] = IF x \in heard /\ e = cur THEN made[e] - 1 ELSE made[e]

\* A resource is pending as long as something is missing, and no longer.
ShortInv == \A x \in pending : ~ExtFull(x)

LiveInv == WaitedInv /\ ZeroInv /\ ReadyInv /\ PendInv /\ ShortInv

\* LiveInv, when only the control moves.
LEMMA LiveMoves ==
  ASSUME Known, CallAt, LiveInv, Moves
  PROVE  LiveInv'
<1>1. /\ UNCHANGED <<wf, added, pending, ready, draining, parked, retrying, heard, got, made>>
      /\ step \in Steps
  BY DEF Moves, queues, values, Known, IInv, TypeOK, ControlOK
<1>2. \A x : ExtDeps(x)' = ExtDeps(x) /\ Prov(x)' = Prov(x) /\ Count(x)' = Count(x)
  BY <1>1, Frozen
<1>3. WaitedInv'
  BY <1>1, <1>2 DEF WaitedInv, LiveInv
<1>4. phase' \in Before => phase \in Before
  BY DEF Moves, Onward, EndPhase, NextPhase, PlanInterrupted, Quit, EndRetry, EndDrain,
     EndCall, EnterWait, Save, vars, control, Goto, Advance, Before
<1>5. ZeroInv'
  BY <1>1, <1>4 DEF ZeroInv, LiveInv
<1>6. \/ step' \in {"idle", "create", "await"}
      \/ step' \in {"drain", "retry", "added"} /\ step \in {"drain", "retry", "added"} /\ cur' = cur
  BY <1>1 DEF Moves, Onward, EndPhase, PlanInterrupted, Quit, EndRetry, EndDrain,
     EndCall, EnterWait, Save, vars, control, Goto, Advance, CallAt, Steps, Creating
<1>7. ReadyInv'
  <2>1. cur' = cur => Prov(cur)' = Prov(cur)
    BY <1>1 DEF Prov
  <2>2. QED
    BY <1>1, <1>6, <2>1 DEF ReadyInv, LiveInv
<1>8. heard = {} \/ cur' = cur
  <2>1. heard # {} => step \in {"create", "await"}
    BY DEF Known, IInv, CallInv
  <2>2. QED
    BY <2>1 DEF Moves, Onward, EndPhase, PlanInterrupted, Quit, EndRetry, EndDrain,
       EndCall, EnterWait, Save, vars, control, Goto, Advance, CallAt, Creating
<1>9. PendInv'
  BY <1>1, <1>2, <1>8 DEF PendInv, LiveInv
<1>10. ShortInv'
  BY <1>1, <1>2 DEF ShortInv, ExtFull, LiveInv
<1>11. QED
  BY <1>3, <1>5, <1>7, <1>9, <1>10 DEF LiveInv

\* LiveInv, when Controller.add reaches a resource.
LEMMA LiveAdd ==
  ASSUME Known, LiveInv, Add, AddReturns(cur), cur' = cur + 1, phase' = phase,
         step' = "idle"
  PROVE  LiveInv'
<1>1. /\ cur \in Res /\ phase = "add" /\ step = "idle"
      /\ UNCHANGED <<wf, ready, draining, retrying, heard, made>>
  BY DEF Add
<1> PICK r \in Res : r = cur
  BY <1>1
<1>2. heard = {}
  BY <1>1 DEF Known, IInv, CallInv
<1>3. \A x : ExtDeps(x)' = ExtDeps(x) /\ Prov(x)' = Prov(x) /\ Count(x)' = Count(x)
  BY <1>1, Frozen
<1>4. /\ \A x \in Res : ExtDeps(x) \subseteq Res
      /\ \A x \in Res : Count(x) \in Nat \ {0}
      /\ pending \subseteq Res
  BY Dependencies DEF Known, IInv, TypeOK, QueuesOK
<1>5. r \notin pending
  BY <1>1 DEF Known, PlaceInv, FreshInv, Fresh, Res
<1>6. /\ \A x \in Res \ {r} : got'[x] = got[x]
      /\ \/ pending' = pending
         \/ pending' = pending \cup {r} /\ Blocked(r) /\ got' = got
  BY <1>1, AddEffects
<1>7. \A e \in ExtDeps(r) : got[r][e] = 0 /\ made[e] = 0
  BY <1>1, <1>4 DEF Known, IInv, QuietInv, LiveInv, ZeroInv, Before
<1>8. Blocked(r) => ExtDeps(r) # {}
  BY DEF Blocked
<1>9. WaitedInv'
  BY <1>1, <1>3, <1>6, <1>8 DEF WaitedInv, LiveInv
<1>10. ZeroInv' /\ ReadyInv'
  BY <1>1 DEF ZeroInv, ReadyInv, LiveInv
<1>11. PendInv'
  BY <1>1, <1>2, <1>3, <1>4, <1>5, <1>6, <1>7 DEF PendInv, LiveInv
<1>12. ShortInv'
  <2>1. ExtDeps(r) # {} => ~(\A e \in ExtDeps(r) : got[r][e] = Count(e))
    BY <1>4, <1>7
  <2>2. QED
    BY <1>3, <1>4, <1>5, <1>6, <1>8, <2>1 DEF ShortInv, ExtFull, LiveInv
<1>13. QED
  BY <1>9, <1>10, <1>11, <1>12 DEF LiveInv

\* LiveInv, in the loops of create_resource.
LEMMA LiveQueues ==
  ASSUME Known, CallAt, LiveInv,
         \/ EnterCreate \/ Drain \/ StartRetry
         \/ Retry /\ AddReturns(Head(retrying))
  PROVE  LiveInv'
<1>1. /\ UNCHANGED <<wf, heard, made, cur, phase>>
      /\ ready \in [Providers -> Seq(Res)] /\ pending \subseteq Res
      /\ \A x \in Res : Prov(x) \in Providers
      /\ phase \notin Before /\ cur \in Res
  <2>1. UNCHANGED <<wf, heard, made, cur, phase>>
    BY DEF EnterCreate, Drain, StartRetry, Retry, Goto, values
  <2>2. phase \notin Before
    BY DEF EnterCreate, Drain, StartRetry, Retry, CallAt, Creating, Before
  <2>3. cur \in Res
    BY DEF EnterCreate, Drain, StartRetry, Retry, CallAt, Selected, NonServices
  <2>4. QED
    BY <2>1, <2>2, <2>3, Dependencies DEF Known, IInv, TypeOK, QueuesOK
<1>2. /\ \A x : ExtDeps(x)' = ExtDeps(x) /\ Prov(x)' = Prov(x) /\ Count(x)' = Count(x)
      /\ Prov(cur)' = Prov(cur)
  BY <1>1, Frozen DEF Prov
<1>3. ZeroInv'
  BY <1>1 DEF ZeroInv
<1>4. pending' = pending /\ \A x \in pending : got'[x] = got[x]
  <2>1. CASE EnterCreate \/ StartRetry
    BY <2>1 DEF EnterCreate, StartRetry, values
  <2>2. CASE Drain
    <3>1. Head(draining) \in Res /\ In(Head(draining), draining)
      BY <2>2, Membership DEF Drain, Known, IInv, TypeOK, QueuesOK
    <3>2. PICK r \in Res : r = Head(draining) /\ In(r, draining)
      BY <3>1
    <3>3. ~Blocked(r) /\ r \notin pending
      BY <3>2, Unblocked DEF Known, PlaceInv, AloneInv, Alone, Waiting
    <3>4. QED
      BY <1>1, <2>2, <3>2, <3>3, AddEffects DEF Drain
  <2>3. CASE Retry /\ AddReturns(Head(retrying))
    <3>1. Head(retrying) \in Res /\ In(Head(retrying), retrying)
      BY <2>3, Membership DEF Retry, Known, IInv, TypeOK, QueuesOK
    <3>2. PICK r \in Res : r = Head(retrying) /\ In(r, retrying)
      BY <3>1
    <3>3. ~Blocked(r) /\ r \notin pending
      BY <3>2, Unblocked DEF Known, PlaceInv, AloneInv, Alone, Waiting
    <3>4. QED
      BY <1>1, <2>3, <3>2, <3>3, AddEffects
  <2>4. QED
    BY <2>1, <2>2, <2>3
<1>5. PendInv' /\ ShortInv'
  BY <1>1, <1>2, <1>4 DEF PendInv, ShortInv, ExtFull, LiveInv
<1>6. CASE EnterCreate
  <2>1. draining' = ready[Prov(cur)] /\ ready' = [ready EXCEPT ![Prov(cur)] = <<>>]
    BY <1>6 DEF EnterCreate
  <2>2. \A x : ~In(x, <<>>)
    BY DEF In
  <2>3. \A x \in Res : In(x, ready[Prov(cur)]) => Prov(x) = Prov(cur)
    BY <1>1 DEF Known, PlaceInv, HomeInv
  <2>4. WaitedInv'
    BY <1>1, <1>2, <1>4, <2>1, <2>2, <2>3 DEF WaitedInv, LiveInv
  <2>5. ReadyInv'
    BY <1>1, <1>2, <2>1 DEF ReadyInv
  <2>6. QED
    BY <1>3, <1>5, <2>4, <2>5 DEF LiveInv
<1>7. CASE Drain \/ StartRetry \/ Retry
  <2>1. ready' = ready /\ step \in {"drain", "added", "retry"}
    BY <1>7 DEF Drain, StartRetry, Retry
  <2>2. \A x \in Res : In(x, draining') => In(x, draining)
    <3>1. draining' = draining \/ (draining # <<>> /\ draining' = Tail(draining))
      BY <1>7 DEF Drain, StartRetry, Retry
    <3>2. QED
      BY <3>1, Membership DEF Known, IInv, TypeOK, QueuesOK
  <2>3. WaitedInv'
    BY <1>2, <1>4, <2>1, <2>2 DEF WaitedInv, LiveInv
  <2>4. ReadyInv'
    BY <1>1, <1>2, <2>1 DEF ReadyInv, LiveInv
  <2>5. QED
    BY <1>3, <1>5, <2>3, <2>4 DEF LiveInv
<1>8. QED
  BY <1>6, <1>7
\* LiveInv, when an instance is reported: everybody it concerns is to hear of it.
LEMMA LiveMake ==
  ASSUME Known, LiveInv, MakeOne
  PROVE  LiveInv'
<1>1. /\ cur \in Res /\ step \in {"create", "await"} /\ heard = {}
      /\ made \in [Res -> Nat]
      /\ made' = [made EXCEPT ![cur] = made[cur] + 1]
      /\ heard' = {r \in pending : Prov(r) # Prov(cur)}
      /\ UNCHANGED <<wf, phase, cur, step, added, pending, ready, draining, got>>
      /\ phase \notin Before
  BY DEF MakeOne, Known, IInv, CallInv, TypeOK, ValuesOK, control, queues
<1>2. \A x : ExtDeps(x)' = ExtDeps(x) /\ Prov(x)' = Prov(x) /\ Count(x)' = Count(x)
  BY <1>1, Frozen
<1>3. WaitedInv' /\ ZeroInv' /\ ReadyInv'
  BY <1>1, <1>2 DEF WaitedInv, ZeroInv, ReadyInv, LiveInv
<1>4. ShortInv'
  BY <1>1, <1>2 DEF ShortInv, ExtFull, LiveInv
<1>5. /\ \A x \in pending : x \in Res
      /\ \A x \in Res : \A e \in ExtDeps(x) : e \in Res /\ Prov(e) # Prov(x)
  BY DEF Known, IInv, TypeOK, QueuesOK, ExtDeps, External, Prov, WellFormed, WorkflowType
<1>6. ASSUME NEW x \in pending, NEW e \in ExtDeps(x) \ wf.blank[x]
      PROVE  got'[x][e] = IF x \in heard' /\ e = cur' THEN made'[e] - 1 ELSE made'[e]
  <2>1. x \in Res /\ e \in Res /\ got[x][e] = made[e] /\ made[e] \in Nat
    BY <1>1, <1>5, <1>6 DEF PendInv, LiveInv
  <2>2. CASE e = cur
    <3>1. x \in heard'
      BY <1>1, <1>5, <1>6, <2>1, <2>2
    <3>2. made'[e] = made[e] + 1
      BY <1>1, <2>2
    <3>3. QED
      BY <1>1, <2>1, <2>2, <3>1, <3>2
  <2>3. CASE e # cur
    BY <1>1, <2>1, <2>3
  <2>4. QED
    BY <2>2, <2>3
<1>7. PendInv'
  BY <1>1, <1>2, <1>6 DEF PendInv
<1>8. QED
  BY <1>3, <1>4, <1>7 DEF LiveInv

\* LiveInv, when a report reaches a pending resource.
LEMMA LiveHear ==
  ASSUME Known, LiveInv, NEW r \in Res, OnCreated(r)
  PROVE  LiveInv'
<1> DEFINE g == IF cur \in ExtDeps(r) /\ cur \notin wf.blank[r]
                THEN [got EXCEPT ![r][cur] = AtMost(@ + 1, Count(cur))]
                ELSE got
<1>1. /\ UNCHANGED <<wf, phase, cur, step, made, draining>>
      /\ r \in heard /\ r \in pending /\ heard' = heard \ {r} /\ got' = g
      /\ \/ /\ \A d \in ExtDeps(r) : g[r][d] = Count(d)
            /\ pending' = pending \ {r}
            /\ ready' = [ready EXCEPT ![Prov(r)] = Append(ready[Prov(r)], r)]
         \/ /\ ~(\A d \in ExtDeps(r) : g[r][d] = Count(d))
            /\ pending' = pending /\ ready' = ready
      /\ step \in {"create", "await"} /\ phase \notin Before
  BY DEF OnCreated, control, Known, PlaceInv, HeardInv, IInv, CallInv
<1>2. \A x : ExtDeps(x)' = ExtDeps(x) /\ Prov(x)' = Prov(x) /\ Count(x)' = Count(x)
  BY <1>1, Frozen
<1>3. /\ got \in [Res -> [Res -> Nat]] /\ made \in [Res -> Nat]
      /\ ready \in [Providers -> Seq(Res)] /\ pending \subseteq Res
      /\ \A x \in Res : /\ Prov(x) \in Providers /\ ExtDeps(x) \subseteq Res
                        /\ Count(x) \in Nat /\ made[x] <= Count(x)
  BY Dependencies DEF Known, IInv, TypeOK, ValuesOK, QueuesOK, CountInv
<1>4. \A x \in Res \ {r} : g[x] = got[x]
  BY <1>3
<1>5. WaitedInv'
  <2>1. \A x \in Res : In(x, ready'[Prov(x)]) => In(x, ready[Prov(x)]) \/ x = r
    <3>1. \A x : In(x, Append(ready[Prov(r)], r)) => In(x, ready[Prov(r)]) \/ x = r
      BY <1>3, Membership
    <3>2. QED
      BY <1>1, <1>3, <3>1
  <2>2. QED
    BY <1>1, <1>2, <1>3, <2>1 DEF WaitedInv, LiveInv
<1>6. ZeroInv' /\ ReadyInv'
  BY <1>1 DEF ZeroInv, ReadyInv
<1>7. ShortInv'
  BY <1>1, <1>2, <1>3, <1>4 DEF ShortInv, ExtFull, LiveInv
<1>8. ASSUME NEW e \in ExtDeps(r) \ wf.blank[r]
      PROVE  g[r][e] = made[e]
  <2>1. e \in Res /\ got[r][e] = IF e = cur THEN made[e] - 1 ELSE made[e]
    BY <1>1, <1>3, <1>8 DEF PendInv, LiveInv
  <2>2. CASE e = cur
    <3>1. g[r][e] = AtMost(got[r][e] + 1, Count(e))
      BY <1>3, <1>8, <2>1, <2>2
    <3>2. got[r][e] + 1 = made[e] /\ made[e] <= Count(e)
      BY <1>3, <2>1, <2>2
    <3>3. QED
      BY <3>1, <3>2 DEF AtMost
  <2>3. CASE e # cur
    BY <1>3, <2>1, <2>3
  <2>4. QED
    BY <2>2, <2>3
<1>9. PendInv'
  <2>1. ASSUME NEW x \in pending', NEW e \in ExtDeps(x) \ wf.blank[x]
        PROVE  got'[x][e] = IF x \in heard' /\ e = cur THEN made[e] - 1 ELSE made[e]
    <3>1. CASE x = r
      BY <1>1, <1>8, <2>1, <3>1
    <3>2. CASE x # r
      BY <1>1, <1>3, <1>4, <2>1, <3>2 DEF PendInv, LiveInv
    <3>3. QED
      BY <3>1, <3>2
  <2>2. QED
    BY <1>1, <1>2, <2>1 DEF PendInv
<1>10. QED
  BY <1>5, <1>6, <1>7, <1>9 DEF LiveInv

\* LiveInv holds as long as nothing goes wrong.
LEMMA LiveStep ==
  ASSUME Known, CallAt, LiveInv, CleanNext
  PROVE  LiveInv'
BY LiveMoves, LiveAdd, LiveQueues, LiveMake, LiveHear DEF CleanNext
-----------------------------------------------------------------------------
(***************************************************************************)
(* Some resources can never be added: the command will then not succeed.   *)
(***************************************************************************)

\* All that is going to be created of e has been.
TurnOver(e) ==
  \/ phase = "first" /\ e \in Selected("first") /\ e < cur
  \/ phase = "rest" /\ \/ e \in Selected("first")
                       \/ e \in Selected("rest") /\ e < cur /\ e \notin wf.async
  \/ phase = "wait" /\ \/ e \in Selected("first")
                       \/ e \in Selected("rest") /\ (e < cur \/ e \notin wf.async)
  \/ phase = "test" /\ e \in NonServices
  \/ phase = "service" /\ (e \in NonServices \/ e < cur)
  \/ phase = "save"
  \/ phase = "exit" /\ exit.saved

\* x waits for an attribute nobody sets, or for instances that do not come.
Starved(x) ==
  \E e \in ExtDeps(x) : e \in wf.blank[x] \/ (TurnOver(e) /\ made[e] < Count(e))

\* x waits for an attribute of its own provider that nobody sets.
Stuck(x) ==
  /\ In(x, parked[Prov(x)]) \/ In(x, retrying)
  /\ IntDeps(x) \cap wf.blank[x] # {}

Hopeless == (\E x \in pending : Starved(x)) \/ (\E x \in Res : Stuck(x))

\* A turn that is over stays over.
LEMMA TurnStaysOver ==
  ASSUME Known, CallAt, CleanNext, wf' = wf, NEW e \in Res, TurnOver(e)
  PROVE  TurnOver(e)' /\ made'[e] = made[e]
<1>0. /\ \A ph : Selected(ph)' = Selected(ph)
      /\ NonServices' = NonServices
      /\ e \in Nat /\ cur \in Nat
      /\ made \in [Res -> Nat]
      /\ \A x \in Res : x < N + 1
  BY StillSo, WorkflowAssumption DEF Known, IInv, TypeOK, ControlOK, ValuesOK, Res
<1>1. CASE \/ EnterCreate \/ Drain \/ StartRetry \/ Retry \/ MakeOne
           \/ EndRetry \/ EnterWait \/ (\E r \in Res : OnCreated(r)) \/ UNCHANGED vars
  <2>1. UNCHANGED <<phase, cur, exit>>
    BY <1>1 DEF EnterCreate, Drain, StartRetry, Retry, EndRetry, EnterWait, MakeOne,
                OnCreated, Goto, control, outcome, vars
  <2>2. TurnOver(e)'
    BY <1>0, <2>1 DEF TurnOver
  <2>3. CASE MakeOne
    <3>1. /\ made' = [made EXCEPT ![cur] = made[cur] + 1]
          /\ step \in {"create", "await"} /\ Reports(step)
      BY <2>3 DEF MakeOne
    <3>2. /\ phase \in {"first", "rest", "service", "wait"} /\ cur \in Selected(phase)
          /\ phase = "rest" => step = "create"
          /\ phase = "wait" => step = "await"
      BY <3>1 DEF CallAt, Creating
    <3>3. /\ step = "create" => cur \notin wf.async
          /\ step = "await" => cur \in wf.async
      BY <3>1 DEF Reports
    <3>4. e # cur
      BY <1>0, <3>2, <3>3 DEF TurnOver, Selected
    <3>5. QED
      BY <1>0, <2>2, <3>1, <3>4
  <2>4. CASE ~MakeOne
    <3>1. made' = made
      BY <1>1, <2>4 DEF EnterCreate, Drain, StartRetry, Retry, EndRetry, EnterWait,
                  OnCreated, Goto, values, vars
    <3>2. QED
      BY <2>2, <3>1
  <2>5. QED
    BY <2>3, <2>4
<1>2. CASE Moves
  <2>1. made' = made
    BY <1>2 DEF Moves, values
  <2>2. phase \notin Before
    BY DEF TurnOver, Before
  <2>3. CASE Onward
    <3>1. CASE EndPhase
      <4>1. cur = N + 1 /\ cur' = 1 /\ phase' = NextPhase
            /\ phase \in {"first", "rest", "wait", "service"}
        BY <2>2, <3>1 DEF EndPhase, Before
      <4>2. QED
        BY <1>0, <2>1, <4>1 DEF TurnOver, NextPhase, Selected, NonServices
    <3>2. CASE ~EndPhase
      <4>1. \/ /\ phase' = phase /\ cur' = cur + 1
               /\ phase \in {"validate", "first", "rest", "wait", "service"}
            \/ phase = "test" /\ phase' = "service"
        BY <2>3, <3>2 DEF Onward
      <4>2. QED
        BY <1>0, <2>1, <4>1 DEF TurnOver
    <3>3. QED
      BY <3>1, <3>2
  <2>4. CASE EndDrain \/ EndCall
    <3>1. phase' = phase /\ exit' = exit /\ cur' \in {cur, cur + 1}
      BY <2>4 DEF EndDrain, EndCall, Goto, Advance, outcome
    <3>2. QED
      BY <1>0, <2>1, <3>1 DEF TurnOver
  <2>5. CASE Save
    <3>1. phase' = "exit" /\ exit'.saved
      BY <2>5 DEF Save
    <3>2. QED
      BY <2>1, <3>1 DEF TurnOver
  <2>6. ~PlanInterrupted
    BY <2>2 DEF PlanInterrupted, Before
  <2>7. QED
    BY <1>1, <1>2, <2>3, <2>4, <2>5, <2>6 DEF Moves
<1>3. CASE Add
  BY <1>3 DEF Add, TurnOver
<1>4. QED
  BY <1>1, <1>2, <1>3 DEF CleanNext
\* What is missing for good keeps a resource pending.
LEMMA StarvedStays ==
  ASSUME Known, CallAt, BlankInv, CleanNext, wf' = wf, NEW x \in pending, Starved(x)
  PROVE  x \in pending' /\ Starved(x)'
<1>1. /\ x \in Res /\ got \in [Res -> [Res -> Nat]] /\ made \in [Res -> Nat]
      /\ ExtDeps(x) \subseteq Res
      /\ \A e \in Res : Count(e) \in Nat \ {0}
  BY Dependencies DEF Known, IInv, TypeOK, QueuesOK, ValuesOK
<1>2. PICK e \in ExtDeps(x) : e \in wf.blank[x] \/ (TurnOver(e) /\ made[e] < Count(e))
  BY DEF Starved
<1>3. e \in Res
  BY <1>1
<1>4. /\ ExtDeps(x)' = ExtDeps(x) /\ Count(e)' = Count(e)
  BY Frozen
<1>5. Starved(x)'
  <2>1. CASE e \in wf.blank[x]
    BY <1>4, <2>1 DEF Starved
  <2>2. CASE TurnOver(e) /\ made[e] < Count(e)
    <3>1. TurnOver(e)' /\ made'[e] = made[e]
      BY <1>3, <2>2, TurnStaysOver
    <3>2. QED
      BY <1>4, <2>2, <3>1 DEF Starved
  <2>3. QED
    BY <1>2, <2>1, <2>2
<1>6. x \in pending'
  <2>1. ASSUME NEW r \in Res, OnCreated(r)
        PROVE  x \in pending'
    <3> DEFINE g == IF cur \in ExtDeps(r) /\ cur \notin wf.blank[r]
                    THEN [got EXCEPT ![r][cur] = AtMost(@ + 1, Count(cur))]
                    ELSE got
    <3>1. /\ r \in heard
          /\ \/ pending' = pending \ {r} /\ \A d \in ExtDeps(r) : g[r][d] = Count(d)
             \/ pending' = pending
      BY <2>1 DEF OnCreated
    <3>2. SUFFICES ASSUME r = x
                   PROVE  g[x][e] # Count(e)
      BY <3>1
    <3>3. CASE e \in wf.blank[x]
      <4>1. got[x][e] = 0
        BY <1>1, <3>3 DEF BlankInv
      <4>2. g[x][e] = 0
        BY <1>1, <1>3, <3>2, <3>3, <4>1
      <4>3. QED
        BY <1>1, <1>3, <4>2
    <3>4. CASE TurnOver(e) /\ made[e] < Count(e)
      <4>1. got[x][e] <= made[e] /\ (e = cur => got[x][e] < made[e])
        BY <1>1, <1>2, <3>1, <3>2 DEF Known, IInv, CountInv
      <4>2. g[x][e] \in {got[x][e], IF e = cur THEN AtMost(got[x][e] + 1, Count(e)) ELSE got[x][e]}
        BY <1>1, <1>3, <3>2
      <4>3. g[x][e] <= made[e]
        BY <1>1, <1>3, <3>4, <4>1, <4>2 DEF AtMost
      <4>4. got[x][e] \in Nat /\ made[e] \in Nat /\ Count(e) \in Nat
        BY <1>1, <1>3
      <4>5. g[x][e] \in Nat
        BY <4>2, <4>4 DEF AtMost
      <4>6. QED
        BY <3>4, <4>3, <4>4, <4>5
    <3>5. QED
      BY <1>2, <3>3, <3>4
  <2>2. ASSUME NEW r \in Res, AddReturns(r)
        PROVE  pending \subseteq pending'
    BY <2>2, AddEffects
  <2>3. CASE Add /\ AddReturns(cur)
    <3>1. cur \in Res
      BY <2>3 DEF Add
    <3>2. QED
      BY <2>3, <2>2, <3>1
  <2>4. CASE Drain
    <3>1. Head(draining) \in Res /\ AddReturns(Head(draining))
      BY <2>4, Membership DEF Drain, Known, IInv, TypeOK, QueuesOK
    <3>2. QED
      BY <2>2, <3>1
  <2>5. CASE Retry /\ AddReturns(Head(retrying))
    <3>1. Head(retrying) \in Res
      BY <2>5, Membership DEF Retry, Known, IInv, TypeOK, QueuesOK
    <3>2. QED
      BY <2>2, <2>5, <3>1
  <2>6. CASE Moves \/ EnterCreate \/ StartRetry \/ MakeOne
    BY <2>6 DEF Moves, EnterCreate, StartRetry, MakeOne, queues
  <2>7. QED
    BY <2>1, <2>3, <2>4, <2>5, <2>6 DEF CleanNext
<1>7. QED
  BY <1>5, <1>6

\* What nobody sets keeps a resource parked.
LEMMA StuckStays ==
  ASSUME Known, CallAt, BlankInv, CleanNext, wf' = wf, NEW x \in Res, Stuck(x)
  PROVE  Stuck(x)'
<1>1. /\ parked \in [Providers -> Seq(Res)] /\ retrying \in Seq(Res)
      /\ Prov(x) \in Providers
      /\ IntDeps(x)' = IntDeps(x) /\ Prov(x)' = Prov(x)
  BY Frozen, Dependencies DEF Known, IInv, TypeOK, QueuesOK
<1>2. SUFFICES ASSUME NEW d \in IntDeps(x), d \in wf.blank[x],
                      In(x, parked[Prov(x)]) \/ In(x, retrying)
               PROVE  In(x, parked'[Prov(x)]) \/ In(x, retrying')
  BY <1>1 DEF Stuck
<1>3. ASSUME NEW r \in Res, AddReturns(r)
      PROVE  \A p \in Providers : \A y : In(y, parked[p]) => In(y, parked'[p])
  BY <1>3, AddLands DEF Known
<1>4. CASE Moves \/ EnterCreate \/ MakeOne \/ \E r \in Res : OnCreated(r)
  BY <1>2, <1>4 DEF Moves, EnterCreate, MakeOne, OnCreated, queues
<1>5. CASE Add /\ AddReturns(cur)
  <2>1. cur \in Res /\ retrying' = retrying
    BY <1>5 DEF Add
  <2>2. QED
    BY <1>1, <1>2, <1>3, <1>5, <2>1
<1>6. CASE Drain
  <2>1. Head(draining) \in Res /\ AddReturns(Head(draining)) /\ retrying' = retrying
    BY <1>6, Membership DEF Drain, Known, IInv, TypeOK, QueuesOK
  <2>2. QED
    BY <1>1, <1>2, <1>3, <2>1
<1>7. CASE StartRetry
  <2>1. /\ step = "added" /\ retrying' = parked[Prov(cur)]
        /\ parked' = [parked EXCEPT ![Prov(cur)] = <<>>]
    BY <1>7 DEF StartRetry
  <2>2. retrying = <<>> /\ ~In(x, <<>>)
    BY <2>1 DEF Known, PlaceInv, ListInv, In
  <2>3. QED
    BY <1>1, <1>2, <2>1, <2>2
<1>8. CASE Retry /\ AddReturns(Head(retrying))
  <2>1. /\ Head(retrying) \in Res /\ retrying # <<>> /\ retrying' = Tail(retrying)
        /\ In(Head(retrying), retrying)
        /\ \A y : In(y, retrying) <=> y = Head(retrying) \/ In(y, Tail(retrying))
    BY <1>1, <1>8, Membership, OnceFacts DEF Retry
  <2>2. CASE x # Head(retrying)
    BY <1>1, <1>2, <1>3, <1>8, <2>1, <2>2
  <2>3. CASE x = Head(retrying)
    <3>1. ~Blocked(x)
      BY <2>1, <2>3, Unblocked
    <3>2. got[x][d] = 0 /\ Visible(x, d) = 0
      BY <1>2 DEF BlankInv, Visible
    <3>3. Count(d) \in Nat \ {0} /\ Resolved(x)[x][d] = AtMost(got[x][d] + Visible(x, d), Count(d))
      BY <1>2, ResolvedValues DEF Known, IInv
    <3>4. Resolved(x)[x][d] # Count(d)
      BY <3>2, <3>3 DEF AtMost
    <3>5. IntShort(x) /\ ~IntFull(Resolved(x), x)
      BY <1>2, <3>2, <3>4 DEF IntShort, IntFull
    <3>6. AddParked(x)
      BY <1>8, <2>3, <3>1, <3>5 DEF AddReturns, AddPending, AddDone, AddReached
    <3>7. /\ parked' = [parked EXCEPT ![Prov(x)] = Append(parked[Prov(x)], x)]
          /\ In(x, Append(parked[Prov(x)], x))
      BY <1>1, <3>6, OnceFacts DEF AddParked
    <3>8. QED
      BY <1>1, <3>7
  <2>4. QED
    BY <2>2, <2>3
<1>9. QED
  BY <1>4, <1>5, <1>6, <1>7, <1>8 DEF CleanNext

\* Once it is hopeless it stays so.
LEMMA HopelessStays ==
  ASSUME Known, CallAt, BlankInv, CleanNext, wf' = wf, Hopeless
  PROVE  Hopeless'
<1>1. CASE \E x \in pending : Starved(x)
  <2>1. PICK x \in pending : Starved(x)
    BY <1>1
  <2>2. x \in pending' /\ Starved(x)'
    BY <2>1, StarvedStays
  <2>3. QED
    BY <2>2 DEF Hopeless
<1>2. CASE \E x \in Res : Stuck(x)
  <2>1. PICK x \in Res : Stuck(x)
    BY <1>2
  <2>2. Stuck(x)'
    BY <2>1, StuckStays
  <2>3. QED
    BY <2>2 DEF Hopeless, Res
<1>3. QED
  BY <1>1, <1>2 DEF Hopeless
-----------------------------------------------------------------------------
(***************************************************************************)
(* The order in which the parked resources are tried again.                *)
(***************************************************************************)

\* No resource is before one it depends on, unless it is unsettled.
Sorted(s) ==
  \A i, j \in 1..Len(s) : i < j /\ s[j] \in IntDeps(s[i]) => Unsettled(s[i])

\* What Controller.add could not add waits for another provider, at least
\* through what it needs.
WaitsInv ==
  \A x \in Res :
    (phase \in Applying \/ (phase = "add" /\ x < cur)) /\ x \notin added =>
      Waits(x) \/ Unsettled(x)

SortedInv == Sorted(retrying) /\ \A p \in Providers : Sorted(parked[p])

\* What has been parked again does not depend on what is still to be tried again.
CrossInv ==
  \A a, b \in Res :
    In(a, parked[Prov(a)]) /\ In(b, retrying) /\ b \in IntDeps(a) => Unsettled(a)

\* A parked resource waits for one that is not added, except right after one has
\* been and before the parked ones are tried again.
SettledInv ==
  \A a \in Res :
    /\ In(a, parked[Prov(a)])
    /\ ~(step = "added" /\ Prov(a) = Prov(cur))
    /\ ~Unsettled(a)
    => \E d \in IntDeps(a) : d \notin added

OrderInv == WaitsInv /\ SortedInv /\ CrossInv /\ SettledInv

\* Sorted lists, with one more at the end or one less at the front.
LEMMA SortedFacts ==
  ASSUME NEW s \in Seq(Res), Sorted(s)
  PROVE  /\ \A r \in Res :
              (\A x \in Res : In(x, s) /\ r \in IntDeps(x) => Unsettled(x))
                => Sorted(Append(s, r))
         /\ s # <<>> =>
              /\ Sorted(Tail(s))
              /\ \A y : In(y, Tail(s)) /\ y \in IntDeps(Head(s)) => Unsettled(Head(s))
<1>1. ASSUME NEW r \in Res,
             \A x \in Res : In(x, s) /\ r \in IntDeps(x) => Unsettled(x)
      PROVE  Sorted(Append(s, r))
  <2> DEFINE t == Append(s, r)
  <2>1. /\ Len(t) = Len(s) + 1 /\ Len(s) \in Nat
        /\ \A i \in 1..Len(s) : t[i] = s[i] /\ s[i] \in Res /\ In(s[i], s)
        /\ t[Len(s) + 1] = r
    BY DEF In
  <2>2. SUFFICES ASSUME NEW i \in 1..Len(t), NEW j \in 1..Len(t), i < j,
                        t[j] \in IntDeps(t[i])
                 PROVE  Unsettled(t[i])
    BY DEF Sorted
  <2>3. i \in 1..Len(s)
    BY <2>1, <2>2
  <2>4. CASE j \in 1..Len(s)
    <3>1. t[i] = s[i] /\ t[j] = s[j]
      BY <2>1, <2>3, <2>4
    <3>2. QED
      BY <2>2, <2>3, <2>4, <3>1 DEF Sorted
  <2>5. CASE j = Len(s) + 1
    <3>1. t[i] = s[i] /\ t[j] = r /\ s[i] \in Res /\ In(s[i], s)
      BY <2>1, <2>3, <2>5
    <3>2. QED
      BY <1>1, <2>2, <3>1
  <2>6. QED
    BY <2>1, <2>2, <2>4, <2>5
<1>2. ASSUME s # <<>>
      PROVE  /\ Sorted(Tail(s))
             /\ \A y : In(y, Tail(s)) /\ y \in IntDeps(Head(s)) => Unsettled(Head(s))
  <2> DEFINE t == Tail(s)
  <2>1. /\ Len(s) \in Nat /\ Len(s) >= 1 /\ Head(s) = s[1] /\ Len(t) = Len(s) - 1
        /\ \A i \in 1..Len(t) : t[i] = s[i + 1] /\ i + 1 \in 1..Len(s)
    BY <1>2
  <2>2. ASSUME NEW i \in 1..Len(t), NEW j \in 1..Len(t), i < j, t[j] \in IntDeps(t[i])
        PROVE  Unsettled(t[i])
    <3>1. t[i] = s[i + 1] /\ t[j] = s[j + 1] /\ i + 1 < j + 1
          /\ i + 1 \in 1..Len(s) /\ j + 1 \in 1..Len(s)
      BY <2>1, <2>2
    <3>2. QED
      BY <2>2, <3>1 DEF Sorted
  <2>3. ASSUME NEW y, In(y, t), y \in IntDeps(s[1])
        PROVE  Unsettled(s[1])
    <3>1. PICK i \in 1..Len(t) : t[i] = y
      BY <2>3 DEF In
    <3>2. s[i + 1] = y /\ 1 \in 1..Len(s) /\ i + 1 \in 1..Len(s) /\ 1 < i + 1
      BY <2>1, <3>1
    <3>3. QED
      BY <2>3, <3>2 DEF Sorted
  <2>4. QED
    BY <2>1, <2>2, <2>3 DEF Sorted
<1>3. QED
  BY <1>1, <1>2

\* A resource that is parked needs one that is not added, reads an attribute
\* that is only there later, or one that never is.
LEMMA WhyParked ==
  ASSUME Known, NEW r \in Res, ParkedFor(r)
  PROVE  \/ ReadsLate(r) \/ IntDeps(r) \cap wf.blank[r] # {}
         \/ \E d \in IntDeps(r) : d \notin added
<1>1. PICK d \in IntDeps(r) : Resolved(r)[r][d] # Count(d)
  BY DEF ParkedFor
<1>2. /\ Resolved(r)[r][d] = AtMost(got[r][d] + Visible(r, d), Count(d))
      /\ got[r][d] \in Nat /\ Count(d) \in Nat
  BY ResolvedValues DEF Known, IInv
<1>3. CASE d \in wf.blank[r] \/ d \in wf.late[r] \/ d \notin added
  BY <1>3 DEF ReadsLate
<1>4. CASE d \notin wf.blank[r] /\ d \notin wf.late[r] /\ d \in added
  <2>1. Visible(r, d) = Count(d)
    BY <1>4 DEF Visible
  <2>2. QED
    BY <1>1, <1>2, <2>1 DEF AtMost
<1>5. QED
  BY <1>3, <1>4

\* What is derived from the workflow, and the order invariants that only need it.
LEMMA OrderSame ==
  ASSUME OrderInv, UNCHANGED <<wf, added, parked, retrying>>,
         step' # "added", step = "added" => FALSE,
         \A x \in Res : phase' \in Applying \/ (phase' = "add" /\ x < cur') =>
                          phase \in Applying \/ (phase = "add" /\ x < cur)
  PROVE  OrderInv'
<1>1. \A x : /\ ExtDeps(x)' = ExtDeps(x) /\ IntDeps(x)' = IntDeps(x) /\ Prov(x)' = Prov(x)
             /\ Unsettled(x)' = Unsettled(x) /\ Waits(x)' = Waits(x)
  BY Frozen, StillSo
<1>2. WaitsInv'
  BY <1>1 DEF WaitsInv, OrderInv
<1>3. SortedInv' /\ CrossInv' /\ SettledInv'
  BY <1>1 DEF SortedInv, Sorted, CrossInv, SettledInv, OrderInv
<1>4. QED
  BY <1>2, <1>3 DEF OrderInv
\* A step that moves nothing between the queues the order is about.
LEMMA OrderOthers ==
  ASSUME Known, CallAt, OrderInv,
         Moves \/ EnterCreate \/ MakeOne \/ \E r \in Res : OnCreated(r)
  PROVE  OrderInv'
<1>1. UNCHANGED <<wf, added, parked, retrying>>
  BY DEF Moves, EnterCreate, MakeOne, OnCreated, queues
<1>2. CASE Onward
  <2>1. step = "idle" \/ phase = "test"
    BY <1>2 DEF Onward, EndPhase
  <2>2. step # "added" /\ step' # "added"
    BY <1>2, <2>1 DEF Onward, EndPhase, CallAt, Creating
  <2>3. \A x \in Res : phase' \in Applying \/ (phase' = "add" /\ x < cur') =>
                         phase \in Applying \/ (phase = "add" /\ x < cur)
    <3>1. CASE EndPhase
      <4>1. cur = N + 1 /\ cur' = 1 /\ phase' = NextPhase
            /\ phase \in {"validate", "add", "first", "rest", "wait", "service"}
        BY <3>1 DEF EndPhase
      <4>2. \A x \in Res : x < N + 1 /\ ~(x < 1)
        BY WorkflowAssumption DEF Res
      <4>3. QED
        BY <4>1, <4>2 DEF NextPhase, Applying
    <3>2. CASE ~EndPhase
      BY <1>2, <3>2 DEF Onward, Applying
    <3>3. QED
      BY <3>1, <3>2
  <2>4. QED
    BY <1>1, <2>2, <2>3, OrderSame
<1>3. CASE PlanInterrupted \/ Save
  <2>1. step # "added" /\ step' # "added" /\ phase' = "exit"
    BY <1>3 DEF PlanInterrupted, Quit, Save, CallAt, Creating
  <2>2. QED
    BY <1>1, <2>1, OrderSame DEF Applying
<1>4. CASE \/ EndRetry \/ EndDrain \/ EndCall \/ EnterWait \/ EnterCreate \/ MakeOne
           \/ \E r \in Res : OnCreated(r)
  <2>1. phase' = phase
    BY <1>4 DEF EndRetry, EndDrain, EndCall, EnterWait, EnterCreate, MakeOne, OnCreated,
                Goto, Advance, control
  <2>2. phase # "add"
    <3>1. CASE EnterCreate \/ EnterWait
      BY <3>1 DEF EnterCreate, EnterWait, Creating
    <3>2. CASE \/ EndRetry \/ EndDrain \/ EndCall \/ MakeOne \/ \E r \in Res : OnCreated(r)
      <4>1. step \in {"drain", "retry", "create", "await"}
        BY <3>2 DEF EndRetry, EndDrain, EndCall, MakeOne, OnCreated, Known, IInv, CallInv
      <4>2. QED
        BY <4>1 DEF CallAt, Creating
    <3>3. QED
      BY <1>4, <3>1, <3>2
  <2>3. step # "added" /\ step' # "added"
    <3>1. CASE EndRetry \/ EndDrain \/ EndCall \/ EnterWait \/ EnterCreate
      BY <3>1 DEF EndRetry, EndDrain, EndCall, EnterWait, EnterCreate, Goto, Advance
    <3>2. CASE MakeOne \/ \E r \in Res : OnCreated(r)
      BY <3>2 DEF MakeOne, OnCreated, control, Known, IInv, CallInv
    <3>3. QED
      BY <1>4, <3>1, <3>2
  <2>4. QED
    BY <1>1, <2>1, <2>2, <2>3, OrderSame
<1>5. CASE UNCHANGED vars
  <2>1. /\ UNCHANGED <<phase, cur, step>>
        /\ \A x : /\ IntDeps(x)' = IntDeps(x) /\ Prov(x)' = Prov(x)
                  /\ Unsettled(x)' = Unsettled(x) /\ Waits(x)' = Waits(x)
        /\ Prov(cur)' = Prov(cur)
    BY <1>1, <1>5, Frozen, StillSo DEF vars, control, Prov
  <2>2. WaitsInv'
    BY <1>1, <2>1 DEF WaitsInv, OrderInv
  <2>3. SortedInv' /\ CrossInv' /\ SettledInv'
    BY <1>1, <2>1 DEF SortedInv, Sorted, CrossInv, SettledInv, OrderInv
  <2>4. QED
    BY <2>2, <2>3 DEF OrderInv
<1>6. QED
  BY <1>2, <1>3, <1>4, <1>5 DEF Moves

\* Internal dependencies are resources of the same provider with smaller numbers.
LEMMA Inside ==
  ASSUME WellFormed(wf)
  PROVE  \A x \in Res : \A d \in IntDeps(x) :
           d \in Res /\ Prov(d) = Prov(x) /\ d < x /\ d \in Chain(x)
<1>1. \A x \in Res : \A d \in IntDeps(x) : d \in Within(x)
  BY WithinLeast
<1>2. QED
  BY <1>1, WithinFacts DEF Chain

\* The order, when Controller.add reaches a resource.
LEMMA OrderAdd ==
  ASSUME Known, OrderInv, Add, AddReturns(cur), cur' = cur + 1, phase' = phase,
         step' = "idle", ~Hopeless'
  PROVE  OrderInv'
<1>1. /\ cur \in Res /\ phase = "add" /\ step = "idle"
      /\ UNCHANGED <<wf, retrying>> /\ retrying = <<>>
      /\ parked \in [Providers -> Seq(Res)] /\ WellFormed(wf)
  BY DEF Add, Known, PlaceInv, ListInv, IInv, TypeOK, QueuesOK
<1> PICK r \in Res : r = cur
  BY <1>1
<1>2. \A x : /\ ExtDeps(x)' = ExtDeps(x) /\ IntDeps(x)' = IntDeps(x) /\ Prov(x)' = Prov(x)
             /\ Unsettled(x)' = Unsettled(x) /\ Waits(x)' = Waits(x)
  BY <1>1, Frozen, StillSo
<1>3. /\ \/ /\ Blocked(r) /\ UNCHANGED <<added, parked>>
         \/ /\ ParkedFor(r) /\ added' = added
            /\ parked' = [parked EXCEPT ![Prov(r)] = Append(parked[Prov(r)], r)]
         \/ /\ added' = added \cup {r} /\ parked' = parked
      /\ Prov(r) \in Providers
  BY <1>1, AddEffects, Dependencies
<1>4. \A x \in Res : \A d \in IntDeps(x) :
        d \in Res /\ Prov(d) = Prov(x) /\ d < x /\ d \in Chain(x)
  BY <1>1, Inside
<1>5. \A x \in Res, p \in Providers : In(x, parked[p]) => x < r /\ p = Prov(x)
  <2>1. \A x \in Res, p \in Providers : In(x, parked[p]) => p = Prov(x)
    BY DEF Known, PlaceInv, HomeInv
  <2>2. \A x \in Res : In(x, parked[Prov(x)]) => ~(cur <= x)
    BY <1>1 DEF Known, PlaceInv, FreshInv, Fresh, Waiting
  <2>3. QED
    BY <2>1, <2>2, WorkflowAssumption DEF Res
<1>6. ParkedFor(r) /\ In(r, parked'[Prov(r)]) =>
        Unsettled(r) \/ \E d \in IntDeps(r) : d \notin added
  <2>1. In(r, parked'[Prov(r)]) => IntDeps(r) \cap wf.blank[r] = {}
    BY <1>1, <1>2 DEF Hopeless, Stuck, Res
  <2>2. ReadsLate(r) => Unsettled(r)
    BY DEF Unsettled
  <2>3. QED
    BY <2>1, <2>2, WhyParked
<1>7. added' = added /\ parked' = [parked EXCEPT ![Prov(r)] = Append(parked[Prov(r)], r)]
        => In(r, parked'[Prov(r)])
  BY <1>1, <1>3, OnceFacts
<1>8. WaitsInv'
  <2>1. \A x \in Res : x < r /\ x \notin added => Waits(x) \/ Unsettled(x)
    BY <1>1 DEF OrderInv, WaitsInv
  <2>2. r \notin added' => Waits(r) \/ Unsettled(r)
    <3>1. CASE Blocked(r)
      BY <3>1 DEF Blocked, Waits
    <3>2. CASE ParkedFor(r) /\ In(r, parked'[Prov(r)])
      <4>1. SUFFICES ASSUME NEW d \in IntDeps(r), d \notin added
                     PROVE  Waits(r) \/ Unsettled(r)
        BY <1>6, <3>2
      <4>2. Waits(d) \/ Unsettled(d)
        BY <1>4, <2>1, <4>1
      <4>3. QED
        BY <1>1, <1>4, <4>2, HeldUp
    <3>3. QED
      BY <1>3, <1>7, <3>1, <3>2
  <2>3. \A x \in Res : x < r + 1 => x < r \/ x = r
    BY WorkflowAssumption DEF Res
  <2>4. QED
    BY <1>1, <1>2, <1>3, <2>1, <2>2, <2>3 DEF WaitsInv, Applying
<1>9. \A p \in Providers : Sorted(parked'[p])
  <2>1. \A p \in Providers : parked[p] \in Seq(Res) /\ Sorted(parked[p])
    BY <1>1 DEF OrderInv, SortedInv
  <2>2. \A x \in Res : In(x, parked[Prov(r)]) => r \notin IntDeps(x)
    BY <1>3, <1>4, <1>5, WorkflowAssumption DEF Res
  <2>3. Sorted(Append(parked[Prov(r)], r))
    BY <1>3, <2>1, <2>2, SortedFacts
  <2>4. QED
    BY <1>1, <1>3, <2>1, <2>3
<1>10. SortedInv'
  <2>1. Sorted(retrying') /\ \A p \in Providers : Sorted(parked'[p])
    BY <1>1, <1>9 DEF OrderInv, SortedInv
  <2>2. QED
    BY <1>2, <2>1 DEF SortedInv, Sorted
<1>11. CrossInv'
  <2>1. \A x : ~In(x, retrying')
    BY <1>1 DEF In
  <2>2. QED
    BY <2>1 DEF CrossInv
<1>12. SettledInv'
  <2>1. ASSUME NEW a \in Res, In(a, parked'[Prov(a)]), ~Unsettled(a)
        PROVE  \E d \in IntDeps(a) : d \notin added'
    <3>1. In(a, parked[Prov(a)]) \/ (a = r /\ ParkedFor(r) /\ added' = added)
      <4>1. Prov(a) \in Providers /\ parked[Prov(r)] \in Seq(Res)
        BY <1>1, <1>3, Dependencies
      <4>2. \A x : In(x, Append(parked[Prov(r)], r)) => In(x, parked[Prov(r)]) \/ x = r
        BY <4>1, Membership
      <4>3. CASE parked' = parked
        BY <2>1, <4>3
      <4>4. CASE ParkedFor(r) /\ added' = added
                 /\ parked' = [parked EXCEPT ![Prov(r)] = Append(parked[Prov(r)], r)]
        <5>1. CASE Prov(a) = Prov(r)
          <6>1. In(a, Append(parked[Prov(r)], r))
            BY <1>1, <1>3, <2>1, <4>4, <5>1
          <6>2. QED
            BY <4>2, <4>4, <5>1, <6>1
        <5>2. CASE Prov(a) # Prov(r)
          BY <1>1, <1>3, <2>1, <4>1, <4>4, <5>2
        <5>3. QED
          BY <5>1, <5>2
      <4>5. QED
        BY <1>3, <4>3, <4>4
    <3>2. CASE In(a, parked[Prov(a)])
      <4>1. PICK d \in IntDeps(a) : d \notin added
        BY <1>1, <2>1, <3>2 DEF OrderInv, SettledInv
      <4>2. a < r /\ d < a /\ d \in Res
        <5>1. Prov(a) \in Providers
          BY <1>1, Dependencies
        <5>2. QED
          BY <1>4, <1>5, <3>2, <4>1, <5>1
      <4>3. d # r
        BY <4>2, WorkflowAssumption DEF Res
      <4>4. QED
        BY <1>3, <4>1, <4>3
    <3>3. CASE a = r /\ ParkedFor(r) /\ added' = added
      BY <1>6, <2>1, <3>3
    <3>4. QED
      BY <3>1, <3>2, <3>3
  <2>2. QED
    BY <1>2, <2>1 DEF SettledInv
<1>13. QED
  BY <1>8, <1>10, <1>11, <1>12 DEF OrderInv
\* What is in the list of parked resources when r is parked at its end.
LEMMA ParkedAfter ==
  ASSUME Known, NEW r \in Res,
         parked' = [parked EXCEPT ![Prov(r)] = Append(parked[Prov(r)], r)]
  PROVE  /\ In(r, parked'[Prov(r)])
         /\ \A a \in Res : In(a, parked'[Prov(a)]) => In(a, parked[Prov(a)]) \/ a = r
<1>1. /\ parked \in [Providers -> Seq(Res)]
      /\ \A a \in Res : Prov(a) \in Providers
  BY Dependencies DEF Known, IInv, TypeOK, QueuesOK
<1>2. \A x : In(x, Append(parked[Prov(r)], r)) <=> In(x, parked[Prov(r)]) \/ x = r
  BY <1>1, OnceFacts
<1>3. In(r, parked'[Prov(r)])
  BY <1>1, <1>2
<1>4. ASSUME NEW a \in Res, In(a, parked'[Prov(a)])
      PROVE  In(a, parked[Prov(a)]) \/ a = r
  <2>1. CASE Prov(a) = Prov(r)
    BY <1>1, <1>2, <1>4, <2>1
  <2>2. CASE Prov(a) # Prov(r)
    BY <1>1, <1>4, <2>2
  <2>3. QED
    BY <2>1, <2>2
<1>5. QED
  BY <1>3, <1>4

\* The order, when a resource is drained: if it is parked behind one that needs
\* it, it is for something that waits, and the one that needs it is unsettled.
LEMMA OrderDrain ==
  ASSUME Known, CallAt, WaitedInv, OrderInv, Drain, ~Hopeless'
  PROVE  OrderInv'
<1>0. Head(draining) \in Res /\ In(Head(draining), draining)
  BY Membership DEF Drain, Known, IInv, TypeOK, QueuesOK
<1> PICK r \in Res : r = Head(draining) /\ In(r, draining)
  BY <1>0
<1>1. /\ step = "drain" /\ step' = "added" /\ phase' = phase /\ cur' = cur
      /\ UNCHANGED <<wf, retrying>> /\ retrying = <<>> /\ AddReturns(r)
      /\ parked \in [Providers -> Seq(Res)] /\ WellFormed(wf)
      /\ phase \in Applying
  BY DEF Drain, Goto, Known, PlaceInv, ListInv, IInv, TypeOK, QueuesOK, CallAt,
         Creating, Applying
<1>2. \A x : /\ ExtDeps(x)' = ExtDeps(x) /\ IntDeps(x)' = IntDeps(x) /\ Prov(x)' = Prov(x)
             /\ Unsettled(x)' = Unsettled(x) /\ Waits(x)' = Waits(x)
  BY <1>1, Frozen, StillSo
<1>3. /\ \/ /\ ParkedFor(r) /\ added' = added
            /\ parked' = [parked EXCEPT ![Prov(r)] = Append(parked[Prov(r)], r)]
         \/ /\ added' = added \cup {r} /\ parked' = parked
      /\ Prov(r) \in Providers /\ Prov(r) = Prov(cur)
  <2>1. ~Blocked(r)
    BY Unblocked
  <2>2. Prov(r) = Prov(cur)
    BY DEF Known, PlaceInv, HomeInv
  <2>3. QED
    BY <1>1, <2>1, <2>2, AddEffects, Dependencies
<1>4. \A x \in Res : \A d \in IntDeps(x) :
        d \in Res /\ Prov(d) = Prov(x) /\ d < x /\ d \in Chain(x)
  BY <1>1, Inside
<1>5. WaitsInv'
  BY <1>1, <1>2, <1>3 DEF OrderInv, WaitsInv
<1>6. ASSUME ParkedFor(r), added' = added, NEW a \in Res, r \in IntDeps(a),
             parked' = [parked EXCEPT ![Prov(r)] = Append(parked[Prov(r)], r)]
      PROVE  Unsettled(a)
  <2>1. IntDeps(r) \cap wf.blank[r] = {}
    BY <1>1, <1>2, <1>6, ParkedAfter DEF Hopeless, Stuck, Res
  <2>2. CASE ReadsLate(r)
    BY <1>1, <1>4, <1>6, <2>2, HeldUp
  <2>3. CASE \E d \in IntDeps(r) : d \notin added
    <3>1. PICK d \in IntDeps(r) : d \notin added
      BY <2>3
    <3>2. Waits(d) \/ Unsettled(d)
      BY <1>1, <1>4, <3>1 DEF OrderInv, WaitsInv
    <3>3. CASE Waits(d)
      <4>1. ExtDeps(r) # {}
        BY DEF WaitedInv
      <4>2. Overtaken(a)
        BY <1>6, <3>1, <3>3, <4>1 DEF Overtaken
      <4>3. QED
        BY <4>2 DEF Unsettled
    <3>4. CASE Unsettled(d)
      <4>1. d \in Chain(r) /\ r \in Chain(a)
        BY <1>4, <1>6, <3>1
      <4>2. Unsettled(r)
        BY <1>1, <3>4, <4>1, HeldUp
      <4>3. QED
        BY <1>1, <4>1, <4>2, HeldUp
    <3>5. QED
      BY <3>2, <3>3, <3>4
  <2>4. QED
    BY <1>6, <2>1, <2>2, <2>3, WhyParked
<1>7. \A p \in Providers : Sorted(parked'[p])
  <2>1. \A p \in Providers : parked[p] \in Seq(Res) /\ Sorted(parked[p])
    BY <1>1 DEF OrderInv, SortedInv
  <2>2. CASE parked' = parked
    BY <2>1, <2>2
  <2>3. CASE ParkedFor(r) /\ added' = added
             /\ parked' = [parked EXCEPT ![Prov(r)] = Append(parked[Prov(r)], r)]
    <3>1. Sorted(Append(parked[Prov(r)], r))
      BY <1>3, <1>6, <2>1, <2>3, SortedFacts
    <3>2. QED
      BY <1>1, <1>3, <2>1, <2>3, <3>1
  <2>4. QED
    BY <1>3, <2>2, <2>3
<1>8. SortedInv'
  <2>1. Sorted(retrying') /\ \A p \in Providers : Sorted(parked'[p])
    BY <1>1, <1>7 DEF OrderInv, SortedInv
  <2>2. QED
    BY <1>2, <2>1 DEF SortedInv, Sorted
<1>9. CrossInv'
  <2>1. \A x : ~In(x, retrying')
    BY <1>1 DEF In
  <2>2. QED
    BY <2>1 DEF CrossInv
<1>10. SettledInv'
  <2>1. ASSUME NEW a \in Res, In(a, parked'[Prov(a)]), Prov(a) # Prov(cur), ~Unsettled(a)
        PROVE  \E d \in IntDeps(a) : d \notin added'
    <3>1. In(a, parked[Prov(a)])
      BY <1>3, <2>1, ParkedAfter
    <3>2. PICK d \in IntDeps(a) : d \notin added
      BY <1>1, <2>1, <3>1 DEF OrderInv, SettledInv
    <3>3. d # r
      BY <1>3, <1>4, <2>1, <3>2
    <3>4. QED
      BY <1>3, <3>2, <3>3
  <2>2. Prov(cur)' = Prov(cur)
    BY <1>1 DEF Prov
  <2>3. QED
    BY <1>1, <1>2, <2>1, <2>2 DEF SettledInv
<1>11. QED
  BY <1>5, <1>8, <1>9, <1>10 DEF OrderInv

\* The order, when the parked resources are taken to be tried again.
LEMMA OrderStart ==
  ASSUME Known, OrderInv, StartRetry
  PROVE  OrderInv'
<1>1. /\ step = "added" /\ step' = "retry" /\ phase' = phase /\ cur' = cur
      /\ UNCHANGED <<wf, added>>
      /\ retrying' = parked[Prov(cur)]
      /\ parked' = [parked EXCEPT ![Prov(cur)] = <<>>]
      /\ parked \in [Providers -> Seq(Res)] /\ WellFormed(wf)
      /\ cur \in Res
  BY DEF StartRetry, Goto, Known, IInv, CallInv, TypeOK, QueuesOK
<1>2. \A x : /\ ExtDeps(x)' = ExtDeps(x) /\ IntDeps(x)' = IntDeps(x) /\ Prov(x)' = Prov(x)
             /\ Unsettled(x)' = Unsettled(x) /\ Waits(x)' = Waits(x)
  BY <1>1, Frozen, StillSo
<1>3. /\ \A a \in Res : Prov(a) \in Providers
      /\ \A x : ~In(x, <<>>)
  BY <1>1, Dependencies DEF In
<1>4. \A a \in Res : In(a, parked'[Prov(a)]) => In(a, parked[Prov(a)]) /\ Prov(a) # Prov(cur)
  BY <1>1, <1>3
<1>5. WaitsInv'
  BY <1>1, <1>2 DEF OrderInv, WaitsInv
<1>6. SortedInv'
  <2>1. Sorted(<<>>)
    BY DEF Sorted
  <2>2. Sorted(retrying') /\ \A p \in Providers : Sorted(parked'[p])
    BY <1>1, <1>3, <2>1 DEF OrderInv, SortedInv
  <2>3. QED
    BY <1>2, <2>2 DEF SortedInv, Sorted
<1>7. CrossInv'
  <2>1. \A b \in Res : In(b, retrying') => Prov(b) = Prov(cur)
    BY <1>1, <1>3 DEF Known, PlaceInv, HomeInv
  <2>2. \A a \in Res : \A b \in IntDeps(a) : Prov(b) = Prov(a)
    BY <1>1, Inside
  <2>3. QED
    BY <1>2, <1>4, <2>1, <2>2 DEF CrossInv
<1>8. SettledInv'
  BY <1>1, <1>2, <1>4 DEF OrderInv, SettledInv
<1>9. QED
  BY <1>5, <1>6, <1>7, <1>8 DEF OrderInv

\* The order, when a parked resource is tried again.
LEMMA OrderRetry ==
  ASSUME Known, CallAt, OrderInv, Retry, AddReturns(Head(retrying)), ~Hopeless'
  PROVE  OrderInv'
<1>0. Head(retrying) \in Res /\ In(Head(retrying), retrying)
  BY Membership DEF Retry, Known, IInv, TypeOK, QueuesOK
<1> PICK r \in Res : r = Head(retrying) /\ In(r, retrying)
  BY <1>0
<1>1. /\ step = "retry" /\ step' = "retry" /\ phase' = phase /\ cur' = cur
      /\ wf' = wf /\ retrying \in Seq(Res) /\ retrying # <<>>
      /\ retrying' = Tail(retrying) /\ AddReturns(r)
      /\ parked \in [Providers -> Seq(Res)] /\ WellFormed(wf)
      /\ phase \in Applying
  BY DEF Retry, Goto, Known, IInv, TypeOK, QueuesOK, CallAt, Creating, Applying
<1>2. \A x : /\ ExtDeps(x)' = ExtDeps(x) /\ IntDeps(x)' = IntDeps(x) /\ Prov(x)' = Prov(x)
             /\ Unsettled(x)' = Unsettled(x) /\ Waits(x)' = Waits(x)
  BY <1>1, Frozen, StillSo
<1>3. /\ \/ /\ ParkedFor(r) /\ added' = added
            /\ parked' = [parked EXCEPT ![Prov(r)] = Append(parked[Prov(r)], r)]
         \/ /\ added' = added \cup {r} /\ parked' = parked
      /\ Prov(r) \in Providers /\ Prov(r) = Prov(cur)
  <2>1. ~Blocked(r)
    BY Unblocked
  <2>2. Prov(r) = Prov(cur)
    BY DEF Known, PlaceInv, HomeInv
  <2>3. QED
    BY <1>1, <2>1, <2>2, AddEffects, Dependencies
<1>4. \A x \in Res : \A d \in IntDeps(x) : d \in Res /\ Prov(d) = Prov(x)
  BY <1>1, Inside
<1>5. WaitsInv'
  BY <1>1, <1>2, <1>3 DEF OrderInv, WaitsInv
<1>6. \A a \in Res : In(a, parked[Prov(r)]) /\ r \in IntDeps(a) => Unsettled(a)
  BY <1>3, <1>4 DEF OrderInv, CrossInv
<1>7. /\ Sorted(Tail(retrying))
      /\ \A y : In(y, Tail(retrying)) => In(y, retrying)
      /\ \A y : In(y, Tail(retrying)) /\ y \in IntDeps(r) => Unsettled(r)
  BY <1>1, SortedFacts, Membership DEF OrderInv, SortedInv
<1>8. \A p \in Providers : Sorted(parked'[p])
  <2>1. \A p \in Providers : parked[p] \in Seq(Res) /\ Sorted(parked[p])
    BY <1>1 DEF OrderInv, SortedInv
  <2>2. CASE parked' = parked
    BY <2>1, <2>2
  <2>3. CASE parked' = [parked EXCEPT ![Prov(r)] = Append(parked[Prov(r)], r)]
    <3>1. Sorted(Append(parked[Prov(r)], r))
      BY <1>3, <1>6, <2>1, SortedFacts
    <3>2. QED
      BY <1>1, <1>3, <2>1, <2>3, <3>1
  <2>4. QED
    BY <1>3, <2>2, <2>3
<1>9. SortedInv'
  <2>1. Sorted(retrying') /\ \A p \in Providers : Sorted(parked'[p])
    BY <1>1, <1>7, <1>8
  <2>2. QED
    BY <1>2, <2>1 DEF SortedInv, Sorted
<1>10. \A a \in Res : In(a, parked'[Prov(a)]) =>
         In(a, parked[Prov(a)]) \/ (a = r /\ ParkedFor(r) /\ added' = added
                                    /\ In(r, parked'[Prov(r)]))
  BY <1>3, ParkedAfter
<1>11. CrossInv'
  <2>1. ASSUME NEW a \in Res, NEW b \in Res, In(a, parked'[Prov(a)]), In(b, Tail(retrying)),
               b \in IntDeps(a)
        PROVE  Unsettled(a)
    <3>1. CASE In(a, parked[Prov(a)])
      BY <1>7, <2>1, <3>1 DEF OrderInv, CrossInv
    <3>2. CASE a = r
      BY <1>7, <2>1, <3>2
    <3>3. QED
      BY <1>10, <2>1, <3>1, <3>2
  <2>2. QED
    BY <1>1, <1>2, <2>1 DEF CrossInv
<1>12. SettledInv'
  <2>1. ASSUME NEW a \in Res, In(a, parked'[Prov(a)]), ~Unsettled(a)
        PROVE  \E d \in IntDeps(a) : d \notin added'
    <3>1. CASE In(a, parked[Prov(a)])
      <4>1. PICK d \in IntDeps(a) : d \notin added
        BY <1>1, <2>1, <3>1 DEF OrderInv, SettledInv
      <4>2. d # r
        BY <1>4, <1>6, <2>1, <3>1, <4>1
      <4>3. QED
        BY <1>3, <4>1, <4>2
    <3>2. CASE a = r /\ ParkedFor(r) /\ added' = added /\ In(r, parked'[Prov(r)])
      <4>1. IntDeps(r) \cap wf.blank[r] = {}
        BY <1>1, <1>2, <3>2 DEF Hopeless, Stuck, Res
      <4>2. ~ReadsLate(r)
        BY <2>1, <3>2 DEF Unsettled
      <4>3. QED
        BY <3>2, <4>1, <4>2, WhyParked
    <3>3. QED
      BY <1>10, <2>1, <3>1, <3>2
  <2>2. QED
    BY <1>2, <2>1 DEF SettledInv
<1>13. QED
  BY <1>5, <1>9, <1>11, <1>12 DEF OrderInv

\* OrderInv holds as long as nothing goes wrong and it is not hopeless.
LEMMA OrderStep ==
  ASSUME Known, CallAt, WaitedInv, OrderInv, CleanNext, ~Hopeless'
  PROVE  OrderInv'
BY OrderOthers, OrderAdd, OrderDrain, OrderStart, OrderRetry DEF CleanNext
-----------------------------------------------------------------------------
(***************************************************************************)
(* What is created by the time its turn is over.                           *)
(***************************************************************************)

\* Above a resource that is no service and not excused there is no service.
LEMMA NoServiceBelow ==
  ASSUME WellFormed(wf), NEW r \in NonServices, ~Excused(r), NEW d \in Chain(r)
  PROVE  /\ d \in NonServices
         /\ \A e \in ExtDeps(d) : e \in NonServices
<1>1. /\ r \in Res
      /\ \A y \in Chain(r) : y \in Res /\ \A s \in wf.needs[y] : ~IsService(wf, s)
  BY ChainFacts DEF Excused, Chain, NonServices
<1>2. \A y \in Res : \A s \in wf.needs[y] : s \in Res
  BY DEF WellFormed, WorkflowType
<1>3. \A y \in Res : /\ \A e \in IntDeps(y) : e \in wf.needs[y]
                     /\ \A e \in ExtDeps(y) : e \in wf.needs[y]
  BY DEF IntDeps, Internal, ExtDeps, External
<1>4. \A e \in ExtDeps(d) : e \in NonServices
  BY <1>1, <1>2, <1>3 DEF NonServices
<1>5. d = r \/ \E y \in Chain(r) : d \in IntDeps(y)
  BY <1>1, ChainFacts
<1>6. d \in NonServices
  BY <1>1, <1>2, <1>3, <1>5 DEF NonServices
<1>7. QED
  BY <1>4, <1>6

\* When create_resource has nothing left to try, the resource it is called for
\* is added, or its turn may come too early.  Otherwise look at the first one
\* on its chain that is not added: it is not parked, since it needs nothing on
\* its provider that is missing, and it cannot be waiting for another provider,
\* whose resources have had their turn.
LEMMA AddedByTurn ==
  ASSUME Known, CallAt, Clean, LiveInv, OrderInv, ~Hopeless,
         step = "drain", draining = <<>>, cur \notin added
  PROVE  Excused(cur)
<1>1. /\ phase \in Creating /\ cur \in Selected(phase) /\ cur \in Res
      /\ WellFormed(wf) /\ heard = {} /\ retrying = <<>>
      /\ ready[Prov(cur)] = <<>>
      /\ made \in [Res -> Nat] /\ pending \subseteq Res
  BY DEF CallAt, Selected, NonServices, Known, IInv, CallInv, TypeOK, ValuesOK, QueuesOK,
         PlaceInv, ListInv, LiveInv, ReadyInv
<1> PICK r \in Res : r = cur
  BY <1>1
<1>2. SUFFICES ASSUME ~Excused(r)
               PROVE  FALSE
  OBVIOUS
<1>3. /\ r \in Chain(r)
      /\ \A d \in Chain(r) : d \in Res /\ Prov(d) = Prov(r) /\ d <= r /\ d \in Nat
      /\ \A d \in Chain(r) : IntDeps(d) \subseteq Chain(r)
  BY <1>1, ChainFacts, WorkflowAssumption DEF Res
<1>4. PICK x \in Chain(r) : x \notin added /\ \A d \in Chain(r) : d \notin added => x <= d
  <2> DEFINE S == {d \in Chain(r) : d \notin added}
  <2>1. S \in SUBSET Nat /\ S # {}
    BY <1>1, <1>3
  <2> HIDE DEF S
  <2>2. PICK n \in S : \A m \in S : n <= m
    BY <2>1, Least
  <2>3. QED
    BY <2>2 DEF S
<1>5. x \in Res /\ Prov(x) = Prov(r) /\ x <= r
  BY <1>3, <1>4
<1>6. x \in pending \/ In(x, parked[Prov(x)])
  <2>1. x \in pending \/ Released(x)
    BY <1>1, <1>5 DEF Known, LossInv, LostIsReported, Creating, Clean
  <2>2. \A y : ~In(y, <<>>)
    BY DEF In
  <2>3. \A p \in Providers : In(x, ready[p]) \/ In(x, parked[p]) => p = Prov(x)
    BY <1>5 DEF Known, PlaceInv, HomeInv
  <2>4. QED
    BY <1>1, <1>4, <1>5, <2>1, <2>2, <2>3 DEF Released
<1>7. ~In(x, parked[Prov(x)])
  <2>1. SUFFICES ASSUME In(x, parked[Prov(x)])
                 PROVE  FALSE
    OBVIOUS
  <2>2. ~Unsettled(x)
    BY <1>1, <1>2, HeldUp DEF Excused
  <2>3. PICK d \in IntDeps(x) : d \notin added
    BY <1>5, <2>1, <2>2 DEF OrderInv, SettledInv
  <2>4. d \in Chain(r) /\ d < x /\ d \in Nat /\ x \in Nat
    BY <1>1, <1>3, <1>5, <2>3, Inside
  <2>5. QED
    BY <1>4, <2>3, <2>4
<1>8. ASSUME x \in pending
      PROVE  FALSE
  <2>1. PICK e \in ExtDeps(x) : got[x][e] # Count(e)
    BY <1>8 DEF LiveInv, ShortInv, ExtFull
  <2>2. e \in Res /\ e \in wf.needs[x] /\ e < x /\ Count(e) \in Nat /\ made[e] <= Count(e)
    <3>1. e \in Res /\ Count(e) \in Nat
      BY <1>1, <1>5, <2>1, Dependencies
    <3>2. e \in wf.needs[x]
      BY <2>1 DEF ExtDeps, External
    <3>3. e < x
      BY <1>1, <1>5, <3>2, WorkflowAssumption DEF WellFormed, Res
    <3>4. QED
      BY <3>1, <3>2, <3>3 DEF Known, IInv, CountInv
  <2>3. ~Starved(x)
    BY <1>8 DEF Hopeless
  <2>4. e \notin wf.blank[x] /\ ~(TurnOver(e) /\ made[e] < Count(e))
    BY <2>3 DEF Starved
  <2>5. got[x][e] = made[e]
    BY <1>1, <1>8, <2>4 DEF LiveInv, PendInv
  <2>6. made[e] < Count(e)
    BY <1>1, <2>1, <2>2, <2>5
  <2>7. TurnOver(e)
    <3>1. e < r
      BY <1>5, <2>2, WorkflowAssumption DEF Res
    <3>2. CASE phase \in {"first", "rest"}
      <4>1. r \in NonServices
        BY <1>1, <3>2 DEF Selected
      <4>2. x \in NonServices /\ e \in NonServices
        BY <1>1, <1>2, <4>1, NoServiceBelow
      <4>3. e \in Selected("first")
        BY <4>2 DEF Selected, CreateAndWait
      <4>4. QED
        BY <3>1, <3>2, <4>3 DEF TurnOver
    <3>3. CASE phase = "service"
      BY <3>1, <3>3 DEF TurnOver
    <3>4. QED
      BY <1>1, <3>2, <3>3 DEF Creating
  <2>8. QED
    BY <2>4, <2>6, <2>7
<1>9. QED
  BY <1>6, <1>7, <1>8

\* What the second loop has been through is added by the time it is waited for.
AddedInv ==
  \A x \in Selected("rest") :
    (phase = "rest" /\ x < cur) \/ phase = "wait" => x \in added \/ Excused(x)

\* In the first loop the wait follows the creation.
AwaitInv ==
  phase = "first" /\ step = "await" =>
    \A x \in Res : x = cur =>
      /\ x \in added /\ x \notin wf.async => made[x] = Count(x)
      /\ x \notin added => Excused(x)

\* The tests are made before the services are looked at.
TestInv == phase = "test" => cur = 1

\* What has had its turn is created.
DoneInv == \A r \in Res : TurnOver(r) => made[r] = Count(r) \/ Excused(r)

TurnInv == AddedInv /\ AwaitInv /\ TestInv /\ DoneInv
\* The workflow's part of TurnInv does not change; nothing is taken back.
LEMMA TurnKept ==
  ASSUME Known, CallAt, TurnInv, CleanNext, wf' = wf
  PROVE  /\ \A ph : Selected(ph)' = Selected(ph)
         /\ NonServices' = NonServices
         /\ \A x : Excused(x)' = Excused(x) /\ Count(x)' = Count(x)
         /\ added \subseteq added'
         /\ \A e \in Res : TurnOver(e) =>
              TurnOver(e)' /\ (made'[e] = Count(e) \/ Excused(e))
<1>1. /\ \A ph : Selected(ph)' = Selected(ph)
      /\ NonServices' = NonServices
      /\ \A x : Excused(x)' = Excused(x) /\ Count(x)' = Count(x)
  BY Frozen, StillSo
<1>2. added \subseteq added'
  <2>1. \A r : AddReturns(r) => added \subseteq added'
    BY DEF AddReturns, AddPending, AddParked, AddDone
  <2>2. QED
    BY <2>1 DEF CleanNext, Moves, EnterCreate, Drain, StartRetry, MakeOne, OnCreated, queues
<1>3. \A e \in Res : TurnOver(e) => TurnOver(e)' /\ (made'[e] = Count(e) \/ Excused(e))
  BY TurnStaysOver DEF TurnInv, DoneInv
<1>4. QED
  BY <1>1, <1>2, <1>3

\* A step inside a call: no turn ends.
LEMMA TurnInside ==
  ASSUME Known, CallAt, TurnInv, CleanNext, wf' = wf, UNCHANGED <<phase, cur, exit>>,
         AwaitInv'
  PROVE  TurnInv'
<1>1. /\ \A ph : Selected(ph)' = Selected(ph)
      /\ NonServices' = NonServices
      /\ \A x : Excused(x)' = Excused(x) /\ Count(x)' = Count(x)
      /\ added \subseteq added'
      /\ \A e \in Res : TurnOver(e) => made'[e] = Count(e) \/ Excused(e)
  BY TurnKept
<1>2. \A e : TurnOver(e)' => TurnOver(e)
  BY <1>1 DEF TurnOver
<1>3. DoneInv'
  BY <1>1, <1>2 DEF DoneInv, Res
<1>4. AddedInv' /\ TestInv'
  BY <1>1 DEF AddedInv, TestInv, TurnInv
<1>5. QED
  BY <1>3, <1>4 DEF TurnInv

\* Going on to the next resource: what is new is that the turn of cur is over.
LEMMA TurnNext ==
  ASSUME Known, CallAt, TurnInv, CleanNext, wf' = wf, cur \in Res, phase' = phase,
         phase \in {"first", "rest", "wait", "service"}, cur' = cur + 1,
         step' = "idle",
         /\ phase \in {"first", "service"} \/ (phase = "rest" /\ cur \notin wf.async) =>
              (cur \in Selected(phase) => made'[cur] = Count(cur) \/ Excused(cur))
         /\ phase = "wait" =>
              (cur \in Selected(phase) /\ cur \in wf.async =>
                 made'[cur] = Count(cur) \/ Excused(cur))
         /\ phase = "rest" => (cur \in Selected("rest") => cur \in added' \/ Excused(cur))
  PROVE  TurnInv'
<1>1. /\ \A ph : Selected(ph)' = Selected(ph)
      /\ NonServices' = NonServices
      /\ \A x : Excused(x)' = Excused(x) /\ Count(x)' = Count(x)
      /\ added \subseteq added'
      /\ \A e \in Res : TurnOver(e) => made'[e] = Count(e) \/ Excused(e)
  BY TurnKept
<1>2. \A e \in Res : e < cur + 1 <=> e < cur \/ e = cur
  BY WorkflowAssumption DEF Res
<1>3. ASSUME NEW e \in Res, TurnOver(e)'
      PROVE  made'[e] = Count(e) \/ Excused(e)
  <2>1. CASE TurnOver(e)
    BY <1>1, <2>1
  <2>2. CASE ~TurnOver(e)
    <3>1. /\ e = cur
          /\ \/ phase = "first" /\ e \in Selected("first")
             \/ phase = "rest" /\ e \in Selected("rest") /\ e \notin wf.async
             \/ phase = "wait" /\ e \in Selected("rest") /\ e \in wf.async
             \/ phase = "service" /\ e \notin NonServices
      BY <1>1, <1>2, <1>3, <2>2 DEF TurnOver
    <3>2. /\ Selected("wait") = Selected("rest")
          /\ e \notin NonServices => e \in Selected("service")
      BY DEF Selected
    <3>3. QED
      BY <3>1, <3>2
  <2>3. QED
    BY <2>1, <2>2
<1>4. DoneInv'
  BY <1>1, <1>3 DEF DoneInv, Res
<1>5. AddedInv'
  <2>1. \A x \in Selected("rest") : x \in Res
    BY DEF Selected, NonServices
  <2>2. QED
    BY <1>1, <1>2, <2>1 DEF AddedInv, TurnInv
<1>6. AwaitInv' /\ TestInv'
  BY DEF AwaitInv, TestInv
<1>7. QED
  BY <1>4, <1>5, <1>6 DEF TurnInv

\* The turn of a resource is over when its call returns.
LEMMA TurnEndCall ==
  ASSUME Known, CallAt, TurnInv, EndCall, CleanNext
  PROVE  TurnInv'
<1>1. /\ step \in {"create", "await"} /\ UNCHANGED <<wf, added, made, exit>> /\ cur \in Res
      /\ Reports(step) => made[cur] = Count(cur)
      /\ step = "create" => cur \in added /\ phase \in Creating /\ cur \in Selected(phase)
      /\ step = "await" => phase \in {"first", "wait"} /\ cur \in Selected(phase)
  BY DEF EndCall, queues, values, outcome, Known, IInv, CallInv, CallAt
<1>2. /\ step = "create" /\ cur \notin wf.async => made[cur] = Count(cur)
      /\ step = "await" /\ cur \in wf.async /\ cur \in added => made[cur] = Count(cur)
  BY <1>1 DEF Reports
<1>3. CASE step = "create" /\ phase = "first"
  <2>1. phase' = phase /\ cur' = cur
    BY <1>3 DEF EndCall, Goto
  <2>2. AwaitInv'
    <3>1. \A x : Count(x)' = Count(x)
      BY <1>1, Frozen
    <3>2. QED
      BY <1>1, <1>2, <1>3, <2>1, <3>1 DEF AwaitInv
  <2>3. QED
    BY <1>1, <2>1, <2>2, TurnInside
<1>4. CASE ~(step = "create" /\ phase = "first")
  <2>1. phase' = phase /\ cur' = cur + 1 /\ step' = "idle"
    BY <1>4 DEF EndCall, Advance
  <2>2. CASE step = "create"
    <3>1. phase \in {"rest", "service"}
      BY <1>1, <1>4, <2>2 DEF Creating
    <3>2. phase = "service" => cur \notin wf.async
      BY <1>1, <2>2 DEF Selected, NonServices, Known, IInv, TypeOK, WellFormed, IsService
    <3>3. QED
      BY <1>1, <1>2, <2>1, <2>2, <3>1, <3>2, TurnNext
  <2>3. CASE step = "await"
    <3>1. phase = "first" => made[cur] = Count(cur) \/ Excused(cur)
      BY <1>1, <1>2, <2>3 DEF TurnInv, AwaitInv
    <3>2. phase = "wait" /\ cur \in wf.async => made[cur] = Count(cur) \/ Excused(cur)
      <4>1. phase = "wait" => cur \in Selected("rest")
        BY <1>1, <2>3 DEF Selected
      <4>2. QED
        BY <1>2, <2>3, <4>1 DEF TurnInv, AddedInv
    <3>3. QED
      BY <1>1, <2>1, <2>3, <3>1, <3>2, TurnNext
  <2>4. QED
    BY <1>1, <2>2, <2>3
<1>5. QED
  BY <1>3, <1>4

\* ... or when create_resource returns without a call.
LEMMA TurnEndDrain ==
  ASSUME Known, CallAt, Clean, LiveInv, OrderInv, ~Hopeless, TurnInv, EndDrain, CleanNext
  PROVE  TurnInv'
<1>1. /\ step = "drain" /\ draining = <<>> /\ UNCHANGED <<wf, added, made, exit>>
      /\ cur \in Res /\ phase \in Creating
  BY DEF EndDrain, queues, values, outcome, Known, IInv, CallInv, CallAt
<1>2. cur \notin added => Excused(cur)
  BY <1>1, AddedByTurn
<1>3. CASE cur \in added \/ phase = "first"
  <2>1. phase' = phase /\ cur' = cur /\ (step' = "await" => cur \notin added)
    BY <1>3 DEF EndDrain, Goto
  <2>2. AwaitInv'
    <3>1. \A x : Excused(x)' = Excused(x)
      BY <1>1, StillSo
    <3>2. QED
      BY <1>1, <1>2, <2>1, <3>1 DEF AwaitInv
  <2>3. QED
    BY <1>1, <2>1, <2>2, TurnInside
<1>4. CASE ~(cur \in added \/ phase = "first")
  <2>1. phase' = phase /\ cur' = cur + 1 /\ step' = "idle"
    BY <1>4 DEF EndDrain, Advance
  <2>2. phase \in {"rest", "service"}
    BY <1>1, <1>4 DEF Creating
  <2>3. QED
    BY <1>1, <1>2, <1>4, <2>1, <2>2, TurnNext
<1>5. QED
  BY <1>3, <1>4
\* TurnInv holds as long as nothing goes wrong and it is not hopeless.
LEMMA TurnStep ==
  ASSUME Known, CallAt, Clean, LiveInv, OrderInv, ~Hopeless, TurnInv, CleanNext
  PROVE  TurnInv'
<1>0. wf' = wf
  BY DEF CleanNext, Moves, Add, EnterCreate, Drain, StartRetry, Retry, MakeOne, OnCreated
<1>1. CASE EndDrain
  BY <1>1, TurnEndDrain
<1>2. CASE EndCall
  BY <1>2, TurnEndCall
<1>3. CASE \/ EnterCreate \/ Drain \/ StartRetry \/ Retry \/ EndRetry \/ EnterWait
           \/ UNCHANGED vars
  <2>1. UNCHANGED <<phase, cur, exit>>
    BY <1>3 DEF EnterCreate, Drain, StartRetry, Retry, EndRetry, EnterWait, Goto,
                control, outcome, vars
  <2>2. CASE UNCHANGED vars
    <3>1. AwaitInv'
      <4>1. \A x : Excused(x)' = Excused(x) /\ Count(x)' = Count(x)
        BY <1>0, Frozen, StillSo
      <4>2. QED
        BY <2>2, <4>1 DEF AwaitInv, TurnInv, vars, control, queues, values
    <3>2. QED
      BY <1>0, <2>1, <3>1, TurnInside
  <2>3. CASE ~(UNCHANGED vars)
    <3>1. phase' = "first" => step' # "await"
      BY <1>3, <2>1, <2>3 DEF EnterCreate, Drain, StartRetry, Retry, EndRetry, EnterWait, Goto
    <3>2. AwaitInv'
      BY <3>1 DEF AwaitInv
    <3>3. QED
      BY <1>0, <2>1, <3>2, TurnInside
  <2>4. QED
    BY <2>2, <2>3
<1>4. CASE MakeOne \/ \E r \in Res : OnCreated(r)
  <2>1. /\ UNCHANGED <<phase, cur, exit, step, added>>
        /\ cur \in Res
    BY <1>4 DEF MakeOne, OnCreated, control, queues, outcome, Known, IInv, CallInv
  <2>2. step = "await" => made' = made \/ cur \in wf.async
    BY <1>4 DEF MakeOne, OnCreated, Reports
  <2>3. AwaitInv'
    <3>1. \A x : Excused(x)' = Excused(x) /\ Count(x)' = Count(x)
      BY <1>0, Frozen, StillSo
    <3>2. QED
      BY <1>0, <2>1, <2>2, <3>1 DEF AwaitInv, TurnInv
  <2>4. QED
    BY <1>0, <2>1, <2>3, TurnInside
<1>5. CASE Onward
  <2>1. CASE EndPhase
    <3>1. /\ cur = N + 1 /\ cur' = 1 /\ step' = "idle" /\ phase' = NextPhase
          /\ phase \in {"validate", "add", "first", "rest", "wait", "service"}
          /\ UNCHANGED <<exit, added>>
      BY <2>1 DEF EndPhase, outcome, queues
    <3>2. /\ \A ph : Selected(ph)' = Selected(ph)
          /\ NonServices' = NonServices
          /\ \A x : Excused(x)' = Excused(x) /\ Count(x)' = Count(x)
          /\ \A e \in Res : TurnOver(e) => made'[e] = Count(e) \/ Excused(e)
      BY <1>0, TurnKept
    <3>3. \A e \in Res : e < N + 1 /\ ~(e < 1)
      BY WorkflowAssumption DEF Res
    <3>4. /\ \A e \in Selected("rest") : e \in Res
          /\ \A e \in Selected("first") : e \in Res
          /\ \A e \in NonServices : e \in Selected("first") \/ e \in Selected("rest")
      BY DEF Selected, NonServices
    <3>5. \A e \in Res : TurnOver(e)' => TurnOver(e)
      <4>1. CASE phase \in {"validate", "add"}
        BY <3>1, <3>3, <4>1 DEF TurnOver, NextPhase
      <4>2. CASE phase = "first"
        BY <3>1, <3>2, <3>3, <4>2 DEF TurnOver, NextPhase
      <4>3. CASE phase = "rest"
        BY <1>0, <3>1, <3>2, <3>3, <4>3 DEF TurnOver, NextPhase
      <4>4. CASE phase = "wait"
        BY <3>1, <3>2, <3>3, <3>4, <4>4 DEF TurnOver, NextPhase
      <4>5. CASE phase = "service"
        BY <3>1, <3>2, <3>3, <4>5 DEF TurnOver, NextPhase
      <4>6. QED
        BY <3>1, <4>1, <4>2, <4>3, <4>4, <4>5
    <3>6. DoneInv'
      BY <3>2, <3>5 DEF DoneInv, Res
    <3>7. AddedInv'
      BY <3>1, <3>2, <3>3, <3>4 DEF AddedInv, NextPhase, TurnInv
    <3>8. AwaitInv' /\ TestInv'
      BY <3>1 DEF AwaitInv, TestInv
    <3>9. QED
      BY <3>6, <3>7, <3>8 DEF TurnInv
  <2>2. CASE phase = "test" /\ phase' = "service" /\ cur' = cur /\ ~EndPhase
    <3>1. cur' = 1
      BY <2>2 DEF TurnInv, TestInv
    <3>2. /\ NonServices' = NonServices
          /\ \A x : Excused(x)' = Excused(x) /\ Count(x)' = Count(x)
          /\ \A e \in Res : TurnOver(e) => made'[e] = Count(e) \/ Excused(e)
      BY <1>0, TurnKept
    <3>3. \A e \in Res : ~(e < 1)
      BY WorkflowAssumption DEF Res
    <3>4. \A e \in Res : TurnOver(e)' => TurnOver(e)
      BY <2>2, <3>1, <3>2, <3>3 DEF TurnOver
    <3>5. DoneInv'
      BY <3>2, <3>4 DEF DoneInv, Res
    <3>6. QED
      BY <2>2, <3>5 DEF TurnInv, AddedInv, AwaitInv, TestInv
  <2>3. CASE /\ phase \in {"validate", "first", "rest", "wait", "service"}
             /\ cur \in Res \ Selected(phase) /\ cur' = cur + 1 /\ phase' = phase
             /\ step' = "idle"
    <3>1. CASE phase = "validate"
      BY <2>3, <3>1 DEF TurnInv, AddedInv, AwaitInv, TestInv, DoneInv, TurnOver
    <3>2. CASE phase # "validate"
      <4>1. Selected("wait") = Selected("rest")
        BY DEF Selected
      <4>2. QED
        BY <1>0, <2>3, <3>2, <4>1, TurnNext
    <3>3. QED
      BY <3>1, <3>2
  <2>4. QED
    BY <1>5, <2>1, <2>2, <2>3 DEF Onward
<1>6. CASE Save
  <2>1. /\ phase = "save" /\ phase' = "exit" /\ step' = step
        /\ \A e \in Res : TurnOver(e) => made'[e] = Count(e) \/ Excused(e)
        /\ \A x : Excused(x)' = Excused(x) /\ Count(x)' = Count(x)
    BY <1>0, <1>6, TurnKept DEF Save
  <2>2. DoneInv'
    BY <2>1 DEF DoneInv, TurnOver, Res
  <2>3. QED
    BY <2>1, <2>2 DEF TurnInv, AddedInv, AwaitInv, TestInv
<1>7. CASE PlanInterrupted
  <2>1. phase' = "exit" /\ exit'.saved = FALSE
    BY <1>7 DEF PlanInterrupted, Quit
  <2>2. QED
    BY <2>1 DEF TurnInv, AddedInv, AwaitInv, TestInv, DoneInv, TurnOver
<1>8. CASE Add /\ phase' = phase
  BY <1>8 DEF Add, TurnInv, AddedInv, AwaitInv, TestInv, DoneInv, TurnOver
<1>9. QED
  BY <1>1, <1>2, <1>3, <1>4, <1>5, <1>6, <1>7, <1>8 DEF CleanNext, Moves
-----------------------------------------------------------------------------
\* What the theorem below rests on, in one formula: the last part speaks of runs
\* in which nothing has gone wrong, and all can still be created.
ExitInv ==
  /\ CallAt /\ ErrInv /\ BlankInv
  /\ Clean => LiveInv
  /\ Clean /\ ~Hopeless => OrderInv /\ TurnInv

\* ExitInv holds in the beginning.
LEMMA ExitInit == Init => ExitInv
<1>1. ASSUME Init
      PROVE  /\ wf \in Workflows /\ phase = "validate" /\ cur = 1 /\ step = "idle"
             /\ pending = {} /\ draining = <<>> /\ retrying = <<>> /\ heard = {}
             /\ ready = [p \in Providers |-> <<>>] /\ parked = [p \in Providers |-> <<>>]
             /\ got = [r \in Res |-> [d \in Res |-> 0]]
             /\ made = [r \in Res |-> 0]
             /\ WellFormed(wf)
             /\ \A x : ~In(x, <<>>)
             /\ \A r \in Res : Prov(r) \in Providers
  <2>1. WellFormed(wf)
    BY <1>1, WorkflowAssumption DEF Init
  <2>2. QED
    BY <1>1, <2>1, Dependencies DEF Init, In
<1>2. ASSUME Init
      PROVE  CallAt /\ ErrInv
  BY <1>1, <1>2 DEF CallAt, ErrInv
<1>3. ASSUME Init
      PROVE  BlankInv
  <2>1. \A x \in Res : wf.blank[x] \subseteq Res
    BY <1>1, <1>3 DEF WellFormed, WorkflowType
  <2>2. QED
    BY <1>1, <1>3, <2>1 DEF BlankInv
<1>4. ASSUME Init
      PROVE  LiveInv
  BY <1>1, <1>4 DEF LiveInv, WaitedInv, ZeroInv, ReadyInv, PendInv, ShortInv
<1>5. ASSUME Init
      PROVE  OrderInv
  <2>1. Sorted(<<>>)
    BY DEF Sorted
  <2>2. QED
    BY <1>1, <1>5, <2>1 DEF OrderInv, WaitsInv, SortedInv, CrossInv, SettledInv, Applying
<1>6. ASSUME Init
      PROVE  TurnInv
  BY <1>1, <1>6 DEF TurnInv, AddedInv, AwaitInv, TestInv, DoneInv, TurnOver
<1>7. QED
  BY <1>2, <1>3, <1>4, <1>5, <1>6 DEF ExitInv

\* ExitInv is inductive.
LEMMA ExitStep == Known /\ ExitInv /\ [Next]_vars => ExitInv'
<1>1. ASSUME Known, ExitInv, [Next]_vars
      PROVE  CallAt' /\ ErrInv' /\ BlankInv'
  BY <1>1, CallAtStep, ErrStep, BlankStep DEF ExitInv, Known
<1>2. ASSUME Known, ExitInv, [Next]_vars, Clean'
      PROVE  LiveInv' /\ (~Hopeless' => OrderInv' /\ TurnInv')
  <2>1. Clean /\ wf' = wf /\ CleanNext
    BY <1>2, CleanBack
  <2>2. CallAt /\ BlankInv /\ LiveInv /\ (~Hopeless => OrderInv /\ TurnInv)
    BY <1>2, <2>1 DEF ExitInv
  <2>3. LiveInv'
    BY <1>2, <2>1, <2>2, LiveStep
  <2>4. ~Hopeless' => ~Hopeless
    BY <1>2, <2>1, <2>2, HopelessStays
  <2>5. ~Hopeless' => OrderInv'
    BY <1>2, <2>1, <2>2, <2>4, OrderStep DEF LiveInv
  <2>6. ~Hopeless' => TurnInv'
    BY <1>2, <2>1, <2>2, <2>4, TurnStep
  <2>7. QED
    BY <2>3, <2>5, <2>6
<1>3. QED
  BY <1>1, <1>2 DEF ExitInv

\* A success leaves nothing pending and nothing parked: there was hope.
LEMMA ExitIsClean == Known /\ ExitInv => CleanExit
<1>1. SUFFICES ASSUME Known, ExitInv, phase = "exit", exit.code = 0
               PROVE  exit.saved /\ \A r \in Res : made[r] < Count(r) => Excused(r)
  BY DEF CleanExit
<1>2. exit.saved /\ Clean /\ pending = {} /\ \A p \in Providers : parked[p] = <<>>
  BY <1>1 DEF ExitInv, ErrInv
<1>3. retrying = <<>>
  BY <1>1 DEF ExitInv, CallAt, Creating, Known, PlaceInv, ListInv
<1>4. ~Hopeless
  <2>1. \A x \in Res : Prov(x) \in Providers
    BY <1>1, Dependencies DEF Known, IInv, TypeOK
  <2>2. \A x : ~In(x, <<>>)
    BY DEF In
  <2>3. QED
    BY <1>2, <1>3, <2>1, <2>2 DEF Hopeless, Stuck
<1>5. \A r \in Res : made[r] = Count(r) \/ Excused(r)
  BY <1>1, <1>2, <1>4 DEF ExitInv, TurnInv, DoneInv, TurnOver
<1>6. \A r \in Res : made[r] \in Nat
  BY <1>1 DEF Known, IInv, TypeOK, ValuesOK
<1>7. QED
  BY <1>2, <1>5, <1>6

\* Exit status 0 means that the states are saved and that everything has been
\* created, but for the resources whose turn may come before they are added.
THEOREM CleanExitHolds == Spec => []CleanExit
<1>1. Init => MadeInv /\ LossInv
  BY DEF Init, MadeInv, LossInv, LostIsReported
<1>2. IInv /\ PlaceInv /\ MadeInv /\ LossInv /\ [Next]_vars => MadeInv' /\ LossInv'
  BY MadeStep, LossNext
<1>3. Known <=> IInv /\ PlaceInv /\ MadeInv /\ LossInv
  BY DEF Known
<1>4. QED
  BY <1>1, <1>2, <1>3, ExitInit, ExitStep, ExitIsClean, Invariant, PlaceInvariant, PTL DEF Spec
=============================================================================
