----------------------- MODULE CloudNetworks_proofs -------------------------
(***************************************************************************)
(* The invariants of the two providers with one network each: those of     *)
(* AwsNetwork, for any number of commands and of objects of each kind, and *)
(* then those of GcpNetwork, for any number of commands and of keys.       *)
(***************************************************************************)
EXTENDS AwsNetwork, GcpNetwork, WellFoundedInduction, TLAPS

Applying == {"vpc", "connection", "connected", "gateway", "created", "attach", "attached",
             "routes", "table", "associate", "propagate", "vif", "ready"}
Deleting == {"findGateway", "cut", "deleteTable", "deleteVif", "vifGone", "detach", "detached",
             "deleteGateway", "gatewayGone"}

\* Create and delete keep to their own steps, and know of no gateway before they
\* have looked for one.
PhaseInv ==
  /\ step \in Applying => phase = "apply"
  /\ step \in Deleting => phase = "destroy"
  /\ step \in {"idle", "vpc", "connection", "connected", "gateway", "findGateway"} => vpn = 0
  /\ step \notin {"gatewayGone", "end"} => seen = "none"

\* One thing is known of the network, if any.
KnownInv ==
  /\ \A f, g \in saved.known[1] : f = g
  /\ \A f, g \in reported[1] : f = g

\* There is one gateway of the name, which cannot go while it is attached, and
\* the program holds no other.
GatewayInv ==
  /\ \A g, h \in Listed(gateways) : g = h
  /\ \A g \in Id : gateways[g].state \in {"pending", "deleting", "deleted"} =>
       gateways[g].at \in {"none", "detached"}
  /\ vpn # 0 => gateways[vpn].state # "new" /\ Listed(gateways) \subseteq {vpn}

\* Routes go to gateways that have been made, to one table for each; that of the
\* present gateway is the subnet's unless a destroy has cut it off.
TableInv ==
  /\ \A t \in Live(tables) : tables[t].from # 0 => gateways[tables[t].from].state # "new"
  /\ \A t, u \in Live(tables) : tables[t].from # 0 /\ tables[t].from = tables[u].from => t = u
  /\ \A t \in Live(tables) :
       tables[t].from \in Listed(gateways) => tables[t].subnet \/ tables[t].cut

\* A gateway has one interface.
VifInv ==
  /\ \A i \in Listed(vifs) : gateways[vifs[i].on].state # "new"
  /\ \A i, j \in Listed(vifs) : vifs[i].on = vifs[j].on => i = j

Undeleted == {i \in Listed(vifs) : vifs[i].state # "deleted"}

\* As long as none has been hidden, interfaces go before their gateway does.
StrayInv == ~hidden => \A i \in Undeleted : vifs[i].on \in Live(gateways)

\* What create has found or made is there.
CreateInv ==
  /\ step \in {"attached", "routes", "table", "associate", "propagate", "vif", "ready"} =>
       gateways[vpn].state = "available" /\ gateways[vpn].at \in {"attaching", "attached"}
  /\ step \in {"routes", "table", "associate", "propagate", "vif", "ready"} =>
       gateways[vpn].at = "attached"
  /\ step = "table" => Routing = {}
  /\ step \in {"associate", "propagate"} =>
       Routing = {} /\ table \in Live(tables) /\ tables[table].from = 0
  /\ step = "propagate" => tables[table].subnet
  /\ step \in {"vif", "ready"} => Routing = {table}
  /\ step = "ready" => vifs[vif].state # "new" /\ vifs[vif].on = vpn

\* What delete has dealt with is gone.
DeleteInv ==
  /\ step \in {"findGateway", "cut", "deleteTable"} => \A f \in saved.known[1] : f.table = table
  /\ step = "deleteTable" => table \in Live(tables)
  /\ step \in {"deleteVif", "vifGone", "detach", "detached", "deleteGateway", "gatewayGone"} =>
       \A f \in saved.known[1] : f.table \notin Live(tables)
  /\ ~hidden /\ step = "vifGone" => Undeleted \subseteq {vif}
  /\ ~hidden /\ step \in {"detach", "detached", "deleteGateway", "gatewayGone"} => Undeleted = {}
  /\ step = "gatewayGone" => /\ gateways[vpn].state \in {"deleting", "deleted", "gone"}
                             /\ seen \in {"none", "deleting", "deleted"}
                             /\ seen = "deleted" => gateways[vpn].state # "deleting"

IInv ==
  /\ TypeOK /\ PhaseInv /\ KnownInv /\ GatewayInv /\ TableInv /\ VifInv /\ StrayInv
  /\ CreateInv /\ DeleteInv /\ LeavesNothing
-----------------------------------------------------------------------------
USE AwsAssumption DEF Res

\* A set of numbers that has a member has a least one.
LEMMA LeastOne ==
  ASSUME NEW S \in SUBSET Nat, S # {}
  PROVE  \E i \in S : \A j \in S : i <= j
<1>1. PICK i \in S : \A j \in S : ~ (<<j, i>> \in OpToRel(<, Nat))
  BY NatLessThanWellFounded, WFMin
<1>2. \A j \in S : ~(j < i)
  BY <1>1 DEF OpToRel
<1> QED  BY <1>2

\* The steps of the program that change nothing but where it is.
Waiting  == \/ VpcAvailable \/ Connected \/ GatewayCreated \/ Attached
            \/ NoTable \/ VifDeleted \/ NotAttached \/ Detached
\* Those that remember something they have found,
Finding  == FindGateway \/ FindTable \/ FindVif \/ FindGatewayToDelete
\* that change a gateway, a table or an interface,
OnGateways == CreateGateway \/ Attach \/ Detach \/ DeleteGateway
OnTables   == Disassociate \/ CreateTable \/ Associate \/ Propagate \/ CutSubnets \/ DeleteTable
OnVifs     == CreateVif \/ DeleteVif
\* and that return from delete.
Returning  == NothingToDo \/ GatewayGone \/ GatewayDeleted

\* Next, with the actions that do alike taken together.
LEMMA Actions ==
  ASSUME [Next]_vars
  PROVE  \/ UNCHANGED vars \/ VpcReady \/ DxReady \/ GatewayMoves \/ AttachmentMoves \/ VifMoves
         \/ StartApply \/ StartDestroy \/ Raise \/ End \/ Die \/ Waiting \/ Finding \/ Connect
         \/ OnGateways \/ OnTables \/ OnVifs \/ Created \/ NoVif \/ Look \/ Returning
BY DEF Next, Aws, Processes, Creates, Deletes, Waiting, Finding, OnGateways, OnTables, OnVifs,
   Returning

\* Nothing has been made and nothing is known.
LEMMA Initially == Init => IInv
<1> SUFFICES ASSUME Init PROVE IInv
  OBVIOUS
<1>1. /\ phase = "idle" /\ step = "idle" /\ vpn = 0 /\ table = 0 /\ vif = 0 /\ seen = "none"
      /\ hidden = FALSE /\ saved.known[1] = {} /\ reported[1] = {}
  BY DEF Init, SessionInit, NoFile, Unknown
<1>2. /\ \A i \in Id : gateways[i] = New /\ tables[i] = New /\ vifs[i] = New
      /\ gateways = [i \in Id |-> New] /\ tables = gateways /\ vifs = gateways
  BY DEF Init
<1>3. Listed(gateways) = {} /\ Live(tables) = {} /\ Listed(vifs) = {}
  BY <1>2 DEF Listed, Live, New
<1>4. SessionOK(Facts)
  BY SessionAssumption DEF Init, SessionInit, SessionOK, NoFile, Unknown
<1>5. TypeOK
  <2>1. vpc \in {"pending", "available"} /\ dx \in {"down", "ordering", "pending", "available"}
    BY DEF Init
  <2>2. step \in Steps
    BY <1>1 DEF Steps
  <2>3. \A T : gateways \in [Id -> {New} \cup T] /\ tables \in [Id -> {New} \cup T]
                /\ vifs \in [Id -> {New} \cup T]
    BY <1>2
  <2>4. /\ vpn \in 0..Ids /\ (step \in NeedVpn => vpn # 0)
        /\ table \in 0..Ids /\ (step \in NeedTable => table # 0)
        /\ vif \in 0..Ids /\ (step \in NeedVif => vif # 0)
    BY <1>1 DEF NeedVpn, NeedTable, NeedVif
  <2> QED  BY <1>1, <1>4, <2>1, <2>2, <2>3, <2>4 DEF TypeOK
<1>6. \A g \in Id : gateways[g].state = "new"
  BY <1>2 DEF New
<1> QED
  BY <1>1, <1>3, <1>5, <1>6 DEF IInv, PhaseInv, KnownInv, GatewayInv, TableInv, VifInv, StrayInv,
     CreateInv, DeleteInv, LeavesNothing, Undeleted, Applying, Deleting
-----------------------------------------------------------------------------
(***************************************************************************)
(* The variables of the session keep their types.                          *)
(***************************************************************************)
\* The file after a command has the type of a file.
LEMMA SavesOK ==
  ASSUME NEW F, SessionOK(F), NEW ok \in BOOLEAN,
         SaveApply(ok) \/ SaveDestroy \/ Dies
  PROVE  SessionOK(F)'
<1>1. saved' \in [known : [Res -> SUBSET F], failed : SUBSET Res, counted : BOOLEAN]
  <2>1. CASE SaveApply(ok)
    <3>1. Reconciled \in [Res -> SUBSET F] /\ failed \subseteq Res
      BY DEF SessionOK, Reconciled
    <3>2. {TRUE, \E r \in Res : reported[r] # {}} \subseteq BOOLEAN
      BY ZenonT(30)
    <3>3. PICK s \in [known : {Reconciled}, failed : {failed},
                      counted : {TRUE, \E r \in Res : reported[r] # {}}] : saved' = s
      BY <2>1 DEF SaveApply
    <3> QED  BY <3>1, <3>2, <3>3
  <2>2. CASE SaveDestroy
    BY <2>2 DEF SaveDestroy, SessionOK, NoFile, Unknown
  <2>3. CASE Dies
    BY <2>3 DEF Dies, SessionOK
  <2> QED  BY <2>1, <2>2, <2>3
<1>2. PICK command \in {"apply", "destroy"}, good \in BOOLEAN : Ends(command, good)
  BY DEF SaveApply, SaveDestroy, Dies, SessionOK
<1> QED  BY <1>1, <1>2 DEF SessionOK, Ends, Unknown

\* Every step keeps them.
LEMMA SessionStep ==
  ASSUME IInv, [Next]_vars
  PROVE  SessionOK(Facts)'
<1>0. SessionOK(Facts)
  BY DEF IInv, TypeOK
<1>1. ASSUME UNCHANGED session PROVE SessionOK(Facts)'
  BY <1>0, <1>1 DEF SessionOK, session
<1>2. CASE UNCHANGED vars \/ VpcReady \/ DxReady \/ GatewayMoves \/ AttachmentMoves \/ VifMoves
  BY <1>1, <1>2 DEF vars, VpcReady, DxReady, GatewayMoves, AttachmentMoves, VifMoves
<1>3. CASE StartApply \/ StartDestroy
  <2>1. PICK command \in {"apply", "destroy"}, rs \in SUBSET Res : Begins(command, rs)
    <3>1. Tracked \subseteq Res
      BY <1>0 DEF Tracked, Saved, SessionOK
    <3> QED  BY <1>3, <3>1 DEF StartApply, StartDestroy
  <2>2. left' \in 0..Commands
    BY <1>0, <2>1, SessionAssumption DEF Begins, SessionOK
  <2> QED  BY <1>0, <2>1, <2>2 DEF Begins, SessionOK
<1>4. CASE Raise
  BY <1>0, <1>4 DEF Raise, Fails, Reached, SessionOK
<1>5. CASE End \/ Die
  BY <1>0, <1>5, SavesOK DEF End, Die
<1>6. CASE Waiting \/ Finding \/ Connect \/ Look \/ NoVif
  BY <1>1, <1>6 DEF Waiting, VpcAvailable, Connected, GatewayCreated, Attached, NoTable,
     VifDeleted, NotAttached, Detached, Finding, FindGateway, FindTable, FindVif,
     FindGatewayToDelete, Connect, Look, NoVif
<1>7. CASE OnGateways \/ OnTables \/ OnVifs
  BY <1>1, <1>7 DEF OnGateways, CreateGateway, Attach, Detach, DeleteGateway, OnTables,
     Disassociate, CreateTable, Associate, Propagate, CutSubnets, DeleteTable, OnVifs, CreateVif,
     DeleteVif
<1>8. CASE Created
  <2>1. [table |-> table] \in Facts
    BY DEF Facts, IInv, TypeOK
  <2> QED  BY <1>0, <1>8, <2>1 DEF Created, Succeeds, Reached, SessionOK
<1>9. CASE Returning
  BY <1>0, <1>9 DEF Returning, NothingToDo, GatewayGone, GatewayDeleted, Deleted, Reached, SessionOK
<1> QED  BY <1>2, <1>3, <1>4, <1>5, <1>6, <1>7, <1>8, <1>9, Actions

\* A command keeps to its steps.
LEMMA PhaseStep ==
  ASSUME IInv, [Next]_vars
  PROVE  PhaseInv'
<1> USE DEF PhaseInv, Applying, Deleting, IInv
<1>1. CASE UNCHANGED vars \/ VpcReady \/ DxReady \/ GatewayMoves \/ AttachmentMoves \/ VifMoves
  BY <1>1 DEF vars, VpcReady, DxReady, GatewayMoves, AttachmentMoves, VifMoves, session, local
<1>2. CASE StartApply \/ StartDestroy
  BY <1>2 DEF StartApply, StartDestroy, Begins, local, TypeOK
<1>3. CASE Raise \/ End \/ Die \/ Created \/ Returning
  BY <1>3 DEF Raise, End, Die, Created, Returning, NothingToDo, GatewayGone, GatewayDeleted,
     Forget, Does
<1>4. CASE Waiting \/ Finding \/ Connect \/ Look \/ NoVif
  BY <1>4 DEF Waiting, VpcAvailable, Connected, GatewayCreated, Attached, NoTable,
     VifDeleted, NotAttached, Detached, Finding, FindGateway, FindTable, FindVif,
     FindGatewayToDelete, Connect, Look, NoVif, Goes, Does, session, local
<1>5. CASE OnGateways \/ OnTables \/ OnVifs
  BY <1>5 DEF OnGateways, CreateGateway, Attach, Detach, DeleteGateway, OnTables, Disassociate,
     CreateTable, Associate, Propagate, CutSubnets, DeleteTable, OnVifs, CreateVif, DeleteVif,
     Goes, Does, session, local
<1> QED  BY <1>1, <1>2, <1>3, <1>4, <1>5, Actions

\* A command reports, and a file keeps, one thing.
LEMMA KnownStep ==
  ASSUME IInv, [Next]_vars
  PROVE  KnownInv'
<1>0. SessionOK(Facts) /\ KnownInv
  BY DEF IInv, TypeOK
<1> USE DEF KnownInv
<1>1. ASSUME UNCHANGED <<saved, reported>> PROVE KnownInv'
  BY <1>0, <1>1
<1>2. CASE \/ UNCHANGED vars \/ VpcReady \/ DxReady \/ GatewayMoves \/ AttachmentMoves
           \/ VifMoves \/ Waiting \/ Finding \/ Connect \/ Look \/ NoVif
  BY <1>1, <1>2 DEF vars, session, VpcReady, DxReady, GatewayMoves, AttachmentMoves, VifMoves,
     Waiting, VpcAvailable, Connected, GatewayCreated, Attached, NoTable, VifDeleted, NotAttached,
     Detached, Finding, FindGateway, FindTable, FindVif, FindGatewayToDelete, Connect, Look, NoVif
<1>3. CASE StartApply \/ StartDestroy \/ Raise \/ Returning
  BY <1>1, <1>3 DEF StartApply, StartDestroy, Begins, Raise, Fails, Reached, Returning,
     NothingToDo, GatewayGone, GatewayDeleted, Deleted
<1>4. CASE End \/ Die
  <2>1. reported'[1] = {}
    <3>1. reported' = Unknown
      BY <1>4 DEF End, Die, SaveApply, SaveDestroy, Dies, Ends
    <3> QED  BY <3>1 DEF Unknown
  <2>2. CASE SaveApply(failed = {})
    <3>1. PICK s \in [known : {Reconciled}, failed : {failed},
                      counted : {TRUE, \E r \in Res : reported[r] # {}}] : saved' = s
      BY <2>2 DEF SaveApply
    <3>2. saved'.known[1] = Reconciled[1]
      BY <3>1
    <3>3. Reconciled[1] \in {saved.known[1], reported[1]}
      BY DEF Reconciled
    <3> QED  BY <1>0, <2>1, <3>2, <3>3
  <2>3. CASE SaveDestroy
    <3>1. saved'.known[1] \in {{}, saved.known[1]}
      BY <2>3 DEF SaveDestroy, NoFile, Unknown
    <3> QED  BY <1>0, <2>1, <3>1
  <2>4. CASE Dies
    BY <1>0, <2>1, <2>4 DEF Dies
  <2> QED  BY <1>4, <2>2, <2>3, <2>4 DEF End, Die
<1>5. CASE OnGateways \/ OnTables \/ OnVifs
  BY <1>1, <1>5 DEF OnGateways, CreateGateway, Attach, Detach, DeleteGateway, OnTables,
     Disassociate, CreateTable, Associate, Propagate, CutSubnets, DeleteTable, OnVifs, CreateVif,
     DeleteVif, session
<1>6. CASE Created
  <2>1. reported'[1] = {[table |-> table]} /\ UNCHANGED saved
    BY <1>0, <1>6 DEF Created, Succeeds, Reached, SessionOK
  <2> QED  BY <1>0, <2>1
<1> QED  BY <1>2, <1>3, <1>4, <1>5, <1>6, Actions
-----------------------------------------------------------------------------
(***************************************************************************)
(* What a step does to a gateway, a table or an interface.                 *)
(***************************************************************************)
Gateway == {New} \cup [state : {"pending", "available", "deleting", "deleted", "gone"},
                       at    : {"none", "attaching", "attached", "detaching", "detached"}]
Table   == {New} \cup [state : {"live", "gone"}, from : 0..Ids, subnet : BOOLEAN, cut : BOOLEAN]
Vif     == {New} \cup
             [state : {"pending", "available", "down", "deleting", "deleted", "gone"}, on : Id]

\* Nothing becomes of the other gateways, tables or interfaces.
Only(g)      == \A h \in Id \ {g} : gateways'[h] = gateways[h]
OnlyTable(t) == \A u \in Id \ {t} : tables'[u] = tables[u]
OnlyVif(i)   == \A j \in Id \ {i} : vifs'[j] = vifs[j]

GatewayMade(g) ==
  /\ CreateGateway /\ vpn' = g /\ gateways[g].state = "new"
  /\ gateways'[g] = [state |-> "pending", at |-> "none"]

GatewayMoved(g) ==
  /\ GatewayMoves /\ gateways[g].state # "new" /\ gateways'[g].at = gateways[g].at
  /\ \/ gateways[g].state = "pending" /\ gateways'[g].state = "available"
     \/ gateways[g].state = "deleting" /\ gateways'[g].state \in {"deleted", "gone"}
     \/ gateways[g].state = "deleted" /\ gateways'[g].state = "gone"

AttachmentMoved(g) ==
  /\ AttachmentMoves /\ g \in Listed(gateways) /\ gateways'[g].state = gateways[g].state
  /\ \/ gateways[g].at = "attaching" /\ gateways'[g].at = "attached"
     \/ gateways[g].at = "detaching" /\ gateways'[g].at = "detached"
     \/ gateways[g].at = "detached" /\ gateways'[g].at = "none"

GatewayAttached(g) ==
  /\ Attach /\ vpn = g /\ gateways[g].state = "available" /\ gateways'[g].state = "available"
  /\ gateways'[g].at = "attaching"

GatewayDetached(g) ==
  /\ Detach /\ vpn = g /\ gateways[g].at \in {"attaching", "attached"}
  /\ gateways'[g].state = gateways[g].state /\ gateways'[g].at = "detaching"

GatewayUnmade(g) ==
  /\ DeleteGateway /\ vpn' = g /\ g \in Listed(gateways)
  /\ gateways[g].at \in {"detached", "none"} /\ gateways'[g].at = gateways[g].at
  /\ gateways'[g].state = IF gateways[g].state = "deleted" THEN "deleted" ELSE "deleting"

\* Identifiers AWS gives are new.
LEMMA NextNew ==
  ASSUME NEW objects, Fresh(objects) # {}
  PROVE  Next1(objects) \in Id /\ objects[Next1(objects)].state = "new"
<1>1. Fresh(objects) \subseteq Nat
  BY DEF Fresh, Id
<1>2. PICK i \in Fresh(objects) : \A j \in Fresh(objects) : i <= j
  BY <1>1, LeastOne
<1>3. Next1(objects) \in Fresh(objects)
  BY <1>2 DEF Next1
<1> QED  BY <1>3 DEF Fresh

\* At most one gateway changes.
LEMMA GatewayStep ==
  ASSUME TypeOK, [Next]_vars
  PROVE  /\ gateways' \in [Id -> Gateway]
         /\ \/ UNCHANGED gateways
            \/ \E g \in Id :
                 /\ Only(g)
                 /\ \/ GatewayMade(g) \/ GatewayMoved(g) \/ AttachmentMoved(g)
                    \/ GatewayAttached(g) \/ GatewayDetached(g) \/ GatewayUnmade(g)
<1>0. gateways \in [Id -> Gateway]
  BY DEF TypeOK, Gateway
<1>1. CASE UNCHANGED gateways
  BY <1>0, <1>1
<1>2. CASE GatewayMoves
  <2>1. PICK g \in Id, s \in {<<"pending", "available">>, <<"deleting", "deleted">>,
                              <<"deleting", "gone">>, <<"deleted", "gone">>} :
          gateways[g].state = s[1] /\ gateways' = [gateways EXCEPT ![g].state = s[2]]
    BY <1>2 DEF GatewayMoves
  <2>2. gateways[g] \in Gateway /\ gateways[g].state # "new"
    BY <1>0, <2>1
  <2>3. gateways[g] \in [state : {"pending", "available", "deleting", "deleted", "gone"},
                         at    : {"none", "attaching", "attached", "detaching", "detached"}]
    BY <2>2 DEF Gateway, New
  <2>4. gateways'[g] = [gateways[g] EXCEPT !.state = s[2]] /\ Only(g)
    BY <1>0, <2>1 DEF Only
  <2>5. gateways'[g].state = s[2] /\ gateways'[g].at = gateways[g].at /\ gateways'[g] \in Gateway
    BY <2>1, <2>3, <2>4 DEF Gateway
  <2>6. GatewayMoved(g)
    BY <1>2, <2>1, <2>2, <2>5 DEF GatewayMoved
  <2>7. gateways' \in [Id -> Gateway]
    BY <1>0, <2>1, <2>4, <2>5
  <2> QED  BY <2>4, <2>6, <2>7
<1>3. CASE AttachmentMoves
  <2>1. PICK g \in Listed(gateways), s \in {<<"attaching", "attached">>, <<"detaching", "detached">>,
                                            <<"detached", "none">>} :
          gateways[g].at = s[1] /\ gateways' = [gateways EXCEPT ![g].at = s[2]]
    BY <1>3 DEF AttachmentMoves
  <2>2. g \in Id /\ gateways[g] \in Gateway /\ gateways[g].state # "new"
    BY <1>0, <2>1 DEF Listed
  <2>3. gateways[g] \in [state : {"pending", "available", "deleting", "deleted", "gone"},
                         at    : {"none", "attaching", "attached", "detaching", "detached"}]
    BY <2>2 DEF Gateway, New
  <2>4. gateways'[g] = [gateways[g] EXCEPT !.at = s[2]] /\ Only(g)
    BY <1>0, <2>1, <2>2 DEF Only
  <2>5. gateways'[g].at = s[2] /\ gateways'[g].state = gateways[g].state /\ gateways'[g] \in Gateway
    BY <2>1, <2>3, <2>4 DEF Gateway
  <2>6. AttachmentMoved(g)
    BY <1>3, <2>1, <2>2, <2>5 DEF AttachmentMoved
  <2>7. gateways' \in [Id -> Gateway]
    BY <1>0, <2>1, <2>2, <2>4, <2>5
  <2> QED  BY <2>2, <2>4, <2>6, <2>7
<1>4. CASE CreateGateway
  <2>1. /\ vpn' = Next1(gateways) /\ Fresh(gateways) # {}
        /\ gateways' = [gateways EXCEPT ![vpn'] = [state |-> "pending", at |-> "none"]]
    BY <1>4 DEF CreateGateway
  <2>2. vpn' \in Id /\ gateways[vpn'].state = "new"
    BY <2>1, NextNew
  <2>3. Only(vpn') /\ GatewayMade(vpn') /\ gateways' \in [Id -> Gateway]
    BY <1>0, <1>4, <2>1, <2>2 DEF Only, GatewayMade, Gateway
  <2> QED  BY <2>2, <2>3
<1>5. CASE Attach /\ gateways' # gateways
  <2>1. /\ vpn \in Listed(gateways) /\ gateways[vpn].state = "available"
        /\ gateways' = [gateways EXCEPT ![vpn].at = "attaching"]
    BY <1>5 DEF Attach
  <2>2. vpn \in Id /\ gateways[vpn] \in Gateway /\ gateways[vpn].state # "new"
    BY <1>0, <2>1 DEF Listed
  <2>3. gateways[vpn] \in [state : {"pending", "available", "deleting", "deleted", "gone"},
                           at    : {"none", "attaching", "attached", "detaching", "detached"}]
    BY <2>2 DEF Gateway, New
  <2>4. gateways'[vpn] = [gateways[vpn] EXCEPT !.at = "attaching"] /\ Only(vpn)
    BY <1>0, <2>1, <2>2 DEF Only
  <2>5. GatewayAttached(vpn) /\ gateways'[vpn] \in Gateway
    BY <1>5, <2>1, <2>3, <2>4 DEF Gateway, GatewayAttached
  <2>6. gateways' \in [Id -> Gateway]
    BY <1>0, <2>1, <2>2, <2>4, <2>5
  <2> QED  BY <2>2, <2>4, <2>5, <2>6
<1>6. CASE Detach /\ gateways' # gateways
  <2>1. /\ vpn \in Listed(gateways) /\ gateways[vpn].at \in {"attaching", "attached"}
        /\ gateways' = [gateways EXCEPT ![vpn].at = "detaching"]
    BY <1>6 DEF Detach
  <2>2. vpn \in Id /\ gateways[vpn] \in Gateway /\ gateways[vpn].state # "new"
    BY <1>0, <2>1 DEF Listed
  <2>3. gateways[vpn] \in [state : {"pending", "available", "deleting", "deleted", "gone"},
                           at    : {"none", "attaching", "attached", "detaching", "detached"}]
    BY <2>2 DEF Gateway, New
  <2>4. gateways'[vpn] = [gateways[vpn] EXCEPT !.at = "detaching"] /\ Only(vpn)
    BY <1>0, <2>1, <2>2 DEF Only
  <2>5. GatewayDetached(vpn) /\ gateways'[vpn] \in Gateway
    BY <1>6, <2>1, <2>3, <2>4 DEF Gateway, GatewayDetached
  <2>6. gateways' \in [Id -> Gateway]
    BY <1>0, <2>1, <2>2, <2>4, <2>5
  <2> QED  BY <2>2, <2>4, <2>5, <2>6
<1>7. CASE DeleteGateway
  <2> DEFINE to == IF gateways[vpn'].state = "deleted" THEN "deleted" ELSE "deleting"
  <2>1. /\ vpn' \in Listed(gateways) /\ gateways[vpn'].at \in {"detached", "none"}
        /\ gateways' = [gateways EXCEPT ![vpn'].state = IF @ = "deleted" THEN @ ELSE "deleting"]
    BY <1>7 DEF DeleteGateway
  <2>2. vpn' \in Id /\ gateways[vpn'] \in Gateway /\ gateways[vpn'].state # "new"
    BY <1>0, <2>1 DEF Listed
  <2>3. gateways[vpn'] \in [state : {"pending", "available", "deleting", "deleted", "gone"},
                            at    : {"none", "attaching", "attached", "detaching", "detached"}]
    BY <2>2 DEF Gateway, New
  <2>4. gateways'[vpn'] = [gateways[vpn'] EXCEPT !.state = to] /\ Only(vpn')
    BY <1>0, <2>1, <2>2 DEF Only
  <2>5. GatewayUnmade(vpn') /\ gateways'[vpn'] \in Gateway
    BY <1>7, <2>1, <2>3, <2>4 DEF Gateway, GatewayUnmade
  <2>6. gateways' \in [Id -> Gateway]
    BY <1>0, <2>1, <2>2, <2>4, <2>5
  <2> QED  BY <2>2, <2>4, <2>5, <2>6
<1>8. \/ UNCHANGED gateways \/ GatewayMoves \/ AttachmentMoves \/ OnGateways
  <2>1. CASE UNCHANGED vars \/ VpcReady \/ DxReady \/ VifMoves
    BY <2>1 DEF vars, VpcReady, DxReady, VifMoves, aws
  <2>2. CASE StartApply \/ StartDestroy \/ Raise \/ End \/ Die \/ Created \/ Returning
    BY <2>2 DEF StartApply, StartDestroy, Raise, End, Die, Created, Returning, NothingToDo,
       GatewayGone, GatewayDeleted, aws
  <2>3. CASE Waiting \/ Finding \/ Connect \/ Look \/ NoVif
    BY <2>3 DEF Waiting, VpcAvailable, Connected, GatewayCreated, Attached, NoTable,
       VifDeleted, NotAttached, Detached, Finding, FindGateway, FindTable, FindVif,
       FindGatewayToDelete, Connect, Look, NoVif, aws
  <2>4. CASE OnTables \/ OnVifs
    BY <2>4 DEF OnTables, Disassociate, CreateTable, Associate, Propagate, CutSubnets,
       DeleteTable, OnVifs, CreateVif, DeleteVif
  <2> QED  BY <2>1, <2>2, <2>3, <2>4, Actions
<1> QED  BY <1>1, <1>2, <1>3, <1>4, <1>5, <1>6, <1>7, <1>8 DEF OnGateways

\* A table is there or not.
LEMMA LiveTables ==
  ASSUME TypeOK
  PROVE  /\ tables \in [Id -> Table]
         /\ \A t \in Id : tables[t].state # "new" =>
              tables[t] \in [state : {"live", "gone"}, from : 0..Ids, subnet : BOOLEAN, cut : BOOLEAN]
         /\ \A t : t \in Live(tables) <=> t \in Id /\ tables[t].state = "live"
         /\ \A t : t \in Listed(tables) <=> t \in Id /\ tables[t].state = "live"
<1>1. tables \in [Id -> Table]
  BY DEF TypeOK, Table
<1>2. \A t \in Id : tables[t].state \in {"new", "live", "gone"}
  BY <1>1 DEF Table, New
<1>3. \A t \in Id : tables[t].state # "new" =>
        tables[t] \in [state : {"live", "gone"}, from : 0..Ids, subnet : BOOLEAN, cut : BOOLEAN]
  BY <1>1 DEF Table, New
<1> QED  BY <1>1, <1>2, <1>3 DEF Live, Listed

\* The same after a step.
LEMMA LiveNext ==
  TypeOK' => \A t : t \in Live(tables)' <=> t \in Id /\ tables'[t].state = "live"
<1>1. (TypeOK => \A t : t \in Live(tables) <=> t \in Id /\ tables[t].state = "live")'
  BY LiveTables, PTL
<1> QED  BY <1>1

\* The routes of u are what they were.
Kept(u) ==
  /\ tables'[u].state = tables[u].state
  /\ tables[u].state = "live" => tables'[u].from = tables[u].from

TableMade(t) ==
  /\ CreateTable /\ table' = t /\ tables[t].state = "new"
  /\ tables'[t] = [state |-> "live", from |-> 0, subnet |-> FALSE, cut |-> FALSE]
  /\ \A u \in Id \ {t} : Kept(u)

TablesFreed ==
  /\ Disassociate
  /\ \A u \in Id : Kept(u)

TableAssociated ==
  /\ Associate /\ OnlyTable(table) /\ Kept(table) /\ tables'[table].subnet

TablePropagated ==
  /\ Propagate /\ OnlyTable(table) /\ tables'[table].state = tables[table].state
  /\ tables'[table].from = vpn /\ tables'[table].subnet = tables[table].subnet

TablesCut ==
  /\ CutSubnets
  /\ \A u \in Id : Kept(u) /\ (tables[u].state = "live" => tables'[u].cut)

TableUnmade ==
  /\ DeleteTable /\ OnlyTable(table) /\ tables'[table].state = "gone"

\* What a step does to the tables.
LEMMA TableStep ==
  ASSUME IInv, [Next]_vars
  PROVE  /\ tables' \in [Id -> Table]
         /\ \/ UNCHANGED tables \/ TablesFreed \/ \E t \in Id : TableMade(t)
            \/ TableAssociated \/ TablePropagated \/ TablesCut \/ TableUnmade
<1>0. TypeOK /\ tables \in [Id -> Table] /\ vpn \in 0..Ids
  BY LiveTables DEF IInv, TypeOK
<1> DEFINE Made == [state : {"live", "gone"}, from : 0..Ids, subnet : BOOLEAN, cut : BOOLEAN]
<1>1. CASE UNCHANGED tables
  BY <1>0, <1>1
<1>2. CASE CreateTable
  <2> DEFINE Bare == [state |-> "live", from |-> 0, subnet |-> FALSE, cut |-> FALSE]
  <2>1. table' = Next1(tables) /\ Fresh(tables) # {} /\ tables' = [tables EXCEPT ![table'] = Bare]
    BY <1>2 DEF CreateTable
  <2>2. table' \in Id /\ tables[table'].state = "new"
    BY <2>1, NextNew
  <2>3. tables'[table'] = Bare
    BY <1>0, <2>1, <2>2
  <2>4. \A u \in Id \ {table'} : tables'[u] = tables[u]
    BY <1>0, <2>1
  <2>5. TableMade(table')
    BY <1>2, <2>2, <2>3, <2>4 DEF TableMade, Kept
  <2>6. Bare \in Table
    BY DEF Table
  <2>7. tables' \in [Id -> Table]
    BY <1>0, <2>1, <2>2, <2>6
  <2> QED  BY <2>2, <2>5, <2>7
<1>3. CASE Associate \/ Propagate
  <2>1. table \in Id /\ tables[table] \in Made /\ tables[table].state = "live"
    BY <1>0, <1>3, LiveTables DEF Associate, Propagate, Goes, IInv, CreateInv
  <2>2. CASE Associate
    <3>1. tables' = [tables EXCEPT ![table].subnet = TRUE]
      BY <2>2 DEF Associate
    <3>2. tables'[table] = [tables[table] EXCEPT !.subnet = TRUE] /\ OnlyTable(table)
      BY <1>0, <2>1, <3>1 DEF OnlyTable
    <3>3. tables'[table] \in Table /\ TableAssociated
      BY <2>1, <2>2, <3>2 DEF Table, TableAssociated, Kept
    <3> QED  BY <1>0, <3>1, <3>2, <3>3
  <2>3. CASE Propagate
    <3>1. tables' = [tables EXCEPT ![table].from = vpn]
      BY <2>3 DEF Propagate
    <3>2. tables'[table] = [tables[table] EXCEPT !.from = vpn] /\ OnlyTable(table)
      BY <1>0, <2>1, <3>1 DEF OnlyTable
    <3>3. tables'[table] \in Table /\ TablePropagated
      BY <1>0, <2>1, <2>3, <3>2 DEF Table, TablePropagated
    <3> QED  BY <1>0, <3>1, <3>2, <3>3
  <2> QED  BY <1>3, <2>2, <2>3
<1>4. CASE CutSubnets
  <2>1. tables' = [t \in Id |-> IF t \in Live(tables)
                                THEN [tables[t] EXCEPT !.subnet = FALSE, !.cut = TRUE]
                                ELSE tables[t]]
    BY <1>4 DEF CutSubnets
  <2>2. ASSUME NEW u \in Id
        PROVE  Kept(u) /\ (tables[u].state = "live" => tables'[u].cut) /\ tables'[u] \in Table
    <3>1. CASE u \in Live(tables)
      <4>1. tables'[u] = [tables[u] EXCEPT !.subnet = FALSE, !.cut = TRUE] /\ tables[u] \in Made
        BY <1>0, <2>1, <3>1, LiveTables
      <4> QED  BY <4>1 DEF Kept, Table
    <3>2. CASE u \notin Live(tables)
      <4>1. tables'[u] = tables[u] /\ tables[u].state # "live"
        BY <1>0, <2>1, <3>2, LiveTables
      <4> QED  BY <1>0, <4>1 DEF Kept
    <3> QED  BY <3>1, <3>2
  <2> QED  BY <1>4, <2>1, <2>2 DEF TablesCut
<1>5. CASE DeleteTable
  <2>1. table \in Id /\ tables[table] \in Made
    BY <1>0, <1>5, LiveTables DEF DeleteTable, Does, IInv, DeleteInv
  <2>2. tables' = [tables EXCEPT ![table].state = "gone"]
    BY <1>5 DEF DeleteTable
  <2>3. tables'[table] = [tables[table] EXCEPT !.state = "gone"] /\ OnlyTable(table)
    BY <1>0, <2>1, <2>2 DEF OnlyTable
  <2>4. tables'[table] \in Table /\ TableUnmade
    BY <1>5, <2>1, <2>3 DEF Table, TableUnmade
  <2> QED  BY <1>0, <2>2, <2>3, <2>4
<1>6. CASE Disassociate
  <2>1. tables' = [t \in Id |-> IF t \in Live(tables) THEN [tables[t] EXCEPT !.subnet = FALSE]
                               ELSE tables[t]]
    BY <1>6 DEF Disassociate
  <2>2. ASSUME NEW u \in Id PROVE Kept(u) /\ tables'[u] \in Table
    <3>1. CASE u \in Live(tables)
      <4>1. tables'[u] = [tables[u] EXCEPT !.subnet = FALSE] /\ tables[u] \in Made
        BY <1>0, <2>1, <3>1, LiveTables
      <4> QED  BY <4>1 DEF Kept, Table
    <3>2. CASE u \notin Live(tables)
      <4>1. tables'[u] = tables[u]
        BY <2>1, <3>2
      <4> QED  BY <1>0, <4>1 DEF Kept
    <3> QED  BY <3>1, <3>2
  <2> QED  BY <1>6, <2>1, <2>2 DEF TablesFreed
<1>7. UNCHANGED tables \/ OnTables
  <2>1. CASE UNCHANGED vars \/ VpcReady \/ DxReady \/ GatewayMoves \/ AttachmentMoves \/ VifMoves
    BY <2>1 DEF vars, VpcReady, DxReady, GatewayMoves, AttachmentMoves, VifMoves, aws
  <2>2. CASE StartApply \/ StartDestroy \/ Raise \/ End \/ Die \/ Created \/ Returning
    BY <2>2 DEF StartApply, StartDestroy, Raise, End, Die, Created, Returning, NothingToDo,
       GatewayGone, GatewayDeleted, aws
  <2>3. CASE Waiting \/ Finding \/ Connect \/ Look \/ NoVif
    BY <2>3 DEF Waiting, VpcAvailable, Connected, GatewayCreated, Attached, NoTable,
       VifDeleted, NotAttached, Detached, Finding, FindGateway, FindTable, FindVif,
       FindGatewayToDelete, Connect, Look, NoVif, aws
  <2>4. CASE OnGateways \/ OnVifs
    BY <2>4 DEF OnGateways, CreateGateway, Attach, Detach, DeleteGateway, OnVifs, CreateVif,
       DeleteVif
  <2> QED  BY <2>1, <2>2, <2>3, <2>4, Actions
<1> QED  BY <1>1, <1>2, <1>3, <1>4, <1>5, <1>6, <1>7 DEF OnTables

VifMade(i) ==
  /\ CreateVif /\ vif' = i /\ vifs[i].state = "new"
  /\ vifs'[i] = [state |-> "pending", on |-> vpn]

VifUnmade(i) ==
  /\ DeleteVif /\ vif' = i /\ i \in Undeleted
  /\ vifs'[i].state = "deleting" /\ vifs'[i].on = vifs[i].on

VifMoved(i) ==
  /\ VifMoves /\ vifs[i].state # "new" /\ vifs'[i].on = vifs[i].on
  /\ \/ vifs[i].state \in {"pending", "available"} /\ vifs'[i].state \in {"available", "down"}
     \/ vifs[i].state = "deleting" /\ vifs'[i].state = "deleted"
     \/ vifs[i].state = "deleted" /\ vifs'[i].state = "gone"

\* At most one interface changes.
LEMMA VifStep ==
  ASSUME IInv, [Next]_vars
  PROVE  /\ vifs' \in [Id -> Vif]
         /\ \/ UNCHANGED vifs
            \/ \E i \in Id : OnlyVif(i) /\ (VifMade(i) \/ VifUnmade(i) \/ VifMoved(i))
<1> DEFINE Made == [state : {"pending", "available", "down", "deleting", "deleted", "gone"}, on : Id]
<1>0. TypeOK /\ vifs \in [Id -> Vif]
  BY DEF IInv, TypeOK, Vif
<1>1. CASE UNCHANGED vifs
  BY <1>0, <1>1
<1>2. CASE CreateVif
  <2>1. /\ vif' = Next1(vifs) /\ Fresh(vifs) # {}
        /\ vifs' = [vifs EXCEPT ![vif'] = [state |-> "pending", on |-> vpn]]
    BY <1>2 DEF CreateVif
  <2>2. vif' \in Id /\ vifs[vif'].state = "new"
    BY <2>1, NextNew
  <2>3. vpn \in Id
    BY <1>0, <1>2 DEF CreateVif, Goes, TypeOK, NeedVpn, Id
  <2>4. OnlyVif(vif') /\ VifMade(vif') /\ vifs' \in [Id -> Vif]
    BY <1>0, <1>2, <2>1, <2>2, <2>3 DEF OnlyVif, VifMade, Vif
  <2> QED  BY <2>2, <2>4
<1>3. CASE DeleteVif
  <2>1. PICK i \in Listed(vifs) :
          /\ vifs[i].state # "deleted" /\ vif' = i
          /\ vifs' = [vifs EXCEPT ![i].state = "deleting"]
    BY <1>3 DEF DeleteVif
  <2>2. i \in Id /\ vifs[i] \in Vif /\ vifs[i].state # "new"
    BY <1>0, <2>1 DEF Listed
  <2>3. vifs[i] \in Made
    BY <2>2 DEF Vif, New
  <2>4. vifs'[i] = [vifs[i] EXCEPT !.state = "deleting"] /\ OnlyVif(i)
    BY <1>0, <2>1, <2>2 DEF OnlyVif
  <2>5. VifUnmade(i) /\ vifs'[i] \in Vif
    BY <1>3, <2>1, <2>3, <2>4 DEF VifUnmade, Undeleted, Vif
  <2>6. vifs' \in [Id -> Vif]
    BY <1>0, <2>1, <2>2, <2>4, <2>5
  <2> QED  BY <2>2, <2>4, <2>5, <2>6
<1>4. CASE VifMoves
  <2>1. PICK i \in Id, s \in {<<"pending", "available">>, <<"available", "down">>,
                              <<"deleting", "deleted">>, <<"deleted", "gone">>} :
          vifs[i].state = s[1] /\ vifs' = [vifs EXCEPT ![i].state = s[2]]
    BY <1>4 DEF VifMoves
  <2>2. vifs[i] \in Vif /\ vifs[i].state # "new"
    BY <1>0, <2>1
  <2>3. vifs[i] \in Made
    BY <2>2 DEF Vif, New
  <2>4. vifs'[i] = [vifs[i] EXCEPT !.state = s[2]] /\ OnlyVif(i)
    BY <1>0, <2>1 DEF OnlyVif
  <2>5. vifs'[i].state = s[2] /\ vifs'[i].on = vifs[i].on /\ vifs'[i] \in Vif
    BY <2>1, <2>3, <2>4 DEF Vif
  <2>6. VifMoved(i)
    BY <1>4, <2>1, <2>2, <2>5 DEF VifMoved
  <2>7. vifs' \in [Id -> Vif]
    BY <1>0, <2>1, <2>4, <2>5
  <2> QED  BY <2>4, <2>6, <2>7
<1>5. UNCHANGED vifs \/ VifMoves \/ OnVifs
  <2>1. CASE UNCHANGED vars \/ VpcReady \/ DxReady \/ GatewayMoves \/ AttachmentMoves
    BY <2>1 DEF vars, VpcReady, DxReady, GatewayMoves, AttachmentMoves, aws
  <2>2. CASE StartApply \/ StartDestroy \/ Raise \/ End \/ Die \/ Created \/ Returning
    BY <2>2 DEF StartApply, StartDestroy, Raise, End, Die, Created, Returning, NothingToDo,
       GatewayGone, GatewayDeleted, aws
  <2>3. CASE Waiting \/ Finding \/ Connect \/ Look \/ NoVif
    BY <2>3 DEF Waiting, VpcAvailable, Connected, GatewayCreated, Attached, NoTable,
       VifDeleted, NotAttached, Detached, Finding, FindGateway, FindTable, FindVif,
       FindGatewayToDelete, Connect, Look, NoVif, aws
  <2>4. CASE OnGateways \/ OnTables
    BY <2>4 DEF OnGateways, CreateGateway, Attach, Detach, DeleteGateway, OnTables,
       Disassociate, CreateTable, Associate, Propagate, CutSubnets, DeleteTable
  <2> QED  BY <2>1, <2>2, <2>3, <2>4, Actions
<1> QED  BY <1>1, <1>2, <1>3, <1>4, <1>5 DEF OnVifs
-----------------------------------------------------------------------------
(***************************************************************************)
(* Types.                                                                  *)
(***************************************************************************)
\* What the program remembers of gateways,
LEMMA VpnStep ==
  ASSUME IInv, [Next]_vars
  PROVE  \/ vpn' = vpn \/ vpn' = 0 \/ vpn' \in Listed(gateways)
         \/ CreateGateway /\ vpn' \in Id
<1>1. CASE UNCHANGED vars \/ VpcReady \/ DxReady \/ GatewayMoves \/ AttachmentMoves \/ VifMoves
  BY <1>1 DEF vars, VpcReady, DxReady, GatewayMoves, AttachmentMoves, VifMoves, local
<1>2. CASE StartApply \/ StartDestroy \/ Raise \/ End \/ Die \/ Created \/ Returning
  BY <1>2 DEF StartApply, StartDestroy, Raise, End, Die, Created, Returning, NothingToDo,
     GatewayGone, GatewayDeleted, Forget, local
<1>3. CASE Waiting \/ Finding \/ Connect \/ Look \/ NoVif
  BY <1>3 DEF Waiting, VpcAvailable, Connected, GatewayCreated, Attached, NoTable,
     VifDeleted, NotAttached, Detached, Finding, FindGateway, FindTable, FindVif,
     FindGatewayToDelete, Connect, Look, NoVif, local
<1>4. CASE OnGateways
  <2>1. CreateGateway => vpn' \in Id
    BY NextNew DEF CreateGateway
  <2> QED  BY <1>4, <2>1 DEF OnGateways, CreateGateway, Attach, Detach, DeleteGateway, local
<1>5. CASE OnTables \/ OnVifs
  BY <1>5 DEF OnTables, Disassociate, CreateTable, Associate, Propagate, CutSubnets, DeleteTable,
     OnVifs, CreateVif, DeleteVif, local
<1> QED  BY <1>1, <1>2, <1>3, <1>4, <1>5, Actions

\* of tables and of interfaces.
LEMMA LocalStep ==
  ASSUME IInv, [Next]_vars
  PROVE  table' \in 0..Ids /\ vif' \in 0..Ids
<1>0. table \in 0..Ids /\ vif \in 0..Ids /\ Id \subseteq 0..Ids
  BY DEF IInv, TypeOK, Id
<1>1. CASE UNCHANGED vars \/ VpcReady \/ DxReady \/ GatewayMoves \/ AttachmentMoves \/ VifMoves
  BY <1>0, <1>1 DEF vars, VpcReady, DxReady, GatewayMoves, AttachmentMoves, VifMoves, local
<1>2. CASE StartApply \/ Raise \/ End \/ Die \/ Created \/ Returning
  BY <1>0, <1>2 DEF StartApply, Raise, End, Die, Created, Returning, NothingToDo,
     GatewayGone, GatewayDeleted, Forget, local
<1>3. CASE StartDestroy
  <2>1. table' = 0 \/ table' \in {f.table : f \in saved.known[1]}
    BY <1>3 DEF StartDestroy
  <2>2. saved.known[1] \subseteq Facts
    BY DEF IInv, TypeOK, SessionOK
  <2>3. table' \in 0..Ids
    BY <1>0, <2>1, <2>2 DEF Facts
  <2> QED  BY <1>0, <1>3, <2>3 DEF StartDestroy
<1>4. CASE Waiting \/ Finding \/ Connect \/ Look \/ NoVif
  BY <1>0, <1>4 DEF Waiting, VpcAvailable, Connected, GatewayCreated, Attached, NoTable,
     VifDeleted, NotAttached, Detached, Finding, FindGateway, FindTable, FindVif,
     FindGatewayToDelete, Connect, Look, NoVif, local, Routing, OnGateway, Listed, Live
<1>5. CASE OnGateways
  BY <1>0, <1>5 DEF OnGateways, CreateGateway, Attach, Detach, DeleteGateway, local
<1>6. CASE OnTables
  <2>1. CreateTable => table' \in Id
    BY NextNew DEF CreateTable
  <2> QED
    BY <1>0, <1>6, <2>1 DEF OnTables, Disassociate, CreateTable, Associate, Propagate, CutSubnets,
       DeleteTable, local
<1>7. CASE OnVifs
  <2>1. vif' \in Id
    BY <1>7, NextNew DEF OnVifs, CreateVif, DeleteVif, Listed
  <2> QED  BY <1>0, <1>7, <2>1 DEF OnVifs, CreateVif, DeleteVif
<1> QED  BY <1>1, <1>2, <1>3, <1>4, <1>5, <1>6, <1>7, Actions

\* No step is reached without the identifiers it uses.
LEMMA NeedStep ==
  ASSUME IInv, [Next]_vars
  PROVE  /\ step' \in Steps /\ (step' = "idle" <=> phase' = "idle")
         /\ step' \in NeedVpn => vpn' # 0
         /\ step' \in NeedTable => table' # 0
         /\ step' \in NeedVif => vif' # 0
<1>0. /\ step \in Steps /\ (step = "idle" <=> phase = "idle")
      /\ step \in NeedVpn => vpn # 0
      /\ step \in NeedTable => table # 0
      /\ step \in NeedVif => vif # 0
      /\ 0 \notin Id
  BY DEF IInv, TypeOK, Id
<1> USE DEF Steps, NeedVpn, NeedTable, NeedVif
<1>1. CASE UNCHANGED vars \/ VpcReady \/ DxReady \/ GatewayMoves \/ AttachmentMoves \/ VifMoves
  BY <1>0, <1>1 DEF vars, VpcReady, DxReady, GatewayMoves, AttachmentMoves, VifMoves, local, session
<1>2. CASE StartApply \/ StartDestroy
  BY <1>2 DEF StartApply, StartDestroy, Begins
<1>3. CASE Raise
  BY <1>0, <1>3 DEF Raise, Fails, Reached
<1>4. CASE End \/ Die
  BY <1>4 DEF End, Die, SaveApply, SaveDestroy, Dies, Ends
<1>5. CASE Created \/ Returning
  BY <1>5 DEF Created, Succeeds, Returning, NothingToDo, GatewayGone, GatewayDeleted, Deleted,
     Reached, Does
<1>6. CASE Waiting
  BY <1>0, <1>6 DEF Waiting, VpcAvailable, Connected, GatewayCreated, Attached, NoTable,
     VifDeleted, NotAttached, Detached, Goes, Does, local, session
<1>7. CASE Finding
  BY <1>0, <1>7 DEF Finding, FindGateway, FindTable, FindVif, FindGatewayToDelete, Goes, Does,
     session, Routing, OnGateway, Listed, Live
<1>8. CASE Connect \/ Look \/ NoVif
  BY <1>0, <1>8 DEF Connect, Look, NoVif, Goes, Does, local, session
<1>9. CASE OnGateways
  <2>1. CreateGateway => vpn' \in Id
    BY NextNew DEF CreateGateway
  <2> QED
    BY <1>0, <1>9, <2>1 DEF OnGateways, CreateGateway, Attach, Detach, DeleteGateway, Goes, Does,
       local, session, Listed
<1>10. CASE OnTables
  <2>1. CreateTable => table' \in Id
    BY NextNew DEF CreateTable
  <2> QED
    BY <1>0, <1>10, <2>1 DEF OnTables, Disassociate, CreateTable, Associate, Propagate,
       CutSubnets, DeleteTable, Goes, Does, local, session
<1>11. CASE OnVifs
  <2>1. vif' \in Id
    BY <1>11, NextNew DEF OnVifs, CreateVif, DeleteVif, Listed
  <2> QED  BY <1>0, <1>11, <2>1 DEF OnVifs, CreateVif, DeleteVif, Goes, Does, session
<1> QED
  BY <1>1, <1>2, <1>3, <1>4, <1>5, <1>6, <1>7, <1>8, <1>9, <1>10, <1>11, Actions

\* Every variable keeps its type.
LEMMA TypeStep ==
  ASSUME IInv, [Next]_vars
  PROVE  TypeOK'
<1>0. TypeOK
  BY DEF IInv
<1>1. vpn' \in 0..Ids
  BY <1>0, VpnStep DEF TypeOK, Listed, Id
<1>2. seen' \in {"none", "pending", "available", "deleting", "deleted"}
  <2> USE <1>0 DEF TypeOK
  <2>1. CASE Look
    <3>1. seen' = gateways[vpn].state /\ vpn \in Listed(gateways)
      BY <2>1 DEF Look
    <3>2. vpn \in Id /\ gateways[vpn] \in Gateway /\ gateways[vpn].state \notin {"new", "gone"}
      BY <3>1 DEF Listed, Gateway
    <3> QED  BY <3>1, <3>2 DEF Gateway, New
  <2>2. CASE \/ UNCHANGED vars \/ VpcReady \/ DxReady \/ GatewayMoves \/ AttachmentMoves
             \/ VifMoves \/ StartApply \/ StartDestroy \/ Raise \/ End \/ Die \/ Created \/ Returning
    BY <2>2 DEF vars, VpcReady, DxReady, GatewayMoves, AttachmentMoves, VifMoves, StartApply,
       StartDestroy, Raise, End, Die, Created, Returning, NothingToDo, GatewayGone,
       GatewayDeleted, Forget, local
  <2>3. CASE Waiting \/ Finding \/ Connect \/ NoVif
    BY <2>3 DEF Waiting, VpcAvailable, Connected, GatewayCreated, Attached, NoTable,
       VifDeleted, NotAttached, Detached, Finding, FindGateway, FindTable, FindVif,
       FindGatewayToDelete, Connect, NoVif, local
  <2>4. CASE OnGateways \/ OnTables \/ OnVifs
    BY <2>4 DEF OnGateways, CreateGateway, Attach, Detach, DeleteGateway, OnTables, Disassociate,
       CreateTable, Associate, Propagate, CutSubnets, DeleteTable, OnVifs, CreateVif, DeleteVif,
       local
  <2> QED  BY <2>1, <2>2, <2>3, <2>4, Actions
<1>3. vpc' \in {"pending", "available"} /\ dx' \in {"down", "ordering", "pending", "available"}
  <2> USE <1>0 DEF TypeOK
  <2>1. CASE \/ UNCHANGED vars \/ VpcReady \/ DxReady \/ GatewayMoves \/ AttachmentMoves
             \/ VifMoves \/ StartApply \/ StartDestroy \/ Raise \/ End \/ Die \/ Created \/ Returning
    BY <2>1 DEF vars, VpcReady, DxReady, GatewayMoves, AttachmentMoves, VifMoves, StartApply,
       StartDestroy, Raise, End, Die, Created, Returning, NothingToDo, GatewayGone,
       GatewayDeleted, aws
  <2>2. CASE Waiting \/ Finding \/ Connect \/ NoVif \/ Look
    BY <2>2 DEF Waiting, VpcAvailable, Connected, GatewayCreated, Attached, NoTable,
       VifDeleted, NotAttached, Detached, Finding, FindGateway, FindTable, FindVif,
       FindGatewayToDelete, Connect, NoVif, Look, aws
  <2>3. CASE OnGateways \/ OnTables \/ OnVifs
    BY <2>3 DEF OnGateways, CreateGateway, Attach, Detach, DeleteGateway, OnTables, Disassociate,
       CreateTable, Associate, Propagate, CutSubnets, DeleteTable, OnVifs, CreateVif, DeleteVif
  <2> QED  BY <2>1, <2>2, <2>3, Actions
<1>4. hidden' \in BOOLEAN
  <2> DEFINE Some == \E i \in Listed(vifs) : vifs[i].state # "deleted"
  <2>1. hidden' = hidden \/ hidden' = (hidden \/ Some)
    <3>1. CASE \/ UNCHANGED vars \/ VpcReady \/ DxReady \/ GatewayMoves \/ AttachmentMoves
               \/ VifMoves \/ StartApply \/ StartDestroy \/ Raise \/ End \/ Die \/ Created
               \/ Returning
      BY <3>1 DEF vars, VpcReady, DxReady, GatewayMoves, AttachmentMoves, VifMoves, StartApply,
         StartDestroy, Raise, End, Die, Created, Returning, NothingToDo, GatewayGone,
         GatewayDeleted
    <3>2. CASE Waiting \/ Finding \/ Connect \/ NoVif \/ Look
      BY <3>2 DEF Waiting, VpcAvailable, Connected, GatewayCreated, Attached, NoTable,
         VifDeleted, NotAttached, Detached, Finding, FindGateway, FindTable, FindVif,
         FindGatewayToDelete, Connect, NoVif, Look
    <3>3. CASE OnGateways \/ OnTables \/ OnVifs
      BY <3>3 DEF OnGateways, CreateGateway, Attach, Detach, DeleteGateway, OnTables,
         Disassociate, CreateTable, Associate, Propagate, CutSubnets, DeleteTable, OnVifs,
         CreateVif, DeleteVif
    <3> QED  BY <3>1, <3>2, <3>3, Actions
  <2>2. hidden \in BOOLEAN
    BY <1>0 DEF TypeOK
  <2> HIDE DEF Some
  <2> QED  BY <2>1, <2>2
<1> QED
  BY <1>0, <1>1, <1>2, <1>3, <1>4, SessionStep, GatewayStep, TableStep, VifStep, LocalStep,
     NeedStep DEF TypeOK, Gateway, Table, Vif
-----------------------------------------------------------------------------
(***************************************************************************)
(* Gateways, tables and interfaces.                                        *)
(***************************************************************************)
\* A gateway that is listed was listed before, or has just been made where there
\* was none; and what has been made stays so.
LEMMA ListedStep ==
  ASSUME IInv, [Next]_vars
  PROVE  /\ \/ Listed(gateways)' \subseteq Listed(gateways)
            \/ /\ CreateGateway /\ Listed(gateways) = {} /\ Listed(gateways)' = {vpn'}
               /\ gateways[vpn'].state = "new"
         /\ \A g \in Id : gateways[g].state # "new" => gateways'[g].state # "new"
<1>0. TypeOK
  BY DEF IInv
<1>1. CASE UNCHANGED gateways
  BY <1>1 DEF Listed
<1>2. ASSUME NEW g \in Id, Only(g),
             \/ GatewayMoved(g) \/ AttachmentMoved(g) \/ GatewayAttached(g)
             \/ GatewayDetached(g) \/ GatewayUnmade(g)
      PROVE  /\ Listed(gateways)' \subseteq Listed(gateways)
             /\ \A h \in Id : gateways[h].state # "new" => gateways'[h].state # "new"
  <2>1. /\ gateways'[g].state \notin {"new", "gone"} => gateways[g].state \notin {"new", "gone"}
        /\ gateways[g].state # "new" => gateways'[g].state # "new"
    BY <1>2 DEF GatewayMoved, AttachmentMoved, GatewayAttached, GatewayDetached, GatewayUnmade, Listed
  <2> QED  BY <1>2, <2>1 DEF Only, Listed
<1>3. ASSUME NEW g \in Id, Only(g), GatewayMade(g)
      PROVE  /\ CreateGateway /\ Listed(gateways) = {} /\ Listed(gateways)' = {vpn'}
             /\ gateways[vpn'].state = "new"
             /\ \A h \in Id : gateways[h].state # "new" => gateways'[h].state # "new"
  <2>1. CreateGateway /\ vpn' = g /\ gateways[g].state = "new" /\ gateways'[g].state = "pending"
    BY <1>3 DEF GatewayMade
  <2>2. Listed(gateways) = {}
    BY <2>1 DEF CreateGateway
  <2>3. \A h \in Id \ {g} : gateways'[h] = gateways[h] /\ gateways[h].state \in {"new", "gone"}
    BY <1>3, <2>2 DEF Only, Listed
  <2> QED  BY <2>1, <2>2, <2>3 DEF Listed
<1> QED  BY <1>0, <1>1, <1>2, <1>3, GatewayStep

\* There is one gateway, not attached when it goes.
LEMMA GatewayInvStep ==
  ASSUME IInv, [Next]_vars
  PROVE  GatewayInv'
<1>0. TypeOK /\ GatewayInv
  BY DEF IInv
<1>1. (\A g, h \in Listed(gateways) : g = h)'
  BY <1>0, ListedStep DEF GatewayInv
<1>2. (\A g \in Id : gateways[g].state \in {"pending", "deleting", "deleted"} =>
                      gateways[g].at \in {"none", "detached"})'
  <2>1. CASE UNCHANGED gateways
    BY <1>0, <2>1 DEF GatewayInv
  <2>2. ASSUME NEW g \in Id, Only(g),
               \/ GatewayMade(g) \/ GatewayMoved(g) \/ AttachmentMoved(g)
               \/ GatewayAttached(g) \/ GatewayDetached(g) \/ GatewayUnmade(g)
        PROVE  \A h \in Id : gateways'[h].state \in {"pending", "deleting", "deleted"} =>
                             gateways'[h].at \in {"none", "detached"}
    <3>1. gateways'[g].state \in {"pending", "deleting", "deleted"} =>
            gateways'[g].at \in {"none", "detached"}
      BY <1>0, <2>2 DEF GatewayInv, GatewayMade, GatewayMoved, AttachmentMoved, GatewayAttached,
         GatewayDetached, GatewayUnmade, Detach, Does, Listed, TypeOK, Gateway, New
    <3> QED  BY <1>0, <2>2, <3>1 DEF GatewayInv, Only
  <2> QED  BY <1>0, <2>1, <2>2, GatewayStep
<1>3. (vpn # 0 => gateways[vpn].state # "new" /\ Listed(gateways) \subseteq {vpn})'
  <2>1. vpn \in 0..Ids /\ Listed(gateways) \subseteq Id
    BY <1>0 DEF TypeOK, Listed
  <2>2. CASE CreateGateway
    <3>1. vpn' \in Id
      BY <2>2, NextNew DEF CreateGateway
    <3>2. Listed(gateways)' \subseteq {vpn'} /\ vpn' \in Listed(gateways)'
      <4>1. Listed(gateways) = {} /\ vpn' = Next1(gateways)
            /\ gateways' = [gateways EXCEPT ![vpn'] = [state |-> "pending", at |-> "none"]]
        BY <2>2 DEF CreateGateway
      <4>2. gateways'[vpn'].state = "pending"
        BY <1>0, <3>1, <4>1 DEF TypeOK
      <4>3. vpn' \in Listed(gateways)'
        BY <3>1, <4>2 DEF Listed
      <4> QED  BY <4>1, <4>3, ListedStep
    <3> QED  BY <3>2 DEF Listed
  <2>3. CASE ~CreateGateway
    <3>1. Listed(gateways)' \subseteq Listed(gateways)
      BY <2>3, ListedStep
    <3>2. CASE vpn' = vpn
      BY <1>0, <2>1, <3>1, <3>2, ListedStep DEF GatewayInv, Id
    <3>3. CASE vpn' \in Listed(gateways)
      BY <1>0, <3>1, <3>3, ListedStep DEF GatewayInv, Listed
    <3> QED  BY <2>3, <3>2, <3>3, VpnStep
  <2> QED  BY <2>2, <2>3
<1> QED  BY <1>1, <1>2, <1>3 DEF GatewayInv

\* Each gateway has one table, with the subnet or cut off.
LEMMA TableInvStep ==
  ASSUME IInv, [Next]_vars
  PROVE  TableInv'
<1>0. TypeOK /\ GatewayInv /\ TableInv /\ CreateInv /\ vpn \in 0..Ids /\ TypeOK'
  BY TypeStep DEF IInv, TypeOK
<1>a. /\ \A t \in Id : t \in Live(tables) <=> tables[t].state = "live"
      /\ \A t \in Live(tables) : t \in Id /\ tables[t].from \in 0..Ids
  BY <1>0, LiveTables
<1>b. /\ \A t \in Id : t \in Live(tables)' <=> tables'[t].state = "live"
      /\ \A t \in Live(tables)' : t \in Id
  BY <1>0, LiveNext
<1>1. CASE UNCHANGED tables
  <2>1. Live(tables)' = Live(tables)
    BY <1>1 DEF Live, Listed
  <2>2. \A t \in Live(tables) : tables[t].from # 0 => gateways'[tables[t].from].state # "new"
    BY <1>0, <1>a, ListedStep DEF TableInv, Id
  <2>3. \A t \in Live(tables) : tables[t].from \in Listed(gateways)' => tables[t].from \in Listed(gateways)
    BY <1>0, <1>a, ListedStep DEF TableInv, Listed, Id
  <2> QED  BY <1>0, <1>1, <2>1, <2>2, <2>3 DEF TableInv
<1>2. CASE UNCHANGED gateways
  <2>0. Listed(gateways)' = Listed(gateways)
    BY <1>2 DEF Listed
  <2>1. ASSUME NEW t \in Id, TableMade(t) PROVE TableInv'
    <3>1. /\ tables'[t].from = 0 /\ 0 \notin Listed(gateways)
      BY <2>1 DEF TableMade, Listed, Id
    <3>2. \A u \in Live(tables)' : u # t => u \in Live(tables) /\ tables'[u].from = tables[u].from
      BY <2>1, <1>a, <1>b DEF TableMade, Kept
    <3>3. vpn # 0 /\ \A u \in Live(tables) : tables[u].from # vpn
      BY <1>0, <2>1 DEF TableMade, CreateTable, Goes, CreateInv, Routing, TypeOK, NeedVpn
    <3>4. \A u \in Live(tables)' : u # t => tables'[u].from \notin Listed(gateways)
      BY <1>0, <3>2, <3>3 DEF GatewayInv
    <3> QED  BY <1>0, <1>2, <2>0, <3>1, <3>2, <3>4 DEF TableInv
  <2>2. CASE TableAssociated
    <3>1. table \in Live(tables) /\ table \in Id
      BY <1>0, <1>a, <2>2 DEF TableAssociated, Associate, Goes, CreateInv
    <3>2. \A u \in Live(tables)' : u \in Live(tables) /\ tables'[u].from = tables[u].from
      BY <1>a, <1>b, <2>2, <3>1 DEF TableAssociated, OnlyTable, Kept
    <3>3. \A u \in Live(tables)' : u # table => tables'[u] = tables[u]
      BY <1>b, <2>2 DEF TableAssociated, OnlyTable
    <3> QED  BY <1>0, <1>2, <2>0, <2>2, <3>1, <3>2, <3>3 DEF TableInv, TableAssociated
  <2>3. CASE TablePropagated
    <3>1. /\ table \in Live(tables) /\ table \in Id /\ tables[table].subnet
          /\ vpn # 0 /\ \A u \in Live(tables) : tables[u].from # vpn
      BY <1>0, <1>a, <2>3 DEF TablePropagated, Propagate, Goes, CreateInv, Routing, TypeOK, NeedVpn
    <3>2. \A u \in Live(tables)' : u # table => tables'[u] = tables[u] /\ u \in Live(tables)
      BY <1>a, <1>b, <2>3 DEF TablePropagated, OnlyTable
    <3>3. tables'[table].from = vpn /\ tables'[table].subnet
      BY <2>3, <3>1 DEF TablePropagated
    <3> QED  BY <1>0, <1>2, <2>0, <3>1, <3>2, <3>3 DEF TableInv, GatewayInv
  <2>4. CASE TablesCut
    <3>1. \A u \in Live(tables)' : u \in Live(tables) /\ tables'[u].from = tables[u].from /\ tables'[u].cut
      BY <1>a, <1>b, <2>4 DEF TablesCut, Kept
    <3> QED  BY <1>0, <1>2, <2>0, <3>1 DEF TableInv
  <2>5. CASE TableUnmade
    <3>1. \A u \in Live(tables)' : u \in Live(tables) /\ tables'[u] = tables[u]
      BY <1>a, <1>b, <2>5 DEF TableUnmade, OnlyTable
    <3> QED  BY <1>0, <1>2, <2>0, <3>1 DEF TableInv
  <2>6. CASE TablesFreed
    <3>1. \A u \in Live(tables)' : u \in Live(tables) /\ tables'[u].from = tables[u].from
      BY <1>a, <1>b, <2>6 DEF TablesFreed, Kept
    <3>2. vpn # 0 /\ \A u \in Live(tables) : tables[u].from # vpn
      BY <1>0, <2>6 DEF TablesFreed, Disassociate, Goes, Routing, TypeOK, NeedVpn
    <3>3. \A u \in Live(tables)' : tables'[u].from \notin Listed(gateways)
      BY <1>0, <3>1, <3>2 DEF GatewayInv
    <3> QED  BY <1>0, <1>2, <2>0, <3>1, <3>3 DEF TableInv
  <2> QED  BY <1>1, <2>1, <2>2, <2>3, <2>4, <2>5, <2>6, TableStep
<1>3. UNCHANGED tables \/ UNCHANGED gateways
  <2>1. OnTables => UNCHANGED gateways
    BY DEF OnTables, Disassociate, CreateTable, Associate, Propagate, CutSubnets, DeleteTable
  <2> QED
    BY <2>1, TableStep DEF OnTables, TableMade, TablesFreed, TableAssociated, TablePropagated,
       TablesCut, TableUnmade
<1> QED  BY <1>1, <1>2, <1>3

\* Each gateway has one interface.
LEMMA VifInvStep ==
  ASSUME IInv, [Next]_vars
  PROVE  VifInv'
<1>0. TypeOK /\ GatewayInv /\ VifInv /\ vpn \in 0..Ids
  BY DEF IInv, TypeOK
<1>a. \A i \in Listed(vifs) : vifs[i].on \in Id
  BY <1>0 DEF TypeOK, Listed, New
<1>1. CASE UNCHANGED vifs
  <2>1. Listed(vifs)' = Listed(vifs)
    BY <1>1 DEF Listed
  <2> QED  BY <1>0, <1>1, <1>a, <2>1, ListedStep DEF VifInv
<1>2. ASSUME NEW i \in Id, OnlyVif(i), VifMade(i) PROVE VifInv'
  <2>1. /\ UNCHANGED gateways /\ vpn # 0 /\ vifs'[i].on = vpn /\ OnGateway = {}
    BY <1>0, <1>2 DEF VifMade, CreateVif, Goes, TypeOK, NeedVpn
  <2>2. \A j \in Listed(vifs)' : j # i => j \in Listed(vifs) /\ vifs'[j] = vifs[j] /\ vifs[j].on # vpn
    BY <1>2, <2>1 DEF OnlyVif, Listed, OnGateway
  <2> QED  BY <1>0, <2>1, <2>2 DEF VifInv, GatewayInv
<1>3. ASSUME NEW i \in Id, OnlyVif(i), VifUnmade(i) \/ VifMoved(i) PROVE VifInv'
  <2>1. UNCHANGED gateways
    BY <1>3 DEF VifUnmade, VifMoved, DeleteVif, VifMoves
  <2>2. \A j \in Listed(vifs)' : j \in Listed(vifs) /\ vifs'[j].on = vifs[j].on
    BY <1>3 DEF OnlyVif, Listed, VifUnmade, VifMoved, Undeleted
  <2> QED  BY <1>0, <2>1, <2>2 DEF VifInv
<1> QED  BY <1>1, <1>2, <1>3, VifStep
-----------------------------------------------------------------------------
(***************************************************************************)
(* What create and delete know.                                            *)
(***************************************************************************)
\* An interface that is passed over is remembered,
LEMMA HiddenStep ==
  ASSUME IInv, [Next]_vars, ~hidden'
  PROVE  ~hidden /\ (NoVif => Undeleted = {})
<1>0. hidden \in BOOLEAN
  BY DEF IInv, TypeOK
<1>1. CASE NoVif
  <2> DEFINE Some == \E i \in Listed(vifs) : vifs[i].state # "deleted"
  <2>1. hidden' = (hidden \/ Some)
    BY <1>1 DEF NoVif
  <2>2. Some \/ Undeleted = {}
    BY DEF Undeleted
  <2> HIDE DEF Some
  <2> QED  BY <1>0, <2>1, <2>2
<1>2. CASE ~NoVif
  <2>1. CASE \/ UNCHANGED vars \/ VpcReady \/ DxReady \/ GatewayMoves \/ AttachmentMoves
             \/ VifMoves \/ StartApply \/ StartDestroy \/ Raise \/ End \/ Die \/ Created
             \/ Returning
    BY <1>2, <2>1 DEF vars, VpcReady, DxReady, GatewayMoves, AttachmentMoves, VifMoves,
       StartApply, StartDestroy, Raise, End, Die, Created, Returning, NothingToDo, GatewayGone,
       GatewayDeleted
  <2>2. CASE Waiting \/ Finding \/ Connect \/ Look
    BY <1>2, <2>2 DEF Waiting, VpcAvailable, Connected, GatewayCreated, Attached, NoTable,
       VifDeleted, NotAttached, Detached, Finding, FindGateway, FindTable, FindVif,
       FindGatewayToDelete, Connect, Look
  <2>3. CASE OnGateways \/ OnTables \/ OnVifs
    <3>1. UNCHANGED hidden
      BY <2>3 DEF OnGateways, CreateGateway, Attach, Detach, DeleteGateway, OnTables,
         Disassociate, CreateTable, Associate, Propagate, CutSubnets, DeleteTable, OnVifs,
         CreateVif, DeleteVif
    <3> QED  BY <1>2, <3>1
  <2> QED  BY <1>2, <2>1, <2>2, <2>3, Actions
<1> QED  BY <1>1, <1>2

\* so that, until then, none outlives its gateway.
LEMMA StrayStep ==
  ASSUME IInv, [Next]_vars
  PROVE  StrayInv'
<1> SUFFICES ASSUME ~hidden', NEW i \in Undeleted' PROVE vifs'[i].on \in Live(gateways)'
  BY DEF StrayInv
<1>0. /\ TypeOK /\ GatewayInv /\ CreateInv /\ DeleteInv /\ ~hidden /\ vpn \in 0..Ids
      /\ \A j \in Undeleted : vifs[j].on \in Live(gateways)
  BY HiddenStep DEF IInv, TypeOK, StrayInv
<1>1. i \in Id /\ vifs'[i].state \notin {"new", "gone", "deleted"}
  BY DEF Undeleted, Listed
<1>2. ASSUME NEW g \in Live(gateways), ~DeleteGateway PROVE g \in Live(gateways)'
  <2>1. g \in Id /\ gateways[g].state \in {"pending", "available"}
    BY <1>0 DEF Live, Listed, TypeOK, New
  <2>2. ASSUME NEW h \in Id, Only(h),
               \/ GatewayMade(h) \/ GatewayMoved(h) \/ AttachmentMoved(h)
               \/ GatewayAttached(h) \/ GatewayDetached(h)
        PROVE  gateways'[g].state \in {"pending", "available"}
    BY <2>1, <2>2 DEF Only, GatewayMade, GatewayMoved, AttachmentMoved, GatewayAttached,
       GatewayDetached
  <2>3. gateways'[g].state \in {"pending", "available"}
    BY <1>0, <1>2, <2>1, <2>2, GatewayStep DEF GatewayUnmade
  <2> QED  BY <2>1, <2>3 DEF Live, Listed
<1>3. CASE DeleteGateway
  <2>1. Undeleted = {} /\ UNCHANGED vifs
    BY <1>0, <1>3 DEF DeleteGateway, Does, DeleteInv
  <2> QED  BY <2>1 DEF Undeleted, Listed
<1>4. CASE ~DeleteGateway /\ i \in Undeleted /\ vifs'[i].on = vifs[i].on
  BY <1>0, <1>2, <1>4
<1>5. CASE UNCHANGED vifs
  BY <1>3, <1>4, <1>5 DEF Undeleted, Listed
<1>6. ASSUME NEW j \in Id, OnlyVif(j), VifMade(j) PROVE vifs'[i].on \in Live(gateways)'
  <2>1. /\ UNCHANGED gateways /\ vpn \in Id /\ gateways[vpn].state = "available"
        /\ vifs'[j].on = vpn /\ ~DeleteGateway
    BY <1>0, <1>6 DEF VifMade, CreateVif, DeleteGateway, Goes, Does, CreateInv, TypeOK, NeedVpn, Id
  <2>2. vpn \in Live(gateways)'
    BY <2>1 DEF Live, Listed
  <2>3. i # j => i \in Undeleted /\ vifs'[i].on = vifs[i].on
    BY <1>1, <1>6 DEF OnlyVif, Undeleted, Listed
  <2> QED  BY <1>4, <2>1, <2>2, <2>3
<1>7. ASSUME NEW j \in Id, OnlyVif(j), VifUnmade(j) \/ VifMoved(j)
      PROVE  vifs'[i].on \in Live(gateways)'
  <2>1. i \in Undeleted /\ vifs'[i].on = vifs[i].on
    BY <1>1, <1>7 DEF OnlyVif, VifUnmade, VifMoved, Undeleted, Listed
  <2>2. DeleteGateway => UNCHANGED vifs
    BY DEF DeleteGateway
  <2> QED  BY <1>4, <1>5, <2>1, <2>2
<1> QED  BY <1>5, <1>6, <1>7, VifStep

\* What create has found or made stays.
LEMMA CreateStep ==
  ASSUME IInv, [Next]_vars
  PROVE  CreateInv'
<1>0. /\ TypeOK /\ GatewayInv /\ CreateInv /\ TableInv /\ vpn \in 0..Ids
      /\ (step \in {"attached", "routes", "table", "associate", "propagate", "vif", "ready"} =>
            vpn \in Id)
      /\ (step = "ready" => vif \in Id)
  BY DEF IInv, TypeOK, NeedVpn, NeedVif, Id
<1>1. CASE step' \notin {"attached", "routes", "table", "associate", "propagate", "vif", "ready"}
  BY <1>1 DEF CreateInv
<1>2. CASE UNCHANGED vars \/ VpcReady \/ DxReady
  BY <1>0, <1>2 DEF vars, VpcReady, DxReady, aws, local, CreateInv, Routing, Live, Listed
<1>3. CASE GatewayMoves \/ AttachmentMoves
  <2>1. UNCHANGED <<tables, vifs, step, vpn, table, vif>>
    BY <1>3 DEF GatewayMoves, AttachmentMoves, local
  <2>2. Routing' = Routing /\ Live(tables)' = Live(tables)
    BY <2>1 DEF Routing, Live, Listed
  <2>3. ASSUME NEW g \in Id, Only(g),
               \/ GatewayMade(g) \/ GatewayMoved(g) \/ AttachmentMoved(g)
               \/ GatewayAttached(g) \/ GatewayDetached(g) \/ GatewayUnmade(g),
               vpn \in Id, gateways[vpn].state = "available"
        PROVE  /\ gateways'[vpn].state = "available"
               /\ gateways[vpn].at \in {"attaching", "attached"} =>
                    gateways'[vpn].at \in {gateways[vpn].at, "attached"}
    <3>1. GatewayMoved(g) \/ AttachmentMoved(g) \/ g # vpn
      BY <1>3, <2>1, <2>3 DEF GatewayMade, GatewayAttached, GatewayDetached, GatewayUnmade,
         CreateGateway, Attach, Detach, DeleteGateway, Goes, Does
    <3> QED  BY <2>3, <3>1 DEF Only, GatewayMoved, AttachmentMoved
  <2>4. step \in {"attached", "routes", "table", "associate", "propagate", "vif", "ready"} =>
          /\ gateways'[vpn].state = "available"
          /\ gateways'[vpn].at \in {gateways[vpn].at, "attached"}
    BY <1>0, <2>3, GatewayStep DEF CreateInv
  <2> QED  BY <1>0, <2>1, <2>2, <2>4 DEF CreateInv
<1>4. CASE VifMoves
  <2>1. UNCHANGED <<gateways, tables, step, vpn, table, vif>>
    BY <1>4 DEF VifMoves, local
  <2>2. Routing' = Routing /\ Live(tables)' = Live(tables)
    BY <2>1 DEF Routing, Live, Listed
  <2>3. \A i \in Id : vifs[i].state # "new" => vifs'[i].state # "new" /\ vifs'[i].on = vifs[i].on
    BY <1>4, VifStep DEF OnlyVif, VifMade, VifUnmade, VifMoved, Undeleted, Listed
  <2> QED  BY <1>0, <2>1, <2>2, <2>3 DEF CreateInv
<1>5. CASE Attach
  <2>1. vpn \in Listed(gateways) /\ step' = "attached" /\ UNCHANGED vpn
    BY <1>5 DEF Attach, Goes, local
  <2>2. vpn \in Id /\ gateways[vpn].state \in {"pending", "available", "deleting", "deleted"}
    BY <1>0, <2>1 DEF Listed, TypeOK, New
  <2>3. CASE UNCHANGED gateways
    <3>1. gateways[vpn].at \in {"attaching", "attached"}
      <4>1. \/ gateways[vpn].at \in {"attaching", "attached"}
            \/ /\ gateways[vpn].at \in {"none", "detaching", "detached"}
               /\ gateways' = [gateways EXCEPT ![vpn].at = "attaching"]
        BY <1>5 DEF Attach
      <4>2. gateways[vpn] \in Gateway /\ gateways[vpn].state # "new"
        BY <1>0, <2>2 DEF TypeOK, Gateway
      <4>3. gateways[vpn] \in [state : {"pending", "available", "deleting", "deleted", "gone"},
                               at : {"none", "attaching", "attached", "detaching", "detached"}]
        BY <4>2 DEF Gateway, New
      <4>4. [gateways EXCEPT ![vpn].at = "attaching"][vpn].at = "attaching"
        BY <1>0, <2>2, <4>3 DEF TypeOK
      <4> QED  BY <2>3, <4>1, <4>4
    <3>2. gateways[vpn].state = "available"
      BY <1>0, <2>2, <3>1 DEF GatewayInv
    <3> QED  BY <2>1, <2>3, <3>1, <3>2 DEF CreateInv
  <2>4. CASE gateways' # gateways
    <3>1. PICK g \in Id : \/ GatewayMade(g) \/ GatewayMoved(g) \/ AttachmentMoved(g)
                          \/ GatewayAttached(g) \/ GatewayDetached(g) \/ GatewayUnmade(g)
      BY <1>0, <2>4, GatewayStep
    <3>2. GatewayAttached(g)
      BY <1>5, <3>1 DEF GatewayMade, GatewayMoved, AttachmentMoved, GatewayDetached, GatewayUnmade,
         CreateGateway, GatewayMoves, AttachmentMoves, Detach, DeleteGateway, Attach, Goes, Does
    <3> QED  BY <2>1, <3>2 DEF GatewayAttached, CreateInv
  <2> QED  BY <2>3, <2>4
<1>6. CASE Attached
  BY <1>0, <1>6 DEF Attached, Goes, aws, local, CreateInv
<1>7. CASE FindTable
  <2>1. ASSUME NEW t \in Routing PROVE Routing = {t}
    <3>1. vpn # 0
      BY <1>0, <1>7 DEF FindTable, Goes, TypeOK, NeedVpn
    <3> QED  BY <1>0, <2>1, <3>1 DEF Routing, TableInv
  <2> QED  BY <1>0, <1>7, <2>1 DEF FindTable, Goes, aws, CreateInv, Routing, Live, Listed
<1>8. CASE Disassociate
  <2>1. /\ step = "routes" /\ step' = "table" /\ Routing = {} /\ UNCHANGED <<gateways, vpn>>
    BY <1>8 DEF Disassociate, Goes, local
  <2>2. \A u \in Id : Kept(u)
    BY <1>8, TableStep DEF TablesFreed, TableMade, TableAssociated, TablePropagated, TablesCut,
       TableUnmade, Associate, Propagate, CutSubnets, DeleteTable, CreateTable, Disassociate, Goes,
       Does, Kept
  <2>3. Routing' = {}
    BY <1>0, <2>1, <2>2, LiveTables, LiveNext, TypeStep DEF Kept, Routing
  <2> QED  BY <1>0, <2>1, <2>3 DEF CreateInv
<1>9. CASE CreateTable
  <2>1. /\ step = "table" /\ step' = "associate" /\ Routing = {} /\ UNCHANGED <<gateways, vpn>>
    BY <1>0, <1>9 DEF CreateTable, Goes, CreateInv
  <2>2. PICK t \in Id : TableMade(t)
    <3>1. tables' # tables
      <4>1. table' \in Id /\ tables[table'].state = "new" /\ tables'[table'].state = "live"
        BY <1>0, <1>9, NextNew DEF CreateTable, TypeOK
      <4> QED  BY <4>1
    <3> QED
      BY <1>9, <3>1, TableStep DEF TablesFreed, TableAssociated, TablePropagated, TablesCut,
         TableUnmade, Disassociate, Associate, Propagate, CutSubnets, DeleteTable, CreateTable,
         Goes, Does
  <2>3. /\ \A u : u \in Live(tables) <=> u \in Id /\ tables[u].state = "live"
        /\ \A u : u \in Live(tables)' <=> u \in Id /\ tables'[u].state = "live"
    BY <1>0, LiveTables, LiveNext, TypeStep
  <2>4. table' = t /\ t \in Live(tables)' /\ tables'[t].from = 0
    BY <2>2, <2>3 DEF TableMade
  <2>5. \A u \in Live(tables)' : tables'[u].from # vpn
    BY <1>0, <2>1, <2>2, <2>3, <2>4 DEF TableMade, Kept, Routing, Id
  <2> QED  BY <1>0, <2>1, <2>4, <2>5 DEF CreateInv, Routing
<1>10. CASE Associate
  <2>1. /\ step = "associate" /\ step' = "propagate" /\ UNCHANGED <<gateways, vpn, table>>
        /\ table \in Live(tables) /\ table \in Id /\ Routing = {} /\ tables[table].from = 0
    BY <1>0, <1>10, LiveTables DEF Associate, Goes, local, CreateInv
  <2>2. tables[table] \in [state : {"live", "gone"}, from : 0..Ids, subnet : BOOLEAN, cut : BOOLEAN]
        /\ tables \in [Id -> Table] /\ tables[table].state = "live"
    BY <1>0, <2>1, LiveTables
  <2>3. tables' = [tables EXCEPT ![table].subnet = TRUE]
    BY <1>10 DEF Associate
  <2>4. /\ tables'[table].from = tables[table].from /\ tables'[table].subnet
        /\ tables'[table].state = tables[table].state
        /\ \A u \in Id \ {table} : tables'[u] = tables[u]
    BY <2>1, <2>2, <2>3
  <2>5. Live(tables)' = Live(tables) /\ Routing' = {}
    BY <2>1, <2>4 DEF Live, Listed, Routing
  <2> QED  BY <1>0, <2>1, <2>4, <2>5 DEF CreateInv
<1>11. CASE Propagate
  <2>1. /\ step = "propagate" /\ step' = "vif" /\ UNCHANGED <<gateways, vpn, table>>
        /\ table \in Live(tables) /\ table \in Id /\ Routing = {}
    BY <1>0, <1>11, LiveTables DEF Propagate, Goes, local, CreateInv
  <2>2. tables[table] \in [state : {"live", "gone"}, from : 0..Ids, subnet : BOOLEAN, cut : BOOLEAN]
        /\ tables \in [Id -> Table] /\ tables[table].state = "live"
    BY <1>0, <2>1, LiveTables
  <2>3. tables' = [tables EXCEPT ![table].from = vpn]
    BY <1>11 DEF Propagate
  <2>4. /\ tables'[table].from = vpn /\ tables'[table].state = tables[table].state
        /\ \A u \in Id \ {table} : tables'[u] = tables[u]
    BY <2>1, <2>2, <2>3
  <2>5. Live(tables)' = Live(tables) /\ Routing' = {table}
    BY <2>1, <2>4 DEF Live, Listed, Routing
  <2> QED  BY <1>0, <2>1, <2>4, <2>5 DEF CreateInv
<1>12. CASE FindVif
  BY <1>0, <1>12 DEF FindVif, Goes, aws, CreateInv, Routing, Live, Listed, OnGateway
<1>13. CASE CreateVif
  <2>1. /\ step = "vif" /\ step' = "ready" /\ UNCHANGED <<gateways, tables, vpn, table>>
        /\ vif' \in Id /\ vifs' = [vifs EXCEPT ![vif'] = [state |-> "pending", on |-> vpn]]
    BY <1>13, NextNew DEF CreateVif, Goes
  <2>2. vifs'[vif'] = [state |-> "pending", on |-> vpn]
    BY <1>0, <2>1 DEF TypeOK
  <2> QED  BY <1>0, <2>1, <2>2 DEF CreateInv, Routing, Live, Listed
<1>14. CASE \/ StartApply \/ StartDestroy \/ Raise \/ End \/ Die \/ Created \/ Returning
            \/ VpcAvailable \/ Connect \/ Connected \/ FindGateway \/ CreateGateway
            \/ GatewayCreated \/ FindGatewayToDelete \/ NoTable \/ CutSubnets \/ DeleteTable
            \/ NoVif \/ DeleteVif \/ VifDeleted \/ NotAttached \/ Detach \/ Detached
            \/ DeleteGateway \/ Look
  <2>1. step' \notin {"attached", "routes", "table", "associate", "propagate", "vif", "ready"}
    BY <1>14 DEF StartApply, StartDestroy, Raise, End, Die, Created, Returning, NothingToDo,
       GatewayGone, GatewayDeleted, VpcAvailable, Connect, Connected, FindGateway, CreateGateway,
       GatewayCreated, FindGatewayToDelete, NoTable, CutSubnets, DeleteTable, NoVif, DeleteVif,
       VifDeleted, NotAttached, Detach, Detached, DeleteGateway, Look, Goes, Does
  <2> QED  BY <1>1, <2>1
<1> QED
  BY <1>2, <1>3, <1>4, <1>5, <1>6, <1>7, <1>8, <1>9, <1>10, <1>11, <1>12, <1>13, <1>14,
  Actions
  DEF Waiting, Finding, OnGateways, OnTables, OnVifs

\* Interfaces that are deleted stay so, whatever AWS does.
LEMMA UndeletedStep ==
  ASSUME IInv, [Next]_vars, ~CreateVif
  PROVE  Undeleted' \subseteq Undeleted
<1>1. CASE UNCHANGED vifs
  BY <1>1 DEF Undeleted, Listed
<1>2. ASSUME NEW i \in Id, OnlyVif(i), VifMade(i) \/ VifUnmade(i) \/ VifMoved(i)
      PROVE  Undeleted' \subseteq Undeleted
  BY <1>2 DEF OnlyVif, VifMade, VifUnmade, VifMoved, Undeleted, Listed
<1> QED  BY <1>1, <1>2, VifStep

\* What delete has dealt with stays gone.
LEMMA DeleteStep ==
  ASSUME IInv, [Next]_vars
  PROVE  DeleteInv'
<1>0. /\ TypeOK /\ PhaseInv /\ KnownInv /\ GatewayInv /\ VifInv /\ StrayInv /\ DeleteInv
      /\ vpn \in 0..Ids /\ (step \in NeedVpn => vpn \in Id)
  BY DEF IInv, TypeOK, Id
<1>a. ~hidden' => ~hidden /\ (NoVif => Undeleted = {})
  BY HiddenStep
<1>1. CASE step' \notin Deleting
  BY <1>1 DEF DeleteInv, Deleting
<1>2. CASE UNCHANGED vars \/ VpcReady \/ DxReady
  BY <1>0, <1>2 DEF vars, session, VpcReady, DxReady, aws, local, DeleteInv, Live, Listed, Undeleted
<1>3. CASE GatewayMoves \/ AttachmentMoves
  <2>1. UNCHANGED <<tables, vifs, step, vpn, table, vif, seen, hidden, saved>>
    BY <1>3 DEF GatewayMoves, AttachmentMoves, local, session
  <2>2. Undeleted' = Undeleted /\ Live(tables)' = Live(tables)
    BY <2>1 DEF Undeleted, Live, Listed
  <2>3. ASSUME NEW g \in Id, Only(g),
               \/ GatewayMade(g) \/ GatewayMoved(g) \/ AttachmentMoved(g)
               \/ GatewayAttached(g) \/ GatewayDetached(g) \/ GatewayUnmade(g),
               vpn \in Id, gateways[vpn].state \in {"deleting", "deleted", "gone"}
        PROVE  gateways'[vpn].state \in {gateways[vpn].state, "deleted", "gone"}
    <3>1. GatewayMoved(g) \/ AttachmentMoved(g) \/ g # vpn
      BY <1>3, <2>1, <2>3 DEF GatewayMade, GatewayAttached, GatewayDetached, GatewayUnmade,
         CreateGateway, Attach, Detach, DeleteGateway, Goes, Does
    <3> QED  BY <2>3, <3>1 DEF Only, GatewayMoved, AttachmentMoved
  <2>4. step = "gatewayGone" =>
          gateways'[vpn].state \in {gateways[vpn].state, "deleted", "gone"}
    BY <1>0, <2>3, GatewayStep DEF DeleteInv, NeedVpn
  <2> QED  BY <1>0, <2>1, <2>2, <2>4 DEF DeleteInv
<1>4. CASE VifMoves
  <2>1. UNCHANGED <<gateways, tables, step, vpn, table, vif, seen, hidden, saved>>
    BY <1>4 DEF VifMoves, local, session
  <2>2. Live(tables)' = Live(tables)
    BY <2>1 DEF Live, Listed
  <2>3. ~CreateVif
    BY <1>4, <2>1 DEF CreateVif, Goes
  <2> QED  BY <1>0, <2>1, <2>2, <2>3, UndeletedStep DEF DeleteInv
<1>5. CASE StartDestroy
  <2>1. step' = "findGateway" /\ UNCHANGED saved
    BY <1>5 DEF StartDestroy, Begins
  <2>2. table' \in IF saved.known[1] = {} THEN {0} ELSE {f.table : f \in saved.known[1]}
    BY <1>5 DEF StartDestroy
  <2>3. \A f \in saved.known[1] : f.table = table'
    BY <1>0, <2>2 DEF KnownInv
  <2> QED  BY <2>1, <2>3 DEF DeleteInv
<1>6. CASE FindGatewayToDelete
  BY <1>0, <1>6 DEF FindGatewayToDelete, Does, session, DeleteInv
<1>7. CASE NoTable
  <2>1. step = "cut" /\ step' = "deleteVif" /\ UNCHANGED <<tables, table, saved, vpn, vifs>>
    BY <1>7 DEF NoTable, Does, session, aws, local
  <2>2. table \notin Live(tables)
    BY <1>0, <1>7, LiveTables DEF NoTable, Id
  <2>3. Live(tables)' = Live(tables)
    BY <2>1 DEF Live, Listed
  <2> QED  BY <1>0, <2>1, <2>2, <2>3 DEF DeleteInv
<1>8. CASE CutSubnets
  <2>1. step = "cut" /\ step' = "deleteTable" /\ UNCHANGED <<table, saved>>
    BY <1>8 DEF CutSubnets, Does, session, local
  <2>2. table \in Live(tables)
    BY <1>0, <1>8, LiveTables DEF CutSubnets
  <2>3. table \in Id /\ tables[table].state = "live"
        /\ tables'[table] = [tables[table] EXCEPT !.subnet = FALSE, !.cut = TRUE]
        /\ tables[table] \in [state : {"live", "gone"}, from : 0..Ids, subnet : BOOLEAN, cut : BOOLEAN]
    BY <1>0, <1>8, <2>2, LiveTables DEF CutSubnets
  <2>4. table \in Live(tables)'
    BY <2>3 DEF Live, Listed
  <2> QED  BY <1>0, <2>1, <2>4 DEF DeleteInv
<1>9. CASE DeleteTable
  <2>1. step = "deleteTable" /\ step' = "deleteVif" /\ UNCHANGED <<table, saved>>
    BY <1>9 DEF DeleteTable, Does, session, local
  <2>2. table \in Id /\ tables[table].state = "live" /\ tables \in [Id -> Table]
        /\ tables[table] \in [state : {"live", "gone"}, from : 0..Ids, subnet : BOOLEAN, cut : BOOLEAN]
    BY <1>0, <2>1, LiveTables DEF DeleteInv
  <2>3. tables' = [tables EXCEPT ![table].state = "gone"]
    BY <1>9 DEF DeleteTable
  <2>4. tables'[table].state = "gone"
    BY <2>2, <2>3
  <2>5. table \notin Live(tables)'
    BY <2>4 DEF Live, Listed
  <2> QED  BY <1>0, <2>1, <2>5 DEF DeleteInv
<1>10. CASE NoVif
  <2>1. step = "deleteVif" /\ step' = "detach" /\ UNCHANGED <<tables, vifs, saved>>
    BY <1>10 DEF NoVif, Does, session, aws
  <2>2. Undeleted' = Undeleted /\ Live(tables)' = Live(tables)
    BY <2>1 DEF Undeleted, Live, Listed
  <2> QED  BY <1>0, <1>a, <1>10, <2>1, <2>2 DEF DeleteInv
<1>11. CASE DeleteVif
  <2>1. step = "deleteVif" /\ step' = "vifGone" /\ UNCHANGED <<tables, gateways, saved>>
    BY <1>11 DEF DeleteVif, Does, session
  <2>2. Live(tables)' = Live(tables) /\ ~CreateVif
    BY <2>1 DEF Live, Listed, CreateVif, Goes
  <2>3. vif' \in Undeleted
    BY <1>11 DEF DeleteVif, Undeleted
  <2>4. ASSUME ~hidden, NEW i \in Undeleted PROVE i = vif'
    <3>1. vifs[i].on \in Listed(gateways) /\ vifs[vif'].on \in Listed(gateways)
      BY <1>0, <2>3, <2>4 DEF StrayInv, Live
    <3>2. vifs[i].on = vifs[vif'].on
      BY <1>0, <3>1 DEF GatewayInv
    <3> QED  BY <1>0, <2>3, <3>2 DEF VifInv, Undeleted
  <2> QED  BY <1>0, <1>a, <2>1, <2>2, <2>4, UndeletedStep DEF DeleteInv
<1>12. CASE VifDeleted
  <2>1. step = "vifGone" /\ step' = "detach" /\ UNCHANGED <<tables, vifs, saved, vif, hidden>>
        /\ vifs[vif].state = "deleted"
    BY <1>12 DEF VifDeleted, Does, session, aws, local
  <2>2. Undeleted' = Undeleted /\ Live(tables)' = Live(tables)
    BY <2>1 DEF Undeleted, Live, Listed
  <2> QED  BY <1>0, <2>1, <2>2 DEF DeleteInv, Undeleted
<1>13. CASE NotAttached \/ Detach \/ Detached
  <2>1. /\ step \in {"detach", "detached"} /\ step' \in {"detached", "deleteGateway"}
        /\ UNCHANGED <<tables, vifs, saved, hidden>>
    BY <1>13 DEF NotAttached, Detach, Detached, Does, session, aws
  <2>2. Undeleted' = Undeleted /\ Live(tables)' = Live(tables)
    BY <2>1 DEF Undeleted, Live, Listed
  <2> QED  BY <1>0, <2>1, <2>2 DEF DeleteInv
<1>14. CASE DeleteGateway
  <2>1. /\ step = "deleteGateway" /\ step' = "gatewayGone"
        /\ UNCHANGED <<tables, vifs, saved, hidden, seen>> /\ vpn' \in Listed(gateways)
        /\ gateways' = [gateways EXCEPT ![vpn'].state = IF @ = "deleted" THEN @ ELSE "deleting"]
    BY <1>14 DEF DeleteGateway, Does, session
  <2>2. Undeleted' = Undeleted /\ Live(tables)' = Live(tables)
    BY <2>1 DEF Undeleted, Live, Listed
  <2>3. vpn' \in Id /\ gateways[vpn'] \in Gateway /\ gateways[vpn'].state # "new"
    BY <1>0, <2>1 DEF Listed, TypeOK, Gateway
  <2>4. gateways[vpn'] \in [state : {"pending", "available", "deleting", "deleted", "gone"},
                            at    : {"none", "attaching", "attached", "detaching", "detached"}]
    BY <2>3 DEF Gateway, New
  <2>5. gateways'[vpn'].state \in {"deleting", "deleted"}
    BY <1>0, <2>1, <2>3, <2>4 DEF TypeOK
  <2>6. seen = "none"
    BY <1>0, <2>1 DEF PhaseInv
  <2> QED  BY <1>0, <2>1, <2>2, <2>5, <2>6 DEF DeleteInv
<1>15. CASE Look
  <2>1. /\ step = "gatewayGone" /\ UNCHANGED <<step, tables, vifs, saved, hidden, vpn, gateways>>
        /\ vpn \in Listed(gateways) /\ seen' = gateways[vpn].state
    BY <1>15 DEF Look, session, aws
  <2>2. Undeleted' = Undeleted /\ Live(tables)' = Live(tables)
    BY <2>1 DEF Undeleted, Live, Listed
  <2> QED  BY <1>0, <2>1, <2>2 DEF DeleteInv, Listed
<1>16. CASE \/ StartApply \/ Raise \/ End \/ Die \/ Created \/ Returning
            \/ VpcAvailable \/ Connect \/ Connected \/ FindGateway \/ CreateGateway
            \/ GatewayCreated \/ Attach \/ Attached \/ FindTable \/ Disassociate \/ CreateTable
            \/ Associate \/ Propagate \/ FindVif \/ CreateVif
  <2>1. step' \notin Deleting
    BY <1>16 DEF StartApply, Raise, End, Die, Created, Returning, NothingToDo, GatewayGone,
       GatewayDeleted, VpcAvailable, Connect, Connected, FindGateway, CreateGateway,
       GatewayCreated, Attach, Attached, FindTable, Disassociate, CreateTable, Associate,
       Propagate, FindVif, CreateVif, Goes, Does, Deleting
  <2> QED  BY <1>1, <2>1
<1> QED
  BY <1>2, <1>3, <1>4, <1>5, <1>6, <1>7, <1>8, <1>9, <1>10, <1>11, <1>12, <1>13, <1>14, <1>15,
     <1>16, Actions DEF Waiting, Finding, OnGateways, OnTables, OnVifs

\* When delete returns, everything is.
LEMMA EndStep ==
  ASSUME IInv, [Next]_vars
  PROVE  LeavesNothing'
<1>0. /\ TypeOK /\ PhaseInv /\ GatewayInv /\ DeleteInv /\ LeavesNothing
      /\ vpn \in 0..Ids /\ (step \in NeedVpn => vpn # 0)
  BY DEF IInv, TypeOK
<1>1. CASE step' # "end"
  BY <1>1 DEF LeavesNothing
<1>2. CASE UNCHANGED vars \/ VpcReady \/ DxReady \/ GatewayMoves \/ AttachmentMoves \/ VifMoves
  <2>1. UNCHANGED <<phase, step, failed, vpn, saved, tables, hidden>>
    BY <1>2 DEF vars, session, aws, local, VpcReady, DxReady, GatewayMoves, AttachmentMoves, VifMoves
  <2>2. Live(tables)' = Live(tables)
    BY <2>1 DEF Live, Listed
  <2>3. ~CreateVif \/ step' # "end"
    BY DEF CreateVif, Goes
  <2>4. Live(gateways)' \subseteq Live(gateways) \/ step' # "end"
    <3>1. ASSUME NEW g \in Id, Only(g),
                 \/ GatewayMade(g) \/ GatewayMoved(g) \/ AttachmentMoved(g)
                 \/ GatewayAttached(g) \/ GatewayDetached(g) \/ GatewayUnmade(g),
                 step' = "end"
          PROVE  Live(gateways)' \subseteq Live(gateways)
      <4>1. GatewayMoved(g) \/ AttachmentMoved(g)
        BY <3>1 DEF GatewayMade, GatewayAttached, GatewayDetached, GatewayUnmade,
           CreateGateway, Attach, Detach, DeleteGateway, Goes, Does
      <4> QED  BY <3>1, <4>1 DEF Only, GatewayMoved, AttachmentMoved, Live, Listed
    <3>2. UNCHANGED gateways => Live(gateways)' = Live(gateways)
      BY DEF Live, Listed
    <3> QED  BY <1>0, <3>1, <3>2, GatewayStep
  <2>5. Undeleted' \subseteq Undeleted \/ step' # "end"
    BY <2>3, UndeletedStep
  <2>6. LeavesNothing <=>
          (phase = "destroy" /\ step = "end" /\ failed = {} /\ vpn # 0 =>
             /\ Live(gateways) = {}
             /\ \A f \in saved.known[1] : f.table \notin Live(tables)
             /\ ~hidden => Undeleted = {})
    BY DEF LeavesNothing, Undeleted
  <2>7. (phase = "destroy" /\ step = "end" /\ failed = {} /\ vpn # 0 =>
           /\ Live(gateways)' = {}
           /\ \A f \in saved.known[1] : f.table \notin Live(tables)'
           /\ ~hidden => Undeleted' = {})
    BY <1>0, <2>1, <2>2, <2>4, <2>5, <2>6
  <2> QED  BY <2>1, <2>7 DEF LeavesNothing, Undeleted
<1>3. CASE NothingToDo
  <2>1. vpn' = 0
    BY <1>0, <1>3 DEF NothingToDo, Does, local, PhaseInv
  <2> QED  BY <2>1 DEF LeavesNothing
<1>4. CASE GatewayGone \/ GatewayDeleted
  <2>1. /\ UNCHANGED <<gateways, tables, vifs, vpn, hidden, saved>>
        /\ step \in {"deleteGateway", "gatewayGone"}
    BY <1>4 DEF GatewayGone, GatewayDeleted, Does, Deleted, Reached, aws, local
  <2>2. Live(gateways) = {}
    <3>1. CASE Listed(gateways) = {}
      BY <3>1 DEF Live
    <3>2. CASE GatewayDeleted
      <4>1. step = "gatewayGone" /\ (seen = "deleted" \/ vpn \notin Listed(gateways))
        BY <3>2 DEF GatewayDeleted, Does
      <4>2. Listed(gateways) \subseteq {vpn} /\ gateways[vpn].state \in {"deleting", "deleted", "gone"}
        BY <1>0, <4>1 DEF GatewayInv, DeleteInv, NeedVpn
      <4> QED  BY <4>2 DEF Live, Listed
    <3> QED  BY <1>4, <3>1, <3>2 DEF GatewayGone
  <2>3. Live(gateways)' = Live(gateways) /\ Live(tables)' = Live(tables) /\ Undeleted' = Undeleted
    BY <2>1 DEF Live, Listed, Undeleted
  <2>4. /\ \A f \in saved.known[1] : f.table \notin Live(tables)
        /\ ~hidden => Undeleted = {}
    BY <1>0, <2>1 DEF DeleteInv
  <2>5. Live(gateways)' = {} /\ (\A f \in saved'.known[1] : f.table \notin Live(tables)')
        /\ (~hidden' => Undeleted' = {})
    BY <2>1, <2>2, <2>3, <2>4
  <2> QED  BY <2>5 DEF LeavesNothing, Undeleted
<1>5. CASE Raise
  <2>1. failed' # {}
    BY <1>5 DEF Raise, Fails
  <2> QED  BY <2>1 DEF LeavesNothing
<1>6. CASE Created
  <2>1. phase' # "destroy"
    BY <1>6 DEF Created, Succeeds, Reached
  <2> QED  BY <2>1 DEF LeavesNothing
<1>7. CASE \/ StartApply \/ StartDestroy \/ End \/ Die \/ Waiting \/ Finding \/ Connect
           \/ OnGateways \/ OnTables \/ OnVifs \/ NoVif \/ Look
  <2>1. step' # "end"
    BY <1>7 DEF StartApply, StartDestroy, End, Die, Waiting, VpcAvailable, Connected,
       GatewayCreated, Attached, NoTable, VifDeleted, NotAttached, Detached, Finding, FindGateway,
       FindTable, FindVif, FindGatewayToDelete, Connect, OnGateways, CreateGateway, Attach,
       Detach, DeleteGateway, OnTables, Disassociate, CreateTable, Associate, Propagate,
       CutSubnets, DeleteTable, OnVifs, CreateVif, DeleteVif, NoVif, Look, Goes, Does
  <2> QED  BY <1>1, <2>1
<1> QED  BY <1>2, <1>3, <1>4, <1>5, <1>6, <1>7, Actions DEF Returning

\* The inductive invariant: one gateway of the name, one table and one interface
\* on each gateway, and what create and delete know at each of their steps.
THEOREM Invariant == Spec => []IInv
<1>1. ASSUME IInv, [Next]_vars PROVE IInv'
  BY <1>1, TypeStep, PhaseStep, KnownStep, GatewayInvStep, TableInvStep, VifInvStep, StrayStep,
     CreateStep, DeleteStep, EndStep DEF IInv
<1> QED  BY Initially, <1>1, PTL DEF Spec
-----------------------------------------------------------------------------
\* Every variable keeps its type, and AWS is never called with an identifier that
\* the program has not got.
THEOREM TypeCorrect == Spec => []TypeOK
BY Invariant, PTL DEF IInv

\* A destroy that has found a gateway and ends well leaves none, nor a table that
\* is known of, nor, unless one was ever hidden, an interface.
THEOREM LeavesNothingHolds == Spec => []LeavesNothing
BY Invariant, PTL DEF IInv

\* What a step of Ready says.
Report ==
  reported' # reported /\ phase' = "apply" =>
    /\ Listed(gateways) = {vpn}
    /\ gateways[vpn].state = "available" /\ gateways[vpn].at = "attached"
    /\ OnGateway = {vif} /\ vifs[vif].state = "available"
    /\ Routing = {table}
    /\ tables[table].subnet \/ tables[table].cut

\* Only Created reports, and it does what it says.
LEMMA Reports ==
  ASSUME IInv, [Next]_vars
  PROVE  Report
<1>1. CASE UNCHANGED vars \/ VpcReady \/ DxReady \/ GatewayMoves \/ AttachmentMoves \/ VifMoves
  BY <1>1 DEF vars, session, VpcReady, DxReady, GatewayMoves, AttachmentMoves, VifMoves, Report
<1>2. CASE StartApply \/ StartDestroy \/ Raise \/ Returning
  BY <1>2 DEF StartApply, StartDestroy, Begins, Raise, Fails, Returning, NothingToDo, GatewayGone,
     GatewayDeleted, Deleted, Report
<1>3. CASE End \/ Die
  BY <1>3 DEF End, Die, SaveApply, SaveDestroy, Dies, Ends, Report
<1>4. CASE Waiting \/ Finding \/ Connect \/ Look \/ NoVif
  BY <1>4 DEF Waiting, VpcAvailable, Connected, GatewayCreated, Attached, NoTable, VifDeleted,
     NotAttached, Detached, Finding, FindGateway, FindTable, FindVif, FindGatewayToDelete, Connect,
     Look, NoVif, session, Report
<1>5. CASE OnGateways \/ OnTables \/ OnVifs
  BY <1>5 DEF OnGateways, CreateGateway, Attach, Detach, DeleteGateway, OnTables, Disassociate,
     CreateTable, Associate, Propagate, CutSubnets, DeleteTable, OnVifs, CreateVif, DeleteVif,
     session, Report
<1>6. CASE Created
  <2>1. step = "ready" /\ vifs[vif].state = "available"
    BY <1>6 DEF Created
  <2>2. /\ TypeOK /\ GatewayInv /\ TableInv /\ VifInv /\ CreateInv /\ vpn \in Id /\ vif \in Id
    BY <2>1 DEF IInv, TypeOK, NeedVpn, NeedVif, Id
  <2>3. /\ gateways[vpn].state = "available" /\ gateways[vpn].at = "attached"
        /\ Routing = {table} /\ vifs[vif].on = vpn
    BY <2>1, <2>2 DEF CreateInv
  <2>4. Listed(gateways) = {vpn}
    BY <2>2, <2>3 DEF GatewayInv, Listed, Id
  <2>5. OnGateway = {vif}
    BY <2>1, <2>2, <2>3 DEF VifInv, OnGateway, Listed
  <2>6. table \in Live(tables) /\ tables[table].from = vpn
    BY <2>3 DEF Routing
  <2>7. tables[table].subnet \/ tables[table].cut
    BY <2>2, <2>4, <2>6 DEF TableInv
  <2> QED  BY <2>1, <2>3, <2>4, <2>5, <2>7 DEF Report
<1> QED  BY <1>1, <1>2, <1>3, <1>4, <1>5, <1>6, Actions

\* What is reported can carry traffic, unless a destroy has cut off its table.
THEOREM ReadyHolds == Spec => Ready
<1>1. IInv /\ [Next]_vars => [Report]_vars
  BY Reports
<1> QED  BY <1>1, Invariant, PTL DEF Spec, Ready, Report
-----------------------------------------------------------------------------
(***************************************************************************)
(* GcpNetwork.                                                             *)
(***************************************************************************)
\* The operation that is awaited at step s.
Expected(s) ==
  CASE s = "routerDone"     -> {"insertRouter"}
    [] s = "attachmentDone" -> {"insertAttachment"}
    [] s = "patched"        -> {"patchRouter"}
    [] s = "attachmentGone" -> {"deleteAttachment"}
    [] s = "routerGone"     -> {"deleteRouter"}
    [] OTHER                -> {}

\* Operations under way are awaited, so that there are none between two waits.
Await == ~late /\ stage \notin {"idle", "end"} => operations \subseteq Expected(stage)

GcpApplying == {"vpc", "router", "routerDone", "attachment", "attachmentDone", "again",
                "patch", "patched"}

GcpPhaseInv == stage \in GcpApplying => phase = "apply"

\* Nothing of an earlier command was under way, and nothing has gone wrong.
Sound == ~late /\ ~erred

\* What create has found is still there, and the key is set or about to be.
GcpCreateInv ==
  Sound =>
    /\ stage = "patch" => found = attachment
    /\ stage = "patched" => /\ found = attachment
                            /\ router = "keyed" \/ "patchRouter" \in operations

\* What delete has asked for is gone or about to be.
GcpDeleteInv ==
  Sound =>
    /\ stage = "attachmentGone" => attachment = 0 \/ "deleteAttachment" \in operations
    /\ stage \in {"findRouter", "routerGone"} => attachment = 0
    /\ stage = "routerGone" => router = "none" \/ "deleteRouter" \in operations
    /\ phase = "destroy" /\ stage = "end" /\ failed = {} =>
         router = "none" /\ attachment = 0 /\ operations = {}

GcpIInv == GcpTypeOK /\ Await /\ GcpPhaseInv /\ GcpCreateInv /\ GcpDeleteInv
-----------------------------------------------------------------------------
USE GcpAssumption

\* The actions of the program but the beginnings and the ends, by what they do.
Asking    == \/ InsertRouter \/ InsertAttachment \/ PatchRouter
             \/ DeleteAttachment \/ DeleteRouter
Polling   == RouterInserted \/ AttachmentInserted \/ AttachmentDeleted
Searching == \/ FindVpc \/ FindRouter \/ FindAttachment \/ FindAttachmentAgain \/ NoAttachment

\* Next, with the actions that do alike taken together.
LEMMA GcpActions ==
  ASSUME [GcpNext]_gcpVars
  PROVE  \/ UNCHANGED gcpVars \/ OperationDone \/ OperationErred \/ GcpStartApply \/ GcpStartDestroy
         \/ GivesUp \/ GcpEnd \/ GcpDie \/ Asking \/ Polling \/ Searching
         \/ KeyRead \/ NoRouter \/ RouterDeleted
BY DEF GcpNext, Asking, Polling, Searching

\* Nothing is there and nothing is under way.
LEMMA GcpInitially == GcpInit => GcpIInv
<1> SUFFICES ASSUME GcpInit PROVE GcpIInv
  OBVIOUS
<1>1. SessionOK(KeyFacts)
  BY SessionAssumption DEF GcpInit, SessionInit, SessionOK, NoFile, Unknown
<1>2. stage = "idle" /\ phase = "idle" /\ operations = {} /\ attachment = 0 /\ made = 0
  BY DEF GcpInit, SessionInit
<1>3. found = 0 /\ router = "none" /\ late \in BOOLEAN /\ erred \in BOOLEAN
  BY DEF GcpInit
<1>4. GcpTypeOK
  BY <1>1, <1>2, <1>3 DEF GcpTypeOK, Stages
<1> QED  BY <1>2, <1>4 DEF GcpIInv, Await, Expected, GcpPhaseInv, GcpCreateInv, GcpDeleteInv,
GcpApplying

(***************************************************************************)
(* The variables of the session keep their types here, too.                *)
(***************************************************************************)
LEMMA GcpSessionStep ==
  ASSUME GcpIInv, [GcpNext]_gcpVars
  PROVE  SessionOK(KeyFacts)'
<1>0. SessionOK(KeyFacts) /\ 1 \in Res
  BY DEF GcpIInv, GcpTypeOK
<1>1. ASSUME UNCHANGED session PROVE SessionOK(KeyFacts)'
  BY <1>0, <1>1 DEF SessionOK, session
<1>2. CASE UNCHANGED gcpVars \/ OperationDone \/ OperationErred
  BY <1>1, <1>2 DEF gcpVars, OperationDone, OperationErred
<1>3. CASE GcpStartApply \/ GcpStartDestroy
  <2>1. PICK command \in {"apply", "destroy"} : Begins(command, Res)
    BY <1>3 DEF GcpStartApply, GcpStartDestroy, Start
  <2> QED  BY <1>0, <2>1, SessionAssumption DEF Begins, SessionOK
<1>4. CASE GivesUp
  BY <1>0, <1>4 DEF GivesUp, Fails, Reached, SessionOK
<1>5. CASE GcpEnd
  BY <1>0, <1>5, SavesOK DEF GcpEnd
<1>6. CASE GcpDie
  BY <1>0, <1>6, SavesOK DEF GcpDie
<1>7. CASE Asking \/ Polling \/ Searching
  BY <1>1, <1>7 DEF Asking, InsertRouter, InsertAttachment, PatchRouter, DeleteAttachment,
     DeleteRouter, Polling, RouterInserted, AttachmentInserted, AttachmentDeleted, Searching,
     FindVpc, FindRouter, FindAttachment, FindAttachmentAgain, NoAttachment, Passes
<1>8. CASE KeyRead
  <2>1. [key |-> found] \in KeyFacts
    BY <1>8 DEF KeyRead, KeyFacts, GcpIInv, GcpTypeOK
  <2> QED  BY <1>0, <1>8, <2>1 DEF KeyRead, Succeeds, Reached, SessionOK
<1>9. CASE NoRouter \/ RouterDeleted
  BY <1>0, <1>9 DEF NoRouter, RouterDeleted, Returns, Reached, SessionOK
<1> QED  BY <1>2, <1>3, <1>4, <1>5, <1>6, <1>7, <1>8, <1>9, GcpActions

(***************************************************************************)
(* What is awaited, and in which phase.                                    *)
(***************************************************************************)
LEMMA AwaitStep ==
  ASSUME GcpIInv, [GcpNext]_gcpVars
  PROVE  Await'
<1> USE DEF Await, Expected, GcpIInv, GcpTypeOK
<1>1. CASE UNCHANGED gcpVars
  BY <1>1 DEF gcpVars, session, gcp, mishaps
<1>2. CASE OperationDone \/ OperationErred
  BY <1>2 DEF OperationDone, OperationErred, session, gcp, mishaps
<1>3. CASE GcpStartApply \/ GcpStartDestroy
  BY <1>3 DEF GcpStartApply, GcpStartDestroy, Start
<1>4. CASE GivesUp \/ GcpEnd \/ GcpDie \/ KeyRead \/ NoRouter \/ RouterDeleted
  BY <1>4 DEF GivesUp, GcpEnd, GcpDie, KeyRead, NoRouter, RouterDeleted, Returns
<1>5. CASE Asking
  BY <1>5 DEF Asking, InsertRouter, InsertAttachment, PatchRouter, DeleteAttachment,
     DeleteRouter, Passes, Asks, session, mishaps
<1>6. CASE Polling
  BY <1>6 DEF Polling, RouterInserted, AttachmentInserted, AttachmentDeleted, Passes, Waits,
     session, mishaps
<1>7. CASE Searching
  BY <1>7 DEF Searching, FindVpc, FindRouter, FindAttachment, FindAttachmentAgain, NoAttachment,
     Passes, session, mishaps
<1> QED  BY <1>1, <1>2, <1>3, <1>4, <1>5, <1>6, <1>7, GcpActions

\* A command stays where its phase can be.
LEMMA GcpPhaseStep ==
  ASSUME GcpIInv, [GcpNext]_gcpVars
  PROVE  GcpPhaseInv'
<1> USE DEF GcpPhaseInv, GcpApplying, GcpIInv
<1>1. CASE UNCHANGED gcpVars \/ OperationDone \/ OperationErred
  BY <1>1 DEF gcpVars, OperationDone, OperationErred, session
<1>2. CASE GcpStartApply \/ GcpStartDestroy
  BY <1>2 DEF GcpStartApply, GcpStartDestroy, Start, Begins
<1>3. CASE GivesUp \/ GcpEnd \/ GcpDie \/ KeyRead \/ NoRouter \/ RouterDeleted
  BY <1>3 DEF GivesUp, GcpEnd, GcpDie, KeyRead, NoRouter, RouterDeleted, Returns
<1>4. CASE Asking \/ Polling \/ Searching
  BY <1>4 DEF Asking, InsertRouter, InsertAttachment, PatchRouter, DeleteAttachment,
     DeleteRouter, Polling, RouterInserted, AttachmentInserted, AttachmentDeleted, Searching,
     FindVpc, FindRouter, FindAttachment, FindAttachmentAgain, NoAttachment, Passes, session
<1> QED  BY <1>1, <1>2, <1>3, <1>4, GcpActions

\* What a step waits for is an operation it may have under way.
LEMMA ExpectedAwaited ==
  ASSUME NEW s
  PROVE  Expected(s) \subseteq {Awaited[x] : x \in DOMAIN Awaited \cap {s}}
<1>1. /\ DOMAIN Awaited = {"routerDone", "attachmentDone", "patched", "attachmentGone", "routerGone"}
      /\ Awaited["routerDone"] = "insertRouter" /\ Awaited["attachmentDone"] = "insertAttachment"
      /\ Awaited["patched"] = "patchRouter" /\ Awaited["attachmentGone"] = "deleteAttachment"
      /\ Awaited["routerGone"] = "deleteRouter"
  BY DEF Awaited
<1>2. CASE s \notin DOMAIN Awaited
  BY <1>1, <1>2 DEF Expected
<1>3. CASE s \in DOMAIN Awaited
  <2>1. Expected(s) = {Awaited[s]}
    BY <1>1, <1>3 DEF Expected
  <2> QED  BY <1>3, <2>1
<1> QED  BY <1>2, <1>3

\* Every variable keeps its type.
LEMMA GcpTypeStep ==
  ASSUME GcpIInv, [GcpNext]_gcpVars
  PROVE  GcpTypeOK'
<1>0. SessionOK(KeyFacts)' /\ Await'
  BY GcpSessionStep, AwaitStep
<1>1. GcpTypeOK
  BY DEF GcpIInv
<1>2. router' \in {"none", "plain", "keyed"} /\ attachment' \in 0..made' /\ made' \in 0..Keys
      /\ found' \in 0..made'
  <2> USE <1>1 DEF GcpTypeOK
  <2>1. CASE UNCHANGED <<gcp, found>>
    BY <2>1 DEF gcp
  <2>2. CASE OperationDone
    <3>1. PICK kind \in operations : Effect(kind)
      BY <2>2 DEF OperationDone
    <3>2. UNCHANGED found
      BY <2>2 DEF OperationDone
    <3> QED  BY <3>1, <3>2 DEF Effect
  <2>3. CASE UNCHANGED gcp /\ found' \in {0, attachment}
    BY <2>3 DEF gcp
  <2>4. CASE \/ UNCHANGED gcpVars \/ OperationErred \/ GcpStartApply \/ GcpStartDestroy
             \/ GivesUp \/ GcpEnd \/ GcpDie
    BY <2>4, <2>1, <2>3 DEF gcpVars, OperationErred, GcpStartApply, GcpStartDestroy, Start,
       GivesUp, GcpEnd, GcpDie
  <2>5. CASE Asking \/ Polling \/ Searching
    BY <2>5, <2>1, <2>3 DEF Asking, InsertRouter, InsertAttachment, PatchRouter, DeleteAttachment,
       DeleteRouter, Polling, RouterInserted, AttachmentInserted, AttachmentDeleted, Searching,
       FindVpc, FindRouter, FindAttachment, FindAttachmentAgain, NoAttachment, Passes
  <2>6. CASE KeyRead \/ NoRouter \/ RouterDeleted
    BY <2>6, <2>1 DEF KeyRead, NoRouter, RouterDeleted, Returns
  <2> QED  BY <2>2, <2>4, <2>5, <2>6, GcpActions
<1>3. operations' \subseteq Kinds /\ stage' \in Stages /\ late' \in BOOLEAN /\ erred' \in BOOLEAN
      /\ (stage' = "idle" <=> phase' = "idle")
  <2> USE <1>1 DEF GcpTypeOK
  <2>1. CASE UNCHANGED gcpVars
    BY <2>1 DEF gcpVars, session, mishaps
  <2>2. CASE OperationDone \/ OperationErred
    BY <2>2 DEF OperationDone, OperationErred, session, mishaps
  <2>3. CASE GcpStartApply \/ GcpStartDestroy
    <3>1. late' \in BOOLEAN /\ erred' \in BOOLEAN
      BY <2>3 DEF GcpStartApply, GcpStartDestroy, Start
    <3> QED  BY <2>3, <3>1 DEF GcpStartApply, GcpStartDestroy, Start, Begins, Stages
  <2>4. CASE GivesUp \/ GcpEnd \/ GcpDie
    BY <2>4 DEF GivesUp, GcpEnd, GcpDie, Fails, Reached, SaveApply, SaveDestroy, Dies, Ends,
       Stages, mishaps
  <2>5. CASE Asking
    BY <2>5 DEF Asking, InsertRouter, InsertAttachment, PatchRouter, DeleteAttachment,
       DeleteRouter, Passes, Asks, session, mishaps, Stages, Kinds
  <2>6. CASE Polling \/ Searching
    BY <2>6 DEF Polling, RouterInserted, AttachmentInserted, AttachmentDeleted, Searching,
       FindVpc, FindRouter, FindAttachment, FindAttachmentAgain, NoAttachment, Passes, Waits,
       session, mishaps, Stages
  <2>7. CASE KeyRead \/ NoRouter \/ RouterDeleted
    BY <2>7 DEF KeyRead, NoRouter, RouterDeleted, Returns, Succeeds, Reached, Waits, Stages, mishaps
  <2> QED  BY <2>1, <2>2, <2>3, <2>4, <2>5, <2>6, <2>7, GcpActions
<1>4. (~late /\ stage \notin {"idle", "end"} =>
         operations \subseteq {Awaited[s] : s \in DOMAIN Awaited \cap {stage}})'
  BY <1>0, ExpectedAwaited DEF Await
<1> QED  BY <1>0, <1>2, <1>3, <1>4 DEF GcpTypeOK

(***************************************************************************)
(* What create and delete have found is what there is.                     *)
(***************************************************************************)
LEMMA GcpCreateStep ==
  ASSUME GcpIInv, [GcpNext]_gcpVars
  PROVE  GcpCreateInv'
<1> USE DEF GcpCreateInv, Sound, Await, Expected, GcpIInv, GcpTypeOK
<1>1. CASE UNCHANGED gcpVars
  BY <1>1 DEF gcpVars, session, gcp, mishaps
<1>2. CASE OperationDone
  <2>1. PICK kind \in operations : Effect(kind) /\ operations' = operations \ {kind}
    BY <1>2 DEF OperationDone
  <2>2. UNCHANGED <<stage, found, late, erred>>
    BY <1>2 DEF OperationDone, mishaps
  <2> QED  BY <2>1, <2>2 DEF Effect
<1>3. CASE OperationErred
  BY <1>3 DEF OperationErred
<1>4. CASE \/ GcpStartApply \/ GcpStartDestroy \/ GivesUp \/ GcpEnd \/ GcpDie \/ KeyRead
           \/ NoRouter \/ RouterDeleted
  BY <1>4 DEF GcpStartApply, GcpStartDestroy, Start, GivesUp, GcpEnd, GcpDie, KeyRead, NoRouter,
     RouterDeleted, Returns
<1>5. CASE Asking
  BY <1>5 DEF Asking, InsertRouter, InsertAttachment, PatchRouter, DeleteAttachment,
     DeleteRouter, Passes, Asks, gcp, mishaps
<1>6. CASE Polling \/ Searching
  BY <1>6 DEF Polling, RouterInserted, AttachmentInserted, AttachmentDeleted, Searching, FindVpc,
     FindRouter, FindAttachment, FindAttachmentAgain, NoAttachment, Passes, gcp, mishaps
<1> QED  BY <1>1, <1>2, <1>3, <1>4, <1>5, <1>6, GcpActions

\* What delete has found gone stays gone.
LEMMA GcpDeleteStep ==
  ASSUME GcpIInv, [GcpNext]_gcpVars
  PROVE  GcpDeleteInv'
<1> USE DEF GcpDeleteInv, Sound, Await, Expected, GcpPhaseInv, GcpApplying, GcpIInv, GcpTypeOK
<1>1. CASE UNCHANGED gcpVars
  BY <1>1 DEF gcpVars, session, gcp, mishaps
<1>2. CASE OperationDone
  <2>1. PICK kind \in operations : Effect(kind) /\ operations' = operations \ {kind}
    BY <1>2 DEF OperationDone
  <2>2. UNCHANGED <<phase, stage, failed, late, erred>>
    BY <1>2 DEF OperationDone, session, mishaps
  <2> QED  BY <2>1, <2>2 DEF Effect
<1>3. CASE OperationErred
  BY <1>3 DEF OperationErred
<1>4. CASE GcpStartApply \/ GcpStartDestroy
  BY <1>4 DEF GcpStartApply, GcpStartDestroy, Start
<1>5. CASE GivesUp
  BY <1>5 DEF GivesUp, Fails
<1>6. CASE GcpEnd \/ GcpDie
  BY <1>6 DEF GcpEnd, GcpDie
<1>7. CASE KeyRead
  BY <1>7 DEF KeyRead, Succeeds, Reached
<1>8. CASE NoRouter \/ RouterDeleted
  BY <1>8 DEF NoRouter, RouterDeleted, Returns, Reached, Waits, gcp, mishaps
<1>9. CASE Asking
  BY <1>9 DEF Asking, InsertRouter, InsertAttachment, PatchRouter, DeleteAttachment,
     DeleteRouter, Passes, Asks, session, gcp, mishaps
<1>10. CASE Polling \/ Searching
  BY <1>10 DEF Polling, RouterInserted, AttachmentInserted, AttachmentDeleted, Searching, FindVpc,
     FindRouter, FindAttachment, FindAttachmentAgain, NoAttachment, Passes, Waits, session, gcp, mishaps
<1> QED
  BY <1>1, <1>2, <1>3, <1>4, <1>5, <1>6, <1>7, <1>8, <1>9, <1>10, GcpActions

\* The inductive invariant: types, which operations are awaited, and what they
\* will have made or undone when they are done.
THEOREM GcpInvariant == GcpSpec => []GcpIInv
<1>1. ASSUME GcpIInv, [GcpNext]_gcpVars PROVE GcpIInv'
  BY <1>1, GcpTypeStep, AwaitStep, GcpPhaseStep, GcpCreateStep, GcpDeleteStep DEF GcpIInv
<1> QED  BY GcpInitially, <1>1, PTL DEF GcpSpec
-----------------------------------------------------------------------------
\* Every variable keeps its type, and a command that met no operation of an
\* earlier one has at most the operation it waits for under way.
THEOREM GcpTypeCorrect == GcpSpec => []GcpTypeOK
BY GcpInvariant, PTL DEF GcpIInv

\* What a step of Usable says.
Use ==
  reported' # reported /\ phase' = "apply" /\ ~late /\ ~erred =>
    router = "keyed" /\ reported'[1] = {[key |-> attachment]}

\* Every step reports what there is.
LEMMA Uses ==
  ASSUME GcpIInv, [GcpNext]_gcpVars
  PROVE  Use
<1>1. CASE UNCHANGED gcpVars \/ OperationDone \/ OperationErred
  BY <1>1 DEF gcpVars, OperationDone, OperationErred, session, Use
<1>2. CASE GcpStartApply \/ GcpStartDestroy
  BY <1>2 DEF GcpStartApply, GcpStartDestroy, Start, Begins, Use
<1>3. CASE GivesUp
  BY <1>3 DEF GivesUp, Fails, Use
<1>4. CASE GcpEnd \/ GcpDie
  BY <1>4 DEF GcpEnd, GcpDie, SaveApply, SaveDestroy, Dies, Ends, Use
<1>5. CASE Asking \/ Polling \/ Searching
  BY <1>5 DEF Asking, InsertRouter, InsertAttachment, PatchRouter, DeleteAttachment,
     DeleteRouter, Polling, RouterInserted, AttachmentInserted, AttachmentDeleted, Searching,
     FindVpc, FindRouter, FindAttachment, FindAttachmentAgain, NoAttachment, Passes, session, Use
<1>6. CASE NoRouter \/ RouterDeleted
  BY <1>6 DEF NoRouter, RouterDeleted, Returns, Use
<1>7. CASE KeyRead
  <2>1. reported' = [reported EXCEPT ![1] = {[key |-> found]}]
    BY <1>7 DEF KeyRead, Succeeds
  <2>2. reported'[1] = {[key |-> found]}
    BY <2>1 DEF GcpIInv, GcpTypeOK, SessionOK
  <2>3. ~late /\ ~erred => found = attachment /\ router = "keyed"
    BY <1>7 DEF KeyRead, Waits, GcpIInv, GcpCreateInv, Sound
  <2> QED  BY <2>2, <2>3 DEF Use
<1> QED  BY <1>1, <1>2, <1>3, <1>4, <1>5, <1>6, <1>7, GcpActions

\* The pairing key that is reported is that of the attachment, and the router has
\* its MD5 key, unless an operation of an earlier command was still under way, or
\* one ended in error.
THEOREM UsableHolds == GcpSpec => Usable
<1>1. GcpIInv /\ [GcpNext]_gcpVars => [Use]_gcpVars
  BY Uses
<1> QED  BY <1>1, GcpInvariant, PTL DEF GcpSpec, Usable, Use

\* With the same exceptions, a destroy that ends well leaves neither.
THEOREM GcpLeavesNothingHolds == GcpSpec => []GcpLeavesNothing
<1>1. GcpIInv => GcpLeavesNothing
  BY DEF GcpIInv, GcpDeleteInv, Sound, GcpLeavesNothing
<1> QED  BY <1>1, GcpInvariant, PTL
=============================================================================
