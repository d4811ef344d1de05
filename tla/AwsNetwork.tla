----------------------------- MODULE AwsNetwork -----------------------------
(***************************************************************************)
(* The network of the AWS provider: a VPN gateway attached to a VPC that   *)
(* is there already, a route table for the subnet, and a virtual interface *)
(* on the Direct Connect connection FABRIC has ordered.  Each step asks    *)
(* AWS for one of them and waits until it is there, or gone.               *)
(*                                                                         *)
(* AWS works by itself: what is asked for is pending for a while, and what *)
(* has been deleted is still listed for a while.  Any call may raise and   *)
(* any wait may time out, which both leave AWS as it is.                   *)
(***************************************************************************)
EXTENDS ProviderSession

CONSTANT Ids  \* how many of each kind AWS creates, at most

ASSUME AwsAssumption == N = 1 /\ Ids \in Nat

VARIABLES
  vpc,       \* the state of the VPC
  dx,        \* the state of the Direct Connect connection
  gateways,  \* VPN gateways with the name of this network
  tables,    \* route tables made for this network
  vifs,      \* virtual interfaces with the name of this network
  step,      \* where in create or delete the program is
  vpn,       \* vpn_id
  table,     \* route_table_details
  vif,       \* vif_details
  seen,      \* delete_vpn_gateway: the state at an earlier look
  hidden     \* a destroy has passed over an interface, for one already deleted

aws   == <<vpc, dx, gateways, tables, vifs>>
local == <<vpn, table, vif, seen>>
vars  == <<session, aws, step, local, hidden>>

Id == 1..Ids

\* An identifier AWS has not given to anything yet.
New == [state |-> "new"]
Fresh(objects) == {i \in Id : objects[i].state = "new"}
Next1(objects) == CHOOSE i \in Fresh(objects) : \A j \in Fresh(objects) : i <= j

\* What AWS lists, deleted or not.
Listed(objects) == {i \in Id : objects[i].state \notin {"new", "gone"}}
Live(objects)   == {i \in Listed(objects) : objects[i].state \notin {"deleting", "deleted"}}

Facts == [table : 0..Ids]
-----------------------------------------------------------------------------
(***************************************************************************)
(* AWS.                                                                    *)
(***************************************************************************)
VpcReady ==
  /\ vpc = "pending" /\ vpc' = "available"
  /\ UNCHANGED <<session, dx, gateways, tables, vifs, step, local, hidden>>

DxReady ==
  /\ dx = "pending" /\ dx' = "available"
  /\ UNCHANGED <<session, vpc, gateways, tables, vifs, step, local, hidden>>

GatewayMoves ==
  /\ \E g \in Id, s \in {<<"pending", "available">>, <<"deleting", "deleted">>,
                         <<"deleting", "gone">>, <<"deleted", "gone">>} :
       /\ gateways[g].state = s[1]
       /\ gateways' = [gateways EXCEPT ![g].state = s[2]]
  /\ UNCHANGED <<session, vpc, dx, tables, vifs, step, local, hidden>>

AttachmentMoves ==
  /\ \E g \in Listed(gateways), s \in {<<"attaching", "attached">>, <<"detaching", "detached">>,
                                       <<"detached", "none">>} :
       /\ gateways[g].at = s[1]
       /\ gateways' = [gateways EXCEPT ![g].at = s[2]]
  /\ UNCHANGED <<session, vpc, dx, tables, vifs, step, local, hidden>>

VifMoves ==
  /\ \E i \in Id, s \in {<<"pending", "available">>, <<"available", "down">>,
                         <<"deleting", "deleted">>, <<"deleted", "gone">>} :
       /\ vifs[i].state = s[1]
       /\ vifs' = [vifs EXCEPT ![i].state = s[2]]
  /\ UNCHANGED <<session, vpc, dx, gateways, tables, step, local, hidden>>
-----------------------------------------------------------------------------
(***************************************************************************)
(* Controller and provider: one call to AwsNetwork.create or delete.       *)
(***************************************************************************)
Forget == vpn' = 0 /\ table' = 0 /\ vif' = 0 /\ seen' = "none"

StartApply ==
  /\ Begins("apply", Res) /\ step' = "vpc"
  /\ UNCHANGED <<aws, local, hidden>>

\* The identifier of the route table is the one in the saved state.
StartDestroy ==
  /\ Tracked # {}
  /\ Begins("destroy", Tracked) /\ step' = "findGateway"
  /\ table' \in IF saved.known[1] = {} THEN {0} ELSE {f.table : f \in saved.known[1]}
  /\ UNCHANGED <<aws, vpn, vif, seen, hidden>>

\* Any call to AWS raises, a wait times out, or the user interrupts an apply.
Raise ==
  /\ step \notin {"idle", "end"}
  /\ Fails(1) /\ step' = "end"
  /\ UNCHANGED <<aws, local, hidden>>

End ==
  /\ step = "end"
  /\ \/ phase = "apply" /\ SaveApply(failed = {})
     \/ SaveDestroy
  /\ step' = "idle" /\ Forget
  /\ UNCHANGED <<aws, hidden>>

Die == Dies /\ step' = "idle" /\ Forget /\ UNCHANGED <<aws, hidden>>
-----------------------------------------------------------------------------
(***************************************************************************)
(* AwsNetwork.create.                                                      *)
(***************************************************************************)
Goes(from, to) == phase = "apply" /\ step = from /\ step' = to

VpcAvailable ==
  /\ Goes("vpc", "connection") /\ vpc = "available"
  /\ UNCHANGED <<session, aws, local, hidden>>

\* find_available_dx_connection confirms the connection FABRIC has ordered.
Connect ==
  /\ Goes("connection", "connected")
  /\ dx \in {"ordering", "pending", "available"}
  /\ dx' = IF dx = "ordering" THEN "pending" ELSE dx
  /\ UNCHANGED <<session, vpc, gateways, tables, vifs, local, hidden>>

Connected ==
  /\ Goes("connected", "gateway") /\ dx = "available"
  /\ UNCHANGED <<session, aws, local, hidden>>

\* Variant of FindGateway: a gateway that is not found is not missed.
FindGatewayOrNot ==
  /\ Goes("gateway", "attach")
  /\ vpn' \in Listed(gateways) \cup {0}
  /\ UNCHANGED <<session, aws, table, vif, seen, hidden>>

\* find_vpn_gateway takes any that is listed with the name.
FindGateway ==
  /\ Goes("gateway", "attach")
  /\ vpn' \in Listed(gateways)
  /\ UNCHANGED <<session, aws, table, vif, seen, hidden>>

\* Variant of CreateGateway: one that is not available does not count.
CreateGatewayAgain ==
  /\ Goes("gateway", "created")
  /\ \A g \in Listed(gateways) : gateways[g].state # "available"
  /\ Fresh(gateways) # {}
  /\ vpn' = Next1(gateways)
  /\ gateways' = [gateways EXCEPT ![vpn'] = [state |-> "pending", at |-> "none"]]
  /\ UNCHANGED <<session, vpc, dx, tables, vifs, table, vif, seen, hidden>>

CreateGateway ==
  /\ Goes("gateway", "created")
  /\ Listed(gateways) = {} /\ Fresh(gateways) # {}
  /\ vpn' = Next1(gateways)
  /\ gateways' = [gateways EXCEPT ![vpn'] = [state |-> "pending", at |-> "none"]]
  /\ UNCHANGED <<session, vpc, dx, tables, vifs, table, vif, seen, hidden>>

GatewayCreated ==
  /\ Goes("created", "attach") /\ gateways[vpn].state = "available"
  /\ UNCHANGED <<session, aws, local, hidden>>

\* attach_vpn_gateway_if_needed; AWS attaches a gateway that is available.
Attach ==
  /\ Goes("attach", "attached") /\ vpn \in Listed(gateways)
  /\ \/ /\ gateways[vpn].at \in {"none", "detaching", "detached"}
        /\ gateways[vpn].state = "available"
        /\ gateways' = [gateways EXCEPT ![vpn].at = "attaching"]
     \/ /\ gateways[vpn].at \in {"attaching", "attached"}
        /\ UNCHANGED gateways
  /\ UNCHANGED <<session, vpc, dx, tables, vifs, local, hidden>>

\* Variant of Attached: there is no wait.
AttachedSoon ==
  /\ Goes("attached", "routes") /\ vpn \in Listed(gateways)
  /\ UNCHANGED <<session, aws, local, hidden>>

Attached ==
  /\ Goes("attached", "routes")
  /\ vpn \in Listed(gateways) /\ gateways[vpn].at = "attached"
  /\ UNCHANGED <<session, aws, local, hidden>>

\* create_route_table_if_needed: a table is the one of the network if routes of
\* the gateway are propagated to it.
Routing == {t \in Live(tables) : tables[t].from = vpn}

FindTable ==
  /\ Goes("routes", "vif")
  /\ table' \in Routing
  /\ UNCHANGED <<session, aws, vpn, vif, seen, hidden>>

\* Otherwise the subnet is taken from whatever table has it, and a new table gets
\* it, and the routes.
Disassociate ==
  /\ Goes("routes", "table")
  /\ Routing = {}
  /\ tables' = [t \in Id |-> IF t \in Live(tables) THEN [tables[t] EXCEPT !.subnet = FALSE]
                             ELSE tables[t]]
  /\ UNCHANGED <<session, vpc, dx, gateways, vifs, local, hidden>>

CreateTable ==
  /\ Goes("table", "associate") /\ Fresh(tables) # {}
  /\ table' = Next1(tables)
  /\ tables' = [tables EXCEPT ![table'] =
                  [state |-> "live", from |-> 0, subnet |-> FALSE, cut |-> FALSE]]
  /\ UNCHANGED <<session, vpc, dx, gateways, vifs, vpn, vif, seen, hidden>>

Associate ==
  /\ Goes("associate", "propagate")
  /\ tables' = [tables EXCEPT ![table].subnet = TRUE]
  /\ UNCHANGED <<session, vpc, dx, gateways, vifs, local, hidden>>

Propagate ==
  /\ Goes("propagate", "vif")
  /\ tables' = [tables EXCEPT ![table].from = vpn]
  /\ UNCHANGED <<session, vpc, dx, gateways, vifs, local, hidden>>

\* create_private_virtual_interface takes one on the gateway, in any state.
OnGateway == {i \in Listed(vifs) : vifs[i].on = vpn}

FindVif ==
  /\ Goes("vif", "ready")
  /\ vif' \in OnGateway
  /\ UNCHANGED <<session, aws, vpn, table, seen, hidden>>

CreateVif ==
  /\ Goes("vif", "ready")
  /\ OnGateway = {} /\ Fresh(vifs) # {}
  /\ vif' = Next1(vifs)
  /\ vifs' = [vifs EXCEPT ![vif'] = [state |-> "pending", on |-> vpn]]
  /\ UNCHANGED <<session, vpc, dx, gateways, tables, vpn, table, seen, hidden>>

Created ==
  /\ phase = "apply" /\ step = "ready" /\ vifs[vif].state = "available"
  /\ Succeeds(1, [table |-> table]) /\ step' = "end"
  /\ UNCHANGED <<aws, local, hidden>>
-----------------------------------------------------------------------------
(***************************************************************************)
(* AwsNetwork.delete.                                                      *)
(***************************************************************************)
Does(from, to) == phase = "destroy" /\ step = from /\ step' = to

Deleted == Reached(1) /\ UNCHANGED <<reported, failed>>

\* It returns, with everything else left as it is, when the VPC is not available
\* or the gateway is not there.
NothingToDo ==
  /\ Does("findGateway", "end") /\ Deleted
  /\ vpc # "available" \/ Listed(gateways) = {}
  /\ UNCHANGED <<aws, local, hidden>>

FindGatewayToDelete ==
  /\ Does("findGateway", "cut") /\ vpc = "available"
  /\ vpn' \in Listed(gateways)
  /\ UNCHANGED <<session, aws, table, vif, seen, hidden>>

\* delete_route_table_if_needed, for the table of the saved state: subnets are
\* taken from all tables of the VPC first.
NoTable ==
  /\ Does("cut", "deleteVif") /\ (table = 0 \/ table \notin Listed(tables))
  /\ UNCHANGED <<session, aws, local, hidden>>

CutSubnets ==
  /\ Does("cut", "deleteTable") /\ table # 0 /\ table \in Listed(tables)
  /\ tables' = [t \in Id |-> IF t \in Live(tables)
                             THEN [tables[t] EXCEPT !.subnet = FALSE, !.cut = TRUE]
                             ELSE tables[t]]
  /\ UNCHANGED <<session, vpc, dx, gateways, vifs, local, hidden>>

\* That the wait for the end of the table times out is not noticed; it ends.
DeleteTable ==
  /\ Does("deleteTable", "deleteVif")
  /\ tables' = [tables EXCEPT ![table].state = "gone"]
  /\ UNCHANGED <<session, vpc, dx, gateways, vifs, local, hidden>>

\* delete_private_virtual_interface: the first of that name in AWS's list, on
\* whatever gateway; one that is deleted is not waited for.
NoVif ==
  /\ Does("deleteVif", "detach")
  /\ Listed(vifs) = {} \/ \E i \in Listed(vifs) : vifs[i].state = "deleted"
  /\ hidden' = (hidden \/ \E i \in Listed(vifs) : vifs[i].state # "deleted")
  /\ UNCHANGED <<session, aws, local>>

DeleteVif ==
  /\ Does("deleteVif", "vifGone")
  /\ \E i \in Listed(vifs) :
       /\ vifs[i].state # "deleted" /\ vif' = i
       /\ vifs' = [vifs EXCEPT ![i].state = "deleting"]
  /\ UNCHANGED <<session, vpc, dx, gateways, tables, vpn, table, seen, hidden>>

VifDeleted ==
  /\ Does("vifGone", "detach") /\ vifs[vif].state = "deleted"
  /\ UNCHANGED <<session, aws, local, hidden>>

NotAttached ==
  /\ Does("detach", "deleteGateway")
  /\ vpn \in Listed(gateways) /\ gateways[vpn].at = "none"
  /\ UNCHANGED <<session, aws, local, hidden>>

\* The request may be refused, which is logged; the wait follows all the same.
Detach ==
  /\ Does("detach", "detached")
  /\ vpn \in Listed(gateways) /\ gateways[vpn].at # "none"
  /\ \/ /\ gateways[vpn].at \in {"attaching", "attached"}
        /\ gateways' = [gateways EXCEPT ![vpn].at = "detaching"]
     \/ UNCHANGED gateways
  /\ UNCHANGED <<session, vpc, dx, tables, vifs, local, hidden>>

Detached ==
  /\ Does("detached", "deleteGateway")
  /\ vpn \in Listed(gateways) /\ gateways[vpn].at \in {"detached", "none"}
  /\ UNCHANGED <<session, aws, local, hidden>>

\* AWS refuses to delete a gateway that is attached; one that is deleted stays so.
DeleteGateway ==
  /\ Does("deleteGateway", "gatewayGone")
  /\ vpn' \in Listed(gateways)
  /\ gateways[vpn'].at \in {"detached", "none"}
  /\ gateways' = [gateways EXCEPT ![vpn'].state = IF @ = "deleted" THEN @ ELSE "deleting"]
  /\ UNCHANGED <<session, vpc, dx, tables, vifs, table, vif, seen, hidden>>

GatewayGone ==
  /\ Does("deleteGateway", "end") /\ Deleted
  /\ Listed(gateways) = {}
  /\ UNCHANGED <<aws, local, hidden>>

\* The wait goes by the state at the last look that found the gateway.
Look ==
  /\ phase = "destroy" /\ step = "gatewayGone"
  /\ vpn \in Listed(gateways) /\ seen' = gateways[vpn].state
  /\ UNCHANGED <<session, aws, step, vpn, table, vif, hidden>>

GatewayDeleted ==
  /\ Does("gatewayGone", "end") /\ Deleted
  /\ seen = "deleted" \/ (seen = "none" /\ vpn \notin Listed(gateways))
  /\ UNCHANGED <<aws, local, hidden>>
-----------------------------------------------------------------------------
Init ==
  /\ SessionInit
  /\ vpc \in {"pending", "available"}
  /\ dx \in {"down", "ordering", "pending"}
  /\ gateways = [i \in Id |-> New] /\ tables = gateways /\ vifs = gateways
  /\ step = "idle" /\ vpn = 0 /\ table = 0 /\ vif = 0 /\ seen = "none"
  /\ hidden = FALSE

Aws       == VpcReady \/ DxReady \/ GatewayMoves \/ AttachmentMoves \/ VifMoves
Processes == StartApply \/ StartDestroy \/ Raise \/ End \/ Die
Creates   == \/ VpcAvailable \/ Connect \/ Connected \/ FindGateway \/ CreateGateway
             \/ GatewayCreated \/ Attach \/ Attached \/ FindTable \/ Disassociate
             \/ CreateTable \/ Associate \/ Propagate \/ FindVif \/ CreateVif \/ Created
Deletes   == \/ NothingToDo \/ FindGatewayToDelete \/ NoTable \/ CutSubnets
             \/ DeleteTable \/ NoVif \/ DeleteVif \/ VifDeleted \/ NotAttached
             \/ Detach \/ Detached \/ DeleteGateway \/ GatewayGone \/ Look
             \/ GatewayDeleted

Next == Aws \/ Processes \/ Creates \/ Deletes

Spec == Init /\ [][Next]_vars
-----------------------------------------------------------------------------
Steps == {"idle", "end", "vpc", "connection", "connected", "gateway", "created", "attach",
          "attached", "routes", "table", "associate", "propagate", "vif", "ready",
          "findGateway", "cut", "deleteTable", "deleteVif", "vifGone", "detach", "detached",
          "deleteGateway", "gatewayGone"}

\* The steps that use what an earlier one has found or made.
NeedVpn   == {"created", "attach", "attached", "routes", "table", "associate", "propagate",
              "vif", "ready", "cut", "deleteTable", "deleteVif", "vifGone", "detach", "detached",
              "deleteGateway", "gatewayGone"}
NeedTable == {"associate", "propagate", "vif", "ready", "deleteTable"}
NeedVif   == {"ready", "vifGone"}

(***************************************************************************)
(* Types, and that AwsNetwork calls AWS with the identifiers it has got:   *)
(* no step is reached whose gateway, table or interface is still None.     *)
(***************************************************************************)
TypeOK ==
  /\ SessionOK(Facts)
  /\ vpc \in {"pending", "available"}
  /\ dx \in {"down", "ordering", "pending", "available"}
  /\ gateways \in [Id -> {New} \cup
       [state : {"pending", "available", "deleting", "deleted", "gone"},
        at    : {"none", "attaching", "attached", "detaching", "detached"}]]
  /\ tables \in [Id -> {New} \cup
       [state : {"live", "gone"}, from : 0..Ids, subnet : BOOLEAN, cut : BOOLEAN]]
  /\ vifs \in [Id -> {New} \cup
       [state : {"pending", "available", "down", "deleting", "deleted", "gone"}, on : Id]]
  /\ step \in Steps /\ (step = "idle" <=> phase = "idle")
  /\ vpn \in 0..Ids   /\ (step \in NeedVpn => vpn # 0)
  /\ table \in 0..Ids /\ (step \in NeedTable => table # 0)
  /\ vif \in 0..Ids   /\ (step \in NeedVif => vif # 0)
  /\ seen \in {"none", "pending", "available", "deleting", "deleted"}
  /\ hidden \in BOOLEAN

(***************************************************************************)
(* A network is reported when it can carry traffic, whatever earlier runs  *)
(* have left behind: the one gateway of its name is attached, the one      *)
(* interface on it is up, and the one table its routes go to is the        *)
(* subnet's.  The exception is a table that a destroy has cut off and not  *)
(* deleted: create_route_table_if_needed takes it as it is.                *)
(***************************************************************************)
Ready ==
  [][reported' # reported /\ phase' = "apply" =>
       /\ Listed(gateways) = {vpn}
       /\ gateways[vpn].state = "available" /\ gateways[vpn].at = "attached"
       /\ OnGateway = {vif} /\ vifs[vif].state = "available"
       /\ Routing = {table}
       /\ tables[table].subnet \/ tables[table].cut]_vars

(***************************************************************************)
(* What a destroy leaves when delete returns: no gateway, no table that    *)
(* the saved state knows of, and no interface.  It is not so when delete   *)
(* finds no gateway to start from.  Interfaces may be left from the moment *)
(* that one of an earlier run, which AWS still lists as deleted, has       *)
(* hidden the one to delete: that one is on a gateway nobody looks for, and*)
(* hides the next one in its turn.                                         *)
(***************************************************************************)
LeavesNothing ==
  phase = "destroy" /\ step = "end" /\ failed = {} /\ vpn # 0 =>
    /\ Live(gateways) = {}
    /\ \A f \in saved.known[1] : f.table \notin Live(tables)
    /\ ~hidden => \A i \in Listed(vifs) : vifs[i].state = "deleted"
=============================================================================
