-------------------------- MODULE ProviderSession ---------------------------
(***************************************************************************)
(* A series of -apply and -destroy commands on one session, as far as one  *)
(* provider sees them: which of its resources a command has yet to reach,  *)
(* what it has reported, and what the session file keeps of that.  The     *)
(* modules that describe a provider at work extend this one.  Resources    *)
(* are numbered in the order of the controller; the configuration does not *)
(* change, and no other provider stands in the way of a destroy.           *)
(***************************************************************************)
EXTENDS Naturals, FiniteSets

CONSTANTS
  N,        \* how many resources the provider has
  Commands  \* how many commands are run on the session

ASSUME SessionAssumption == N \in Nat \ {0} /\ Commands \in Nat

Res == 1..N

VARIABLES
  phase,     \* "idle", "apply" or "destroy"
  todo,      \* the resources the command has yet to reach
  reported,  \* what on_created was told of a resource, in a set: {} is nothing
  failed,    \* Provider._failed
  saved,     \* the session file
  last,      \* the last command that ended, and how
  left       \* commands still to come

session == <<phase, todo, reported, failed, saved, last, left>>

Unknown == [r \in Res |-> {}]
NoFile  == [known |-> Unknown, failed |-> {}, counted |-> FALSE]

\* Resources whose state the file has, and those a destroy has something to do
\* about.
Saved   == {r \in Res : saved.known[r] # {}}
Tracked == Saved \cup saved.failed

Begins(command, rs) ==
  /\ phase = "idle" /\ left > 0
  /\ left' = left - 1
  /\ phase' = command /\ todo' = rs
  /\ last' = [command |-> "none", ok |-> FALSE]
  /\ UNCHANGED <<reported, failed, saved>>

Ends(command, ok) ==
  /\ phase = command
  /\ phase' = "idle" /\ todo' = {} /\ reported' = Unknown /\ failed' = {}
  /\ last' = [command |-> command, ok |-> ok]
  /\ UNCHANGED left

\* r has been dealt with, whatever came of it.
Reached(r) ==
  /\ todo' = todo \ {r}
  /\ UNCHANGED <<phase, saved, last, left>>

Succeeds(r, facts) ==
  /\ Reached(r)
  /\ reported' = [reported EXCEPT ![r] = {facts}]
  /\ UNCHANGED failed

Fails(r) ==
  /\ Reached(r)
  /\ failed' = failed \cup {r}
  /\ UNCHANGED reported

(***************************************************************************)
(* reconcile_states and save_states.  What the file knows is trusted if it *)
(* counts anything created, of this provider or of another one.            *)
(***************************************************************************)
Reconciled ==
  LET all == \A r \in Res : reported[r] # {}
  IN  [r \in Res |-> IF reported[r] = {} /\ saved.counted /\ ~all
                     THEN saved.known[r] ELSE reported[r]]

SaveApply(ok) ==
  /\ saved' \in [known : {Reconciled}, failed : {failed},
                 counted : {TRUE, \E r \in Res : reported[r] # {}}]
  /\ Ends("apply", ok)

\* The file keeps what could not be deleted; there is none if that is nothing.
SaveDestroy ==
  /\ phase = "destroy" /\ todo = {}
  /\ saved' = IF failed = {} THEN NoFile
              ELSE [known   |-> [r \in Res |-> IF r \in failed THEN saved.known[r] ELSE {}],
                    failed  |-> failed,
                    counted |-> saved.counted]
  /\ Ends("destroy", failed = {})

\* The process is killed, or a destroy interrupted: nothing is saved.
Dies ==
  /\ phase # "idle"
  /\ Ends(phase, FALSE)
  /\ UNCHANGED saved

SessionInit ==
  /\ phase = "idle" /\ todo = {} /\ reported = Unknown /\ failed = {}
  /\ saved = NoFile
  /\ last = [command |-> "none", ok |-> FALSE]
  /\ left = Commands

SessionOK(Facts) ==
  /\ phase \in {"idle", "apply", "destroy"} /\ todo \subseteq Res
  /\ reported \in [Res -> SUBSET Facts] /\ failed \subseteq Res
  /\ saved \in [known : [Res -> SUBSET Facts], failed : SUBSET Res, counted : BOOLEAN]
  /\ last \in [command : {"none", "apply", "destroy"}, ok : BOOLEAN]
  /\ left \in 0..Commands
=============================================================================
