---------------------------- MODULE SourceSchedule ---------------------------
(***************************************************************************)
(* What the custody of the source schedule promises, without processes,    *)
(* locks or requests: the stored state changes only by whole operations,   *)
(* each taken on the state that is stored at that instant, or goes back to *)
(* a content that was not yet safe from a loss of power.                   *)
(***************************************************************************)
EXTENDS SourceState

CONSTANT Existing  \* states an earlier release or run may have left

VARIABLES store,   \* the stored state
          disk     \* the contents a loss of power may leave

Init ==
  /\ store \in {Absent} \cup Existing
  /\ disk = {store}

(* An operation; if its writer could not sync, the old contents survive.   *)
Commit ==
  /\ store' \in State
  /\ Operation(store, store')
  /\ disk' \in {{store'}, disk \cup {store'}}

PowerLoss ==
  /\ store' \in disk
  /\ disk' = {store'}

Next == Commit \/ PowerLoss

Spec == Init /\ [][Next]_<<store, disk>>
=============================================================================
