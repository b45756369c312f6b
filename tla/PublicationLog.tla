---------------------------- MODULE PublicationLog ----------------------------
(***************************************************************************)
(* What a publication directory promises, without processes, locks and     *)
(* files: the snapshot that readers find is always the last whole          *)
(* publication, each made from the one before it, or that publication in   *)
(* the latest-only form in which it was distributed.                       *)
(***************************************************************************)
EXTENDS Publication

VARIABLE current  \* the snapshot that is published

Init == current = NoSnapshot

Publish ==
  /\ current'.seq = current.seq + 1
  /\ \E m \in Manifests, stamp \in Time \ {Never} :
       /\ stamp >= current.at
       /\ SameIdentity(current, m)
       /\ current' = NextSnapshot(current, m, stamp)

Redistribute == current' = Latest(current)

Next == Publish \/ Redistribute

Spec == Init /\ [][Next]_current
=============================================================================
