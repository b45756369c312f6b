------------------------------ MODULE MCScheduler -----------------------------
(* Small instances of Scheduler for TLC.                                   *)
EXTENDS Scheduler, TLC

CONSTANTS p1, p2, p3, d1, d2, r1, r2

OneDir   == [p \in Procs |-> d1]
TwoHosts == (p1 :> d1) @@ (p2 :> d2) @@ (p3 :> d2)

(* A state just initialized, and a version 1 state left in flight.         *)
JustInitialized == {FreshState(r1)}
InFlight1 ==
  {[FreshState(r1) EXCEPT !.format = 1, !.inFlight = TRUE, !.last = 1,
                          !.next = 1 + Poll]}
OldAndNew == JustInitialized \cup InFlight1

ProcSymmetry == Permutations({p1, p2, p3})
HostSymmetry == Permutations({p2, p3})
=============================================================================
