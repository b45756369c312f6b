----------------------------- MODULE MCAcquisition ----------------------------
(* Small instances of Acquisition for TLC: two No-Intro catalogs and one   *)
(* Redump catalog.                                                         *)
EXTENDS Acquisition, TLC

CONSTANTS p1, p2, n1, n2, r1, A

Provided == (n1 :> "no-intro") @@ (n2 :> "no-intro") @@ (r1 :> "redump")
=============================================================================
