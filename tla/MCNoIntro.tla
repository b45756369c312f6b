------------------------------- MODULE MCNoIntro ------------------------------
(* A small instance of NoIntro for TLC.                                    *)
EXTENDS NoIntro

CONSTANTS g1, g2

(* No time, a date that is ahead or past, no wait and a long one, a number *)
(* that leaves the calendar and one that leaves the width of an integer.   *)
SomeHeaders ==
  {[kind |-> "other", value |-> 0]} \cup
  [kind : {"date"}, value : {3}] \cup
  [kind : {"seconds"}, value : {0, 3, 30, 50}]
=============================================================================
