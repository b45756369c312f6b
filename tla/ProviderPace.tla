----------------------------- MODULE ProviderPace -----------------------------
(***************************************************************************)
(* What a provider sees of a well-behaved client: its requests are at      *)
(* least Gap apart, and none comes before a time that the provider asked   *)
(* the client to wait for.                                                 *)
(***************************************************************************)
EXTENDS Integers

CONSTANT Gap  \* the shortest time between two requests

VARIABLES now,   \* the time
          last,  \* the time of the last request
          ask    \* the latest time the provider asked to wait for

Init == now = 0 /\ last = -Gap /\ ask = 0

Tick == now' = now + 1 /\ UNCHANGED <<last, ask>>

Request ==
  /\ now >= last + Gap /\ now >= ask
  /\ last' = now
  /\ UNCHANGED <<now, ask>>

Answer ==
  /\ ask' \in Nat /\ ask' > ask
  /\ UNCHANGED <<now, last>>

Next == Tick \/ Request \/ Answer

Spec == Init /\ [][Next]_<<now, last, ask>>
=============================================================================
