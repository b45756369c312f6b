-------------------------------- MODULE NoIntro -------------------------------
(***************************************************************************)
(* The No-Intro adapter (internal/nointro/adapter.go): acquisitions that   *)
(* share one adapter, each with a deadline of two minutes, at most three   *)
(* attempts and four requests in an attempt, one attempt at a time, with a *)
(* pace and a cooldown that all of them share.                             *)
(*                                                                         *)
(* The clock advances at any rate: a timer may fire late and an answer may *)
(* take any time until the deadline of its caller.                         *)
(***************************************************************************)
EXTENDS Integers

CONSTANTS
  Callers,   \* goroutines that acquire catalogs
  Gap,       \* requestGap
  Limit,     \* the two minutes of an acquisition
  Minute,    \* the cooldown when the provider names no time
  Ceiling,   \* the year 9999
  MaxUint,   \* the largest number of seconds that can be parsed
  Headers,   \* values of Retry-After
  MaxTime    \* bound on the clock

Header == [kind : {"seconds", "date"}, value : Nat] \cup
            [kind : {"other"}, value : {0}]

ASSUME TimeAssumption ==
  /\ Gap \in Nat \ {0} /\ Limit \in Nat \ {0} /\ Minute \in Nat \ {0}
  /\ MaxTime \in Nat /\ Ceiling \in Nat /\ MaxUint \in Nat
  /\ MaxTime + Limit + Gap <= Ceiling
ASSUME HeaderAssumption == Headers \subseteq Header

Never == 0
Steps == 1 .. 4      \* selection, prepare, manager, download
Attempts == 1 .. 3

VARIABLES
  now,     \* the clock
  gate,    \* the caller that holds the adapter's gate
  next,    \* Adapter.next: no request before it
  call,    \* the acquisition of each caller
  result,  \* what the last acquisition of each caller returned
  last,    \* history: the time of the last request
  ask,     \* history: the latest time the provider asked to wait for
  given    \* history: the deadline that the last throttled request set

history == <<last, ask, given>>
vars == <<now, gate, next, call, result, history>>

NoCall == [pc |-> "idle", attempt |-> 0, step |-> 0, deadline |-> 0, until |-> 0]
NoResult == [code |-> "none", retry |-> Never]

Init ==
  /\ now = 0 /\ gate = {} /\ next = 0
  /\ call = [c \in Callers |-> NoCall]
  /\ result = [c \in Callers |-> NoResult]
  /\ last = -Gap /\ ask = 0 /\ given = Never

-----------------------------------------------------------------------------
Later(s, t) == IF s < t THEN t ELSE s

At(c, pc) == call[c].pc = pc
Expired(c) == now >= call[c].deadline

(* Acquire returns.                                                        *)
Return(c, code, retry) ==
  /\ call' = [call EXCEPT ![c] = NoCall]
  /\ result' = [result EXCEPT ![c] = [code |-> code, retry |-> retry]]

Retried(c, code) == code = "failed" /\ call[c].attempt < 3 /\ ~Expired(c)

(* Mutant of Conclude: the gate is kept while the caller backs off.        *)
ConcludeHolding(c, code, retry) ==
  IF Retried(c, code)
  THEN /\ call' = [call EXCEPT ![c].pc = "backoff",
                     ![c].until = now + Gap * 2 ^ (call[c].attempt - 1)]
       /\ UNCHANGED <<gate, result>>
  ELSE Return(c, code, retry) /\ gate' = gate \ {c}

(* The end of an attempt: it gives the gate back, and Acquire decides      *)
(* whether there is another one.                                           *)
Conclude(c, code, retry) ==
  /\ gate' = gate \ {c}
  /\ IF Retried(c, code)
     THEN /\ call' = [call EXCEPT ![c].pc = "backoff",
                        ![c].until = now + Gap * 2 ^ (call[c].attempt - 1)]
          /\ UNCHANGED result
     ELSE Return(c, code, retry)

Begin(c) ==
  /\ At(c, "idle") /\ now < MaxTime
  /\ call' = [call EXCEPT ![c].pc = "gate", ![c].attempt = 1,
                          ![c].deadline = now + Limit]
  /\ result' = [result EXCEPT ![c] = NoResult]
  /\ UNCHANGED <<now, gate, next, history>>

(* Mutant of Enter: a wait of one gap is taken for a cooldown.             *)
EnterAtGap(c) ==
  /\ At(c, "gate") /\ gate = {}
  /\ IF next - now >= Gap
     THEN Conclude(c, "provider_backoff", next)
     ELSE /\ gate' = {c}
          /\ call' = [call EXCEPT ![c].pc = "waiting", ![c].step = 1]
          /\ UNCHANGED result
  /\ UNCHANGED <<now, next, history>>

(* The gate, a new session, and the cooldown: a wait of more than one gap  *)
(* is not waited for.                                                      *)
Enter(c) ==
  /\ At(c, "gate") /\ gate = {}
  /\ IF next - now > Gap
     THEN Conclude(c, "provider_backoff", next)
     ELSE /\ gate' = {c}
          /\ call' = [call EXCEPT ![c].pc = "waiting", ![c].step = 1]
          /\ UNCHANGED result
  /\ UNCHANGED <<now, next, history>>

LeaveGate(c) ==
  /\ At(c, "gate") /\ Expired(c)
  /\ Return(c, "stopped", Never)
  /\ UNCHANGED <<now, gate, next, history>>

(* The pace is set before the request; one that is too late is not sent.   *)
Send(c) ==
  /\ At(c, "waiting") /\ now >= next
  /\ next' = now + Gap
  /\ IF Expired(c)
     THEN Conclude(c, "failed", Never) /\ UNCHANGED last
     ELSE /\ call' = [call EXCEPT ![c].pc = "sent"]
          /\ last' = now
          /\ UNCHANGED <<gate, result>>
  /\ UNCHANGED <<now, ask, given>>

(* The wait for the pace ends with the caller's time, also when the pace   *)
(* is over at the same moment and the request could still be prepared.     *)
CancelWait(c) ==
  /\ At(c, "waiting") /\ Expired(c)
  /\ Conclude(c, "cancelled", Never)
  /\ UNCHANGED <<now, next, history>>

-----------------------------------------------------------------------------
(* What the provider answers in time.                                      *)
Answered(c) ==
  /\ At(c, "sent") /\ ~Expired(c)
  /\ IF call[c].step < 4
     THEN /\ call' = [call EXCEPT ![c].pc = "waiting", ![c].step = @ + 1]
          /\ UNCHANGED <<gate, result>>
     ELSE Conclude(c, "acquired", Never)
  /\ UNCHANGED <<now, next, history>>

(* Any failure that is not worth another attempt.                          *)
Refused(c) ==
  /\ At(c, "sent") /\ ~Expired(c)
  /\ Conclude(c, "refused", Never)
  /\ UNCHANGED <<now, next, history>>

(* A transport failure, an incomplete answer, an unexpected answer to the  *)
(* preparation, or the end of the two minutes.                             *)
Broken(c) ==
  /\ At(c, "sent")
  /\ Conclude(c, "failed", Never)
  /\ UNCHANGED <<now, next, history>>

(* Mutant of RetryAt: a number that cannot be parsed is no number.         *)
RetryAtUnparsed(h) ==
  IF h.kind = "seconds" /\ h.value <= MaxUint
  THEN IF h.value > Ceiling - now THEN Ceiling ELSE now + h.value
  ELSE IF h.kind = "date" /\ h.value > now THEN h.value ELSE now + Minute

RetryAt(h) ==
  IF h.kind = "seconds"
  THEN IF h.value > MaxUint \/ h.value > Ceiling - now
       THEN Ceiling ELSE now + h.value
  ELSE IF h.kind = "date" /\ h.value > now THEN h.value ELSE now + Minute

(* The time that the provider means.                                       *)
Asked(h) ==
  CASE h.kind = "seconds" -> now + h.value
    [] h.kind = "date"    -> h.value
    [] OTHER              -> Never

(* 429 or 503.                                                             *)
Throttled(c) ==
  /\ At(c, "sent") /\ ~Expired(c)
  /\ \E h \in Headers :
       /\ next' = Later(RetryAt(h), now + Gap)
       /\ ask' = Later(ask, Asked(h))
  /\ given' = next'
  /\ Conclude(c, "provider_backoff", next')
  /\ UNCHANGED <<now, last>>

-----------------------------------------------------------------------------
BackoffOver(c) ==
  /\ At(c, "backoff") /\ now >= call[c].until
  /\ call' = [call EXCEPT ![c].pc = "gate", ![c].attempt = @ + 1]
  /\ UNCHANGED <<now, gate, next, result, history>>

(* Mutant of StopBackoff: the backoff is slept through.                    *)
StopBackoffLate(c) ==
  /\ At(c, "backoff") /\ Expired(c) /\ now >= call[c].until
  /\ Return(c, "stopped", Never)
  /\ UNCHANGED <<now, gate, next, history>>

StopBackoff(c) ==
  /\ At(c, "backoff") /\ Expired(c)
  /\ Return(c, "stopped", Never)
  /\ UNCHANGED <<now, gate, next, history>>

Tick ==
  /\ now < MaxTime + Limit
  /\ now' = now + 1
  /\ UNCHANGED <<gate, next, call, result, history>>

(* What a caller does by itself, and the end of its request with its time. *)
Step(c) ==
  \/ Enter(c) \/ LeaveGate(c) \/ Send(c) \/ CancelWait(c)
  \/ BackoffOver(c) \/ StopBackoff(c)
  \/ Expired(c) /\ Broken(c)

Next ==
  \/ \E c \in Callers :
       \/ Begin(c) \/ Enter(c) \/ LeaveGate(c) \/ Send(c) \/ CancelWait(c)
       \/ Answered(c) \/ Refused(c) \/ Broken(c) \/ Throttled(c)
       \/ BackoffOver(c) \/ StopBackoff(c)
  \/ Tick

(* Goroutines are scheduled; neither the clock nor the provider is assumed *)
(* to do anything.                                                         *)
Fairness == \A c \in Callers : WF_vars(Step(c))

Spec == Init /\ [][Next]_vars /\ Fairness

-----------------------------------------------------------------------------
Holding == {"waiting", "sent"}

(* Whoever holds the gate is in an attempt: it is given back at the end of *)
(* each, before the caller backs off or returns.                           *)
TypeOK ==
  /\ now \in 0 .. MaxTime + Limit
  /\ gate = {c \in Callers : call[c].pc \in Holding}
  /\ next \in Nat
  /\ call \in [Callers -> [pc : {"idle", "gate", "backoff"} \cup Holding,
                           attempt : Attempts \cup {0}, step : Steps \cup {0},
                           deadline : Nat, until : Nat]]
  /\ result \in [Callers -> [code : {"none", "acquired", "refused", "failed",
                                     "provider_backoff", "cancelled", "stopped"},
                             retry : Nat]]
  /\ last \in Int /\ ask \in Nat /\ given \in Nat

(* All callers together keep the pace and wait for the times that the      *)
(* provider asked for, over retries, deadlines and any form of the header. *)
Pace == INSTANCE ProviderPace WITH now <- now, last <- last, ask <- ask
ImplementsPace == Pace!Spec

(* A cooldown that is reported, and then published, is one that the        *)
(* provider imposed, not the pace of another caller, and is not over       *)
(* before the time it asked for.                                           *)
BackoffTold ==
  [][\A c \in Callers :
       (result'[c].code = "provider_backoff" /\ ~At(c, "idle")) =>
         /\ result'[c].retry = given'
         /\ result'[c].retry >= ask' \/ result'[c].retry = Ceiling]_vars

(* "At most three attempts within one two-minute deadline": once its time  *)
(* is over an acquisition returns, although no timer fires any more and    *)
(* the provider and the other callers are never done.                      *)
EndsAtDeadline ==
  \A c \in Callers : (~At(c, "idle") /\ Expired(c)) ~> At(c, "idle")
=============================================================================
