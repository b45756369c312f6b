---------------------------- MODULE NoIntroProofs -----------------------------
(***************************************************************************)
(* Proofs about NoIntro, for any callers, times and headers.  The pace and *)
(* the cooldown are not inductive: what keeps them is that the gate has    *)
(* one holder, that what the provider asked for lies behind a request that *)
(* is under way, and that Adapter.next is ahead by more than one gap only  *)
(* because of a cooldown.                                                  *)
(***************************************************************************)
EXTENDS NoIntro, FiniteSetTheorems, TLAPS

Codes == {"none", "acquired", "refused", "failed",
          "provider_backoff", "cancelled", "stopped"}
Call == [pc : {"idle", "gate", "backoff"} \cup Holding,
         attempt : Attempts \cup {0}, step : Steps \cup {0},
         deadline : Nat, until : Nat]
Result == [code : Codes, retry : Nat]

Alone == \A c, d \in gate : c = d

(* An acquisition under way has a deadline on this side of the calendar,   *)
(* an attempt that is counted and no result yet.                           *)
UnderWay ==
  \A c \in Callers : ~At(c, "idle") =>
    /\ call[c].deadline <= MaxTime + Limit
    /\ call[c].attempt \in Attempts
    /\ At(c, "backoff") => call[c].attempt < 3
    /\ result[c].code = "none"

(* Nobody asked the request under way to wait, and the next one waits for  *)
(* the gap and for what was asked.                                         *)
PaceInv ==
  /\ last <= now /\ last + Gap <= next
  /\ ask <= next \/ next = Ceiling
  /\ \A c \in Callers : At(c, "sent") => ask <= now

Cooldown == next <= now + Gap \/ next = given

(* What every step keeps.                                                  *)
IInv == TypeOK /\ Alone /\ UnderWay /\ PaceInv /\ Cooldown

(* What the provider asks for with a header, and what is made of it.       *)
LEMMA HeaderType ==
  ASSUME now \in Nat, now + Gap <= Ceiling, NEW h \in Headers
  PROVE  /\ RetryAt(h) \in Nat /\ Asked(h) \in Nat
         /\ Asked(h) <= RetryAt(h) \/ RetryAt(h) = Ceiling \/ Asked(h) <= now
  BY TimeAssumption, HeaderAssumption
  DEF Header, RetryAt, Asked, Never

(* A backoff is some time: a power of two counts the subsets of a set.     *)
LEMMA BackoffType ==
  ASSUME NEW n \in Nat PROVE Gap * 2 ^ n \in Nat
<1>1. IsFiniteSet(1 .. n) /\ Cardinality(1 .. n) = n
  BY FS_Interval
<1>2. IsFiniteSet(SUBSET (1 .. n)) /\ Cardinality(SUBSET (1 .. n)) = 2 ^ n
  BY <1>1, FS_SUBSET
<1>3. 2 ^ n \in Nat
  BY <1>2, FS_CardinalityType
<1> QED
  BY <1>3, TimeAssumption

-----------------------------------------------------------------------------
(* The end of an attempt frees the gate and leaves its caller with a       *)
(* result or with a backoff; nobody else is touched.                       *)
LEMMA ConcludeType ==
  ASSUME TypeOK, UnderWay, NEW c \in Callers, ~At(c, "idle"),
         NEW code \in Codes, NEW retry \in Nat, Conclude(c, code, retry)
  PROVE  /\ gate' = gate \ {c}
         /\ call' \in [Callers -> Call]
         /\ result' \in [Callers -> Result]
         /\ \A d \in Callers \ {c} : call'[d] = call[d] /\ result'[d] = result[d]
         /\ \/ call'[c].pc = "idle" /\ result'[c] = [code |-> code, retry |-> retry]
            \/ /\ call'[c].pc = "backoff" /\ code = "failed"
               /\ call'[c].attempt = call[c].attempt /\ call[c].attempt \in {1, 2}
               /\ call'[c].deadline = call[c].deadline
               /\ result'[c] = result[c]
<1> USE DEF TypeOK, At
<1>1. gate' = gate \ {c}
  BY DEF Conclude
<1>2. now \in Nat /\ call[c] \in Call /\ call \in [Callers -> Call]
                  /\ result \in [Callers -> Result]
  BY TimeAssumption DEF Call, Result, Codes
<1>3. CASE Retried(c, code)
  <2> DEFINE n == call[c].attempt - 1
             u == now + Gap * 2 ^ n
             k == [call[c] EXCEPT !.pc = "backoff", !.until = u]
  <2>1. call[c].attempt \in {1, 2} /\ n \in Nat
    BY <1>2, <1>3 DEF Retried, UnderWay, Attempts
  <2>2. u \in Nat
    BY <1>2, <2>1, BackoffType
  <2>3. k \in Call /\ k.pc = "backoff" /\ k.attempt = call[c].attempt
                   /\ k.deadline = call[c].deadline
    BY <1>2, <2>2 DEF Call, Holding
  <2>4. call' = [call EXCEPT ![c] = k] /\ result' = result
    BY <1>2, <1>3 DEF Conclude, Call
  <2> QED
    BY <1>1, <1>2, <1>3, <2>1, <2>3, <2>4 DEF Retried
<1>4. CASE ~Retried(c, code)
  <2>1. NoCall \in Call /\ NoCall.pc = "idle"
    BY DEF NoCall, Call
  <2>2. [code |-> code, retry |-> retry] \in Result
    BY DEF Result
  <2> QED
    BY <1>1, <1>2, <1>4, <2>1, <2>2 DEF Conclude, Return
<1> QED
  BY <1>3, <1>4

(* The times and the history keep their types.                             *)
LEMMA ClockNext ==
  ASSUME IInv, [Next]_vars
  PROVE  /\ now' \in 0 .. MaxTime + Limit /\ next' \in Nat
         /\ last' \in Int /\ ask' \in Nat /\ given' \in Nat
<1> USE TimeAssumption DEF IInv, TypeOK
<1>1. ASSUME NEW c \in Callers, Send(c)
      PROVE  next' \in Nat /\ last' \in Int /\ UNCHANGED <<now, ask, given>>
  BY <1>1 DEF Send, Later
<1>2. ASSUME NEW c \in Callers, Throttled(c)
      PROVE  next' \in Nat /\ ask' \in Nat /\ given' \in Nat /\ UNCHANGED <<now, last>>
  <2>1. PICK h \in Headers : next' = Later(RetryAt(h), now + Gap) /\ ask' = Later(ask, Asked(h))
    BY <1>2 DEF Throttled
  <2>2. RetryAt(h) \in Nat /\ Asked(h) \in Nat
    BY HeaderType
  <2> QED
    BY <1>2, <2>1, <2>2 DEF Throttled, Later
<1>3. CASE Tick
  BY <1>3 DEF Tick, history
<1>4. ASSUME NEW c \in Callers,
             \/ Begin(c) \/ Enter(c) \/ LeaveGate(c) \/ CancelWait(c) \/ Answered(c)
             \/ Refused(c) \/ Broken(c) \/ BackoffOver(c) \/ StopBackoff(c)
      PROVE  UNCHANGED <<now, next, last, ask, given>>
  BY <1>4 DEF Begin, Enter, LeaveGate, CancelWait, Answered, Refused, Broken,
              BackoffOver, StopBackoff, history
<1>5. CASE UNCHANGED vars
  BY <1>5 DEF vars, history
<1> QED
  BY <1>1, <1>2, <1>3, <1>4, <1>5 DEF Next

Held == {c \in Callers : call[c].pc \in Holding}
CallInv ==
  /\ gate = Held
  /\ call \in [Callers -> Call] /\ result \in [Callers -> Result]
  /\ Alone /\ UnderWay

(* An attempt that ends leaves the callers and the gate in order.          *)
LEMMA ConcludeNext ==
  ASSUME IInv, NEW c \in Callers, ~At(c, "idle"),
         NEW code \in Codes, NEW retry \in Nat, Conclude(c, code, retry)
  PROVE  CallInv'
<1> USE DEF IInv, At
<1>1. /\ gate' = gate \ {c}
      /\ call' \in [Callers -> Call] /\ result' \in [Callers -> Result]
      /\ \A d \in Callers \ {c} : call'[d] = call[d] /\ result'[d] = result[d]
      /\ \/ call'[c].pc = "idle"
         \/ /\ call'[c].pc = "backoff"
            /\ call'[c].attempt = call[c].attempt /\ call[c].attempt \in {1, 2}
            /\ call'[c].deadline = call[c].deadline
            /\ result'[c] = result[c]
  BY ConcludeType
<1>2. gate' = Held' /\ Alone'
  BY <1>1 DEF TypeOK, Held, Alone, Holding
<1>3. UnderWay'
  BY <1>1 DEF UnderWay, Attempts
<1> QED
  BY <1>1, <1>2, <1>3 DEF CallInv

(* Every step of a caller keeps the gate, the calls and their results.     *)
LEMMA CallNext ==
  ASSUME IInv, [Next]_vars
  PROVE  CallInv'
<1> USE TimeAssumption DEF IInv, At
<1>0. /\ now \in Nat /\ next \in Nat /\ Never \in Nat /\ gate = Held
      /\ call \in [Callers -> Call] /\ result \in [Callers -> Result]
      /\ {"refused", "failed", "acquired", "cancelled", "provider_backoff"} \subseteq Codes
  BY DEF TypeOK, Call, Result, Codes, Held, Never
<1>r. ASSUME NEW c \in Callers, call[c].pc \in {"gate", "backoff"},
             NEW code \in Codes, Return(c, code, Never), gate' = gate
      PROVE  CallInv'
  <2>1. NoCall \in Call /\ NoCall.pc = "idle" /\ [code |-> code, retry |-> Never] \in Result
    BY <1>0 DEF NoCall, Call, Result
  <2>2. call' = [call EXCEPT ![c] = NoCall]
        /\ result' = [result EXCEPT ![c] = [code |-> code, retry |-> Never]]
    BY <1>r DEF Return
  <2>3. call' \in [Callers -> Call] /\ result' \in [Callers -> Result]
    BY <1>0, <2>1, <2>2
  <2>4. gate' = Held' /\ Alone'
    BY <1>0, <1>r, <2>1, <2>2 DEF Held, Holding, Alone
  <2>5. UnderWay'
    BY <1>0, <2>1, <2>2 DEF UnderWay
  <2> QED
    BY <2>3, <2>4, <2>5 DEF CallInv
<1>s. ASSUME NEW c \in Callers, NEW k \in Call, call' = [call EXCEPT ![c] = k],
             \/ result' = result
             \/ result' = [result EXCEPT ![c] = NoResult],
             \/ /\ k.pc \in Holding /\ gate \subseteq {c} /\ gate' = {c}
             \/ /\ k.pc \notin Holding \cup {"idle"} /\ gate' = gate /\ c \notin gate,
             /\ k.deadline <= MaxTime + Limit /\ k.attempt \in Attempts
             /\ k.pc # "backoff" /\ result'[c].code = "none"
      PROVE  CallInv'
  <2>1. NoResult \in Result
    BY DEF NoResult, Result, Codes, Never
  <2>2. call' \in [Callers -> Call] /\ result' \in [Callers -> Result]
    BY <1>0, <1>s, <2>1
  <2>3. gate' = Held' /\ Alone'
    BY <1>0, <1>s DEF Held, Alone
  <2>4. UnderWay'
    BY <1>0, <1>s DEF UnderWay
  <2> QED
    BY <2>2, <2>3, <2>4 DEF CallInv
<1>1. ASSUME NEW c \in Callers, Begin(c) PROVE CallInv'
  <2> DEFINE k == [call[c] EXCEPT !.pc = "gate", !.attempt = 1, !.deadline = now + Limit]
  <2>1. k \in Call /\ k.pc = "gate"
    <3>1. call[c] \in Call /\ now + Limit \in Nat /\ 1 \in Attempts
      BY <1>0 DEF Attempts
    <3> QED
      BY <3>1 DEF Call
  <2>5. call' = [call EXCEPT ![c] = k]
    <3>1. call' = [call EXCEPT ![c].pc = "gate", ![c].attempt = 1,
                               ![c].deadline = now + Limit]
      BY <1>1 DEF Begin
    <3> QED
      BY <1>0, <3>1, Zenon DEF Call
  <2>2. k.deadline <= MaxTime + Limit /\ k.attempt \in Attempts
    <3>1. k.deadline = now + Limit /\ k.attempt = 1
      BY <1>0 DEF Call
    <3> QED
      BY <1>0, <1>1, <3>1 DEF Begin, Attempts
  <2>3. c \notin gate
    BY <1>0, <1>1 DEF Begin, Held, Holding
  <2>4. result'[c].code = "none" /\ result' = [result EXCEPT ![c] = NoResult] /\ gate' = gate
    BY <1>0, <1>1 DEF Begin, NoResult
  <2> QED
    BY <2>1, <2>2, <2>3, <2>4, <2>5, <1>s DEF Holding
<1>2. ASSUME NEW c \in Callers, Enter(c) PROVE CallInv'
  <2>1. CASE next - now > Gap
    BY <1>0, <1>2, <2>1, ConcludeNext DEF Enter
  <2>2. CASE ~(next - now > Gap)
    <3> DEFINE k == [call[c] EXCEPT !.pc = "waiting", !.step = 1]
    <3>1. k \in Call /\ k.pc \in Holding
      <4>1. call[c] \in Call /\ 1 \in Steps
        BY <1>0 DEF Steps
      <4> QED
        BY <4>1 DEF Call, Holding
    <3>4. call' = [call EXCEPT ![c] = k]
      <4>1. call' = [call EXCEPT ![c].pc = "waiting", ![c].step = 1]
        BY <1>2, <2>2 DEF Enter
      <4> QED
        BY <1>0, <4>1, Zenon DEF Call
    <3>2. k.deadline = call[c].deadline /\ k.attempt = call[c].attempt /\ k.pc = "waiting"
      BY <1>0 DEF Call
    <3>3. gate = {} /\ gate' = {c} /\ result' = result /\ call[c].pc = "gate"
      BY <1>2, <2>2 DEF Enter
    <3> QED
      BY <1>s, <3>1, <3>2, <3>3, <3>4 DEF UnderWay
  <2> QED
    BY <2>1, <2>2
<1>3. ASSUME NEW c \in Callers, LeaveGate(c) PROVE CallInv'
  BY <1>3, <1>r DEF LeaveGate, Codes
<1>4. ASSUME NEW c \in Callers, Send(c) PROVE CallInv'
  <2>1. CASE Expired(c)
    BY <1>0, <1>4, <2>1, ConcludeNext DEF Send
  <2>2. CASE ~Expired(c)
    <3> DEFINE k == [call[c] EXCEPT !.pc = "sent"]
    <3>1. k \in Call /\ call' = [call EXCEPT ![c] = k] /\ k.pc \in Holding
      BY <1>0, <1>4, <2>2 DEF Send, Call, Holding
    <3>2. k.deadline = call[c].deadline /\ k.attempt = call[c].attempt /\ k.pc = "sent"
      BY <1>0 DEF Call
    <3>3. gate' = gate /\ gate = {c} /\ result' = result /\ call[c].pc = "waiting"
      BY <1>0, <1>4, <2>2 DEF Send, Held, Holding, Alone
    <3> QED
      BY <1>s, <3>1, <3>2, <3>3 DEF UnderWay
  <2> QED
    BY <2>1, <2>2
<1>5. ASSUME NEW c \in Callers, CancelWait(c) PROVE CallInv'
  BY <1>0, <1>5, ConcludeNext DEF CancelWait
<1>6. ASSUME NEW c \in Callers, Answered(c) PROVE CallInv'
  <2>1. CASE ~(call[c].step < 4)
    BY <1>0, <1>6, <2>1, ConcludeNext DEF Answered
  <2>2. CASE call[c].step < 4
    <3> DEFINE k == [call[c] EXCEPT !.pc = "waiting", !.step = @ + 1]
    <3>1. k \in Call /\ call' = [call EXCEPT ![c] = k] /\ k.pc \in Holding
      BY <1>0, <1>6, <2>2 DEF Answered, Call, Steps, Holding
    <3>2. k.deadline = call[c].deadline /\ k.attempt = call[c].attempt /\ k.pc = "waiting"
      BY <1>0 DEF Call
    <3>3. gate' = gate /\ gate = {c} /\ result' = result /\ call[c].pc = "sent"
      BY <1>0, <1>6, <2>2 DEF Answered, Held, Holding, Alone
    <3> QED
      BY <1>s, <3>1, <3>2, <3>3 DEF UnderWay
  <2> QED
    BY <2>1, <2>2
<1>7. ASSUME NEW c \in Callers, Refused(c) \/ Broken(c) PROVE CallInv'
  BY <1>0, <1>7, ConcludeNext DEF Refused, Broken
<1>8. ASSUME NEW c \in Callers, Throttled(c) PROVE CallInv'
  BY <1>0, <1>8, ClockNext, ConcludeNext DEF Throttled, Next
<1>9. ASSUME NEW c \in Callers, BackoffOver(c) PROVE CallInv'
  <2> DEFINE k == [call[c] EXCEPT !.pc = "gate", !.attempt = @ + 1]
  <2>1. call[c].attempt \in {1, 2} /\ call[c].deadline <= MaxTime + Limit
        /\ result[c].code = "none"
    BY <1>9 DEF BackoffOver, UnderWay, Attempts
  <2>2. k \in Call /\ call' = [call EXCEPT ![c] = k] /\ k.pc = "gate"
    BY <1>0, <1>9, <2>1 DEF BackoffOver, Call, Attempts
  <2>3. k.deadline = call[c].deadline /\ k.attempt \in Attempts
    BY <1>0, <2>1 DEF Call, Attempts
  <2>4. gate' = gate /\ c \notin gate /\ result' = result
    BY <1>0, <1>9 DEF BackoffOver, Held, Holding
  <2> QED
    BY <1>s, <2>1, <2>2, <2>3, <2>4 DEF Holding
<1>10. ASSUME NEW c \in Callers, StopBackoff(c) PROVE CallInv'
  BY <1>10, <1>r DEF StopBackoff, Codes
<1>11. CASE Tick \/ UNCHANGED vars
  BY <1>0, <1>11 DEF Tick, vars, history, CallInv, Held, Alone, UnderWay
<1> QED
  BY <1>1, <1>2, <1>3, <1>4, <1>5, <1>6, <1>7, <1>8, <1>9, <1>10, <1>11 DEF Next

(* Only Send sends.                                                        *)
LEMMA SentBefore ==
  ASSUME IInv, NEW c \in Callers,
         \/ Begin(c) \/ Enter(c) \/ LeaveGate(c) \/ CancelWait(c) \/ Answered(c)
         \/ Refused(c) \/ Broken(c) \/ Throttled(c) \/ BackoffOver(c) \/ StopBackoff(c),
         NEW d \in Callers, call'[d].pc = "sent"
  PROVE  At(d, "sent") /\ (Throttled(c) => d # c)
<1> USE DEF At
<1>0. /\ call \in [Callers -> Call] /\ next \in Nat /\ Never \in Nat
      /\ {"refused", "failed", "acquired", "cancelled", "provider_backoff"} \subseteq Codes
  BY DEF IInv, TypeOK, Call, Codes, Never
<1>1. ASSUME NEW code \in Codes, NEW retry \in Nat, Conclude(c, code, retry), ~At(c, "idle")
      PROVE  At(d, "sent") /\ d # c
  <2>1. /\ \A e \in Callers \ {c} : call'[e] = call[e]
        /\ call'[c].pc \in {"idle", "backoff"}
    BY <1>1, ConcludeType DEF IInv
  <2> QED
    BY <2>1
<1>2. ASSUME NEW k, k.pc # "sent", call' = [call EXCEPT ![c] = k]
      PROVE  At(d, "sent") /\ d # c
  BY <1>0, <1>2
<1>3. ASSUME NEW code, NEW retry, Return(c, code, retry)
      PROVE  At(d, "sent") /\ d # c
  BY <1>2, <1>3 DEF Return, NoCall
<1>4. CASE Begin(c) \/ BackoffOver(c)
  BY <1>0, <1>4 DEF Begin, BackoffOver, Call, Throttled
<1>5. CASE Enter(c)
  BY <1>0, <1>1, <1>5 DEF Enter, Call
<1>6. CASE LeaveGate(c) \/ StopBackoff(c)
  BY <1>3, <1>6 DEF LeaveGate, StopBackoff
<1>7. CASE CancelWait(c) \/ Refused(c) \/ Broken(c)
  BY <1>0, <1>1, <1>7 DEF CancelWait, Refused, Broken
<1>8. CASE Answered(c)
  BY <1>0, <1>1, <1>8 DEF Answered, Call
<1>9. CASE Throttled(c)
  BY <1>0, <1>1, <1>9, ClockNext DEF Throttled, Next
<1> QED
  BY <1>4, <1>5, <1>6, <1>7, <1>8, <1>9

(* A request that is sent keeps the pace and comes after every time that   *)
(* was asked for.                                                          *)
LEMMA SendKeepsPace ==
  ASSUME IInv, now >= next
  PROVE  now >= last + Gap /\ now >= ask
  BY TimeAssumption DEF IInv, TypeOK, PaceInv

(* Every step keeps the distance to the last request and to the cooldown.  *)
LEMMA PaceNext ==
  ASSUME IInv, [Next]_vars
  PROVE  PaceInv' /\ Cooldown'
<1> USE TimeAssumption DEF At
<1>0. /\ now \in 0 .. MaxTime + Limit /\ next \in Nat /\ last \in Int
      /\ ask \in Nat /\ given \in Nat /\ PaceInv /\ Cooldown
  BY DEF IInv, TypeOK
<1>1. ASSUME NEW c \in Callers, Send(c)
      PROVE  PaceInv' /\ Cooldown'
  <2>1. now' = now /\ next' = now + Gap /\ ask' = ask /\ last' \in {now, last}
    BY <1>1 DEF Send
  <2>2. now >= last + Gap /\ now >= ask
    BY <1>1, SendKeepsPace DEF Send
  <2>3. last <= now
    BY <1>0 DEF PaceInv
  <2>4. next' <= now' + Gap /\ ask' <= next'
    BY <1>0, <2>1, <2>2
  <2>5. last' <= now' /\ last' + Gap <= next'
    <3>1. now \in Int /\ last \in Int /\ Gap \in Nat
      BY <1>0
    <3>2. CASE last' = now
      BY <2>1, <3>1, <3>2
    <3>3. CASE last' = last
      BY <2>1, <2>2, <2>3, <3>1, <3>3
    <3> QED
      BY <2>1, <3>2, <3>3
  <2>6. ask' <= now'
    BY <1>0, <2>1, <2>2
  <2> QED
    BY <2>4, <2>5, <2>6 DEF PaceInv, Cooldown
<1>2. ASSUME NEW c \in Callers, Throttled(c)
      PROVE  PaceInv' /\ Cooldown'
  <2>1. PICK h \in Headers : next' = Later(RetryAt(h), now + Gap) /\ ask' = Later(ask, Asked(h))
    BY <1>2 DEF Throttled
  <2>2. /\ RetryAt(h) \in Nat /\ Asked(h) \in Nat
        /\ Asked(h) <= RetryAt(h) \/ RetryAt(h) = Ceiling \/ Asked(h) <= now
    BY <1>0, HeaderType
  <2>3. now' = now /\ last' = last /\ given' = next' /\ ask <= now
    BY <1>0, <1>2 DEF Throttled, PaceInv
  <2>4. last' <= now' /\ last' + Gap <= next' /\ (ask' <= next' \/ next' = Ceiling)
    BY <1>0, <2>1, <2>2, <2>3 DEF Later, PaceInv
  <2>5. ASSUME NEW d \in Callers, call'[d].pc = "sent" PROVE ask' <= now'
    <3>1. At(d, "sent") /\ d # c /\ At(c, "sent")
      BY <1>2, <2>5, SentBefore DEF Throttled
    <3> QED
      BY <3>1 DEF IInv, TypeOK, Alone, Holding
  <2> QED
    BY <2>3, <2>4, <2>5 DEF PaceInv, Cooldown
<1>3. CASE Tick
  BY <1>0, <1>3 DEF Tick, history, PaceInv, Cooldown
<1>4. ASSUME NEW c \in Callers,
             \/ Begin(c) \/ Enter(c) \/ LeaveGate(c) \/ CancelWait(c) \/ Answered(c)
             \/ Refused(c) \/ Broken(c) \/ BackoffOver(c) \/ StopBackoff(c)
      PROVE  PaceInv' /\ Cooldown'
  <2>1. UNCHANGED <<now, next, last, ask, given>>
    BY <1>4 DEF Begin, Enter, LeaveGate, CancelWait, Answered, Refused, Broken,
                BackoffOver, StopBackoff, history
  <2>2. \A d \in Callers : call'[d].pc = "sent" => At(d, "sent")
    BY <1>4, SentBefore
  <2> QED
    BY <1>0, <2>1, <2>2 DEF PaceInv, Cooldown
<1>5. CASE UNCHANGED vars
  BY <1>0, <1>5 DEF vars, history, PaceInv, Cooldown
<1> QED
  BY <1>1, <1>2, <1>3, <1>4, <1>5 DEF Next

-----------------------------------------------------------------------------
(* Nobody has called at first.                                             *)
LEMMA InvInit == ASSUME Init PROVE IInv
<1> USE TimeAssumption DEF Init, At, NoCall, NoResult, Never
<1>1. TypeOK
  BY DEF TypeOK, Holding
<1>2. Alone /\ UnderWay /\ PaceInv /\ Cooldown
  BY DEF Alone, UnderWay, PaceInv, Cooldown
<1> QED
  BY <1>1, <1>2 DEF IInv

(* Every step keeps the invariant.                                         *)
LEMMA InvNext == ASSUME IInv, [Next]_vars PROVE IInv'
<1>1. TypeOK'
  BY ClockNext, CallNext DEF CallInv, TypeOK, Held, Call, Result, Codes
<1> QED
  BY <1>1, CallNext, PaceNext DEF IInv, CallInv

(* The inductive invariant holds in every reachable state.                 *)
THEOREM Invariance == Spec => []IInv
<1>1. Init => IInv
  BY InvInit
<1>2. IInv /\ [Next]_vars => IInv'
  BY InvNext
<1> QED
  BY <1>1, <1>2, PTL DEF Spec

(* The gate is held by those who are in an attempt and nobody else, and    *)
(* every value has its type, whatever the provider answers and when.       *)
THEOREM TypeCorrect == Spec => []TypeOK
<1>1. IInv => TypeOK
  BY DEF IInv
<1> QED
  BY <1>1, Invariance, PTL

(* Every step is a tick, a request in time or an answer of ProviderPace,   *)
(* or changes nothing that the provider sees.                              *)
LEMMA StepKeepsPace == ASSUME IInv, [Next]_vars PROVE [Pace!Next]_<<now, last, ask>>
<1> USE DEF Pace!Next
<1>1. ASSUME NEW c \in Callers, Send(c)
      PROVE  Pace!Request \/ UNCHANGED <<now, last, ask>>
  BY <1>1, SendKeepsPace DEF Send, Pace!Request
<1>2. ASSUME NEW c \in Callers, Throttled(c)
      PROVE  Pace!Answer \/ UNCHANGED <<now, last, ask>>
  <2>1. PICK h \in Headers : ask' = Later(ask, Asked(h))
    BY <1>2 DEF Throttled
  <2>2. Asked(h) \in Nat /\ ask \in Nat
    BY HeaderType, TimeAssumption DEF IInv, TypeOK
  <2> QED
    BY <1>2, <2>1, <2>2 DEF Throttled, Later, Pace!Answer
<1>3. CASE Tick
  BY <1>3 DEF Tick, history, Pace!Tick
<1>4. ASSUME NEW c \in Callers,
             \/ Begin(c) \/ Enter(c) \/ LeaveGate(c) \/ CancelWait(c) \/ Answered(c)
             \/ Refused(c) \/ Broken(c) \/ BackoffOver(c) \/ StopBackoff(c)
      PROVE  UNCHANGED <<now, last, ask>>
  BY <1>4 DEF Begin, Enter, LeaveGate, CancelWait, Answered, Refused, Broken,
              BackoffOver, StopBackoff, history
<1>5. CASE UNCHANGED vars
  BY <1>5 DEF vars, history
<1> QED
  BY <1>1, <1>2, <1>3, <1>4, <1>5 DEF Next

(* All callers of an adapter together keep the pace and the cooldowns: the *)
(* adapter implements ProviderPace for any number of them.                 *)
THEOREM Implementation == Spec => ImplementsPace
<1>1. Init => Pace!Init
  BY DEF Init, Pace!Init
<1>2. IInv /\ [Next]_vars => [Pace!Next]_<<now, last, ask>>
  BY StepKeepsPace
<1> QED
  BY <1>1, <1>2, Invariance, PTL DEF Spec, ImplementsPace, Pace!Spec

-----------------------------------------------------------------------------
(* A step of a caller that reports no cooldown to itself reports none to   *)
(* anybody.                                                                *)
LEMMA NoneTold ==
  ASSUME IInv, NEW c \in Callers,
         \/ Begin(c) \/ LeaveGate(c) \/ Send(c) \/ CancelWait(c) \/ Answered(c)
         \/ Refused(c) \/ Broken(c) \/ BackoffOver(c) \/ StopBackoff(c),
         NEW d \in Callers, ~At(d, "idle")
  PROVE  result'[d].code # "provider_backoff"
<1> USE DEF At
<1>0. /\ call \in [Callers -> Call] /\ result \in [Callers -> Result] /\ Never \in Nat
      /\ {"refused", "failed", "acquired", "cancelled"} \subseteq Codes
      /\ result[d].code = "none"
  BY DEF IInv, TypeOK, Call, Result, Codes, Never, UnderWay
<1>1. ASSUME NEW code \in {"refused", "failed", "acquired", "cancelled"},
             Conclude(c, code, Never), ~At(c, "idle")
      PROVE  result'[d].code # "provider_backoff"
  <2>1. code \in Codes
    BY <1>0, <1>1
  <2>2. \/ result'[d] = result[d]
        \/ result'[d] = [code |-> code, retry |-> Never]
    BY <1>0, <1>1, <2>1, ConcludeType DEF IInv
  <2> QED
    BY <1>0, <1>1, <2>2
<1>2. ASSUME NEW code, code # "provider_backoff", Return(c, code, Never)
      PROVE  result'[d].code # "provider_backoff"
  BY <1>0, <1>2 DEF Return
<1>3. CASE Begin(c)
  BY <1>0, <1>3 DEF Begin, NoResult
<1>4. CASE LeaveGate(c) \/ StopBackoff(c)
  BY <1>2, <1>4 DEF LeaveGate, StopBackoff
<1>5. CASE Send(c)
  BY <1>0, <1>1, <1>5 DEF Send
<1>6. CASE CancelWait(c) \/ Refused(c) \/ Broken(c)
  BY <1>1, <1>6 DEF CancelWait, Refused, Broken
<1>7. CASE Answered(c)
  BY <1>0, <1>1, <1>7 DEF Answered
<1>8. CASE BackoffOver(c)
  BY <1>0, <1>8 DEF BackoffOver
<1> QED
  BY <1>3, <1>4, <1>5, <1>6, <1>7, <1>8

Told(c) ==
  /\ result'[c].retry = given'
  /\ result'[c].retry >= ask' \/ result'[c].retry = Ceiling

(* A call that a step ends with a backoff is told what the provider asked  *)
(* for.                                                                    *)
LEMMA StepTells ==
  ASSUME IInv, [Next]_vars, NEW d \in Callers, ~At(d, "idle"),
         result'[d].code = "provider_backoff"
  PROVE  Told(d)
<1> USE TimeAssumption DEF At
<1>0. /\ now \in Nat /\ next \in Nat /\ given \in Nat /\ ask \in Nat
      /\ "provider_backoff" \in Codes /\ result[d].code = "none"
      /\ ask <= next \/ next = Ceiling
      /\ next <= now + Gap \/ next = given
  BY DEF IInv, TypeOK, Codes, UnderWay, PaceInv, Cooldown
<1>1. ASSUME NEW c \in Callers, Enter(c) PROVE Told(d)
  <2>1. CASE next - now > Gap
    <3>1. Conclude(c, "provider_backoff", next) /\ UNCHANGED <<next, ask, given>> /\ At(c, "gate")
      BY <1>1, <2>1 DEF Enter, history
    <3>2. result'[d].retry = next
      <4>1. \/ result'[d] = result[d]
            \/ result'[d] = [code |-> "provider_backoff", retry |-> next]
        BY <1>0, <3>1, ConcludeType DEF IInv
      <4> QED
        BY <1>0, <4>1
    <3>3. next = given
      BY <1>0, <2>1
    <3> QED
      BY <1>0, <3>1, <3>2, <3>3 DEF Told
  <2>2. CASE ~(next - now > Gap)
    BY <1>0, <1>1, <2>2 DEF Enter
  <2> QED
    BY <2>1, <2>2
<1>2. ASSUME NEW c \in Callers, Throttled(c) PROVE Told(d)
  <2>1. next' \in Nat /\ ask' \in Nat /\ given' = next'
    BY <1>2, ClockNext DEF Throttled, Next
  <2>2. Conclude(c, "provider_backoff", next') /\ At(c, "sent")
    BY <1>2 DEF Throttled
  <2>3. result'[d].retry = next'
    <3>1. \/ result'[d] = result[d]
          \/ result'[d] = [code |-> "provider_backoff", retry |-> next']
      BY <1>0, <2>1, <2>2, ConcludeType DEF IInv
    <3> QED
      BY <1>0, <3>1
  <2>4. ask' <= next' \/ next' = Ceiling
    BY <1>2, PaceNext DEF Next, PaceInv
  <2> QED
    BY <2>1, <2>3, <2>4 DEF Told
<1>3. ASSUME NEW c \in Callers,
             \/ Begin(c) \/ LeaveGate(c) \/ Send(c) \/ CancelWait(c) \/ Answered(c)
             \/ Refused(c) \/ Broken(c) \/ BackoffOver(c) \/ StopBackoff(c)
      PROVE  Told(d)
  BY <1>3, NoneTold
<1>4. CASE Tick \/ UNCHANGED vars
  BY <1>0, <1>4 DEF Tick, vars
<1> QED
  BY <1>1, <1>2, <1>3, <1>4 DEF Next

(* A cooldown that is reported is the provider's own and is not over       *)
(* before the time it asked for, for any callers and any headers.          *)
THEOREM CooldownsTold == Spec => BackoffTold
<1> DEFINE A == \A c \in Callers :
                  (result'[c].code = "provider_backoff" /\ ~At(c, "idle")) =>
                    /\ result'[c].retry = given'
                    /\ result'[c].retry >= ask' \/ result'[c].retry = Ceiling
<1>1. IInv /\ [Next]_vars => A
  BY StepTells DEF Told
<1>2. IInv /\ [Next]_vars => [A]_vars
  BY <1>1
<1> HIDE DEF A
<1>3. Spec => [][A]_vars
  BY <1>2, Invariance, PTL DEF Spec
<1> QED
  BY <1>3 DEF BackoffTold, A
===============================================================================
