----------------------------- MODULE SourceState -----------------------------
(***************************************************************************)
(* The persisted schedule of the Redump source: sourceState of             *)
(* internal/redump/scheduler.go, and what decodeState accepts.  Times are  *)
(* natural numbers and 0 is the zero time; the registry stands for the     *)
(* reviewed catalogs together with the origin they bind.                   *)
(***************************************************************************)
EXTENDS Integers

CONSTANTS
  Registries,   \* reviewed catalog registries
  Poll,         \* pollInterval
  MaxRecovery   \* the largest value of RecoveryCount, a uint64

ASSUME PollAssumption == Poll \in Nat \ {0}
ASSUME CountAssumption == MaxRecovery \in Nat
ASSUME RegistryAssumption == Registries # {}

Never == 0                                    \* time.Time{}, IsZero

(* Recovery == nil is a record of zero times.                              *)
Recoveries == [at : Nat, interrupted : Nat, notBefore : Nat]
NoRecovery == [at |-> Never, interrupted |-> Never, notBefore |-> Never]

(* format 1 and 2 are the two state formats; 0 is a missing checkpoint.    *)
State == [format : {0, 1, 2}, registry : Registries, inFlight : BOOLEAN,
          last : Nat, next : Nat, count : 0 .. MaxRecovery,
          recovery : Recoveries]

Schedule0(f, reg) ==
  [format |-> f, registry |-> reg, inFlight |-> FALSE, last |-> Never,
   next |-> Never, count |-> 0, recovery |-> NoRecovery]

FreshState(reg) == Schedule0(2, reg)
Absent == Schedule0(0, CHOOSE reg \in Registries : TRUE)

(* The state a run admitted at now commits, the one that records a later   *)
(* deadline, the one that completes the run, and the one that resolves an  *)
(* interrupted run.  Fields that are not assigned are kept.                *)
Admission(s, now) ==
  [format |-> s.format, registry |-> s.registry, inFlight |-> TRUE,
   last |-> now, next |-> now + Poll, count |-> s.count,
   recovery |-> s.recovery]

Extension(s, deadline) ==
  [format |-> s.format, registry |-> s.registry, inFlight |-> s.inFlight,
   last |-> s.last, next |-> deadline, count |-> s.count,
   recovery |-> s.recovery]

Completion(s) ==
  [format |-> s.format, registry |-> s.registry, inFlight |-> FALSE,
   last |-> s.last, next |-> s.next, count |-> s.count,
   recovery |-> s.recovery]

Resolution(s, now, deadline) ==
  [format |-> s.format, registry |-> s.registry, inFlight |-> FALSE,
   last |-> s.last, next |-> deadline, count |-> s.count + 1,
   recovery |-> [at |-> now, interrupted |-> s.last, notBefore |-> deadline]]

(* decodeState reads a version 1 state as version 2 ...                    *)
Decode(s) ==
  [format |-> 2, registry |-> s.registry, inFlight |-> s.inFlight,
   last |-> s.last, next |-> s.next, count |-> s.count,
   recovery |-> s.recovery]

(* ... and refuses every state in which one of these conditions fails.     *)
ValidRecovery(s) ==
  LET r == s.recovery IN
    /\ r.at >= r.interrupted
    /\ r.at <= r.notBefore
    /\ r.interrupted # Never
    /\ r.interrupted <= s.last
    /\ r.notBefore >= r.interrupted + Poll
    /\ r.notBefore <= s.next

Readable(s) ==
  /\ s.format # 0
  /\ s.format = 1 => s.recovery = NoRecovery /\ s.count = 0
  /\ (s.count = 0) <=> (s.recovery = NoRecovery)
  /\ s.recovery # NoRecovery => ValidRecovery(s)
  /\ (s.last = Never) <=> (s.next = Never)
  /\ s.last # Never => s.next >= s.last + Poll
  /\ s.inFlight => s.last # Never

-----------------------------------------------------------------------------
(* The operations, as relations between the content that is replaced and   *)
(* the content that replaces it.  An explicit initialization:              *)
Initialized(s, t) ==
  /\ s = Absent
  /\ t = FreshState(t.registry)

(* A run is admitted when nothing is in flight and the source is due.      *)
Admitted(s, t) ==
  /\ Readable(s) /\ ~s.inFlight
  /\ t.last # Never /\ t.last >= s.last /\ t.last >= s.next
  /\ t = Admission(Decode(s), t.last)

(* The admitted run was told a later deadline.                             *)
Extended(s, t) ==
  /\ s.inFlight
  /\ t.next > s.next
  /\ t = Extension(s, t.next)

Completed(s, t) ==
  /\ s.inFlight
  /\ t = Completion(s)

(* A reviewed recovery resolves the run in flight, one record at a time.   *)
Recovered(s, t) ==
  /\ Readable(s) /\ s.inFlight
  /\ t.recovery.at >= s.last
  /\ t.next >= t.recovery.at /\ t.next >= s.next
  /\ t = Resolution(Decode(s), t.recovery.at, t.next)

Operation(s, t) ==
  \/ Initialized(s, t) \/ Admitted(s, t) \/ Extended(s, t)
  \/ Completed(s, t) \/ Recovered(s, t)
=============================================================================
