---------------------------- MODULE RateLimiter ----------------------------
(***************************************************************************)
(* internal/server/ratelimit.go: toolCallLimiter, the three gates a tool   *)
(* call passes before its handler runs.                                    *)
(*                                                                         *)
(* acquire is not one step: each gate is atomic by itself, and calls of    *)
(* many goroutines interleave between gates.  The token buckets            *)
(* (golang.org/x/time/rate) and the semaphore are modelled from their use. *)
(* Quotas are counted in parts of a token, Cost parts to a token, so that  *)
(* a rate of less than one token per tick can be expressed.  What a lazy   *)
(* bucket would hold when looked at, Tick writes down at once.             *)
(***************************************************************************)
EXTENDS Integers, FiniteSets

CONSTANTS
  Calls,         \* incoming MCP requests
  Subjects,      \* verified token subjects
  SubjectOf,     \* the subject of each call's identity
  Cost,          \* parts of a token taken by Allow
  GlobalRate,    \* RateGlobalRPS, in parts per tick
  GlobalBurst,   \* RateGlobalBurst, in parts
  SubjectRate,   \* RateRPS, in parts per tick
  SubjectBurst,  \* RateBurst, in parts
  MaxInflight,   \* MaxInflight; 0 is allowed and lets nothing through
  MaxClock,      \* bound on the clock
  NoLimiter      \* a missing entry of perSubject, a call without a limiter

ASSUME RateLimiterAssumption ==
  /\ IsFiniteSet(Calls)
  /\ SubjectOf \in [Calls -> Subjects]
  /\ NoLimiter \notin Calls
  /\ Cost \in Nat \ {0}
  /\ GlobalRate \in Nat /\ GlobalBurst \in Nat
  /\ SubjectRate \in Nat /\ SubjectBurst \in Nat
  /\ MaxInflight \in Nat
  /\ MaxClock \in Nat

VARIABLES
  stage,       \* where each call stands
  perSubject,  \* the map from subject to limiter, a limiter going by the
               \* call that made it
  limiter,     \* the limiter limiterFor returned to each call
  bucket,      \* parts of tokens left in each limiter
  global,      \* parts of tokens left in the global limiter
  inflight,    \* slots of the semaphore in use
  clock,       \* ticks so far
  mark,        \* history: when the window under observation began
  took         \* history: the gates each call took a token from since mark

vars == <<stage, perSubject, limiter, bucket, global, inflight, clock, mark,
          took>>

Stages == {"new", "tools/call", "global passed", "limiter found",
           "subject passed", "running", "rejected", "answered"}
Gates == {"global", "subject"}

Lower(a, b) == IF a <= b THEN a ELSE b

GoTo(c, s) == stage' = [stage EXCEPT ![c] = s]

-----------------------------------------------------------------------------
\* newToolCallLimiter: every bucket starts full.
Init ==
  /\ stage = [c \in Calls |-> "new"]
  /\ perSubject = [s \in Subjects |-> NoLimiter]
  /\ limiter = [c \in Calls |-> NoLimiter]
  /\ bucket = [c \in Calls |-> SubjectBurst]
  /\ global = GlobalBurst
  /\ inflight = 0
  /\ clock = 0
  /\ mark = 0
  /\ took = [c \in Calls |-> {}]

\* The middleware: only tools/call is limited, the rest goes straight on.
Middleware(c) ==
  /\ stage[c] = "new"
  /\ \E next \in {"tools/call", "answered"} : GoTo(c, next)
  /\ UNCHANGED <<perSubject, limiter, bucket, global, inflight, clock, mark,
                 took>>

\* Variant: the quota is looked at and not used up.
GlobalPeek(c) ==
  /\ stage[c] = "tools/call"
  /\ GoTo(c, IF global >= Cost THEN "global passed" ELSE "rejected")
  /\ took' = IF global >= Cost
             THEN [took EXCEPT ![c] = @ \cup {"global"}] ELSE took
  /\ UNCHANGED <<perSubject, limiter, bucket, global, inflight, clock, mark>>

\* global.Allow() and the return of errGlobalRate.
GlobalAllow(c) ==
  /\ stage[c] = "tools/call"
  /\ \/ /\ global >= Cost
        /\ global' = global - Cost
        /\ took' = [took EXCEPT ![c] = @ \cup {"global"}]
        /\ GoTo(c, "global passed")
     \/ /\ global < Cost
        /\ GoTo(c, "rejected")
        /\ UNCHANGED <<global, took>>
  /\ UNCHANGED <<perSubject, limiter, bucket, inflight, clock, mark>>

\* Variant: every call brings a limiter of its own.
LimiterForAlwaysNew(c) ==
  /\ stage[c] = "global passed"
  /\ perSubject' = [perSubject EXCEPT ![SubjectOf[c]] = c]
  /\ limiter' = [limiter EXCEPT ![c] = c]
  /\ GoTo(c, "limiter found")
  /\ UNCHANGED <<bucket, global, inflight, clock, mark, took>>

\* limiterFor: look up or create, all of it under mu.
LimiterFor(c) ==
  /\ stage[c] = "global passed"
  /\ perSubject' = IF perSubject[SubjectOf[c]] = NoLimiter
                   THEN [perSubject EXCEPT ![SubjectOf[c]] = c]
                   ELSE perSubject
  /\ limiter' = [limiter EXCEPT ![c] = perSubject'[SubjectOf[c]]]
  /\ GoTo(c, "limiter found")
  /\ UNCHANGED <<bucket, global, inflight, clock, mark, took>>

\* Variant: Reserve() for Allow(), and the reservation of a call that is
\* rejected is not cancelled.
SubjectReserve(c) ==
  /\ stage[c] = "limiter found"
  /\ bucket' = [bucket EXCEPT ![limiter[c]] = @ - Cost]
  /\ \/ /\ bucket[limiter[c]] >= Cost
        /\ took' = [took EXCEPT ![c] = @ \cup {"subject"}]
        /\ GoTo(c, "subject passed")
     \/ /\ bucket[limiter[c]] < Cost
        /\ GoTo(c, "rejected")
        /\ UNCHANGED took
  /\ UNCHANGED <<perSubject, limiter, global, inflight, clock, mark>>

\* The subject's Allow() and the return of errSubjectRate.
SubjectAllow(c) ==
  /\ stage[c] = "limiter found"
  /\ \/ /\ bucket[limiter[c]] >= Cost
        /\ bucket' = [bucket EXCEPT ![limiter[c]] = @ - Cost]
        /\ took' = [took EXCEPT ![c] = @ \cup {"subject"}]
        /\ GoTo(c, "subject passed")
     \/ /\ bucket[limiter[c]] < Cost
        /\ GoTo(c, "rejected")
        /\ UNCHANGED <<bucket, took>>
  /\ UNCHANGED <<perSubject, limiter, global, inflight, clock, mark>>

\* inflight.TryAcquire(1) and the return of errInflight.
TryAcquire(c) ==
  /\ stage[c] = "subject passed"
  /\ \/ /\ inflight < MaxInflight
        /\ inflight' = inflight + 1
        /\ GoTo(c, "running")
     \/ /\ inflight >= MaxInflight
        /\ GoTo(c, "rejected")
        /\ UNCHANGED inflight
  /\ UNCHANGED <<perSubject, limiter, bucket, global, clock, mark, took>>

\* Variant: the slot is freed on success only.
ReturnKeepsSlot(c) ==
  /\ stage[c] = "running"
  /\ \E failed \in BOOLEAN :
       inflight' = IF failed THEN inflight ELSE inflight - 1
  /\ GoTo(c, "answered")
  /\ UNCHANGED <<perSubject, limiter, bucket, global, clock, mark, took>>

\* The handler is through, well or badly: the deferred release runs.
Return(c) ==
  /\ stage[c] = "running"
  /\ inflight' = inflight - 1
  /\ GoTo(c, "answered")
  /\ UNCHANGED <<perSubject, limiter, bucket, global, clock, mark, took>>

\* Time passes, every bucket refills up to its burst.
Tick ==
  /\ clock < MaxClock
  /\ clock' = clock + 1
  /\ global' = Lower(GlobalBurst, global + GlobalRate)
  /\ bucket' = [c \in Calls |-> Lower(SubjectBurst, bucket[c] + SubjectRate)]
  /\ UNCHANGED <<stage, perSubject, limiter, inflight, mark, took>>

\* Observation only: a new window begins, at any time.
Mark ==
  /\ mark' = clock
  /\ took' = [c \in Calls |-> {}]
  /\ UNCHANGED <<stage, perSubject, limiter, bucket, global, inflight, clock>>

Step(c) ==
  \/ Middleware(c) \/ GlobalAllow(c) \/ LimiterFor(c)
  \/ SubjectAllow(c) \/ TryAcquire(c) \/ Return(c)

Next == (\E c \in Calls : Step(c)) \/ Tick \/ Mark

Spec == Init /\ [][Next]_vars

-----------------------------------------------------------------------------
\* Every bucket stays between empty and its burst, and a limiter is one that
\* a call has made.
TypeOK ==
  /\ stage \in [Calls -> Stages]
  /\ perSubject \in [Subjects -> Calls \cup {NoLimiter}]
  /\ limiter \in [Calls -> Calls \cup {NoLimiter}]
  /\ bucket \in [Calls -> 0 .. SubjectBurst]
  /\ global \in 0 .. GlobalBurst
  /\ inflight \in Nat
  /\ clock \in Nat
  /\ mark \in 0 .. clock
  /\ took \in [Calls -> SUBSET Gates]

Running == {c \in Calls : stage[c] = "running"}

\* The slots in use are those of the calls running, no more than allowed:
\* no path through acquire, the handler and release loses or invents one.
SlotsMatchRunning ==
  inflight = Cardinality(Running) /\ inflight <= MaxInflight

PassedGlobal == {c \in Calls : "global" \in took[c]}
PassedOf(s) == {c \in Calls : SubjectOf[c] = s /\ "subject" \in took[c]}

\* In any window of time the global gate lets through no more than its
\* burst and what accrued meanwhile.
GlobalRateHolds ==
  Cost * Cardinality(PassedGlobal) <= GlobalBurst + GlobalRate * (clock - mark)

\* The same for each subject, whatever calls of it raced to limiterFor.
SubjectRateHolds ==
  \A s \in Subjects :
    Cost * Cardinality(PassedOf(s)) <= SubjectBurst + SubjectRate * (clock - mark)
=============================================================================
