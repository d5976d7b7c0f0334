--------------------------- MODULE ToolCallProofs ---------------------------
(***************************************************************************)
(* Proofs about RateLimiter and ToolCall, for every finite set of calls,   *)
(* every rate, burst and number of slots.  First the gates by themselves;  *)
(* then whole calls: a call with its handler and its counters still goes   *)
(* through the gates as RateLimiter says, so what is proved of the gates   *)
(* holds of whole calls; and the counters agree with the calls.            *)
(***************************************************************************)
EXTENDS ToolCall, TLAPS, FiniteSetTheorems, SequenceTheorems

-----------------------------------------------------------------------------
(* The gates. *)

\* A call holds the limiter in force for its subject, and no other subject
\* uses that limiter.
LimitersArePrivate ==
  /\ \A c \in Calls : limiter[c] # NoLimiter =>
       limiter[c] = perSubject[SubjectOf[c]]
  /\ \A c \in Calls : stage[c] = "limiter found" => limiter[c] # NoLimiter
  /\ \A s \in Subjects : perSubject[s] # NoLimiter =>
       SubjectOf[perSubject[s]] = s

\* What went through the global gate and what is left never exceed what
\* there was and what accrued.
GlobalBudget ==
  global + Cost * Cardinality(PassedGlobal)
    <= GlobalBurst + GlobalRate * (clock - mark)

\* What a subject has left: a limiter that does not exist yet is full.
Left(s) == IF perSubject[s] = NoLimiter THEN SubjectBurst
           ELSE bucket[perSubject[s]]

\* The same for one subject.
SubjectBudget(s) ==
  Left(s) + Cost * Cardinality(PassedOf(s))
    <= SubjectBurst + SubjectRate * (clock - mark)

LimiterInv ==
  /\ TypeOK
  /\ LimitersArePrivate
  /\ SlotsMatchRunning
  /\ GlobalBudget
  /\ \A s \in Subjects : SubjectBudget(s)

-----------------------------------------------------------------------------
\* Sets of calls are finite and have a size.
LEMMA CallSetsFinite ==
  ASSUME NEW S, S \subseteq Calls
  PROVE  IsFiniteSet(S) /\ Cardinality(S) \in Nat
  BY FS_Subset, FS_CardinalityType, RateLimiterAssumption

\* One more call adds at most one to a count of calls.
LEMMA OneMore ==
  ASSUME NEW S, NEW T, NEW c, S \subseteq Calls, T \subseteq S \cup {c},
         c \in Calls
  PROVE  Cost * Cardinality(T) <= Cost * Cardinality(S) + Cost
<1>1. IsFiniteSet(S) /\ Cardinality(S) \in Nat
  BY CallSetsFinite
<1>2. IsFiniteSet(S \cup {c}) /\ Cardinality(S \cup {c}) \in Nat
  BY CallSetsFinite
<1>3. Cardinality(S \cup {c}) <= Cardinality(S) + 1
  BY <1>1, FS_AddElement
<1>4. Cardinality(T) <= Cardinality(S \cup {c})
  BY <1>2, FS_Subset
<1>5. Cardinality(T) \in Nat
  BY CallSetsFinite
<1>6. Cardinality(T) <= Cardinality(S) + 1
  BY <1>1, <1>2, <1>3, <1>4, <1>5
<1>7. \A m, n \in Nat, k \in Nat : m <= n + 1 => k * m <= k * n + k
  OBVIOUS
<1> QED
  BY <1>1, <1>5, <1>6, <1>7, RateLimiterAssumption

\* A product with a natural number grows with its other factor.
LEMMA AccruesNat ==
  ASSUME NEW rate \in Nat, NEW t \in Nat
  PROVE  rate * t \in Nat /\ rate * (t + 1) = rate * t + rate
  OBVIOUS

\* A window has seen no negative time.
LEMMA Window == TypeOK => clock - mark \in Nat
  BY DEF TypeOK

\* The initial states satisfy the invariant.
LEMMA LimiterInit == Init => LimiterInv
<1> SUFFICES ASSUME Init PROVE LimiterInv
  OBVIOUS
<1>1. TypeOK
  BY RateLimiterAssumption DEF Init, TypeOK, Stages, Gates
<1>2. LimitersArePrivate
  BY DEF Init, LimitersArePrivate
<1>3. Running = {} /\ PassedGlobal = {} /\ \A s \in Subjects : PassedOf(s) = {}
  BY DEF Init, Running, PassedGlobal, PassedOf
<1>4. Cardinality({}) = 0
  BY FS_EmptySet
<1>5. Cost * 0 = 0 /\ GlobalRate * (0 - 0) = 0 /\ SubjectRate * (0 - 0) = 0
  BY RateLimiterAssumption
<1>6. SlotsMatchRunning
  BY <1>3, <1>4, RateLimiterAssumption DEF Init, SlotsMatchRunning
<1>7. GlobalBudget
  BY <1>3, <1>4, <1>5, RateLimiterAssumption DEF Init, GlobalBudget
<1>8. ASSUME NEW s \in Subjects PROVE SubjectBudget(s)
  BY <1>3, <1>4, <1>5, RateLimiterAssumption DEF Init, SubjectBudget, Left
<1> QED
  BY <1>1, <1>2, <1>6, <1>7, <1>8 DEF LimiterInv

\* A move of one call keeps the type of stage and moves no other call.
LEMMA Move ==
  ASSUME TypeOK, NEW c \in Calls, NEW to \in Stages, GoTo(c, to)
  PROVE  /\ stage' \in [Calls -> Stages]
         /\ stage'[c] = to
         /\ \A d \in Calls \ {c} : stage'[d] = stage[d]
  BY DEF TypeOK, GoTo

\* Taking a token leaves a mark with the call and with no other.
LEMMA Take ==
  ASSUME TypeOK, NEW c \in Calls, NEW gate \in Gates,
         took' = [took EXCEPT ![c] = @ \cup {gate}]
  PROVE  /\ took' \in [Calls -> SUBSET Gates]
         /\ took'[c] = took[c] \cup {gate}
         /\ \A d \in Calls \ {c} : took'[d] = took[d]
  BY DEF TypeOK

\* A call that is sent to its limiter has one.
LEMMA HasLimiter ==
  ASSUME TypeOK, LimitersArePrivate, NEW c \in Calls,
         stage[c] = "limiter found"
  PROVE  limiter[c] \in Calls
<1>1. limiter[c] \in Calls \cup {NoLimiter}
  BY DEF TypeOK
<1>2. limiter[c] # NoLimiter
  BY DEF LimitersArePrivate
<1> QED
  BY <1>1, <1>2

\* A running call holds a slot.
LEMMA RunningHoldsSlot ==
  ASSUME SlotsMatchRunning, NEW c \in Calls, stage[c] = "running"
  PROVE  inflight \in Nat /\ inflight > 0
<1>1. c \in Running
  BY DEF Running
<1>2. IsFiniteSet(Running) /\ Cardinality(Running) \in Nat
  BY CallSetsFinite DEF Running
<1>3. Cardinality(Running) # 0
  BY <1>1, <1>2, FS_EmptySet
<1> QED
  BY <1>2, <1>3 DEF SlotsMatchRunning

\* Where each action sends its call.
LEMMA StepMoves ==
  ASSUME TypeOK, NEW c \in Calls, Step(c)
  PROVE  \E to \in Stages : GoTo(c, to)
<1>1. CASE Middleware(c)
  BY <1>1 DEF Middleware, Stages
<1>2. CASE GlobalAllow(c)
  BY <1>2 DEF GlobalAllow, Stages
<1>3. CASE LimiterFor(c)
  BY <1>3 DEF LimiterFor, Stages
<1>4. CASE SubjectAllow(c)
  BY <1>4 DEF SubjectAllow, Stages
<1>5. CASE TryAcquire(c)
  BY <1>5 DEF TryAcquire, Stages
<1>6. CASE Return(c)
  BY <1>6 DEF Return, Stages
<1> QED
  BY <1>1, <1>2, <1>3, <1>4, <1>5, <1>6 DEF Step

\* A call's step keeps the types.
LEMMA StepKeepsTypes ==
  ASSUME LimiterInv, NEW c \in Calls, Step(c)
  PROVE  TypeOK'
<1>0. TypeOK /\ LimitersArePrivate /\ SlotsMatchRunning
  BY DEF LimiterInv
<1>1. stage' \in [Calls -> Stages]
  BY <1>0, StepMoves, Move
<1>2. clock' = clock /\ mark' = mark
  BY DEF Step, Middleware, GlobalAllow, LimiterFor, SubjectAllow, TryAcquire,
         Return
<1>3. CASE Middleware(c)
  BY <1>0, <1>1, <1>2, <1>3 DEF Middleware, TypeOK
<1>4. CASE GlobalAllow(c)
  <2>1. global' \in 0 .. GlobalBurst
    <3>1. (global >= Cost /\ global' = global - Cost) \/ global' = global
      BY <1>4, Zenon DEF GlobalAllow
    <3> QED
      BY <1>0, <3>1, RateLimiterAssumption DEF TypeOK
  <2>2. took' \in [Calls -> SUBSET Gates]
    BY <1>0, <1>4, Take DEF GlobalAllow, Gates, TypeOK
  <2> QED
    BY <1>0, <1>1, <1>2, <1>4, <2>1, <2>2 DEF GlobalAllow, TypeOK
<1>5. CASE LimiterFor(c)
  <2>1. perSubject' \in [Subjects -> Calls \cup {NoLimiter}]
    BY <1>0, <1>5, RateLimiterAssumption DEF LimiterFor, TypeOK
  <2>2. limiter' \in [Calls -> Calls \cup {NoLimiter}]
    BY <1>0, <1>5, <2>1, RateLimiterAssumption DEF LimiterFor, TypeOK
  <2> QED
    BY <1>0, <1>1, <1>2, <1>5, <2>1, <2>2 DEF LimiterFor, TypeOK
<1>6. CASE SubjectAllow(c)
  <2>1. limiter[c] \in Calls
    BY <1>0, <1>6, HasLimiter DEF SubjectAllow
  <2>2. bucket' \in [Calls -> 0 .. SubjectBurst]
    <3>1. bucket[limiter[c]] \in 0 .. SubjectBurst
      BY <1>0, <2>1 DEF TypeOK
    <3>2. bucket[limiter[c]] >= Cost =>
            bucket[limiter[c]] - Cost \in 0 .. SubjectBurst
      BY <3>1, RateLimiterAssumption
    <3> QED
      BY <1>0, <1>6, <3>2 DEF SubjectAllow, TypeOK
  <2>3. took' \in [Calls -> SUBSET Gates]
    BY <1>0, <1>6, Take DEF SubjectAllow, Gates, TypeOK
  <2> QED
    BY <1>0, <1>1, <1>2, <1>6, <2>2, <2>3 DEF SubjectAllow, TypeOK
<1>7. CASE TryAcquire(c)
  <2>1. inflight' \in Nat
    <3>1. inflight' \in {inflight, inflight + 1}
      BY <1>7, Zenon DEF TryAcquire
    <3> QED
      BY <1>0, <3>1 DEF TypeOK
  <2> QED
    BY <1>0, <1>1, <1>2, <1>7, <2>1 DEF TryAcquire, TypeOK
<1>8. CASE Return(c)
  <2>1. inflight' \in Nat
    BY <1>0, <1>8, RunningHoldsSlot DEF Return
  <2> QED
    BY <1>0, <1>1, <1>2, <1>8, <2>1 DEF Return, TypeOK
<1> QED
  BY <1>3, <1>4, <1>5, <1>6, <1>7, <1>8 DEF Step

\* A call's step leaves each limiter with its own subject.
LEMMA StepKeepsLimiters ==
  ASSUME LimiterInv, NEW c \in Calls, Step(c)
  PROVE  LimitersArePrivate'
<1>0. TypeOK /\ LimitersArePrivate
  BY DEF LimiterInv
<1>1. CASE LimiterFor(c)
  <2>1. \A d \in Calls \ {c} : stage'[d] = stage[d]
    BY <1>0, <1>1, Move DEF LimiterFor, Stages
  <2>2. SubjectOf[c] \in Subjects /\ perSubject'[SubjectOf[c]] # NoLimiter
    BY <1>0, <1>1, RateLimiterAssumption DEF LimiterFor, TypeOK
  <2>3. \A s \in Subjects : perSubject[s] # NoLimiter =>
          perSubject'[s] = perSubject[s]
    BY <1>0, <1>1 DEF LimiterFor, TypeOK
  <2>4. limiter'[c] = perSubject'[SubjectOf[c]]
    BY <1>0, <1>1 DEF LimiterFor, TypeOK
  <2>5. \A d \in Calls \ {c} : limiter'[d] = limiter[d]
    BY <1>0, <1>1 DEF LimiterFor, TypeOK
  <2>6. \A s \in Subjects : perSubject'[s] # NoLimiter =>
          SubjectOf[perSubject'[s]] = s
    BY <1>0, <1>1, <2>2 DEF LimiterFor, TypeOK, LimitersArePrivate
  <2>7. \A d \in Calls : limiter'[d] # NoLimiter =>
          limiter'[d] = perSubject'[SubjectOf[d]]
    BY <1>0, <2>3, <2>4, <2>5, RateLimiterAssumption DEF LimitersArePrivate
  <2>8. \A d \in Calls : stage'[d] = "limiter found" =>
          limiter'[d] # NoLimiter
    BY <1>0, <2>1, <2>2, <2>4, <2>5 DEF LimitersArePrivate
  <2> QED
    BY <2>6, <2>7, <2>8 DEF LimitersArePrivate
<1>2. CASE \/ Middleware(c) \/ GlobalAllow(c) \/ SubjectAllow(c)
           \/ TryAcquire(c) \/ Return(c)
  <2>1. perSubject' = perSubject /\ limiter' = limiter
    BY <1>2 DEF Middleware, GlobalAllow, SubjectAllow, TryAcquire, Return
  <2>2. \E to \in Stages \ {"limiter found"} : GoTo(c, to)
    BY <1>2
    DEF Middleware, GlobalAllow, SubjectAllow, TryAcquire, Return, Stages
  <2>3. \A d \in Calls : stage'[d] = "limiter found" =>
          stage[d] = "limiter found"
    BY <1>0, <2>2, Move
  <2> QED
    BY <1>0, <2>1, <2>3 DEF LimitersArePrivate
<1> QED
  BY <1>1, <1>2 DEF Step

\* A call's step keeps slots and running calls in line.
LEMMA StepKeepsSlots ==
  ASSUME LimiterInv, NEW c \in Calls, Step(c)
  PROVE  SlotsMatchRunning'
<1>0. TypeOK /\ SlotsMatchRunning
  BY DEF LimiterInv
<1>1. IsFiniteSet(Running) /\ Cardinality(Running) \in Nat
  BY CallSetsFinite DEF Running
<1>2. CASE TryAcquire(c) /\ inflight < MaxInflight
  <2>0. ~(inflight >= MaxInflight)
    BY <1>0, <1>2, RateLimiterAssumption DEF TypeOK
  <2>1. GoTo(c, "running") /\ inflight' = inflight + 1
    BY <1>2, <2>0 DEF TryAcquire
  <2>2. c \notin Running
    BY <1>2 DEF TryAcquire, Running
  <2>3. Running' = Running \cup {c}
    BY <1>0, <2>1, Move DEF Running, Stages
  <2>4. Cardinality(Running \cup {c}) = Cardinality(Running) + 1
    BY <1>1, <2>2, FS_AddElement
  <2> QED
    BY <1>0, <1>1, <1>2, <2>1, <2>3, <2>4, RateLimiterAssumption
    DEF SlotsMatchRunning
<1>3. CASE Return(c)
  <2>1. GoTo(c, "answered") /\ inflight' = inflight - 1
    BY <1>3 DEF Return
  <2>2. c \in Running
    BY <1>3 DEF Return, Running
  <2>3. Running' = Running \ {c}
    BY <1>0, <2>1, Move DEF Running, Stages
  <2>4. Cardinality(Running \ {c}) = Cardinality(Running) - 1
    BY <1>1, <2>2, FS_RemoveElement
  <2> QED
    BY <1>0, <1>1, <2>1, <2>3, <2>4, RateLimiterAssumption
    DEF SlotsMatchRunning
<1>4. CASE \/ Middleware(c) \/ GlobalAllow(c) \/ LimiterFor(c)
           \/ SubjectAllow(c)
           \/ (TryAcquire(c) /\ ~(inflight < MaxInflight))
  <2>1. inflight' = inflight /\ stage[c] # "running"
    BY <1>4 DEF Middleware, GlobalAllow, LimiterFor, SubjectAllow, TryAcquire
  <2>2. \E to \in Stages \ {"running"} : GoTo(c, to)
    BY <1>4
    DEF Middleware, GlobalAllow, LimiterFor, SubjectAllow, TryAcquire, Stages
  <2>3. Running' = Running
    BY <1>0, <2>1, <2>2, Move DEF Running
  <2> QED
    BY <1>0, <2>1, <2>3 DEF SlotsMatchRunning
<1>5. CASE TryAcquire(c)
  BY <1>2, <1>4, <1>5
<1> QED
  BY <1>3, <1>4, <1>5 DEF Step

\* Spending what is left on one more call keeps within a budget.
LEMMA Spend ==
  ASSUME NEW S, NEW T, NEW c \in Calls, S \subseteq Calls, T \subseteq Calls,
         T \subseteq S \cup {c},
         NEW left \in Nat, NEW budget \in Int,
         left + Cost * Cardinality(S) <= budget
  PROVE  left - Cost + Cost * Cardinality(T) <= budget
<1>1. Cardinality(S) \in Nat /\ Cardinality(T) \in Nat
  BY CallSetsFinite
<1>2. Cost * Cardinality(T) <= Cost * Cardinality(S) + Cost
  BY OneMore
<1>3. Cost * Cardinality(S) \in Nat /\ Cost * Cardinality(T) \in Nat
  BY <1>1, RateLimiterAssumption
<1> QED
  BY <1>2, <1>3, RateLimiterAssumption

\* Budgets are integers.
LEMMA BudgetsAreIntegers ==
  ASSUME TypeOK
  PROVE  /\ GlobalBurst + GlobalRate * (clock - mark) \in Int
         /\ SubjectBurst + SubjectRate * (clock - mark) \in Int
<1>1. clock - mark \in Nat
  BY DEF TypeOK
<1> QED
  BY <1>1, RateLimiterAssumption

\* A call's step spends only global quota there is.
LEMMA StepKeepsGlobalBudget ==
  ASSUME LimiterInv, NEW c \in Calls, Step(c)
  PROVE  GlobalBudget'
<1>0. TypeOK /\ GlobalBudget
  BY DEF LimiterInv
<1>1. clock' = clock /\ mark' = mark
  BY DEF Step, Middleware, GlobalAllow, LimiterFor, SubjectAllow, TryAcquire,
         Return
<1>2. ASSUME global' = global, PassedGlobal' = PassedGlobal
      PROVE  GlobalBudget'
  BY <1>0, <1>1, <1>2 DEF GlobalBudget
<1>3. CASE GlobalAllow(c)
  <2>1. CASE /\ global' = global - Cost
             /\ took' = [took EXCEPT ![c] = @ \cup {"global"}]
    <3>1. PassedGlobal' \subseteq PassedGlobal \cup {c}
      BY <1>0, <2>1, Take DEF PassedGlobal, Gates
    <3>2. PassedGlobal \subseteq Calls /\ PassedGlobal' \subseteq Calls
      BY DEF PassedGlobal
    <3>3. global \in Nat
      BY <1>0 DEF TypeOK
    <3>4. global - Cost + Cost * Cardinality(PassedGlobal')
            <= GlobalBurst + GlobalRate * (clock - mark)
      BY <1>0, <3>1, <3>2, <3>3, BudgetsAreIntegers, Spend DEF GlobalBudget
    <3> QED
      BY <1>1, <2>1, <3>4 DEF GlobalBudget
  <2>2. CASE UNCHANGED <<global, took>>
    BY <1>2, <2>2 DEF PassedGlobal
  <2> QED
    BY <1>3, <2>1, <2>2 DEF GlobalAllow
<1>4. CASE SubjectAllow(c)
  <2>1. \/ took' = [took EXCEPT ![c] = @ \cup {"subject"}]
        \/ took' = took
    BY <1>4, Zenon DEF SubjectAllow
  <2>2. PassedGlobal' = PassedGlobal
    BY <1>0, <2>1, Take DEF PassedGlobal, Gates
  <2>3. global' = global
    BY <1>4 DEF SubjectAllow
  <2> QED
    BY <1>2, <2>2, <2>3
<1>5. CASE Middleware(c) \/ LimiterFor(c) \/ TryAcquire(c) \/ Return(c)
  <2>1. UNCHANGED <<global, took>>
    BY <1>5 DEF Middleware, LimiterFor, TryAcquire, Return
  <2> QED
    BY <1>2, <2>1 DEF PassedGlobal
<1> QED
  BY <1>3, <1>4, <1>5 DEF Step

\* A call's step spends only quota its own subject has.
LEMMA StepKeepsSubjectBudget ==
  ASSUME LimiterInv, NEW c \in Calls, Step(c), NEW s \in Subjects
  PROVE  SubjectBudget(s)'
<1>0. TypeOK /\ LimitersArePrivate /\ SubjectBudget(s)
  BY DEF LimiterInv
<1>1. clock' = clock /\ mark' = mark
  BY DEF Step, Middleware, GlobalAllow, LimiterFor, SubjectAllow, TryAcquire,
         Return
<1>2. Left(s) \in 0 .. SubjectBurst
  BY <1>0, RateLimiterAssumption DEF Left, TypeOK
<1>3. PassedOf(s) \subseteq Calls /\ PassedOf(s)' \subseteq Calls
  BY DEF PassedOf
<1>4. ASSUME Left(s)' \in Nat, Left(s)' <= Left(s), PassedOf(s)' = PassedOf(s)
      PROVE  SubjectBudget(s)'
  <2>1. Cost * Cardinality(PassedOf(s)) \in Nat
    BY <1>3, CallSetsFinite, RateLimiterAssumption
  <2> QED
    BY <1>0, <1>1, <1>2, <1>4, <2>1, BudgetsAreIntegers DEF SubjectBudget
<1>5. CASE SubjectAllow(c)
  <2>1. limiter[c] \in Calls /\ limiter[c] = perSubject[SubjectOf[c]]
    BY <1>0, <1>5, HasLimiter, RateLimiterAssumption
    DEF SubjectAllow, LimitersArePrivate
  <2>2. perSubject' = perSubject
    BY <1>5 DEF SubjectAllow
  <2>3. CASE /\ bucket' = [bucket EXCEPT ![limiter[c]] = @ - Cost]
             /\ took' = [took EXCEPT ![c] = @ \cup {"subject"}]
    <3>1. CASE s = SubjectOf[c]
      <4>1. Left(s) = bucket[limiter[c]]
        BY <2>1, <3>1, RateLimiterAssumption DEF Left
      <4>2. bucket'[limiter[c]] = bucket[limiter[c]] - Cost
        BY <1>0, <2>1, <2>3 DEF TypeOK
      <4>3. Left(s)' = Left(s) - Cost
        BY <2>1, <2>2, <3>1, <4>1, <4>2, RateLimiterAssumption DEF Left
      <4>4. PassedOf(s)' \subseteq PassedOf(s) \cup {c}
        BY <1>0, <2>3, Take DEF PassedOf, Gates
      <4>5. Left(s) - Cost + Cost * Cardinality(PassedOf(s)')
              <= SubjectBurst + SubjectRate * (clock - mark)
        BY <1>0, <1>2, <1>3, <4>4, BudgetsAreIntegers, Spend DEF SubjectBudget
      <4> QED
        BY <1>1, <4>3, <4>5 DEF SubjectBudget
    <3>2. CASE s # SubjectOf[c]
      <4>1. perSubject[s] # NoLimiter =>
              /\ perSubject[s] \in Calls
              /\ perSubject[s] # limiter[c]
        <5>1. perSubject[s] \in Calls \cup {NoLimiter}
          BY <1>0 DEF TypeOK
        <5>2. perSubject[s] # NoLimiter => SubjectOf[perSubject[s]] = s
          BY <1>0 DEF LimitersArePrivate
        <5>3. SubjectOf[limiter[c]] = SubjectOf[c]
          <6>1. SubjectOf[c] \in Subjects
            BY RateLimiterAssumption
          <6> QED
            BY <1>0, <2>1, <6>1, RateLimiterAssumption DEF LimitersArePrivate
        <5> QED
          BY <3>2, <5>1, <5>2, <5>3
      <4>2. Left(s)' = Left(s)
        BY <1>0, <2>1, <2>2, <2>3, <4>1 DEF Left, TypeOK
      <4>3. PassedOf(s)' = PassedOf(s)
        BY <1>0, <2>3, <3>2, Take DEF PassedOf, Gates
      <4> QED
        BY <1>2, <1>4, <4>2, <4>3
    <3> QED
      BY <3>1, <3>2
  <2>4. CASE UNCHANGED <<bucket, took>>
    <3>1. Left(s)' = Left(s) /\ PassedOf(s)' = PassedOf(s)
      BY <2>2, <2>4 DEF Left, PassedOf
    <3> QED
      BY <1>2, <1>4, <3>1
  <2> QED
    BY <1>5, <2>3, <2>4 DEF SubjectAllow
<1>6. CASE GlobalAllow(c)
  <2>1. \/ took' = [took EXCEPT ![c] = @ \cup {"global"}]
        \/ took' = took
    BY <1>6, Zenon DEF GlobalAllow
  <2>2. PassedOf(s)' = PassedOf(s)
    BY <1>0, <2>1, Take DEF PassedOf, Gates
  <2>3. Left(s)' = Left(s)
    BY <1>6 DEF GlobalAllow, Left
  <2> QED
    BY <1>2, <1>4, <2>2, <2>3
<1>7. CASE LimiterFor(c)
  <2>1. PassedOf(s)' = PassedOf(s)
    BY <1>7 DEF LimiterFor, PassedOf
  <2>2. Left(s)' \in 0 .. SubjectBurst /\ Left(s)' <= Left(s)
    <3>1. CASE perSubject'[s] = perSubject[s]
      <4>1. bucket' = bucket
        BY <1>7 DEF LimiterFor
      <4>2. Left(s)' = Left(s)
        BY <3>1, <4>1 DEF Left
      <4> QED
        BY <1>2, <4>2
    <3>2. CASE perSubject'[s] # perSubject[s]
      <4>1. s = SubjectOf[c] /\ perSubject[s] = NoLimiter
        BY <1>0, <1>7, <3>2 DEF LimiterFor, TypeOK
      <4>2. perSubject'[s] = c /\ bucket' = bucket
        BY <1>0, <1>7, <4>1 DEF LimiterFor, TypeOK
      <4>3. Left(s) = SubjectBurst /\ Left(s)' = bucket[c]
        BY <4>1, <4>2, RateLimiterAssumption DEF Left
      <4> QED
        BY <1>0, <4>3, RateLimiterAssumption DEF TypeOK
    <3> QED
      BY <3>1, <3>2
  <2> QED
    BY <1>4, <2>1, <2>2
<1>8. CASE Middleware(c) \/ TryAcquire(c) \/ Return(c)
  <2>1. Left(s)' = Left(s) /\ PassedOf(s)' = PassedOf(s)
    BY <1>8 DEF Middleware, TryAcquire, Return, Left, PassedOf
  <2> QED
    BY <1>2, <1>4, <2>1
<1> QED
  BY <1>5, <1>6, <1>7, <1>8 DEF Step

\* The passing of time keeps the invariant: budgets grow as buckets refill.
LEMMA TickKeepsInv ==
  ASSUME LimiterInv, Tick
  PROVE  LimiterInv'
<1>0. /\ TypeOK /\ LimitersArePrivate /\ SlotsMatchRunning /\ GlobalBudget
      /\ \A s \in Subjects : SubjectBudget(s)
  BY DEF LimiterInv
<1>1. TypeOK'
  BY <1>0, RateLimiterAssumption DEF Tick, TypeOK, Lower
<1>2. LimitersArePrivate' /\ SlotsMatchRunning'
  BY <1>0 DEF Tick, LimitersArePrivate, SlotsMatchRunning, Running
<1>3. /\ clock' = clock + 1 /\ mark' = mark
      /\ clock - mark \in Nat
      /\ clock' - mark' = (clock - mark) + 1
  BY <1>0 DEF Tick, TypeOK
<1>4. GlobalBudget'
  <2>1. GlobalRate * (clock' - mark') = GlobalRate * (clock - mark) + GlobalRate
    BY <1>3, AccruesNat, RateLimiterAssumption
  <2>2. PassedGlobal' = PassedGlobal
    BY DEF Tick, PassedGlobal
  <2>3. global' \in Nat /\ global \in Nat /\ global' <= global + GlobalRate
    BY <1>0, RateLimiterAssumption DEF Tick, Lower, TypeOK
  <2>4. Cost * Cardinality(PassedGlobal) \in Nat
    <3>1. Cardinality(PassedGlobal) \in Nat
      BY CallSetsFinite DEF PassedGlobal
    <3> QED
      BY <3>1, RateLimiterAssumption
  <2>5. GlobalRate * (clock - mark) \in Nat
    BY <1>3, AccruesNat, RateLimiterAssumption
  <2> QED
    BY <1>0, <2>1, <2>2, <2>3, <2>4, <2>5, RateLimiterAssumption
    DEF GlobalBudget
<1>5. ASSUME NEW s \in Subjects
      PROVE  SubjectBudget(s)'
  <2>1. SubjectRate * (clock' - mark') = SubjectRate * (clock - mark) + SubjectRate
    BY <1>3, AccruesNat, RateLimiterAssumption
  <2>2. PassedOf(s)' = PassedOf(s)
    BY DEF Tick, PassedOf
  <2>3. Left(s)' \in Nat /\ Left(s) \in Nat /\ Left(s)' <= Left(s) + SubjectRate
    BY <1>0, RateLimiterAssumption DEF Tick, Left, Lower, TypeOK
  <2>4. Cost * Cardinality(PassedOf(s)) \in Nat
    <3>1. Cardinality(PassedOf(s)) \in Nat
      BY CallSetsFinite DEF PassedOf
    <3> QED
      BY <3>1, RateLimiterAssumption
  <2>5. SubjectRate * (clock - mark) \in Nat
    BY <1>3, AccruesNat, RateLimiterAssumption
  <2> QED
    BY <1>0, <2>1, <2>2, <2>3, <2>4, <2>5, RateLimiterAssumption
    DEF SubjectBudget
<1> QED
  BY <1>1, <1>2, <1>4, <1>5 DEF LimiterInv

\* A new window starts with nothing spent.
LEMMA MarkKeepsInv ==
  ASSUME LimiterInv, Mark
  PROVE  LimiterInv'
<1>0. TypeOK /\ LimitersArePrivate /\ SlotsMatchRunning
  BY DEF LimiterInv
<1>1. TypeOK'
  BY <1>0 DEF Mark, TypeOK
<1>2. LimitersArePrivate' /\ SlotsMatchRunning'
  BY <1>0 DEF Mark, LimitersArePrivate, SlotsMatchRunning, Running
<1>3. /\ PassedGlobal' = {} /\ \A s \in Subjects : PassedOf(s)' = {}
      /\ Cardinality({}) = 0
  BY FS_EmptySet DEF Mark, PassedGlobal, PassedOf
<1>4. clock' - mark' = 0
  BY <1>0 DEF Mark, TypeOK
<1>5. Cost * 0 = 0 /\ GlobalRate * 0 = 0 /\ SubjectRate * 0 = 0
  BY RateLimiterAssumption
<1>6. GlobalBudget'
  BY <1>1, <1>3, <1>4, <1>5, RateLimiterAssumption DEF GlobalBudget, TypeOK
<1>7. ASSUME NEW s \in Subjects
      PROVE  SubjectBudget(s)'
  <2>1. Left(s)' \in 0 .. SubjectBurst
    BY <1>1, RateLimiterAssumption DEF Left, TypeOK
  <2>2. Cost * Cardinality(PassedOf(s)') = 0
    BY <1>3, <1>5
  <2>3. SubjectRate * (clock' - mark') = 0
    BY <1>4, <1>5
  <2> QED
    BY <2>1, <2>2, <2>3, RateLimiterAssumption DEF SubjectBudget
<1> QED
  BY <1>1, <1>2, <1>6, <1>7 DEF LimiterInv

\* LimiterInv holds in every reachable state.
THEOREM LimiterInvariant == Spec => []LimiterInv
<1>1. LimiterInv /\ [Next]_vars => LimiterInv'
  <2> SUFFICES ASSUME LimiterInv, [Next]_vars
               PROVE  LimiterInv'
    OBVIOUS
  <2>1. ASSUME NEW c \in Calls, Step(c)
        PROVE  LimiterInv'
    BY <2>1, StepKeepsTypes, StepKeepsLimiters, StepKeepsSlots,
       StepKeepsGlobalBudget, StepKeepsSubjectBudget
    DEF LimiterInv
  <2>2. CASE UNCHANGED vars
    BY <2>2
    DEF vars, LimiterInv, TypeOK, LimitersArePrivate, SlotsMatchRunning,
        Running, GlobalBudget, PassedGlobal, SubjectBudget, PassedOf, Left
  <2> QED
    BY <2>1, <2>2, TickKeepsInv, MarkKeepsInv DEF Next
<1> QED
  BY LimiterInit, <1>1, PTL DEF Spec

-----------------------------------------------------------------------------
\* All bookkeeping keeps its types; no bucket goes below empty.
THEOREM LimiterTypes == Spec => []TypeOK
  BY LimiterInvariant, PTL DEF LimiterInv

\* Slots in use and running calls agree and respect MaxInflight.
THEOREM SlotsNeverLeak == Spec => []SlotsMatchRunning
  BY LimiterInvariant, PTL DEF LimiterInv

\* The global rate holds over every window.
THEOREM GlobalRateIsHeld == Spec => []GlobalRateHolds
<1>1. LimiterInv => GlobalRateHolds
  <2> SUFFICES ASSUME LimiterInv PROVE GlobalRateHolds
    OBVIOUS
  <2>1. TypeOK /\ GlobalBudget
    BY DEF LimiterInv
  <2>2. Cardinality(PassedGlobal) \in Nat
    BY CallSetsFinite DEF PassedGlobal
  <2>3. Cost * Cardinality(PassedGlobal) \in Nat
    BY <2>2, RateLimiterAssumption
  <2>4. global \in Nat
    BY <2>1 DEF TypeOK
  <2> QED
    BY <2>1, <2>3, <2>4, BudgetsAreIntegers DEF GlobalBudget, GlobalRateHolds
<1> QED
  BY <1>1, LimiterInvariant, PTL

\* Each subject's rate holds over every window.
THEOREM SubjectRateIsHeld == Spec => []SubjectRateHolds
<1>1. LimiterInv => SubjectRateHolds
  <2> SUFFICES ASSUME LimiterInv, NEW s \in Subjects
               PROVE  Cost * Cardinality(PassedOf(s))
                        <= SubjectBurst + SubjectRate * (clock - mark)
    BY DEF SubjectRateHolds
  <2>1. TypeOK /\ SubjectBudget(s)
    BY DEF LimiterInv
  <2>2. Cardinality(PassedOf(s)) \in Nat
    BY CallSetsFinite DEF PassedOf
  <2>3. Cost * Cardinality(PassedOf(s)) \in Nat
    BY <2>2, RateLimiterAssumption
  <2>4. Left(s) \in Nat
    BY <2>1, RateLimiterAssumption DEF Left, TypeOK
  <2> QED
    BY <2>1, <2>3, <2>4, BudgetsAreIntegers DEF SubjectBudget
<1> QED
  BY <1>1, LimiterInvariant, PTL
-----------------------------------------------------------------------------
(* Whole calls. *)

\* Only recorded calls are in the log, and a call without a handler has no
\* report: what an action rewrites, no count rests on.
LogIsPast ==
  /\ \A i \in 1 .. Len(log) : work[log[i]] = "recorded"
  /\ \A c \in Calls : work[c] = "none" => report[c] = NoReport

StatsInv ==
  /\ StatsTypeOK
  /\ LogIsPast
  /\ CountsMatchCalls
  /\ ReportsAreMoments

-----------------------------------------------------------------------------
\* Every step of a call is a step of the limiter or none.
LEMMA StepsAreLimiterSteps == [CallNext]_callVars => [Next]_vars
<1> SUFFICES ASSUME [CallNext]_callVars PROVE [Next]_vars
  OBVIOUS
<1>1. ASSUME NEW c \in Calls, CallStep(c)
      PROVE  [Next]_vars
  <2>1. CASE Gates3(c)
    BY <2>1 DEF Gates3, Next, Step
  <2>2. CASE Release(c)
    BY <2>2 DEF Release, Next, Step
  <2>3. CASE Dispatch(c) \/ RuntimeStatsSnapshot(c) \/ LogToolEnd(c)
               \/ RecordToolCall(c)
    BY <2>3, Zenon
    DEF Dispatch, RuntimeStatsSnapshot, LogToolEnd, RecordToolCall
  <2> QED
    BY <1>1, <2>1, <2>2, <2>3 DEF CallStep
<1>2. CASE (Tick \/ Mark) /\ UNCHANGED statsVars
  BY <1>2 DEF Next
<1>3. CASE UNCHANGED callVars
  BY <1>3 DEF callVars
<1> QED
  BY <1>1, <1>2, <1>3 DEF CallNext

\* ToolCall implements RateLimiter: whatever handlers do, the gates are
\* passed, and left, as the limiter's specification says.
THEOREM CallsObeyLimiter == CallSpec => Spec
<1>1. CallInit => Init
  BY DEF CallInit
<1> QED
  BY <1>1, StepsAreLimiterSteps, PTL DEF CallSpec, Spec

\* So the slots and the two rates hold with the handlers running.
THEOREM CallsKeepSlots == CallSpec => []SlotsMatchRunning
  BY CallsObeyLimiter, SlotsNeverLeak, PTL

THEOREM CallsKeepRates == CallSpec => [](GlobalRateHolds /\ SubjectRateHolds)
  BY CallsObeyLimiter, GlobalRateIsHeld, SubjectRateIsHeld, PTL

-----------------------------------------------------------------------------
\* Positions in the log are finitely many.
LEMMA PositionsFinite ==
  ASSUME NEW n \in Nat, NEW S, S \subseteq 1 .. n
  PROVE  IsFiniteSet(S) /\ Cardinality(S) \in Nat
<1>1. IsFiniteSet(1 .. n)
  BY FS_Interval
<1>2. IsFiniteSet(S)
  BY <1>1, FS_Subset
<1> QED
  BY <1>2, FS_CardinalityType

\* The initial counters show the empty log.
LEMMA StatsInit == CallInit => StatsInv
<1> SUFFICES ASSUME CallInit PROVE StatsInv
  OBVIOUS
<1>1. Len(log) = 0 /\ 1 .. 0 = {} /\ log \in Seq(Calls)
  BY DEF CallInit
<1>2. StatsTypeOK
  <2>1. NoOutcome \in Outcomes
    BY DEF NoOutcome, Outcomes, Kinds
  <2>2. NoCalls \in Entries
    BY <2>1 DEF NoCalls, Entries
  <2> QED
    BY <1>1, <2>1, <2>2 DEF CallInit, StatsTypeOK, Progress
<1>3. LogIsPast
  BY <1>1 DEF CallInit, LogIsPast
<1>4. Recorded = {}
  BY DEF CallInit, Recorded
<1>5. CountsMatchCalls
  <2>1. Cardinality({}) = 0
    BY FS_EmptySet
  <2>2. ASSUME NEW t \in Tools
        PROVE  Shows(byTool[t], t, Len(log))
    <3>1. EndedOf(t, Len(log)) = {} /\ FailedOf(t, Len(log)) = {}
      BY <1>1 DEF EndedOf, FailedOf
    <3> QED
      BY <2>1, <3>1 DEF Shows, CallInit, NoCalls
  <2> QED
    BY <1>1, <1>4, <2>1, <2>2 DEF CountsMatchCalls
<1>6. ReportsAreMoments
  BY DEF CallInit, ReportsAreMoments
<1> QED
  BY <1>2, <1>3, <1>5, <1>6 DEF StatsInv

\* What was recorded stays as it was, so the first n calls go on showing the
\* same counts.
LEMMA PastStands ==
  ASSUME NEW n \in Nat, NEW t \in Tools,
         \A i \in 1 .. n : log'[i] = log[i],
         \A i \in 1 .. n : outcome'[log[i]] = outcome[log[i]]
  PROVE  /\ EndedOf(t, n)' = EndedOf(t, n)
         /\ FailedOf(t, n)' = FailedOf(t, n)
         /\ \A s : Shows(s, t, n) => Shows(s, t, n)'
<1>1. EndedOf(t, n)' = EndedOf(t, n)
  BY DEF EndedOf
<1>2. FailedOf(t, n)' = FailedOf(t, n)
  BY <1>1 DEF FailedOf, EndedOf
<1>3. \A i \in FailedOf(t, n) : outcome'[log'[i]] = outcome[log[i]]
  BY DEF FailedOf, EndedOf
<1> QED
  BY <1>1, <1>2, <1>3 DEF Shows

\* A step that leaves reports and the recorded calls alone keeps reports
\* true.
LEMMA ReportsStand ==
  ASSUME StatsInv, report' = report,
         \A c \in Calls : report[c] # NoReport => began'[c] = began[c],
         Len(log') \in Nat, Len(log) <= Len(log'),
         \A i \in 1 .. Len(log) : log'[i] = log[i],
         \A i \in 1 .. Len(log) : outcome'[log[i]] = outcome[log[i]]
  PROVE  ReportsAreMoments'
<1> SUFFICES ASSUME NEW c \in Calls, report[c] # NoReport
             PROVE  \E n \in began'[c] .. Len(log') :
                      /\ \A i \in 1 .. n : log'[i] # c
                      /\ \A t \in Tools : Shows(report[c][t], t, n)'
  BY DEF ReportsAreMoments
<1>0. StatsTypeOK
  BY DEF StatsInv
<1>1. PICK n \in began[c] .. Len(log) :
        /\ \A i \in 1 .. n : log[i] # c
        /\ \A t \in Tools : Shows(report[c][t], t, n)
  BY DEF StatsInv, ReportsAreMoments
<1>2. /\ n \in Nat /\ n <= Len(log) /\ n \in began'[c] .. Len(log')
      /\ 1 .. n \subseteq 1 .. Len(log)
  BY <1>0, <1>1 DEF StatsTypeOK
<1>3. \A t \in Tools : Shows(report[c][t], t, n)'
  <2>1. TAKE t \in Tools
  <2>2. \A s : Shows(s, t, n) => Shows(s, t, n)'
    BY <1>2, PastStands
  <2> QED
    BY <1>1, <2>2
<1> QED
  BY <1>1, <1>2, <1>3

-----------------------------------------------------------------------------
\* Calls on their way to the handler and time leave the counters alone.
LEMMA OthersKeepStats ==
  ASSUME StatsInv, UNCHANGED statsVars
  PROVE  StatsInv'
<1>1. StatsTypeOK'
  BY DEF StatsInv, StatsTypeOK, statsVars
<1>2. LogIsPast'
  BY DEF StatsInv, LogIsPast, statsVars
<1>3. CountsMatchCalls'
  BY DEF statsVars, StatsInv, CountsMatchCalls, Recorded, Shows, EndedOf, FailedOf
<1>4. ReportsAreMoments'
  <2>1. Len(log) \in Nat
    BY DEF StatsInv, StatsTypeOK
  <2> QED
    BY <2>1, ReportsStand DEF statsVars
<1> QED
  BY <1>1, <1>2, <1>3, <1>4, Zenon DEF StatsInv

\* A step that records nothing keeps the counts.
LEMMA CountsStand ==
  ASSUME StatsInv, log' = log, byTool' = byTool, Recorded' = Recorded,
         \A i \in 1 .. Len(log) : outcome'[log[i]] = outcome[log[i]]
  PROVE  CountsMatchCalls'
<1>1. Len(log) \in Nat
  BY DEF StatsInv, StatsTypeOK
<1>2. ASSUME NEW t \in Tools
      PROVE  Shows(byTool[t], t, Len(log))'
  <2>1. EndedOf(t, Len(log))' = EndedOf(t, Len(log))
    BY DEF EndedOf
  <2>2. FailedOf(t, Len(log))' = FailedOf(t, Len(log))
    BY <2>1 DEF FailedOf, EndedOf
  <2>3. Shows(byTool[t], t, Len(log))
    BY DEF StatsInv, CountsMatchCalls
  <2>4. \A i \in FailedOf(t, Len(log)) : outcome'[log[i]] = outcome[log[i]]
    BY DEF FailedOf, EndedOf
  <2> QED
    BY <2>1, <2>2, <2>3, <2>4 DEF Shows
<1>3. Len(log') = Cardinality(Recorded')
  BY DEF StatsInv, CountsMatchCalls
<1> QED
  BY <1>2, <1>3 DEF CountsMatchCalls, Shows, EndedOf, FailedOf

\* A call goes on to its handler, or is refused: nothing is counted.
LEMMA DispatchKeepsStats ==
  ASSUME StatsInv, NEW c \in Calls, Dispatch(c)
  PROVE  StatsInv'
<1>0. StatsTypeOK /\ LogIsPast
  BY DEF StatsInv
<1>1. PICK w \in {"handler", "refused"} : Advance(c, w)
  BY DEF Dispatch
<1>2. /\ work' \in [Calls -> Progress] /\ work'[c] \in {"handler", "refused"}
      /\ \A d \in Calls \ {c} : work'[d] = work[d]
  BY <1>0, <1>1 DEF Advance, StatsTypeOK, Progress
<1>3. report[c] = NoReport
  BY <1>0 DEF Dispatch, LogIsPast
<1>4. /\ began' \in [Calls -> 0 .. Len(log)]
      /\ \A d \in Calls \ {c} : began'[d] = began[d]
  BY <1>0 DEF Dispatch, StatsTypeOK
<1>5. /\ log' = log /\ report' = report /\ byTool' = byTool
      /\ outcome' = outcome
  BY DEF Dispatch
<1>6. StatsTypeOK'
  BY <1>0, <1>2, <1>4, <1>5 DEF StatsTypeOK
<1>7. LogIsPast'
  <2>1. \A i \in 1 .. Len(log) : log[i] \in Calls /\ log[i] # c
    BY <1>0, LenProperties DEF LogIsPast, Dispatch, StatsTypeOK
  <2> QED
    BY <1>0, <1>2, <1>3, <1>5, <2>1 DEF LogIsPast
<1>8. Recorded' = Recorded
  BY <1>2 DEF Recorded, Dispatch
<1>9. CountsMatchCalls'
  BY <1>5, <1>8, CountsStand
<1>10. Len(log) \in Nat
  BY <1>0 DEF StatsTypeOK
<1>11. \A d \in Calls : report[d] # NoReport => began'[d] = began[d]
  BY <1>3, <1>4
<1>12. ReportsAreMoments'
  BY <1>5, <1>10, <1>11, ReportsStand
<1> QED
  BY <1>6, <1>7, <1>9, <1>12 DEF StatsInv

\* A snapshot shows the log as it stands, which is not behind where it stood
\* when the handler began, and which does not have this call.
LEMMA SnapshotKeepsStats ==
  ASSUME StatsInv, NEW c \in Calls, RuntimeStatsSnapshot(c)
  PROVE  StatsInv'
<1>0. StatsTypeOK /\ LogIsPast
  BY DEF StatsInv
<1>1. /\ work' \in [Calls -> Progress] /\ work'[c] = "snapshot taken"
      /\ \A d \in Calls \ {c} : work'[d] = work[d]
  BY <1>0 DEF RuntimeStatsSnapshot, Advance, StatsTypeOK, Progress
<1>2. /\ log' = log /\ byTool' = byTool /\ outcome' = outcome
      /\ began' = began
  BY DEF RuntimeStatsSnapshot
<1>3. /\ report' \in [Calls -> [Tools -> Entries] \cup {NoReport}]
      /\ report'[c] = byTool
      /\ \A d \in Calls \ {c} : report'[d] = report[d]
  BY <1>0 DEF RuntimeStatsSnapshot, StatsTypeOK
<1>4. StatsTypeOK'
  BY <1>0, <1>1, <1>2, <1>3 DEF StatsTypeOK
<1>5. LogIsPast'
  <2>1. \A i \in 1 .. Len(log) : log[i] \in Calls /\ log[i] # c
    <3>1. \A i \in 1 .. Len(log) : log[i] \in Calls
      BY <1>0, LenProperties DEF StatsTypeOK
    <3> QED
      BY <1>0, <3>1 DEF LogIsPast, RuntimeStatsSnapshot
  <2> QED
    BY <1>0, <1>1, <1>2, <1>3, <2>1 DEF LogIsPast
<1>6. Recorded' = Recorded
  BY <1>1 DEF Recorded, RuntimeStatsSnapshot
<1>7. CountsMatchCalls'
  BY <1>2, <1>6, CountsStand
<1>8. ReportsAreMoments'
  <2> SUFFICES ASSUME NEW d \in Calls, report'[d] # NoReport
               PROVE  \E n \in began'[d] .. Len(log') :
                        /\ \A i \in 1 .. n : log'[i] # d
                        /\ \A t \in Tools : Shows(report[d][t], t, n)'
    BY DEF ReportsAreMoments
  <2>0. Len(log) \in Nat /\ began[d] \in Nat
    BY <1>0 DEF StatsTypeOK
  <2>1. PICK n \in began[d] .. Len(log) :
          /\ \A i \in 1 .. n : log[i] # d
          /\ \A t \in Tools : Shows(report'[d][t], t, n)
    <3>1. CASE d = c
      <4>1. Len(log) \in began[c] .. Len(log)
        BY <1>0 DEF StatsTypeOK
      <4>2. \A i \in 1 .. Len(log) : log[i] # c
        BY <1>0 DEF LogIsPast, RuntimeStatsSnapshot
      <4>3. \A t \in Tools : Shows(byTool[t], t, Len(log))
        BY DEF StatsInv, CountsMatchCalls
      <4> QED
        BY <1>3, <3>1, <4>1, <4>2, <4>3
    <3>2. CASE d # c
      BY <1>3, <3>2 DEF StatsInv, ReportsAreMoments
    <3> QED
      BY <3>1, <3>2
  <2>2. n \in Nat
    BY <2>0, <2>1
  <2>3. ASSUME NEW t \in Tools
        PROVE  Shows(report[d][t], t, n)'
    <3>1. \A s : Shows(s, t, n) => Shows(s, t, n)'
      BY <1>2, <2>2, PastStands
    <3> QED
      BY <2>1, <3>1
  <2> QED
    BY <1>2, <2>1, <2>3
<1> QED
  BY <1>4, <1>5, <1>7, <1>8 DEF StatsInv

\* A handler's end is noted with a call that is not recorded yet.
LEMMA EndKeepsStats ==
  ASSUME TypeOK, StatsInv, NEW c \in Calls, LogToolEnd(c)
  PROVE  StatsInv'
<1>0. StatsTypeOK /\ LogIsPast
  BY DEF StatsInv
<1>1. work[c] \in {"handler", "snapshot taken"}
  BY DEF LogToolEnd
<1>2. /\ work' \in [Calls -> Progress] /\ work'[c] = "ended"
      /\ \A d \in Calls \ {c} : work'[d] = work[d]
  BY <1>0 DEF LogToolEnd, Advance, StatsTypeOK, Progress
<1>3. /\ log' = log /\ byTool' = byTool /\ report' = report
      /\ began' = began
  BY DEF LogToolEnd
<1>4. PICK err \in {"none"} \cup CanFail[ToolOf[c]] :
        outcome' = [outcome EXCEPT ![c] = [kind |-> ClassifyErr(err),
                                           at |-> clock]]
  BY DEF LogToolEnd
<1>5. [kind |-> ClassifyErr(err), at |-> clock] \in Outcomes
  <2>1. ClassifyErr(err) \in Kinds
    BY DEF ClassifyErr, Kinds
  <2> QED
    BY <2>1 DEF Outcomes, TypeOK
<1>6. /\ outcome' \in [Calls -> Outcomes]
      /\ \A d \in Calls \ {c} : outcome'[d] = outcome[d]
  BY <1>0, <1>4, <1>5 DEF StatsTypeOK
<1>7. Len(log) \in Nat /\ \A i \in 1 .. Len(log) : log[i] \in Calls
  BY <1>0, LenProperties DEF StatsTypeOK
<1>8. \A i \in 1 .. Len(log) : log[i] # c
  BY <1>0, <1>1 DEF LogIsPast
<1>9. \A i \in 1 .. Len(log) : outcome'[log[i]] = outcome[log[i]]
  BY <1>6, <1>7, <1>8
<1>10. StatsTypeOK'
  BY <1>0, <1>2, <1>3, <1>6 DEF StatsTypeOK
<1>11. LogIsPast'
  BY <1>0, <1>2, <1>3, <1>7, <1>8 DEF LogIsPast
<1>12. Recorded' = Recorded
  BY <1>1, <1>2 DEF Recorded
<1>13. CountsMatchCalls'
  BY <1>3, <1>9, <1>12, CountsStand
<1>14. ReportsAreMoments'
  BY <1>3, <1>7, <1>9, ReportsStand
<1> QED
  BY <1>10, <1>11, <1>13, <1>14 DEF StatsInv

\* Recording a call counts it with its tool, and with no other.
LEMMA RecordCounts ==
  ASSUME StatsInv, NEW c \in Calls, RecordToolCall(c), NEW t \in Tools
  PROVE  Shows(byTool[t], t, Len(log))'
<1>0. StatsTypeOK
  BY DEF StatsInv
<1> DEFINE n == Len(log)
           E == EndedOf(t, n)
           F == FailedOf(t, n)
<1>1. /\ n \in Nat /\ log' \in Seq(Calls) /\ Len(log') = n + 1
      /\ log'[n + 1] = c /\ \A i \in 1 .. n : log'[i] = log[i]
  BY <1>0, LenProperties, AppendProperties DEF RecordToolCall, StatsTypeOK
<1>2. outcome' = outcome /\ ToolOf[c] \in Tools
  BY ToolCallAssumption DEF RecordToolCall
<1>3. /\ E \subseteq 1 .. n /\ F \subseteq 1 .. n
      /\ n + 1 \notin E /\ n + 1 \notin F
      /\ \A i \in F : i < n + 1
  <2>1. E \subseteq 1 .. n /\ F \subseteq E
    BY DEF EndedOf, FailedOf
  <2> HIDE DEF E, F
  <2> QED
    BY <1>1, <2>1
<1>4. /\ IsFiniteSet(E) /\ Cardinality(E \cup {n + 1}) = Cardinality(E) + 1
      /\ IsFiniteSet(F) /\ Cardinality(F \cup {n + 1}) = Cardinality(F) + 1
  <2>1. IsFiniteSet(E) /\ IsFiniteSet(F)
    BY <1>1, <1>3, PositionsFinite
  <2> QED
    BY <1>3, <2>1, FS_AddElement
<1>5. Shows(byTool[t], t, n)
  BY DEF StatsInv, CountsMatchCalls
<1>6. 1 .. (n + 1) = (1 .. n) \cup {n + 1}
  BY <1>1
<1>7. EndedOf(t, n)' = IF ToolOf[c] = t THEN E \cup {n + 1} ELSE E
  BY <1>1, <1>6 DEF EndedOf
<1>8. FailedOf(t, n)' =
        IF ToolOf[c] = t /\ outcome[c].kind # "" THEN F \cup {n + 1} ELSE F
  BY <1>1, <1>2, <1>7 DEF FailedOf, EndedOf
<1>9. /\ byTool'[ToolOf[c]] = Counted(byTool[ToolOf[c]], outcome[c])
      /\ \A u \in Tools \ {ToolOf[c]} : byTool'[u] = byTool[u]
  BY <1>0, <1>2 DEF RecordToolCall, StatsTypeOK
<1>10. \A i \in F : outcome'[log'[i]] = outcome[log[i]]
  BY <1>1, <1>2, <1>3
<1>11. CASE ToolOf[c] # t
  BY <1>1, <1>5, <1>7, <1>8, <1>9, <1>10, <1>11 DEF Shows
<1>12. CASE ToolOf[c] = t /\ outcome[c].kind = ""
  <2>1. byTool'[t] = [calls |-> byTool[t].calls + 1,
                      errors |-> byTool[t].errors, last |-> byTool[t].last]
    BY <1>9, <1>12 DEF Counted
  <2>2. /\ byTool'[t].calls = byTool[t].calls + 1
        /\ byTool'[t].errors = byTool[t].errors
        /\ byTool'[t].last = byTool[t].last
    BY <2>1
  <2>3. /\ byTool[t].calls = Cardinality(E) /\ byTool[t].errors = Cardinality(F)
        /\ F = {} => byTool[t].last = NoOutcome
        /\ \A i \in F : (\A j \in F : j <= i) =>
             byTool[t].last = outcome[log[i]]
    BY <1>5 DEF Shows
  <2>4. EndedOf(t, n)' = E \cup {n + 1} /\ FailedOf(t, n)' = F
    BY <1>7, <1>8, <1>12
  <2> HIDE DEF E, F
  <2> QED
    BY <1>4, <1>10, <2>2, <2>3, <2>4 DEF Shows
<1>13. CASE ToolOf[c] = t /\ outcome[c].kind # ""
  <2>1. byTool'[t] = [calls |-> byTool[t].calls + 1,
                      errors |-> byTool[t].errors + 1, last |-> outcome[c]]
    BY <1>9, <1>13 DEF Counted
  <2>2. \A i \in F \cup {n + 1} :
          (\A j \in F \cup {n + 1} : j <= i) => i = n + 1
    BY <1>1, <1>3
  <2>3. /\ byTool'[t].calls = byTool[t].calls + 1
        /\ byTool'[t].errors = byTool[t].errors + 1
        /\ byTool'[t].last = outcome[c]
    BY <2>1
  <2>4. byTool[t].calls = Cardinality(E) /\ byTool[t].errors = Cardinality(F)
    BY <1>5 DEF Shows
  <2>5. EndedOf(t, n)' = E \cup {n + 1} /\ FailedOf(t, n)' = F \cup {n + 1}
    BY <1>7, <1>8, <1>13
  <2>6. outcome'[log'[n + 1]] = outcome[c]
    BY <1>1, <1>2
  <2> HIDE DEF E, F
  <2> QED
    BY <1>4, <2>2, <2>3, <2>4, <2>5, <2>6 DEF Shows
<1> QED
  BY <1>11, <1>12, <1>13

\* An entry with one more call is an entry.
LEMMA CountedIsEntry ==
  ASSUME NEW entry \in Entries, NEW end \in Outcomes
  PROVE  Counted(entry, end) \in Entries
<1>1. entry.calls \in Nat /\ entry.errors \in Nat /\ entry.last \in Outcomes
  BY DEF Entries
<1>2. CASE end.kind = ""
  <2>1. Counted(entry, end) = [calls |-> entry.calls + 1,
                               errors |-> entry.errors, last |-> entry.last]
    BY <1>2 DEF Counted
  <2> QED
    BY <1>1, <2>1 DEF Entries
<1>3. CASE end.kind # ""
  <2>1. Counted(entry, end) = [calls |-> entry.calls + 1,
                               errors |-> entry.errors + 1, last |-> end]
    BY <1>3 DEF Counted
  <2> QED
    BY <1>1, <2>1 DEF Entries
<1> QED
  BY <1>2, <1>3

\* Recording a call keeps counts and reports true.
LEMMA RecordKeepsStats ==
  ASSUME StatsInv, NEW c \in Calls, RecordToolCall(c)
  PROVE  StatsInv'
<1>0. StatsTypeOK /\ LogIsPast
  BY DEF StatsInv
<1>1. /\ Len(log) \in Nat /\ log' \in Seq(Calls)
      /\ Len(log') = Len(log) + 1 /\ log'[Len(log) + 1] = c
      /\ \A i \in 1 .. Len(log) : log'[i] = log[i] /\ log[i] \in Calls
  BY <1>0, LenProperties, AppendProperties DEF RecordToolCall, StatsTypeOK
<1>2. /\ work' \in [Calls -> Progress] /\ work'[c] = "recorded"
      /\ work[c] = "ended"
      /\ \A d \in Calls \ {c} : work'[d] = work[d]
  BY <1>0 DEF RecordToolCall, Advance, StatsTypeOK, Progress
<1>3. outcome' = outcome /\ report' = report /\ began' = began
  BY DEF RecordToolCall
<1>4. byTool' \in [Tools -> Entries]
  <2>1. byTool[ToolOf[c]] \in Entries /\ outcome[c] \in Outcomes
    BY <1>0, ToolCallAssumption DEF StatsTypeOK
  <2>2. Counted(byTool[ToolOf[c]], outcome[c]) \in Entries
    BY <2>1, CountedIsEntry
  <2> QED
    BY <1>0, <2>2 DEF RecordToolCall, StatsTypeOK
<1>5. StatsTypeOK'
  BY <1>0, <1>1, <1>2, <1>3, <1>4 DEF StatsTypeOK
<1>6. LogIsPast'
  <2>1. \A i \in 1 .. Len(log') : work'[log'[i]] = "recorded"
    <3>1. \A i \in 1 .. Len(log) : work'[log'[i]] = "recorded"
      BY <1>0, <1>1, <1>2 DEF LogIsPast
    <3> QED
      BY <1>1, <1>2, <3>1
  <2> QED
    BY <1>0, <1>2, <1>3, <2>1 DEF LogIsPast
<1>7. CountsMatchCalls'
  <2>1. Recorded' = Recorded \cup {c} /\ c \notin Recorded
    BY <1>2 DEF Recorded
  <2>2. IsFiniteSet(Recorded)
    BY CallSetsFinite DEF Recorded
  <2>3. Cardinality(Recorded') = Cardinality(Recorded) + 1
    BY <2>1, <2>2, FS_AddElement
  <2>4. Len(log') = Cardinality(Recorded')
    BY <1>1, <2>3 DEF StatsInv, CountsMatchCalls
  <2>5. \A t \in Tools : Shows(byTool[t], t, Len(log))'
    BY RecordCounts
  <2> QED
    BY <2>4, <2>5 DEF CountsMatchCalls
<1>8. ReportsAreMoments'
  BY <1>1, <1>3, ReportsStand
<1> QED
  BY <1>5, <1>6, <1>7, <1>8 DEF StatsInv

-----------------------------------------------------------------------------
\* The counters' invariant holds in every reachable state.
THEOREM StatsInvariant == CallSpec => []StatsInv
<1>1. TypeOK /\ StatsInv /\ [CallNext]_callVars => StatsInv'
  <2> SUFFICES ASSUME TypeOK, StatsInv, [CallNext]_callVars
               PROVE  StatsInv'
    OBVIOUS
  <2>1. ASSUME NEW c \in Calls, CallStep(c)
        PROVE  StatsInv'
    <3>1. CASE Gates3(c) \/ Release(c)
      BY <3>1, OthersKeepStats DEF Gates3, Release
    <3> QED
      BY <2>1, <3>1, DispatchKeepsStats, SnapshotKeepsStats, EndKeepsStats,
         RecordKeepsStats
      DEF CallStep
  <2>2. CASE (Tick \/ Mark) /\ UNCHANGED statsVars
    BY <2>2, OthersKeepStats
  <2>3. CASE UNCHANGED callVars
    BY <2>3, OthersKeepStats DEF callVars
  <2> QED
    BY <2>1, <2>2, <2>3 DEF CallNext
<1>2. CallSpec => []TypeOK
  BY CallsObeyLimiter, LimiterTypes, PTL
<1> QED
  BY <1>1, <1>2, StatsInit, PTL DEF CallSpec

\* Limiter and counters keep their types.
THEOREM CallTypes == CallSpec => []CallTypeOK
<1>1. TypeOK /\ StatsInv => CallTypeOK
  BY DEF StatsInv, CallTypeOK
<1> QED
  BY <1>1, CallsObeyLimiter, LimiterTypes, StatsInvariant, PTL

\* The counters are those of the calls recorded: however many handlers end
\* at once, none is lost or counted twice.
THEOREM CountersAreExact == CallSpec => []CountsMatchCalls
<1>1. StatsInv => CountsMatchCalls
  BY DEF StatsInv
<1> QED
  BY <1>1, StatsInvariant, PTL

\* Every snapshot is one moment's counters, in the time of its own call.
THEOREM SnapshotsAreExact == CallSpec => []ReportsAreMoments
<1>1. StatsInv => ReportsAreMoments
  BY DEF StatsInv
<1> QED
  BY <1>1, StatsInvariant, PTL
=============================================================================
