---------------------------- MODULE IssuedProofs ----------------------------
(***************************************************************************)
(* Proofs about Issued for every set of subjects, every finite set of ids  *)
(* and every integer ttl and cap.                                          *)
(***************************************************************************)
EXTENDS Issued, TLAPS, FiniteSetTheorems

\* What a bucket says of an id is when that id was last handed out.
BucketsAreTrue ==
  \A s \in Subjects, id \in Ids :
    byIdent[s][id] # Never => byIdent[s][id] = delivered[s][id]

\* Nothing was handed out in the future.
NothingFromTheFuture ==
  \A s \in Subjects, id \in Ids : delivered[s][id] <= clock

\* An id that was handed out and is gone either aged out or had to make
\* room for at least a cap's worth of others.
GoneForAReason ==
  \A s \in Subjects, id \in Ids :
    delivered[s][id] # Never /\ byIdent[s][id] = Never =>
      isExpired(delivered[s][id]) \/ Cardinality(Rivals(s, id)) >= effectiveMax

IssuedInv ==
  TypeOK /\ BucketsAreTrue /\ NothingFromTheFuture /\ GoneForAReason

-----------------------------------------------------------------------------
\* The cap is a natural number whatever integer was configured.
LEMMA CapIsNat == TypeOK => effectiveMax \in Nat
  BY DEF TypeOK, effectiveMax

\* Sets of ids are finite and have a size.
LEMMA IdSetsFinite ==
  ASSUME NEW S, S \subseteq Ids
  PROVE  IsFiniteSet(S) /\ Cardinality(S) \in Nat
  BY FS_Subset, FS_CardinalityType, IssuedAssumption

\* Evicting keeps no more than the cap, and an id goes only if the cap's
\* worth of ids stays, each as young or younger.
LEMMA Eviction ==
  ASSUME TypeOK, NEW marked \in [Ids -> Time], NEW kept \in Survivors(marked)
  PROVE  /\ kept \subseteq {id \in Ids : marked[id] # Never}
         /\ Cardinality(kept) <= effectiveMax
         /\ \A id \in Ids : marked[id] # Never /\ id \notin kept =>
              /\ Cardinality(kept) = effectiveMax
              /\ \A in \in kept : marked[id] <= marked[in]
<1> DEFINE full == {id \in Ids : marked[id] # Never}
<1>1. /\ kept \subseteq full
      /\ Cardinality(kept) = IF Cardinality(full) > effectiveMax
                             THEN effectiveMax ELSE Cardinality(full)
      /\ \A out \in full \ kept, in \in kept : marked[out] <= marked[in]
  BY DEF Survivors
<1>2. IsFiniteSet(full) /\ Cardinality(full) \in Nat
  BY IdSetsFinite
<1>3. Cardinality(kept) <= effectiveMax
  BY <1>1, <1>2, CapIsNat
<1>4. ASSUME NEW id \in Ids, marked[id] # Never, id \notin kept
      PROVE  /\ Cardinality(kept) = effectiveMax
             /\ \A in \in kept : marked[id] <= marked[in]
  <2>1. kept # full
    BY <1>4
  <2>2. Cardinality(kept) < Cardinality(full)
    BY <1>1, <1>2, <2>1, FS_Subset
  <2> QED
    BY <1>1, <1>2, <1>4, <2>2, CapIsNat
<1> QED
  BY <1>1, <1>3, <1>4

\* What one call of Record leaves behind, entry by entry, when the bucket
\* stood at marked and only kept stays.
RecordLeaves(s, ids, marked, kept) ==
  /\ marked = [id \in Ids |-> IF id \in ids THEN clock
                              ELSE byIdent[s][id]]
  /\ kept \in Survivors(marked)
  /\ \A t \in Subjects, id \in Ids :
       byIdent'[t][id] = IF t # s THEN byIdent[t][id]
                         ELSE IF id \in kept THEN marked[id]
                         ELSE Never
  /\ \A t \in Subjects, id \in Ids :
       delivered'[t][id] = IF t = s /\ id \in ids THEN clock
                           ELSE delivered[t][id]
  /\ byIdent' \in [Subjects -> [Ids -> Time]]
  /\ delivered' \in [Subjects -> [Ids -> Time]]
  /\ clock' = clock
  /\ ttl' = ttl /\ maxPerIdentity' = maxPerIdentity

\* Record does nothing else.
LEMMA RecordEffect ==
  ASSUME TypeOK, NEW s \in Subjects, NEW ids \in SUBSET (Ids \cup {NoId}),
         Record(s, ids)
  PROVE  \E marked \in [Ids -> Time], kept \in SUBSET Ids :
           RecordLeaves(s, ids, marked, kept)
<1> DEFINE named  == ids \ {NoId}
           marked == [id \in Ids |-> IF id \in named THEN clock
                                     ELSE byIdent[s][id]]
<1>1. marked = [id \in Ids |-> IF id \in ids THEN clock ELSE byIdent[s][id]]
  BY IssuedAssumption
<1>2. marked \in [Ids -> Time]
  BY DEF TypeOK, Time
<1>3. PICK kept \in Survivors(marked) :
        byIdent' = [byIdent EXCEPT ![s] =
          [id \in Ids |-> IF id \in kept THEN marked[id] ELSE Never]]
  BY DEF Record
<1>4. kept \in SUBSET Ids
  BY <1>3 DEF Survivors
<1>5. /\ byIdent' \in [Subjects -> [Ids -> Time]]
      /\ \A t \in Subjects, id \in Ids :
           byIdent'[t][id] = IF t # s THEN byIdent[t][id]
                             ELSE IF id \in kept THEN marked[id] ELSE Never
  <2> DEFINE bucket == [id \in Ids |-> IF id \in kept THEN marked[id]
                                       ELSE Never]
  <2>1. bucket \in [Ids -> Time]
    BY <1>2 DEF Time
  <2>2. byIdent' = [byIdent EXCEPT ![s] = bucket]
    BY <1>3
  <2>3. \A id \in Ids : bucket[id] = IF id \in kept THEN marked[id] ELSE Never
    OBVIOUS
  <2> HIDE DEF bucket
  <2> QED
    BY <2>1, <2>2, <2>3 DEF TypeOK
<1>6. /\ delivered' \in [Subjects -> [Ids -> Time]]
      /\ \A t \in Subjects, id \in Ids :
           delivered'[t][id] = IF t = s /\ id \in ids THEN clock
                               ELSE delivered[t][id]
  <2> DEFINE given == [id \in Ids |-> IF id \in named THEN clock
                                      ELSE delivered[s][id]]
  <2>1. given \in [Ids -> Time]
    BY DEF TypeOK, Time
  <2>2. delivered' = [delivered EXCEPT ![s] = given]
    BY DEF Record, TypeOK
  <2>3. \A id \in Ids : given[id] = IF id \in ids THEN clock
                                    ELSE delivered[s][id]
    BY IssuedAssumption
  <2> HIDE DEF given
  <2> QED
    BY <2>1, <2>2, <2>3 DEF TypeOK
<1> HIDE DEF marked
<1> QED
  BY <1>1, <1>2, <1>3, <1>4, <1>5, <1>6 DEF Record, RecordLeaves, limits

\* What one call of Check leaves behind.
LEMMA CheckEffect ==
  ASSUME TypeOK, NEW s, NEW id, Check(s, id)
  PROVE  /\ byIdent' \in [Subjects -> [Ids -> Time]]
         /\ \A t \in Subjects, j \in Ids :
              \/ byIdent'[t][j] = byIdent[t][j]
              \/ /\ byIdent'[t][j] = Never
                 /\ byIdent[t][j] # Never
                 /\ isExpired(byIdent[t][j])
         /\ clock' = clock /\ delivered' = delivered
         /\ ttl' = ttl /\ maxPerIdentity' = maxPerIdentity
  BY DEF Check, TypeOK, Time, limits

\* The initial states satisfy the invariant.
LEMMA IssuedInit == Init => IssuedInv
  BY IssuedAssumption
  DEF Init, IssuedInv, TypeOK, BucketsAreTrue, NothingFromTheFuture,
      GoneForAReason, Time, Never

\* Handing ids out keeps the invariant.
LEMMA RecordKeepsInv ==
  ASSUME IssuedInv, NEW s \in Subjects, NEW ids \in SUBSET (Ids \cup {NoId}),
         Record(s, ids)
  PROVE  IssuedInv'
<1> USE DEF IssuedInv
<1>1. PICK marked \in [Ids -> Time], kept \in SUBSET Ids :
        RecordLeaves(s, ids, marked, kept)
  BY RecordEffect
<1> USE DEF RecordLeaves
<1>2. /\ kept \subseteq {id \in Ids : marked[id] # Never}
      /\ \A id \in Ids : marked[id] # Never /\ id \notin kept =>
           /\ Cardinality(kept) = effectiveMax
           /\ \A in \in kept : marked[id] <= marked[in]
  BY <1>1, Eviction
<1>3. \A id \in Ids : marked[id] = IF id \in ids THEN clock
                                   ELSE byIdent[s][id]
  BY <1>1
<1>4. \A id \in Ids : marked[id] # Never => delivered'[s][id] = marked[id]
  BY <1>1, <1>3 DEF BucketsAreTrue
<1>5. TypeOK'
  BY <1>1 DEF TypeOK
<1>6. BucketsAreTrue'
  <2> SUFFICES ASSUME NEW t \in Subjects, NEW id \in Ids,
                      byIdent'[t][id] # Never
               PROVE  byIdent'[t][id] = delivered'[t][id]
    BY DEF BucketsAreTrue
  <2>1. CASE t = s
    BY <1>1, <1>4, <2>1
  <2>2. CASE t # s
    BY <1>1, <2>2 DEF BucketsAreTrue
  <2> QED
    BY <2>1, <2>2
<1>7. NothingFromTheFuture'
  BY <1>1 DEF NothingFromTheFuture, TypeOK
<1>8. GoneForAReason'
  <2> SUFFICES ASSUME NEW t \in Subjects, NEW id \in Ids,
                      delivered'[t][id] # Never, byIdent'[t][id] = Never
               PROVE  \/ isExpired(delivered[t][id])'
                      \/ Cardinality(Rivals(t, id)') >= effectiveMax
    BY <1>1 DEF GoneForAReason, effectiveMax, isExpired
  <2>1. Rivals(t, id)' = {j \in Ids \ {id} :
                            delivered'[t][j] >= delivered'[t][id]}
    BY DEF Rivals
  <2>2. CASE t = s /\ marked[id] # Never
    <3>1. id \notin kept
      BY <1>1, <2>2
    <3>2. kept \subseteq Rivals(t, id)'
      BY <1>2, <1>4, <2>1, <2>2, <3>1 DEF Time, Never
    <3>3. IsFiniteSet(Rivals(t, id)') /\ Cardinality(Rivals(t, id)') \in Nat
      BY <2>1, IdSetsFinite
    <3> QED
      BY <1>2, <2>2, <3>1, <3>2, <3>3, FS_Subset
  <2>3. CASE t # s \/ marked[id] = Never
    <3>1. delivered'[t][id] = delivered[t][id] /\ byIdent[t][id] = Never
      BY <1>1, <1>3, <2>3 DEF TypeOK, Never
    <3>2. \/ isExpired(delivered[t][id])
          \/ Cardinality(Rivals(t, id)) >= effectiveMax
      BY <3>1 DEF GoneForAReason
    <3>3. Rivals(t, id) \subseteq Rivals(t, id)'
      <4>1. \A j \in Ids : /\ delivered[t][j] \in Int
                           /\ delivered'[t][j] \in Int
                           /\ delivered[t][j] <= delivered'[t][j]
        BY <1>1 DEF NothingFromTheFuture, TypeOK, Time, Never
      <4> QED
        BY <2>1, <3>1, <4>1 DEF Rivals
    <3>4. /\ IsFiniteSet(Rivals(t, id)')
          /\ Cardinality(Rivals(t, id)') \in Nat
          /\ Cardinality(Rivals(t, id)) \in Nat
      BY <2>1, IdSetsFinite DEF Rivals
    <3>5. Cardinality(Rivals(t, id)) <= Cardinality(Rivals(t, id)')
      BY <3>3, <3>4, FS_Subset
    <3> QED
      BY <1>1, <3>1, <3>2, <3>4, <3>5, CapIsNat DEF isExpired
  <2> QED
    BY <2>2, <2>3
<1> QED
  BY <1>5, <1>6, <1>7, <1>8

\* Asking for an id keeps the invariant.
LEMMA CheckKeepsInv ==
  ASSUME IssuedInv, NEW s, NEW id, Check(s, id)
  PROVE  IssuedInv'
<1> USE DEF IssuedInv
<1>1. /\ byIdent' \in [Subjects -> [Ids -> Time]]
      /\ \A t \in Subjects, j \in Ids :
           \/ byIdent'[t][j] = byIdent[t][j]
           \/ /\ byIdent'[t][j] = Never
              /\ byIdent[t][j] # Never
              /\ isExpired(byIdent[t][j])
      /\ clock' = clock /\ delivered' = delivered
      /\ ttl' = ttl /\ maxPerIdentity' = maxPerIdentity
  BY CheckEffect
<1>2. TypeOK' /\ BucketsAreTrue' /\ NothingFromTheFuture'
  BY <1>1 DEF TypeOK, BucketsAreTrue, NothingFromTheFuture
<1>3. GoneForAReason'
  <2> SUFFICES ASSUME NEW t \in Subjects, NEW j \in Ids,
                      delivered'[t][j] # Never, byIdent'[t][j] = Never
               PROVE  \/ isExpired(delivered[t][j])
                      \/ Cardinality(Rivals(t, j)) >= effectiveMax
    BY <1>1 DEF GoneForAReason, isExpired, Rivals, effectiveMax
  <2> QED
    BY <1>1 DEF GoneForAReason, BucketsAreTrue
<1> QED
  BY <1>2, <1>3

\* Time passing keeps the invariant.
LEMMA TickKeepsInv ==
  ASSUME IssuedInv, Tick
  PROVE  IssuedInv'
<1> USE DEF IssuedInv
<1>1. /\ clock' = clock + 1
      /\ ttl' = ttl /\ maxPerIdentity' = maxPerIdentity
      /\ byIdent' = byIdent /\ delivered' = delivered
  BY DEF Tick, limits
<1>2. TypeOK' /\ BucketsAreTrue' /\ NothingFromTheFuture'
  BY <1>1
  DEF TypeOK, BucketsAreTrue, NothingFromTheFuture, Time, Never
<1>3. GoneForAReason'
  <2> SUFFICES ASSUME NEW s \in Subjects, NEW id \in Ids,
                      delivered[s][id] # Never, byIdent[s][id] = Never
               PROVE  \/ isExpired(delivered[s][id])'
                      \/ Cardinality(Rivals(s, id)) >= effectiveMax
    BY <1>1 DEF GoneForAReason, isExpired, Rivals, effectiveMax
  <2>1. delivered[s][id] \in Int /\ clock \in Int /\ ttl \in Int
    BY DEF TypeOK, Time, Never
  <2> QED
    BY <1>1, <2>1 DEF GoneForAReason, isExpired
<1> QED
  BY <1>2, <1>3

\* IssuedInv holds in every reachable state.
THEOREM IssuedInvariant == Spec => []IssuedInv
<1>1. IssuedInv /\ [Next]_vars => IssuedInv'
  <2> SUFFICES ASSUME IssuedInv, [Next]_vars
               PROVE  IssuedInv'
    OBVIOUS
  <2>1. ASSUME NEW s \in Subjects, NEW ids \in SUBSET (Ids \cup {NoId}),
               Record(s, ids)
        PROVE  IssuedInv'
    BY <2>1, RecordKeepsInv
  <2>2. ASSUME NEW s \in Subjects \cup {NoSubject}, NEW id \in Ids \cup {NoId},
               Check(s, id)
        PROVE  IssuedInv'
    BY <2>2, CheckKeepsInv
  <2>3. CASE Tick
    BY <2>3, TickKeepsInv
  <2>4. CASE UNCHANGED vars
    BY <2>4
    DEF vars, limits, IssuedInv, TypeOK, BucketsAreTrue, NothingFromTheFuture,
        GoneForAReason, isExpired, Rivals, effectiveMax
  <2> QED
    BY <2>1, <2>2, <2>3, <2>4 DEF Next, RecordRefused
<1> QED
  BY IssuedInit, <1>1, PTL DEF Spec

-----------------------------------------------------------------------------
\* The clock and both books keep their types.
THEOREM IssuedTypes == Spec => []TypeOK
  BY IssuedInvariant, PTL DEF IssuedInv

\* Check passes only what went to this identity within ttl.
THEOREM PassesAreFresh == Spec => []PassesOnlyFreshDeliveries
<1>1. IssuedInv => PassesOnlyFreshDeliveries
  BY IssuedAssumption
  DEF IssuedInv, TypeOK, BucketsAreTrue, PassesOnlyFreshDeliveries, Passes,
      isExpired, Time, Never
<1> QED
  BY <1>1, IssuedInvariant, PTL

\* Nothing is refused early except to make room under the cap.
THEOREM RefusalsHaveAReason == Spec => []NoFalseRefusal
<1>1. IssuedInv => NoFalseRefusal
  <2> SUFFICES ASSUME IssuedInv, NEW s \in Subjects, NEW id \in Ids,
                      delivered[s][id] # Never,
                      ttl > 0, clock - delivered[s][id] <= ttl,
                      Cardinality(Rivals(s, id)) < effectiveMax
               PROVE  Passes(s, id)
    BY DEF NoFalseRefusal
  <2>1. Cardinality(Rivals(s, id)) \in Nat
    BY IdSetsFinite DEF Rivals
  <2>2. clock \in Int /\ delivered[s][id] \in Int /\ ttl \in Int
    BY DEF IssuedInv, TypeOK, Time, Never
  <2>3. ~isExpired(delivered[s][id])
    BY <2>2 DEF isExpired
  <2>4. byIdent[s][id] # Never
    BY <2>1, <2>3, CapIsNat DEF IssuedInv, GoneForAReason
  <2> QED
    BY <2>3, <2>4 DEF IssuedInv, BucketsAreTrue, Passes
<1> QED
  BY <1>1, IssuedInvariant, PTL

\* No bucket holds more than the cap.
THEOREM CapIsRespected == Spec => []CapRespected
<1>1. Init => CapRespected
  <2> SUFFICES ASSUME Init, NEW s \in Subjects
               PROVE  Cardinality(Bucket(s)) <= effectiveMax
    BY DEF CapRespected
  <2>1. Bucket(s) = {}
    BY DEF Init, Bucket
  <2> QED
    BY <2>1, FS_EmptySet, CapIsNat, IssuedInit DEF IssuedInv
<1>2. IssuedInv /\ CapRespected /\ [Next]_vars => CapRespected'
  <2> SUFFICES ASSUME IssuedInv, CapRespected, [Next]_vars
               PROVE  CapRespected'
    OBVIOUS
  <2>a. effectiveMax \in Nat /\ effectiveMax' = effectiveMax
    BY CapIsNat
    DEF IssuedInv, Next, Record, RecordRefused, Check, Tick, vars, limits,
        effectiveMax
  <2> SUFFICES ASSUME NEW t \in Subjects
               PROVE  Cardinality(Bucket(t)') <= effectiveMax
    BY <2>a DEF CapRespected
  <2>1. Cardinality(Bucket(t)) <= effectiveMax
    BY DEF CapRespected
  <2>2. IsFiniteSet(Bucket(t)) /\ Cardinality(Bucket(t)) \in Nat
    BY IdSetsFinite DEF Bucket
  <2>3. ASSUME Bucket(t)' \subseteq Bucket(t)
        PROVE  Cardinality(Bucket(t)') <= effectiveMax
    <3>1. Cardinality(Bucket(t)') <= Cardinality(Bucket(t))
      BY <2>2, <2>3, FS_Subset
    <3>2. Cardinality(Bucket(t)') \in Nat
      BY <2>2, <2>3, FS_Subset, FS_CardinalityType
    <3> QED
      BY <2>a, <2>1, <2>2, <3>1, <3>2
  <2>4. ASSUME NEW s \in Subjects, NEW ids \in SUBSET (Ids \cup {NoId}),
               Record(s, ids)
        PROVE  Cardinality(Bucket(t)') <= effectiveMax
    <3>1. PICK marked \in [Ids -> Time], kept \in SUBSET Ids :
            RecordLeaves(s, ids, marked, kept)
      BY <2>4, RecordEffect DEF IssuedInv
    <3> USE DEF RecordLeaves
    <3>2. CASE t # s
      BY <2>3, <3>1, <3>2 DEF Bucket
    <3>3. CASE t = s
      <4>1. Bucket(t)' \subseteq kept
        BY <3>1, <3>3 DEF Bucket
      <4>2. Cardinality(kept) <= effectiveMax
        BY <3>1, Eviction DEF IssuedInv
      <4>3. IsFiniteSet(kept) /\ Cardinality(kept) \in Nat
        BY IdSetsFinite
      <4>4. Cardinality(Bucket(t)') <= Cardinality(kept)
        BY <4>1, <4>3, FS_Subset
      <4>5. Cardinality(Bucket(t)') \in Nat
        BY <4>1, <4>3, FS_Subset, FS_CardinalityType
      <4> QED
        BY <2>a, <4>2, <4>3, <4>4, <4>5
    <3> QED
      BY <3>2, <3>3
  <2>5. ASSUME NEW s \in Subjects \cup {NoSubject}, NEW id \in Ids \cup {NoId},
               Check(s, id)
        PROVE  Cardinality(Bucket(t)') <= effectiveMax
    <3>1. Bucket(t)' \subseteq Bucket(t)
      BY <2>5, CheckEffect DEF IssuedInv, Bucket
    <3> QED
      BY <2>3, <3>1
  <2>6. CASE byIdent' = byIdent
    BY <2>3, <2>6 DEF Bucket
  <2> QED
    BY <2>4, <2>5, <2>6 DEF Next, RecordRefused, Tick, vars
<1> QED
  BY <1>1, <1>2, IssuedInvariant, PTL DEF Spec

\* A ttl or cap of zero or less lets nothing through.
THEOREM BadLimitsFailClosed == Spec => []FailsClosed
<1>1. IssuedInv /\ CapRespected => FailsClosed
  <2> SUFFICES ASSUME IssuedInv, CapRespected, ttl <= 0 \/ maxPerIdentity <= 0,
                      NEW s \in Subjects, NEW id \in Ids, Passes(s, id)
               PROVE  FALSE
    BY DEF FailsClosed
  <2>1. CASE ttl <= 0
    BY <2>1 DEF Passes, isExpired
  <2>2. CASE maxPerIdentity <= 0
    <3>1. effectiveMax = 0
      BY <2>2 DEF IssuedInv, TypeOK, effectiveMax
    <3>2. IsFiniteSet(Bucket(s)) /\ Cardinality(Bucket(s)) \in Nat
      BY IdSetsFinite DEF Bucket
    <3>3. Cardinality(Bucket(s)) = 0
      BY <3>1, <3>2 DEF CapRespected
    <3>4. Bucket(s) = {}
      BY <3>2, <3>3, FS_EmptySet
    <3> QED
      BY <3>4 DEF Passes, Bucket
  <2> QED
    BY <2>1, <2>2
<1> QED
  BY <1>1, IssuedInvariant, CapIsRespected, PTL

\* Only a new delivery turns a refusal into a pass.
THEOREM RefusalsAreFinal == Spec => RefusalIsFinal
<1> DEFINE Final ==
      \A s \in Subjects, id \in Ids :
        ~Passes(s, id) /\ Passes(s, id)' => delivered'[s][id] = clock'
<1>1. IssuedInv /\ [Next]_vars => [Final]_vars
  <2> SUFFICES ASSUME IssuedInv, Next, NEW t \in Subjects, NEW j \in Ids,
                      ~Passes(t, j), Passes(t, j)'
               PROVE  delivered'[t][j] = clock'
    BY DEF vars
  <2>1. ASSUME NEW s \in Subjects, NEW ids \in SUBSET (Ids \cup {NoId}),
               Record(s, ids)
        PROVE  delivered'[t][j] = clock'
    <3>1. PICK marked \in [Ids -> Time], kept \in SUBSET Ids :
            RecordLeaves(s, ids, marked, kept)
      BY <2>1, RecordEffect DEF IssuedInv
    <3> USE DEF RecordLeaves
    <3>2. marked[j] = IF j \in ids THEN clock ELSE byIdent[s][j]
      BY <3>1
    <3> QED
      BY <3>1, <3>2 DEF Passes, isExpired
  <2>2. ASSUME NEW s \in Subjects \cup {NoSubject}, NEW id \in Ids \cup {NoId},
               Check(s, id)
        PROVE  delivered'[t][j] = clock'
    <3>1. /\ byIdent'[t][j] = byIdent[t][j] \/ byIdent'[t][j] = Never
          /\ clock' = clock /\ ttl' = ttl
      BY <2>2, CheckEffect DEF IssuedInv
    <3> QED
      BY <3>1 DEF Passes, isExpired
  <2>3. CASE Tick
    <3>1. clock \in Int /\ byIdent[t][j] \in Int /\ ttl \in Int
      BY DEF IssuedInv, TypeOK, Time, Never
    <3> QED
      BY <2>3, <3>1 DEF Tick, limits, Passes, isExpired
  <2>4. CASE UNCHANGED vars
    BY <2>4 DEF vars, limits, Passes, isExpired
  <2> QED
    BY <2>1, <2>2, <2>3, <2>4 DEF Next, RecordRefused
<1> QED
  BY <1>1, IssuedInvariant, PTL DEF Spec, RefusalIsFinal
=============================================================================
