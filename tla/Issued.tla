------------------------------- MODULE Issued -------------------------------
(***************************************************************************)
(* internal/issued/issued.go: which ids this server has handed out to      *)
(* which identity, each for at most ttl and at most maxPerIdentity of them *)
(* per identity.                                                           *)
(*                                                                         *)
(* Record and Check do their work, the reading of the clock included,      *)
(* under Store.mu, so each is one step.  The clock advances between steps. *)
(***************************************************************************)
EXTENDS Integers, FiniteSets

CONSTANTS
  Subjects,        \* subjects of verified identities
  Ids,             \* non-empty entity ids
  Ttls, Caps,      \* what New may be given: any integers, ttls in ticks
  NoSubject,       \* a context without a verified identity
  NoId,            \* the empty id
  MaxClock         \* bound on the clock

ASSUME IssuedAssumption ==
  /\ NoSubject \notin Subjects
  /\ NoId \notin Ids
  /\ Ttls \subseteq Int /\ Caps \subseteq Int
  /\ MaxClock \in Nat
  /\ IsFiniteSet(Ids)

VARIABLES
  ttl, maxPerIdentity,  \* fixed when the store is made
  clock,      \* what now() returns
  byIdent,    \* byIdent[s][id]: when id was recorded for s, or Never
  delivered   \* history: when id was last handed to s, or Never

limits == <<ttl, maxPerIdentity>>
vars == <<limits, clock, byIdent, delivered>>

Never == -1
Time  == Nat \cup {Never}

\* Variant: zero or less read as "no limit".
effectiveMaxUnlimited ==
  IF maxPerIdentity <= 0 THEN Cardinality(Ids) ELSE maxPerIdentity

effectiveMax == IF maxPerIdentity < 0 THEN 0 ELSE maxPerIdentity

Bucket(s) == {id \in Ids : byIdent[s][id] # Never}

isExpired(recorded) == ttl <= 0 \/ clock - recorded > ttl

\* What Check answers, TRUE standing for a nil error.
Passes(s, id) ==
  /\ s \in Subjects
  /\ id \in Ids
  /\ byIdent[s][id] # Never
  /\ ~isExpired(byIdent[s][id])

-----------------------------------------------------------------------------
\* New.
Init ==
  /\ ttl \in Ttls /\ maxPerIdentity \in Caps
  /\ clock = 0
  /\ byIdent = [s \in Subjects |-> [id \in Ids |-> Never]]
  /\ delivered = [s \in Subjects |-> [id \in Ids |-> Never]]

\* Variant: one id too many stays.
SurvivorsOneMore(marked) ==
  LET full == {id \in Ids : marked[id] # Never}
  IN  {kept \in SUBSET full :
         /\ Cardinality(kept) = IF Cardinality(full) > effectiveMax + 1
                                THEN effectiveMax + 1 ELSE Cardinality(full)
         /\ \A out \in full \ kept, in \in kept : marked[out] <= marked[in]}

\* The ids a full bucket may keep: as many as fit, none of them older than
\* one that goes.  Entries recorded at the same time go in any order.
Survivors(marked) ==
  LET full == {id \in Ids : marked[id] # Never}
  IN  {kept \in SUBSET full :
         /\ Cardinality(kept) = IF Cardinality(full) > effectiveMax
                                THEN effectiveMax ELSE Cardinality(full)
         /\ \A out \in full \ kept, in \in kept : marked[out] <= marked[in]}

\* Variant: an id already recorded keeps its first time.
RecordOnce(s, ids) ==
  /\ s \in Subjects
  /\ LET named  == ids \ {NoId}
         marked == [id \in Ids |-> IF id \in named /\ byIdent[s][id] = Never
                                   THEN clock ELSE byIdent[s][id]]
     IN  /\ \E kept \in Survivors(marked) :
              byIdent' = [byIdent EXCEPT ![s] =
                [id \in Ids |-> IF id \in kept THEN marked[id] ELSE Never]]
         /\ delivered' = [delivered EXCEPT ![s] =
              [id \in Ids |-> IF id \in named THEN clock ELSE @[id]]]
  /\ UNCHANGED <<limits, clock>>

\* Record: take up or refresh the ids, then evict down to the cap.
Record(s, ids) ==
  /\ s \in Subjects
  /\ LET named  == ids \ {NoId}
         marked == [id \in Ids |-> IF id \in named THEN clock
                                   ELSE byIdent[s][id]]
     IN  /\ \E kept \in Survivors(marked) :
              byIdent' = [byIdent EXCEPT ![s] =
                [id \in Ids |-> IF id \in kept THEN marked[id] ELSE Never]]
         /\ delivered' = [delivered EXCEPT ![s] =
              [id \in Ids |-> IF id \in named THEN clock ELSE @[id]]]
  /\ UNCHANGED <<limits, clock>>

\* Record without a verified identity does nothing at all.
RecordRefused(s) ==
  /\ s = NoSubject
  /\ UNCHANGED vars

\* Variant: a check that passes counts as a new delivery.
CheckRefreshes(s, id) ==
  /\ byIdent' = IF Passes(s, id) THEN [byIdent EXCEPT ![s][id] = clock]
                ELSE byIdent
  /\ UNCHANGED <<limits, clock, delivered>>

\* Check: an id found expired leaves the bucket.
Check(s, id) ==
  /\ byIdent' = IF /\ s \in Subjects /\ id \in Ids
                   /\ byIdent[s][id] # Never
                   /\ isExpired(byIdent[s][id])
                THEN [byIdent EXCEPT ![s][id] = Never]
                ELSE byIdent
  /\ UNCHANGED <<limits, clock, delivered>>

Tick ==
  /\ clock < MaxClock
  /\ clock' = clock + 1
  /\ UNCHANGED <<limits, byIdent, delivered>>

Next ==
  \/ \E s \in Subjects, ids \in SUBSET (Ids \cup {NoId}) : Record(s, ids)
  \/ RecordRefused(NoSubject)
  \/ \E s \in Subjects \cup {NoSubject}, id \in Ids \cup {NoId} : Check(s, id)
  \/ Tick

Spec == Init /\ [][Next]_vars

-----------------------------------------------------------------------------
\* The clock and both books keep their types.
TypeOK ==
  /\ ttl \in Int /\ maxPerIdentity \in Int
  /\ clock \in Nat
  /\ byIdent \in [Subjects -> [Ids -> Time]]
  /\ delivered \in [Subjects -> [Ids -> Time]]

\* Check lets through only what was handed to this very identity no longer
\* than ttl ago: nothing else, nothing of anybody else's, nothing stale.
PassesOnlyFreshDeliveries ==
  \A s \in Subjects, id \in Ids : Passes(s, id) =>
    delivered[s][id] # Never /\ clock - delivered[s][id] <= ttl

\* No identity's bucket outgrows the cap, whatever was recorded at once.
CapRespected == \A s \in Subjects : Cardinality(Bucket(s)) <= effectiveMax

\* Deliveries to s that count against id: others as late or later.
Rivals(s, id) == {j \in Ids \ {id} : delivered[s][j] >= delivered[s][id]}

\* An id handed out within ttl is refused only if the cap's worth of other
\* ids went to the same identity since: neither expired entries nor other
\* identities nor a Check in between can push it out.
NoFalseRefusal ==
  \A s \in Subjects, id \in Ids :
    /\ delivered[s][id] # Never
    /\ ttl > 0 /\ clock - delivered[s][id] <= ttl
    /\ Cardinality(Rivals(s, id)) < effectiveMax
    => Passes(s, id)

\* A refused id stays refused until it is handed out again; asking about it
\* or letting time pass never brings it back.
RefusalIsFinal ==
  [][\A s \in Subjects, id \in Ids :
       ~Passes(s, id) /\ Passes(s, id)' => delivered'[s][id] = clock']_vars

\* A ttl or a cap of zero or less closes the gate instead of opening it.
FailsClosed ==
  ttl <= 0 \/ maxPerIdentity <= 0 =>
    \A s \in Subjects, id \in Ids : ~Passes(s, id)
=============================================================================
