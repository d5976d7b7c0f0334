----------------------------- MODULE ReadsProofs -----------------------------
(***************************************************************************)
(* Proofs about the tools that read many entities at once: what a caller   *)
(* of a sync tool holds after each call, and what a caller that pages      *)
(* through a list has seen in the end.                                     *)
(***************************************************************************)
EXTENDS Reads, TLAPS, FiniteSetTheorems, SequenceTheorems

\* A cursor a caller holds describes the copy it holds.
CursorsMatch ==
  \A t \in Types :
    cursor[t] = Empty \/ cursor[t] = [type |-> t, known |-> copy[t]]

\* A call that passed the check was made without a cursor or with the one
\* that came with the caller's copy, which no other call can change.
SentMatches ==
  \A t \in Types : pc[t] = "client" =>
    sent[t] = Empty \/ sent[t] = [type |-> t, known |-> copy[t]]

\* The account's present contents are among those it had during a call.
DuringIsNow ==
  \A t \in Types : pc[t] # "idle" => View(rows[t]) \in during[t]

\* What the caller puts the answer on top of.
Base(t) == IF sent[t] = Empty THEN Nothing ELSE copy[t]

\* The answer of tool t that leads from known to v.
Answering(t, known, v) ==
  [changed |-> [i \in Ids |-> IF v[i] # known[i] THEN v[i] ELSE 0],
   deleted |-> {i \in Ids : known[i] # 0 /\ v[i] = 0},
   next    |-> [type |-> t, known |-> v]]

\* An answer without error leads to what the account held at some moment.
AnswersLead ==
  \A t \in Types : pc[t] = "return" =>
    \/ answer[t] \in Errors
    \/ \E v \in during[t] : answer[t] = Answering(t, Base(t), v)

SyncInv ==
  /\ TypeOK
  /\ CursorsMatch
  /\ SentMatches
  /\ DuringIsNow
  /\ AnswersLead

\* Where the next page begins, as Fileee counts.
Here == NonNegative(start)

\* What stands at the first n places of a list, and what after them.
Behind(l, n) == {l[k] : k \in {m \in DOMAIN l : m <= n}}
Ahead(l, n)  == {l[k] : k \in {m \in DOMAIN l : m > n}}

\* The entries behind that stayed where they were and have not been seen, how
\* far behind the end of the list is itself, and the entries ahead that have
\* been seen already.
Skipped == Behind(list, Here) \ (Range(seen) \cup touched)
Short   == IF Here > Len(list) THEN Here - Len(list) ELSE 0
Again   == Ahead(list, Here) \cap Range(seen)

WalkInv ==
  /\ list \in Seq(Entries) /\ seen \in Seq(Entries)
  /\ limit \in Int /\ start \in Int /\ tool \in Descriptors
  /\ walking \in BOOLEAN /\ pages \in Nat
  /\ up \in 0 .. MaxChanges /\ down \in 0 .. MaxChanges
  /\ touched \subseteq Entries
  /\ IsInjective(list)
  /\ Cardinality(Skipped) + Short <= up
  /\ Len(seen) + Cardinality(Again) <= Cardinality(Range(seen)) + down
  /\ pages <= IF walking THEN Here ELSE Here + 1
  /\ ~walking /\ pages > 0 => Len(list) <= Here
-----------------------------------------------------------------------------
LEMMA BoundIsNat == MaxVersion \in Nat
  BY SyncAssumption

\* What an account holds is something a caller can hold a copy of.
LEMMA ViewIsCopy ==
  ASSUME NEW r \in [Ids -> 0 .. Gone]
  PROVE  View(r) \in Copies
  BY BoundIsNat DEF View, Copies, Gone

LEMMA NothingIsCopy == Nothing \in Copies
  BY BoundIsNat DEF Nothing, Copies

\* An answer, put on top of what it started from, gives what it leads to.
LEMMA MergedLeads ==
  ASSUME NEW known \in Copies, NEW v \in Copies, NEW t \in Types
  PROVE  /\ Merged(known, Answering(t, known, v)) = v
         /\ Answering(t, known, v) \in Deltas
         /\ Answering(t, known, v).next = [type |-> t, known |-> v]
<1> DEFINE a == Answering(t, known, v)
<1>1. a.next = [type |-> t, known |-> v]
      /\ a.changed = [i \in Ids |-> IF v[i] # known[i] THEN v[i] ELSE 0]
      /\ a.deleted = {i \in Ids : known[i] # 0 /\ v[i] = 0}
  BY DEF Answering
<1>2. a \in Deltas
  <2>1. a.changed \in Copies
    <3>1. \A i \in Ids : v[i] \in 0 .. MaxVersion /\ 0 \in 0 .. MaxVersion
      BY BoundIsNat DEF Copies
    <3>2. \A i \in Ids :
            (IF v[i] # known[i] THEN v[i] ELSE 0) \in 0 .. MaxVersion
      BY <3>1
    <3>3. [i \in Ids |-> IF v[i] # known[i] THEN v[i] ELSE 0]
            \in [Ids -> 0 .. MaxVersion]
      BY <3>2
    <3> QED
      BY <3>3 DEF Copies, Answering
  <2>2. a.next \in Cursors
    <3>1. [type |-> t, known |-> v] \in Cursors
      BY DEF Cursors
    <3> QED
      BY <1>1, <3>1
  <2>3. a.deleted \in SUBSET Ids
    BY <1>1
  <2> QED
    BY <2>1, <2>2, <2>3 DEF Deltas, Answering
<1>3. \A i \in Ids : (IF a.changed[i] # 0 THEN a.changed[i]
                      ELSE IF i \in a.deleted THEN 0 ELSE known[i]) = v[i]
  BY <1>1, BoundIsNat DEF Copies
<1>4. Merged(known, a) = [i \in Ids |-> v[i]]
  BY <1>3 DEF Merged
<1> QED
  BY <1>1, <1>2, <1>4 DEF Copies

\* What syncFromService answers leads to what the account holds right then.
LEMMA DiffLeads ==
  ASSUME NEW r, NEW known, NEW t
  PROVE  FromService(Diff(r, known), t) = Answering(t, known, View(r))
  BY DEF FromService, Diff, Answering

LEMMA SyncInit == Init => SyncInv
<1> SUFFICES ASSUME Init PROVE SyncInv
  OBVIOUS
<1>1. Nothing \in [Ids -> 0 .. Gone] /\ Nothing \in Copies
  BY NothingIsCopy, BoundIsNat DEF Nothing, Gone
<1>2. TypeOK
  BY <1>1 DEF Init, TypeOK, Strings
<1>3. \A t \in Types : pc[t] = "idle" /\ cursor[t] = Empty
  BY DEF Init
<1> QED
  BY <1>2, <1>3
  DEF SyncInv, CursorsMatch, SentMatches, DuringIsNow, AnswersLead

\* A call that passes the check was made with the caller's own cursor.
LEMMA CallKeepsSync ==
  ASSUME SyncInv, NEW t \in Types, NEW s \in Held \cup {Empty}, Call(t, s)
  PROVE  SyncInv'
<1>1. /\ pc[t] = "idle"
      /\ sent' = [sent EXCEPT ![t] = s]
      /\ during' = [during EXCEPT ![t] = {View(rows[t])}]
      /\ \/ /\ CheckCursorEntityType(s, t)
            /\ pc' = [pc EXCEPT ![t] = "client"] /\ answer' = answer
         \/ /\ pc' = [pc EXCEPT ![t] = "return"]
            /\ answer' = [answer EXCEPT ![t] = BadCursor]
      /\ UNCHANGED <<rows, copy, cursor>>
  BY DEF Call
<1>2. s \in Strings
  <2>1. Misshapen \in Cursors
    BY NothingIsCopy DEF Misshapen, Cursors
  <2> QED
    BY <2>1 DEF Held, Strings, SyncInv, TypeOK
<1>3. View(rows[t]) \in Copies
  BY ViewIsCopy DEF SyncInv, TypeOK
<1>4. TypeOK'
  BY <1>1, <1>2, <1>3 DEF SyncInv, TypeOK, Errors
<1>5. CheckCursorEntityType(s, t) =>
        s = Empty \/ s = [type |-> t, known |-> copy[t]]
  <2> SUFFICES ASSUME s \in [type : {t}, known : Copies], s # Empty
               PROVE  s = [type |-> t, known |-> copy[t]]
    BY DEF CheckCursorEntityType
  <2>1. s.type = t /\ s \in Cursors
    BY DEF Cursors
  <2>2. s # Undecodable /\ s # Misshapen
    <3>1. t # "" /\ Misshapen.type = ""
      BY SyncAssumption DEF Misshapen
    <3> QED
      BY <2>1, <3>1, CursorAssumption
  <2>3. PICK u \in Types : s = cursor[u]
    BY <2>2 DEF Held
  <2>4. s = [type |-> u, known |-> copy[u]]
    BY <2>3 DEF SyncInv, CursorsMatch
  <2> QED
    BY <2>1, <2>4
<1>6. CursorsMatch'
  BY <1>1 DEF SyncInv, CursorsMatch
<1>7. SentMatches'
  BY <1>1, <1>5 DEF SyncInv, TypeOK, SentMatches
<1>8. DuringIsNow'
  BY <1>1 DEF SyncInv, TypeOK, DuringIsNow
<1>9. AnswersLead'
  BY <1>1 DEF SyncInv, TypeOK, AnswersLead, Base, Errors
<1> QED
  BY <1>4, <1>6, <1>7, <1>8, <1>9 DEF SyncInv

LEMMA FailKeepsSync ==
  ASSUME SyncInv, NEW t \in Types, Fail(t)
  PROVE  SyncInv'
<1>1. /\ pc[t] = "client" /\ pc' = [pc EXCEPT ![t] = "return"]
      /\ answer' = [answer EXCEPT ![t] = Failed]
      /\ UNCHANGED <<rows, sent, copy, cursor, during>>
  BY DEF Fail
<1>2. TypeOK'
  BY <1>1 DEF SyncInv, TypeOK, Errors
<1>3. CursorsMatch' /\ SentMatches' /\ DuringIsNow'
  BY <1>1 DEF SyncInv, TypeOK, CursorsMatch, SentMatches, DuringIsNow
<1>4. AnswersLead'
  BY <1>1 DEF SyncInv, TypeOK, AnswersLead, Base, Errors
<1> QED
  BY <1>2, <1>3, <1>4 DEF SyncInv

LEMMA SyncFromServiceKeepsSync ==
  ASSUME SyncInv, NEW t \in Types, SyncFromService(t)
  PROVE  SyncInv'
<1> DEFINE v == View(rows[t])
           known == CursorOf(sent[t], t).known
<1>1. /\ pc[t] = "client" /\ pc' = [pc EXCEPT ![t] = "return"]
      /\ answer' = [answer EXCEPT ![t] = Answering(t, known, v)]
      /\ UNCHANGED <<rows, sent, copy, cursor, during>>
  BY DiffLeads DEF SyncFromService
<1>2. known = Base(t)
  <2>1. CASE sent[t] = Empty
    BY <2>1 DEF CursorOf, NewCursor, Base
  <2>2. CASE sent[t] # Empty
    <3>1. sent[t] = [type |-> t, known |-> copy[t]]
      BY <1>1, <2>2 DEF SyncInv, SentMatches
    <3> QED
      BY <2>2, <3>1 DEF CursorOf, Base
  <2> QED
    BY <2>1, <2>2
<1>3. v \in Copies /\ v \in during[t]
  BY <1>1, ViewIsCopy DEF SyncInv, TypeOK, DuringIsNow
<1>4. Base(t) \in Copies
  BY NothingIsCopy DEF SyncInv, TypeOK, Base
<1>5. Answering(t, known, v) \in Deltas
  BY <1>2, <1>3, <1>4, MergedLeads
<1>6. TypeOK'
  BY <1>1, <1>5 DEF SyncInv, TypeOK
<1>7. CursorsMatch' /\ SentMatches' /\ DuringIsNow'
  BY <1>1 DEF SyncInv, TypeOK, CursorsMatch, SentMatches, DuringIsNow
<1>8. AnswersLead'
  <2> SUFFICES ASSUME NEW u \in Types, pc'[u] = "return"
               PROVE  \/ answer'[u] \in Errors
                      \/ \E w \in during'[u] :
                           answer'[u] = Answering(u, Base(u)', w)
    BY DEF AnswersLead
  <2>0. Base(u)' = Base(u) /\ during' = during
    BY <1>1 DEF Base
  <2>1. CASE u = t
    BY <1>1, <1>2, <1>3, <2>0, <2>1 DEF SyncInv, TypeOK
  <2>2. CASE u # t
    BY <1>1, <2>0, <2>2 DEF SyncInv, TypeOK, AnswersLead
  <2> QED
    BY <2>1, <2>2
<1> QED
  BY <1>6, <1>7, <1>8 DEF SyncInv

\* An answer that is applied makes copy and cursor what the account held.
LEMMA ApplyTakes ==
  ASSUME SyncInv, NEW t \in Types, Apply(t)
  PROVE  \E v \in during[t] :
           /\ v \in Copies
           /\ copy' = [copy EXCEPT ![t] = v]
           /\ cursor' = [cursor EXCEPT ![t] = [type |-> t, known |-> v]]
<1>1. PICK v \in during[t] : answer[t] = Answering(t, Base(t), v)
  BY DEF Apply, Ends, SyncInv, AnswersLead
<1>2. v \in Copies /\ Base(t) \in Copies
  BY NothingIsCopy DEF SyncInv, TypeOK, Base
<1>3. Merged(Base(t), answer[t]) = v
      /\ answer[t].next = [type |-> t, known |-> v]
  BY <1>1, <1>2, MergedLeads
<1> QED
  BY <1>2, <1>3 DEF Apply, Base

LEMMA EndsKeepsSync ==
  ASSUME SyncInv, NEW t \in Types, Apply(t) \/ Lose(t)
  PROVE  SyncInv'
<1>1. /\ pc' = [pc EXCEPT ![t] = "idle"]
      /\ sent' = [sent EXCEPT ![t] = Empty]
      /\ answer' = [answer EXCEPT ![t] = NoAnswer]
      /\ during' = [during EXCEPT ![t] = {}]
      /\ rows' = rows
  BY DEF Apply, Lose, Ends
<1>2. \/ UNCHANGED <<copy, cursor>>
      \/ \E v \in Copies :
           /\ copy' = [copy EXCEPT ![t] = v]
           /\ cursor' = [cursor EXCEPT ![t] = [type |-> t, known |-> v]]
  BY ApplyTakes DEF Lose
<1>3. TypeOK'
  <2>1. \A v \in Copies : [type |-> t, known |-> v] \in Strings
    BY DEF Strings, Cursors
  <2> QED
    BY <1>1, <1>2, <2>1 DEF SyncInv, TypeOK, Strings
<1>4. CursorsMatch'
  BY <1>2 DEF SyncInv, TypeOK, CursorsMatch
<1>5. \A u \in Types : u # t => copy'[u] = copy[u]
  BY <1>2 DEF SyncInv, TypeOK
<1>6. SentMatches' /\ DuringIsNow'
  BY <1>1, <1>5 DEF SyncInv, TypeOK, SentMatches, DuringIsNow
<1>7. AnswersLead'
  BY <1>1, <1>5 DEF SyncInv, TypeOK, AnswersLead, Base
<1> QED
  BY <1>3, <1>4, <1>6, <1>7 DEF SyncInv

LEMMA ChangeKeepsSync ==
  ASSUME SyncInv, NEW t \in Types, NEW i \in Ids, Change(t, i)
  PROVE  SyncInv'
<1>1. PICK v \in {rows[t][i] + 1, Gone} :
        /\ rows[t][i] # Gone
        /\ rows' = [rows EXCEPT ![t][i] = v]
  BY DEF Change
<1>2. /\ during' = [during EXCEPT ![t] =
           IF pc[t] = "idle" THEN @ ELSE @ \cup {View(rows'[t])}]
      /\ UNCHANGED <<pc, sent, answer, copy, cursor>>
  BY DEF Change
<1>3. v \in 0 .. Gone
  <2>1. rows[t][i] \in 0 .. Gone
    BY DEF SyncInv, TypeOK
  <2> QED
    BY <1>1, <2>1, BoundIsNat DEF Gone
<1>4. rows' \in [Types -> [Ids -> 0 .. Gone]]
  BY <1>1, <1>3 DEF SyncInv, TypeOK
<1>5. View(rows'[t]) \in Copies
  BY <1>4, ViewIsCopy
<1>6. TypeOK'
  BY <1>2, <1>4, <1>5 DEF SyncInv, TypeOK
<1>7. CursorsMatch' /\ SentMatches'
  BY <1>2 DEF SyncInv, CursorsMatch, SentMatches
<1>8. \A u \in Types : during[u] \subseteq during'[u]
  BY <1>2 DEF SyncInv, TypeOK
<1>9. DuringIsNow'
  <2> SUFFICES ASSUME NEW u \in Types, pc[u] # "idle"
               PROVE  View(rows'[u]) \in during'[u]
    BY <1>2 DEF DuringIsNow
  <2>1. CASE u = t
    BY <1>2, <2>1 DEF SyncInv, TypeOK
  <2>2. CASE u # t
    <3>1. rows'[u] = rows[u]
      BY <1>1, <2>2 DEF SyncInv, TypeOK
    <3> QED
      BY <1>8, <3>1 DEF SyncInv, DuringIsNow
  <2> QED
    BY <2>1, <2>2
<1>10. AnswersLead'
  <2>1. \A u \in Types : Base(u)' = Base(u)
    BY <1>2 DEF Base
  <2> QED
    BY <1>2, <1>8, <2>1 DEF SyncInv, AnswersLead
<1> QED
  BY <1>6, <1>7, <1>9, <1>10 DEF SyncInv

LEMMA SyncStep == SyncInv /\ [Next]_vars => SyncInv'
<1> SUFFICES ASSUME SyncInv, [Next]_vars PROVE SyncInv'
  OBVIOUS
<1>1. CASE Next
  BY <1>1, CallKeepsSync, FailKeepsSync, SyncFromServiceKeepsSync,
     EndsKeepsSync, ChangeKeepsSync DEF Next
<1>2. CASE UNCHANGED vars
  BY <1>2 DEF vars, SyncInv, TypeOK, CursorsMatch, SentMatches, DuringIsNow,
              AnswersLead, Base, Answering
<1> QED
  BY <1>1, <1>2

\* Every state of the sync tools and their callers satisfies the invariant.
THEOREM SyncInvHolds == Spec => []SyncInv
  BY SyncInit, SyncStep, PTL DEF Spec

\* Cursors, answers and copies are always what their kinds allow: a cursor
\* that is answered is one the tool can read back (read_sync.go:67-99).
THEOREM SyncTypesHold == Spec => []TypeOK
  BY SyncInvHolds, PTL DEF SyncInv

\* When a sync call succeeds, the caller's copy is what the account held at
\* some moment of the call, whichever cursor it passed and however many
\* answers were lost before (read_sync.go:67-99, 332-369).
THEOREM CopiesAreCurrent == Spec => CopyIsCurrent
<1>1. ASSUME SyncInv, Next, NEW t \in Types, cursor'[t] # cursor[t]
      PROVE  copy'[t] \in during[t]
  <2>1. PICK u \in Types : Apply(u)
    BY <1>1 DEF Next, Call, Fail, SyncFromService, Lose, Change
  <2>2. PICK v \in during[u] :
          /\ copy' = [copy EXCEPT ![u] = v]
          /\ cursor' = [cursor EXCEPT ![u] = [type |-> u, known |-> v]]
    BY <1>1, <2>1, ApplyTakes
  <2> QED
    BY <1>1, <2>2 DEF SyncInv, TypeOK
<1>2. SyncInv /\ [Next]_vars =>
        [\A t \in Types : cursor'[t] # cursor[t] =>
           copy'[t] \in during[t]]_vars
  BY <1>1
<1> QED
  BY <1>2, SyncInvHolds, PTL DEF Spec, CopyIsCurrent
-----------------------------------------------------------------------------
(* Sequences, for the walk. *)

\* A sequence has finitely many elements, as many as places if it repeats
\* nothing.
LEMMA RangeIsFinite ==
  ASSUME NEW S, NEW s \in Seq(S)
  PROVE  /\ IsFiniteSet(Range(s)) /\ Cardinality(Range(s)) \in Nat
         /\ Cardinality(Range(s)) <= Len(s)
         /\ IsInjective(s) => Cardinality(Range(s)) = Len(s)
<1>1. /\ Len(s) \in Nat /\ DOMAIN s = 1 .. Len(s)
      /\ s \in Surjection(1 .. Len(s), Range(s))
  BY LenProperties DEF Surjection, Range
<1>2. IsFiniteSet(1 .. Len(s)) /\ Cardinality(1 .. Len(s)) = Len(s)
  BY <1>1, FS_Interval
<1>3. /\ IsFiniteSet(Range(s)) /\ Cardinality(Range(s)) <= Len(s)
      /\ s \in Injection(1 .. Len(s), Range(s)) =>
           Cardinality(Range(s)) = Len(s)
  BY <1>1, <1>2, FS_Surjection
<1>4. IsInjective(s) => s \in Injection(1 .. Len(s), Range(s))
  BY <1>1 DEF Injection, Surjection, IsInjective
<1> QED
  BY <1>3, <1>4, FS_CardinalityType

\* What is in one sequence after another.
LEMMA Concatenated ==
  ASSUME NEW S, NEW s \in Seq(S), NEW t \in Seq(S)
  PROVE  /\ s \o t \in Seq(S)
         /\ Range(s \o t) = Range(s) \cup Range(t)
         /\ Len(s \o t) = Len(s) + Len(t)
<1> DEFINE c == s \o t
<1>1. /\ c \in Seq(S) /\ Len(c) = Len(s) + Len(t)
      /\ \A i \in 1 .. Len(s) + Len(t) :
           c[i] = IF i <= Len(s) THEN s[i] ELSE t[i - Len(s)]
  BY ConcatProperties
<1>2. /\ DOMAIN c = 1 .. Len(c) /\ DOMAIN s = 1 .. Len(s)
      /\ DOMAIN t = 1 .. Len(t) /\ Len(s) \in Nat /\ Len(t) \in Nat
  BY <1>1, LenProperties
<1> HIDE DEF c
<1>3. Range(c) = Range(s) \cup Range(t)
  <2>1. ASSUME NEW x \in Range(s) PROVE x \in Range(c)
    <3>1. PICK a \in 1 .. Len(s) : s[a] = x
      BY <1>2 DEF Range
    <3> QED
      BY <1>1, <1>2, <3>1 DEF Range
  <2>2. ASSUME NEW x \in Range(t) PROVE x \in Range(c)
    <3>1. PICK a \in 1 .. Len(t) : t[a] = x
      BY <1>2 DEF Range
    <3>2. /\ a + Len(s) \in 1 .. Len(s) + Len(t)
          /\ ~(a + Len(s) <= Len(s)) /\ (a + Len(s)) - Len(s) = a
      BY <1>2
    <3>3. c[a + Len(s)] = x
      BY <1>1, <3>1, <3>2
    <3> QED
      BY <1>1, <1>2, <3>2, <3>3 DEF Range
  <2>3. ASSUME NEW x \in Range(c) PROVE x \in Range(s) \cup Range(t)
    <3>1. PICK a \in 1 .. Len(c) : c[a] = x
      BY <1>2 DEF Range
    <3>2. CASE a <= Len(s)
      <4>1. a \in 1 .. Len(s) /\ s[a] = x
        BY <1>1, <1>2, <3>1, <3>2
      <4> QED
        BY <1>2, <4>1 DEF Range
    <3>3. CASE a > Len(s)
      <4>1. a - Len(s) \in 1 .. Len(t) /\ t[a - Len(s)] = x
        BY <1>1, <1>2, <3>1, <3>3
      <4> QED
        BY <1>2, <4>1 DEF Range
    <3> QED
      BY <1>2, <3>2, <3>3
  <2> QED
    BY <2>1, <2>2, <2>3
<1> QED
  BY <1>1, <1>3 DEF c

\* What RemoveAt leaves: everything but one place, what follows moved up.
LEMMA Removed ==
  ASSUME NEW S, NEW s \in Seq(S), NEW i \in DOMAIN s
  PROVE  /\ RemoveAt(s, i) \in Seq(S)
         /\ Len(RemoveAt(s, i)) = Len(s) - 1
         /\ \A j \in 1 .. Len(s) - 1 :
              RemoveAt(s, i)[j] = IF j < i THEN s[j] ELSE s[j + 1]
<1> DEFINE u == SubSeq(s, 1, i - 1)
           v == SubSeq(s, i + 1, Len(s))
<1>1. /\ Len(s) \in Nat /\ i \in 1 .. Len(s)
      /\ \A j \in 1 .. Len(s) : s[j] \in S
  BY LenProperties, ElementOfSeq
<1>2. /\ u \in Seq(S) /\ Len(u) = i - 1
      /\ \A j \in 1 .. i - 1 : u[j] = s[j]
  <2>1. 1 \in Int /\ i - 1 \in Int /\ \A j \in 1 .. i - 1 : s[j] \in S
    BY <1>1
  <2>2. /\ u \in Seq(S)
        /\ Len(u) = IF 1 <= i - 1 THEN (i - 1) - 1 + 1 ELSE 0
        /\ \A j \in 1 .. (i - 1) - 1 + 1 : u[j] = s[1 + j - 1]
    BY <2>1, SubSeqProperties
  <2> QED
    BY <1>1, <2>2
<1>3. /\ v \in Seq(S) /\ Len(v) = Len(s) - i
      /\ \A j \in 1 .. Len(s) - i : v[j] = s[i + j]
  <2>1. /\ i + 1 \in Int /\ Len(s) \in Int
        /\ \A j \in i + 1 .. Len(s) : s[j] \in S
    BY <1>1
  <2>2. /\ v \in Seq(S)
        /\ Len(v) = IF i + 1 <= Len(s) THEN Len(s) - (i + 1) + 1 ELSE 0
        /\ \A j \in 1 .. Len(s) - (i + 1) + 1 : v[j] = s[(i + 1) + j - 1]
    BY <2>1, SubSeqProperties
  <2> QED
    BY <1>1, <2>2
<1>4. RemoveAt(s, i) = u \o v
  BY DEF RemoveAt
<1> HIDE DEF u, v
<1>5. /\ u \o v \in Seq(S) /\ Len(u \o v) = Len(u) + Len(v)
      /\ \A j \in 1 .. Len(u) + Len(v) :
           (u \o v)[j] = IF j <= Len(u) THEN u[j] ELSE v[j - Len(u)]
  BY <1>2, <1>3, ConcatProperties
<1>6. Len(u) + Len(v) = Len(s) - 1
  BY <1>1, <1>2, <1>3
<1>7. ASSUME NEW j \in 1 .. Len(s) - 1
      PROVE  (u \o v)[j] = IF j < i THEN s[j] ELSE s[j + 1]
  <2>1. CASE j < i
    BY <1>1, <1>2, <1>5, <1>6, <2>1
  <2>2. CASE j >= i
    <3>1. /\ j - (i - 1) \in 1 .. Len(s) - i
          /\ i + (j - (i - 1)) = j + 1
          /\ ~(j <= i - 1) /\ ~(j < i)
      BY <1>1, <2>2
    <3>2. (u \o v)[j] = v[j - (i - 1)]
      BY <1>2, <1>5, <1>6, <3>1
    <3> QED
      BY <1>3, <3>1, <3>2
  <2>3. j < i \/ j >= i
    BY <1>1
  <2> QED
    BY <2>1, <2>2, <2>3
<1> QED
  BY <1>4, <1>5, <1>6, <1>7

\* What InsertAt makes: what was there, with one place more.
LEMMA Inserted ==
  ASSUME NEW S, NEW s \in Seq(S), NEW e \in S, NEW i \in 1 .. Len(s) + 1
  PROVE  /\ InsertAt(s, i, e) \in Seq(S)
         /\ Len(InsertAt(s, i, e)) = Len(s) + 1
         /\ \A j \in 1 .. Len(s) + 1 :
              InsertAt(s, i, e)[j] =
                IF j < i THEN s[j] ELSE IF j = i THEN e ELSE s[j - 1]
<1> DEFINE u == SubSeq(s, 1, i - 1)
           v == SubSeq(s, i, Len(s))
           w == u \o <<e>>
<1>1. /\ Len(s) \in Nat /\ i \in Int
      /\ \A j \in 1 .. Len(s) : s[j] \in S
  BY LenProperties, ElementOfSeq
<1>2. /\ u \in Seq(S) /\ Len(u) = i - 1
      /\ \A j \in 1 .. i - 1 : u[j] = s[j]
  <2>1. 1 \in Int /\ i - 1 \in Int /\ \A j \in 1 .. i - 1 : s[j] \in S
    BY <1>1
  <2>2. /\ u \in Seq(S)
        /\ Len(u) = IF 1 <= i - 1 THEN (i - 1) - 1 + 1 ELSE 0
        /\ \A j \in 1 .. (i - 1) - 1 + 1 : u[j] = s[1 + j - 1]
    BY <2>1, SubSeqProperties
  <2> QED
    BY <1>1, <2>2
<1>3. /\ v \in Seq(S) /\ Len(v) = Len(s) - i + 1
      /\ \A j \in 1 .. Len(s) - i + 1 : v[j] = s[i + j - 1]
  <2>1. Len(s) \in Int /\ \A j \in i .. Len(s) : s[j] \in S
    BY <1>1
  <2>2. /\ v \in Seq(S)
        /\ Len(v) = IF i <= Len(s) THEN Len(s) - i + 1 ELSE 0
        /\ \A j \in 1 .. Len(s) - i + 1 : v[j] = s[i + j - 1]
    BY <1>1, <2>1, SubSeqProperties
  <2> QED
    BY <1>1, <2>2
<1>4. InsertAt(s, i, e) = w \o v
  BY DEF InsertAt
<1>5. <<e>> \in Seq(S) /\ Len(<<e>>) = 1 /\ <<e>>[1] = e
  OBVIOUS
<1> HIDE DEF u, v
<1>6. /\ w \in Seq(S) /\ Len(w) = i
      /\ \A j \in 1 .. i : w[j] = IF j < i THEN s[j] ELSE e
  <2>1. /\ w \in Seq(S) /\ Len(w) = Len(u) + 1
        /\ \A j \in 1 .. Len(u) + 1 :
             w[j] = IF j <= Len(u) THEN u[j] ELSE <<e>>[j - Len(u)]
    BY <1>2, <1>5, ConcatProperties
  <2>2. ASSUME NEW j \in 1 .. i PROVE w[j] = IF j < i THEN s[j] ELSE e
    <3>1. CASE j < i
      BY <1>1, <1>2, <2>1, <3>1
    <3>2. CASE j = i
      <4>1. j - Len(u) = 1 /\ ~(j <= Len(u)) /\ j \in 1 .. Len(u) + 1
        BY <1>1, <1>2, <3>2
      <4> QED
        BY <1>5, <2>1, <3>2, <4>1
    <3>3. j < i \/ j = i
      BY <1>1
    <3> QED
      BY <3>1, <3>2, <3>3
  <2> QED
    BY <1>1, <1>2, <2>1, <2>2
<1> HIDE DEF w
<1>7. /\ w \o v \in Seq(S) /\ Len(w \o v) = Len(w) + Len(v)
      /\ \A j \in 1 .. Len(w) + Len(v) :
           (w \o v)[j] = IF j <= Len(w) THEN w[j] ELSE v[j - Len(w)]
  BY <1>3, <1>6, ConcatProperties
<1>8. Len(w) + Len(v) = Len(s) + 1
  BY <1>1, <1>3, <1>6
<1>9. ASSUME NEW j \in 1 .. Len(s) + 1
      PROVE  (w \o v)[j] =
               IF j < i THEN s[j] ELSE IF j = i THEN e ELSE s[j - 1]
  <2>1. CASE j <= i
    BY <1>1, <1>6, <1>7, <1>8, <2>1
  <2>2. CASE j > i
    <3>1. /\ j - i \in 1 .. Len(s) - i + 1
          /\ i + (j - i) - 1 = j - 1
          /\ ~(j <= i) /\ ~(j < i) /\ j # i
      BY <1>1, <2>2
    <3>2. (w \o v)[j] = v[j - i]
      BY <1>6, <1>7, <1>8, <3>1
    <3>3. v[j - i] = s[j - 1]
      BY <1>3, <3>1
    <3> QED
      BY <3>1, <3>2, <3>3
  <2>3. j <= i \/ j > i
    BY <1>1
  <2> QED
    BY <2>1, <2>2, <2>3
<1> QED
  BY <1>4, <1>7, <1>8, <1>9
-----------------------------------------------------------------------------
(* The walk. *)

LEMMA HereIsNat ==
  ASSUME start \in Int
  PROVE  Here \in Nat /\ Here = (IF start < 0 THEN 0 ELSE start)
  BY DEF Here, NonNegative

LEMMA ClampIsPositive ==
  ASSUME NEW n \in Int
  PROVE  ClampLimit(n) \in Nat \ {0}
<1>1. DefaultLimit \in Nat \ {0} /\ MaxLimit \in Nat /\ DefaultLimit <= MaxLimit
  BY ListingAssumption
<1> QED
  BY <1>1 DEF ClampLimit

\* A page is what stands from its start on, at least one entry unless the
\* list ends before.
LEMMA PageIs ==
  ASSUME list \in Seq(Entries), NEW p \in Nat, NEW l \in Nat \ {0}
  PROVE  LET q == Query(p, l)
         IN  /\ q \in Seq(Entries) /\ Len(q) \in Nat
             /\ p < Len(list) => Len(q) > 0 /\ p + Len(q) <= Len(list)
             /\ p >= Len(list) => Len(q) = 0
             /\ \A j \in 1 .. Len(q) : q[j] = list[p + j]
<1> DEFINE q == Query(p, l)
           e == IF p + l < Len(list) THEN p + l ELSE Len(list)
<1>1. Len(list) \in Nat /\ \A j \in 1 .. Len(list) : list[j] \in Entries
  BY LenProperties, ElementOfSeq
<1>2. e \in Int /\ e <= Len(list) /\ p + 1 \in Int
  BY <1>1
<1>3. \A j \in p + 1 .. e : list[j] \in Entries
  BY <1>1, <1>2
<1>4. q = SubSeq(list, p + 1, e)
  BY DEF Query
<1>5. p < Len(list) => p + 1 <= e
  BY <1>1
<1>6. p >= Len(list) => ~(p + 1 <= e)
  BY <1>1
<1> HIDE DEF e, q
<1>7. /\ q \in Seq(Entries)
      /\ Len(q) = IF p + 1 <= e THEN e - (p + 1) + 1 ELSE 0
      /\ \A j \in 1 .. e - (p + 1) + 1 : q[j] = list[(p + 1) + j - 1]
  BY <1>2, <1>3, <1>4, SubSeqProperties
<1>8. \A j \in 1 .. Len(q) : q[j] = list[p + j]
  BY <1>1, <1>2, <1>7
<1>9. Len(q) \in Nat
  BY <1>2, <1>7
<1>10. p < Len(list) => Len(q) > 0 /\ p + Len(q) <= Len(list)
  BY <1>1, <1>2, <1>5, <1>7
<1>11. p >= Len(list) => Len(q) = 0
  BY <1>6, <1>7
<1> QED
  BY <1>7, <1>8, <1>9, <1>10, <1>11 DEF q

\* A page has as many rows as entries.
LEMMA RowsAreEntries ==
  ASSUME NEW q \in Seq(Entries)
  PROVE  Len(Mapped(Entity, q)) = Len(q)
<1> DEFINE T == {Entity(q[j]) : j \in DOMAIN q}
           m == [j \in DOMAIN q |-> Entity(q[j])]
<1>1. DOMAIN q = 1 .. Len(q) /\ Len(q) \in Nat
  BY LenProperties
<1>2. m \in [1 .. Len(q) -> T]
  BY <1>1
<1>3. m \in Seq(T) /\ DOMAIN m = 1 .. Len(q)
  BY <1>1, <1>2, SeqDef
<1>4. DOMAIN m = 1 .. Len(m) /\ Len(m) \in Nat
  BY <1>3, LenProperties
<1>5. m = Mapped(Entity, q)
  BY DEF Mapped
<1> HIDE DEF m
<1>6. Len(m) = Len(q)
  BY <1>1, <1>3, <1>4
<1> QED
  BY <1>5, <1>6

\* What lies in two finite sets is no more than both.
LEMMA InBoth ==
  ASSUME NEW S, IsFiniteSet(S), NEW T, IsFiniteSet(T), NEW R \in SUBSET (S \cup T)
  PROVE  /\ IsFiniteSet(R) /\ Cardinality(R) \in Nat
         /\ Cardinality(S) \in Nat /\ Cardinality(T) \in Nat
         /\ Cardinality(R) <= Cardinality(S) + Cardinality(T)
<1>1. /\ IsFiniteSet(S \cup T)
      /\ Cardinality(S \cup T) =
           Cardinality(S) + Cardinality(T) - Cardinality(S \cap T)
  BY FS_Union
<1>2. IsFiniteSet(S \cap T) /\ IsFiniteSet(R)
      /\ Cardinality(R) <= Cardinality(S \cup T)
  <2>1. S \cap T \in SUBSET S
    OBVIOUS
  <2> QED
    BY <1>1, <2>1, FS_Subset
<1>3. /\ Cardinality(S) \in Nat /\ Cardinality(T) \in Nat
      /\ Cardinality(S \cap T) \in Nat /\ Cardinality(R) \in Nat
      /\ Cardinality(S \cup T) \in Nat
  BY <1>1, <1>2, FS_CardinalityType
<1> QED
  BY <1>1, <1>2, <1>3

LEMMA PartsAreFinite ==
  ASSUME list \in Seq(Entries), seen \in Seq(Entries)
  PROVE  /\ IsFiniteSet(Skipped) /\ Cardinality(Skipped) \in Nat
         /\ IsFiniteSet(Again) /\ Cardinality(Again) \in Nat
<1>1. IsFiniteSet(Range(list)) /\ IsFiniteSet(Range(seen))
  BY RangeIsFinite
<1>2. Skipped \in SUBSET Range(list) /\ Again \in SUBSET Range(seen)
  BY DEF Skipped, Again, Behind, Range
<1> QED
  BY <1>1, <1>2, FS_Subset, FS_CardinalityType

\* A caller that has seen nothing has missed nothing so far.
LEMMA FreshWalk ==
  ASSUME start \in Int, start <= 0, list \in Seq(Entries), seen = <<>>
  PROVE  /\ Here = 0 /\ seen \in Seq(Entries)
         /\ Cardinality(Skipped) = 0 /\ Short = 0
         /\ Len(seen) + Cardinality(Again) = 0
         /\ Cardinality(Range(seen)) = 0
<1>1. Here = 0
  BY DEF Here, NonNegative
<1>2. DOMAIN list = 1 .. Len(list) /\ Len(list) \in Nat
  BY LenProperties
<1>3. Range(seen) = {} /\ Len(seen) = 0 /\ seen \in Seq(Entries)
  BY DEF Range
<1>4. Skipped = {} /\ Again = {} /\ Short = 0
  BY <1>1, <1>2, <1>3 DEF Skipped, Again, Behind, Short
<1> QED
  BY <1>1, <1>3, <1>4, FS_EmptySet

LEMMA WalkStarts == WalkInit => WalkInv
<1> SUFFICES ASSUME WalkInit PROVE WalkInv
  OBVIOUS
<1>1. /\ list = Initial /\ tool = AnyTool /\ limit = 0 /\ start = 0
      /\ seen = <<>> /\ pages = 0 /\ walking = FALSE
      /\ up = 0 /\ down = 0 /\ touched = {}
  BY DEF WalkInit
<1>2. /\ list \in Seq(Entries) /\ IsInjective(list) /\ MaxChanges \in Nat
      /\ \E d \in Descriptors : Mounts(d)
  BY <1>1, ListingAssumption
<1>3. tool \in Descriptors
  BY <1>1, <1>2 DEF AnyTool
<1>4. /\ Here = 0 /\ seen \in Seq(Entries)
      /\ Cardinality(Skipped) = 0 /\ Short = 0
      /\ Len(seen) + Cardinality(Again) = 0 /\ Cardinality(Range(seen)) = 0
  BY <1>1, <1>2, FreshWalk
<1>5. /\ Cardinality(Skipped) + Short <= up
      /\ Len(seen) + Cardinality(Again) <= Cardinality(Range(seen)) + down
  BY <1>1, <1>4
<1>6. /\ limit \in Int /\ start \in Int /\ pages \in Nat
      /\ up \in 0 .. MaxChanges /\ down \in 0 .. MaxChanges
      /\ touched \subseteq Entries
  BY <1>1, <1>2
<1>7. walking \in BOOLEAN /\ ~walking
  BY <1>1, Zenon
<1>8. pages <= Here + 1 /\ ~(pages > 0)
  BY <1>1, <1>4
<1> QED
  BY <1>2, <1>3, <1>4, <1>5, <1>6, <1>7, <1>8 DEF WalkInv

LEMMA PageKeepsWalk ==
  ASSUME WalkInv, Page
  PROVE  WalkInv'
<1> DEFINE n == Len(list)
           l == ClampLimit(limit)
           q == Query(Here, l)
<1>1. /\ walking
      /\ seen' = seen \o q
      /\ start' = Here + Len(Mapped(Entity, q))
      /\ pages' = pages + 1
      /\ walking' = (Here + Len(Mapped(Entity, q)) < n)
      /\ UNCHANGED <<list, tool, limit, up, down, touched>>
  BY DEF Page, ListFromService, Here, NonNegative
<1>2. /\ list \in Seq(Entries) /\ seen \in Seq(Entries)
      /\ Here \in Nat /\ n \in Nat /\ l \in Nat \ {0}
      /\ DOMAIN list = 1 .. n
  BY HereIsNat, ClampIsPositive, LenProperties DEF WalkInv
<1>3. /\ q \in Seq(Entries) /\ Len(q) \in Nat
      /\ Here < n => Len(q) > 0 /\ Here + Len(q) <= n
      /\ Here >= n => Len(q) = 0
      /\ \A j \in 1 .. Len(q) : q[j] = list[Here + j]
  BY <1>2, PageIs
<1>4. /\ start' = Here + Len(q)
      /\ walking' = (Here + Len(q) < n)
  BY <1>1, <1>3, RowsAreEntries
<1> HIDE DEF n, l, q
<1>5. Here' = Here + Len(q) /\ start' \in Int
  BY <1>2, <1>3, <1>4 DEF Here, NonNegative
<1>6. DOMAIN q = 1 .. Len(q)
  BY <1>3, LenProperties
<1>7. Len(q) > 0 => Here + Len(q) <= n
  BY <1>2, <1>3
<1>8. \A j \in DOMAIN q : Here + j \in DOMAIN list /\ Here + j > Here
  BY <1>2, <1>3, <1>6, <1>7
<1>9. IsInjective(q)
  <2>1. \A a, b \in DOMAIN q : list[Here + a] = list[Here + b] =>
          Here + a = Here + b
    BY <1>8 DEF WalkInv, IsInjective
  <2>2. \A a, b \in DOMAIN q : Here + a = Here + b => a = b
    BY <1>2, <1>3, <1>6
  <2> QED
    BY <1>3, <1>6, <2>1, <2>2 DEF IsInjective
<1>10. /\ seen' \in Seq(Entries) /\ Len(seen') = Len(seen) + Len(q)
       /\ Range(seen') = Range(seen) \cup Range(q)
  BY <1>1, <1>2, <1>3, Concatenated
<1>11. /\ IsFiniteSet(Range(seen)) /\ Cardinality(Range(seen)) \in Nat
       /\ IsFiniteSet(Range(q)) /\ Cardinality(Range(q)) = Len(q)
       /\ IsFiniteSet(Again) /\ Cardinality(Again) \in Nat
       /\ Len(seen) \in Nat
  BY <1>2, <1>3, <1>9, RangeIsFinite, PartsAreFinite, LenProperties
<1>12. (Len(seen) + Cardinality(Again) <= Cardinality(Range(seen)) + down)'
  <2> DEFINE both == Range(seen) \cap Range(q)
             rest == Again \ both
  <2>1. Again' \in SUBSET rest
    <3> SUFFICES ASSUME NEW j \in DOMAIN list, j > Here + Len(q),
                        list[j] \in Range(seen')
                 PROVE  list[j] \in Again /\ list[j] \notin Range(q)
      BY <1>1, <1>5 DEF Again, Ahead
    <3>1. j > Here
      BY <1>2, <1>3
    <3>2. ASSUME NEW a \in DOMAIN q, q[a] = list[j] PROVE FALSE
      <4>1. list[Here + a] = list[j] /\ Here + a \in DOMAIN list
        BY <1>3, <1>6, <1>8, <3>2
      <4>2. Here + a = j
        BY <4>1 DEF WalkInv, IsInjective
      <4> QED
        BY <1>2, <1>3, <1>6, <4>2
    <3>3. list[j] \notin Range(q)
      BY <3>2 DEF Range
    <3> QED
      BY <1>10, <3>1, <3>3 DEF Again, Ahead
  <2>2. both \in SUBSET Again
    <3> SUFFICES ASSUME NEW a \in DOMAIN q, q[a] \in Range(seen)
                 PROVE  q[a] \in Again
      BY DEF Range
    <3>1. q[a] = list[Here + a] /\ Here + a \in DOMAIN list /\ Here + a > Here
      BY <1>3, <1>6, <1>8
    <3> QED
      BY <3>1 DEF Again, Ahead
  <2>3. IsFiniteSet(both) /\ IsFiniteSet(rest) /\ IsFiniteSet(Again')
        /\ Cardinality(Again') <= Cardinality(rest)
    <3>1. rest \in SUBSET Again
      OBVIOUS
    <3> HIDE DEF rest, both
    <3> QED
      BY <1>11, <2>1, <2>2, <3>1, FS_Subset
  <2>4. Again = both \cup rest /\ both \cap rest = {}
    BY <2>2
  <2>5. Cardinality(both \cap rest) = 0
    BY <2>4, FS_EmptySet
  <2>6. /\ Cardinality(both \cup rest) = Cardinality(both) + Cardinality(rest)
                                           - Cardinality(both \cap rest)
        /\ Cardinality(Range(seen) \cup Range(q)) =
             Cardinality(Range(seen)) + Cardinality(Range(q)) - Cardinality(both)
    BY <1>11, <2>3, FS_Union
  <2>7. /\ Cardinality(both) \in Nat /\ Cardinality(rest) \in Nat
        /\ Cardinality(Again') \in Nat
    BY <2>3, FS_CardinalityType
  <2>8. /\ Cardinality(Range(seen')) =
             Cardinality(Range(seen)) + Len(q) - Cardinality(both)
        /\ Cardinality(Again) = Cardinality(both) + Cardinality(rest)
    <3>1. Cardinality(Again) = Cardinality(both \cup rest)
      BY <2>4
    <3> HIDE DEF both, rest
    <3> QED
      BY <1>10, <1>11, <2>5, <2>6, <2>7, <3>1
  <2>9. /\ Len(seen) + Cardinality(Again) <= Cardinality(Range(seen)) + down
        /\ down \in Int
    BY DEF WalkInv
  <2> HIDE DEF both, rest
  <2>10. Len(seen') + Cardinality(Again') <= Cardinality(Range(seen')) + down
    <3>1. /\ Len(seen') = Len(seen) + Len(q) /\ Len(seen) \in Int
          /\ Len(q) \in Int /\ Cardinality(Range(seen)) \in Int
          /\ Cardinality(Again') <= Cardinality(rest)
      BY <1>3, <1>10, <1>11, <2>3
    <3> QED
      BY <2>7, <2>8, <2>9, <3>1
  <2> QED
    BY <1>1, <2>10
<1>13. Skipped' \in SUBSET Skipped
  <2> SUFFICES ASSUME NEW j \in DOMAIN list, j <= Here + Len(q),
                      list[j] \notin Range(seen') \cup touched
               PROVE  j <= Here /\ list[j] \notin Range(seen) \cup touched
    BY <1>1, <1>5 DEF Skipped, Behind
  <2>1. ASSUME j > Here PROVE FALSE
    <3>1. j - Here \in 1 .. Len(q) /\ Here + (j - Here) = j
      BY <1>2, <1>3, <2>1
    <3>2. q[j - Here] = list[j]
      BY <1>3, <3>1
    <3> QED
      BY <1>6, <1>10, <3>1, <3>2 DEF Range
  <2> QED
    BY <1>2, <1>10, <2>1
<1>14. Cardinality(Skipped') <= Cardinality(Skipped)
       /\ Cardinality(Skipped') \in Nat /\ Cardinality(Skipped) \in Nat
  BY <1>2, <1>13, PartsAreFinite, FS_Subset, FS_CardinalityType
<1>15. Short' = Short /\ Short \in Nat
  <2>1. Short' = IF Here + Len(q) > n THEN Here + Len(q) - n ELSE 0
    <3>1. Short' = IF Here' > Len(list') THEN Here' - Len(list') ELSE 0
      BY DEF Short
    <3>2. Here' = Here + Len(q) /\ Len(list') = n
      BY <1>1, <1>5 DEF n
    <3> QED
      BY <1>2, <1>3, <3>1, <3>2
  <2>2. Short = IF Here > n THEN Here - n ELSE 0
    BY DEF Short, n
  <2> QED
    BY <1>2, <1>3, <2>1, <2>2
<1>16. (Cardinality(Skipped) + Short <= up)'
  <2>1. Cardinality(Skipped) + Short <= up /\ up \in Int
    BY DEF WalkInv
  <2> QED
    BY <1>1, <1>14, <1>15, <2>1
<1>17. pages \in Nat /\ pages <= Here
  BY <1>1 DEF WalkInv
<1>18. (pages <= IF walking THEN Here ELSE Here + 1)'
  <2>1. CASE Here + Len(q) < n
    <3>1. walking'
      BY <1>4, <2>1, Zenon
    <3>3. Len(q) > 0
      BY <1>2, <1>3, <2>1
    <3>2. pages + 1 <= Here + Len(q)
      BY <1>2, <1>3, <1>17, <3>3
    <3> QED
      BY <1>1, <1>5, <3>1, <3>2
  <2>2. CASE ~(Here + Len(q) < n)
    <3>1. ~walking'
      BY <1>4, <2>2
    <3>2. pages + 1 <= Here + Len(q) + 1
      BY <1>2, <1>3, <1>17
    <3> QED
      BY <1>1, <1>5, <3>1, <3>2
  <2> QED
    BY <2>1, <2>2
<1>19. (~walking /\ pages > 0 => Len(list) <= Here)'
  <2>1. ~walking' => ~(Here + Len(q) < n)
    BY <1>4, Zenon
  <2>2. ~(Here + Len(q) < n) => n <= Here + Len(q)
    BY <1>2, <1>3
  <2> QED
    BY <1>1, <1>5, <2>1, <2>2 DEF n
<1>20. pages' \in Nat /\ walking' \in BOOLEAN
  BY <1>1, <1>17
<1> QED
  BY <1>1, <1>5, <1>10, <1>12, <1>16, <1>18, <1>19, <1>20 DEF WalkInv

\* A bound holds on if it grows by as much as what it bounds.
LEMMA BoundGrows ==
  ASSUME NEW c \in Int, NEW d \in Int, NEW x \in Int, d <= c + x,
         NEW a \in Int, NEW b \in Int, NEW u \in Int, NEW v \in Int,
         c + a <= u, u + x + b <= v + a
  PROVE  d + b <= v
  OBVIOUS

LEMMA SumGrows ==
  ASSUME NEW c \in Int, NEW d \in Int, NEW x \in Int, d <= c + x,
         NEW a \in Int, NEW b \in Int, NEW u \in Int, NEW v \in Int,
         a + c <= b + u, u + x <= v
  PROVE  a + d <= b + v
  OBVIOUS

\* What a change of the list does to a walk: X are the entries that slip behind
\* the caller unseen, Y those that come before it once more.  Both have to be
\* counted.
LEMMA CountedChange ==
  ASSUME WalkInv, walking,
         UNCHANGED <<tool, limit, start, seen, pages, walking>>,
         list' \in Seq(Entries), IsInjective(list'),
         touched \subseteq touched', touched' \subseteq Entries,
         NEW X, IsFiniteSet(X), NEW Y, IsFiniteSet(Y),
         Behind(list', Here) \subseteq Behind(list, Here) \cup touched' \cup X,
         Ahead(list', Here) \subseteq Ahead(list, Here) \cup Y,
         up' \in 0 .. MaxChanges, down' \in 0 .. MaxChanges,
         Short' \in Int,
         up + Cardinality(X) + Short' <= up' + Short,
         down + Cardinality(Y) <= down'
  PROVE  WalkInv'
<1>1. Here' = Here
  BY DEF Here
<1>2. list \in Seq(Entries) /\ seen \in Seq(Entries) /\ Here \in Nat
      /\ Len(list) \in Nat
  BY HereIsNat, LenProperties DEF WalkInv
<1>3. /\ Cardinality(Skipped) + Short <= up /\ up \in Int
      /\ Len(seen) + Cardinality(Again) <= Cardinality(Range(seen)) + down
      /\ down \in Int /\ up' \in Int /\ down' \in Int
  BY ListingAssumption DEF WalkInv
<1>4. /\ Short \in Int /\ Len(seen) \in Int
      /\ IsFiniteSet(Range(seen)) /\ Cardinality(Range(seen)) \in Int
  BY <1>2, RangeIsFinite, LenProperties DEF Short
<1>5. IsFiniteSet(Skipped) /\ IsFiniteSet(Again)
  BY <1>2, PartsAreFinite
<1>6. Skipped' \in SUBSET (Skipped \cup X)
  <2>1. Skipped' = Behind(list', Here) \ (Range(seen) \cup touched')
    BY <1>1 DEF Skipped, Behind
  <2> QED
    BY <2>1 DEF Skipped
<1>7. Again' \in SUBSET (Again \cup Y)
  <2>1. Again' = Ahead(list', Here) \cap Range(seen)
    BY <1>1 DEF Again, Ahead
  <2> QED
    BY <2>1 DEF Again
<1>8. /\ Cardinality(Skipped') <= Cardinality(Skipped) + Cardinality(X)
      /\ Cardinality(Skipped') \in Nat /\ Cardinality(Skipped) \in Nat
      /\ Cardinality(X) \in Nat
  BY <1>5, <1>6, InBoth
<1>9. /\ Cardinality(Again') <= Cardinality(Again) + Cardinality(Y)
      /\ Cardinality(Again') \in Nat /\ Cardinality(Again) \in Nat
      /\ Cardinality(Y) \in Nat
  BY <1>5, <1>7, InBoth
<1>10. Cardinality(Skipped') + Short' <= up'
  <2>1. up + Cardinality(X) + Short' <= up' + Short
    OBVIOUS
  <2>2. /\ Short' \in Int /\ Short \in Int /\ up \in Int /\ up' \in Int
        /\ Cardinality(Skipped) \in Int /\ Cardinality(Skipped') \in Int
        /\ Cardinality(X) \in Int
    BY <1>3, <1>4, <1>8
  <2> QED
    BY <1>3, <1>8, <2>1, <2>2, BoundGrows, Zenon
<1>11. Len(seen) + Cardinality(Again') <= Cardinality(Range(seen)) + down'
  <2>1. down + Cardinality(Y) <= down'
    OBVIOUS
  <2>2. /\ Len(seen) \in Int /\ Cardinality(Range(seen)) \in Int
        /\ down \in Int /\ down' \in Int /\ Cardinality(Y) \in Int
        /\ Cardinality(Again) \in Int /\ Cardinality(Again') \in Int
    BY <1>3, <1>4, <1>9
  <2> QED
    BY <1>3, <1>9, <2>1, <2>2, SumGrows, Zenon
<1>12. (Len(seen) + Cardinality(Again) <= Cardinality(Range(seen)) + down)'
  BY <1>11
<1>13. /\ tool' = tool /\ limit' = limit /\ start' = start /\ seen' = seen
       /\ pages' = pages
  OBVIOUS
<1>14. walking' /\ walking' \in BOOLEAN
  BY Zenon DEF WalkInv
<1>15. /\ limit' \in Int /\ start' \in Int /\ tool' \in Descriptors
       /\ pages' \in Nat /\ seen' \in Seq(Entries)
  BY <1>13 DEF WalkInv
<1>16. (pages <= IF walking THEN Here ELSE Here + 1)'
  BY <1>1, <1>13, <1>14 DEF WalkInv
<1> QED
  BY <1>10, <1>12, <1>14, <1>15, <1>16 DEF WalkInv

\* What every change leaves alone, and how it counts.
LEMMA ChangesCount ==
  ASSUME WalkInv, ListChanges
  PROVE  /\ walking /\ UNCHANGED <<tool, limit, start, seen, pages, walking>>
         /\ list \in Seq(Entries) /\ IsInjective(list) /\ Len(list) \in Nat
         /\ DOMAIN list = 1 .. Len(list) /\ Here \in Nat /\ Here' = Here
         /\ \A k \in DOMAIN list : list[k] \in Entries
         /\ Short = IF Here > Len(list) THEN Here - Len(list) ELSE 0
         /\ Short' = IF Here > Len(list') THEN Here - Len(list') ELSE 0
         /\ up \in 0 .. MaxChanges /\ up + 1 \in 0 .. MaxChanges
         /\ down \in 0 .. MaxChanges /\ down + 1 \in 0 .. MaxChanges
         /\ touched \subseteq Entries /\ MaxChanges \in Nat
<1>1. /\ walking /\ up + down < MaxChanges
      /\ UNCHANGED <<tool, limit, start, seen, pages, walking>>
  BY DEF ListChanges
<1>2. /\ list \in Seq(Entries) /\ IsInjective(list) /\ touched \subseteq Entries
      /\ up \in 0 .. MaxChanges /\ down \in 0 .. MaxChanges
      /\ Here \in Nat /\ MaxChanges \in Nat
  BY HereIsNat, ListingAssumption DEF WalkInv
<1>3. /\ Len(list) \in Nat /\ DOMAIN list = 1 .. Len(list)
      /\ \A k \in DOMAIN list : list[k] \in Entries
  BY <1>2, LenProperties, ElementOfSeq
<1>4. Here' = Here
  BY <1>1 DEF Here
<1>5. Short' = IF Here > Len(list') THEN Here - Len(list') ELSE 0
  BY <1>4 DEF Short
<1>6. up + 1 \in 0 .. MaxChanges /\ down + 1 \in 0 .. MaxChanges
  BY <1>1, <1>2
<1> QED
  BY <1>1, <1>2, <1>3, <1>4, <1>5, <1>6 DEF Short

LEMMA OneOrNone ==
  /\ \A x : IsFiniteSet({x}) /\ Cardinality({x}) = 1
  /\ IsFiniteSet({}) /\ Cardinality({}) = 0
  BY FS_Singleton, FS_EmptySet

\* What stands right before the caller slips behind it when an entry leaves
\* that it has passed.
LEMMA LeaveKeepsWalk ==
  ASSUME WalkInv, NEW i, Leave(i)
  PROVE  WalkInv'
<1> DEFINE n == Len(list)
           X == IF Here < n THEN {list[Here + 1]} ELSE {}
<1>1. /\ ListChanges /\ i \in DOMAIN list /\ list' = RemoveAt(list, i)
      /\ up' = up + 1 /\ down' = down /\ touched' = touched
  BY DEF Leave
<1>2. /\ list \in Seq(Entries) /\ n \in Nat /\ DOMAIN list = 1 .. n
      /\ Here \in Nat /\ IsInjective(list)
      /\ Short = IF Here > n THEN Here - n ELSE 0
      /\ Short' = IF Here > Len(list') THEN Here - Len(list') ELSE 0
      /\ up \in 0 .. MaxChanges /\ down \in 0 .. MaxChanges
      /\ up' \in 0 .. MaxChanges /\ down' \in 0 .. MaxChanges
      /\ touched' \subseteq Entries
  BY <1>1, ChangesCount
<1>3. /\ list' \in Seq(Entries) /\ Len(list') = n - 1
      /\ DOMAIN list' = 1 .. n - 1
      /\ \A j \in 1 .. n - 1 :
           list'[j] = IF j < i THEN list[j] ELSE list[j + 1]
  BY <1>1, <1>2, Removed, LenProperties
<1> HIDE DEF n
<1> DEFINE was(j) == IF j < i THEN j ELSE j + 1
<1>4. \A j \in DOMAIN list' :
        /\ j \in Int /\ was(j) \in DOMAIN list /\ list'[j] = list[was(j)]
        /\ was(j) = j \/ was(j) = j + 1
  BY <1>1, <1>2, <1>3
<1>5. \A a, b \in DOMAIN list' : was(a) = was(b) => a = b
  BY <1>1, <1>2, <1>3
<1> HIDE DEF was
<1>6. IsInjective(list')
  BY <1>2, <1>4, <1>5 DEF IsInjective
<1>7. Behind(list', Here) \subseteq Behind(list, Here) \cup touched' \cup X
  <2> SUFFICES ASSUME NEW j \in DOMAIN list', j <= Here
               PROVE  list'[j] \in Behind(list, Here) \cup X
    BY DEF Behind
  <2>1. CASE was(j) <= Here
    BY <1>4, <2>1 DEF Behind
  <2>2. CASE ~(was(j) <= Here)
    <3>1. was(j) = Here + 1 /\ Here < n
      BY <1>2, <1>4, <2>2
    <3> QED
      BY <1>4, <3>1
  <2> QED
    BY <2>1, <2>2
<1>8. Ahead(list', Here) \subseteq Ahead(list, Here) \cup {}
  <2> SUFFICES ASSUME NEW j \in DOMAIN list', j > Here
               PROVE  list'[j] \in Ahead(list, Here)
    BY DEF Ahead
  <2>1. was(j) > Here
    BY <1>2, <1>4
  <2> QED
    BY <1>4, <2>1 DEF Ahead
<1>9. /\ IsFiniteSet(X) /\ Short' \in Int
      /\ up + Cardinality(X) + Short' <= up' + Short
  <2>1. CASE Here < n
    <3>1. IsFiniteSet(X) /\ Cardinality(X) = 1
      BY <2>1, OneOrNone
    <3> HIDE DEF X
    <3> QED
      BY <1>1, <1>2, <1>3, <2>1, <3>1
  <2>2. CASE ~(Here < n)
    <3>1. IsFiniteSet(X) /\ Cardinality(X) = 0
      BY <2>2, OneOrNone
    <3> HIDE DEF X
    <3> QED
      BY <1>1, <1>2, <1>3, <2>2, <3>1
  <2> QED
    BY <2>1, <2>2
<1>10. IsFiniteSet({}) /\ down + Cardinality({}) <= down'
  BY <1>1, <1>2, OneOrNone
<1>11. walking /\ UNCHANGED <<tool, limit, start, seen, pages, walking>>
  BY <1>1, ChangesCount
<1> HIDE DEF X
<1> QED
  BY <1>1, <1>2, <1>3, <1>6, <1>7, <1>8, <1>9, <1>10, <1>11, CountedChange

\* What arrives where the caller has been pushes one entry before it again;
\* what arrives before it may be one it saw and that has left since.
LEMMA ArriveKeepsWalk ==
  ASSUME WalkInv, NEW e, NEW i, Arrive(e, i)
  PROVE  WalkInv'
<1> DEFINE n == Len(list)
           y == IF i <= Here THEN list[Here] ELSE e
<1>1. /\ ListChanges /\ e \in Entries /\ e \notin Range(list)
      /\ i \in 1 .. n + 1 /\ list' = InsertAt(list, i, e)
      /\ up' = up /\ down' = down + 1 /\ touched' = touched \cup {e}
  BY DEF Arrive
<1>2. /\ list \in Seq(Entries) /\ n \in Nat /\ DOMAIN list = 1 .. n
      /\ Here \in Nat /\ IsInjective(list)
      /\ Short = IF Here > n THEN Here - n ELSE 0
      /\ Short' = IF Here > Len(list') THEN Here - Len(list') ELSE 0
      /\ up \in 0 .. MaxChanges /\ down \in 0 .. MaxChanges
      /\ up' \in 0 .. MaxChanges /\ down' \in 0 .. MaxChanges
      /\ touched \subseteq touched' /\ touched' \subseteq Entries
  BY <1>1, ChangesCount
<1>3. /\ list' \in Seq(Entries) /\ Len(list') = n + 1
      /\ DOMAIN list' = 1 .. n + 1
      /\ \A j \in 1 .. n + 1 :
           list'[j] = IF j < i THEN list[j] ELSE IF j = i THEN e ELSE list[j - 1]
  <2> DEFINE l == InsertAt(list, i, e)
  <2>1. /\ l \in Seq(Entries) /\ Len(l) = n + 1
        /\ \A j \in 1 .. n + 1 :
             l[j] = IF j < i THEN list[j] ELSE IF j = i THEN e ELSE list[j - 1]
    <3>1. list \in Seq(Entries) /\ e \in Entries /\ i \in 1 .. Len(list) + 1
      BY <1>1, <1>2
    <3> HIDE DEF y, n
    <3>2. /\ l \in Seq(Entries) /\ Len(l) = Len(list) + 1
          /\ \A k \in 1 .. Len(list) + 1 :
               l[k] = IF k < i THEN list[k] ELSE IF k = i THEN e ELSE list[k - 1]
      BY <3>1, Inserted
    <3> QED
      BY <3>2 DEF n
  <2> HIDE DEF l
  <2>2. list' = l /\ DOMAIN l = 1 .. Len(l)
    BY <1>1, <2>1, LenProperties DEF l
  <2> QED
    BY <2>1, <2>2
<1> HIDE DEF n
<1> DEFINE was(j) == IF j < i THEN j ELSE j - 1
<1>4. \A j \in DOMAIN list' :
        /\ j \in Int
        /\ j = i => list'[j] = e
        /\ j # i => was(j) \in DOMAIN list /\ list'[j] = list[was(j)]
        /\ was(j) = j \/ (was(j) = j - 1 /\ i <= j)
  <2> SUFFICES ASSUME NEW j \in DOMAIN list'
               PROVE  /\ j \in Int
                      /\ j = i => list'[j] = e
                      /\ j # i => was(j) \in DOMAIN list
                                  /\ list'[j] = list[was(j)]
                      /\ was(j) = j \/ (was(j) = j - 1 /\ i <= j)
    OBVIOUS
  <2>1. j \in 1 .. n + 1 /\ i \in 1 .. n + 1 /\ n \in Nat
    BY <1>1, <1>2, <1>3 DEF n
  <2>2. list'[j] = IF j < i THEN list[j] ELSE IF j = i THEN e ELSE list[j - 1]
    BY <1>3, <2>1
  <2> QED
    BY <1>2, <2>1, <2>2
<1>5. \A a, b \in DOMAIN list' : a # i /\ b # i /\ was(a) = was(b) => a = b
  BY <1>1, <1>2, <1>3
<1> HIDE DEF was
<1>6. IsInjective(list')
  <2> SUFFICES ASSUME NEW a \in DOMAIN list', NEW b \in DOMAIN list',
                      list'[a] = list'[b]
               PROVE  a = b
    BY DEF IsInjective
  <2>1. \A k \in DOMAIN list' : k # i => list'[k] # e
    BY <1>1, <1>4 DEF Range
  <2>2. CASE a # i /\ b # i
    BY <1>2, <1>4, <1>5, <2>2 DEF IsInjective
  <2> QED
    BY <1>4, <2>1, <2>2
<1>7. Behind(list', Here) \subseteq Behind(list, Here) \cup touched' \cup {}
  <2> SUFFICES ASSUME NEW j \in DOMAIN list', j <= Here
               PROVE  list'[j] \in Behind(list, Here) \cup touched'
    BY DEF Behind
  <2>1. CASE j = i
    BY <1>1, <1>4, <2>1
  <2>2. CASE j # i
    <3>1. was(j) <= Here
      BY <1>2, <1>4, <2>2
    <3> QED
      BY <1>4, <2>2, <3>1 DEF Behind
  <2> QED
    BY <2>1, <2>2
<1>8. Ahead(list', Here) \subseteq Ahead(list, Here) \cup {y}
  <2> SUFFICES ASSUME NEW j \in DOMAIN list', j > Here
               PROVE  list'[j] \in Ahead(list, Here) \cup {y}
    BY DEF Ahead
  <2>1. CASE j = i
    BY <1>1, <1>2, <1>4, <2>1
  <2>2. CASE j # i /\ was(j) > Here
    BY <1>4, <2>2 DEF Ahead
  <2>3. CASE j # i /\ ~(was(j) > Here)
    <3>1. was(j) = Here /\ i <= Here
      BY <1>1, <1>2, <1>4, <2>3
    <3> QED
      BY <1>4, <2>3, <3>1
  <2> QED
    BY <2>1, <2>2, <2>3
<1> HIDE DEF y
<1>9. /\ IsFiniteSet({}) /\ Short' \in Int
      /\ up + Cardinality({}) + Short' <= up' + Short
  <2>1. Short' \in Int /\ Short \in Int /\ Short' <= Short
    <3>1. Len(list') = n + 1 /\ n \in Nat /\ Here \in Nat
      BY <1>2, <1>3
    <3> QED
      BY <1>2, <3>1
  <2>2. up' = up /\ up \in Int /\ IsFiniteSet({}) /\ Cardinality({}) = 0
    BY <1>1, <1>2, OneOrNone
  <2> QED
    BY <2>1, <2>2
<1>10. IsFiniteSet({y}) /\ down + Cardinality({y}) <= down'
  <2>1. down' = down + 1 /\ down \in Int
    BY <1>1, <1>2
  <2>2. IsFiniteSet({y}) /\ Cardinality({y}) = 1
    BY OneOrNone
  <2> QED
    BY <2>1, <2>2
<1>11. walking /\ UNCHANGED <<tool, limit, start, seen, pages, walking>>
  BY <1>1, ChangesCount
<1> QED
  BY <1>1, <1>2, <1>3, <1>6, <1>7, <1>8, <1>9, <1>10, <1>11, CountedChange

\* A move to the front pushes what it passes away from it, a move to the back
\* makes it slip up; neither moves the rest.
LEMMA MoveKeepsWalk ==
  ASSUME WalkInv, NEW i, NEW j, Move(i, j)
  PROVE  WalkInv'
<1> DEFINE n == Len(list)
           e == list[i]
           r == RemoveAt(list, i)
           X == IF j > i /\ Here < n THEN {list[Here + 1]} ELSE {}
           y == IF j <= Here THEN list[Here] ELSE e
<1>1. /\ ListChanges /\ i \in DOMAIN list /\ j \in DOMAIN list /\ i # j
      /\ list' = InsertAt(r, j, e)
      /\ up' = (IF j > i THEN up + 1 ELSE up) /\ down' = down + 1
      /\ touched' = touched \cup {e}
  BY DEF Move
<1>2. /\ list \in Seq(Entries) /\ n \in Nat /\ DOMAIN list = 1 .. n
      /\ Here \in Nat /\ IsInjective(list) /\ e \in Entries
      /\ Short = IF Here > n THEN Here - n ELSE 0
      /\ Short' = IF Here > Len(list') THEN Here - Len(list') ELSE 0
      /\ up \in 0 .. MaxChanges /\ down \in 0 .. MaxChanges
      /\ up' \in 0 .. MaxChanges /\ down' \in 0 .. MaxChanges
      /\ touched \subseteq touched' /\ touched' \subseteq Entries
  BY <1>1, ChangesCount
<1>3. /\ r \in Seq(Entries) /\ Len(r) = n - 1
      /\ \A k \in 1 .. n - 1 : r[k] = IF k < i THEN list[k] ELSE list[k + 1]
  BY <1>1, <1>2, Removed
<1>4. i \in 1 .. n /\ j \in 1 .. n /\ j \in 1 .. Len(r) + 1
  BY <1>1, <1>2, <1>3
<1> HIDE DEF n, e, r
<1>5. /\ list' \in Seq(Entries) /\ Len(list') = n
      /\ DOMAIN list' = 1 .. n
      /\ \A k \in 1 .. n :
           list'[k] = IF k < j THEN r[k] ELSE IF k = j THEN e ELSE r[k - 1]
  <2> DEFINE l == InsertAt(r, j, e)
  <2>1. /\ l \in Seq(Entries) /\ Len(l) = Len(r) + 1
        /\ \A k \in 1 .. Len(r) + 1 :
             l[k] = IF k < j THEN r[k] ELSE IF k = j THEN e ELSE r[k - 1]
    BY <1>2, <1>3, <1>4, Inserted
  <2> HIDE DEF l
  <2>2. list' = l /\ DOMAIN l = 1 .. Len(l) /\ Len(r) + 1 = n
    BY <1>1, <1>2, <1>3, <2>1, LenProperties DEF l
  <2> QED
    BY <2>1, <2>2
<1> DEFINE was(k) == IF k < j THEN IF k < i THEN k ELSE k + 1
                     ELSE IF k - 1 < i THEN k - 1 ELSE k
<1>6. ASSUME NEW k \in DOMAIN list'
      PROVE  /\ k \in Int /\ was(k) \in Int
             /\ k = j => list'[k] = e
             /\ k # j => was(k) \in DOMAIN list \ {i} /\ list'[k] = list[was(k)]
             /\ \/ was(k) = k
                \/ was(k) = k + 1 /\ j > i
                \/ was(k) = k - 1 /\ j <= k
  <2>1. k \in 1 .. n
    BY <1>5
  <2>2. CASE k = j
    BY <1>2, <1>4, <1>5, <2>1, <2>2
  <2>3. CASE k < j
    <3>1. k \in 1 .. n - 1 /\ list'[k] = r[k]
      BY <1>2, <1>4, <1>5, <2>1, <2>3
    <3>2. list'[k] = IF k < i THEN list[k] ELSE list[k + 1]
      BY <1>3, <3>1
    <3> QED
      BY <1>2, <1>4, <2>1, <2>3, <3>1, <3>2
  <2>4. CASE k > j
    <3>1. k - 1 \in 1 .. n - 1 /\ list'[k] = r[k - 1] /\ (k - 1) + 1 = k
      BY <1>2, <1>4, <1>5, <2>1, <2>4
    <3>2. list'[k] = IF k - 1 < i THEN list[k - 1] ELSE list[k]
      BY <1>3, <3>1
    <3> QED
      BY <1>2, <1>4, <2>1, <2>4, <3>1, <3>2
  <2> QED
    BY <1>4, <2>1, <2>2, <2>3, <2>4
<1>7. \A a, b \in DOMAIN list' : a # j /\ b # j /\ was(a) = was(b) => a = b
  BY <1>4, <1>5
<1> HIDE DEF was
<1>8. IsInjective(list')
  <2> SUFFICES ASSUME NEW a \in DOMAIN list', NEW b \in DOMAIN list',
                      list'[a] = list'[b]
               PROVE  a = b
    BY DEF IsInjective
  <2>1. ASSUME NEW k \in DOMAIN list', k # j PROVE list'[k] # e
    <3>1. was(k) \in DOMAIN list /\ was(k) # i /\ list'[k] = list[was(k)]
      BY <1>6, <2>1
    <3> QED
      BY <1>1, <1>2, <3>1 DEF IsInjective, e
  <2>2. CASE a # j /\ b # j
    <3>1. list[was(a)] = list[was(b)] /\ was(a) \in DOMAIN list
          /\ was(b) \in DOMAIN list
      BY <1>6, <2>2
    <3> QED
      BY <1>2, <1>7, <2>2, <3>1 DEF IsInjective
  <2> QED
    BY <1>6, <2>1, <2>2
<1>9. Behind(list', Here) \subseteq Behind(list, Here) \cup touched' \cup X
  <2> SUFFICES ASSUME NEW k \in DOMAIN list', k <= Here
               PROVE  list'[k] \in Behind(list, Here) \cup touched' \cup X
    BY DEF Behind
  <2>1. CASE k = j
    BY <1>1, <1>6, <2>1
  <2>2. CASE k # j /\ was(k) <= Here
    BY <1>6, <2>2 DEF Behind
  <2>3. CASE k # j /\ ~(was(k) <= Here)
    <3>1. was(k) = Here + 1 /\ j > i /\ was(k) \in 1 .. n
      BY <1>2, <1>6, <2>3
    <3>2. Here < n
      BY <1>2, <3>1
    <3> QED
      BY <1>6, <2>3, <3>1, <3>2
  <2> QED
    BY <2>1, <2>2, <2>3
<1>10. Ahead(list', Here) \subseteq Ahead(list, Here) \cup {y}
  <2> SUFFICES ASSUME NEW k \in DOMAIN list', k > Here
               PROVE  list'[k] \in Ahead(list, Here) \cup {y}
    BY DEF Ahead
  <2>1. CASE k = j
    <3>1. ~(j <= Here)
      BY <1>2, <1>4, <2>1
    <3> QED
      BY <1>6, <2>1, <3>1
  <2>2. CASE k # j /\ was(k) > Here
    BY <1>6, <2>2 DEF Ahead
  <2>3. CASE k # j /\ ~(was(k) > Here)
    <3>1. was(k) = Here /\ j <= Here
      BY <1>2, <1>4, <1>6, <2>3
    <3> QED
      BY <1>6, <2>3, <3>1
  <2> QED
    BY <2>1, <2>2, <2>3
<1> HIDE DEF y
<1>11. /\ IsFiniteSet(X) /\ Short' \in Int
       /\ up + Cardinality(X) + Short' <= up' + Short
  <2>1. Short' = Short /\ Short \in Int
    BY <1>2, <1>5
  <2>2. /\ up' = IF j > i THEN up + 1 ELSE up
        /\ up \in Int
    BY <1>1, <1>2
  <2>3. CASE j > i /\ Here < n
    <3>1. IsFiniteSet(X) /\ Cardinality(X) = 1
      BY <2>3, OneOrNone
    <3> HIDE DEF X
    <3> QED
      BY <2>1, <2>2, <2>3, <3>1
  <2>4. CASE ~(j > i /\ Here < n)
    <3>1. IsFiniteSet(X) /\ Cardinality(X) = 0
      BY <2>4, OneOrNone
    <3> HIDE DEF X
    <3>2. up <= up'
      BY <2>2
    <3> QED
      BY <2>1, <2>2, <3>1, <3>2
  <2> QED
    BY <2>3, <2>4
<1>12. IsFiniteSet({y}) /\ down + Cardinality({y}) <= down'
  <2>1. down' = down + 1 /\ down \in Int
    BY <1>1, <1>2
  <2>2. IsFiniteSet({y}) /\ Cardinality({y}) = 1
    BY OneOrNone
  <2> QED
    BY <2>1, <2>2
<1>13. walking /\ UNCHANGED <<tool, limit, start, seen, pages, walking>>
  BY <1>1, ChangesCount
<1> HIDE DEF X
<1> QED
  BY <1>1, <1>2, <1>5, <1>8, <1>9, <1>10, <1>11, <1>12, <1>13, CountedChange

LEMMA BeginKeepsWalk ==
  ASSUME WalkInv, NEW d \in Descriptors, NEW s \in Starts, NEW l \in Asked,
         Begin(d, s, l)
  PROVE  WalkInv'
<1>1. /\ walking' = TRUE /\ tool' = d /\ start' = s /\ limit' = l
      /\ seen' = <<>> /\ pages' = 0 /\ up' = 0 /\ down' = 0 /\ touched' = {}
      /\ list' = list
  BY DEF Begin
<1>2. s \in Int /\ l \in Int /\ s <= 0 /\ MaxChanges \in Nat
  BY ListingAssumption
<1>3. list' \in Seq(Entries) /\ IsInjective(list')
  BY <1>1 DEF WalkInv
<1>4. /\ Here' = 0 /\ seen' \in Seq(Entries)
      /\ Cardinality(Skipped') = 0 /\ Short' = 0
      /\ Len(seen') + Cardinality(Again') = 0
      /\ Cardinality(Range(seen')) = 0
  <2>1. (start \in Int /\ start <= 0 /\ list \in Seq(Entries) /\ seen = <<>>)'
    BY <1>1, <1>2, <1>3
  <2>2. (/\ Here = 0 /\ seen \in Seq(Entries)
         /\ Cardinality(Skipped) = 0 /\ Short = 0
         /\ Len(seen) + Cardinality(Again) = 0 /\ Cardinality(Range(seen)) = 0)'
    BY <2>1, FreshWalk, PTL
  <2> QED
    BY <2>2
<1>5. (/\ Cardinality(Skipped) + Short <= up
       /\ Len(seen) + Cardinality(Again) <= Cardinality(Range(seen)) + down)'
  BY <1>1, <1>4
<1>6. walking' /\ walking' \in BOOLEAN
  BY <1>1, Zenon
<1>7. (/\ pages <= IF walking THEN Here ELSE Here + 1
       /\ ~walking /\ pages > 0 => Len(list) <= Here)'
  BY <1>1, <1>4, <1>6
<1>8. /\ tool' \in Descriptors /\ pages' \in Nat
      /\ limit' \in Int /\ start' \in Int
      /\ up' \in 0 .. MaxChanges /\ down' \in 0 .. MaxChanges
      /\ touched' \subseteq Entries
  BY <1>1, <1>2
<1> QED
  BY <1>3, <1>4, <1>5, <1>6, <1>7, <1>8 DEF WalkInv

LEMMA WalkStep == WalkInv /\ [WalkNext]_walk => WalkInv'
<1> SUFFICES ASSUME WalkInv, [WalkNext]_walk PROVE WalkInv'
  OBVIOUS
<1>1. CASE PageFails
  BY <1>1 DEF PageFails, WalkInv, Skipped, Again, Behind, Ahead, Short, Here
<1>2. CASE UNCHANGED walk
  BY <1>2 DEF walk, WalkInv, Skipped, Again, Behind, Ahead, Short, Here
<1> QED
  BY <1>1, <1>2, PageKeepsWalk, LeaveKeepsWalk, ArriveKeepsWalk, MoveKeepsWalk,
     BeginKeepsWalk DEF WalkNext

\* Every state of a walk satisfies the invariant.
THEOREM WalkInvHolds == WalkSpec => []WalkInv
  BY WalkStarts, WalkStep, PTL DEF WalkSpec

LEMMA WalkInvMeans == WalkInv => WalkTypeOK /\ WalkMissesFew
<1> SUFFICES ASSUME WalkInv PROVE WalkTypeOK /\ WalkMissesFew
  OBVIOUS
<1>1. /\ list \in Seq(Entries) /\ seen \in Seq(Entries)
      /\ Here \in Nat /\ Len(list) \in Nat /\ Len(seen) \in Nat
      /\ DOMAIN list = 1 .. Len(list)
  BY HereIsNat, LenProperties DEF WalkInv
<1>2. /\ Cardinality(Skipped) \in Nat /\ Cardinality(Again) \in Nat
      /\ up \in Int /\ Cardinality(Skipped) + Short <= up
      /\ Short = IF Here > Len(list) THEN Here - Len(list) ELSE 0
  BY <1>1, PartsAreFinite DEF WalkInv, Short
<1>3. Here <= Len(list) + up /\ Cardinality(Skipped) <= up
  BY <1>1, <1>2
<1>4. pages \in 0 .. Len(list) + up + 1
  <2>1. pages \in Nat /\ pages <= Here + 1
    BY <1>1 DEF WalkInv
  <2> QED
    BY <1>1, <1>2, <1>3, <2>1
<1>5. WalkTypeOK
  BY <1>4 DEF WalkInv, WalkTypeOK
<1>6. Len(seen) - Cardinality(Range(seen)) <= down
  <2>1. /\ Len(seen) + Cardinality(Again) <= Cardinality(Range(seen)) + down
        /\ Cardinality(Range(seen)) \in Nat /\ down \in Int
    BY <1>1, RangeIsFinite DEF WalkInv
  <2> QED
    BY <1>1, <1>2, <2>1
<1>7. ASSUME ~walking /\ pages > 0
      PROVE  Cardinality(Range(list) \ (Range(seen) \cup touched)) <= up
  <2>1. Len(list) <= Here
    BY <1>7 DEF WalkInv
  <2>2. \A k \in DOMAIN list : k <= Here
    BY <1>1, <2>1
  <2>3. Range(list) \ (Range(seen) \cup touched) = Skipped
    BY <2>2 DEF Skipped, Behind, Range
  <2> QED
    BY <1>3, <2>3
<1> QED
  BY <1>5, <1>6, <1>7 DEF WalkMissesFew

\* clampLimit, nonNegative, TotalRows (read.go:339-363): a caller that pages on
\* through a list whose entries arrive, leave and move at any place is given no
\* more rows twice than arrived or moved, and has missed no more of the others
\* than there were changes that move rows to the front, however long the list
\* is and whatever limit it asks for.
THEOREM WalksMissFew == WalkSpec => []WalkMissesFew
  BY WalkInvHolds, WalkInvMeans, PTL

-----------------------------------------------------------------------------
(* The answers. *)

\* An answer without error is the one that is built from the rows of a page
\* for the tool the caller pages with.
ToldIsBuilt ==
  ~told.failed =>
    /\ \A i \in DOMAIN told.rows : \E e \in Entries : told.rows[i] = Entity(e)
    /\ \E n \in Nat :
         told = Built(told.rows, Content(tool, told.rows, n),
                      Output(EntriesOf(tool, told.rows), n))

ToldInv == tool \in Descriptors /\ Mounts(tool) /\ ToldIsBuilt

\* The line of row e, read by the tool's descriptor.
LineOf(e) == UntrustedLineOf(tool, e)

LEMMA NoLineIsBlank == IsBlankLine(<<>>) /\ IsBlankLine(<<"">>)
<1>1. DOMAIN <<>> = {} /\ DOMAIN <<"">> = {1} /\ <<"">>[1] = ""
  OBVIOUS
<1> QED
  BY <1>1 DEF IsBlankLine, Blank

\* A line says what of the texts it reads says something, and nothing else.
LEMMA LineSays ==
  ASSUME tool \in Descriptors, NEW e
  PROVE  /\ \A f \in Range(tool.reads) :
              Blank(e.texts[f]) \/ e.texts[f] \in Range(LineOf(e))
         /\ IsBlankLine(LineOf(e)) <=>
              \A f \in Range(tool.reads) : Blank(e.texts[f])
<1> DEFINE r == tool.reads
<1>1. /\ r \in Seq(STRING)
      /\ ~tool.framed => r = <<>>
  BY DescriptorAssumption
<1>2. DOMAIN r = 1 .. Len(r) /\ Len(r) \in Nat
  BY <1>1, LenProperties
<1>3. CASE ~tool.framed
  <2>1. Range(r) = {} /\ LineOf(e) = <<>>
    BY <1>1, <1>3 DEF Range, LineOf, UntrustedLineOf
  <2> QED
    BY <2>1, NoLineIsBlank
<1>4. CASE tool.framed /\ Len(r) = 1
  <2>1. LineOf(e) = <<e.texts[r[1]]>>
    BY <1>4 DEF LineOf, UntrustedLineOf
  <2>2. Range(r) = {r[1]}
    BY <1>2, <1>4 DEF Range
  <2>3. DOMAIN LineOf(e) = {1} /\ LineOf(e)[1] = e.texts[r[1]]
    BY <2>1
  <2> QED
    BY <2>2, <2>3 DEF IsBlankLine, Range
<1>5. CASE tool.framed /\ Len(r) # 1
  <2> DEFINE said == {i \in DOMAIN r : ~Blank(e.texts[r[i]])}
  <2>1. LineOf(e) = [i \in said |-> e.texts[r[i]]]
    BY <1>5 DEF LineOf, UntrustedLineOf, RestrictValues, Restrict
  <2>2. ASSUME NEW f \in Range(r), ~Blank(e.texts[f])
        PROVE  e.texts[f] \in Range(LineOf(e)) /\ ~IsBlankLine(LineOf(e))
    <3>1. PICK i \in DOMAIN r : r[i] = f
      BY DEF Range
    <3>2. i \in DOMAIN LineOf(e) /\ LineOf(e)[i] = e.texts[f]
      BY <2>1, <2>2, <3>1
    <3> QED
      BY <2>2, <3>2 DEF IsBlankLine, Range
  <2>3. ASSUME \A f \in Range(r) : Blank(e.texts[f])
        PROVE  IsBlankLine(LineOf(e))
    <3>1. \A i \in DOMAIN r : Blank(e.texts[r[i]])
      BY <2>3 DEF Range
    <3>2. DOMAIN LineOf(e) = {}
      BY <2>1, <3>1
    <3> QED
      BY <3>2 DEF IsBlankLine
  <2> QED
    BY <2>2, <2>3
<1> QED
  BY <1>3, <1>4, <1>5

\* What the rows hold of texts that say something, and whether that is any.
Wanted(rs) ==
  {t \in {e.texts[f] : e \in Range(rs), f \in Range(tool.reads)} : ~Blank(t)}

\* Content that is right for the rows: nothing if nothing is to be told, or
\* one block of text with everything in its frame.
Telling(content, rs) ==
  \/ content = <<>> /\ Wanted(rs) = {}
  \/ \E summary, lines :
       /\ content = <<Text(summary, lines)>>
       /\ Wanted(rs) \subseteq OnLines(lines)
       /\ lines # <<>> \/ (summary # NoSummary /\ DOMAIN rs = {})
       /\ tool.bespoke \/ Wanted(rs) # {}

LEMMA WantedIs ==
  ASSUME NEW rs, NEW t
  PROVE  t \in Wanted(rs) <=>
           \E i \in DOMAIN rs : \E f \in Range(tool.reads) :
             t = rs[i].texts[f] /\ ~Blank(t)
  BY DEF Wanted, Range

LEMMA OnLinesIs ==
  ASSUME NEW lines, NEW t
  PROVE  t \in OnLines(lines) <=> \E i \in DOMAIN lines : t \in Range(lines[i])
  BY DEF OnLines, Range

LEMMA ListTells ==
  ASSUME tool \in Descriptors, NEW rs
  PROVE  Telling(ListContent(tool, rs), rs)
<1> DEFINE heard == {i \in DOMAIN rs : ~IsBlankLine(LineOf(rs[i]))}
           lines == [i \in heard |-> LineOf(rs[i])]
           Line(e)    == UntrustedLineOf(tool, e)
           Says(line) == line \notin {<<>>, <<"">>}
           Loud(line) == ~IsBlankLine(line)
           all  == Mapped(Line, rs)
           some == RestrictValues(all, Says)
<1>1. DOMAIN all = DOMAIN rs /\ \A i \in DOMAIN rs : all[i] = LineOf(rs[i])
  BY DEF Mapped, LineOf
<1>2. /\ DOMAIN some = {i \in DOMAIN rs : Says(all[i])}
      /\ \A i \in DOMAIN some : some[i] = all[i]
  BY <1>1 DEF RestrictValues, Restrict
<1>3. RestrictValues(some, Loud)
        = [i \in {j \in DOMAIN some : Loud(some[j])} |-> some[i]]
  BY DEF RestrictValues, Restrict
<1>4. {j \in DOMAIN some : Loud(some[j])} = heard
  BY <1>1, <1>2, NoLineIsBlank
<1>5. RestrictValues(some, Loud) = lines
  BY <1>1, <1>2, <1>3, <1>4
<1>6. ListContent(tool, rs) =
        IF lines = <<>> THEN <<>> ELSE <<Text(NoSummary, lines)>>
  BY <1>5 DEF ListContent, WrapUntrustedLines
<1> HIDE DEF all, some
<1>7. Wanted(rs) \subseteq OnLines(lines)
  <2> SUFFICES ASSUME NEW t \in Wanted(rs) PROVE t \in OnLines(lines)
    OBVIOUS
  <2>1. PICK i \in DOMAIN rs, f \in Range(tool.reads) :
          t = rs[i].texts[f] /\ ~Blank(t)
    BY WantedIs
  <2>2. t \in Range(LineOf(rs[i])) /\ i \in heard
    BY <2>1, LineSays
  <2> QED
    BY <2>2, OnLinesIs
<1>8. heard # {} => Wanted(rs) # {}
  <2> SUFFICES ASSUME NEW i \in heard PROVE Wanted(rs) # {}
    OBVIOUS
  <2>1. PICK f \in Range(tool.reads) : ~Blank(rs[i].texts[f])
    BY LineSays
  <2>2. rs[i].texts[f] \in Wanted(rs)
    BY <2>1, WantedIs
  <2> QED
    BY <2>2
<1>9. lines # <<>> => heard # {}
  <2>1. heard = {} => lines = [i \in {} |-> LineOf(rs[i])]
    BY DEF lines
  <2>2. [i \in {} |-> LineOf(rs[i])] = <<>>
    OBVIOUS
  <2> QED
    BY <2>1, <2>2
<1>10. OnLines(<<>>) = {}
  BY DEF OnLines, Range
<1> HIDE DEF lines, heard
<1> QED
  BY <1>6, <1>7, <1>8, <1>9, <1>10 DEF Telling

LEMMA DocumentsTell ==
  ASSUME tool \in Descriptors, tool.bespoke, NEW rs, NEW n
  PROVE  Telling(ListDocumentsContent(rs, n), rs)
<1> DEFINE lines == Mapped(DocumentLine, rs)
           summary == <<Len(rs), n>>
<1>1. ListDocumentsContent(rs, n) = <<Text(summary, lines)>>
  BY DEF ListDocumentsContent, RenderDocumentList
<1>2. summary # NoSummary
  BY DEF NoSummary
<1>3. Range(tool.reads) = {"name"}
  <2>1. tool.reads = <<"name">>
    BY DescriptorAssumption
  <2>2. DOMAIN <<"name">> = {1} /\ <<"name">>[1] = "name"
    OBVIOUS
  <2> QED
    BY <2>1, <2>2 DEF Range
<1>4. ASSUME NEW t \in Wanted(rs) PROVE t \in OnLines(lines)
  <2>1. PICK i \in DOMAIN rs : t = rs[i].texts["name"] /\ ~Blank(t)
    BY <1>3, WantedIs
  <2>2. t # "" /\ lines[i] = DocumentLine(rs[i]) /\ i \in DOMAIN lines
    BY <2>1 DEF Blank, Mapped
  <2>3. DocumentLine(rs[i]) = <<rs[i].id, t>>
    BY <2>1, <2>2 DEF DocumentLine
  <2>4. t \in Range(lines[i])
    <3>1. 2 \in DOMAIN <<rs[i].id, t>> /\ <<rs[i].id, t>>[2] = t
      OBVIOUS
    <3> QED
      BY <2>2, <2>3, <3>1 DEF Range
  <2> QED
    BY <2>2, <2>4, OnLinesIs
<1>5. lines # <<>> \/ DOMAIN rs = {}
  <2>1. DOMAIN lines = DOMAIN rs
    BY DEF Mapped
  <2>2. DOMAIN <<>> = {}
    OBVIOUS
  <2> QED
    BY <2>1, <2>2
<1> HIDE DEF lines, summary
<1> QED
  BY <1>1, <1>2, <1>4, <1>5 DEF Telling

\* Whatever the tool, the content is right for the rows.
LEMMA ContentTells ==
  ASSUME tool \in Descriptors, NEW rs, NEW n
  PROVE  Telling(Content(tool, rs, n), rs)
  BY ListTells, DocumentsTell DEF Content

\* The three shapes of answer a about rows rs, out being its structured
\* output before anything is attached.
Shaped(a, out, rs) ==
  \/ /\ a = Delivered(<<Json(out)>>, out)
     /\ Wanted(rs) = {}
  \/ \E summary :
       /\ a = Delivered(<<Text(summary, <<>>)>>, out)
       /\ Wanted(rs) = {} /\ summary # NoSummary /\ DOMAIN rs = {}
  \/ \E summary, lines :
       /\ a = Delivered(<<Json(out), Text(summary, lines)>>,
                        [out EXCEPT !.untrustedText = lines])
       /\ Wanted(rs) \subseteq OnLines(lines) /\ lines # <<>>
       /\ tool.bespoke \/ Wanted(rs) # {}

\* What attachUntrustedStructured makes of such content.
LEMMA AttachedIs ==
  ASSUME NEW content, NEW out, NEW rs, Telling(content, rs)
  PROVE  Shaped(AttachUntrustedStructured(content, out), out, rs)
<1> DEFINE a == AttachUntrustedStructured(content, out)
<1>1. CASE content = <<>> /\ Wanted(rs) = {}
  <2>1. a = Delivered(<<>>, out)
    BY <1>1 DEF AttachUntrustedStructured
  <2>2. Delivered(<<>>, out) = Delivered(<<Json(out)>>, out)
    <3>1. <<Json(out)>> # <<>>
      OBVIOUS
    <3> QED
      BY <3>1 DEF Delivered
  <2> QED
    BY <1>1, <2>1, <2>2 DEF Shaped
<1>2. ASSUME NEW summary, NEW lines,
             content = <<Text(summary, lines)>>,
             Wanted(rs) \subseteq OnLines(lines),
             lines # <<>> \/ (summary # NoSummary /\ DOMAIN rs = {}),
             tool.bespoke \/ Wanted(rs) # {}
      PROVE  \/ /\ a = Delivered(<<Text(summary, <<>>)>>, out)
                /\ Wanted(rs) = {} /\ summary # NoSummary /\ DOMAIN rs = {}
             \/ /\ a = Delivered(<<Json(out), Text(summary, lines)>>,
                                 [out EXCEPT !.untrustedText = lines])
                /\ Wanted(rs) \subseteq OnLines(lines) /\ lines # <<>>
                /\ tool.bespoke \/ Wanted(rs) # {}
  <2>1. content[1] = Text(summary, lines) /\ content # <<>>
    BY <1>2
  <2>2. content[1].framed = lines
    BY <2>1 DEF Text
  <2>3. CASE lines = <<>>
    <3>1. OnLines(<<>>) = {}
      BY DEF OnLines, Range
    <3> QED
      BY <1>2, <2>2, <2>3, <3>1 DEF AttachUntrustedStructured
  <2>4. CASE lines # <<>>
    <3>1. a = Delivered(<<Json(out), content[1]>>,
                        [out EXCEPT !.untrustedText = content[1].framed])
      BY <2>1, <2>2, <2>4 DEF AttachUntrustedStructured
    <3> QED
      BY <1>2, <2>1, <2>2, <2>4, <3>1
  <2> QED
    BY <2>3, <2>4
<1> QED
  BY <1>1, <1>2 DEF Telling, Shaped

LEMMA Sayables ==
  ASSUME NEW rs
  PROVE  UNION {Sayable(rs[i]) : i \in DOMAIN rs} = Wanted(rs)
  BY DEF Sayable, Foreign, Wanted, Range

LEMMA EntriesAre ==
  ASSUME NEW rs
  PROVE  /\ DOMAIN EntriesOf(tool, rs) = DOMAIN rs
         /\ \A i \in DOMAIN rs :
              EntriesOf(tool, rs)[i] = Summarize(tool, rs[i])
  BY DEF EntriesOf, Mapped

\* An answer that is built tells everything in either channel.
LEMMA BuiltTells == ToldInv => EitherChannelTells
<1> SUFFICES ASSUME ToldInv, ~told.failed PROVE EitherChannelTells
  BY DEF EitherChannelTells
<1> DEFINE rs == told.rows
           a == told.answer
           ids == {rs[i].id : i \in DOMAIN rs}
           Known(out) == {out.entries[i].id : i \in DOMAIN out.entries}
           InBlock(b) ==
             IF b.kind = "json" THEN Known(b.out) ELSE OnLines(b.framed)
           inContent == UNION {InBlock(a.content[i]) : i \in DOMAIN a.content}
<1>1. PICK n \in Nat :
        told = Built(rs, Content(tool, rs, n), Output(EntriesOf(tool, rs), n))
  BY DEF ToldInv, ToldIsBuilt
<1> DEFINE out == Output(EntriesOf(tool, rs), n)
<1>2. a = AttachUntrustedStructured(Content(tool, rs, n), out)
  BY <1>1 DEF Built
<1>3. Telling(Content(tool, rs, n), rs)
  BY ContentTells DEF ToldInv
<1>4. Known(out) = ids /\ out.untrustedText = <<>>
  <2>1. out.entries = EntriesOf(tool, rs) /\ out.untrustedText = <<>>
    BY DEF Output
  <2>2. \A i \in DOMAIN rs : EntriesOf(tool, rs)[i].id = rs[i].id
    <3> TAKE i \in DOMAIN rs
    <3>1. EntriesOf(tool, rs)[i] = Summarize(tool, rs[i])
      BY EntriesAre
    <3>2. Summarize(tool, rs[i]).id = rs[i].id
      BY DEF Summarize
    <3> QED
      BY <3>1, <3>2
  <2>3. DOMAIN EntriesOf(tool, rs) = DOMAIN rs
    BY EntriesAre
  <2> HIDE DEF out
  <2> QED
    BY <2>1, <2>2, <2>3
<1>5. ASSUME NEW lines, NEW o, o = [out EXCEPT !.untrustedText = lines]
      PROVE  Known(o) = ids /\ o.untrustedText = lines
  <2>1. o.entries = out.entries /\ o.untrustedText = lines
    BY <1>5 DEF Output
  <2> HIDE DEF out
  <2> QED
    BY <1>4, <2>1
<1> HIDE DEF out
<1> DEFINE Tells ==
      /\ ids \subseteq Known(a.structured)
      /\ Wanted(rs) \subseteq OnLines(a.structured.untrustedText)
      /\ ids \cup Wanted(rs) \subseteq inContent
<1>6. Tells
  <2>1. ASSUME a = Delivered(<<Json(out)>>, out) /\ Wanted(rs) = {}
        PROVE  Tells
    <3>1. a.structured = out /\ a.content = <<Json(out)>>
      BY <2>1 DEF Delivered
    <3>2. DOMAIN a.content = {1} /\ a.content[1] = Json(out)
      BY <3>1
    <3>3. InBlock(a.content[1]) = Known(out)
      BY <3>2 DEF Json
    <3>4. Known(a.structured) = ids
      BY <1>4, <3>1
    <3> HIDE DEF InBlock, Known, ids
    <3> QED
      BY <1>4, <2>1, <3>2, <3>3, <3>4
  <2>2. ASSUME NEW summary,
               a = Delivered(<<Text(summary, <<>>)>>, out),
               Wanted(rs) = {}, DOMAIN rs = {}
        PROVE  Tells
    <3>1. a.structured = out /\ ids = {} /\ Wanted(rs) = {}
      BY <2>2 DEF Delivered
    <3> HIDE DEF ids
    <3> QED
      BY <3>1
  <2>3. ASSUME NEW summary, NEW lines,
               a = Delivered(<<Json(out), Text(summary, lines)>>,
                             [out EXCEPT !.untrustedText = lines]),
               Wanted(rs) \subseteq OnLines(lines)
        PROVE  Tells
    <3>2. /\ a.structured = [out EXCEPT !.untrustedText = lines]
          /\ a.content = <<Json(out), Text(summary, lines)>>
      BY <2>3 DEF Delivered
    <3>3. /\ DOMAIN a.content = {1, 2}
          /\ a.content[1] = Json(out) /\ a.content[2] = Text(summary, lines)
      BY <3>2
    <3>4. InBlock(a.content[1]) = Known(out)
      BY <3>3 DEF Json
    <3>5. InBlock(a.content[2]) = OnLines(lines)
      BY <3>3 DEF Text
    <3>6. Known(a.structured) = ids /\ a.structured.untrustedText = lines
      BY <1>5, <3>2
    <3> HIDE DEF InBlock, Known, ids
    <3> QED
      BY <1>4, <2>3, <3>3, <3>4, <3>5, <3>6
  <2>4. Shaped(a, out, rs)
    BY <1>2, <1>3, AttachedIs
  <2> HIDE DEF Tells, a, rs
  <2> QED
    BY <2>1, <2>2, <2>3, <2>4 DEF Shaped
<1> QED
  BY <1>6, Sayables DEF EitherChannelTells

\* No summary shows what a line of the same answer has to frame.
LEMMA ShownIsOwn ==
  ASSUME ToldInv, ~told.failed,
         NEW t \in Wanted(told.rows), NEW i \in DOMAIN told.rows
  PROVE  t \notin Summarize(tool, told.rows[i]).shown
<1> DEFINE rs == told.rows
<1>0. \E j \in DOMAIN rs : \E f \in Range(tool.reads) :
        t = rs[j].texts[f] /\ ~Blank(t)
  <2>1. t \in Wanted(rs)
    OBVIOUS
  <2> HIDE DEF rs
  <2> QED
    BY <2>1, WantedIs
<1>1. PICK j \in DOMAIN rs, f \in Range(tool.reads) :
        t = rs[j].texts[f] /\ ~Blank(t)
  BY <1>0
<1>2. \A k \in DOMAIN rs : \E e \in Entries : rs[k].texts = TextOf[e]
  <2> TAKE k \in DOMAIN rs
  <2>1. PICK e \in Entries : rs[k] = Entity(e)
    BY DEF ToldInv, ToldIsBuilt
  <2>2. rs[k].texts = TextOf[e]
    BY <2>1 DEF Entity
  <2> QED
    BY <2>2
<1>3. PICK e1 \in Entries : rs[j].texts = TextOf[e1]
  BY <1>2
<1>4. PICK e2 \in Entries : rs[i].texts = TextOf[e2]
  BY <1>2
<1>5. Summarize(tool, rs[i]).shown = {TextOf[e2][g] : g \in tool.shows}
  BY <1>4 DEF Summarize
<1>6. tool.framed
  <2>1. ~tool.framed => tool.reads = <<>>
    BY DescriptorAssumption DEF ToldInv
  <2>2. Range(<<>>) = {}
    BY DEF Range
  <2> QED
    BY <2>1, <2>2
<1>7. tool.shows \cap tool.probes = {}
  BY <1>6 DEF ToldInv, Mounts, MustNotLeakUntrustedText
<1>8. f \notin tool.shows
  BY <1>7, ProbesAssumption DEF ToldInv
<1>9. ASSUME NEW g \in tool.shows, t = TextOf[e2][g] PROVE FALSE
  <2>1. f # g /\ TextOf[e1][f] = TextOf[e2][g]
    BY <1>1, <1>3, <1>8, <1>9
  <2> QED
    BY <1>1, <1>3, <2>1, TextsAssumption DEF ToldInv
<1> QED
  BY <1>5, <1>9

LEMMA BuiltIsFramed == ToldInv => ForeignTextIsFramed
<1> SUFFICES ASSUME ToldInv, ~told.failed PROVE ForeignTextIsFramed
  BY DEF ForeignTextIsFramed
<1> DEFINE rs == told.rows
           a == told.answer
           foreign == Wanted(rs)
           Shown(out) ==
             UNION {out.entries[i].shown : i \in DOMAIN out.entries}
           Outside(out) == Shown(out) \cup OnLines(out.untrustedText)
<1>1. PICK n \in Nat :
        told = Built(rs, Content(tool, rs, n), Output(EntriesOf(tool, rs), n))
  BY DEF ToldInv, ToldIsBuilt
<1> DEFINE out == Output(EntriesOf(tool, rs), n)
<1>2. a = AttachUntrustedStructured(Content(tool, rs, n), out)
  BY <1>1 DEF Built
<1>3. Shaped(a, out, rs)
  BY <1>2, ContentTells, AttachedIs DEF ToldInv
<1>4. foreign \cap Shown(out) = {}
  <2>1. out.entries = EntriesOf(tool, rs)
    BY DEF Output
  <2>2. ASSUME NEW i \in DOMAIN out.entries
        PROVE  foreign \cap out.entries[i].shown = {}
    <3>1. i \in DOMAIN rs /\ out.entries[i] = Summarize(tool, rs[i])
      BY <2>1, <2>2, EntriesAre
    <3> HIDE DEF out
    <3> QED
      BY <3>1, ShownIsOwn
  <2> HIDE DEF out, foreign
  <2> QED
    BY <2>2
<1>5. out.untrustedText = <<>> /\ OnLines(<<>>) = {}
  BY DEF Output, OnLines, Range
<1>6. \A lines : [out EXCEPT !.untrustedText = lines].entries = out.entries
  BY DEF Output
<1> DEFINE Framed ==
      /\ foreign \cap Shown(a.structured) = {}
      /\ a.content[1].kind = "json" => foreign \cap Outside(a.content[1].out) = {}
      /\ \A i \in DOMAIN a.content : a.content[i].kind = "text" =>
           a.content[i].framed # <<>> \/ a.content[i].summary # NoSummary
      /\ foreign = {} /\ ~tool.bespoke => a.structured.untrustedText = <<>>
<1> HIDE DEF out
<1>7. Framed
  <2>1. ASSUME a = Delivered(<<Json(out)>>, out), foreign = {}
        PROVE  Framed
    <3>1. a.structured = out /\ a.content = <<Json(out)>>
      BY <2>1 DEF Delivered
    <3>2. DOMAIN a.content = {1} /\ a.content[1].kind = "json"
      BY <3>1 DEF Json
    <3> HIDE DEF a, foreign
    <3> QED
      BY <1>5, <2>1, <3>1, <3>2
  <2>2. ASSUME NEW summary, summary # NoSummary,
               a = Delivered(<<Text(summary, <<>>)>>, out), foreign = {}
        PROVE  Framed
    <3>1. a.structured = out /\ a.content = <<Text(summary, <<>>)>>
      BY <2>2 DEF Delivered
    <3>2. DOMAIN a.content = {1} /\ a.content[1].summary = summary
      BY <3>1 DEF Text
    <3> HIDE DEF a, foreign
    <3> QED
      BY <1>5, <2>2, <3>1, <3>2
  <2>3. ASSUME NEW summary, NEW lines, lines # <<>>,
               a = Delivered(<<Json(out), Text(summary, lines)>>,
                             [out EXCEPT !.untrustedText = lines]),
               tool.bespoke \/ foreign # {}
        PROVE  Framed
    <3>1. /\ a.structured = [out EXCEPT !.untrustedText = lines]
          /\ a.content = <<Json(out), Text(summary, lines)>>
      BY <2>3 DEF Delivered
    <3>2. /\ DOMAIN a.content = {1, 2}
          /\ a.content[1] = Json(out) /\ a.content[2] = Text(summary, lines)
      BY <3>1
    <3>3. /\ a.content[1].kind = "json" /\ a.content[1].out = out
          /\ a.content[2].framed = lines
      BY <3>2 DEF Json, Text
    <3>4. a.structured.entries = out.entries
      BY <1>6, <3>1
    <3>5. foreign \cap Shown(a.structured) = {}
      BY <1>4, <3>4
    <3>6. foreign \cap Outside(out) = {}
      BY <1>4, <1>5
    <3> HIDE DEF a, foreign, Shown, Outside
    <3> QED
      BY <2>3, <3>2, <3>3, <3>5, <3>6
  <2> HIDE DEF Framed, a, rs
  <2> QED
    BY <1>3, <2>1, <2>2, <2>3 DEF Shaped
<1>8. UNION {Sayable(rs[i]) : i \in DOMAIN rs} = foreign
  BY Sayables
<1> HIDE DEF foreign
<1> QED
  BY <1>7, <1>8 DEF ForeignTextIsFramed

LEMMA ToldInit == WalkInit => ToldInv
<1> SUFFICES ASSUME WalkInit PROVE ToldInv
  OBVIOUS
<1>1. tool \in Descriptors /\ Mounts(tool)
  BY ListingAssumption DEF WalkInit, AnyTool
<1>2. told.failed
  BY DEF WalkInit, NoAnswerYet
<1> QED
  BY <1>1, <1>2 DEF ToldInv, ToldIsBuilt

LEMMA ToldStep == WalkInv /\ ToldInv /\ [WalkNext]_walk => ToldInv'
<1> SUFFICES ASSUME WalkInv, ToldInv, [WalkNext]_walk PROVE ToldInv'
  OBVIOUS
<1>1. CASE Page
  <2> DEFINE q == Query(NonNegative(start), ClampLimit(limit))
             rs == Mapped(Entity, q)
  <2>1. /\ told' = Built(rs, Content(tool, rs, Len(list)),
                         Output(EntriesOf(tool, rs), Len(list)))
        /\ tool' = tool
    BY <1>1 DEF Page, ListFromService
  <2>2. /\ list \in Seq(Entries) /\ Len(list) \in Nat
        /\ NonNegative(start) \in Nat /\ ClampLimit(limit) \in Nat \ {0}
    BY HereIsNat, ClampIsPositive, LenProperties DEF WalkInv, Here
  <2>3. q \in Seq(Entries)
    BY <2>2, PageIs
  <2> HIDE DEF q
  <2>4. DOMAIN rs = DOMAIN q /\ \A i \in DOMAIN q : rs[i] = Entity(q[i])
    BY DEF Mapped
  <2>5. \A i \in DOMAIN q : q[i] \in Entries
    BY <2>3, LenProperties
  <2>6. told'.rows = rs
    BY <2>1 DEF Built
  <2> HIDE DEF rs
  <2>7. \A i \in DOMAIN told'.rows : \E e \in Entries : told'.rows[i] = Entity(e)
    BY <2>4, <2>5, <2>6
  <2>8. told' = Built(told'.rows, Content(tool', told'.rows, Len(list)),
                      Output(EntriesOf(tool', told'.rows), Len(list)))
    BY <2>1, <2>6
  <2> QED
    BY <2>1, <2>2, <2>7, <2>8 DEF ToldInv, ToldIsBuilt
<1>2. CASE PageFails
  <2>1. told'.failed /\ tool' = tool
    BY <1>2 DEF PageFails, NoAnswerYet
  <2> QED
    BY <2>1 DEF ToldInv, ToldIsBuilt
<1>3. ASSUME NEW d \in Descriptors, NEW s, NEW l, Begin(d, s, l)
      PROVE  ToldInv'
  <2>1. told'.failed /\ tool' = d /\ Mounts(d)
    BY <1>3 DEF Begin, NoAnswerYet
  <2> QED
    BY <2>1 DEF ToldInv, ToldIsBuilt
<1>4. ASSUME UNCHANGED <<told, tool>>
      PROVE  ToldInv'
  BY <1>4 DEF ToldInv, ToldIsBuilt
<1>5. CASE UNCHANGED walk
  BY <1>4, <1>5 DEF walk
<1>6. CASE ListChanges
  BY <1>4, <1>6 DEF ListChanges
<1>7. ASSUME NEW i, \/ \E e \in Entries : Arrive(e, i)
                    \/ Leave(i)
                    \/ \E j \in DOMAIN list : Move(i, j)
      PROVE  ListChanges
  BY <1>7 DEF Arrive, Leave, Move
<1> QED
  BY <1>1, <1>2, <1>3, <1>5, <1>6, <1>7 DEF WalkNext

\* Every answer without error is built from the rows of a page by a tool that
\* is mounted.
THEOREM AnswersAreBuilt == WalkSpec => []ToldInv
<1>1. WalkInit => ToldInv
  BY ToldInit
<1>2. WalkInv /\ ToldInv /\ [WalkNext]_walk => ToldInv'
  BY ToldStep
<1> QED
  BY <1>1, <1>2, WalkInvHolds, PTL DEF WalkSpec

\* ADR-0021 (read_generic.go:690-746): either channel of an answer tells of
\* every row and of every text that says something, for any descriptor, any
\* fields and any texts.
THEOREM EitherChannelSuffices == WalkSpec => []EitherChannelTells
  BY AnswersAreBuilt, BuiltTells, PTL

\* ADR-0013, ADR-0021 (read_generic.go:278-391): mustNotLeakUntrustedText keeps
\* third parties' texts inside the frame, given that a summary shows nothing of
\* what a line reads that the probe does not mark.
THEOREM FramesHold == WalkSpec => []ForeignTextIsFramed
  BY AnswersAreBuilt, BuiltIsFramed, PTL

-----------------------------------------------------------------------------
(* Both beside each other. *)

\* Neither kind of tool disturbs the other: each keeps to its own
\* specification.
THEOREM BothAreThemselves == ReadsSpec => Spec /\ WalkSpec
<1>1. ReadsInit => Init /\ WalkInit
  BY DEF ReadsInit
<1>2. [ReadsNext]_<<vars, walk>> => [Next]_vars /\ [WalkNext]_walk
  BY DEF ReadsNext
<1> QED
  BY <1>1, <1>2, PTL DEF ReadsSpec, Spec, WalkSpec

\* What both keep is of the types the runs check: in particular no limit a
\* caller asks for, zero or less included, makes it page forever.
THEOREM ReadsTypesHold == ReadsSpec => []ReadsTypeOK
<1>1. ReadsTypeOK <=> TypeOK /\ WalkTypeOK
  BY DEF ReadsTypeOK
<1>2. WalkInv => WalkTypeOK
  BY WalkInvMeans
<1> QED
  BY <1>1, <1>2, BothAreThemselves, SyncTypesHold, WalkInvHolds, PTL

\* Whatever was proved about one kind of tool holds with the other beside it:
\* this is what the run of both checks.
THEOREM ReadsHold ==
  ReadsSpec => /\ CopyIsCurrent
               /\ [](WalkMissesFew /\ EitherChannelTells /\ ForeignTextIsFramed)
  BY BothAreThemselves, CopiesAreCurrent, WalksMissFew, EitherChannelSuffices,
     FramesHold, PTL
=============================================================================
