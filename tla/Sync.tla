-------------------------------- MODULE Sync ---------------------------------
(***************************************************************************)
(* internal/tools, the sync tools: one per entity type.  A caller keeps a  *)
(* copy of the account's entities and the cursor the last call gave it;    *)
(* the server keeps nothing.  A call checks the cursor it is given, asks   *)
(* Fileee what has changed since, and answers with the changed entries,    *)
(* the ids that are gone and the next cursor.  Meanwhile the account       *)
(* changes, answers get lost, and a caller may mix up its cursors.         *)
(***************************************************************************)
EXTENDS Naturals

CONSTANTS
  Types,       \* entity types, one sync tool for each
  Ids,         \* ids of entities, of any type
  MaxVersion,  \* bound: how often an entity changes before it is deleted
  Empty, Undecodable,          \* cursor strings that are no cursor
  BadCursor, Failed, NoAnswer  \* answers without entries

ASSUME SyncAssumption == MaxVersion \in Nat \ {0} /\ "" \notin Types

VARIABLES
  rows,   \* Fileee: 0 before an entity exists, then its version, then gone
  pc,     \* the call of each tool that is under way
  sent,   \* the cursor it was called with
  answer, \* what the server answers
  copy,   \* the caller's copy: version of each entity, 0 for none
  cursor, \* the cursor that came with it
  during  \* the contents the account has had since the call began

vars == <<rows, pc, sent, answer, copy, cursor, during>>

Gone == MaxVersion + 1
View(r) == [i \in Ids |-> IF r[i] = Gone THEN 0 ELSE r[i]]
Nothing == [i \in Ids |-> 0]
Copies  == [Ids -> 0 .. MaxVersion]

\* fileee.Cursor; a cursor string may also be empty, not decode at all, or
\* decode to JSON of another shape, whose entity type is empty.
Cursors == [type : Types \cup {""}, known : Copies]
NewCursor(t) == [type |-> t, known |-> Nothing]
Strings == {Empty, Undecodable} \cup Cursors
Misshapen == [type |-> "", known |-> Nothing]

ASSUME CursorAssumption == Empty \notin Cursors /\ Undecodable \notin Cursors

Errors  == {BadCursor, Failed}
Deltas  == [changed : Copies, deleted : SUBSET Ids, next : Cursors]

-----------------------------------------------------------------------------
\* checkCursorEntityType: an empty string is a first call, everything else
\* has to decode to a cursor of the tool's own type.
CheckCursorEntityType(s, t) ==
  s \in {Empty} \cup [type : {t}, known : Copies]

CursorOf(s, t) == IF s = Empty THEN NewCursor(t) ELSE s

\* What a caller passes on: the cursor it holds, none to start afresh, one of
\* another tool, or something that never was a cursor.
Held == {cursor[u] : u \in Types} \cup {Undecodable, Misshapen}

Call(t, s) ==
  /\ pc[t] = "idle"
  /\ sent' = [sent EXCEPT ![t] = s]
  /\ during' = [during EXCEPT ![t] = {View(rows[t])}]
  /\ \/ /\ CheckCursorEntityType(s, t)
        /\ pc' = [pc EXCEPT ![t] = "client"] /\ UNCHANGED answer
     \/ /\ ~CheckCursorEntityType(s, t)
        /\ pc' = [pc EXCEPT ![t] = "return"]
        /\ answer' = [answer EXCEPT ![t] = BadCursor]
  /\ UNCHANGED <<rows, copy, cursor>>

\* clientFor, or Diff, fails.
Fail(t) ==
  /\ pc[t] = "client"
  /\ pc' = [pc EXCEPT ![t] = "return"]
  /\ answer' = [answer EXCEPT ![t] = Failed]
  /\ UNCHANGED <<rows, sent, copy, cursor, during>>

\* ReadService.Diff reads cursor.known only: every entity there is whose
\* version is not the known one, every known id that is gone.
Diff(r, known) ==
  [changed |-> [i \in Ids |-> IF View(r)[i] # known[i] THEN View(r)[i] ELSE 0],
   deleted |-> {i \in Ids : known[i] # 0 /\ View(r)[i] = 0},
   next    |-> View(r)]

\* Variant: the deleted ids are not passed on.
FromServiceKeepsIds(d, t) ==
  [changed |-> d.changed, deleted |-> {},
   next |-> [type |-> t, known |-> d.next]]

\* syncFromService: entries, deleted ids and the next cursor are passed on.
FromService(d, t) ==
  [changed |-> d.changed, deleted |-> d.deleted,
   next |-> [type |-> t, known |-> d.next]]

SyncFromService(t) ==
  /\ pc[t] = "client"
  /\ pc' = [pc EXCEPT ![t] = "return"]
  /\ answer' = [answer EXCEPT ![t] =
       FromService(Diff(rows[t], CursorOf(sent[t], t).known), t)]
  /\ UNCHANGED <<rows, sent, copy, cursor, during>>

-----------------------------------------------------------------------------
\* The caller: changes go on top of its copy, or of nothing when it asked
\* without a cursor; an error, or a lost answer, leaves it as it is.

Merged(base, a) ==
  [i \in Ids |-> IF a.changed[i] # 0 THEN a.changed[i]
                 ELSE IF i \in a.deleted THEN 0 ELSE base[i]]

Ends(t) ==
  /\ pc[t] = "return"
  /\ pc' = [pc EXCEPT ![t] = "idle"]
  /\ sent' = [sent EXCEPT ![t] = Empty]
  /\ answer' = [answer EXCEPT ![t] = NoAnswer]
  /\ during' = [during EXCEPT ![t] = {}]
  /\ UNCHANGED rows

Apply(t) ==
  /\ Ends(t) /\ answer[t] \notin Errors
  /\ copy' = [copy EXCEPT ![t] =
       Merged(IF sent[t] = Empty THEN Nothing ELSE copy[t], answer[t])]
  /\ cursor' = [cursor EXCEPT ![t] = answer[t].next]

Lose(t) == Ends(t) /\ UNCHANGED <<copy, cursor>>

\* Someone creates, changes or deletes an entity.
Change(t, i) ==
  /\ rows[t][i] # Gone
  /\ \E v \in {rows[t][i] + 1, Gone} :
       /\ rows[t][i] = 0 => v = 1
       /\ rows' = [rows EXCEPT ![t][i] = v]
  /\ during' = [during EXCEPT ![t] =
       IF pc[t] = "idle" THEN @ ELSE @ \cup {View(rows'[t])}]
  /\ UNCHANGED <<pc, sent, answer, copy, cursor>>

-----------------------------------------------------------------------------
Init ==
  /\ rows = [t \in Types |-> Nothing]
  /\ pc = [t \in Types |-> "idle"]
  /\ sent = [t \in Types |-> Empty]
  /\ answer = [t \in Types |-> NoAnswer]
  /\ copy = [t \in Types |-> Nothing]
  /\ cursor = [t \in Types |-> Empty]
  /\ during = [t \in Types |-> {}]

Next ==
  \E t \in Types :
    \/ \E s \in Held \cup {Empty} : Call(t, s)
    \/ Fail(t)
    \/ SyncFromService(t)
    \/ Apply(t)
    \/ Lose(t)
    \/ \E i \in Ids : Change(t, i)

Spec == Init /\ [][Next]_vars

-----------------------------------------------------------------------------
\* Types; a cursor that is answered is one the tool can read back.
TypeOK ==
  /\ rows \in [Types -> [Ids -> 0 .. Gone]]
  /\ pc \in [Types -> {"idle", "client", "return"}]
  /\ sent \in [Types -> Strings]
  /\ answer \in [Types -> Errors \cup {NoAnswer} \cup Deltas]
  /\ copy \in [Types -> Copies]
  /\ cursor \in [Types -> Strings]
  /\ during \in [Types -> SUBSET Copies]

\* checkCursorEntityType, syncFromService (read_sync.go:67-99, 332-369): when
\* a sync call succeeds, the caller's copy is what the account really held
\* at some moment while the call was running: no deleted entry stays and no
\* new one is missing, whichever cursor the caller passed and however many
\* answers were lost before.
CopyIsCurrent ==
  [][\A t \in Types : cursor'[t] # cursor[t] => copy'[t] \in during[t]]_vars
=============================================================================
