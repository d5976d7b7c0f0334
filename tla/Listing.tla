------------------------------- MODULE Listing -------------------------------
(***************************************************************************)
(* internal/tools, the list tools: a caller pages through the entries of   *)
(* an account with start and limit.  The server keeps nothing between two  *)
(* pages; it only brings both numbers into range (nonNegative, clampLimit) *)
(* before Fileee cuts the page out of its list, and puts the answer        *)
(* together as Answers says.  Between two pages the list may change:       *)
(* list_documents is ordered by the last modification (read.go:121), so a  *)
(* document that is uploaded or modified comes in at the front, and the    *)
(* order of the other lists is not documented.                             *)
(***************************************************************************)
EXTENDS Answers, Integers, SequencesExt

CONSTANTS
  Entries,      \* ids of what may stand in the list
  TextOf,       \* the texts of each, a function from fields
  Initial,      \* the list at first
  Descriptors,  \* descriptors someone wrote, sound or not
  Asked,        \* the limits a caller asks for, sensible or not
  Starts,       \* where a caller that wants everything starts
  DefaultLimit, MaxLimit,
  MaxChanges    \* bound: changes of the list during one walk

ASSUME ListingAssumption ==
  /\ Initial \in Seq(Entries) /\ IsInjective(Initial)
  /\ Asked \subseteq Int /\ Starts \subseteq Int /\ \A s \in Starts : s <= 0
  /\ \E d \in Descriptors : Mounts(d)
  /\ DefaultLimit \in Nat \ {0} /\ MaxLimit \in Nat /\ DefaultLimit <= MaxLimit
  /\ MaxChanges \in Nat

\* A descriptor without UntrustedLine frames nothing; list_documents frames
\* the title.
ASSUME DescriptorAssumption ==
  \A d \in Descriptors :
    /\ d.reads \in Seq(STRING)
    /\ ~d.framed => d.reads = <<>>
    /\ d.bespoke => d.reads = <<"name">>

\* What a summary shows of what a line reads, the probe marks: nobody checks
\* that.  A contact's probe marks the last name only, but its summary shows
\* neither name.
ASSUME ProbesAssumption ==
  \A d \in Descriptors : Mounts(d) =>
    d.shows \cap Range(d.reads) \subseteq d.probes

\* A text tells which field it is of: what a summary shows is not by chance
\* what another field says that a line reads.
ASSUME TextsAssumption ==
  \A d \in Descriptors, e1, e2 \in Entries :
    \A f \in Range(d.reads), g \in d.shows :
      f # g /\ TextOf[e1][f] = TextOf[e2][g] => Blank(TextOf[e1][f])

VARIABLES
  list,    \* Fileee's list
  tool,    \* the descriptor of the tool the caller pages with
  limit,   \* the limit the caller asks for, on every page
  start,   \* where its next page starts
  told,    \* the last answer: rows it is about, content, structured output
  seen,    \* what it has been given, page after page
  pages,   \* how many pages that took
  walking,
  up,       \* changes since the walk began that bring others to the front,
  down,     \* those that bring any to the back,
  touched   \* and the entries that arrived or moved themselves

walk == <<list, tool, limit, start, told, seen, pages, walking,
          up, down, touched>>

-----------------------------------------------------------------------------
\* Variant: a limit of zero or less goes through.
ClampLimitRaw(n) == IF n > MaxLimit THEN MaxLimit ELSE n

ClampLimit(n) ==
  IF n <= 0 THEN DefaultLimit ELSE IF n > MaxLimit THEN MaxLimit ELSE n

NonNegative(n) == IF n < 0 THEN 0 ELSE n

\* ReadService.Query: what of the list lies in the page.
Query(s, l) ==
  SubSeq(list, s + 1, IF s + l < Len(list) THEN s + l ELSE Len(list))

Entity(e) == [id |-> e, texts |-> TextOf[e]]

\* Variant: the page's own length is the total.
ListFromServiceCounts(s, l) ==
  LET page == Query(NonNegative(s), ClampLimit(l))
  IN  [entries |-> page, totalRows |-> Len(page)]

\* listFromService, listDocumentsHandler: the entries, and how many there are
\* in all.
ListFromService(s, l) ==
  [entries |-> Query(NonNegative(s), ClampLimit(l)), totalRows |-> Len(list)]

\* What both make of them; list_documents is not built from a descriptor.
Content(d, rows, total) ==
  IF d.bespoke THEN ListDocumentsContent(rows, total) ELSE ListContent(d, rows)

NoAnswerYet == [rows |-> <<>>, failed |-> TRUE]
Built(rows, content, out) ==
  [rows |-> rows, failed |-> FALSE,
   answer |-> AttachUntrustedStructured(content, out)]

\* One call of a caller that wants everything: on to where this page ends,
\* until it has reached the total number of rows.
Page ==
  LET res  == ListFromService(start, limit)
      rows == Mapped(Entity, res.entries)
      end  == (IF start < 0 THEN 0 ELSE start) + Len(rows)
  IN  /\ walking
      /\ told' = Built(rows, Content(tool, rows, res.totalRows),
                       Output(EntriesOf(tool, rows), res.totalRows))
      /\ seen' = seen \o res.entries
      /\ start' = end
      /\ pages' = pages + 1
      /\ walking' = (end < res.totalRows)
      /\ UNCHANGED <<list, tool, limit, up, down, touched>>

\* No boundary can be drawn, or Fileee fails: the caller asks again.
PageFails ==
  /\ walking
  /\ told' = NoAnswerYet
  /\ UNCHANGED <<list, tool, limit, start, seen, pages, walking>>
  /\ UNCHANGED <<up, down, touched>>

\* registerReadService mounts sound descriptors only.
Begin(d, s, l) ==
  /\ ~walking /\ walking' = TRUE
  /\ Mounts(d) /\ tool' = d
  /\ start' = s /\ limit' = l
  /\ told' = NoAnswerYet /\ seen' = <<>> /\ pages' = 0
  /\ up' = 0 /\ down' = 0 /\ touched' = {}
  /\ UNCHANGED list

ListChanges ==
  /\ walking /\ up + down < MaxChanges
  /\ UNCHANGED <<tool, limit, start, told, seen, pages, walking>>

\* An entry comes in at place i: the first if it is a document.
Arrive(e, i) ==
  /\ ListChanges
  /\ e \in Entries \ Range(list) /\ i \in 1 .. Len(list) + 1
  /\ list' = InsertAt(list, i, e)
  /\ down' = down + 1 /\ touched' = touched \cup {e}
  /\ UNCHANGED up

Leave(i) ==
  /\ ListChanges
  /\ i \in DOMAIN list
  /\ list' = RemoveAt(list, i)
  /\ up' = up + 1
  /\ UNCHANGED <<down, touched>>

\* The entry at place i is modified and stands at place j then, the first if
\* it is a document.  What it passes makes room for it.
Move(i, j) ==
  /\ ListChanges
  /\ i \in DOMAIN list /\ j \in DOMAIN list \ {i}
  /\ list' = InsertAt(RemoveAt(list, i), j, list[i])
  /\ down' = down + 1 /\ up' = IF j > i THEN up + 1 ELSE up
  /\ touched' = touched \cup {list[i]}

\* Any tool does before the first walk.
AnyTool == CHOOSE d \in Descriptors : Mounts(d)

WalkInit ==
  /\ list = Initial /\ tool = AnyTool /\ limit = 0 /\ start = 0
  /\ told = NoAnswerYet /\ seen = <<>> /\ pages = 0 /\ walking = FALSE
  /\ up = 0 /\ down = 0 /\ touched = {}

WalkNext ==
  \/ Page
  \/ PageFails
  \/ \E d \in Descriptors, s \in Starts, l \in Asked : Begin(d, s, l)
  \/ \E e \in Entries, i \in 1 .. Len(list) + 1 : Arrive(e, i)
  \/ \E i \in DOMAIN list : Leave(i)
  \/ \E i, j \in DOMAIN list : Move(i, j)

WalkSpec == WalkInit /\ [][WalkNext]_walk

-----------------------------------------------------------------------------
\* Types, and every walk gets on: whatever limit the caller asks for, zero or
\* less included, it takes no more pages than there are entries to see and
\* entries that slipped to the front (and one for a list that is empty or whose
\* rest has been removed).
WalkTypeOK ==
  /\ list \in Seq(Entries) /\ limit \in Int /\ start \in Int
  /\ tool \in Descriptors
  /\ seen \in Seq(Entries) /\ walking \in BOOLEAN
  /\ up \in 0 .. MaxChanges /\ down \in 0 .. MaxChanges
  /\ touched \subseteq Entries
  /\ pages \in 0 .. Len(list) + up + 1

\* clampLimit, nonNegative, TotalRows (read.go:339-363, read_generic.go:
\* 518-551): a caller that goes on where a page ends, until it has as many
\* rows as there are, is given no more rows a second time than entries arrived
\* or moved meanwhile; and at the end it has not seen no more of the entries
\* that did neither than there were changes that bring others to the front:
\* removals, for a list where what is modified comes first.  An undisturbed
\* list it sees exactly once, whatever limit it asks for.
WalkMissesFew ==
  /\ Len(seen) - Cardinality(Range(seen)) <= down
  /\ ~walking /\ pages > 0 =>
       Cardinality(Range(list) \ (Range(seen) \cup touched)) <= up

\* The texts third parties wrote: what UntrustedLine reads.
Foreign(e) == {e.texts[f] : f \in Range(tool.reads)}
Sayable(e) == {t \in Foreign(e) : ~Blank(t)}
OnLines(lines) == UNION {Range(line) : line \in Range(lines)}

\* ADR-0021 (read_generic.go:690-746): whichever channel alone a client reads,
\* it learns of every row and of every text that says something, a title or
\* name that is missing or mere white space notwithstanding.
EitherChannelTells ==
  ~told.failed =>
    LET a == told.answer
        wanted == UNION {Sayable(told.rows[i]) : i \in DOMAIN told.rows}
        ids == {told.rows[i].id : i \in DOMAIN told.rows}
        Known(out) == {out.entries[i].id : i \in DOMAIN out.entries}
        InBlock(b) ==
          IF b.kind = "json" THEN Known(b.out) ELSE OnLines(b.framed)
        inContent ==
          UNION {InBlock(a.content[i]) : i \in DOMAIN a.content}
    IN  /\ ids \subseteq Known(a.structured)
        /\ wanted \subseteq OnLines(a.structured.untrustedText)
        /\ ids \cup wanted \subseteq inContent

\* ADR-0013, ADR-0021 and mustNotLeakUntrustedText: no tool that is mounted
\* shows a third party's text outside the frame, and there is no frame around
\* nothing.
ForeignTextIsFramed ==
  ~told.failed =>
    LET a == told.answer
        foreign == UNION {Sayable(told.rows[i]) : i \in DOMAIN told.rows}
        Outside(out) ==
          (UNION {out.entries[i].shown : i \in DOMAIN out.entries})
            \cup OnLines(out.untrustedText)
    IN  /\ foreign \cap
             UNION {a.structured.entries[i].shown :
                      i \in DOMAIN a.structured.entries} = {}
        /\ a.content[1].kind = "json" =>
             foreign \cap Outside(a.content[1].out) = {}
        /\ \A i \in DOMAIN a.content : a.content[i].kind = "text" =>
             a.content[i].framed # <<>> \/ a.content[i].summary # NoSummary
        /\ foreign = {} /\ ~tool.bespoke => a.structured.untrustedText = <<>>
=============================================================================
