------------------------------- MODULE Answers -------------------------------
(***************************************************************************)
(* internal/tools: how a list answer is put together, and what a           *)
(* descriptor has to be like for its tools to be mounted at all.           *)
(*                                                                         *)
(* Part of what an entity says was written by third parties.  It may reach *)
(* a client inside a frame only, and a client may read either of the two   *)
(* channels of an answer: the structured output, or the content blocks.    *)
(*                                                                         *)
(* A text is a string, of which only "" and " " (nothing but white space)  *)
(* are told apart.  A line has the texts written on it, each at the place  *)
(* of its field, and a framed block its lines, each at the place of its    *)
(* row: what is left out leaves its place empty, and a line, or a block,   *)
(* without anything is <<>>.                                               *)
(***************************************************************************)
EXTENDS Sequences, Naturals, Functions

\* strings.TrimSpace leaves nothing.
Blank(text) == text \in {"", " "}
IsBlankLine(line) == \A i \in DOMAIN line : Blank(line[i])

Mapped(f(_), rows) == [i \in DOMAIN rows |-> f(rows[i])]

(***************************************************************************)
(* Descriptors (readServiceDescriptor, syncDescriptor): the fields         *)
(* UntrustedLine puts on a line, those Summarize shows, those PoisonProbe  *)
(* marks; framed, probed and hasId say which of UntrustedLine, PoisonProbe *)
(* and IDOf are set at all.  An entity is a function from fields to texts, *)
(* and its id.                                                             *)
(***************************************************************************)

\* Variant: what Summarize shows of the probe is not looked at.
MustNotLeakUntrustedTextLineOnly(d) ==
  IF ~d.framed THEN ~d.probed
  ELSE d.probed /\ Range(d.reads) \cap d.probes # {}

MustNotLeakUntrustedText(d) ==
  IF ~d.framed THEN ~d.probed
  ELSE /\ d.probed
       /\ Range(d.reads) \cap d.probes # {}
       /\ d.shows \cap d.probes = {}

MustHaveIDOf(d) == d.hasId

\* registerReadService does not panic.
Mounts(d) == MustNotLeakUntrustedText(d) /\ MustHaveIDOf(d)

\* UntrustedLine; that of a contact trims the two names it joins.
UntrustedLineOf(d, e) ==
  IF ~d.framed THEN <<>>
  ELSE IF Len(d.reads) = 1 THEN <<e.texts[d.reads[1]]>>
  ELSE LET Says(f) == ~Blank(e.texts[f])
           said    == RestrictValues(d.reads, Says)
       IN  [i \in DOMAIN said |-> e.texts[said[i]]]

Summarize(d, e) == [id |-> e.id, shown |-> {e.texts[f] : f \in d.shows}]

\* documentLine: a document without a title has a line nevertheless.
DocumentLine(e) ==
  IF e.texts["name"] = "" THEN <<e.id>> ELSE <<e.id, e.texts["name"]>>

-----------------------------------------------------------------------------
\* Content blocks: JSON, or text that has a summary, a frame or both.
Json(out) == [kind |-> "json", out |-> out]
NoSummary == <<>>
Text(summary, lines) ==
  [kind |-> "text", summary |-> summary, framed |-> lines]

\* What has no content at all is given the structured output by the SDK.
Delivered(content, out) ==
  [content    |-> IF content = <<>> THEN <<Json(out)>> ELSE content,
   structured |-> out]

Output(entries, total) ==
  [entries |-> entries, totalRows |-> total, untrustedText |-> <<>>]

\* wrapUntrustedLines, and its twin with a boundary drawn beforehand: a
\* block of the lines that say something, or no content.
WrapUntrustedLines(lines) ==
  LET Says(line) == ~IsBlankLine(line)
      nonEmpty   == RestrictValues(lines, Says)
  IN  IF nonEmpty = <<>> THEN <<>> ELSE <<Text(NoSummary, nonEmpty)>>

\* renderDocumentList: a summary, and a block if there are documents.
RenderDocumentList(returned, total, lines) ==
  <<Text(<<returned, total>>, lines)>>

\* Variant: the frame goes into the field, and no JSON into the content.
AttachUntrustedStructuredFieldOnly(content, out) ==
  IF content = <<>> \/ content[1].framed = <<>> THEN Delivered(content, out)
  ELSE Delivered(content, [out EXCEPT !.untrustedText = content[1].framed])

\* attachUntrustedStructured: a frame in the content goes into the field as
\* well, and the JSON of the rest goes in front of it.
AttachUntrustedStructured(content, out) ==
  IF content = <<>> \/ content[1].framed = <<>> THEN Delivered(content, out)
  ELSE Delivered(<<Json(out), content[1]>>,
                 [out EXCEPT !.untrustedText = content[1].framed])

\* listDocumentsResult.
ListDocumentsContent(rows, total) ==
  RenderDocumentList(Len(rows), total, Mapped(DocumentLine, rows))

\* listFromService; an empty line is no line.
ListContent(d, rows) ==
  LET Line(e)    == UntrustedLineOf(d, e)
      Says(line) == line \notin {<<>>, <<"">>}
  IN  WrapUntrustedLines(RestrictValues(Mapped(Line, rows), Says))

EntriesOf(d, rows) == LET Sum(e) == Summarize(d, e) IN Mapped(Sum, rows)
=============================================================================
