------------------------------ MODULE MCReads -------------------------------
(* Small instances of Sync and Listing for TLC. *)
EXTENDS Reads, TLC

\* No limit, one in range, one above the largest; no start at all, and zero.
Limits == {0, 1, 9}
First  == {-1, 0}
Three  == <<"e1", "e2", "e3">>

\* One entity says everything, one nothing, two something and white space.
Say(n, f, l) == [name |-> n, first |-> f, last |-> l]
Texts == "e1" :> Say("Rent", "Ann", "Lee") @@ "e2" :> Say("", "", "")
           @@ "e3" :> Say(" ", " ", "Ray") @@ "e4" :> Say("Tax", "Bo", "")

Descriptor(reads, probes, shows) ==
  [bespoke |-> FALSE, framed |-> reads # <<>>, reads |-> reads,
   probed |-> probes # {}, probes |-> probes, shows |-> shows, hasId |-> TRUE]

\* Those of the repository (one like that of reminders for conversations and
\* companies, one for tags, document types and schemes, list_documents, which
\* is written by hand), and mistakes: a summary that shows the text, a probe
\* of the wrong field, none, one with no line, no IDOf.
Contact   == Descriptor(<<"first", "last">>, {"last"}, {})
Reminder  == Descriptor(<<"name">>, {"name"}, {})
Tag       == Descriptor(<<>>, {}, {"name"})
Documents == [Reminder EXCEPT !.bespoke = TRUE]
Mistakes  == {Descriptor(<<"name">>, {"name"}, {"name"}),
              Descriptor(<<"name">>, {"first"}, {"name"}),
              Descriptor(<<"name">>, {}, {"name"}),
              Descriptor(<<>>, {"name"}, {"name"}),
              [Reminder EXCEPT !.hasId = FALSE]}
AllDescriptors == {Contact, Reminder, Tag, Documents} \cup Mistakes
=============================================================================
