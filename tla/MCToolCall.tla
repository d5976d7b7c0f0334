----------------------------- MODULE MCToolCall -----------------------------
(* A small instance of ToolCall for TLC. *)
EXTENDS ToolCall, TLC

CONSTANTS c1, c2, c3, s1, s2

\* One subject calls twice, the other once.
Busy == (c1 :> s1) @@ (c2 :> s1) @@ (c3 :> s2)

\* Two searches, and a look at the counters by another subject.
Mixed == [c \in Calls |-> IF c \in {c1, c2} THEN "search_documents"
                          ELSE StatsTool]

SearchFails == [t \in Tools |-> IF t = StatsTool THEN {}
                                ELSE {"empty term", "api error"}]

Symmetry == Permutations({c1, c2})
=============================================================================
