---------------------------- MODULE MCSelfCheck ----------------------------
(* A small instance of SelfCheck for TLC. *)
EXTENDS SelfCheck, TLC

CONSTANTS c1, c2, c3, c4, c5, a1, a2

\* Three calls for one account, one for another, one that resolves to none.
Shared == c1 :> a1 @@ c2 :> a1 @@ c3 :> a1 @@ c4 :> a2 @@ c5 :> NoAccount

\* Two calls for one account.
Pair == c1 :> a1 @@ c2 :> a1

Symmetry == Permutations({c1, c2, c3})
=============================================================================
