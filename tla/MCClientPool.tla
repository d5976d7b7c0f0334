---------------------------- MODULE MCClientPool ----------------------------
(* Small instances of ClientPool for TLC. *)
EXTENDS ClientPoolInv, TLC

CONSTANTS c1, c2, c3, k1, k2, s1, s2, s3, a1, a2

\* Two accounts, one of them shared.
TwoAccounts == s1 :> a1 @@ s2 :> a1 @@ s3 :> a2

\* A third subject has no account.
OneUnmapped == s1 :> a1 @@ s2 :> a1 @@ s3 :> NoAccount

Symmetry == Permutations(Callers) \cup Permutations(Closers)
=============================================================================
