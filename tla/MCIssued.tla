------------------------------ MODULE MCIssued ------------------------------
(* Small instances of Issued for TLC. *)
EXTENDS Issued, TLC

Symmetry == Permutations(Subjects) \cup Permutations(Ids)

\* A cap that closes the gate, and one with room for two.
MinusOneOrTwo == {-1, 2}
=============================================================================
