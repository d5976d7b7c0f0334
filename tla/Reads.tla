-------------------------------- MODULE Reads --------------------------------
(***************************************************************************)
(* The sync tools and the list tools beside each other.  The two share no  *)
(* state, so it is enough to move one while the other stays where it       *)
(* begins: each keeps to its own specification (ReadsProofs).              *)
(***************************************************************************)
EXTENDS Sync, Listing

ReadsInit == Init /\ WalkInit
NoWalkYet == ~walking /\ pages = 0
ReadsNext == \/ NoWalkYet /\ Next /\ UNCHANGED walk
             \/ Init /\ WalkNext /\ UNCHANGED vars
ReadsSpec == ReadsInit /\ [][ReadsNext]_<<vars, walk>>

\* The types of both.
ReadsTypeOK == TypeOK /\ WalkTypeOK
=============================================================================
