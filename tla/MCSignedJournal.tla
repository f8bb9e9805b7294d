---------------------------- MODULE MCSignedJournal ----------------------------
(* The journal with a handful of writers; readers only in the run that has them. *)
EXTENDS SignedJournal, TLC

=============================================================================
