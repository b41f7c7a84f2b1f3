-------------------------- MODULE MCSessionJournal --------------------------
(* SessionJournal on a small instance: every history of up to four appends   *)
(* with one fault of the medium anywhere in it.                              *)
EXTENDS SessionJournal, TLC

Symmetry == Permutations(Keys) \cup Permutations(Sessions) \cup Permutations(Requests)
=============================================================================
