--------------------------- MODULE MCSessionLedger ---------------------------
(* SessionLedger on a small instance: every history of up to five entries    *)
(* over two Sessions and two operations.                                     *)
EXTENDS SessionLedger, TLC

Symmetry == Permutations(Keys) \cup Permutations(Sessions) \cup Permutations(OpIds)
=============================================================================
