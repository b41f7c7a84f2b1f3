---------------------------- MODULE MCSupervision ----------------------------
(* Supervision on a small instance: one work_id, submitted as a request for   *)
(* the repository here and elsewhere, of which one is granted and the other   *)
(* denied, and as one that asks for another capability.  HEAD is the commit   *)
(* they are based on or is not resolved, which is denied as any other commit; *)
(* what else a producer may report reaches only the answer of its own call.   *)
EXTENDS Supervision, TLC

CONSTANTS w1

Recon == [ work |-> w1, capabilities |-> << GitRead, GitReadElsewhere >> ]
Wider == [ work |-> w1, capabilities |-> << "shell.exec" >> ]

MCEnvelopes == { Recon, Wider }

Symmetry == Permutations(Processes)
=============================================================================
