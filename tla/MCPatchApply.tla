---------------------------- MODULE MCPatchApply ----------------------------
(* PatchApply on a small instance: a patch that replaces one file and deletes *)
(* another, a second patch that adds the deleted file again, the first patch  *)
(* under a decision that does not approve it, and a request with the key and  *)
(* the digest of the first patch and an operation of its own.                 *)
EXTENDS PatchApply, TLC

CONSTANTS ses1, op1, op2, f1, f2, old, new, kPatch, kPatch2, d1, d2, d3

Operation(f, before, after) == [ path |-> f, before |-> before, after |-> after ]

First(digest, approved) ==
    [ key |-> kPatch, digest |-> digest, op |-> op1, session |-> ses1, expected |-> 0,
      approved |-> approved,
      operations |-> << Operation(f1, old, new), Operation(f2, old, NoFile) >> ]

Second ==
    [ key |-> kPatch2, digest |-> d3, op |-> op2, session |-> ses1, expected |-> 2,
      approved |-> TRUE, operations |-> << Operation(f2, NoFile, new) >> ]

Posing ==
    [ key |-> kPatch, digest |-> d1, op |-> op1, session |-> ses1, expected |-> 0,
      approved |-> TRUE, operations |-> << Operation(f2, old, new) >> ]

MCPatches == { First(d1, TRUE), First(d2, FALSE), Second, Posing }
MCRequests == MCPatches \cup { WorkflowRequest(type) : type \in WorkflowAppends }
MCDisk == [f \in Files |-> old]

Symmetry == Permutations(Handlers) \cup Permutations(FreshKeys) \cup Permutations(WorkflowKeys)
=============================================================================
