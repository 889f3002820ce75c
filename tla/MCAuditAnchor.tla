--------------------------- MODULE MCAuditAnchor ---------------------------
(* Instances of the audit anchor for model checking.                         *)
EXTENDS AuditAnchorProperties, TLC

CONSTANTS a, b, d, x, y

Checkpoint(id, sequence, hash) ==
  [checkpoint_id |-> id, through_sequence |-> sequence, chain_hash |-> hash]

(* Three checkpoints in order; one that repeats an id at a later sequence,   *)
(* one that repeats a sequence under another id, and one that repeats both   *)
(* with another audit hash.                                                  *)
Stream == {Checkpoint(a, 1, x), Checkpoint(b, 2, x), Checkpoint(d, 3, x),
           Checkpoint(a, 3, x), Checkpoint(d, 2, x), Checkpoint(a, 1, y)}

(* Callers are alike.                                                        *)
Alike == Permutations(Callers)
===========================================================================
