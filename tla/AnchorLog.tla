----------------------------- MODULE AnchorLog -----------------------------
(* What an audit anchor promises: an append-only log of the checkpoints of a *)
(* stream, each with a new id and a sequence beyond all before (ADR 0013).   *)
EXTENDS Integers, Sequences

CONSTANT Checkpoints

VARIABLE log

Fresh(k) ==
  \A n \in DOMAIN log : /\ log[n].checkpoint_id # k.checkpoint_id
                        /\ log[n].through_sequence < k.through_sequence

Anchor(k) == Fresh(k) /\ log' = Append(log, k)

Init == log = <<>>

Next == \E k \in Checkpoints : Anchor(k)

Spec == Init /\ [][Next]_log
============================================================================
