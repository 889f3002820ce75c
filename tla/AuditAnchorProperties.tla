----------------------- MODULE AuditAnchorProperties -----------------------
(* What the audit anchor must keep true: with its calls serialized, and      *)
(* without.                                                                  *)
EXTENDS AuditAnchor, FiniteSets

(* Every variable has its type.                                              *)
TypeOK ==
  /\ receipts \subseteq Receipt
  /\ pc \in [Callers -> Steps]
  /\ goal \in [Callers -> Checkpoints]
  /\ previous \in [Callers -> Names \cup {None}]
  /\ created \in [Callers -> BOOLEAN]
  /\ answers \subseteq [checkpoint : Checkpoints, receipt : Receipt]
  /\ serial \in BOOLEAN

(* Where the calls are serialized, a receipt once returned verifies for      *)
(* ever: neither a later call, nor one that failed halfway, nor a retry      *)
(* breaks the chain it hangs in.                                             *)
AnswersVerify == serial => \A a \in answers : Verifies(a.receipt)

(* A returned receipt is stored as it was returned, and it is the receipt of *)
(* the checkpoint the caller asked for, also when another caller's directory *)
(* was found in place.                                                       *)
AnswersStand ==
  \A a \in answers : /\ a.receipt \in receipts
                     /\ a.receipt.checkpoint = a.checkpoint

(* However many callers anchor a checkpoint, and however often, they are     *)
(* given one receipt.                                                        *)
CallersConverge ==
  \A a, b \in answers : a.checkpoint = b.checkpoint => a.receipt = b.receipt

(* A receipt's predecessor is stored and has a lower sequence, so from every *)
(* receipt the chain leads back to a first one, even where it forks.         *)
PredecessorsAreOlder ==
  \A r \in receipts :
    r.previous # None =>
      \E q \in receipts : /\ Hash(q) = r.previous
                          /\ Sequence(q) < Sequence(r)

(* The log of the stream: the checkpoints of its receipts by sequence.       *)
Rank(set, r) == Cardinality({q \in set : Sequence(q) < Sequence(r)})

InOrder(set) ==
  [n \in 1 .. Cardinality(set) |-> (CHOOSE r \in set : Rank(set, r) = n - 1).checkpoint]

Log == IF serial THEN InOrder(receipts) ELSE <<>>

Promise == INSTANCE AnchorLog WITH log <- Log

(* Serialized, the anchor implements AnchorLog.                              *)
KeepsTheLog == Promise!Spec
===========================================================================
