---------------------------- MODULE AuditAnchor ----------------------------
(* FilesystemAuditAnchor of apps/api/storage/filesystem.py: receipts of       *)
(* audit checkpoints, kept as immutable directories of one stream and chained *)
(* by the hash of the receipt before.  Nothing locks the stream: anchor lists *)
(* it twice and then publishes a directory with one rename, so two callers,   *)
(* in one process or in two, may interleave between those file-system steps.  *)
(* Whether the deployment serializes the calls of a stream is not the code's  *)
(* to say: serial is chosen once, and both kinds are covered.                 *)
(*                                                                            *)
(* A receipt's directory is named after its checkpoint's sequence and id and  *)
(* is never replaced, so the name stands for the receipt's hash.  Temporary   *)
(* directories have a dotted name that no listing of receipts returns; they   *)
(* are not part of the state.  Tampering with stored files is outside.        *)
(*                                                                            *)
(* A definition introduced by "Fault:" is a deliberately wrong variant of the *)
(* definition after it, used by no specification.                             *)
EXTENDS Integers

CONSTANTS
  Callers,      \* threads or processes that call anchor
  Checkpoints,  \* the checkpoints of the stream that may be anchored
  None          \* the null of previous_receipt_hash

ASSUME CheckpointAssumption ==
  \A k \in Checkpoints : k.through_sequence \in Nat

Names == {<<k.through_sequence, k.checkpoint_id>> : k \in Checkpoints}

ASSUME NoneAssumption == None \notin Names

VARIABLES
  receipts,  \* the receipt directories of the stream
  pc,        \* where each caller's call is
  goal,      \* the checkpoint each caller anchors
  previous,  \* the predecessor each caller has read
  created,   \* whether each caller's rename published its directory
  answers,   \* history: the receipts returned, with the checkpoint asked for
  serial     \* whether the deployment runs one call of the stream at a time

vars == <<receipts, pc, goal, previous, created, answers, serial>>

Name(k) == <<k.through_sequence, k.checkpoint_id>>
Sequence(r) == r.checkpoint.through_sequence

(* receipt_hash, as the next receipt records it.                              *)
Hash(r) == Name(r.checkpoint)

Receipt == [checkpoint : Checkpoints, previous : Names \cup {None}]

Steps == {"idle", "scan", "tail", "publish", "confirm"}

Init ==
  /\ receipts = {}
  /\ pc = [c \in Callers |-> "idle"]
  /\ goal \in [Callers -> Checkpoints]
  /\ previous = [c \in Callers |-> None]
  /\ created = [c \in Callers |-> FALSE]
  /\ answers = {}
  /\ serial \in BOOLEAN

At(c, step) == pc[c] = step

Go(c, step) == pc' = [pc EXCEPT ![c] = step]

(* anchor is called, for the first time or again.                             *)
Call(c, k) ==
  /\ At(c, "idle")
  /\ serial => \A d \in Callers : At(d, "idle")
  /\ goal' = [goal EXCEPT ![c] = k]
  /\ Go(c, "scan")
  /\ UNCHANGED <<receipts, previous, created, answers, serial>>

Answer(c, r) ==
  /\ answers' = answers \cup {[checkpoint |-> goal[c], receipt |-> r]}
  /\ Go(c, "idle")
  /\ UNCHANGED <<receipts, goal, previous, created, serial>>

Refuse(c) ==
  /\ Go(c, "idle")
  /\ UNCHANGED <<receipts, goal, previous, created, answers, serial>>

(* Fault: the first listing is not searched.                                  *)
NothingWithId(id) == {}

(* The receipts of a checkpoint id, lowest sequence first.                    *)
FirstWithId(id) ==
  {r \in receipts : /\ r.checkpoint.checkpoint_id = id
                    /\ \A q \in receipts : q.checkpoint.checkpoint_id = id
                                             => Sequence(r) <= Sequence(q)}

(* The first listing: a receipt of the same checkpoint id ends the call.      *)
Scan(c) ==
  /\ At(c, "scan")
  /\ LET found == FirstWithId(goal[c].checkpoint_id)
     IN  \/ \E r \in found : r.checkpoint = goal[c] /\ Answer(c, r)
         \/ \E r \in found : r.checkpoint # goal[c] /\ Refuse(c)
         \/ /\ found = {}
            /\ Go(c, "tail")
            /\ UNCHANGED <<receipts, goal, previous, created, answers, serial>>

(* Fault: an equal sequence is taken for an advance.                          *)
AdvancesOrRepeats(k, r) == k.through_sequence >= Sequence(r)

Advances(k, r) == k.through_sequence > Sequence(r)

(* Fault: some receipt is taken for the last one.                             *)
AnyReceipt(r) == r \in receipts

IsTail(r) == r \in receipts /\ \A q \in receipts : Sequence(q) <= Sequence(r)

(* The second listing: its last receipt is the predecessor.                   *)
ReadTail(c) ==
  /\ At(c, "tail")
  /\ \/ \E r \in receipts : IsTail(r) /\ ~Advances(goal[c], r) /\ Refuse(c)
     \/ /\ \/ receipts = {} /\ previous' = [previous EXCEPT ![c] = None]
           \/ \E r \in receipts :
                /\ IsTail(r)
                /\ Advances(goal[c], r)
                /\ previous' = [previous EXCEPT ![c] = Hash(r)]
        /\ Go(c, "publish")
        /\ UNCHANGED <<receipts, goal, created, answers, serial>>

Stored(name) == {r \in receipts : Name(r.checkpoint) = name}

(* Fault: the rename replaces what is there.                                  *)
Replace(r) == (receipts \ Stored(Name(r.checkpoint))) \cup {r}

(* The receipts once r's directory is renamed into place: a rename never      *)
(* replaces a directory that is not empty.                                    *)
PublishDirectory(r) ==
  IF Stored(Name(r.checkpoint)) = {} THEN receipts \cup {r} ELSE receipts

(* _publish_directory: write the temporary directory, then rename it.         *)
Publish(c) ==
  LET new == [checkpoint |-> goal[c], previous |-> previous[c]]
  IN  /\ At(c, "publish")
      /\ receipts' = PublishDirectory(new)
      /\ created' = [created EXCEPT ![c] = Stored(Name(goal[c])) = {}]
      /\ Go(c, "confirm")
      /\ UNCHANGED <<goal, previous, answers, serial>>

(* Fault: what another caller stored under the name is returned unseen.       *)
ConfirmsAnything(c, r) == TRUE

Confirms(c, r) == created[c] \/ r.checkpoint = goal[c]

(* The receipt is read back and, unless the caller created it, compared.      *)
Confirm(c) ==
  /\ At(c, "confirm")
  /\ \E r \in Stored(Name(goal[c])) :
       IF Confirms(c, r) THEN Answer(c, r) ELSE Refuse(c)

(* The call fails or its process dies: whatever it has not renamed is lost,   *)
(* and the caller may try again.                                              *)
Fail(c) == ~At(c, "idle") /\ Refuse(c)

Step(c) == Scan(c) \/ ReadTail(c) \/ Publish(c) \/ Confirm(c)

Next ==
  \E c \in Callers : (\E k \in Checkpoints : Call(c, k)) \/ Step(c) \/ Fail(c)

Spec == Init /\ [][Next]_vars

---------------------------------------------------------------------------
(* verify                                                                     *)

(* What verify demands of the receipts it walks by increasing sequence: the   *)
(* sequence advances and each receipt names the one walked before.            *)
Intact ==
  \A r \in receipts :
    LET below == {q \in receipts : Sequence(q) < Sequence(r)}
    IN  /\ \A q \in receipts : Sequence(q) = Sequence(r) => q = r
        /\ IF below = {} THEN r.previous = None
           ELSE \E q \in below : /\ \A p \in below : Sequence(p) <= Sequence(q)
                                 /\ r.previous = Hash(q)

(* verify returns True for r; otherwise it raises.                            *)
Verifies(r) == r \in receipts /\ Intact
============================================================================
