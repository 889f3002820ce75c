------------------------- MODULE AuditAnchorProofs -------------------------
(* Machine-checked proofs about the audit anchor, for every set of callers   *)
(* and checkpoints.                                                          *)
EXTENDS AuditAnchorProperties, DataLemmas, FiniteSetTheorems

(* A directory name belongs to one receipt.                                  *)
OneReceiptPerName ==
  \A q, r \in receipts : Name(q.checkpoint) = Name(r.checkpoint) => q = r

(* What a call has read stays true: its predecessor is stored and older.     *)
PredecessorRead(c) ==
  previous[c] # None =>
    \E q \in receipts : /\ Hash(q) = previous[c]
                        /\ Sequence(q) < goal[c].through_sequence

(* A caller that created its directory finds its own checkpoint there.       *)
CreatedOwn(c) == created[c] => \E r \in receipts : r.checkpoint = goal[c]

CallsOK ==
  \A c \in Callers : /\ At(c, "publish") => PredecessorRead(c)
                     /\ At(c, "confirm") => CreatedOwn(c)

(* The inductive invariant, however the calls interleave.                    *)
AnchorInv ==
  /\ TypeOK
  /\ OneReceiptPerName
  /\ CallsOK
  /\ AnswersStand
  /\ PredecessorsAreOlder

---------------------------------------------------------------------------
LEMMA SequenceIsNat ==
  ASSUME NEW r \in Receipt
  PROVE  Sequence(r) \in Nat
  BY CheckpointAssumption DEF Sequence, Receipt

(* A step that stores nothing and returns nothing.                           *)
LEMMA MoveOK ==
  ASSUME AnchorInv, NEW c \in Callers, UNCHANGED <<receipts, answers, serial>>,
         NEW step \in Steps, Go(c, step), TypeOK',
         UNCHANGED created,
         \A d \in Callers \ {c} : goal'[d] = goal[d] /\ previous'[d] = previous[d],
         step = "publish" => PredecessorRead(c)',
         step # "confirm"
  PROVE  AnchorInv'
<1>1. OneReceiptPerName' /\ AnswersStand' /\ PredecessorsAreOlder'
  BY DEF AnchorInv, OneReceiptPerName, AnswersStand, PredecessorsAreOlder
<1>2. ASSUME NEW d \in Callers
      PROVE  /\ At(d, "publish")' => PredecessorRead(d)'
             /\ At(d, "confirm")' => CreatedOwn(d)'
  <2>1. CASE d = c
    BY <2>1 DEF Go, At, AnchorInv, TypeOK
  <2>2. CASE d # c
    BY <2>2 DEF Go, At, AnchorInv, TypeOK, CallsOK, PredecessorRead, CreatedOwn
  <2>3. QED
    BY <2>1, <2>2
<1>3. QED
  BY <1>1, <1>2 DEF AnchorInv, CallsOK

LEMMA CallOK ==
  ASSUME AnchorInv, NEW c \in Callers, NEW k \in Checkpoints, Call(c, k)
  PROVE  AnchorInv'
<1>1. TypeOK'
  BY DEF Call, Go, AnchorInv, TypeOK, Steps
<1>2. QED
  BY <1>1, MoveOK DEF Call, AnchorInv, TypeOK, Steps

LEMMA RefuseOK ==
  ASSUME AnchorInv, NEW c \in Callers, Refuse(c)
  PROVE  AnchorInv'
<1>1. TypeOK'
  BY DEF Refuse, Go, AnchorInv, TypeOK, Steps
<1>2. QED
  BY <1>1, MoveOK DEF Refuse, AnchorInv, TypeOK, Steps

(* A receipt is returned.                                                    *)
LEMMA AnswerOK ==
  ASSUME AnchorInv, NEW c \in Callers, NEW r \in receipts,
         r.checkpoint = goal[c], Answer(c, r)
  PROVE  AnchorInv'
<1>1. TypeOK'
  BY DEF Answer, Go, AnchorInv, TypeOK, Steps
<1>2. AnswersStand'
  BY DEF Answer, AnchorInv, AnswersStand
<1>3. OneReceiptPerName' /\ PredecessorsAreOlder'
  BY DEF Answer, AnchorInv, OneReceiptPerName, PredecessorsAreOlder
<1>4. CallsOK'
  BY DEF Answer, Go, At, AnchorInv, TypeOK, CallsOK, PredecessorRead, CreatedOwn
<1>5. QED
  BY <1>1, <1>2, <1>3, <1>4 DEF AnchorInv

LEMMA ScanOK ==
  ASSUME AnchorInv, NEW c \in Callers, Scan(c)
  PROVE  AnchorInv'
<1> DEFINE found == FirstWithId(goal[c].checkpoint_id)
<1>1. CASE \E r \in found : r.checkpoint = goal[c] /\ Answer(c, r)
  BY <1>1, AnswerOK DEF FirstWithId
<1>2. CASE \E r \in found : r.checkpoint # goal[c] /\ Refuse(c)
  BY <1>2, RefuseOK
<1>3. CASE Go(c, "tail") /\ UNCHANGED <<receipts, goal, previous, created, answers, serial>>
  <2>1. TypeOK'
    BY <1>3 DEF Go, AnchorInv, TypeOK, Steps
  <2>2. QED
    BY <1>3, <2>1, MoveOK DEF Steps
<1>4. QED
  BY <1>1, <1>2, <1>3 DEF Scan

LEMMA ReadTailOK ==
  ASSUME AnchorInv, NEW c \in Callers, ReadTail(c)
  PROVE  AnchorInv'
<1>1. CASE Refuse(c)
  BY <1>1, RefuseOK
<1>2. CASE ~Refuse(c)
  <2>1. /\ Go(c, "publish")
        /\ UNCHANGED <<receipts, goal, created, answers, serial>>
        /\ \/ previous' = [previous EXCEPT ![c] = None]
           \/ \E r \in receipts :
                /\ Advances(goal[c], r)
                /\ previous' = [previous EXCEPT ![c] = Hash(r)]
    BY <1>2 DEF ReadTail
  <2>2. \A r \in receipts : Hash(r) \in Names
    BY DEF Hash, Name, Names, AnchorInv, TypeOK, Receipt
  <2>3. TypeOK'
    BY <2>1, <2>2 DEF Go, AnchorInv, TypeOK, Steps
  <2>4. PredecessorRead(c)'
    <3>1. CASE previous' = [previous EXCEPT ![c] = None]
      BY <3>1 DEF PredecessorRead, AnchorInv, TypeOK
    <3>2. ASSUME NEW r \in receipts, Advances(goal[c], r),
                 previous' = [previous EXCEPT ![c] = Hash(r)]
          PROVE  PredecessorRead(c)'
      <4>1. previous'[c] = Hash(r)
        BY <3>2 DEF AnchorInv, TypeOK
      <4>2. r \in receipts' /\ goal'[c] = goal[c]
        BY <2>1
      <4>3. Sequence(r) \in Nat /\ goal[c].through_sequence \in Nat
        BY SequenceIsNat, CheckpointAssumption DEF AnchorInv, TypeOK
      <4>4. Sequence(r) < goal[c].through_sequence
        BY <3>2, <4>3 DEF Advances
      <4>5. QED
        BY <4>1, <4>2, <4>4 DEF PredecessorRead, Hash, Sequence
    <3>3. QED
      BY <2>1, <3>1, <3>2
  <2>5. \A d \in Callers \ {c} : goal'[d] = goal[d] /\ previous'[d] = previous[d]
    BY <2>1 DEF AnchorInv, TypeOK
  <2>6. QED
    BY <2>1, <2>3, <2>4, <2>5, MoveOK DEF Steps
<1>3. QED
  BY <1>1, <1>2

(* Receipts are only added, and never under a name that is taken.            *)
LEMMA PublishOK ==
  ASSUME AnchorInv, NEW c \in Callers, Publish(c)
  PROVE  AnchorInv'
<1> DEFINE new == [checkpoint |-> goal[c], previous |-> previous[c]]
<1> USE DEF AnchorInv
<1>1. /\ new \in Receipt
      /\ new.checkpoint = goal[c] /\ new.previous = previous[c]
  BY DEF TypeOK, Receipt
<1>2. /\ At(c, "publish")
      /\ UNCHANGED <<goal, previous, answers, serial>>
      /\ pc' = [pc EXCEPT ![c] = "confirm"]
      /\ created' = [created EXCEPT ![c] = Stored(Name(goal[c])) = {}]
  BY DEF Publish, Go
<1>3. \/ receipts' = receipts /\ Stored(Name(goal[c])) # {}
      \/ receipts' = receipts \cup {new} /\ Stored(Name(goal[c])) = {}
  BY <1>1 DEF Publish, PublishDirectory
<1>4. receipts \subseteq receipts'
  BY <1>3
<1>5. TypeOK'
  <2>1. pc' \in [Callers -> Steps] /\ created' \in [Callers -> BOOLEAN]
    BY <1>2 DEF TypeOK, Steps
  <2>2. receipts' \subseteq Receipt
    BY <1>1, <1>3 DEF TypeOK
  <2>3. QED
    BY <1>2, <2>1, <2>2 DEF TypeOK
<1>6. OneReceiptPerName'
  BY <1>1, <1>3 DEF OneReceiptPerName, Stored
<1>7. AnswersStand'
  BY <1>2, <1>4 DEF AnswersStand
<1>8. PredecessorsAreOlder'
  <2>1. PredecessorRead(c)
    BY <1>2 DEF CallsOK
  <2>2. ASSUME NEW r \in receipts', r.previous # None
        PROVE  \E q \in receipts' : Hash(q) = r.previous /\ Sequence(q) < Sequence(r)
    <3>1. CASE r \in receipts
      BY <2>2, <3>1, <1>4 DEF PredecessorsAreOlder
    <3>2. CASE r = new
      BY <2>1, <2>2, <3>2, <1>1, <1>4 DEF PredecessorRead, Sequence
    <3>3. QED
      BY <2>2, <3>1, <3>2, <1>3
  <2>3. QED
    BY <2>2 DEF PredecessorsAreOlder, Hash, Sequence
<1>9. CallsOK'
  <2>1. ASSUME NEW d \in Callers, At(d, "publish")'
        PROVE  PredecessorRead(d)'
    <3>1. At(d, "publish")
      BY <1>2, <2>1 DEF At, TypeOK
    <3>2. PredecessorRead(d)
      BY <3>1 DEF CallsOK
    <3>3. QED
      BY <3>2, <1>2, <1>4 DEF PredecessorRead, Hash, Sequence
  <2>2. ASSUME NEW d \in Callers, At(d, "confirm")', created'[d]
        PROVE  \E r \in receipts' : r.checkpoint = goal[d]
    <3>1. CASE d = c
      <4>1. Stored(Name(goal[c])) = {}
        BY <1>2, <2>2, <3>1 DEF TypeOK
      <4>2. QED
        BY <1>1, <1>3, <3>1, <4>1
    <3>2. CASE d # c
      BY <1>2, <1>4, <2>2, <3>2 DEF At, TypeOK, CallsOK, CreatedOwn
    <3>3. QED
      BY <3>1, <3>2
  <2>3. QED
    BY <1>2, <2>1, <2>2 DEF CallsOK, CreatedOwn
<1>10. QED
  BY <1>5, <1>6, <1>7, <1>8, <1>9

LEMMA ConfirmOK ==
  ASSUME AnchorInv, NEW c \in Callers, Confirm(c)
  PROVE  AnchorInv'
<1>1. PICK r \in Stored(Name(goal[c])) :
        IF Confirms(c, r) THEN Answer(c, r) ELSE Refuse(c)
  BY DEF Confirm
<1>2. CASE Confirms(c, r)
  <2>1. r.checkpoint = goal[c]
    <3>1. CASE created[c]
      BY <3>1, <1>1 DEF Confirm, AnchorInv, CallsOK, CreatedOwn, OneReceiptPerName, Stored
    <3>2. QED
      BY <1>2, <3>1 DEF Confirms
  <2>2. QED
    BY <1>1, <1>2, <2>1, AnswerOK DEF Stored
<1>3. CASE ~Confirms(c, r)
  BY <1>1, <1>3, RefuseOK
<1>4. QED
  BY <1>2, <1>3

LEMMA AnchorInit == Init => AnchorInv
  BY DEF Init, AnchorInv, TypeOK, OneReceiptPerName, CallsOK, AnswersStand,
         PredecessorsAreOlder, At, Steps

LEMMA AnchorNext == AnchorInv /\ [Next]_vars => AnchorInv'
<1> SUFFICES ASSUME AnchorInv, [Next]_vars PROVE AnchorInv'
  OBVIOUS
<1>1. ASSUME NEW c \in Callers, NEW k \in Checkpoints, Call(c, k) PROVE AnchorInv'
  BY <1>1, CallOK
<1>2. ASSUME NEW c \in Callers, Step(c) PROVE AnchorInv'
  BY <1>2, ScanOK, ReadTailOK, PublishOK, ConfirmOK DEF Step
<1>3. ASSUME NEW c \in Callers, Fail(c) PROVE AnchorInv'
  BY <1>3, RefuseOK DEF Fail
<1>4. CASE UNCHANGED vars
  BY <1>4 DEF vars, AnchorInv, TypeOK, OneReceiptPerName, CallsOK, AnswersStand,
              PredecessorsAreOlder, At, PredecessorRead, CreatedOwn
<1>5. QED
  BY <1>1, <1>2, <1>3, <1>4 DEF Next

LEMMA AnchorInvHolds == Spec => []AnchorInv
<1>1. QED
  BY AnchorInit, AnchorNext, PTL DEF Spec

(* Type correctness of the audit anchor.                                     *)
THEOREM AnchorTypeCorrect == Spec => []TypeOK
<1>1. AnchorInv => TypeOK
  BY DEF AnchorInv
<1>2. QED
  BY <1>1, AnchorInvHolds, PTL

(* A receipt once returned by anchor stays stored, and is the one of the     *)
(* checkpoint asked for.                                                     *)
THEOREM ReceiptsStand == Spec => []AnswersStand
<1>1. AnchorInv => AnswersStand
  BY DEF AnchorInv
<1>2. QED
  BY <1>1, AnchorInvHolds, PTL

(* Callers of one checkpoint are given one receipt: the rename in            *)
(* _publish_directory lets one of them win.                                  *)
THEOREM OneReceiptPerCheckpoint == Spec => []CallersConverge
<1>1. AnchorInv => CallersConverge
  BY DEF AnchorInv, OneReceiptPerName, AnswersStand, CallersConverge
<1>2. QED
  BY <1>1, AnchorInvHolds, PTL

(* A receipt's predecessor is stored and older, even where the chain forks.  *)
THEOREM ChainsReachTheStart == Spec => []PredecessorsAreOlder
<1>1. AnchorInv => PredecessorsAreOlder
  BY DEF AnchorInv
<1>2. QED
  BY <1>1, AnchorInvHolds, PTL

---------------------------------------------------------------------------
(* Serialized calls.                                                         *)

OneCall == \A c, d \in Callers : ~At(c, "idle") /\ ~At(d, "idle") => c = d

(* What the one call has read is still the tail when it publishes.           *)
TailRead(c) ==
  \/ receipts = {} /\ previous[c] = None
  \/ \E r \in receipts : /\ IsTail(r)
                         /\ Advances(goal[c], r)
                         /\ previous[c] = Hash(r)

SerialInv ==
  /\ OneCall
  /\ Intact
  /\ \A c \in Callers : At(c, "publish") => TailRead(c)

LEMMA SerialInit == Init => SerialInv
  BY DEF Init, SerialInv, OneCall, Intact, At

(* A step of the one call that stores nothing.                               *)
LEMMA SerialMove ==
  ASSUME AnchorInv, SerialInv, NEW c \in Callers, NEW step \in Steps,
         Go(c, step), receipts' = receipts,
         \A d \in Callers \ {c} : At(d, "idle"),
         step = "publish" => TailRead(c)'
  PROVE  SerialInv'
<1>1. Intact'
  BY DEF SerialInv, Intact, Sequence, Hash, Name
<1>2. \A d \in Callers \ {c} : At(d, "idle")'
  BY DEF Go, At, AnchorInv, TypeOK
<1>3. OneCall'
  BY <1>2 DEF OneCall
<1>4. \A d \in Callers : At(d, "publish")' => TailRead(d)'
  <2>1. At(c, "publish")' => step = "publish"
    BY DEF Go, At, AnchorInv, TypeOK
  <2>2. QED
    BY <1>2, <2>1 DEF At
<1>5. QED
  BY <1>1, <1>3, <1>4 DEF SerialInv

LEMMA SerialPublish ==
  ASSUME AnchorInv, SerialInv, NEW c \in Callers, Publish(c),
         \A d \in Callers \ {c} : At(d, "idle")
  PROVE  SerialInv'
<1> DEFINE new == [checkpoint |-> goal[c], previous |-> previous[c]]
<1>1. TailRead(c)
  BY DEF Publish, SerialInv
<1>2. \A r \in receipts : Sequence(r) \in Nat
  BY SequenceIsNat DEF AnchorInv, TypeOK
<1>3. Sequence(new) \in Nat /\ Sequence(new) = goal[c].through_sequence
  BY CheckpointAssumption DEF Sequence, AnchorInv, TypeOK
<1>4. \A r \in receipts : Sequence(r) < Sequence(new)
  BY <1>1, <1>2, <1>3 DEF TailRead, IsTail, Advances
<1>5. Stored(Name(goal[c])) = {}
  BY <1>2, <1>3, <1>4 DEF Stored, Name, Sequence
<1>6. receipts' = receipts \cup {new}
  BY <1>5 DEF Publish, PublishDirectory
<1>7. new.previous = previous[c]
  OBVIOUS
<1>8. Intact'
  <2>1. ASSUME NEW r \in receipts', NEW q \in receipts', Sequence(q) = Sequence(r)
        PROVE  q = r
    BY <2>1, <1>2, <1>3, <1>4, <1>6 DEF SerialInv, Intact
  <2>2. ASSUME NEW r \in receipts',
               {q \in receipts' : Sequence(q) < Sequence(r)} = {}
        PROVE  r.previous = None
    <3>1. CASE r \in receipts
      <4>1. {q \in receipts : Sequence(q) < Sequence(r)} = {}
        BY <2>2, <1>6
      <4>2. QED
        BY <3>1, <4>1 DEF SerialInv, Intact
    <3>2. CASE r = new
      <4>1. receipts = {}
        BY <2>2, <3>2, <1>4, <1>6
      <4>2. QED
        BY <4>1, <1>1, <1>7, <3>2 DEF TailRead
    <3>3. QED
      BY <3>1, <3>2, <1>6
  <2>3. ASSUME NEW r \in receipts',
               {q \in receipts' : Sequence(q) < Sequence(r)} # {}
        PROVE  \E q \in {p \in receipts' : Sequence(p) < Sequence(r)} :
                 /\ \A p \in {t \in receipts' : Sequence(t) < Sequence(r)} :
                      Sequence(p) <= Sequence(q)
                 /\ r.previous = Hash(q)
    <3>1. CASE r \in receipts
      <4>1. {q \in receipts' : Sequence(q) < Sequence(r)}
              = {q \in receipts : Sequence(q) < Sequence(r)}
        BY <3>1, <1>2, <1>3, <1>4, <1>6
      <4>2. QED
        BY <2>3, <3>1, <4>1 DEF SerialInv, Intact
    <3>2. CASE r = new
      <4>1. {q \in receipts' : Sequence(q) < Sequence(r)} = receipts
        BY <3>2, <1>3, <1>4, <1>6
      <4>2. PICK q \in receipts : IsTail(q) /\ previous[c] = Hash(q)
        BY <2>3, <4>1, <1>1 DEF TailRead
      <4>3. QED
        BY <3>2, <4>1, <4>2, <1>7 DEF IsTail
    <3>3. QED
      BY <3>1, <3>2, <1>6
  <2>4. QED
    BY <2>1, <2>2, <2>3 DEF Intact, Sequence, Hash, Name
<1>9. \A d \in Callers \ {c} : At(d, "idle")'
  BY DEF Publish, Go, At, AnchorInv, TypeOK
<1>10. ~At(c, "publish")'
  BY DEF Publish, Go, At, AnchorInv, TypeOK
<1>11. QED
  BY <1>8, <1>9, <1>10 DEF SerialInv, OneCall, At

(* What deployment it is never changes.                                      *)
LEMMA SerialStays == [Next]_vars => serial' = serial
<1> SUFFICES ASSUME [Next]_vars PROVE serial' = serial
  OBVIOUS
<1>1. CASE \E c \in Callers, k \in Checkpoints : Call(c, k)
  BY <1>1 DEF Call
<1>2. CASE \E c \in Callers : Scan(c) \/ ReadTail(c)
  BY <1>2 DEF Scan, ReadTail, Answer, Refuse
<1>3. CASE \E c \in Callers : Publish(c) \/ Confirm(c) \/ Fail(c)
  BY <1>3 DEF Publish, Confirm, Fail, Answer, Refuse
<1>4. QED
  BY <1>1, <1>2, <1>3 DEF Next, Step, vars

LEMMA SerialNext ==
  AnchorInv /\ (serial => SerialInv) /\ [Next]_vars => (serial => SerialInv)'
<1> SUFFICES ASSUME AnchorInv, serial => SerialInv, [Next]_vars, serial'
             PROVE SerialInv'
  OBVIOUS
<1>0. serial /\ SerialInv
  BY SerialStays
<1>1. ASSUME NEW c \in Callers, NEW k \in Checkpoints, Call(c, k) PROVE SerialInv'
  BY <1>0, <1>1, SerialMove DEF Call, Steps
<1>2. ASSUME NEW c \in Callers, ~At(c, "idle")
      PROVE  \A d \in Callers \ {c} : At(d, "idle")
  BY <1>0, <1>2 DEF SerialInv, OneCall
<1>3. ASSUME NEW c \in Callers, ~At(c, "idle"), Refuse(c) PROVE SerialInv'
  BY <1>0, <1>2, <1>3, SerialMove DEF Refuse, Steps
<1>4. ASSUME NEW c \in Callers, ~At(c, "idle"), NEW r \in receipts, Answer(c, r)
      PROVE  SerialInv'
  BY <1>0, <1>2, <1>4, SerialMove DEF Answer, Steps
<1>5. ASSUME NEW c \in Callers, Scan(c) PROVE SerialInv'
  <2>1. ~At(c, "idle")
    BY <1>5 DEF Scan, At
  <2>2. CASE Go(c, "tail") /\ UNCHANGED receipts
    BY <2>1, <2>2, <1>0, <1>2, SerialMove DEF Steps
  <2>3. QED
    BY <1>3, <1>4, <1>5, <2>1, <2>2 DEF Scan, FirstWithId
<1>6. ASSUME NEW c \in Callers, ReadTail(c) PROVE SerialInv'
  <2>1. ~At(c, "idle")
    BY <1>6 DEF ReadTail, At
  <2>2. CASE Refuse(c)
    BY <1>3, <2>1, <2>2
  <2>3. CASE ~Refuse(c)
    <3>1. Go(c, "publish") /\ UNCHANGED <<receipts, goal>>
      BY <1>6, <2>3 DEF ReadTail
    <3>2. TailRead(c)'
      <4>1. CASE receipts = {} /\ previous' = [previous EXCEPT ![c] = None]
        BY <4>1, <3>1 DEF TailRead, AnchorInv, TypeOK
      <4>2. ASSUME NEW r \in receipts, IsTail(r), Advances(goal[c], r),
                   previous' = [previous EXCEPT ![c] = Hash(r)]
            PROVE  TailRead(c)'
        BY <4>2, <3>1 DEF TailRead, IsTail, Advances, Hash, Name, Sequence,
                          AnchorInv, TypeOK
      <4>3. QED
        BY <1>6, <2>3, <4>1, <4>2 DEF ReadTail
    <3>3. QED
      BY <2>1, <3>1, <3>2, <1>0, <1>2, SerialMove DEF Steps
  <2>4. QED
    BY <2>2, <2>3
<1>7. ASSUME NEW c \in Callers, Publish(c) PROVE SerialInv'
  BY <1>0, <1>2, <1>7, SerialPublish DEF Publish, At
<1>8. ASSUME NEW c \in Callers, Confirm(c) PROVE SerialInv'
  BY <1>3, <1>4, <1>8 DEF Confirm, At, Stored
<1>9. ASSUME NEW c \in Callers, Fail(c) PROVE SerialInv'
  BY <1>3, <1>9 DEF Fail
<1>10. CASE UNCHANGED vars
  BY <1>0, <1>10 DEF vars, SerialInv, OneCall, Intact, At, TailRead, IsTail, Advances,
               Hash, Name, Sequence
<1>11. QED
  BY <1>1, <1>5, <1>6, <1>7, <1>8, <1>9, <1>10 DEF Next, Step

(* Where the deployment serializes the calls of a stream, a receipt once     *)
(* returned verifies for ever, whatever calls fail halfway in between.       *)
THEOREM SerialAnswersVerify == Spec => []AnswersVerify
<1>1. AnchorInv /\ (serial => SerialInv) => AnswersVerify
  BY DEF AnchorInv, SerialInv, AnswersStand, AnswersVerify, Verifies
<1>2. Init => (serial => SerialInv)
  BY SerialInit
<1>3. QED
  BY <1>1, <1>2, SerialNext, AnchorInvHolds, PTL DEF Spec

---------------------------------------------------------------------------
(* The log of a serialized stream.                                           *)

(* Each receipt of a set has a rank of its own, from 0 on.                   *)
Ranked(set) ==
  /\ IsFiniteSet(set)
  /\ \A q, r \in set : Rank(set, q) = Rank(set, r) => q = r
  /\ \A n \in 1..Cardinality(set) : \E r \in set : Rank(set, r) = n - 1

(* The log names receipts of the stream, ...                                 *)
LEMMA LogNamesReceipts ==
  ASSUME NEW set \in SUBSET Receipt, Ranked(set)
  PROVE  /\ InOrder(set) \in Seq(Checkpoints)
         /\ Len(InOrder(set)) = Cardinality(set) /\ Cardinality(set) \in Nat
         /\ DOMAIN InOrder(set) = 1..Cardinality(set)
         /\ \A n \in 1..Cardinality(set) :
              \E r \in set : Rank(set, r) = n - 1 /\ InOrder(set)[n] = r.checkpoint
PROOF
<1>1. Cardinality(set) \in Nat
  BY FS_CardinalityType DEF Ranked
<1>2. ASSUME NEW n \in 1..Cardinality(set)
      PROVE  \E r \in set : Rank(set, r) = n - 1 /\ InOrder(set)[n] = r.checkpoint
  BY DEF Ranked, InOrder
<1>3. \A r \in set : r.checkpoint \in Checkpoints
  BY DEF Receipt
<1>4. /\ DOMAIN InOrder(set) = 1..Cardinality(set)
      /\ InOrder(set) = [n \in 1..Cardinality(set) |-> InOrder(set)[n]]
  BY DEF InOrder
<1>5. \A n \in 1..Cardinality(set) : InOrder(set)[n] \in Checkpoints
  BY <1>2, <1>3
<1>. DEFINE m == Cardinality(set)
            log == InOrder(set)
<1>. HIDE DEF m, log
<1>6. log \in Seq(Checkpoints) /\ Len(log) = m
  BY <1>1, <1>4, <1>5 DEF m, log
<1>. QED  BY <1>1, <1>2, <1>4, <1>6 DEF m, log

(* ... and one more receipt, with a sequence beyond all, is one more entry.  *)
LEMMA OneMoreReceipt ==
  ASSUME NEW set \in SUBSET Receipt, Ranked(set), NEW new \in Receipt,
         \A r \in set : Sequence(r) < Sequence(new)
  PROVE  /\ Ranked(set \cup {new})
         /\ InOrder(set \cup {new}) = Append(InOrder(set), new.checkpoint)
PROOF
<1>. DEFINE more == set \cup {new}
            m == Cardinality(set)
<1>1. /\ Sequence(new) \in Nat /\ \A r \in set : Sequence(r) \in Nat
      /\ new \notin set
  <2>1. Sequence(new) \in Nat /\ \A r \in set : Sequence(r) \in Nat
    BY SequenceIsNat
  <2>. QED  BY <2>1
<1>2. /\ IsFiniteSet(more) /\ Cardinality(more) = m + 1 /\ m \in Nat
  BY <1>1, FS_AddElement, FS_CardinalityType DEF Ranked
<1>3. ASSUME NEW r \in set  PROVE Rank(more, r) = Rank(set, r)
  <2>1. {q \in more : Sequence(q) < Sequence(r)} = {q \in set : Sequence(q) < Sequence(r)}
    BY <1>1
  <2>. QED  BY <2>1 DEF Rank
<1>4. Rank(more, new) = m
  <2>1. {q \in more : Sequence(q) < Sequence(new)} = set
    BY <1>1
  <2>. QED  BY <2>1 DEF Rank
<1>5. ASSUME NEW r \in set  PROVE Rank(set, r) \in Nat /\ Rank(set, r) < m
  <2>. DEFINE lower == {q \in set : Sequence(q) < Sequence(r)}
  <2>1. lower \in SUBSET set /\ lower # set
    BY <1>1
  <2>. HIDE DEF lower
  <2>2. /\ Cardinality(lower) <= m /\ IsFiniteSet(lower)
        /\ m = Cardinality(lower) => set = lower
    BY <2>1, FS_Subset DEF Ranked
  <2>3. Cardinality(lower) \in Nat
    BY <2>2, FS_CardinalityType
  <2>. QED  BY <1>2, <2>1, <2>2, <2>3 DEF Rank, lower
<1>6. \A q, r \in more : Rank(more, q) = Rank(more, r) => q = r
  BY <1>2, <1>3, <1>4, <1>5 DEF Ranked
<1>7. ASSUME NEW n \in 1..(m + 1)
      PROVE  \E r \in more : Rank(more, r) = n - 1
  <2>1. CASE n = m + 1
    BY <1>2, <1>4, <2>1
  <2>2. CASE n # m + 1
    <3>1. n \in 1..m
      BY <1>2, <2>2
    <3>. QED  BY <1>3, <3>1 DEF Ranked
  <2>. QED  BY <2>1, <2>2
<1>8. Ranked(more)
  BY <1>2, <1>6, <1>7 DEF Ranked
<1>9. /\ InOrder(set) \in Seq(Checkpoints) /\ Len(InOrder(set)) = m
      /\ \A n \in 1..m :
           \E r \in set : Rank(set, r) = n - 1 /\ InOrder(set)[n] = r.checkpoint
  BY LogNamesReceipts
<1>10. /\ InOrder(more) \in Seq(Checkpoints) /\ Len(InOrder(more)) = m + 1
       /\ \A n \in 1..(m + 1) :
            \E r \in more : Rank(more, r) = n - 1 /\ InOrder(more)[n] = r.checkpoint
  <2>1. more \in SUBSET Receipt
    OBVIOUS
  <2>. QED  BY <1>2, <1>8, <2>1, LogNamesReceipts
<1>. HIDE DEF more, m
<1>11. new.checkpoint \in Checkpoints /\ new \in more
  BY DEF Receipt, more
<1>12. ASSUME NEW n \in 1..(m + 1)
       PROVE  InOrder(more)[n] = Append(InOrder(set), new.checkpoint)[n]
  <2>1. PICK r \in more : Rank(more, r) = n - 1 /\ InOrder(more)[n] = r.checkpoint
    BY <1>10
  <2>2. CASE n = m + 1
    <3>1. r = new
      BY <1>2, <1>4, <1>6, <1>11, <2>1, <2>2
    <3>. QED  BY <1>2, <1>9, <1>11, <2>1, <2>2, <3>1
  <2>3. CASE n # m + 1
    <3>1. n \in 1..m
      BY <1>2, <2>3
    <3>2. PICK q \in set : Rank(set, q) = n - 1 /\ InOrder(set)[n] = q.checkpoint
      BY <1>9, <3>1
    <3>3. q = r
      BY <1>3, <1>6, <2>1, <3>2 DEF more
    <3>4. Append(InOrder(set), new.checkpoint)[n] = InOrder(set)[n]
      BY <1>9, <1>11, <3>1
    <3>. QED  BY <2>1, <3>2, <3>3, <3>4
  <2>. QED  BY <2>2, <2>3
<1>13. /\ Append(InOrder(set), new.checkpoint) \in Seq(Checkpoints)
       /\ Len(Append(InOrder(set), new.checkpoint)) = m + 1
  BY <1>9, <1>11
<1>14. InOrder(more) = Append(InOrder(set), new.checkpoint)
  <2>. DEFINE a == InOrder(more)
              b == Append(InOrder(set), new.checkpoint)
  <2>1. /\ a \in Seq(Checkpoints) /\ b \in Seq(Checkpoints) /\ Len(a) = Len(b)
        /\ \A n \in 1..Len(a) : a[n] = b[n]
    BY <1>10, <1>12, <1>13
  <2>. HIDE DEF a, b
  <2>2. a = b
    BY <2>1, SeqEqual
  <2>. QED  BY <2>2 DEF a, b
<1>. QED  BY <1>8, <1>14 DEF more

(* No receipt has the id of what a call that has scanned anchors.            *)
Unseen(c) ==
  \A r \in receipts : r.checkpoint.checkpoint_id # goal[c].checkpoint_id

LogInv ==
  /\ Ranked(receipts)
  /\ \A c \in Callers : At(c, "tail") \/ At(c, "publish") => Unseen(c)

(* A scan that finds no first receipt of an id finds none at all.            *)
LEMMA ScanFindsAll ==
  ASSUME AnchorInv, NEW c \in Callers, FirstWithId(goal[c].checkpoint_id) = {}
  PROVE  Unseen(c)
PROOF
<1>. DEFINE same == {r \in receipts : r.checkpoint.checkpoint_id = goal[c].checkpoint_id}
            numbers == {Sequence(r) : r \in same}
<1>1. SUFFICES ASSUME same # {}  PROVE FALSE
  BY DEF Unseen
<1>2. \A r \in same : Sequence(r) \in Nat
  BY SequenceIsNat DEF AnchorInv, TypeOK
<1>. HIDE DEF same
<1>3. numbers \subseteq Nat /\ numbers # {}
  BY <1>1, <1>2
<1>4. PICK x \in numbers : \A y \in numbers : x <= y
  BY <1>3, LeastNatural
<1>5. PICK r \in same : x = Sequence(r)
  BY <1>4
<1>6. \A q \in same : Sequence(r) <= Sequence(q)
  BY <1>4, <1>5
<1>7. r \in FirstWithId(goal[c].checkpoint_id)
  BY <1>5, <1>6 DEF same, FirstWithId
<1>. QED  BY <1>7

(* A step that stores nothing leaves the log as it is.                       *)
LEMMA LogMove ==
  ASSUME AnchorInv, LogInv, NEW c \in Callers, NEW step \in Steps,
         Go(c, step), receipts' = receipts,
         \A d \in Callers \ {c} : At(d, "idle"),
         step \in {"tail", "publish"} => Unseen(c)'
  PROVE  LogInv'
PROOF
<1>1. \A d \in Callers \ {c} : At(d, "idle")'
  BY DEF Go, At, AnchorInv, TypeOK
<1>2. At(c, "tail")' \/ At(c, "publish")' => step \in {"tail", "publish"}
  BY DEF Go, At, AnchorInv, TypeOK
<1>3. \A d \in Callers : (At(d, "tail") \/ At(d, "publish"))' => Unseen(d)'
  BY <1>1, <1>2 DEF At
<1>4. Ranked(receipts')
  BY DEF LogInv
<1>. QED  BY <1>3, <1>4 DEF LogInv

(* The one call's rename stores its receipt, beyond all before.              *)
LEMMA PublishAppends ==
  ASSUME AnchorInv, SerialInv, NEW c \in Callers, Publish(c)
  PROVE  LET new == [checkpoint |-> goal[c], previous |-> previous[c]]
         IN  /\ new \in Receipt
             /\ \A r \in receipts : Sequence(r) < Sequence(new)
             /\ receipts' = receipts \cup {new}
PROOF
<1> DEFINE new == [checkpoint |-> goal[c], previous |-> previous[c]]
<1>1. TailRead(c)
  BY DEF Publish, SerialInv
<1>2. \A r \in receipts : Sequence(r) \in Nat
  BY SequenceIsNat DEF AnchorInv, TypeOK
<1>3. Sequence(new) \in Nat /\ Sequence(new) = goal[c].through_sequence
  BY CheckpointAssumption DEF Sequence, AnchorInv, TypeOK
<1>4. \A r \in receipts : Sequence(r) < Sequence(new)
  BY <1>1, <1>2, <1>3 DEF TailRead, IsTail, Advances
<1>5. Stored(Name(goal[c])) = {}
  BY <1>2, <1>3, <1>4 DEF Stored, Name, Sequence
<1>6. receipts' = receipts \cup {new}
  BY <1>5 DEF Publish, PublishDirectory
<1>7. new \in Receipt
  BY DEF Receipt, AnchorInv, TypeOK
<1>. QED  BY <1>4, <1>6, <1>7

LEMMA LogNext ==
  ASSUME AnchorInv, serial, SerialInv, LogInv, [Next]_vars
  PROVE  LogInv' /\ [Promise!Next]_Log
PROOF
<1>0. serial'
  BY SerialStays
<1>1. ASSUME receipts' = receipts  PROVE Log' = Log
  BY <1>0, <1>1 DEF Log, InOrder, Rank, Sequence
<1>2. ASSUME NEW c \in Callers, NEW k \in Checkpoints, Call(c, k)
      PROVE  LogInv' /\ receipts' = receipts
  BY <1>2, LogMove DEF Call, Steps
<1>3. ASSUME NEW c \in Callers, ~At(c, "idle")
      PROVE  \A d \in Callers \ {c} : At(d, "idle")
  BY <1>3 DEF SerialInv, OneCall
<1>4. ASSUME NEW c \in Callers, ~At(c, "idle"), Go(c, "idle"), receipts' = receipts
      PROVE  LogInv'
  BY <1>3, <1>4, LogMove DEF Steps
<1>5. ASSUME NEW c \in Callers, Scan(c)  PROVE LogInv' /\ receipts' = receipts
  <2>1. ~At(c, "idle") /\ receipts' = receipts
    BY <1>5 DEF Scan, At, Answer, Refuse
  <2>2. CASE Go(c, "idle")
    BY <1>4, <2>1, <2>2
  <2>3. CASE ~Go(c, "idle")
    <3>1. FirstWithId(goal[c].checkpoint_id) = {} /\ Go(c, "tail") /\ goal' = goal
      BY <1>5, <2>3 DEF Scan, Answer, Refuse
    <3>2. Unseen(c)'
      BY <2>1, <3>1, ScanFindsAll DEF Unseen
    <3>. QED  BY <1>3, <2>1, <3>1, <3>2, LogMove DEF Steps
  <2>. QED  BY <2>1, <2>2, <2>3
<1>6. ASSUME NEW c \in Callers, ReadTail(c)  PROVE LogInv' /\ receipts' = receipts
  <2>1. ~At(c, "idle") /\ receipts' = receipts
    BY <1>6 DEF ReadTail, At, Refuse
  <2>2. CASE Go(c, "idle")
    BY <1>4, <2>1, <2>2
  <2>3. CASE ~Go(c, "idle")
    <3>1. Go(c, "publish") /\ goal' = goal
      BY <1>6, <2>3 DEF ReadTail, Refuse
    <3>2. Unseen(c)'
      BY <1>6, <2>1, <3>1 DEF ReadTail, LogInv, Unseen
    <3>. QED  BY <1>3, <2>1, <3>1, <3>2, LogMove DEF Steps
  <2>. QED  BY <2>1, <2>2, <2>3
<1>7. ASSUME NEW c \in Callers, Confirm(c) \/ Fail(c)
      PROVE  LogInv' /\ receipts' = receipts
  <2>1. ~At(c, "idle") /\ Go(c, "idle") /\ receipts' = receipts
    BY <1>7 DEF Confirm, Fail, At, Answer, Refuse
  <2>. QED  BY <1>4, <2>1
<1>8. ASSUME NEW c \in Callers, Publish(c)
      PROVE  LogInv' /\ \E k \in Checkpoints : Promise!Anchor(k)
  <2>. DEFINE new == [checkpoint |-> goal[c], previous |-> previous[c]]
  <2>1. /\ new \in Receipt /\ receipts' = receipts \cup {new}
        /\ \A r \in receipts : Sequence(r) < Sequence(new)
    BY <1>8, PublishAppends
  <2>2. new.checkpoint = goal[c] /\ goal[c] \in Checkpoints
    BY DEF AnchorInv, TypeOK
  <2>. HIDE DEF new
  <2>3. Ranked(receipts) /\ receipts \in SUBSET Receipt
    BY DEF LogInv, AnchorInv, TypeOK
  <2>4. Ranked(receipts') /\ InOrder(receipts') = Append(InOrder(receipts), goal[c])
    BY <2>1, <2>2, <2>3, OneMoreReceipt
  <2>5. Log = InOrder(receipts) /\ Log' = InOrder(receipts')
    BY <1>0 DEF Log, InOrder, Rank, Sequence
  <2>6. At(c, "publish") /\ Go(c, "confirm") /\ goal' = goal
    BY <1>8 DEF Publish
  <2>7. \A d \in Callers \ {c} : At(d, "idle")
    BY <1>3, <2>6 DEF At
  <2>8. \A d \in Callers : ~At(d, "tail")' /\ ~At(d, "publish")'
    BY <2>6, <2>7 DEF Go, At, AnchorInv, TypeOK
  <2>9. LogInv'
    BY <2>4, <2>8 DEF LogInv
  <2>10. Unseen(c)
    BY <2>6 DEF LogInv
  <2>11. ASSUME NEW n \in DOMAIN InOrder(receipts)
         PROVE  /\ InOrder(receipts)[n].checkpoint_id # goal[c].checkpoint_id
                /\ InOrder(receipts)[n].through_sequence < goal[c].through_sequence
    <3>1. PICK r \in receipts : InOrder(receipts)[n] = r.checkpoint
      BY <2>3, LogNamesReceipts
    <3>. QED  BY <2>1, <2>2, <2>10, <3>1 DEF Unseen, Sequence
  <2>12. Promise!Anchor(goal[c])
    BY <2>4, <2>5, <2>11 DEF Promise!Anchor, Promise!Fresh
  <2>. QED  BY <2>2, <2>9, <2>12
<1>9. CASE UNCHANGED vars
  <2>1. receipts' = receipts /\ pc' = pc /\ goal' = goal
    BY <1>9 DEF vars
  <2>2. LogInv'
    BY <2>1 DEF LogInv, Ranked, Rank, Sequence, At, Unseen
  <2>. QED  BY <1>1, <2>1, <2>2
<1>. QED
  BY <1>1, <1>2, <1>5, <1>6, <1>7, <1>8, <1>9 DEF Next, Step, Promise!Next

(* Where the calls of a stream are serialized, its receipts by sequence are  *)
(* the append-only log of AnchorLog: each stored receipt is one new entry,   *)
(* with a new id and a sequence beyond all, whatever calls fail in between.  *)
THEOREM AnchorKeepsTheLog == Spec => KeepsTheLog
PROOF
<1>. DEFINE Inv == AnchorInv /\ (serial => SerialInv) /\ (serial => LogInv)
<1>1. Init => Promise!Init /\ (serial => SerialInv) /\ (serial => LogInv)
  <2>. SUFFICES ASSUME Init  PROVE Promise!Init /\ SerialInv /\ LogInv
    OBVIOUS
  <2>1. receipts = {} /\ \A c \in Callers : At(c, "idle")
    BY DEF Init, At
  <2>2. Cardinality(receipts) = 0 /\ IsFiniteSet(receipts)
    BY <2>1, FS_EmptySet
  <2>3. InOrder(receipts) = <<>>
    <3>1. 1..Cardinality(receipts) = {}
      BY <2>2
    <3>. QED  BY <3>1 DEF InOrder
  <2>4. Ranked(receipts)
    BY <2>1, <2>2 DEF Ranked
  <2>. QED  BY <2>1, <2>3, <2>4, SerialInit DEF Promise!Init, Log, LogInv, At
<1>2. Inv /\ [Next]_vars => (serial => LogInv)' /\ [Promise!Next]_Log
  <2>. SUFFICES ASSUME Inv, [Next]_vars  PROVE (serial => LogInv)' /\ [Promise!Next]_Log
    OBVIOUS
  <2>1. CASE serial
    BY <2>1, LogNext
  <2>2. CASE ~serial
    BY <2>2, SerialStays DEF Log
  <2>. QED  BY <2>1, <2>2
<1>. QED
  BY <1>1, <1>2, SerialNext, AnchorInvHolds, PTL DEF Spec, KeepsTheLog, Promise!Spec
============================================================================
