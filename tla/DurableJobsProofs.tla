------------------------- MODULE DurableJobsProofs -------------------------
(* Machine-checked proofs about the durable-job repository, for every set of *)
(* jobs, budget, lease time, retry delay, deadline and lag.  First the       *)
(* inductive invariant and what it implies; then what a step may never do    *)
(* and what the outbox says of the steps; then the evidence of staleness and *)
(* how far a correction reaches; last, that the repository implements        *)
(* FencedResults.                                                            *)
EXTENDS DurableJobsProperties, DataLemmas, TLAPS

(* The conditions on one job and its attempts.  They are stated for values,  *)
(* so that they can be asked of what a call writes as well as of the state.  *)
UnfinishedIn(atts) == {n \in DOMAIN atts : atts[n].outcome = "none"}

LeaseOK(job, atts) ==
  IF job.state = "running"
  THEN UnfinishedIn(atts) = {job.lease.attempt} /\ job.lease.attempt = Len(atts)
  ELSE UnfinishedIn(atts) = {} /\ job.lease = NoLease

BudgetOK(j, job, atts) ==
  /\ job.attempt_count = Len(atts)
  /\ job.attempt_count <= MaxAttempts[j]
  /\ job.state \in Waiting => job.attempt_count < MaxAttempts[j]
  /\ job.state \in {"absent", "queued"} => job.attempt_count = 0
  /\ \A n \in DOMAIN atts : atts[n].number = n

JobOK(j, job, atts) ==
  /\ job \in JobRecord
  /\ atts \in Seq(Attempt)
  /\ LeaseOK(job, atts)
  /\ BudgetOK(j, job, atts)

JobsOK ==
  /\ jobs = [j \in Jobs |-> jobs[j]]
  /\ attempts = [j \in Jobs |-> attempts[j]]
  /\ \A j \in Jobs : JobOK(j, jobs[j], attempts[j])

RestTypeOK ==
  /\ publications \in Seq(Publication)
  /\ heads \in [Cases -> [ResultKeys -> Nat]]
  /\ receipts \subseteq Receipt
  /\ impacts \subseteq Impact
  /\ outbox \subseteq Event

(* The inductive invariant.                                                  *)
IInv == JobsOK /\ RestTypeOK /\ PublishedByWinner /\ HeadChain

(* It is the conjunction of the type invariant and four of the safety        *)
(* invariants.                                                               *)
LEMMA IInvIsTheInvariants ==
  IInv <=> /\ TypeOK /\ OneLiveAttempt /\ WithinBudget
           /\ PublishedByWinner /\ HeadChain
<1>1. JobsOK <=> /\ jobs \in [Jobs -> JobRecord]
                 /\ attempts \in [Jobs -> Seq(Attempt)]
                 /\ OneLiveAttempt /\ WithinBudget
  BY DEF JobsOK, JobOK, LeaseOK, BudgetOK, UnfinishedIn, Unfinished, OneLiveAttempt,
         WithinBudget
<1>2. QED
  BY <1>1 DEF IInv, RestTypeOK, TypeOK

---------------------------------------------------------------------------
(* A function on 1 .. n with values in S is a sequence of length n.          *)
LEMMA FunctionIsSeq ==
  ASSUME NEW S, NEW n \in Nat, NEW f \in [1 .. n -> S]
  PROVE  f \in Seq(S) /\ Len(f) = n
OBVIOUS

(* Closing the leased attempt of a running job.                              *)
LEMMA FinishedOK ==
  ASSUME NEW j \in Jobs, JobOK(j, jobs[j], attempts[j]),
         jobs[j].state = "running",
         NEW outcome \in Outcomes \ {"none"}
  PROVE  /\ Finished(j, outcome) \in Seq(Attempt)
         /\ Len(Finished(j, outcome)) = Len(attempts[j])
         /\ UnfinishedIn(Finished(j, outcome)) = {}
         /\ \A n \in DOMAIN Finished(j, outcome) :
              Finished(j, outcome)[n].number = n
         /\ jobs[j].lease.attempt \in DOMAIN attempts[j]
         /\ Finished(j, outcome)[jobs[j].lease.attempt] =
              [attempts[j][jobs[j].lease.attempt] EXCEPT !.outcome = outcome]
<1> DEFINE atts == attempts[j]
           leased == jobs[j].lease.attempt
           done == Finished(j, outcome)
<1>1. atts \in Seq(Attempt) /\ leased = Len(atts) /\ UnfinishedIn(atts) = {leased}
  BY DEF JobOK, LeaseOK
<1>2. leased \in DOMAIN atts
  BY <1>1 DEF UnfinishedIn
<1>3. done = [n \in DOMAIN atts |->
                IF n = leased THEN [atts[n] EXCEPT !.outcome = outcome]
                ELSE atts[n]]
  BY <1>1, <1>2 DEF Finished
<1>4. \A n \in DOMAIN atts : atts[n] \in Attempt
  BY <1>1
<1>5. \A n \in DOMAIN atts : done[n] \in Attempt
  BY <1>3, <1>4 DEF Attempt
<1>6. DOMAIN done = 1 .. Len(atts) /\ Len(atts) \in Nat
  BY <1>1, <1>3
<1>7. done \in Seq(Attempt) /\ Len(done) = Len(atts)
  <2>1. done \in [1 .. Len(atts) -> Attempt]
    BY <1>3, <1>5, <1>6
  <2>2. QED
    BY <1>6, <2>1, FunctionIsSeq
<1>8. UnfinishedIn(done) = {}
  <2>1. ASSUME NEW n \in DOMAIN done PROVE done[n].outcome # "none"
    BY <1>1, <1>3, <1>4 DEF UnfinishedIn, Attempt
  <2>2. QED
    BY <2>1 DEF UnfinishedIn
<1>9. \A n \in DOMAIN done : done[n].number = n
  BY <1>3, <1>4 DEF JobOK, BudgetOK, Attempt
<1>10. QED
  BY <1>2, <1>3, <1>7, <1>8, <1>9
LEMMA InstantsAreIntegers ==
  Instants \subseteq Int /\ -Lag \in Int
BY TimeAssumption DEF Instants

LEMMA NoLeaseOK == NoLease \in [attempt : Nat, until : Int]
BY InstantsAreIntegers DEF NoLease

(* Expiring a lapsed lease leaves the job and its attempts in order, and     *)
(* moves neither a job that does not run nor the fields of a claim.          *)
LEMMA ExpiryOK ==
  ASSUME NEW j \in Jobs, JobOK(j, jobs[j], attempts[j]), NEW now \in Instants
  PROVE  /\ JobOK(j, AfterExpiry(j, now), AttemptsAfterExpiry(j, now))
         /\ AfterExpiry(j, now).publication = jobs[j].publication
         /\ AfterExpiry(j, now).attempt_count = jobs[j].attempt_count
         /\ AfterExpiry(j, now).cancellation_requested
              = jobs[j].cancellation_requested
         /\ AfterExpiry(j, now).deadline_at = jobs[j].deadline_at
         /\ Len(AttemptsAfterExpiry(j, now)) = Len(attempts[j])
         /\ jobs[j].state # "running" =>
              /\ AfterExpiry(j, now) = jobs[j]
              /\ AttemptsAfterExpiry(j, now) = attempts[j]
         /\ AfterExpiry(j, now).state = "running" =>
              /\ AfterExpiry(j, now) = jobs[j]
              /\ AttemptsAfterExpiry(j, now) = attempts[j]
         /\ jobs[j].state = "running" =>
              AfterExpiry(j, now).state
                \in {"running", "cancelled", "failed", "retry_wait"}
<1>1. CASE ~Lapsed(j, now)
  <2>1. AfterExpiry(j, now) = jobs[j] /\ AttemptsAfterExpiry(j, now) = attempts[j]
    BY <1>1 DEF AfterExpiry, AttemptsAfterExpiry
  <2>2. QED
    BY <2>1
<1>2. CASE Lapsed(j, now)
  <2> DEFINE job == AfterExpiry(j, now)
             atts == AttemptsAfterExpiry(j, now)
  <2>1. jobs[j].state = "running"
    BY <1>2 DEF Lapsed
  <2>2. jobs[j] \in JobRecord /\ attempts[j] \in Seq(Attempt)
    BY DEF JobOK
  <2>3. job = [jobs[j] EXCEPT !.state = ExpiredState(j), !.lease = NoLease,
                              !.available_at = now]
    BY <1>2 DEF AfterExpiry
  <2>4. ExpiredState(j) \in {"cancelled", "failed", "retry_wait"}
    BY DEF ExpiredState
  <2>5. /\ job.state = ExpiredState(j) /\ job.lease = NoLease
        /\ job.publication = jobs[j].publication
        /\ job.attempt_count = jobs[j].attempt_count
        /\ job.cancellation_requested = jobs[j].cancellation_requested
        /\ job.deadline_at = jobs[j].deadline_at
    BY <2>2, <2>3 DEF JobRecord
  <2>6. job \in JobRecord
    BY <2>2, <2>3, <2>4, NoLeaseOK, InstantsAreIntegers
    DEF JobRecord, JobStates, Waiting, Terminal
  <2>7. atts = Finished(j, "lease_expired")
    BY <1>2 DEF AttemptsAfterExpiry
  <2>8. /\ atts \in Seq(Attempt) /\ Len(atts) = Len(attempts[j])
        /\ UnfinishedIn(atts) = {} /\ \A n \in DOMAIN atts : atts[n].number = n
    <3>1. "lease_expired" \in Outcomes \ {"none"}
      BY DEF Outcomes
    <3>2. QED
      BY <2>1, <2>7, <3>1, FinishedOK
  <2>9. LeaseOK(job, atts)
    BY <2>4, <2>5, <2>8 DEF LeaseOK
  <2>10. BudgetOK(j, job, atts)
    <3>1. job.state \in Waiting => job.attempt_count < MaxAttempts[j]
      <4>1. MaxAttempts[j] \in Nat /\ jobs[j].attempt_count \in Nat
        BY <2>2, SpecAssumption DEF JobRecord
      <4>2. QED
        BY <2>5, <4>1 DEF ExpiredState, Waiting
    <3>2. job.attempt_count = Len(atts) /\ job.attempt_count <= MaxAttempts[j]
      BY <2>5, <2>8 DEF JobOK, BudgetOK
    <3>3. QED
      BY <2>4, <2>5, <2>8, <3>1, <3>2 DEF BudgetOK
  <2>11. QED
    BY <2>1, <2>4, <2>5, <2>6, <2>8, <2>9, <2>10 DEF JobOK
<1>3. QED
  BY <1>1, <1>2

---------------------------------------------------------------------------
(* A step that leaves publications alone keeps PublishedByWinner as long as  *)
(* succeeded jobs and their attempts stay as they are and no other job       *)
(* becomes succeeded.                                                        *)
LEMMA PublishedKept ==
  ASSUME PublishedByWinner, UNCHANGED publications,
         jobs' = [j \in Jobs |-> jobs'[j]],
         RestTypeOK,
         \A j \in Jobs :
           /\ jobs'[j].publication = jobs[j].publication
           /\ jobs'[j].state = "succeeded" <=> jobs[j].state = "succeeded"
           /\ jobs[j].state = "succeeded" => attempts'[j] = attempts[j]
  PROVE  PublishedByWinner'
<1>1. ASSUME NEW p \in DOMAIN publications'
      PROVE  LET pub == publications'[p]
             IN  /\ jobs'[pub.job].publication = p
                 /\ pub.attempt = Len(attempts'[pub.job])
                 /\ pub.attempt # 0
                 /\ attempts'[pub.job][pub.attempt].outcome = "succeeded"
                 /\ attempts'[pub.job][pub.attempt].staged = pub.outputs
                 /\ pub.outputs # NoOutputs
  <2>1. p \in DOMAIN publications /\ publications'[p] = publications[p]
    BY <1>1
  <2>2. publications[p] \in Publication /\ p # 0
    BY <2>1 DEF RestTypeOK
  <2>3. publications[p].job \in Jobs
    BY <2>2 DEF Publication
  <2>4. jobs[publications[p].job].publication = p
    BY <2>1 DEF PublishedByWinner
  <2>5. jobs[publications[p].job].state = "succeeded"
    BY <2>2, <2>3, <2>4 DEF PublishedByWinner
  <2>6. QED
    BY <2>1, <2>3, <2>4, <2>5 DEF PublishedByWinner
<1>2. ASSUME NEW j \in Jobs
      PROVE  IF jobs'[j].state = "succeeded"
             THEN jobs'[j].publication \in DOMAIN publications'
             ELSE jobs'[j].publication = 0
  BY DEF PublishedByWinner
<1>3. QED
  BY <1>1, <1>2 DEF PublishedByWinner
(* The chains of results depend on four fields of the publications only.     *)
LEMMA HeadChainKept ==
  ASSUME HeadChain, UNCHANGED heads,
         DOMAIN publications' = DOMAIN publications,
         \A p \in DOMAIN publications :
           /\ publications'[p].job = publications[p].job
           /\ publications'[p].result_key = publications[p].result_key
           /\ publications'[p].generation = publications[p].generation
           /\ publications'[p].supersedes = publications[p].supersedes
  PROVE  HeadChain'
<1>1. ASSUME NEW case, NEW key
      PROVE  ResultOf(case, key)' = ResultOf(case, key)
  BY DEF ResultOf, CaseOfPublication
<1>2. ASSUME NEW case, NEW key, NEW p \in ResultOf(case, key)
      PROVE  p \in DOMAIN publications
  BY <1>2 DEF ResultOf
<1>3. QED
  BY <1>1, <1>2 DEF HeadChain

(* A step that publishes nothing keeps the invariant when it leaves every    *)
(* job and its attempts in order and touches no succeeded job.               *)
LEMMA JobsMoved ==
  ASSUME IInv,
         jobs' = [j \in Jobs |-> jobs'[j]],
         attempts' = [j \in Jobs |-> attempts'[j]],
         UNCHANGED <<publications, heads, receipts, impacts>>,
         outbox' \subseteq Event,
         \A j \in Jobs :
           /\ JobOK(j, jobs'[j], attempts'[j])
           /\ jobs'[j].publication = jobs[j].publication
           /\ jobs'[j].state = "succeeded" <=> jobs[j].state = "succeeded"
           /\ jobs[j].state = "succeeded" => attempts'[j] = attempts[j]
  PROVE  IInv'
<1>1. RestTypeOK /\ PublishedByWinner /\ RestTypeOK'
  BY DEF IInv, RestTypeOK
<1>2. PublishedByWinner'
  BY <1>1, PublishedKept
<1>3. JobsOK'
  BY DEF JobsOK
<1>4. HeadChain'
  BY HeadChainKept DEF IInv
<1>5. QED
  BY <1>1, <1>2, <1>3, <1>4 DEF IInv

(* The same for a step that moves one job, which is not succeeded before or  *)
(* after, or does not change at all.                                         *)
LEMMA OneJobMoved ==
  ASSUME IInv, NEW j \in Jobs, NEW job, NEW atts,
         jobs' = [jobs EXCEPT ![j] = job],
         attempts' = [attempts EXCEPT ![j] = atts],
         UNCHANGED <<publications, heads, receipts, impacts>>,
         outbox' \subseteq Event,
         JobOK(j, job, atts),
         job.publication = jobs[j].publication,
         \/ jobs[j].state # "succeeded" /\ job.state # "succeeded"
         \/ job.state = jobs[j].state /\ atts = attempts[j]
  PROVE  IInv'
<1>1. jobs = [i \in Jobs |-> jobs[i]] /\ attempts = [i \in Jobs |-> attempts[i]]
  BY DEF IInv, JobsOK
<1>2. \A i \in Jobs : /\ jobs'[i] = IF i = j THEN job ELSE jobs[i]
                      /\ attempts'[i] = IF i = j THEN atts ELSE attempts[i]
  BY <1>1
<1>3. /\ jobs' = [i \in Jobs |-> jobs'[i]]
      /\ attempts' = [i \in Jobs |-> attempts'[i]]
  BY <1>1
<1>4. ASSUME NEW i \in Jobs
      PROVE  /\ JobOK(i, jobs'[i], attempts'[i])
             /\ jobs'[i].publication = jobs[i].publication
             /\ jobs'[i].state = "succeeded" <=> jobs[i].state = "succeeded"
             /\ jobs[i].state = "succeeded" => attempts'[i] = attempts[i]
  <2>1. CASE i = j
    BY <1>2, <2>1
  <2>2. CASE i # j
    BY <1>2, <2>2 DEF IInv, JobsOK
  <2>3. QED
    BY <2>1, <2>2
<1>5. QED
  BY <1>3, <1>4, JobsMoved

---------------------------------------------------------------------------
(* Events are of the declared types.                                         *)
LEMMA ExpiryEventsTyped ==
  ASSUME NEW j \in Jobs, JobOK(j, jobs[j], attempts[j]), NEW now
  PROVE  ExpiryEvents(j, now) \subseteq Event
<1>1. jobs[j].lease.attempt \in Nat
  BY DEF JobOK, JobRecord
<1>2. ExpiredState(j) \in {"retry_wait", "failed", "cancelled"}
  BY DEF ExpiredState
<1>3. QED
  BY <1>1, <1>2 DEF ExpiryEvents, Event

LEMMA SubmitOK ==
  ASSUME IInv, NEW j \in Jobs, NEW deadline \in Deadlines, NEW now \in Instants,
         Submit(j, deadline, now)
  PROVE  IInv'
<1> DEFINE job == [Absent EXCEPT !.state = "queued", !.deadline_at = deadline,
                                 !.available_at = now]
<1>1. JobOK(j, jobs[j], attempts[j]) /\ attempts = [i \in Jobs |-> attempts[i]]
  BY DEF IInv, JobsOK
<1>2. jobs[j].state = "absent" /\ attempts[j] \in Seq(Attempt)
  BY <1>1 DEF Submit, JobOK
<1>3. /\ job.state = "queued" /\ job.lease = NoLease /\ job.publication = 0
      /\ job.attempt_count = 0 /\ job \in JobRecord
  BY NoLeaseOK, InstantsAreIntegers, TimeAssumption
  DEF Absent, JobRecord, JobStates, Waiting
<1>4. JobOK(j, job, attempts[j])
  <2>1. UnfinishedIn(attempts[j]) = {}
    BY <1>1, <1>2 DEF JobOK, LeaseOK
  <2>2. Len(attempts[j]) = 0
    BY <1>1, <1>2 DEF JobOK, BudgetOK
  <2>3. LeaseOK(job, attempts[j])
    BY <1>3, <2>1 DEF LeaseOK
  <2>4. BudgetOK(j, job, attempts[j])
    BY <1>1, <1>3, <2>2, SpecAssumption DEF BudgetOK, JobOK
  <2>5. QED
    BY <1>2, <1>3, <2>3, <2>4 DEF JobOK
<1>5. jobs[j].publication = 0
  BY <1>2 DEF IInv, PublishedByWinner
<1>6. attempts' = [attempts EXCEPT ![j] = attempts[j]]
  BY <1>1 DEF Submit
<1>7. outbox' \subseteq Event
  BY DEF Submit, Event, IInv, RestTypeOK
<1>8. jobs' = [jobs EXCEPT ![j] = job]
  BY DEF Submit
<1>9. UNCHANGED <<publications, heads, receipts, impacts>>
  BY DEF Submit
<1>10. QED
  BY <1>2, <1>3, <1>4, <1>5, <1>6, <1>7, <1>8, <1>9, OneJobMoved

LEMMA RefuseLapsedOK ==
  ASSUME IInv, NEW j \in Jobs, NEW now \in Instants, RefuseLapsed(j, now)
  PROVE  IInv'
<1>1. JobOK(j, jobs[j], attempts[j])
  BY DEF IInv, JobsOK
<1>2. jobs[j].state = "running"
  BY DEF RefuseLapsed, Lapsed
<1>3. /\ JobOK(j, AfterExpiry(j, now), AttemptsAfterExpiry(j, now))
      /\ AfterExpiry(j, now).publication = jobs[j].publication
      /\ AfterExpiry(j, now).state # "succeeded"
  BY <1>1, <1>2, ExpiryOK
<1>4. outbox' \subseteq Event
  BY <1>1, ExpiryEventsTyped DEF RefuseLapsed, IInv, RestTypeOK
<1>5. QED
  BY <1>2, <1>3, <1>4, OneJobMoved DEF RefuseLapsed

LEMMA HeartbeatOK ==
  ASSUME IInv, NEW j \in Jobs, NEW token \in DOMAIN attempts[j],
         NEW lease_for \in LeaseTimes, NEW now \in Instants,
         Heartbeat(j, token, lease_for, now)
  PROVE  IInv'
<1> DEFINE job == [jobs[j] EXCEPT !.lease.until = now + lease_for]
<1>1. JobOK(j, jobs[j], attempts[j]) /\ attempts = [i \in Jobs |-> attempts[i]]
  BY DEF IInv, JobsOK
<1>2. jobs[j].state = "running" /\ jobs[j] \in JobRecord
  BY <1>1 DEF Heartbeat, HoldsLease, JobOK
<1>3. now + lease_for \in Int
  BY InstantsAreIntegers, TimeAssumption
<1>4. /\ job \in JobRecord /\ job.state = "running"
      /\ job.publication = jobs[j].publication
      /\ job.attempt_count = jobs[j].attempt_count
      /\ job.lease.attempt = jobs[j].lease.attempt
  BY <1>2, <1>3 DEF JobRecord
<1>5. JobOK(j, job, attempts[j])
  BY <1>1, <1>2, <1>4 DEF JobOK, LeaseOK, BudgetOK
<1>6. /\ jobs' = [jobs EXCEPT ![j] = job]
      /\ attempts' = [attempts EXCEPT ![j] = attempts[j]]
      /\ UNCHANGED <<publications, heads, receipts, impacts>>
      /\ outbox' \subseteq Event
  BY <1>1 DEF Heartbeat, IInv, RestTypeOK
<1>7. QED
  BY <1>2, <1>4, <1>5, <1>6, OneJobMoved

(* A running job that is closed: its attempt is finished, its lease is gone, *)
(* and it is left cancelled, failed, waiting with budget, or succeeded.      *)
LEMMA ClosedOK ==
  ASSUME NEW j \in Jobs, JobOK(j, jobs[j], attempts[j]),
         jobs[j].state = "running", NEW outcome \in Outcomes \ {"none"},
         NEW job \in JobRecord,
         job.state \in Terminal \cup {"retry_wait"},
         job.lease = NoLease,
         job.attempt_count = jobs[j].attempt_count,
         job.state = "retry_wait" => job.attempt_count < MaxAttempts[j]
  PROVE  JobOK(j, job, Finished(j, outcome))
<1>1. /\ Finished(j, outcome) \in Seq(Attempt)
      /\ Len(Finished(j, outcome)) = Len(attempts[j])
      /\ UnfinishedIn(Finished(j, outcome)) = {}
      /\ \A n \in DOMAIN Finished(j, outcome) : Finished(j, outcome)[n].number = n
  BY FinishedOK
<1>2. LeaseOK(job, Finished(j, outcome))
  BY <1>1 DEF LeaseOK, Terminal
<1>3. BudgetOK(j, job, Finished(j, outcome))
  BY <1>1 DEF BudgetOK, JobOK, Waiting, Terminal
<1>4. QED
  BY <1>1, <1>2, <1>3 DEF JobOK

LEMMA AcknowledgeCancelOK ==
  ASSUME IInv, NEW j \in Jobs, NEW token \in DOMAIN attempts[j],
         NEW now \in Instants, AcknowledgeCancel(j, token, now)
  PROVE  IInv'
<1> DEFINE job == [jobs[j] EXCEPT !.state = "cancelled", !.lease = NoLease]
<1>1. JobOK(j, jobs[j], attempts[j]) /\ jobs = [i \in Jobs |-> jobs[i]]
  BY DEF IInv, JobsOK
<1>2. jobs[j].state = "running" /\ jobs[j] \in JobRecord
  BY <1>1 DEF AcknowledgeCancel, HoldsLease, JobOK
<1>3. /\ job \in JobRecord /\ job.state = "cancelled" /\ job.lease = NoLease
      /\ job.publication = jobs[j].publication
      /\ job.attempt_count = jobs[j].attempt_count
  BY <1>2, NoLeaseOK DEF JobRecord, JobStates, Terminal
<1>4. "cancelled" \in Outcomes \ {"none"}
  BY DEF Outcomes, Terminal
<1>5. JobOK(j, job, Finished(j, "cancelled"))
  BY <1>1, <1>2, <1>3, <1>4, ClosedOK DEF Terminal
<1>6. /\ jobs' = [jobs EXCEPT ![j] = job]
      /\ attempts' = [attempts EXCEPT ![j] = Finished(j, "cancelled")]
      /\ UNCHANGED <<publications, heads, receipts, impacts>>
      /\ outbox' \subseteq Event
  BY <1>1 DEF AcknowledgeCancel, IInv, RestTypeOK
<1>7. QED
  BY <1>2, <1>3, <1>5, <1>6, OneJobMoved

LEMMA FailOK ==
  ASSUME IInv, NEW j \in Jobs, NEW token \in DOMAIN attempts[j],
         NEW retry_delay \in RetryDelays, NEW now \in Instants,
         Fail(j, token, retry_delay, now)
  PROVE  IInv'
<1> DEFINE state == FailedState(j, retry_delay, now)
           job == [jobs[j] EXCEPT !.state = state, !.lease = NoLease,
                                  !.available_at = now + retry_delay]
<1>1. JobOK(j, jobs[j], attempts[j]) /\ jobs = [i \in Jobs |-> jobs[i]]
  BY DEF IInv, JobsOK
<1>2. jobs[j].state = "running" /\ jobs[j] \in JobRecord
      /\ token = jobs[j].lease.attempt
  BY <1>1 DEF Fail, HoldsLease, JobOK
<1>3. now + retry_delay \in Int
  BY InstantsAreIntegers, TimeAssumption
<1>4. state \in {"cancelled", "retry_wait", "failed"}
  BY DEF FailedState
<1>5. state = "retry_wait" => jobs[j].attempt_count < MaxAttempts[j]
  BY DEF FailedState
<1>6. /\ job \in JobRecord /\ job.state = state /\ job.lease = NoLease
      /\ job.publication = jobs[j].publication
      /\ job.attempt_count = jobs[j].attempt_count
  BY <1>2, <1>3, <1>4, NoLeaseOK DEF JobRecord, JobStates, Waiting, Terminal
<1>7. JobOK(j, job, Finished(j, state))
  <2>1. state \in Outcomes \ {"none"} /\ job.state \in Terminal \cup {"retry_wait"}
    BY <1>4, <1>6 DEF Outcomes, Terminal
  <2>2. QED
    BY <1>1, <1>2, <1>5, <1>6, <2>1, ClosedOK
<1>8. outbox' \subseteq Event
  <2>1. jobs[j].lease.attempt \in Nat
    BY <1>2 DEF JobRecord
  <2>2. <<state, j, token>> \in Event
    BY <1>2, <1>4, <2>1 DEF Event
  <2>3. QED
    BY <2>2 DEF Fail, IInv, RestTypeOK
<1>9. /\ jobs' = [jobs EXCEPT ![j] = job]
      /\ attempts' = [attempts EXCEPT ![j] = Finished(j, state)]
      /\ UNCHANGED <<publications, heads, receipts, impacts>>
  BY <1>1 DEF Fail
<1>10. QED
  BY <1>2, <1>4, <1>6, <1>7, <1>8, <1>9, OneJobMoved
LEMMA StageOutputOK ==
  ASSUME IInv, NEW j \in Jobs, NEW token \in DOMAIN attempts[j],
         NEW name \in Names, NEW content \in Contents, NEW now \in Instants,
         StageOutput(j, token, name, content, now)
  PROVE  IInv'
<1> DEFINE atts == [attempts[j] EXCEPT ![token].staged[name] = content]
           staged == [attempts[j][token].staged EXCEPT ![name] = content]
<1>1. JobOK(j, jobs[j], attempts[j]) /\ jobs = [i \in Jobs |-> jobs[i]]
      /\ attempts = [i \in Jobs |-> attempts[i]]
  BY DEF IInv, JobsOK
<1>2. jobs[j].state = "running" /\ attempts[j] \in Seq(Attempt)
  BY <1>1 DEF StageOutput, HoldsLease, JobOK
<1>3. atts = [n \in DOMAIN attempts[j] |->
                IF n = token THEN [attempts[j][n] EXCEPT !.staged = staged]
                ELSE attempts[j][n]]
  BY <1>2
<1>4. \A n \in DOMAIN attempts[j] : attempts[j][n] \in Attempt
  BY <1>2
<1>5. staged \in Outputs
  BY <1>4 DEF Attempt, Outputs
<1>6. \A n \in DOMAIN attempts[j] :
        /\ atts[n] \in Attempt
        /\ atts[n].outcome = attempts[j][n].outcome
        /\ atts[n].number = attempts[j][n].number
  BY <1>3, <1>4, <1>5 DEF Attempt
<1>7. atts \in Seq(Attempt) /\ Len(atts) = Len(attempts[j])
  <2>1. atts \in [1 .. Len(attempts[j]) -> Attempt] /\ Len(attempts[j]) \in Nat
    BY <1>2, <1>3, <1>6
  <2> HIDE DEF atts
  <2>2. QED
    BY <2>1, FunctionIsSeq
<1>8. UnfinishedIn(atts) = UnfinishedIn(attempts[j])
  BY <1>3, <1>6 DEF UnfinishedIn
<1>9. JobOK(j, jobs[j], atts)
  <2>1. LeaseOK(jobs[j], atts)
    BY <1>1, <1>7, <1>8 DEF JobOK, LeaseOK
  <2>2. BudgetOK(j, jobs[j], atts)
    BY <1>1, <1>3, <1>6, <1>7 DEF JobOK, BudgetOK
  <2>3. QED
    BY <1>1, <1>7, <2>1, <2>2 DEF JobOK
<1>10. /\ jobs' = [jobs EXCEPT ![j] = jobs[j]]
       /\ attempts' = [attempts EXCEPT ![j] = atts]
       /\ UNCHANGED <<publications, heads, receipts, impacts>>
       /\ outbox' \subseteq Event
  BY <1>1 DEF StageOutput, IInv, RestTypeOK
<1>11. QED
  BY <1>2, <1>9, <1>10, OneJobMoved

LEMMA RequestCancelOK ==
  ASSUME IInv, NEW j \in Jobs, NEW now \in Instants, RequestCancel(j, now)
  PROVE  IInv'
<1> DEFINE expired == AfterExpiry(j, now)
           atts == AttemptsAfterExpiry(j, now)
           job == IF expired.state \in Terminal THEN expired
                  ELSE [expired EXCEPT !.cancellation_requested = TRUE,
                                       !.state = IF @ \in Waiting
                                                 THEN "cancelled" ELSE @]
<1>1. JobOK(j, jobs[j], attempts[j])
  BY DEF IInv, JobsOK
<1>2. /\ JobOK(j, expired, atts)
      /\ expired.publication = jobs[j].publication
      /\ jobs[j].state # "running" => expired = jobs[j] /\ atts = attempts[j]
      /\ expired.state = "running" => expired = jobs[j] /\ atts = attempts[j]
      /\ jobs[j].state = "running" =>
           expired.state \in {"running", "cancelled", "failed", "retry_wait"}
  BY <1>1, ExpiryOK
<1>3. expired \in JobRecord
  BY <1>2 DEF JobOK
<1>4. /\ job \in JobRecord
      /\ job.publication = expired.publication
      /\ job.attempt_count = expired.attempt_count
      /\ job.lease = expired.lease
      /\ job.state = IF expired.state \in Waiting THEN "cancelled"
                     ELSE expired.state
  BY <1>3 DEF JobRecord, JobStates, Waiting, Terminal
<1>5. JobOK(j, job, atts)
  <2>1. LeaseOK(job, atts)
    BY <1>2, <1>4 DEF JobOK, LeaseOK, Waiting
  <2>2. BudgetOK(j, job, atts)
    BY <1>2, <1>4 DEF JobOK, BudgetOK, Waiting
  <2>3. QED
    BY <1>2, <1>4, <2>1, <2>2 DEF JobOK
<1>6. \/ jobs[j].state # "succeeded" /\ job.state # "succeeded"
      \/ job.state = jobs[j].state /\ atts = attempts[j]
  BY <1>2, <1>4 DEF Waiting
<1>7. outbox' \subseteq Event
  <2>1. <<"cancellation_requested", j>> \in Event
    BY DEF Event
  <2>2. QED
    BY <1>1, <2>1, ExpiryEventsTyped DEF RequestCancel, IInv, RestTypeOK
<1>8. /\ jobs' = [jobs EXCEPT ![j] = job]
      /\ attempts' = [attempts EXCEPT ![j] = atts]
      /\ UNCHANGED <<publications, heads, receipts, impacts>>
  BY DEF RequestCancel
<1>9. QED
  BY <1>2, <1>4, <1>5, <1>6, <1>7, <1>8, OneJobMoved

(* An overdue waiting job that a claim fails.                                *)
LEMMA FailedOverdueOK ==
  ASSUME NEW j \in Jobs, JobOK(j, jobs[j], attempts[j]), NEW now \in Instants,
         AfterExpiry(j, now).state \in Waiting
  PROVE  /\ JobOK(j, FailedOverdue(j, now), AttemptsAfterExpiry(j, now))
         /\ FailedOverdue(j, now).publication = jobs[j].publication
         /\ FailedOverdue(j, now).state = "failed"
<1> DEFINE expired == AfterExpiry(j, now)
           atts == AttemptsAfterExpiry(j, now)
           job == FailedOverdue(j, now)
<1>1. JobOK(j, expired, atts) /\ expired.publication = jobs[j].publication
  BY ExpiryOK
<1>2. expired \in JobRecord
  BY <1>1 DEF JobOK
<1>3. /\ job \in JobRecord /\ job.state = "failed" /\ job.lease = expired.lease
      /\ job.publication = expired.publication
      /\ job.attempt_count = expired.attempt_count
  BY <1>2 DEF FailedOverdue, JobRecord, JobStates, Terminal
<1>4. LeaseOK(job, atts)
  BY <1>1, <1>3 DEF JobOK, LeaseOK, Waiting
<1>5. BudgetOK(j, job, atts)
  BY <1>1, <1>3 DEF JobOK, BudgetOK, Waiting
<1>6. QED
  BY <1>1, <1>3, <1>4, <1>5 DEF JobOK

(* A waiting job that a claim starts.                                        *)
LEMMA ClaimedOK ==
  ASSUME NEW j \in Jobs, JobOK(j, jobs[j], attempts[j]), NEW now \in Instants,
         AfterExpiry(j, now).state \in Waiting, NEW lease_for \in LeaseTimes
  PROVE  /\ JobOK(j, Claimed(j, lease_for, now),
                  Append(AttemptsAfterExpiry(j, now), NewAttempt(j)))
         /\ Claimed(j, lease_for, now).publication = jobs[j].publication
         /\ Claimed(j, lease_for, now).state = "running"
<1> DEFINE expired == AfterExpiry(j, now)
           before == AttemptsAfterExpiry(j, now)
           atts == Append(before, NewAttempt(j))
           job == Claimed(j, lease_for, now)
           next == Len(attempts[j]) + 1
<1>1. /\ JobOK(j, expired, before) /\ expired.publication = jobs[j].publication
      /\ expired.attempt_count = jobs[j].attempt_count
      /\ Len(before) = Len(attempts[j])
  BY ExpiryOK
<1>2. expired \in JobRecord /\ before \in Seq(Attempt)
  BY <1>1 DEF JobOK
<1>3. jobs[j].attempt_count = Len(before) /\ Len(before) \in Nat
      /\ jobs[j].attempt_count < MaxAttempts[j]
  BY <1>1, <1>2 DEF JobOK, BudgetOK
<1>4. now + lease_for \in Int
  BY InstantsAreIntegers, TimeAssumption
<1>5. /\ job \in JobRecord /\ job.state = "running"
      /\ job.publication = expired.publication
      /\ job.attempt_count = next
      /\ job.lease.attempt = next
  <2> DEFINE lease == [attempt |-> next, until |-> now + lease_for]
  <2>1. lease \in [attempt : Nat, until : Int] /\ lease.attempt = next
    BY <1>1, <1>3, <1>4
  <2>2. job = [expired EXCEPT !.state = "running", !.attempt_count = next,
                              !.lease = lease]
    BY <1>1, <1>3 DEF Claimed
  <2>3. next \in Nat
    BY <1>1, <1>3
  <2> HIDE DEF lease, job, expired, next
  <2>4. QED
    BY <1>2, <2>1, <2>2, <2>3 DEF JobRecord, JobStates
<1>6. NewAttempt(j) \in Attempt /\ NewAttempt(j).outcome = "none"
      /\ NewAttempt(j).number = next
  BY <1>1, <1>3 DEF NewAttempt, Attempt, Outcomes, NoOutputs, Outputs
<1>7. /\ atts \in Seq(Attempt) /\ Len(atts) = next
      /\ DOMAIN atts = DOMAIN before \cup {next}
      /\ atts[next] = NewAttempt(j) /\ next \notin DOMAIN before
      /\ \A n \in DOMAIN before : atts[n] = before[n]
  BY <1>1, <1>2, <1>6
<1>8. UnfinishedIn(atts) = {next}
  <2>1. \A n \in DOMAIN before : before[n].outcome # "none"
    BY <1>1 DEF JobOK, LeaseOK, UnfinishedIn, Waiting
  <2>2. QED
    BY <1>6, <1>7, <2>1 DEF UnfinishedIn
<1>9. LeaseOK(job, atts)
  BY <1>5, <1>7, <1>8 DEF LeaseOK
<1>10. BudgetOK(j, job, atts)
  <2>1. next <= MaxAttempts[j]
    BY <1>1, <1>3, SpecAssumption
  <2>2. \A n \in DOMAIN atts : atts[n].number = n
    BY <1>1, <1>6, <1>7 DEF JobOK, BudgetOK
  <2>3. QED
    BY <1>5, <1>7, <2>1, <2>2 DEF BudgetOK, Waiting
<1>11. QED
  BY <1>1, <1>5, <1>7, <1>9, <1>10 DEF JobOK
LEMMA ClaimOK ==
  ASSUME IInv, NEW j \in Jobs, NEW passed \in SUBSET Jobs, NEW kinds,
         NEW lease_for \in LeaseTimes, NEW now \in Instants,
         Claim(j, passed, kinds, lease_for, now)
  PROVE  IInv'
<1>1. \A i \in Jobs : JobOK(i, jobs[i], attempts[i])
  BY DEF IInv, JobsOK
<1>2. /\ AfterExpiry(j, now).state \in Waiting
      /\ \A i \in passed : AfterExpiry(i, now).state \in Waiting
  BY DEF Claim, TakenFirst, Eligible
<1>3. \A i \in Jobs :
        /\ jobs'[i] = IF i = j THEN Claimed(i, lease_for, now)
                      ELSE IF i \in passed THEN FailedOverdue(i, now)
                      ELSE AfterExpiry(i, now)
        /\ attempts'[i] = IF i = j
                          THEN Append(AttemptsAfterExpiry(i, now), NewAttempt(i))
                          ELSE AttemptsAfterExpiry(i, now)
  BY DEF Claim
<1>4. ASSUME NEW i \in Jobs
      PROVE  /\ JobOK(i, jobs'[i], attempts'[i])
             /\ jobs'[i].publication = jobs[i].publication
             /\ jobs'[i].state = "succeeded" <=> jobs[i].state = "succeeded"
             /\ jobs[i].state = "succeeded" => attempts'[i] = attempts[i]
  <2>1. AfterExpiry(i, now).state = "succeeded" <=> jobs[i].state = "succeeded"
    BY <1>1, ExpiryOK
  <2>2. CASE i = j
    <3>1. jobs[i].state # "succeeded"
      BY <1>2, <2>1, <2>2 DEF Waiting
    <3>2. QED
      BY <1>1, <1>2, <1>3, <2>2, <3>1, ClaimedOK
  <2>3. CASE i # j /\ i \in passed
    <3>1. jobs[i].state # "succeeded"
      BY <1>2, <2>1, <2>3 DEF Waiting
    <3>2. QED
      BY <1>1, <1>2, <1>3, <2>3, <3>1, FailedOverdueOK
  <2>4. CASE i # j /\ i \notin passed
    BY <1>1, <1>3, <2>1, <2>4, ExpiryOK
  <2>5. QED
    BY <2>2, <2>3, <2>4
<1>5. outbox' \subseteq Event
  <2>1. \A i \in Jobs : ExpiryEvents(i, now) \subseteq Event
    BY <1>1, ExpiryEventsTyped
  <2>2. Len(attempts[j]) + 1 \in Nat
    BY <1>1 DEF JobOK
  <2>3. <<"claimed", j, Len(attempts[j]) + 1>> \in Event
    BY <2>2 DEF Event
  <2>4. QED
    BY <2>1, <2>3 DEF Claim, IInv, RestTypeOK
<1>6. /\ jobs' = [i \in Jobs |-> jobs'[i]]
      /\ attempts' = [i \in Jobs |-> attempts'[i]]
      /\ UNCHANGED <<publications, heads, receipts, impacts>>
  BY DEF Claim
<1>7. QED
  BY <1>4, <1>5, <1>6, JobsMoved

LEMMA ClaimNothingOK ==
  ASSUME IInv, NEW kinds, NEW now \in Instants, ClaimNothing(kinds, now)
  PROVE  IInv'
<1>1. \A i \in Jobs : JobOK(i, jobs[i], attempts[i])
  BY DEF IInv, JobsOK
<1>2. \A i \in Eligible(kinds, now) : AfterExpiry(i, now).state \in Waiting
  BY DEF Eligible
<1>3. \A i \in Jobs :
        /\ jobs'[i] = IF i \in Eligible(kinds, now) THEN FailedOverdue(i, now)
                      ELSE AfterExpiry(i, now)
        /\ attempts'[i] = AttemptsAfterExpiry(i, now)
  BY DEF ClaimNothing
<1>4. ASSUME NEW i \in Jobs
      PROVE  /\ JobOK(i, jobs'[i], attempts'[i])
             /\ jobs'[i].publication = jobs[i].publication
             /\ jobs'[i].state = "succeeded" <=> jobs[i].state = "succeeded"
             /\ jobs[i].state = "succeeded" => attempts'[i] = attempts[i]
  <2>1. AfterExpiry(i, now).state = "succeeded" <=> jobs[i].state = "succeeded"
    BY <1>1, ExpiryOK
  <2>2. CASE i \in Eligible(kinds, now)
    <3>1. jobs[i].state # "succeeded"
      BY <1>2, <2>1, <2>2 DEF Waiting
    <3>2. QED
      BY <1>1, <1>2, <1>3, <2>2, <3>1, FailedOverdueOK
  <2>3. CASE i \notin Eligible(kinds, now)
    BY <1>1, <1>3, <2>1, <2>3, ExpiryOK
  <2>4. QED
    BY <2>2, <2>3
<1>5. outbox' \subseteq Event
  <2>1. \A i \in Jobs : ExpiryEvents(i, now) \subseteq Event
    BY <1>1, ExpiryEventsTyped
  <2>2. QED
    BY <2>1 DEF ClaimNothing, IInv, RestTypeOK
<1>6. /\ jobs' = [i \in Jobs |-> jobs'[i]]
      /\ attempts' = [i \in Jobs |-> attempts'[i]]
      /\ UNCHANGED <<publications, heads, receipts, impacts>>
  BY DEF ClaimNothing
<1>7. QED
  BY <1>4, <1>5, <1>6, JobsMoved

LEMMA TickOK ==
  ASSUME IInv, Tick
  PROVE  IInv'
<1>1. ASSUME NEW i \in Jobs
      PROVE  /\ JobOK(i, jobs'[i], attempts'[i])
             /\ jobs'[i].publication = jobs[i].publication
             /\ jobs'[i].state = jobs[i].state
  <2> DEFINE job == [jobs[i] EXCEPT !.available_at = Aged(@),
                                    !.deadline_at = IF @ = None THEN None
                                                    ELSE Aged(@),
                                    !.lease.until = Aged(@)]
  <2>1. JobOK(i, jobs[i], attempts[i])
    BY DEF IInv, JobsOK
  <2>2. jobs[i] \in JobRecord /\ jobs'[i] = job /\ attempts'[i] = attempts[i]
    BY <2>1 DEF Tick, JobOK
  <2>3. \A instant \in Int : Aged(instant) \in Int
    BY InstantsAreIntegers DEF Aged
  <2>4. /\ job \in JobRecord /\ job.state = jobs[i].state
        /\ job.publication = jobs[i].publication
        /\ job.attempt_count = jobs[i].attempt_count
        /\ job.lease = [jobs[i].lease EXCEPT !.until = Aged(@)]
        /\ job.lease.attempt = jobs[i].lease.attempt
    BY <2>2, <2>3 DEF JobRecord
  <2>5. jobs[i].lease = NoLease => job.lease = NoLease
    <3>1. Aged(-Lag) = -Lag
      BY InstantsAreIntegers DEF Aged
    <3>2. QED
      BY <2>4, <3>1 DEF NoLease
  <2>6. LeaseOK(job, attempts[i])
    BY <2>1, <2>4, <2>5 DEF JobOK, LeaseOK
  <2>7. BudgetOK(i, job, attempts[i])
    BY <2>1, <2>4 DEF JobOK, BudgetOK
  <2>8. QED
    BY <2>1, <2>2, <2>4, <2>6, <2>7 DEF JobOK
<1>2. /\ jobs' = [i \in Jobs |-> jobs'[i]]
      /\ attempts' = [i \in Jobs |-> attempts'[i]]
      /\ UNCHANGED <<attempts, publications, heads, receipts, impacts>>
      /\ outbox' \subseteq Event
  BY DEF Tick, IInv, JobsOK, RestTypeOK
<1>3. QED
  BY <1>1, <1>2, JobsMoved

---------------------------------------------------------------------------
(* The two steps that write publications.                                    *)
LEMMA CompleteAndPublishOK ==
  ASSUME IInv, NEW j \in Jobs, NEW token \in DOMAIN attempts[j],
         NEW result_key \in ResultKeys, NEW refs \in DependencySets,
         NEW key \in CompletionKeys, NEW now \in Instants,
         CompleteAndPublish(j, token, result_key, refs, key, now)
  PROVE  IInv'
<1> DEFINE new == NewPublication(j, token, result_key, refs)
           id == Len(publications) + 1
           job == [jobs[j] EXCEPT !.state = "succeeded", !.lease = NoLease,
                                  !.publication = id]
           done == Finished(j, "succeeded")
<1>1. /\ JobOK(j, jobs[j], attempts[j])
      /\ jobs = [i \in Jobs |-> jobs[i]] /\ attempts = [i \in Jobs |-> attempts[i]]
      /\ RestTypeOK /\ PublishedByWinner
  BY DEF IInv, JobsOK
<1>2. /\ jobs[j].state = "running" /\ jobs[j].lease.attempt = token
      /\ jobs[j] \in JobRecord /\ attempts[j] \in Seq(Attempt)
      /\ token = Len(attempts[j]) /\ token \in Nat \ {0}
  BY <1>1 DEF CompleteAndPublish, HoldsLease, JobOK, LeaseOK
<1>3. publications \in Seq(Publication) /\ id \in Nat
      /\ id \notin DOMAIN publications
  BY <1>1 DEF RestTypeOK
<1>4. /\ job \in JobRecord /\ job.state = "succeeded" /\ job.lease = NoLease
      /\ job.publication = id /\ job.attempt_count = jobs[j].attempt_count
  <2> HIDE DEF id
  <2>1. QED
    BY <1>2, <1>3, NoLeaseOK DEF JobRecord, JobStates, Terminal
<1>5. "succeeded" \in Outcomes \ {"none"}
  BY DEF Outcomes, Terminal
<1>6. JobOK(j, job, done)
  BY <1>1, <1>2, <1>4, <1>5, ClosedOK DEF Terminal
<1>7. /\ Len(done) = token
      /\ done[token] = [attempts[j][token] EXCEPT !.outcome = "succeeded"]
  BY <1>1, <1>2, <1>5, FinishedOK
<1>8. attempts[j][token] \in Attempt
  BY <1>2
<1>9. done[token].outcome = "succeeded"
      /\ done[token].staged = attempts[j][token].staged
  BY <1>7, <1>8 DEF Attempt
<1>10. /\ new.job = j /\ new.attempt = token
       /\ new.outputs = attempts[j][token].staged
  BY DEF NewPublication
<1>11. \A i \in Jobs : /\ jobs'[i] = IF i = j THEN job ELSE jobs[i]
                       /\ attempts'[i] = IF i = j THEN done ELSE attempts[i]
  BY <1>1 DEF CompleteAndPublish
<1>12. JobsOK'
  <2>1. /\ jobs' = [i \in Jobs |-> jobs'[i]]
        /\ attempts' = [i \in Jobs |-> attempts'[i]]
    BY <1>1 DEF CompleteAndPublish
  <2>2. ASSUME NEW i \in Jobs PROVE JobOK(i, jobs'[i], attempts'[i])
    BY <1>6, <1>11 DEF IInv, JobsOK
  <2>3. QED
    BY <2>1, <2>2 DEF JobsOK
<1>13. new \in Publication
  <2>1. refs \in SUBSET Refs
    <3>1. \A p \in DOMAIN publications : p \in Nat
      BY <1>3
    <3>2. QED
      BY <3>1 DEF DependencySets, SourceRefs, SourceRef, PublishedRefs,
                  PublicationRef, Refs
  <2>2. new.generation \in Nat
    <3> DEFINE previous == heads[CaseOf[j]][result_key]
    <3>1. CaseOf[j] \in Cases
      BY SpecAssumption
    <3>2. previous = 0 \/ previous \in DOMAIN publications
      BY <3>1 DEF IInv, HeadChain, ResultOf
    <3>3. previous \in DOMAIN publications =>
            publications[previous].generation \in Nat
      <4>1. \A p \in DOMAIN publications : publications[p] \in Publication
        BY <1>3
      <4>2. QED
        BY <4>1 DEF Publication
    <3>4. QED
      BY <3>2, <3>3 DEF NewPublication
  <2>3. heads[CaseOf[j]][result_key] \in Nat
    BY <1>1, SpecAssumption DEF RestTypeOK
  <2>4. attempts[j][token].staged \in Outputs /\ token \in Nat
    BY <1>2, <1>8 DEF Attempt
  <2>5. QED
    BY <2>1, <2>2, <2>3, <2>4 DEF NewPublication, Publication
<1>14. /\ publications' \in Seq(Publication)
       /\ DOMAIN publications' = DOMAIN publications \cup {id}
       /\ publications'[id] = new
       /\ \A p \in DOMAIN publications : publications'[p] = publications[p]
  <2>1. publications' = Append(publications, new)
    BY DEF CompleteAndPublish
  <2> HIDE DEF new
  <2>2. QED
    BY <1>3, <1>13, <2>1
<1>15. RestTypeOK'
  <2>1. heads' \in [Cases -> [ResultKeys -> Nat]]
    <3>1. heads' = [heads EXCEPT ![CaseOf[j]][result_key] = id]
      BY DEF CompleteAndPublish
    <3> HIDE DEF id
    <3>2. QED
      BY <1>1, <1>3, <3>1 DEF RestTypeOK
  <2>2. receipts' \subseteq Receipt
    <3>1. receipts' = receipts
            \cup {[job |-> j, key |-> key, publication |-> new]}
      BY DEF CompleteAndPublish
    <3> HIDE DEF new
    <3>2. QED
      BY <1>1, <1>13, <3>1 DEF RestTypeOK, Receipt
  <2>3. impacts' \subseteq Impact /\ outbox' \subseteq Event
    BY <1>1, <1>3 DEF CompleteAndPublish, RestTypeOK, Event
  <2>4. QED
    BY <1>14, <2>1, <2>2, <2>3 DEF RestTypeOK
<1>16. PublishedByWinner'
  <2>1. jobs[j].publication = 0
    BY <1>1, <1>2 DEF PublishedByWinner
  <2>2. \A p \in DOMAIN publications : publications[p].job # j
    BY <1>1, <1>3, <2>1 DEF PublishedByWinner
  <2>3. \A p \in DOMAIN publications : publications[p].job \in Jobs
    <3>1. \A p \in DOMAIN publications : publications[p] \in Publication
      BY <1>3
    <3>2. QED
      BY <3>1 DEF Publication
  <2>4. ASSUME NEW p \in DOMAIN publications'
        PROVE  LET pub == publications'[p]
               IN  /\ jobs'[pub.job].publication = p
                   /\ pub.attempt = Len(attempts'[pub.job])
                   /\ pub.attempt # 0
                   /\ attempts'[pub.job][pub.attempt].outcome = "succeeded"
                   /\ attempts'[pub.job][pub.attempt].staged = pub.outputs
                   /\ pub.outputs # NoOutputs
    <3>1. CASE p = id
      <4>1. publications'[p] = new /\ jobs'[j] = job /\ attempts'[j] = done
        BY <1>11, <1>14, <3>1
      <4>2. attempts[j][token].staged # NoOutputs
        BY DEF CompleteAndPublish
      <4> HIDE DEF new, job, done, id
      <4>3. QED
        BY <1>2, <1>4, <1>7, <1>9, <1>10, <3>1, <4>1, <4>2
    <3>2. CASE p \in DOMAIN publications
      <4>1. publications'[p] = publications[p]
        BY <1>14, <3>2
      <4>2. /\ jobs'[publications[p].job] = jobs[publications[p].job]
            /\ attempts'[publications[p].job] = attempts[publications[p].job]
        BY <1>11, <2>2, <2>3, <3>2
      <4>3. QED
        BY <1>1, <3>2, <4>1, <4>2 DEF PublishedByWinner
    <3>3. QED
      BY <1>14, <2>4, <3>1, <3>2
  <2>5. ASSUME NEW i \in Jobs
        PROVE  IF jobs'[i].state = "succeeded"
               THEN jobs'[i].publication \in DOMAIN publications'
               ELSE jobs'[i].publication = 0
    <3>1. CASE i = j
      BY <1>4, <1>11, <1>14, <3>1
    <3>2. CASE i # j
      BY <1>1, <1>11, <1>14, <3>2 DEF PublishedByWinner
    <3>3. QED
      BY <3>1, <3>2
  <2>6. QED
    BY <2>4, <2>5 DEF PublishedByWinner
<1>17. HeadChain'
  <2> DEFINE own(case, key1) == case = CaseOf[j] /\ key1 = result_key
             previous == heads[CaseOf[j]][result_key]
  <2>1. CaseOf[j] \in Cases
    BY SpecAssumption
  <2>2. ASSUME NEW case \in Cases, NEW key1 \in ResultKeys
        PROVE  /\ ResultOf(case, key1)' = IF own(case, key1)
                                         THEN ResultOf(case, key1) \cup {id}
                                         ELSE ResultOf(case, key1)
               /\ heads'[case][key1] = IF own(case, key1) THEN id
                                       ELSE heads[case][key1]
    <3>1. new.result_key = result_key
      BY DEF NewPublication
    <3>2. ResultOf(case, key1)' = IF own(case, key1)
                                  THEN ResultOf(case, key1) \cup {id}
                                  ELSE ResultOf(case, key1)
      <4> HIDE DEF new, id
      <4>1. QED
        BY <1>3, <1>10, <1>14, <3>1 DEF ResultOf, CaseOfPublication
    <3>3. heads' = [heads EXCEPT ![CaseOf[j]][result_key] = id]
      BY DEF CompleteAndPublish
    <3> HIDE DEF id
    <3>4. QED
      BY <1>1, <3>2, <3>3 DEF RestTypeOK
  <2>3. /\ new.supersedes = previous
        /\ new.generation = IF previous = 0 THEN 1
                            ELSE publications[previous].generation + 1
    BY DEF NewPublication
  <2>4. \A p \in DOMAIN publications : p \in Nat /\ p < id /\ p # 0
    BY <1>3
  <2>5. ASSUME NEW case \in Cases, NEW key1 \in ResultKeys
        PROVE  /\ IF ResultOf(case, key1)' = {} THEN heads'[case][key1] = 0
                  ELSE /\ heads'[case][key1] \in ResultOf(case, key1)'
                       /\ \A p \in ResultOf(case, key1)' : p <= heads'[case][key1]
    <3>1. ResultOf(case, key1) \subseteq DOMAIN publications
      BY DEF ResultOf
    <3>2. CASE own(case, key1)
      <4>1. ResultOf(case, key1)' = ResultOf(case, key1) \cup {id}
            /\ heads'[case][key1] = id
        BY <2>2, <3>2
      <4> HIDE DEF id
      <4>2. QED
        BY <1>3, <2>4, <3>1, <4>1
    <3>3. CASE ~own(case, key1)
      <4>1. ResultOf(case, key1)' = ResultOf(case, key1)
            /\ heads'[case][key1] = heads[case][key1]
        BY <2>2, <3>3
      <4>2. QED
        BY <4>1 DEF IInv, HeadChain
    <3>4. QED
      BY <3>2, <3>3
  <2>6. ASSUME NEW case \in Cases, NEW key1 \in ResultKeys,
               NEW p \in ResultOf(case, key1)'
        PROVE  LET before == publications'[p].supersedes
               IN  /\ \A q \in ResultOf(case, key1)' : q < p => q <= before
                   /\ IF before = 0 THEN publications'[p].generation = 1
                      ELSE /\ before \in ResultOf(case, key1)'
                           /\ before < p
                           /\ publications'[p].generation
                                = publications'[before].generation + 1
    <3>1. ResultOf(case, key1) \subseteq DOMAIN publications
      BY DEF ResultOf
    <3>2. CASE own(case, key1) /\ p = id
      <4>1. /\ ResultOf(case, key1)' = ResultOf(case, key1) \cup {id}
            /\ previous = heads[case][key1]
            /\ publications'[p] = new
        BY <1>14, <2>2, <3>2
      <4>2. IF ResultOf(case, key1) = {} THEN previous = 0
            ELSE /\ previous \in ResultOf(case, key1)
                 /\ \A q \in ResultOf(case, key1) : q <= previous
        BY <4>1 DEF IInv, HeadChain
      <4>3. previous \in ResultOf(case, key1) =>
              /\ previous # 0 /\ previous < id
              /\ publications'[previous] = publications[previous]
        BY <1>14, <2>4, <3>1
      <4>4. p = id /\ id \in Nat
        BY <1>3, <3>2
      <4> HIDE DEF new, id, previous
      <4>5. /\ publications'[p].supersedes = previous
            /\ publications'[p].generation
                 = IF previous = 0 THEN 1
                   ELSE publications[previous].generation + 1
        BY <2>3, <4>1
      <4>6. \A q \in ResultOf(case, key1)' : q < p => q <= previous
        BY <2>4, <3>1, <4>1, <4>2, <4>4
      <4>7. previous # 0 => /\ previous \in ResultOf(case, key1)'
                            /\ previous < p
                            /\ publications'[previous] = publications[previous]
        BY <4>1, <4>2, <4>3, <4>4
      <4>8. QED
        BY <4>5, <4>6, <4>7
    <3>3. CASE ~(own(case, key1) /\ p = id)
      <4>1. p \in ResultOf(case, key1) /\ publications'[p] = publications[p]
        BY <1>14, <2>2, <3>1, <3>3
      <4>2. \A q \in ResultOf(case, key1)' : q < p => q \in ResultOf(case, key1)
        <5>1. p < id /\ p \in Nat /\ id \in Nat
          BY <1>3, <2>4, <3>1, <4>1
        <5> HIDE DEF id
        <5>2. QED
          BY <2>2, <5>1
      <4>3. publications[p].supersedes \in ResultOf(case, key1) =>
              /\ publications[p].supersedes \in ResultOf(case, key1)'
              /\ publications'[publications[p].supersedes]
                   = publications[publications[p].supersedes]
        <5> HIDE DEF id
        <5>1. QED
          BY <1>14, <2>2, <3>1
      <4>4. QED
        BY <4>1, <4>2, <4>3 DEF IInv, HeadChain
    <3>4. QED
      BY <3>2, <3>3
  <2>7. QED
    BY <2>5, <2>6 DEF HeadChain
<1>18. QED
  BY <1>12, <1>15, <1>16, <1>17 DEF IInv
LEMMA RecordCorrectionOK ==
  ASSUME IInv, NEW case \in Cases, NEW correction \in Corrections,
         NEW dependency \in SourceRefs \cup PublishedRefs,
         RecordCorrection(case, correction, dependency)
  PROVE  IInv'
<1>1. publications \in Seq(Publication) /\ Len(publications) \in Nat
  BY DEF IInv, RestTypeOK
<1>2. ASSUME NEW p \in DOMAIN publications
      PROVE  /\ publications'[p] \in Publication
             /\ publications'[p].job = publications[p].job
             /\ publications'[p].attempt = publications[p].attempt
             /\ publications'[p].result_key = publications[p].result_key
             /\ publications'[p].generation = publications[p].generation
             /\ publications'[p].outputs = publications[p].outputs
             /\ publications'[p].supersedes = publications[p].supersedes
  <2>1. publications[p] \in Publication
    BY <1>1
  <2>2. publications'[p] = publications[p]
        \/ publications'[p] = MarkedStale(p, correction)
    BY DEF RecordCorrection
  <2>3. QED
    BY <2>1, <2>2 DEF MarkedStale, Publication
<1>3. /\ publications' \in Seq(Publication)
      /\ DOMAIN publications' = DOMAIN publications
  <2>1. publications' = [p \in DOMAIN publications |-> publications'[p]]
    BY DEF RecordCorrection
  <2>2. publications' \in [1 .. Len(publications) -> Publication]
    BY <1>1, <1>2, <2>1
  <2>3. QED
    BY <1>1, <2>1, <2>2, FunctionIsSeq
<1>4. JobsOK'
  BY DEF RecordCorrection, IInv, JobsOK
<1>5. RestTypeOK'
  <2>1. ImpactRows(case, correction, dependency) \subseteq Impact
    BY <1>1 DEF ImpactRows, Impacted, Impact
  <2>2. <<"impact_recorded", case, correction>> \in Event
    BY DEF Event
  <2>3. QED
    BY <1>3, <2>1, <2>2 DEF RecordCorrection, IInv, RestTypeOK
<1>6. PublishedByWinner'
  <2>1. UNCHANGED <<jobs, attempts>>
    BY DEF RecordCorrection
  <2>2. QED
    BY <1>2, <1>3, <2>1 DEF IInv, PublishedByWinner
<1>7. HeadChain'
  BY <1>2, <1>3, HeadChainKept DEF RecordCorrection, IInv
<1>8. QED
  BY <1>4, <1>5, <1>6, <1>7 DEF IInv

---------------------------------------------------------------------------
LEMMA InitOK == Init => IInv
<1> SUFFICES ASSUME Init PROVE IInv
  OBVIOUS
<1>1. ASSUME NEW j \in Jobs PROVE JobOK(j, jobs[j], attempts[j])
  <2>1. jobs[j] = Absent /\ attempts[j] = <<>>
    BY DEF Init
  <2>2. Absent \in JobRecord /\ Absent.state = "absent" /\ Absent.lease = NoLease
        /\ Absent.attempt_count = 0
    BY NoLeaseOK, InstantsAreIntegers DEF Absent, JobRecord, JobStates
  <2>3. UnfinishedIn(<<>>) = {}
    BY DEF UnfinishedIn
  <2>4. BudgetOK(j, Absent, <<>>)
    BY <2>2, SpecAssumption DEF BudgetOK, Waiting
  <2>5. QED
    BY <2>1, <2>2, <2>3, <2>4 DEF JobOK, LeaseOK
<1>2. JobsOK
  BY <1>1 DEF Init, JobsOK
<1>3. RestTypeOK
  BY DEF Init, RestTypeOK
<1>4. PublishedByWinner
  BY DEF Init, PublishedByWinner, Absent
<1>5. HeadChain
  BY DEF Init, HeadChain, ResultOf
<1>6. QED
  BY <1>2, <1>3, <1>4, <1>5 DEF IInv

LEMMA NextOK == IInv /\ [Next]_vars => IInv'
<1> SUFFICES ASSUME IInv, [Next]_vars PROVE IInv'
  OBVIOUS
<1>1. CASE ClaimCall
  BY <1>1, ClaimOK, ClaimNothingOK DEF ClaimCall
<1>2. ASSUME NEW j \in Jobs, ClientCall(j) PROVE IInv'
  BY <1>2, SubmitOK, RequestCancelOK DEF ClientCall
<1>3. ASSUME NEW j \in Jobs, NEW token \in DOMAIN attempts[j], TokenCall(j, token)
      PROVE  IInv'
  BY <1>3, RefuseLapsedOK, HeartbeatOK, AcknowledgeCancelOK, StageOutputOK,
     FailOK, CompleteAndPublishOK DEF TokenCall
<1>4. CASE CorrectionCall
  BY <1>4, RecordCorrectionOK DEF CorrectionCall
<1>5. CASE Tick
  BY <1>5, TickOK
<1>6. CASE UNCHANGED vars
  <2>1. JobsOK' /\ RestTypeOK'
    BY <1>6 DEF vars, IInv, JobsOK, RestTypeOK
  <2>2. PublishedByWinner' /\ HeadChain'
    BY <1>6 DEF vars, IInv, PublishedByWinner, HeadChain, ResultOf,
                CaseOfPublication
  <2>3. QED
    BY <2>1, <2>2 DEF IInv
<1>7. QED
  BY <1>1, <1>2, <1>3, <1>4, <1>5, <1>6 DEF Next

(* The invariant holds in every reachable state of every instance.           *)
LEMMA IInvHolds == Spec => []IInv
<1>1. QED
  BY InitOK, NextOK, PTL DEF Spec

(* Type correctness.                                                         *)
THEOREM TypeCorrect == Spec => []TypeOK
<1>1. QED
  BY IInvHolds, IInvIsTheInvariants, PTL

(* A job has at most one unfinished attempt, and it is the one that its      *)
(* active lease names (claim, _expire_lease and every token call).           *)
THEOREM LeaseExclusive == Spec => []OneLiveAttempt
<1>1. QED
  BY IInvHolds, IInvIsTheInvariants, PTL

(* No job is ever claimed beyond its attempt budget, although claim never    *)
(* looks at the budget.                                                      *)
THEOREM BudgetKept == Spec => []WithinBudget
<1>1. QED
  BY IInvHolds, IInvIsTheInvariants, PTL

(* Only the last attempt of a job, while it holds the lease, publishes; what *)
(* it published is what it staged, once.                                     *)
THEOREM FencedPublication == Spec => []PublishedByWinner
<1>1. QED
  BY IInvHolds, IInvIsTheInvariants, PTL

(* Result heads move along one chain of consecutive generations.             *)
THEOREM OneChainPerResult == Spec => []HeadChain
<1>1. QED
  BY IInvHolds, IInvIsTheInvariants, PTL

---------------------------------------------------------------------------
(* What a step may never do.                                                 *)

(* The conditions on one job's step, from job with attempts atts to job1     *)
(* with attempts atts1.  Like JobOK they are stated for values.              *)
Final(job, atts, job1, atts1) ==
  job.state \in Terminal =>
    /\ job1.state = job.state
    /\ job1.publication = job.publication
    /\ job1.cancellation_requested = job.cancellation_requested
    /\ atts1 = atts

Fenced(job, atts, job1, atts1) ==
  job.cancellation_requested =>
    /\ job1.state \in {job.state, "cancelled"}
    /\ job1.cancellation_requested
    /\ Len(atts1) = Len(atts)
    /\ \A n \in DOMAIN atts : atts1[n].staged = atts[n].staged

Honoured(job, atts, atts1) ==
  \A n \in DOMAIN atts :
    atts[n].outcome = "none" /\ atts1[n].outcome = "lease_expired"
      => job.lease.until <= 0

InWindow(job, atts, atts1) ==
  (job.state \in Waiting /\ Len(atts1) > Len(atts))
    => /\ job.available_at <= 0
       /\ job.deadline_at # None => job.deadline_at > -Lag

(* A requested cancellation leaves the job running or has cancelled it: what *)
(* the fence needs to be inductive, since a waiting job could be claimed.    *)
Requested(job) ==
  job.cancellation_requested => job.state \in {"running", "cancelled"}

StepOK(job, atts, job1, atts1) ==
  /\ Final(job, atts, job1, atts1)
  /\ Fenced(job, atts, job1, atts1)
  /\ Honoured(job, atts, atts1)
  /\ InWindow(job, atts, atts1)
  /\ Requested(job1)

AllRequested == \A j \in Jobs : Requested(jobs[j])

StepsOK == \A j \in Jobs : StepOK(jobs[j], attempts[j], jobs'[j], attempts'[j])

---------------------------------------------------------------------------
(* The kinds of step a job can take.                                         *)

(* Nothing but instants changes.                                             *)
LEMMA QuietStep ==
  ASSUME NEW job, NEW atts \in Seq(Attempt), NEW job1, Requested(job),
         job1.state = job.state, job1.publication = job.publication,
         job1.cancellation_requested = job.cancellation_requested
  PROVE  StepOK(job, atts, job1, atts)
<1>1. Len(atts) \in Nat
  OBVIOUS
<1>2. QED
  BY <1>1 DEF StepOK, Final, Fenced, Honoured, InWindow, Requested

(* A running job ends its attempt with an outcome other than expiry.         *)
LEMMA ClosedStep ==
  ASSUME NEW j \in Jobs, JobOK(j, jobs[j], attempts[j]),
         jobs[j].state = "running",
         NEW outcome \in Outcomes \ {"none", "lease_expired"}, NEW job1,
         job1.cancellation_requested = jobs[j].cancellation_requested,
         jobs[j].cancellation_requested => job1.state = "cancelled"
  PROVE  StepOK(jobs[j], attempts[j], job1, Finished(j, outcome))
<1> DEFINE atts == attempts[j]
           leased == jobs[j].lease.attempt
           done == Finished(j, outcome)
<1>1. /\ atts \in Seq(Attempt) /\ Len(done) = Len(atts)
      /\ leased \in DOMAIN atts
  BY FinishedOK DEF JobOK
<1>2. done = [n \in DOMAIN atts |->
                IF n = leased THEN [atts[n] EXCEPT !.outcome = outcome]
                ELSE atts[n]]
  BY <1>1 DEF Finished
<1>3. ASSUME NEW n \in DOMAIN atts
      PROVE  /\ done[n].staged = atts[n].staged
             /\ done[n].outcome \in {outcome, atts[n].outcome}
  <2>1. atts[n] \in Attempt
    BY <1>1
  <2>2. QED
    BY <1>2, <2>1 DEF Attempt
<1>4. Fenced(jobs[j], atts, job1, done)
  BY <1>1, <1>3 DEF Fenced
<1>5. Honoured(jobs[j], atts, done)
  BY <1>3 DEF Honoured
<1>6. QED
  BY <1>4, <1>5 DEF StepOK, Final, InWindow, Requested, Terminal, Waiting

(* A job's lease is expired if it has lapsed.                                *)
LEMMA ExpiryStep ==
  ASSUME NEW j \in Jobs, JobOK(j, jobs[j], attempts[j]), Requested(jobs[j]),
         NEW now \in Instants
  PROVE  StepOK(jobs[j], attempts[j], AfterExpiry(j, now),
                AttemptsAfterExpiry(j, now))
<1>1. CASE ~Lapsed(j, now)
  <2>1. AfterExpiry(j, now) = jobs[j] /\ AttemptsAfterExpiry(j, now) = attempts[j]
    BY <1>1 DEF AfterExpiry, AttemptsAfterExpiry
  <2>2. QED
    BY <2>1, QuietStep DEF JobOK
<1>2. CASE Lapsed(j, now)
  <2> DEFINE atts == attempts[j]
             done == AttemptsAfterExpiry(j, now)
             job == AfterExpiry(j, now)
  <2>1. jobs[j].state = "running" /\ jobs[j].lease.until <= 0
    <3>1. jobs[j].lease.until \in Int /\ now \in Int /\ now <= 0
      BY TimeAssumption DEF JobOK, JobRecord, Instants
    <3>2. QED
      BY <1>2, <3>1 DEF Lapsed
  <2>2. atts \in Seq(Attempt) /\ jobs[j].lease.attempt \in DOMAIN atts
    <3>1. "lease_expired" \in Outcomes \ {"none"}
      BY DEF Outcomes
    <3>2. QED
      BY <2>1, <3>1, FinishedOK DEF JobOK
  <2>3. Len(done) = Len(atts)
    BY ExpiryOK
  <2>4. done = [atts EXCEPT ![jobs[j].lease.attempt].outcome = "lease_expired"]
    BY <1>2 DEF AttemptsAfterExpiry, Finished
  <2>5. ASSUME NEW n \in DOMAIN atts PROVE done[n].staged = atts[n].staged
    <3>1. atts[n] \in Attempt
      BY <2>2
    <3>2. QED
      BY <2>2, <2>4, <3>1 DEF Attempt
  <2>6. /\ job.cancellation_requested = jobs[j].cancellation_requested
        /\ jobs[j].cancellation_requested => job.state = "cancelled"
    <3>1. jobs[j] \in JobRecord
      BY DEF JobOK
    <3>2. QED
      BY <1>2, <3>1, ExpiryOK DEF AfterExpiry, ExpiredState, JobRecord
  <2>7. Fenced(jobs[j], atts, job, done)
    BY <2>3, <2>5, <2>6 DEF Fenced
  <2>8. QED
    BY <2>1, <2>6, <2>7
    DEF StepOK, Final, Honoured, InWindow, Requested, Terminal, Waiting
<1>3. QED
  BY <1>1, <1>2

(* A step that moves one job and leaves the others alone.                    *)
LEMMA OneStep ==
  ASSUME IInv, AllRequested, NEW j \in Jobs, NEW job, NEW atts,
         jobs' = [jobs EXCEPT ![j] = job],
         attempts' = [attempts EXCEPT ![j] = atts],
         StepOK(jobs[j], attempts[j], job, atts)
  PROVE  StepsOK
<1>1. /\ jobs = [i \in Jobs |-> jobs[i]] /\ attempts = [i \in Jobs |-> attempts[i]]
      /\ \A i \in Jobs : attempts[i] \in Seq(Attempt)
  BY DEF IInv, JobsOK, JobOK
<1>2. ASSUME NEW i \in Jobs, i # j
      PROVE  StepOK(jobs[i], attempts[i], jobs'[i], attempts'[i])
  <2>1. jobs'[i] = jobs[i] /\ attempts'[i] = attempts[i]
    BY <1>1, <1>2
  <2>2. Requested(jobs[i])
    BY DEF AllRequested
  <2>3. QED
    BY <1>1, <2>1, <2>2, QuietStep
<1>3. jobs'[j] = job /\ attempts'[j] = atts
  BY <1>1
<1>4. QED
  BY <1>2, <1>3 DEF StepsOK

(* A step that leaves state, publication, cancellation and attempts alone.   *)
LEMMA NoStep ==
  ASSUME IInv, AllRequested, UNCHANGED attempts,
         \A j \in Jobs :
           /\ jobs'[j].state = jobs[j].state
           /\ jobs'[j].publication = jobs[j].publication
           /\ jobs'[j].cancellation_requested = jobs[j].cancellation_requested
  PROVE  StepsOK
<1>1. \A j \in Jobs : attempts[j] \in Seq(Attempt) /\ Requested(jobs[j])
  BY DEF IInv, JobsOK, JobOK, AllRequested
<1>2. ASSUME NEW j \in Jobs
      PROVE  StepOK(jobs[j], attempts[j], jobs'[j], attempts'[j])
  BY <1>1, QuietStep
<1>3. QED
  BY <1>2 DEF StepsOK

---------------------------------------------------------------------------
(* A waiting job that a claim passes over as overdue, or starts.             *)

(* A job that waits once lapsed leases are expired was not terminal and has  *)
(* no cancellation pending.                                                  *)
LEMMA WaitingAfterExpiry ==
  ASSUME NEW j \in Jobs, JobOK(j, jobs[j], attempts[j]), Requested(jobs[j]),
         NEW now \in Instants, AfterExpiry(j, now).state \in Waiting
  PROVE  /\ jobs[j].state \in Waiting \cup {"running"}
         /\ ~jobs[j].cancellation_requested
         /\ ~AfterExpiry(j, now).cancellation_requested
         /\ jobs[j].state \in Waiting => AfterExpiry(j, now) = jobs[j]
<1>1. Requested(AfterExpiry(j, now))
  BY ExpiryStep DEF StepOK
<1>2. /\ jobs[j].state # "running" => AfterExpiry(j, now) = jobs[j]
      /\ AfterExpiry(j, now).cancellation_requested
           = jobs[j].cancellation_requested
  BY ExpiryOK
<1>3. QED
  BY <1>1, <1>2 DEF Requested, Waiting

LEMMA FailedOverdueStep ==
  ASSUME NEW j \in Jobs, JobOK(j, jobs[j], attempts[j]), Requested(jobs[j]),
         NEW now \in Instants, AfterExpiry(j, now).state \in Waiting
  PROVE  StepOK(jobs[j], attempts[j], FailedOverdue(j, now),
                AttemptsAfterExpiry(j, now))
<1>1. StepOK(jobs[j], attempts[j], AfterExpiry(j, now), AttemptsAfterExpiry(j, now))
  BY ExpiryStep
<1>2. ~jobs[j].cancellation_requested /\ jobs[j].state \notin Terminal
  BY WaitingAfterExpiry DEF Waiting, Terminal
<1>3. ~FailedOverdue(j, now).cancellation_requested
  <2>1. AfterExpiry(j, now) \in JobRecord
    BY ExpiryOK DEF JobOK
  <2>2. QED
    BY <2>1, WaitingAfterExpiry DEF FailedOverdue, JobRecord
<1>4. QED
  BY <1>1, <1>2, <1>3 DEF StepOK, Final, Fenced, Requested

LEMMA ClaimedStep ==
  ASSUME NEW j \in Jobs, JobOK(j, jobs[j], attempts[j]), Requested(jobs[j]),
         NEW now \in Instants, NEW lease_for,
         AfterExpiry(j, now).state \in Waiting,
         AfterExpiry(j, now).available_at <= now, ~Overdue(j, now)
  PROVE  StepOK(jobs[j], attempts[j], Claimed(j, lease_for, now),
                Append(AttemptsAfterExpiry(j, now), NewAttempt(j)))
<1> DEFINE before == AttemptsAfterExpiry(j, now)
           atts == Append(before, NewAttempt(j))
           job == Claimed(j, lease_for, now)
<1>1. StepOK(jobs[j], attempts[j], AfterExpiry(j, now), before)
  BY ExpiryStep
<1>2. ~jobs[j].cancellation_requested /\ jobs[j].state \notin Terminal
  BY WaitingAfterExpiry DEF Waiting, Terminal
<1>3. ~job.cancellation_requested
  <2>1. AfterExpiry(j, now) \in JobRecord
    BY ExpiryOK DEF JobOK
  <2>2. QED
    BY <2>1, WaitingAfterExpiry DEF Claimed, JobRecord
<1>4. Honoured(jobs[j], attempts[j], atts)
  <2>1. /\ before \in Seq(Attempt) /\ Len(before) = Len(attempts[j])
        /\ attempts[j] \in Seq(Attempt)
    BY ExpiryOK DEF JobOK
  <2>2. \A n \in DOMAIN attempts[j] : atts[n] = before[n]
    BY <2>1
  <2>3. QED
    BY <1>1, <2>2 DEF StepOK, Honoured
<1>5. InWindow(jobs[j], attempts[j], atts)
  <2>1. SUFFICES ASSUME jobs[j].state \in Waiting
                 PROVE  /\ jobs[j].available_at <= 0
                        /\ jobs[j].deadline_at # None => jobs[j].deadline_at > -Lag
    BY DEF InWindow
  <2>2. jobs[j].available_at <= now
    BY <2>1, WaitingAfterExpiry
  <2>3. /\ now \in Int /\ now <= 0 /\ now >= -Lag /\ Lag \in Int
        /\ jobs[j].available_at \in Int
        /\ jobs[j].deadline_at # None => jobs[j].deadline_at \in Int
    BY TimeAssumption DEF Instants, JobOK, JobRecord
  <2>4. QED
    BY <2>2, <2>3 DEF Overdue
<1>6. QED
  BY <1>2, <1>3, <1>4, <1>5 DEF StepOK, Final, Fenced, Requested

---------------------------------------------------------------------------
(* Every action is such a step for every job.                                *)

LEMMA ClaimStep ==
  ASSUME IInv, AllRequested, NEW j \in Jobs, NEW passed, NEW kinds,
         NEW lease_for, NEW now \in Instants,
         Claim(j, passed, kinds, lease_for, now)
  PROVE  StepsOK
<1>1. \A i \in Jobs : JobOK(i, jobs[i], attempts[i]) /\ Requested(jobs[i])
  BY DEF IInv, JobsOK, AllRequested
<1>2. ASSUME NEW i \in Jobs
      PROVE  StepOK(jobs[i], attempts[i], jobs'[i], attempts'[i])
  <2>1. CASE i = j
    <3>1. /\ jobs'[i] = Claimed(i, lease_for, now)
          /\ attempts'[i] = Append(AttemptsAfterExpiry(i, now), NewAttempt(i))
      BY <2>1 DEF Claim
    <3>2. /\ AfterExpiry(i, now).state \in Waiting
          /\ AfterExpiry(i, now).available_at <= now /\ ~Overdue(i, now)
      BY <2>1 DEF Claim, TakenFirst, Eligible
    <3>3. QED
      BY <1>1, <3>1, <3>2, ClaimedStep
  <2>2. CASE i # j /\ i \in passed
    <3>1. /\ jobs'[i] = FailedOverdue(i, now)
          /\ attempts'[i] = AttemptsAfterExpiry(i, now)
      BY <2>2 DEF Claim
    <3>2. AfterExpiry(i, now).state \in Waiting
      BY <2>2 DEF Claim, TakenFirst, Eligible
    <3>3. QED
      BY <1>1, <3>1, <3>2, FailedOverdueStep
  <2>3. CASE i # j /\ i \notin passed
    <3>1. /\ jobs'[i] = AfterExpiry(i, now)
          /\ attempts'[i] = AttemptsAfterExpiry(i, now)
      BY <2>3 DEF Claim
    <3>2. QED
      BY <1>1, <3>1, ExpiryStep
  <2>4. QED
    BY <2>1, <2>2, <2>3
<1>3. QED
  BY <1>2 DEF StepsOK

LEMMA ClaimNothingStep ==
  ASSUME IInv, AllRequested, NEW kinds, NEW now \in Instants,
         ClaimNothing(kinds, now)
  PROVE  StepsOK
<1>1. \A i \in Jobs : JobOK(i, jobs[i], attempts[i]) /\ Requested(jobs[i])
  BY DEF IInv, JobsOK, AllRequested
<1>2. ASSUME NEW i \in Jobs
      PROVE  StepOK(jobs[i], attempts[i], jobs'[i], attempts'[i])
  <2>1. attempts'[i] = AttemptsAfterExpiry(i, now)
    BY DEF ClaimNothing
  <2>2. CASE i \in Eligible(kinds, now)
    <3>1. jobs'[i] = FailedOverdue(i, now) /\ AfterExpiry(i, now).state \in Waiting
      BY <2>2 DEF ClaimNothing, Eligible
    <3>2. QED
      BY <1>1, <2>1, <3>1, FailedOverdueStep
  <2>3. CASE i \notin Eligible(kinds, now)
    <3>1. jobs'[i] = AfterExpiry(i, now)
      BY <2>3 DEF ClaimNothing
    <3>2. QED
      BY <1>1, <2>1, <3>1, ExpiryStep
  <2>4. QED
    BY <2>2, <2>3
<1>3. QED
  BY <1>2 DEF StepsOK

LEMMA SubmitStep ==
  ASSUME IInv, AllRequested, NEW j \in Jobs, NEW deadline, NEW now,
         Submit(j, deadline, now)
  PROVE  StepsOK
<1> DEFINE job == [Absent EXCEPT !.state = "queued", !.deadline_at = deadline,
                                 !.available_at = now]
<1>1. /\ jobs[j].state = "absent" /\ Requested(jobs[j])
      /\ attempts[j] \in Seq(Attempt)
      /\ attempts = [i \in Jobs |-> attempts[i]]
  BY DEF Submit, IInv, JobsOK, JobOK, AllRequested
<1>2. ~jobs[j].cancellation_requested /\ ~job.cancellation_requested
  BY <1>1 DEF Requested, Absent
<1>3. StepOK(jobs[j], attempts[j], job, attempts[j])
  BY <1>1, <1>2
  DEF StepOK, Final, Fenced, Honoured, InWindow, Requested, Terminal, Waiting
<1>4. /\ jobs' = [jobs EXCEPT ![j] = job]
      /\ attempts' = [attempts EXCEPT ![j] = attempts[j]]
  BY <1>1 DEF Submit
<1>5. QED
  BY <1>3, <1>4, OneStep

LEMMA RefuseLapsedStep ==
  ASSUME IInv, AllRequested, NEW j \in Jobs, NEW now \in Instants,
         RefuseLapsed(j, now)
  PROVE  StepsOK
<1>1. StepOK(jobs[j], attempts[j], AfterExpiry(j, now), AttemptsAfterExpiry(j, now))
  BY ExpiryStep DEF IInv, JobsOK, AllRequested
<1>2. QED
  BY <1>1, OneStep DEF RefuseLapsed

LEMMA HeartbeatStep ==
  ASSUME IInv, AllRequested, NEW j \in Jobs, NEW token, NEW lease_for, NEW now,
         Heartbeat(j, token, lease_for, now)
  PROVE  StepsOK
<1>1. /\ jobs = [i \in Jobs |-> jobs[i]] /\ jobs[j] \in JobRecord
      /\ attempts = [i \in Jobs |-> attempts[i]]
      /\ attempts[j] \in Seq(Attempt) /\ Requested(jobs[j])
  BY DEF IInv, JobsOK, JobOK, AllRequested
<1> DEFINE job == [jobs[j] EXCEPT !.lease.until = now + lease_for]
<1>2. /\ job.state = jobs[j].state /\ job.publication = jobs[j].publication
      /\ job.cancellation_requested = jobs[j].cancellation_requested
  BY <1>1 DEF JobRecord
<1>3. StepOK(jobs[j], attempts[j], job, attempts[j])
  BY <1>1, <1>2, QuietStep
<1>4. /\ jobs' = [jobs EXCEPT ![j] = job]
      /\ attempts' = [attempts EXCEPT ![j] = attempts[j]]
  BY <1>1 DEF Heartbeat
<1>5. QED
  BY <1>3, <1>4, OneStep

LEMMA AcknowledgeCancelStep ==
  ASSUME IInv, AllRequested, NEW j \in Jobs, NEW token, NEW now,
         AcknowledgeCancel(j, token, now)
  PROVE  StepsOK
<1> DEFINE job == [jobs[j] EXCEPT !.state = "cancelled", !.lease = NoLease]
<1>1. /\ JobOK(j, jobs[j], attempts[j]) /\ jobs = [i \in Jobs |-> jobs[i]]
      /\ jobs[j] \in JobRecord /\ jobs[j].state = "running"
  BY DEF IInv, JobsOK, JobOK, AcknowledgeCancel, HoldsLease
<1>2. /\ job.state = "cancelled"
      /\ job.cancellation_requested = jobs[j].cancellation_requested
  BY <1>1 DEF JobRecord
<1>3. "cancelled" \in Outcomes \ {"none", "lease_expired"}
  BY DEF Outcomes, Terminal
<1>4. StepOK(jobs[j], attempts[j], job, Finished(j, "cancelled"))
  BY <1>1, <1>2, <1>3, ClosedStep
<1>5. /\ jobs' = [jobs EXCEPT ![j] = job]
      /\ attempts' = [attempts EXCEPT ![j] = Finished(j, "cancelled")]
  BY <1>1 DEF AcknowledgeCancel
<1>6. QED
  BY <1>4, <1>5, OneStep

LEMMA StageOutputStep ==
  ASSUME IInv, AllRequested, NEW j \in Jobs, NEW token \in DOMAIN attempts[j],
         NEW name, NEW content, NEW now,
         StageOutput(j, token, name, content, now)
  PROVE  StepsOK
<1> DEFINE atts == [attempts[j] EXCEPT ![token].staged[name] = content]
<1>1. /\ jobs = [i \in Jobs |-> jobs[i]] /\ attempts[j] \in Seq(Attempt)
      /\ jobs[j].state = "running" /\ ~jobs[j].cancellation_requested
  BY DEF IInv, JobsOK, JobOK, StageOutput, HoldsLease
<1>2. ASSUME NEW n \in DOMAIN attempts[j]
      PROVE  atts[n].outcome = attempts[j][n].outcome
  <2>1. attempts[j][n] \in Attempt
    BY <1>1
  <2>2. QED
    BY <1>1, <2>1 DEF Attempt
<1>3. Honoured(jobs[j], attempts[j], atts)
  BY <1>2 DEF Honoured
<1>4. StepOK(jobs[j], attempts[j], jobs[j], atts)
  BY <1>1, <1>3
  DEF StepOK, Final, Fenced, InWindow, Requested, Terminal, Waiting
<1>5. /\ jobs' = [jobs EXCEPT ![j] = jobs[j]]
      /\ attempts' = [attempts EXCEPT ![j] = atts]
  BY <1>1 DEF StageOutput
<1>6. QED
  BY <1>4, <1>5, OneStep

LEMMA FailStep ==
  ASSUME IInv, AllRequested, NEW j \in Jobs, NEW token, NEW retry_delay,
         NEW now, Fail(j, token, retry_delay, now)
  PROVE  StepsOK
<1> DEFINE state == FailedState(j, retry_delay, now)
           job == [jobs[j] EXCEPT !.state = state, !.lease = NoLease,
                                  !.available_at = now + retry_delay]
<1>1. /\ JobOK(j, jobs[j], attempts[j]) /\ jobs = [i \in Jobs |-> jobs[i]]
      /\ jobs[j] \in JobRecord /\ jobs[j].state = "running"
  BY DEF IInv, JobsOK, JobOK, Fail, HoldsLease
<1>2. /\ job.state = state
      /\ job.cancellation_requested = jobs[j].cancellation_requested
      /\ jobs[j].cancellation_requested => state = "cancelled"
  BY <1>1 DEF JobRecord, FailedState
<1>3. state \in Outcomes \ {"none", "lease_expired"}
  BY DEF Outcomes, Terminal, FailedState
<1>4. StepOK(jobs[j], attempts[j], job, Finished(j, state))
  BY <1>1, <1>2, <1>3, ClosedStep
<1>5. /\ jobs' = [jobs EXCEPT ![j] = job]
      /\ attempts' = [attempts EXCEPT ![j] = Finished(j, state)]
  BY <1>1 DEF Fail
<1>6. QED
  BY <1>4, <1>5, OneStep

LEMMA CompleteAndPublishStep ==
  ASSUME IInv, AllRequested, NEW j \in Jobs, NEW token, NEW result_key,
         NEW refs, NEW key, NEW now,
         CompleteAndPublish(j, token, result_key, refs, key, now)
  PROVE  StepsOK
<1> DEFINE job == [jobs[j] EXCEPT !.state = "succeeded", !.lease = NoLease,
                                  !.publication = Len(publications) + 1]
<1>1. /\ JobOK(j, jobs[j], attempts[j]) /\ jobs = [i \in Jobs |-> jobs[i]]
      /\ jobs[j] \in JobRecord /\ jobs[j].state = "running"
      /\ ~jobs[j].cancellation_requested
  BY DEF IInv, JobsOK, JobOK, CompleteAndPublish, HoldsLease
<1>2. job.cancellation_requested = jobs[j].cancellation_requested
  BY <1>1 DEF JobRecord
<1>3. "succeeded" \in Outcomes \ {"none", "lease_expired"}
  BY DEF Outcomes, Terminal
<1>4. StepOK(jobs[j], attempts[j], job, Finished(j, "succeeded"))
  BY <1>1, <1>2, <1>3, ClosedStep
<1>5. /\ jobs' = [jobs EXCEPT ![j] = job]
      /\ attempts' = [attempts EXCEPT ![j] = Finished(j, "succeeded")]
  BY <1>1 DEF CompleteAndPublish
<1>6. QED
  BY <1>4, <1>5, OneStep

LEMMA RequestCancelStep ==
  ASSUME IInv, AllRequested, NEW j \in Jobs, NEW now \in Instants,
         RequestCancel(j, now)
  PROVE  StepsOK
<1> DEFINE expired == AfterExpiry(j, now)
           atts == AttemptsAfterExpiry(j, now)
           job == IF expired.state \in Terminal THEN expired
                  ELSE [expired EXCEPT !.cancellation_requested = TRUE,
                                       !.state = IF @ \in Waiting
                                                 THEN "cancelled" ELSE @]
<1>1. /\ JobOK(j, jobs[j], attempts[j]) /\ Requested(jobs[j])
      /\ jobs[j].state # "absent"
  BY DEF IInv, JobsOK, AllRequested, RequestCancel
<1>2. /\ expired \in JobRecord
      /\ jobs[j].state # "running" => expired = jobs[j] /\ atts = attempts[j]
      /\ jobs[j].state = "running" =>
           expired.state \in {"running", "cancelled", "failed", "retry_wait"}
      /\ Len(atts) = Len(attempts[j])
  BY <1>1, ExpiryOK DEF JobOK
<1>3. StepOK(jobs[j], attempts[j], expired, atts)
  BY <1>1, ExpiryStep
<1>4. ASSUME expired.state \in Terminal
      PROVE  StepOK(jobs[j], attempts[j], job, atts)
  BY <1>3, <1>4
<1>5. ASSUME expired.state \notin Terminal
      PROVE  StepOK(jobs[j], attempts[j], job, atts)
  <2>1. /\ job.cancellation_requested
        /\ job.state = IF expired.state \in Waiting THEN "cancelled"
                       ELSE expired.state
    BY <1>2, <1>5 DEF JobRecord
  <2>2. expired.state \in Waiting \cup {"running"}
    BY <1>1, <1>2, <1>5 DEF JobRecord, JobStates
  <2>3. jobs[j].state \notin Terminal
    BY <1>2, <1>5 DEF Terminal
  <2>4. Requested(job)
    BY <2>1, <2>2 DEF Requested
  <2>5. Fenced(jobs[j], attempts[j], job, atts)
    BY <1>3, <2>1 DEF StepOK, Fenced
  <2>6. QED
    BY <1>3, <1>5, <2>3, <2>4, <2>5 DEF StepOK, Final
<1>6. StepOK(jobs[j], attempts[j], job, atts)
  BY <1>4, <1>5
<1>7. /\ jobs' = [jobs EXCEPT ![j] = job]
      /\ attempts' = [attempts EXCEPT ![j] = atts]
  BY DEF RequestCancel
<1>8. QED
  BY <1>6, <1>7, OneStep

LEMMA TickStep ==
  ASSUME IInv, AllRequested, Tick
  PROVE  StepsOK
<1>1. ASSUME NEW j \in Jobs
      PROVE  /\ jobs'[j].state = jobs[j].state
             /\ jobs'[j].publication = jobs[j].publication
             /\ jobs'[j].cancellation_requested = jobs[j].cancellation_requested
  <2>1. jobs[j] \in JobRecord
    BY DEF IInv, JobsOK, JobOK
  <2>2. QED
    BY <2>1 DEF Tick, JobRecord
<1>2. QED
  BY <1>1, NoStep DEF Tick

LEMMA NextStep ==
  ASSUME IInv, AllRequested, [Next]_vars
  PROVE  StepsOK /\ AllRequested'
<1>1. ASSUME ClaimCall PROVE StepsOK
  BY <1>1, ClaimStep, ClaimNothingStep DEF ClaimCall
<1>2. ASSUME NEW j \in Jobs, ClientCall(j) PROVE StepsOK
  BY <1>2, SubmitStep, RequestCancelStep DEF ClientCall
<1>3. ASSUME NEW j \in Jobs, NEW token \in DOMAIN attempts[j], TokenCall(j, token)
      PROVE  StepsOK
  BY <1>3, RefuseLapsedStep, HeartbeatStep, AcknowledgeCancelStep,
     StageOutputStep, FailStep, CompleteAndPublishStep DEF TokenCall
<1>4. ASSUME CorrectionCall PROVE StepsOK
  BY <1>4, NoStep DEF CorrectionCall, RecordCorrection
<1>5. ASSUME Tick PROVE StepsOK
  BY <1>5, TickStep
<1>6. ASSUME UNCHANGED vars PROVE StepsOK
  BY <1>6, NoStep DEF vars
<1>7. StepsOK
  BY <1>1, <1>2, <1>3, <1>4, <1>5, <1>6 DEF Next
<1>8. AllRequested'
  BY <1>7 DEF StepsOK, StepOK, AllRequested, Requested
<1>9. QED
  BY <1>7, <1>8

LEMMA RequestedHolds == Spec => []AllRequested
<1>1. Init => AllRequested
  BY DEF Init, Absent, AllRequested, Requested
<1>2. IInv /\ AllRequested /\ [Next]_vars => AllRequested'
  BY NextStep
<1>3. QED
  BY <1>1, <1>2, IInvHolds, PTL DEF Spec

---------------------------------------------------------------------------
(* A job that succeeded, failed or was cancelled stays as it is, attempts    *)
(* included, whatever worker, client or poll comes later.                    *)
THEOREM TerminalStays == Spec => TerminalIsFinal
<1> DEFINE Step == \A j \in Jobs : jobs[j].state \in Terminal =>
                     /\ jobs'[j].state = jobs[j].state
                     /\ jobs'[j].publication = jobs[j].publication
                     /\ jobs'[j].cancellation_requested
                          = jobs[j].cancellation_requested
                     /\ attempts'[j] = attempts[j]
<1>1. IInv /\ AllRequested /\ [Next]_vars => [Step]_vars
  BY NextStep DEF StepsOK, StepOK, Final
<1>2. QED
  BY <1>1, IInvHolds, RequestedHolds, PTL DEF Spec, TerminalIsFinal

(* Once cancellation is requested, the job publishes nothing, stages nothing *)
(* and is given to no other worker.                                          *)
THEOREM CancellationFences == Spec => CancelFence
<1> DEFINE Step == \A j \in Jobs : jobs[j].cancellation_requested =>
                     /\ jobs'[j].state \in {jobs[j].state, "cancelled"}
                     /\ jobs'[j].cancellation_requested
                     /\ Len(attempts'[j]) = Len(attempts[j])
                     /\ \A n \in DOMAIN attempts[j] :
                          attempts'[j][n].staged = attempts[j][n].staged
<1>1. IInv /\ AllRequested /\ [Next]_vars => [Step]_vars
  BY NextStep DEF StepsOK, StepOK, Fenced
<1>2. QED
  BY <1>1, IInvHolds, RequestedHolds, PTL DEF Spec, CancelFence

(* A lease is taken away only after it has run out, although the calls that  *)
(* do it work with instants read before they had the lock.                   *)
THEOREM LeasesAreHonoured == Spec => LeaseHonoured
<1> DEFINE Step == \A j \in Jobs : \A n \in DOMAIN attempts[j] :
                     (/\ attempts[j][n].outcome = "none"
                      /\ attempts'[j][n].outcome = "lease_expired")
                       => jobs[j].lease.until <= 0
<1>1. IInv /\ AllRequested /\ [Next]_vars => [Step]_vars
  BY NextStep DEF StepsOK, StepOK, Honoured
<1>2. QED
  BY <1>1, IInvHolds, RequestedHolds, PTL DEF Spec, LeaseHonoured

(* A waiting job starts an attempt no earlier than its retry delay allows    *)
(* and no later than Lag ticks after its deadline.                           *)
THEOREM StartsAreInTheWindow == Spec => StartsInItsWindow
<1> DEFINE Step == \A j \in Jobs :
                     (jobs[j].state \in Waiting /\ Len(attempts'[j]) > Len(attempts[j]))
                       => /\ jobs[j].available_at <= 0
                          /\ jobs[j].deadline_at # None
                               => jobs[j].deadline_at > -Lag
<1>1. IInv /\ AllRequested /\ [Next]_vars => [Step]_vars
  BY NextStep DEF StepsOK, StepOK, InWindow
<1>2. QED
  BY <1>1, IInvHolds, RequestedHolds, PTL DEF Spec, StartsInItsWindow

---------------------------------------------------------------------------
(* Publications.  A stale one names its correction: otherwise a second       *)
(* correction could fill in the cause.                                       *)
StaleNamed ==
  \A p \in DOMAIN publications :
    publications[p].state = "stale" => publications[p].stale_by # None

AsCurrent(pub) == [pub EXCEPT !.state = "current", !.stale_by = None]

PublicationsKept ==
  \A p \in DOMAIN publications :
    /\ p \in DOMAIN publications'
    /\ publications[p].state = "stale" => publications'[p] = publications[p]
    /\ AsCurrent(publications'[p]) = AsCurrent(publications[p])

LEMMA CompletionKeepsPublications ==
  ASSUME IInv, StaleNamed, NEW j, NEW token, NEW result_key, NEW refs, NEW key,
         NEW now, CompleteAndPublish(j, token, result_key, refs, key, now)
  PROVE  PublicationsKept /\ StaleNamed'
<1> DEFINE new == NewPublication(j, token, result_key, refs)
<1>1. publications \in Seq(Publication) /\ publications' = Append(publications, new)
  BY DEF IInv, RestTypeOK, CompleteAndPublish
<1>2. new.state = "current"
  BY DEF NewPublication
<1> HIDE DEF new
<1>3. /\ DOMAIN publications' = DOMAIN publications \cup {Len(publications) + 1}
      /\ publications'[Len(publications) + 1] = new
      /\ \A p \in DOMAIN publications : publications'[p] = publications[p]
  BY <1>1
<1>4. QED
  BY <1>2, <1>3 DEF PublicationsKept, StaleNamed

LEMMA CorrectionKeepsPublications ==
  ASSUME IInv, StaleNamed, NEW case, NEW correction \in Corrections,
         NEW dependency, RecordCorrection(case, correction, dependency)
  PROVE  PublicationsKept /\ StaleNamed'
<1>1. /\ publications \in Seq(Publication)
      /\ DOMAIN publications' = DOMAIN publications
  BY DEF IInv, RestTypeOK, RecordCorrection
<1>2. ASSUME NEW p \in DOMAIN publications
      PROVE  /\ publications[p].state = "stale" => publications'[p] = publications[p]
             /\ AsCurrent(publications'[p]) = AsCurrent(publications[p])
             /\ publications'[p].state = "stale" => publications'[p].stale_by # None
  <2>1. publications[p] \in Publication
    BY <1>1
  <2>2. publications'[p] = publications[p]
        \/ publications'[p] = MarkedStale(p, correction)
    BY DEF RecordCorrection
  <2>3. publications[p].state = "stale" => publications[p].stale_by # None
    BY DEF StaleNamed
  <2>4. CASE publications'[p] = publications[p]
    BY <2>3, <2>4
  <2>5. CASE publications'[p] = MarkedStale(p, correction)
    <3> DEFINE pub == publications[p]
               cause == IF pub.stale_by = None THEN correction ELSE pub.stale_by
    <3>1. publications'[p] = [pub EXCEPT !.state = "stale", !.stale_by = cause]
      BY <2>5 DEF MarkedStale
    <3>2. cause # None
      BY NoneAssumption
    <3>3. pub.state = "stale" => cause = pub.stale_by
      BY <2>3
    <3> HIDE DEF cause
    <3>4. pub.state = "stale" => publications'[p] = pub
      <4>1. pub = [field \in DOMAIN pub |-> pub[field]]
        BY <2>1 DEF Publication
      <4>2. publications'[p] = [field \in DOMAIN pub |->
                                  IF field = "stale_by" THEN cause
                                  ELSE IF field = "state" THEN "stale"
                                  ELSE pub[field]]
        BY <2>1, <3>1 DEF Publication
      <4>3. QED
        BY <3>3, <4>1, <4>2
    <3>5. AsCurrent(publications'[p]) = AsCurrent(pub)
      BY <2>1, <3>1 DEF Publication, AsCurrent
    <3>6. publications'[p].stale_by = cause
      BY <2>1, <3>1 DEF Publication
    <3>7. QED
      BY <3>2, <3>4, <3>5, <3>6
  <2>6. QED
    BY <2>2, <2>4, <2>5
<1>3. QED
  BY <1>1, <1>2 DEF PublicationsKept, StaleNamed

LEMMA PublicationStep ==
  ASSUME IInv, StaleNamed, [Next]_vars
  PROVE  PublicationsKept /\ StaleNamed'
<1>1. ASSUME UNCHANGED publications PROVE PublicationsKept /\ StaleNamed'
  BY <1>1 DEF PublicationsKept, StaleNamed
<1>2. ASSUME ClaimCall PROVE UNCHANGED publications
  BY <1>2 DEF ClaimCall, Claim, ClaimNothing
<1>3. ASSUME NEW j \in Jobs, ClientCall(j) PROVE UNCHANGED publications
  BY <1>3 DEF ClientCall, Submit, RequestCancel
<1>4. ASSUME NEW j \in Jobs, NEW token \in DOMAIN attempts[j], TokenCall(j, token)
      PROVE  PublicationsKept /\ StaleNamed'
  BY <1>1, <1>4, CompletionKeepsPublications
  DEF TokenCall, RefuseLapsed, Heartbeat, AcknowledgeCancel, StageOutput, Fail
<1>5. ASSUME CorrectionCall PROVE PublicationsKept /\ StaleNamed'
  BY <1>5, CorrectionKeepsPublications DEF CorrectionCall
<1>6. ASSUME Tick \/ UNCHANGED vars PROVE UNCHANGED publications
  BY <1>6 DEF Tick, vars
<1>7. QED
  BY <1>1, <1>2, <1>3, <1>4, <1>5, <1>6 DEF Next

LEMMA StaleNamedHolds == Spec => []StaleNamed
<1>1. Init => StaleNamed
  BY DEF Init, StaleNamed
<1>2. IInv /\ StaleNamed /\ [Next]_vars => StaleNamed'
  BY PublicationStep
<1>3. QED
  BY <1>1, <1>2, IInvHolds, PTL DEF Spec

(* No publication disappears, none loses its staleness or its first cause,   *)
(* and nothing else of it ever changes (record_correction).                  *)
THEOREM StalenessStays == Spec => StalenessIsPermanent
<1> DEFINE Step ==
      \A p \in DOMAIN publications :
        /\ p \in DOMAIN publications'
        /\ publications[p].state = "stale" => publications'[p] = publications[p]
        /\ [publications'[p] EXCEPT !.state = "current", !.stale_by = None]
             = [publications[p] EXCEPT !.state = "current", !.stale_by = None]
<1>1. IInv /\ StaleNamed /\ [Next]_vars => [Step]_vars
  BY PublicationStep DEF PublicationsKept, AsCurrent
<1>2. QED
  BY <1>1, IInvHolds, StaleNamedHolds, PTL DEF Spec, StalenessIsPermanent

-----------------------------------------------------------------------------
(* The outbox tells the truth.                                               *)

Endings == {"retry_wait", "failed", "cancelled"}

(* The outcomes of an attempt that must have an event.                       *)
Ended(outcome) == outcome \in {"lease_expired", "retry_wait", "failed"}

(* The events that a step may write without claiming or committing.          *)
Plain(e) == e[1] \notin {"claimed", "committed"}

(* Job j's attempts go from atts to atts1 and the events in new say so: a    *)
(* new attempt is announced, an attempt that ends has its event.             *)
Explained(j, atts, atts1, new) ==
  /\ DOMAIN atts \subseteq DOMAIN atts1
  /\ \A n \in DOMAIN atts1 :
       /\ n \notin DOMAIN atts => <<"claimed", j, n>> \in new
       /\ Ended(atts1[n].outcome) =>
            \/ n \in DOMAIN atts /\ atts1[n].outcome = atts[n].outcome
            \/ \E type \in Endings : <<type, j, n>> \in new

(* An event is true of the state it is written with.                         *)
True(e, atts, pubs) ==
  /\ e[1] = "claimed" => e[2] \in Jobs /\ e[3] \in DOMAIN atts[e[2]]
  /\ e[1] = "committed" => e[2] \in DOMAIN pubs

(* A step that explains itself keeps the outbox truthful.                    *)
LEMMA OutboxKept ==
  ASSUME IInv, OutboxTellsTheTruth, NEW new, outbox' = outbox \cup new,
         \A e \in new : True(e, attempts', publications'),
         DOMAIN publications \subseteq DOMAIN publications',
         \A p \in DOMAIN publications' \ DOMAIN publications :
           <<"committed", p>> \in new,
         \A j \in Jobs : Explained(j, attempts[j], attempts'[j], new)
  PROVE  OutboxTellsTheTruth'
<1>1. ASSUME NEW e \in outbox'
      PROVE  /\ e[1] = "claimed" => e[3] \in DOMAIN attempts'[e[2]]
             /\ e[1] = "committed" => e[2] \in DOMAIN publications'
  <2>1. CASE e \in new
    BY <2>1 DEF True
  <2>2. CASE e \in outbox
    <3>1. e \in Event
      BY <2>2 DEF IInv, RestTypeOK
    <3>2. e[1] = "claimed" => e[2] \in Jobs
      BY <3>1 DEF Event
    <3>3. e[1] = "claimed" => e[3] \in DOMAIN attempts[e[2]]
      BY <2>2 DEF OutboxTellsTheTruth
    <3>4. e[1] = "committed" => e[2] \in DOMAIN publications
      BY <2>2 DEF OutboxTellsTheTruth
    <3>5. QED
      BY <3>2, <3>3, <3>4 DEF Explained
  <2>3. QED
    BY <2>1, <2>2
<1>2. \A p \in DOMAIN publications' : <<"committed", p>> \in outbox'
  BY DEF OutboxTellsTheTruth
<1>3. ASSUME NEW j \in Jobs, NEW n \in DOMAIN attempts'[j]
      PROVE  <<"claimed", j, n>> \in outbox'
  BY DEF OutboxTellsTheTruth, Explained
<1>4. ASSUME NEW j \in Jobs, NEW n \in DOMAIN attempts'[j],
             attempts'[j][n].outcome \in {"lease_expired", "retry_wait", "failed"}
      PROVE  \E type \in {"retry_wait", "failed", "cancelled"} :
               <<type, j, n>> \in outbox'
  BY <1>4 DEF OutboxTellsTheTruth, Explained, Ended, Endings
<1>5. QED
  BY <1>1, <1>2, <1>3, <1>4 DEF OutboxTellsTheTruth

(* The same for a step that claims and publishes nothing.                    *)
LEMMA PlainKept ==
  ASSUME IInv, OutboxTellsTheTruth, NEW new, outbox' = outbox \cup new,
         \A e \in new : Plain(e), UNCHANGED publications,
         \A j \in Jobs : Explained(j, attempts[j], attempts'[j], new)
  PROVE  OutboxTellsTheTruth'
<1>1. \A e \in new : True(e, attempts', publications')
  BY DEF Plain, True
<1>2. DOMAIN publications' = DOMAIN publications
  OBVIOUS
<1>3. QED
  BY <1>1, <1>2, OutboxKept

---------------------------------------------------------------------------
(* What happens to the attempts of one job.                                  *)
LEMMA UntouchedExplained ==
  ASSUME NEW j, NEW atts, NEW new
  PROVE  Explained(j, atts, atts, new)
BY DEF Explained

LEMMA FinishedExplained ==
  ASSUME NEW j \in Jobs, JobOK(j, jobs[j], attempts[j]),
         jobs[j].state = "running", NEW outcome \in Outcomes \ {"none"}, NEW new,
         Ended(outcome) =>
           \E type \in Endings : <<type, j, jobs[j].lease.attempt>> \in new
  PROVE  Explained(j, attempts[j], Finished(j, outcome), new)
<1> DEFINE leased == jobs[j].lease.attempt
<1>1. attempts[j] \in Seq(Attempt)
  BY DEF JobOK
<1>2. Finished(j, outcome) =
        [n \in DOMAIN attempts[j] |->
           IF n = leased THEN [attempts[j][n] EXCEPT !.outcome = outcome]
           ELSE attempts[j][n]]
  BY <1>1 DEF Finished
<1>3. \A n \in DOMAIN attempts[j] :
        Finished(j, outcome)[n].outcome =
          IF n = leased THEN outcome ELSE attempts[j][n].outcome
  <2>1. \A n \in DOMAIN attempts[j] : attempts[j][n] \in Attempt
    BY <1>1
  <2>2. QED
    BY <1>2, <2>1 DEF Attempt
<1>4. DOMAIN Finished(j, outcome) = DOMAIN attempts[j]
  BY <1>2
<1>5. QED
  BY <1>3, <1>4 DEF Explained

LEMMA ExpiryExplained ==
  ASSUME NEW j \in Jobs, JobOK(j, jobs[j], attempts[j]), NEW now, NEW new,
         ExpiryEvents(j, now) \subseteq new
  PROVE  Explained(j, attempts[j], AttemptsAfterExpiry(j, now), new)
<1>1. CASE Lapsed(j, now)
  <2>1. jobs[j].state = "running"
    BY <1>1 DEF Lapsed
  <2>2. "lease_expired" \in Outcomes \ {"none"}
    BY DEF Outcomes
  <2>3. /\ <<ExpiredState(j), j, jobs[j].lease.attempt>> \in new
        /\ ExpiredState(j) \in Endings
    BY <1>1 DEF ExpiryEvents, ExpiredState, Endings
  <2>4. QED
    BY <1>1, <2>1, <2>2, <2>3, FinishedExplained DEF AttemptsAfterExpiry
<1>2. CASE ~Lapsed(j, now)
  BY <1>2, UntouchedExplained DEF AttemptsAfterExpiry
<1>3. QED
  BY <1>1, <1>2

LEMMA ExpiryEventsPlain ==
  ASSUME NEW j, NEW now
  PROVE  \A e \in ExpiryEvents(j, now) : Plain(e)
BY DEF ExpiryEvents, ExpiredState, Plain

(* A step that moves the attempts of one job.                                *)
LEMMA OneExplained ==
  ASSUME IInv, NEW j \in Jobs, NEW atts, NEW new,
         attempts' = [attempts EXCEPT ![j] = atts],
         Explained(j, attempts[j], atts, new)
  PROVE  \A i \in Jobs : Explained(i, attempts[i], attempts'[i], new)
<1>1. attempts = [i \in Jobs |-> attempts[i]]
  BY DEF IInv, JobsOK
<1>2. \A i \in Jobs : attempts'[i] = IF i = j THEN atts ELSE attempts[i]
  BY <1>1
<1>3. QED
  BY <1>2, UntouchedExplained

---------------------------------------------------------------------------
(* The actions.                                                              *)
LEMMA ClaimTruth ==
  ASSUME IInv, OutboxTellsTheTruth, NEW j \in Jobs, NEW passed, NEW kinds,
         NEW lease_for, NEW now \in Instants,
         Claim(j, passed, kinds, lease_for, now)
  PROVE  OutboxTellsTheTruth'
<1> DEFINE next == Len(attempts[j]) + 1
           expired == UNION {ExpiryEvents(i, now) : i \in Jobs}
           new == expired \cup {<<"claimed", j, next>>}
<1>1. /\ \A i \in Jobs : JobOK(i, jobs[i], attempts[i])
      /\ outbox' = outbox \cup new /\ UNCHANGED publications
  BY DEF IInv, JobsOK, Claim
<1>2. ASSUME NEW i \in Jobs, i # j
      PROVE  Explained(i, attempts[i], attempts'[i], new)
  <2>1. attempts'[i] = AttemptsAfterExpiry(i, now)
    BY <1>2 DEF Claim
  <2>2. QED
    BY <1>1, <2>1, ExpiryExplained
<1>3. /\ attempts'[j] = Append(AttemptsAfterExpiry(j, now), NewAttempt(j))
      /\ AttemptsAfterExpiry(j, now) \in Seq(Attempt)
      /\ Len(AttemptsAfterExpiry(j, now)) = Len(attempts[j])
      /\ attempts[j] \in Seq(Attempt)
  BY <1>1, ExpiryOK DEF Claim, JobOK
<1>4. /\ DOMAIN attempts'[j] = DOMAIN attempts[j] \cup {next}
      /\ attempts'[j][next] = NewAttempt(j)
      /\ \A n \in DOMAIN attempts[j] :
           attempts'[j][n] = AttemptsAfterExpiry(j, now)[n]
      /\ DOMAIN AttemptsAfterExpiry(j, now) = DOMAIN attempts[j]
  BY <1>3
<1>5. Explained(j, attempts[j], attempts'[j], new)
  <2>1. Explained(j, attempts[j], AttemptsAfterExpiry(j, now), new)
    BY <1>1, ExpiryExplained
  <2>2. ~Ended(NewAttempt(j).outcome)
    BY DEF NewAttempt, Ended
  <2>3. QED
    BY <1>4, <2>1, <2>2 DEF Explained
<1>6. \A e \in new : True(e, attempts', publications')
  <2>1. \A e \in expired : Plain(e)
    BY ExpiryEventsPlain
  <2>2. True(<<"claimed", j, next>>, attempts', publications')
    BY <1>4 DEF True
  <2>3. QED
    BY <2>1, <2>2 DEF Plain, True
<1>7. DOMAIN publications' = DOMAIN publications
  BY <1>1
<1> HIDE DEF new
<1>8. QED
  BY <1>1, <1>2, <1>5, <1>6, <1>7, OutboxKept

LEMMA ClaimNothingTruth ==
  ASSUME IInv, OutboxTellsTheTruth, NEW kinds, NEW now,
         ClaimNothing(kinds, now)
  PROVE  OutboxTellsTheTruth'
<1> DEFINE new == UNION {ExpiryEvents(i, now) : i \in Jobs}
<1>1. /\ \A i \in Jobs : JobOK(i, jobs[i], attempts[i])
      /\ outbox' = outbox \cup new /\ UNCHANGED publications
      /\ \A i \in Jobs : attempts'[i] = AttemptsAfterExpiry(i, now)
  BY DEF IInv, JobsOK, ClaimNothing
<1>2. \A i \in Jobs : Explained(i, attempts[i], attempts'[i], new)
  BY <1>1, ExpiryExplained
<1>3. \A e \in new : Plain(e)
  BY ExpiryEventsPlain
<1> HIDE DEF new
<1>4. QED
  BY <1>1, <1>2, <1>3, PlainKept

LEMMA RefuseLapsedTruth ==
  ASSUME IInv, OutboxTellsTheTruth, NEW j \in Jobs, NEW now,
         RefuseLapsed(j, now)
  PROVE  OutboxTellsTheTruth'
<1>1. Explained(j, attempts[j], AttemptsAfterExpiry(j, now), ExpiryEvents(j, now))
  BY ExpiryExplained DEF IInv, JobsOK
<1>2. \A i \in Jobs :
        Explained(i, attempts[i], attempts'[i], ExpiryEvents(j, now))
  BY <1>1, OneExplained DEF RefuseLapsed
<1>3. QED
  BY <1>2, ExpiryEventsPlain, PlainKept DEF RefuseLapsed

LEMMA RequestCancelTruth ==
  ASSUME IInv, OutboxTellsTheTruth, NEW j \in Jobs, NEW now,
         RequestCancel(j, now)
  PROVE  OutboxTellsTheTruth'
<1> DEFINE asked == IF AfterExpiry(j, now).state \in Terminal THEN {}
                    ELSE {<<"cancellation_requested", j>>}
           new == ExpiryEvents(j, now) \cup asked
<1>1. Explained(j, attempts[j], AttemptsAfterExpiry(j, now), new)
  BY ExpiryExplained DEF IInv, JobsOK
<1>2. \A i \in Jobs : Explained(i, attempts[i], attempts'[i], new)
  BY <1>1, OneExplained DEF RequestCancel
<1>3. \A e \in new : Plain(e)
  BY ExpiryEventsPlain DEF Plain
<1>4. outbox' = outbox \cup new /\ UNCHANGED publications
  BY DEF RequestCancel
<1> HIDE DEF new
<1>5. QED
  BY <1>2, <1>3, <1>4, PlainKept

LEMMA FailTruth ==
  ASSUME IInv, OutboxTellsTheTruth, NEW j \in Jobs, NEW token, NEW retry_delay,
         NEW now, Fail(j, token, retry_delay, now)
  PROVE  OutboxTellsTheTruth'
<1> DEFINE state == FailedState(j, retry_delay, now)
           new == {<<state, j, token>>}
<1>1. /\ JobOK(j, jobs[j], attempts[j]) /\ jobs[j].state = "running"
      /\ jobs[j].lease.attempt = token
  BY DEF IInv, JobsOK, Fail, HoldsLease
<1>2. state \in Endings /\ state \in Outcomes \ {"none"}
  BY DEF FailedState, Endings, Outcomes, Terminal
<1>3. Explained(j, attempts[j], Finished(j, state), new)
  BY <1>1, <1>2, FinishedExplained
<1>4. \A i \in Jobs : Explained(i, attempts[i], attempts'[i], new)
  BY <1>3, OneExplained DEF Fail
<1>5. \A e \in new : Plain(e)
  BY <1>2 DEF Plain, Endings
<1>6. outbox' = outbox \cup new /\ UNCHANGED publications
  BY DEF Fail
<1> HIDE DEF new
<1>7. QED
  BY <1>4, <1>5, <1>6, PlainKept

LEMMA AcknowledgeCancelTruth ==
  ASSUME IInv, OutboxTellsTheTruth, NEW j \in Jobs, NEW token, NEW now,
         AcknowledgeCancel(j, token, now)
  PROVE  OutboxTellsTheTruth'
<1>1. JobOK(j, jobs[j], attempts[j]) /\ jobs[j].state = "running"
  BY DEF IInv, JobsOK, AcknowledgeCancel, HoldsLease
<1>2. "cancelled" \in Outcomes \ {"none"} /\ ~Ended("cancelled")
  BY DEF Outcomes, Terminal, Ended
<1>3. Explained(j, attempts[j], Finished(j, "cancelled"), {})
  BY <1>1, <1>2, FinishedExplained
<1>4. \A i \in Jobs : Explained(i, attempts[i], attempts'[i], {})
  BY <1>3, OneExplained DEF AcknowledgeCancel
<1>5. outbox' = outbox \cup {} /\ UNCHANGED publications
  BY DEF AcknowledgeCancel
<1>6. QED
  BY <1>4, <1>5, PlainKept

LEMMA StageOutputTruth ==
  ASSUME IInv, OutboxTellsTheTruth, NEW j \in Jobs,
         NEW token \in DOMAIN attempts[j], NEW name, NEW content, NEW now,
         StageOutput(j, token, name, content, now)
  PROVE  OutboxTellsTheTruth'
<1> DEFINE atts == [attempts[j] EXCEPT ![token].staged[name] = content]
<1>1. attempts[j] \in Seq(Attempt)
  BY DEF IInv, JobsOK, JobOK
<1>2. ASSUME NEW n \in DOMAIN attempts[j]
      PROVE  atts[n].outcome = attempts[j][n].outcome
  <2>1. attempts[j][n] \in Attempt
    BY <1>1
  <2>2. QED
    BY <1>1, <2>1 DEF Attempt
<1>3. Explained(j, attempts[j], atts, {})
  BY <1>2 DEF Explained
<1>4. \A i \in Jobs : Explained(i, attempts[i], attempts'[i], {})
  <2>1. attempts' = [attempts EXCEPT ![j] = atts]
    BY DEF StageOutput, IInv, JobsOK
  <2>2. QED
    BY <1>3, <2>1, OneExplained
<1>5. outbox' = outbox \cup {} /\ UNCHANGED publications
  BY DEF StageOutput
<1>6. QED
  BY <1>4, <1>5, PlainKept

LEMMA CompleteAndPublishTruth ==
  ASSUME IInv, OutboxTellsTheTruth, NEW j \in Jobs, NEW token, NEW result_key,
         NEW refs, NEW key, NEW now,
         CompleteAndPublish(j, token, result_key, refs, key, now)
  PROVE  OutboxTellsTheTruth'
<1> DEFINE id == Len(publications) + 1
           new == {<<"committed", id>>}
<1>1. /\ JobOK(j, jobs[j], attempts[j]) /\ jobs[j].state = "running"
      /\ publications \in Seq(Publication)
  BY DEF IInv, JobsOK, RestTypeOK, CompleteAndPublish, HoldsLease
<1>2. "succeeded" \in Outcomes \ {"none"} /\ ~Ended("succeeded")
  BY DEF Outcomes, Terminal, Ended
<1>3. Explained(j, attempts[j], Finished(j, "succeeded"), new)
  BY <1>1, <1>2, FinishedExplained
<1>4. \A i \in Jobs : Explained(i, attempts[i], attempts'[i], new)
  BY <1>3, OneExplained DEF CompleteAndPublish
<1>5. /\ outbox' = outbox \cup new
      /\ publications' = Append(publications,
                                NewPublication(j, token, result_key, refs))
  BY DEF CompleteAndPublish
<1>6. DOMAIN publications' = DOMAIN publications \cup {id}
  BY <1>1, <1>5
<1>7. \A e \in new : True(e, attempts', publications')
  BY <1>6 DEF True
<1>8. QED
  BY <1>4, <1>5, <1>6, <1>7, OutboxKept

(* A step that leaves the attempts alone.                                    *)
LEMMA QuietTruth ==
  ASSUME IInv, OutboxTellsTheTruth, UNCHANGED attempts, NEW new,
         outbox' = outbox \cup new, \A e \in new : Plain(e),
         DOMAIN publications' = DOMAIN publications
  PROVE  OutboxTellsTheTruth'
<1>1. \A j \in Jobs : Explained(j, attempts[j], attempts'[j], new)
  BY UntouchedExplained
<1>2. \A e \in new : True(e, attempts', publications')
  BY DEF Plain, True
<1>3. QED
  BY <1>1, <1>2, OutboxKept

LEMMA TruthKept == IInv /\ OutboxTellsTheTruth /\ [Next]_vars
                     => OutboxTellsTheTruth'
<1> SUFFICES ASSUME IInv, OutboxTellsTheTruth, [Next]_vars
             PROVE  OutboxTellsTheTruth'
  OBVIOUS
<1>1. ASSUME ClaimCall PROVE OutboxTellsTheTruth'
  BY <1>1, ClaimTruth, ClaimNothingTruth DEF ClaimCall
<1>2. ASSUME NEW j \in Jobs, NEW deadline, NEW now, Submit(j, deadline, now)
      PROVE  OutboxTellsTheTruth'
  <2> DEFINE new == {<<"submitted", j>>}
  <2>1. /\ UNCHANGED <<attempts, publications>> /\ outbox' = outbox \cup new
        /\ \A e \in new : Plain(e)
    BY <1>2 DEF Submit, Plain
  <2> HIDE DEF new
  <2>2. QED
    BY <2>1, QuietTruth
<1>3. ASSUME NEW j \in Jobs, ClientCall(j) PROVE OutboxTellsTheTruth'
  BY <1>2, <1>3, RequestCancelTruth DEF ClientCall
<1>4. ASSUME UNCHANGED <<attempts, publications, outbox>>
      PROVE  OutboxTellsTheTruth'
  <2> DEFINE new == {}
  <2>1. /\ outbox' = outbox \cup new /\ \A e \in new : Plain(e)
        /\ UNCHANGED attempts /\ DOMAIN publications' = DOMAIN publications
    BY <1>4
  <2> HIDE DEF new
  <2>2. QED
    BY <2>1, QuietTruth
<1>5. ASSUME NEW j \in Jobs, NEW token \in DOMAIN attempts[j], TokenCall(j, token)
      PROVE  OutboxTellsTheTruth'
  BY <1>4, <1>5, RefuseLapsedTruth, AcknowledgeCancelTruth, StageOutputTruth,
     FailTruth, CompleteAndPublishTruth DEF TokenCall, Heartbeat
<1>6. ASSUME NEW case, NEW correction, NEW dependency,
             RecordCorrection(case, correction, dependency)
      PROVE  OutboxTellsTheTruth'
  <2> DEFINE new == {<<"impact_recorded", case, correction>>}
  <2>1. /\ UNCHANGED attempts /\ DOMAIN publications' = DOMAIN publications
        /\ outbox' = outbox \cup new /\ \A e \in new : Plain(e)
    BY <1>6 DEF RecordCorrection, Plain
  <2> HIDE DEF new
  <2>2. QED
    BY <2>1, QuietTruth
<1>7. ASSUME Tick \/ UNCHANGED vars PROVE OutboxTellsTheTruth'
  BY <1>4, <1>7 DEF Tick, vars
<1>8. QED
  BY <1>1, <1>3, <1>5, <1>6, <1>7 DEF Next, CorrectionCall

(* The outbox announces exactly the attempts and publications that exist and *)
(* every attempt that lapsed or failed, also one that a refused call expired.*)
THEOREM OutboxIsTruthful == Spec => []OutboxTellsTheTruth
<1>1. Init => OutboxTellsTheTruth
  BY DEF Init, OutboxTellsTheTruth
<1>2. QED
  BY <1>1, TruthKept, IInvHolds, PTL DEF Spec

---------------------------------------------------------------------------
(* Why publications are stale.                                               *)

(* The waves of a correction.                                                *)
RefsTo(wave) == {PublicationRef(p) : p \in wave}

LEMMA Waves ==
  ASSUME NEW m \in Nat, m = Len(publications), NEW case, NEW dependency
  PROVE  /\ Wave(case, dependency)[0] = Dependents(case, {dependency})
         /\ \A n \in 1..m :
              Wave(case, dependency)[n]
                = Dependents(case, RefsTo(Wave(case, dependency)[n - 1]))
         /\ \A n \in 0..m : Wave(case, dependency)[n] \subseteq DOMAIN publications
PROOF
<1>. DEFINE X == SUBSET DOMAIN publications
            first == Dependents(case, {dependency})
            later(wave) == Dependents(case, RefsTo(wave))
            step == [t \in X \X (1..m) |-> later(t[1])]
            Defines(f) == f = [n \in 0..m |-> IF n = 0 THEN first ELSE later(f[n - 1])]
<1>1. first \in X /\ \A wave : later(wave) \in X
  BY DEF Dependents
<1>2. Wave(case, dependency) = CHOOSE g : Defines(g)
  BY DEF Wave, RefsTo
<1>. HIDE DEF X, first, later
<1>3. step \in [X \X (1..m) -> X]
  BY <1>1
<1>4. PICK f : Computes(f, X, first, step, m)
  <2>. HIDE DEF step
  <2>. QED  BY <1>1, <1>3, BoundedIteration
<1>5. ASSUME NEW n \in 1..m  PROVE  f[n] = later(f[n - 1])
  <2>1. n - 1 \in 0..m
    OBVIOUS
  <2>2. <<f[n - 1], n>> \in X \X (1..m)
    BY <1>4, <2>1 DEF Computes
  <2>. QED  BY <1>4, <2>2 DEF Computes
<1>. HIDE DEF step
<1>6. Defines(f)
  <2>1. ASSUME NEW n \in 0..m, n # 0  PROVE  n \in 1..m
    BY <2>1
  <2>. QED  BY <1>4, <1>5, <2>1 DEF Computes
<1>. DEFINE wave == CHOOSE g : Defines(g)
<1>7. Defines(wave)
  <2>. HIDE DEF Defines
  <2>. QED  BY <1>6
<1>. HIDE DEF wave
<1>8. /\ wave[0] = first /\ \A n \in 1..m : wave[n] = later(wave[n - 1])
      /\ \A n \in 0..m : wave[n] \in X
  <2>1. \A n \in 0..m : wave[n] = IF n = 0 THEN first ELSE later(wave[n - 1])
    BY <1>7
  <2>2. 0 \in 0..m /\ \A n \in 1..m : n \in 0..m /\ n # 0
    OBVIOUS
  <2>. QED  BY <1>1, <2>1, <2>2
<1>. QED  BY <1>2, <1>8 DEF wave, X, first, later

(* The rows of a correction: who is reached, and at which depth.             *)
LEMMA RowsOfCorrection ==
  ASSUME RestTypeOK, NEW case, NEW correction, NEW dependency
  PROVE  LET rows == ImpactRows(case, correction, dependency)
         IN  /\ \A i \in rows :
                  /\ i.case = case /\ i.correction = correction
                  /\ i.publication \in Impacted(case, dependency)
                  /\ i.depth \in 0..Len(publications)
                  /\ i.publication \in Wave(case, dependency)[i.depth]
             /\ \A p \in Impacted(case, dependency) :
                  \E i \in rows : i.publication = p
             /\ \A i, k \in rows : i.publication = k.publication => i = k
             /\ \A i \in rows : i.depth > 0 =>
                  \E k \in rows :
                    /\ k.depth = i.depth - 1
                    /\ PublicationRef(k.publication)
                         \in publications[i.publication].dependencies
             /\ \A n \in 0..Len(publications) : \A p :
                  (\E i \in rows : i.publication = p /\ i.depth = n) <=>
                    /\ p \in Wave(case, dependency)[n]
                    /\ \A k \in 0..(n - 1) : p \notin Wave(case, dependency)[k]
PROOF
<1>. DEFINE wave == Wave(case, dependency)
            Row(p, d) == [case |-> case, correction |-> correction,
                          publication |-> p, depth |-> d]
            First(p, d) == p \in wave[d] /\ \A n \in 0..(d - 1) : p \notin wave[n]
            rows == ImpactRows(case, correction, dependency)
<1>1. PICK m \in Nat : m = Len(publications)
  BY LenProperties DEF RestTypeOK
<1>2. /\ wave[0] = Dependents(case, {dependency})
      /\ \A n \in 1..m : wave[n] = Dependents(case, RefsTo(wave[n - 1]))
      /\ \A n \in 0..m : wave[n] \subseteq DOMAIN publications
  BY <1>1, Waves
<1>. HIDE DEF wave
<1>3. \A p : p \in Impacted(case, dependency) <=> \E n \in 0..m : p \in wave[n]
  BY <1>1, <1>2 DEF Impacted, wave
<1>4. /\ \A i \in rows : \E p \in Impacted(case, dependency), d \in 0..m :
           i = Row(p, d) /\ First(p, d)
      /\ \A p \in Impacted(case, dependency), d \in 0..m : First(p, d) => Row(p, d) \in rows
  BY <1>1 DEF ImpactRows, wave
<1>. HIDE DEF rows
<1>5. ASSUME NEW p \in Impacted(case, dependency)
      PROVE  \E d \in 0..m : First(p, d)
  <2>. DEFINE S == {n \in 0..m : p \in wave[n]}
  <2>1. S \subseteq Nat /\ S # {}
    BY <1>3
  <2>2. PICK d \in S : \A n \in S : d <= n
    <3>. HIDE DEF S
    <3>. QED  BY <2>1, LeastNatural
  <2>. QED  BY <2>2
<1>6. ASSUME NEW p, NEW d \in 0..m, NEW e \in 0..m, First(p, d), First(p, e)
      PROVE  d = e
  <2>1. d \in Nat /\ e \in Nat /\ ~(d < e) /\ ~(e < d)
    BY <1>6
  <2>. QED  BY <2>1
<1>7. ASSUME NEW p, NEW d \in 1..m, First(p, d)
      PROVE  \E q \in Impacted(case, dependency) :
               /\ First(q, d - 1)
               /\ PublicationRef(q) \in publications[p].dependencies
  <2>1. p \in Dependents(case, RefsTo(wave[d - 1]))
    BY <1>2, <1>7
  <2>2. PICK q \in wave[d - 1] : PublicationRef(q) \in publications[p].dependencies
    BY <2>1 DEF Dependents, RefsTo
  <2>3. d - 1 \in 0..m
    OBVIOUS
  <2>4. ASSUME NEW n \in 0..((d - 1) - 1), q \in wave[n]  PROVE  FALSE
    <3>1. n + 1 \in 1..m /\ n + 1 \in 0..(d - 1) /\ (n + 1) - 1 = n
      BY <2>3
    <3>2. p \in Dependents(case, RefsTo(wave[n]))
      BY <2>1, <2>2, <2>4 DEF Dependents, RefsTo
    <3>3. p \in wave[n + 1]
      BY <1>2, <3>1, <3>2
    <3>. QED  BY <1>7, <3>1, <3>3
  <2>. QED  BY <1>3, <2>2, <2>3, <2>4
<1>. HIDE DEF First
<1>8. ASSUME NEW i \in rows
      PROVE  /\ i.case = case /\ i.correction = correction
             /\ i.publication \in Impacted(case, dependency)
             /\ i.depth \in 0..m /\ First(i.publication, i.depth)
             /\ i = Row(i.publication, i.depth)
  BY <1>4
<1>9. \A p \in Impacted(case, dependency) : \E i \in rows : i.publication = p
  <2>. SUFFICES ASSUME NEW p \in Impacted(case, dependency)
                PROVE  \E i \in rows : i.publication = p
    OBVIOUS
  <2>1. PICK d \in 0..m : First(p, d)
    BY <1>5
  <2>2. Row(p, d) \in rows /\ Row(p, d).publication = p
    BY <1>4, <2>1
  <2>. QED  BY <2>2
<1>10. \A i, k \in rows : i.publication = k.publication => i = k
  BY <1>6, <1>8
<1>11. ASSUME NEW i \in rows, i.depth > 0
       PROVE  \E k \in rows :
                /\ k.depth = i.depth - 1
                /\ PublicationRef(k.publication) \in publications[i.publication].dependencies
  <2>1. i.depth \in 1..m /\ First(i.publication, i.depth)
    BY <1>8, <1>11
  <2>2. PICK q \in Impacted(case, dependency) :
          /\ First(q, i.depth - 1)
          /\ PublicationRef(q) \in publications[i.publication].dependencies
    BY <1>7, <2>1
  <2>3. i.depth - 1 \in 0..m
    BY <2>1
  <2>4. /\ Row(q, i.depth - 1) \in rows
        /\ Row(q, i.depth - 1).depth = i.depth - 1
        /\ Row(q, i.depth - 1).publication = q
    BY <1>4, <2>2, <2>3
  <2>. QED  BY <2>2, <2>4
<1>12. \A i \in rows : i.publication \in wave[i.depth]
  BY <1>8 DEF First
<1>13. ASSUME NEW n \in 0..m, NEW p
       PROVE  (\E i \in rows : i.publication = p /\ i.depth = n) <=>
                p \in wave[n] /\ \A k \in 0..(n - 1) : p \notin wave[k]
  <2>1. \A i \in rows : i.depth = n =>
          /\ i.publication \in wave[n]
          /\ \A k \in 0..(n - 1) : i.publication \notin wave[k]
    BY <1>8 DEF First
  <2>2. ASSUME p \in wave[n], \A k \in 0..(n - 1) : p \notin wave[k]
        PROVE  \E i \in rows : i.publication = p /\ i.depth = n
    <3>1. Row(p, n) \in rows
      BY <1>3, <1>4, <2>2 DEF First
    <3>2. Row(p, n).depth = n /\ Row(p, n).publication = p
      OBVIOUS
    <3>. HIDE DEF Row
    <3>. QED  BY <3>1, <3>2
  <2>. QED  BY <2>1, <2>2
<1>. QED  BY <1>1, <1>8, <1>9, <1>10, <1>11, <1>12, <1>13 DEF rows, wave

(* A dependency on a publication is on an earlier one: the publication that  *)
(* declares it did not exist yet.                                            *)
DependsOnOlder ==
  \A p \in DOMAIN publications :
    publications[p].dependencies
      \subseteq SourceRefs \cup {PublicationRef(q) : q \in 1..(p - 1)}

LEMMA PublicationRefs ==
  /\ \A p, q : PublicationRef(p) = PublicationRef(q) => p = q
  /\ \A p : PublicationRef(p) \notin SourceRefs
PROOF BY DEF PublicationRef, SourceRefs, SourceRef

Evidence == ImpactEvidence /\ DependsOnOlder

LEMMA CompletionKeepsEvidence ==
  ASSUME IInv, Evidence, NEW j \in Jobs, NEW token, NEW result_key,
         NEW refs \in DependencySets, NEW key, NEW now,
         CompleteAndPublish(j, token, result_key, refs, key, now)
  PROVE  Evidence'
PROOF
<1>. DEFINE new == NewPublication(j, token, result_key, refs)
            id == Len(publications) + 1
<1>1. /\ publications \in Seq(Publication) /\ impacts \subseteq Impact
      /\ publications' = Append(publications, new) /\ impacts' = impacts
  BY DEF IInv, RestTypeOK, CompleteAndPublish
<1>2. new.state = "current" /\ new.stale_by = None /\ new.dependencies = refs
  BY DEF NewPublication
<1>. HIDE DEF new
<1>3. /\ DOMAIN publications' = DOMAIN publications \cup {id}
      /\ publications'[id] = new /\ id \notin DOMAIN publications
      /\ \A p \in DOMAIN publications : publications'[p] = publications[p] /\ p < id
      /\ id \in Nat
  BY <1>1
<1>. HIDE DEF id
<1>4. \A p \in DOMAIN publications :
        CaseOfPublication(p)' = CaseOfPublication(p)
  BY <1>3 DEF CaseOfPublication
<1>5. \A i \in impacts : i.publication \in DOMAIN publications
  BY DEF Evidence, ImpactEvidence
<1>6. ImpactEvidence'
  <2>1. ASSUME NEW p \in DOMAIN publications'
        PROVE  IF publications'[p].state = "stale"
               THEN \E i \in {i \in impacts' : i.publication = p} :
                      i.correction = publications'[p].stale_by
               ELSE /\ {i \in impacts' : i.publication = p} = {}
                    /\ publications'[p].stale_by = None
    <3>1. CASE p = id
      BY <1>1, <1>2, <1>3, <1>5, <3>1
    <3>2. CASE p \in DOMAIN publications
      BY <1>1, <1>3, <3>2 DEF Evidence, ImpactEvidence
    <3>. QED  BY <1>3, <3>1, <3>2
  <2>2. ASSUME NEW i \in impacts'
        PROVE  /\ i.publication \in DOMAIN publications'
               /\ CaseOfPublication(i.publication)' = i.case
               /\ publications'[i.publication] = publications[i.publication]
    BY <1>1, <1>3, <1>4, <1>5 DEF Evidence, ImpactEvidence
  <2>. QED  BY <1>1, <2>1, <2>2 DEF Evidence, ImpactEvidence
<1>7. DependsOnOlder'
  <2>1. ASSUME NEW p \in DOMAIN publications'
        PROVE  publications'[p].dependencies
                 \subseteq SourceRefs \cup {PublicationRef(q) : q \in 1..(p - 1)}
    <3>1. CASE p \in DOMAIN publications
      BY <1>3, <3>1 DEF Evidence, DependsOnOlder
    <3>2. CASE p = id
      <4>1. refs \subseteq SourceRefs \cup PublishedRefs
        BY DEF DependencySets
      <4>2. DOMAIN publications \subseteq 1..(id - 1)
        BY <1>1 DEF id
      <4>. QED  BY <1>2, <1>3, <3>2, <4>1, <4>2 DEF PublishedRefs
    <3>. QED  BY <1>3, <3>1, <3>2
  <2>. QED  BY <2>1 DEF DependsOnOlder
<1>. QED  BY <1>6, <1>7 DEF Evidence

LEMMA CorrectionKeepsEvidence ==
  ASSUME IInv, Evidence, NEW case \in Cases, NEW correction \in Corrections,
         NEW dependency, RecordCorrection(case, correction, dependency)
  PROVE  Evidence'
PROOF
<1>. DEFINE rows == ImpactRows(case, correction, dependency)
            hit == Impacted(case, dependency)
<1>1. /\ publications \in Seq(Publication) /\ RestTypeOK
      /\ DOMAIN publications' = DOMAIN publications
      /\ impacts' = impacts \cup rows
      /\ \A i \in impacts : ~(i.case = case /\ i.correction = correction)
      /\ \A p \in DOMAIN publications :
           publications'[p] = IF p \in hit THEN MarkedStale(p, correction)
                              ELSE publications[p]
  BY DEF IInv, RestTypeOK, RecordCorrection
<1>2. hit \subseteq DOMAIN publications /\ \A p \in hit : CaseOfPublication(p) = case
  <2>1. PICK m \in Nat : m = Len(publications)
    BY <1>1
  <2>2. ASSUME NEW p \in hit  PROVE  CaseOfPublication(p) = case
    <3>1. PICK n \in 0..m : p \in Wave(case, dependency)[n]
      BY <2>1 DEF Impacted
    <3>2. n = 0 \/ n \in 1..m
      OBVIOUS
    <3>. QED  BY <2>1, <3>1, <3>2, Waves DEF Dependents
  <2>. QED  BY <2>2 DEF Impacted
<1>3. /\ \A i \in rows :
           /\ i.case = case /\ i.correction = correction /\ i.publication \in hit
      /\ \A p \in hit : \E i \in rows : i.publication = p
      /\ \A i, k \in rows : i.publication = k.publication => i = k
      /\ \A i \in rows : i.depth > 0 =>
           \E k \in rows : /\ k.depth = i.depth - 1
                          /\ PublicationRef(k.publication)
                               \in publications[i.publication].dependencies
  BY <1>1, RowsOfCorrection
<1>. HIDE DEF rows, hit
<1>4. ASSUME NEW p \in DOMAIN publications
      PROVE  /\ publications'[p].job = publications[p].job
             /\ publications'[p].dependencies = publications[p].dependencies
             /\ p \in hit => /\ publications'[p].state = "stale"
                            /\ publications'[p].stale_by
                                 = IF publications[p].stale_by = None THEN correction
                                   ELSE publications[p].stale_by
             /\ p \notin hit => publications'[p] = publications[p]
  <2>1. publications[p] \in Publication
    BY <1>1
  <2>. QED  BY <1>1, <2>1 DEF MarkedStale, Publication
<1>5. \A p \in DOMAIN publications : CaseOfPublication(p)' = CaseOfPublication(p)
  BY <1>4 DEF CaseOfPublication
<1>6. /\ \A p \in DOMAIN publications :
           IF publications[p].state = "stale"
           THEN \E i \in impacts : i.publication = p /\ i.correction = publications[p].stale_by
           ELSE publications[p].stale_by = None /\ \A i \in impacts : i.publication # p
      /\ \A i \in impacts :
           /\ i.publication \in DOMAIN publications
           /\ CaseOfPublication(i.publication) = i.case
           /\ i.depth > 0 =>
                \E k \in impacts :
                  /\ k.case = i.case /\ k.correction = i.correction
                  /\ k.depth = i.depth - 1
                  /\ PublicationRef(k.publication)
                       \in publications[i.publication].dependencies
           /\ \A k \in impacts :
                (k.case = i.case /\ k.correction = i.correction
                   /\ k.publication = i.publication) => k = i
  BY DEF Evidence, ImpactEvidence
<1>7. ASSUME NEW p \in DOMAIN publications
      PROVE  IF publications'[p].state = "stale"
             THEN \E i \in impacts' : i.publication = p /\ i.correction = publications'[p].stale_by
             ELSE publications'[p].stale_by = None /\ \A i \in impacts' : i.publication # p
  <2>1. CASE p \in hit
    <3>1. CASE publications[p].stale_by = None
      <4>1. PICK i \in rows : i.publication = p
        BY <1>3, <2>1
      <4>2. i \in impacts' /\ i.correction = publications'[p].stale_by
        BY <1>1, <1>3, <1>4, <2>1, <3>1, <4>1
      <4>. QED  BY <1>4, <2>1, <4>1, <4>2
    <3>2. CASE publications[p].stale_by # None
      <4>1. publications[p].state = "stale"
        BY <1>6, <3>2
      <4>2. publications'[p].stale_by = publications[p].stale_by
        BY <1>4, <2>1, <3>2
      <4>3. PICK i \in impacts : i.publication = p /\ i.correction = publications[p].stale_by
        BY <1>6, <4>1
      <4>. QED  BY <1>1, <1>4, <2>1, <4>2, <4>3
    <3>. QED  BY <3>1, <3>2
  <2>2. CASE p \notin hit
    BY <1>1, <1>3, <1>4, <1>6, <2>2
  <2>. QED  BY <2>1, <2>2
<1>8. ASSUME NEW i \in impacts'
      PROVE  /\ i.publication \in DOMAIN publications
             /\ CaseOfPublication(i.publication) = i.case
             /\ i.depth > 0 =>
                  \E k \in impacts' :
                    /\ k.case = i.case /\ k.correction = i.correction
                    /\ k.depth = i.depth - 1
                    /\ PublicationRef(k.publication)
                         \in publications[i.publication].dependencies
             /\ \A k \in impacts' :
                  (k.case = i.case /\ k.correction = i.correction
                     /\ k.publication = i.publication) => k = i
  <2>1. CASE i \in impacts
    BY <1>1, <1>3, <1>6, <2>1
  <2>2. CASE i \in rows
    BY <1>1, <1>2, <1>3, <2>2
  <2>. QED  BY <1>1, <2>1, <2>2
<1>9. ImpactEvidence'
  <2>1. \A i \in impacts' :
          publications'[i.publication].dependencies = publications[i.publication].dependencies
    BY <1>4, <1>8
  <2>. QED  BY <1>1, <1>5, <1>7, <1>8, <2>1 DEF ImpactEvidence
<1>10. DependsOnOlder'
  BY <1>1, <1>4 DEF Evidence, DependsOnOlder
<1>. QED  BY <1>9, <1>10 DEF Evidence

LEMMA EvidenceKept == IInv /\ Evidence /\ [Next]_vars => Evidence'
PROOF
<1>. SUFFICES ASSUME IInv, Evidence, [Next]_vars  PROVE  Evidence'
  OBVIOUS
<1>1. ASSUME UNCHANGED <<publications, impacts>>  PROVE  Evidence'
  BY <1>1 DEF Evidence, ImpactEvidence, DependsOnOlder, CaseOfPublication
<1>2. ASSUME ClaimCall  PROVE  Evidence'
  BY <1>1, <1>2 DEF ClaimCall, Claim, ClaimNothing
<1>3. ASSUME NEW j \in Jobs, ClientCall(j)  PROVE  Evidence'
  BY <1>1, <1>3 DEF ClientCall, Submit, RequestCancel
<1>4. ASSUME NEW j \in Jobs, NEW token \in DOMAIN attempts[j], TokenCall(j, token)
      PROVE  Evidence'
  BY <1>1, <1>4, CompletionKeepsEvidence
  DEF TokenCall, RefuseLapsed, Heartbeat, AcknowledgeCancel, StageOutput, Fail
<1>5. ASSUME CorrectionCall  PROVE  Evidence'
  BY <1>5, CorrectionKeepsEvidence DEF CorrectionCall
<1>6. ASSUME Tick \/ UNCHANGED vars  PROVE  Evidence'
  BY <1>1, <1>6 DEF Tick, vars
<1>. QED  BY <1>2, <1>3, <1>4, <1>5, <1>6 DEF Next

LEMMA EvidenceHolds == Spec => []Evidence
PROOF
<1>1. Init => Evidence
  BY DEF Init, Evidence, ImpactEvidence, DependsOnOlder
<1>. QED  BY <1>1, EvidenceKept, IInvHolds, PTL DEF Spec

(* Every stale publication has the row of the correction that made it stale  *)
(* first; a row at depth n + 1 hangs, through a declared dependency, from a  *)
(* row of the same correction at depth n; and a correction has one row for a *)
(* publication (record_correction), however often completions and            *)
(* corrections interleave.  That depths are those of shortest chains is      *)
(* CorrectionsReachAll.                                                      *)
THEOREM StalenessIsExplained == Spec => []ImpactEvidence
PROOF BY EvidenceHolds, PTL DEF Evidence

-----------------------------------------------------------------------------
(* How far a correction reaches.                                             *)

(* No dependency path of publications is longer than the list of them.       *)
LEMMA WavesRise ==
  ASSUME RestTypeOK, DependsOnOlder, NEW case, NEW dependency,
         NEW m \in Nat, m = Len(publications)
  PROVE  \A n \in 0..m : \A p \in Wave(case, dependency)[n] : p > n
PROOF
<1>. DEFINE wave == Wave(case, dependency)
            T == {n \in Nat : n <= m => \A p \in wave[n] : p > n}
<1>0. /\ wave[0] = Dependents(case, {dependency})
      /\ \A n \in 1..m : wave[n] = Dependents(case, RefsTo(wave[n - 1]))
      /\ \A n \in 0..m : wave[n] \subseteq DOMAIN publications
  BY Waves
<1>. HIDE DEF wave
<1>1. /\ \A n \in 1..m : wave[n] = Dependents(case, RefsTo(wave[n - 1]))
      /\ \A n \in 0..m : wave[n] \subseteq DOMAIN publications
      /\ DOMAIN publications = 1..m
  BY <1>0 DEF RestTypeOK
<1>2. 0 \in T
  BY <1>1
<1>3. ASSUME NEW n \in Nat, n \in T  PROVE  n + 1 \in T
  <2>1. SUFFICES ASSUME n + 1 <= m, NEW p \in wave[n + 1]  PROVE  p > n + 1
    OBVIOUS
  <2>2. n + 1 \in 1..m /\ (n + 1) - 1 = n /\ n \in 0..m /\ n <= m
    BY <2>1
  <2>3. p \in Dependents(case, RefsTo(wave[n])) /\ p \in 1..m
    BY <1>1, <2>1, <2>2
  <2>4. PICK q \in wave[n] : PublicationRef(q) \in publications[p].dependencies
    BY <2>3 DEF Dependents, RefsTo
  <2>5. q \in 1..(p - 1)
    <3>1. PublicationRef(q) \in {PublicationRef(o) : o \in 1..(p - 1)}
      BY <1>1, <2>3, <2>4, PublicationRefs DEF DependsOnOlder
    <3>. QED  BY <3>1, PublicationRefs
  <2>6. q > n
    BY <1>3, <2>2
  <2>. QED  BY <2>3, <2>5, <2>6
<1>. HIDE DEF T
<1>4. Nat \subseteq T
  BY <1>2, <1>3, Inductive
<1>. QED  BY <1>4 DEF T, wave

(* What depends on a publication of the last wave would be of a later one.   *)
LEMMA LastWave ==
  ASSUME RestTypeOK, DependsOnOlder, NEW case, NEW dependency,
         NEW m \in Nat, m = Len(publications)
  PROVE  Wave(case, dependency)[m] = {}
PROOF
<1>1. DOMAIN publications = 1..m
  BY DEF RestTypeOK
<1>. DEFINE wave == Wave(case, dependency)
<1>2. /\ \A n \in 0..m : \A p \in wave[n] : p > n
      /\ \A n \in 0..m : wave[n] \subseteq DOMAIN publications
  BY WavesRise, Waves
<1>. HIDE DEF wave
<1>3. \A p \in wave[m] : p > m /\ p \in 1..m
  BY <1>1, <1>2
<1>4. wave[m] = {}
  BY <1>3
<1>. QED  BY <1>4 DEF wave

(* The rows of a correction at depth n.                                      *)
At(n, case, correction) == Reported({i \in impacts' : i.depth = n}, case, correction)

Reaching(case, correction, dependency) ==
  /\ At(0, case, correction) = Dependents(case, {dependency})
  /\ \A n \in 0..Len(publications) :
       At(n + 1, case, correction)
         = Dependents(case, RefsTo(At(n, case, correction)))
             \ UNION {At(k, case, correction) : k \in 0..n}
  /\ \A p \in Reported(impacts', case, correction) : publications'[p].state = "stale"

(* A level is what a wave has and no wave before it.                         *)
Leads(level, wave, m) ==
  /\ \A n \in 0..m : \A p :
       p \in level[n] <=> p \in wave[n] /\ \A k \in 0..(n - 1) : p \notin wave[k]
  /\ level[m + 1] = {}

Follows(level, m, case, dependency) ==
  /\ \A p : p \in level[0] <=> p \in Dependents(case, {dependency})
  /\ \A n \in 0..m : \A p :
       p \in level[n + 1] <=>
         p \in Dependents(case, RefsTo(level[n])) /\ ~\E k \in 0..n : p \in level[k]

(* What depends on a level and is of no level up to it is the next level.    *)
LEMMA Levels ==
  ASSUME RestTypeOK, DependsOnOlder, NEW case, NEW dependency,
         NEW m \in Nat, m = Len(publications), NEW level,
         Leads(level, Wave(case, dependency), m)
  PROVE  Follows(level, m, case, dependency)
PROOF
<1>. DEFINE wave == Wave(case, dependency)
<1>1. /\ wave[0] = Dependents(case, {dependency})
      /\ \A n \in 1..m : wave[n] = Dependents(case, RefsTo(wave[n - 1]))
      /\ \A n \in 0..m : wave[n] \subseteq DOMAIN publications
  BY Waves, ZenonT(30)
<1>0. wave[m] = {}
  BY LastWave
<1>2. /\ \A n \in 0..m : \A p :
           p \in level[n] <=> p \in wave[n] /\ \A k \in 0..(n - 1) : p \notin wave[k]
      /\ level[m + 1] = {}
  BY DEF Leads
<1>. HIDE DEF wave
<1>3. ASSUME NEW n \in 0..m, NEW p
      PROVE  (\E k \in 0..n : p \in wave[k]) <=> (\E k \in 0..n : p \in level[k])
  <2>1. ASSUME NEW k \in 0..n, p \in wave[k]  PROVE  \E d \in 0..n : p \in level[d]
    <3>. DEFINE S == {d \in 0..n : p \in wave[d]}
    <3>1. S \subseteq Nat /\ S # {}
      BY <2>1
    <3>2. PICK d \in S : \A e \in S : d <= e
      <4>. HIDE DEF S
      <4>. QED  BY <3>1, LeastNatural
    <3>3. d \in 0..m /\ p \in wave[d] /\ \A e \in 0..(d - 1) : p \notin wave[e]
      BY <3>2
    <3>. QED  BY <1>2, <3>2, <3>3
  <2>2. ASSUME NEW k \in 0..n, p \in level[k]  PROVE  p \in wave[k]
    <3>1. k \in 0..m
      OBVIOUS
    <3>. QED  BY <1>2, <2>2, <3>1
  <2>. QED  BY <2>1, <2>2
<1>4. \A p : p \in level[0] <=> p \in Dependents(case, {dependency})
  <2>1. 0 \in 0..m /\ \A k \in 0..(0 - 1) : FALSE
    OBVIOUS
  <2>. QED  BY <1>1, <1>2, <2>1
<1>5. ASSUME NEW n \in 0..m, NEW p
      PROVE  p \in level[n + 1] <=>
               p \in Dependents(case, RefsTo(level[n])) /\ ~\E k \in 0..n : p \in level[k]
  <2>1. level[n] \subseteq wave[n]
    BY <1>2
  <2>2. p \in Dependents(case, RefsTo(level[n])) => p \in Dependents(case, RefsTo(wave[n]))
    BY <2>1 DEF Dependents, RefsTo
  <2>3. CASE n = m
    <3>1. p \notin Dependents(case, RefsTo(level[n]))
      BY <1>0, <2>1, <2>3 DEF Dependents, RefsTo
    <3>. QED  BY <1>2, <2>3, <3>1
  <2>4. CASE n # m
    <3>1. n + 1 \in 1..m /\ n + 1 \in 0..m /\ (n + 1) - 1 = n
      BY <2>4
    <3>2. p \in level[n + 1] <=> /\ p \in Dependents(case, RefsTo(wave[n]))
                                /\ ~\E k \in 0..n : p \in wave[k]
      BY <1>1, <1>2, <3>1
    <3>3. ASSUME p \in Dependents(case, RefsTo(wave[n])), ~\E k \in 0..n : p \in wave[k]
          PROVE  p \in Dependents(case, RefsTo(level[n]))
      <4>1. PICK q \in wave[n] : PublicationRef(q) \in publications[p].dependencies
        BY <3>3 DEF Dependents, RefsTo
      <4>2. ASSUME NEW k \in 0..(n - 1), q \in wave[k]  PROVE  FALSE
        <5>1. k + 1 \in 1..m /\ k + 1 \in 0..n /\ (k + 1) - 1 = k
          OBVIOUS
        <5>2. p \in Dependents(case, RefsTo(wave[k]))
          BY <3>3, <4>1, <4>2 DEF Dependents, RefsTo
        <5>3. wave[k + 1] = Dependents(case, RefsTo(wave[k]))
          BY <1>1, <5>1
        <5>. QED  BY <3>3, <5>1, <5>2, <5>3
      <4>3. q \in level[n]
        BY <1>2, <4>1, <4>2
      <4>. QED  BY <3>3, <4>1, <4>3 DEF Dependents, RefsTo
    <3>4. (\E k \in 0..n : p \in wave[k]) <=> (\E k \in 0..n : p \in level[k])
      BY <1>3
    <3>. QED  BY <2>2, <3>2, <3>3, <3>4, ZenonT(20)
  <2>. QED  BY <2>3, <2>4
<1>. QED  BY <1>4, <1>5 DEF Follows

LEMMA CorrectionReaches ==
  ASSUME IInv, Evidence, NEW case \in Cases, NEW correction \in Corrections,
         NEW dependency \in SourceRefs \cup PublishedRefs,
         RecordCorrection(case, correction, dependency)
  PROVE  Reaching(case, correction, dependency)
PROOF
<1>. DEFINE rows == ImpactRows(case, correction, dependency)
            reached == Impacted(case, dependency)
            wave == Wave(case, dependency)
<1>1. /\ publications \in Seq(Publication) /\ RestTypeOK /\ DependsOnOlder
      /\ impacts' = impacts \cup rows
      /\ \A i \in impacts : ~(i.case = case /\ i.correction = correction)
      /\ \A p \in DOMAIN publications :
           p \in reached => publications'[p] = MarkedStale(p, correction)
  BY DEF IInv, RestTypeOK, Evidence, RecordCorrection
<1>2. PICK m \in Nat : m = Len(publications)
  BY <1>1
<1>3. /\ \A i \in rows : /\ i.case = case /\ i.correction = correction
                         /\ i.publication \in reached /\ i.depth \in 0..m
      /\ \A n \in 0..m : \A p :
           (\E i \in rows : i.publication = p /\ i.depth = n) <=>
             p \in wave[n] /\ \A k \in 0..(n - 1) : p \notin wave[k]
  BY <1>1, <1>2, RowsOfCorrection
<1>4. \A p \in reached : publications'[p].state = "stale"
  <2>1. ASSUME NEW p \in reached  PROVE  publications'[p].state = "stale"
    <3>1. p \in DOMAIN publications /\ publications[p] \in Publication
      BY <1>1 DEF Impacted
    <3>. QED  BY <1>1, <3>1 DEF MarkedStale, Publication
  <2>. QED  BY <2>1
<1>. HIDE DEF rows, reached, wave
<1>5. ASSUME NEW n \in 0..(m + 1), NEW p
      PROVE  p \in At(n, case, correction) <=> \E i \in rows : i.publication = p /\ i.depth = n
  BY <1>1, <1>3 DEF At, Reported
<1>. DEFINE level == [n \in 0..(m + 1) |-> At(n, case, correction)]
<1>6. /\ \A n \in 0..(m + 1) : level[n] = At(n, case, correction)
      /\ \A n \in 0..m : n \in 0..(m + 1) /\ n + 1 \in 0..(m + 1)
      /\ m + 1 \in 0..(m + 1)
  OBVIOUS
<1>. HIDE DEF level
<1>7. level[m + 1] = {}
  BY <1>3, <1>5, <1>6
<1>8. /\ \A p : p \in level[0] <=> p \in Dependents(case, {dependency})
      /\ \A n \in 0..m : \A p :
           p \in level[n + 1] <=>
             p \in Dependents(case, RefsTo(level[n])) /\ ~\E k \in 0..n : p \in level[k]
  <2>1. \A n \in 0..m : \A p :
          p \in level[n] <=> p \in wave[n] /\ \A k \in 0..(n - 1) : p \notin wave[k]
    BY <1>3, <1>5, <1>6
  <2>2. RestTypeOK /\ DependsOnOlder /\ m = Len(publications)
    BY <1>1, <1>2
  <2>3. Leads(level, Wave(case, dependency), m)
    BY <1>7, <2>1 DEF Leads, wave
  <2>4. Follows(level, m, case, dependency)
    <3>. HIDE DEF wave
    <3>. QED  BY <2>2, <2>3, Levels, ZenonT(30)
  <2>. QED  BY <2>4 DEF Follows
<1>9. /\ At(0, case, correction) = Dependents(case, {dependency})
      /\ \A n \in 0..m :
           At(n + 1, case, correction)
             = Dependents(case, RefsTo(At(n, case, correction)))
                 \ UNION {At(k, case, correction) : k \in 0..n}
  <2>1. 0 \in 0..(m + 1) /\ \A n \in 0..m : \A k \in 0..n : k \in 0..(m + 1)
    OBVIOUS
  <2>2. At(0, case, correction) = Dependents(case, {dependency})
    <3>1. level[0] = At(0, case, correction)
      BY <1>6, <2>1
    <3>. QED  BY <1>8, <3>1
  <2>3. ASSUME NEW n \in 0..m, NEW p
        PROVE  p \in At(n + 1, case, correction) <=>
                 /\ p \in Dependents(case, RefsTo(At(n, case, correction)))
                 /\ ~\E k \in 0..n : p \in At(k, case, correction)
    <3>1. /\ level[n] = At(n, case, correction)
          /\ level[n + 1] = At(n + 1, case, correction)
          /\ \A k \in 0..n : level[k] = At(k, case, correction)
      BY <1>6, <2>1
    <3>2. p \in level[n + 1] <=>
            p \in Dependents(case, RefsTo(level[n])) /\ ~\E k \in 0..n : p \in level[k]
      BY <1>8
    <3>. QED  BY <3>1, <3>2
  <2>4. ASSUME NEW n \in 0..m
        PROVE  At(n + 1, case, correction)
                 = Dependents(case, RefsTo(At(n, case, correction)))
                     \ UNION {At(k, case, correction) : k \in 0..n}
    BY <2>3
  <2>. QED  BY <2>2, <2>4
<1>10. Reported(impacts', case, correction) \subseteq reached
  BY <1>1, <1>3 DEF Reported
<1>. QED  BY <1>2, <1>4, <1>9, <1>10 DEF Reaching

(* A correction reports every publication of the case that rests on what it  *)
(* corrects over some chain of dependencies, at the length of the shortest,  *)
(* and no other, and leaves all of them stale (record_correction).           *)
THEOREM CorrectionsReachAll == Spec => CorrectionReachesAll
PROOF
<1>. DEFINE Reaches == \A case \in Cases, correction \in Corrections,
                          dependency \in SourceRefs \cup PublishedRefs :
                         RecordCorrection(case, correction, dependency)
                           => Reaching(case, correction, dependency)
<1>1. IInv /\ Evidence => [Reaches]_vars
  BY CorrectionReaches
<1>. QED  BY <1>1, IInvHolds, EvidenceHolds, PTL
          DEF Spec, CorrectionReachesAll, Reaching, At, RefsTo

---------------------------------------------------------------------------
(* The refinement of FencedResults.                                          *)

(* The log of a result, from its publications and their number.              *)
The(S) == CHOOSE p \in S : TRUE

OfGen(chain, pubs, g) == {p \in chain : pubs[p].generation = g}

Entry(pubs, p) == [job |-> pubs[p].job, epoch |-> pubs[p].attempt]

LogIn(chain, pubs, n) ==
  [g \in 1..n |-> Entry(pubs, The(OfGen(chain, pubs, g)))]

LEMMA LogIsEntries ==
  ASSUME NEW case, NEW key
  PROVE  /\ LogOf(case, key)
              = LogIn(ResultOf(case, key), publications, Generations(case, key))
         /\ LogOf(case, key)'
              = LogIn(ResultOf(case, key)', publications', Generations(case, key)')
PROOF BY DEF LogOf, LogIn, Entry, The, OfGen, OfGeneration

(* Generations grow along the chain of a result, and none is skipped.        *)
LEMMA GenerationsGrow ==
  ASSUME RestTypeOK, HeadChain, NEW case \in Cases, NEW key \in ResultKeys
  PROVE  \A p, q \in ResultOf(case, key) :
           p < q => publications[p].generation < publications[q].generation
PROOF
<1>. DEFINE chain == ResultOf(case, key)
            gen(p) == publications[p].generation
            S == {q \in chain : \E p \in chain : p < q /\ ~(gen(p) < gen(q))}
<1>1. chain \subseteq Nat \ {0} /\ \A p \in chain : gen(p) \in Nat
  <2>1. publications \in Seq(Publication) /\ chain \subseteq DOMAIN publications
    BY DEF RestTypeOK, ResultOf
  <2>2. \A p \in DOMAIN publications : p \in Nat \ {0} /\ publications[p] \in Publication
    BY <2>1
  <2>. QED  BY <2>1, <2>2 DEF Publication
<1>2. \A p \in chain :
        LET previous == publications[p].supersedes
        IN  /\ \A q \in chain : q < p => q <= previous
            /\ IF previous = 0 THEN gen(p) = 1
               ELSE previous \in chain /\ previous < p /\ gen(p) = gen(previous) + 1
  BY DEF HeadChain
<1>. HIDE DEF chain, gen
<1>3. SUFFICES ASSUME S # {}  PROVE FALSE
  BY <1>3 DEF chain, gen
<1>4. PICK q \in S : \A r \in S : q <= r
  <2>1. S \subseteq Nat
    BY <1>1
  <2>. HIDE DEF S
  <2>. QED  BY <1>3, <2>1, LeastNatural
<1>5. PICK p \in chain : p < q /\ ~(gen(p) < gen(q))
  BY <1>4
<1>. DEFINE previous == publications[q].supersedes
<1>6. q \in chain /\ p <= previous /\ previous # 0
  BY <1>1, <1>2, <1>4, <1>5
<1>7. previous \in chain /\ previous < q /\ gen(q) = gen(previous) + 1
  BY <1>2, <1>6
<1>. HIDE DEF previous
<1>8. gen(p) \in Nat /\ gen(q) \in Nat /\ gen(previous) \in Nat /\ p \in Nat
      /\ q \in Nat /\ previous \in Nat
  BY <1>1, <1>5, <1>6, <1>7
<1>9. p # previous
  BY <1>5, <1>7, <1>8
<1>10. p < previous /\ ~(q <= previous)
  BY <1>6, <1>7, <1>8, <1>9
<1>11. previous \notin S
  BY <1>4, <1>10
<1>12. gen(p) < gen(previous)
  BY <1>5, <1>7, <1>10, <1>11
<1>. QED  BY <1>5, <1>7, <1>8, <1>12

LEMMA NoGenerationSkipped ==
  ASSUME RestTypeOK, HeadChain, NEW case \in Cases, NEW key \in ResultKeys
  PROVE  /\ Generations(case, key) \in Nat
         /\ \A p \in ResultOf(case, key) :
              publications[p].generation <= Generations(case, key)
         /\ \A g \in 1..Generations(case, key) : OfGeneration(case, key, g) # {}
PROOF
<1>. DEFINE chain == ResultOf(case, key)
            head == heads[case][key]
            length == Generations(case, key)
            gen(p) == publications[p].generation
            S == {n \in Nat : n < length /\ OfGeneration(case, key, length - n) = {}}
<1>1. chain \subseteq Nat \ {0} /\ \A p \in chain : gen(p) \in Nat
  <2>1. publications \in Seq(Publication) /\ chain \subseteq DOMAIN publications
    BY DEF RestTypeOK, ResultOf
  <2>2. \A p \in DOMAIN publications : p \in Nat \ {0} /\ publications[p] \in Publication
    BY <2>1
  <2>. QED  BY <2>1, <2>2 DEF Publication
<1>2. /\ IF chain = {} THEN head = 0
         ELSE head \in chain /\ \A p \in chain : p <= head
      /\ \A p \in chain :
           LET previous == publications[p].supersedes
           IN  IF previous = 0 THEN gen(p) = 1
               ELSE previous \in chain /\ previous < p /\ gen(p) = gen(previous) + 1
  BY DEF HeadChain
<1>3. /\ \A g : OfGeneration(case, key, g) = {p \in chain : gen(p) = g}
      /\ \A p, q \in chain : p < q => gen(p) < gen(q)
  BY GenerationsGrow DEF OfGeneration
<1>4. length = IF head = 0 THEN 0 ELSE gen(head)
  BY DEF Generations
<1>. HIDE DEF chain, head, length, gen
<1>5. chain # {} => head \in chain /\ head # 0 /\ length = gen(head)
  BY <1>1, <1>2, <1>4
<1>6. length \in Nat
  BY <1>1, <1>2, <1>4, <1>5
<1>7. ASSUME NEW p \in chain  PROVE gen(p) <= length
  <2>1. head \in chain /\ length = gen(head) /\ p <= head
    BY <1>2, <1>5
  <2>2. p \in Nat /\ head \in Nat /\ gen(p) \in Nat /\ gen(head) \in Nat
    BY <1>1, <2>1
  <2>3. CASE p = head
    BY <2>1, <2>2, <2>3
  <2>4. CASE p < head
    BY <1>3, <2>1, <2>2, <2>4
  <2>. QED  BY <2>1, <2>2, <2>3, <2>4
<1>8. S = {}
  <2>1. SUFFICES ASSUME S # {}  PROVE FALSE
    OBVIOUS
  <2>2. PICK n \in S : \A k \in S : n <= k
    <3>1. S \subseteq Nat
      OBVIOUS
    <3>. HIDE DEF S
    <3>. QED  BY <2>1, <3>1, LeastNatural
  <2>3. n \in Nat /\ n < length /\ OfGeneration(case, key, length - n) = {}
    BY <2>2
  <2>4. n # 0
    <3>1. SUFFICES ASSUME n = 0  PROVE FALSE
      OBVIOUS
    <3>2. length # 0 /\ length - n = length
      BY <1>6, <2>3, <3>1
    <3>3. head \in chain /\ gen(head) = length
      BY <1>4, <1>5, <1>2, <3>2
    <3>. QED  BY <1>3, <2>3, <3>2, <3>3
  <2>5. n - 1 \in Nat /\ n - 1 < length /\ ~(n <= n - 1)
        /\ length - (n - 1) = (length - n) + 1 /\ length - n \in Nat /\ length - n # 0
    BY <1>6, <2>3, <2>4
  <2>6. PICK p \in chain : gen(p) = (length - n) + 1
    <3>1. n - 1 \notin S
      BY <2>2, <2>5
    <3>. QED  BY <1>3, <2>5, <3>1
  <2>. DEFINE previous == publications[p].supersedes
  <2>7. previous # 0
    <3>1. previous = 0 => gen(p) = 1
      BY <1>2, <2>6
    <3>. QED  BY <2>5, <2>6, <3>1
  <2>8. previous \in chain /\ gen(p) = gen(previous) + 1
    BY <1>2, <2>6, <2>7
  <2>9. gen(previous) \in Nat
    BY <1>1, <2>8
  <2>10. gen(previous) = length - n
    BY <2>5, <2>6, <2>8, <2>9
  <2>. QED  BY <1>3, <2>3, <2>8, <2>10
<1>9. ASSUME NEW g \in 1..length  PROVE OfGeneration(case, key, g) # {}
  <2>1. length - g \in Nat /\ length - g < length /\ length - (length - g) = g
    BY <1>6
  <2>2. length - g \notin S
    BY <1>8
  <2>. QED  BY <2>1, <2>2
<1>. QED  BY <1>6, <1>7, <1>9 DEF chain, length, gen

(* What a step that commits nothing leaves of the publications: the log.     *)
SameLogs ==
  /\ heads' = heads
  /\ DOMAIN publications' = DOMAIN publications
  /\ \A p \in DOMAIN publications :
       /\ publications'[p].job = publications[p].job
       /\ publications'[p].attempt = publications[p].attempt
       /\ publications'[p].result_key = publications[p].result_key
       /\ publications'[p].generation = publications[p].generation

LEMMA LogStays ==
  ASSUME RestTypeOK, HeadChain, SameLogs, NEW case \in Cases, NEW key \in ResultKeys
  PROVE  LogOf(case, key)' = LogOf(case, key)
PROOF
<1>. DEFINE length == Generations(case, key)
            chain == ResultOf(case, key)
<1>1. chain \subseteq DOMAIN publications
  BY DEF ResultOf
<1>2. chain' = chain
  BY DEF ResultOf, CaseOfPublication, SameLogs
<1>3. length' = length
  <2>1. heads[case][key] # 0 => heads[case][key] \in DOMAIN publications
    BY <1>1 DEF HeadChain
  <2>. QED  BY <2>1 DEF Generations, SameLogs
<1>4. \A g \in 1..length : OfGen(chain, publications, g) # {}
  BY NoGenerationSkipped DEF OfGen, OfGeneration
<1>. HIDE DEF chain, length
<1>5. ASSUME NEW g \in 1..length
      PROVE  Entry(publications', The(OfGen(chain, publications', g)))
               = Entry(publications, The(OfGen(chain, publications, g)))
  <2>1. OfGen(chain, publications', g) = OfGen(chain, publications, g)
    BY <1>1 DEF OfGen, SameLogs
  <2>2. The(OfGen(chain, publications, g)) \in DOMAIN publications
    BY <1>1, <1>4 DEF The, OfGen
  <2>. QED  BY <2>1, <2>2 DEF Entry, SameLogs
<1>6. LogIn(chain, publications', length) = LogIn(chain, publications, length)
  BY <1>5 DEF LogIn
<1>. QED  BY <1>2, <1>3, <1>6, LogIsEntries DEF chain, length

LEMMA LogAppends ==
  ASSUME IInv, NEW j \in Jobs, NEW token, NEW result_key \in ResultKeys,
         NEW refs, NEW key, NEW now,
         CompleteAndPublish(j, token, result_key, refs, key, now),
         NEW case \in Cases, NEW k \in ResultKeys
  PROVE  LogOf(case, k)' =
           IF case = CaseOf[j] /\ k = result_key
           THEN Append(LogOf(case, k), [job |-> j, epoch |-> token])
           ELSE LogOf(case, k)
PROOF
<1>. DEFINE new == NewPublication(j, token, result_key, refs)
            id == Len(publications) + 1
            length == Generations(case, k)
            chain == ResultOf(case, k)
            pubs == Append(publications, new)
<1>1. publications \in Seq(Publication) /\ publications' = pubs /\ RestTypeOK /\ HeadChain
  BY DEF IInv, RestTypeOK, CompleteAndPublish
<1>2. \A p \in DOMAIN publications : publications[p].generation \in Nat
  <2>1. \A p \in DOMAIN publications : publications[p] \in Publication
    BY <1>1
  <2>. QED  BY <2>1 DEF Publication
<1>3. /\ new.job = j /\ new.attempt = token /\ new.result_key = result_key
      /\ new.generation = Generations(CaseOf[j], result_key) + 1
  <2>1. /\ heads[CaseOf[j]][result_key] # 0
             => heads[CaseOf[j]][result_key] \in DOMAIN publications
    <3>1. CaseOf[j] \in Cases
      BY SpecAssumption
    <3>. QED  BY <1>1, <3>1 DEF HeadChain, ResultOf
  <2>. QED  BY <1>2, <2>1 DEF NewPublication, Generations
<1>. HIDE DEF new
<1>4. /\ id \notin DOMAIN publications /\ DOMAIN pubs = DOMAIN publications \cup {id}
      /\ pubs[id] = new /\ \A p \in DOMAIN publications : pubs[p] = publications[p]
  BY <1>1
<1>5. /\ length \in Nat /\ chain \subseteq DOMAIN publications
      /\ \A p \in chain : publications[p].generation <= length
                          /\ publications[p].generation \in Nat
      /\ \A g \in 1..length : OfGen(chain, publications, g) # {}
  <2>1. chain \subseteq DOMAIN publications
    BY DEF ResultOf
  <2>. QED  BY <1>1, <1>2, <2>1, NoGenerationSkipped DEF OfGen, OfGeneration
<1>6. heads' = [heads EXCEPT ![CaseOf[j]][result_key] = id]
      /\ heads \in [Cases -> [ResultKeys -> Nat]]
  BY <1>1 DEF CompleteAndPublish, RestTypeOK
<1>. HIDE DEF pubs
<1>7. ASSUME NEW g \in 1..length
      PROVE  /\ OfGen(chain, pubs, g) = OfGen(chain, publications, g)
             /\ Entry(pubs, The(OfGen(chain, publications, g)))
                  = Entry(publications, The(OfGen(chain, publications, g)))
  <2>1. OfGen(chain, pubs, g) = OfGen(chain, publications, g)
    BY <1>4, <1>5 DEF OfGen
  <2>2. The(OfGen(chain, publications, g)) \in DOMAIN publications
    BY <1>5 DEF The, OfGen
  <2>. QED  BY <1>4, <2>1, <2>2 DEF Entry
<1>8. CASE ~(case = CaseOf[j] /\ k = result_key)
  <2>1. chain' = chain
    BY <1>1, <1>3, <1>4, <1>8 DEF ResultOf, CaseOfPublication
  <2>2. heads'[case][k] = heads[case][k]
    BY <1>6, <1>8
  <2>3. length' = length
    <3>1. heads[case][k] # 0 => heads[case][k] \in DOMAIN publications
      BY <1>1, <1>5 DEF HeadChain
    <3>. QED  BY <1>1, <1>4, <2>2, <3>1 DEF Generations
  <2>. HIDE DEF chain, length
  <2>4. LogIn(chain, pubs, length) = LogIn(chain, publications, length)
    BY <1>7 DEF LogIn
  <2>. QED  BY <1>1, <1>8, <2>1, <2>3, <2>4, LogIsEntries DEF chain, length
<1>9. CASE case = CaseOf[j] /\ k = result_key
  <2>1. chain' = chain \cup {id}
    BY <1>1, <1>3, <1>4, <1>9 DEF ResultOf, CaseOfPublication
  <2>2. length' = length + 1
    <3>1. heads'[case][k] = id /\ id # 0
      BY <1>1, <1>6, <1>9
    <3>. HIDE DEF id
    <3>. QED  BY <1>1, <1>3, <1>4, <1>9, <3>1 DEF Generations
  <2>3. ASSUME NEW g \in 1..length
        PROVE  OfGen(chain \cup {id}, pubs, g) = OfGen(chain, pubs, g)
    BY <1>3, <1>4, <1>5, <1>9 DEF OfGen
  <2>4. OfGen(chain \cup {id}, pubs, length + 1) = {id}
    BY <1>3, <1>4, <1>5, <1>9 DEF OfGen
  <2>5. Entry(pubs, The(OfGen(chain \cup {id}, pubs, length + 1)))
          = [job |-> j, epoch |-> token]
    <3>1. The({id}) = id
      BY DEF The
    <3>. QED  BY <1>3, <1>4, <2>4, <3>1 DEF Entry
  <2>. HIDE DEF chain, length, id
  <2>. DEFINE before == LogIn(chain, publications, length)
              after == LogIn(chain \cup {id}, pubs, length + 1)
              entry == [job |-> j, epoch |-> token]
  <2>6. /\ before = [g \in 1..length |-> before[g]]
        /\ \A g \in 1..length : after[g] = before[g]
    <3>1. \A g \in 1..length : g \in 1..(length + 1)
      BY <1>5
    <3>. QED  BY <1>7, <2>3, <3>1 DEF LogIn
  <2>7. after = [g \in 1..(length + 1) |-> after[g]] /\ after[length + 1] = entry
    BY <1>5, <2>5 DEF LogIn
  <2>. HIDE DEF before, after, entry
  <2>8. after = Append(before, entry)
    <3>1. Append(before, entry)
            = [g \in 1..(length + 1) |-> IF g = length + 1 THEN entry ELSE before[g]]
      BY <1>5, <2>6
    <3>2. \A g \in 1..(length + 1) : g # length + 1 => g \in 1..length
      BY <1>5
    <3>. QED  BY <2>6, <2>7, <3>1, <3>2
  <2>. QED
    BY <1>1, <1>9, <2>1, <2>2, <2>8, LogIsEntries DEF chain, length, before, after, entry
<1>. QED  BY <1>8, <1>9

(* What a step makes of a job's epoch, for values.                           *)
OpenIn(job) == job.state \notin Terminal /\ ~job.cancellation_requested

Retreats(job, job1) ==
  /\ job1.attempt_count = job.attempt_count
  /\ job1.state = "running" => job.state = "running"
  /\ OpenIn(job1) => OpenIn(job)

Grants(job, job1) ==
  /\ OpenIn(job)
  /\ job1.attempt_count = job.attempt_count + 1
  /\ job1.state = "running"
  /\ OpenIn(job1)

JobsWork == \A j \in Jobs : Retreats(jobs[j], jobs'[j]) \/ Grants(jobs[j], jobs'[j])

LEMMA ExpiryRetreats ==
  ASSUME NEW j \in Jobs, JobOK(j, jobs[j], attempts[j]), NEW now \in Instants
  PROVE  Retreats(jobs[j], AfterExpiry(j, now))
PROOF BY ExpiryOK DEF Retreats, OpenIn, Terminal

LEMMA FailedOverdueRetreats ==
  ASSUME NEW j \in Jobs, JobOK(j, jobs[j], attempts[j]), NEW now \in Instants
  PROVE  Retreats(jobs[j], FailedOverdue(j, now))
PROOF
<1>1. AfterExpiry(j, now) \in JobRecord
      /\ AfterExpiry(j, now).attempt_count = jobs[j].attempt_count
  BY ExpiryOK DEF JobOK
<1>2. FailedOverdue(j, now).state = "failed"
      /\ FailedOverdue(j, now).attempt_count = jobs[j].attempt_count
  BY <1>1 DEF FailedOverdue, JobRecord
<1>. QED  BY <1>2 DEF Retreats, OpenIn, Terminal

LEMMA ClaimGrants ==
  ASSUME NEW j \in Jobs, JobOK(j, jobs[j], attempts[j]), Requested(jobs[j]),
         NEW now \in Instants, NEW lease_for,
         AfterExpiry(j, now).state \in Waiting
  PROVE  Grants(jobs[j], Claimed(j, lease_for, now))
PROOF
<1>1. AfterExpiry(j, now) \in JobRecord
  BY ExpiryOK DEF JobOK
<1>2. /\ jobs[j].state \in Waiting \cup {"running"}
      /\ ~jobs[j].cancellation_requested
      /\ ~AfterExpiry(j, now).cancellation_requested
  BY WaitingAfterExpiry
<1>3. /\ Claimed(j, lease_for, now).state = "running"
      /\ Claimed(j, lease_for, now).attempt_count = jobs[j].attempt_count + 1
      /\ ~Claimed(j, lease_for, now).cancellation_requested
  BY <1>1, <1>2 DEF Claimed, JobRecord
<1>. QED  BY <1>2, <1>3 DEF Grants, OpenIn, Waiting, Terminal

LEMMA OneRetreat ==
  ASSUME JobsOK, NEW j \in Jobs, NEW job, jobs' = [jobs EXCEPT ![j] = job],
         Retreats(jobs[j], job)
  PROVE  JobsWork
PROOF BY DEF JobsOK, JobsWork, Retreats

LEMMA ClaimCallWorks ==
  ASSUME IInv, AllRequested, ClaimCall
  PROVE  JobsWork /\ SameLogs
PROOF
<1>1. \A i \in Jobs : JobOK(i, jobs[i], attempts[i]) /\ Requested(jobs[i])
  BY DEF IInv, JobsOK, AllRequested
<1>2. SameLogs
  BY DEF ClaimCall, ClaimNothing, Claim, SameLogs
<1>3. ASSUME NEW now \in Instants, NEW kinds, ClaimNothing(kinds, now)
      PROVE  JobsWork
  <2>1. \A i \in Jobs : jobs'[i] \in {FailedOverdue(i, now), AfterExpiry(i, now)}
    BY <1>3 DEF ClaimNothing
  <2>. QED  BY <1>1, <2>1, ExpiryRetreats, FailedOverdueRetreats DEF JobsWork
<1>4. ASSUME NEW now \in Instants, NEW kinds, NEW j \in Jobs, NEW passed,
             NEW lease_for, Claim(j, passed, kinds, lease_for, now)
      PROVE  JobsWork
  <2>1. /\ \A i \in Jobs \ {j} :
             jobs'[i] \in {FailedOverdue(i, now), AfterExpiry(i, now)}
        /\ jobs'[j] = Claimed(j, lease_for, now)
        /\ AfterExpiry(j, now).state \in Waiting
    BY <1>4 DEF Claim, TakenFirst, Eligible
  <2>2. ASSUME NEW i \in Jobs \ {j}  PROVE Retreats(jobs[i], jobs'[i])
    BY <1>1, <2>1, ExpiryRetreats, FailedOverdueRetreats
  <2>3. Grants(jobs[j], jobs'[j])
    BY <1>1, <2>1, ClaimGrants
  <2>. QED  BY <2>2, <2>3 DEF JobsWork
<1>. QED  BY <1>2, <1>3, <1>4 DEF ClaimCall

LEMMA ClientCallWorks ==
  ASSUME IInv, AllRequested, NEW j \in Jobs, ClientCall(j)
  PROVE  JobsWork /\ SameLogs
PROOF
<1>1. JobsOK /\ JobOK(j, jobs[j], attempts[j]) /\ Requested(jobs[j])
  BY DEF IInv, JobsOK, AllRequested
<1>2. SameLogs
  BY DEF ClientCall, Submit, RequestCancel, SameLogs
<1>3. ASSUME NEW now, NEW deadline, Submit(j, deadline, now)
      PROVE  JobsWork
  <2>. DEFINE job == [Absent EXCEPT !.state = "queued", !.deadline_at = deadline,
                                    !.available_at = now]
  <2>1. /\ job.state = "queued" /\ job.attempt_count = 0
        /\ ~job.cancellation_requested
    BY DEF Absent
  <2>2. /\ jobs[j].state = "absent" /\ jobs[j].attempt_count = 0
        /\ ~jobs[j].cancellation_requested
        /\ jobs' = [jobs EXCEPT ![j] = job]
    BY <1>1, <1>3 DEF Submit, JobOK, BudgetOK, Requested
  <2>. HIDE DEF job
  <2>3. Retreats(jobs[j], job)
    BY <2>1, <2>2 DEF Retreats, OpenIn, Terminal
  <2>. QED  BY <1>1, <2>2, <2>3, OneRetreat
<1>4. ASSUME NEW now \in Instants, RequestCancel(j, now)
      PROVE  JobsWork
  <2>. DEFINE expired == AfterExpiry(j, now)
              job == IF expired.state \in Terminal THEN expired
                     ELSE [expired EXCEPT !.cancellation_requested = TRUE,
                                          !.state = IF @ \in Waiting
                                                    THEN "cancelled" ELSE @]
  <2>1. Retreats(jobs[j], expired) /\ expired \in JobRecord
    BY <1>1, ExpiryRetreats, ExpiryOK DEF JobOK
  <2>. HIDE DEF expired
  <2>2. Retreats(jobs[j], job)
    <3>1. CASE expired.state \in Terminal
      BY <2>1, <3>1
    <3>2. CASE expired.state \notin Terminal
      <4>1. /\ job.cancellation_requested
            /\ job.attempt_count = expired.attempt_count
            /\ job.state = "running" => expired.state = "running"
        BY <2>1, <3>2 DEF JobRecord
      <4>. QED  BY <2>1, <4>1 DEF Retreats, OpenIn
    <3>. QED  BY <3>1, <3>2
  <2>3. jobs' = [jobs EXCEPT ![j] = job]
    BY <1>4 DEF RequestCancel, expired
  <2>. QED  BY <1>1, <2>2, <2>3, OneRetreat
<1>. QED  BY <1>2, <1>3, <1>4 DEF ClientCall

(* A call with a token that publishes nothing.                               *)
LEMMA TokenCallWorks ==
  ASSUME IInv, NEW j \in Jobs, NEW token, NEW now \in Instants,
         \/ RefuseLapsed(j, now)
         \/ \E lease_for \in LeaseTimes : Heartbeat(j, token, lease_for, now)
         \/ AcknowledgeCancel(j, token, now)
         \/ \E name \in Names, content \in Contents :
              StageOutput(j, token, name, content, now)
         \/ \E retry_delay \in RetryDelays : Fail(j, token, retry_delay, now)
  PROVE  JobsWork /\ SameLogs
PROOF
<1>1. JobsOK /\ JobOK(j, jobs[j], attempts[j]) /\ jobs[j] \in JobRecord
  BY DEF IInv, JobsOK, JobOK
<1>2. SameLogs
  BY DEF RefuseLapsed, Heartbeat, AcknowledgeCancel, StageOutput, Fail, SameLogs
<1>3. CASE RefuseLapsed(j, now)
  BY <1>1, <1>2, <1>3, ExpiryRetreats, OneRetreat DEF RefuseLapsed
<1>4. ASSUME NEW lease_for, Heartbeat(j, token, lease_for, now)
      PROVE  JobsWork
  <2>. DEFINE job == [jobs[j] EXCEPT !.lease.until = now + lease_for]
  <2>1. Retreats(jobs[j], job)
    BY <1>1 DEF JobRecord, Retreats, OpenIn
  <2>2. jobs' = [jobs EXCEPT ![j] = job]
    BY <1>4 DEF Heartbeat
  <2>. QED  BY <1>1, <2>1, <2>2, OneRetreat
<1>5. ASSUME AcknowledgeCancel(j, token, now)
      PROVE  JobsWork
  <2>. DEFINE job == [jobs[j] EXCEPT !.state = "cancelled", !.lease = NoLease]
  <2>1. job.state = "cancelled" /\ job.attempt_count = jobs[j].attempt_count
    BY <1>1 DEF JobRecord
  <2>2. jobs' = [jobs EXCEPT ![j] = job]
    BY <1>1, <1>5 DEF AcknowledgeCancel, JobsOK
  <2>. HIDE DEF job
  <2>3. Retreats(jobs[j], job)
    BY <2>1 DEF Retreats, OpenIn, Terminal
  <2>. QED  BY <1>1, <2>2, <2>3, OneRetreat
<1>6. ASSUME NEW name, NEW content, StageOutput(j, token, name, content, now)
      PROVE  JobsWork
  BY <1>6 DEF StageOutput, JobsWork, Retreats
<1>7. ASSUME NEW retry_delay, Fail(j, token, retry_delay, now)
      PROVE  JobsWork
  <2>. DEFINE state == FailedState(j, retry_delay, now)
              job == [jobs[j] EXCEPT !.state = state, !.lease = NoLease,
                                     !.available_at = now + retry_delay]
  <2>1. /\ job.state = state /\ job.attempt_count = jobs[j].attempt_count
        /\ job.cancellation_requested = jobs[j].cancellation_requested
    BY <1>1 DEF JobRecord
  <2>2. state \in {"cancelled", "retry_wait", "failed"}
    BY DEF FailedState
  <2>3. jobs' = [jobs EXCEPT ![j] = job] /\ jobs[j].state = "running"
    BY <1>1, <1>7 DEF Fail, HoldsLease, JobsOK
  <2>. HIDE DEF job, state
  <2>4. Retreats(jobs[j], job)
    BY <2>1, <2>2, <2>3 DEF Retreats, OpenIn, Terminal
  <2>. QED  BY <1>1, <2>3, <2>4, OneRetreat
<1>. QED  BY <1>2, <1>3, <1>4, <1>5, <1>6, <1>7

LEMMA TickWorks ==
  ASSUME IInv, Tick
  PROVE  JobsWork /\ SameLogs
PROOF
<1>1. \A j \in Jobs : jobs[j] \in JobRecord
  BY DEF IInv, JobsOK, JobOK
<1>2. JobsWork
  BY <1>1 DEF Tick, JobsWork, Retreats, OpenIn, JobRecord
<1>. QED  BY <1>2 DEF Tick, SameLogs

LEMMA CorrectionWorks ==
  ASSUME IInv, CorrectionCall
  PROVE  JobsWork /\ SameLogs
PROOF
<1>1. PICK case \in Cases, correction \in Corrections,
           dependency \in SourceRefs \cup PublishedRefs :
        RecordCorrection(case, correction, dependency)
  BY DEF CorrectionCall
<1>2. /\ DOMAIN publications' = DOMAIN publications
      /\ \A p \in DOMAIN publications :
           publications'[p] \in {publications[p], MarkedStale(p, correction)}
  BY <1>1 DEF RecordCorrection
<1>3. \A p \in DOMAIN publications : publications[p] \in Publication
  BY DEF IInv, RestTypeOK
<1>4. SameLogs
  BY <1>1, <1>2, <1>3 DEF RecordCorrection, SameLogs, MarkedStale, Publication
<1>. QED  BY <1>1, <1>4 DEF RecordCorrection, JobsWork, Retreats

(* Work of the jobs is Work of the promise, a publication is a Commit.       *)
LEMMA WorkKeepsThePromise ==
  ASSUME IInv, JobsWork, SameLogs
  PROVE  Promise!Work
PROOF
<1>1. \A r \in Results : LogOf(r[1], r[2])' = LogOf(r[1], r[2])
  BY LogStays DEF IInv, Results
<1>2. [r \in Results |-> LogOf(r[1], r[2])]' = [r \in Results |-> LogOf(r[1], r[2])]
  BY <1>1
<1>3. ASSUME NEW j \in Jobs, Retreats(jobs[j], jobs'[j])  PROVE Promise!Retreat(j)
  BY <1>3 DEF Retreats, OpenIn, Open, Promise!Retreat
<1>4. ASSUME NEW j \in Jobs, Grants(jobs[j], jobs'[j])  PROVE Promise!Grant(j)
  BY <1>4 DEF Grants, OpenIn, Open, Promise!Grant
<1>. QED  BY <1>2, <1>3, <1>4 DEF Promise!Work, JobsWork

LEMMA CompletionCommits ==
  ASSUME IInv, NEW j \in Jobs, NEW token, NEW result_key \in ResultKeys,
         NEW refs, NEW key, NEW now,
         CompleteAndPublish(j, token, result_key, refs, key, now)
  PROVE  Promise!Commit
PROOF
<1>. DEFINE job == [jobs[j] EXCEPT !.state = "succeeded", !.lease = NoLease,
                                   !.publication = Len(publications) + 1]
            r == <<CaseOf[j], result_key>>
            Log == [s \in Results |-> LogOf(s[1], s[2])]
            entry == [job |-> j, epoch |-> jobs[j].attempt_count]
<1>1. /\ JobsOK /\ jobs[j] \in JobRecord /\ jobs[j].state = "running"
      /\ ~jobs[j].cancellation_requested /\ token = jobs[j].attempt_count
      /\ jobs' = [jobs EXCEPT ![j] = job]
  BY DEF IInv, JobsOK, JobOK, LeaseOK, BudgetOK, CompleteAndPublish, HoldsLease
<1>2. job.state = "succeeded" /\ job.attempt_count = jobs[j].attempt_count
  BY <1>1 DEF JobRecord
<1>. HIDE DEF job
<1>3. jobs'[j] = job /\ \A i \in Jobs \ {j} : jobs'[i] = jobs[i]
  BY <1>1 DEF JobsOK
<1>4. r \in Results
  BY SpecAssumption DEF Results
<1>5. Log' = [Log EXCEPT ![r] = Append(@, entry)]
  <2>1. ASSUME NEW s \in Results
        PROVE  LogOf(s[1], s[2])' = IF s = r THEN Append(LogOf(s[1], s[2]), entry)
                                    ELSE LogOf(s[1], s[2])
    <3>1. /\ s[1] \in Cases /\ s[2] \in ResultKeys
          /\ s = r <=> s[1] = CaseOf[j] /\ s[2] = result_key
      BY DEF Results
    <3>2. entry = [job |-> j, epoch |-> token]
      BY <1>1
    <3>. HIDE DEF r, entry
    <3>3. PICK c \in Cases, k \in ResultKeys : c = s[1] /\ k = s[2]
      BY <3>1
    <3>4. LogOf(c, k)' = IF c = CaseOf[j] /\ k = result_key
                         THEN Append(LogOf(c, k), [job |-> j, epoch |-> token])
                         ELSE LogOf(c, k)
      BY LogAppends
    <3>. QED  BY <3>1, <3>2, <3>3, <3>4
  <2>. HIDE DEF r, entry
  <2>. QED  BY <1>4, <2>1
<1>6. Promise!Committed(j, r)
  <2>1. Open(j) /\ ~Open(j)' /\ jobs'[j].state # "running"
    BY <1>1, <1>2, <1>3 DEF Open, Terminal
  <2>. DEFINE epoch == [i \in Jobs |-> jobs[i].attempt_count]
              live == [i \in Jobs |-> jobs[i].state = "running"]
              open == [i \in Jobs |-> Open(i)]
  <2>2. open[j] /\ live[j] /\ epoch'[j] = epoch[j]
    BY <1>1, <1>2, <1>3, <2>1
  <2>3. live'[j] = FALSE /\ open'[j] = FALSE
    <3>1. (jobs'[j].state = "running") = FALSE /\ Open(j)' = FALSE
      BY <2>1
    <3>2. live'[j] = (jobs'[j].state = "running") /\ open'[j] = Open(j)'
      BY Zenon
    <3>. QED  BY <3>1, <3>2, Zenon
  <2>4. epoch[j] = jobs[j].attempt_count
    OBVIOUS
  <2>5. Log' = [Log EXCEPT ![r] = Append(@, [job |-> j, epoch |-> epoch[j]])]
    BY <1>5, <2>4
  <2>. QED  BY <2>2, <2>3, <2>5 DEF Promise!Committed
<1>7. \A i \in Jobs \ {j} : Promise!Stay(i)
  BY <1>3 DEF Promise!Stay, Open
<1>. QED  BY <1>4, <1>6, <1>7 DEF Promise!Commit

LEMMA NextKeepsThePromise ==
  ASSUME IInv, AllRequested, [Next]_vars
  PROVE  [Promise!Next]_(Promise!vars)
PROOF
<1>1. CASE UNCHANGED vars
  <2>1. SameLogs /\ JobsWork
    BY <1>1 DEF vars, SameLogs, JobsWork, Retreats
  <2>. QED  BY <2>1, WorkKeepsThePromise DEF Promise!Next
<1>2. CASE ClaimCall
  BY <1>2, ClaimCallWorks, WorkKeepsThePromise DEF Promise!Next
<1>3. ASSUME NEW j \in Jobs, ClientCall(j)  PROVE Promise!Next
  BY <1>3, ClientCallWorks, WorkKeepsThePromise DEF Promise!Next
<1>4. ASSUME NEW j \in Jobs, NEW token \in DOMAIN attempts[j], TokenCall(j, token)
      PROVE  Promise!Next
  <2>1. PICK now \in Instants :
          \/ RefuseLapsed(j, now)
          \/ \E lease_for \in LeaseTimes : Heartbeat(j, token, lease_for, now)
          \/ AcknowledgeCancel(j, token, now)
          \/ \E name \in Names, content \in Contents :
               StageOutput(j, token, name, content, now)
          \/ \E retry_delay \in RetryDelays : Fail(j, token, retry_delay, now)
          \/ \E result_key \in ResultKeys, refs \in DependencySets,
                key \in CompletionKeys :
               CompleteAndPublish(j, token, result_key, refs, key, now)
    BY <1>4 DEF TokenCall
  <2>2. CASE \E result_key \in ResultKeys, refs \in DependencySets,
                key \in CompletionKeys :
               CompleteAndPublish(j, token, result_key, refs, key, now)
    BY <2>2, CompletionCommits DEF Promise!Next
  <2>3. CASE ~(\E result_key \in ResultKeys, refs \in DependencySets,
                  key \in CompletionKeys :
                 CompleteAndPublish(j, token, result_key, refs, key, now))
    <3>1. JobsWork /\ SameLogs
      BY <2>1, <2>3, TokenCallWorks
    <3>. QED  BY <3>1, WorkKeepsThePromise DEF Promise!Next
  <2>. QED  BY <2>2, <2>3
<1>5. CASE CorrectionCall
  BY <1>5, CorrectionWorks, WorkKeepsThePromise DEF Promise!Next
<1>6. CASE Tick
  BY <1>6, TickWorks, WorkKeepsThePromise DEF Promise!Next
<1>. QED  BY <1>1, <1>2, <1>3, <1>4, <1>5, <1>6 DEF Next

(* The repository keeps the promise of FencedResults: whatever is claimed,   *)
(* lost, cancelled, retried or corrected, a result is committed only by the  *)
(* live epoch of an open job, once, and the log of a result only grows.      *)
THEOREM RepositoryKeepsThePromise == Spec => KeepsThePromise
PROOF
<1>1. Init => Promise!Init
  <2>1. SUFFICES ASSUME Init  PROVE Promise!Init
    OBVIOUS
  <2>2. \A j \in Jobs : jobs[j] = Absent
    BY <2>1 DEF Init
  <2>3. ASSUME NEW r \in Results  PROVE LogOf(r[1], r[2]) = <<>>
    <3>1. Generations(r[1], r[2]) = 0
      BY <2>1 DEF Init, Generations, Results
    <3>. QED  BY <3>1 DEF LogOf
  <2>4. \A j \in Jobs : /\ jobs[j].attempt_count = 0
                       /\ (jobs[j].state = "running") = FALSE
                       /\ Open(j) = TRUE
    BY <2>2 DEF Absent, Open, Terminal
  <2>5. /\ [j \in Jobs |-> jobs[j].attempt_count] = [j \in Jobs |-> 0]
        /\ [r \in Results |-> LogOf(r[1], r[2])] = [r \in Results |-> <<>>]
    BY <2>3, <2>4
  <2>6. /\ [j \in Jobs |-> jobs[j].state = "running"] = [j \in Jobs |-> FALSE]
        /\ [j \in Jobs |-> Open(j)] = [j \in Jobs |-> TRUE]
    BY <2>4, Zenon
  <2>. QED  BY <2>5, <2>6 DEF Promise!Init
<1>2. IInv /\ AllRequested /\ [Next]_vars => [Promise!Next]_(Promise!vars)
  BY NextKeepsThePromise
<1>. QED  BY <1>1, <1>2, IInvHolds, RequestedHolds, PTL DEF Spec, KeepsThePromise, Promise!Spec
===========================================================================
