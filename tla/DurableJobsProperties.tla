----------------------- MODULE DurableJobsProperties -----------------------
(* What the durable-job repository must keep true.  State invariants first,  *)
(* then what a step may never do, then the abstract specification it         *)
(* implements, then what must eventually happen.                             *)
EXTENDS DurableJobs

(* Every variable has its type.                                              *)
TypeOK ==
  /\ jobs \in [Jobs -> JobRecord]
  /\ attempts \in [Jobs -> Seq(Attempt)]
  /\ publications \in Seq(Publication)
  /\ heads \in [Cases -> [ResultKeys -> Nat]]
  /\ receipts \subseteq Receipt
  /\ impacts \subseteq Impact
  /\ outbox \subseteq Event

Unfinished(j) == {n \in DOMAIN attempts[j] : attempts[j][n].outcome = "none"}

(* At most one attempt of a job is unfinished, it is the last one, and it is *)
(* the one the job's active lease names; a job without a lease has none.     *)
(* Claiming, expiry, failure, cancellation and completion each update the    *)
(* job and its attempt in separate assignments.                              *)
OneLiveAttempt ==
  \A j \in Jobs :
    IF jobs[j].state = "running"
    THEN /\ Unfinished(j) = {jobs[j].lease.attempt}
         /\ jobs[j].lease.attempt = Len(attempts[j])
    ELSE Unfinished(j) = {} /\ jobs[j].lease = NoLease

(* The attempt counter counts the attempts, never passes the budget, a       *)
(* queued job was never attempted, and a job that waits for a worker has an  *)
(* attempt left: claim does not look at the budget, it relies on expiry and  *)
(* fail never to leave an exhausted job waiting.                             *)
WithinBudget ==
  \A j \in Jobs :
    /\ jobs[j].attempt_count = Len(attempts[j])
    /\ jobs[j].attempt_count <= MaxAttempts[j]
    /\ jobs[j].state \in Waiting => jobs[j].attempt_count < MaxAttempts[j]
    /\ jobs[j].state \in {"absent", "queued"} => jobs[j].attempt_count = 0
    /\ \A n \in DOMAIN attempts[j] : attempts[j][n].number = n

(* A publication is the work of its job's last attempt and of no other: that *)
(* attempt succeeded, its staged outputs are what was published and can no   *)
(* longer change, and the job has no second publication.  A worker whose     *)
(* lease was taken over can therefore never have published.                  *)
PublishedByWinner ==
  /\ \A p \in DOMAIN publications :
       LET pub == publications[p]
       IN  /\ jobs[pub.job].publication = p
           /\ pub.attempt = Len(attempts[pub.job])
           /\ pub.attempt # 0
           /\ attempts[pub.job][pub.attempt].outcome = "succeeded"
           /\ attempts[pub.job][pub.attempt].staged = pub.outputs
           /\ pub.outputs # NoOutputs
  /\ \A j \in Jobs :
       IF jobs[j].state = "succeeded"
       THEN jobs[j].publication \in DOMAIN publications
       ELSE jobs[j].publication = 0

(* The publications of one logical result.                                   *)
ResultOf(case, key) ==
  {p \in DOMAIN publications : /\ CaseOfPublication(p) = case
                               /\ publications[p].result_key = key}

(* The publications of a result form one chain: the head is the newest, each *)
(* supersedes the one committed just before it, and generations count 1, 2,  *)
(* ... along the chain, so no two publications share a generation.           *)
HeadChain ==
  \A case \in Cases, key \in ResultKeys :
    LET chain == ResultOf(case, key)
        head == heads[case][key]
    IN  /\ IF chain = {} THEN head = 0
           ELSE head \in chain /\ \A p \in chain : p <= head
        /\ \A p \in chain :
             LET previous == publications[p].supersedes
             IN  /\ \A q \in chain : q < p => q <= previous
                 /\ IF previous = 0 THEN publications[p].generation = 1
                    ELSE /\ previous \in chain
                         /\ previous < p
                         /\ publications[p].generation
                              = publications[previous].generation + 1

(* Every stale publication has the impact row that made it stale, an impact  *)
(* row names a publication of the correction's own case and a correction     *)
(* reports a publication once, and a row at depth n + 1 hangs from a row at  *)
(* depth n through a declared dependency: the evidence explains itself.      *)
ImpactEvidence ==
  /\ \A p \in DOMAIN publications :
       LET pub == publications[p]
           rows == {i \in impacts : i.publication = p}
       IN  IF pub.state = "stale"
           THEN \E i \in rows : i.correction = pub.stale_by
           ELSE rows = {} /\ pub.stale_by = None
  /\ \A i \in impacts :
       /\ i.publication \in DOMAIN publications
       /\ CaseOfPublication(i.publication) = i.case
       /\ i.depth > 0 =>
            \E k \in impacts :
              /\ k.case = i.case /\ k.correction = i.correction
              /\ k.depth = i.depth - 1
              /\ PublicationRef(k.publication)
                   \in publications[i.publication].dependencies
       /\ \A k \in impacts :
            (k.case = i.case /\ k.correction = i.correction
               /\ k.publication = i.publication) => k = i

(* The outbox tells the truth about attempts and publications: exactly the   *)
(* attempts that exist were announced as claimed, exactly the publications   *)
(* that exist as committed, and every attempt that lapsed or failed has its  *)
(* event, including an expiry performed by a call that was then refused.     *)
OutboxTellsTheTruth ==
  /\ \A e \in outbox :
       /\ e[1] = "claimed" => e[3] \in DOMAIN attempts[e[2]]
       /\ e[1] = "committed" => e[2] \in DOMAIN publications
  /\ \A p \in DOMAIN publications : <<"committed", p>> \in outbox
  /\ \A j \in Jobs : \A n \in DOMAIN attempts[j] : <<"claimed", j, n>> \in outbox
  /\ \A j \in Jobs : \A n \in DOMAIN attempts[j] :
       attempts[j][n].outcome \in {"lease_expired", "retry_wait", "failed"}
         => \E type \in {"retry_wait", "failed", "cancelled"} :
              <<type, j, n>> \in outbox

---------------------------------------------------------------------------
(* What a step may never do.                                                 *)

(* Once cancellation is requested the job never publishes, stages nothing    *)
(* more and is never given to another worker, whichever way its current      *)
(* attempt ends: acknowledged, failed with budget left, or lapsed.           *)
CancelFence ==
  [][\A j \in Jobs : jobs[j].cancellation_requested =>
       /\ jobs'[j].state \in {jobs[j].state, "cancelled"}
       /\ jobs'[j].cancellation_requested
       /\ Len(attempts'[j]) = Len(attempts[j])
       /\ \A n \in DOMAIN attempts[j] :
            attempts'[j][n].staged = attempts[j][n].staged]_vars

(* A job that succeeded, failed or was cancelled is never claimed, failed,   *)
(* cancelled or published again, and its attempts are history.               *)
TerminalIsFinal ==
  [][\A j \in Jobs : jobs[j].state \in Terminal =>
       /\ jobs'[j].state = jobs[j].state
       /\ jobs'[j].publication = jobs[j].publication
       /\ jobs'[j].cancellation_requested = jobs[j].cancellation_requested
       /\ attempts'[j] = attempts[j]]_vars

(* A worker loses its lease by expiry only after the lease has really run    *)
(* out: the instants that calls work with lie behind the clock, never ahead, *)
(* and a renewal is respected.                                               *)
LeaseHonoured ==
  [][\A j \in Jobs : \A n \in DOMAIN attempts[j] :
       (/\ attempts[j][n].outcome = "none"
        /\ attempts'[j][n].outcome = "lease_expired")
         => jobs[j].lease.until <= 0]_vars

(* A waiting job starts an attempt only when its retry delay has passed and  *)
(* no later than Lag ticks after its deadline.                               *)
StartsInItsWindow ==
  [][\A j \in Jobs :
       (jobs[j].state \in Waiting /\ Len(attempts'[j]) > Len(attempts[j]))
         => /\ jobs[j].available_at <= 0
            /\ jobs[j].deadline_at # None => jobs[j].deadline_at > -Lag]_vars

(* Staleness is permanent and keeps its first cause, and nothing else of a   *)
(* publication ever changes.                                                 *)
StalenessIsPermanent ==
  [][\A p \in DOMAIN publications :
       /\ p \in DOMAIN publications'
       /\ publications[p].state = "stale" => publications'[p] = publications[p]
       /\ [publications'[p] EXCEPT !.state = "current", !.stale_by = None]
            = [publications[p] EXCEPT !.state = "current", !.stale_by = None]]_vars

(* The publications a correction has reported on.                            *)
Reported(rows, case, correction) ==
  {i.publication : i \in {r \in rows : r.case = case /\ r.correction = correction}}

(* A correction reports, at depth 0, what declares the corrected dependency  *)
(* and, at each next depth, what declares a publication of the depth before  *)
(* and is not reported nearer: every publication that rests on the corrected *)
(* one over some chain, at the length of its shortest chain, and no other;   *)
(* and it leaves them all stale.                                             *)
CorrectionReachesAll ==
  [][\A case \in Cases, correction \in Corrections,
        dependency \in SourceRefs \cup PublishedRefs :
       RecordCorrection(case, correction, dependency) =>
         LET at(n) == Reported({i \in impacts' : i.depth = n}, case, correction)
         IN  /\ at(0) = Dependents(case, {dependency})
             /\ \A n \in 0 .. Len(publications) :
                  at(n + 1) = Dependents(case, {PublicationRef(p) : p \in at(n)})
                                \ UNION {at(k) : k \in 0 .. n}
             /\ \A p \in Reported(impacts', case, correction) :
                  publications'[p].state = "stale"]_vars

---------------------------------------------------------------------------
(* What the decision record claims and the code does not do.                 *)

(* "Retry is allowed only while both the attempt budget and deadline permit  *)
(* it": no attempt that ends after the deadline puts its job back to         *)
(* waiting.  The deadline is past for every instant a call may have read.    *)
RetryWithinDeadline ==
  [][\A j \in Jobs :
       (jobs[j].state = "running" /\ jobs'[j].state = "retry_wait")
         => jobs[j].deadline_at = None \/ jobs[j].deadline_at > -Lag]_vars

---------------------------------------------------------------------------
(* The promise of FencedResults, kept through this mapping: an epoch is an   *)
(* attempt, it is live while the job runs, a job is open until it is         *)
(* terminal or its cancellation is requested, and the log of a result is its *)
(* publications in the order of their generations.                           *)
Results == Cases \X ResultKeys

OfGeneration(case, key, g) ==
  {p \in ResultOf(case, key) : publications[p].generation = g}

Generations(case, key) ==
  IF heads[case][key] = 0 THEN 0 ELSE publications[heads[case][key]].generation

LogOf(case, key) ==
  LET at(g) == CHOOSE p \in OfGeneration(case, key, g) : TRUE
  IN  [g \in 1 .. Generations(case, key) |->
         [job |-> publications[at(g)].job, epoch |-> publications[at(g)].attempt]]

Open(j) == jobs[j].state \notin Terminal /\ ~jobs[j].cancellation_requested

Promise == INSTANCE FencedResults WITH
  epoch <- [j \in Jobs |-> jobs[j].attempt_count],
  live <- [j \in Jobs |-> jobs[j].state = "running"],
  open <- [j \in Jobs |-> Open(j)],
  log <- [r \in Results |-> LogOf(r[1], r[2])]

(* The repository implements FencedResults.                                  *)
KeepsThePromise == Promise!Spec

---------------------------------------------------------------------------
(* Liveness.  Time passes, and some worker keeps polling for every kind with *)
(* a fresh instant.                                                          *)

Poll ==
  \/ ClaimNothing(Kinds, 0)
  \/ \E j \in Jobs, passed \in SUBSET Jobs, lease_for \in LeaseTimes :
       Claim(j, passed, Kinds, lease_for, 0)

PolledSpec == Spec /\ WF_vars(Tick) /\ WF_vars(Poll)

Renewal ==
  \E j \in Jobs : \E token \in DOMAIN attempts[j] :
    \E lease_for \in LeaseTimes, now \in Instants :
      Heartbeat(j, token, lease_for, now)

(* Besides, no lease is renewed for ever: a worker ends its attempt, loses   *)
(* its token or dies.                                                        *)
FairSpec == PolledSpec /\ <>[][~Renewal]_vars

(* Every submitted job ends: lapsed leases come back through the polls of    *)
(* other workers, each costs an attempt, and the budget is finite.           *)
EventuallyTerminal ==
  \A j \in Jobs :
    (jobs[j].state # "absent") ~> (jobs[j].state \in Terminal)
===========================================================================
