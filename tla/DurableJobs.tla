---------------------------- MODULE DurableJobs ----------------------------
(* The durable-job repository of apps/api/jobs/repository.py: submission,    *)
(* claiming under expiring leases, heartbeats, cancellation, staging,        *)
(* failure and retry, atomic publication, and the staleness a correction     *)
(* propagates.  Every method body runs under one re-entrant lock, so a call  *)
(* is one step; but a method reads its instant BEFORE it takes the lock, so  *)
(* the instant a call works with may lie up to Lag ticks behind the clock.   *)
(*                                                                           *)
(* Time.  Every stored instant is kept as its distance from the clock: 0 is  *)
(* now, a positive number is in the future, and Tick moves all of them one   *)
(* tick into the past.  No call can tell instants at or below -Lag apart,    *)
(* so they are not aged further and the state space is finite without any    *)
(* bound on the clock.                                                       *)
(*                                                                           *)
(* Identity.  A job is the slot its (case_id, idempotency_key) opens: the    *)
(* repository maps that pair to one job for ever.  CaseOf, KindOf and        *)
(* MaxAttempts are the immutable parts of the slot's specification.  The     *)
(* token of an attempt is its index in attempts[j], a publication's          *)
(* identifier is its index in publications (both are fresh uuids in the      *)
(* code).                                                                    *)
(*                                                                           *)
(* A definition introduced by "Fault:" is a deliberately wrong variant of    *)
(* the definition after it.  No specification uses it; it exists to show     *)
(* that the properties can tell it from the right one.                       *)
EXTENDS Integers, Sequences, FiniteSets

CONSTANTS
  Jobs,            \* job slots: pairs (case_id, idempotency_key)
  Cases,           \* the cases
  CaseOf,          \* the case of a slot
  KindOf,          \* the job kind of a slot
  MaxAttempts,     \* the attempt budget of a slot
  Deadlines,       \* deadlines a submission may carry, relative to the clock
  LeaseTimes,      \* values of lease_for
  RetryDelays,     \* values of retry_delay
  Lag,             \* how far a call's instant may lie behind the clock
  Names,           \* output names
  Contents,        \* output contents: (object_uri, content_digest, metadata)
  ResultKeys,      \* logical results of a case
  CompletionKeys,  \* idempotency keys of a completion
  Sources,         \* versioned inputs that are not publications
  Corrections,     \* correction ids
  MaxDependencies, \* bound: dependencies one publication declares
  None             \* the null of the optional fields

ASSUME SpecAssumption ==
  /\ Jobs # {}
  /\ CaseOf \in [Jobs -> Cases]
  /\ DOMAIN KindOf = Jobs
  /\ MaxAttempts \in [Jobs -> Nat \ {0}]

ASSUME TimeAssumption ==
  /\ Lag \in Nat
  /\ LeaseTimes \subseteq Nat \ {0}
  /\ RetryDelays \subseteq Nat
  /\ Deadlines \subseteq Int \cup {None}

ASSUME NoneAssumption ==
  /\ None \notin Int
  /\ None \notin Contents
  /\ None \notin Corrections

ASSUME BoundAssumption == MaxDependencies \in Nat

Kinds == {KindOf[j] : j \in Jobs}

VARIABLES
  jobs,          \* _jobs with _idempotency: slot -> snapshot
  attempts,      \* _attempts with _staged: slot -> sequence of attempts
  publications,  \* _publications, in commit order
  heads,         \* _current_publication: case -> result key -> publication or 0
  receipts,      \* _completion_receipts
  impacts,       \* _impacts
  outbox         \* _outbox, as the set of intents written

vars == <<jobs, attempts, publications, heads, receipts, impacts, outbox>>

---------------------------------------------------------------------------
(* Data.                                                                     *)

Waiting == {"queued", "retry_wait"}
Terminal == {"succeeded", "failed", "cancelled"}
JobStates == {"absent", "running"} \cup Waiting \cup Terminal

(* What complete_and_publish may find in an attempt: the outputs staged.     *)
Outputs == [Names -> Contents \cup {None}]
NoOutputs == [name \in Names |-> None]

NoLease == [attempt |-> 0, until |-> -Lag]

Absent == [state |-> "absent", deadline_at |-> None, attempt_count |-> 0,
           available_at |-> -Lag, cancellation_requested |-> FALSE,
           lease |-> NoLease, publication |-> 0]

JobRecord ==
  [state : JobStates, deadline_at : Int \cup {None}, attempt_count : Nat,
   available_at : Int, cancellation_requested : BOOLEAN,
   lease : [attempt : Nat, until : Int], publication : Nat]

Outcomes == {"none", "lease_expired", "retry_wait"} \cup Terminal

Attempt == [number : Nat, outcome : Outcomes, staged : Outputs]

SourceRef(s) == [kind |-> "source", target |-> s]
PublicationRef(p) == [kind |-> "publication", target |-> p]

SourceRefs == {SourceRef(s) : s \in Sources}
Refs == [kind : {"source"}, target : Sources]
        \cup [kind : {"publication"}, target : Nat]

(* References to the publications that exist.                                *)
PublishedRefs == {PublicationRef(p) : p \in DOMAIN publications}

Publication ==
  [job : Jobs, attempt : Nat, result_key : ResultKeys, generation : Nat,
   outputs : Outputs, dependencies : SUBSET Refs,
   state : {"current", "stale"}, stale_by : Corrections \cup {None},
   supersedes : Nat]

Receipt == [job : Jobs, key : CompletionKeys, publication : Publication]

Impact == [case : Cases, correction : Corrections, publication : Nat,
           depth : Nat]

(* An outbox intent is a tuple: its event type (without the aggregate's      *)
(* prefix), the aggregate, and the attempt where the payload names one.      *)
Event == ({"submitted", "cancellation_requested"} \X Jobs)
         \cup ({"claimed", "retry_wait", "failed", "cancelled"} \X Jobs \X Nat)
         \cup ({"committed"} \X Nat)
         \cup ({"impact_recorded"} \X Cases \X Corrections)

(* The instants a call may have read before it took the lock.                *)
Instants == -Lag .. 0

(* A stored instant one tick later, seen from the clock.                     *)
Aged(instant) == IF instant > -Lag THEN instant - 1 ELSE instant

CaseOfPublication(p) == CaseOf[publications[p].job]

---------------------------------------------------------------------------
(* Lease expiry: the effect every lease-checked call has first.              *)

(* Fault: the comparison is one tick early.                                  *)
LapsedEarly(j, now) ==
  jobs[j].state = "running" /\ jobs[j].lease.until <= now + 1

Lapsed(j, now) == jobs[j].state = "running" /\ jobs[j].lease.until <= now

(* Fault: an exhausted job is put back.                                      *)
ExpiredStateIgnoringBudget(j) ==
  IF jobs[j].cancellation_requested THEN "cancelled" ELSE "retry_wait"

ExpiredState(j) ==
  IF jobs[j].cancellation_requested THEN "cancelled"
  ELSE IF jobs[j].attempt_count >= MaxAttempts[j] THEN "failed"
  ELSE "retry_wait"

AfterExpiry(j, now) ==
  IF Lapsed(j, now)
  THEN [jobs[j] EXCEPT !.state = ExpiredState(j),
                       !.lease = NoLease,
                       !.available_at = now]
  ELSE jobs[j]

(* The leased attempt of j, closed with the given outcome.                   *)
Finished(j, outcome) ==
  [attempts[j] EXCEPT ![jobs[j].lease.attempt].outcome = outcome]

(* Fault: the lapsed attempt stays unfinished.                               *)
AttemptsLeftOpen(j, now) == attempts[j]

AttemptsAfterExpiry(j, now) ==
  IF Lapsed(j, now) THEN Finished(j, "lease_expired") ELSE attempts[j]

(* Fault: an expiry writes no intent.                                        *)
SilentExpiry(j, now) == {}

ExpiryEvents(j, now) ==
  IF Lapsed(j, now)
  THEN {<<ExpiredState(j), j, jobs[j].lease.attempt>>}
  ELSE {}

(* Fault: the token is not compared.                                         *)
HoldsAnyLease(j, token, now) == jobs[j].state = "running" /\ ~Lapsed(j, now)

(* _require_lease: the lease is live at the call's instant and the token is  *)
(* the one it was granted with.                                              *)
HoldsLease(j, token, now) ==
  /\ jobs[j].state = "running"
  /\ ~Lapsed(j, now)
  /\ jobs[j].lease.attempt = token

---------------------------------------------------------------------------
(* Submission.                                                               *)

(* submit of a new specification.  A repeated submission of the slot returns *)
(* the existing job, or is refused when its specification differs: neither   *)
(* changes anything.                                                         *)
Submit(j, deadline, now) ==
  /\ jobs[j].state = "absent"
  /\ deadline # None => deadline > now
  /\ jobs' = [jobs EXCEPT ![j] = [Absent EXCEPT !.state = "queued",
                                                !.deadline_at = deadline,
                                                !.available_at = now]]
  /\ outbox' = outbox \cup {<<"submitted", j>>}
  /\ UNCHANGED <<attempts, publications, heads, receipts, impacts>>

---------------------------------------------------------------------------
(* Claiming.                                                                 *)

(* Fault: whatever does not run may be claimed.                              *)
EligibleUnlessRunning(kinds, now) ==
  {j \in Jobs : /\ AfterExpiry(j, now).state \notin {"absent", "running"}
                /\ AfterExpiry(j, now).available_at <= now
                /\ KindOf[j] \in kinds}

(* Fault: the retry delay is not looked at.                                  *)
EligibleAtOnce(kinds, now) ==
  {j \in Jobs : AfterExpiry(j, now).state \in Waiting /\ KindOf[j] \in kinds}

(* The jobs a claim considers once every lapsed lease has been expired.      *)
Eligible(kinds, now) ==
  {j \in Jobs : /\ AfterExpiry(j, now).state \in Waiting
                /\ AfterExpiry(j, now).available_at <= now
                /\ KindOf[j] \in kinds}

Overdue(j, now) == jobs[j].deadline_at # None /\ jobs[j].deadline_at <= now

AvailableSince(j, now) == AfterExpiry(j, now).available_at

(* claim walks the eligible jobs by available_at and takes the first one     *)
(* that is not overdue, failing the overdue ones it passes.  The code breaks *)
(* ties by created_at and job_id; here an overdue tie may be passed or not.  *)
TakenFirst(j, passed, kinds, now) ==
  LET earlier(i) == AvailableSince(i, now) < AvailableSince(j, now)
      tied(i) == AvailableSince(i, now) = AvailableSince(j, now)
  IN  /\ j \in Eligible(kinds, now)
      /\ ~Overdue(j, now)
      /\ \A i \in Eligible(kinds, now) : earlier(i) => i \in passed
      /\ \A i \in passed : /\ i \in Eligible(kinds, now)
                           /\ Overdue(i, now)
                           /\ earlier(i) \/ tied(i)

(* Fault: an overdue job is passed over and left waiting.                    *)
OverdueLeftWaiting(j, now) == AfterExpiry(j, now)

FailedOverdue(j, now) == [AfterExpiry(j, now) EXCEPT !.state = "failed"]

NewAttempt(j) == [number |-> jobs[j].attempt_count + 1, outcome |-> "none",
                  staged |-> NoOutputs]

(* The snapshot of j once its next attempt is claimed.                       *)
Claimed(j, lease_for, now) ==
  LET next == Len(attempts[j]) + 1
  IN  [AfterExpiry(j, now) EXCEPT
         !.state = "running",
         !.attempt_count = jobs[j].attempt_count + 1,
         !.lease = [attempt |-> next, until |-> now + lease_for]]

(* claim that finds a job: every lapsed lease is expired on the way.         *)
Claim(j, passed, kinds, lease_for, now) ==
  /\ TakenFirst(j, passed, kinds, now)
  /\ jobs' = [i \in Jobs |-> IF i = j THEN Claimed(i, lease_for, now)
                             ELSE IF i \in passed THEN FailedOverdue(i, now)
                             ELSE AfterExpiry(i, now)]
  /\ attempts' = [i \in Jobs |->
                    IF i = j
                    THEN Append(AttemptsAfterExpiry(i, now), NewAttempt(i))
                    ELSE AttemptsAfterExpiry(i, now)]
  /\ outbox' = outbox \cup (UNION {ExpiryEvents(i, now) : i \in Jobs})
                      \cup {<<"claimed", j, Len(attempts[j]) + 1>>}
  /\ UNCHANGED <<publications, heads, receipts, impacts>>

(* claim that returns None: every eligible job was overdue and failed.       *)
ClaimNothing(kinds, now) ==
  /\ \A j \in Eligible(kinds, now) : Overdue(j, now)
  /\ jobs' = [i \in Jobs |-> IF i \in Eligible(kinds, now)
                             THEN FailedOverdue(i, now)
                             ELSE AfterExpiry(i, now)]
  /\ attempts' = [i \in Jobs |-> AttemptsAfterExpiry(i, now)]
  /\ outbox' = outbox \cup (UNION {ExpiryEvents(i, now) : i \in Jobs})
  /\ UNCHANGED <<publications, heads, receipts, impacts>>

---------------------------------------------------------------------------
(* Calls of the worker that presents a token.                                *)

(* A lease-checked call that is refused because the lease has lapsed: the    *)
(* expiry it performed first stays.                                          *)
RefuseLapsed(j, now) ==
  /\ Lapsed(j, now)
  /\ jobs' = [jobs EXCEPT ![j] = AfterExpiry(j, now)]
  /\ attempts' = [attempts EXCEPT ![j] = AttemptsAfterExpiry(j, now)]
  /\ outbox' = outbox \cup ExpiryEvents(j, now)
  /\ UNCHANGED <<publications, heads, receipts, impacts>>

Heartbeat(j, token, lease_for, now) ==
  /\ HoldsLease(j, token, now)
  /\ jobs' = [jobs EXCEPT ![j].lease.until = now + lease_for]
  /\ UNCHANGED <<attempts, publications, heads, receipts, impacts, outbox>>

AcknowledgeCancel(j, token, now) ==
  /\ HoldsLease(j, token, now)
  /\ jobs[j].cancellation_requested
  /\ attempts' = [attempts EXCEPT ![j] = Finished(j, "cancelled")]
  /\ jobs' = [jobs EXCEPT ![j].state = "cancelled", ![j].lease = NoLease]
  /\ UNCHANGED <<publications, heads, receipts, impacts, outbox>>

(* stage_output of a new name.  Staging the same content again returns the   *)
(* staged output, staging another content under the name is refused.         *)
StageOutput(j, token, name, content, now) ==
  /\ HoldsLease(j, token, now)
  /\ ~jobs[j].cancellation_requested
  /\ attempts[j][token].staged[name] = None
  /\ attempts' = [attempts EXCEPT ![j][token].staged[name] = content]
  /\ UNCHANGED <<jobs, publications, heads, receipts, impacts, outbox>>

(* Fault: a requested cancellation is forgotten when the worker fails.       *)
FailedStateIgnoringCancel(j, retry_delay, now) ==
  IF jobs[j].attempt_count < MaxAttempts[j] THEN "retry_wait" ELSE "failed"

(* The state fail leaves the job in.                                         *)
FailedState(j, retry_delay, now) ==
  IF jobs[j].cancellation_requested THEN "cancelled"
  ELSE IF /\ jobs[j].attempt_count < MaxAttempts[j]
          /\ \/ jobs[j].deadline_at = None
             \/ now + retry_delay < jobs[j].deadline_at
  THEN "retry_wait"
  ELSE "failed"

Fail(j, token, retry_delay, now) ==
  LET state == FailedState(j, retry_delay, now)
  IN  /\ HoldsLease(j, token, now)
      /\ attempts' = [attempts EXCEPT ![j] = Finished(j, state)]
      /\ jobs' = [jobs EXCEPT ![j].state = state,
                              ![j].lease = NoLease,
                              ![j].available_at = now + retry_delay]
      /\ outbox' = outbox \cup {<<state, j, token>>}
      /\ UNCHANGED <<publications, heads, receipts, impacts>>

(* Fault: the attempt's number is taken for the generation.                  *)
NewPublicationByAttempt(j, token, result_key, dependencies) ==
  [job |-> j, attempt |-> token, result_key |-> result_key,
   generation |-> token, outputs |-> attempts[j][token].staged,
   dependencies |-> dependencies, state |-> "current", stale_by |-> None,
   supersedes |-> heads[CaseOf[j]][result_key]]

(* The publication that completing attempt token of j commits.               *)
NewPublication(j, token, result_key, dependencies) ==
  LET previous == heads[CaseOf[j]][result_key]
  IN  [job |-> j, attempt |-> token, result_key |-> result_key,
       generation |-> IF previous = 0 THEN 1
                      ELSE publications[previous].generation + 1,
       outputs |-> attempts[j][token].staged,
       dependencies |-> dependencies,
       state |-> "current", stale_by |-> None, supersedes |-> previous]

(* complete_and_publish that commits.  A call whose (job, completion_key)    *)
(* has a receipt returns the receipt's publication before any other check.   *)
CompleteAndPublish(j, token, result_key, dependencies, key, now) ==
  LET new == NewPublication(j, token, result_key, dependencies)
      id == Len(publications) + 1
  IN  /\ ~\E r \in receipts : r.job = j /\ r.key = key
      /\ HoldsLease(j, token, now)
      /\ ~jobs[j].cancellation_requested
      /\ attempts[j][token].staged # NoOutputs
      /\ publications' = Append(publications, new)
      /\ heads' = [heads EXCEPT ![CaseOf[j]][result_key] = id]
      /\ attempts' = [attempts EXCEPT ![j] = Finished(j, "succeeded")]
      /\ jobs' = [jobs EXCEPT ![j].state = "succeeded",
                              ![j].lease = NoLease,
                              ![j].publication = id]
      /\ receipts' = receipts \cup {[job |-> j, key |-> key, publication |-> new]}
      /\ outbox' = outbox \cup {<<"committed", id>>}
      /\ UNCHANGED impacts

---------------------------------------------------------------------------
(* Cancellation.  An overdue lease is expired first; a terminal job is       *)
(* returned as it is, a waiting one is cancelled at once, and a running one  *)
(* keeps its lease until the worker acknowledges, fails or lapses.           *)

RequestCancel(j, now) ==
  LET job == AfterExpiry(j, now)
  IN  /\ jobs[j].state # "absent"
      /\ jobs' = [jobs EXCEPT ![j] =
                    IF job.state \in Terminal THEN job
                    ELSE [job EXCEPT !.cancellation_requested = TRUE,
                                     !.state = IF @ \in Waiting
                                               THEN "cancelled" ELSE @]]
      /\ attempts' = [attempts EXCEPT ![j] = AttemptsAfterExpiry(j, now)]
      /\ outbox' = outbox \cup ExpiryEvents(j, now)
                     \cup (IF job.state \in Terminal THEN {}
                           ELSE {<<"cancellation_requested", j>>})
      /\ UNCHANGED <<publications, heads, receipts, impacts>>

---------------------------------------------------------------------------
(* Corrections.                                                              *)

(* Fault: dependents are not restricted to the correction's case.            *)
DependentsInAnyCase(case, refs) ==
  {p \in DOMAIN publications : publications[p].dependencies \cap refs # {}}

(* The publications of the case that declare one of refs as a dependency.    *)
Dependents(case, refs) ==
  {p \in DOMAIN publications :
     /\ CaseOfPublication(p) = case
     /\ publications[p].dependencies \cap refs # {}}

(* The breadth-first search of record_correction: wave n holds the           *)
(* publications that a dependency path of n publications leads to.  A        *)
(* publication depends on earlier ones only, so Len(publications) waves      *)
(* reach everything.                                                         *)
Wave(case, dependency) ==
  LET wave[n \in 0 .. Len(publications)] ==
        IF n = 0 THEN Dependents(case, {dependency})
        ELSE Dependents(case, {PublicationRef(p) : p \in wave[n - 1]})
  IN  wave

(* Fault: the search stops after one step through publications.              *)
ImpactedNearby(case, dependency) ==
  Dependents(case, {dependency} \cup
    {PublicationRef(p) : p \in Dependents(case, {dependency})})

Impacted(case, dependency) ==
  {p \in DOMAIN publications :
     \E n \in 0 .. Len(publications) : p \in Wave(case, dependency)[n]}

(* The impact rows: each impacted publication at the depth of the first      *)
(* wave that reaches it.                                                     *)
ImpactRows(case, correction, dependency) ==
  {row \in [case : {case}, correction : {correction},
            publication : Impacted(case, dependency),
            depth : 0 .. Len(publications)] :
     /\ row.publication \in Wave(case, dependency)[row.depth]
     /\ \A n \in 0 .. row.depth - 1 :
          row.publication \notin Wave(case, dependency)[n]}

(* Fault: the latest correction replaces the first cause.                    *)
MarkedByLatest(p, correction) ==
  [publications[p] EXCEPT !.state = "stale", !.stale_by = correction]

MarkedStale(p, correction) ==
  [publications[p] EXCEPT !.state = "stale",
                          !.stale_by = IF @ = None THEN correction ELSE @]

(* record_correction of a correction that has no impact yet; with impacts on *)
(* record it returns them and changes nothing.                               *)
RecordCorrection(case, correction, dependency) ==
  /\ ~\E i \in impacts : i.case = case /\ i.correction = correction
  /\ UNCHANGED <<jobs, attempts, heads, receipts>>
  /\ outbox' = outbox \cup {<<"impact_recorded", case, correction>>}
  /\ publications' =
       [p \in DOMAIN publications |->
          IF p \in Impacted(case, dependency)
          THEN MarkedStale(p, correction)
          ELSE publications[p]]
  /\ impacts' = impacts \cup ImpactRows(case, correction, dependency)

---------------------------------------------------------------------------
(* The passing of time: every stored instant moves one tick into the past.   *)

Tick ==
  /\ jobs' = [j \in Jobs |->
                [jobs[j] EXCEPT !.available_at = Aged(@),
                                !.deadline_at = IF @ = None THEN None ELSE Aged(@),
                                !.lease.until = Aged(@)]]
  /\ UNCHANGED <<attempts, publications, heads, receipts, impacts, outbox>>

---------------------------------------------------------------------------
Init ==
  /\ jobs = [j \in Jobs |-> Absent]
  /\ attempts = [j \in Jobs |-> <<>>]
  /\ publications = <<>>
  /\ heads = [case \in Cases |-> [key \in ResultKeys |-> 0]]
  /\ receipts = {}
  /\ impacts = {}
  /\ outbox = {}

(* The dependency sets a completion may declare.                             *)
DependencySets ==
  {refs \in SUBSET (SourceRefs \cup PublishedRefs) :
     Cardinality(refs) <= MaxDependencies}

ClaimCall ==
  \E now \in Instants, kinds \in SUBSET Kinds :
    \/ ClaimNothing(kinds, now)
    \/ \E j \in Jobs, passed \in SUBSET Jobs, lease_for \in LeaseTimes :
         Claim(j, passed, kinds, lease_for, now)

(* A call that presents the token of attempt token of j.                     *)
TokenCall(j, token) ==
  \E now \in Instants :
    \/ RefuseLapsed(j, now)
    \/ \E lease_for \in LeaseTimes : Heartbeat(j, token, lease_for, now)
    \/ AcknowledgeCancel(j, token, now)
    \/ \E name \in Names, content \in Contents :
         StageOutput(j, token, name, content, now)
    \/ \E retry_delay \in RetryDelays : Fail(j, token, retry_delay, now)
    \/ \E result_key \in ResultKeys, refs \in DependencySets,
          key \in CompletionKeys :
         CompleteAndPublish(j, token, result_key, refs, key, now)

ClientCall(j) ==
  \E now \in Instants :
    \/ \E deadline \in Deadlines : Submit(j, deadline, now)
    \/ RequestCancel(j, now)

CorrectionCall ==
  \E case \in Cases, correction \in Corrections,
     dependency \in SourceRefs \cup PublishedRefs :
    RecordCorrection(case, correction, dependency)

Next ==
  \/ ClaimCall
  \/ \E j \in Jobs : ClientCall(j) \/ \E token \in DOMAIN attempts[j] :
                                        TokenCall(j, token)
  \/ CorrectionCall
  \/ Tick

Spec == Init /\ [][Next]_vars
===========================================================================
