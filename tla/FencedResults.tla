--------------------------- MODULE FencedResults ---------------------------
(* What the durable-job contract promises about results, without leases,     *)
(* clocks, retries or storage (the decision and rationale of ADR 0009): a    *)
(* job is worked on under a fencing epoch, at most one epoch at a time; a    *)
(* commit needs the live epoch of a job that is still open, closes the job   *)
(* and appends one entry to one result log.  Logs only grow.  Each job may   *)
(* take one step of its own in a transition, because one claim expires every *)
(* lapsed lease of the repository.                                           *)
EXTENDS Integers, Sequences

CONSTANTS
  Jobs,      \* job slots
  Results    \* result logs: one per case and result key

VARIABLES
  epoch,     \* how many fencing epochs each job was granted
  live,      \* whether the job's last epoch is live
  open,      \* whether the job may still commit a result
  log        \* the results committed, oldest first

vars == <<epoch, live, open, log>>

Init ==
  /\ epoch = [j \in Jobs |-> 0]
  /\ live = [j \in Jobs |-> FALSE]
  /\ open = [j \in Jobs |-> TRUE]
  /\ log = [r \in Results |-> <<>>]

Stay(j) ==
  /\ epoch'[j] = epoch[j]
  /\ live'[j] = live[j]
  /\ open'[j] = open[j]

(* A new epoch: the previous one, live or not, is fenced off.                *)
Grant(j) ==
  /\ open[j]
  /\ epoch'[j] = epoch[j] + 1
  /\ live'[j] = TRUE
  /\ open'[j] = TRUE

(* The live epoch ends without a result, or the job is closed, or both.      *)
Retreat(j) ==
  /\ epoch'[j] = epoch[j]
  /\ live'[j] => live[j]
  /\ open'[j] => open[j]

Committed(j, r) ==
  /\ open[j] /\ live[j]
  /\ epoch'[j] = epoch[j]
  /\ live'[j] = FALSE
  /\ open'[j] = FALSE
  /\ log' = [log EXCEPT ![r] = Append(@, [job |-> j, epoch |-> epoch[j]])]

(* Jobs take new epochs, lose them or are closed; no log changes.            *)
Work ==
  /\ \A j \in Jobs : Stay(j) \/ Grant(j) \/ Retreat(j)
  /\ UNCHANGED log

(* One job commits; nothing else moves.                                      *)
Commit ==
  \E j \in Jobs, r \in Results :
    /\ Committed(j, r)
    /\ \A i \in Jobs \ {j} : Stay(i)

Next == Work \/ Commit

Spec == Init /\ [][Next]_vars
===========================================================================
