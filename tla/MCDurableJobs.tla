--------------------------- MODULE MCDurableJobs ---------------------------
(* Instances of the durable-job repository for model checking.               *)
EXTENDS DurableJobsProperties, TLC

CONSTANTS j1, j2, j3, j4, c1, c2, analysis, report

(* One case, one kind.                                                       *)
OneCase == [j \in Jobs |-> c1]
OneKind == [j \in Jobs |-> analysis]

(* Attempt budgets: two each, one each, or one for j1 and two for the rest.  *)
TwoAttempts == [j \in Jobs |-> 2]
OneAttempt == [j \in Jobs |-> 1]
MixedAttempts == [j \in Jobs |-> IF j = j1 THEN 1 ELSE 2]

(* Two kinds: the last job of the instance is a report.                      *)
TwoKinds == [j \in Jobs |-> IF j = j1 THEN report ELSE analysis]

(* Jobs of one case, kind and budget are alike, and so are correction ids.   *)
Alike == Permutations(Jobs) \cup Permutations(Corrections)
===========================================================================
