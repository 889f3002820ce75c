---------------------------- MODULE ModelGates ----------------------------
(* What a predictive model is tried with: packages/predictive/               *)
(* model-gates.mjs (leakage, temporal folds, red team) and                   *)
(* production-readiness.mjs (calibration, artifact, promotion).  Instants    *)
(* are numbers, 0 when there is none and Invalid when a text cannot be read; *)
(* scores and rates are whole percents; floating point and the decimals that *)
(* the code rounds a bin's means to are left out.  The gate panel's thresholds *)
(* (382-436), reasons and labels are not modelled.  A definition introduced  *)
(* by "Fault:" is a deliberately wrong variant of the definition after it.   *)
EXTENDS Integers, Sequences, FiniteSets, FiniteSetsExt

CONSTANTS
  Invalid,        \* an instant that cannot be parsed
  NoNumber,       \* a score or a label that is not a finite number
  Fields,         \* the instants of a dependency
  Scenarios,      \* the red-team scenarios
  MaxRank,        \* the rank each of them allows
  MaxCalibration  \* the calibration error allowed, in percent

ASSUME GateAssumption ==
  /\ Invalid \in Int /\ Invalid < 0
  /\ NoNumber \notin Int
  /\ MaxCalibration \in Nat

-----------------------------------------------------------------------------
(* Leakage: what the prediction could not have known.                        *)

LeakageViolations(dependencies, predictionTime) ==
  LET late(t) == predictionTime # Invalid /\ t > predictionTime
  IN {v \in dependencies \X Fields :
        LET t == v[1][v[2]] IN t # 0 /\ (t = Invalid \/ late(t))}

LeakageSafe(dependencies, predictionTime) ==
  /\ predictionTime # Invalid
  /\ LeakageViolations(dependencies, predictionTime) = {}

-----------------------------------------------------------------------------
(* Temporal folds.  An event is named by its position among the events.      *)

(* Fault: a fold trains on what it is validated with.                        *)
KnownAfter(events, until, horizon) ==
  {i \in DOMAIN events : events[i] # Invalid /\ events[i] <= until + horizon}

KnownBy(events, until, horizon) ==
  {i \in DOMAIN events : events[i] # Invalid /\ events[i] <= until}

(* The three folds shown when there are no dated events know nothing.        *)
BuildTemporalFolds(events, horizon, step, window) ==
  LET dated == {events[i] : i \in DOMAIN events} \ {Invalid}
      first == Min(dated) + window
      count == IF Max(dated) <= first THEN 0
               ELSE (Max(dated) - first + step - 1) \div step
      fold(until) == [trainUntil |-> until, validateFrom |-> until,
                      validateUntil |-> until + horizon,
                      population |-> KnownBy(events, until, horizon)]
  IN IF dated = {}
     THEN [k \in 1..3 |-> [trainUntil |-> 0, validateFrom |-> 0, validateUntil |-> 0,
                           population |-> {}]]
     ELSE [k \in 1..count |-> fold(first + (k - 1) * step)]

-----------------------------------------------------------------------------
(* Calibration: computeCalibrationCurve.                                     *)

Counted(p) == p.score # NoNumber /\ p.label # NoNumber

Clamped(score) == IF score < 0 THEN 0 ELSE IF score > 100 THEN 100 ELSE score

(* By how much a score is above its label.                                   *)
Excess(p) == Clamped(p.score) - 100 * p.label

BinCount(asked) == IF asked < 2 THEN 2 ELSE asked

(* A score on a boundary is in the bin above it, a score of 100 in the last. *)
BinOf(score, bins) ==
  LET b == (Clamped(score) * bins) \div 100 + 1 IN IF b > bins THEN bins ELSE b

(* For each bin its count times its mean score less its rate of labels.      *)
Tally(predictions, bins) ==
  LET tally[n \in 0..Len(predictions)] ==
        IF n = 0 THEN [b \in 1..bins |-> 0]
        ELSE IF ~Counted(predictions[n]) THEN tally[n - 1]
        ELSE [tally[n - 1] EXCEPT ![BinOf(predictions[n].score, bins)] =
                @ + Excess(predictions[n])]
  IN tally[Len(predictions)]

(* Fault: a bin with more labels than its scores say makes up for another.   *)
SignedGap(excess) == excess

Gap(excess) == IF excess < 0 THEN -excess ELSE excess

SumTo(f, m) ==
  LET sum[b \in 0..m] == IF b = 0 THEN 0 ELSE sum[b - 1] + f[b] IN sum[m]

Total(predictions) == Cardinality({i \in DOMAIN predictions : Counted(predictions[i])})

(* The expected calibration error, times the number of predictions.          *)
CalibrationError(predictions, bins) ==
  LET tally == Tally(predictions, bins)
  IN SumTo([b \in 1..bins |-> Gap(tally[b])], bins)

CalibrationPassed(predictions, asked) ==
  /\ Total(predictions) > 0
  /\ CalibrationError(predictions, BinCount(asked))
       <= MaxCalibration * Total(predictions)

-----------------------------------------------------------------------------
(* Promotion of a trained artifact.                                          *)

(* A score that is missing counts as rank 0.                                 *)
RedTeamPassed(scores) ==
  \A s \in DOMAIN scores \cap Scenarios : scores[s] <= MaxRank[s]

ProviderPassed(provider) ==
  /\ provider.named /\ provider.endpoint /\ ~provider.secrets
  /\ provider.closedPolicy /\ provider.approvedMode

(* Missing are the required fields that the manifest lacks.                  *)
ArtifactPassed(manifest) ==
  /\ manifest.missing = {}
  /\ LeakageSafe(manifest.dependencies, manifest.predictionTime)
  /\ CalibrationPassed(manifest.predictions, manifest.bins)
  /\ RedTeamPassed(manifest.redTeam)

EligibleForPilot(manifest) ==
  /\ ArtifactPassed(manifest) /\ ProviderPassed(manifest.provider)
  /\ manifest.overreliance /\ ~manifest.prohibitedTarget
===========================================================================
