-------------------------- MODULE ReviewSession --------------------------
(* One analyst's session on the page: the case under review, the settings    *)
(* of its analysis with their version, the review journey and the preflight  *)
(* of the report, and the model runs.  From apps/web/app.mjs, the workflows  *)
(* of packages/guided-workflow (harbor-lantern, financial-fraud, dojo-karate-*)
(* split and the imported one of transaction-import) and the scenes of       *)
(* packages/graph-renderer/bloom-exploration.mjs.                            *)
(*                                                                           *)
(* Views, texts, the step index, the selection and settings that only change *)
(* the view are left out; of the filters, one or two per case.  A definition *)
(* introduced by "Fault:" is a deliberately wrong variant of the one after.  *)
EXTENDS Naturals, FiniteSets

CONSTANTS
  NoImport,    \* no import was applied
  NoRun,       \* no model run is shown
  HasAccounts, \* texts with an account that takes part in a transaction
  DeviceRows,  \* the kinds of the transactions of a text with a device or a place
  MaxVersion   \* bound on the versions of an analysis

VARIABLES
  useCase,      \* activeUseCase
  imported,     \* importedFraudWorkflow: the preview it was made from
  settings,     \* the analytical settings
  version,      \* analysisVersion
  journey,      \* the marks of the review: the journey and findingReady
  preflightRun, \* the preflight passed and nothing undid it
  run           \* the case that the model runs at hand are about, or NoRun

session == <<useCase, imported, settings, version, journey, preflightRun, run>>

UseCases == {"harbor", "fraud", "dojo"}
Marks == {"evidence", "reasoning", "alternative", "acknowledged", "finding"}

Filters(case) ==
  {"all"} \cup (CASE case = "harbor" -> {"transfers"}
                  [] case = "fraud" -> {"transfers", "infrastructure"}
                  [] case = "dojo" -> {"bridge"})

(* The recommended settings.  Only the financial cases have a setting for    *)
(* infrastructure; "unset" in the others.                                    *)
Defaults(case) ==
  [alias |-> TRUE, filter |-> "all",
   window |-> CASE case = "harbor" -> 30 [] case = "fraud" -> 3 [] case = "dojo" -> 8,
   infra |-> IF case = "fraud" THEN "shown" ELSE "unset"]

Opened(case) ==
  /\ settings' = Defaults(case)
  /\ version' = 1 /\ journey' = {} /\ preflightRun' = FALSE

SessionInit ==
  /\ useCase = "harbor" /\ imported = NoImport
  /\ settings = Defaults("harbor") /\ version = 1
  /\ journey = {} /\ preflightRun = FALSE /\ run = NoRun

(* activeWorkflow: the case in force, an import in place of the fraud case.  *)
ActiveCase ==
  IF useCase = "fraud" /\ imported # NoImport THEN <<"imported", imported>>
  ELSE <<useCase>>

-----------------------------------------------------------------------------
(* Analyses.                                                                 *)

(* Whether visible relationships touch a device or a place: they are the     *)
(* infrastructure events of the embedded case.                               *)
EmbeddedInfrastructure == settings.infra = "shown" /\ settings.filter # "transfers"

(* In an import any kind of transaction may be with a device, and only those *)
(* of the kind "infrastructure" are hidden with it.                          *)
ImportedInfrastructure == \E kind \in DeviceRows[imported.draft.text] :
  /\ kind = "infrastructure" => settings.infra = "shown"
  /\ settings.filter \in {"all", kind}

CanSeeInfrastructure ==
  IF imported = NoImport THEN EmbeddedInfrastructure ELSE ImportedInfrastructure

(* runPreflight of the workflows, besides the marks: the report has neutral  *)
(* language and dependencies.  The short window, or leaving out the alias,   *)
(* takes the neutral words out of the harbor report; hidden bridges take     *)
(* every dependency of a report on bridges; an import needs accounts.        *)
NeutralAssessment == settings.alias /\ settings.window # 14

BridgesHidden == ~settings.alias /\ settings.filter = "bridge"

ImportPasses == imported.draft.text \in HasAccounts

FraudPasses == imported = NoImport \/ ImportPasses

DojoPasses == ~BridgesHidden

PreflightPasses ==
  /\ journey = Marks
  /\ CASE useCase = "harbor" -> NeutralAssessment
       [] useCase = "dojo" -> DojoPasses
       [] useCase = "fraud" -> FraudPasses

-----------------------------------------------------------------------------
(* Settings.                                                                 *)

Keep == UNCHANGED <<useCase, imported, journey, run>>

(* Fault: the preflight outlives a change of the settings.                   *)
AdjustedOnly(new) ==
  /\ version < MaxVersion
  /\ settings' = new /\ version' = version + 1
  /\ UNCHANGED preflightRun

(* New analytical settings make a new version and undo the preflight.        *)
Adjusted(new) ==
  /\ version < MaxVersion
  /\ settings' = new /\ version' = version + 1 /\ preflightRun' = FALSE

AdjustedIfNew(new) ==
  IF new = settings THEN UNCHANGED <<settings, version, preflightRun>>
  ELSE Adjusted(new)

(* changeSetting: in the financial cases the infrastructure follows the      *)
(* checkbox.                                                                 *)
ChangeAlias ==
  /\ Adjusted([settings EXCEPT
       !.alias = ~@,
       !.infra = IF useCase # "fraud" THEN @
                 ELSE IF settings.alias THEN "hidden" ELSE "shown"])
  /\ Keep

ChangeWindow == \E days \in {14, 30} :
  AdjustedIfNew([settings EXCEPT !.window = days]) /\ Keep

ChangeFilter == \E filter \in Filters(useCase) :
  AdjustedIfNew([settings EXCEPT !.filter = filter]) /\ Keep

(* Labels, spacing, styles and splits: a changed view undoes the preflight   *)
(* too, without a new version.                                               *)
ChangeView ==
  preflightRun' = FALSE /\ UNCHANGED <<settings, version>> /\ Keep

(* The recommended split does not go through updateSetting, and leaves the   *)
(* preflight as it is.                                                       *)
ApplyRecommendedSplit == UNCHANGED session

(* Scenes.  The dojo case is offered the harbor's.                           *)
ApplyFlowScene ==
  /\ useCase = "fraud"
  /\ AdjustedIfNew([settings EXCEPT !.filter = "transfers"]) /\ Keep

ApplyInfrastructureScene ==
  /\ useCase = "fraud" /\ CanSeeInfrastructure
  /\ AdjustedIfNew([settings EXCEPT !.filter = "all", !.infra = "shown"]) /\ Keep

ApplyOpenScene == AdjustedIfNew([settings EXCEPT !.filter = "all"]) /\ Keep

(* Fault: a scene is reset without a new version.                            *)
RestoredInPlace(new) ==
  settings' = new /\ UNCHANGED <<version, preflightRun>>

SceneRestored(new) == AdjustedIfNew(new)

ResetScene ==
  /\ SceneRestored([settings EXCEPT
       !.filter = Defaults(useCase).filter, !.infra = Defaults(useCase).infra])
  /\ Keep

(* The other cases use resetAnalysis of harbor-lantern, with its defaults.   *)
Restored ==
  LET defaults == Defaults(IF useCase = "fraud" THEN "fraud" ELSE "harbor")
  IN [defaults EXCEPT !.infra = IF useCase = "fraud" THEN @ ELSE settings.infra]

ResetAnalysis ==
  /\ settings' = Restored /\ preflightRun' = FALSE
  /\ IF settings = Restored THEN UNCHANGED version
     ELSE version < MaxVersion /\ version' = version + 1
  /\ Keep

-----------------------------------------------------------------------------
(* The review.                                                               *)

Marked(marks) ==
  /\ journey' = journey \cup marks
  /\ UNCHANGED <<useCase, imported, settings, version, preflightRun, run>>

SelectRelationship == Marked({"evidence"})

InspectReasoning == Marked({"reasoning", "alternative"})

(* The dojo case has none of the steps that review alternatives.             *)
ChangeStep == useCase # "dojo" /\ Marked({"alternative"})

MarkFinding == Marked({"finding"})

Acknowledge ==
  /\ journey' = journey \cup {"acknowledged"} /\ preflightRun' = FALSE
  /\ UNCHANGED <<useCase, imported, settings, version, run>>

RunPreflight ==
  /\ preflightRun' = PreflightPasses
  /\ UNCHANGED <<useCase, imported, settings, version, journey, run>>

(* runLocalModelTraining: harbor has no model and clears the run.            *)
Train ==
  /\ run' = IF useCase = "harbor" THEN NoRun ELSE ActiveCase
  /\ journey' = journey \cup
       (CASE useCase = "harbor" -> {}
          [] useCase = "fraud" -> {"reasoning"}
          [] useCase = "dojo" -> {"reasoning", "alternative"})
  /\ UNCHANGED <<useCase, imported, settings, version, preflightRun>>

-----------------------------------------------------------------------------
(* Another case.                                                             *)

SwitchUseCase(case) ==
  /\ useCase' = case /\ Opened(case) /\ run' = NoRun
  /\ UNCHANGED imported

(* Fault: the runs about the case before stay on the page.                   *)
KeptRun == run

ClearedRun == NoRun

OpenImport(preview) ==
  /\ useCase' = "fraud" /\ imported' = preview
  /\ Opened("fraud") /\ run' = ClearedRun

(* A reload starts over, with the import found in the local storage.         *)
Reload(stored) ==
  /\ useCase' = "harbor" /\ imported' = stored
  /\ Opened("harbor") /\ run' = NoRun

SessionStep ==
  \/ ChangeAlias \/ ChangeWindow \/ ChangeFilter
  \/ ChangeView \/ ApplyRecommendedSplit
  \/ ApplyFlowScene \/ ApplyInfrastructureScene \/ ApplyOpenScene
  \/ ResetScene \/ ResetAnalysis
  \/ SelectRelationship \/ InspectReasoning \/ ChangeStep \/ MarkFinding
  \/ Acknowledge \/ RunPreflight \/ Train
===========================================================================
