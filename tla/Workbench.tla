---------------------------- MODULE Workbench -----------------------------
(* The page of apps/web/app.mjs: one analyst's session, the import desk      *)
(* beside it and the local storage they share.  JavaScript runs one handler  *)
(* at a time; a handler is a step.                                           *)
EXTENDS ReviewSession, ImportDesk

vars == <<session, desk>>

Init == SessionInit /\ DeskInit

OtherCase == \E case \in UseCases : SwitchUseCase(case) /\ UNCHANGED desk

(* The desk is shown with the fraud case only.                               *)
DeskStep ==
  /\ useCase = "fraud"
  /\ LoadSample \/ ChangeFormat \/ TypeText \/ Preview
  /\ UNCHANGED session

LoadDatasetDemo == SwitchUseCase("fraud") /\ LoadDemo

ApplyImport == useCase = "fraud" /\ Apply /\ OpenImport(preview)

(* createImportedFraudWorkflow makes the workflow of the stored preview, if  *)
(* there is one.                                                             *)
ReloadPage ==
  /\ ReloadDesk
  /\ Reload(IF stored = NoPreview THEN NoImport ELSE stored)

Next ==
  \/ SessionStep /\ UNCHANGED desk
  \/ OtherCase \/ DeskStep \/ LoadDatasetDemo \/ ApplyImport \/ ReloadPage

Spec == Init /\ [][Next]_vars
===========================================================================
