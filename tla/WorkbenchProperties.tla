----------------------- MODULE WorkbenchProperties ------------------------
(* What should hold of a review on the workbench, and why it might not.      *)
EXTENDS Workbench

(* A report shown as having passed its preflight would pass it now: no       *)
(* change of settings, scenes or view, no reset, other case, import or       *)
(* reload leaves the mark on a review that would fail.                       *)
PreflightHolds == preflightRun => PreflightPasses

(* "Analysis v3" names one analysis: within a case every change of its       *)
(* analytical settings raises the version, whichever control, scene or reset *)
(* made it, and a case that is opened, or an import that takes its place,    *)
(* starts from its recommended settings with an empty review and without the *)
(* model runs about what was there before.                                   *)
Reopened ==
  /\ version' = 1 /\ settings' = Defaults(useCase')
  /\ journey' = {} /\ ~preflightRun' /\ run' = NoRun

VersionNamesSettings ==
  [][settings' # settings \/ ActiveCase' # ActiveCase =>
       Reopened \/ (ActiveCase' = ActiveCase /\ version' > version)]_vars

(* What is labelled as a built-in sample or a registry's slice is that text: *)
(* the draft, its preview, the import under review and the stored one; and   *)
(* the preview shown is the one of the draft shown.                          *)
LabelIsTrue(d) ==
  d.label # "manual" => d \in Samples \cup {DemoSlice}

ProvenanceIsTrue ==
  /\ LabelIsTrue(draft)
  /\ \A p \in {preview, imported, stored} \ {NoPreview, NoImport} :
       LabelIsTrue(p.draft) /\ p = PreviewOf(p.draft)
  /\ preview # NoPreview => preview.draft = draft

(* The preview, the import and the stored one account for every row of their *)
(* text once, and accept a row just if it is valid and the first of its id,  *)
(* so that a rejected row keeps later ones of its id out.                    *)
RowsAreAccounted ==
  \A p \in {preview, imported, stored} \ {NoPreview, NoImport} :
    LET rows == RowsOf[p.draft.text][p.draft.format]
    IN rows # NotParsed =>
         /\ p.accepted \cup p.rejected = DOMAIN rows
         /\ p.accepted =
              {i \in DOMAIN rows :
                 rows[i].valid /\ \A j \in 1..(i - 1) : rows[j].id # rows[i].id}
         /\ p.accepted \cap p.rejected = {}

(* "Recommended analysis restored as v" (app.mjs:2045): a reset gives the    *)
(* case its own recommended settings.                                        *)
ResetRestoresDefaults == [][ResetAnalysis => settings' = Defaults(useCase)]_vars
===========================================================================
