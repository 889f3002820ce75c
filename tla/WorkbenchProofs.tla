-------------------------- MODULE WorkbenchProofs --------------------------
(* Machine-checked proofs about a review on the workbench, for every set of  *)
(* texts, samples and previews and every bound on the versions.              *)
EXTENDS WorkbenchProperties, DataLemmas

-----------------------------------------------------------------------------
(* A passed preflight still passes.                                          *)

CaseIsKnown == useCase \in UseCases

LEMMA CaseKept == CaseIsKnown /\ [Next]_vars => CaseIsKnown'
PROOF
<1>. SUFFICES ASSUME CaseIsKnown, [Next]_vars  PROVE  CaseIsKnown'
  OBVIOUS
<1>1. ASSUME useCase' = useCase  PROVE  CaseIsKnown'
  BY <1>1 DEF CaseIsKnown
<1>2. ASSUME SessionStep  PROVE  useCase' = useCase
  BY <1>2 DEF SessionStep, ChangeAlias, ChangeWindow, ChangeFilter, ChangeView,
              ApplyRecommendedSplit, session,
              ApplyFlowScene, ApplyInfrastructureScene, ApplyOpenScene, ResetScene,
              ResetAnalysis, SelectRelationship, InspectReasoning, ChangeStep,
              MarkFinding, Acknowledge, RunPreflight, Train, Marked, Keep
<1>3. ASSUME OtherCase \/ LoadDatasetDemo \/ ApplyImport \/ ReloadPage
      PROVE  CaseIsKnown'
  BY <1>3 DEF OtherCase, LoadDatasetDemo, ApplyImport, ReloadPage, SwitchUseCase,
              OpenImport, Reload, CaseIsKnown, UseCases
<1>. QED
  BY <1>1, <1>2, <1>3 DEF Next, DeskStep, vars, session

LEMMA PreflightKept == CaseIsKnown /\ PreflightHolds /\ [Next]_vars => PreflightHolds'
PROOF
<1>. SUFFICES ASSUME CaseIsKnown, PreflightHolds, [Next]_vars  PROVE  PreflightHolds'
  OBVIOUS
(* Either a step clears the mark, or it keeps all that the preflight reads,  *)
(* except that the review may gain marks.                                    *)
<1>1. ASSUME UNCHANGED <<useCase, imported, settings, preflightRun>>,
             journey' = journey \/ \E marks \in SUBSET Marks : journey' = journey \cup marks
      PROVE  PreflightHolds'
  BY <1>1 DEF PreflightHolds, PreflightPasses, NeutralAssessment, FraudPasses,
              ImportPasses, DojoPasses, BridgesHidden
<1>2. ASSUME ~preflightRun'  PROVE  PreflightHolds'
  BY <1>2 DEF PreflightHolds
<1>3. ASSUME ChangeAlias \/ ChangeView \/ ResetAnalysis \/ Acknowledge
      PROVE  PreflightHolds'
  BY <1>2, <1>3 DEF ChangeAlias, ChangeView, ResetAnalysis, Acknowledge, Adjusted
<1>4. ASSUME \/ ChangeWindow \/ ChangeFilter \/ ApplyFlowScene
             \/ ApplyInfrastructureScene \/ ApplyOpenScene \/ ResetScene
      PROVE  PreflightHolds'
  <2>1. Keep /\ \E new : AdjustedIfNew(new)
    BY <1>4 DEF ChangeWindow, ChangeFilter, ApplyFlowScene, ApplyInfrastructureScene,
                ApplyOpenScene, ResetScene, SceneRestored
  <2>2. ~preflightRun' \/ UNCHANGED <<settings, preflightRun>>
    BY <2>1 DEF AdjustedIfNew, Adjusted
  <2>. QED  BY <1>1, <1>2, <2>1, <2>2 DEF Keep
<1>5. ASSUME SelectRelationship \/ InspectReasoning \/ ChangeStep \/ MarkFinding
      PROVE  PreflightHolds'
  BY <1>1, <1>5 DEF SelectRelationship, InspectReasoning, ChangeStep, MarkFinding,
                    Marked, Marks
<1>6. ASSUME RunPreflight  PROVE  PreflightHolds'
  BY <1>6 DEF RunPreflight, PreflightHolds, PreflightPasses, NeutralAssessment,
              FraudPasses, ImportPasses, DojoPasses, BridgesHidden
<1>7. ASSUME Train  PROVE  PreflightHolds'
  <2>1. \E marks \in SUBSET Marks : journey' = journey \cup marks
    BY <1>7 DEF Train, Marks, CaseIsKnown, UseCases
  <2>. QED  BY <1>1, <1>7, <2>1 DEF Train
<1>8. ASSUME OtherCase \/ LoadDatasetDemo \/ ApplyImport \/ ReloadPage
      PROVE  PreflightHolds'
  BY <1>2, <1>8 DEF OtherCase, LoadDatasetDemo, ApplyImport, ReloadPage,
                    SwitchUseCase, OpenImport, Reload, Opened
<1>9. ASSUME DeskStep \/ ApplyRecommendedSplit \/ UNCHANGED vars  PROVE  PreflightHolds'
  BY <1>1, <1>9 DEF DeskStep, ApplyRecommendedSplit, vars, session
<1>. QED
  BY <1>3, <1>4, <1>5, <1>6, <1>7, <1>8, <1>9 DEF Next, SessionStep

(* A report shown as having passed its preflight would pass it now           *)
(* (app.mjs:2096-2103 with runPreflight of the workflows).                   *)
THEOREM PassedPreflightsHold == Spec => []PreflightHolds
PROOF
<1>1. Init => CaseIsKnown /\ PreflightHolds
  BY DEF Init, SessionInit, PreflightHolds, CaseIsKnown, UseCases
<1>. QED  BY <1>1, CaseKept, PreflightKept, PTL DEF Spec

-----------------------------------------------------------------------------
(* A version names one analysis.                                             *)

VersionIsNat == version \in Nat

LEMMA VersionStep == VersionIsNat /\ [Next]_vars =>
  /\ VersionIsNat'
  /\ settings' # settings \/ ActiveCase' # ActiveCase =>
       Reopened \/ (ActiveCase' = ActiveCase /\ version' > version)
PROOF
<1>. DEFINE Named == settings' # settings \/ ActiveCase' # ActiveCase =>
                       Reopened \/ (ActiveCase' = ActiveCase /\ version' > version)
<1>. SUFFICES ASSUME VersionIsNat, [Next]_vars  PROVE  VersionIsNat' /\ Named
  OBVIOUS
<1>1. ASSUME UNCHANGED <<useCase, imported>>,
             UNCHANGED <<settings, version>> \/ version' = version + 1
      PROVE  VersionIsNat' /\ Named
  <2>1. ActiveCase' = ActiveCase
    BY <1>1 DEF ActiveCase
  <2>2. version \in Nat /\ version + 1 \in Nat /\ version + 1 > version
    BY DEF VersionIsNat
  <2>. QED  BY <1>1, <2>1, <2>2 DEF VersionIsNat
<1>2. ASSUME NEW case, useCase' = case, Opened(case), run' = NoRun
      PROVE  VersionIsNat' /\ Named
  BY <1>2 DEF Opened, Reopened, VersionIsNat
<1>. HIDE DEF Named
<1>3. ASSUME ChangeAlias \/ ChangeView \/ ResetAnalysis
      PROVE  VersionIsNat' /\ Named
  BY <1>1, <1>3 DEF ChangeAlias, ChangeView, ResetAnalysis, Adjusted, Keep
<1>4. ASSUME \/ ChangeWindow \/ ChangeFilter \/ ApplyFlowScene
             \/ ApplyInfrastructureScene \/ ApplyOpenScene \/ ResetScene
      PROVE  VersionIsNat' /\ Named
  <2>1. Keep /\ \E new : AdjustedIfNew(new)
    BY <1>4 DEF ChangeWindow, ChangeFilter, ApplyFlowScene, ApplyInfrastructureScene,
                ApplyOpenScene, ResetScene, SceneRestored
  <2>2. version' = version + 1 \/ UNCHANGED <<settings, version>>
    BY <2>1 DEF AdjustedIfNew, Adjusted
  <2>. QED  BY <1>1, <2>1, <2>2 DEF Keep
<1>5. ASSUME \/ SelectRelationship \/ InspectReasoning \/ ChangeStep \/ MarkFinding
             \/ Acknowledge \/ RunPreflight \/ Train
      PROVE  VersionIsNat' /\ Named
  BY <1>1, <1>5 DEF SelectRelationship, InspectReasoning, ChangeStep, MarkFinding,
                    Marked, Acknowledge, RunPreflight, Train
<1>6. ASSUME OtherCase \/ LoadDatasetDemo \/ ApplyImport \/ ReloadPage
      PROVE  VersionIsNat' /\ Named
  <2>1. \E case : useCase' = case /\ Opened(case) /\ run' = NoRun
    BY <1>6 DEF OtherCase, LoadDatasetDemo, ApplyImport, ReloadPage,
                SwitchUseCase, OpenImport, Reload, ClearedRun
  <2>. QED  BY <1>2, <2>1
<1>7. ASSUME DeskStep \/ ApplyRecommendedSplit \/ UNCHANGED vars
      PROVE  VersionIsNat' /\ Named
  BY <1>1, <1>7 DEF DeskStep, ApplyRecommendedSplit, vars, session
<1>. QED
  BY <1>3, <1>4, <1>5, <1>6, <1>7 DEF Next, SessionStep

(* Within a case, different analytical settings have different versions, and *)
(* a case or an import that is opened starts its review afresh               *)
(* (app.mjs:1440-1461, 1506-1532, 1635-1653, 1996-2046).                     *)
THEOREM VersionsNameSettings == Spec => VersionNamesSettings
PROOF
<1>1. Init => VersionIsNat
  BY DEF Init, SessionInit, VersionIsNat
<1>2. VersionIsNat /\ [Next]_vars => VersionIsNat'
  BY VersionStep
<1>3. VersionIsNat /\ [Next]_vars =>
        [settings' # settings \/ ActiveCase' # ActiveCase =>
           Reopened \/ (ActiveCase' = ActiveCase /\ version' > version)]_vars
  BY VersionStep
<1>. QED  BY <1>1, <1>2, <1>3, PTL DEF Spec, VersionNamesSettings

-----------------------------------------------------------------------------
(* Provenance.                                                               *)

PreviewIsTrue(p) == LabelIsTrue(p.draft) /\ p = PreviewOf(p.draft)

(* A draft has the fields of one, so that a change of its label shows.       *)
DraftInv ==
  /\ DOMAIN draft = DOMAIN BlankDraft
  /\ ProvenanceIsTrue

LEMMA PreviewOfDraft ==
  ASSUME NEW d, LabelIsTrue(d)
  PROVE  PreviewIsTrue(PreviewOf(d)) /\ PreviewOf(d).draft = d
PROOF
<1>1. PreviewOf(d).draft = d
  BY DEF PreviewOf
<1>. QED  BY <1>1 DEF PreviewIsTrue

LEMMA DraftStep == DraftInv /\ [Next]_vars => DraftInv'
PROOF
<1>. SUFFICES ASSUME DraftInv, [Next]_vars  PROVE  DraftInv'
  OBVIOUS
<1>0. /\ DOMAIN draft = DOMAIN BlankDraft /\ LabelIsTrue(draft)
      /\ \A p \in {preview, imported, stored} \ {NoPreview, NoImport} : PreviewIsTrue(p)
      /\ preview # NoPreview => preview.draft = draft
  BY DEF DraftInv, ProvenanceIsTrue, PreviewIsTrue
<1>1. DOMAIN BlankDraft = {"text", "format", "label"}
  BY DEF BlankDraft
<1>2. ASSUME DOMAIN draft' = DOMAIN BlankDraft, LabelIsTrue(draft'),
             \A p \in {preview', imported', stored'} \ {NoPreview, NoImport} :
               PreviewIsTrue(p),
             preview' # NoPreview => preview'.draft = draft'
      PROVE  DraftInv'
  BY <1>2 DEF DraftInv, ProvenanceIsTrue, PreviewIsTrue, LabelIsTrue
(* A draft that is a sample, or whose label says that a user made it.        *)
<1>3. ASSUME NEW d, Drafted(d), imported' = imported,
             DOMAIN d = DOMAIN BlankDraft,
             d \in Samples \cup {DemoSlice} \/ d.label = "manual"
      PROVE  DraftInv'
  BY <1>0, <1>2, <1>3 DEF Drafted, LabelIsTrue
<1>4. ASSUME LoadSample \/ ChangeFormat \/ TypeText, UNCHANGED session
      PROVE  DraftInv'
  <2>1. imported' = imported
    BY <1>4 DEF session
  <2>2. ASSUME LoadSample  PROVE  DraftInv'
    BY <1>3, <2>1, <2>2, DeskAssumption DEF LoadSample
  <2>3. ASSUME NEW f, Drafted([draft EXCEPT !.format = f, !.label = "manual"])
        PROVE  DraftInv'
    <3>. DEFINE d == [draft EXCEPT !.format = f, !.label = "manual"]
    <3>1. DOMAIN d = DOMAIN BlankDraft /\ d.label = "manual"
      BY <1>0, <1>1
    <3>. HIDE DEF d
    <3>2. Drafted(d)
      BY <2>3 DEF d
    <3>. QED  BY <1>3, <2>1, <3>1, <3>2
  <2>4. ASSUME NEW text, Drafted([draft EXCEPT !.text = text, !.label = "manual"])
        PROVE  DraftInv'
    <3>. DEFINE d == [draft EXCEPT !.text = text, !.label = "manual"]
    <3>1. DOMAIN d = DOMAIN BlankDraft /\ d.label = "manual"
      BY <1>0, <1>1
    <3>. HIDE DEF d
    <3>2. Drafted(d)
      BY <2>4 DEF d
    <3>. QED  BY <1>3, <2>1, <3>1, <3>2
  <2>. QED  BY <1>4, <2>2, <2>3, <2>4 DEF ChangeFormat, TypeText, LabelTyped
<1>5. ASSUME Preview, UNCHANGED session  PROVE  DraftInv'
  <2>1. PreviewIsTrue(PreviewOf(draft)) /\ PreviewOf(draft).draft = draft
    BY <1>0, PreviewOfDraft
  <2>. QED  BY <1>0, <1>2, <1>5, <2>1 DEF Preview, session
<1>6. ASSUME LoadDatasetDemo  PROVE  DraftInv'
  BY <1>3, <1>6, DeskAssumption DEF LoadDatasetDemo, LoadDemo, SwitchUseCase
<1>7. ASSUME ApplyImport  PROVE  DraftInv'
  BY <1>0, <1>2, <1>7 DEF ApplyImport, Apply, Applicable, OpenImport
<1>8. ASSUME ReloadPage  PROVE  DraftInv'
  <2>1. DOMAIN draft' = DOMAIN BlankDraft /\ draft'.label = "manual"
    BY <1>0, <1>1, <1>8 DEF ReloadPage, ReloadDesk, BlankDraft
  <2>. QED  BY <1>0, <1>2, <1>8, <2>1 DEF ReloadPage, ReloadDesk, Reload, LabelIsTrue
<1>9. ASSUME UNCHANGED desk, UNCHANGED imported  PROVE  DraftInv'
  BY <1>0, <1>2, <1>9 DEF desk
<1>10. ASSUME SessionStep, UNCHANGED desk  PROVE  DraftInv'
  <2>1. imported' = imported
    BY <1>10 DEF SessionStep, ChangeAlias, ChangeWindow, ChangeFilter, ChangeView,
                 ApplyRecommendedSplit, session,
                 ApplyFlowScene, ApplyInfrastructureScene, ApplyOpenScene, ResetScene,
                 ResetAnalysis, SelectRelationship, InspectReasoning, ChangeStep,
                 MarkFinding, Acknowledge, RunPreflight, Train, Marked, Keep
  <2>. QED  BY <1>9, <1>10, <2>1
<1>11. ASSUME OtherCase  PROVE  DraftInv'
  BY <1>9, <1>11 DEF OtherCase, SwitchUseCase
<1>12. ASSUME UNCHANGED vars  PROVE  DraftInv'
  BY <1>9, <1>12 DEF vars, session
<1>. QED
  BY <1>4, <1>5, <1>6, <1>7, <1>8, <1>10, <1>11, <1>12 DEF Next, DeskStep

(* What is labelled as a sample is that sample, in the draft, its preview,   *)
(* the import under review and the stored one (app.mjs:1564-1653).           *)
THEOREM ProvenanceStaysTrue == Spec => []ProvenanceIsTrue
PROOF
<1>1. Init => DraftInv
  BY DEF Init, SessionInit, DeskInit, DraftInv, ProvenanceIsTrue, LabelIsTrue, BlankDraft
<1>2. DraftInv => ProvenanceIsTrue
  BY DEF DraftInv
<1>. QED  BY <1>1, <1>2, DraftStep, PTL DEF Spec

-----------------------------------------------------------------------------
(* Rows.                                                                     *)

(* What is kept of the first n rows: all of them, and among the accepted the *)
(* valid ones that are the first of their id.                                *)
Firsts(rows, n) ==
  {i \in 1..n : rows[i].valid /\ \A j \in 1..(i - 1) : rows[j].id # rows[i].id}

KeptOK(rows, kept, n) ==
  /\ kept.accepted \cup kept.rejected = 1..n
  /\ kept.accepted = Firsts(rows, n)
  /\ kept.accepted \cap kept.rejected = {}

Sorting(rows, kept, n) ==
  IF Accepts(rows, kept, n)
  THEN [kept EXCEPT !.accepted = @ \cup {n}]
  ELSE [kept EXCEPT !.rejected = @ \cup {n}]

(* The bounded recursion over the rows is one step for each.                 *)
LEMMA RowByRow ==
  ASSUME NEW S, NEW rows \in Seq(S)
  PROVE  \E kept \in [0..Len(rows) -> [accepted : SUBSET Nat, rejected : SUBSET Nat]] :
           /\ kept[0] = [accepted |-> {}, rejected |-> {}]
           /\ \A n \in 1..Len(rows) : kept[n] = Sorting(rows, kept[n - 1], n)
           /\ Sorted(rows) = kept[Len(rows)]
PROOF
<1>. DEFINE m == Len(rows)
            X == [accepted : SUBSET Nat, rejected : SUBSET Nat]
            a == [accepted |-> {}, rejected |-> {}]
            next(kept, n) == Sorting(rows, kept, n)
            step == [t \in X \X (1..m) |-> next(t[1], t[2])]
            Defines(f) == f = [n \in 0..m |-> IF n = 0 THEN a ELSE next(f[n - 1], n)]
<1>1. a \in X /\ m \in Nat
  OBVIOUS
<1>2. ASSUME NEW w \in X, NEW n \in 1..m  PROVE next(w, n) \in X
  <2>1. w.accepted \subseteq Nat /\ w.rejected \subseteq Nat /\ n \in Nat
    OBVIOUS
  <2>2. /\ [w EXCEPT !.accepted = w.accepted \cup {n}] \in X
        /\ [w EXCEPT !.rejected = w.rejected \cup {n}] \in X
    BY <2>1
  <2>. QED  BY <2>2 DEF Sorting
<1>3. Sorted(rows) = (CHOOSE g : Defines(g))[m]
  BY DEF Sorted, Sorting
<1>. HIDE DEF X, a, m, next
<1>4. step \in [X \X (1..m) -> X]
  BY <1>2
<1>5. PICK f : Computes(f, X, a, step, m)
  <2>. HIDE DEF step
  <2>. QED  BY <1>1, <1>4, BoundedIteration
<1>6. ASSUME NEW n \in 1..m  PROVE  f[n] = next(f[n - 1], n)
  <2>1. n - 1 \in 0..m
    BY <1>1
  <2>2. <<f[n - 1], n>> \in X \X (1..m)
    BY <1>5, <2>1 DEF Computes
  <2>. QED  BY <1>5, <2>2 DEF Computes
<1>. HIDE DEF step
<1>7. Defines(f)
  <2>1. ASSUME NEW n \in 0..m, n # 0  PROVE  n \in 1..m
    BY <2>1
  <2>. QED  BY <1>5, <1>6, <2>1 DEF Computes
<1>. DEFINE kept == CHOOSE g : Defines(g)
<1>8. Defines(kept)
  <2>. HIDE DEF Defines
  <2>. QED  BY <1>7
<1>. HIDE DEF kept
<1>9. kept[0] = a /\ \A n \in 1..m : kept[n] = next(kept[n - 1], n)
  <2>1. \A n \in 0..m : kept[n] = IF n = 0 THEN a ELSE next(kept[n - 1], n)
    BY <1>8
  <2>2. 0 \in 0..m /\ \A n \in 1..m : n \in 0..m /\ n # 0
    BY <1>1
  <2>. QED  BY <2>1, <2>2
<1>10. kept \in [0..m -> X]
  <2>. DEFINE T == {n \in Nat : n \in 0..m => kept[n] \in X}
  <2>1. 0 \in T
    BY <1>1, <1>9
  <2>2. ASSUME NEW n \in Nat, n \in T  PROVE n + 1 \in T
    <3>1. ASSUME n + 1 \in 0..m  PROVE kept[n + 1] \in X
      <4>1. n \in 0..m /\ n + 1 \in 1..m /\ (n + 1) - 1 = n
        BY <1>1, <3>1
      <4>. QED  BY <1>2, <1>9, <2>2, <4>1
    <3>. QED  BY <3>1
  <2>. HIDE DEF T
  <2>3. Nat \subseteq T
    BY <2>1, <2>2, Inductive
  <2>4. \A n \in 0..m : kept[n] \in X
    BY <1>1, <2>3 DEF T
  <2>. QED  BY <1>8, <2>4
<1>. QED  BY <1>3, <1>9, <1>10 DEF kept, a, m, X, next

LEMMA SortingOK ==
  ASSUME NEW rows, NEW n \in Nat,
         NEW kept \in [accepted : SUBSET Nat, rejected : SUBSET Nat],
         KeptOK(rows, kept, n)
  PROVE  KeptOK(rows, Sorting(rows, kept, n + 1), n + 1)
PROOF
<1>1. n + 1 \notin 1..n /\ 1..(n + 1) = (1..n) \cup {n + 1} /\ (n + 1) - 1 = n
  OBVIOUS
<1>2. Accepts(rows, kept, n + 1) <=> n + 1 \in Firsts(rows, n + 1)
  BY <1>1 DEF Accepts, Seen, KeptOK, Firsts
<1>3. \A i \in 1..n : i \in Firsts(rows, n + 1) <=> i \in Firsts(rows, n)
  BY <1>1 DEF Firsts
<1>4. Firsts(rows, n + 1) \subseteq 1..(n + 1) /\ Firsts(rows, n) \subseteq 1..n
  BY DEF Firsts
<1>5. CASE Accepts(rows, kept, n + 1)
  <2>. DEFINE new == Sorting(rows, kept, n + 1)
  <2>1. new.accepted = kept.accepted \cup {n + 1} /\ new.rejected = kept.rejected
    BY <1>5 DEF Sorting
  <2>. HIDE DEF new
  <2>2. Firsts(rows, n + 1) = Firsts(rows, n) \cup {n + 1}
    BY <1>1, <1>2, <1>3, <1>4, <1>5
  <2>3. KeptOK(rows, new, n + 1)
    BY <1>1, <2>1, <2>2 DEF KeptOK
  <2>. QED  BY <2>3 DEF new
<1>6. CASE ~Accepts(rows, kept, n + 1)
  <2>. DEFINE new == Sorting(rows, kept, n + 1)
  <2>1. new.accepted = kept.accepted /\ new.rejected = kept.rejected \cup {n + 1}
    BY <1>6 DEF Sorting
  <2>. HIDE DEF new
  <2>2. Firsts(rows, n + 1) = Firsts(rows, n)
    BY <1>1, <1>2, <1>3, <1>4, <1>6
  <2>3. KeptOK(rows, new, n + 1)
    BY <1>1, <1>4, <2>1, <2>2 DEF KeptOK
  <2>. QED  BY <2>3 DEF new
<1>. QED  BY <1>5, <1>6

LEMMA SortedOK ==
  ASSUME NEW S, NEW rows \in Seq(S)
  PROVE  KeptOK(rows, Sorted(rows), Len(rows))
PROOF
<1>. DEFINE m == Len(rows)
            X == [accepted : SUBSET Nat, rejected : SUBSET Nat]
<1>1. PICK kept \in [0..m -> X] :
        /\ kept[0] = [accepted |-> {}, rejected |-> {}]
        /\ \A n \in 1..m : kept[n] = Sorting(rows, kept[n - 1], n)
        /\ Sorted(rows) = kept[m]
  BY RowByRow
<1>2. m \in Nat
  OBVIOUS
<1>. HIDE DEF m
<1>. DEFINE T == {n \in Nat : n \in 0..m => KeptOK(rows, kept[n], n)}
<1>3. 0 \in T
  <2>1. kept[0].accepted = {} /\ kept[0].rejected = {} /\ 1..0 = {}
    BY <1>1
  <2>2. KeptOK(rows, kept[0], 0)
    BY <2>1 DEF KeptOK, Firsts
  <2>. QED  BY <2>2
<1>4. ASSUME NEW n \in Nat, n \in T  PROVE n + 1 \in T
  <2>1. ASSUME n + 1 \in 0..m  PROVE KeptOK(rows, kept[n + 1], n + 1)
    <3>1. n \in 0..m /\ n + 1 \in 1..m /\ (n + 1) - 1 = n
      BY <1>2, <2>1
    <3>2. KeptOK(rows, kept[n], n) /\ kept[n + 1] = Sorting(rows, kept[n], n + 1)
      BY <1>1, <1>4, <3>1
    <3>3. kept[n] \in X
      BY <1>1, <3>1
    <3>. QED  BY <3>2, <3>3, SortingOK
  <2>. QED  BY <2>1
<1>. HIDE DEF T
<1>5. m \in T /\ m \in 0..m
  BY <1>2, <1>3, <1>4, Inductive
<1>. QED  BY <1>1, <1>5 DEF T, m

IsKnown(d) == d.text \in Texts /\ d.format \in Formats

Accounted(p) ==
  LET rows == RowsOf[p.draft.text][p.draft.format]
  IN rows # NotParsed =>
       /\ p.accepted \cup p.rejected = DOMAIN rows
       /\ p.accepted =
            {i \in DOMAIN rows :
               rows[i].valid /\ \A j \in 1..(i - 1) : rows[j].id # rows[i].id}
       /\ p.accepted \cap p.rejected = {}

LEMMA PreviewAccounts ==
  ASSUME NEW d, IsKnown(d)
  PROVE  Accounted(PreviewOf(d))
PROOF
<1>. DEFINE rows == RowsOf[d.text][d.format]
            S == {rows[i] : i \in DOMAIN rows}
            p == PreviewOf(d)
<1>. SUFFICES ASSUME rows # NotParsed  PROVE Accounted(p)
  BY DEF Accounted, PreviewOf
<1>1. rows \in Seq(S)
  BY RowsAssumption DEF IsKnown
<1>2. p.draft = d /\ p.accepted = Sorted(rows).accepted /\ p.rejected = Sorted(rows).rejected
  BY DEF PreviewOf
<1>. HIDE DEF S, p
<1>3. DOMAIN rows = 1..Len(rows) /\ KeptOK(rows, Sorted(rows), Len(rows))
  BY <1>1, SortedOK
<1>4. Firsts(rows, Len(rows)) =
        {i \in DOMAIN rows :
           rows[i].valid /\ \A j \in 1..(i - 1) : rows[j].id # rows[i].id}
  BY <1>3 DEF Firsts
<1>5. Accounted(p) <=>
        /\ p.accepted \cup p.rejected = DOMAIN rows
        /\ p.accepted =
             {i \in DOMAIN rows :
                rows[i].valid /\ \A j \in 1..(i - 1) : rows[j].id # rows[i].id}
        /\ p.accepted \cap p.rejected = {}
  BY <1>2 DEF Accounted
<1>. HIDE DEF rows
<1>. QED  BY <1>2, <1>3, <1>4, <1>5 DEF KeptOK

(* Every draft, shown or previewed, is of a text the desk can have.          *)
KnownInv ==
  /\ IsKnown(draft)
  /\ \A p \in {preview, imported, stored} \ {NoPreview, NoImport} : IsKnown(p.draft)

LEMMA KnownStep == DraftInv /\ KnownInv /\ [Next]_vars => KnownInv'
PROOF
<1>. SUFFICES ASSUME DraftInv, KnownInv, [Next]_vars  PROVE  KnownInv'
  OBVIOUS
<1>0. /\ DOMAIN draft = {"text", "format", "label"} /\ IsKnown(draft)
      /\ \A p \in {preview, imported, stored} \ {NoPreview, NoImport} : IsKnown(p.draft)
  BY DEF DraftInv, KnownInv, BlankDraft
<1>1. \A d \in Samples \cup {DemoSlice} : IsKnown(d)
  BY DeskAssumption DEF IsKnown, Texts
<1>2. ASSUME NEW d, Drafted(d), imported' = imported, IsKnown(d)
      PROVE  KnownInv'
  BY <1>0, <1>2 DEF Drafted, KnownInv, IsKnown
<1>4. ASSUME LoadSample \/ ChangeFormat \/ TypeText, UNCHANGED session
      PROVE  KnownInv'
  <2>1. imported' = imported
    BY <1>4 DEF session
  <2>2. CASE LoadSample
    BY <1>1, <1>2, <2>1, <2>2 DEF LoadSample
  <2>3. ASSUME NEW f \in Formats, Drafted([draft EXCEPT !.format = f, !.label = "manual"])
        PROVE  KnownInv'
    <3>. DEFINE d == [draft EXCEPT !.format = f, !.label = "manual"]
    <3>1. IsKnown(d)
      BY <1>0 DEF IsKnown
    <3>. HIDE DEF d
    <3>2. Drafted(d)
      BY <2>3 DEF d
    <3>. QED  BY <1>2, <2>1, <3>1, <3>2
  <2>4. ASSUME NEW text \in Typed, Drafted([draft EXCEPT !.text = text, !.label = "manual"])
        PROVE  KnownInv'
    <3>. DEFINE d == [draft EXCEPT !.text = text, !.label = "manual"]
    <3>1. IsKnown(d)
      BY <1>0 DEF IsKnown, Texts
    <3>. HIDE DEF d
    <3>2. Drafted(d)
      BY <2>4 DEF d
    <3>. QED  BY <1>2, <2>1, <3>1, <3>2
  <2>. QED  BY <1>4, <2>2, <2>3, <2>4 DEF ChangeFormat, TypeText, LabelTyped
<1>5. ASSUME Preview, UNCHANGED session  PROVE  KnownInv'
  <2>1. PreviewOf(draft).draft = draft
    BY DEF PreviewOf
  <2>. QED  BY <1>0, <1>5, <2>1 DEF Preview, session, KnownInv, IsKnown
<1>6. ASSUME LoadDatasetDemo  PROVE  KnownInv'
  BY <1>1, <1>2, <1>6 DEF LoadDatasetDemo, LoadDemo, SwitchUseCase
<1>7. ASSUME ApplyImport  PROVE  KnownInv'
  BY <1>0, <1>7 DEF ApplyImport, Apply, Applicable, OpenImport, KnownInv, IsKnown
<1>8. ASSUME ReloadPage  PROVE  KnownInv'
  <2>1. draft' = BlankDraft \/ draft' = [draft EXCEPT !.label = "manual"]
    BY <1>8 DEF ReloadPage, ReloadDesk
  <2>2. IsKnown(BlankDraft) /\ IsKnown([draft EXCEPT !.label = "manual"])
    BY <1>0 DEF IsKnown, BlankDraft, Texts, Formats
  <2>. QED
    BY <1>0, <1>8, <2>1, <2>2 DEF ReloadPage, ReloadDesk, Reload, KnownInv, IsKnown
<1>9. ASSUME UNCHANGED desk, UNCHANGED imported  PROVE  KnownInv'
  BY <1>0, <1>9 DEF desk, KnownInv, IsKnown
<1>10. ASSUME SessionStep, UNCHANGED desk  PROVE  KnownInv'
  <2>1. imported' = imported
    BY <1>10 DEF SessionStep, ChangeAlias, ChangeWindow, ChangeFilter, ChangeView,
                 ApplyRecommendedSplit, session,
                 ApplyFlowScene, ApplyInfrastructureScene, ApplyOpenScene, ResetScene,
                 ResetAnalysis, SelectRelationship, InspectReasoning, ChangeStep,
                 MarkFinding, Acknowledge, RunPreflight, Train, Marked, Keep
  <2>. QED  BY <1>9, <1>10, <2>1
<1>11. ASSUME OtherCase  PROVE  KnownInv'
  BY <1>9, <1>11 DEF OtherCase, SwitchUseCase
<1>12. ASSUME UNCHANGED vars  PROVE  KnownInv'
  BY <1>9, <1>12 DEF vars, session
<1>. QED
  BY <1>4, <1>5, <1>6, <1>7, <1>8, <1>10, <1>11, <1>12 DEF Next, DeskStep

(* Previews, the import under review and the stored one account for each row *)
(* of their text once, and accept a valid row that is the first of its id:   *)
(* for every text and every list of rows (transaction-import.mjs).           *)
THEOREM EveryRowIsAccounted == Spec => []RowsAreAccounted
PROOF
<1>1. Init => DraftInv /\ KnownInv
  <2>1. Init => DraftInv
    BY DEF Init, SessionInit, DeskInit, DraftInv, ProvenanceIsTrue, LabelIsTrue, BlankDraft
  <2>2. Init => KnownInv
    BY DEF Init, SessionInit, DeskInit, KnownInv, IsKnown, BlankDraft, Texts, Formats
  <2>. QED  BY <2>1, <2>2
<1>2. DraftInv /\ KnownInv => RowsAreAccounted
  <2>. SUFFICES ASSUME DraftInv, KnownInv,
                       NEW p \in {preview, imported, stored} \ {NoPreview, NoImport}
                PROVE  Accounted(p)
    BY DEF RowsAreAccounted, Accounted
  <2>1. p = PreviewOf(p.draft) /\ IsKnown(p.draft)
    BY DEF DraftInv, ProvenanceIsTrue, KnownInv
  <2>2. Accounted(PreviewOf(p.draft))
    BY <2>1, PreviewAccounts
  <2>. QED  BY <2>1, <2>2
<1>. QED  BY <1>1, <1>2, DraftStep, KnownStep, PTL DEF Spec
============================================================================
