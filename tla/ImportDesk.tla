---------------------------- MODULE ImportDesk ----------------------------
(* The transaction import of apps/web/app.mjs: a draft, its preview by       *)
(* previewTransactionImport of packages/guided-workflow/transaction-import.mjs*)
(* and the preview that the browser's local storage keeps for the next load. *)
(*                                                                           *)
(* A text is a model value that stands for its rows in either format; a row  *)
(* is its transaction id and whether its fields are valid.  The mapping of   *)
(* columns is the inferred one.  A definition introduced by "Fault:" is a    *)
(* deliberately wrong variant of the definition after it.                    *)
EXTENDS Naturals, Sequences, FiniteSets

CONSTANTS
  Samples,     \* the built-in samples, each a draft
  DemoSlice,   \* the draft of the registry's demonstration slice
  Typed,       \* texts a user types or pastes
  Blank,       \* the empty text
  RowsOf,      \* the rows of a text in a format; those of another are NotParsed
  NotParsed,
  NoPreview

VARIABLES
  draft,    \* transactionCsv, transactionFormat, transactionImportProvenance
  preview,  \* importPreview
  stored    \* the preview under importedFraudStorageKey

desk == <<draft, preview, stored>>

Formats == {"csv", "json"}

BlankDraft == [text |-> Blank, format |-> "csv", label |-> "manual"]

Texts == Typed \cup {Blank} \cup {d.text : d \in Samples \cup {DemoSlice}}

ASSUME DeskAssumption ==
  \A d \in Samples \cup {DemoSlice} :
    DOMAIN d = DOMAIN BlankDraft /\ d.format \in Formats

(* A text that can be read in a format has its rows in sequence.             *)
ASSUME RowsAssumption ==
  \A text \in Texts, format \in Formats :
    LET rows == RowsOf[text][format]
    IN rows # NotParsed => rows \in Seq({rows[i] : i \in DOMAIN rows})

DeskInit == draft = BlankDraft /\ preview = NoPreview /\ stored = NoPreview

-----------------------------------------------------------------------------
(* previewTransactionImport.  Rows are named by their position.              *)

Seen(rows, kept, id) == \E i \in kept.accepted \cup kept.rejected : rows[i].id = id

(* Fault: an id is looked for among the accepted rows only.                  *)
AcceptsUnlessAccepted(rows, kept, n) ==
  rows[n].valid /\ ~Seen(rows, [kept EXCEPT !.rejected = {}], rows[n].id)

(* A valid row whose id no earlier row has, accepted or rejected.            *)
Accepts(rows, kept, n) == rows[n].valid /\ ~Seen(rows, kept, rows[n].id)

(* What is kept of the first n rows.                                         *)
Sorted(rows) ==
  LET kept[n \in 0..Len(rows)] ==
        IF n = 0 THEN [accepted |-> {}, rejected |-> {}]
        ELSE IF Accepts(rows, kept[n - 1], n)
             THEN [kept[n - 1] EXCEPT !.accepted = @ \cup {n}]
             ELSE [kept[n - 1] EXCEPT !.rejected = @ \cup {n}]
  IN kept[Len(rows)]

(* A text that cannot be parsed is one rejected row, at 1.                   *)
PreviewOf(d) ==
  LET rows == RowsOf[d.text][d.format]
      kept == IF rows = NotParsed THEN [accepted |-> {}, rejected |-> {1}]
              ELSE Sorted(rows)
  IN [draft |-> d, accepted |-> kept.accepted, rejected |-> kept.rejected]

-----------------------------------------------------------------------------
(* The draft.  A new one takes the preview away.                             *)

Drafted(d) == draft' = d /\ preview' = NoPreview /\ UNCHANGED stored

LoadSample == \E d \in Samples : Drafted(d)

(* loadDatasetDemo, besides the switch to the fraud case.                    *)
LoadDemo == Drafted(DemoSlice)

(* Fault: a change of the text keeps the label it had.                       *)
KeptLabel == draft.label

LabelTyped == "manual"

ChangeFormat == \E format \in Formats :
  Drafted([draft EXCEPT !.format = format, !.label = "manual"])

TypeText == \E text \in Typed :
  Drafted([draft EXCEPT !.text = text, !.label = LabelTyped])

Preview == preview' = PreviewOf(draft) /\ UNCHANGED <<draft, stored>>

(* applyImport, besides the case it opens: the storage may refuse the write. *)
Applicable == preview # NoPreview /\ preview.accepted # {}

Apply ==
  /\ Applicable
  /\ stored' \in {preview, stored}
  /\ UNCHANGED <<draft, preview>>

(* A reload forgets the preview; the browser may restore the fields.         *)
ReloadDesk ==
  /\ draft' \in {BlankDraft, [draft EXCEPT !.label = "manual"]}
  /\ preview' = NoPreview /\ UNCHANGED stored
===========================================================================
