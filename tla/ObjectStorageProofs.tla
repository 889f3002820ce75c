------------------------ MODULE ObjectStorageProofs ------------------------
(* Machine-checked proofs about object storage, for every set of callers,    *)
(* contents, reports and markers.                                            *)
EXTENDS ObjectStorageProperties, TLAPS

(* A put that is part of put_report is the put of the report's own object,   *)
(* and what the report depends on is stored.                                 *)
ForReport(put, report) ==
  report # None => /\ put.content = report.object.content
                   /\ put.media = report.object.media
                   /\ AllStored(report)

(* What put knows of the object it created.                                  *)
Described(put) ==
  /\ objects[put.content] # None
  /\ objects[put.content].media = put.media
  /\ objects[put.content].metadata = put.metadata

(* What each call has established on its way.                                *)
CallOK(c) ==
  /\ At(c, "publish") => ForReport(call[c].put, call[c].report)
  /\ At(c, "read_back") =>
       /\ ForReport(call[c].put, call[c].report)
       /\ objects[call[c].put.content] # None
       /\ call[c].created => Described(call[c].put)
  /\ At(c, "publish_manifest") =>
       AllStored(call[c].report) /\ Stored(call[c].report.object)
  /\ At(c, "read_manifest") => Reconstructs(call[c].report)
  /\ At(c, "read_marker") /\ call[c].created => call[c].marker \in markers

(* The inductive invariant.                                                  *)
StorageInv ==
  /\ TypeOK
  /\ ReturnedStands
  /\ ReportsReconstruct
  /\ OneMarkerPerId
  /\ \A c \in Callers : CallOK(c)

(* What every step keeps.                                                    *)
Kept ==
  /\ \A content \in Contents :
       objects[content] # None => objects'[content] = objects[content]
  /\ reports \subseteq reports'
  /\ markers \subseteq markers'

---------------------------------------------------------------------------
(* The fields of a call, step by step.                                       *)
LEMMA CallFields ==
  ASSUME TypeOK, NEW c \in Callers
  PROVE  /\ At(c, "publish") => /\ call[c].put \in Puts
                                /\ call[c].report \in Reports \cup {None}
         /\ At(c, "read_back") => /\ call[c].put \in Puts
                                  /\ call[c].report \in Reports \cup {None}
                                  /\ call[c].created \in BOOLEAN
         /\ (At(c, "check") \/ At(c, "publish_manifest") \/ At(c, "read_manifest"))
              => call[c].report \in Reports
         /\ (At(c, "create_marker") \/ At(c, "write_marker") \/ At(c, "rename_marker")
               \/ At(c, "read_marker")) => call[c].marker \in Markers
         /\ At(c, "read_marker") => call[c].created \in BOOLEAN
<1>1. call[c] \in Call
  BY DEF TypeOK
<1>2. QED
  BY <1>1 DEF Call, NoCall, At

LEMMA RefsAreRefs ==
  ASSUME NEW report \in Reports
  PROVE  report.object \in Ref /\ report.dependencies \subseteq Ref
  BY InputAssumption DEF Report

(* What is stored stays stored.                                              *)
LEMMA StoredStays ==
  ASSUME Kept, NEW ref \in Ref, Stored(ref)
  PROVE  Stored(ref)'
  BY DEF Kept, Stored, Ref

LEMMA AllStoredStays ==
  ASSUME Kept, NEW report \in Reports, AllStored(report)
  PROVE  AllStored(report)'
  BY StoredStays, RefsAreRefs DEF AllStored

LEMMA ReconstructsStays ==
  ASSUME Kept, NEW report \in Reports, Reconstructs(report)
  PROVE  Reconstructs(report)'
  BY StoredStays, RefsAreRefs DEF Reconstructs, Kept

LEMMA DescribedStays ==
  ASSUME Kept, NEW put \in Puts, Described(put)
  PROVE  Described(put)'
  BY DEF Kept, Described, Puts

LEMMA ForReportStays ==
  ASSUME Kept, NEW put \in Puts, NEW report \in Reports \cup {None},
         ForReport(put, report)
  PROVE  ForReport(put, report)'
  BY AllStoredStays DEF ForReport

(* The other callers keep what they have established.                        *)
LEMMA OthersKeep ==
  ASSUME StorageInv, Kept, NEW d \in Callers, call'[d] = call[d]
  PROVE  CallOK(d)'
<1>1. CallOK(d) /\ TypeOK
  BY DEF StorageInv
<1>2. CASE At(d, "publish")
  <2>1. ForReport(call[d].put, call[d].report)'
    BY <1>1, <1>2, CallFields, ForReportStays DEF CallOK
  <2>2. QED
    BY <1>2, <2>1 DEF CallOK, At
<1>3. CASE At(d, "read_back")
  <2>1. call[d].put \in Puts /\ call[d].report \in Reports \cup {None}
    BY <1>1, <1>3, CallFields
  <2>2. ForReport(call[d].put, call[d].report)'
    BY <1>1, <1>3, <2>1, ForReportStays DEF CallOK
  <2>3. objects'[call[d].put.content] # None
    BY <1>1, <1>3, <2>1 DEF CallOK, Kept, Puts
  <2>4. call[d].created => Described(call[d].put)'
    BY <1>1, <1>3, <2>1, DescribedStays DEF CallOK
  <2>5. QED
    BY <1>3, <2>2, <2>3, <2>4 DEF CallOK, At
<1>4. CASE At(d, "publish_manifest")
  <2>1. call[d].report \in Reports
    BY <1>1, <1>4, CallFields
  <2>2. AllStored(call[d].report)' /\ Stored(call[d].report.object)'
    BY <1>1, <1>4, <2>1, AllStoredStays, StoredStays, RefsAreRefs DEF CallOK
  <2>3. QED
    BY <1>4, <2>2 DEF CallOK, At
<1>5. CASE At(d, "read_manifest")
  <2>1. Reconstructs(call[d].report)'
    BY <1>1, <1>5, CallFields, ReconstructsStays DEF CallOK
  <2>2. QED
    BY <1>5, <2>1 DEF CallOK, At
<1>6. CASE At(d, "read_marker")
  BY <1>1, <1>6 DEF CallOK, At, Kept
<1>7. CASE ~(\/ At(d, "publish") \/ At(d, "read_back") \/ At(d, "publish_manifest")
             \/ At(d, "read_manifest") \/ At(d, "read_marker"))
  BY <1>7 DEF CallOK, At
<1>8. QED
  BY <1>2, <1>3, <1>4, <1>5, <1>6, <1>7

(* What was returned goes on to stand.                                       *)
LEMMA ReturnedStay ==
  ASSUME StorageInv, Kept, NEW value \in returned
  PROVE  /\ value.kind = "object" =>
              /\ objects'[value.asked.content] = value.given
              /\ value.given.media = value.asked.media
              /\ value.given.metadata = value.asked.metadata
         /\ value.kind = "report" => Reconstructs(value.given)'
         /\ value.kind = "marker" => /\ value.given \in markers'
                                     /\ value.given = value.asked
<1>1. value \in [kind : {"object"}, asked : Puts, given : Object]
                \cup [kind : {"report"}, asked : Reports, given : Reports]
                \cup [kind : {"marker"}, asked : Markers, given : Markers]
  BY DEF StorageInv, TypeOK
<1>2. CASE value.kind = "object"
  <2>1. value.asked \in Puts /\ value.given \in Object
    BY <1>1, <1>2
  <2>2. objects[value.asked.content] = value.given /\ value.given # None
    BY <1>2, <2>1, NoneAssumption DEF StorageInv, ReturnedStands
  <2>3. objects'[value.asked.content] = value.given
    BY <2>1, <2>2 DEF Kept, Puts
  <2>4. QED
    BY <1>2, <2>3 DEF StorageInv, ReturnedStands
<1>3. CASE value.kind = "report"
  <2>1. value.given \in Reports
    BY <1>1, <1>3
  <2>2. QED
    BY <1>3, <2>1, ReconstructsStays DEF StorageInv, ReturnedStands
<1>4. CASE value.kind = "marker"
  BY <1>4 DEF StorageInv, ReturnedStands, Kept
<1>5. QED
  BY <1>2, <1>3, <1>4

(* A step that returns nothing and publishes neither manifest nor marker.    *)
LEMMA QuietStep ==
  ASSUME StorageInv, Kept, TypeOK', NEW c \in Callers,
         \A d \in Callers \ {c} : call'[d] = call[d],
         UNCHANGED <<reports, markers, returned>>, CallOK(c)'
  PROVE  StorageInv'
<1>1. \A d \in Callers : CallOK(d)'
  <2>1. ASSUME NEW d \in Callers \ {c} PROVE CallOK(d)'
    BY <2>1, OthersKeep
  <2>2. QED
    BY <2>1
<1>2. ReturnedStands'
  BY ReturnedStay DEF ReturnedStands
<1>3. ReportsReconstruct'
  BY ReconstructsStays DEF ReportsReconstruct, StorageInv, TypeOK
<1>4. OneMarkerPerId'
  BY DEF StorageInv, OneMarkerPerId, InPlace
<1>5. QED
  BY <1>1, <1>2, <1>3, <1>4 DEF StorageInv

---------------------------------------------------------------------------
(* One lemma per action.                                                     *)

LEMMA NothingMoves ==
  ASSUME UNCHANGED <<objects, reports, markers>>
  PROVE  Kept
  BY DEF Kept

(* A call goes on to its next step.                                          *)
LEMMA Goes ==
  ASSUME TypeOK, NEW c \in Callers, NEW STATE next, next \in Call, Go(c, next)
  PROVE  /\ call' \in [Callers -> Call]
         /\ call'[c] = next
         /\ \A d \in Callers \ {c} : call'[d] = call[d]
  BY DEF Go, TypeOK

(* A call that is over has nothing to keep.                                  *)
LEMMA IdleOK ==
  ASSUME NEW c \in Callers, call'[c] = NoCall
  PROVE  CallOK(c)'
  BY DEF CallOK, At, NoCall

LEMMA BeginOK ==
  ASSUME StorageInv, NEW c \in Callers, Begin(c)
  PROVE  StorageInv'
<1>1. Kept
  BY NothingMoves DEF Begin, Put, PutReport, RecordRetention
<1>2. CASE \E put \in Puts : Put(c, put)
  <2>1. PICK put \in Puts : Put(c, put)
    BY <1>2
  <2> DEFINE next == [step |-> "publish", put |-> put, report |-> None]
  <2>2. next \in Call /\ Go(c, next)
    BY <2>1 DEF Put, Call
  <2>3. TypeOK' /\ call'[c] = next /\ \A d \in Callers \ {c} : call'[d] = call[d]
    BY <2>1, <2>2, Goes DEF Put, TypeOK, StorageInv
  <2>4. CallOK(c)'
    BY <2>3 DEF CallOK, At, ForReport
  <2>5. QED
    BY <1>1, <2>1, <2>3, <2>4, QuietStep DEF Put
<1>3. CASE \E report \in Reports : PutReport(c, report)
  <2>1. PICK report \in Reports : PutReport(c, report)
    BY <1>3
  <2> DEFINE next == [step |-> "check", report |-> report]
  <2>2. next \in Call /\ Go(c, next)
    BY <2>1 DEF PutReport, Call
  <2>3. TypeOK' /\ call'[c] = next /\ \A d \in Callers \ {c} : call'[d] = call[d]
    BY <2>1, <2>2, Goes DEF PutReport, TypeOK, StorageInv
  <2>4. CallOK(c)'
    BY <2>3 DEF CallOK, At
  <2>5. QED
    BY <1>1, <2>1, <2>3, <2>4, QuietStep DEF PutReport
<1>4. CASE \E marker \in Markers : RecordRetention(c, marker)
  <2>1. PICK marker \in Markers : RecordRetention(c, marker)
    BY <1>4
  <2> DEFINE next == [step |-> "create_marker", marker |-> marker]
  <2>2. next \in Call /\ Go(c, next)
    BY <2>1 DEF RecordRetention, Call
  <2>3. TypeOK' /\ call'[c] = next /\ \A d \in Callers \ {c} : call'[d] = call[d]
    BY <2>1, <2>2, Goes DEF RecordRetention, TypeOK, StorageInv
  <2>4. CallOK(c)'
    BY <2>3 DEF CallOK, At
  <2>5. QED
    BY <1>1, <2>1, <2>3, <2>4, QuietStep DEF RecordRetention
<1>5. QED
  BY <1>2, <1>3, <1>4 DEF Begin

LEMMA PublishOK ==
  ASSUME StorageInv, NEW c \in Callers, Publish(c)
  PROVE  StorageInv' /\ Kept
<1>1. PICK put \in Puts, report \in Reports \cup {None} :
        /\ At(c, "publish") /\ put = call[c].put /\ report = call[c].report
        /\ ForReport(put, report)
  BY CallFields DEF StorageInv, Publish, CallOK
<1>2. PICK next \in Call :
        /\ next = [step |-> "read_back", put |-> put, report |-> report,
                   created |-> objects[put.content] = None]
        /\ Go(c, next)
  BY <1>1 DEF Publish, Call
<1>3. PICK object \in Object : object = ObjectOf(c, put)
  BY <1>1 DEF ObjectOf, Object, Puts
<1>4. put.content \in Contents
  BY <1>1 DEF Puts
<1>5. /\ objects' \in [Contents -> Object \cup {None}]
      /\ objects'[put.content] = IF objects[put.content] = None THEN object
                                 ELSE objects[put.content]
  BY <1>1, <1>3, <1>4 DEF Publish, Renamed, StorageInv, TypeOK
<1>6. Kept
  BY <1>1, <1>4, <1>5 DEF Kept, Publish, StorageInv, TypeOK
<1>7. TypeOK' /\ call'[c] = next /\ \A d \in Callers \ {c} : call'[d] = call[d]
  BY <1>2, <1>5, Goes DEF Publish, TypeOK, StorageInv
<1>8. CallOK(c)'
  <2>1. ForReport(put, report)'
    BY <1>1, <1>6, ForReportStays
  <2>2. objects'[put.content] # None
    BY <1>3, <1>5, NoneAssumption
  <2>3. next.created => Described(put)'
    <3>1. next.created => objects'[put.content] = object
      BY <1>2, <1>5
    <3>2. object.media = put.media /\ object.metadata = put.metadata
      BY <1>3 DEF ObjectOf
    <3>3. QED
      BY <2>2, <3>1, <3>2 DEF Described
  <2>4. /\ call'[c].step = "read_back" /\ call'[c].put = put
        /\ call'[c].report = report /\ call'[c].created = next.created
    BY <1>2, <1>7
  <2>5. QED
    BY <2>1, <2>2, <2>3, <2>4 DEF CallOK, At
<1>9. QED
  BY <1>6, <1>7, <1>8, QuietStep DEF Publish

(* A call that ends without an answer: what it had built is dropped or left. *)
LEMMA RaiseOK ==
  ASSUME StorageInv, NEW c \in Callers, Raise(c), drafts' \subseteq Draft,
         UNCHANGED <<objects, reports, markers>>
  PROVE  StorageInv' /\ Kept
<1>1. Kept
  BY NothingMoves
<1>2. NoCall \in Call /\ Go(c, NoCall)
  BY DEF Call, Raise
<1>3. TypeOK' /\ call'[c] = NoCall /\ \A d \in Callers \ {c} : call'[d] = call[d]
  BY <1>2, Goes DEF Raise, TypeOK, StorageInv
<1>4. QED
  BY <1>1, <1>3, IdleOK, QuietStep DEF Raise

(* A call that answers what stands.                                          *)
LEMMA ReturnOK ==
  ASSUME StorageInv, NEW c \in Callers, NEW STATE kind, NEW STATE asked, NEW STATE given,
         Return(c, kind, asked, given), UNCHANGED <<objects, reports, markers, drafts>>,
         \/ /\ kind = "object" /\ asked \in Puts /\ given \in Object
            /\ objects[asked.content] = given
            /\ given.media = asked.media /\ given.metadata = asked.metadata
         \/ /\ kind = "report" /\ asked \in Reports /\ given \in Reports
            /\ Reconstructs(given)
         \/ /\ kind = "marker" /\ asked \in Markers /\ given \in markers
            /\ given = asked
  PROVE  StorageInv' /\ Kept
<1> DEFINE value == [kind |-> kind, asked |-> asked, given |-> given]
<1>1. Kept
  BY NothingMoves
<1>2. NoCall \in Call /\ Go(c, NoCall) /\ returned' = returned \cup {value}
  BY DEF Call, Return
<1>3. call' \in [Callers -> Call] /\ call'[c] = NoCall
      /\ \A d \in Callers \ {c} : call'[d] = call[d]
  BY <1>2, Goes DEF StorageInv
<1>4. value \in [kind : {"object"}, asked : Puts, given : Object]
                \cup [kind : {"report"}, asked : Reports, given : Reports]
                \cup [kind : {"marker"}, asked : Markers, given : Markers]
  BY DEF StorageInv, TypeOK
<1>5. TypeOK'
  BY <1>2, <1>3, <1>4 DEF TypeOK, StorageInv
<1>6. \A d \in Callers : CallOK(d)'
  <2>1. ASSUME NEW d \in Callers \ {c} PROVE CallOK(d)'
    BY <1>1, <1>3, <2>1, OthersKeep
  <2>2. QED
    BY <1>3, <2>1, IdleOK
<1>7. ReturnedStands'
  <2>1. /\ value.kind = "object" => /\ objects[value.asked.content] = value.given
                                    /\ value.given.media = value.asked.media
                                    /\ value.given.metadata = value.asked.metadata
        /\ value.kind = "report" => Reconstructs(value.given)
        /\ value.kind = "marker" => /\ value.given \in markers
                                    /\ value.given = value.asked
    OBVIOUS
  <2>2. QED
    BY <1>1, <1>2, <2>1, ReturnedStay DEF ReturnedStands, Reconstructs, Stored
<1>8. ReportsReconstruct' /\ OneMarkerPerId'
  BY DEF StorageInv, ReportsReconstruct, Reconstructs, Stored, OneMarkerPerId, InPlace
<1>9. QED
  BY <1>1, <1>5, <1>6, <1>7, <1>8 DEF StorageInv

LEMMA ReadBackOK ==
  ASSUME StorageInv, NEW c \in Callers, ReadBack(c)
  PROVE  StorageInv' /\ Kept
<1>1. PICK put \in Puts, report \in Reports \cup {None} :
        At(c, "read_back") /\ put = call[c].put /\ report = call[c].report
  BY CallFields DEF StorageInv, ReadBack
<1> DEFINE object == objects[put.content]
           next == [step |-> "publish_manifest", report |-> report]
<1>2. object # None /\ ForReport(put, report) /\ (call[c].created => Described(put))
  BY <1>1 DEF StorageInv, CallOK
<1>3. object \in Object
  BY <1>1, <1>2 DEF StorageInv, TypeOK, Puts
<1>4. Accepts(c, put, object) => object.media = put.media /\ object.metadata = put.metadata
  BY <1>1, <1>2 DEF Accepts, Described
<1>5. CASE ~Accepts(c, put, object)
  BY <1>1, <1>5, RaiseOK DEF ReadBack, StorageInv, TypeOK
<1>6. CASE Accepts(c, put, object) /\ report = None
  <2>1. Return(c, "object", put, object)
    BY <1>1, <1>6 DEF ReadBack
  <2>2. QED
    BY <1>1, <1>3, <1>4, <1>6, <2>1, ReturnOK DEF ReadBack
<1>7. CASE Accepts(c, put, object) /\ report # None
  <2>1. Kept
    BY NothingMoves DEF ReadBack
  <2>2. next \in Call /\ Go(c, next) /\ UNCHANGED returned
    BY <1>1, <1>7 DEF ReadBack, Call
  <2>3. TypeOK' /\ call'[c] = next /\ \A d \in Callers \ {c} : call'[d] = call[d]
    BY <2>2, Goes DEF ReadBack, TypeOK, StorageInv
  <2>4. AllStored(report) /\ Stored(report.object)
    BY <1>2, <1>4, <1>7 DEF ForReport, Stored
  <2>5. AllStored(report)' /\ Stored(report.object)'
    BY <1>1, <1>7, <2>1, <2>4, AllStoredStays, StoredStays, RefsAreRefs
  <2>6. CallOK(c)'
    BY <2>3, <2>5 DEF CallOK, At, AllStored, Stored
  <2>7. QED
    BY <2>1, <2>2, <2>3, <2>6, QuietStep DEF ReadBack
<1>8. QED
  BY <1>5, <1>6, <1>7

LEMMA CheckOK ==
  ASSUME StorageInv, NEW c \in Callers, Check(c)
  PROVE  StorageInv' /\ Kept
<1>1. PICK report \in Reports : report = call[c].report
  BY CallFields DEF StorageInv, Check
<1> DEFINE put == [content |-> report.object.content, media |-> report.object.media,
                   metadata |-> Plain]
           next == [step |-> "publish", put |-> put, report |-> report]
<1>2. CASE AllStored(report)
  <2>1. Kept
    BY NothingMoves DEF Check
  <2>2. put \in Puts
    BY <1>1, RefsAreRefs, PlainAssumption DEF Ref, Puts
  <2>3. next \in Call /\ Go(c, next)
    BY <1>1, <1>2, <2>2 DEF Check, Call
  <2>4. TypeOK' /\ call'[c] = next /\ \A d \in Callers \ {c} : call'[d] = call[d]
    BY <2>3, Goes DEF Check, TypeOK, StorageInv
  <2>5. AllStored(report)'
    BY <1>1, <1>2, <2>1, AllStoredStays
  <2>6. CallOK(c)'
    BY <2>4, <2>5 DEF CallOK, At, ForReport, AllStored, Stored
  <2>7. QED
    BY <2>1, <2>4, <2>6, QuietStep DEF Check
<1>3. CASE ~AllStored(report)
  BY <1>1, <1>3, RaiseOK DEF Check, Raise, StorageInv, TypeOK
<1>4. QED
  BY <1>2, <1>3

LEMMA PublishManifestOK ==
  ASSUME StorageInv, NEW c \in Callers, PublishManifest(c)
  PROVE  StorageInv' /\ Kept
<1>1. PICK report \in Reports : At(c, "publish_manifest") /\ report = call[c].report
  BY CallFields DEF StorageInv, PublishManifest
<1> DEFINE next == [step |-> "read_manifest", report |-> report]
<1>2. Kept
  BY DEF PublishManifest, Kept
<1>3. next \in Call /\ Go(c, next) /\ reports' = reports \cup {report}
  BY <1>1 DEF PublishManifest, Call
<1>4. TypeOK' /\ call'[c] = next /\ \A d \in Callers \ {c} : call'[d] = call[d]
  BY <1>1, <1>3, Goes DEF PublishManifest, TypeOK, StorageInv
<1>5. Reconstructs(report)'
  <2>1. AllStored(report) /\ Stored(report.object)
    BY <1>1 DEF StorageInv, CallOK
  <2>2. AllStored(report)' /\ Stored(report.object)'
    BY <1>1, <1>2, <2>1, AllStoredStays, StoredStays, RefsAreRefs
  <2>3. QED
    BY <1>3, <2>2 DEF Reconstructs, AllStored
<1>6. \A d \in Callers : CallOK(d)'
  <2>1. CallOK(c)'
    BY <1>4, <1>5 DEF CallOK, At, Reconstructs, Stored
  <2>2. ASSUME NEW d \in Callers \ {c} PROVE CallOK(d)'
    BY <1>2, <1>4, <2>2, OthersKeep
  <2>3. QED
    BY <2>1, <2>2
<1>7. ReportsReconstruct'
  <2>1. ASSUME NEW other \in reports' PROVE Reconstructs(other)'
    <3>1. CASE other \in reports
      BY <1>2, <3>1, ReconstructsStays DEF ReportsReconstruct, StorageInv, TypeOK
    <3>2. CASE other = report
      BY <1>5, <3>2
    <3>3. QED
      BY <1>3, <3>1, <3>2
  <2>2. QED
    BY <2>1 DEF ReportsReconstruct
<1>8. ReturnedStands' /\ OneMarkerPerId'
  <2>1. ReturnedStands'
    BY <1>2, ReturnedStay DEF PublishManifest, ReturnedStands
  <2>2. OneMarkerPerId'
    BY DEF PublishManifest, StorageInv, OneMarkerPerId, InPlace
  <2>3. QED
    BY <2>1, <2>2
<1>9. QED
  BY <1>2, <1>4, <1>6, <1>7, <1>8 DEF StorageInv

LEMMA ReadManifestOK ==
  ASSUME StorageInv, NEW c \in Callers, ReadManifest(c)
  PROVE  StorageInv' /\ Kept
<1>1. At(c, "read_manifest") /\ call[c].report \in Reports
  BY CallFields DEF StorageInv, ReadManifest
<1>2. Reconstructs(call[c].report)
  BY <1>1 DEF StorageInv, CallOK
<1>3. QED
  BY <1>1, <1>2, ReturnOK DEF ReadManifest

LEMMA CreateMarkerOK ==
  ASSUME StorageInv, NEW c \in Callers, CreateMarker(c)
  PROVE  StorageInv' /\ Kept
<1> DEFINE marker == call[c].marker
           next == [step |-> "write_marker", marker |-> marker]
<1>1. marker \in Markers
  BY CallFields DEF StorageInv, CreateMarker
<1>2. Kept
  BY NothingMoves DEF CreateMarker
<1>3. next \in Call /\ Go(c, next)
  BY <1>1 DEF CreateMarker, Call
<1>4. drafts' \subseteq Draft
  <2>1. \A complete \in BOOLEAN :
          [marker |-> marker, owner |-> c, complete |-> complete] \in Draft
    BY <1>1 DEF Draft
  <2>2. QED
    BY <2>1 DEF CreateMarker, StorageInv, TypeOK
<1>5. TypeOK' /\ call'[c] = next /\ \A d \in Callers \ {c} : call'[d] = call[d]
  BY <1>3, <1>4, Goes DEF CreateMarker, TypeOK, StorageInv
<1>6. CallOK(c)'
  BY <1>5 DEF CallOK, At
<1>7. QED
  BY <1>2, <1>5, <1>6, QuietStep DEF CreateMarker

LEMMA WriteMarkerOK ==
  ASSUME StorageInv, NEW c \in Callers, WriteMarker(c)
  PROVE  StorageInv' /\ Kept
<1> DEFINE marker == call[c].marker
           next == [step |-> "rename_marker", marker |-> marker]
<1>1. marker \in Markers
  BY CallFields DEF StorageInv, WriteMarker
<1>2. Kept
  BY NothingMoves DEF WriteMarker
<1>3. next \in Call /\ Go(c, next)
  BY <1>1 DEF WriteMarker, Call
<1>4. drafts' \subseteq Draft
  <2>1. \A complete \in BOOLEAN :
          [marker |-> marker, owner |-> c, complete |-> complete] \in Draft
    BY <1>1 DEF Draft
  <2>2. QED
    BY <2>1 DEF WriteMarker, StorageInv, TypeOK
<1>5. TypeOK' /\ call'[c] = next /\ \A d \in Callers \ {c} : call'[d] = call[d]
  BY <1>3, <1>4, Goes DEF WriteMarker, TypeOK, StorageInv
<1>6. CallOK(c)'
  BY <1>5 DEF CallOK, At
<1>7. QED
  BY <1>2, <1>5, <1>6, QuietStep DEF WriteMarker

(* The rename adds a marker only under a name that is free.                  *)
LEMMA RenameMarkerOK ==
  ASSUME StorageInv, NEW c \in Callers, RenameMarker(c)
  PROVE  StorageInv' /\ Kept
<1>1. PICK marker \in Markers : marker = call[c].marker
  BY CallFields DEF StorageInv, RenameMarker
<1> DEFINE next == [step |-> "read_marker", marker |-> marker,
                    created |-> InPlace(marker) = {}]
<1>2. Kept
  BY <1>1 DEF RenameMarker, Placed, Kept
<1>3. next \in Call /\ Go(c, next)
  BY <1>1 DEF RenameMarker, Call
<1>4. drafts' \subseteq Draft /\ markers' \subseteq Markers
  BY <1>1 DEF RenameMarker, Placed, DraftsOf, StorageInv, TypeOK
<1>5. TypeOK' /\ call'[c] = next /\ \A d \in Callers \ {c} : call'[d] = call[d]
  BY <1>3, <1>4, Goes DEF RenameMarker, TypeOK, StorageInv
<1>6. \A d \in Callers : CallOK(d)'
  <2>1. CallOK(c)'
    <3>1. InPlace(marker) = {} => marker \in markers'
      BY <1>1 DEF RenameMarker, Placed
    <3>2. /\ call'[c].step = "read_marker" /\ call'[c].marker = marker
          /\ call'[c].created = (InPlace(marker) = {})
      BY <1>5
    <3>3. QED
      BY <3>1, <3>2 DEF CallOK, At
  <2>2. ASSUME NEW d \in Callers \ {c} PROVE CallOK(d)'
    BY <1>2, <1>5, <2>2, OthersKeep
  <2>3. QED
    BY <2>1, <2>2
<1>7. ReturnedStands' /\ ReportsReconstruct'
  BY <1>2, ReturnedStay, ReconstructsStays
     DEF RenameMarker, ReturnedStands, ReportsReconstruct, StorageInv, TypeOK
<1>8. OneMarkerPerId'
  BY <1>1 DEF RenameMarker, Placed, StorageInv, OneMarkerPerId, InPlace
<1>9. QED
  BY <1>2, <1>5, <1>6, <1>7, <1>8 DEF StorageInv

LEMMA ReadMarkerOK ==
  ASSUME StorageInv, NEW c \in Callers, ReadMarker(c)
  PROVE  StorageInv' /\ Kept
<1>1. At(c, "read_marker") /\ call[c].marker \in Markers
  BY CallFields DEF StorageInv, ReadMarker
<1>2. PICK marker \in InPlace(call[c].marker) :
        IF Agrees(c, marker)
        THEN Return(c, "marker", call[c].marker, marker)
        ELSE Raise(c)
  BY DEF ReadMarker
<1>3. CASE Agrees(c, marker)
  <2>1. marker \in markers /\ marker = call[c].marker
    BY <1>1, <1>2, <1>3 DEF Agrees, InPlace, StorageInv, CallOK, OneMarkerPerId
  <2>2. QED
    BY <1>1, <1>2, <1>3, <2>1, ReturnOK DEF ReadMarker
<1>4. CASE ~Agrees(c, marker)
  BY <1>2, <1>4, RaiseOK DEF ReadMarker, StorageInv, TypeOK
<1>5. QED
  BY <1>3, <1>4

LEMMA EndOK ==
  ASSUME StorageInv, NEW c \in Callers, Fail(c) \/ Die(c)
  PROVE  StorageInv' /\ Kept
<1>1. drafts' \subseteq Draft
  <2>1. CASE Fail(c)
    BY <2>1 DEF Fail, DraftsOf, StorageInv, TypeOK
  <2>2. CASE Die(c)
    <3>1. \A draft \in DraftsOf(c) : [draft EXCEPT !.owner = None] \in Draft
      BY DEF DraftsOf, Draft, StorageInv, TypeOK
    <3>2. QED
      BY <2>2, <3>1 DEF Die, DraftsOf, StorageInv, TypeOK
  <2>3. QED
    BY <2>1, <2>2
<1>2. QED
  BY <1>1, RaiseOK DEF Fail, Die

LEMMA StorageInit == Init => StorageInv
<1> SUFFICES ASSUME Init PROVE StorageInv
  OBVIOUS
<1>1. TypeOK
  BY DEF Init, TypeOK, Call
<1>2. ReturnedStands /\ ReportsReconstruct /\ OneMarkerPerId
  BY DEF Init, ReturnedStands, ReportsReconstruct, OneMarkerPerId
<1>3. \A c \in Callers : CallOK(c)
  BY DEF Init, CallOK, At, NoCall
<1>4. QED
  BY <1>1, <1>2, <1>3 DEF StorageInv

LEMMA StorageNext == StorageInv /\ [Next]_vars => StorageInv' /\ Kept
<1> SUFFICES ASSUME StorageInv, [Next]_vars PROVE StorageInv' /\ Kept
  OBVIOUS
<1>1. ASSUME NEW c \in Callers, Begin(c) PROVE StorageInv' /\ Kept
  BY <1>1, BeginOK, NothingMoves DEF Begin, Put, PutReport, RecordRetention
<1>2. ASSUME NEW c \in Callers, Step(c) PROVE StorageInv' /\ Kept
  BY <1>2, PublishOK, ReadBackOK, CheckOK, PublishManifestOK, ReadManifestOK,
     CreateMarkerOK, WriteMarkerOK, RenameMarkerOK, ReadMarkerOK DEF Step
<1>3. ASSUME NEW c \in Callers, Fail(c) \/ Die(c) PROVE StorageInv' /\ Kept
  BY <1>3, EndOK
<1>4. CASE UNCHANGED vars
  <2>1. Kept
    BY <1>4, NothingMoves DEF vars
  <2>2. TypeOK'
    BY <1>4 DEF vars, TypeOK, StorageInv
  <2>3. ReturnedStands' /\ ReportsReconstruct' /\ OneMarkerPerId'
    BY <1>4, <2>1, ReturnedStay, ReconstructsStays
       DEF vars, ReturnedStands, ReportsReconstruct, OneMarkerPerId, InPlace,
           StorageInv, TypeOK
  <2>4. \A c \in Callers : CallOK(c)'
    BY <1>4, <2>1, OthersKeep DEF vars
  <2>5. QED
    BY <2>1, <2>2, <2>3, <2>4 DEF StorageInv
<1>5. QED
  BY <1>1, <1>2, <1>3, <1>4 DEF Next

LEMMA StorageInvHolds == Spec => []StorageInv
  BY StorageInit, StorageNext, PTL DEF Spec

---------------------------------------------------------------------------
(* Every variable keeps its type.                                            *)
THEOREM StorageTypeCorrect == Spec => []TypeOK
<1>1. StorageInv => TypeOK
  BY DEF StorageInv
<1>2. QED
  BY <1>1, StorageInvHolds, PTL

(* What put, put_report and record_retention returned stands for ever,       *)
(* whoever won the races and whoever died.                                   *)
THEOREM AnswersKept == Spec => []ReturnedStands
<1>1. StorageInv => ReturnedStands
  BY DEF StorageInv
<1>2. QED
  BY <1>1, StorageInvHolds, PTL

(* Every manifest in place can be reconstructed.                             *)
THEOREM ManifestsAreComplete == Spec => []ReportsReconstruct
<1>1. StorageInv => ReportsReconstruct
  BY DEF StorageInv
<1>2. QED
  BY <1>1, StorageInvHolds, PTL

(* A marker id of an object has one meaning.                                 *)
THEOREM MarkersAreUnique == Spec => []OneMarkerPerId
<1>1. StorageInv => OneMarkerPerId
  BY DEF StorageInv
<1>2. QED
  BY <1>1, StorageInvHolds, PTL

(* Nothing in place is ever replaced or removed.                             *)
THEOREM StorageIsImmutable == Spec => NothingIsReplaced
<1>1. StorageInv /\ [Next]_vars =>
        [/\ \A content \in Contents :
              objects[content] # None => objects'[content] = objects[content]
         /\ reports \subseteq reports'
         /\ markers \subseteq markers']_vars
  BY StorageNext DEF Kept
<1>2. QED
  BY <1>1, StorageInvHolds, PTL DEF Spec, NothingIsReplaced
============================================================================
