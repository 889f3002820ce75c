---------------------- MODULE ObjectStorageProperties ----------------------
(* What object storage must keep true.                                       *)
EXTENDS ObjectStorage

(* Every variable has its type.                                              *)
TypeOK ==
  /\ objects \in [Contents -> Object \cup {None}]
  /\ reports \subseteq Reports
  /\ markers \subseteq Markers
  /\ drafts \subseteq Draft
  /\ call \in [Callers -> Call]
  /\ returned \subseteq [kind : {"object"}, asked : Puts, given : Object]
                        \cup [kind : {"report"}, asked : Reports, given : Reports]
                        \cup [kind : {"marker"}, asked : Markers, given : Markers]

(* A call that returned keeps its word.  Whoever won the race, the object    *)
(* returned by put is the one stored, for ever, and it is what the caller    *)
(* asked for except for its time; the report returned by put_report can be   *)
(* reconstructed; record_retention returned the marker asked for, in place. *)
ReturnedStands ==
  \A value \in returned :
    /\ value.kind = "object" =>
         /\ objects[value.asked.content] = value.given
         /\ value.given.media = value.asked.media
         /\ value.given.metadata = value.asked.metadata
    /\ value.kind = "report" => Reconstructs(value.given)
    /\ value.kind = "marker" => /\ value.given \in markers
                                /\ value.given = value.asked

(* No manifest is ever visible before everything it binds: whichever step a  *)
(* put_report fails or dies at, get_report of a manifest in place succeeds.  *)
ReportsReconstruct == \A report \in reports : Reconstructs(report)

(* A marker id of an object has one meaning.                                 *)
OneMarkerPerId == \A marker \in markers : InPlace(marker) = {marker}

(* "Existing entries are never replaced": objects, manifests and markers in  *)
(* place stay as they are.                                                   *)
NothingIsReplaced ==
  [][/\ \A content \in Contents :
          objects[content] # None => objects'[content] = objects[content]
     /\ reports \subseteq reports'
     /\ markers \subseteq markers']_vars
===========================================================================
