--------------------------- MODULE ObjectStorage ---------------------------
(* FilesystemStorage of apps/api/storage/filesystem.py: content-addressed     *)
(* objects, report manifests that bind a report to the objects it was made    *)
(* from, and retention markers.  Everything is published by one routine that  *)
(* fills a temporary sibling directory and renames it into place.  Callers    *)
(* are threads or processes without a common lock; they interleave between    *)
(* file-system steps, fail with a cleanup or die without one.                 *)
(*                                                                            *)
(* A content stands for its digest, and for its size.  A temporary directory  *)
(* is state only where a reader can meet it: retention_markers searches the   *)
(* whole tree for marker files, the other readers open exact names.  Nothing  *)
(* is ever deleted, so the two reads of an object that get makes see the same *)
(* directory and are one step, and so are the checks of a report's            *)
(* dependencies, each of which stays true once it is.  Tampering with stored  *)
(* files is outside.                                                          *)
(*                                                                            *)
(* A definition introduced by "Fault:" is a deliberately wrong variant of the *)
(* definition after it, used by no specification.                             *)

CONSTANTS
  Callers,       \* threads or processes
  Contents,      \* object contents
  Media,         \* media types
  Metadata,      \* application metadata of objects
  Plain,         \* the empty metadata, which a report's object has
  Reports,       \* the reports that may be put: see Report
  Markers,       \* the retention markers that may be recorded: see Marker
  None           \* no object, no report, nobody

ASSUME PlainAssumption == Plain \in Metadata

Ref == [content : Contents, media : Media]

(* What identifies a manifest: its key, its object and the exact objects it   *)
(* depends on.                                                                *)
Report == [report_key : STRING, object : Ref, dependencies : SUBSET Ref]

(* What identifies a marker's directory, and what the marker says.            *)
Marker == [content : Contents, marker_id : STRING, disposition : STRING]

ASSUME InputAssumption == Reports \subseteq Report /\ Markers \subseteq Marker

(* A stored object; created_at is the caller whose rename stored it.          *)
Object == [media : Media, metadata : Metadata, created_at : Callers]

ASSUME NoneAssumption == None \notin Object \cup Reports \cup Callers

Puts == [content : Contents, media : Media, metadata : Metadata]

VARIABLES
  objects,   \* objects/sha256: content -> object or None
  reports,   \* reports: the manifests in place
  markers,   \* retention: the markers in place
  drafts,    \* temporary marker directories that hold a marker file
  call,      \* the call each caller is in
  returned   \* history: what calls returned, with what was asked

vars == <<objects, reports, markers, drafts, call, returned>>

(* A draft belongs to a call until its process dies.                          *)
Draft == [marker : Markers, owner : Callers \cup {None}, complete : BOOLEAN]

NoCall == [step |-> "idle"]

Call == {NoCall}
        \cup [step : {"publish"}, put : Puts, report : Reports \cup {None}]
        \cup [step : {"read_back"}, put : Puts, report : Reports \cup {None},
              created : BOOLEAN]
        \cup [step : {"check", "publish_manifest", "read_manifest"},
              report : Reports]
        \cup [step : {"create_marker", "write_marker", "rename_marker"},
              marker : Markers]
        \cup [step : {"read_marker"}, marker : Markers, created : BOOLEAN]

Init ==
  /\ objects = [content \in Contents |-> None]
  /\ reports = {}
  /\ markers = {}
  /\ drafts = {}
  /\ call = [c \in Callers |-> NoCall]
  /\ returned = {}

At(c, step) == call[c].step = step

Go(c, next) == call' = [call EXCEPT ![c] = next]

Return(c, kind, asked, given) ==
  /\ Go(c, NoCall)
  /\ returned' = returned \cup {[kind |-> kind, asked |-> asked, given |-> given]}

Raise(c) == Go(c, NoCall) /\ UNCHANGED returned

Stored(ref) == objects[ref.content] # None /\ objects[ref.content].media = ref.media

---------------------------------------------------------------------------
(* put                                                                        *)

Put(c, put) ==
  /\ At(c, "idle")
  /\ Go(c, [step |-> "publish", put |-> put, report |-> None])
  /\ UNCHANGED <<objects, reports, markers, drafts, returned>>

ObjectOf(c, put) ==
  [media |-> put.media, metadata |-> put.metadata, created_at |-> c]

(* Fault: the rename replaces what is there.                                  *)
RenamedOver(content, object) == object

(* What is in place after a rename: it never replaces a stored object.        *)
Renamed(content, object) ==
  IF objects[content] = None THEN object ELSE objects[content]

(* _publish_directory of an object: write the temporary directory, rename.    *)
Publish(c) ==
  LET put == call[c].put
  IN  /\ At(c, "publish")
      /\ objects' = [objects EXCEPT ![put.content] =
                       Renamed(put.content, ObjectOf(c, put))]
      /\ Go(c, [step |-> "read_back", put |-> put, report |-> call[c].report,
                created |-> objects[put.content] = None])
      /\ UNCHANGED <<reports, markers, drafts, returned>>

(* Fault: an object found in place is returned whatever it is.                *)
AcceptsAnything(c, put, object) == TRUE

Accepts(c, put, object) ==
  \/ call[c].created
  \/ object.media = put.media /\ object.metadata = put.metadata

(* The end of put: what is stored is returned, or refused when it was there   *)
(* before with another description.  A report goes on to its manifest.        *)
ReadBack(c) ==
  LET put == call[c].put
      object == objects[put.content]
  IN  /\ At(c, "read_back")
      /\ IF ~Accepts(c, put, object) THEN Raise(c)
         ELSE IF call[c].report = None
         THEN Return(c, "object", put, object)
         ELSE /\ Go(c, [step |-> "publish_manifest", report |-> call[c].report])
              /\ UNCHANGED returned
      /\ UNCHANGED <<objects, reports, markers, drafts>>

---------------------------------------------------------------------------
(* put_report                                                                 *)

PutReport(c, report) ==
  /\ At(c, "idle")
  /\ Go(c, [step |-> "check", report |-> report])
  /\ UNCHANGED <<objects, reports, markers, drafts, returned>>

(* Fault: a dependency is looked up by its digest alone.                      *)
AllDigestsStored(report) ==
  \A ref \in report.dependencies : objects[ref.content] # None

AllStored(report) == \A ref \in report.dependencies : Stored(ref)

(* Every dependency must be stored as it is referenced; then the report's own *)
(* object is put, with empty metadata.                                        *)
Check(c) ==
  LET report == call[c].report
      put == [content |-> report.object.content, media |-> report.object.media,
              metadata |-> Plain]
  IN  /\ At(c, "check")
      /\ IF AllStored(report)
         THEN Go(c, [step |-> "publish", put |-> put, report |-> report])
         ELSE Go(c, NoCall)
      /\ UNCHANGED <<objects, reports, markers, drafts, returned>>

(* The manifest is published last, under its own digest.                      *)
PublishManifest(c) ==
  /\ At(c, "publish_manifest")
  /\ reports' = reports \cup {call[c].report}
  /\ Go(c, [step |-> "read_manifest", report |-> call[c].report])
  /\ UNCHANGED <<objects, markers, drafts, returned>>

ReadManifest(c) ==
  /\ At(c, "read_manifest")
  /\ Return(c, "report", call[c].report, call[c].report)
  /\ UNCHANGED <<objects, reports, markers, drafts>>

(* get_report succeeds: the manifest and every object it names are there.     *)
Reconstructs(report) ==
  report \in reports /\ \A ref \in report.dependencies \cup {report.object} : Stored(ref)

---------------------------------------------------------------------------
(* record_retention and retention_markers                                     *)

(* The object must be stored.                                                 *)
RecordRetention(c, marker) ==
  /\ At(c, "idle")
  /\ objects[marker.content] # None
  /\ Go(c, [step |-> "create_marker", marker |-> marker])
  /\ UNCHANGED <<objects, reports, markers, drafts, returned>>

(* write_bytes creates the marker file and then fills it.                     *)
CreateMarker(c) ==
  LET marker == call[c].marker
  IN  /\ At(c, "create_marker")
      /\ drafts' = drafts \cup {[marker |-> marker, owner |-> c, complete |-> FALSE]}
      /\ Go(c, [step |-> "write_marker", marker |-> marker])
      /\ UNCHANGED <<objects, reports, markers, returned>>

DraftsOf(c) == {draft \in drafts : draft.owner = c}

WriteMarker(c) ==
  LET marker == call[c].marker
  IN  /\ At(c, "write_marker")
      /\ drafts' = (drafts \ DraftsOf(c))
                     \cup {[marker |-> marker, owner |-> c, complete |-> TRUE]}
      /\ Go(c, [step |-> "rename_marker", marker |-> marker])
      /\ UNCHANGED <<objects, reports, markers, returned>>

(* The markers under one name: a name is a digest and a marker id.            *)
InPlace(marker) ==
  {m \in markers : m.content = marker.content /\ m.marker_id = marker.marker_id}

(* Fault: a marker's directory is named after its content too.                *)
PlacedBesides(marker) == markers \cup {marker}

Placed(marker) == IF InPlace(marker) = {} THEN markers \cup {marker} ELSE markers

(* The rename, or the removal of the temporary directory when it loses.       *)
RenameMarker(c) ==
  LET marker == call[c].marker
  IN  /\ At(c, "rename_marker")
      /\ markers' = Placed(marker)
      /\ drafts' = drafts \ DraftsOf(c)
      /\ Go(c, [step |-> "read_marker", marker |-> marker,
                created |-> InPlace(marker) = {}])
      /\ UNCHANGED <<objects, reports, returned>>

Agrees(c, marker) == call[c].created \/ marker = call[c].marker

ReadMarker(c) ==
  /\ At(c, "read_marker")
  /\ \E marker \in InPlace(call[c].marker) :
       IF Agrees(c, marker)
       THEN Return(c, "marker", call[c].marker, marker)
       ELSE Raise(c)
  /\ UNCHANGED <<objects, reports, markers, drafts>>

---------------------------------------------------------------------------
(* The call raises; its temporary directory is removed on the way out.        *)
Fail(c) ==
  /\ ~At(c, "idle")
  /\ Raise(c)
  /\ drafts' = drafts \ DraftsOf(c)
  /\ UNCHANGED <<objects, reports, markers>>

(* The process dies: its temporary directory stays.                           *)
Die(c) ==
  /\ ~At(c, "idle")
  /\ Raise(c)
  /\ drafts' = (drafts \ DraftsOf(c))
                 \cup {[draft EXCEPT !.owner = None] : draft \in DraftsOf(c)}
  /\ UNCHANGED <<objects, reports, markers>>

Begin(c) ==
  \/ \E put \in Puts : Put(c, put)
  \/ \E report \in Reports : PutReport(c, report)
  \/ \E marker \in Markers : RecordRetention(c, marker)

Step(c) ==
  \/ Publish(c) \/ ReadBack(c)
  \/ Check(c) \/ PublishManifest(c) \/ ReadManifest(c)
  \/ CreateMarker(c) \/ WriteMarker(c) \/ RenameMarker(c) \/ ReadMarker(c)

Next == \E c \in Callers : Begin(c) \/ Step(c) \/ Fail(c) \/ Die(c)

Spec == Init /\ [][Next]_vars
============================================================================
