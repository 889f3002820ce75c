------------------------ MODULE WorkspaceTimeline -------------------------
(* What undo and redo promise: one timeline of versions and a cursor on it.  *)
(* A change drops what lies ahead of the cursor and appends a version, of    *)
(* which the last Limit before it are kept; undo and redo only move the      *)
(* cursor; an amendment rewrites the version under the cursor.               *)
EXTENDS Naturals, Sequences

CONSTANT Limit

VARIABLES timeline, cursor

Recent(s) == IF Len(s) <= Limit THEN s ELSE SubSeq(s, Len(s) - Limit + 1, Len(s))

Start == Len(timeline) = 1 /\ cursor = 1

Change ==
  /\ cursor' = Len(timeline')
  /\ timeline' = Append(Recent(SubSeq(timeline, 1, cursor)), timeline'[cursor'])

Undo == cursor > 1 /\ cursor' = cursor - 1 /\ timeline' = timeline

Redo == cursor < Len(timeline) /\ cursor' = cursor + 1 /\ timeline' = timeline

Amend ==
  /\ cursor' = cursor
  /\ timeline' = [timeline EXCEPT ![cursor] = timeline'[cursor]]

(* A reload or a switch to another use case begins a new timeline.           *)
Restart == Len(timeline') = 1 /\ cursor' = 1

Next == Change \/ Undo \/ Redo \/ Amend \/ Restart

Spec == Start /\ [][Next]_<<timeline, cursor>>
===========================================================================
