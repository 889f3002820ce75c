-------------------------- MODULE MCObjectStorage --------------------------
(* Instances of object storage for model checking.                           *)
EXTENDS ObjectStorageProperties, TLC

CONSTANTS x, y, text, pdf, plain, tagged

R(content, media) == [content |-> content, media |-> media]

(* A report whose own object is y, made from x.                              *)
OneReport ==
  {[report_key |-> "weekly", object |-> R(y, pdf), dependencies |-> {R(x, text)}]}

M(id, disposition) ==
  [content |-> x, marker_id |-> id, disposition |-> disposition]

(* Two callers may use one marker id for different dispositions.             *)
TwoMarkers == {M("m", "hold"), M("m", "expire")}

(* Callers are alike.                                                        *)
Alike == Permutations(Callers)
===========================================================================
