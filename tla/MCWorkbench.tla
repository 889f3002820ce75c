--------------------------- MODULE MCWorkbench ----------------------------
(* An instance of the workbench for model checking.                          *)
EXTENDS WorkbenchProperties, TLC

CONSTANTS sample, slice, pasted, blank

Row(id, valid) == [id |-> id, valid |-> valid]

MCSamples == {[text |-> sample, format |-> "csv", label |-> "sample"]}

MCDemoSlice == [text |-> slice, format |-> "csv", label |-> "slice"]

(* The pasted rows have an invalid row that takes the id of a valid one, and *)
(* no account.                                                               *)
MCRowsOf ==
  LET csv(rows) == ("csv" :> rows) @@ ("json" :> NotParsed)
  IN (sample :> csv(<<Row("t1", TRUE), Row("t2", TRUE)>>))
     @@ (slice :> csv(<<Row("t1", TRUE)>>))
     @@ (pasted :> csv(<<Row("t1", FALSE), Row("t1", TRUE), Row("t2", TRUE),
                         Row("t2", TRUE)>>))
     @@ (blank :> csv(<<>>))

(* A transfer of the sample is with a device, and so is what the slice has   *)
(* of infrastructure.                                                        *)
MCDeviceRows ==
  (sample :> {"transfers"}) @@ (slice :> {"infrastructure"}) @@ (pasted :> {})
===========================================================================
