-------------------------- MODULE PageProperties --------------------------
(* What should hold of the page's layout and of its bootstrap.               *)
EXTENDS Page

(* Undo and redo of the layout walk one timeline, as those of the workspace  *)
(* do, whatever happens between them: a drag that previews positions without *)
(* a checkpoint, an image that arrives late, a restored layout, a page that  *)
(* is loaded again.                                                          *)
LayoutTimeline == INSTANCE WorkspaceTimeline WITH
  Limit <- LayoutLimit,
  timeline <- undoLayouts \o <<layout>> \o Reverse(redoLayouts),
  cursor <- Len(undoLayouts) + 1

LayoutKeepsTheTimeline == LayoutTimeline!Spec

(* "verifies the UI fails closed instead of treating the static fallback as a *)
(* successful PostgreSQL validation" (docs/implementation/phase-4-test-      *)
(* report.md:52): a page that asked a demonstration API never ends up with   *)
(* the training fixture as its case, and one that asked its own server never *)
(* with the error of an API, whatever base URL other tabs store or clear     *)
(* while it waits for the answer.                                            *)
FailsClosed ==
  /\ transport = "static-training-fallback" => asked = NoApi
  /\ transport = "demo-api-error" => asked # NoApi

(* "Users can assign built-in icons and safe uploaded images to nodes"       *)
(* (docs/implementation/i2-better-ai-execution-checklist.md:82): a visual is *)
(* of a node of the case on the page.                                        *)
VisualsBelongToCase == DOMAIN layout.visuals \subseteq CurrentNodes
===========================================================================
