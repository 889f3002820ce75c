------------------------------- MODULE Page -------------------------------
(* The page with what it waits for: the graph's layout with the images being *)
(* read, and the client with the bootstrap and the logins being answered.  A *)
(* login that succeeds, or a logout, loads the page again and takes the      *)
(* layout and all reads with it; until its bootstrap has ended, the page     *)
(* takes no input.                                                           *)
EXTENDS GraphLayout, DemoClient

vars == <<graph, client>>

Init == LayoutInit /\ ClientInit

PageLoads == (FinishLogin \/ Logout \/ Reload) /\ LoadLayout

Next ==
  \/ Ready /\ LayoutStep /\ UNCHANGED client
  \/ (Bootstrap \/ StartLogin \/ LoginFails \/ OtherTabLogsIn) /\ UNCHANGED graph
  \/ PageLoads

Spec == Init /\ [][Next]_vars
===========================================================================
