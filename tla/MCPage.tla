------------------------------ MODULE MCPage ------------------------------
(* An instance of the page for model checking.                               *)
EXTENDS PageProperties, TLC

CONSTANTS first, other, n1, n2, api

OneNodeEach == (first :> {n1}) @@ (other :> {n2})
===========================================================================
