------------------------ MODULE MCControllerServer ------------------------
(* Instances of ControllerServer for TLC: two names that differ only in    *)
(* case.                                                                   *)
EXTENDS ControllerServer, TLC

CONSTANTS upper, lower

FoldCase == (upper :> lower) @@ (lower :> lower)
=============================================================================
