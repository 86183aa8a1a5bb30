----------------------------- MODULE MCProcesses -----------------------------
(* Model checking of Processes on small instances; the bounds are in the   *)
(* .cfg files.                                                             *)
EXTENDS ProcessesRefinement
=============================================================================
