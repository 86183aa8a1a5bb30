------------------------------- MODULE MCPaging -------------------------------
(* Model checking of Paging on small instances; the bounds are in the .cfg *)
(* files.                                                                  *)
EXTENDS Paging
=============================================================================
