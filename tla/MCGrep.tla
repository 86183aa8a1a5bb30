-------------------------------- MODULE MCGrep --------------------------------
(* Model checking of Grep: a buffer of 3 bytes, and all files of up to 7   *)
(* bytes over two letters, newline and NUL.                                *)
EXTENDS Grep

CONSTANTS a, b
PatternSet == { <<a>>, <<a, b>> }
=============================================================================
