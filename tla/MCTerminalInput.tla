--------------------------- MODULE MCTerminalInput ---------------------------
(* Model checking of TerminalInput; the bounds are in the .cfg files.      *)
EXTENDS TerminalInput
=============================================================================
