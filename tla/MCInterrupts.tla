---------------------------- MODULE MCInterrupts ----------------------------
(* Model checking of Interrupts; the bounds are in the .cfg file.          *)
EXTENDS Interrupts
=============================================================================
