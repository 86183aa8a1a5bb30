-------------------------------- MODULE MCRtc --------------------------------
(* Model checking of Rtc; the bounds are in the .cfg files.                *)
EXTENDS Rtc

\* The limits of the accepted range and their neighbours, and what is no power
\* of two.
FreqValues == {-1, 0, 1, 2, 3, 4, 512, 1023, 1024, 1025, 2048}
=============================================================================
