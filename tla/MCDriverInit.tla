---------------------------- MODULE MCDriverInit ----------------------------
(* Model checking of DriverInit: threads are model values.                 *)
EXTENDS DriverInit
=============================================================================
