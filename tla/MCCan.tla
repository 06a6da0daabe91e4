-------------------------------- MODULE MCCan --------------------------------
(* Values for TLC: fifos of one or two messages stand for 32, an event     *)
(* queue of two for 20: other modules alone can fill it.                   *)
EXTENDS Can
=============================================================================
