----------------------------- MODULE MCSoftTimer -----------------------------
(* Values for TLC: the counter rolls over after 10 steps instead of 2^32.  *)
EXTENDS SoftTimer

\* No start is misdated and no handler finds the counter rolled over: what is left of the ways
\* to be late is the comparison with the first element.
Undisturbed == misdated = {} /\ ~(update /\ handler = "fire")
=============================================================================
