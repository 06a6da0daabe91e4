------------------------------ MODULE MCCanAck ------------------------------
(* Values for TLC: two request nodes, three soft timers, one message with  *)
(* a single addressee and one with two.                                    *)
EXTENDS CanAck

CONSTANTS a, b

MCRequests == {<<0, {a}>>, <<1, {a, b}>>}

\* The interrupt strikes between two calls, and where a callback has rejected an ACK.
RejectPoints == {"idle", "reject"}

\* The interrupt strikes anywhere.
AllPoints == Points \ {"lost"}

\* What follows an interrupt that does damage is not explored.
NotTorn == ~torn
=============================================================================
