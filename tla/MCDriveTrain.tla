---------------------------- MODULE MCDriveTrain -----------------------------
(* Values for TLC: two attempts at a command stand for five.  The motor    *)
(* controller interface handles a message in one go here (no StrikePoints);*)
(* MCBoards checks it against its interrupts.                              *)
EXTENDS DriveTrain

\* What follows a late answer, an early press or a stray edge is not explored.
NotCrossed == ~crossed /\ ~precharge.stray

\* Bound: four seconds are longer than anything takes on the bus, so the precharge timer expires
\* with no message to the mci under way and no request waiting.
PrechargeInTime == PrechargeTimeout => toMci = <<>> /\ retry.waiting = 0
=============================================================================
