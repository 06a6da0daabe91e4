----------------------------- MODULE DriveTrain ------------------------------
(***************************************************************************)
(* The centre console and the motor controller interface together: what    *)
(* the console takes to be the drive state against what the motor          *)
(* controllers are told.                                                   *)
(***************************************************************************)
EXTENDS ConsoleDrive, MciDrive

VARIABLE crossed   \* an ACK timeout overtook its answer, or a press was not waited out (history)

trainVars == <<toMci, toConsole, driveVars, mciVars, crossed>>

TrainInit == BusInit /\ DriveInit /\ MciInit /\ crossed = FALSE

\* The answer to a command may still come.
AnswerUnderWay ==
  \/ \E i \in DOMAIN toMci : toMci[i].id = "DRIVE_OUTPUT"
  \/ handler.answer # "none"
  \/ \E i \in DOMAIN toConsole : toConsole[i].id = "ACK"
  \/ \E i \in DOMAIN events : events[i].id = "RX" /\ events[i].data.id = "ACK"

\* The bus is off, or the mci does not look at its messages until they are overwritten.
LoseToMci ==
  toMci # <<>> /\ toMci' = Tail(toMci) /\ UNCHANGED <<toConsole, driveVars, mciVars, crossed>>
LoseToConsole ==
  toConsole # <<>> /\ toConsole' = Tail(toConsole) /\ UNCHANGED <<toMci, driveVars, mciVars, crossed>>

\* The request of a command that a fault broke off still waits for its answer.
Orphan == retry.waiting > 0 /\ drive.fsm # "set_motorcontroller_output"

Press(b) == PressDrive(b) /\ crossed' = (crossed \/ PressPending \/ Orphan)

CommandTimesOut == CommandTimeout /\ crossed' = (crossed \/ AnswerUnderWay)

ConsoleGoesOn == (ConsoleLoop \/ PrechargeTimeout) /\ UNCHANGED crossed

ConsoleNext == ConsoleGoesOn \/ CommandTimesOut \/ \E b \in Destinations : Press(b)

TrainNext ==
  \/ MciGoesOn /\ UNCHANGED <<driveVars, crossed>>
  \/ handler.at = "idle" /\ ((ConsoleReceives /\ UNCHANGED <<mciVars, crossed>>) \/ LoseToConsole)
  \/ /\ handler.at = "idle" /\ toConsole = <<>>
     /\ \/ (ConsoleNext /\ UNCHANGED mciVars)
        \/ (MciBegins /\ UNCHANGED <<driveVars, crossed>>)
        \/ LoseToMci

\* A message is handled or lost.
Delivered ==
  \/ (ConsoleReceives /\ UNCHANGED <<mciVars, crossed>>) \/ LoseToConsole
  \/ ((DriveOutputRx \/ PrechargeRx \/ DischargeRx) /\ UNCHANGED <<driveVars, crossed>>) \/ LoseToMci

\* The console's main loop runs on, its soft timers expire, a handler of the mci comes to its
\* end, and a message is not under way for ever.
TrainFairness ==
  /\ WF_trainVars(ConsoleLoop /\ UNCHANGED <<mciVars, crossed>>)
  /\ WF_trainVars(PrechargeTimeout /\ UNCHANGED <<mciVars, crossed>>)
  /\ WF_trainVars(CommandTimesOut /\ UNCHANGED mciVars)
  /\ WF_trainVars(MciGoesOn /\ UNCHANGED <<driveVars, crossed>>)
  /\ WF_trainVars(Delivered)

TrainSpec == TrainInit /\ [][TrainNext]_trainVars /\ TrainFairness

-----------------------------------------------------------------------------
(* Properties *)

\* Both boards, and with them a single request of the retry wrapper in the ACK table.
TrainTypeOK ==
  /\ BusTypeOK /\ DriveTypeOK /\ MciTypeOK
  /\ crossed \/ retry.waiting =< 1

\* The FSM of the console is in drive or reverse only when that is the output of the mci: over
\* lost commands, lost answers, retries and requests that change the destination meanwhile
\* (drive_fsm.c:66-72, mci drive_fsm.c:86-105).  It holds until an answer comes later than the
\* ACK timeout of its request, a press before the one before was acted on, or a press while the
\* request of a command a fault broke off still waits.
DriveMeansDriving ==
  \/ crossed
  \/ /\ drive.fsm = "drive" => mci.output = "DRIVE"
     /\ drive.fsm = "reverse" => mci.output = "REVERSE"

\* States that wait for an event the FSM, a timer or the mci will bring.
InTransition == drive.fsm \in {"set_precharge", "set_motorcontroller_output", "fault"}

\* Precharging, commanding and recovering all end: whatever is lost, a timer brings the FSM on,
\* and no late event leaves it waiting for one that was used up before.
DriveTransitionEnds == InTransition ~> ~InTransition \/ crossed
=============================================================================
