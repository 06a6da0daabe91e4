---------------------------- MODULE ConsoleDrive -----------------------------
(***************************************************************************)
(* projects/centre_console: the drive FSM, the precharge monitor and the   *)
(* motor controller command with its retries.                              *)
(*                                                                         *)
(* A press of a drive button becomes a request of the event generator, the *)
(* request sends the FSM through precharge and a command to the motor      *)
(* controller, and what these bring comes back as events.  Everything runs *)
(* in the main loop except the button, the precharge timeout and the ACK   *)
(* timeout, which only raise events (the last also sends again).           *)
(*                                                                         *)
(* A received message is kept in its RX event (Can.tla: one event has one  *)
(* message).  No event is lost, since the queue stays far below its size.  *)
(***************************************************************************)
EXTENDS DriveBus

CONSTANT DriveRetries   \* NUM_MCI_OUTPUT_TX_RETRIES

ASSUME DriveAssumption == DriveRetries \in Nat \ {0}

VARIABLES
  events,         \* the event queue
  drive,          \* DriveFsmStorage: FSM state, destination, current_state
  precharging,    \* the timer of the precharge monitor is running
  retry           \* CanTxRetryWrapperStorage: retry_count, and drive_output while requests are under way;
                  \* waiting: number of its requests in the ACK table

driveVars == <<events, drive, precharging, retry>>

Destinations == {"NEUTRAL", "PARKING", "DRIVE", "REVERSE"}
NoDestination == "NUM_DRIVE_STATES"

DriveInit ==
  /\ events = <<>>
  /\ drive = [fsm |-> "neutral_discharged", destination |-> "NEUTRAL", current |-> "NEUTRAL"]
  /\ precharging = FALSE
  /\ retry = [count |-> 0, output |-> "OFF", waiting |-> 0]

Event(id, data) == [id |-> id, data |-> data]

DriveState == [events |-> events, drive |-> drive, precharging |-> precharging, retry |-> retry,
               toMci |-> toMci]

DriveBecomes(s) ==
  /\ events' = s.events /\ drive' = s.drive /\ precharging' = s.precharging
  /\ retry' = s.retry /\ toMci' = s.toMci

Raised(s, id) == [s EXCEPT !.events = Append(@, Event(id, "none"))]
Sent(s, m) == [s EXCEPT !.toMci = Put(@, m)]

-----------------------------------------------------------------------------
(* The precharge monitor                                                    *)

MonitorStarted(s) == [Sent(s, Begin) EXCEPT !.precharging = TRUE]

\* prv_precharge_completed_callback
MonitorCompleted(s) == Raised([s EXCEPT !.precharging = FALSE], "PRECHARGE_COMPLETED")

-----------------------------------------------------------------------------
(* The motor controller command, can_tx_retry_wrapper.c with retry_indefinitely unset *)

MciOutput == [NEUTRAL |-> "OFF", PARKING |-> "OFF", DRIVE |-> "DRIVE", REVERSE |-> "REVERSE"]
SuccessEvent(o) == CASE o = "OFF" -> "OUTPUT_OFF" [] o = "DRIVE" -> "OUTPUT_DRIVE" [] o = "REVERSE" -> "OUTPUT_REVERSE"

\* prv_try_tx: the request enters the ACK table even when the message is lost.
Tried(s) == Sent([s EXCEPT !.retry.waiting = @ + 1], DriveOutput(s.retry.output))

CommandSent(s, o) == Tried([s EXCEPT !.retry.output = o])

\* A request leaves the table; what the last one leaves behind is overwritten by the next command.
Left(s) == [s EXCEPT !.retry.waiting = @ - 1, !.retry.output = IF s.retry.waiting = 1 THEN "OFF" ELSE @]

\* Mutant: giving up is not reported.
Answered_silent(s, ok) ==
  LET t == Left(s)
      count == s.retry.count + 1
  IN CASE ok -> Raised([t EXCEPT !.retry.count = 0], SuccessEvent(s.retry.output))
       [] ~ok /\ count >= DriveRetries -> [t EXCEPT !.retry.count = 0]
       [] OTHER -> Tried([t EXCEPT !.retry.count = count, !.retry.output = s.retry.output])

\* Mutant: a bad status counts as success once the retries are used up.
Answered_success_after_all(s, ok) ==
  LET t == Left(s)
      count == s.retry.count + 1
  IN IF ok \/ count >= DriveRetries THEN Raised([t EXCEPT !.retry.count = 0], SuccessEvent(s.retry.output))
     ELSE Tried([t EXCEPT !.retry.count = count, !.retry.output = s.retry.output])

\* Mutant: the count of failures is not reset when the wrapper gives up.
Answered_count_kept(s, ok) ==
  LET t == Left(s)
      count == s.retry.count + 1
  IN CASE ok -> Raised([t EXCEPT !.retry.count = 0], SuccessEvent(s.retry.output))
       [] ~ok /\ count >= DriveRetries -> Raised([t EXCEPT !.retry.count = count], "FAULT")
       [] OTHER -> Tried([t EXCEPT !.retry.count = count, !.retry.output = s.retry.output])

\* prv_can_simple_ack: the request that was answered, or timed out, leaves the table.
Answered(s, ok) ==
  LET t == Left(s)
      count == s.retry.count + 1
  IN CASE ok -> Raised([t EXCEPT !.retry.count = 0], SuccessEvent(s.retry.output))
       [] ~ok /\ count >= DriveRetries -> Raised([t EXCEPT !.retry.count = 0], "FAULT")
       [] OTHER -> Tried([t EXCEPT !.retry.count = count, !.retry.output = s.retry.output])

-----------------------------------------------------------------------------
(* The drive FSM                                                            *)

To(state, ids) == [id \in ids |-> state]

\* The transition tables of all states but neutral_discharged, whose table is given; nothing raises
\* FAULT_RECOVER_BRAKE_PRESSED.
Tables(discharged) ==
  LET command == "set_motorcontroller_output"
  IN [neutral_discharged |-> discharged,
      neutral_precharged |-> [PARKING |-> "set_precharge", REVERSE |-> command, DRIVE |-> command,
                              FAULT |-> "fault"],
      drive   |-> [REVERSE |-> command, PARKING |-> command, NEUTRAL |-> command, FAULT |-> "fault"],
      reverse |-> [DRIVE |-> command, PARKING |-> command, NEUTRAL |-> command, FAULT |-> "fault"],
      parking |-> To("set_precharge", {"REVERSE", "NEUTRAL", "DRIVE"}),
      set_precharge |-> [PRECHARGE_COMPLETED |-> "neutral_precharged",
                         DISCHARGE_COMPLETED |-> "parking", FAULT |-> "fault"],
      set_motorcontroller_output |-> [OUTPUT_DRIVE |-> "drive", OUTPUT_REVERSE |-> "reverse",
                                      OUTPUT_OFF |-> "neutral_precharged", FAULT |-> "fault"],
      fault   |-> [FAULT_RECOVER_RELEASED |-> "neutral_discharged"]]

\* Mutant: a precharge that completes after its fault brings the FSM on.
DriveTransitions_late_precharge ==
  Tables([id \in Destinations \cup {"PRECHARGE_COMPLETED"} |->
            IF id \in Destinations THEN "set_precharge" ELSE "neutral_precharged"])

DriveTransitions == Tables(To("set_precharge", Destinations))

\* prv_fault_output; current_state is left as it is.
FaultEntered(s) ==
  Raised([Sent(s, Discharge) EXCEPT !.drive.destination = NoDestination], "FAULT_RECOVER_RELEASED")

\* prv_drive_fsm_destination_output: shows the destination, whatever state was entered.
DestinationShown(s) ==
  IF s.drive.destination = NoDestination THEN s ELSE [s EXCEPT !.drive.current = s.drive.destination]

PrechargeEntered(s) ==
  LET t == [s EXCEPT !.drive.current = "TRANSITIONING"]
  IN IF t.drive.destination = "PARKING" THEN Raised(Sent(t, Discharge), "DISCHARGE_COMPLETED")
     ELSE MonitorStarted(t)

\* The request that led here is raised again, for this state to act on.
NeutralPrechargedEntered(s) ==
  IF s.drive.destination = "NEUTRAL" THEN DestinationShown(s) ELSE Raised(s, s.drive.destination)

CommandEntered(s) ==
  CommandSent([s EXCEPT !.drive.current = "TRANSITIONING"], MciOutput[s.drive.destination])

\* The output function of a state; neutral_discharged has none.
Entered(s, f) ==
  LET t == [s EXCEPT !.drive.fsm = f]
  IN CASE f = "fault" -> FaultEntered(t)
       [] f = "set_precharge" -> PrechargeEntered(t)
       [] f = "neutral_precharged" -> NeutralPrechargedEntered(t)
       [] f = "set_motorcontroller_output" -> CommandEntered(t)
       [] f \in {"drive", "reverse", "parking"} -> DestinationShown(t)
       [] f = "neutral_discharged" -> t

\* drive_fsm_process_event: a request sets the destination whether the FSM takes it or not.
DriveHandled(s, e) ==
  LET t == IF e.id \in Destinations THEN [s EXCEPT !.drive.destination = e.id] ELSE s
      table == DriveTransitions[s.drive.fsm]
  IN IF e.id \in DOMAIN table THEN Entered(t, table[e.id]) ELSE t

\* prv_process_drive_reverse_event and prv_process_neutral_parking_event.
ButtonAccepted(s, button, main, charging, moving) ==
  /\ main
  /\ button \in {"DRIVE", "REVERSE"} =>
       /\ ~charging
       /\ s.drive.current # "TRANSITIONING"
       /\ s.drive.current \in {"DRIVE", "REVERSE"} => ~moving
  /\ button = "PARKING" => ~moving

\* can_process_event for a received message.
MessageHandled(s, m) ==
  CASE m.id = "PRECHARGE_COMPLETED" -> MonitorCompleted(s)
    [] m.id = "ACK" /\ s.retry.waiting > 0 -> Answered(s, m.data = "OK")
    [] OTHER -> s

-----------------------------------------------------------------------------
(* Steps                                                                    *)

\* One round of the main loop.  Power state, charging and speed are inputs.
ConsoleLoop ==
  /\ events # <<>>
  /\ LET e == Head(events)
         s == [DriveState EXCEPT !.events = Tail(@)]
     IN CASE e.id = "RX" -> DriveBecomes(MessageHandled(s, e.data))
          [] e.id = "BUTTON" ->
               \E main, charging, moving \in BOOLEAN :
                 DriveBecomes(IF ButtonAccepted(s, e.data, main, charging, moving)
                              THEN Raised(s, e.data) ELSE s)
          [] OTHER -> DriveBecomes(DriveHandled(s, e))
  /\ UNCHANGED toConsole

\* The CAN interrupt: a message reaches the RX fifo and raises its event.
ConsoleReceives ==
  /\ toConsole # <<>>
  /\ events' = Append(events, Event("RX", Head(toConsole)))
  /\ toConsole' = Tail(toConsole)
  /\ UNCHANGED <<drive, precharging, retry, toMci>>

\* A press, or the request it was turned into, is still in the queue.
PressPending == \E i \in DOMAIN events : events[i].id \in Destinations \cup {"BUTTON"}

PressDrive(button) ==
  /\ events' = Append(events, Event("BUTTON", button))
  /\ UNCHANGED <<drive, precharging, retry, toMci, toConsole>>

\* prv_timeout_cb of the precharge monitor.
PrechargeTimeout ==
  /\ precharging
  /\ DriveBecomes([Raised(DriveState, "FAULT") EXCEPT !.precharging = FALSE])
  /\ UNCHANGED toConsole

\* The ACK timeout of the oldest request.
CommandTimeout ==
  /\ retry.waiting > 0
  /\ DriveBecomes(Answered(DriveState, FALSE))
  /\ UNCHANGED toConsole

-----------------------------------------------------------------------------
(* Properties *)

DriveTypeOK ==
  /\ drive \in [fsm : DOMAIN DriveTransitions, destination : Destinations \cup {NoDestination},
                current : Destinations \cup {"TRANSITIONING"}]
  /\ precharging \in BOOLEAN
  /\ retry \in [count : 0 .. DriveRetries - 1, output : DriveOutputs, waiting : Nat]

\* Whenever an output function may index a table by the destination, the destination is in
\* the table: the value a fault leaves behind is gone before a late precharge or an answer to a
\* command sent earlier brings the FSM on (drive_fsm.c:113,130,155).
DestinationInRange ==
  drive.fsm \notin {"fault", "neutral_discharged"} => drive.destination \in Destinations
=============================================================================
