------------------------------ MODULE DriveBus -------------------------------
(***************************************************************************)
(* The messages between the drive FSM of the centre console and the motor  *)
(* controller interface (mci).  Each direction is what Can.tla makes of    *)
(* the TX fifo of the sender, the bus and the RX fifo of the receiver: a   *)
(* bounded queue.  can_transmit ignores a full fifo, so a message may be   *)
(* lost there as well as on a bus that is off.                             *)
(***************************************************************************)
EXTENDS Integers, Sequences

CONSTANT BusSize    \* bound: messages under way in one direction

ASSUME BusAssumption == BusSize \in Nat \ {0}

VARIABLES toMci, toConsole

DriveOutputs == {"OFF", "DRIVE", "REVERSE"}     \* EEDriveOutput

Begin == [id |-> "BEGIN_PRECHARGE", data |-> "none"]
Discharge == [id |-> "DISCHARGE_PRECHARGE", data |-> "none"]
DriveOutput(o) == [id |-> "DRIVE_OUTPUT", data |-> o]
Completed == [id |-> "PRECHARGE_COMPLETED", data |-> "none"]
Ack(status) == [id |-> "ACK", data |-> status]

Put(bus, m) == IF Len(bus) < BusSize THEN Append(bus, m) ELSE bus

BusInit == toMci = <<>> /\ toConsole = <<>>

BusTypeOK ==
  /\ Len(toMci) =< BusSize /\ Len(toConsole) =< BusSize
  /\ \A i \in DOMAIN toMci : toMci[i] \in {Begin, Discharge} \cup {DriveOutput(o) : o \in DriveOutputs}
  /\ \A i \in DOMAIN toConsole : toConsole[i] \in {Completed, Ack("OK"), Ack("INVALID")}
=============================================================================
