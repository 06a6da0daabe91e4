------------------------------- MODULE Charger --------------------------------
(***************************************************************************)
(* projects/charger: the connection sense, the sequences that begin and    *)
(* stop a charge, and the messages that drive the charger, over the soft   *)
(* timers they share.                                                      *)
(*                                                                         *)
(* The connection is polled and the charger is told to go on by timers,    *)
(* and the charger reports its status through the MCP2515's interrupt; the *)
(* rest runs in the main loop.  Only the last timer of the messages is     *)
(* remembered, and its id is not forgotten when it is over.                *)
(*                                                                         *)
(* main.c does not call charger_controller_init, without which the first   *)
(* message would follow a null pointer: the modules are taken as their     *)
(* tests and the smoke test set them up.                                   *)
(***************************************************************************)
EXTENDS Integers, SequencesExt

CONSTANTS
  ChargerTimers,   \* number of soft timers left to these modules
  ChargerEvents    \* bound: events waiting in the queue

ASSUME ChargerAssumption == ChargerTimers \in Nat \ {0} /\ ChargerEvents \in Nat \ {0}

ConnectionState == {"unplugged", "pressed", "released"}
ChargerIds == 0 .. ChargerTimers - 1

VARIABLES
  charger,   \* s_prev_state, the relay with its load switch and pilot, s_charger_timer_id
  alarms,    \* what each soft timer is for
  charges,   \* events raised and not yet processed
  stop,      \* point reached in charger_controller_deactivate, and the id read
  past       \* history: what happened since the charger was last told to stop or to begin

chargerVars == <<charger, alarms, charges, stop, past>>

Idling == [at |-> "no", id |-> 0]

-----------------------------------------------------------------------------
(* Soft timers *)

FreeAlarms == {i \in ChargerIds : alarms[i] = "none"}
NextAlarm == CHOOSE i \in FreeAlarms : \A j \in FreeAlarms : i =< j

\* soft_timer_start_millis in a callback: the timer that runs it is freed after it.
Restarted(from, what) ==
  [i \in ChargerIds |-> IF i = from THEN "none"
                        ELSE IF FreeAlarms # {} /\ i = NextAlarm THEN what ELSE alarms[i]]

\* prv_periodic_charger_tx, from one of its timers.
prv_periodic_charger_tx(i) ==
  /\ alarms[i] = "tx"
  /\ alarms' = Restarted(i, "tx")
  /\ charger' = IF FreeAlarms = {} THEN charger ELSE [charger EXCEPT !.id = NextAlarm]
  /\ past' = IF stop.at = "id read" THEN past \cup {"struck"} ELSE past
  /\ UNCHANGED <<charges, stop>>

-----------------------------------------------------------------------------
(* Connection and battery *)

ChargeRaised(events) ==
  IF Len(charges) + Len(events) =< ChargerEvents THEN charges \o events ELSE charges

\* Mutant: a connector that is pulled out slowly, its button pressed, goes unnoticed.
ConnectionEvents_of_released(prev, now) ==
  CASE prev = "released" /\ now = "unplugged" -> <<"stop">>
    [] prev # now /\ now = "released"  -> <<"begin">>
    [] OTHER                           -> <<>>

ConnectionEvents(prev, now) ==
  CASE prev # now /\ now = "unplugged" -> <<"stop">>
    [] prev # now /\ now = "released"  -> <<"begin">>
    [] OTHER                           -> <<>>

\* prv_periodic_cs_poll; a voltage that is in no range reads as unplugged.
prv_periodic_cs_poll(i) ==
  /\ alarms[i] = "poll" /\ Len(charges) < ChargerEvents
  /\ \E now \in ConnectionState :
       /\ charges' = ChargeRaised(ConnectionEvents(charger.prev, now))
       /\ charger' = [charger EXCEPT !.prev = now]
  /\ alarms' = Restarted(i, "poll")
  /\ UNCHANGED <<stop, past>>

\* prv_battery_monitor_rx, for a voltage over the threshold.
BatteryFull ==
  /\ stop.at = "no" /\ Len(charges) < ChargerEvents
  /\ charges' = Append(charges, "stop")
  /\ UNCHANGED <<charger, alarms, stop, past>>

-----------------------------------------------------------------------------
(* Sequences *)

\* begin_sequence_process_event asks the other boards for permission.
BeginEvent ==
  /\ stop.at = "no" /\ charges # <<>> /\ Head(charges) = "begin"
  /\ charges' = Tail(charges)
  /\ UNCHANGED <<charger, alarms, stop, past>>

\* Mutant: the id of the first timer is not kept.
Activated_forgets(c) == [c EXCEPT !.powered = TRUE]

Activated(c) == [c EXCEPT !.powered = TRUE, !.id = IF FreeAlarms = {} THEN @ ELSE NextAlarm]

\* prv_sequence with the charger on: the permission, asked for or not, is the only condition.
\* A status that comes within is as one that came before.
AllowRx ==
  /\ stop.at = "no"
  /\ charger' = Activated(charger)
  /\ alarms' = IF FreeAlarms = {} THEN alarms ELSE [alarms EXCEPT ![NextAlarm] = "tx"]
  /\ past' = (past \ {"stopped", "late"})
             \cup (IF "tx" \in Range(alarms) THEN {"doubled"} ELSE {})
             \cup (IF charger.prev = "unplugged" /\ "stop" \notin Range(charges)
                   THEN {"late"} ELSE {})
  /\ UNCHANGED <<charges, stop>>

\* prv_stop_sequence: the stop message is sent, then the timer's id is read and cancelled, then
\* the power is turned off.
StopEvent ==
  /\ stop.at = "no" /\ charges # <<>> /\ Head(charges) = "stop"
  /\ stop' = [stop EXCEPT !.at = "told"]
  /\ UNCHANGED <<charger, alarms, charges, past>>

ReadChargerId ==
  /\ stop.at = "told"
  /\ stop' = [at |-> "id read", id |-> charger.id]
  /\ UNCHANGED <<charger, alarms, charges, past>>

PowerDown ==
  /\ stop.at = "id read"
  /\ alarms' = [alarms EXCEPT ![stop.id] = "none"]
  /\ charger' = [charger EXCEPT !.powered = FALSE]
  /\ charges' = Tail(charges)
  /\ stop' = Idling
  /\ past' = past \cup {"stopped"}

\* prv_charger_can_rx, a status with a flag set: charger_controller_deactivate in an interrupt.
StatusFlagged ==
  /\ alarms' = [alarms EXCEPT ![charger.id] = "none"]
  /\ past' = past \cup {"stopped"}
  /\ UNCHANGED <<charger, charges, stop>>

-----------------------------------------------------------------------------

\* connection_sense_init starts the first timer; s_charger_timer_id is zero, the id of that timer.
ChargerInit ==
  /\ \E s \in ConnectionState : charger = [prev |-> s, powered |-> FALSE, id |-> 0]
  /\ alarms = [i \in ChargerIds |-> IF i = 0 THEN "poll" ELSE "none"]
  /\ charges = <<>> /\ stop = Idling /\ past = {}

ChargerNext ==
  \/ \E i \in ChargerIds : prv_periodic_charger_tx(i) \/ prv_periodic_cs_poll(i)
  \/ BatteryFull
  \/ BeginEvent \/ AllowRx
  \/ StopEvent \/ ReadChargerId \/ PowerDown
  \/ StatusFlagged

ChargerSpec == ChargerInit /\ [][ChargerNext]_chargerVars

-----------------------------------------------------------------------------
(* Properties *)

\* Once the charger has been told to stop it is not told to start again before the next
\* permission, unless two permissions came for one charge or a callback struck between the read
\* of the id and its cancel (charger_controller.c:94-113).
ChargerSilent ==
  "stopped" \in past /\ past \cap {"doubled", "struck"} = {} => "tx" \notin Range(alarms)

\* The relay and the pilot are on only while a connector is plugged in or the event that turns
\* them off is due, unless the permission came after the connector had gone
\* (begin_sequence.c:21-45, connection_sense.c:45-53).
PoweredWhilePlugged ==
  charger.powered => \/ charger.prev # "unplugged"
                     \/ "stop" \in Range(charges)
                     \/ "late" \in past
=============================================================================
