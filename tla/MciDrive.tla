------------------------------ MODULE MciDrive -------------------------------
(***************************************************************************)
(* projects/mci: the drive FSM, the cruise flag and the precharge control  *)
(* of the motor controller interface.                                      *)
(*                                                                         *)
(* Messages are handled in the main loop.  The timer interrupt that sends  *)
(* the motor command toggles cruise when the brake is pressed, and the     *)
(* edges of the two precharge monitor pins are counted in the GPIO         *)
(* interrupt, so a handler is broken where these can strike.  main.c pops  *)
(* events in a loop whose condition is inverted: a message may wait for    *)
(* any time, and taking one has no fairness.                               *)
(***************************************************************************)
EXTENDS DriveBus

CONSTANT StrikePoints   \* points of a main loop handler where an interrupt may strike

ASSUME StrikeAssumption == StrikePoints \subseteq {"decided", "entered", "half set", "draining"}

VARIABLES
  mci,       \* FSM state, s_current_drive_state, s_is_cruise
  handler,   \* the message in hand: point reached, next FSM state, answer when done
  precharge  \* PrechargeControlStorage: state, the control pin and the two monitor pins; stray: an
             \* edge came while the count was given up, or a counted pin fell (history)

mciVars == <<mci, handler, precharge>>

Resting == [at |-> "idle", next |-> "none", answer |-> "none"]

MciInit ==
  /\ mci = [fsm |-> "off", output |-> "OFF", cruise |-> FALSE]
  /\ handler = Resting
  /\ precharge = [state |-> "DISCHARGED", control |-> FALSE, pins |-> [p \in {1, 2} |-> FALSE],
                   stray |-> FALSE]

OutputOf == [off |-> "OFF", drive |-> "DRIVE", reverse |-> "REVERSE", cruise |-> "DRIVE"]

\* The transition tables of the FSM; prv_guard_throttle guards the two that leave `off'.
MciTransitions ==
  [off     |-> [DRIVE |-> "drive", REVERSE |-> "reverse"],
   drive   |-> [OFF |-> "off", REVERSE |-> "reverse", TOGGLE |-> "cruise"],
   reverse |-> [OFF |-> "off", DRIVE |-> "drive"],
   cruise  |-> [TOGGLE |-> "drive", REVERSE |-> "reverse", OFF |-> "off"]]

MciMoves(event) ==
  /\ event \in DOMAIN MciTransitions[mci.fsm]
  /\ mci.fsm = "off" => precharge.state = "CHARGED"

\* An interrupt strikes between two handlers or at one of the chosen points of one.
Strikes == handler.at \in {"idle"} \cup StrikePoints

-----------------------------------------------------------------------------
(* Main loop                                                                *)

NextMessage(id) == handler.at = "idle" /\ toMci # <<>> /\ Head(toMci).id = id /\ toMci' = Tail(toMci)

\* prv_drive_output_rx: the answer is INVALID when the FSM moved unexpectedly, or did not move.
DriveOutputRx ==
  /\ NextMessage("DRIVE_OUTPUT")
  /\ LET o == Head(toMci).data
         expected == o # mci.output
     IN IF MciMoves(o)
        THEN /\ handler' = [at |-> "decided", next |-> MciTransitions[mci.fsm][o],
                            answer |-> IF expected THEN "OK" ELSE "INVALID"]
             /\ UNCHANGED toConsole
        ELSE /\ toConsole' = Put(toConsole, Ack(IF expected THEN "INVALID" ELSE "OK"))
             /\ UNCHANGED handler
  /\ UNCHANGED <<mci, precharge>>

\* prv_cruise_command_rx, a toggle in the range of speeds that allows it.
CruiseToggleRx ==
  /\ handler.at = "idle" /\ MciMoves("TOGGLE")
  /\ handler' = [at |-> "decided", next |-> MciTransitions[mci.fsm]["TOGGLE"], answer |-> "none"]
  /\ UNCHANGED <<toMci, toConsole, mci, precharge>>

\* _fsm_transition sets the state, then runs its output function.
EnterState ==
  /\ handler.at = "decided"
  /\ mci' = [mci EXCEPT !.fsm = handler.next]
  /\ handler' = [handler EXCEPT !.at = "entered"]
  /\ UNCHANGED <<toMci, toConsole, precharge>>

SetOutput ==
  /\ handler.at = "entered"
  /\ mci' = [mci EXCEPT !.output = OutputOf[handler.next]]
  /\ handler' = [handler EXCEPT !.at = "half set"]
  /\ UNCHANGED <<toMci, toConsole, precharge>>

\* Mutant: leaving cruise for reverse keeps the flag.
SetCruise_kept_in_reverse ==
  /\ handler.at = "half set"
  /\ mci' = [mci EXCEPT !.cruise = handler.next = "cruise" \/ (@ /\ handler.next = "reverse")]
  /\ toConsole' = IF handler.answer = "none" THEN toConsole ELSE Put(toConsole, Ack(handler.answer))
  /\ handler' = Resting
  /\ UNCHANGED <<toMci, precharge>>

\* The last assignment of the output function; the message is answered after its handler.
SetCruise ==
  /\ handler.at = "half set"
  /\ mci' = [mci EXCEPT !.cruise = handler.next = "cruise"]
  /\ toConsole' = IF handler.answer = "none" THEN toConsole ELSE Put(toConsole, Ack(handler.answer))
  /\ handler' = Resting
  /\ UNCHANGED <<toMci, precharge>>

PrechargeRx ==
  /\ NextMessage("BEGIN_PRECHARGE")
  /\ precharge' = [precharge EXCEPT !.control = TRUE]
  /\ UNCHANGED <<toConsole, mci, handler>>

\* Mutant: the count of edges is not reset.
DischargeRx_keeps_count ==
  /\ NextMessage("DISCHARGE_PRECHARGE")
  /\ precharge' = [precharge EXCEPT !.state = IF @ = "CHARGED" THEN "DISCHARGED" ELSE @, !.stray = FALSE]
  /\ handler' = [Resting EXCEPT !.at = "draining"]
  /\ UNCHANGED <<toConsole, mci>>

DischargeRx ==
  /\ NextMessage("DISCHARGE_PRECHARGE")
  /\ precharge' = [precharge EXCEPT !.state = "DISCHARGED", !.stray = FALSE]
  /\ handler' = [Resting EXCEPT !.at = "draining"]
  /\ UNCHANGED <<toConsole, mci>>

ControlLow ==
  /\ handler.at = "draining"
  /\ precharge' = [precharge EXCEPT !.control = FALSE]
  /\ handler' = Resting
  /\ UNCHANGED <<toMci, toConsole, mci>>

-----------------------------------------------------------------------------
(* Interrupts and hardware                                                  *)

\* prv_handle_drive with the brake pressed: a whole transition at once.
BrakeEndsCruise ==
  /\ Strikes
  /\ mci.output # "OFF" /\ mci.cruise
  /\ MciMoves("TOGGLE")
  /\ LET f == MciTransitions[mci.fsm]["TOGGLE"]
     IN mci' = [fsm |-> f, output |-> OutputOf[f], cruise |-> f = "cruise"]
  /\ UNCHANGED <<toMci, toConsole, handler, precharge>>

\* prv_precharge_monitor on a rising edge of one of the pins.
PinRises(p) ==
  /\ Strikes /\ precharge.control /\ ~precharge.pins[p]
  /\ LET first == precharge.state = "DISCHARGED"
     IN /\ precharge' = [precharge EXCEPT !.pins[p] = TRUE,
                                          !.state = IF first THEN "INCONSISTENT" ELSE "CHARGED",
                                          !.stray = @ \/ handler.at = "draining"]
        /\ toConsole' = IF first THEN toConsole ELSE Put(toConsole, Completed)
  /\ UNCHANGED <<toMci, mci, handler>>

\* The capacitors drain, or the voltage sags; a falling edge raises no interrupt.
PinFalls(p) ==
  /\ precharge.pins[p]
  /\ precharge' = [precharge EXCEPT !.pins[p] = FALSE,
                                    !.stray = @ \/ precharge.state # "DISCHARGED"]
  /\ UNCHANGED <<toMci, toConsole, mci, handler>>

MciBegins ==
  \/ DriveOutputRx \/ PrechargeRx \/ DischargeRx
  \/ \E p \in {1, 2} : PinRises(p) \/ PinFalls(p)

MciGoesOn == EnterState \/ SetOutput \/ SetCruise \/ ControlLow

CruiseControl == CruiseToggleRx \/ BrakeEndsCruise

MciNext == MciBegins \/ MciGoesOn \/ CruiseControl

\* Alone, the mci meets any messages, and its own are taken at any time.
MciEnvironment ==
  /\ \/ \E m \in {Begin, Discharge} \cup {DriveOutput(o) : o \in DriveOutputs} :
           Len(toMci) < BusSize /\ toMci' = Append(toMci, m) /\ UNCHANGED toConsole
     \/ toConsole # <<>> /\ toConsole' = Tail(toConsole) /\ UNCHANGED toMci
  /\ UNCHANGED mciVars

MciSpec == BusInit /\ MciInit /\ [][MciNext \/ MciEnvironment]_<<toMci, toConsole, mciVars>>

-----------------------------------------------------------------------------
(* Properties *)

MciTypeOK ==
  /\ mci \in [fsm : DOMAIN MciTransitions, output : DriveOutputs, cruise : BOOLEAN]
  /\ handler \in [at : {"idle", "decided", "entered", "half set", "draining"},
                  next : DOMAIN MciTransitions \cup {"none"}, answer : {"none", "OK", "INVALID"}]
  /\ precharge \in [state : {"DISCHARGED", "INCONSISTENT", "CHARGED"}, control : BOOLEAN,
                    pins : [{1, 2} -> BOOLEAN], stray : BOOLEAN]

\* Between two handlers the output the timer interrupt reads is that of the FSM state, however
\* the brake interrupt met the handlers, and the cruise velocity is followed in cruise only.
CommandFollowsFsm ==
  handler.at = "idle" => mci.output = OutputOf[mci.fsm] /\ (mci.cruise => mci.fsm = "cruise")

\* Precharge counts as complete only while both monitor pins have risen: the edges left over
\* from an attempt that was broken off do not count for the next (precharge_control.c:29,32).
\* Until the next discharge an edge that came between the two assignments of its handler may be
\* counted, and a pin that falls and rises again is counted twice.
ChargedMeansBothPins ==
  precharge.state = "CHARGED" => precharge.stray \/ \A p \in {1, 2} : precharge.pins[p]
=============================================================================
