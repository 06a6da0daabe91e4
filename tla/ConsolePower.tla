----------------------------- MODULE ConsolePower -----------------------------
(***************************************************************************)
(* projects/centre_console: how the car is powered.                        *)
(*                                                                         *)
(* The main loop hands every event to the FSMs of the main, auxiliary and  *)
(* off sequences, to the power FSM and to the generator that turns presses *)
(* of the power button into requests.  A sequence asks other boards over   *)
(* CAN, one step after another, and goes on when they acknowledge; a fault *)
(* sends the power FSM back to the state it came from.                     *)
(*                                                                         *)
(* Interrupts (button, ACK timeouts, watchdog) strike between two rounds   *)
(* of the main loop: all they do is raise events and count ACKs down.  The *)
(* CAN stack is reduced to its two fifos, the pending ACK requests and the *)
(* one event per message that Can.tla establishes; a mailbox is always     *)
(* free, and no event is lost, since the queue stays below its size.       *)
(***************************************************************************)
EXTENDS Integers, Sequences, FiniteSetsExt, SequencesExt

CONSTANTS Retries,      \* NUM_RELAY_TX_RETRIES
          EventSlots,   \* EVENT_QUEUE_SIZE
          Presses,      \* bound: presses of the power button not yet acted on
          BpsFaults     \* bound: faults the battery protection may report

ASSUME ConsoleAssumption ==
  Retries \in Nat \ {0} /\ EventSlots \in Nat /\ Presses \in Nat /\ BpsFaults \in Nat

\* PowerState: states of the power FSM and values of its current_state.
TRANSITIONING == 0
OFF   == 1
MAIN  == 2
AUX   == 3
FAULT == 4

\* States of a sequence FSM: 0 when idle, k in the k-th step, one more when complete.
Faulted == -1
Idle == 0

Ask(msg, devices) == [msg |-> msg, devices |-> devices]

\* The steps of the two power-on sequences: the message and the boards that must answer it.
MainSteps ==
  << Ask("MAIN_SEQUENCE", {"rear"}),             \* confirm aux status
     Ask("MAIN_SEQUENCE", {"rear"}),             \* turn on driver bms
     Ask("MAIN_SEQUENCE", {"bms"}),              \* confirm battery status
     Ask("RELAY_STATES", {"bms"}),               \* close battery relays
     Ask("MAIN_SEQUENCE", {"rear"}),             \* confirm dcdc
     Ask("MAIN_SEQUENCE", {"rear", "front"}) >>  \* turn on everything

AuxSteps ==
  << Ask("AUX_SEQUENCE", {"rear"}),              \* confirm aux status
     Ask("AUX_SEQUENCE", {"rear", "front"}) >>   \* turn on everything

Steps == [main |-> MainSteps, aux |-> AuxSteps]

\* Steps of the off sequence.
Discharging == 1
TurningOff  == 2
OpeningRelays == 3
OffComplete == 4

VARIABLES
  queue,     \* the event queue, by priority
  power,     \* PowerFsmStorage: FSM state, current_state, previous_state, destination_state
  seq,       \* main and aux: FSM state, current_sequence, s_ack_count
  off,       \* the off sequence: FSM state and the retry_count of its relay message
  can,       \* TX and RX fifos and the list of pending ACK requests
  owed,      \* answers the other boards may still give
  locked,    \* the board is in the endless loop of prv_bps_fault
  granted,   \* the answers OK of the sequences in progress (history)
  faults     \* faults the battery protection has reported (bound)

vars == <<queue, power, seq, off, can, owed, locked, granted, faults>>

AckCounts(q) == [k \in DOMAIN Steps[q] |-> IF k = Len(Steps[q]) THEN 2 ELSE 1]
SequenceAtStart(q) == [fsm |-> Idle, step |-> 1, acks |-> AckCounts(q)]

Init ==
  /\ queue = [highest |-> <<>>, normal |-> <<>>]
  /\ power = [fsm |-> OFF, current |-> OFF, previous |-> TRANSITIONING, destination |-> TRANSITIONING]
  /\ seq = [q \in {"main", "aux"} |-> SequenceAtStart(q)]
  /\ off = [fsm |-> Idle, retries |-> 0]
  /\ can = [tx |-> <<>>, rx |-> <<>>, requests |-> <<>>]
  /\ owed = {}
  /\ locked = FALSE
  /\ granted = {}
  /\ faults = 0

\* The state a handler works on; handlers map it to the state they leave.
State == [queue |-> queue, power |-> power, seq |-> seq, off |-> off, can |-> can,
          owed |-> owed, locked |-> locked, granted |-> granted]

Become(s) ==
  /\ queue' = s.queue /\ power' = s.power /\ seq' = s.seq /\ off' = s.off
  /\ can' = s.can /\ owed' = s.owed /\ locked' = s.locked /\ granted' = s.granted

-----------------------------------------------------------------------------
(* Events and messages                                                      *)

Event(of, id, data) == [of |-> of, id |-> id, data |-> data]

Raised(s, of, id, data) == [s EXCEPT !.queue.normal = Append(@, Event(of, id, data))]

Transmitted(s, msg, devices) ==
  [Raised(s, "can", "TX", 0) EXCEPT !.can.tx = Append(@, Ask(msg, devices))]

\* A message with an ACK request; `from' names its callback, `step' the step it is sent in.
Requested(s, from, step, msg, devices) ==
  Transmitted([s EXCEPT !.can.requests =
                 Append(@, [from |-> from, step |-> step, msg |-> msg, waiting |-> devices])],
              msg, devices)

-----------------------------------------------------------------------------
(* The main and auxiliary sequences                                         *)

\* prv_state_none
BackToNone(s, q) == [s EXCEPT !.seq[q] = SequenceAtStart(q)]

\* The state decides on the message, current_sequence on the boards that must answer.
StepEntered(s, q, k) ==
  LET t == [s EXCEPT !.seq[q].fsm = k]
  IN IF k =< Len(Steps[q])
     THEN Requested(t, q, k, Steps[q][k].msg, Steps[q][t.seq[q].step].devices)
     ELSE LET c == Raised(t, q, "COMPLETE", 0)
          IN IF q = "main" THEN Transmitted(c, "READY_TO_DRIVE", {}) ELSE c

\* States of a sequence that accept its fault event: the complete state only in the auxiliary one.
MayFault(q) == IF q = "main" THEN 0 .. Len(Steps[q]) ELSE 0 .. Len(Steps[q]) + 1

SequenceHandled(s, q, e) ==
  LET f == s.seq[q].fsm
  IN CASE e.of = q /\ e.id = "BEGIN" /\ f = Idle ->
            StepEntered([s EXCEPT !.granted = {}], q, 1)
       [] e.of = q /\ e.id = "ADVANCE" /\ f \in DOMAIN Steps[q] /\ e.data = f ->
            StepEntered(s, q, f + 1)
       [] e.of = q /\ e.id = "COMPLETE" /\ f = Len(Steps[q]) + 1 -> BackToNone(s, q)
       [] e.of = q /\ e.id = "FAULT" /\ f \in MayFault(q) ->
            Raised([s EXCEPT !.seq[q].fsm = Faulted], "power", "FAULT", 0)
       [] e.of = "power" /\ e.id = "FAULT" /\ f = Faulted -> BackToNone(s, q)
       [] OTHER -> s

\* Mutant: a bad answer of the first of two boards is a fault at once.
SequenceAcked_faults_at_once(s, q, status, remaining) ==
  LET k == s.seq[q].step
      t == [s EXCEPT !.seq[q].acks[k] = (@ - 1) % 256]
  IN CASE status # "OK" -> Raised(t, q, "FAULT", k)
       [] status = "OK" /\ t.seq[q].acks[k] # 0 -> t
       [] OTHER -> Raised([t EXCEPT !.seq[q].step = @ + 1], q, "ADVANCE", k)

\* Mutant: the status of the answer is not looked at.
SequenceAcked_any_status(s, q, status, remaining) ==
  LET k == s.seq[q].step
      t == [s EXCEPT !.seq[q].acks[k] = (@ - 1) % 256]
  IN CASE t.seq[q].acks[k] # 0 -> t
       [] t.seq[q].acks[k] = 0 /\ remaining = 0 ->
            Raised([t EXCEPT !.seq[q].step = @ + 1], q, "ADVANCE", k)
       [] OTHER -> Raised(t, q, "FAULT", k)

\* Mutant: a timeout after the answer of the first of two boards is no fault.
SequenceAcked_waits_for_second(s, q, status, remaining) ==
  LET k == s.seq[q].step
      t == [s EXCEPT !.seq[q].acks[k] = (@ - 1) % 256]
  IN CASE t.seq[q].acks[k] # 0 -> t
       [] t.seq[q].acks[k] = 0 /\ remaining = 0 /\ status = "OK" ->
            Raised([t EXCEPT !.seq[q].step = @ + 1], q, "ADVANCE", k)
       [] t.seq[q].acks[k] = 0 /\ remaining \in 1 .. Cardinality(Steps[q][k].devices) - 1 -> t
       [] OTHER -> Raised(t, q, "FAULT", k)

\* prv_can_simple_ack of the two sequences: while the count of ACKs is not used up, the status
\* of the answer is not looked at.
SequenceAcked(s, q, status, remaining) ==
  LET k == s.seq[q].step
      t == [s EXCEPT !.seq[q].acks[k] = (@ - 1) % 256]
  IN CASE t.seq[q].acks[k] # 0 -> t
       [] t.seq[q].acks[k] = 0 /\ remaining = 0 /\ status = "OK" ->
            Raised([t EXCEPT !.seq[q].step = @ + 1], q, "ADVANCE", k)
       [] OTHER -> Raised(t, q, "FAULT", k)

-----------------------------------------------------------------------------
(* The off sequence                                                         *)

RelayRequested(s) == Requested(s, "relay", OpeningRelays, "RELAY_STATES", {"bms"})

OffHandled(s, e) ==
  LET f == s.off.fsm
      At(t, k) == [t EXCEPT !.off.fsm = k]
  IN CASE e.of = "off" /\ e.id = "BEGIN" /\ f = Idle ->
            Raised(Transmitted(At([s EXCEPT !.granted = {}], Discharging), "DISCHARGE", {}),
                   "off", "DISCHARGED", 0)
       [] e.of = "off" /\ e.id = "DISCHARGED" /\ f = Discharging ->
            Requested(At(s, TurningOff), "off", TurningOff, "OFF_SEQUENCE", {"rear", "front"})
       [] e.of = "off" /\ e.id = "TURNED_OFF" /\ f = TurningOff -> RelayRequested(At(s, OpeningRelays))
       [] e.of = "off" /\ e.id = "RELAYS_OPENED" /\ f = OpeningRelays ->
            Raised(At(s, OffComplete), "off", "COMPLETE", 0)
       [] e.of = "off" /\ e.id = "COMPLETE" /\ f = OffComplete -> At(s, Idle)
       [] e.of = "off" /\ e.id = "FAULT" /\ f \in {Discharging, TurningOff, OpeningRelays} ->
            Raised(At(s, Faulted), "power", "FAULT", 0)
       [] e.of = "power" /\ e.id = "FAULT" /\ f = Faulted -> At(s, Idle)
       [] OTHER -> s

OffAcked(s, status, remaining) ==
  CASE status # "OK" -> Raised(s, "off", "FAULT", 0)
    [] status = "OK" /\ remaining = 0 -> Raised(s, "off", "TURNED_OFF", 0)
    [] OTHER -> s

\* can_tx_retry_wrapper.c: the message is sent again until it has failed Retries times.
RelayAcked(s, status, remaining) ==
  LET failed == remaining # 0 \/ status # "OK"
      count  == s.off.retries + 1
  IN CASE failed /\ count >= Retries ->
            Raised([s EXCEPT !.off.retries = 0], "off", "FAULT", 0)
       [] failed /\ count < Retries -> RelayRequested([s EXCEPT !.off.retries = count])
       [] OTHER -> Raised([s EXCEPT !.off.retries = 0], "off", "RELAYS_OPENED", 0)

-----------------------------------------------------------------------------
(* The power FSM and the generator of its requests                          *)

Destination == [OFF |-> OFF, ON_MAIN |-> MAIN, ON_AUX |-> AUX]
SequenceFor == [OFF |-> "off", ON_MAIN |-> "main", ON_AUX |-> "aux"]
StateAfter  == [off |-> OFF, main |-> MAIN, aux |-> AUX]

\* Mutant: power may be turned off in the middle of a transition.
Accepted_off_any_time(f) ==
  CASE f = OFF -> {"ON_MAIN", "ON_AUX"}
    [] f = AUX -> {"ON_MAIN", "OFF"}
    [] OTHER   -> {"OFF"}

\* The requests a state of the power FSM accepts.
Accepted(f) ==
  CASE f = OFF  -> {"ON_MAIN", "ON_AUX"}
    [] f = AUX  -> {"ON_MAIN", "OFF"}
    [] f \in {MAIN, FAULT} -> {"OFF"}
    [] OTHER -> {}

\* prv_state_fault_output: a fault of the battery protection locks the board up.
PowerFaulted(s, bps) ==
  LET t == [s EXCEPT !.power.fsm = FAULT, !.power.current = FAULT,
                     !.power.destination = s.power.previous]
  IN IF bps THEN [Transmitted(t, "DISCHARGE", {}) EXCEPT !.locked = TRUE]
     ELSE Raised(Transmitted(t, "STATE_TRANSITION_FAULT", {}), "power", "CLEAR_FAULT", s.power.previous)

PowerHandled(s, e) ==
  LET f == s.power.fsm
      t == IF e.of = "power" /\ e.id \in DOMAIN Destination
           THEN [s EXCEPT !.power.destination = Destination[e.id]] ELSE s
      MovedTo(k) == [t EXCEPT !.power.fsm = k, !.power.current = t.power.destination]
  IN CASE e.of = "power" /\ e.id \in Accepted(f) ->
            Raised([t EXCEPT !.power.fsm = TRANSITIONING, !.power.current = TRANSITIONING,
                             !.power.previous = t.power.current], SequenceFor[e.id], "BEGIN", 0)
       [] f = TRANSITIONING /\ e.id = "COMPLETE" -> MovedTo(StateAfter[e.of])
       [] e.of = "power" /\ e.id = "FAULT" /\ f # FAULT -> PowerFaulted(t, e.data = 1)
       [] f = FAULT /\ e.id = "CLEAR_FAULT" /\ e.data = t.power.previous -> MovedTo(OFF)
       [] OTHER -> t

\* prv_process_power_event; parked: the drive state is NEUTRAL or PARKING.
ButtonHandled(s, e, pressed, parked) ==
  LET at == s.power.current
  IN CASE e.of # "button" -> s
       [] e.of = "button" /\ at = OFF  -> Raised(s, "power", IF pressed THEN "ON_MAIN" ELSE "ON_AUX", 0)
       [] e.of = "button" /\ at = AUX  -> Raised(s, "power", IF pressed THEN "ON_MAIN" ELSE "OFF", 0)
       [] e.of = "button" /\ at = MAIN /\ parked -> Raised(s, "power", "OFF", 0)
       [] OTHER -> s

-----------------------------------------------------------------------------
(* CAN                                                                      *)

\* The callback of a request, from the main loop or from the timeout.
Called(s, r, status, remaining) ==
  CASE r.from \in DOMAIN Steps -> SequenceAcked(s, r.from, status, remaining)
    [] r.from = "off" -> OffAcked(s, status, remaining)
    [] r.from = "relay" -> RelayAcked(s, status, remaining)

\* can_ack_handle_msg: the first request for the message that waits for the board.
AckHandled(s, ack) ==
  LET waits == {i \in DOMAIN s.can.requests :
                  s.can.requests[i].msg = ack.msg /\ ack.device \in s.can.requests[i].waiting}
      i == Min(waits)
      r == s.can.requests[i]
      remaining == r.waiting \ {ack.device}
      t == Called([s EXCEPT !.can.requests[i].waiting = remaining,
                            !.granted = IF ack.status = "OK"
                                        THEN @ \cup {<<r.from, r.step, ack.device>>} ELSE @],
                  r, ack.status, Cardinality(remaining))
  IN IF waits = {} THEN s
     ELSE IF remaining = {} THEN [t EXCEPT !.can.requests = RemoveAt(@, i)] ELSE t

\* can_process_event
CanHandled(s, e) ==
  CASE e.of = "can" /\ e.id = "TX" /\ s.can.tx # <<>> ->
         [s EXCEPT !.can.tx = Tail(@),
                   !.owed = @ \cup {[msg |-> Head(s.can.tx).msg, device |-> d] :
                                      d \in Head(s.can.tx).devices}]
    [] e.of = "can" /\ e.id = "RX" /\ s.can.rx # <<>> ->
         AckHandled([s EXCEPT !.can.rx = Tail(@)], Head(s.can.rx))
    [] OTHER -> s

-----------------------------------------------------------------------------
(* Steps                                                                    *)

\* One round of the main loop: event_process and the handlers, in the order of main.c.
MainLoop ==
  LET level == IF queue.highest # <<>> THEN "highest" ELSE "normal"
      e == Head(queue[level])
  IN /\ ~locked
     /\ queue[level] # <<>>
     /\ \E s0 \in {CanHandled([State EXCEPT !.queue[level] = Tail(@)], e)} :
        \E s1 \in {SequenceHandled(s0, "main", e)} :
        \E s2 \in {SequenceHandled(s1, "aux", e)} :
        \E s3 \in {OffHandled(s2, e)} :
        \E s4 \in {PowerHandled(s3, e)} :
        \E pressed, parked \in BOOLEAN : Become(ButtonHandled(s4, e, pressed, parked))
     /\ UNCHANGED faults

\* prv_timeout_cb in the timer interrupt.  All requests have the same timeout, so the first one
\* made expires first.  It left the TX fifo long before, and boards answer in time or never.
Timeout ==
  LET r == Head(can.requests)
  IN /\ ~locked /\ can.requests # <<>>
     /\ \A i \in DOMAIN can.tx : can.tx[i].msg # r.msg
     /\ \E s \in {Called(State, r, "TIMEOUT", Cardinality(r.waiting))} :
          Become([s EXCEPT !.can.requests = Tail(@), !.owed = {a \in @ : a.msg # r.msg}])
     /\ UNCHANGED faults

\* The ACK of another board arrives.
Answer(a, status) ==
  /\ ~locked /\ a \in owed
  /\ LET s == [State EXCEPT !.owed = @ \ {a},
                            !.can.rx = Append(@, [msg |-> a.msg, device |-> a.device, status |-> status])]
     IN Become(Raised(s, "can", "RX", 0))
  /\ UNCHANGED faults

\* Presses of the button and the requests they were turned into, still in the queue.
Pending ==
  SelectSeq(queue.normal, LAMBDA e : e.of = "button" \/ (e.of = "power" /\ e.id \in DOMAIN Destination))

Active(from) == IF from \in DOMAIN seq THEN seq[from].fsm # Idle ELSE off.fsm # Idle

\* prv_button_interrupt_handler.  A press comes later than the ACK timeout of the requests a
\* sequence leaves behind when it faults.
PressPower ==
  /\ ~locked /\ Len(Pending) < Presses
  /\ \A i \in DOMAIN can.requests : Active(can.requests[i].from)
  /\ Become(Raised(State, "button", "POWER", 0))
  /\ UNCHANGED faults

\* fault_monitor.c: the watchdog expires or a heartbeat reports a fault.
BpsFault ==
  /\ ~locked /\ faults < BpsFaults
  /\ queue' = [queue EXCEPT !.highest = Append(@, Event("power", "FAULT", 1))]
  /\ faults' = faults + 1
  /\ UNCHANGED <<power, seq, off, can, owed, locked, granted>>

Next ==
  \/ MainLoop
  \/ Timeout
  \/ \E a \in owed, status \in {"OK", "INVALID"} : Answer(a, status)
  \/ PressPower
  \/ BpsFault

\* The main loop runs on and soft timers expire; boards need not answer and nobody needs to press.
Fairness == WF_vars(MainLoop) /\ WF_vars(Timeout)

Spec == Init /\ [][Next]_vars /\ Fairness

-----------------------------------------------------------------------------
(* Properties *)

InProgress == {q \in DOMAIN seq : seq[q].fsm # Idle} \cup IF off.fsm # Idle THEN {"off"} ELSE {}

TypeOK ==
  /\ power \in [fsm : 0 .. 4, current : 0 .. 4, previous : 0 .. 4, destination : 0 .. 4]
  /\ \A q \in DOMAIN seq : /\ seq[q].fsm \in -1 .. Len(Steps[q]) + 1
                           /\ seq[q].step \in 1 .. Len(Steps[q]) + 1
                           /\ seq[q].acks \in [DOMAIN Steps[q] -> 0 .. 2]
  /\ off.fsm \in -1 .. 4 /\ off.retries \in 0 .. Retries - 1
  /\ Len(can.requests) =< 1

\* Never are two power sequences in progress, and one only while the power FSM is between two
\* states or in its fault state: a fault leaves nothing behind that drives another sequence.
OneSequence ==
  /\ Cardinality(InProgress) =< 1
  /\ InProgress # {} => power.fsm \in {TRANSITIONING, FAULT}

\* An outstanding request of a power-on sequence belongs to the step its FSM is in, so its answer
\* is counted for the step that asked and current_sequence never runs past the lookup tables
\* (power_main_sequence.c:122-126).
RequestsInStep ==
  /\ TypeOK
  /\ \A i \in DOMAIN can.requests :
       LET r == can.requests[i]
       IN r.from \in DOMAIN seq => seq[r.from].fsm = r.step /\ seq[r.from].step = r.step

\* A step is entered only when all the boards of each earlier step have answered OK in this
\* attempt, whatever timed out or was refused in earlier ones; so the battery relays are asked to
\* close only after the BMS carrier confirmed the battery status, and to open only after both
\* power distributions are off.
StepsConfirmed ==
  /\ \A q \in DOMAIN seq : \A k \in 1 .. Min({seq[q].fsm, Len(Steps[q])}) - 1 :
       \A d \in Steps[q][k].devices : <<q, k, d>> \in granted
  /\ off.fsm >= OpeningRelays => \A d \in {"rear", "front"} : <<"off", TurningOff, d>> \in granted
  /\ off.fsm = OffComplete => <<"relay", OpeningRelays, "bms">> \in granted

\* Both boards stayed silent in the last step: the count of two ACKs swallowed the timeout, and
\* no request is left that an answer or another timeout could end.
Stuck ==
  \E q \in DOMAIN seq : /\ seq[q].fsm = Len(Steps[q]) /\ seq[q].acks[Len(Steps[q])] = 1
                        /\ can.requests = <<>>

\* No event is raised beyond the size of the queue.
QueueFits == Len(queue.normal) =< EventSlots /\ Len(queue.highest) =< EventSlots

\* No event a transition waits for is lost, and every transition ends, by completing or by a
\* fault, unless both boards stayed silent in the last step: one answer there, whatever it says,
\* is followed by the other or by a fault (power_main_sequence.c:121-134).
TransitionEnds ==
  /\ []QueueFits
  /\ power.current = TRANSITIONING ~> power.current # TRANSITIONING \/ Stuck

\* The power FSM is in the state it tells the other modules.
StateAgrees == power.current = power.fsm
=============================================================================
