-------------------------- MODULE DriveTrain_proofs ----------------------------
(***************************************************************************)
(* The motor controller interface: CommandFollowsFsm for any bus and any   *)
(* points where the interrupts strike; ChargedMeansBothPins over any edges *)
(* of the monitor pins.                                                    *)
(*                                                                         *)
(* The centre console with it: the destination is in range whatever        *)
(* happens, and the FSM drives only when the mci does, until a press or    *)
(* an answer is crossed by another.                                        *)
(***************************************************************************)
EXTENDS DriveTrain, TLAPS

States == {"off", "drive", "reverse", "cruise"}

Handlers == [at : {"idle", "draining", "decided", "entered", "half set"},
             next : States \cup {"none"}, answer : {"none", "OK", "INVALID"}]

Messages == {Begin, Discharge} \cup {DriveOutput(o) : o \in DriveOutputs}

\* The output and the cruise flag go with the state.
Coherent == mci.output = OutputOf[mci.fsm] /\ (mci.cruise => mci.fsm = "cruise")

\* While a handler changes the state, an interrupt may take the FSM from drive to cruise or back,
\* but not to a state of another output; and it does not strike a transition to cruise.
MciInv ==
  /\ toMci \in Seq(Messages)
  /\ mci \in [fsm : States, output : DriveOutputs, cruise : BOOLEAN]
  /\ handler \in Handlers
  /\ handler.at \in {"idle", "draining", "decided"} => Coherent
  /\ handler.at \in {"decided", "entered", "half set"} => handler.next \in States
  /\ handler.at = "decided" /\ handler.next = "cruise" => mci.fsm = "drive"
  /\ handler.at \in {"entered", "half set"} =>
       /\ OutputOf[mci.fsm] = OutputOf[handler.next]
       /\ handler.next = "cruise" => mci.fsm = "cruise" /\ ~mci.cruise
  /\ handler.at = "half set" => mci.output = OutputOf[handler.next]

LEMMA OutputFacts ==
  /\ DOMAIN OutputOf = States
  /\ OutputOf["off"] = "OFF" /\ OutputOf["drive"] = "DRIVE"
  /\ OutputOf["reverse"] = "REVERSE" /\ OutputOf["cruise"] = "DRIVE"
BY DEF OutputOf, States

LEMMA TransitionFacts ==
  ASSUME NEW s \in States, NEW e \in DOMAIN MciTransitions[s]
  PROVE  /\ DOMAIN MciTransitions = States
         /\ MciTransitions[s][e] \in States
         /\ MciTransitions[s][e] = "cruise" => s = "drive" /\ e = "TOGGLE"
         /\ e = "TOGGLE" => \/ s = "drive" /\ MciTransitions[s][e] = "cruise"
                            \/ s = "cruise" /\ MciTransitions[s][e] = "drive"
<1>1. CASE s = "off"
  BY <1>1 DEF MciTransitions, States
<1>2. CASE s = "drive"
  BY <1>2 DEF MciTransitions, States
<1>3. CASE s = "reverse"
  BY <1>3 DEF MciTransitions, States
<1>4. CASE s = "cruise"
  BY <1>4 DEF MciTransitions, States
<1> QED BY <1>1, <1>2, <1>3, <1>4 DEF States

LEMMA MciInitInv == BusInit /\ MciInit => MciInv
BY OutputFacts DEF BusInit, MciInit, MciInv, Coherent, Resting, States, DriveOutputs, Handlers

\* What is under way to the mci stays a sequence of messages.
LEMMA TailTyped ==
  ASSUME toMci \in Seq(Messages), toMci # <<>>
  PROVE  Head(toMci) \in Messages /\ Tail(toMci) \in Seq(Messages)
OBVIOUS

LEMMA AppendTyped ==
  ASSUME NEW M, NEW s \in Seq(M), NEW m \in M
  PROVE  Append(s, m) \in Seq(M)
OBVIOUS

LEMMA DriveOutputRxInv == MciInv /\ DriveOutputRx => MciInv'
<1> SUFFICES ASSUME MciInv, DriveOutputRx PROVE MciInv'
  OBVIOUS
<1>1. toMci' \in Seq(Messages) /\ UNCHANGED mci /\ handler.at = "idle"
  BY TailTyped DEF MciInv, DriveOutputRx, NextMessage
<1>2. CASE UNCHANGED handler
  BY <1>1, <1>2 DEF MciInv, Coherent
<1>3. CASE ~UNCHANGED handler
  <2> DEFINE o == Head(toMci).data
  <2>1. /\ o \in DOMAIN MciTransitions[mci.fsm]
        /\ handler'.at = "decided" /\ handler'.next = MciTransitions[mci.fsm][o]
    BY <1>3 DEF DriveOutputRx, MciMoves
  <2>2. o # "TOGGLE"
    BY TailTyped DEF MciInv, DriveOutputRx, NextMessage, Messages, Begin, Discharge, DriveOutput,
                     DriveOutputs
  <2>3. mci.fsm \in States
    BY DEF MciInv
  <2>4. handler'.next \in States /\ handler'.next # "cruise"
    BY <2>1, <2>2, <2>3, TransitionFacts
  <2>5. handler' \in Handlers
    <3>1. /\ handler' = [at |-> "decided", next |-> MciTransitions[mci.fsm][o],
                         answer |-> IF o # mci.output THEN "OK" ELSE "INVALID"]
          /\ handler'.next = MciTransitions[mci.fsm][o]
      BY <1>3 DEF DriveOutputRx
    <3> QED BY <2>4, <3>1 DEF Handlers
  <2> HIDE DEF o
  <2> QED BY <1>1, <2>1, <2>4, <2>5 DEF MciInv, Coherent
<1> QED BY <1>2, <1>3

LEMMA CruiseToggleRxInv == MciInv /\ CruiseToggleRx => MciInv'
<1> SUFFICES ASSUME MciInv, CruiseToggleRx PROVE MciInv'
  OBVIOUS
<1>1. /\ handler.at = "idle" /\ UNCHANGED <<toMci, mci>>
      /\ "TOGGLE" \in DOMAIN MciTransitions[mci.fsm]
      /\ handler' = [at |-> "decided", next |-> MciTransitions[mci.fsm]["TOGGLE"],
                     answer |-> "none"]
  BY DEF CruiseToggleRx, MciMoves
<1>2. mci.fsm \in States
  BY DEF MciInv
<1>3. handler'.next \in States /\ (handler'.next = "cruise" => mci.fsm = "drive")
  BY <1>1, <1>2, TransitionFacts
<1>4. handler' \in Handlers /\ handler'.at = "decided"
  BY <1>1, <1>3 DEF Handlers
<1> QED BY <1>1, <1>3, <1>4 DEF MciInv, Coherent

LEMMA EnterStateInv == MciInv /\ EnterState => MciInv'
<1> SUFFICES ASSUME MciInv, EnterState PROVE MciInv'
  OBVIOUS
<1>0. handler' \in Handlers /\ handler'.at = "entered" /\ handler'.next = handler.next
  BY DEF EnterState, MciInv, Handlers
<1>1. /\ handler.at = "decided" /\ handler'.at = "entered" /\ handler'.next = handler.next
      /\ mci' = [mci EXCEPT !.fsm = handler.next] /\ UNCHANGED toMci
  BY <1>0 DEF EnterState
<1>2. mci'.fsm = handler.next /\ mci'.cruise = mci.cruise /\ mci'.output = mci.output
  BY <1>1 DEF MciInv
<1>3. handler.next = "cruise" => ~mci.cruise
  BY <1>1 DEF MciInv, Coherent
<1>4. mci' \in [fsm : States, output : DriveOutputs, cruise : BOOLEAN]
  BY <1>1 DEF MciInv
<1> QED BY <1>0, <1>1, <1>2, <1>3, <1>4 DEF MciInv

LEMMA SetOutputInv == MciInv /\ SetOutput => MciInv'
<1> SUFFICES ASSUME MciInv, SetOutput PROVE MciInv'
  OBVIOUS
<1>0. handler' \in Handlers /\ handler'.at = "half set" /\ handler'.next = handler.next
  BY DEF SetOutput, MciInv, Handlers
<1>1. /\ handler.at = "entered" /\ handler'.at = "half set" /\ handler'.next = handler.next
      /\ mci' = [mci EXCEPT !.output = OutputOf[handler.next]] /\ UNCHANGED toMci
  BY <1>0 DEF SetOutput
<1>2. mci'.fsm = mci.fsm /\ mci'.cruise = mci.cruise /\ mci'.output = OutputOf[handler.next]
  BY <1>1 DEF MciInv
<1>3. OutputOf[handler.next] \in DriveOutputs
  BY <1>1, OutputFacts DEF MciInv, States, DriveOutputs
<1>4. mci' \in [fsm : States, output : DriveOutputs, cruise : BOOLEAN]
  BY <1>1, <1>3 DEF MciInv
<1> QED BY <1>0, <1>1, <1>2, <1>4 DEF MciInv

LEMMA SetCruiseInv == MciInv /\ SetCruise => MciInv'
<1> SUFFICES ASSUME MciInv, SetCruise PROVE MciInv'
  OBVIOUS
<1>0. handler' \in Handlers
  BY DEF SetCruise, Resting, Handlers
<1>1. /\ handler.at = "half set" /\ handler'.at = "idle" /\ UNCHANGED toMci
      /\ mci' = [mci EXCEPT !.cruise = (handler.next = "cruise")]
  BY DEF SetCruise, Resting
<1>2. mci'.fsm = mci.fsm /\ mci'.cruise = (handler.next = "cruise") /\ mci'.output = mci.output
  BY <1>1 DEF MciInv
<1>3. Coherent'
  BY <1>1, <1>2 DEF MciInv, Coherent
<1>4. mci' \in [fsm : States, output : DriveOutputs, cruise : BOOLEAN]
  BY <1>1 DEF MciInv
<1> QED BY <1>0, <1>1, <1>3, <1>4 DEF MciInv

\* The interrupt toggles between drive and cruise, which have the same output.
LEMMA BrakeInv == MciInv /\ BrakeEndsCruise => MciInv'
<1> SUFFICES ASSUME MciInv, BrakeEndsCruise PROVE MciInv'
  OBVIOUS
<1> DEFINE f == MciTransitions[mci.fsm]["TOGGLE"]
<1>1. /\ mci.cruise /\ UNCHANGED <<toMci, handler>>
      /\ "TOGGLE" \in DOMAIN MciTransitions[mci.fsm]
      /\ mci' = [fsm |-> f, output |-> OutputOf[f], cruise |-> f = "cruise"]
  BY DEF BrakeEndsCruise, MciMoves
<1>2. mci.fsm \in States
  BY DEF MciInv
<1>3. \/ mci.fsm = "drive" /\ f = "cruise"
      \/ mci.fsm = "cruise" /\ f = "drive"
  BY <1>1, <1>2, TransitionFacts
<1> HIDE DEF f
<1>4. /\ mci'.fsm = f /\ mci'.output = OutputOf[f] /\ mci'.cruise = (f = "cruise")
      /\ OutputOf[f] = OutputOf[mci.fsm]
  BY <1>1, <1>3, OutputFacts
<1>5. mci' \in [fsm : States, output : DriveOutputs, cruise : BOOLEAN]
  BY <1>1, <1>3, OutputFacts DEF States, DriveOutputs
<1>6. handler.at \in {"entered", "half set"} => handler.next # "cruise"
  BY <1>1 DEF MciInv
<1>7. handler.at = "decided" => handler.next # "cruise"
  BY <1>1 DEF MciInv, Coherent
<1> QED BY <1>1, <1>4, <1>5, <1>6, <1>7 DEF MciInv, Coherent

\* The other steps leave the FSM and its output alone.
LEMMA OtherStepsInv ==
  ASSUME MciInv, UNCHANGED mci, toMci' \in Seq(Messages),
         \/ UNCHANGED handler
         \/ handler.at \in {"idle", "draining"} /\ handler'.at \in {"idle", "draining"}
            /\ handler' \in Handlers
  PROVE  MciInv'
<1>1. CASE UNCHANGED handler
  BY <1>1 DEF MciInv, Coherent
<1>2. CASE /\ handler.at \in {"idle", "draining"} /\ handler'.at \in {"idle", "draining"}
           /\ handler' \in Handlers
  BY <1>2 DEF MciInv, Coherent
<1> QED BY <1>1, <1>2

LEMMA MciInvNext == MciInv /\ [MciNext \/ MciEnvironment]_<<toMci, toConsole, mciVars>> => MciInv'
<1> SUFFICES ASSUME MciInv, [MciNext \/ MciEnvironment]_<<toMci, toConsole, mciVars>>
             PROVE MciInv'
  OBVIOUS
<1> USE DEF mciVars
<1>1. CASE DriveOutputRx
  BY <1>1, DriveOutputRxInv
<1>2. CASE PrechargeRx
  BY <1>2, TailTyped, OtherStepsInv DEF PrechargeRx, NextMessage, MciInv
<1>3. CASE DischargeRx
  BY <1>3, TailTyped, OtherStepsInv DEF DischargeRx, NextMessage, MciInv, Resting, Handlers
<1>4. CASE \E p \in {1, 2} : PinRises(p) \/ PinFalls(p)
  BY <1>4, OtherStepsInv DEF PinRises, PinFalls, MciInv
<1>5. CASE EnterState
  BY <1>5, EnterStateInv
<1>6. CASE SetOutput
  BY <1>6, SetOutputInv
<1>7. CASE SetCruise
  BY <1>7, SetCruiseInv
<1>8. CASE ControlLow
  BY <1>8, OtherStepsInv DEF ControlLow, MciInv, Resting, Handlers
<1>9. CASE CruiseToggleRx
  BY <1>9, CruiseToggleRxInv
<1>10. CASE BrakeEndsCruise
  BY <1>10, BrakeInv
<1>11. CASE MciEnvironment
  <2>1. UNCHANGED <<mci, handler>>
    BY <1>11 DEF MciEnvironment
  <2>2. toMci' \in Seq(Messages)
    <3>1. ASSUME NEW m \in Messages, toMci' = Append(toMci, m) PROVE toMci' \in Seq(Messages)
      <4>1. toMci \in Seq(Messages)
        BY DEF MciInv
      <4> QED BY ONLY <3>1, <4>1, AppendTyped
    <3>2. CASE UNCHANGED toMci
      BY <3>2 DEF MciInv
    <3>3. \/ UNCHANGED toMci
          \/ \E m \in Messages : toMci' = Append(toMci, m)
      BY <1>11 DEF MciEnvironment, Messages
    <3> QED BY <3>1, <3>2, <3>3
  <2> QED BY <2>1, <2>2, OtherStepsInv
<1>12. CASE UNCHANGED <<toMci, toConsole, mciVars>>
  BY <1>12, OtherStepsInv DEF MciInv
<1> QED BY <1>1, <1>2, <1>3, <1>4, <1>5, <1>6, <1>7, <1>8, <1>9, <1>10, <1>11, <1>12
         DEF MciNext, MciBegins, MciGoesOn, CruiseControl

\* The output that the timer interrupt sends is that of the FSM state whenever no handler is under
\* way, and cruise is followed in its state only (CommandFollowsFsm): wherever the brake interrupt
\* strikes the two assignments of mci/src/drive_fsm.c's output functions.
THEOREM CommandAlwaysFollows == MciSpec => []CommandFollowsFsm
<1>1. MciInv => CommandFollowsFsm
  BY DEF MciInv, Coherent, CommandFollowsFsm
<1> QED BY MciInitInv, MciInvNext, <1>1, PTL DEF MciSpec

-----------------------------------------------------------------------------
(* The precharge monitor                                                    *)

Precharges == [state : {"DISCHARGED", "INCONSISTENT", "CHARGED"}, control : BOOLEAN,
               pins : [{1, 2} -> BOOLEAN], stray : BOOLEAN]

\* An edge is counted only while the control pin is high, and lowering it begins by clearing the
\* count; a count of one has a pin that is up, so the next edge is that of the other.
PrechargeInv ==
  /\ precharge \in Precharges
  /\ ~precharge.stray =>
       /\ ~precharge.control \/ handler.at = "draining" => precharge.state = "DISCHARGED"
       /\ precharge.state = "INCONSISTENT" => precharge.pins[1] \/ precharge.pins[2]
       /\ precharge.state = "CHARGED" => precharge.pins[1] /\ precharge.pins[2]

LEMMA PrechargeInit == BusInit /\ MciInit => PrechargeInv
BY DEF MciInit, Resting, PrechargeInv, Precharges

LEMMA PinRisesInv ==
  ASSUME PrechargeInv, NEW p \in {1, 2}, PinRises(p)
  PROVE  PrechargeInv'
<1>0. precharge' \in Precharges /\ UNCHANGED handler
  BY DEF PinRises, PrechargeInv, Precharges
<1> SUFFICES ASSUME ~precharge'.stray PROVE PrechargeInv'
  BY <1>0 DEF PrechargeInv
<1>1. /\ ~precharge.stray /\ handler.at # "draining" /\ precharge.control /\ ~precharge.pins[p]
      /\ UNCHANGED handler
  BY DEF PinRises, PrechargeInv, Precharges
<1>2. precharge.state # "CHARGED"
  BY <1>1 DEF PrechargeInv
<1>3. /\ precharge'.control = precharge.control
      /\ precharge'.pins = [precharge.pins EXCEPT ![p] = TRUE]
      /\ precharge'.state = IF precharge.state = "DISCHARGED" THEN "INCONSISTENT" ELSE "CHARGED"
      /\ precharge' \in Precharges
  BY DEF PinRises, PrechargeInv, Precharges
<1>4. precharge'.pins[p] /\ \A r \in {1, 2} : r # p => precharge'.pins[r] = precharge.pins[r]
  BY <1>3 DEF PrechargeInv, Precharges
<1>5. precharge'.pins[1] \/ precharge'.pins[2]
  BY <1>4
<1>6. precharge.state = "INCONSISTENT" => precharge'.pins[1] /\ precharge'.pins[2]
  BY <1>1, <1>4 DEF PrechargeInv
<1>7. precharge.state \in {"DISCHARGED", "INCONSISTENT"}
  BY <1>2 DEF PrechargeInv, Precharges
<1> QED BY <1>1, <1>3, <1>5, <1>6, <1>7 DEF PrechargeInv

LEMMA PrechargeInvNext ==
  ASSUME MciInv, PrechargeInv,
         [MciNext \/ MciEnvironment]_<<toMci, toConsole, mciVars>>
  PROVE  PrechargeInv'
<1> USE DEF mciVars
<1>1. CASE PrechargeRx
  BY <1>1 DEF PrechargeRx, NextMessage, PrechargeInv, Precharges
<1>2. CASE DischargeRx
  BY <1>2 DEF DischargeRx, Resting, PrechargeInv, Precharges
<1>3. CASE ControlLow
  BY <1>3 DEF ControlLow, Resting, PrechargeInv, Precharges
<1>4. ASSUME NEW p \in {1, 2}, PinRises(p) PROVE PrechargeInv'
  BY <1>4, PinRisesInv
<1>5. ASSUME NEW p \in {1, 2}, PinFalls(p) PROVE PrechargeInv'
  <2>1. UNCHANGED handler /\ precharge' \in Precharges
    BY <1>5 DEF PinFalls, PrechargeInv, Precharges
  <2>2. ASSUME ~precharge'.stray
        PROVE  ~precharge.stray /\ precharge.state = "DISCHARGED" /\ precharge'.state = precharge.state
               /\ precharge'.control = precharge.control
    BY <1>5, <2>2 DEF PinFalls, PrechargeInv, Precharges
  <2> QED BY <2>1, <2>2 DEF PrechargeInv
<1>6. ASSUME UNCHANGED precharge, handler'.at # "draining" \/ UNCHANGED handler
      PROVE  PrechargeInv'
  BY <1>6 DEF PrechargeInv
<1>7. CASE DriveOutputRx \/ CruiseToggleRx
  BY <1>6, <1>7 DEF DriveOutputRx, CruiseToggleRx
<1>8. CASE EnterState \/ SetOutput \/ SetCruise
  <2>1. UNCHANGED precharge
    BY <1>8 DEF EnterState, SetOutput, SetCruise
  <2>2. handler'.at \in {"entered", "half set", "idle"}
    <3>1. handler \in Handlers
      BY DEF MciInv
    <3>2. CASE EnterState
      BY <3>1, <3>2 DEF EnterState, Handlers
    <3>3. CASE SetOutput
      BY <3>1, <3>3 DEF SetOutput, Handlers
    <3>4. CASE SetCruise
      BY <3>4 DEF SetCruise, Resting
    <3> QED BY <1>8, <3>2, <3>3, <3>4
  <2> QED BY <1>6, <2>1, <2>2
<1>9. CASE BrakeEndsCruise \/ MciEnvironment \/ UNCHANGED <<toMci, toConsole, mciVars>>
  <2>1. UNCHANGED <<precharge, handler>>
    BY <1>9 DEF BrakeEndsCruise, MciEnvironment
  <2> QED BY <1>6, <2>1
<1> QED BY <1>1, <1>2, <1>3, <1>4, <1>5, <1>7, <1>8, <1>9
         DEF MciNext, MciBegins, MciGoesOn, CruiseControl

\* Precharge counts as complete only with both monitor pins up (ChargedMeansBothPins), unless an
\* edge came while prv_discharge_rx of mci/src/precharge_control.c is between its two assignments
\* or a counted pin fell; the next discharge ends that.
THEOREM ChargedAlwaysMeansBothPins == MciSpec => []ChargedMeansBothPins
<1>1. PrechargeInv => ChargedMeansBothPins
  BY DEF PrechargeInv, ChargedMeansBothPins
<1>2. /\ MciInv /\ PrechargeInv
      /\ [MciNext \/ MciEnvironment]_<<toMci, toConsole, mciVars>>
      => PrechargeInv'
  BY PrechargeInvNext
<1> QED BY MciInitInv, MciInvNext, PrechargeInit, <1>1, <1>2, PTL DEF MciSpec

-----------------------------------------------------------------------------
(* The centre console                                                       *)

DriveStates == {"neutral_discharged", "neutral_precharged", "drive", "reverse", "parking",
                "set_precharge", "set_motorcontroller_output", "fault"}
Drives == [fsm : DriveStates, destination : Destinations \cup {NoDestination},
           current : Destinations \cup {"TRANSITIONING"}]
Recovery == "FAULT_RECOVER_RELEASED"
OutputEvents == {"OUTPUT_OFF", "OUTPUT_DRIVE", "OUTPUT_REVERSE"}
EventIds == Destinations \cup OutputEvents \cup
            {"RX", "BUTTON", "PRECHARGE_COMPLETED", "DISCHARGE_COMPLETED", "FAULT", Recovery}
ConsoleMessages == {Completed, Ack("OK"), Ack("INVALID")}
ConsoleEvents == {e \in [id : EventIds, data : {"none"} \cup Destinations \cup ConsoleMessages] :
                    /\ e.id = "RX" => e.data \in ConsoleMessages
                    /\ e.id = "BUTTON" => e.data \in Destinations}

Single(S) == \A i, j \in S : i = j
AtMostTwo(S) == \A i, j, k \in S : i = j \/ j = k \/ i = k
At(q, ids) == {i \in DOMAIN q : q[i].id \in ids}

\* Requests that make the FSM command the motor controllers when it is precharged.
DriveRequests == {"DRIVE", "REVERSE"}
Pressed == Destinations \cup {"BUTTON"}

\* Presses that are not lost when the FSM leaves the fault state.
Live(q) == At(q, {"BUTTON"}) \cup
           {i \in At(q, Destinations) : \E r \in At(q, {Recovery}) : r < i}

Retries == [count : 0 .. DriveRetries - 1, output : DriveOutputs, waiting : Nat]

DriveTyped ==
  /\ events \in Seq(ConsoleEvents)
  /\ drive \in Drives /\ DestinationInRange
  /\ precharging \in BOOLEAN
  /\ retry \in Retries
  /\ toConsole \in Seq(ConsoleMessages) /\ Len(toConsole) =< BusSize /\ Len(toMci) =< BusSize

\* A recovery is due in the fault state, and once.
RecoveryDue ==
  /\ At(events, {Recovery}) # {} <=> drive.fsm = "fault"
  /\ Single(At(events, {Recovery}))

\* What is pressed is acted on before the next press, but a request raised again by
\* neutral_precharged may meet another; then the FSM is in transition and one of the two is not
\* for driving.
PressesInOrder ==
  /\ Single(At(events, {"BUTTON"}))
  /\ drive.fsm \notin {"neutral_precharged", "fault"} => Single(At(events, Pressed))
  /\ drive.fsm = "fault" => Single(Live(events))
  /\ drive.fsm = "neutral_precharged" =>
       /\ AtMostTwo(At(events, Pressed))
       /\ drive.current # "TRANSITIONING" => Single(At(events, Pressed))
       /\ Single(At(events, DriveRequests))
  /\ drive.fsm = "set_precharge" /\ At(events, DriveRequests) # {} => drive.destination = "PARKING"
  /\ drive.fsm = "set_motorcontroller_output" => At(events, DriveRequests) = {}
  /\ drive.fsm \in {"set_precharge", "set_motorcontroller_output"} => drive.current = "TRANSITIONING"

\* The outcome of a command is acted on before another one is sent.
OutcomeFirst ==
  /\ Single(At(events, OutputEvents))
  /\ At(events, OutputEvents) # {} => retry.waiting = 0 /\ drive.fsm \notin {"drive", "reverse"}
  /\ \A i \in At(events, OutputEvents) :
       /\ events[i].id = SuccessEvent(mci.output)
       /\ \A k \in At(events, DriveRequests) : i < k

\* A fault leaves the request of the command behind: until it ends nothing in the queue brings the
\* FSM to another command.
OrphanHarmless ==
  retry.waiting # 0 /\ drive.fsm # "set_motorcontroller_output" =>
    /\ At(events, DriveRequests) = {}
    /\ drive.fsm \notin {"fault", "neutral_discharged"} => drive.destination \notin DriveRequests
    /\ At(events, {"BUTTON"}) # {} =>
         drive.fsm \in {"fault", "neutral_discharged"} /\ drive.current = "TRANSITIONING"

Driving ==
  /\ drive.fsm \in {"drive", "reverse"} => retry.waiting = 0
  /\ drive.fsm = "drive" => mci.output = "DRIVE"
  /\ drive.fsm = "reverse" => mci.output = "REVERSE"

ConsoleInv == RecoveryDue /\ PressesInOrder /\ OutcomeFirst /\ OrphanHarmless /\ Driving

OutputSent == {i \in DOMAIN toMci : toMci[i].id = "DRIVE_OUTPUT"}
AckSent == {i \in DOMAIN toConsole : toConsole[i].id = "ACK"}
AckReceived == {i \in DOMAIN events : events[i].id = "RX" /\ events[i].data.id = "ACK"}

\* One command, or its answer, is under way at most, and only for a request in the ACK table.
OneCommand ==
  /\ retry.waiting \in {0, 1}
  /\ Single(OutputSent) /\ Single(AckSent) /\ Single(AckReceived)
  /\ OutputSent # {} => handler.answer = "none" /\ AckSent = {} /\ AckReceived = {}
  /\ handler.answer # "none" => AckSent = {} /\ AckReceived = {}
  /\ AckSent # {} => AckReceived = {}
  /\ AnswerUnderWay => retry.waiting = 1
  /\ handler.at \in {"idle", "draining"} <=> handler.answer = "none"

\* The command under way is the one of the request, and an answer OK tells the truth.
AnswersTrue ==
  /\ \A i \in OutputSent : toMci[i].data = retry.output
  /\ handler.answer = "OK" => OutputOf[handler.next] = retry.output
  /\ \A i \in AckSent : toConsole[i].data = "OK" => mci.output = retry.output
  /\ \A i \in AckReceived : events[i].data.data = "OK" => mci.output = retry.output

-----------------------------------------------------------------------------
(* The event queue: r is q without its first k events and with those of added at the end *)

Follows(q, r, k, added) ==
  /\ k \in {0, 1} /\ Len(q) \in Nat /\ DOMAIN q = 1 .. Len(q)
  /\ Len(r) \in Nat /\ DOMAIN r = 1 .. Len(r)
  /\ \A i \in DOMAIN r : \/ i + k \in DOMAIN q /\ r[i] = q[i + k]
                         \/ i = Len(q) - k + 1 /\ r[i] \in added
  /\ \A i \in DOMAIN q : i > k => i - k \in DOMAIN r /\ r[i - k] = q[i]
  /\ added # {} => Len(q) - k + 1 \in DOMAIN r /\ r[Len(q) - k + 1] \in added

LEMMA QueueSteps ==
  ASSUME NEW E, NEW q \in Seq(E), NEW e \in E
  PROVE  /\ Follows(q, q, 0, {})
         /\ Follows(q, Append(q, e), 0, {e}) /\ Append(q, e) \in Seq(E)
         /\ q # <<>> => /\ Follows(q, Tail(q), 1, {}) /\ Tail(q) \in Seq(E)
                        /\ Follows(q, Append(Tail(q), e), 1, {e}) /\ Append(Tail(q), e) \in Seq(E)
                        /\ Head(q) = q[1] /\ q[1] \in E /\ 1 \in DOMAIN q
<1>1. Follows(q, q, 0, {})
  BY DEF Follows
<1>2. Follows(q, Append(q, e), 0, {e}) /\ Append(q, e) \in Seq(E)
  BY DEF Follows
<1> SUFFICES ASSUME q # <<>> 
             PROVE  /\ Follows(q, Tail(q), 1, {}) /\ Tail(q) \in Seq(E)
                    /\ Follows(q, Append(Tail(q), e), 1, {e}) /\ Append(Tail(q), e) \in Seq(E)
                    /\ Head(q) = q[1] /\ q[1] \in E /\ 1 \in DOMAIN q
  BY <1>1, <1>2
<1> DEFINE t == Tail(q)
<1>3. t \in Seq(E) /\ Len(t) = Len(q) - 1 /\ \A i \in 1 .. Len(t) : t[i] = q[i + 1]
  OBVIOUS
<1>4. Len(q) \in Nat /\ Len(q) >= 1
  OBVIOUS
<1>5. Head(q) = q[1] /\ q[1] \in E /\ 1 \in DOMAIN q
  BY <1>4
<1> HIDE DEF t
<1>6. Follows(q, t, 1, {})
  BY <1>3, <1>4 DEF Follows
<1>7. Follows(q, Append(t, e), 1, {e}) /\ Append(t, e) \in Seq(E)
  BY <1>3, <1>4 DEF Follows
<1> QED BY <1>3, <1>5, <1>6, <1>7 DEF t

\* An event of the new queue was in the old one, in the same order, or was added.
LEMMA Kept ==
  ASSUME NEW q, NEW r, NEW k, NEW added, Follows(q, r, k, added), NEW ids,
         \A e \in added : e.id \notin ids
  PROVE  \A i \in At(r, ids) : i + k \in At(q, ids) /\ r[i] = q[i + k]
BY DEF Follows, At

LEMMA NoneKept ==
  ASSUME NEW q, NEW r, NEW k, NEW added, Follows(q, r, k, added), NEW ids,
         \A e \in added : e.id \notin ids, At(q, ids) = {}
  PROVE  At(r, ids) = {}
BY Kept

LEMMA SomeKept ==
  ASSUME NEW q, NEW r, NEW k, NEW added, Follows(q, r, k, added), NEW ids,
         NEW i \in At(q, ids), i > k
  PROVE  i - k \in At(r, ids)
BY DEF Follows, At

LEMMA SingleKept ==
  ASSUME NEW q, NEW r, NEW k, NEW added, Follows(q, r, k, added), NEW ids,
         \A e \in added : e.id \notin ids, Single(At(q, ids))
  PROVE  Single(At(r, ids))
<1> SUFFICES ASSUME NEW i \in At(r, ids), NEW j \in At(r, ids) PROVE i = j
  BY DEF Single
<1>1. i + k = j + k
  BY Kept DEF Single
<1>2. i \in Nat /\ j \in Nat /\ k \in Nat
  BY DEF At, Follows
<1> QED BY <1>1, <1>2

LEMMA TwoKept ==
  ASSUME NEW q, NEW r, NEW k, NEW added, Follows(q, r, k, added), NEW ids,
         \A e \in added : e.id \notin ids, AtMostTwo(At(q, ids))
  PROVE  AtMostTwo(At(r, ids))
<1> SUFFICES ASSUME NEW i \in At(r, ids), NEW j \in At(r, ids), NEW l \in At(r, ids)
             PROVE i = j \/ j = l \/ i = l
  BY DEF AtMostTwo
<1>1. i + k = j + k \/ j + k = l + k \/ i + k = l + k
  BY Kept DEF AtMostTwo
<1>2. i \in Nat /\ j \in Nat /\ l \in Nat /\ k \in Nat
  BY DEF At, Follows
<1> QED BY <1>1, <1>2

\* Events that are all among the first k are gone: what is left of their kind was added.
LEMMA OnlyAdded ==
  ASSUME NEW q, NEW r, NEW k, NEW added, Follows(q, r, k, added), NEW ids,
         \A i \in At(q, ids) : i = k
  PROVE  \A i \in At(r, ids) : i = Len(q) - k + 1 /\ r[i] \in added
<1> SUFFICES ASSUME NEW i \in At(r, ids) PROVE i = Len(q) - k + 1 /\ r[i] \in added
  OBVIOUS
<1>1. i \in Nat /\ i # 0 /\ k \in Nat /\ i \in DOMAIN r /\ r[i].id \in ids
  BY DEF At, Follows
<1>2. i + k # k
  BY <1>1
<1>3. i + k \notin DOMAIN q \/ r[i] # q[i + k]
  BY <1>1, <1>2 DEF At
<1> QED BY <1>1, <1>3 DEF Follows

LEMMA SingleAdded ==
  ASSUME NEW q, NEW r, NEW k, NEW added, Follows(q, r, k, added), NEW ids,
         \A i \in At(q, ids) : i = k
  PROVE  Single(At(r, ids))
BY OnlyAdded DEF Single

LEMMA NoneAdded ==
  ASSUME NEW q, NEW r, NEW k, NEW added, Follows(q, r, k, added), NEW ids,
         \A i \in At(q, ids) : i = k, \A e \in added : e.id \notin ids
  PROVE  At(r, ids) = {}
BY OnlyAdded DEF At

\* One event added to one of its kind makes two.
LEMMA TwoAdded ==
  ASSUME NEW q, NEW r, NEW k, NEW added, Follows(q, r, k, added), NEW ids, Single(At(q, ids))
  PROVE  AtMostTwo(At(r, ids))
<1> SUFFICES ASSUME NEW i \in At(r, ids), NEW j \in At(r, ids), NEW l \in At(r, ids)
             PROVE i = j \/ j = l \/ i = l
  BY DEF AtMostTwo
<1>1. \A n \in At(r, ids) : n \in Nat /\ k \in Nat /\ (n + k \in At(q, ids) \/ n = Len(q) - k + 1)
  BY DEF At, Follows
<1>2. \A m, n \in At(r, ids) : m + k \in At(q, ids) /\ n + k \in At(q, ids) => m = n
  BY <1>1 DEF Single
<1> QED BY <1>1, <1>2

\* Of two events of a kind, the first of which is taken, one is left, and one more makes two again.
LEMMA TwoPopped ==
  ASSUME NEW q, NEW r, NEW added, Follows(q, r, 1, added), NEW ids,
         \A e \in added : e.id \notin ids, AtMostTwo(At(q, ids)), 1 \in At(q, ids)
  PROVE  Single(At(r, ids))
<1> SUFFICES ASSUME NEW i \in At(r, ids), NEW j \in At(r, ids) PROVE i = j
  BY DEF Single
<1>1. i \in Nat /\ j \in Nat /\ i # 0 /\ j # 0
  BY DEF At, Follows
<1>2. i + 1 \in At(q, ids) /\ j + 1 \in At(q, ids)
  BY Kept
<1>3. i + 1 = j + 1 \/ j + 1 = 1 \/ i + 1 = 1
  BY <1>2 DEF AtMostTwo
<1> QED BY <1>1, <1>3

LEMMA TwoTraded ==
  ASSUME NEW q, NEW r, NEW added, Follows(q, r, 1, added), NEW ids, AtMostTwo(At(q, ids)),
         1 \in At(q, ids)
  PROVE  AtMostTwo(At(r, ids))
<1> SUFFICES ASSUME NEW i \in At(r, ids), NEW j \in At(r, ids), NEW l \in At(r, ids)
             PROVE i = j \/ j = l \/ i = l
  BY DEF AtMostTwo
<1>1. \A n \in At(r, ids) :
        n \in Nat /\ n # 0 /\ (n + 1 \in At(q, ids) \/ n = Len(q) - 1 + 1)
  BY DEF At, Follows
<1>2. \A m, n \in At(r, ids) : m + 1 \in At(q, ids) /\ n + 1 \in At(q, ids) => m = n
  <2> SUFFICES ASSUME NEW m \in At(r, ids), NEW n \in At(r, ids),
                      m + 1 \in At(q, ids), n + 1 \in At(q, ids)
               PROVE  m = n
    OBVIOUS
  <2>1. m + 1 = n + 1 \/ n + 1 = 1 \/ m + 1 = 1
    BY DEF AtMostTwo
  <2>2. m \in Nat /\ n \in Nat /\ m # 0 /\ n # 0
    BY <1>1
  <2> QED BY <2>1, <2>2
<1> QED BY <1>1, <1>2

\* The event that is added is the last.
LEMMA LastAdded ==
  ASSUME NEW q, NEW r, NEW k, NEW added, Follows(q, r, k, added), added # {}
  PROVE  /\ Len(q) - k + 1 \in DOMAIN r /\ r[Len(q) - k + 1] \in added
         /\ \A i \in DOMAIN r : i =< Len(q) - k + 1
BY DEF Follows

LEMMA LiveAdded ==
  ASSUME NEW q, NEW r, NEW k, NEW added, Follows(q, r, k, added),
         \A e \in added : e.id \notin {Recovery}, \A i \in Live(q) : i = k
  PROVE  Single(Live(r))
<1>1. \A n \in At(r, {Recovery}) : n \in Nat /\ n + k \in At(q, {Recovery})
  BY Kept DEF At, Follows
<1>2. ASSUME NEW i \in Live(r), i # Len(q) - k + 1 PROVE FALSE
  <2>1. /\ i \in DOMAIN r /\ i \in Nat /\ i # 0 /\ k \in Nat
        /\ i + k \in DOMAIN q /\ r[i] = q[i + k]
    BY <1>2 DEF Live, At, Follows
  <2>2. i + k \notin Live(q)
    BY <2>1
  <2>3. CASE i \in At(r, {"BUTTON"})
    BY <2>1, <2>2, <2>3 DEF Live, At
  <2>4. CASE i \in At(r, Destinations) /\ \E n \in At(r, {Recovery}) : n < i
    <3>1. PICK n \in At(r, {Recovery}) : n < i
      BY <2>4
    <3>2. n + k \in At(q, {Recovery}) /\ n + k < i + k /\ i + k \in At(q, Destinations)
      BY <1>1, <2>1, <2>4, <3>1 DEF At
    <3> QED BY <2>2, <3>2 DEF Live
  <2> QED BY <2>3, <2>4 DEF Live
<1> QED BY <1>2 DEF Single

LEMMA LiveKept ==
  ASSUME NEW q, NEW r, NEW k, NEW added, Follows(q, r, k, added),
         \A e \in added : e.id \notin Pressed \cup {Recovery}, Single(Live(q))
  PROVE  Single(Live(r))
<1>1. \A i \in At(r, {"BUTTON"}) : i + k \in At(q, {"BUTTON"})
  BY Kept DEF Pressed
<1>2. \A i \in At(r, Destinations) : i + k \in At(q, Destinations)
  BY Kept DEF Pressed
<1>3. \A i \in At(r, {Recovery}) : i + k \in At(q, {Recovery})
  BY Kept DEF Pressed
<1>4. \A i \in Live(r) : i \in Nat
  BY DEF Live, At, Follows
<1>5. \A i \in At(r, {Recovery}) : i \in Nat /\ k \in Nat
  BY DEF At, Follows
<1>6. \A i \in Live(r) : i + k \in Live(q)
  <2>1. ASSUME NEW i \in At(r, Destinations), NEW n \in At(r, {Recovery}), n < i
        PROVE  i + k \in Live(q)
    <3>1. n + k < i + k /\ n + k \in At(q, {Recovery}) /\ i + k \in At(q, Destinations)
      BY <1>2, <1>3, <1>5, <2>1 DEF At, Follows
    <3> QED BY <3>1 DEF Live
  <2> QED BY <1>1, <2>1 DEF Live
<1> SUFFICES ASSUME NEW i \in Live(r), NEW j \in Live(r) PROVE i = j
  BY DEF Single
<1>7. i + k = j + k /\ k \in Nat
  BY <1>6 DEF Single, Follows
<1> QED BY <1>4, <1>7

-----------------------------------------------------------------------------
(* What a step of the console preserves, by the events it takes and raises    *)

LEMMA IdFacts ==
  /\ Destinations \cap OutputEvents = {} /\ DriveRequests \subseteq Destinations
  /\ Recovery \notin Pressed \cup OutputEvents
  /\ "BUTTON" \in Pressed /\ "BUTTON" \notin Destinations \cup OutputEvents
  /\ Destinations \subseteq Pressed /\ "PARKING" \in Destinations \ DriveRequests
  /\ "NEUTRAL" \in Destinations \ DriveRequests
BY DEF Destinations, OutputEvents, DriveRequests, Recovery, Pressed

QuietIds == {"RX", "PRECHARGE_COMPLETED", "DISCHARGE_COMPLETED", "FAULT"}

LEMMA QuietFacts ==
  /\ QuietIds \cap (Pressed \cup OutputEvents \cup {Recovery}) = {}
BY DEF Destinations, OutputEvents, Recovery, Pressed, QuietIds

LEMMA RecoveryKept ==
  ASSUME RecoveryDue, NEW k, NEW added, Follows(events, events', k, added),
         \A e \in added : e.id \notin {Recovery}, k = 1 => 1 \notin At(events, {Recovery}),
         drive'.fsm = "fault" <=> drive.fsm = "fault"
  PROVE  RecoveryDue'
<1>1. Single(At(events', {Recovery}))
  BY SingleKept DEF RecoveryDue
<1>2. At(events, {Recovery}) = {} => At(events', {Recovery}) = {}
  BY NoneKept
<1>3. ASSUME NEW i \in At(events, {Recovery}) PROVE At(events', {Recovery}) # {}
  <2>1. i > k
    <3>1. i \in Nat /\ i >= 1 /\ (k = 1 => i # 1) /\ k \in {0, 1}
      BY <1>3 DEF At, Follows
    <3> QED BY <3>1
  <2> QED BY <2>1, SomeKept
<1> QED BY <1>1, <1>2, <1>3 DEF RecoveryDue

\* The outcome stays before the requests to drive, old and new.
LEMMA OutcomeKept ==
  ASSUME OutcomeFirst, NEW k, NEW added, Follows(events, events', k, added),
         \A e \in added : e.id \notin OutputEvents,
         At(events, OutputEvents) # {} => mci'.output = mci.output,
         At(events, OutputEvents) # {} /\ At(events', OutputEvents) # {} =>
           retry'.waiting = 0 /\ drive'.fsm \notin {"drive", "reverse"}
  PROVE  OutcomeFirst'
<1>1. Single(At(events', OutputEvents))
  BY SingleKept DEF OutcomeFirst
<1>2. At(events', OutputEvents) # {} => At(events, OutputEvents) # {}
  BY NoneKept
<1>3. ASSUME NEW i \in At(events', OutputEvents)
      PROVE  events'[i].id = SuccessEvent(mci'.output) /\ \A n \in At(events', DriveRequests) : i < n
  <2>1. i + k \in At(events, OutputEvents) /\ events'[i] = events[i + k]
    BY Kept
  <2>2. ASSUME NEW n \in At(events', DriveRequests) PROVE i < n
    <3>1. /\ i \in Nat /\ n \in Nat /\ k \in Nat /\ Len(events) \in Nat /\ i + k =< Len(events)
          /\ n \in DOMAIN events' /\ events'[n].id \in DriveRequests
      BY <2>1 DEF At, Follows
    <3>2. CASE n + k \in DOMAIN events /\ events'[n] = events[n + k]
      <4>1. n + k \in At(events, DriveRequests)
        BY <3>1, <3>2 DEF At
      <4>2. i + k < n + k
        BY <2>1, <4>1 DEF OutcomeFirst
      <4> QED BY <3>1, <4>2
    <3>3. CASE n = Len(events) - k + 1
      BY <3>1, <3>3
    <3> QED BY <3>1, <3>2, <3>3 DEF Follows
  <2> QED BY <2>1, <2>2 DEF OutcomeFirst
<1> QED BY <1>1, <1>2, <1>3 DEF OutcomeFirst

\* A step that leaves the FSM in its state, but for the destination that a request sets.
SameState(k) ==
  /\ drive'.fsm = drive.fsm /\ drive'.current = drive.current
  /\ \/ drive'.destination = drive.destination
     \/ k = 1 /\ 1 \in At(events, Destinations) /\ drive'.destination = events[1].id

LEMMA PressesKept ==
  ASSUME PressesInOrder, NEW k, NEW added, Follows(events, events', k, added),
         \A e \in added : e.id \notin Pressed \cup {Recovery}, SameState(k)
  PROVE  PressesInOrder'
<1>1. /\ \A e \in added : e.id \notin {"BUTTON"}
      /\ \A e \in added : e.id \notin Pressed
      /\ \A e \in added : e.id \notin DriveRequests
  BY IdFacts
<1>2. Single(At(events', {"BUTTON"}))
  BY <1>1, SingleKept DEF PressesInOrder
<1>3. drive.fsm = "fault" => Single(Live(events'))
  BY LiveKept DEF PressesInOrder
<1>4. drive.fsm = "neutral_precharged" => AtMostTwo(At(events', Pressed))
  BY <1>1, TwoKept DEF PressesInOrder
<1>5. drive.fsm = "neutral_precharged" => Single(At(events', DriveRequests))
  BY <1>1, SingleKept DEF PressesInOrder
<1>6. At(events, DriveRequests) = {} => At(events', DriveRequests) = {}
  BY <1>1, NoneKept
<1>7. Single(At(events, Pressed)) => Single(At(events', Pressed))
  BY <1>1, SingleKept
<1>8. ASSUME drive.fsm = "set_precharge", At(events', DriveRequests) # {}
      PROVE  drive'.destination = "PARKING"
  <2>1. drive.destination = "PARKING" /\ Single(At(events, Pressed))
    BY <1>6, <1>8 DEF PressesInOrder
  <2>2. ASSUME k = 1, 1 \in At(events, Destinations) PROVE FALSE
    <3>1. 1 \in At(events, Pressed)
      BY <2>2, IdFacts DEF At
    <3>2. \A i \in At(events, DriveRequests) : i \in At(events, Pressed)
      BY IdFacts DEF At
    <3>3. \A i \in At(events, DriveRequests) : i = k
      BY <2>1, <2>2, <3>1, <3>2 DEF Single
    <3> QED BY <1>1, <1>8, <3>3, NoneAdded
  <2> QED BY <2>1, <2>2 DEF SameState
<1> QED BY <1>2, <1>3, <1>4, <1>5, <1>6, <1>7, <1>8 DEF PressesInOrder, SameState

\* A step that adds none of the events that matter and takes no recovery.
LEMMA QuietStepInv ==
  ASSUME ConsoleInv, NEW k, NEW added, Follows(events, events', k, added),
         \A e \in added : e.id \in QuietIds, k = 1 => 1 \notin At(events, {Recovery}),
         SameState(k), retry'.waiting = retry.waiting, mci'.output = mci.output \/ retry.waiting # 0
  PROVE  ConsoleInv'
<1>1. /\ \A e \in added : e.id \notin {Recovery}
      /\ \A e \in added : e.id \notin {"BUTTON"}
      /\ \A e \in added : e.id \notin DriveRequests
      /\ \A e \in added : e.id \notin OutputEvents
      /\ \A e \in added : e.id \notin Pressed \cup {Recovery}
  BY QuietFacts, IdFacts
<1>2. RecoveryDue'
  BY <1>1, RecoveryKept DEF ConsoleInv, SameState
<1>3. PressesInOrder'
  BY <1>1, PressesKept DEF ConsoleInv
<1>4. OutcomeFirst'
  <2>1. At(events, OutputEvents) # {} => retry.waiting = 0 /\ drive.fsm \notin {"drive", "reverse"}
    BY DEF ConsoleInv, OutcomeFirst
  <2> QED BY <1>1, <2>1, OutcomeKept DEF ConsoleInv, SameState
<1>5. OrphanHarmless'
  <2>1. At(events, {"BUTTON"}) = {} => At(events', {"BUTTON"}) = {}
    BY <1>1, NoneKept
  <2>2. At(events, DriveRequests) = {} => At(events', DriveRequests) = {}
    BY <1>1, NoneKept
  <2>3. ASSUME retry.waiting # 0, drive.fsm # "set_motorcontroller_output",
               drive.fsm \notin {"fault", "neutral_discharged"}
        PROVE  drive'.destination \notin DriveRequests
    BY <2>3 DEF ConsoleInv, OrphanHarmless, SameState, At
  <2> QED BY <2>1, <2>2, <2>3 DEF ConsoleInv, OrphanHarmless, SameState
<1>6. Driving'
  BY DEF ConsoleInv, Driving, SameState
<1> QED BY <1>2, <1>3, <1>4, <1>5, <1>6 DEF ConsoleInv

\* A press when none was left to act on and no request of a former command is left.
LEMMA PressInv ==
  ASSUME ConsoleInv, NEW e, e.id = "BUTTON", Follows(events, events', 0, {e}),
         At(events, Pressed) = {}, UNCHANGED drive, UNCHANGED retry, UNCHANGED mci,
         retry.waiting # 0 => drive.fsm = "set_motorcontroller_output"
  PROVE  ConsoleInv'
<1> DEFINE added == {e}
<1>0. Follows(events, events', 0, added) /\ \A i \in At(events, Pressed) : i = 0
  OBVIOUS
<1>1. /\ \A d \in added : d.id \notin {Recovery}
      /\ \A d \in added : d.id \notin DriveRequests
      /\ \A d \in added : d.id \notin OutputEvents
  BY IdFacts
<1> HIDE DEF added
<1>2. At(events, DriveRequests) = {} /\ \A i \in At(events, {"BUTTON"}) : i = 0
  BY IdFacts DEF At
<1>3. At(events', DriveRequests) = {}
  BY <1>0, <1>1, <1>2, NoneKept
<1>4. Single(At(events', Pressed)) /\ AtMostTwo(At(events', Pressed))
  BY <1>0, SingleAdded DEF Single, AtMostTwo
<1>5. RecoveryDue'
  BY <1>0, <1>1, RecoveryKept DEF ConsoleInv
<1>6. PressesInOrder'
  <2>1. Single(At(events', {"BUTTON"})) /\ Single(At(events', DriveRequests))
    BY <1>0, <1>2, <1>3, SingleAdded DEF Single
  <2>2. Single(Live(events'))
    BY <1>4, IdFacts DEF Live, At, Single
  <2> QED BY <1>3, <1>4, <2>1, <2>2 DEF ConsoleInv, PressesInOrder
<1>7. OutcomeFirst'
  BY <1>0, <1>1, OutcomeKept DEF ConsoleInv, OutcomeFirst
<1> QED BY <1>5, <1>6, <1>7 DEF ConsoleInv, OrphanHarmless, Driving

\* An accepted press becomes the request.
LEMMA ButtonInv ==
  ASSUME ConsoleInv, NEW e, e.id \in Destinations, Follows(events, events', 1, {e}),
         1 \in At(events, {"BUTTON"}), UNCHANGED drive, UNCHANGED retry, UNCHANGED mci,
         e.id \in DriveRequests => drive.current # "TRANSITIONING"
  PROVE  ConsoleInv'
<1> DEFINE added == {e}
<1>0. Follows(events, events', 1, added) /\ 1 \in At(events, Pressed)
  BY IdFacts DEF At
<1>1. /\ \A d \in added : d.id \notin {Recovery}
      /\ \A d \in added : d.id \notin {"BUTTON"}
      /\ \A d \in added : d.id \notin OutputEvents
      /\ e.id \notin DriveRequests => \A d \in added : d.id \notin DriveRequests
  BY IdFacts
<1> HIDE DEF added
<1>2. At(events', {"BUTTON"}) = {} /\ Single(At(events', {"BUTTON"}))
  <2>1. \A i \in At(events, {"BUTTON"}) : i = 1
    BY DEF ConsoleInv, PressesInOrder, Single
  <2>2. At(events', {"BUTTON"}) = {}
    BY <1>0, <1>1, <2>1, NoneAdded
  <2> QED BY <2>2 DEF Single
<1>3. Single(At(events, Pressed)) => Single(At(events', Pressed))
  <2>1. Single(At(events, Pressed)) => \A i \in At(events, Pressed) : i = 1
    BY <1>0 DEF Single
  <2> QED BY <1>0, <2>1, SingleAdded
<1>4. drive.fsm = "fault" => Single(Live(events'))
  <2>1. 1 \in Live(events)
    BY DEF Live
  <2>2. drive.fsm = "fault" => \A i \in Live(events) : i = 1
    BY <2>1 DEF ConsoleInv, PressesInOrder, Single
  <2> QED BY <1>0, <1>1, <2>2, LiveAdded
<1>5. drive.fsm = "neutral_precharged" => AtMostTwo(At(events', Pressed))
  BY <1>0, TwoTraded DEF ConsoleInv, PressesInOrder
<1>6. drive.current = "TRANSITIONING" /\ At(events, DriveRequests) = {} => At(events', DriveRequests) = {}
  BY <1>0, <1>1, NoneKept
<1>7. drive.fsm = "neutral_precharged" => Single(At(events', DriveRequests))
  <2>1. CASE e.id \notin DriveRequests
    BY <1>0, <1>1, <2>1, SingleKept DEF ConsoleInv, PressesInOrder
  <2>2. CASE e.id \in DriveRequests
    <3>1. drive.fsm = "neutral_precharged" => Single(At(events', Pressed))
      BY <1>3, <2>2 DEF ConsoleInv, PressesInOrder
    <3> QED BY <3>1, IdFacts DEF Single, At
  <2> QED BY <2>1, <2>2
<1>8. RecoveryDue'
  BY <1>0, <1>1, RecoveryKept DEF ConsoleInv, At, Recovery
<1>9. PressesInOrder'
  BY <1>2, <1>3, <1>4, <1>5, <1>6, <1>7 DEF ConsoleInv, PressesInOrder
<1>10. OutcomeFirst'
  BY <1>0, <1>1, OutcomeKept DEF ConsoleInv, OutcomeFirst
<1> QED BY <1>2, <1>6, <1>8, <1>9, <1>10 DEF ConsoleInv, OrphanHarmless, Driving

\* A command ends, by its answer or for good by its timeout.
LEMMA EndedInv ==
  ASSUME ConsoleInv, NEW k, NEW e, Follows(events, events', k, {e}),
         k = 1 => 1 \notin At(events, {Recovery}), e.id \in {"FAULT", SuccessEvent(mci.output)},
         mci.output \in DriveOutputs, UNCHANGED drive, UNCHANGED mci,
         retry.waiting # 0, retry'.waiting = 0
  PROVE  ConsoleInv'
<1> DEFINE added == {e}
<1>0. Follows(events, events', k, added)
  OBVIOUS
<1>1. /\ \A d \in added : d.id \notin {Recovery}
      /\ \A d \in added : d.id \notin DriveRequests
      /\ \A d \in added : d.id \notin Pressed \cup {Recovery}
      /\ \A d \in added : d.id \in OutputEvents => d.id = SuccessEvent(mci.output)
  BY DEF SuccessEvent, DriveOutputs, Recovery, DriveRequests, Pressed, Destinations, OutputEvents
<1> HIDE DEF added
<1>2. RecoveryDue'
  BY <1>0, <1>1, RecoveryKept DEF ConsoleInv
<1>3. PressesInOrder'
  BY <1>0, <1>1, PressesKept DEF ConsoleInv, SameState
<1>4. OutcomeFirst'
  <2>1. \A i \in At(events, OutputEvents) : i = k
    BY DEF ConsoleInv, OutcomeFirst
  <2>2. Single(At(events', OutputEvents))
    BY <1>0, <2>1, SingleAdded
  <2>3. \A i \in At(events', OutputEvents) : events'[i].id = SuccessEvent(mci.output)
    BY <1>0, <1>1, <2>1, OnlyAdded DEF At
  <2>4. At(events, DriveRequests) = {}
    BY DEF ConsoleInv, PressesInOrder, OrphanHarmless
  <2>5. At(events', DriveRequests) = {}
    BY <1>0, <1>1, <2>4, NoneKept
  <2> QED BY <2>2, <2>3, <2>5 DEF OutcomeFirst, ConsoleInv, Driving
<1> QED BY <1>2, <1>3, <1>4 DEF ConsoleInv, OrphanHarmless, Driving

\* A fault: what was under way is left behind, and the recovery is the last event.
LEMMA ToFaultInv ==
  ASSUME ConsoleInv, NEW e, e.id = Recovery, Follows(events, events', 1, {e}),
         drive.fsm # "fault", drive'.fsm = "fault", drive'.current = drive.current,
         UNCHANGED retry, UNCHANGED mci
  PROVE  ConsoleInv'
<1> DEFINE added == {e}
<1>0. Follows(events, events', 1, added) /\ added # {}
  OBVIOUS
<1>1. /\ \A d \in added : d.id \notin {"BUTTON"}
      /\ \A d \in added : d.id \notin DriveRequests
      /\ \A d \in added : d.id \notin OutputEvents
      /\ \A d \in added : d.id \in {Recovery}
  BY IdFacts
<1> HIDE DEF added
<1>2. At(events, {Recovery}) = {}
  BY DEF ConsoleInv, RecoveryDue
<1>3. RecoveryDue'
  <2>1. \A i \in At(events, {Recovery}) : i = 1
    BY <1>2
  <2>2. Single(At(events', {Recovery}))
    BY <1>0, <2>1, SingleAdded
  <2>3. At(events', {Recovery}) # {}
    BY <1>0, <1>1, LastAdded DEF At
  <2> QED BY <2>2, <2>3 DEF RecoveryDue
<1>4. Single(At(events', {"BUTTON"}))
  BY <1>0, <1>1, SingleKept DEF ConsoleInv, PressesInOrder
<1>5. Single(Live(events'))
  <2>1. \A i \in At(events, {Recovery}) : i = 1
    BY <1>2
  <2>2. \A n \in At(events', {Recovery}) : n = Len(events) - 1 + 1
    BY <1>0, <2>1, OnlyAdded
  <2>3. \A n \in At(events', Destinations) : n =< Len(events) - 1 + 1 /\ n \in Int
    BY <1>0, LastAdded DEF At, Follows
  <2>4. Len(events) \in Int
    BY <1>0 DEF Follows
  <2>5. \A i \in At(events', Destinations), n \in At(events', {Recovery}) : ~(n < i)
    BY <2>2, <2>3, <2>4
  <2>6. \A i \in Live(events') : i \in At(events', {"BUTTON"})
    BY <2>5 DEF Live
  <2> QED BY <1>4, <2>6 DEF Single
<1>6. PressesInOrder'
  BY <1>4, <1>5 DEF PressesInOrder
<1>7. OutcomeFirst'
  BY <1>0, <1>1, OutcomeKept DEF ConsoleInv, OutcomeFirst
<1>8. OrphanHarmless'
  <2>1. retry.waiting # 0 => At(events, DriveRequests) = {}
    BY DEF ConsoleInv, PressesInOrder, OrphanHarmless
  <2>2. retry.waiting # 0 => At(events', DriveRequests) = {}
    BY <1>0, <1>1, <2>1, NoneKept
  <2>3. At(events, {"BUTTON"}) = {} => At(events', {"BUTTON"}) = {}
    BY <1>0, <1>1, NoneKept
  <2> QED BY <2>2, <2>3 DEF ConsoleInv, PressesInOrder, OrphanHarmless
<1> QED BY <1>3, <1>6, <1>7, <1>8 DEF ConsoleInv, Driving

\* The recovery: the presses that came after it are all that is left.
LEMMA FromFaultInv ==
  ASSUME ConsoleInv, Follows(events, events', 1, {}), 1 \in At(events, {Recovery}),
         drive.fsm = "fault", drive'.fsm = "neutral_discharged", drive'.current = drive.current,
         UNCHANGED retry, UNCHANGED mci
  PROVE  ConsoleInv'
<1>1. RecoveryDue'
  <2>1. \A i \in At(events, {Recovery}) : i = 1
    BY DEF ConsoleInv, RecoveryDue, Single
  <2>2. At(events', {Recovery}) = {}
    BY <2>1, NoneAdded
  <2> QED BY <2>2 DEF RecoveryDue, Single
<1>2. Single(At(events', {"BUTTON"}))
  BY SingleKept DEF ConsoleInv, PressesInOrder
<1>3. Single(At(events', Pressed))
  <2>1. ASSUME NEW i \in At(events', Pressed) PROVE i + 1 \in Live(events)
    <3>1. i \in Nat /\ i # 0 /\ i + 1 \in At(events, Pressed)
      BY Kept DEF At, Follows
    <3>2. 1 < i + 1
      BY <3>1
    <3> QED BY <3>1, <3>2 DEF Live, Pressed, At
  <2>2. \A i \in At(events', Pressed) : i \in Nat
    BY DEF At, Follows
  <2> SUFFICES ASSUME NEW i \in At(events', Pressed), NEW j \in At(events', Pressed) PROVE i = j
    BY DEF Single
  <2>3. i + 1 = j + 1
    BY <2>1 DEF ConsoleInv, PressesInOrder, Single
  <2> QED BY <2>2, <2>3
<1>4. PressesInOrder'
  BY <1>2, <1>3 DEF PressesInOrder
<1>5. OutcomeFirst'
  BY OutcomeKept DEF ConsoleInv, OutcomeFirst
<1>6. OrphanHarmless'
  <2>1. At(events, DriveRequests) = {} => At(events', DriveRequests) = {}
    BY NoneKept
  <2>2. At(events, {"BUTTON"}) = {} => At(events', {"BUTTON"}) = {}
    BY NoneKept
  <2> QED BY <2>1, <2>2 DEF ConsoleInv, OrphanHarmless
<1> QED BY <1>1, <1>4, <1>5, <1>6 DEF ConsoleInv, Driving

\* A request that leads to precharge or discharge is the one the FSM waits with.
LEMMA ToPrechargeInv ==
  ASSUME ConsoleInv, NEW added, Follows(events, events', 1, added),
         \A e \in added : e.id \in QuietIds, 1 \in At(events, Destinations),
         \/ drive.fsm \in {"neutral_discharged", "parking"}
         \/ drive.fsm = "neutral_precharged" /\ events[1].id = "PARKING",
         drive'.fsm = "set_precharge", drive'.destination = events[1].id,
         drive'.current = "TRANSITIONING", UNCHANGED retry, UNCHANGED mci
  PROVE  ConsoleInv'
<1>0. 1 \in At(events, Pressed) /\ 1 \notin At(events, {Recovery})
  BY IdFacts DEF At
<1>1. /\ \A e \in added : e.id \notin {Recovery}
      /\ \A e \in added : e.id \notin {"BUTTON"}
      /\ \A e \in added : e.id \notin DriveRequests
      /\ \A e \in added : e.id \notin OutputEvents
      /\ \A e \in added : e.id \notin Pressed
  BY QuietFacts, IdFacts
<1>2. RecoveryDue'
  BY <1>0, <1>1, RecoveryKept DEF ConsoleInv
<1>3. Single(At(events', {"BUTTON"}))
  BY <1>1, SingleKept DEF ConsoleInv, PressesInOrder
<1>4. Single(At(events', Pressed))
  <2>1. CASE drive.fsm = "neutral_precharged"
    BY <1>0, <1>1, <2>1, TwoPopped DEF ConsoleInv, PressesInOrder
  <2>2. CASE drive.fsm \in {"neutral_discharged", "parking"}
    BY <1>1, <2>2, SingleKept DEF ConsoleInv, PressesInOrder
  <2> QED BY <2>1, <2>2
<1>5. ASSUME drive.fsm \in {"neutral_discharged", "parking"} PROVE At(events', Pressed) = {}
  <2>1. \A i \in At(events, Pressed) : i = 1
    BY <1>0, <1>5 DEF ConsoleInv, PressesInOrder, Single
  <2> QED BY <1>1, <2>1, NoneAdded
<1>6. PressesInOrder'
  <2>1. drive.fsm \in {"neutral_discharged", "parking"} => At(events', DriveRequests) = {}
    BY <1>5, IdFacts DEF At
  <2> QED BY <1>3, <1>4, <2>1 DEF PressesInOrder
<1>7. OutcomeFirst'
  BY <1>1, OutcomeKept DEF ConsoleInv, OutcomeFirst
<1>8. OrphanHarmless'
  <2> SUFFICES ASSUME retry.waiting # 0
               PROVE  /\ At(events', DriveRequests) = {} /\ At(events', {"BUTTON"}) = {}
                      /\ drive'.destination \notin DriveRequests
    BY DEF OrphanHarmless
  <2>1. At(events, DriveRequests) = {}
    BY DEF ConsoleInv, OrphanHarmless
  <2>2. At(events', DriveRequests) = {} /\ events[1].id \notin DriveRequests
    BY <1>1, <2>1, NoneKept DEF At
  <2>3. At(events', {"BUTTON"}) = {}
    <3>1. CASE drive.fsm = "neutral_precharged"
      <4>1. At(events, {"BUTTON"}) = {}
        BY <3>1 DEF ConsoleInv, OrphanHarmless
      <4> QED BY <1>1, <4>1, NoneKept
    <3>2. CASE drive.fsm \in {"neutral_discharged", "parking"}
      BY <1>5, <3>2, IdFacts DEF At
    <3> QED BY <3>1, <3>2
  <2> QED BY <2>2, <2>3
<1> QED BY <1>2, <1>6, <1>7, <1>8 DEF ConsoleInv, Driving

\* A request that leads to a command is the last to drive, and finds neither a former command nor
\* the outcome of one.
LEMMA ToCommandInv ==
  ASSUME ConsoleInv, Follows(events, events', 1, {}), 1 \in At(events, Destinations),
         \/ drive.fsm \in {"drive", "reverse"}
         \/ drive.fsm = "neutral_precharged" /\ events[1].id \in DriveRequests,
         drive'.fsm = "set_motorcontroller_output", drive'.current = "TRANSITIONING"
  PROVE  ConsoleInv' /\ retry.waiting = 0
<1>0. 1 \in At(events, Pressed) /\ 1 \notin At(events, {Recovery})
  BY IdFacts DEF At
<1>1. RecoveryDue'
  BY <1>0, RecoveryKept DEF ConsoleInv
<1>2. Single(At(events', {"BUTTON"}))
  BY SingleKept DEF ConsoleInv, PressesInOrder
<1>3. Single(At(events', Pressed))
  <2>1. CASE drive.fsm = "neutral_precharged"
    BY <1>0, <2>1, TwoPopped DEF ConsoleInv, PressesInOrder
  <2>2. CASE drive.fsm \in {"drive", "reverse"}
    BY <2>2, SingleKept DEF ConsoleInv, PressesInOrder
  <2> QED BY <2>1, <2>2
<1>4. At(events', DriveRequests) = {}
  <2>1. CASE drive.fsm = "neutral_precharged"
    <3>1. \A i \in At(events, DriveRequests) : i = 1
      BY <2>1, IdFacts DEF ConsoleInv, PressesInOrder, Single, At
    <3> QED BY <3>1, NoneAdded
  <2>2. CASE drive.fsm \in {"drive", "reverse"}
    <3>1. \A i \in At(events, Pressed) : i = 1
      BY <1>0, <2>2 DEF ConsoleInv, PressesInOrder, Single
    <3>2. \A i \in At(events, DriveRequests) : i = 1
      BY <3>1, IdFacts DEF At
    <3> QED BY <3>2, NoneAdded
  <2> QED BY <2>1, <2>2
<1>5. PressesInOrder'
  BY <1>2, <1>3, <1>4 DEF PressesInOrder
<1>6. OutcomeFirst'
  <2>1. ASSUME NEW i \in At(events, OutputEvents) PROVE FALSE
    <3>1. drive.fsm \notin {"drive", "reverse"}
      BY <2>1 DEF ConsoleInv, OutcomeFirst
    <3>2. 1 \in At(events, DriveRequests)
      BY <3>1 DEF At
    <3>3. i < 1 /\ i \in Nat /\ i # 0
      BY <3>2, <2>1 DEF ConsoleInv, OutcomeFirst, At, Follows
    <3> QED BY <3>3
  <2>2. At(events', OutputEvents) = {}
    BY <2>1, NoneKept
  <2> QED BY <2>2 DEF OutcomeFirst, Single
<1>7. retry.waiting = 0
  BY IdFacts DEF ConsoleInv, Driving, OrphanHarmless, At
<1> QED BY <1>1, <1>5, <1>6, <1>7 DEF ConsoleInv, OrphanHarmless, Driving

\* The FSM is precharged, or the mci is off: what was asked for is asked for again.
LEMMA ToNeutralInv ==
  ASSUME ConsoleInv, NEW added, Follows(events, events', 1, added),
         drive.destination \in Destinations,
         \/ drive.fsm = "set_precharge" /\ 1 \in At(events, QuietIds)
         \/ drive.fsm = "set_motorcontroller_output" /\ 1 \in At(events, OutputEvents),
         drive'.fsm = "neutral_precharged", drive'.destination = drive.destination,
         \/ added = {}
         \/ drive'.current = "TRANSITIONING" /\ \A e \in added : e.id = drive.destination,
         UNCHANGED retry, UNCHANGED mci
  PROVE  ConsoleInv'
<1>0. 1 \notin At(events, {Recovery})
  BY QuietFacts, IdFacts DEF At
<1>1. /\ \A e \in added : e.id \notin {Recovery}
      /\ \A e \in added : e.id \notin {"BUTTON"}
      /\ \A e \in added : e.id \notin OutputEvents
      /\ drive.destination \notin DriveRequests => \A e \in added : e.id \notin DriveRequests
  BY IdFacts
<1>2. RecoveryDue'
  BY <1>0, <1>1, RecoveryKept DEF ConsoleInv
<1>3. Single(At(events', {"BUTTON"}))
  BY <1>1, SingleKept DEF ConsoleInv, PressesInOrder
<1>4. AtMostTwo(At(events', Pressed))
  BY TwoAdded DEF ConsoleInv, PressesInOrder
<1>5. added = {} => Single(At(events', Pressed))
  <2>1. added = {} => \A e \in added : e.id \notin Pressed
    OBVIOUS
  <2> QED BY <2>1, SingleKept DEF ConsoleInv, PressesInOrder
<1>6. Single(At(events', DriveRequests))
  <2>1. CASE At(events, DriveRequests) = {}
    <3>1. \A i \in At(events, DriveRequests) : i = 1
      BY <2>1
    <3> QED BY <3>1, SingleAdded
  <2>2. CASE At(events, DriveRequests) # {}
    <3>1. drive.destination = "PARKING" /\ Single(At(events, Pressed))
      BY <2>2 DEF ConsoleInv, PressesInOrder
    <3>2. Single(At(events, DriveRequests))
      BY <3>1, IdFacts DEF Single, At
    <3> QED BY <1>1, <3>1, <3>2, IdFacts, SingleKept
  <2> QED BY <2>1, <2>2
<1>7. PressesInOrder'
  BY <1>3, <1>4, <1>5, <1>6 DEF PressesInOrder
<1>8. OutcomeFirst'
  <2>1. CASE drive.fsm = "set_precharge"
    BY <1>1, <2>1, OutcomeKept DEF ConsoleInv, OutcomeFirst
  <2>2. CASE 1 \in At(events, OutputEvents)
    <3>1. \A i \in At(events, OutputEvents) : i = 1
      BY <2>2 DEF ConsoleInv, OutcomeFirst, Single
    <3>2. At(events', OutputEvents) = {}
      BY <1>1, <3>1, NoneAdded
    <3> QED BY <3>2 DEF OutcomeFirst, Single
  <2> QED BY <2>1, <2>2
<1>9. OrphanHarmless'
  <2>1. CASE 1 \in At(events, OutputEvents)
    BY <2>1 DEF ConsoleInv, OutcomeFirst, OrphanHarmless
  <2>2. CASE drive.fsm = "set_precharge" /\ retry.waiting # 0
    <3>1. /\ At(events, DriveRequests) = {} /\ At(events, {"BUTTON"}) = {}
          /\ drive.destination \notin DriveRequests
      BY <2>2 DEF ConsoleInv, OrphanHarmless
    <3>2. At(events', DriveRequests) = {} /\ At(events', {"BUTTON"}) = {}
      <4>1. At(events', DriveRequests) = {}
        BY <1>1, <3>1, NoneKept
      <4>2. At(events', {"BUTTON"}) = {}
        BY <1>1, <3>1, NoneKept
      <4> QED BY <4>1, <4>2
    <3> QED BY <3>1, <3>2 DEF OrphanHarmless
  <2> QED BY <2>1, <2>2 DEF OrphanHarmless
<1> QED BY <1>2, <1>7, <1>8, <1>9 DEF ConsoleInv, Driving

\* The end of a transition.
LEMMA ToShownInv ==
  ASSUME ConsoleInv, Follows(events, events', 1, {}),
         \/ /\ drive.fsm = "set_precharge" /\ 1 \in At(events, QuietIds) /\ drive'.fsm = "parking"
         \/ /\ drive.fsm = "set_motorcontroller_output"
            /\ 1 \in At(events, OutputEvents)
            /\ \/ events[1].id = "OUTPUT_DRIVE" /\ drive'.fsm = "drive"
               \/ events[1].id = "OUTPUT_REVERSE" /\ drive'.fsm = "reverse",
         mci.output \in DriveOutputs, drive'.destination = drive.destination,
         UNCHANGED retry, UNCHANGED mci
  PROVE  ConsoleInv'
<1>0. 1 \notin At(events, {Recovery})
  BY QuietFacts, IdFacts DEF At
<1>1. RecoveryDue'
  BY <1>0, RecoveryKept DEF ConsoleInv
<1>2. Single(At(events', {"BUTTON"}))
  BY SingleKept DEF ConsoleInv, PressesInOrder
<1>3. Single(At(events', Pressed))
  BY SingleKept DEF ConsoleInv, PressesInOrder
<1>4. PressesInOrder'
  BY <1>2, <1>3 DEF PressesInOrder
<1>5. OutcomeFirst'
  <2>1. CASE drive.fsm = "set_precharge"
    BY <2>1, OutcomeKept DEF ConsoleInv, OutcomeFirst
  <2>2. CASE 1 \in At(events, OutputEvents)
    <3>1. \A i \in At(events, OutputEvents) : i = 1
      BY <2>2 DEF ConsoleInv, OutcomeFirst, Single
    <3>2. At(events', OutputEvents) = {}
      BY <3>1, NoneAdded
    <3> QED BY <3>2 DEF OutcomeFirst, Single
  <2> QED BY <2>1, <2>2
<1>6. OrphanHarmless'
  <2>1. CASE 1 \in At(events, OutputEvents)
    BY <2>1 DEF ConsoleInv, OutcomeFirst, OrphanHarmless
  <2>2. CASE drive.fsm = "set_precharge" /\ retry.waiting # 0
    <3>1. /\ At(events, DriveRequests) = {} /\ At(events, {"BUTTON"}) = {}
          /\ drive.destination \notin DriveRequests
      BY <2>2 DEF ConsoleInv, OrphanHarmless
    <3>2. At(events', DriveRequests) = {}
      BY <3>1, NoneKept
    <3>3. At(events', {"BUTTON"}) = {}
      BY <3>1, NoneKept
    <3> QED BY <3>1, <3>2, <3>3 DEF OrphanHarmless
  <2> QED BY <2>1, <2>2 DEF OrphanHarmless
<1>7. Driving'
  <2>1. CASE 1 \in At(events, OutputEvents)
    <3>1. retry.waiting = 0 /\ events[1].id = SuccessEvent(mci.output)
      BY <2>1 DEF ConsoleInv, OutcomeFirst
    <3>2. /\ events[1].id = "OUTPUT_DRIVE" => mci.output = "DRIVE"
          /\ events[1].id = "OUTPUT_REVERSE" => mci.output = "REVERSE"
      BY <3>1 DEF SuccessEvent, DriveOutputs
    <3> QED BY <3>1, <3>2, <2>1 DEF Driving, ConsoleInv
  <2>2. CASE drive.fsm = "set_precharge"
    BY <2>2 DEF Driving
  <2> QED BY <2>1, <2>2
<1> QED BY <1>1, <1>4, <1>5, <1>6, <1>7 DEF ConsoleInv

-----------------------------------------------------------------------------
(* What the helpers make of a state of the console, its fields given one by one *)

Console(q, d, p, r, bus) ==
  [events |-> q, drive |-> d, precharging |-> p, retry |-> r, toMci |-> bus]
Drive(fsm, destination, current) == [fsm |-> fsm, destination |-> destination, current |-> current]
Retry(count, output, waiting) == [count |-> count, output |-> output, waiting |-> waiting]

\* The state s has these fields, and the precharge monitor is on or off.
Shows(s, q, d, r, bus) ==
  s.events = q /\ s.drive = d /\ s.precharging \in BOOLEAN /\ s.retry = r /\ s.toMci = bus

LEMMA RaisedFacts ==
  ASSUME NEW q, NEW d, NEW p, NEW r, NEW bus, NEW id
  PROVE  Raised(Console(q, d, p, r, bus), id) = Console(Append(q, Event(id, "none")), d, p, r, bus)
BY DEF Console, Raised

LEMMA SentFacts ==
  ASSUME NEW q, NEW d, NEW p, NEW r, NEW bus, NEW m
  PROVE  Sent(Console(q, d, p, r, bus), m) = Console(q, d, p, r, Put(bus, m))
BY DEF Console, Sent

LEMMA ShowsFacts ==
  ASSUME NEW q, NEW d, NEW p \in BOOLEAN, NEW r, NEW bus
  PROVE  Shows(Console(q, d, p, r, bus), q, d, r, bus)
BY DEF Console, Shows

LEMMA MonitorFacts ==
  ASSUME NEW q, NEW d, NEW p, NEW r, NEW bus
  PROVE  /\ Shows(MonitorStarted(Console(q, d, p, r, bus)), q, d, r, Put(bus, Begin))
         /\ Shows(MonitorCompleted(Console(q, d, p, r, bus)),
                  Append(q, Event("PRECHARGE_COMPLETED", "none")), d, r, bus)
         /\ Shows([Raised(Console(q, d, p, r, bus), "FAULT") EXCEPT !.precharging = FALSE],
                  Append(q, Event("FAULT", "none")), d, r, bus)
<1>1. Shows(MonitorStarted(Console(q, d, p, r, bus)), q, d, r, Put(bus, Begin))
  BY DEF Console, Shows, MonitorStarted, Sent
<1>2. Shows(MonitorCompleted(Console(q, d, p, r, bus)),
            Append(q, Event("PRECHARGE_COMPLETED", "none")), d, r, bus)
  BY DEF Console, Shows, MonitorCompleted, Raised
<1>3. Shows([Raised(Console(q, d, p, r, bus), "FAULT") EXCEPT !.precharging = FALSE],
            Append(q, Event("FAULT", "none")), d, r, bus)
  BY DEF Console, Shows, Raised
<1> QED BY <1>1, <1>2, <1>3

\* A request ends with the event that says so, or is sent again.
LEMMA AnsweredFacts ==
  ASSUME NEW q, NEW d, NEW p \in BOOLEAN, NEW count \in Nat, NEW output,
         NEW waiting \in Nat \ {0}, NEW bus, NEW ok \in BOOLEAN,
         NEW left, left = IF waiting = 1 THEN "OFF" ELSE output,
         NEW s, s = Answered(Console(q, d, p, Retry(count, output, waiting), bus), ok)
  PROVE  \/ /\ ok
            /\ Shows(s, Append(q, Event(SuccessEvent(output), "none")), d, Retry(0, left, waiting - 1), bus)
         \/ /\ ~ok
            /\ Shows(s, Append(q, Event("FAULT", "none")), d, Retry(0, left, waiting - 1), bus)
         \/ /\ ~ok /\ count + 1 < DriveRetries
            /\ Shows(s, q, d, Retry(count + 1, output, waiting), Put(bus, DriveOutput(output)))
<1> DEFINE c == Console(q, d, p, Retry(count, output, waiting), bus)
           l == Left(c)
           reset == [l EXCEPT !.retry.count = 0]
           again == [l EXCEPT !.retry.count = count + 1, !.retry.output = output]
<1>1. l = Console(q, d, p, Retry(count, left, waiting - 1), bus)
  <2>1. c.retry.waiting = waiting /\ c.retry.output = output
    BY DEF Console, Retry
  <2>2. [c EXCEPT !.retry.waiting = waiting - 1] = Console(q, d, p, Retry(count, output, waiting - 1), bus)
    BY DEF Console, Retry
  <2>3. [Console(q, d, p, Retry(count, output, waiting - 1), bus) EXCEPT !.retry.output = left]
          = Console(q, d, p, Retry(count, left, waiting - 1), bus)
    BY DEF Console, Retry
  <2>4. l = [[c EXCEPT !.retry.waiting = @ - 1] EXCEPT
               !.retry.output = IF c.retry.waiting = 1 THEN "OFF" ELSE @]
    BY DEF Left
  <2>5. [c EXCEPT !.retry.waiting = @ - 1] = [c EXCEPT !.retry.waiting = waiting - 1]
    BY <2>1
  <2>6. l = [[c EXCEPT !.retry.waiting = waiting - 1] EXCEPT !.retry.output = left]
    <3> DEFINE u == [c EXCEPT !.retry.waiting = waiting - 1]
    <3>1. u.retry.output = output
      BY <2>2 DEF Console, Retry
    <3>2. l = [u EXCEPT !.retry.output = IF waiting = 1 THEN "OFF" ELSE @]
      BY <2>1, <2>4, <2>5
    <3> HIDE DEF u
    <3>3. l = [u EXCEPT !.retry.output = left]
      BY <3>1, <3>2
    <3> QED BY <3>3 DEF u
  <2> QED BY <2>2, <2>3, <2>6
<1>2. c.retry.count = count /\ c.retry.output = output
  BY DEF Console, Retry
<1>3. reset = Console(q, d, p, Retry(0, left, waiting - 1), bus)
  BY <1>1 DEF Console, Retry
<1>4. again = Console(q, d, p, Retry(count + 1, output, waiting - 1), bus)
  <2>1. [l EXCEPT !.retry.count = count + 1] = Console(q, d, p, Retry(count + 1, left, waiting - 1), bus)
    BY <1>1 DEF Console, Retry
  <2>2. [Console(q, d, p, Retry(count + 1, left, waiting - 1), bus) EXCEPT !.retry.output = output]
          = Console(q, d, p, Retry(count + 1, output, waiting - 1), bus)
    BY DEF Console, Retry
  <2>3. again = [[l EXCEPT !.retry.count = count + 1] EXCEPT !.retry.output = output]
    OBVIOUS
  <2> QED BY <2>1, <2>2, <2>3
<1>5. s = CASE ok -> Raised(reset, SuccessEvent(output))
            [] ~ok /\ count + 1 >= DriveRetries -> Raised(reset, "FAULT")
            [] OTHER -> Tried(again)
  BY <1>2 DEF Answered
<1> HIDE DEF c, l, reset, again
<1>6. CASE ok
  <2>1. s = Raised(reset, SuccessEvent(output))
    BY <1>5, <1>6
  <2>2. Shows(s, Append(q, Event(SuccessEvent(output), "none")), d, Retry(0, left, waiting - 1), bus)
    BY <1>3, <2>1, RaisedFacts, ShowsFacts
  <2> QED BY <1>6, <2>2
<1>7. CASE ~ok /\ count + 1 >= DriveRetries
  <2>1. s = Raised(reset, "FAULT")
    BY <1>5, <1>7
  <2> QED BY <1>3, <1>7, <2>1, RaisedFacts, ShowsFacts
<1>8. CASE ~ok /\ ~(count + 1 >= DriveRetries)
  <2>1. s = Tried(again)
    BY <1>5, <1>8
  <2>2. [again EXCEPT !.retry.waiting = @ + 1] = Console(q, d, p, Retry(count + 1, output, waiting), bus)
    <3>1. (waiting - 1) + 1 = waiting
      OBVIOUS
    <3> QED BY <1>4, <3>1 DEF Console, Retry
  <2>3. again.retry.output = output
    BY <1>4 DEF Console, Retry
  <2>4. s = Console(q, d, p, Retry(count + 1, output, waiting), Put(bus, DriveOutput(output)))
    BY <2>1, <2>2, <2>3, SentFacts DEF Tried
  <2>5. count + 1 < DriveRetries
    BY <1>8, DriveAssumption
  <2> QED BY <1>8, <2>4, <2>5, ShowsFacts
<1> QED BY <1>6, <1>7, <1>8

LEMMA EnteredFacts ==
  ASSUME NEW q, NEW state, NEW destination, NEW current, NEW p \in BOOLEAN, NEW r, NEW bus,
         NEW f \in DriveStates, NEW s, s = Entered(Console(q, Drive(state, destination, current), p, r, bus), f)
  PROVE  /\ f = "neutral_discharged" => Shows(s, q, Drive(f, destination, current), r, bus)
         /\ f = "fault" => Shows(s, Append(q, Event(Recovery, "none")), Drive(f, NoDestination, current),
                                 r, Put(bus, Discharge))
         /\ f = "set_precharge" =>
              \/ Shows(s, Append(q, Event("DISCHARGE_COMPLETED", "none")),
                       Drive(f, destination, "TRANSITIONING"), r, Put(bus, Discharge))
              \/ Shows(s, q, Drive(f, destination, "TRANSITIONING"), r, Put(bus, Begin))
         /\ f = "neutral_precharged" =>
              \/ destination = "NEUTRAL" /\ Shows(s, q, Drive(f, destination, "NEUTRAL"), r, bus)
              \/ Shows(s, Append(q, Event(destination, "none")), Drive(f, destination, current), r, bus)
         /\ f \in {"drive", "reverse", "parking"} /\ destination \in Destinations =>
              Shows(s, q, Drive(f, destination, destination), r, bus)
<1> DEFINE t == Console(q, Drive(f, destination, current), p, r, bus)
<1>0. [Console(q, Drive(state, destination, current), p, r, bus) EXCEPT !.drive.fsm = f] = t
  BY DEF Console, Drive
<1>1. t.drive.destination = destination
  BY DEF Console, Drive
<1>2. [t EXCEPT !.drive.current = destination] = Console(q, Drive(f, destination, destination), p, r, bus)
  BY DEF Console, Drive
<1>3. [t EXCEPT !.drive.current = "TRANSITIONING"]
        = Console(q, Drive(f, destination, "TRANSITIONING"), p, r, bus)
  BY DEF Console, Drive
<1> HIDE DEF t
<1>4. CASE f = "neutral_discharged"
  <2>1. s = t
    BY <1>0, <1>4 DEF Entered
  <2> QED BY <1>4, <2>1, ShowsFacts DEF t
<1>5. CASE f = "fault"
  <2>1. s = FaultEntered(t)
    BY <1>0, <1>5 DEF Entered
  <2>2. Sent(t, Discharge) = Console(q, Drive(f, destination, current), p, r, Put(bus, Discharge))
    BY SentFacts DEF t
  <2>3. [Sent(t, Discharge) EXCEPT !.drive.destination = NoDestination]
          = Console(q, Drive(f, NoDestination, current), p, r, Put(bus, Discharge))
    BY <2>2 DEF Console, Drive
  <2> QED BY <1>5, <2>1, <2>3, RaisedFacts, ShowsFacts DEF FaultEntered, Recovery
<1>6. CASE f = "set_precharge"
  <2> DEFINE u == Console(q, Drive(f, destination, "TRANSITIONING"), p, r, bus)
  <2>1. s = PrechargeEntered(t)
    BY <1>0, <1>6 DEF Entered
  <2>2. s = IF u.drive.destination = "PARKING"
            THEN Raised(Sent(u, Discharge), "DISCHARGE_COMPLETED") ELSE MonitorStarted(u)
    BY <1>3, <2>1 DEF PrechargeEntered
  <2>3. Shows(Raised(Sent(u, Discharge), "DISCHARGE_COMPLETED"),
              Append(q, Event("DISCHARGE_COMPLETED", "none")),
              Drive(f, destination, "TRANSITIONING"), r, Put(bus, Discharge))
    BY SentFacts, RaisedFacts, ShowsFacts
  <2>4. Shows(MonitorStarted(u), q, Drive(f, destination, "TRANSITIONING"), r, Put(bus, Begin))
    BY MonitorFacts
  <2> HIDE DEF u
  <2> QED BY <1>6, <2>2, <2>3, <2>4
<1>7. CASE f = "neutral_precharged"
  <2>0. s = NeutralPrechargedEntered(t)
    BY <1>0, <1>7 DEF Entered
  <2>1. s = IF destination = "NEUTRAL" THEN DestinationShown(t) ELSE Raised(t, destination)
    BY <1>1, <2>0 DEF NeutralPrechargedEntered
  <2>2. CASE destination = "NEUTRAL"
    <3>1. s = Console(q, Drive(f, destination, destination), p, r, bus)
      BY <1>1, <1>2, <2>1, <2>2 DEF DestinationShown, NoDestination
    <3> QED BY <1>7, <2>2, <3>1, ShowsFacts
  <2>3. CASE destination # "NEUTRAL"
    <3>1. s = Raised(t, destination)
      BY <2>1, <2>3
    <3> QED BY <1>7, <3>1, RaisedFacts, ShowsFacts DEF t
  <2> QED BY <2>2, <2>3
<1>8. CASE f \in {"drive", "reverse", "parking"} /\ destination \in Destinations
  <2>1. destination # NoDestination
    BY <1>8 DEF Destinations, NoDestination
  <2>2. s = DestinationShown(t)
    BY <1>0, <1>8 DEF Entered
  <2>3. s = Console(q, Drive(f, destination, destination), p, r, bus)
    BY <1>1, <1>2, <2>1, <2>2 DEF DestinationShown
  <2> QED BY <1>8, <2>3, ShowsFacts
<1> QED BY <1>4, <1>5, <1>6, <1>7, <1>8

LEMMA CommandEnteredFacts ==
  ASSUME NEW q, NEW state, NEW destination, NEW current, NEW p \in BOOLEAN, NEW count, NEW output,
         NEW waiting, NEW bus, NEW r, r = Retry(count, output, waiting), NEW s,
         s = Entered(Console(q, Drive(state, destination, current), p, r, bus), "set_motorcontroller_output")
  PROVE  Shows(s, q, Drive("set_motorcontroller_output", destination, "TRANSITIONING"),
               Retry(count, MciOutput[destination], waiting + 1),
               Put(bus, DriveOutput(MciOutput[destination])))
<1> DEFINE f == "set_motorcontroller_output"
           d == Drive(f, destination, "TRANSITIONING")
           t == Console(q, Drive(f, destination, current), p, r, bus)
           u == Console(q, d, p, r, bus)
           o == MciOutput[destination]
           v == Console(q, d, p, Retry(count, o, waiting), bus)
<1>1. [Console(q, Drive(state, destination, current), p, r, bus) EXCEPT !.drive.fsm = f] = t
  BY DEF Console, Drive
<1>2. [t EXCEPT !.drive.current = "TRANSITIONING"] = u
  BY DEF Console, Drive
<1>3. t.drive.destination = destination
  BY DEF Console, Drive
<1>4. s = CommandEntered(t)
  BY <1>1 DEF Entered
<1>5. s = CommandSent(u, o)
  BY <1>2, <1>3, <1>4 DEF CommandEntered
<1>6. [u EXCEPT !.retry.output = o] = v
  BY DEF Console, Retry
<1>7. s = Tried(v)
  BY <1>5, <1>6 DEF CommandSent
<1>8. [v EXCEPT !.retry.waiting = @ + 1] = Console(q, d, p, Retry(count, o, waiting + 1), bus)
  BY DEF Console, Retry
<1>9. v.retry.output = o
  BY DEF Console, Retry
<1> HIDE DEF v, d
<1>10. s = Console(q, d, p, Retry(count, o, waiting + 1), Put(bus, DriveOutput(o)))
  BY <1>7, <1>8, <1>9, SentFacts DEF Tried
<1> QED BY <1>10, ShowsFacts DEF d

-----------------------------------------------------------------------------
(* The command and its answer on their way                                  *)

Tokens == OneCommand /\ AnswersTrue

LEMMA TokenSets ==
  /\ OutputSent = At(toMci, {"DRIVE_OUTPUT"}) /\ AckSent = At(toConsole, {"ACK"})
  /\ OutputSent' = At(toMci', {"DRIVE_OUTPUT"}) /\ AckSent' = At(toConsole', {"ACK"})
BY DEF OutputSent, AckSent, At

LEMMA UnderWay ==
  AnswerUnderWay <=> OutputSent # {} \/ handler.answer # "none" \/ AckSent # {} \/ AckReceived # {}
BY DEF AnswerUnderWay, OutputSent, AckSent, AckReceived

LEMMA UnderWayPrimed ==
  AnswerUnderWay' <=> OutputSent' # {} \/ handler'.answer # "none" \/ AckSent' # {} \/ AckReceived' # {}
BY DEF AnswerUnderWay, OutputSent, AckSent, AckReceived

LEMMA AcksKept ==
  ASSUME NEW k, NEW added, Follows(events, events', k, added),
         \A e \in added : ~(e.id = "RX" /\ e.data.id = "ACK")
  PROVE  \A i \in AckReceived' : i + k \in AckReceived /\ events'[i] = events[i + k] /\ i \in Nat /\ k \in Nat
BY DEF Follows, AckReceived

\* Messages that are no commands and no answers come and go; any may be lost.
LEMMA TokensKept ==
  ASSUME Tokens, NEW k1, NEW a1, Follows(toMci, toMci', k1, a1), NEW k2, NEW a2,
         Follows(toConsole, toConsole', k2, a2), NEW k3, NEW a3, Follows(events, events', k3, a3),
         \A m \in a1 : m.id # "DRIVE_OUTPUT", \A m \in a2 : m.id # "ACK",
         \A e \in a3 : ~(e.id = "RX" /\ e.data.id = "ACK"),
         handler'.answer = handler.answer,
         handler'.at \in {"idle", "draining"} <=> handler'.answer = "none",
         handler'.answer # "none" => handler'.next = handler.next,
         retry'.waiting = retry.waiting, retry'.output = retry.output,
         handler.answer = "none" => mci'.output = mci.output
  PROVE  Tokens'
<1>0. /\ \A m \in a1 : m.id \notin {"DRIVE_OUTPUT"}
      /\ \A m \in a2 : m.id \notin {"ACK"}
  OBVIOUS
<1>1. /\ \A i \in OutputSent' : i + k1 \in OutputSent /\ toMci'[i] = toMci[i + k1]
      /\ \A i \in OutputSent' : i \in Nat /\ k1 \in Nat
      /\ Single(OutputSent')
  <2>1. Single(OutputSent')
    BY <1>0, SingleKept, TokenSets DEF Tokens, OneCommand
  <2>2. \A i \in OutputSent' : i + k1 \in OutputSent /\ toMci'[i] = toMci[i + k1]
    BY <1>0, Kept, TokenSets
  <2> QED BY <2>1, <2>2 DEF OutputSent, Follows
<1>2. /\ \A i \in AckSent' : i + k2 \in AckSent /\ toConsole'[i] = toConsole[i + k2]
      /\ Single(AckSent')
  <2>1. Single(AckSent')
    BY <1>0, SingleKept, TokenSets DEF Tokens, OneCommand
  <2>2. \A i \in AckSent' : i + k2 \in AckSent /\ toConsole'[i] = toConsole[i + k2]
    BY <1>0, Kept, TokenSets
  <2> QED BY <2>1, <2>2
<1>3. /\ \A i \in AckReceived' : i + k3 \in AckReceived /\ events'[i] = events[i + k3]
      /\ Single(AckReceived')
  <2>1. \A i \in AckReceived' : i + k3 \in AckReceived /\ events'[i] = events[i + k3] /\ i \in Nat /\ k3 \in Nat
    BY AcksKept
  <2>2. ASSUME NEW i \in AckReceived', NEW j \in AckReceived' PROVE i = j
    <3>1. i + k3 = j + k3
      BY <2>1 DEF Tokens, OneCommand, Single
    <3> QED BY <2>1, <3>1
  <2> QED BY <2>1, <2>2 DEF Single
<1>4. /\ OutputSent' # {} => OutputSent # {}
      /\ AckSent' # {} => AckSent # {}
      /\ AckReceived' # {} => AckReceived # {}
  BY <1>1, <1>2, <1>3
<1>5. AnswerUnderWay' => retry'.waiting = 1
  BY <1>4, UnderWay, UnderWayPrimed DEF Tokens, OneCommand
<1>6. OneCommand'
  BY <1>1, <1>2, <1>3, <1>4, <1>5 DEF Tokens, OneCommand
<1>7. AckSent' # {} \/ AckReceived' # {} => mci'.output = mci.output
  BY <1>4 DEF Tokens, OneCommand
<1>8. AnswersTrue'
  <2>1. \A i \in OutputSent' : toMci'[i].data = retry'.output
    BY <1>1 DEF Tokens, AnswersTrue
  <2>2. handler'.answer = "OK" => OutputOf[handler'.next] = retry'.output
    BY DEF Tokens, AnswersTrue
  <2>3. \A i \in AckSent' : toConsole'[i].data = "OK" => mci'.output = retry'.output
    BY <1>2, <1>7 DEF Tokens, AnswersTrue
  <2>4. \A i \in AckReceived' : events'[i].data.data = "OK" => mci'.output = retry'.output
    BY <1>3, <1>7 DEF Tokens, AnswersTrue
  <2> QED BY <2>1, <2>2, <2>3, <2>4 DEF AnswersTrue
<1> QED BY <1>6, <1>8 DEF Tokens

\* A command when nothing of a former one is under way, or the end of the request.
LEMMA TokensFresh ==
  ASSUME Single(OutputSent'), \A i \in OutputSent' : toMci'[i].data = retry'.output,
         AckSent' = {}, AckReceived' = {}, handler'.answer = "none",
         handler'.at \in {"idle", "draining"}, retry'.waiting \in {0, 1},
         OutputSent' # {} => retry'.waiting = 1
  PROVE  Tokens'
BY UnderWayPrimed DEF Tokens, OneCommand, AnswersTrue, Single

\* Where a bounded queue takes a message, or ignores it.
LEMMA PutFacts ==
  ASSUME NEW M, NEW bus \in Seq(M), Len(bus) =< BusSize, NEW m \in M
  PROVE  /\ Put(bus, m) \in Seq(M) /\ Len(Put(bus, m)) =< BusSize
         /\ \E added \in {{}, {m}} : Follows(bus, Put(bus, m), 0, added)
<1>1. Follows(bus, bus, 0, {}) /\ Follows(bus, Append(bus, m), 0, {m})
  BY QueueSteps
<1>2. CASE Len(bus) < BusSize
  <2>1. Put(bus, m) = Append(bus, m)
    BY <1>2 DEF Put
  <2>2. Append(bus, m) \in Seq(M) /\ Len(Append(bus, m)) = Len(bus) + 1
    OBVIOUS
  <2>3. Len(bus) \in Nat /\ BusSize \in Nat
    BY BusAssumption
  <2> QED BY <1>1, <1>2, <2>1, <2>2, <2>3
<1>3. CASE ~(Len(bus) < BusSize)
  BY <1>1, <1>3 DEF Put
<1> QED BY <1>2, <1>3

LEMMA PopFacts ==
  ASSUME NEW M, NEW bus \in Seq(M), Len(bus) =< BusSize, bus # <<>>
  PROVE  /\ Tail(bus) \in Seq(M) /\ Len(Tail(bus)) =< BusSize /\ Follows(bus, Tail(bus), 1, {})
         /\ Head(bus) = bus[1] /\ bus[1] \in M /\ 1 \in DOMAIN bus
<1>1. bus[1] \in M
  OBVIOUS
<1>2. Len(Tail(bus)) = Len(bus) - 1 /\ Len(bus) \in Nat /\ BusSize \in Nat
  BY BusAssumption
<1>3. /\ Follows(bus, Tail(bus), 1, {}) /\ Tail(bus) \in Seq(M)
      /\ Head(bus) = bus[1] /\ 1 \in DOMAIN bus
  BY <1>1, QueueSteps
<1> QED BY <1>1, <1>2, <1>3

LEMMA SameFacts ==
  ASSUME NEW M, NEW q \in Seq(M)
  PROVE  Follows(q, q, 0, {})
BY DEF Follows

LEMMA MessageFacts ==
  /\ \A m \in Messages : m.id = "DRIVE_OUTPUT" => m.data \in DriveOutputs /\ m = DriveOutput(m.data)
  /\ Begin \in Messages /\ Begin.id # "DRIVE_OUTPUT"
  /\ Discharge \in Messages /\ Discharge.id # "DRIVE_OUTPUT"
  /\ \A o \in DriveOutputs : DriveOutput(o) \in Messages /\ DriveOutput(o).id = "DRIVE_OUTPUT"
                             /\ DriveOutput(o).data = o
  /\ \A m \in ConsoleMessages : m.id \in {"ACK", "PRECHARGE_COMPLETED"}
  /\ Completed \in ConsoleMessages /\ Completed.id # "ACK"
  /\ \A s \in {"OK", "INVALID"} : Ack(s) \in ConsoleMessages /\ Ack(s).id = "ACK" /\ Ack(s).data = s
BY DEF Messages, Begin, Discharge, DriveOutput, ConsoleMessages, Completed, Ack, DriveOutputs

-----------------------------------------------------------------------------
(* The steps of the mci and of the bus                                      *)

TrainTyped == MciInv /\ precharge \in Precharges /\ DriveTyped

\* The mci takes the command: OK is the answer if it goes to another output, the one that is asked
\* for, or is there already.
LEMMA DriveOutputTokens ==
  ASSUME TrainTyped, Tokens, DriveOutputRx, UNCHANGED driveVars
  PROVE  Tokens'
<1> DEFINE m == toMci[1]
<1>1. /\ toMci \in Seq(Messages) /\ toMci # <<>> /\ Len(toMci) =< BusSize
      /\ toConsole \in Seq(ConsoleMessages) /\ Len(toConsole) =< BusSize
      /\ mci.fsm \in States /\ handler.at = "idle" /\ mci.output = OutputOf[mci.fsm]
  BY DEF TrainTyped, MciInv, DriveTyped, DriveOutputRx, NextMessage, Coherent
<1>2. /\ toMci' = Tail(toMci) /\ Head(toMci) = m /\ m \in Messages /\ 1 \in DOMAIN toMci
      /\ Follows(toMci, toMci', 1, {})
  BY <1>1, PopFacts DEF DriveOutputRx, NextMessage
<1>3. m.id = "DRIVE_OUTPUT" /\ m.data \in DriveOutputs /\ 1 \in OutputSent
  BY <1>2, MessageFacts DEF DriveOutputRx, NextMessage, OutputSent
<1>4. /\ retry.waiting = 1 /\ m.data = retry.output
      /\ handler.answer = "none" /\ AckSent = {} /\ AckReceived = {}
  BY <1>3, UnderWay DEF Tokens, OneCommand, AnswersTrue
<1>5. OutputSent' = {}
  <2>1. \A i \in At(toMci, {"DRIVE_OUTPUT"}) : i = 1
    BY <1>3, TokenSets DEF Tokens, OneCommand, Single
  <2> QED BY <1>2, <2>1, NoneAdded, TokenSets
<1>6. /\ UNCHANGED <<events, retry>> /\ AckReceived' = {}
  BY <1>4 DEF driveVars, AckReceived
<1>7. UNCHANGED mci
  BY DEF DriveOutputRx
<1>8. CASE MciMoves(m.data)
  <2>1. /\ handler' = [at |-> "decided", next |-> MciTransitions[mci.fsm][m.data],
                       answer |-> IF m.data # mci.output THEN "OK" ELSE "INVALID"]
        /\ UNCHANGED toConsole
    BY <1>2, <1>8 DEF DriveOutputRx
  <2>2. handler'.at = "decided" /\ handler'.answer # "none" /\ AckSent' = {}
    BY <1>4, <2>1 DEF AckSent
  <2>3. m.data \in DOMAIN MciTransitions[mci.fsm]
    BY <1>8 DEF MciMoves
  <2>4. OutputOf[MciTransitions[mci.fsm][m.data]] = m.data
    <3>1. CASE mci.fsm = "off"
      BY <1>3, <2>3, <3>1, OutputFacts DEF MciTransitions, DriveOutputs
    <3>2. CASE mci.fsm = "drive"
      BY <1>3, <2>3, <3>2, OutputFacts DEF MciTransitions, DriveOutputs
    <3>3. CASE mci.fsm = "reverse"
      BY <1>3, <2>3, <3>3, OutputFacts DEF MciTransitions, DriveOutputs
    <3>4. CASE mci.fsm = "cruise"
      BY <1>3, <2>3, <3>4, OutputFacts DEF MciTransitions, DriveOutputs
    <3> QED BY <1>1, <3>1, <3>2, <3>3, <3>4 DEF States
  <2>5. OutputOf[handler'.next] = retry'.output
    BY <1>4, <1>6, <2>1, <2>4
  <2>6. OneCommand'
    BY <1>4, <1>5, <1>6, <2>2 DEF OneCommand, Single
  <2> QED BY <1>5, <1>6, <2>2, <2>5, <2>6 DEF Tokens, AnswersTrue
<1>9. CASE ~MciMoves(m.data)
  <2> DEFINE s == IF m.data # mci.output THEN "INVALID" ELSE "OK"
  <2>1. toConsole' = Put(toConsole, Ack(s)) /\ UNCHANGED handler
    BY <1>2, <1>9 DEF DriveOutputRx
  <2>2. Ack(s) \in ConsoleMessages /\ Ack(s).data = s
    BY MessageFacts
  <2>3. PICK added \in {{}, {Ack(s)}} : Follows(toConsole, toConsole', 0, added)
    BY <1>1, <2>1, <2>2, PutFacts
  <2>4. \A i \in At(toConsole, {"ACK"}) : i = 0
    BY <1>4, TokenSets
  <2>5. Single(AckSent')
    BY <2>3, <2>4, SingleAdded, TokenSets
  <2>6. \A i \in AckSent' : toConsole'[i] = Ack(s)
    BY <2>3, <2>4, OnlyAdded, TokenSets
  <2>7. \A i \in AckSent' : toConsole'[i].data = "OK" => mci'.output = retry'.output
    BY <1>4, <1>6, <1>7, <2>2, <2>6
  <2>8. handler'.answer = "none" /\ handler'.at = "idle"
    BY <1>1, <1>4, <2>1
  <2>9. OneCommand'
    BY <1>4, <1>5, <1>6, <2>5, <2>8 DEF OneCommand, Single
  <2> QED BY <1>5, <1>6, <2>7, <2>8, <2>9 DEF Tokens, AnswersTrue
<1> QED BY <1>8, <1>9

\* The answer goes to the bus when the command is carried out.
LEMMA SetCruiseTokens ==
  ASSUME TrainTyped, Tokens, SetCruise, UNCHANGED driveVars
  PROVE  Tokens'
<1> DEFINE s == handler.answer
<1>1. /\ handler.at = "half set" /\ handler' = Resting /\ UNCHANGED toMci
      /\ toConsole' = IF s = "none" THEN toConsole ELSE Put(toConsole, Ack(s))
      /\ toConsole \in Seq(ConsoleMessages) /\ Len(toConsole) =< BusSize
      /\ handler \in Handlers /\ mci.output = OutputOf[handler.next] /\ mci'.output = mci.output
  BY DEF SetCruise, TrainTyped, MciInv, DriveTyped
<1>2. /\ s \in {"OK", "INVALID"} /\ OutputSent = {} /\ AckSent = {} /\ AckReceived = {}
      /\ retry.waiting = 1 /\ (s = "OK" => mci.output = retry.output)
  BY <1>1, UnderWay DEF Tokens, OneCommand, AnswersTrue, Handlers
<1>3. /\ UNCHANGED <<events, retry>> /\ AckReceived' = {} /\ OutputSent' = {}
  BY <1>1, <1>2 DEF driveVars, AckReceived, OutputSent
<1>4. Ack(s) \in ConsoleMessages /\ Ack(s).data = s
  BY <1>2, MessageFacts
<1>5. PICK added \in {{}, {Ack(s)}} : Follows(toConsole, toConsole', 0, added)
  <2>1. toConsole' = Put(toConsole, Ack(s))
    BY <1>1, <1>2
  <2>2. toConsole \in Seq(ConsoleMessages) /\ Len(toConsole) =< BusSize
    BY <1>1
  <2> HIDE DEF s
  <2>3. \E added \in {{}, {Ack(s)}} : Follows(toConsole, Put(toConsole, Ack(s)), 0, added)
    BY <1>4, <2>2, PutFacts
  <2> QED BY <2>1, <2>3
<1>6. \A i \in At(toConsole, {"ACK"}) : i = 0
  BY <1>2, TokenSets
<1>7. Single(AckSent')
  BY <1>5, <1>6, SingleAdded, TokenSets
<1>8. \A i \in AckSent' : toConsole'[i] = Ack(s)
  BY <1>5, <1>6, OnlyAdded, TokenSets
<1>9. \A i \in AckSent' : toConsole'[i].data = "OK" => mci'.output = retry'.output
  BY <1>1, <1>2, <1>3, <1>4, <1>8
<1>10. handler'.answer = "none" /\ handler'.at = "idle"
  BY <1>1 DEF Resting
<1>11. OneCommand'
  BY <1>2, <1>3, <1>7, <1>10 DEF OneCommand, Single
<1> QED BY <1>3, <1>9, <1>10, <1>11 DEF Tokens, AnswersTrue

\* The other steps of the mci.
LEMMA MciTokens ==
  ASSUME TrainTyped, Tokens, UNCHANGED driveVars,
         \/ EnterState \/ SetOutput \/ ControlLow \/ PrechargeRx \/ DischargeRx
         \/ \E p \in {1, 2} : PinRises(p) \/ PinFalls(p)
  PROVE  Tokens'
<1>1. /\ toMci \in Seq(Messages) /\ Len(toMci) =< BusSize
      /\ toConsole \in Seq(ConsoleMessages) /\ Len(toConsole) =< BusSize
      /\ events \in Seq(ConsoleEvents) /\ handler \in Handlers
      /\ mci \in [fsm : States, output : DriveOutputs, cruise : BOOLEAN]
  BY DEF TrainTyped, MciInv, DriveTyped
<1>2. UNCHANGED <<events, retry>> /\ Follows(events, events', 0, {})
  BY <1>1, SameFacts DEF driveVars
<1>3. Follows(toMci, toMci, 0, {}) /\ Follows(toConsole, toConsole, 0, {})
  BY <1>1, SameFacts
<1>4. CASE EnterState
  <2>1. /\ handler.at = "decided" /\ handler'.at = "entered" /\ handler'.answer = handler.answer
        /\ handler'.next = handler.next /\ UNCHANGED <<toMci, toConsole>> /\ mci'.output = mci.output
    BY <1>1, <1>4 DEF EnterState, Handlers
  <2> QED BY <1>2, <1>3, <2>1, TokensKept DEF Tokens, OneCommand
<1>5. CASE SetOutput
  <2>1. /\ handler.at = "entered" /\ handler'.at = "half set" /\ handler'.answer = handler.answer
        /\ handler'.next = handler.next /\ UNCHANGED <<toMci, toConsole>>
    BY <1>1, <1>5 DEF SetOutput, Handlers
  <2>2. handler.answer # "none"
    BY <2>1 DEF Tokens, OneCommand
  <2>3. UNCHANGED <<OutputSent, AckSent, AckReceived>> /\ AckSent = {} /\ AckReceived = {}
    BY <1>2, <2>1, <2>2 DEF OutputSent, AckSent, AckReceived, Tokens, OneCommand
  <2>4. AnswerUnderWay' => AnswerUnderWay
    BY <2>1, <2>3, UnderWay, UnderWayPrimed
  <2>5. OneCommand'
    BY <1>2, <2>1, <2>2, <2>3, <2>4 DEF Tokens, OneCommand
  <2> QED BY <1>2, <2>1, <2>3, <2>5 DEF Tokens, AnswersTrue
<1>6. CASE ControlLow
  <2>1. /\ handler.at = "draining" /\ handler'.at = "idle" /\ handler'.answer = "none"
        /\ UNCHANGED <<toMci, toConsole, mci>> /\ handler.answer = "none"
    BY <1>6 DEF ControlLow, Resting, Tokens, OneCommand
  <2> QED BY <1>2, <1>3, <2>1, TokensKept DEF Tokens, OneCommand
<1>7. CASE PrechargeRx \/ DischargeRx
  <2>1. /\ handler.at = "idle" /\ handler'.at \in {"idle", "draining"} /\ handler'.answer = "none"
        /\ UNCHANGED <<toConsole, mci>> /\ toMci # <<>> /\ toMci' = Tail(toMci)
    BY <1>7 DEF PrechargeRx, DischargeRx, NextMessage, Resting, Tokens, OneCommand
  <2>2. Follows(toMci, toMci', 1, {})
    BY <1>1, <2>1, PopFacts
  <2> QED BY <1>2, <1>3, <2>1, <2>2, TokensKept DEF Tokens, OneCommand
<1>8. ASSUME NEW p \in {1, 2}, PinRises(p) \/ PinFalls(p) PROVE Tokens'
  <2>1. /\ UNCHANGED <<toMci, mci, handler>>
        /\ toConsole' = toConsole \/ toConsole' = Put(toConsole, Completed)
    BY <1>8 DEF PinRises, PinFalls
  <2>2. \E added \in {{}, {Completed}} : Follows(toConsole, Put(toConsole, Completed), 0, added)
    BY <1>1, PutFacts, MessageFacts
  <2>3. PICK added \in {{}, {Completed}} : Follows(toConsole, toConsole', 0, added)
    BY <1>3, <2>1, <2>2
  <2>4. \A m \in added : m.id # "ACK"
    BY <2>3, MessageFacts
  <2> QED BY <1>2, <1>3, <2>1, <2>3, <2>4, TokensKept DEF Tokens, OneCommand
<1> QED BY <1>4, <1>5, <1>6, <1>7, <1>8

LEMMA LoseTokens ==
  ASSUME TrainTyped, Tokens, LoseToMci \/ LoseToConsole
  PROVE  Tokens'
<1>1. /\ toMci \in Seq(Messages) /\ Len(toMci) =< BusSize
      /\ toConsole \in Seq(ConsoleMessages) /\ Len(toConsole) =< BusSize
      /\ events \in Seq(ConsoleEvents)
  BY DEF TrainTyped, MciInv, DriveTyped
<1>2. UNCHANGED <<events, retry, handler, mci>> /\ Follows(events, events', 0, {})
  BY <1>1, SameFacts DEF driveVars, mciVars, LoseToMci, LoseToConsole
<1>3. Follows(toMci, toMci, 0, {}) /\ Follows(toConsole, toConsole, 0, {})
  BY <1>1, SameFacts
<1>4. toMci # <<>> => Follows(toMci, Tail(toMci), 1, {})
  BY <1>1, PopFacts
<1>5. toConsole # <<>> => Follows(toConsole, Tail(toConsole), 1, {})
  BY <1>1, PopFacts
<1>6. PICK k1 \in {0, 1}, k2 \in {0, 1} :
        Follows(toMci, toMci', k1, {}) /\ Follows(toConsole, toConsole', k2, {})
  <2>1. CASE LoseToMci
    BY <1>3, <1>4, <2>1 DEF LoseToMci
  <2>2. CASE LoseToConsole
    BY <1>3, <1>5, <2>2 DEF LoseToConsole
  <2> QED BY <2>1, <2>2
<1> QED BY <1>2, <1>6, TokensKept DEF Tokens, OneCommand

LEMMA ReceivesTokens ==
  ASSUME TrainTyped, Tokens, ConsoleReceives, UNCHANGED mciVars, handler.at = "idle"
  PROVE  Tokens'
<1> DEFINE m == toConsole[1]
           e == Event("RX", m)
<1>1. /\ toMci \in Seq(Messages) /\ events \in Seq(ConsoleEvents)
      /\ toConsole \in Seq(ConsoleMessages) /\ Len(toConsole) =< BusSize /\ toConsole # <<>>
  BY DEF TrainTyped, MciInv, DriveTyped, ConsoleReceives
<1>2. /\ toConsole' = Tail(toConsole) /\ Head(toConsole) = m /\ m \in ConsoleMessages
      /\ Follows(toConsole, toConsole', 1, {}) /\ 1 \in DOMAIN toConsole
  BY <1>1, PopFacts DEF ConsoleReceives
<1>3. UNCHANGED <<toMci, retry, handler, mci>> /\ Follows(toMci, toMci', 0, {})
  BY <1>1, SameFacts DEF mciVars, ConsoleReceives
<1>4. e \in ConsoleEvents /\ e.id = "RX" /\ e.data = m
  BY <1>2 DEF Event, ConsoleEvents, EventIds
<1>5. Follows(events, events', 0, {e})
  BY <1>1, <1>2, <1>4, QueueSteps DEF ConsoleReceives
<1> HIDE DEF e
<1>6. CASE m.id # "ACK"
  BY <1>2, <1>3, <1>4, <1>5, <1>6, TokensKept DEF Tokens, OneCommand
<1>7. CASE m.id = "ACK"
  <2>1. 1 \in AckSent
    BY <1>2, <1>7 DEF AckSent
  <2>2. /\ AckReceived = {} /\ OutputSent = {} /\ handler.answer = "none" /\ retry.waiting = 1
        /\ m.data = "OK" => mci.output = retry.output
    BY <2>1, UnderWay DEF Tokens, OneCommand, AnswersTrue
  <2>3. AckSent' = {}
    <3>1. \A i \in At(toConsole, {"ACK"}) : i = 1
      BY <2>1, TokenSets DEF Tokens, OneCommand, Single
    <3> QED BY <1>2, <3>1, NoneAdded, TokenSets
  <2>4. OutputSent' = {}
    BY <1>3, <2>2 DEF OutputSent
  <2>5. \A i \in AckReceived' : i = Len(events) + 1 /\ events'[i] = e
    <3> SUFFICES ASSUME NEW i \in AckReceived' PROVE i = Len(events) + 1 /\ events'[i] = e
      OBVIOUS
    <3>1. i \in DOMAIN events' /\ i \in Nat /\ events'[i].id = "RX" /\ events'[i].data.id = "ACK"
      BY <1>5 DEF AckReceived, Follows
    <3>2. ~(i + 0 \in DOMAIN events /\ events'[i] = events[i + 0])
      BY <2>2, <3>1 DEF AckReceived
    <3>3. i = Len(events) - 0 + 1 /\ events'[i] \in {e} /\ Len(events) \in Nat
      BY <1>5, <3>1, <3>2 DEF Follows
    <3> QED BY <3>3
  <2>6. OneCommand'
    BY <1>3, <2>2, <2>3, <2>4, <2>5 DEF Tokens, OneCommand, Single
  <2>7. \A i \in AckReceived' : events'[i].data.data = "OK" => mci'.output = retry'.output
    BY <1>3, <1>4, <2>2, <2>5
  <2> QED BY <1>3, <2>2, <2>3, <2>4, <2>6, <2>7 DEF Tokens, AnswersTrue
<1> QED BY <1>6, <1>7

-----------------------------------------------------------------------------
(* The steps of the console                                                 *)

TrainInv == TrainTyped /\ crossed \in BOOLEAN /\ (crossed \/ (ConsoleInv /\ Tokens))

LEMMA TableFacts ==
  ASSUME NEW st \in DriveStates, NEW id \in DOMAIN DriveTransitions[st], NEW f, f = DriveTransitions[st][id]
  PROVE  \/ f = "fault" /\ id = "FAULT" /\ st # "fault"
         \/ f = "neutral_discharged" /\ id = Recovery /\ st = "fault"
         \/ /\ f = "set_precharge" /\ id \in Destinations
            /\ \/ st \in {"neutral_discharged", "parking"}
               \/ st = "neutral_precharged" /\ id = "PARKING"
         \/ /\ f = "set_motorcontroller_output" /\ id \in Destinations
            /\ \/ st \in {"drive", "reverse"}
               \/ st = "neutral_precharged" /\ id \in DriveRequests
         \/ /\ f = "neutral_precharged"
            /\ \/ st = "set_precharge" /\ id \in QuietIds
               \/ st = "set_motorcontroller_output" /\ id \in OutputEvents
         \/ f = "parking" /\ st = "set_precharge" /\ id \in QuietIds
         \/ /\ f \in {"drive", "reverse"} /\ st = "set_motorcontroller_output"
            /\ \/ f = "drive" /\ id = "OUTPUT_DRIVE"
               \/ f = "reverse" /\ id = "OUTPUT_REVERSE"
<1> USE DEF DriveTransitions, Tables, To
<1>1. ASSUME st = "neutral_discharged" PROVE f = "set_precharge" /\ id \in Destinations
  BY <1>1
<1>2. ASSUME st = "neutral_precharged"
      PROVE  \/ f = "set_precharge" /\ id = "PARKING"
             \/ f = "fault" /\ id = "FAULT"
             \/ f = "set_motorcontroller_output" /\ id \in DriveRequests
  BY <1>2 DEF DriveRequests
<1>3. ASSUME st = "drive"
      PROVE  \/ f = "fault" /\ id = "FAULT"
             \/ f = "set_motorcontroller_output" /\ id \in {"REVERSE", "PARKING", "NEUTRAL"}
  BY <1>3
<1>4. ASSUME st = "reverse"
      PROVE  \/ f = "fault" /\ id = "FAULT"
             \/ f = "set_motorcontroller_output" /\ id \in {"DRIVE", "PARKING", "NEUTRAL"}
  BY <1>4
<1>5. ASSUME st = "parking" PROVE f = "set_precharge" /\ id \in {"REVERSE", "NEUTRAL", "DRIVE"}
  BY <1>5
<1>6. ASSUME st = "set_precharge"
      PROVE  \/ f = "fault" /\ id = "FAULT"
             \/ f \in {"neutral_precharged", "parking"} /\ id \in QuietIds
  BY <1>6 DEF QuietIds
<1>7. ASSUME st = "set_motorcontroller_output"
      PROVE  \/ f = "fault" /\ id = "FAULT"
             \/ f = "neutral_precharged" /\ id \in OutputEvents
             \/ f = "drive" /\ id = "OUTPUT_DRIVE"
             \/ f = "reverse" /\ id = "OUTPUT_REVERSE"
  BY <1>7 DEF OutputEvents
<1>8. ASSUME st = "fault" PROVE f = "neutral_discharged" /\ id = Recovery
  BY <1>8 DEF Recovery
<1>9. {"REVERSE", "PARKING", "NEUTRAL", "DRIVE"} = Destinations
  BY DEF Destinations
<1>10. st \in {"neutral_discharged", "neutral_precharged", "drive", "reverse", "parking",
               "set_precharge", "set_motorcontroller_output", "fault"}
  BY DEF DriveStates
<1> HIDE DEF DriveTransitions, Tables, To
<1>11. DriveRequests \subseteq Destinations /\ "PARKING" \in Destinations
  BY IdFacts
<1>12. CASE st \in {"neutral_discharged", "parking", "fault"}
  BY <1>1, <1>5, <1>8, <1>9, <1>12
<1>13. CASE st \in {"neutral_precharged", "drive", "reverse"}
  BY <1>2, <1>3, <1>4, <1>9, <1>11, <1>13
<1>14. CASE st \in {"set_precharge", "set_motorcontroller_output"}
  BY <1>6, <1>7, <1>14
<1> QED BY <1>10, <1>12, <1>13, <1>14

LEMMA TableDomains ==
  /\ DOMAIN DriveTransitions = DriveStates
  /\ Recovery \in DOMAIN DriveTransitions["fault"]
BY DEF DriveTransitions, Tables, To, DriveStates, Recovery

LEMMA HeadTaken ==
  ASSUME NEW q, NEW d, NEW p, NEW r, NEW bus, NEW s, s = Console(q, d, p, r, bus)
  PROVE  [s EXCEPT !.events = Tail(@)] = Console(Tail(q), d, p, r, bus)
<1>1. s.events = q
  BY DEF Console
<1>2. ASSUME NEW t PROVE [s EXCEPT !.events = t] = Console(t, d, p, r, bus)
  BY DEF Console
<1> QED BY <1>1, <1>2

\* The state of the console with its fields one by one.
LEMMA ConsoleShape ==
  ASSUME DriveTyped
  PROVE  /\ drive = Drive(drive.fsm, drive.destination, drive.current)
         /\ drive.fsm \in DriveStates /\ drive.destination \in Destinations \cup {NoDestination}
         /\ drive.current \in Destinations \cup {"TRANSITIONING"}
         /\ retry = Retry(retry.count, retry.output, retry.waiting)
         /\ retry.count \in 0 .. DriveRetries - 1 /\ retry.output \in DriveOutputs /\ retry.waiting \in Nat
         /\ DriveState = Console(events, drive, precharging, retry, toMci)
         /\ [DriveState EXCEPT !.events = Tail(@)] = Console(Tail(events), drive, precharging, retry, toMci)
<1>1. drive \in Drives /\ retry \in Retries
  BY DEF DriveTyped
<1>2. drive = Drive(drive.fsm, drive.destination, drive.current)
  BY <1>1 DEF Drives, Drive
<1>3. retry = Retry(retry.count, retry.output, retry.waiting)
  BY <1>1 DEF Retries, Retry
<1>4. DriveState = Console(events, drive, precharging, retry, toMci)
  BY DEF DriveState, Console
<1>5. [DriveState EXCEPT !.events = Tail(@)] = Console(Tail(events), drive, precharging, retry, toMci)
  BY <1>4, HeadTaken
<1> QED BY <1>1, <1>2, <1>3, <1>4, <1>5 DEF Drives, Retries

LEMMA Becomes ==
  ASSUME NEW s, DriveBecomes(s), NEW q, NEW d, NEW r, NEW bus, Shows(s, q, d, r, bus)
  PROVE  events' = q /\ drive' = d /\ precharging' \in BOOLEAN /\ retry' = r /\ toMci' = bus
BY DEF DriveBecomes, Shows

\* A step of the console within its types keeps those of the mci.
LEMMA ConsoleTyped ==
  ASSUME TrainTyped, UNCHANGED mciVars, toMci' \in Seq(Messages), DriveTyped'
  PROVE  TrainTyped'
BY OtherStepsInv DEF TrainTyped, mciVars

\* A command or nothing is put on the bus to the mci.
BusEffect(ms) == toMci' = toMci \/ \E m \in ms : toMci' = Put(toMci, m)

LEMMA BusEffectTyped ==
  ASSUME TrainTyped, BusEffect(Messages)
  PROVE  /\ toMci' \in Seq(Messages) /\ Len(toMci') =< BusSize
<1>1. toMci \in Seq(Messages) /\ Len(toMci) =< BusSize
  BY DEF TrainTyped, MciInv, DriveTyped
<1>2. \A m \in Messages : Put(toMci, m) \in Seq(Messages) /\ Len(Put(toMci, m)) =< BusSize
  BY <1>1, PutFacts
<1> QED BY <1>1, <1>2 DEF BusEffect

\* Nothing but precharge and discharge is put on the bus, the request stays.
LEMMA QuietTokens ==
  ASSUME TrainTyped, Tokens, UNCHANGED <<mciVars, toConsole>>, handler.at = "idle",
         BusEffect({Begin, Discharge}), NEW k, NEW added, Follows(events, events', k, added),
         \A e \in added : e.id # "RX",
         retry'.waiting = retry.waiting, retry'.output = retry.output
  PROVE  Tokens'
<1>1. /\ toMci \in Seq(Messages) /\ Len(toMci) =< BusSize /\ Follows(toMci, toMci, 0, {})
      /\ Follows(toConsole, toConsole, 0, {})
  BY SameFacts DEF TrainTyped, MciInv, DriveTyped
<1>2. PICK a1 \in {{}, {Begin}, {Discharge}} : Follows(toMci, toMci', 0, a1)
  <2>1. ASSUME NEW m \in {Begin, Discharge}, toMci' = Put(toMci, m)
        PROVE  \E a1 \in {{}, {m}} : Follows(toMci, toMci', 0, a1)
    BY <1>1, <2>1, PutFacts, MessageFacts
  <2> QED BY <1>1, <2>1 DEF BusEffect
<1>3. \A m \in a1 : m.id # "DRIVE_OUTPUT"
  BY <1>2, MessageFacts
<1>4. UNCHANGED <<toConsole, handler, mci>> /\ handler.answer = "none"
  BY DEF mciVars, Tokens, OneCommand
<1> QED BY <1>1, <1>2, <1>3, <1>4, TokensKept

\* The request alone, sent or sent again or ended, with nothing of it under way before.
LEMMA CommandTokens ==
  ASSUME TrainTyped, UNCHANGED <<mciVars, toConsole>>, handler.at = "idle", handler.answer = "none",
         OutputSent = {}, AckSent = {}, AckReceived' = {},
         \/ retry'.waiting = 0 /\ toMci' = toMci
         \/ /\ retry'.waiting = 1 /\ retry'.output \in DriveOutputs
            /\ toMci' = Put(toMci, DriveOutput(retry'.output))
  PROVE  Tokens'
<1>1. toMci \in Seq(Messages) /\ Len(toMci) =< BusSize
  BY DEF TrainTyped, MciInv, DriveTyped
<1>2. AckSent' = {} /\ UNCHANGED handler
  BY DEF AckSent, mciVars
<1>3. CASE retry'.waiting = 0 /\ toMci' = toMci
  <2>1. OutputSent' = {}
    BY <1>3 DEF OutputSent
  <2> QED BY <1>2, <1>3, <2>1, TokensFresh DEF Single
<1>4. CASE /\ retry'.waiting = 1 /\ retry'.output \in DriveOutputs
           /\ toMci' = Put(toMci, DriveOutput(retry'.output))
  <2> DEFINE m == DriveOutput(retry'.output)
  <2>1. m \in Messages /\ m.data = retry'.output
    BY <1>4, MessageFacts
  <2>2. PICK added \in {{}, {m}} : Follows(toMci, toMci', 0, added)
    BY <1>1, <1>4, <2>1, PutFacts
  <2>3. \A i \in At(toMci, {"DRIVE_OUTPUT"}) : i = 0
    BY TokenSets
  <2>4. Single(OutputSent')
    BY <2>2, <2>3, SingleAdded, TokenSets
  <2>5. \A i \in OutputSent' : toMci'[i] = m
    BY <2>2, <2>3, OnlyAdded, TokenSets
  <2> QED BY <1>2, <1>4, <2>1, <2>4, <2>5, TokensFresh
<1> QED BY <1>3, <1>4

LEMMA EventFacts ==
  /\ \A id \in EventIds \ {"RX", "BUTTON"} : Event(id, "none") \in ConsoleEvents
  /\ \A id, data : Event(id, data).id = id /\ Event(id, data).data = data
  /\ \A b \in Destinations : Event("BUTTON", b) \in ConsoleEvents
  /\ \A m \in ConsoleMessages : Event("RX", m) \in ConsoleEvents
  /\ Destinations \cup OutputEvents \subseteq EventIds \ {"RX", "BUTTON"}
  /\ {"PRECHARGE_COMPLETED", "DISCHARGE_COMPLETED", "FAULT", Recovery} \subseteq EventIds \ {"RX", "BUTTON"}
  /\ \A o \in DriveOutputs : SuccessEvent(o) \in OutputEvents
BY DEF Event, EventIds, ConsoleEvents, Destinations, OutputEvents, Recovery, SuccessEvent, DriveOutputs

\* A round of the main loop takes the first event.
LEMMA LoopFacts ==
  ASSUME TrainTyped, ConsoleLoop, NEW e, e = Head(events), NEW t, t = Tail(events),
         NEW s, s = Console(t, drive, precharging, retry, toMci)
  PROVE  /\ e \in ConsoleEvents /\ e = events[1] /\ 1 \in DOMAIN events
         /\ t \in Seq(ConsoleEvents) /\ Follows(events, t, 1, {})
         /\ \A added \in ConsoleEvents :
              Append(t, added) \in Seq(ConsoleEvents) /\ Follows(events, Append(t, added), 1, {added})
         /\ UNCHANGED toConsole
         /\ e.id = "RX" => DriveBecomes(MessageHandled(s, e.data))
         /\ e.id = "BUTTON" =>
              \/ DriveBecomes(s)
              \/ /\ DriveBecomes(Raised(s, e.data))
                 /\ e.data \in DriveRequests => drive.current # "TRANSITIONING"
         /\ e.id \notin {"RX", "BUTTON"} => DriveBecomes(DriveHandled(s, e))
<1>1. events \in Seq(ConsoleEvents) /\ events # <<>> /\ DriveTyped
  BY DEF TrainTyped, DriveTyped, ConsoleLoop
<1>2. events[1] \in ConsoleEvents
  BY <1>1
<1>3. \A added \in ConsoleEvents :
        Append(t, added) \in Seq(ConsoleEvents) /\ Follows(events, Append(t, added), 1, {added})
  BY <1>1, QueueSteps
<1>4. /\ e \in ConsoleEvents /\ e = events[1] /\ 1 \in DOMAIN events
      /\ t \in Seq(ConsoleEvents) /\ Follows(events, t, 1, {})
  BY <1>1, <1>2, QueueSteps
<1>5. s = [DriveState EXCEPT !.events = Tail(@)]
  BY <1>1, ConsoleShape
<1>6. /\ UNCHANGED toConsole
      /\ e.id = "RX" => DriveBecomes(MessageHandled(s, e.data))
      /\ e.id \notin {"RX", "BUTTON"} => DriveBecomes(DriveHandled(s, e))
  BY <1>5 DEF ConsoleLoop
<1>7. ASSUME e.id = "BUTTON"
      PROVE  \/ DriveBecomes(s)
             \/ /\ DriveBecomes(Raised(s, e.data))
                /\ e.data \in DriveRequests => drive.current # "TRANSITIONING"
  <2>1. PICK main, charging, moving \in BOOLEAN :
          DriveBecomes(IF ButtonAccepted(s, e.data, main, charging, moving)
                       THEN Raised(s, e.data) ELSE s)
    BY <1>5, <1>7 DEF ConsoleLoop
  <2>2. s.drive.current = drive.current
    BY DEF Console
  <2>3. ButtonAccepted(s, e.data, main, charging, moving) /\ e.data \in DriveRequests
          => drive.current # "TRANSITIONING"
    BY <2>2 DEF ButtonAccepted, DriveRequests
  <2>4. CASE ButtonAccepted(s, e.data, main, charging, moving)
    BY <2>1, <2>3, <2>4
  <2>5. CASE ~ButtonAccepted(s, e.data, main, charging, moving)
    BY <2>1, <2>5
  <2> QED BY <2>4, <2>5
<1> QED BY <1>3, <1>4, <1>6, <1>7

LEMMA ButtonStep ==
  ASSUME TrainTyped, ConsoleLoop, Head(events).id = "BUTTON", UNCHANGED mciVars, handler.at = "idle"
  PROVE  TrainTyped' /\ (ConsoleInv /\ Tokens => ConsoleInv' /\ Tokens')
<1> DEFINE e == Head(events)
           t == Tail(events)
           s == Console(t, drive, precharging, retry, toMci)
           a == Event(e.data, "none")
<1>0. precharging \in BOOLEAN
  BY DEF TrainTyped, DriveTyped
<1>1. /\ e \in ConsoleEvents /\ e = events[1] /\ 1 \in DOMAIN events
      /\ t \in Seq(ConsoleEvents) /\ Follows(events, t, 1, {})
      /\ \A added \in ConsoleEvents :
           Append(t, added) \in Seq(ConsoleEvents) /\ Follows(events, Append(t, added), 1, {added})
      /\ UNCHANGED toConsole
      /\ \/ DriveBecomes(s)
         \/ /\ DriveBecomes(Raised(s, e.data))
            /\ e.data \in DriveRequests => drive.current # "TRANSITIONING"
  BY LoopFacts
<1>2. e.data \in Destinations /\ a \in ConsoleEvents /\ a.id = e.data
  BY <1>1, EventFacts DEF ConsoleEvents
<1>3. 1 \in At(events, {"BUTTON"}) /\ 1 \notin At(events, {Recovery})
  BY <1>1 DEF At, Recovery
<1>4. Shows(s, t, drive, retry, toMci) /\ Shows(Raised(s, e.data), Append(t, a), drive, retry, toMci)
  BY <1>0, RaisedFacts, ShowsFacts
<1> HIDE DEF e, t, s, a
<1>5. /\ UNCHANGED <<drive, retry, toMci, toConsole, mci>> /\ precharging' \in BOOLEAN
      /\ \/ events' = t
         \/ /\ events' = Append(t, a)
            /\ e.data \in DriveRequests => drive.current # "TRANSITIONING"
  BY <1>1, <1>4, Becomes DEF mciVars
<1>6. TrainTyped'
  <2>1. events' \in Seq(ConsoleEvents)
    BY <1>1, <1>2, <1>5
  <2>2. DriveTyped'
    BY <1>5, <2>1 DEF TrainTyped, DriveTyped, DestinationInRange
  <2> QED BY <1>5, <2>2, ConsoleTyped DEF TrainTyped, MciInv
<1>7. ASSUME ConsoleInv, Tokens, events' = t PROVE ConsoleInv' /\ Tokens'
  <2>1. Follows(events, events', 1, {})
    BY <1>1, <1>7
  <2>2. ConsoleInv'
    BY <1>3, <1>5, <1>7, <2>1, QuietStepInv DEF SameState
  <2>3. Tokens'
    BY <1>5, <1>7, <2>1, QuietTokens DEF BusEffect
  <2> QED BY <2>2, <2>3
<1>8. ASSUME ConsoleInv, Tokens, events' = Append(t, a),
             e.data \in DriveRequests => drive.current # "TRANSITIONING"
      PROVE  ConsoleInv' /\ Tokens'
  <2>1. Follows(events, events', 1, {a})
    BY <1>1, <1>2, <1>8
  <2>2. ConsoleInv'
    BY <1>2, <1>3, <1>5, <1>8, <2>1, ButtonInv
  <2>3. \A d \in {a} : d.id # "RX"
    BY <1>2 DEF Destinations
  <2>4. Tokens'
    BY <1>5, <1>8, <2>1, <2>3, QuietTokens DEF BusEffect
  <2> QED BY <2>2, <2>4
<1> QED BY <1>5, <1>6, <1>7, <1>8

\* The answer in hand is the only one under way, and OK tells the truth.
Answerable(k, ok) ==
  /\ OutputSent = {} /\ AckSent = {} /\ handler.answer = "none" /\ \A i \in AckReceived : i = k
  /\ ok => mci.output = retry.output

\* A request that ends, by a step that takes the answer or for which none is under way.
LEMMA AnsweredStep ==
  ASSUME TrainTyped, NEW k, NEW t \in Seq(ConsoleEvents), Follows(events, t, k, {}),
         \A e \in ConsoleEvents : Follows(events, Append(t, e), k, {e}),
         NEW ok \in BOOLEAN, retry.waiting # 0,
         DriveBecomes(Answered(Console(t, drive, precharging, retry, toMci), ok)),
         UNCHANGED mciVars, UNCHANGED toConsole, handler.at = "idle",
         k = 1 => events[1].id = "RX"
  PROVE  TrainTyped' /\ (Answerable(k, ok) /\ ConsoleInv /\ Tokens => ConsoleInv' /\ Tokens')
<1> DEFINE s == Answered(Console(t, drive, precharging, retry, toMci), ok)
           left == IF retry.waiting = 1 THEN "OFF" ELSE retry.output
           id == IF ok THEN SuccessEvent(retry.output) ELSE "FAULT"
           a == Event(id, "none")
<1>0. /\ precharging \in BOOLEAN /\ retry = Retry(retry.count, retry.output, retry.waiting)
      /\ retry.count \in Nat /\ retry.count \in 0 .. DriveRetries - 1
      /\ retry.output \in DriveOutputs /\ retry.waiting \in Nat
      /\ mci.output \in DriveOutputs /\ toMci \in Seq(Messages) /\ Len(toMci) =< BusSize
  BY ConsoleShape DEF TrainTyped, DriveTyped, MciInv
<1>1. \/ Shows(s, Append(t, a), drive, Retry(0, left, retry.waiting - 1), toMci)
      \/ /\ retry.count + 1 < DriveRetries
         /\ Shows(s, t, drive, Retry(retry.count + 1, retry.output, retry.waiting),
                  Put(toMci, DriveOutput(retry.output)))
  BY <1>0, AnsweredFacts
<1>2. a \in ConsoleEvents /\ a.id = id /\ id \in OutputEvents \cup {"FAULT"}
  BY <1>0, EventFacts
<1>3. /\ UNCHANGED drive /\ precharging' \in BOOLEAN
      /\ \/ /\ events' = Append(t, a) /\ toMci' = toMci
            /\ retry' = Retry(0, left, retry.waiting - 1)
         \/ /\ events' = t /\ toMci' = Put(toMci, DriveOutput(retry.output))
            /\ retry.count + 1 < DriveRetries
            /\ retry' = Retry(retry.count + 1, retry.output, retry.waiting)
  <2> HIDE DEF s, a, left
  <2>0. DriveBecomes(s)
    BY DEF s
  <2>1. CASE Shows(s, Append(t, a), drive, Retry(0, left, retry.waiting - 1), toMci)
    BY <2>0, <2>1, Becomes
  <2>2. CASE /\ retry.count + 1 < DriveRetries
             /\ Shows(s, t, drive, Retry(retry.count + 1, retry.output, retry.waiting),
                      Put(toMci, DriveOutput(retry.output)))
    BY <2>0, <2>2, Becomes
  <2> QED BY <1>1, <2>1, <2>2
<1> HIDE DEF s, a
<1>4. CASE /\ events' = Append(t, a) /\ toMci' = toMci
           /\ retry' = Retry(0, left, retry.waiting - 1)
  <2>1. /\ retry' \in Retries /\ retry'.waiting = retry.waiting - 1 /\ retry'.output \in DriveOutputs
    BY <1>0, <1>4, DriveAssumption DEF Retry, Retries, DriveOutputs
  <2>2. events' \in Seq(ConsoleEvents)
    BY <1>2, <1>4
  <2>3. DriveTyped'
    BY <1>3, <1>4, <2>1, <2>2 DEF TrainTyped, DriveTyped, DestinationInRange
  <2>4. TrainTyped'
    BY <1>0, <1>4, <2>3, ConsoleTyped
  <2>5. ASSUME Answerable(k, ok), ConsoleInv, Tokens PROVE ConsoleInv' /\ Tokens'
    <3>1. retry.waiting = 1 /\ retry'.waiting = 0
      BY <2>1, <2>5 DEF Tokens, OneCommand
    <3>2. UNCHANGED mci /\ (k = 1 => 1 \notin At(events, {Recovery}))
      BY DEF mciVars, At, Recovery
    <3>3. a.id \in {"FAULT", SuccessEvent(mci.output)}
      BY <1>2, <2>5 DEF Answerable
    <3>4. Follows(events, events', k, {a})
      BY <1>2, <1>4
    <3>5. ConsoleInv'
      BY <1>0, <1>3, <2>5, <3>1, <3>2, <3>3, <3>4, EndedInv
    <3>6. AckReceived' = {}
      <4> SUFFICES ASSUME NEW i \in AckReceived' PROVE FALSE
        OBVIOUS
      <4>1. \A e \in {a} : ~(e.id = "RX" /\ e.data.id = "ACK")
        BY <1>2 DEF OutputEvents
      <4>2. i + k \in AckReceived /\ i \in Nat /\ k \in Nat
        BY <3>4, <4>1, AcksKept
      <4>3. i + k = k
        BY <2>5, <4>2 DEF Answerable
      <4>4. i # 0
        BY <3>4 DEF AckReceived, Follows
      <4> QED BY <4>2, <4>3, <4>4
    <3>7. Tokens'
      BY <1>4, <2>5, <3>1, <3>6, CommandTokens DEF Answerable
    <3> QED BY <3>5, <3>7
  <2> QED BY <2>4, <2>5
<1>5. CASE /\ events' = t /\ toMci' = Put(toMci, DriveOutput(retry.output))
           /\ retry.count + 1 < DriveRetries
           /\ retry' = Retry(retry.count + 1, retry.output, retry.waiting)
  <2>1. /\ retry' \in Retries /\ retry'.waiting = retry.waiting /\ retry'.output = retry.output
    BY <1>0, <1>5, DriveAssumption DEF Retry, Retries
  <2>2. toMci' \in Seq(Messages) /\ Len(toMci') =< BusSize
    BY <1>0, <1>5, PutFacts, MessageFacts
  <2>3. DriveTyped'
    BY <1>3, <1>5, <2>1, <2>2 DEF TrainTyped, DriveTyped, DestinationInRange
  <2>4. TrainTyped'
    BY <2>2, <2>3, ConsoleTyped
  <2>5. ASSUME Answerable(k, ok), ConsoleInv, Tokens PROVE ConsoleInv' /\ Tokens'
    <3>1. retry'.waiting = 1
      BY <2>1, <2>5 DEF Tokens, OneCommand
    <3>2. UNCHANGED mci /\ (k = 1 => 1 \notin At(events, {Recovery}))
      BY DEF mciVars, At, Recovery
    <3>4. Follows(events, events', k, {}) /\ SameState(k)
      BY <1>3, <1>5 DEF SameState
    <3>3. /\ retry'.waiting = retry.waiting /\ ConsoleInv
          /\ mci'.output = mci.output \/ retry.waiting # 0
      BY <2>1, <2>5
    <3>5. PICK added : added = {}
      OBVIOUS
    <3>6. Follows(events, events', k, added) /\ SameState(k) /\ \A e \in added : e.id \in QuietIds
      BY <3>4, <3>5
    <3>7. k = 1 => 1 \notin At(events, {Recovery})
      BY <3>2
    <3>8. ConsoleInv'
      BY <3>3, <3>6, <3>7, QuietStepInv, ZenonT(60)
    <3>9. AckReceived' = {}
      <4> SUFFICES ASSUME NEW i \in AckReceived' PROVE FALSE
        OBVIOUS
      <4>2. i + k \in AckReceived /\ i \in Nat /\ k \in Nat
        BY <3>4, AcksKept
      <4>3. i + k = k
        BY <2>5, <4>2 DEF Answerable
      <4>4. i # 0
        BY <3>4 DEF AckReceived, Follows
      <4> QED BY <4>2, <4>3, <4>4
    <3>10. Tokens'
      BY <1>0, <1>5, <2>1, <2>5, <3>1, <3>9, CommandTokens DEF Answerable
    <3> QED BY <3>8, <3>10
  <2> QED BY <2>4, <2>5
<1> QED BY <1>3, <1>4, <1>5

LEMMA RxStep ==
  ASSUME TrainTyped, ConsoleLoop, Head(events).id = "RX", UNCHANGED mciVars, handler.at = "idle"
  PROVE  TrainTyped' /\ (ConsoleInv /\ Tokens => ConsoleInv' /\ Tokens')
<1> DEFINE e == Head(events)
           t == Tail(events)
           s == Console(t, drive, precharging, retry, toMci)
           m == e.data
           a == Event("PRECHARGE_COMPLETED", "none")
<1>0. precharging \in BOOLEAN
  BY DEF TrainTyped, DriveTyped
<1>1. /\ e \in ConsoleEvents /\ e = events[1] /\ 1 \in DOMAIN events
      /\ t \in Seq(ConsoleEvents) /\ Follows(events, t, 1, {})
      /\ \A added \in ConsoleEvents :
           Append(t, added) \in Seq(ConsoleEvents) /\ Follows(events, Append(t, added), 1, {added})
      /\ UNCHANGED toConsole
      /\ DriveBecomes(MessageHandled(s, m))
  BY LoopFacts
<1>2. m \in ConsoleMessages /\ a \in ConsoleEvents /\ a.id = "PRECHARGE_COMPLETED"
  BY <1>1, EventFacts DEF ConsoleEvents
<1>3. 1 \notin At(events, {Recovery})
  BY <1>1 DEF At, Recovery
<1>4. s.retry = retry /\ Shows(s, t, drive, retry, toMci)
      /\ Shows(MonitorCompleted(s), Append(t, a), drive, retry, toMci)
  BY <1>0, MonitorFacts, ShowsFacts DEF Console
<1>5. CASE m.id = "ACK" /\ retry.waiting > 0
  <2>1. DriveBecomes(Answered(s, m.data = "OK"))
    BY <1>1, <1>4, <1>5 DEF MessageHandled
  <2>2. PICK ok \in BOOLEAN : ok <=> m.data = "OK"
    OBVIOUS
  <2>3. DriveBecomes(Answered(s, ok))
    <3>1. CASE m.data = "OK"
      BY <2>1, <2>2, <3>1
    <3>2. CASE m.data # "OK"
      BY <2>1, <2>2, <3>2
    <3> QED BY <3>1, <3>2
  <2>4. Tokens => Answerable(1, ok)
    <3>1. 1 \in AckReceived
      BY <1>1, <1>5 DEF AckReceived
    <3> QED BY <1>1, <2>2, <3>1 DEF Tokens, OneCommand, AnswersTrue, Single, Answerable
  <2>5. retry.waiting # 0 /\ events[1].id = "RX"
    BY <1>1, <1>5
  <2> HIDE DEF t, e
  <2>6. \A d \in ConsoleEvents : Follows(events, Append(t, d), 1, {d})
    BY <1>1
  <2>7. DriveBecomes(Answered(Console(t, drive, precharging, retry, toMci), ok))
    BY <2>3
  <2>8. t \in Seq(ConsoleEvents) /\ Follows(events, t, 1, {}) /\ UNCHANGED toConsole
    BY <1>1
  <2>9. 1 = 1 => events[1].id = "RX"
    BY <2>5
  <2> HIDE DEF s, m, a
  <2> QED BY <2>4, <2>5, <2>6, <2>7, <2>8, <2>9, AnsweredStep, ZenonT(60)
<1>6. CASE ~(m.id = "ACK" /\ retry.waiting > 0)
  <2>1. \/ DriveBecomes(MonitorCompleted(s))
        \/ DriveBecomes(s)
    <3>1. CASE m.id = "PRECHARGE_COMPLETED"
      BY <1>1, <3>1 DEF MessageHandled
    <3>2. CASE m.id # "PRECHARGE_COMPLETED"
      BY <1>1, <1>4, <1>6, <3>2 DEF MessageHandled
    <3> QED BY <3>1, <3>2
  <2> HIDE DEF e, t, s, a, m
  <2>2. /\ UNCHANGED <<drive, retry, toMci, toConsole, mci>> /\ precharging' \in BOOLEAN
        /\ events' = t \/ events' = Append(t, a)
    BY <1>1, <1>4, <2>1, Becomes DEF mciVars
  <2>3. events' \in Seq(ConsoleEvents)
    BY <1>1, <1>2, <2>2
  <2>4. PICK added \in {{}, {a}} : Follows(events, events', 1, added)
    BY <1>1, <1>2, <2>2
  <2>5. DriveTyped'
    BY <2>2, <2>3 DEF TrainTyped, DriveTyped, DestinationInRange
  <2>6. TrainTyped'
    BY <2>2, <2>5, ConsoleTyped DEF TrainTyped, MciInv
  <2>7. \A d \in added : d.id \in QuietIds /\ d.id # "RX"
    BY <1>2, <2>4 DEF QuietIds
  <2>8. ConsoleInv => ConsoleInv'
    BY <1>3, <2>2, <2>4, <2>7, QuietStepInv DEF SameState
  <2>9. Tokens => Tokens'
    BY <2>2, <2>4, <2>7, QuietTokens DEF BusEffect
  <2> QED BY <2>6, <2>8, <2>9
<1> QED BY <1>5, <1>6

LEMMA DestinationFacts ==
  ASSUME NEW q, NEW f, NEW destination, NEW current, NEW p, NEW r, NEW bus, NEW new
  PROVE  [Console(q, Drive(f, destination, current), p, r, bus) EXCEPT !.drive.destination = new]
           = Console(q, Drive(f, new, current), p, r, bus)
BY DEF Console, Drive

\* The destination in hand when the FSM looks for its transition.
Asked(e) == IF e.id \in Destinations THEN e.id ELSE drive.destination

LEMMA HandledFacts ==
  ASSUME TrainTyped, ConsoleLoop, NEW e, e = Head(events), e.id \notin {"RX", "BUTTON"},
         NEW t, t = Tail(events), NEW f, f = DriveTransitions[drive.fsm][e.id]
  PROVE  /\ e.id \notin DOMAIN DriveTransitions[drive.fsm] =>
              /\ events' = t /\ drive' = Drive(drive.fsm, Asked(e), drive.current)
              /\ precharging' \in BOOLEAN /\ UNCHANGED <<retry, toMci>>
         /\ e.id \in DOMAIN DriveTransitions[drive.fsm] =>
              DriveBecomes(Entered(Console(t, Drive(drive.fsm, Asked(e), drive.current),
                                           precharging, retry, toMci), f))
         /\ Asked(e) \in Destinations \cup {NoDestination}
         /\ drive.fsm \notin {"fault", "neutral_discharged"} \/ e.id \in Destinations
              => Asked(e) \in Destinations
<1> DEFINE s == Console(t, drive, precharging, retry, toMci)
           u == Console(t, Drive(drive.fsm, Asked(e), drive.current), precharging, retry, toMci)
           v == IF e.id \in Destinations THEN [s EXCEPT !.drive.destination = e.id] ELSE s
<1>0. /\ precharging \in BOOLEAN /\ drive = Drive(drive.fsm, drive.destination, drive.current)
      /\ drive.destination \in Destinations \cup {NoDestination} /\ DestinationInRange
  BY ConsoleShape DEF TrainTyped, DriveTyped
<1>1. DriveBecomes(DriveHandled(s, e))
  BY LoopFacts
<1>2. v = u
  <2>1. CASE e.id \in Destinations
    <3> DEFINE d == Drive(drive.fsm, drive.destination, drive.current)
    <3>1. [Console(t, d, precharging, retry, toMci) EXCEPT !.drive.destination = e.id]
            = Console(t, Drive(drive.fsm, e.id, drive.current), precharging, retry, toMci)
      BY DestinationFacts
    <3>2. s = Console(t, d, precharging, retry, toMci)
      BY <1>0
    <3> HIDE DEF d, s
    <3> QED BY <2>1, <3>1, <3>2 DEF Asked
  <2>2. CASE e.id \notin Destinations
    BY <1>0, <2>2 DEF Asked
  <2> QED BY <2>1, <2>2
<1>3. s.drive.fsm = drive.fsm
  BY DEF Console
<1>4. DriveHandled(s, e) = IF e.id \in DOMAIN DriveTransitions[drive.fsm] THEN Entered(u, f) ELSE u
  <2> HIDE DEF s, u
  <2> QED BY <1>2, <1>3 DEF DriveHandled
<1>5. Shows(u, t, Drive(drive.fsm, Asked(e), drive.current), retry, toMci)
  BY <1>0, ShowsFacts
<1>6. /\ Asked(e) \in Destinations \cup {NoDestination}
      /\ drive.fsm \notin {"fault", "neutral_discharged"} \/ e.id \in Destinations
           => Asked(e) \in Destinations
  BY <1>0 DEF Asked, DestinationInRange
<1> HIDE DEF s, v
<1>7. ASSUME e.id \notin DOMAIN DriveTransitions[drive.fsm]
      PROVE  /\ events' = t /\ drive' = Drive(drive.fsm, Asked(e), drive.current)
             /\ precharging' \in BOOLEAN /\ UNCHANGED <<retry, toMci>>
  <2>1. DriveBecomes(u)
    BY <1>1, <1>4, <1>7
  <2> HIDE DEF u
  <2> QED BY <1>5, <2>1, Becomes
<1>8. ASSUME e.id \in DOMAIN DriveTransitions[drive.fsm] PROVE DriveBecomes(Entered(u, f))
  BY <1>1, <1>4, <1>8
<1> QED BY <1>6, <1>7, <1>8

\* An event the FSM has no transition for may still set the destination.
LEMMA IgnoredStep ==
  ASSUME TrainTyped, ConsoleLoop, NEW e, e = Head(events), e.id \notin {"RX", "BUTTON"},
         e.id \notin DOMAIN DriveTransitions[drive.fsm], UNCHANGED mciVars, handler.at = "idle"
  PROVE  TrainTyped' /\ (ConsoleInv /\ Tokens => ConsoleInv' /\ Tokens')
<1> DEFINE t == Tail(events)
<1>1. /\ e = events[1] /\ 1 \in DOMAIN events /\ t \in Seq(ConsoleEvents)
      /\ Follows(events, t, 1, {}) /\ UNCHANGED toConsole
  BY LoopFacts
<1>2. /\ events' = t /\ drive' = Drive(drive.fsm, Asked(e), drive.current)
      /\ precharging' \in BOOLEAN /\ UNCHANGED <<retry, toMci>>
      /\ Asked(e) \in Destinations \cup {NoDestination}
      /\ drive.fsm \notin {"fault", "neutral_discharged"} => Asked(e) \in Destinations
  BY HandledFacts
<1> HIDE DEF t
<1>3. /\ drive.fsm \in DriveStates /\ drive.current \in Destinations \cup {"TRANSITIONING"}
      /\ UNCHANGED mci
  BY ConsoleShape DEF TrainTyped, mciVars
<1>4. /\ drive' \in Drives /\ drive'.fsm = drive.fsm /\ drive'.current = drive.current
      /\ drive'.destination = Asked(e)
  BY <1>2, <1>3 DEF Drive, Drives
<1>5. DriveTyped'
  BY <1>1, <1>2, <1>4 DEF TrainTyped, DriveTyped, DestinationInRange
<1>6. TrainTyped'
  BY <1>2, <1>5, ConsoleTyped DEF TrainTyped, MciInv
<1>7. SameState(1) /\ Follows(events, events', 1, {})
  BY <1>1, <1>2, <1>4 DEF SameState, Asked, At
<1>8. ASSUME ConsoleInv PROVE ConsoleInv'
  <2>1. ASSUME 1 \in At(events, {Recovery}) PROVE FALSE
    <3>1. drive.fsm = "fault" /\ e.id = Recovery
      BY <1>1, <1>8, <2>1 DEF ConsoleInv, RecoveryDue, At
    <3> QED BY <3>1, TableDomains
  <2> QED BY <1>2, <1>3, <1>7, <1>8, <2>1, QuietStepInv
<1>9. Tokens => Tokens'
  BY <1>1, <1>2, <1>7, QuietTokens DEF BusEffect
<1> QED BY <1>6, <1>8, <1>9

\* A transition that sends no command, given what it makes of the console.
LEMMA MovedStep ==
  ASSUME TrainTyped, UNCHANGED mciVars, UNCHANGED toConsole, handler.at = "idle",
         NEW s, DriveBecomes(s), NEW q \in Seq(ConsoleEvents), NEW added, Follows(events, q, 1, added),
         \A e \in added : e.id # "RX", NEW f \in DriveStates,
         NEW destination \in Destinations \cup {NoDestination},
         NEW current \in Destinations \cup {"TRANSITIONING"},
         f \notin {"fault", "neutral_discharged"} => destination \in Destinations,
         NEW bus \in {toMci, Put(toMci, Begin), Put(toMci, Discharge)},
         Shows(s, q, Drive(f, destination, current), retry, bus)
  PROVE  /\ TrainTyped' /\ (Tokens => Tokens') /\ Follows(events, events', 1, added)
         /\ drive'.fsm = f /\ drive'.destination = destination /\ drive'.current = current
         /\ UNCHANGED retry /\ UNCHANGED mci
<1>1. /\ events' = q /\ drive' = Drive(f, destination, current) /\ precharging' \in BOOLEAN
      /\ UNCHANGED retry /\ toMci' = bus /\ UNCHANGED mci
  BY Becomes DEF mciVars
<1>2. /\ drive' \in Drives /\ drive'.fsm = f /\ drive'.destination = destination
      /\ drive'.current = current
  BY <1>1 DEF Drive, Drives
<1>3. BusEffect({Begin, Discharge}) /\ BusEffect(Messages)
  BY <1>1, MessageFacts DEF BusEffect
<1>4. toMci' \in Seq(Messages) /\ Len(toMci') =< BusSize
  BY <1>3, BusEffectTyped
<1>5. DriveTyped'
  BY <1>1, <1>2, <1>4 DEF TrainTyped, DriveTyped, DestinationInRange
<1>6. TrainTyped'
  BY <1>4, <1>5, ConsoleTyped
<1>7. Tokens => Tokens'
  BY <1>1, <1>3, QuietTokens
<1> QED BY <1>1, <1>2, <1>6, <1>7

LEMMA MovesStep ==
  ASSUME TrainTyped, ConsoleLoop, NEW e, e = Head(events), e.id \notin {"RX", "BUTTON"},
         e.id \in DOMAIN DriveTransitions[drive.fsm], UNCHANGED mciVars, handler.at = "idle"
  PROVE  TrainTyped' /\ (ConsoleInv /\ Tokens => ConsoleInv' /\ Tokens')
<1> DEFINE t == Tail(events)
           f == DriveTransitions[drive.fsm][e.id]
           a == Asked(e)
           c == drive.current
           s == Entered(Console(t, Drive(drive.fsm, a, c), precharging, retry, toMci), f)
           recovery == Event(Recovery, "none")
           discharged == Event("DISCHARGE_COMPLETED", "none")
           again == Event(a, "none")
<1>1. /\ e = events[1] /\ 1 \in DOMAIN events /\ t \in Seq(ConsoleEvents)
      /\ Follows(events, t, 1, {}) /\ UNCHANGED toConsole
      /\ \A added \in ConsoleEvents :
           Append(t, added) \in Seq(ConsoleEvents) /\ Follows(events, Append(t, added), 1, {added})
  BY LoopFacts
<1>2. /\ DriveBecomes(s) /\ a \in Destinations \cup {NoDestination}
      /\ drive.fsm \notin {"fault", "neutral_discharged"} \/ e.id \in Destinations => a \in Destinations
  BY HandledFacts
<1>3. /\ drive.fsm \in DriveStates /\ c \in Destinations \cup {"TRANSITIONING"}
      /\ precharging \in BOOLEAN /\ retry = Retry(retry.count, retry.output, retry.waiting)
      /\ retry.count \in 0 .. DriveRetries - 1 /\ retry.waiting \in Nat
      /\ mci.output \in DriveOutputs /\ toMci \in Seq(Messages) /\ Len(toMci) =< BusSize
      /\ UNCHANGED mci
  BY ConsoleShape DEF TrainTyped, DriveTyped, MciInv, mciVars
<1>4. /\ recovery \in ConsoleEvents /\ recovery.id = Recovery
      /\ discharged \in ConsoleEvents /\ discharged.id = "DISCHARGE_COMPLETED"
      /\ a \in Destinations => again \in ConsoleEvents /\ again.id = a
  BY EventFacts
<1>5. /\ e.id \in Destinations => 1 \in At(events, Destinations) /\ a = e.id
      /\ e.id \in QuietIds => 1 \in At(events, QuietIds)
      /\ e.id \in OutputEvents => 1 \in At(events, OutputEvents)
      /\ e.id = Recovery => 1 \in At(events, {Recovery})
      /\ e.id \notin Destinations => a = drive.destination
  BY <1>1 DEF At, Asked
<1>9. /\ Append(t, recovery) \in Seq(ConsoleEvents) /\ Follows(events, Append(t, recovery), 1, {recovery})
      /\ Append(t, discharged) \in Seq(ConsoleEvents)
      /\ Follows(events, Append(t, discharged), 1, {discharged})
      /\ a \in Destinations => /\ Append(t, again) \in Seq(ConsoleEvents)
                              /\ Follows(events, Append(t, again), 1, {again})
  <2> HIDE DEF t, a, recovery, discharged, again
  <2> QED BY <1>1, <1>4
<1>6. f \in DriveStates =>
      /\ f = "neutral_discharged" => Shows(s, t, Drive(f, a, c), retry, toMci)
      /\ f = "fault" => Shows(s, Append(t, recovery), Drive(f, NoDestination, c), retry, Put(toMci, Discharge))
      /\ f = "set_precharge" =>
           \/ Shows(s, Append(t, discharged), Drive(f, a, "TRANSITIONING"), retry, Put(toMci, Discharge))
           \/ Shows(s, t, Drive(f, a, "TRANSITIONING"), retry, Put(toMci, Begin))
      /\ f = "neutral_precharged" =>
           \/ a = "NEUTRAL" /\ Shows(s, t, Drive(f, a, "NEUTRAL"), retry, toMci)
           \/ Shows(s, Append(t, again), Drive(f, a, c), retry, toMci)
      /\ f \in {"drive", "reverse", "parking"} /\ a \in Destinations =>
           Shows(s, t, Drive(f, a, a), retry, toMci)
  <2> HIDE DEF t, f, a, c
  <2> QED BY <1>3, EnteredFacts
<1>7. f = "set_motorcontroller_output" =>
      Shows(s, t, Drive(f, a, "TRANSITIONING"), Retry(retry.count, MciOutput[a], retry.waiting + 1),
            Put(toMci, DriveOutput(MciOutput[a])))
  BY <1>3, CommandEnteredFacts
<1>8. \/ f = "fault" /\ e.id = "FAULT" /\ drive.fsm # "fault"
      \/ f = "neutral_discharged" /\ e.id = Recovery /\ drive.fsm = "fault"
      \/ /\ f = "set_precharge" /\ e.id \in Destinations
         /\ \/ drive.fsm \in {"neutral_discharged", "parking"}
            \/ drive.fsm = "neutral_precharged" /\ e.id = "PARKING"
      \/ /\ f = "set_motorcontroller_output" /\ e.id \in Destinations
         /\ \/ drive.fsm \in {"drive", "reverse"}
            \/ drive.fsm = "neutral_precharged" /\ e.id \in DriveRequests
      \/ /\ f = "neutral_precharged"
         /\ \/ drive.fsm = "set_precharge" /\ e.id \in QuietIds
            \/ drive.fsm = "set_motorcontroller_output" /\ e.id \in OutputEvents
      \/ f = "parking" /\ drive.fsm = "set_precharge" /\ e.id \in QuietIds
      \/ /\ f \in {"drive", "reverse"} /\ drive.fsm = "set_motorcontroller_output"
         /\ \/ f = "drive" /\ e.id = "OUTPUT_DRIVE"
            \/ f = "reverse" /\ e.id = "OUTPUT_REVERSE"
  BY <1>3, TableFacts
<1>10. UNCHANGED toConsole
  BY <1>1
<1> HIDE DEF t, f, a, c, s, recovery, discharged, again
<1>11. CASE f = "fault" /\ e.id = "FAULT" /\ drive.fsm # "fault"
  <2>1. /\ TrainTyped' /\ (Tokens => Tokens') /\ Follows(events, events', 1, {recovery})
        /\ drive'.fsm = "fault" /\ drive'.current = c /\ UNCHANGED retry /\ UNCHANGED mci
    <3>0. PICK added : added = {recovery}
      OBVIOUS
    <3>1. /\ \A d \in added : d.id # "RX"
          /\ Follows(events, Append(t, recovery), 1, added)
          /\ Append(t, recovery) \in Seq(ConsoleEvents)
      BY <1>4, <1>9, <3>0 DEF Recovery
    <3>2. f \in DriveStates /\ Shows(s, Append(t, recovery), Drive(f, NoDestination, c), retry, Put(toMci, Discharge))
      BY <1>6, <1>11 DEF DriveStates
    <3>3. /\ TrainTyped' /\ (Tokens => Tokens') /\ Follows(events, events', 1, added)
          /\ drive'.fsm = f /\ drive'.current = c /\ UNCHANGED retry /\ UNCHANGED mci
      BY <1>10, <1>2, <1>3, <1>11, <3>1, <3>2, MovedStep
    <3> QED BY <1>11, <3>0, <3>3
  <2> QED BY <1>4, <1>11, <2>1, ToFaultInv DEF c
<1>12. CASE f = "neutral_discharged" /\ e.id = Recovery /\ drive.fsm = "fault"
  <2>1. /\ TrainTyped' /\ (Tokens => Tokens') /\ Follows(events, events', 1, {})
        /\ drive'.fsm = f /\ drive'.current = c /\ UNCHANGED retry /\ UNCHANGED mci
    <3>2. f \in DriveStates /\ Shows(s, t, Drive(f, a, c), retry, toMci)
      BY <1>6, <1>12 DEF DriveStates
    <3> QED BY <1>1, <1>2, <1>3, <1>12, <3>2, MovedStep
  <2> QED BY <1>5, <1>12, <2>1, FromFaultInv DEF c
<1>13. CASE /\ f = "set_precharge" /\ e.id \in Destinations
            /\ \/ drive.fsm \in {"neutral_discharged", "parking"}
               \/ drive.fsm = "neutral_precharged" /\ e.id = "PARKING"
  <2>1. a \in Destinations /\ f \in DriveStates /\ a = events[1].id /\ 1 \in At(events, Destinations)
    BY <1>1, <1>2, <1>5, <1>13 DEF DriveStates
  <2>2. PICK added \in {{}, {discharged}} :
          /\ TrainTyped' /\ (Tokens => Tokens') /\ Follows(events, events', 1, added)
          /\ drive'.fsm = f /\ drive'.destination = a /\ drive'.current = "TRANSITIONING"
          /\ UNCHANGED retry /\ UNCHANGED mci
    <3>0. PICK added : added = {discharged}
      OBVIOUS
    <3>1. /\ \A d \in added : d.id # "RX"
          /\ Follows(events, Append(t, discharged), 1, added)
          /\ Append(t, discharged) \in Seq(ConsoleEvents)
      BY <1>4, <1>9, <3>0
    <3>2. CASE Shows(s, Append(t, discharged), Drive(f, a, "TRANSITIONING"), retry, Put(toMci, Discharge))
      <4>1. /\ TrainTyped' /\ (Tokens => Tokens') /\ Follows(events, events', 1, added)
            /\ drive'.fsm = f /\ drive'.destination = a /\ drive'.current = "TRANSITIONING"
            /\ UNCHANGED retry /\ UNCHANGED mci
        BY <1>10, <1>2, <1>3, <2>1, <3>1, <3>2, MovedStep
      <4> QED BY <3>0, <4>1
    <3>3. CASE Shows(s, t, Drive(f, a, "TRANSITIONING"), retry, Put(toMci, Begin))
      BY <1>1, <1>2, <2>1, <3>3, MovedStep
    <3> QED BY <1>6, <1>13, <2>1, <3>2, <3>3
  <2>3. \A d \in added : d.id \in QuietIds
    BY <1>4, <2>2 DEF QuietIds
  <2> QED BY <1>1, <1>13, <2>1, <2>2, <2>3, ToPrechargeInv
<1>15. CASE /\ f = "neutral_precharged"
            /\ \/ drive.fsm = "set_precharge" /\ e.id \in QuietIds
               \/ drive.fsm = "set_motorcontroller_output" /\ e.id \in OutputEvents
  <2>1. a \in Destinations /\ f \in DriveStates /\ a = drive.destination
    BY <1>2, <1>5, <1>15, QuietFacts, IdFacts DEF DriveStates, Pressed
  <2>2. \/ /\ TrainTyped' /\ (Tokens => Tokens') /\ Follows(events, events', 1, {})
           /\ drive'.fsm = f /\ drive'.destination = a /\ UNCHANGED retry /\ UNCHANGED mci
        \/ /\ TrainTyped' /\ (Tokens => Tokens') /\ Follows(events, events', 1, {again})
           /\ drive'.fsm = f /\ drive'.destination = a /\ drive'.current = c
           /\ UNCHANGED retry /\ UNCHANGED mci
    <3>0. PICK added : added = {again}
      OBVIOUS
    <3>1. /\ \A d \in added : d.id # "RX"
          /\ Follows(events, Append(t, again), 1, added)
          /\ Append(t, again) \in Seq(ConsoleEvents)
      BY <1>4, <1>9, <2>1, <3>0 DEF Destinations
    <3>2. CASE a = "NEUTRAL" /\ Shows(s, t, Drive(f, a, "NEUTRAL"), retry, toMci)
      BY <1>1, <1>2, <2>1, <3>2, MovedStep
    <3>3. CASE Shows(s, Append(t, again), Drive(f, a, c), retry, toMci)
      <4>1. /\ TrainTyped' /\ (Tokens => Tokens') /\ Follows(events, events', 1, added)
            /\ drive'.fsm = f /\ drive'.destination = a /\ drive'.current = c
            /\ UNCHANGED retry /\ UNCHANGED mci
        BY <1>10, <1>2, <1>3, <2>1, <3>1, <3>3, MovedStep
      <4> QED BY <3>0, <4>1
    <3> QED BY <1>6, <1>15, <2>1, <3>2, <3>3
  <2>3. ConsoleInv => c = "TRANSITIONING"
    BY <1>15 DEF ConsoleInv, PressesInOrder, c
  <2>4. ASSUME ConsoleInv, Follows(events, events', 1, {}), drive'.fsm = f, drive'.destination = a,
               UNCHANGED retry
        PROVE  ConsoleInv'
    BY <1>3, <1>5, <1>15, <2>1, <2>4, ToNeutralInv
  <2>5. ASSUME ConsoleInv, Follows(events, events', 1, {again}), drive'.fsm = f, drive'.destination = a,
               drive'.current = c, UNCHANGED retry
        PROVE  ConsoleInv'
    <3>1. \A d \in {again} : d.id = drive.destination
      BY <1>4, <2>1
    <3> QED BY <1>3, <1>5, <1>15, <2>1, <2>3, <2>5, <3>1, ToNeutralInv
  <2> QED BY <2>2, <2>4, <2>5
<1>16. CASE \/ f = "parking" /\ drive.fsm = "set_precharge" /\ e.id \in QuietIds
            \/ /\ f \in {"drive", "reverse"} /\ drive.fsm = "set_motorcontroller_output"
               /\ \/ f = "drive" /\ e.id = "OUTPUT_DRIVE"
                  \/ f = "reverse" /\ e.id = "OUTPUT_REVERSE"
  <2>1. a \in Destinations /\ f \in DriveStates /\ f \in {"drive", "reverse", "parking"}
    BY <1>2, <1>16 DEF DriveStates
  <2>2. /\ TrainTyped' /\ (Tokens => Tokens') /\ Follows(events, events', 1, {})
        /\ drive'.fsm = f /\ drive'.destination = a /\ UNCHANGED retry /\ UNCHANGED mci
    <3>1. Shows(s, t, Drive(f, a, a), retry, toMci)
      BY <1>6, <2>1
    <3> QED BY <1>1, <1>2, <2>1, <3>1, MovedStep
  <2>3. e.id \in {"OUTPUT_DRIVE", "OUTPUT_REVERSE"} => e.id \in OutputEvents
    BY DEF OutputEvents
  <2>4. a = drive.destination
    BY <1>5, <1>16, <2>3, QuietFacts, IdFacts DEF Pressed
  <2> QED BY <1>1, <1>3, <1>5, <1>16, <2>2, <2>3, <2>4, ToShownInv
<1>14. CASE /\ f = "set_motorcontroller_output" /\ e.id \in Destinations
            /\ \/ drive.fsm \in {"drive", "reverse"}
               \/ drive.fsm = "neutral_precharged" /\ e.id \in DriveRequests
  <2> DEFINE o == MciOutput[a]
             r == Retry(retry.count, o, retry.waiting + 1)
  <2>1. a \in Destinations /\ f \in DriveStates /\ a = events[1].id /\ 1 \in At(events, Destinations)
    BY <1>1, <1>2, <1>5, <1>14 DEF DriveStates
  <2>2. o \in DriveOutputs
    BY <2>1 DEF MciOutput, Destinations, DriveOutputs
  <2>3. /\ events' = t /\ drive' = Drive(f, a, "TRANSITIONING") /\ precharging' \in BOOLEAN
        /\ retry' = r /\ toMci' = Put(toMci, DriveOutput(o))
    <3>1. Shows(s, t, Drive(f, a, "TRANSITIONING"), r, Put(toMci, DriveOutput(o)))
      BY <1>7, <1>14
    <3> HIDE DEF r, o
    <3> QED BY <1>2, <3>1, Becomes
  <2>4. retry' \in Retries /\ retry'.waiting = retry.waiting + 1 /\ retry'.output = o
    BY <1>3, <2>2, <2>3 DEF Retry, Retries
  <2>5. drive' \in Drives /\ drive'.fsm = f /\ drive'.destination = a /\ drive'.current = "TRANSITIONING"
    BY <2>1, <2>3 DEF Drive, Drives
  <2> HIDE DEF r, o
  <2>6. toMci' \in Seq(Messages) /\ Len(toMci') =< BusSize
    BY <1>3, <2>2, <2>3, PutFacts, MessageFacts
  <2>7. DriveTyped'
    BY <1>1, <2>1, <2>3, <2>4, <2>5, <2>6 DEF TrainTyped, DriveTyped, DestinationInRange
  <2>8. TrainTyped'
    BY <2>6, <2>7, ConsoleTyped
  <2>9. Follows(events, events', 1, {})
    BY <1>1, <2>3
  <2>10. ASSUME ConsoleInv PROVE ConsoleInv' /\ retry.waiting = 0
    BY <1>1, <1>14, <2>1, <2>5, <2>9, <2>10, ToCommandInv
  <2>11. ASSUME Tokens, retry.waiting = 0 PROVE Tokens'
    <3>1. handler.answer = "none" /\ OutputSent = {} /\ AckSent = {} /\ AckReceived = {}
      BY <2>11, UnderWay DEF Tokens, OneCommand
    <3>2. AckReceived' = {}
      BY <2>9, <3>1, AcksKept
    <3>3. retry'.waiting = 1
      BY <2>4, <2>11
    <3> QED BY <1>1, <2>2, <2>3, <2>4, <3>1, <3>2, <3>3, CommandTokens
  <2> QED BY <2>8, <2>10, <2>11
<1> QED BY <1>8, <1>11, <1>12, <1>13, <1>14, <1>15, <1>16

LEMMA LoopStep ==
  ASSUME TrainTyped, ConsoleLoop, UNCHANGED mciVars, handler.at = "idle"
  PROVE  TrainTyped' /\ (ConsoleInv /\ Tokens => ConsoleInv' /\ Tokens')
BY RxStep, ButtonStep, IgnoredStep, MovesStep

LEMMA PressStep ==
  ASSUME TrainTyped, NEW b \in Destinations, PressDrive(b), UNCHANGED mciVars, handler.at = "idle"
  PROVE  /\ TrainTyped'
         /\ ~PressPending /\ ~Orphan /\ ConsoleInv /\ Tokens => ConsoleInv' /\ Tokens'
<1> DEFINE e == Event("BUTTON", b)
<1>1. /\ events \in Seq(ConsoleEvents) /\ toMci \in Seq(Messages)
      /\ e \in ConsoleEvents /\ e.id = "BUTTON"
  BY EventFacts DEF TrainTyped, DriveTyped, MciInv
<1>2. events' = Append(events, e) /\ UNCHANGED <<drive, precharging, retry, toMci, toConsole, mci>>
  BY DEF PressDrive, mciVars
<1> HIDE DEF e
<1>3. Follows(events, events', 0, {e}) /\ events' \in Seq(ConsoleEvents)
  BY <1>1, <1>2, QueueSteps
<1>4. DriveTyped'
  BY <1>2, <1>3 DEF TrainTyped, DriveTyped, DestinationInRange
<1>5. TrainTyped'
  BY <1>1, <1>2, <1>4, ConsoleTyped
<1>6. ASSUME ~PressPending PROVE At(events, Pressed) = {}
  BY <1>6 DEF PressPending, At, Pressed
<1>7. ASSUME ~PressPending, ~Orphan, ConsoleInv PROVE ConsoleInv'
  <2>1. retry.waiting # 0 => drive.fsm = "set_motorcontroller_output"
    BY <1>7, ConsoleShape DEF TrainTyped, Orphan
  <2>2. At(events, Pressed) = {} /\ UNCHANGED drive /\ UNCHANGED retry /\ UNCHANGED mci
    BY <1>2, <1>6, <1>7
  <2> QED BY <1>1, <1>3, <1>7, <2>1, <2>2, PressInv
<1>8. \A d \in {e} : d.id # "RX"
  BY <1>1
<1>9. Tokens => Tokens'
  BY <1>2, <1>3, <1>8, QuietTokens DEF BusEffect, mciVars
<1> QED BY <1>5, <1>7, <1>9

LEMMA ReceivesStep ==
  ASSUME TrainTyped, ConsoleReceives, UNCHANGED mciVars, handler.at = "idle"
  PROVE  TrainTyped' /\ (ConsoleInv /\ Tokens => ConsoleInv' /\ Tokens')
<1> DEFINE e == Event("RX", toConsole[1])
<1>1. /\ events \in Seq(ConsoleEvents) /\ toMci \in Seq(Messages) /\ toConsole # <<>>
      /\ toConsole \in Seq(ConsoleMessages) /\ Len(toConsole) =< BusSize
  BY DEF TrainTyped, DriveTyped, MciInv, ConsoleReceives
<1>2. /\ toConsole' \in Seq(ConsoleMessages) /\ Len(toConsole') =< BusSize
      /\ toConsole[1] \in ConsoleMessages /\ Head(toConsole) = toConsole[1]
  BY <1>1, PopFacts DEF ConsoleReceives
<1>3. /\ events' = Append(events, e) /\ UNCHANGED <<drive, precharging, retry, toMci, mci>>
      /\ e \in ConsoleEvents /\ e.id = "RX"
  BY <1>2, EventFacts DEF ConsoleReceives, mciVars
<1> HIDE DEF e
<1>4. Follows(events, events', 0, {e}) /\ events' \in Seq(ConsoleEvents)
  BY <1>1, <1>3, QueueSteps
<1>5. DriveTyped'
  BY <1>2, <1>3, <1>4 DEF TrainTyped, DriveTyped, DestinationInRange
<1>6. TrainTyped'
  BY <1>1, <1>3, <1>5, ConsoleTyped
<1>7. \A d \in {e} : d.id \in QuietIds
  BY <1>3 DEF QuietIds
<1>8. ConsoleInv => ConsoleInv'
  BY <1>3, <1>4, <1>7, QuietStepInv DEF SameState
<1> QED BY <1>6, <1>8, ReceivesTokens

LEMMA PrechargeTimeoutStep ==
  ASSUME TrainTyped, PrechargeTimeout, UNCHANGED mciVars, handler.at = "idle"
  PROVE  TrainTyped' /\ (ConsoleInv /\ Tokens => ConsoleInv' /\ Tokens')
<1> DEFINE e == Event("FAULT", "none")
           s == Console(events, drive, precharging, retry, toMci)
           u == [Raised(s, "FAULT") EXCEPT !.precharging = FALSE]
<1>1. /\ events \in Seq(ConsoleEvents) /\ toMci \in Seq(Messages)
      /\ e \in ConsoleEvents /\ e.id = "FAULT"
  BY EventFacts DEF TrainTyped, DriveTyped, MciInv
<1>2. DriveBecomes(u)
  BY ConsoleShape DEF TrainTyped, PrechargeTimeout
<1>3. Shows(u, Append(events, e), drive, retry, toMci)
  BY MonitorFacts
<1> HIDE DEF e, s, u
<1>4. /\ events' = Append(events, e) /\ UNCHANGED <<drive, retry, toMci, toConsole, mci>>
      /\ precharging' \in BOOLEAN
  BY <1>2, <1>3, Becomes DEF PrechargeTimeout, mciVars
<1>5. Follows(events, events', 0, {e}) /\ events' \in Seq(ConsoleEvents)
  BY <1>1, <1>4, QueueSteps
<1>6. DriveTyped'
  BY <1>4, <1>5 DEF TrainTyped, DriveTyped, DestinationInRange
<1>7. TrainTyped'
  BY <1>1, <1>4, <1>6, ConsoleTyped
<1>8. (\A d \in {e} : d.id \in QuietIds) /\ (\A d \in {e} : d.id # "RX")
  BY <1>1 DEF QuietIds
<1>9. ConsoleInv => ConsoleInv'
  BY <1>4, <1>5, <1>8, QuietStepInv DEF SameState
<1>10. Tokens => Tokens'
  BY <1>4, <1>5, <1>8, QuietTokens DEF BusEffect
<1> QED BY <1>7, <1>9, <1>10

\* The answer of a request that times out is not under way, so that nothing answers the next.
LEMMA CommandTimeoutStep ==
  ASSUME TrainTyped, CommandTimeout, UNCHANGED mciVars, handler.at = "idle"
  PROVE  /\ TrainTyped'
         /\ ~AnswerUnderWay /\ ConsoleInv /\ Tokens => ConsoleInv' /\ Tokens'
<1>1. /\ events \in Seq(ConsoleEvents) /\ Follows(events, events, 0, {})
      /\ \A e \in ConsoleEvents : Follows(events, Append(events, e), 0, {e})
  BY QueueSteps, SameFacts DEF TrainTyped, DriveTyped
<1>2. DriveState = Console(events, drive, precharging, retry, toMci) /\ retry.waiting \in Nat
  BY ConsoleShape DEF TrainTyped
<1>3. /\ retry.waiting # 0 /\ UNCHANGED toConsole
      /\ DriveBecomes(Answered(Console(events, drive, precharging, retry, toMci), FALSE))
  <2>1. retry.waiting > 0 /\ UNCHANGED toConsole /\ DriveBecomes(Answered(DriveState, FALSE))
    BY DEF CommandTimeout
  <2>2. retry.waiting # 0
    BY <1>2, <2>1
  <2>3. DriveBecomes(Answered(Console(events, drive, precharging, retry, toMci), FALSE))
    BY <1>2, <2>1, Zenon
  <2> QED BY <2>1, <2>2, <2>3
<1>4. ~AnswerUnderWay => Answerable(0, FALSE)
  BY UnderWay DEF Answerable
<1>5. FALSE \in BOOLEAN /\ (0 = 1 => events[1].id = "RX")
  OBVIOUS
<1> QED BY <1>1, <1>3, <1>4, <1>5, AnsweredStep, ZenonT(60)

-----------------------------------------------------------------------------
(* The train                                                                *)

LEMMA InitInv == TrainInit => TrainInv
<1> SUFFICES ASSUME TrainInit PROVE TrainInv
  OBVIOUS
<1>1. /\ events = <<>> /\ toMci = <<>> /\ toConsole = <<>>
      /\ drive = Drive("neutral_discharged", "NEUTRAL", "NEUTRAL") /\ precharging = FALSE
      /\ retry = Retry(0, "OFF", 0) /\ handler = Resting
  BY DEF TrainInit, BusInit, DriveInit, MciInit, Drive, Retry
<1>2. MciInv /\ precharge \in Precharges
  BY MciInitInv, PrechargeInit DEF TrainInit, PrechargeInv
<1>3. \A ids : At(events, ids) = {}
  BY <1>1 DEF At
<1>4. drive \in Drives /\ DestinationInRange
  BY <1>1 DEF Drive, Drives, DriveStates, Destinations, DestinationInRange
<1>5. retry \in Retries
  BY <1>1, DriveAssumption DEF Retry, Retries, DriveOutputs
<1>6. DriveTyped
  <2>1. events \in Seq(ConsoleEvents) /\ toConsole \in Seq(ConsoleMessages)
    BY <1>1
  <2>2. Len(toConsole) =< BusSize /\ Len(toMci) =< BusSize
    BY <1>1, BusAssumption
  <2> QED BY <1>1, <1>4, <1>5, <2>1, <2>2 DEF DriveTyped
<1>7. drive.fsm = "neutral_discharged" /\ retry.waiting = 0
  BY <1>1 DEF Drive, Retry
<1>8. RecoveryDue
  BY <1>3, <1>7 DEF RecoveryDue, Single
<1>9. PressesInOrder
  BY <1>3, <1>7 DEF PressesInOrder, Single
<1>10. OutcomeFirst
  BY <1>3 DEF OutcomeFirst, Single
<1>11. OrphanHarmless /\ Driving
  BY <1>7 DEF OrphanHarmless, Driving
<1>12. OutputSent = {} /\ AckSent = {} /\ AckReceived = {} /\ handler.answer = "none" /\ handler.at = "idle"
  BY <1>1 DEF OutputSent, AckSent, AckReceived, Resting
<1>13. Tokens
  BY <1>7, <1>12, UnderWay DEF Tokens, OneCommand, AnswersTrue, Single
<1>14. crossed = FALSE
  BY DEF TrainInit
<1> QED BY <1>2, <1>6, <1>8, <1>9, <1>10, <1>11, <1>13, <1>14 DEF TrainInv, TrainTyped, ConsoleInv

\* A step of the mci takes a message from the console and puts one of its own on the bus.
LEMMA MciTyped ==
  ASSUME TrainTyped, MciBegins \/ MciGoesOn, UNCHANGED driveVars
  PROVE  TrainTyped'
<1>1. MciInv'
  BY MciInvNext DEF TrainTyped, MciNext
<1>2. /\ toMci \in Seq(Messages) /\ Len(toMci) =< BusSize
      /\ toConsole \in Seq(ConsoleMessages) /\ Len(toConsole) =< BusSize
      /\ handler \in Handlers /\ precharge \in Precharges
  BY DEF TrainTyped, MciInv, DriveTyped
<1>3. toMci' = toMci \/ (toMci # <<>> /\ toMci' = Tail(toMci))
  BY DEF MciBegins, MciGoesOn, DriveOutputRx, PrechargeRx, DischargeRx, PinRises, PinFalls, NextMessage,
         EnterState, SetOutput, SetCruise, ControlLow
<1>4. Len(toMci') =< BusSize
  BY <1>2, <1>3, PopFacts
<1>5. toConsole' = toConsole \/ \E m \in ConsoleMessages : toConsole' = Put(toConsole, m)
  <2>1. ASSUME DriveOutputRx PROVE toConsole' = toConsole \/ \E m \in ConsoleMessages : toConsole' = Put(toConsole, m)
    BY <2>1, MessageFacts DEF DriveOutputRx
  <2>2. ASSUME SetCruise PROVE toConsole' = toConsole \/ \E m \in ConsoleMessages : toConsole' = Put(toConsole, m)
    <3>1. handler.answer \in {"none", "OK", "INVALID"}
      BY <1>2 DEF Handlers
    <3> QED BY <2>2, <3>1, MessageFacts DEF SetCruise
  <2>3. ASSUME NEW p \in {1, 2}, PinRises(p) \/ PinFalls(p)
        PROVE  toConsole' = toConsole \/ \E m \in ConsoleMessages : toConsole' = Put(toConsole, m)
    BY <2>3, MessageFacts DEF PinRises, PinFalls
  <2>4. ASSUME PrechargeRx \/ DischargeRx \/ EnterState \/ SetOutput \/ ControlLow PROVE toConsole' = toConsole
    BY <2>4 DEF PrechargeRx, DischargeRx, EnterState, SetOutput, ControlLow
  <2> QED BY <2>1, <2>2, <2>3, <2>4 DEF MciBegins, MciGoesOn
<1>6. toConsole' \in Seq(ConsoleMessages) /\ Len(toConsole') =< BusSize
  <2>1. \A m \in ConsoleMessages : /\ Put(toConsole, m) \in Seq(ConsoleMessages)
                                  /\ Len(Put(toConsole, m)) =< BusSize
    BY <1>2, PutFacts
  <2> QED BY <1>2, <1>5, <2>1
<1>7. precharge' \in Precharges
  <2>1. ASSUME PrechargeRx \/ DischargeRx \/ ControlLow PROVE precharge' \in Precharges
    BY <1>2, <2>1 DEF PrechargeRx, DischargeRx, ControlLow, Precharges
  <2>2. ASSUME NEW p \in {1, 2}, PinRises(p) \/ PinFalls(p) PROVE precharge' \in Precharges
    <3>1. precharge.state \in {"DISCHARGED", "INCONSISTENT", "CHARGED"} /\ precharge.control \in BOOLEAN
          /\ precharge.pins \in [{1, 2} -> BOOLEAN]
      BY <1>2 DEF Precharges
    <3>2. CASE PinRises(p)
      BY <1>2, <3>1, <3>2 DEF PinRises, Precharges
    <3>3. CASE PinFalls(p)
      BY <1>2, <3>1, <3>3 DEF PinFalls, Precharges
    <3> QED BY <2>2, <3>2, <3>3
  <2>3. ASSUME DriveOutputRx \/ EnterState \/ SetOutput \/ SetCruise PROVE precharge' \in Precharges
    BY <1>2, <2>3 DEF DriveOutputRx, EnterState, SetOutput, SetCruise
  <2> QED BY <2>1, <2>2, <2>3 DEF MciBegins, MciGoesOn
<1>8. DriveTyped'
  BY <1>4, <1>6 DEF TrainTyped, DriveTyped, DestinationInRange, driveVars
<1> QED BY <1>1, <1>7, <1>8 DEF TrainTyped

\* The output changes only while a command is carried out, and then its request waits.
LEMMA MciStep ==
  ASSUME TrainTyped, MciBegins \/ MciGoesOn, UNCHANGED driveVars
  PROVE  TrainTyped' /\ (ConsoleInv /\ Tokens => ConsoleInv' /\ Tokens')
<1>1. ASSUME Tokens PROVE Tokens'
  BY <1>1, DriveOutputTokens, SetCruiseTokens, MciTokens DEF MciBegins, MciGoesOn
<1>2. ASSUME Tokens PROVE mci'.output = mci.output \/ retry.waiting # 0
  <2>1. mci \in [fsm : States, output : DriveOutputs, cruise : BOOLEAN]
    BY DEF TrainTyped, MciInv
  <2>2. CASE SetOutput
    <3>1. handler.answer # "none"
      BY <1>2, <2>2 DEF SetOutput, Tokens, OneCommand
    <3> QED BY <1>2, <3>1, UnderWay DEF Tokens, OneCommand
  <2>3. CASE EnterState \/ SetCruise
    BY <2>1, <2>3 DEF EnterState, SetCruise
  <2>4. CASE MciBegins \/ ControlLow
    BY <2>4 DEF MciBegins, DriveOutputRx, PrechargeRx, DischargeRx, PinRises, PinFalls, ControlLow
  <2> QED BY <2>2, <2>3, <2>4 DEF MciGoesOn
<1>3. ASSUME ConsoleInv, Tokens PROVE ConsoleInv'
  <2>1. UNCHANGED <<events, drive, retry>>
    BY DEF driveVars
  <2>2. PICK added : added = {}
    OBVIOUS
  <2>3. events \in Seq(ConsoleEvents)
    BY DEF TrainTyped, DriveTyped
  <2>4. Follows(events, events', 0, added) /\ SameState(0) /\ \A e \in added : e.id \in QuietIds
    BY <2>1, <2>2, <2>3, SameFacts DEF SameState
  <2> QED BY <1>2, <1>3, <2>1, <2>4, QuietStepInv
<1> QED BY MciTyped, <1>1, <1>3

\* A message is lost, or nothing happens.
LEMMA LossStep ==
  ASSUME TrainTyped, LoseToMci \/ LoseToConsole \/ UNCHANGED trainVars
  PROVE  TrainTyped' /\ (ConsoleInv /\ Tokens => ConsoleInv' /\ Tokens')
<1>1. /\ toMci \in Seq(Messages) /\ Len(toMci) =< BusSize /\ events \in Seq(ConsoleEvents)
      /\ toConsole \in Seq(ConsoleMessages) /\ Len(toConsole) =< BusSize
  BY DEF TrainTyped, MciInv, DriveTyped
<1>2. UNCHANGED driveVars /\ UNCHANGED mciVars
  BY DEF LoseToMci, LoseToConsole, trainVars
<1>3. /\ toMci' = toMci \/ (toMci # <<>> /\ toMci' = Tail(toMci))
      /\ toConsole' = toConsole \/ (toConsole # <<>> /\ toConsole' = Tail(toConsole))
  BY DEF LoseToMci, LoseToConsole, trainVars
<1>4. toMci' \in Seq(Messages) /\ Len(toMci') =< BusSize
  BY <1>1, <1>3, PopFacts
<1>5. toConsole' \in Seq(ConsoleMessages) /\ Len(toConsole') =< BusSize
  BY <1>1, <1>3, PopFacts
<1>6. DriveTyped'
  BY <1>2, <1>4, <1>5 DEF TrainTyped, DriveTyped, DestinationInRange, driveVars
<1>7. TrainTyped'
  BY <1>2, <1>4, <1>6, ConsoleTyped
<1>8. ConsoleInv => ConsoleInv'
  <2>1. UNCHANGED <<events, drive, retry, mci>>
    BY <1>2 DEF driveVars, mciVars
  <2>2. PICK added : added = {}
    OBVIOUS
  <2>3. Follows(events, events', 0, added) /\ SameState(0) /\ \A e \in added : e.id \in QuietIds
    BY <1>1, <2>1, <2>2, SameFacts DEF SameState
  <2> QED BY <2>1, <2>3, QuietStepInv
<1>9. Tokens => Tokens'
  <2>1. CASE LoseToMci \/ LoseToConsole
    BY <2>1, LoseTokens
  <2>2. CASE UNCHANGED trainVars
    BY <2>2 DEF trainVars, driveVars, mciVars, Tokens, OneCommand, AnswersTrue, AnswerUnderWay,
                OutputSent, AckSent, AckReceived, Single
  <2> QED BY <2>1, <2>2
<1> QED BY <1>7, <1>8, <1>9

\* Every step keeps the types; and the rest of the invariant, if no answer or press is crossed.
LEMMA TrainStep ==
  ASSUME TrainTyped, crossed \in BOOLEAN, [TrainNext]_trainVars
  PROVE  /\ TrainTyped' /\ crossed' \in BOOLEAN
         /\ ~crossed' => ~crossed
         /\ ~crossed' /\ ConsoleInv /\ Tokens => ConsoleInv' /\ Tokens'
<1>1. CASE (MciGoesOn \/ MciBegins) /\ UNCHANGED <<driveVars, crossed>>
  BY <1>1, MciStep
<1>2. CASE LoseToMci \/ LoseToConsole \/ UNCHANGED trainVars
  <2>1. UNCHANGED crossed
    BY <1>2 DEF LoseToMci, LoseToConsole, trainVars
  <2> QED BY <1>2, <2>1, LossStep
<1>3. CASE handler.at = "idle" /\ ConsoleReceives /\ UNCHANGED <<mciVars, crossed>>
  BY <1>3, ReceivesStep
<1>4. CASE handler.at = "idle" /\ ConsoleNext /\ UNCHANGED mciVars
  <2>1. CASE ConsoleLoop /\ UNCHANGED crossed
    BY <1>4, <2>1, LoopStep
  <2>2. ASSUME NEW b \in Destinations, Press(b)
        PROVE  /\ TrainTyped' /\ crossed' \in BOOLEAN
               /\ ~crossed' => ~crossed
               /\ ~crossed' /\ ConsoleInv /\ Tokens => ConsoleInv' /\ Tokens'
    <3>1. PressDrive(b) /\ crossed' = (crossed \/ PressPending \/ Orphan)
      BY <2>2 DEF Press
    <3>2. crossed' \in BOOLEAN /\ (~crossed' => ~crossed /\ ~PressPending /\ ~Orphan)
      BY <3>1
    <3>3. /\ TrainTyped'
          /\ ~PressPending /\ ~Orphan /\ ConsoleInv /\ Tokens => ConsoleInv' /\ Tokens'
      BY <1>4, <3>1, PressStep
    <3> QED BY <3>2, <3>3
  <2>3. CASE PrechargeTimeout /\ UNCHANGED crossed
    BY <1>4, <2>3, PrechargeTimeoutStep
  <2>4. CASE CommandTimesOut
    <3>1. CommandTimeout /\ crossed' = (crossed \/ AnswerUnderWay)
      BY <2>4 DEF CommandTimesOut
    <3>2. crossed' \in BOOLEAN /\ (~crossed' => ~crossed /\ ~AnswerUnderWay)
      BY <3>1
    <3>3. /\ TrainTyped'
          /\ ~AnswerUnderWay /\ ConsoleInv /\ Tokens => ConsoleInv' /\ Tokens'
      BY <1>4, <3>1, CommandTimeoutStep
    <3> QED BY <3>2, <3>3
  <2> QED BY <1>4, <2>1, <2>2, <2>3, <2>4 DEF ConsoleNext, ConsoleGoesOn
<1> QED BY <1>1, <1>2, <1>3, <1>4 DEF TrainNext

\* The destination indexes the tables of the output functions only where it is in range
\* (DestinationInRange): drive_fsm.c of centre_console may be sent into precharge, neutral and the
\* command by any event, late ones included, but never with the value prv_fault_output leaves.
THEOREM DestinationAlwaysInRange == TrainSpec => []DestinationInRange
<1>1. TrainInit => TrainTyped
  BY InitInv DEF TrainInv
<1>2. TrainTyped /\ crossed \in BOOLEAN /\ [TrainNext]_trainVars
      => TrainTyped' /\ (crossed \in BOOLEAN)'
  BY TrainStep
<1>3. TrainTyped => DestinationInRange
  BY DEF TrainTyped, DriveTyped
<1>4. TrainInit => crossed \in BOOLEAN
  BY DEF TrainInit
<1> QED BY <1>1, <1>2, <1>3, <1>4, PTL DEF TrainSpec

LEMMA InvNext == TrainInv /\ [TrainNext]_trainVars => TrainInv'
<1> SUFFICES ASSUME TrainInv, [TrainNext]_trainVars PROVE TrainInv'
  OBVIOUS
<1>1. TrainTyped /\ crossed \in BOOLEAN /\ (crossed \/ (ConsoleInv /\ Tokens))
  BY DEF TrainInv
<1>2. /\ TrainTyped' /\ crossed' \in BOOLEAN
      /\ ~crossed' => ~crossed
      /\ ~crossed' /\ ConsoleInv /\ Tokens => ConsoleInv' /\ Tokens'
  BY <1>1, TrainStep
<1>3. crossed' \/ (ConsoleInv' /\ Tokens')
  BY <1>1, <1>2, Zenon
<1> QED BY <1>2, <1>3 DEF TrainInv

\* The state of both boards keeps its types (TrainTypeOK), and with them a single request of the
\* retry wrapper (centre_console) waits for an answer at a time until answers or presses cross.
THEOREM TrainAlwaysTyped == TrainSpec => []TrainTypeOK
<1>1. ASSUME TrainInv PROVE TrainTypeOK
  <2>1. /\ toMci \in Seq(Messages) /\ toConsole \in Seq(ConsoleMessages)
        /\ Len(toMci) =< BusSize /\ Len(toConsole) =< BusSize
    BY <1>1 DEF TrainInv, TrainTyped, MciInv, DriveTyped
  <2>2. BusTypeOK
    BY <2>1 DEF BusTypeOK, Messages, ConsoleMessages
  <2>3. drive \in Drives /\ precharging \in BOOLEAN /\ retry \in Retries
    BY <1>1 DEF TrainInv, TrainTyped, DriveTyped
  <2>4. retry \in [count : 0 .. DriveRetries - 1, output : DriveOutputs, waiting : Nat]
    BY <2>3 DEF Retries
  <2>5. DriveTypeOK
    BY <2>3, <2>4, TableDomains DEF DriveTypeOK, Drives
  <2>6. DOMAIN MciTransitions = States
    BY DEF MciTransitions, States
  <2>7. MciTypeOK
    BY <1>1, <2>6 DEF TrainInv, TrainTyped, MciInv, MciTypeOK, Handlers, Precharges
  <2>8. crossed \/ retry.waiting =< 1
    <3>1. ASSUME ~crossed PROVE retry.waiting \in {0, 1}
      BY <1>1, <3>1 DEF TrainInv, Tokens, OneCommand
    <3>2. retry.waiting \in {0, 1} => retry.waiting =< 1
      OBVIOUS
    <3> QED BY <3>1, <3>2
  <2> QED BY <2>2, <2>5, <2>7, <2>8 DEF TrainTypeOK
<1> QED BY InitInv, InvNext, <1>1, PTL DEF TrainSpec

\* The console is in drive or reverse only when that is the output of the mci (DriveMeansDriving):
\* no answer, event or request that is left over from an earlier command (drive_fsm.c and
\* can_tx_retry_wrapper.c of centre_console, prv_drive_output_rx of mci) is taken for that of a
\* later one.
THEOREM DriveAlwaysMeansDriving == TrainSpec => []DriveMeansDriving
<1>1. TrainInv => DriveMeansDriving
  BY DEF TrainInv, ConsoleInv, Driving, DriveMeansDriving
<1> QED BY InitInv, InvNext, <1>1, PTL DEF TrainSpec
=============================================================================
