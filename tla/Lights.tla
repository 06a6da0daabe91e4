-------------------------------- MODULE Lights -------------------------------
(***************************************************************************)
(* The turn and hazard lights of a power distribution board:               *)
(* libraries/ms-common/src/lights_signal_fsm.c over                        *)
(* blink_event_generator.c.                                                *)
(*                                                                         *)
(* The FSM runs in the main loop and starts and stops a blinker.  The      *)
(* blinker's timer callback raises an output event, starts the next timer  *)
(* and keeps its id, in the interrupt: it may strike while the main loop   *)
(* stops the blinker, so blink_event_generator_stop is broken into steps.  *)
(* Output events reach their lamps in the order they are raised, so the    *)
(* lamp is set when the event is raised.  A board receives sync messages   *)
(* or not; counting the blinks after which one is sent is left out.        *)
(***************************************************************************)
EXTENDS Integers, FiniteSets

Outputs == {"left", "right", "hazard"}
NoBlink == -1                \* SOFT_TIMER_INVALID_TIMER
BlinkIds == 0 .. 2           \* ids the soft timers hand out to the blinker

VARIABLES
  lights,    \* SignalFsmStorage and its BlinkEventGeneratorStorage
  running,   \* ids of the blinker's running timers
  stopping,  \* point reached in blink_event_generator_stop, the id read, the output to start then
  lamps,     \* lamps that are lit
  receives,  \* sync_behaviour is LIGHTS_SYNC_BEHAVIOUR_RECEIVE_SYNC_MSGS
  struck     \* history: a callback ran between the final event and the cancel

lightsVars == <<lights, running, stopping, lamps, receives, struck>>

\* The light that blinks in each state of the FSM.
Blinks == [none |-> "none", left |-> "left", right |-> "right", hazard |-> "hazard",
           hazard_left |-> "hazard", hazard_right |-> "hazard"]

\* The transition tables, for an input event and its data.
LightsNext(fsm, input, on) ==
  CASE fsm = "none" /\ on -> input
    [] fsm = "left" /\ input = "left" /\ ~on -> "none"
    [] fsm = "left" /\ input = "hazard" /\ on -> "hazard_left"
    [] fsm = "right" /\ input = "right" /\ ~on -> "none"
    [] fsm = "right" /\ input = "hazard" /\ on -> "hazard_right"
    [] fsm = "hazard" /\ input = "left" /\ on -> "hazard_left"
    [] fsm = "hazard" /\ input = "right" /\ on -> "hazard_right"
    [] fsm = "hazard" /\ input = "hazard" /\ ~on -> "none"
    [] fsm = "hazard_left" /\ input = "left" /\ ~on -> "hazard"
    [] fsm = "hazard_left" /\ input = "hazard" /\ ~on -> "left"
    [] fsm = "hazard_right" /\ input = "right" /\ ~on -> "hazard"
    [] fsm = "hazard_right" /\ input = "hazard" /\ ~on -> "right"
    [] OTHER -> fsm

LightsInit ==
  /\ lights = [fsm |-> "none", on |-> FALSE, event |-> "none", timer |-> NoBlink]
  /\ receives \in BOOLEAN
  /\ running = {} /\ lamps = {} /\ struck = FALSE
  /\ stopping = [at |-> "no", id |-> NoBlink, then |-> "none"]

-----------------------------------------------------------------------------
(* blink_event_generator.c                                                  *)

Lit(event, on) == IF on THEN lamps \cup {event} ELSE lamps \ {event}

\* The timer that runs a callback is freed after it: the next one gets another id.
NextId == CHOOSE i \in BlinkIds \ running : \A j \in BlinkIds \ running : i =< j

\* prv_raise_blink_event_callback, for the blinker in state l and the timer it ran from.
Raise(l, from) ==
  /\ lamps' = Lit(l.event, ~l.on)
  /\ lights' = [l EXCEPT !.on = ~l.on, !.timer = NextId]
  /\ running' = (running \ {from}) \cup {NextId}

\* Bound: one callback strikes in the window; with more of them the lost timers pile up.
BlinkTimer(i) ==
  /\ i \in running
  /\ Raise(lights, i)
  /\ IF stopping.at \in {"decided", "id read"} THEN ~struck /\ struck' = TRUE
     ELSE UNCHANGED struck
  /\ UNCHANGED stopping

\* blink_event_generator_start once the FSM is in fsm; the blinker goes on when it already blinks
\* for the event.
StartBlinker(fsm) ==
  LET e == Blinks[fsm]
      l == [lights EXCEPT !.fsm = fsm]
  IN IF lights.timer = NoBlink
     THEN Raise([l EXCEPT !.event = e], NoBlink) /\ UNCHANGED stopping
     ELSE /\ lights' = l
          /\ stopping' = IF lights.event = e THEN stopping
                         ELSE [at |-> "called", id |-> NoBlink, then |-> e]
          /\ UNCHANGED <<running, lamps>>

\* Mutant: the final event is raised in the default state.
FinalEvent_when_off ==
  /\ stopping.at = "called"
  /\ lamps' = IF lights.on THEN lamps ELSE Lit(lights.event, FALSE)
  /\ stopping' = [stopping EXCEPT !.at = "decided"]
  /\ UNCHANGED <<lights, running, struck>>

\* blink_event_generator_stop: a final event unless the blinker is in its default state.
FinalEvent ==
  /\ stopping.at = "called"
  /\ lamps' = IF lights.on THEN Lit(lights.event, FALSE) ELSE lamps
  /\ stopping' = [stopping EXCEPT !.at = "decided"]
  /\ UNCHANGED <<lights, running, struck>>

\* blink_event_generator_stop_silently: the id is read, the timer cancelled, the storage reset.
ReadTimerId ==
  /\ stopping.at = "decided"
  /\ stopping' = [stopping EXCEPT !.at = "id read", !.id = lights.timer]
  /\ UNCHANGED <<lights, running, lamps, struck>>

CancelBlink ==
  /\ stopping.at = "id read"
  /\ running' = running \ {stopping.id}
  /\ stopping' = [stopping EXCEPT !.at = "cancelled"]
  /\ UNCHANGED <<lights, lamps, struck>>

\* Mutant: the generator still looks active.
Stopped_still_active(l) == [l EXCEPT !.on = FALSE]

Stopped(l) == [l EXCEPT !.timer = NoBlink, !.on = FALSE]

\* The reset, and the first event of the light that blinks next.
ResetBlinker ==
  /\ stopping.at = "cancelled"
  /\ stopping' = [at |-> "no", id |-> NoBlink, then |-> "none"]
  /\ IF stopping.then = "none"
     THEN lights' = Stopped(lights) /\ UNCHANGED <<running, lamps>>
     ELSE Raise([Stopped(lights) EXCEPT !.event = stopping.then], NoBlink)
  /\ UNCHANGED struck

-----------------------------------------------------------------------------
(* lights_signal_fsm.c                                                      *)

\* An input event with a transition: the output function of the new state starts or stops the
\* blinker.
LightsInput(input, on) ==
  LET fsm == LightsNext(lights.fsm, input, on)
  IN /\ stopping.at = "no" /\ fsm # lights.fsm
     /\ IF fsm = "none"
        THEN /\ lights' = [lights EXCEPT !.fsm = fsm]
             /\ stopping' = [at |-> "called", id |-> NoBlink, then |-> "none"]
             /\ UNCHANGED <<running, lamps>>
        ELSE StartBlinker(fsm)
     /\ UNCHANGED struck

\* The sync event: prv_stop_blinker stops without a final event, the state is entered again.
LightsSync ==
  /\ receives
  /\ stopping.at = "no" /\ lights.fsm # "none"
  /\ stopping' = [at |-> "decided", id |-> NoBlink, then |-> Blinks[lights.fsm]]
  /\ UNCHANGED <<lights, running, lamps, struck>>

LightsMoves ==
  \/ \E i \in BlinkIds : BlinkTimer(i)
  \/ \E input \in Outputs, on \in BOOLEAN : LightsInput(input, on)
  \/ LightsSync
  \/ FinalEvent \/ ReadTimerId \/ CancelBlink \/ ResetBlinker

LightsGo == LightsMoves /\ UNCHANGED receives

LightsSpec == LightsInit /\ [][LightsGo]_lightsVars

-----------------------------------------------------------------------------
(* Properties *)

\* Once the blinker is started or stopped, no lamp is lit but the one of the FSM's state, unless
\* a callback struck between the final event and the cancel (blink_event_generator.c:67-82).
LampsFollowSignal == stopping.at = "no" /\ ~struck => lamps \subseteq {Blinks[lights.fsm]} \ {"none"}

\* One timer blinks while a signal is on, none otherwise, and it is the one that stop would cancel
\* (blink_event_generator.c:35-65).
OneBlinker ==
  stopping.at = "no" /\ ~struck =>
    running = IF lights.fsm = "none" THEN {} ELSE {lights.timer}
=============================================================================
