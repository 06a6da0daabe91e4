------------------------------ MODULE BmsRelays -------------------------------
(***************************************************************************)
(* projects/bms_carrier: the sequences that open and close the two battery *)
(* relays, the battery faults and the periodic measurements, over the soft *)
(* timers they share.                                                      *)
(*                                                                         *)
(* A sequence sets the enable pins and the state it expects, and starts    *)
(* two timers: one compares what the IO expander sensed with what is       *)
(* expected, the other takes the next step.  Their ids are kept and are    *)
(* cancelled by a fault; nothing forgets the id of a timer that is over,   *)
(* and soft_timer_cancel frees whichever timer has the id by then.         *)
(*                                                                         *)
(* Messages are handled in the main loop, timers and faults in interrupts. *)
(* Time is counted in ticks that keep the order of the delays in the code. *)
(***************************************************************************)
EXTENDS Integers, Sequences, FiniteSets

CONSTANTS
  BmsTimers,     \* number of soft timers left to these modules
  FaultSources   \* bits raised by the killswitch and the cell measurements

ASSUME BmsAssumption ==
  /\ BmsTimers \in Nat \ {0}
  /\ {"relay", "current"} \cap FaultSources = {}

Relay == {"hv", "gnd"}
Both(b) == [r \in Relay |-> b]
GndOnly == [r \in Relay |-> r = "gnd"]

\* Delays in ticks, in the order of the 15, 18, 130 and 1000 ms of the code.
BmsDelay == [assert |-> 1, current |-> 2, opened |-> 3, hv |-> 3, closed |-> 3, heartbeat |-> 4]

TimerIds == 0 .. BmsTimers - 1
NoTimer == [what |-> "none", left |-> 0]

VARIABLES
  bms,       \* RelayStorage, fault_bitset, the enable pins and the soft timers
  contacts,  \* the relays themselves
  closing,   \* point reached by prv_relay_close_gnd in the main loop
  disturbed  \* history: a fault has struck in the middle of a command to close, or a command has
             \* come during the sequence of an earlier one, since relays at rest were told to open

bmsVars == <<bms, contacts, closing, disturbed>>

-----------------------------------------------------------------------------
(* Soft timers                                                              *)

FreeIds(s) == {i \in TimerIds : s.timers[i] = NoTimer}
Lowest(S) == CHOOSE i \in S : \A j \in S : i =< j

\* soft_timer_start_millis: the id is stored only when a timer was free.
StartTimer(s, what, id) ==
  IF FreeIds(s) = {} THEN s
  ELSE [s EXCEPT !.timers[Lowest(FreeIds(s))] = [what |-> what, left |-> BmsDelay[what]],
                 ![id] = Lowest(FreeIds(s))]

Cancel(s, i) == [s EXCEPT !.timers[i] = NoTimer]

Running(s) == {i \in TimerIds : s.timers[i] # NoTimer}
Awaits(what) == \E i \in TimerIds : bms.timers[i].what = what

-----------------------------------------------------------------------------
(* Relays and faults                                                        *)

\* Mutant: the state expected is left as it was.
Opening_still_expected(s) == [s EXCEPT !.pin = Both(FALSE), !.confirmed = FALSE]

\* The pins low and both relays expected open.
Opening(s) == [s EXCEPT !.pin = Both(FALSE), !.want = Both(FALSE), !.confirmed = FALSE]

relay_open_sequence(s) == StartTimer(StartTimer(Opening(s), "assert", "assertion"), "opened", "next")

\* Mutant: only the timer of the assertion is cancelled.
CancelBoth_assertion_only(s) == Cancel(s, s.assertion)

CancelBoth(s) == Cancel(Cancel(s, s.assertion), s.next)

\* The ids may be those of timers that are over: whichever timer has them now is cancelled.  The
\* timers that relay_open_sequence starts are cancelled too: a fault is not asserted again.
prv_relay_fault(s, internal) ==
  LET opened == relay_open_sequence(CancelBoth(s))
  IN [Cancel(Cancel(opened, opened.assertion), opened.next) EXCEPT
        !.faults = IF internal THEN @ \cup {"relay"} ELSE @,
        !.faulted = TRUE]

fault_bps_set(s, f) == prv_relay_fault([s EXCEPT !.faults = @ \cup {f}], FALSE)
fault_bps_clear(s, f) == [s EXCEPT !.faults = @ \ {f}]

prv_assert_state(s) == IF s.on # s.want THEN prv_relay_fault(s, TRUE) ELSE s

\* Mutant: the new expectation is not compared with what is sensed.
prv_relay_close_hv_unasserted(s) ==
  StartTimer([s EXCEPT !.pin["hv"] = TRUE, !.want = Both(TRUE)], "closed", "next")

prv_relay_close_hv(s) ==
  StartTimer(StartTimer([s EXCEPT !.pin["hv"] = TRUE, !.want = Both(TRUE)], "assert", "assertion"),
        "closed", "next")

-----------------------------------------------------------------------------
(* Periodic measurements                                                    *)

\* The next reading is scheduled first; then the average of the last ones is judged.
prv_periodic_ads_read(s, over) ==
  LET again == StartTimer(s, "current", "periodic")
  IN IF over THEN fault_bps_set(again, "current") ELSE fault_bps_clear(again, "current")

\* The storage names no board to answer, so can_transmit refuses the message: what is left of the
\* heartbeat is its timer.
prv_periodic_heartbeat(s) == StartTimer(s, "heartbeat", "periodic")

-----------------------------------------------------------------------------
(* Interrupts                                                               *)

\* A fault in the middle of prv_relay_close_gnd cancels timers that it goes on to start.
MayDisturb == disturbed' = (disturbed \/ (closing # "no" /\ bms'.faulted))

Callback(s, i, over) ==
  CASE s.timers[i].what = "assert"    -> prv_assert_state(s)
    [] s.timers[i].what = "opened"    -> s
    [] s.timers[i].what = "hv"        -> prv_relay_close_hv(s)
    [] s.timers[i].what = "closed"    -> [s EXCEPT !.confirmed = TRUE]
    [] s.timers[i].what = "heartbeat" -> prv_periodic_heartbeat(s)
    [] s.timers[i].what = "current"   -> prv_periodic_ads_read(s, over)

\* prv_update_timer: the timer is removed after its callback, whatever the callback did with it.
TimerFires(i) ==
  /\ i \in Running(bms) /\ bms.timers[i].left = 0
  /\ \E over \in BOOLEAN : bms' = Cancel(Callback(bms, i, over), i)
  /\ MayDisturb
  /\ UNCHANGED <<contacts, closing>>

\* The interrupt of the IO expander does not wait as long as a tick.
BmsTick ==
  /\ closing = "no" /\ bms.on = contacts
  /\ Running(bms) # {} /\ \A i \in Running(bms) : bms.timers[i].left > 0
  /\ bms' = [bms EXCEPT !.timers =
               [i \in TimerIds |-> IF bms.timers[i] = NoTimer THEN NoTimer
                                   ELSE [bms.timers[i] EXCEPT !.left = @ - 1]]]
  /\ UNCHANGED <<contacts, closing, disturbed>>

FaultRaised(f) ==
  /\ bms' = fault_bps_set(bms, f)
  /\ MayDisturb
  /\ UNCHANGED <<contacts, closing>>

FaultCleared(f) ==
  /\ f \in bms.faults
  /\ bms' = fault_bps_clear(bms, f)
  /\ UNCHANGED <<contacts, closing, disturbed>>

prv_io_int_callback ==
  /\ bms.on # contacts
  /\ bms' = [bms EXCEPT !.on = contacts]
  /\ UNCHANGED <<contacts, closing, disturbed>>

\* A contact follows its pin at any time, or stays where it is.
ContactMoves(r) ==
  /\ contacts[r] # bms.pin[r]
  /\ contacts' = [contacts EXCEPT ![r] = bms.pin[r]]
  /\ UNCHANGED <<bms, closing, disturbed>>

-----------------------------------------------------------------------------
(* Main loop                                                                *)

\* The console may send its message while the timers of an earlier sequence run: they are neither
\* cancelled nor waited for.
UnderWay == \E what \in {"assert", "opened", "hv", "closed"} : Awaits(what)

\* Opening relays with nothing under way starts over.
PowerOffRx ==
  /\ closing = "no"
  /\ bms' = relay_open_sequence([bms EXCEPT !.faulted = FALSE])
  /\ disturbed' = UnderWay
  /\ UNCHANGED <<contacts, closing>>

\* prv_relay_close_gnd, statement by statement: the pin and the expectation, then the two timers.
PowerOnRx ==
  /\ closing = "no"
  /\ bms' = [bms EXCEPT !.pin["gnd"] = TRUE, !.want = GndOnly, !.faulted = FALSE,
                        !.confirmed = FALSE]
  /\ closing' = "pin set"
  /\ disturbed' = (disturbed \/ UnderWay)
  /\ UNCHANGED contacts

StartAssertion ==
  /\ closing = "pin set"
  /\ bms' = StartTimer(bms, "assert", "assertion")
  /\ closing' = "asserting"
  /\ UNCHANGED <<contacts, disturbed>>

StartNextStep ==
  /\ closing = "asserting"
  /\ bms' = StartTimer(bms, "hv", "next")
  /\ closing' = "no"
  /\ UNCHANGED <<contacts, disturbed>>

-----------------------------------------------------------------------------

\* The storage is zeroed: both ids name the first timer.
BmsInit ==
  /\ LET zeroed == [pin |-> Both(FALSE), on |-> Both(FALSE), want |-> Both(FALSE),
                     assertion |-> 0, next |-> 0, periodic |-> 0, faults |-> {},
                     timers |-> [i \in TimerIds |-> NoTimer],
                     faulted |-> FALSE, confirmed |-> FALSE]
     IN bms = StartTimer(prv_periodic_heartbeat(zeroed), "current", "periodic")
  /\ contacts = Both(FALSE)
  /\ closing = "no" /\ disturbed = FALSE

BmsNext ==
  \/ \E i \in TimerIds : TimerFires(i)
  \/ BmsTick
  \/ \E f \in FaultSources : FaultRaised(f) \/ FaultCleared(f)
  \/ prv_io_int_callback
  \/ \E r \in Relay : ContactMoves(r)
  \/ PowerOffRx \/ PowerOnRx \/ StartAssertion \/ StartNextStep

BmsSpec == BmsInit /\ [][BmsNext]_bmsVars

-----------------------------------------------------------------------------
(* Properties.  Two parts of bms are history: faulted, a fault since the     *)
(* last command, and confirmed, the last sequence announced closed relays.  *)
(* Nothing is said while disturbed: the timers of two sequences are mixed.  *)

\* Once a fault has opened the relays nothing drives them again before the next command of the
\* console (fault_bps.c:14-21, relay_sequence.c:18-32).
FaultOpensRelays == disturbed \/ (bms.faulted => bms.pin = Both(FALSE))

\* The relays announced to be closed are driven and sensed closed (relay_sequence.c:125-127).
ConfirmedMeansClosed == disturbed \/ (bms.confirmed => bms.pin = Both(TRUE) /\ bms.on = Both(TRUE))

\* When no assertion is due, the relays sensed are the relays expected, or a fault has been
\* raised (relay_sequence.c:34-41).
SensedOrFaulted ==
  disturbed \/ (closing = "no" /\ ~Awaits("assert") => bms.on = bms.want \/ bms.faulted)
=============================================================================
