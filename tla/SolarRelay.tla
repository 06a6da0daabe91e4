------------------------------ MODULE SolarRelay ------------------------------
(***************************************************************************)
(* projects/solar: the relay of a solar array, opened and closed by        *)
(* commands, opened by faults in what was measured, and asserted by a      *)
(* timer once it is open.                                                  *)
(*                                                                         *)
(* A cycle in the timer interrupt copies the last readings into the data   *)
(* store and raises an event; the faults are looked for in the main loop,  *)
(* where the relay events of a higher priority are processed first.  The   *)
(* temperatures and the faults of the ADC, which are reported without      *)
(* opening the relay, are left out.                                        *)
(***************************************************************************)
EXTENDS Integers, Sequences

CONSTANTS
  CurrentChecks,   \* MAX_NUMBER_OF_CURRENT_CHECKS
  SolarCycles,     \* bound: cycles whose event is not yet processed
  Assertions       \* bound: assertion timers that run at a time

ASSUME SolarAssumption ==
  /\ CurrentChecks \in Nat /\ SolarCycles \in Nat \ {0} /\ Assertions \in Nat \ {0}

\* The current, by what is made of it; "little" is not over CURRENT_ASSERT_THRESHOLD_uA.
Currents == {"little", "flowing", "over", "negative"}

VARIABLES
  solar,      \* RelayFsmStorage, the last reading and the data store
  orders,     \* relay events raised and not yet processed
  ready,      \* cycles whose event is not yet processed
  asserting,  \* assertion timers that run
  reported,   \* the last message about an opening
  reclosed    \* history: a command closed the relay since the last check for faults

solarVars == <<solar, orders, ready, asserting, reported, reclosed>>

-----------------------------------------------------------------------------
(* Main loop *)

\* relay_fsm_process_event.
RelayOrder ==
  /\ orders # <<>>
  /\ Head(orders) = "open" /\ solar.fsm = "closed" => asserting < Assertions
  /\ orders' = Tail(orders)
  /\ solar' = [solar EXCEPT !.fsm = IF Head(orders) = "open" THEN "open" ELSE "closed"]
  /\ asserting' = IF Head(orders) = "open" /\ solar.fsm = "closed" THEN asserting + 1 ELSE asserting
  /\ UNCHANGED <<ready, reported, reclosed>>

\* Mutant: the sign of the current is lost.
CurrentFaults_unsigned == IF solar.current = "over" THEN <<"open">> ELSE <<>>

\* prv_check_output_current, over the faults that open the relay.
CurrentFaults == IF solar.current \in {"over", "negative"} THEN <<"open">> ELSE <<>>

VoltageFaults == IF solar.overvoltage THEN <<"open">> ELSE <<>>

\* fault_monitor_process_event; its event has a lower priority than those of the relay.
DataReady ==
  /\ orders = <<>> /\ ready > 0
  /\ ready' = ready - 1
  /\ orders' = CurrentFaults \o VoltageFaults
  /\ reclosed' = FALSE
  /\ UNCHANGED <<solar, asserting, reported>>

\* prv_rx_set_relay_state.
RelayCommandRx(order) ==
  /\ orders = <<>>
  /\ orders' = <<order>>
  /\ reclosed' = (reclosed \/ order = "close")
  /\ UNCHANGED <<solar, ready, asserting, reported>>

\* prv_mcp3427_callback keeps the reading until the next cycle; a faulty ADC leaves the last one.
CurrentRead(current) ==
  /\ solar.reading # current
  /\ solar' = [solar EXCEPT !.reading = current]
  /\ UNCHANGED <<orders, ready, asserting, reported, reclosed>>

-----------------------------------------------------------------------------
(* Interrupts *)

\* prv_do_sense_cycle: prv_sense_callback and the callbacks for the MPPTs, then data_store_done.
SenseCycle ==
  /\ ready < SolarCycles
  /\ ready' = ready + 1
  /\ \E voltage \in BOOLEAN :
       solar' = [solar EXCEPT !.current = solar.reading, !.overvoltage = voltage]
  /\ UNCHANGED <<orders, asserting, reported, reclosed>>

\* prv_assert_relay: the current may be that of a cycle before the opening.
AssertRelay ==
  /\ asserting > 0
  /\ LET again == ~solar.err /\ solar.current = "unset" /\ solar.checks < CurrentChecks
     IN /\ asserting' = IF again THEN asserting ELSE asserting - 1
        /\ solar' = IF again THEN [solar EXCEPT !.checks = @ + 1] ELSE solar
        /\ reported' = IF again THEN reported
                       ELSE IF ~solar.err /\ solar.current = "little" THEN "open ok" ELSE "fault"
  /\ UNCHANGED <<orders, ready, reclosed>>

\* prv_relay_err_cb: the flag stays set.
prv_relay_err_cb ==
  /\ solar' = [solar EXCEPT !.err = TRUE]
  /\ reported' = "fault"
  /\ UNCHANGED <<orders, ready, asserting, reclosed>>

-----------------------------------------------------------------------------

SolarInit ==
  /\ solar = [fsm |-> "closed", err |-> FALSE, checks |-> 0, reading |-> "unset",
              current |-> "unset", overvoltage |-> FALSE]
  /\ orders = <<>> /\ ready = 0 /\ asserting = 0 /\ reported = "none" /\ reclosed = FALSE

SolarNext ==
  \/ RelayOrder \/ DataReady
  \/ \E order \in {"open", "close"} : RelayCommandRx(order)
  \/ \E current \in Currents : CurrentRead(current)
  \/ SenseCycle \/ AssertRelay \/ prv_relay_err_cb

SolarSpec == SolarInit /\ [][SolarNext]_solarVars

-----------------------------------------------------------------------------
(* Properties *)

\* Once all events are processed, an array whose stored current or voltage is out of bounds is
\* disconnected, however cycles and commands interleave, unless a command has closed the relay
\* since (fault_monitor.c:13-63, fault_handler.c:37-43).
FaultyArrayIsOpen ==
  (solar.current \in {"over", "negative"} \/ solar.overvoltage) /\ orders = <<>> /\ ready = 0 =>
    solar.fsm = "open" \/ reclosed
=============================================================================
