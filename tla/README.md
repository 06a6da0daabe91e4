# Midnight Sun MSXIV firmware: specifications, model checking and proofs

This directory holds TLA+ specifications of the firmware of a solar car: the concurrent machinery
of `libraries/ms-common` every board is built on, and the control logic of the boards that must
not leave the car in a bad state. TLC checks them on small instances, and the TLA+ proof system
proves the central ones for every size.

`PROJECT.json` lists components, runs, mutants, the source lines behind each definition, the
findings, the hazards and the theorems.

## 1. The system

Each board is a bare-metal microcontroller. A *main loop* takes events from a global event queue
and hands every event to its modules, most of them state machines. *Interrupt handlers* (timer,
CAN controller, GPIO) preempt it, and they call back into the same modules: timer callbacks
transmit messages, start and cancel timers and raise events. A handler runs to its end before the
main loop goes on; only a handler of a higher priority preempts it (CAN preempts the timer).
Shared state is protected, where it is, by switching interrupts off (`critical_section.c`).

Boards talk over CAN. A critical message may ask for acknowledgements, which are collected with a
timeout of 25 ms. The centre console leads the car through its power and drive states in
sequences of such messages.

### 1.1 Components

Sources without a directory are in `libraries/ms-common/src`.

| component | state it keeps | operations | interacts with | what makes it correct |
| --- | --- | --- | --- | --- |
| fifo (`fifo.c`) | ring, head, next, count | push, peek, pop, array forms | used by main loop and interrupts | order kept, never over capacity, tests still true in the critical section |
| event queue (`event_queue.c`) | a fifo per priority | raise, process | everything raises, the main loop processes | no event taken twice or damaged; highest priority first |
| object pool (`objpool.c`) | free bitset | get, free | soft timers, ACK requests | a node has one owner |
| critical section | the interrupt mask | start, end | fifo, pool, timers | nests |
| soft timers (`stm32f0xx/soft_timer.c`) | list by expiry, rollover count, compare register | start, cancel, interrupt | callbacks of every module | list intact, callbacks neither early nor late |
| ACK requests (`can_ack.c`) | nodes, array of active requests | add, handle ACK, time out | CAN layer, soft timers, callbacks of boards | each request ends once and leaves |
| CAN layer (`can.c`, `can_fsm.c`, `stm32f0xx/can_hw.c`) | TX and RX fifo, mailboxes | transmit, process event, interrupts | event queue, ACK requests, RX handlers | events and messages stay paired, nothing waits for ever |
| RX handlers (`can_rx.c`) | sorted table, default handler | register, get | CAN layer | each message to its own handler |
| FSM (`fsm.c`) | current state | process event | all boards | first matching transition, then output |
| datagrams (`can_datagram.c`) | RX/TX state machine, fifo, watchdog | rx, tx, process event | CAN, bootloader, babydriver | a datagram is delivered whole or not at all; an answer is sent whole |
| watchdog (`watchdog.c`) | timer id | start, kick, cancel | soft timers | a reception under way is watched |
| blink generator, light signals (`blink_event_generator.c`, `lights_signal_fsm.c`) | blink state, timer id, FSM | start, stop, sync | soft timers, event queue, CAN | one timer blinks, only the lamp of the FSM's state is lit |
| priority queue (`pqueue.c`) | heap | push, pop | none | heap order |
| retry wrapper (`ms-helper: can_tx_retry_wrapper.c`) | retry count, request | send, ACK callback | CAN, ACK requests | one outcome per send |
| flash persistence (`ms-helper: persist.c`) | sections of a flash page | init, commit | bootloader configuration, calibrations | the last blob committed is found again |
| other helpers (`ms-helper`) | debounce, periodic sends, watchdogged inputs | start, stop, read | soft timers, CAN | timers not leaked |
| drivers (`ms-drivers`) | chip registers | bus transactions | I2C, SPI | not studied |
| centre console, power | power FSM, main/aux/off sequence FSMs, requests | button, events, ACKs, faults | CAN, retry wrapper, event queue | one sequence at a time; a step only after its predecessor was confirmed; every transition ends |
| centre console, drive | drive FSM, precharge monitor, request | buttons, events, timeouts | CAN, motor controller interface | drive is shown only while the motor controllers drive; every transition ends |
| motor controller interface (`mci`) | drive FSM, cruise flag, precharge | CAN handlers, timer and GPIO interrupts | console, motor controllers | the motor command is that of the FSM; precharge needs both pins |
| BMS carrier | relay sequence, faults, timer ids | open, close, fault, measurements | CAN, soft timers, GPIO | a fault leaves the relays open; what is sensed is what is expected |
| charger | connection state, timers of the charger's messages | poll, begin, stop, status | CAN, MCP2515, soft timers | silent after a stop, power only while plugged in |
| solar | relay FSM, data store, assertion timers | commands, cycles, faults | CAN, I2C, event queue | an array with a fault is disconnected |
| bootloader | two configuration pages, dispatcher | boot, commit, dispatch | persist, datagrams | a configuration survives losses of power |
| power distribution, pedal board, power select, steering, babydriver | outputs, calibration | CAN handlers, timers | CAN | not modelled, see section 6 |

### 1.2 What is hard

* **Interleaving.** Interrupts strike between any two instructions of the main loop that are not
  in a critical section: between the capacity test and the commit of a fifo, in the middle of
  `prv_update_req`, between the event and the push of `can_transmit`.
* **Limits.** 20 events per priority, 32 messages per fifo, 10 ACK requests, 30 timers; results
  that say "full" are often ignored.
* **Time.** The counter rolls over; timers expire while others are started; ACK timeouts race
  late answers; retries start from timeout callbacks.
* **Stale identifiers.** Soft timer ids and pool nodes are reused, and their former owners keep
  them.
* **Loss of power.** A commit to the flash is four writes, and a configuration is two commits.
* **Protocols over several boards.** A step of a power sequence waits for one or two boards, any
  of which may refuse or stay silent, while buttons are pressed and faults arrive.

The hazards section of `PROJECT.json` gives each with its line and the properties that cover it.

## 2. The modules

| module | models | extends / instantiates |
| --- | --- | --- |
| `RingBuffer` | the ring of `fifo.c` as pure operators | |
| `Fifo` | `fifo.c` used by several contexts | `RingBuffer`, `BoundedQueue` |
| `BoundedQueue` | what a fifo promises (abstract specification) | |
| `Fifo_proofs` | theorems about `Fifo` | `Fifo` |
| `CanAck` | `can_ack.c` between main loop and timer interrupt | |
| `CanAck_proofs` | theorems about `CanAck` | `CanAck` |
| `Can` | `can.c`, `can_fsm.c`, `can_hw.c` | |
| `Can_proofs` | theorems about `Can` | `Can` |
| `SoftTimer` | `stm32f0xx/soft_timer.c` and its hardware counter | |
| `SoftTimer_proofs` | theorems about `SoftTimer` | `SoftTimer` |
| `ConsolePower` | power control of the centre console, main loop included | |
| `ConsolePower_proofs` | theorems about `ConsolePower` | `ConsolePower` |
| `DriveBus` | the messages between console and motor controller interface | |
| `ConsoleDrive` | drive FSM, precharge monitor and motor command of the console | `DriveBus` |
| `MciDrive` | drive FSM, cruise and precharge of the motor controller interface | `DriveBus` |
| `DriveTrain` | the two boards over a bus that loses messages | `ConsoleDrive`, `MciDrive` |
| `DriveTrain_proofs` | theorems about the two boards, and about `MciDrive` on its own | `DriveTrain` |
| `BmsRelays`, `BmsRelays_proofs` | relay sequences, faults and measurements of the BMS carrier over their timers; theorems about them | `BmsRelays` |
| `Lights` | `lights_signal_fsm.c` over `blink_event_generator.c` | |
| `Persist` | `persist.c`, one page of flash | |
| `BootConfig` | `config.c` of the bootloader: two pages, boots and losses of power | `Persist` |
| `CanDatagram` | `can_datagram.c` over `watchdog.c`, with the bootloader's dispatcher | |
| `Charger` | connection, begin and stop sequence, charger controller | |
| `SolarRelay` | relay FSM, fault monitor and data store of a solar board | |
| `Boards_proofs` | theorems about `Charger`, `SolarRelay`, `Lights`, `CanDatagram` and `BootConfig`, each on its own | `Charger`, `SolarRelay`, `Lights`, `CanDatagram`, `BootConfig` |
| `MCBoards` | the boards that share nothing with each other, side by side for TLC | the seven modules above |
| `MC*` | values of the constants for TLC | the module of the name |

The comments marked *Mutant* in the modules are faulty variants of the definition that follows.
Each property has one that breaks it, which shows that the run can tell the difference; no
specification uses them.

### Fifo

A fifo operation is two steps: a *test*, with interrupts enabled, and a *commit*, the critical
section. `op[c]` is the operation of context c between the two. `Running` is the preemption rule:
a context goes on only when no context of its own or a higher priority is in the middle of an
operation. Slots are numbers, the pointer wrap of the code is `Ahead`, and single operations are
array operations of length one.

* `RingConsistent` relates head, next, count and the cleared slots.
* `TestsStayValid` says that a test made with interrupts enabled still holds in the critical
  section; it is what makes the unprotected test safe for a pair of contexts.
* `ImplementsQueue` is the refinement of `BoundedQueue`, with `Contents(fifo)` for the queue.
* `WithinCapacity` fails when several contexts push (`fifo_events`): this is how the event queue
  is used.

### CanAck

The pool, the array `active_requests`, the count, and the soft timers by id (other modules' timers
too, since ids are reused). Each statement of the main loop at which an interrupt makes a
difference is a step with the local variables in `main`; the timer interrupt is one step, expiry
callback and its transmissions included. `PreemptPoints` says before which steps it may strike: on
the hardware before all of them. The array is kept as the code keeps it, with the stale entries a
shift leaves.

Nothing masks the interrupt, and some of its strikes do damage: a request added or removed while the
list is half updated (`HalfDone`), and one removed that the main loop holds or whose place lies before
it (`Holding`). The history `torn` remembers the first of them; the properties speak of the table until
then. What happens later is modelled as far as the code goes on at all: a cleared node has no callback
(`TestCallback`), a callback pointer read again after the test may be NULL (`RunCallback`, then the board
is `lost`), a count below zero is lost in the memmove.

* `ListMatchesPool`: array, count and pool agree, and no entry is listed twice.
* `EveryRequestWatched`: requests and the timers of the table match one to one.
* `OneOutcome`: a request reports its end once, though its last ACK and its timeout race.
* `EndedRequestsLeave`: a request that reported its end is not listed between two calls.
* `OtherTimersUntouched`: ids are reused, yet no timer of another module is cancelled.
* `EveryRequestEnds` (liveness): a request leaves, by ACKs or by timeout.
* `TimedOutRequestsLeave` (violated): a listed request has its timer running, whenever the interrupt
  strikes. `ack_preempt` lets it strike between calls and where a rejected ACK is about to be unmarked:
  the timeout then finds no device missing and returns (`can_ack.c:96-98`), and the request stays with no
  timer. This strike is no damage to the list, so `ack_table` has it too.

Boards answer OK or INVALID, never TIMEOUT, so a status tells an ACK from an expiry. The callback
of a received ACK may reject it and may transmit again, as the retry wrapper does.

### Can

Events are counted by kind, with the capacity of the queue. The order of kinds is given up: which
kind comes next is nondeterministic, and fairness per kind stands for it. The message fifos are
sequences (what `Fifo` implements). `sending[c]` is a transmit between its event and its push,
`main` the handler's position. The controller is external: mailboxes, flags, a hardware receive
fifo, bus-off. `ClearFlags` models that the handler serves the first pending event and then clears
the flags of the others. A transmission that completes in that window goes unseen; and a TX event is refused
when other events fill the queue, which `can.c:140` does not look at. The history variable `missed`
remembers either until the next TX event is queued.

* `RxEventsCovered`: every RX event has its message.
* `TxBacklogCovered`: while something waits to be sent, an event, a busy mailbox or a pending
  interrupt will make the main loop look again, unless `missed`.
* `TxNeverStalls`: the same as liveness.

The sizes of the code, 20 events per priority against 32 messages in `rx_fifo`, do not keep the queue
from filling up, and the run fills it. After a refused event a message can wait, with nothing to
announce it, for as long as nothing else is transmitted: the properties say that this and the unseen
completion are the only ways, and that they are over with the next TX event.

### SoftTimer

Time is `now`; the counter is `now % Modulus`, and `Tick` may come between any two steps. The list
keeps the links of the code. Expiry is a counter value and an era (rollover count); the compare
register raises `cc1`, the rollover `update`, and the handler serves first the one, then the
other. Callbacks start and cancel timers, their own included. `Latency` bounds the time while an
interrupt waits or runs. A compare flag may be set with the channel disabled: the reference manual does
not say otherwise. A start may be overtaken by the rollover between its two reads, or run before the
rollover is counted (from the CAN interrupt), and a match and a rollover may be pending together: all of
it is part of the specification. Three variables are history: `deadline`, when each timer should fire;
`misdated`, the timers whose start read the counter and the rollover count of different eras, so that
their expiry is an era off; and `astray`, that the compare register was last set from a head that was
misdated or whose time had passed and that the code took for one to come (`Misjudged`).

* `ListLinksRunning`: the list links exactly the running timers, forwards and backwards alike.
* `ListInOrder`: of two neighbours that were not misdated, the first is due first.
* `NeverEarly`: the callback of a timer that was not misdated runs at most `Offset` before its time.
* `OnTime`: none of these timers is overdue by more than two minimum intervals and twice the latency, except
  while the register is astray. The second interval is real: when `Counter + Offset` wraps, a head that is
  due compares as one to come (`soft_timer.c:209-211`), and the register is set a minimum interval ahead
  although one has passed.
* `Punctual` (violated): the same without the exception.

`timer_first` follows the counter from the first era over its rollover to the end of the second.
`timer_later` goes on to later rollovers, without misdated starts and without a handler that meets a
rollover not yet counted (`Undisturbed`), so that what is left is line 232: it compares the era of the head
with that of the first slot of the pool instead of the current one. The compare register is then set to
a value already passed, and a timer is missed for a whole rollover (71 minutes). No test can wait that
long.

### ConsolePower

`queue` is the event queue with the two priorities the board uses. `power`, `seq` and `off` are
the power FSM with its storage and the sequence FSMs; a state of a sequence FSM is a number
(0 idle, k the k-th step, -1 the fault state). `can` holds the fifos and the pending ACK requests,
`owed` the answers the boards may still give. `MainLoop` is one round of `main.c`: the event goes
to all the handlers in the order of the code, each of which may raise events, transmit or change
its state machine, so a round is one step of composed handlers. `Timeout`, `Answer`, `PressPower`
and `BpsFault` are the interrupts.

* `OneSequence`: never two sequences at once, and none while the power FSM is at rest.
* `RequestsInStep`: the state keeps its types (`TypeOK`), one request at most is outstanding, and a
  request belongs to the step of the FSM that sent it, so its answer is counted for the right step.
* `StepsConfirmed`: a step is entered only when the boards of all earlier steps answered OK in
  *this* attempt (`granted` is history), whatever timed out before.
* `TransitionEnds` (liveness): a transition ends by completion or fault, unless both boards of the
  last step stay silent (`Stuck`): the timeout is then taken for the first of two ACKs, and no request is
  left that could bring another. After one answer the request of the other board is still there, so the
  end of the step is checked then. `QueueFits` is part of it: no event a transition waits for is raised
  into a full queue and lost.

What it assumes: a board answers before the ACK timeout or never; the next press comes after the
timeouts of requests that a faulted sequence left behind (without it a leftover request of the off
sequence confirms the next attempt, a hazard); a mailbox is free; interrupts strike between rounds
of the main loop (finer interleavings are the subject of `CanAck` and `Can`). The drive state and
the pedal, on which the button generator depends, are chosen anew at every press. An answer may be
OK or INVALID for any request.

### ConsoleDrive, MciDrive and DriveTrain

A drive button becomes an event, `main_event_generator.c` turns it into a request of the drive
FSM, and the FSM goes through precharge and a motor command with retries. `ConsoleDrive` has the
FSM's table (`DriveTransitions`), its output functions (`Entered`), the precharge monitor and
`can_tx_retry_wrapper.c` with `retry_indefinitely` unset. `retry.waiting` counts its requests in
the ACK table: a fault can leave one behind. A lost message and its request in the table are the
case that neither `Can` nor `CanAck` alone has.

`MciDrive` breaks a handler of the main loop at the statements between which an interrupt makes a
difference: the choice of the next state (`decided`), its assignment (`entered`), the two
assignments of the output function (`half set`), and the two of the discharge handler
(`draining`). `StrikePoints` says at which of them the timer interrupt (which toggles cruise when
the brake is pressed) and the GPIO interrupt (which counts edges of the monitor pins) may strike.
`main.c:91` pops an event and then handles it only if there was none, so taking a message has no
fairness: it is taken, or it is lost.

* `CommandFollowsFsm`: between two handlers the output that the periodic motor command reads is that
  of the FSM state, and the cruise velocity is followed in cruise only.
* `ChargedMeansBothPins`: precharge counts as complete only while both pins have risen, unless since the
  last discharge an edge came between the two assignments of its handler, where it is counted after the
  reset, or a counted pin fell, whose next edge is counted again (`stray`, history).
* `DestinationInRange`: the value a fault leaves in `destination` is gone before anything indexes a
  table with it.
* `DriveMeansDriving`: the console is in drive or reverse only while the mci's output is the same.
* `DriveTransitionEnds` (liveness): precharging, commanding and recovering end, whatever is lost.

In `DriveTrain` the console moves only while the mci is between two handlers and nothing is on the
way to the console. This drops interleavings, not outcomes: the main loop of the console changes
neither the state of the mci nor what is on the way to the console, and the handlers of the mci
read nothing of the console, so a step of one board that comes first can be moved behind or before
those of the other. Only `toMci` is shared, and its sender appends where its receiver takes away
(a full queue drops a message, which a loss on the bus also does).

The history `crossed` is set by an ACK timeout with the answer still under way (the answer then counts for
the next command), by a press before the last one was acted on, and by a press while the request of a
command that a fault broke off still waits (`Orphan`). From then on `DriveMeansDriving`,
`DriveTransitionEnds` and the bound on requests in `TrainTypeOK` say nothing: there the code does go
wrong. `DestinationInRange` and the types are claimed always, and proved so; the run stops there.

What the code does beyond the properties: after a fault `current_state` stays TRANSITIONING; a
PARKING pressed as precharge completes shows a state the FSM is not in; when all ACKs are lost the
console goes to its fault state while the mci still drives, which the properties allow (they say
what drive means on the console, not the converse).

### BmsRelays

`bms.timers` are the soft timers by id; a callback starts others and its own timer is freed after
it. The two ids in `RelayStorage` are kept as the code keeps them: zero at first, and never
forgotten. Time is in ticks that keep the order of the delays. `closing` is the point reached in
`prv_relay_close_gnd`. Contacts follow their pins at any time or stick, and the IO expander's
interrupt reads them. `disturbed` (history) says that the timers of two sequences are mixed: a fault has
struck within `prv_relay_close_gnd`, which then starts timers nobody cancels, or a command has come
during the sequence of an earlier one, whose timers it neither cancels nor waits for. It ends with a
command that opens relays with nothing under way. The properties speak of the states that are not
disturbed.

* `FaultOpensRelays`: after a fault nothing drives a relay before the next command.
* `ConfirmedMeansClosed`: relays announced closed are driven and sensed closed.
* `SensedOrFaulted`: when no assertion is due, what is sensed is what is expected, or a fault was
  raised.

In disturbed states they fail. A fault also cancels
whichever timers have the ids of timers long over, the current measurement's for one
(`relay_sequence.c:20`): the model has it, no property forbids it. `main.c` never sets `ack_devices`,
so `can_transmit` refuses the heartbeat and only its timer is left. The console's step that closes
the relays sends SET_RELAY_STATES, which this board does not handle.

### Lights

The FSM runs in the main loop; `blink_event_generator_stop` is broken into the final event, the read
of the id, the cancel and the reset, since the timer callback may strike in between. An output event
reaches its lamp in the order it is raised, so raising it sets `lamps`.

* `LampsFollowSignal`: no lamp is lit but the one of the FSM's state.
* `OneBlinker`: one timer runs while a signal is on, none otherwise, and its id is the one stored.

After a callback struck between the final event and the cancel (`struck`) both fail in the code: the
lamp stays lit or a timer runs that nobody can cancel. The properties excuse this window and do not catch
it. One strike is the bound.

### Persist and BootConfig

A page is a sequence of sections, each erased, half written (`Torn`), valid or invalid. The writes of
`persist_commit` are steps: invalidate, erase when the page is full, size, blob. `BootConfig` runs
`config_init` and `config_commit` over two pages; the power may be lost between any two writes, and
one write of the first page may fail. A configuration is a board id, the application's CRC and the
checksum, which is the part it was computed over.

* `OneValidSection`: no page has two sections that count as valid.
* `SomePageWhole`: after the first boot one of the pages always holds a whole configuration.
* `ConfigSurvives`: a board that has booted runs with the configuration committed last, or the one
  whose commit was broken off.
* `PowerLossKeepsConfig` (violated): the same, whenever the power is lost.

The history `harm` keeps what excuses them: `sum`, the checksum computed before the CRC of the
application is replaced (`config.c:123-124`), so that both pages are stored with a checksum that does
not fit; `unmirrored`, a loss of power while the second page has no valid section. A first boot broken
off twice leaves two torn pages, and `main.c` does not look at the error of `config_init`.

### CanDatagram

The FSM is driven by events that its own handlers raise. A handler is one step; a frame, the watchdog's
expiry and an event may come in any order. Bytes are pairs of the datagram they belong to and their
position, so that mixed datagrams show. The client sends a script of commands, for this board and for
another; frames may be lost. The board answers with more bytes than the fifo holds at a time.

* `DispatchedWasSent`: what is dispatched was sent to this board, whole, and once.
* `ReceptionWatched`: while a datagram is being received a watchdog runs or an event is due.
* `AnswerWhole`: an answer reported as sent is whole and holds nothing else.

Two histories excuse what the code does not exclude. `stray`: an error and a receive event under way
together, where the second is taken for the end of another reception and an old datagram is dispatched
again. `residue`: an answer that begins with bytes in the fifo, a watchdog running or an event waiting.
Reception and answer share the fifo and the watchdog's FSM, and two things can be left of a reception:

* a watchdog whose id is forgotten. A data frame that comes after a soft error kicks a watchdog
  (`can_datagram.c:598`), and the next `watchdog_start` overwrites its id without cancelling it
  (`watchdog.c:13`). When it expires during the answer to the command that follows, its error ends the
  transmission, which is then reported as complete with part of its bytes;
* bytes. While an older reception is still active a data frame is put into the fifo even if its own start frame
  was lost, and an answer sends it.

The model also shows what no property forbids: a datagram for another board leaves the reception active, its
watchdog switches the listener off, and with no error callback in the bootloader the board does not
listen again, although `can_datagram.h` says it goes on until told to stop.

### Charger and SolarRelay

`Charger` keeps the soft timers by id and the one id the controller remembers, zero at first and the
id of the connection's poll timer by then. `charger_controller_deactivate` is broken between the read
of the id and the cancel.

* `ChargerSilent`: after a stop no timer repeats the start message before the next permission. Two
  permissions for one charge lose the first timer's id (`doubled`), a callback between read and cancel
  escapes it (`struck`).
* `PoweredWhilePlugged`: relay and pilot are on only with a connector in or while the event that turns
  them off is due, unless the permission came after the connector had gone (`late`).

A stop may cancel the poll timer instead, after which no plugging is noticed; the model has it.
`main.c` does not call `charger_controller_init`; the modules are taken as the smoke test sets them up.

`SolarRelay` has the cycle that copies readings into the data store, the event one priority below those
of the relay, commands, and the assertion timer after an opening.

* `FaultyArrayIsOpen`: once all events are processed an array whose stored current or voltage is out of
  bounds is disconnected, unless a command has closed the relay since.

The assertion judges a current up to a cycle old and goes on when the relay is closed meanwhile, so its
report may be wrong in both directions; no property states the contrary.

## 3. Runs

The states are the distinct ones. The type invariants of `CanAck`, `SoftTimer`, `ConsolePower` and
`BootConfig` are a conjunct of one of their invariants (`ListMatchesPool`, `ListLinksRunning`,
`RequestsInStep`, `SomePageWhole`); those of `Fifo` and `Can` are proved (section 5).

| run | states | question and answer |
| --- | --- | --- |
| `fifo_pair` | 5,031 | one producer, one consumer, 3 slots: the ring is consistent and refines the bounded queue |
| `fifo_events` | violation | three producers: `WithinCapacity` fails |
| `ack_table` | 21,468 | two nodes, three timers, one and two addressees, interrupts anywhere until one does damage: all table properties, and every request ends |
| `ack_preempt` | violation | a timeout where a rejected ACK is about to be unmarked: `TimedOutRequestsLeave` fails |
| `can_tx` | 41,445 | bus errors, missed completions, full queues, transmissions from two contexts: events and messages stay paired, nothing to send is forgotten |
| `timer_first` | 1,622,551 | three timers to the end of the second era of the counter, all interleavings: list, order, punctuality |
| `timer_later` | violation | two timers over three rollovers: `Punctual` fails |
| `console_power` | 323,353 | two presses at a time, a battery fault, all answers and timeouts: sequences and liveness |
| `console_fault` | violation | `StateAgrees` fails after a fault on the way out of aux or main |
| `drive_commands` | 873,350 | console and motor controller interface over a lossy bus: what drive means, and that every transition ends |
| `components` | 1,052,593 | seven boards on their own, against interrupts, faults and losses of power |
| `config_power_loss` | violation | `PowerLossKeepsConfig` fails: defaults replace the configuration just committed |

`components` is one run for seven specifications that share no variable: in each behaviour one of them
runs and the others stay in their initial states, so its states are the sum of theirs, not the product.

### Bounds and why they are enough

* Fifo: three slots and groups up to three elements wrap the ring in every position and fill it
  exactly. Two elements tell order apart. The theorems cover every size.
* CanAck: two nodes make "full", "first of two", "last of two" and the shift; three timers leave
  one to another module. A third node adds no new position: an entry is before, at or after the
  removed one, and stale entries already occur with two. `NotTorn` ends the exploration of `ack_table` behind a
  strike that does damage, where the properties say nothing.
* Can: one message, one mailbox and two slots make every queue full, empty and in between; the event
  queue has two places, and `OtherMax` = 2 events of other modules can fill it. `FaultMax` = 1 is one
  unanswered bus error at a time. The invariants are also proved for every size.
* SoftTimer: a counter of 10 values with a minimum interval of 3 rolls over within a run;
  durations 2 (refused), 3 (the minimum) and 5 give timers on both sides of the rollover. Three
  timers make an inner link. `Horizon` = 19 ends `timer_first` with the
  second era, so the one rollover is met by timers of every duration, and `timer_later` ends after the third rollover.
  `ExpiryValues` leaves some counter values out of `timer_first` to keep it small; the theorems cover all of them.
* ConsolePower: `Presses` = 2 pending at a time shows overtaking requests; more only repeats.
  `Retries` = 2 for 5 has a first and a last failure. `BpsFaults` = 1, since the first locks the
  board. `EventSlots` has the value of the code, and the queue stays below it. Deadlock is not
  checked because `prv_bps_fault` really ends in an endless loop.

* DriveTrain: `BusSize` = 2 messages each way; `DriveRetries` = 2 for 5 has a first and a last
  failure; presses one after the other, any number of them. `NotCrossed` stops where nothing more is
  claimed (see above). `PrechargeInTime` lets the four seconds of the precharge timer end only when no
  message to the mci is under way and no request waits: both take milliseconds. `StrikePoints` is
  empty here, the mci is checked against its interrupts in `components`.
* MciDrive alone: interrupts at all points, any messages at any time.
* BmsRelays: `BmsTimers` = 4 are the three that can run besides one of the sequence, so that a start may
  fail; one fault source besides those of the relays and of the current. `NotDisturbed` stops where nothing is
  claimed; the theorems have the way back from there.
* Lights: three ids are one more than can run at once with one strike.
* BootConfig: two sections make a page that is full after the second commit; two losses of power break off
  a repair as well; two board ids tell an old from a new configuration.
* CanDatagram: three commands, the first for another board, so that what it leaves meets two for this one;
  `AnswerLen` = 40 bytes are more than the 32 of one round of `prv_tx_buffer`; frames and answer end off the frame boundary.
* Charger: three timers are the poll, the messages and a second one of these; two waiting events.
* SolarRelay: `CurrentChecks` = 2 for its limit; two cycles unhandled, two assertions at a time.
  `components` does not check for deadlock because the client of the datagrams comes to the end of its
  script.

### Fairness

* `Can`: the main loop gets its turn between interrupts however often they come (strong fairness
  of its steps); events of the queue are taken in order, so each queued kind is taken eventually
  (strong fairness per kind); pending interrupts and timers are served, and a transmission
  ends while the bus is up. New transmissions and messages are not forced.
* `CanAck`: the main loop finishes its call; a timer that has matched stays pending until served
  (strong fairness of the expiry, since the main loop masks it again and again).
* `ConsolePower`: the main loop runs and timers expire (weak fairness). Boards need not answer,
  nobody needs to press.
* `DriveTrain`: the console's main loop runs, its two timers expire, a handler of the mci comes to its end
  and a message is not under way for ever (it is handled or lost). Nothing makes the mci take one.
* All others: safety only.

## 4. Findings

Each is a violation run with its quotation in `PROJECT.json`.

1. `fifo_events`: raising events from several interrupts can overfill a queue and make it lose its
   order (`fifo.c:28`).
2. `ack_preempt`: when a timeout arrives while the callback of the last ACK is rejecting it, the timeout
   takes the request for complete and returns (`can_ack.c:96-98`, with a TODO that asks whether this gets
   cleaned up); the rejection then makes it incomplete again (line 105), and it stays listed with no timer.
3. `timer_later`: after the first rollover a timer can be missed (`soft_timer.c:232`).
4. `console_fault`: after a fault in a transition out of aux or main the power FSM and its
   `current_state` disagree, and the car cannot be turned off by the button (`power_fsm.c:47`).
5. `config_power_loss`: when the power is lost while the second page is mirrored, the next boot writes the
   defaults there and takes them for the newer configuration (`config.c:98`).

## 5. Proofs

* **`PairIsSafe`, `TestsAlwaysStayValid`** (`Fifo_proofs`): with one producing and one consuming context, for every
  capacity, element set, group set and priority, `TypeOK`, `WithinCapacity`, `RingConsistent` and
  `TestsStayValid` always hold.
  The inductive invariant `IInv` adds `OpsByRole`: a push in progress belongs to the producer, a
  pop to the consumer. It is needed because `TestsStayValid` is inductive only if the other
  context can merely make room (for a push) or add elements (for a pop). Lemmas on `Ahead` and
  `Distance`, the modular arithmetic of the pointers, carry `RingConsistent`.
* **`PairImplementsQueue`**: under the same hypotheses the fifo implements `BoundedQueue`. Each
  commit maps to the abstract operation on `Contents`, each test to a stutter.
* **`RxEventsAlwaysCovered`** (`Can_proofs`): for every queue size, mailbox set and event load,
  `TypeOK` and `RxEventsCovered`. The strengthening `Base` adds the bound on events by their
  sources and that a message handed to the controller is still at the head of its fifo.
* **`TxBacklogAlwaysCovered`**: `TxBacklogCovered` under the same generality, also where other events fill
  the queue. The strengthening `Covered` adds that a transmit in progress has its event queued, and
  that a handed-over message leads to another look, each unless `missed`.
* **`AlwaysOneSequence`, `RequestsAlwaysInStep`, `StepsAlwaysConfirmed`** (`ConsolePower_proofs`): for every
  number of retries, presses and battery faults, `OneSequence`, `RequestsInStep` and `StepsConfirmed`.
  None of the three is inductive: what the next round of the main loop does is decided by the event at the
  head of the queue. `IInv` therefore says that a board which has not locked up is in one of the *phases*
  (`InPhase`): no sequence under way (`Resting`), the power FSM in its fault state (`Faulting`), the event that
  starts a sequence queued (`Beginning`), one of those of the k-th step of a power-on sequence (`Asking`,
  `Moving`, `Failing`, at the end `Finished` or `Failed`), or one of the off sequence (`OffPhase`). A phase fixes
  which control events the queue may hold and in which order, which single request is outstanding, and
  which answers have been given; events of the buttons and of CAN are `Noise` between them. In the fault
  state the order matters: what may start a sequence comes behind the CLEAR_FAULT. One lemma per
  handler and phase shows where it leads. A battery protection fault fits no phase: it locks the board up, and
  `Calmer` says that the sequences only fall back by it. TLC checked `IInv` on the instance of `console_power`
  before it was proved.
* **`DestinationAlwaysInRange`** (`DriveTrain_proofs`): for every size of the bus, number of retries and order of presses,
  late answers included, `DestinationInRange`. With the types of both boards (`TrainTyped`) it is inductive: the
  states in which the destination may be what a fault leaves are left only with a new one.
* **`DriveAlwaysMeansDriving`, `TrainAlwaysTyped`**: `DriveMeansDriving` and `TrainTypeOK`, with no hypothesis on when
  answers come and buttons are pressed. `TrainInv` says what holds until they cross (`crossed`), and that the types
  hold after that too. It has on
  the console's side what each fault may leave behind (`OrphanHarmless`: the request of a command given up
  brings the FSM to no other command before it ends; `OutcomeFirst`: the outcome of a command is acted on
  before another one is sent), and between the boards `OneCommand` (a single command or its
  answer is under way, for the request in the table) and `AnswersTrue` (an answer OK tells the output the mci has).
* **`CommandAlwaysFollows`** (`DriveTrain_proofs`): for every bus size and every set of strike points,
  `CommandFollowsFsm`. The property speaks of the moments between handlers; `MciInv` says for each point
  inside one how state, output and cruise flag relate to the state the handler is on its way to. It holds
  although the brake interrupt toggles cruise in the middle, because its toggle then meets a state without
  that transition or is overwritten by the assignments that follow.
* **`ChargedAlwaysMeansBothPins`**: for every set of strike points, `ChargedMeansBothPins`. Without a stray edge
  `PrechargeInv` ties the count of edges to the pins: none is counted while the control pin is low or being
  lowered, a count of one has a pin up, and an edge comes from a pin that was down.
* **`PoweredAlwaysPlugged`** (`Boards_proofs`): for every number of timers and events,
  `PoweredWhilePlugged`. The strengthening says that the event of a stop stays in the queue until the power
  is off.
* **`StoppedAlwaysSilent`**: likewise `ChargerSilent`. `SilentInv` says that the only timer of the messages is
  the one whose id is kept, and that a stop under way has read that id, with the two exceptions the property
  names.
* **`FaultyArrayAlwaysOpen`**: for every bound on cycles and assertions,
  `FaultyArrayIsOpen`. `SolarInv` follows the fault from the last cycle handled: it has left orders to open
  and nothing else, until the relay is open or a command has closed it.
* **`LampsAlwaysFollowSignal`, `AlwaysOneBlinker`**: `LampsFollowSignal` and `OneBlinker` for every order of inputs,
  messages and callbacks. `LightsInv` tells apart the blinker at rest and each point of a stop under way; there
  the timer that may still run is the one whose id is kept or has been read.
* **`ListAlwaysMatchesPool`** (`CanAck_proofs`): for every capacity and all timers, messages, devices and
  requests, and wherever the interrupt may strike, `ListMatchesPool`. The proof follows the table to the first
  strike that does damage: `AckInv` holds until `torn`, and each step that does not set it keeps it.
  `Lists(act, cnt, U)` says that the first `cnt` entries list the nodes of U, each once,
  and the rest are NULL; `ListPhase` says for each step of a removal which U and which count hold then.
  The lemmas show that appending and the memmove keep `Lists`, the first by counting: a list that lacks a
  node has room for it, so `active_requests` never overflows.
* **`RequestsAlwaysWatched`, `RequestsReportOnce`, `ReportedRequestsLeave`, `OthersAlwaysUntouched`**:
  likewise the other safety properties of `ack_table`, for every instance. `RequestInv` adds to
  `AckInv` which nodes have a timer of their own, lack an ACK and have reported nothing, each with the one
  node as exception that the main loop has in its hands (`Unwatched`, `Complete`, `Reported`). A timer that
  expires then belongs to a listed request that lacks an ACK, which is why the search of the timeout finds
  one and its report is the first.
* **`FaultAlwaysOpensRelays`** (`BmsRelays_proofs`): for every number of timers (too few of them included)
  and every set of fault sources, whatever faults and commands come, `FaultOpensRelays`. As long as the sequences
  are not `disturbed`, and again once a command has opened relays with no timer left over, the argument
  is `NextIsKept`: the timer that takes the next step of a sequence is the one whose id is kept, so it is
  the one that a fault cancels, whatever else it cancels.
* **`ConfirmedAlwaysMeansClosed`, `AlwaysSensedOrFaulted`**: under the same generality and with `BmsTimers` > 3,
  `ConfirmedMeansClosed` and `SensedOrFaulted`. Beside one step of a sequence and the two measurements an
  assertion then always finds a timer; the code has 30. `SenseInv` says which
  timers run together and in which order they end, that a pin away from what is expected has not moved its
  contact yet, and that without a fault or an assertion to come pins, contacts and expectation agree (`Calm`);
  while the second relay is being closed (`closing`), `Calm` waits for the assertion.
* **`NeverTwoValidSections`** (`Boards_proofs`): for every number of sections and of losses of power,
  `OneValidSection`. A page is always invalid sections, then at most one that may be valid, then erased ones
  (`Shaped`); `Synced` ties the storage in RAM to it, and `Progress` says what holds before each of the four
  writes of a commit, since the power may be lost there.
* **`ConfigAlwaysSurvives`, `AlwaysSomePageWhole`**: `ConfigSurvives` and `SomePageWhole` under the same generality.
  `Empty` and `Holds` say what a page holds, whatever section it is in; `DataInv` says for each stage of a boot
  (`BootData`) and of a commit (`CommitData`) what both pages and both blobs in RAM are. At every loss of power
  the second page holds a known config, or the first one does and the second is torn (`Either`), unless the
  second page is just then without a section; that exception is finding 5. Two configs that are not corrupted
  and have one checksum are the same (the checksum stands for what it is computed over).
* **`ReceptionAlwaysWatched`** (`Boards_proofs`): for every script of commands, lossy or not, `ReceptionWatched`.
  `WatchInv` needs that at most one of the waiting events drives the FSM
  (`OneDriving`), and none while a start would be accepted; so the event of a start is followed by no other,
  and the watchdog started with it runs until its error is in the queue.
* **`DispatchedAlwaysSent`** (`Boards_proofs`): under the same generality, `DispatchedWasSent`. That nothing is
  dispatched twice follows the first byte of each command: `BytesInv` says that it is on the bus, in the fifo
  or taken by a reception, and in one of them only, because nothing puts a byte back.
  That what is dispatched is whole rests on the CRC, which the model takes for a comparison of all bytes. Without
  `stray` an rx event belongs to the reception it was raised for: `FlowInv` says that the waiting event
  that drives the FSM is one of the side the FSM is on, `ReadInv` how much has been read in each field and that from
  the address on it is for this board, `HandledInv` that what is dispatched next was not dispatched before.
* **`AnswerAlwaysWhole`**: for every script of commands and every `AnswerLen`, `AnswerWhole`. It is not inductive,
  as bytes are handed over a frame at a time and fields come in rounds: `AnswerInv` says that for an answer
  without residue what was transmitted plus the fifo is the answer up to the field written last (`Clean`), that the
  fifo holds less than a frame between events, and that one event is waiting, the one that goes on. `SentInv` gives
  the rest: the board does not listen while it answers, so no frame of another command gets into the fifo.

* **`ListAlwaysLinksRunning`** (`SoftTimer_proofs`): for every number of timers, width of the counter, set of
  durations and latency, and all interleavings, `ListLinksRunning`. An induction over the list
  is out of reach, so the proofs describe it by the sequence of its timers: `Linked(l, R, s, n)` says that l links
  the n timers of R in the order of s, both ways. `WalkFollows` shows that following the links (a recursive
  function) gives s, by the least position where it would not; `SpliceIn` and `SpliceOut` that the assignments of
  soft_timer_start and prv_remove_timer give the longer and the shorter sequence; `RemovedFree` that the cancel
  of a timer that has ended changes no link, because the pool has cleared its links. `ListInv` says that the
  timers in neither the pool nor the hands of a start are linked this way, in the order of their expiries.
* **`ListAlwaysInOrder`, `CallbacksNeverEarly`**: `ListInOrder` and the action property `NeverEarly`, over any number
  of rollovers and all interleavings. `TimeInv` adds that `rollover`, the rollover that is pending and the
  counter make up the time, and that a pending rollover has been served before the counter can turn again
  (`Latency` < `Modulus`); with `Exact`, that the expiry of a running timer, era and counter value, is its
  deadline unless the timer is misdated, the order of the expiries is that of the deadlines.
* **`TimersAlwaysOnTime`**: `OnTime` under the same generality. `DueInv` follows the compare register instead of
  the timers, while it is not astray: as long as it has not matched (`Awaited`), it is enabled and holds a value
  that the counter reaches within a minimum interval of the time of the head (`Soon`) or just after the rollover
  that ends the head's era (`Rolls`); once it has matched (`Served`), the head is late by no more than the latency
  used up so far (`InTime`, `AfterRollover`). `CompareNumbers` shows that the handler sets such a value, by cases
  over both rollovers of line 230-243; where it does not, the time of the head has passed and the head is of a
  later era than slot 0 or a rollover is pending, which is when `astray` is set. Starts, cancels and callbacks do
  no harm, because a register that is early enough for one head is early enough for any head behind it.

Assumptions are the named `ASSUME`s of the modules, which the runs evaluate, and the hypotheses named above.

Only model-checked:

* all liveness (`EveryRequestEnds`, `TxNeverStalls`, `TransitionEnds` with `QueueFits`, `DriveTransitionEnds`), which
  is beyond the prover.

## 6. Not modelled

* Generated code, encodings and payload layouts, register access, chip drivers and third-party code: no
  behaviour over time of their own. They are most of the repository's lines.
* `can_rx.c`: its table is filled while a board starts and does not change afterwards. `pqueue.c`: unused.
* Power distribution, pedal board, power select, steering, babydriver and the small modules of the console:
  tables from messages to outputs, and periodic measurements. The parts of them with state over time
  (blinker, light FSM, watchdog, ACKs) are modelled where they are shared.
* Within the modelled parts: payload bytes, CAN filters and bit timing, logging, the x86 simulation of the
  hardware, initialisation, and what the status of each component in `PROJECT.json` names.

## 7. What could follow

The modules were written in the order of importance: the concurrent core, power, drive, relays, then the
others. What would add most next: `Can` composed with `CanAck` in place of the lossy send of
`ConsoleDrive`; an abstract timer service (each started timer fires once at its time unless cancelled) that
`SoftTimer` implements and whose users are checked against it; a request table (pending requests as a set,
each with one outcome) for `CanAck`; and, were line 232 of `soft_timer.c` changed to use the current rollover
count, `Punctual` for it.
