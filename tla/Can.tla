--------------------------------- MODULE Can ---------------------------------
(***************************************************************************)
(* The CAN network layer: libraries/ms-common/src/can.c and can_fsm.c over *)
(* the interrupt handler of stm32f0xx/can_hw.c.                            *)
(*                                                                         *)
(* Messages to send wait in tx_fifo, received ones in rx_fifo; each is     *)
(* announced to the main loop by an event, and the main loop moves one     *)
(* message per event.  Three contexts touch this state: the main loop, the *)
(* timer interrupt (transmits from timer callbacks) and the CAN interrupt, *)
(* which preempts both.  The interrupts' own work is one step; the main    *)
(* loop's and the timer's calls are broken where an interrupt can strike.  *)
(*                                                                         *)
(* The event queue is kept as the number of queued events of each kind:    *)
(* the CAN layer treats an event by its kind alone, and fairness per kind  *)
(* stands for the queue's order.  Its capacity is kept.  The fifos are     *)
(* used as the bounded queues that Fifo.tla relates to fifo.c.             *)
(***************************************************************************)
EXTENDS Integers, Sequences, FiniteSets

CONSTANTS TxMsgs,       \* messages the application transmits
          Reply,        \* the ACK sent for a critical message, one of TxMsgs
          RxKinds,      \* kinds of received messages
          EvSize,       \* EVENT_QUEUE_SIZE
          FifoSize,     \* CAN_FIFO_SIZE
          Mailboxes,    \* transmit mailboxes of the controller
          HwRxSize,     \* depth of the controller's receive fifo
          OtherMax,     \* bound: events of other modules queued at a time
          FaultMax      \* bound: bus errors not yet answered by the main loop

ASSUME CanAssumption ==
  /\ Reply \in TxMsgs /\ "none" \notin TxMsgs
  /\ EvSize \in Nat \ {0} /\ FifoSize \in Nat \ {0} /\ HwRxSize \in Nat
  /\ OtherMax \in Nat /\ FaultMax \in Nat
  /\ Mailboxes # {}

NoMsg == "none"       \* an empty mailbox, no transmit in progress

EventKinds == {"tx", "rx", "fault", "other"}
Senders == {"main", "timer"}

VARIABLES
  events,       \* queued events of each kind
  tx_fifo, rx_fifo,
  main,         \* the event the main loop is handling, or its point inside prv_handle_tx/rx
  sending,      \* per context, the message between event_raise and can_fifo_push
  mailbox,      \* message in each hardware mailbox
  tme, err,     \* pending interrupt flags: mailbox emptied, bus error
  hw_rx,        \* the controller's receive fifo; its interrupt is pending while not empty
  bus_off,      \* the controller is off the bus
  recoveries,   \* running bus-off recovery timers
  missed        \* history: since the last TX event that was queued, the flag of a finished
                \* transmission was cleared unserved, or a TX event found the queue full of others

software == <<events, tx_fifo, rx_fifo, main, sending>>
hardware == <<mailbox, tme, err, hw_rx, bus_off>>
vars == <<software, hardware, recoveries, missed>>

Init ==
  /\ events = [k \in EventKinds |-> 0]
  /\ tx_fifo = << >> /\ rx_fifo = << >>
  /\ main = "idle"
  /\ sending = [c \in Senders |-> NoMsg]
  /\ mailbox = [b \in Mailboxes |-> NoMsg]
  /\ tme = FALSE /\ err = FALSE
  /\ hw_rx = << >>
  /\ bus_off = FALSE
  /\ recoveries = 0
  /\ missed = FALSE

Queued == events["tx"] + events["rx"] + events["fault"] + events["other"]

\* event_raise at the default priority: an event is lost when the queue is full.
Raised(k) == IF Queued < EvSize THEN [events EXCEPT ![k] = @ + 1] ELSE events

\* What counts as missed once a TX event was raised.
MissedAfterTx == Queued = EvSize /\ (missed \/ events["tx"] = 0)

Put(fifo, m) == IF Len(fifo) < FifoSize THEN Append(fifo, m) ELSE fifo

Busy == {b \in Mailboxes : mailbox[b] # NoMsg}

\* The main loop goes on only when no timer callback is in the middle of a transmit.
MainRuns == sending["timer"] = NoMsg

-----------------------------------------------------------------------------
(* can_transmit: raise the TX event, whatever comes of it, then push.       *)

\* Mutant: the event is raised only while nothing waits in the event queue.
can_transmit_rarely_raises(c, m) ==
  /\ sending[c] = NoMsg
  /\ sending' = [sending EXCEPT ![c] = m]
  /\ events' = IF Queued = 0 THEN Raised("tx") ELSE events
  /\ missed' = MissedAfterTx

can_transmit(c, m) ==
  /\ sending[c] = NoMsg
  /\ sending' = [sending EXCEPT ![c] = m]
  /\ events' = Raised("tx")
  /\ missed' = MissedAfterTx

TransmitFromMain ==
  /\ MainRuns /\ main = "idle"
  /\ \E m \in TxMsgs : can_transmit("main", m)
  /\ UNCHANGED <<tx_fifo, rx_fifo, main, hardware, recoveries>>

TransmitFromTimer ==
  /\ \E m \in TxMsgs : can_transmit("timer", m)
  /\ UNCHANGED <<tx_fifo, rx_fifo, main, hardware, recoveries>>

PushTx(c) ==
  /\ c = "main" => MainRuns
  /\ sending[c] # NoMsg
  /\ tx_fifo' = Put(tx_fifo, sending[c])
  /\ sending' = [sending EXCEPT ![c] = NoMsg]
  /\ UNCHANGED <<events, rx_fifo, main, hardware, recoveries, missed>>

-----------------------------------------------------------------------------
(* Main loop                                                                *)

\* event_process and the dispatch of the event by can_process_event's state machine.
TakeEvent(k) ==
  /\ MainRuns /\ main = "idle" /\ sending["main"] = NoMsg
  /\ events[k] > 0
  /\ events' = [events EXCEPT ![k] = @ - 1]
  /\ main' = IF k \in {"tx", "rx"} THEN k ELSE "idle"
  /\ UNCHANGED <<tx_fifo, rx_fifo, sending, hardware, recoveries, missed>>

\* Bootloader messages, ACKs and data without a handler or not critical end here; critical data
\* is answered.
prv_handle_rx ==
  /\ MainRuns /\ main = "rx"
  /\ IF rx_fifo = << >>
     THEN main' = "idle" /\ UNCHANGED rx_fifo
     ELSE /\ main' = IF Head(rx_fifo) = "critical" THEN "reply" ELSE "idle"
          /\ rx_fifo' = Tail(rx_fifo)
  /\ UNCHANGED <<events, tx_fifo, sending, hardware, recoveries, missed>>

prv_handle_data_msg ==
  /\ MainRuns /\ main = "reply"
  /\ can_transmit("main", Reply)
  /\ main' = "idle"
  /\ UNCHANGED <<tx_fifo, rx_fifo, hardware, recoveries>>

\* Peek and hand over; without a free mailbox the message stays and the event is used up.
prv_handle_tx ==
  /\ MainRuns /\ main = "tx"
  /\ IF tx_fifo = << >> \/ Busy = Mailboxes
     THEN main' = "idle" /\ UNCHANGED mailbox
     ELSE /\ \E b \in Mailboxes \ Busy : mailbox' = [mailbox EXCEPT ![b] = Head(tx_fifo)]
          /\ main' = "handed over"
  /\ UNCHANGED <<events, tx_fifo, rx_fifo, sending, tme, err, hw_rx, bus_off, recoveries, missed>>

PopTx ==
  /\ MainRuns /\ main = "handed over"
  /\ tx_fifo' = Tail(tx_fifo)
  /\ main' = "idle"
  /\ UNCHANGED <<events, rx_fifo, sending, hardware, recoveries, missed>>

RaiseOther ==
  /\ events["other"] < OtherMax
  /\ events' = Raised("other")
  /\ UNCHANGED <<tx_fifo, rx_fifo, main, sending, hardware, recoveries, missed>>

-----------------------------------------------------------------------------
(* The controller and the bus (external)                                    *)

TxComplete(b) ==
  /\ ~bus_off
  /\ mailbox[b] # NoMsg
  /\ mailbox' = [mailbox EXCEPT ![b] = NoMsg]
  /\ tme' = TRUE
  /\ UNCHANGED <<software, err, hw_rx, bus_off, recoveries, missed>>

MessageArrives ==
  /\ ~bus_off
  /\ Len(hw_rx) < HwRxSize
  /\ \E k \in RxKinds : hw_rx' = Append(hw_rx, k)
  /\ UNCHANGED <<software, mailbox, tme, err, bus_off, recoveries, missed>>

BusGoesOff ==
  /\ ~bus_off /\ ~err
  /\ recoveries + events["fault"] < FaultMax
  /\ bus_off' = TRUE /\ err' = TRUE
  /\ UNCHANGED <<software, mailbox, tme, hw_rx, recoveries, missed>>

BusRecovers ==
  /\ bus_off
  /\ bus_off' = FALSE
  /\ UNCHANGED <<software, mailbox, tme, err, hw_rx, recoveries, missed>>

-----------------------------------------------------------------------------
(* CEC_CAN_IRQHandler: the first pending event of TX ready, message         *)
(* received, bus error is served, then the TX and error flags are cleared.  *)

\* The flag of a transmission that completes between the test of the flags and their clearing
\* is cleared with the others.
ClearFlags(before) ==
  /\ tme' = FALSE /\ err' = FALSE
  /\ \/ mailbox' = mailbox /\ missed' = before
     \/ /\ \E b \in Busy : mailbox' = [mailbox EXCEPT ![b] = NoMsg]
        /\ missed' = TRUE

\* Mutant: a TX ready interrupt is taken to mean that everything was sent.
prv_tx_handler_silent ==
  /\ tme
  /\ ClearFlags(missed)
  /\ UNCHANGED <<software, hw_rx, bus_off, recoveries>>

prv_tx_handler ==
  /\ tme
  /\ IF tx_fifo = << >> THEN ClearFlags(missed) /\ UNCHANGED events
                       ELSE ClearFlags(MissedAfterTx) /\ events' = Raised("tx")
  /\ UNCHANGED <<tx_fifo, rx_fifo, main, sending, hw_rx, bus_off, recoveries>>

\* Mutant: the event is raised whether or not the push succeeded.
prv_rx_handler_raises_first ==
  /\ ~tme /\ hw_rx # << >>
  /\ hw_rx' = Tail(hw_rx)
  /\ IF Head(hw_rx) = "extended" THEN UNCHANGED <<rx_fifo, events>>
     ELSE rx_fifo' = Put(rx_fifo, Head(hw_rx)) /\ events' = Raised("rx")
  /\ ClearFlags(missed)
  /\ UNCHANGED <<tx_fifo, main, sending, bus_off, recoveries>>

\* One round of prv_rx_handler's loop; what is left in hw_rx keeps the interrupt pending.
prv_rx_handler ==
  /\ ~tme /\ hw_rx # << >>
  /\ hw_rx' = Tail(hw_rx)
  /\ IF Head(hw_rx) = "extended" \/ Len(rx_fifo) >= FifoSize
     THEN UNCHANGED <<rx_fifo, events>>
     ELSE /\ rx_fifo' = Append(rx_fifo, Head(hw_rx))
          /\ events' = Raised("rx")
  /\ ClearFlags(missed)
  /\ UNCHANGED <<tx_fifo, main, sending, bus_off, recoveries>>

prv_bus_error_handler ==
  /\ ~tme /\ hw_rx = << >> /\ err
  /\ recoveries' = recoveries + 1
  /\ ClearFlags(missed)
  /\ UNCHANGED <<software, hw_rx, bus_off>>

prv_bus_error_timeout_handler ==
  /\ MainRuns /\ recoveries > 0
  /\ recoveries' = recoveries - 1
  /\ events' = IF bus_off THEN Raised("fault") ELSE events
  /\ UNCHANGED <<tx_fifo, rx_fifo, main, sending, hardware, missed>>

-----------------------------------------------------------------------------

MainLoop ==
  \/ prv_handle_rx \/ prv_handle_data_msg \/ prv_handle_tx \/ PopTx
  \/ PushTx("main")

CanInterrupt == prv_tx_handler \/ prv_rx_handler \/ prv_bus_error_handler

Next ==
  \/ TransmitFromMain \/ TransmitFromTimer \/ PushTx("timer")
  \/ MainLoop
  \/ \E k \in EventKinds : TakeEvent(k)
  \/ RaiseOther
  \/ \E b \in Mailboxes : TxComplete(b)
  \/ MessageArrives \/ BusGoesOff \/ BusRecovers
  \/ CanInterrupt \/ prv_bus_error_timeout_handler

\* The main loop gets its turn between interrupts, calls in progress go on, every queued event is
\* eventually taken, pending interrupts and timers are served, and a transmission ends while the
\* bus is up.
Fairness ==
  /\ SF_vars(MainLoop) /\ WF_vars(PushTx("timer"))
  /\ \A k \in EventKinds : SF_vars(TakeEvent(k))
  /\ WF_vars(prv_tx_handler) /\ SF_vars(prv_rx_handler) /\ SF_vars(prv_bus_error_handler)
  /\ SF_vars(prv_bus_error_timeout_handler)
  /\ \A b \in Mailboxes : SF_vars(TxComplete(b))

Spec == Init /\ [][Next]_vars /\ Fairness

-----------------------------------------------------------------------------
(* Properties *)

TypeOK ==
  /\ events \in [EventKinds -> 0 .. EvSize] /\ Queued =< EvSize
  /\ tx_fifo \in Seq(TxMsgs) /\ Len(tx_fifo) =< FifoSize
  /\ rx_fifo \in Seq(RxKinds) /\ Len(rx_fifo) =< FifoSize
  /\ main \in {"idle", "tx", "rx", "reply", "handed over"}
  /\ sending \in [Senders -> TxMsgs \cup {NoMsg}]
  /\ mailbox \in [Mailboxes -> TxMsgs \cup {NoMsg}]
  /\ tme \in BOOLEAN /\ err \in BOOLEAN /\ bus_off \in BOOLEAN
  /\ hw_rx \in Seq(RxKinds)
  /\ recoveries \in 0 .. FaultMax /\ missed \in BOOLEAN

\* Every RX event, queued or being handled, has a message of its own in rx_fifo, so the handler
\* never finds the fifo empty and never runs ahead of the announcements (can_fsm.c:47-56).
RxEventsCovered == events["rx"] + (IF main = "rx" THEN 1 ELSE 0) =< Len(rx_fifo)

\* While messages wait in tx_fifo something is under way that makes the main loop look at them:
\* a TX event, a transmission that ends in a TX ready interrupt, or that interrupt
\* (can.c:37-38, 137-142, 153-166).  Two things alone leave them without: a completion whose
\* flag is cleared unserved, and an event queue full of other events, whose refusal nobody looks
\* at; both only until the next TX event is queued.
TxBacklogCovered ==
  tx_fifo # << >> => events["tx"] > 0 \/ main \in {"tx", "handed over"} \/ Busy # {} \/ tme
    \/ missed

\* A message in tx_fifo does not wait for ever beside an idle controller, unless a completion or
\* its event was lost in one of these two ways and nothing was transmitted since.
TxNeverStalls == []<>(tx_fifo = << >> \/ Busy # {} \/ missed)
=============================================================================
