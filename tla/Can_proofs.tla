----------------------------- MODULE Can_proofs -----------------------------
(***************************************************************************)
(* For all sizes of the queues and any number of mailboxes: every RX event *)
(* announces a message of its own; and no message to send is left without  *)
(* something that makes the main loop look at it, except by a completion   *)
(* whose flag is cleared unserved or by a TX event refused because others  *)
(* fill the queue, and then only until the next TX event is queued.        *)
(***************************************************************************)
EXTENDS Can, TLAPS, SequenceTheorems

One(b) == IF b THEN 1 ELSE 0

\* The event queue respects its capacity, and the events of other modules and of bus errors
\* are bounded by their sources.
Counts ==
  /\ events \in [EventKinds -> Nat] /\ Queued =< EvSize
  /\ recoveries \in Nat /\ err \in BOOLEAN
  /\ events["other"] =< OtherMax
  /\ events["fault"] + recoveries + One(err) =< FaultMax

Fifos ==
  /\ tx_fifo \in Seq(TxMsgs) /\ Len(tx_fifo) =< FifoSize
  /\ rx_fifo \in Seq(RxKinds) /\ Len(rx_fifo) =< FifoSize

Places ==
  /\ main \in {"idle", "tx", "rx", "reply", "handed over"}
  /\ sending \in [Senders -> TxMsgs \cup {NoMsg}]
  /\ mailbox \in [Mailboxes -> TxMsgs \cup {NoMsg}]
  /\ tme \in BOOLEAN /\ bus_off \in BOOLEAN
  /\ hw_rx \in Seq(RxKinds)

HandedOverIsQueued == main = "handed over" => tx_fifo # << >>

\* The inductive invariant behind RxEventsCovered.
Base == Counts /\ Fifos /\ Places /\ RxEventsCovered /\ HandedOverIsQueued

\* A transmit in progress has its event in the queue, unless it was refused.
SendingAnnounced == \A c \in Senders : sending[c] # NoMsg => events["tx"] > 0 \/ missed

\* A message the controller has taken and that is still queued leads to another look at the queue.
HandOverCovered == main = "handed over" => events["tx"] > 0 \/ Busy # {} \/ tme \/ missed

\* The strengthening behind TxBacklogCovered.
Covered == SendingAnnounced /\ HandOverCovered /\ TxBacklogCovered

-----------------------------------------------------------------------------
(* Events                                                                   *)

Sum(e) == e["tx"] + e["rx"] + e["fault"] + e["other"]

\* The four kinds have natural counts.
LEMMA KindFacts ==
  ASSUME NEW e \in [EventKinds -> Nat]
  PROVE  e["tx"] \in Nat /\ e["rx"] \in Nat /\ e["fault"] \in Nat /\ e["other"] \in Nat
BY DEF EventKinds

\* Raising an event changes the count of its kind only, by one or not at all.
LEMMA RaisedFacts ==
  ASSUME events \in [EventKinds -> Nat], Queued =< EvSize, NEW k \in EventKinds
  PROVE  /\ Raised(k) \in [EventKinds -> Nat] /\ Sum(Raised(k)) =< EvSize
         /\ \A j \in EventKinds \ {k} : Raised(k)[j] = events[j]
         /\ Raised(k)[k] \in {events[k], events[k] + 1}
         /\ Queued < EvSize => Raised(k)[k] = events[k] + 1
<1>1. CASE Queued < EvSize
  <2>1. Raised(k) = [events EXCEPT ![k] = @ + 1]  BY <1>1 DEF Raised
  <2>2. CASE k = "tx"  BY <1>1, <2>1, <2>2, CanAssumption DEF Queued, Sum, EventKinds
  <2>3. CASE k = "rx"  BY <1>1, <2>1, <2>3, CanAssumption DEF Queued, Sum, EventKinds
  <2>4. CASE k = "fault"  BY <1>1, <2>1, <2>4, CanAssumption DEF Queued, Sum, EventKinds
  <2>5. CASE k = "other"  BY <1>1, <2>1, <2>5, CanAssumption DEF Queued, Sum, EventKinds
  <2> QED  BY <2>2, <2>3, <2>4, <2>5 DEF EventKinds
<1>2. CASE ~(Queued < EvSize)
  <2>1. Raised(k) = events  BY <1>2 DEF Raised
  <2>2. Sum(Raised(k)) =< EvSize  BY <2>1 DEF Queued, Sum
  <2> QED  BY <1>2, <2>1, <2>2
<1> QED  BY <1>1, <1>2

\* After a TX event was raised there is one in the queue, or it counts as missed.
LEMMA RaisedTx ==
  ASSUME Base, events' = Raised("tx"), missed' = MissedAfterTx \/ missed' = TRUE
  PROVE  events'["tx"] > 0 \/ missed'
<1>1. /\ events \in [EventKinds -> Nat] /\ Queued =< EvSize /\ "tx" \in EventKinds
      /\ events["tx"] \in Nat /\ events["rx"] \in Nat /\ events["fault"] \in Nat
      /\ events["other"] \in Nat
  BY KindFacts DEF Base, Counts, EventKinds
<1>2. CASE Queued < EvSize
  <2>1. Raised("tx")["tx"] = events["tx"] + 1  BY <1>1, <1>2, RaisedFacts
  <2>2. events'["tx"] > 0  BY <1>1, <2>1
  <2> QED  BY <2>2
<1>3. CASE ~(Queued < EvSize)
  <2>0. Queued \in Nat /\ EvSize \in Nat
    BY <1>1, CanAssumption DEF Queued
  <2>1. Queued = EvSize
    BY <1>1, <1>3, <2>0
  <2>2. Raised("tx") = events  BY <1>3 DEF Raised
  <2>3. CASE events["tx"] = 0
    BY <2>1, <2>3 DEF MissedAfterTx
  <2>4. CASE events["tx"] # 0
    <3>1. events'["tx"] > 0  BY <1>1, <2>2, <2>4
    <3> QED  BY <3>1
  <2> QED  BY <2>3, <2>4
<1> QED  BY <1>2, <1>3

\* The inductive invariant contains the type invariant.
LEMMA BaseImpliesTypeOK == Base /\ missed \in BOOLEAN => TypeOK
<1> SUFFICES ASSUME Base, missed \in BOOLEAN PROVE TypeOK
  OBVIOUS
<1>1. /\ events \in [EventKinds -> Nat] /\ Queued =< EvSize
      /\ events["tx"] \in Nat /\ events["rx"] \in Nat /\ events["fault"] \in Nat
      /\ events["other"] \in Nat
  BY KindFacts DEF Base, Counts
<1>2. \A k \in EventKinds : events[k] \in 0 .. EvSize
  <2>1. events["tx"] =< EvSize /\ events["rx"] =< EvSize /\ events["fault"] =< EvSize
        /\ events["other"] =< EvSize
    BY <1>1, CanAssumption DEF Queued
  <2> QED  BY <1>1, <2>1, CanAssumption DEF EventKinds
<1>3. events \in [EventKinds -> 0 .. EvSize]  BY <1>1, <1>2
<1>4. recoveries \in 0 .. FaultMax
  <2>1. recoveries \in Nat /\ One(err) \in {0, 1}
        /\ events["fault"] + recoveries + One(err) =< FaultMax
    BY DEF Base, Counts, One
  <2> QED  BY <1>1, <2>1, CanAssumption
<1> QED  BY <1>1, <1>3, <1>4 DEF Base, Counts, Fifos, Places, TypeOK

-----------------------------------------------------------------------------
(* The inductive invariant                                                  *)

\* The queues start empty.
LEMMA BaseInit == Init => Base /\ Covered
<1> SUFFICES ASSUME Init PROVE Base /\ Covered
  OBVIOUS
<1>1. Counts
  <2>1. /\ events \in [EventKinds -> Nat] /\ recoveries = 0 /\ err = FALSE
        /\ events["tx"] = 0 /\ events["rx"] = 0 /\ events["fault"] = 0 /\ events["other"] = 0
    BY DEF Init, EventKinds
  <2>2. One(err) = 0  BY <2>1 DEF One
  <2>3. Queued =< EvSize  BY <2>1, CanAssumption DEF Queued
  <2>4. events["fault"] + recoveries + One(err) =< FaultMax
    BY <2>1, <2>2, CanAssumption
  <2>5. events["other"] =< OtherMax /\ recoveries \in Nat
    BY <2>1, CanAssumption
  <2>6. err \in BOOLEAN  BY <2>1
  <2> QED  BY <2>1, <2>3, <2>4, <2>5, <2>6 DEF Counts
<1>2. Fifos /\ Places
  <2>1. << >> \in Seq(TxMsgs) /\ << >> \in Seq(RxKinds) /\ Len(<< >>) = 0  BY EmptySeq
  <2>2. Fifos  BY <2>1, CanAssumption DEF Init, Fifos
  <2> QED  BY <2>1, <2>2 DEF Init, Places
<1>3. RxEventsCovered
  BY EmptySeq DEF Init, RxEventsCovered, EventKinds
<1>4. HandedOverIsQueued /\ Covered
  BY DEF Init, HandedOverIsQueued, Covered, SendingAnnounced, HandOverCovered,
         TxBacklogCovered, Senders
<1> QED  BY <1>1, <1>2, <1>3, <1>4 DEF Base

\* Raising an event keeps the queue in its bounds.
LEMMA RaisedKeepsQueue ==
  ASSUME Base, NEW k \in EventKinds, events' = Raised(k)
  PROVE  /\ events' \in [EventKinds -> Nat] /\ Queued' =< EvSize
         /\ \A j \in EventKinds \ {k} : events'[j] = events[j]
         /\ events'[k] \in {events[k], events[k] + 1}
BY RaisedFacts DEF Base, Counts, Queued, Sum

\* can_transmit keeps the counts; it raises no RX event.
LEMMA TransmitKeepsCounts ==
  ASSUME Base, NEW c \in Senders, NEW m \in TxMsgs, can_transmit(c, m),
         UNCHANGED <<recoveries, err>>
  PROVE  /\ Counts' /\ events'["rx"] = events["rx"]
         /\ sending' \in [Senders -> TxMsgs \cup {NoMsg}]
<1>1. events' = Raised("tx") /\ sending' = [sending EXCEPT ![c] = m]  BY DEF can_transmit
<1>2. /\ events' \in [EventKinds -> Nat] /\ Queued' =< EvSize
      /\ events'["rx"] = events["rx"] /\ events'["fault"] = events["fault"]
      /\ events'["other"] = events["other"]
  BY <1>1, RaisedKeepsQueue DEF EventKinds
<1> QED  BY <1>1, <1>2 DEF Base, Counts, Places, One

\* What the transmits of the main loop and of the timer leave alone.
LEMMA TransmitKeepsBase ==
  ASSUME Base, TransmitFromMain \/ TransmitFromTimer \/ prv_handle_data_msg
  PROVE  Base'
<1>1. PICK c \in Senders, m \in TxMsgs : can_transmit(c, m)
  BY CanAssumption DEF TransmitFromMain, TransmitFromTimer, prv_handle_data_msg, Senders
<1>2. /\ UNCHANGED <<tx_fifo, rx_fifo, mailbox, tme, err, hw_rx, bus_off, recoveries>>
      /\ main' = main \/ (main = "reply" /\ main' = "idle")
  <2>1. CASE TransmitFromMain  BY <2>1 DEF TransmitFromMain, hardware
  <2>2. CASE TransmitFromTimer  BY <2>2 DEF TransmitFromTimer, hardware
  <2>3. CASE prv_handle_data_msg  BY <2>3 DEF prv_handle_data_msg, hardware
  <2> QED  BY <2>1, <2>2, <2>3
<1>3. Counts' /\ events'["rx"] = events["rx"] /\ sending' \in [Senders -> TxMsgs \cup {NoMsg}]
  BY <1>1, <1>2, TransmitKeepsCounts
<1>4. Fifos' /\ Places' /\ HandedOverIsQueued'
  BY <1>2, <1>3 DEF Base, Fifos, Places, HandedOverIsQueued
<1>5. RxEventsCovered'
  BY <1>2, <1>3 DEF Base, RxEventsCovered
<1> QED  BY <1>3, <1>4, <1>5 DEF Base

\* PushTx lengthens tx_fifo by a message or leaves it.
LEMMA PushKeepsBase ==
  ASSUME Base, NEW c \in Senders, PushTx(c)
  PROVE  Base' /\ tx_fifo' # << >>
<1>1. /\ tx_fifo' = Put(tx_fifo, sending[c]) /\ sending[c] \in TxMsgs
      /\ sending' = [sending EXCEPT ![c] = NoMsg]
      /\ UNCHANGED <<events, rx_fifo, main, mailbox, tme, err, hw_rx, bus_off, recoveries>>
  BY DEF PushTx, hardware, Base, Places
<1>2. tx_fifo' \in Seq(TxMsgs) /\ Len(tx_fifo') =< FifoSize /\ tx_fifo' # << >>
  <2>1. CASE Len(tx_fifo) < FifoSize
    <3>1. tx_fifo' = Append(tx_fifo, sending[c])  BY <1>1, <2>1 DEF Put
    <3>2. Len(tx_fifo) \in Nat  BY LenProperties DEF Base, Fifos
    <3> QED  BY <1>1, <2>1, <3>1, <3>2, AppendProperties, CanAssumption DEF Base, Fifos
  <2>2. CASE ~(Len(tx_fifo) < FifoSize)
    <3>1. tx_fifo' = tx_fifo  BY <1>1, <2>2 DEF Put
    <3>2. tx_fifo # << >>  BY <2>2, EmptySeq, CanAssumption
    <3> QED  BY <3>1, <3>2 DEF Base, Fifos
  <2> QED  BY <2>1, <2>2
<1>3. Counts' /\ RxEventsCovered'
  BY <1>1 DEF Base, Counts, RxEventsCovered, Queued
<1>4. Fifos' /\ Places' /\ HandedOverIsQueued'
  BY <1>1, <1>2 DEF Base, Fifos, Places, HandedOverIsQueued
<1> QED  BY <1>2, <1>3, <1>4 DEF Base

\* The main loop's own steps.
LEMMA MainLoopKeepsBase ==
  ASSUME Base, \/ \E k \in EventKinds : TakeEvent(k)
               \/ prv_handle_rx \/ prv_handle_tx \/ PopTx
  PROVE  Base'
<1>1. CASE \E k \in EventKinds : TakeEvent(k)
  <2>1. PICK k \in EventKinds : TakeEvent(k)  BY <1>1
  <2>2. /\ main = "idle" /\ events[k] > 0 /\ events' = [events EXCEPT ![k] = @ - 1]
        /\ main' = IF k \in {"tx", "rx"} THEN k ELSE "idle"
        /\ UNCHANGED <<tx_fifo, rx_fifo, sending, mailbox, tme, err, hw_rx, bus_off, recoveries>>
    BY <2>1 DEF TakeEvent, hardware
  <2>3. /\ events["tx"] \in Nat /\ events["rx"] \in Nat /\ events["fault"] \in Nat
        /\ events["other"] \in Nat /\ events \in [EventKinds -> Nat] /\ Queued =< EvSize
    BY KindFacts DEF Base, Counts
  <2>4. events' \in [EventKinds -> Nat]
    BY <2>2, <2>3
  <2>5. /\ Queued' =< EvSize /\ events'["other"] =< events["other"]
        /\ events'["fault"] =< events["fault"]
        /\ events'["rx"] = IF k = "rx" THEN events["rx"] - 1 ELSE events["rx"]
    <3>1. CASE k = "tx"  BY <2>2, <2>3, <3>1, CanAssumption DEF Queued, EventKinds
    <3>2. CASE k = "rx"  BY <2>2, <2>3, <3>2, CanAssumption DEF Queued, EventKinds
    <3>3. CASE k = "fault"  BY <2>2, <2>3, <3>3, CanAssumption DEF Queued, EventKinds
    <3>4. CASE k = "other"  BY <2>2, <2>3, <3>4, CanAssumption DEF Queued, EventKinds
    <3> QED  BY <3>1, <3>2, <3>3, <3>4 DEF EventKinds
  <2>6. Counts'
    <3>1. /\ events'["fault"] \in Nat /\ events'["other"] \in Nat
          /\ recoveries \in Nat /\ One(err) \in {0, 1} /\ recoveries' = recoveries /\ err' = err
      BY <2>2, <2>4, KindFacts DEF Base, Counts, One
    <3>2. events'["fault"] + recoveries + One(err) =< FaultMax
      BY <3>1, <2>3, <2>5, CanAssumption DEF Base, Counts
    <3>3. events'["other"] =< OtherMax
      BY <3>1, <2>3, <2>5, CanAssumption DEF Base, Counts
    <3> QED  BY <2>2, <2>4, <2>5, <3>1, <3>2, <3>3 DEF Base, Counts
  <2>7. Fifos' /\ Places' /\ HandedOverIsQueued'
    BY <2>2 DEF Base, Fifos, Places, HandedOverIsQueued
  <2>8. RxEventsCovered'
    <3>1. events["rx"] + 0 =< Len(rx_fifo) /\ Len(rx_fifo) \in Nat
      BY <2>2, LenProperties DEF Base, RxEventsCovered, Fifos
    <3> QED  BY <2>2, <2>3, <2>5, <3>1 DEF RxEventsCovered
  <2> QED  BY <2>6, <2>7, <2>8 DEF Base
<1>2. CASE prv_handle_rx
  <2>1. /\ main = "rx" /\ main' \in {"idle", "reply"}
        /\ rx_fifo' = IF rx_fifo = << >> THEN rx_fifo ELSE Tail(rx_fifo)
        /\ UNCHANGED <<events, tx_fifo, sending, mailbox, tme, err, hw_rx, bus_off, recoveries>>
    BY <1>2 DEF prv_handle_rx, hardware
  <2>2. /\ Len(rx_fifo) \in Nat /\ Len(rx_fifo') \in Nat /\ rx_fifo' \in Seq(RxKinds)
        /\ rx_fifo # << >> => Len(rx_fifo') = Len(rx_fifo) - 1
        /\ rx_fifo = << >> => Len(rx_fifo) = 0
    BY <2>1, HeadTailProperties, LenProperties, EmptySeq DEF Base, Fifos
  <2>3. events["rx"] \in Nat /\ events["rx"] + 1 =< Len(rx_fifo)
    BY <2>1, KindFacts DEF Base, Counts, RxEventsCovered
  <2>4. rx_fifo # << >> /\ Len(rx_fifo') = Len(rx_fifo) - 1
    BY <2>2, <2>3
  <2>5. Len(rx_fifo') =< FifoSize
    BY <2>2, <2>4, CanAssumption DEF Base, Fifos
  <2>6. Counts' /\ Fifos' /\ Places' /\ HandedOverIsQueued'
    BY <2>1, <2>2, <2>5 DEF Base, Counts, Fifos, Places, HandedOverIsQueued, Queued
  <2>7. RxEventsCovered'
    BY <2>1, <2>2, <2>3, <2>4 DEF RxEventsCovered
  <2> QED  BY <2>6, <2>7 DEF Base
<1>3. CASE prv_handle_tx
  <2>1. /\ main = "tx" /\ main' \in {"idle", "handed over"}
        /\ main' = "handed over" => tx_fifo # << >>
        /\ UNCHANGED <<events, tx_fifo, rx_fifo, sending, tme, err, hw_rx, bus_off, recoveries>>
    BY <1>3 DEF prv_handle_tx
  <2>2. mailbox' \in [Mailboxes -> TxMsgs \cup {NoMsg}]
    <3>1. tx_fifo # << >> => Head(tx_fifo) \in TxMsgs
      BY HeadTailProperties DEF Base, Fifos
    <3> QED  BY <1>3, <3>1 DEF prv_handle_tx, Base, Places
  <2>3. Counts' /\ Fifos' /\ Places' /\ HandedOverIsQueued'
    BY <2>1, <2>2 DEF Base, Counts, Fifos, Places, HandedOverIsQueued, Queued
  <2>4. RxEventsCovered'
    BY <2>1 DEF Base, RxEventsCovered
  <2> QED  BY <2>3, <2>4 DEF Base
<1>4. CASE PopTx
  <2>1. /\ main = "handed over" /\ main' = "idle" /\ tx_fifo' = Tail(tx_fifo)
        /\ UNCHANGED <<events, rx_fifo, sending, mailbox, tme, err, hw_rx, bus_off, recoveries>>
    BY <1>4 DEF PopTx, hardware
  <2>2. tx_fifo' \in Seq(TxMsgs) /\ Len(tx_fifo') =< FifoSize
    <3>1. tx_fifo # << >>  BY <2>1 DEF Base, HandedOverIsQueued
    <3>2. Len(tx_fifo) \in Nat /\ Len(tx_fifo') = Len(tx_fifo) - 1 /\ tx_fifo' \in Seq(TxMsgs)
      BY <2>1, <3>1, HeadTailProperties, LenProperties DEF Base, Fifos
    <3> QED  BY <3>2, CanAssumption DEF Base, Fifos
  <2>3. Counts' /\ Fifos' /\ Places' /\ HandedOverIsQueued'
    BY <2>1, <2>2 DEF Base, Counts, Fifos, Places, HandedOverIsQueued, Queued
  <2>4. RxEventsCovered'
    BY <2>1 DEF Base, RxEventsCovered
  <2> QED  BY <2>3, <2>4 DEF Base
<1> QED  BY <1>1, <1>2, <1>3, <1>4

\* The controller changes mailboxes, its flags and its own fifo; a bus error needs room among the
\* bounded faults.
LEMMA HardwareKeepsBase ==
  ASSUME Base, \/ \E b \in Mailboxes : TxComplete(b)
               \/ MessageArrives \/ BusGoesOff \/ BusRecovers
  PROVE  Base'
<1>1. CASE \E b \in Mailboxes : TxComplete(b)
  BY <1>1 DEF TxComplete, software, Base, Counts, Fifos, Places, RxEventsCovered,
              HandedOverIsQueued, Queued
<1>2. CASE MessageArrives
  <2>1. PICK k \in RxKinds : hw_rx' = Append(hw_rx, k)  BY <1>2 DEF MessageArrives
  <2>2. hw_rx' \in Seq(RxKinds)  BY <2>1, AppendProperties DEF Base, Places
  <2> QED  BY <1>2, <2>2 DEF MessageArrives, software, Base, Counts, Fifos, Places,
                             RxEventsCovered, HandedOverIsQueued, Queued
<1>3. CASE BusGoesOff
  <2>1. /\ err = FALSE /\ err' = TRUE /\ bus_off' = TRUE
        /\ recoveries + events["fault"] < FaultMax
        /\ UNCHANGED <<events, tx_fifo, rx_fifo, main, sending, mailbox, tme, hw_rx, recoveries>>
    BY <1>3 DEF BusGoesOff, software, Base, Counts
  <2>2. events'["fault"] + recoveries' + One(err') =< FaultMax
    <3>1. events["fault"] \in Nat /\ recoveries \in Nat  BY KindFacts DEF Base, Counts
    <3>2. One(err') = 1  BY <2>1 DEF One
    <3> QED  BY <2>1, <3>1, <3>2, CanAssumption
  <2>3. Counts'  BY <2>1, <2>2 DEF Base, Counts, Queued
  <2> QED  BY <2>1, <2>3 DEF Base, Fifos, Places, RxEventsCovered, HandedOverIsQueued
<1>4. CASE BusRecovers
  BY <1>4 DEF BusRecovers, software, Base, Counts, Fifos, Places, RxEventsCovered,
              HandedOverIsQueued, Queued
<1> QED  BY <1>1, <1>2, <1>3, <1>4

\* Clearing the flags keeps the types of the mailboxes and only lowers the bound on faults.
LEMMA ClearFlagsFacts ==
  ASSUME Base, NEW before, ClearFlags(before)
  PROVE  /\ mailbox' \in [Mailboxes -> TxMsgs \cup {NoMsg}]
         /\ tme' = FALSE /\ err' = FALSE
         /\ \/ mailbox' = mailbox /\ missed' = before
            \/ missed' = TRUE
<1>1. /\ tme' = FALSE /\ err' = FALSE
      /\ \/ mailbox' = mailbox /\ missed' = before
         \/ missed' = TRUE /\ \E b \in Busy : mailbox' = [mailbox EXCEPT ![b] = NoMsg]
  BY DEF ClearFlags
<1>2. CASE mailbox' = mailbox /\ missed' = before  BY <1>1, <1>2 DEF Base, Places
<1>3. CASE missed' = TRUE /\ \E b \in Busy : mailbox' = [mailbox EXCEPT ![b] = NoMsg]
  BY <1>1, <1>3 DEF Base, Places
<1> QED  BY <1>1, <1>2, <1>3

\* The interrupts; the RX handler pushes the message before it raises the event.
LEMMA InterruptKeepsBase ==
  ASSUME Base, CanInterrupt \/ prv_bus_error_timeout_handler \/ RaiseOther
  PROVE  Base'
<1>1. /\ events["tx"] \in Nat /\ events["rx"] \in Nat /\ events["fault"] \in Nat
      /\ events["other"] \in Nat /\ events \in [EventKinds -> Nat] /\ Queued =< EvSize
      /\ recoveries \in Nat /\ One(err) \in {0, 1} /\ One(FALSE) = 0
      /\ events["fault"] + recoveries + One(err) =< FaultMax
  BY KindFacts DEF Base, Counts, One
<1>2. CASE prv_tx_handler
  <2>1. /\ events' = events \/ events' = Raised("tx")
        /\ ClearFlags(missed) \/ ClearFlags(MissedAfterTx)
        /\ UNCHANGED <<tx_fifo, rx_fifo, main, sending, hw_rx, bus_off, recoveries>>
    BY <1>2 DEF prv_tx_handler
  <2>2. /\ events' \in [EventKinds -> Nat] /\ Queued' =< EvSize
        /\ events'["rx"] = events["rx"] /\ events'["fault"] = events["fault"]
        /\ events'["other"] = events["other"]
    <3>1. CASE events' = events  BY <1>1, <3>1 DEF Queued
    <3>2. CASE events' = Raised("tx")  BY <3>2, RaisedKeepsQueue DEF EventKinds
    <3> QED  BY <2>1, <3>1, <3>2
  <2>3. Counts'
    <3>0. err' = FALSE /\ One(err') = 0  BY <2>1, ClearFlagsFacts DEF One
    <3>1. events'["fault"] + recoveries' + One(err') =< FaultMax
      BY <1>1, <2>1, <2>2, <3>0, CanAssumption
    <3> QED  BY <2>1, <2>2, <3>0, <3>1 DEF Base, Counts
  <2>4. Fifos' /\ Places' /\ RxEventsCovered' /\ HandedOverIsQueued'
    BY <2>1, <2>2, ClearFlagsFacts
       DEF Base, Fifos, Places, RxEventsCovered, HandedOverIsQueued
  <2> QED  BY <2>3, <2>4 DEF Base
<1>3. CASE prv_rx_handler
  <2>1. /\ hw_rx # << >> /\ hw_rx' = Tail(hw_rx) /\ ClearFlags(missed)
        /\ UNCHANGED <<tx_fifo, main, sending, bus_off, recoveries>>
        /\ \/ UNCHANGED <<rx_fifo, events>>
           \/ /\ Len(rx_fifo) < FifoSize
              /\ rx_fifo' = Append(rx_fifo, Head(hw_rx)) /\ events' = Raised("rx")
    <3>1. CASE Head(hw_rx) = "extended" \/ Len(rx_fifo) >= FifoSize
      BY <1>3, <3>1 DEF prv_rx_handler
    <3>2. CASE ~(Head(hw_rx) = "extended" \/ Len(rx_fifo) >= FifoSize)
      <4>1. Len(rx_fifo) \in Nat  BY LenProperties DEF Base, Fifos
      <4>2. Len(rx_fifo) < FifoSize  BY <3>2, <4>1, CanAssumption
      <4> QED  BY <1>3, <3>2, <4>2 DEF prv_rx_handler
    <3> QED  BY <3>1, <3>2
  <2>2. hw_rx' \in Seq(RxKinds) /\ Head(hw_rx) \in RxKinds
    BY <2>1, HeadTailProperties DEF Base, Places
  <2>3. /\ events' \in [EventKinds -> Nat] /\ Queued' =< EvSize
        /\ events'["fault"] = events["fault"] /\ events'["other"] = events["other"]
    <3>1. CASE events' = events  BY <1>1, <3>1 DEF Queued
    <3>2. CASE events' = Raised("rx")  BY <3>2, RaisedKeepsQueue DEF EventKinds
    <3> QED  BY <2>1, <3>1, <3>2
  <2>4. Counts'
    <3>0. err' = FALSE /\ One(err') = 0  BY <2>1, ClearFlagsFacts DEF One
    <3>1. events'["fault"] + recoveries' + One(err') =< FaultMax
      BY <1>1, <2>1, <2>3, <3>0, CanAssumption
    <3> QED  BY <2>1, <2>3, <3>0, <3>1 DEF Base, Counts
  <2>5. /\ rx_fifo' \in Seq(RxKinds) /\ Len(rx_fifo') =< FifoSize /\ RxEventsCovered'
    <3>1. CASE UNCHANGED <<rx_fifo, events>>
      BY <2>1, <3>1 DEF Base, Fifos, RxEventsCovered
    <3>2. CASE /\ Len(rx_fifo) < FifoSize
               /\ rx_fifo' = Append(rx_fifo, Head(hw_rx)) /\ events' = Raised("rx")
      <4>1. Len(rx_fifo) \in Nat  BY LenProperties DEF Base, Fifos
      <4>2. rx_fifo' \in Seq(RxKinds) /\ Len(rx_fifo') = Len(rx_fifo) + 1
        BY <2>2, <3>2, AppendProperties DEF Base, Fifos
      <4>3. events'["rx"] \in {events["rx"], events["rx"] + 1}
        BY <3>2, RaisedKeepsQueue DEF EventKinds
      <4>4. RxEventsCovered'
        BY <1>1, <2>1, <4>1, <4>2, <4>3 DEF Base, RxEventsCovered
      <4> QED  BY <3>2, <4>1, <4>2, <4>4, CanAssumption
    <3> QED  BY <2>1, <3>1, <3>2
  <2>6. Fifos' /\ Places' /\ HandedOverIsQueued'
    BY <2>1, <2>2, <2>5, ClearFlagsFacts DEF Base, Fifos, Places, HandedOverIsQueued
  <2> QED  BY <2>4, <2>5, <2>6 DEF Base
<1>4. CASE prv_bus_error_handler
  <2>1. /\ err = TRUE /\ recoveries' = recoveries + 1 /\ ClearFlags(missed)
        /\ UNCHANGED <<events, tx_fifo, rx_fifo, main, sending, hw_rx, bus_off>>
    BY <1>4 DEF prv_bus_error_handler, software, Base, Counts
  <2>2. Counts'
    <3>1. One(err) = 1 /\ err' = FALSE /\ One(err') = 0
      BY <2>1, ClearFlagsFacts DEF One
    <3>2. events'["fault"] + recoveries' + One(err') =< FaultMax
      BY <1>1, <2>1, <3>1, CanAssumption
    <3>3. recoveries' \in Nat /\ Queued' =< EvSize  BY <1>1, <2>1 DEF Queued
    <3> QED  BY <1>1, <2>1, <3>1, <3>2, <3>3 DEF Base, Counts
  <2>3. Fifos' /\ Places' /\ RxEventsCovered' /\ HandedOverIsQueued'
    BY <2>1, ClearFlagsFacts DEF Base, Fifos, Places, RxEventsCovered, HandedOverIsQueued
  <2> QED  BY <2>2, <2>3 DEF Base
<1>5. CASE prv_bus_error_timeout_handler
  <2>1. /\ recoveries > 0 /\ recoveries' = recoveries - 1
        /\ events' = events \/ events' = Raised("fault")
        /\ UNCHANGED <<tx_fifo, rx_fifo, main, sending, mailbox, tme, err, hw_rx, bus_off>>
    BY <1>5 DEF prv_bus_error_timeout_handler, hardware
  <2>2. /\ events' \in [EventKinds -> Nat] /\ Queued' =< EvSize
        /\ events'["rx"] = events["rx"] /\ events'["other"] = events["other"]
        /\ events'["fault"] \in {events["fault"], events["fault"] + 1}
    <3>1. CASE events' = events  BY <1>1, <3>1 DEF Queued
    <3>2. CASE events' = Raised("fault")  BY <3>2, RaisedKeepsQueue DEF EventKinds
    <3> QED  BY <2>1, <3>1, <3>2
  <2>3. Counts'
    <3>1. events'["fault"] + recoveries' + One(err') =< FaultMax
      BY <1>1, <2>1, <2>2, CanAssumption
    <3>2. recoveries' \in Nat  BY <1>1, <2>1
    <3> QED  BY <2>1, <2>2, <3>1, <3>2 DEF Base, Counts
  <2>4. Fifos' /\ Places' /\ RxEventsCovered' /\ HandedOverIsQueued'
    BY <2>1, <2>2 DEF Base, Fifos, Places, RxEventsCovered, HandedOverIsQueued
  <2> QED  BY <2>3, <2>4 DEF Base
<1>6. CASE RaiseOther
  <2>1. /\ events["other"] < OtherMax /\ events' = Raised("other")
        /\ UNCHANGED <<tx_fifo, rx_fifo, main, sending, mailbox, tme, err, hw_rx, bus_off,
                       recoveries>>
    BY <1>6 DEF RaiseOther, hardware
  <2>2. /\ events' \in [EventKinds -> Nat] /\ Queued' =< EvSize
        /\ events'["rx"] = events["rx"] /\ events'["fault"] = events["fault"]
        /\ events'["other"] \in {events["other"], events["other"] + 1}
    BY <2>1, RaisedKeepsQueue DEF EventKinds
  <2>3. events'["other"] =< OtherMax
    BY <1>1, <2>1, <2>2, CanAssumption
  <2>4. Counts'
    BY <2>1, <2>2, <2>3 DEF Base, Counts
  <2>5. Fifos' /\ Places' /\ RxEventsCovered' /\ HandedOverIsQueued'
    BY <2>1, <2>2 DEF Base, Fifos, Places, RxEventsCovered, HandedOverIsQueued
  <2> QED  BY <2>4, <2>5 DEF Base
<1> QED  BY <1>2, <1>3, <1>4, <1>5, <1>6 DEF CanInterrupt

\* Every step keeps the inductive invariant.
LEMMA BaseNext == Base /\ [Next]_vars => Base'
<1> SUFFICES ASSUME Base, [Next]_vars PROVE Base'
  OBVIOUS
<1>1. CASE TransmitFromMain \/ TransmitFromTimer \/ prv_handle_data_msg
  BY <1>1, TransmitKeepsBase
<1>2. CASE PushTx("main") \/ PushTx("timer")
  BY <1>2, PushKeepsBase DEF Senders
<1>3. CASE (\E k \in EventKinds : TakeEvent(k)) \/ prv_handle_rx \/ prv_handle_tx \/ PopTx
  BY <1>3, MainLoopKeepsBase
<1>4. CASE (\E b \in Mailboxes : TxComplete(b)) \/ MessageArrives \/ BusGoesOff \/ BusRecovers
  BY <1>4, HardwareKeepsBase
<1>5. CASE CanInterrupt \/ prv_bus_error_timeout_handler \/ RaiseOther
  BY <1>5, InterruptKeepsBase
<1>6. CASE UNCHANGED vars
  BY <1>6 DEF vars, software, hardware, Base, Counts, Fifos, Places, RxEventsCovered,
              HandedOverIsQueued, Queued
<1> QED  BY <1>1, <1>2, <1>3, <1>4, <1>5, <1>6 DEF Next, MainLoop

\* The history is a truth value.
LEMMA MissedNext == missed \in BOOLEAN /\ [Next]_vars => missed' \in BOOLEAN
<1> SUFFICES ASSUME missed \in BOOLEAN, [Next]_vars PROVE missed' \in BOOLEAN
  OBVIOUS
<1>1. CASE prv_handle_rx \/ prv_handle_tx \/ PopTx \/ prv_bus_error_timeout_handler \/ RaiseOther
  BY <1>1 DEF prv_handle_rx, prv_handle_tx, PopTx, prv_bus_error_timeout_handler, RaiseOther
<1>2. CASE PushTx("main") \/ PushTx("timer") \/ \E k \in EventKinds : TakeEvent(k)
  BY <1>2 DEF PushTx, TakeEvent
<1>3. CASE (\E b \in Mailboxes : TxComplete(b)) \/ MessageArrives \/ BusGoesOff \/ BusRecovers
  BY <1>3 DEF TxComplete, MessageArrives, BusGoesOff, BusRecovers
<1>4. MissedAfterTx \in BOOLEAN
  BY DEF MissedAfterTx
<1>5. CASE TransmitFromMain \/ TransmitFromTimer \/ prv_handle_data_msg
  <2>1. missed' = MissedAfterTx
    BY <1>5 DEF TransmitFromMain, TransmitFromTimer, prv_handle_data_msg, can_transmit
  <2> QED  BY <1>4, <2>1
<1>6. CASE CanInterrupt
  <2>1. ClearFlags(missed) \/ ClearFlags(MissedAfterTx)
    BY <1>6 DEF CanInterrupt, prv_tx_handler, prv_rx_handler, prv_bus_error_handler
  <2>2. missed' = missed \/ missed' = MissedAfterTx \/ missed' = TRUE
    BY <2>1 DEF ClearFlags
  <2> QED  BY <1>4, <2>2
<1>7. CASE UNCHANGED vars  BY <1>7 DEF vars
<1> QED  BY <1>1, <1>2, <1>3, <1>5, <1>6, <1>7 DEF Next, MainLoop

\* Whatever the sizes of the queues, every RX event has a message of its own in rx_fifo.
THEOREM RxEventsAlwaysCovered == Spec => [](TypeOK /\ RxEventsCovered)
<1> DEFINE Typed == Base /\ missed \in BOOLEAN
<1>1. Init => Typed
  <2>1. Init => missed \in BOOLEAN  BY DEF Init
  <2> QED  BY <2>1, BaseInit
<1>2. Typed /\ [Next]_vars => Typed'
  BY BaseNext, MissedNext
<1>3. Typed => TypeOK /\ RxEventsCovered  BY BaseImpliesTypeOK DEF Base
<1> QED  BY <1>1, <1>2, <1>3, PTL DEF Spec

-----------------------------------------------------------------------------
(* Nothing to send is left behind                                           *)

\* A TX event in the queue is coverage enough for everything, and so is the history.
LEMMA EventCovers ==
  ASSUME events'["tx"] > 0 \/ missed'
  PROVE  Covered'
BY DEF Covered, SendingAnnounced, HandOverCovered, TxBacklogCovered

\* Steps that keep the TX events, the mailboxes, the TX flag, the main loop and the messages to
\* send keep the coverage.
LEMMA FrameCovered ==
  ASSUME Covered, events'["tx"] = events["tx"],
         UNCHANGED <<main, tx_fifo, sending, mailbox, tme, missed>>
  PROVE  Covered'
BY DEF Covered, SendingAnnounced, HandOverCovered, TxBacklogCovered, Busy

\* Every step keeps the coverage.
LEMMA CoveredNext == Base /\ Covered /\ [Next]_vars => Covered'
<1> SUFFICES ASSUME Base, Covered, [Next]_vars PROVE Covered'
  OBVIOUS
<1>1. CASE TransmitFromMain \/ TransmitFromTimer \/ prv_handle_data_msg
  <2>1. events' = Raised("tx") /\ missed' = MissedAfterTx
    BY <1>1 DEF TransmitFromMain, TransmitFromTimer, prv_handle_data_msg, can_transmit
  <2> QED  BY <2>1, RaisedTx, EventCovers
<1>2. CASE PushTx("main") \/ PushTx("timer")
  <2>1. UNCHANGED <<events, missed>> /\ (events["tx"] > 0 \/ missed)
    BY <1>2 DEF PushTx, Covered, SendingAnnounced, Senders
  <2> QED  BY <2>1, EventCovers
<1>3. ASSUME NEW k \in EventKinds, TakeEvent(k)
      PROVE  Covered'
  <2>1. /\ main = "idle" /\ sending["main"] = NoMsg /\ sending["timer"] = NoMsg
        /\ events' = [events EXCEPT ![k] = @ - 1]
        /\ main' = IF k \in {"tx", "rx"} THEN k ELSE "idle"
        /\ UNCHANGED <<tx_fifo, sending, mailbox, tme, missed>>
    BY <1>3 DEF TakeEvent, MainRuns, hardware
  <2>2. SendingAnnounced'
    BY <2>1 DEF SendingAnnounced, Senders
  <2>3. HandOverCovered'
    BY <2>1 DEF HandOverCovered
  <2>4. TxBacklogCovered'
    <3>1. CASE k = "tx"  BY <2>1, <3>1 DEF TxBacklogCovered
    <3>2. CASE k # "tx"
      <4>1. events'["tx"] = events["tx"]  BY <2>1, <3>2 DEF Base, Counts, EventKinds
      <4> QED  BY <2>1, <4>1 DEF Covered, TxBacklogCovered, Busy
    <3> QED  BY <3>1, <3>2
  <2> QED  BY <2>2, <2>3, <2>4 DEF Covered
<1>4. CASE prv_handle_rx
  <2>1. /\ main = "rx" /\ main' \in {"idle", "reply"}
        /\ UNCHANGED <<events, tx_fifo, sending, mailbox, tme, missed>>
    BY <1>4 DEF prv_handle_rx, hardware
  <2> QED  BY <2>1 DEF Covered, SendingAnnounced, HandOverCovered, TxBacklogCovered, Busy
<1>5. CASE prv_handle_tx
  <2>1. UNCHANGED <<events, tx_fifo, sending, tme, missed>>
    BY <1>5 DEF prv_handle_tx
  <2>2. CASE tx_fifo = << >> \/ Busy = Mailboxes
    <3>1. main' = "idle" /\ mailbox' = mailbox  BY <1>5, <2>2 DEF prv_handle_tx
    <3>2. tx_fifo' = << >> \/ Busy' # {}  BY <2>1, <2>2, <3>1, CanAssumption DEF Busy
    <3> QED  BY <2>1, <3>1, <3>2
             DEF Covered, SendingAnnounced, HandOverCovered, TxBacklogCovered
  <2>3. CASE ~(tx_fifo = << >> \/ Busy = Mailboxes)
    <3>1. PICK b \in Mailboxes \ Busy : mailbox' = [mailbox EXCEPT ![b] = Head(tx_fifo)]
      BY <1>5, <2>3 DEF prv_handle_tx
    <3>2. Head(tx_fifo) # NoMsg
      BY <2>3, HeadTailProperties, CanAssumption DEF Base, Fifos, NoMsg
    <3>3. Busy' # {}
      BY <3>1, <3>2 DEF Base, Places, Busy
    <3> QED  BY <2>1, <3>3 DEF Covered, SendingAnnounced, HandOverCovered, TxBacklogCovered
  <2> QED  BY <2>2, <2>3
<1>6. CASE PopTx
  BY <1>6 DEF PopTx, hardware, Covered, SendingAnnounced, HandOverCovered, TxBacklogCovered, Busy
<1>7. ASSUME NEW b \in Mailboxes, TxComplete(b)
      PROVE  Covered'
  BY <1>7 DEF TxComplete, software, Covered, SendingAnnounced, HandOverCovered, TxBacklogCovered
<1>8. CASE MessageArrives \/ BusGoesOff \/ BusRecovers
  BY <1>8, FrameCovered DEF MessageArrives, BusGoesOff, BusRecovers, software
<1>9. CASE prv_tx_handler
  <2>1. UNCHANGED <<tx_fifo, main, sending>>
    BY <1>9 DEF prv_tx_handler
  <2>2. CASE tx_fifo # << >>
    <3>1. events' = Raised("tx") /\ ClearFlags(MissedAfterTx)
      BY <1>9, <2>2 DEF prv_tx_handler
    <3>2. missed' = MissedAfterTx \/ missed' = TRUE
      BY <3>1 DEF ClearFlags
    <3> QED  BY <3>1, <3>2, RaisedTx, EventCovers
  <2>3. CASE tx_fifo = << >>
    <3>1. events' = events /\ (missed' = missed \/ missed' = TRUE)
      BY <1>9, <2>3 DEF prv_tx_handler, ClearFlags
    <3>2. main' # "handed over" /\ tx_fifo' = << >>
      BY <2>1, <2>3 DEF Base, HandedOverIsQueued
    <3>3. SendingAnnounced'
      BY <2>1, <3>1 DEF Covered, SendingAnnounced
    <3> QED  BY <3>2, <3>3 DEF Covered, HandOverCovered, TxBacklogCovered
  <2> QED  BY <2>2, <2>3
<1>10. CASE prv_rx_handler \/ prv_bus_error_handler
  <2>1. /\ ~tme /\ ClearFlags(missed) /\ UNCHANGED <<tx_fifo, main, sending>>
        /\ events' = events \/ events' = Raised("rx")
    BY <1>10 DEF prv_rx_handler, prv_bus_error_handler, software
  <2>2. tme' = tme /\ ((mailbox' = mailbox /\ missed' = missed) \/ missed' = TRUE)
    BY <2>1, ClearFlagsFacts DEF Base, Places
  <2>3. events'["tx"] = events["tx"]
    BY <2>1, RaisedKeepsQueue DEF EventKinds
  <2>4. CASE mailbox' = mailbox /\ missed' = missed
    BY <2>1, <2>2, <2>3, <2>4, FrameCovered
  <2>5. CASE missed' = TRUE
    BY <2>1, <2>3, <2>5 DEF Covered, SendingAnnounced, HandOverCovered, TxBacklogCovered
  <2> QED  BY <2>2, <2>4, <2>5
<1>11. CASE prv_bus_error_timeout_handler \/ RaiseOther
  <2>1. /\ UNCHANGED <<main, tx_fifo, sending, mailbox, tme, missed>>
        /\ events' = events \/ events' = Raised("fault") \/ events' = Raised("other")
    BY <1>11 DEF prv_bus_error_timeout_handler, RaiseOther, hardware
  <2>2. events'["tx"] = events["tx"]
    BY <2>1, RaisedKeepsQueue DEF EventKinds
  <2> QED  BY <2>1, <2>2, FrameCovered
<1>12. CASE UNCHANGED vars
  BY <1>12, FrameCovered DEF vars, software, hardware
<1> QED
  BY <1>1, <1>2, <1>3, <1>4, <1>5, <1>6, <1>7, <1>8, <1>9, <1>10, <1>11, <1>12
     DEF Next, MainLoop, CanInterrupt

\* What waits in tx_fifo is never forgotten, for every size of the event queue: only a completion
\* whose flag the interrupt handler clears unserved, or a TX event refused by a queue full of
\* others, leaves it behind, and only until a TX event is queued.
THEOREM TxBacklogAlwaysCovered == Spec => []TxBacklogCovered
<1>1. Init => Base /\ Covered  BY BaseInit
<1>2. Base /\ [Next]_vars => Base'  BY BaseNext
<1>3. Base /\ Covered /\ [Next]_vars => Covered'  BY CoveredNext
<1>4. Covered => TxBacklogCovered  BY DEF Covered
<1> QED  BY <1>1, <1>2, <1>3, <1>4, PTL DEF Spec
=============================================================================
