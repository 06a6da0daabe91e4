---------------------------- MODULE Boards_proofs ------------------------------
(***************************************************************************)
(* Boards on their own: the charger's power against the connector and its  *)
(* messages against the stops, for every number of timers and of events    *)
(* that may wait; the relay of a solar array against its faults, for every *)
(* number of pending cycles and assertions; the lamps and the blinker of   *)
(* the lights against their state; the datagrams of a bootloader, for      *)
(* every sequence of commands and every length of an answer: a reception   *)
(* is watched, what is dispatched was sent to the board, once, and an      *)
(* answer is transmitted whole; the pages of its configuration, for every  *)
(* number of sections in a page, of losses of power and of boards,         *)
(* wherever the power is lost: no page holds two valid sections, and until *)
(* its redundancy is spoilt a board boots with the configuration committed *)
(* last or the one being committed.                                        *)
(***************************************************************************)
EXTENDS Charger, SolarRelay, Lights, CanDatagram, BootConfig, SequenceTheorems, TLAPS

\* The records have their fields, whatever the ids of timers are in them.
Shapes ==
  /\ charger = [prev |-> charger.prev, powered |-> charger.powered, id |-> charger.id]
  /\ stop = [at |-> stop.at, id |-> stop.id]

\* While a stop is handled its event is still the first in the queue.
Queue == charges \in Seq({"begin", "stop"}) /\ (stop.at # "no" => charges # <<>>)

PowerInv == Shapes /\ Queue /\ PoweredWhilePlugged

LEMMA PowerInitInv == ChargerInit => PowerInv
BY DEF ChargerInit, PowerInv, Shapes, Queue, PoweredWhilePlugged, Idling

\* An event that waits still waits when others are added at the end.
LEMMA RangeAppended ==
  ASSUME NEW s \in Seq({"begin", "stop"}), NEW t \in Seq({"begin", "stop"})
  PROVE  Range(s) \cup Range(t) \subseteq Range(s \o t)
<1>1. \A i \in DOMAIN s : i \in DOMAIN (s \o t) /\ (s \o t)[i] = s[i]
  OBVIOUS
<1>2. \A i \in DOMAIN t : Len(s) + i \in DOMAIN (s \o t) /\ (s \o t)[Len(s) + i] = t[i]
  OBVIOUS
<1>3. Range(s) \subseteq Range(s \o t)
  BY <1>1 DEF Range
<1>4. Range(t) \subseteq Range(s \o t)
  BY <1>2 DEF Range
<1> QED BY <1>3, <1>4

LEMMA PollInv == ASSUME PowerInv, NEW i \in ChargerIds, prv_periodic_cs_poll(i) PROVE PowerInv'
<1>1. PICK now \in ConnectionState :
        /\ charges' = ChargeRaised(ConnectionEvents(charger.prev, now))
        /\ charger' = [charger EXCEPT !.prev = now]
  BY DEF prv_periodic_cs_poll
<1> DEFINE raised == ConnectionEvents(charger.prev, now)
<1>2. raised \in {<<>>, <<"stop">>, <<"begin">>}
  BY DEF ConnectionEvents
<1>3. raised \in Seq({"begin", "stop"}) /\ charges \in Seq({"begin", "stop"})
  <2>1. <<>> \in Seq({"begin", "stop"}) /\ <<"stop">> \in Seq({"begin", "stop"})
        /\ <<"begin">> \in Seq({"begin", "stop"})
    OBVIOUS
  <2> QED BY <1>2, <2>1 DEF PowerInv, Queue
<1> HIDE DEF raised
<1>4. charges' = charges \o raised
  <2>1. Len(raised) \in {0, 1}
    BY <1>2
  <2>2. Len(charges) \in Nat /\ Len(charges) < ChargerEvents /\ ChargerEvents \in Nat
    BY <1>3, ChargerAssumption DEF prv_periodic_cs_poll
  <2>3. Len(charges) + Len(raised) =< ChargerEvents
    <3>1. CASE Len(raised) = 0
      BY <2>2, <3>1
    <3>2. CASE Len(raised) = 1
      BY <2>2, <3>2
    <3> QED BY <2>1, <3>1, <3>2
  <2> QED BY <1>1, <2>3 DEF ChargeRaised, raised
<1>5. (Shapes /\ Queue)'
  <2>1. Shapes' /\ stop' = stop
    BY <1>1 DEF prv_periodic_cs_poll, PowerInv, Shapes
  <2>2. charges' \in Seq({"begin", "stop"}) /\ (charges # <<>> => charges' # <<>>)
    BY <1>3, <1>4
  <2> QED BY <2>1, <2>2 DEF PowerInv, Queue
<1>6. Range(charges) \cup Range(raised) \subseteq Range(charges')
  BY <1>3, <1>4, RangeAppended
<1>7. charger.prev # now /\ now = "unplugged" => "stop" \in Range(charges')
  <2>1. SUFFICES ASSUME charger.prev # now, now = "unplugged" PROVE "stop" \in Range(raised)
    BY <1>6
  <2>2. raised = <<"stop">>
    BY <2>1 DEF ConnectionEvents, raised
  <2> QED BY <2>2 DEF Range
<1>8. charger'.prev = now /\ charger'.powered = charger.powered /\ past' = past
  BY <1>1 DEF prv_periodic_cs_poll, PowerInv, Shapes, Queue
<1> QED BY <1>5, <1>6, <1>7, <1>8 DEF PowerInv, PoweredWhilePlugged

\* An event that is not a stop leaves the queue, and the stops stay.
LEMMA RangeOfTail ==
  ASSUME NEW s \in Seq({"begin", "stop"}), s # <<>>, Head(s) = "begin", "stop" \in Range(s)
  PROVE  "stop" \in Range(Tail(s))
<1>1. PICK i \in DOMAIN s : s[i] = "stop"
  BY DEF Range
<1>2. i # 1
  BY <1>1
<1>3. i - 1 \in DOMAIN Tail(s) /\ Tail(s)[i - 1] = "stop"
  BY <1>1, <1>2
<1> QED BY <1>3 DEF Range

LEMMA PowerInvNext == PowerInv /\ [ChargerNext]_chargerVars => PowerInv'
<1> SUFFICES ASSUME PowerInv, [ChargerNext]_chargerVars PROVE PowerInv'
  OBVIOUS
<1>1. ASSUME NEW i \in ChargerIds, prv_periodic_charger_tx(i) PROVE PowerInv'
  <2>1. charger' = charger \/ charger' = [charger EXCEPT !.id = NextAlarm]
    BY <1>1 DEF prv_periodic_charger_tx
  <2>2. charger'.prev = charger.prev /\ charger'.powered = charger.powered
    BY <2>1 DEF PowerInv, Shapes, Queue
  <2>3. charges' = charges /\ ("late" \in past => "late" \in past')
    BY <1>1 DEF prv_periodic_charger_tx
  <2>4. (Shapes /\ Queue)'
    BY <1>1, <2>1, <2>3 DEF prv_periodic_charger_tx, PowerInv, Shapes, Queue
  <2> QED BY <2>2, <2>3, <2>4 DEF PowerInv, PoweredWhilePlugged
<1>2. ASSUME NEW i \in ChargerIds, prv_periodic_cs_poll(i) PROVE PowerInv'
  BY <1>2, PollInv
<1>3. CASE BatteryFull
  <2>1. charges' = Append(charges, "stop") /\ charges' \in Seq({"begin", "stop"})
    BY <1>3 DEF BatteryFull, PowerInv, Shapes, Queue
  <2>2. charges'[Len(charges) + 1] = "stop" /\ Len(charges) + 1 \in DOMAIN charges'
    BY <2>1 DEF PowerInv, Shapes, Queue
  <2>3. "stop" \in Range(charges')
    BY <2>2 DEF Range
  <2> QED BY <1>3, <2>1, <2>3 DEF BatteryFull, PowerInv, Shapes, Queue, PoweredWhilePlugged
<1>4. CASE BeginEvent
  <2>1. charges' = Tail(charges) /\ charges' \in Seq({"begin", "stop"}) /\ UNCHANGED <<charger, past>>
    BY <1>4 DEF BeginEvent, PowerInv, Shapes, Queue
  <2>2. "stop" \in Range(charges) => "stop" \in Range(charges')
    BY <1>4, <2>1, RangeOfTail DEF BeginEvent, PowerInv, Shapes, Queue
  <2>3. stop' = stop /\ stop.at = "no"
    BY <1>4 DEF BeginEvent
  <2> QED BY <2>1, <2>2, <2>3 DEF PowerInv, Shapes, Queue, PoweredWhilePlugged
<1>5. CASE AllowRx
  <2>1. charger' = Activated(charger) /\ charges' = charges
    BY <1>5 DEF AllowRx
  <2>2. charger'.prev = charger.prev
    BY <2>1 DEF Activated, PowerInv, Shapes, Queue
  <2>3. charger.prev = "unplugged" /\ "stop" \notin Range(charges) => "late" \in past'
    BY <1>5 DEF AllowRx
  <2>4. (Shapes /\ Queue)'
    BY <1>5, <2>1 DEF AllowRx, Activated, PowerInv, Shapes, Queue
  <2> QED BY <2>1, <2>2, <2>3, <2>4 DEF PowerInv, PoweredWhilePlugged
<1>6. CASE StopEvent
  BY <1>6 DEF StopEvent, PowerInv, Shapes, Queue, PoweredWhilePlugged
<1>7. CASE ReadChargerId
  BY <1>7 DEF ReadChargerId, PowerInv, Shapes, Queue, PoweredWhilePlugged
<1>8. CASE PowerDown
  <2>1. charger' = [charger EXCEPT !.powered = FALSE] /\ charges' = Tail(charges) /\ stop' = Idling
    BY <1>8 DEF PowerDown
  <2>2. charges # <<>>
    BY <1>8 DEF PowerDown, PowerInv, Queue
  <2>3. charges' \in Seq({"begin", "stop"})
    BY <2>1, <2>2 DEF PowerInv, Queue
  <2>4. Shapes' /\ ~charger'.powered /\ stop'.at = "no"
    BY <2>1 DEF PowerInv, Shapes, Idling
  <2> QED BY <2>3, <2>4 DEF PowerInv, Queue, PoweredWhilePlugged
<1>9. CASE StatusFlagged
  BY <1>9 DEF StatusFlagged, PowerInv, Shapes, Queue, PoweredWhilePlugged
<1>10. CASE UNCHANGED chargerVars
  BY <1>10 DEF chargerVars, PowerInv, Shapes, Queue, PoweredWhilePlugged
<1> QED BY <1>1, <1>2, <1>3, <1>4, <1>5, <1>6, <1>7, <1>8, <1>9, <1>10 DEF ChargerNext

\* Over all orders of polls, permissions, stops and statuses, relay and pilot are off once the
\* unplugging of the connector has been handled, unless the permission came later still
\* (projects/charger connection_sense.c, begin_sequence.c, stop_sequence.c).
THEOREM PoweredAlwaysPlugged == ChargerSpec => []PoweredWhilePlugged
<1>1. PowerInv => PoweredWhilePlugged
  BY DEF PowerInv
<1> QED BY PowerInitInv, PowerInvNext, <1>1, PTL DEF ChargerSpec

-----------------------------------------------------------------------------
(* The charger's messages                                                   *)

\* Without a second permission for one charge the timer of the messages is the one whose id is
\* kept; what a stop has read is that id, unless a callback has replaced it since.
SilentInv ==
  /\ Shapes /\ alarms = [j \in ChargerIds |-> alarms[j]]
  /\ "doubled" \notin past => \A j \in ChargerIds : alarms[j] = "tx" => j = charger.id
  /\ "struck" \notin past /\ stop.at = "id read" => stop.id = charger.id
  /\ "stopped" \in past /\ "doubled" \notin past /\ "struck" \notin past =>
       \A j \in ChargerIds : alarms[j] # "tx"

LEMMA SilentInit == ChargerInit => SilentInv
BY DEF ChargerInit, SilentInv, Shapes, Idling

LEMMA PeriodicTxSilent ==
  ASSUME SilentInv, NEW i \in ChargerIds, prv_periodic_charger_tx(i) PROVE SilentInv'
<1>1. /\ alarms[i] = "tx" /\ alarms' = Restarted(i, "tx")
      /\ charger' = IF FreeAlarms = {} THEN charger ELSE [charger EXCEPT !.id = NextAlarm]
      /\ past' = IF stop.at = "id read" THEN past \cup {"struck"} ELSE past
      /\ stop' = stop
  BY DEF prv_periodic_charger_tx
<1>2. Shapes' /\ charger'.id = IF FreeAlarms = {} THEN charger.id ELSE NextAlarm
  BY <1>1 DEF SilentInv, Shapes
<1>3. \A j \in ChargerIds :
        alarms'[j] = IF j = i THEN "none"
                     ELSE IF FreeAlarms # {} /\ j = NextAlarm THEN "tx" ELSE alarms[j]
  BY <1>1 DEF Restarted
<1>4. alarms' = [j \in ChargerIds |-> alarms'[j]]
  BY <1>1 DEF Restarted
<1>5. "doubled" \in past' <=> "doubled" \in past
  BY <1>1
<1>6. "doubled" \notin past' => \A j \in ChargerIds : alarms'[j] = "tx" => j = charger'.id
  BY <1>1, <1>2, <1>3, <1>5 DEF SilentInv
<1>7. "struck" \notin past' => stop'.at # "id read"
  BY <1>1
<1>8. "stopped" \in past' => "doubled" \in past' \/ "struck" \in past'
  BY <1>1 DEF SilentInv
<1> QED BY <1>2, <1>4, <1>6, <1>7, <1>8 DEF SilentInv

LEMMA PollSilent ==
  ASSUME SilentInv, NEW i \in ChargerIds, prv_periodic_cs_poll(i) PROVE SilentInv'
<1>1. PICK now \in ConnectionState : charger' = [charger EXCEPT !.prev = now]
  BY DEF prv_periodic_cs_poll
<1>2. alarms' = Restarted(i, "poll") /\ UNCHANGED <<stop, past>>
  BY DEF prv_periodic_cs_poll
<1>3. Shapes' /\ charger'.id = charger.id
  BY <1>1, <1>2 DEF SilentInv, Shapes
<1>4. \A j \in ChargerIds : alarms'[j] = "tx" => alarms[j] = "tx"
  BY <1>2 DEF Restarted
<1>5. alarms' = [j \in ChargerIds |-> alarms'[j]]
  BY <1>2 DEF Restarted
<1> QED BY <1>2, <1>3, <1>4, <1>5 DEF SilentInv

LEMMA AllowSilent == ASSUME SilentInv, AllowRx PROVE SilentInv'
<1>1. /\ charger' = Activated(charger) /\ stop' = stop /\ stop.at = "no"
      /\ alarms' = IF FreeAlarms = {} THEN alarms ELSE [alarms EXCEPT ![NextAlarm] = "tx"]
      /\ past' = (past \ {"stopped", "late"})
                 \cup (IF "tx" \in Range(alarms) THEN {"doubled"} ELSE {})
                 \cup (IF charger.prev = "unplugged" /\ "stop" \notin Range(charges)
                       THEN {"late"} ELSE {})
  BY DEF AllowRx
<1>2. Shapes' /\ charger'.id = IF FreeAlarms = {} THEN charger.id ELSE NextAlarm
  BY <1>1 DEF SilentInv, Shapes, Activated
<1>3. alarms' = [j \in ChargerIds |-> alarms'[j]]
  BY <1>1 DEF SilentInv
<1>4. "stopped" \notin past'
  BY <1>1
<1>5. "doubled" \notin past' => \A j \in ChargerIds : alarms[j] # "tx"
  BY <1>1 DEF SilentInv, Range
<1>6. \A j \in ChargerIds :
        alarms'[j] = "tx" => alarms[j] = "tx" \/ (FreeAlarms # {} /\ j = NextAlarm)
  <2>1. CASE FreeAlarms = {}
    BY <1>1, <2>1
  <2>2. CASE FreeAlarms # {}
    <3>1. alarms' = [alarms EXCEPT ![NextAlarm] = "tx"]
      BY <1>1, <2>2
    <3>2. alarms = [j \in ChargerIds |-> alarms[j]]
      BY DEF SilentInv
    <3>3. \A j \in ChargerIds : alarms'[j] = IF j = NextAlarm THEN "tx" ELSE alarms[j]
      BY <3>1, <3>2
    <3> QED BY <2>2, <3>3
  <2> QED BY <2>1, <2>2
<1>7. "doubled" \notin past' => \A j \in ChargerIds : alarms'[j] = "tx" => j = charger'.id
  BY <1>2, <1>5, <1>6
<1> QED BY <1>1, <1>2, <1>3, <1>4, <1>7 DEF SilentInv

\* A cancelled timer was the only one, if it was the right one.
LEMMA CancelSilent ==
  ASSUME SilentInv, NEW id, alarms' = [alarms EXCEPT ![id] = "none"],
         charger'.id = charger.id, Shapes', past' = past \cup {"stopped"},
         stop'.at = "id read" => stop' = stop,
         "struck" \notin past => id = charger.id
  PROVE  SilentInv'
<1>1. \A j \in ChargerIds : alarms'[j] = IF j = id THEN "none" ELSE alarms[j]
  BY DEF SilentInv
<1>2. alarms' = [j \in ChargerIds |-> alarms'[j]]
  BY DEF SilentInv
<1>3. /\ "doubled" \in past' <=> "doubled" \in past
      /\ "struck" \in past' <=> "struck" \in past
  OBVIOUS
<1> QED BY <1>1, <1>2, <1>3 DEF SilentInv

LEMMA SilentNext == SilentInv /\ [ChargerNext]_chargerVars => SilentInv'
<1> SUFFICES ASSUME SilentInv, [ChargerNext]_chargerVars PROVE SilentInv'
  OBVIOUS
<1>1. ASSUME NEW i \in ChargerIds, prv_periodic_charger_tx(i) PROVE SilentInv'
  BY <1>1, PeriodicTxSilent
<1>2. ASSUME NEW i \in ChargerIds, prv_periodic_cs_poll(i) PROVE SilentInv'
  BY <1>2, PollSilent
<1>3. CASE BatteryFull \/ BeginEvent
  BY <1>3 DEF BatteryFull, BeginEvent, SilentInv, Shapes
<1>4. CASE AllowRx
  BY <1>4, AllowSilent
<1>5. CASE StopEvent \/ ReadChargerId
  <2>1. UNCHANGED <<charger, alarms, past>>
    BY <1>5 DEF StopEvent, ReadChargerId
  <2>2. stop' = [at |-> "told", id |-> stop.id] \/ stop' = [at |-> "id read", id |-> charger.id]
    <3>1. stop = [at |-> stop.at, id |-> stop.id]
      BY DEF SilentInv, Shapes
    <3>2. StopEvent => stop' = [stop EXCEPT !.at = "told"]
      BY DEF StopEvent
    <3>3. ReadChargerId => stop' = [at |-> "id read", id |-> charger.id]
      BY DEF ReadChargerId
    <3>4. [stop EXCEPT !.at = "told"] = [at |-> "told", id |-> stop.id]
      BY <3>1
    <3> QED BY <1>5, <3>2, <3>3, <3>4
  <2>3. Shapes' /\ (stop'.at = "id read" => stop'.id = charger.id)
    <3>1. stop' = [at |-> stop'.at, id |-> stop'.id]
      BY <2>2
    <3>2. stop'.at = "id read" => stop'.id = charger.id
      <4>1. CASE stop' = [at |-> "told", id |-> stop.id]
        <5>1. stop'.at = "told"
          BY <4>1
        <5> QED BY <5>1
      <4>2. CASE stop' = [at |-> "id read", id |-> charger.id]
        BY <4>2
      <4> QED BY <2>2, <4>1, <4>2
    <3> QED BY <2>1, <3>1, <3>2 DEF SilentInv, Shapes
  <2> QED BY <2>1, <2>3 DEF SilentInv
<1>6. CASE PowerDown
  <2>1. /\ stop.at = "id read" /\ alarms' = [alarms EXCEPT ![stop.id] = "none"]
        /\ charger' = [charger EXCEPT !.powered = FALSE] /\ stop' = Idling
        /\ past' = past \cup {"stopped"}
    BY <1>6 DEF PowerDown
  <2>2. charger'.id = charger.id /\ Shapes' /\ stop'.at # "id read"
    BY <2>1 DEF SilentInv, Shapes, Idling
  <2>3. "struck" \notin past => stop.id = charger.id
    BY <2>1 DEF SilentInv
  <2> QED BY <2>1, <2>2, <2>3, CancelSilent
<1>7. CASE StatusFlagged
  <2>1. /\ alarms' = [alarms EXCEPT ![charger.id] = "none"] /\ UNCHANGED <<charger, stop>>
        /\ past' = past \cup {"stopped"}
    BY <1>7 DEF StatusFlagged
  <2>2. Shapes'
    BY <2>1 DEF SilentInv, Shapes
  <2> QED BY <2>1, <2>2, CancelSilent
<1>8. CASE UNCHANGED chargerVars
  BY <1>8 DEF chargerVars, SilentInv, Shapes
<1> QED BY <1>1, <1>2, <1>3, <1>4, <1>5, <1>6, <1>7, <1>8 DEF ChargerNext

\* A charger told to stop is not told to start again before the next permission, for every
\* number of timers and whichever timers share their ids with its own, unless two permissions
\* came for one charge or a callback struck between the read of the id and its cancel
\* (charger_controller.c:94-113).
THEOREM StoppedAlwaysSilent == ChargerSpec => []ChargerSilent
<1>1. SilentInv => ChargerSilent
  BY DEF SilentInv, ChargerSilent, Range
<1> QED BY SilentInit, SilentNext, <1>1, PTL DEF ChargerSpec
-----------------------------------------------------------------------------
(* The relay of a solar array                                               *)

Faulty == solar.current \in {"over", "negative"} \/ solar.overvoltage

\* A sequence of orders to open, or the end of one.
Opens(s) == s \in Seq({"open"})

Readings == {"unset", "little", "flowing", "over", "negative"}
Solars == [fsm : {"open", "closed"}, err : BOOLEAN, checks : Nat, reading : Readings,
           current : Readings, overvoltage : BOOLEAN]

SolarTypes ==
  /\ solar \in Solars
  /\ orders \in Seq({"open", "close"}) /\ ready \in Nat

\* Once the last cycle was looked at, a fault in it has left only orders to open, or has been
\* followed by an opening, unless a command closed the relay again.
SolarInv ==
  /\ SolarTypes
  /\ Faulty /\ ready = 0 /\ ~reclosed => Opens(orders) /\ (orders = <<>> => solar.fsm = "open")

LEMMA SolarInitInv == SolarInit => SolarInv
<1> SUFFICES ASSUME SolarInit PROVE SolarInv
  OBVIOUS
<1>1. ~Faulty
  BY DEF SolarInit, Faulty
<1>2. SolarTypes
  <2>1. solar \in Solars
    BY DEF SolarInit, Solars, Readings
  <2>2. orders \in Seq({"open", "close"}) /\ ready \in Nat
    BY DEF SolarInit
  <2> QED BY <2>1, <2>2 DEF SolarTypes
<1> QED BY <1>1, <1>2 DEF SolarInv

\* What the faults order is to open, and there is an order when there is a fault.
LEMMA FaultOrders ==
  /\ CurrentFaults \o VoltageFaults \in Seq({"open"})
  /\ Faulty => CurrentFaults \o VoltageFaults # <<>>
<1>1. CurrentFaults \in Seq({"open"}) /\ VoltageFaults \in Seq({"open"})
  <2>1. <<>> \in Seq({"open"}) /\ <<"open">> \in Seq({"open"})
    OBVIOUS
  <2> QED BY <2>1 DEF CurrentFaults, VoltageFaults
<1>2. Faulty => Len(CurrentFaults) = 1 \/ Len(VoltageFaults) = 1
  BY DEF CurrentFaults, VoltageFaults, Faulty
<1>3. Len(CurrentFaults \o VoltageFaults) = Len(CurrentFaults) + Len(VoltageFaults)
  BY <1>1
<1>4. CurrentFaults \o VoltageFaults \in Seq({"open"})
  BY <1>1
<1>5. Faulty => Len(CurrentFaults \o VoltageFaults) # 0
  BY <1>1, <1>2, <1>3
<1> QED BY <1>4, <1>5

LEMMA OpensAreOrders == ASSUME NEW s \in Seq({"open"}) PROVE s \in Seq({"open", "close"})
OBVIOUS

LEMMA SolarInvNext == SolarInv /\ [SolarNext]_solarVars => SolarInv'
<1> SUFFICES ASSUME SolarInv, [SolarNext]_solarVars PROVE SolarInv'
  OBVIOUS
<1>1. CASE RelayOrder
  <2>1. /\ orders' = Tail(orders) /\ orders' \in Seq({"open", "close"})
        /\ Head(orders) \in {"open", "close"} /\ UNCHANGED <<ready, reclosed>>
    BY <1>1 DEF RelayOrder, SolarInv, SolarTypes, Solars, Readings
  <2>2. solar' = [solar EXCEPT !.fsm = IF Head(orders) = "open" THEN "open" ELSE "closed"]
    BY <1>1 DEF RelayOrder
  <2>3. SolarTypes' /\ (Faulty' <=> Faulty)
    BY <2>1, <2>2 DEF SolarInv, SolarTypes, Solars, Readings, Faulty
  <2>4. Opens(orders) => Head(orders) = "open" /\ Opens(orders')
    BY <1>1, <2>1 DEF Opens, RelayOrder
  <2>5. Opens(orders) => solar'.fsm = "open"
    BY <2>2, <2>4 DEF SolarInv, SolarTypes, Solars, Readings
  <2> QED BY <2>1, <2>3, <2>4, <2>5 DEF SolarInv
<1>2. CASE DataReady
  <2>1. orders' = CurrentFaults \o VoltageFaults /\ orders' \in Seq({"open"})
    BY <1>2, FaultOrders DEF DataReady, SolarInv
  <2>2. Faulty => orders' # <<>>
    BY <2>1, FaultOrders DEF SolarInv
  <2>3. orders' \in Seq({"open", "close"})
    BY <2>1, OpensAreOrders
  <2>4. SolarTypes' /\ (Faulty' <=> Faulty)
    BY <1>2, <2>3 DEF DataReady, SolarInv, SolarTypes, Faulty
  <2> QED BY <2>1, <2>2, <2>4 DEF SolarInv, Opens
<1>3. ASSUME NEW order \in {"open", "close"}, RelayCommandRx(order) PROVE SolarInv'
  <2>1. SolarTypes' /\ (Faulty' <=> Faulty) /\ UNCHANGED ready
    BY <1>3 DEF RelayCommandRx, SolarInv, SolarTypes, Solars, Readings, Faulty
  <2>2. ~reclosed' => ~reclosed /\ orders' = <<"open">>
    BY <1>3 DEF RelayCommandRx, SolarInv, SolarTypes, Solars, Readings
  <2>3. <<"open">> \in Seq({"open"}) /\ <<"open">> # <<>>
    OBVIOUS
  <2> QED BY <2>1, <2>2, <2>3 DEF SolarInv, Opens
<1>4. ASSUME NEW current \in Currents, CurrentRead(current) PROVE SolarInv'
  BY <1>4 DEF CurrentRead, SolarInv, SolarTypes, Solars, Readings, Currents, Faulty, Opens
<1>5. CASE SenseCycle
  <2>1. ready' # 0
    BY <1>5 DEF SenseCycle, SolarInv, SolarTypes, Solars, Readings
  <2>2. solar' \in Solars
    <3>1. PICK voltage \in BOOLEAN :
            solar' = [solar EXCEPT !.current = solar.reading, !.overvoltage = voltage]
      BY <1>5 DEF SenseCycle
    <3> QED BY <3>1 DEF SolarInv, SolarTypes, Solars
  <2>3. SolarTypes'
    BY <1>5, <2>2 DEF SenseCycle, SolarInv, SolarTypes
  <2> QED BY <2>1, <2>3 DEF SolarInv
<1>6. CASE AssertRelay
  <2>1. UNCHANGED <<orders, ready, reclosed, solar.fsm, solar.current, solar.overvoltage>>
    BY <1>6 DEF AssertRelay, SolarInv, SolarTypes, Solars, Readings
  <2>2. SolarTypes'
    <3>1. solar' = solar \/ solar' = [solar EXCEPT !.checks = @ + 1]
      BY <1>6 DEF AssertRelay
    <3>2. solar \in Solars
      BY DEF SolarInv, SolarTypes
    <3>3. solar' \in Solars
      BY <3>1, <3>2 DEF Solars
    <3> QED BY <2>1, <3>3 DEF SolarInv, SolarTypes, Solars, Readings
  <2> QED BY <2>1, <2>2 DEF SolarInv, Faulty, Opens
<1>7. CASE prv_relay_err_cb
  <2>1. UNCHANGED <<orders, ready, reclosed, solar.fsm, solar.current, solar.overvoltage>>
    BY <1>7 DEF prv_relay_err_cb, SolarInv, SolarTypes, Solars, Readings
  <2>2. SolarTypes'
    <3>1. solar' \in Solars
      BY <1>7 DEF prv_relay_err_cb, SolarInv, SolarTypes, Solars, Readings
    <3> QED BY <2>1, <3>1 DEF SolarInv, SolarTypes, Solars, Readings
  <2> QED BY <2>1, <2>2 DEF SolarInv, Faulty, Opens
<1>8. CASE UNCHANGED solarVars
  BY <1>8 DEF solarVars, SolarInv, SolarTypes, Solars, Readings, Currents, Faulty, Opens
<1> QED BY <1>1, <1>2, <1>3, <1>4, <1>5, <1>6, <1>7, <1>8 DEF SolarNext

\* Whatever commands, cycles and the assertion do in between, once all events are processed the
\* relay of an array with a bad current or voltage is open, unless a command has closed it since
\* (projects/solar fault_monitor.c, relay_fsm.c).
THEOREM FaultyArrayAlwaysOpen == SolarSpec => []FaultyArrayIsOpen
<1>1. SolarInv => FaultyArrayIsOpen
  BY DEF SolarInv, SolarTypes, Faulty, FaultyArrayIsOpen
<1> QED BY SolarInitInv, SolarInvNext, <1>1, PTL DEF SolarSpec

-----------------------------------------------------------------------------
(* The lights of a power distribution board                                 *)

LightStates == {"none", "left", "right", "hazard", "hazard_left", "hazard_right"}
LampsOf(l) == IF l.on THEN {l.event} ELSE {}

\* The blinker at rest: off without a timer in state none, else blinking for the state's light.
BlinkerAtRest ==
  IF lights.fsm = "none"
  THEN running = {} /\ lights.timer = NoBlink /\ ~lights.on /\ lamps = {}
  ELSE /\ running = {lights.timer} /\ lights.timer \in BlinkIds
       /\ lights.event = Blinks[lights.fsm] /\ lamps = LampsOf(lights)

\* The points of blink_event_generator_stop: until the cancel the blinker has one timer, which is
\* the one whose id is read, and from the final event on no lamp is lit but the one to blink next,
\* if it is.
BlinkerStopping ==
  /\ stopping.then = Blinks[lights.fsm]
  /\ stopping.at \in {"called", "decided", "id read"} =>
       running = {lights.timer} /\ lights.timer \in BlinkIds
  /\ stopping.at = "called" => lamps = LampsOf(lights)
  /\ stopping.at # "called" => lamps \subseteq {stopping.then} \ {"none"}
  /\ stopping.at = "id read" => stopping.id = lights.timer
  /\ stopping.at = "cancelled" => running = {}

LightsShapes ==
  /\ lights = [fsm |-> lights.fsm, on |-> lights.on, event |-> lights.event, timer |-> lights.timer]
  /\ lights.fsm \in LightStates /\ lights.on \in BOOLEAN
  /\ stopping = [at |-> stopping.at, id |-> stopping.id, then |-> stopping.then]
  /\ stopping.at \in {"no", "called", "decided", "id read", "cancelled"}

LightsInv ==
  ~struck => /\ LightsShapes
             /\ stopping.at = "no" => BlinkerAtRest
             /\ stopping.at # "no" => BlinkerStopping

LEMMA BlinksFacts ==
  /\ Blinks["none"] = "none"
  /\ \A fsm \in LightStates : fsm # "none" => Blinks[fsm] \in Outputs
BY DEF Blinks, LightStates, Outputs

LEMMA LightsNextFacts ==
  ASSUME NEW fsm \in LightStates, NEW input \in Outputs, NEW on \in BOOLEAN
  PROVE  LightsNext(fsm, input, on) \in LightStates
BY DEF LightsNext, LightStates, Outputs

LEMMA LightsInitInv == LightsInit => LightsInv
BY DEF LightsInit, LightsInv, LightsShapes, LightStates, BlinkerAtRest

\* With one timer at most there is an id for the next one.
LEMMA NextIdFacts ==
  ASSUME NEW i, running \subseteq {i}
  PROVE  NextId \in BlinkIds
<1>1. CASE 0 \notin running
  <2>1. \A j \in BlinkIds \ running : 0 =< j
    BY DEF BlinkIds
  <2> QED BY <1>1, <2>1 DEF NextId, BlinkIds
<1>2. CASE 0 \in running
  <2>1. running = {0}
    BY <1>2
  <2>2. 1 \in BlinkIds \ running /\ \A j \in BlinkIds \ running : 1 =< j
    BY <2>1 DEF BlinkIds
  <2> QED BY <2>2 DEF NextId
<1> QED BY <1>1, <1>2

\* What the callback leaves behind: it is on when it was off, and has the one timer.
LEMMA RaiseFacts ==
  ASSUME NEW l, NEW from, Raise(l, from), running \subseteq {from},
         l = [fsm |-> l.fsm, on |-> l.on, event |-> l.event, timer |-> l.timer],
         l.on \in BOOLEAN
  PROVE  /\ lights' = [fsm |-> l.fsm, on |-> ~l.on, event |-> l.event, timer |-> NextId]
         /\ running' = {NextId} /\ NextId \in BlinkIds
         /\ lamps' = IF l.on THEN lamps \ {l.event} ELSE lamps \cup {l.event}
<1>1. lights' = [fsm |-> l.fsm, on |-> ~l.on, event |-> l.event, timer |-> NextId]
  BY DEF Raise
<1>2. running' = {NextId}
  BY DEF Raise
<1>3. NextId \in BlinkIds
  BY NextIdFacts
<1>4. lamps' = IF l.on THEN lamps \ {l.event} ELSE lamps \cup {l.event}
  BY DEF Raise, Lit
<1> QED BY <1>1, <1>2, <1>3, <1>4

\* What an assignment to a field of the FSM and its blinker leaves.
LEMMA LightsWith ==
  ASSUME NEW l, NEW v,
         l = [fsm |-> l.fsm, on |-> l.on, event |-> l.event, timer |-> l.timer]
  PROVE  /\ [l EXCEPT !.fsm = v] = [fsm |-> v, on |-> l.on, event |-> l.event, timer |-> l.timer]
         /\ [l EXCEPT !.event = v] = [fsm |-> l.fsm, on |-> l.on, event |-> v, timer |-> l.timer]
<1>1. DOMAIN l = {"fsm", "on", "event", "timer"}
  OBVIOUS
<1>2. [l EXCEPT !.fsm = v] = [fsm |-> v, on |-> l.on, event |-> l.event, timer |-> l.timer]
  BY <1>1
<1>3. [l EXCEPT !.event = v] = [fsm |-> l.fsm, on |-> l.on, event |-> v, timer |-> l.timer]
  BY <1>1
<1> QED BY <1>2, <1>3

LEMMA StoppedFacts ==
  ASSUME NEW l, l = [fsm |-> l.fsm, on |-> l.on, event |-> l.event, timer |-> l.timer]
  PROVE  Stopped(l) = [fsm |-> l.fsm, on |-> FALSE, event |-> l.event, timer |-> NoBlink]
<1>1. DOMAIN l = {"fsm", "on", "event", "timer"}
  OBVIOUS
<1> DEFINE s == [l EXCEPT !.timer = NoBlink]
<1>2. s = [fsm |-> l.fsm, on |-> l.on, event |-> l.event, timer |-> NoBlink]
  BY <1>1
<1>3. Stopped(l) = [s EXCEPT !.on = FALSE]
  BY DEF Stopped
<1> HIDE DEF s
<1> QED BY <1>2, <1>3

\* A callback toggles the lamp of the blinker and replaces its one timer.
LEMMA BlinkTimerInv == ASSUME LightsInv, NEW i \in BlinkIds, BlinkTimer(i) PROVE LightsInv'
<1> SUFFICES ASSUME ~struck' PROVE LightsInv'
  BY DEF LightsInv
<1>1. ~struck /\ stopping.at \notin {"decided", "id read"} /\ UNCHANGED stopping /\ i \in running
  BY DEF BlinkTimer
<1>2. LightsShapes
  BY <1>1 DEF LightsInv
<1>3. running = {lights.timer}
  BY <1>1, <1>2 DEF LightsInv, LightsShapes, BlinkerAtRest, BlinkerStopping
<1>4. i = lights.timer
  BY <1>1, <1>3
<1>5. /\ lights' = [fsm |-> lights.fsm, on |-> ~lights.on, event |-> lights.event, timer |-> NextId]
      /\ running' = {NextId} /\ NextId \in BlinkIds
      /\ lamps' = IF lights.on THEN lamps \ {lights.event} ELSE lamps \cup {lights.event}
  BY <1>2, <1>3, <1>4, RaiseFacts DEF BlinkTimer, LightsShapes
<1>6. lamps = LampsOf(lights)
  BY <1>1, <1>2, <1>3 DEF LightsInv, LightsShapes, BlinkerAtRest, BlinkerStopping
<1>7. lamps' = LampsOf(lights')
  BY <1>5, <1>6 DEF LampsOf
<1>8. LightsShapes'
  BY <1>1, <1>2, <1>5 DEF LightsShapes
<1>9. stopping.at = "no" => BlinkerAtRest'
  <2>1. stopping.at = "no" => lights.fsm # "none" /\ lights.event = Blinks[lights.fsm]
    BY <1>1, <1>3 DEF LightsInv, BlinkerAtRest
  <2> QED BY <1>5, <1>7, <2>1 DEF BlinkerAtRest
<1>10. stopping.at # "no" => BlinkerStopping'
  <2>1. stopping.at # "no" => stopping.at = "called" /\ stopping.then = Blinks[lights.fsm]
    BY <1>1, <1>2, <1>3 DEF LightsInv, LightsShapes, BlinkerStopping
  <2> QED BY <1>1, <1>5, <1>7, <2>1 DEF BlinkerStopping
<1> QED BY <1>1, <1>8, <1>9, <1>10 DEF LightsInv

\* An input stops the blinker, starts it, has it go on or replaces its light.
LEMMA LightsInputInv ==
  ASSUME LightsInv, NEW input \in Outputs, NEW on \in BOOLEAN, LightsInput(input, on)
  PROVE  LightsInv'
<1> DEFINE fsm == LightsNext(lights.fsm, input, on)
<1> SUFFICES ASSUME ~struck' PROVE LightsInv'
  BY DEF LightsInv
<1>1. ~struck /\ stopping.at = "no" /\ fsm # lights.fsm
  BY DEF LightsInput
<1>2. LightsShapes /\ BlinkerAtRest
  BY <1>1 DEF LightsInv
<1>3. fsm \in LightStates
  BY <1>2, LightsNextFacts DEF LightsShapes
<1>4. CASE fsm = "none"
  <2>1. /\ lights' = [lights EXCEPT !.fsm = "none"]
        /\ stopping' = [at |-> "called", id |-> NoBlink, then |-> "none"]
        /\ UNCHANGED <<running, lamps>>
    BY <1>4 DEF LightsInput
  <2>2. lights' = [fsm |-> "none", on |-> lights.on, event |-> lights.event, timer |-> lights.timer]
    BY <1>2, <2>1 DEF LightsShapes
  <2>3. LightsShapes'
    BY <1>2, <2>1, <2>2 DEF LightsShapes, LightStates
  <2>4. running = {lights.timer} /\ lights.timer \in BlinkIds /\ lamps = LampsOf(lights)
    BY <1>1, <1>2, <1>4 DEF BlinkerAtRest
  <2>5. BlinkerStopping'
    BY <2>1, <2>2, <2>4, BlinksFacts DEF BlinkerStopping, LampsOf
  <2> QED BY <2>1, <2>3, <2>5 DEF LightsInv
<1>5. CASE fsm # "none"
  <2> DEFINE l == [lights EXCEPT !.fsm = fsm]
             e == Blinks[fsm]
  <2>1. StartBlinker(fsm)
    BY <1>5 DEF LightsInput
  <2>2. l = [fsm |-> fsm, on |-> lights.on, event |-> lights.event, timer |-> lights.timer]
    <3> HIDE DEF fsm
    <3> QED BY <1>2, LightsWith DEF LightsShapes
  <2>3. e \in Outputs /\ e # "none"
    BY <1>3, <1>5, BlinksFacts DEF Outputs
  <2>4. CASE lights.timer = NoBlink
    <3> DEFINE m == [l EXCEPT !.event = e]
    <3>1. Raise(m, NoBlink) /\ UNCHANGED stopping
      BY <2>1, <2>4 DEF StartBlinker
    <3>2. m = [fsm |-> fsm, on |-> lights.on, event |-> e, timer |-> lights.timer]
      <4> HIDE DEF fsm, e, l
      <4>1. /\ l = [fsm |-> l.fsm, on |-> l.on, event |-> l.event, timer |-> l.timer]
            /\ l.fsm = fsm /\ l.on = lights.on /\ l.timer = lights.timer
        BY <2>2
      <4> QED BY <4>1, LightsWith
    <3>3. running = {} /\ ~lights.on /\ lamps = {}
      BY <1>2, <2>4 DEF BlinkerAtRest, NoBlink, BlinkIds
    <3>4. m.fsm = fsm /\ m.on = lights.on /\ m.event = e /\ m.timer = lights.timer
      BY <3>2
    <3>5. m = [fsm |-> m.fsm, on |-> m.on, event |-> m.event, timer |-> m.timer] /\ m.on \in BOOLEAN
      BY <1>2, <3>2, <3>4 DEF LightsShapes
    <3> HIDE DEF m, l, e, fsm
    <3>6. /\ lights' = [fsm |-> fsm, on |-> ~m.on, event |-> e, timer |-> NextId]
          /\ running' = {NextId} /\ NextId \in BlinkIds
          /\ lamps' = IF m.on THEN lamps \ {e} ELSE lamps \cup {e}
      <4>1. running \subseteq {NoBlink}
        BY <3>3
      <4>2. /\ lights' = [fsm |-> m.fsm, on |-> ~m.on, event |-> m.event, timer |-> NextId]
            /\ running' = {NextId} /\ NextId \in BlinkIds
            /\ lamps' = IF m.on THEN lamps \ {m.event} ELSE lamps \cup {m.event}
        BY <3>1, <3>5, <4>1, RaiseFacts
      <4> QED BY <3>4, <4>2
    <3>7. lamps' = LampsOf(lights') /\ lights'.fsm = fsm /\ lights'.event = e /\ lights'.timer = NextId
      BY <3>3, <3>4, <3>6 DEF LampsOf
    <3>8. LightsShapes'
      BY <1>2, <1>3, <3>1, <3>6 DEF LightsShapes
    <3>9. BlinkerAtRest'
      BY <1>5, <3>6, <3>7 DEF BlinkerAtRest, e
    <3> QED BY <1>1, <3>1, <3>8, <3>9 DEF LightsInv
  <2>5. CASE lights.timer # NoBlink
    <3>1. /\ lights' = l /\ UNCHANGED <<running, lamps>>
          /\ stopping' = IF lights.event = e THEN stopping
                         ELSE [at |-> "called", id |-> NoBlink, then |-> e]
      BY <2>1, <2>5 DEF StartBlinker
    <3>2. running = {lights.timer} /\ lights.timer \in BlinkIds /\ lamps = LampsOf(lights)
      BY <1>2, <2>5 DEF BlinkerAtRest
    <3> HIDE DEF l, fsm
    <3>3. /\ lights'.fsm = fsm /\ lights'.timer = lights.timer /\ lights'.event = lights.event
          /\ lamps' = LampsOf(lights')
      BY <2>2, <3>1, <3>2 DEF LampsOf
    <3>4. LightsShapes'
      <4>1. lights' = [fsm |-> fsm, on |-> lights.on, event |-> lights.event, timer |-> lights.timer]
        BY <2>2, <3>1
      <4>2. CASE UNCHANGED stopping
        BY <1>2, <1>3, <4>1, <4>2 DEF LightsShapes
      <4>3. CASE stopping' = [at |-> "called", id |-> NoBlink, then |-> e]
        BY <1>2, <1>3, <4>1, <4>3 DEF LightsShapes
      <4> QED BY <3>1, <4>2, <4>3
    <3>5. CASE lights.event = e
      BY <1>1, <1>5, <3>1, <3>2, <3>3, <3>4, <3>5 DEF LightsInv, BlinkerAtRest
    <3>6. CASE lights.event # e
      BY <3>1, <3>2, <3>3, <3>4, <3>6 DEF LightsInv, BlinkerStopping
    <3> QED BY <3>5, <3>6
  <2> QED BY <2>4, <2>5
<1> QED BY <1>4, <1>5

LEMMA LightsSyncInv == ASSUME LightsInv, LightsSync PROVE LightsInv'
<1> SUFFICES ASSUME ~struck' PROVE LightsInv'
  BY DEF LightsInv
<1>1. /\ ~struck /\ stopping.at = "no" /\ lights.fsm # "none" /\ UNCHANGED <<lights, running, lamps>>
      /\ stopping' = [at |-> "decided", id |-> NoBlink, then |-> Blinks[lights.fsm]]
  BY DEF LightsSync
<1>2. LightsShapes /\ BlinkerAtRest
  BY <1>1 DEF LightsInv
<1>3. LightsShapes'
  BY <1>1, <1>2 DEF LightsShapes
<1>4. lamps \subseteq {Blinks[lights.fsm]} \ {"none"}
  BY <1>1, <1>2, BlinksFacts DEF BlinkerAtRest, LightsShapes, LampsOf, Outputs
<1>5. BlinkerStopping'
  BY <1>1, <1>2, <1>4 DEF BlinkerStopping, BlinkerAtRest
<1> QED BY <1>1, <1>3, <1>5 DEF LightsInv

LEMMA FinalEventInv == ASSUME LightsInv, FinalEvent PROVE LightsInv'
<1> SUFFICES ASSUME ~struck' PROVE LightsInv'
  BY DEF LightsInv
<1>1. /\ ~struck /\ stopping.at = "called" /\ UNCHANGED <<lights, running>>
      /\ stopping' = [stopping EXCEPT !.at = "decided"]
      /\ lamps' = IF lights.on THEN lamps \ {lights.event} ELSE lamps
  BY DEF FinalEvent, Lit
<1>2. LightsShapes /\ BlinkerStopping
  BY <1>1 DEF LightsInv
<1>3. stopping' = [at |-> "decided", id |-> stopping.id, then |-> stopping.then]
  BY <1>1, <1>2 DEF LightsShapes
<1>4. lamps' = {}
  BY <1>1, <1>2 DEF BlinkerStopping, LampsOf
<1>5. LightsShapes' /\ BlinkerStopping'
  BY <1>1, <1>2, <1>3, <1>4 DEF LightsShapes, BlinkerStopping
<1> QED BY <1>3, <1>5 DEF LightsInv

LEMMA ReadTimerIdInv == ASSUME LightsInv, ReadTimerId PROVE LightsInv'
<1> SUFFICES ASSUME ~struck' PROVE LightsInv'
  BY DEF LightsInv
<1>1. /\ ~struck /\ stopping.at = "decided" /\ UNCHANGED <<lights, running, lamps>>
      /\ stopping' = [stopping EXCEPT !.at = "id read", !.id = lights.timer]
  BY DEF ReadTimerId
<1>2. LightsShapes /\ BlinkerStopping
  BY <1>1 DEF LightsInv
<1>3. stopping' = [at |-> "id read", id |-> lights.timer, then |-> stopping.then]
  BY <1>1, <1>2 DEF LightsShapes
<1>4. LightsShapes' /\ BlinkerStopping'
  BY <1>1, <1>2, <1>3 DEF LightsShapes, BlinkerStopping
<1> QED BY <1>3, <1>4 DEF LightsInv

LEMMA CancelBlinkInv == ASSUME LightsInv, CancelBlink PROVE LightsInv'
<1> SUFFICES ASSUME ~struck' PROVE LightsInv'
  BY DEF LightsInv
<1>1. /\ ~struck /\ stopping.at = "id read" /\ UNCHANGED <<lights, lamps>>
      /\ stopping' = [stopping EXCEPT !.at = "cancelled"] /\ running' = running \ {stopping.id}
  BY DEF CancelBlink
<1>2. LightsShapes /\ BlinkerStopping
  BY <1>1 DEF LightsInv
<1>3. stopping' = [at |-> "cancelled", id |-> stopping.id, then |-> stopping.then]
  BY <1>1, <1>2 DEF LightsShapes
<1>4. running' = {}
  BY <1>1, <1>2 DEF BlinkerStopping
<1>5. LightsShapes' /\ BlinkerStopping'
  BY <1>1, <1>2, <1>3, <1>4 DEF LightsShapes, BlinkerStopping
<1> QED BY <1>3, <1>5 DEF LightsInv

\* The blinker is reset, and blinks for the next light if there is one.
LEMMA ResetBlinkerInv == ASSUME LightsInv, ResetBlinker PROVE LightsInv'
<1> SUFFICES ASSUME ~struck' PROVE LightsInv'
  BY DEF LightsInv
<1> DEFINE s == Stopped(lights)
<1>1. /\ ~struck /\ stopping.at = "cancelled"
      /\ stopping' = [at |-> "no", id |-> NoBlink, then |-> "none"]
  BY DEF ResetBlinker
<1>2. /\ LightsShapes /\ running = {} /\ stopping.then = Blinks[lights.fsm]
      /\ lamps \subseteq {stopping.then} \ {"none"}
  BY <1>1 DEF LightsInv, BlinkerStopping
<1>3. s = [fsm |-> lights.fsm, on |-> FALSE, event |-> lights.event, timer |-> NoBlink]
  BY <1>2, StoppedFacts DEF LightsShapes
<1>4. stopping.then = "none" <=> lights.fsm = "none"
  BY <1>2, BlinksFacts DEF LightsShapes, Outputs
<1>5. CASE stopping.then = "none"
  <2>1. lights' = s /\ UNCHANGED <<running, lamps>>
    BY <1>5 DEF ResetBlinker
  <2>2. LightsShapes'
    BY <1>1, <1>2, <1>3, <2>1 DEF LightsShapes
  <2>3. BlinkerAtRest'
    BY <1>2, <1>3, <1>4, <1>5, <2>1 DEF BlinkerAtRest
  <2> QED BY <1>1, <2>2, <2>3 DEF LightsInv
<1>6. CASE stopping.then # "none"
  <2> DEFINE m == [s EXCEPT !.event = stopping.then]
  <2>1. Raise(m, NoBlink)
    BY <1>6 DEF ResetBlinker
  <2>2. m = [fsm |-> lights.fsm, on |-> FALSE, event |-> stopping.then, timer |-> NoBlink]
    <3> HIDE DEF s
    <3>1. /\ s = [fsm |-> s.fsm, on |-> s.on, event |-> s.event, timer |-> s.timer]
          /\ s.fsm = lights.fsm /\ s.on = FALSE /\ s.timer = NoBlink
      BY <1>3
    <3> QED BY <3>1, LightsWith
  <2>3. /\ m = [fsm |-> m.fsm, on |-> m.on, event |-> m.event, timer |-> m.timer]
        /\ m.on = FALSE /\ m.fsm = lights.fsm /\ m.event = stopping.then
    BY <2>2
  <2> HIDE DEF m, s
  <2>4. /\ lights' = [fsm |-> m.fsm, on |-> ~m.on, event |-> m.event, timer |-> NextId]
        /\ running' = {NextId} /\ NextId \in BlinkIds
        /\ lamps' = IF m.on THEN lamps \ {m.event} ELSE lamps \cup {m.event}
    BY <1>2, <2>1, <2>3, RaiseFacts
  <2>5. lamps' = {stopping.then}
    BY <1>2, <2>3, <2>4
  <2>6. lights' = [fsm |-> lights.fsm, on |-> TRUE, event |-> stopping.then, timer |-> NextId]
    BY <2>3, <2>4
  <2>7. LightsShapes'
    BY <1>1, <1>2, <2>6 DEF LightsShapes
  <2>8. BlinkerAtRest'
    BY <1>2, <1>4, <1>6, <2>4, <2>5, <2>6 DEF BlinkerAtRest, LampsOf
  <2> QED BY <1>1, <2>7, <2>8 DEF LightsInv
<1> QED BY <1>5, <1>6

LEMMA LightsInvNext == LightsInv /\ [LightsGo]_lightsVars => LightsInv'
<1> SUFFICES ASSUME LightsInv, [LightsGo]_lightsVars PROVE LightsInv'
  OBVIOUS
<1>1. CASE UNCHANGED lightsVars
  BY <1>1 DEF lightsVars, LightsInv, LightsShapes, BlinkerAtRest, BlinkerStopping
<1> QED BY <1>1, BlinkTimerInv, LightsInputInv, LightsSyncInv, FinalEventInv, ReadTimerIdInv,
           CancelBlinkInv, ResetBlinkerInv DEF LightsGo, LightsMoves

\* Once the blinker is started or stopped no lamp is lit but the one of the FSM's state, for every
\* order of inputs, syncs and timer callbacks of which none strikes between the final event and the
\* cancel of blink_event_generator_stop (LampsFollowSignal).
THEOREM LampsAlwaysFollowSignal == LightsSpec => []LampsFollowSignal
<1>1. LightsInv => LampsFollowSignal
  BY BlinksFacts DEF LightsInv, LightsShapes, BlinkerAtRest, LampsOf, LampsFollowSignal, Outputs
<1> QED BY LightsInitInv, LightsInvNext, <1>1, PTL DEF LightsSpec

\* Likewise one timer runs while a signal is on and none otherwise, and it is the one that a stop
\* would cancel (OneBlinker).
THEOREM AlwaysOneBlinker == LightsSpec => []OneBlinker
<1>1. LightsInv => OneBlinker
  BY DEF LightsInv, BlinkerAtRest, OneBlinker
<1> QED BY LightsInitInv, LightsInvNext, <1>1, PTL DEF LightsSpec

-----------------------------------------------------------------------------
(* The datagrams of a bootloader: a reception is watched                    *)

\* Events that drive the FSM on; the watchdog raises hard errors only.
Driving == {"rx", "tx", "repeat", "soft error"}
Raisable == Driving \cup {"hard error"}
In(e, q) == \E i \in DOMAIN q : q[i] = e

\* What is watched: the FSM receives, or the event that makes it receive waits.
Expecting == dgram.fsm = "rx" \/ (dgram.fsm = "idle" /\ In("rx", queue))
Watched == dogs # {} \/ \E e \in Error : In(e, queue)

Formed(d) ==
  /\ d = [fsm |-> d.fsm, field |-> d.field, status |-> d.status, listening |-> d.listening,
          soft |-> d.soft, nodes |-> d.nodes, size |-> d.size, sent |-> d.sent, dog |-> d.dog]
  /\ d.fsm \in {"idle", "rx", "tx", "done"}
  /\ d.listening \in BOOLEAN /\ d.soft \in BOOLEAN

DatagramShapes == queue \in Seq(Raisable) /\ Formed(dgram)

OneDriving(q) == \A i, j \in DOMAIN q : q[i] \in Driving /\ q[j] \in Driving => i = j
NoneDriving(q) == \A i \in DOMAIN q : q[i] \notin Driving

\* One event at a time drives the FSM, and none while a start would be accepted; so the rx event
\* of a start is the only one, and the watchdog started with it runs until its error is raised.
WatchInv ==
  /\ DatagramShapes
  /\ OneDriving(queue)
  /\ dgram.listening = TRUE /\ (dgram.status # "active" \/ dgram.soft = TRUE) => NoneDriving(queue)
  /\ dgram.status = "active" /\ Expecting => Watched

LEMMA EventTaken ==
  ASSUME NEW q \in Seq(Raisable), q # <<>>, NEW r, r = Tail(q)
  PROVE  /\ r \in Seq(Raisable) /\ Head(q) \in Raisable /\ In(Head(q), q)
         /\ OneDriving(q) => OneDriving(r) /\ (Head(q) \in Driving => NoneDriving(r))
         /\ NoneDriving(q) => NoneDriving(r) /\ Head(q) \notin Driving
         /\ \A e : In(e, r) => In(e, q)
         /\ \A e : In(e, q) => e = Head(q) \/ In(e, r)
<1>1. /\ Len(q) \in Nat /\ Len(q) >= 1 /\ DOMAIN q = 1 .. Len(q) /\ DOMAIN r = 1 .. Len(q) - 1
      /\ r \in Seq(Raisable) /\ Head(q) = q[1] /\ Head(q) \in Raisable
      /\ \A i \in DOMAIN r : r[i] = q[i + 1]
  OBVIOUS
<1>2. \A i \in DOMAIN r : i + 1 \in DOMAIN q /\ i + 1 # 1
  BY <1>1
<1>3. ASSUME NEW i \in DOMAIN q, i # 1 PROVE i - 1 \in DOMAIN r /\ r[i - 1] = q[i]
  <2>1. i \in Int /\ i - 1 \in DOMAIN r
    BY <1>1, <1>3
  <2>2. r[i - 1] = q[(i - 1) + 1] /\ (i - 1) + 1 = i
    BY <1>1, <2>1
  <2> QED BY <2>1, <2>2
<1>4. 1 \in DOMAIN q
  BY <1>1
<1>5. ASSUME OneDriving(q) PROVE OneDriving(r)
  <2>1. ASSUME NEW i \in DOMAIN r, NEW j \in DOMAIN r, r[i] \in Driving, r[j] \in Driving PROVE i = j
    <3>1. i + 1 = j + 1
      BY <1>1, <1>2, <1>5, <2>1 DEF OneDriving
    <3> QED BY <1>1, <3>1
  <2> QED BY <2>1 DEF OneDriving
<1>6. ASSUME OneDriving(q), Head(q) \in Driving PROVE NoneDriving(r)
  BY <1>1, <1>2, <1>4, <1>6 DEF OneDriving, NoneDriving
<1>7. ASSUME NoneDriving(q) PROVE NoneDriving(r) /\ Head(q) \notin Driving
  BY <1>1, <1>2, <1>4, <1>7 DEF NoneDriving
<1>8. \A e : In(e, r) => In(e, q)
  BY <1>1, <1>2 DEF In
<1>9. \A e : In(e, q) => e = Head(q) \/ In(e, r)
  <2>1. ASSUME NEW i \in DOMAIN q PROVE q[i] = Head(q) \/ In(q[i], r)
    BY <1>1, <1>3 DEF In
  <2> QED BY <2>1 DEF In
<1> QED BY <1>1, <1>4, <1>5, <1>6, <1>7, <1>8, <1>9 DEF In

LEMMA EventRaised ==
  ASSUME NEW q \in Seq(Raisable), NEW e \in Raisable, NEW r, r = Append(q, e)
  PROVE  /\ r \in Seq(Raisable)
         /\ NoneDriving(q) => OneDriving(r)
         /\ e \notin Driving => (OneDriving(q) => OneDriving(r)) /\ (NoneDriving(q) => NoneDriving(r))
         /\ \A x : In(x, r) <=> In(x, q) \/ x = e
<1>1. /\ Len(q) \in Nat /\ DOMAIN q = 1 .. Len(q) /\ DOMAIN r = 1 .. Len(q) + 1
      /\ r \in Seq(Raisable) /\ r[Len(q) + 1] = e /\ \A i \in DOMAIN q : r[i] = q[i]
  OBVIOUS
<1>2. \A i \in DOMAIN r : i \in DOMAIN q \/ i = Len(q) + 1
  BY <1>1
<1>3. Len(q) + 1 \in DOMAIN r /\ \A i \in DOMAIN q : i \in DOMAIN r
  BY <1>1
<1>4. NoneDriving(q) => OneDriving(r)
  BY <1>1, <1>2 DEF NoneDriving, OneDriving
<1>5. ASSUME e \notin Driving PROVE (OneDriving(q) => OneDriving(r)) /\ (NoneDriving(q) => NoneDriving(r))
  BY <1>1, <1>2, <1>5 DEF NoneDriving, OneDriving
<1>6. \A x : In(x, r) <=> In(x, q) \/ x = e
  BY <1>1, <1>2, <1>3 DEF In
<1> QED BY <1>1, <1>4, <1>5, <1>6

\* An event taken and another raised.
LEMMA EventCycled ==
  ASSUME NEW q \in Seq(Raisable), q # <<>>, OneDriving(q), NEW e \in Raisable, NEW r,
         r = Append(Tail(q), e), e \in Driving => Head(q) \in Driving
  PROVE  /\ r \in Seq(Raisable) /\ OneDriving(r) /\ In(e, r)
         /\ NoneDriving(q) => NoneDriving(r)
         /\ Head(q) \in Driving /\ e \notin Driving => NoneDriving(r)
         /\ \A x : In(x, q) => x = Head(q) \/ In(x, r)
         /\ \A x \in Driving : In(x, r) => x = e \/ Head(q) \notin Driving
<1> DEFINE t == Tail(q)
<1>1. /\ t \in Seq(Raisable) /\ OneDriving(t) /\ (Head(q) \in Driving => NoneDriving(t))
      /\ NoneDriving(q) => NoneDriving(t) /\ Head(q) \notin Driving
      /\ \A x : In(x, q) => x = Head(q) \/ In(x, t)
  BY EventTaken
<1>2. r = Append(t, e)
  OBVIOUS
<1> HIDE DEF t
<1>3. /\ r \in Seq(Raisable) /\ (NoneDriving(t) => OneDriving(r)) /\ \A x : In(x, r) <=> In(x, t) \/ x = e
      /\ e \notin Driving => (OneDriving(t) => OneDriving(r)) /\ (NoneDriving(t) => NoneDriving(r))
  BY <1>1, <1>2, EventRaised
<1>4. NoneDriving(t) => \A x \in Driving : ~In(x, t)
  BY DEF NoneDriving, In
<1> QED BY <1>1, <1>3, <1>4

\* A step of the FSM on the rx or tx side leaves the board listening or not and active or not.
SameListener(d, c) == d.status = c.status /\ d.listening = c.listening /\ d.soft = c.soft

LEMMA ReadFieldMakes ==
  ASSUME DatagramShapes, NEW field, ReadField(field)
  PROVE  /\ Formed(dgram') /\ SameListener(dgram', dgram) /\ dgram'.fsm = "rx"
         /\ \E e \in {"rx", "repeat", "soft error", "hard error"} : queue' = Append(Tail(queue), e)
<1>1. PICK d : d = [dgram EXCEPT !.fsm = "rx", !.field = field]
  OBVIOUS
<1>2. Formed(d) /\ SameListener(d, dgram) /\ d.fsm = "rx"
  BY <1>1 DEF DatagramShapes, Formed, SameListener
<1>3. ASSUME NEW v, NEW c, c = [d EXCEPT !.nodes = v] \/ c = [d EXCEPT !.size = v]
      PROVE  Formed(c) /\ SameListener(c, dgram) /\ c.fsm = "rx"
  <2>1. c = [d EXCEPT !.nodes = v] => Formed(c) /\ SameListener(c, dgram) /\ c.fsm = "rx"
    BY <1>2 DEF Formed, SameListener
  <2>2. c = [d EXCEPT !.size = v] => Formed(c) /\ SameListener(c, dgram) /\ c.fsm = "rx"
    BY <1>2 DEF Formed, SameListener
  <2> QED BY <1>3, <2>1, <2>2
<1>4. dgram' = d \/ \E v : dgram' = [d EXCEPT !.nodes = v] \/ dgram' = [d EXCEPT !.size = v]
  BY <1>1 DEF ReadField
<1>5. \E e \in {"rx", "repeat", "soft error", "hard error"} : queue' = Append(Tail(queue), e)
  BY DEF ReadField, Raised
<1> QED BY <1>2, <1>3, <1>4, <1>5

LEMMA WriteFieldMakes ==
  ASSUME DatagramShapes, NEW field, WriteField(field)
  PROVE  /\ Formed(dgram') /\ SameListener(dgram', dgram) /\ dgram'.fsm = "tx"
         /\ \E e \in {"tx", "repeat"} : queue' = Append(Tail(queue), e)
<1>1. \E v : dgram' = [dgram EXCEPT !.fsm = "tx", !.field = field, !.sent = v]
  BY DEF WriteField
<1>2. \E e \in {"tx", "repeat"} : queue' = Append(Tail(queue), e)
  BY DEF WriteField, Raised
<1> QED BY <1>1, <1>2 DEF DatagramShapes, Formed, SameListener

-----------------------------------------------------------------------------

LEMMA WatchInit == DatagramInit => WatchInv
BY DEF DatagramInit, WatchInv, DatagramShapes, Formed, OneDriving, NoneDriving, Expecting, In

\* The invariant from what a step makes of the event that drives the FSM.
LEMMA KickedMakes ==
  ASSUME NEW d, Formed(d), NEW active
  PROVE  LET w == Kicked(d, active)
         IN Formed(w.dgram) /\ SameListener(w.dgram, d) /\ w.dgram.fsm = d.fsm /\ w.dogs # {}
BY DEF Kicked, Formed, SameListener

LEMMA StartWatched == WatchInv /\ ReceiveStart => WatchInv'
<1> SUFFICES ASSUME WatchInv, ReceiveStart PROVE WatchInv'
  OBVIOUS
<1>1. CASE ~StartAccepted
  <2>1. UNCHANGED <<dgram, dogs, queue>>
    BY <1>1 DEF ReceiveStart
  <2> QED BY <2>1 DEF WatchInv, DatagramShapes, Expecting, Watched
<1>2. CASE StartAccepted
  <2> DEFINE c == [dgram EXCEPT !.status = "active", !.soft = FALSE]
             d == [c EXCEPT !.dog = NoDog]
             w == Kicked(d, dogs)
  <2>1. dgram' = w.dgram /\ dogs' = w.dogs /\ queue' = Append(queue, "rx")
    BY <1>2 DEF ReceiveStart, WatchdogStart
  <2>2. Formed(d) /\ d.status = "active" /\ d.soft = FALSE
    <3>2. PICK a : a = dgram
      OBVIOUS
    <3>3. Formed(a)
      BY <3>2 DEF WatchInv, DatagramShapes
    <3>4. PICK b : b = [a EXCEPT !.status = "active", !.soft = FALSE]
      OBVIOUS
    <3>5. Formed(b) /\ b.status = "active" /\ b.soft = FALSE
      BY <3>3, <3>4 DEF Formed
    <3>6. PICK e : e = [b EXCEPT !.dog = NoDog]
      OBVIOUS
    <3>7. Formed(e) /\ e.status = "active" /\ e.soft = FALSE
      BY <3>5, <3>6 DEF Formed
    <3>8. d = e
      BY <3>2, <3>4, <3>6
    <3> QED BY <3>7, <3>8
  <2> HIDE DEF d
  <2>3. Formed(dgram') /\ SameListener(dgram', d) /\ dogs' # {}
    BY <2>1, <2>2, KickedMakes
  <2>4. NoneDriving(queue) /\ queue \in Seq(Raisable) /\ "rx" \in Raisable
    BY <1>2 DEF StartAccepted, WatchInv, DatagramShapes, Raisable, Driving
  <2>5. queue' \in Seq(Raisable) /\ OneDriving(queue')
    BY <2>1, <2>4, EventRaised
  <2>6. DatagramShapes'
    BY <2>3, <2>5 DEF DatagramShapes, Formed
  <2> QED BY <2>2, <2>3, <2>5, <2>6 DEF WatchInv, SameListener, Watched
<1> QED BY <1>1, <1>2

LEMMA DataWatched == WatchInv /\ ReceiveData => WatchInv'
<1> SUFFICES ASSUME WatchInv, ReceiveData PROVE WatchInv'
  OBVIOUS
<1>1. UNCHANGED queue
  BY DEF ReceiveData
<1>2. CASE UNCHANGED <<dgram, dogs>>
  BY <1>1, <1>2 DEF WatchInv, DatagramShapes, Expecting, Watched
<1>3. CASE ~UNCHANGED <<dgram, dogs>>
  <2>1. dgram' = Kicked(dgram, dogs).dgram /\ dogs' = Kicked(dgram, dogs).dogs
    BY <1>3 DEF ReceiveData
  <2>2. Formed(dgram)
    BY DEF WatchInv, DatagramShapes, Formed
  <2>3. Formed(dgram') /\ SameListener(dgram', dgram) /\ dogs' # {}
    BY <2>1, <2>2, KickedMakes
  <2>4. DatagramShapes'
    BY <1>1, <2>3 DEF WatchInv, DatagramShapes, Formed
  <2> QED BY <1>1, <2>3, <2>4 DEF WatchInv, SameListener, Watched
<1> QED BY <1>2, <1>3

LEMMA ExpiryWatched == ASSUME WatchInv, NEW i, WatchdogExpires(i) PROVE WatchInv'
<1>1. queue' = Append(queue, "hard error") /\ UNCHANGED dgram
  BY DEF WatchdogExpires
<1>2. queue \in Seq(Raisable) /\ "hard error" \in Raisable /\ "hard error" \notin Driving
  BY DEF WatchInv, DatagramShapes, Raisable, Driving
<1>3. /\ queue' \in Seq(Raisable) /\ In("hard error", queue')
      /\ OneDriving(queue) => OneDriving(queue')
      /\ NoneDriving(queue) => NoneDriving(queue')
  BY <1>1, <1>2, EventRaised
<1>4. DatagramShapes'
  BY <1>1, <1>3 DEF WatchInv, DatagramShapes
<1> QED BY <1>1, <1>3, <1>4 DEF WatchInv, Watched, Error

\* A step of the rx side: the error of the watchdog stays in the queue.
LEMMA RxWatched ==
  ASSUME WatchInv, queue # <<>>, RxEvent(Head(queue))
  PROVE  WatchInv'
<1> DEFINE h == Head(queue)
<1>1. /\ h \in {"rx", "repeat"} /\ dgram.fsm \in {"idle", "rx"} /\ (dgram.fsm = "idle" => h = "rx")
      /\ UNCHANGED dogs /\ \E field : ReadField(field)
  BY DEF RxEvent
<1>2. DatagramShapes /\ queue \in Seq(Raisable) /\ OneDriving(queue)
  BY DEF WatchInv, DatagramShapes
<1>3. PICK e \in {"rx", "repeat", "soft error", "hard error"} : queue' = Append(Tail(queue), e)
  BY <1>1, <1>2, ReadFieldMakes
<1>4. Formed(dgram') /\ SameListener(dgram', dgram) /\ dgram'.fsm = "rx"
  BY <1>1, <1>2, ReadFieldMakes
<1>5. e \in Raisable /\ h \in Driving
  BY <1>1 DEF Raisable, Driving
<1>6. In(h, queue)
  BY <1>2, EventTaken
<1> HIDE DEF h
<1>7. /\ queue' \in Seq(Raisable) /\ OneDriving(queue')
      /\ NoneDriving(queue) => NoneDriving(queue')
      /\ \A x : In(x, queue) => x = h \/ In(x, queue')
  BY <1>2, <1>3, <1>5, EventCycled DEF h
<1>8. dgram.status = "active" => Watched
  <2>1. CASE dgram.fsm = "rx"
    BY <2>1 DEF WatchInv, Expecting
  <2>2. CASE dgram.fsm = "idle"
    <3>1. In("rx", queue)
      BY <1>1, <1>6, <2>2
    <3> QED BY <2>2, <3>1 DEF WatchInv, Expecting
  <2> QED BY <1>1, <2>1, <2>2
<1>9. Watched => Watched'
  BY <1>1, <1>7 DEF Error, Watched
<1>10. DatagramShapes'
  BY <1>4, <1>7 DEF DatagramShapes, Formed
<1> QED BY <1>1, <1>4, <1>7, <1>8, <1>9, <1>10 DEF WatchInv, SameListener

LEMMA TxWatched ==
  ASSUME WatchInv, queue # <<>>, TxEvent(Head(queue))
  PROVE  WatchInv'
<1> DEFINE h == Head(queue)
<1>1. h \in {"tx", "repeat"} /\ \E field : WriteField(field)
  BY DEF TxEvent
<1>2. DatagramShapes /\ queue \in Seq(Raisable) /\ OneDriving(queue)
  BY DEF WatchInv, DatagramShapes
<1>3. PICK e \in {"tx", "repeat"} : queue' = Append(Tail(queue), e)
  BY <1>1, <1>2, WriteFieldMakes
<1>4. Formed(dgram') /\ SameListener(dgram', dgram) /\ dgram'.fsm = "tx"
  BY <1>1, <1>2, WriteFieldMakes
<1>5. e \in Raisable /\ h \in Driving
  BY <1>1 DEF Raisable, Driving
<1>6. queue' \in Seq(Raisable) /\ OneDriving(queue') /\ (NoneDriving(queue) => NoneDriving(queue'))
  BY <1>2, <1>3, <1>5, EventCycled
<1>7. DatagramShapes'
  BY <1>4, <1>6 DEF DatagramShapes, Formed
<1> QED BY <1>4, <1>6, <1>7 DEF WatchInv, SameListener, Expecting

LEMMA EndWatched ==
  ASSUME WatchInv, queue # <<>>, EndEvent(Head(queue))
  PROVE  WatchInv'
<1> DEFINE h == Head(queue)
<1>1. /\ queue' = Append(Tail(queue), h) /\ dgram' = [dgram EXCEPT !.fsm = "done", !.dog = NoDog]
  BY DEF EndEvent, Finish, Raised
<1>2. DatagramShapes /\ queue \in Seq(Raisable) /\ OneDriving(queue)
  BY DEF WatchInv, DatagramShapes
<1>3. Formed(dgram') /\ SameListener(dgram', dgram) /\ dgram'.fsm = "done"
  BY <1>1, <1>2 DEF DatagramShapes, Formed, SameListener
<1>4. h \in Raisable
  BY <1>2, EventTaken
<1>5. queue' \in Seq(Raisable) /\ OneDriving(queue') /\ (NoneDriving(queue) => NoneDriving(queue'))
  BY <1>1, <1>2, <1>4, EventCycled
<1>6. DatagramShapes'
  BY <1>3, <1>5 DEF DatagramShapes, Formed
<1> QED BY <1>3, <1>5, <1>6 DEF WatchInv, SameListener, Expecting

\* A datagram is dispatched, an answer or a reception is over: what drove the FSM is used up.
LEMMA IdleWatched ==
  ASSUME WatchInv, queue # <<>>, IdleEvent(Head(queue))
  PROVE  WatchInv'
<1> DEFINE h == Head(queue)
           t == Tail(queue)
<1>1. DatagramShapes /\ queue \in Seq(Raisable) /\ OneDriving(queue) /\ Formed(dgram)
  BY DEF WatchInv, DatagramShapes, Formed
<1>2. /\ t \in Seq(Raisable) /\ h \in Raisable /\ OneDriving(t)
      /\ h \in Driving => NoneDriving(t)
  BY <1>1, EventTaken
<1>3. h # "repeat" /\ Idle(h)
  BY DEF IdleEvent
<1>4. \A x : In("rx", x) => ~NoneDriving(x)
  BY DEF In, NoneDriving, Driving
<1>5. CASE h = "rx"
  <2>1. CASE queue' = t /\ dgram' = [dgram EXCEPT !.fsm = "idle", !.listening = FALSE, !.status = "rx complete"]
    <3>1. Formed(dgram') /\ dgram'.listening = FALSE /\ dgram'.status = "rx complete"
      BY <1>1, <2>1 DEF Formed
    <3>2. DatagramShapes'
      BY <1>2, <2>1, <3>1 DEF DatagramShapes, Formed
    <3> QED BY <1>2, <2>1, <3>1, <3>2 DEF WatchInv
  <2>2. CASE queue' = Append(t, "tx") /\ dgram' = [dgram EXCEPT !.fsm = "idle", !.listening = FALSE, !.status = "active"]
    <3>1. Formed(dgram') /\ dgram'.listening = FALSE /\ dgram'.fsm = "idle"
      BY <1>1, <2>2 DEF Formed
    <3>2. NoneDriving(t) /\ "tx" \in Raisable
      BY <1>2, <1>5 DEF Driving, Raisable
    <3>3. queue' \in Seq(Raisable) /\ OneDriving(queue') /\ (In("rx", queue') <=> In("rx", t) \/ "rx" = "tx")
      BY <1>2, <2>2, <3>2, EventRaised
    <3>4. ~In("rx", queue')
      BY <1>4, <3>2, <3>3
    <3>5. DatagramShapes'
      BY <3>1, <3>3 DEF DatagramShapes, Formed
    <3> QED BY <3>1, <3>3, <3>4, <3>5 DEF WatchInv, Expecting
  <2> QED BY <1>3, <1>5, <2>1, <2>2 DEF Idle, Dispatch, Raised
<1>6. CASE h = "tx"
  <2>1. dgram' = [dgram EXCEPT !.fsm = "idle", !.status = "tx complete", !.listening = TRUE] /\ queue' = t
    BY <1>3, <1>6 DEF Idle
  <2>2. Formed(dgram') /\ dgram'.status = "tx complete"
    BY <1>1, <2>1 DEF Formed
  <2>3. NoneDriving(queue')
    BY <1>2, <1>6, <2>1 DEF Driving
  <2>4. DatagramShapes'
    BY <1>2, <2>1, <2>2 DEF DatagramShapes, Formed
  <2> QED BY <1>2, <2>1, <2>2, <2>3, <2>4 DEF WatchInv
<1>7. CASE h = "hard error"
  <2>1. dgram' = [dgram EXCEPT !.fsm = "idle", !.status = "error", !.listening = FALSE] /\ queue' = t
    BY <1>3, <1>7 DEF Idle
  <2>2. Formed(dgram') /\ dgram'.status = "error" /\ dgram'.listening = FALSE
    BY <1>1, <2>1 DEF Formed
  <2>3. DatagramShapes'
    BY <1>2, <2>1, <2>2 DEF DatagramShapes, Formed
  <2> QED BY <1>2, <2>1, <2>2, <2>3 DEF WatchInv
<1>8. CASE h = "soft error"
  <2>1. dgram' = [dgram EXCEPT !.fsm = "idle", !.soft = TRUE] /\ queue' = t
    BY <1>3, <1>8 DEF Idle
  <2>2. Formed(dgram') /\ dgram'.fsm = "idle"
    BY <1>1, <2>1 DEF Formed
  <2>3. NoneDriving(queue')
    BY <1>2, <1>8, <2>1 DEF Driving
  <2>4. ~In("rx", queue')
    BY <1>4, <2>3
  <2>5. DatagramShapes'
    BY <1>2, <2>1, <2>2 DEF DatagramShapes, Formed
  <2> QED BY <1>2, <2>1, <2>2, <2>3, <2>4, <2>5 DEF WatchInv, Expecting
<1> QED BY <1>2, <1>3, <1>5, <1>6, <1>7, <1>8 DEF Raisable, Driving

\* An event that the FSM does not take was the only one that drove it.
LEMMA DroppedWatched ==
  ASSUME WatchInv, queue # <<>>, NoTransition(Head(queue))
  PROVE  WatchInv'
<1> DEFINE h == Head(queue)
           t == Tail(queue)
<1>1. DatagramShapes /\ queue \in Seq(Raisable) /\ OneDriving(queue)
  BY DEF WatchInv, DatagramShapes
<1>2. h \in {"repeat", "tx", "rx"} /\ queue' = t /\ UNCHANGED <<dgram, dogs>> /\ (h = "rx" => dgram.fsm = "tx")
  BY <1>1 DEF NoTransition, DatagramShapes, Formed
<1>3. /\ t \in Seq(Raisable) /\ OneDriving(t) /\ (NoneDriving(queue) => NoneDriving(t))
      /\ \A e : In(e, t) => In(e, queue)
      /\ \A e : In(e, queue) => e = h \/ In(e, t)
  BY <1>1, EventTaken
<1> HIDE DEF h, t
<1>4. Watched => Watched'
  BY <1>2, <1>3 DEF Error, Watched
<1>5. DatagramShapes'
  BY <1>1, <1>2, <1>3 DEF DatagramShapes
<1>6. Expecting' => Expecting
  BY <1>2, <1>3 DEF Expecting
<1> QED BY <1>2, <1>3, <1>4, <1>5, <1>6 DEF WatchInv

LEMMA WatchNext == WatchInv /\ [DatagramNext]_datagramVars => WatchInv'
<1> SUFFICES ASSUME WatchInv, [DatagramNext]_datagramVars PROVE WatchInv'
  OBVIOUS
<1>1. CASE UNCHANGED <<dgram, queue, dogs>>
  BY <1>1 DEF WatchInv, DatagramShapes, Expecting, Watched
<1>2. CASE ReceiveStart \/ ReceiveData
  BY <1>2, StartWatched, DataWatched
<1>3. ASSUME NEW i, WatchdogExpires(i) PROVE WatchInv'
  BY <1>3, ExpiryWatched
<1>4. CASE can_datagram_process_event
  BY <1>4, RxWatched, TxWatched, EndWatched, IdleWatched, DroppedWatched DEF can_datagram_process_event
<1>5. UNCHANGED datagramVars \/ ClientSends \/ FrameLost => UNCHANGED <<dgram, queue, dogs>>
  BY DEF datagramVars, ClientSends, FrameLost
<1> QED BY <1>1, <1>2, <1>3, <1>4, <1>5 DEF DatagramNext

\* While a bootloader receives a datagram its watchdog runs or has raised the error that ends the
\* reception (ReceptionWatched), whatever frames are lost or late:
\* can_datagram.c accepts a start only when no event is left that drives the FSM.
THEOREM ReceptionAlwaysWatched == DatagramSpec => []ReceptionWatched
<1>1. WatchInv => ReceptionWatched
  <2>1. ASSUME NEW e, In(e, queue) PROVE e \in Range(queue)
    BY <2>1 DEF In, Range
  <2>2. ASSUME WatchInv, dgram.fsm = "rx", dgram.status = "active", dogs = {}
        PROVE  ({"rx"} \cup Error) \cap Range(queue) # {}
    <3>1. Watched
      BY <2>2 DEF WatchInv, Expecting
    <3>2. PICK e \in Error : In(e, queue)
      BY <2>2, <3>1 DEF Watched
    <3> QED BY <2>1, <3>2
  <2> QED BY <2>2 DEF ReceptionWatched
<1> QED BY WatchInit, WatchNext, <1>1, PTL DEF DatagramSpec

-----------------------------------------------------------------------------
(* The datagrams of a bootloader: what is dispatched                        *)

\* Where the first byte of the k-th command is: in the fifo, still on the bus, or read.
InFifo(k) == \E i \in DOMAIN fifo : fifo[i] = <<k, 1>>
Coming(k) == k = client /\ bus # <<>> /\ Tail(bus) # <<>>
Taken(k) == (got # <<>> /\ got[1] = <<k, 1>>) \/ \E i \in DOMAIN handled : handled[i] = Command(k)

FirstFrame == SubSeq(Command(client), 1, FrameLen)
LastFrame == SubSeq(Command(client), FrameLen + 1, 11)

ByteSeq == Seq(Nat \X Nat)
FieldSet == {"protocol_version", "crc", "dgram_type", "dst_len", "dst", "data_len", "data"}

OnceOnly(f) == \A i, j \in DOMAIN f, k \in Nat \ {0} : f[i] = <<k, 1>> /\ f[j] = <<k, 1>> => i = j

LengthsTyped(d) ==
  /\ d.field \in FieldSet /\ d.nodes \in Misread /\ d.size \in Nat
  /\ d.sent \in 0 .. AnswerLen - 1

BytesShapes ==
  /\ LengthsTyped(dgram)
  /\ client \in 0 .. Len(Commands)
  /\ fifo \in ByteSeq /\ got \in ByteSeq /\ handled \in Seq(ByteSeq)
  /\ bus \in {<<>>, <<LastFrame>>, <<FirstFrame, LastFrame>>, <<Start, FirstFrame, LastFrame>>}
  /\ bus # <<>> => client # 0

\* The first byte of a command passes once, from the bus over the fifo to a reception.
BytesInv ==
  /\ BytesShapes
  /\ \A i \in DOMAIN fifo : fifo[i][1] =< client
  /\ got # <<>> => got[1][1] =< client
  /\ \A i \in DOMAIN handled : handled[i] # <<>> => handled[i][1][1] =< client
  /\ OnceOnly(fifo)
  /\ \A k \in 1 .. client : Coming(k) => ~InFifo(k)
  /\ \A k \in 1 .. client : Taken(k) => ~InFifo(k) /\ ~Coming(k)

\* An event that drives the FSM is one of the side it is on.
FlowInv ==
  /\ ~Mixed(queue)
  /\ dgram.fsm = "rx" => (\E e \in {"rx", "repeat"} \cup Error : In(e, queue)) /\ ~In("tx", queue)
  /\ dgram.fsm = "tx" => (\E e \in {"tx", "repeat"} \cup Error : In(e, queue)) /\ ~In("rx", queue)
  /\ dgram.fsm = "done" => \E e \in {"rx", "tx"} \cup Error : In(e, queue)

\* Bytes of a datagram up to a field, and with it.
Begin(field, nodes) ==
  CASE field = "protocol_version" -> 0
    [] field = "crc"              -> 1
    [] field = "dgram_type"       -> 5
    [] field = "dst_len"          -> 6
    [] field = "dst"              -> 7
    [] field = "data_len"         -> 7 + nodes
    [] field = "data"             -> 9 + nodes
End(field, nodes, size) == Begin(field, nodes) + FieldLen(field, nodes, size)

ForBoard ==
  /\ dgram.nodes # 0
  /\ dgram.nodes = 1 => \A k \in Nat : got[8] = <<k, 8>> => Addressed(k)

\* The board reads a field, or has read it.
ReadInv ==
  dgram.fsm = "rx" =>
    /\ In("rx", queue) =>
         /\ Len(got) = End(dgram.field, dgram.nodes, dgram.size)
         /\ dgram.field \in {"dst", "data_len", "data"} => ForBoard
    /\ In("repeat", queue) /\ dgram.field # "protocol_version" =>
         /\ Len(got) = Begin(dgram.field, dgram.nodes)
         /\ dgram.field \in {"data_len", "data"} => ForBoard

Complete == In("rx", queue) /\ (dgram.fsm = "done" \/ (dgram.fsm = "rx" /\ dgram.field = "data"))
Begun ==
  \/ dgram.fsm = "rx" /\ (In("rx", queue) \/ (In("repeat", queue) /\ dgram.field # "protocol_version"))
  \/ dgram.fsm = "done" /\ In("rx", queue)
ForUs(d) == \E k \in 1 .. client : Addressed(k) /\ d = Command(k)

\* A command read whole is one sent to this board, and no command dispatched is begun again.
HandledInv ==
  /\ Complete => ForUs(got)
  /\ Begun => \A i \in DOMAIN handled, k \in Nat : got[1] = <<k, 1>> => handled[i] # Command(k)
  /\ \A i \in DOMAIN handled : ForUs(handled[i])
  /\ IsInjective(handled)

\* While it answers the board does not listen, and data are half transmitted only then.
SentInv ==
  /\ In("tx", queue) \/ dgram.fsm = "tx" => dgram.listening = FALSE
  /\ dgram.sent # 0 =>
       /\ dgram.listening = FALSE /\ dgram.fsm # "rx"
       /\ dgram.fsm = "tx" => dgram.field = "data"
       /\ \A e \in {"rx", "tx", "soft error"} : ~In(e, queue)

UpTo(p) == SubSeq(Answer, 1, p)

\* An answer under way, nothing of a reception being left: what was transmitted and what is in
\* the fifo are the answer up to the field written last.
Clean ==
  /\ dogs = {} /\ dgram.status = "active" /\ answer \in ByteSeq
  /\ \/ queue = <<"tx">> /\ dgram.fsm = "idle" /\ fifo = <<>> /\ answer = <<>>
     \/ /\ queue = <<"tx">> /\ dgram.fsm = "tx" /\ dgram.field # "data" /\ Len(fifo) < FrameLen
        /\ answer \o fifo = UpTo(Before(dgram.field) + FieldLen(dgram.field, 0, AnswerLen))
     \/ /\ queue = <<"repeat">> /\ dgram.fsm = "tx" /\ dgram.field = "data" /\ Len(fifo) < FrameLen
        /\ dgram.sent \in 1 .. AnswerLen - 1
        /\ answer \o fifo = UpTo(9 + dgram.sent)
     \/ queue = <<"tx">> /\ dgram.fsm \in {"tx", "done"} /\ dgram.field = "data" /\ answer = Answer

AnswerInv ==
  ~residue =>
     IF dgram.fsm = "tx" \/ In("tx", queue) THEN Clean
     ELSE dgram.status = "tx complete" => answer = Answer

LEMMA CommandBytes ==
  ASSUME NEW k \in Nat
  PROVE  Command(k) \in ByteSeq /\ Len(Command(k)) = 11 /\ \A i \in 1 .. 11 : Command(k)[i] = <<k, i>>
<1>1. Command(k) = [i \in 1 .. 11 |-> <<k, i>>]
  BY DEF Command, Bytes
<1>2. \A i \in 1 .. 11 : <<k, i>> \in Nat \X Nat
  OBVIOUS
<1>3. Command(k) \in ByteSeq
  BY <1>1, <1>2 DEF ByteSeq
<1>4. Len(Command(k)) = 11
  BY <1>1
<1> QED BY <1>1, <1>3, <1>4

LEMMA PartBytes ==
  ASSUME NEW s \in ByteSeq, NEW m \in 0 .. Len(s), NEW n \in m .. Len(s), NEW r, r = SubSeq(s, m + 1, n)
  PROVE  r \in ByteSeq /\ Len(r) = n - m /\ \A i \in 1 .. n - m : r[i] = s[m + i]
BY DEF ByteSeq

LEMMA FrameBytes ==
  ASSUME client \in Nat
  PROVE  /\ FirstFrame \in ByteSeq /\ Len(FirstFrame) = 8 /\ \A i \in 1 .. 8 : FirstFrame[i] = <<client, i>>
         /\ LastFrame \in ByteSeq /\ Len(LastFrame) = 3 /\ \A i \in 1 .. 3 : LastFrame[i] = <<client, 8 + i>>
         /\ FirstFrame # Start /\ LastFrame # Start
<1>1. PICK k, s, f, l :
        k = client /\ s = Command(client) /\ f = SubSeq(Command(client), 1, 8) /\ l = SubSeq(Command(client), 9, 11)
  OBVIOUS
<1>2. f = FirstFrame /\ l = LastFrame
  <2>1. FrameLen = 8 /\ 8 + 1 = 9
    BY DEF FrameLen
  <2> QED BY <1>1, <2>1, Zenon DEF FirstFrame, LastFrame
<1>3. k \in Nat /\ s = Command(k) /\ f = SubSeq(s, 1, 8) /\ l = SubSeq(s, 9, 11)
  BY <1>1, Zenon
<1>4. /\ f \in ByteSeq /\ Len(f) = 8 /\ \A i \in 1 .. 8 : f[i] = <<k, i>>
      /\ l \in ByteSeq /\ Len(l) = 3 /\ \A i \in 1 .. 3 : l[i] = <<k, 8 + i>>
  <2>1. s \in ByteSeq /\ Len(s) = 11 /\ \A i \in 1 .. 11 : s[i] = <<k, i>>
    BY <1>3, CommandBytes, Zenon
  <2>2. f \in ByteSeq /\ Len(f) = 8 /\ \A i \in 1 .. 8 : f[i] = s[i]
    <3>1. PICK m, n : m = 0 /\ n = 8
      OBVIOUS
    <3>2. m \in 0 .. Len(s) /\ n \in m .. Len(s) /\ m + 1 = 1
      BY <2>1, <3>1
    <3>3. f = SubSeq(s, m + 1, n)
      BY <1>3, <3>1, <3>2, Zenon
    <3>4. s \in ByteSeq
      BY <2>1
    <3>5. f \in ByteSeq /\ Len(f) = n - m /\ \A i \in 1 .. n - m : f[i] = s[m + i]
      BY <3>2, <3>3, <3>4, PartBytes, Zenon
    <3>6. n - m = 8 /\ \A i \in 1 .. 8 : m + i = i
      BY <3>1
    <3> QED BY <3>5, <3>6, Zenon
  <2>3. l \in ByteSeq /\ Len(l) = 3 /\ \A i \in 1 .. 3 : l[i] = s[8 + i]
    <3>1. PICK m, n : m = 8 /\ n = 11
      OBVIOUS
    <3>2. m \in 0 .. Len(s) /\ n \in m .. Len(s) /\ m + 1 = 9
      BY <2>1, <3>1
    <3>3. l = SubSeq(s, m + 1, n)
      BY <1>3, <3>1, <3>2, Zenon
    <3>4. s \in ByteSeq
      BY <2>1
    <3>5. l \in ByteSeq /\ Len(l) = n - m /\ \A i \in 1 .. n - m : l[i] = s[m + i]
      BY <3>2, <3>3, <3>4, PartBytes, Zenon
    <3>6. n - m = 3
      BY <3>1
    <3> QED BY <3>1, <3>5, <3>6, Zenon
  <2>4. \A i \in 1 .. 8 : i \in 1 .. 11
    OBVIOUS
  <2>5. \A i \in 1 .. 3 : 8 + i \in 1 .. 11
    OBVIOUS
  <2>6. \A i \in 1 .. 8 : f[i] = <<k, i>>
    BY <2>1, <2>2, <2>4, Zenon
  <2>7. \A i \in 1 .. 3 : l[i] = <<k, 8 + i>>
    BY <2>1, <2>3, <2>5, Zenon
  <2> QED BY <2>2, <2>3, <2>6, <2>7
<1>5. /\ FirstFrame \in ByteSeq /\ Len(FirstFrame) = 8 /\ \A i \in 1 .. 8 : FirstFrame[i] = <<client, i>>
      /\ LastFrame \in ByteSeq /\ Len(LastFrame) = 3 /\ \A i \in 1 .. 3 : LastFrame[i] = <<client, 8 + i>>
  BY <1>1, <1>2, <1>4, Zenon
<1>6. f # Start /\ l # Start
  <2>1. Len(Start) = 0
    BY DEF Start
  <2>2. Len(f) # 0 /\ Len(l) # 0
    BY <1>4
  <2> QED BY <2>1, <2>2, Zenon
<1> QED BY <1>2, <1>5, <1>6, Zenon

\* The writes of a transmission, one after the other.
WritesOf(w, t, from, to) ==
  /\ Writes(from, to) \in 1 .. 4
  /\ w[0] = t /\ Transmitted(t, from, to) = w[Writes(from, to)]
  /\ \A i \in 1 .. Writes(from, to) : w[i] = Written(w[i - 1], Piece(i, from, to))

\* The positions of the pieces follow one another.
LEMMA PieceEnds ==
  ASSUME NEW from \in Nat, NEW to \in Nat, from =< to, to =< from + 32
  PROVE  /\ Writes(from, to) \in 1 .. 4
         /\ to >= from + 8 * (Writes(from, to) - 1) /\ to =< from + 8 * Writes(from, to)
BY DEF Writes, FrameLen

LEMMA WritesFollow ==
  ASSUME NEW t, NEW from \in Nat, NEW to \in Nat, from =< to, to =< from + 32
  PROVE  \E w : WritesOf(w, t, from, to)
<1> DEFINE n == Writes(from, to)
           P(i) == Piece(i, from, to)
           Step(w, i) == IF i = 0 THEN t ELSE Written(w[i - 1], P(i))
           Follows(w) == w = [i \in 0 .. n |-> Step(w, i)]
           w1 == Written(t, P(1))
           w2 == Written(w1, P(2))
           w3 == Written(w2, P(3))
           w4 == Written(w3, P(4))
           At(i) == IF i = 0 THEN t ELSE IF i = 1 THEN w1 ELSE IF i = 2 THEN w2 ELSE IF i = 3 THEN w3 ELSE w4
           v == [i \in 0 .. n |-> At(i)]
<1>1. n \in 1 .. 4
  BY PieceEnds
<1>2. Transmitted(t, from, to) = (CHOOSE w : Follows(w))[n]
  BY DEF Transmitted
<1> HIDE DEF n
<1>3. Follows(v)
  <2>1. ASSUME NEW i \in 0 .. n PROVE v[i] = Step(v, i)
    <3>1. v[i] = At(i)
      OBVIOUS
    <3>2. i = 0 \/ v[i - 1] = At(i - 1)
      BY <1>1
    <3>3. i \in {0, 1, 2, 3, 4}
      BY <1>1
    <3>4. CASE i = 0
      BY <3>1, <3>4
    <3>5. CASE i = 1
      BY <3>1, <3>2, <3>5
    <3>6. CASE i = 2
      BY <3>1, <3>2, <3>6
    <3>7. CASE i = 3
      BY <3>1, <3>2, <3>7
    <3>8. CASE i = 4
      BY <3>1, <3>2, <3>8
    <3> QED BY <3>3, <3>4, <3>5, <3>6, <3>7, <3>8
  <2> HIDE DEF At, Step
  <2> QED BY <2>1
<1> DEFINE c == CHOOSE w : Follows(w)
<1>4. Follows(c)
  BY <1>3
<1>5. c[0] = t /\ \A i \in 1 .. n : c[i] = Written(c[i - 1], P(i))
  <2> HIDE DEF c, P
  <2>1. \A i \in 0 .. n : c[i] = Step(c, i)
    BY <1>4
  <2>2. 0 \in 0 .. n /\ \A i \in 1 .. n : i \in 0 .. n /\ i # 0
    BY <1>1
  <2> QED BY <2>1, <2>2
<1>6. Transmitted(t, from, to) = c[n]
  BY <1>2
<1> HIDE DEF c, Follows, Step
<1>7. WritesOf(c, t, from, to)
  BY <1>1, <1>5, <1>6 DEF WritesOf, n
<1> QED BY <1>7

\* Bytes of an answer, or of g.
From(f, g) == \A i \in DOMAIN f : f[i][1] = 0 \/ \E j \in DOMAIN g : f[i] = g[j]
Rests(f, g) == f \in ByteSeq /\ OnceOnly(f) /\ From(f, g)

LEMMA RestsSuffix ==
  ASSUME NEW f, NEW g, Rests(f, g), NEW m \in 0 .. Len(f), NEW r, r = SubSeq(f, m + 1, Len(f))
  PROVE  Rests(r, g)
<1>1. f \in ByteSeq /\ Len(f) \in Nat /\ DOMAIN f = 1 .. Len(f)
  BY DEF Rests, ByteSeq
<1>2. Len(f) \in m .. Len(f)
  BY <1>1
<1>3. r \in ByteSeq /\ Len(r) = Len(f) - m /\ \A i \in 1 .. Len(f) - m : r[i] = f[m + i]
  BY <1>1, <1>2, PartBytes
<1>4. DOMAIN r = 1 .. Len(f) - m /\ \A i \in 1 .. Len(f) - m : m + i \in DOMAIN f
  <2>1. DOMAIN r = 1 .. Len(r)
    BY <1>3 DEF ByteSeq
  <2>2. \A i \in 1 .. Len(f) - m : m + i \in 1 .. Len(f)
    BY <1>1
  <2> QED BY <1>1, <1>3, <2>1, <2>2
<1>5. OnceOnly(r)
  <2>1. ASSUME NEW i \in DOMAIN r, NEW j \in DOMAIN r, NEW k \in Nat \ {0}, r[i] = <<k, 1>>, r[j] = <<k, 1>>
        PROVE  i = j
    <3>1. i \in Int /\ j \in Int /\ m \in Int
      BY <1>1, <1>4
    <3>2. m + i \in DOMAIN f /\ m + j \in DOMAIN f /\ f[m + i] = <<k, 1>> /\ f[m + j] = <<k, 1>>
      BY <1>3, <1>4, <2>1
    <3>3. m + i = m + j
      BY <3>2 DEF Rests, OnceOnly
    <3> QED BY <3>1, <3>3
  <2> QED BY <2>1 DEF OnceOnly
<1>6. From(r, g)
  BY <1>3, <1>4 DEF Rests, From
<1> QED BY <1>3, <1>5, <1>6 DEF Rests

LEMMA RestsConcat ==
  ASSUME NEW f, NEW g, Rests(f, g), NEW b \in ByteSeq, \A i \in DOMAIN b : b[i][1] = 0, NEW c, c = f \o b
  PROVE  Rests(c, g) /\ Len(c) = Len(f) + Len(b)
<1>1. f \in ByteSeq /\ Len(f) \in Nat /\ DOMAIN f = 1 .. Len(f) /\ Len(b) \in Nat /\ DOMAIN b = 1 .. Len(b)
  BY DEF Rests, ByteSeq
<1>2. c \in ByteSeq /\ Len(c) = Len(f) + Len(b) /\ DOMAIN c = 1 .. Len(c)
  BY <1>1 DEF ByteSeq
<1>3. \A i \in DOMAIN c : (i \in DOMAIN f /\ c[i] = f[i]) \/ (i - Len(f) \in DOMAIN b /\ c[i] = b[i - Len(f)])
  BY <1>1, <1>2 DEF ByteSeq
<1>4. \A i \in DOMAIN c : (i \in DOMAIN f /\ c[i] = f[i]) \/ c[i][1] = 0
  BY <1>3
<1>5. \A k \in Nat \ {0} : <<k, 1>>[1] # 0
  OBVIOUS
<1>6. OnceOnly(c)
  <2>1. ASSUME NEW i \in DOMAIN c, NEW k \in Nat \ {0}, c[i] = <<k, 1>> PROVE i \in DOMAIN f /\ f[i] = <<k, 1>>
    BY <1>4, <1>5, <2>1
  <2> QED BY <2>1 DEF OnceOnly, Rests
<1>7. From(c, g)
  BY <1>4 DEF From, Rests
<1> QED BY <1>2, <1>6, <1>7 DEF Rests

Buffer(t, g) == t = [fifo |-> t.fifo, out |-> t.out] /\ Rests(t.fifo, g)

LEMMA WrittenRests ==
  ASSUME NEW t, NEW g, Buffer(t, g), NEW b \in ByteSeq, \A i \in DOMAIN b : b[i][1] = 0
  PROVE  Buffer(Written(t, b), g)
<1> DEFINE c == t.fifo \o b
<1>1. Rests(t.fifo, g)
  BY DEF Buffer
<1>2. Rests(c, g)
  BY <1>1, RestsConcat
<1>3. Len(c) \in Nat
  BY <1>2 DEF Rests, ByteSeq
<1>4. CASE Len(c) < 8
  <2>1. Written(t, b) = [t EXCEPT !.fifo = c]
    BY <1>4 DEF Written, FrameLen
  <2> HIDE DEF c
  <2>2. PICK f, o : t = [fifo |-> f, out |-> o]
    BY DEF Buffer
  <2>3. Written(t, b) = [fifo |-> c, out |-> o]
    BY <2>1, <2>2
  <2> QED BY <1>2, <2>3 DEF Buffer
<1>5. CASE Len(c) >= 8
  <2> DEFINE r == SubSeq(c, 8 + 1, Len(c))
             o == t.out \o SubSeq(c, 1, 8)
  <2>1. Written(t, b) = [fifo |-> r, out |-> o]
    BY <1>3, <1>5 DEF Written, FrameLen
  <2> HIDE DEF c
  <2>2. 8 \in 0 .. Len(c)
    BY <1>3, <1>5
  <2>3. Rests(r, g)
    BY <1>2, <2>2, RestsSuffix
  <2> HIDE DEF r, o
  <2> QED BY <2>1, <2>3 DEF Buffer
<1> QED BY <1>3, <1>4, <1>5

LEMMA AnswerBytes ==
  /\ AnswerLen \in Nat /\ AnswerLen >= 1
  /\ Answer \in ByteSeq /\ Len(Answer) = 9 + AnswerLen
  /\ \A i \in 1 .. 9 + AnswerLen : Answer[i] = <<0, i>>
<1>1. AnswerLen \in Nat /\ AnswerLen >= 1
  BY DatagramAssumption
<1>2. Answer = [i \in 1 .. 9 + AnswerLen |-> <<0, i>>]
  BY DEF Answer, Bytes
<1>3. \A i \in 1 .. 9 + AnswerLen : <<0, i>> \in Nat \X Nat
  BY <1>1
<1>4. Answer \in ByteSeq
  BY <1>1, <1>2, <1>3 DEF ByteSeq
<1>5. Len(Answer) = 9 + AnswerLen
  BY <1>1, <1>2
<1> QED BY <1>1, <1>2, <1>4, <1>5

\* The i-th piece of the answer is what lies between two positions.
LEMMA PieceBytes ==
  ASSUME NEW from \in Nat, NEW to \in Nat, from =< to, to =< from + 32, to =< 9 + AnswerLen,
         NEW i \in 1 .. Writes(from, to)
  PROVE  \E p, q \in 0 .. 9 + AnswerLen :
           /\ p = from + 8 * (i - 1) /\ p =< q /\ q =< p + 8
           /\ q = IF i = Writes(from, to) THEN to ELSE from + 8 * i
           /\ Piece(i, from, to) = SubSeq(Answer, p + 1, q)
<1> DEFINE n == Writes(from, to)
           p == from + 8 * (i - 1)
           q == IF i = n THEN to ELSE from + 8 * i
<1>1. n \in 1 .. 4 /\ to >= from + 8 * (n - 1) /\ to =< from + 8 * n
  BY PieceEnds
<1>2. Piece(i, from, to) = SubSeq(Answer, p + 1, q)
  BY DEF Piece, FrameLen
<1> HIDE DEF n
<1>3. i \in 1 .. n
  BY DEF n
<1>4. p \in 0 .. 9 + AnswerLen /\ q \in 0 .. 9 + AnswerLen /\ p =< q /\ q =< p + 8
  BY <1>1, <1>3, AnswerBytes
<1> QED BY <1>2, <1>4 DEF n

LEMMA PieceZero ==
  ASSUME NEW from \in Nat, NEW to \in Nat, from =< to, to =< from + 32, to =< 9 + AnswerLen,
         NEW i \in 1 .. Writes(from, to)
  PROVE  Piece(i, from, to) \in ByteSeq /\ \A j \in DOMAIN Piece(i, from, to) : Piece(i, from, to)[j][1] = 0
<1>1. PICK p \in 0 .. 9 + AnswerLen, q \in 0 .. 9 + AnswerLen :
        p =< q /\ Piece(i, from, to) = SubSeq(Answer, p + 1, q)
  BY PieceBytes
<1>2. p \in 0 .. Len(Answer) /\ q \in p .. Len(Answer) /\ Answer \in ByteSeq
  BY <1>1, AnswerBytes
<1> DEFINE b == Piece(i, from, to)
<1>3. b \in ByteSeq /\ Len(b) = q - p /\ \A j \in 1 .. q - p : b[j] = Answer[p + j]
  BY <1>1, <1>2, PartBytes
<1> HIDE DEF b
<1>4. DOMAIN b = 1 .. q - p
  BY <1>2, <1>3, AnswerBytes DEF ByteSeq
<1>5. \A j \in 1 .. q - p : p + j \in 1 .. 9 + AnswerLen
  BY <1>2, AnswerBytes
<1>6. \A j \in DOMAIN b : b[j][1] = 0
  BY <1>3, <1>4, <1>5, AnswerBytes
<1> QED BY <1>3, <1>6 DEF b

LEMMA TransmittedRests ==
  ASSUME NEW from \in Nat, NEW to \in Nat, from =< to, to =< from + 32, to =< 9 + AnswerLen,
         NEW t, NEW g, Buffer(t, g)
  PROVE  Buffer(Transmitted(t, from, to), g)
<1> DEFINE n == Writes(from, to)
<1>1. PICK w : WritesOf(w, t, from, to)
  BY WritesFollow
<1>2. n \in 1 .. 4 /\ w[0] = t /\ Transmitted(t, from, to) = w[n]
  BY <1>1 DEF WritesOf
<1>3. ASSUME NEW i \in 1 .. n, Buffer(w[i - 1], g) PROVE Buffer(w[i], g)
  <2>1. w[i] = Written(w[i - 1], Piece(i, from, to))
    BY <1>1 DEF WritesOf
  <2>2. Piece(i, from, to) \in ByteSeq /\ \A j \in DOMAIN Piece(i, from, to) : Piece(i, from, to)[j][1] = 0
    BY PieceZero
  <2> QED BY <1>3, <2>1, <2>2, WrittenRests
<1> HIDE DEF n
<1>4. Buffer(w[0], g)
  BY <1>2
<1>5. Buffer(w[1], g)
  BY <1>2, <1>3, <1>4
<1>6. n >= 2 => Buffer(w[2], g)
  BY <1>2, <1>3, <1>5
<1>7. n >= 3 => Buffer(w[3], g)
  BY <1>2, <1>3, <1>6
<1>8. n >= 4 => Buffer(w[4], g)
  BY <1>2, <1>3, <1>7
<1>9. n \in {1, 2, 3, 4}
  BY <1>2
<1> QED BY <1>2, <1>5, <1>6, <1>7, <1>8, <1>9

SameLengths(d, c) == d.field = c.field /\ d.nodes = c.nodes /\ d.size = c.size /\ d.sent = c.sent

LEMMA NextFields ==
  /\ NextField("protocol_version") = "crc" /\ NextField("crc") = "dgram_type"
  /\ NextField("dgram_type") = "dst_len" /\ NextField("dst_len") = "dst" /\ NextField("dst") = "data_len"
  /\ NextField("data_len") = "data"
<1> DEFINE P(field, i) == i \in 2 .. 7 /\ Fields[i - 1] = field
<1>1. /\ Fields[1] = "protocol_version" /\ Fields[2] = "crc" /\ Fields[3] = "dgram_type" /\ Fields[4] = "dst_len"
      /\ Fields[5] = "dst" /\ Fields[6] = "data_len" /\ Fields[7] = "data"
  BY DEF Fields
<1>2. ASSUME NEW field, NEW k \in 2 .. 7, Fields[k - 1] = field, \A i \in 2 .. 7 : Fields[i - 1] = field => i = k
      PROVE  NextField(field) = Fields[k]
  BY <1>2 DEF NextField
<1>3. \A i \in 2 .. 7 : i = 2 \/ i = 3 \/ i = 4 \/ i = 5 \/ i = 6 \/ i = 7
  OBVIOUS
<1>4. NextField("protocol_version") = Fields[2]
  BY <1>1, <1>2, <1>3
<1>5. NextField("crc") = Fields[3]
  BY <1>1, <1>2, <1>3
<1>6. NextField("dgram_type") = Fields[4]
  BY <1>1, <1>2, <1>3
<1>7. NextField("dst_len") = Fields[5]
  BY <1>1, <1>2, <1>3
<1>8. NextField("dst") = Fields[6]
  BY <1>1, <1>2, <1>3
<1>9. NextField("data_len") = Fields[7]
  BY <1>1, <1>2, <1>3
<1> QED BY <1>1, <1>4, <1>5, <1>6, <1>7, <1>8, <1>9

LEMMA NextTyped == \A field \in FieldSet \ {"data"} : NextField(field) \in FieldSet
BY NextFields DEF FieldSet

LEMMA AnswerFields ==
  ASSUME NEW field \in FieldSet
  PROVE  /\ Before(field) \in 0 .. 9 /\ FieldLen(field, 0, AnswerLen) \in Nat
         /\ Before(field) + FieldLen(field, 0, AnswerLen) =< 9 + AnswerLen
         /\ field # "data" => FieldLen(field, 0, AnswerLen) =< 4
         /\ field = "data" => Before(field) = 9 /\ FieldLen(field, 0, AnswerLen) = AnswerLen
BY AnswerBytes DEF FieldSet, Before, FieldLen

LEMMA KickedLengths ==
  ASSUME NEW d, Formed(d), NEW active
  PROVE  SameLengths(Kicked(d, active).dgram, d)
BY DEF Kicked, Formed, SameLengths

\* A step of the tx side: what it makes of the length transmitted and of the fifo.
LEMMA WriteFieldBytes ==
  ASSUME DatagramShapes, LengthsTyped(dgram), NEW field \in FieldSet, WriteField(field),
         fifo \in ByteSeq, OnceOnly(fifo)
  PROVE  /\ LengthsTyped(dgram') /\ dgram'.field = field
         /\ dgram'.nodes = dgram.nodes /\ dgram'.size = dgram.size
         /\ Rests(fifo', fifo) /\ UNCHANGED got
         /\ \/ dgram'.sent = 0 /\ queue' = Append(Tail(queue), "tx")
            \/ field = "data" /\ queue' = Append(Tail(queue), "repeat")
<1> DEFINE from == Before(field) + IF field = "data" THEN dgram.sent ELSE 0
           end == Before(field) + FieldLen(field, 0, AnswerLen)
           whole == end - from =< MaxCanTx * FrameLen
           to == IF whole THEN end ELSE from + MaxCanTx * FrameLen
           b == [fifo |-> fifo, out |-> answer]
           written == Transmitted(b, from, to)
           t == IF field = "data" /\ whole THEN Flushed(written) ELSE written
           v == IF whole THEN 0 ELSE to - Before(field)
<1>1. /\ fifo' = t.fifo /\ answer' = t.out
      /\ dgram' = [dgram EXCEPT !.fsm = "tx", !.field = field, !.sent = v]
      /\ Raised(IF whole THEN "tx" ELSE "repeat") /\ UNCHANGED got
  BY DEF WriteField
<1>2. /\ from \in Nat /\ end \in Nat /\ from =< end /\ end =< 9 + AnswerLen
      /\ to \in Nat /\ from =< to /\ to =< from + 32 /\ to =< 9 + AnswerLen
      /\ ~whole => field = "data" /\ v \in 0 .. AnswerLen - 1
  <2>1. /\ Before(field) \in 0 .. 9 /\ FieldLen(field, 0, AnswerLen) \in Nat
        /\ Before(field) + FieldLen(field, 0, AnswerLen) =< 9 + AnswerLen
        /\ field # "data" => FieldLen(field, 0, AnswerLen) =< 4
        /\ field = "data" => Before(field) = 9 /\ FieldLen(field, 0, AnswerLen) = AnswerLen
    BY AnswerFields
  <2>2. dgram.sent \in 0 .. AnswerLen - 1 /\ AnswerLen \in Nat /\ AnswerLen >= 1
    BY AnswerBytes DEF LengthsTyped
  <2>3. CASE field = "data"
    BY <2>1, <2>2, <2>3 DEF MaxCanTx, FrameLen
  <2>4. CASE field # "data"
    BY <2>1, <2>2, <2>4 DEF MaxCanTx, FrameLen
  <2> QED BY <2>3, <2>4
<1> HIDE DEF from, to, end, whole
<1>3. Rests(fifo, fifo)
  BY DEF Rests, From
<1>4. Buffer(b, fifo)
  BY <1>3 DEF Buffer
<1> HIDE DEF b
<1>5. Buffer(written, fifo)
  BY <1>2, <1>4, TransmittedRests
<1> HIDE DEF written
<1>6. Rests(t.fifo, fifo)
  <2>1. Flushed(written).fifo = <<>>
    BY DEF Flushed
  <2>2. <<>> \in ByteSeq /\ \A i \in DOMAIN <<>> : FALSE
    BY DEF ByteSeq
  <2>3. Rests(<<>>, fifo)
    BY <2>2 DEF Rests, OnceOnly, From
  <2> QED BY <1>5, <2>1, <2>3 DEF Buffer
<1> HIDE DEF t
<1>7. v \in 0 .. AnswerLen - 1 /\ (whole => v = 0)
  BY <1>2, AnswerBytes
<1> HIDE DEF v
<1>8. /\ dgram'.field = field /\ dgram'.sent = v
      /\ dgram'.nodes = dgram.nodes /\ dgram'.size = dgram.size
  BY <1>1 DEF DatagramShapes, Formed
<1>9. LengthsTyped(dgram')
  BY <1>7, <1>8 DEF LengthsTyped
<1> QED BY <1>1, <1>2, <1>6, <1>7, <1>8, <1>9 DEF Raised

\* A step of the rx side: a field is not there yet, or its bytes go from the fifo to the reception.
LEMMA ReadFieldBytes ==
  ASSUME DatagramShapes, LengthsTyped(dgram), NEW field \in FieldSet, ReadField(field), fifo \in ByteSeq
  PROVE  LET n == FieldLen(field, dgram.nodes, dgram.size)
             bytes == SubSeq(fifo, 1, n)
         IN /\ LengthsTyped(dgram') /\ dgram'.field = field /\ dgram'.sent = dgram.sent
            /\ dgram'.nodes # dgram.nodes => field = "dst_len"
            /\ dgram'.size # dgram.size => field = "data_len"
            /\ \/ /\ Len(fifo) < n /\ UNCHANGED <<fifo, got>>
                  /\ queue' = Append(Tail(queue), "repeat")
               \/ /\ n \in 0 .. Len(fifo)
                  /\ fifo' = SubSeq(fifo, n + 1, Len(fifo))
                  /\ got' = IF field = "protocol_version" THEN bytes ELSE got \o bytes
                  /\ \E e \in {"rx", "soft error", "hard error"} : queue' = Append(Tail(queue), e)
<1> DEFINE n == FieldLen(field, dgram.nodes, dgram.size)
           bytes == SubSeq(fifo, 1, n)
<1>1. PICK d : d = [dgram EXCEPT !.fsm = "rx", !.field = field]
  OBVIOUS
<1>2. /\ d.field = field /\ d.sent = dgram.sent /\ d.nodes = dgram.nodes /\ d.size = dgram.size
      /\ \A v : LET c == [d EXCEPT !.nodes = v]
                IN c.field = field /\ c.sent = dgram.sent /\ c.nodes = v /\ c.size = dgram.size
      /\ \A v : LET c == [d EXCEPT !.size = v]
                IN c.field = field /\ c.sent = dgram.sent /\ c.nodes = dgram.nodes /\ c.size = v
  BY <1>1 DEF DatagramShapes, Formed
<1>3. Misread \subseteq Nat /\ \A b, f : Read(b, f) \subseteq Misread
  BY DEF Misread, Read
<1>4. \/ dgram' = d
      \/ field = "dst_len" /\ \E v \in Misread : dgram' = [d EXCEPT !.nodes = v]
      \/ field = "data_len" /\ \E v \in Nat : dgram' = [d EXCEPT !.size = v]
  BY <1>1, <1>3 DEF ReadField, FieldSet
<1>5. n \in Nat /\ Len(fifo) \in Nat
  BY DEF LengthsTyped, FieldSet, FieldLen, ByteSeq, Misread
<1>6. LengthsTyped(dgram') /\ dgram'.field = field /\ dgram'.sent = dgram.sent
      /\ (dgram'.nodes # dgram.nodes => field = "dst_len")
      /\ (dgram'.size # dgram.size => field = "data_len")
  <2>0. dgram.nodes \in Misread /\ dgram.size \in Nat /\ dgram.sent \in 0 .. AnswerLen - 1
    BY DEF LengthsTyped
  <2>1. CASE dgram' = d
    BY <1>2, <2>0, <2>1 DEF LengthsTyped
  <2>2. ASSUME NEW v \in Misread, dgram' = [d EXCEPT !.nodes = v], field = "dst_len"
        PROVE  dgram'.field = field /\ dgram'.sent = dgram.sent /\ dgram'.nodes = v /\ dgram'.size = dgram.size
    BY <1>2, <2>2
  <2>3. ASSUME NEW v \in Nat, dgram' = [d EXCEPT !.size = v], field = "data_len"
        PROVE  dgram'.field = field /\ dgram'.sent = dgram.sent /\ dgram'.nodes = dgram.nodes /\ dgram'.size = v
    BY <1>2, <2>3
  <2>4. CASE field = "dst_len" /\ \E v \in Misread : dgram' = [d EXCEPT !.nodes = v]
    BY <2>0, <2>2, <2>4 DEF LengthsTyped
  <2>5. CASE field = "data_len" /\ \E v \in Nat : dgram' = [d EXCEPT !.size = v]
    BY <2>0, <2>3, <2>5 DEF LengthsTyped
  <2> QED BY <1>4, <2>1, <2>4, <2>5
<1>7. CASE Len(fifo) < n
  BY <1>6, <1>7 DEF ReadField, Raised
<1>8. CASE ~(Len(fifo) < n)
  <2>1. /\ fifo' = SubSeq(fifo, n + 1, Len(fifo))
        /\ got' = IF field = "protocol_version" THEN bytes ELSE got \o bytes
    BY <1>8 DEF ReadField
  <2>2. \E e \in {"rx", "soft error", "hard error"} : queue' = Append(Tail(queue), e)
    BY <1>8 DEF ReadField, Raised
  <2>3. n \in 0 .. Len(fifo)
    <3> HIDE DEF n
    <3> QED BY <1>5, <1>8
  <2> HIDE DEF n, bytes
  <2> QED BY <1>6, <2>1, <2>2, <2>3 DEF n, bytes
<1> QED BY <1>7, <1>8

\* What a step may make of the bytes without another command coming.
BytesFollow ==
  /\ BytesShapes' /\ client' = client
  /\ \A i \in DOMAIN fifo' : fifo'[i][1] =< client
  /\ got' # <<>> => got'[1][1] =< client
  /\ \A i \in DOMAIN handled' : handled'[i] # <<>> => handled'[i][1][1] =< client
  /\ OnceOnly(fifo')
  /\ \A k \in 1 .. client : Coming(k)' => Coming(k)
  /\ \A k \in 1 .. client : InFifo(k)' => InFifo(k) \/ (Coming(k) /\ ~Coming(k)')
  /\ \A k \in 1 .. client : Taken(k)' => Taken(k) \/ (InFifo(k) /\ ~InFifo(k)')

LEMMA BytesKept ==
  ASSUME BytesInv, BytesFollow
  PROVE  BytesInv'
<1>1. \A k \in 1 .. client : Coming(k)' => ~InFifo(k)'
  BY DEF BytesInv, BytesFollow
<1>2. \A k \in 1 .. client : Taken(k)' => ~InFifo(k)' /\ ~Coming(k)'
  BY DEF BytesInv, BytesFollow
<1> QED BY <1>1, <1>2 DEF BytesInv, BytesFollow

LEMMA BytesInitInv == DatagramInit => BytesInv
<1> SUFFICES ASSUME DatagramInit PROVE BytesInv
  OBVIOUS
<1>1. dgram.field = "data" /\ dgram.nodes = 0 /\ dgram.size = 0 /\ dgram.sent = 0
  BY DEF DatagramInit
<1>2. LengthsTyped(dgram)
  BY <1>1, AnswerBytes DEF LengthsTyped, FieldSet, Misread
<1>3. Len(Commands) \in Nat
  BY DatagramAssumption
<1>4. BytesShapes
  BY <1>2, <1>3 DEF DatagramInit, BytesShapes, ByteSeq
<1> QED BY <1>4 DEF DatagramInit, BytesInv, OnceOnly, InFifo, Coming, Taken

LEMMA BusCases ==
  ASSUME BytesShapes
  PROVE  /\ FirstFrame \in ByteSeq /\ LastFrame \in ByteSeq /\ Start = <<>> /\ client \in Nat
         /\ bus = <<>> \/ client \in Nat \ {0}
         /\ \/ bus = <<>>
            \/ bus = <<LastFrame>> /\ Head(bus) = LastFrame /\ Tail(bus) = <<>>
            \/ bus = <<FirstFrame, LastFrame>> /\ Head(bus) = FirstFrame /\ Tail(bus) = <<LastFrame>>
            \/ bus = <<Start, FirstFrame, LastFrame>> /\ Head(bus) = Start /\ Tail(bus) = <<FirstFrame, LastFrame>>
<1>1. client \in Nat
  BY DatagramAssumption DEF BytesShapes
<1>2. FirstFrame \in ByteSeq /\ LastFrame \in ByteSeq
  BY <1>1, FrameBytes
<1>3. Start = <<>>
  BY DEF Start
<1>4. bus = <<>> \/ client \in Nat \ {0}
  BY <1>1 DEF BytesShapes
<1>5. /\ bus = <<LastFrame>> => Head(bus) = LastFrame /\ Tail(bus) = <<>>
      /\ bus = <<FirstFrame, LastFrame>> => Head(bus) = FirstFrame /\ Tail(bus) = <<LastFrame>>
      /\ bus = <<Start, FirstFrame, LastFrame>> => Head(bus) = Start /\ Tail(bus) = <<FirstFrame, LastFrame>>
  <2>1. \A a : Head(<<a>>) = a /\ Tail(<<a>>) = <<>>
    OBVIOUS
  <2>2. \A a, b : Head(<<a, b>>) = a /\ Tail(<<a, b>>) = <<b>>
    OBVIOUS
  <2>3. \A a, b, c : Head(<<a, b, c>>) = a /\ Tail(<<a, b, c>>) = <<b, c>>
    OBVIOUS
  <2>4. ASSUME bus = <<LastFrame>> PROVE Head(bus) = LastFrame /\ Tail(bus) = <<>>
    BY <2>1, <2>4, Zenon
  <2>5. ASSUME bus = <<FirstFrame, LastFrame>> PROVE Head(bus) = FirstFrame /\ Tail(bus) = <<LastFrame>>
    BY <2>2, <2>5, Zenon
  <2>6. ASSUME bus = <<Start, FirstFrame, LastFrame>>
        PROVE  Head(bus) = Start /\ Tail(bus) = <<FirstFrame, LastFrame>>
    BY <2>3, <2>6, Zenon
  <2> QED BY <2>4, <2>5, <2>6
<1> QED BY <1>1, <1>2, <1>3, <1>4, <1>5 DEF BytesShapes

LEMMA SendKeepsBytes ==
  ASSUME BytesInv, ClientSends
  PROVE  BytesInv'
<1>1. /\ bus = <<>> /\ client < Len(Commands) /\ client' = client + 1 /\ bus' = Frames(client + 1)
      /\ UNCHANGED <<dgram, fifo, got, handled>>
  BY DEF ClientSends
<1>2. client \in Nat /\ client' \in 1 .. Len(Commands) /\ Len(Commands) \in Nat
  BY <1>1, DatagramAssumption DEF BytesInv, BytesShapes
<1>3. bus' = <<Start, FirstFrame', LastFrame'>>
  BY <1>1 DEF Frames, FirstFrame, LastFrame
<1>4. BytesShapes'
  BY <1>1, <1>2, <1>3 DEF BytesInv, BytesShapes
<1>5. \A i \in DOMAIN fifo : fifo[i] \in Nat \X Nat
  BY DEF BytesInv, BytesShapes, ByteSeq
<1>6. \A i \in DOMAIN fifo : fifo[i][1] =< client /\ fifo[i][1] \in Nat
  BY <1>5 DEF BytesInv
<1>7. ~InFifo(client')
  <2>1. ASSUME NEW i \in DOMAIN fifo, fifo[i] = <<client', 1>> PROVE FALSE
    <3>1. fifo[i][1] = client'
      BY <2>1
    <3> QED BY <1>1, <1>2, <1>6, <3>1
  <2> QED BY <2>1 DEF InFifo
<1>8. ~Taken(client')
  <2>1. \A x : x # <<>> /\ x[1] = <<client', 1>> => x[1][1] = client'
    OBVIOUS
  <2>2. Command(client') # <<>> /\ Command(client')[1] = <<client', 1>>
    <3>1. PICK k \in Nat : k = client'
      BY <1>2
    <3>2. Command(k) \in ByteSeq /\ Len(Command(k)) = 11 /\ Command(k)[1] = <<k, 1>>
      BY CommandBytes
    <3>3. Len(<<>>) = 0
      OBVIOUS
    <3>4. ASSUME Command(k) = <<>> PROVE FALSE
      BY <3>2, <3>3, <3>4
    <3> QED BY <3>1, <3>2, <3>4
  <2>3. ASSUME got # <<>>, got[1] = <<client', 1>> PROVE FALSE
    <3>1. got[1][1] = client' /\ got[1][1] =< client
      BY <2>1, <2>3 DEF BytesInv
    <3> QED BY <1>1, <1>2, <3>1
  <2>4. ASSUME NEW i \in DOMAIN handled, handled[i] = Command(client') PROVE FALSE
    <3>1. handled[i][1][1] = client' /\ handled[i][1][1] =< client
      BY <2>1, <2>2, <2>4 DEF BytesInv
    <3> QED BY <1>1, <1>2, <3>1
  <2> QED BY <2>3, <2>4 DEF Taken
<1>9. \A k \in 1 .. client' : k = client' \/ k \in 1 .. client
  BY <1>1, <1>2
<1>10. \A k : InFifo(k)' <=> InFifo(k)
  BY <1>1 DEF InFifo
<1>11. \A k : Taken(k)' <=> Taken(k)
  BY <1>1 DEF Taken
<1>12. \A k \in 1 .. client : ~Coming(k)'
  BY <1>1, <1>2 DEF Coming
<1>13. \A k \in 1 .. client' : Coming(k)' => ~InFifo(k)'
  BY <1>7, <1>9, <1>10, <1>12
<1>14. \A k \in 1 .. client' : Taken(k)' => ~InFifo(k)' /\ ~Coming(k)'
  BY <1>8, <1>9, <1>10, <1>11, <1>12 DEF BytesInv
<1>15. \A i \in DOMAIN fifo' : fifo'[i][1] =< client'
  BY <1>1, <1>2, <1>6
<1>16. got' # <<>> => got'[1][1] =< client'
  <2>1. got # <<>> => got[1] \in Nat \X Nat
    BY DEF BytesInv, BytesShapes, ByteSeq
  <2>2. got # <<>> => got[1][1] \in Nat /\ got[1][1] =< client
    BY <2>1 DEF BytesInv
  <2> QED BY <1>1, <1>2, <2>2
<1>17. \A i \in DOMAIN handled' : handled'[i] # <<>> => handled'[i][1][1] =< client'
  <2>1. \A i \in DOMAIN handled : handled[i] \in ByteSeq
    BY DEF BytesInv, BytesShapes
  <2>2. \A i \in DOMAIN handled : handled[i] # <<>> => handled[i][1] \in Nat \X Nat
    BY <2>1 DEF ByteSeq
  <2>3. \A i \in DOMAIN handled : handled[i] # <<>> => handled[i][1][1] \in Nat /\ handled[i][1][1] =< client
    BY <2>2 DEF BytesInv
  <2> QED BY <1>1, <1>2, <2>3
<1> QED BY <1>1, <1>4, <1>13, <1>14, <1>15, <1>16, <1>17 DEF BytesInv

\* Only the frames on the bus change.
LEMMA BusKeepsBytes ==
  ASSUME BytesInv, bus # <<>>, bus' = Tail(bus), UNCHANGED <<fifo, got, client, handled>>, LengthsTyped(dgram')
  PROVE  BytesInv'
<1>1. BytesShapes
  BY DEF BytesInv
<1>2. \A k : Coming(k)' => Coming(k)
  BY <1>1, BusCases DEF Coming
<1>3. bus' \in {<<>>, <<LastFrame>>, <<FirstFrame, LastFrame>>, <<Start, FirstFrame, LastFrame>>}
  BY <1>1, BusCases
<1>4. FirstFrame' = FirstFrame /\ LastFrame' = LastFrame
  BY DEF FirstFrame, LastFrame
<1>5. BytesShapes'
  BY <1>1, <1>3, <1>4 DEF BytesShapes
<1>6. \A k : (InFifo(k)' <=> InFifo(k)) /\ (Taken(k)' <=> Taken(k))
  BY DEF InFifo, Taken
<1>7. BytesFollow
  BY <1>2, <1>5, <1>6 DEF BytesFollow, BytesInv
<1> QED BY <1>7, BytesKept

\* The frames but the first hold no first byte.
LEMMA FramesOnce ==
  ASSUME client \in Nat \ {0}
  PROVE  /\ \A i \in DOMAIN FirstFrame, k \in Nat : FirstFrame[i] = <<k, 1>> => k = client /\ i = 1
         /\ \A i \in DOMAIN LastFrame, k \in Nat : LastFrame[i] # <<k, 1>>
         /\ \A i \in DOMAIN FirstFrame : FirstFrame[i][1] = client
         /\ \A i \in DOMAIN LastFrame : LastFrame[i][1] = client
<1>1. /\ FirstFrame \in ByteSeq /\ Len(FirstFrame) = 8 /\ \A i \in 1 .. 8 : FirstFrame[i] = <<client, i>>
      /\ LastFrame \in ByteSeq /\ Len(LastFrame) = 3 /\ \A i \in 1 .. 3 : LastFrame[i] = <<client, 8 + i>>
  BY FrameBytes
<1>2. DOMAIN FirstFrame = 1 .. 8 /\ DOMAIN LastFrame = 1 .. 3
  BY <1>1 DEF ByteSeq
<1>3. \A a, b, c, d : <<a, b>> = <<c, d>> => a = c /\ b = d
  OBVIOUS
<1>4. \A i \in 1 .. 3 : 8 + i # 1
  OBVIOUS
<1>5. \A i \in DOMAIN FirstFrame, k \in Nat : FirstFrame[i] = <<k, 1>> => k = client /\ i = 1
  BY <1>1, <1>2, <1>3
<1>6. \A i \in DOMAIN LastFrame, k \in Nat : LastFrame[i] # <<k, 1>>
  BY <1>1, <1>2, <1>3, <1>4
<1> QED BY <1>1, <1>2, <1>5, <1>6

LEMMA DataKeepsBytes ==
  ASSUME BytesInv, bus # <<>>, Head(bus) # Start, bus' = Tail(bus), fifo' = fifo \o Head(bus),
         UNCHANGED <<got, client, handled>>, LengthsTyped(dgram')
  PROVE  BytesInv'
<1> DEFINE h == Head(bus)
<1>1. /\ BytesShapes /\ client \in Nat \ {0}
      /\ \/ h = LastFrame /\ bus = <<LastFrame>> /\ bus' = <<>>
         \/ h = FirstFrame /\ bus = <<FirstFrame, LastFrame>> /\ bus' = <<LastFrame>>
  BY BusCases DEF BytesInv
<1>2. h \in ByteSeq /\ \A i \in DOMAIN h : h[i][1] = client
  BY <1>1, BusCases, FramesOnce
<1>3. \A i \in DOMAIN h, k \in Nat : h[i] = <<k, 1>> => k = client /\ i = 1 /\ h = FirstFrame
  BY <1>1, FramesOnce
<1> HIDE DEF h
<1>4. h = FirstFrame => Coming(client)
  <2>1. LastFrame = FirstFrame \/ h # FirstFrame \/ (bus = <<FirstFrame, LastFrame>> /\ Tail(bus) = <<LastFrame>>)
    BY <1>1, BusCases
  <2>2. Len(FirstFrame) = 8 /\ Len(LastFrame) = 3
    BY <1>1, FrameBytes
  <2>3. <<LastFrame>> # <<>> /\ LastFrame # FirstFrame
    <3>1. \A a : <<a>> # <<>>
      OBVIOUS
    <3>2. Len(LastFrame) # Len(FirstFrame)
      BY <2>2
    <3>3. LastFrame # FirstFrame
      BY <3>2, Zenon
    <3> QED BY <3>1, <3>3
  <2> QED BY <1>1, <2>1, <2>3 DEF Coming
<1>5. \A k \in 1 .. client : ~Coming(k)'
  <2>1. bus' = <<>> \/ (bus' = <<LastFrame>> /\ Tail(bus') = <<>>)
    <3>1. \A a : Tail(<<a>>) = <<>>
      OBVIOUS
    <3> QED BY <1>1, <3>1, Zenon
  <2> QED BY <2>1 DEF Coming
<1> DEFINE c == fifo \o h
<1>6. fifo' = c
  BY DEF h
<1>7. fifo \in ByteSeq /\ Len(fifo) \in Nat /\ DOMAIN fifo = 1 .. Len(fifo) /\ Len(h) \in Nat /\ DOMAIN h = 1 .. Len(h)
  BY <1>1, <1>2 DEF BytesShapes, ByteSeq
<1>8. c \in ByteSeq /\ Len(c) = Len(fifo) + Len(h) /\ DOMAIN c = 1 .. Len(c)
  BY <1>2, <1>7 DEF ByteSeq
<1>9. \A i \in DOMAIN c : (i \in DOMAIN fifo /\ c[i] = fifo[i]) \/ (i - Len(fifo) \in DOMAIN h /\ c[i] = h[i - Len(fifo)])
  BY <1>2, <1>7, <1>8 DEF ByteSeq
<1>10. \A i \in DOMAIN c : i \in Int
  BY <1>8
<1> HIDE DEF c
<1>11. BytesShapes'
  <2>1. bus' \in {<<>>, <<LastFrame>>}
    BY <1>1
  <2>2. FirstFrame' = FirstFrame /\ LastFrame' = LastFrame
    BY DEF FirstFrame, LastFrame
  <2> QED BY <1>1, <1>6, <1>8, <2>1, <2>2 DEF BytesShapes
<1>12. \A i \in DOMAIN fifo' : fifo'[i][1] =< client
  <2>1. client =< client
    BY <1>1
  <2> QED BY <1>2, <1>6, <1>9, <2>1 DEF BytesInv
<1>13. \A k \in 1 .. client : InFifo(k)' => InFifo(k) \/ (Coming(k) /\ ~Coming(k)')
  <2>1. ASSUME NEW k \in 1 .. client, NEW i \in DOMAIN c, c[i] = <<k, 1>>
        PROVE  InFifo(k) \/ Coming(k)
    <3>1. k \in Nat
      BY <1>1
    <3>2. CASE i \in DOMAIN fifo /\ c[i] = fifo[i]
      BY <2>1, <3>2 DEF InFifo
    <3>3. CASE i - Len(fifo) \in DOMAIN h /\ c[i] = h[i - Len(fifo)]
      BY <1>3, <1>4, <2>1, <3>1, <3>3
    <3> QED BY <1>9, <3>2, <3>3
  <2> QED BY <1>5, <1>6, <2>1 DEF InFifo
<1>14. OnceOnly(fifo')
  <2>1. ASSUME NEW i \in DOMAIN c, NEW j \in DOMAIN c, NEW k \in Nat \ {0}, c[i] = <<k, 1>>, c[j] = <<k, 1>>
        PROVE  i = j
    <3>1. OnceOnly(fifo)
      BY DEF BytesInv
    <3>2. \A x \in DOMAIN c : c[x] = <<k, 1>> =>
             (x \in DOMAIN fifo /\ fifo[x] = <<k, 1>>) \/ (x - Len(fifo) = 1 /\ Coming(k) /\ k \in 1 .. client)
      <4>1. ASSUME NEW x \in DOMAIN c, c[x] = <<k, 1>>, ~(x \in DOMAIN fifo /\ fifo[x] = <<k, 1>>)
            PROVE  x - Len(fifo) = 1 /\ Coming(k) /\ k \in 1 .. client
        <5>1. x - Len(fifo) \in DOMAIN h /\ h[x - Len(fifo)] = <<k, 1>>
          BY <1>9, <4>1
        <5>2. k = client /\ x - Len(fifo) = 1 /\ h = FirstFrame
          BY <1>3, <5>1
        <5> QED BY <1>1, <1>4, <5>2
      <4> QED BY <4>1
    <3>3. Coming(k) /\ k \in 1 .. client => ~InFifo(k)
      BY DEF BytesInv
    <3>4. CASE i \in DOMAIN fifo /\ fifo[i] = <<k, 1>>
      <4>1. InFifo(k)
        BY <3>4 DEF InFifo
      <4>2. j \in DOMAIN fifo /\ fifo[j] = <<k, 1>>
        BY <2>1, <3>2, <3>3, <4>1
      <4> QED BY <3>1, <3>4, <4>2 DEF OnceOnly
    <3>5. CASE i - Len(fifo) = 1 /\ Coming(k) /\ k \in 1 .. client
      <4>1. ~InFifo(k)
        BY <3>3, <3>5
      <4>2. j - Len(fifo) = 1
        BY <2>1, <3>2, <4>1 DEF InFifo
      <4> QED BY <1>7, <1>10, <3>5, <4>2
    <3> QED BY <2>1, <3>2, <3>4, <3>5
  <2> QED BY <1>6, <2>1 DEF OnceOnly
<1>15. \A k : Taken(k)' <=> Taken(k)
  BY DEF Taken
<1>16. BytesFollow
  BY <1>1, <1>5, <1>11, <1>12, <1>13, <1>14, <1>15 DEF BytesFollow, BytesInv
<1> QED BY <1>16, BytesKept

\* The FSM takes bytes out of the fifo or adds bytes of the answer.
LEMMA FifoKeepsBytes ==
  ASSUME BytesInv, UNCHANGED <<bus, client>>, Rests(fifo', fifo), LengthsTyped(dgram'),
         got' \in ByteSeq, handled' \in Seq(ByteSeq),
         got' # <<>> => got'[1][1] =< client,
         \A i \in DOMAIN handled' : handled'[i] # <<>> => handled'[i][1][1] =< client,
         \A k \in 1 .. client : Taken(k)' => Taken(k) \/ (InFifo(k) /\ ~InFifo(k)')
  PROVE  BytesInv'
<1>1. client \in Nat
  BY BusCases DEF BytesInv
<1>2. BytesShapes'
  <2>1. FirstFrame' = FirstFrame /\ LastFrame' = LastFrame
    BY DEF FirstFrame, LastFrame
  <2> QED BY <2>1 DEF BytesInv, BytesShapes, Rests
<1>3. \A i \in DOMAIN fifo' : fifo'[i][1] =< client
  <2>1. 0 =< client
    BY <1>1
  <2> QED BY <2>1 DEF BytesInv, Rests, From
<1>4. \A k \in 1 .. client : InFifo(k)' => InFifo(k)
  <2>1. \A k \in 1 .. client : <<k, 1>>[1] # 0
    BY <1>1
  <2>2. ASSUME NEW k \in 1 .. client, NEW i \in DOMAIN fifo', fifo'[i] = <<k, 1>> PROVE InFifo(k)
    <3>1. fifo'[i][1] # 0
      BY <2>1, <2>2
    <3>2. PICK j \in DOMAIN fifo : fifo'[i] = fifo[j]
      BY <3>1 DEF Rests, From
    <3> QED BY <2>2, <3>2 DEF InFifo
  <2> QED BY <2>2 DEF InFifo
<1>5. \A k : Coming(k)' <=> Coming(k)
  BY DEF Coming
<1>6. BytesFollow
  BY <1>2, <1>3, <1>4, <1>5 DEF BytesFollow, Rests
<1> QED BY <1>6, BytesKept

\* The first bytes of the fifo go behind a.
Moved(f, n, a, c) ==
  /\ c \in ByteSeq /\ Len(c) = Len(a) + n
  /\ c # <<>> => (a # <<>> /\ c[1] = a[1]) \/ (n >= 1 /\ c[1] = f[1])
  /\ a # <<>> => c # <<>> /\ c[1] = a[1]

LEMMA HeadMoves ==
  ASSUME NEW f \in ByteSeq, NEW n \in 0 .. Len(f), NEW a \in ByteSeq
  PROVE  Moved(f, n, a, a \o SubSeq(f, 1, n))
<1> SUFFICES ASSUME NEW c, c = a \o SubSeq(f, 1, n) PROVE Moved(f, n, a, c)
  OBVIOUS
<1> DEFINE b == SubSeq(f, 0 + 1, n)
<1>1. Len(f) \in Nat /\ DOMAIN f = 1 .. Len(f) /\ Len(a) \in Nat
  BY DEF ByteSeq
<1>2. 0 \in 0 .. Len(f) /\ n \in 0 .. Len(f)
  BY <1>1
<1>3. b \in ByteSeq /\ Len(b) = n - 0 /\ \A i \in 1 .. n - 0 : b[i] = f[0 + i]
  BY <1>2, PartBytes
<1>4. c = a \o b
  OBVIOUS
<1> HIDE DEF b
<1>5. c \in ByteSeq /\ Len(c) = Len(a) + n /\ DOMAIN c = 1 .. Len(a) + n
  BY <1>1, <1>3, <1>4 DEF ByteSeq
<1>6. \A i \in 1 .. Len(a) : c[i] = a[i]
  BY <1>3, <1>4 DEF ByteSeq
<1>7. Len(a) = 0 => \A i \in 1 .. n : c[i] = b[i]
  BY <1>1, <1>3, <1>4 DEF ByteSeq
<1>8. \A s \in ByteSeq : s # <<>> <=> Len(s) >= 1
  BY DEF ByteSeq
<1>9. CASE Len(a) = 0
  <2>1. ~(a # <<>>)
    BY <1>8, <1>9
  <2>2. c # <<>> => n >= 1
    BY <1>5, <1>8, <1>9
  <2>3. n >= 1 => c[1] = f[1]
    BY <1>1, <1>3, <1>7, <1>9
  <2> QED BY <1>5, <2>1, <2>2, <2>3 DEF Moved
<1>10. CASE Len(a) >= 1
  <2>1. a # <<>> /\ c # <<>>
    BY <1>1, <1>5, <1>8, <1>10
  <2>2. c[1] = a[1]
    BY <1>1, <1>6, <1>10
  <2> QED BY <1>5, <2>1, <2>2 DEF Moved
<1> QED BY <1>1, <1>9, <1>10

LEMMA ReadKeepsBytes ==
  ASSUME BytesInv, DatagramShapes, NEW field \in FieldSet, ReadField(field), UNCHANGED <<bus, client, handled>>
  PROVE  BytesInv'
<1> DEFINE n == FieldLen(field, dgram.nodes, dgram.size)
           bytes == SubSeq(fifo, 1, n)
<1>1. /\ BytesShapes /\ fifo \in ByteSeq /\ got \in ByteSeq /\ LengthsTyped(dgram) /\ OnceOnly(fifo)
      /\ handled \in Seq(ByteSeq)
  BY DEF BytesInv, BytesShapes
<1>2. /\ LengthsTyped(dgram')
      /\ \/ UNCHANGED <<fifo, got>>
         \/ /\ n \in 0 .. Len(fifo)
            /\ fifo' = SubSeq(fifo, n + 1, Len(fifo))
            /\ got' = IF field = "protocol_version" THEN bytes ELSE got \o bytes
  BY <1>1, ReadFieldBytes
<1>3. \A k : (got' = got /\ fifo' = fifo) => (Taken(k)' <=> Taken(k))
  BY DEF Taken
<1>4. Rests(fifo, fifo)
  BY <1>1 DEF Rests, From
<1>5. CASE UNCHANGED <<fifo, got>>
  BY <1>1, <1>2, <1>3, <1>4, <1>5, FifoKeepsBytes DEF BytesInv
<1> HIDE DEF n
<1>6. CASE /\ n \in 0 .. Len(fifo)
           /\ fifo' = SubSeq(fifo, n + 1, Len(fifo))
           /\ got' = IF field = "protocol_version" THEN bytes ELSE got \o bytes
  <2>1. PICK a \in {<<>>, got} : got' = a \o bytes
    <3>1. bytes = <<>> \o bytes
      <4>1. \A i \in 1 .. n : i \in 1 .. Len(fifo) 
        BY <1>6
      <4>2. bytes \in Seq(Nat \X Nat)
        BY <1>1, <1>6 DEF ByteSeq
      <4> HIDE DEF bytes
      <4> QED BY <4>2
    <3> QED BY <1>6, <3>1
  <2>2. a \in ByteSeq
    <3>1. <<>> \in ByteSeq
      BY DEF ByteSeq
    <3> QED BY <1>1, <2>1, <3>1, Zenon
  <2>3. /\ got' \in ByteSeq
        /\ got' # <<>> => (a # <<>> /\ got'[1] = a[1]) \/ (n >= 1 /\ got'[1] = fifo[1])
    <3>1. Moved(fifo, n, a, a \o SubSeq(fifo, 1, n))
      BY <1>1, <1>6, <2>2, HeadMoves
    <3>2. Moved(fifo, n, a, got')
      BY <2>1, <3>1
    <3> QED BY <3>2 DEF Moved
  <2>4. a # <<>> => a = got /\ got # <<>>
    BY <2>1
  <2>5. Rests(fifo', fifo)
    BY <1>4, <1>6, RestsSuffix
  <2>6. n >= 1 => 1 \in DOMAIN fifo
    BY <1>1, <1>6 DEF ByteSeq
  <2>7. got' # <<>> => got'[1][1] =< client
    BY <2>3, <2>4, <2>6 DEF BytesInv
  <2>8. ASSUME NEW k \in 1 .. client, fifo[1] = <<k, 1>>, n >= 1 PROVE ~InFifo(k)'
    <3>1. Len(fifo) \in Nat /\ DOMAIN fifo = 1 .. Len(fifo)
      BY <1>1 DEF ByteSeq
    <3>2. Len(fifo) \in n .. Len(fifo)
      BY <1>6, <3>1
    <3>3. Len(fifo') = Len(fifo) - n /\ \A i \in 1 .. Len(fifo) - n : fifo'[i] = fifo[n + i]
      BY <1>1, <1>6, <3>2, PartBytes
    <3>4. DOMAIN fifo' = 1 .. Len(fifo')
      BY <2>5 DEF Rests, ByteSeq
    <3>5. \A i \in DOMAIN fifo' : fifo'[i] = fifo[n + i] /\ n + i \in DOMAIN fifo /\ n + i # 1
      <4>1. PICK len \in Nat : len = Len(fifo)
        BY <3>1
      <4>2. n \in 1 .. len /\ DOMAIN fifo' = 1 .. len - n
        BY <1>6, <2>8, <3>3, <3>4, <4>1
      <4>3. \A i \in 1 .. len - n : n + i \in 1 .. len /\ n + i # 1
        BY <4>2
      <4> QED BY <3>1, <3>3, <4>1, <4>2, <4>3
    <3>6. k \in Nat \ {0}
      BY <1>1, BusCases
    <3>7. \A i \in DOMAIN fifo : fifo[i] = <<k, 1>> => i = 1
      BY <1>1, <2>6, <2>8, <3>6 DEF OnceOnly
    <3> QED BY <3>5, <3>7 DEF InFifo
  <2>9. ASSUME NEW k \in 1 .. client, Taken(k)' PROVE Taken(k) \/ (InFifo(k) /\ ~InFifo(k)')
    <3>1. CASE got' # <<>> /\ got'[1] = <<k, 1>>
      BY <2>3, <2>4, <2>6, <2>8, <3>1 DEF Taken, InFifo
    <3>2. CASE ~(got' # <<>> /\ got'[1] = <<k, 1>>)
      BY <2>9, <3>2 DEF Taken
    <3> QED BY <3>1, <3>2
  <2>10. \A i \in DOMAIN handled' : handled'[i] # <<>> => handled'[i][1][1] =< client
    BY DEF BytesInv
  <2> QED BY <1>1, <1>2, <2>3, <2>5, <2>7, <2>9, <2>10, FifoKeepsBytes
<1> QED BY <1>2, <1>5, <1>6

LEMMA WriteKeepsBytes ==
  ASSUME BytesInv, DatagramShapes, NEW field \in FieldSet, WriteField(field), UNCHANGED <<bus, client, handled>>
  PROVE  BytesInv'
<1>1. /\ fifo \in ByteSeq /\ got \in ByteSeq /\ LengthsTyped(dgram) /\ OnceOnly(fifo)
      /\ handled \in Seq(ByteSeq)
  BY DEF BytesInv, BytesShapes
<1>2. LengthsTyped(dgram') /\ Rests(fifo', fifo) /\ UNCHANGED got
  BY <1>1, WriteFieldBytes
<1>3. \A k : Taken(k)' <=> Taken(k)
  BY <1>2 DEF Taken
<1> QED BY <1>1, <1>2, <1>3, FifoKeepsBytes DEF BytesInv

\* A reception or a transmission ends: the fifo is kept or emptied.
LEMMA FinishKeepsBytes ==
  ASSUME BytesInv, fifo' = fifo \/ fifo' = <<>>, UNCHANGED <<bus, client, handled, got>>, LengthsTyped(dgram')
  PROVE  BytesInv'
<1>1. /\ fifo \in ByteSeq /\ got \in ByteSeq /\ LengthsTyped(dgram) /\ OnceOnly(fifo)
      /\ handled \in Seq(ByteSeq)
  BY DEF BytesInv, BytesShapes
<1>2. Rests(fifo', fifo)
  <2>1. <<>> \in ByteSeq /\ \A i \in DOMAIN <<>> : FALSE
    BY DEF ByteSeq
  <2>2. Rests(<<>>, fifo)
    BY <2>1 DEF Rests, OnceOnly, From
  <2>3. Rests(fifo, fifo)
    BY <1>1 DEF Rests, From
  <2> QED BY <2>2, <2>3
<1>3. \A k : Taken(k)' <=> Taken(k)
  BY DEF Taken
<1> QED BY <1>1, <1>2, <1>3, FifoKeepsBytes DEF BytesInv

LEMMA DispatchKeepsBytes ==
  ASSUME BytesInv, UNCHANGED <<bus, client, fifo, got>>, handled' = Append(handled, got), LengthsTyped(dgram')
  PROVE  BytesInv'
<1>1. /\ fifo \in ByteSeq /\ got \in ByteSeq /\ LengthsTyped(dgram) /\ OnceOnly(fifo)
      /\ handled \in Seq(ByteSeq)
  BY DEF BytesInv, BytesShapes
<1>2. Rests(fifo', fifo)
  BY <1>1 DEF Rests, From
<1>3. handled' \in Seq(ByteSeq) /\ \A i \in DOMAIN handled' : handled'[i] = got \/ (i \in DOMAIN handled /\ handled'[i] = handled[i])
  BY <1>1
<1>4. \A i \in DOMAIN handled' : handled'[i] # <<>> => handled'[i][1][1] =< client
  BY <1>3 DEF BytesInv
<1>5. ASSUME NEW k \in 1 .. client, Taken(k)' PROVE Taken(k)
  <2>1. k \in Nat
    BY BusCases DEF BytesInv
  <2>2. Command(k) # <<>> /\ Command(k)[1] = <<k, 1>>
    <3>1. Len(Command(k)) = 11 /\ Command(k)[1] = <<k, 1>>
      BY <2>1, CommandBytes
    <3>2. Len(<<>>) = 0
      OBVIOUS
    <3>3. Len(Command(k)) # Len(<<>>)
      BY <3>1, <3>2
    <3>4. Command(k) # <<>>
      BY <3>3, Zenon
    <3> QED BY <3>1, <3>4
  <2> QED BY <1>3, <1>5, <2>2 DEF Taken
<1> QED BY <1>1, <1>2, <1>3, <1>4, <1>5, FifoKeepsBytes DEF BytesInv

\* What the other handlers leave of the lengths.
LEMMA LengthsKept ==
  ASSUME WatchInv, LengthsTyped(dgram)
  PROVE  /\ ReceiveStart \/ ReceiveData => SameLengths(dgram', dgram) /\ dgram'.fsm = dgram.fsm
         /\ \A e \in {"rx", "tx", "soft error", "hard error"} : Finish(e) \/ Idle(e) => SameLengths(dgram', dgram)
<1>1. Formed(dgram)
  BY DEF WatchInv, DatagramShapes, Formed
<1>2. ASSUME ReceiveStart PROVE SameLengths(dgram', dgram) /\ dgram'.fsm = dgram.fsm
  <2>1. CASE UNCHANGED dgram
    BY <2>1 DEF SameLengths
  <2>2. CASE ~UNCHANGED dgram
    <3>1. PICK b : b = [dgram EXCEPT !.status = "active", !.soft = FALSE]
      OBVIOUS
    <3>2. PICK d : d = [b EXCEPT !.dog = NoDog]
      OBVIOUS
    <3>3. dgram' = Kicked(d, dogs).dgram
      BY <1>2, <2>2, <3>1, <3>2 DEF ReceiveStart, WatchdogStart
    <3>4. Formed(b) /\ SameLengths(b, dgram) /\ b.fsm = dgram.fsm
      BY <1>1, <3>1 DEF Formed, SameLengths
    <3>5. Formed(d) /\ SameLengths(d, b) /\ d.fsm = b.fsm
      BY <3>2, <3>4 DEF Formed, SameLengths
    <3>6. SameLengths(dgram', d) /\ dgram'.fsm = d.fsm
      BY <3>3, <3>5, KickedLengths, KickedMakes
    <3> QED BY <3>4, <3>5, <3>6 DEF SameLengths
  <2> QED BY <2>1, <2>2
<1>3. ASSUME ReceiveData PROVE SameLengths(dgram', dgram) /\ dgram'.fsm = dgram.fsm
  <2>1. CASE UNCHANGED dgram
    BY <2>1 DEF SameLengths
  <2>2. CASE ~UNCHANGED dgram
    <3>1. dgram' = Kicked(dgram, dogs).dgram
      BY <1>3, <2>2 DEF ReceiveData
    <3> QED BY <1>1, <3>1, KickedLengths, KickedMakes
  <2> QED BY <2>1, <2>2
<1>4. ASSUME NEW e \in Raisable, Finish(e) PROVE SameLengths(dgram', dgram)
  BY <1>1, <1>4 DEF Finish, Formed, SameLengths
<1>5. ASSUME NEW e \in {"rx", "tx", "soft error", "hard error"}, Idle(e) PROVE SameLengths(dgram', dgram)
  <2>1. \/ dgram' = [dgram EXCEPT !.fsm = "idle", !.listening = FALSE, !.status = "active"]
        \/ dgram' = [dgram EXCEPT !.fsm = "idle", !.listening = FALSE, !.status = "rx complete"]
        \/ e # "rx"
    BY <1>5 DEF Idle, Dispatch
  <2>3. e = "tx" => dgram' = [dgram EXCEPT !.fsm = "idle", !.status = "tx complete", !.listening = TRUE]
    BY <1>5 DEF Idle
  <2>4. e = "hard error" => dgram' = [dgram EXCEPT !.fsm = "idle", !.status = "error", !.listening = FALSE]
    BY <1>5 DEF Idle
  <2>5. e = "soft error" => dgram' = [dgram EXCEPT !.fsm = "idle", !.soft = TRUE]
    BY <1>5 DEF Idle
  <2> QED BY <1>1, <1>5, <2>1, <2>3, <2>4, <2>5 DEF Formed, SameLengths
<1> QED BY <1>2, <1>3, <1>4, <1>5 DEF Raisable, Driving

LEMMA EventKeepsBytes ==
  ASSUME BytesInv, WatchInv, can_datagram_process_event
  PROVE  BytesInv'
<1> DEFINE e == Head(queue)
<1>1. LengthsTyped(dgram) /\ dgram.field \in FieldSet /\ DatagramShapes /\ queue \in Seq(Raisable)
  BY DEF BytesInv, BytesShapes, WatchInv, LengthsTyped, DatagramShapes
<1>2. UNCHANGED <<bus, client>> /\ e \in Raisable
  BY <1>1, EventTaken DEF can_datagram_process_event
<1>3. ASSUME NEW x \in {"rx", "tx", "soft error", "hard error"}, Finish(x) \/ Idle(x) PROVE LengthsTyped(dgram')
  BY <1>1, <1>3, LengthsKept DEF SameLengths, LengthsTyped
<1>4. dgram.field # "data" => NextField(dgram.field) \in FieldSet
  BY <1>1, NextTyped
<1>5. CASE RxEvent(e)
  <2>1. "protocol_version" \in FieldSet
    BY DEF FieldSet
  <2>2. \E field \in FieldSet : ReadField(field)
    BY <1>1, <1>4, <1>5, <2>1 DEF RxEvent
  <2> QED BY <1>1, <1>2, <1>5, <2>2, ReadKeepsBytes DEF RxEvent
<1>6. CASE TxEvent(e)
  <2>1. "protocol_version" \in FieldSet
    BY DEF FieldSet
  <2>2. \E field \in FieldSet : WriteField(field)
    BY <1>1, <1>4, <1>6, <2>1 DEF TxEvent
  <2> QED BY <1>1, <1>2, <1>6, <2>2, WriteKeepsBytes DEF TxEvent
<1>7. CASE EndEvent(e)
  <2>1. Finish(e) /\ UNCHANGED <<got, handled>> /\ e \in {"rx", "tx", "soft error", "hard error"}
    BY <1>7 DEF EndEvent, Error
  <2>2. fifo' = fifo \/ fifo' = <<>>
    BY <2>1 DEF Finish
  <2> QED BY <1>2, <1>3, <2>1, <2>2, FinishKeepsBytes
<1>8. CASE IdleEvent(e)
  <2>1. Idle(e) /\ UNCHANGED <<fifo, got>> /\ e \in {"rx", "tx", "soft error", "hard error"}
    BY <1>2, <1>8 DEF IdleEvent, Raisable, Driving
  <2>2. handled' = Append(handled, got) \/ handled' = handled
    BY <2>1 DEF Idle, Dispatch
  <2> QED BY <1>2, <1>3, <2>1, <2>2, FinishKeepsBytes, DispatchKeepsBytes
<1>9. CASE NoTransition(e)
  <2>1. UNCHANGED <<dgram, fifo, got, handled>>
    BY <1>9 DEF NoTransition
  <2>2. LengthsTyped(dgram')
    BY <1>1, <2>1
  <2> QED BY <1>2, <2>1, <2>2, FinishKeepsBytes
<1> QED BY <1>5, <1>6, <1>7, <1>8, <1>9 DEF can_datagram_process_event

LEMMA BytesNext == BytesInv /\ WatchInv /\ [DatagramNext]_datagramVars => BytesInv'
<1> SUFFICES ASSUME BytesInv, WatchInv, [DatagramNext]_datagramVars PROVE BytesInv'
  OBVIOUS
<1>1. LengthsTyped(dgram)
  BY DEF BytesInv, BytesShapes
<1>2. ASSUME SameLengths(dgram', dgram) PROVE LengthsTyped(dgram')
  BY <1>1, <1>2 DEF SameLengths, LengthsTyped
<1>3. CASE ClientSends
  BY <1>3, SendKeepsBytes
<1>4. CASE FrameLost
  <2>1. LengthsTyped(dgram')
    BY <1>1, <1>4 DEF FrameLost
  <2> QED BY <1>4, <2>1, BusKeepsBytes DEF FrameLost
<1>5. CASE ReceiveStart
  <2>1. LengthsTyped(dgram')
    BY <1>1, <1>2, <1>5, LengthsKept
  <2> QED BY <1>5, <2>1, BusKeepsBytes DEF ReceiveStart
<1>6. CASE ReceiveData
  <2>1. LengthsTyped(dgram')
    BY <1>1, <1>2, <1>6, LengthsKept
  <2>2. fifo' = fifo \/ fifo' = fifo \o Head(bus)
    BY <1>6 DEF ReceiveData
  <2>3. bus # <<>> /\ Head(bus) # Start /\ bus' = Tail(bus) /\ UNCHANGED <<got, client, handled>>
    BY <1>6 DEF ReceiveData
  <2> QED BY <2>1, <2>2, <2>3, BusKeepsBytes, DataKeepsBytes
<1>7. ASSUME NEW i, WatchdogExpires(i) PROVE BytesInv'
  <2>1. UNCHANGED <<dgram, fifo, got, bus, client, handled>>
    BY <1>7 DEF WatchdogExpires
  <2>2. LengthsTyped(dgram')
    BY <1>1, <2>1
  <2> QED BY <2>1, <2>2, FinishKeepsBytes
<1>8. CASE UNCHANGED datagramVars
  <2>1. UNCHANGED <<dgram, fifo, got, bus, client, handled>>
    BY <1>8 DEF datagramVars
  <2>2. LengthsTyped(dgram')
    BY <1>1, <2>1
  <2> QED BY <2>1, <2>2, FinishKeepsBytes
<1> QED BY <1>3, <1>4, <1>5, <1>6, <1>7, <1>8, EventKeepsBytes DEF DatagramNext

LEMMA SentInit == DatagramInit => SentInv
BY DEF DatagramInit, SentInv, In

\* What SentInv asks of the state after a step that raises at most an error.
LEMMA SentKept ==
  ASSUME SentInv, dgram'.sent = dgram.sent,
         dgram'.listening = dgram.listening \/ dgram'.listening = FALSE,
         (dgram'.fsm = dgram.fsm /\ dgram'.field = dgram.field) \/ dgram'.fsm \in {"idle", "done"},
         \A x \in {"rx", "tx", "soft error"} : In(x, queue') => In(x, queue)
  PROVE  SentInv'
BY DEF SentInv

LEMMA EventKeepsSent ==
  ASSUME SentInv, BytesInv, WatchInv, can_datagram_process_event
  PROVE  SentInv'
<1> DEFINE h == Head(queue)
           t == Tail(queue)
<1>1. /\ LengthsTyped(dgram) /\ dgram.field \in FieldSet /\ DatagramShapes /\ queue \in Seq(Raisable)
      /\ fifo \in ByteSeq /\ OnceOnly(fifo) /\ Formed(dgram) /\ OneDriving(queue) /\ queue # <<>>
  BY DEF BytesInv, BytesShapes, WatchInv, LengthsTyped, DatagramShapes, can_datagram_process_event
<1>2. /\ t \in Seq(Raisable) /\ h \in Raisable /\ OneDriving(t) /\ In(h, queue)
      /\ h \in Driving => NoneDriving(t)
      /\ \A x : In(x, t) => In(x, queue)
  BY <1>1, EventTaken
<1>3. \A x \in {"rx", "tx", "soft error"} : x \in Driving
  BY DEF Driving
<1> HIDE DEF h, t
<1>4. ASSUME NEW e \in Raisable, queue' = Append(t, e), e \in Driving => h \in Driving
      PROVE  /\ \A x : In(x, queue') => In(x, queue) \/ x = e
             /\ h \in Driving => \A x \in {"rx", "tx", "soft error"} : In(x, queue') => x = e
  <2>1. \A x \in Driving : In(x, queue') => x = e \/ h \notin Driving
    BY <1>1, <1>4, EventCycled DEF h, t
  <2>2. \A x : In(x, queue') <=> In(x, t) \/ x = e
    <3>1. ASSUME NEW q \in Seq(Raisable), NEW r, r = Append(q, e)
          PROVE  \A x : In(x, r) <=> In(x, q) \/ x = e
      BY <3>1, EventRaised
    <3> QED BY <1>2, <1>4, <3>1
  <2> QED BY <1>2, <1>3, <2>1, <2>2
<1>5. "protocol_version" \in FieldSet /\ (dgram.field # "data" => NextField(dgram.field) \in FieldSet)
  <2>1. "protocol_version" \in FieldSet
    BY DEF FieldSet
  <2> QED BY <1>1, <2>1, NextTyped
<1>6. CASE RxEvent(h)
  <2>1. PICK field \in FieldSet : ReadField(field)
    BY <1>1, <1>5, <1>6 DEF RxEvent
  <2>2. h \in {"rx", "repeat"} /\ (h = "rx" \/ dgram.fsm = "rx")
    BY <1>6 DEF RxEvent
  <2>3. dgram.sent = 0
    BY <1>2, <2>2 DEF SentInv
  <2>4. dgram'.sent = dgram.sent /\ dgram'.fsm = "rx" /\ dgram'.listening = dgram.listening
    BY <1>1, <2>1, ReadFieldBytes, ReadFieldMakes DEF SameListener
  <2>5. PICK e \in {"rx", "repeat", "soft error", "hard error"} : queue' = Append(t, e)
    BY <1>1, <2>1, ReadFieldMakes DEF t
  <2>6. e \in Raisable /\ h \in Driving
    BY <2>2 DEF Raisable, Driving
  <2>7. In("tx", queue') => In("tx", queue)
    BY <1>4, <2>5, <2>6
  <2> QED BY <2>3, <2>4, <2>7 DEF SentInv
<1>7. CASE TxEvent(h)
  <2>1. PICK field \in FieldSet : WriteField(field)
    BY <1>1, <1>5, <1>7 DEF TxEvent
  <2>2. h \in {"tx", "repeat"} /\ (h = "tx" \/ dgram.fsm = "tx")
    BY <1>7 DEF TxEvent
  <2>3. dgram.listening = FALSE
    BY <1>2, <2>2 DEF SentInv
  <2>4. dgram'.fsm = "tx" /\ dgram'.listening = dgram.listening
    BY <1>1, <2>1, WriteFieldMakes DEF SameListener
  <2>5. /\ dgram'.field = field
        /\ dgram'.sent = 0 \/ (field = "data" /\ queue' = Append(t, "repeat"))
    BY <1>1, <2>1, WriteFieldBytes DEF t
  <2>6. "repeat" \in Raisable /\ h \in Driving
    BY <2>2 DEF Raisable, Driving
  <2>7. dgram'.sent # 0 => \A x \in {"rx", "tx", "soft error"} : ~In(x, queue')
    BY <1>4, <2>5, <2>6
  <2> QED BY <2>3, <2>4, <2>5, <2>7 DEF SentInv
<1>8. CASE EndEvent(h)
  <2>1. /\ queue' = Append(t, h) /\ dgram' = [dgram EXCEPT !.fsm = "done", !.dog = NoDog]
    BY <1>8 DEF EndEvent, Finish, Raised, h, t
  <2>2. dgram'.sent = dgram.sent /\ dgram'.listening = dgram.listening /\ dgram'.fsm = "done"
    BY <1>1, <2>1 DEF Formed
  <2>3. \A x : In(x, queue') => In(x, queue)
    BY <1>2, <1>4, <2>1
  <2> QED BY <2>2, <2>3, SentKept
<1>9. CASE IdleEvent(h)
  <2>1. Idle(h) /\ h \in {"rx", "tx", "soft error", "hard error"}
    BY <1>2, <1>9 DEF IdleEvent, Raisable, Driving
  <2>2. dgram'.sent = dgram.sent
    BY <1>1, <2>1, LengthsKept DEF SameLengths
  <2>3. CASE h = "rx"
    <3>1. dgram.sent = 0
      BY <1>2, <2>3 DEF SentInv
    <3>2. \/ dgram' = [dgram EXCEPT !.fsm = "idle", !.listening = FALSE, !.status = "active"]
          \/ dgram' = [dgram EXCEPT !.fsm = "idle", !.listening = FALSE, !.status = "rx complete"]
      BY <2>1, <2>3 DEF Idle, Dispatch
    <3>3. dgram'.listening = FALSE
      BY <1>1, <3>2 DEF Formed
    <3> QED BY <2>2, <3>1, <3>3 DEF SentInv
  <2>4. CASE h = "tx"
    <3>1. dgram.sent = 0
      BY <1>2, <2>4 DEF SentInv
    <3>2. dgram' = [dgram EXCEPT !.fsm = "idle", !.status = "tx complete", !.listening = TRUE] /\ queue' = t
      BY <2>1, <2>4 DEF Idle, t
    <3>3. dgram'.fsm = "idle"
      BY <1>1, <3>2 DEF Formed
    <3>4. ~In("tx", queue')
      BY <1>2, <1>3, <2>4, <3>2 DEF NoneDriving, In
    <3> QED BY <2>2, <3>1, <3>3, <3>4 DEF SentInv
  <2>5. CASE h \in Error
    <3>1. \/ dgram' = [dgram EXCEPT !.fsm = "idle", !.status = "error", !.listening = FALSE]
          \/ dgram' = [dgram EXCEPT !.fsm = "idle", !.soft = TRUE]
      BY <2>1, <2>5 DEF Idle, Error
    <3>2. dgram'.fsm = "idle" /\ (dgram'.listening = dgram.listening \/ dgram'.listening = FALSE)
      BY <1>1, <3>1 DEF Formed
    <3>3. queue' = t
      BY <2>1, <2>5 DEF Idle, Error, t
    <3>4. \A x : In(x, queue') => In(x, queue)
      BY <1>2, <3>3
    <3> QED BY <2>2, <3>2, <3>4, SentKept
  <2> QED BY <2>1, <2>3, <2>4, <2>5 DEF Error
<1>10. CASE NoTransition(h)
  <2>1. queue' = t /\ UNCHANGED dgram
    BY <1>10 DEF NoTransition, t
  <2>2. \A x : In(x, queue') => In(x, queue)
    BY <1>2, <2>1
  <2> QED BY <2>1, <2>2, SentKept
<1> QED BY <1>6, <1>7, <1>8, <1>9, <1>10 DEF can_datagram_process_event, h

LEMMA SentNext == SentInv /\ BytesInv /\ WatchInv /\ [DatagramNext]_datagramVars => SentInv'
<1> SUFFICES ASSUME SentInv, BytesInv, WatchInv, [DatagramNext]_datagramVars PROVE SentInv'
  OBVIOUS
<1>1. LengthsTyped(dgram) /\ queue \in Seq(Raisable)
  BY DEF BytesInv, BytesShapes, WatchInv, DatagramShapes
<1>2. CASE UNCHANGED <<dgram, queue>>
  BY <1>2, SentKept
<1>3. CASE ReceiveStart
  <2>1. SameLengths(dgram', dgram) /\ dgram'.fsm = dgram.fsm
    BY <1>1, <1>3, LengthsKept
  <2>2. CASE StartAccepted
    <3>1. queue' = Append(queue, "rx") /\ "rx" \in Raisable
      BY <1>3, <2>2 DEF ReceiveStart, Raisable, Driving
    <3>2. In("tx", queue') <=> In("tx", queue) \/ "tx" = "rx"
      BY <1>1, <3>1, EventRaised
    <3>3. dgram.listening = TRUE
      BY <2>2 DEF StartAccepted, WatchInv, DatagramShapes, Formed
    <3>4. dgram.sent = 0 /\ dgram.fsm # "tx" /\ ~In("tx", queue)
      BY <3>3 DEF SentInv
    <3>5. dgram'.sent = 0 /\ dgram'.fsm # "tx" /\ ~In("tx", queue')
      BY <2>1, <3>2, <3>4 DEF SameLengths
    <3> QED BY <3>5 DEF SentInv
  <2>3. CASE ~StartAccepted
    BY <1>2, <1>3, <2>3 DEF ReceiveStart
  <2> QED BY <2>2, <2>3
<1>4. CASE ReceiveData
  <2>1. SameLengths(dgram', dgram) /\ dgram'.fsm = dgram.fsm /\ UNCHANGED queue
    BY <1>1, <1>4, LengthsKept DEF ReceiveData
  <2>2. dgram'.listening = dgram.listening
    <3>1. dgram' = dgram \/ dgram' = Kicked(dgram, dogs).dgram
      BY <1>4 DEF ReceiveData
    <3>2. Formed(dgram)
      BY DEF WatchInv, DatagramShapes, Formed
    <3> QED BY <3>1, <3>2, KickedMakes DEF SameListener
  <2> QED BY <2>1, <2>2, SentKept DEF SameLengths
<1>5. ASSUME NEW i, WatchdogExpires(i) PROVE SentInv'
  <2>1. queue' = Append(queue, "hard error") /\ UNCHANGED dgram /\ "hard error" \in Raisable
    BY <1>5 DEF WatchdogExpires, Raisable
  <2>2. \A x : In(x, queue') <=> In(x, queue) \/ x = "hard error"
    BY <1>1, <2>1, EventRaised
  <2>3. \A x \in {"rx", "tx", "soft error"} : In(x, queue') => In(x, queue)
    BY <2>2
  <2> QED BY <2>1, <2>3, SentKept
<1>6. UNCHANGED datagramVars \/ ClientSends \/ FrameLost => UNCHANGED <<dgram, queue>>
  BY DEF datagramVars, ClientSends, FrameLost
<1> QED BY <1>2, <1>3, <1>4, <1>5, <1>6, EventKeepsSent DEF DatagramNext

\* The frames transmitted and the fifo hold the answer up to a position.
Uncut(t, p) ==
  /\ t = [fifo |-> t.fifo, out |-> t.out]
  /\ t.fifo \in ByteSeq /\ t.out \in ByteSeq /\ Len(t.fifo) < 8
  /\ t.out \o t.fifo = UpTo(p)

LEMMA BytesAssociate ==
  ASSUME NEW a \in ByteSeq, NEW b \in ByteSeq, NEW c \in ByteSeq
  PROVE  (a \o b) \o c = a \o (b \o c)
<1> DEFINE S == Nat \X Nat
<1>1. a \in Seq(S) /\ b \in Seq(S) /\ c \in Seq(S)
  BY DEF ByteSeq
<1> HIDE DEF S
<1>2. ASSUME NEW T, NEW x \in Seq(T), NEW y \in Seq(T), NEW z \in Seq(T)
      PROVE  (x \o y) \o z = x \o (y \o z)
  BY ConcatAssociative
<1> QED BY <1>1, <1>2

PartOf(r, s, m, n) == r \in ByteSeq /\ Len(r) = n - m /\ \A i \in 1 .. n - m : r[i] = s[m + i]

LEMMA PartIs ==
  ASSUME NEW s \in ByteSeq, NEW m \in 0 .. Len(s), NEW n \in m .. Len(s)
  PROVE  PartOf(SubSeq(s, m + 1, n), s, m, n)
BY PartBytes DEF PartOf

LEMMA UncutParts ==
  ASSUME NEW f \in ByteSeq, NEW o \in ByteSeq, Len(f) < 8, NEW p, o \o f = UpTo(p)
  PROVE  Uncut([fifo |-> f, out |-> o], p)
BY DEF Uncut

LEMMA WrittenUncut ==
  ASSUME NEW p \in 0 .. 9 + AnswerLen, NEW q \in 0 .. 9 + AnswerLen, p =< q, q =< p + 8,
         NEW t, Uncut(t, p), NEW b, b = SubSeq(Answer, p + 1, q)
  PROVE  Uncut(Written(t, b), q)
<1>1. PICK f \in ByteSeq, o \in ByteSeq : t = [fifo |-> f, out |-> o] /\ Len(f) < 8 /\ o \o f = UpTo(p)
  BY DEF Uncut
<1>2. Answer \in ByteSeq /\ Len(Answer) = 9 + AnswerLen /\ AnswerLen \in Nat
  BY AnswerBytes
<1>3. b \in ByteSeq /\ Len(b) = q - p /\ \A i \in 1 .. q - p : b[i] = Answer[p + i]
  <2>1. p \in 0 .. Len(Answer) /\ q \in p .. Len(Answer)
    BY <1>2
  <2>2. PartOf(SubSeq(Answer, p + 1, q), Answer, p, q)
    BY <1>2, <2>1, PartIs
  <2> QED BY <2>2 DEF PartOf
<1>4. UpTo(p) \o b = UpTo(q)
  <2>1. 1 \in 1 .. Len(Answer) + 1 /\ p \in 1 - 1 .. Len(Answer) /\ q \in p .. Len(Answer)
    BY <1>2
  <2>2. Answer \in Seq(Nat \X Nat)
    BY <1>2 DEF ByteSeq
  <2>3. SubSeq(Answer, 1, p) \o SubSeq(Answer, p + 1, q) = SubSeq(Answer, 1, q)
    BY <2>1, <2>2, ConcatAdjacentSubSeq
  <2> QED BY <2>3 DEF UpTo
<1>5. PICK c : c = f \o b
  OBVIOUS
<1>6. c \in ByteSeq /\ Len(c) = Len(f) + Len(b) /\ Len(f) \in Nat
  BY <1>1, <1>3, <1>5 DEF ByteSeq
<1>7. o \o c = UpTo(q)
  <2>2. (o \o f) \o b = o \o (f \o b)
    BY <1>1, <1>3, BytesAssociate
  <2> QED BY <1>1, <1>4, <1>5, <2>2
<1>8. Written(t, b) = IF Len(c) < 8 THEN [t EXCEPT !.fifo = c]
                      ELSE [fifo |-> SubSeq(c, 8 + 1, Len(c)), out |-> o \o SubSeq(c, 1, 8)]
  BY <1>1, <1>5 DEF Written, FrameLen
<1>9. CASE Len(c) < 8
  <2>1. Written(t, b) = [fifo |-> c, out |-> o]
    BY <1>1, <1>8, <1>9
  <2> QED BY <1>1, <1>6, <1>7, <1>9, <2>1, UncutParts
<1>10. CASE ~(Len(c) < 8)
  <2>1. 8 \in 0 .. Len(c) /\ Len(c) \in 8 .. Len(c) /\ Len(c) - 8 < 8
    BY <1>1, <1>2, <1>3, <1>6, <1>10
  <2>2. PICK r : r = SubSeq(c, 8 + 1, Len(c))
    OBVIOUS
  <2>3. PICK a : a = SubSeq(c, 0 + 1, 8)
    OBVIOUS
  <2>4. r \in ByteSeq /\ Len(r) = Len(c) - 8 /\ \A i \in 1 .. Len(c) - 8 : r[i] = c[8 + i]
    <3>1. PartOf(SubSeq(c, 8 + 1, Len(c)), c, 8, Len(c))
      BY <1>6, <2>1, PartIs
    <3> QED BY <2>2, <3>1 DEF PartOf
  <2>5. a \in ByteSeq
    <3>1. 0 \in 0 .. Len(c) /\ 8 \in 0 .. Len(c)
      BY <2>1
    <3> QED BY <1>6, <2>3, <3>1, PartBytes
  <2>6. a \o r = c
    <3>1. c \in Seq(Nat \X Nat)
      BY <1>6 DEF ByteSeq
    <3>2. 1 \in 1 .. Len(c) + 1 /\ 8 \in 1 - 1 .. Len(c)
      BY <2>1
    <3>3. SubSeq(c, 1, 8) \o SubSeq(c, 8 + 1, Len(c)) = SubSeq(c, 1, Len(c))
      BY <2>1, <3>1, <3>2, ConcatAdjacentSubSeq
    <3>4. SubSeq(c, 1, Len(c)) = c
      BY <3>1, SubSeqFull
    <3> QED BY <2>2, <2>3, <3>3, <3>4
  <2>7. (o \o a) \o r = o \o (a \o r)
    BY <1>1, <2>4, <2>5, BytesAssociate
  <2>8. PICK s : s = o \o a
    OBVIOUS
  <2>9. s \in ByteSeq
    BY <1>1, <2>5, <2>8 DEF ByteSeq
  <2>10. Written(t, b) = [fifo |-> r, out |-> s]
    BY <1>8, <1>10, <2>2, <2>3, <2>8
  <2>11. s \o r = UpTo(q)
    BY <1>7, <2>6, <2>7, <2>8
  <2>12. Len(r) < 8
    BY <2>1, <2>4
  <2> QED BY <2>4, <2>9, <2>10, <2>11, <2>12, UncutParts
<1> QED BY <1>9, <1>10

LEMMA TransmittedUncut ==
  ASSUME NEW from \in Nat, NEW to \in Nat, from =< to, to =< from + 32, to =< 9 + AnswerLen,
         NEW t, Uncut(t, from)
  PROVE  Uncut(Transmitted(t, from, to), to)
<1> DEFINE n == Writes(from, to)
           P(i) == from + 8 * (i - 1)
           Q(i) == IF i = n THEN to ELSE from + 8 * i
<1>1. PICK w : WritesOf(w, t, from, to)
  BY WritesFollow
<1>2. n \in 1 .. 4 /\ w[0] = t /\ Transmitted(t, from, to) = w[n]
  BY <1>1 DEF WritesOf
<1>3. ASSUME NEW i \in 1 .. n, Uncut(w[i - 1], P(i)) PROVE Uncut(w[i], Q(i))
  <2>1. w[i] = Written(w[i - 1], Piece(i, from, to))
    BY <1>1 DEF WritesOf
  <2>2. PICK p \in 0 .. 9 + AnswerLen, q \in 0 .. 9 + AnswerLen :
          /\ p = from + 8 * (i - 1) /\ p =< q /\ q =< p + 8
          /\ q = IF i = Writes(from, to) THEN to ELSE from + 8 * i
          /\ Piece(i, from, to) = SubSeq(Answer, p + 1, q)
    BY PieceBytes
  <2>3. p = P(i) /\ q = Q(i)
    BY <2>2
  <2> HIDE DEF P, Q
  <2>4. PICK x : x = w[i - 1]
    OBVIOUS
  <2>5. Uncut(x, p)
    BY <1>3, <2>3, <2>4
  <2>6. Uncut(Written(x, Piece(i, from, to)), q)
    BY <2>2, <2>5, WrittenUncut
  <2> QED BY <2>1, <2>3, <2>4, <2>6
<1>4. P(1) = from /\ Q(n) = to
  BY DEF P, Q
<1>5. \A i \in {1, 2, 3} : i < n => Q(i) = P(i + 1)
  BY <1>2
<1> HIDE DEF n, P, Q
<1>6. Uncut(w[1], Q(1))
  BY <1>2, <1>3, <1>4
<1>7. ASSUME NEW i \in {1, 2, 3}, i < n, Uncut(w[i], Q(i)) PROVE Uncut(w[i + 1], Q(i + 1))
  <2>1. (i + 1) - 1 = i /\ i + 1 \in 1 .. n
    BY <1>2, <1>7
  <2> QED BY <1>3, <1>5, <1>7, <2>1
<1>8. 1 < n => Uncut(w[2], Q(2))
  BY <1>6, <1>7
<1>9. 2 < n => Uncut(w[3], Q(3))
  BY <1>2, <1>7, <1>8
<1>10. 3 < n => Uncut(w[4], Q(4))
  BY <1>2, <1>7, <1>9
<1>11. n \in {1, 2, 3, 4}
  BY <1>2
<1> QED BY <1>2, <1>4, <1>6, <1>8, <1>9, <1>10, <1>11

\* The end of a field is the beginning of the next.
LEMMA FieldsAdjoin ==
  \A field \in FieldSet \ {"data"} :
    Before(NextField(field)) = Before(field) + FieldLen(field, 0, AnswerLen)
BY NextFields DEF FieldSet, Before, FieldLen

\* What a step of the tx side leaves of the answer.
LEMMA WriteUncut ==
  ASSUME DatagramShapes, LengthsTyped(dgram), NEW field \in FieldSet, WriteField(field),
         fifo \in ByteSeq, answer \in ByteSeq, Len(fifo) < 8,
         answer \o fifo = UpTo(Before(field) + IF field = "data" THEN dgram.sent ELSE 0)
  PROVE  \/ /\ queue' = Append(Tail(queue), "tx") /\ field # "data"
            /\ Uncut([fifo |-> fifo', out |-> answer'], Before(field) + FieldLen(field, 0, AnswerLen))
         \/ /\ queue' = Append(Tail(queue), "repeat") /\ field = "data"
            /\ dgram'.sent \in 1 .. AnswerLen - 1
            /\ Uncut([fifo |-> fifo', out |-> answer'], 9 + dgram'.sent)
         \/ /\ queue' = Append(Tail(queue), "tx") /\ field = "data"
            /\ answer' = Answer
<1> DEFINE from == Before(field) + IF field = "data" THEN dgram.sent ELSE 0
           end == Before(field) + FieldLen(field, 0, AnswerLen)
           whole == end - from =< MaxCanTx * FrameLen
           to == IF whole THEN end ELSE from + MaxCanTx * FrameLen
           b == [fifo |-> fifo, out |-> answer]
           written == Transmitted(b, from, to)
           t == IF field = "data" /\ whole THEN Flushed(written) ELSE written
           v == IF whole THEN 0 ELSE to - Before(field)
<1>1. /\ fifo' = t.fifo /\ answer' = t.out
      /\ dgram' = [dgram EXCEPT !.fsm = "tx", !.field = field, !.sent = v]
      /\ Raised(IF whole THEN "tx" ELSE "repeat")
  BY DEF WriteField
<1>2. /\ from \in Nat /\ end \in Nat /\ from =< end /\ end =< 9 + AnswerLen
      /\ to \in Nat /\ from =< to /\ to =< from + 32 /\ to =< 9 + AnswerLen
      /\ ~whole => field = "data" /\ v \in 1 .. AnswerLen - 1 /\ to = 9 + v
      /\ whole => to = end
      /\ field = "data" => end = 9 + AnswerLen
  <2>1. /\ Before(field) \in 0 .. 9 /\ FieldLen(field, 0, AnswerLen) \in Nat
        /\ Before(field) + FieldLen(field, 0, AnswerLen) =< 9 + AnswerLen
        /\ field # "data" => FieldLen(field, 0, AnswerLen) =< 4
        /\ field = "data" => Before(field) = 9 /\ FieldLen(field, 0, AnswerLen) = AnswerLen
    BY AnswerFields
  <2>2. dgram.sent \in 0 .. AnswerLen - 1 /\ AnswerLen \in Nat /\ AnswerLen >= 1
    BY AnswerBytes DEF LengthsTyped
  <2>3. CASE field = "data"
    <3>1. PICK s \in 0 .. AnswerLen - 1 : s = dgram.sent
      BY <2>2
    <3>2. from = 9 + s /\ end = 9 + AnswerLen /\ Before(field) = 9
      BY <2>1, <2>3, <3>1
    <3>3. whole <=> (9 + AnswerLen) - (9 + s) =< 32
      BY <3>2 DEF MaxCanTx, FrameLen
    <3>4. to = IF whole THEN 9 + AnswerLen ELSE (9 + s) + 32
      BY <3>2 DEF MaxCanTx, FrameLen
    <3>5. v = IF whole THEN 0 ELSE to - 9
      BY <3>2
    <3> HIDE DEF from, end, whole, to, v
    <3>6. CASE whole
      BY <2>2, <2>3, <3>2, <3>3, <3>4, <3>5, <3>6
    <3>7. CASE ~whole
      BY <2>2, <2>3, <3>2, <3>3, <3>4, <3>5, <3>7
    <3> QED BY <3>6, <3>7
  <2>4. CASE field # "data"
    <3>1. from = Before(field)
      BY <2>1, <2>4
    <3>2. whole
      BY <2>1, <2>4, <3>1 DEF MaxCanTx, FrameLen
    <3>3. to = end
      BY <3>2
    <3>4. end = Before(field) + FieldLen(field, 0, AnswerLen)
      OBVIOUS
    <3>5. PICK x \in 0 .. 9, l \in 0 .. 4 : x = Before(field) /\ l = FieldLen(field, 0, AnswerLen)
      BY <2>1, <2>4
    <3> HIDE DEF from, end, whole, to, v
    <3>6. from = x /\ end = x + l /\ to = x + l /\ x + l =< 9 + AnswerLen
      BY <2>1, <3>1, <3>3, <3>4, <3>5
    <3>7. x \in Nat /\ x + l \in Nat /\ x =< x + l /\ x + l =< x + 32
      OBVIOUS
    <3> QED BY <2>4, <3>2, <3>3, <3>6, <3>7
  <2> QED BY <2>3, <2>4
<1>3. Uncut(b, from)
  BY UncutParts
<1>4. dgram'.sent = v
  <2> HIDE DEF v
  <2> QED BY <1>1 DEF DatagramShapes, Formed
<1>5. queue' = Append(Tail(queue), IF whole THEN "tx" ELSE "repeat")
  BY <1>1 DEF Raised
<1>6. end = Before(field) + FieldLen(field, 0, AnswerLen)
  OBVIOUS
<1> HIDE DEF from, to, end, whole, b, v
<1>7. Uncut(written, to)
  BY <1>2, <1>3, TransmittedUncut
<1> HIDE DEF written
<1>8. CASE whole /\ field = "data"
  <2>1. PICK f \in ByteSeq, o \in ByteSeq : written = [fifo |-> f, out |-> o] /\ o \o f = UpTo(to)
    BY <1>7 DEF Uncut
  <2>2. answer' = o \o f
    BY <1>1, <1>8, <2>1 DEF Flushed
  <2>3. Answer \in Seq(Nat \X Nat) /\ Len(Answer) = 9 + AnswerLen
    BY AnswerBytes DEF ByteSeq
  <2>4. SubSeq(Answer, 1, Len(Answer)) = Answer
    BY <2>3, SubSeqFull
  <2>5. answer' = Answer
    BY <1>2, <1>8, <2>1, <2>2, <2>3, <2>4 DEF UpTo
  <2> QED BY <1>5, <1>8, <2>5
<1>9. CASE ~(whole /\ field = "data")
  <2>1. t = written
    BY <1>9
  <2> HIDE DEF t
  <2>2. [fifo |-> fifo', out |-> answer'] = written
    BY <1>1, <1>7, <2>1 DEF Uncut
  <2>3. Uncut([fifo |-> fifo', out |-> answer'], to)
    BY <1>7, <2>2
  <2>4. CASE whole
    BY <1>2, <1>5, <1>6, <1>9, <2>3, <2>4
  <2>5. CASE ~whole
    BY <1>2, <1>4, <1>5, <2>3, <2>5
  <2> QED BY <2>4, <2>5
<1> QED BY <1>8, <1>9

Answering == dgram.fsm = "tx" \/ In("tx", queue)

LEMMA SingleEvent ==
  \A a, e : /\ Head(<<a>>) = a /\ Append(Tail(<<a>>), e) = <<e>> /\ Tail(<<a>>) = <<>> /\ <<a>> # <<>>
            /\ In(e, <<a>>) <=> e = a
            /\ ~In(e, <<>>)
<1>1. \A a, e : /\ Head(<<a>>) = a /\ Append(Tail(<<a>>), e) = <<e>> /\ Tail(<<a>>) = <<>> /\ <<a>> # <<>>
  OBVIOUS
<1>2. \A a : DOMAIN <<a>> = {1} /\ <<a>>[1] = a
  OBVIOUS
<1>3. \A a, e : In(e, <<a>>) <=> e = a
  BY <1>2 DEF In
<1>4. \A e : ~In(e, <<>>)
  BY DEF In
<1> QED BY <1>1, <1>3, <1>4

LEMMA AnswerInit == DatagramInit => AnswerInv
BY DEF DatagramInit, AnswerInv, In

\* Nothing of the answer is on its way, before and after a step that does not complete one.
LEMMA AnswerIdle ==
  ASSUME AnswerInv, ~Answering, ~Answering', residue' = residue, answer' = answer,
         dgram'.status = "tx complete" => dgram.status = "tx complete"
  PROVE  AnswerInv'
BY DEF AnswerInv, Answering

\* The event taken is the only one, and the state the one it was raised for.
LEMMA CleanHead ==
  ASSUME Clean
  PROVE  /\ queue = <<Head(queue)>> /\ Head(queue) \in {"tx", "repeat"}
         /\ dgram.fsm \in {"idle", "tx", "done"} /\ (Head(queue) = "repeat" => dgram.fsm = "tx")
         /\ dgram.fsm = "done" => answer = Answer /\ dgram.field = "data"
         /\ dgram.fsm = "tx" /\ Head(queue) = "tx" /\ dgram.field = "data" => answer = Answer
BY SingleEvent DEF Clean

LEMMA TxKeepsAnswer ==
  ASSUME AnswerInv, BytesInv, WatchInv, SentInv, ~residue, queue # <<>>, TxEvent(Head(queue))
  PROVE  AnswerInv'
<1> DEFINE h == Head(queue)
<1>1. /\ LengthsTyped(dgram) /\ dgram.field \in FieldSet /\ DatagramShapes /\ queue \in Seq(Raisable)
      /\ fifo \in ByteSeq /\ OnceOnly(fifo) /\ Formed(dgram)
  BY DEF BytesInv, BytesShapes, WatchInv, LengthsTyped, DatagramShapes
<1>2. h \in {"tx", "repeat"} /\ (h = "tx" \/ dgram.fsm = "tx") /\ UNCHANGED <<dogs, residue>>
  BY DEF TxEvent
<1>3. In(h, queue)
  BY <1>1, EventTaken
<1>4. Clean
  BY <1>2, <1>3 DEF AnswerInv
<1>5. queue = <<h>> /\ \A e : Append(Tail(queue), e) = <<e>>
  <2>1. PICK a : queue = <<a>> /\ a = h
    BY <1>4, CleanHead
  <2>2. \A e : Append(Tail(<<a>>), e) = <<e>>
    BY SingleEvent
  <2> QED BY <2>1, <2>2
<1>6. h = "tx" => dgram.sent = 0
  BY <1>2, <1>3 DEF SentInv
<1>7. "protocol_version" \in FieldSet
  BY DEF FieldSet
<1> HIDE DEF h
<1>8. PICK field \in FieldSet :
        /\ WriteField(field) /\ answer \in ByteSeq /\ Len(fifo) < 8
        /\ answer \o fifo = UpTo(Before(field) + IF field = "data" THEN dgram.sent ELSE 0)
  <2>1. CASE dgram.fsm = "idle" /\ h = "tx" /\ WriteField("protocol_version")
    <3>1. fifo = <<>> /\ answer = <<>> /\ answer \in ByteSeq
      BY <1>4, <2>1 DEF Clean
    <3>2. Len(<<>>) = 0 /\ <<>> \o <<>> = <<>>
      OBVIOUS
    <3>3. UpTo(0) = <<>>
      BY AnswerBytes DEF UpTo
    <3>4. Before("protocol_version") + (IF "protocol_version" = "data" THEN dgram.sent ELSE 0) = 0
      BY DEF Before
    <3> QED BY <1>7, <2>1, <3>1, <3>2, <3>3, <3>4
  <2>2. CASE dgram.fsm = "tx" /\ h = "repeat" /\ WriteField(dgram.field)
    <3>1. <<"tx">> # <<"repeat">>
      BY SingleEvent
    <3>2. /\ dgram.field = "data" /\ Len(fifo) < FrameLen /\ answer \in ByteSeq
          /\ answer \o fifo = UpTo(9 + dgram.sent)
      BY <1>4, <1>5, <2>2, <3>1 DEF Clean
    <3>3. Before("data") = 9
      BY DEF Before
    <3> QED BY <1>1, <2>2, <3>2, <3>3 DEF FrameLen
  <2>3. CASE dgram.fsm = "tx" /\ h = "tx" /\ dgram.field # "data" /\ WriteField(NextField(dgram.field))
    <3>1. <<"tx">> # <<"repeat">>
      BY SingleEvent
    <3>2. /\ Len(fifo) < FrameLen /\ answer \in ByteSeq
          /\ answer \o fifo = UpTo(Before(dgram.field) + FieldLen(dgram.field, 0, AnswerLen))
      BY <1>4, <1>5, <2>3, <3>1 DEF Clean
    <3>3. PICK f \in FieldSet : f = NextField(dgram.field)
      BY <1>1, <2>3, NextTyped
    <3>4. Before(f) = Before(dgram.field) + FieldLen(dgram.field, 0, AnswerLen) /\ Before(f) \in Nat
      BY <1>1, <2>3, <3>3, FieldsAdjoin, AnswerFields
    <3>5. Before(f) + (IF f = "data" THEN dgram.sent ELSE 0) = Before(f)
      BY <1>6, <2>3, <3>4
    <3>6. answer \o fifo = UpTo(Before(f) + IF f = "data" THEN dgram.sent ELSE 0)
      BY <3>2, <3>4, <3>5
    <3> QED BY <2>3, <3>2, <3>3, <3>6 DEF FrameLen
  <2> QED BY <1>4, <2>1, <2>2, <2>3 DEF TxEvent, h
<1>9. \/ /\ queue' = <<"tx">> /\ field # "data"
         /\ Uncut([fifo |-> fifo', out |-> answer'], Before(field) + FieldLen(field, 0, AnswerLen))
      \/ /\ queue' = <<"repeat">> /\ field = "data"
         /\ dgram'.sent \in 1 .. AnswerLen - 1
         /\ Uncut([fifo |-> fifo', out |-> answer'], 9 + dgram'.sent)
      \/ /\ queue' = <<"tx">> /\ field = "data"
         /\ answer' = Answer
  BY <1>1, <1>5, <1>8, WriteUncut
<1>10. dgram'.field = field /\ dgram'.fsm = "tx" /\ dgram'.status = dgram.status
  BY <1>1, <1>8, WriteFieldBytes, WriteFieldMakes DEF SameListener
<1>11. \A p : Uncut([fifo |-> fifo', out |-> answer'], p) =>
          answer' \in ByteSeq /\ Len(fifo') < FrameLen /\ answer' \o fifo' = UpTo(p)
  BY DEF Uncut, FrameLen
<1>12. Answer \in ByteSeq /\ UNCHANGED Answer /\ \A p : UNCHANGED UpTo(p)
  BY AnswerBytes DEF Answer, Bytes, UpTo
<1>13. Clean'
  <2>1. dogs' = {} /\ dgram'.status = "active" /\ answer' \in ByteSeq
    BY <1>2, <1>4, <1>9, <1>10, <1>11, <1>12 DEF Clean
  <2>2. CASE /\ queue' = <<"tx">> /\ field # "data"
             /\ Uncut([fifo |-> fifo', out |-> answer'], Before(field) + FieldLen(field, 0, AnswerLen))
    BY <1>10, <1>11, <2>1, <2>2 DEF Clean, UpTo, Answer
  <2>3. CASE /\ queue' = <<"repeat">> /\ field = "data"
             /\ dgram'.sent \in 1 .. AnswerLen - 1
             /\ Uncut([fifo |-> fifo', out |-> answer'], 9 + dgram'.sent)
    BY <1>10, <1>11, <2>1, <2>3 DEF Clean, UpTo, Answer
  <2>4. CASE queue' = <<"tx">> /\ field = "data" /\ answer' = Answer
    BY <1>10, <2>1, <2>4 DEF Clean, UpTo, Answer
  <2> QED BY <1>9, <2>2, <2>3, <2>4
<1> QED BY <1>10, <1>13 DEF AnswerInv

LEMMA LastEvent ==
  ASSUME NEW q \in Seq(Raisable), q # <<>>, ~(Len(q) > 1), NEW e
  PROVE  Append(Tail(q), e) = <<e>>
<1>1. Len(q) \in Nat \ {0} /\ \A s \in Seq(Raisable) : s # <<>> => Len(s) \in Nat \ {0}
  BY EmptySeq
<1>2. PICK s : s = Tail(q)
  OBVIOUS
<1>3. Len(q) = 1
  <2>1. PICK n \in Nat \ {0} : n = Len(q)
    BY <1>1
  <2>2. ~(n > 1)
    BY <2>1
  <2> QED BY <2>1, <2>2
<1>4. s \in Seq(Raisable) /\ Len(s) = 0
  BY <1>2, <1>3
<1>5. s = <<>>
  BY <1>1, <1>4
<1>6. Append(<<>>, e) = <<e>>
  OBVIOUS
<1> QED BY <1>2, <1>5, <1>6

\* A reception or an answer is over: what was dispatched begins a clean answer, if anything is clean.
LEMMA IdleKeepsAnswer ==
  ASSUME AnswerInv, WatchInv, ~residue', queue # <<>>, IdleEvent(Head(queue))
  PROVE  AnswerInv'
<1> DEFINE h == Head(queue)
           t == Tail(queue)
<1>1. queue \in Seq(Raisable) /\ Formed(dgram) /\ OneDriving(queue)
  BY DEF WatchInv, DatagramShapes, Formed
<1>2. /\ t \in Seq(Raisable) /\ h \in Raisable /\ In(h, queue)
      /\ h \in Driving => NoneDriving(t)
      /\ \A x : In(x, t) => In(x, queue)
  BY <1>1, EventTaken
<1>3. Idle(h) /\ dgram.fsm = "done" /\ h \in {"rx", "tx", "soft error", "hard error"} /\ UNCHANGED <<fifo, dogs>>
  BY <1>2 DEF IdleEvent, Raisable, Driving
<1>4. h \in Driving => ~In("tx", t)
  BY <1>2 DEF NoneDriving, In, Driving
<1>5. ASSUME queue' = t, dgram'.fsm = "idle", ~residue, h \in Driving \/ ~In("tx", queue)
      PROVE  ~Answering'
  BY <1>2, <1>4, <1>5 DEF Answering
<1>6. CASE h = "rx"
  <2>1. CASE /\ dgram' = [dgram EXCEPT !.fsm = "idle", !.listening = FALSE, !.status = "active"]
             /\ queue' = Append(t, "tx") /\ answer' = <<>>
             /\ residue' = (fifo # <<>> \/ dogs # {} \/ Len(queue) > 1)
    <3>1. dgram'.fsm = "idle" /\ dgram'.status = "active"
      BY <1>1, <2>1 DEF Formed
    <3>2. fifo = <<>> /\ dogs = {} /\ ~(Len(queue) > 1)
      BY <2>1
    <3>3. queue' = <<"tx">>
      <4>1. ~(Len(queue) > 1) /\ queue # <<>>
        BY <3>2
      <4>2. Append(t, "tx") = <<"tx">>
        BY <1>1, <4>1, LastEvent
      <4> QED BY <2>1, <4>2
    <3>4. <<>> \in ByteSeq
      BY DEF ByteSeq
    <3>5. Clean'
      BY <1>3, <2>1, <3>1, <3>2, <3>3, <3>4 DEF Clean
    <3>6. In("tx", queue')
      BY <3>3, SingleEvent
    <3> QED BY <3>5, <3>6 DEF AnswerInv
  <2>2. CASE /\ dgram' = [dgram EXCEPT !.fsm = "idle", !.listening = FALSE, !.status = "rx complete"]
             /\ queue' = t /\ UNCHANGED <<answer, residue>>
    <3>1. dgram'.fsm = "idle" /\ dgram'.status = "rx complete"
      BY <1>1, <2>2 DEF Formed
    <3>2. ~Answering'
      BY <1>4, <1>6, <2>2, <3>1 DEF Answering, Driving
    <3> QED BY <3>1, <3>2 DEF AnswerInv, Answering
  <2> QED BY <1>3, <1>6, <2>1, <2>2 DEF Idle, Dispatch, Raised
<1>7. CASE h = "tx"
  <2>1. /\ dgram' = [dgram EXCEPT !.fsm = "idle", !.status = "tx complete", !.listening = TRUE]
        /\ queue' = t /\ UNCHANGED <<answer, residue>>
    BY <1>3, <1>7 DEF Idle
  <2>2. dgram'.fsm = "idle"
    BY <1>1, <2>1 DEF Formed
  <2>3. ~Answering'
    BY <1>4, <1>7, <2>1, <2>2 DEF Answering, Driving
  <2>4. Clean
    BY <1>2, <1>7, <2>1 DEF AnswerInv
  <2>5. answer = Answer
    BY <1>3, <2>4, CleanHead
  <2>6. UNCHANGED Answer
    BY DEF Answer, Bytes
  <2> QED BY <2>1, <2>3, <2>5, <2>6 DEF AnswerInv, Answering
<1>8. CASE h \in Error
  <2>1. /\ \/ h = "hard error" /\ dgram' = [dgram EXCEPT !.fsm = "idle", !.status = "error", !.listening = FALSE]
           \/ h = "soft error" /\ dgram' = [dgram EXCEPT !.fsm = "idle", !.soft = TRUE]
        /\ queue' = t /\ UNCHANGED <<answer, residue>>
    BY <1>3, <1>8 DEF Idle, Error
  <2>2. dgram'.fsm = "idle" /\ (dgram'.status = "error" \/ dgram'.status = dgram.status)
    BY <1>1, <2>1 DEF Formed
  <2>3. ~Clean
    <3>1. ASSUME Clean PROVE FALSE
      <4>1. h \in {"tx", "repeat"}
        BY <3>1, CleanHead
      <4> QED BY <1>8, <4>1 DEF Error
    <3> QED BY <3>1
  <2>4. ~Answering
    BY <2>1, <2>3 DEF AnswerInv, Answering
  <2>5. ~Answering'
    BY <1>2, <2>1, <2>2, <2>4 DEF Answering
  <2> QED BY <2>1, <2>2, <2>4, <2>5, AnswerIdle
<1> QED BY <1>3, <1>6, <1>7, <1>8 DEF Error

LEMMA EventKeepsAnswer ==
  ASSUME AnswerInv, BytesInv, WatchInv, SentInv, ~residue', can_datagram_process_event
  PROVE  AnswerInv'
<1> DEFINE h == Head(queue)
           t == Tail(queue)
<1>1. /\ LengthsTyped(dgram) /\ DatagramShapes /\ queue \in Seq(Raisable) /\ Formed(dgram) /\ OneDriving(queue)
      /\ queue # <<>>
  BY DEF BytesInv, BytesShapes, WatchInv, DatagramShapes, can_datagram_process_event
<1>2. /\ t \in Seq(Raisable) /\ h \in Raisable /\ In(h, queue)
      /\ \A x : In(x, t) => In(x, queue)
  BY <1>1, EventTaken
<1>3. ASSUME NEW e \in Raisable, queue' = Append(t, e), e # "tx"
      PROVE  In("tx", queue') => In("tx", queue)
  <2>1. ASSUME NEW q \in Seq(Raisable), NEW r, r = Append(q, e) PROVE \A x : In(x, r) <=> In(x, q) \/ x = e
    BY <2>1, EventRaised
  <2> QED BY <1>2, <1>3, <2>1
<1>4. Answering /\ ~residue => Clean
  BY DEF AnswerInv, Answering
<1>5. Clean => queue = <<h>> /\ h \in {"tx", "repeat"} /\ dgram.fsm \in {"idle", "tx", "done"}
               /\ (h = "repeat" => dgram.fsm = "tx")
  BY CleanHead
<1>6. CASE RxEvent(h)
  <2>1. \E field : ReadField(field)
    BY <1>6 DEF RxEvent
  <2>2. h \in {"rx", "repeat"} /\ (h = "repeat" => dgram.fsm = "rx") /\ UNCHANGED <<answer, residue>>
    BY <1>6 DEF RxEvent
  <2>3. dgram'.status = dgram.status /\ dgram'.fsm = "rx"
    BY <1>1, <2>1, ReadFieldMakes DEF SameListener
  <2>4. PICK e \in {"rx", "repeat", "soft error", "hard error"} : queue' = Append(t, e)
    BY <1>1, <2>1, ReadFieldMakes
  <2>5. e \in Raisable /\ e # "tx"
    BY DEF Raisable, Driving
  <2>6. ~Answering
    BY <1>4, <1>5, <2>2
  <2>7. ~Answering'
    BY <1>3, <2>3, <2>4, <2>5, <2>6 DEF Answering
  <2> QED BY <2>2, <2>3, <2>6, <2>7, AnswerIdle
<1>7. CASE TxEvent(h)
  BY <1>1, <1>7, TxKeepsAnswer DEF TxEvent
<1>8. CASE EndEvent(h)
  <2>1. /\ queue' = Append(t, h) /\ dgram' = [dgram EXCEPT !.fsm = "done", !.dog = NoDog]
        /\ dogs' = dogs \ {dgram.dog} /\ UNCHANGED <<answer, residue>>
    BY <1>8 DEF EndEvent, Finish, Raised
  <2>2. dgram'.status = dgram.status /\ dgram'.fsm = "done" /\ dgram'.field = dgram.field
    BY <1>1, <2>1 DEF Formed
  <2>3. CASE Answering
    <3>1. Clean
      BY <1>4, <2>1, <2>3
    <3>2. dgram.fsm = "tx" /\ h = "tx" /\ dgram.field = "data"
      BY <1>5, <1>8, <3>1 DEF EndEvent, Error
    <3>3. answer = Answer
      BY <3>1, <3>2, CleanHead
    <3>4. queue' = <<"tx">>
      <4>1. PICK a : queue = <<a>> /\ a = h
        BY <1>5, <3>1
      <4>2. Append(Tail(<<a>>), a) = <<a>>
        BY SingleEvent
      <4> QED BY <2>1, <3>2, <4>1, <4>2
    <3>5. UNCHANGED Answer
      BY DEF Answer, Bytes
    <3>6. Clean'
      BY <2>1, <2>2, <3>1, <3>2, <3>3, <3>4, <3>5 DEF Clean
    <3>7. In("tx", queue')
      BY <3>4, SingleEvent
    <3> QED BY <3>6, <3>7 DEF AnswerInv
  <2>4. CASE ~Answering
    <3>1. h # "tx"
      BY <1>2, <2>4 DEF Answering
    <3>2. ~Answering'
      BY <1>2, <1>3, <2>1, <2>2, <2>4, <3>1 DEF Answering
    <3> QED BY <2>1, <2>2, <2>4, <3>2, AnswerIdle
  <2> QED BY <2>3, <2>4
<1>9. CASE IdleEvent(h)
  BY <1>1, <1>9, IdleKeepsAnswer
<1>10. CASE NoTransition(h)
  <2>1. queue' = t /\ UNCHANGED <<dgram, answer, residue>>
    BY <1>10 DEF NoTransition
  <2>2. ~Answering
    <3>1. ASSUME Clean PROVE FALSE
      BY <1>1, <1>5, <1>10, <3>1 DEF NoTransition, Formed
    <3> QED BY <1>4, <2>1, <3>1
  <2>3. ~Answering'
    BY <1>2, <2>1, <2>2 DEF Answering
  <2> QED BY <2>1, <2>2, <2>3, AnswerIdle
<1> QED BY <1>6, <1>7, <1>8, <1>9, <1>10 DEF can_datagram_process_event

LEMMA AnswerNext ==
  AnswerInv /\ SentInv /\ BytesInv /\ WatchInv /\ [DatagramNext]_datagramVars => AnswerInv'
<1> SUFFICES ASSUME AnswerInv, SentInv, BytesInv, WatchInv, [DatagramNext]_datagramVars PROVE AnswerInv'
  OBVIOUS
<1>1. CASE residue'
  BY <1>1 DEF AnswerInv
<1>2. CASE ~residue' /\ can_datagram_process_event
  BY <1>2, EventKeepsAnswer
<1>3. queue \in Seq(Raisable) /\ LengthsTyped(dgram) /\ Formed(dgram)
  BY DEF BytesInv, BytesShapes, WatchInv, DatagramShapes, Formed
<1>4. UNCHANGED Answer
  BY DEF Answer, Bytes
<1>5. CASE UNCHANGED <<dgram, fifo, queue, dogs, answer, residue>>
  BY <1>4, <1>5 DEF AnswerInv, Clean, UpTo
<1>6. ASSUME ~residue', ReceiveStart, ~UNCHANGED dgram PROVE AnswerInv'
  <2>1. queue' = Append(queue, "rx") /\ "rx" \in Raisable /\ StartAccepted /\ UNCHANGED <<answer, residue>>
    BY <1>6 DEF ReceiveStart, Raisable, Driving
  <2>2. In("tx", queue') <=> In("tx", queue) \/ "tx" = "rx"
    BY <1>3, <2>1, EventRaised
  <2>3. dgram.listening = TRUE
    BY <1>3, <2>1 DEF StartAccepted, Formed
  <2>4. ~Answering
    BY <2>3 DEF SentInv, Answering
  <2>5. dgram'.fsm = dgram.fsm
    BY <1>3, <1>6, LengthsKept
  <2>6. ~Answering'
    BY <2>2, <2>4, <2>5 DEF Answering
  <2>7. dgram'.status = "active"
    <3>1. PICK b : b = [dgram EXCEPT !.status = "active", !.soft = FALSE]
      OBVIOUS
    <3>2. PICK d : d = [b EXCEPT !.dog = NoDog]
      OBVIOUS
    <3>3. dgram' = Kicked(d, dogs).dgram
      BY <1>6, <2>1, <3>1, <3>2 DEF ReceiveStart, WatchdogStart
    <3>4. Formed(b) /\ b.status = "active"
      BY <1>3, <3>1 DEF Formed
    <3>5. Formed(d) /\ d.status = "active"
      BY <3>2, <3>4 DEF Formed
    <3> QED BY <3>3, <3>5, KickedMakes DEF SameListener
  <2> QED BY <2>1, <2>4, <2>6, <2>7, AnswerIdle
<1>7. ASSUME ~residue', ReceiveData, ~UNCHANGED <<dgram, dogs, fifo>> PROVE AnswerInv'
  <2>1. /\ UNCHANGED <<queue, answer, residue>> /\ dgram.listening = TRUE
        /\ dgram' = Kicked(dgram, dogs).dgram
    BY <1>3, <1>7 DEF ReceiveData, Formed
  <2>2. dgram'.fsm = dgram.fsm /\ dgram'.status = dgram.status
    BY <1>3, <2>1, KickedMakes DEF SameListener
  <2>3. ~Answering
    BY <2>1 DEF SentInv, Answering
  <2>4. ~Answering'
    BY <2>1, <2>2, <2>3 DEF Answering
  <2> QED BY <2>1, <2>2, <2>3, <2>4, AnswerIdle
<1>8. ASSUME ~residue', NEW i, WatchdogExpires(i) PROVE AnswerInv'
  <2>1. /\ i \in dogs /\ queue' = Append(queue, "hard error") /\ UNCHANGED <<dgram, answer, residue>>
        /\ "hard error" \in Raisable
    BY <1>8 DEF WatchdogExpires, Raisable
  <2>2. In("tx", queue') <=> In("tx", queue) \/ "tx" = "hard error"
    BY <1>3, <2>1, EventRaised
  <2>3. ~Clean
    BY <2>1 DEF Clean
  <2>4. ~Answering
    BY <1>8, <2>1, <2>3 DEF AnswerInv, Answering
  <2>5. ~Answering'
    BY <2>1, <2>2, <2>4 DEF Answering
  <2> QED BY <2>1, <2>4, <2>5, AnswerIdle
<1>9. UNCHANGED datagramVars \/ ClientSends \/ FrameLost => UNCHANGED <<dgram, fifo, queue, dogs, answer, residue>>
  BY DEF datagramVars, ClientSends, FrameLost
<1>10. ReceiveStart /\ UNCHANGED dgram => UNCHANGED <<dgram, fifo, queue, dogs, answer, residue>> \/ AnswerInv'
  <2>1. ASSUME ReceiveStart, StartAccepted, UNCHANGED dgram PROVE AnswerInv'
    <3>1. queue' = Append(queue, "rx") /\ "rx" \in Raisable /\ UNCHANGED <<answer, residue>>
      BY <2>1 DEF ReceiveStart, Raisable, Driving
    <3>2. In("tx", queue') <=> In("tx", queue) \/ "tx" = "rx"
      BY <1>3, <3>1, EventRaised
    <3>3. dgram.listening = TRUE
      BY <1>3, <2>1 DEF StartAccepted, Formed
    <3>4. ~Answering
      BY <3>3 DEF SentInv, Answering
    <3>5. ~Answering'
      BY <2>1, <3>2, <3>4 DEF Answering
    <3> QED BY <2>1, <3>1, <3>4, <3>5, AnswerIdle
  <2>2. ReceiveStart /\ ~StartAccepted => UNCHANGED <<dgram, fifo, queue, dogs, answer, residue>>
    BY DEF ReceiveStart
  <2> QED BY <2>1, <2>2
<1>11. ReceiveData /\ UNCHANGED <<dgram, dogs, fifo>> => UNCHANGED <<dgram, fifo, queue, dogs, answer, residue>>
  BY DEF ReceiveData
<1> QED BY <1>1, <1>2, <1>5, <1>6, <1>7, <1>8, <1>9, <1>10, <1>11 DEF DatagramNext

\* An answer that began with nothing left of a reception (no byte in the fifo, no watchdog, no event)
\* is transmitted whole before it is reported, and holds nothing else (AnswerWhole), for every
\* length of the answer and every sequence of commands: a command that comes meanwhile is not
\* listened to, so that neither the fifo nor the queue gets anything but the answer's.
THEOREM AnswerAlwaysWhole == DatagramSpec => []AnswerWhole
<1>1. DatagramInit => WatchInv /\ BytesInv /\ SentInv /\ AnswerInv
  BY WatchInit, BytesInitInv, SentInit, AnswerInit
<1>2. WatchInv /\ BytesInv /\ SentInv /\ AnswerInv /\ [DatagramNext]_datagramVars
        => (WatchInv /\ BytesInv /\ SentInv /\ AnswerInv)'
  BY WatchNext, BytesNext, SentNext, AnswerNext
<1>3. AnswerInv => AnswerWhole
  BY DEF AnswerInv, AnswerWhole, Clean
<1> QED BY <1>1, <1>2, <1>3, PTL DEF DatagramSpec

LEMMA MixedIn ==
  ASSUME NEW q \in Seq(Raisable)
  PROVE  Mixed(q) <=> In("rx", q) /\ \E e \in Error : In(e, q)
BY DEF Mixed, In, Range, Error

\* A start is accepted in the idle state only, unless an error is about to end something.
LEMMA StartWhenIdle ==
  ASSUME FlowInv, WatchInv, SentInv, ReceiveStart, StartAccepted, ~Mixed(queue')
  PROVE  /\ dgram.fsm = "idle" /\ dgram'.fsm = "idle"
         /\ NoneDriving(queue)
<1>1. queue \in Seq(Raisable) /\ Formed(dgram)
  BY DEF WatchInv, DatagramShapes, Formed
<1>2. queue' = Append(queue, "rx") /\ "rx" \in Raisable
  BY DEF ReceiveStart, Raisable, Driving
<1>3. ASSUME NEW q \in Seq(Raisable), NEW r, r = Append(q, "rx")
      PROVE  r \in Seq(Raisable) /\ \A x : In(x, r) <=> In(x, q) \/ x = "rx"
  BY <1>2, <1>3, EventRaised
<1>4. queue' \in Seq(Raisable) /\ \A x : In(x, queue') <=> In(x, queue) \/ x = "rx"
  BY <1>1, <1>2, <1>3
<1>5. NoneDriving(queue) /\ dgram.listening = TRUE
  BY <1>1 DEF WatchInv, StartAccepted, Formed
<1>6. \A x \in {"rx", "tx", "repeat", "soft error"} : ~In(x, queue)
  BY <1>5 DEF NoneDriving, In, Driving
<1>7. ~In("hard error", queue)
  BY <1>4, MixedIn DEF Error
<1>8. dgram.fsm = "idle"
  BY <1>1, <1>5, <1>6, <1>7 DEF FlowInv, Error, Formed
<1>9. dgram'.fsm = dgram.fsm
  <2>1. PICK b : b = [dgram EXCEPT !.status = "active", !.soft = FALSE]
    OBVIOUS
  <2>2. PICK d : d = [b EXCEPT !.dog = NoDog]
    OBVIOUS
  <2>3. dgram' = Kicked(d, dogs).dgram
    BY <2>1, <2>2 DEF ReceiveStart, WatchdogStart
  <2>4. Formed(b) /\ b.fsm = dgram.fsm
    BY <1>1, <2>1 DEF Formed
  <2>5. Formed(d) /\ d.fsm = b.fsm
    BY <2>2, <2>4 DEF Formed
  <2> QED BY <2>3, <2>4, <2>5, KickedMakes
<1> QED BY <1>5, <1>8, <1>9

\* What an event does to those that wait.
LEMMA EventCases ==
  ASSUME WatchInv, can_datagram_process_event
  PROVE  /\ queue \in Seq(Raisable) /\ Formed(dgram) /\ OneDriving(queue) /\ queue # <<>> /\ DatagramShapes
         /\ Tail(queue) \in Seq(Raisable) /\ Head(queue) \in Raisable /\ In(Head(queue), queue)
         /\ \A x : In(x, Tail(queue)) => In(x, queue)
         /\ \A x : In(x, queue) => x = Head(queue) \/ In(x, Tail(queue))
         /\ Head(queue) \in Driving => NoneDriving(Tail(queue))
         /\ \A e \in Raisable : queue' = Append(Tail(queue), e) =>
              /\ queue' \in Seq(Raisable)
              /\ \A x : In(x, queue') <=> In(x, Tail(queue)) \/ x = e
<1>1. queue \in Seq(Raisable) /\ Formed(dgram) /\ OneDriving(queue) /\ queue # <<>> /\ DatagramShapes
  BY DEF WatchInv, DatagramShapes, Formed, can_datagram_process_event
<1>2. PICK t : t = Tail(queue)
  OBVIOUS
<1>3. /\ t \in Seq(Raisable) /\ Head(queue) \in Raisable /\ In(Head(queue), queue)
      /\ \A x : In(x, t) => In(x, queue)
      /\ \A x : In(x, queue) => x = Head(queue) \/ In(x, t)
      /\ Head(queue) \in Driving => NoneDriving(t)
  BY <1>1, <1>2, EventTaken
<1>4. ASSUME NEW q \in Seq(Raisable), NEW e \in Raisable, NEW r, r = Append(q, e)
      PROVE  r \in Seq(Raisable) /\ \A x : In(x, r) <=> In(x, q) \/ x = e
  BY <1>4, EventRaised
<1> QED BY <1>1, <1>2, <1>3, <1>4

LEMMA IdleMakesIdle ==
  ASSUME Formed(dgram), NEW e \in {"rx", "tx", "soft error", "hard error"}, Idle(e)
  PROVE  dgram'.fsm = "idle"
<1>1. \/ dgram' = [dgram EXCEPT !.fsm = "idle", !.listening = FALSE, !.status = "active"]
      \/ dgram' = [dgram EXCEPT !.fsm = "idle", !.listening = FALSE, !.status = "rx complete"]
      \/ e # "rx"
  BY DEF Idle, Dispatch
<1>2. e = "tx" => dgram' = [dgram EXCEPT !.fsm = "idle", !.status = "tx complete", !.listening = TRUE]
  BY DEF Idle
<1>3. e = "hard error" => dgram' = [dgram EXCEPT !.fsm = "idle", !.status = "error", !.listening = FALSE]
  BY DEF Idle
<1>4. e = "soft error" => dgram' = [dgram EXCEPT !.fsm = "idle", !.soft = TRUE]
  BY DEF Idle
<1> QED BY <1>1, <1>2, <1>3, <1>4 DEF Formed

LEMMA EventKeepsFlow ==
  ASSUME FlowInv, WatchInv, BytesInv, can_datagram_process_event, ~Mixed(queue')
  PROVE  FlowInv'
<1> DEFINE h == Head(queue)
           t == Tail(queue)
<1>1. /\ queue \in Seq(Raisable) /\ Formed(dgram) /\ OneDriving(queue) /\ queue # <<>> /\ DatagramShapes
      /\ t \in Seq(Raisable) /\ h \in Raisable /\ In(h, queue)
      /\ \A x : In(x, t) => In(x, queue)
      /\ \A x : In(x, queue) => x = h \/ In(x, t)
      /\ h \in Driving => NoneDriving(t)
      /\ \A e \in Raisable : queue' = Append(t, e) =>
              /\ queue' \in Seq(Raisable)
              /\ \A x : In(x, queue') <=> In(x, t) \/ x = e
  BY EventCases
<1>2. h \in Driving => \A x \in {"rx", "tx", "repeat", "soft error"} : ~In(x, t)
  BY <1>1 DEF NoneDriving, In, Driving
<1>3. ~Mixed(queue)'
  OBVIOUS
<1> HIDE DEF h, t
<1>4. CASE RxEvent(h)
  <2>1. (\E field : ReadField(field)) /\ h \in Driving
    BY <1>4 DEF RxEvent, Driving
  <2>2. dgram'.fsm = "rx"
    BY <1>1, <2>1, ReadFieldMakes
  <2>3. PICK e \in {"rx", "repeat", "soft error", "hard error"} : queue' = Append(t, e)
    BY <1>1, <2>1, ReadFieldMakes DEF t
  <2>4. e \in Raisable
    BY DEF Raisable, Driving
  <2>5. In(e, queue') /\ ~In("tx", queue')
    BY <1>1, <1>2, <2>1, <2>3, <2>4
  <2>6. \E x \in {"rx", "repeat"} \cup Error : In(x, queue')
    BY <2>5 DEF Error
  <2> QED BY <1>3, <2>2, <2>5, <2>6 DEF FlowInv
<1>5. CASE TxEvent(h)
  <2>1. (\E field : WriteField(field)) /\ h \in Driving
    BY <1>5 DEF TxEvent, Driving
  <2>2. dgram'.fsm = "tx"
    BY <1>1, <2>1, WriteFieldMakes
  <2>3. PICK e \in {"tx", "repeat"} : queue' = Append(t, e)
    BY <1>1, <2>1, WriteFieldMakes DEF t
  <2>4. e \in Raisable
    BY DEF Raisable, Driving
  <2>5. In(e, queue') /\ ~In("rx", queue')
    BY <1>1, <1>2, <2>1, <2>3, <2>4
  <2>6. \E x \in {"tx", "repeat"} \cup Error : In(x, queue')
    BY <2>5
  <2> QED BY <1>3, <2>2, <2>5, <2>6 DEF FlowInv
<1>6. CASE EndEvent(h)
  <2>1. queue' = Append(t, h) /\ dgram' = [dgram EXCEPT !.fsm = "done", !.dog = NoDog]
    BY <1>6 DEF EndEvent, Finish, Raised, t
  <2>2. dgram'.fsm = "done"
    BY <1>1, <2>1 DEF Formed
  <2>3. In(h, queue')
    BY <1>1, <2>1
  <2>4. h \in {"rx", "tx"} \cup Error
    BY <1>6 DEF EndEvent
  <2> QED BY <1>3, <2>2, <2>3, <2>4 DEF FlowInv
<1>7. CASE IdleEvent(h)
  <2>1. Idle(h) /\ h \in {"rx", "tx", "soft error", "hard error"}
    BY <1>1, <1>7 DEF IdleEvent, Raisable, Driving
  <2>2. dgram'.fsm = "idle"
    BY <1>1, <2>1, IdleMakesIdle
  <2> QED BY <1>3, <2>2 DEF FlowInv
<1>8. CASE NoTransition(h)
  <2>1. queue' = t /\ UNCHANGED dgram
    BY <1>8 DEF NoTransition, t
  <2>2. dgram.fsm \in {"idle", "done"} /\ h = "repeat"
    BY <1>1, <1>8 DEF NoTransition, FlowInv, Formed
  <2>3. \A x \in {"rx", "tx"} \cup Error : In(x, queue) => In(x, queue')
    BY <1>1, <2>1, <2>2 DEF Error
  <2> QED BY <1>3, <2>1, <2>2, <2>3 DEF FlowInv
<1> QED BY <1>4, <1>5, <1>6, <1>7, <1>8 DEF can_datagram_process_event, h

LEMMA FlowNext ==
  ASSUME FlowInv, WatchInv, BytesInv, SentInv, [DatagramNext]_datagramVars, ~Mixed(queue')
  PROVE  FlowInv'
<1>1. queue \in Seq(Raisable) /\ LengthsTyped(dgram) /\ Formed(dgram)
  BY DEF BytesInv, BytesShapes, WatchInv, DatagramShapes, Formed
<1>2. CASE dgram'.fsm = dgram.fsm /\ UNCHANGED queue
  BY <1>2 DEF FlowInv
<1>3. CASE ReceiveStart
  <2>1. CASE StartAccepted
    <3>1. dgram'.fsm = "idle"
      BY <1>3, <2>1, StartWhenIdle
    <3> QED BY <3>1 DEF FlowInv
  <2>2. CASE ~StartAccepted
    BY <1>2, <1>3, <2>2 DEF ReceiveStart
  <2> QED BY <2>1, <2>2
<1>4. ReceiveData => dgram'.fsm = dgram.fsm /\ UNCHANGED queue
  BY <1>1, LengthsKept DEF ReceiveData
<1>5. ASSUME NEW i, WatchdogExpires(i) PROVE FlowInv'
  <2>1. queue' = Append(queue, "hard error") /\ UNCHANGED dgram /\ "hard error" \in Raisable
    BY <1>5 DEF WatchdogExpires, Raisable
  <2>2. \A x : In(x, queue') <=> In(x, queue) \/ x = "hard error"
    BY <1>1, <2>1, EventRaised
  <2> QED BY <2>1, <2>2 DEF FlowInv
<1>6. UNCHANGED datagramVars \/ ClientSends \/ FrameLost => UNCHANGED <<dgram, queue>>
  BY DEF datagramVars, ClientSends, FrameLost
<1> QED BY <1>2, <1>3, <1>4, <1>5, <1>6, EventKeepsFlow DEF DatagramNext

\* A field that was read drives the reception on if it is for the board and, the last, if the CRC agrees.
Accepted(field, n, bytes, e) ==
  /\ e = "rx" /\ field = "dst" => n # 0 /\ (n = 1 /\ bytes[1][2] = 8 => Addressed(bytes[1][1]))
  /\ e = "rx" /\ field = "data" => Checked(got \o bytes)

LEMMA ReadFieldRaises ==
  ASSUME DatagramShapes, LengthsTyped(dgram), NEW field \in FieldSet, ReadField(field), fifo \in ByteSeq
  PROVE  LET n == FieldLen(field, dgram.nodes, dgram.size)
             bytes == SubSeq(fifo, 1, n)
         IN \/ /\ UNCHANGED <<fifo, got>>
               /\ queue' = Append(Tail(queue), "repeat")
            \/ /\ n \in 0 .. Len(fifo)
               /\ fifo' = SubSeq(fifo, n + 1, Len(fifo))
               /\ got' = IF field = "protocol_version" THEN bytes ELSE got \o bytes
               /\ \E e \in {"rx", "soft error", "hard error"} :
                     queue' = Append(Tail(queue), e) /\ Accepted(field, n, bytes, e)
<1> DEFINE n == FieldLen(field, dgram.nodes, dgram.size)
           bytes == SubSeq(fifo, 1, n)
<1>1. n \in Nat /\ Len(fifo) \in Nat
  BY DEF LengthsTyped, FieldSet, FieldLen, ByteSeq, Misread
<1>2. CASE Len(fifo) < n
  BY <1>2 DEF ReadField, Raised
<1>3. CASE ~(Len(fifo) < n)
  <2>1. /\ fifo' = SubSeq(fifo, n + 1, Len(fifo))
        /\ got' = IF field = "protocol_version" THEN bytes ELSE got \o bytes
    BY <1>3 DEF ReadField
  <2>2. n \in 0 .. Len(fifo)
    <3> HIDE DEF n
    <3> QED BY <1>1, <1>3
  <2>3. CASE field = "dst"
    <3>1. PICK mine \in IF n = 0 THEN {FALSE}
                        ELSE IF n = 1 /\ bytes[1][2] = Position[field]
                        THEN {Addressed(bytes[1][1])} ELSE BOOLEAN :
             queue' = Append(Tail(queue), IF mine THEN "rx" ELSE "soft error")
      <4> HIDE DEF n, bytes
      <4> QED BY <1>3, <2>3 DEF ReadField, Raised, n, bytes
    <3>2. Position["dst"] = 8
      BY DEF Position
    <3> HIDE DEF n, bytes
    <3>3. CASE mine
      <4>1. n # 0 /\ (n = 1 /\ bytes[1][2] = 8 => Addressed(bytes[1][1]))
        BY <2>3, <3>1, <3>2, <3>3
      <4>2. Accepted(field, n, bytes, "rx")
        BY <2>3, <4>1 DEF Accepted
      <4> QED BY <2>1, <2>2, <3>1, <3>3, <4>2 DEF n, bytes
    <3>4. CASE ~mine
      <4>1. Accepted(field, n, bytes, "soft error")
        BY DEF Accepted
      <4> QED BY <2>1, <2>2, <3>1, <3>4, <4>1 DEF n, bytes
    <3> QED BY <3>3, <3>4
  <2>4. CASE field = "data"
    <3>1. queue' = Append(Tail(queue), IF Checked(got \o bytes) THEN "rx" ELSE "hard error")
      BY <1>3, <2>4 DEF ReadField, Raised
    <3> HIDE DEF n, bytes
    <3>2. CASE Checked(got \o bytes)
      <4>1. Accepted(field, n, bytes, "rx")
        BY <2>4, <3>2 DEF Accepted
      <4> QED BY <2>1, <2>2, <3>1, <3>2, <4>1 DEF n, bytes
    <3>3. CASE ~Checked(got \o bytes)
      <4>1. Accepted(field, n, bytes, "hard error")
        BY DEF Accepted
      <4> QED BY <2>1, <2>2, <3>1, <3>3, <4>1 DEF n, bytes
    <3> QED BY <3>2, <3>3
  <2>5. CASE field \notin {"dst", "data"}
    <3>1. PICK e \in {"rx", "soft error", "hard error"} : queue' = Append(Tail(queue), e)
      BY <1>3 DEF ReadField, Raised
    <3>2. Accepted(field, n, bytes, e)
      BY <2>5 DEF Accepted
    <3> HIDE DEF n, bytes
    <3> QED BY <2>1, <2>2, <3>1, <3>2 DEF n, bytes
  <2> QED BY <2>3, <2>4, <2>5
<1> QED BY <1>2, <1>3

\* The end of a field is the beginning of the next.
LEMMA ReadFieldsAdjoin ==
  ASSUME NEW nodes \in Nat, NEW size \in Nat
  PROVE  \A field \in FieldSet :
               /\ Begin(field, nodes) \in Nat /\ FieldLen(field, nodes, size) \in Nat
               /\ End(field, nodes, size) = Begin(field, nodes) + FieldLen(field, nodes, size)
               /\ field # "protocol_version" => Begin(field, nodes) >= 1
BY DEF FieldSet, Begin, End, FieldLen

LEMMA NextBegins ==
  ASSUME NEW nodes \in Nat, NEW size \in Nat, NEW field \in FieldSet \ {"data"}
  PROVE  Begin(NextField(field), nodes) = End(field, nodes, size)
BY NextFields DEF FieldSet, Begin, End, FieldLen

\* The reception has come to a field.
Reached(field) ==
  field # "protocol_version" =>
    /\ Begun /\ Len(got) = Begin(field, dgram.nodes)
    /\ field \in {"data_len", "data"} => ForBoard

LEMMA RxReached ==
  ASSUME ReadInv, BytesInv, queue # <<>>, In(Head(queue), queue), RxEvent(Head(queue))
  PROVE  \E field \in FieldSet : ReadField(field) /\ Reached(field)
<1> DEFINE h == Head(queue)
<1>1. dgram.field \in FieldSet /\ dgram.nodes \in Nat /\ dgram.size \in Nat
  BY DEF BytesInv, BytesShapes, LengthsTyped, Misread
<1> HIDE DEF h
<1>2. CASE dgram.fsm = "idle" /\ h = "rx" /\ ReadField("protocol_version")
  BY <1>2 DEF Reached, FieldSet
<1>3. CASE dgram.fsm = "rx" /\ h = "repeat" /\ ReadField(dgram.field)
  <2>1. Reached(dgram.field)
    BY <1>3 DEF Reached, ReadInv, Begun, h
  <2> QED BY <1>1, <1>3, <2>1
<1>4. CASE dgram.fsm = "rx" /\ h = "rx" /\ dgram.field # "data" /\ ReadField(NextField(dgram.field))
  <2>1. Len(got) = End(dgram.field, dgram.nodes, dgram.size)
        /\ (dgram.field \in {"dst", "data_len", "data"} => ForBoard)
    BY <1>4 DEF ReadInv, h
  <2>2. PICK f \in FieldSet : f = NextField(dgram.field)
    BY <1>1, <1>4, NextTyped
  <2>3. Begin(f, dgram.nodes) = End(dgram.field, dgram.nodes, dgram.size)
    BY <1>1, <1>4, <2>2, NextBegins
  <2>4. f \in {"data_len", "data"} => dgram.field \in {"dst", "data_len"}
    BY <1>1, <1>4, <2>2, NextFields DEF FieldSet
  <2>5. Begun
    BY <1>4 DEF Begun, h
  <2>6. Reached(f)
    BY <2>1, <2>3, <2>4, <2>5 DEF Reached
  <2> QED BY <1>4, <2>2, <2>6
<1> QED BY <1>2, <1>3, <1>4 DEF RxEvent, h

LEMMA EndKept ==
  ASSUME NEW field \in FieldSet, NEW m \in Nat, NEW s \in Nat, NEW n \in Nat, NEW z \in Nat,
         n # m => field = "dst_len", z # s => field = "data_len"
  PROVE  End(field, n, z) = End(field, m, s) /\ Begin(field, n) = Begin(field, m)
BY DEF FieldSet, End, Begin, FieldLen

Join(a, f, n, c) ==
  /\ Len(SubSeq(f, 1, n)) = n
  /\ \A i \in 1 .. Len(a) : c[i] = a[i]
  /\ n >= 1 => c[Len(a) + 1] = SubSeq(f, 1, n)[1]

LEMMA Joined ==
  ASSUME NEW a \in ByteSeq, NEW f \in ByteSeq, NEW n \in 0 .. Len(f)
  PROVE  Join(a, f, n, a \o SubSeq(f, 1, n))
<1>1. PICK b : b = SubSeq(f, 1, n)
  OBVIOUS
<1>2. b \in ByteSeq /\ Len(b) = n /\ Len(a) \in Nat /\ n \in Nat
  BY <1>1 DEF ByteSeq
<1>3. PICK c : c = a \o b
  OBVIOUS
<1>4. PICK m : m = Len(a)
  OBVIOUS
<1>5. \A i \in 1 .. m + n : c[i] = IF i <= m THEN a[i] ELSE b[i - m]
  <2>1. PICK S : S = Nat \X Nat
    OBVIOUS
  <2>2. a \in Seq(S) /\ b \in Seq(S)
    BY <1>2, <2>1 DEF ByteSeq
  <2>3. \A i \in 1 .. Len(a) + Len(b) : (a \o b)[i] = IF i <= Len(a) THEN a[i] ELSE b[i - Len(a)]
    BY <2>2, ConcatProperties
  <2> QED BY <1>2, <1>3, <1>4, <2>3
<1>6. m \in Nat /\ n \in Nat
  BY <1>2, <1>4
<1>7. \A i \in 1 .. m : c[i] = a[i]
  BY <1>5, <1>6
<1>8. n >= 1 => c[m + 1] = b[1]
  <2>1. ASSUME n >= 1 PROVE m + 1 \in 1 .. m + n /\ ~(m + 1 <= m) /\ (m + 1) - m = 1
    BY <1>6, <2>1
  <2> QED BY <1>5, <2>1
<1> QED BY <1>1, <1>2, <1>3, <1>4, <1>7, <1>8 DEF Join

\* What a reading step leaves: the bytes of the fields read are there and are for the board.
ReadOn(field) ==
  /\ dgram'.fsm = "rx" /\ dgram'.field = field
  /\ In("rx", queue') =>
       /\ Len(got') = End(field, dgram'.nodes, dgram'.size)
       /\ field \in {"dst", "data_len", "data"} => ForBoard'
  /\ In("repeat", queue') /\ field # "protocol_version" =>
       /\ Len(got') = Begin(field, dgram'.nodes)
       /\ field \in {"data_len", "data"} => ForBoard'

ReadOutcome(field, n, e) ==
  /\ n = FieldLen(field, dgram.nodes, dgram.size)
  /\ e \in {"rx", "repeat", "soft error", "hard error"}
  /\ In("rx", queue') => e = "rx"
  /\ In("repeat", queue') => e = "repeat"
  /\ \/ UNCHANGED <<fifo, got>> /\ e = "repeat"
     \/ /\ e # "repeat" /\ n \in 0 .. Len(fifo)
        /\ got' = IF field = "protocol_version" THEN SubSeq(fifo, 1, n) ELSE got \o SubSeq(fifo, 1, n)
        /\ Accepted(field, n, SubSeq(fifo, 1, n), e)

LEMMA ReadMakesRead ==
  ASSUME BytesInv, WatchInv, NEW field \in FieldSet, ReadField(field), Reached(field),
         NEW e, NEW n, ReadOutcome(field, n, e)
  PROVE  ReadOn(field)
<1>0. DatagramShapes /\ LengthsTyped(dgram) /\ fifo \in ByteSeq /\ got \in ByteSeq
  BY DEF BytesInv, BytesShapes, WatchInv
<1>1. /\ DatagramShapes /\ LengthsTyped(dgram) /\ fifo \in ByteSeq /\ got \in ByteSeq
      /\ dgram.nodes \in Nat /\ dgram.size \in Nat
  BY <1>0 DEF LengthsTyped, Misread
<1>2. /\ LengthsTyped(dgram') /\ dgram'.field = field /\ dgram'.fsm = "rx"
      /\ dgram'.nodes # dgram.nodes => field = "dst_len"
      /\ dgram'.size # dgram.size => field = "data_len"
  BY <1>1, ReadFieldBytes, ReadFieldMakes
<1>3. dgram'.nodes \in Nat /\ dgram'.size \in Nat
  BY <1>2 DEF LengthsTyped, Misread
<1>4. /\ End(field, dgram'.nodes, dgram'.size) = End(field, dgram.nodes, dgram.size)
      /\ Begin(field, dgram'.nodes) = Begin(field, dgram.nodes)
  BY <1>1, <1>2, <1>3, EndKept
<1>5. /\ Begin(field, dgram.nodes) \in Nat /\ n \in Nat
      /\ End(field, dgram.nodes, dgram.size) = Begin(field, dgram.nodes) + n
  BY <1>1, ReadFieldsAdjoin DEF ReadOutcome
<1>6. CASE UNCHANGED <<fifo, got>> /\ e = "repeat"
  <2>1. ~In("rx", queue')
    BY <1>6 DEF ReadOutcome
  <2>2. field \in {"data_len", "data"} /\ ForBoard => ForBoard'
    BY <1>2, <1>6 DEF ForBoard, Addressed
  <2> QED BY <1>2, <1>4, <1>6, <2>1, <2>2 DEF ReadOn, Reached
<1>7. CASE /\ e # "repeat" /\ n \in 0 .. Len(fifo)
           /\ got' = IF field = "protocol_version" THEN SubSeq(fifo, 1, n) ELSE got \o SubSeq(fifo, 1, n)
           /\ Accepted(field, n, SubSeq(fifo, 1, n), e)
  <2>1. ~In("repeat", queue') /\ (In("rx", queue') => e = "rx") /\ n = FieldLen(field, dgram.nodes, dgram.size)
    BY <1>7 DEF ReadOutcome
  <2>2. CASE field = "protocol_version"
    <3>1. n = 1 /\ End(field, dgram.nodes, dgram.size) = 1
      BY <1>5, <2>1, <2>2 DEF FieldLen, Begin
    <3>2. Len(SubSeq(fifo, 1, n)) = n
      BY <1>1, <1>7, Joined DEF Join
    <3>3. Len(got') = 1
      BY <1>7, <2>2, <3>1, <3>2
    <3> QED BY <1>2, <1>4, <2>1, <2>2, <3>1, <3>3 DEF ReadOn
  <2>3. CASE field # "protocol_version"
    <3>1. got' = got \o SubSeq(fifo, 1, n) /\ Len(got) = Begin(field, dgram.nodes)
      BY <1>7, <2>3 DEF Reached
    <3>2. Moved(fifo, n, got, got \o SubSeq(fifo, 1, n))
      BY <1>1, <1>7, HeadMoves
    <3>3. Len(got') = Len(got) + n
      BY <3>1, <3>2 DEF Moved
    <3>4. /\ \A i \in 1 .. Len(got) : got'[i] = got[i]
          /\ n >= 1 => got'[Len(got) + 1] = SubSeq(fifo, 1, n)[1]
      <4>1. Join(got, fifo, n, got \o SubSeq(fifo, 1, n))
        BY <1>1, <1>7, Joined
      <4>2. Join(got, fifo, n, got')
        BY <3>1, <4>1
      <4> QED BY <4>2 DEF Join
    <3>5. ASSUME In("rx", queue'), field = "dst" PROVE ForBoard'
      <4>1. n = dgram.nodes /\ Begin(field, dgram.nodes) = 7 /\ dgram'.nodes = dgram.nodes
        BY <1>2, <2>1, <3>5 DEF FieldLen, Begin
      <4>2. n # 0 /\ (n = 1 /\ SubSeq(fifo, 1, n)[1][2] = 8 => Addressed(SubSeq(fifo, 1, n)[1][1]))
        BY <1>7, <2>1, <3>5 DEF Accepted
      <4>3. ASSUME n = 1, NEW k \in Nat, got'[8] = <<k, 8>> PROVE Addressed(k)
        <5>1. got'[8] = SubSeq(fifo, 1, n)[1]
          <6>1. Len(got) + 1 = 8 /\ n >= 1
            BY <3>1, <4>1, <4>3
          <6> QED BY <3>4, <6>1
        <5>2. SubSeq(fifo, 1, n)[1][2] = 8 /\ SubSeq(fifo, 1, n)[1][1] = k
          BY <4>3, <5>1
        <5> QED BY <4>2, <4>3, <5>2
      <4> QED BY <4>1, <4>2, <4>3 DEF ForBoard, Addressed
    <3>6. ASSUME In("rx", queue'), field \in {"data_len", "data"} PROVE ForBoard'
      <4>1. ForBoard /\ dgram'.nodes = dgram.nodes
        BY <1>2, <2>3, <3>6 DEF Reached
      <4>2. dgram.nodes >= 1
        BY <1>1, <4>1 DEF ForBoard
      <4>3. Begin(field, dgram.nodes) >= 8
        BY <1>1, <3>6, <4>2 DEF Begin
      <4>4. 8 \in 1 .. Len(got)
        BY <1>5, <3>1, <4>3
      <4>5. got'[8] = got[8]
        BY <3>4, <4>4
      <4> QED BY <4>1, <4>5 DEF ForBoard, Addressed
    <3> QED BY <1>2, <1>4, <1>5, <2>1, <3>1, <3>3, <3>5, <3>6 DEF ReadOn
  <2> QED BY <2>2, <2>3
<1> QED BY <1>6, <1>7 DEF ReadOutcome

LEMMA RxCases ==
  ASSUME ReadInv, BytesInv, WatchInv, can_datagram_process_event, RxEvent(Head(queue))
  PROVE  \E field \in FieldSet : \E n, e : ReadField(field) /\ Reached(field) /\ ReadOutcome(field, n, e)
<1> DEFINE h == Head(queue)
           t == Tail(queue)
<1>1. /\ queue # <<>> /\ DatagramShapes /\ In(h, queue) /\ (h \in Driving => NoneDriving(t))
      /\ \A e \in Raisable : queue' = Append(t, e) => \A x : In(x, queue') <=> In(x, t) \/ x = e
  BY EventCases
<1>2. h \in Driving
  BY DEF RxEvent, Driving
<1>3. ~In("rx", t) /\ ~In("repeat", t)
  BY <1>1, <1>2 DEF NoneDriving, In, Driving
<1> HIDE DEF h, t
<1>4. PICK field \in FieldSet : ReadField(field) /\ Reached(field)
  BY <1>1, RxReached DEF h
<1>5. LengthsTyped(dgram) /\ fifo \in ByteSeq
  BY DEF BytesInv, BytesShapes
<1>6. PICK n : n = FieldLen(field, dgram.nodes, dgram.size)
  OBVIOUS
<1>7. \/ UNCHANGED <<fifo, got>> /\ queue' = Append(t, "repeat")
      \/ /\ n \in 0 .. Len(fifo)
         /\ got' = IF field = "protocol_version" THEN SubSeq(fifo, 1, n) ELSE got \o SubSeq(fifo, 1, n)
         /\ \E e \in {"rx", "soft error", "hard error"} :
               queue' = Append(t, e) /\ Accepted(field, n, SubSeq(fifo, 1, n), e)
  BY <1>1, <1>4, <1>5, <1>6, ReadFieldRaises DEF t
<1>8. ASSUME NEW e \in {"rx", "repeat", "soft error", "hard error"}, queue' = Append(t, e)
      PROVE  (In("rx", queue') => e = "rx") /\ (In("repeat", queue') => e = "repeat")
  <2>1. e \in Raisable
    BY DEF Raisable, Driving
  <2> QED BY <1>1, <1>3, <1>8, <2>1
<1>9. CASE UNCHANGED <<fifo, got>> /\ queue' = Append(t, "repeat")
  <2>1. ReadOutcome(field, n, "repeat")
    BY <1>6, <1>8, <1>9 DEF ReadOutcome
  <2> QED BY <1>4, <2>1
<1>10. CASE /\ n \in 0 .. Len(fifo)
            /\ got' = IF field = "protocol_version" THEN SubSeq(fifo, 1, n) ELSE got \o SubSeq(fifo, 1, n)
            /\ \E e \in {"rx", "soft error", "hard error"} :
                  queue' = Append(t, e) /\ Accepted(field, n, SubSeq(fifo, 1, n), e)
  <2>1. PICK e \in {"rx", "soft error", "hard error"} :
           queue' = Append(t, e) /\ Accepted(field, n, SubSeq(fifo, 1, n), e)
    BY <1>10
  <2>2. (In("rx", queue') => e = "rx") /\ (In("repeat", queue') => e = "repeat")
    BY <1>8, <2>1
  <2>3. ReadOutcome(field, n, e)
    BY <1>6, <1>10, <2>1, <2>2 DEF ReadOutcome
  <2> QED BY <1>4, <2>3
<1> QED BY <1>7, <1>9, <1>10

LEMMA RxKeepsRead ==
  ASSUME ReadInv, BytesInv, WatchInv, can_datagram_process_event, RxEvent(Head(queue))
  PROVE  ReadInv'
<1>1. PICK field \in FieldSet : \E n, e : ReadField(field) /\ Reached(field) /\ ReadOutcome(field, n, e)
  BY RxCases
<1>2. ReadOn(field)
  BY <1>1, ReadMakesRead
<1> QED BY <1>2 DEF ReadOn, ReadInv

\* A command taken from the fifo has not been dispatched.
LEMMA CommandInjective ==
  ASSUME NEW j \in Nat, NEW k \in Nat, Command(j) = Command(k)
  PROVE  j = k
<1>1. Command(j)[1] = <<j, 1>> /\ Command(k)[1] = <<k, 1>>
  BY CommandBytes
<1>2. <<j, 1>> = <<k, 1>>
  BY <1>1
<1> QED BY <1>2

LEMMA NotYetHandled ==
  ASSUME HandledInv, BytesInv, NEW k \in Nat, InFifo(k), NEW i \in DOMAIN handled
  PROVE  handled[i] # Command(k)
<1>1. SUFFICES ASSUME handled[i] = Command(k) PROVE FALSE
  OBVIOUS
<1>2. PICK j \in 1 .. client : handled[i] = Command(j)
  BY DEF HandledInv, ForUs
<1>3. client \in Nat
  BY BusCases DEF BytesInv
<1>4. j \in Nat
  BY <1>3
<1>5. j = k
  BY <1>1, <1>2, <1>4, CommandInjective
<1>6. Taken(k) /\ k \in 1 .. client
  BY <1>1, <1>2, <1>5 DEF Taken
<1> QED BY <1>6 DEF BytesInv

LEMMA RxKeepsHandled ==
  ASSUME HandledInv, ReadInv, BytesInv, WatchInv, can_datagram_process_event, RxEvent(Head(queue))
  PROVE  HandledInv'
<1>0. PICK field \in FieldSet : \E n, e : ReadField(field) /\ Reached(field) /\ ReadOutcome(field, n, e)
  BY RxCases
<1>1. PICK n, e : ReadField(field) /\ Reached(field) /\ ReadOutcome(field, n, e)
  BY <1>0
<1>2. UNCHANGED <<client, handled>>
  BY DEF can_datagram_process_event, RxEvent
<1>3. /\ dgram'.fsm = "rx" /\ dgram'.field = field
      /\ In("rx", queue') => Len(got') = End(field, dgram'.nodes, dgram'.size)
      /\ In("rx", queue') /\ field \in {"dst", "data_len", "data"} => ForBoard'
  BY <1>1, ReadMakesRead DEF ReadOn
<1>4. /\ fifo \in ByteSeq /\ got \in ByteSeq /\ client \in Nat /\ LengthsTyped(dgram) /\ DatagramShapes
  BY BusCases DEF BytesInv, BytesShapes, WatchInv
<1>5. LengthsTyped(dgram')
  BY <1>1, <1>4, ReadFieldBytes
<1>6. Complete' => ForUs(got)'
  <2>1. SUFFICES ASSUME In("rx", queue'), field = "data" PROVE ForUs(got)'
    BY <1>3 DEF Complete
  <2>2. e = "rx" /\ got' = got \o SubSeq(fifo, 1, n) /\ Checked(got \o SubSeq(fifo, 1, n))
    BY <1>1, <2>1 DEF ReadOutcome, Accepted
  <2>3. PICK k \in 1 .. client : got' = Command(k)
    BY <2>2 DEF Checked
  <2>4. k \in Nat
    BY <1>4
  <2>5. Len(got') = 11 /\ got'[8] = <<k, 8>>
    BY <2>3, <2>4, CommandBytes
  <2>6. ForBoard' /\ Len(got') = End("data", dgram'.nodes, dgram'.size)
    BY <1>3, <2>1
  <2>7. End("data", dgram'.nodes, dgram'.size) = (9 + dgram'.nodes) + dgram'.size
    BY DEF End, Begin, FieldLen
  <2>8. dgram'.nodes \in {0, 1, 30} /\ dgram'.size \in Nat
    BY <1>5 DEF LengthsTyped, Misread
  <2>9. dgram'.nodes = 1
    <3>1. dgram'.nodes # 0
      BY <2>6 DEF ForBoard
    <3>2. 11 = (9 + dgram'.nodes) + dgram'.size
      BY <2>5, <2>6, <2>7
    <3> QED BY <2>8, <3>1, <3>2
  <2>10. Addressed(k)'
    BY <2>4, <2>5, <2>6, <2>9 DEF ForBoard, Addressed
  <2> QED BY <1>2, <2>3, <2>10 DEF ForUs, Command, Bytes
<1>7. Begun' => \A i \in DOMAIN handled, k \in Nat : got'[1] = <<k, 1>> => handled[i] # Command(k)
  <2>1. CASE field = "protocol_version"
    <3>1. SUFFICES ASSUME In("rx", queue'), NEW i \in DOMAIN handled, NEW k \in Nat, got'[1] = <<k, 1>>
                   PROVE  handled[i] # Command(k)
      BY <1>3, <2>1 DEF Begun
    <3>2. e = "rx" /\ got' = SubSeq(fifo, 1, n) /\ n \in 0 .. Len(fifo) /\ n = 1
      BY <1>1, <2>1, <3>1 DEF ReadOutcome, FieldLen
    <3>3. <<>> \in ByteSeq
      BY DEF ByteSeq
    <3>4. Moved(fifo, n, <<>>, <<>> \o SubSeq(fifo, 1, n))
      BY <1>4, <3>2, <3>3, HeadMoves
    <3>5. <<>> \o SubSeq(fifo, 1, n) = SubSeq(fifo, 1, n)
      <4>1. SubSeq(fifo, 1, n) \in Seq(Nat \X Nat)
        BY <1>4, <3>2 DEF ByteSeq
      <4> QED BY <4>1
    <3>6. got' # <<>>
      <4>1. Len(got') = Len(<<>>) + 1 /\ Len(<<>>) = 0
        BY <3>2, <3>4, <3>5 DEF Moved
      <4>2. Len(got') # Len(<<>>)
        BY <4>1
      <4> QED BY <4>2, Zenon
    <3>7. got'[1] = fifo[1] /\ 1 \in DOMAIN fifo
      BY <1>4, <3>2, <3>4, <3>5, <3>6 DEF Moved, ByteSeq
    <3>8. InFifo(k)
      BY <3>1, <3>7 DEF InFifo
    <3> QED BY <3>8, NotYetHandled
  <2>2. CASE field # "protocol_version"
    <3>1. Begun /\ Len(got) = Begin(field, dgram.nodes)
      BY <1>1, <2>2 DEF Reached
    <3>2. Len(got) >= 1 /\ Len(got) \in Nat
      <4>1. dgram.nodes \in Nat /\ dgram.size \in Nat
        BY <1>4 DEF LengthsTyped, Misread
      <4>2. Begin(field, dgram.nodes) >= 1 /\ Begin(field, dgram.nodes) \in Nat
        BY <2>2, <4>1, ReadFieldsAdjoin
      <4> QED BY <3>1, <4>2
    <3>3. got'[1] = got[1]
      <4>1. CASE UNCHANGED <<fifo, got>>
        BY <4>1
      <4>2. CASE n \in 0 .. Len(fifo) /\ got' = got \o SubSeq(fifo, 1, n)
        <5>1. Join(got, fifo, n, got \o SubSeq(fifo, 1, n))
          BY <1>4, <4>2, Joined
        <5>2. Join(got, fifo, n, got')
          BY <4>2, <5>1
        <5> QED BY <3>2, <5>2 DEF Join
      <4> QED BY <1>1, <2>2, <4>1, <4>2 DEF ReadOutcome
    <3> QED BY <3>1, <3>3 DEF HandledInv
  <2> QED BY <2>1, <2>2
<1>8. \A d : ForUs(d)' <=> ForUs(d)
  BY <1>2 DEF ForUs, Addressed, Command, Bytes
<1>9. (\A i \in DOMAIN handled' : ForUs(handled[i])') /\ IsInjective(handled')
  BY <1>2, <1>8 DEF HandledInv
<1>10. \A k : UNCHANGED Command(k)
  BY DEF Command, Bytes
<1> QED BY <1>2, <1>6, <1>7, <1>9, <1>10 DEF HandledInv

\* What is read and dispatched is as before, and no reception is begun or completed.
LEMMA HandledKept ==
  ASSUME HandledInv, UNCHANGED <<got, handled>>, client \in Nat, client' \in Nat, client =< client',
         Complete' => Complete, Begun' => Begun
  PROVE  HandledInv'
<1>1. \A k : UNCHANGED Command(k)
  BY DEF Command, Bytes
<1>2. \A d : ForUs(d) => ForUs(d)'
  <2>1. 1 .. client \subseteq 1 .. client'
    OBVIOUS
  <2> QED BY <1>1, <2>1 DEF ForUs, Addressed
<1> QED BY <1>1, <1>2 DEF HandledInv

LEMMA ReadKept ==
  ASSUME ReadInv, UNCHANGED got, SameLengths(dgram', dgram), dgram'.fsm = "rx" => dgram.fsm = "rx",
         \A x \in {"rx", "repeat"} : dgram'.fsm = "rx" /\ In(x, queue') => In(x, queue)
  PROVE  ReadInv'
<1>1. ForBoard' <=> ForBoard
  BY DEF ForBoard, SameLengths, Addressed
<1> QED BY <1>1 DEF ReadInv, SameLengths

\* One more member, and new, keeps the members distinct.
LEMMA Appended ==
  ASSUME NEW s \in Seq(ByteSeq), NEW d \in ByteSeq, NEW r, r = Append(s, d), IsInjective(s),
         \A i \in DOMAIN s : s[i] # d, NEW P, \A i \in DOMAIN s : s[i] \in P, d \in P
  PROVE  IsInjective(r) /\ \A i \in DOMAIN r : r[i] \in P
<1>1. /\ Len(s) \in Nat /\ DOMAIN s = 1 .. Len(s) /\ DOMAIN r = 1 .. Len(s) + 1
      /\ r[Len(s) + 1] = d /\ \A i \in DOMAIN s : r[i] = s[i]
  OBVIOUS
<1>2. \A i \in DOMAIN r : i \in DOMAIN s \/ i = Len(s) + 1
  BY <1>1
<1>3. ASSUME NEW a \in DOMAIN r, NEW b \in DOMAIN r, r[a] = r[b] PROVE a = b
  BY <1>1, <1>2, <1>3 DEF IsInjective
<1> QED BY <1>1, <1>2, <1>3 DEF IsInjective

\* The events but those of the rx side.
LEMMA OthersKeepHandled ==
  ASSUME HandledInv, ReadInv, FlowInv, BytesInv, WatchInv, can_datagram_process_event, ~RxEvent(Head(queue))
  PROVE  HandledInv' /\ ReadInv'
<1> DEFINE h == Head(queue)
           t == Tail(queue)
<1>1. /\ queue \in Seq(Raisable) /\ Formed(dgram) /\ OneDriving(queue) /\ queue # <<>> /\ DatagramShapes
      /\ t \in Seq(Raisable) /\ h \in Raisable /\ In(h, queue)
      /\ \A x : In(x, t) => In(x, queue)
      /\ \A x : In(x, queue) => x = h \/ In(x, t)
      /\ h \in Driving => NoneDriving(t)
      /\ \A e \in Raisable : queue' = Append(t, e) =>
              /\ queue' \in Seq(Raisable)
              /\ \A x : In(x, queue') <=> In(x, t) \/ x = e
  BY EventCases
<1>2. client \in Nat /\ client' = client /\ client =< client' /\ LengthsTyped(dgram)
  BY BusCases DEF BytesInv, BytesShapes, can_datagram_process_event
<1>3. In("rx", queue) => \A e \in Error : ~In(e, queue)
  BY <1>1, MixedIn DEF FlowInv
<1> HIDE DEF h, t
<1>4. CASE TxEvent(h)
  <2>1. (\E field \in FieldSet : WriteField(field)) /\ UNCHANGED handled
    <3>1. dgram.field \in FieldSet /\ "protocol_version" \in FieldSet
      BY <1>2 DEF LengthsTyped, FieldSet
    <3>2. dgram.field # "data" => NextField(dgram.field) \in FieldSet
      BY <3>1, NextTyped
    <3> QED BY <1>4, <3>1, <3>2 DEF TxEvent
  <2>2. dgram'.fsm = "tx" /\ UNCHANGED got
    BY <1>1, <2>1, WriteFieldMakes DEF WriteField
  <2>3. ~Complete' /\ ~Begun'
    BY <2>2 DEF Complete, Begun
  <2>4. ReadInv'
    BY <2>2 DEF ReadInv
  <2> QED BY <1>2, <2>1, <2>2, <2>3, <2>4, HandledKept
<1>5. CASE EndEvent(h)
  <2>1. /\ queue' = Append(t, h) /\ dgram' = [dgram EXCEPT !.fsm = "done", !.dog = NoDog]
        /\ UNCHANGED <<got, handled>>
    BY <1>5 DEF EndEvent, Finish, Raised, t
  <2>2. dgram'.fsm = "done"
    BY <1>1, <2>1 DEF Formed
  <2>3. In("rx", queue') => In("rx", queue)
    BY <1>1, <2>1
  <2>4. In("rx", queue) => dgram.fsm = "rx" /\ h = "rx" /\ dgram.field = "data"
    BY <1>1, <1>3, <1>5 DEF EndEvent, FlowInv
  <2>5. (Complete' => Complete) /\ (Begun' => Begun)
    BY <2>2, <2>3, <2>4 DEF Complete, Begun
  <2>6. ReadInv'
    BY <2>2 DEF ReadInv
  <2> QED BY <1>2, <2>1, <2>5, <2>6, HandledKept
<1>6. CASE IdleEvent(h)
  <2>1. Idle(h) /\ h \in {"rx", "tx", "soft error", "hard error"} /\ dgram.fsm = "done" /\ UNCHANGED got
    BY <1>1, <1>6 DEF IdleEvent, Raisable, Driving
  <2>2. dgram'.fsm = "idle"
    BY <1>1, <2>1, IdleMakesIdle
  <2>3. ReadInv' /\ ~Complete' /\ ~Begun'
    BY <2>2 DEF ReadInv, Complete, Begun
  <2>4. CASE h = "rx"
    <3>1. handled' = Append(handled, got)
      BY <2>1, <2>4 DEF Idle, Dispatch
    <3>2. Complete /\ Begun
      BY <1>1, <2>1, <2>4 DEF Complete, Begun
    <3>3. PICK k \in 1 .. client : Addressed(k) /\ got = Command(k)
      BY <3>2 DEF HandledInv, ForUs
    <3>4. k \in Nat
      BY <1>2
    <3>5. got[1] = <<k, 1>>
      BY <3>3, <3>4, CommandBytes
    <3>6. \A i \in DOMAIN handled : handled[i] # got
      BY <3>2, <3>3, <3>4, <3>5 DEF HandledInv
    <3>7. handled \in Seq(ByteSeq) /\ got \in ByteSeq
      BY DEF BytesInv, BytesShapes
    <3>8. \A d : ForUs(d)' <=> ForUs(d)
      BY <1>2 DEF ForUs, Addressed, Command, Bytes
    <3>9. ForUs(got)
      BY <3>3 DEF ForUs
    <3>10. (\A i \in DOMAIN handled' : ForUs(handled'[i])) /\ IsInjective(handled')
      <4>1. PICK P : P = {d \in ByteSeq : ForUs(d)}
        OBVIOUS
      <4>2. (\A i \in DOMAIN handled : handled[i] \in P) /\ got \in P
        BY <3>7, <3>9, <4>1 DEF HandledInv
      <4>3. IsInjective(handled)
        BY DEF HandledInv
      <4>4. IsInjective(handled') /\ \A i \in DOMAIN handled' : handled'[i] \in P
        BY <3>1, <3>6, <3>7, <4>2, <4>3, Appended
      <4> QED BY <4>1, <4>4
    <3> QED BY <2>3, <3>8, <3>10 DEF HandledInv
  <2>5. CASE h # "rx"
    <3>1. UNCHANGED handled
      BY <2>1, <2>5 DEF Idle
    <3> QED BY <1>2, <2>1, <2>3, <3>1, HandledKept
  <2> QED BY <2>4, <2>5
<1>7. CASE NoTransition(h)
  <2>1. queue' = t /\ UNCHANGED <<dgram, got, handled>>
    BY <1>7 DEF NoTransition, t
  <2>2. \A x : In(x, queue') => In(x, queue)
    BY <1>1, <2>1
  <2>3. (Complete' => Complete) /\ (Begun' => Begun)
    BY <2>1, <2>2 DEF Complete, Begun
  <2>4. SameLengths(dgram', dgram)
    BY <2>1 DEF SameLengths
  <2> QED BY <1>2, <2>1, <2>2, <2>3, <2>4, HandledKept, ReadKept
<1> QED BY <1>4, <1>5, <1>6, <1>7 DEF can_datagram_process_event, h

LEMMA HandledNext ==
  ASSUME HandledInv, ReadInv, FlowInv, BytesInv, WatchInv, SentInv, [DatagramNext]_datagramVars, ~Mixed(queue')
  PROVE  HandledInv' /\ ReadInv'
<1>1. queue \in Seq(Raisable) /\ LengthsTyped(dgram) /\ Formed(dgram) /\ client \in Nat /\ client =< client
  BY BusCases DEF BytesInv, BytesShapes, WatchInv, DatagramShapes, Formed
<1>2. CASE /\ dgram'.fsm = dgram.fsm /\ SameLengths(dgram', dgram) /\ UNCHANGED <<queue, got, handled>>
           /\ client' \in Nat /\ client =< client'
  <2>1. (Complete' <=> Complete) /\ (Begun' <=> Begun)
    BY <1>2 DEF Complete, Begun, SameLengths
  <2> QED BY <1>1, <1>2, <2>1, HandledKept, ReadKept
<1>3. CASE ReceiveStart
  <2>1. UNCHANGED <<got, client, handled>>
    BY <1>3 DEF ReceiveStart
  <2>2. SameLengths(dgram', dgram)
    BY <1>1, <1>3, LengthsKept
  <2>3. CASE StartAccepted
    <3>1. dgram'.fsm = "idle"
      BY <1>3, <2>3, StartWhenIdle
    <3>2. ReadInv' /\ ~Complete' /\ ~Begun'
      BY <3>1 DEF ReadInv, Complete, Begun
    <3> QED BY <1>1, <2>1, <3>2, HandledKept
  <2>4. CASE ~StartAccepted
    BY <1>1, <1>2, <1>3, <2>1, <2>2, <2>4 DEF ReceiveStart
  <2> QED BY <2>3, <2>4
<1>4. CASE ReceiveData
  BY <1>1, <1>2, <1>4, LengthsKept DEF ReceiveData
<1>5. ASSUME NEW i, WatchdogExpires(i) PROVE HandledInv' /\ ReadInv'
  <2>1. /\ queue' = Append(queue, "hard error") /\ UNCHANGED <<dgram, got, client, handled>>
        /\ "hard error" \in Raisable
    BY <1>5 DEF WatchdogExpires, Raisable
  <2>2. \A x : In(x, queue') <=> In(x, queue) \/ x = "hard error"
    BY <1>1, <2>1, EventRaised
  <2>3. (Complete' => Complete) /\ (Begun' => Begun)
    BY <2>1, <2>2 DEF Complete, Begun
  <2>4. SameLengths(dgram', dgram)
    BY <2>1 DEF SameLengths
  <2> QED BY <1>1, <2>1, <2>2, <2>3, <2>4, HandledKept, ReadKept
<1>6. CASE UNCHANGED datagramVars \/ ClientSends \/ FrameLost
  <2>1. UNCHANGED <<dgram, queue, got, handled>> /\ (client' = client \/ client' = client + 1)
    BY <1>6 DEF datagramVars, ClientSends, FrameLost
  <2>2. SameLengths(dgram', dgram) /\ client' \in Nat /\ client =< client'
    BY <1>1, <2>1 DEF SameLengths
  <2> QED BY <1>2, <2>1, <2>2
<1>7. CASE can_datagram_process_event
  <2>1. CASE RxEvent(Head(queue))
    BY <1>7, <2>1, RxKeepsRead, RxKeepsHandled
  <2>2. CASE ~RxEvent(Head(queue))
    BY <1>7, <2>2, OthersKeepHandled
  <2> QED BY <2>1, <2>2
<1> QED BY <1>3, <1>4, <1>5, <1>6, <1>7 DEF DatagramNext

ReceptionInv == ~stray => FlowInv /\ ReadInv /\ HandledInv

LEMMA ReceptionInit == DatagramInit => ReceptionInv
BY DEF DatagramInit, ReceptionInv, FlowInv, ReadInv, HandledInv, Complete, Begun, Mixed, Range, In, IsInjective

LEMMA ReceptionNext ==
  ReceptionInv /\ SentInv /\ BytesInv /\ WatchInv /\ [DatagramNext]_datagramVars => ReceptionInv'
<1> SUFFICES ASSUME ReceptionInv, SentInv, BytesInv, WatchInv, [DatagramNext]_datagramVars, ~stray'
             PROVE  FlowInv' /\ ReadInv' /\ HandledInv'
  BY DEF ReceptionInv
<1>1. CASE DatagramNext
  <2>1. ~stray /\ ~Mixed(queue')
    BY <1>1 DEF DatagramNext
  <2> QED BY <2>1, FlowNext, HandledNext DEF ReceptionInv
<1>2. CASE UNCHANGED datagramVars
  <2>1. ~stray /\ UNCHANGED queue
    BY <1>2 DEF datagramVars
  <2>2. ~Mixed(queue')
    BY <2>1 DEF ReceptionInv, FlowInv
  <2> QED BY <2>1, <2>2, FlowNext, HandledNext DEF ReceptionInv
<1> QED BY <1>1, <1>2

\* What a bootloader dispatches is a command that was sent to it, whole, and no command is dispatched
\* twice (DispatchedWasSent), for every sequence of commands, whatever frames are lost and whenever
\* the watchdog expires, while no rx event and error meet in the queue: the first byte of a command
\* passes once from the bus over the fifo to a reception, and the CRC is compared over all of it.
THEOREM DispatchedAlwaysSent == DatagramSpec => []DispatchedWasSent
<1>1. DatagramInit => WatchInv /\ BytesInv /\ SentInv /\ ReceptionInv
  BY WatchInit, BytesInitInv, SentInit, ReceptionInit
<1>2. WatchInv /\ BytesInv /\ SentInv /\ ReceptionInv /\ [DatagramNext]_datagramVars
        => (WatchInv /\ BytesInv /\ SentInv /\ ReceptionInv)'
  BY WatchNext, BytesNext, SentNext, ReceptionNext
<1>3. ReceptionInv => DispatchedWasSent
  BY DEF ReceptionInv, HandledInv, ForUs, DispatchedWasSent
<1> QED BY <1>1, <1>2, <1>3, PTL DEF DatagramSpec

-----------------------------------------------------------------------------
(* The pages of the bootloader's configuration.                             *)

CommitWrites == {"invalidate", "erase", "size", "blob"}

-----------------------------------------------------------------------------
(* A page f, the storage r of its persistence layer                         *)

\* Invalid sections, then one that may be valid or torn, then erased ones.
ShapeAt(f, k) ==
  /\ k \in 1 .. Sections + 1
  /\ \A m \in 1 .. Sections : m < k => f[m].mark = "invalid"
  /\ k =< Sections => f[k].mark \in {"erased", "valid"}
  /\ \A m \in 1 .. Sections : m > k => f[m].mark = "erased"

Shaped(f) ==
  /\ f = [n \in 1 .. Sections |-> f[n]]
  /\ \A n \in 1 .. Sections : f[n] = [mark |-> f[n].mark, blob |-> f[n].blob]
  /\ \E k \in 1 .. Sections + 1 : ShapeAt(f, k)

Storages == [used : 0 .. Sections, next : 1 .. Sections + 1]

\* Every section before the next one is invalid, the others are erased.
Fresh(f, r) ==
  \A m \in 1 .. Sections : f[m].mark = IF m < r.next THEN "invalid" ELSE "erased"

\* The storage names the valid section, or none when there is none.
Synced(f, r) ==
  \/ r.used = 0 /\ Fresh(f, r)
  \/ r.used # 0 /\ r.next = r.used + 1 /\ ShapeAt(f, r.used) /\ f[r.used].mark = "valid"

\* A commit that is about to make the write a.
Progress(f, r, a) ==
  CASE a = "invalidate" -> Synced(f, r)
    [] a = "erase"      -> Fresh(f, r) /\ r.next = Sections + 1
    [] a = "size"       -> Fresh(f, r) /\ r.next =< Sections
    [] a = "blob"       -> r.next =< Sections /\ ShapeAt(f, r.next) /\ f[r.next].mark = "valid"

-----------------------------------------------------------------------------
(* The two pages and the stage c of config_init or config_commit            *)

\* After boot a page has no storage until it is loaded; the first page loses its own when the
\* write of its blob may have failed.
Loaded(c, p) ==
  IF p = 1 THEN c.stage # "verify" /\ ~(c.stage = "first" /\ c.at = "load")
  ELSE c.stage # "first" /\ ~(c.stage = "second" /\ c.at = "load")

Writing(c, p) == c.at \in CommitWrites /\ c.page = p

PageInv(f, r, c, p) ==
  /\ Shaped(f) /\ r \in Storages
  /\ Loaded(c, p) /\ ~Writing(c, p) => Synced(f, r)
  /\ Writing(c, p) => Progress(f, r, c.at)

StageOK(c) ==
  /\ c = [stage |-> c.stage, at |-> c.at, page |-> c.page]
  /\ \/ c.stage \in {"first", "write", "restore"} /\ c.page = 1 /\ c.at \in CommitWrites
     \/ c.stage \in {"second", "mirror"} /\ c.page = 2 /\ c.at \in CommitWrites
     \/ c.stage = "repair" /\ c.page \in {1, 2} /\ c.at \in CommitWrites
     \/ c.stage \in {"first", "verify"} /\ c.page = 1 /\ c.at = "load"
     \/ c.stage = "second" /\ c.page = 2 /\ c.at = "load"
     \/ c.stage \in {"compare", "ready"} /\ c.page = 1 /\ c.at = "none"

ConfigInv ==
  /\ StageOK(cpu)
  /\ flash = [p \in {1, 2} |-> flash[p]]
  /\ persist = [p \in {1, 2} |-> persist[p]]
  /\ \A p \in {1, 2} : PageInv(flash[p], persist[p], cpu, p)

-----------------------------------------------------------------------------
(* One page: what the writes of a commit make of its shape                  *)

LEMMA SectionsNat == Sections \in Nat /\ Sections >= 1
BY PersistAssumption

LEMMA FreshShape ==
  ASSUME NEW f, NEW r \in Storages, Fresh(f, r)
  PROVE  ShapeAt(f, r.next)
<1>1. r.next \in 1 .. Sections + 1
  BY DEF Storages
<1> QED BY <1>1, SectionsNat DEF Fresh, ShapeAt

LEMMA ErasedAndValid ==
  /\ Erased = [mark |-> "erased", blob |-> Torn] /\ Erased.mark = "erased"
  /\ \A b : Valid(b) = [mark |-> Valid(b).mark, blob |-> Valid(b).blob] /\ Valid(b).mark = "valid"
BY DEF Erased, Valid

LEMMA InvalidateKeeps ==
  ASSUME NEW f, Shaped(f), NEW r \in Storages, Synced(f, r), NEW g,
         g = IF r.used = 0 THEN f
             ELSE [f EXCEPT ![r.used] = [f[r.used] EXCEPT !.mark = "invalid"]]
  PROVE  Shaped(g) /\ Fresh(g, r)
<1>1. CASE r.used = 0
  BY <1>1 DEF Synced
<1>2. CASE r.used # 0
  <2> DEFINE k == r.used
             h == [f[k] EXCEPT !.mark = "invalid"]
  <2>1. k \in 1 .. Sections /\ r.next = k + 1 /\ ShapeAt(f, k)
    BY <1>2, SectionsNat DEF Synced, Storages
  <2>2. f[k] = [mark |-> f[k].mark, blob |-> f[k].blob]
    BY <2>1 DEF Shaped
  <2>3. h.mark = "invalid" /\ h = [mark |-> h.mark, blob |-> h.blob]
    BY <2>2
  <2> HIDE DEF h
  <2>4. g = [f EXCEPT ![k] = h]
    BY <1>2 DEF h
  <2> HIDE DEF k
  <2>5. g = [n \in 1 .. Sections |-> IF n = k THEN h ELSE f[n]]
    BY <2>1, <2>4 DEF Shaped
  <2>6. \A n \in 1 .. Sections : g[n] = IF n = k THEN h ELSE f[n]
    BY <2>5
  <2>7. Fresh(g, r)
    BY <2>1, <2>3, <2>6, SectionsNat DEF Fresh, ShapeAt
  <2>8. \A n \in 1 .. Sections : g[n] = [mark |-> g[n].mark, blob |-> g[n].blob]
    BY <2>3, <2>6 DEF Shaped
  <2>9. g = [n \in 1 .. Sections |-> g[n]]
    BY <2>5
  <2> QED BY <2>7, <2>8, <2>9, FreshShape DEF Shaped, Storages
<1> QED BY <1>1, <1>2

LEMMA EraseKeeps ==
  ASSUME NEW r \in Storages, NEW g, g = [n \in 1 .. Sections |-> Erased],
         NEW s, s = [r EXCEPT !.next = 1]
  PROVE  Shaped(g) /\ s \in Storages /\ Fresh(g, s) /\ s.next =< Sections
<1>1. s \in Storages /\ s.next = 1
  BY SectionsNat DEF Storages
<1>2. Fresh(g, s)
  BY <1>1, ErasedAndValid, SectionsNat DEF Fresh
<1>3. \A n \in 1 .. Sections : g[n] = [mark |-> g[n].mark, blob |-> g[n].blob]
  BY ErasedAndValid
<1>4. ShapeAt(g, s.next)
  BY <1>1, <1>2, FreshShape
<1> QED BY <1>1, <1>2, <1>3, <1>4, SectionsNat DEF Shaped, Storages

\* The size of a section or its blob is written where the next section is.
LEMMA WriteKeeps ==
  ASSUME NEW f, Shaped(f), NEW r \in Storages, r.next =< Sections,
         Fresh(f, r) \/ ShapeAt(f, r.next),
         NEW b, NEW g, g = [f EXCEPT ![r.next] = Valid(b)]
  PROVE  Shaped(g) /\ ShapeAt(g, r.next) /\ g[r.next].mark = "valid"
<1> DEFINE k == r.next
           v == Valid(b)
<1>1. v.mark = "valid" /\ v = [mark |-> v.mark, blob |-> v.blob]
  BY ErasedAndValid
<1>2. k \in 1 .. Sections
  BY SectionsNat DEF Storages
<1>3. ShapeAt(f, k)
  BY FreshShape
<1>4. g = [f EXCEPT ![k] = v]
  OBVIOUS
<1> HIDE DEF k, v
<1>5. g = [n \in 1 .. Sections |-> IF n = k THEN v ELSE f[n]]
  BY <1>4 DEF Shaped
<1>6. \A n \in 1 .. Sections : g[n] = IF n = k THEN v ELSE f[n]
  BY <1>5
<1>7. ShapeAt(g, k) /\ g[k].mark = "valid"
  BY <1>1, <1>2, <1>3, <1>6, SectionsNat DEF ShapeAt
<1>8. \A n \in 1 .. Sections : g[n] = [mark |-> g[n].mark, blob |-> g[n].blob]
  BY <1>1, <1>6 DEF Shaped
<1>9. g = [n \in 1 .. Sections |-> g[n]]
  BY <1>5
<1>10. k \in 1 .. Sections + 1
  BY <1>2, SectionsNat
<1>11. Shaped(g)
  BY <1>7, <1>8, <1>9, <1>10 DEF Shaped
<1> QED BY <1>7, <1>11 DEF k

\* A section written to the end is the one in use.
LEMMA FollowSyncs ==
  ASSUME NEW g, NEW r \in Storages, r.next =< Sections, ShapeAt(g, r.next),
         g[r.next].mark = "valid", NEW s, s = [used |-> r.next, next |-> r.next + 1]
  PROVE  s \in Storages /\ Synced(g, s)
<1>1. r.next \in 1 .. Sections
  BY SectionsNat DEF Storages
<1> QED BY <1>1, SectionsNat DEF Storages, Synced

-----------------------------------------------------------------------------
(* persist_init                                                             *)

LEMMA FirstIsShape ==
  ASSUME NEW p, Shaped(flash[p])
  PROVE  ShapeAt(flash[p], FirstSection(p))
<1> DEFINE P(n) == /\ Section(p, n).mark # "invalid"
                   /\ \A m \in 1 .. n - 1 : Section(p, m).mark = "invalid"
<1>1. PICK k \in 1 .. Sections + 1 : ShapeAt(flash[p], k)
  BY DEF Shaped
<1>2. \A n \in 1 .. Sections : Section(p, n) = flash[p][n]
  BY DEF Section
<1>3. Section(p, Sections + 1).mark = "erased"
  BY SectionsNat, ErasedAndValid DEF Section
<1>4. P(k)
  <2>1. Section(p, k).mark # "invalid"
    <3>1. CASE k = Sections + 1
      BY <1>3, <3>1
    <3>2. CASE k \in 1 .. Sections
      BY <1>1, <1>2, <3>2, SectionsNat DEF ShapeAt
    <3> QED BY <1>1, <3>1, <3>2, SectionsNat
  <2>2. ASSUME NEW m \in 1 .. k - 1 PROVE Section(p, m).mark = "invalid"
    BY <1>1, <1>2, <2>2, SectionsNat DEF ShapeAt
  <2> QED BY <2>1, <2>2
<1>5. ASSUME NEW n \in 1 .. Sections + 1, P(n) PROVE n = k
  <2>1. ~(n < k)
    <3>1. SUFFICES ASSUME n < k PROVE FALSE
      OBVIOUS
    <3>2. n \in 1 .. k - 1
      BY <1>5, <3>1, SectionsNat
    <3> QED BY <1>4, <1>5, <3>2
  <2>2. ~(k < n)
    <3>1. SUFFICES ASSUME k < n PROVE FALSE
      OBVIOUS
    <3>2. k \in 1 .. n - 1
      BY <1>5, <3>1, SectionsNat
    <3> QED BY <1>4, <1>5, <3>2
  <2> QED BY <1>5, <2>1, <2>2, SectionsNat
<1>6. FirstSection(p) = CHOOSE n \in 1 .. Sections + 1 : P(n)
  BY DEF FirstSection
<1> HIDE DEF P
<1>7. FirstSection(p) = k
  BY <1>4, <1>5, <1>6
<1> QED BY <1>1, <1>7

LEMMA FindSyncs ==
  ASSUME NEW p, Shaped(flash[p]), NEW s,
         s = IF NothingFound(p) THEN [used |-> 0, next |-> FirstSection(p)]
             ELSE [used |-> FirstSection(p), next |-> FirstSection(p) + 1]
  PROVE  s \in Storages /\ Synced(flash[p], s)
<1> DEFINE n == FirstSection(p)
<1>1. ShapeAt(flash[p], n)
  BY FirstIsShape
<1>2. n \in 1 .. Sections => Section(p, n) = flash[p][n]
  BY DEF Section
<1>3. n = Sections + 1 => Section(p, n).mark = "erased"
  BY SectionsNat, ErasedAndValid DEF Section
<1>4. n \in 1 .. Sections + 1
  BY <1>1 DEF ShapeAt
<1>5. NothingFound(p) <=> Section(p, n).mark = "erased"
  BY DEF NothingFound
<1>6. s = IF NothingFound(p) THEN [used |-> 0, next |-> n] ELSE [used |-> n, next |-> n + 1]
  OBVIOUS
<1> HIDE DEF n
<1>7. CASE NothingFound(p)
  <2>1. s = [used |-> 0, next |-> n]
    BY <1>6, <1>7
  <2>2. s \in Storages /\ s.used = 0 /\ s.next = n
    BY <1>4, <2>1, SectionsNat DEF Storages
  <2>3. n \in 1 .. Sections => flash[p][n].mark = "erased"
    BY <1>2, <1>5, <1>7
  <2>4. Fresh(flash[p], s)
    BY <1>1, <1>4, <2>2, <2>3, SectionsNat DEF Fresh, ShapeAt
  <2> QED BY <2>2, <2>4 DEF Synced
<1>8. CASE ~NothingFound(p)
  <2>1. s = [used |-> n, next |-> n + 1]
    BY <1>6, <1>8
  <2>2. n \in 1 .. Sections
    BY <1>3, <1>4, <1>5, <1>8, SectionsNat
  <2>3. flash[p][n].mark = "valid"
    BY <1>1, <1>2, <1>5, <1>8, <2>2, SectionsNat DEF ShapeAt
  <2>4. s \in Storages /\ s.used = n /\ s.next = n + 1
    BY <2>1, <2>2, SectionsNat DEF Storages
  <2> QED BY <1>1, <2>2, <2>3, <2>4 DEF Synced
<1> QED BY <1>7, <1>8

-----------------------------------------------------------------------------
(* The specification *)

LEMMA ConfigInitInv == ConfigInit => ConfigInv
<1> SUFFICES ASSUME ConfigInit PROVE ConfigInv
  OBVIOUS
<1>1. FlashPages = {1, 2}
  BY ConfigAssumption
<1>2. PICK first \in {Erased} \cup {Valid(Summed(i, Measured, <<i, Measured>>)) : i \in BoardIds} :
        flash = [p \in FlashPages |-> [n \in 1 .. Sections |-> IF n = 1 THEN first ELSE Erased]]
  BY DEF ConfigInit
<1>3. first = [mark |-> first.mark, blob |-> first.blob] /\ first.mark \in {"erased", "valid"}
  BY ErasedAndValid
<1>4. ASSUME NEW p \in {1, 2} PROVE Shaped(flash[p])
  <2> DEFINE f == flash[p]
  <2>1. f = [n \in 1 .. Sections |-> IF n = 1 THEN first ELSE Erased]
    BY <1>1, <1>2, <1>4
  <2> HIDE DEF f
  <2>2. \A n \in 1 .. Sections : f[n] = IF n = 1 THEN first ELSE Erased
    BY <2>1
  <2>3. ShapeAt(f, 1) /\ 1 \in 1 .. Sections + 1
    BY <1>3, <2>2, ErasedAndValid, SectionsNat DEF ShapeAt
  <2>4. \A n \in 1 .. Sections : f[n] = [mark |-> f[n].mark, blob |-> f[n].blob]
    BY <1>3, <2>2, ErasedAndValid
  <2>5. f = [n \in 1 .. Sections |-> f[n]]
    BY <2>1
  <2>6. Shaped(f)
    BY <2>3, <2>4, <2>5 DEF Shaped
  <2> QED BY <2>6 DEF f
<1>5. flash = [p \in {1, 2} |-> flash[p]]
  BY <1>1, <1>2
<1>6. /\ persist = [p \in {1, 2} |-> [used |-> 0, next |-> 1]]
      /\ \A p \in {1, 2} : persist[p] \in Storages
  BY <1>1, SectionsNat DEF ConfigInit, Storages
<1>7. cpu = [stage |-> "first", at |-> "load", page |-> 1]
  BY DEF ConfigInit, Stage
<1>8. StageOK(cpu) /\ \A p \in {1, 2} : ~Loaded(cpu, p) /\ ~Writing(cpu, p)
  BY <1>7 DEF StageOK, Loaded, Writing, CommitWrites
<1> QED BY <1>4, <1>5, <1>6, <1>8 DEF ConfigInv, PageInv

\* What a step does to the page it is for, and that it leaves the other one alone.
LEMMA StepOnPage ==
  ASSUME ConfigInv, NEW p \in {1, 2}, NEW q \in {1, 2} \ {p},
         flash' = [x \in {1, 2} |-> flash'[x]], persist' = [x \in {1, 2} |-> persist'[x]],
         flash'[q] = flash[q], persist'[q] = persist[q],
         StageOK(cpu'), PageInv(flash'[p], persist'[p], cpu', p),
         Loaded(cpu', q) /\ ~Writing(cpu', q) => Loaded(cpu, q) /\ ~Writing(cpu, q),
         Writing(cpu', q) => Loaded(cpu, q) /\ ~Writing(cpu, q) /\ cpu'.at = "invalidate"
  PROVE  ConfigInv'
<1>1. PageInv(flash[q], persist[q], cpu, q)
  BY DEF ConfigInv
<1>2. PageInv(flash'[q], persist'[q], cpu', q)
  BY <1>1 DEF PageInv, Progress
<1>3. \A x \in {1, 2} : PageInv(flash'[x], persist'[x], cpu', x)
  BY <1>2
<1> QED BY <1>3 DEF ConfigInv

LEMMA Writer ==
  ASSUME ConfigInv, cpu.at \in CommitWrites
  PROVE  /\ cpu.page \in {1, 2} /\ PageInv(flash[cpu.page], persist[cpu.page], cpu, cpu.page)
         /\ Progress(flash[cpu.page], persist[cpu.page], cpu.at)
         /\ Shaped(flash[cpu.page]) /\ persist[cpu.page] \in Storages
         /\ cpu.stage \in {"first", "write", "restore", "second", "mirror", "repair"}
<1>1. cpu.page \in {1, 2} /\ Writing(cpu, cpu.page)
  BY DEF ConfigInv, StageOK, Writing, CommitWrites
<1>2. PageInv(flash[cpu.page], persist[cpu.page], cpu, cpu.page)
  BY <1>1 DEF ConfigInv
<1>3. cpu.stage \in {"first", "write", "restore", "second", "mirror", "repair"}
  BY DEF ConfigInv, StageOK, CommitWrites
<1> QED BY <1>1, <1>2, <1>3 DEF PageInv

\* The next write of the same commit.
LEMMA NextWrite ==
  ASSUME ConfigInv, cpu.at \in CommitWrites, NEW a \in CommitWrites, cpu' = [cpu EXCEPT !.at = a],
         NEW f, NEW r, flash' = [flash EXCEPT ![cpu.page] = f],
         persist' = [persist EXCEPT ![cpu.page] = r],
         Shaped(f), r \in Storages, Progress(f, r, a)
  PROVE  ConfigInv'
<1> DEFINE p == cpu.page
<1>1. p \in {1, 2} /\ cpu.stage \in {"first", "write", "restore", "second", "mirror", "repair"}
  BY Writer
<1>2. PICK q \in {1, 2} \ {p} : TRUE
  BY <1>1
<1>3. cpu' = [stage |-> cpu.stage, at |-> a, page |-> p]
  BY DEF ConfigInv, StageOK
<1>4. StageOK(cpu')
  BY <1>1, <1>3 DEF ConfigInv, StageOK, CommitWrites
<1>5. ~Writing(cpu, q) /\ ~Writing(cpu', q)
  BY <1>2, <1>3 DEF Writing
<1>6. Loaded(cpu', q) => Loaded(cpu, q)
  BY <1>3 DEF Loaded, CommitWrites
<1> HIDE DEF p
<1>7. flash = [x \in {1, 2} |-> flash[x]] /\ persist = [x \in {1, 2} |-> persist[x]]
  BY DEF ConfigInv
<1>8. /\ flash' = [x \in {1, 2} |-> IF x = p THEN f ELSE flash[x]]
      /\ persist' = [x \in {1, 2} |-> IF x = p THEN r ELSE persist[x]]
  BY <1>7 DEF p
<1>9. /\ flash' = [x \in {1, 2} |-> flash'[x]] /\ persist' = [x \in {1, 2} |-> persist'[x]]
      /\ flash'[q] = flash[q] /\ persist'[q] = persist[q]
      /\ flash'[p] = f /\ persist'[p] = r
  BY <1>1, <1>2, <1>8
<1>10. cpu'.at = a /\ cpu'.page = p /\ Writing(cpu', p)
  BY <1>3 DEF Writing, p
<1>11. PageInv(flash'[p], persist'[p], cpu', p)
  BY <1>9, <1>10 DEF PageInv
<1> QED BY <1>1, <1>2, <1>4, <1>5, <1>6, <1>9, <1>11, StepOnPage DEF p

LEMMA InvalidateStep == ConfigInv /\ CommitInvalidates => ConfigInv'
<1> SUFFICES ASSUME ConfigInv, CommitInvalidates PROVE ConfigInv'
  OBVIOUS
<1> DEFINE p == cpu.page
           r == persist[p]
           f == flash[p]
           g == IF r.used = 0 THEN f ELSE [f EXCEPT ![r.used] = [f[r.used] EXCEPT !.mark = "invalid"]]
           a == IF Overrun(p) THEN "erase" ELSE "size"
<1>1. cpu.at = "invalidate" /\ cpu.at \in CommitWrites
  BY DEF CommitInvalidates, CommitWrites
<1>2. p \in {1, 2} /\ Shaped(f) /\ r \in Storages /\ Synced(f, r)
  BY <1>1, Writer DEF Progress
<1>3. flash = [x \in {1, 2} |-> flash[x]] /\ persist = [x \in {1, 2} |-> persist[x]]
  BY DEF ConfigInv
<1>4. flash' = [flash EXCEPT ![p] = g]
  <2>1. CASE r.used = 0
    BY <1>2, <1>3, <2>1 DEF CommitInvalidates, Invalidate
  <2>2. CASE r.used # 0
    BY <1>2, <1>3, <2>2 DEF CommitInvalidates, Invalidate
  <2> QED BY <2>1, <2>2
<1>5. persist' = [persist EXCEPT ![p] = r]
  BY <1>2, <1>3 DEF CommitInvalidates, Invalidate
<1>6. cpu' = [cpu EXCEPT !.at = a] /\ a \in CommitWrites
  BY DEF CommitInvalidates, CommitWrites
<1>7. Shaped(g) /\ Fresh(g, r)
  BY <1>2, InvalidateKeeps
<1>8. Progress(g, r, a)
  <2>1. r.next \in 1 .. Sections + 1
    BY <1>2 DEF Storages
  <2>2. CASE Overrun(p)
    <3>1. a = "erase" /\ r.next = Sections + 1
      BY <2>1, <2>2, SectionsNat DEF Overrun
    <3> HIDE DEF g, f, a, r
    <3> QED BY <1>7, <3>1 DEF Progress
  <2>3. CASE ~Overrun(p)
    <3>1. a = "size" /\ r.next =< Sections
      BY <2>1, <2>3, SectionsNat DEF Overrun
    <3> HIDE DEF g, f, a, r
    <3> QED BY <1>7, <3>1 DEF Progress
  <2> QED BY <2>2, <2>3
<1> HIDE DEF g, a, f, r
<1> QED BY <1>1, <1>2, <1>4, <1>5, <1>6, <1>7, <1>8, NextWrite DEF p

LEMMA EraseStep == ConfigInv /\ CommitErases => ConfigInv'
<1> SUFFICES ASSUME ConfigInv, CommitErases PROVE ConfigInv'
  OBVIOUS
<1> DEFINE p == cpu.page
           r == persist[p]
           g == [n \in 1 .. Sections |-> Erased]
           s == [r EXCEPT !.next = 1]
<1>1. cpu.at = "erase" /\ cpu.at \in CommitWrites /\ "size" \in CommitWrites
  BY DEF CommitErases, CommitWrites
<1>2. p \in {1, 2} /\ r \in Storages
  BY <1>1, Writer
<1>3. persist = [x \in {1, 2} |-> persist[x]]
  BY DEF ConfigInv
<1>4. flash' = [flash EXCEPT ![p] = g] /\ cpu' = [cpu EXCEPT !.at = "size"]
  BY DEF CommitErases, ErasePage
<1>5. persist' = [persist EXCEPT ![p] = s]
  BY <1>2, <1>3 DEF CommitErases, ErasePage
<1>6. Shaped(g) /\ s \in Storages /\ Fresh(g, s) /\ s.next =< Sections
  BY <1>2, EraseKeeps
<1> HIDE DEF g, s, r
<1>7. Progress(g, s, "size")
  BY <1>6 DEF Progress
<1> QED BY <1>1, <1>4, <1>5, <1>6, <1>7, NextWrite DEF p

LEMMA SizeStep == ConfigInv /\ CommitWritesSize => ConfigInv'
<1> SUFFICES ASSUME ConfigInv, CommitWritesSize PROVE ConfigInv'
  OBVIOUS
<1> DEFINE p == cpu.page
           r == persist[p]
           f == flash[p]
           g == [f EXCEPT ![r.next] = Valid(Torn)]
<1>1. cpu.at = "size" /\ cpu.at \in CommitWrites /\ "blob" \in CommitWrites
  BY DEF CommitWritesSize, CommitWrites
<1>2. p \in {1, 2} /\ Shaped(f) /\ r \in Storages /\ Fresh(f, r) /\ r.next =< Sections
  BY <1>1, Writer DEF Progress
<1>3. flash = [x \in {1, 2} |-> flash[x]] /\ persist = [x \in {1, 2} |-> persist[x]]
  BY DEF ConfigInv
<1>4. flash' = [flash EXCEPT ![p] = g] /\ cpu' = [cpu EXCEPT !.at = "blob"]
  BY <1>2, <1>3 DEF CommitWritesSize, WriteSize
<1>5. persist' = [persist EXCEPT ![p] = r]
  BY <1>2, <1>3 DEF CommitWritesSize, WriteSize
<1>6. Shaped(g) /\ ShapeAt(g, r.next) /\ g[r.next].mark = "valid"
  BY <1>2, WriteKeeps
<1> HIDE DEF g, f, r
<1>7. Progress(g, r, "blob")
  BY <1>2, <1>6 DEF Progress
<1> QED BY <1>1, <1>2, <1>4, <1>5, <1>6, <1>7, NextWrite DEF p

LEMMA BlobStep == ConfigInv /\ CommitWritesBlob => ConfigInv'
<1> SUFFICES ASSUME ConfigInv, CommitWritesBlob PROVE ConfigInv'
  OBVIOUS
<1> DEFINE p == cpu.page
           r == persist[p]
           f == flash[p]
           g == [f EXCEPT ![r.next] = Valid(blob[p])]
           s == [used |-> r.next, next |-> r.next + 1]
<1>1. cpu.at = "blob" /\ cpu.at \in CommitWrites
  BY DEF CommitWritesBlob, CommitWrites
<1>2. /\ p \in {1, 2} /\ Shaped(f) /\ r \in Storages
      /\ r.next =< Sections /\ ShapeAt(f, r.next)
  BY <1>1, Writer DEF Progress
<1>3. flash = [x \in {1, 2} |-> flash[x]] /\ persist = [x \in {1, 2} |-> persist[x]]
  BY DEF ConfigInv
<1>4. flash' = [flash EXCEPT ![p] = g]
  BY <1>2, <1>3 DEF CommitWritesBlob, WriteBlob
<1>5. persist' = [persist EXCEPT ![p] = s]
  BY <1>2, <1>3 DEF CommitWritesBlob, WriteBlob
<1>6. Shaped(g) /\ ShapeAt(g, r.next) /\ g[r.next].mark = "valid"
  BY <1>2, WriteKeeps
<1> HIDE DEF g
<1>7. s \in Storages /\ Synced(g, s)
  BY <1>2, <1>6, FollowSyncs
<1> HIDE DEF s
<1>8. /\ flash' = [x \in {1, 2} |-> IF x = p THEN g ELSE flash[x]]
      /\ persist' = [x \in {1, 2} |-> IF x = p THEN s ELSE persist[x]]
  BY <1>3, <1>4, <1>5
<1>9. cpu' = AfterCommit(cpu.stage)
  BY DEF CommitWritesBlob
<1>10. StageOK(cpu') /\ \A x \in {1, 2} : ~Writing(cpu', x)
  BY <1>1, Writer, <1>9 DEF AfterCommit, Stage, Ready, StageOK, Writing, CommitWrites
<1>11. PICK q \in {1, 2} \ {p} : TRUE
  BY <1>2
<1>12. Loaded(cpu', q) => Loaded(cpu, q) /\ ~Writing(cpu, q)
  BY <1>1, <1>2, <1>9, <1>11 DEF ConfigInv, StageOK, AfterCommit, Stage, Ready, Loaded, Writing, CommitWrites
<1> HIDE DEF p, f, r
<1>13. /\ flash' = [x \in {1, 2} |-> flash'[x]] /\ persist' = [x \in {1, 2} |-> persist'[x]]
       /\ flash'[q] = flash[q] /\ persist'[q] = persist[q]
       /\ flash'[p] = g /\ persist'[p] = s
  BY <1>2, <1>8, <1>11
<1>14. PageInv(flash'[p], persist'[p], cpu', p)
  BY <1>2, <1>6, <1>7, <1>10, <1>13 DEF PageInv
<1> QED BY <1>2, <1>10, <1>11, <1>12, <1>13, <1>14, StepOnPage

\* The storage of the first page stays behind; it is read back next.
LEMMA FailStep == ConfigInv /\ BlobWriteFails => ConfigInv'
<1> SUFFICES ASSUME ConfigInv, BlobWriteFails PROVE ConfigInv'
  OBVIOUS
<1>1. cpu' = [stage |-> "verify", at |-> "load", page |-> 1] /\ cpu.stage = "write"
  BY DEF BlobWriteFails, AfterCommit, Stage
<1>2. UNCHANGED <<flash, persist>>
  BY DEF BlobWriteFails, persistVars
<1>3. cpu.page = 1
  BY <1>1 DEF ConfigInv, StageOK
<1>4. StageOK(cpu') /\ ~Loaded(cpu', 1) /\ \A x \in {1, 2} : ~Writing(cpu', x)
  BY <1>1 DEF StageOK, Loaded, Writing, CommitWrites
<1>5. Loaded(cpu, 2) /\ ~Writing(cpu, 2)
  BY <1>1, <1>3 DEF Loaded, Writing
<1>6. PageInv(flash'[1], persist'[1], cpu', 1)
  BY <1>2, <1>4 DEF ConfigInv, PageInv
<1>7. PageInv(flash'[2], persist'[2], cpu', 2)
  BY <1>2, <1>4, <1>5 DEF ConfigInv, PageInv
<1>8. flash' = [p \in {1, 2} |-> flash'[p]] /\ persist' = [p \in {1, 2} |-> persist'[p]]
  BY <1>2 DEF ConfigInv
<1> QED BY <1>4, <1>6, <1>7, <1>8 DEF ConfigInv

\* persist_init of one page, and the stage that follows.
LEMMA LoadStep ==
  ASSUME ConfigInv, NEW p \in {1, 2}, NEW q \in {1, 2} \ {p}, FindSection(p), UNCHANGED flash,
         StageOK(cpu'), Writing(cpu', p) => cpu'.at = "invalidate",
         Loaded(cpu', q) /\ ~Writing(cpu', q) => Loaded(cpu, q) /\ ~Writing(cpu, q),
         Writing(cpu', q) => Loaded(cpu, q) /\ ~Writing(cpu, q) /\ cpu'.at = "invalidate"
  PROVE  ConfigInv'
<1> DEFINE s == IF NothingFound(p) THEN [used |-> 0, next |-> FirstSection(p)]
                ELSE [used |-> FirstSection(p), next |-> FirstSection(p) + 1]
<1>1. Shaped(flash[p])
  BY DEF ConfigInv, PageInv
<1>2. s \in Storages /\ Synced(flash[p], s)
  BY <1>1, FindSyncs
<1>3. flash = [x \in {1, 2} |-> flash[x]] /\ persist = [x \in {1, 2} |-> persist[x]]
  BY DEF ConfigInv
<1>4. persist' = [persist EXCEPT ![p] = s]
  BY DEF FindSection, NothingFound
<1> HIDE DEF s
<1>5. persist' = [x \in {1, 2} |-> IF x = p THEN s ELSE persist[x]]
  BY <1>3, <1>4
<1>6. /\ persist' = [x \in {1, 2} |-> persist'[x]] /\ persist'[q] = persist[q] /\ persist'[p] = s
  BY <1>5
<1>7. PageInv(flash'[p], persist'[p], cpu', p)
  BY <1>1, <1>2, <1>6 DEF PageInv, Progress
<1> QED BY <1>3, <1>6, <1>7, StepOnPage

LEMMA BootLoadsStep == ConfigInv /\ BootLoads => ConfigInv'
<1> SUFFICES ASSUME ConfigInv, BootLoads PROVE ConfigInv'
  OBVIOUS
<1> DEFINE p == cpu.page
<1>1. cpu.at = "load" /\ \/ cpu.stage = "first" /\ p = 1
                         \/ cpu.stage = "second" /\ p = 2
  <2>1. cpu.at = "load" /\ cpu.stage \in {"first", "second"}
    BY DEF BootLoads
  <2>2. StageOK(cpu)
    BY DEF ConfigInv
  <2> QED BY <2>1, <2>2 DEF StageOK, CommitWrites
<1>2. FindSection(p) /\ UNCHANGED flash
  BY DEF BootLoads
<1>3. \/ cpu' = [stage |-> cpu.stage, at |-> "invalidate", page |-> p]
      \/ cpu' = AfterCommit(cpu.stage)
  BY DEF BootLoads, Commit, Stage
<1>4. PICK q \in {1, 2} \ {p} : TRUE
  BY <1>1
<1>5. StageOK(cpu') /\ (Writing(cpu', p) => cpu'.at = "invalidate")
  <2>1. CASE cpu' = [stage |-> cpu.stage, at |-> "invalidate", page |-> p]
    BY <1>1, <2>1 DEF StageOK, CommitWrites
  <2>2. CASE cpu' = AfterCommit(cpu.stage)
    <3>1. \/ cpu' = [stage |-> "second", at |-> "load", page |-> 2]
          \/ cpu' = [stage |-> "compare", at |-> "none", page |-> 1]
      BY <1>1, <2>2 DEF AfterCommit, Stage
    <3> QED BY <3>1 DEF StageOK, Writing, CommitWrites
  <2> QED BY <1>3, <2>1, <2>2
<1>6. ~Writing(cpu', q) /\ ~Writing(cpu, q)
  BY <1>1, <1>3, <1>4 DEF AfterCommit, Stage, Writing, CommitWrites
<1>7. Loaded(cpu', q) => Loaded(cpu, q)
  BY <1>1, <1>3, <1>4 DEF AfterCommit, Stage, Loaded
<1>8. p \in {1, 2}
  BY <1>1
<1> HIDE DEF p
<1> QED BY <1>2, <1>4, <1>5, <1>6, <1>7, <1>8, LoadStep

LEMMA VerifyStep == ConfigInv /\ CommitVerifies => ConfigInv'
<1> SUFFICES ASSUME ConfigInv, CommitVerifies PROVE ConfigInv'
  OBVIOUS
<1>1. cpu.stage = "verify" /\ cpu.at = "load" /\ FindSection(1) /\ UNCHANGED flash
  BY DEF CommitVerifies, ConfigInv, StageOK
<1>2. \/ cpu' = [stage |-> "mirror", at |-> "invalidate", page |-> 2]
      \/ cpu' = [stage |-> "restore", at |-> "invalidate", page |-> 1]
  BY DEF CommitVerifies, Commit, Stage
<1>3. StageOK(cpu') /\ cpu'.at = "invalidate"
  BY <1>2 DEF StageOK, CommitWrites
<1>4. Loaded(cpu, 2) /\ ~Writing(cpu, 2)
  BY <1>1 DEF Loaded, Writing, CommitWrites
<1>5. 1 \in {1, 2} /\ 2 \in {1, 2} \ {1}
  OBVIOUS
<1> QED BY <1>1, <1>3, <1>4, <1>5, LoadStep

\* A stage that touches neither page: both are loaded, and none is being written.
LEMMA StageStep ==
  ASSUME ConfigInv, UNCHANGED <<flash, persist>>, StageOK(cpu'),
         \A p \in {1, 2} : /\ Loaded(cpu', p) => Loaded(cpu, p)
                           /\ ~Writing(cpu, p)
                           /\ Writing(cpu', p) => Loaded(cpu, p) /\ cpu'.at = "invalidate"
  PROVE  ConfigInv'
<1>1. ASSUME NEW p \in {1, 2} PROVE PageInv(flash'[p], persist'[p], cpu', p)
  BY <1>1 DEF ConfigInv, PageInv, Progress
<1> QED BY <1>1 DEF ConfigInv

LEMMA ConfigInvNext == ConfigInv /\ [ConfigNext]_configVars => ConfigInv'
<1> SUFFICES ASSUME ConfigInv, [ConfigNext]_configVars PROVE ConfigInv'
  OBVIOUS
<1>1. CASE BootCompares
  <2>1. UNCHANGED <<flash, persist>>
    BY <1>1 DEF BootCompares
  <2>2. cpu.stage = "compare" /\ cpu.at = "none"
    BY <1>1 DEF BootCompares, ConfigInv, StageOK
  <2>3. \/ \E p \in {1, 2} : cpu' = [stage |-> "repair", at |-> "invalidate", page |-> p]
        \/ cpu' = [stage |-> "ready", at |-> "none", page |-> 1]
    BY <1>1 DEF BootCompares, Repair, Commit, Stage, Ready
  <2>4. StageOK(cpu') /\ cpu'.at \in {"invalidate", "none"}
    BY <2>3 DEF StageOK, CommitWrites
  <2>5. \A p \in {1, 2} : Loaded(cpu, p) /\ ~Writing(cpu, p)
    BY <2>2 DEF Loaded, Writing, CommitWrites
  <2>6. \A p \in {1, 2} : Writing(cpu', p) => cpu'.at = "invalidate"
    BY <2>4 DEF Writing, CommitWrites
  <2> QED BY <2>1, <2>4, <2>5, <2>6, StageStep
<1>2. ASSUME NEW id \in BoardIds, ConfigCommit(id) PROVE ConfigInv'
  <2>1. UNCHANGED <<flash, persist>> /\ cpu.stage = "ready" /\ cpu.at = "none"
    BY <1>2 DEF ConfigCommit, Ready, Stage
  <2>2. cpu' = [stage |-> "write", at |-> "invalidate", page |-> 1]
    BY <1>2 DEF ConfigCommit, Commit, Stage
  <2>3. StageOK(cpu') /\ cpu'.at = "invalidate"
    BY <2>2 DEF StageOK, CommitWrites
  <2>4. \A p \in {1, 2} : Loaded(cpu, p) /\ ~Writing(cpu, p)
    BY <2>1 DEF Loaded, Writing, CommitWrites
  <2> QED BY <2>1, <2>3, <2>4, StageStep
<1>3. CASE PowerLost
  <2>1. UNCHANGED flash /\ cpu' = [stage |-> "first", at |-> "load", page |-> 1]
    BY <1>3 DEF PowerLost, Boots, Stage
  <2>2. /\ persist' = [p \in {1, 2} |-> [used |-> 0, next |-> 1]]
        /\ \A p \in {1, 2} : persist'[p] \in Storages
    BY <1>3, ConfigAssumption, SectionsNat DEF PowerLost, Boots, Storages
  <2>3. StageOK(cpu') /\ \A p \in {1, 2} : ~Loaded(cpu', p) /\ ~Writing(cpu', p)
    BY <2>1 DEF StageOK, Loaded, Writing, CommitWrites
  <2>4. \A p \in {1, 2} : PageInv(flash'[p], persist'[p], cpu', p)
    BY <2>1, <2>2, <2>3 DEF ConfigInv, PageInv
  <2> QED BY <2>1, <2>2, <2>3, <2>4 DEF ConfigInv
<1>4. CASE UNCHANGED configVars
  <2>1. UNCHANGED <<flash, persist, cpu>>
    BY <1>4 DEF configVars, persistVars
  <2> QED BY <2>1 DEF ConfigInv
<1> QED
  BY <1>1, <1>2, <1>3, <1>4, InvalidateStep, EraseStep, SizeStep, BlobStep, FailStep, BootLoadsStep,
     VerifyStep DEF ConfigNext

\* No page ever holds two valid sections, so the one found first is the one written last: for every
\* number of sections in a page, of boards and of losses of power (persist.c:10-11).
THEOREM NeverTwoValidSections == ConfigSpec => []OneValidSection
<1>1. ConfigInit => ConfigInv
  BY ConfigInitInv
<1>2. ConfigInv /\ [ConfigNext]_configVars => ConfigInv'
  BY ConfigInvNext
<1>3. ConfigInv => OneValidSection
  <2> SUFFICES ASSUME ConfigInv, NEW p \in {1, 2}, NEW m \in 1 .. Sections, NEW n \in 1 .. Sections,
                      flash[p][m].mark = "valid", flash[p][n].mark = "valid"
               PROVE  m = n
    BY ConfigAssumption DEF OneValidSection
  <2>1. PICK k \in 1 .. Sections + 1 : ShapeAt(flash[p], k)
    BY DEF ConfigInv, PageInv, Shaped
  <2>2. m = k
    BY <2>1, SectionsNat DEF ShapeAt
  <2>3. n = k
    BY <2>1, SectionsNat DEF ShapeAt
  <2> QED BY <2>2, <2>3
<1> QED BY <1>1, <1>2, <1>3, PTL DEF ConfigSpec

-----------------------------------------------------------------------------
(* What the two pages hold                                                  *)

\* What persist_init finds in a page: nothing, or a section with the blob b.
Empty(f) == \E k \in 1 .. Sections + 1 : ShapeAt(f, k) /\ (k =< Sections => f[k].mark = "erased")
Holds(f, b) == \E k \in 1 .. Sections : ShapeAt(f, k) /\ f[k].mark = "valid" /\ f[k].blob = b
Blank(f) == Empty(f) \/ Holds(f, Torn)

AnyBlob == Blobs \cup {Torn}
BlobsTyped(f) == \A n \in 1 .. Sections : f[n].blob \in AnyBlob

Typed ==
  /\ \A p \in {1, 2} : BlobsTyped(flash[p])
  /\ blob \in [{1, 2} -> AnyBlob]
  /\ kept \in [last : AnyBlob, new : AnyBlob]
  /\ losses \in 0 .. LossMax /\ harm \subseteq {"failure", "sum", "unmirrored"}

Good(c) == c \in ConfigBlobs /\ c.sum = Sum(c)
Known(v) == v = kept.last \/ v = kept.new
Newer(f) == \E v \in {kept.last, kept.new} : Holds(f, v)

\* Before the first config is given to a board.
Virgin == kept.last = DefaultConfig /\ kept.new = DefaultConfig
Either == Newer(flash[2]) \/ (Newer(flash[1]) /\ Holds(flash[2], Torn))

\* config_init: the defaults are written only where nothing was found.
BootData ==
  /\ cpu.stage = "first" => blob[1] = DefaultConfig /\ blob[2] = DefaultConfig
  /\ cpu.stage = "first" /\ cpu.at = "load" => Either \/ (Virgin /\ Empty(flash[1]) /\ Empty(flash[2]))
  /\ cpu.stage = "first" /\ cpu.at # "load" => Newer(flash[2]) \/ (Virgin /\ Empty(flash[2]))
  /\ cpu.stage = "second" => Holds(flash[1], blob[1]) /\ blob[2] = DefaultConfig
  /\ cpu.stage = "second" /\ cpu.at = "load" =>
       Either \/ (Virgin /\ blob[1] = DefaultConfig /\ Empty(flash[2]))
  /\ cpu.stage = "second" /\ cpu.at # "load" => Virgin /\ blob[1] = DefaultConfig /\ Blank(flash[2])
  /\ cpu.stage = "compare" =>
       /\ Holds(flash[1], blob[1]) /\ Holds(flash[2], blob[2])
       /\ Known(blob[2]) \/ (Known(blob[1]) /\ blob[2] = Torn)
  /\ cpu.stage = "repair" => blob[1] = blob[2] /\ Known(blob[1])
  /\ cpu.stage = "repair" /\ cpu.page = 1 => Holds(flash[2], blob[1])
  /\ cpu.stage = "repair" /\ cpu.page = 2 => Holds(flash[1], blob[1]) /\ Blank(flash[2])

\* config_commit: the first page is written while the second one holds the config before.
CommitData ==
  /\ cpu.stage \in {"write", "verify"} =>
       blob[1] = kept.new /\ blob[2] = kept.last /\ Holds(flash[2], kept.last)
  /\ cpu.stage = "write" /\ cpu.at = "blob" => Holds(flash[1], Torn)
  /\ cpu.stage = "verify" => Holds(flash[1], Torn) \/ Holds(flash[1], kept.new)
  /\ cpu.stage = "mirror" =>
       /\ blob[1] = kept.new /\ blob[2] = kept.new /\ Holds(flash[1], kept.new)
       /\ Newer(flash[2]) \/ Blank(flash[2])
  /\ cpu.stage = "restore" => blob[1] = kept.last /\ blob[2] = kept.last /\ Holds(flash[2], kept.last)
  /\ cpu.stage = "ready" =>
       blob[1] = blob[2] /\ Known(blob[1]) /\ Holds(flash[1], blob[1]) /\ Holds(flash[2], blob[1])

DataInv == Good(kept.last) /\ Good(kept.new) /\ BootData /\ CommitData

SurviveInv == ConfigInv /\ Typed /\ (~Spoilt => DataInv)

-----------------------------------------------------------------------------
(* What a page holds, from its shape                                        *)

LEMMA ShapeOnce ==
  ASSUME NEW f, NEW k, NEW n, ShapeAt(f, k), ShapeAt(f, n)
  PROVE  k = n
<1>1. ASSUME NEW x, NEW y, ShapeAt(f, x), ShapeAt(f, y), x < y PROVE FALSE
  <2>1. x \in 1 .. Sections /\ x =< Sections
    BY <1>1, SectionsNat DEF ShapeAt
  <2>2. f[x].mark = "invalid"
    BY <1>1, <2>1 DEF ShapeAt
  <2>3. f[x].mark \in {"erased", "valid"}
    BY <1>1, <2>1 DEF ShapeAt
  <2> QED BY <2>2, <2>3
<1>2. k \in Int /\ n \in Int
  BY SectionsNat DEF ShapeAt
<1>3. ~(k < n) /\ ~(n < k)
  BY <1>1
<1> QED BY <1>2, <1>3

\* A page holds one blob or none.
LEMMA HoldsOne ==
  ASSUME NEW f, NEW b, Holds(f, b)
  PROVE  ~Empty(f) /\ \A c : Holds(f, c) => c = b
<1>1. PICK k \in 1 .. Sections : ShapeAt(f, k) /\ f[k].mark = "valid" /\ f[k].blob = b
  BY DEF Holds
<1>2. ~Empty(f)
  <2>1. SUFFICES ASSUME NEW n \in 1 .. Sections + 1, ShapeAt(f, n), n =< Sections => f[n].mark = "erased"
                 PROVE  FALSE
    BY DEF Empty
  <2>2. n = k
    BY <1>1, <2>1, ShapeOnce
  <2> QED BY <1>1, <2>1, <2>2, SectionsNat
<1>3. ASSUME NEW c, Holds(f, c) PROVE c = b
  <2>1. PICK n \in 1 .. Sections : ShapeAt(f, n) /\ f[n].blob = c
    BY <1>3 DEF Holds
  <2> QED BY <1>1, <2>1, ShapeOnce
<1> QED BY <1>2, <1>3

LEMMA FreshEmpty ==
  ASSUME NEW f, NEW r \in Storages, Fresh(f, r)
  PROVE  Empty(f)
<1>1. r.next \in 1 .. Sections + 1 /\ ShapeAt(f, r.next)
  BY FreshShape DEF Storages
<1>2. r.next =< Sections => f[r.next].mark = "erased"
  BY <1>1, SectionsNat DEF Fresh
<1> QED BY <1>1, <1>2 DEF Empty

LEMMA WrittenHolds ==
  ASSUME NEW g, NEW k \in 1 .. Sections, ShapeAt(g, k), NEW b, g[k] = Valid(b)
  PROVE  Holds(g, b)
BY DEF Holds, Valid

\* What persist_init finds.
LEMMA FoundHolds ==
  ASSUME NEW p, Shaped(flash[p])
  PROVE  /\ NothingFound(p) <=> Empty(flash[p])
         /\ ~NothingFound(p) => Holds(flash[p], Section(p, FirstSection(p)).blob)
<1> DEFINE n == FirstSection(p)
           f == flash[p]
<1>1. ShapeAt(f, n)
  BY FirstIsShape
<1>2. n \in 1 .. Sections => Section(p, n) = f[n]
  BY DEF Section
<1>3. n = Sections + 1 => Section(p, n).mark = "erased"
  BY SectionsNat, ErasedAndValid DEF Section
<1>4. NothingFound(p) <=> Section(p, n).mark = "erased"
  BY DEF NothingFound
<1> HIDE DEF n, f
<1>5. n \in 1 .. Sections + 1
  BY <1>1 DEF ShapeAt
<1>6. NothingFound(p) => Empty(f)
  BY <1>1, <1>2, <1>4, <1>5, SectionsNat DEF Empty
<1>7. ASSUME ~NothingFound(p) PROVE Holds(f, Section(p, n).blob)
  <2>1. n \in 1 .. Sections /\ n =< Sections
    BY <1>3, <1>4, <1>5, <1>7, SectionsNat
  <2>2. f[n].mark = "valid"
    BY <1>1, <1>2, <1>4, <1>7, <2>1 DEF ShapeAt
  <2> QED BY <1>1, <1>2, <2>1, <2>2 DEF Holds
<1>8. Empty(f) => NothingFound(p)
  BY <1>7, HoldsOne
<1> QED BY <1>6, <1>7, <1>8 DEF n, f

-----------------------------------------------------------------------------
(* Each action of config_init and config_commit                             *)

\* A write that is not the last one of its commit.
LEMMA InnerWriteData ==
  ASSUME DataInv, StageOK(cpu), cpu.at \in CommitWrites,
         cpu'.stage = cpu.stage, cpu'.page = cpu.page, cpu'.at \in CommitWrites, UNCHANGED <<blob, kept>>,
         \A q \in {1, 2} : q # cpu.page => flash'[q] = flash[q],
         Blank(flash'[cpu.page]), cpu'.at = "blob" => Holds(flash'[cpu.page], Torn)
  PROVE  DataInv'
<1>1. Good(kept.last)' /\ Good(kept.new)'
  BY DEF DataInv, Good
<1>2. CASE cpu.page = 1
  <2>1. flash'[2] = flash[2] /\ cpu.stage \in {"first", "write", "restore", "repair"} /\ cpu'.at # "load"
    BY <1>2 DEF StageOK, CommitWrites
  <2>2. BootData'
    BY <1>2, <2>1 DEF DataInv, BootData, Virgin, Newer, Known, CommitWrites
  <2>3. CommitData'
    BY <1>2, <2>1 DEF DataInv, CommitData
  <2> QED BY <1>1, <2>2, <2>3 DEF DataInv
<1>3. CASE cpu.page = 2
  <2>1. flash'[1] = flash[1] /\ cpu.stage \in {"second", "mirror", "repair"} /\ cpu'.at # "load"
    BY <1>3 DEF StageOK, CommitWrites
  <2>2. BootData'
    BY <1>3, <2>1 DEF DataInv, BootData, Virgin, Known, CommitWrites
  <2>3. CommitData'
    BY <1>3, <2>1 DEF DataInv, CommitData
  <2> QED BY <1>1, <2>2, <2>3 DEF DataInv
<1> QED BY <1>2, <1>3 DEF StageOK, CommitWrites

\* The blob of a commit is written, and the caller goes on.
LEMMA BlobData ==
  ASSUME DataInv, StageOK(cpu), CommitWritesBlob,
         \A q \in {1, 2} : q # cpu.page => flash'[q] = flash[q],
         Holds(flash'[cpu.page], blob[cpu.page]), kept = [last |-> kept.last, new |-> kept.new]
  PROVE  DataInv'
<1>1. cpu.at = "blob" /\ cpu' = AfterCommit(cpu.stage) /\ UNCHANGED blob
  BY DEF CommitWritesBlob, WriteBlob
<1>2. cpu.stage \notin {"mirror", "restore"} => UNCHANGED kept
  BY DEF CommitWritesBlob
<1>3. CASE cpu.stage = "first"
  <2>1. /\ cpu'.stage = "second" /\ cpu'.at = "load" /\ UNCHANGED kept
        /\ flash'[2] = flash[2] /\ Holds(flash'[1], blob[1])
    BY <1>1, <1>2, <1>3 DEF AfterCommit, Stage, StageOK, CommitWrites
  <2>2. BootData'
    BY <1>1, <1>3, <2>1 DEF DataInv, BootData, Virgin, Newer, Either
  <2>3. CommitData'
    BY <2>1 DEF CommitData
  <2> QED BY <2>1, <2>2, <2>3 DEF DataInv, Good
<1>4. CASE cpu.stage = "second"
  <2>1. /\ cpu'.stage = "compare" /\ UNCHANGED kept
        /\ flash'[1] = flash[1] /\ Holds(flash'[2], blob[2])
    BY <1>1, <1>2, <1>4 DEF AfterCommit, Stage, StageOK, CommitWrites
  <2>2. BootData'
    BY <1>1, <1>4, <2>1 DEF DataInv, BootData, Virgin, Known
  <2>3. CommitData'
    BY <2>1 DEF CommitData
  <2> QED BY <2>1, <2>2, <2>3 DEF DataInv, Good
<1>5. CASE cpu.stage = "repair"
  <2>1. cpu'.stage = "ready" /\ UNCHANGED kept
    BY <1>1, <1>2, <1>5 DEF AfterCommit, Stage, Ready
  <2>2. Holds(flash'[1], blob[1]) /\ Holds(flash'[2], blob[1])
    BY <1>1, <1>5 DEF DataInv, BootData, StageOK, CommitWrites
  <2>3. BootData'
    BY <2>1 DEF BootData
  <2>4. CommitData'
    BY <1>1, <1>5, <2>1, <2>2 DEF DataInv, BootData, CommitData, Known
  <2> QED BY <2>1, <2>3, <2>4 DEF DataInv, Good
<1>6. CASE cpu.stage = "write"
  <2>1. cpu'.stage = "verify" /\ UNCHANGED kept /\ flash'[2] = flash[2] /\ Holds(flash'[1], blob[1])
    BY <1>1, <1>2, <1>6 DEF AfterCommit, Stage, StageOK, CommitWrites
  <2>2. BootData'
    BY <2>1 DEF BootData
  <2>3. CommitData'
    BY <1>1, <1>6, <2>1 DEF DataInv, CommitData
  <2> QED BY <2>1, <2>2, <2>3 DEF DataInv, Good
<1>7. CASE cpu.stage = "mirror"
  <2>1. /\ cpu'.stage = "ready" /\ kept' = [kept EXCEPT !.last = kept.new]
        /\ flash'[1] = flash[1] /\ Holds(flash'[2], blob[2])
    BY <1>1, <1>7 DEF CommitWritesBlob, AfterCommit, Stage, Ready, StageOK, CommitWrites
  <2>2. kept'.last = kept.new /\ kept'.new = kept.new
    BY <2>1
  <2>3. BootData'
    BY <2>1 DEF BootData
  <2>4. CommitData'
    BY <1>1, <1>7, <2>1, <2>2 DEF DataInv, CommitData, Known
  <2> QED BY <2>2, <2>3, <2>4 DEF DataInv, Good
<1>8. CASE cpu.stage = "restore"
  <2>1. /\ cpu'.stage = "ready" /\ kept' = [kept EXCEPT !.new = kept.last]
        /\ flash'[2] = flash[2] /\ Holds(flash'[1], blob[1])
    BY <1>1, <1>8 DEF CommitWritesBlob, AfterCommit, Stage, Ready, StageOK, CommitWrites
  <2>2. kept'.last = kept.last /\ kept'.new = kept.last
    BY <2>1
  <2>3. BootData'
    BY <2>1 DEF BootData
  <2>4. CommitData'
    BY <1>1, <1>8, <2>1, <2>2 DEF DataInv, CommitData, Known
  <2> QED BY <2>2, <2>3, <2>4 DEF DataInv, Good
<1> QED BY <1>1, <1>3, <1>4, <1>5, <1>6, <1>7, <1>8 DEF StageOK, CommitWrites

LEMMA FailureData ==
  ASSUME DataInv, BlobWriteFails
  PROVE  DataInv'
<1>1. /\ cpu.stage = "write" /\ cpu.at = "blob" /\ cpu'.stage = "verify" /\ cpu'.at = "load"
      /\ UNCHANGED <<flash, blob, kept>>
  BY DEF BlobWriteFails, persistVars, AfterCommit, Stage
<1>2. BootData'
  BY <1>1 DEF BootData
<1>3. CommitData'
  BY <1>1 DEF DataInv, CommitData
<1> QED BY <1>1, <1>2, <1>3 DEF DataInv, Good

\* persist_init at boot: only a page where nothing is found is written.
LEMMA LoadsData ==
  ASSUME DataInv, ConfigInv, Typed, BootLoads
  PROVE  DataInv'
<1> DEFINE v(p) == Section(p, FirstSection(p)).blob
<1>1. cpu.at = "load" /\ ((cpu.stage = "first" /\ cpu.page = 1) \/ (cpu.stage = "second" /\ cpu.page = 2))
  <2>1. cpu.at = "load" /\ cpu.stage \in {"first", "second"}
    BY DEF BootLoads
  <2> QED BY <2>1 DEF ConfigInv, StageOK, CommitWrites
<1>2. UNCHANGED <<flash, kept>> /\ LoadBlob(cpu.page)
  BY DEF BootLoads
<1>3. \A p \in {1, 2} : Shaped(flash[p])
  BY DEF ConfigInv, PageInv
<1>4. \A p \in {1, 2} : /\ NothingFound(p) <=> Empty(flash[p])
                        /\ ~NothingFound(p) => Holds(flash[p], v(p))
  BY <1>3, FoundHolds
<1>5. blob = [p \in {1, 2} |-> blob[p]]
  BY DEF Typed
<1> HIDE DEF v
<1>6. Good(kept.last)' /\ Good(kept.new)'
  BY <1>2 DEF DataInv, Good
<1>7. CASE cpu.stage = "first" /\ NothingFound(1)
  <2>1. Empty(flash[1])
    BY <1>4, <1>7
  <2>2. cpu'.stage = "first" /\ cpu'.at = "invalidate" /\ UNCHANGED blob
    BY <1>1, <1>2, <1>7 DEF BootLoads, Commit, Stage, LoadBlob
  <2>3. ~Newer(flash[1])
    BY <2>1, HoldsOne DEF Newer
  <2>4. BootData'
    BY <1>1, <1>2, <1>7, <2>2, <2>3 DEF DataInv, BootData, Either, Virgin, Newer
  <2>5. CommitData'
    BY <2>2 DEF CommitData
  <2> QED BY <1>6, <2>4, <2>5 DEF DataInv
<1>8. CASE cpu.stage = "first" /\ ~NothingFound(1)
  <2>1. Holds(flash[1], v(1)) /\ ~Empty(flash[1])
    BY <1>4, <1>8
  <2>2. cpu'.stage = "second" /\ cpu'.at = "load"
    BY <1>1, <1>8 DEF BootLoads, AfterCommit, Stage
  <2>3. blob' = [blob EXCEPT ![1] = v(1)]
    BY <1>1, <1>2, <1>8 DEF LoadBlob, v
  <2>4. blob'[1] = v(1) /\ blob'[2] = blob[2]
    BY <1>5, <2>3
  <2>5. BootData'
    BY <1>1, <1>2, <1>8, <2>1, <2>2, <2>4 DEF DataInv, BootData, Either, Virgin, Newer
  <2>6. CommitData'
    BY <2>2 DEF CommitData
  <2> QED BY <1>6, <2>5, <2>6 DEF DataInv
<1>9. CASE cpu.stage = "second" /\ NothingFound(2)
  <2>1. Empty(flash[2])
    BY <1>4, <1>9
  <2>2. cpu'.stage = "second" /\ cpu'.at = "invalidate" /\ UNCHANGED blob
    BY <1>1, <1>2, <1>9 DEF BootLoads, Commit, Stage, LoadBlob
  <2>3. ~Newer(flash[2]) /\ ~Holds(flash[2], Torn)
    BY <2>1, HoldsOne DEF Newer
  <2>4. BootData'
    BY <1>1, <1>2, <1>9, <2>1, <2>2, <2>3 DEF DataInv, BootData, Either, Virgin, Blank
  <2>5. CommitData'
    BY <2>2 DEF CommitData
  <2> QED BY <1>6, <2>4, <2>5 DEF DataInv
<1>10. CASE cpu.stage = "second" /\ ~NothingFound(2)
  <2>1. Holds(flash[2], v(2)) /\ ~Empty(flash[2])
    BY <1>4, <1>10
  <2>2. cpu'.stage = "compare"
    BY <1>1, <1>10 DEF BootLoads, AfterCommit, Stage
  <2>3. blob' = [blob EXCEPT ![2] = v(2)]
    BY <1>1, <1>2, <1>10 DEF LoadBlob, v
  <2>4. blob'[2] = v(2) /\ blob'[1] = blob[1]
    BY <1>5, <2>3
  <2>5. \A c \in {kept.last, kept.new, Torn} : Holds(flash[2], c) => c = v(2)
    BY <2>1, HoldsOne
  <2>6. Holds(flash[1], blob[1])
    BY <1>10 DEF DataInv, BootData
  <2>7. \A c \in {kept.last, kept.new} : Holds(flash[1], c) => c = blob[1]
    BY <2>6, HoldsOne
  <2>8. Either
    BY <1>1, <1>10, <2>1 DEF DataInv, BootData
  <2>9. BootData'
    BY <1>2, <2>1, <2>2, <2>4, <2>5, <2>6, <2>7, <2>8 DEF BootData, Either, Newer, Known
  <2>10. CommitData'
    BY <2>2 DEF CommitData
  <2> QED BY <1>6, <2>9, <2>10 DEF DataInv
<1> QED BY <1>1, <1>7, <1>8, <1>9, <1>10

\* The two pages compared at boot.  Equal checksums of what is not corrupted mean equal configs.
LEMMA CompareData ==
  ASSUME DataInv, Typed, BootCompares
  PROVE  DataInv'
<1>1. cpu.stage = "compare" /\ UNCHANGED <<flash, kept>>
  BY DEF BootCompares
<1>2. /\ Holds(flash[1], blob[1]) /\ Holds(flash[2], blob[2])
      /\ Known(blob[2]) \/ (Known(blob[1]) /\ blob[2] = Torn)
  BY <1>1 DEF DataInv, BootData
<1>3. \A p \in {1, 2} : Known(blob[p]) => Good(blob[p])
  BY DEF DataInv, Known
<1>4. Torn \notin ConfigBlobs
  BY PersistAssumption, ConfigAssumption
<1>5. \A p \in {1, 2} : Good(blob[p]) => ~Corrupted(p)
  BY <1>4 DEF Good, Corrupted
<1>6. blob = [p \in {1, 2} |-> blob[p]] /\ blob[1] \in ConfigBlobs \cup {Torn}
  BY ConfigAssumption DEF Typed, AnyBlob
<1>7. Good(kept.last)' /\ Good(kept.new)'
  BY <1>1 DEF DataInv, Good
<1>8. CASE Repair(2, 1) /\ Corrupted(2)
  <2>1. Known(blob[1]) /\ blob[2] = Torn
    BY <1>2, <1>3, <1>5, <1>8
  <2>2. blob'[1] = blob[1] /\ blob'[2] = blob[1] /\ cpu'.stage = "repair" /\ cpu'.page = 2
    BY <1>6, <1>8 DEF Repair, Commit, Stage
  <2>3. BootData'
    BY <1>1, <1>2, <2>1, <2>2 DEF BootData, Known, Blank
  <2>4. CommitData'
    BY <2>2 DEF CommitData
  <2> QED BY <1>7, <2>3, <2>4 DEF DataInv
<1>9. CASE Repair(1, 2) /\ ~Corrupted(2)
  <2>1. Known(blob[2])
    BY <1>2, <1>9 DEF Corrupted
  <2>2. blob'[1] = blob[2] /\ blob'[2] = blob[2] /\ cpu'.stage = "repair" /\ cpu'.page = 1
    BY <1>6, <1>9 DEF Repair, Commit, Stage
  <2>3. BootData'
    BY <1>1, <1>2, <2>1, <2>2 DEF BootData, Known
  <2>4. CommitData'
    BY <2>2 DEF CommitData
  <2> QED BY <1>7, <2>3, <2>4 DEF DataInv
<1>10. CASE /\ cpu' = Ready /\ UNCHANGED blob
            /\ ~(Corrupted(2) /\ ~Corrupted(1))
            /\ ~(~Corrupted(2) /\ (Corrupted(1) \/ blob[1].sum # blob[2].sum))
  <2>1. ~Corrupted(2) /\ ~Corrupted(1) /\ blob[1].sum = blob[2].sum
    BY <1>2, <1>3, <1>5, <1>10
  <2>2. Known(blob[2])
    BY <1>2, <2>1 DEF Corrupted
  <2>3. blob[1] \in ConfigBlobs /\ blob[2] \in ConfigBlobs
    BY <1>3, <1>6, <2>1, <2>2 DEF Corrupted, Good
  <2>4. blob[1].sum = <<blob[1].id, blob[1].app>> /\ blob[2].sum = <<blob[2].id, blob[2].app>>
    BY <2>1 DEF Corrupted, Sum
  <2>5. blob[1].id = blob[2].id /\ blob[1].app = blob[2].app
    <3>1. ASSUME NEW i, NEW j, NEW a, NEW b, <<i, a>> = <<j, b>> PROVE i = j /\ a = b
      BY <3>1
    <3>2. <<blob[1].id, blob[1].app>> = <<blob[2].id, blob[2].app>>
      BY <2>1, <2>4
    <3> QED BY <3>1, <3>2
  <2>6. ASSUME NEW c \in ConfigBlobs PROVE c = [id |-> c.id, app |-> c.app, sum |-> c.sum]
    BY <2>6 DEF ConfigBlobs, Summed
  <2>7. blob[1] = blob[2]
    <3>1. /\ blob[1] = [id |-> blob[1].id, app |-> blob[1].app, sum |-> blob[1].sum]
          /\ blob[2] = [id |-> blob[2].id, app |-> blob[2].app, sum |-> blob[2].sum]
      BY <2>3, <2>6
    <3> QED BY <2>1, <2>5, <3>1
  <2>8. cpu'.stage = "ready"
    BY <1>10 DEF Ready, Stage
  <2>9. BootData'
    BY <2>8 DEF BootData
  <2>10. CommitData'
    BY <1>1, <1>2, <1>10, <2>2, <2>7, <2>8 DEF CommitData, Known
  <2> QED BY <1>7, <2>9, <2>10 DEF DataInv
<1>11. \/ Corrupted(2) /\ ~Corrupted(1) /\ Repair(2, 1)
       \/ ~Corrupted(2) /\ (Corrupted(1) \/ blob[1].sum # blob[2].sum) /\ Repair(1, 2)
       \/ /\ cpu' = Ready /\ UNCHANGED blob
          /\ ~(Corrupted(2) /\ ~Corrupted(1))
          /\ ~(~Corrupted(2) /\ (Corrupted(1) \/ blob[1].sum # blob[2].sum))
  BY DEF BootCompares
<1> QED BY <1>8, <1>9, <1>10, <1>11

\* A config whose checksum is that of the config it replaces spoils it; any other one is good.
LEMMA CommitStarts ==
  ASSUME DataInv, Typed, NEW id \in BoardIds, ConfigCommit(id), "sum" \notin harm'
  PROVE  DataInv'
<1> DEFINE input == Summed(id, Measured, <<id, AppOf(blob[1])>>)
<1>1. AppOf(blob[1]) = Measured
  BY DEF ConfigCommit
<1>2. input.id = id /\ input.app = Measured /\ input.sum = <<id, Measured>>
  BY <1>1 DEF Summed
<1>3. input \in ConfigBlobs
  BY <1>1 DEF ConfigBlobs
<1>4. Good(input)
  BY <1>2, <1>3 DEF Good, Sum
<1>5. cpu.stage = "ready" /\ UNCHANGED flash /\ cpu'.stage = "write" /\ cpu'.at = "invalidate"
  BY DEF ConfigCommit, Ready, Stage, Commit
<1>6. blob' = [blob EXCEPT ![1] = input] /\ kept' = [last |-> blob[1], new |-> input]
  BY DEF ConfigCommit
<1> HIDE DEF input
<1>7. blob = [p \in {1, 2} |-> blob[p]]
  BY DEF Typed
<1>8. blob'[1] = input /\ blob'[2] = blob[2] /\ kept'.last = blob[1] /\ kept'.new = input
  BY <1>6, <1>7
<1>9. blob[1] = blob[2] /\ Known(blob[1]) /\ Holds(flash[2], blob[1])
  BY <1>5 DEF DataInv, CommitData
<1>10. Good(kept.last)' /\ Good(kept.new)'
  BY <1>4, <1>8, <1>9 DEF DataInv, Good, Known
<1>11. BootData'
  BY <1>5 DEF BootData
<1>12. CommitData'
  BY <1>5, <1>8, <1>9 DEF CommitData
<1> QED BY <1>10, <1>11, <1>12 DEF DataInv

LEMMA VerifyData ==
  ASSUME DataInv, ConfigInv, Typed, CommitVerifies
  PROVE  DataInv'
<1> DEFINE read == Section(1, FirstSection(1)).blob
<1>1. cpu.stage = "verify" /\ UNCHANGED <<flash, kept>>
  BY DEF CommitVerifies
<1>2. /\ blob[1] = kept.new /\ blob[2] = kept.last /\ Holds(flash[2], kept.last)
      /\ Holds(flash[1], Torn) \/ Holds(flash[1], kept.new)
  BY <1>1 DEF DataInv, CommitData
<1>3. Shaped(flash[1])
  BY DEF ConfigInv, PageInv
<1>4. ~Empty(flash[1])
  BY <1>2, HoldsOne
<1>5. Holds(flash[1], read)
  BY <1>3, <1>4, FoundHolds
<1>6. Good(kept.last)' /\ Good(kept.new)'
  BY <1>1 DEF DataInv, Good
<1>7. CASE read = kept.new
  <2>1. blob' = [p \in FlashPages |-> read] /\ cpu'.stage = "mirror"
    BY <1>7 DEF CommitVerifies, Commit, Stage
  <2> HIDE DEF read
  <2>2. blob'[1] = kept.new /\ blob'[2] = kept.new
    BY <1>7, <2>1, ConfigAssumption
  <2>3. BootData'
    BY <2>1 DEF BootData
  <2>4. CommitData'
    BY <1>1, <1>2, <1>5, <1>7, <2>1, <2>2 DEF CommitData, Newer
  <2> QED BY <1>6, <2>3, <2>4 DEF DataInv
<1>8. CASE read # kept.new
  <2>1. blob' = [blob EXCEPT ![1] = blob[2]] /\ cpu'.stage = "restore"
    BY <1>8 DEF CommitVerifies, Commit, Stage
  <2>2. blob = [p \in {1, 2} |-> blob[p]]
    BY DEF Typed
  <2>3. blob'[1] = kept.last /\ blob'[2] = kept.last
    BY <1>2, <2>1, <2>2
  <2>4. BootData'
    BY <2>1 DEF BootData
  <2>5. CommitData'
    BY <1>1, <1>2, <2>1, <2>3 DEF CommitData
  <2> QED BY <1>6, <2>4, <2>5 DEF DataInv
<1> QED BY <1>7, <1>8

\* Wherever the power is lost, the second page has a known config, or the first one has and the
\* second is torn.
LEMMA EitherSurvives ==
  ASSUME DataInv, StageOK(cpu), ~Empty(flash[2])
  PROVE  Either
<1>1. \A b : Newer(flash[2]) => Either
  BY DEF Either
<1>2. CASE cpu.stage = "first"
  BY <1>2 DEF DataInv, BootData, Either
<1>3. CASE cpu.stage = "second"
  <2>1. CASE cpu.at = "load"
    BY <1>3, <2>1 DEF DataInv, BootData
  <2>2. CASE cpu.at # "load"
    BY <1>3, <2>2 DEF DataInv, BootData, Virgin, Blank, Newer, Either
  <2> QED BY <2>1, <2>2
<1>4. CASE cpu.stage = "compare"
  BY <1>4 DEF DataInv, BootData, Newer, Known, Either
<1>5. CASE cpu.stage = "repair"
  BY <1>5 DEF DataInv, BootData, StageOK, CommitWrites, Blank, Newer, Known, Either
<1>6. CASE cpu.stage \in {"write", "verify"}
  BY <1>6 DEF DataInv, CommitData, Newer, Either
<1>7. CASE cpu.stage = "mirror"
  BY <1>7 DEF DataInv, CommitData, Blank, Newer, Either
<1>8. CASE cpu.stage = "restore"
  BY <1>8 DEF DataInv, CommitData, Newer, Either
<1>9. CASE cpu.stage = "ready"
  BY <1>9 DEF DataInv, CommitData, Newer, Known, Either
<1> QED BY <1>2, <1>3, <1>4, <1>5, <1>6, <1>7, <1>8, <1>9 DEF StageOK

LEMMA PowerLossData ==
  ASSUME DataInv, ConfigInv, PowerLost, "unmirrored" \notin harm'
  PROVE  DataInv'
<1>1. ~NothingFound(2)
  BY DEF PowerLost, Unmirrored
<1>2. Shaped(flash[2]) /\ StageOK(cpu)
  BY DEF ConfigInv, PageInv
<1>3. ~Empty(flash[2])
  BY <1>1, <1>2, FoundHolds
<1>4. Either
  BY <1>2, <1>3, EitherSurvives
<1>5. UNCHANGED <<flash, kept>> /\ cpu'.stage = "first" /\ cpu'.at = "load"
  BY DEF PowerLost, Boots, Stage
<1>6. blob'[1] = DefaultConfig /\ blob'[2] = DefaultConfig
  BY ConfigAssumption DEF PowerLost, Boots
<1>7. Either'
  BY <1>4, <1>5 DEF Either, Newer
<1>8. BootData'
  BY <1>5, <1>6, <1>7 DEF BootData
<1>9. CommitData'
  BY <1>5 DEF CommitData
<1> QED BY <1>5, <1>8, <1>9 DEF DataInv, Good

LEMMA DefaultGood == Good(DefaultConfig)
<1> DEFINE ids == BoardIds \cup {DefaultId}
           apps == {Unset, Measured}
           s == <<DefaultId, Unset>>
<1>1. DefaultId \in ids /\ Unset \in apps
  OBVIOUS
<1>2. s \in ids \X apps
  BY <1>1
<1>3. ConfigBlobs = {Summed(i, a, t) : i \in ids, a \in apps, t \in ids \X apps}
  BY DEF ConfigBlobs
<1> HIDE DEF ids, apps
<1>4. Summed(DefaultId, Unset, s) \in ConfigBlobs
  BY <1>1, <1>2, <1>3
<1>5. DefaultConfig = Summed(DefaultId, Unset, s)
  BY DEF DefaultConfig
<1>6. DefaultConfig.sum = Sum(DefaultConfig)
  BY DEF DefaultConfig, Summed, Sum
<1> QED BY <1>4, <1>5, <1>6 DEF Good

LEMMA SurviveInit == ConfigInit => SurviveInv
<1> SUFFICES ASSUME ConfigInit PROVE SurviveInv
  OBVIOUS
<1>1. FlashPages = {1, 2} /\ Blobs = ConfigBlobs
  BY ConfigAssumption
<1>2. PICK first \in {Erased} \cup {Valid(Summed(i, Measured, <<i, Measured>>)) : i \in BoardIds} :
        /\ flash = [p \in FlashPages |-> [n \in 1 .. Sections |-> IF n = 1 THEN first ELSE Erased]]
        /\ kept = IF first = Erased THEN [last |-> DefaultConfig, new |-> DefaultConfig]
                  ELSE [last |-> first.blob, new |-> first.blob]
  BY DEF ConfigInit
<1>3. ConfigInv /\ \A p \in {1, 2} : Shaped(flash[p])
  BY ConfigInitInv DEF ConfigInv, PageInv
<1>4. \A p \in {1, 2} : flash[p] = [n \in 1 .. Sections |-> IF n = 1 THEN first ELSE Erased]
  BY <1>1, <1>2
<1>5. \A p \in {1, 2}, n \in 1 .. Sections : flash[p][n] = IF n = 1 THEN first ELSE Erased
  BY <1>4
<1>6. \A p \in {1, 2} : flash[p][1] = first
  BY <1>5, SectionsNat
<1>7. first # Erased => Good(first.blob) /\ first = Valid(first.blob)
  <2>1. ASSUME NEW i \in BoardIds, NEW c, c = Summed(i, Measured, <<i, Measured>>), first = Valid(c)
        PROVE  Good(first.blob) /\ first = Valid(first.blob)
    <3>1. first.blob = c
      BY <2>1 DEF Valid
    <3>2. c \in ConfigBlobs /\ c.sum = Sum(c)
      BY <2>1 DEF ConfigBlobs, Summed, Sum
    <3> QED BY <2>1, <3>1, <3>2 DEF Good
  <2> QED BY <2>1
<1>8. Erased.blob = Torn /\ Good(DefaultConfig)
  BY DefaultGood DEF Erased
<1>9. first.blob \in AnyBlob
  BY <1>1, <1>7, <1>8 DEF Good, AnyBlob
<1>10. \A p \in {1, 2} : BlobsTyped(flash[p])
  BY <1>5, <1>8, <1>9 DEF BlobsTyped, AnyBlob
<1>11. blob = [p \in {1, 2} |-> DefaultConfig]
  BY <1>1 DEF ConfigInit
<1>12. /\ kept = [last |-> kept.last, new |-> kept.new]
       /\ first = Erased => kept.last = DefaultConfig /\ kept.new = DefaultConfig
       /\ first # Erased => kept.last = first.blob /\ kept.new = first.blob
  BY <1>2
<1>13. Good(kept.last) /\ Good(kept.new)
  BY <1>7, <1>8, <1>12
<1>14. Typed
  <2>1. kept.last \in AnyBlob /\ kept.new \in AnyBlob /\ DefaultConfig \in AnyBlob
    BY <1>1, <1>8, <1>13 DEF Good, AnyBlob
  <2>2. kept \in [last : AnyBlob, new : AnyBlob]
    BY <1>12, <2>1
  <2>3. losses \in 0 .. LossMax /\ harm \subseteq {"failure", "sum", "unmirrored"}
    BY ConfigAssumption DEF ConfigInit
  <2> QED BY <1>10, <1>11, <2>1, <2>2, <2>3 DEF Typed
<1>15. cpu.stage = "first" /\ cpu.at = "load"
  BY DEF ConfigInit, Stage
<1>16. Either \/ (Virgin /\ Empty(flash[1]) /\ Empty(flash[2]))
  <2>1. CASE first = Erased
    <3>1. ASSUME NEW p \in {1, 2} PROVE ShapeAt(flash[p], 1) /\ flash[p][1].mark = "erased"
      BY <1>5, <1>6, <2>1, ErasedAndValid, SectionsNat DEF ShapeAt
    <3>2. \A p \in {1, 2} : Empty(flash[p])
      BY <3>1, SectionsNat DEF Empty
    <3> QED BY <1>12, <2>1, <3>2 DEF Virgin
  <2>2. CASE first # Erased
    <3>1. first.mark = "valid"
      BY <1>7, <2>2, ErasedAndValid
    <3>2. ShapeAt(flash[2], 1)
      BY <1>5, <1>6, <3>1, ErasedAndValid, SectionsNat DEF ShapeAt
    <3>3. Holds(flash[2], first.blob)
      BY <1>6, <3>1, <3>2, SectionsNat DEF Holds
    <3> QED BY <1>12, <2>2, <3>3 DEF Either, Newer
  <2> QED BY <2>1, <2>2
<1>17. blob[1] = DefaultConfig /\ blob[2] = DefaultConfig
  BY <1>11
<1>18. BootData /\ CommitData
  BY <1>15, <1>16, <1>17 DEF BootData, CommitData
<1> QED BY <1>3, <1>13, <1>14, <1>18 DEF SurviveInv, DataInv

-----------------------------------------------------------------------------
(* Types *)

\* A page written to keeps blobs in its sections.
LEMMA PageTyped ==
  ASSUME Typed, ConfigInv, NEW p \in {1, 2}, NEW f, flash' = [flash EXCEPT ![p] = f], BlobsTyped(f)
  PROVE  \A q \in {1, 2} : BlobsTyped(flash'[q])
<1>1. flash = [q \in {1, 2} |-> flash[q]]
  BY DEF ConfigInv
<1>2. \A q \in {1, 2} : flash'[q] = IF q = p THEN f ELSE flash[q]
  BY <1>1
<1> QED BY <1>2 DEF Typed

LEMMA SectionTyped ==
  ASSUME NEW f, Shaped(f), BlobsTyped(f), NEW k \in 1 .. Sections, NEW v, v.blob \in AnyBlob, NEW g,
         g = [f EXCEPT ![k] = v]
  PROVE  BlobsTyped(g)
<1>1. f = [n \in 1 .. Sections |-> f[n]]
  BY DEF Shaped
<1>2. \A n \in 1 .. Sections : g[n] = IF n = k THEN v ELSE f[n]
  BY <1>1
<1> QED BY <1>2 DEF BlobsTyped

\* The flash after each write of a commit.
LEMMA FlashTyped ==
  ASSUME Typed, ConfigInv, NEW p \in {1, 2}, p = cpu.page, cpu.at \in CommitWrites,
         \/ cpu.at = "invalidate" /\ Invalidate(p)
         \/ cpu.at = "erase" /\ ErasePage(p)
         \/ cpu.at = "size" /\ WriteSize(p)
         \/ cpu.at = "blob" /\ WriteBlob(p)
  PROVE  /\ \A q \in {1, 2} : BlobsTyped(flash'[q])
         /\ \A q \in {1, 2} : q # p => flash'[q] = flash[q]
<1> DEFINE f == flash[p]
           r == persist[p]
<1>1. /\ flash = [q \in {1, 2} |-> flash[q]]
      /\ Shaped(f) /\ r \in Storages /\ BlobsTyped(f) /\ Progress(f, r, cpu.at)
  BY Writer DEF ConfigInv, Typed
<1>2. PICK g : g = f
  OBVIOUS
<1>3. Shaped(g) /\ BlobsTyped(g)
  BY <1>1, <1>2
<1>4. \E x : flash' = [flash EXCEPT ![p] = x] /\ BlobsTyped(x)
  <2>1. CASE cpu.at = "invalidate" /\ Invalidate(p)
    <3>1. CASE r.used = 0
      <4>1. flash' = [flash EXCEPT ![p] = g]
        BY <1>1, <1>2, <2>1, <3>1 DEF Invalidate
      <4> QED BY <1>3, <4>1
    <3>2. CASE r.used # 0
      <4> DEFINE k == r.used
                 v == [g[k] EXCEPT !.mark = "invalid"]
      <4>1. k \in 1 .. Sections
        BY <1>1, <3>2, SectionsNat DEF Storages
      <4>2. g[k] = [mark |-> g[k].mark, blob |-> g[k].blob] /\ g[k].blob \in AnyBlob
        BY <1>3, <4>1 DEF Shaped, BlobsTyped
      <4>3. v.blob \in AnyBlob
        BY <4>2
      <4>4. flash' = [flash EXCEPT ![p] = [g EXCEPT ![k] = v]]
        BY <1>1, <1>2, <2>1, <3>2 DEF Invalidate
      <4> HIDE DEF k, v
      <4>5. BlobsTyped([g EXCEPT ![k] = v])
        BY <1>3, <4>1, <4>3, SectionTyped
      <4> QED BY <4>4, <4>5
    <3> QED BY <3>1, <3>2
  <2>2. CASE cpu.at = "erase" /\ ErasePage(p)
    <3>1. BlobsTyped([n \in 1 .. Sections |-> Erased])
      BY DEF BlobsTyped, Erased, AnyBlob
    <3> QED BY <2>2, <3>1 DEF ErasePage
  <2>3. ASSUME NEW b \in AnyBlob, r.next =< Sections, flash' = [flash EXCEPT ![p] = [g EXCEPT ![r.next] = Valid(b)]]
        PROVE  \E x : flash' = [flash EXCEPT ![p] = x] /\ BlobsTyped(x)
    <3>1. r.next \in 1 .. Sections
      BY <1>1, <2>3, SectionsNat DEF Storages
    <3>2. Valid(b).blob \in AnyBlob
      BY DEF Valid
    <3>3. BlobsTyped([g EXCEPT ![r.next] = Valid(b)])
      BY <1>3, <3>1, <3>2, SectionTyped
    <3> QED BY <2>3, <3>3
  <2>4. CASE cpu.at = "size" /\ WriteSize(p)
    <3>1. flash' = [flash EXCEPT ![p] = [g EXCEPT ![r.next] = Valid(Torn)]]
      BY <1>1, <1>2, <2>4 DEF WriteSize
    <3>2. Torn \in AnyBlob /\ r.next =< Sections
      BY <1>1, <2>4 DEF AnyBlob, Progress
    <3> QED BY <2>3, <3>1, <3>2
  <2>5. CASE cpu.at = "blob" /\ WriteBlob(p)
    <3>1. flash' = [flash EXCEPT ![p] = [g EXCEPT ![r.next] = Valid(blob[p])]]
      BY <1>1, <1>2, <2>5 DEF WriteBlob
    <3>2. blob[p] \in AnyBlob /\ r.next =< Sections
      BY <1>1, <2>5 DEF Typed, Progress
    <3> QED BY <2>3, <3>1, <3>2
  <2> QED BY <2>1, <2>2, <2>4, <2>5
<1>5. PICK x : flash' = [flash EXCEPT ![p] = x] /\ BlobsTyped(x)
  BY <1>4
<1>6. \A q \in {1, 2} : q # p => flash'[q] = flash[q]
  BY <1>1, <1>5
<1>7. \A q \in {1, 2} : BlobsTyped(flash'[q])
  BY <1>5, PageTyped
<1> QED BY <1>6, <1>7

\* What follows from the types of the RAM and the flash.
LEMMA TypedPages ==
  ASSUME Typed, \A q \in {1, 2} : BlobsTyped(flash'[q]), UNCHANGED <<blob, kept, losses, harm>>
  PROVE  Typed'
BY DEF Typed

LEMMA TypedNext == SurviveInv /\ [ConfigNext]_configVars => Typed'
<1> SUFFICES ASSUME SurviveInv, [ConfigNext]_configVars PROVE Typed'
  OBVIOUS
<1> USE DEF SurviveInv
<1>1. Typed /\ ConfigInv /\ blob = [p \in {1, 2} |-> blob[p]] /\ kept = [last |-> kept.last, new |-> kept.new]
  BY DEF Typed
<1>2. ASSUME NEW p \in {1, 2} PROVE blob[p] \in AnyBlob /\ Section(p, FirstSection(p)).blob \in AnyBlob
  <2>1. Section(p, FirstSection(p)) = IF FirstSection(p) \in 1 .. Sections
                                      THEN flash[p][FirstSection(p)] ELSE Erased
    BY DEF Section
  <2>2. Erased.blob \in AnyBlob
    BY DEF Erased, AnyBlob
  <2> QED BY <2>1, <2>2 DEF Typed, BlobsTyped
<1>3. CASE CommitInvalidates \/ CommitErases \/ CommitWritesSize
  <2>1. cpu.at \in CommitWrites /\ UNCHANGED <<blob, kept, losses, harm>>
    BY <1>3 DEF CommitInvalidates, CommitErases, CommitWritesSize, Invalidate, ErasePage, WriteSize, CommitWrites
  <2>2. cpu.page \in {1, 2}
    BY <2>1, Writer
  <2>3. \A q \in {1, 2} : BlobsTyped(flash'[q])
    BY <1>3, <2>1, <2>2, FlashTyped DEF CommitInvalidates, CommitErases, CommitWritesSize
  <2> QED BY <2>1, <2>3, TypedPages
<1>4. CASE CommitWritesBlob
  <2>1. cpu.at \in CommitWrites /\ UNCHANGED <<blob, losses, harm>>
    BY <1>4 DEF CommitWritesBlob, WriteBlob, CommitWrites
  <2>2. cpu.page \in {1, 2}
    BY <2>1, Writer
  <2>3. \A q \in {1, 2} : BlobsTyped(flash'[q])
    BY <1>4, <2>1, <2>2, FlashTyped DEF CommitWritesBlob
  <2>4. kept.last \in AnyBlob /\ kept.new \in AnyBlob
    BY DEF Typed
  <2>5. \/ kept' = [kept EXCEPT !.last = kept.new] \/ kept' = [kept EXCEPT !.new = kept.last]
        \/ kept' = kept
    BY <1>4 DEF CommitWritesBlob
  <2>6. kept' \in [last : AnyBlob, new : AnyBlob]
    BY <1>1, <2>4, <2>5
  <2> QED BY <2>1, <2>3, <2>6 DEF Typed
<1>5. CASE BlobWriteFails
  BY <1>5 DEF BlobWriteFails, persistVars, Typed
<1>6. CASE BootLoads
  <2>1. cpu.page \in {1, 2}
    BY DEF ConfigInv, StageOK
  <2>2. blob' = blob \/ blob' = [blob EXCEPT ![cpu.page] = Section(cpu.page, FirstSection(cpu.page)).blob]
    BY <1>6 DEF BootLoads, LoadBlob
  <2>3. blob' \in [{1, 2} -> AnyBlob]
    BY <1>2, <2>1, <2>2 DEF Typed
  <2> QED BY <1>6, <2>3 DEF BootLoads, Typed
<1>7. CASE BootCompares
  <2>1. blob' = blob \/ \E p, q \in {1, 2} : blob' = [blob EXCEPT ![p] = blob[q]]
    BY <1>7 DEF BootCompares, Repair
  <2>2. blob' \in [{1, 2} -> AnyBlob]
    BY <1>2, <2>1 DEF Typed
  <2> QED BY <1>7, <2>2 DEF BootCompares, Typed
<1>8. ASSUME NEW id \in BoardIds, ConfigCommit(id) PROVE Typed'
  <2> DEFINE input == Summed(id, Measured, <<id, AppOf(blob[1])>>)
  <2>1. AppOf(blob[1]) \in {Unset, Measured}
    <3>1. ASSUME NEW c \in ConfigBlobs PROVE c.app \in {Unset, Measured}
      BY <3>1 DEF ConfigBlobs, Summed
    <3>2. blob[1] \in ConfigBlobs \cup {Torn}
      BY <1>2, ConfigAssumption DEF AnyBlob
    <3> QED BY <3>1, <3>2 DEF AppOf
  <2>2. input \in ConfigBlobs
    <3> DEFINE ids == BoardIds \cup {DefaultId}
               apps == {Unset, Measured}
               s == <<id, AppOf(blob[1])>>
    <3>1. id \in ids /\ Measured \in apps /\ s \in ids \X apps
      BY <2>1
    <3>2. ConfigBlobs = {Summed(i, a, t) : i \in ids, a \in apps, t \in ids \X apps}
      BY DEF ConfigBlobs
    <3>3. input = Summed(id, Measured, s)
      OBVIOUS
    <3> HIDE DEF ids, apps, s, input
    <3> QED BY <3>1, <3>2, <3>3
  <2>3. input \in AnyBlob
    BY <2>2, ConfigAssumption DEF AnyBlob
  <2>4. blob' = [blob EXCEPT ![1] = input] /\ kept' = [last |-> blob[1], new |-> input]
    BY <1>8 DEF ConfigCommit
  <2> HIDE DEF input
  <2>5. blob' \in [{1, 2} -> AnyBlob]
    BY <2>3, <2>4 DEF Typed
  <2>6. kept' \in [last : AnyBlob, new : AnyBlob]
    BY <1>2, <2>3, <2>4
  <2>7. harm' \subseteq {"failure", "sum", "unmirrored"}
    BY <1>8 DEF ConfigCommit, Typed
  <2> QED BY <1>8, <2>5, <2>6, <2>7 DEF ConfigCommit, Typed
<1>9. CASE CommitVerifies
  <2>1. \/ \E b \in AnyBlob : blob' = [p \in {1, 2} |-> b]
        \/ blob' = [blob EXCEPT ![1] = blob[2]]
    BY <1>2, <1>9, ConfigAssumption DEF CommitVerifies
  <2>2. blob' \in [{1, 2} -> AnyBlob]
    BY <1>2, <2>1 DEF Typed
  <2> QED BY <1>9, <2>2 DEF CommitVerifies, Typed
<1>10. CASE PowerLost
  <2>1. blob' = [p \in {1, 2} |-> DefaultConfig]
    BY <1>10, ConfigAssumption DEF PowerLost, Boots
  <2>2. DefaultConfig \in AnyBlob
    BY ConfigAssumption, DefaultGood DEF Good, AnyBlob
  <2>3. blob' \in [{1, 2} -> AnyBlob]
    BY <2>1, <2>2
  <2>4. losses' \in 0 .. LossMax
    BY <1>10, ConfigAssumption DEF PowerLost, Typed
  <2>5. harm' \subseteq {"failure", "sum", "unmirrored"}
    BY <1>10 DEF PowerLost, Typed
  <2> QED BY <1>10, <2>3, <2>4, <2>5 DEF PowerLost, Typed
<1>11. CASE UNCHANGED configVars
  BY <1>11 DEF configVars, persistVars, Typed
<1> QED BY <1>3, <1>4, <1>5, <1>6, <1>7, <1>8, <1>9, <1>10, <1>11 DEF ConfigNext

\* A write to one page: what the page holds then, and that the other one is as it was.
LEMMA WritesData ==
  ASSUME SurviveInv, ConfigInv', DataInv,
         CommitInvalidates \/ CommitErases \/ CommitWritesSize \/ CommitWritesBlob
  PROVE  DataInv'
<1> DEFINE p == cpu.page
<1>1. ConfigInv /\ Typed /\ StageOK(cpu) /\ cpu = [stage |-> cpu.stage, at |-> cpu.at, page |-> cpu.page]
  BY DEF SurviveInv, ConfigInv, StageOK
<1>2. cpu.at \in CommitWrites
  BY DEF CommitInvalidates, CommitErases, CommitWritesSize, CommitWritesBlob, CommitWrites
<1>3. p \in {1, 2} /\ persist[p] \in Storages /\ Progress(flash[p], persist[p], cpu.at) /\ Shaped(flash[p])
  BY <1>1, <1>2, Writer
<1>4. \A q \in {1, 2} : q # cpu.page => flash'[q] = flash[q]
  BY <1>1, <1>2, <1>3, FlashTyped DEF CommitInvalidates, CommitErases, CommitWritesSize, CommitWritesBlob
<1>5. PageInv(flash'[p], persist'[p], cpu', p)
  BY <1>3 DEF ConfigInv
<1>6. ASSUME NEW a \in {"erase", "size"}, cpu' = [cpu EXCEPT !.at = a], UNCHANGED <<blob, kept>> PROVE DataInv'
  <2>1. cpu'.stage = cpu.stage /\ cpu'.page = p /\ cpu'.at = a /\ a \in CommitWrites /\ a # "blob"
    BY <1>1, <1>6 DEF CommitWrites
  <2>2. Progress(flash'[p], persist'[p], a) /\ persist'[p] \in Storages
    BY <1>5, <2>1 DEF PageInv, Writing
  <2>3. Empty(flash'[p])
    BY <2>2, FreshEmpty DEF Progress
  <2> QED BY <1>1, <1>2, <1>4, <1>6, <2>1, <2>3, InnerWriteData DEF Blank
<1>7. CASE CommitInvalidates
  <2>1. \E a \in {"erase", "size"} : cpu' = [cpu EXCEPT !.at = a]
    BY <1>7 DEF CommitInvalidates
  <2> QED BY <1>6, <1>7, <2>1 DEF CommitInvalidates, Invalidate
<1>8. CASE CommitErases
  BY <1>6, <1>8 DEF CommitErases, ErasePage
<1>9. flash = [x \in {1, 2} |-> flash[x]]
  BY <1>1 DEF ConfigInv
<1>10. ASSUME NEW b, NEW k \in 1 .. Sections, ShapeAt(flash'[p], k),
              flash' = [flash EXCEPT ![p][k] = Valid(b)]
       PROVE  Holds(flash'[p], b)
  <2>1. PICK f : f = flash[p]
    OBVIOUS
  <2>2. f = [n \in 1 .. Sections |-> f[n]]
    BY <1>3, <2>1 DEF Shaped
  <2>3. flash'[p] = [f EXCEPT ![k] = Valid(b)]
    BY <1>3, <1>9, <1>10, <2>1
  <2>4. flash'[p][k] = Valid(b)
    BY <2>2, <2>3
  <2> QED BY <1>10, <2>4, WrittenHolds
<1>11. cpu.at \in {"size", "blob"} => persist[p].next \in 1 .. Sections
  <2>1. PICK n : n = persist[p].next
    OBVIOUS
  <2>2. n \in 1 .. Sections + 1
    BY <1>3, <2>1 DEF Storages
  <2>3. cpu.at \in {"size", "blob"} => n =< Sections
    BY <1>3, <2>1 DEF Progress
  <2> QED BY <2>1, <2>2, <2>3, SectionsNat
<1>12. CASE CommitWritesSize
  <2>1. cpu.at = "size" /\ cpu' = [cpu EXCEPT !.at = "blob"] /\ UNCHANGED <<persist, blob, kept>>
    BY <1>12 DEF CommitWritesSize, WriteSize
  <2>2. cpu'.stage = cpu.stage /\ cpu'.page = p /\ cpu'.at = "blob" /\ "blob" \in CommitWrites
    BY <1>1, <2>1 DEF CommitWrites
  <2>3. Progress(flash'[p], persist'[p], "blob")
    BY <1>5, <2>2 DEF PageInv, Writing
  <2>4. ShapeAt(flash'[p], persist[p].next)
    BY <2>1, <2>3 DEF Progress
  <2>5. flash' = [flash EXCEPT ![p][persist[p].next] = Valid(Torn)]
    BY <1>12 DEF CommitWritesSize, WriteSize
  <2>6. Holds(flash'[p], Torn)
    BY <1>10, <1>11, <2>1, <2>4, <2>5
  <2> QED BY <1>1, <1>2, <1>4, <2>1, <2>2, <2>6, InnerWriteData DEF Blank
<1>13. CASE CommitWritesBlob
  <2>1. cpu.at = "blob" /\ flash' = [flash EXCEPT ![p][persist[p].next] = Valid(blob[p])]
    BY <1>13 DEF CommitWritesBlob, WriteBlob
  <2>2. ShapeAt(flash'[p], persist[p].next)
    <3>1. ShapeAt(flash[p], persist[p].next) /\ Shaped(flash[p])
      BY <1>3, <2>1 DEF Progress
    <3>2. PICK f : f = flash[p]
      OBVIOUS
    <3>3. flash'[p] = [f EXCEPT ![persist[p].next] = Valid(blob[p])]
      BY <1>3, <1>9, <2>1, <3>2
    <3> QED BY <1>3, <1>11, <2>1, <3>1, <3>2, <3>3, WriteKeeps, SectionsNat
  <2>3. Holds(flash'[p], blob[p])
    BY <1>10, <1>11, <2>1, <2>2
  <2>4. kept = [last |-> kept.last, new |-> kept.new]
    BY <1>1 DEF Typed
  <2> QED BY <1>1, <1>4, <1>13, <2>3, <2>4, BlobData
<1> QED BY <1>7, <1>8, <1>12, <1>13

LEMMA SurviveNext == SurviveInv /\ [ConfigNext]_configVars => SurviveInv'
<1> SUFFICES ASSUME SurviveInv, [ConfigNext]_configVars PROVE SurviveInv'
  OBVIOUS
<1>1. ConfigInv /\ Typed /\ ConfigInv' /\ Typed'
  BY ConfigInvNext, TypedNext DEF SurviveInv
<1>2. harm \subseteq harm'
  BY DEF ConfigNext, CommitInvalidates, CommitErases, CommitWritesSize, CommitWritesBlob, BlobWriteFails,
         BootLoads, BootCompares, ConfigCommit, CommitVerifies, PowerLost, configVars
<1>3. SUFFICES ASSUME ~Spoilt' PROVE DataInv'
  BY <1>1 DEF SurviveInv
<1>4. DataInv /\ "sum" \notin harm' /\ "unmirrored" \notin harm'
  BY <1>2, <1>3 DEF SurviveInv, Spoilt
<1>5. CASE UNCHANGED configVars
  <2>1. UNCHANGED <<flash, blob, cpu, kept>>
    BY <1>5 DEF configVars, persistVars
  <2> QED BY <1>4, <2>1 DEF DataInv, BootData, CommitData, Good, Known, Newer, Either, Virgin
<1> QED
  BY <1>1, <1>4, <1>5, WritesData, FailureData, LoadsData, CompareData, CommitStarts, VerifyData, PowerLossData
  DEF ConfigNext

-----------------------------------------------------------------------------

\* What a page holds is found by persist_init.
LEMMA HeldIsWhole ==
  ASSUME NEW p \in {1, 2}, NEW b, ConfigInv, Holds(flash[p], b), b # Torn
  PROVE  Whole(p)
<1>1. Shaped(flash[p])
  BY DEF ConfigInv, PageInv
<1>2. ~Empty(flash[p]) /\ \A c : Holds(flash[p], c) => c = b
  BY HoldsOne
<1>3. ~NothingFound(p) /\ Section(p, FirstSection(p)).blob = b
  BY <1>1, <1>2, FoundHolds
<1> QED BY <1>3 DEF Whole

LEMMA SurviveTypes == SurviveInv => ConfigTypeOK
<1> SUFFICES ASSUME SurviveInv PROVE ConfigTypeOK
  OBVIOUS
<1>1. FlashPages = {1, 2} /\ ConfigInv /\ Typed
  BY ConfigAssumption DEF SurviveInv
<1>2. ASSUME NEW p \in {1, 2}
      PROVE  flash[p] \in [1 .. Sections -> [mark : {"erased", "valid", "invalid"}, blob : AnyBlob]]
  <2>1. PICK f : f = flash[p]
    OBVIOUS
  <2>2. Shaped(f) /\ BlobsTyped(f)
    BY <1>1, <2>1 DEF ConfigInv, PageInv, Typed
  <2>3. PICK k \in 1 .. Sections + 1 : ShapeAt(f, k)
    BY <2>2 DEF Shaped
  <2>4. ASSUME NEW n \in 1 .. Sections PROVE f[n].mark \in {"erased", "valid", "invalid"}
    <3>1. CASE n < k
      BY <2>3, <3>1 DEF ShapeAt
    <3>2. CASE n = k
      BY <2>3, <3>2, SectionsNat DEF ShapeAt
    <3>3. CASE n > k
      BY <2>3, <3>3 DEF ShapeAt
    <3> QED BY <3>1, <3>2, <3>3, SectionsNat
  <2>5. ASSUME NEW n \in 1 .. Sections PROVE f[n] \in [mark : {"erased", "valid", "invalid"}, blob : AnyBlob]
    BY <2>2, <2>4 DEF Shaped, BlobsTyped
  <2>6. f = [n \in 1 .. Sections |-> f[n]]
    BY <2>2 DEF Shaped
  <2> QED BY <2>1, <2>5, <2>6
<1>3. flash \in [{1, 2} -> [1 .. Sections -> [mark : {"erased", "valid", "invalid"}, blob : AnyBlob]]]
  BY <1>1, <1>2 DEF ConfigInv
<1>4. \A p \in {1, 2} : persist[p] \in Storages
  BY <1>1 DEF ConfigInv, PageInv
<1>5. persist \in [{1, 2} -> Storages]
  BY <1>1, <1>4 DEF ConfigInv
<1>6. PersistTypeOK
  BY <1>1, <1>3, <1>5 DEF PersistTypeOK, Storages, Typed, AnyBlob
<1>7. /\ cpu = [stage |-> cpu.stage, at |-> cpu.at, page |-> cpu.page]
      /\ cpu.stage \in {"first", "second", "compare", "repair", "write", "verify", "mirror", "restore", "ready"}
      /\ cpu.at \in {"load", "invalidate", "erase", "size", "blob", "none"} /\ cpu.page \in {1, 2}
  BY <1>1 DEF ConfigInv, StageOK, CommitWrites
<1> QED BY <1>1, <1>6, <1>7 DEF ConfigTypeOK, Typed, AnyBlob

\* Wherever the power is lost, a board that has booted runs with the config committed last or the
\* one whose commit was broken off, until a checksum or a page without a section has spoilt the
\* redundancy (ConfigSurvives, config.c:51-57).
THEOREM ConfigAlwaysSurvives == ConfigSpec => []ConfigSurvives
<1>1. SurviveInv => ConfigSurvives
  <2> SUFFICES ASSUME SurviveInv, cpu = Ready, ~Spoilt PROVE blob[1] \in {kept.last, kept.new}
    BY DEF ConfigSurvives
  <2> QED BY DEF SurviveInv, DataInv, CommitData, Ready, Stage, Known
<1> QED BY SurviveInit, SurviveNext, <1>1, PTL DEF ConfigSpec

\* Once a board has booted a page is written only while the other one holds a whole config
\* (SomePageWhole), and the types of what config.c keeps hold in every state.
THEOREM AlwaysSomePageWhole == ConfigSpec => []SomePageWhole
<1>1. ASSUME SurviveInv, cpu.stage \notin {"first", "second"}, ~Spoilt PROVE Whole(1) \/ Whole(2)
  <2>1. DataInv /\ ConfigInv
    BY <1>1 DEF SurviveInv
  <2>2. \A b : Known(b) => b # Torn
    BY <2>1, PersistAssumption, ConfigAssumption DEF DataInv, Good, Known
  <2>3. \E p \in {1, 2} : \E b : Known(b) /\ Holds(flash[p], b)
    <3>1. CASE cpu.stage = "compare"
      BY <2>1, <3>1 DEF DataInv, BootData
    <3>2. CASE cpu.stage = "repair"
      BY <2>1, <3>2 DEF DataInv, BootData, ConfigInv, StageOK, CommitWrites
    <3>3. CASE cpu.stage \in {"write", "verify", "restore"}
      BY <2>1, <3>3 DEF DataInv, CommitData, Known
    <3>4. CASE cpu.stage \in {"mirror", "ready"}
      BY <2>1, <3>4 DEF DataInv, CommitData, Known
    <3> QED BY <1>1, <2>1, <3>1, <3>2, <3>3, <3>4 DEF ConfigInv, StageOK
  <2> QED BY <2>1, <2>2, <2>3, HeldIsWhole
<1>2. SurviveInv => SomePageWhole
  BY <1>1, SurviveTypes DEF SomePageWhole
<1> QED BY SurviveInit, SurviveNext, <1>2, PTL DEF ConfigSpec
=============================================================================
