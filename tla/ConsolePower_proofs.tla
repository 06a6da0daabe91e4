------------------------- MODULE ConsolePower_proofs -------------------------
(***************************************************************************)
(* The power FSM of the centre console and its three sequences keep in     *)
(* step: OneSequence, RequestsInStep and StepsConfirmed hold always.       *)
(*                                                                         *)
(* Why: the main loop handles one event at a time, so what may happen next *)
(* is decided by what the event queue holds and in which order. Every      *)
(* state of a board that has not locked up is in one of the phases Resting *)
(* (no sequence is under way), Faulting (the power FSM shows a fault),     *)
(* Beginning (the event that starts a sequence is queued), one of those of *)
(* a step of a power-on sequence (Asking, Moving, Failing, and Finished or *)
(* Failed after the last) or of a step of the off sequence. A phase fixes  *)
(* the control events the queue may hold and their order, the one request  *)
(* that may be outstanding and the answers that have been given. An event  *)
(* of the buttons or of CAN is noise: it may stand anywhere between the    *)
(* others. Handling an event, an answer, a timeout, a press or a battery   *)
(* protection fault leads from each phase into a phase, or locks the board *)
(* up in a state that is calmer than the one before, and no phase breaks a *)
(* property.                                                               *)
(*                                                                         *)
(* The lemmas go bottom up: the shape of a state and of the operators that *)
(* change it, the queue as a sequence of events some of which are noise,   *)
(* the phases, one lemma per handler and phase, and last the steps.        *)
(***************************************************************************)
EXTENDS ConsolePower, FiniteSetTheorems, SequenceTheorems, TLAPS

PowerOn == {"main", "aux"}
Boards == {"rear", "front", "bms"}
Final(q) == Len(Steps[q])

LEMMA StepFacts ==
  ASSUME NEW q \in PowerOn
  PROVE  /\ Final(q) \in Nat /\ Final(q) > 1 /\ DOMAIN Steps[q] = 1 .. Final(q)
         /\ \A k \in 1 .. Final(q) : k < Final(q) => \E d \in Boards : Steps[q][k].devices = {d}
         /\ Steps[q][Final(q)].devices = {"rear", "front"}
<1>1. CASE q = "main"
  <2>1. Steps[q] = MainSteps
    BY <1>1 DEF Steps
  <2>2. Len(MainSteps) = 6 /\ DOMAIN MainSteps = 1 .. 6
    BY DEF MainSteps
  <2>3. /\ MainSteps[1].devices = {"rear"} /\ MainSteps[2].devices = {"rear"} /\ MainSteps[3].devices = {"bms"}
        /\ MainSteps[4].devices = {"bms"} /\ MainSteps[5].devices = {"rear"} /\ MainSteps[6].devices = {"rear", "front"}
    BY DEF MainSteps, Ask
  <2>4. \A k \in 1 .. 6 : k < 6 => k = 1 \/ k = 2 \/ k = 3 \/ k = 4 \/ k = 5
    OBVIOUS
  <2> QED BY <2>1, <2>2, <2>3, <2>4 DEF Final, Boards
<1>2. CASE q = "aux"
  <2>1. Steps[q] = AuxSteps
    BY <1>2 DEF Steps
  <2>2. Len(AuxSteps) = 2 /\ DOMAIN AuxSteps = 1 .. 2
    BY DEF AuxSteps
  <2>3. AuxSteps[1].devices = {"rear"} /\ AuxSteps[2].devices = {"rear", "front"}
    BY DEF AuxSteps, Ask
  <2>4. \A k \in 1 .. 2 : k < 2 => k = 1
    OBVIOUS
  <2> QED BY <2>1, <2>2, <2>3, <2>4 DEF Final, Boards
<1> QED BY <1>1, <1>2 DEF PowerOn

LEMMA DestinationFacts ==
  /\ DOMAIN Destination = {"OFF", "ON_MAIN", "ON_AUX"}
  /\ \A id \in DOMAIN Destination : Destination[id] \in {OFF, MAIN, AUX} /\ SequenceFor[id] \in {"main", "aux", "off"}
  /\ \A q \in {"main", "aux", "off"} : StateAfter[q] \in {OFF, MAIN, AUX}
BY DEF Destination, SequenceFor, StateAfter

-----------------------------------------------------------------------------
(* The state a handler works on, field by field                             *)

Shaped(s) ==
  s = [queue |-> s.queue, power |-> s.power, seq |-> s.seq, off |-> s.off, can |-> s.can,
       owed |-> s.owed, locked |-> s.locked, granted |-> s.granted]

QueueShaped(x) == x = [highest |-> x.highest, normal |-> x.normal]

PowerShaped(x) ==
  x = [fsm |-> x.fsm, current |-> x.current, previous |-> x.previous, destination |-> x.destination]

OffShaped(x) == x = [fsm |-> x.fsm, retries |-> x.retries]

CanShaped(x) == x = [tx |-> x.tx, rx |-> x.rx, requests |-> x.requests]

SeqShaped(x) == x = [q \in PowerOn |-> x[q]]
CellShaped(x) == x = [fsm |-> x.fsm, step |-> x.step, acks |-> x.acks]

-----------------------------------------------------------------------------
(* The queue: which events it holds, and in which order                     *)

Ofs == {"button", "can", "main", "aux", "off", "power"}
Ids == {"POWER", "TX", "RX", "BEGIN", "ADVANCE", "COMPLETE", "FAULT", "DISCHARGED", "TURNED_OFF", "RELAYS_OPENED",
        "CLEAR_FAULT", "OFF", "ON_MAIN", "ON_AUX"}
Events == [of : Ofs, id : Ids, data : Int]

Buttons == {Event("button", "POWER", 0)}
CanEvents == {Event("can", "TX", 0), Event("can", "RX", 0)}
Noise == Buttons \cup CanEvents
Control == {e \in Events : e.of \notin {"button", "can"}}

PowerRequest(id) == Event("power", id, 0)
PowerRequests == {PowerRequest(id) : id \in DOMAIN Destination}
OffFault == Event("off", "FAULT", 0)
TurnedOff == Event("off", "TURNED_OFF", 0)
Stale == {OffFault, TurnedOff}
Live == Buttons \cup PowerRequests

AllIn(Q, S) == \A i \in DOMAIN Q : Q[i] \in S
NoneOf(Q, S) == \A i \in DOMAIN Q : Q[i] \notin S
AtMostOne(Q, S) == \A i, j \in DOMAIN Q : Q[i] \in S /\ Q[j] \in S => i = j
InOrder(Q, A, B) == \A i, j \in DOMAIN Q : Q[i] \in A /\ Q[j] \in B => i < j

\* What may start a sequence comes before an event of C, or else nothing is left of an earlier
\* off sequence that it does not come after.
LiveAfter(Q, reqs, C) ==
  \A j \in DOMAIN Q : Q[j] \in Live =>
    \/ \E i \in DOMAIN Q : i > j /\ Q[i] \in C
    \/ reqs = <<>> /\ \A i \in DOMAIN Q : Q[i] \in Stale => i < j

LEMMA EventIs ==
  ASSUME NEW of \in Ofs, NEW id \in Ids, NEW data \in Int
  PROVE  /\ Event(of, id, data) \in Events
         /\ Event(of, id, data).of = of /\ Event(of, id, data).id = id /\ Event(of, id, data).data = data
         /\ of \notin {"button", "can"} => Event(of, id, data) \in Control
BY DEF Event, Events, Control

LEMMA EventFacts ==
  /\ Noise \subseteq Events /\ Noise \cap Control = {} /\ Control \subseteq Events
  /\ PowerRequests \subseteq Control /\ Stale \subseteq Control /\ CanEvents \subseteq Noise /\ Buttons \subseteq Noise
  /\ CanEvents \cap Live = {} /\ CanEvents \cap Stale = {} /\ Buttons \cap Stale = {} /\ PowerRequests \cap Stale = {}
  /\ Buttons \cap CanEvents = {}
<1>1. PowerRequests = {Event("power", "OFF", 0), Event("power", "ON_MAIN", 0), Event("power", "ON_AUX", 0)}
  BY DestinationFacts DEF PowerRequests, PowerRequest
<1>2. /\ Event("power", "OFF", 0) \in Control /\ Event("power", "ON_MAIN", 0) \in Control
      /\ Event("power", "ON_AUX", 0) \in Control /\ OffFault \in Control /\ TurnedOff \in Control
  BY DEF Event, Events, Control, Ofs, Ids, OffFault, TurnedOff
<1>3. /\ Event("power", "OFF", 0).of = "power" /\ Event("power", "ON_MAIN", 0).of = "power"
      /\ Event("power", "ON_AUX", 0).of = "power" /\ OffFault.of = "off" /\ TurnedOff.of = "off"
  BY DEF Event, OffFault, TurnedOff
<1>4. Control \subseteq Events /\ \A e \in Control : e.of \notin {"button", "can"}
  BY DEF Control
<1>5. /\ \A e \in Buttons : e \in Events /\ e.of = "button"
      /\ \A e \in CanEvents : e \in Events /\ e.of = "can"
  BY DEF Event, Events, Ofs, Ids, Buttons, CanEvents
<1>6. PowerRequests \subseteq Control /\ \A e \in PowerRequests : e.of = "power"
  BY <1>1, <1>2, <1>3
<1>7. Stale \subseteq Control /\ \A e \in Stale : e.of = "off"
  BY <1>2, <1>3 DEF Stale
<1> QED BY <1>4, <1>5, <1>6, <1>7 DEF Noise, Live

LEMMA TailIs ==
  ASSUME NEW Q \in Seq(Events), Q # <<>>
  PROVE  /\ Tail(Q) \in Seq(Events) /\ Head(Q) = Q[1] /\ 1 \in DOMAIN Q
         /\ \A i \in DOMAIN Tail(Q) : i \in Nat /\ i > 0 /\ i + 1 \in DOMAIN Q /\ Tail(Q)[i] = Q[i + 1]
         /\ \A i \in DOMAIN Q : i \in Nat /\ i > 0 /\ (i > 1 => i - 1 \in DOMAIN Tail(Q) /\ Tail(Q)[i - 1] = Q[i])
OBVIOUS

LEMMA AppendIs ==
  ASSUME NEW Q \in Seq(Events), NEW e \in Events
  PROVE  /\ Append(Q, e) \in Seq(Events) /\ DOMAIN Append(Q, e) = DOMAIN Q \cup {Len(Q) + 1}
         /\ Append(Q, e)[Len(Q) + 1] = e /\ \A i \in DOMAIN Q : Append(Q, e)[i] = Q[i] /\ i \in Nat /\ i < Len(Q) + 1
         /\ Len(Q) + 1 \in Nat
OBVIOUS

LEMMA PopAllIn ==
  ASSUME NEW Q \in Seq(Events), Q # <<>>, NEW S, AllIn(Q, S)
  PROVE  AllIn(Tail(Q), S) /\ Head(Q) \in S
BY TailIs DEF AllIn

LEMMA PopNoneOf ==
  ASSUME NEW Q \in Seq(Events), Q # <<>>, NEW S, NoneOf(Q, S)
  PROVE  NoneOf(Tail(Q), S)
BY TailIs DEF NoneOf

LEMMA PopAtMostOne ==
  ASSUME NEW Q \in Seq(Events), Q # <<>>, NEW S, AtMostOne(Q, S)
  PROVE  AtMostOne(Tail(Q), S) /\ (Head(Q) \in S => NoneOf(Tail(Q), S))
<1>1. AtMostOne(Tail(Q), S)
  <2> SUFFICES ASSUME NEW i \in DOMAIN Tail(Q), NEW j \in DOMAIN Tail(Q), Tail(Q)[i] \in S, Tail(Q)[j] \in S PROVE i = j
    BY DEF AtMostOne
  <2>1. i + 1 = j + 1 /\ i \in Nat /\ j \in Nat
    BY TailIs DEF AtMostOne
  <2> QED BY <2>1
<1>2. ASSUME Head(Q) \in S, NEW i \in DOMAIN Tail(Q), Tail(Q)[i] \in S PROVE FALSE
  <2>1. i + 1 = 1 /\ i \in Nat /\ i > 0
    BY <1>2, TailIs DEF AtMostOne
  <2> QED BY <2>1
<1> QED BY <1>1, <1>2 DEF NoneOf

LEMMA PopInOrder ==
  ASSUME NEW Q \in Seq(Events), Q # <<>>, NEW A, NEW B, InOrder(Q, A, B)
  PROVE  InOrder(Tail(Q), A, B) /\ (Head(Q) \in B => NoneOf(Tail(Q), A))
<1>1. InOrder(Tail(Q), A, B)
  <2> SUFFICES ASSUME NEW i \in DOMAIN Tail(Q), NEW j \in DOMAIN Tail(Q), Tail(Q)[i] \in A, Tail(Q)[j] \in B PROVE i < j
    BY DEF InOrder
  <2>1. i + 1 < j + 1 /\ i \in Nat /\ j \in Nat
    BY TailIs DEF InOrder
  <2> QED BY <2>1
<1>2. ASSUME Head(Q) \in B, NEW i \in DOMAIN Tail(Q), Tail(Q)[i] \in A PROVE FALSE
  <2>1. i + 1 < 1 /\ i \in Nat /\ i > 0
    BY <1>2, TailIs DEF InOrder
  <2> QED BY <2>1
<1> QED BY <1>1, <1>2 DEF NoneOf

LEMMA PopLive ==
  ASSUME NEW Q \in Seq(Events), Q # <<>>, NEW r, NEW C, LiveAfter(Q, r, C)
  PROVE  /\ LiveAfter(Tail(Q), r, C)
         /\ Head(Q) \in C /\ AtMostOne(Q, C) => LiveAfter(Tail(Q), r, {})
         /\ Head(Q) \in Live /\ C = {} => r = <<>> /\ NoneOf(Tail(Q), Stale)
<1>1. ASSUME NEW j \in DOMAIN Tail(Q), Tail(Q)[j] \in Live
      PROVE  \/ \E i \in DOMAIN Tail(Q) : i > j /\ Tail(Q)[i] \in C
             \/ r = <<>> /\ \A i \in DOMAIN Tail(Q) : Tail(Q)[i] \in Stale => i < j
  <2>1. j \in Nat /\ j > 0 /\ j + 1 \in DOMAIN Q /\ Q[j + 1] \in Live
    BY <1>1, TailIs
  <2>2. CASE \E i \in DOMAIN Q : i > j + 1 /\ Q[i] \in C
    <3>1. PICK i \in DOMAIN Q : i > j + 1 /\ Q[i] \in C
      BY <2>2
    <3>2. i \in Nat /\ i > 1 /\ i - 1 > j
      BY <2>1, <3>1, TailIs
    <3>3. i - 1 \in DOMAIN Tail(Q) /\ Tail(Q)[i - 1] = Q[i]
      BY <3>1, <3>2, TailIs
    <3> QED BY <3>1, <3>2, <3>3
  <2>3. CASE r = <<>> /\ \A i \in DOMAIN Q : Q[i] \in Stale => i < j + 1
    <3>1. ASSUME NEW i \in DOMAIN Tail(Q), Tail(Q)[i] \in Stale PROVE i < j
      <4>1. i \in Nat /\ i + 1 < j + 1
        BY <2>3, <3>1, TailIs
      <4> QED BY <2>1, <4>1
    <3> QED BY <2>3, <3>1
  <2> QED BY <2>1, <2>2, <2>3 DEF LiveAfter
<1>2. LiveAfter(Tail(Q), r, C)
  BY <1>1 DEF LiveAfter
<1>3. ASSUME Head(Q) \in C, AtMostOne(Q, C) PROVE LiveAfter(Tail(Q), r, {})
  <2>1. NoneOf(Tail(Q), C)
    BY <1>3, PopAtMostOne
  <2> QED BY <1>1, <2>1 DEF LiveAfter, NoneOf
<1>4. ASSUME Head(Q) \in Live, C = {} PROVE r = <<>> /\ NoneOf(Tail(Q), Stale)
  <2>1. r = <<>> /\ \A i \in DOMAIN Q : Q[i] \in Stale => i < 1
    BY <1>4, TailIs DEF LiveAfter
  <2>2. ASSUME NEW i \in DOMAIN Tail(Q), Tail(Q)[i] \in Stale PROVE FALSE
    <3>1. i \in Nat /\ i > 0 /\ i + 1 < 1
      BY <2>1, <2>2, TailIs
    <3> QED BY <3>1
  <2> QED BY <2>1, <2>2 DEF NoneOf
<1> QED BY <1>2, <1>3, <1>4

LEMMA AddAllIn ==
  ASSUME NEW Q \in Seq(Events), NEW S, AllIn(Q, S), NEW e \in Events, e \in S
  PROVE  AllIn(Append(Q, e), S)
BY AppendIs DEF AllIn

LEMMA AddNoneOf ==
  ASSUME NEW Q \in Seq(Events), NEW S, NoneOf(Q, S), NEW e \in Events, e \notin S
  PROVE  NoneOf(Append(Q, e), S)
BY AppendIs DEF NoneOf

LEMMA AddAtMostOne ==
  ASSUME NEW Q \in Seq(Events), NEW S, AtMostOne(Q, S), NEW e \in Events, e \notin S \/ NoneOf(Q, S)
  PROVE  AtMostOne(Append(Q, e), S)
BY AppendIs DEF AtMostOne, NoneOf

LEMMA AddInOrder ==
  ASSUME NEW Q \in Seq(Events), NEW A, NEW B, InOrder(Q, A, B), NEW e \in Events, e \notin A \/ NoneOf(Q, B), e \notin A \/ e \notin B
  PROVE  InOrder(Append(Q, e), A, B)
<1>1. CASE e \notin A
  BY <1>1, AppendIs DEF InOrder
<1>2. CASE NoneOf(Q, B) /\ e \notin B
  BY <1>2, AppendIs DEF InOrder, NoneOf
<1> QED BY <1>1, <1>2

\* Added behind: not one that may start a sequence, or nothing is left of an earlier one.
LEMMA AddLive ==
  ASSUME NEW Q \in Seq(Events), NEW r, NEW C, LiveAfter(Q, r, C), NEW e \in Events,
         \/ e \notin Live /\ (e \notin Stale \/ r # <<>>)
         \/ e \notin Stale /\ r = <<>>
  PROVE  LiveAfter(Append(Q, e), r, C)
<1> DEFINE n == Len(Q) + 1
           P == Append(Q, e)
<1>1. /\ DOMAIN P = DOMAIN Q \cup {n} /\ P[n] = e /\ n \in Nat
      /\ \A i \in DOMAIN Q : P[i] = Q[i] /\ i \in Nat /\ i < n
  BY AppendIs
<1> HIDE DEF n, P
<1> SUFFICES LiveAfter(P, r, C)
  BY DEF P
<1>2. ASSUME NEW j \in DOMAIN P, P[j] \in Live
      PROVE  \/ \E i \in DOMAIN P : i > j /\ P[i] \in C
             \/ r = <<>> /\ \A i \in DOMAIN P : P[i] \in Stale => i < j
  <2>1. CASE j \in DOMAIN Q
    <3>1. \/ \E i \in DOMAIN Q : i > j /\ Q[i] \in C
          \/ r = <<>> /\ \A i \in DOMAIN Q : Q[i] \in Stale => i < j
      BY <1>1, <1>2, <2>1 DEF LiveAfter
    <3>2. CASE \E i \in DOMAIN Q : i > j /\ Q[i] \in C
      BY <1>1, <3>2
    <3>3. CASE r = <<>> /\ \A i \in DOMAIN Q : Q[i] \in Stale => i < j
      BY <1>1, <3>3
    <3> QED BY <3>1, <3>2, <3>3
  <2>2. CASE j = n
    <3>1. e \notin Stale /\ r = <<>>
      BY <1>1, <1>2, <2>2
    <3> QED BY <1>1, <2>2, <3>1
  <2> QED BY <1>1, <2>1, <2>2
<1> QED BY <1>2 DEF LiveAfter

-----------------------------------------------------------------------------
(* The state a handler works on                                             *)

N(s) == s.queue.normal
R(s) == s.can.requests

\* Values of PowerState.
PowerStates == 0 .. 4

CellTyped(c, q) ==
  /\ CellShaped(c) /\ c.fsm \in -1 .. Final(q) + 1 /\ c.step \in 1 .. Final(q) + 1
  /\ c.acks \in [DOMAIN Steps[q] -> 0 .. 2]

Typed(s) ==
  /\ s.queue.normal \in Seq(Events)
  /\ s.off.fsm \in -1 .. 4 /\ s.off.retries \in 0 .. Retries - 1
  /\ s.power.fsm \in PowerStates /\ s.power.current \in PowerStates
  /\ s.power.previous \in PowerStates /\ s.power.destination \in PowerStates
  /\ \A q \in PowerOn : CellTyped(s.seq[q], q)

IsState(s) ==
  /\ Shaped(s) /\ QueueShaped(s.queue) /\ PowerShaped(s.power) /\ SeqShaped(s.seq)
  /\ OffShaped(s.off) /\ CanShaped(s.can) /\ Typed(s)

LEMMA PowerTyped ==
  ASSUME NEW s, IsState(s)
  PROVE  /\ s.power.fsm \in PowerStates /\ s.power.current \in PowerStates
         /\ s.power.previous \in PowerStates /\ s.power.destination \in PowerStates
         /\ s.power.previous \in Int
BY DEF IsState, Typed, PowerStates

LEMMA PowerStatesAre == \A k \in {TRANSITIONING, OFF, MAIN, AUX, FAULT} : k \in PowerStates
BY DEF PowerStates, TRANSITIONING, OFF, MAIN, AUX, FAULT

\* All that the phases tell of a state but the queue and the requests.
SameRest(s, t) ==
  /\ t.queue.highest = s.queue.highest /\ t.power = s.power /\ t.seq = s.seq /\ t.off = s.off
  /\ t.locked = s.locked /\ t.granted = s.granted

TxEvent == Event("can", "TX", 0)

\* t is s with the event e raised.
Pushed(s, t, e) ==
  IsState(t) /\ N(t) = Append(N(s), e) /\ SameRest(s, t) /\ R(t) = R(s)

LEMMA RaisedIs ==
  ASSUME NEW s, IsState(s), NEW of \in Ofs, NEW id \in Ids, NEW data \in Int
  PROVE  Pushed(s, Raised(s, of, id, data), Event(of, id, data))
<1> DEFINE t == Raised(s, of, id, data)
<1>9. t = Raised(s, of, id, data)
  OBVIOUS
<1> HIDE DEF t
<1> SUFFICES Pushed(s, t, Event(of, id, data))
  BY <1>9
<1> DEFINE x == Append(s.queue.normal, Event(of, id, data))
<1>1. t = [s EXCEPT !.queue.normal = x]
  BY <1>9 DEF Raised
<1>2. x = Append(N(s), Event(of, id, data)) /\ x \in Seq(Events)
  BY EventIs DEF N, IsState, Typed
<1> HIDE DEF x
<1>3. Shaped(s) /\ QueueShaped(s.queue)
  BY DEF IsState
<1>4. /\ Shaped(t) /\ QueueShaped(t.queue)
      /\ t.queue.normal = x /\ t.queue.highest = s.queue.highest
      /\ t.power = s.power /\ t.seq = s.seq /\ t.off = s.off /\ t.can = s.can /\ t.owed = s.owed
      /\ t.locked = s.locked /\ t.granted = s.granted
  BY <1>1, <1>3 DEF Shaped, QueueShaped
<1>5. IsState(t)
  BY <1>2, <1>4 DEF IsState, Typed
<1> QED BY <1>2, <1>4, <1>5 DEF N, R, SameRest, Pushed

LEMMA TransmittedIs ==
  ASSUME NEW s, IsState(s), NEW msg, NEW devices
  PROVE  Pushed(s, Transmitted(s, msg, devices), TxEvent)
<1> DEFINE t == Transmitted(s, msg, devices)
<1>9. t = Transmitted(s, msg, devices)
  OBVIOUS
<1> HIDE DEF t
<1> SUFFICES Pushed(s, t, TxEvent)
  BY <1>9
<1> DEFINE u == Raised(s, "can", "TX", 0)
           x == Append(u.can.tx, Ask(msg, devices))
<1>1. t = [u EXCEPT !.can.tx = x]
  BY <1>9 DEF Transmitted
<1>2. u = Raised(s, "can", "TX", 0)
  OBVIOUS
<1> HIDE DEF u, x
<1>3. Pushed(s, u, TxEvent)
  BY <1>2, RaisedIs DEF TxEvent, Ofs, Ids
<1>4. Shaped(u) /\ CanShaped(u.can)
  BY <1>3 DEF IsState, Pushed
<1>5. /\ Shaped(t) /\ CanShaped(t.can) /\ t.can.requests = u.can.requests
      /\ t.queue = u.queue /\ t.power = u.power /\ t.seq = u.seq /\ t.off = u.off /\ t.owed = u.owed
      /\ t.locked = u.locked /\ t.granted = u.granted
  BY <1>1, <1>4 DEF Shaped, CanShaped
<1>6. IsState(t)
  BY <1>3, <1>5 DEF IsState, Typed, Pushed
<1> QED BY <1>3, <1>5, <1>6 DEF N, R, SameRest, Pushed

\* t is s with the request r sent.
Sent(s, t, r) ==
  IsState(t) /\ N(t) = Append(N(s), TxEvent) /\ SameRest(s, t) /\ R(t) = Append(R(s), r)

Request(from, step, msg, devices) == [from |-> from, step |-> step, msg |-> msg, waiting |-> devices]

LEMMA RequestedIs ==
  ASSUME NEW s, IsState(s), NEW from, NEW step, NEW msg, NEW devices
  PROVE  Sent(s, Requested(s, from, step, msg, devices), Request(from, step, msg, devices))
<1> DEFINE t == Requested(s, from, step, msg, devices)
           r == Request(from, step, msg, devices)
           x == Append(s.can.requests, r)
           u == [s EXCEPT !.can.requests = x]
<1>1. t = Transmitted(u, msg, devices)
  BY DEF Requested, Request
<1>2. u = [s EXCEPT !.can.requests = x]
  OBVIOUS
<1>3. x = Append(R(s), r)
  BY DEF R
<1> HIDE DEF u, x, r, t
<1>4. Shaped(s) /\ CanShaped(s.can)
  BY DEF IsState
<1>5. /\ Shaped(u) /\ CanShaped(u.can) /\ u.can.requests = x
      /\ u.queue = s.queue /\ u.power = s.power /\ u.seq = s.seq /\ u.off = s.off /\ u.owed = s.owed
      /\ u.locked = s.locked /\ u.granted = s.granted
  BY <1>2, <1>4 DEF Shaped, CanShaped
<1>6. IsState(u)
  BY <1>5 DEF IsState, Typed
<1>7. Pushed(u, t, TxEvent)
  BY <1>1, <1>6, TransmittedIs
<1>8. Sent(s, t, r)
  BY <1>3, <1>5, <1>7 DEF N, R, SameRest, Pushed, Sent
<1> QED BY <1>8 DEF t, r

\* t is s but for the power-on sequence q, for the off sequence, for the power FSM, or for the answers.
SameButSeq(s, t, q) ==
  /\ IsState(t) /\ t.queue = s.queue /\ t.power = s.power /\ t.off = s.off /\ t.can = s.can
  /\ t.locked = s.locked /\ t.granted = s.granted /\ \A p \in PowerOn : p # q => t.seq[p] = s.seq[p]

SameButOff(s, t) ==
  /\ IsState(t) /\ t.queue = s.queue /\ t.power = s.power /\ t.seq = s.seq /\ t.can = s.can
  /\ t.locked = s.locked /\ t.granted = s.granted

SameButPower(s, t) ==
  /\ IsState(t) /\ t.queue = s.queue /\ t.seq = s.seq /\ t.off = s.off /\ t.can = s.can
  /\ t.locked = s.locked /\ t.granted = s.granted

SameButGranted(s, t) ==
  /\ IsState(t) /\ t.queue = s.queue /\ t.power = s.power /\ t.seq = s.seq /\ t.off = s.off /\ t.can = s.can
  /\ t.locked = s.locked

WithCell(s, q, c) == [s EXCEPT !.seq[q] = c]
LEMMA CellIs ==
  ASSUME NEW s, IsState(s), NEW q \in PowerOn, NEW c, CellTyped(c, q)
  PROVE  SameButSeq(s, WithCell(s, q, c), q) /\ WithCell(s, q, c).seq[q] = c
<1> DEFINE t == WithCell(s, q, c)
<1>1. t = [s EXCEPT !.seq[q] = c]
  BY DEF WithCell
<1> HIDE DEF t
<1>2. Shaped(s) /\ SeqShaped(s.seq) /\ CellShaped(s.seq[q])
  BY DEF IsState, Typed, CellTyped
<1>3. /\ Shaped(t) /\ SeqShaped(t.seq) /\ t.seq[q] = c
      /\ \A p \in PowerOn : p # q => t.seq[p] = s.seq[p]
      /\ t.queue = s.queue /\ t.power = s.power /\ t.off = s.off /\ t.can = s.can
      /\ t.locked = s.locked /\ t.granted = s.granted
  BY <1>1, <1>2 DEF Shaped, SeqShaped, CellShaped
<1>4. \A p \in PowerOn : CellTyped(t.seq[p], p)
  BY <1>3 DEF IsState, Typed
<1>5. IsState(t)
  BY <1>3, <1>4 DEF IsState, Typed
<1>6. SameButSeq(s, t, q) /\ t.seq[q] = c
  BY <1>3, <1>5 DEF SameButSeq
<1> QED BY <1>6 DEF t

WithSeqFsm(s, q, k) == [s EXCEPT !.seq[q].fsm = k]
LEMMA SeqFsmIs ==
  ASSUME NEW s, IsState(s), NEW q \in PowerOn, NEW k \in -1 .. Final(q) + 1
  PROVE  LET t == WithSeqFsm(s, q, k)
         IN SameButSeq(s, t, q) /\ t.seq[q].fsm = k /\ t.seq[q].step = s.seq[q].step /\ t.seq[q].acks = s.seq[q].acks
<1> DEFINE c == [fsm |-> k, step |-> s.seq[q].step, acks |-> s.seq[q].acks]
           t == WithCell(s, q, c)
<1>1. /\ c.fsm = k /\ c.step = s.seq[q].step /\ c.acks = s.seq[q].acks /\ CellShaped(c)
      /\ CellTyped(s.seq[q], q) /\ CellShaped(s.seq[q])
  BY DEF CellShaped, CellTyped, IsState, Typed
<1>2. WithSeqFsm(s, q, k) = t
  <2>1. [s.seq[q] EXCEPT !.fsm = k] = c
    BY <1>1 DEF CellShaped
  <2>2. Shaped(s) /\ SeqShaped(s.seq)
    BY DEF IsState
  <2>3. WithSeqFsm(s, q, k) = [s EXCEPT !.seq = [s.seq EXCEPT ![q] = [s.seq[q] EXCEPT !.fsm = k]]]
    BY <2>2 DEF WithSeqFsm, Shaped, SeqShaped
  <2>4. t = [s EXCEPT !.seq = [s.seq EXCEPT ![q] = c]]
    BY <2>2 DEF WithCell, Shaped, SeqShaped
  <2> QED BY <2>1, <2>3, <2>4
<1> HIDE DEF c
<1>3. CellTyped(c, q)
  BY <1>1 DEF CellTyped
<1>4. SameButSeq(s, t, q) /\ t.seq[q] = c
  BY <1>3, CellIs
<1> QED BY <1>1, <1>2, <1>4

\* A count of ACKs changes.
WithAcks(s, q, k, n) == [s EXCEPT !.seq[q].acks[k] = n]
LEMMA AcksIs ==
  ASSUME NEW s, IsState(s), NEW q \in PowerOn, NEW k, NEW n \in 0 .. 2
  PROVE  LET t == WithAcks(s, q, k, n)
         IN /\ SameButSeq(s, t, q) /\ t.seq[q].fsm = s.seq[q].fsm /\ t.seq[q].step = s.seq[q].step
            /\ k \in DOMAIN Steps[q] => t.seq[q].acks[k] = n
            /\ \A j \in DOMAIN Steps[q] : j # k => t.seq[q].acks[j] = s.seq[q].acks[j]
<1> DEFINE a == [s.seq[q].acks EXCEPT ![k] = n]
           c == [fsm |-> s.seq[q].fsm, step |-> s.seq[q].step, acks |-> a]
           t == WithCell(s, q, c)
<1>1. /\ c.fsm = s.seq[q].fsm /\ c.step = s.seq[q].step /\ c.acks = a /\ CellShaped(c)
      /\ CellTyped(s.seq[q], q) /\ CellShaped(s.seq[q])
  BY DEF CellShaped, CellTyped, IsState, Typed
<1>2. /\ a \in [DOMAIN Steps[q] -> 0 .. 2] /\ (k \in DOMAIN Steps[q] => a[k] = n)
      /\ \A j \in DOMAIN Steps[q] : j # k => a[j] = s.seq[q].acks[j]
  BY <1>1 DEF CellTyped
<1>3. WithAcks(s, q, k, n) = t
  <2>1. [s.seq[q] EXCEPT !.acks = a] = c
    BY <1>1 DEF CellShaped
  <2>2. Shaped(s) /\ SeqShaped(s.seq)
    BY DEF IsState
  <2>3. WithAcks(s, q, k, n) = [s EXCEPT !.seq = [s.seq EXCEPT ![q] = [s.seq[q] EXCEPT !.acks = a]]]
    BY <2>2, <1>1 DEF WithAcks, Shaped, SeqShaped, CellShaped
  <2>4. t = [s EXCEPT !.seq = [s.seq EXCEPT ![q] = c]]
    BY <2>2 DEF WithCell, Shaped, SeqShaped
  <2> QED BY <2>1, <2>3, <2>4
<1> HIDE DEF c, a
<1>4. CellTyped(c, q)
  BY <1>1, <1>2 DEF CellTyped
<1>5. SameButSeq(s, t, q) /\ t.seq[q] = c
  BY <1>4, CellIs
<1> QED BY <1>1, <1>2, <1>3, <1>5

WithStep(s, q, k) == [s EXCEPT !.seq[q].step = k]
LEMMA StepIs ==
  ASSUME NEW s, IsState(s), NEW q \in PowerOn, NEW k \in 1 .. Final(q) + 1
  PROVE  LET t == WithStep(s, q, k)
         IN SameButSeq(s, t, q) /\ t.seq[q].fsm = s.seq[q].fsm /\ t.seq[q].step = k /\ t.seq[q].acks = s.seq[q].acks
<1> DEFINE c == [fsm |-> s.seq[q].fsm, step |-> k, acks |-> s.seq[q].acks]
           t == WithCell(s, q, c)
<1>1. /\ c.fsm = s.seq[q].fsm /\ c.step = k /\ c.acks = s.seq[q].acks /\ CellShaped(c)
      /\ CellTyped(s.seq[q], q) /\ CellShaped(s.seq[q])
  BY DEF CellShaped, CellTyped, IsState, Typed
<1>2. WithStep(s, q, k) = t
  <2>1. [s.seq[q] EXCEPT !.step = k] = c
    BY <1>1 DEF CellShaped
  <2>2. Shaped(s) /\ SeqShaped(s.seq)
    BY DEF IsState
  <2>3. WithStep(s, q, k) = [s EXCEPT !.seq = [s.seq EXCEPT ![q] = [s.seq[q] EXCEPT !.step = k]]]
    BY <2>2 DEF WithStep, Shaped, SeqShaped
  <2>4. t = [s EXCEPT !.seq = [s.seq EXCEPT ![q] = c]]
    BY <2>2 DEF WithCell, Shaped, SeqShaped
  <2> QED BY <2>1, <2>3, <2>4
<1> HIDE DEF c
<1>3. CellTyped(c, q)
  BY <1>1 DEF CellTyped
<1>4. SameButSeq(s, t, q) /\ t.seq[q] = c
  BY <1>3, CellIs
<1> QED BY <1>1, <1>2, <1>4

WithOffFsm(s, k) == [s EXCEPT !.off.fsm = k]
LEMMA OffFsmIs ==
  ASSUME NEW s, IsState(s), NEW k \in -1 .. 4
  PROVE  SameButOff(s, WithOffFsm(s, k)) /\ WithOffFsm(s, k).off.fsm = k
<1> DEFINE t == WithOffFsm(s, k)
<1>1. t = [s EXCEPT !.off.fsm = k]
  BY DEF WithOffFsm
<1> HIDE DEF t
<1>2. Shaped(s) /\ OffShaped(s.off)
  BY DEF IsState
<1>3. /\ Shaped(t) /\ OffShaped(t.off) /\ t.off.fsm = k /\ t.off.retries = s.off.retries
      /\ t.queue = s.queue /\ t.power = s.power /\ t.seq = s.seq /\ t.can = s.can
      /\ t.locked = s.locked /\ t.granted = s.granted
  BY <1>1, <1>2 DEF Shaped, OffShaped
<1>4. IsState(t)
  BY <1>3 DEF IsState, Typed
<1>5. SameButOff(s, t) /\ t.off.fsm = k
  BY <1>3, <1>4 DEF SameButOff
<1> QED BY <1>5 DEF t

WithRetries(s, k) == [s EXCEPT !.off.retries = k]
LEMMA RetriesIs ==
  ASSUME NEW s, IsState(s), NEW k \in 0 .. Retries - 1
  PROVE  SameButOff(s, WithRetries(s, k)) /\ WithRetries(s, k).off.fsm = s.off.fsm
<1> DEFINE t == WithRetries(s, k)
<1>1. t = [s EXCEPT !.off.retries = k]
  BY DEF WithRetries
<1> HIDE DEF t
<1>2. Shaped(s) /\ OffShaped(s.off)
  BY DEF IsState
<1>3. /\ Shaped(t) /\ OffShaped(t.off) /\ t.off.fsm = s.off.fsm /\ t.off.retries = k
      /\ t.queue = s.queue /\ t.power = s.power /\ t.seq = s.seq /\ t.can = s.can
      /\ t.locked = s.locked /\ t.granted = s.granted
  BY <1>1, <1>2 DEF Shaped, OffShaped
<1>4. IsState(t)
  BY <1>3 DEF IsState, Typed
<1>5. SameButOff(s, t) /\ t.off.fsm = s.off.fsm
  BY <1>3, <1>4 DEF SameButOff
<1> QED BY <1>5 DEF t

WithGranted(s, x) == [s EXCEPT !.granted = x]
LEMMA GrantedIs ==
  ASSUME NEW s, IsState(s), NEW x
  PROVE  SameButGranted(s, WithGranted(s, x)) /\ WithGranted(s, x).granted = x
<1> DEFINE t == WithGranted(s, x)
<1>1. t = [s EXCEPT !.granted = x]
  BY DEF WithGranted
<1> HIDE DEF t
<1>2. Shaped(s)
  BY DEF IsState
<1>3. /\ Shaped(t) /\ t.granted = x
      /\ t.queue = s.queue /\ t.power = s.power /\ t.seq = s.seq /\ t.off = s.off /\ t.can = s.can
      /\ t.locked = s.locked
  BY <1>1, <1>2 DEF Shaped
<1>4. IsState(t)
  BY <1>3 DEF IsState, Typed
<1>5. SameButGranted(s, t) /\ t.granted = x
  BY <1>3, <1>4 DEF SameButGranted
<1> QED BY <1>5 DEF t

-----------------------------------------------------------------------------
(* The phases of a transition: what the queue Q, the requests r, the power  *)
(* FSM p, the two power-on sequences x, the off sequence o and the answers  *)
(* g may be together                                                        *)

Clear(p) == Event("power", "CLEAR_FAULT", p.previous)
Faulty == Event("power", "FAULT", 0)
ToBegin(q) == Event(q, "BEGIN", 0)
Advance(q, k) == Event(q, "ADVANCE", k)
Fails(q, k) == Event(q, "FAULT", k)
Complete(q) == Event(q, "COMPLETE", 0)
Discharged == Event("off", "DISCHARGED", 0)
RelaysOpened == Event("off", "RELAYS_OPENED", 0)

Carries(Q, T) == AllIn(Q, Noise \cup T) /\ AtMostOne(Q, T)
RestQueue(Q, r) == AllIn(Q, Noise \cup (PowerRequests \cup Stale)) /\ LiveAfter(Q, r, {})
FaultQueue(Q, r, p) ==
  AllIn(Q, Noise \cup (Stale \cup {Clear(p)})) /\ AtMostOne(Q, {Clear(p)}) /\ LiveAfter(Q, r, {Clear(p)})
BeginQueue(Q, q) ==
  /\ AllIn(Q, Noise \cup (PowerRequests \cup {ToBegin(q)})) /\ AtMostOne(Q, {ToBegin(q)})
  /\ InOrder(Q, PowerRequests, {ToBegin(q)})
RefusedQueue(Q, r) ==
  /\ AllIn(Q, Noise \cup Stale) /\ InOrder(Q, {OffFault}, {TurnedOff}) /\ ~NoneOf(Q, {OffFault})
  /\ r # <<>> => NoneOf(Q, {TurnedOff})
FailedQueue(Q) == AllIn(Q, Noise \cup (Stale \cup {Faulty})) /\ AtMostOne(Q, {Faulty})

Distributions == {"rear", "front"}
OffRequest(W) == Request("off", TurningOff, "OFF_SEQUENCE", W)
RelayRequest(W) == Request("relay", OpeningRelays, "RELAY_STATES", W)
StepRequest(q, k, W) == Request(q, k, Steps[q][k].msg, W)
OffOnly(r) == r = <<>> \/ \E W \in SUBSET Distributions : r = <<OffRequest(W)>>

Transits(p) == p.fsm = TRANSITIONING /\ p.current = TRANSITIONING
SeqsIdle(x) == \A q \in PowerOn : x[q] = SequenceAtStart(q)
Alone(q, x, o) == o.fsm = Idle /\ \A p \in PowerOn : p # q => x[p] = SequenceAtStart(p)

Granted(q, k, g) == \A j \in 1 .. k : j < Final(q) => \A d \in Steps[q][j].devices : <<q, j, d>> \in g
Fresh(q, k, x) == \A j \in 1 .. Final(q) : j >= k => x[q].acks[j] = AckCounts(q)[j]
OffGranted(D, g) == \A d \in D : <<"off", TurningOff, d>> \in g
RelayGranted(g) == <<"relay", OpeningRelays, "bms">> \in g

Resting(r, p, x, o) == p.fsm \in {OFF, MAIN, AUX} /\ SeqsIdle(x) /\ o.fsm = Idle /\ OffOnly(r)
Faulting(r, p, x, o) == p.fsm = FAULT /\ p.current = FAULT /\ SeqsIdle(x) /\ o.fsm = Idle /\ OffOnly(r)
Beginning(r, p, x, o) == Transits(p) /\ SeqsIdle(x) /\ o.fsm = Idle /\ r = <<>>

\* A power-on sequence: in step k, before the ADVANCE of step k, before its FAULT, and its two ends.
Asking(q, k, r, p, x, o, g) ==
  /\ Transits(p) /\ Alone(q, x, o) /\ x[q].fsm = k /\ x[q].step = k
  /\ Granted(q, k - 1, g) /\ Fresh(q, k + 1, x)
  /\ \/ r = <<>>
     \/ \E W \in SUBSET Steps[q][k].devices :
          W # {} /\ r = <<StepRequest(q, k, W)>> /\ x[q].acks[k] = Cardinality(W)
Moving(q, k, r, p, x, o, g) ==
  /\ Transits(p) /\ Alone(q, x, o) /\ x[q].fsm = k /\ x[q].step = k + 1
  /\ Granted(q, k, g) /\ Fresh(q, k + 1, x) /\ r = <<>>
Failing(q, k, r, p, x, o, g) ==
  Transits(p) /\ Alone(q, x, o) /\ x[q].fsm = k /\ Granted(q, k - 1, g) /\ r = <<>>
Finished(q, r, p, x, o, g) ==
  Transits(p) /\ Alone(q, x, o) /\ x[q].fsm = Final(q) + 1 /\ Granted(q, Final(q), g) /\ r = <<>>
Failed(q, r, p, x, o) == Transits(p) /\ Alone(q, x, o) /\ x[q].fsm = Faulted /\ r = <<>>

\* The off sequence, in each of its steps.
TurningTo(k, p, x, o) == Transits(p) /\ SeqsIdle(x) /\ o.fsm = k
Turning(r, g) == \E W \in SUBSET Distributions : r = <<OffRequest(W)>> /\ OffGranted(Distributions \ W, g)

OffPhase(Q, r, p, x, o, g) ==
  \/ TurningTo(Discharging, p, x, o) /\ r = <<>> /\ Carries(Q, {Discharged})
  \/ /\ TurningTo(TurningOff, p, x, o)
     /\ \/ Turning(r, g) /\ Carries(Q, {})
        \/ r = <<>> /\ OffGranted(Distributions, g) /\ Carries(Q, {TurnedOff})
        \/ OffOnly(r) /\ RefusedQueue(Q, r)
  \/ /\ TurningTo(OpeningRelays, p, x, o) /\ OffGranted(Distributions, g)
     /\ \/ r = <<RelayRequest({"bms"})>> /\ Carries(Q, {})
        \/ r = <<>> /\ Carries(Q, {OffFault})
        \/ r = <<>> /\ RelayGranted(g) /\ Carries(Q, {RelaysOpened})
  \/ /\ TurningTo(OffComplete, p, x, o) /\ OffGranted(Distributions, g) /\ RelayGranted(g)
     /\ r = <<>> /\ Carries(Q, {Complete("off")})
  \/ TurningTo(Faulted, p, x, o) /\ OffOnly(r) /\ FailedQueue(Q)

OnPhase(Q, r, p, x, o, g) ==
  \E q \in PowerOn :
    \/ \E k \in 1 .. Final(q) : Asking(q, k, r, p, x, o, g) /\ Carries(Q, {})
    \/ \E k \in 1 .. Final(q) : Moving(q, k, r, p, x, o, g) /\ Carries(Q, {Advance(q, k)})
    \/ \E k \in 1 .. Final(q) : Failing(q, k, r, p, x, o, g) /\ Carries(Q, {Fails(q, k)})
    \/ Finished(q, r, p, x, o, g) /\ Carries(Q, {Complete(q)})
    \/ Failed(q, r, p, x, o) /\ Carries(Q, {Faulty})

Phase(Q, r, p, x, o, g) ==
  \/ Resting(r, p, x, o) /\ RestQueue(Q, r)
  \/ Faulting(r, p, x, o) /\ FaultQueue(Q, r, p)
  \/ Beginning(r, p, x, o) /\ \E q \in {"main", "aux", "off"} : BeginQueue(Q, q)
  \/ OnPhase(Q, r, p, x, o, g)
  \/ OffPhase(Q, r, p, x, o, g)

InPhase(s) == Phase(N(s), R(s), s.power, s.seq, s.off, s.granted)

-----------------------------------------------------------------------------
(* Events every phase admits: messages of the CAN stack and the button       *)

\* P is Q without a head that is noise, or with a message of the CAN stack or a press behind.
NoiseStep(Q, P) ==
  \/ Q # <<>> /\ Head(Q) \in Noise /\ P = Tail(Q)
  \/ \E e \in Noise : P = Append(Q, e)

\* The same, but no press while requests r are pending.
CalmStep(Q, P, r) ==
  \/ Q # <<>> /\ Head(Q) \in Noise /\ P = Tail(Q)
  \/ \E e \in Noise : P = Append(Q, e) /\ (e \in CanEvents \/ r = <<>>)

LEMMA NoiseAllIn ==
  ASSUME NEW Q \in Seq(Events), NEW P, NoiseStep(Q, P), NEW S, AllIn(Q, Noise \cup S)
  PROVE  AllIn(P, Noise \cup S)
<1>1. CASE Q # <<>> /\ Head(Q) \in Noise /\ P = Tail(Q)
  BY <1>1, PopAllIn
<1>2. ASSUME NEW e \in Noise, P = Append(Q, e) PROVE AllIn(P, Noise \cup S)
  <2>1. e \in Events /\ e \in Noise \cup S
    BY EventFacts
  <2> QED BY <1>2, <2>1, AddAllIn
<1> QED BY <1>1, <1>2 DEF NoiseStep

LEMMA NoiseAtMostOne ==
  ASSUME NEW Q \in Seq(Events), NEW P, NoiseStep(Q, P), NEW S, S \cap Noise = {}, AtMostOne(Q, S)
  PROVE  AtMostOne(P, S)
<1>1. CASE Q # <<>> /\ Head(Q) \in Noise /\ P = Tail(Q)
  BY <1>1, PopAtMostOne
<1>2. ASSUME NEW e \in Noise, P = Append(Q, e) PROVE AtMostOne(P, S)
  <2>1. e \in Events /\ e \notin S
    BY EventFacts
  <2> QED BY <1>2, <2>1, AddAtMostOne
<1> QED BY <1>1, <1>2 DEF NoiseStep

LEMMA NoiseInOrder ==
  ASSUME NEW Q \in Seq(Events), NEW P, NoiseStep(Q, P), NEW A, NEW B, A \cap Noise = {}, B \cap Noise = {}, InOrder(Q, A, B)
  PROVE  InOrder(P, A, B)
<1>1. CASE Q # <<>> /\ Head(Q) \in Noise /\ P = Tail(Q)
  BY <1>1, PopInOrder
<1>2. ASSUME NEW e \in Noise, P = Append(Q, e) PROVE InOrder(P, A, B)
  <2>1. e \in Events /\ e \notin A /\ e \notin B
    BY EventFacts
  <2> QED BY <1>2, <2>1, AddInOrder
<1> QED BY <1>1, <1>2 DEF NoiseStep

LEMMA NoiseNoneOf ==
  ASSUME NEW Q \in Seq(Events), NEW P, NoiseStep(Q, P), NEW S, S \cap Noise = {}
  PROVE  NoneOf(Q, S) <=> NoneOf(P, S)
<1>1. CASE Q # <<>> /\ Head(Q) \in Noise /\ P = Tail(Q)
  <2>1. ASSUME NoneOf(P, S), NEW i \in DOMAIN Q PROVE Q[i] \notin S
    <3>1. CASE i = 1
      BY <1>1, <3>1, TailIs
    <3>2. CASE i # 1
      <4>1. i \in Nat /\ i > 1
        BY <1>1, <3>2, TailIs
      <4>2. i - 1 \in DOMAIN P /\ P[i - 1] = Q[i]
        BY <1>1, <4>1, TailIs
      <4> QED BY <2>1, <4>2 DEF NoneOf
    <3> QED BY <3>1, <3>2
  <2>2. NoneOf(P, S) => NoneOf(Q, S)
    BY <2>1 DEF NoneOf
  <2>3. NoneOf(Q, S) => NoneOf(P, S)
    BY <1>1, PopNoneOf
  <2> QED BY <2>2, <2>3
<1>2. ASSUME NEW e \in Noise, P = Append(Q, e) PROVE NoneOf(Q, S) <=> NoneOf(P, S)
  <2>1. e \in Events /\ e \notin S
    BY EventFacts
  <2>2. NoneOf(Q, S) => NoneOf(P, S)
    BY <1>2, <2>1, AddNoneOf
  <2>3. ASSUME NoneOf(P, S), NEW i \in DOMAIN Q PROVE Q[i] \notin S
    BY <1>2, <2>1, <2>3, AppendIs DEF NoneOf
  <2> QED BY <2>2, <2>3 DEF NoneOf
<1> QED BY <1>1, <1>2 DEF NoiseStep

LEMMA NoiseLive ==
  ASSUME NEW Q \in Seq(Events), NEW P, NEW r, CalmStep(Q, P, r), NEW C, LiveAfter(Q, r, C)
  PROVE  LiveAfter(P, r, C)
<1>1. CASE Q # <<>> /\ Head(Q) \in Noise /\ P = Tail(Q)
  BY <1>1, PopLive
<1>2. ASSUME NEW e \in Noise, P = Append(Q, e), e \in CanEvents \/ r = <<>> PROVE LiveAfter(P, r, C)
  <2>1. e \in Events /\ e \notin Stale /\ (e \in CanEvents => e \notin Live)
    BY EventFacts
  <2> QED BY <1>2, <2>1, AddLive
<1> QED BY <1>1, <1>2 DEF CalmStep

LEMMA TokenFacts ==
  /\ \A p : p.previous \in Int => Clear(p) \in Control
  /\ Faulty \in Control /\ Discharged \in Control /\ RelaysOpened \in Control
  /\ \A q \in {"main", "aux", "off"} : ToBegin(q) \in Control /\ Complete(q) \in Control
  /\ \A q \in PowerOn : \A k \in Int : Advance(q, k) \in Control /\ Fails(q, k) \in Control
<1>1. {"main", "aux", "off", "power"} \subseteq Ofs \ {"button", "can"}
  BY DEF Ofs
<1>2. {"BEGIN", "ADVANCE", "FAULT", "COMPLETE", "DISCHARGED", "RELAYS_OPENED", "CLEAR_FAULT"} \subseteq Ids
  BY DEF Ids
<1>3. \A of \in {"main", "aux", "off", "power"}, id \in {"BEGIN", "ADVANCE", "FAULT", "COMPLETE", "DISCHARGED", "RELAYS_OPENED", "CLEAR_FAULT"}, data \in Int :
        Event(of, id, data) \in Control
  <2> TAKE of \in {"main", "aux", "off", "power"}, id \in {"BEGIN", "ADVANCE", "FAULT", "COMPLETE", "DISCHARGED", "RELAYS_OPENED", "CLEAR_FAULT"}, data \in Int
  <2>1. of \in Ofs /\ id \in Ids /\ of \notin {"button", "can"}
    BY <1>1, <1>2
  <2> QED BY <2>1, EventIs
<1>4. PowerOn \subseteq {"main", "aux", "off", "power"}
  BY DEF PowerOn
<1> QED BY <1>3, <1>4 DEF Clear, Faulty, Discharged, RelaysOpened, ToBegin, Complete, Advance, Fails

LEMMA NoiseCarries ==
  ASSUME NEW Q \in Seq(Events), NEW P, NoiseStep(Q, P), NEW T, T \subseteq Control, Carries(Q, T)
  PROVE  Carries(P, T)
<1>1. T \cap Noise = {}
  BY EventFacts
<1> QED BY <1>1, NoiseAllIn, NoiseAtMostOne DEF Carries

LEMMA NoiseRest ==
  ASSUME NEW Q \in Seq(Events), NEW P, NoiseStep(Q, P), NEW r, CalmStep(Q, P, r), RestQueue(Q, r)
  PROVE  RestQueue(P, r)
BY NoiseAllIn, NoiseLive DEF RestQueue

LEMMA NoiseFault ==
  ASSUME NEW Q \in Seq(Events), NEW P, NoiseStep(Q, P), NEW r, CalmStep(Q, P, r), NEW p, p.previous \in Int, FaultQueue(Q, r, p)
  PROVE  FaultQueue(P, r, p)
<1>1. {Clear(p)} \cap Noise = {}
  BY EventFacts, TokenFacts
<1> QED BY <1>1, NoiseAllIn, NoiseAtMostOne, NoiseLive DEF FaultQueue

LEMMA NoiseBegin ==
  ASSUME NEW Q \in Seq(Events), NEW P, NoiseStep(Q, P), NEW q \in {"main", "aux", "off"}, BeginQueue(Q, q)
  PROVE  BeginQueue(P, q)
<1>1. {ToBegin(q)} \cap Noise = {} /\ PowerRequests \cap Noise = {}
  BY EventFacts, TokenFacts
<1> QED BY <1>1, NoiseAllIn, NoiseAtMostOne, NoiseInOrder DEF BeginQueue

LEMMA NoiseRefused ==
  ASSUME NEW Q \in Seq(Events), NEW P, NoiseStep(Q, P), NEW r, RefusedQueue(Q, r)
  PROVE  RefusedQueue(P, r)
<1>1. {OffFault} \cap Noise = {} /\ {TurnedOff} \cap Noise = {}
  BY EventFacts DEF Stale
<1> QED BY <1>1, NoiseAllIn, NoiseInOrder, NoiseNoneOf DEF RefusedQueue

LEMMA NoiseFailed ==
  ASSUME NEW Q \in Seq(Events), NEW P, NoiseStep(Q, P), FailedQueue(Q)
  PROVE  FailedQueue(P)
<1>1. {Faulty} \cap Noise = {}
  BY EventFacts, TokenFacts
<1> QED BY <1>1, NoiseAllIn, NoiseAtMostOne DEF FailedQueue

LEMMA NoisePhase ==
  ASSUME NEW Q \in Seq(Events), NEW P, NoiseStep(Q, P), NEW r, NEW p, p.previous \in Int, NEW x, NEW o, NEW g,
         Resting(r, p, x, o) \/ Faulting(r, p, x, o) => CalmStep(Q, P, r), Phase(Q, r, p, x, o, g)
  PROVE  Phase(P, r, p, x, o, g)
<1>1. CASE Resting(r, p, x, o) /\ RestQueue(Q, r)
  BY <1>1, NoiseRest DEF Phase
<1>2. CASE Faulting(r, p, x, o) /\ FaultQueue(Q, r, p)
  BY <1>2, NoiseFault DEF Phase
<1>3. CASE Beginning(r, p, x, o) /\ \E q \in {"main", "aux", "off"} : BeginQueue(Q, q)
  BY <1>3, NoiseBegin DEF Phase
<1>4. CASE OnPhase(Q, r, p, x, o, g)
  <2>1. PICK q \in PowerOn :
          \/ \E k \in 1 .. Final(q) : Asking(q, k, r, p, x, o, g) /\ Carries(Q, {})
          \/ \E k \in 1 .. Final(q) : Moving(q, k, r, p, x, o, g) /\ Carries(Q, {Advance(q, k)})
          \/ \E k \in 1 .. Final(q) : Failing(q, k, r, p, x, o, g) /\ Carries(Q, {Fails(q, k)})
          \/ Finished(q, r, p, x, o, g) /\ Carries(Q, {Complete(q)})
          \/ Failed(q, r, p, x, o) /\ Carries(Q, {Faulty})
    BY <1>4 DEF OnPhase
  <2>2. q \in {"main", "aux", "off"} /\ \A k \in 1 .. Final(q) : k \in Int
    BY DEF PowerOn
  <2>3. /\ {} \subseteq Control /\ {Complete(q)} \subseteq Control /\ {Faulty} \subseteq Control
        /\ \A k \in 1 .. Final(q) : {Advance(q, k)} \subseteq Control /\ {Fails(q, k)} \subseteq Control
    BY <2>2, TokenFacts
  <2>4. OnPhase(P, r, p, x, o, g)
    BY <2>1, <2>3, NoiseCarries DEF OnPhase
  <2> QED BY <2>4 DEF Phase
<1>5. CASE OffPhase(Q, r, p, x, o, g)
  <2>1. /\ {} \subseteq Control /\ {Discharged} \subseteq Control /\ {TurnedOff} \subseteq Control /\ {OffFault} \subseteq Control
        /\ {RelaysOpened} \subseteq Control /\ {Complete("off")} \subseteq Control
    BY TokenFacts, EventFacts DEF Stale
  <2>2. OffPhase(P, r, p, x, o, g)
    BY <1>5, <2>1, NoiseCarries, NoiseRefused, NoiseFailed DEF OffPhase
  <2> QED BY <2>2 DEF Phase
<1> QED BY <1>1, <1>2, <1>3, <1>4, <1>5 DEF Phase

-----------------------------------------------------------------------------
(* One round of the main loop: which handlers leave the state alone         *)

LEMMA CanQuiet ==
  ASSUME NEW s, NEW e, e.of # "can" PROVE CanHandled(s, e) = s
BY DEF CanHandled

LEMMA SequenceQuiet ==
  ASSUME NEW s, NEW q \in PowerOn, NEW e, e.of # q, e.of = "power" /\ e.id = "FAULT" => s.seq[q].fsm # Faulted
  PROVE  SequenceHandled(s, q, e) = s
BY DEF SequenceHandled, PowerOn

LEMMA OffQuiet ==
  ASSUME NEW s, NEW e, e.of # "off", e.of = "power" /\ e.id = "FAULT" => s.off.fsm # Faulted
  PROVE  OffHandled(s, e) = s
BY DEF OffHandled

LEMMA PowerQuiet ==
  ASSUME NEW s, NEW e, e.of # "power", e.id # "COMPLETE" /\ e.id # "CLEAR_FAULT"
  PROVE  PowerHandled(s, e) = s
BY DEF PowerHandled

LEMMA ButtonQuiet ==
  ASSUME NEW s, NEW e, e.of # "button", NEW pressed, NEW parked
  PROVE  ButtonHandled(s, e, pressed, parked) = s
BY DEF ButtonHandled

\* The FSMs' part of a round.
Handled(s, e) ==
  PowerHandled(OffHandled(SequenceHandled(SequenceHandled(s, "main", e), "aux", e), e), e)

LEMMA HandledByNone ==
  ASSUME NEW s, NEW e \in Noise PROVE Handled(s, e) = s
<1>1. (e.of = "button" \/ e.of = "can") /\ e.id # "COMPLETE" /\ e.id # "CLEAR_FAULT"
  BY DEF Noise, Buttons, CanEvents, Event
<1>2. "main" \in PowerOn /\ "aux" \in PowerOn /\ e.of # "main" /\ e.of # "aux" /\ e.of # "off" /\ e.of # "power"
  BY <1>1 DEF PowerOn
<1>3. SequenceHandled(s, "main", e) = s /\ SequenceHandled(s, "aux", e) = s
  BY <1>2, SequenceQuiet
<1>4. OffHandled(s, e) = s
  BY <1>2, OffQuiet
<1>5. PowerHandled(s, e) = s
  BY <1>1, <1>2, PowerQuiet
<1> QED BY <1>3, <1>4, <1>5 DEF Handled

\* The sequence an event is for handles it, and the power FSM after it.
LEMMA HandledBySequence ==
  ASSUME NEW s, NEW q \in PowerOn, NEW e, e.of = q
  PROVE  Handled(s, e) = PowerHandled(SequenceHandled(s, q, e), e)
<1>1. "main" \in PowerOn /\ "aux" \in PowerOn /\ e.of # "off" /\ e.of # "power"
  BY DEF PowerOn
<1>2. \A t : OffHandled(t, e) = t
  BY <1>1, OffQuiet
<1>3. CASE q = "main"
  <2>1. \A t : SequenceHandled(t, "aux", e) = t
    BY <1>1, <1>3, SequenceQuiet
  <2> QED BY <1>2, <1>3, <2>1 DEF Handled
<1>4. CASE q = "aux"
  <2>1. SequenceHandled(s, "main", e) = s
    BY <1>1, <1>4, SequenceQuiet
  <2> QED BY <1>2, <1>4, <2>1 DEF Handled
<1> QED BY <1>3, <1>4 DEF PowerOn

LEMMA HandledByOff ==
  ASSUME NEW s, NEW e, e.of = "off"
  PROVE  Handled(s, e) = PowerHandled(OffHandled(s, e), e)
<1>1. "main" \in PowerOn /\ "aux" \in PowerOn /\ e.of # "main" /\ e.of # "aux" /\ e.of # "power"
  BY DEF PowerOn
<1>2. SequenceHandled(s, "main", e) = s /\ SequenceHandled(s, "aux", e) = s
  BY <1>1, SequenceQuiet
<1> QED BY <1>2 DEF Handled

LEMMA HandledByPower ==
  ASSUME NEW s, NEW e, e.of = "power", e.id = "FAULT" => (\A q \in PowerOn : s.seq[q].fsm # Faulted) /\ s.off.fsm # Faulted
  PROVE  Handled(s, e) = PowerHandled(s, e)
<1>1. "main" \in PowerOn /\ "aux" \in PowerOn /\ e.of # "main" /\ e.of # "aux" /\ e.of # "off"
  BY DEF PowerOn
<1>2. SequenceHandled(s, "main", e) = s /\ SequenceHandled(s, "aux", e) = s
  BY <1>1, SequenceQuiet
<1>3. OffHandled(s, e) = s
  BY <1>1, OffQuiet
<1> QED BY <1>2, <1>3 DEF Handled

\* A fault of a power-on sequence takes it back to its first state.
LEMMA HandledFailure ==
  ASSUME NEW s, NEW q \in PowerOn, NEW e, e.of = "power", e.id = "FAULT",
         s.seq[q].fsm = Faulted, s.off.fsm # Faulted, \A p \in PowerOn : p # q => s.seq[p].fsm # Faulted,
         BackToNone(s, q).seq[q].fsm # Faulted, BackToNone(s, q).off = s.off,
         \A p \in PowerOn : p # q => BackToNone(s, q).seq[p] = s.seq[p]
  PROVE  Handled(s, e) = PowerHandled(BackToNone(s, q), e)
<1>1. "main" \in PowerOn /\ "aux" \in PowerOn /\ e.of # "main" /\ e.of # "aux" /\ e.of # "off"
  BY DEF PowerOn
<1>2. SequenceHandled(s, q, e) = BackToNone(s, q)
  <2>1. e.of # q
    BY DEF PowerOn
  <2> QED BY <2>1 DEF SequenceHandled
<1>3. OffHandled(BackToNone(s, q), e) = BackToNone(s, q)
  BY <1>1, OffQuiet
<1>4. CASE q = "main"
  <2>1. SequenceHandled(BackToNone(s, q), "aux", e) = BackToNone(s, q)
    BY <1>1, <1>4, SequenceQuiet
  <2> QED BY <1>2, <1>3, <1>4, <2>1 DEF Handled
<1>5. CASE q = "aux"
  <2>1. SequenceHandled(s, "main", e) = s
    BY <1>1, <1>5, SequenceQuiet
  <2> QED BY <1>2, <1>3, <1>5, <2>1 DEF Handled
<1> QED BY <1>4, <1>5 DEF PowerOn

-----------------------------------------------------------------------------
(* The power FSM                                                            *)

WithDestination(s, d) == [s EXCEPT !.power.destination = d]
LEMMA DestinationIs ==
  ASSUME NEW s, IsState(s), NEW d \in PowerStates
  PROVE  LET t == WithDestination(s, d)
         IN /\ SameButPower(s, t) /\ t.power.fsm = s.power.fsm /\ t.power.current = s.power.current
            /\ t.power.previous = s.power.previous /\ t.power.destination = d
<1> DEFINE t == WithDestination(s, d)
<1>1. t = [s EXCEPT !.power.destination = d]
  BY DEF WithDestination
<1> HIDE DEF t
<1>2. Shaped(s) /\ PowerShaped(s.power)
  BY DEF IsState
<1>3. /\ Shaped(t) /\ PowerShaped(t.power)
      /\ t.power.fsm = s.power.fsm /\ t.power.current = s.power.current
      /\ t.power.previous = s.power.previous /\ t.power.destination = d
      /\ t.queue = s.queue /\ t.seq = s.seq /\ t.off = s.off /\ t.can = s.can
      /\ t.locked = s.locked /\ t.granted = s.granted
  BY <1>1, <1>2 DEF Shaped, PowerShaped
<1>4. IsState(t)
  BY <1>3 DEF IsState, Typed
<1>5. SameButPower(s, t)
  BY <1>3, <1>4 DEF SameButPower
<1>6. /\ SameButPower(s, t) /\ t.power.fsm = s.power.fsm /\ t.power.current = s.power.current
      /\ t.power.previous = s.power.previous /\ t.power.destination = d
  BY <1>3, <1>5
<1> QED BY <1>6 DEF t

WithMove(s, f, c) == [s EXCEPT !.power.fsm = f, !.power.current = c]
LEMMA MovedIs ==
  ASSUME NEW s, IsState(s), NEW f \in PowerStates, NEW c \in PowerStates
  PROVE  LET t == WithMove(s, f, c)
         IN SameButPower(s, t) /\ t.power.fsm = f /\ t.power.current = c
<1> DEFINE t == WithMove(s, f, c)
<1>1. t = [s EXCEPT !.power.fsm = f, !.power.current = c]
  BY DEF WithMove
<1> HIDE DEF t
<1>2. Shaped(s) /\ PowerShaped(s.power)
  BY DEF IsState
<1>3. /\ Shaped(t) /\ PowerShaped(t.power)
      /\ t.power.fsm = f /\ t.power.current = c
      /\ t.power.previous = s.power.previous /\ t.power.destination = s.power.destination
      /\ t.queue = s.queue /\ t.seq = s.seq /\ t.off = s.off /\ t.can = s.can
      /\ t.locked = s.locked /\ t.granted = s.granted
  BY <1>1, <1>2 DEF Shaped, PowerShaped
<1>4. IsState(t)
  BY <1>3 DEF IsState, Typed
<1>5. SameButPower(s, t)
  BY <1>3, <1>4 DEF SameButPower
<1>6. SameButPower(s, t) /\ t.power.fsm = f /\ t.power.current = c
  BY <1>3, <1>5
<1> QED BY <1>6 DEF t

WithBegin(s, f, c, v) == [s EXCEPT !.power.fsm = f, !.power.current = c, !.power.previous = v]
LEMMA BegunIs ==
  ASSUME NEW s, IsState(s), NEW f \in PowerStates, NEW c \in PowerStates, NEW v \in PowerStates
  PROVE  LET t == WithBegin(s, f, c, v)
         IN SameButPower(s, t) /\ t.power.fsm = f /\ t.power.current = c
<1> DEFINE t == WithBegin(s, f, c, v)
<1>1. t = [s EXCEPT !.power.fsm = f, !.power.current = c, !.power.previous = v]
  BY DEF WithBegin
<1> HIDE DEF t
<1>2. Shaped(s) /\ PowerShaped(s.power)
  BY DEF IsState
<1>3. /\ Shaped(t) /\ PowerShaped(t.power)
      /\ t.power.fsm = f /\ t.power.current = c
      /\ t.power.previous = v /\ t.power.destination = s.power.destination
      /\ t.queue = s.queue /\ t.seq = s.seq /\ t.off = s.off /\ t.can = s.can
      /\ t.locked = s.locked /\ t.granted = s.granted
  BY <1>1, <1>2 DEF Shaped, PowerShaped
<1>4. IsState(t)
  BY <1>3 DEF IsState, Typed
<1>5. SameButPower(s, t)
  BY <1>3, <1>4 DEF SameButPower
<1>6. SameButPower(s, t) /\ t.power.fsm = f /\ t.power.current = c
  BY <1>3, <1>5
<1> QED BY <1>6 DEF t

WithFault(s, f, c, d) == [s EXCEPT !.power.fsm = f, !.power.current = c, !.power.destination = d]
LEMMA FaultIs ==
  ASSUME NEW s, IsState(s), NEW f \in PowerStates, NEW c \in PowerStates, NEW d \in PowerStates
  PROVE  LET t == WithFault(s, f, c, d)
         IN SameButPower(s, t) /\ t.power.fsm = f /\ t.power.current = c /\ t.power.previous = s.power.previous
<1> DEFINE t == WithFault(s, f, c, d)
<1>1. t = [s EXCEPT !.power.fsm = f, !.power.current = c, !.power.destination = d]
  BY DEF WithFault
<1> HIDE DEF t
<1>2. Shaped(s) /\ PowerShaped(s.power)
  BY DEF IsState
<1>3. /\ Shaped(t) /\ PowerShaped(t.power)
      /\ t.power.fsm = f /\ t.power.current = c
      /\ t.power.previous = s.power.previous /\ t.power.destination = d
      /\ t.queue = s.queue /\ t.seq = s.seq /\ t.off = s.off /\ t.can = s.can
      /\ t.locked = s.locked /\ t.granted = s.granted
  BY <1>1, <1>2 DEF Shaped, PowerShaped
<1>4. IsState(t)
  BY <1>3 DEF IsState, Typed
<1>5. SameButPower(s, t)
  BY <1>3, <1>4 DEF SameButPower
<1>6. SameButPower(s, t) /\ t.power.fsm = f /\ t.power.current = c /\ t.power.previous = s.power.previous
  BY <1>3, <1>5
<1> QED BY <1>6 DEF t

\* What a step of the main loop makes of a phase.
Leads(s, t) ==
  IsState(t) /\ t.queue.highest = s.queue.highest /\ t.locked = s.locked /\ InPhase(t)

LEMMA RequestFacts ==
  ASSUME NEW e \in PowerRequests
  PROVE  /\ e \in Events /\ e.of = "power" /\ e.id \in {"OFF", "ON_MAIN", "ON_AUX"} /\ e.id \in DOMAIN Destination
         /\ Destination[e.id] \in {OFF, MAIN, AUX} /\ SequenceFor[e.id] \in {"main", "aux", "off"}
         /\ e.id # "FAULT" /\ e.id # "COMPLETE" /\ e.id # "CLEAR_FAULT"
<1>1. PICK id \in {"OFF", "ON_MAIN", "ON_AUX"} : e = Event("power", id, 0)
  BY DestinationFacts DEF PowerRequests, PowerRequest
<1>2. e.of = "power" /\ e.id = id
  BY <1>1 DEF Event
<1>3. e \in Events
  BY EventFacts
<1> QED BY <1>2, <1>3, DestinationFacts

LEMMA BeginFacts ==
  ASSUME NEW q \in {"main", "aux", "off"}
  PROVE  ToBegin(q) \in Events /\ ToBegin(q) \notin Noise \cup PowerRequests /\ ToBegin(q).of = q /\ ToBegin(q).id = "BEGIN"
<1>1. ToBegin(q).of = q /\ ToBegin(q).id = "BEGIN"
  BY DEF ToBegin, Event
<1>2. ToBegin(q) \in Control
  BY TokenFacts
<1>3. ToBegin(q) \notin PowerRequests
  BY <1>1, RequestFacts
<1> QED BY <1>1, <1>2, <1>3, EventFacts

LEMMA BeginBehind ==
  ASSUME NEW Q \in Seq(Events), AllIn(Q, Noise \cup PowerRequests), NEW q \in {"main", "aux", "off"}
  PROVE  BeginQueue(Append(Q, ToBegin(q)), q)
<1> DEFINE b == ToBegin(q)
<1>1. b = ToBegin(q) /\ b \in Events /\ b \notin Noise \cup PowerRequests
  BY BeginFacts
<1> HIDE DEF b
<1>2. NoneOf(Q, {b}) /\ AllIn(Q, Noise \cup (PowerRequests \cup {b}))
  BY <1>1 DEF AllIn, NoneOf
<1>3. AllIn(Append(Q, b), Noise \cup (PowerRequests \cup {b}))
  BY <1>1, <1>2, AddAllIn
<1>4. AtMostOne(Q, {b}) /\ InOrder(Q, PowerRequests, {b})
  BY <1>2 DEF AtMostOne, InOrder, NoneOf
<1>5. AtMostOne(Append(Q, b), {b})
  BY <1>1, <1>2, <1>4, AddAtMostOne
<1>6. InOrder(Append(Q, b), PowerRequests, {b})
  BY <1>1, <1>4, AddInOrder
<1> QED BY <1>1, <1>3, <1>5, <1>6 DEF BeginQueue

\* A request of the button's, when no sequence is in progress.
LEMMA RequestAtRest ==
  ASSUME NEW s, IsState(s), NEW e \in PowerRequests, Resting(R(s), s.power, s.seq, s.off), RestQueue(N(s), R(s)),
         R(s) = <<>>, NoneOf(N(s), Stale)
  PROVE  Leads(s, PowerHandled(s, e))
<1> DEFINE d == Destination[e.id]
           t == WithDestination(s, d)
           u == WithBegin(t, TRANSITIONING, TRANSITIONING, t.power.current)
<1>1. /\ e.of = "power" /\ e.id \in DOMAIN Destination /\ d \in PowerStates /\ SequenceFor[e.id] \in {"main", "aux", "off"}
      /\ e.id # "FAULT" /\ e.id # "COMPLETE" /\ e.id # "CLEAR_FAULT"
  BY RequestFacts, PowerStatesAre
<1>2. PowerHandled(s, e) = IF e.id \in Accepted(s.power.fsm) THEN Raised(u, SequenceFor[e.id], "BEGIN", 0) ELSE t
  BY <1>1 DEF PowerHandled, WithDestination, WithBegin
<1>3. SameButPower(s, t) /\ t.power.fsm = s.power.fsm
  BY <1>1, DestinationIs
<1>4. u = WithBegin(t, TRANSITIONING, TRANSITIONING, t.power.current)
  OBVIOUS
<1> HIDE DEF t, u, d
<1>5. CASE e.id \in Accepted(s.power.fsm)
  <2>0. IsState(t)
    BY <1>3 DEF SameButPower
  <2>1. t.power.current \in PowerStates /\ TRANSITIONING \in PowerStates
    BY <2>0, PowerTyped, PowerStatesAre
  <2>2. SameButPower(t, u) /\ u.power.fsm = TRANSITIONING /\ u.power.current = TRANSITIONING
    BY <1>4, <2>0, <2>1, BegunIs
  <2> DEFINE q == SequenceFor[e.id]
             v == Raised(u, q, "BEGIN", 0)
  <2>3. q \in {"main", "aux", "off"} /\ PowerHandled(s, e) = v
    BY <1>1, <1>2, <1>5
  <2> HIDE DEF q
  <2>4. q \in Ofs /\ "BEGIN" \in Ids /\ 0 \in Int /\ IsState(u)
    BY <2>2, <2>3 DEF Ofs, Ids, SameButPower
  <2>5. Pushed(u, v, ToBegin(q))
    BY <2>4, RaisedIs DEF ToBegin
  <2> HIDE DEF v
  <2>6. /\ IsState(v) /\ N(v) = Append(N(s), ToBegin(q)) /\ R(v) = <<>> /\ v.queue.highest = s.queue.highest
        /\ v.power = u.power /\ v.seq = s.seq /\ v.off = s.off /\ v.locked = s.locked
    BY <1>3, <2>2, <2>5 DEF Pushed, SameRest, SameButPower, N, R
  <2>7. N(s) \in Seq(Events) /\ AllIn(N(s), Noise \cup PowerRequests)
    BY DEF IsState, Typed, N, RestQueue, AllIn, NoneOf
  <2>8. BeginQueue(N(v), q)
    BY <2>3, <2>6, <2>7, BeginBehind
  <2>9. Beginning(R(v), v.power, v.seq, v.off)
    BY <2>2, <2>6 DEF Resting, Beginning, Transits
  <2>10. InPhase(v)
    BY <2>3, <2>8, <2>9 DEF InPhase, Phase
  <2> QED BY <2>3, <2>6, <2>10 DEF Leads
<1>6. CASE e.id \notin Accepted(s.power.fsm)
  <2>1. N(t) = N(s) /\ R(t) = R(s) /\ t.seq = s.seq /\ t.off = s.off /\ t.power.fsm = s.power.fsm
    BY <1>3 DEF SameButPower, N, R
  <2>2. Resting(R(t), t.power, t.seq, t.off) /\ RestQueue(N(t), R(t))
    BY <2>1 DEF Resting
  <2>3. InPhase(t)
    BY <2>2 DEF InPhase, Phase
  <2> QED BY <1>2, <1>3, <1>6, <2>3 DEF Leads, SameButPower
<1> QED BY <1>5, <1>6

-----------------------------------------------------------------------------
(* The queue of a sequence in progress: noise, and at most one event of its own *)

LEMMA CarriesNone ==
  ASSUME NEW Q PROVE Carries(Q, {}) <=> AllIn(Q, Noise)
BY DEF Carries, AllIn, AtMostOne

LEMMA CarriesOne ==
  ASSUME NEW Q \in Seq(Events), AllIn(Q, Noise), NEW e \in Control
  PROVE  Carries(Append(Q, e), {e})
<1>1. e \in Events /\ e \notin Noise
  BY EventFacts
<1>2. NoneOf(Q, {e}) /\ AllIn(Q, Noise \cup {e}) /\ AtMostOne(Q, {e})
  BY <1>1 DEF AllIn, NoneOf, AtMostOne
<1>3. AllIn(Append(Q, e), Noise \cup {e})
  BY <1>1, <1>2, AddAllIn
<1>4. AtMostOne(Append(Q, e), {e})
  BY <1>1, <1>2, AddAtMostOne
<1> QED BY <1>3, <1>4 DEF Carries

LEMMA CarriesPop ==
  ASSUME NEW Q \in Seq(Events), Q # <<>>, NEW e \in Control, Carries(Q, {e}), Head(Q) \notin Noise
  PROVE  Head(Q) = e /\ AllIn(Tail(Q), Noise)
<1>1. AllIn(Tail(Q), Noise \cup {e}) /\ Head(Q) \in Noise \cup {e}
  BY PopAllIn DEF Carries
<1>2. Head(Q) = e
  BY <1>1
<1>3. NoneOf(Tail(Q), {e})
  BY <1>2, PopAtMostOne DEF Carries
<1> QED BY <1>1, <1>2, <1>3 DEF AllIn, NoneOf

LEMMA TxIsNoise == TxEvent \in Events /\ TxEvent \in Noise /\ TxEvent \in CanEvents
BY EventFacts DEF TxEvent, CanEvents

LEMMA NoiseBehind ==
  ASSUME NEW Q \in Seq(Events), AllIn(Q, Noise)
  PROVE  AllIn(Append(Q, TxEvent), Noise)
BY TxIsNoise, AddAllIn

LEMMA CarriesThenTx ==
  ASSUME NEW Q \in Seq(Events), NEW e \in Control, Carries(Q, {e})
  PROVE  Carries(Append(Q, TxEvent), {e})
<1>1. NoiseStep(Q, Append(Q, TxEvent))
  BY TxIsNoise DEF NoiseStep
<1> QED BY <1>1, NoiseCarries

-----------------------------------------------------------------------------
(* The power-on sequences                                                    *)

LEMMA AtStartIs ==
  ASSUME NEW q \in PowerOn
  PROVE  /\ CellTyped(SequenceAtStart(q), q) /\ SequenceAtStart(q).fsm = Idle /\ SequenceAtStart(q).step = 1
         /\ SequenceAtStart(q).acks = AckCounts(q)
         /\ AckCounts(q) \in [DOMAIN Steps[q] -> 0 .. 2]
         /\ \A k \in 1 .. Final(q) : k < Final(q) => AckCounts(q)[k] = 1
         /\ AckCounts(q)[Final(q)] = 2
         /\ Idle \in Int /\ Idle # Faulted
<1>1. /\ SequenceAtStart(q).fsm = Idle /\ SequenceAtStart(q).step = 1 /\ SequenceAtStart(q).acks = AckCounts(q)
      /\ CellShaped(SequenceAtStart(q))
  BY DEF SequenceAtStart, CellShaped
<1>2. AckCounts(q) \in [DOMAIN Steps[q] -> 0 .. 2]
  BY DEF AckCounts
<1>3. /\ \A k \in 1 .. Final(q) : k < Final(q) => AckCounts(q)[k] = 1
      /\ AckCounts(q)[Final(q)] = 2
  BY StepFacts DEF AckCounts, Final
<1>4. Idle \in Int /\ Idle # Faulted /\ Idle \in -1 .. Final(q) + 1 /\ 1 \in 1 .. Final(q) + 1
  BY StepFacts DEF Idle, Faulted
<1> QED BY <1>1, <1>2, <1>3, <1>4 DEF CellTyped

LEMMA BackIs ==
  ASSUME NEW s, IsState(s), NEW q \in PowerOn
  PROVE  SameButSeq(s, BackToNone(s, q), q) /\ BackToNone(s, q).seq[q] = SequenceAtStart(q)
<1>1. BackToNone(s, q) = WithCell(s, q, SequenceAtStart(q))
  BY DEF BackToNone, WithCell
<1> QED BY <1>1, AtStartIs, CellIs

LEMMA CountFacts ==
  /\ \A d : Cardinality({d}) = 1 /\ IsFiniteSet({d})
  /\ Cardinality({"rear", "front"}) = 2
<1>1. \A d : Cardinality({d}) = 1 /\ IsFiniteSet({d})
  BY FS_Singleton
<1>2. Cardinality({"rear"} \cup {"front"}) = Cardinality({"rear"}) + 1
  BY <1>1, FS_AddElement
<1>3. {"rear"} \cup {"front"} = {"rear", "front"}
  OBVIOUS
<1>4. Cardinality({"rear"}) = 1
  BY <1>1
<1>5. Cardinality({"rear", "front"}) = Cardinality({"rear"} \cup {"front"})
  BY ONLY <1>3
<1>6. Cardinality({"rear", "front"}) = 1 + 1
  BY ONLY <1>2, <1>4, <1>5
<1>7. Cardinality({"rear", "front"}) = 2
  BY ONLY <1>6
<1> QED BY <1>1, <1>7

\* The step is entered that current_sequence points to.
LEMMA StepEnters ==
  ASSUME NEW s, IsState(s), NEW q \in PowerOn, NEW k \in 1 .. Final(q), R(s) = <<>>, AllIn(N(s), Noise),
         Transits(s.power), Alone(q, s.seq, s.off), s.seq[q].step = k,
         Granted(q, k - 1, s.granted), Fresh(q, k, s.seq)
  PROVE  Leads(s, StepEntered(s, q, k))
<1> DEFINE u == WithSeqFsm(s, q, k)
           D == Steps[q][k].devices
           t == Requested(u, q, k, Steps[q][k].msg, D)
<1>1. k \in Int /\ Final(q) \in Nat /\ k =< Final(q)
  BY StepFacts
<1>2. /\ SameButSeq(s, u, q) /\ u.seq[q].fsm = k /\ u.seq[q].step = k /\ u.seq[q].acks = s.seq[q].acks
  BY <1>1, SeqFsmIs
<1>3. StepEntered(s, q, k) = t
  BY <1>1, <1>2 DEF StepEntered, Final, WithSeqFsm
<1>4. IsState(u)
  BY <1>2 DEF SameButSeq
<1>5. Sent(u, t, StepRequest(q, k, D))
  BY <1>4, RequestedIs DEF StepRequest
<1> HIDE DEF t, u
<1>6. /\ IsState(t) /\ N(t) = Append(N(s), TxEvent) /\ R(t) = <<StepRequest(q, k, D)>>
      /\ t.queue.highest = s.queue.highest /\ t.power = s.power /\ t.off = s.off /\ t.locked = s.locked /\ t.granted = s.granted
      /\ t.seq[q].fsm = k /\ t.seq[q].step = k /\ t.seq[q].acks = s.seq[q].acks
      /\ \A p \in PowerOn : p # q => t.seq[p] = s.seq[p]
  <2>1. R(u) = <<>> /\ N(u) = N(s) /\ u.queue = s.queue
    BY <1>2 DEF SameButSeq, N, R
  <2>2. Append(<<>>, StepRequest(q, k, D)) = <<StepRequest(q, k, D)>>
    OBVIOUS
  <2> QED BY <1>2, <1>5, <2>1, <2>2 DEF SameButSeq, Sent, SameRest
<1>7. Transits(t.power) /\ Alone(q, t.seq, t.off) /\ Granted(q, k - 1, t.granted)
  BY <1>6 DEF Alone
<1>8. Fresh(q, k + 1, t.seq) /\ t.seq[q].acks[k] = AckCounts(q)[k]
  BY <1>1, <1>6 DEF Fresh
<1>9. D # {} /\ AckCounts(q)[k] = Cardinality(D)
  <2>1. CASE k = Final(q)
    BY <2>1, StepFacts, AtStartIs, CountFacts
  <2>2. CASE k # Final(q)
    <3>1. k < Final(q)
      BY <1>1, <2>2
    <3>2. PICK d \in Boards : D = {d}
      BY <3>1, StepFacts
    <3> QED BY <3>1, <3>2, AtStartIs, CountFacts
  <2> QED BY <2>1, <2>2
<1>10. Asking(q, k, R(t), t.power, t.seq, t.off, t.granted)
  <2> HIDE DEF D
  <2>1. D \in SUBSET D /\ t.seq[q].acks[k] = Cardinality(D)
    BY <1>8, <1>9
  <2>2. \E W \in SUBSET D : W # {} /\ R(t) = <<StepRequest(q, k, W)>> /\ t.seq[q].acks[k] = Cardinality(W)
    BY <1>6, <1>9, <2>1
  <2> QED BY <1>6, <1>7, <1>8, <2>2 DEF Asking, D
<1>11. Carries(N(t), {})
  <2>1. N(s) \in Seq(Events)
    BY DEF IsState, Typed, N
  <2> QED BY <1>6, <2>1, NoiseBehind, CarriesNone
<1>12. InPhase(t)
  BY <1>10, <1>11 DEF InPhase, Phase, OnPhase
<1> QED BY <1>3, <1>6, <1>12 DEF Leads

LEMMA LedByState ==
  ASSUME NEW s, NEW t, NEW u, Leads(t, u), t.queue.highest = s.queue.highest, t.locked = s.locked
  PROVE  Leads(s, u)
BY DEF Leads

LEMMA SequenceBegins ==
  ASSUME NEW s, IsState(s), NEW q \in PowerOn, Beginning(R(s), s.power, s.seq, s.off), AllIn(N(s), Noise)
  PROVE  Leads(s, Handled(s, ToBegin(q)))
<1> DEFINE e == ToBegin(q)
           u == WithGranted(s, {})
<1>1. e.of = q /\ e.id = "BEGIN" /\ e.of # "power" /\ e.id # "COMPLETE" /\ e.id # "CLEAR_FAULT" /\ q \in {"main", "aux", "off"}
  BY DEF ToBegin, Event, PowerOn
<1>2. Handled(s, e) = SequenceHandled(s, q, e)
  BY <1>1, HandledBySequence, PowerQuiet
<1>3. s.seq[q] = SequenceAtStart(q) /\ s.seq[q].fsm = Idle
  BY AtStartIs DEF Beginning, SeqsIdle
<1>4. SequenceHandled(s, q, e) = StepEntered(u, q, 1)
  BY <1>1, <1>3 DEF SequenceHandled, WithGranted
<1>5. SameButGranted(s, u) /\ u.granted = {}
  BY GrantedIs
<1> HIDE DEF u, e
<1>6. /\ IsState(u) /\ N(u) = N(s) /\ R(u) = <<>> /\ u.power = s.power /\ u.seq = s.seq /\ u.off = s.off
      /\ u.queue.highest = s.queue.highest /\ u.locked = s.locked
  BY <1>5 DEF SameButGranted, N, R, Beginning
<1>7. 1 \in 1 .. Final(q)
  BY StepFacts
<1>8. u.seq[q].step = 1 /\ Transits(u.power) /\ Alone(q, u.seq, u.off)
  BY <1>3, <1>6, AtStartIs DEF Beginning, SeqsIdle, Alone
<1>9. Granted(q, 1 - 1, u.granted) /\ Fresh(q, 1, u.seq)
  BY <1>3, <1>6, AtStartIs DEF Granted, Fresh
<1>10. Leads(u, StepEntered(u, q, 1))
  BY <1>6, <1>7, <1>8, <1>9, StepEnters
<1>11. Leads(s, StepEntered(u, q, 1))
  BY <1>6, <1>10, LedByState
<1> QED BY <1>2, <1>4, <1>11 DEF e

\* The last step has been confirmed.
LEMMA SequenceCompletes ==
  ASSUME NEW s, IsState(s), NEW q \in PowerOn, Moving(q, Final(q), R(s), s.power, s.seq, s.off, s.granted), AllIn(N(s), Noise)
  PROVE  Leads(s, StepEntered(s, q, Final(q) + 1))
<1> DEFINE k == Final(q) + 1
           u == WithSeqFsm(s, q, k)
           c == Raised(u, q, "COMPLETE", 0)
           t == StepEntered(s, q, k)
<1>1. k \in -1 .. Final(q) + 1 /\ k \in Int /\ ~(k =< Final(q)) /\ q \in Ofs /\ "COMPLETE" \in Ids /\ q \in {"main", "aux", "off"}
  BY StepFacts DEF PowerOn, Ofs, Ids
<1>2. SameButSeq(s, u, q) /\ u.seq[q].fsm = k
  BY <1>1, SeqFsmIs
<1>3. t = IF q = "main" THEN Transmitted(c, "READY_TO_DRIVE", {}) ELSE c
  BY <1>1 DEF StepEntered, Final, WithSeqFsm
<1>4. IsState(u)
  BY <1>2 DEF SameButSeq
<1>5. Pushed(u, c, Complete(q))
  BY <1>1, <1>4, RaisedIs DEF Complete
<1> HIDE DEF u, c, k, t
<1>6. N(s) \in Seq(Events) /\ Complete(q) \in Control
  BY <1>1, TokenFacts DEF IsState, Typed, N
<1>7. N(c) = Append(N(s), Complete(q)) /\ IsState(c)
  BY <1>2, <1>5 DEF Pushed, SameButSeq, N
<1>8. Carries(N(c), {Complete(q)}) /\ N(c) \in Seq(Events)
  BY <1>6, <1>7, CarriesOne DEF IsState, Typed, N
<1>9. /\ IsState(t) /\ SameRest(u, t) /\ R(t) = R(u) /\ Carries(N(t), {Complete(q)})
  <2>1. CASE q = "main"
    <3>1. Pushed(c, t, TxEvent)
      BY <1>3, <1>7, <2>1, TransmittedIs
    <3>2. Carries(N(t), {Complete(q)})
      BY <1>6, <1>8, <3>1, CarriesThenTx DEF Pushed
    <3> QED BY <1>5, <3>1, <3>2 DEF Pushed, SameRest
  <2>2. CASE q # "main"
    BY <1>3, <1>5, <1>8, <2>2 DEF Pushed
  <2> QED BY <2>1, <2>2
<1>10. /\ R(t) = <<>> /\ t.power = s.power /\ t.off = s.off /\ t.granted = s.granted /\ t.locked = s.locked
       /\ t.queue.highest = s.queue.highest /\ t.seq[q].fsm = k /\ \A p \in PowerOn : p # q => t.seq[p] = s.seq[p]
  BY <1>2, <1>9 DEF SameButSeq, SameRest, R, Moving
<1>11. Finished(q, R(t), t.power, t.seq, t.off, t.granted)
  BY <1>10 DEF Finished, Moving, Alone, k
<1>12. InPhase(t)
  BY <1>9, <1>11 DEF InPhase, Phase, OnPhase
<1> QED BY <1>9, <1>10, <1>12 DEF Leads, t, k

LEMMA SequenceAdvances ==
  ASSUME NEW s, IsState(s), NEW q \in PowerOn, NEW k \in 1 .. Final(q),
         Moving(q, k, R(s), s.power, s.seq, s.off, s.granted), AllIn(N(s), Noise)
  PROVE  Leads(s, Handled(s, Advance(q, k)))
<1> DEFINE e == Advance(q, k)
<1>1. e.of = q /\ e.id = "ADVANCE" /\ e.data = k /\ e.of # "power" /\ e.id # "COMPLETE" /\ e.id # "CLEAR_FAULT"
  BY DEF Advance, Event, PowerOn
<1>2. Handled(s, e) = SequenceHandled(s, q, e)
  BY <1>1, HandledBySequence, PowerQuiet
<1>3. s.seq[q].fsm = k /\ k \in DOMAIN Steps[q] /\ k \in Int /\ Final(q) \in Nat /\ k # Idle
  BY StepFacts DEF Moving, Idle
<1>4. SequenceHandled(s, q, e) = StepEntered(s, q, k + 1)
  BY <1>1, <1>3 DEF SequenceHandled
<1> HIDE DEF e
<1>5. CASE k = Final(q)
  <2>1. Leads(s, StepEntered(s, q, Final(q) + 1))
    BY <1>5, SequenceCompletes
  <2> QED BY <1>2, <1>4, <1>5, <2>1 DEF e
<1>6. CASE k # Final(q)
  <2>1. k + 1 \in 1 .. Final(q) /\ (k + 1) - 1 = k
    BY <1>3, <1>6
  <2>2. Granted(q, (k + 1) - 1, s.granted)
    BY <2>1 DEF Moving
  <2>3. R(s) = <<>> /\ Transits(s.power) /\ Alone(q, s.seq, s.off) /\ s.seq[q].step = k + 1 /\ Fresh(q, k + 1, s.seq)
    BY DEF Moving
  <2>4. Leads(s, StepEntered(s, q, k + 1))
    BY <2>1, <2>2, <2>3, StepEnters
  <2> QED BY <1>2, <1>4, <2>4 DEF e
<1> QED BY <1>5, <1>6

LEMMA SequenceFails ==
  ASSUME NEW s, IsState(s), NEW q \in PowerOn, NEW k \in 1 .. Final(q),
         Failing(q, k, R(s), s.power, s.seq, s.off, s.granted), AllIn(N(s), Noise)
  PROVE  Leads(s, Handled(s, Fails(q, k)))
<1> DEFINE e == Fails(q, k)
           u == WithSeqFsm(s, q, Faulted)
           t == Raised(u, "power", "FAULT", 0)
<1>1. e.of = q /\ e.id = "FAULT" /\ e.of # "power" /\ e.id # "COMPLETE" /\ e.id # "CLEAR_FAULT"
  BY DEF Fails, Event, PowerOn
<1>2. Handled(s, e) = SequenceHandled(s, q, e)
  BY <1>1, HandledBySequence, PowerQuiet
<1>3. s.seq[q].fsm = k /\ k \in MayFault(q) /\ k # Idle /\ Faulted \in -1 .. Final(q) + 1
  <2>1. s.seq[q].fsm = k /\ k \in 0 .. Final(q) /\ k \in 0 .. Final(q) + 1 /\ k # Idle /\ Faulted \in -1 .. Final(q) + 1
    BY StepFacts DEF Failing, Idle, Faulted
  <2> QED BY <2>1 DEF MayFault, Final
<1>4. SequenceHandled(s, q, e) = t
  BY <1>1, <1>3 DEF SequenceHandled, WithSeqFsm
<1>5. SameButSeq(s, u, q) /\ u.seq[q].fsm = Faulted
  BY <1>3, SeqFsmIs
<1>6. IsState(u) /\ "power" \in Ofs /\ "FAULT" \in Ids /\ 0 \in Int
  BY <1>5 DEF SameButSeq, Ofs, Ids
<1>7. Pushed(u, t, Faulty)
  BY <1>6, RaisedIs DEF Faulty
<1> HIDE DEF u, t, e
<1>8. /\ IsState(t) /\ N(t) = Append(N(s), Faulty) /\ R(t) = <<>> /\ t.power = s.power /\ t.off = s.off
      /\ t.locked = s.locked /\ t.queue.highest = s.queue.highest /\ t.seq[q].fsm = Faulted
      /\ \A p \in PowerOn : p # q => t.seq[p] = s.seq[p]
  BY <1>5, <1>7 DEF SameButSeq, Pushed, SameRest, N, R, Failing
<1>9. Failed(q, R(t), t.power, t.seq, t.off)
  BY <1>8 DEF Failed, Failing, Alone
<1>10. Carries(N(t), {Faulty})
  <2>1. N(s) \in Seq(Events) /\ Faulty \in Control
    BY TokenFacts DEF IsState, Typed, N
  <2> QED BY <1>8, <2>1, CarriesOne
<1>11. InPhase(t)
  BY <1>9, <1>10 DEF InPhase, Phase, OnPhase
<1> QED BY <1>2, <1>4, <1>8, <1>11 DEF Leads, e

LEMMA RestFromNoise ==
  ASSUME NEW Q, AllIn(Q, Noise)
  PROVE  RestQueue(Q, <<>>)
<1>1. AllIn(Q, Noise \cup (PowerRequests \cup Stale))
  BY DEF AllIn
<1>2. \A i \in DOMAIN Q : Q[i] \notin Stale
  BY EventFacts DEF AllIn
<1>3. LiveAfter(Q, <<>>, {})
  BY <1>2 DEF LiveAfter
<1> QED BY <1>1, <1>3 DEF RestQueue

LEMMA OffOnlyNone == OffOnly(<<>>)
BY DEF OffOnly

\* The power FSM reaches the state a completed sequence leads to.
LEMMA PowerMoves ==
  ASSUME NEW s, IsState(s), NEW q \in {"main", "aux", "off"}, Transits(s.power), SeqsIdle(s.seq), s.off.fsm = Idle,
         R(s) = <<>>, AllIn(N(s), Noise)
  PROVE  Leads(s, PowerHandled(s, Complete(q)))
<1> DEFINE e == Complete(q)
           t == WithMove(s, StateAfter[q], s.power.destination)
<1>1. e.of = q /\ e.id = "COMPLETE" /\ e.of # "power" /\ s.power.fsm = TRANSITIONING
  BY DEF Complete, Event, Transits
<1>2. PowerHandled(s, e) = t
  BY <1>1 DEF PowerHandled, WithMove
<1>3. s.power.destination \in PowerStates /\ StateAfter[q] \in {OFF, MAIN, AUX} /\ StateAfter[q] \in PowerStates
  BY DestinationFacts, PowerTyped, PowerStatesAre
<1>4. SameButPower(s, t) /\ t.power.fsm = StateAfter[q]
  BY <1>3, MovedIs
<1> HIDE DEF t, e
<1>5. /\ IsState(t) /\ N(t) = N(s) /\ R(t) = <<>> /\ t.seq = s.seq /\ t.off = s.off /\ t.locked = s.locked
      /\ t.queue.highest = s.queue.highest
  BY <1>4 DEF SameButPower, N, R
<1>6. Resting(R(t), t.power, t.seq, t.off)
  BY <1>3, <1>4, <1>5, OffOnlyNone DEF Resting
<1>7. RestQueue(N(t), R(t))
  BY <1>5, RestFromNoise
<1>8. InPhase(t)
  BY <1>6, <1>7 DEF InPhase, Phase
<1> QED BY <1>2, <1>5, <1>8 DEF Leads, e

LEMMA AloneAtRest ==
  ASSUME NEW q \in PowerOn, NEW x, NEW o, NEW y, Alone(q, x, o),
         y[q] = SequenceAtStart(q), \A p \in PowerOn : p # q => y[p] = x[p]
  PROVE  SeqsIdle(y) /\ o.fsm = Idle
BY DEF Alone, SeqsIdle

LEMMA SequenceEnds ==
  ASSUME NEW s, IsState(s), NEW q \in PowerOn, Finished(q, R(s), s.power, s.seq, s.off, s.granted), AllIn(N(s), Noise)
  PROVE  Leads(s, Handled(s, Complete(q)))
<1> DEFINE e == Complete(q)
           u == BackToNone(s, q)
<1>1. e.of = q /\ e.id = "COMPLETE" /\ q \in {"main", "aux", "off"}
  BY DEF Complete, Event, PowerOn
<1>2. Handled(s, e) = PowerHandled(SequenceHandled(s, q, e), e)
  BY <1>1, HandledBySequence
<1>3. SequenceHandled(s, q, e) = u
  BY <1>1 DEF SequenceHandled, Finished, Final
<1>4. SameButSeq(s, u, q) /\ u.seq[q] = SequenceAtStart(q)
  BY BackIs
<1> HIDE DEF u, e
<1>5. /\ IsState(u) /\ N(u) = N(s) /\ R(u) = <<>> /\ Transits(u.power) /\ u.off = s.off /\ u.locked = s.locked
      /\ u.queue.highest = s.queue.highest /\ \A p \in PowerOn : p # q => u.seq[p] = s.seq[p]
  BY <1>4 DEF SameButSeq, N, R, Finished
<1>6. SeqsIdle(u.seq) /\ u.off.fsm = Idle
  BY <1>4, <1>5, AloneAtRest DEF Finished
<1>7. Leads(u, PowerHandled(u, Complete(q)))
  BY <1>1, <1>5, <1>6, PowerMoves
<1>8. Leads(s, PowerHandled(u, Complete(q)))
  BY <1>5, <1>7, LedByState
<1> QED BY <1>2, <1>3, <1>8 DEF e

LEMMA LiveBefore ==
  ASSUME NEW Q \in Seq(Events), NEW e \in Events, e \notin Live, NEW r
  PROVE  LiveAfter(Append(Q, e), r, {e})
<1> DEFINE n == Len(Q) + 1
           P == Append(Q, e)
<1>1. /\ DOMAIN P = DOMAIN Q \cup {n} /\ P[n] = e /\ n \in Nat
      /\ \A i \in DOMAIN Q : P[i] = Q[i] /\ i \in Nat /\ i < n
  BY AppendIs
<1> HIDE DEF n, P
<1>2. \A j \in DOMAIN P : P[j] \in Live => j \in DOMAIN Q
  BY <1>1
<1>3. \A j \in DOMAIN P : P[j] \in Live => \E i \in DOMAIN P : i > j /\ P[i] \in {e}
  BY <1>1, <1>2
<1>4. LiveAfter(P, r, {e})
  BY <1>3 DEF LiveAfter
<1> QED BY <1>4 DEF P

LEMMA ClearFacts ==
  ASSUME NEW p, p.previous \in Int
  PROVE  /\ Clear(p) \in Events /\ Clear(p) \in Control /\ Clear(p) \notin Noise \cup Stale /\ Clear(p) \notin Live
         /\ Clear(p).of = "power" /\ Clear(p).id = "CLEAR_FAULT" /\ Clear(p).data = p.previous
<1>1. Clear(p).of = "power" /\ Clear(p).id = "CLEAR_FAULT" /\ Clear(p).data = p.previous
  BY DEF Clear, Event
<1>2. Clear(p) \in Control
  BY TokenFacts
<1>3. Clear(p) \notin PowerRequests
  BY <1>1, RequestFacts
<1>4. \A e \in Stale : e.of = "off"
  BY DEF Stale, OffFault, TurnedOff, Event
<1> QED BY <1>1, <1>2, <1>3, <1>4, EventFacts DEF Live

LEMMA ClearBehind ==
  ASSUME NEW Q \in Seq(Events), AllIn(Q, Noise \cup Stale), NEW p, p.previous \in Int, NEW r
  PROVE  FaultQueue(Append(Q, Clear(p)), r, p)
<1> DEFINE c == Clear(p)
<1>1. c = Clear(p) /\ c \in Events /\ c \notin Noise \cup Stale /\ c \notin Live
  BY ClearFacts
<1> HIDE DEF c
<1>2. AllIn(Q, Noise \cup (Stale \cup {c})) /\ NoneOf(Q, {c}) /\ AtMostOne(Q, {c})
  BY <1>1 DEF AllIn, NoneOf, AtMostOne
<1>3. AllIn(Append(Q, c), Noise \cup (Stale \cup {c}))
  BY <1>1, <1>2, AddAllIn
<1>4. AtMostOne(Append(Q, c), {c})
  BY <1>1, <1>2, AddAtMostOne
<1>5. LiveAfter(Append(Q, c), r, {c})
  BY <1>1, LiveBefore
<1> QED BY <1>1, <1>3, <1>4, <1>5 DEF FaultQueue

\* The power FSM enters its fault state once the sequence that failed is back at its start.
LEMMA PowerFails ==
  ASSUME NEW s, IsState(s), Transits(s.power), SeqsIdle(s.seq), s.off.fsm = Idle, OffOnly(R(s)), AllIn(N(s), Noise \cup Stale)
  PROVE  Leads(s, PowerHandled(s, Faulty))
<1> DEFINE e == Faulty
           t == WithFault(s, FAULT, FAULT, s.power.previous)
           u == Transmitted(t, "STATE_TRANSITION_FAULT", {})
           v == Raised(u, "power", "CLEAR_FAULT", s.power.previous)
<1>1. e.of = "power" /\ e.id = "FAULT" /\ e.data = 0 /\ s.power.fsm = TRANSITIONING
  BY DEF Faulty, Event, Transits
<1>2. /\ e.id \notin DOMAIN Destination /\ e.id \notin Accepted(s.power.fsm) /\ e.id # "COMPLETE"
      /\ s.power.fsm # FAULT
  BY <1>1, DestinationFacts DEF Accepted, FAULT, TRANSITIONING, OFF, AUX, MAIN
<1>3. PowerHandled(s, e) = PowerFaulted(s, e.data = 1)
  BY <1>1, <1>2 DEF PowerHandled
<1>4. PowerFaulted(s, e.data = 1) = v
  BY <1>1 DEF PowerFaulted, WithFault
<1>5. s.power.previous \in PowerStates /\ s.power.previous \in Int /\ FAULT \in PowerStates
  BY PowerTyped, PowerStatesAre
<1>6. SameButPower(s, t) /\ t.power.fsm = FAULT /\ t.power.current = FAULT /\ t.power.previous = s.power.previous
  BY <1>5, FaultIs
<1>7. IsState(t)
  BY <1>6 DEF SameButPower
<1>8. Pushed(t, u, TxEvent)
  BY <1>7, TransmittedIs
<1>9. IsState(u) /\ "power" \in Ofs /\ "CLEAR_FAULT" \in Ids
  BY <1>8 DEF Pushed, Ofs, Ids
<1>10. Pushed(u, v, Clear(s.power))
  BY <1>5, <1>9, RaisedIs DEF Clear
<1> HIDE DEF t, u, v, e
<1>11. /\ IsState(v) /\ N(v) = Append(Append(N(s), TxEvent), Clear(s.power)) /\ R(v) = R(s) /\ v.seq = s.seq /\ v.off = s.off
       /\ v.power = t.power /\ v.locked = s.locked /\ v.queue.highest = s.queue.highest
  BY <1>6, <1>8, <1>10 DEF SameButPower, Pushed, SameRest, N, R
<1>12. Faulting(R(v), v.power, v.seq, v.off)
  BY <1>6, <1>11 DEF Faulting
<1>13. Clear(v.power) = Clear(s.power) /\ v.power.previous \in Int
  BY <1>5, <1>6, <1>11 DEF Clear
<1>14. N(s) \in Seq(Events) /\ TxEvent \in Events /\ TxEvent \in Noise \cup Stale
  BY TxIsNoise DEF IsState, Typed, N
<1>15. AllIn(Append(N(s), TxEvent), Noise \cup Stale) /\ Append(N(s), TxEvent) \in Seq(Events)
  BY <1>14, AddAllIn, AppendIs
<1>16. FaultQueue(N(v), R(v), v.power)
  BY <1>11, <1>13, <1>15, ClearBehind
<1>17. InPhase(v)
  BY <1>12, <1>16 DEF InPhase, Phase
<1> QED BY <1>3, <1>4, <1>11, <1>17 DEF Leads, e

LEMMA SequenceFaults ==
  ASSUME NEW s, IsState(s), NEW q \in PowerOn, Failed(q, R(s), s.power, s.seq, s.off), AllIn(N(s), Noise)
  PROVE  Leads(s, Handled(s, Faulty))
<1> DEFINE e == Faulty
           u == BackToNone(s, q)
<1>1. e.of = "power" /\ e.id = "FAULT"
  BY DEF Faulty, Event
<1>2. SameButSeq(s, u, q) /\ u.seq[q] = SequenceAtStart(q)
  BY BackIs
<1>3. \A p \in PowerOn : SequenceAtStart(p).fsm # Faulted
  BY AtStartIs
<1>4. /\ IsState(u) /\ N(u) = N(s) /\ R(u) = <<>> /\ Transits(u.power) /\ u.off = s.off /\ u.locked = s.locked
      /\ u.queue.highest = s.queue.highest /\ \A p \in PowerOn : p # q => u.seq[p] = s.seq[p]
  BY <1>2 DEF SameButSeq, N, R, Failed
<1>5. SeqsIdle(u.seq) /\ u.off.fsm = Idle
  BY <1>2, <1>4, AloneAtRest DEF Failed
<1>6. /\ s.seq[q].fsm = Faulted /\ s.off.fsm # Faulted /\ \A p \in PowerOn : p # q => s.seq[p].fsm # Faulted
  BY <1>3 DEF Failed, Alone, Idle, Faulted
<1>7. u.seq[q].fsm # Faulted /\ u.off = s.off /\ \A p \in PowerOn : p # q => u.seq[p] = s.seq[p]
  BY <1>2, <1>3, <1>4
<1>8. Handled(s, e) = PowerHandled(u, e)
  BY <1>1, <1>6, <1>7, HandledFailure
<1> HIDE DEF u, e
<1>9. OffOnly(R(u)) /\ AllIn(N(u), Noise \cup Stale)
  BY <1>4, OffOnlyNone DEF AllIn
<1>10. Leads(u, PowerHandled(u, Faulty))
  BY <1>4, <1>5, <1>9, PowerFails
<1>11. Leads(s, PowerHandled(u, Faulty))
  BY <1>4, <1>10, LedByState
<1> QED BY <1>8, <1>11 DEF e

LEMMA FaultClears ==
  ASSUME NEW s, IsState(s), Faulting(R(s), s.power, s.seq, s.off),
         AllIn(N(s), Noise \cup Stale), LiveAfter(N(s), R(s), {})
  PROVE  Leads(s, Handled(s, Clear(s.power)))
<1> DEFINE e == Clear(s.power)
           t == WithMove(s, OFF, s.power.destination)
<1>1. s.power.previous \in Int /\ s.power.destination \in PowerStates /\ s.power.fsm = FAULT /\ OFF \in PowerStates
  BY PowerTyped, PowerStatesAre DEF Faulting
<1>2. e.of = "power" /\ e.id = "CLEAR_FAULT" /\ e.data = s.power.previous
  BY <1>1, ClearFacts
<1>3. e.id # "FAULT" /\ e.id # "COMPLETE"
  BY <1>2
<1>4. Handled(s, e) = PowerHandled(s, e)
  BY <1>2, <1>3, HandledByPower
<1>5. e.id \notin DOMAIN Destination /\ e.id \notin Accepted(s.power.fsm) /\ s.power.fsm # TRANSITIONING
  BY <1>1, <1>2, DestinationFacts DEF Accepted, FAULT, TRANSITIONING, OFF, AUX, MAIN
<1>6. PowerHandled(s, e) = t
  BY <1>1, <1>2, <1>3, <1>5 DEF PowerHandled, WithMove
<1>7. SameButPower(s, t) /\ t.power.fsm = OFF
  BY <1>1, MovedIs
<1> HIDE DEF t, e
<1>8. /\ IsState(t) /\ N(t) = N(s) /\ R(t) = R(s) /\ t.seq = s.seq /\ t.off = s.off /\ t.locked = s.locked
      /\ t.queue.highest = s.queue.highest
  BY <1>7 DEF SameButPower, N, R
<1>9. Resting(R(t), t.power, t.seq, t.off)
  BY <1>7, <1>8 DEF Resting, Faulting
<1>10. RestQueue(N(t), R(t))
  <2>1. AllIn(N(s), Noise \cup (PowerRequests \cup Stale))
    BY DEF AllIn
  <2> QED BY <1>8, <2>1 DEF RestQueue
<1>11. InPhase(t)
  BY <1>9, <1>10 DEF InPhase, Phase
<1> QED BY <1>4, <1>6, <1>8, <1>11 DEF Leads, e

\* What is left of an off sequence that failed does nothing.
LEMMA StaleIgnored ==
  ASSUME NEW s, NEW e \in Stale, s.off.fsm \in {Idle, Faulted}
  PROVE  Handled(s, e) = s
<1>1. e.of = "off" /\ e.id \in {"FAULT", "TURNED_OFF"}
  BY DEF Stale, OffFault, TurnedOff, Event
<1>2. Handled(s, e) = PowerHandled(OffHandled(s, e), e)
  BY <1>1, HandledByOff
<1>3. OffHandled(s, e) = s
  BY <1>1 DEF OffHandled, Idle, Faulted, Discharging, TurningOff, OpeningRelays
<1>4. e.of # "power" /\ e.id # "COMPLETE" /\ e.id # "CLEAR_FAULT"
  BY <1>1
<1>5. PowerHandled(s, e) = s
  BY <1>4, PowerQuiet
<1> QED BY <1>2, <1>3, <1>5

\* A request of the button's behind the one that began a sequence.
LEMMA RequestAtBegin ==
  ASSUME NEW s, IsState(s), NEW e \in PowerRequests, Beginning(R(s), s.power, s.seq, s.off),
         NEW q \in {"main", "aux", "off"}, BeginQueue(N(s), q)
  PROVE  Leads(s, PowerHandled(s, e))
<1> DEFINE d == Destination[e.id]
           t == WithDestination(s, d)
<1>1. /\ e.of = "power" /\ e.id \in DOMAIN Destination /\ d \in PowerStates
      /\ e.id # "FAULT" /\ e.id # "COMPLETE" /\ e.id # "CLEAR_FAULT"
  BY RequestFacts, PowerStatesAre
<1>2. s.power.fsm = TRANSITIONING
  BY DEF Beginning, Transits
<1>3. e.id \notin Accepted(s.power.fsm)
  BY <1>2 DEF Accepted, TRANSITIONING, OFF, MAIN, AUX, FAULT
<1>4. PowerHandled(s, e) = t
  BY <1>1, <1>3 DEF PowerHandled, WithDestination
<1>5. SameButPower(s, t) /\ t.power.fsm = s.power.fsm /\ t.power.current = s.power.current
  BY <1>1, DestinationIs
<1> HIDE DEF t, d
<1>6. /\ IsState(t) /\ N(t) = N(s) /\ R(t) = R(s) /\ t.seq = s.seq /\ t.off = s.off /\ t.locked = s.locked
      /\ t.queue.highest = s.queue.highest
  BY <1>5 DEF SameButPower, N, R
<1>7. Beginning(R(t), t.power, t.seq, t.off)
  BY <1>5, <1>6 DEF Beginning, Transits
<1>8. InPhase(t)
  BY <1>6, <1>7 DEF InPhase, Phase
<1> QED BY <1>4, <1>6, <1>8 DEF Leads

-----------------------------------------------------------------------------
(* The off sequence                                                          *)

LEMMA OffSteps ==
  /\ \A k \in {Idle, Faulted, Discharging, TurningOff, OpeningRelays, OffComplete} : k \in -1 .. 4
  /\ Idle # Faulted /\ Idle # Discharging /\ Idle # TurningOff /\ Idle # OpeningRelays /\ Idle # OffComplete
BY DEF Idle, Faulted, Discharging, TurningOff, OpeningRelays, OffComplete

\* The off sequence enters a step: what it tells of the state before, but for the step.
OffStep(s, u, k) ==
  /\ IsState(u) /\ N(u) = N(s) /\ R(u) = R(s) /\ u.power = s.power /\ u.seq = s.seq /\ u.granted = s.granted
  /\ u.locked = s.locked /\ u.queue.highest = s.queue.highest /\ u.off.fsm = k

LEMMA OffStepIs ==
  ASSUME NEW s, IsState(s), NEW k \in -1 .. 4
  PROVE  OffStep(s, WithOffFsm(s, k), k)
<1>1. SameButOff(s, WithOffFsm(s, k)) /\ WithOffFsm(s, k).off.fsm = k
  BY OffFsmIs
<1> QED BY <1>1 DEF SameButOff, OffStep, N, R

LEMMA OffBegins ==
  ASSUME NEW s, IsState(s), Beginning(R(s), s.power, s.seq, s.off), AllIn(N(s), Noise)
  PROVE  Leads(s, Handled(s, ToBegin("off")))
<1> DEFINE e == ToBegin("off")
           u1 == WithGranted(s, {})
           u2 == WithOffFsm(u1, Discharging)
           u3 == Transmitted(u2, "DISCHARGE", {})
           t == Raised(u3, "off", "DISCHARGED", 0)
<1>1. e.of = "off" /\ e.id = "BEGIN" /\ e.of # "power" /\ e.id # "COMPLETE" /\ e.id # "CLEAR_FAULT"
  BY DEF ToBegin, Event
<1>2. s.off.fsm = Idle /\ R(s) = <<>>
  BY DEF Beginning
<1>3. OffHandled(s, e) = t
  BY <1>1, <1>2 DEF OffHandled, WithGranted, WithOffFsm
<1>4. Handled(s, e) = t
  BY <1>1, <1>3, HandledByOff, PowerQuiet
<1>5. SameButGranted(s, u1)
  BY GrantedIs
<1>6. IsState(u1)
  BY <1>5 DEF SameButGranted
<1>7. OffStep(u1, u2, Discharging)
  BY <1>6, OffSteps, OffStepIs
<1>8. IsState(u2)
  BY <1>7 DEF OffStep
<1>9. Pushed(u2, u3, TxEvent)
  BY <1>8, TransmittedIs
<1>10. IsState(u3) /\ "off" \in Ofs /\ "DISCHARGED" \in Ids /\ 0 \in Int
  BY <1>9 DEF Pushed, Ofs, Ids
<1>11. Pushed(u3, t, Discharged)
  BY <1>10, RaisedIs DEF Discharged
<1> HIDE DEF u1, u2, u3, t, e
<1>12. /\ IsState(t) /\ N(t) = Append(Append(N(s), TxEvent), Discharged) /\ R(t) = <<>> /\ t.seq = s.seq /\ t.power = s.power
       /\ t.off.fsm = Discharging /\ t.locked = s.locked /\ t.queue.highest = s.queue.highest
  BY <1>2, <1>5, <1>7, <1>9, <1>11 DEF SameButGranted, OffStep, Pushed, SameRest, N, R
<1>13. TurningTo(Discharging, t.power, t.seq, t.off)
  BY <1>12 DEF TurningTo, Beginning
<1>14. Carries(N(t), {Discharged})
  <2>1. N(s) \in Seq(Events) /\ Discharged \in Control
    BY TokenFacts DEF IsState, Typed, N
  <2>2. AllIn(Append(N(s), TxEvent), Noise) /\ Append(N(s), TxEvent) \in Seq(Events)
    BY <2>1, NoiseBehind, TxIsNoise, AppendIs
  <2> QED BY <1>12, <2>1, <2>2, CarriesOne
<1>15. InPhase(t)
  BY <1>12, <1>13, <1>14 DEF InPhase, Phase, OffPhase
<1> QED BY <1>4, <1>12, <1>15 DEF Leads, e

LEMMA OffAsks ==
  ASSUME NEW s, IsState(s), TurningTo(Discharging, s.power, s.seq, s.off), R(s) = <<>>, AllIn(N(s), Noise)
  PROVE  Leads(s, Handled(s, Discharged))
<1> DEFINE e == Discharged
           u == WithOffFsm(s, TurningOff)
           t == Requested(u, "off", TurningOff, "OFF_SEQUENCE", Distributions)
<1>1. e.of = "off" /\ e.id = "DISCHARGED" /\ e.of # "power" /\ e.id # "COMPLETE" /\ e.id # "CLEAR_FAULT"
  BY DEF Discharged, Event
<1>2. s.off.fsm = Discharging
  BY DEF TurningTo
<1>3. OffHandled(s, e) = t
  BY <1>1, <1>2 DEF OffHandled, WithOffFsm, Distributions
<1>4. Handled(s, e) = t
  BY <1>1, <1>3, HandledByOff, PowerQuiet
<1>5. OffStep(s, u, TurningOff)
  BY OffSteps, OffStepIs
<1>6. IsState(u)
  BY <1>5 DEF OffStep
<1>7. Sent(u, t, OffRequest(Distributions))
  BY <1>6, RequestedIs DEF OffRequest
<1> HIDE DEF u, t, e
<1>8. /\ IsState(t) /\ N(t) = Append(N(s), TxEvent) /\ R(t) = <<OffRequest(Distributions)>> /\ t.seq = s.seq /\ t.power = s.power
      /\ t.off.fsm = TurningOff /\ t.locked = s.locked /\ t.queue.highest = s.queue.highest
  <2>1. Append(<<>>, OffRequest(Distributions)) = <<OffRequest(Distributions)>>
    OBVIOUS
  <2> QED BY <1>5, <1>7, <2>1 DEF OffStep, Sent, SameRest
<1>9. TurningTo(TurningOff, t.power, t.seq, t.off)
  BY <1>8 DEF TurningTo
<1>10. Turning(R(t), t.granted)
  <2>1. OffGranted(Distributions \ Distributions, t.granted) /\ Distributions \in SUBSET Distributions
    BY DEF OffGranted
  <2> QED BY <1>8, <2>1 DEF Turning
<1>11. Carries(N(t), {})
  <2>1. N(s) \in Seq(Events)
    BY DEF IsState, Typed, N
  <2> QED BY <1>8, <2>1, NoiseBehind, CarriesNone
<1>12. InPhase(t)
  BY <1>9, <1>10, <1>11 DEF InPhase, Phase, OffPhase
<1> QED BY <1>4, <1>8, <1>12 DEF Leads, e

LEMMA OffOpens ==
  ASSUME NEW s, IsState(s), TurningTo(TurningOff, s.power, s.seq, s.off), R(s) = <<>>, AllIn(N(s), Noise),
         OffGranted(Distributions, s.granted)
  PROVE  Leads(s, Handled(s, TurnedOff))
<1> DEFINE e == TurnedOff
           u == WithOffFsm(s, OpeningRelays)
           t == Requested(u, "relay", OpeningRelays, "RELAY_STATES", {"bms"})
<1>1. e.of = "off" /\ e.id = "TURNED_OFF" /\ e.of # "power" /\ e.id # "COMPLETE" /\ e.id # "CLEAR_FAULT"
  BY DEF TurnedOff, Event
<1>2. s.off.fsm = TurningOff
  BY DEF TurningTo
<1>3. OffHandled(s, e) = t
  BY <1>1, <1>2 DEF OffHandled, WithOffFsm, RelayRequested
<1>4. Handled(s, e) = t
  BY <1>1, <1>3, HandledByOff, PowerQuiet
<1>5. OffStep(s, u, OpeningRelays)
  BY OffSteps, OffStepIs
<1>6. IsState(u)
  BY <1>5 DEF OffStep
<1>7. Sent(u, t, RelayRequest({"bms"}))
  BY <1>6, RequestedIs DEF RelayRequest
<1> HIDE DEF u, t, e
<1>8. /\ IsState(t) /\ N(t) = Append(N(s), TxEvent) /\ R(t) = <<RelayRequest({"bms"})>> /\ t.seq = s.seq /\ t.power = s.power
      /\ t.off.fsm = OpeningRelays /\ t.locked = s.locked /\ t.queue.highest = s.queue.highest /\ t.granted = s.granted
  <2>1. Append(<<>>, RelayRequest({"bms"})) = <<RelayRequest({"bms"})>>
    OBVIOUS
  <2> QED BY <1>5, <1>7, <2>1 DEF OffStep, Sent, SameRest
<1>9. TurningTo(OpeningRelays, t.power, t.seq, t.off) /\ OffGranted(Distributions, t.granted)
  BY <1>8 DEF TurningTo
<1>10. Carries(N(t), {})
  <2>1. N(s) \in Seq(Events)
    BY DEF IsState, Typed, N
  <2> QED BY <1>8, <2>1, NoiseBehind, CarriesNone
<1>11. InPhase(t)
  BY <1>8, <1>9, <1>10 DEF InPhase, Phase, OffPhase
<1> QED BY <1>4, <1>8, <1>11 DEF Leads, e

LEMMA OffOpened ==
  ASSUME NEW s, IsState(s), TurningTo(OpeningRelays, s.power, s.seq, s.off), R(s) = <<>>, AllIn(N(s), Noise),
         OffGranted(Distributions, s.granted), RelayGranted(s.granted)
  PROVE  Leads(s, Handled(s, RelaysOpened))
<1> DEFINE e == RelaysOpened
           u == WithOffFsm(s, OffComplete)
           t == Raised(u, "off", "COMPLETE", 0)
<1>1. e.of = "off" /\ e.id = "RELAYS_OPENED" /\ e.of # "power" /\ e.id # "COMPLETE" /\ e.id # "CLEAR_FAULT"
  BY DEF RelaysOpened, Event
<1>2. s.off.fsm = OpeningRelays
  BY DEF TurningTo
<1>3. OffHandled(s, e) = t
  BY <1>1, <1>2 DEF OffHandled, WithOffFsm
<1>4. Handled(s, e) = t
  BY <1>1, <1>3, HandledByOff, PowerQuiet
<1>5. OffStep(s, u, OffComplete)
  BY OffSteps, OffStepIs
<1>6. IsState(u) /\ "off" \in Ofs /\ "COMPLETE" \in Ids /\ 0 \in Int
  BY <1>5 DEF OffStep, Ofs, Ids
<1>7. Pushed(u, t, Complete("off"))
  BY <1>6, RaisedIs DEF Complete
<1> HIDE DEF u, t, e
<1>8. /\ IsState(t) /\ N(t) = Append(N(s), Complete("off")) /\ R(t) = <<>> /\ t.seq = s.seq /\ t.power = s.power
      /\ t.off.fsm = OffComplete /\ t.locked = s.locked /\ t.queue.highest = s.queue.highest /\ t.granted = s.granted
  BY <1>5, <1>7 DEF OffStep, Pushed, SameRest
<1>9. TurningTo(OffComplete, t.power, t.seq, t.off) /\ OffGranted(Distributions, t.granted) /\ RelayGranted(t.granted)
  BY <1>8 DEF TurningTo
<1>10. Carries(N(t), {Complete("off")})
  <2>1. N(s) \in Seq(Events) /\ Complete("off") \in Control
    BY TokenFacts DEF IsState, Typed, N
  <2> QED BY <1>8, <2>1, CarriesOne
<1>11. InPhase(t)
  BY <1>8, <1>9, <1>10 DEF InPhase, Phase, OffPhase
<1> QED BY <1>4, <1>8, <1>11 DEF Leads, e

LEMMA OffEnds ==
  ASSUME NEW s, IsState(s), TurningTo(OffComplete, s.power, s.seq, s.off), R(s) = <<>>, AllIn(N(s), Noise)
  PROVE  Leads(s, Handled(s, Complete("off")))
<1> DEFINE e == Complete("off")
           u == WithOffFsm(s, Idle)
<1>1. e.of = "off" /\ e.id = "COMPLETE"
  BY DEF Complete, Event
<1>2. s.off.fsm = OffComplete
  BY DEF TurningTo
<1>3. OffHandled(s, e) = u
  BY <1>1, <1>2 DEF OffHandled, WithOffFsm
<1>4. Handled(s, e) = PowerHandled(u, e)
  BY <1>1, <1>3, HandledByOff
<1>5. OffStep(s, u, Idle)
  BY OffSteps, OffStepIs
<1> HIDE DEF u, e
<1>6. /\ IsState(u) /\ Transits(u.power) /\ SeqsIdle(u.seq) /\ u.off.fsm = Idle /\ R(u) = <<>> /\ AllIn(N(u), Noise)
      /\ u.locked = s.locked /\ u.queue.highest = s.queue.highest
  BY <1>5 DEF OffStep, TurningTo
<1>7. Leads(u, PowerHandled(u, Complete("off")))
  BY <1>6, PowerMoves
<1>8. Leads(s, PowerHandled(u, Complete("off")))
  BY <1>6, <1>7, LedByState
<1> QED BY <1>4, <1>8 DEF e

LEMMA FaultBehind ==
  ASSUME NEW Q \in Seq(Events), AllIn(Q, Noise \cup Stale)
  PROVE  FailedQueue(Append(Q, Faulty))
<1>1. Faulty \in Events /\ Faulty \notin Noise \cup Stale
  <2>1. Faulty.of = "power" /\ \A e \in Stale : e.of = "off"
    BY DEF Faulty, Stale, OffFault, TurnedOff, Event
  <2> QED BY <2>1, TokenFacts, EventFacts
<1>2. AllIn(Q, Noise \cup (Stale \cup {Faulty})) /\ NoneOf(Q, {Faulty}) /\ AtMostOne(Q, {Faulty})
  BY <1>1 DEF AllIn, NoneOf, AtMostOne
<1>3. AllIn(Append(Q, Faulty), Noise \cup (Stale \cup {Faulty}))
  BY <1>1, <1>2, AddAllIn
<1>4. AtMostOne(Append(Q, Faulty), {Faulty})
  BY <1>1, <1>2, AddAtMostOne
<1> QED BY <1>3, <1>4 DEF FailedQueue

LEMMA OffFails ==
  ASSUME NEW s, IsState(s), NEW k \in {TurningOff, OpeningRelays}, TurningTo(k, s.power, s.seq, s.off),
         OffOnly(R(s)), AllIn(N(s), Noise \cup Stale)
  PROVE  Leads(s, Handled(s, OffFault))
<1> DEFINE e == OffFault
           u == WithOffFsm(s, Faulted)
           t == Raised(u, "power", "FAULT", 0)
<1>1. e.of = "off" /\ e.id = "FAULT" /\ e.of # "power" /\ e.id # "COMPLETE" /\ e.id # "CLEAR_FAULT"
  BY DEF OffFault, Event
<1>2. s.off.fsm \in {TurningOff, OpeningRelays}
  BY DEF TurningTo
<1>3. OffHandled(s, e) = t
  BY <1>1, <1>2 DEF OffHandled, WithOffFsm, TurningOff, OpeningRelays, Discharging
<1>4. Handled(s, e) = t
  BY <1>1, <1>3, HandledByOff, PowerQuiet
<1>5. OffStep(s, u, Faulted)
  BY OffSteps, OffStepIs
<1>6. IsState(u) /\ "power" \in Ofs /\ "FAULT" \in Ids /\ 0 \in Int
  BY <1>5 DEF OffStep, Ofs, Ids
<1>7. Pushed(u, t, Faulty)
  BY <1>6, RaisedIs DEF Faulty
<1> HIDE DEF u, t, e
<1>8. /\ IsState(t) /\ N(t) = Append(N(s), Faulty) /\ R(t) = R(s) /\ t.seq = s.seq /\ t.power = s.power
      /\ t.off.fsm = Faulted /\ t.locked = s.locked /\ t.queue.highest = s.queue.highest
  BY <1>5, <1>7 DEF OffStep, Pushed, SameRest
<1>9. TurningTo(Faulted, t.power, t.seq, t.off) /\ OffOnly(R(t))
  BY <1>8 DEF TurningTo
<1>10. FailedQueue(N(t))
  <2>1. N(s) \in Seq(Events)
    BY DEF IsState, Typed, N
  <2> QED BY <1>8, <2>1, FaultBehind
<1>11. InPhase(t)
  BY <1>9, <1>10 DEF InPhase, Phase, OffPhase
<1> QED BY <1>4, <1>8, <1>11 DEF Leads, e

LEMMA OffFaults ==
  ASSUME NEW s, IsState(s), TurningTo(Faulted, s.power, s.seq, s.off), OffOnly(R(s)), AllIn(N(s), Noise \cup Stale)
  PROVE  Leads(s, Handled(s, Faulty))
<1> DEFINE e == Faulty
           u == WithOffFsm(s, Idle)
<1>1. e.of = "power" /\ e.id = "FAULT"
  BY DEF Faulty, Event
<1>2. s.off.fsm = Faulted /\ \A q \in PowerOn : s.seq[q].fsm # Faulted
  BY AtStartIs DEF TurningTo, SeqsIdle
<1>3. OffHandled(s, e) = u
  BY <1>1, <1>2 DEF OffHandled, WithOffFsm
<1>4. "main" \in PowerOn /\ "aux" \in PowerOn /\ e.of # "main" /\ e.of # "aux"
  BY <1>1 DEF PowerOn
<1>5. SequenceHandled(s, "main", e) = s /\ SequenceHandled(s, "aux", e) = s
  BY <1>2, <1>4, SequenceQuiet
<1>6. Handled(s, e) = PowerHandled(u, e)
  BY <1>3, <1>5 DEF Handled
<1>7. OffStep(s, u, Idle)
  BY OffSteps, OffStepIs
<1> HIDE DEF u, e
<1>8. /\ IsState(u) /\ Transits(u.power) /\ SeqsIdle(u.seq) /\ u.off.fsm = Idle /\ OffOnly(R(u)) /\ AllIn(N(u), Noise \cup Stale)
      /\ u.locked = s.locked /\ u.queue.highest = s.queue.highest
  BY <1>7 DEF OffStep, TurningTo
<1>9. Leads(u, PowerHandled(u, Faulty))
  BY <1>8, PowerFails
<1>10. Leads(s, PowerHandled(u, Faulty))
  BY <1>8, <1>9, LedByState
<1> QED BY <1>6, <1>10 DEF e

-----------------------------------------------------------------------------
(* The main loop takes an event of a sequence or of the power FSM            *)

\* u is s without the event at the head of its queue.
Popped(s, u) ==
  /\ IsState(s) /\ IsState(u) /\ N(s) # <<>> /\ N(u) = Tail(N(s)) /\ R(u) = R(s) /\ SameRest(s, u)

\* What the phases tell of it.
PoppedFields(s, u, e) ==
  /\ IsState(u) /\ N(s) \in Seq(Events) /\ N(s) # <<>> /\ e = Head(N(s)) /\ e \in Control /\ e \notin Noise
  /\ N(u) = Tail(N(s)) /\ R(u) = R(s)
  /\ u.power = s.power /\ u.seq = s.seq /\ u.off = s.off /\ u.granted = s.granted

LEMMA PoppedIs ==
  ASSUME NEW s, NEW u, Popped(s, u), Head(N(s)) \in Control
  PROVE  PoppedFields(s, u, Head(N(s)))
<1>1. IsState(s) /\ IsState(u) /\ N(s) # <<>> /\ N(u) = Tail(N(s)) /\ R(u) = R(s) /\ SameRest(s, u)
  BY DEF Popped
<1>2. N(s) \in Seq(Events)
  BY <1>1 DEF IsState, Typed, N
<1> QED BY <1>1, <1>2, EventFacts DEF PoppedFields, SameRest

LEMMA RequestHandled ==
  ASSUME NEW s, NEW e \in PowerRequests
  PROVE  Handled(s, e) = PowerHandled(s, e)
BY RequestFacts, HandledByPower

LEMMA ControlAtRest ==
  ASSUME NEW s, NEW u, NEW e, PoppedFields(s, u, e), Resting(R(s), s.power, s.seq, s.off), RestQueue(N(s), R(s))
  PROVE  Leads(u, Handled(u, e))
<1>1. IsState(u) /\ Resting(R(u), u.power, u.seq, u.off)
  BY DEF PoppedFields
<1>2. N(s) \in Seq(Events) /\ N(s) # <<>> /\ e = Head(N(s)) /\ N(u) = Tail(N(s)) /\ R(u) = R(s) /\ e \notin Noise
  BY DEF PoppedFields
<1>3. AllIn(N(u), Noise \cup (PowerRequests \cup Stale)) /\ e \in PowerRequests \cup Stale
  BY <1>2, PopAllIn DEF RestQueue
<1>4. LiveAfter(N(u), R(u), {}) /\ (e \in Live => R(u) = <<>> /\ NoneOf(N(u), Stale))
  BY <1>2, PopLive DEF RestQueue
<1>5. RestQueue(N(u), R(u))
  BY <1>3, <1>4 DEF RestQueue
<1>6. CASE e \in PowerRequests
  <2>1. R(u) = <<>> /\ NoneOf(N(u), Stale)
    BY <1>4, <1>6 DEF Live
  <2>2. Leads(u, PowerHandled(u, e))
    BY <1>1, <1>5, <1>6, <2>1, RequestAtRest
  <2> QED BY <1>6, <2>2, RequestHandled
<1>7. CASE e \in Stale
  <2>1. Handled(u, e) = u
    BY <1>1, <1>7, StaleIgnored DEF Resting
  <2>2. InPhase(u)
    BY <1>1, <1>5 DEF InPhase, Phase
  <2> QED BY <1>1, <2>1, <2>2 DEF Leads
<1> QED BY <1>3, <1>6, <1>7

LEMMA ControlAtFault ==
  ASSUME NEW s, NEW u, NEW e, PoppedFields(s, u, e), Faulting(R(s), s.power, s.seq, s.off), FaultQueue(N(s), R(s), s.power)
  PROVE  Leads(u, Handled(u, e))
<1>1. IsState(u) /\ Faulting(R(u), u.power, u.seq, u.off) /\ u.power = s.power
  BY DEF PoppedFields
<1>2. N(s) \in Seq(Events) /\ N(s) # <<>> /\ e = Head(N(s)) /\ N(u) = Tail(N(s)) /\ R(u) = R(s) /\ e \notin Noise
  BY DEF PoppedFields
<1> DEFINE c == Clear(u.power)
<1>3. AllIn(N(u), Noise \cup (Stale \cup {c})) /\ e \in Stale \cup {c}
  BY <1>1, <1>2, PopAllIn DEF FaultQueue
<1>4. AtMostOne(N(u), {c}) /\ (e \in {c} => NoneOf(N(u), {c}))
  BY <1>1, <1>2, PopAtMostOne DEF FaultQueue
<1>5. LiveAfter(N(u), R(u), {c}) /\ (e \in {c} => LiveAfter(N(u), R(u), {}))
  BY <1>1, <1>2, PopLive DEF FaultQueue
<1>6. CASE e = c
  <2>1. AllIn(N(u), Noise \cup Stale)
    BY <1>3, <1>4, <1>6 DEF AllIn, NoneOf
  <2>2. Leads(u, Handled(u, c))
    BY <1>1, <1>5, <1>6, <2>1, FaultClears
  <2> QED BY <1>6, <2>2
<1>7. CASE e \in Stale
  <2>1. Handled(u, e) = u
    BY <1>1, <1>7, StaleIgnored DEF Faulting
  <2>2. FaultQueue(N(u), R(u), u.power)
    BY <1>3, <1>4, <1>5 DEF FaultQueue
  <2>3. InPhase(u)
    BY <1>1, <2>2 DEF InPhase, Phase
  <2> QED BY <1>1, <2>1, <2>3 DEF Leads
<1> QED BY <1>3, <1>6, <1>7

LEMMA ControlAtBegin ==
  ASSUME NEW s, NEW u, NEW e, PoppedFields(s, u, e), Beginning(R(s), s.power, s.seq, s.off),
         NEW q \in {"main", "aux", "off"}, BeginQueue(N(s), q)
  PROVE  Leads(u, Handled(u, e))
<1>1. IsState(u) /\ Beginning(R(u), u.power, u.seq, u.off)
  BY DEF PoppedFields
<1>2. N(s) \in Seq(Events) /\ N(s) # <<>> /\ e = Head(N(s)) /\ N(u) = Tail(N(s)) /\ e \notin Noise
  BY DEF PoppedFields
<1> DEFINE b == ToBegin(q)
<1>3. AllIn(N(u), Noise \cup (PowerRequests \cup {b})) /\ e \in PowerRequests \cup {b}
  BY <1>2, PopAllIn DEF BeginQueue
<1>4. AtMostOne(N(u), {b}) /\ (e \in {b} => NoneOf(N(u), {b}))
  BY <1>2, PopAtMostOne DEF BeginQueue
<1>5. InOrder(N(u), PowerRequests, {b}) /\ (e \in {b} => NoneOf(N(u), PowerRequests))
  BY <1>2, PopInOrder DEF BeginQueue
<1>6. CASE e = b
  <2>1. AllIn(N(u), Noise)
    BY <1>3, <1>4, <1>5, <1>6 DEF AllIn, NoneOf
  <2>2. CASE q \in PowerOn
    BY <1>1, <1>6, <2>1, <2>2, SequenceBegins
  <2>3. CASE q = "off"
    BY <1>1, <1>6, <2>1, <2>3, OffBegins
  <2> QED BY <2>2, <2>3 DEF PowerOn
<1>7. CASE e \in PowerRequests
  <2>1. BeginQueue(N(u), q)
    BY <1>3, <1>4, <1>5 DEF BeginQueue
  <2>2. Leads(u, PowerHandled(u, e))
    BY <1>1, <1>7, <2>1, RequestAtBegin
  <2> QED BY <1>7, <2>2, RequestHandled
<1> QED BY <1>3, <1>6, <1>7

LEMMA ControlOn ==
  ASSUME NEW s, NEW u, NEW e, PoppedFields(s, u, e), OnPhase(N(s), R(s), s.power, s.seq, s.off, s.granted)
  PROVE  Leads(u, Handled(u, e))
<1>1. IsState(u) /\ R(u) = R(s) /\ u.power = s.power /\ u.seq = s.seq /\ u.off = s.off /\ u.granted = s.granted
  BY DEF PoppedFields
<1>2. N(s) \in Seq(Events) /\ N(s) # <<>> /\ e = Head(N(s)) /\ N(u) = Tail(N(s)) /\ e \notin Noise
  BY DEF PoppedFields
<1>3. PICK q \in PowerOn :
        \/ \E k \in 1 .. Final(q) : Asking(q, k, R(s), s.power, s.seq, s.off, s.granted) /\ Carries(N(s), {})
        \/ \E k \in 1 .. Final(q) : Moving(q, k, R(s), s.power, s.seq, s.off, s.granted) /\ Carries(N(s), {Advance(q, k)})
        \/ \E k \in 1 .. Final(q) : Failing(q, k, R(s), s.power, s.seq, s.off, s.granted) /\ Carries(N(s), {Fails(q, k)})
        \/ Finished(q, R(s), s.power, s.seq, s.off, s.granted) /\ Carries(N(s), {Complete(q)})
        \/ Failed(q, R(s), s.power, s.seq, s.off) /\ Carries(N(s), {Faulty})
  BY DEF OnPhase
<1>4. q \in {"main", "aux", "off"} /\ \A k \in 1 .. Final(q) : k \in Int
  BY DEF PowerOn
<1>5. \A c \in Control : Carries(N(s), {c}) => e = c /\ AllIn(N(u), Noise)
  BY <1>2, CarriesPop
<1>6. ~Carries(N(s), {})
  <2>1. Carries(N(s), {}) => Head(N(s)) \in Noise
    BY <1>2, CarriesNone, PopAllIn
  <2> QED BY <1>2, <2>1
<1>7. ASSUME NEW k \in 1 .. Final(q), Moving(q, k, R(s), s.power, s.seq, s.off, s.granted), Carries(N(s), {Advance(q, k)})
      PROVE  Leads(u, Handled(u, e))
  <2>1. e = Advance(q, k) /\ AllIn(N(u), Noise)
    BY <1>4, <1>5, <1>7, TokenFacts
  <2>2. Moving(q, k, R(u), u.power, u.seq, u.off, u.granted)
    BY <1>1, <1>7
  <2> QED BY <1>1, <2>1, <2>2, SequenceAdvances
<1>8. ASSUME NEW k \in 1 .. Final(q), Failing(q, k, R(s), s.power, s.seq, s.off, s.granted), Carries(N(s), {Fails(q, k)})
      PROVE  Leads(u, Handled(u, e))
  <2>1. e = Fails(q, k) /\ AllIn(N(u), Noise)
    BY <1>4, <1>5, <1>8, TokenFacts
  <2>2. Failing(q, k, R(u), u.power, u.seq, u.off, u.granted)
    BY <1>1, <1>8
  <2> QED BY <1>1, <2>1, <2>2, SequenceFails
<1>9. CASE Finished(q, R(s), s.power, s.seq, s.off, s.granted) /\ Carries(N(s), {Complete(q)})
  <2>1. e = Complete(q) /\ AllIn(N(u), Noise)
    BY <1>4, <1>5, <1>9, TokenFacts
  <2>2. Finished(q, R(u), u.power, u.seq, u.off, u.granted)
    BY <1>1, <1>9
  <2> QED BY <1>1, <2>1, <2>2, SequenceEnds
<1>10. CASE Failed(q, R(s), s.power, s.seq, s.off) /\ Carries(N(s), {Faulty})
  <2>1. e = Faulty /\ AllIn(N(u), Noise)
    BY <1>5, <1>10, TokenFacts
  <2>2. Failed(q, R(u), u.power, u.seq, u.off)
    BY <1>1, <1>10
  <2> QED BY <1>1, <2>1, <2>2, SequenceFaults
<1> QED BY <1>3, <1>6, <1>7, <1>8, <1>9, <1>10

LEMMA ControlOff ==
  ASSUME NEW s, NEW u, NEW e, PoppedFields(s, u, e), OffPhase(N(s), R(s), s.power, s.seq, s.off, s.granted)
  PROVE  Leads(u, Handled(u, e))
<1>1. IsState(u) /\ R(u) = R(s) /\ u.power = s.power /\ u.seq = s.seq /\ u.off = s.off /\ u.granted = s.granted
  BY DEF PoppedFields
<1>2. N(s) \in Seq(Events) /\ N(s) # <<>> /\ e = Head(N(s)) /\ N(u) = Tail(N(s)) /\ e \notin Noise
  BY DEF PoppedFields
<1>3. \A c \in Control : Carries(N(s), {c}) => e = c /\ AllIn(N(u), Noise)
  BY <1>2, CarriesPop
<1>4. ~Carries(N(s), {})
  <2>1. Carries(N(s), {}) => Head(N(s)) \in Noise
    BY <1>2, CarriesNone, PopAllIn
  <2> QED BY <1>2, <2>1
<1>5. \A k : TurningTo(k, s.power, s.seq, s.off) => TurningTo(k, u.power, u.seq, u.off)
  BY <1>1
<1>6. Discharged \in Control /\ TurnedOff \in Control /\ OffFault \in Control /\ RelaysOpened \in Control /\ Complete("off") \in Control
  BY TokenFacts, EventFacts DEF Stale
<1>7. CASE TurningTo(Discharging, s.power, s.seq, s.off) /\ R(s) = <<>> /\ Carries(N(s), {Discharged})
  <2>1. e = Discharged /\ AllIn(N(u), Noise)
    BY <1>3, <1>6, <1>7
  <2> QED BY <1>1, <1>5, <1>7, <2>1, OffAsks
<1>8. CASE TurningTo(TurningOff, s.power, s.seq, s.off) /\ R(s) = <<>> /\ OffGranted(Distributions, s.granted) /\ Carries(N(s), {TurnedOff})
  <2>1. e = TurnedOff /\ AllIn(N(u), Noise)
    BY <1>3, <1>6, <1>8
  <2> QED BY <1>1, <1>5, <1>8, <2>1, OffOpens
<1>9. CASE TurningTo(TurningOff, s.power, s.seq, s.off) /\ OffOnly(R(s)) /\ RefusedQueue(N(s), R(s))
  <2>1. AllIn(N(u), Noise \cup Stale) /\ e \in Stale
    BY <1>2, <1>9, PopAllIn DEF RefusedQueue
  <2>2. InOrder(N(s), {OffFault}, {TurnedOff}) /\ ~NoneOf(N(s), {OffFault})
    BY <1>9 DEF RefusedQueue
  <2>3. e \in {TurnedOff} => NoneOf(N(u), {OffFault})
    BY <1>2, <2>2, PopInOrder
  <2>4. e # TurnedOff
    <3> SUFFICES ASSUME e = TurnedOff PROVE FALSE
      OBVIOUS
    <3>1. NoneOf(Tail(N(s)), {OffFault})
      BY <1>2, <2>3
    <3>2. e # OffFault
      BY DEF TurnedOff, OffFault, Event
    <3>3. ASSUME NEW i \in DOMAIN N(s), N(s)[i] = OffFault PROVE FALSE
      <4>1. i \in Nat /\ i > 0 /\ i # 1
        BY <1>2, <3>2, <3>3, TailIs
      <4>2. i - 1 \in DOMAIN Tail(N(s)) /\ Tail(N(s))[i - 1] = OffFault
        BY <1>2, <3>3, <4>1, TailIs
      <4> QED BY <3>1, <4>2 DEF NoneOf
    <3> QED BY <2>2, <3>3 DEF NoneOf
  <2>5. e = OffFault
    BY <2>1, <2>4 DEF Stale
  <2>6. TurningTo(TurningOff, u.power, u.seq, u.off) /\ OffOnly(R(u))
    BY <1>1, <1>9
  <2> QED BY <1>1, <2>1, <2>5, <2>6, OffFails
<1>10. CASE /\ TurningTo(OpeningRelays, s.power, s.seq, s.off) /\ R(s) = <<>> /\ Carries(N(s), {OffFault})
  <2>1. e = OffFault /\ AllIn(N(u), Noise)
    BY <1>3, <1>6, <1>10
  <2>2. AllIn(N(u), Noise \cup Stale) /\ OffOnly(R(u)) /\ TurningTo(OpeningRelays, u.power, u.seq, u.off)
    BY <1>1, <1>10, <2>1, OffOnlyNone DEF AllIn
  <2> QED BY <1>1, <2>1, <2>2, OffFails
<1>11. CASE /\ TurningTo(OpeningRelays, s.power, s.seq, s.off) /\ OffGranted(Distributions, s.granted)
            /\ R(s) = <<>> /\ RelayGranted(s.granted) /\ Carries(N(s), {RelaysOpened})
  <2>1. e = RelaysOpened /\ AllIn(N(u), Noise)
    BY <1>3, <1>6, <1>11
  <2> QED BY <1>1, <1>5, <1>11, <2>1, OffOpened
<1>12. CASE TurningTo(OffComplete, s.power, s.seq, s.off) /\ R(s) = <<>> /\ Carries(N(s), {Complete("off")})
  <2>1. e = Complete("off") /\ AllIn(N(u), Noise)
    BY <1>3, <1>6, <1>12
  <2> QED BY <1>1, <1>5, <1>12, <2>1, OffEnds
<1>13. CASE TurningTo(Faulted, s.power, s.seq, s.off) /\ OffOnly(R(s)) /\ FailedQueue(N(s))
  <2>1. AllIn(N(u), Noise \cup (Stale \cup {Faulty})) /\ e \in Stale \cup {Faulty}
    BY <1>2, <1>13, PopAllIn DEF FailedQueue
  <2>2. AtMostOne(N(u), {Faulty}) /\ (e \in {Faulty} => NoneOf(N(u), {Faulty}))
    BY <1>2, <1>13, PopAtMostOne DEF FailedQueue
  <2>3. TurningTo(Faulted, u.power, u.seq, u.off) /\ OffOnly(R(u))
    BY <1>1, <1>13
  <2>4. CASE e = Faulty
    <3>1. AllIn(N(u), Noise \cup Stale)
      BY <2>1, <2>2, <2>4 DEF AllIn, NoneOf
    <3> QED BY <1>1, <2>3, <2>4, <3>1, OffFaults
  <2>5. CASE e \in Stale
    <3>1. Handled(u, e) = u
      BY <2>3, <2>5, StaleIgnored DEF TurningTo
    <3>2. InPhase(u)
      BY <2>1, <2>2, <2>3 DEF InPhase, Phase, OffPhase, FailedQueue
    <3> QED BY <1>1, <3>1, <3>2 DEF Leads
  <2> QED BY <2>1, <2>4, <2>5
<1> QED BY <1>4, <1>7, <1>8, <1>9, <1>10, <1>11, <1>12, <1>13 DEF OffPhase

LEMMA ControlKeeps ==
  ASSUME NEW s, NEW u, Popped(s, u), InPhase(s), Head(N(s)) \in Control
  PROVE  Leads(u, Handled(u, Head(N(s))))
<1> DEFINE e == Head(N(s))
<1>1. PoppedFields(s, u, e)
  BY PoppedIs
<1> HIDE DEF e
<1>2. CASE Resting(R(s), s.power, s.seq, s.off) /\ RestQueue(N(s), R(s))
  BY <1>1, <1>2, ControlAtRest DEF e
<1>3. CASE Faulting(R(s), s.power, s.seq, s.off) /\ FaultQueue(N(s), R(s), s.power)
  BY <1>1, <1>3, ControlAtFault DEF e
<1>4. CASE Beginning(R(s), s.power, s.seq, s.off) /\ \E q \in {"main", "aux", "off"} : BeginQueue(N(s), q)
  BY <1>1, <1>4, ControlAtBegin DEF e
<1>5. CASE OnPhase(N(s), R(s), s.power, s.seq, s.off, s.granted)
  BY <1>1, <1>5, ControlOn DEF e
<1>6. CASE OffPhase(N(s), R(s), s.power, s.seq, s.off, s.granted)
  BY <1>1, <1>6, ControlOff DEF e
<1> QED BY <1>2, <1>3, <1>4, <1>5, <1>6 DEF InPhase, Phase

-----------------------------------------------------------------------------
(* The pending requests                                                     *)

SameButRequests(s, t) ==
  /\ IsState(t) /\ t.queue = s.queue /\ t.power = s.power /\ t.seq = s.seq /\ t.off = s.off
  /\ t.locked = s.locked

WithRequests(s, x) == [s EXCEPT !.can.requests = x]
LEMMA RequestsIs ==
  ASSUME NEW s, IsState(s), NEW x
  PROVE  LET t == WithRequests(s, x)
         IN SameButRequests(s, t) /\ R(t) = x /\ t.granted = s.granted
<1> DEFINE t == WithRequests(s, x)
<1>1. t = [s EXCEPT !.can.requests = x]
  BY DEF WithRequests
<1> HIDE DEF t
<1>2. Shaped(s) /\ CanShaped(s.can)
  BY DEF IsState
<1>3. /\ Shaped(t) /\ CanShaped(t.can) /\ t.can.requests = x
      /\ t.queue = s.queue /\ t.power = s.power /\ t.seq = s.seq /\ t.off = s.off
      /\ t.locked = s.locked /\ t.granted = s.granted
  BY <1>1, <1>2 DEF Shaped, CanShaped
<1>4. IsState(t)
  BY <1>3 DEF IsState, Typed
<1>5. SameButRequests(s, t) /\ R(t) = x /\ t.granted = s.granted
  BY <1>3, <1>4 DEF SameButRequests, R
<1> QED BY <1>5 DEF t

WithRequestsOwed(s, x, y) == [s EXCEPT !.can.requests = x, !.owed = y]
LEMMA RequestsOwedIs ==
  ASSUME NEW s, IsState(s), NEW x, NEW y
  PROVE  LET t == WithRequestsOwed(s, x, y)
         IN SameButRequests(s, t) /\ R(t) = x /\ t.granted = s.granted
<1> DEFINE t == WithRequestsOwed(s, x, y)
<1>1. t = [s EXCEPT !.can.requests = x, !.owed = y]
  BY DEF WithRequestsOwed
<1> HIDE DEF t
<1>2. Shaped(s) /\ CanShaped(s.can)
  BY DEF IsState
<1>3. /\ Shaped(t) /\ CanShaped(t.can) /\ t.can.requests = x
      /\ t.queue = s.queue /\ t.power = s.power /\ t.seq = s.seq /\ t.off = s.off
      /\ t.locked = s.locked /\ t.granted = s.granted
  BY <1>1, <1>2 DEF Shaped, CanShaped
<1>4. IsState(t)
  BY <1>3 DEF IsState, Typed
<1>5. SameButRequests(s, t) /\ R(t) = x /\ t.granted = s.granted
  BY <1>3, <1>4 DEF SameButRequests, R
<1> QED BY <1>5 DEF t

\* The only request is answered: it waits for the boards X, the answers are g.
WithAnswer(s, X, g) == [s EXCEPT !.can.requests[1].waiting = X, !.granted = g]
LEMMA AnswerIs ==
  ASSUME NEW s, IsState(s), NEW from, NEW step, NEW msg, NEW W, R(s) = <<Request(from, step, msg, W)>>, NEW X, NEW g
  PROVE  LET t == WithAnswer(s, X, g)
         IN SameButRequests(s, t) /\ R(t) = <<Request(from, step, msg, X)>> /\ t.granted = g
<1> DEFINE t == WithAnswer(s, X, g)
           x == <<Request(from, step, msg, X)>>
<1>1. t = [s EXCEPT !.can.requests[1].waiting = X, !.granted = g]
  BY DEF WithAnswer
<1>2. [s.can.requests EXCEPT ![1].waiting = X] = x
  BY DEF R, Request
<1> HIDE DEF t, x
<1>3. Shaped(s) /\ CanShaped(s.can)
  BY DEF IsState
<1>4. t = [s EXCEPT !.can.requests = [s.can.requests EXCEPT ![1].waiting = X], !.granted = g]
  BY <1>1, <1>3 DEF Shaped, CanShaped
<1>5. t = [s EXCEPT !.can.requests = x, !.granted = g]
  BY <1>2, <1>4
<1>6. /\ Shaped(t) /\ CanShaped(t.can) /\ t.can.requests = x
      /\ t.queue = s.queue /\ t.power = s.power /\ t.seq = s.seq /\ t.off = s.off
      /\ t.locked = s.locked /\ t.granted = g
  BY <1>3, <1>5 DEF Shaped, CanShaped
<1>7. IsState(t)
  BY <1>6 DEF IsState, Typed
<1>8. SameButRequests(s, t) /\ R(t) = x /\ t.granted = g
  BY <1>6, <1>7 DEF SameButRequests, R
<1> QED BY <1>8 DEF t, x

LEMMA BoardSets ==
  ASSUME NEW X \in SUBSET Boards
  PROVE  IsFiniteSet(X) /\ Cardinality(X) \in Nat /\ (Cardinality(X) = 0 <=> X = {})
<1>1. IsFiniteSet({"rear", "front", "bms"})
  <2>1. IsFiniteSet({"rear"})
    BY FS_Singleton
  <2>2. IsFiniteSet({"rear"} \cup {"front"})
    BY <2>1, FS_AddElement
  <2>3. IsFiniteSet(({"rear"} \cup {"front"}) \cup {"bms"})
    BY <2>2, FS_AddElement
  <2>4. ({"rear"} \cup {"front"}) \cup {"bms"} = {"rear", "front", "bms"}
    OBVIOUS
  <2> QED BY <2>3, <2>4
<1>2. IsFiniteSet(X)
  BY <1>1, FS_Subset DEF Boards
<1> QED BY <1>2, FS_EmptySet, FS_CardinalityType

LEMMA OneIsMin == Min({1}) = 1
BY DEF Min

LEMMA RemovedFirst ==
  ASSUME NEW a, NEW b
  PROVE  RemoveAt(<<a>>, 1) = <<>> /\ RemoveAt(<<a, b>>, 1) = <<b>>
<1>1. <<a>> \in Seq({a, b}) /\ <<a, b>> \in Seq({a, b}) /\ Len(<<a>>) = 1 /\ Len(<<a, b>>) = 2
  OBVIOUS
<1>2. SubSeq(<<a>>, 1, 0) = <<>> /\ SubSeq(<<a, b>>, 1, 0) = <<>> /\ SubSeq(<<a>>, 2, 1) = <<>>
  BY <1>1, SubSeqProperties
<1>3. SubSeq(<<a, b>>, 2, 2) = <<b>>
  <2> DEFINE x == SubSeq(<<a, b>>, 2, 2)
  <2>1. x \in Seq({a, b}) /\ Len(x) = 1 /\ x[1] = b
    BY <1>1
  <2> HIDE DEF x
  <2>2. x = <<b>>
    BY <2>1
  <2> QED BY <2>2 DEF x
<1>4. <<>> \o <<>> = <<>> /\ <<>> \o <<b>> = <<b>>
  OBVIOUS
<1>5. /\ RemoveAt(<<a>>, 1) = SubSeq(<<a>>, 1, 1 - 1) \o SubSeq(<<a>>, 1 + 1, Len(<<a>>))
      /\ RemoveAt(<<a, b>>, 1) = SubSeq(<<a, b>>, 1, 1 - 1) \o SubSeq(<<a, b>>, 1 + 1, Len(<<a, b>>))
  BY Zenon DEF RemoveAt
<1>6. 1 - 1 = 0 /\ 1 + 1 = 2
  OBVIOUS
<1>7. RemoveAt(<<a>>, 1) = SubSeq(<<a>>, 1, 0) \o SubSeq(<<a>>, 2, 1)
  BY ONLY <1>1, <1>5, <1>6, Zenon
<1>8. RemoveAt(<<a, b>>, 1) = SubSeq(<<a, b>>, 1, 0) \o SubSeq(<<a, b>>, 2, 2)
  BY ONLY <1>1, <1>5, <1>6, Zenon
<1>9. RemoveAt(<<a>>, 1) = <<>>
  BY ONLY <1>2, <1>4, <1>7, Zenon
<1>10. RemoveAt(<<a, b>>, 1) = <<b>>
  BY ONLY <1>2, <1>3, <1>4, <1>8, Zenon
<1> QED BY <1>9, <1>10

\* can_ack_handle_msg when at most one request is pending.
LEMMA AckWithNone ==
  ASSUME NEW s, R(s) = <<>>, NEW ack
  PROVE  AckHandled(s, ack) = s
<1>1. {i \in DOMAIN s.can.requests : s.can.requests[i].msg = ack.msg /\ ack.device \in s.can.requests[i].waiting} = {}
  BY DEF R
<1> QED BY <1>1 DEF AckHandled

AnswersTo(g, from, step, ack) ==
  IF ack.status = "OK" THEN g \cup {<<from, step, ack.device>>} ELSE g

LEMMA AckWithOne ==
  ASSUME NEW s, NEW from, NEW step, NEW msg, NEW W, R(s) = <<Request(from, step, msg, W)>>, NEW ack,
         AckHandled(s, ack) # s
  PROVE  /\ ack.device \in W
         /\ LET X == W \ {ack.device}
                p == WithAnswer(s, X, AnswersTo(s.granted, from, step, ack))
                t == Called(p, Request(from, step, msg, W), ack.status, Cardinality(X))
            IN AckHandled(s, ack) = IF X = {} THEN WithRequests(t, RemoveAt(R(t), 1)) ELSE t
<1> DEFINE r == Request(from, step, msg, W)
           waits == {i \in DOMAIN s.can.requests :
                       s.can.requests[i].msg = ack.msg /\ ack.device \in s.can.requests[i].waiting}
<1>1. s.can.requests = <<r>> /\ r.msg = msg /\ r.waiting = W /\ r.from = from /\ r.step = step
  BY DEF R, Request
<1> HIDE DEF r
<1>2. waits \in SUBSET {1} /\ (1 \in waits => ack.device \in W)
  BY <1>1
<1>3. waits # {}
  <2> SUFFICES ASSUME waits = {} PROVE FALSE
    OBVIOUS
  <2>1. AckHandled(s, ack) = s
    BY DEF AckHandled
  <2> QED BY <2>1
<1>4. waits = {1} /\ ack.device \in W
  BY <1>2, <1>3
<1>5. Min(waits) = 1 /\ s.can.requests[Min(waits)] = r
  BY <1>1, <1>4, OneIsMin
<1> DEFINE X == W \ {ack.device}
           p == [s EXCEPT !.can.requests[1].waiting = X,
                          !.granted = IF ack.status = "OK" THEN @ \cup {<<r.from, r.step, ack.device>>} ELSE @]
           t == Called(p, r, ack.status, Cardinality(X))
<1>6. AckHandled(s, ack) = IF X = {} THEN [t EXCEPT !.can.requests = RemoveAt(@, 1)] ELSE t
  BY <1>1, <1>3, <1>5 DEF AckHandled
<1>7. p = WithAnswer(s, X, AnswersTo(s.granted, from, step, ack))
  BY <1>1 DEF WithAnswer, AnswersTo
<1>8. [t EXCEPT !.can.requests = RemoveAt(@, 1)] = WithRequests(t, RemoveAt(R(t), 1))
  BY DEF WithRequests, R
<1> QED BY <1>4, <1>6, <1>7, <1>8 DEF r

LEMMA CalledIs ==
  ASSUME NEW p, NEW step, NEW msg, NEW W, NEW status, NEW n
  PROVE  /\ Called(p, Request("off", step, msg, W), status, n) = OffAcked(p, status, n)
         /\ Called(p, Request("relay", step, msg, W), status, n) = RelayAcked(p, status, n)
         /\ \A q \in PowerOn : Called(p, Request(q, step, msg, W), status, n) = SequenceAcked(p, q, status, n)
<1>1. DOMAIN Steps = {"main", "aux"}
  BY DEF Steps
<1>2. \A from : Request(from, step, msg, W).from = from
  BY DEF Request
<1>3. \A q \in PowerOn : q \in DOMAIN Steps
  BY <1>1 DEF PowerOn
<1> QED BY <1>1, <1>2, <1>3 DEF Called

-----------------------------------------------------------------------------
(* The answers to the off sequence                                           *)

LEMMA RequestsDiffer ==
  ASSUME NEW W, NEW V, NEW q \in PowerOn, NEW k
  PROVE  /\ <<OffRequest(W)>> # <<>> /\ <<RelayRequest(W)>> # <<>> /\ <<StepRequest(q, k, W)>> # <<>>
         /\ <<OffRequest(W)>> # <<RelayRequest(V)>> /\ <<OffRequest(W)>> # <<StepRequest(q, k, V)>>
         /\ <<RelayRequest(W)>> # <<StepRequest(q, k, V)>>
         /\ <<OffRequest(W)>> = <<OffRequest(V)>> => W = V
<1>1. OffRequest(W).from = "off" /\ RelayRequest(V).from = "relay" /\ RelayRequest(W).from = "relay" /\ StepRequest(q, k, V).from = q
  BY DEF OffRequest, RelayRequest, StepRequest, Request
<1>2. q # "off" /\ q # "relay"
  BY DEF PowerOn
<1>3. OffRequest(W).waiting = W /\ OffRequest(V).waiting = V
  BY DEF OffRequest, Request
<1>4. \A a, b : <<a>> = <<b>> => a = b
  OBVIOUS
<1>5. \A a : <<a>> # <<>>
  OBVIOUS
<1> QED BY <1>1, <1>2, <1>3, <1>4, <1>5

\* The phases in which the boards are asked to turn off.
OffPending(Q, W, p, x, o, g) ==
  LET r == <<OffRequest(W)>>
  IN \/ Resting(r, p, x, o) /\ RestQueue(Q, r)
     \/ Faulting(r, p, x, o) /\ FaultQueue(Q, r, p)
     \/ TurningTo(TurningOff, p, x, o) /\ OffGranted(Distributions \ W, g) /\ Carries(Q, {})
     \/ TurningTo(TurningOff, p, x, o) /\ RefusedQueue(Q, r)
     \/ TurningTo(Faulted, p, x, o) /\ FailedQueue(Q)

LEMMA OffPendingIs ==
  ASSUME NEW Q, NEW W, NEW p, NEW x, NEW o, NEW g, Phase(Q, <<OffRequest(W)>>, p, x, o, g)
  PROVE  OffPending(Q, W, p, x, o, g)
<1> DEFINE r == <<OffRequest(W)>>
<1>1. r # <<>> /\ \A V : r # <<RelayRequest(V)>> /\ (r = <<OffRequest(V)>> => W = V)
  BY RequestsDiffer DEF PowerOn
<1>2. \A q \in PowerOn : \A k, V : r # <<StepRequest(q, k, V)>>
  BY RequestsDiffer
<1>3. r = <<OffRequest(W)>>
  OBVIOUS
<1> HIDE DEF r
<1>4. ~Beginning(r, p, x, o)
  BY <1>1 DEF Beginning
<1>5. ~OnPhase(Q, r, p, x, o, g)
  BY <1>1, <1>2 DEF OnPhase, Asking, Moving, Failing, Finished, Failed
<1>6. ASSUME Turning(r, g) PROVE OffGranted(Distributions \ W, g)
  BY <1>1, <1>6 DEF Turning
<1>7. OffPhase(Q, r, p, x, o, g) =>
        \/ TurningTo(TurningOff, p, x, o) /\ OffGranted(Distributions \ W, g) /\ Carries(Q, {})
        \/ TurningTo(TurningOff, p, x, o) /\ RefusedQueue(Q, r)
        \/ TurningTo(Faulted, p, x, o) /\ FailedQueue(Q)
  BY <1>1, <1>6 DEF OffPhase
<1>8. Phase(Q, r, p, x, o, g)
  BY <1>3
<1>9. \/ Resting(r, p, x, o) /\ RestQueue(Q, r)
      \/ Faulting(r, p, x, o) /\ FaultQueue(Q, r, p)
      \/ OffPhase(Q, r, p, x, o, g)
  BY <1>4, <1>5, <1>8 DEF Phase
<1> QED BY <1>3, <1>7, <1>9 DEF OffPending

\* Behind a request that is pending, nothing that may start a sequence is left.
LEMMA LiveFree ==
  ASSUME NEW P, NEW r, r # <<>>, NEW C, LiveAfter(P, r, C), NEW v
  PROVE  LiveAfter(P, v, C)
BY DEF LiveAfter

LEMMA StaleFacts ==
  /\ OffFault \in Events /\ TurnedOff \in Events /\ OffFault \in Stale /\ TurnedOff \in Stale /\ OffFault # TurnedOff
  /\ OffFault \notin Live /\ TurnedOff \notin Live /\ OffFault \notin Noise /\ TurnedOff \notin Noise
  /\ OffFault \in Control /\ TurnedOff \in Control
  /\ \A p : p.previous \in Int => Clear(p) \notin Stale
  /\ Faulty \notin Stale
<1>1. OffFault # TurnedOff
  BY DEF OffFault, TurnedOff, Event
<1>2. OffFault \in Stale /\ TurnedOff \in Stale
  BY DEF Stale
<1>3. \A p : p.previous \in Int => Clear(p) \notin Stale
  BY ClearFacts
<1>4. Faulty \notin Stale
  BY DEF Faulty, Stale, OffFault, TurnedOff, Event
<1> QED BY <1>1, <1>2, <1>3, <1>4, EventFacts DEF Live

\* An event that an off sequence leaves behind, when the request it is from is answered.
LEMMA StaleBehind ==
  ASSUME NEW Q \in Seq(Events), NEW W, NEW p, p.previous \in Int, NEW x, NEW o, NEW g,
         NEW e \in Stale, NEW v, OffOnly(v), NEW h,
         LET r == <<OffRequest(W)>>
         IN \/ Resting(r, p, x, o) /\ RestQueue(Q, r)
            \/ Faulting(r, p, x, o) /\ FaultQueue(Q, r, p)
            \/ TurningTo(Faulted, p, x, o) /\ FailedQueue(Q)
  PROVE  Phase(Append(Q, e), v, p, x, o, h)
<1> DEFINE r == <<OffRequest(W)>>
           P == Append(Q, e)
<1>1. r # <<>>
  BY RequestsDiffer DEF PowerOn
<1>2. e \in Events /\ e \notin Live /\ e \notin Noise
  BY StaleFacts DEF Stale
<1> HIDE DEF r
<1>3. CASE Resting(r, p, x, o) /\ RestQueue(Q, r)
  <2>1. AllIn(P, Noise \cup (PowerRequests \cup Stale))
    BY <1>2, <1>3, AddAllIn DEF RestQueue
  <2>2. LiveAfter(P, r, {})
    BY <1>1, <1>2, <1>3, AddLive DEF RestQueue
  <2>3. LiveAfter(P, v, {})
    BY <1>1, <2>2, LiveFree
  <2>4. Resting(v, p, x, o)
    BY <1>3 DEF Resting
  <2> QED BY <2>1, <2>3, <2>4 DEF Phase, RestQueue
<1>4. CASE Faulting(r, p, x, o) /\ FaultQueue(Q, r, p)
  <2>1. AllIn(P, Noise \cup (Stale \cup {Clear(p)}))
    BY <1>2, <1>4, AddAllIn DEF FaultQueue
  <2>2. e \notin {Clear(p)}
    BY StaleFacts
  <2>3. AtMostOne(P, {Clear(p)})
    BY <1>2, <1>4, <2>2, AddAtMostOne DEF FaultQueue
  <2>4. LiveAfter(P, r, {Clear(p)})
    BY <1>1, <1>2, <1>4, AddLive DEF FaultQueue
  <2>5. LiveAfter(P, v, {Clear(p)})
    BY <1>1, <2>4, LiveFree
  <2>6. Faulting(v, p, x, o)
    BY <1>4 DEF Faulting
  <2> QED BY <2>1, <2>3, <2>5, <2>6 DEF Phase, FaultQueue
<1>5. CASE TurningTo(Faulted, p, x, o) /\ FailedQueue(Q)
  <2>1. AllIn(P, Noise \cup (Stale \cup {Faulty}))
    BY <1>2, <1>5, AddAllIn DEF FailedQueue
  <2>2. e \notin {Faulty}
    BY StaleFacts
  <2>3. AtMostOne(P, {Faulty})
    BY <1>2, <1>5, <2>2, AddAtMostOne DEF FailedQueue
  <2> QED BY <1>5, <2>1, <2>3 DEF Phase, OffPhase, FailedQueue
<1> QED BY <1>3, <1>4, <1>5 DEF r

\* A board refuses, or none answers in time.
LEMMA OffRefused ==
  ASSUME NEW Q \in Seq(Events), NEW W, NEW p, p.previous \in Int, NEW x, NEW o, NEW g,
         Phase(Q, <<OffRequest(W)>>, p, x, o, g), NEW v, OffOnly(v)
  PROVE  Phase(Append(Q, OffFault), v, p, x, o, g)
<1> DEFINE r == <<OffRequest(W)>>
           P == Append(Q, OffFault)
<1>1. OffPending(Q, W, p, x, o, g)
  BY OffPendingIs
<1>2. OffFault \in Stale /\ OffFault \in Events /\ OffFault # TurnedOff /\ OffFault \notin Noise /\ TurnedOff \notin Noise
  BY StaleFacts
<1>3. CASE \/ Resting(r, p, x, o) /\ RestQueue(Q, r)
           \/ Faulting(r, p, x, o) /\ FaultQueue(Q, r, p)
           \/ TurningTo(Faulted, p, x, o) /\ FailedQueue(Q)
  BY <1>2, <1>3, StaleBehind
<1>4. CASE TurningTo(TurningOff, p, x, o) /\ (Carries(Q, {}) \/ RefusedQueue(Q, r))
  <2>1. r # <<>>
    BY RequestsDiffer DEF PowerOn
  <2>2. AllIn(Q, Noise \cup Stale) /\ NoneOf(Q, {TurnedOff})
    BY <1>2, <1>4, <2>1, CarriesNone DEF RefusedQueue, AllIn, NoneOf
  <2>3. AllIn(P, Noise \cup Stale)
    BY <1>2, <2>2, AddAllIn
  <2>4. NoneOf(P, {TurnedOff})
    BY <1>2, <2>2, AddNoneOf
  <2>5. InOrder(P, {OffFault}, {TurnedOff})
    BY <2>4 DEF InOrder, NoneOf
  <2>6. ~NoneOf(P, {OffFault})
    BY <1>2, AppendIs DEF NoneOf
  <2>7. RefusedQueue(P, v)
    BY <2>3, <2>4, <2>5, <2>6 DEF RefusedQueue
  <2> QED BY <1>4, <2>7 DEF Phase, OffPhase
<1> QED BY <1>1, <1>3, <1>4 DEF OffPending

\* The last board has turned off.
LEMMA OffConfirmed ==
  ASSUME NEW Q \in Seq(Events), NEW W, NEW d, W \ {d} = {}, NEW p, p.previous \in Int, NEW x, NEW o, NEW g,
         Phase(Q, <<OffRequest(W)>>, p, x, o, g)
  PROVE  Phase(Append(Q, TurnedOff), <<>>, p, x, o, g \cup {<<"off", TurningOff, d>>})
<1> DEFINE r == <<OffRequest(W)>>
           P == Append(Q, TurnedOff)
           h == g \cup {<<"off", TurningOff, d>>}
<1>1. OffPending(Q, W, p, x, o, g)
  BY OffPendingIs
<1>2. /\ TurnedOff \in Stale /\ TurnedOff \in Events /\ OffFault # TurnedOff /\ OffFault \notin Noise /\ TurnedOff \notin Noise
      /\ TurnedOff \in Control
  BY StaleFacts
<1>3. CASE \/ Resting(r, p, x, o) /\ RestQueue(Q, r)
           \/ Faulting(r, p, x, o) /\ FaultQueue(Q, r, p)
           \/ TurningTo(Faulted, p, x, o) /\ FailedQueue(Q)
  BY <1>2, <1>3, StaleBehind, OffOnlyNone
<1>4. CASE TurningTo(TurningOff, p, x, o) /\ OffGranted(Distributions \ W, g) /\ Carries(Q, {})
  <2>1. OffGranted(Distributions, h)
    BY <1>4 DEF OffGranted
  <2>2. Carries(P, {TurnedOff})
    BY <1>2, <1>4, CarriesNone, CarriesOne
  <2> HIDE DEF h, P
  <2>3. Phase(P, <<>>, p, x, o, h)
    BY <1>4, <2>1, <2>2 DEF Phase, OffPhase
  <2> QED BY <2>3 DEF h, P
<1>5. CASE TurningTo(TurningOff, p, x, o) /\ RefusedQueue(Q, r)
  <2>1. AllIn(P, Noise \cup Stale)
    BY <1>2, <1>5, AddAllIn DEF RefusedQueue
  <2>2. InOrder(P, {OffFault}, {TurnedOff})
    BY <1>2, <1>5, AddInOrder DEF RefusedQueue
  <2>3. ~NoneOf(P, {OffFault})
    <3>1. PICK i \in DOMAIN Q : Q[i] = OffFault
      BY <1>5 DEF RefusedQueue, NoneOf
    <3>2. i \in DOMAIN P /\ P[i] = OffFault
      BY <1>2, <3>1, AppendIs
    <3> QED BY <3>2 DEF NoneOf
  <2>4. RefusedQueue(P, <<>>)
    BY <2>1, <2>2, <2>3 DEF RefusedQueue
  <2> HIDE DEF h, P
  <2>5. Phase(P, <<>>, p, x, o, h)
    BY <1>5, <2>4, OffOnlyNone DEF Phase, OffPhase
  <2> QED BY <2>5 DEF h, P
<1> QED BY <1>1, <1>3, <1>4, <1>5 DEF OffPending

\* One board has turned off, the other one has not answered yet.
LEMMA OffAwaits ==
  ASSUME NEW Q \in Seq(Events), NEW W \in SUBSET Distributions, NEW d, NEW p, NEW x, NEW o, NEW g,
         Phase(Q, <<OffRequest(W)>>, p, x, o, g)
  PROVE  Phase(Q, <<OffRequest(W \ {d})>>, p, x, o, g \cup {<<"off", TurningOff, d>>})
<1> DEFINE r == <<OffRequest(W)>>
           v == <<OffRequest(W \ {d})>>
           h == g \cup {<<"off", TurningOff, d>>}
<1>1. OffPending(Q, W, p, x, o, g)
  BY OffPendingIs
<1>2. r # <<>> /\ v # <<>>
  BY RequestsDiffer DEF PowerOn
<1>3. W \ {d} \in SUBSET Distributions /\ v = <<OffRequest(W \ {d})>>
  OBVIOUS
<1>4. OffOnly(v)
  BY <1>3 DEF OffOnly
<1>5. OffGranted(Distributions \ W, g) => OffGranted(Distributions \ (W \ {d}), h)
  BY DEF OffGranted
<1>6. r = <<OffRequest(W)>>
  OBVIOUS
<1> HIDE DEF r, v, h
<1> SUFFICES Phase(Q, v, p, x, o, h)
  BY DEF v, h
<1>7. CASE Resting(r, p, x, o) /\ RestQueue(Q, r)
  <2>1. Resting(v, p, x, o) /\ RestQueue(Q, v)
    BY <1>2, <1>4, <1>7, LiveFree DEF Resting, RestQueue
  <2> QED BY <2>1 DEF Phase
<1>8. CASE Faulting(r, p, x, o) /\ FaultQueue(Q, r, p)
  <2>1. Faulting(v, p, x, o) /\ FaultQueue(Q, v, p)
    BY <1>2, <1>4, <1>8, LiveFree DEF Faulting, FaultQueue
  <2> QED BY <2>1 DEF Phase
<1>9. CASE TurningTo(TurningOff, p, x, o) /\ OffGranted(Distributions \ W, g) /\ Carries(Q, {})
  <2>1. Turning(v, h)
    BY <1>3, <1>5, <1>9 DEF Turning
  <2> QED BY <1>9, <2>1 DEF Phase, OffPhase
<1>10. CASE TurningTo(TurningOff, p, x, o) /\ RefusedQueue(Q, r)
  <2>1. RefusedQueue(Q, v)
    BY <1>2, <1>10 DEF RefusedQueue
  <2> QED BY <1>4, <1>10, <2>1 DEF Phase, OffPhase
<1>11. CASE TurningTo(Faulted, p, x, o) /\ FailedQueue(Q)
  BY <1>4, <1>11 DEF Phase, OffPhase
<1> QED BY <1>1, <1>6, <1>7, <1>8, <1>9, <1>10, <1>11 DEF OffPending

\* A state in the same place as s but for the queue, the requests and the answers.
Alike(s, v) ==
  /\ IsState(v) /\ v.power = s.power /\ v.seq = s.seq /\ v.off = s.off
  /\ v.locked = s.locked /\ v.queue.highest = s.queue.highest

LEMMA AlikeLeads ==
  ASSUME NEW s, NEW v, Alike(s, v), Phase(N(v), R(v), s.power, s.seq, s.off, v.granted)
  PROVE  Leads(s, v)
BY DEF Alike, Leads, InPhase

LEMMA AppendToOne ==
  ASSUME NEW a, NEW b
  PROVE  Append(<<a>>, b) = <<a, b>> /\ Tail(Append(<<a>>, b)) = <<b>>
<1>1. Append(<<a>>, b) = <<a, b>>
  <2> DEFINE x == Append(<<a>>, b)
  <2>1. <<a>> \in Seq({a, b}) /\ Len(<<a>>) = 1 /\ <<a>>[1] = a
    OBVIOUS
  <2>2. x \in Seq({a, b}) /\ Len(x) = 2 /\ x[1] = a /\ x[2] = b
    BY <2>1
  <2> HIDE DEF x
  <2>3. x = <<a, b>>
    BY <2>2
  <2> QED BY <2>3 DEF x
<1>2. Tail(<<a, b>>) = <<b>>
  OBVIOUS
<1> QED BY <1>1, <1>2

LEMMA OffCalled ==
  ASSUME NEW p, IsState(p), NEW status, NEW n
  PROVE  /\ status # "OK" => Pushed(p, OffAcked(p, status, n), OffFault)
         /\ status = "OK" /\ n = 0 => Pushed(p, OffAcked(p, status, n), TurnedOff)
         /\ status = "OK" /\ n # 0 => OffAcked(p, status, n) = p
<1>1. Pushed(p, Raised(p, "off", "FAULT", 0), OffFault)
  BY RaisedIs DEF OffFault, Ofs, Ids
<1>2. Pushed(p, Raised(p, "off", "TURNED_OFF", 0), TurnedOff)
  BY RaisedIs DEF TurnedOff, Ofs, Ids
<1>3. ASSUME status # "OK" PROVE OffAcked(p, status, n) = Raised(p, "off", "FAULT", 0)
  BY <1>3 DEF OffAcked
<1>4. ASSUME status = "OK", n = 0 PROVE OffAcked(p, status, n) = Raised(p, "off", "TURNED_OFF", 0)
  BY <1>4 DEF OffAcked
<1>5. ASSUME status = "OK", n # 0 PROVE OffAcked(p, status, n) = p
  BY <1>5 DEF OffAcked
<1> QED BY <1>1, <1>2, <1>3, <1>4, <1>5

LEMMA StateQueue ==
  ASSUME NEW s, IsState(s)
  PROVE  N(s) \in Seq(Events) /\ s.power.previous \in Int
BY PowerTyped DEF IsState, Typed, N

LEMMA AckOff ==
  ASSUME NEW s, IsState(s), InPhase(s), NEW W \in SUBSET Distributions, R(s) = <<OffRequest(W)>>, NEW ack,
         AckHandled(s, ack) # s
  PROVE  Leads(s, AckHandled(s, ack))
<1> DEFINE d == ack.device
           X == W \ {d}
           h == AnswersTo(s.granted, "off", TurningOff, ack)
           p == WithAnswer(s, X, h)
           t == OffAcked(p, ack.status, Cardinality(X))
           v == IF X = {} THEN WithRequests(t, RemoveAt(R(t), 1)) ELSE t
<1>1. R(s) = <<Request("off", TurningOff, "OFF_SEQUENCE", W)>>
  BY DEF OffRequest
<1>2. AckHandled(s, ack) = v
  BY <1>1, AckWithOne, CalledIs
<1>3. SameButRequests(s, p) /\ R(p) = <<OffRequest(X)>> /\ p.granted = h
  BY <1>1, AnswerIs DEF OffRequest
<1>4. IsState(p) /\ N(p) = N(s) /\ Alike(s, p)
  BY <1>3 DEF SameButRequests, Alike, N
<1>5. X \in SUBSET Distributions /\ (Cardinality(X) = 0 <=> X = {})
  BY BoardSets DEF Boards, Distributions
<1>6. Phase(N(s), <<OffRequest(W)>>, s.power, s.seq, s.off, s.granted) /\ N(s) \in Seq(Events) /\ s.power.previous \in Int
  BY StateQueue DEF InPhase
<1>7. /\ ack.status # "OK" => h = s.granted
      /\ ack.status = "OK" => h = s.granted \cup {<<"off", TurningOff, d>>}
  BY DEF AnswersTo
<1>8. X = W \ {d} /\ v = IF X = {} THEN WithRequests(t, RemoveAt(R(t), 1)) ELSE t
  OBVIOUS
<1>9. t = OffAcked(p, ack.status, Cardinality(X))
  OBVIOUS
<1> HIDE DEF X, h, p, t, v
<1> SUFFICES Leads(s, v)
  BY <1>2
<1>10. ASSUME NEW e, Pushed(p, t, e)
       PROVE  /\ Alike(s, v) /\ N(v) = Append(N(s), e) /\ v.granted = h
              /\ R(v) = IF X = {} THEN <<>> ELSE <<OffRequest(X)>>
  <2>1. IsState(t) /\ Alike(s, t) /\ N(t) = Append(N(s), e) /\ R(t) = <<OffRequest(X)>> /\ t.granted = h
    BY <1>3, <1>4, <1>10 DEF Pushed, SameRest, Alike
  <2>2. CASE X = {}
    <3>1. v = WithRequests(t, <<>>)
      BY <1>8, <2>1, <2>2, RemovedFirst
    <3>2. SameButRequests(t, v) /\ R(v) = <<>> /\ v.granted = t.granted
      BY <2>1, <3>1, RequestsIs
    <3> QED BY <2>1, <2>2, <3>2 DEF SameButRequests, Alike, N
  <2>3. CASE X # {}
    BY <1>8, <2>1, <2>3
  <2> QED BY <2>2, <2>3
<1>11. CASE ack.status # "OK"
  <2>1. Pushed(p, t, OffFault)
    BY <1>4, <1>9, <1>11, OffCalled
  <2>2. Alike(s, v) /\ N(v) = Append(N(s), OffFault) /\ v.granted = s.granted /\ R(v) = IF X = {} THEN <<>> ELSE <<OffRequest(X)>>
    BY <1>7, <1>10, <1>11, <2>1
  <2>3. OffOnly(R(v))
    BY <1>5, <2>2 DEF OffOnly
  <2>4. Phase(Append(N(s), OffFault), R(v), s.power, s.seq, s.off, s.granted)
    BY <1>6, <2>3, OffRefused
  <2> QED BY <2>2, <2>4, AlikeLeads
<1>12. CASE ack.status = "OK" /\ X = {}
  <2>1. Pushed(p, t, TurnedOff)
    BY <1>4, <1>5, <1>9, <1>12, OffCalled
  <2>2. /\ Alike(s, v) /\ N(v) = Append(N(s), TurnedOff) /\ v.granted = s.granted \cup {<<"off", TurningOff, d>>}
        /\ R(v) = <<>>
    BY <1>7, <1>10, <1>12, <2>1
  <2>3. Phase(Append(N(s), TurnedOff), <<>>, s.power, s.seq, s.off, s.granted \cup {<<"off", TurningOff, d>>})
    BY <1>6, <1>8, <1>12, OffConfirmed
  <2> QED BY <2>2, <2>3, AlikeLeads
<1>13. CASE ack.status = "OK" /\ X # {}
  <2>1. v = p
    BY <1>4, <1>5, <1>8, <1>9, <1>13, OffCalled
  <2>2. /\ Alike(s, v) /\ N(v) = N(s) /\ v.granted = s.granted \cup {<<"off", TurningOff, d>>} /\ R(v) = <<OffRequest(W \ {d})>>
    BY <1>3, <1>4, <1>7, <1>8, <1>13, <2>1
  <2>3. Phase(N(s), <<OffRequest(W \ {d})>>, s.power, s.seq, s.off, s.granted \cup {<<"off", TurningOff, d>>})
    BY <1>6, OffAwaits
  <2> QED BY <2>2, <2>3, AlikeLeads
<1> QED BY <1>11, <1>12, <1>13

LEMMA TimeoutOff ==
  ASSUME NEW s, IsState(s), InPhase(s), NEW W \in SUBSET Distributions, R(s) = <<OffRequest(W)>>, NEW n, NEW y
  PROVE  LET t == Called(s, OffRequest(W), "TIMEOUT", n)
         IN Leads(s, WithRequestsOwed(t, Tail(R(t)), y))
<1> DEFINE t == OffAcked(s, "TIMEOUT", n)
           v == WithRequestsOwed(t, Tail(R(t)), y)
<1>1. Called(s, OffRequest(W), "TIMEOUT", n) = t
  BY CalledIs DEF OffRequest
<1>2. Pushed(s, t, OffFault)
  BY OffCalled
<1>3. v = WithRequestsOwed(t, Tail(R(t)), y)
  OBVIOUS
<1> HIDE DEF t, v
<1>4. IsState(t) /\ Alike(s, t) /\ N(t) = Append(N(s), OffFault) /\ R(t) = <<OffRequest(W)>> /\ t.granted = s.granted
  BY <1>2 DEF Pushed, SameRest, Alike
<1>5. v = WithRequestsOwed(t, <<>>, y)
  BY <1>3, <1>4
<1>6. SameButRequests(t, v) /\ R(v) = <<>> /\ v.granted = t.granted
  BY <1>4, <1>5, RequestsOwedIs
<1>7. Alike(s, v) /\ N(v) = Append(N(s), OffFault) /\ v.granted = s.granted
  BY <1>4, <1>6 DEF SameButRequests, Alike, N
<1>8. Phase(N(s), <<OffRequest(W)>>, s.power, s.seq, s.off, s.granted) /\ N(s) \in Seq(Events) /\ s.power.previous \in Int
  BY StateQueue DEF InPhase
<1>9. Phase(Append(N(s), OffFault), <<>>, s.power, s.seq, s.off, s.granted)
  BY <1>8, OffOnlyNone, OffRefused
<1>10. Leads(s, v)
  BY <1>6, <1>7, <1>9, AlikeLeads
<1> QED BY <1>1, <1>3, <1>10

-----------------------------------------------------------------------------
(* The answer to the request to open the battery relays                      *)

\* The relays' request is pending.
RelayPending(Q, p, x, o, g) == TurningTo(OpeningRelays, p, x, o) /\ OffGranted(Distributions, g) /\ AllIn(Q, Noise)

LEMMA RelayPendingIs ==
  ASSUME NEW Q, NEW W, NEW p, NEW x, NEW o, NEW g, Phase(Q, <<RelayRequest(W)>>, p, x, o, g)
  PROVE  RelayPending(Q, p, x, o, g)
<1> DEFINE r == <<RelayRequest(W)>>
<1>1. r # <<>> /\ \A V : r # <<OffRequest(V)>>
  BY RequestsDiffer DEF PowerOn
<1>2. \A q \in PowerOn : \A k, V : r # <<StepRequest(q, k, V)>>
  BY RequestsDiffer
<1>3. r = <<RelayRequest(W)>>
  OBVIOUS
<1> HIDE DEF r
<1>4. ~Beginning(r, p, x, o)
  BY <1>1 DEF Beginning
<1>5. ~OnPhase(Q, r, p, x, o, g)
  BY <1>1, <1>2 DEF OnPhase, Asking, Moving, Failing, Finished, Failed
<1>6. ~OffOnly(r) /\ ~Turning(r, g)
  BY <1>1 DEF OffOnly, Turning
<1>7. OffPhase(Q, r, p, x, o, g)
  BY <1>3, <1>4, <1>5, <1>6 DEF Phase, Resting, Faulting
<1>8. TurningTo(OpeningRelays, p, x, o) /\ OffGranted(Distributions, g) /\ Carries(Q, {})
  BY <1>1, <1>6, <1>7 DEF OffPhase
<1> QED BY <1>8, CarriesNone DEF RelayPending

\* A state in the same place as s but for the queue, the requests, the answers and the retries.
AlikeButRetries(s, v) ==
  /\ IsState(v) /\ v.power = s.power /\ v.seq = s.seq /\ v.off.fsm = s.off.fsm
  /\ v.locked = s.locked /\ v.queue.highest = s.queue.highest

RelayResult(p, t, status, n) ==
  /\ AlikeButRetries(p, t) /\ t.granted = p.granted
  /\ \/ status = "OK" /\ n = 0 /\ N(t) = Append(N(p), RelaysOpened) /\ R(t) = R(p)
     \/ N(t) = Append(N(p), OffFault) /\ R(t) = R(p)
     \/ N(t) = Append(N(p), TxEvent) /\ R(t) = Append(R(p), RelayRequest({"bms"}))

LEMMA RelayCalled ==
  ASSUME NEW p, IsState(p), NEW status, NEW n
  PROVE  RelayResult(p, RelayAcked(p, status, n), status, n)
<1> DEFINE count == p.off.retries + 1
           failed == n # 0 \/ status # "OK"
           t == RelayAcked(p, status, n)
           u == WithRetries(p, 0)
           w == WithRetries(p, count)
<1>1. count \in Nat /\ Retries \in Nat /\ 0 \in 0 .. Retries - 1
  BY ConsoleAssumption DEF IsState, Typed
<1>2. t = CASE failed /\ count >= Retries -> Raised(u, "off", "FAULT", 0)
            [] failed /\ count < Retries -> RelayRequested(w)
            [] OTHER -> Raised(u, "off", "RELAYS_OPENED", 0)
  BY DEF RelayAcked, WithRetries
<1>3. SameButOff(p, u) /\ u.off.fsm = p.off.fsm
  BY <1>1, RetriesIs
<1>4. count < Retries => SameButOff(p, w) /\ w.off.fsm = p.off.fsm
  BY <1>1, RetriesIs
<1>5. count >= Retries <=> ~(count < Retries)
  BY <1>1
<1> HIDE DEF t, u, w, count
<1>6. IsState(u) /\ (count < Retries => IsState(w))
  BY <1>3, <1>4 DEF SameButOff
<1>7. Pushed(u, Raised(u, "off", "FAULT", 0), OffFault)
  BY <1>6, RaisedIs DEF OffFault, Ofs, Ids
<1>8. Pushed(u, Raised(u, "off", "RELAYS_OPENED", 0), RelaysOpened)
  BY <1>6, RaisedIs DEF RelaysOpened, Ofs, Ids
<1>9. count < Retries => Sent(w, RelayRequested(w), RelayRequest({"bms"}))
  BY <1>6, RequestedIs DEF RelayRequested, RelayRequest
<1> SUFFICES RelayResult(p, t, status, n)
  BY DEF t
<1>10. CASE failed /\ count >= Retries
  <2>1. t = Raised(u, "off", "FAULT", 0)
    BY <1>2, <1>5, <1>10, Zenon
  <2>2. Pushed(u, t, OffFault)
    BY <1>7, <2>1
  <2>3. AlikeButRetries(p, t) /\ t.granted = p.granted /\ N(t) = Append(N(p), OffFault) /\ R(t) = R(p)
    BY <1>3, <2>2 DEF Pushed, SameRest, SameButOff, AlikeButRetries, N, R
  <2> QED BY <2>3 DEF RelayResult
<1>11. CASE failed /\ ~(count >= Retries)
  <2>1. Sent(w, t, RelayRequest({"bms"}))
    BY <1>2, <1>5, <1>9, <1>11
  <2>2. /\ AlikeButRetries(p, t) /\ t.granted = p.granted /\ N(t) = Append(N(p), TxEvent)
        /\ R(t) = Append(R(p), RelayRequest({"bms"}))
    BY <1>4, <1>5, <1>11, <2>1 DEF Sent, SameRest, SameButOff, AlikeButRetries, N, R
  <2> QED BY <2>2 DEF RelayResult
<1>12. CASE ~failed
  <2>1. Pushed(u, t, RelaysOpened) /\ status = "OK" /\ n = 0
    BY <1>2, <1>8, <1>12
  <2>2. AlikeButRetries(p, t) /\ t.granted = p.granted /\ N(t) = Append(N(p), RelaysOpened) /\ R(t) = R(p)
    BY <1>3, <2>1 DEF Pushed, SameRest, SameButOff, AlikeButRetries, N, R
  <2> QED BY <2>1, <2>2 DEF RelayResult
<1> QED BY <1>10, <1>11, <1>12

\* What an answer, or none, to the relays' request leads to.
LEMMA RelayAnswered ==
  ASSUME NEW s, IsState(s), RelayPending(N(s), s.power, s.seq, s.off, s.granted), NEW v, AlikeButRetries(s, v),
         \/ N(v) = Append(N(s), RelaysOpened) /\ R(v) = <<>> /\ v.granted = s.granted \cup {<<"relay", OpeningRelays, "bms">>}
         \/ N(v) = Append(N(s), OffFault) /\ R(v) = <<>> /\ s.granted \subseteq v.granted
         \/ N(v) = Append(N(s), TxEvent) /\ R(v) = <<RelayRequest({"bms"})>> /\ s.granted \subseteq v.granted
  PROVE  Leads(s, v)
<1>1. TurningTo(OpeningRelays, v.power, v.seq, v.off) /\ s.granted \subseteq v.granted
  BY DEF RelayPending, TurningTo, AlikeButRetries
<1>2. OffGranted(Distributions, v.granted)
  BY <1>1 DEF RelayPending, OffGranted
<1>3. N(s) \in Seq(Events) /\ AllIn(N(s), Noise)
  BY StateQueue DEF RelayPending
<1>4. RelaysOpened \in Control /\ OffFault \in Control
  BY TokenFacts, StaleFacts
<1>5. CASE N(v) = Append(N(s), RelaysOpened) /\ R(v) = <<>> /\ v.granted = s.granted \cup {<<"relay", OpeningRelays, "bms">>}
  <2>1. Carries(N(v), {RelaysOpened}) /\ RelayGranted(v.granted)
    BY <1>3, <1>4, <1>5, CarriesOne DEF RelayGranted
  <2>2. InPhase(v)
    BY <1>1, <1>2, <1>5, <2>1 DEF InPhase, Phase, OffPhase
  <2> QED BY <2>2 DEF Leads, AlikeButRetries
<1>6. CASE N(v) = Append(N(s), OffFault) /\ R(v) = <<>>
  <2>1. Carries(N(v), {OffFault})
    BY <1>3, <1>4, <1>6, CarriesOne
  <2>2. InPhase(v)
    BY <1>1, <1>2, <1>6, <2>1 DEF InPhase, Phase, OffPhase
  <2> QED BY <2>2 DEF Leads, AlikeButRetries
<1>7. CASE N(v) = Append(N(s), TxEvent) /\ R(v) = <<RelayRequest({"bms"})>>
  <2>1. Carries(N(v), {})
    BY <1>3, <1>7, NoiseBehind, CarriesNone
  <2>2. InPhase(v)
    BY <1>1, <1>2, <1>7, <2>1 DEF InPhase, Phase, OffPhase
  <2> QED BY <2>2 DEF Leads, AlikeButRetries
<1> QED BY <1>5, <1>6, <1>7

LEMMA AckRelay ==
  ASSUME NEW s, IsState(s), InPhase(s), R(s) = <<RelayRequest({"bms"})>>, NEW ack, AckHandled(s, ack) # s
  PROVE  Leads(s, AckHandled(s, ack))
<1> DEFINE h == AnswersTo(s.granted, "relay", OpeningRelays, ack)
           p == WithAnswer(s, {}, h)
           t == RelayAcked(p, ack.status, Cardinality({}))
           v == WithRequests(t, RemoveAt(R(t), 1))
<1>1. R(s) = <<Request("relay", OpeningRelays, "RELAY_STATES", {"bms"})>>
  BY DEF RelayRequest
<1>2. ack.device = "bms" /\ {"bms"} \ {ack.device} = {}
  BY <1>1, AckWithOne
<1>3. AckHandled(s, ack) = v
  BY <1>1, <1>2, AckWithOne, CalledIs
<1>4. SameButRequests(s, p) /\ R(p) = <<RelayRequest({})>> /\ p.granted = h
  BY <1>1, AnswerIs DEF RelayRequest
<1>5. IsState(p) /\ N(p) = N(s) /\ Alike(s, p)
  BY <1>4 DEF SameButRequests, Alike, N
<1>6. RelayResult(p, t, ack.status, Cardinality({}))
  BY <1>5, RelayCalled
<1>7. v = WithRequests(t, RemoveAt(R(t), 1))
  OBVIOUS
<1>8. /\ s.granted \subseteq h
      /\ ack.status = "OK" => h = s.granted \cup {<<"relay", OpeningRelays, "bms">>}
  BY <1>2 DEF AnswersTo
<1> HIDE DEF h, p, t, v
<1> SUFFICES Leads(s, v)
  BY <1>3
<1>9. IsState(t) /\ AlikeButRetries(s, t) /\ t.granted = h
  BY <1>4, <1>5, <1>6 DEF RelayResult, AlikeButRetries, Alike
<1>10. SameButRequests(t, v) /\ R(v) = RemoveAt(R(t), 1) /\ v.granted = t.granted
  BY <1>7, <1>9, RequestsIs
<1>11. AlikeButRetries(s, v) /\ N(v) = N(t) /\ v.granted = h
  BY <1>9, <1>10 DEF SameButRequests, AlikeButRetries, N
<1>12. RelayPending(N(s), s.power, s.seq, s.off, s.granted)
  BY RelayPendingIs DEF InPhase
<1>13. CASE ack.status = "OK" /\ N(t) = Append(N(p), RelaysOpened) /\ R(t) = R(p)
  <2>1. N(v) = Append(N(s), RelaysOpened) /\ R(v) = <<>> /\ v.granted = s.granted \cup {<<"relay", OpeningRelays, "bms">>}
    BY <1>4, <1>5, <1>8, <1>10, <1>11, <1>13, RemovedFirst
  <2> QED BY <1>11, <1>12, <2>1, RelayAnswered
<1>14. CASE N(t) = Append(N(p), OffFault) /\ R(t) = R(p)
  <2>1. N(v) = Append(N(s), OffFault) /\ R(v) = <<>> /\ s.granted \subseteq v.granted
    BY <1>4, <1>5, <1>8, <1>10, <1>11, <1>14, RemovedFirst
  <2> QED BY <1>11, <1>12, <2>1, RelayAnswered
<1>15. CASE N(t) = Append(N(p), TxEvent) /\ R(t) = Append(R(p), RelayRequest({"bms"}))
  <2>1. R(t) = <<RelayRequest({}), RelayRequest({"bms"})>>
    <3>2. R(t) = Append(<<RelayRequest({})>>, RelayRequest({"bms"}))
      BY <1>4, <1>15
    <3> QED BY <3>2, AppendToOne
  <2>2. N(v) = Append(N(s), TxEvent) /\ R(v) = <<RelayRequest({"bms"})>> /\ s.granted \subseteq v.granted
    BY <1>5, <1>8, <1>10, <1>11, <1>15, <2>1, RemovedFirst
  <2> QED BY <1>11, <1>12, <2>2, RelayAnswered
<1> QED BY <1>6, <1>13, <1>14, <1>15 DEF RelayResult

LEMMA TimeoutRelay ==
  ASSUME NEW s, IsState(s), InPhase(s), R(s) = <<RelayRequest({"bms"})>>, NEW n, NEW y
  PROVE  LET t == Called(s, RelayRequest({"bms"}), "TIMEOUT", n)
         IN Leads(s, WithRequestsOwed(t, Tail(R(t)), y))
<1> DEFINE t == RelayAcked(s, "TIMEOUT", n)
           v == WithRequestsOwed(t, Tail(R(t)), y)
<1>1. Called(s, RelayRequest({"bms"}), "TIMEOUT", n) = t
  BY CalledIs DEF RelayRequest
<1>2. RelayResult(s, t, "TIMEOUT", n)
  BY RelayCalled
<1>3. v = WithRequestsOwed(t, Tail(R(t)), y)
  OBVIOUS
<1> HIDE DEF t, v
<1>4. IsState(t) /\ AlikeButRetries(s, t) /\ t.granted = s.granted
  BY <1>2 DEF RelayResult, AlikeButRetries
<1>5. SameButRequests(t, v) /\ R(v) = Tail(R(t)) /\ v.granted = t.granted
  BY <1>3, <1>4, RequestsOwedIs
<1>6. AlikeButRetries(s, v) /\ N(v) = N(t) /\ v.granted = s.granted
  BY <1>4, <1>5 DEF SameButRequests, AlikeButRetries, N
<1>7. RelayPending(N(s), s.power, s.seq, s.off, s.granted)
  BY RelayPendingIs DEF InPhase
<1>8. CASE N(t) = Append(N(s), OffFault) /\ R(t) = R(s)
  <2>1. Tail(<<RelayRequest({"bms"})>>) = <<>>
    OBVIOUS
  <2>2. N(v) = Append(N(s), OffFault) /\ R(v) = <<>> /\ s.granted \subseteq v.granted
    BY <1>5, <1>6, <1>8, <2>1
  <2>3. Leads(s, v)
    BY <1>6, <1>7, <2>2, RelayAnswered
  <2> QED BY <1>1, <1>3, <2>3
<1>9. CASE N(t) = Append(N(s), TxEvent) /\ R(t) = Append(R(s), RelayRequest({"bms"}))
  <2>2. R(v) = <<RelayRequest({"bms"})>>
    BY <1>5, <1>9, AppendToOne
  <2>3. N(v) = Append(N(s), TxEvent) /\ R(v) = <<RelayRequest({"bms"})>> /\ s.granted \subseteq v.granted
    BY <1>6, <1>9, <2>2
  <2>4. Leads(s, v)
    BY <1>6, <1>7, <2>3, RelayAnswered
  <2> QED BY <1>1, <1>3, <2>4
<1> QED BY <1>2, <1>8, <1>9 DEF RelayResult

-----------------------------------------------------------------------------
(* The answers to a step of a power-on sequence                              *)

\* The step's request is pending.
StepPending(Q, q, k, W, p, x, o, g) ==
  /\ Transits(p) /\ Alone(q, x, o) /\ x[q].fsm = k /\ x[q].step = k /\ x[q].acks[k] = Cardinality(W)
  /\ Granted(q, k - 1, g) /\ Fresh(q, k + 1, x) /\ AllIn(Q, Noise)

LEMMA RequestsInPhase ==
  ASSUME NEW Q, NEW r, NEW p, NEW x, NEW o, NEW g, Phase(Q, r, p, x, o, g)
  PROVE  \/ r = <<>>
         \/ \E W \in SUBSET Distributions : r = <<OffRequest(W)>>
         \/ r = <<RelayRequest({"bms"})>>
         \/ \E q \in PowerOn : \E k \in 1 .. Final(q) : \E W \in SUBSET Steps[q][k].devices :
              W # {} /\ r = <<StepRequest(q, k, W)>> /\ StepPending(Q, q, k, W, p, x, o, g)
<1>1. CASE Resting(r, p, x, o) \/ Faulting(r, p, x, o) \/ Beginning(r, p, x, o)
  BY <1>1 DEF Resting, Faulting, Beginning, OffOnly
<1>2. CASE OnPhase(Q, r, p, x, o, g)
  <2>1. PICK q \in PowerOn :
          \/ \E k \in 1 .. Final(q) : Asking(q, k, r, p, x, o, g) /\ Carries(Q, {})
          \/ r = <<>>
    BY <1>2 DEF OnPhase, Moving, Failing, Finished, Failed
  <2>2. ASSUME NEW k \in 1 .. Final(q), Asking(q, k, r, p, x, o, g), Carries(Q, {}), r # <<>>
        PROVE  \E W \in SUBSET Steps[q][k].devices :
                 W # {} /\ r = <<StepRequest(q, k, W)>> /\ StepPending(Q, q, k, W, p, x, o, g)
    BY <2>2, CarriesNone DEF Asking, StepPending
  <2> QED BY <2>1, <2>2
<1>3. CASE OffPhase(Q, r, p, x, o, g)
  BY <1>3 DEF OffPhase, Turning, OffOnly
<1> QED BY <1>1, <1>2, <1>3 DEF Phase

LEMMA WaitFacts ==
  ASSUME NEW q \in PowerOn, NEW k \in 1 .. Final(q), NEW W \in SUBSET Steps[q][k].devices, W # {}
  PROVE  /\ W \in SUBSET Boards
         /\ Cardinality(W) = 1 \/ Cardinality(W) = 2
         /\ Cardinality(W) = 1 => \E d : W = {d}
         /\ Cardinality(W) = 2 => \A d \in W : Cardinality(W \ {d}) = 1 /\ W \ {d} # {}
         /\ k < Final(q) => W = Steps[q][k].devices
<1>1. Final(q) \in Nat /\ k \in Int /\ k =< Final(q)
  BY StepFacts
<1>2. CASE k < Final(q)
  <2>1. PICK d \in Boards : Steps[q][k].devices = {d}
    BY <1>2, StepFacts
  <2>2. W = {d}
    BY <2>1
  <2>3. Cardinality(W) = 1
    BY <2>2, CountFacts
  <2> QED BY <2>1, <2>2, <2>3
<1>3. CASE k = Final(q)
  <2>1. W \in SUBSET {"rear", "front"}
    BY <1>3, StepFacts
  <2>2. W = {"rear"} \/ W = {"front"} \/ W = {"rear", "front"}
    BY <2>1
  <2>3. ASSUME NEW d, W = {d} PROVE Cardinality(W) = 1
    BY <2>3, CountFacts
  <2>4. ASSUME W = {"rear", "front"}
        PROVE  Cardinality(W) = 2 /\ Cardinality(W) # 1 /\ \A d \in W : Cardinality(W \ {d}) = 1 /\ W \ {d} # {}
    <3>1. Cardinality(W) = 2
      BY <2>4, CountFacts
    <3>2. ASSUME NEW d \in W PROVE Cardinality(W \ {d}) = 1 /\ W \ {d} # {}
      <4>1. W \ {d} = {"rear"} \/ W \ {d} = {"front"}
        BY <2>4
      <4>2. \A e : {e} # {}
        OBVIOUS
      <4> QED BY <4>1, <4>2, CountFacts
    <3> QED BY <3>1, <3>2
  <2>5. ~(k < Final(q)) /\ W \in SUBSET Boards
    BY <1>1, <1>3, <2>1 DEF Boards
  <2>6. ASSUME NEW d, W = {d}
        PROVE  Cardinality(W) = 1 /\ Cardinality(W) # 2 /\ \E e : W = {e}
    BY <2>3, <2>6
  <2>7. CASE W = {"rear"} \/ W = {"front"}
    BY <2>5, <2>6, <2>7
  <2>8. CASE W = {"rear", "front"}
    BY <2>4, <2>5, <2>8
  <2> QED BY <2>2, <2>7, <2>8
<1> QED BY <1>1, <1>2, <1>3

\* One answer less: none is left of one, one of two.
LEMMA WaitShrinks ==
  ASSUME NEW q \in PowerOn, NEW k \in 1 .. Final(q), NEW W \in SUBSET Steps[q][k].devices, NEW d \in W
  PROVE  /\ Cardinality(W) = 1 \/ Cardinality(W) = 2
         /\ Cardinality(W) = 1 => W \ {d} = {}
         /\ Cardinality(W) = 2 => Cardinality(W \ {d}) = 1 /\ W \ {d} # {}
<1>1. W # {}
  OBVIOUS
<1>2. Cardinality(W) = 1 \/ Cardinality(W) = 2
  BY <1>1, WaitFacts
<1>3. Cardinality(W) = 1 => \E e : W = {e}
  BY <1>1, WaitFacts
<1>4. Cardinality(W) = 2 => \A e \in W : Cardinality(W \ {e}) = 1 /\ W \ {e} # {}
  BY <1>1, WaitFacts
<1> QED BY <1>2, <1>3, <1>4

\* What the callback of the step makes of a state.
StepResult(p, t, q, k, status, n) ==
  /\ IsState(t) /\ t.queue.highest = p.queue.highest /\ t.power = p.power /\ t.off = p.off /\ t.locked = p.locked
  /\ t.granted = p.granted /\ R(t) = R(p) /\ (\A b \in PowerOn : b # q => t.seq[b] = p.seq[b])
  /\ t.seq[q].fsm = p.seq[q].fsm /\ (\A j \in DOMAIN Steps[q] : j # k => t.seq[q].acks[j] = p.seq[q].acks[j])
  /\ \/ p.seq[q].acks[k] = 2 /\ N(t) = N(p) /\ t.seq[q].step = k /\ t.seq[q].acks[k] = 1
     \/ /\ p.seq[q].acks[k] = 1 /\ status = "OK" /\ n = 0
        /\ N(t) = Append(N(p), Advance(q, k)) /\ t.seq[q].step = k + 1
     \/ p.seq[q].acks[k] = 1 /\ N(t) = Append(N(p), Fails(q, k))

LEMMA StepCalled ==
  ASSUME NEW p, IsState(p), NEW q \in PowerOn, NEW k \in 1 .. Final(q), p.seq[q].step = k,
         p.seq[q].acks[k] = 1 \/ p.seq[q].acks[k] = 2, NEW status, NEW n
  PROVE  StepResult(p, SequenceAcked(p, q, status, n), q, k, status, n)
<1> DEFINE c == p.seq[q].acks[k]
           m == (c - 1) % 256
           t == WithAcks(p, q, k, m)
           u == WithStep(t, q, k + 1)
           v == SequenceAcked(p, q, status, n)
<1>1. p.seq[q].acks \in [DOMAIN Steps[q] -> 0 .. 2] /\ k \in DOMAIN Steps[q] /\ k \in Int /\ c \in Int
  BY StepFacts DEF IsState, Typed, CellTyped
<1>2. (c = 2 => m = 1) /\ (c = 1 => m = 0)
  BY <1>1
<1>3. SequenceAcked(p, q, status, n) =
        CASE t.seq[q].acks[k] # 0 -> t
          [] t.seq[q].acks[k] = 0 /\ n = 0 /\ status = "OK" -> Raised([t EXCEPT !.seq[q].step = @ + 1], q, "ADVANCE", k)
          [] OTHER -> Raised(t, q, "FAULT", k)
  BY DEF SequenceAcked, WithAcks
<1>4. m \in 0 .. 2
  BY <1>1, <1>2
<1> HIDE DEF m
<1>5. /\ SameButSeq(p, t, q) /\ t.seq[q].fsm = p.seq[q].fsm /\ t.seq[q].step = k
      /\ t.seq[q].acks[k] = m /\ \A j \in DOMAIN Steps[q] : j # k => t.seq[q].acks[j] = p.seq[q].acks[j]
  <2>1. /\ SameButSeq(p, t, q) /\ t.seq[q].fsm = p.seq[q].fsm /\ t.seq[q].step = p.seq[q].step
        /\ k \in DOMAIN Steps[q] => t.seq[q].acks[k] = m
        /\ \A j \in DOMAIN Steps[q] : j # k => t.seq[q].acks[j] = p.seq[q].acks[j]
    BY <1>4, AcksIs
  <2> QED BY <1>1, <2>1
<1>6. t.seq[q].acks[k] = m /\ \A j \in DOMAIN Steps[q] : j # k => t.seq[q].acks[j] = p.seq[q].acks[j]
  BY <1>5
<1> HIDE DEF t, c
<1>7. [t EXCEPT !.seq[q].step = @ + 1] = u
  BY <1>5 DEF WithStep
<1>8. IsState(t) /\ k + 1 \in 1 .. Final(q) + 1
  BY <1>1, <1>5, StepFacts DEF SameButSeq
<1>9. SameButSeq(t, u, q) /\ u.seq[q].fsm = t.seq[q].fsm /\ u.seq[q].step = k + 1 /\ u.seq[q].acks = t.seq[q].acks
  BY <1>8, StepIs
<1> HIDE DEF u
<1>10. IsState(u) /\ q \in Ofs /\ "ADVANCE" \in Ids /\ "FAULT" \in Ids
  BY <1>9 DEF SameButSeq, Ofs, Ids, PowerOn
<1>11. Pushed(u, Raised(u, q, "ADVANCE", k), Advance(q, k))
  BY <1>1, <1>10, RaisedIs DEF Advance
<1>12. Pushed(t, Raised(t, q, "FAULT", k), Fails(q, k))
  BY <1>1, <1>8, <1>10, RaisedIs DEF Fails
<1>13. CASE c = 2
  <2>1. v = t
    BY <1>2, <1>3, <1>6, <1>13
  <2>2. t.seq[q].acks[k] = 1 /\ p.seq[q].acks[k] = 2
    BY <1>2, <1>6, <1>13 DEF c
  <2> HIDE DEF v
  <2>3. StepResult(p, v, q, k, status, n)
    BY <1>5, <1>6, <2>1, <2>2 DEF SameButSeq, StepResult, N, R
  <2> QED BY <2>3 DEF v
<1>14. CASE c = 1 /\ n = 0 /\ status = "OK"
  <2>1. v = Raised(u, q, "ADVANCE", k)
    BY <1>2, <1>3, <1>6, <1>7, <1>14
  <2>2. Pushed(u, v, Advance(q, k)) /\ p.seq[q].acks[k] = 1
    BY <1>11, <1>14, <2>1 DEF c
  <2> HIDE DEF v
  <2>3. /\ IsState(v) /\ v.queue.highest = p.queue.highest /\ v.power = p.power /\ v.off = p.off /\ v.locked = p.locked
        /\ v.granted = p.granted /\ R(v) = R(p) /\ N(v) = Append(N(p), Advance(q, k)) /\ v.seq = u.seq
    BY <1>5, <1>9, <2>2 DEF SameButSeq, N, R, Pushed, SameRest
  <2>4. /\ \A b \in PowerOn : b # q => v.seq[b] = p.seq[b]
        /\ v.seq[q].fsm = p.seq[q].fsm /\ v.seq[q].step = k + 1
        /\ \A j \in DOMAIN Steps[q] : j # k => v.seq[q].acks[j] = p.seq[q].acks[j]
    <3>1. v.seq[q].fsm = p.seq[q].fsm /\ v.seq[q].step = k + 1 /\ v.seq[q].acks = t.seq[q].acks
      BY <1>5, <1>9, <2>3
    <3>2. \A b \in PowerOn : b # q => v.seq[b] = p.seq[b]
      BY <1>5, <1>9, <2>3 DEF SameButSeq
    <3> QED BY <1>6, <3>1, <3>2
  <2>5. StepResult(p, v, q, k, status, n)
    BY <1>14, <2>2, <2>3, <2>4 DEF StepResult
  <2> QED BY <2>5 DEF v
<1>15. CASE c = 1 /\ ~(n = 0 /\ status = "OK")
  <2>1. v = Raised(t, q, "FAULT", k)
    BY <1>2, <1>3, <1>6, <1>15
  <2>2. Pushed(t, v, Fails(q, k)) /\ p.seq[q].acks[k] = 1
    BY <1>12, <1>15, <2>1 DEF c
  <2> HIDE DEF v
  <2>3. /\ IsState(v) /\ v.queue.highest = p.queue.highest /\ v.power = p.power /\ v.off = p.off /\ v.locked = p.locked
        /\ v.granted = p.granted /\ R(v) = R(p) /\ N(v) = Append(N(p), Fails(q, k)) /\ v.seq = t.seq
    BY <1>5, <2>2 DEF SameButSeq, N, R, Pushed, SameRest
  <2>4. /\ \A b \in PowerOn : b # q => v.seq[b] = p.seq[b]
        /\ v.seq[q].fsm = p.seq[q].fsm
        /\ \A j \in DOMAIN Steps[q] : j # k => v.seq[q].acks[j] = p.seq[q].acks[j]
    BY <1>5, <1>6, <2>3 DEF SameButSeq
  <2>5. StepResult(p, v, q, k, status, n)
    BY <2>2, <2>3, <2>4 DEF StepResult
  <2> QED BY <2>5 DEF v
<1> QED BY <1>13, <1>14, <1>15 DEF c

\* v is in step k of sequence q as s is, but for the queue, the request and the step that comes next.
StepKept(s, v, q, k) ==
  /\ IsState(v) /\ v.queue.highest = s.queue.highest /\ v.power = s.power /\ v.off = s.off /\ v.locked = s.locked
  /\ s.granted \subseteq v.granted
  /\ (\A b \in PowerOn : b # q => v.seq[b] = s.seq[b])
  /\ v.seq[q].fsm = s.seq[q].fsm /\ \A j \in DOMAIN Steps[q] : j # k => v.seq[q].acks[j] = s.seq[q].acks[j]

\* What an answer, or none, to the step's request leads to.
LEMMA StepAnswered ==
  ASSUME NEW s, IsState(s), NEW q \in PowerOn, NEW k \in 1 .. Final(q), NEW W,
         StepPending(N(s), q, k, W, s.power, s.seq, s.off, s.granted), NEW v, StepKept(s, v, q, k),
         \/ /\ N(v) = N(s) /\ v.seq[q].step = k
            /\ \/ R(v) = <<>>
               \/ \E X \in SUBSET Steps[q][k].devices :
                    X # {} /\ R(v) = <<StepRequest(q, k, X)>> /\ v.seq[q].acks[k] = Cardinality(X)
         \/ N(v) = Append(N(s), Advance(q, k)) /\ R(v) = <<>> /\ v.seq[q].step = k + 1 /\ Granted(q, k, v.granted)
         \/ N(v) = Append(N(s), Fails(q, k)) /\ R(v) = <<>>
  PROVE  Leads(s, v)
<1>1. Transits(v.power) /\ Alone(q, v.seq, v.off) /\ v.seq[q].fsm = k
  BY DEF StepPending, StepKept, Alone
<1>2. Granted(q, k - 1, v.granted)
  BY DEF StepPending, StepKept, Granted
<1>3. Fresh(q, k + 1, v.seq)
  <2>1. DOMAIN Steps[q] = 1 .. Final(q) /\ k \in Int
    BY StepFacts
  <2>2. \A j \in 1 .. Final(q) : j >= k + 1 => j # k
    BY <2>1
  <2>3. \A j \in 1 .. Final(q) : j >= k + 1 => v.seq[q].acks[j] = s.seq[q].acks[j]
    BY <2>1, <2>2 DEF StepKept
  <2> QED BY <2>3 DEF StepPending, Fresh
<1>4. N(s) \in Seq(Events) /\ AllIn(N(s), Noise) /\ Advance(q, k) \in Control /\ Fails(q, k) \in Control
  BY StateQueue, TokenFacts DEF StepPending
<1>5. IsState(v) /\ v.queue.highest = s.queue.highest /\ v.locked = s.locked
  BY DEF StepKept
<1>6. CASE /\ N(v) = N(s) /\ v.seq[q].step = k
           /\ \/ R(v) = <<>>
              \/ \E X \in SUBSET Steps[q][k].devices :
                   X # {} /\ R(v) = <<StepRequest(q, k, X)>> /\ v.seq[q].acks[k] = Cardinality(X)
  <2>1. Asking(q, k, R(v), v.power, v.seq, v.off, v.granted)
    BY <1>1, <1>2, <1>3, <1>6 DEF Asking
  <2>2. Carries(N(v), {})
    BY <1>4, <1>6, CarriesNone
  <2>3. InPhase(v)
    BY <2>1, <2>2 DEF InPhase, Phase, OnPhase
  <2> QED BY <1>5, <2>3 DEF Leads
<1>7. CASE N(v) = Append(N(s), Advance(q, k)) /\ R(v) = <<>> /\ v.seq[q].step = k + 1 /\ Granted(q, k, v.granted)
  <2>1. Moving(q, k, R(v), v.power, v.seq, v.off, v.granted)
    BY <1>1, <1>3, <1>7 DEF Moving
  <2>2. Carries(N(v), {Advance(q, k)})
    BY <1>4, <1>7, CarriesOne
  <2>3. InPhase(v)
    BY <2>1, <2>2 DEF InPhase, Phase, OnPhase
  <2> QED BY <1>5, <2>3 DEF Leads
<1>8. CASE N(v) = Append(N(s), Fails(q, k)) /\ R(v) = <<>>
  <2>1. Failing(q, k, R(v), v.power, v.seq, v.off, v.granted)
    BY <1>1, <1>2, <1>8 DEF Failing
  <2>2. Carries(N(v), {Fails(q, k)})
    BY <1>4, <1>8, CarriesOne
  <2>3. InPhase(v)
    BY <2>1, <2>2 DEF InPhase, Phase, OnPhase
  <2> QED BY <1>5, <2>3 DEF Leads
<1> QED BY <1>6, <1>7, <1>8

LEMMA CalledByStep ==
  ASSUME NEW p, NEW q \in PowerOn, NEW k, NEW W, NEW status, NEW n
  PROVE  Called(p, StepRequest(q, k, W), status, n) = SequenceAcked(p, q, status, n)
<1>1. q \in DOMAIN Steps /\ q # "off" /\ q # "relay"
  BY DEF Steps, PowerOn
<1>2. StepRequest(q, k, W).from = q
  BY DEF StepRequest, Request
<1> QED BY <1>1, <1>2 DEF Called

LEMMA AckStep ==
  ASSUME NEW s, IsState(s), NEW q \in PowerOn, NEW k \in 1 .. Final(q), NEW W \in SUBSET Steps[q][k].devices, W # {},
         R(s) = <<StepRequest(q, k, W)>>, StepPending(N(s), q, k, W, s.power, s.seq, s.off, s.granted),
         NEW ack, AckHandled(s, ack) # s
  PROVE  Leads(s, AckHandled(s, ack))
<1> DEFINE d == ack.device
           X == W \ {d}
           h == AnswersTo(s.granted, q, k, ack)
           p == WithAnswer(s, X, h)
           t == SequenceAcked(p, q, ack.status, Cardinality(X))
           v == IF X = {} THEN WithRequests(t, RemoveAt(R(t), 1)) ELSE t
<1>1. R(s) = <<Request(q, k, Steps[q][k].msg, W)>>
  BY DEF StepRequest
<1>2. d \in W /\ AckHandled(s, ack) = v
  <2>1. d \in W /\ AckHandled(s, ack) = LET u == Called(p, StepRequest(q, k, W), ack.status, Cardinality(X))
                                        IN IF X = {} THEN WithRequests(u, RemoveAt(R(u), 1)) ELSE u
    BY <1>1, AckWithOne DEF StepRequest
  <2>2. Called(p, StepRequest(q, k, W), ack.status, Cardinality(X)) = t
    BY CalledByStep
  <2> QED BY <2>1, <2>2
<1>3. SameButRequests(s, p) /\ R(p) = <<StepRequest(q, k, X)>> /\ p.granted = h
  BY <1>1, AnswerIs DEF StepRequest
<1>4. X = W \ {d} /\ v = IF X = {} THEN WithRequests(t, RemoveAt(R(t), 1)) ELSE t
  OBVIOUS
<1>5. /\ s.granted \subseteq h
      /\ ack.status = "OK" => h = s.granted \cup {<<q, k, d>>}
  BY DEF AnswersTo
<1>6. t = SequenceAcked(p, q, ack.status, Cardinality(X))
  OBVIOUS
<1> HIDE DEF X, h, p, t, v
<1> SUFFICES Leads(s, v)
  BY <1>2
<1>7. /\ IsState(p) /\ N(p) = N(s) /\ p.queue.highest = s.queue.highest /\ p.power = s.power /\ p.off = s.off
      /\ p.locked = s.locked /\ p.seq = s.seq
  BY <1>3 DEF SameButRequests, N
<1>8. /\ s.seq[q].step = k /\ s.seq[q].acks[k] = Cardinality(W) /\ Granted(q, k - 1, s.granted)
  BY DEF StepPending
<1>9. /\ Cardinality(W) = 1 \/ Cardinality(W) = 2
      /\ Cardinality(W) = 1 => X = {}
      /\ Cardinality(W) = 2 => Cardinality(X) = 1 /\ X # {}
  BY <1>2, <1>4, WaitShrinks
<1>10. StepResult(p, t, q, k, ack.status, Cardinality(X))
  <2>1. p.seq[q].step = k /\ (p.seq[q].acks[k] = 1 \/ p.seq[q].acks[k] = 2)
    BY <1>7, <1>8, <1>9
  <2> QED BY <1>6, <1>7, <2>1, StepCalled
<1>11. IsState(t) /\ R(t) = R(p) /\ t.granted = h /\ StepKept(s, t, q, k)
  BY <1>3, <1>5, <1>7, <1>10 DEF StepResult, StepKept
<1>12. CASE p.seq[q].acks[k] = 2 /\ N(t) = N(p) /\ t.seq[q].step = k /\ t.seq[q].acks[k] = 1
  <2>1. X # {} /\ Cardinality(X) = 1
    BY <1>7, <1>8, <1>9, <1>12
  <2>2. v = t
    BY <1>4, <2>1
  <2>3. X \in SUBSET Steps[q][k].devices /\ R(v) = <<StepRequest(q, k, X)>> /\ v.seq[q].acks[k] = Cardinality(X)
    BY <1>3, <1>4, <1>11, <1>12, <2>1, <2>2
  <2>4. N(v) = N(s) /\ v.seq[q].step = k /\ StepKept(s, v, q, k)
    BY <1>7, <1>11, <1>12, <2>2
  <2> QED BY <2>1, <2>3, <2>4, StepAnswered
<1>13. ASSUME p.seq[q].acks[k] = 1
       PROVE  X = {} /\ R(v) = <<>> /\ N(v) = N(t) /\ StepKept(s, v, q, k) /\ v.seq = t.seq /\ v.granted = h
  <2>1. X = {}
    BY <1>7, <1>8, <1>9, <1>13
  <2>2. v = WithRequests(t, <<>>)
    BY <1>3, <1>4, <1>11, <2>1, RemovedFirst
  <2>3. SameButRequests(t, v) /\ R(v) = <<>> /\ v.granted = t.granted
    BY <1>11, <2>2, RequestsIs
  <2> QED BY <1>11, <2>1, <2>3 DEF SameButRequests, StepKept, N
<1>14. CASE /\ p.seq[q].acks[k] = 1 /\ ack.status = "OK" /\ Cardinality(X) = 0
            /\ N(t) = Append(N(p), Advance(q, k)) /\ t.seq[q].step = k + 1
  <2>1. W = {d}
    BY <1>2, <1>4, <1>13, <1>14
  <2>2. h = s.granted \cup {<<q, k, d>>} /\ v.granted = h
    BY <1>5, <1>13, <1>14
  <2>3. Granted(q, k, v.granted)
    <3> SUFFICES ASSUME NEW j \in 1 .. k, j < Final(q), NEW e \in Steps[q][j].devices PROVE <<q, j, e>> \in v.granted
      BY DEF Granted
    <3>1. CASE j = k
      <4>1. e = d
        <5>1. k < Final(q) => W = Steps[q][k].devices
          BY WaitFacts
        <5> QED BY <2>1, <3>1, <5>1
      <4> QED BY <2>2, <3>1, <4>1
    <3>2. CASE j # k
      <4>1. j \in 1 .. k - 1
        BY <3>2, StepFacts
      <4>2. <<q, j, e>> \in s.granted
        BY <1>8, <4>1 DEF Granted
      <4> QED BY <1>5, <2>2, <4>2
    <3> QED BY <3>1, <3>2
  <2>4. N(v) = Append(N(s), Advance(q, k)) /\ R(v) = <<>> /\ v.seq[q].step = k + 1 /\ StepKept(s, v, q, k)
    BY <1>7, <1>13, <1>14
  <2> QED BY <2>3, <2>4, StepAnswered
<1>15. CASE p.seq[q].acks[k] = 1 /\ N(t) = Append(N(p), Fails(q, k))
  <2>1. N(v) = Append(N(s), Fails(q, k)) /\ R(v) = <<>> /\ StepKept(s, v, q, k)
    BY <1>7, <1>13, <1>15
  <2> QED BY <2>1, StepAnswered
<1> QED BY <1>10, <1>12, <1>14, <1>15 DEF StepResult

LEMMA TimeoutStep ==
  ASSUME NEW s, IsState(s), NEW q \in PowerOn, NEW k \in 1 .. Final(q), NEW W \in SUBSET Steps[q][k].devices, W # {},
         R(s) = <<StepRequest(q, k, W)>>, StepPending(N(s), q, k, W, s.power, s.seq, s.off, s.granted), NEW n, NEW y
  PROVE  LET t == Called(s, StepRequest(q, k, W), "TIMEOUT", n)
         IN Leads(s, WithRequestsOwed(t, Tail(R(t)), y))
<1> DEFINE t == SequenceAcked(s, q, "TIMEOUT", n)
           v == WithRequestsOwed(t, Tail(R(t)), y)
<1>1. Called(s, StepRequest(q, k, W), "TIMEOUT", n) = t
  BY CalledByStep
<1>2. s.seq[q].step = k /\ (s.seq[q].acks[k] = 1 \/ s.seq[q].acks[k] = 2)
  BY WaitFacts DEF StepPending
<1>3. StepResult(s, t, q, k, "TIMEOUT", n)
  BY <1>2, StepCalled
<1>4. v = WithRequestsOwed(t, Tail(R(t)), y)
  OBVIOUS
<1> HIDE DEF t, v
<1>5. IsState(t) /\ R(t) = <<StepRequest(q, k, W)>>
  BY <1>3 DEF StepResult
<1>6. \A a : Tail(<<a>>) = <<>>
  OBVIOUS
<1>7. v = WithRequestsOwed(t, <<>>, y)
  BY <1>4, <1>5, <1>6
<1>8. SameButRequests(t, v) /\ R(v) = <<>> /\ v.granted = t.granted
  BY <1>5, <1>7, RequestsOwedIs
<1>9. StepKept(s, v, q, k) /\ N(v) = N(t) /\ v.seq = t.seq
  BY <1>3, <1>8 DEF SameButRequests, StepResult, StepKept, N
<1>10. \/ N(v) = N(s) /\ v.seq[q].step = k
       \/ N(v) = Append(N(s), Fails(q, k))
  BY <1>3, <1>9 DEF StepResult
<1>11. Leads(s, v)
  BY <1>8, <1>9, <1>10, StepAnswered
<1> QED BY <1>1, <1>4, <1>11

-----------------------------------------------------------------------------
(* An answer and a timeout, in every phase                                   *)

LEMMA AckKeeps ==
  ASSUME NEW s, IsState(s), InPhase(s), NEW ack
  PROVE  Leads(s, AckHandled(s, ack))
<1>1. Leads(s, s)
  BY DEF Leads
<1>2. CASE AckHandled(s, ack) = s
  BY <1>1, <1>2
<1>3. CASE AckHandled(s, ack) # s
  <2>1. Phase(N(s), R(s), s.power, s.seq, s.off, s.granted)
    BY DEF InPhase
  <2>2. CASE R(s) = <<>>
    BY <1>3, <2>2, AckWithNone
  <2>3. ASSUME NEW W \in SUBSET Distributions, R(s) = <<OffRequest(W)>> PROVE Leads(s, AckHandled(s, ack))
    BY <1>3, <2>3, AckOff
  <2>4. CASE R(s) = <<RelayRequest({"bms"})>>
    BY <1>3, <2>4, AckRelay
  <2>5. ASSUME NEW q \in PowerOn, NEW k \in 1 .. Final(q), NEW W \in SUBSET Steps[q][k].devices, W # {},
               R(s) = <<StepRequest(q, k, W)>>, StepPending(N(s), q, k, W, s.power, s.seq, s.off, s.granted)
        PROVE  Leads(s, AckHandled(s, ack))
    BY <1>3, <2>5, AckStep
  <2>6. \/ R(s) = <<>>
        \/ \E W \in SUBSET Distributions : R(s) = <<OffRequest(W)>>
        \/ R(s) = <<RelayRequest({"bms"})>>
        \/ \E q \in PowerOn : \E k \in 1 .. Final(q) : \E W \in SUBSET Steps[q][k].devices :
             /\ W # {} /\ R(s) = <<StepRequest(q, k, W)>>
             /\ StepPending(N(s), q, k, W, s.power, s.seq, s.off, s.granted)
    BY <2>1, RequestsInPhase
  <2> QED BY <2>2, <2>3, <2>4, <2>5, <2>6
<1> QED BY <1>2, <1>3

LEMMA TimeoutKeeps ==
  ASSUME NEW s, IsState(s), InPhase(s), R(s) # <<>>, NEW n, NEW y
  PROVE  LET t == Called(s, Head(R(s)), "TIMEOUT", n)
         IN Leads(s, WithRequestsOwed(t, Tail(R(t)), y))
<1> DEFINE Out(r) == LET t == Called(s, r, "TIMEOUT", n) IN WithRequestsOwed(t, Tail(R(t)), y)
<1>1. Phase(N(s), R(s), s.power, s.seq, s.off, s.granted)
  BY DEF InPhase
<1>2. \A a : Head(<<a>>) = a
  OBVIOUS
<1>3. ASSUME NEW W \in SUBSET Distributions, R(s) = <<OffRequest(W)>> PROVE Leads(s, Out(OffRequest(W)))
  BY <1>3, TimeoutOff
<1>4. ASSUME R(s) = <<RelayRequest({"bms"})>> PROVE Leads(s, Out(Head(R(s))))
  <2>1. Leads(s, Out(RelayRequest({"bms"})))
    BY <1>4, TimeoutRelay
  <2>2. Head(R(s)) = RelayRequest({"bms"})
    BY <1>2, <1>4
  <2> QED BY <2>1, <2>2
<1>5. ASSUME NEW q \in PowerOn, NEW k \in 1 .. Final(q), NEW W \in SUBSET Steps[q][k].devices, W # {},
             R(s) = <<StepRequest(q, k, W)>>, StepPending(N(s), q, k, W, s.power, s.seq, s.off, s.granted)
      PROVE  Leads(s, Out(Head(R(s))))
  <2>1. Leads(s, Out(StepRequest(q, k, W)))
    BY <1>5, TimeoutStep
  <2>2. Head(R(s)) = StepRequest(q, k, W)
    BY <1>2, <1>5
  <2> QED BY <2>1, <2>2
<1>6. ASSUME NEW W \in SUBSET Distributions, R(s) = <<OffRequest(W)>> PROVE Leads(s, Out(Head(R(s))))
  <2>1. Head(R(s)) = OffRequest(W)
    BY <1>2, <1>6
  <2> QED BY <1>3, <1>6, <2>1
<1>7. \/ \E W \in SUBSET Distributions : R(s) = <<OffRequest(W)>>
      \/ R(s) = <<RelayRequest({"bms"})>>
      \/ \E q \in PowerOn : \E k \in 1 .. Final(q) : \E W \in SUBSET Steps[q][k].devices :
           /\ W # {} /\ R(s) = <<StepRequest(q, k, W)>>
           /\ StepPending(N(s), q, k, W, s.power, s.seq, s.off, s.granted)
  BY <1>1, RequestsInPhase
<1> HIDE DEF Out
<1>8. Leads(s, Out(Head(R(s))))
  <2>1. CASE R(s) = <<RelayRequest({"bms"})>>
    BY <1>4, <2>1
  <2>2. CASE \E W \in SUBSET Distributions : R(s) = <<OffRequest(W)>>
    BY <1>6, <2>2
  <2>3. CASE \E q \in PowerOn : \E k \in 1 .. Final(q) : \E W \in SUBSET Steps[q][k].devices :
               /\ W # {} /\ R(s) = <<StepRequest(q, k, W)>>
               /\ StepPending(N(s), q, k, W, s.power, s.seq, s.off, s.granted)
    BY <1>5, <2>3
  <2> QED BY <1>7, <2>1, <2>2, <2>3
<1> QED BY <1>8 DEF Out

-----------------------------------------------------------------------------
(* What the phases imply                                                     *)

\* The properties, of the state a handler works on.
Running(s) == {q \in DOMAIN s.seq : s.seq[q].fsm # Idle} \cup IF s.off.fsm # Idle THEN {"off"} ELSE {}

OneIn(s) == Cardinality(Running(s)) =< 1 /\ (Running(s) # {} => s.power.fsm \in {TRANSITIONING, FAULT})

ConfirmedIn(s) ==
  /\ \A q \in DOMAIN s.seq : \A k \in 1 .. Min({s.seq[q].fsm, Len(Steps[q])}) - 1 :
       \A d \in Steps[q][k].devices : <<q, k, d>> \in s.granted
  /\ s.off.fsm >= OpeningRelays => \A d \in {"rear", "front"} : <<"off", TurningOff, d>> \in s.granted
  /\ s.off.fsm = OffComplete => <<"relay", OpeningRelays, "bms">> \in s.granted

RequestsIn(s) ==
  /\ Len(R(s)) =< 1
  /\ \A i \in DOMAIN R(s) : \A q \in PowerOn : R(s)[i].from = q =>
       s.seq[q].fsm = R(s)[i].step /\ s.seq[q].step = R(s)[i].step /\ R(s)[i].step # Faulted

Safe(s) == OneIn(s) /\ ConfirmedIn(s) /\ RequestsIn(s)

\* The first f steps of a sequence but the last are confirmed.
Backed(q, f, g) == \A k \in 1 .. Final(q) : k < Final(q) /\ k < f => \A d \in Steps[q][k].devices : <<q, k, d>> \in g

LEMMA MinBounds ==
  ASSUME NEW a \in Int, NEW b \in Int
  PROVE  Min({a, b}) \in Int /\ Min({a, b}) =< a /\ Min({a, b}) =< b
<1>1. \E m \in {a, b} : \A y \in {a, b} : m =< y
  OBVIOUS
<1>2. Min({a, b}) \in {a, b} /\ \A y \in {a, b} : Min({a, b}) =< y
  BY <1>1 DEF Min
<1> QED BY <1>2

LEMMA BackedIsConfirmed ==
  ASSUME NEW q \in PowerOn, NEW f \in Int, NEW g, Backed(q, f, g), NEW k \in 1 .. Min({f, Len(Steps[q])}) - 1,
         NEW d \in Steps[q][k].devices
  PROVE  <<q, k, d>> \in g
<1> DEFINE m == Min({f, Len(Steps[q])})
<1>1. Final(q) \in Int /\ Len(Steps[q]) = Final(q)
  BY StepFacts DEF Final
<1>2. m \in Int /\ m =< f /\ m =< Final(q)
  BY <1>1, MinBounds
<1>3. k \in 1 .. m - 1
  OBVIOUS
<1> HIDE DEF m
<1>4. k \in 1 .. Final(q) /\ k < Final(q) /\ k < f
  BY <1>1, <1>2, <1>3
<1> QED BY <1>4 DEF Backed

\* How far the off sequence has come is confirmed.
OffBacked(f, g) ==
  /\ f >= OpeningRelays => OffGranted(Distributions, g)
  /\ f = OffComplete => RelayGranted(g)

LEMMA SafeIs ==
  ASSUME NEW s, IsState(s),
         \/ SeqsIdle(s.seq)
         \/ \E q \in PowerOn : Alone(q, s.seq, s.off),
         s.power.fsm \in {TRANSITIONING, FAULT} \/ (SeqsIdle(s.seq) /\ s.off.fsm = Idle),
         \A q \in PowerOn : Backed(q, s.seq[q].fsm, s.granted),
         OffBacked(s.off.fsm, s.granted), RequestsIn(s)
  PROVE  Safe(s)
<1>1. DOMAIN s.seq = PowerOn
  BY DEF IsState, SeqShaped
<1>2. \A q \in PowerOn : s.seq[q].fsm \in Int
  BY DEF IsState, Typed, CellTyped
<1>3. ASSUME SeqsIdle(s.seq) PROVE \A q \in PowerOn : s.seq[q].fsm = Idle
  BY <1>3, AtStartIs DEF SeqsIdle
<1>4. \E q : Running(s) \in SUBSET {q}
  <2>1. CASE SeqsIdle(s.seq)
    BY <1>1, <1>3, <2>1 DEF Running
  <2>2. ASSUME NEW q \in PowerOn, Alone(q, s.seq, s.off) PROVE Running(s) \in SUBSET {q}
    BY <1>1, <2>2, AtStartIs DEF Running, Alone
  <2> QED BY <2>1, <2>2
<1>5. Cardinality(Running(s)) =< 1
  <2>1. PICK q : Running(s) \in SUBSET {q}
    BY <1>4
  <2>2. Running(s) = {} \/ Running(s) = {q}
    BY <2>1
  <2>3. Cardinality({q}) = 1
    BY CountFacts
  <2>4. Cardinality({}) = 0
    BY FS_EmptySet
  <2> QED BY <2>2, <2>3, <2>4
<1>6. Running(s) # {} => s.power.fsm \in {TRANSITIONING, FAULT}
  BY <1>1, <1>3 DEF Running
<1>7. OneIn(s)
  BY <1>5, <1>6 DEF OneIn
<1>8. \A q \in DOMAIN s.seq : \A k \in 1 .. Min({s.seq[q].fsm, Len(Steps[q])}) - 1 :
        \A d \in Steps[q][k].devices : <<q, k, d>> \in s.granted
  BY <1>1, <1>2, BackedIsConfirmed
<1>9. ConfirmedIn(s)
  BY <1>8 DEF ConfirmedIn, OffBacked, OffGranted, RelayGranted, Distributions
<1> QED BY <1>7, <1>9 DEF Safe

LEMMA IdleIsBacked ==
  ASSUME NEW q \in PowerOn, NEW f, f = Idle \/ f = Faulted, NEW g
  PROVE  Backed(q, f, g)
<1>1. \A k \in 1 .. Final(q) : k \in Int /\ ~(k < f)
  BY StepFacts DEF Idle, Faulted
<1> QED BY <1>1 DEF Backed

LEMMA IdleOffIsBacked ==
  ASSUME NEW f, f \in {Faulted, Idle, Discharging, TurningOff}, NEW g
  PROVE  OffBacked(f, g)
BY DEF OffBacked, Faulted, Idle, Discharging, TurningOff, OpeningRelays, OffComplete

\* At most one request is pending, and it is one of the step in progress.
LEMMA PhaseRequests ==
  ASSUME NEW s, InPhase(s)
  PROVE  RequestsIn(s)
<1>1. Phase(N(s), R(s), s.power, s.seq, s.off, s.granted)
  BY DEF InPhase
<1>2. CASE R(s) = <<>>
  BY <1>2 DEF RequestsIn
<1>3. ASSUME NEW r, R(s) = <<r>>, r.from \notin PowerOn PROVE RequestsIn(s)
  BY <1>3 DEF RequestsIn
<1>4. ASSUME NEW W, R(s) = <<OffRequest(W)>> PROVE RequestsIn(s)
  <2>1. OffRequest(W).from \notin PowerOn
    BY DEF OffRequest, Request, PowerOn
  <2> QED BY <1>3, <1>4, <2>1
<1>5. ASSUME NEW W, R(s) = <<RelayRequest(W)>> PROVE RequestsIn(s)
  <2>1. RelayRequest(W).from \notin PowerOn
    BY DEF RelayRequest, Request, PowerOn
  <2> QED BY <1>3, <1>5, <2>1
<1>6. ASSUME NEW q \in PowerOn, NEW k \in 1 .. Final(q), NEW W, R(s) = <<StepRequest(q, k, W)>>,
             StepPending(N(s), q, k, W, s.power, s.seq, s.off, s.granted)
      PROVE  RequestsIn(s)
  <2>1. StepRequest(q, k, W).from = q /\ StepRequest(q, k, W).step = k
    BY DEF StepRequest, Request
  <2>2. PICK r : r = StepRequest(q, k, W)
    OBVIOUS
  <2>3. Len(R(s)) = 1 /\ DOMAIN R(s) = {1} /\ R(s)[1] = r /\ r.from = q /\ r.step = k
    BY <1>6, <2>1, <2>2
  <2>4. s.seq[q].fsm = k /\ s.seq[q].step = k
    BY <1>6 DEF StepPending
  <2>5. k # Faulted
    BY StepFacts DEF Faulted
  <2> QED BY <2>3, <2>4, <2>5 DEF RequestsIn
<1> QED BY <1>1, <1>2, <1>4, <1>5, <1>6, RequestsInPhase

LEMMA PhaseSafe ==
  ASSUME NEW s, IsState(s), InPhase(s)
  PROVE  Safe(s)
<1>1. Phase(N(s), R(s), s.power, s.seq, s.off, s.granted) /\ RequestsIn(s)
  BY PhaseRequests DEF InPhase
<1>2. ASSUME SeqsIdle(s.seq) PROVE \A q \in PowerOn : Backed(q, s.seq[q].fsm, s.granted)
  BY <1>2, AtStartIs, IdleIsBacked DEF SeqsIdle
<1>3. CASE Resting(R(s), s.power, s.seq, s.off) \/ Faulting(R(s), s.power, s.seq, s.off) \/ Beginning(R(s), s.power, s.seq, s.off)
  <2>1. SeqsIdle(s.seq) /\ s.off.fsm = Idle
    BY <1>3 DEF Resting, Faulting, Beginning
  <2>2. OffBacked(s.off.fsm, s.granted)
    BY <2>1, IdleOffIsBacked
  <2> QED BY <1>1, <1>2, <2>1, <2>2, SafeIs
<1>4. CASE OnPhase(N(s), R(s), s.power, s.seq, s.off, s.granted)
  <2>1. PICK q \in PowerOn :
          \/ \E k \in 1 .. Final(q) :
               \/ Asking(q, k, R(s), s.power, s.seq, s.off, s.granted)
               \/ Moving(q, k, R(s), s.power, s.seq, s.off, s.granted)
               \/ Failing(q, k, R(s), s.power, s.seq, s.off, s.granted)
          \/ Finished(q, R(s), s.power, s.seq, s.off, s.granted)
          \/ Failed(q, R(s), s.power, s.seq, s.off)
    BY <1>4 DEF OnPhase
  <2>2. Transits(s.power) /\ Alone(q, s.seq, s.off)
    BY <2>1 DEF Asking, Moving, Failing, Finished, Failed
  <2>3. \A p \in PowerOn : p # q => s.seq[p].fsm = Idle
    BY <2>2, AtStartIs DEF Alone
  <2>4. Backed(q, s.seq[q].fsm, s.granted)
    <3>1. ASSUME NEW k \in 1 .. Final(q), s.seq[q].fsm = k, Granted(q, k - 1, s.granted) \/ Granted(q, k, s.granted)
          PROVE  Backed(q, s.seq[q].fsm, s.granted)
      <4>1. k \in Int /\ Final(q) \in Int
        BY StepFacts
      <4>2. \A j \in 1 .. Final(q) : j < k => j \in 1 .. k - 1 /\ j \in 1 .. k
        BY <4>1
      <4> QED BY <3>1, <4>2 DEF Backed, Granted
    <3>2. ASSUME Granted(q, Final(q), s.granted) PROVE Backed(q, s.seq[q].fsm, s.granted)
      BY <3>2 DEF Backed, Granted
    <3>3. ASSUME s.seq[q].fsm = Faulted PROVE Backed(q, s.seq[q].fsm, s.granted)
      BY <3>3, IdleIsBacked
    <3> QED BY <2>1, <3>1, <3>2, <3>3 DEF Asking, Moving, Failing, Finished, Failed
  <2>5. \A p \in PowerOn : Backed(p, s.seq[p].fsm, s.granted)
    BY <2>3, <2>4, IdleIsBacked
  <2>6. s.off.fsm = Idle /\ s.power.fsm = TRANSITIONING
    BY <2>2 DEF Alone, Transits
  <2>7. OffBacked(s.off.fsm, s.granted)
    BY <2>6, IdleOffIsBacked
  <2> QED BY <1>1, <2>2, <2>5, <2>6, <2>7, SafeIs
<1>5. CASE OffPhase(N(s), R(s), s.power, s.seq, s.off, s.granted)
  <2>1. \E k : TurningTo(k, s.power, s.seq, s.off)
    BY <1>5 DEF OffPhase
  <2>2. SeqsIdle(s.seq) /\ s.power.fsm = TRANSITIONING
    BY <2>1 DEF TurningTo, Transits
  <2>3. \/ s.off.fsm \in {Faulted, Discharging, TurningOff}
        \/ s.off.fsm = OpeningRelays /\ OffGranted(Distributions, s.granted)
        \/ s.off.fsm = OffComplete /\ OffGranted(Distributions, s.granted) /\ RelayGranted(s.granted)
    BY <1>5 DEF OffPhase, TurningTo
  <2>4. OffBacked(s.off.fsm, s.granted)
    BY <2>3, IdleOffIsBacked DEF OffBacked, OpeningRelays, OffComplete
  <2> QED BY <1>1, <1>2, <2>2, <2>4, SafeIs
<1> QED BY <1>1, <1>3, <1>4, <1>5 DEF Phase

\* No phase but the first has another event in the queue than the ones below.
LEMMA HeadIsKnown ==
  ASSUME NEW s, IsState(s), InPhase(s), N(s) # <<>>
  PROVE  Head(N(s)) \in Noise \cup Control
<1> DEFINE Q == N(s)
<1>1. Phase(Q, R(s), s.power, s.seq, s.off, s.granted) /\ s.power.previous \in Int /\ Q \in Seq(Events)
  BY StateQueue DEF InPhase
<1> HIDE DEF Q
<1>2. ASSUME NEW T, T \subseteq Control, AllIn(Q, Noise \cup T) PROVE AllIn(Q, Noise \cup Control)
  BY <1>2 DEF AllIn
<1>3. PowerRequests \subseteq Control /\ Stale \subseteq Control /\ Clear(s.power) \in Control /\ Faulty \in Control
  BY <1>1, TokenFacts, EventFacts
<1>4. \A q \in {"main", "aux", "off"} : ToBegin(q) \in Control
  BY TokenFacts
<1>5. AllIn(Q, Noise \cup Control)
  <2>1. CASE RestQueue(Q, R(s))
    BY <1>2, <1>3, <2>1 DEF RestQueue
  <2>2. CASE FaultQueue(Q, R(s), s.power)
    BY <1>2, <1>3, <2>2 DEF FaultQueue
  <2>3. CASE \E q \in {"main", "aux", "off"} : BeginQueue(Q, q)
    BY <1>2, <1>3, <1>4, <2>3 DEF BeginQueue
  <2>4. ASSUME NEW T, T \subseteq Control, Carries(Q, T) PROVE AllIn(Q, Noise \cup Control)
    BY <1>2, <2>4 DEF Carries
  <2>5. CASE OnPhase(Q, R(s), s.power, s.seq, s.off, s.granted)
    <3>1. \A q \in PowerOn : \A k \in 1 .. Final(q) :
            /\ {Advance(q, k)} \subseteq Control /\ {Fails(q, k)} \subseteq Control
      BY TokenFacts
    <3>2. \A q \in PowerOn : {Complete(q)} \subseteq Control
      BY TokenFacts DEF PowerOn
    <3>3. {} \subseteq Control /\ {Faulty} \subseteq Control
      BY <1>3
    <3> QED BY <2>4, <2>5, <3>1, <3>2, <3>3 DEF OnPhase
  <2>6. CASE OffPhase(Q, R(s), s.power, s.seq, s.off, s.granted)
    <3>1. /\ {} \subseteq Control /\ {Discharged} \subseteq Control /\ {TurnedOff} \subseteq Control /\ {OffFault} \subseteq Control
          /\ {RelaysOpened} \subseteq Control /\ {Complete("off")} \subseteq Control
      BY TokenFacts, StaleFacts
    <3>2. RefusedQueue(Q, R(s)) => AllIn(Q, Noise \cup Control)
      BY <1>2, <1>3 DEF RefusedQueue
    <3>3. FailedQueue(Q) => AllIn(Q, Noise \cup Control)
      BY <1>2, <1>3 DEF FailedQueue
    <3> QED BY <2>4, <2>6, <3>1, <3>2, <3>3 DEF OffPhase
  <2> QED BY <1>1, <2>1, <2>2, <2>3, <2>5, <2>6 DEF Phase
<1> QED BY <1>1, <1>5, PopAllIn DEF Q

-----------------------------------------------------------------------------
(* A fault of the battery protection: it locks the board up, and the         *)
(* sequences only go back to their first states                              *)

Battery == Event("power", "FAULT", 1)

LEMMA BatteryIs ==
  /\ Battery.of = "power" /\ Battery.id = "FAULT" /\ Battery.data = 1
  /\ Battery.id \notin DOMAIN Destination /\ \A f : Battery.id \notin Accepted(f)
<1>1. Battery.of = "power" /\ Battery.id = "FAULT" /\ Battery.data = 1
  BY DEF Battery, Event
<1>2. \A f : Accepted(f) \subseteq {"ON_MAIN", "ON_AUX", "OFF"}
  BY DEF Accepted
<1> QED BY <1>1, <1>2, DestinationFacts

\* The sequences are where they were in s, or in their first states.
Calmer(s, t) ==
  /\ IsState(t) /\ t.queue.highest = s.queue.highest /\ t.granted = s.granted /\ R(t) = R(s)
  /\ \A q \in PowerOn : t.seq[q] = s.seq[q] \/ (s.seq[q].fsm = Faulted /\ t.seq[q].fsm = Idle)
  /\ t.off.fsm = s.off.fsm \/ t.off.fsm = Idle
  /\ t.power.fsm = s.power.fsm \/ t.power.fsm = FAULT

LEMMA CalmerSafe ==
  ASSUME NEW s, IsState(s), Safe(s), NEW t, Calmer(s, t)
  PROVE  Safe(t)
<1>1. DOMAIN s.seq = PowerOn /\ DOMAIN t.seq = PowerOn
  BY DEF Calmer, IsState, SeqShaped
<1>2. Running(t) \in SUBSET Running(s)
  BY <1>1 DEF Running, Calmer
<1>3. Cardinality(Running(t)) =< 1
  <2>1. IsFiniteSet({"main", "aux", "off"})
    <3>1. IsFiniteSet({"main"})
      BY FS_Singleton
    <3>2. IsFiniteSet({"main"} \cup {"aux"})
      BY <3>1, FS_AddElement
    <3>3. IsFiniteSet(({"main"} \cup {"aux"}) \cup {"off"})
      BY <3>2, FS_AddElement
    <3>4. ({"main"} \cup {"aux"}) \cup {"off"} = {"main", "aux", "off"}
      OBVIOUS
    <3> QED BY <3>3, <3>4
  <2>2. Running(s) \in SUBSET {"main", "aux", "off"}
    BY <1>1 DEF Running, PowerOn
  <2>3. IsFiniteSet(Running(s))
    BY <2>1, <2>2, FS_Subset
  <2>4. Cardinality(Running(t)) =< Cardinality(Running(s)) /\ IsFiniteSet(Running(t))
    BY <1>2, <2>3, FS_Subset
  <2>5. Cardinality(Running(t)) \in Nat /\ Cardinality(Running(s)) \in Nat
    BY <2>3, <2>4, FS_CardinalityType
  <2>6. Cardinality(Running(s)) =< 1
    BY DEF Safe, OneIn
  <2> QED BY <2>4, <2>5, <2>6
<1>4. Running(t) # {} => t.power.fsm \in {TRANSITIONING, FAULT}
  BY <1>2 DEF Safe, OneIn, Calmer
<1>5. ASSUME NEW q \in PowerOn, NEW k \in 1 .. Min({t.seq[q].fsm, Len(Steps[q])}) - 1, NEW d \in Steps[q][k].devices
      PROVE  <<q, k, d>> \in t.granted
  <2>1. CASE t.seq[q].fsm = s.seq[q].fsm
    BY <1>1, <2>1 DEF Safe, ConfirmedIn, Calmer
  <2>2. CASE t.seq[q].fsm = Idle
    <3>1. t.seq[q].fsm \in Int
      BY DEF Calmer, IsState, Typed, CellTyped
    <3>2. Backed(q, t.seq[q].fsm, t.granted)
      BY <2>2, IdleIsBacked
    <3> QED BY <3>1, <3>2, BackedIsConfirmed
  <2> QED BY <2>1, <2>2 DEF Calmer
<1>6. /\ t.off.fsm >= OpeningRelays => \A d \in {"rear", "front"} : <<"off", TurningOff, d>> \in t.granted
      /\ t.off.fsm = OffComplete => <<"relay", OpeningRelays, "bms">> \in t.granted
  <2>1. CASE t.off.fsm = s.off.fsm
    BY <2>1 DEF Safe, ConfirmedIn, Calmer
  <2>2. CASE t.off.fsm = Idle
    BY <2>2 DEF Idle, OpeningRelays, OffComplete
  <2> QED BY <2>1, <2>2 DEF Calmer
<1>7. OneIn(t)
  BY <1>3, <1>4 DEF OneIn
<1>8. ConfirmedIn(t)
  BY <1>1, <1>5, <1>6 DEF ConfirmedIn
<1>9. RequestsIn(t)
  BY DEF Safe, RequestsIn, Calmer
<1> QED BY <1>7, <1>8, <1>9 DEF Safe

LEMMA CalmerThenCalmer ==
  ASSUME NEW s, NEW t, NEW u, Calmer(s, t), Calmer(t, u)
  PROVE  Calmer(s, u)
<1>1. IsState(u) /\ u.queue.highest = s.queue.highest /\ u.granted = s.granted /\ R(u) = R(s)
  BY DEF Calmer
<1>2. \A q \in PowerOn : u.seq[q] = s.seq[q] \/ (s.seq[q].fsm = Faulted /\ u.seq[q].fsm = Idle)
  BY DEF Calmer, Idle, Faulted
<1>3. u.off.fsm = s.off.fsm \/ u.off.fsm = Idle
  BY DEF Calmer
<1>4. u.power.fsm = s.power.fsm \/ u.power.fsm = FAULT
  BY DEF Calmer
<1> QED BY <1>1, <1>2, <1>3, <1>4 DEF Calmer

LEMMA BatteryToSequence ==
  ASSUME NEW s, IsState(s), NEW q \in PowerOn
  PROVE  Calmer(s, SequenceHandled(s, q, Battery)) /\ SequenceHandled(s, q, Battery).power = s.power
<1>1. q # "power"
  BY DEF PowerOn
<1>2. SequenceHandled(s, q, Battery) = IF s.seq[q].fsm = Faulted THEN BackToNone(s, q) ELSE s
  BY <1>1, BatteryIs DEF SequenceHandled
<1>3. Calmer(s, s)
  BY DEF Calmer
<1>4. s.seq[q].fsm = Faulted => Calmer(s, BackToNone(s, q)) /\ BackToNone(s, q).power = s.power
  <2> DEFINE t == BackToNone(s, q)
  <2>1. SameButSeq(s, t, q) /\ t.seq[q].fsm = Idle
    BY BackIs, AtStartIs
  <2> HIDE DEF t
  <2>2. s.seq[q].fsm = Faulted => Calmer(s, t) /\ t.power = s.power
    BY <2>1 DEF Calmer, SameButSeq, R
  <2> QED BY <2>2 DEF t
<1> QED BY <1>2, <1>3, <1>4

LEMMA BatteryToOff ==
  ASSUME NEW s, IsState(s)
  PROVE  Calmer(s, OffHandled(s, Battery)) /\ OffHandled(s, Battery).power = s.power
<1>1. OffHandled(s, Battery) = IF s.off.fsm = Faulted THEN WithOffFsm(s, Idle) ELSE s
  BY BatteryIs DEF OffHandled, WithOffFsm
<1>2. Calmer(s, s)
  BY DEF Calmer
<1>3. Calmer(s, WithOffFsm(s, Idle)) /\ WithOffFsm(s, Idle).power = s.power
  <2> DEFINE t == WithOffFsm(s, Idle)
  <2>1. SameButOff(s, t) /\ t.off.fsm = Idle
    BY OffFsmIs DEF Idle
  <2> HIDE DEF t
  <2>2. Calmer(s, t) /\ t.power = s.power
    BY <2>1 DEF Calmer, SameButOff, R
  <2> QED BY <2>2 DEF t
<1> QED BY <1>1, <1>2, <1>3

WithLocked(s) == [s EXCEPT !.locked = TRUE]
LEMMA LockedIs ==
  ASSUME NEW s, IsState(s)
  PROVE  Calmer(s, WithLocked(s)) /\ WithLocked(s).locked = TRUE
<1> DEFINE t == WithLocked(s)
<1>1. t = [s EXCEPT !.locked = TRUE]
  BY DEF WithLocked
<1> HIDE DEF t
<1>2. Shaped(s)
  BY DEF IsState
<1>3. /\ Shaped(t) /\ t.queue = s.queue /\ t.power = s.power /\ t.seq = s.seq /\ t.off = s.off /\ t.can = s.can
      /\ t.granted = s.granted /\ t.locked = TRUE
  BY <1>1, <1>2 DEF Shaped
<1>4. IsState(t)
  BY <1>3 DEF IsState, Typed
<1>5. Calmer(s, t) /\ t.locked = TRUE
  BY <1>3, <1>4 DEF Calmer, R
<1> QED BY <1>5 DEF t

LEMMA BatteryToPower ==
  ASSUME NEW s, IsState(s), s.power.fsm # FAULT
  PROVE  Calmer(s, PowerHandled(s, Battery)) /\ PowerHandled(s, Battery).locked = TRUE
<1> DEFINE t == WithFault(s, FAULT, FAULT, s.power.previous)
           u == Transmitted(t, "DISCHARGE", {})
           v == WithLocked(u)
<1>1. PowerHandled(s, Battery) = PowerFaulted(s, Battery.data = 1)
  BY BatteryIs DEF PowerHandled
<1>2. PowerFaulted(s, Battery.data = 1) = v
  BY BatteryIs DEF PowerFaulted, WithFault, WithLocked
<1>3. s.power.previous \in PowerStates /\ FAULT \in PowerStates
  BY PowerTyped, PowerStatesAre
<1>4. SameButPower(s, t) /\ t.power.fsm = FAULT
  BY <1>3, FaultIs
<1>5. IsState(t)
  BY <1>4 DEF SameButPower
<1>6. Pushed(t, u, TxEvent)
  BY <1>5, TransmittedIs
<1>7. IsState(u)
  BY <1>6 DEF Pushed
<1>8. Calmer(u, v) /\ v.locked = TRUE
  BY <1>7, LockedIs
<1> HIDE DEF t, u, v
<1>9. Calmer(s, u)
  BY <1>4, <1>6 DEF Calmer, SameButPower, Pushed, SameRest, R
<1>10. Calmer(s, v) /\ v.locked = TRUE
  BY <1>8, <1>9, CalmerThenCalmer
<1> QED BY <1>1, <1>2, <1>10

LEMMA BatteryLocks ==
  ASSUME NEW s, IsState(s), s.power.fsm # FAULT
  PROVE  Calmer(s, Handled(s, Battery)) /\ Handled(s, Battery).locked = TRUE
<1> DEFINE a == SequenceHandled(s, "main", Battery)
           b == SequenceHandled(a, "aux", Battery)
           c == OffHandled(b, Battery)
           d == PowerHandled(c, Battery)
<1>1. "main" \in PowerOn /\ "aux" \in PowerOn
  BY DEF PowerOn
<1>2. Calmer(s, a) /\ a.power = s.power
  BY <1>1, BatteryToSequence
<1>3. IsState(a)
  BY <1>2 DEF Calmer
<1>4. Calmer(a, b) /\ b.power = a.power
  BY <1>1, <1>3, BatteryToSequence
<1>5. IsState(b)
  BY <1>4 DEF Calmer
<1>6. Calmer(b, c) /\ c.power = b.power
  BY <1>5, BatteryToOff
<1>7. IsState(c) /\ c.power.fsm # FAULT
  BY <1>2, <1>4, <1>6 DEF Calmer
<1>8. Calmer(c, d) /\ d.locked = TRUE
  BY <1>7, BatteryToPower
<1>9. Handled(s, Battery) = d
  BY DEF Handled
<1> HIDE DEF a, b, c, d
<1>10. Calmer(s, b)
  BY <1>2, <1>4, CalmerThenCalmer
<1>11. Calmer(s, c)
  BY <1>6, <1>10, CalmerThenCalmer
<1>12. Calmer(s, d)
  BY <1>8, <1>11, CalmerThenCalmer
<1> QED BY <1>8, <1>9, <1>12

\* In its fault state the power FSM ignores it.
LEMMA BatteryAtFault ==
  ASSUME NEW s, IsState(s), InPhase(s), s.power.fsm = FAULT
  PROVE  Handled(s, Battery) = s
<1>1. ~Transits(s.power) /\ s.power.fsm \notin {OFF, MAIN, AUX}
  BY DEF Transits, FAULT, TRANSITIONING, OFF, MAIN, AUX
<1>2. ~OnPhase(N(s), R(s), s.power, s.seq, s.off, s.granted)
  BY <1>1 DEF OnPhase, Asking, Moving, Failing, Finished, Failed
<1>3. ~OffPhase(N(s), R(s), s.power, s.seq, s.off, s.granted)
  BY <1>1 DEF OffPhase, TurningTo
<1>4. Faulting(R(s), s.power, s.seq, s.off)
  BY <1>1, <1>2, <1>3 DEF InPhase, Phase, Resting, Beginning
<1>5. (\A q \in PowerOn : s.seq[q].fsm # Faulted) /\ s.off.fsm # Faulted
  <2>1. Idle # Faulted
    BY DEF Idle, Faulted
  <2>2. (\A q \in PowerOn : s.seq[q].fsm = Idle) /\ s.off.fsm = Idle
    BY <1>4, AtStartIs DEF Faulting, SeqsIdle
  <2> QED BY <2>1, <2>2
<1>6. Handled(s, Battery) = PowerHandled(s, Battery)
  BY <1>5, BatteryIs, HandledByPower
<1>7. FAULT # TRANSITIONING
  BY DEF FAULT, TRANSITIONING
<1>8. PowerHandled(s, Battery) = s
  BY <1>7, BatteryIs DEF PowerHandled
<1> QED BY <1>6, <1>8

-----------------------------------------------------------------------------
(* The main loop takes an event of the CAN stack or of the button            *)

WithTx(s, x, y) == [s EXCEPT !.can.tx = x, !.owed = y]
LEMMA TxIs ==
  ASSUME NEW s, IsState(s), NEW x, NEW y
  PROVE  LET t == WithTx(s, x, y)
         IN SameButRequests(s, t) /\ R(t) = R(s) /\ t.granted = s.granted
<1> DEFINE t == WithTx(s, x, y)
<1>1. t = [s EXCEPT !.can.tx = x, !.owed = y]
  BY DEF WithTx
<1> HIDE DEF t
<1>2. Shaped(s) /\ CanShaped(s.can)
  BY DEF IsState
<1>3. /\ Shaped(t) /\ CanShaped(t.can) /\ t.can.requests = s.can.requests
      /\ t.queue = s.queue /\ t.power = s.power /\ t.seq = s.seq /\ t.off = s.off
      /\ t.locked = s.locked /\ t.granted = s.granted
  BY <1>1, <1>2 DEF Shaped, CanShaped
<1>4. IsState(t)
  BY <1>3 DEF IsState, Typed
<1>5. SameButRequests(s, t) /\ R(t) = R(s) /\ t.granted = s.granted
  BY <1>3, <1>4 DEF SameButRequests, R
<1> QED BY <1>5 DEF t

WithRx(s, x) == [s EXCEPT !.can.rx = x]
LEMMA RxIs ==
  ASSUME NEW s, IsState(s), NEW x
  PROVE  LET t == WithRx(s, x)
         IN SameButRequests(s, t) /\ R(t) = R(s) /\ t.granted = s.granted
<1> DEFINE t == WithRx(s, x)
<1>1. t = [s EXCEPT !.can.rx = x]
  BY DEF WithRx
<1> HIDE DEF t
<1>2. Shaped(s) /\ CanShaped(s.can)
  BY DEF IsState
<1>3. /\ Shaped(t) /\ CanShaped(t.can) /\ t.can.requests = s.can.requests
      /\ t.queue = s.queue /\ t.power = s.power /\ t.seq = s.seq /\ t.off = s.off
      /\ t.locked = s.locked /\ t.granted = s.granted
  BY <1>1, <1>2 DEF Shaped, CanShaped
<1>4. IsState(t)
  BY <1>3 DEF IsState, Typed
<1>5. SameButRequests(s, t) /\ R(t) = R(s) /\ t.granted = s.granted
  BY <1>3, <1>4 DEF SameButRequests, R
<1> QED BY <1>5 DEF t

WithOwedRx(s, y, x) == [s EXCEPT !.owed = y, !.can.rx = x]
LEMMA OwedRxIs ==
  ASSUME NEW s, IsState(s), NEW y, NEW x
  PROVE  LET t == WithOwedRx(s, y, x)
         IN SameButRequests(s, t) /\ R(t) = R(s) /\ t.granted = s.granted
<1> DEFINE t == WithOwedRx(s, y, x)
<1>1. t = [s EXCEPT !.owed = y, !.can.rx = x]
  BY DEF WithOwedRx
<1> HIDE DEF t
<1>2. Shaped(s) /\ CanShaped(s.can)
  BY DEF IsState
<1>3. /\ Shaped(t) /\ CanShaped(t.can) /\ t.can.requests = s.can.requests
      /\ t.queue = s.queue /\ t.power = s.power /\ t.seq = s.seq /\ t.off = s.off
      /\ t.locked = s.locked /\ t.granted = s.granted
  BY <1>1, <1>2 DEF Shaped, CanShaped
<1>4. IsState(t)
  BY <1>3 DEF IsState, Typed
<1>5. SameButRequests(s, t) /\ R(t) = R(s) /\ t.granted = s.granted
  BY <1>3, <1>4 DEF SameButRequests, R
<1> QED BY <1>5 DEF t

LEMMA SamePhase ==
  ASSUME NEW s, NEW t, InPhase(s), SameButRequests(s, t), R(t) = R(s), t.granted = s.granted
  PROVE  Leads(s, t)
<1>1. N(t) = N(s) /\ t.power = s.power /\ t.seq = s.seq /\ t.off = s.off /\ t.queue.highest = s.queue.highest
  BY DEF SameButRequests, N
<1>2. InPhase(t)
  BY <1>1 DEF InPhase
<1> QED BY <1>1, <1>2 DEF Leads, SameButRequests

LEMMA LeadsThenLeads ==
  ASSUME NEW s, NEW t, NEW u, Leads(s, t), Leads(t, u)
  PROVE  Leads(s, u)
BY DEF Leads

LEMMA NoiseTaken ==
  ASSUME NEW s, NEW u, Popped(s, u), InPhase(s), Head(N(s)) \in Noise
  PROVE  InPhase(u)
<1>1. N(s) # <<>> /\ N(u) = Tail(N(s)) /\ R(u) = R(s) /\ IsState(s)
  BY DEF Popped
<1>2. u.power = s.power /\ u.seq = s.seq /\ u.off = s.off /\ u.granted = s.granted
  BY DEF Popped, SameRest
<1>3. N(s) \in Seq(Events) /\ s.power.previous \in Int
  BY <1>1, StateQueue
<1>4. NoiseStep(N(s), N(u)) /\ CalmStep(N(s), N(u), R(s))
  BY <1>1 DEF NoiseStep, CalmStep
<1>5. Phase(N(s), R(s), s.power, s.seq, s.off, s.granted)
  BY DEF InPhase
<1>6. Phase(N(u), R(s), s.power, s.seq, s.off, s.granted)
  BY <1>3, <1>4, <1>5, NoisePhase
<1> QED BY <1>1, <1>2, <1>6 DEF InPhase

\* can_process_event keeps the phase.
LEMMA CanKeeps ==
  ASSUME NEW u, IsState(u), InPhase(u), NEW e
  PROVE  Leads(u, CanHandled(u, e))
<1>1. Leads(u, u)
  BY DEF Leads
<1>2. ASSUME NEW x, NEW y PROVE Leads(u, WithTx(u, x, y))
  <2>1. /\ SameButRequests(u, WithTx(u, x, y)) /\ R(WithTx(u, x, y)) = R(u)
        /\ WithTx(u, x, y).granted = u.granted
    BY TxIs
  <2> QED BY <2>1, SamePhase
<1>3. ASSUME NEW x, NEW ack PROVE Leads(u, AckHandled(WithRx(u, x), ack))
  <2> DEFINE t == WithRx(u, x)
  <2>1. SameButRequests(u, t) /\ R(t) = R(u) /\ t.granted = u.granted
    BY RxIs
  <2> HIDE DEF t
  <2>2. Leads(u, t)
    BY <2>1, SamePhase
  <2>3. IsState(t) /\ InPhase(t)
    BY <2>2 DEF Leads
  <2>4. Leads(t, AckHandled(t, ack))
    BY <2>3, AckKeeps
  <2>5. Leads(u, AckHandled(t, ack))
    BY <2>2, <2>4, LeadsThenLeads
  <2> QED BY <2>5 DEF t
<1>4. \/ CanHandled(u, e) = u
      \/ \E x, y : CanHandled(u, e) = WithTx(u, x, y)
      \/ \E x, ack : CanHandled(u, e) = AckHandled(WithRx(u, x), ack)
  <2> DEFINE y == u.owed \cup {[msg |-> Head(u.can.tx).msg, device |-> d] : d \in Head(u.can.tx).devices}
  <2>1. CanHandled(u, e) =
          CASE e.of = "can" /\ e.id = "TX" /\ u.can.tx # <<>> -> WithTx(u, Tail(u.can.tx), y)
            [] e.of = "can" /\ e.id = "RX" /\ u.can.rx # <<>> -> AckHandled(WithRx(u, Tail(u.can.rx)), Head(u.can.rx))
            [] OTHER -> u
    BY DEF CanHandled, WithTx, WithRx
  <2> HIDE DEF y
  <2>2. "TX" # "RX"
    OBVIOUS
  <2> QED BY <2>1, <2>2
<1> QED BY <1>1, <1>2, <1>3, <1>4

\* A press turned into a request.
LEMMA RequestRaised ==
  ASSUME NEW s, NEW u, Popped(s, u), InPhase(s), Head(N(s)) \in Buttons, s.power.current \in {OFF, AUX, MAIN},
         NEW id \in DOMAIN Destination
  PROVE  Leads(u, Raised(u, "power", id, 0))
<1> DEFINE e == PowerRequest(id)
           t == Raised(u, "power", id, 0)
<1>1. /\ IsState(s) /\ IsState(u) /\ N(s) # <<>> /\ N(u) = Tail(N(s)) /\ R(u) = R(s)
      /\ u.power = s.power /\ u.seq = s.seq /\ u.off = s.off /\ u.granted = s.granted
  BY DEF Popped, SameRest
<1>2. ~Transits(s.power) /\ s.power.current # FAULT
  BY DEF Transits, FAULT, TRANSITIONING, OFF, MAIN, AUX
<1>3. ~OnPhase(N(s), R(s), s.power, s.seq, s.off, s.granted)
  BY <1>2 DEF OnPhase, Asking, Moving, Failing, Finished, Failed
<1>4. ~OffPhase(N(s), R(s), s.power, s.seq, s.off, s.granted)
  BY <1>2 DEF OffPhase, TurningTo
<1>5. Resting(R(s), s.power, s.seq, s.off) /\ RestQueue(N(s), R(s))
  BY <1>2, <1>3, <1>4 DEF InPhase, Phase, Faulting, Beginning
<1>6. N(s) \in Seq(Events) /\ Head(N(s)) \in Live
  BY <1>1, StateQueue DEF Live
<1>7. AllIn(N(u), Noise \cup (PowerRequests \cup Stale)) /\ LiveAfter(N(u), R(s), {}) /\ R(s) = <<>>
  BY <1>1, <1>5, <1>6, PopAllIn, PopLive DEF RestQueue
<1>8. "power" \in Ofs /\ id \in Ids /\ 0 \in Int
  BY DestinationFacts DEF Ofs, Ids
<1>9. Pushed(u, t, e)
  BY <1>1, <1>8, RaisedIs DEF PowerRequest
<1>10. e \in PowerRequests
  BY DEF PowerRequests
<1> HIDE DEF t, e
<1>11. e \in Events /\ e \notin Stale
  BY <1>10, EventFacts
<1>12. N(u) \in Seq(Events)
  BY <1>1, StateQueue
<1>13. AllIn(Append(N(u), e), Noise \cup (PowerRequests \cup Stale))
  BY <1>7, <1>10, <1>11, <1>12, AddAllIn
<1>14. LiveAfter(Append(N(u), e), R(s), {})
  BY <1>7, <1>11, <1>12, AddLive
<1>15. /\ IsState(t) /\ N(t) = Append(N(u), e) /\ R(t) = R(s) /\ t.power = s.power /\ t.seq = s.seq /\ t.off = s.off
       /\ t.queue.highest = u.queue.highest /\ t.locked = u.locked
  BY <1>1, <1>9 DEF Pushed, SameRest
<1>16. InPhase(t)
  BY <1>5, <1>13, <1>14, <1>15 DEF InPhase, Phase, RestQueue
<1>17. Leads(u, t)
  BY <1>15, <1>16 DEF Leads
<1> QED BY <1>17 DEF t

LEMMA ButtonKeeps ==
  ASSUME NEW s, NEW u, Popped(s, u), InPhase(s), Head(N(s)) \in Buttons, NEW pressed \in BOOLEAN, NEW parked \in BOOLEAN
  PROVE  Leads(u, ButtonHandled(u, Head(N(s)), pressed, parked))
<1>1. IsState(u) /\ u.power = s.power
  BY DEF Popped, SameRest
<1>2. InPhase(u)
  BY NoiseTaken, EventFacts
<1>3. Leads(u, u)
  BY <1>1, <1>2 DEF Leads
<1>4. \/ ButtonHandled(u, Head(N(s)), pressed, parked) = u
      \/ /\ s.power.current \in {OFF, AUX, MAIN}
         /\ \E id \in {"OFF", "ON_MAIN", "ON_AUX"} : ButtonHandled(u, Head(N(s)), pressed, parked) = Raised(u, "power", id, 0)
  BY <1>1 DEF ButtonHandled
<1> QED BY <1>3, <1>4, RequestRaised, DestinationFacts

-----------------------------------------------------------------------------
(* The steps                                                                 *)

LEMMA StateIs ==
  ASSUME NEW s, s = State
  PROVE  /\ s.queue = queue /\ s.power = power /\ s.seq = seq /\ s.off = off /\ s.can = can
         /\ s.owed = owed /\ s.locked = locked /\ s.granted = granted
BY DEF State

LEMMA BecomeIs ==
  ASSUME NEW s, Shaped(s), Become(s)
  PROVE  State' = s
BY DEF State, Become, Shaped

\* The inductive invariant; a board that is locked up does nothing any more.
IInv ==
  /\ IsState(State) /\ State.queue.highest \in Seq({Event("power", "FAULT", 1)})
  /\ Safe(State)
  /\ ~State.locked => InPhase(State)

\* The fields of a state have the types of TypeOK.
LEMMA StateTypeOK ==
  ASSUME NEW s, s = State, IsState(s), Safe(s)
  PROVE  TypeOK
<1>1. s.power = power /\ s.seq = seq /\ s.off = off /\ s.can = can
  BY StateIs
<1>2. power \in [fsm : 0 .. 4, current : 0 .. 4, previous : 0 .. 4, destination : 0 .. 4]
  <2>1. /\ power = [fsm |-> power.fsm, current |-> power.current, previous |-> power.previous,
                    destination |-> power.destination]
        /\ power.fsm \in PowerStates /\ power.current \in PowerStates
        /\ power.previous \in PowerStates /\ power.destination \in PowerStates
    BY <1>1, PowerTyped DEF IsState, PowerShaped
  <2> QED BY <2>1 DEF PowerStates
<1>3. ASSUME NEW q \in DOMAIN seq
      PROVE  /\ seq[q].fsm \in -1 .. Len(Steps[q]) + 1
             /\ seq[q].step \in 1 .. Len(Steps[q]) + 1
             /\ seq[q].acks \in [DOMAIN Steps[q] -> 0 .. 2]
  <2>1. q \in PowerOn
    BY <1>1, <1>3 DEF IsState, SeqShaped
  <2>2. CellTyped(seq[q], q)
    BY <1>1, <2>1 DEF IsState, Typed
  <2> QED BY <2>2 DEF CellTyped, Final
<1>4. off.fsm \in -1 .. 4 /\ off.retries \in 0 .. Retries - 1
  BY <1>1 DEF IsState, Typed
<1>5. Len(can.requests) =< 1
  BY <1>1 DEF Safe, RequestsIn, R
<1> QED BY <1>2, <1>3, <1>4, <1>5 DEF TypeOK

\* A safe state has the properties.
LEMMA SafeState ==
  ASSUME NEW s, s = State, IsState(s), Safe(s)
  PROVE  OneSequence /\ RequestsInStep /\ StepsConfirmed
<1>1. s.power = power /\ s.seq = seq /\ s.off = off /\ s.granted = granted /\ R(s) = can.requests
  BY StateIs DEF R
<1>2. Running(s) = InProgress
  BY <1>1 DEF Running, InProgress
<1>3. OneSequence
  BY <1>1, <1>2 DEF Safe, OneIn, OneSequence
<1>4. StepsConfirmed
  BY <1>1 DEF Safe, ConfirmedIn, StepsConfirmed
<1>5. ASSUME NEW i \in DOMAIN can.requests, can.requests[i].from \in DOMAIN seq
      PROVE  seq[can.requests[i].from].fsm = can.requests[i].step /\ seq[can.requests[i].from].step = can.requests[i].step
  <2>1. can.requests[i].from \in PowerOn
    BY <1>1, <1>5 DEF IsState, SeqShaped
  <2> QED BY <1>1, <2>1 DEF Safe, RequestsIn
<1>6. RequestsInStep
  BY <1>5, StateTypeOK DEF RequestsInStep
<1> QED BY <1>3, <1>4, <1>6

LEMMA InvKept ==
  ASSUME NEW s, Become(s), IsState(s), s.queue.highest \in Seq({Event("power", "FAULT", 1)}), Safe(s),
         ~s.locked => InPhase(s)
  PROVE  IInv'
<1>1. Shaped(s)
  BY DEF IsState
<1>2. State' = s
  BY <1>1, BecomeIs
<1> QED BY <1>2 DEF IInv

LEMMA LeadsKeeps ==
  ASSUME IInv, NEW s, s = State, NEW t, Leads(s, t), Become(t)
  PROVE  IInv'
<1>1. t.queue.highest = s.queue.highest /\ IsState(t) /\ InPhase(t)
  BY DEF Leads
<1>2. s.queue.highest \in Seq({Event("power", "FAULT", 1)})
  BY DEF IInv
<1>3. Safe(t)
  BY <1>1, PhaseSafe
<1> QED BY <1>1, <1>2, <1>3, InvKept

\* The state without the event at the head of the queue.
WithNormal(s, x) == [s EXCEPT !.queue.normal = x]
WithHighest(s, x) == [s EXCEPT !.queue.highest = x]

LEMMA NormalIs ==
  ASSUME NEW s, IsState(s), NEW x \in Seq(Events)
  PROVE  /\ IsState(WithNormal(s, x)) /\ N(WithNormal(s, x)) = x /\ R(WithNormal(s, x)) = R(s)
         /\ SameRest(s, WithNormal(s, x))
<1> DEFINE t == WithNormal(s, x)
<1>1. t = [s EXCEPT !.queue.normal = x]
  BY DEF WithNormal
<1> HIDE DEF t
<1>2. Shaped(s) /\ QueueShaped(s.queue)
  BY DEF IsState
<1>3. /\ Shaped(t) /\ QueueShaped(t.queue) /\ t.queue.normal = x /\ t.queue.highest = s.queue.highest
      /\ t.power = s.power /\ t.seq = s.seq /\ t.off = s.off /\ t.can = s.can
      /\ t.locked = s.locked /\ t.granted = s.granted
  BY <1>1, <1>2 DEF Shaped, QueueShaped
<1>4. IsState(t)
  BY <1>3 DEF IsState, Typed
<1>5. IsState(t) /\ N(t) = x /\ R(t) = R(s) /\ SameRest(s, t)
  BY <1>3, <1>4 DEF N, R, SameRest
<1> QED BY <1>5 DEF t

LEMMA HighestIs ==
  ASSUME NEW s, IsState(s), NEW x
  PROVE  LET t == WithHighest(s, x)
         IN /\ IsState(t) /\ N(t) = N(s) /\ R(t) = R(s) /\ t.queue.highest = x
            /\ t.power = s.power /\ t.seq = s.seq /\ t.off = s.off /\ t.locked = s.locked /\ t.granted = s.granted
<1> DEFINE t == WithHighest(s, x)
<1>1. t = [s EXCEPT !.queue.highest = x]
  BY DEF WithHighest
<1> HIDE DEF t
<1>2. Shaped(s) /\ QueueShaped(s.queue)
  BY DEF IsState
<1>3. /\ Shaped(t) /\ QueueShaped(t.queue) /\ t.queue.normal = s.queue.normal /\ t.queue.highest = x
      /\ t.power = s.power /\ t.seq = s.seq /\ t.off = s.off /\ t.can = s.can
      /\ t.locked = s.locked /\ t.granted = s.granted
  BY <1>1, <1>2 DEF Shaped, QueueShaped
<1>4. IsState(t)
  BY <1>3 DEF IsState, Typed
<1>5. /\ IsState(t) /\ N(t) = N(s) /\ R(t) = R(s) /\ t.queue.highest = x
      /\ t.power = s.power /\ t.seq = s.seq /\ t.off = s.off /\ t.locked = s.locked /\ t.granted = s.granted
  BY <1>3, <1>4 DEF N, R
<1> QED BY <1>5 DEF t

\* One round of the main loop, for the event e.
Round(u, e, pressed, parked) == ButtonHandled(Handled(CanHandled(u, e), e), e, pressed, parked)

LEMMA RoundIs ==
  ASSUME MainLoop, NEW s, s = State
  PROVE  /\ ~s.locked
         /\ \/ /\ s.queue.highest # <<>>
               /\ \E pressed, parked \in BOOLEAN :
                    Become(Round(WithHighest(s, Tail(s.queue.highest)), Head(s.queue.highest), pressed, parked))
            \/ /\ N(s) # <<>>
               /\ \E pressed, parked \in BOOLEAN :
                    Become(Round(WithNormal(s, Tail(N(s))), Head(N(s)), pressed, parked))
<1>1. s.queue = queue /\ s.locked = locked
  BY StateIs
<1>2. CASE queue.highest # <<>>
  <2>1. \E pressed, parked \in BOOLEAN :
          Become(Round([s EXCEPT !.queue["highest"] = Tail(@)], Head(queue["highest"]), pressed, parked))
    BY <1>2, Zenon DEF MainLoop, Round, Handled
  <2>2. [s EXCEPT !.queue["highest"] = Tail(@)] = WithHighest(s, Tail(s.queue.highest))
    BY DEF WithHighest
  <2>3. Head(queue["highest"]) = Head(s.queue.highest)
    BY <1>1
  <2> QED BY <1>1, <1>2, <2>1, <2>2, <2>3 DEF MainLoop
<1>3. CASE queue.highest = <<>>
  <2>1. \E pressed, parked \in BOOLEAN :
          Become(Round([s EXCEPT !.queue["normal"] = Tail(@)], Head(queue["normal"]), pressed, parked))
    BY <1>3, Zenon DEF MainLoop, Round, Handled
  <2>2. [s EXCEPT !.queue["normal"] = Tail(@)] = WithNormal(s, Tail(N(s)))
    BY DEF WithNormal, N
  <2>3. Head(queue["normal"]) = Head(N(s))
    BY <1>1 DEF N
  <2>4. N(s) # <<>>
    BY <1>1, <1>3 DEF MainLoop, N
  <2> QED BY <1>1, <2>1, <2>2, <2>3, <2>4 DEF MainLoop
<1> QED BY <1>2, <1>3

LEMMA MainLoopKeeps ==
  ASSUME IInv, MainLoop
  PROVE  IInv'
<1>1. PICK s : s = State
  OBVIOUS
<1>2. /\ IsState(s) /\ s.queue.highest \in Seq({Battery}) /\ (~s.locked => InPhase(s)) /\ Safe(s)
  BY <1>1 DEF IInv, Battery
<1>3. ~s.locked
  BY <1>1, RoundIs
<1>4. IsState(s) /\ InPhase(s)
  BY <1>2, <1>3
<1>5. ASSUME NEW pressed \in BOOLEAN, NEW parked \in BOOLEAN, s.queue.highest # <<>>,
             Become(Round(WithHighest(s, Tail(s.queue.highest)), Head(s.queue.highest), pressed, parked))
      PROVE  IInv'
  <2> DEFINE h == Tail(s.queue.highest)
             u == WithHighest(s, h)
  <2>1. Head(s.queue.highest) = Battery /\ h \in Seq({Battery})
    BY <1>2, <1>5
  <2>2. /\ IsState(u) /\ N(u) = N(s) /\ R(u) = R(s) /\ u.queue.highest = h
        /\ u.power = s.power /\ u.seq = s.seq /\ u.off = s.off /\ u.locked = s.locked /\ u.granted = s.granted
    BY <1>4, HighestIs
  <2> HIDE DEF h, u
  <2>3. CanHandled(u, Battery) = u
    BY BatteryIs, CanQuiet
  <2>4. \A t : ButtonHandled(t, Battery, pressed, parked) = t
    BY BatteryIs, ButtonQuiet
  <2>5. PICK v : v = Handled(u, Battery)
    OBVIOUS
  <2>6. Become(v)
    BY <1>5, <2>1, <2>3, <2>4, <2>5 DEF Round, u, h
  <2>7. InPhase(u)
    BY <1>4, <2>2 DEF InPhase
  <2>8. Safe(u)
    BY <2>2, <2>7, PhaseSafe
  <2>9. CASE s.power.fsm = FAULT
    <3>1. v = u
      BY <2>2, <2>5, <2>7, <2>9, BatteryAtFault
    <3> QED BY <2>1, <2>2, <2>6, <2>7, <2>8, <3>1, InvKept DEF Battery
  <2>10. CASE s.power.fsm # FAULT
    <3>1. Calmer(u, v) /\ v.locked = TRUE
      BY <2>2, <2>5, <2>10, BatteryLocks
    <3>2. Safe(v)
      BY <2>2, <2>8, <3>1, CalmerSafe
    <3>3. IsState(v) /\ v.queue.highest \in Seq({Event("power", "FAULT", 1)})
      BY <2>1, <2>2, <3>1 DEF Calmer, Battery
    <3> QED BY <2>6, <3>1, <3>2, <3>3, InvKept
  <2> QED BY <2>9, <2>10
<1>6. ASSUME NEW pressed \in BOOLEAN, NEW parked \in BOOLEAN, N(s) # <<>>,
             Become(Round(WithNormal(s, Tail(N(s))), Head(N(s)), pressed, parked))
      PROVE  IInv'
  <2> DEFINE e == Head(N(s))
             u == WithNormal(s, Tail(N(s)))
  <2>1. Tail(N(s)) \in Seq(Events)
    BY <1>4, <1>6, StateQueue
  <2>2. Popped(s, u)
    BY <1>4, <1>6, <2>1, NormalIs DEF Popped
  <2>3. e \in Noise \cup Control /\ e = Head(N(s))
    BY <1>4, <1>6, HeadIsKnown
  <2>4. Become(Round(u, e, pressed, parked))
    BY <1>6
  <2> HIDE DEF e, u
  <2>5. IsState(u) /\ u.queue.highest = s.queue.highest /\ u.locked = s.locked
    BY <2>2 DEF Popped, SameRest
  <2>6. Leads(u, Round(u, e, pressed, parked))
    <3>1. CASE e \in Control
      <4>1. e.of # "can" /\ e.of # "button"
        BY <3>1 DEF Control
      <4>2. Round(u, e, pressed, parked) = Handled(u, e)
        BY <4>1, CanQuiet, ButtonQuiet DEF Round
      <4> QED BY <1>4, <2>2, <2>3, <3>1, <4>2, ControlKeeps
    <3>2. CASE e \in CanEvents
      <4>1. e \in Noise /\ e.of # "button"
        BY <3>2, EventFacts DEF CanEvents, Event
      <4>2. Round(u, e, pressed, parked) = CanHandled(u, e)
        BY <4>1, HandledByNone, ButtonQuiet DEF Round
      <4>3. InPhase(u)
        BY <1>4, <2>2, <2>3, <4>1, NoiseTaken
      <4> QED BY <2>5, <4>2, <4>3, CanKeeps
    <3>3. CASE e \in Buttons
      <4>1. e \in Noise /\ e.of # "can"
        BY <3>3, EventFacts DEF Buttons, Event
      <4>2. Round(u, e, pressed, parked) = ButtonHandled(u, e, pressed, parked)
        BY <4>1, HandledByNone, CanQuiet DEF Round
      <4> QED BY <1>4, <2>2, <2>3, <3>3, <4>2, ButtonKeeps
    <3> QED BY <2>3, <3>1, <3>2, <3>3 DEF Noise
  <2>7. PICK v : v = Round(u, e, pressed, parked)
    OBVIOUS
  <2>8. Leads(s, v)
    BY <2>5, <2>6, <2>7 DEF Leads
  <2>9. Become(v)
    BY <2>4, <2>7
  <2> QED BY <1>1, <2>8, <2>9, LeadsKeeps
<1> QED BY <1>1, <1>5, <1>6, RoundIs

LEMMA TimeoutKeepsInv ==
  ASSUME IInv, Timeout
  PROVE  IInv'
<1>1. PICK s : s = State
  OBVIOUS
<1>2. /\ s.can = can /\ s.locked = locked
  BY <1>1, StateIs
<1>3. IsState(s) /\ InPhase(s) /\ R(s) # <<>>
  BY <1>1, <1>2 DEF IInv, Timeout, R
<1>4. PICK n : n = Cardinality(Head(R(s)).waiting)
  OBVIOUS
<1>5. PICK t : t = Called(s, Head(R(s)), "TIMEOUT", n)
  OBVIOUS
<1>6. PICK y : y = {a \in t.owed : a.msg # Head(R(s)).msg}
  OBVIOUS
<1>7. PICK v : v = WithRequestsOwed(t, Tail(R(t)), y)
  OBVIOUS
<1>8. Become([t EXCEPT !.can.requests = Tail(@), !.owed = {a \in @ : a.msg # Head(R(s)).msg}])
  BY <1>1, <1>2, <1>4, <1>5 DEF Timeout, R
<1>9. [t EXCEPT !.can.requests = Tail(@), !.owed = {a \in @ : a.msg # Head(R(s)).msg}] = v
  BY <1>6, <1>7 DEF WithRequestsOwed, R
<1>10. Leads(s, v)
  BY <1>3, <1>5, <1>7, TimeoutKeeps
<1> QED BY <1>1, <1>8, <1>9, <1>10, LeadsKeeps

\* An event of noise raised by an interrupt.
LEMMA NoiseRaised ==
  ASSUME NEW s, IsState(s), InPhase(s), NEW t, NEW e \in Noise, Pushed(s, t, e),
         \/ e \in CanEvents
         \/ Resting(R(s), s.power, s.seq, s.off) \/ Faulting(R(s), s.power, s.seq, s.off) => R(s) = <<>>
  PROVE  Leads(s, t)
<1>1. N(t) = Append(N(s), e) /\ R(t) = R(s) /\ SameRest(s, t) /\ IsState(t)
  BY DEF Pushed
<1>2. N(s) \in Seq(Events) /\ s.power.previous \in Int
  BY StateQueue
<1>3. NoiseStep(N(s), N(t))
  BY <1>1 DEF NoiseStep
<1>4. Resting(R(s), s.power, s.seq, s.off) \/ Faulting(R(s), s.power, s.seq, s.off) => CalmStep(N(s), N(t), R(s))
  BY <1>1 DEF CalmStep
<1>5. Phase(N(s), R(s), s.power, s.seq, s.off, s.granted)
  BY DEF InPhase
<1>6. Phase(N(t), R(s), s.power, s.seq, s.off, s.granted)
  BY <1>2, <1>3, <1>4, <1>5, NoisePhase
<1>7. t.power = s.power /\ t.seq = s.seq /\ t.off = s.off /\ t.granted = s.granted /\ t.locked = s.locked
  BY <1>1 DEF SameRest
<1>8. InPhase(t)
  BY <1>1, <1>6, <1>7 DEF InPhase
<1> QED BY <1>1, <1>7, <1>8 DEF Leads, SameRest

LEMMA AnswerKeeps ==
  ASSUME IInv, NEW a, NEW status, Answer(a, status)
  PROVE  IInv'
<1>1. PICK s : s = State
  OBVIOUS
<1>2. s.locked = locked
  BY <1>1, StateIs
<1>3. IsState(s) /\ InPhase(s)
  BY <1>1, <1>2 DEF IInv, Answer
<1>4. PICK y : y = s.owed \ {a}
  OBVIOUS
<1>5. PICK x : x = Append(s.can.rx, [msg |-> a.msg, device |-> a.device, status |-> status])
  OBVIOUS
<1>6. PICK t : t = WithOwedRx(s, y, x)
  OBVIOUS
<1>7. PICK v : v = Raised(t, "can", "RX", 0)
  OBVIOUS
<1>8. Become(v)
  BY <1>1, <1>4, <1>5, <1>6, <1>7 DEF Answer, WithOwedRx
<1>9. SameButRequests(s, t) /\ R(t) = R(s) /\ t.granted = s.granted
  BY <1>3, <1>6, OwedRxIs
<1>10. Leads(s, t)
  BY <1>3, <1>9, SamePhase
<1>11. IsState(t) /\ InPhase(t)
  BY <1>10 DEF Leads
<1>12. Pushed(t, v, Event("can", "RX", 0))
  BY <1>7, <1>11, RaisedIs DEF Ofs, Ids
<1>13. Event("can", "RX", 0) \in CanEvents /\ Event("can", "RX", 0) \in Noise
  BY DEF CanEvents, Noise
<1>14. Leads(t, v)
  BY <1>11, <1>12, <1>13, NoiseRaised
<1>15. Leads(s, v)
  BY <1>10, <1>14, LeadsThenLeads
<1> QED BY <1>1, <1>8, <1>15, LeadsKeeps

\* A request that an off sequence leaves behind is no longer active, and waits for its timeout.
LEMMA PressPowerKeeps ==
  ASSUME IInv, PressPower
  PROVE  IInv'
<1>1. PICK s : s = State
  OBVIOUS
<1>2. s.locked = locked /\ s.off = off /\ s.can = can /\ s.seq = seq
  BY <1>1, StateIs
<1>3. IsState(s) /\ InPhase(s)
  BY <1>1, <1>2 DEF IInv, PressPower
<1>4. PICK v : v = Raised(s, "button", "POWER", 0)
  OBVIOUS
<1>5. Become(v)
  BY <1>1, <1>4 DEF PressPower
<1>6. Pushed(s, v, Event("button", "POWER", 0))
  BY <1>3, <1>4, RaisedIs DEF Ofs, Ids
<1>7. Event("button", "POWER", 0) \in Noise
  BY DEF Buttons, Noise
<1>8. ASSUME OffOnly(R(s)), s.off.fsm = Idle PROVE R(s) = <<>>
  <2>1. ASSUME NEW W, R(s) = <<OffRequest(W)>> PROVE FALSE
    <3>1. DOMAIN can.requests = {1} /\ can.requests[1] = OffRequest(W)
      BY <1>2, <2>1 DEF R
    <3>2. Active(OffRequest(W).from)
      BY <3>1 DEF PressPower
    <3>3. OffRequest(W).from = "off" /\ "off" \notin DOMAIN seq
      BY <1>2, <1>3 DEF OffRequest, Request, IsState, SeqShaped, PowerOn
    <3> QED BY <1>2, <1>8, <3>2, <3>3 DEF Active
  <2> QED BY <1>8, <2>1 DEF OffOnly
<1>9. Resting(R(s), s.power, s.seq, s.off) \/ Faulting(R(s), s.power, s.seq, s.off) => R(s) = <<>>
  BY <1>8 DEF Resting, Faulting
<1>10. Leads(s, v)
  BY <1>3, <1>6, <1>7, <1>9, NoiseRaised
<1> QED BY <1>1, <1>5, <1>10, LeadsKeeps

LEMMA BpsFaultKeeps ==
  ASSUME IInv, BpsFault
  PROVE  IInv'
<1>1. PICK s : s = State
  OBVIOUS
<1>2. /\ s.queue = queue /\ s.power = power /\ s.seq = seq /\ s.off = off /\ s.can = can
      /\ s.owed = owed /\ s.locked = locked /\ s.granted = granted
  BY <1>1, StateIs
<1>3. IsState(s) /\ InPhase(s) /\ s.queue.highest \in Seq({Battery})
  BY <1>1, <1>2 DEF IInv, BpsFault, Battery
<1>4. PICK h : h = Append(s.queue.highest, Battery)
  OBVIOUS
<1>5. PICK v : v = WithHighest(s, h)
  OBVIOUS
<1>6. Become(v)
  <2>1. Shaped(s)
    BY <1>3 DEF IsState
  <2>2. /\ v.queue = [s.queue EXCEPT !.highest = h] /\ v.power = s.power /\ v.seq = s.seq /\ v.off = s.off
        /\ v.can = s.can /\ v.owed = s.owed /\ v.locked = s.locked /\ v.granted = s.granted
    BY <1>5, <2>1 DEF WithHighest, Shaped
  <2>3. [s.queue EXCEPT !.highest = h] = [queue EXCEPT !.highest = Append(@, Event("power", "FAULT", 1))]
    BY <1>2, <1>4 DEF Battery
  <2> QED BY <1>2, <2>2, <2>3 DEF BpsFault, Become
<1>7. /\ IsState(v) /\ N(v) = N(s) /\ R(v) = R(s) /\ v.queue.highest = h
      /\ v.power = s.power /\ v.seq = s.seq /\ v.off = s.off /\ v.locked = s.locked /\ v.granted = s.granted
  BY <1>3, <1>5, HighestIs
<1>8. InPhase(v)
  BY <1>3, <1>7 DEF InPhase
<1>9. h \in Seq({Battery})
  BY <1>3, <1>4
<1>10. Safe(v)
  BY <1>7, <1>8, PhaseSafe
<1> QED BY <1>6, <1>7, <1>8, <1>9, <1>10, InvKept DEF Battery

LEMMA InitIInv ==
  ASSUME Init
  PROVE  IInv
<1>1. PICK s : s = State
  OBVIOUS
<1>2. /\ s.queue = [highest |-> <<>>, normal |-> <<>>]
      /\ s.power = [fsm |-> OFF, current |-> OFF, previous |-> TRANSITIONING, destination |-> TRANSITIONING]
      /\ s.seq = [q \in PowerOn |-> SequenceAtStart(q)]
      /\ s.off = [fsm |-> Idle, retries |-> 0]
      /\ s.can = [tx |-> <<>>, rx |-> <<>>, requests |-> <<>>]
      /\ s.locked = FALSE
  BY <1>1, StateIs DEF Init, PowerOn
<1>3. Shaped(s)
  BY <1>1 DEF State, Shaped
<1>4. s.queue.normal = <<>> /\ s.queue.highest = <<>> /\ QueueShaped(s.queue)
  BY <1>2 DEF QueueShaped
<1>5. /\ s.power.fsm = OFF /\ s.power.current = OFF /\ s.power.previous = TRANSITIONING
      /\ s.power.destination = TRANSITIONING /\ PowerShaped(s.power)
  BY <1>2 DEF PowerShaped
<1>6. s.off.fsm = Idle /\ s.off.retries = 0 /\ OffShaped(s.off)
  BY <1>2 DEF OffShaped
<1>7. s.can.requests = <<>> /\ CanShaped(s.can)
  BY <1>2 DEF CanShaped
<1>8. SeqShaped(s.seq) /\ SeqsIdle(s.seq) /\ \A q \in PowerOn : CellTyped(s.seq[q], q)
  BY <1>2, AtStartIs DEF SeqShaped, SeqsIdle
<1>9. Idle \in -1 .. 4 /\ 0 \in 0 .. Retries - 1 /\ <<>> \in Seq(Events) /\ <<>> \in Seq({Event("power", "FAULT", 1)})
  BY ConsoleAssumption DEF Idle
<1>10. Typed(s)
  BY <1>4, <1>5, <1>6, <1>8, <1>9, PowerStatesAre DEF Typed
<1>11. IsState(s)
  BY <1>3, <1>4, <1>5, <1>6, <1>7, <1>8, <1>10 DEF IsState
<1>12. Resting(R(s), s.power, s.seq, s.off)
  BY <1>5, <1>6, <1>7, <1>8, OffOnlyNone DEF Resting, R
<1>13. AllIn(N(s), Noise)
  BY <1>4 DEF AllIn, N
<1>14. RestQueue(N(s), R(s))
  BY <1>7, <1>13, RestFromNoise DEF R
<1>15. InPhase(s)
  BY <1>12, <1>14 DEF InPhase, Phase
<1>16. Safe(s)
  BY <1>11, <1>15, PhaseSafe
<1> QED BY <1>1, <1>4, <1>9, <1>11, <1>15, <1>16 DEF IInv

LEMMA NextKeeps ==
  ASSUME IInv, [Next]_vars
  PROVE  IInv'
<1>1. ASSUME NEW a \in owed, NEW status \in {"OK", "INVALID"}, Answer(a, status) PROVE IInv'
  BY <1>1, AnswerKeeps
<1>2. CASE MainLoop
  BY <1>2, MainLoopKeeps
<1>3. CASE Timeout
  BY <1>3, TimeoutKeepsInv
<1>4. CASE PressPower
  BY <1>4, PressPowerKeeps
<1>5. CASE BpsFault
  BY <1>5, BpsFaultKeeps
<1>6. CASE UNCHANGED vars
  <2>1. State' = State
    BY <1>6 DEF State, vars
  <2> QED BY <2>1 DEF IInv
<1> QED BY <1>1, <1>2, <1>3, <1>4, <1>5, <1>6 DEF Next

LEMMA AlwaysInPhase == Spec => []IInv
<1>1. Init => IInv
  BY InitIInv
<1>2. IInv /\ [Next]_vars => IInv'
  BY NextKeeps
<1> QED BY <1>1, <1>2, PTL DEF Spec

LEMMA InvIsSafe ==
  ASSUME IInv
  PROVE  OneSequence /\ RequestsInStep /\ StepsConfirmed
<1>1. PICK s : s = State
  OBVIOUS
<1> QED BY <1>1, SafeState DEF IInv

\* Whatever buttons are pressed, whichever boards answer or stay silent and wherever a battery
\* protection fault comes in between (main.c, power_fsm.c), at most one power sequence is under
\* way, and one only while the power FSM is in transition or in its fault state.
THEOREM AlwaysOneSequence == Spec => []OneSequence
<1>1. IInv => OneSequence
  BY InvIsSafe
<1> QED BY <1>1, AlwaysInPhase, PTL

\* The state keeps its type, and the request a power-on sequence waits for is always that of the
\* step its FSM is in, so that no answer is counted for another step and no lookup goes past the
\* tables of steps (power_main_sequence.c, power_aux_sequence.c).
THEOREM RequestsAlwaysInStep == Spec => []RequestsInStep
<1>1. IInv => RequestsInStep
  BY InvIsSafe
<1> QED BY <1>1, AlwaysInPhase, PTL

\* No step of a power sequence is entered before the boards of every earlier step have confirmed
\* it in the same attempt: the relays are not closed before the battery is known to be good, nor
\* opened before the power distributions are off (power_main_sequence.c, power_aux_sequence.c,
\* power_off_sequence.c).
THEOREM StepsAlwaysConfirmed == Spec => []StepsConfirmed
<1>1. IInv => StepsConfirmed
  BY InvIsSafe
<1> QED BY <1>1, AlwaysInPhase, PTL
=============================================================================
