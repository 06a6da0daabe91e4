----------------------------- MODULE CanDatagram -----------------------------
(***************************************************************************)
(* libraries/ms-common/src/can_datagram.c over watchdog.c, in a bootloader *)
(* board: commands of variable length received in CAN frames, answered by  *)
(* projects/bootloader/src/dispatcher.c.                                   *)
(*                                                                         *)
(* The FSM is driven by events that its own handlers raise; frames are     *)
(* handled between them and the watchdog raises its error from the timer   *)
(* interrupt, so an event may meet the FSM in another state than the one   *)
(* it was raised for.  A handler is one step: the interrupt only appends   *)
(* to the event queue.  The queue is large enough here, and the CRC tells  *)
(* any two datagrams apart.                                                *)
(***************************************************************************)
EXTENDS Integers, SequencesExt

CONSTANTS
  Commands,      \* sequence of datagrams a client sends: "ours", "theirs" or "unknown"
  AnswerLen,     \* bytes of data in the answer
  Lossy          \* whether frames may be lost

ASSUME DatagramAssumption ==
  /\ Commands \in Seq({"ours", "theirs", "unknown"})
  /\ AnswerLen \in Nat \ {0}
  /\ Lossy \in BOOLEAN

FrameLen == 8                \* CAN_BUFFER_SIZE
MaxCanTx == 4                \* MAX_CAN_TX
NoDog == -1                  \* SOFT_TIMER_INVALID_TIMER
DogIds == 0 .. 3             \* ids the soft timers hand out to the watchdog

VARIABLES
  dgram,    \* state of s_dgram_fsm, s_store, the lengths read and s_watchdog.timer_id
  fifo,     \* s_fifo: bytes, each by the datagram it is of and its position
  got,      \* bytes read of the datagram under way, from its version on
  queue,    \* events raised and not yet processed
  dogs,     \* ids of the watchdog's running timers
  bus,      \* frames on the way to the board
  client,   \* datagrams sent so far
  answer,   \* bytes transmitted of the answer, after its start message
  stray,    \* history: an rx event and an error were under way together
  residue,  \* history: bytes, a watchdog or an event were left when the last answer began
  handled   \* history: datagrams dispatched

datagramVars == <<dgram, fifo, got, queue, dogs, bus, client, answer, stray, residue, handled>>

-----------------------------------------------------------------------------
(* Datagrams                                                                *)

\* Sizes in bytes of a field; a command names one board and has one byte of data.
FieldLen(field, nodes, data) ==
  CASE field = "protocol_version" -> 1
    [] field = "crc"              -> 4
    [] field = "dgram_type"       -> 1
    [] field = "dst_len"          -> 1
    [] field = "dst"              -> nodes
    [] field = "data_len"         -> 2
    [] field = "data"             -> data

Fields == <<"protocol_version", "crc", "dgram_type", "dst_len", "dst", "data_len", "data">>
NextField(field) == Fields[CHOOSE i \in 2 .. 7 : Fields[i - 1] = field]

\* The bytes of the k-th datagram, by position.
Bytes(k, nodes, data) == [i \in 1 .. 9 + nodes + data |-> <<k, i>>]
Command(k) == Bytes(k, 1, 1)
Position == [protocol_version |-> 1, dst_len |-> 7, dst |-> 8, data_len |-> 9]

Start == <<>>                \* the frame that announces a datagram has no data
Frames(k) == <<Start, SubSeq(Command(k), 1, FrameLen), SubSeq(Command(k), FrameLen + 1, 11)>>

Addressed(k) == Commands[k] # "theirs"

-----------------------------------------------------------------------------
(* Watchdog: the id is forgotten by watchdog_start, not by an expiry         *)

\* watchdog_kick.
Kicked(d, running) ==
  LET rest == running \ {d.dog}
      free == CHOOSE i \in DogIds \ rest : \A j \in DogIds \ rest : i =< j
  IN [dgram |-> [d EXCEPT !.dog = free], dogs |-> rest \cup {free}]

\* Mutant: only the data frames start the watchdog.
WatchdogStart_by_data(d) == [dgram |-> [d EXCEPT !.dog = NoDog], dogs |-> dogs]

\* watchdog_start.
WatchdogStart(d) == Kicked([d EXCEPT !.dog = NoDog], dogs)

\* prv_rx_watchdog_expiry_cb, in the timer interrupt.
WatchdogExpires(i) ==
  /\ i \in dogs
  /\ dogs' = dogs \ {i}
  /\ queue' = Append(queue, "hard error")
  /\ UNCHANGED <<dgram, fifo, got, bus, client, answer, residue, handled>>

-----------------------------------------------------------------------------
(* Frames: can_datagram_rx                                                  *)

StartAccepted == dgram.listening /\ (dgram.status # "active" \/ dgram.soft)

ReceiveStart ==
  /\ bus # <<>> /\ Head(bus) = Start
  /\ bus' = Tail(bus)
  /\ IF StartAccepted
     THEN LET w == WatchdogStart([dgram EXCEPT !.status = "active", !.soft = FALSE])
          IN /\ dgram' = w.dgram /\ dogs' = w.dogs
             /\ queue' = Append(queue, "rx")
     ELSE UNCHANGED <<dgram, dogs, queue>>
  /\ UNCHANGED <<fifo, got, client, answer, residue, handled>>

\* The fifo holds more than all the frames sent here: it does not overflow.
ReceiveData ==
  /\ bus # <<>> /\ Head(bus) # Start
  /\ bus' = Tail(bus)
  /\ IF dgram.listening /\ dgram.status = "active"
     THEN LET w == Kicked(dgram, dogs)
          IN /\ dgram' = w.dgram /\ dogs' = w.dogs
             /\ fifo' = fifo \o Head(bus)
     ELSE UNCHANGED <<dgram, dogs, fifo>>
  /\ UNCHANGED <<got, queue, client, answer, residue, handled>>

FrameLost ==
  /\ Lossy /\ bus # <<>>
  /\ bus' = Tail(bus)
  /\ UNCHANGED <<dgram, fifo, got, queue, dogs, client, answer, residue, handled>>

\* The scripts of the client send a command once the frames of the last one are out, whether it
\* was answered or not.
ClientSends ==
  /\ bus = <<>> /\ client < Len(Commands)
  /\ client' = client + 1
  /\ bus' = Frames(client + 1)
  /\ UNCHANGED <<dgram, fifo, got, queue, dogs, answer, residue, handled>>

-----------------------------------------------------------------------------
(* The FSM                                                                  *)

Error == {"soft error", "hard error"}

Raised(e) == queue' = Append(Tail(queue), e)

\* A length or an address read where none was written: nothing, one, or more than will come.
Misread == {0, 1, 30}
Read(bytes, field) == IF bytes[1][2] = Position[field] THEN {1} ELSE Misread

\* Mutant: the CRC is not compared.
Checked_always(bytes) == TRUE

\* The CRC computed over what was read is the one read.
Checked(bytes) == \E k \in 1 .. client : bytes = Command(k)

\* The states of the rx side: the field is read once all its bytes are there.
ReadField(field) ==
  LET n == FieldLen(field, dgram.nodes, dgram.size)
      bytes == SubSeq(fifo, 1, n)
      d == [dgram EXCEPT !.fsm = "rx", !.field = field]
  IN IF Len(fifo) < n
     THEN /\ dgram' = d /\ Raised("repeat")
          /\ UNCHANGED <<fifo, got>>
     ELSE /\ fifo' = SubSeq(fifo, n + 1, Len(fifo))
          /\ got' = IF field = "protocol_version" THEN bytes ELSE got \o bytes
          /\ CASE field = "protocol_version" ->
                    /\ \E same \in IF bytes[1][2] = 1 THEN {TRUE} ELSE BOOLEAN :
                          Raised(IF same THEN "rx" ELSE "soft error")
                    /\ dgram' = d
               [] field = "dst_len" ->
                    /\ \E v \in Read(bytes, field) : dgram' = [d EXCEPT !.nodes = v]
                    /\ Raised("rx")
               [] field = "dst" ->
                    /\ \E mine \in IF n = 0 THEN {FALSE}
                                    ELSE IF n = 1 /\ bytes[1][2] = Position[field]
                                    THEN {Addressed(bytes[1][1])} ELSE BOOLEAN :
                          Raised(IF mine THEN "rx" ELSE "soft error")
                    /\ dgram' = d
               [] field = "data_len" ->
                    /\ \E v \in Read(bytes, field) : dgram' = [d EXCEPT !.size = v]
                    /\ Raised("rx")
               [] field = "data" ->
                    /\ Raised(IF Checked(got \o bytes) THEN "rx" ELSE "hard error")
                    /\ dgram' = d
               [] OTHER -> dgram' = d /\ Raised("rx")

Answer == Bytes(0, 0, AnswerLen)

\* Position in the answer of the last byte before a field.
Before(field) ==
  CASE field = "protocol_version" -> 0
    [] field = "crc"              -> 1
    [] field = "dgram_type"       -> 5
    [] field = "dst_len"          -> 6
    [] field \in {"dst", "data_len"} -> 7
    [] field = "data"             -> 9

\* prv_write_tx_buffer: a frame is transmitted once there are bytes for one.
Written(t, bytes) ==
  LET f == t.fifo \o bytes
  IN IF Len(f) < FrameLen THEN [t EXCEPT !.fifo = f]
     ELSE [fifo |-> SubSeq(f, FrameLen + 1, Len(f)), out |-> t.out \o SubSeq(f, 1, FrameLen)]

\* prv_tx_buffer: the bytes of the answer after one position up to another, a frame at a time.
Writes(from, to) == IF to = from THEN 1 ELSE (to - from + FrameLen - 1) \div FrameLen
Piece(i, from, to) ==
  SubSeq(Answer, from + FrameLen * (i - 1) + 1, IF i = Writes(from, to) THEN to ELSE from + FrameLen * i)
Transmitted(t, from, to) ==
  LET w[i \in 0 .. Writes(from, to)] == IF i = 0 THEN t ELSE Written(w[i - 1], Piece(i, from, to))
  IN w[Writes(from, to)]

\* Mutant: what is left after the data is not flushed.
Flushed_not(t) == t

Flushed(t) == [fifo |-> <<>>, out |-> t.out \o t.fifo]

\* The states of the tx side: MaxCanTx frames of the data at a time; the last one flushes what is left.
WriteField(field) ==
  LET from == Before(field) + IF field = "data" THEN dgram.sent ELSE 0
      end == Before(field) + FieldLen(field, 0, AnswerLen)
      whole == end - from =< MaxCanTx * FrameLen
      to == IF whole THEN end ELSE from + MaxCanTx * FrameLen
      written == Transmitted([fifo |-> fifo, out |-> answer], from, to)
      t == IF field = "data" /\ whole THEN Flushed(written) ELSE written
  IN /\ fifo' = t.fifo /\ answer' = t.out
     /\ dgram' = [dgram EXCEPT !.fsm = "tx", !.field = field,
                               !.sent = IF whole THEN 0 ELSE to - Before(field)]
     /\ Raised(IF whole THEN "tx" ELSE "repeat")
     /\ UNCHANGED got

\* prv_process_done: the event is raised again for the idle state.
Finish(e) ==
  /\ dgram' = [dgram EXCEPT !.fsm = "done", !.dog = NoDog]
  /\ dogs' = dogs \ {dgram.dog}
  /\ fifo' = IF e \in Error THEN <<>> ELSE fifo
  /\ Raised(e)

\* prv_dispatch: a command that has no callback is not answered.
Dispatch(answered) ==
  /\ handled' = Append(handled, got)
  /\ IF answered
     THEN /\ dgram' = [dgram EXCEPT !.fsm = "idle", !.listening = FALSE, !.status = "active"]
          /\ Raised("tx")
          /\ answer' = <<>>
          /\ residue' = (fifo # <<>> \/ dogs # {} \/ Len(queue) > 1)
     ELSE /\ dgram' = [dgram EXCEPT !.fsm = "idle", !.listening = FALSE, !.status = "rx complete"]
          /\ queue' = Tail(queue)
          /\ UNCHANGED <<answer, residue>>

\* prv_process_idle, with the callbacks of the dispatcher; a bootloader has no error callback.
Idle(e) ==
  CASE e = "rx" -> Dispatch(\E k \in 1 .. client : got = Command(k) /\ Commands[k] # "unknown")
    [] e = "tx" -> /\ dgram' = [dgram EXCEPT !.fsm = "idle", !.status = "tx complete", !.listening = TRUE]
                   /\ queue' = Tail(queue) /\ UNCHANGED <<answer, residue, handled>>
    [] e = "hard error" -> /\ dgram' = [dgram EXCEPT !.fsm = "idle", !.status = "error", !.listening = FALSE]
                           /\ queue' = Tail(queue) /\ UNCHANGED <<answer, residue, handled>>
    [] e = "soft error" -> /\ dgram' = [dgram EXCEPT !.fsm = "idle", !.soft = TRUE]
                           /\ queue' = Tail(queue) /\ UNCHANGED <<answer, residue, handled>>

RxEvent(e) ==
  /\ \/ dgram.fsm = "idle" /\ e = "rx" /\ ReadField("protocol_version")
     \/ dgram.fsm = "rx" /\ e = "repeat" /\ ReadField(dgram.field)
     \/ dgram.fsm = "rx" /\ e = "rx" /\ dgram.field # "data" /\ ReadField(NextField(dgram.field))
  /\ UNCHANGED <<dogs, answer, residue, handled>>

TxEvent(e) ==
  /\ \/ dgram.fsm = "idle" /\ e = "tx" /\ WriteField("protocol_version")
     \/ dgram.fsm = "tx" /\ e = "repeat" /\ WriteField(dgram.field)
     \/ dgram.fsm = "tx" /\ e = "tx" /\ dgram.field # "data" /\ WriteField(NextField(dgram.field))
  /\ UNCHANGED <<dogs, residue, handled>>

EndEvent(e) ==
  /\ \/ dgram.fsm \notin {"done"} /\ e \in Error
     \/ dgram.fsm \in {"rx", "tx"} /\ e = dgram.fsm /\ dgram.field = "data"
  /\ Finish(e)
  /\ UNCHANGED <<got, answer, residue, handled>>

IdleEvent(e) ==
  /\ dgram.fsm = "done" /\ e # "repeat"
  /\ Idle(e)
  /\ UNCHANGED <<fifo, got, dogs>>

\* fsm_process_event leaves an event without a transition.
NoTransition(e) ==
  /\ CASE dgram.fsm \in {"idle", "done"} -> e = "repeat"
       [] dgram.fsm = "rx" -> e = "tx"
       [] dgram.fsm = "tx" -> e = "rx"
  /\ queue' = Tail(queue)
  /\ UNCHANGED <<dgram, fifo, got, dogs, answer, residue, handled>>

can_datagram_process_event ==
  /\ queue # <<>>
  /\ LET e == Head(queue)
     IN RxEvent(e) \/ TxEvent(e) \/ EndEvent(e) \/ IdleEvent(e) \/ NoTransition(e)
  /\ UNCHANGED <<bus, client>>

-----------------------------------------------------------------------------

\* can_datagram_init, then dispatcher_init starts the listener.
DatagramInit ==
  /\ dgram = [fsm |-> "idle", field |-> "data", status |-> "idle", listening |-> TRUE,
              soft |-> FALSE, nodes |-> 0, size |-> 0, sent |-> 0, dog |-> NoDog]
  /\ fifo = <<>> /\ got = <<>> /\ queue = <<>> /\ dogs = {} /\ bus = <<>>
  /\ client = 0 /\ answer = <<>> /\ stray = FALSE /\ residue = FALSE /\ handled = <<>>

Mixed(events) == "rx" \in Range(events) /\ Error \cap Range(events) # {}

DatagramNext ==
  /\ \/ ClientSends \/ FrameLost \/ ReceiveStart \/ ReceiveData
     \/ \E i \in DogIds : WatchdogExpires(i)
     \/ can_datagram_process_event
  /\ stray' = (stray \/ Mixed(queue'))

DatagramSpec == DatagramInit /\ [][DatagramNext]_datagramVars

-----------------------------------------------------------------------------
(* Properties *)

\* What is dispatched is a command that was sent to this board, whole, and no command is
\* dispatched twice, whatever was lost or late, unless an event met the FSM astray
\* (can_datagram.c:455-470).
DispatchedWasSent ==
  ~stray =>
    /\ \A i \in DOMAIN handled : \E k \in 1 .. client : Addressed(k) /\ handled[i] = Command(k)
    /\ IsInjective(handled)

\* A reception under way is watched, so that it ends when its frames do not come
\* (can_datagram.c:584-598).
ReceptionWatched ==
  dgram.fsm = "rx" /\ dgram.status = "active" =>
    dogs # {} \/ ({"rx"} \cup Error) \cap Range(queue) # {}

\* An answer reported as transmitted is whole and holds nothing else, although it is cut into
\* frames and rounds, unless it began with something left of a reception: the fifo and the
\* watchdog are the ones the command was received with (can_datagram.c:361-376).
AnswerWhole == dgram.status = "tx complete" /\ ~residue => answer = Answer
=============================================================================
