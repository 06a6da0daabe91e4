------------------------------- MODULE CanAck -------------------------------
(***************************************************************************)
(* libraries/ms-common/src/can_ack.c: the table of pending ACK requests.   *)
(*                                                                         *)
(* A request lives in a node of an object pool, is listed in the array     *)
(* active_requests and is watched by a soft timer.  The main loop adds     *)
(* requests and handles received ACKs; the timer interrupt expires         *)
(* requests and also adds some (periodic transmissions, retries started    *)
(* from an expiry callback).  Nothing masks the interrupt while the main   *)
(* loop works on the table, so the main loop's two operations are broken   *)
(* into the steps between which it can strike, while the interrupt runs to *)
(* its end in one step.  `PreemptPoints' are the main-loop steps before    *)
(* which the interrupt may strike: all of them on the hardware.  Some of   *)
(* these strikes do damage, and `torn' remembers the first one.            *)
(***************************************************************************)
EXTENDS Integers, FiniteSets, FiniteSetsExt

CONSTANTS Capacity,       \* CAN_ACK_MAX_REQUESTS
          TimerIds,       \* soft timer identifiers, 0 included
          Messages,       \* critical message identifiers, 0 included
          Devices,        \* CAN devices
          Requests,       \* <<message, expected devices>> that users transmit
          PreemptPoints   \* main-loop steps the timer interrupt may precede

\* "lost": the board is gone, by a jump to NULL or a memmove over the whole memory.
Points == {"idle", "start", "append", "store", "check", "read", "mark", "test", "call",
           "reject", "cancel", "free", "decrement", "move", "clear", "lost"}

ASSUME CapacityAssumption == Capacity \in Nat \ {0}
ASSUME IdsAssumption == /\ IsFiniteSet(TimerIds) /\ TimerIds \subseteq Nat /\ 0 \in TimerIds
                        /\ Messages \subseteq Nat /\ 0 \in Messages /\ IsFiniteSet(Devices)
ASSUME RequestsAssumption == Requests \subseteq Messages \X ((SUBSET Devices) \ {{}})
ASSUME PointsAssumption == /\ PreemptPoints \subseteq Points \ {"lost"}
                           /\ "idle" \in PreemptPoints

Nodes == 1 .. Capacity      \* request_nodes, in pool order
NoNode == 0                 \* NULL

VARIABLES
  free,       \* nodes whose bit is set in the pool's free_bitset
  node,       \* contents of request_nodes
  active,     \* active_requests
  num,        \* num_requests
  timers,     \* per soft timer: "none", "ack" (started here) or "other" (another module's)
  main,       \* the main loop's call in progress: program point and local variables
  ended,      \* how often each request in use reported its end to its callback (history)
  torn        \* an interrupt changed what the main loop was working on (history)

table == <<free, node, active, num>>
vars == <<table, timers, main, ended, torn>>

\* What memset leaves in a freed node: message 0, timer 0, empty bitsets.
Cleared == [msg |-> 0, expected |-> {}, response |-> {}, timer |-> 0]

AtRest == [at |-> "idle", node |-> NoNode, index |-> 1, msg |-> 0, device |-> NoNode,
           last |-> FALSE]

Init ==
  /\ free = Nodes
  /\ node = [n \in Nodes |-> Cleared]
  /\ active = [i \in Nodes |-> NoNode]
  /\ num = 0
  /\ timers = [t \in TimerIds |-> "none"]
  /\ main = AtRest
  /\ ended = [n \in Nodes |-> 0]
  /\ torn = FALSE

FreeTimers(tm) == {t \in TimerIds : tm[t] = "none"}
Remaining(n) ==
  Cardinality((node[n].response \ node[n].expected) \cup (node[n].expected \ node[n].response))

-----------------------------------------------------------------------------
(* Operations that run without interruption: a table is a record            *)
(* [free, node, active, num, timers, ended].                                *)

Table == [free |-> free, node |-> node, active |-> active, num |-> num,
          timers |-> timers, ended |-> ended]

BecomesTable(t) ==
  /\ free' = t.free
  /\ node' = t.node
  /\ active' = t.active
  /\ num' = t.num
  /\ timers' = t.timers
  /\ ended' = t.ended

\* An entry of the array is written; what a write behind its end hits is not followed up: only
\* a table already torn comes to it.
Put(act, i, n) == [k \in Nodes |-> IF k = i THEN n ELSE act[k]]

\* can_ack_add_request: a node and a timer are taken, or nothing happens.
Added(t, msg, devices) ==
  IF t.free = {} \/ FreeTimers(t.timers) = {} THEN t
  ELSE LET n  == Min(t.free)
           id == Min(FreeTimers(t.timers))
       IN [t EXCEPT !.free = @ \ {n},
                    !.node[n] = [msg |-> msg, expected |-> devices, response |-> {}, timer |-> id],
                    !.timers[id] = "ack",
                    !.active = Put(@, t.num + 1, n),
                    !.num = @ + 1,
                    !.ended[n] = 0]

\* What a callback may leave of a table: it may transmit once more, itself asking for an ACK.
AfterTransmits(t) == {t} \cup {Added(t, r[1], r[2]) : r \in Requests}

\* Mutant: the memmove starts one entry late.
Shifted_one_late(act, i, count) ==
  [k \in Nodes |-> IF i < k /\ k =< count /\ k < Capacity THEN act[k + 1] ELSE act[k]]

\* The memmove over the entry at index i, once num counts one request less.
Shifted(act, i, count) ==
  [k \in Nodes |-> IF i =< k /\ k =< count /\ k < Capacity THEN act[k + 1] ELSE act[k]]

\* Mutant: the node is cleared before its timer is read.
Removed_timer_after_free(t, i, n) ==
  LET count == t.num - 1
  IN [t EXCEPT !.free = @ \cup {n},
               !.node[n] = Cleared,
               !.timers[Cleared.timer] = "none",
               !.num = count,
               !.active = Put(Shifted(t.active, i, count), count + 1, NoNode)]

\* The tail of prv_update_req for the request n found at index i.
Removed(t, i, n) ==
  LET count == t.num - 1
  IN [t EXCEPT !.timers[t.node[n].timer] = "none",
               !.free = @ \cup {n},
               !.node[n] = Cleared,
               !.num = count,
               !.active = Put(Shifted(t.active, i, count), count + 1, NoNode)]

-----------------------------------------------------------------------------
(* Main loop: can_ack_add_request                                           *)

Goto(p) == main' = [main EXCEPT !.at = p]
Return == main' = AtRest

can_ack_add_request ==
  /\ main.at = "idle"
  /\ free # {}
  /\ \E r \in Requests :
       LET n == Min(free)
       IN /\ free' = free \ {n}
          /\ node' = [node EXCEPT ![n] = [msg |-> r[1], expected |-> r[2],
                                          response |-> {}, timer |-> 0]]
          /\ main' = [AtRest EXCEPT !.at = "start", !.node = n]
  /\ UNCHANGED <<active, num, timers, ended, torn>>

\* Mutant: the new timer's id is not stored in the request.
StartTimer_id_not_stored ==
  /\ main.at = "start"
  /\ FreeTimers(timers) # {}
  /\ timers' = [timers EXCEPT ![Min(FreeTimers(timers))] = "ack"]
  /\ Goto("append")
  /\ UNCHANGED <<free, node, active, num, ended, torn>>

StartTimer ==
  /\ main.at = "start"
  /\ IF FreeTimers(timers) = {}
     THEN /\ free' = free \cup {main.node}
          /\ node' = [node EXCEPT ![main.node] = Cleared]
          /\ Return
          /\ UNCHANGED timers
     ELSE LET id == Min(FreeTimers(timers))
          IN /\ timers' = [timers EXCEPT ![id] = "ack"]
             /\ node' = [node EXCEPT ![main.node].timer = id]
             /\ Goto("append")
             /\ UNCHANGED free
  /\ UNCHANGED <<active, num, ended, torn>>

LoadCount ==
  /\ main.at = "append"
  /\ main' = [main EXCEPT !.at = "store", !.index = num + 1]
  /\ UNCHANGED <<table, timers, ended, torn>>

StoreRequest ==
  /\ main.at = "store"
  /\ active' = [active EXCEPT ![main.index] = main.node]
  /\ num' = main.index
  /\ ended' = [ended EXCEPT ![main.node] = 0]
  /\ Return
  /\ UNCHANGED <<free, node, timers, torn>>

-----------------------------------------------------------------------------
(* Main loop: can_ack_handle_msg, that is prv_update_req for a device       *)

can_ack_handle_msg ==
  /\ main.at = "idle"
  /\ \E m \in Messages, d \in Devices :
       main' = [AtRest EXCEPT !.at = "check", !.msg = m, !.device = d]
  /\ UNCHANGED <<table, timers, ended, torn>>

CheckIndex ==
  /\ main.at = "check"
  /\ IF main.index =< num THEN Goto("read") ELSE Return
  /\ UNCHANGED <<table, timers, ended, torn>>

ReadRequest ==
  /\ main.at = "read"
  /\ LET n == active[main.index]
     IN IF n # NoNode /\ node[n].msg = main.msg
             /\ main.device \in node[n].expected \ node[n].response
        THEN main' = [main EXCEPT !.at = "mark", !.node = n]
        ELSE main' = [main EXCEPT !.at = "check", !.index = @ + 1]
  /\ UNCHANGED <<table, timers, ended, torn>>

MarkResponse ==
  /\ main.at = "mark"
  /\ node' = [node EXCEPT ![main.node].response = @ \cup {main.device}]
  /\ Goto("test")
  /\ UNCHANGED <<free, active, num, timers, ended, torn>>

\* A request in use expects somebody and has a callback; a cleared node has neither.
TestCallback ==
  /\ main.at = "test"
  /\ main' = IF node[main.node].expected = {}
             THEN [main EXCEPT !.at = "cancel"]
             ELSE [main EXCEPT !.at = "call", !.last = Remaining(main.node) = 0]
  /\ UNCHANGED <<table, timers, ended, torn>>

\* The callback accepts the ACK or not; a rejected ACK counts as not received.  An ACK carries
\* the status its sender's handler returned, which no board sets to TIMEOUT, so a complete set
\* of ACKs and an expiry are told apart by the status alone (can_ack.c:96-101).  After a strike
\* the pointer may be the one tested, of a request that is gone, or be read again: from a node
\* in use once more, or as NULL from a cleared one.
RunCallback ==
  /\ main.at = "call"
  /\ \E accepted, own, null \in BOOLEAN, t \in AfterTransmits(Table) :
       /\ own \/ torn
       /\ null => node[main.node].expected = {} /\ t = Table
       /\ BecomesTable(IF accepted /\ own /\ main.last /\ ~null
                       THEN [t EXCEPT !.ended[main.node] = @ + 1] ELSE t)
       /\ Goto(IF null THEN "lost" ELSE IF accepted THEN "cancel" ELSE "reject")
  /\ UNCHANGED torn

RejectAck ==
  /\ main.at = "reject"
  /\ node' = [node EXCEPT ![main.node].response = @ \ {main.device}]
  /\ Goto("cancel")
  /\ UNCHANGED <<free, active, num, timers, ended, torn>>

\* Mutant: a request whose ACKs are complete is left in the list.
CancelTimer_never ==
  /\ main.at = "cancel"
  /\ Return
  /\ UNCHANGED <<table, timers, ended, torn>>

CancelTimer ==
  /\ main.at = "cancel"
  /\ LET n == main.node
     IN IF node[n].response = node[n].expected
        THEN timers' = [timers EXCEPT ![node[n].timer] = "none"] /\ Goto("free")
        ELSE Return /\ UNCHANGED timers
  /\ UNCHANGED <<table, ended, torn>>

FreeNode ==
  /\ main.at = "free"
  /\ free' = free \cup {main.node}
  /\ node' = [node EXCEPT ![main.node] = Cleared]
  /\ Goto("decrement")
  /\ UNCHANGED <<active, num, timers, ended, torn>>

\* An entry too many taken off makes the size_t wrap, and the memmove does not end.
Decrement ==
  /\ main.at = "decrement"
  /\ IF num = 0 THEN Goto("lost") /\ UNCHANGED num
               ELSE Goto("move") /\ num' = num - 1
  /\ UNCHANGED <<free, node, active, timers, ended, torn>>

MoveRequests ==
  /\ main.at = "move"
  /\ active' = Shifted(active, main.index, num)
  /\ Goto(IF main.index > num + 1 THEN "lost" ELSE "clear")
  /\ UNCHANGED <<free, node, num, timers, ended, torn>>

\* Behind the array lies num_requests itself.
ClearLast ==
  /\ main.at = "clear"
  /\ IF num = Capacity THEN num' = 0 /\ UNCHANGED active
                      ELSE active' = [active EXCEPT ![num + 1] = NoNode] /\ UNCHANGED num
  /\ Return
  /\ UNCHANGED <<free, node, timers, ended, torn>>

MainStep ==
  \/ StartTimer \/ LoadCount \/ StoreRequest
  \/ CheckIndex \/ ReadRequest \/ MarkResponse \/ TestCallback \/ RunCallback \/ RejectAck
  \/ CancelTimer \/ FreeNode \/ Decrement \/ MoveRequests \/ ClearLast

-----------------------------------------------------------------------------
(* Timer interrupt                                                          *)

Interrupt == main.at \in PreemptPoints /\ main' = main

\* Steps before which the list or its length is half updated, so that no request may be added
\* or removed.
HalfDone == {"store", "free", "decrement", "move", "clear"}

\* Steps before which the main loop holds an entry: it and those before it may not be removed.
Holding == {"read", "mark", "test", "call", "reject", "cancel"}

\* Mutant: the search stops before the last entry.
EntryOf_short(t) ==
  LET hits == {i \in 1 .. num - 1 : active[i] # NoNode /\ node[active[i]].timer = t}
  IN IF hits = {} THEN 0 ELSE Min(hits)

\* The entry prv_update_req finds for a timer, 0 if none.
EntryOf(t) ==
  LET hits == {i \in 1 .. num : active[i] # NoNode /\ node[active[i]].timer = t}
  IN IF hits = {} THEN 0 ELSE Min(hits)

\* Mutant: the callback hears of the timeout, the request stays until its ACKs come.
prv_timeout_cb_keeps_request(t) ==
  /\ Interrupt
  /\ timers[t] = "ack"
  /\ ~(main.at \in {"append", "store"} /\ node[main.node].timer = t)
  /\ LET i == EntryOf(t)
         n == active[i]
     IN /\ IF i = 0 \/ Remaining(n) = 0
           THEN BecomesTable([Table EXCEPT !.timers[t] = "none"])
           ELSE BecomesTable([Table EXCEPT !.ended[n] = @ + 1, !.timers[t] = "none"])
        /\ torn' = (torn \/ main.at \in HalfDone \/ (main.at \in Holding /\ i =< main.index))

\* What the callback of the request n makes of the table when it hears of the timeout.
ToldTimeout(n) ==
  IF node[n].expected = {} THEN {Table} ELSE AfterTransmits([Table EXCEPT !.ended[n] = @ + 1])

\* A request's timer expires: prv_timeout_cb, then the timer list drops the timer.  The 25 ms
\* are longer than the way of a request from StartTimer to StoreRequest.
prv_timeout_cb(t) ==
  /\ Interrupt
  /\ timers[t] = "ack"
  /\ ~(main.at \in {"append", "store"} /\ node[main.node].timer = t)
  /\ LET i == EntryOf(t)
         n == active[i]
     IN /\ IF i = 0 \/ (node[n].expected # {} /\ Remaining(n) = 0)
           THEN BecomesTable([Table EXCEPT !.timers[t] = "none"])
           ELSE \E after \in ToldTimeout(n) : BecomesTable(Removed(after, i, n))
        /\ torn' = (torn \/ main.at \in HalfDone \/ (main.at \in Holding /\ i =< main.index))

\* A periodic timer callback of another module transmits with an ACK request.
TransmitFromTimer ==
  /\ Interrupt
  /\ \E r \in Requests : BecomesTable(Added(Table, r[1], r[2]))
  /\ torn' = (torn \/ main.at \in HalfDone)

\* Other modules start timers and end them; ids are handed out lowest first.
OtherTimerStarts ==
  /\ Interrupt
  /\ FreeTimers(timers) # {}
  /\ timers' = [timers EXCEPT ![Min(FreeTimers(timers))] = "other"]
  /\ UNCHANGED <<table, ended, torn>>

OtherTimerEnds(t) ==
  /\ Interrupt
  /\ timers[t] = "other"
  /\ timers' = [timers EXCEPT ![t] = "none"]
  /\ UNCHANGED <<table, ended, torn>>

Next ==
  \/ can_ack_add_request
  \/ can_ack_handle_msg
  \/ MainStep
  \/ \E t \in TimerIds : prv_timeout_cb(t)
  \/ TransmitFromTimer
  \/ OtherTimerStarts
  \/ \E t \in TimerIds : OtherTimerEnds(t)

\* The main loop goes on, and a compare interrupt stays pending until it is taken.
Fairness ==
  /\ WF_vars(MainStep)
  /\ \A t \in TimerIds : SF_vars(prv_timeout_cb(t))

Spec == Init /\ [][Next]_vars /\ Fairness

-----------------------------------------------------------------------------
(* Properties *)

TypeOK ==
  /\ free \subseteq Nodes
  /\ node \in [Nodes -> [msg : Messages, expected : SUBSET Devices,
                         response : SUBSET Devices, timer : TimerIds]]
  /\ active \in [Nodes -> Nodes \cup {NoNode}]
  /\ num \in 0 .. Capacity
  /\ timers \in [TimerIds -> {"none", "ack", "other"}]
  /\ main \in [at : Points, node : Nodes \cup {NoNode}, index : 1 .. Capacity + 1,
               msg : Messages, device : Devices \cup {NoNode}, last : BOOLEAN]

InUse == Nodes \ free
Listed == {active[i] : i \in 1 .. num}

\* The main loop holds a node it has taken and not yet listed.
Adding == main.at \in {"start", "append", "store"}
\* The main loop is past freeing a node and has not yet closed the gap in the array.
Removing == main.at \in {"free", "decrement", "move", "clear"}

\* The properties that name `torn' hold until an interrupt strikes where it does damage.  TLC
\* finds the first two and EndedRequestsLeave violated without it.

\* The array lists every node in use once and nothing else, and its tail is NULL: no request
\* is lost by the shifting of the array, none is listed twice, no listed node can be handed
\* out again by the pool (can_ack.c:44, 111-125).
ListMatchesPool ==
  ~torn =>
    /\ TypeOK
    /\ ~Removing =>
         /\ \A i, j \in 1 .. num : active[i] = active[j] => i = j
         /\ Listed = InUse \ (IF Adding THEN {main.node} ELSE {})
         /\ \A i \in num + 1 .. Capacity : active[i] = NoNode

\* Every listed request has a running timer of its own, so it ends one way or the other, and
\* every timer started here belongs to a request (can_ack.c:36-44, 113).
EveryRequestWatched ==
  ~torn /\ ~Removing =>
    LET owners == Listed \cup (IF main.at \in {"append", "store"} THEN {main.node} ELSE {})
    IN /\ \A n, o \in owners : node[n].timer = node[o].timer => n = o
       /\ {node[n].timer : n \in owners} = {t \in TimerIds : timers[t] = "ack"}

\* A callback hears of the end of its request once: a complete set of ACKs or a timeout,
\* never both (can_ack.h:9-10, the callers count on it).
OneOutcome == ~torn => \A n \in Nodes : ended[n] =< 1

\* A request that has reported its end is not listed any more when the main loop takes up its
\* next call (can_ack.h:11-12).
EndedRequestsLeave ==
  ~torn /\ main.at = "idle" => \A i \in 1 .. num : active[i] # NoNode => ended[active[i]] = 0

\* "If the ACK has timed out or we've received the expected number of ACKs, we remove the
\* ACK request from the list" (can_ack.h:11-12): a request that is listed between two calls
\* of the main loop has not timed out, its timer is running.  No excuse: code bug.
TimedOutRequestsLeave ==
  main.at = "idle" => \A i \in 1 .. num : active[i] # NoNode => timers[node[active[i]].timer] = "ack"

\* The table never cancels a timer of another module (soft timer ids are reused).
OtherTimersUntouched ==
  [][\A t \in TimerIds :
       ~torn' /\ timers[t] = "other" /\ timers'[t] # "other" => OtherTimerEnds(t)]_vars

\* Every request leaves the table, by its ACKs or by its timeout.
EveryRequestEnds == \A n \in Nodes : n \in InUse ~> n \in free \/ torn
=============================================================================
