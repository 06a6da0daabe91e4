------------------------------ MODULE SoftTimer ------------------------------
(***************************************************************************)
(* libraries/ms-common/src/stm32f0xx/soft_timer.c: software timers over    *)
(* one free-running hardware counter.                                      *)
(*                                                                         *)
(* The running timers form a doubly linked list in order of expiry. An     *)
(* expiry is a counter value and the number of the counter's rollovers; a  *)
(* compare register set for the head of the list raises the interrupt that *)
(* runs the callbacks.  The counter moves on between any two steps.  How   *)
(* far, while an interrupt waits or runs, is bounded by `Latency'.         *)
(***************************************************************************)
EXTENDS Integers, FiniteSets, FiniteSetsExt

CONSTANTS TimerIds,       \* 0 .. SOFT_TIMER_MAX_TIMERS - 1
          Modulus,        \* values of the counter, 2^32 on the hardware
          MinTime,        \* SOFT_TIMER_MIN_TIME_US
          Offset,         \* the 10 us by which a timer may fire early
          Durations,      \* durations users ask for
          ExpiryValues,   \* counter values at which timers expire
          Latency,        \* bound: time that passes while an interrupt waits or runs
          StartTime,      \* value of the counter at the start
          Horizon         \* bound on the time

ASSUME TimersAssumption ==
  /\ IsFiniteSet(TimerIds) /\ TimerIds = 0 .. Cardinality(TimerIds) - 1 /\ TimerIds # {}
  /\ Modulus \in Nat /\ MinTime \in 1 .. Modulus - 1 /\ Offset \in 0 .. MinTime - 1
  /\ Durations \subseteq 0 .. Modulus - 1 /\ ExpiryValues \subseteq 0 .. Modulus - 1
  /\ Latency \in 0 .. Modulus - 1 /\ StartTime \in 0 .. Modulus - 1
  /\ Horizon \in Nat /\ StartTime =< Horizon

Null == -1

VARIABLES
  now,        \* time since the counter was at 0, rollovers included
  rollover,   \* rollover_count
  list,       \* s_timers.head and the links of s_storage, with the pool's free timers
  expiry,     \* per timer, expiry_us and expiry_rollover_count
  compare,    \* the compare register and whether the channel is enabled
  cc1, update,    \* pending interrupt flags: compare match, rollover
  handler,    \* where TIM2_IRQHandler is, "out" if it does not run
  starting,   \* the soft_timer_start of the main loop in progress
  lag,        \* time that has passed while an interrupt waited or ran
  deadline,   \* per running timer, when it should fire (history)
  misdated,   \* the running timers whose start read the counter and the rollover count of
              \* different eras (history)
  astray      \* whether the compare register was last set for a head that was misdated or whose
              \* time had passed, and waits for a later era (history)

histories == <<deadline, misdated, astray>>
vars == <<now, rollover, list, expiry, compare, cc1, update, handler, starting, lag, histories>>

NotStarting == [id |-> Null, count |-> 0, duration |-> 0, at |-> 0]
Unlinked == [next |-> Null, prev |-> Null]
Zeroed == [us |-> 0, era |-> 0]      \* what memset leaves in a freed timer

Init ==
  /\ now = StartTime
  /\ rollover = 0
  /\ list = [head |-> Null, link |-> [t \in TimerIds |-> Unlinked], free |-> TimerIds]
  /\ expiry = [t \in TimerIds |-> Zeroed]
  /\ compare = [at |-> 0, enabled |-> FALSE]
  /\ cc1 = FALSE /\ update = FALSE
  /\ handler = "out"
  /\ starting = NotStarting
  /\ lag = 0
  /\ deadline = [t \in TimerIds |-> 0]
  /\ misdated = {} /\ astray = FALSE

Counter == now % Modulus

\* The durations users ask for at this time.
Asked == {d \in Durations : (now + d) % Modulus \in ExpiryValues}

-----------------------------------------------------------------------------
(* The list                                                                 *)

\* Mutant: the rollover counts are not compared.
ExpiresBefore_no_era(a, b) == a.us < b.us

\* SOFT_TIMER_EXPIRES_BEFORE
ExpiresBefore(a, b) == a.era < b.era \/ (a.era = b.era /\ a.us < b.us)

\* The timers met when following the list from its head; Null after the last.
Walk(l) ==
  LET w[k \in 0 .. Cardinality(TimerIds)] ==
        IF k = 0 THEN l.head ELSE IF w[k - 1] = Null THEN Null ELSE l.link[w[k - 1]].next
  IN w

Inserted(l, ex, t) ==
  LET w    == Walk(l)
      k    == Min({i \in DOMAIN w : w[i] = Null \/ ~ExpiresBefore(ex[w[i]], ex[t])})
      next == w[k]
      prev == IF k = 0 THEN Null ELSE w[k - 1]
  IN [l EXCEPT !.head = IF prev = Null THEN t ELSE @,
               !.link = [u \in TimerIds |->
                           CASE u = t    -> [next |-> next, prev |-> prev]
                             [] u = prev -> [@[u] EXCEPT !.next = t]
                             [] u = next -> [@[u] EXCEPT !.prev = t]
                             [] OTHER    -> @[u]]]

\* Mutant: the next timer keeps its link to the removed one.
Removed_one_way(l, t) ==
  LET next == l.link[t].next
      prev == l.link[t].prev
  IN [head |-> IF t = l.head THEN next ELSE l.head,
      link |-> [u \in TimerIds |->
                  CASE u = t    -> Unlinked
                    [] u = prev -> [l.link[u] EXCEPT !.next = next]
                    [] OTHER    -> l.link[u]],
      free |-> l.free \cup {t}]

\* prv_remove_timer: unlinks a timer and gives it back to the pool, which clears it.
Removed(l, t) ==
  LET next == l.link[t].next
      prev == l.link[t].prev
  IN [head |-> IF t = l.head THEN next ELSE l.head,
      link |-> [u \in TimerIds |->
                  CASE u = t    -> Unlinked
                    [] u = prev -> [l.link[u] EXCEPT !.next = next]
                    [] u = next -> [l.link[u] EXCEPT !.prev = prev]
                    [] OTHER    -> l.link[u]],
      free |-> l.free \cup {t}]

\* The list, the expiries and the histories change together: a Timers record.
Timers == [list |-> list, expiry |-> expiry, compare |-> compare,
           deadline |-> deadline, misdated |-> misdated, astray |-> astray]

BecomeTimers(s) ==
  /\ list' = s.list
  /\ expiry' = s.expiry
  /\ compare' = s.compare
  /\ deadline' = s.deadline
  /\ misdated' = s.misdated
  /\ astray' = s.astray

\* The counter has rolled over and rollover_count not, or the other way round: a start interrupted
\* between its two reads, or made before the rollover is counted.
Misdates(count, at) == at # rollover * Modulus + count

\* The end of soft_timer_start for the timer t taken from the pool: `count' was read at time
\* `at', the rollover count is read now.
Started(s, t, count, duration, at) ==
  LET us == (count + duration) % Modulus
      ex == [s.expiry EXCEPT ![t] = [us |-> us, era |-> rollover + IF us < count THEN 1 ELSE 0]]
      l  == Inserted(s.list, ex, t)
  IN [list |-> l, expiry |-> ex,
      compare |-> IF l.head = t THEN [at |-> us, enabled |-> TRUE] ELSE s.compare,
      deadline |-> [s.deadline EXCEPT ![t] = at + duration],
      misdated |-> IF Misdates(count, at) THEN s.misdated \cup {t} ELSE s.misdated \ {t},
      astray |-> IF l.head = t THEN Misdates(count, at) \/ at + duration =< now ELSE s.astray]

Cancelled(s, t) ==
  [s EXCEPT !.list = Removed(s.list, t), !.expiry[t] = Zeroed, !.misdated = @ \ {t}]

\* A start that nothing interrupts; without a free timer it fails.
AfterStart(s, duration) ==
  IF duration < MinTime \/ s.list.free = {} THEN s
  ELSE LET t == Min(s.list.free)
       IN Started([s EXCEPT !.list.free = @ \ {t}], t, Counter, duration, now)

-----------------------------------------------------------------------------
(* Main loop                                                                *)

\* Nothing of the handler runs between the steps of the main loop's critical sections.  A start or
\* a cancel may find the interrupt pending, from the CAN interrupt, which has a higher priority.
MainRuns == handler = "out"

soft_timer_start(d) ==
  /\ MainRuns /\ starting = NotStarting
  /\ d \in Asked /\ d >= MinTime /\ list.free # {}
  /\ LET t == Min(list.free)
     IN /\ list' = [list EXCEPT !.free = @ \ {t}]
        /\ starting' = [id |-> t, count |-> Counter, duration |-> d, at |-> now]
  /\ UNCHANGED <<now, rollover, expiry, compare, cc1, update, handler, lag, histories>>

InsertStarted ==
  /\ MainRuns /\ starting # NotStarting
  /\ BecomeTimers(Started(Timers, starting.id, starting.count, starting.duration, starting.at))
  /\ starting' = NotStarting
  /\ UNCHANGED <<now, rollover, cc1, update, handler, lag>>

\* Users keep ids of timers that have fired, so any id but that of a start in progress is passed.
soft_timer_cancel(t) ==
  /\ MainRuns /\ starting = NotStarting
  /\ BecomeTimers(Cancelled(Timers, t))
  /\ UNCHANGED <<now, rollover, cc1, update, handler, starting, lag>>

-----------------------------------------------------------------------------
(* TIM2_IRQHandler                                                          *)

TIM2_IRQHandler ==
  /\ handler = "out"
  /\ \/ cc1 /\ handler' = "fire" /\ compare' = [compare EXCEPT !.enabled = FALSE]
     \/ ~cc1 /\ update /\ handler' = "update" /\ compare' = compare
  /\ UNCHANGED <<now, rollover, list, expiry, cc1, update, starting, lag, histories>>

\* Mutant: a timer for after the next rollover counts as expired.
Expired_no_era(t) == expiry[t].us =< (Counter + Offset) % Modulus

Expired(t) ==
  \/ expiry[t].era < rollover
  \/ expiry[t].era = rollover /\ expiry[t].us =< (Counter + Offset) % Modulus

\* What the callback of timer t may do: nothing, start a timer, cancel one, and, as an expired
\* ACK request does, cancel its own timer after starting another.
AfterCallback(t) ==
  {Timers} \cup {AfterStart(Timers, d) : d \in Asked}
    \cup {Cancelled(Timers, u) : u \in TimerIds \ {starting.id}}
    \cup {Cancelled(AfterStart(Timers, d), t) : d \in Asked}

RunCallback(t) ==
  /\ handler = "fire"
  /\ t = list.head /\ Expired(t)
  /\ \E s \in AfterCallback(t) : BecomeTimers(Cancelled(s, t))
  /\ UNCHANGED <<now, rollover, cc1, update, handler, starting, lag>>

\* The compare value for the head of the list.  The era of the head is compared with that of
\* the first element of s_storage.
NextCompare ==
  LET least == (Counter + MinTime) % Modulus
      least_rolls == least < Counter
      head_rolls  == expiry[list.head].era > expiry[0].era
      us == expiry[list.head].us
  IN IF least_rolls = head_rolls THEN Max({us, least}) ELSE IF least_rolls THEN least ELSE us

\* The time of the head has passed, and is taken for one to come: it follows a rollover that is
\* not counted yet, or its era is later than that of the first element.
Misjudged ==
  LET e == expiry[list.head]
  IN e.era * Modulus + e.us =< now /\ (astray \/ update \/ e.era > expiry[0].era)

\* Mutant: the compare register is left as it was.
SetCompare_not_rearmed ==
  /\ handler = "fire"
  /\ list.head # Null => ~Expired(list.head)
  /\ compare' = IF list.head = Null THEN compare ELSE [compare EXCEPT !.enabled = TRUE]
  /\ cc1' = FALSE
  /\ handler' = "update"
  /\ astray' = (list.head # Null /\ Misjudged)
  /\ UNCHANGED <<now, rollover, list, expiry, update, starting, lag, deadline, misdated>>

SetCompare ==
  /\ handler = "fire"
  /\ list.head # Null => ~Expired(list.head)
  /\ compare' = IF list.head = Null THEN compare ELSE [at |-> NextCompare, enabled |-> TRUE]
  /\ cc1' = FALSE
  /\ handler' = "update"
  /\ astray' = (list.head # Null /\ Misjudged)
  /\ UNCHANGED <<now, rollover, list, expiry, update, starting, lag, deadline, misdated>>

CountRollover ==
  /\ handler = "update"
  /\ rollover' = IF update THEN rollover + 1 ELSE rollover
  /\ update' = FALSE
  /\ handler' = "out"
  /\ UNCHANGED <<now, list, expiry, compare, cc1, starting, lag, histories>>

-----------------------------------------------------------------------------
(* The counter (external)                                                   *)

Engaged == handler # "out" \/ cc1 \/ update \/ starting # NotStarting

\* A match sets the flag when the channel is enabled; the reference manual leaves open whether
\* it does otherwise.
Tick ==
  LET wraps == (now + 1) % Modulus = 0
      match == (now + 1) % Modulus = compare.at
  IN /\ now < Horizon
     /\ Engaged => lag < Latency
     /\ now' = now + 1
     /\ lag' = IF Engaged THEN lag + 1 ELSE 0
     /\ update' = (update \/ wraps)
     /\ IF match THEN cc1' \in {TRUE, cc1 \/ compare.enabled} ELSE cc1' = cc1
     /\ UNCHANGED <<rollover, list, expiry, compare, handler, starting, histories>>

Next ==
  \/ \E d \in Durations : soft_timer_start(d)
  \/ InsertStarted
  \/ \E t \in TimerIds : soft_timer_cancel(t)
  \/ TIM2_IRQHandler
  \/ \E t \in TimerIds : RunCallback(t)
  \/ SetCompare
  \/ CountRollover
  \/ Tick

Spec == Init /\ [][Next]_vars

-----------------------------------------------------------------------------
(* Properties *)

TypeOK ==
  /\ now \in StartTime .. Horizon /\ rollover \in Nat
  /\ list.head \in TimerIds \cup {Null} /\ list.free \subseteq TimerIds
  /\ list.link \in [TimerIds -> [next : TimerIds \cup {Null}, prev : TimerIds \cup {Null}]]
  /\ expiry \in [TimerIds -> [us : 0 .. Modulus - 1, era : Nat]]
  /\ compare \in [at : 0 .. Modulus - 1, enabled : BOOLEAN]
  /\ cc1 \in BOOLEAN /\ update \in BOOLEAN
  /\ handler \in {"out", "fire", "update"}
  /\ starting.id \in TimerIds \cup {Null}
  /\ lag \in 0 .. Latency
  /\ misdated \subseteq TimerIds /\ astray \in BOOLEAN

Running == TimerIds \ (list.free \cup {starting.id})

\* The list links exactly the running timers, forwards and backwards alike, so a cancel never
\* cuts off the timers behind the cancelled one (soft_timer.c:157-200).
ListLinksRunning ==
  LET w == Walk(list)
      met == {k \in DOMAIN w : w[k] # Null}
  IN /\ TypeOK
     /\ {w[k] : k \in met} = Running
     /\ Cardinality(met) = Cardinality(Running)
     /\ \A k \in met : list.link[w[k]].prev = IF k = 0 THEN Null ELSE w[k - 1]

\* The head of the list is the next timer to expire (soft_timer.c:1-3), over rollovers too: of two
\* neighbours in the list whose starts were not misdated the first is due first.
ListInOrder ==
  \A t \in Running \ misdated :
    LET u == list.link[t].next
    IN u # Null /\ u \notin misdated => deadline[t] =< deadline[u]

\* The callback of a timer whose start was not misdated runs at most Offset before its time, even
\* while the rollover count is behind.
NeverEarly ==
  [][\A t \in TimerIds \ misdated : RunCallback(t) => deadline[t] =< now + Offset]_vars

\* A timer that was not misdated is overdue by more than two minimum intervals (the second one when
\* the offset wraps and an expired timer counts as one to come) and the latency.
Late(t) == t \notin misdated /\ now > deadline[t] + 2 * MinTime + 2 * Latency

\* No running timer is late, except while the compare register is astray: it never waits for a
\* value that the counter has passed for another reason than those of Misjudged and Started.
OnTime == astray \/ \A t \in Running : ~Late(t)

\* As OnTime, but never excused: timers run their callbacks once the duration has passed. Checked
\* where no start is misdated and no handler finds a rollover that is not counted, so that what is
\* left is the comparison with the first element (soft_timer.c:232).
Punctual == \A t \in Running : ~Late(t)
=============================================================================
