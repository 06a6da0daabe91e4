-------------------------- MODULE BmsRelays_proofs ----------------------------
(***************************************************************************)
(* After a fault nothing closes a battery relay before the next command,   *)
(* for every number of soft timers, also when there are too few of them;   *)
(* and, with at least four, what is announced closed is sensed closed, and *)
(* what is sensed is what is expected unless an assertion is due or a      *)
(* fault raised.  Interrupts strike and commands come at any time; nothing *)
(* is said while the timers of two sequences are mixed.                    *)
(***************************************************************************)
EXTENDS BmsRelays, NaturalsInduction, WellFoundedInduction, TLAPS

\* Timers that take the next step of a sequence.
Steps == {"opened", "hv", "closed"}
Whats == Steps \cup {"none", "assert", "current", "heartbeat"}

Timers == {NoTimer} \cup [what : Whats \ {"none"}, left : Int]

\* The parts of bms that matter to the pins.
BmsTypes(s) ==
  /\ s = [pin |-> s.pin, on |-> s.on, want |-> s.want, assertion |-> s.assertion, next |-> s.next,
          periodic |-> s.periodic, faults |-> s.faults, timers |-> s.timers,
          faulted |-> s.faulted, confirmed |-> s.confirmed]
  /\ s.timers \in [TimerIds -> Timers]

\* The timer of the next step is the one whose id is kept, so it is the one a fault cancels.
NextIsKept(s) == \A i \in TimerIds : s.timers[i].what \in Steps => i = s.next

NoStep(s) == \A i \in TimerIds : s.timers[i].what \notin Steps

\* No timer is left to close the second relay once a fault has opened both.
StaysOpen(s) == s.faulted = TRUE => s.pin = Both(FALSE) /\ \A i \in TimerIds : s.timers[i].what # "hv"

Sound(s) == BmsTypes(s) /\ NextIsKept(s) /\ StaysOpen(s)

BmsQuiet == Sound(bms) /\ (closing # "no" => bms.faulted = FALSE /\ NoStep(bms))

Ids == {"assertion", "next", "periodic"}

-----------------------------------------------------------------------------
(* What starting and cancelling a timer leave alone *)

LEMMA Cancelled ==
  ASSUME NEW s, BmsTypes(s), NEW k, NEW t, t = Cancel(s, k)
  PROVE  /\ BmsTypes(t)
         /\ t.pin = s.pin /\ t.faulted = s.faulted
         /\ t.next = s.next /\ t.assertion = s.assertion
         /\ \A i \in TimerIds : t.timers[i] = IF i = k THEN NoTimer ELSE s.timers[i]
<1>1. NoTimer \in Timers
  BY DEF NoTimer, Timers, Whats, Steps
<1>2. t = [s EXCEPT !.timers = [s.timers EXCEPT ![k] = NoTimer]]
  BY DEF Cancel
<1>3. t.timers = [s.timers EXCEPT ![k] = NoTimer]
  BY <1>2 DEF BmsTypes
<1>4. t.timers \in [TimerIds -> Timers]
  BY <1>1, <1>3 DEF BmsTypes
<1>5. /\ t.pin = s.pin /\ t.faulted = s.faulted
      /\ t.next = s.next /\ t.assertion = s.assertion
  BY <1>2 DEF BmsTypes
<1>6. t = [pin |-> t.pin, on |-> t.on, want |-> t.want, assertion |-> t.assertion, next |-> t.next,
           periodic |-> t.periodic, faults |-> t.faults, timers |-> t.timers,
           faulted |-> t.faulted, confirmed |-> t.confirmed]
  BY <1>2 DEF BmsTypes
<1>7. \A i \in TimerIds : t.timers[i] = IF i = k THEN NoTimer ELSE s.timers[i]
  BY <1>3 DEF BmsTypes
<1> QED BY <1>4, <1>5, <1>6, <1>7 DEF BmsTypes

LEMMA Started ==
  ASSUME NEW s, BmsTypes(s), NEW what \in Whats \ {"none"}, NEW id \in Ids,
         NEW t, t = StartTimer(s, what, id)
  PROVE  /\ BmsTypes(t)
         /\ t.pin = s.pin /\ t.faulted = s.faulted
         /\ id # "next" => t.next = s.next
         /\ \A i \in TimerIds : \/ t.timers[i] = s.timers[i]
                                \/ t.timers[i].what = what /\ (id = "next" => t.next = i)
<1>1. CASE FreeIds(s) = {}
  BY <1>1 DEF StartTimer
<1>2. CASE FreeIds(s) # {}
  <2> DEFINE k == Lowest(FreeIds(s))
             new == [what |-> what, left |-> BmsDelay[what]]
  <2>1. new \in Timers
    BY DEF Timers, Whats, Steps, BmsDelay
  <2>2. new.what = what
    OBVIOUS
  <2> HIDE DEF k, new
  <2>3. t = [s EXCEPT !.timers = [s.timers EXCEPT ![k] = new], ![id] = k]
    BY <1>2 DEF StartTimer, k, new
  <2>4. t.timers = [s.timers EXCEPT ![k] = new]
    BY <2>3 DEF BmsTypes, Ids
  <2>5. t.timers \in [TimerIds -> Timers]
    BY <2>1, <2>4 DEF BmsTypes
  <2>6. /\ t.pin = s.pin /\ t.faulted = s.faulted
        /\ id # "next" => t.next = s.next
        /\ id = "next" => t.next = k
    BY <2>3 DEF BmsTypes, Ids
  <2>7. t = [pin |-> t.pin, on |-> t.on, want |-> t.want, assertion |-> t.assertion,
             next |-> t.next, periodic |-> t.periodic, faults |-> t.faults, timers |-> t.timers,
             faulted |-> t.faulted, confirmed |-> t.confirmed]
    <3>1. CASE id = "assertion" BY <2>3, <3>1 DEF BmsTypes
    <3>2. CASE id = "next" BY <2>3, <3>2 DEF BmsTypes
    <3>3. CASE id = "periodic" BY <2>3, <3>3 DEF BmsTypes
    <3> QED BY <3>1, <3>2, <3>3 DEF Ids
  <2>8. \A i \in TimerIds : t.timers[i] = IF i = k THEN new ELSE s.timers[i]
    BY <2>4 DEF BmsTypes
  <2>9. \A i \in TimerIds : \/ t.timers[i] = s.timers[i]
                            \/ t.timers[i].what = what /\ (id = "next" => t.next = i)
    BY <2>2, <2>6, <2>8
  <2> QED BY <2>5, <2>6, <2>7, <2>9 DEF BmsTypes
<1> QED BY <1>1, <1>2

LEMMA CancelKeeps ==
  ASSUME NEW s, BmsTypes(s), NEW k, NEW t, t = Cancel(s, k)
  PROVE  (Sound(s) => Sound(t)) /\ (NoStep(s) => NoStep(t)) /\ t.faulted = s.faulted
<1>1. NoTimer.what = "none"
  BY DEF NoTimer
<1>2. /\ BmsTypes(t) /\ t.pin = s.pin /\ t.faulted = s.faulted /\ t.next = s.next
      /\ \A i \in TimerIds : t.timers[i].what = IF i = k THEN "none" ELSE s.timers[i].what
  BY <1>1, Cancelled
<1> QED BY <1>2 DEF Sound, NoStep, NextIsKept, StaysOpen, Steps

\* A timer that takes no step of a sequence.
LEMMA StartKeeps ==
  ASSUME NEW s, BmsTypes(s), NEW what \in {"assert", "current", "heartbeat"},
         NEW id \in {"assertion", "periodic"}, NEW t, t = StartTimer(s, what, id)
  PROVE  (Sound(s) => Sound(t)) /\ (NoStep(s) => NoStep(t)) /\ t.faulted = s.faulted
<1>1. /\ BmsTypes(t) /\ t.pin = s.pin /\ t.faulted = s.faulted /\ t.next = s.next
      /\ \A i \in TimerIds : t.timers[i] = s.timers[i] \/ t.timers[i].what = what
  BY Started DEF Whats, Ids
<1> QED BY <1>1 DEF Sound, NoStep, NextIsKept, StaysOpen, Steps

\* The timer of the next step, when there is no other.
LEMMA StartStep ==
  ASSUME NEW s, BmsTypes(s), NoStep(s), NEW what \in Steps,
         s.faulted = TRUE => s.pin = Both(FALSE) /\ what # "hv",
         NEW t, t = StartTimer(s, what, "next")
  PROVE  Sound(t) /\ t.faulted = s.faulted /\ t.pin = s.pin
<1>1. /\ BmsTypes(t) /\ t.pin = s.pin /\ t.faulted = s.faulted
      /\ \A i \in TimerIds : t.timers[i] = s.timers[i] \/ (t.timers[i].what = what /\ t.next = i)
  BY Started DEF Whats, Ids, Steps
<1>2. NextIsKept(t)
  BY <1>1 DEF NoStep, NextIsKept
<1>3. StaysOpen(t)
  BY <1>1 DEF NoStep, StaysOpen, Steps
<1> QED BY <1>1, <1>2, <1>3 DEF Sound

-----------------------------------------------------------------------------
(* Sequences and faults *)

LEMMA OpeningPins ==
  ASSUME NEW s, BmsTypes(s), NEW o, o = Opening(s)
  PROVE  /\ BmsTypes(o) /\ o.pin = Both(FALSE)
         /\ o.timers = s.timers /\ o.faulted = s.faulted
<1>1. o = [s EXCEPT !.pin = Both(FALSE), !.want = Both(FALSE), !.confirmed = FALSE]
  BY DEF Opening
<1>2. o = [pin |-> Both(FALSE), on |-> s.on, want |-> Both(FALSE), assertion |-> s.assertion,
           next |-> s.next, periodic |-> s.periodic, faults |-> s.faults, timers |-> s.timers,
           faulted |-> s.faulted, confirmed |-> FALSE]
  BY <1>1 DEF BmsTypes
<1> QED BY <1>2 DEF BmsTypes

LEMMA OpenSequence ==
  ASSUME NEW s, BmsTypes(s), NoStep(s), NEW t, t = relay_open_sequence(s)
  PROVE  Sound(t) /\ t.faulted = s.faulted /\ t.pin = Both(FALSE)
<1> DEFINE o == Opening(s)
           a == StartTimer(o, "assert", "assertion")
<1>1. o = Opening(s) /\ a = StartTimer(o, "assert", "assertion")
  OBVIOUS
<1>2. t = StartTimer(a, "opened", "next")
  BY DEF relay_open_sequence
<1> HIDE DEF o, a
<1>3. /\ BmsTypes(o) /\ o.pin = Both(FALSE)
      /\ o.timers = s.timers /\ o.faulted = s.faulted
  BY <1>1, OpeningPins
<1>4. NoStep(o)
  BY <1>3 DEF NoStep
<1>5. BmsTypes(a) /\ a.pin = o.pin
  <2>1. "assert" \in Whats \ {"none"} /\ "assertion" \in Ids
    BY DEF Whats, Steps, Ids
  <2>2. a = StartTimer(o, "assert", "assertion") /\ BmsTypes(o)
    BY <1>1, <1>3
  <2>3. BmsTypes(a)
    BY <2>1, <2>2, Started
  <2>4. a.pin = o.pin
    BY <2>1, <2>2, Started
  <2> QED BY <2>3, <2>4
<1>6. NoStep(a) /\ a.faulted = o.faulted
  BY <1>1, <1>3, <1>4, StartKeeps
<1>7. "opened" \in Steps /\ "opened" # "hv"
  BY DEF Steps
<1>8. Sound(t) /\ t.faulted = a.faulted /\ t.pin = a.pin
  BY <1>2, <1>3, <1>5, <1>6, <1>7, StartStep
<1> QED BY <1>3, <1>5, <1>6, <1>8

\* Whatever the timers are when a fault is raised, none of them drives a relay afterwards.
LEMMA FaultIsSound ==
  ASSUME NEW s, BmsTypes(s), NextIsKept(s), NEW b, NEW t, t = prv_relay_fault(s, b)
  PROVE  Sound(t) /\ t.faulted = TRUE /\ NoStep(t)
<1> DEFINE c == Cancel(s, s.assertion)
           d == Cancel(c, s.next)
           o == relay_open_sequence(d)
           e == Cancel(o, o.assertion)
           g == Cancel(e, o.next)
           F == IF b THEN g.faults \cup {"relay"} ELSE g.faults
<1>1. /\ c = Cancel(s, s.assertion) /\ d = Cancel(c, s.next) /\ o = relay_open_sequence(d)
      /\ e = Cancel(o, o.assertion) /\ g = Cancel(e, o.next)
  OBVIOUS
<1>2. t = [g EXCEPT !.faults = IF b THEN @ \cup {"relay"} ELSE @, !.faulted = TRUE]
  BY DEF prv_relay_fault, CancelBoth
<1>3. t = [g EXCEPT !.faults = F, !.faulted = TRUE]
  BY <1>2
<1> HIDE DEF c, d, o, e, g, F
<1>4. NoTimer.what \notin Steps
  BY DEF NoTimer, Steps
<1>5. /\ BmsTypes(c)
      /\ \A i \in TimerIds : c.timers[i].what \in Steps => i = s.next
  BY <1>1, <1>4, Cancelled DEF NextIsKept
<1>6. BmsTypes(d) /\ NoStep(d)
  BY <1>1, <1>4, <1>5, Cancelled DEF NoStep
<1>7. BmsTypes(o) /\ NextIsKept(o) /\ o.pin = Both(FALSE)
  BY <1>1, <1>6, OpenSequence DEF Sound
<1>8. /\ BmsTypes(e) /\ e.pin = Both(FALSE)
      /\ \A i \in TimerIds : e.timers[i].what \in Steps => i = o.next
  <2>1. /\ BmsTypes(e) /\ e.pin = o.pin
        /\ \A i \in TimerIds : e.timers[i] = IF i = o.assertion THEN NoTimer ELSE o.timers[i]
    <3>1. e = Cancel(o, o.assertion) /\ BmsTypes(o)
      BY <1>1, <1>7
    <3>2. BmsTypes(e)
      BY <3>1, Cancelled
    <3>3. e.pin = o.pin
      BY <3>1, Cancelled
    <3>4. \A i \in TimerIds : e.timers[i] = IF i = o.assertion THEN NoTimer ELSE o.timers[i]
      BY <3>1, Cancelled
    <3> QED BY <3>2, <3>3, <3>4
  <2> QED BY <1>4, <1>7, <2>1 DEF NextIsKept
<1>9. BmsTypes(g) /\ g.pin = Both(FALSE) /\ NoStep(g)
  <2>1. /\ BmsTypes(g) /\ g.pin = e.pin
        /\ \A i \in TimerIds : g.timers[i] = IF i = o.next THEN NoTimer ELSE e.timers[i]
    <3>1. g = Cancel(e, o.next) /\ BmsTypes(e)
      BY <1>1, <1>8
    <3>2. BmsTypes(g)
      BY <3>1, Cancelled
    <3>3. g.pin = e.pin
      BY <3>1, Cancelled
    <3>4. \A i \in TimerIds : g.timers[i] = IF i = o.next THEN NoTimer ELSE e.timers[i]
      BY <3>1, Cancelled
    <3> QED BY <3>2, <3>3, <3>4
  <2> QED BY <1>4, <1>8, <2>1 DEF NoStep
<1>10. t = [pin |-> g.pin, on |-> g.on, want |-> g.want, assertion |-> g.assertion,
            next |-> g.next, periodic |-> g.periodic, faults |-> F, timers |-> g.timers,
            faulted |-> TRUE, confirmed |-> g.confirmed]
  BY <1>3, <1>9 DEF BmsTypes
<1>11. BmsTypes(t) /\ t.pin = Both(FALSE) /\ t.timers = g.timers /\ t.faulted = TRUE
  BY <1>9, <1>10 DEF BmsTypes
<1>12. NoStep(t)
  BY <1>9, <1>11 DEF NoStep
<1> QED BY <1>11, <1>12 DEF Sound, NoStep, NextIsKept, StaysOpen, Steps

LEMMA SetFaults ==
  ASSUME NEW s, Sound(s), NEW F, NEW t, t = [s EXCEPT !.faults = F]
  PROVE  Sound(t) /\ t.faulted = s.faulted /\ (NoStep(s) => NoStep(t))
<1>1. /\ BmsTypes(t) /\ t.pin = s.pin /\ t.timers = s.timers /\ t.next = s.next
      /\ t.faulted = s.faulted
  BY DEF Sound, BmsTypes
<1> QED BY <1>1 DEF Sound, NoStep, NextIsKept, StaysOpen

\* A fault that is recorded first.
LEMMA FaultSetIsSound ==
  ASSUME NEW s, Sound(s), NEW f, NEW t, t = fault_bps_set(s, f)
  PROVE  Sound(t) /\ t.faulted = TRUE
<1> DEFINE r == [s EXCEPT !.faults = s.faults \cup {f}]
<1>1. r = [s EXCEPT !.faults = s.faults \cup {f}]
  OBVIOUS
<1>2. t = prv_relay_fault(r, FALSE)
  BY DEF fault_bps_set
<1> HIDE DEF r
<1>3. Sound(r)
  BY <1>1, SetFaults
<1> QED BY <1>2, <1>3, FaultIsSound DEF Sound

-----------------------------------------------------------------------------
(* Timers *)

\* The timer of the next step: a relay is closed only when no fault was raised since the command.
LEMMA CloseHvIsSound ==
  ASSUME NEW s, Sound(s), NEW i \in TimerIds, s.timers[i].what = "hv",
         NEW t, t = Cancel(prv_relay_close_hv(s), i)
  PROVE  Sound(t) /\ t.faulted = s.faulted
<1> DEFINE p == [s EXCEPT !.pin = [s.pin EXCEPT !["hv"] = TRUE], !.want = Both(TRUE)]
           a == StartTimer(p, "assert", "assertion")
           u == StartTimer(a, "closed", "next")
<1>1. p = [s EXCEPT !.pin = [s.pin EXCEPT !["hv"] = TRUE], !.want = Both(TRUE)]
  OBVIOUS
<1>2. a = StartTimer(p, "assert", "assertion") /\ u = StartTimer(a, "closed", "next")
  OBVIOUS
<1>3. t = Cancel(u, i)
  BY DEF prv_relay_close_hv
<1> HIDE DEF p, a, u
<1>4. s.faulted # TRUE
  BY DEF Sound, StaysOpen
<1>5. \A j \in TimerIds : s.timers[j].what \in Steps => j = i
  BY DEF Sound, NextIsKept, Steps
<1>6. /\ p = [pin |-> p.pin, on |-> s.on, want |-> Both(TRUE), assertion |-> s.assertion,
              next |-> s.next, periodic |-> s.periodic, faults |-> s.faults, timers |-> s.timers,
              faulted |-> s.faulted, confirmed |-> s.confirmed]
  BY <1>1 DEF Sound, BmsTypes
<1>7. BmsTypes(p) /\ p.timers = s.timers /\ p.faulted = s.faulted
  BY <1>6 DEF Sound, BmsTypes
<1>8. /\ "assert" \in Whats \ {"none"} /\ "closed" \in Whats \ {"none"}
      /\ "assertion" \in Ids /\ "next" \in Ids
  BY DEF Whats, Steps, Ids
<1>9. BmsTypes(a)
  BY <1>2, <1>7, <1>8, Started
<1>10. a.faulted = p.faulted
  BY <1>2, <1>7, <1>8, Started
<1>11. \A j \in TimerIds : a.timers[j] = p.timers[j] \/ a.timers[j].what = "assert"
  BY <1>2, <1>7, <1>8, Started
<1>12. BmsTypes(u)
  BY <1>2, <1>8, <1>9, Started
<1>13. u.faulted = a.faulted
  BY <1>2, <1>8, <1>9, Started
<1>14. \A j \in TimerIds : \/ u.timers[j] = a.timers[j]
                           \/ u.timers[j].what = "closed" /\ u.next = j
  BY <1>2, <1>8, <1>9, Started
<1>15. BmsTypes(t)
  BY <1>3, <1>12, Cancelled
<1>16. t.faulted = u.faulted
  BY <1>3, <1>12, Cancelled
<1>17. t.next = u.next
  BY <1>3, <1>12, Cancelled
<1>18. \A j \in TimerIds : t.timers[j] = IF j = i THEN NoTimer ELSE u.timers[j]
  BY <1>3, <1>12, Cancelled
<1>19. NextIsKept(t)
  <2> SUFFICES ASSUME NEW j \in TimerIds, t.timers[j].what \in Steps PROVE j = t.next
    BY DEF NextIsKept
  <2>1. j # i
    BY <1>18 DEF NoTimer, Steps
  <2>2. t.timers[j] = u.timers[j]
    BY <1>18, <2>1
  <2>3. CASE u.timers[j] = a.timers[j]
    BY <1>5, <1>7, <1>11, <2>1, <2>2, <2>3 DEF Steps
  <2>4. CASE u.next = j
    BY <1>17, <2>4
  <2> QED BY <1>14, <2>3, <2>4
<1>20. t.faulted = s.faulted
  BY <1>7, <1>10, <1>13, <1>16
<1> QED BY <1>4, <1>15, <1>19, <1>20 DEF Sound, StaysOpen

LEMMA CallbackIsSound ==
  ASSUME NEW s, Sound(s), s.faulted \in {TRUE, FALSE}, NEW i \in TimerIds, s.timers[i] # NoTimer,
         s.timers[i].what # "none", NEW over, NEW t, t = Cancel(Callback(s, i, over), i)
  PROVE  Sound(t) /\ t.faulted \in {TRUE, FALSE}
<1> DEFINE u == Callback(s, i, over)
<1>1. t = Cancel(u, i)
  OBVIOUS
<1>2. s.timers[i].what \in Whats
  BY DEF Sound, BmsTypes, Timers
<1>3. ASSUME Sound(u), u.faulted \in {TRUE, FALSE} PROVE Sound(t) /\ t.faulted \in {TRUE, FALSE}
  <2> HIDE DEF u
  <2>1. BmsTypes(u)
    BY <1>3 DEF Sound
  <2>2. Sound(u) => Sound(t)
    BY <1>1, <2>1, CancelKeeps
  <2>3. t.faulted = u.faulted
    BY <1>1, <2>1, CancelKeeps
  <2> QED BY <1>3, <2>2, <2>3
<1>4. CASE s.timers[i].what = "assert"
  <2>1. u = prv_relay_fault(s, TRUE) \/ u = s
    BY <1>4 DEF Callback, prv_assert_state
  <2> HIDE DEF u
  <2>2. Sound(u) /\ u.faulted \in {TRUE, FALSE}
    BY <2>1, FaultIsSound DEF Sound
  <2> QED BY <1>3, <2>2
<1>5. CASE s.timers[i].what = "opened"
  <2>1. u = s
    BY <1>5 DEF Callback
  <2> HIDE DEF u
  <2> QED BY <1>3, <2>1
<1>6. CASE s.timers[i].what = "hv"
  <2>1. u = prv_relay_close_hv(s)
    BY <1>6 DEF Callback
  <2> HIDE DEF u
  <2> QED BY <1>1, <1>6, <2>1, CloseHvIsSound
<1>7. CASE s.timers[i].what = "closed"
  <2>1. u = [s EXCEPT !.confirmed = TRUE]
    BY <1>7 DEF Callback
  <2> HIDE DEF u
  <2>2. /\ BmsTypes(u) /\ u.pin = s.pin /\ u.timers = s.timers /\ u.next = s.next
        /\ u.faulted = s.faulted
    BY <2>1 DEF Sound, BmsTypes
  <2>3. Sound(u)
    BY <2>2 DEF Sound, NextIsKept, StaysOpen
  <2> QED BY <1>3, <2>2, <2>3
<1>8. CASE s.timers[i].what = "heartbeat"
  <2>1. u = StartTimer(s, "heartbeat", "periodic")
    BY <1>8 DEF Callback, prv_periodic_heartbeat
  <2> HIDE DEF u
  <2>2. Sound(u) /\ u.faulted = s.faulted
    BY <2>1, StartKeeps DEF Sound
  <2> QED BY <1>3, <2>2
<1>9. CASE s.timers[i].what = "current"
  <2> DEFINE a == StartTimer(s, "current", "periodic")
             F == a.faults \ {"current"}
  <2>1. a = StartTimer(s, "current", "periodic")
    OBVIOUS
  <2>2. u = fault_bps_set(a, "current") \/ u = [a EXCEPT !.faults = F]
    BY <1>9 DEF Callback, prv_periodic_ads_read, fault_bps_clear
  <2> HIDE DEF u, a, F
  <2>3. Sound(a) /\ a.faulted = s.faulted
    BY <2>1, StartKeeps DEF Sound
  <2>4. CASE u = fault_bps_set(a, "current")
    BY <1>3, <2>3, <2>4, FaultSetIsSound
  <2>5. CASE u = [a EXCEPT !.faults = F]
    <3>1. Sound(u) /\ u.faulted = a.faulted
      BY <2>3, <2>5, SetFaults
    <3> QED BY <1>3, <2>3, <3>1
  <2> QED BY <2>2, <2>4, <2>5
<1> QED BY <1>2, <1>4, <1>5, <1>6, <1>7, <1>8, <1>9 DEF Whats, Steps

-----------------------------------------------------------------------------
(* What is sensed against what is expected: the timers                      *)

What(s, i) == s.timers[i].what

NoAssert(s) == \A i \in TimerIds : What(s, i) # "assert"

\* Of all timers but those in E: the assertion is the one whose id is kept and comes before the
\* next step, and each measurement repeats itself once.
Orderly(s, E) ==
  /\ \A i \in TimerIds \ E : s.timers[i].left \in Nat
  /\ \A i \in TimerIds \ E : What(s, i) = "assert" => i = s.assertion
  /\ \A i, j \in TimerIds \ E :
       What(s, i) \in Steps /\ What(s, j) = "assert" => s.timers[j].left < s.timers[i].left
  /\ \A i, j \in TimerIds \ E : What(s, i) = What(s, j) /\ What(s, i) \in {"current", "heartbeat"} => i = j

\* The fields that timers have no part in.
SameRelays(s, t) ==
  /\ t.pin = s.pin /\ t.on = s.on /\ t.want = s.want
  /\ t.faulted = s.faulted /\ t.confirmed = s.confirmed

LEMMA LowestIsFree ==
  ASSUME NEW S, S \subseteq Nat, S # {}
  PROVE  Lowest(S) \in S
<1>1. IsWellFoundedOn(OpToRel(<, Nat), Nat)
  BY NatLessThanWellFounded
<1>2. PICK x \in S : \A y \in S : ~ (<<y, x>> \in OpToRel(<, Nat))
  BY <1>1, WFMin
<1>3. ASSUME NEW y \in S PROVE x =< y
  <2>1. ~(y < x)
    BY <1>2 DEF OpToRel
  <2> QED BY <2>1
<1> QED BY <1>3 DEF Lowest

LEMMA CancelledAt ==
  ASSUME NEW s, BmsTypes(s), NEW k, NEW t, t = Cancel(s, k)
  PROVE  /\ BmsTypes(t) /\ SameRelays(s, t) /\ t.assertion = s.assertion /\ t.next = s.next
         /\ \A i \in TimerIds : t.timers[i] = IF i = k THEN NoTimer ELSE s.timers[i]
<1>1. t = [s EXCEPT !.timers = [s.timers EXCEPT ![k] = NoTimer]]
  BY DEF Cancel
<1>2. SameRelays(s, t)
  BY <1>1 DEF BmsTypes, SameRelays
<1> QED BY <1>2, Cancelled

\* A timer is started in a free place, and its id is kept; if there is none nothing happens.
LEMMA StartedKeeps ==
  ASSUME NEW s, BmsTypes(s), NEW what \in Whats \ {"none"}, NEW id \in Ids,
         NEW t, t = StartTimer(s, what, id)
  PROVE  /\ BmsTypes(t) /\ SameRelays(s, t)
         /\ id # "assertion" => t.assertion = s.assertion
         /\ id # "next" => t.next = s.next
<1>1. BmsTypes(t)
  BY Started
<1>2. CASE FreeIds(s) = {}
  BY <1>1, <1>2 DEF StartTimer, SameRelays
<1>3. CASE FreeIds(s) # {}
  <2> DEFINE k == Lowest(FreeIds(s))
             new == [what |-> what, left |-> BmsDelay[what]]
  <2>1. t = [s EXCEPT !.timers = [s.timers EXCEPT ![k] = new], ![id] = k]
    BY <1>3 DEF StartTimer
  <2> HIDE DEF k, new
  <2> QED BY <1>1, <2>1 DEF BmsTypes, Ids, SameRelays
<1> QED BY <1>2, <1>3

LEMMA StartedAt ==
  ASSUME NEW s, BmsTypes(s), NEW what \in Whats \ {"none"}, NEW id \in Ids,
         NEW t, t = StartTimer(s, what, id)
  PROVE  \/ FreeIds(s) = {} /\ t.timers = s.timers
         \/ \E k \in TimerIds :
              /\ s.timers[k] = NoTimer /\ t.timers[k] = [what |-> what, left |-> BmsDelay[what]]
              /\ \A i \in TimerIds : i # k => t.timers[i] = s.timers[i]
              /\ (id = "assertion" => t.assertion = k) /\ (id = "next" => t.next = k)
<1>1. CASE FreeIds(s) = {}
  BY <1>1 DEF StartTimer
<1>2. CASE FreeIds(s) # {}
  <2> DEFINE k == Lowest(FreeIds(s))
             new == [what |-> what, left |-> BmsDelay[what]]
  <2>1. FreeIds(s) \subseteq Nat
    BY BmsAssumption DEF FreeIds, TimerIds
  <2>2. k \in TimerIds /\ s.timers[k] = NoTimer
    BY <1>2, <2>1, LowestIsFree DEF FreeIds
  <2>3. new = [what |-> what, left |-> BmsDelay[what]]
    OBVIOUS
  <2> HIDE DEF k, new
  <2>4. t = [s EXCEPT !.timers = [s.timers EXCEPT ![k] = new], ![id] = k]
    BY <1>2 DEF StartTimer, k, new
  <2>5. t.timers = [s.timers EXCEPT ![k] = new]
    BY <2>4 DEF BmsTypes, Ids
  <2>6. t.timers[k] = new /\ \A i \in TimerIds : i # k => t.timers[i] = s.timers[i]
    BY <2>2, <2>5 DEF BmsTypes
  <2>7. (id = "assertion" => t.assertion = k) /\ (id = "next" => t.next = k)
    BY <2>4 DEF BmsTypes, Ids
  <2> QED BY <2>2, <2>3, <2>6, <2>7
<1> QED BY <1>1, <1>2

LEMMA StartedOnly ==
  ASSUME NEW s, BmsTypes(s), NEW what \in Whats \ {"none"}, NEW id \in Ids,
         NEW t, t = StartTimer(s, what, id)
  PROVE  \A i \in TimerIds : \/ t.timers[i] = s.timers[i]
                             \/ (id = "assertion" => i = t.assertion) /\ (id = "next" => i = t.next)
<1>1. CASE t.timers = s.timers
  BY <1>1
<1>2. ASSUME NEW k \in TimerIds, \A i \in TimerIds : i # k => t.timers[i] = s.timers[i],
             id = "assertion" => t.assertion = k, id = "next" => t.next = k
      PROVE  \A i \in TimerIds : \/ t.timers[i] = s.timers[i]
                                 \/ (id = "assertion" => i = t.assertion) /\ (id = "next" => i = t.next)
  BY <1>2
<1>3. \/ FreeIds(s) = {} /\ t.timers = s.timers
      \/ \E k \in TimerIds :
           /\ s.timers[k] = NoTimer /\ t.timers[k] = [what |-> what, left |-> BmsDelay[what]]
           /\ \A i \in TimerIds : i # k => t.timers[i] = s.timers[i]
           /\ (id = "assertion" => t.assertion = k) /\ (id = "next" => t.next = k)
  BY StartedAt
<1> QED BY <1>1, <1>2, <1>3

LEMMA DelayFacts ==
  /\ \A what \in Whats \ {"none"} : BmsDelay[what] \in Nat
  /\ BmsDelay["assert"] = 1
  /\ \A what \in Steps : BmsDelay[what] = 3
BY DEF BmsDelay, Whats, Steps

Periodic == {"current", "heartbeat"}

PinsTyped(s, c) ==
  /\ s.pin \in [Relay -> BOOLEAN] /\ s.on \in [Relay -> BOOLEAN]
  /\ s.want \in [Relay -> BOOLEAN] /\ c \in [Relay -> BOOLEAN]

LEMMA OpeningAt ==
  ASSUME NEW s, BmsTypes(s), NEW o, o = Opening(s)
  PROVE  /\ BmsTypes(o) /\ o.pin = Both(FALSE) /\ o.want = Both(FALSE) /\ o.confirmed = FALSE
         /\ o.on = s.on /\ o.faulted = s.faulted /\ o.timers = s.timers
         /\ o.assertion = s.assertion /\ o.next = s.next
<1>1. o = [s EXCEPT !.pin = Both(FALSE), !.want = Both(FALSE), !.confirmed = FALSE]
  BY DEF Opening
<1>2. o = [pin |-> Both(FALSE), on |-> s.on, want |-> Both(FALSE), assertion |-> s.assertion,
           next |-> s.next, periodic |-> s.periodic, faults |-> s.faults, timers |-> s.timers,
           faulted |-> s.faulted, confirmed |-> FALSE]
  BY <1>1 DEF BmsTypes
<1> QED BY <1>2 DEF BmsTypes

LEMMA RecordFaults ==
  ASSUME NEW s, BmsTypes(s), NEW F, NEW t, t = [s EXCEPT !.faults = F]
  PROVE  /\ BmsTypes(t) /\ SameRelays(s, t) /\ t.timers = s.timers
         /\ t.assertion = s.assertion /\ t.next = s.next
<1>1. t = [pin |-> s.pin, on |-> s.on, want |-> s.want, assertion |-> s.assertion,
           next |-> s.next, periodic |-> s.periodic, faults |-> F, timers |-> s.timers,
           faulted |-> s.faulted, confirmed |-> s.confirmed]
  BY DEF BmsTypes
<1> QED BY <1>1 DEF BmsTypes, SameRelays

-----------------------------------------------------------------------------
(* What holds whatever strikes, and whatever sequences overlap              *)

\* Of all timers but those in E: the remaining times are natural numbers, and each measurement
\* repeats itself once.
Basic(s, c, E) ==
  /\ BmsTypes(s) /\ PinsTyped(s, c)
  /\ s.faulted \in {TRUE, FALSE} /\ s.confirmed \in {TRUE, FALSE}
  /\ \A i \in TimerIds \ E : s.timers[i].left \in Nat
  /\ \A i, j \in TimerIds \ E : What(s, i) = What(s, j) /\ What(s, i) \in Periodic => i = j

BasicInv ==
  /\ Basic(bms, contacts, {})
  /\ closing \in {"no", "pin set", "asserting"} /\ disturbed \in {TRUE, FALSE}

BmsInv == BasicInv /\ (disturbed = TRUE \/ BmsQuiet)

LEMMA BasicKept ==
  ASSUME NEW s, NEW c, NEW E, Basic(s, c, E), NEW t, BmsTypes(t), PinsTyped(t, c),
         t.faulted \in {TRUE, FALSE}, t.confirmed \in {TRUE, FALSE},
         \A i \in TimerIds : \/ t.timers[i] = s.timers[i]
                             \/ t.timers[i].left \in Nat /\ What(t, i) \notin Periodic
  PROVE  Basic(t, c, E)
<1>1. \A i \in TimerIds \ E : t.timers[i].left \in Nat
  BY DEF Basic
<1>2. \A i \in TimerIds : What(t, i) \in Periodic => What(t, i) = What(s, i)
  BY DEF What
<1>3. \A i, j \in TimerIds \ E : What(t, i) = What(t, j) /\ What(t, i) \in Periodic => i = j
  BY <1>2 DEF Basic
<1> QED BY <1>1, <1>3 DEF Basic

LEMMA BasicLoosely ==
  ASSUME NEW s, NEW c, Basic(s, c, {}), NEW k
  PROVE  Basic(s, c, {k})
BY DEF Basic

LEMMA BasicCancel ==
  ASSUME NEW s, NEW c, NEW E, Basic(s, c, E), NEW k, NEW t, t = Cancel(s, k)
  PROVE  Basic(t, c, E) /\ (E = {k} => Basic(t, c, {}))
<1>1. BmsTypes(s)
  BY DEF Basic
<1>2. /\ BmsTypes(t) /\ SameRelays(s, t)
      /\ \A i \in TimerIds : t.timers[i] = IF i = k THEN NoTimer ELSE s.timers[i]
  BY <1>1, CancelledAt
<1>3. NoTimer.what \notin Periodic /\ NoTimer.left \in Nat
  BY DEF NoTimer, Periodic
<1>4. PinsTyped(t, c) /\ t.faulted \in {TRUE, FALSE} /\ t.confirmed \in {TRUE, FALSE}
  BY <1>2 DEF Basic, SameRelays, PinsTyped
<1>5. \A i \in TimerIds : \/ t.timers[i] = s.timers[i]
                          \/ t.timers[i].left \in Nat /\ What(t, i) \notin Periodic
  BY <1>2, <1>3 DEF What
<1>6. Basic(t, c, E)
  BY <1>2, <1>4, <1>5, BasicKept
<1>7. ASSUME E = {k} PROVE Basic(t, c, {})
  <2>1. \A i \in TimerIds : t.timers[i].left \in Nat
    BY <1>2, <1>3, <1>6, <1>7 DEF Basic
  <2>2. \A i \in TimerIds : What(t, i) \in Periodic => i # k
    BY <1>2, <1>3 DEF What
  <2>3. \A i, j \in TimerIds : What(t, i) = What(t, j) /\ What(t, i) \in Periodic => i = j
    BY <1>6, <1>7, <2>2 DEF Basic
  <2> QED BY <1>6, <2>1, <2>3 DEF Basic
<1> QED BY <1>6, <1>7

LEMMA BasicStart ==
  ASSUME NEW s, NEW c, NEW E, Basic(s, c, E), NEW what \in Steps \cup {"assert"}, NEW id \in Ids,
         NEW t, t = StartTimer(s, what, id)
  PROVE  Basic(t, c, E)
<1>1. BmsTypes(s) /\ what \in Whats \ {"none"} /\ what \notin Periodic
  BY DEF Basic, Whats, Steps, Periodic
<1>2. BmsTypes(t) /\ SameRelays(s, t)
  BY <1>1, StartedKeeps
<1>3. PinsTyped(t, c) /\ t.faulted \in {TRUE, FALSE} /\ t.confirmed \in {TRUE, FALSE}
  BY <1>2 DEF Basic, SameRelays, PinsTyped
<1>4. \/ FreeIds(s) = {} /\ t.timers = s.timers
      \/ \E k \in TimerIds :
           /\ s.timers[k] = NoTimer /\ t.timers[k] = [what |-> what, left |-> BmsDelay[what]]
           /\ \A i \in TimerIds : i # k => t.timers[i] = s.timers[i]
           /\ (id = "assertion" => t.assertion = k) /\ (id = "next" => t.next = k)
  BY <1>1, StartedAt
<1>5. BmsDelay[what] \in Nat
  BY <1>1, DelayFacts
<1>6. \A i \in TimerIds : \/ t.timers[i] = s.timers[i]
                          \/ t.timers[i].left \in Nat /\ What(t, i) \notin Periodic
  BY <1>1, <1>4, <1>5 DEF What
<1> QED BY <1>2, <1>3, <1>6, BasicKept

\* A measurement schedules its next one before its own timer is removed.
LEMMA BasicAgain ==
  ASSUME NEW s, NEW c, Basic(s, c, {}), NEW i0 \in TimerIds, NEW what \in Periodic,
         What(s, i0) = what, NEW t, t = StartTimer(s, what, "periodic")
  PROVE  Basic(t, c, {i0})
<1>1. BmsTypes(s) /\ what \in Whats \ {"none"} /\ "periodic" \in Ids
  BY DEF Basic, Whats, Steps, Periodic, Ids
<1>2. BmsTypes(t) /\ SameRelays(s, t)
  BY <1>1, StartedKeeps
<1>3. PinsTyped(t, c) /\ t.faulted \in {TRUE, FALSE} /\ t.confirmed \in {TRUE, FALSE}
  BY <1>2 DEF Basic, SameRelays, PinsTyped
<1>4. \/ FreeIds(s) = {} /\ t.timers = s.timers
      \/ \E k \in TimerIds :
           /\ s.timers[k] = NoTimer /\ t.timers[k] = [what |-> what, left |-> BmsDelay[what]]
           /\ \A i \in TimerIds : i # k => t.timers[i] = s.timers[i]
           /\ ("periodic" = "assertion" => t.assertion = k) /\ ("periodic" = "next" => t.next = k)
  BY <1>1, StartedAt
<1>5. BmsDelay[what] \in Nat
  BY <1>1, DelayFacts
<1>6. CASE t.timers = s.timers
  BY <1>2, <1>3, <1>6, BasicLoosely DEF Basic, What
<1>7. ASSUME NEW k \in TimerIds, s.timers[k] = NoTimer,
             t.timers[k] = [what |-> what, left |-> BmsDelay[what]],
             \A i \in TimerIds : i # k => t.timers[i] = s.timers[i]
      PROVE  Basic(t, c, {i0})
  <2>1. What(t, k) = what /\ t.timers[k].left \in Nat
    BY <1>5, <1>7 DEF What
  <2>2. \A i \in TimerIds : i # k => What(t, i) = What(s, i) /\ t.timers[i].left = s.timers[i].left
    BY <1>7 DEF What
  <2>3. \A i \in TimerIds : i # i0 => What(s, i) # what
    BY DEF Basic
  <2>4. \A i \in TimerIds \ {i0} : t.timers[i].left \in Nat
    BY <2>1, <2>2 DEF Basic
  <2>5. \A i, j \in TimerIds \ {i0} : What(t, i) = What(t, j) /\ What(t, i) \in Periodic => i = j
    BY <2>1, <2>2, <2>3 DEF Basic
  <2> QED BY <1>2, <1>3, <2>4, <2>5 DEF Basic
<1> QED BY <1>4, <1>6, <1>7

LEMMA BasicOpen ==
  ASSUME NEW s, NEW c, NEW E, Basic(s, c, E), NEW t, t = relay_open_sequence(s)
  PROVE  Basic(t, c, E)
<1> DEFINE o == Opening(s)
           a == StartTimer(o, "assert", "assertion")
<1>1. o = Opening(s) /\ a = StartTimer(o, "assert", "assertion")
  OBVIOUS
<1>2. t = StartTimer(a, "opened", "next")
  BY DEF relay_open_sequence
<1> HIDE DEF o, a
<1>3. BmsTypes(s)
  BY DEF Basic
<1>4. /\ BmsTypes(o) /\ o.pin = Both(FALSE) /\ o.want = Both(FALSE) /\ o.confirmed = FALSE
      /\ o.on = s.on /\ o.faulted = s.faulted /\ o.timers = s.timers
  BY <1>1, <1>3, OpeningAt
<1>5. PinsTyped(o, c)
  BY <1>4 DEF Basic, PinsTyped, Both
<1>6. o.faulted \in {TRUE, FALSE} /\ o.confirmed \in {TRUE, FALSE}
  BY <1>4 DEF Basic
<1>7. Basic(o, c, E)
  BY <1>4, <1>5, <1>6, BasicKept
<1>8. "assert" \in Steps \cup {"assert"} /\ "opened" \in Steps \cup {"assert"} /\ "assertion" \in Ids /\ "next" \in Ids
  BY DEF Steps, Ids
<1>9. Basic(a, c, E)
  BY <1>1, <1>7, <1>8, BasicStart
<1> QED BY <1>2, <1>8, <1>9, BasicStart

LEMMA BasicFault ==
  ASSUME NEW s, NEW c, NEW E, Basic(s, c, E), NEW b, NEW t, t = prv_relay_fault(s, b)
  PROVE  Basic(t, c, E) /\ t.faulted = TRUE
<1> DEFINE d == Cancel(s, s.assertion)
           e == Cancel(d, s.next)
           o == relay_open_sequence(e)
           g == Cancel(o, o.assertion)
           h == Cancel(g, o.next)
           F == IF b THEN h.faults \cup {"relay"} ELSE h.faults
<1>1. /\ d = Cancel(s, s.assertion) /\ e = Cancel(d, s.next) /\ o = relay_open_sequence(e)
      /\ g = Cancel(o, o.assertion) /\ h = Cancel(g, o.next)
  OBVIOUS
<1>2. t = [h EXCEPT !.faults = F, !.faulted = TRUE]
  BY DEF prv_relay_fault, CancelBoth
<1> HIDE DEF d, e, o, g, h, F
<1>3. Basic(d, c, E)
  BY <1>1, BasicCancel
<1>4. Basic(e, c, E)
  BY <1>1, <1>3, BasicCancel
<1>5. Basic(o, c, E)
  BY <1>1, <1>4, BasicOpen
<1>6. Basic(g, c, E)
  BY <1>1, <1>5, BasicCancel
<1>7. Basic(h, c, E)
  BY <1>1, <1>6, BasicCancel
<1>8. t = [pin |-> h.pin, on |-> h.on, want |-> h.want, assertion |-> h.assertion,
           next |-> h.next, periodic |-> h.periodic, faults |-> F, timers |-> h.timers,
           faulted |-> TRUE, confirmed |-> h.confirmed]
  BY <1>2, <1>7 DEF Basic, BmsTypes
<1>9. /\ t.pin = h.pin /\ t.on = h.on /\ t.want = h.want /\ t.timers = h.timers
      /\ t.faulted = TRUE /\ t.confirmed = h.confirmed
  BY <1>8
<1>10. BmsTypes(t)
  BY <1>7, <1>8 DEF Basic, BmsTypes
<1>11. PinsTyped(t, c) /\ t.faulted \in {TRUE, FALSE} /\ t.confirmed \in {TRUE, FALSE}
  BY <1>7, <1>9 DEF Basic, PinsTyped
<1>12. Basic(t, c, E)
  BY <1>7, <1>9, <1>10, <1>11, BasicKept
<1> QED BY <1>9, <1>12

LEMMA BasicRecord ==
  ASSUME NEW s, NEW c, NEW E, Basic(s, c, E), NEW F, NEW t, t = [s EXCEPT !.faults = F]
  PROVE  Basic(t, c, E)
<1>1. BmsTypes(s)
  BY DEF Basic
<1>2. BmsTypes(t) /\ SameRelays(s, t) /\ t.timers = s.timers
  BY <1>1, RecordFaults
<1>3. PinsTyped(t, c) /\ t.faulted \in {TRUE, FALSE} /\ t.confirmed \in {TRUE, FALSE}
  BY <1>2 DEF Basic, SameRelays, PinsTyped
<1> QED BY <1>2, <1>3, BasicKept

LEMMA BasicFaultSet ==
  ASSUME NEW s, NEW c, NEW E, Basic(s, c, E), NEW f, NEW t, t = fault_bps_set(s, f)
  PROVE  Basic(t, c, E) /\ t.faulted = TRUE
<1> DEFINE r == [s EXCEPT !.faults = s.faults \cup {f}]
<1>1. r = [s EXCEPT !.faults = s.faults \cup {f}]
  OBVIOUS
<1>2. t = prv_relay_fault(r, FALSE)
  BY DEF fault_bps_set
<1> HIDE DEF r
<1>3. Basic(r, c, E)
  BY <1>1, BasicRecord
<1> QED BY <1>2, <1>3, BasicFault

LEMMA BasicCloseHv ==
  ASSUME NEW s, NEW c, NEW E, Basic(s, c, E), NEW t, t = prv_relay_close_hv(s)
  PROVE  Basic(t, c, E)
<1> DEFINE p == [s EXCEPT !.pin = [s.pin EXCEPT !["hv"] = TRUE], !.want = Both(TRUE)]
           a == StartTimer(p, "assert", "assertion")
<1>1. /\ p = [s EXCEPT !.pin = [s.pin EXCEPT !["hv"] = TRUE], !.want = Both(TRUE)]
      /\ a = StartTimer(p, "assert", "assertion")
  OBVIOUS
<1>2. t = StartTimer(a, "closed", "next")
  BY DEF prv_relay_close_hv
<1> HIDE DEF p, a
<1>3. p = [pin |-> [s.pin EXCEPT !["hv"] = TRUE], on |-> s.on, want |-> Both(TRUE),
           assertion |-> s.assertion, next |-> s.next, periodic |-> s.periodic,
           faults |-> s.faults, timers |-> s.timers, faulted |-> s.faulted,
           confirmed |-> s.confirmed]
  BY <1>1 DEF Basic, BmsTypes
<1>4. /\ p.pin = [s.pin EXCEPT !["hv"] = TRUE] /\ p.on = s.on /\ p.want = Both(TRUE)
      /\ p.timers = s.timers /\ p.faulted = s.faulted /\ p.confirmed = s.confirmed
  BY <1>3
<1>5. BmsTypes(p)
  BY <1>3 DEF Basic, BmsTypes
<1>6. PinsTyped(p, c)
  BY <1>4 DEF Basic, PinsTyped, Both
<1>7. p.faulted \in {TRUE, FALSE} /\ p.confirmed \in {TRUE, FALSE}
  BY <1>4 DEF Basic
<1>8. Basic(p, c, E)
  BY <1>4, <1>5, <1>6, <1>7, BasicKept
<1>9. "assert" \in Steps \cup {"assert"} /\ "closed" \in Steps \cup {"assert"} /\ "assertion" \in Ids /\ "next" \in Ids
  BY DEF Steps, Ids
<1>10. Basic(a, c, E)
  BY <1>1, <1>8, <1>9, BasicStart
<1> QED BY <1>2, <1>9, <1>10, BasicStart

LEMMA BasicCallback ==
  ASSUME NEW s, NEW c, Basic(s, c, {}), NEW i \in TimerIds, What(s, i) # "none", NEW over,
         NEW t, t = Cancel(Callback(s, i, over), i)
  PROVE  Basic(t, c, {})
<1> DEFINE u == Callback(s, i, over)
<1>1. t = Cancel(u, i)
  OBVIOUS
<1>2. BmsTypes(s) /\ What(s, i) \in Whats
  BY DEF Basic, BmsTypes, Timers, What, NoTimer, Whats
<1>3. ASSUME Basic(u, c, {i}) PROVE Basic(t, c, {})
  <2> HIDE DEF u
  <2> QED BY <1>1, <1>3, BasicCancel
<1>4. CASE What(s, i) = "assert"
  <2>1. u = prv_relay_fault(s, TRUE) \/ u = s
    BY <1>4 DEF Callback, What, prv_assert_state
  <2> HIDE DEF u
  <2>2. Basic(u, c, {i})
    BY <2>1, BasicFault, BasicLoosely
  <2> QED BY <1>3, <2>2
<1>5. CASE What(s, i) = "opened"
  <2>1. u = s
    BY <1>5 DEF Callback, What
  <2> HIDE DEF u
  <2> QED BY <1>3, <2>1, BasicLoosely
<1>6. CASE What(s, i) = "hv"
  <2>1. u = prv_relay_close_hv(s)
    BY <1>6 DEF Callback, What
  <2> HIDE DEF u
  <2>2. Basic(u, c, {})
    BY <2>1, BasicCloseHv
  <2> QED BY <1>3, <2>2, BasicLoosely
<1>7. CASE What(s, i) = "closed"
  <2>1. u = [s EXCEPT !.confirmed = TRUE]
    BY <1>7 DEF Callback, What
  <2> HIDE DEF u
  <2>2. /\ BmsTypes(u) /\ u.pin = s.pin /\ u.timers = s.timers /\ u.on = s.on /\ u.want = s.want
        /\ u.faulted = s.faulted /\ u.confirmed = TRUE
    BY <1>2, <2>1 DEF BmsTypes
  <2>3. PinsTyped(u, c) /\ u.faulted \in {TRUE, FALSE} /\ u.confirmed \in {TRUE, FALSE}
    BY <2>2 DEF Basic, PinsTyped
  <2>4. Basic(u, c, {})
    BY <2>2, <2>3, BasicKept
  <2> QED BY <1>3, <2>4, BasicLoosely
<1>8. CASE What(s, i) = "heartbeat"
  <2>1. u = StartTimer(s, "heartbeat", "periodic") /\ "heartbeat" \in Periodic
    BY <1>8 DEF Callback, What, prv_periodic_heartbeat, Periodic
  <2> HIDE DEF u
  <2>2. Basic(u, c, {i})
    BY <1>8, <2>1, BasicAgain
  <2> QED BY <1>3, <2>2
<1>9. CASE What(s, i) = "current"
  <2> DEFINE a == StartTimer(s, "current", "periodic")
             F == a.faults \ {"current"}
  <2>1. a = StartTimer(s, "current", "periodic") /\ "current" \in Periodic
    BY DEF Periodic
  <2>2. u = fault_bps_set(a, "current") \/ u = [a EXCEPT !.faults = F]
    BY <1>9 DEF Callback, What, prv_periodic_ads_read, fault_bps_clear
  <2> HIDE DEF u, a, F
  <2>3. Basic(a, c, {i})
    BY <1>9, <2>1, BasicAgain
  <2>4. Basic(u, c, {i})
    BY <2>2, <2>3, BasicFaultSet, BasicRecord
  <2> QED BY <1>3, <2>4
<1> QED BY <1>2, <1>4, <1>5, <1>6, <1>7, <1>8, <1>9 DEF Whats, Steps

LEMMA BasicTick ==
  ASSUME BasicInv, BmsTick
  PROVE  /\ Basic(bms', contacts', {}) /\ SameRelays(bms, bms')
         /\ bms'.next = bms.next /\ bms'.assertion = bms.assertion
         /\ \A i \in TimerIds : What(bms', i) = What(bms, i)
<1> DEFINE T == [i \in TimerIds |-> IF bms.timers[i] = NoTimer THEN NoTimer
                                    ELSE [bms.timers[i] EXCEPT !.left = @ - 1]]
<1>1. bms.timers \in [TimerIds -> Timers] /\ BmsTypes(bms) /\ PinsTyped(bms, contacts)
  BY DEF BasicInv, Basic, BmsTypes
<1>2. \A i \in TimerIds : bms.timers[i] # NoTimer => bms.timers[i].left > 0
  BY DEF BmsTick, Running
<1>3. ASSUME NEW i \in TimerIds
      PROVE  T[i] \in Timers /\ T[i].what = bms.timers[i].what /\ T[i].left \in Nat
  <2>1. bms.timers[i] \in Timers /\ bms.timers[i].left \in Nat
    BY <1>1 DEF BasicInv, Basic
  <2>2. CASE bms.timers[i] = NoTimer
    BY <2>2 DEF Timers, NoTimer
  <2>3. CASE bms.timers[i] # NoTimer
    <3>1. bms.timers[i].left > 0
      BY <1>2, <2>3
    <3>2. bms.timers[i] \in [what : Whats \ {"none"}, left : Int]
      BY <2>1, <2>3 DEF Timers
    <3>3. T[i] = [bms.timers[i] EXCEPT !.left = @ - 1]
      BY <2>3
    <3> HIDE DEF T
    <3>4. T[i] \in [what : Whats \ {"none"}, left : Int] /\ T[i].what = bms.timers[i].what
          /\ T[i].left = bms.timers[i].left - 1
      BY <3>2, <3>3
    <3> QED BY <2>1, <3>1, <3>4 DEF Timers
  <2> QED BY <2>2, <2>3
<1>4. T \in [TimerIds -> Timers]
  BY <1>3
<1>5. bms' = [bms EXCEPT !.timers = T] /\ contacts' = contacts
  BY DEF BmsTick
<1>6. \A i \in TimerIds : T[i].what = bms.timers[i].what /\ T[i].left \in Nat
  BY <1>3
<1> HIDE DEF T
<1>7. bms' = [pin |-> bms.pin, on |-> bms.on, want |-> bms.want, assertion |-> bms.assertion,
              next |-> bms.next, periodic |-> bms.periodic, faults |-> bms.faults,
              timers |-> T, faulted |-> bms.faulted, confirmed |-> bms.confirmed]
  BY <1>1, <1>5 DEF BmsTypes
<1>8. BmsTypes(bms')
  BY <1>4, <1>7 DEF BmsTypes
<1>9. /\ bms'.timers = T /\ SameRelays(bms, bms')
      /\ bms'.next = bms.next /\ bms'.assertion = bms.assertion
  BY <1>7 DEF SameRelays
<1>10. \A i \in TimerIds : What(bms', i) = What(bms, i) /\ bms'.timers[i].left \in Nat
  BY <1>6, <1>9 DEF What
<1>11. PinsTyped(bms', contacts') /\ bms'.faulted \in {TRUE, FALSE} /\ bms'.confirmed \in {TRUE, FALSE}
  BY <1>1, <1>5, <1>9 DEF SameRelays, PinsTyped, BasicInv, Basic
<1>12. \A i, j \in TimerIds : What(bms', i) = What(bms', j) /\ What(bms', i) \in Periodic => i = j
  BY <1>10 DEF BasicInv, Basic
<1>13. Basic(bms', contacts', {})
  BY <1>8, <1>10, <1>11, <1>12 DEF Basic
<1> QED BY <1>9, <1>10, <1>13

LEMMA BasicNext == BasicInv /\ [BmsNext]_bmsVars => BasicInv'
<1> SUFFICES ASSUME BasicInv, [BmsNext]_bmsVars PROVE BasicInv'
  OBVIOUS
<1>1. /\ Basic(bms, contacts, {}) /\ BmsTypes(bms) /\ PinsTyped(bms, contacts)
      /\ bms.faulted \in {TRUE, FALSE} /\ bms.confirmed \in {TRUE, FALSE}
      /\ closing \in {"no", "pin set", "asserting"} /\ disturbed \in {TRUE, FALSE}
  BY DEF BasicInv, Basic
<1>2. ASSUME Basic(bms', contacts', {}), closing' \in {"no", "pin set", "asserting"}, disturbed' \in {TRUE, FALSE}
      PROVE  BasicInv'
  BY <1>2 DEF BasicInv
<1>3. ASSUME MayDisturb, bms'.faulted \in {TRUE, FALSE} PROVE disturbed' \in {TRUE, FALSE}
  BY <1>1, <1>3 DEF MayDisturb
<1>4. ASSUME NEW i \in TimerIds, TimerFires(i) PROVE BasicInv'
  <2>1. PICK over \in BOOLEAN : bms' = Cancel(Callback(bms, i, over), i)
    BY <1>4 DEF TimerFires
  <2>2. bms.timers[i] # NoTimer
    BY <1>4 DEF TimerFires, Running
  <2>3. What(bms, i) # "none"
    BY <1>1, <2>2 DEF BmsTypes, Timers, What
  <2>4. Basic(bms', contacts, {}) /\ contacts' = contacts /\ closing' = closing
    BY <1>1, <1>4, <2>1, <2>3, BasicCallback DEF TimerFires
  <2>5. disturbed' \in {TRUE, FALSE}
    BY <1>3, <1>4, <2>4 DEF TimerFires, Basic
  <2> QED BY <1>1, <1>2, <2>4, <2>5
<1>5. CASE BmsTick
  BY <1>1, <1>2, <1>5, BasicTick DEF BmsTick
<1>6. ASSUME NEW f \in FaultSources, FaultRaised(f) PROVE BasicInv'
  <2>1. bms' = fault_bps_set(bms, f) /\ contacts' = contacts /\ closing' = closing /\ MayDisturb
    BY <1>6 DEF FaultRaised
  <2>2. Basic(bms', contacts, {})
    BY <1>1, <2>1, BasicFaultSet
  <2>3. disturbed' \in {TRUE, FALSE}
    BY <1>3, <2>1, <2>2 DEF Basic
  <2> QED BY <1>1, <1>2, <2>1, <2>2, <2>3
<1>7. ASSUME NEW f \in FaultSources, FaultCleared(f) PROVE BasicInv'
  <2> DEFINE F == bms.faults \ {f}
  <2>1. /\ bms' = [bms EXCEPT !.faults = F]
        /\ contacts' = contacts /\ closing' = closing /\ disturbed' = disturbed
    BY <1>7 DEF FaultCleared, fault_bps_clear
  <2> HIDE DEF F
  <2>2. Basic(bms', contacts, {})
    BY <1>1, <2>1, BasicRecord
  <2> QED BY <1>1, <1>2, <2>1, <2>2
<1>8. CASE prv_io_int_callback
  <2>1. /\ bms' = [bms EXCEPT !.on = contacts]
        /\ contacts' = contacts /\ closing' = closing /\ disturbed' = disturbed
    BY <1>8 DEF prv_io_int_callback
  <2>2. bms' = [pin |-> bms.pin, on |-> contacts, want |-> bms.want, assertion |-> bms.assertion,
                next |-> bms.next, periodic |-> bms.periodic, faults |-> bms.faults,
                timers |-> bms.timers, faulted |-> bms.faulted, confirmed |-> bms.confirmed]
    BY <1>1, <2>1 DEF BmsTypes
  <2>3. /\ BmsTypes(bms') /\ bms'.timers = bms.timers /\ bms'.pin = bms.pin /\ bms'.on = contacts
        /\ bms'.want = bms.want /\ bms'.faulted = bms.faulted /\ bms'.confirmed = bms.confirmed
    BY <1>1, <2>2 DEF BmsTypes
  <2>4. PinsTyped(bms', contacts)
    BY <1>1, <2>3 DEF PinsTyped
  <2>5. Basic(bms', contacts, {})
    BY <1>1, <2>3, <2>4, BasicKept
  <2> QED BY <1>1, <1>2, <2>1, <2>5
<1>9. ASSUME NEW r \in Relay, ContactMoves(r) PROVE BasicInv'
  <2>1. /\ bms' = bms /\ closing' = closing /\ disturbed' = disturbed
        /\ contacts' = [contacts EXCEPT ![r] = bms.pin[r]]
    BY <1>9 DEF ContactMoves
  <2>2. PinsTyped(bms', contacts')
    BY <1>1, <2>1 DEF PinsTyped
  <2>3. Basic(bms', contacts', {})
    BY <1>1, <2>1, <2>2 DEF Basic, What
  <2> QED BY <1>1, <1>2, <2>1, <2>3
<1>10. CASE PowerOffRx
  <2> DEFINE d == [bms EXCEPT !.faulted = FALSE]
  <2>1. d = [bms EXCEPT !.faulted = FALSE]
    OBVIOUS
  <2>2. bms' = relay_open_sequence(d) /\ contacts' = contacts /\ closing' = closing
    BY <1>10 DEF PowerOffRx
  <2> HIDE DEF d
  <2>3. d = [pin |-> bms.pin, on |-> bms.on, want |-> bms.want, assertion |-> bms.assertion,
             next |-> bms.next, periodic |-> bms.periodic, faults |-> bms.faults,
             timers |-> bms.timers, faulted |-> FALSE, confirmed |-> bms.confirmed]
    BY <1>1, <2>1 DEF BmsTypes
  <2>4. /\ BmsTypes(d) /\ d.timers = bms.timers /\ d.pin = bms.pin /\ d.on = bms.on
        /\ d.want = bms.want /\ d.faulted = FALSE /\ d.confirmed = bms.confirmed
    BY <1>1, <2>3 DEF BmsTypes
  <2>5. PinsTyped(d, contacts)
    BY <1>1, <2>4 DEF PinsTyped
  <2>6. Basic(d, contacts, {})
    BY <1>1, <2>4, <2>5, BasicKept
  <2>7. Basic(bms', contacts, {})
    BY <2>2, <2>6, BasicOpen
  <2>8. disturbed' \in {TRUE, FALSE}
    BY <1>10 DEF PowerOffRx, UnderWay
  <2> QED BY <1>1, <1>2, <2>2, <2>7, <2>8
<1>11. CASE PowerOnRx
  <2>1. bms' = [pin |-> [bms.pin EXCEPT !["gnd"] = TRUE], on |-> bms.on, want |-> GndOnly,
                assertion |-> bms.assertion, next |-> bms.next, periodic |-> bms.periodic,
                faults |-> bms.faults, timers |-> bms.timers, faulted |-> FALSE,
                confirmed |-> FALSE]
    BY <1>1, <1>11 DEF PowerOnRx, BmsTypes
  <2>2. /\ bms'.timers = bms.timers /\ bms'.pin = [bms.pin EXCEPT !["gnd"] = TRUE] /\ bms'.on = bms.on
        /\ bms'.want = GndOnly /\ bms'.faulted = FALSE /\ bms'.confirmed = FALSE
    BY <2>1
  <2>3. BmsTypes(bms')
    BY <1>1, <2>1 DEF BmsTypes
  <2>4. PinsTyped(bms', contacts)
    BY <1>1, <2>2 DEF PinsTyped, GndOnly
  <2>5. Basic(bms', contacts, {})
    BY <1>1, <2>2, <2>3, <2>4, BasicKept
  <2>6. disturbed' \in {TRUE, FALSE}
    BY <1>1, <1>11 DEF PowerOnRx, UnderWay
  <2>7. closing' = "pin set" /\ contacts' = contacts
    BY <1>11 DEF PowerOnRx
  <2> QED BY <1>2, <2>5, <2>6, <2>7
<1>12. CASE StartAssertion
  <2>1. /\ bms' = StartTimer(bms, "assert", "assertion") /\ closing' = "asserting"
        /\ contacts' = contacts /\ disturbed' = disturbed
    BY <1>12 DEF StartAssertion
  <2>2. "assert" \in Steps \cup {"assert"} /\ "assertion" \in Ids
    BY DEF Ids
  <2>3. Basic(bms', contacts, {})
    BY <1>1, <2>1, <2>2, BasicStart
  <2> QED BY <1>1, <1>2, <2>1, <2>3
<1>13. CASE StartNextStep
  <2>1. /\ bms' = StartTimer(bms, "hv", "next") /\ closing' = "no"
        /\ contacts' = contacts /\ disturbed' = disturbed
    BY <1>13 DEF StartNextStep
  <2>2. "hv" \in Steps \cup {"assert"} /\ "next" \in Ids
    BY DEF Ids, Steps
  <2>3. Basic(bms', contacts, {})
    BY <1>1, <2>1, <2>2, BasicStart
  <2> QED BY <1>1, <1>2, <2>1, <2>3
<1>14. CASE UNCHANGED bmsVars
  <2>1. bms' = bms /\ contacts' = contacts /\ closing' = closing /\ disturbed' = disturbed
    BY <1>14 DEF bmsVars
  <2> QED BY <1>1, <1>2, <2>1
<1> QED
  BY <1>4, <1>5, <1>6, <1>7, <1>8, <1>9, <1>10, <1>11, <1>12, <1>13, <1>14 DEF BmsNext


-----------------------------------------------------------------------------
(* The specification *)

\* The heartbeat and the current are the only timers at first.
LEMMA BmsInitial ==
  ASSUME BmsInit
  PROVE  /\ BmsTypes(bms)
         /\ \A i \in TimerIds : What(bms, i) \in {"none", "heartbeat", "current"} /\ bms.timers[i].left \in Nat
         /\ \A i, j \in TimerIds : What(bms, i) = What(bms, j) /\ What(bms, i) \in Periodic => i = j
         /\ bms.pin = Both(FALSE) /\ bms.on = Both(FALSE) /\ bms.want = Both(FALSE)
         /\ bms.faulted = FALSE /\ bms.confirmed = FALSE
         /\ contacts = Both(FALSE) /\ closing = "no" /\ disturbed = FALSE
<1>1. PICK z : /\ z = [pin |-> Both(FALSE), on |-> Both(FALSE), want |-> Both(FALSE),
                       assertion |-> 0, next |-> 0, periodic |-> 0, faults |-> {},
                       timers |-> [i \in TimerIds |-> NoTimer],
                       faulted |-> FALSE, confirmed |-> FALSE]
               /\ bms = StartTimer(prv_periodic_heartbeat(z), "current", "periodic")
  BY DEF BmsInit
<1>2. contacts = Both(FALSE) /\ closing = "no" /\ disturbed = FALSE
  BY DEF BmsInit
<1> DEFINE h == StartTimer(z, "heartbeat", "periodic")
<1>3. h = StartTimer(z, "heartbeat", "periodic")
  OBVIOUS
<1>4. bms = StartTimer(h, "current", "periodic")
  BY <1>1 DEF prv_periodic_heartbeat
<1> HIDE DEF h
<1>5. NoTimer \in Timers /\ NoTimer.what = "none" /\ NoTimer.left = 0
  BY DEF NoTimer, Timers, Whats, Steps
<1>6. BmsTypes(z) /\ \A i \in TimerIds : z.timers[i] = NoTimer
  BY <1>1, <1>5 DEF BmsTypes
<1>7. /\ "heartbeat" \in Whats \ {"none"} /\ "current" \in Whats \ {"none"} /\ "periodic" \in Ids
      /\ "heartbeat" # "current" /\ Periodic = {"current", "heartbeat"}
  BY DEF Whats, Steps, Ids, Periodic
<1>8. BmsTypes(h) /\ SameRelays(z, h)
  BY <1>3, <1>6, <1>7, StartedKeeps
<1>9. BmsTypes(bms) /\ SameRelays(h, bms)
  BY <1>4, <1>7, <1>8, StartedKeeps
<1>10. /\ \A i \in TimerIds : What(h, i) \in {"none", "heartbeat"} /\ h.timers[i].left \in Nat
       /\ \A i, j \in TimerIds : What(h, i) = "heartbeat" /\ What(h, j) = "heartbeat" => i = j
  <2>1. \/ FreeIds(z) = {} /\ h.timers = z.timers
        \/ \E k \in TimerIds :
             /\ z.timers[k] = NoTimer /\ h.timers[k] = [what |-> "heartbeat", left |-> BmsDelay["heartbeat"]]
             /\ \A i \in TimerIds : i # k => h.timers[i] = z.timers[i]
             /\ ("periodic" = "assertion" => h.assertion = k) /\ ("periodic" = "next" => h.next = k)
    BY <1>3, <1>6, <1>7, StartedAt
  <2>2. BmsDelay["heartbeat"] \in Nat
    BY <1>7, DelayFacts
  <2> QED BY <1>5, <1>6, <2>1, <2>2 DEF What
<1>11. /\ \A i \in TimerIds : What(bms, i) \in {"none", "heartbeat", "current"} /\ bms.timers[i].left \in Nat
       /\ \A i, j \in TimerIds : What(bms, i) = "heartbeat" /\ What(bms, j) = "heartbeat" => i = j
       /\ \A i, j \in TimerIds : What(bms, i) = "current" /\ What(bms, j) = "current" => i = j
  <2>1. \/ FreeIds(h) = {} /\ bms.timers = h.timers
        \/ \E k \in TimerIds :
             /\ h.timers[k] = NoTimer /\ bms.timers[k] = [what |-> "current", left |-> BmsDelay["current"]]
             /\ \A i \in TimerIds : i # k => bms.timers[i] = h.timers[i]
             /\ ("periodic" = "assertion" => bms.assertion = k) /\ ("periodic" = "next" => bms.next = k)
    BY <1>4, <1>7, <1>8, StartedAt
  <2>2. BmsDelay["current"] \in Nat
    BY <1>7, DelayFacts
  <2>3. CASE bms.timers = h.timers
    BY <1>10, <2>3 DEF What
  <2>4. ASSUME NEW k \in TimerIds, bms.timers[k] = [what |-> "current", left |-> BmsDelay["current"]],
               \A i \in TimerIds : i # k => bms.timers[i] = h.timers[i]
        PROVE  <1>11!:
    <3>1. What(bms, k) = "current" /\ bms.timers[k].left \in Nat
      BY <2>2, <2>4 DEF What
    <3>2. \A i \in TimerIds : i # k => What(bms, i) = What(h, i) /\ bms.timers[i].left = h.timers[i].left
      BY <2>4 DEF What
    <3> QED BY <1>7, <1>10, <3>1, <3>2
  <2> QED BY <2>1, <2>3, <2>4
<1>12. /\ bms.pin = Both(FALSE) /\ bms.on = Both(FALSE) /\ bms.want = Both(FALSE)
       /\ bms.faulted = FALSE /\ bms.confirmed = FALSE
  BY <1>1, <1>8, <1>9 DEF SameRelays
<1>13. \A i, j \in TimerIds : What(bms, i) = What(bms, j) /\ What(bms, i) \in Periodic => i = j
  BY <1>7, <1>11
<1> QED BY <1>2, <1>9, <1>11, <1>12, <1>13

LEMMA BasicInit == BmsInit => BasicInv
<1> SUFFICES ASSUME BmsInit PROVE BasicInv
  OBVIOUS
<1>1. /\ BmsTypes(bms) /\ bms.faulted = FALSE /\ bms.confirmed = FALSE /\ closing = "no" /\ disturbed = FALSE
      /\ bms.pin = Both(FALSE) /\ bms.on = Both(FALSE) /\ bms.want = Both(FALSE) /\ contacts = Both(FALSE)
  BY BmsInitial
<1>2. /\ \A i \in TimerIds : bms.timers[i].left \in Nat
      /\ \A i, j \in TimerIds : What(bms, i) = What(bms, j) /\ What(bms, i) \in Periodic => i = j
  BY BmsInitial
<1>3. PinsTyped(bms, contacts)
  BY <1>1 DEF PinsTyped, Both
<1> QED BY <1>1, <1>2, <1>3 DEF BasicInv, Basic

LEMMA BmsInitInv == BmsInit => BmsInv
<1> SUFFICES ASSUME BmsInit PROVE BmsInv
  OBVIOUS
<1>1. BmsTypes(bms) /\ bms.faulted = FALSE /\ closing = "no"
  BY BmsInitial
<1>2. \A i \in TimerIds : What(bms, i) \in {"none", "heartbeat", "current"}
  BY BmsInitial
<1>3. NoStep(bms)
  BY <1>2 DEF NoStep, What, Steps
<1>4. Sound(bms)
  BY <1>1, <1>3 DEF Sound, NoStep, NextIsKept, StaysOpen
<1> QED BY <1>1, <1>4, BasicInit DEF BmsInv, BmsQuiet

\* Between the statements of a command to close only a fault starts the timer of a step.
LEMMA CallbackTakesNoStep ==
  ASSUME NEW s, Sound(s), NoStep(s), NEW i \in TimerIds, s.timers[i].what # "none", NEW over,
         NEW t, t = Cancel(Callback(s, i, over), i), t.faulted = FALSE
  PROVE  NoStep(t)
<1> DEFINE u == Callback(s, i, over)
<1>1. t = Cancel(u, i)
  OBVIOUS
<1>2. s.timers[i].what \in Whats /\ s.timers[i].what \notin Steps
  BY DEF Sound, BmsTypes, Timers, NoTimer, Whats, NoStep
<1>3. ASSUME BmsTypes(u), NoStep(u) \/ u.faulted = TRUE PROVE NoStep(t)
  <2> HIDE DEF u
  <2>1. (NoStep(u) => NoStep(t)) /\ t.faulted = u.faulted
    BY <1>1, <1>3, CancelKeeps
  <2> QED BY <1>3, <2>1
<1>4. CASE s.timers[i].what = "assert"
  <2>1. u = prv_relay_fault(s, TRUE) \/ u = s
    BY <1>4 DEF Callback, prv_assert_state
  <2> HIDE DEF u
  <2>2. BmsTypes(u) /\ (NoStep(u) \/ u.faulted = TRUE)
    BY <2>1, FaultIsSound DEF Sound
  <2> QED BY <1>3, <2>2
<1>5. CASE s.timers[i].what = "heartbeat"
  <2>1. u = StartTimer(s, "heartbeat", "periodic")
    BY <1>5 DEF Callback, prv_periodic_heartbeat
  <2> HIDE DEF u
  <2>2. Sound(u) /\ NoStep(u)
    BY <2>1, StartKeeps DEF Sound
  <2> QED BY <1>3, <2>2 DEF Sound
<1>6. CASE s.timers[i].what = "current"
  <2> DEFINE a == StartTimer(s, "current", "periodic")
             F == a.faults \ {"current"}
  <2>1. a = StartTimer(s, "current", "periodic")
    OBVIOUS
  <2>2. u = fault_bps_set(a, "current") \/ u = [a EXCEPT !.faults = F]
    BY <1>6 DEF Callback, prv_periodic_ads_read, fault_bps_clear
  <2> HIDE DEF u, a, F
  <2>3. Sound(a) /\ NoStep(a)
    BY <2>1, StartKeeps DEF Sound
  <2>4. CASE u = fault_bps_set(a, "current")
    <3>1. Sound(u) /\ u.faulted = TRUE
      BY <2>3, <2>4, FaultSetIsSound
    <3> QED BY <1>3, <3>1 DEF Sound
  <2>5. CASE u = [a EXCEPT !.faults = F]
    <3>1. Sound(u) /\ NoStep(u)
      BY <2>3, <2>5, SetFaults
    <3> QED BY <1>3, <3>1 DEF Sound
  <2> QED BY <2>2, <2>4, <2>5
<1> QED BY <1>2, <1>4, <1>5, <1>6 DEF Whats, Steps

\* Only opening relays at rest starts over.
LEMMA WasUndisturbed ==
  ASSUME BasicInv, [BmsNext]_bmsVars, ~PowerOffRx, disturbed' = FALSE
  PROVE  disturbed = FALSE
<1>1. disturbed \in {TRUE, FALSE}
  BY DEF BasicInv
<1>2. ASSUME NEW i \in TimerIds, TimerFires(i) PROVE disturbed = FALSE
  BY <1>1, <1>2 DEF TimerFires, MayDisturb
<1>3. ASSUME NEW f \in FaultSources, FaultRaised(f) PROVE disturbed = FALSE
  BY <1>1, <1>3 DEF FaultRaised, MayDisturb
<1>4. ASSUME NEW f \in FaultSources, FaultCleared(f) PROVE disturbed = FALSE
  BY <1>4 DEF FaultCleared
<1>5. ASSUME NEW r \in Relay, ContactMoves(r) PROVE disturbed = FALSE
  BY <1>5 DEF ContactMoves
<1>6. CASE BmsTick
  BY <1>6 DEF BmsTick
<1>7. CASE prv_io_int_callback
  BY <1>7 DEF prv_io_int_callback
<1>8. CASE PowerOnRx
  BY <1>1, <1>8 DEF PowerOnRx
<1>9. CASE StartAssertion
  BY <1>9 DEF StartAssertion
<1>10. CASE StartNextStep
  BY <1>10 DEF StartNextStep
<1>11. CASE UNCHANGED bmsVars
  BY <1>11 DEF bmsVars
<1> QED BY <1>2, <1>3, <1>4, <1>5, <1>6, <1>7, <1>8, <1>9, <1>10, <1>11 DEF BmsNext

\* Without a disturbance a fault or its callback strikes between commands.
LEMMA FaultStrikes ==
  ASSUME disturbed' = FALSE, MayDisturb, bms'.faulted = TRUE
  PROVE  closing = "no"
BY DEF MayDisturb

LEMMA BmsInvNext == BmsInv /\ [BmsNext]_bmsVars => BmsInv'
<1> SUFFICES ASSUME BmsInv, [BmsNext]_bmsVars PROVE BmsInv'
  OBVIOUS
<1>1. BasicInv /\ BasicInv'
  BY BasicNext DEF BmsInv
<1>2. disturbed \in {TRUE, FALSE} /\ disturbed' \in {TRUE, FALSE} /\ BmsTypes(bms) /\ bms.faulted \in {TRUE, FALSE}
  BY <1>1 DEF BasicInv, Basic
<1> SUFFICES ASSUME disturbed' = FALSE PROVE BmsQuiet'
  BY <1>1, <1>2 DEF BmsInv
<1>3. CASE PowerOffRx
  <2> DEFINE c == [bms EXCEPT !.faulted = FALSE]
  <2>1. c = [bms EXCEPT !.faulted = FALSE]
    OBVIOUS
  <2>2. bms' = relay_open_sequence(c) /\ closing' = "no" /\ ~UnderWay
    BY <1>3 DEF PowerOffRx
  <2> HIDE DEF c
  <2>3. BmsTypes(c) /\ c.timers = bms.timers /\ c.faulted = FALSE
    <3>1. c = [pin |-> bms.pin, on |-> bms.on, want |-> bms.want, assertion |-> bms.assertion,
               next |-> bms.next, periodic |-> bms.periodic, faults |-> bms.faults,
               timers |-> bms.timers, faulted |-> FALSE, confirmed |-> bms.confirmed]
      BY <1>2, <2>1 DEF BmsTypes
    <3> QED BY <1>2, <3>1 DEF BmsTypes
  <2>4. NoStep(c)
    BY <2>2, <2>3 DEF UnderWay, Awaits, Steps, NoStep
  <2>5. Sound(bms') /\ bms'.faulted = FALSE
    BY <2>2, <2>3, <2>4, OpenSequence
  <2> QED BY <2>2, <2>5 DEF BmsQuiet
<1> SUFFICES ASSUME ~PowerOffRx PROVE BmsQuiet'
  BY <1>3
<1>4. disturbed = FALSE
  BY <1>1, WasUndisturbed
<1>5. Sound(bms) /\ (closing # "no" => bms.faulted = FALSE /\ NoStep(bms))
  BY <1>4 DEF BmsInv, BmsQuiet
<1>6. ASSUME Sound(bms'), closing' # "no" => bms'.faulted = FALSE /\ NoStep(bms') PROVE BmsQuiet'
  BY <1>6 DEF BmsQuiet
<1>7. ASSUME NEW i \in TimerIds, TimerFires(i) PROVE BmsQuiet'
  <2>1. closing' = closing /\ MayDisturb
    BY <1>7 DEF TimerFires
  <2>2. PICK over \in BOOLEAN : bms' = Cancel(Callback(bms, i, over), i)
    BY <1>7 DEF TimerFires
  <2>3. bms.timers[i] # NoTimer /\ bms.timers[i].left = 0
    BY <1>7 DEF TimerFires, Running
  <2>4. bms.timers[i].what # "none"
    BY <1>2, <2>3 DEF BmsTypes, Timers
  <2>5. Sound(bms') /\ bms'.faulted \in {TRUE, FALSE}
    BY <1>2, <1>5, <2>2, <2>3, <2>4, CallbackIsSound
  <2>6. ASSUME closing # "no" PROVE bms'.faulted = FALSE /\ NoStep(bms')
    <3>1. bms'.faulted = FALSE
      BY <2>1, <2>5, <2>6, FaultStrikes
    <3>2. NoStep(bms)
      BY <1>5, <2>6
    <3>3. NoStep(bms')
      BY <1>5, <2>2, <2>4, <3>1, <3>2, CallbackTakesNoStep
    <3> QED BY <3>1, <3>3
  <2> QED BY <1>6, <2>1, <2>5, <2>6
<1>8. CASE BmsTick
  <2>1. closing' = "no"
    BY <1>8 DEF BmsTick
  <2>2. /\ Basic(bms', contacts', {}) /\ SameRelays(bms, bms') /\ bms'.next = bms.next
        /\ \A i \in TimerIds : What(bms', i) = What(bms, i)
    BY <1>1, <1>8, BasicTick
  <2>3. NextIsKept(bms') /\ StaysOpen(bms')
    BY <1>5, <2>2 DEF Sound, NextIsKept, StaysOpen, SameRelays, What
  <2> QED BY <1>6, <2>1, <2>2, <2>3 DEF Sound, Basic
<1>9. ASSUME NEW f \in FaultSources, FaultRaised(f) PROVE BmsQuiet'
  <2>1. closing' = closing /\ bms' = fault_bps_set(bms, f) /\ MayDisturb
    BY <1>9 DEF FaultRaised
  <2>2. Sound(bms') /\ bms'.faulted = TRUE
    BY <1>5, <2>1, FaultSetIsSound
  <2> QED BY <1>6, <2>1, <2>2, FaultStrikes
<1>10. ASSUME NEW f \in FaultSources, FaultCleared(f) PROVE BmsQuiet'
  <2> DEFINE F == bms.faults \ {f}
  <2>1. closing' = closing /\ bms' = [bms EXCEPT !.faults = F]
    BY <1>10 DEF FaultCleared, fault_bps_clear
  <2> HIDE DEF F
  <2>2. Sound(bms') /\ bms'.faulted = bms.faulted /\ (NoStep(bms) => NoStep(bms'))
    BY <1>5, <2>1, SetFaults
  <2> QED BY <1>5, <1>6, <2>1, <2>2
<1>11. CASE prv_io_int_callback
  <2>1. closing' = closing /\ bms' = [bms EXCEPT !.on = contacts]
    BY <1>11 DEF prv_io_int_callback
  <2>2. bms' = [pin |-> bms.pin, on |-> contacts, want |-> bms.want, assertion |-> bms.assertion,
                next |-> bms.next, periodic |-> bms.periodic, faults |-> bms.faults,
                timers |-> bms.timers, faulted |-> bms.faulted, confirmed |-> bms.confirmed]
    BY <1>2, <2>1 DEF BmsTypes
  <2>3. BmsTypes(bms')
    BY <1>2, <2>2 DEF BmsTypes
  <2>4. /\ NextIsKept(bms') /\ StaysOpen(bms') /\ bms'.faulted = bms.faulted
        /\ NoStep(bms) => NoStep(bms')
    BY <1>5, <2>2 DEF Sound, NextIsKept, StaysOpen, NoStep
  <2> QED BY <1>5, <1>6, <2>1, <2>3, <2>4 DEF Sound
<1>12. ASSUME NEW r \in Relay, ContactMoves(r) PROVE BmsQuiet'
  BY <1>5, <1>6, <1>12 DEF ContactMoves
<1>13. CASE PowerOnRx
  <2>1. bms' = [pin |-> [bms.pin EXCEPT !["gnd"] = TRUE], on |-> bms.on, want |-> GndOnly,
                assertion |-> bms.assertion, next |-> bms.next, periodic |-> bms.periodic,
                faults |-> bms.faults, timers |-> bms.timers, faulted |-> FALSE,
                confirmed |-> FALSE]
    BY <1>2, <1>13 DEF PowerOnRx, BmsTypes
  <2>2. BmsTypes(bms') /\ bms'.timers = bms.timers /\ bms'.faulted = FALSE
    BY <1>2, <2>1 DEF BmsTypes
  <2>3. ~UnderWay
    BY <1>13 DEF PowerOnRx
  <2>4. NoStep(bms')
    BY <2>2, <2>3 DEF UnderWay, Awaits, NoStep, Steps
  <2> QED BY <1>6, <2>2, <2>4 DEF Sound, NoStep, NextIsKept, StaysOpen
<1>14. CASE StartAssertion
  <2>1. bms' = StartTimer(bms, "assert", "assertion") /\ closing = "pin set"
    BY <1>14 DEF StartAssertion
  <2>2. Sound(bms') /\ NoStep(bms') /\ bms'.faulted = FALSE
    BY <1>5, <2>1, StartKeeps DEF Sound
  <2> QED BY <1>6, <2>2
<1>15. CASE StartNextStep
  <2>1. bms' = StartTimer(bms, "hv", "next") /\ closing = "asserting" /\ closing' = "no"
    BY <1>15 DEF StartNextStep
  <2>2. NoStep(bms) /\ bms.faulted = FALSE /\ "hv" \in Steps
    BY <1>5, <2>1 DEF Steps
  <2>3. Sound(bms') /\ bms'.faulted = bms.faulted
    BY <1>2, <2>1, <2>2, StartStep
  <2> QED BY <1>6, <2>1, <2>3
<1>16. CASE UNCHANGED bmsVars
  <2>1. bms' = bms /\ closing' = closing
    BY <1>16 DEF bmsVars
  <2> QED BY <1>5, <1>6, <2>1
<1> QED
  BY <1>7, <1>8, <1>9, <1>10, <1>11, <1>12, <1>13, <1>14, <1>15, <1>16 DEF BmsNext

\* Once a fault has opened the relays nothing drives them before the next command of the console,
\* for every number of timers and every set of faults: the timer a fault must cancel is the one
\* whose id is kept (fault_bps.c:14-21, relay_sequence.c:18-32).  Faults and timers strike anywhere
\* and commands come at any time; what two mixed sequences do is excused until relays at rest are
\* told to open.
THEOREM FaultAlwaysOpensRelays == BmsSpec => []FaultOpensRelays
<1>1. BmsInit => BmsInv
  BY BmsInitInv
<1>2. BmsInv /\ [BmsNext]_bmsVars => BmsInv'
  BY BmsInvNext
<1>3. BmsInv => FaultOpensRelays
  BY DEF BmsInv, BmsQuiet, BasicInv, Sound, StaysOpen, FaultOpensRelays
<1> QED BY <1>1, <1>2, <1>3, PTL DEF BmsSpec

LEMMA CancelOrderly ==
  ASSUME NEW s, BmsTypes(s), NEW k, Orderly(s, {k}), NEW t, t = Cancel(s, k)
  PROVE  Orderly(t, {})
<1>1. /\ t.assertion = s.assertion
      /\ \A i \in TimerIds : t.timers[i] = IF i = k THEN NoTimer ELSE s.timers[i]
  BY CancelledAt
<1>2. NoTimer.what = "none" /\ NoTimer.left = 0 /\ "none" \notin Steps
  BY DEF NoTimer, Steps
<1> QED BY <1>1, <1>2 DEF Orderly, What

LEMMA StartAssertOrderly ==
  ASSUME NEW s, BmsTypes(s), NEW E, Orderly(s, E), NoAssert(s), \A i \in TimerIds \ E : What(s, i) \notin Steps,
         NEW t, t = StartTimer(s, "assert", "assertion")
  PROVE  /\ Orderly(t, E) /\ \A i \in TimerIds \ E : What(t, i) \notin Steps
         /\ \A i \in TimerIds : What(t, i) = "assert" => t.timers[i].left = 1
         /\ FreeIds(s) # {} => ~NoAssert(t)
<1>1. "assert" \in Whats \ {"none"} /\ "assertion" \in Ids /\ "assert" \notin Steps
  BY DEF Whats, Steps, Ids
<1>2. CASE FreeIds(s) = {} /\ t.timers = s.timers
  <2>1. \A i \in TimerIds : What(t, i) = What(s, i) /\ t.timers[i].left = s.timers[i].left
    BY <1>2 DEF What
  <2> QED BY <1>2, <2>1 DEF Orderly, NoAssert
<1>3. ASSUME NEW k \in TimerIds, s.timers[k] = NoTimer,
             t.timers[k] = [what |-> "assert", left |-> BmsDelay["assert"]],
             \A i \in TimerIds : i # k => t.timers[i] = s.timers[i], t.assertion = k
      PROVE  /\ Orderly(t, E) /\ \A i \in TimerIds \ E : What(t, i) \notin Steps
             /\ \A i \in TimerIds : What(t, i) = "assert" => t.timers[i].left = 1
             /\ ~NoAssert(t)
  <2>1. What(t, k) = "assert" /\ t.timers[k].left = 1
    BY <1>3, DelayFacts DEF What
  <2>2. \A i \in TimerIds : i # k => What(t, i) = What(s, i) /\ t.timers[i].left = s.timers[i].left
    BY <1>3 DEF What
  <2>3. \A i \in TimerIds \ E : What(t, i) \notin Steps
    BY <1>1, <2>1, <2>2
  <2>4. \A i \in TimerIds : What(t, i) = "assert" => i = k
    BY <2>2 DEF NoAssert
  <2> QED BY <1>3, <2>1, <2>2, <2>3, <2>4 DEF Orderly, NoAssert
<1>4. \/ FreeIds(s) = {} /\ t.timers = s.timers
      \/ \E k \in TimerIds :
                 /\ s.timers[k] = NoTimer /\ t.timers[k] = [what |-> "assert", left |-> BmsDelay["assert"]]
                 /\ \A i \in TimerIds : i # k => t.timers[i] = s.timers[i]
                 /\ t.assertion = k
  BY <1>1, StartedAt
<1> QED BY <1>2, <1>3, <1>4

\* The next step is due after the assertion.
LEMMA StartStepOrderly ==
  ASSUME NEW s, BmsTypes(s), NEW E, Orderly(s, E), \A i \in TimerIds : What(s, i) = "assert" => s.timers[i].left = 1,
         NEW what \in Steps, NEW t, t = StartTimer(s, what, "next")
  PROVE  /\ Orderly(t, E)
         /\ \A i \in TimerIds : t.timers[i] = s.timers[i] \/ (What(s, i) = "none" /\ What(t, i) = what)
<1>1. what \in Whats \ {"none"} /\ "next" \in Ids /\ what \notin {"assert", "current", "heartbeat"}
  BY DEF Whats, Steps, Ids
<1>2. t.assertion = s.assertion
  BY <1>1, StartedKeeps
<1>3. CASE t.timers = s.timers
  <2>1. \A i \in TimerIds : What(t, i) = What(s, i) /\ t.timers[i].left = s.timers[i].left
    BY <1>3 DEF What
  <2> QED BY <1>2, <1>3, <2>1 DEF Orderly
<1>4. ASSUME NEW k \in TimerIds, s.timers[k] = NoTimer, t.timers[k] = [what |-> what, left |-> BmsDelay[what]],
             \A i \in TimerIds : i # k => t.timers[i] = s.timers[i]
      PROVE  /\ Orderly(t, E)
             /\ \A i \in TimerIds : t.timers[i] = s.timers[i] \/ (What(s, i) = "none" /\ What(t, i) = what)
  <2>1. What(t, k) = what /\ t.timers[k].left = 3 /\ What(s, k) = "none"
    BY <1>4, DelayFacts DEF What, NoTimer
  <2>2. \A i \in TimerIds : i # k => What(t, i) = What(s, i) /\ t.timers[i].left = s.timers[i].left
    BY <1>4 DEF What
  <2>3. Orderly(t, E)
    BY <1>1, <1>2, <2>1, <2>2 DEF Orderly
  <2> QED BY <1>4, <2>1, <2>3
<1>5. \/ t.timers = s.timers
      \/ \E k \in TimerIds :
                 /\ s.timers[k] = NoTimer /\ t.timers[k] = [what |-> what, left |-> BmsDelay[what]]
                 /\ \A i \in TimerIds : i # k => t.timers[i] = s.timers[i]
  BY <1>1, StartedAt
<1> QED BY <1>3, <1>4, <1>5

\* A measurement schedules its next one before its own timer is removed.
LEMMA StartPeriodicOrderly ==
  ASSUME NEW s, BmsTypes(s), Orderly(s, {}), NEW i0 \in TimerIds, NEW what \in {"current", "heartbeat"},
         What(s, i0) = what, NEW t, t = StartTimer(s, what, "periodic")
  PROVE  /\ Orderly(t, {i0}) /\ SameRelays(s, t) /\ BmsTypes(t) /\ t.assertion = s.assertion /\ t.next = s.next
         /\ \A i \in TimerIds : \/ t.timers[i] = s.timers[i]
                                \/ What(s, i) = "none" /\ What(t, i) = what /\ t.timers[i].left \in Nat
<1>1. what \in Whats \ {"none"} /\ "periodic" \in Ids /\ what \notin Steps /\ what # "assert"
  BY DEF Whats, Steps, Ids
<1>2. t.assertion = s.assertion /\ t.next = s.next /\ SameRelays(s, t) /\ BmsTypes(t)
  BY <1>1, StartedKeeps
<1>3. CASE t.timers = s.timers
  <2>1. \A i \in TimerIds : What(t, i) = What(s, i) /\ t.timers[i].left = s.timers[i].left
    BY <1>3 DEF What
  <2> QED BY <1>2, <1>3, <2>1 DEF Orderly
<1>4. ASSUME NEW k \in TimerIds, s.timers[k] = NoTimer, t.timers[k] = [what |-> what, left |-> BmsDelay[what]],
             \A i \in TimerIds : i # k => t.timers[i] = s.timers[i]
      PROVE  /\ Orderly(t, {i0})
             /\ \A i \in TimerIds : \/ t.timers[i] = s.timers[i]
                                    \/ What(s, i) = "none" /\ What(t, i) = what /\ t.timers[i].left \in Nat
  <2>1. What(t, k) = what /\ t.timers[k].left \in Nat /\ What(s, k) = "none"
    BY <1>1, <1>4, DelayFacts DEF What, NoTimer
  <2>2. \A i \in TimerIds : i # k => What(t, i) = What(s, i) /\ t.timers[i].left = s.timers[i].left
    BY <1>4 DEF What
  <2>3. \A i \in TimerIds \ {i0} : i # k => What(t, i) # what
    BY <2>2 DEF Orderly
  <2>4. Orderly(t, {i0})
    BY <1>1, <1>2, <2>1, <2>2, <2>3 DEF Orderly
  <2> QED BY <1>4, <2>1, <2>4
<1>5. \/ t.timers = s.timers
      \/ \E k \in TimerIds :
                 /\ s.timers[k] = NoTimer /\ t.timers[k] = [what |-> what, left |-> BmsDelay[what]]
                 /\ \A i \in TimerIds : i # k => t.timers[i] = s.timers[i]
  BY <1>1, StartedAt
<1> QED BY <1>2, <1>3, <1>4, <1>5

-----------------------------------------------------------------------------
(* What is sensed against what is expected: sequences and faults            *)

\* Opening the relays, when no sequence is under way.
LEMMA OpenOrderly ==
  ASSUME NEW s, BmsTypes(s), Orderly(s, {}), NoAssert(s), NoStep(s), NEW t, t = relay_open_sequence(s)
  PROVE  /\ Orderly(t, {}) /\ t.pin = Both(FALSE) /\ t.want = Both(FALSE) /\ t.confirmed = FALSE
         /\ t.on = s.on /\ t.faulted = s.faulted
         /\ \A i \in TimerIds : /\ What(t, i) = "assert" => t.timers[i].left = 1
                                /\ What(t, i) \notin {"hv", "closed"}
         /\ FreeIds(s) # {} => ~NoAssert(t)
<1> DEFINE o == Opening(s)
           a == StartTimer(o, "assert", "assertion")
<1>1. o = Opening(s) /\ a = StartTimer(o, "assert", "assertion")
  OBVIOUS
<1>2. t = StartTimer(a, "opened", "next")
  BY DEF relay_open_sequence
<1> HIDE DEF o, a
<1>3. /\ BmsTypes(o) /\ o.pin = Both(FALSE) /\ o.want = Both(FALSE) /\ o.confirmed = FALSE
      /\ o.on = s.on /\ o.faulted = s.faulted /\ o.timers = s.timers /\ o.assertion = s.assertion
  BY <1>1, OpeningAt
<1>4. /\ Orderly(o, {}) /\ NoAssert(o) /\ \A i \in TimerIds \ {} : What(o, i) \notin Steps
      /\ FreeIds(o) = FreeIds(s)
  BY <1>3 DEF Orderly, What, NoAssert, NoStep, FreeIds
<1>5. /\ "assert" \in Whats \ {"none"} /\ "opened" \in Whats \ {"none"} /\ "opened" \in Steps
      /\ "assertion" \in Ids /\ "next" \in Ids
  BY DEF Whats, Steps, Ids
<1>6. BmsTypes(a) /\ SameRelays(o, a)
  <2>1. BmsTypes(o) /\ a = StartTimer(o, "assert", "assertion")
    BY <1>1, <1>3
  <2> QED BY <1>5, <2>1, StartedKeeps
<1>7. /\ Orderly(a, {}) /\ \A i \in TimerIds \ {} : What(a, i) \notin Steps
      /\ \A i \in TimerIds : What(a, i) = "assert" => a.timers[i].left = 1
      /\ FreeIds(o) # {} => ~NoAssert(a)
  BY <1>1, <1>3, <1>4, StartAssertOrderly
<1>8. SameRelays(a, t)
  BY <1>2, <1>5, <1>6, StartedKeeps
<1>9. /\ Orderly(t, {})
      /\ \A i \in TimerIds : t.timers[i] = a.timers[i] \/ (What(a, i) = "none" /\ What(t, i) = "opened")
  BY <1>2, <1>5, <1>6, <1>7, StartStepOrderly
<1>10. \A i \in TimerIds : /\ What(t, i) = "assert" => t.timers[i].left = 1
                           /\ What(t, i) \notin {"hv", "closed"}
  BY <1>7, <1>9 DEF What, Steps
<1>11. FreeIds(s) # {} => ~NoAssert(t)
  BY <1>4, <1>7, <1>9 DEF What, NoAssert
<1> QED BY <1>3, <1>6, <1>8, <1>9, <1>10, <1>11 DEF SameRelays

AssertIsKept(s) == \A i \in TimerIds : What(s, i) = "assert" => i = s.assertion

\* All that a fault leaves is the timers of the measurements.
Opened(s, t) ==
  /\ \A i \in TimerIds : t.timers[i] = NoTimer \/ (t.timers[i] = s.timers[i] /\ What(s, i) \in Periodic)
  /\ t.pin = Both(FALSE) /\ t.want = Both(FALSE) /\ t.confirmed = FALSE /\ t.on = s.on /\ t.faulted = TRUE

LEMMA FaultLeaves ==
  ASSUME NEW s, BmsTypes(s), NextIsKept(s), AssertIsKept(s),
         NEW b, NEW t, t = prv_relay_fault(s, b)
  PROVE  Opened(s, t)
<1> DEFINE c == Cancel(s, s.assertion)
           d == Cancel(c, s.next)
           p == Opening(d)
           a == StartTimer(p, "assert", "assertion")
           o == StartTimer(a, "opened", "next")
           e == Cancel(o, o.assertion)
           g == Cancel(e, o.next)
           F == IF b THEN g.faults \cup {"relay"} ELSE g.faults
<1>1. /\ c = Cancel(s, s.assertion) /\ d = Cancel(c, s.next) /\ p = Opening(d)
      /\ a = StartTimer(p, "assert", "assertion") /\ o = StartTimer(a, "opened", "next")
      /\ e = Cancel(o, o.assertion) /\ g = Cancel(e, o.next)
  OBVIOUS
<1>2. t = [g EXCEPT !.faults = F, !.faulted = TRUE]
  BY DEF prv_relay_fault, CancelBoth, relay_open_sequence
<1> HIDE DEF c, d, p, a, o, e, g, F
<1>3. NoTimer.what = "none" /\ "none" \notin Steps
  BY DEF NoTimer, Steps
<1>4. /\ BmsTypes(c) /\ SameRelays(s, c)
      /\ \A i \in TimerIds : c.timers[i] = IF i = s.assertion THEN NoTimer ELSE s.timers[i]
  BY <1>1, CancelledAt
<1>5. /\ BmsTypes(d) /\ SameRelays(c, d)
      /\ \A i \in TimerIds : d.timers[i] = IF i = s.next THEN NoTimer ELSE c.timers[i]
  BY <1>1, <1>4, CancelledAt
<1>6. \A i \in TimerIds : d.timers[i] = NoTimer \/ (d.timers[i] = s.timers[i] /\ What(s, i) \in Periodic)
  <2> SUFFICES ASSUME NEW i \in TimerIds, d.timers[i] # NoTimer
               PROVE  d.timers[i] = s.timers[i] /\ What(s, i) \in Periodic
    OBVIOUS
  <2>1. i # s.next /\ i # s.assertion /\ d.timers[i] = s.timers[i]
    BY <1>4, <1>5
  <2>2. What(s, i) # "assert" /\ What(s, i) \notin Steps
    BY <2>1 DEF NextIsKept, AssertIsKept, What
  <2>3. What(s, i) \in Whats /\ What(s, i) # "none"
    <3>1. s.timers[i] \in Timers
      BY DEF BmsTypes
    <3>2. s.timers[i] # NoTimer
      BY <2>1
    <3> QED BY <3>1, <3>2 DEF Timers, What
  <2> QED BY <2>1, <2>2, <2>3 DEF Whats, Periodic
<1>7. /\ BmsTypes(p) /\ p.pin = Both(FALSE) /\ p.want = Both(FALSE) /\ p.confirmed = FALSE
      /\ p.on = d.on /\ p.timers = d.timers
  <2>1. BmsTypes(d) /\ p = Opening(d)
    BY <1>1, <1>5
  <2> QED BY <2>1, OpeningAt
<1>8. /\ "assert" \in Whats \ {"none"} /\ "opened" \in Whats \ {"none"}
      /\ "assertion" \in Ids /\ "next" \in Ids /\ "next" # "assertion"
  BY DEF Whats, Steps, Ids
<1>9. BmsTypes(a) /\ SameRelays(p, a)
  BY <1>1, <1>7, <1>8, StartedKeeps
<1>10. \A i \in TimerIds : a.timers[i] = p.timers[i] \/ i = a.assertion
  <2>1. BmsTypes(p) /\ a = StartTimer(p, "assert", "assertion")
    BY <1>1, <1>7
  <2> QED BY <1>8, <2>1, StartedOnly
<1>11. BmsTypes(o) /\ SameRelays(a, o) /\ o.assertion = a.assertion
  BY <1>1, <1>8, <1>9, StartedKeeps
<1>12. \A i \in TimerIds : o.timers[i] = a.timers[i] \/ i = o.next
  <2>1. BmsTypes(a) /\ o = StartTimer(a, "opened", "next")
    BY <1>1, <1>9
  <2> QED BY <1>8, <2>1, StartedOnly
<1>13. /\ BmsTypes(e) /\ SameRelays(o, e)
       /\ \A i \in TimerIds : e.timers[i] = IF i = o.assertion THEN NoTimer ELSE o.timers[i]
  BY <1>1, <1>11, CancelledAt
<1>14. /\ BmsTypes(g) /\ SameRelays(e, g)
       /\ \A i \in TimerIds : g.timers[i] = IF i = o.next THEN NoTimer ELSE e.timers[i]
  BY <1>1, <1>13, CancelledAt
<1>15. \A i \in TimerIds : g.timers[i] = NoTimer \/ g.timers[i] = d.timers[i]
  BY <1>7, <1>10, <1>11, <1>12, <1>13, <1>14
<1>16. /\ t.timers = g.timers /\ t.pin = g.pin /\ t.want = g.want /\ t.confirmed = g.confirmed /\ t.on = g.on
       /\ t.faulted = TRUE
  BY <1>2, <1>14 DEF BmsTypes
<1>17. \A i \in TimerIds : t.timers[i] = NoTimer \/ (t.timers[i] = s.timers[i] /\ What(s, i) \in Periodic)
  BY <1>6, <1>15, <1>16
<1>18. g.pin = p.pin /\ g.want = p.want /\ g.confirmed = p.confirmed /\ g.on = s.on
  BY <1>4, <1>5, <1>7, <1>9, <1>11, <1>13, <1>14 DEF SameRelays
<1> QED BY <1>7, <1>16, <1>17, <1>18 DEF Opened

-----------------------------------------------------------------------------
(* What is sensed against what is expected: the invariant                   *)

\* Contacts, sensing, expectation and pins agree.
Rest(s, c) == c = s.on /\ s.on = s.want /\ s.want = s.pin

\* A pin other than expected has been followed; what an assertion that is due does not see yet can
\* only be a contact that followed its pin.
Sensed(s, c) ==
  /\ PinsTyped(s, c)
  /\ \A r \in Relay : s.pin[r] # s.want[r] => c[r] = s.pin[r] /\ s.on[r] = s.pin[r]
  /\ \A i \in TimerIds : What(s, i) = "assert" /\ s.timers[i].left = 0 =>
                           \A r \in Relay : c[r] = s.on[r] \/ c[r] = s.pin[r]
  /\ \A i \in TimerIds : What(s, i) = "hv" => s.pin["gnd"] = TRUE
  /\ \A i \in TimerIds : What(s, i) = "closed" => s.pin = Both(TRUE) /\ s.want = Both(TRUE)
  /\ s.confirmed = TRUE => s.pin = Both(TRUE) /\ s.faulted = FALSE /\ NoStep(s) /\ NoAssert(s)
  /\ s.faulted = TRUE => NoStep(s) /\ NoAssert(s)
  /\ s.confirmed \in {TRUE, FALSE} /\ s.faulted \in {TRUE, FALSE}

\* Without a fault and an assertion to come everything agrees.
Calm(s, c) == s.faulted = FALSE /\ NoAssert(s) => Rest(s, c)

Settled(s, c) == Orderly(s, {}) /\ Sensed(s, c) /\ Calm(s, c)

SenseQuiet ==
  /\ Orderly(bms, {}) /\ Sensed(bms, contacts)
  /\ closing = "no" => Calm(bms, contacts)
  /\ closing # "no" => bms.pin["gnd"] = TRUE /\ bms.confirmed = FALSE
  /\ closing = "pin set" => NoAssert(bms)
  /\ closing = "asserting" => /\ ~NoAssert(bms)
                              /\ \A i \in TimerIds : What(bms, i) = "assert" => bms.timers[i].left = 1

SenseInv == BmsInv /\ (disturbed = TRUE \/ SenseQuiet)

LEMMA SensedKept ==
  ASSUME NEW s, NEW c, Sensed(s, c), NEW t, SameRelays(s, t),
         \A i \in TimerIds : \/ t.timers[i] = s.timers[i]
                             \/ What(t, i) \in Periodic \cup {"none"} /\ What(s, i) # "assert"
  PROVE  /\ Sensed(t, c) /\ (Calm(s, c) => Calm(t, c))
         /\ (NoAssert(t) <=> NoAssert(s)) /\ (NoStep(s) => NoStep(t))
<1>1. /\ t.pin = s.pin /\ t.on = s.on /\ t.want = s.want
      /\ t.faulted = s.faulted /\ t.confirmed = s.confirmed
  BY DEF SameRelays
<1>2. \A i \in TimerIds : What(t, i) \notin Periodic \cup {"none"} => t.timers[i] = s.timers[i]
  OBVIOUS
<1>3. \A i \in TimerIds : What(s, i) = "assert" => t.timers[i] = s.timers[i]
  OBVIOUS
<1>4. Steps \cap (Periodic \cup {"none"}) = {} /\ "assert" \notin Periodic \cup {"none"}
  BY DEF Steps, Periodic
<1>5. NoAssert(t) <=> NoAssert(s)
  BY <1>2, <1>3, <1>4 DEF NoAssert, What
<1>6. NoStep(s) => NoStep(t)
  BY <1>2, <1>4 DEF NoStep, What
<1>7. \A i \in TimerIds : What(t, i) \in {"hv", "closed", "assert"} => t.timers[i] = s.timers[i]
  BY <1>2, <1>4 DEF Steps
<1>8. Calm(s, c) => Calm(t, c)
  BY <1>1, <1>5 DEF Calm, Rest
<1>9. PinsTyped(t, c) /\ \A r \in Relay : t.pin[r] # t.want[r] => c[r] = t.pin[r] /\ t.on[r] = t.pin[r]
  BY <1>1 DEF Sensed, PinsTyped
<1>10. \A i \in TimerIds : What(t, i) = "assert" /\ t.timers[i].left = 0 =>
                           \A r \in Relay : c[r] = t.on[r] \/ c[r] = t.pin[r]
  BY <1>1, <1>7 DEF Sensed, What
<1>11. \A i \in TimerIds : What(t, i) = "hv" => t.pin["gnd"] = TRUE
  BY <1>1, <1>7 DEF Sensed, What
<1>12. \A i \in TimerIds : What(t, i) = "closed" => t.pin = Both(TRUE) /\ t.want = Both(TRUE)
  BY <1>1, <1>7 DEF Sensed, What
<1>13. /\ t.confirmed = TRUE => t.pin = Both(TRUE) /\ t.faulted = FALSE /\ NoStep(t) /\ NoAssert(t)
       /\ t.faulted = TRUE => NoStep(t) /\ NoAssert(t)
       /\ t.confirmed \in {TRUE, FALSE} /\ t.faulted \in {TRUE, FALSE}
  BY <1>1, <1>5, <1>6 DEF Sensed
<1> QED BY <1>5, <1>6, <1>8, <1>9, <1>10, <1>11, <1>12, <1>13 DEF Sensed

\* A timer that asserts nothing is removed.
LEMMA CancelSettled ==
  ASSUME NEW s, BmsTypes(s), NEW c, NEW k, Orderly(s, {k}), Sensed(s, c), Calm(s, c),
         k \in TimerIds => What(s, k) # "assert", NEW t, t = Cancel(s, k)
  PROVE  Settled(t, c)
<1>1. SameRelays(s, t) /\ \A i \in TimerIds : t.timers[i] = IF i = k THEN NoTimer ELSE s.timers[i]
  BY CancelledAt
<1>2. \A i \in TimerIds : \/ t.timers[i] = s.timers[i]
                          \/ What(t, i) \in Periodic \cup {"none"} /\ What(s, i) # "assert"
  BY <1>1 DEF What, NoTimer
<1>3. Orderly(t, {})
  BY CancelOrderly
<1> QED BY <1>1, <1>2, <1>3, SensedKept DEF Settled

LEMMA Loosely ==
  ASSUME NEW s, Orderly(s, {}), NEW k
  PROVE  Orderly(s, {k})
BY DEF Orderly

\* A fault leaves both relays opened and expected open, and no timer but the measurements'.
LEMMA FaultSettled ==
  ASSUME NEW s, BmsTypes(s), NEW c, NextIsKept(s), AssertIsKept(s), NEW E, Orderly(s, E), PinsTyped(s, c),
         NEW b, NEW t, t = prv_relay_fault(s, b)
  PROVE  Orderly(t, E) /\ Sensed(t, c) /\ Calm(t, c) /\ NoAssert(t)
<1>1. Opened(s, t)
  BY FaultLeaves
<1>2. \A i \in TimerIds : /\ What(t, i) \in Periodic \cup {"none"}
                          /\ What(t, i) \in Periodic => t.timers[i] = s.timers[i] /\ What(t, i) = What(s, i)
                          /\ t.timers[i].left = 0 \/ t.timers[i] = s.timers[i]
  BY <1>1 DEF Opened, What, NoTimer, Periodic
<1>3. NoStep(t) /\ NoAssert(t)
  BY <1>2 DEF NoStep, NoAssert, What, Periodic, Steps
<1>4. Orderly(t, E)
  <2>1. \A i \in TimerIds \ E : t.timers[i].left \in Nat
    BY <1>2 DEF Orderly
  <2>2. \A i \in TimerIds : What(t, i) # "assert" /\ What(t, i) \notin Steps
    BY <1>3 DEF NoStep, NoAssert, What
  <2>3. \A i, j \in TimerIds \ E : What(t, i) = What(t, j) /\ What(t, i) \in {"current", "heartbeat"} => i = j
    BY <1>2 DEF Orderly, Periodic
  <2> QED BY <2>1, <2>2, <2>3 DEF Orderly
<1>5. PinsTyped(t, c)
  BY <1>1 DEF Opened, PinsTyped, Both
<1>6. \A i \in TimerIds : What(t, i) \notin {"assert", "hv", "closed"}
  BY <1>2 DEF Periodic
<1>7. Sensed(t, c)
  BY <1>1, <1>3, <1>5, <1>6 DEF Opened, Sensed
<1> QED BY <1>1, <1>3, <1>4, <1>7 DEF Opened, Calm

LEMMA RecordSettled ==
  ASSUME NEW s, BmsTypes(s), NEW c, NEW E, Orderly(s, E), Sensed(s, c), Calm(s, c),
         NEW F, NEW t, t = [s EXCEPT !.faults = F]
  PROVE  Orderly(t, E) /\ Sensed(t, c) /\ Calm(t, c)
<1>1. SameRelays(s, t) /\ t.timers = s.timers /\ t.assertion = s.assertion
  BY RecordFaults
<1>2. Orderly(t, E)
  BY <1>1 DEF Orderly, What
<1>3. \A i \in TimerIds : \/ t.timers[i] = s.timers[i]
                          \/ What(t, i) \in Periodic \cup {"none"} /\ What(s, i) # "assert"
  BY <1>1
<1> QED BY <1>1, <1>2, <1>3, SensedKept

LEMMA FaultSetSettled ==
  ASSUME NEW s, BmsTypes(s), NEW c, NextIsKept(s), AssertIsKept(s), NEW E, Orderly(s, E), PinsTyped(s, c),
         NEW f, NEW t, t = fault_bps_set(s, f)
  PROVE  Orderly(t, E) /\ Sensed(t, c) /\ Calm(t, c) /\ NoAssert(t)
<1> DEFINE r == [s EXCEPT !.faults = s.faults \cup {f}]
<1>1. r = [s EXCEPT !.faults = s.faults \cup {f}]
  OBVIOUS
<1>2. t = prv_relay_fault(r, FALSE)
  BY DEF fault_bps_set
<1> HIDE DEF r
<1>3. BmsTypes(r) /\ SameRelays(s, r) /\ r.timers = s.timers /\ r.assertion = s.assertion /\ r.next = s.next
  BY <1>1, RecordFaults
<1>4. NextIsKept(r) /\ AssertIsKept(r) /\ Orderly(r, E) /\ PinsTyped(r, c)
  BY <1>3 DEF NextIsKept, AssertIsKept, Orderly, What, PinsTyped, SameRelays
<1> QED BY <1>2, <1>3, <1>4, FaultSettled

\* With four timers there is one for an assertion when none is running: beside it there are at most
\* one step and the two measurements.
LEMMA SomeFree ==
  ASSUME BmsTimers > 3, NEW s, BmsTypes(s), Orderly(s, {}), NoAssert(s),
         NEW k, \A i \in TimerIds : What(s, i) \in Steps => i = k
  PROVE  FreeIds(s) # {}
<1> SUFFICES ASSUME FreeIds(s) = {} PROVE FALSE
  OBVIOUS
<1>1. 0 \in TimerIds /\ 1 \in TimerIds /\ 2 \in TimerIds /\ 3 \in TimerIds
  BY BmsAssumption DEF TimerIds
<1>2. ASSUME NEW i \in TimerIds PROVE i = k \/ What(s, i) = "current" \/ What(s, i) = "heartbeat"
  <2>1. s.timers[i] # NoTimer
    BY DEF FreeIds
  <2>2. s.timers[i] \in Timers
    BY DEF BmsTypes
  <2>3. What(s, i) \in Whats /\ What(s, i) # "none"
    BY <2>1, <2>2 DEF Timers, What
  <2>4. What(s, i) # "assert"
    BY DEF NoAssert
  <2> QED BY <2>3, <2>4 DEF Whats
<1>3. \A i, j \in TimerIds : What(s, i) = "current" /\ What(s, j) = "current" => i = j
  BY DEF Orderly
<1>4. \A i, j \in TimerIds : What(s, i) = "heartbeat" /\ What(s, j) = "heartbeat" => i = j
  BY DEF Orderly
<1> HIDE DEF What, TimerIds
<1> QED BY <1>1, <1>2, <1>3, <1>4

-----------------------------------------------------------------------------
(* What is sensed against what is expected: timers                          *)

\* The assertion that is due: a fault unless everything agrees.
LEMMA AssertSettled ==
  ASSUME NEW s, BmsTypes(s), NextIsKept(s), NEW c, Settled(s, c), NEW i \in TimerIds, What(s, i) = "assert",
         s.timers[i].left = 0, NEW t, t = Cancel(prv_assert_state(s), i)
  PROVE  Settled(t, c)
<1> DEFINE u == prv_relay_fault(s, TRUE)
<1>1. u = prv_relay_fault(s, TRUE)
  OBVIOUS
<1> HIDE DEF u
<1>2. CASE s.on # s.want
  <2>1. t = Cancel(u, i)
    BY <1>1, <1>2 DEF prv_assert_state
  <2>2. PinsTyped(s, c) /\ Orderly(s, {}) /\ AssertIsKept(s)
    BY DEF Settled, Sensed, Orderly, AssertIsKept
  <2>3. Orderly(u, {}) /\ Sensed(u, c) /\ Calm(u, c) /\ NoAssert(u)
    BY <1>1, <2>2, FaultSettled
  <2>4. Sound(u)
    BY <1>1, FaultIsSound
  <2>5. BmsTypes(u)
    BY <2>4 DEF Sound
  <2>6. Orderly(u, {i}) /\ Sensed(u, c) /\ Calm(u, c) /\ What(u, i) # "assert"
    BY <2>3, Loosely DEF NoAssert
  <2> QED BY <2>1, <2>5, <2>6, CancelSettled
<1>3. CASE s.on = s.want
  <2>1. t = Cancel(s, i)
    BY <1>3 DEF prv_assert_state
  <2>2. BmsTypes(s) /\ Orderly(s, {i}) /\ Orderly(s, {}) /\ Sensed(s, c)
    BY Loosely DEF Settled
  <2>3. SameRelays(s, t) /\ \A j \in TimerIds : t.timers[j] = IF j = i THEN NoTimer ELSE s.timers[j]
    BY <2>1, <2>2, CancelledAt
  <2>4. Orderly(t, {})
    BY <2>1, <2>2, CancelOrderly
  <2>5. \A j \in TimerIds : /\ What(t, j) # "none" => t.timers[j] = s.timers[j] /\ What(t, j) = What(s, j)
                            /\ What(t, j) # "assert"
    BY <2>2, <2>3 DEF What, NoTimer, Orderly
  <2>6. NoAssert(t)
    BY <2>5 DEF NoAssert
  <2>7. ~NoAssert(s)
    BY DEF NoAssert
  <2>8. s.confirmed = FALSE /\ s.faulted = FALSE
    BY <2>2, <2>7 DEF Sensed
  <2>9. /\ t.pin = s.pin /\ t.on = s.on /\ t.want = s.want
        /\ t.faulted = s.faulted /\ t.confirmed = s.confirmed
    BY <2>3 DEF SameRelays
  <2>10. s.want = s.pin
    <3>1. \A r \in Relay : s.pin[r] = s.want[r]
      BY <1>3, <2>2 DEF Sensed
    <3> QED BY <2>2, <3>1 DEF Sensed, PinsTyped
  <2>11. c = s.on
    <3>1. \A r \in Relay : c[r] = s.on[r] \/ c[r] = s.pin[r]
      BY <2>2 DEF Sensed
    <3>2. \A r \in Relay : c[r] = s.on[r]
      BY <1>3, <2>10, <3>1
    <3> QED BY <2>2, <3>2 DEF Sensed, PinsTyped
  <2>12. Calm(t, c)
    BY <1>3, <2>9, <2>10, <2>11 DEF Calm, Rest
  <2>13. /\ PinsTyped(t, c)
         /\ \A r \in Relay : t.pin[r] # t.want[r] => c[r] = t.pin[r] /\ t.on[r] = t.pin[r]
    BY <2>2, <2>9 DEF Sensed, PinsTyped
  <2>14. \A j \in TimerIds : What(t, j) = "hv" => t.pin["gnd"] = TRUE
    BY <2>2, <2>5, <2>9 DEF Sensed
  <2>15. \A j \in TimerIds : What(t, j) = "closed" => t.pin = Both(TRUE) /\ t.want = Both(TRUE)
    BY <2>2, <2>5, <2>9 DEF Sensed
  <2>16. Sensed(t, c)
    BY <2>5, <2>8, <2>9, <2>13, <2>14, <2>15 DEF Sensed
  <2> QED BY <2>4, <2>12, <2>16 DEF Settled
<1> QED BY <1>2, <1>3

\* A step of a sequence runs after the assertion of the one before.
LEMMA StepAfterAssert ==
  ASSUME NEW s, Orderly(s, {}), NEW i \in TimerIds, What(s, i) \in Steps, s.timers[i].left = 0
  PROVE  NoAssert(s)
<1> SUFFICES ASSUME NEW j \in TimerIds, What(s, j) = "assert" PROVE FALSE
  BY DEF NoAssert
<1>1. s.timers[j].left \in Nat /\ s.timers[j].left < s.timers[i].left
  BY DEF Orderly
<1> QED BY <1>1

\* The second relay: both are driven and expected closed, and this is asserted.
LEMMA CloseHvSettled ==
  ASSUME BmsTimers > 3, NEW s, BmsTypes(s), NextIsKept(s), NEW c, Settled(s, c), NEW i \in TimerIds,
         What(s, i) = "hv", s.timers[i].left = 0, NEW t, t = Cancel(prv_relay_close_hv(s), i)
  PROVE  Settled(t, c)
<1> DEFINE p == [s EXCEPT !.pin = [s.pin EXCEPT !["hv"] = TRUE], !.want = Both(TRUE)]
           a == StartTimer(p, "assert", "assertion")
           u == StartTimer(a, "closed", "next")
<1>1. /\ p = [s EXCEPT !.pin = [s.pin EXCEPT !["hv"] = TRUE], !.want = Both(TRUE)]
      /\ a = StartTimer(p, "assert", "assertion") /\ u = StartTimer(a, "closed", "next")
  OBVIOUS
<1>2. t = Cancel(u, i)
  BY DEF prv_relay_close_hv
<1> HIDE DEF p, a, u
<1>3. Orderly(s, {}) /\ Sensed(s, c) /\ Calm(s, c)
  BY DEF Settled
<1>4. NoAssert(s)
  <2>1. What(s, i) \in Steps
    BY DEF Steps
  <2> QED BY <1>3, <2>1, StepAfterAssert
<1>5. \A j \in TimerIds : What(s, j) \in Steps => j = i
  BY DEF NextIsKept, What, Steps
<1>6. FreeIds(s) # {}
  BY <1>3, <1>4, <1>5, SomeFree
<1>7. s.faulted = FALSE /\ s.confirmed = FALSE
  <2>1. ~NoStep(s)
    BY DEF NoStep, What, Steps
  <2> QED BY <1>3, <2>1 DEF Sensed
<1>8. Rest(s, c)
  BY <1>3, <1>4, <1>7 DEF Calm
<1>9. s.pin \in [Relay -> BOOLEAN] /\ s.pin["gnd"] = TRUE /\ c \in [Relay -> BOOLEAN] /\ s.on \in [Relay -> BOOLEAN]
  BY <1>3 DEF Sensed, PinsTyped
<1>10. [s.pin EXCEPT !["hv"] = TRUE] = Both(TRUE)
  BY <1>9 DEF Both, Relay
<1>11. p = [pin |-> Both(TRUE), on |-> s.on, want |-> Both(TRUE), assertion |-> s.assertion,
            next |-> s.next, periodic |-> s.periodic, faults |-> s.faults, timers |-> s.timers,
            faulted |-> s.faulted, confirmed |-> s.confirmed]
  BY <1>1, <1>10 DEF BmsTypes
<1>12. /\ BmsTypes(p) /\ p.pin = Both(TRUE) /\ p.want = Both(TRUE) /\ p.on = s.on
       /\ p.faulted = s.faulted /\ p.confirmed = s.confirmed
       /\ p.timers = s.timers /\ p.assertion = s.assertion /\ p.next = s.next
  BY <1>11 DEF BmsTypes
<1>13. /\ Orderly(p, {}) /\ NoAssert(p) /\ FreeIds(p) # {} /\ \A j \in TimerIds \ {i} : What(p, j) \notin Steps
  BY <1>3, <1>4, <1>5, <1>6, <1>12 DEF Orderly, NoAssert, What, FreeIds
<1>14. /\ "assert" \in Whats \ {"none"} /\ "closed" \in Whats \ {"none"} /\ "closed" \in Steps
       /\ "assertion" \in Ids /\ "next" \in Ids
  BY DEF Whats, Steps, Ids
<1>15. Orderly(p, {i})
  BY <1>13, Loosely
<1>16. /\ Orderly(a, {i}) /\ \A j \in TimerIds \ {i} : What(a, j) \notin Steps
       /\ \A j \in TimerIds : What(a, j) = "assert" => a.timers[j].left = 1
       /\ FreeIds(p) # {} => ~NoAssert(a)
  <2>1. BmsTypes(p) /\ a = StartTimer(p, "assert", "assertion")
    BY <1>1, <1>12
  <2> QED BY <1>13, <1>15, <2>1, StartAssertOrderly
<1>17. BmsTypes(a) /\ SameRelays(p, a)
  <2>1. BmsTypes(p) /\ a = StartTimer(p, "assert", "assertion")
    BY <1>1, <1>12
  <2> QED BY <1>14, <2>1, StartedKeeps
<1>18. /\ Orderly(u, {i})
       /\ \A j \in TimerIds : u.timers[j] = a.timers[j] \/ (What(a, j) = "none" /\ What(u, j) = "closed")
  <2>1. BmsTypes(a) /\ u = StartTimer(a, "closed", "next")
    BY <1>1, <1>17
  <2> QED BY <1>14, <1>16, <2>1, StartStepOrderly
<1>19. BmsTypes(u) /\ SameRelays(a, u)
  <2>1. BmsTypes(a) /\ u = StartTimer(a, "closed", "next")
    BY <1>1, <1>17
  <2> QED BY <1>14, <2>1, StartedKeeps
<1>20. ~NoAssert(u)
  BY <1>13, <1>16, <1>18 DEF NoAssert, What
<1>21. \A j \in TimerIds : What(u, j) = "assert" => u.timers[j].left = 1
  BY <1>16, <1>18 DEF What
<1>22. \A j \in TimerIds : What(u, j) = "hv" => j = i
  BY <1>16, <1>18 DEF What, Steps
<1>23. /\ u.pin = Both(TRUE) /\ u.want = Both(TRUE) /\ u.on = s.on
       /\ u.faulted = s.faulted /\ u.confirmed = s.confirmed
  BY <1>12, <1>17, <1>19 DEF SameRelays
<1>24. PinsTyped(u, c)
  BY <1>9, <1>23 DEF PinsTyped, Both
<1>25. Sensed(u, c)
  <2>1. \A r \in Relay : u.pin[r] = u.want[r]
    BY <1>23
  <2>2. \A j \in TimerIds : What(u, j) = "hv" => u.pin["gnd"] = TRUE
    BY <1>23 DEF Both, Relay
  <2>3. \A j \in TimerIds : What(u, j) = "closed" => u.pin = Both(TRUE) /\ u.want = Both(TRUE)
    BY <1>23
  <2>4. \A j \in TimerIds : What(u, j) = "assert" /\ u.timers[j].left = 0 =>
                             \A r \in Relay : c[r] = u.on[r] \/ c[r] = u.pin[r]
    BY <1>21
  <2>5. u.confirmed = FALSE /\ u.faulted = FALSE
    BY <1>7, <1>23
  <2> QED BY <1>24, <2>1, <2>2, <2>3, <2>4, <2>5 DEF Sensed
<1>26. Calm(u, c)
  BY <1>20 DEF Calm
<1>27. What(u, i) # "assert"
  <2>1. What(p, i) = "hv"
    BY <1>12 DEF What
  <2>2. a.timers[i] = p.timers[i] \/ i = a.assertion
    <3>1. BmsTypes(p) /\ a = StartTimer(p, "assert", "assertion")
      BY <1>1, <1>12
    <3> QED BY <1>14, <3>1, StartedOnly
  <2>3. \/ FreeIds(p) = {} /\ a.timers = p.timers
        \/ \E k \in TimerIds :
             /\ p.timers[k] = NoTimer /\ a.timers[k] = [what |-> "assert", left |-> BmsDelay["assert"]]
             /\ \A j \in TimerIds : j # k => a.timers[j] = p.timers[j]
             /\ ("assertion" = "assertion" => a.assertion = k) /\ ("assertion" = "next" => a.next = k)
    <3>1. BmsTypes(p) /\ a = StartTimer(p, "assert", "assertion")
      BY <1>1, <1>12
    <3> QED BY <1>14, <3>1, StartedAt
  <2>4. What(a, i) = "hv"
    BY <2>1, <2>3 DEF What, NoTimer
  <2> QED BY <1>18, <2>4 DEF What
<1> QED BY <1>2, <1>18, <1>19, <1>25, <1>26, <1>27, CancelSettled

\* The last step announces what the assertion has found.
LEMMA ClosedSettled ==
  ASSUME NEW s, BmsTypes(s), NextIsKept(s), NEW c, Settled(s, c), NEW i \in TimerIds, What(s, i) = "closed",
         s.timers[i].left = 0, NEW u, u = [s EXCEPT !.confirmed = TRUE], NEW t, t = Cancel(u, i)
  PROVE  Settled(t, c)
<1>1. Orderly(s, {}) /\ Sensed(s, c) /\ Calm(s, c) /\ Orderly(s, {i})
  BY Loosely DEF Settled
<1>2. NoAssert(s)
  <2>1. What(s, i) \in Steps
    BY DEF Steps
  <2> QED BY <1>1, <2>1, StepAfterAssert
<1>3. s.faulted = FALSE
  <2>1. ~NoStep(s)
    BY DEF NoStep, What, Steps
  <2> QED BY <1>1, <2>1 DEF Sensed
<1>4. s.pin = Both(TRUE) /\ s.want = Both(TRUE)
  BY <1>1 DEF Sensed
<1>5. u = [pin |-> s.pin, on |-> s.on, want |-> s.want, assertion |-> s.assertion,
           next |-> s.next, periodic |-> s.periodic, faults |-> s.faults, timers |-> s.timers,
           faulted |-> s.faulted, confirmed |-> TRUE]
  BY DEF BmsTypes
<1>6. /\ BmsTypes(u) /\ u.timers = s.timers /\ u.pin = s.pin /\ u.want = s.want /\ u.on = s.on
      /\ u.faulted = s.faulted /\ u.assertion = s.assertion
  BY <1>5 DEF BmsTypes
<1>7. u.confirmed = TRUE
  BY <1>5
<1>8. Orderly(u, {i})
  BY <1>1, <1>6 DEF Orderly, What
<1>9. SameRelays(u, t) /\ \A j \in TimerIds : t.timers[j] = IF j = i THEN NoTimer ELSE u.timers[j]
  <2>1. BmsTypes(u) /\ t = Cancel(u, i)
    BY <1>6
  <2>2. /\ BmsTypes(t) /\ SameRelays(u, t) /\ t.assertion = u.assertion /\ t.next = u.next
        /\ \A j \in TimerIds : t.timers[j] = IF j = i THEN NoTimer ELSE u.timers[j]
    BY ONLY <2>1, CancelledAt
  <2> QED BY <2>2
<1>10. Orderly(t, {})
  BY <1>6, <1>8, CancelOrderly
<1>11. /\ t.pin = s.pin /\ t.on = s.on /\ t.want = s.want /\ t.faulted = s.faulted
  BY <1>6, <1>9 DEF SameRelays
<1>12. t.confirmed = TRUE
  BY <1>7, <1>9 DEF SameRelays
<1>13. \A j \in TimerIds : What(t, j) # "assert" /\ What(t, j) \notin Steps
  <2>1. \A j \in TimerIds : What(s, j) \in Steps => j = i
    BY DEF NextIsKept, What, Steps
  <2>2. NoTimer.what = "none" /\ "none" \notin Steps
    BY DEF NoTimer, Steps
  <2> QED BY <1>2, <1>6, <1>9, <2>1, <2>2 DEF NoAssert, What
<1>14. NoAssert(t) /\ NoStep(t)
  BY <1>13 DEF NoAssert, NoStep, What
<1>15. PinsTyped(t, c) /\ \A r \in Relay : t.pin[r] # t.want[r] => c[r] = t.pin[r] /\ t.on[r] = t.pin[r]
  BY <1>1, <1>11 DEF Sensed, PinsTyped
<1>16. Sensed(t, c)
  <2>1. \A j \in TimerIds : What(t, j) \notin {"assert", "hv", "closed"}
    BY <1>13 DEF Steps
  <2> QED BY <1>3, <1>4, <1>11, <1>12, <1>14, <1>15, <2>1 DEF Sensed
<1>17. Calm(t, c)
  BY <1>1, <1>2, <1>3, <1>11 DEF Calm, Rest
<1> QED BY <1>10, <1>16, <1>17 DEF Settled

\* A measurement that starts its own timer again.
LEMMA PeriodicSettled ==
  ASSUME NEW s, BmsTypes(s), NEW c, Settled(s, c), NEW i \in TimerIds, NEW what \in {"current", "heartbeat"},
         What(s, i) = what, NEW t, t = StartTimer(s, what, "periodic")
  PROVE  /\ BmsTypes(t) /\ Orderly(t, {i}) /\ Sensed(t, c) /\ Calm(t, c) /\ What(t, i) # "assert"
<1>1. Orderly(s, {}) /\ Sensed(s, c) /\ Calm(s, c)
  BY DEF Settled
<1>2. /\ Orderly(t, {i}) /\ SameRelays(s, t) /\ BmsTypes(t) /\ t.assertion = s.assertion /\ t.next = s.next
      /\ \A j \in TimerIds : \/ t.timers[j] = s.timers[j]
                             \/ What(s, j) = "none" /\ What(t, j) = what /\ t.timers[j].left \in Nat
  BY <1>1, StartPeriodicOrderly
<1>3. \A j \in TimerIds : \/ t.timers[j] = s.timers[j]
                          \/ What(t, j) \in Periodic \cup {"none"} /\ What(s, j) # "assert"
  BY <1>2 DEF Periodic
<1>4. Sensed(t, c) /\ (Calm(s, c) => Calm(t, c))
  BY <1>1, <1>2, <1>3, SensedKept
<1> QED BY <1>1, <1>2, <1>4 DEF What

LEMMA CallbackSettled ==
  ASSUME BmsTimers > 3, NEW s, Sound(s), NEW c, Settled(s, c), NEW i \in TimerIds, What(s, i) # "none",
         s.timers[i].left = 0, NEW over, NEW t, t = Cancel(Callback(s, i, over), i)
  PROVE  Settled(t, c)
<1> DEFINE u == Callback(s, i, over)
<1>1. t = Cancel(u, i)
  OBVIOUS
<1>2. BmsTypes(s) /\ NextIsKept(s)
  BY DEF Sound
<1>3. What(s, i) \in Whats
  BY <1>2 DEF BmsTypes, Timers, What, NoTimer, Whats
<1>4. CASE What(s, i) = "assert"
  <2>1. u = prv_assert_state(s)
    BY <1>4 DEF Callback, What
  <2> HIDE DEF u
  <2> QED BY <1>1, <1>2, <1>4, <2>1, AssertSettled
<1>5. CASE What(s, i) = "opened"
  <2>1. u = s
    BY <1>5 DEF Callback, What
  <2> HIDE DEF u
  <2>2. t = Cancel(s, i)
    BY <1>1, <2>1
  <2>3. Orderly(s, {i}) /\ Sensed(s, c) /\ Calm(s, c) /\ What(s, i) # "assert"
    BY <1>5, Loosely DEF Settled
  <2> QED BY <1>2, <2>2, <2>3, CancelSettled
<1>6. CASE What(s, i) = "hv"
  <2>1. u = prv_relay_close_hv(s)
    BY <1>6 DEF Callback, What
  <2> HIDE DEF u
  <2> QED BY <1>1, <1>2, <1>6, <2>1, CloseHvSettled
<1>7. CASE What(s, i) = "closed"
  <2>1. u = [s EXCEPT !.confirmed = TRUE]
    BY <1>7 DEF Callback, What
  <2> HIDE DEF u
  <2> QED BY <1>1, <1>2, <1>7, <2>1, ClosedSettled
<1>8. CASE What(s, i) = "heartbeat"
  <2>1. u = StartTimer(s, "heartbeat", "periodic")
    BY <1>8 DEF Callback, What, prv_periodic_heartbeat
  <2> HIDE DEF u
  <2>2. BmsTypes(u) /\ Orderly(u, {i}) /\ Sensed(u, c) /\ Calm(u, c) /\ What(u, i) # "assert"
    BY <1>2, <1>8, <2>1, PeriodicSettled
  <2> QED BY <1>1, <2>2, CancelSettled
<1>9. CASE What(s, i) = "current"
  <2> DEFINE a == StartTimer(s, "current", "periodic")
             F == a.faults \ {"current"}
  <2>1. a = StartTimer(s, "current", "periodic")
    OBVIOUS
  <2>2. u = fault_bps_set(a, "current") \/ u = [a EXCEPT !.faults = F]
    BY <1>9 DEF Callback, What, prv_periodic_ads_read, fault_bps_clear
  <2> HIDE DEF u, a, F
  <2>3. BmsTypes(a) /\ Orderly(a, {i}) /\ Sensed(a, c) /\ Calm(a, c) /\ What(a, i) # "assert"
    BY <1>2, <1>9, <2>1, PeriodicSettled
  <2>4. CASE u = fault_bps_set(a, "current")
    <3>1. Sound(a)
      BY <2>1, StartKeeps DEF Sound
    <3>2. NextIsKept(a) /\ PinsTyped(a, c) /\ AssertIsKept(a)
      BY <2>3, <3>1 DEF Sound, Sensed, Orderly, AssertIsKept
    <3>3. Sound(u)
      BY <2>4, <3>1, FaultSetIsSound
    <3>4. Orderly(u, {i}) /\ Sensed(u, c) /\ Calm(u, c) /\ NoAssert(u)
      BY <2>3, <2>4, <3>2, FaultSetSettled
    <3>5. BmsTypes(u) /\ Orderly(u, {i}) /\ Sensed(u, c) /\ Calm(u, c) /\ What(u, i) # "assert"
      BY <3>3, <3>4 DEF Sound, NoAssert
    <3> QED BY <1>1, <3>5, CancelSettled
  <2>5. CASE u = [a EXCEPT !.faults = F]
    <3>1. Orderly(u, {i}) /\ Sensed(u, c) /\ Calm(u, c)
      BY <2>3, <2>5, RecordSettled
    <3>2. BmsTypes(u) /\ u.timers = a.timers
      BY <2>3, <2>5, RecordFaults
    <3>3. What(u, i) # "assert"
      BY <2>3, <3>2 DEF What
    <3> QED BY <1>1, <3>1, <3>2, <3>3, CancelSettled
  <2> QED BY <2>2, <2>4, <2>5
<1> QED BY <1>3, <1>4, <1>5, <1>6, <1>7, <1>8, <1>9 DEF Whats, Steps

-----------------------------------------------------------------------------
(* What is sensed against what is expected: the specification               *)

LEMMA SenseInitInv == BmsInit => SenseInv
<1> SUFFICES ASSUME BmsInit PROVE SenseInv
  OBVIOUS
<1>1. /\ bms.faulted = FALSE /\ bms.confirmed = FALSE /\ closing = "no"
      /\ bms.pin = Both(FALSE) /\ bms.on = Both(FALSE) /\ bms.want = Both(FALSE) /\ contacts = Both(FALSE)
  BY BmsInitial
<1>2. \A i \in TimerIds : What(bms, i) \in {"none", "heartbeat", "current"} /\ bms.timers[i].left \in Nat
  BY BmsInitial
<1>3. \A i, j \in TimerIds : What(bms, i) = What(bms, j) /\ What(bms, i) \in Periodic => i = j
  BY BmsInitial
<1>4. Orderly(bms, {})
  BY <1>2, <1>3 DEF Orderly, Periodic, Steps
<1>5. Sensed(bms, contacts)
  <2>1. PinsTyped(bms, contacts)
    BY <1>1 DEF PinsTyped, Both
  <2>2. \A r \in Relay : bms.pin[r] = bms.want[r]
    BY <1>1
  <2>3. \A i \in TimerIds : What(bms, i) \notin {"assert", "hv", "closed"}
    BY <1>2
  <2> QED BY <1>1, <2>1, <2>2, <2>3 DEF Sensed
<1>6. Calm(bms, contacts)
  BY <1>1 DEF Calm, Rest
<1> QED BY <1>1, <1>4, <1>5, <1>6, BmsInitInv DEF SenseInv, SenseQuiet

LEMMA TickSenses ==
  ASSUME BasicInv, BmsQuiet, SenseQuiet, BmsTick
  PROVE  Orderly(bms', {}) /\ Sensed(bms', contacts') /\ Calm(bms', contacts')
<1> DEFINE T == [i \in TimerIds |-> IF bms.timers[i] = NoTimer THEN NoTimer
                                    ELSE [bms.timers[i] EXCEPT !.left = @ - 1]]
<1>1. bms.timers \in [TimerIds -> Timers]
  BY DEF BmsQuiet, Sound, BmsTypes
<1>2. \A i \in TimerIds : bms.timers[i] # NoTimer => bms.timers[i].left > 0
  BY DEF BmsTick, Running
<1>3. \A i \in TimerIds : T[i] = IF bms.timers[i] = NoTimer THEN NoTimer
                                 ELSE [bms.timers[i] EXCEPT !.left = @ - 1]
  OBVIOUS
<1>4. bms' = [bms EXCEPT !.timers = T] /\ closing = "no" /\ bms.on = contacts /\ contacts' = contacts
  BY DEF BmsTick
<1> HIDE DEF T
<1>5. bms' = [pin |-> bms.pin, on |-> bms.on, want |-> bms.want, assertion |-> bms.assertion,
              next |-> bms.next, periodic |-> bms.periodic, faults |-> bms.faults,
              timers |-> T, faulted |-> bms.faulted, confirmed |-> bms.confirmed]
  BY <1>4 DEF BmsQuiet, Sound, BmsTypes
<1>6. Orderly(bms, {}) /\ Sensed(bms, contacts) /\ Calm(bms, contacts)
  BY <1>4 DEF SenseQuiet
<1>7. /\ bms'.timers = T /\ bms'.pin = bms.pin /\ bms'.on = bms.on /\ bms'.want = bms.want
      /\ bms'.assertion = bms.assertion /\ bms'.faulted = bms.faulted /\ bms'.confirmed = bms.confirmed
  BY <1>5
<1>8. ASSUME NEW i \in TimerIds
      PROVE  /\ What(bms', i) = What(bms, i)
             /\ \/ What(bms', i) = "none" /\ bms'.timers[i].left = 0
                \/ bms'.timers[i].left = bms.timers[i].left - 1 /\ bms'.timers[i].left \in Nat
  <2>1. bms.timers[i] \in Timers /\ bms.timers[i].left \in Nat
    BY <1>1, <1>6 DEF Orderly
  <2>2. CASE bms.timers[i] = NoTimer
    <3>1. bms'.timers[i] = NoTimer
      BY <1>3, <1>7, <2>2
    <3>2. NoTimer.what = "none" /\ NoTimer.left = 0
      BY DEF NoTimer
    <3> QED BY <2>2, <3>1, <3>2 DEF What
  <2>3. CASE bms.timers[i] # NoTimer
    <3>1. bms.timers[i].left > 0
      BY <1>2, <2>3
    <3>2. bms.timers[i] \in [what : Whats \ {"none"}, left : Int]
      BY <2>1, <2>3 DEF Timers
    <3>3. bms'.timers[i] = [bms.timers[i] EXCEPT !.left = @ - 1]
      BY <1>3, <1>7, <2>3
    <3>4. bms'.timers[i].what = bms.timers[i].what /\ bms'.timers[i].left = bms.timers[i].left - 1
      BY <3>2, <3>3
    <3> QED BY <2>1, <3>1, <3>4 DEF What
  <2> QED BY <2>2, <2>3
<1>9. Orderly(bms', {})
  <2>1. "none" \notin Steps /\ "assert" # "none"
    BY DEF Steps
  <2>2. \A i \in TimerIds \ {} : bms'.timers[i].left \in Nat
    BY <1>8
  <2>3. \A i \in TimerIds \ {} : What(bms', i) = "assert" => i = bms'.assertion
    BY <1>6, <1>7, <1>8 DEF Orderly
  <2>4. \A i, j \in TimerIds \ {} : What(bms', i) = What(bms', j) /\ What(bms', i) \in {"current", "heartbeat"} => i = j
    BY <1>6, <1>8 DEF Orderly
  <2>5. ASSUME NEW i \in TimerIds, NEW j \in TimerIds, What(bms', i) \in Steps, What(bms', j) = "assert"
        PROVE  bms'.timers[j].left < bms'.timers[i].left
    <3>1. bms.timers[j].left \in Nat /\ bms.timers[i].left \in Nat /\ bms.timers[j].left < bms.timers[i].left
      BY <1>6, <1>8, <2>5 DEF Orderly
    <3>2. bms'.timers[i].left = bms.timers[i].left - 1 /\ bms'.timers[j].left = bms.timers[j].left - 1
      BY <1>8, <2>1, <2>5
    <3> QED BY <3>1, <3>2
  <2> QED BY <2>2, <2>3, <2>4, <2>5 DEF Orderly
<1>10. (NoAssert(bms') <=> NoAssert(bms)) /\ (NoStep(bms') <=> NoStep(bms))
  BY <1>8 DEF NoAssert, NoStep, What
<1>11. Calm(bms', contacts')
  BY <1>4, <1>6, <1>7, <1>10 DEF Calm, Rest
<1>12. Sensed(bms', contacts')
  <2>1. /\ PinsTyped(bms', contacts')
        /\ \A r \in Relay : bms'.pin[r] # bms'.want[r] => contacts'[r] = bms'.pin[r] /\ bms'.on[r] = bms'.pin[r]
    BY <1>4, <1>6, <1>7 DEF Sensed, PinsTyped
  <2>2. \A i \in TimerIds : What(bms', i) = "assert" /\ bms'.timers[i].left = 0 =>
                              \A r \in Relay : contacts'[r] = bms'.on[r] \/ contacts'[r] = bms'.pin[r]
    BY <1>4, <1>7
  <2>3. \A i \in TimerIds : What(bms', i) = "hv" => bms'.pin["gnd"] = TRUE
    BY <1>6, <1>7, <1>8 DEF Sensed
  <2>4. \A i \in TimerIds : What(bms', i) = "closed" => bms'.pin = Both(TRUE) /\ bms'.want = Both(TRUE)
    BY <1>6, <1>7, <1>8 DEF Sensed
  <2>5. /\ bms'.confirmed = TRUE => bms'.pin = Both(TRUE) /\ bms'.faulted = FALSE /\ NoStep(bms') /\ NoAssert(bms')
        /\ bms'.faulted = TRUE => NoStep(bms') /\ NoAssert(bms')
        /\ bms'.confirmed \in {TRUE, FALSE} /\ bms'.faulted \in {TRUE, FALSE}
    BY <1>6, <1>7, <1>10 DEF Sensed
  <2> QED BY <2>1, <2>2, <2>3, <2>4, <2>5 DEF Sensed
<1> QED BY <1>9, <1>11, <1>12

\* What is sensed catches up with the contacts.
LEMMA SensingSenses ==
  ASSUME BasicInv, BmsQuiet, SenseQuiet, prv_io_int_callback
  PROVE  SenseQuiet'
<1>1. bms.on # contacts /\ bms' = [bms EXCEPT !.on = contacts] /\ contacts' = contacts /\ closing' = closing
  BY DEF prv_io_int_callback
<1>2. bms' = [pin |-> bms.pin, on |-> contacts, want |-> bms.want, assertion |-> bms.assertion,
              next |-> bms.next, periodic |-> bms.periodic, faults |-> bms.faults,
              timers |-> bms.timers, faulted |-> bms.faulted, confirmed |-> bms.confirmed]
  BY <1>1 DEF BmsQuiet, Sound, BmsTypes
<1>3. Orderly(bms, {}) /\ Sensed(bms, contacts) /\ (closing = "no" => Calm(bms, contacts))
  BY DEF SenseQuiet
<1>4. /\ bms'.timers = bms.timers /\ bms'.pin = bms.pin /\ bms'.on = contacts /\ bms'.want = bms.want
      /\ bms'.assertion = bms.assertion /\ bms'.faulted = bms.faulted /\ bms'.confirmed = bms.confirmed
  BY <1>2
<1>5. Orderly(bms', {}) /\ (NoAssert(bms') <=> NoAssert(bms)) /\ (NoStep(bms') <=> NoStep(bms))
  BY <1>3, <1>4 DEF Orderly, What, NoAssert, NoStep
<1>6. closing = "no" => Calm(bms', contacts')
  BY <1>1, <1>3, <1>4, <1>5 DEF Calm, Rest
<1>7. /\ PinsTyped(bms', contacts')
      /\ \A r \in Relay : bms'.pin[r] # bms'.want[r] => contacts'[r] = bms'.pin[r] /\ bms'.on[r] = bms'.pin[r]
  BY <1>1, <1>3, <1>4 DEF Sensed, PinsTyped
<1>8. \A i \in TimerIds : What(bms', i) = "assert" /\ bms'.timers[i].left = 0 =>
                            \A r \in Relay : contacts'[r] = bms'.on[r] \/ contacts'[r] = bms'.pin[r]
  BY <1>1, <1>4
<1>9. \A i \in TimerIds : What(bms', i) = "hv" => bms'.pin["gnd"] = TRUE
  BY <1>3, <1>4 DEF Sensed, What
<1>10. \A i \in TimerIds : What(bms', i) = "closed" => bms'.pin = Both(TRUE) /\ bms'.want = Both(TRUE)
  BY <1>3, <1>4 DEF Sensed, What
<1>11. /\ bms'.confirmed = TRUE => bms'.pin = Both(TRUE) /\ bms'.faulted = FALSE /\ NoStep(bms') /\ NoAssert(bms')
       /\ bms'.faulted = TRUE => NoStep(bms') /\ NoAssert(bms')
       /\ bms'.confirmed \in {TRUE, FALSE} /\ bms'.faulted \in {TRUE, FALSE}
  BY <1>3, <1>4, <1>5 DEF Sensed
<1>12. Sensed(bms', contacts')
  BY <1>7, <1>8, <1>9, <1>10, <1>11 DEF Sensed
<1>13. closing # "no" => bms'.pin["gnd"] = TRUE /\ bms'.confirmed = FALSE
  BY <1>4 DEF SenseQuiet
<1>14. closing = "asserting" =>
         ~NoAssert(bms') /\ \A i \in TimerIds : What(bms', i) = "assert" => bms'.timers[i].left = 1
  BY <1>4, <1>5 DEF SenseQuiet, What
<1>15. closing = "pin set" => NoAssert(bms')
  BY <1>5 DEF SenseQuiet
<1> QED BY <1>1, <1>5, <1>6, <1>12, <1>13, <1>14, <1>15 DEF SenseQuiet

AssertionsKept(s, t) == \A j \in TimerIds : What(t, j) = "assert" => t.timers[j] = s.timers[j]

\* A measurement that raises no fault.
LEMMA MeasurementKeeps ==
  ASSUME NEW s, Sound(s), Orderly(s, {}), NEW c, Sensed(s, c), NEW i \in TimerIds,
         NEW what \in {"current", "heartbeat"}, What(s, i) = what, NEW over,
         NEW t, t = Cancel(Callback(s, i, over), i), t.faulted = FALSE
  PROVE  /\ Orderly(t, {}) /\ Sensed(t, c) /\ SameRelays(s, t) /\ (NoAssert(t) <=> NoAssert(s))
         /\ AssertionsKept(s, t)
<1> DEFINE a == StartTimer(s, what, "periodic")
           F == a.faults \ {"current"}
           u == IF what = "heartbeat" THEN a ELSE [a EXCEPT !.faults = F]
<1>1. a = StartTimer(s, what, "periodic") /\ (u = a \/ u = [a EXCEPT !.faults = F])
  OBVIOUS
<1>2. BmsTypes(s)
  BY DEF Sound
<1>3. t = Cancel(u, i)
  <2>1. CASE what = "heartbeat"
    BY <2>1 DEF Callback, What, prv_periodic_heartbeat
  <2>2. CASE what = "current"
    <3>1. t = Cancel(fault_bps_set(a, "current"), i) \/ t = Cancel([a EXCEPT !.faults = F], i)
      BY <2>2 DEF Callback, What, prv_periodic_ads_read, fault_bps_clear
    <3>2. ASSUME t = Cancel(fault_bps_set(a, "current"), i) PROVE FALSE
      <4> DEFINE v == fault_bps_set(a, "current")
      <4>1. v = fault_bps_set(a, "current") /\ t = Cancel(v, i)
        BY <3>2
      <4> HIDE DEF v, a, F, u
      <4>2. Sound(a)
        BY <1>1, <1>2, StartKeeps
      <4>3. Sound(v) /\ v.faulted = TRUE
        BY <4>1, <4>2, FaultSetIsSound
      <4>4. t.faulted = v.faulted
        BY <4>1, <4>3, CancelKeeps DEF Sound
      <4> QED BY <4>3, <4>4
    <3> QED BY <2>2, <3>1, <3>2
  <2> QED BY <2>1, <2>2
<1> HIDE DEF a, F, u
<1>4. /\ Orderly(a, {i}) /\ SameRelays(s, a) /\ BmsTypes(a) /\ a.assertion = s.assertion /\ a.next = s.next
      /\ \A j \in TimerIds : \/ a.timers[j] = s.timers[j]
                             \/ What(s, j) = "none" /\ What(a, j) = what /\ a.timers[j].left \in Nat
  BY <1>1, <1>2, StartPeriodicOrderly
<1>5. BmsTypes(u) /\ SameRelays(a, u) /\ u.timers = a.timers /\ u.assertion = a.assertion
  <2>1. CASE u = a
    BY <1>4, <2>1 DEF SameRelays
  <2>2. CASE u = [a EXCEPT !.faults = F]
    BY <1>4, <2>2, RecordFaults
  <2> QED BY <1>1, <2>1, <2>2
<1>6. Orderly(u, {i})
  BY <1>4, <1>5 DEF Orderly, What
<1>7. Orderly(t, {})
  BY <1>3, <1>5, <1>6, CancelOrderly
<1>8. SameRelays(u, t) /\ \A j \in TimerIds : t.timers[j] = IF j = i THEN NoTimer ELSE u.timers[j]
  BY <1>3, <1>5, CancelledAt
<1>9. SameRelays(s, t)
  BY <1>4, <1>5, <1>8 DEF SameRelays
<1>10. \A j \in TimerIds : \/ t.timers[j] = s.timers[j]
                           \/ What(t, j) \in Periodic \cup {"none"} /\ What(s, j) # "assert"
  BY <1>4, <1>5, <1>8 DEF What, Periodic, NoTimer
<1>11. Sensed(t, c) /\ (NoAssert(t) <=> NoAssert(s))
  BY <1>9, <1>10, SensedKept
<1>12. AssertionsKept(s, t)
  BY <1>10 DEF Periodic, AssertionsKept
<1> QED BY <1>7, <1>9, <1>11, <1>12

\* A measurement between the statements of a command to close.
LEMMA MeasurementSenses ==
  ASSUME BasicInv, BmsQuiet, SenseQuiet, closing # "no", NEW i \in TimerIds, TimerFires(i), bms'.faulted = FALSE
  PROVE  SenseQuiet'
<1>1. /\ Sound(bms) /\ BmsTypes(bms) /\ Orderly(bms, {}) /\ Sensed(bms, contacts) /\ NoStep(bms)
      /\ closing' = closing /\ contacts' = contacts
  BY DEF BmsQuiet, Sound, SenseQuiet, TimerFires
<1>2. PICK over \in BOOLEAN : bms' = Cancel(Callback(bms, i, over), i)
  BY DEF TimerFires
<1>3. bms.timers[i] # NoTimer /\ bms.timers[i].left = 0
  BY DEF TimerFires, Running
<1>4. What(bms, i) \in Whats \ {"none"} /\ What(bms, i) \notin Steps
  BY <1>1, <1>3 DEF BmsTypes, Timers, What, NoStep
<1>5. What(bms, i) # "assert"
  <2>1. closing = "pin set" \/ closing = "asserting"
    BY DEF BasicInv
  <2>2. CASE closing = "pin set"
    BY <2>2 DEF SenseQuiet, NoAssert
  <2>3. CASE closing = "asserting"
    <3>1. What(bms, i) = "assert" => bms.timers[i].left = 1
      BY <2>3 DEF SenseQuiet
    <3> QED BY <1>3, <3>1
  <2> QED BY <2>1, <2>2, <2>3
<1>6. What(bms, i) \in {"current", "heartbeat"}
  BY <1>4, <1>5 DEF Whats
<1>7. /\ Orderly(bms', {}) /\ Sensed(bms', contacts) /\ SameRelays(bms, bms') /\ (NoAssert(bms') <=> NoAssert(bms))
      /\ AssertionsKept(bms, bms')
  <2> DEFINE what == What(bms, i)
  <2>1. what \in {"current", "heartbeat"} /\ What(bms, i) = what
    BY <1>6
  <2> HIDE DEF what
  <2>2. PICK t : t = bms'
    OBVIOUS
  <2>3. t = Cancel(Callback(bms, i, over), i) /\ t.faulted = FALSE
    BY <1>2, <2>2
  <2>4. /\ Orderly(t, {}) /\ Sensed(t, contacts) /\ SameRelays(bms, t) /\ (NoAssert(t) <=> NoAssert(bms))
        /\ AssertionsKept(bms, t)
    BY <1>1, <2>1, <2>3, MeasurementKeeps
  <2> QED BY <1>1, <2>2, <2>4
<1>8. bms'.pin = bms.pin /\ bms'.confirmed = bms.confirmed
  BY <1>7 DEF SameRelays
<1>9. closing = "asserting" =>
        ~NoAssert(bms') /\ \A j \in TimerIds : What(bms', j) = "assert" => bms'.timers[j].left = 1
  BY <1>7 DEF SenseQuiet, What, AssertionsKept
<1> QED BY <1>1, <1>7, <1>8, <1>9 DEF SenseQuiet

\* A contact follows its pin only while something is left to be asserted, or after a fault.
LEMMA MoveSenses ==
  ASSUME SenseQuiet, NEW r \in Relay, ContactMoves(r)
  PROVE  Sensed(bms', contacts') /\ (closing = "no" => Calm(bms', contacts'))
<1>1. /\ contacts[r] # bms.pin[r] /\ contacts' = [contacts EXCEPT ![r] = bms.pin[r]]
      /\ bms' = bms
  BY DEF ContactMoves
<1>2. Sensed(bms, contacts) /\ (closing = "no" => Calm(bms, contacts))
  BY DEF SenseQuiet
<1>3. PinsTyped(bms, contacts)
  BY <1>2 DEF Sensed
<1>4. \A q \in Relay : contacts'[q] = IF q = r THEN bms.pin[r] ELSE contacts[q]
  BY <1>1, <1>3 DEF PinsTyped
<1>5. PinsTyped(bms, contacts')
  BY <1>1, <1>3 DEF PinsTyped
<1>6. \A q \in Relay : bms.pin[q] # bms.want[q] => contacts'[q] = bms.pin[q] /\ bms.on[q] = bms.pin[q]
  BY <1>2, <1>4 DEF Sensed
<1>7. \A i \in TimerIds : What(bms, i) = "assert" /\ bms.timers[i].left = 0 =>
                            \A q \in Relay : contacts'[q] = bms.on[q] \/ contacts'[q] = bms.pin[q]
  BY <1>2, <1>4 DEF Sensed
<1>8. Sensed(bms, contacts')
  BY <1>2, <1>5, <1>6, <1>7 DEF Sensed
<1>9. closing = "no" => Calm(bms, contacts')
  BY <1>1, <1>2 DEF Calm, Rest
<1> QED BY <1>1, <1>8, <1>9

\* The command to open, when no sequence is under way: whatever went before.
LEMMA PowerOffSenses ==
  ASSUME BmsTimers > 3, BasicInv, PowerOffRx, ~UnderWay
  PROVE  Orderly(bms', {}) /\ Sensed(bms', contacts') /\ Calm(bms', contacts')
<1>1. NoAssert(bms) /\ NoStep(bms) /\ closing = "no" /\ contacts' = contacts
  BY DEF PowerOffRx, UnderWay, Awaits, NoAssert, NoStep, What, Steps
<1> DEFINE d == [bms EXCEPT !.faulted = FALSE]
<1>2. d = [bms EXCEPT !.faulted = FALSE]
  OBVIOUS
<1>3. bms' = relay_open_sequence(d)
  BY DEF PowerOffRx
<1> HIDE DEF d
<1>4. d = [pin |-> bms.pin, on |-> bms.on, want |-> bms.want, assertion |-> bms.assertion,
           next |-> bms.next, periodic |-> bms.periodic, faults |-> bms.faults,
           timers |-> bms.timers, faulted |-> FALSE, confirmed |-> bms.confirmed]
  BY <1>2 DEF BasicInv, Basic, BmsTypes
<1>5. BmsTypes(d) /\ d.timers = bms.timers /\ d.assertion = bms.assertion /\ d.on = bms.on /\ d.faulted = FALSE
  BY <1>4 DEF BasicInv, Basic, BmsTypes
<1>6. Orderly(d, {}) /\ NoAssert(d) /\ NoStep(d)
  BY <1>1, <1>5 DEF BasicInv, Basic, Periodic, Orderly, What, NoAssert, NoStep
<1>7. FreeIds(d) # {}
  <2>1. \A i \in TimerIds : What(d, i) \in Steps => i = 0
    BY <1>6 DEF NoStep, What
  <2> QED BY <1>5, <1>6, <2>1, SomeFree
<1>8. /\ Orderly(bms', {}) /\ bms'.pin = Both(FALSE) /\ bms'.want = Both(FALSE) /\ bms'.confirmed = FALSE
      /\ bms'.on = d.on /\ bms'.faulted = d.faulted
      /\ \A i \in TimerIds : /\ What(bms', i) = "assert" => bms'.timers[i].left = 1
                             /\ What(bms', i) \notin {"hv", "closed"}
      /\ FreeIds(d) # {} => ~NoAssert(bms')
  BY <1>3, <1>5, <1>6, OpenOrderly
<1>9. Calm(bms', contacts')
  BY <1>7, <1>8 DEF Calm
<1>10. PinsTyped(bms', contacts')
  BY <1>1, <1>5, <1>8 DEF BasicInv, Basic, PinsTyped, Both
<1>11. Sensed(bms', contacts')
  <2>1. \A r \in Relay : bms'.pin[r] = bms'.want[r]
    BY <1>8
  <2>2. bms'.faulted = FALSE /\ bms'.confirmed = FALSE
    BY <1>5, <1>8
  <2>3. \A i \in TimerIds : What(bms', i) = "assert" => bms'.timers[i].left # 0
    BY <1>8
  <2> QED BY <1>8, <1>10, <2>1, <2>2, <2>3 DEF Sensed
<1> QED BY <1>8, <1>9, <1>11

\* The command to close: the second relay may still be driven closed, when its contact is closed.
LEMMA PowerOnSenses ==
  ASSUME BasicInv, BmsQuiet, SenseQuiet, PowerOnRx, ~UnderWay
  PROVE  /\ Orderly(bms', {}) /\ Sensed(bms', contacts') /\ NoAssert(bms')
         /\ bms'.pin["gnd"] = TRUE /\ bms'.confirmed = FALSE /\ closing' = "pin set"
<1>1. NoAssert(bms) /\ NoStep(bms) /\ closing = "no" /\ contacts' = contacts /\ closing' = "pin set"
  BY DEF PowerOnRx, UnderWay, Awaits, NoAssert, NoStep, What, Steps
<1>2. Orderly(bms, {}) /\ Sensed(bms, contacts) /\ Calm(bms, contacts) /\ PinsTyped(bms, contacts)
  BY <1>1 DEF SenseQuiet, Sensed
<1>3. bms' = [pin |-> [bms.pin EXCEPT !["gnd"] = TRUE], on |-> bms.on, want |-> GndOnly,
              assertion |-> bms.assertion, next |-> bms.next, periodic |-> bms.periodic,
              faults |-> bms.faults, timers |-> bms.timers, faulted |-> FALSE,
              confirmed |-> FALSE]
  BY DEF PowerOnRx, BmsQuiet, Sound, BmsTypes
<1>4. /\ bms'.pin = [bms.pin EXCEPT !["gnd"] = TRUE] /\ bms'.want = GndOnly /\ bms'.on = bms.on
      /\ bms'.timers = bms.timers /\ bms'.assertion = bms.assertion
  BY <1>3
<1>5. bms'.faulted = FALSE /\ bms'.confirmed = FALSE
  BY <1>3
<1>6. Orderly(bms', {}) /\ NoAssert(bms') /\ NoStep(bms')
  BY <1>1, <1>2, <1>4 DEF Orderly, What, NoAssert, NoStep
<1>7. bms'.pin["gnd"] = TRUE /\ bms'.pin["hv"] = bms.pin["hv"] /\ bms'.pin \in [Relay -> BOOLEAN]
  BY <1>2, <1>4 DEF PinsTyped, Relay
<1>8. bms'.want["gnd"] = TRUE /\ bms'.want["hv"] = FALSE /\ bms'.want \in [Relay -> BOOLEAN]
  BY <1>4 DEF GndOnly, Relay
<1>9. bms'.pin["hv"] # bms'.want["hv"] =>
        contacts'["hv"] = bms'.pin["hv"] /\ bms'.on["hv"] = bms'.pin["hv"]
  <2>1. CASE bms.faulted = TRUE
    <3>1. bms.pin["hv"] = FALSE
      BY <2>1 DEF BmsQuiet, Sound, StaysOpen, Both, Relay
    <3> QED BY <1>7, <1>8, <3>1
  <2>2. CASE bms.faulted = FALSE
    <3>1. Rest(bms, contacts)
      BY <1>1, <1>2, <2>2 DEF Calm
    <3> QED BY <1>1, <1>4, <1>7, <3>1 DEF Rest
  <2> QED BY <1>2, <2>1, <2>2 DEF Sensed
<1>10. \A r \in Relay : bms'.pin[r] # bms'.want[r] => contacts'[r] = bms'.pin[r] /\ bms'.on[r] = bms'.pin[r]
  BY <1>7, <1>8, <1>9 DEF Relay
<1>11. PinsTyped(bms', contacts')
  BY <1>1, <1>2, <1>4, <1>7, <1>8 DEF PinsTyped
<1>12. \A i \in TimerIds : What(bms', i) \notin {"assert", "hv", "closed"}
  BY <1>6 DEF NoAssert, NoStep, What, Steps
<1>13. Sensed(bms', contacts')
  BY <1>5, <1>10, <1>11, <1>12 DEF Sensed
<1> QED BY <1>1, <1>5, <1>6, <1>7, <1>13

\* A timer started in the middle of the command to close.
LEMMA StartedSenses ==
  ASSUME BmsQuiet, SenseQuiet, closing # "no", NEW what \in {"assert", "hv"}, NEW id \in Ids,
         bms' = StartTimer(bms, what, id), contacts' = contacts,
         \A i \in TimerIds : What(bms', i) = "assert" => bms'.timers[i].left = 1
  PROVE  Sensed(bms', contacts') /\ bms'.pin["gnd"] = TRUE /\ bms'.confirmed = FALSE
<1>1. what \in Whats \ {"none"} /\ BmsTypes(bms) /\ what # "closed"
  BY DEF Whats, Steps, BmsQuiet, Sound
<1>2. /\ Sensed(bms, contacts) /\ bms.pin["gnd"] = TRUE /\ bms.confirmed = FALSE
      /\ bms.faulted = FALSE /\ NoStep(bms)
  BY DEF SenseQuiet, BmsQuiet
<1>3. SameRelays(bms, bms')
  BY <1>1, StartedKeeps
<1>4. \A i \in TimerIds : bms'.timers[i] = bms.timers[i] \/ What(bms', i) = what
  BY <1>1, Started DEF What
<1>5. /\ bms'.pin = bms.pin /\ bms'.on = bms.on /\ bms'.want = bms.want
      /\ bms'.faulted = FALSE /\ bms'.confirmed = FALSE
  BY <1>2, <1>3 DEF SameRelays
<1>6. /\ PinsTyped(bms', contacts')
      /\ \A r \in Relay : bms'.pin[r] # bms'.want[r] => contacts'[r] = bms'.pin[r] /\ bms'.on[r] = bms'.pin[r]
  BY <1>2, <1>5 DEF Sensed, PinsTyped
<1>7. \A i \in TimerIds : What(bms', i) # "closed"
  BY <1>1, <1>2, <1>4 DEF NoStep, What, Steps
<1>8. \A i \in TimerIds : What(bms', i) = "assert" => bms'.timers[i].left # 0
  OBVIOUS
<1>9. bms'.pin["gnd"] = TRUE
  BY <1>2, <1>5
<1>10. Sensed(bms', contacts')
  BY <1>5, <1>6, <1>7, <1>8, <1>9 DEF Sensed
<1> QED BY <1>5, <1>9, <1>10

LEMMA SenseInvNext ==
  ASSUME BmsTimers > 3
  PROVE  SenseInv /\ [BmsNext]_bmsVars => SenseInv'
<1> SUFFICES ASSUME SenseInv, [BmsNext]_bmsVars PROVE SenseInv'
  OBVIOUS
<1>1. BasicInv /\ BmsInv'
  BY BmsInvNext DEF SenseInv, BmsInv
<1>2. disturbed' \in {TRUE, FALSE} /\ bms'.faulted \in {TRUE, FALSE} /\ closing \in {"no", "pin set", "asserting"}
  BY <1>1 DEF BmsInv, BasicInv, Basic
<1> SUFFICES ASSUME disturbed' = FALSE PROVE SenseQuiet'
  BY <1>1, <1>2 DEF SenseInv
<1>3. ASSUME closing' = "no", Orderly(bms', {}), Sensed(bms', contacts'), Calm(bms', contacts')
      PROVE  SenseQuiet'
  BY <1>3 DEF SenseQuiet
<1>4. CASE PowerOffRx
  <2>1. closing' = "no" /\ ~UnderWay
    BY <1>4 DEF PowerOffRx
  <2> QED BY <1>1, <1>3, <1>4, <2>1, PowerOffSenses
<1> SUFFICES ASSUME ~PowerOffRx PROVE SenseQuiet'
  BY <1>4
<1>5. disturbed = FALSE
  BY <1>1, WasUndisturbed
<1>6. BmsQuiet /\ SenseQuiet
  BY <1>5 DEF SenseInv, BmsInv
<1>7. Sound(bms) /\ BmsTypes(bms) /\ NextIsKept(bms)
  BY <1>6 DEF BmsQuiet, Sound
<1>8. Orderly(bms, {}) /\ Sensed(bms, contacts) /\ (closing = "no" => Calm(bms, contacts))
  BY <1>6 DEF SenseQuiet
<1>9. ASSUME NEW i \in TimerIds, TimerFires(i) PROVE SenseQuiet'
  <2>1. closing' = closing /\ contacts' = contacts /\ MayDisturb
    BY <1>9 DEF TimerFires
  <2>2. CASE closing = "no"
    <3>1. PICK over \in BOOLEAN : bms' = Cancel(Callback(bms, i, over), i)
      BY <1>9 DEF TimerFires
    <3>2. bms.timers[i] # NoTimer /\ bms.timers[i].left = 0
      BY <1>9 DEF TimerFires, Running
    <3>3. What(bms, i) # "none"
      BY <1>7, <3>2 DEF BmsTypes, Timers, What
    <3>4. Settled(bms, contacts)
      BY <1>8, <2>2 DEF Settled
    <3>5. Settled(bms', contacts)
      BY <1>7, <3>1, <3>2, <3>3, <3>4, CallbackSettled
    <3> QED BY <1>3, <2>1, <2>2, <3>5 DEF Settled
  <2>3. CASE closing # "no"
    <3>1. bms'.faulted = FALSE
      BY <1>2, <2>1, <2>3, FaultStrikes
    <3> QED BY <1>1, <1>6, <1>9, <2>3, <3>1, MeasurementSenses
  <2> QED BY <2>2, <2>3
<1>10. CASE BmsTick
  <2>1. closing' = "no"
    BY <1>10 DEF BmsTick
  <2> QED BY <1>1, <1>3, <1>6, <1>10, <2>1, TickSenses
<1>11. ASSUME NEW f \in FaultSources, FaultRaised(f) PROVE SenseQuiet'
  <2>1. closing' = closing /\ bms' = fault_bps_set(bms, f) /\ contacts' = contacts /\ MayDisturb
    BY <1>11 DEF FaultRaised
  <2>2. AssertIsKept(bms) /\ PinsTyped(bms, contacts)
    BY <1>8 DEF Orderly, AssertIsKept, Sensed
  <2>3. Orderly(bms', {}) /\ Sensed(bms', contacts) /\ Calm(bms', contacts)
    BY <1>7, <1>8, <2>1, <2>2, FaultSetSettled
  <2>4. bms'.faulted = TRUE
    BY <1>7, <2>1, FaultSetIsSound
  <2>5. closing' = "no"
    BY <2>1, <2>4, FaultStrikes
  <2> QED BY <1>3, <2>1, <2>3, <2>5
<1>12. ASSUME NEW f \in FaultSources, FaultCleared(f) PROVE SenseQuiet'
  <2> DEFINE F == bms.faults \ {f}
  <2>1. bms' = [bms EXCEPT !.faults = F] /\ contacts' = contacts /\ closing' = closing
    BY <1>12 DEF FaultCleared, fault_bps_clear
  <2> HIDE DEF F
  <2>2. BmsTypes(bms') /\ SameRelays(bms, bms') /\ bms'.timers = bms.timers /\ bms'.assertion = bms.assertion
    BY <1>7, <2>1, RecordFaults
  <2>3. Orderly(bms', {})
    BY <1>8, <2>2 DEF Orderly, What
  <2>4. \A i \in TimerIds : \/ bms'.timers[i] = bms.timers[i]
                            \/ What(bms', i) \in Periodic \cup {"none"} /\ What(bms, i) # "assert"
    BY <2>2
  <2>5. /\ Sensed(bms', contacts) /\ (Calm(bms, contacts) => Calm(bms', contacts))
        /\ (NoAssert(bms') <=> NoAssert(bms))
    BY <1>8, <2>2, <2>4, SensedKept
  <2>6. bms'.pin = bms.pin /\ bms'.confirmed = bms.confirmed
    BY <2>2 DEF SameRelays
  <2>7. closing = "asserting" =>
          ~NoAssert(bms') /\ \A i \in TimerIds : What(bms', i) = "assert" => bms'.timers[i].left = 1
    BY <1>6, <2>2, <2>5 DEF SenseQuiet, What
  <2> QED BY <1>6, <1>8, <2>1, <2>3, <2>5, <2>6, <2>7 DEF SenseQuiet
<1>13. CASE prv_io_int_callback
  BY <1>1, <1>6, <1>13, SensingSenses
<1>14. ASSUME NEW r \in Relay, ContactMoves(r) PROVE SenseQuiet'
  <2>1. bms' = bms /\ closing' = closing
    BY <1>14 DEF ContactMoves
  <2>2. Sensed(bms', contacts') /\ (closing = "no" => Calm(bms', contacts'))
    BY <1>6, <1>14, MoveSenses
  <2> QED BY <1>6, <2>1, <2>2 DEF SenseQuiet
<1>15. CASE PowerOnRx
  <2>1. ~UnderWay
    BY <1>15 DEF PowerOnRx
  <2> QED BY <1>1, <1>6, <1>15, <2>1, PowerOnSenses DEF SenseQuiet
<1>16. CASE StartAssertion
  <2>1. /\ bms' = StartTimer(bms, "assert", "assertion") /\ closing = "pin set" /\ closing' = "asserting"
        /\ contacts' = contacts
    BY <1>16 DEF StartAssertion
  <2>2. NoAssert(bms) /\ NoStep(bms)
    BY <1>6, <2>1 DEF SenseQuiet, BmsQuiet
  <2>3. \A i \in TimerIds \ {} : What(bms, i) \notin Steps
    BY <2>2 DEF NoStep, What
  <2>4. FreeIds(bms) # {}
    <3>1. \A i \in TimerIds : What(bms, i) \in Steps => i = 0
      BY <2>3
    <3> QED BY <1>7, <1>8, <2>2, <3>1, SomeFree
  <2>5. /\ Orderly(bms', {}) /\ \A i \in TimerIds \ {} : What(bms', i) \notin Steps
        /\ \A i \in TimerIds : What(bms', i) = "assert" => bms'.timers[i].left = 1
        /\ FreeIds(bms) # {} => ~NoAssert(bms')
    BY <1>7, <1>8, <2>1, <2>2, <2>3, StartAssertOrderly
  <2>6. Sensed(bms', contacts') /\ bms'.pin["gnd"] = TRUE /\ bms'.confirmed = FALSE
    BY <1>6, <2>1, <2>5, StartedSenses DEF Ids
  <2> QED BY <2>1, <2>4, <2>5, <2>6 DEF SenseQuiet
<1>17. CASE StartNextStep
  <2>1. /\ bms' = StartTimer(bms, "hv", "next") /\ closing = "asserting" /\ closing' = "no"
        /\ contacts' = contacts
    BY <1>17 DEF StartNextStep
  <2>2. ~NoAssert(bms) /\ \A i \in TimerIds : What(bms, i) = "assert" => bms.timers[i].left = 1
    BY <1>6, <2>1 DEF SenseQuiet
  <2>3. "hv" \in Steps
    BY DEF Steps
  <2>4. /\ Orderly(bms', {})
        /\ \A i \in TimerIds : bms'.timers[i] = bms.timers[i] \/ (What(bms, i) = "none" /\ What(bms', i) = "hv")
    BY <1>7, <1>8, <2>1, <2>2, <2>3, StartStepOrderly
  <2>5. \A i \in TimerIds : What(bms', i) = "assert" => bms'.timers[i].left = 1
    BY <2>2, <2>4 DEF What
  <2>6. ~NoAssert(bms')
    BY <2>2, <2>4 DEF NoAssert, What
  <2>7. Sensed(bms', contacts')
    BY <1>6, <2>1, <2>5, StartedSenses DEF Ids
  <2>8. Calm(bms', contacts')
    BY <2>6 DEF Calm
  <2> QED BY <1>3, <2>1, <2>4, <2>7, <2>8
<1>18. CASE UNCHANGED bmsVars
  <2>1. bms' = bms /\ contacts' = contacts /\ closing' = closing
    BY <1>18 DEF bmsVars
  <2> QED BY <1>6, <2>1 DEF SenseQuiet
<1> QED
  BY <1>9, <1>10, <1>11, <1>12, <1>13, <1>14, <1>15, <1>16, <1>17, <1>18 DEF BmsNext

\* The relays announced to be closed are driven and sensed closed: each step of the sequence is
\* announced after an assertion that found what is sensed to be what is expected, and no contact
\* moves without a pin that changed (relay_sequence.c:34-41, 101-127).  With four timers an
\* assertion always finds one: only the other step and the two measurements can hold one.
THEOREM ConfirmedAlwaysMeansClosed ==
  ASSUME BmsTimers > 3
  PROVE  BmsSpec => []ConfirmedMeansClosed
<1>1. BmsInit => SenseInv
  BY SenseInitInv
<1>2. SenseInv /\ [BmsNext]_bmsVars => SenseInv'
  BY SenseInvNext
<1>3. SenseInv => ConfirmedMeansClosed
  <2> SUFFICES ASSUME SenseInv, disturbed # TRUE, bms.confirmed = TRUE
               PROVE  bms.pin = Both(TRUE) /\ bms.on = Both(TRUE)
    BY DEF SenseInv, BmsInv, BasicInv, Basic, ConfirmedMeansClosed
  <2>1. SenseQuiet
    BY DEF SenseInv
  <2>2. bms.pin = Both(TRUE) /\ bms.faulted = FALSE /\ NoAssert(bms)
    BY <2>1 DEF SenseQuiet, Sensed
  <2>3. closing = "no"
    BY <2>1 DEF SenseQuiet
  <2>4. Rest(bms, contacts)
    BY <2>1, <2>2, <2>3 DEF SenseQuiet, Calm
  <2> QED BY <2>2, <2>4 DEF Rest
<1> QED BY <1>1, <1>2, <1>3, PTL DEF BmsSpec

\* With no assertion due, the relays sensed are the relays expected, or a fault has been raised: a
\* relay that did not move is never left unnoticed (relay_sequence.c:34-41).
THEOREM AlwaysSensedOrFaulted ==
  ASSUME BmsTimers > 3
  PROVE  BmsSpec => []SensedOrFaulted
<1>1. BmsInit => SenseInv
  BY SenseInitInv
<1>2. SenseInv /\ [BmsNext]_bmsVars => SenseInv'
  BY SenseInvNext
<1>3. SenseInv => SensedOrFaulted
  <2> SUFFICES ASSUME SenseInv, disturbed # TRUE, closing = "no", ~Awaits("assert"), bms.faulted # TRUE
               PROVE  bms.on = bms.want
    BY DEF SenseInv, BmsInv, BasicInv, Basic, SensedOrFaulted
  <2>1. SenseQuiet
    BY DEF SenseInv
  <2>2. NoAssert(bms) /\ bms.faulted = FALSE
    BY <2>1 DEF Awaits, NoAssert, What, SenseQuiet, Sensed
  <2> QED BY <2>1, <2>2 DEF SenseQuiet, Calm, Rest
<1> QED BY <1>1, <1>2, <1>3, PTL DEF BmsSpec
=============================================================================
