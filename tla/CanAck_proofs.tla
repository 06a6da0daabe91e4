--------------------------- MODULE CanAck_proofs ------------------------------
(***************************************************************************)
(* The table of ACK requests and the pool of their nodes stay in step, for *)
(* every capacity, every set of timers, messages, devices and requests and *)
(* every choice of the steps that the timer interrupt may precede, until   *)
(* it first strikes where it does damage.  The step lemmas assume ~torn',  *)
(* that is a step that does none.                                          *)
(***************************************************************************)
EXTENDS CanAck, FiniteSetTheorems, TLAPS

\* Steps before which the main loop holds no entry of the list.
Harmless == {"idle", "start", "append", "check"}

NodeRecs == [msg : Messages, expected : SUBSET Devices, response : SUBSET Devices,
             timer : TimerIds]
TimerMaps == [TimerIds -> {"none", "ack", "other"}]
Calls == [at : Points, node : Nodes \cup {NoNode}, index : 1 .. Capacity + 1,
          msg : Messages, device : Devices \cup {NoNode}, last : BOOLEAN]

\* The first cnt entries of act list the nodes of U, each once; the others are NULL.
Lists(act, cnt, U) ==
  /\ act \in [Nodes -> Nodes \cup {NoNode}] /\ cnt \in 0 .. Capacity
  /\ \A i \in 1 .. cnt : act[i] \in U
  /\ \A i, j \in 1 .. cnt : act[i] = act[j] => i = j
  /\ \A n \in U : \E i \in 1 .. cnt : act[i] = n
  /\ \A i \in cnt + 1 .. Capacity : act[i] = NoNode

\* A table in which the node in `held' is taken and not yet listed.
TableOK(t, held) ==
  /\ t.free \subseteq Nodes /\ t.node \in [Nodes -> NodeRecs] /\ t.timers \in TimerMaps
  /\ held \subseteq Nodes \ t.free
  /\ Lists(t.active, t.num, (Nodes \ t.free) \ held)

\* Where the list is while a request is removed from it, step by step.
ListPhase ==
  /\ main.at \in {"idle", "check", "free"} \cup Holding => Lists(active, num, InUse)
  /\ Adding => main.node \in InUse /\ Lists(active, num, InUse \ {main.node})
  /\ main.at = "decrement" => Lists(active, num, InUse \cup {main.node})
  /\ main.at = "move" => num \in Nat /\ Lists(active, num + 1, InUse \cup {main.node})
  /\ main.at = "clear" =>
       /\ active \in [Nodes -> Nodes \cup {NoNode}] /\ num + 1 \in Nodes
       /\ Lists([active EXCEPT ![num + 1] = NoNode], num, InUse)

\* The entry that the main loop works on.
EntryPhase ==
  /\ main.at = "store" => main.index = num + 1
  /\ main.at \in {"free", "decrement"} \cup Holding => main.index \in 1 .. num
  /\ main.at = "move" => main.index \in 1 .. num + 1
  /\ main.at \in {"mark", "test", "call", "reject", "cancel", "free", "decrement", "move"} =>
       main.node = active[main.index]
  /\ main.at \in {"decrement", "move"} => main.node \in free
  /\ main.at \in {"check", "read", "mark", "test", "call", "reject"} => main.device \in Devices
  /\ main.at = "call" => node[main.node].expected # {}

AckInv ==
  /\ free \subseteq Nodes /\ node \in [Nodes -> NodeRecs] /\ timers \in TimerMaps
  /\ main \in Calls /\ main.at # "lost"
  /\ ListPhase /\ EntryPhase

-----------------------------------------------------------------------------
(* The list                                                                 *)

LEMMA MinIsIn ==
  ASSUME NEW S, S \subseteq Nat, S # {}
  PROVE  Min(S) \in S
<1>1. IsWellFoundedOn(OpToRel(<, Nat), Nat)
  BY NatLessThanWellFounded
<1>2. PICK x \in S : \A y \in S : ~ (<<y, x>> \in OpToRel(<, Nat))
  BY <1>1, WFMin
<1>3. ASSUME NEW y \in S PROVE x =< y
  <2>1. ~(y < x)
    BY <1>2 DEF OpToRel
  <2> QED BY <2>1
<1> QED BY <1>3 DEF Min

LEMMA PutIs ==
  ASSUME NEW S, NEW act \in [Nodes -> S], NEW i, NEW n
  PROVE  Put(act, i, n) = [act EXCEPT ![i] = n]
BY DEF Put

\* A node outside the list leaves room for it.
LEMMA RoomForOne ==
  ASSUME NEW act, NEW cnt, NEW U, Lists(act, cnt, U), U \subseteq Nodes, NEW n \in Nodes \ U
  PROVE  cnt < Capacity
<1> DEFINE f == [i \in 1 .. cnt |-> act[i]]
           T == Nodes \ {n}
<1>1. cnt \in Nat /\ Capacity \in Nat
  BY CapacityAssumption DEF Lists
<1>2. IsFiniteSet(Nodes) /\ Cardinality(Nodes) = Capacity
  BY <1>1, FS_Interval, CapacityAssumption DEF Nodes
<1>3. IsFiniteSet(T) /\ Cardinality(T) = Capacity - 1
  BY <1>2, FS_RemoveElement
<1>4. Cardinality(1 .. cnt) = cnt
  BY <1>1, FS_Interval
<1>5. f \in [1 .. cnt -> T]
  BY DEF Lists
<1>6. \A i, j \in 1 .. cnt : f[i] = f[j] => i = j
  BY DEF Lists
<1>7. f \in Injection(1 .. cnt, T)
  BY <1>5, <1>6 DEF Injection, IsInjective
<1>8. Cardinality(1 .. cnt) =< Cardinality(T)
  BY <1>3, <1>7, FS_Injection
<1> QED BY <1>1, <1>3, <1>4, <1>8

LEMMA ListAppended ==
  ASSUME NEW act, NEW cnt, NEW U, Lists(act, cnt, U), U \subseteq Nodes, NEW n \in Nodes \ U
  PROVE  Lists([act EXCEPT ![cnt + 1] = n], cnt + 1, U \cup {n}) /\ cnt + 1 \in Nodes
<1> DEFINE b == [act EXCEPT ![cnt + 1] = n]
<1>1. cnt \in 0 .. Capacity /\ cnt < Capacity /\ Capacity \in Nat
  BY RoomForOne, CapacityAssumption DEF Lists
<1>2. cnt + 1 \in Nodes /\ cnt + 1 \in 0 .. Capacity
  BY <1>1 DEF Nodes
<1>3. /\ b \in [Nodes -> Nodes \cup {NoNode}]
      /\ \A i \in Nodes : b[i] = IF i = cnt + 1 THEN n ELSE act[i]
  BY <1>2 DEF Lists
<1> HIDE DEF b
<1>4. ASSUME NEW i \in 1 .. cnt PROVE i \in Nodes /\ b[i] = act[i] /\ act[i] \in U /\ act[i] # n
  <2>1. i \in Nodes /\ i # cnt + 1
    BY <1>1, <1>4 DEF Nodes
  <2> QED BY <1>3, <1>4, <2>1 DEF Lists
<1>5. b[cnt + 1] = n
  BY <1>2, <1>3
<1>6. \A i \in 1 .. cnt + 1 : i \in 1 .. cnt \/ i = cnt + 1
  BY <1>1
<1>7. \A i \in 1 .. cnt + 1 : b[i] \in U \cup {n}
  BY <1>4, <1>5, <1>6
<1>8. ASSUME NEW i \in 1 .. cnt + 1, NEW j \in 1 .. cnt + 1, b[i] = b[j] PROVE i = j
  <2>1. CASE i \in 1 .. cnt /\ j \in 1 .. cnt
    BY <1>4, <1>8, <2>1 DEF Lists
  <2>2. CASE i = cnt + 1 \/ j = cnt + 1
    BY <1>4, <1>5, <1>6, <1>8, <2>2
  <2> QED BY <1>6, <2>1, <2>2
<1>9. ASSUME NEW m \in U \cup {n} PROVE \E i \in 1 .. cnt + 1 : b[i] = m
  <2>1. CASE m = n
    BY <1>1, <1>5, <2>1
  <2>2. CASE m \in U
    <3>1. PICK i \in 1 .. cnt : act[i] = m
      BY <2>2 DEF Lists
    <3>2. i \in 1 .. cnt + 1
      BY <1>1
    <3> QED BY <1>4, <3>1, <3>2
  <2> QED BY <1>9, <2>1, <2>2
<1>10. ASSUME NEW i \in cnt + 1 + 1 .. Capacity PROVE b[i] = NoNode
  <2>1. i \in Nodes /\ i # cnt + 1 /\ i \in cnt + 1 .. Capacity
    BY <1>1, <1>10 DEF Nodes
  <2> QED BY <1>3, <2>1 DEF Lists
<1>11. Lists(b, cnt + 1, U \cup {n})
  BY <1>2, <1>3, <1>7, <1>8, <1>9, <1>10 DEF Lists
<1> QED BY <1>2, <1>11 DEF b

\* What the memmove and the clearing of the last entry make of a list.
LEMMA ListRemoved ==
  ASSUME NEW act, NEW cnt, NEW U, Lists(act, cnt + 1, U), cnt \in Nat, NEW i \in 1 .. cnt + 1
  PROVE  /\ Shifted(act, i, cnt) \in [Nodes -> Nodes \cup {NoNode}] /\ cnt + 1 \in Nodes
         /\ Lists([Shifted(act, i, cnt) EXCEPT ![cnt + 1] = NoNode], cnt, U \ {act[i]})
<1> DEFINE sh == Shifted(act, i, cnt)
           b == [sh EXCEPT ![cnt + 1] = NoNode]
           V == U \ {act[i]}
<1>1. cnt + 1 \in Nodes /\ cnt \in 0 .. Capacity /\ Capacity \in Nat
  BY CapacityAssumption DEF Lists, Nodes
<1>2. act \in [Nodes -> Nodes \cup {NoNode}]
  BY DEF Lists
<1>3. sh \in [Nodes -> Nodes \cup {NoNode}]
  <2>1. ASSUME NEW k \in Nodes
        PROVE (IF i =< k /\ k =< cnt /\ k < Capacity THEN act[k + 1] ELSE act[k])
                \in Nodes \cup {NoNode}
    <3>1. k =< cnt => k + 1 \in Nodes
      BY <1>1, <2>1 DEF Nodes
    <3> QED BY <1>2, <2>1, <3>1
  <2> QED BY <2>1 DEF Shifted
<1>4. \A k \in Nodes : sh[k] = IF i =< k /\ k =< cnt THEN act[k + 1] ELSE act[k]
  <2>1. \A k \in Nodes : k =< cnt => k < Capacity
    BY <1>1 DEF Nodes
  <2> QED BY <2>1 DEF Shifted
<1> HIDE DEF sh
<1>5. /\ b \in [Nodes -> Nodes \cup {NoNode}]
      /\ \A k \in Nodes : b[k] = IF k = cnt + 1 THEN NoNode ELSE sh[k]
  BY <1>1, <1>3
<1> HIDE DEF b
\* Where the entry k comes from.
<1> DEFINE src(k) == IF i =< k THEN k + 1 ELSE k
<1>6. ASSUME NEW k \in 1 .. cnt PROVE /\ b[k] = act[src(k)] /\ src(k) \in 1 .. cnt + 1
                                       /\ src(k) # i
  <2>1. k \in Nodes /\ k # cnt + 1 /\ k =< cnt
    BY <1>1, <1>6 DEF Nodes
  <2>2. b[k] = sh[k]
    BY <1>5, <2>1
  <2>3. sh[k] = act[src(k)]
    BY <1>4, <2>1
  <2>4. src(k) \in 1 .. cnt + 1 /\ src(k) # i
    BY <1>1, <1>6
  <2> QED BY <2>2, <2>3, <2>4
<1>7. \A k, l \in 1 .. cnt : src(k) = src(l) => k = l
  BY <1>1
<1> HIDE DEF src
<1>8. \A k \in 1 .. cnt : b[k] \in V
  BY <1>6 DEF Lists
<1>9. ASSUME NEW k \in 1 .. cnt, NEW l \in 1 .. cnt, b[k] = b[l] PROVE k = l
  <2>1. src(k) = src(l)
    BY <1>6, <1>9 DEF Lists
  <2> QED BY <1>7, <2>1
<1>10. ASSUME NEW m \in V PROVE \E k \in 1 .. cnt : b[k] = m
  <2>1. PICK j \in 1 .. cnt + 1 : act[j] = m
    BY <1>10 DEF Lists
  <2>2. j # i
    BY <1>10, <2>1
  <2>3. CASE j < i
    <3>1. j \in 1 .. cnt /\ src(j) = j
      BY <1>1, <2>3 DEF src
    <3> QED BY <1>6, <2>1, <3>1
  <2>4. CASE i < j
    <3>1. j - 1 \in 1 .. cnt /\ src(j - 1) = j
      BY <1>1, <2>4 DEF src
    <3> QED BY <1>6, <2>1, <3>1
  <2> QED BY <1>1, <2>2, <2>3, <2>4
<1>11. ASSUME NEW k \in cnt + 1 .. Capacity PROVE b[k] = NoNode
  <2>1. k \in Nodes
    BY <1>1, <1>11 DEF Nodes
  <2>2. CASE k = cnt + 1
    BY <1>5, <2>1, <2>2
  <2>3. CASE k # cnt + 1
    <3>1. k \in cnt + 1 + 1 .. Capacity /\ ~(k =< cnt)
      BY <1>1, <1>11, <2>3
    <3>2. b[k] = act[k]
      BY <1>4, <1>5, <2>1, <2>3, <3>1
    <3> QED BY <3>1, <3>2 DEF Lists
  <2> QED BY <2>2, <2>3
<1>12. Lists(b, cnt, V)
  BY <1>1, <1>5, <1>8, <1>9, <1>10, <1>11 DEF Lists
<1> QED BY <1>1, <1>3, <1>12 DEF b, sh

-----------------------------------------------------------------------------
(* A whole request added or removed                                         *)

IsTable(t) == t = [free |-> t.free, node |-> t.node, active |-> t.active, num |-> t.num,
                   timers |-> t.timers, ended |-> t.ended]

LEMMA ClearedIsNode == Cleared \in NodeRecs
BY IdsAssumption DEF Cleared, NodeRecs

\* The table in which r has taken the node n and the timer id.
AddedWith(t, r, n, id) ==
  [free |-> t.free \ {n},
   node |-> [t.node EXCEPT ![n] = [msg |-> r[1], expected |-> r[2], response |-> {},
                                   timer |-> id]],
   active |-> Put(t.active, t.num + 1, n), num |-> t.num + 1,
   timers |-> [t.timers EXCEPT ![id] = "ack"], ended |-> [t.ended EXCEPT ![n] = 0]]

LEMMA AddedIs ==
  ASSUME NEW t, NEW held, IsTable(t), TableOK(t, held), NEW r \in Requests
  PROVE  \/ Added(t, r[1], r[2]) = t
         \/ \E n \in t.free, id \in TimerIds :
              t.timers[id] = "none" /\ Added(t, r[1], r[2]) = AddedWith(t, r, n, id)
<1> DEFINE u == Added(t, r[1], r[2])
           n == Min(t.free)
           id == Min(FreeTimers(t.timers))
           rec == [msg |-> r[1], expected |-> r[2], response |-> {}, timer |-> id]
<1>1. CASE t.free = {} \/ FreeTimers(t.timers) = {}
  BY <1>1 DEF Added
<1>2. CASE ~(t.free = {} \/ FreeTimers(t.timers) = {})
  <2>1. t.free \subseteq Nat
    BY CapacityAssumption DEF TableOK, Nodes
  <2>2. n \in t.free
    BY <1>2, <2>1, MinIsIn
  <2>3. FreeTimers(t.timers) \subseteq Nat
    BY IdsAssumption DEF FreeTimers
  <2>4. id \in FreeTimers(t.timers)
    BY <1>2, <2>3, MinIsIn
  <2>5. id \in TimerIds /\ t.timers[id] = "none"
    BY <2>4 DEF FreeTimers
  <2>6. u = [t EXCEPT !.free = @ \ {n},
                    !.node[n] = rec,
                    !.timers[id] = "ack",
                    !.active = Put(@, t.num + 1, n),
                    !.num = @ + 1,
                    !.ended[n] = 0]
    BY <1>2 DEF Added
  <2>7. AddedWith(t, r, n, id) =
          [free |-> t.free \ {n}, node |-> [t.node EXCEPT ![n] = rec],
           active |-> Put(t.active, t.num + 1, n), num |-> t.num + 1,
           timers |-> [t.timers EXCEPT ![id] = "ack"], ended |-> [t.ended EXCEPT ![n] = 0]]
    BY DEF AddedWith
  <2> HIDE DEF u, n, id, rec
  <2>8. u = [free |-> t.free \ {n}, node |-> [t.node EXCEPT ![n] = rec],
             active |-> Put(t.active, t.num + 1, n), num |-> t.num + 1,
             timers |-> [t.timers EXCEPT ![id] = "ack"], ended |-> [t.ended EXCEPT ![n] = 0]]
    BY <2>6 DEF IsTable
  <2>9. u = AddedWith(t, r, n, id)
    BY <2>7, <2>8
  <2> QED BY <2>2, <2>5, <2>9 DEF u
<1> QED BY <1>1, <1>2

LEMMA AddedOK ==
  ASSUME NEW t, NEW held, IsTable(t), TableOK(t, held), NEW r \in Requests,
         NEW u, u = Added(t, r[1], r[2])
  PROVE  /\ IsTable(u) /\ TableOK(u, held) /\ t.num =< u.num
         /\ \A i \in 1 .. t.num : u.active[i] = t.active[i]
         /\ \A m \in Nodes \ t.free : m \notin u.free /\ u.node[m] = t.node[m]
<1> DEFINE U == (Nodes \ t.free) \ held
<1>1. t.num \in Nat
  BY CapacityAssumption DEF TableOK, Lists
<1>2. CASE u = t
  BY <1>1, <1>2
<1>3. CASE u # t
  <2>1. PICK n \in t.free, id \in TimerIds : u = AddedWith(t, r, n, id)
    BY <1>3, AddedIs
  <2> DEFINE rec == [msg |-> r[1], expected |-> r[2], response |-> {}, timer |-> id]
  <2>2. r \in Messages \X (SUBSET Devices)
    BY RequestsAssumption
  <2>3. rec \in NodeRecs
    BY <2>2 DEF NodeRecs
  <2>4. u = [free |-> t.free \ {n}, node |-> [t.node EXCEPT ![n] = rec],
             active |-> [t.active EXCEPT ![t.num + 1] = n], num |-> t.num + 1,
             timers |-> [t.timers EXCEPT ![id] = "ack"], ended |-> [t.ended EXCEPT ![n] = 0]]
    <3>1. Put(t.active, t.num + 1, n) = [t.active EXCEPT ![t.num + 1] = n]
      BY PutIs DEF TableOK, Lists
    <3> QED BY <2>1, <3>1 DEF AddedWith
  <2>5. n \in Nodes \ U /\ U \subseteq Nodes
    BY <2>1 DEF TableOK
  <2>6. Lists(t.active, t.num, U)
    BY DEF TableOK
  <2> HIDE DEF rec, U
  <2>7. /\ Lists([t.active EXCEPT ![t.num + 1] = n], t.num + 1, U \cup {n})
        /\ t.num + 1 \in Nodes
    BY <2>5, <2>6, ListAppended
  <2>8. U \cup {n} = (Nodes \ (t.free \ {n})) \ held
    BY <2>1, <2>5 DEF U, TableOK
  <2>9. Lists(u.active, u.num, (Nodes \ u.free) \ held)
    BY <2>4, <2>7, <2>8
  <2>10. u.free \subseteq Nodes /\ held \subseteq Nodes \ u.free
    BY <2>4 DEF TableOK
  <2>11. u.node \in [Nodes -> NodeRecs]
    BY <2>3, <2>4 DEF TableOK
  <2>12. u.timers \in TimerMaps
    BY <2>4 DEF TableOK, TimerMaps
  <2>13. TableOK(u, held)
    BY <2>9, <2>10, <2>11, <2>12 DEF TableOK
  <2>14. IsTable(u)
    BY <2>4 DEF IsTable
  <2>15. ASSUME NEW i \in 1 .. t.num PROVE u.active[i] = t.active[i]
    <3>1. i # t.num + 1
      BY <1>1
    <3>2. u.active = [t.active EXCEPT ![t.num + 1] = n]
      BY <2>4
    <3>3. t.active \in [Nodes -> Nodes \cup {NoNode}] /\ t.num \in 0 .. Capacity
      BY <2>6 DEF Lists
    <3>4. i \in Nodes
      BY <3>3, CapacityAssumption DEF Nodes
    <3> QED BY <3>1, <3>2, <3>3, <3>4
  <2>16. t.num =< u.num
    BY <1>1, <2>4
  <2>17. \A m \in Nodes \ t.free : m \notin u.free /\ u.node[m] = t.node[m]
    BY <2>1, <2>4 DEF TableOK
  <2> QED BY <2>13, <2>14, <2>15, <2>16, <2>17
<1> QED BY <1>2, <1>3

\* The same after a callback, which adds a request or does not.
LEMMA TransmitsOK ==
  ASSUME NEW t, NEW held, IsTable(t), TableOK(t, held), NEW u \in AfterTransmits(t)
  PROVE  /\ IsTable(u) /\ TableOK(u, held) /\ t.num =< u.num
         /\ \A i \in 1 .. t.num : u.active[i] = t.active[i]
         /\ \A m \in Nodes \ t.free : m \notin u.free /\ u.node[m] = t.node[m]
<1>1. CASE u = t
  BY <1>1, CapacityAssumption DEF TableOK, Lists
<1>2. CASE \E r \in Requests : u = Added(t, r[1], r[2])
  BY <1>2, AddedOK
<1> QED BY <1>1, <1>2 DEF AfterTransmits

LEMMA RemovedOK ==
  ASSUME NEW t, NEW held, IsTable(t), TableOK(t, held), NEW i \in 1 .. t.num
  PROVE  LET u == Removed(t, i, t.active[i])
         IN /\ IsTable(u) /\ TableOK(u, held) /\ u.num = t.num - 1
            /\ \A j \in 1 .. i - 1 : u.active[j] = t.active[j]
            /\ \A m \in Nodes : m # t.active[i] => u.node[m] = t.node[m]
<1> DEFINE n == t.active[i]
           u == Removed(t, i, n)
           cnt == t.num - 1
           act == Put(Shifted(t.active, i, cnt), cnt + 1, NoNode)
           U == (Nodes \ t.free) \ held
<1>1. u = [free |-> t.free \cup {n}, node |-> [t.node EXCEPT ![n] = Cleared],
           active |-> act, num |-> cnt,
           timers |-> [t.timers EXCEPT ![t.node[n].timer] = "none"], ended |-> t.ended]
  <2>1. u = [t EXCEPT !.timers[t.node[n].timer] = "none",
               !.free = @ \cup {n},
               !.node[n] = Cleared,
               !.num = cnt,
               !.active = act]
    BY DEF Removed
  <2> HIDE DEF u, n, cnt, act
  <2> QED BY <2>1 DEF IsTable
<1>2. t.num \in Nat /\ cnt \in Nat /\ t.num = cnt + 1 /\ Lists(t.active, t.num, U)
  BY CapacityAssumption DEF TableOK, Lists
<1>3. n \in U
  BY DEF TableOK, Lists
<1> HIDE DEF u, cnt
<1>4. Lists(t.active, cnt + 1, U) /\ i \in 1 .. cnt + 1
  BY <1>2
<1>5. Lists(act, cnt, U \ {n})
  <2>1. /\ Shifted(t.active, i, cnt) \in [Nodes -> Nodes \cup {NoNode}]
        /\ Lists([Shifted(t.active, i, cnt) EXCEPT ![cnt + 1] = NoNode], cnt, U \ {n})
    BY <1>2, <1>4, ListRemoved
  <2>2. act = [Shifted(t.active, i, cnt) EXCEPT ![cnt + 1] = NoNode]
    BY <2>1, PutIs
  <2> QED BY <2>1, <2>2
<1>5a. ASSUME NEW j \in 1 .. i - 1 PROVE act[j] = t.active[j]
  <2>1. j \in Nodes /\ j # cnt + 1 /\ ~(i =< j)
    BY <1>2, <1>4, CapacityAssumption DEF Nodes, Lists
  <2> QED BY <2>1 DEF Put, Shifted
<1> HIDE DEF act, n
<1>6. U \ {n} = (Nodes \ (t.free \cup {n})) \ held
  OBVIOUS
<1>7. Lists(u.active, u.num, (Nodes \ u.free) \ held)
  BY <1>1, <1>5, <1>6
<1>8. u.free \subseteq Nodes /\ held \subseteq Nodes \ u.free
  BY <1>1, <1>3 DEF TableOK
<1>9. u.node \in [Nodes -> NodeRecs]
  BY <1>1, ClearedIsNode DEF TableOK
<1>10. u.timers \in TimerMaps
  BY <1>1 DEF TableOK, TimerMaps
<1>11. IsTable(u)
  BY <1>1 DEF IsTable
<1>12. TableOK(u, held)
  BY <1>7, <1>8, <1>9, <1>10 DEF TableOK
<1>13. \A m \in Nodes : m # n => u.node[m] = t.node[m]
  BY <1>1 DEF TableOK
<1>14. u.num = t.num - 1 /\ \A j \in 1 .. i - 1 : u.active[j] = t.active[j]
  BY <1>1, <1>5a DEF cnt
<1> QED BY <1>11, <1>12, <1>13, <1>14 DEF u, n

-----------------------------------------------------------------------------
(* The steps                                                                *)

\* The node that is taken and not yet listed.
Held == IF Adding THEN {main.node} ELSE {}

LEMMA GotoKeeps ==
  ASSUME main \in Calls, NEW p \in Points, Goto(p)
  PROVE  /\ main' \in Calls /\ main'.at = p /\ main'.node = main.node
         /\ main'.index = main.index /\ main'.device = main.device
         /\ main'.last = main.last
BY DEF Goto, Calls

LEMMA ReturnIs ==
  ASSUME Return
  PROVE  main' \in Calls /\ main'.at = "idle"
BY CapacityAssumption, IdsAssumption DEF Return, AtRest, Calls, Points, Nodes

LEMMA InitAck == Init => AckInv
<1> SUFFICES ASSUME Init PROVE AckInv
  OBVIOUS
<1>1. free \subseteq Nodes /\ node \in [Nodes -> NodeRecs]
  BY ClearedIsNode DEF Init
<1>2. timers \in TimerMaps
  BY DEF Init, TimerMaps
<1>3. main \in Calls /\ main.at = "idle"
  BY CapacityAssumption, IdsAssumption DEF Init, AtRest, Calls, Points, Nodes
<1>4. Lists(active, num, InUse)
  <2>1. /\ InUse = {} /\ num = 0 /\ active = [j \in Nodes |-> NoNode] /\ Capacity \in Nat
    BY CapacityAssumption DEF Init, InUse
  <2>2. \A j \in 1 .. num : FALSE
    BY <2>1
  <2>3. \A j \in num + 1 .. Capacity : active[j] = NoNode
    BY <2>1 DEF Nodes
  <2> QED BY <2>1, <2>2, <2>3 DEF Lists
<1>5. ListPhase
  BY <1>3, <1>4 DEF ListPhase, Holding, Adding
<1>6. EntryPhase
  BY <1>3 DEF EntryPhase, Holding
<1> QED BY <1>1, <1>2, <1>3, <1>5, <1>6 DEF AckInv

\* What an uninterrupted operation starts from.
LEMMA TableNow ==
  ASSUME AckInv, main.at \in Harmless \cup Holding
  PROVE  IsTable(Table) /\ TableOK(Table, Held)
<1>1. IsTable(Table)
  BY DEF IsTable, Table
<1>2. /\ Table.free = free /\ Table.node = node /\ Table.active = active /\ Table.num = num
      /\ Table.timers = timers
  BY DEF Table
<1>3. CASE Adding
  <2>1. Held = {main.node} /\ main.node \in InUse /\ Lists(active, num, InUse \ {main.node})
    BY <1>3 DEF AckInv, ListPhase, Holding, Held
  <2> QED BY <1>1, <1>2, <2>1 DEF AckInv, TableOK, InUse
<1>4. CASE ~Adding
  <2>1. main.at \in {"idle", "check"} \cup Holding
    BY <1>4 DEF Harmless, Adding
  <2>2. Held = {} /\ Lists(active, num, InUse)
    BY <1>4, <2>1 DEF AckInv, ListPhase, Holding, Held
  <2>3. InUse \ {} = InUse
    OBVIOUS
  <2> QED BY <1>1, <1>2, <2>2, <2>3 DEF AckInv, TableOK, InUse
<1> QED BY <1>3, <1>4

\* Where the interrupt leaves the main loop: with the entry it holds.
LEMMA Interrupted ==
  ASSUME AckInv, main.at \in Harmless \cup Holding, main' = main,
         NEW u, BecomesTable(u), TableOK(u, Held),
         main.at \in Holding => /\ main.index =< u.num
                               /\ \A j \in 1 .. main.index : u.active[j] = active[j]
                               /\ u.node[active[main.index]] = node[active[main.index]]
  PROVE  AckInv'
<1>1. /\ free' = u.free /\ node' = u.node /\ active' = u.active /\ num' = u.num
      /\ timers' = u.timers
  BY DEF BecomesTable
<1>2. /\ free' \subseteq Nodes /\ node' \in [Nodes -> NodeRecs] /\ timers' \in TimerMaps
      /\ Held \subseteq InUse'
  BY <1>1 DEF TableOK, InUse
<1>3. Lists(active', num', InUse' \ Held)
  BY <1>1 DEF TableOK, InUse
<1>4. ListPhase'
  <2>1. CASE Adding
    <3>1. Held = {main.node}
      BY <2>1 DEF Held
    <3>2. main'.node \in InUse' /\ Lists(active', num', InUse' \ {main'.node})
      BY <1>2, <1>3, <3>1
    <3>3. main'.at \in {"start", "append", "store"}
      BY <2>1 DEF Adding
    <3> QED BY <3>2, <3>3 DEF ListPhase, Adding, Holding
  <2>2. CASE ~Adding
    <3>1. InUse' \ Held = InUse'
      BY <2>2 DEF Held
    <3>2. Lists(active', num', InUse')
      BY <1>3, <3>1
    <3>3. main'.at \in {"idle", "check"} \cup Holding
      BY <2>2 DEF Harmless, Adding
    <3> QED BY <3>2, <3>3 DEF ListPhase, Adding, Holding
  <2> QED BY <2>1, <2>2
<1>5. EntryPhase'
  <2>1. CASE main.at \in Harmless
    BY <2>1 DEF AckInv, EntryPhase, Harmless, Holding
  <2>2. CASE main.at \in Holding
    <3>1. main.index \in 1 .. num /\ num \in Nat /\ u.num \in Nat
      BY <1>1, <1>3, <2>2, CapacityAssumption DEF AckInv, EntryPhase, ListPhase, Holding, Lists
    <3>2. main'.index \in 1 .. num' /\ active'[main.index] = active[main.index]
      BY <1>1, <2>2, <3>1
    <3>3. main.at = "call" => node'[main.node].expected # {}
      BY <1>1, <2>2 DEF AckInv, EntryPhase, Holding
    <3> QED BY <2>2, <3>2, <3>3 DEF AckInv, EntryPhase, Holding
  <2> QED BY <2>1, <2>2
<1>6. main' \in Calls /\ main'.at # "lost"
  BY DEF AckInv
<1> QED BY <1>2, <1>4, <1>5, <1>6 DEF AckInv

LEMMA AddRequestStep == ASSUME AckInv, can_ack_add_request PROVE AckInv'
<1> DEFINE n == Min(free)
<1>1. PICK r \in Requests :
        /\ free' = free \ {n}
        /\ node' = [node EXCEPT ![n] = [msg |-> r[1], expected |-> r[2],
                                        response |-> {}, timer |-> 0]]
        /\ main' = [AtRest EXCEPT !.at = "start", !.node = n]
  BY DEF can_ack_add_request
<1>2. main.at = "idle" /\ free # {} /\ UNCHANGED <<active, num, timers, ended>>
  BY DEF can_ack_add_request
<1>3. n \in free /\ free \subseteq Nodes
  <2>1. free \subseteq Nodes
    BY DEF AckInv
  <2>2. free \subseteq Nat
    BY <2>1, CapacityAssumption DEF Nodes
  <2> QED BY <1>2, <2>1, <2>2, MinIsIn
<1> HIDE DEF n
<1>4. r \in Messages \X (SUBSET Devices)
  BY RequestsAssumption
<1>5. [msg |-> r[1], expected |-> r[2], response |-> {}, timer |-> 0] \in NodeRecs
  BY <1>4, IdsAssumption DEF NodeRecs
<1>6. free' \subseteq Nodes /\ node' \in [Nodes -> NodeRecs] /\ timers' \in TimerMaps
  BY <1>1, <1>2, <1>3, <1>5 DEF AckInv
<1>7. main' \in Calls /\ main'.at = "start" /\ main'.node = n
  <2>1. main' = [at |-> "start", node |-> n, index |-> 1, msg |-> 0, device |-> NoNode,
               last |-> FALSE]
    BY <1>1 DEF AtRest
  <2>2. 1 \in 1 .. Capacity + 1 /\ n \in Nodes
    BY <1>3, CapacityAssumption
  <2> QED BY <2>1, <2>2, IdsAssumption DEF Calls, Points
<1>8. InUse' = InUse \cup {n} /\ n \notin InUse
  BY <1>1, <1>3 DEF InUse
<1>9. InUse' \ {n} = InUse
  BY <1>8
<1>10. Lists(active', num', InUse)
  BY <1>2 DEF AckInv, ListPhase, Holding
<1>11. ListPhase'
  BY <1>7, <1>8, <1>9, <1>10 DEF ListPhase, Holding, Adding
<1>12. EntryPhase'
  BY <1>7 DEF EntryPhase, Holding
<1> QED BY <1>6, <1>7, <1>11, <1>12 DEF AckInv

LEMMA StartTimerStep == ASSUME AckInv, StartTimer PROVE AckInv'
<1>1. /\ main.at = "start" /\ UNCHANGED <<active, num, ended>> /\ main \in Calls
  BY DEF StartTimer, AckInv
<1>2. main.node \in InUse /\ Lists(active, num, InUse \ {main.node})
  BY <1>1 DEF AckInv, ListPhase, Holding, Adding
<1>3. CASE FreeTimers(timers) = {}
  <2>1. /\ free' = free \cup {main.node}
        /\ node' = [node EXCEPT ![main.node] = Cleared]
        /\ Return /\ UNCHANGED timers
    BY <1>3 DEF StartTimer
  <2>2. main' \in Calls /\ main'.at = "idle"
    BY <2>1, ReturnIs
  <2>3. free' \subseteq Nodes /\ timers' \in TimerMaps
    BY <1>2, <2>1 DEF AckInv, InUse
  <2>4. node' \in [Nodes -> NodeRecs]
    BY <2>1, ClearedIsNode DEF AckInv
  <2>5. InUse' = InUse \ {main.node}
    BY <2>1 DEF InUse
  <2>6. ListPhase'
    BY <1>1, <1>2, <2>2, <2>5 DEF ListPhase, Holding, Adding
  <2>7. EntryPhase'
    BY <2>2 DEF EntryPhase, Holding
  <2> QED BY <2>2, <2>3, <2>4, <2>6, <2>7 DEF AckInv
<1>4. CASE FreeTimers(timers) # {}
  <2> DEFINE id == Min(FreeTimers(timers))
  <2>1. /\ timers' = [timers EXCEPT ![id] = "ack"]
        /\ node' = [node EXCEPT ![main.node].timer = id]
        /\ Goto("append") /\ UNCHANGED free
    BY <1>4 DEF StartTimer
  <2>2. FreeTimers(timers) \subseteq TimerIds
    BY DEF FreeTimers
  <2>3. id \in TimerIds
    BY <1>4, <2>2, MinIsIn, IdsAssumption
  <2> HIDE DEF id
  <2>4. /\ main' \in Calls /\ main'.at = "append" /\ main'.node = main.node
    BY <1>1, <2>1, GotoKeeps DEF Points
  <2>5. free' \subseteq Nodes /\ timers' \in TimerMaps
    BY <2>1 DEF AckInv, TimerMaps
  <2>6. node' \in [Nodes -> NodeRecs]
    BY <2>1, <2>3 DEF AckInv, NodeRecs
  <2>7. InUse' = InUse
    BY <2>1 DEF InUse
  <2>8. ListPhase'
    BY <1>1, <1>2, <2>4, <2>7 DEF ListPhase, Holding, Adding
  <2>9. EntryPhase'
    BY <2>4 DEF EntryPhase, Holding
  <2> QED BY <2>4, <2>5, <2>6, <2>8, <2>9 DEF AckInv
<1> QED BY <1>3, <1>4

LEMMA LoadCountStep == ASSUME AckInv, LoadCount PROVE AckInv'
<1>1. /\ main.at = "append" /\ main' = [main EXCEPT !.at = "store", !.index = num + 1]
      /\ UNCHANGED <<free, node, active, num, timers>> /\ main \in Calls
  BY DEF LoadCount, table, AckInv
<1>2. main.node \in InUse /\ Lists(active, num, InUse \ {main.node})
  BY <1>1 DEF AckInv, ListPhase, Holding, Adding
<1>3. num + 1 \in 1 .. Capacity + 1
  BY <1>2, CapacityAssumption DEF Lists
<1>4. /\ main' \in Calls /\ main'.at = "store" /\ main'.index = num + 1
      /\ main'.node = main.node
  BY <1>1, <1>3 DEF Calls, Points
<1>5. InUse' = InUse
  BY <1>1 DEF InUse
<1>6. ListPhase'
  BY <1>1, <1>2, <1>4, <1>5 DEF ListPhase, Holding, Adding
<1>7. EntryPhase'
  BY <1>1, <1>4 DEF EntryPhase, Holding
<1>8. free' \subseteq Nodes /\ node' \in [Nodes -> NodeRecs] /\ timers' \in TimerMaps
  BY <1>1 DEF AckInv
<1> QED BY <1>4, <1>6, <1>7, <1>8 DEF AckInv

LEMMA StoreRequestStep == ASSUME AckInv, StoreRequest PROVE AckInv'
<1> DEFINE U == InUse \ {main.node}
<1>1. /\ main.at = "store" /\ active' = [active EXCEPT ![main.index] = main.node]
      /\ num' = main.index /\ Return /\ UNCHANGED <<free, node, timers>>
  BY DEF StoreRequest
<1>2. main.node \in InUse /\ Lists(active, num, U)
  BY <1>1 DEF AckInv, ListPhase, Holding, Adding
<1>3. main.index = num + 1
  BY <1>1 DEF AckInv, EntryPhase, Holding
<1>4. U \subseteq Nodes /\ main.node \in Nodes \ U /\ U \cup {main.node} = InUse
  BY <1>2 DEF InUse
<1>5. Lists([active EXCEPT ![num + 1] = main.node], num + 1, U \cup {main.node})
  BY <1>2, <1>4, ListAppended
<1>6. InUse' = InUse
  BY <1>1 DEF InUse
<1>7. Lists(active', num', InUse')
  BY <1>1, <1>3, <1>4, <1>5, <1>6
<1>8. main' \in Calls /\ main'.at = "idle"
  BY <1>1, ReturnIs
<1>9. ListPhase'
  BY <1>7, <1>8 DEF ListPhase, Holding, Adding
<1>10. EntryPhase'
  BY <1>8 DEF EntryPhase, Holding
<1>11. free' \subseteq Nodes /\ node' \in [Nodes -> NodeRecs] /\ timers' \in TimerMaps
  BY <1>1 DEF AckInv
<1> QED BY <1>8, <1>9, <1>10, <1>11 DEF AckInv

\* The steps of can_ack_handle_msg that leave the table alone.
LEMMA LookStep ==
  ASSUME AckInv, can_ack_handle_msg \/ CheckIndex \/ ReadRequest PROVE AckInv'
<1>1. /\ UNCHANGED <<free, node, active, num, timers>> /\ main \in Calls
      /\ main.at \in {"idle", "check", "read"}
  <2>1. main \in Calls
    BY DEF AckInv
  <2>2. CASE can_ack_handle_msg
    BY <2>1, <2>2 DEF can_ack_handle_msg, table
  <2>3. CASE CheckIndex
    BY <2>1, <2>3 DEF CheckIndex, table
  <2>4. CASE ReadRequest
    BY <2>1, <2>4 DEF ReadRequest, table
  <2> QED BY <2>2, <2>3, <2>4
<1>2. Lists(active, num, InUse)
  BY <1>1 DEF AckInv, ListPhase, Holding
<1>3. num \in Nat /\ num =< Capacity /\ Capacity \in Nat
  BY <1>2, CapacityAssumption DEF Lists
<1>4. InUse' = InUse
  BY <1>1 DEF InUse
<1>5. free' \subseteq Nodes /\ node' \in [Nodes -> NodeRecs] /\ timers' \in TimerMaps
  BY <1>1 DEF AckInv
<1>6. /\ main' \in Calls /\ main'.at \in {"idle", "check", "read", "mark"}
      /\ EntryPhase'
  <2>1. CASE can_ack_handle_msg
    <3>1. PICK m \in Messages, d \in Devices :
            main' = [AtRest EXCEPT !.at = "check", !.msg = m, !.device = d]
      BY <2>1 DEF can_ack_handle_msg
    <3>2. main' = [at |-> "check", node |-> NoNode, index |-> 1, msg |-> m, device |-> d,
                   last |-> FALSE]
      BY <3>1 DEF AtRest
    <3>3. 1 \in 1 .. Capacity + 1
      BY <1>3
    <3>4. main' \in Calls
      BY <3>2, <3>3 DEF Calls, Points
    <3> QED BY <3>2, <3>4 DEF EntryPhase, Holding
  <2>2. CASE CheckIndex
    <3>1. main.at = "check" /\ main.device \in Devices
      BY <2>2 DEF CheckIndex, AckInv, EntryPhase, Holding
    <3>2. CASE main.index =< num
      <4>1. Goto("read")
        BY <2>2, <3>2 DEF CheckIndex
      <4>2. main.index \in 1 .. num
        BY <1>1, <1>3, <3>2 DEF Calls
      <4>3. /\ main' \in Calls /\ main'.at = "read" /\ main'.index = main.index
            /\ main'.device = main.device
        BY <1>1, <4>1, GotoKeeps DEF Points
      <4> QED BY <1>1, <3>1, <4>2, <4>3 DEF EntryPhase, Holding
    <3>3. CASE ~(main.index =< num)
      <4>1. main' \in Calls /\ main'.at = "idle"
        BY <2>2, <3>3, ReturnIs DEF CheckIndex
      <4> QED BY <4>1 DEF EntryPhase, Holding
    <3> QED BY <3>2, <3>3
  <2>3. CASE ReadRequest
    <3> DEFINE n == active[main.index]
    <3>1. /\ main.at = "read" /\ main.device \in Devices /\ main.index \in 1 .. num
      BY <2>3 DEF ReadRequest, AckInv, EntryPhase, Holding
    <3>2. n \in InUse
      BY <1>2, <3>1 DEF Lists
    <3>3. n \in Nodes
      BY <3>2 DEF InUse
    <3>4. CASE main' = [main EXCEPT !.at = "mark", !.node = n]
      <4> HIDE DEF n
      <4>1. /\ main' \in Calls /\ main'.at = "mark" /\ main'.index = main.index
            /\ main'.device = main.device /\ main'.node = n
        BY <1>1, <3>3, <3>4 DEF Calls, Points
      <4> USE DEF n
      <4> QED BY <1>1, <3>1, <4>1 DEF EntryPhase, Holding
    <3>5. CASE main' = [main EXCEPT !.at = "check", !.index = @ + 1]
      <4>1. main.index + 1 \in 1 .. Capacity + 1
        BY <1>3, <3>1
      <4>2. /\ main' \in Calls /\ main'.at = "check" /\ main'.device = main.device
        BY <1>1, <3>5, <4>1 DEF Calls, Points
      <4> QED BY <3>1, <4>2 DEF EntryPhase, Holding
    <3> QED BY <2>3, <3>4, <3>5 DEF ReadRequest
  <2> QED BY <2>1, <2>2, <2>3
<1>7. ListPhase'
  BY <1>1, <1>2, <1>4, <1>6 DEF ListPhase, Holding, Adding
<1> QED BY <1>5, <1>6, <1>7 DEF AckInv

\* The entry the main loop works on is listed.
LEMMA EntryInUse ==
  ASSUME AckInv, main.at \in {"mark", "test", "call", "reject", "cancel", "free"}
  PROVE  /\ main.index \in 1 .. num /\ main.node = active[main.index]
         /\ Lists(active, num, InUse) /\ main.node \in InUse
<1>1. main.index \in 1 .. num /\ main.node = active[main.index]
  BY DEF AckInv, EntryPhase, Holding
<1>2. Lists(active, num, InUse)
  BY DEF AckInv, ListPhase, Holding
<1> QED BY <1>1, <1>2 DEF Lists

LEMMA MarkResponseStep == ASSUME AckInv, MarkResponse PROVE AckInv'
<1>1. /\ main.at = "mark" /\ main \in Calls /\ Goto("test")
      /\ node' = [node EXCEPT ![main.node].response = @ \cup {main.device}]
      /\ UNCHANGED <<free, active, num, timers>>
  BY DEF AckInv, MarkResponse
<1>2. /\ main.index \in 1 .. num /\ main.node = active[main.index]
      /\ Lists(active, num, InUse) /\ main.node \in InUse
  BY <1>1, EntryInUse
<1>3. main.device \in Devices
  BY <1>1 DEF AckInv, EntryPhase, Holding
<1>4. node' \in [Nodes -> NodeRecs]
  <2>1. node \in [Nodes -> NodeRecs]
    BY DEF AckInv
  <2>2. main.node \in Nodes
    BY <1>2 DEF InUse
  <2>3. [node[main.node] EXCEPT !.response = @ \cup {main.device}] \in NodeRecs
    BY <1>3, <2>1, <2>2 DEF NodeRecs
  <2>4. node' = [node EXCEPT ![main.node] =
                   [node[main.node] EXCEPT !.response = @ \cup {main.device}]]
    BY <1>1
  <2> QED BY <2>1, <2>3, <2>4
<1>5. /\ main' \in Calls /\ main'.at = "test" /\ main'.node = main.node
      /\ main'.index = main.index /\ main'.device = main.device
  BY <1>1, GotoKeeps DEF Points
<1>6. InUse' = InUse
  BY <1>1 DEF InUse
<1>7. ListPhase'
  BY <1>1, <1>2, <1>5, <1>6 DEF ListPhase, Holding, Adding
<1>8. EntryPhase'
  BY <1>1, <1>2, <1>3, <1>5 DEF EntryPhase, Holding
<1>9. free' \subseteq Nodes /\ timers' \in TimerMaps
  BY <1>1 DEF AckInv
<1> QED BY <1>4, <1>5, <1>7, <1>8, <1>9 DEF AckInv

LEMMA CancelTimerStep == ASSUME AckInv, CancelTimer PROVE AckInv'
<1>1. /\ main.at = "cancel" /\ main \in Calls /\ UNCHANGED <<free, node, active, num>>
  BY DEF AckInv, CancelTimer, table
<1>2. /\ main.index \in 1 .. num /\ main.node = active[main.index]
      /\ Lists(active, num, InUse) /\ main.node \in InUse
  BY <1>1, EntryInUse
<1>3. InUse' = InUse
  BY <1>1 DEF InUse
<1>4. free' \subseteq Nodes /\ node' \in [Nodes -> NodeRecs]
  BY <1>1 DEF AckInv
<1>5. timers' \in TimerMaps
  BY DEF AckInv, CancelTimer, TimerMaps
<1>6. CASE Goto("free")
  <2>1. /\ main' \in Calls /\ main'.at = "free" /\ main'.node = main.node
        /\ main'.index = main.index
    BY <1>1, <1>6, GotoKeeps DEF Points
  <2>2. ListPhase'
    BY <1>1, <1>2, <1>3, <2>1 DEF ListPhase, Holding, Adding
  <2>3. EntryPhase'
    BY <1>1, <1>2, <2>1 DEF EntryPhase, Holding
  <2> QED BY <1>4, <1>5, <2>1, <2>2, <2>3 DEF AckInv
<1>7. CASE Return
  <2>1. main' \in Calls /\ main'.at = "idle"
    BY <1>7, ReturnIs
  <2>2. ListPhase'
    BY <1>1, <1>2, <1>3, <2>1 DEF ListPhase, Holding, Adding
  <2>3. EntryPhase'
    BY <2>1 DEF EntryPhase, Holding
  <2> QED BY <1>4, <1>5, <2>1, <2>2, <2>3 DEF AckInv
<1> QED BY <1>6, <1>7 DEF CancelTimer

LEMMA TestCallbackStep == ASSUME AckInv, TestCallback PROVE AckInv'
<1>1. /\ main.at = "test" /\ main \in Calls /\ UNCHANGED <<free, node, active, num, timers>>
  BY DEF AckInv, TestCallback, table
<1>2. /\ main.index \in 1 .. num /\ main.node = active[main.index]
      /\ Lists(active, num, InUse) /\ main.device \in Devices
  BY <1>1, EntryInUse DEF AckInv, EntryPhase, Holding
<1>3. /\ main' \in Calls /\ main'.node = main.node /\ main'.index = main.index
      /\ main'.device = main.device /\ main'.at \in {"call", "cancel"}
      /\ main'.at = "call" => node[main.node].expected # {}
  <2>1. (Remaining(main.node) = 0) \in BOOLEAN
    OBVIOUS
  <2>2. CASE node[main.node].expected = {}
    <3>1. main' = [main EXCEPT !.at = "cancel"]
      BY <2>2 DEF TestCallback
    <3> QED BY <1>1, <3>1 DEF Calls, Points
  <2>3. CASE node[main.node].expected # {}
    <3>1. main' = [main EXCEPT !.at = "call", !.last = Remaining(main.node) = 0]
      BY <2>3 DEF TestCallback
    <3> QED BY <1>1, <2>1, <2>3, <3>1 DEF Calls, Points
  <2> QED BY <2>2, <2>3
<1>4. InUse' = InUse
  BY <1>1 DEF InUse
<1>5. ListPhase'
  BY <1>1, <1>2, <1>3, <1>4 DEF ListPhase, Holding, Adding
<1>6. EntryPhase'
  BY <1>1, <1>2, <1>3 DEF EntryPhase, Holding
<1>7. free' \subseteq Nodes /\ node' \in [Nodes -> NodeRecs] /\ timers' \in TimerMaps
  BY <1>1 DEF AckInv
<1> QED BY <1>3, <1>5, <1>6, <1>7 DEF AckInv

LEMMA RejectAckStep == ASSUME AckInv, RejectAck PROVE AckInv'
<1>1. /\ main.at = "reject" /\ main \in Calls /\ Goto("cancel")
      /\ node' = [node EXCEPT ![main.node].response = @ \ {main.device}]
      /\ UNCHANGED <<free, active, num, timers>>
  BY DEF AckInv, RejectAck
<1>2. /\ main.index \in 1 .. num /\ main.node = active[main.index]
      /\ Lists(active, num, InUse) /\ main.node \in InUse
  BY <1>1, EntryInUse
<1>3. node' \in [Nodes -> NodeRecs]
  <2>1. node \in [Nodes -> NodeRecs]
    BY DEF AckInv
  <2>2. main.node \in Nodes
    BY <1>2 DEF InUse
  <2>3. [node[main.node] EXCEPT !.response = @ \ {main.device}] \in NodeRecs
    BY <2>1, <2>2 DEF NodeRecs
  <2>4. node' = [node EXCEPT ![main.node] =
                   [node[main.node] EXCEPT !.response = @ \ {main.device}]]
    BY <1>1
  <2> QED BY <2>1, <2>3, <2>4
<1>4. /\ main' \in Calls /\ main'.at = "cancel" /\ main'.node = main.node
      /\ main'.index = main.index
  BY <1>1, GotoKeeps DEF Points
<1>5. InUse' = InUse
  BY <1>1 DEF InUse
<1>6. ListPhase'
  BY <1>1, <1>2, <1>4, <1>5 DEF ListPhase, Holding, Adding
<1>7. EntryPhase'
  BY <1>1, <1>2, <1>4 DEF EntryPhase, Holding
<1>8. free' \subseteq Nodes /\ timers' \in TimerMaps
  BY <1>1 DEF AckInv
<1> QED BY <1>3, <1>4, <1>6, <1>7, <1>8 DEF AckInv

\* The callback of a request in use: no jump through a cleared node, and what it leaves.
LEMMA CallbackIs ==
  ASSUME AckInv, RunCallback, ~torn'
  PROVE  \E t \in AfterTransmits(Table), accepted \in BOOLEAN :
           /\ BecomesTable(IF accepted /\ main.last
                           THEN [t EXCEPT !.ended[main.node] = @ + 1] ELSE t)
           /\ Goto(IF accepted THEN "cancel" ELSE "reject")
<1>1. main.at = "call" /\ ~torn
  BY DEF RunCallback
<1>2. node[main.node].expected # {}
  BY <1>1 DEF AckInv, EntryPhase, Holding
<1>3. PICK accepted \in BOOLEAN, own \in BOOLEAN, null \in BOOLEAN, t \in AfterTransmits(Table) :
       /\ own \/ torn
       /\ null => node[main.node].expected = {} /\ t = Table
       /\ BecomesTable(IF accepted /\ own /\ main.last /\ ~null
                       THEN [t EXCEPT !.ended[main.node] = @ + 1] ELSE t)
       /\ Goto(IF null THEN "lost" ELSE IF accepted THEN "cancel" ELSE "reject")
  BY DEF RunCallback
<1>4. own /\ ~null
  BY <1>1, <1>2, <1>3
<1>5. /\ BecomesTable(IF accepted /\ main.last
                      THEN [t EXCEPT !.ended[main.node] = @ + 1] ELSE t)
      /\ Goto(IF accepted THEN "cancel" ELSE "reject")
  BY <1>3, <1>4
<1> QED BY <1>5

LEMMA RunCallbackStep == ASSUME AckInv, RunCallback, ~torn' PROVE AckInv'
<1> DEFINE n == main.node
<1>1. main.at = "call" /\ main \in Calls /\ main.at \in Holding
  BY DEF AckInv, RunCallback, Holding
<1>2. /\ main.index \in 1 .. num /\ n = active[main.index]
      /\ Lists(active, num, InUse) /\ n \in InUse
  BY <1>1, EntryInUse
<1>3. IsTable(Table) /\ TableOK(Table, Held) /\ Held = {}
  BY <1>1, TableNow DEF Held, Adding
<1>4. PICK t \in AfterTransmits(Table), accepted \in BOOLEAN :
        /\ BecomesTable(IF accepted /\ main.last THEN [t EXCEPT !.ended[n] = @ + 1] ELSE t)
        /\ Goto(IF accepted THEN "cancel" ELSE "reject")
  BY CallbackIs
<1>5. IsTable(t) /\ TableOK(t, {}) /\ num =< t.num /\ \A i \in 1 .. num : t.active[i] = active[i]
  <2>1. Table.num = num /\ Table.active = active
    BY DEF Table
  <2>2. IsTable(t) /\ TableOK(t, {}) /\ Table.num =< t.num
    BY <1>3, TransmitsOK
  <2>3. \A i \in 1 .. Table.num : t.active[i] = Table.active[i]
    BY <1>3, TransmitsOK
  <2> QED BY <2>1, <2>2, <2>3
<1>6. main.device \in Devices
  BY <1>1 DEF AckInv, EntryPhase, Holding
<1> HIDE DEF n
<1>7. free' = t.free /\ active' = t.active /\ num' = t.num /\ timers' = t.timers /\ node' = t.node
  <2>1. CASE ~(accepted /\ main.last)
    BY <1>4, <2>1 DEF BecomesTable
  <2>2. CASE accepted /\ main.last
    <3> DEFINE e == [t.ended EXCEPT ![n] = @ + 1]
               u == [t EXCEPT !.ended[n] = @ + 1]
    <3>1. u = [free |-> t.free, node |-> t.node, active |-> t.active, num |-> t.num,
               timers |-> t.timers, ended |-> e]
      BY <1>5 DEF IsTable
    <3>2. BecomesTable(u)
      BY <1>4, <2>2
    <3> HIDE DEF u, e
    <3> QED BY <3>1, <3>2 DEF BecomesTable
  <2> QED BY <2>1, <2>2
<1>8. /\ main' \in Calls /\ main'.at \in {"cancel", "reject"} /\ main'.node = n
      /\ main'.index = main.index /\ main'.device = main.device
  BY <1>1, <1>4, GotoKeeps DEF Points, n
<1>9. Lists(active', num', InUse')
  <2>1. InUse' = (Nodes \ t.free) \ {}
    BY <1>7 DEF InUse
  <2> QED BY <1>5, <1>7, <2>1 DEF TableOK
<1>10. ListPhase'
  BY <1>8, <1>9 DEF ListPhase, Holding, Adding
<1>11. main.index \in 1 .. num' /\ n = active'[main.index]
  <2>1. t.num \in Nat /\ num \in Nat
    BY <1>2, <1>5, CapacityAssumption DEF TableOK, Lists
  <2> QED BY <1>2, <1>5, <1>7, <2>1
<1>12. EntryPhase'
  BY <1>6, <1>8, <1>11 DEF EntryPhase, Holding
<1>13. free' \subseteq Nodes /\ timers' \in TimerMaps /\ node' \in [Nodes -> NodeRecs]
  BY <1>5, <1>7 DEF TableOK
<1> QED BY <1>8, <1>10, <1>12, <1>13 DEF AckInv

LEMMA FreeNodeStep == ASSUME AckInv, FreeNode PROVE AckInv'
<1> DEFINE n == main.node
<1>1. /\ main.at = "free" /\ main \in Calls /\ Goto("decrement")
      /\ free' = free \cup {n} /\ node' = [node EXCEPT ![n] = Cleared]
      /\ UNCHANGED <<active, num, timers>>
  BY DEF AckInv, FreeNode
<1>2. /\ main.index \in 1 .. num /\ n = active[main.index]
      /\ Lists(active, num, InUse) /\ n \in InUse
  BY <1>1, EntryInUse
<1>3. /\ main' \in Calls /\ main'.at = "decrement" /\ main'.node = n
      /\ main'.index = main.index
  BY <1>1, GotoKeeps DEF Points
<1>4. InUse' \cup {n} = InUse
  BY <1>1, <1>2 DEF InUse
<1>5. free' \subseteq Nodes /\ node' \in [Nodes -> NodeRecs] /\ timers' \in TimerMaps
  BY <1>1, <1>2, ClearedIsNode DEF AckInv, InUse
<1>6. ListPhase'
  BY <1>1, <1>2, <1>3, <1>4 DEF ListPhase, Holding, Adding
<1>7. EntryPhase'
  BY <1>1, <1>2, <1>3 DEF EntryPhase, Holding
<1> QED BY <1>3, <1>5, <1>6, <1>7 DEF AckInv

LEMMA DecrementStep == ASSUME AckInv, Decrement PROVE AckInv'
<1> DEFINE n == main.node
<1>0. main.at = "decrement" /\ UNCHANGED <<free, node, active, timers>>
  BY DEF Decrement
<1>2. main.index \in 1 .. num /\ n = active[main.index] /\ n \in free
  BY <1>0 DEF AckInv, EntryPhase, Holding
<1>3. Lists(active, num, InUse \cup {n})
  BY <1>0 DEF AckInv, ListPhase, Holding
<1>3a. num # 0
  BY <1>2
<1>1. /\ main.at = "decrement" /\ main \in Calls /\ Goto("move") /\ num' = num - 1
      /\ UNCHANGED <<free, node, active, timers>>
  BY <1>0, <1>3a DEF AckInv, Decrement
<1>4. num' \in Nat /\ num' + 1 = num /\ InUse' = InUse
  BY <1>1, <1>2, <1>3, CapacityAssumption DEF Lists, InUse
<1>5. /\ main' \in Calls /\ main'.at = "move" /\ main'.node = n
      /\ main'.index = main.index
  BY <1>1, GotoKeeps DEF Points
<1>6. ListPhase'
  BY <1>1, <1>3, <1>4, <1>5 DEF ListPhase, Holding, Adding
<1>7. EntryPhase'
  BY <1>1, <1>2, <1>4, <1>5 DEF EntryPhase, Holding
<1>8. free' \subseteq Nodes /\ node' \in [Nodes -> NodeRecs] /\ timers' \in TimerMaps
  BY <1>1 DEF AckInv
<1> QED BY <1>5, <1>6, <1>7, <1>8 DEF AckInv

LEMMA MoveRequestsStep == ASSUME AckInv, MoveRequests PROVE AckInv'
<1> DEFINE n == main.node
<1>0. main.at = "move"
  BY DEF MoveRequests
<1>2. main.index \in 1 .. num + 1 /\ n = active[main.index] /\ n \in free
  BY <1>0 DEF AckInv, EntryPhase, Holding
<1>3. Lists(active, num + 1, InUse \cup {n})
  BY <1>0 DEF AckInv, ListPhase, Holding
<1>4. num \in Nat
  BY <1>0 DEF AckInv, ListPhase, Holding
<1>1. /\ main.at = "move" /\ main \in Calls /\ Goto("clear")
      /\ active' = Shifted(active, main.index, num)
      /\ UNCHANGED <<free, node, num, timers>>
  <2>1. ~(main.index > num + 1)
    BY <1>2, <1>4
  <2> QED BY <1>0, <2>1 DEF AckInv, MoveRequests
<1> HIDE DEF n
<1>5. /\ Shifted(active, main.index, num) \in [Nodes -> Nodes \cup {NoNode}]
      /\ num + 1 \in Nodes
      /\ Lists([Shifted(active, main.index, num) EXCEPT ![num + 1] = NoNode], num,
               (InUse \cup {n}) \ {active[main.index]})
  BY <1>2, <1>3, <1>4, ListRemoved
<1>6. (InUse \cup {n}) \ {active[main.index]} = InUse
  BY <1>2 DEF InUse
<1>7. InUse' = InUse
  BY <1>1 DEF InUse
<1>8. main' \in Calls /\ main'.at = "clear"
  BY <1>1, GotoKeeps DEF Points
<1>9. Lists([active' EXCEPT ![num' + 1] = NoNode], num', InUse')
  BY <1>1, <1>5, <1>6, <1>7
<1>10. active' \in [Nodes -> Nodes \cup {NoNode}] /\ num' + 1 \in Nodes
  BY <1>1, <1>5
<1>11. ListPhase'
  BY <1>8, <1>9, <1>10 DEF ListPhase, Holding, Adding
<1>12. EntryPhase'
  BY <1>8 DEF EntryPhase, Holding
<1>13. free' \subseteq Nodes /\ node' \in [Nodes -> NodeRecs] /\ timers' \in TimerMaps
  BY <1>1 DEF AckInv
<1> QED BY <1>8, <1>11, <1>12, <1>13 DEF AckInv

LEMMA ClearLastStep == ASSUME AckInv, ClearLast PROVE AckInv'
<1>0. main.at = "clear"
  BY DEF ClearLast
<1>2. Lists([active EXCEPT ![num + 1] = NoNode], num, InUse) /\ num + 1 \in Nodes
  BY <1>0 DEF AckInv, ListPhase, Holding
<1>1. /\ main.at = "clear" /\ Return /\ active' = [active EXCEPT ![num + 1] = NoNode]
      /\ UNCHANGED <<free, node, num, timers>>
  <2>1. num # Capacity
    BY <1>2, CapacityAssumption DEF Nodes, Lists
  <2> QED BY <2>1 DEF ClearLast
<1>3. InUse' = InUse
  BY <1>1 DEF InUse
<1>4. main' \in Calls /\ main'.at = "idle"
  BY <1>1, ReturnIs
<1>5. ListPhase'
  BY <1>1, <1>2, <1>3, <1>4 DEF ListPhase, Holding, Adding
<1>6. EntryPhase'
  BY <1>4 DEF EntryPhase, Holding
<1>7. free' \subseteq Nodes /\ node' \in [Nodes -> NodeRecs] /\ timers' \in TimerMaps
  BY <1>1 DEF AckInv
<1> QED BY <1>4, <1>5, <1>6, <1>7 DEF AckInv

\* The index that a search over the list returns.
LEMMA EntryIsListed ==
  ASSUME NEW t, EntryOf(t) # 0
  PROVE  EntryOf(t) \in 1 .. num /\ active[EntryOf(t)] # NoNode
<1> DEFINE hits == {i \in 1 .. num : active[i] # NoNode /\ node[active[i]].timer = t}
<1>1. hits # {} /\ EntryOf(t) = Min(hits)
  BY DEF EntryOf
<1>2. hits \subseteq Nat
  OBVIOUS
<1>3. Min(hits) \in hits
  BY <1>1, <1>2, MinIsIn
<1> QED BY <1>1, <1>3

\* Where an interrupt that does no damage finds the main loop.
LEMMA Undisturbed ==
  ASSUME AckInv, Interrupt, main.at \notin HalfDone
  PROVE  main.at \in Harmless \cup Holding /\ main' = main
BY PointsAssumption DEF AckInv, Calls, Points, Interrupt, HalfDone, Harmless, Holding

\* The entry that the main loop holds is listed.
LEMMA HeldEntry ==
  ASSUME AckInv, main.at \in Holding
  PROVE  /\ main.index \in 1 .. num /\ num \in Nat /\ active[main.index] \in InUse
         /\ InUse \subseteq Nodes
         /\ main.at # "read" => main.node = active[main.index]
BY CapacityAssumption DEF AckInv, EntryPhase, ListPhase, Holding, Lists, InUse

LEMMA TimeoutStep ==
  ASSUME AckInv, NEW t \in TimerIds, prv_timeout_cb(t), ~torn'
  PROVE  AckInv'
<1> DEFINE i == EntryOf(t)
           n == active[i]
<1>0. Interrupt /\ main.at \notin HalfDone /\ ~(main.at \in Holding /\ i =< main.index)
  BY DEF prv_timeout_cb
<1>1. main.at \in Harmless \cup Holding /\ main' = main
  BY <1>0, Undisturbed
<1>2. IsTable(Table) /\ TableOK(Table, Held)
  BY <1>1, TableNow
<1>2a. Table.num = num /\ Table.active = active /\ Table.node = node /\ Table.free = free
  BY DEF Table
<1>3. CASE BecomesTable([Table EXCEPT !.timers[t] = "none"])
  <2> DEFINE u == [Table EXCEPT !.timers[t] = "none"]
  <2>1. u = [free |-> Table.free, node |-> Table.node, active |-> Table.active,
             num |-> Table.num, timers |-> [Table.timers EXCEPT ![t] = "none"],
             ended |-> Table.ended]
    BY <1>2 DEF IsTable
  <2>2. BecomesTable(u)
    BY <1>3
  <2> HIDE DEF u
  <2>3. u.timers \in TimerMaps
    BY <1>2, <2>1 DEF TableOK, TimerMaps
  <2>4. TableOK(u, Held)
    BY <1>2, <2>1, <2>3 DEF TableOK
  <2>5. u.num = num /\ u.active = active /\ u.node = node
    BY <1>2a, <2>1
  <2>6. main.at \in Holding => main.index =< num
    BY HeldEntry
  <2> QED BY <1>1, <2>2, <2>4, <2>5, <2>6, Interrupted
<1>4. CASE i # 0 /\ \E after \in ToldTimeout(n) : BecomesTable(Removed(after, i, n))
  <2> DEFINE told == [Table EXCEPT !.ended[n] = @ + 1]
  <2>1. told = [free |-> Table.free, node |-> Table.node, active |-> Table.active,
                num |-> Table.num, timers |-> Table.timers,
                ended |-> [Table.ended EXCEPT ![n] = @ + 1]]
    BY <1>2 DEF IsTable
  <2>2. PICK after \in AfterTransmits(told) \cup {Table} : BecomesTable(Removed(after, i, n))
    BY <1>4 DEF ToldTimeout
  <2>3. i \in 1 .. num
    BY <1>4, EntryIsListed
  <2> HIDE DEF told, i
  <2>4. IsTable(told) /\ told.num = num /\ told.active = active /\ told.node = node
        /\ told.free = free
    BY <1>2a, <2>1 DEF IsTable
  <2>5. TableOK(told, Held)
    BY <1>2, <2>1 DEF TableOK
  <2>6. /\ IsTable(after) /\ TableOK(after, Held) /\ num =< after.num
        /\ \A j \in 1 .. num : after.active[j] = active[j]
        /\ \A m \in Nodes \ free : after.node[m] = node[m]
    <3>1. CASE after = Table
      <4>1. num \in Nat
        BY <1>2, <1>2a, CapacityAssumption DEF TableOK, Lists
      <4> QED BY <1>2, <1>2a, <3>1, <4>1
    <3>2. CASE after \in AfterTransmits(told)
      <4>1. /\ IsTable(after) /\ TableOK(after, Held) /\ told.num =< after.num
            /\ \A j \in 1 .. told.num : after.active[j] = told.active[j]
            /\ \A m \in Nodes \ told.free : after.node[m] = told.node[m]
        BY <2>4, <2>5, <3>2, TransmitsOK
      <4> QED BY <2>4, <4>1
    <3> QED BY <3>1, <3>2
  <2>8. after.active[i] = n
    BY <2>3, <2>6
  <2>9. i \in 1 .. after.num /\ num \in Nat /\ after.num \in Nat
    <3>1. after.num \in Nat /\ num \in Nat
      BY <1>2, <1>2a, <2>6, CapacityAssumption DEF TableOK, Lists
    <3> QED BY <2>3, <2>6, <3>1
  <2> DEFINE u == Removed(after, i, after.active[i])
  <2>10. /\ TableOK(u, Held) /\ u.num = after.num - 1
         /\ \A j \in 1 .. i - 1 : u.active[j] = after.active[j]
         /\ \A m \in Nodes : m # after.active[i] => u.node[m] = after.node[m]
    BY <2>6, <2>9, RemovedOK
  <2>11. BecomesTable(u)
    BY <2>2, <2>8
  <2> HIDE DEF u
  <2>12. ASSUME main.at \in Holding
         PROVE  /\ main.index =< u.num
                /\ \A j \in 1 .. main.index : u.active[j] = active[j]
                /\ u.node[active[main.index]] = node[active[main.index]]
    <3>1. /\ main.index \in 1 .. num /\ active[main.index] \in InUse /\ InUse \subseteq Nodes
          /\ Lists(active, num, InUse)
      BY <2>12, HeldEntry DEF AckInv, ListPhase, Holding
    <3>2. main.index < i
      BY <1>0, <2>3, <2>12, <3>1 DEF i
    <3>3. active[main.index] # n
      BY <2>3, <3>1, <3>2 DEF Lists
    <3>4. u.node[active[main.index]] = node[active[main.index]]
      BY <2>6, <2>8, <2>10, <3>1, <3>3 DEF InUse
    <3>5. main.index =< u.num /\ \A j \in 1 .. main.index : j \in 1 .. i - 1 /\ j \in 1 .. num
      BY <2>3, <2>9, <2>10, <3>1, <3>2
    <3>6. \A j \in 1 .. main.index : u.active[j] = active[j]
      BY <2>6, <2>10, <3>5
    <3> QED BY <3>4, <3>5, <3>6
  <2> QED BY <1>1, <2>10, <2>11, <2>12, Interrupted
<1> QED BY <1>3, <1>4 DEF prv_timeout_cb

LEMMA OtherInterruptStep ==
  ASSUME AckInv, ~torn',
         \/ TransmitFromTimer \/ OtherTimerStarts \/ \E t \in TimerIds : OtherTimerEnds(t)
  PROVE  AckInv'
<1>3. CASE TransmitFromTimer
  <2>0. main.at \in Harmless \cup Holding /\ main' = main
    BY <1>3, Undisturbed DEF TransmitFromTimer
  <2>1. PICK r \in Requests : BecomesTable(Added(Table, r[1], r[2]))
    BY <1>3 DEF TransmitFromTimer
  <2> DEFINE u == Added(Table, r[1], r[2])
  <2>2. IsTable(Table) /\ TableOK(Table, Held)
    BY <2>0, TableNow
  <2>3. /\ TableOK(u, Held) /\ Table.num =< u.num
        /\ \A j \in 1 .. Table.num : u.active[j] = Table.active[j]
        /\ \A m \in Nodes \ Table.free : u.node[m] = Table.node[m]
    BY <2>2, AddedOK
  <2>4. BecomesTable(u)
    BY <2>1
  <2> HIDE DEF u
  <2>5. ASSUME main.at \in Holding
        PROVE  /\ main.index =< u.num
               /\ \A j \in 1 .. main.index : u.active[j] = active[j]
               /\ u.node[active[main.index]] = node[active[main.index]]
    <3>1. /\ main.index \in 1 .. num /\ num \in Nat /\ active[main.index] \in InUse
          /\ InUse \subseteq Nodes
      BY <2>5, HeldEntry
    <3>2. Table.num = num /\ Table.active = active /\ Table.node = node /\ Table.free = free
      BY DEF Table
    <3>3. u.num \in Nat
      BY <2>3, CapacityAssumption DEF TableOK, Lists
    <3>4. main.index =< u.num /\ \A j \in 1 .. main.index : j \in 1 .. num
      BY <2>3, <3>1, <3>2, <3>3
    <3>5. u.node[active[main.index]] = node[active[main.index]]
      BY <2>3, <3>1, <3>2 DEF InUse
    <3> QED BY <2>3, <3>2, <3>4, <3>5
  <2> QED BY <2>0, <2>3, <2>4, <2>5, Interrupted
<1>4. CASE OtherTimerStarts \/ \E t \in TimerIds : OtherTimerEnds(t)
  <2>1. UNCHANGED <<free, node, active, num>> /\ main' = main
    BY <1>4 DEF OtherTimerStarts, OtherTimerEnds, table, Interrupt
  <2>2. timers' \in TimerMaps
    BY <1>4 DEF OtherTimerStarts, OtherTimerEnds, TimerMaps, AckInv
  <2>3. free' \subseteq Nodes /\ node' \in [Nodes -> NodeRecs] /\ main' \in Calls /\ InUse' = InUse
        /\ main'.at # "lost"
    BY <2>1 DEF AckInv, InUse
  <2>4. ListPhase'
    BY <2>1, <2>3 DEF AckInv, ListPhase, Holding, Adding
  <2>5. EntryPhase'
    BY <2>1, <2>3 DEF AckInv, EntryPhase, Holding
  <2> QED BY <2>2, <2>3, <2>4, <2>5 DEF AckInv
<1> QED BY <1>3, <1>4

-----------------------------------------------------------------------------
(* The theorem                                                              *)

LEMMA AckInvMeansListMatchesPool == AckInv => ListMatchesPool
<1> SUFFICES ASSUME AckInv PROVE ListMatchesPool
  OBVIOUS
<1>1. CASE ~Removing
  <2> DEFINE U == InUse \ (IF Adding THEN {main.node} ELSE {})
  <2>1. Lists(active, num, U)
    <3>1. CASE Adding
      BY <3>1 DEF AckInv, ListPhase, Holding
    <3>2. CASE ~Adding
      <4>1. main.at \in {"idle", "check"} \cup Holding
        BY <1>1, <3>2 DEF Removing, Adding, AckInv, Calls, Points, Holding
      <4>2. U = InUse /\ Lists(active, num, InUse)
        BY <3>2, <4>1 DEF AckInv, ListPhase, Holding
      <4> QED BY <4>2
    <3> QED BY <3>1, <3>2
  <2> HIDE DEF U
  <2>2. Listed = U
    BY <2>1 DEF Lists, Listed
  <2>3. active \in [Nodes -> Nodes \cup {NoNode}] /\ num \in 0 .. Capacity
    BY <2>1 DEF Lists
  <2>4. TypeOK
    BY <2>3 DEF TypeOK, AckInv, NodeRecs, TimerMaps, Calls
  <2>5. /\ \A j, k \in 1 .. num : active[j] = active[k] => j = k
        /\ \A j \in num + 1 .. Capacity : active[j] = NoNode
    BY <2>1 DEF Lists
  <2> QED BY <2>2, <2>4, <2>5 DEF ListMatchesPool, U
<1>2. CASE Removing
  <2>1. active \in [Nodes -> Nodes \cup {NoNode}] /\ num \in 0 .. Capacity
    <3>1. CASE main.at \in {"free", "decrement"}
      BY <3>1 DEF AckInv, ListPhase, Holding, Lists
    <3>2. CASE main.at = "move"
      <4>1. num \in Nat /\ Lists(active, num + 1, InUse \cup {main.node})
        BY <3>2 DEF AckInv, ListPhase, Holding
      <4> QED BY <4>1, CapacityAssumption DEF Lists
    <3>3. CASE main.at = "clear"
      BY <3>3 DEF AckInv, ListPhase, Holding, Lists
    <3> QED BY <1>2, <3>1, <3>2, <3>3 DEF Removing
  <2>2. TypeOK
    BY <2>1 DEF TypeOK, AckInv, NodeRecs, TimerMaps, Calls
  <2> QED BY <1>2, <2>2 DEF ListMatchesPool
<1> QED BY <1>1, <1>2

LEMMA AckNext == ASSUME AckInv, [Next]_vars, ~torn' PROVE AckInv'
<1>1. CASE can_ack_add_request
  BY <1>1, AddRequestStep
<1>2. CASE can_ack_handle_msg \/ CheckIndex \/ ReadRequest
  BY <1>2, LookStep
<1>3. CASE StartTimer
  BY <1>3, StartTimerStep
<1>4. CASE LoadCount
  BY <1>4, LoadCountStep
<1>5. CASE StoreRequest
  BY <1>5, StoreRequestStep
<1>6. CASE MarkResponse
  BY <1>6, MarkResponseStep
<1>7. CASE RunCallback
  BY <1>7, RunCallbackStep
<1>8. CASE CancelTimer
  BY <1>8, CancelTimerStep
<1>9. CASE FreeNode
  BY <1>9, FreeNodeStep
<1>10. CASE Decrement
  BY <1>10, DecrementStep
<1>11. CASE MoveRequests
  BY <1>11, MoveRequestsStep
<1>12. CASE ClearLast
  BY <1>12, ClearLastStep
<1>13. CASE \E t \in TimerIds : prv_timeout_cb(t)
  BY <1>13, TimeoutStep
<1>14. CASE TransmitFromTimer \/ OtherTimerStarts \/ \E t \in TimerIds : OtherTimerEnds(t)
  BY <1>14, OtherInterruptStep
<1>15. CASE UNCHANGED vars
  BY <1>15 DEF vars, table, AckInv, ListPhase, EntryPhase, Holding, Adding, InUse, Calls
<1>16. CASE TestCallback \/ RejectAck
  BY <1>16, TestCallbackStep, RejectAckStep
<1> QED BY <1>1, <1>2, <1>3, <1>4, <1>5, <1>6, <1>7, <1>8, <1>9, <1>10, <1>11, <1>12, <1>13,
          <1>14, <1>15, <1>16 DEF Next, MainStep

\* Damage is never undone.
LEMMA TornStays == ASSUME [Next]_vars, torn PROVE torn'
<1>1. CASE MainStep
  <2>1. CASE StartTimer \/ LoadCount \/ StoreRequest \/ CheckIndex \/ ReadRequest
    BY <2>1 DEF StartTimer, LoadCount, StoreRequest, CheckIndex, ReadRequest
  <2>2. CASE MarkResponse \/ TestCallback \/ RejectAck
    BY <2>2 DEF MarkResponse, TestCallback, RejectAck
  <2>3. CASE RunCallback
    BY <2>3 DEF RunCallback
  <2>4. CASE CancelTimer \/ FreeNode \/ Decrement \/ MoveRequests \/ ClearLast
    BY <2>4 DEF CancelTimer, FreeNode, Decrement, MoveRequests, ClearLast
  <2> QED BY <1>1, <2>1, <2>2, <2>3, <2>4 DEF MainStep
<1>2. CASE \E t \in TimerIds : prv_timeout_cb(t)
  BY <1>2 DEF prv_timeout_cb
<1>3. CASE \/ can_ack_add_request \/ can_ack_handle_msg \/ TransmitFromTimer
           \/ OtherTimerStarts \/ \E t \in TimerIds : OtherTimerEnds(t)
  BY <1>3 DEF can_ack_add_request, can_ack_handle_msg, TransmitFromTimer, OtherTimerStarts,
              OtherTimerEnds
<1>4. CASE UNCHANGED vars
  BY <1>4 DEF vars
<1> QED BY <1>1, <1>2, <1>3, <1>4 DEF Next

\* Until the timer interrupt strikes where it does damage, the list of requests and the pool
\* of their nodes agree: every node in use is listed once, no listed node is free (can_ack.c:44,
\* 111-125), whatever the capacity, the timers, the requests and the points of preemption.
THEOREM ListAlwaysMatchesPool == Spec => []ListMatchesPool
<1> DEFINE IInv == torn \/ AckInv
<1>1. Init => IInv
  BY InitAck
<1>2. IInv /\ [Next]_vars => IInv'
  BY AckNext, TornStays
<1>3. IInv => ListMatchesPool
  BY AckInvMeansListMatchesPool DEF ListMatchesPool
<1> QED BY <1>1, <1>2, <1>3, PTL DEF Spec

-----------------------------------------------------------------------------
(* Timers and outcomes of the requests                                      *)

\* Each node of W has an ACK timer of its own, and each ACK timer a node of W.
Watches(nd, tm, W) ==
  /\ \A n, o \in W : nd[n].timer = nd[o].timer => n = o
  /\ \A n \in W : tm[nd[n].timer] = "ack"
  /\ \A t \in TimerIds : tm[t] = "ack" => \E n \in W : nd[n].timer = t

\* The nodes of O lack an ACK; those of E have reported no end.
Open(nd, O) == \A n \in O : nd[n].response # nd[n].expected
Quiet(en, E) == \A n \in E : en[n] = 0

\* The node in the hands of the main loop, when it is an exception to one of these.
Unwatched == IF main.at \in {"start", "free"} THEN {main.node} ELSE {}
Complete ==
  IF main.at \in {"test", "call", "reject", "cancel", "free"} THEN {main.node} ELSE {}
Reported == IF Adding \/ main.at \in {"cancel", "free"} THEN {main.node} ELSE {}

RequestInv ==
  /\ AckInv
  /\ ended \in [Nodes -> {0, 1}]
  /\ Watches(node, timers, InUse \ Unwatched)
  /\ Open(node, InUse \ Complete)
  /\ Quiet(ended, InUse \ Reported)
  /\ main.at = "cancel" /\ ended[main.node] # 0 =>
       node[main.node].response = node[main.node].expected
  /\ main.at = "call" /\ main.last => node[main.node].response = node[main.node].expected

\* One more request with a fresh timer, one less with its timer, another module's timer.
LEMMA WatchMore ==
  ASSUME NEW nd, NEW tm \in TimerMaps, NEW W, Watches(nd, tm, W),
         \A m \in W : nd[m].timer \in TimerIds,
         NEW n, n \notin W, NEW id \in TimerIds, tm[id] = "none",
         NEW nd2, \A m \in W : nd2[m].timer = nd[m].timer, nd2[n].timer = id
  PROVE  Watches(nd2, [tm EXCEPT ![id] = "ack"], W \cup {n})
<1> DEFINE tm2 == [tm EXCEPT ![id] = "ack"]
<1>1. \A t \in TimerIds : tm2[t] = IF t = id THEN "ack" ELSE tm[t]
  BY DEF TimerMaps
<1> HIDE DEF tm2
<1>2. \A m \in W : nd[m].timer # id
  BY DEF Watches
<1>3. \A m, o \in W \cup {n} : nd2[m].timer = nd2[o].timer => m = o
  BY <1>2 DEF Watches
<1>4. \A m \in W \cup {n} : tm2[nd2[m].timer] = "ack"
  BY <1>1 DEF Watches
<1>5. \A t \in TimerIds : tm2[t] = "ack" => \E m \in W \cup {n} : nd2[m].timer = t
  BY <1>1 DEF Watches
<1>6. Watches(nd2, tm2, W \cup {n})
  BY <1>3, <1>4, <1>5 DEF Watches
<1> QED BY <1>6 DEF tm2

LEMMA WatchLess ==
  ASSUME NEW nd, NEW tm \in TimerMaps, NEW W, Watches(nd, tm, W),
         \A m \in W : nd[m].timer \in TimerIds,
         NEW n \in W, NEW nd2, \A m \in W \ {n} : nd2[m].timer = nd[m].timer
  PROVE  Watches(nd2, [tm EXCEPT ![nd[n].timer] = "none"], W \ {n})
<1> DEFINE tm2 == [tm EXCEPT ![nd[n].timer] = "none"]
<1>1. \A t \in TimerIds : tm2[t] = IF t = nd[n].timer THEN "none" ELSE tm[t]
  BY DEF TimerMaps
<1> HIDE DEF tm2
<1>2. \A m \in W \ {n} : nd2[m].timer # nd[n].timer /\ nd2[m].timer \in TimerIds
  BY DEF Watches
<1>3. \A m, o \in W \ {n} : nd2[m].timer = nd2[o].timer => m = o
  BY DEF Watches
<1>4. \A m \in W \ {n} : tm2[nd2[m].timer] = "ack"
  BY <1>1, <1>2 DEF Watches
<1>5. \A t \in TimerIds : tm2[t] = "ack" => \E m \in W \ {n} : nd2[m].timer = t
  BY <1>1 DEF Watches
<1>6. Watches(nd2, tm2, W \ {n})
  BY <1>3, <1>4, <1>5 DEF Watches
<1> QED BY <1>6 DEF tm2

LEMMA WatchOther ==
  ASSUME NEW nd, NEW tm \in TimerMaps, NEW W, Watches(nd, tm, W),
         \A m \in W : nd[m].timer \in TimerIds,
         NEW id \in TimerIds, tm[id] # "ack", NEW kind, kind # "ack"
  PROVE  Watches(nd, [tm EXCEPT ![id] = kind], W)
<1> DEFINE tm2 == [tm EXCEPT ![id] = kind]
<1>1. \A t \in TimerIds : tm2[t] = IF t = id THEN kind ELSE tm[t]
  BY DEF TimerMaps
<1> HIDE DEF tm2
<1>2. Watches(nd, tm2, W)
  BY <1>1 DEF Watches
<1> QED BY <1>2 DEF tm2

\* The timers of other modules go on.
OthersStay(tm, tm2) == \A x \in TimerIds : tm[x] = "other" => tm2[x] = "other"

Used(t) == Nodes \ t.free

\* RequestInv of a table whose exceptions are hw, ho and he.
Kept(t, hw, ho, he) ==
  /\ t.ended \in [Nodes -> {0, 1}]
  /\ Watches(t.node, t.timers, Used(t) \ hw)
  /\ Open(t.node, Used(t) \ ho)
  /\ Quiet(t.ended, Used(t) \ he)

LEMMA AddedKeeps ==
  ASSUME NEW t, NEW held, IsTable(t), TableOK(t, held), NEW r \in Requests,
         NEW hw, NEW ho, NEW he, hw \subseteq Used(t), ho \subseteq Used(t), he \subseteq Used(t),
         Kept(t, hw, ho, he), NEW u, u = Added(t, r[1], r[2])
  PROVE  /\ Kept(u, hw, ho, he) /\ OthersStay(t.timers, u.timers)
         /\ \A m \in Used(t) : m \in Used(u) /\ u.node[m] = t.node[m] /\ u.ended[m] = t.ended[m]
<1>1. CASE u = t
  BY <1>1 DEF OthersStay
<1>2. CASE u # t
  <2>1. PICK n \in t.free, id \in TimerIds :
          /\ t.timers[id] = "none"
          /\ u = AddedWith(t, r, n, id)
    BY <1>2, AddedIs
  <2> DEFINE rec == [msg |-> r[1], expected |-> r[2], response |-> {}, timer |-> id]
  <2>2. /\ u.free = t.free \ {n}
        /\ u.node = [t.node EXCEPT ![n] = rec]
        /\ u.timers = [t.timers EXCEPT ![id] = "ack"]
        /\ u.ended = [t.ended EXCEPT ![n] = 0]
    BY <2>1 DEF AddedWith
  <2>3. rec.timer = id /\ rec.response # rec.expected
    <3>1. r \in Messages \X ((SUBSET Devices) \ {{}})
      BY RequestsAssumption
    <3> QED BY <3>1
  <2> HIDE DEF rec
  <2>4. t.node \in [Nodes -> NodeRecs] /\ t.timers \in TimerMaps /\ t.free \subseteq Nodes
    BY DEF TableOK
  <2>5. n \notin Used(t) /\ n \in Nodes /\ Used(u) = Used(t) \cup {n}
    BY <2>1, <2>2, <2>4 DEF Used
  <2>6. u.node[n] = rec /\ \A m \in Used(t) : u.node[m] = t.node[m]
    BY <2>2, <2>4, <2>5 DEF Used
  <2>7. u.ended \in [Nodes -> {0, 1}] /\ u.ended[n] = 0
        /\ \A m \in Used(t) : u.ended[m] = t.ended[m]
    BY <2>2, <2>5 DEF Used, Kept
  <2>8. Watches(u.node, u.timers, Used(u) \ hw)
    <3> DEFINE W == Used(t) \ hw
    <3>1. W \cup {n} = Used(u) \ hw /\ n \notin W
      BY <2>5
    <3>2. Watches(t.node, t.timers, W)
      BY DEF Kept
    <3>3. \A m \in W : t.node[m].timer \in TimerIds
      BY <2>4 DEF NodeRecs, Used
    <3>4. \A m \in W : u.node[m].timer = t.node[m].timer
      BY <2>6
    <3>5. u.node[n].timer = id
      BY <2>3, <2>6
    <3> HIDE DEF W
    <3>6. Watches(u.node, [t.timers EXCEPT ![id] = "ack"], W \cup {n})
      BY <2>1, <2>4, <3>1, <3>2, <3>3, <3>4, <3>5, WatchMore
    <3> QED BY <2>2, <3>1, <3>6
  <2>9. Open(u.node, Used(u) \ ho)
    BY <2>3, <2>5, <2>6 DEF Open, Kept
  <2>10. Quiet(u.ended, Used(u) \ he)
    BY <2>5, <2>7 DEF Quiet, Kept
  <2>11. OthersStay(t.timers, u.timers)
    BY <2>1, <2>2, <2>4 DEF OthersStay, TimerMaps
  <2> QED BY <2>5, <2>6, <2>7, <2>8, <2>9, <2>10, <2>11 DEF Kept
<1> QED BY <1>1, <1>2

LEMMA TransmitsKeep ==
  ASSUME NEW t, NEW held, IsTable(t), TableOK(t, held), NEW u \in AfterTransmits(t),
         NEW hw, NEW ho, NEW he, hw \subseteq Used(t), ho \subseteq Used(t), he \subseteq Used(t),
         Kept(t, hw, ho, he)
  PROVE  /\ Kept(u, hw, ho, he) /\ OthersStay(t.timers, u.timers)
         /\ \A m \in Used(t) : m \in Used(u) /\ u.node[m] = t.node[m] /\ u.ended[m] = t.ended[m]
<1>1. CASE u = t
  BY <1>1 DEF OthersStay
<1>2. CASE \E r \in Requests : u = Added(t, r[1], r[2])
  BY <1>2, AddedKeeps
<1> QED BY <1>1, <1>2 DEF AfterTransmits

LEMMA RemovedKeeps ==
  ASSUME NEW t, NEW held, IsTable(t), TableOK(t, held), NEW i, NEW n,
         NEW hw, NEW ho, NEW he, n \in Used(t) \ hw, Kept(t, hw, ho, he \cup {n}),
         NEW u, u = Removed(t, i, n)
  PROVE  /\ Kept(u, hw, ho, he) /\ OthersStay(t.timers, u.timers)
         /\ \A m \in Nodes : m # n => u.node[m] = t.node[m] /\ u.ended[m] = t.ended[m]
<1>1. /\ u.free = t.free \cup {n}
      /\ u.node = [t.node EXCEPT ![n] = Cleared]
      /\ u.timers = [t.timers EXCEPT ![t.node[n].timer] = "none"]
      /\ u.ended = t.ended
  BY DEF Removed, IsTable
<1>2. t.node \in [Nodes -> NodeRecs] /\ t.timers \in TimerMaps /\ n \in Nodes
  BY DEF TableOK, Used
<1>3. Used(u) = Used(t) \ {n}
  BY <1>1 DEF Used
<1>4. \A m \in Used(u) : u.node[m] = t.node[m]
  BY <1>1, <1>2, <1>3 DEF Used
<1>5. Watches(u.node, u.timers, Used(u) \ hw)
  <2> DEFINE W == Used(t) \ hw
  <2>1. W \ {n} = Used(u) \ hw /\ n \in W
    BY <1>3
  <2>2. Watches(t.node, t.timers, W)
    BY DEF Kept
  <2>3. \A m \in W : t.node[m].timer \in TimerIds
    BY <1>2 DEF NodeRecs, Used
  <2>4. \A m \in W \ {n} : u.node[m].timer = t.node[m].timer
    BY <1>4, <2>1
  <2> HIDE DEF W
  <2>5. Watches(u.node, [t.timers EXCEPT ![t.node[n].timer] = "none"], W \ {n})
    BY <1>2, <2>1, <2>2, <2>3, <2>4, WatchLess
  <2> QED BY <1>1, <2>1, <2>5
<1>6. Open(u.node, Used(u) \ ho)
  BY <1>3, <1>4 DEF Open, Kept
<1>7. Quiet(u.ended, Used(u) \ he)
  BY <1>1, <1>3 DEF Quiet, Kept
<1>8. u.ended \in [Nodes -> {0, 1}]
  BY <1>1 DEF Kept
<1>9. t.timers[t.node[n].timer] = "ack"
  BY DEF Kept, Watches
<1>10. OthersStay(t.timers, u.timers)
  BY <1>1, <1>2, <1>9 DEF OthersStay, TimerMaps
<1>11. \A m \in Nodes : m # n => u.node[m] = t.node[m] /\ u.ended[m] = t.ended[m]
  BY <1>1, <1>2
<1> QED BY <1>5, <1>6, <1>7, <1>8, <1>10, <1>11 DEF Kept

\* What RequestInv says at the points of the main loop.
LEMMA Exceptions ==
  /\ main.at \in {"idle", "check", "read", "mark", "decrement", "move", "clear"} =>
       Unwatched = {} /\ Complete = {} /\ Reported = {}
  /\ main.at = "start" => Unwatched = {main.node} /\ Complete = {} /\ Reported = {main.node}
  /\ main.at \in {"append", "store"} =>
       Unwatched = {} /\ Complete = {} /\ Reported = {main.node}
  /\ main.at \in {"test", "call", "reject"} =>
       Unwatched = {} /\ Complete = {main.node} /\ Reported = {}
  /\ main.at = "cancel" => Unwatched = {} /\ Complete = {main.node} /\ Reported = {main.node}
  /\ main.at = "free" =>
       Unwatched = {main.node} /\ Complete = {main.node} /\ Reported = {main.node}
BY DEF Unwatched, Complete, Reported, Adding

LEMMA WatchTimers ==
  ASSUME AckInv
  PROVE  /\ node \in [Nodes -> NodeRecs] /\ timers \in TimerMaps /\ InUse \subseteq Nodes
         /\ \A m \in Nodes : node[m].timer \in TimerIds
BY DEF AckInv, InUse, NodeRecs

LEMMA AddRequestKeeps == ASSUME RequestInv, AckInv', can_ack_add_request PROVE RequestInv'
<1> DEFINE n == Min(free)
<1>1. PICK r \in Requests :
        /\ free' = free \ {n}
        /\ node' = [node EXCEPT ![n] = [msg |-> r[1], expected |-> r[2],
                                        response |-> {}, timer |-> 0]]
        /\ main' = [AtRest EXCEPT !.at = "start", !.node = n]
  BY DEF can_ack_add_request
<1>2. main.at = "idle" /\ free # {} /\ UNCHANGED <<active, num, timers, ended>>
  BY DEF can_ack_add_request
<1>3. free \subseteq Nodes /\ node \in [Nodes -> NodeRecs]
  BY DEF RequestInv, AckInv
<1>4. n \in free
  <2>1. free \subseteq Nat
    BY <1>3, CapacityAssumption DEF Nodes
  <2> QED BY <1>2, <2>1, MinIsIn
<1> HIDE DEF n
<1>5. main'.at = "start" /\ main'.node = n
  BY <1>1 DEF AtRest
<1>6. InUse' = InUse \cup {n} /\ n \notin InUse /\ InUse' \ {n} = InUse
  BY <1>1, <1>3, <1>4 DEF InUse
<1>7. Unwatched' = {n} /\ Complete' = {} /\ Reported' = {n}
  BY <1>5 DEF Unwatched, Complete, Reported, Adding
<1>8. Unwatched = {} /\ Complete = {} /\ Reported = {}
  BY <1>2, Exceptions
<1>9. \A m \in InUse : node'[m] = node[m]
  BY <1>1, <1>3, <1>6 DEF InUse
<1>10. node'[n].response # node'[n].expected
  <2>1. r \in Messages \X ((SUBSET Devices) \ {{}})
    BY RequestsAssumption
  <2>2. node'[n] = [msg |-> r[1], expected |-> r[2], response |-> {}, timer |-> 0]
    BY <1>1, <1>3, <1>4
  <2> QED BY <2>1, <2>2
<1>11. Watches(node', timers', InUse' \ Unwatched')
  <2>1. Watches(node, timers, InUse)
    BY <1>8 DEF RequestInv
  <2>2. Watches(node', timers, InUse)
    BY <1>9, <2>1 DEF Watches
  <2> QED BY <1>2, <1>6, <1>7, <2>2
<1>12. Open(node', InUse' \ Complete')
  BY <1>6, <1>7, <1>8, <1>9, <1>10 DEF Open, RequestInv
<1>13. Quiet(ended', InUse' \ Reported')
  BY <1>2, <1>6, <1>7, <1>8 DEF Quiet, RequestInv
<1> QED BY <1>2, <1>5, <1>11, <1>12, <1>13 DEF RequestInv

LEMMA StartTimerKeeps ==
  ASSUME RequestInv, AckInv', StartTimer
  PROVE  RequestInv' /\ OthersStay(timers, timers')
<1> DEFINE n == main.node
           W == InUse \ {n}
<1>1. main.at = "start" /\ UNCHANGED <<active, num, ended>> /\ main \in Calls
  BY DEF StartTimer, RequestInv, AckInv
<1>2. n \in InUse /\ InUse \subseteq Nodes
  BY <1>1 DEF RequestInv, AckInv, ListPhase, Holding, Adding, InUse
<1>3. Unwatched = {n} /\ Complete = {} /\ Reported = {n}
  BY <1>1, Exceptions
<1>4. /\ node \in [Nodes -> NodeRecs] /\ timers \in TimerMaps
      /\ \A m \in W : node[m].timer \in TimerIds
  BY WatchTimers DEF RequestInv
<1>5. /\ Watches(node, timers, W) /\ Open(node, InUse \ {}) /\ Quiet(ended, W)
      /\ ended \in [Nodes -> {0, 1}]
  BY <1>3 DEF RequestInv
<1>6. CASE FreeTimers(timers) = {}
  <2>1. /\ free' = free \cup {n} /\ node' = [node EXCEPT ![n] = Cleared]
        /\ Return /\ UNCHANGED timers
    BY <1>6 DEF StartTimer
  <2>2. main'.at = "idle"
    BY <2>1, ReturnIs
  <2>3. InUse' = W
    BY <2>1 DEF InUse
  <2>4. Unwatched' = {} /\ Complete' = {} /\ Reported' = {}
    BY <2>2 DEF Unwatched, Complete, Reported, Adding
  <2>5. \A m \in W : node'[m] = node[m]
    BY <1>2, <1>4, <2>1
  <2>6. Watches(node', timers', InUse' \ Unwatched')
    <3>1. Watches(node', timers, W)
      BY <1>5, <2>5 DEF Watches
    <3>2. InUse' \ Unwatched' = W
      BY <2>3, <2>4
    <3> QED BY <2>1, <3>1, <3>2
  <2>7. Open(node', InUse' \ Complete')
    BY <1>5, <2>3, <2>4, <2>5 DEF Open
  <2>8. Quiet(ended', InUse' \ Reported')
    BY <1>1, <1>5, <2>3, <2>4 DEF Quiet
  <2>9. OthersStay(timers, timers')
    BY <2>1 DEF OthersStay
  <2> QED BY <1>1, <1>5, <2>2, <2>6, <2>7, <2>8, <2>9 DEF RequestInv
<1>7. CASE FreeTimers(timers) # {}
  <2> DEFINE id == Min(FreeTimers(timers))
  <2>1. /\ timers' = [timers EXCEPT ![id] = "ack"]
        /\ node' = [node EXCEPT ![n].timer = id]
        /\ Goto("append") /\ UNCHANGED free
    BY <1>7 DEF StartTimer
  <2>2. id \in TimerIds /\ timers[id] = "none"
    <3>1. FreeTimers(timers) \subseteq Nat
      BY IdsAssumption DEF FreeTimers
    <3>2. id \in FreeTimers(timers)
      BY <1>7, <3>1, MinIsIn
    <3> QED BY <3>2 DEF FreeTimers
  <2> HIDE DEF id
  <2>3. main'.at = "append" /\ main'.node = n
    BY <1>1, <2>1, GotoKeeps DEF Points
  <2>4. InUse' = InUse
    BY <2>1 DEF InUse
  <2>5. Unwatched' = {} /\ Complete' = {} /\ Reported' = {n}
    BY <2>3 DEF Unwatched, Complete, Reported, Adding
  <2>6. /\ \A m \in W : node'[m] = node[m]
        /\ node'[n].timer = id
        /\ node'[n].response = node[n].response /\ node'[n].expected = node[n].expected
    BY <1>2, <1>4, <2>1 DEF NodeRecs
  <2>7. Watches(node', timers', InUse' \ Unwatched')
    <3>1. \A m \in W : node'[m].timer = node[m].timer
      BY <2>6
    <3>2. n \notin W /\ W \cup {n} = InUse' \ Unwatched'
      BY <1>2, <2>4, <2>5
    <3>3. Watches(node, timers, W)
      BY <1>5
    <3>4. node'[n].timer = id /\ \A m \in W : node[m].timer \in TimerIds
      BY <1>4, <2>6
    <3> HIDE DEF W, n
    <3>5. Watches(node', [timers EXCEPT ![id] = "ack"], W \cup {n})
      BY <1>4, <2>2, <3>1, <3>2, <3>3, <3>4, WatchMore
    <3> QED BY <2>1, <3>2, <3>5
  <2>8. Open(node', InUse' \ Complete')
    BY <1>5, <2>4, <2>5, <2>6 DEF Open
  <2>9. Quiet(ended', InUse' \ Reported')
    BY <1>1, <1>5, <2>4, <2>5 DEF Quiet
  <2>10. OthersStay(timers, timers')
    BY <1>4, <2>1, <2>2 DEF OthersStay, TimerMaps
  <2> QED BY <1>1, <1>5, <2>3, <2>7, <2>8, <2>9, <2>10 DEF RequestInv
<1> QED BY <1>6, <1>7

\* The steps that leave requests, timers and outcomes alone.
LEMMA OthersKeep ==
  ASSUME RequestInv, AckInv',
         \/ LoadCount \/ can_ack_handle_msg \/ CheckIndex \/ ReadRequest
         \/ Decrement \/ MoveRequests \/ ClearLast
  PROVE  RequestInv'
<1>1. UNCHANGED <<free, node, timers, ended>> /\ main \in Calls
  BY DEF LoadCount, can_ack_handle_msg, CheckIndex, ReadRequest, Decrement, MoveRequests,
         ClearLast, table, RequestInv, AckInv
<1>2. main'.at \notin {"call", "cancel"} /\ Unwatched' = Unwatched /\ Complete' = Complete
      /\ Reported' = Reported
  <2>1. CASE LoadCount
    <3>1. main.at = "append" /\ main'.at = "store" /\ main'.node = main.node
      BY <1>1, <2>1 DEF LoadCount, Calls
    <3> QED BY <3>1 DEF Unwatched, Complete, Reported, Adding
  <2>2. CASE \/ can_ack_handle_msg \/ CheckIndex \/ ReadRequest
             \/ Decrement \/ MoveRequests \/ ClearLast
    <3> DEFINE Free == {"idle", "check", "read", "mark", "decrement", "move", "clear", "lost"}
    <3>1. main.at \in Free
      BY <2>2 DEF can_ack_handle_msg, CheckIndex, ReadRequest, Decrement, MoveRequests, ClearLast
    <3>2. main'.at \in Free
      <4>1. \A p \in Points : Goto(p) => main'.at = p
        BY <1>1, GotoKeeps
      <4>2. Return => main'.at = "idle"
        BY ReturnIs
      <4>3. CASE can_ack_handle_msg
        BY <4>3 DEF can_ack_handle_msg, AtRest
      <4>4. CASE ReadRequest
        BY <1>1, <4>4 DEF ReadRequest, Calls
      <4>5. CASE CheckIndex \/ Decrement \/ MoveRequests \/ ClearLast
        BY <4>1, <4>2, <4>5 DEF CheckIndex, Decrement, MoveRequests, ClearLast, Points
      <4> QED BY <2>2, <4>3, <4>4, <4>5
    <3> QED BY <3>1, <3>2 DEF Unwatched, Complete, Reported, Adding
  <2> QED BY <2>1, <2>2
<1>3. InUse' = InUse
  BY <1>1 DEF InUse
<1> QED BY <1>1, <1>2, <1>3 DEF RequestInv

LEMMA StoreRequestKeeps == ASSUME RequestInv, AckInv', StoreRequest PROVE RequestInv'
<1> DEFINE n == main.node
<1>1. /\ main.at = "store" /\ ended' = [ended EXCEPT ![n] = 0] /\ Return
      /\ UNCHANGED <<free, node, timers>>
  BY DEF StoreRequest
<1>2. Unwatched = {} /\ Complete = {} /\ Reported = {n}
  BY <1>1, Exceptions
<1>3. main'.at = "idle"
  BY <1>1, ReturnIs
<1>4. Unwatched' = {} /\ Complete' = {} /\ Reported' = {}
  BY <1>3 DEF Unwatched, Complete, Reported, Adding
<1>5. InUse' = InUse /\ InUse \subseteq Nodes
  BY <1>1 DEF InUse
<1>6. ended' \in [Nodes -> {0, 1}]
  BY <1>1 DEF RequestInv
<1>7. Quiet(ended', InUse' \ Reported')
  BY <1>1, <1>2, <1>4, <1>5 DEF RequestInv, Quiet
<1>8. Watches(node', timers', InUse' \ Unwatched') /\ Open(node', InUse' \ Complete')
  BY <1>1, <1>2, <1>4, <1>5 DEF RequestInv
<1> QED BY <1>3, <1>6, <1>7, <1>8 DEF RequestInv

LEMMA MarkResponseKeeps == ASSUME RequestInv, AckInv', MarkResponse PROVE RequestInv'
<1> DEFINE n == main.node
<1>1. /\ main.at = "mark" /\ main \in Calls /\ Goto("test")
      /\ node' = [node EXCEPT ![n].response = @ \cup {main.device}]
      /\ UNCHANGED <<free, active, num, timers, ended>>
  BY DEF RequestInv, AckInv, MarkResponse
<1>2. n \in InUse /\ InUse \subseteq Nodes
  BY <1>1, EntryInUse DEF RequestInv, InUse
<1>3. Unwatched = {} /\ Complete = {} /\ Reported = {}
  BY <1>1, Exceptions
<1>4. main'.at = "test" /\ main'.node = n
  BY <1>1, GotoKeeps DEF Points
<1>5. Unwatched' = {} /\ Complete' = {n} /\ Reported' = {}
  BY <1>4 DEF Unwatched, Complete, Reported, Adding
<1>6. InUse' = InUse
  BY <1>1 DEF InUse
<1>7. node \in [Nodes -> NodeRecs]
  BY DEF RequestInv, AckInv
<1>8. \A m \in Nodes : node'[m].timer = node[m].timer /\ (m # n => node'[m] = node[m])
  BY <1>1, <1>2, <1>7 DEF NodeRecs
<1>9. Watches(node', timers', InUse' \ Unwatched')
  <2>1. Watches(node, timers, InUse \ {})
    BY <1>3 DEF RequestInv
  <2>2. Watches(node', timers, InUse \ {})
    BY <1>2, <1>8, <2>1 DEF Watches
  <2> QED BY <1>1, <1>5, <1>6, <2>2
<1>10. Open(node', InUse' \ Complete')
  BY <1>2, <1>3, <1>5, <1>6, <1>8 DEF RequestInv, Open
<1>11. ended' \in [Nodes -> {0, 1}] /\ Quiet(ended', InUse' \ Reported')
  BY <1>1, <1>3, <1>5, <1>6 DEF RequestInv
<1> QED BY <1>4, <1>9, <1>10, <1>11 DEF RequestInv

LEMMA CancelTimerKeeps ==
  ASSUME RequestInv, AckInv', CancelTimer
  PROVE  RequestInv' /\ OthersStay(timers, timers')
<1> DEFINE n == main.node
<1>1. /\ main.at = "cancel" /\ main \in Calls /\ UNCHANGED <<free, node, active, num, ended>>
  BY DEF RequestInv, AckInv, CancelTimer, table
<1>2. n \in InUse /\ InUse \subseteq Nodes
  BY <1>1, EntryInUse DEF RequestInv, InUse
<1>3. Unwatched = {} /\ Complete = {n} /\ Reported = {n}
  BY <1>1, Exceptions
<1>4. InUse' = InUse
  BY <1>1 DEF InUse
<1>5. /\ Watches(node, timers, InUse \ {}) /\ Open(node, InUse \ {n}) /\ Quiet(ended, InUse \ {n})
      /\ ended \in [Nodes -> {0, 1}] /\ (ended[n] # 0 => node[n].response = node[n].expected)
  BY <1>1, <1>3 DEF RequestInv
<1>6. CASE node[n].response = node[n].expected
  <2>1. timers' = [timers EXCEPT ![node[n].timer] = "none"] /\ Goto("free")
    BY <1>6 DEF CancelTimer
  <2>2. main'.at = "free" /\ main'.node = n
    BY <1>1, <2>1, GotoKeeps DEF Points
  <2>3. Unwatched' = {n} /\ Complete' = {n} /\ Reported' = {n}
    BY <2>2 DEF Unwatched, Complete, Reported, Adding
  <2>4. Watches(node', timers', InUse' \ Unwatched')
    <3>1. timers \in TimerMaps /\ \A m \in InUse : node[m].timer \in TimerIds
      BY <1>2, WatchTimers DEF RequestInv
    <3>2. Watches(node, timers, InUse)
      BY <1>5
    <3> HIDE DEF n
    <3>3. Watches(node, [timers EXCEPT ![node[n].timer] = "none"], InUse \ {n})
      BY <1>2, <3>1, <3>2, WatchLess
    <3> QED BY <1>1, <1>4, <2>1, <2>3, <3>3
  <2>5. OthersStay(timers, timers')
    <3>1. timers \in TimerMaps /\ timers[node[n].timer] = "ack"
      BY <1>2, <1>5, WatchTimers DEF Watches, RequestInv
    <3> QED BY <2>1, <3>1 DEF OthersStay, TimerMaps
  <2> QED BY <1>1, <1>4, <1>5, <2>2, <2>3, <2>4, <2>5 DEF RequestInv
<1>7. CASE node[n].response # node[n].expected
  <2>1. Return /\ UNCHANGED timers
    BY <1>7 DEF CancelTimer
  <2>2. main'.at = "idle"
    BY <2>1, ReturnIs
  <2>3. Unwatched' = {} /\ Complete' = {} /\ Reported' = {}
    BY <2>2 DEF Unwatched, Complete, Reported, Adding
  <2>4. Watches(node', timers', InUse' \ Unwatched')
    BY <1>1, <1>4, <1>5, <2>1, <2>3
  <2>5. Open(node', InUse' \ Complete')
    BY <1>1, <1>4, <1>5, <1>7, <2>3 DEF Open
  <2>6. Quiet(ended', InUse' \ Reported')
    BY <1>1, <1>4, <1>5, <1>7, <2>3 DEF Quiet
  <2>7. OthersStay(timers, timers')
    BY <2>1 DEF OthersStay
  <2> QED BY <1>1, <1>5, <2>2, <2>4, <2>5, <2>6, <2>7 DEF RequestInv
<1> QED BY <1>6, <1>7

LEMMA FreeNodeKeeps == ASSUME RequestInv, AckInv', FreeNode PROVE RequestInv'
<1> DEFINE n == main.node
<1>1. /\ main.at = "free" /\ main \in Calls /\ Goto("decrement")
      /\ free' = free \cup {n} /\ node' = [node EXCEPT ![n] = Cleared]
      /\ UNCHANGED <<active, num, timers, ended>>
  BY DEF RequestInv, AckInv, FreeNode
<1>2. Unwatched = {n} /\ Complete = {n} /\ Reported = {n}
  BY <1>1, Exceptions
<1>3. main'.at = "decrement"
  BY <1>1, GotoKeeps DEF Points
<1>4. Unwatched' = {} /\ Complete' = {} /\ Reported' = {}
  BY <1>3 DEF Unwatched, Complete, Reported, Adding
<1>5. InUse' = InUse \ {n} /\ InUse \subseteq Nodes
  BY <1>1 DEF InUse
<1>6. node \in [Nodes -> NodeRecs]
  BY DEF RequestInv, AckInv
<1>7. \A m \in InUse \ {n} : node'[m] = node[m]
  BY <1>1, <1>5, <1>6
<1>8. Watches(node', timers', InUse' \ Unwatched')
  <2>1. Watches(node, timers, InUse \ {n})
    BY <1>2 DEF RequestInv
  <2>2. Watches(node', timers, InUse \ {n})
    BY <1>7, <2>1 DEF Watches
  <2>3. InUse' \ Unwatched' = InUse \ {n}
    BY <1>4, <1>5
  <2> QED BY <1>1, <2>2, <2>3
<1>9. Open(node', InUse' \ Complete')
  BY <1>2, <1>4, <1>5, <1>7 DEF RequestInv, Open
<1>10. ended' \in [Nodes -> {0, 1}] /\ Quiet(ended', InUse' \ Reported')
  BY <1>1, <1>2, <1>4, <1>5 DEF RequestInv, Quiet
<1> QED BY <1>3, <1>8, <1>9, <1>10 DEF RequestInv

-----------------------------------------------------------------------------
(* Callbacks and the interrupt                                              *)

LEMMA KeptNow ==
  ASSUME RequestInv, main.at \in Harmless \cup Holding
  PROVE  /\ Kept(Table, Unwatched, Complete, Reported) /\ Used(Table) = InUse
         /\ Unwatched \subseteq InUse /\ Complete \subseteq InUse /\ Reported \subseteq InUse
         /\ Unwatched \subseteq Held
<1>1. /\ Table.free = free /\ Table.node = node /\ Table.timers = timers /\ Table.ended = ended
  BY DEF Table
<1>2. Used(Table) = InUse
  BY <1>1 DEF Used, InUse
<1>3. Kept(Table, Unwatched, Complete, Reported)
  BY <1>1, <1>2 DEF RequestInv, Kept
<1>4. CASE main.at \in {"start", "append"}
  <2>1. Unwatched \subseteq {main.node} /\ Complete = {} /\ Reported = {main.node}
        /\ Held = {main.node}
    BY <1>4, Exceptions DEF Held, Adding
  <2>2. main.node \in InUse
    BY <1>4 DEF RequestInv, AckInv, ListPhase, Holding, Adding
  <2> QED BY <1>2, <1>3, <2>1, <2>2
<1>5. CASE main.at \in {"idle", "check", "read", "mark"}
  BY <1>2, <1>3, <1>5, Exceptions
<1>6. CASE main.at \in {"test", "call", "reject", "cancel"}
  <2>1. Unwatched = {} /\ Complete = {main.node} /\ Reported \subseteq {main.node}
    BY <1>6, Exceptions
  <2>2. main.node \in InUse
    BY <1>6, EntryInUse DEF RequestInv
  <2> QED BY <1>2, <1>3, <2>1, <2>2
<1> QED BY <1>4, <1>5, <1>6 DEF Harmless, Holding

\* The interrupt leaves the request alone that the main loop holds.
LEMMA InterruptKeeps ==
  ASSUME RequestInv, AckInv', main.at \in Harmless \cup Holding, main' = main,
         NEW u, BecomesTable(u), Kept(u, Unwatched, Complete, Reported),
         main.at \in {"call", "cancel"} => /\ u.node[main.node] = node[main.node]
                                         /\ u.ended[main.node] = ended[main.node]
  PROVE  RequestInv'
<1>1. free' = u.free /\ node' = u.node /\ timers' = u.timers /\ ended' = u.ended
  BY DEF BecomesTable
<1>2. InUse' = Used(u)
  BY <1>1 DEF InUse, Used
<1>3. Unwatched' = Unwatched /\ Complete' = Complete /\ Reported' = Reported
  BY DEF Unwatched, Complete, Reported, Adding
<1>4. /\ main'.at = "cancel" /\ ended'[main'.node] # 0 =>
           node'[main'.node].response = node'[main'.node].expected
      /\ main'.at = "call" /\ main'.last =>
           node'[main'.node].response = node'[main'.node].expected
  BY <1>1 DEF RequestInv
<1>5. Watches(node', timers', InUse' \ Unwatched')
  BY <1>1, <1>2, <1>3 DEF Kept
<1>6. Open(node', InUse' \ Complete')
  BY <1>1, <1>2, <1>3 DEF Kept
<1>7. Quiet(ended', InUse' \ Reported') /\ ended' \in [Nodes -> {0, 1}]
  BY <1>1, <1>2, <1>3 DEF Kept
<1> QED BY <1>4, <1>5, <1>6, <1>7 DEF RequestInv

\* A request is complete when no ACK remains.
LEMMA NoneRemains ==
  ASSUME AckInv, NEW n \in Nodes
  PROVE  Remaining(n) = 0 <=> node[n].response = node[n].expected
<1> DEFINE D == (node[n].response \ node[n].expected) \cup (node[n].expected \ node[n].response)
<1>1. node[n].response \subseteq Devices /\ node[n].expected \subseteq Devices
  BY DEF AckInv, NodeRecs
<1>2. D \subseteq Devices
  BY <1>1
<1>3. IsFiniteSet(D)
  BY <1>2, IdsAssumption, FS_Subset
<1>4. Cardinality(D) = 0 <=> D = {}
  BY <1>3, FS_EmptySet
<1>5. D = {} <=> node[n].response = node[n].expected
  OBVIOUS
<1> QED BY <1>4, <1>5 DEF Remaining

LEMMA TestCallbackKeeps == ASSUME RequestInv, AckInv', TestCallback PROVE RequestInv'
<1> DEFINE n == main.node
<1>1. /\ main.at = "test" /\ main \in Calls /\ AckInv
      /\ UNCHANGED <<free, node, active, num, timers, ended>>
  BY DEF RequestInv, AckInv, TestCallback, table
<1>2. n \in InUse /\ InUse \subseteq Nodes
  BY <1>1, EntryInUse DEF InUse
<1>3. Unwatched = {} /\ Complete = {n} /\ Reported = {}
  BY <1>1, Exceptions
<1>4. InUse' = InUse
  BY <1>1 DEF InUse
<1>5. ended[n] = 0
  BY <1>2, <1>3 DEF RequestInv, Quiet
<1>6. /\ main'.at \in {"call", "cancel"} /\ main'.node = n
      /\ main'.at = "call" /\ main'.last => node[n].response = node[n].expected
  <2>1. CASE node[n].expected = {}
    <3>1. main' = [main EXCEPT !.at = "cancel"]
      BY <2>1 DEF TestCallback
    <3> QED BY <1>1, <3>1 DEF Calls
  <2>2. CASE node[n].expected # {}
    <3>1. main' = [main EXCEPT !.at = "call", !.last = Remaining(n) = 0]
      BY <2>2 DEF TestCallback
    <3>2. main'.at = "call" /\ main'.node = n /\ main'.last = (Remaining(n) = 0)
      BY <1>1, <3>1 DEF Calls
    <3>3. Remaining(n) = 0 => node[n].response = node[n].expected
      BY <1>1, <1>2, NoneRemains
    <3> QED BY <3>2, <3>3
  <2> QED BY <2>1, <2>2
<1>7. Unwatched' = {} /\ Complete' = {n} /\ Reported' \in {{}, {n}}
  BY <1>6 DEF Unwatched, Complete, Reported, Adding
<1>8. Watches(node', timers', InUse' \ Unwatched') /\ Open(node', InUse' \ Complete')
  BY <1>1, <1>3, <1>4, <1>7 DEF RequestInv
<1>9. Quiet(ended', InUse' \ Reported') /\ ended' \in [Nodes -> {0, 1}]
  BY <1>1, <1>3, <1>4 DEF RequestInv, Quiet
<1> QED BY <1>1, <1>5, <1>6, <1>8, <1>9 DEF RequestInv

LEMMA RejectAckKeeps == ASSUME RequestInv, AckInv', RejectAck PROVE RequestInv'
<1> DEFINE n == main.node
<1>1. /\ main.at = "reject" /\ main \in Calls /\ Goto("cancel")
      /\ node' = [node EXCEPT ![n].response = @ \ {main.device}]
      /\ UNCHANGED <<free, active, num, timers, ended>>
  BY DEF RequestInv, AckInv, RejectAck
<1>2. n \in InUse /\ InUse \subseteq Nodes
  BY <1>1, EntryInUse DEF RequestInv, InUse
<1>3. Unwatched = {} /\ Complete = {n} /\ Reported = {}
  BY <1>1, Exceptions
<1>4. main'.at = "cancel" /\ main'.node = n
  BY <1>1, GotoKeeps DEF Points
<1>5. Unwatched' = {} /\ Complete' = {n} /\ Reported' = {n}
  BY <1>4 DEF Unwatched, Complete, Reported, Adding
<1>6. InUse' = InUse
  BY <1>1 DEF InUse
<1>7. node \in [Nodes -> NodeRecs]
  BY DEF RequestInv, AckInv
<1>8. \A m \in Nodes : node'[m].timer = node[m].timer /\ (m # n => node'[m] = node[m])
  BY <1>1, <1>2, <1>7 DEF NodeRecs
<1>9. Watches(node', timers', InUse' \ Unwatched')
  <2>1. Watches(node, timers, InUse \ {})
    BY <1>3 DEF RequestInv
  <2>2. Watches(node', timers, InUse \ {})
    BY <1>2, <1>8, <2>1 DEF Watches
  <2> QED BY <1>1, <1>5, <1>6, <2>2
<1>10. Open(node', InUse' \ Complete')
  BY <1>2, <1>3, <1>5, <1>6, <1>8 DEF RequestInv, Open
<1>11. /\ ended' \in [Nodes -> {0, 1}] /\ Quiet(ended', InUse' \ Reported')
       /\ ended'[n] = 0
  BY <1>1, <1>2, <1>3, <1>5, <1>6 DEF RequestInv, Quiet
<1> QED BY <1>4, <1>9, <1>10, <1>11 DEF RequestInv

LEMMA RunCallbackKeeps ==
  ASSUME RequestInv, AckInv', RunCallback, ~torn'
  PROVE  RequestInv' /\ OthersStay(timers, timers')
<1> DEFINE n == main.node
<1>1. main.at = "call" /\ main \in Calls /\ main.at \in Holding /\ AckInv
  BY DEF RequestInv, AckInv, RunCallback, Holding
<1>2. n \in InUse /\ InUse \subseteq Nodes
  BY <1>1, EntryInUse DEF InUse
<1>3. Unwatched = {} /\ Complete = {n} /\ Reported = {}
  BY <1>1, Exceptions
<1>4. PICK t \in AfterTransmits(Table), accepted \in BOOLEAN :
        /\ BecomesTable(IF accepted /\ main.last THEN [t EXCEPT !.ended[n] = @ + 1] ELSE t)
        /\ Goto(IF accepted THEN "cancel" ELSE "reject")
  BY <1>1, CallbackIs
<1>5. IsTable(Table) /\ TableOK(Table, Held)
  BY <1>1, TableNow
<1>6. IsTable(t) /\ TableOK(t, Held)
  BY <1>5, TransmitsOK
<1>7. /\ Kept(t, {}, {n}, {}) /\ OthersStay(timers, t.timers)
      /\ \A m \in InUse : m \in Used(t) /\ t.node[m] = node[m] /\ t.ended[m] = ended[m]
  <2>1. /\ Kept(Table, {}, {n}, {}) /\ Used(Table) = InUse
    BY <1>1, <1>3, KeptNow
  <2>2. {} \subseteq Used(Table) /\ {n} \subseteq Used(Table)
    BY <1>2, <2>1
  <2>3. Kept(t, {}, {n}, {})
    BY <1>5, <2>1, <2>2, TransmitsKeep
  <2>4. \A m \in Used(Table) :
          m \in Used(t) /\ t.node[m] = Table.node[m] /\ t.ended[m] = Table.ended[m]
    BY <1>5, <2>1, <2>2, TransmitsKeep
  <2>5. Table.node = node /\ Table.ended = ended /\ Table.timers = timers
    BY DEF Table
  <2>6. OthersStay(Table.timers, t.timers)
    BY <1>5, <2>1, <2>2, TransmitsKeep
  <2> QED BY <2>1, <2>3, <2>4, <2>5, <2>6
<1>8. t.ended[n] = 0 /\ n \in Nodes /\ t.ended \in [Nodes -> {0, 1}] /\ n \in Used(t)
  BY <1>2, <1>6, <1>7 DEF Kept, Quiet
<1>9. main'.node = n /\ main'.at = IF accepted THEN "cancel" ELSE "reject"
  BY <1>1, <1>4, GotoKeeps DEF Points
<1>9a. main.last => t.node[n].response = t.node[n].expected
  BY <1>1, <1>2, <1>7 DEF RequestInv
<1> HIDE DEF n
<1>10. Unwatched' = {} /\ Complete' = {n} /\ Reported' = IF accepted THEN {n} ELSE {}
  BY <1>9 DEF Unwatched, Complete, Reported, Adding
<1>11. /\ free' = t.free /\ timers' = t.timers /\ node' = t.node
       /\ ended' \in [Nodes -> {0, 1}] /\ \A m \in Nodes \ {n} : ended'[m] = t.ended[m]
       /\ accepted /\ ended'[n] # 0 => node'[n].response = node'[n].expected
       /\ ~accepted => ended'[n] = 0
  <2>1. CASE accepted /\ main.last
    <3> DEFINE e == [t.ended EXCEPT ![n] = @ + 1]
               u == [t EXCEPT !.ended[n] = @ + 1]
    <3>1. u = [free |-> t.free, node |-> t.node, active |-> t.active, num |-> t.num,
               timers |-> t.timers, ended |-> e]
      BY <1>6 DEF IsTable
    <3>2. BecomesTable(u)
      BY <1>4, <2>1
    <3>3. e \in [Nodes -> {0, 1}] /\ \A m \in Nodes \ {n} : e[m] = t.ended[m]
      BY <1>8
    <3> HIDE DEF u, e
    <3>4. free' = t.free /\ timers' = t.timers /\ node' = t.node /\ ended' = e
      BY <3>1, <3>2 DEF BecomesTable
    <3> QED BY <1>9a, <2>1, <3>3, <3>4
  <2>2. CASE ~(accepted /\ main.last)
    <3>1. BecomesTable(t)
      BY <1>4, <2>2
    <3> QED BY <1>8, <3>1 DEF BecomesTable
  <2> QED BY <2>1, <2>2
<1>12. InUse' = Used(t) /\ Used(t) \subseteq Nodes
  BY <1>11 DEF InUse, Used
<1>13. Watches(node', timers', InUse' \ Unwatched')
  <2>1. Watches(t.node, t.timers, Used(t) \ {})
    BY <1>7 DEF Kept
  <2> QED BY <1>10, <1>11, <1>12, <2>1
<1>14. Open(node', InUse' \ Complete')
  BY <1>7, <1>10, <1>11, <1>12 DEF Kept
<1>15. Quiet(ended', InUse' \ Reported')
  <2>1. CASE accepted
    BY <1>7, <1>10, <1>11, <1>12, <2>1 DEF Kept, Quiet
  <2>2. CASE ~accepted
    BY <1>7, <1>10, <1>11, <1>12, <2>2 DEF Kept, Quiet
  <2> QED BY <2>1, <2>2
<1>16. OthersStay(timers, timers')
  BY <1>7, <1>11
<1>17. main'.at # "call" /\ (main'.at = "cancel" => accepted)
  BY <1>9
<1> QED BY <1>9, <1>11, <1>13, <1>14, <1>15, <1>16, <1>17 DEF RequestInv

LEMMA TimeoutKeeps ==
  ASSUME RequestInv, AckInv', NEW t \in TimerIds, prv_timeout_cb(t), ~torn'
  PROVE  RequestInv' /\ OthersStay(timers, timers')
<1> DEFINE i == EntryOf(t)
           n == active[i]
           told == [Table EXCEPT !.ended[n] = @ + 1]
           hits == {j \in 1 .. num : active[j] # NoNode /\ node[active[j]].timer = t}
<1>0. /\ Interrupt /\ main.at \notin HalfDone /\ ~(main.at \in Holding /\ i =< main.index)
      /\ timers[t] = "ack" /\ AckInv
      /\ ~(main.at \in {"append", "store"} /\ node[main.node].timer = t)
  BY DEF prv_timeout_cb, RequestInv
<1>1. main.at \in Harmless \cup Holding /\ main' = main /\ timers[t] = "ack" /\ AckInv
      /\ ~(main.at \in {"append", "store"} /\ node[main.node].timer = t)
  BY <1>0, Undisturbed
<1>2. IsTable(Table) /\ TableOK(Table, Held)
  BY <1>1, TableNow
<1>3. /\ Kept(Table, Unwatched, Complete, Reported) /\ Used(Table) = InUse
      /\ Unwatched \subseteq InUse /\ Complete \subseteq InUse /\ Reported \subseteq InUse
      /\ Unwatched \subseteq Held
  BY <1>1, KeptNow
<1>4. /\ Table.node = node /\ Table.timers = timers /\ Table.active = active /\ Table.num = num
      /\ Table.ended = ended
  BY DEF Table
<1>5. Lists(active, num, InUse \ Held) /\ InUse \subseteq Nodes
  BY <1>2, <1>4 DEF TableOK, Table, InUse
\* The timer's request is listed, so the search finds one.
<1>6. hits # {}
  <2>1. PICK m \in InUse \ Unwatched : node[m].timer = t
    BY <1>1 DEF RequestInv, Watches
  <2>2. m \notin Held
    <3>1. CASE main.at = "start"
      BY <2>1, <3>1, Exceptions DEF Held, Adding
    <3>2. CASE main.at = "append"
      BY <1>1, <2>1, <3>2 DEF Held, Adding
    <3>3. CASE main.at \in {"idle", "check"} \cup Holding
      BY <3>3 DEF Held, Adding, Holding
    <3> QED BY <1>1, <3>1, <3>2, <3>3 DEF Harmless
  <2>3. PICK j \in 1 .. num : active[j] = m
    BY <1>5, <2>1, <2>2 DEF Lists
  <2>4. m # NoNode
    BY <1>5, <2>1, CapacityAssumption DEF Nodes, NoNode
  <2> QED BY <2>1, <2>3, <2>4
<1>7. i \in 1 .. num
  <2>1. hits \subseteq Nat
    OBVIOUS
  <2>2. i = Min(hits)
    BY <1>6 DEF EntryOf
  <2> QED BY <1>6, <2>1, <2>2, MinIsIn
<1>8. i # 0 /\ n \in InUse /\ n \in Nodes /\ n \notin Held
  BY <1>5, <1>7 DEF Lists
\* It is not the entry that the main loop holds.
<1>8a. main.at \in Holding \ {"read"} => n # main.node
  <2>1. SUFFICES ASSUME main.at \in Holding \ {"read"} PROVE n # main.node
    OBVIOUS
  <2>2. main.index \in 1 .. num /\ num \in Nat /\ main.node = active[main.index]
        /\ Lists(active, num, InUse)
    BY <1>0, <2>1, HeldEntry DEF AckInv, ListPhase
  <2>3. main.index # i
    BY <1>0, <1>7, <2>1, <2>2
  <2> QED BY <1>7, <2>2, <2>3 DEF Lists
<1>9. n \notin Complete /\ n \notin Reported
  <2>1. CASE main.at \in Harmless
    BY <1>8, <2>1, Exceptions DEF Harmless, Held, Adding
  <2>2. CASE main.at = "read"
    BY <2>2, Exceptions
  <2>3. CASE main.at \in Holding \ {"read"}
    BY <1>8a, <2>3, Exceptions DEF Holding
  <2> QED BY <1>1, <2>1, <2>2, <2>3
<1> HIDE DEF i, hits
<1>10. Remaining(n) # 0
  <2>1. node[n].response # node[n].expected
    BY <1>8, <1>9 DEF RequestInv, Open
  <2> QED BY <1>1, <1>8, <2>1, NoneRemains
<1>11. PICK after \in AfterTransmits(told) \cup {Table} : BecomesTable(Removed(after, i, n))
  <2>1. \E after \in ToldTimeout(n) : BecomesTable(Removed(after, i, n))
    BY <1>8, <1>10 DEF prv_timeout_cb, i
  <2> QED BY <2>1 DEF ToldTimeout
<1> HIDE DEF n
<1>12. told = [free |-> Table.free, node |-> Table.node, active |-> Table.active,
               num |-> Table.num, timers |-> Table.timers,
               ended |-> [Table.ended EXCEPT ![n] = @ + 1]]
  BY <1>2 DEF IsTable
<1> HIDE DEF told
<1>13. IsTable(told) /\ TableOK(told, Held) /\ Used(told) = InUse
  <2>1. IsTable(told)
    BY <1>12 DEF IsTable
  <2>2. TableOK(told, Held)
    BY <1>2, <1>12 DEF TableOK
  <2>3. Used(told) = InUse
    BY <1>3, <1>12 DEF Used
  <2> QED BY <2>1, <2>2, <2>3
<1>14. Kept(told, Unwatched, Complete, Reported \cup {n})
  <2>1. n \notin Reported
    BY <1>9
  <2>2. ended[n] = 0 /\ ended \in [Nodes -> {0, 1}]
    BY <1>8, <2>1 DEF RequestInv, Quiet
  <2>3. told.ended = [ended EXCEPT ![n] = 1]
    BY <1>4, <1>12, <2>2
  <2>4. told.ended \in [Nodes -> {0, 1}]
    BY <2>2, <2>3
  <2>5. Quiet(told.ended, Used(told) \ (Reported \cup {n}))
    <3>1. \A m \in InUse \ (Reported \cup {n}) : ended[m] = 0 /\ told.ended[m] = ended[m]
      BY <1>5, <2>2, <2>3 DEF RequestInv, Quiet
    <3> QED BY <1>13, <3>1 DEF Quiet
  <2>6. told.node = node /\ told.timers = timers
    BY <1>4, <1>12
  <2>7. Watches(told.node, told.timers, Used(told) \ Unwatched)
    BY <1>13, <2>6 DEF RequestInv
  <2>8. Open(told.node, Used(told) \ Complete)
    BY <1>13, <2>6 DEF RequestInv
  <2> QED BY <2>4, <2>5, <2>7, <2>8 DEF Kept
<1>15. Reported \cup {n} \subseteq Used(told) /\ Unwatched \subseteq Used(told)
       /\ Complete \subseteq Used(told)
  BY <1>3, <1>8, <1>13
<1> DEFINE he == Reported \cup {n}
<1> HIDE DEF he
<1>17. Kept(told, Unwatched, Complete, he) /\ he \subseteq Used(told)
  BY <1>14, <1>15 DEF he
<1>18. /\ IsTable(after) /\ TableOK(after, Held)
       /\ Kept(after, Unwatched, Complete, he) /\ OthersStay(timers, after.timers)
       /\ \A m \in InUse : /\ m \in Used(after) /\ after.node[m] = node[m]
                           /\ m # n => after.ended[m] = ended[m]
  <2>1. CASE after = Table
    <3>1. Kept(Table, Unwatched, Complete, he)
      BY <1>3 DEF Kept, Quiet, he
    <3>2. OthersStay(timers, Table.timers)
      BY <1>4 DEF OthersStay
    <3> QED BY <1>2, <1>3, <1>4, <2>1, <3>1, <3>2
  <2>2. CASE after \in AfterTransmits(told)
    <3>1. IsTable(after) /\ TableOK(after, Held)
      BY <1>13, <2>2, TransmitsOK
    <3>2. /\ Kept(after, Unwatched, Complete, he) /\ OthersStay(told.timers, after.timers)
      BY <1>13, <1>15, <1>17, <2>2, TransmitsKeep
    <3>3. \A m \in Used(told) :
            m \in Used(after) /\ after.node[m] = told.node[m] /\ after.ended[m] = told.ended[m]
      BY <1>13, <1>15, <1>17, <2>2, TransmitsKeep
    <3>4. told.node = node /\ told.timers = timers /\ told.ended = [ended EXCEPT ![n] = @ + 1]
      BY <1>4, <1>12
    <3>5. \A m \in InUse : m # n => told.ended[m] = ended[m]
      BY <1>5, <3>4 DEF RequestInv
    <3> QED BY <1>13, <3>1, <3>2, <3>3, <3>4, <3>5
  <2> QED BY <1>11, <2>1, <2>2
<1>19. n \in Used(after) \ Unwatched
  BY <1>3, <1>8, <1>18
<1>20. Kept(after, Unwatched, Complete, Reported \cup {n})
  BY <1>18 DEF he
<1> DEFINE u == Removed(after, i, n)
<1>22. BecomesTable(u) /\ u = Removed(after, i, n)
  BY <1>11
<1> HIDE DEF u
<1>21. /\ Kept(u, Unwatched, Complete, Reported) /\ OthersStay(after.timers, u.timers)
       /\ \A m \in Nodes : m # n => u.node[m] = after.node[m] /\ u.ended[m] = after.ended[m]
  <2>1. IsTable(after) /\ TableOK(after, Held)
    BY <1>18
  <2> QED BY <1>19, <1>20, <1>22, <2>1, RemovedKeeps
<1>23. OthersStay(timers, timers')
  BY <1>18, <1>21, <1>22 DEF OthersStay, BecomesTable
<1>24. main.at \in {"call", "cancel"} => /\ u.node[main.node] = node[main.node]
                                         /\ u.ended[main.node] = ended[main.node]
  <2>1. SUFFICES ASSUME main.at \in {"call", "cancel"}
                 PROVE  /\ u.node[main.node] = node[main.node]
                        /\ u.ended[main.node] = ended[main.node]
    OBVIOUS
  <2>2. main.node \in InUse /\ main.node # n
    BY <1>1, <1>8a, <2>1, EntryInUse DEF Holding
  <2> QED BY <1>5, <1>18, <1>21, <2>2
<1>25. RequestInv'
  BY <1>1, <1>21, <1>22, <1>24, InterruptKeeps
<1> QED BY <1>23, <1>25

LEMMA OtherInterruptKeeps ==
  ASSUME RequestInv, AckInv', ~torn',
         \/ TransmitFromTimer \/ OtherTimerStarts \/ \E t \in TimerIds : OtherTimerEnds(t)
  PROVE  RequestInv'
<1>1. main' = main /\ AckInv
  BY DEF TransmitFromTimer, OtherTimerStarts, OtherTimerEnds, Interrupt, RequestInv
<1>2. CASE TransmitFromTimer
  <2>0. main.at \in Harmless \cup Holding
    BY <1>1, <1>2, Undisturbed DEF TransmitFromTimer
  <2>1. PICK r \in Requests : BecomesTable(Added(Table, r[1], r[2]))
    BY <1>2 DEF TransmitFromTimer
  <2>2. IsTable(Table) /\ TableOK(Table, Held)
    BY <1>1, <2>0, TableNow
  <2>3. /\ Kept(Table, Unwatched, Complete, Reported) /\ Unwatched \subseteq Used(Table)
        /\ Complete \subseteq Used(Table) /\ Reported \subseteq Used(Table)
        /\ Used(Table) = InUse /\ Table.node = node /\ Table.ended = ended
    BY <2>0, KeptNow DEF Table
  <2> DEFINE u == Added(Table, r[1], r[2])
  <2>4. /\ Kept(u, Unwatched, Complete, Reported)
        /\ \A m \in Used(Table) : u.node[m] = Table.node[m] /\ u.ended[m] = Table.ended[m]
    BY <2>2, <2>3, AddedKeeps
  <2>5. BecomesTable(u)
    BY <2>1
  <2>6. main.at \in {"call", "cancel"} => main.node \in InUse
    BY <1>1, EntryInUse
  <2> HIDE DEF u
  <2> QED BY <1>1, <2>0, <2>3, <2>4, <2>5, <2>6, InterruptKeeps
<1>3. CASE OtherTimerStarts \/ \E t \in TimerIds : OtherTimerEnds(t)
  <2>1. UNCHANGED <<free, node, ended>>
    BY <1>3 DEF OtherTimerStarts, OtherTimerEnds, table
  <2>2. InUse' = InUse /\ Unwatched' = Unwatched /\ Complete' = Complete /\ Reported' = Reported
    BY <1>1, <2>1 DEF InUse, Unwatched, Complete, Reported, Adding
  <2>3. PICK id \in TimerIds, kind \in {"none", "other"} :
          timers[id] # "ack" /\ timers' = [timers EXCEPT ![id] = kind]
    <3>1. CASE OtherTimerStarts
      <4> DEFINE id == Min(FreeTimers(timers))
      <4>1. FreeTimers(timers) # {} /\ timers' = [timers EXCEPT ![id] = "other"]
        BY <3>1 DEF OtherTimerStarts
      <4>2. FreeTimers(timers) \subseteq Nat
        BY IdsAssumption DEF FreeTimers
      <4>3. id \in FreeTimers(timers)
        BY <4>1, <4>2, MinIsIn
      <4>4. id \in TimerIds /\ timers[id] # "ack"
        BY <4>3 DEF FreeTimers
      <4> QED BY <4>1, <4>4
    <3>2. CASE \E t \in TimerIds : OtherTimerEnds(t)
      BY <3>2 DEF OtherTimerEnds
    <3> QED BY <1>3, <3>1, <3>2
  <2> DEFINE W == InUse \ Unwatched
  <2>4. timers \in TimerMaps /\ \A m \in W : node[m].timer \in TimerIds
    BY <1>1, WatchTimers
  <2>5. Watches(node, timers, W)
    BY DEF RequestInv
  <2> HIDE DEF W
  <2>6. kind # "ack"
    BY <2>3
  <2>7. Watches(node, [timers EXCEPT ![id] = kind], W)
    BY <2>3, <2>4, <2>5, <2>6, WatchOther
  <2>8. Watches(node', timers', InUse' \ Unwatched')
    BY <2>1, <2>2, <2>3, <2>7 DEF W
  <2> QED BY <1>1, <2>1, <2>2, <2>8 DEF RequestInv
<1> QED BY <1>2, <1>3

-----------------------------------------------------------------------------
(* The theorems on the requests                                             *)

LEMMA InitRequests == Init => RequestInv
<1> SUFFICES ASSUME Init PROVE RequestInv
  OBVIOUS
<1>1. AckInv
  BY InitAck
<1>2. InUse = {} /\ main.at = "idle"
  BY DEF Init, InUse, AtRest
<1>3. ended \in [Nodes -> {0, 1}] /\ \A t \in TimerIds : timers[t] # "ack"
  BY DEF Init
<1> QED BY <1>1, <1>2, <1>3 DEF RequestInv, Watches, Open, Quiet

LEMMA RequestNext ==
  ASSUME RequestInv, [Next]_vars, ~torn' PROVE RequestInv'
<1>1. AckInv'
  BY AckNext DEF RequestInv
<1>2. CASE can_ack_add_request
  BY <1>1, <1>2, AddRequestKeeps
<1>3. CASE \/ LoadCount \/ can_ack_handle_msg \/ CheckIndex \/ ReadRequest
           \/ Decrement \/ MoveRequests \/ ClearLast
  BY <1>1, <1>3, OthersKeep
<1>4. CASE StartTimer
  BY <1>1, <1>4, StartTimerKeeps
<1>5. CASE StoreRequest
  BY <1>1, <1>5, StoreRequestKeeps
<1>6. CASE MarkResponse
  BY <1>1, <1>6, MarkResponseKeeps
<1>7. CASE RunCallback
  BY <1>1, <1>7, RunCallbackKeeps
<1>8. CASE CancelTimer
  BY <1>1, <1>8, CancelTimerKeeps
<1>9. CASE FreeNode
  BY <1>1, <1>9, FreeNodeKeeps
<1>10. CASE \E t \in TimerIds : prv_timeout_cb(t)
  BY <1>1, <1>10, TimeoutKeeps
<1>11. CASE TransmitFromTimer \/ OtherTimerStarts \/ \E t \in TimerIds : OtherTimerEnds(t)
  BY <1>1, <1>11, OtherInterruptKeeps
<1>12. CASE UNCHANGED vars
  BY <1>1, <1>12 DEF vars, table, RequestInv, InUse, Unwatched, Complete, Reported, Adding
<1>13. CASE TestCallback
  BY <1>1, <1>13, TestCallbackKeeps
<1>14. CASE RejectAck
  BY <1>1, <1>14, RejectAckKeeps
<1> QED BY <1>2, <1>3, <1>4, <1>5, <1>6, <1>7, <1>8, <1>9, <1>10, <1>11, <1>12, <1>13, <1>14
        DEF Next, MainStep

LEMMA RequestInvMeansWatched == RequestInv => EveryRequestWatched
<1> SUFFICES ASSUME RequestInv, ~torn, ~Removing PROVE EveryRequestWatched
  BY DEF EveryRequestWatched
<1> DEFINE owners == Listed \cup (IF main.at \in {"append", "store"} THEN {main.node} ELSE {})
<1>1. Listed = InUse \ (IF Adding THEN {main.node} ELSE {})
  BY AckInvMeansListMatchesPool DEF RequestInv, ListMatchesPool
<1>2. Adding => main.node \in InUse
  BY DEF RequestInv, AckInv, ListPhase, Holding
<1>3. owners = InUse \ Unwatched
  BY <1>1, <1>2 DEF Unwatched, Adding, Removing
<1> HIDE DEF owners
<1>4. Watches(node, timers, owners)
  BY <1>3 DEF RequestInv
<1>5. \A m \in owners : node[m].timer \in TimerIds
  BY <1>3, WatchTimers DEF RequestInv
<1>6. {node[m].timer : m \in owners} = {t \in TimerIds : timers[t] = "ack"}
  BY <1>4, <1>5 DEF Watches
<1>7. \A m, o \in owners : node[m].timer = node[o].timer => m = o
  BY <1>4 DEF Watches
<1> QED BY <1>6, <1>7 DEF EveryRequestWatched, owners

LEMMA RequestInvMeansOutcomes == RequestInv => OneOutcome /\ EndedRequestsLeave
<1> SUFFICES ASSUME RequestInv PROVE OneOutcome /\ EndedRequestsLeave
  OBVIOUS
<1>1. OneOutcome
  BY DEF OneOutcome, RequestInv
<1>2. ASSUME main.at = "idle", NEW j \in 1 .. num, active[j] # NoNode PROVE ended[active[j]] = 0
  <2>1. Lists(active, num, InUse)
    BY <1>2 DEF RequestInv, AckInv, ListPhase, Holding
  <2>2. active[j] \in InUse
    BY <1>2, <2>1 DEF Lists
  <2>3. Reported = {}
    BY <1>2, Exceptions
  <2> QED BY <2>2, <2>3 DEF RequestInv, Quiet
<1> QED BY <1>1, <1>2 DEF EndedRequestsLeave

LEMMA RequestsUntilTorn ==
  /\ Init => torn \/ RequestInv
  /\ (torn \/ RequestInv) /\ [Next]_vars => (torn \/ RequestInv)'
BY InitRequests, RequestNext, TornStays

\* Until then each pending request has a running timer of its own and each timer started here
\* a request (can_ack.c:36-44, 113), although the ids are those of all modules.
THEOREM RequestsAlwaysWatched == Spec => []EveryRequestWatched
<1>1. torn \/ RequestInv => EveryRequestWatched
  BY RequestInvMeansWatched DEF EveryRequestWatched
<1> QED BY <1>1, RequestsUntilTorn, PTL DEF Spec

\* And a request reports one end, by its ACKs or by its timer (can_ack.h:9-10), ...
THEOREM RequestsReportOnce == Spec => []OneOutcome
<1>1. torn \/ RequestInv => OneOutcome
  BY RequestInvMeansOutcomes DEF OneOutcome
<1> QED BY <1>1, RequestsUntilTorn, PTL DEF Spec

\* ... and is out of the list by the next call of the main loop (can_ack.h:12-13).
THEOREM ReportedRequestsLeave == Spec => []EndedRequestsLeave
<1>1. torn \/ RequestInv => EndedRequestsLeave
  BY RequestInvMeansOutcomes DEF EndedRequestsLeave
<1> QED BY <1>1, RequestsUntilTorn, PTL DEF Spec

\* A step of the table: the timers of other modules go on.
LEMMA OthersStayNext ==
  ASSUME RequestInv, Next, ~torn'
  PROVE  OthersStay(timers, timers') \/ \E t \in TimerIds : OtherTimerEnds(t)
<1>1. AckInv'
  BY AckNext DEF RequestInv
<1>2. CASE \/ LoadCount \/ can_ack_handle_msg \/ CheckIndex \/ ReadRequest \/ StoreRequest
           \/ Decrement \/ MoveRequests \/ ClearLast \/ MarkResponse \/ FreeNode
           \/ can_ack_add_request \/ TestCallback \/ RejectAck
  <2>1. UNCHANGED timers
    BY <1>2 DEF LoadCount, can_ack_handle_msg, CheckIndex, ReadRequest, StoreRequest, Decrement,
                MoveRequests, ClearLast, MarkResponse, FreeNode, can_ack_add_request,
                TestCallback, RejectAck
  <2> QED BY <2>1 DEF OthersStay
<1>3. CASE StartTimer
  BY <1>1, <1>3, StartTimerKeeps
<1>4. CASE RunCallback
  BY <1>1, <1>4, RunCallbackKeeps
<1>5. CASE CancelTimer
  BY <1>1, <1>5, CancelTimerKeeps
<1>6. CASE \E t \in TimerIds : prv_timeout_cb(t)
  BY <1>1, <1>6, TimeoutKeeps
<1>7. CASE TransmitFromTimer
  <2>1. main.at \in Harmless \cup Holding /\ AckInv
    BY <1>7, Undisturbed DEF TransmitFromTimer, RequestInv
  <2>2. PICK r \in Requests : BecomesTable(Added(Table, r[1], r[2]))
    BY <1>7 DEF TransmitFromTimer
  <2>3. IsTable(Table) /\ TableOK(Table, Held)
    BY <2>1, TableNow
  <2>4. /\ Kept(Table, Unwatched, Complete, Reported) /\ Unwatched \subseteq Used(Table)
        /\ Complete \subseteq Used(Table) /\ Reported \subseteq Used(Table)
    BY <2>1, KeptNow
  <2> DEFINE u == Added(Table, r[1], r[2])
  <2>5. OthersStay(Table.timers, u.timers)
    BY <2>3, <2>4, AddedKeeps
  <2>6. timers' = u.timers
    BY <2>2 DEF BecomesTable
  <2> HIDE DEF u
  <2> QED BY <2>5, <2>6 DEF Table
<1>8. CASE OtherTimerStarts
  <2>1. FreeTimers(timers) \subseteq Nat
    BY IdsAssumption DEF FreeTimers
  <2>2. Min(FreeTimers(timers)) \in FreeTimers(timers)
    BY <1>8, <2>1, MinIsIn DEF OtherTimerStarts
  <2> DEFINE id == Min(FreeTimers(timers))
  <2>3. id \in TimerIds /\ timers[id] = "none"
    BY <2>2 DEF FreeTimers
  <2>4. timers' = [timers EXCEPT ![id] = "other"] /\ timers \in TimerMaps
    BY <1>8 DEF OtherTimerStarts, RequestInv, AckInv
  <2> HIDE DEF id
  <2> QED BY <2>3, <2>4 DEF OthersStay, TimerMaps
<1> QED BY <1>2, <1>3, <1>4, <1>5, <1>6, <1>7, <1>8 DEF Next, MainStep

\* The table cancels no timer of another module, though both take their ids from one pool
\* (can_ack.c:113), until an interrupt strikes where it does damage.
THEOREM OthersAlwaysUntouched == Spec => OtherTimersUntouched
<1> DEFINE Foreign ==
      \A t \in TimerIds : ~torn' /\ timers[t] = "other" /\ timers'[t] # "other" => OtherTimerEnds(t)
<1>1. ASSUME torn \/ RequestInv, [Next]_vars PROVE [Foreign]_vars
  <2>1. CASE UNCHANGED vars \/ torn'
    BY <2>1
  <2>2. CASE RequestInv /\ \E t \in TimerIds : OtherTimerEnds(t)
    <3>1. PICK x \in TimerIds : OtherTimerEnds(x)
      BY <2>2
    <3>2. timers' = [timers EXCEPT ![x] = "none"] /\ timers \in TimerMaps
      BY <2>2, <3>1 DEF OtherTimerEnds, RequestInv, AckInv
    <3>3. \A t \in TimerIds : t # x => timers'[t] = timers[t]
      BY <3>2 DEF TimerMaps
    <3> QED BY <3>1, <3>3
  <2>3. CASE OthersStay(timers, timers')
    BY <2>3 DEF OthersStay
  <2>4. torn => torn'
    BY <1>1, TornStays
  <2> QED BY <1>1, <2>1, <2>2, <2>3, <2>4, OthersStayNext
<1> QED BY <1>1, RequestsUntilTorn, PTL DEF Spec, OtherTimersUntouched
=============================================================================
