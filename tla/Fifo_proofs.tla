---------------------------- MODULE Fifo_proofs ----------------------------
(***************************************************************************)
(* For every capacity, every set of elements and every interleaving of one *)
(* producer with one consumer: the ring of fifo.c stays consistent, the     *)
(* capacity tests made outside the critical sections stay valid, and the   *)
(* fifo is a bounded queue.                                                *)
(***************************************************************************)
EXTENDS Fifo, TLAPS, SequenceTheorems

\* The contexts that can have a push, or a pop or peek, in progress.
OpsByRole ==
  \A c \in Contexts :
    /\ op[c].kind = "push" => c \in Producers /\ op[c].group \in Groups
    /\ op[c].kind \in {"pop", "peek"} => c \in Consumers /\ op[c].count \in 1 .. max

\* The inductive invariant.
IInv == TypeOK /\ WithinCapacity /\ RingConsistent /\ OpsByRole /\ TestsStayValid

Values == Elems \cup {Zero}

-----------------------------------------------------------------------------
(* Arithmetic of slots                                                      *)

\* Ahead stays on the ring.
LEMMA AheadInSlots ==
  ASSUME NEW p \in Slots, NEW m \in 0 .. max
  PROVE  Ahead(p, m) \in Slots
BY MaxAssumption, SMT DEF Ahead, Slots

\* Ahead adds up.
LEMMA AheadAdds ==
  ASSUME NEW p \in Slots, NEW m \in 0 .. max, NEW n \in 0 .. max, m + n =< max
  PROVE  Ahead(Ahead(p, m), n) = Ahead(p, m + n)
BY MaxAssumption, SMT DEF Ahead, Slots

\* Distance undoes Ahead.
LEMMA DistanceOfAhead ==
  ASSUME NEW p \in Slots, NEW m \in 0 .. max - 1
  PROVE  Distance(p, Ahead(p, m)) = m
BY MaxAssumption, SMT DEF Ahead, Distance, Slots

\* Distances from a moved slot.
LEMMA DistanceFacts ==
  ASSUME NEW p \in Slots, NEW i \in Slots, NEW m \in 0 .. max
  PROVE  /\ Distance(p, i) \in 0 .. max - 1
         /\ Distance(Ahead(p, m), i) =
              IF Distance(p, i) >= m THEN Distance(p, i) - m ELSE Distance(p, i) - m + max
BY MaxAssumption, SMT DEF Ahead, Distance, Slots

\* A group has at least one element, all of them pushable.
LEMMA GroupFacts ==
  ASSUME NEW s \in Groups
  PROVE  /\ s \in Seq(Elems) /\ Len(s) \in Nat \ {0}
         /\ \A i \in 1 .. Len(s) : s[i] \in Elems
<1>1. s \in Seq(Elems) /\ s # << >>  BY GroupsAssumption
<1>2. Len(s) \in Nat \ {0}  BY <1>1, EmptySeq
<1> QED  BY <1>1, <1>2, ElementOfSeq

\* Front copies out a sequence of n values.
LEMMA FrontFacts ==
  ASSUME NEW f, f.buf \in [Slots -> Values], f.head \in Slots, NEW n \in 0 .. max
  PROVE  /\ Front(f, n) \in Seq(Values) /\ Len(Front(f, n)) = n
         /\ \A i \in 1 .. n : Front(f, n)[i] = f.buf[Ahead(f.head, i - 1)]
<1>1. \A i \in 1 .. n : f.buf[Ahead(f.head, i - 1)] \in Values
  <2> SUFFICES ASSUME NEW i \in 1 .. n PROVE f.buf[Ahead(f.head, i - 1)] \in Values
    OBVIOUS
  <2>1. i - 1 \in 0 .. max  BY MaxAssumption
  <2>2. Ahead(f.head, i - 1) \in Slots  BY <2>1, AheadInSlots
  <2> QED  BY <2>2
<1>2. Front(f, n) \in [1 .. n -> Values]  BY <1>1 DEF Front
<1>3. n \in Nat  BY MaxAssumption
<1>4. Front(f, n) \in Seq(Values)  BY <1>2, <1>3, SeqDef
<1>5. Len(Front(f, n)) = n  BY <1>2, <1>3, <1>4, LenProperties, SMT
<1> QED  BY <1>4, <1>5 DEF Front

-----------------------------------------------------------------------------
(* The critical sections, as operations on the contents                     *)

Rings == [buf : [Slots -> Values], head : Slots, next : Slots, num : Nat]

Consistent(f) ==
  /\ f \in Rings /\ f.num =< max
  /\ f.next = Ahead(f.head, f.num)
  /\ \A i \in Slots : Distance(f.head, i) >= f.num => f.buf[i] = Zero

\* A push that fits keeps the ring consistent and appends the group to its contents.
LEMMA PushAppends ==
  ASSUME NEW f, Consistent(f), NEW s \in Groups, f.num + Len(s) =< max
  PROVE  /\ Consistent(Pushed(f, s)) /\ Pushed(f, s).num = f.num + Len(s)
         /\ Contents(Pushed(f, s)) = Contents(f) \o s
<1> DEFINE g == Pushed(f, s)
           len == Len(s)
<1>1. /\ s \in Seq(Elems) /\ len \in Nat \ {0}
      /\ \A i \in 1 .. len : s[i] \in Elems
  BY GroupFacts
<1>2. /\ f \in Rings /\ f.num \in 0 .. max /\ f.head \in Slots
      /\ f.next = Ahead(f.head, f.num) /\ f.next \in Slots
      /\ len \in 0 .. max /\ f.num + len \in 0 .. max
  BY <1>1, MaxAssumption DEF Consistent, Rings
<1>3. /\ g.head = f.head /\ g.num = f.num + len /\ g.next = Ahead(f.next, len)
      /\ g.buf = [i \in Slots |-> IF Distance(f.next, i) < len
                                  THEN s[Distance(f.next, i) + 1] ELSE f.buf[i]]
      /\ g = [buf |-> g.buf, head |-> g.head, next |-> g.next, num |-> g.num]
  BY <1>2 DEF Pushed, Rings
<1> HIDE DEF g
<1>4. \A i \in Slots : g.buf[i] \in Values
  <2> SUFFICES ASSUME NEW i \in Slots PROVE g.buf[i] \in Values
    OBVIOUS
  <2>1. Distance(f.next, i) \in 0 .. max - 1  BY <1>2, MaxAssumption, SMT DEF Distance, Slots
  <2>2. CASE Distance(f.next, i) < len
    <3>1. Distance(f.next, i) + 1 \in 1 .. len  BY <2>1, <2>2, <1>1
    <3> QED  BY <3>1, <2>2, <1>1, <1>3 DEF Values
  <2>3. CASE ~(Distance(f.next, i) < len)
    BY <2>3, <1>2, <1>3 DEF Rings
  <2> QED  BY <2>2, <2>3
<1>5. g.next \in Slots /\ g.next = Ahead(g.head, g.num)
  <2>1. Ahead(f.next, len) \in Slots
    BY <1>2, AheadInSlots
  <2>2. Ahead(Ahead(f.head, f.num), len) = Ahead(f.head, f.num + len)
    BY <1>2, AheadAdds
  <2> QED  BY <2>1, <2>2, <1>2, <1>3
<1>6. g \in Rings
  BY <1>2, <1>3, <1>4, <1>5 DEF Rings
<1>7. ASSUME NEW i \in Slots, Distance(g.head, i) >= g.num
      PROVE  g.buf[i] = Zero
  <2>1. /\ Distance(f.head, i) \in 0 .. max - 1
        /\ Distance(f.next, i) = IF Distance(f.head, i) >= f.num
                                 THEN Distance(f.head, i) - f.num
                                 ELSE Distance(f.head, i) - f.num + max
    BY <1>2, DistanceFacts
  <2>2. Distance(f.head, i) >= f.num /\ ~(Distance(f.next, i) < len)
    BY <2>1, <1>7, <1>3, <1>2, <1>1
  <2> QED  BY <2>2, <1>3, <1>2 DEF Consistent
<1>8. Consistent(g)
  BY <1>2, <1>3, <1>5, <1>6, <1>7 DEF Consistent
<1>9. Contents(g) = Contents(f) \o s
  <2>1. /\ Contents(f) \in Seq(Values) /\ Len(Contents(f)) = f.num
        /\ \A i \in 1 .. f.num : Contents(f)[i] = f.buf[Ahead(f.head, i - 1)]
    BY <1>2, FrontFacts DEF Contents, Rings
  <2>2. /\ Contents(g) \in Seq(Values) /\ Len(Contents(g)) = f.num + len
        /\ \A i \in 1 .. f.num + len : Contents(g)[i] = g.buf[Ahead(f.head, i - 1)]
    <3>1. g.buf \in [Slots -> Values] /\ g.head \in Slots /\ g.num \in 0 .. max
      BY <1>2, <1>3, <1>6 DEF Rings
    <3>2. /\ Contents(g) \in Seq(Values) /\ Len(Contents(g)) = g.num
          /\ \A i \in 1 .. g.num : Contents(g)[i] = g.buf[Ahead(g.head, i - 1)]
      BY <3>1, FrontFacts DEF Contents
    <3> QED  BY <3>2, <1>3
  <2>3. s \in Seq(Values)
    BY <1>1, SeqMonotonic DEF Values
  <2>4. /\ Contents(f) \o s \in Seq(Values) /\ Len(Contents(f) \o s) = f.num + len
        /\ \A i \in 1 .. f.num + len :
             (Contents(f) \o s)[i] = IF i <= f.num THEN Contents(f)[i] ELSE s[i - f.num]
    <3>1. /\ Contents(f) \o s \in Seq(Values)
          /\ Len(Contents(f) \o s) = Len(Contents(f)) + Len(s)
          /\ \A i \in 1 .. Len(Contents(f)) + Len(s) :
               (Contents(f) \o s)[i] =
                 IF i <= Len(Contents(f)) THEN Contents(f)[i] ELSE s[i - Len(Contents(f))]
      BY <2>1, <2>3, ConcatProperties
    <3> QED  BY <3>1, <2>1
  <2>5. ASSUME NEW i \in 1 .. f.num + len
        PROVE  Contents(g)[i] = (Contents(f) \o s)[i]
    <3> DEFINE k == Ahead(f.head, i - 1)
    <3>1. i \in Int /\ i - 1 \in 0 .. max /\ i - 1 \in 0 .. max - 1
      BY <1>1, <1>2, <2>5, MaxAssumption
    <3>2. k \in Slots /\ Distance(f.head, k) = i - 1
      BY <3>1, <1>2, AheadInSlots, DistanceOfAhead
    <3>3. Distance(f.next, k) = IF i - 1 >= f.num THEN i - 1 - f.num ELSE i - 1 - f.num + max
      <4>1. Distance(Ahead(f.head, f.num), k) =
              IF Distance(f.head, k) >= f.num THEN Distance(f.head, k) - f.num
                                              ELSE Distance(f.head, k) - f.num + max
        BY <3>2, <1>2, DistanceFacts
      <4> QED  BY <4>1, <3>2, <1>2
    <3>4. CASE i =< f.num
      <4>1. ~(Distance(f.next, k) < len)
        <5>1. Distance(f.next, k) = i - 1 - f.num + max  BY <3>1, <3>3, <3>4, <1>2
        <5>2. ~(i - 1 - f.num + max < len)
          <6> HIDE DEF len
          <6> QED  BY <3>1, <1>1, <1>2, MaxAssumption
        <5> QED  BY <5>1, <5>2
      <4>2. g.buf[k] = f.buf[k]  BY <4>1, <3>2, <1>3
      <4>3. i \in 1 .. f.num  BY <3>4, <1>2
      <4> QED  BY <4>2, <4>3, <3>4, <2>1, <2>2, <2>4
    <3>5. CASE ~(i =< f.num)
      <4>1. Distance(f.next, k) = i - 1 - f.num /\ Distance(f.next, k) < len
        BY <3>3, <3>5, <1>2, <1>1, <3>1
      <4>2. g.buf[k] = s[i - 1 - f.num + 1]  BY <4>1, <3>2, <1>3
      <4>3. i - 1 - f.num + 1 = i - f.num  BY <3>1, <1>2
      <4> QED  BY <4>2, <4>3, <3>5, <2>2, <2>4
    <3> QED  BY <3>4, <3>5
  <2> QED  BY <2>2, <2>4, <2>5, SeqEqual
<1> QED  BY <1>3, <1>8, <1>9 DEF g

\* A pop of elements the ring holds keeps it consistent and drops the oldest of its contents.
LEMMA PopDrops ==
  ASSUME NEW f, Consistent(f), NEW n \in 1 .. max, n =< f.num
  PROVE  /\ Consistent(Popped(f, n)) /\ Popped(f, n).num = f.num - n
         /\ Front(f, n) = SubSeq(Contents(f), 1, n)
         /\ Contents(Popped(f, n)) = SubSeq(Contents(f), n + 1, f.num)
<1> DEFINE g == Popped(f, n)
<1>1. /\ f \in Rings /\ f.num \in 0 .. max /\ f.head \in Slots
      /\ f.next = Ahead(f.head, f.num) /\ f.next \in Slots
      /\ n \in 0 .. max /\ n \in Nat /\ f.num - n \in 0 .. max
  BY MaxAssumption DEF Consistent, Rings
<1>2. /\ g.head = Ahead(f.head, n) /\ g.num = f.num - n /\ g.next = f.next
      /\ g.buf = [i \in Slots |-> IF Distance(f.head, i) < n THEN Zero ELSE f.buf[i]]
      /\ g = [buf |-> g.buf, head |-> g.head, next |-> g.next, num |-> g.num]
  BY <1>1 DEF Popped, Rings
<1> HIDE DEF g
<1>3. /\ g.head \in Slots
      /\ Ahead(Ahead(f.head, n), f.num - n) = Ahead(f.head, n + (f.num - n))
      /\ n + (f.num - n) = f.num
  <2>1. n + (f.num - n) = f.num /\ n + (f.num - n) =< max  BY <1>1
  <2>2. Ahead(Ahead(f.head, n), f.num - n) = Ahead(f.head, n + (f.num - n))
    BY <1>1, <2>1, AheadAdds
  <2> QED  BY <1>1, <1>2, <2>1, <2>2, AheadInSlots
<1>4. g.next = Ahead(g.head, g.num)
  BY <1>1, <1>2, <1>3
<1>5. g \in Rings
  BY <1>1, <1>2, <1>3 DEF Rings, Values
<1>6. ASSUME NEW i \in Slots, Distance(g.head, i) >= g.num
      PROVE  g.buf[i] = Zero
  <2>1. /\ Distance(f.head, i) \in 0 .. max - 1
        /\ Distance(g.head, i) = IF Distance(f.head, i) >= n
                                 THEN Distance(f.head, i) - n
                                 ELSE Distance(f.head, i) - n + max
    BY <1>1, <1>2, DistanceFacts
  <2>2. Distance(f.head, i) < n \/ Distance(f.head, i) >= f.num
    BY <2>1, <1>6, <1>2, <1>1
  <2> QED  BY <2>2, <1>2, <1>1 DEF Consistent
<1>7. Consistent(g)
  BY <1>1, <1>2, <1>4, <1>5, <1>6 DEF Consistent
<1>8. /\ Contents(f) \in Seq(Values) /\ Len(Contents(f)) = f.num
      /\ \A i \in 1 .. f.num : Contents(f)[i] = f.buf[Ahead(f.head, i - 1)]
  BY <1>1, FrontFacts DEF Contents, Rings
<1>9. \A i \in 1 .. f.num : Contents(f)[i] \in Values
  BY <1>8, ElementOfSeq
<1>10. Front(f, n) = SubSeq(Contents(f), 1, n)
  <2>1. /\ Front(f, n) \in Seq(Values) /\ Len(Front(f, n)) = n
        /\ \A i \in 1 .. n : Front(f, n)[i] = f.buf[Ahead(f.head, i - 1)]
    BY <1>1, FrontFacts DEF Rings
  <2>2. \A i \in 1 .. n : Contents(f)[i] \in Values  BY <1>9, <1>1
  <2>3. /\ SubSeq(Contents(f), 1, n) \in Seq(Values) /\ Len(SubSeq(Contents(f), 1, n)) = n
        /\ \A i \in 1 .. n : SubSeq(Contents(f), 1, n)[i] = Contents(f)[i]
    <3>1. /\ SubSeq(Contents(f), 1, n) \in Seq(Values)
          /\ Len(SubSeq(Contents(f), 1, n)) = IF 1 <= n THEN n - 1 + 1 ELSE 0
          /\ \A i \in 1 .. n - 1 + 1 : SubSeq(Contents(f), 1, n)[i] = Contents(f)[1 + i - 1]
      BY <2>2, <1>1, SubSeqProperties
    <3>2. n - 1 + 1 = n /\ 1 <= n /\ \A i \in 1 .. n : 1 + i - 1 = i  BY <1>1
    <3> QED  BY <3>1, <3>2
  <2>4. \A i \in 1 .. n : Front(f, n)[i] = SubSeq(Contents(f), 1, n)[i]
    BY <2>1, <2>3, <1>8, <1>1
  <2> QED  BY <2>1, <2>3, <2>4, SeqEqual
<1>11. Contents(g) = SubSeq(Contents(f), n + 1, f.num)
  <2>1. /\ Contents(g) \in Seq(Values) /\ Len(Contents(g)) = f.num - n
        /\ \A i \in 1 .. f.num - n : Contents(g)[i] = g.buf[Ahead(g.head, i - 1)]
    <3>1. g.buf \in [Slots -> Values] /\ g.head \in Slots /\ g.num \in 0 .. max
      BY <1>1, <1>2, <1>5 DEF Rings
    <3>2. /\ Contents(g) \in Seq(Values) /\ Len(Contents(g)) = g.num
          /\ \A i \in 1 .. g.num : Contents(g)[i] = g.buf[Ahead(g.head, i - 1)]
      BY <3>1, FrontFacts DEF Contents
    <3> QED  BY <3>2, <1>2
  <2>2. /\ SubSeq(Contents(f), n + 1, f.num) \in Seq(Values)
        /\ Len(SubSeq(Contents(f), n + 1, f.num)) = f.num - n
        /\ \A i \in 1 .. f.num - n : SubSeq(Contents(f), n + 1, f.num)[i] = Contents(f)[n + i]
    <3>1. \A i \in n + 1 .. f.num : Contents(f)[i] \in Values  BY <1>9, <1>1
    <3>2. /\ SubSeq(Contents(f), n + 1, f.num) \in Seq(Values)
          /\ Len(SubSeq(Contents(f), n + 1, f.num)) =
               IF n + 1 <= f.num THEN f.num - (n + 1) + 1 ELSE 0
          /\ \A i \in 1 .. f.num - (n + 1) + 1 :
               SubSeq(Contents(f), n + 1, f.num)[i] = Contents(f)[n + 1 + i - 1]
      BY <3>1, <1>1, SubSeqProperties
    <3>3. /\ f.num - (n + 1) + 1 = f.num - n
          /\ ~(n + 1 <= f.num) => f.num - n = 0
          /\ \A i \in 1 .. f.num - n : n + 1 + i - 1 = n + i
      BY <1>1
    <3> QED  BY <3>2, <3>3
  <2>3. ASSUME NEW i \in 1 .. f.num - n
        PROVE  Contents(g)[i] = SubSeq(Contents(f), n + 1, f.num)[i]
    <3> DEFINE k == Ahead(f.head, n + (i - 1))
    <3>1. /\ i - 1 \in 0 .. max /\ n + (i - 1) \in 0 .. max /\ n + (i - 1) \in 0 .. max - 1
          /\ n + i \in 1 .. f.num /\ n + i - 1 = n + (i - 1) /\ n + (i - 1) =< max
      BY <1>1, MaxAssumption
    <3>2. Ahead(g.head, i - 1) = k
      BY <3>1, <1>1, <1>2, AheadAdds
    <3>3. k \in Slots /\ Distance(f.head, k) = n + (i - 1)
      BY <3>1, <1>1, AheadInSlots, DistanceOfAhead
    <3>4. g.buf[k] = f.buf[k]
      BY <3>1, <3>3, <1>1, <1>2
    <3>5. Contents(g)[i] = g.buf[k]
      BY <3>2, <2>1
    <3>6. SubSeq(Contents(f), n + 1, f.num)[i] = Contents(f)[n + i]
      BY <2>2
    <3>7. Contents(f)[n + i] = f.buf[Ahead(f.head, n + i - 1)]
      BY <3>1, <1>8
    <3> QED  BY <3>1, <3>4, <3>5, <3>6, <3>7
  <2> QED  BY <2>1, <2>2, <2>3, SeqEqual
<1> QED  BY <1>2, <1>7, <1>10, <1>11 DEF g
-----------------------------------------------------------------------------
(* The specification                                                        *)

\* What the idle record and the operation records hold.
LEMMA OpFields ==
  /\ Idle.kind = "idle" /\ Peeking.kind = "peek" /\ Peeking.count = 1
  /\ \A s : Pushing(s).kind = "push" /\ Pushing(s).group = s
  /\ \A n : Popping(n).kind = "pop" /\ Popping(n).count = n
BY DEF Idle, Peeking, Pushing, Popping

\* A context at rest makes no claim on the ring.
LEMMA InvInit == Init => IInv
<1> SUFFICES ASSUME Init PROVE IInv
  OBVIOUS
<1>1. /\ fifo = fifo_init /\ out = << >>
      /\ op = [c \in Contexts |-> Idle]
  BY DEF Init
<1>2. TypeOK
  <2>1. 0 \in Slots  BY MaxAssumption DEF Slots
  <2>2. fifo \in [buf : [Slots -> Elems \cup {Zero}], head : Slots, next : Slots, num : Nat]
    BY <1>1, <2>1 DEF fifo_init
  <2>3. out \in Seq(Elems \cup {Zero}) /\ Len(out) =< max
    BY <1>1, EmptySeq, MaxAssumption
  <2> QED  BY <1>1, <2>2, <2>3 DEF TypeOK, Ops
<1>3. WithinCapacity /\ RingConsistent
  <2>1. fifo.num = 0 /\ fifo.head = 0 /\ fifo.next = 0 /\ fifo.buf = [i \in Slots |-> Zero]
    BY <1>1 DEF fifo_init
  <2>2. 0 =< max /\ 0 = Ahead(0, 0)  BY MaxAssumption DEF Ahead
  <2> QED  BY <2>1, <2>2 DEF WithinCapacity, RingConsistent
<1>4. OpsByRole /\ TestsStayValid
  BY <1>1, OpFields DEF OpsByRole, TestsStayValid
<1> QED  BY <1>2, <1>3, <1>4 DEF IInv

\* The invariant says that the ring is consistent in the sense of the lemmas above.
LEMMA RingOfInv == IInv => Consistent(fifo)
BY DEF IInv, TypeOK, WithinCapacity, RingConsistent, Consistent, Rings, Values

\* What may become the operation of context c once its test has succeeded.
Admitted(c, o) ==
  \/ /\ c \in Producers
     /\ \E s \in Groups : o = Pushing(s) /\ fifo.num + Len(s) =< max
  \/ /\ c \in Consumers
     /\ \/ o = Peeking /\ 1 =< fifo.num
        \/ \E n \in 1 .. max : o = Popping(n) /\ n =< fifo.num

\* Every test admits the operation it begins.
LEMMA TestsAdmit ==
  ASSUME IInv, NEW c \in Contexts
  PROVE  /\ c \in Producers /\ (fifo_push_test(c) \/ fifo_push_arr_test(c)) =>
              \E o : Admitted(c, o) /\ Begin(c, o)
         /\ c \in Consumers /\ (fifo_peek_test(c) \/ fifo_pop_test(c) \/ fifo_pop_arr_test(c)) =>
              \E o : Admitted(c, o) /\ Begin(c, o)
<1>1. fifo.num \in Nat /\ fifo.num =< max /\ max \in Nat /\ 1 \in 1 .. max
  BY MaxAssumption DEF IInv, TypeOK, WithinCapacity
<1>2. \A s \in Groups : Len(s) \in Nat  BY GroupFacts
<1>3. ASSUME c \in Producers, fifo_push_test(c) PROVE \E o : Admitted(c, o) /\ Begin(c, o)
  <2>1. PICK s \in Groups : Len(s) = 1 /\ ~RefusesPush(fifo) /\ Begin(c, Pushing(s))
    BY <1>3 DEF fifo_push_test
  <2>2. fifo.num + Len(s) =< max  BY <2>1, <1>1 DEF RefusesPush
  <2> QED  BY <2>1, <2>2, <1>3 DEF Admitted
<1>4. ASSUME c \in Producers, fifo_push_arr_test(c) PROVE \E o : Admitted(c, o) /\ Begin(c, o)
  <2>1. PICK s \in Groups : ~RefusesPushArr(fifo, Len(s)) /\ Begin(c, Pushing(s))
    BY <1>4 DEF fifo_push_arr_test
  <2>2. fifo.num + Len(s) =< max  BY <2>1, <1>1, <1>2 DEF RefusesPushArr
  <2> QED  BY <2>1, <2>2, <1>4 DEF Admitted
<1>5. ASSUME c \in Consumers, fifo_peek_test(c) PROVE \E o : Admitted(c, o) /\ Begin(c, o)
  BY <1>1, <1>5 DEF fifo_peek_test, RefusesPop, Admitted
<1>6. ASSUME c \in Consumers, fifo_pop_test(c) PROVE \E o : Admitted(c, o) /\ Begin(c, o)
  BY <1>1, <1>6 DEF fifo_pop_test, RefusesPop, Admitted
<1>7. ASSUME c \in Consumers, fifo_pop_arr_test(c) PROVE \E o : Admitted(c, o) /\ Begin(c, o)
  <2>1. PICK n \in 1 .. max : ~RefusesPopArr(fifo, n) /\ Begin(c, Popping(n))
    BY <1>7 DEF fifo_pop_arr_test
  <2>2. n =< fifo.num  BY <2>1, <1>1 DEF RefusesPopArr
  <2> QED  BY <2>1, <2>2, <1>7 DEF Admitted
<1> QED  BY <1>3, <1>4, <1>5, <1>6, <1>7

\* Beginning an admitted operation keeps the invariant.
LEMMA BeginKeepsInv ==
  ASSUME IInv, NEW c \in Contexts, NEW o, Admitted(c, o), Begin(c, o)
  PROVE  IInv'
<1>1. op' = [op EXCEPT ![c] = o] /\ fifo' = fifo /\ out' = out  BY DEF Begin
<1>2. o \in Ops  BY DEF Admitted, Ops
<1>3. TypeOK'  BY <1>1, <1>2 DEF IInv, TypeOK
<1>4. (WithinCapacity /\ RingConsistent)'
  BY <1>1 DEF IInv, WithinCapacity, RingConsistent
<1>5. /\ o.kind = "push" => c \in Producers /\ o.group \in Groups /\ fifo.num + Len(o.group) =< max
      /\ o.kind \in {"pop", "peek"} =>
           c \in Consumers /\ o.count \in 1 .. max /\ o.count =< fifo.num
  BY OpFields, MaxAssumption DEF Admitted
<1>6. \A d \in Contexts : op'[d] = IF d = c THEN o ELSE op[d]
  BY <1>1 DEF IInv, TypeOK
<1>7. OpsByRole'  BY <1>5, <1>6 DEF IInv, OpsByRole
<1>8. TestsStayValid'  BY <1>1, <1>5, <1>6 DEF IInv, TestsStayValid
<1> QED  BY <1>3, <1>4, <1>7, <1>8 DEF IInv

\* A push commits as the push of a bounded queue; the consumer's test stays valid because the
\* count has only grown.
LEMMA PushCommits ==
  ASSUME IInv, NEW c \in Contexts, Producers = {c}, push_commit(c)
  PROVE  IInv' /\ \E s \in Groups : Queue!Push(s)
<1> DEFINE s == op[c].group
<1>1. /\ op[c].kind = "push" /\ s \in Groups /\ fifo.num + Len(s) =< max
      /\ fifo' = Pushed(fifo, s) /\ out' = out /\ op' = [op EXCEPT ![c] = Idle]
  BY DEF push_commit, End, IInv, OpsByRole, TestsStayValid
<1>2. /\ Consistent(fifo') /\ fifo'.num = fifo.num + Len(s)
      /\ Contents(fifo') = Contents(fifo) \o s
  BY <1>1, RingOfInv, PushAppends
<1>3. Len(s) \in Nat /\ fifo.num \in Nat /\ fifo'.num >= fifo.num
  BY <1>1, <1>2, GroupFacts DEF IInv, TypeOK
<1>4. \A d \in Contexts : op'[d] = IF d = c THEN Idle ELSE op[d]
  BY <1>1 DEF IInv, TypeOK
<1>5. TypeOK' /\ WithinCapacity' /\ RingConsistent'
  <2>1. op' \in [Contexts -> Ops]  BY <1>1 DEF IInv, TypeOK, Ops
  <2>2. /\ fifo' \in [buf : [Slots -> Elems \cup {Zero}], head : Slots, next : Slots, num : Nat]
        /\ WithinCapacity' /\ RingConsistent'
    BY <1>2 DEF WithinCapacity, RingConsistent, Consistent, Rings, Values
  <2> QED  BY <1>1, <2>1, <2>2 DEF IInv, TypeOK
<1>6. OpsByRole'
  BY <1>4, OpFields DEF IInv, OpsByRole
<1>7. TestsStayValid'
  <2> SUFFICES ASSUME NEW d \in Contexts
               PROVE  /\ op'[d].kind = "push" => fifo'.num + Len(op'[d].group) =< max
                      /\ op'[d].kind \in {"pop", "peek"} => op'[d].count =< fifo'.num
    BY DEF TestsStayValid
  <2>1. CASE d = c  BY <2>1, <1>4, OpFields
  <2>2. CASE d # c
    <3>1. op'[d] = op[d] /\ op[d].kind # "push"
      BY <2>2, <1>4 DEF IInv, OpsByRole
    <3>2. ASSUME op[d].kind \in {"pop", "peek"} PROVE op[d].count =< fifo'.num
      <4>1. op[d].count \in Int /\ op[d].count =< fifo.num
        BY <3>2, MaxAssumption DEF IInv, OpsByRole, TestsStayValid
      <4> QED  BY <4>1, <1>2, <1>3
    <3> QED  BY <3>1, <3>2
  <2> QED  BY <2>1, <2>2
<1>8. Queue!Push(s)
  <2>1. Len(Contents(fifo)) = fifo.num
    <3>1. /\ fifo.buf \in [Slots -> Values] /\ fifo.head \in Slots /\ fifo.num \in 0 .. max
      BY MaxAssumption DEF IInv, TypeOK, WithinCapacity, Values
    <3> QED  BY <3>1, FrontFacts DEF Contents
  <2> QED  BY <2>1, <1>1, <1>2 DEF Queue!Push
<1> QED  BY <1>1, <1>5, <1>6, <1>7, <1>8 DEF IInv

\* A pop commits as the pop of a bounded queue; the producer's test stays valid because the
\* count has only fallen.
LEMMA PopCommits ==
  ASSUME IInv, NEW c \in Contexts, Consumers = {c}, pop_commit(c)
  PROVE  IInv' /\ \E n \in 1 .. max : Queue!Pop(n)
<1> DEFINE n == op[c].count
<1>1. /\ op[c].kind = "pop" /\ n \in 1 .. max /\ n =< fifo.num
      /\ fifo' = Popped(fifo, n) /\ out' = Front(fifo, n) /\ op' = [op EXCEPT ![c] = Idle]
  BY DEF pop_commit, End, IInv, OpsByRole, TestsStayValid
<1>2. /\ Consistent(fifo') /\ fifo'.num = fifo.num - n
      /\ Front(fifo, n) = SubSeq(Contents(fifo), 1, n)
      /\ Contents(fifo') = SubSeq(Contents(fifo), n + 1, fifo.num)
  BY <1>1, RingOfInv, PopDrops
<1>3. /\ fifo.buf \in [Slots -> Values] /\ fifo.head \in Slots /\ fifo.num \in 0 .. max
      /\ n \in 0 .. max /\ fifo'.num =< fifo.num /\ fifo'.num \in Nat
  BY <1>1, <1>2, MaxAssumption DEF IInv, TypeOK, WithinCapacity, Values
<1>4. \A d \in Contexts : op'[d] = IF d = c THEN Idle ELSE op[d]
  BY <1>1 DEF IInv, TypeOK
<1>5. TypeOK' /\ WithinCapacity' /\ RingConsistent'
  <2>1. op' \in [Contexts -> Ops]  BY <1>1 DEF IInv, TypeOK, Ops
  <2>2. /\ fifo' \in [buf : [Slots -> Elems \cup {Zero}], head : Slots, next : Slots, num : Nat]
        /\ WithinCapacity' /\ RingConsistent'
    BY <1>2 DEF WithinCapacity, RingConsistent, Consistent, Rings, Values
  <2>3. out' \in Seq(Values) /\ Len(out') = n
    BY <1>1, <1>3, FrontFacts
  <2> QED  BY <1>1, <1>3, <2>1, <2>2, <2>3, MaxAssumption DEF IInv, TypeOK, Values
<1>6. OpsByRole'
  BY <1>4, OpFields DEF IInv, OpsByRole
<1>7. TestsStayValid'
  <2> SUFFICES ASSUME NEW d \in Contexts
               PROVE  /\ op'[d].kind = "push" => fifo'.num + Len(op'[d].group) =< max
                      /\ op'[d].kind \in {"pop", "peek"} => op'[d].count =< fifo'.num
    BY DEF TestsStayValid
  <2>1. CASE d = c  BY <2>1, <1>4, OpFields
  <2>2. CASE d # c
    <3>1. op'[d] = op[d] /\ op[d].kind \notin {"pop", "peek"}
      BY <2>2, <1>4 DEF IInv, OpsByRole
    <3>2. ASSUME op[d].kind = "push" PROVE fifo'.num + Len(op[d].group) =< max
      <4>1. Len(op[d].group) \in Nat /\ fifo.num + Len(op[d].group) =< max
        BY <3>2, GroupFacts DEF IInv, OpsByRole, TestsStayValid
      <4> QED  BY <4>1, <1>3, MaxAssumption
    <3> QED  BY <3>1, <3>2
  <2> QED  BY <2>1, <2>2
<1>8. Queue!Pop(n)
  <2>1. Len(Contents(fifo)) = fifo.num
    BY <1>3, FrontFacts DEF Contents
  <2> QED  BY <2>1, <1>1, <1>2 DEF Queue!Pop
<1> QED  BY <1>1, <1>5, <1>6, <1>7, <1>8 DEF IInv

\* A peek changes what was copied out and nothing else.
LEMMA PeekCommits ==
  ASSUME IInv, NEW c \in Contexts, Consumers = {c}, peek_commit(c)
  PROVE  IInv' /\ Queue!Peek
<1>1. /\ op[c].kind = "peek" /\ op[c].count \in 1 .. max /\ op[c].count =< fifo.num
      /\ fifo' = fifo /\ out' = Front(fifo, 1) /\ op' = [op EXCEPT ![c] = Idle]
  BY DEF peek_commit, End, IInv, OpsByRole, TestsStayValid
<1>2. /\ fifo.buf \in [Slots -> Values] /\ fifo.head \in Slots /\ fifo.num \in 0 .. max
      /\ 1 \in 0 .. max /\ 1 \in 1 .. max /\ 1 =< fifo.num
  BY <1>1, MaxAssumption DEF IInv, TypeOK, WithinCapacity, Values
<1>3. \A d \in Contexts : op'[d] = IF d = c THEN Idle ELSE op[d]
  BY <1>1 DEF IInv, TypeOK
<1>4. TypeOK'
  <2>1. op' \in [Contexts -> Ops]  BY <1>1 DEF IInv, TypeOK, Ops
  <2>2. out' \in Seq(Values) /\ Len(out') = 1  BY <1>1, <1>2, FrontFacts
  <2>3. Len(out') =< max  BY <1>2, <2>2, MaxAssumption
  <2>4. fifo' \in [buf : [Slots -> Elems \cup {Zero}], head : Slots, next : Slots, num : Nat]
    BY <1>1 DEF IInv, TypeOK
  <2> QED  BY <2>1, <2>2, <2>3, <2>4 DEF TypeOK, Values
<1>5. WithinCapacity' /\ RingConsistent'
  BY <1>1 DEF IInv, WithinCapacity, RingConsistent
<1>6. OpsByRole' /\ TestsStayValid'
  BY <1>1, <1>3, OpFields DEF IInv, OpsByRole, TestsStayValid
<1>7. Queue!Peek
  <2>1. Contents(fifo) \in Seq(Values) /\ Len(Contents(fifo)) = fifo.num
    BY <1>2, FrontFacts DEF Contents
  <2>2. Contents(fifo) # << >>
    BY <2>1, <1>2
  <2>3. Front(fifo, 1) = SubSeq(Contents(fifo), 1, 1)
    BY <1>2, RingOfInv, PopDrops
  <2> QED  BY <1>1, <2>2, <2>3 DEF Queue!Peek
<1> QED  BY <1>4, <1>5, <1>6, <1>7 DEF IInv

-----------------------------------------------------------------------------
(* Theorems                                                                 *)

\* Each step of the fifo keeps the invariant and is a step of the bounded queue.
LEMMA StepOfPair ==
  ASSUME NEW p \in Contexts, NEW c \in Contexts, Producers = {p}, Consumers = {c},
         IInv, [Next]_vars
  PROVE  IInv' /\ [Queue!Next]_<<Contents(fifo), out>>
<1>1. ASSUME NEW d \in Contexts, NEW o, Admitted(d, o), Begin(d, o)
      PROVE  IInv' /\ UNCHANGED <<Contents(fifo), out>>
  <2>1. fifo' = fifo /\ out' = out  BY <1>1 DEF Begin
  <2> QED  BY <1>1, <2>1, BeginKeepsInv DEF Contents
<1>2. CASE fifo_push_test(p) \/ fifo_push_arr_test(p)
  BY <1>1, <1>2, TestsAdmit
<1>3. CASE fifo_peek_test(c) \/ fifo_pop_test(c) \/ fifo_pop_arr_test(c)
  BY <1>1, <1>3, TestsAdmit
<1>4. CASE push_commit(p)
  BY <1>4, PushCommits DEF Queue!Next
<1>5. CASE pop_commit(c)
  BY <1>5, PopCommits DEF Queue!Next
<1>6. CASE peek_commit(c)
  BY <1>6, PeekCommits DEF Queue!Next
<1>7. CASE UNCHANGED vars
  <2>1. IInv'
    BY <1>7 DEF vars, IInv, TypeOK, WithinCapacity, RingConsistent, OpsByRole, TestsStayValid
  <2> QED  BY <2>1, <1>7 DEF vars, Contents
<1> QED  BY <1>2, <1>3, <1>4, <1>5, <1>6, <1>7 DEF Next, Produce, Consume

\* One producer and one consumer are enough for the ring to stay consistent.
THEOREM PairIsSafe ==
  ASSUME NEW p \in Contexts, NEW c \in Contexts, Producers = {p}, Consumers = {c}
  PROVE  Spec => [](TypeOK /\ WithinCapacity /\ RingConsistent)
<1>1. Init => IInv  BY InvInit
<1>2. IInv /\ [Next]_vars => IInv'  BY StepOfPair
<1>3. IInv => TypeOK /\ WithinCapacity /\ RingConsistent  BY DEF IInv
<1> QED  BY <1>1, <1>2, <1>3, PTL DEF Spec

\* What fifo.c finds before its critical section, with interrupts enabled, is still true inside it
\* (TestsStayValid): the other context only makes room for a push and only adds for a pop.
THEOREM TestsAlwaysStayValid ==
  ASSUME NEW p \in Contexts, NEW c \in Contexts, Producers = {p}, Consumers = {c}
  PROVE  Spec => []TestsStayValid
<1>1. Init => IInv  BY InvInit
<1>2. IInv /\ [Next]_vars => IInv'  BY StepOfPair
<1>3. IInv => TestsStayValid  BY DEF IInv
<1> QED  BY <1>1, <1>2, <1>3, PTL DEF Spec

\* For one producer and one consumer fifo.c implements a bounded first-in first-out queue.
THEOREM PairImplementsQueue ==
  ASSUME NEW p \in Contexts, NEW c \in Contexts, Producers = {p}, Consumers = {c}
  PROVE  Spec => ImplementsQueue
<1>1. Init => IInv  BY InvInit
<1>2. IInv /\ [Next]_vars => IInv' /\ [Queue!Next]_<<Contents(fifo), out>>
  BY StepOfPair
<1>3. Init => Queue!Init
  <2> SUFFICES ASSUME Init PROVE Contents(fifo) = << >> /\ out = << >>
    BY DEF Queue!Init
  <2>1. fifo.num = 0 /\ out = << >>  BY DEF Init, fifo_init
  <2>2. Contents(fifo) = << >>  BY <2>1, SMT DEF Contents, Front
  <2> QED  BY <2>1, <2>2
<1> QED  BY <1>1, <1>2, <1>3, PTL DEF Spec, ImplementsQueue, Queue!Spec
=============================================================================
