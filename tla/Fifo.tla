-------------------------------- MODULE Fifo --------------------------------
(***************************************************************************)
(* libraries/ms-common/src/fifo.c used from several execution contexts.    *)
(*                                                                         *)
(* The contexts of the firmware are the main loop and the interrupt        *)
(* handlers; a handler preempts any context of lower priority and runs to  *)
(* its end before that context goes on.  Every fifo operation tests the    *)
(* element count with interrupts enabled and then changes the ring inside  *)
(* a critical section, so it is two steps here: a Begin that tests and     *)
(* decides, and a Commit that is the critical section.  An operation whose *)
(* test fails returns RESOURCE_EXHAUSTED and changes nothing.              *)
(***************************************************************************)
EXTENDS RingBuffer

CONSTANTS Contexts,     \* execution contexts that use the fifo
          Prio,         \* priority of each, 0 for the main loop
          Producers,    \* the contexts that push
          Consumers,    \* the contexts that peek and pop
          Elems,        \* elements pushed
          Groups        \* element groups passed to push_arr; those of length one also to push

ASSUME ContextsAssumption ==
  /\ Producers \subseteq Contexts
  /\ Consumers \subseteq Contexts
  /\ Prio \in [Contexts -> Nat]

ASSUME GroupsAssumption == Groups \subseteq Seq(Elems) \ {<< >>}

VARIABLES
  fifo,     \* the ring
  op,       \* per context, the operation whose test has succeeded and that is not yet committed
  out       \* what the last peek or pop copied out

vars == <<fifo, op, out>>

Idle == [kind |-> "idle", group |-> << >>, count |-> 0]
Pushing(s) == [kind |-> "push", group |-> s, count |-> 0]
Popping(n) == [kind |-> "pop", group |-> << >>, count |-> n]
Peeking == [kind |-> "peek", group |-> << >>, count |-> 1]

Init ==
  /\ fifo = fifo_init
  /\ op = [c \in Contexts |-> Idle]
  /\ out = << >>

\* A handler in the middle of an operation holds back every context of lower or equal priority.
Running(c) == \A d \in Contexts \ {c} : op[d] # Idle => Prio[d] < Prio[c]

Begin(c, o) ==
  /\ Running(c)
  /\ op[c] = Idle
  /\ op' = [op EXCEPT ![c] = o]
  /\ UNCHANGED <<fifo, out>>

fifo_push_test(c) ==
  \E s \in Groups : Len(s) = 1 /\ ~RefusesPush(fifo) /\ Begin(c, Pushing(s))

fifo_push_arr_test(c) ==
  \E s \in Groups : ~RefusesPushArr(fifo, Len(s)) /\ Begin(c, Pushing(s))

fifo_peek_test(c) == ~RefusesPop(fifo) /\ Begin(c, Peeking)

fifo_pop_test(c) == ~RefusesPop(fifo) /\ Begin(c, Popping(1))

fifo_pop_arr_test(c) ==
  \E n \in 1 .. max : ~RefusesPopArr(fifo, n) /\ Begin(c, Popping(n))

End(c) == Running(c) /\ op' = [op EXCEPT ![c] = Idle]

push_commit(c) ==
  /\ op[c].kind = "push"
  /\ End(c)
  /\ fifo' = Pushed(fifo, op[c].group)
  /\ out' = out

\* Mutant: the slots are cleared before they are copied out.
pop_commit_clear_first(c) ==
  /\ op[c].kind = "pop"
  /\ End(c)
  /\ fifo' = Popped(fifo, op[c].count)
  /\ out' = Front([fifo EXCEPT !.buf = fifo'.buf], op[c].count)

pop_commit(c) ==
  /\ op[c].kind = "pop"
  /\ End(c)
  /\ out' = Front(fifo, op[c].count)
  /\ fifo' = Popped(fifo, op[c].count)

peek_commit(c) ==
  /\ op[c].kind = "peek"
  /\ End(c)
  /\ out' = Front(fifo, 1)
  /\ fifo' = fifo

Produce(c) == fifo_push_test(c) \/ fifo_push_arr_test(c) \/ push_commit(c)

Consume(c) ==
  \/ fifo_peek_test(c) \/ peek_commit(c)
  \/ fifo_pop_test(c) \/ fifo_pop_arr_test(c) \/ pop_commit(c)

Next == (\E c \in Producers : Produce(c)) \/ (\E c \in Consumers : Consume(c))

Spec == Init /\ [][Next]_vars

-----------------------------------------------------------------------------
(* Properties *)

Ops == {Idle, Peeking} \cup {Pushing(s) : s \in Groups} \cup {Popping(n) : n \in 1 .. max}

\* Types of the ring, of the operations in progress and of what was copied out.
TypeOK ==
  /\ fifo \in [buf : [Slots -> Elems \cup {Zero}], head : Slots, next : Slots, num : Nat]
  /\ op \in [Contexts -> Ops]
  /\ out \in Seq(Elems \cup {Zero}) /\ Len(out) =< max

\* The ring never counts more elements than it has slots.
WithinCapacity == fifo.num =< max

\* The write position is exactly num slots ahead of the read position, and every slot
\* outside the held elements is cleared: wrapping, group pushes and group pops keep the
\* three fields of the ring in step (fifo.c:37-42, 78-83, 97-116, 130-157).
RingConsistent ==
  /\ fifo.next = Ahead(fifo.head, fifo.num)
  /\ \A i \in Slots : Distance(fifo.head, i) >= fifo.num => fifo.buf[i] = Zero

\* The tests made with interrupts enabled still hold when the critical section runs.
TestsStayValid ==
  \A c \in Contexts :
    /\ op[c].kind = "push" => fifo.num + Len(op[c].group) =< max
    /\ op[c].kind \in {"pop", "peek"} => op[c].count =< fifo.num

\* One producer and one consumer: the commits are the operations of a bounded queue.
Queue == INSTANCE BoundedQueue WITH q <- Contents(fifo)

ImplementsQueue == Queue!Spec
=============================================================================
