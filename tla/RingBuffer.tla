----------------------------- MODULE RingBuffer -----------------------------
(***************************************************************************)
(* The storage of libraries/ms-common/src/fifo.c: a ring of `max' slots, a  *)
(* read position `head', a write position `next' and an element count.      *)
(* A ring is a record; the operators below are the bodies of the critical   *)
(* sections of fifo.c, the capacity tests that precede them are separate    *)
(* operators because the code evaluates them with interrupts still enabled. *)
(* The pointers of the code are slot numbers 0 .. max-1, and `Zero' is what *)
(* memset leaves in a slot.                                                 *)
(***************************************************************************)
EXTENDS Integers, Sequences

CONSTANTS Zero,     \* content of a cleared slot
          max       \* max_elems

ASSUME MaxAssumption == max \in Nat \ {0}

Slots == 0 .. max - 1

\* fifo_init_impl: an empty ring, both positions at the start of the buffer.
fifo_init == [buf |-> [i \in Slots |-> Zero], head |-> 0, next |-> 0, num |-> 0]

\* The slot n places after slot p: positions reaching `end' restart at `buffer'.
Ahead(p, n) == IF p + n >= max THEN p + n - max ELSE p + n

\* How many places slot i lies after slot p.
Distance(p, i) == IF i >= p THEN i - p ELSE i - p + max

\* Mutant: a group fits when one slot is free.
RefusesPushArr_one_slot(f, n) == f.num >= max

\* The test of fifo_push_impl is an equality, the one of fifo_push_arr_impl an inequality.
RefusesPush(f) == f.num = max
RefusesPushArr(f, n) == f.num + n > max
RefusesPop(f) == f.num = 0
RefusesPopArr(f, n) == f.num < n

\* Critical section of fifo_push_impl and fifo_push_arr_impl (s of length one for the former).
Pushed(f, s) ==
  [buf  |-> [i \in Slots |-> IF Distance(f.next, i) < Len(s) THEN s[Distance(f.next, i) + 1]
                                                             ELSE f.buf[i]],
   head |-> f.head,
   next |-> Ahead(f.next, Len(s)),
   num  |-> f.num + Len(s)]

\* What the memcpy of fifo_peek_impl, fifo_pop_impl and fifo_pop_arr_impl copies out.
Front(f, n) == [i \in 1 .. n |-> f.buf[Ahead(f.head, i - 1)]]

\* Mutant: the slots are read but not cleared.
Popped_not_cleared(f, n) ==
  [f EXCEPT !.head = Ahead(f.head, n), !.num = f.num - n]

\* Critical section of fifo_pop_impl and fifo_pop_arr_impl: clear n slots, move the head.
Popped(f, n) ==
  [buf  |-> [i \in Slots |-> IF Distance(f.head, i) < n THEN Zero ELSE f.buf[i]],
   head |-> Ahead(f.head, n),
   next |-> f.next,
   num  |-> f.num - n]

\* The elements a ring holds, oldest first, as long as num <= max.
Contents(f) == Front(f, f.num)
=============================================================================
