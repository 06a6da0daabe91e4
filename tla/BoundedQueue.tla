---------------------------- MODULE BoundedQueue ----------------------------
(***************************************************************************)
(* What a Fifo promises its users: a first-in first-out queue that never   *)
(* holds more than `max' elements, and whose group operations are all or   *)
(* nothing.                                                                *)
(***************************************************************************)
EXTENDS Integers, Sequences

CONSTANTS Groups,   \* the groups of elements users push, as sequences
          max       \* capacity

VARIABLES q,        \* the elements held, oldest first
          out       \* the elements the last pop or peek returned

Init == q = << >> /\ out = << >>

Push(s) ==
  /\ Len(q) + Len(s) =< max
  /\ q' = q \o s
  /\ out' = out

Pop(n) ==
  /\ n =< Len(q)
  /\ out' = SubSeq(q, 1, n)
  /\ q' = SubSeq(q, n + 1, Len(q))

Peek ==
  /\ q # << >>
  /\ out' = SubSeq(q, 1, 1)
  /\ q' = q

Next ==
  \/ \E s \in Groups : Push(s)
  \/ \E n \in 1 .. max : Pop(n)
  \/ Peek

Spec == Init /\ [][Next]_<<q, out>>
=============================================================================
