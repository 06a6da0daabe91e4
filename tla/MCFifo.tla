------------------------------- MODULE MCFifo -------------------------------
(* Values for TLC: a ring of three slots, two distinguishable elements.    *)
EXTENDS Fifo

MCGroups == {<<"a">>, <<"b">>, <<"a", "b">>, <<"b", "a", "a">>}
MCSingles == {<<"a">>, <<"b">>}
MCPrio == [c \in Contexts |-> CASE c = "main" -> 0 [] c = "timer" -> 1 [] c = "can" -> 2]
=============================================================================
