--------------------------- MODULE MCConsolePower ----------------------------
(* Values for TLC: two attempts to open the relays stand for five.         *)
EXTENDS ConsolePower
=============================================================================
