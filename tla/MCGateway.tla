------------------------------ MODULE MCGateway ------------------------------
(***************************************************************************)
(* An instance of Gateway for TLC: two streams, of one agent or of two, one*)
(* of which can be refused by the first sink and overtake the other on the *)
(* way to the second, where they wait for each other.                      *)
(***************************************************************************)
EXTENDS Gateway

DropThenBlock == <<"drop", "block">>
=============================================================================
