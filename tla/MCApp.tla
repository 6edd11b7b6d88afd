-------------------------------- MODULE MCApp --------------------------------
(* A dialog asks for a path that no tab shows. *)
EXTENDS App

MCPath == 1..2
MCTyped == [r \in 1..MaxRequests |-> r + 1]
=============================================================================
