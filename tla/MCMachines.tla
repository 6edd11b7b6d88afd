----------------------------- MODULE MCMachines -----------------------------
(* Small instances of the remote machines for TLC. *)
EXTENDS Machines

CONSTANTS e1, e2, n1, n2, box

On(op, yes) == [op |-> op, label |-> "a", target |-> box, yes |-> yes]
MCCommand ==
  [e \in {e1, e2} |->
     IF e = e1 THEN {On("add", TRUE), On("add", FALSE)}
                    \cup {On(op, FALSE) : op \in {"start", "stop", "login"}}
     ELSE {On("remove", FALSE)}]
MCFirst == [t \in {box} |-> n1]
MCProto == <<1, 2, 2>>
=============================================================================
