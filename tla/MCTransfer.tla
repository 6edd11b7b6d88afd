----------------------------- MODULE MCTransfer -----------------------------
(* A local connection and a remote one, for TLC. *)
EXTENDS Transfer

Ask(c, d, how) == [from |-> c, to |-> d, conflict |-> how]
MCAsked ==
  {Ask("a", "b", "replace"), Ask("b", "a", "fail"), Ask("a", "a", "replace")}

MCKind == [c \in Conn |-> IF c = "a" THEN "embedded" ELSE "ssh"]
==============================================================================
