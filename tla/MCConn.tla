------------------------------- MODULE MCConn -------------------------------
(* Instance of Conn for TLC: a call and a notification to b, a call back. *)
EXTENDS Conn

MCTo == [r \in Request |-> IF r = "back" THEN "a" ELSE "b"]
=============================================================================
