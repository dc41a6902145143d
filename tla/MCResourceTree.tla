--------------------------- MODULE MCResourceTree ---------------------------
(* An instance of ResourceTree for TLC: a cluster over a group and a       *)
(* balancer, the group over a template that it shares with nothing.        *)
EXTENDS ResourceTree

MCResource == {"cluster", "alb", "asg", "lt"}
MCSub == [cluster |-> <<"alb", "asg">>, alb |-> <<>>, asg |-> <<"lt">>, lt |-> <<>>]
=============================================================================
