----------------------------- MODULE MCJrpcPool -----------------------------
(* An instance of JrpcPool for TLC. *)
EXTENDS JrpcPool

MCIps == <<"ip1", "ip2", "ip3", "ip4">>
=============================================================================
