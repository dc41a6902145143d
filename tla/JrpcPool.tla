------------------------------ MODULE JrpcPool ------------------------------
(***************************************************************************)
(* The two ways to a HttpStream: a client that is called by itself, and    *)
(* Pool.Call (lib/jrpc/pool.go) as the jrpc command uses it, with clients  *)
(* one after the other.  A client whose call fails is dropped with its     *)
(* address and the next address is tried.  The pool, its clients and their *)
(* calls have one context, and the clients a request timeout as long as    *)
(* that (NewJrpcClient), so that a call times out when the context ends.   *)
(***************************************************************************)
EXTENDS HttpStream, SequencesExt

CONSTANTS
    Ips,            \* the addresses given to the pool
    Healthy         \* those that answer whenever they are asked

ASSUME IpsAssumption == Ips \in Seq(STRING) /\ IsInjective(Ips)
ASSUME HealthyAssumption == Healthy \subseteq ToSet(Ips)
\* Every call of the pool has the context of the pool.
ASSUME PoolDeadlinesAssumption == Deadlines = Calls

VARIABLES
    ips,        \* the addresses left, in the order of the slice
    active,     \* the address in use, "" for none
    pool,       \* Pool.Call: "unused", "idle", "choose", "call"
    request,    \* the call of the client in progress
    result      \* of the call of the pool in progress, or of the last one

poolVars == <<ips, active, pool, request, result>>
clientVars == vars
allVars == <<clientVars, poolVars>>

PoolInit ==
    /\ Init
    /\ ips = Ips
    /\ active = ""
    /\ pool \in {"unused", "idle"}
    /\ request = None
    /\ result = "none"

(* A client without a pool. *)
Direct ==
    /\ pool = "unused"
    /\ Next
    /\ UNCHANGED poolVars

(* Calls bounds the calls of one client. *)
PoolCall ==
    /\ pool = "idle"
    /\ result # "panic"
    /\ active = "" \/ \E c \in Calls : pc[c] = "idle"
    /\ result' = "none"
    /\ pool' = "choose"
    /\ UNCHANGED <<clientVars, ips, active, request>>

(* A new client, with a Conn, a stream and a token source of its own. *)
Build ==
    /\ pc' = [c \in Calls |-> "idle"]
    /\ outcome' = [c \in Calls |-> "none"]
    /\ executed' = [c \in Calls |-> 0]
    /\ token' = IF Authed THEN "none" ELSE "valid"
    /\ replies' = <<>>
    /\ buf' = None
    /\ shut' = {}
    /\ sent' = [c \in Calls |-> None]
    /\ run' = "select"
    /\ reading' = None
    /\ rchan' = {}
    /\ UNCHANGED <<expired, closed>>

(* Without an active address: the first one, or an index out of range. *)
Choose ==
    /\ pool = "choose"
    /\ \/ /\ active = "" /\ ips = <<>>
          /\ result' = "panic" /\ pool' = "idle"
          /\ UNCHANGED <<clientVars, active>>
       \/ /\ active = "" /\ ips # <<>>
          /\ active' = ips[1] /\ Build
          /\ pool' = "call" /\ UNCHANGED result
       \/ /\ active # ""
          /\ pool' = "call" /\ UNCHANGED <<clientVars, active, result>>
    /\ UNCHANGED <<ips, request>>

Ask ==
    /\ pool = "call" /\ request = None
    /\ \E c \in Calls : Call(c) /\ request' = c
    /\ UNCHANGED <<ips, active, pool, result>>

(* While the context lasts the calls of a healthy address are answered. *)
ClientStep ==
    /\ pool # "unused"
    /\ (request # None /\ CallStep(request)) \/ RunStep
    /\ active \in Healthy /\ ~closed =>
          \A c \in Calls : outcome'[c] # "error"
    /\ UNCHANGED poolVars

(* Variant: a call does not have the context of the pool.                  *)
CtxEndsForClient ==
    /\ pool # "unused"
    /\ ~closed
    /\ closed' = TRUE
    /\ UNCHANGED <<pc, outcome, expired, executed, writeVars, runVars, poolVars>>

(* The end of the context: of the clients and of their calls. *)
CtxEnds ==
    /\ pool # "unused"
    /\ ~closed
    /\ closed' = TRUE
    /\ expired' = Calls
    /\ UNCHANGED <<pc, outcome, executed, writeVars, runVars, poolVars>>

(* Variant: the last address goes instead.                                 *)
DropLast(toDrop) ==
    /\ active' = IF active = toDrop THEN "" ELSE active
    /\ ips' = IF toDrop \in ToSet(ips) THEN Front(ips) ELSE ips

(* The address takes the place of the last one, which goes. *)
Drop(toDrop) ==
    /\ active' = IF active = toDrop THEN "" ELSE active
    /\ ips' = IF toDrop \in ToSet(ips)
              THEN LET i == CHOOSE i \in DOMAIN ips : ips[i] = toDrop
                   IN Front([ips EXCEPT ![i] = Last(ips)])
              ELSE ips

(***************************************************************************)
(* Errors that the pool takes for those of an address: no connection, the  *)
(* end of the context, a method the server does not have, a login that     *)
(* failed; and those it returns: any other status, response, or a refused  *)
(* password.                                                               *)
(***************************************************************************)
OfAddress ==
    IF outcome[request] = "answer" THEN {active \notin Healthy, FALSE}
    ELSE IF request \in expired THEN {TRUE} ELSE BOOLEAN

Failed ==
    /\ request # None /\ pc[request] = "returned"
    /\ TRUE \in OfAddress
    /\ Drop(active)
    /\ pool' = "choose"
    /\ request' = None
    /\ UNCHANGED <<clientVars, result>>

Returned ==
    /\ request # None /\ pc[request] = "returned"
    /\ FALSE \in OfAddress
    /\ result' = IF outcome[request] = "answer" THEN "answer" ELSE "error"
    /\ pool' = "idle"
    /\ request' = None
    /\ UNCHANGED <<clientVars, ips, active>>

PoolNext ==
    \/ Direct
    \/ PoolCall
    \/ Choose
    \/ Ask
    \/ ClientStep
    \/ CtxEnds
    \/ Failed
    \/ Returned

PoolSpec == PoolInit /\ [][PoolNext]_allVars

(***************************************************************************)
(* Goroutines that can run do, and contexts with a deadline reach it.  No  *)
(* more than one call is in progress at a time.                            *)
(***************************************************************************)
FairSpec ==
    /\ PoolSpec
    /\ WF_allVars(Direct /\ \E c \in Calls : Expire(c))
    /\ WF_allVars(Direct /\ \E c \in Calls : Runs(c))
    /\ WF_allVars(Direct /\ RunStep)
    /\ WF_allVars(Choose)
    /\ WF_allVars(Ask)
    /\ WF_allVars(ClientStep /\ request # None /\ Runs(request))
    /\ WF_allVars(ClientStep /\ RunStep)
    /\ WF_allVars(CtxEnds)
    /\ WF_allVars(Failed \/ Returned)

-----------------------------------------------------------------------------
(***************************************************************************)
(* Properties                                                              *)
(***************************************************************************)

(* Types of the variables. *)
PoolTypeOK ==
    /\ TypeOK
    /\ ips \in Seq(ToSet(Ips))
    /\ active \in ToSet(Ips) \union {""}
    /\ pool \in {"unused", "idle", "choose", "call"}
    /\ request \in Calls \union {None}
    /\ result \in {"none", "answer", "error", "panic"}

(***************************************************************************)
(* Dropping an address keeps the others, each once, whatever its place in  *)
(* the slice: while the context lasts, the healthy ones are all there, and *)
(* a call ends in the panic of an empty pool only if there are none.  One  *)
(* address that does not answer ends the context: the others are then      *)
(* dropped unasked.                                                        *)
(***************************************************************************)
HealthyAreKept ==
    /\ PoolTypeOK
    /\ IsInjective(ips)
    /\ active # "" => active \in ToSet(ips)
    /\ ~closed => Healthy \subseteq ToSet(ips)
    /\ result = "panic" => Healthy = {} \/ closed

(* Every call of the pool ends, whatever the servers do, unless the        *)
(* context ends when Run has not yet taken the pipe of the response.       *)
PoolCallsEnd ==
    pool = "choose" ~> (pool = "idle" \/ (request # None /\ Stuck(request)))

=============================================================================
