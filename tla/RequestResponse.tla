--------------------------- MODULE RequestResponse ---------------------------
(***************************************************************************)
(* What a JSON-RPC connection promises its two ends: a request is handled  *)
(* at most once, one request at a time until its handler lets the next one *)
(* begin; a call is answered at most once, by its own handler; and a call  *)
(* returns the answer only if there is one.                                *)
(***************************************************************************)
CONSTANTS
    Request,    \* the requests of a run
    To          \* To[r]: the end that handles request r

VARIABLES
    stage,      \* of a request: "idle", "asked", "serial", "released"
    answered,   \* the requests that have been replied to
    outcome     \* how a request ended for who made it

rrVars == <<stage, answered, outcome>>

Init ==
    /\ stage = [r \in Request |-> "idle"]
    /\ answered = {}
    /\ outcome = [r \in Request |-> "none"]

Ask(r) ==
    /\ stage[r] = "idle"
    /\ stage' = [stage EXCEPT ![r] = "asked"]
    /\ UNCHANGED <<answered, outcome>>

(* The handler of r has its end for itself. *)
Begin(r) ==
    /\ stage[r] = "asked"
    /\ \A s \in Request : To[s] = To[r] => stage[s] # "serial"
    /\ stage' = [stage EXCEPT ![r] = "serial"]
    /\ UNCHANGED <<answered, outcome>>

Release(r) ==
    /\ stage[r] = "serial"
    /\ stage' = [stage EXCEPT ![r] = "released"]
    /\ UNCHANGED <<answered, outcome>>

(* A reply releases the end as well. *)
Answer(r) ==
    /\ stage[r] \in {"serial", "released"}
    /\ r \notin answered
    /\ stage' = [stage EXCEPT ![r] = "released"]
    /\ answered' = answered \union {r}
    /\ UNCHANGED outcome

Return(r, how) ==
    /\ stage[r] # "idle"
    /\ outcome[r] = "none"
    /\ how = "answer" => r \in answered
    /\ outcome' = [outcome EXCEPT ![r] = how]
    /\ UNCHANGED <<stage, answered>>

Next ==
    \E r \in Request :
        \/ Ask(r)
        \/ Begin(r)
        \/ Release(r)
        \/ Answer(r)
        \/ \E how \in {"answer", "sent", "error"} : Return(r, how)

Spec == Init /\ [][Next]_rrVars
=============================================================================
