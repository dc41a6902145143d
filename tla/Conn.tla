-------------------------------- MODULE Conn --------------------------------
(***************************************************************************)
(* lib/jsonrpc2: two ends of a connection over a plain or header stream,   *)
(* as in jsonrpc2_test.go.  Every call and notification, every handler and *)
(* the Run loop of each end is a goroutine of its own.                     *)
(*                                                                         *)
(* A request is handled at the other end by a goroutine that first waits   *)
(* for the nextRequest channel of the request before it to be closed.  The *)
(* user's handler may call Parallel and Reply as often as it likes, or not *)
(* at all, and anyone may Cancel a request that is being handled.          *)
(***************************************************************************)
EXTENDS Naturals, Sequences, FiniteSets

CONSTANTS
    Peer,       \* the two ends
    Request,    \* the calls and notifications of a run
    To,         \* To[r]: the end that handles r; the other one makes it
    Notify,     \* the requests that are notifications
    MaxFaults,  \* bound: messages that fail to unmarshal, which Run skips,
                \* and ends whose stream fails
    Deadlines   \* the calls whose context ends at some time

ASSUME PeerAssumption == IsFiniteSet(Peer) /\ \A p \in Peer : \E q \in Peer : q # p
ASSUME RequestAssumption ==
    /\ To \in [Request -> Peer]
    /\ Notify \subseteq Request
    /\ Deadlines \subseteq Request
ASSUME BoundAssumption == MaxFaults \in Nat

VARIABLES
    pc,         \* the goroutine of Call or Notify
    outcome,    \* what it returned
    expired,    \* requests whose caller's context is done
    pending,    \* the pending maps
    rchan,      \* the calls with a response in their channel, of capacity 1
    wire,       \* wire[p]: the messages on the way to p
    run,        \* run[p]: the Run loop
    found,      \* found[p]: the call whose channel Run has looked up
    order,      \* order[p]: the requests in the order Run read them
    state,      \* requestState of a request, and "none" before Run reads it
    handling,   \* the handling maps
    cancelled,  \* requests whose context was cancelled by Cancel
    writing,    \* requests whose Reply is about to write to the stream
    deferred,   \* requests whose handler has returned
    lost        \* messages skipped

callVars == <<pc, outcome, expired, pending>>
readVars == <<run, found, order, lost>>
handleVars == <<state, handling, cancelled, writing, deferred>>
vars == <<callVars, rchan, wire, readVars, handleVars>>

Caller(r) == CHOOSE p \in Peer : p # To[r]
Message(kind, r) == [kind |-> kind, r |-> r]

Init ==
    /\ pc = [r \in Request |-> "idle"]
    /\ outcome = [r \in Request |-> "none"]
    /\ expired = {}
    /\ pending = {}
    /\ rchan = {}
    /\ wire = [p \in Peer |-> <<>>]
    /\ run = [p \in Peer |-> "reading"]
    /\ found = [p \in Peer |-> {}]
    /\ order = [p \in Peer |-> <<>>]
    /\ state = [r \in Request |-> "none"]
    /\ handling = {}
    /\ cancelled = {}
    /\ writing = {}
    /\ deferred = {}
    /\ lost = 0

-----------------------------------------------------------------------------
(***************************************************************************)
(* Call and Notify                                                         *)
(***************************************************************************)

(* A call adds itself to the pending map before it sends. *)
Call(r) ==
    /\ pc[r] = "idle"
    /\ pc' = [pc EXCEPT ![r] = "send"]
    /\ pending' = IF r \in Notify THEN pending ELSE pending \union {r}
    /\ UNCHANGED <<outcome, expired, rchan, wire, readVars, handleVars>>

(* Variant: a call that returns stays in the pending map.                  *)
ReturnsPending(r, how) ==
    /\ pc' = [pc EXCEPT ![r] = "returned"]
    /\ outcome' = [outcome EXCEPT ![r] = how]
    /\ UNCHANGED pending

(* Deferred: the call leaves the pending map, whatever it returns. *)
Returns(r, how) ==
    /\ pc' = [pc EXCEPT ![r] = "returned"]
    /\ outcome' = [outcome EXCEPT ![r] = how]
    /\ pending' = pending \ {r}

(* Write of the stream fails when the context is done or the other end has *)
(* closed, and may fail when its own end has.                              *)
WriteFails(r, p) == r \in expired \/ run[p] = "ended"

Send(r) ==
    /\ pc[r] = "send"
    /\ ~WriteFails(r, To[r])
    /\ wire' = [wire EXCEPT ![To[r]] = Append(@, Message("request", r))]
    /\ IF r \in Notify THEN Returns(r, "sent")
       ELSE pc' = [pc EXCEPT ![r] = "wait"] /\ UNCHANGED <<outcome, pending>>
    /\ UNCHANGED <<expired, rchan, readVars, handleVars>>

SendFails(r) ==
    /\ pc[r] = "send"
    /\ WriteFails(r, To[r]) \/ run[Caller(r)] = "ended"
    /\ Returns(r, "error")
    /\ UNCHANGED <<expired, rchan, wire, readVars, handleVars>>

(* The select of Call: a response, or the end of the context. *)
Receive(r) ==
    /\ pc[r] = "wait"
    /\ r \in rchan
    /\ rchan' = rchan \ {r}
    /\ Returns(r, "answer")
    /\ UNCHANGED <<expired, wire, readVars, handleVars>>

(* Variant: a call leaves it to Run to end it.                             *)
GiveUpWhileRunning(r) ==
    /\ pc[r] = "wait"
    /\ r \in expired
    /\ run[Caller(r)] = "reading"
    /\ Returns(r, "error")
    /\ UNCHANGED <<expired, rchan, wire, readVars, handleVars>>

GiveUp(r) ==
    /\ pc[r] = "wait"
    /\ r \in expired
    /\ Returns(r, "error")
    /\ UNCHANGED <<expired, rchan, wire, readVars, handleVars>>

Expire(r) ==
    /\ r \in Deadlines \ expired
    /\ pc[r] \in {"send", "wait"}
    /\ expired' = expired \union {r}
    /\ UNCHANGED <<pc, outcome, pending, rchan, wire, readVars, handleVars>>

-----------------------------------------------------------------------------
(***************************************************************************)
(* Run                                                                     *)
(***************************************************************************)

Faults == lost + Cardinality({p \in Peer : run[p] = "ended"})

Reads(p) == run[p] = "reading" /\ found[p] = {} /\ wire[p] # <<>>
FirstMessage(p) == Head(wire[p])
Consumed(p) == wire' = [wire EXCEPT ![p] = Tail(@)]

(* A request: a goroutine for it, and a new nextRequest for the one after. *)
RunRequest(p) ==
    /\ Reads(p)
    /\ FirstMessage(p).kind = "request"
    /\ Consumed(p)
    /\ LET r == FirstMessage(p).r IN
          /\ state' = [state EXCEPT ![r] = "waiting"]
          /\ order' = [order EXCEPT ![p] = Append(@, r)]
          /\ handling' = IF r \in Notify THEN handling ELSE handling \union {r}
    /\ UNCHANGED <<callVars, rchan, run, found, lost, cancelled, writing, deferred>>

(* A response: the channel of its call, if the call is still pending. *)
RunLookUp(p) ==
    /\ Reads(p)
    /\ FirstMessage(p).kind = "response"
    /\ Consumed(p)
    /\ found' = [found EXCEPT ![p] = {FirstMessage(p).r} \intersect pending]
    /\ UNCHANGED <<callVars, rchan, run, order, lost, handleVars>>

(* The send to it, with the map unlocked again; it blocks on a full channel. *)
RunDeliver(p) ==
    /\ found[p] # {}
    /\ found[p] \intersect rchan = {}
    /\ rchan' = rchan \union found[p]
    /\ found' = [found EXCEPT ![p] = {}]
    /\ UNCHANGED <<callVars, wire, run, order, lost, handleVars>>

(* Variant: one skipped message too many.                                  *)
RunSkipOneMore(p) ==
    /\ Reads(p)
    /\ Faults <= MaxFaults
    /\ lost' = lost + 1
    /\ Consumed(p)
    /\ UNCHANGED <<callVars, rchan, run, found, order, handleVars>>

(* A message that is not JSON-RPC is reported to the handlers and skipped. *)
RunSkip(p) ==
    /\ Reads(p)
    /\ Faults < MaxFaults
    /\ lost' = lost + 1
    /\ Consumed(p)
    /\ UNCHANGED <<callVars, rchan, run, found, order, handleVars>>

(* Read fails and Run returns; nobody who waits for a response is told. *)
RunEnds(p) ==
    /\ run[p] = "reading"
    /\ found[p] = {}
    /\ Faults < MaxFaults
    /\ run' = [run EXCEPT ![p] = "ended"]
    /\ UNCHANGED <<callVars, rchan, wire, found, order, lost, handleVars>>

-----------------------------------------------------------------------------
(***************************************************************************)
(* Handling                                                                *)
(***************************************************************************)

(* Variant: the next request is let go when a handler begins.              *)
ReleasedAtOnce(r) == state[r] \notin {"none", "waiting"}

(* nextRequest of a request is closed by Parallel. *)
Released(r) == state[r] \in {"parallel", "replied", "done"}

Before(r) ==
    LET p == To[r] IN
    {order[p][i] : i \in {j \in 1 .. Len(order[p]) - 1 : order[p][j + 1] = r}}

(* Variant: the goroutine does not wait.                                   *)
StartAtOnce(r) ==
    /\ state[r] = "waiting"
    /\ state' = [state EXCEPT ![r] = "serial"]
    /\ UNCHANGED <<callVars, rchan, wire, readVars, handling, cancelled, writing, deferred>>

(* The goroutine waits for the request read before its own. *)
Start(r) ==
    /\ state[r] = "waiting"
    /\ \A q \in Before(r) : Released(q)
    /\ state' = [state EXCEPT ![r] = "serial"]
    /\ UNCHANGED <<callVars, rchan, wire, readVars, handling, cancelled, writing, deferred>>

InHandler(r) == state[r] \in {"serial", "parallel", "replied"} /\ r \notin writing

Parallel(r) ==
    /\ InHandler(r)
    /\ state[r] = "serial"
    /\ r \notin deferred
    /\ state' = [state EXCEPT ![r] = "parallel"]
    /\ UNCHANGED <<callVars, rchan, wire, readVars, handling, cancelled, writing, deferred>>

(* Variants: a reply that does not look at the state of the request, and   *)
(* a deferred function that does not reply for the handler.                *)
ReplyAgain(r) ==
    /\ InHandler(r)
    /\ r \notin Notify
    /\ state' = [state EXCEPT ![r] = "replied"]
    /\ writing' = writing \union {r}
    /\ UNCHANGED <<callVars, rchan, wire, readVars, handling, cancelled, deferred>>

ReplyByHandler(r) ==
    /\ InHandler(r)
    /\ state[r] # "replied"
    /\ r \notin Notify \union deferred
    /\ state' = [state EXCEPT ![r] = "replied"]
    /\ writing' = writing \union {r}
    /\ UNCHANGED <<callVars, rchan, wire, readVars, handling, cancelled, deferred>>

(***************************************************************************)
(* Reply by the handler, or by the deferred function for a handler that    *)
(* did not reply.  A second Reply, or one to a notification, is an error   *)
(* that changes nothing.                                                   *)
(***************************************************************************)
Reply(r) ==
    /\ InHandler(r)
    /\ state[r] # "replied"
    /\ r \notin Notify
    /\ state' = [state EXCEPT ![r] = "replied"]
    /\ writing' = writing \union {r}
    /\ UNCHANGED <<callVars, rchan, wire, readVars, handling, cancelled, deferred>>

(* The response is written with the context of the request: not at all     *)
(* when that was cancelled.                                                *)
WriteReply(r) ==
    /\ r \in writing
    /\ writing' = writing \ {r}
    /\ \/ /\ r \in cancelled \/ \E p \in Peer : run[p] = "ended"
          /\ UNCHANGED wire
       \/ /\ r \notin cancelled /\ run[Caller(r)] = "reading"
          /\ wire' = [wire EXCEPT ![Caller(r)] = Append(@, Message("response", r))]
    /\ UNCHANGED <<callVars, rchan, readVars, state, handling, cancelled, deferred>>

(* The handler returns. *)
Delivered(r) ==
    /\ InHandler(r)
    /\ r \notin deferred
    /\ deferred' = deferred \union {r}
    /\ handling' = handling \ {r}
    /\ UNCHANGED <<callVars, rchan, wire, readVars, state, cancelled, writing>>

(* The end of the deferred function: Parallel, then the context ends. *)
Done(r) ==
    /\ InHandler(r)
    /\ r \in deferred
    /\ r \in Notify \/ state[r] = "replied"
    /\ state' = [state EXCEPT ![r] = "done"]
    /\ UNCHANGED <<callVars, rchan, wire, readVars, handling, cancelled, writing, deferred>>

(* Cancel, by whoever knows the id. *)
Cancel(r) ==
    /\ r \in handling \ cancelled
    /\ cancelled' = cancelled \union {r}
    /\ UNCHANGED <<callVars, rchan, wire, readVars, state, handling, writing, deferred>>

-----------------------------------------------------------------------------
Next ==
    \/ \E r \in Request :
          \/ Call(r)
          \/ Send(r)
          \/ SendFails(r)
          \/ Receive(r)
          \/ GiveUp(r)
          \/ Expire(r)
          \/ Start(r)
          \/ Parallel(r)
          \/ Reply(r)
          \/ WriteReply(r)
          \/ Delivered(r)
          \/ Done(r)
          \/ Cancel(r)
    \/ \E p \in Peer :
          \/ RunRequest(p)
          \/ RunLookUp(p)
          \/ RunDeliver(p)
          \/ RunSkip(p)
          \/ RunEnds(p)

Spec == Init /\ [][Next]_vars

(***************************************************************************)
(* Goroutines that can run do; handlers return; contexts with a deadline   *)
(* reach it.  Nobody has to call, cancel, or fail.  A handler owes no      *)
(* Parallel and no Reply: a deferred Reply makes up for the latter.        *)
(***************************************************************************)
Fairness ==
    /\ \A r \in Request :
          /\ WF_vars(Send(r) \/ SendFails(r))
          /\ WF_vars(Receive(r) \/ GiveUp(r))
          /\ WF_vars(Expire(r))
          /\ WF_vars(Start(r))
          /\ WF_vars(WriteReply(r))
          /\ WF_vars(Delivered(r))
          /\ WF_vars(r \in deferred /\ Reply(r))
          /\ WF_vars(Done(r))
    /\ \A p \in Peer : WF_vars(RunRequest(p) \/ RunLookUp(p) \/ RunDeliver(p))

FairSpec == Spec /\ Fairness

-----------------------------------------------------------------------------
(***************************************************************************)
(* Properties                                                              *)
(***************************************************************************)

(* Types of the variables. *)
TypeOK ==
    /\ pc \in [Request -> {"idle", "send", "wait", "returned"}]
    /\ outcome \in [Request -> {"none", "sent", "answer", "error"}]
    /\ pending \subseteq Request /\ expired \subseteq Deadlines
    /\ rchan \subseteq Request
    /\ wire \in [Peer -> Seq([kind : {"request", "response"}, r : Request])]
    /\ run \in [Peer -> {"reading", "ended"}]
    /\ found \in [Peer -> SUBSET Request]
    /\ order \in [Peer -> Seq(Request)]
    /\ state \in [Request -> {"none", "waiting", "serial", "parallel", "replied", "done"}]
    /\ handling \subseteq Request /\ cancelled \subseteq Request
    /\ writing \subseteq Request /\ deferred \subseteq Request
    /\ lost \in 0 .. MaxFaults

(***************************************************************************)
(* The send of Run to the channel of a call never blocks, even when the    *)
(* call gives up between the lookup and the send: the channel has room for *)
(* one response, and no more than one is ever written.  A blocked Run      *)
(* would stop every other call and handler of its end.                     *)
(***************************************************************************)
RunNeverBlocks == \A p \in Peer : found[p] \intersect rchan = {}

(***************************************************************************)
(* The channels that requests hand on keep the order in which Run read the *)
(* requests: a handler has begun only when the one before it let it, so    *)
(* that at most one of each end has not yet gone parallel.                 *)
(***************************************************************************)
Begun(r) == state[r] \notin {"none", "waiting"}

HandledInOrder ==
    \A p \in Peer : \A i, j \in 1 .. Len(order[p]) :
        i < j /\ Begun(order[p][j]) => Released(order[p][i])

(***************************************************************************)
(* Nothing is left behind: only a call that waits for its response is      *)
(* pending, and only a call whose handler runs can be cancelled.           *)
(***************************************************************************)
NothingLeft ==
    /\ \A r \in pending : pc[r] \in {"send", "wait"}
    /\ \A r \in handling : state[r] \notin {"none", "done"} /\ r \notin deferred

(***************************************************************************)
(* The connection does what RequestResponse says.  The response in the     *)
(* channel of a call counts as given when Reply sets the state.            *)
(***************************************************************************)
Stage(r) ==
    IF pc[r] = "idle" THEN "idle"
    ELSE IF ~Begun(r) THEN "asked"
    ELSE IF state[r] = "serial" THEN "serial" ELSE "released"

Answered == {r \in Request \ Notify : state[r] \in {"replied", "done"}}

Abstract == INSTANCE RequestResponse WITH
    stage <- [r \in Request |-> Stage(r)],
    answered <- Answered

RequestResponseSpec == Abstract!Spec

(***************************************************************************)
(* A call with a deadline returns whatever happens: lost messages, a       *)
(* stream that fails at either end, a reply that is dropped.               *)
(***************************************************************************)
DeadlinesHold == \A r \in Deadlines : pc[r] # "idle" ~> pc[r] = "returned"

(***************************************************************************)
(* On a stream that works, every call returns, without a deadline too,     *)
(* unless someone cancelled it at the other end: its reply is then never   *)
(* written.  The handlers of the requests before it need not reply.        *)
(***************************************************************************)
StreamWorks == Faults = 0

CallsReturn ==
    \A r \in Request :
        pc[r] # "idle" ~> pc[r] = "returned" \/ r \in cancelled \/ ~StreamWorks

=============================================================================
