----------------------------- MODULE HttpStream -----------------------------
(***************************************************************************)
(* Calls of a BaseClient (lib/jrpc): Conn.Call over a stream that makes a  *)
(* HTTP request of every message.  Write posts the message, puts a pipe    *)
(* for the response into the channel replies, and copies the body of the   *)
(* response through one buffer of the stream into the pipe; the Run loop   *)
(* takes the pipes out of replies, reads each to its end and hands the     *)
(* response to its call.  The first request makes the token source log in. *)
(* One goroutine makes the calls, one after the other.                     *)
(***************************************************************************)
EXTENDS Naturals, Sequences, FiniteSets

CONSTANTS
    Calls,
    Authed,     \* the client logs in
    Deadlines,  \* the calls with a request timeout
    MayClose    \* the context of the client may end

ASSUME OptionsAssumption == Deadlines \subseteq Calls /\ {Authed, MayClose} \subseteq BOOLEAN

None == "none"
ASSUME NoneAssumption == None \notin Calls

VARIABLES
    pc,         \* Call, and Write inside it
    outcome,    \* what Call returned
    expired,    \* calls whose context is done
    executed,   \* how often the server carried the call out; at most 2 counted
    token,      \* "none", "login" while a goroutine holds the token source, "valid"
    replies,    \* the pipes in the channel, each by its call; capacity 1
    buf,        \* whose response is in the buffer of the stream
    shut,       \* the pipes whose writer is closed
    sent,       \* what went through the pipe of a call: the response of a call
    run,        \* the Run loop: "select", "read", "deliver", "ended"
    reading,    \* the pipe Run reads
    rchan,      \* responses in the channels of the calls
    closed      \* the context of the client is done

writeVars == <<token, replies, buf, shut, sent>>
runVars == <<run, reading, rchan>>
vars == <<pc, outcome, expired, executed, writeVars, runVars, closed>>

Init ==
    /\ pc = [c \in Calls |-> "idle"]
    /\ outcome = [c \in Calls |-> "none"]
    /\ expired = {}
    /\ executed = [c \in Calls |-> 0]
    /\ token = IF Authed THEN "none" ELSE "valid"
    /\ replies = <<>>
    /\ buf = None
    /\ shut = {}
    /\ sent = [c \in Calls |-> None]
    /\ run = "select"
    /\ reading = None
    /\ rchan = {}
    /\ closed = FALSE

Active(c) == pc[c] \notin {"idle", "returned"}
Pending == {c \in Calls : Active(c)}
Goes(c, to) == pc' = [pc EXCEPT ![c] = to]
Returns(c, how) == Goes(c, "returned") /\ outcome' = [outcome EXCEPT ![c] = how]

-----------------------------------------------------------------------------
(***************************************************************************)
(* Call and Write                                                          *)
(***************************************************************************)

(* The calls of a run differ in nothing: they are taken in one order.      *)
NextCall == CHOOSE c \in Calls : pc[c] = "idle"

Call(c) ==
    /\ pc[c] = "idle" /\ c = NextCall
    /\ Pending = {}
    /\ Goes(c, "post")
    /\ UNCHANGED <<outcome, expired, executed, writeVars, runVars, closed>>

(* The transport asks the token source for a token first; one at a time,   *)
(* and without a look at the context of the call.                          *)
Login(c) ==
    /\ pc[c] = "post"
    /\ token = "none"
    /\ token' = "login"
    /\ Goes(c, "login")
    /\ UNCHANGED <<outcome, expired, executed, replies, buf, shut, sent, runVars, closed>>

(* user_login is a call with the context of the client, not that of c.     *)
LoginReturns(c) ==
    /\ pc[c] = "login"
    /\ \/ token' = "valid" /\ Goes(c, "post") /\ UNCHANGED outcome
       \/ token' = "none" /\ Returns(c, "error")
    /\ UNCHANGED <<expired, executed, replies, buf, shut, sent, runVars, closed>>

LoginCancelled(c) ==
    /\ pc[c] = "login" /\ closed
    /\ token' = "none"
    /\ Returns(c, "error")
    /\ UNCHANGED <<expired, executed, replies, buf, shut, sent, runVars, closed>>

Execute(c) ==
    \E done \in BOOLEAN :
        executed' = [executed EXCEPT ![c] = IF done /\ @ < 2 THEN @ + 1 ELSE @]

(* RoundTrip: a 2xx response. *)
Accepted(c) ==
    /\ pc[c] = "post" /\ c \notin expired /\ token = "valid"
    /\ executed' = [executed EXCEPT ![c] = IF @ < 2 THEN @ + 1 ELSE @]
    /\ Goes(c, "queue")
    /\ UNCHANGED <<outcome, expired, writeVars, runVars, closed>>

(* A 500, 502 or 503, after which the request is posted again. *)
Retry(c) ==
    /\ pc[c] = "post" /\ c \notin expired /\ token = "valid"
    /\ Execute(c)
    /\ UNCHANGED <<pc, outcome, expired, writeVars, runVars, closed>>

(* Another status, no connection, or the end of the context. *)
Rejected(c) ==
    /\ pc[c] = "post"
    /\ IF c \in expired THEN token # "login" /\ UNCHANGED executed
       ELSE token = "valid" /\ Execute(c)
    /\ Returns(c, "error")
    /\ UNCHANGED <<expired, writeVars, runVars, closed>>

(* The select on the channel replies and the context. *)
Queue(c) ==
    /\ pc[c] = "queue"
    /\ Len(replies) < 1
    /\ replies' = Append(replies, c)
    /\ Goes(c, "body")
    /\ UNCHANGED <<outcome, expired, executed, token, buf, shut, sent, runVars, closed>>

(* Variant: the error of the context is dropped.                           *)
QueueGivesUpQuietly(c) ==
    /\ pc[c] = "queue" /\ c \in expired
    /\ Returns(c, "answer")
    /\ UNCHANGED <<expired, executed, writeVars, runVars, closed>>

QueueGivesUp(c) ==
    /\ pc[c] = "queue" /\ c \in expired
    /\ Returns(c, "error")
    /\ UNCHANGED <<expired, executed, writeVars, runVars, closed>>

(***************************************************************************)
(* io.CopyBuffer: the body into the buffer, the buffer into the pipe, when *)
(* its reader is there.  The body is read with the context of the call,    *)
(* the pipe is written without one.                                        *)
(***************************************************************************)
ReadBody(c) ==
    /\ pc[c] = "body"
    /\ buf' = c
    /\ Goes(c, "pipe")
    /\ UNCHANGED <<outcome, expired, executed, token, replies, shut, sent, runVars, closed>>

(* Variant: the pipe is left open.                                         *)
BodyFailsOpen(c) ==
    /\ pc[c] = "body"
    /\ c \in expired
    /\ Returns(c, "error")
    /\ UNCHANGED <<expired, executed, token, replies, buf, shut, sent, runVars, closed>>

BodyFails(c) ==
    /\ pc[c] = "body"
    /\ c \in expired
    /\ shut' = shut \union {c}
    /\ Returns(c, "error")
    /\ UNCHANGED <<expired, executed, token, replies, buf, sent, runVars, closed>>

WritePipe(c) ==
    /\ pc[c] = "pipe"
    /\ run = "read" /\ reading = c
    /\ sent' = [sent EXCEPT ![c] = buf]
    /\ shut' = shut \union {c}
    /\ Goes(c, "wait")
    /\ UNCHANGED <<outcome, expired, executed, token, replies, buf, runVars, closed>>

(* The select of Call on the response and the context. *)
Receive(c) ==
    /\ pc[c] = "wait"
    /\ c \in rchan
    /\ rchan' = rchan \ {c}
    /\ Returns(c, "answer")
    /\ UNCHANGED <<expired, executed, writeVars, run, reading, closed>>

GiveUp(c) ==
    /\ pc[c] = "wait" /\ c \in expired
    /\ Returns(c, "error")
    /\ UNCHANGED <<expired, executed, writeVars, runVars, closed>>

Expire(c) ==
    /\ c \in Deadlines \ expired
    /\ Active(c)
    /\ expired' = expired \union {c}
    /\ UNCHANGED <<pc, outcome, executed, writeVars, runVars, closed>>

Close ==
    /\ MayClose
    /\ ~closed
    /\ closed' = TRUE
    /\ UNCHANGED <<pc, outcome, expired, executed, writeVars, runVars>>

-----------------------------------------------------------------------------
(***************************************************************************)
(* Run                                                                     *)
(***************************************************************************)

RunTakes ==
    /\ run = "select"
    /\ replies # <<>>
    /\ run' = "read"
    /\ reading' = Head(replies)
    /\ replies' = Tail(replies)
    /\ UNCHANGED <<pc, outcome, expired, executed, token, buf, shut, sent, rchan, closed>>

(* The end of the pipe: a response of a call that is pending, or nothing   *)
(* that unmarshals.                                                        *)
RunReads ==
    /\ run = "read"
    /\ reading \in shut
    /\ IF sent[reading] \in Pending
       THEN run' = "deliver" /\ reading' = sent[reading]
       ELSE run' = "select" /\ reading' = None
    /\ UNCHANGED <<pc, outcome, expired, executed, writeVars, rchan, closed>>

RunDelivers ==
    /\ run = "deliver"
    /\ reading \notin rchan
    /\ rchan' = rchan \union {reading}
    /\ run' = "select"
    /\ reading' = None
    /\ UNCHANGED <<pc, outcome, expired, executed, writeVars, closed>>

RunEnds ==
    /\ run = "select"
    /\ closed
    /\ run' = "ended"
    /\ UNCHANGED <<pc, outcome, expired, executed, writeVars, reading, rchan, closed>>

(* What the goroutine of a call, and that of Run, does next. *)
CallStep(c) ==
    \/ Login(c)
    \/ LoginReturns(c)
    \/ LoginCancelled(c)
    \/ Accepted(c)
    \/ Retry(c)
    \/ Rejected(c)
    \/ Queue(c)
    \/ QueueGivesUp(c)
    \/ ReadBody(c)
    \/ BodyFails(c)
    \/ WritePipe(c)
    \/ Receive(c)
    \/ GiveUp(c)

RunStep ==
    \/ RunTakes
    \/ RunReads
    \/ RunDelivers
    \/ RunEnds

Next ==
    \/ \E c \in Calls : Call(c) \/ CallStep(c) \/ Expire(c)
    \/ Close
    \/ RunStep

(***************************************************************************)
(* Goroutines that can run do.  The server owes nothing: not a response,   *)
(* not a login.                                                            *)
(***************************************************************************)
Runs(c) ==
    \/ Login(c)
    \/ c \in expired /\ Rejected(c)
    \/ LoginCancelled(c)
    \/ Queue(c) \/ QueueGivesUp(c)
    \/ ReadBody(c) \/ BodyFails(c)
    \/ WritePipe(c)
    \/ Receive(c) \/ GiveUp(c)

-----------------------------------------------------------------------------
(***************************************************************************)
(* Properties                                                              *)
(***************************************************************************)

(* Types of the variables. *)
TypeOK ==
    /\ pc \in [Calls -> {"idle", "post", "login", "queue", "body", "pipe", "wait", "returned"}]
    /\ outcome \in [Calls -> {"none", "answer", "error"}]
    /\ expired \subseteq Deadlines
    /\ executed \in [Calls -> 0 .. 2]
    /\ token \in {"none", "login", "valid"}
    /\ replies \in Seq(Calls) /\ Len(replies) <= 1
    /\ buf \in Calls \union {None}
    /\ sent \in [Calls -> Calls \union {None}]
    /\ shut \subseteq Calls /\ rchan \subseteq Calls
    /\ run \in {"select", "read", "deliver", "ended"}
    /\ reading \in Calls \union {None}
    /\ closed \in BOOLEAN

(***************************************************************************)
(* What goes through the pipe of a call is the response to that call: one  *)
(* caller at a time does not find the bytes of an earlier call in the      *)
(* buffer that all of them are copied through.  And a call with an answer  *)
(* was executed, and its pipe was read to the end: no answer of an earlier *)
(* call, whose pipe is still queued, goes to it.                           *)
(***************************************************************************)
AnswersAreTrue ==
    \A c \in Calls :
        /\ sent[c] \in {None, c}
        /\ outcome[c] = "answer" => executed[c] >= 1 /\ c \in shut /\ sent[c] = c

(***************************************************************************)
(* A pipe that nobody fills any more does not stop the Run loop: after a   *)
(* call that gave up in the middle of a response the next one can be       *)
(* answered, so that every call returns at its timeout at the latest.  Two *)
(* waits do not end with the context of the call: for the login, which has *)
(* that of the client, and for a reader of the pipe when Run has ended.    *)
(***************************************************************************)
Stuck(c) == pc[c] = "login" \/ (pc[c] = "pipe" /\ run = "ended")

CallsReturn ==
    \A c \in Deadlines : Active(c) ~> (pc[c] = "returned" \/ [](Stuck(c)))

=============================================================================
