---------------------------- MODULE JrpcPoolProofs ----------------------------
(***************************************************************************)
(* What the JSON-RPC client and its pool guarantee for any number of       *)
(* calls and addresses, whatever the servers answer and wherever contexts  *)
(* end.                                                                    *)
(*                                                                         *)
(* The invariant follows a call from the request to the pipe of its        *)
(* response, of which the buffer is a part since calls come one after the  *)
(* other, and the slice of addresses through its swaps.                    *)
(***************************************************************************)
EXTENDS JrpcPool, SequenceTheorems, TLAPS

(* One goroutine makes the calls. *)
OneAtATime == \A c, d \in Calls : Active(c) /\ Active(d) => c = d

Answered(c) == executed[c] >= 1 /\ c \in shut /\ sent[c] = c

Progress(c) ==
    /\ outcome[c] # "none" <=> pc[c] = "returned"
    /\ pc[c] \in {"queue", "body", "pipe"} => executed[c] >= 1
    /\ pc[c] = "pipe" => buf = c
    /\ sent[c] \in {None, c}
    /\ pc[c] = "wait" \/ outcome[c] = "answer" => Answered(c)

RunReadsACall == run \in {"read", "deliver"} => reading \in Calls

StreamInv == TypeOK /\ OneAtATime /\ RunReadsACall /\ \A c \in Calls : Progress(c)

(* A client in use whose address is healthy has not failed yet. *)
ServesWell ==
    ~closed /\ active \in Healthy /\ (active # "" \/ pool = "call") =>
        \A c \in Calls : outcome[c] # "error"

PoolInv ==
    /\ HealthyAreKept
    /\ pool = "unused" => active = ""
    /\ request # None => pool = "call"
    /\ ServesWell

IInv == StreamInv /\ PoolInv

-----------------------------------------------------------------------------
(* What Drop leaves of the addresses: all but one, in another order.       *)
LEMMA DropKeepsOthers ==
    ASSUME NEW S, ips \in Seq(S), IsInjective(ips), NEW a, Drop(a)
    PROVE  /\ ips' \in Seq(S)
           /\ IsInjective(ips')
           /\ ToSet(ips') = ToSet(ips) \ {a}
<1> DEFINE n == Len(ips)
<1>1. n \in Nat /\ n = Len(ips) /\ DOMAIN ips = 1 .. n
  BY LenProperties
<1> HIDE DEF n
<1>2. CASE a \notin ToSet(ips)
  BY <1>2 DEF Drop
<1>3. CASE a \in ToSet(ips)
  <2> DEFINE i == CHOOSE j \in DOMAIN ips : ips[j] = a
             s == [ips EXCEPT ![i] = Last(ips)]
  <2>1. i \in 1 .. n /\ ips[i] = a
    BY <1>1, <1>3 DEF ToSet
  <2>2. n \in 1 .. n /\ Last(ips) = ips[n]
    BY <1>1, <2>1 DEF Last
  <2>3. Last(ips) \in S
    BY <1>1, <2>2, ElementOfSeq
  <2>4. ips' = Front(s)
    BY <1>3 DEF Drop
  <2> HIDE DEF i
  <2>5. /\ s \in Seq(S)
        /\ Len(s) = n
        /\ \A j \in 1 .. n : s[j] = IF j = i THEN ips[n] ELSE ips[j]
    BY <1>1, <2>1, <2>2, <2>3, ExceptSeq
  <2> HIDE DEF s
  <2>6. ips' = SubSeq(s, 1, n - 1)
    BY <2>4, <2>5 DEF Front
  <2>7. \A j \in 1 .. n - 1 : s[j] \in S
    BY <1>1, <2>5, ElementOfSeq
  <2>8. n - 1 \in Int /\ 1 \in Int
    BY <1>1
  <2>9. /\ ips' \in Seq(S)
        /\ Len(ips') = IF 1 <= n - 1 THEN n - 1 - 1 + 1 ELSE 0
        /\ \A j \in 1 .. n - 1 - 1 + 1 : ips'[j] = s[1 + j - 1]
    BY <2>6, <2>7, <2>8, SubSeqProperties
  <2>10. Len(ips') = n - 1 /\ \A j \in 1 .. n - 1 : ips'[j] = s[j]
    <3>1. \A k \in Nat \ {0} : (IF 1 <= k - 1 THEN k - 1 - 1 + 1 ELSE 0) = k - 1
      OBVIOUS
    <3>2. n \in Nat \ {0} /\ n - 1 - 1 + 1 = n - 1 /\ \A j \in 1 .. n - 1 : 1 + j - 1 = j
      BY <1>1, <2>1
    <3>3. Len(ips') = n - 1
      BY <2>9, <3>1, <3>2, Zenon
    <3> QED
      BY <2>9, <3>2, <3>3
  <2>11. DOMAIN ips' = 1 .. n - 1
    BY <2>9, <2>10, LenProperties
  <2>12. \A j \in 1 .. n - 1 : ips'[j] = IF j = i THEN ips[n] ELSE ips[j]
    BY <1>1, <2>5, <2>10
  <2>13. IsInjective(ips')
    BY <1>1, <2>1, <2>2, <2>11, <2>12 DEF IsInjective
  <2>14. ToSet(ips') = ToSet(ips) \ {a}
    <3>1. ASSUME NEW j \in 1 .. n - 1
          PROVE  ips'[j] \in ToSet(ips) \ {a}
      BY <1>1, <2>1, <2>2, <2>12 DEF IsInjective, ToSet
    <3>2. ASSUME NEW j \in 1 .. n, ips[j] # a
          PROVE  \E k \in 1 .. n - 1 : ips'[k] = ips[j]
      <4>1. CASE j = n
        BY <1>1, <2>1, <2>12, <3>2, <4>1
      <4>2. CASE j # n
        <5>1. j \in 1 .. n - 1 /\ j # i
          BY <1>1, <2>1, <3>2, <4>2
        <5> QED
          BY <2>12, <5>1
      <4> QED
        BY <4>1, <4>2
    <3>3. ToSet(ips') = {ips'[j] : j \in 1 .. n - 1}
      BY <2>11 DEF ToSet
    <3>4. ToSet(ips) = {ips[j] : j \in 1 .. n}
      BY <1>1 DEF ToSet
    <3>5. ToSet(ips') \subseteq ToSet(ips) \ {a}
      BY <3>1, <3>3
    <3>6. ToSet(ips) \ {a} \subseteq ToSet(ips')
      BY <3>2, <3>3, <3>4
    <3> QED
      BY <3>5, <3>6
  <2> QED
    BY <2>9, <2>13, <2>14
<1> QED
  BY <1>2, <1>3

(* The addresses of an empty slice, and the first of another one. *)
LEMMA FirstAddress ==
    ASSUME NEW S, NEW s \in Seq(S)
    PROVE  /\ s = <<>> => ToSet(s) = {}
           /\ s # <<>> => s[1] \in ToSet(s) /\ s[1] \in S
<1> DEFINE n == Len(s)
<1>1. n \in Nat /\ DOMAIN s = 1 .. n
  BY LenProperties
<1>2. s = <<>> => n = 0
  BY EmptySeq
<1>3. s # <<>> => n \in Nat \ {0}
  BY EmptySeq
<1>4. s # <<>> => 1 \in DOMAIN s /\ s[1] \in S
  <2>1. \A j \in 1 .. n : s[j] \in S
    BY ElementOfSeq
  <2> HIDE DEF n
  <2> QED
    BY <1>1, <1>3, <2>1
<1> HIDE DEF n
<1>5. s = <<>> => DOMAIN s = {}
  BY <1>1, <1>2
<1> QED
  BY <1>4, <1>5 DEF ToSet

-----------------------------------------------------------------------------
(* A step that leaves the client alone. *)
LEMMA ClientUnchanged ==
    ASSUME StreamInv, UNCHANGED clientVars
    PROVE  StreamInv'
<1> USE DEF clientVars, vars, writeVars, runVars
<1>1. TypeOK'
  BY DEF StreamInv, TypeOK
<1>2. OneAtATime' /\ RunReadsACall'
  BY DEF StreamInv, OneAtATime, RunReadsACall, Active
<1>3. \A c \in Calls : Progress(c)'
  BY DEF StreamInv, Progress, Answered
<1> QED
  BY <1>1, <1>2, <1>3 DEF StreamInv

(* A step of the goroutine that calls c. *)
LEMMA CallStepInv ==
    ASSUME StreamInv, NEW c \in Calls, Call(c) \/ CallStep(c) \/ Expire(c)
    PROVE  StreamInv' /\ closed' = closed
<1> USE DEF StreamInv, TypeOK, OneAtATime, RunReadsACall, Progress, Answered, Active, Goes, Returns,
            writeVars, runVars
<1>1. CASE Call(c)
  BY <1>1 DEF Call, Pending
<1>2. CASE Login(c)
  BY <1>2 DEF Login
<1>3. CASE LoginReturns(c)
  BY <1>3 DEF LoginReturns
<1>4. CASE LoginCancelled(c)
  BY <1>4 DEF LoginCancelled
<1>5. CASE Accepted(c)
  BY <1>5 DEF Accepted
<1>6. CASE Retry(c)
  BY <1>6 DEF Retry, Execute
<1>7. CASE Rejected(c)
  BY <1>7 DEF Rejected, Execute
<1>8. CASE Queue(c)
  BY <1>8 DEF Queue
<1>9. CASE QueueGivesUp(c)
  BY <1>9 DEF QueueGivesUp
<1>10. CASE ReadBody(c)
  BY <1>10 DEF ReadBody
<1>11. CASE BodyFails(c)
  BY <1>11 DEF BodyFails
<1>12. CASE WritePipe(c)
  BY <1>12 DEF WritePipe
<1>13. CASE Receive(c)
  BY <1>13 DEF Receive
<1>14. CASE GiveUp(c)
  BY <1>14 DEF GiveUp
<1>15. CASE Expire(c)
  BY <1>15 DEF Expire
<1> QED
  BY <1>1, <1>2, <1>3, <1>4, <1>5, <1>6, <1>7, <1>8, <1>9, <1>10, <1>11, <1>12, <1>13,
     <1>14, <1>15 DEF CallStep

(* A step of Run. *)
LEMMA RunStepInv ==
    ASSUME StreamInv, RunStep
    PROVE  StreamInv' /\ closed' = closed /\ outcome' = outcome
<1> USE DEF StreamInv, TypeOK, OneAtATime, RunReadsACall, Progress, Answered, Active, writeVars, runVars
<1>1. CASE RunTakes
  <2>1. /\ Head(replies) \in Calls
        /\ Tail(replies) \in Seq(Calls)
        /\ Len(Tail(replies)) <= 1
    BY <1>1, HeadTailProperties, LenProperties DEF RunTakes
  <2>2. TypeOK'
    BY <1>1, <2>1 DEF RunTakes
  <2> QED
    BY <1>1, <2>2 DEF RunTakes
<1>2. CASE RunReads
  <2>1. /\ UNCHANGED <<pc, outcome, expired, executed, token, replies, buf, shut, sent, rchan, closed>>
        /\ run' \in {"deliver", "select"}
        /\ reading' \in Calls \union {None} /\ (run' = "deliver" => reading' \in Calls)
    BY <1>2 DEF RunReads, Pending
  <2>2. TypeOK' /\ RunReadsACall'
    BY <2>1
  <2>3. OneAtATime' /\ \A c \in Calls : Progress(c)'
    BY <2>1
  <2> QED
    BY <2>1, <2>2, <2>3
<1>3. CASE RunDelivers
  BY <1>3 DEF RunDelivers
<1>4. CASE RunEnds
  BY <1>4 DEF RunEnds
<1> QED
  BY <1>1, <1>2, <1>3, <1>4 DEF RunStep

(* A new client. *)
LEMMA BuildInv ==
    ASSUME StreamInv, Build
    PROVE  StreamInv' /\ closed' = closed /\ \A c \in Calls : outcome'[c] = "none"
BY EmptySeq DEF Build, StreamInv, TypeOK, OneAtATime, RunReadsACall, Progress, Answered, Active

-----------------------------------------------------------------------------
LEMMA InitIInv == PoolInit => IInv
<1> SUFFICES ASSUME PoolInit PROVE IInv
  OBVIOUS
<1>1. StreamInv
  <2>1. <<>> \in Seq(Calls) /\ Len(<<>>) <= 1
    BY EmptySeq
  <2>2. token \in {"none", "valid"} /\ expired \subseteq Deadlines
    BY DEF PoolInit, Init
  <2>3. replies \in Seq(Calls) /\ Len(replies) <= 1
    BY <2>1 DEF PoolInit, Init
  <2>4. TypeOK
    <3>1. executed \in [Calls -> 0 .. 2]
      <4>1. 0 \in 0 .. 2
        OBVIOUS
      <4> QED
        BY <4>1 DEF PoolInit, Init
    <3> QED
      BY <2>2, <2>3, <3>1 DEF PoolInit, Init, TypeOK
  <2> QED
    BY <2>4 DEF PoolInit, Init, StreamInv, OneAtATime, RunReadsACall, Progress, Active
<1>2. ips \in Seq(ToSet(Ips))
  <2>1. Ips \in Seq(STRING) /\ ToSet(Ips) = Range(Ips)
    BY IpsAssumption, LenProperties DEF ToSet, Range
  <2> QED
    BY <2>1, SeqOfRange DEF PoolInit
<1>3. HealthyAreKept
  BY <1>1, <1>2, IpsAssumption, HealthyAssumption
     DEF PoolInit, HealthyAreKept, PoolTypeOK, StreamInv
<1> QED
  BY <1>1, <1>3 DEF PoolInit, Init, IInv, PoolInv, ServesWell

(* A client that is called without the pool, and the steps of a client.    *)
LEMMA ClientInv ==
    ASSUME IInv, Direct \/ Ask \/ ClientStep
    PROVE  IInv'
<1> USE DEF IInv, PoolInv, HealthyAreKept, PoolTypeOK, ServesWell
<1>1. CASE Direct
  <2>1. CASE Close
    <3>1. StreamInv'
      BY <2>1 DEF Close, StreamInv, TypeOK, OneAtATime, RunReadsACall, Progress, Answered, Active,
                  writeVars, runVars
    <3> QED
      BY <1>1, <2>1, <3>1 DEF Direct, Close, poolVars, StreamInv
  <2>2. ASSUME closed' = closed, StreamInv'
        PROVE  IInv'
    BY <1>1, <2>2 DEF Direct, poolVars, StreamInv
  <2> QED
    BY <1>1, <2>1, <2>2, CallStepInv, RunStepInv DEF Direct, Next
<1>2. CASE Ask
  <2>1. PICK c \in Calls : Call(c) /\ request' = c
    BY <1>2 DEF Ask
  <2>2. StreamInv' /\ closed' = closed /\ outcome' = outcome
    BY <2>1, CallStepInv DEF Call
  <2> QED
    BY <1>2, <2>1, <2>2 DEF Ask, StreamInv
<1>3. CASE ClientStep
  <2>1. StreamInv' /\ closed' = closed
    BY <1>3, CallStepInv, RunStepInv DEF ClientStep
  <2> QED
    BY <1>3, <2>1 DEF ClientStep, poolVars, StreamInv
<1> QED
  BY <1>1, <1>2, <1>3

(* The steps of Pool.Call, and the end of the context. *)
LEMMA PoolStepInv ==
    ASSUME IInv, PoolCall \/ Choose \/ CtxEnds \/ Failed \/ Returned
    PROVE  IInv'
<1> USE DEF IInv, PoolInv, HealthyAreKept, PoolTypeOK, ServesWell
<1>0. StreamInv' \/ ~UNCHANGED clientVars
  BY ClientUnchanged, Zenon
<1>1. CASE PoolCall
  BY <1>0, <1>1 DEF PoolCall, clientVars, vars, StreamInv
<1>2. CASE Choose
  <2>1. CASE active = "" /\ ips = <<>> /\ result' = "panic" /\ pool' = "idle"
             /\ UNCHANGED <<clientVars, active>>
    <3>1. ToSet(ips) = {}
      BY <2>1, FirstAddress
    <3> QED
      BY <1>0, <1>2, <2>1, <3>1 DEF Choose, clientVars, vars, StreamInv
  <2>2. CASE active = "" /\ ips # <<>> /\ active' = ips[1] /\ Build
             /\ pool' = "call" /\ UNCHANGED result
    <3>1. ips[1] \in ToSet(ips) /\ ips[1] \in ToSet(Ips)
      BY <2>2, FirstAddress
    <3>2. StreamInv' /\ closed' = closed /\ \A c \in Calls : outcome'[c] = "none"
      BY <2>2, BuildInv
    <3> QED
      BY <1>2, <2>2, <3>1, <3>2 DEF Choose, StreamInv
  <2>3. CASE active # "" /\ pool' = "call" /\ UNCHANGED <<clientVars, active, result>>
    BY <1>0, <1>2, <2>3 DEF Choose, clientVars, vars, StreamInv
  <2> QED
    BY <1>2, <2>1, <2>2, <2>3 DEF Choose
<1>3. CASE CtxEnds
  <2>1. StreamInv'
    BY <1>3, PoolDeadlinesAssumption
       DEF CtxEnds, StreamInv, TypeOK, OneAtATime, RunReadsACall, Progress, Answered, Active, writeVars, runVars
  <2> QED
    BY <1>3, <2>1 DEF CtxEnds, poolVars, StreamInv
<1>4. CASE Failed
  <2>1. Drop(active) /\ request \in Calls /\ UNCHANGED <<clientVars, result>>
    BY <1>4 DEF Failed
  <2>2. /\ ips' \in Seq(ToSet(Ips))
        /\ IsInjective(ips')
        /\ ToSet(ips') = ToSet(ips) \ {active}
    BY <2>1, DropKeepsOthers
  <2>3. active' = ""
    BY <2>1 DEF Drop
  <2>4. ~closed => active \notin Healthy
    <3>1. ASSUME ~closed, active \in Healthy
          PROVE  outcome[request] = "answer"
      <4>1. outcome[request] # "error"
        BY <1>4, <2>1, <3>1 DEF Failed
      <4> QED
        BY <1>4, <2>1, <4>1 DEF Failed, StreamInv, TypeOK, Progress
    <3> QED
      BY <1>4, <3>1 DEF Failed, OfAddress
  <2>5. StreamInv' /\ closed' = closed
    BY <1>0, <2>1 DEF clientVars, vars
  <2> QED
    BY <1>4, <2>1, <2>2, <2>3, <2>4, <2>5 DEF Failed, StreamInv
<1>5. CASE Returned
  BY <1>0, <1>5 DEF Returned, clientVars, vars, StreamInv
<1> QED
  BY <1>1, <1>2, <1>3, <1>4, <1>5

LEMMA NextIInv == IInv /\ [PoolNext]_allVars => IInv'
<1>1. IInv /\ UNCHANGED allVars => IInv'
  <2> SUFFICES ASSUME IInv, UNCHANGED allVars PROVE IInv'
    OBVIOUS
  <2>1. StreamInv'
    BY ClientUnchanged DEF IInv, allVars
  <2> QED
    BY <2>1 DEF IInv, PoolInv, HealthyAreKept, PoolTypeOK, ServesWell, StreamInv, allVars,
                clientVars, poolVars, vars
<1> QED
  BY <1>1, ClientInv, PoolStepInv DEF PoolNext

(* The invariant holds for any number of calls and addresses. *)
THEOREM IInvCorrect == PoolSpec => []IInv
BY InitIInv, NextIInv, PTL DEF PoolSpec

(* AnswersAreTrue: what goes through the pipe of a call is its response,   *)
(* and a call with an answer was executed and its pipe read to the end.    *)
THEOREM AnswersCorrect == PoolSpec => []AnswersAreTrue
<1>1. IInv => AnswersAreTrue
  BY DEF IInv, StreamInv, Progress, Answered, AnswersAreTrue
<1> QED
  BY <1>1, IInvCorrect, PTL

(* HealthyAreKept: Drop loses no address but the one that failed, and an   *)
(* empty pool had no healthy address, or its context has ended.            *)
THEOREM KeptCorrect == PoolSpec => []HealthyAreKept
<1>1. IInv => HealthyAreKept
  BY DEF IInv, PoolInv
<1> QED
  BY <1>1, IInvCorrect, PTL

=============================================================================
