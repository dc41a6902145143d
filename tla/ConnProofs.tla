----------------------------- MODULE ConnProofs -----------------------------
(***************************************************************************)
(* What a connection guarantees for any number of calls and notifications, *)
(* lost messages, failing streams, cancellations and deadlines.            *)
(*                                                                         *)
(* The invariant follows a request and its response: each is in one place  *)
(* at a time, on the wire, in the hands of Run, or in the channel of the   *)
(* call, and the state of the request says which places are possible.      *)
(***************************************************************************)
EXTENDS Conn, FiniteSetTheorems, SequenceTheorems, TLAPS

Msg == [kind : {"request", "response"}, r : Request]

Traffic(p) == {wire[p][i] : i \in 1 .. Len(wire[p])}

Once(s) == \A i, j \in 1 .. Len(s) : s[i] = s[j] => i = j

Callers ==
    \A r \in Request :
        /\ pc[r] \in {"idle", "send"} => state[r] = "none"
        /\ pc[r] # "returned" => outcome[r] = "none"

WireOnce == \A p \in Peer : Once(wire[p])

Requests ==
    \A p \in Peer, r \in Request :
        Message("request", r) \in Traffic(p) =>
            p = To[r] /\ state[r] = "none" /\ pc[r] \notin {"idle", "send"}

Responses ==
    \A p \in Peer, r \in Request :
        Message("response", r) \in Traffic(p) =>
            p = Caller(r) /\ r \in Answered /\ r \notin writing \union found[p] \union rchan

Finds ==
    \A p \in Peer : \A r \in found[p] :
        p = Caller(r) /\ r \in Answered /\ r \notin writing \union rchan

Channels == rchan \subseteq Answered \ writing

Writes == \A r \in writing : state[r] = "replied" /\ r \notin Notify

Places == WireOnce /\ Requests /\ Responses /\ Finds /\ Channels /\ Writes

Handlers ==
    /\ NothingLeft
    /\ \A r \in deferred : Begun(r)
    /\ \A r \in Request : state[r] = "done" => r \in deferred

OrderRight ==
    \A p \in Peer : \A i \in 1 .. Len(order[p]) :
        To[order[p][i]] = p /\ state[order[p][i]] # "none"

OrderOnce == \A p \in Peer : Once(order[p])

OrderAll ==
    \A r \in Request :
        state[r] # "none" => \E i \in 1 .. Len(order[To[r]]) : order[To[r]][i] = r

Orders == OrderRight /\ OrderOnce /\ OrderAll /\ HandledInOrder

IInv == TypeOK /\ Callers /\ Places /\ Handlers /\ Orders

-----------------------------------------------------------------------------
(* Either end of a connection has another. *)
LEMMA CallerFacts ==
    ASSUME NEW r \in Request
    PROVE  Caller(r) \in Peer /\ To[r] \in Peer
<1>1. To[r] \in Peer
  BY RequestAssumption
<1>2. \E q \in Peer : q # To[r]
  BY <1>1, PeerAssumption
<1> QED
  BY <1>1, <1>2 DEF Caller

(* A message is sent that was not on the wire. *)
LEMMA SentMessage ==
    ASSUME wire \in [Peer -> Seq(Msg)], WireOnce,
           NEW q \in Peer, NEW m \in Msg, m \notin Traffic(q),
           wire' = [wire EXCEPT ![q] = Append(@, m)]
    PROVE  /\ wire' \in [Peer -> Seq(Msg)]
           /\ WireOnce'
           /\ Traffic(q)' = Traffic(q) \union {m}
           /\ \A p \in Peer \ {q} : Traffic(p)' = Traffic(p)
<1>1. /\ wire[q] \in Seq(Msg)
      /\ wire'[q] = Append(wire[q], m)
      /\ \A p \in Peer \ {q} : wire'[p] = wire[p]
  OBVIOUS
<1>2. /\ wire'[q] \in Seq(Msg)
      /\ Len(wire[q]) \in Nat
      /\ Len(wire'[q]) = Len(wire[q]) + 1
      /\ \A i \in 1 .. Len(wire[q]) : wire'[q][i] = wire[q][i]
      /\ wire'[q][Len(wire[q]) + 1] = m
  BY <1>1, AppendProperties, LenProperties
<1>3. Traffic(q)' = Traffic(q) \union {m}
  BY <1>2 DEF Traffic
<1>4. Once(wire'[q])
  BY <1>2 DEF WireOnce, Once, Traffic
<1>5. WireOnce'
  BY <1>1, <1>4 DEF WireOnce, Once
<1> QED
  BY <1>1, <1>2, <1>3, <1>5 DEF Traffic

(* The first message is read. *)
LEMMA ReadMessage ==
    ASSUME wire \in [Peer -> Seq(Msg)], WireOnce,
           NEW q \in Peer, Reads(q), Consumed(q)
    PROVE  /\ wire' \in [Peer -> Seq(Msg)]
           /\ WireOnce'
           /\ FirstMessage(q) \in Traffic(q) /\ FirstMessage(q) \in Msg
           /\ FirstMessage(q) = Message(FirstMessage(q).kind, FirstMessage(q).r)
           /\ Traffic(q)' = Traffic(q) \ {FirstMessage(q)}
           /\ \A p \in Peer \ {q} : Traffic(p)' = Traffic(p)
<1>1. /\ wire[q] \in Seq(Msg) /\ wire[q] # <<>>
      /\ wire'[q] = Tail(wire[q])
      /\ \A p \in Peer \ {q} : wire'[p] = wire[p]
  BY DEF Reads, Consumed
<1>2. /\ wire'[q] \in Seq(Msg)
      /\ Len(wire[q]) \in Nat \ {0}
      /\ Len(wire'[q]) = Len(wire[q]) - 1
      /\ \A i \in 1 .. Len(wire'[q]) : wire'[q][i] = wire[q][i + 1]
      /\ FirstMessage(q) = wire[q][1]
      /\ FirstMessage(q) \in Msg
  BY <1>1, HeadTailProperties, EmptySeq, LenProperties DEF FirstMessage
<1>3. Once(wire[q])
  BY DEF WireOnce
<1>4. FirstMessage(q) \in Traffic(q)
  BY <1>2 DEF Traffic
<1>5. Traffic(q)' = Traffic(q) \ {FirstMessage(q)}
  <2>1. ASSUME NEW m \in Traffic(q)' PROVE m \in Traffic(q) \ {FirstMessage(q)}
    <3>1. PICK i \in 1 .. Len(wire'[q]) : m = wire'[q][i]
      BY DEF Traffic
    <3>2. i + 1 \in 1 .. Len(wire[q]) /\ i + 1 # 1 /\ 1 \in 1 .. Len(wire[q]) /\ m = wire[q][i + 1]
      BY <1>2, <3>1
    <3> QED
      BY <1>2, <1>3, <3>2 DEF Traffic, Once
  <2>2. ASSUME NEW m \in Traffic(q) \ {FirstMessage(q)} PROVE m \in Traffic(q)'
    <3>1. PICK i \in 1 .. Len(wire[q]) : m = wire[q][i]
      BY DEF Traffic
    <3>2. i - 1 \in 1 .. Len(wire'[q]) /\ (i - 1) + 1 = i
      BY <1>2, <3>1
    <3> QED
      BY <1>2, <3>1, <3>2 DEF Traffic
  <2> QED
    BY <2>1, <2>2
<1>6. Once(wire'[q])
  <2> SUFFICES ASSUME NEW i \in 1 .. Len(wire'[q]), NEW j \in 1 .. Len(wire'[q]),
                      wire'[q][i] = wire'[q][j]
               PROVE  i = j
    BY DEF Once
  <2>1. i + 1 \in 1 .. Len(wire[q]) /\ j + 1 \in 1 .. Len(wire[q])
    BY <1>2
  <2>2. i + 1 = j + 1
    BY <1>2, <1>3, <2>1 DEF Once
  <2> QED
    BY <1>2, <2>2
<1>7. WireOnce'
  BY <1>1, <1>6 DEF WireOnce, Once
<1>8. FirstMessage(q) = Message(FirstMessage(q).kind, FirstMessage(q).r)
  BY <1>2 DEF Msg, Message
<1>9. wire' \in [Peer -> Seq(Msg)]
  BY <1>1, <1>2 DEF Consumed
<1>10. \A p \in Peer \ {q} : Traffic(p)' = Traffic(p)
  BY <1>1 DEF Traffic
<1> QED
  BY <1>2, <1>4, <1>5, <1>7, <1>8, <1>9, <1>10

-----------------------------------------------------------------------------
(* Messages, responses and replies only go. *)
LEMMA PlacesShrink ==
    ASSUME IInv, WireOnce',
           \A p \in Peer : Traffic(p)' \subseteq Traffic(p) /\ found'[p] \subseteq found[p],
           rchan' \subseteq rchan,
           writing' \subseteq writing,
           \A r \in Request : r \in Answered => r \in Answered',
           \A p \in Peer, r \in Request :
                Message("request", r) \in Traffic(p)' =>
                    state'[r] = "none" /\ pc'[r] \notin {"idle", "send"},
           \A r \in writing' : state'[r] = "replied"
    PROVE  Places'
<1> USE DEF IInv, Places
<1>1. Requests'
  BY DEF Requests
<1>2. Responses'
  BY DEF Responses
<1>3. Finds' /\ Channels'
  BY DEF Finds, Channels, TypeOK
<1>4. Writes'
  BY DEF Writes
<1> QED
  BY <1>1, <1>2, <1>3, <1>4

(* Nothing moves between the ends. *)
LEMMA PlacesKept ==
    ASSUME IInv, UNCHANGED <<wire, found>>, rchan' \subseteq rchan, writing' = writing,
           \A r \in Request : r \in Answered => r \in Answered',
           \A r \in Request : state[r] = "none" => state'[r] = "none",
           \A r \in Request : pc[r] \notin {"idle", "send"} => pc'[r] \notin {"idle", "send"},
           \A r \in writing : state'[r] = "replied"
    PROVE  Places'
<1>1. WireOnce' /\ \A p \in Peer : Traffic(p)' = Traffic(p) /\ found'[p] = found[p]
  BY DEF IInv, Places, WireOnce, Traffic
<1>2. \A p \in Peer, r \in Request :
        Message("request", r) \in Traffic(p) =>
            state'[r] = "none" /\ pc'[r] \notin {"idle", "send"}
  BY DEF IInv, Places, Requests
<1> QED
  BY <1>1, <1>2, PlacesShrink

(* No request is read, and none begins. *)
LEMMA OrdersKept ==
    ASSUME IInv, UNCHANGED order,
           \A r \in Request :
              /\ Begun(r)' => Begun(r)
              /\ Released(r) => Released(r)'
              /\ state'[r] # "none" <=> state[r] # "none"
    PROVE  Orders'
<1> USE DEF IInv, Orders, TypeOK
<1>1. \A p \in Peer : \A i \in 1 .. Len(order[p]) : order[p][i] \in Request
  BY ElementOfSeq
<1>2. OrderRight' /\ OrderOnce' /\ OrderAll'
  BY <1>1 DEF OrderRight, OrderOnce, OrderAll, Once
<1>3. HandledInOrder'
  BY <1>1 DEF HandledInOrder
<1> QED
  BY <1>2, <1>3

(* The state of the requests does not change. *)
LEMMA SameState ==
    ASSUME IInv, UNCHANGED <<order, state>>
    PROVE  Orders' /\ Answered' = Answered
<1>1. \A r \in Request : Begun(r)' = Begun(r) /\ Released(r)' = Released(r)
  BY DEF Begun, Released
<1>2. Answered' = Answered
  BY DEF Answered
<1> QED
  BY <1>1, <1>2, OrdersKept

LEMMA InitIInv == Init => IInv
<1> SUFFICES ASSUME Init PROVE IInv
  OBVIOUS
<1>1. TypeOK
  <2>1. \A S : <<>> \in Seq(S)
    BY EmptySeq
  <2> QED
    BY <2>1, BoundAssumption DEF Init, TypeOK
<1>2. Callers /\ Handlers
  BY DEF Init, Callers, Handlers, NothingLeft
<1>3. Len(<<>>) = 0
  OBVIOUS
<1>4. \A p \in Peer : wire[p] = <<>> /\ order[p] = <<>> /\ found[p] = {} /\ Traffic(p) = {}
  BY <1>3 DEF Init, Traffic
<1>5. Places
  BY <1>3, <1>4 DEF Init, Places, WireOnce, Once, Requests, Responses, Finds, Channels, Writes
<1>6. Orders
  BY <1>3, <1>4, RequestAssumption
     DEF Init, Orders, OrderRight, OrderOnce, Once, OrderAll, HandledInOrder
<1> QED
  BY <1>1, <1>2, <1>5, <1>6 DEF IInv

(* The actions of Call and Notify that send nothing. *)
LEMMA CallStep ==
    ASSUME IInv, NEW r \in Request,
           Call(r) \/ SendFails(r) \/ Receive(r) \/ GiveUp(r) \/ Expire(r)
    PROVE  IInv'
<1> USE DEF IInv, Call, SendFails, Receive, GiveUp, Expire, Returns, readVars, handleVars
<1>1. UNCHANGED <<wire, run, found, order, lost, state, handling, cancelled, writing, deferred>>
  OBVIOUS
<1>2. TypeOK'
  BY <1>1 DEF TypeOK
<1>3. Callers'
  BY <1>1 DEF Callers, TypeOK
<1>4. Handlers'
  BY <1>1 DEF Handlers, NothingLeft, Begun, TypeOK
<1>5. rchan' \subseteq rchan
  OBVIOUS
<1>6. \A s \in Request : pc[s] \notin {"idle", "send"} => pc'[s] \notin {"idle", "send"}
  BY DEF TypeOK
<1>7. Places'
  BY <1>1, <1>5, <1>6, SameState, PlacesKept DEF Places, Writes
<1> QED
  BY <1>1, <1>2, <1>3, <1>4, <1>7, SameState

LEMMA SendStep ==
    ASSUME IInv, NEW r \in Request, Send(r)
    PROVE  IInv'
<1> DEFINE m == Message("request", r)
<1> USE DEF IInv
<1>1. /\ UNCHANGED <<expired, rchan, run, found, order, lost, state, handling, cancelled, writing, deferred>>
      /\ wire' = [wire EXCEPT ![To[r]] = Append(@, m)]
      /\ pc[r] = "send"
  BY DEF Send, readVars, handleVars
<1>2. \/ pc' = [pc EXCEPT ![r] = "returned"] /\ outcome' = [outcome EXCEPT ![r] = "sent"] /\ pending' = pending \ {r}
      \/ pc' = [pc EXCEPT ![r] = "wait"] /\ UNCHANGED <<outcome, pending>>
  BY DEF Send, Returns
<1>3. m \in Msg /\ To[r] \in Peer /\ m \notin Traffic(To[r])
  BY <1>1, CallerFacts DEF Msg, Message, Places, Requests
<1>4. /\ wire' \in [Peer -> Seq(Msg)]
      /\ WireOnce'
      /\ Traffic(To[r])' = Traffic(To[r]) \union {m}
      /\ \A p \in Peer \ {To[r]} : Traffic(p)' = Traffic(p)
  <2> HIDE DEF m
  <2> QED
    BY <1>1, <1>3, SentMessage DEF TypeOK, Places, Msg
<1>5. TypeOK'
  <2>1. /\ pc' \in [Request -> {"idle", "send", "wait", "returned"}]
        /\ outcome' \in [Request -> {"none", "sent", "answer", "error"}]
        /\ pending' \subseteq Request
    <3>1. \/ UNCHANGED outcome \/ outcome' = [outcome EXCEPT ![r] = "sent"]
      BY <1>2
    <3>2. \E to \in {"wait", "returned"} : pc' = [pc EXCEPT ![r] = to]
      BY <1>2
    <3>3. pc' \in [Request -> {"idle", "send", "wait", "returned"}]
      BY <3>2 DEF TypeOK
    <3>4. outcome' \in [Request -> {"none", "sent", "answer", "error"}]
      BY <3>1 DEF TypeOK
    <3>5. pending' \subseteq Request
      BY <1>2 DEF TypeOK
    <3> QED
      BY <3>3, <3>4, <3>5
  <2> QED
    BY <1>1, <1>4, <2>1 DEF TypeOK, Msg
<1>6. Callers'
  BY <1>1, <1>2 DEF Callers, TypeOK
<1>7. Handlers'
  BY <1>1, <1>2 DEF Handlers, NothingLeft, Begun, TypeOK
<1>8. \A q \in Request : Message("request", q) = m => q = r
  BY DEF Message
<1>9. \A q \in Request : Message("response", q) # m
  BY DEF Message
<1>10. Requests'
  <2> SUFFICES ASSUME NEW p \in Peer, NEW q \in Request, Message("request", q) \in Traffic(p)'
               PROVE  p = To[q] /\ state'[q] = "none" /\ pc'[q] \notin {"idle", "send"}
    BY DEF Requests
  <2>1. CASE q = r /\ p = To[r]
    BY <1>1, <1>2, <2>1 DEF Callers, TypeOK
  <2>2. CASE Message("request", q) \in Traffic(p)
    <3>1. p = To[q] /\ state[q] = "none" /\ pc[q] \notin {"idle", "send"}
      BY <2>2 DEF Places, Requests
    <3> QED
      BY <1>1, <1>2, <3>1 DEF TypeOK
  <2> QED
    BY <1>4, <1>8, <2>1, <2>2
<1>11. Responses'
  BY <1>1, <1>4, <1>9, SameState DEF Responses, Places
<1>12. Finds' /\ Channels' /\ Writes'
  BY <1>1, SameState DEF Finds, Channels, Writes, Places
<1> QED
  BY <1>1, <1>4, <1>5, <1>6, <1>7, <1>10, <1>11, <1>12, SameState DEF Places

(* The user's handler and the deferred function, as long as they do not    *)
(* reply.                                                                  *)
LEMMA HandlerStep ==
    ASSUME IInv, NEW r \in Request,
           Parallel(r) \/ Delivered(r) \/ Done(r) \/ Cancel(r)
    PROVE  IInv'
<1> USE DEF IInv
<1>1. UNCHANGED <<pc, outcome, expired, pending, rchan, wire, run, found, order, lost, writing>>
  BY DEF Parallel, Delivered, Done, Cancel, callVars, readVars
<1>2. /\ handling' \subseteq handling
      /\ cancelled' \subseteq Request
      /\ deferred \subseteq deferred' /\ deferred' \subseteq deferred \union {r}
      /\ state' \in [Request -> {"none", "waiting", "serial", "parallel", "replied", "done"}]
  BY DEF Parallel, Delivered, Done, Cancel, TypeOK
<1>3. TypeOK'
  BY <1>1, <1>2 DEF TypeOK
<1>4. /\ \A q \in Request \ {r} : state'[q] = state[q]
      /\ \/ state'[r] = state[r]
         \/ state[r] = "serial" /\ state'[r] = "parallel"
         \/ state[r] = "replied" /\ state'[r] = "done" /\ r \notin writing
         \/ r \in Notify /\ state[r] \in {"serial", "parallel", "replied"} /\ state'[r] = "done"
  BY DEF Parallel, Delivered, Done, Cancel, InHandler, TypeOK
<1>5. Callers'
  BY <1>1, <1>4 DEF Callers
<1>6. Handlers'
  BY <1>1 DEF Handlers, NothingLeft, Begun, Parallel, Delivered, Done, Cancel, InHandler, TypeOK
<1>7. Places'
  <2>1. \A s \in Request : s \in Answered => s \in Answered'
    BY <1>4 DEF Answered
  <2>2. \A s \in writing : state'[s] = "replied"
    BY <1>4 DEF Places, Writes, TypeOK
  <2>3. \A s \in Request : state[s] = "none" => state'[s] = "none"
    BY <1>4
  <2> QED
    BY <1>1, <2>1, <2>2, <2>3, PlacesKept
<1>8. Orders'
  BY <1>1, <1>4, OrdersKept DEF Begun, Released
<1> QED
  BY <1>3, <1>5, <1>6, <1>7, <1>8

(* A reply is about to be written: it is in no other place yet. *)
LEMMA ReplyStep ==
    ASSUME IInv, NEW r \in Request, Reply(r)
    PROVE  IInv'
<1> USE DEF IInv
<1>1. /\ UNCHANGED <<pc, outcome, expired, pending, rchan, wire, run, found, order, lost,
                     handling, cancelled, deferred>>
      /\ state[r] \in {"serial", "parallel"} /\ r \notin Notify
      /\ state' = [state EXCEPT ![r] = "replied"]
      /\ writing' = writing \union {r}
  BY DEF Reply, InHandler, callVars, readVars
<1>2. TypeOK'
  BY <1>1 DEF TypeOK
<1>3. Callers' /\ Handlers'
  BY <1>1 DEF Callers, Handlers, NothingLeft, Begun, TypeOK
<1>4. r \notin Answered /\ Answered' = Answered \union {r}
  BY <1>1 DEF Answered, TypeOK
<1>5. \A p \in Peer : Traffic(p)' = Traffic(p)
  BY <1>1 DEF Traffic
<1>6. WireOnce' /\ Requests'
  BY <1>1, <1>5 DEF Places, WireOnce, Requests, TypeOK
<1>7. Responses'
  BY <1>1, <1>4, <1>5 DEF Places, Responses
<1>8. Finds' /\ Channels' /\ Writes'
  BY <1>1, <1>4 DEF Places, Finds, Channels, Writes, TypeOK
<1>9. Orders'
  BY <1>1, OrdersKept DEF Begun, Released, TypeOK
<1> QED
  BY <1>2, <1>3, <1>6, <1>7, <1>8, <1>9 DEF Places

LEMMA WriteReplyStep ==
    ASSUME IInv, NEW r \in Request, WriteReply(r)
    PROVE  IInv'
<1> DEFINE m == Message("response", r)
           q == Caller(r)
<1> USE DEF IInv
<1>1. /\ UNCHANGED <<pc, outcome, expired, pending, rchan, run, found, order, lost,
                     state, handling, cancelled, deferred>>
      /\ r \in writing
      /\ writing' = writing \ {r}
      /\ UNCHANGED wire \/ wire' = [wire EXCEPT ![q] = Append(@, m)]
  BY DEF WriteReply, callVars, readVars
<1>2. m \in Msg /\ q \in Peer /\ m \notin Traffic(q) /\ r \in Answered
  BY <1>1, CallerFacts DEF Msg, Message, Places, Responses, Writes, Answered
<1>3. /\ wire' \in [Peer -> Seq(Msg)]
      /\ WireOnce'
      /\ Traffic(q)' \subseteq Traffic(q) \union {m}
      /\ \A p \in Peer \ {q} : Traffic(p)' = Traffic(p)
  <2>1. CASE UNCHANGED wire
    BY <2>1 DEF TypeOK, Msg, Places, WireOnce, Traffic
  <2>2. CASE wire' = [wire EXCEPT ![q] = Append(@, m)]
    <3> HIDE DEF m, q
    <3> QED
      BY <1>2, <2>2, SentMessage DEF TypeOK, Places, Msg
  <2> QED
    BY <1>1, <2>1, <2>2
<1>4. TypeOK'
  BY <1>1, <1>3 DEF TypeOK, Msg
<1>5. Callers' /\ Handlers' /\ Orders' /\ Answered' = Answered
  BY <1>1, SameState DEF Callers, Handlers, NothingLeft, Begun
<1>6. Requests'
  <2>1. \A s \in Request : Message("request", s) # m
    BY DEF Message
  <2> QED
    BY <1>1, <1>3, <2>1 DEF Places, Requests
<1>7. Responses'
  <2>1. \A s \in Request : Message("response", s) = m => s = r
    BY DEF Message
  <2>2. r \notin writing' \union found[q] \union rchan
    BY <1>1, <1>2 DEF Places, Finds, Channels
  <2> QED
    BY <1>1, <1>2, <1>3, <1>5, <2>1, <2>2 DEF Places, Responses
<1>8. Finds' /\ Channels' /\ Writes'
  BY <1>1, <1>5 DEF Places, Finds, Channels, Writes
<1> QED
  BY <1>3, <1>4, <1>5, <1>6, <1>7, <1>8 DEF Places

(***************************************************************************)
(* A handler begins: the one before it has let it, and that one began only *)
(* when all before were released.                                          *)
(***************************************************************************)
LEMMA StartStep ==
    ASSUME IInv, NEW r \in Request, Start(r)
    PROVE  IInv'
<1> USE DEF IInv
<1>1. /\ UNCHANGED <<pc, outcome, expired, pending, rchan, wire, run, found, order, lost,
                     handling, cancelled, writing, deferred>>
      /\ state[r] = "waiting"
      /\ state' = [state EXCEPT ![r] = "serial"]
      /\ \A s \in Before(r) : Released(s)
  BY DEF Start, callVars, readVars
<1>2. TypeOK' /\ Callers' /\ Handlers'
  BY <1>1 DEF TypeOK, Callers, Handlers, NothingLeft, Begun
<1>3. Places'
  BY <1>1, PlacesKept DEF Answered, Places, Writes, TypeOK
<1>4. \A p \in Peer : \A i \in 1 .. Len(order[p]) : order[p][i] \in Request
  BY ElementOfSeq DEF TypeOK
<1>5. OrderRight' /\ OrderOnce' /\ OrderAll'
  <2>1. \A s \in Request : state'[s] # "none" <=> state[s] # "none"
    BY <1>1 DEF TypeOK
  <2>2. OrderRight'
    BY <1>1, <1>4, <2>1 DEF Orders, OrderRight
  <2>3. OrderOnce' /\ OrderAll'
    BY <1>1, <2>1 DEF Orders, OrderOnce, OrderAll, Once
  <2> QED
    BY <2>2, <2>3
<1>6. HandledInOrder'
  <2> SUFFICES ASSUME NEW p \in Peer, NEW i \in 1 .. Len(order[p]), NEW j \in 1 .. Len(order[p]),
                      i < j, Begun(order[p][j])'
               PROVE  Released(order[p][i])'
    BY <1>1 DEF HandledInOrder
  <2>1. Len(order[p]) \in Nat
    BY LenProperties DEF TypeOK
  <2>2. \A s \in Request : Released(s) => Released(s)'
    BY <1>1 DEF Released, TypeOK
  <2>3. \A s \in Request \ {r} : Begun(s)' => Begun(s)
    BY <1>1 DEF Begun, TypeOK
  <2>4. CASE order[p][j] # r
    BY <1>1, <1>4, <2>2, <2>3, <2>4 DEF Orders, HandledInOrder
  <2>5. CASE order[p][j] = r
    <3>1. To[r] = p
      BY <2>5 DEF Orders, OrderRight
    <3>2. /\ j - 1 \in 1 .. Len(order[p]) /\ j - 1 \in 1 .. Len(order[p]) - 1
          /\ (j - 1) + 1 = j /\ (i = j - 1 \/ i < j - 1)
      BY <2>1
    <3>3. order[p][j - 1] \in Before(r)
      BY <2>5, <3>1, <3>2 DEF Before
    <3>4. Released(order[p][j - 1])
      BY <1>1, <3>3
    <3>5. Begun(order[p][j - 1])
      BY <3>4 DEF Begun, Released
    <3>6. Released(order[p][i])
      BY <3>2, <3>4, <3>5 DEF Orders, HandledInOrder
    <3> QED
      BY <1>1, <1>4, <2>2, <3>6
  <2> QED
    BY <2>4, <2>5
<1> QED
  BY <1>2, <1>3, <1>5, <1>6 DEF Orders

(* Run reads a request: it is the last of its end. *)
LEMMA RunRequestStep ==
    ASSUME IInv, NEW p \in Peer, RunRequest(p)
    PROVE  IInv'
<1> DEFINE r == FirstMessage(p).r
           m == FirstMessage(p)
<1> USE DEF IInv
<1>1. /\ UNCHANGED <<pc, outcome, expired, pending, rchan, run, found, lost,
                     cancelled, writing, deferred>>
      /\ Reads(p) /\ Consumed(p) /\ m.kind = "request"
      /\ state' = [state EXCEPT ![r] = "waiting"]
      /\ order' = [order EXCEPT ![p] = Append(@, r)]
      /\ handling' = IF r \in Notify THEN handling ELSE handling \union {r}
  BY DEF RunRequest, callVars
<1>2. /\ wire' \in [Peer -> Seq(Msg)]
      /\ WireOnce'
      /\ m \in Traffic(p) /\ m \in Msg /\ m = Message(m.kind, r)
      /\ Traffic(p)' = Traffic(p) \ {m}
      /\ \A s \in Peer \ {p} : Traffic(s)' = Traffic(s)
  <2> HIDE DEF m, r
  <2> QED
    BY <1>1, ReadMessage DEF TypeOK, Places, Msg, m, r
<1>3. r \in Request /\ m = Message("request", r)
  BY <1>1, <1>2 DEF Msg
<1> HIDE DEF m, r
<1>4. To[r] = p /\ state[r] = "none" /\ pc[r] \notin {"idle", "send"}
  BY <1>2, <1>3 DEF Places, Requests
<1>5. order[p] \in Seq(Request) /\ Len(order[p]) \in Nat
  BY LenProperties DEF TypeOK
<1>6. /\ order' \in [Peer -> Seq(Request)]
      /\ Len(order'[p]) = Len(order[p]) + 1
      /\ \A i \in 1 .. Len(order[p]) : order'[p][i] = order[p][i]
      /\ order'[p][Len(order[p]) + 1] = r
      /\ \A q \in Peer \ {p} : order'[q] = order[q]
  <2>1. Append(order[p], r) \in Seq(Request)
    BY <1>3, <1>5, AppendProperties
  <2>2. order'[p] = Append(order[p], r) /\ \A q \in Peer \ {p} : order'[q] = order[q]
    BY <1>1 DEF TypeOK
  <2>3. order' \in [Peer -> Seq(Request)]
    BY <1>1, <2>1 DEF TypeOK
  <2> QED
    BY <1>3, <1>5, <2>2, <2>3, AppendProperties
<1>7. TypeOK'
  BY <1>1, <1>2, <1>3, <1>6 DEF TypeOK, Msg
<1>8. state'[r] = "waiting" /\ \A s \in Request \ {r} : state'[s] = state[s]
  BY <1>1, <1>3 DEF TypeOK
<1>9. Callers'
  BY <1>1, <1>4, <1>8 DEF Callers
<1>10. r \notin deferred
  BY <1>4 DEF Handlers, Begun
<1>11. Handlers'
  BY <1>1, <1>8, <1>10 DEF Handlers, NothingLeft, Begun, TypeOK
<1>12. Answered' = Answered
  BY <1>4, <1>8 DEF Answered
<1>13. Places'
  <2>1. \A q \in Peer, s \in Request :
          Message("request", s) \in Traffic(q)' =>
              state'[s] = "none" /\ pc'[s] \notin {"idle", "send"}
    <3> SUFFICES ASSUME NEW q \in Peer, NEW s \in Request, Message("request", s) \in Traffic(q)'
                 PROVE  state'[s] = "none" /\ pc'[s] \notin {"idle", "send"}
      OBVIOUS
    <3>1. Message("request", s) \in Traffic(q)
      BY <1>2
    <3>2. q = To[s] /\ state[s] = "none" /\ pc[s] \notin {"idle", "send"}
      BY <3>1 DEF Places, Requests
    <3>3. s # r
      BY <1>2, <1>3, <1>4, <3>2
    <3> QED
      BY <1>1, <1>8, <3>2, <3>3
  <2>2. \A s \in writing' : state'[s] = "replied"
    BY <1>1, <1>4, <1>8 DEF Places, Writes, TypeOK
  <2>3. \A q \in Peer : Traffic(q)' \subseteq Traffic(q) /\ found'[q] \subseteq found[q]
    BY <1>1, <1>2
  <2> QED
    BY <1>1, <1>2, <1>12, <2>1, <2>2, <2>3, PlacesShrink
<1>14. \A q \in Peer : \A i \in 1 .. Len(order[q]) :
          /\ order[q][i] \in Request /\ To[order[q][i]] = q
          /\ state[order[q][i]] # "none" /\ order[q][i] # r
  BY <1>4, ElementOfSeq DEF TypeOK, Orders, OrderRight
<1>15. OrderRight'
  BY <1>4, <1>5, <1>6, <1>8, <1>14 DEF OrderRight
<1>16. OrderOnce'
  <2>1. Once(order'[p])
    BY <1>5, <1>6, <1>14 DEF Once, Orders, OrderOnce
  <2> QED
    BY <1>6, <2>1 DEF OrderOnce, Once, Orders
<1>17. OrderAll'
  <2> SUFFICES ASSUME NEW s \in Request, state'[s] # "none"
               PROVE  \E i \in 1 .. Len(order'[To[s]]) : order'[To[s]][i] = s
    BY DEF OrderAll
  <2>1. CASE s = r
    BY <1>4, <1>5, <1>6, <2>1
  <2>2. CASE s # r
    <3>1. PICK i \in 1 .. Len(order[To[s]]) : order[To[s]][i] = s
      BY <1>8, <2>2 DEF Orders, OrderAll
    <3>2. To[s] \in Peer
      BY RequestAssumption
    <3>3. CASE To[s] = p
      <4>1. i \in 1 .. Len(order[p]) /\ i \in 1 .. Len(order'[p])
        BY <1>5, <1>6, <3>1, <3>3
      <4>2. order'[p][i] = s
        BY <1>6, <3>1, <3>3, <4>1
      <4> QED
        BY <3>3, <4>1, <4>2
    <3>4. CASE To[s] # p
      BY <1>6, <3>1, <3>2, <3>4
    <3> QED
      BY <3>3, <3>4
  <2> QED
    BY <2>1, <2>2
<1>18. HandledInOrder'
  <2> SUFFICES ASSUME NEW q \in Peer, NEW i \in 1 .. Len(order'[q]), NEW j \in 1 .. Len(order'[q]),
                      i < j, Begun(order[q][j])'
               PROVE  Released(order[q][i])'
    BY DEF HandledInOrder
  <2>1. order'[q][j] # r
    BY <1>8 DEF Begun
  <2>2. j \in 1 .. Len(order[q]) /\ i \in 1 .. Len(order[q])
    BY <1>5, <1>6, <2>1
  <2>3. order'[q][j] = order[q][j] /\ order'[q][i] = order[q][i]
    BY <1>6, <2>2
  <2>4. Begun(order[q][j])
    <3>1. state'[order[q][j]] = state[order[q][j]]
      BY <1>8, <1>14, <2>2
    <3> QED
      BY <2>3, <3>1 DEF Begun
  <2>5. Released(order[q][i])
    BY <2>2, <2>4 DEF Orders, HandledInOrder
  <2>6. state'[order[q][i]] = state[order[q][i]]
    BY <1>8, <1>14, <2>2
  <2> QED
    BY <2>3, <2>5, <2>6 DEF Released
<1> QED
  BY <1>7, <1>9, <1>11, <1>13, <1>15, <1>16, <1>17, <1>18 DEF Orders

(* Run looks up the call of a response, which leaves the wire. *)
LEMMA RunLookUpStep ==
    ASSUME IInv, NEW p \in Peer, RunLookUp(p)
    PROVE  IInv'
<1> DEFINE r == FirstMessage(p).r
           m == FirstMessage(p)
<1> USE DEF IInv
<1>1. /\ UNCHANGED <<pc, outcome, expired, pending, rchan, run, order, lost,
                     state, handling, cancelled, writing, deferred>>
      /\ Reads(p) /\ Consumed(p) /\ m.kind = "response" /\ found[p] = {}
      /\ found' = [found EXCEPT ![p] = {r} \intersect pending]
  BY DEF RunLookUp, Reads, callVars, handleVars
<1>2. /\ wire' \in [Peer -> Seq(Msg)]
      /\ WireOnce'
      /\ m \in Traffic(p) /\ m \in Msg /\ m = Message(m.kind, r)
      /\ Traffic(p)' = Traffic(p) \ {m}
      /\ \A s \in Peer \ {p} : Traffic(s)' = Traffic(s)
  <2> HIDE DEF m, r
  <2> QED
    BY <1>1, ReadMessage DEF TypeOK, Places, Msg, m, r
<1>3. r \in Request /\ m = Message("response", r)
  BY <1>1, <1>2 DEF Msg
<1> HIDE DEF m, r
<1>4. p = Caller(r) /\ r \in Answered /\ r \notin writing \union rchan
  BY <1>2, <1>3 DEF Places, Responses
<1>5. TypeOK'
  <2>1. found' \in [Peer -> SUBSET Request]
    BY <1>1, <1>3 DEF TypeOK
  <2> QED
    BY <1>1, <1>2, <2>1 DEF TypeOK, Msg
<1>6. Callers' /\ Handlers' /\ Orders' /\ Answered' = Answered
  BY <1>1, SameState DEF Callers, Handlers, NothingLeft, Begun
<1>7. Requests'
  BY <1>1, <1>2 DEF Places, Requests
<1>8. /\ found'[p] \subseteq {r}
      /\ \A q \in Peer \ {p} : found'[q] = found[q]
  BY <1>1 DEF TypeOK
<1>9. Responses'
  <2> SUFFICES ASSUME NEW q \in Peer, NEW s \in Request, Message("response", s) \in Traffic(q)'
               PROVE  q = Caller(s) /\ s \in Answered /\ s \notin writing \union found'[q] \union rchan
    BY <1>1, <1>6 DEF Responses
  <2>1. Message("response", s) \in Traffic(q)
    BY <1>2
  <2>2. q = Caller(s) /\ s \in Answered /\ s \notin writing \union found[q] \union rchan
    BY <2>1 DEF Places, Responses
  <2>3. q = p => s # r
    BY <1>2, <1>3
  <2> QED
    BY <1>8, <2>2, <2>3
<1>10. Finds' /\ Channels' /\ Writes'
  BY <1>1, <1>4, <1>6, <1>8 DEF Places, Finds, Channels, Writes
<1> QED
  BY <1>2, <1>5, <1>6, <1>7, <1>9, <1>10 DEF Places

(* Run sends the response to the channel of the call. *)
LEMMA RunDeliverStep ==
    ASSUME IInv, NEW p \in Peer, RunDeliver(p)
    PROVE  IInv'
<1> USE DEF IInv
<1>1. /\ UNCHANGED <<pc, outcome, expired, pending, wire, run, order, lost,
                     state, handling, cancelled, writing, deferred>>
      /\ rchan' = rchan \union found[p]
      /\ found' = [found EXCEPT ![p] = {}]
  BY DEF RunDeliver, callVars, handleVars
<1>2. found'[p] = {} /\ \A q \in Peer \ {p} : found'[q] = found[q]
  BY <1>1 DEF TypeOK
<1>3. TypeOK'
  <2>1. found' \in [Peer -> SUBSET Request] /\ rchan' \subseteq Request
    BY <1>1 DEF TypeOK
  <2> QED
    BY <1>1, <2>1 DEF TypeOK
<1>4. Callers' /\ Handlers' /\ Orders' /\ Answered' = Answered
  BY <1>1, SameState DEF Callers, Handlers, NothingLeft, Begun
<1>5. WireOnce' /\ \A q \in Peer : Traffic(q)' = Traffic(q)
  BY <1>1 DEF Places, WireOnce, Traffic
<1>6. Requests'
  BY <1>1, <1>5 DEF Places, Requests
<1>7. Responses'
  <2> SUFFICES ASSUME NEW q \in Peer, NEW s \in Request, Message("response", s) \in Traffic(q)'
               PROVE  q = Caller(s) /\ s \in Answered /\ s \notin writing \union found'[q] \union rchan'
    BY <1>1, <1>4 DEF Responses
  <2>1. q = Caller(s) /\ s \in Answered /\ s \notin writing \union found[q] \union rchan
    BY <1>5 DEF Places, Responses
  <2>2. s \in found[p] => p = Caller(s)
    BY DEF Places, Finds
  <2> QED
    BY <1>1, <1>2, <2>1, <2>2
<1>8. Finds' /\ Channels' /\ Writes'
  BY <1>1, <1>2, <1>4 DEF Places, Finds, Channels, Writes
<1> QED
  BY <1>3, <1>4, <1>5, <1>6, <1>7, <1>8 DEF Places

(* Run skips a message, or ends. *)
LEMMA RunFaultStep ==
    ASSUME IInv, NEW p \in Peer, RunSkip(p) \/ RunEnds(p)
    PROVE  IInv'
<1> USE DEF IInv
<1>1. /\ UNCHANGED <<pc, outcome, expired, pending, rchan, found, order,
                     state, handling, cancelled, writing, deferred>>
      /\ \/ Reads(p) /\ Consumed(p) /\ UNCHANGED run
         \/ UNCHANGED wire
  BY DEF RunSkip, RunEnds, callVars, handleVars
<1>2. /\ wire' \in [Peer -> Seq(Msg)]
      /\ WireOnce'
      /\ \A q \in Peer : Traffic(q)' \subseteq Traffic(q)
  <2>1. CASE Reads(p) /\ Consumed(p)
    BY <2>1, ReadMessage DEF TypeOK, Places, Msg
  <2>2. CASE UNCHANGED wire
    BY <2>2 DEF TypeOK, Places, WireOnce, Traffic, Msg
  <2> QED
    BY <1>1, <2>1, <2>2
<1>3. lost' \in 0 .. MaxFaults
  <2>1. CASE RunSkip(p)
    <3>1. Cardinality({q \in Peer : run[q] = "ended"}) \in Nat
      <4>1. IsFiniteSet({q \in Peer : run[q] = "ended"})
        BY PeerAssumption, FS_Subset
      <4> QED
        BY <4>1, FS_CardinalityType
    <3> QED
      BY <2>1, <3>1, BoundAssumption DEF RunSkip, Faults, TypeOK
  <2>2. CASE RunEnds(p)
    BY <2>2 DEF RunEnds, TypeOK
  <2> QED
    BY <2>1, <2>2
<1>4. run' \in [Peer -> {"reading", "ended"}]
  BY DEF RunSkip, RunEnds, TypeOK
<1>5. TypeOK'
  BY <1>1, <1>2, <1>3, <1>4 DEF TypeOK, Msg
<1>6. Callers' /\ Handlers' /\ Orders' /\ Answered' = Answered
  BY <1>1, SameState DEF Callers, Handlers, NothingLeft, Begun
<1>7. Places'
  <2>1. \A q \in Peer, s \in Request :
          Message("request", s) \in Traffic(q)' =>
              state'[s] = "none" /\ pc'[s] \notin {"idle", "send"}
    BY <1>1, <1>2 DEF Places, Requests
  <2>2. \A s \in writing' : state'[s] = "replied"
    BY <1>1 DEF Places, Writes
  <2> QED
    BY <1>1, <1>2, <1>6, <2>1, <2>2, PlacesShrink
<1> QED
  BY <1>5, <1>6, <1>7

LEMMA NextIInv == IInv /\ [Next]_vars => IInv'
<1>1. ASSUME IInv, UNCHANGED vars
      PROVE  IInv'
  <2> USE <1>1 DEF IInv, vars, callVars, readVars, handleVars
  <2>1. TypeOK' /\ Callers' /\ Handlers'
    BY DEF TypeOK, Callers, Handlers, NothingLeft, Begun
  <2>2. Places'
    BY SameState, PlacesKept DEF Places, Writes
  <2> QED
    BY <2>1, <2>2, SameState
<1> QED
  BY <1>1, CallStep, SendStep, HandlerStep, ReplyStep, WriteReplyStep, StartStep,
     RunRequestStep, RunLookUpStep, RunDeliverStep, RunFaultStep
     DEF Next

(* The invariant holds for any requests and any faults.                    *)
THEOREM IInvCorrect == Spec => []IInv
BY InitIInv, NextIInv, PTL DEF Spec

(* The variables have their types.                                         *)
THEOREM TypeCorrect == Spec => []TypeOK
<1>1. IInv => TypeOK
  BY DEF IInv
<1> QED
  BY <1>1, IInvCorrect, PTL

(* RunNeverBlocks: the channel a response is sent to is empty.             *)
THEOREM NeverBlocks == Spec => []RunNeverBlocks
<1>1. IInv => RunNeverBlocks
  BY DEF IInv, Places, Finds, RunNeverBlocks
<1> QED
  BY <1>1, IInvCorrect, PTL

(* HandledInOrder: requests are handled in the order they were read.       *)
THEOREM OrderCorrect == Spec => []HandledInOrder
<1>1. IInv => HandledInOrder
  BY DEF IInv, Orders
<1> QED
  BY <1>1, IInvCorrect, PTL

(* NothingLeft: the tables hold only what is in progress.                  *)
THEOREM NothingLeftCorrect == Spec => []NothingLeft
<1>1. IInv => NothingLeft
  BY DEF IInv, Handlers
<1> QED
  BY <1>1, IInvCorrect, PTL

-----------------------------------------------------------------------------
(***************************************************************************)
(* The refinement: every step is a step of RequestResponse, or a stutter.  *)
(***************************************************************************)
Stages == [r \in Request |-> Stage(r)]

AbstractStep == Abstract!Next \/ UNCHANGED <<Stages, Answered, outcome>>

LEMMA StageOf ==
    ASSUME TypeOK, Callers, NEW r \in Request
    PROVE  /\ Stage(r) = "idle" <=> pc[r] = "idle"
           /\ Stage(r) = "asked" <=> pc[r] # "idle" /\ state[r] \in {"none", "waiting"}
           /\ Stage(r) = "serial" <=> state[r] = "serial"
           /\ Stage(r) = "released" <=> Released(r)
BY DEF TypeOK, Callers, Stage, Begun, Released

(* A step that leaves the stages of all requests alone. *)
LEMMA StagesKept ==
    ASSUME \A r \in Request :
                /\ pc'[r] = "idle" <=> pc[r] = "idle"
                /\ Begun(r)' <=> Begun(r)
                /\ state'[r] = "serial" <=> state[r] = "serial"
    PROVE  Stages' = Stages
<1>1. \A r \in Request : Stage(r)' = Stage(r)
  BY DEF Stage
<1> QED
  BY <1>1 DEF Stages

(* A step that changes the stage of one. *)
LEMMA StageSet ==
    ASSUME NEW r \in Request,
           \A q \in Request \ {r} : pc'[q] = pc[q] /\ state'[q] = state[q]
    PROVE  Stages' = [Stages EXCEPT ![r] = Stage(r)']
<1>1. \A q \in Request \ {r} : Stage(q)' = Stage(q)
  BY DEF Stage, Begun
<1>2. Stages' = [q \in Request |-> Stage(q)']
  BY DEF Stages
<1> QED
  BY <1>1, <1>2 DEF Stages

(* A call or notification returns. *)
LEMMA ReturnStep ==
    ASSUME IInv, NEW r \in Request, NEW how \in {"answer", "sent", "error"},
           pc[r] \in {"send", "wait"}, Returns(r, how), UNCHANGED state,
           how = "answer" => r \in Answered
    PROVE  AbstractStep
<1> USE DEF IInv
<1>1. \A q \in Request : pc'[q] = "idle" <=> pc[q] = "idle"
  BY DEF Returns, TypeOK
<1>2. Stages' = Stages /\ Answered' = Answered
  BY <1>1, StagesKept DEF Begun, Answered
<1>3. Stages[r] # "idle" /\ outcome[r] = "none"
  BY StageOf DEF Stages, Callers
<1>4. outcome' = [outcome EXCEPT ![r] = how]
  BY DEF Returns
<1>5. Abstract!Return(r, how)
  BY <1>2, <1>3, <1>4 DEF Abstract!Return, Stages
<1> QED
  BY <1>5 DEF AbstractStep, Abstract!Next

LEMMA CallAbstractStep ==
    ASSUME IInv, NEW r \in Request,
           Call(r) \/ Send(r) \/ SendFails(r) \/ Receive(r) \/ GiveUp(r) \/ Expire(r)
    PROVE  AbstractStep
<1> USE DEF IInv
<1>1. CASE Call(r)
  <2>1. Stages' = [Stages EXCEPT ![r] = Stage(r)'] /\ UNCHANGED <<Answered, outcome>>
    BY <1>1, StageSet DEF Call, handleVars, TypeOK, Answered
  <2>2. Stages[r] = "idle"
    BY <1>1, StageOf DEF Call, Stages
  <2>3. Stage(r)' = "asked"
    BY <1>1 DEF Call, handleVars, TypeOK, Callers, Stage, Begun
  <2>4. Abstract!Ask(r)
    BY <2>1, <2>2, <2>3 DEF Abstract!Ask, Stages
  <2> QED
    BY <2>4 DEF AbstractStep, Abstract!Next
<1>2. CASE Send(r) /\ r \in Notify
  BY <1>2, ReturnStep DEF Send, handleVars
<1>3. CASE Send(r) /\ r \notin Notify
  <2>1. /\ pc[r] = "send" /\ pc' = [pc EXCEPT ![r] = "wait"]
        /\ UNCHANGED <<outcome, state>>
    BY <1>3 DEF Send, handleVars
  <2>2. Stages' = Stages /\ Answered' = Answered
    BY <2>1, StagesKept DEF TypeOK, Begun, Answered
  <2> QED
    BY <2>1, <2>2 DEF AbstractStep
<1>4. CASE SendFails(r)
  BY <1>4, ReturnStep DEF SendFails, handleVars
<1>5. CASE Receive(r)
  BY <1>5, ReturnStep DEF Receive, handleVars, Places, Channels
<1>6. CASE GiveUp(r)
  BY <1>6, ReturnStep DEF GiveUp, handleVars
<1>7. CASE Expire(r)
  BY <1>7, StagesKept DEF Expire, handleVars, Begun, Answered, AbstractStep
<1> QED
  BY <1>1, <1>2, <1>3, <1>4, <1>5, <1>6, <1>7

(* Of the requests of one end, one is being handled serially at most.      *)
LEMMA OneSerial ==
    ASSUME IInv, NEW r \in Request, Start(r),
           NEW s \in Request, To[s] = To[r]
    PROVE  state[s] # "serial"
<1> USE DEF IInv
<1> SUFFICES ASSUME state[s] = "serial" PROVE FALSE
  OBVIOUS
<1> DEFINE p == To[r]
<1>1. p \in Peer /\ Len(order[p]) \in Nat
  BY CallerFacts, LenProperties DEF TypeOK
<1>2. state[r] = "waiting" /\ \A q \in Before(r) : Released(q)
  BY DEF Start
<1>3. PICK i \in 1 .. Len(order[p]) : order[p][i] = s
  BY DEF Orders, OrderAll
<1>4. PICK j \in 1 .. Len(order[p]) : order[p][j] = r
  BY <1>2 DEF Orders, OrderAll
<1>5. Begun(s) /\ ~Released(s) /\ ~Released(r)
  BY <1>2 DEF Begun, Released
<1> HIDE DEF p
<1>6. CASE j < i
  BY <1>1, <1>3, <1>4, <1>5, <1>6 DEF Orders, HandledInOrder
<1>7. CASE i < j
  <2>1. j - 1 \in 1 .. Len(order[p]) - 1 /\ j - 1 \in 1 .. Len(order[p]) /\ (j - 1) + 1 = j
    BY <1>1, <1>7
  <2>2. order[p][j - 1] \in Before(r)
    BY <1>4, <2>1 DEF Before, p
  <2>3. Released(order[p][j - 1])
    BY <1>2, <2>2
  <2>4. Begun(order[p][j - 1])
    BY <2>3 DEF Begun, Released
  <2>5. i = j - 1 \/ i < j - 1
    BY <1>1, <1>7
  <2>6. Released(order[p][i])
    BY <1>1, <2>1, <2>3, <2>4, <2>5 DEF Orders, HandledInOrder
  <2> QED
    BY <1>3, <1>5, <2>6
<1>8. i # j
  BY <1>2, <1>3, <1>4
<1> QED
  BY <1>1, <1>6, <1>7, <1>8

LEMMA HandlerAbstractStep ==
    ASSUME IInv, NEW r \in Request,
           \/ Start(r) \/ Parallel(r) \/ Reply(r) \/ WriteReply(r)
           \/ Delivered(r) \/ Done(r) \/ Cancel(r)
    PROVE  AbstractStep
<1> USE DEF IInv
<1>1. UNCHANGED <<pc, outcome>>
  BY DEF Start, Parallel, Reply, WriteReply, Delivered, Done, Cancel, callVars
<1>2. CASE Start(r)
  <2>1. state[r] = "waiting" /\ state' = [state EXCEPT ![r] = "serial"]
    BY <1>2 DEF Start
  <2>2. Stages' = [Stages EXCEPT ![r] = Stage(r)'] /\ UNCHANGED Answered
    BY <1>1, <2>1, StageSet DEF TypeOK, Answered
  <2>3. Stages[r] = "asked" /\ Stage(r)' = "serial"
    BY <1>1, <2>1 DEF Stages, Stage, Begun, TypeOK, Callers
  <2>4. \A s \in Request : To[s] = To[r] => Stages[s] # "serial"
    BY <1>2, OneSerial, StageOf DEF Stages
  <2>5. Abstract!Begin(r)
    BY <1>1, <2>2, <2>3, <2>4 DEF Abstract!Begin, Stages
  <2> QED
    BY <2>5 DEF AbstractStep, Abstract!Next
<1>3. CASE Parallel(r) \/ (Done(r) /\ state[r] = "serial")
  <2>1. /\ state[r] = "serial"
        /\ \/ state' = [state EXCEPT ![r] = "parallel"]
           \/ r \in Notify /\ state' = [state EXCEPT ![r] = "done"]
    <3>1. CASE Parallel(r)
      BY <3>1 DEF Parallel
    <3>2. CASE Done(r) /\ state[r] = "serial"
      <4>1. r \in Notify /\ state' = [state EXCEPT ![r] = "done"]
        BY <3>2 DEF Done
      <4> QED
        BY <3>2, <4>1
    <3> QED
      BY <1>3, <3>1, <3>2
  <2>2. \A q \in Request \ {r} : pc'[q] = pc[q] /\ state'[q] = state[q]
    BY <1>1, <2>1 DEF TypeOK
  <2>3. Stages' = [Stages EXCEPT ![r] = Stage(r)']
    BY <2>2, StageSet
  <2>4. state'[r] = "parallel" \/ (r \in Notify /\ state'[r] = "done")
    BY <2>1 DEF TypeOK
  <2>5. UNCHANGED Answered
    BY <2>1, <2>2, <2>4 DEF Answered
  <2>6. Stages[r] = "serial" /\ Stage(r)' = "released"
    BY <1>1, <2>1, <2>4 DEF Stages, Stage, Begun, TypeOK, Callers
  <2>7. Abstract!Release(r)
    BY <1>1, <2>3, <2>5, <2>6 DEF Abstract!Release, Stages
  <2> QED
    BY <2>7 DEF AbstractStep, Abstract!Next
<1>4. CASE Reply(r)
  <2>1. /\ state[r] \in {"serial", "parallel"} /\ r \notin Notify
        /\ state' = [state EXCEPT ![r] = "replied"]
    BY <1>4 DEF Reply, InHandler
  <2>2. Stages' = [Stages EXCEPT ![r] = Stage(r)']
    BY <1>1, <2>1, StageSet DEF TypeOK
  <2>3. r \notin Answered /\ Answered' = Answered \union {r}
    BY <2>1 DEF Answered, TypeOK
  <2>4. Stages[r] \in {"serial", "released"} /\ Stage(r)' = "released"
    BY <1>1, <2>1 DEF Stages, Stage, Begun, TypeOK, Callers
  <2>5. Abstract!Answer(r)
    BY <1>1, <2>2, <2>3, <2>4 DEF Abstract!Answer, Stages
  <2> QED
    BY <2>5 DEF AbstractStep, Abstract!Next
<1>5. CASE WriteReply(r) \/ Delivered(r) \/ Cancel(r)
  <2>1. UNCHANGED state
    BY <1>5 DEF WriteReply, Delivered, Cancel
  <2> QED
    BY <1>1, <2>1, StagesKept DEF Begun, Answered, AbstractStep
<1>6. CASE Done(r) /\ state[r] # "serial"
  <2>1. /\ \/ state[r] = "parallel" /\ r \in Notify
           \/ state[r] = "replied"
        /\ state' = [state EXCEPT ![r] = "done"]
    BY <1>6 DEF Done, InHandler
  <2>2. Stages' = Stages
    BY <1>1, <2>1, StagesKept DEF Begun, TypeOK
  <2>3. Answered' = Answered
    BY <2>1 DEF Answered, TypeOK
  <2> QED
    BY <1>1, <2>2, <2>3 DEF AbstractStep
<1> QED
  BY <1>2, <1>3, <1>4, <1>5, <1>6

LEMMA RunAbstractStep ==
    ASSUME IInv, NEW p \in Peer,
           RunRequest(p) \/ RunLookUp(p) \/ RunDeliver(p) \/ RunSkip(p) \/ RunEnds(p)
    PROVE  AbstractStep
<1> USE DEF IInv
<1>1. CASE RunRequest(p)
  <2> DEFINE r == FirstMessage(p).r
  <2>1. state' = [state EXCEPT ![r] = "waiting"] /\ UNCHANGED <<pc, outcome>>
    BY <1>1 DEF RunRequest, callVars
  <2>2. Reads(p) /\ Consumed(p) /\ FirstMessage(p).kind = "request"
    BY <1>1 DEF RunRequest
  <2>3. /\ FirstMessage(p) \in Traffic(p) /\ FirstMessage(p) \in Msg
        /\ FirstMessage(p) = Message("request", r)
    BY <2>2, ReadMessage DEF TypeOK, Places, Msg
  <2>4. r \in Request /\ state[r] = "none"
    BY <2>3 DEF Msg, Places, Requests
  <2> HIDE DEF r
  <2>5. Stages' = Stages
    BY <2>1, <2>4, StagesKept DEF Begun, TypeOK
  <2>6. Answered' = Answered
    BY <2>1, <2>4 DEF Answered, TypeOK
  <2> QED
    BY <2>1, <2>5, <2>6 DEF AbstractStep
<1>2. CASE RunLookUp(p) \/ RunDeliver(p) \/ RunSkip(p) \/ RunEnds(p)
  <2>1. UNCHANGED <<pc, outcome, state>>
    BY <1>2 DEF RunLookUp, RunDeliver, RunSkip, RunEnds, callVars, handleVars
  <2> QED
    BY <2>1, StagesKept DEF Begun, Answered, AbstractStep
<1> QED
  BY <1>1, <1>2

(* RequestResponseSpec: the connection implements RequestResponse.         *)
THEOREM Implements == Spec => RequestResponseSpec
<1>1. Init => Abstract!Init
  BY DEF Init, Abstract!Init, Stage, Answered
<1>2. ASSUME IInv, UNCHANGED vars
      PROVE  AbstractStep
  BY <1>2, StagesKept DEF vars, callVars, handleVars, Begun, Answered, AbstractStep
<1>3. IInv /\ [Next]_vars => AbstractStep
  BY <1>2, CallAbstractStep, HandlerAbstractStep, RunAbstractStep DEF Next
<1>4. AbstractStep <=> [Abstract!Next]_<<Stages, Answered, outcome>>
  BY DEF AbstractStep
<1> QED
  BY <1>1, <1>3, <1>4, IInvCorrect, PTL
     DEF Spec, RequestResponseSpec, Abstract!Spec, Abstract!rrVars, Stages

=============================================================================
