------------------------- MODULE ResourceTreeProofs -------------------------
(***************************************************************************)
(* What EnsureResource guarantees for every tree of resources, every set   *)
(* of versions and any number of runs and failures.                        *)
(*                                                                         *)
(* The invariant follows the recursion: every call in progress is the one  *)
(* its caller waits for, what a call has gone through is in visited, and   *)
(* what is in visited is deployed, except for the resource whose Update is *)
(* at work.                                                                *)
(***************************************************************************)
EXTENDS ResourceTree, SequenceTheorems, TLAPS

CallsChained ==
    \A i \in 1 .. Len(stack) - 1 :
        /\ stack[i].step = "subresources"
        /\ stack[i].done < Len(Sub[stack[i].r])
        /\ stack[i + 1].r = Sub[stack[i].r][stack[i].done + 1]

DoneBounded ==
    \A i \in 1 .. Len(stack) :
        /\ stack[i].done <= Len(Sub[stack[i].r])
        /\ stack[i].step # "subresources" => stack[i].done = Len(Sub[stack[i].r])

DoneVisited ==
    \A i \in 1 .. Len(stack) : \A j \in 1 .. stack[i].done :
        Sub[stack[i].r][j] \in visited

VisitedClosed == \A r \in visited : SubsOf(r) \subseteq visited

VisitedDeployed ==
    ~dry => \A r \in visited : AtTarget(r) \/ (At("work") /\ r = Top.r)

ReturnDeployed == ~dry /\ At("return") => AtTarget(Top.r)

DryWork == dry /\ At("work") => Top.r \in Grouping

Calls == CallsChained /\ DoneBounded /\ DoneVisited
TagsRight == VisitedClosed /\ VisitedDeployed /\ ReturnDeployed /\ DryWork

IInv == TypeOK /\ Calls /\ TagsRight

-----------------------------------------------------------------------------
(* The callers of the innermost call. *)
LEMMA BelowFacts ==
    ASSUME stack \in Seq(Frame), ~Idle
    PROVE  /\ Len(stack) \in Nat \ {0}
           /\ Top \in Frame
           /\ Below \in Seq(Frame)
           /\ Len(Below) = Len(stack) - 1
           /\ \A i \in 1 .. Len(stack) - 1 : Below[i] = stack[i]
<1>1. Len(stack) \in Nat \ {0}
  BY EmptySeq DEF Idle
<1>2. \A i \in 1 .. Len(stack) : stack[i] \in Frame
  BY ElementOfSeq
<1>3. Top \in Frame
  BY <1>1, <1>2 DEF Top
<1>4. 1 \in Int /\ Len(stack) - 1 \in Int /\ \A i \in 1 .. Len(stack) - 1 : stack[i] \in Frame
  BY <1>1, <1>2
<1>5. /\ Below \in Seq(Frame)
      /\ Len(Below) = IF 1 <= Len(stack) - 1 THEN Len(stack) - 1 - 1 + 1 ELSE 0
      /\ \A i \in 1 .. Len(stack) - 1 - 1 + 1 : Below[i] = stack[1 + i - 1]
  BY <1>4, SubSeqProperties DEF Below
<1>6. Len(stack) - 1 - 1 + 1 = Len(stack) - 1 /\ \A i \in 1 .. Len(stack) - 1 : 1 + i - 1 = i
  BY <1>1
<1>7. Len(Below) = Len(stack) - 1
  <2>1. \A k \in Nat \ {0} : (IF 1 <= k - 1 THEN k - 1 - 1 + 1 ELSE 0) = k - 1
    OBVIOUS
  <2> QED
    BY <1>1, <1>5, <2>1, Zenon
<1>8. \A i \in 1 .. Len(stack) - 1 : Below[i] = stack[i]
  BY <1>5, <1>6
<1> QED
  BY <1>1, <1>3, <1>5, <1>7, <1>8

(* The stack when the innermost call takes a decision. *)
LEMMA DecideStack ==
    ASSUME stack \in Seq(Frame), ~Idle, NEW step \in {"work", "return"}, Decide(step)
    PROVE  /\ stack' \in Seq(Frame)
           /\ Len(stack') = Len(stack)
           /\ Len(stack) \in Nat \ {0}
           /\ \A i \in 1 .. Len(stack) - 1 : stack'[i] = stack[i]
           /\ stack'[Len(stack)].r = Top.r
           /\ stack'[Len(stack)].done = Top.done
           /\ stack'[Len(stack)].step = step
<1>1. [Top EXCEPT !.step = step] \in Frame
  BY BelowFacts DEF Frame
<1>2. /\ stack' \in Seq(Frame)
      /\ Len(stack') = Len(Below) + 1
      /\ \A i \in 1 .. Len(Below) : stack'[i] = Below[i]
      /\ stack'[Len(Below) + 1] = [Top EXCEPT !.step = step]
  BY <1>1, BelowFacts, AppendProperties DEF Decide
<1> QED
  BY <1>2, BelowFacts DEF Frame

(* The stack when a call is added to it. *)
LEMMA PushStack ==
    ASSUME stack \in Seq(Frame), NEW r \in Resource, stack' = Append(stack, Call(r))
    PROVE  /\ stack' \in Seq(Frame)
           /\ Len(stack') = Len(stack) + 1
           /\ Len(stack) \in Nat
           /\ \A i \in 1 .. Len(stack) : stack'[i] = stack[i]
           /\ stack'[Len(stack) + 1] = Call(r)
<1>1. Call(r) \in Frame
  BY DEF Call, Frame
<1> QED
  BY <1>1, AppendProperties, LenProperties

(* The stack when the innermost call returns to its caller. *)
LEMMA PopStack ==
    ASSUME stack \in Seq(Frame), ~Idle, Below # <<>>,
           stack' = [Below EXCEPT ![Len(Below)].done = @ + 1]
    PROVE  /\ stack' \in Seq(Frame)
           /\ Len(stack') = Len(stack) - 1
           /\ Len(stack') \in Nat \ {0}
           /\ Len(stack) \in Nat
           /\ \A i \in 1 .. Len(stack') - 1 : stack'[i] = stack[i]
           /\ stack'[Len(stack')].r = stack[Len(stack')].r
           /\ stack'[Len(stack')].done = stack[Len(stack')].done + 1
           /\ stack'[Len(stack')].step = stack[Len(stack')].step
<1>1. Len(Below) \in Nat \ {0}
  BY BelowFacts, EmptySeq
<1>2. Below[Len(Below)] \in Frame
  BY <1>1, BelowFacts, ElementOfSeq
<1> DEFINE caller == [Below[Len(Below)] EXCEPT !.done = @ + 1]
<1>3. /\ caller \in Frame
      /\ caller.r = Below[Len(Below)].r
      /\ caller.done = Below[Len(Below)].done + 1
      /\ caller.step = Below[Len(Below)].step
  <2> DEFINE top == Below[Len(Below)]
  <2>1. /\ top = [r |-> top.r, done |-> top.done, step |-> top.step]
        /\ top.r \in Resource /\ top.done \in Nat
        /\ top.step \in {"subresources", "work", "return"}
    BY <1>2 DEF Frame
  <2>2. caller = [top EXCEPT !.done = top.done + 1]
    OBVIOUS
  <2> HIDE DEF top, caller
  <2>3. caller = [r |-> top.r, done |-> top.done + 1, step |-> top.step]
    BY <2>1, <2>2
  <2>4. caller \in Frame /\ caller.r = top.r /\ caller.done = top.done + 1 /\ caller.step = top.step
    BY <2>1, <2>3 DEF Frame
  <2> QED
    BY <2>4 DEF top
<1>4. stack' = [Below EXCEPT ![Len(Below)] = caller]
  OBVIOUS
<1> HIDE DEF caller
<1>5. /\ stack' \in Seq(Frame)
      /\ Len(stack') = Len(Below)
      /\ \A i \in 1 .. Len(Below) : stack'[i] = IF i = Len(Below) THEN caller ELSE Below[i]
  BY <1>1, <1>3, <1>4, BelowFacts, ExceptSeq
<1> QED
  BY <1>1, <1>3, <1>5, BelowFacts

(* The sub-resources of a resource are what its calls count. *)
LEMMA SubsCounted ==
    ASSUME NEW r \in Resource
    PROVE  /\ Len(Sub[r]) \in Nat
           /\ SubsOf(r) = {Sub[r][i] : i \in 1 .. Len(Sub[r])}
           /\ SubsOf(r) \subseteq Resource
           /\ \A i \in 1 .. Len(Sub[r]) : Sub[r][i] \in Resource
<1>1. Sub[r] \in Seq(Resource)
  BY SubAssumption
<1>2. Len(Sub[r]) \in Nat /\ DOMAIN Sub[r] = 1 .. Len(Sub[r])
  BY <1>1, LenProperties
<1>3. \A i \in 1 .. Len(Sub[r]) : Sub[r][i] \in Resource
  BY <1>1, ElementOfSeq
<1> QED
  BY <1>2, <1>3 DEF SubsOf

(* A call that is past its sub-resources has gone through all of them. *)
LEMMA SubsVisited ==
    ASSUME IInv, ~Idle, Top.step # "subresources"
    PROVE  Top.r \in Resource /\ SubsOf(Top.r) \subseteq visited
<1>1. Len(stack) \in 1 .. Len(stack) /\ Top \in Frame /\ Top = stack[Len(stack)]
  BY BelowFacts DEF IInv, TypeOK, Top
<1>2. Top.r \in Resource /\ Top.done = Len(Sub[Top.r])
  BY <1>1 DEF IInv, Calls, DoneBounded, Frame
<1>3. \A j \in 1 .. Len(Sub[Top.r]) : Sub[Top.r][j] \in visited
  BY <1>1, <1>2 DEF IInv, Calls, DoneVisited
<1> QED
  BY <1>2, <1>3, SubsCounted

-----------------------------------------------------------------------------
(* Fail, Between and Init have no call and nothing visited. *)
LEMMA CleanIInv ==
    ASSUME stack = <<>>, visited = {}, dry \in BOOLEAN,
           deployed \in [Resource -> Versions \union {0}], target \in [Resource -> Versions]
    PROVE  IInv
<1>1. stack \in Seq(Frame) /\ Len(stack) = 0
  BY EmptySeq
<1>2. TypeOK
  BY <1>1 DEF TypeOK
<1>3. Calls
  BY <1>1 DEF Calls, CallsChained, DoneBounded, DoneVisited
<1>4. TagsRight
  BY DEF TagsRight, VisitedClosed, VisitedDeployed, ReturnDeployed, DryWork, At, Idle
<1> QED
  BY <1>2, <1>3, <1>4 DEF IInv

LEMMA InitIInv == Init => IInv
BY CleanIInv DEF Init

LEMMA BeginIInv == ASSUME IInv, NEW root \in Resource, Begin(root) PROVE IInv'
<1>1. stack' = <<Call(root)>> /\ Call(root) \in Frame
  BY DEF Begin, Call, Frame
<1>2. stack' \in Seq(Frame) /\ Len(stack') = 1 /\ stack'[1] = Call(root)
  BY <1>1
<1>3. TypeOK'
  BY <1>2 DEF IInv, TypeOK, Begin
<1>4. Calls'
  BY <1>2, SubsCounted DEF Calls, CallsChained, DoneBounded, DoneVisited, Call
<1>5. TagsRight'
  BY <1>2 DEF Begin, TagsRight, VisitedClosed, VisitedDeployed, ReturnDeployed, DryWork, At, Top, Call
<1> QED
  BY <1>3, <1>4, <1>5 DEF IInv

LEMMA DescendIInv == ASSUME IInv, Descend PROVE IInv'
<1> DEFINE n == Len(stack)
           r == Sub[Top.r][Top.done + 1]
<1>1. stack \in Seq(Frame) /\ ~Idle /\ n \in Nat \ {0} /\ Top \in Frame /\ Top = stack[n]
  BY BelowFacts DEF IInv, TypeOK, Descend, At, Top
<1>2. /\ Top.step = "subresources" /\ Top.r \in Resource /\ Top.done \in Nat
      /\ Top.done < Len(Sub[Top.r])
  BY <1>1, SubsCounted DEF Descend, At, SubsDone, IInv, Calls, DoneBounded, Frame
<1>3. r \in Resource
  BY <1>2, SubsCounted
<1>4. stack' = Append(stack, Call(r))
  BY DEF Descend
<1>5. /\ stack' \in Seq(Frame)
      /\ Len(stack') = n + 1
      /\ \A i \in 1 .. n : stack'[i] = stack[i]
      /\ stack'[n + 1] = Call(r)
  BY <1>1, <1>3, <1>4, PushStack
<1>6. TypeOK'
  BY <1>5 DEF IInv, TypeOK, Descend
<1>7. CallsChained'
  <2> SUFFICES ASSUME NEW i \in 1 .. n
               PROVE  /\ stack'[i].step = "subresources"
                      /\ stack'[i].done < Len(Sub[stack'[i].r])
                      /\ stack'[i + 1].r = Sub[stack'[i].r][stack'[i].done + 1]
    BY <1>1, <1>5 DEF CallsChained
  <2>1. CASE i = n
    BY <1>1, <1>2, <1>5, <2>1 DEF Call
  <2>2. CASE i # n
    <3>1. i \in 1 .. n - 1 /\ stack'[i] = stack[i] /\ stack'[i + 1] = stack[i + 1]
      BY <1>1, <1>5, <2>2
    <3> QED
      BY <3>1 DEF IInv, Calls, CallsChained
  <2> QED
    BY <2>1, <2>2
<1>8. DoneBounded'
  BY <1>1, <1>3, <1>5, SubsCounted DEF IInv, Calls, DoneBounded, Call
<1>9. DoneVisited'
  BY <1>1, <1>5 DEF IInv, Calls, DoneVisited, Call, Descend
<1>10. TagsRight'
  <2>1. Top'.step = "subresources"
    BY <1>1, <1>5 DEF Top, Call
  <2> QED
    BY <1>2, <2>1
       DEF IInv, TagsRight, VisitedClosed, VisitedDeployed, ReturnDeployed, DryWork, At, AtTarget, Descend
<1> QED
  BY <1>6, <1>7, <1>8, <1>9, <1>10 DEF IInv, Calls

(* Fetch and Worked: the innermost call goes on, past its sub-resources. *)
LEMMA DecideCalls ==
    ASSUME IInv, ~Idle, NEW step \in {"work", "return"}, Decide(step),
           Top.done = Len(Sub[Top.r]), UNCHANGED visited
    PROVE  /\ stack' \in Seq(Frame)
           /\ Calls'
           /\ stack' # <<>>
           /\ Top'.step = step
           /\ Top'.r = Top.r
<1> DEFINE n == Len(stack)
<1>1. /\ stack' \in Seq(Frame)
      /\ Len(stack') = n
      /\ n \in Nat \ {0}
      /\ \A i \in 1 .. n - 1 : stack'[i] = stack[i]
      /\ stack'[n].r = Top.r
      /\ stack'[n].done = Top.done
      /\ stack'[n].step = step
  BY DecideStack DEF IInv, TypeOK
<1>2. Top = stack[n] /\ Top' = stack'[n] /\ Top \in Frame
  BY <1>1, BelowFacts DEF Top, IInv, TypeOK
<1>3. CallsChained'
  BY <1>1, <1>2 DEF IInv, Calls, CallsChained
<1>4. DoneBounded'
  <2> SUFFICES ASSUME NEW i \in 1 .. n
               PROVE  /\ stack'[i].done <= Len(Sub[stack'[i].r])
                      /\ stack'[i].step # "subresources" => stack'[i].done = Len(Sub[stack'[i].r])
    BY <1>1 DEF DoneBounded
  <2>1. CASE i = n
    BY <1>1, <1>2, <2>1 DEF Frame
  <2>2. CASE i # n
    BY <1>1, <2>2 DEF IInv, Calls, DoneBounded
  <2> QED
    BY <2>1, <2>2
<1>5. DoneVisited'
  BY <1>1, <1>2 DEF IInv, Calls, DoneVisited
<1>6. stack' # <<>>
  BY <1>1, EmptySeq
<1> QED
  BY <1>1, <1>2, <1>3, <1>4, <1>5, <1>6 DEF Calls

LEMMA FetchIInv == ASSUME IInv, Fetch PROVE IInv'
<1>1. ~Idle /\ Top.step = "subresources" /\ Top.done = Len(Sub[Top.r])
  BY DEF Fetch, At, SubsDone
<1>2. ASSUME Decide("work"), dry => Top.r \in Grouping PROVE IInv'
  <2>1. /\ stack' \in Seq(Frame) /\ Calls' /\ stack' # <<>>
        /\ Top'.step = "work" /\ Top'.r = Top.r
    BY <1>1, <1>2, DecideCalls DEF Fetch
  <2>2. TypeOK'
    BY <2>1 DEF IInv, TypeOK, Fetch
  <2>3. TagsRight'
    BY <1>1, <1>2, <2>1
       DEF IInv, TagsRight, VisitedClosed, VisitedDeployed, ReturnDeployed, DryWork, At, Idle, AtTarget, Fetch
  <2> QED
    BY <2>1, <2>2, <2>3 DEF IInv
<1>3. ASSUME Decide("return"), dry \/ AtTarget(Top.r) PROVE IInv'
  <2>1. /\ stack' \in Seq(Frame) /\ Calls' /\ stack' # <<>>
        /\ Top'.step = "return" /\ Top'.r = Top.r
    BY <1>1, <1>3, DecideCalls DEF Fetch
  <2>2. TypeOK'
    BY <2>1 DEF IInv, TypeOK, Fetch
  <2>3. TagsRight'
    BY <1>1, <1>3, <2>1
       DEF IInv, TagsRight, VisitedClosed, VisitedDeployed, ReturnDeployed, DryWork, At, Idle, AtTarget, Fetch
  <2> QED
    BY <2>1, <2>2, <2>3 DEF IInv
<1> QED
  BY <1>2, <1>3 DEF Fetch

(* Only the resource at work changes, and not in a dry run. *)
LEMMA WorkEffect ==
    ASSUME IInv, Work
    PROVE  /\ ~dry
           /\ Top.r \in Resource
           /\ deployed' \in [Resource -> Versions \union {0}]
           /\ \A r \in Resource \ {Top.r} : deployed'[r] = deployed[r]
<1>1. ~Idle /\ Top.step = "work" /\ Top.r \notin Grouping
  BY DEF Work, At
<1>2. Top.r \in Resource
  BY <1>1, SubsVisited
<1>3. ~dry
  BY <1>1 DEF IInv, TagsRight, DryWork, At
<1>4. PICK v \in {0, target[Top.r]} : deployed' = [deployed EXCEPT ![Top.r] = v]
  BY DEF Work
<1>5. v \in Versions \union {0}
  BY <1>2, <1>4 DEF IInv, TypeOK
<1> QED
  BY <1>2, <1>3, <1>4, <1>5 DEF IInv, TypeOK

LEMMA WorkIInv == ASSUME IInv, Work PROVE IInv'
<1>1. stack' = stack /\ visited' = visited /\ dry' = dry /\ target' = target
  BY DEF Work
<1>2. At("work") /\ Top.step = "work" /\ Top' = Top
  BY <1>1 DEF Work, At, Top
<1>3. TypeOK'
  BY <1>1, WorkEffect DEF IInv, TypeOK
<1>4. Calls'
  BY <1>1 DEF IInv, Calls, CallsChained, DoneBounded, DoneVisited
<1>5. VisitedDeployed'
  <2> SUFFICES ASSUME NEW r \in visited PROVE AtTarget(r)' \/ r = Top.r
    BY <1>1, <1>2 DEF VisitedDeployed, At, Idle
  <2>1. CASE r # Top.r
    BY <1>1, <1>2, <2>1, WorkEffect DEF IInv, TypeOK, TagsRight, VisitedDeployed, AtTarget
  <2> QED
    BY <2>1
<1>6. VisitedClosed' /\ ReturnDeployed' /\ DryWork'
  BY <1>1, <1>2, WorkEffect DEF IInv, TagsRight, VisitedClosed, ReturnDeployed, DryWork, At
<1> QED
  BY <1>3, <1>4, <1>5, <1>6 DEF IInv, TagsRight

LEMMA WorkedIInv == ASSUME IInv, Worked PROVE IInv'
<1>1. ~Idle /\ Top.step = "work" /\ AtTarget(Top.r) /\ Decide("return")
  BY DEF Worked, At
<1>2. Top.done = Len(Sub[Top.r])
  <2>1. Len(stack) \in 1 .. Len(stack) /\ Top = stack[Len(stack)]
    BY <1>1, BelowFacts DEF IInv, TypeOK, Top
  <2> QED
    BY <1>1, <2>1 DEF IInv, Calls, DoneBounded
<1>3. /\ stack' \in Seq(Frame) /\ Calls' /\ stack' # <<>>
      /\ Top'.step = "return" /\ Top'.r = Top.r
  BY <1>1, <1>2, DecideCalls DEF Worked
<1>4. TypeOK'
  BY <1>3 DEF IInv, TypeOK, Worked
<1>5. TagsRight'
  BY <1>1, <1>3
     DEF IInv, TagsRight, VisitedClosed, VisitedDeployed, ReturnDeployed, DryWork, At, Idle, AtTarget, Worked
<1> QED
  BY <1>3, <1>4, <1>5 DEF IInv

LEMMA ReturnIInv == ASSUME IInv, Return PROVE IInv'
<1>1. /\ ~Idle /\ Top.step = "return" /\ visited' = visited \union {Top.r}
      /\ UNCHANGED <<deployed, target, dry>>
  BY DEF Return, At
<1>2. Top.r \in Resource /\ SubsOf(Top.r) \subseteq visited
  BY <1>1, SubsVisited
<1>3. VisitedClosed'
  BY <1>1, <1>2 DEF IInv, TagsRight, VisitedClosed
<1>4. ~dry => \A r \in visited' : AtTarget(r)
  BY <1>1 DEF IInv, TagsRight, VisitedDeployed, ReturnDeployed, At
<1>5. CASE Below = <<>>
  <2>1. stack' = <<>>
    BY <1>5 DEF Return
  <2>2. TypeOK'
    BY <1>1, <1>2, <2>1, EmptySeq DEF IInv, TypeOK
  <2>3. Calls'
    BY <2>1 DEF Calls, CallsChained, DoneBounded, DoneVisited
  <2>4. TagsRight'
    BY <1>1, <1>3, <1>4, <2>1 DEF TagsRight, VisitedDeployed, ReturnDeployed, DryWork, At, Idle, AtTarget
  <2> QED
    BY <2>2, <2>3, <2>4 DEF IInv
<1>6. CASE Below # <<>>
  <2> DEFINE n == Len(stack')
  <2>1. stack' = [Below EXCEPT ![Len(Below)].done = @ + 1]
    BY <1>6 DEF Return
  <2>2. /\ stack' \in Seq(Frame)
        /\ Len(stack) = n + 1
        /\ n \in Nat \ {0}
        /\ \A i \in 1 .. n - 1 : stack'[i] = stack[i]
        /\ stack'[n].r = stack[n].r
        /\ stack'[n].done = stack[n].done + 1
        /\ stack'[n].step = stack[n].step
    BY <1>1, <1>6, <2>1, PopStack DEF IInv, TypeOK
  <2>3. /\ stack[n] \in Frame
        /\ stack[n].step = "subresources"
        /\ stack[n].done < Len(Sub[stack[n].r])
        /\ Top.r = Sub[stack[n].r][stack[n].done + 1]
    BY <2>2, ElementOfSeq DEF IInv, TypeOK, Calls, CallsChained, Top
  <2>4. TypeOK'
    BY <1>1, <1>2, <2>2 DEF IInv, TypeOK
  <2>5. CallsChained'
    <3> SUFFICES ASSUME NEW i \in 1 .. n - 1
                 PROVE  /\ stack'[i].step = "subresources"
                        /\ stack'[i].done < Len(Sub[stack'[i].r])
                        /\ stack'[i + 1].r = Sub[stack'[i].r][stack'[i].done + 1]
      BY DEF CallsChained
    <3>1. i \in 1 .. Len(stack) - 1 /\ stack'[i] = stack[i]
      BY <2>2
    <3>2. stack'[i + 1].r = stack[i + 1].r
      <4>1. i + 1 = n \/ i + 1 \in 1 .. n - 1
        BY <2>2
      <4> QED
        BY <2>2, <4>1
    <3> QED
      BY <3>1, <3>2 DEF IInv, Calls, CallsChained
  <2>6. DoneBounded'
    <3> SUFFICES ASSUME NEW i \in 1 .. n
                 PROVE  /\ stack'[i].done <= Len(Sub[stack'[i].r])
                        /\ stack'[i].step # "subresources" => stack'[i].done = Len(Sub[stack'[i].r])
      BY DEF DoneBounded
    <3>1. CASE i = n
      <4>1. stack[n].done \in Nat /\ Len(Sub[stack[n].r]) \in Nat
        BY <2>3, SubsCounted DEF Frame
      <4> QED
        BY <2>2, <2>3, <3>1, <4>1
    <3>2. CASE i # n
      <4>1. i \in 1 .. Len(stack) /\ stack'[i] = stack[i]
        BY <2>2, <3>2
      <4> QED
        BY <4>1 DEF IInv, Calls, DoneBounded
    <3> QED
      BY <3>1, <3>2
  <2>7. DoneVisited'
    <3> SUFFICES ASSUME NEW i \in 1 .. n, NEW j \in 1 .. stack'[i].done
                 PROVE  Sub[stack'[i].r][j] \in visited'
      BY DEF DoneVisited
    <3>1. CASE i = n
      <4>1. stack[n].done \in Nat /\ j \in 1 .. stack[n].done + 1
        BY <2>2, <2>3, <3>1 DEF Frame
      <4>2. CASE j = stack[n].done + 1
        BY <1>1, <2>2, <2>3, <3>1, <4>2
      <4>3. CASE j # stack[n].done + 1
        BY <1>1, <2>2, <3>1, <4>1, <4>3 DEF IInv, Calls, DoneVisited
      <4> QED
        BY <4>2, <4>3
    <3>2. CASE i # n
      BY <1>1, <2>2, <3>2 DEF IInv, Calls, DoneVisited
    <3> QED
      BY <3>1, <3>2
  <2>8. Top'.step = "subresources"
    BY <2>2, <2>3 DEF Top
  <2>9. TagsRight'
    BY <1>1, <1>3, <1>4, <2>8 DEF TagsRight, VisitedDeployed, ReturnDeployed, DryWork, At, AtTarget
  <2> QED
    BY <2>4, <2>5, <2>6, <2>7, <2>9 DEF IInv, Calls
<1> QED
  BY <1>5, <1>6

(* The same after a step. *)
LEMMA CleanNext ==
    ASSUME stack' = <<>>, visited' = {}, dry' \in BOOLEAN,
           deployed' \in [Resource -> Versions \union {0}], target' \in [Resource -> Versions]
    PROVE  IInv'
<1>1. stack' \in Seq(Frame) /\ Len(stack') = 0
  BY EmptySeq
<1>2. TypeOK'
  BY <1>1 DEF TypeOK
<1>3. Calls'
  BY <1>1 DEF Calls, CallsChained, DoneBounded, DoneVisited
<1>4. TagsRight'
  BY DEF TagsRight, VisitedClosed, VisitedDeployed, ReturnDeployed, DryWork, At, Idle
<1> QED
  BY <1>2, <1>3, <1>4 DEF IInv

LEMMA BetweenTypes ==
    ASSUME IInv, Between
    PROVE  deployed' \in [Resource -> Versions \union {0}] /\ target' \in [Resource -> Versions]
BY DEF IInv, TypeOK, Between

LEMMA StepIInv == IInv /\ [Next]_vars => IInv'
<1> SUFFICES ASSUME IInv, [Next]_vars PROVE IInv'
  OBVIOUS
<1>1. ASSUME NEW root \in Resource, Begin(root) PROVE IInv'
  BY <1>1, BeginIInv
<1>2. CASE Descend
  BY <1>2, DescendIInv
<1>3. CASE Fetch
  BY <1>3, FetchIInv
<1>4. CASE Work
  BY <1>4, WorkIInv
<1>5. CASE Worked
  BY <1>5, WorkedIInv
<1>6. CASE Return
  BY <1>6, ReturnIInv
<1>7. CASE Fail
  <2>1. stack' = <<>> /\ visited' = {} /\ UNCHANGED <<deployed, target, dry>>
    BY <1>7 DEF Fail
  <2> QED
    BY <2>1, CleanNext DEF IInv, TypeOK
<1>8. CASE Between
  <2>1. stack' = <<>> /\ visited' = {} /\ dry' = dry
    BY <1>8 DEF Between, Idle
  <2> QED
    BY <1>8, <2>1, CleanNext, BetweenTypes DEF IInv, TypeOK
<1>9. CASE UNCHANGED vars
  BY <1>9
     DEF vars, IInv, TypeOK, Calls, TagsRight, CallsChained, DoneBounded, DoneVisited,
         VisitedClosed, VisitedDeployed, ReturnDeployed, DryWork, At, Idle, Top, AtTarget
<1> QED
  BY <1>1, <1>2, <1>3, <1>4, <1>5, <1>6, <1>7, <1>8, <1>9 DEF Next

(***************************************************************************)
(* The invariant of EnsureResource, and the types of its variables.        *)
(***************************************************************************)
THEOREM IInvCorrect == Spec => []IInv
<1>1. Init => IInv
  BY InitIInv
<1>2. IInv /\ [Next]_vars => IInv'
  BY StepIInv
<1> QED
  BY <1>1, <1>2, PTL DEF Spec

(* EnsureResource keeps the types of its variables (TypeOK). *)
THEOREM TypeCorrect == Spec => []TypeOK
<1>1. IInv => TypeOK
  BY DEF IInv
<1> QED
  BY <1>1, IInvCorrect, PTL

(***************************************************************************)
(* SuccessDeploys: when EnsureResource has returned nil to a command that  *)
(* is not a dry run, all it went through is at the versions of this        *)
(* wekactl.                                                                *)
(***************************************************************************)
THEOREM SuccessIsDeployed == Spec => []SuccessDeploys
<1>1. IInv => SuccessDeploys
  BY DEF IInv, TagsRight, VisitedDeployed, VisitedClosed, SuccessDeploys, At
<1> QED
  BY <1>1, IInvCorrect, PTL

(***************************************************************************)
(* SubResourcesFirst: whatever is created or updated, its sub-resources    *)
(* are at the versions of this wekactl by then.                            *)
(***************************************************************************)
THEOREM SubResourcesCorrect == Spec => SubResourcesFirst
<1>1. IInv /\ [Next]_vars =>
        [\A r \in Resource :
           deployed'[r] # deployed[r] /\ deployed'[r] # 0 =>
               \A s \in SubsOf(r) : AtTarget(s)]_vars
  <2> SUFFICES ASSUME IInv, Next, NEW r \in Resource,
                      deployed'[r] # deployed[r], deployed'[r] # 0,
                      NEW s \in SubsOf(r)
               PROVE  AtTarget(s)
    BY DEF vars
  <2>1. CASE Work
    <3>1. r = Top.r /\ ~dry
      BY <2>1, WorkEffect
    <3>2. At("work") /\ ~Idle /\ Top.step # "subresources"
      BY <2>1 DEF Work, At
    <3>3. s \in visited
      BY <3>1, <3>2, SubsVisited
    <3>4. s # r
      BY SubAssumption
    <3> QED
      BY <3>1, <3>3, <3>4 DEF IInv, TagsRight, VisitedDeployed
  <2>2. CASE Between
    <3>1. PICK gone \in SUBSET Resource :
            deployed' = [x \in Resource |-> IF x \in gone THEN 0 ELSE deployed[x]]
      BY <2>2 DEF Between
    <3> QED
      BY <3>1
  <2>3. CASE UNCHANGED deployed
    BY <2>3
  <2> QED
    BY <2>1, <2>2, <2>3 DEF Next, Begin, Descend, Fetch, Worked, Return, Fail
<1> QED
  BY <1>1, IInvCorrect, PTL DEF Spec, SubResourcesFirst

(***************************************************************************)
(* DryRunKeepsTags: a dry run of EnsureResource changes no version tag.    *)
(***************************************************************************)
THEOREM DryRunCorrect == Spec => DryRunKeepsTags
<1>1. IInv /\ [Next]_vars => [~Idle /\ dry => UNCHANGED deployed]_vars
  <2> SUFFICES ASSUME IInv, Next, ~Idle, dry PROVE UNCHANGED deployed
    BY DEF vars
  <2>1. ~Work
    BY WorkEffect
  <2>2. ~Between
    BY DEF Between
  <2> QED
    BY <2>1, <2>2 DEF Next, Begin, Descend, Fetch, Worked, Return, Fail
<1> QED
  BY <1>1, IInvCorrect, PTL DEF Spec, DryRunKeepsTags

=============================================================================
