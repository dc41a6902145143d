------------------------ MODULE ClusterSuccessProofs ------------------------
(***************************************************************************)
(* What an import or an update that succeeds has left in place, for every  *)
(* set of lambdas and of upgraded resources and any number of commands,    *)
(* failures and listings that leave something out.                         *)
(*                                                                         *)
(* JoinInv follows the launch template and the gateway its user data       *)
(* names, GroupInv the Auto Scaling group and its template.  GroupInv      *)
(* rests on the shape of the stack: which frame can be under which, and    *)
(* what the calls of a frame can still hold (FitsNext, CallsFitNext).      *)
(* WholeInv, the longest, is about everything else a resource needs: each  *)
(* of its parts says of one kind of part that it is there, or that a call  *)
(* still to be made puts it there, or that what is there does not count    *)
(* as up to date and will be made again.                                   *)
(***************************************************************************)
EXTENDS ClusterLifecycleProofs

First == <<"lt", "first">>
Latest == <<"lt", "latest">>
OldKey == <<"gateway", "oldKey">>

(* Only some listings leave something out. *)
Listed == missed \subseteq Role \union Lambda \union {"sm", "rule", "table"}

LEMMA ListedNext == ASSUME IInv, Listed, [Next]_vars PROVE Listed'
<1>1. CASE Proceed
  <2>1. PICK left \in SUBSET Listing(Head(plan), {}) : missed' = missed \union left
    BY <1>1 DEF Proceed
  <2>2. Listing(Head(plan), {}) \subseteq Role \union Lambda \union {"sm", "rule", "table"}
    BY DEF Listing, GetClusterRoles, GetClusterLambdas, GetClusterStateMachines, GetCloudWatchEventRules, GetClusterDb
  <2> QED
    BY <2>1, <2>2 DEF Listed, Role, RoleUser, Lambda
<1>2. CASE missed' = missed
  BY <1>2 DEF Listed, Role, RoleUser, Lambda
<1>3. Work => missed' = missed
  BY DEF Work, history
<1>4. WorkQuietly => missed' = missed
  BY DEF WorkQuietly, history
<1>5. UNCHANGED vars => missed' = missed
  BY DEF vars, history
<1> QED
  BY <1>1, <1>2, <1>3, <1>4, <1>5, StepKinds DEF Decided, NothingLeft

(* A destroy is in progress, or one was aborted. *)
Destroying == cmd = "destroy" /\ outcome = "running"
Excused == "destroy" \in cut \/ Destroying

(* What destroy has cleaned when nothing is left to do of its steps so far. *)
LEMMA CleanedSoFar ==
    ASSUME Cleaning, Destroying, todo = <<>>, NEW k \in 1 .. 11, Len(plan) <= 11 - k
    PROVE  \A r \in Cleaned(DestroyPlan[k]) : ~Exists(r) \/ r \in missed
<1>1. \A r : ~Removing(todo, r)
  BY DEF Removing
<1> QED
  BY <1>1 DEF Cleaning, StepCleans, Gone, Destroying

(* A destroy that ends by itself has at least come to the rule. *)
LEMMA DestroyEnds ==
    ASSUME IInv, DInv, Listed, [Next]_vars, Excused, ~Excused'
    PROVE  /\ UNCHANGED <<tag, parts, missed, target>> /\ todo = <<>> /\ todo' = <<>> /\ stack' = <<>>
           /\ Destroying /\ outcome' # "running"
           /\ ~Exists("gateway") /\ ~Exists("lt")
           /\ \A r \in Role \union Lambda \union {"sm"} : ~Exists(r) \/ r \in missed
           /\ ~Exists("asg") \/ NoTarget
<1>1. cut \subseteq cut'
  BY DEF Next, vars, history, ImportCluster, UpdateCluster, Destroy, Begins, Refused, Upgrade, Ensure, Proceed,
         CleanerStuck, Finish, Descend, Fetch, FetchStuck, Work, WorkQuietly, WorkStops, Worked, Return, Abort
<1>2. Destroying /\ "destroy" \notin cut' /\ (cmd' = "destroy" => outcome' # "running")
  BY <1>1 DEF Excused, Destroying
<1>3. ~(ImportCluster \/ UpdateCluster \/ Destroy \/ Upgrade)
  BY <1>2 DEF ImportCluster, UpdateCluster, Destroy, Upgrade, Begins, Refused, Ready, Destroying
<1>4. ~(Ensure \/ Proceed \/ Descend \/ Fetch \/ Worked \/ Return \/ Work \/ WorkQuietly \/ UNCHANGED vars)
  BY <1>2 DEF Ensure, Proceed, Descend, Fetch, Worked, Return, Work, WorkQuietly, vars, Destroying
<1>5. ~FetchStuck
  BY <1>2 DEF FetchStuck, At, Destroying, IInv, BInv, Control
<1>6. ~WorkStops
  <2> SUFFICES ASSUME WorkStops PROVE FALSE
    OBVIOUS
  <2>1. todo # <<>> /\ Head(todo) = Stop /\ todo \in Seq(CallSet)
    BY DEF WorkStops, IInv, BInv, Types
  <2>2. 1 \in 1 .. Len(todo) /\ todo[1] = Stop
    BY <2>1, TodoTail
  <2>3. stack = <<>>
    BY <1>2 DEF Destroying, IInv, BInv, Control
  <2>4. OutsideCall(todo[1])
    BY <2>2, <2>3, AnyCall
  <2> QED
    BY <2>2, <2>4, StopIsCall, KindsApart DEF OutsideCall
<1>7. ~Abort
  BY <1>2 DEF Abort, Destroying
<1>8. CleanerStuck \/ Finish
  BY <1>3, <1>4, <1>5, <1>6, <1>7 DEF Next
<1>9. /\ stack = <<>> /\ todo = <<>> /\ UNCHANGED <<tag, parts, missed, target>> /\ todo' = <<>> /\ stack' = <<>>
      /\ outcome' # "running"
  BY <1>8 DEF CleanerStuck, Finish, Between, Ends, awsVars, ensureVars, history
<1>10. Len(plan) <= 5 /\ Len(plan) \in Nat /\ (Len(plan) <= 3 \/ NoTarget)
  <2>1. CASE plan = <<>>
    BY <2>1
  <2>2. CASE plan # <<>>
    <3>1. Head(plan) \in {"rule", "alb"} /\ (Head(plan) = "rule" => NoTarget)
      BY <1>8, <2>2 DEF CleanerStuck, Finish, CleanerFails
    <3> DEFINE n == Len(plan)
    <3>2. n \in 1 .. 11 /\ Head(plan) = DestroyPlan[12 - n]
      BY <1>2, <2>2, PlanFacts DEF IInv, Destroying
    <3> HIDE DEF n
    <3>3. \A k \in 1 .. 11 : DestroyPlan[k] = "rule" => k = 7
      BY DEF DestroyPlan
    <3>4. \A k \in 1 .. 11 : DestroyPlan[k] = "alb" => k = 9
      BY DEF DestroyPlan
    <3>5. 12 - n \in 1 .. 11
      BY <3>2
    <3>6. (12 - n = 7 /\ NoTarget) \/ 12 - n = 9
      BY <3>1, <3>2, <3>3, <3>4, <3>5
    <3>7. n <= 5 /\ n \in Nat /\ (n <= 3 \/ NoTarget)
      BY <3>2, <3>6
    <3> QED
      BY <3>7 DEF n
  <2> QED
    BY <2>1, <2>2
<1>11. \A k \in 1 .. 6 : Len(plan) <= 11 - k /\ k \in 1 .. 11
  BY <1>10
<1>12. \A k \in 1 .. 6 : \A r \in Cleaned(DestroyPlan[k]) : ~Exists(r) \/ r \in missed
  BY <1>2, <1>9, <1>11, CleanedSoFar DEF DInv
<1>13. /\ Cleaned(DestroyPlan[2]) = Role /\ Cleaned(DestroyPlan[3]) = Lambda /\ Cleaned(DestroyPlan[4]) = {"gateway"}
       /\ Cleaned(DestroyPlan[5]) = {"lt"} /\ Cleaned(DestroyPlan[6]) = {"sm"} /\ Cleaned(DestroyPlan[8]) = {"asg"}
  BY CleanedIs DEF DestroyPlan
<1>14. {"gateway", "lt", "asg"} \intersect missed = {}
  BY Kinds, KindsApart DEF Listed, Others
<1>15. ~Exists("gateway") /\ ~Exists("lt") /\ \A r \in Role \union Lambda \union {"sm"} : ~Exists(r) \/ r \in missed
  <2>1. {2, 3, 4, 5, 6} \subseteq 1 .. 6
    OBVIOUS
  <2> QED
    BY <1>12, <1>13, <1>14, <2>1
<1>16. ~Exists("asg") \/ NoTarget
  <2>1. CASE Len(plan) <= 3
    <3>1. Len(plan) <= 11 - 8 /\ 8 \in 1 .. 11
      BY <1>10, <2>1
    <3>2. \A r \in Cleaned(DestroyPlan[8]) : ~Exists(r) \/ r \in missed
      BY <1>2, <1>9, <3>1, CleanedSoFar DEF DInv
    <3> QED
      BY <1>13, <1>14, <3>2
  <2> QED
    BY <1>10, <2>1
<1> QED
  BY <1>2, <1>9, <1>15, <1>16

-----------------------------------------------------------------------------
(***************************************************************************)
(* The launch template joins through the gateway that is there.  It is     *)
(* made and changed only after the gateway, and the gateway is not         *)
(* replaced as long as the join lambda has a policy.                       *)
(***************************************************************************)
JoinsThere == Exists("lt") => Policy \in parts /\ ({First, Latest} \subseteq parts \/ OldKey \in parts)

(* A call that makes or changes the template, and any other. *)
Joining(c) ==
    /\ c.version # 0
    /\ First \notin c.drop /\ OldKey \notin c.drop
    /\ Latest \in c.drop => Latest \in c.put \/ OldKey \in parts
    /\ Exists("lt") \/ {First, Latest} \subseteq c.put \/ OldKey \in parts
Parting(c) == First \in c.drop \/ Latest \in c.drop \/ OldKey \in c.drop

JoinCalls(s) ==
    \A i \in 1 .. Len(s) :
        /\ s[i].r = "lt" => Policy \in parts /\ Joining(s[i])
        /\ s[i].r # "lt" /\ Parting(s[i]) => ~Exists("lt") /\ \A j \in 1 .. Len(s) : s[j].r # "lt"
JoinInv == ~Excused => JoinsThere /\ JoinCalls(todo)

(* What is left of a sequence of calls. *)
LEMMA TailCall ==
    ASSUME NEW s \in Seq(CallSet), s # <<>>, NEW t, t = Tail(s)
    PROVE  \A i \in 1 .. Len(t) : \E j \in 1 .. Len(s) : j # 1 /\ t[i] = s[j]
BY TodoTail

LEMMA JoinWork == ASSUME IInv, JoinInv, Work PROVE JoinInv'
<1> SUFFICES ASSUME ~Excused' PROVE (JoinsThere /\ JoinCalls(todo))'
  BY DEF JoinInv
<1> DEFINE c == todo[1]  t == todo'
<1>1. /\ todo \in Seq(CallSet) /\ todo # <<>> /\ t = Tail(todo) /\ 1 \in 1 .. Len(todo)
      /\ parts' = (parts \ c.drop) \union c.put /\ UNCHANGED <<cmd, outcome>>
      /\ \A r \in Resource : tag'[r] = IF r = c.r THEN c.version ELSE tag[r]
  BY WorkFacts DEF IInv
<1>2. cut' = cut
  BY DEF Work, history
<1>3. ~Excused /\ cmd # "destroy"
  <2>1. outcome = "running"
    BY <1>1 DEF IInv, BInv, Control
  <2> QED
    BY <1>1, <1>2, <2>1 DEF Excused, Destroying
<1>4. JoinsThere /\ JoinCalls(todo)
  BY <1>3 DEF JoinInv
<1>5. \A i \in 1 .. Len(t) : \E j \in 1 .. Len(todo) : j # 1 /\ t[i] = todo[j]
  BY <1>1, TailCall
<1>6. Policy \notin c.drop
  <2>1. \A x \in c.drop : x[1] \in Role \union {"gateway", "lt"} \/ x = Permission
    BY <1>1, <1>3, AnyCall
  <2>2. "join" \notin Role \union {"gateway", "lt"}
    BY Kinds, KindsApart DEF Others
  <2> QED
    BY <2>1, <2>2 DEF Policy, Permission
<1>7. "lt" \in Resource
  BY Kinds DEF Others
<1>8. /\ c.r = "lt" => Policy \in parts /\ Joining(c)
      /\ c.r # "lt" /\ Parting(c) => ~Exists("lt") /\ \A j \in 1 .. Len(todo) : todo[j].r # "lt"
  BY <1>1, <1>4 DEF JoinCalls
<1> HIDE DEF c, t
<1>9. tag'["lt"] # 0 => Policy \in parts' /\ ({First, Latest} \subseteq parts' \/ OldKey \in parts')
  <2>1. CASE c.r = "lt"
    BY <1>1, <1>4, <1>6, <1>8, <2>1 DEF JoinsThere, Joining
  <2>2. CASE c.r # "lt"
    BY <1>1, <1>4, <1>6, <1>7, <1>8, <2>2 DEF JoinsThere, Parting, Exists
  <2> QED
    BY <2>1, <2>2
<1>10. ASSUME NEW i \in 1 .. Len(t)
       PROVE  /\ t[i].r = "lt" =>
                    /\ Policy \in parts'
                    /\ t[i].version # 0
                    /\ First \notin t[i].drop /\ OldKey \notin t[i].drop
                    /\ Latest \in t[i].drop => Latest \in t[i].put \/ OldKey \in parts'
                    /\ tag'["lt"] # 0 \/ {First, Latest} \subseteq t[i].put \/ OldKey \in parts'
              /\ t[i].r # "lt" /\ Parting(t[i]) => ~(tag'["lt"] # 0) /\ \A j \in 1 .. Len(t) : t[j].r # "lt"
  <2>1. PICK k \in 1 .. Len(todo) : t[i] = todo[k]
    BY <1>5
  <2>2. /\ t[i].r = "lt" => Policy \in parts /\ Joining(t[i])
        /\ t[i].r # "lt" /\ Parting(t[i]) => ~Exists("lt") /\ \A j \in 1 .. Len(todo) : todo[j].r # "lt"
    BY <1>4, <2>1 DEF JoinCalls
  <2>3. ASSUME t[i].r = "lt"
        PROVE  /\ Policy \in parts'
               /\ t[i].version # 0
               /\ First \notin t[i].drop /\ OldKey \notin t[i].drop
               /\ Latest \in t[i].drop => Latest \in t[i].put \/ OldKey \in parts'
               /\ tag'["lt"] # 0 \/ {First, Latest} \subseteq t[i].put \/ OldKey \in parts'
    <3>1. OldKey \in parts => OldKey \in parts'
      BY <1>1, <1>8, <2>1, <2>3 DEF Parting, Joining
    <3>2. Exists("lt") => tag'["lt"] # 0
      BY <1>1, <1>7, <1>8 DEF Joining, Exists
    <3> QED
      BY <1>1, <1>6, <2>2, <2>3, <3>1, <3>2 DEF Joining
  <2>4. ASSUME t[i].r # "lt", Parting(t[i]) PROVE ~(tag'["lt"] # 0) /\ \A j \in 1 .. Len(t) : t[j].r # "lt"
    <3>1. c.r # "lt"
      BY <1>1, <2>2, <2>4 DEF c
    <3> QED
      BY <1>1, <1>5, <1>7, <2>2, <2>4, <3>1 DEF Exists
  <2> QED
    BY <2>3, <2>4
<1>11. JoinsThere'
  BY <1>9 DEF JoinsThere, Exists, Policy, First, Latest, OldKey
<1>12. JoinCalls(todo)'
  BY <1>10 DEF JoinCalls, Joining, Parting, Exists, Policy, First, Latest, OldKey, t
<1> QED
  BY <1>11, <1>12

LEMMA JoinQuiet == ASSUME IInv, JoinInv, WorkQuietly PROVE JoinInv'
<1> SUFFICES ASSUME ~Excused' PROVE (JoinsThere /\ JoinCalls(todo))'
  BY DEF JoinInv
<1> DEFINE t == todo'
<1>1. /\ todo \in Seq(CallSet) /\ todo # <<>> /\ t = Tail(todo) /\ UNCHANGED <<tag, parts, cmd, outcome>>
  BY QuietFacts DEF IInv
<1>2. cut' = cut
  BY DEF WorkQuietly, history
<1>3. JoinsThere /\ JoinCalls(todo)
  BY <1>1, <1>2 DEF JoinInv, Excused, Destroying
<1>4. \A i \in 1 .. Len(t) : \E j \in 1 .. Len(todo) : j # 1 /\ t[i] = todo[j]
  BY <1>1, TailCall
<1> HIDE DEF t
<1>5. JoinCalls(t)
  BY <1>3, <1>4 DEF JoinCalls
<1>6. JoinsThere' /\ JoinCalls(todo)'
  BY <1>1, <1>3, <1>5 DEF JoinsThere, JoinCalls, Joining, Parting, Exists, Policy, First, Latest, OldKey, t
<1> QED
  BY <1>6

(* The gateway has been ensured before its template. *)
LEMMA GatewayFirst ==
    ASSUME IInv, LiveInv, stack # <<>>, Top.step = "subresources", Top.done = Len(Sub[Top.r]), ~dry, Top.r = "lt"
    PROVE  Policy \in parts
<1>1. Sub["lt"] = <<"gateway">> /\ "gateway" \notin Grouping
  BY Kinds, KindsApart DEF Sub, Grouping, Others
<1>2. "gateway" \in P!SubsOf(Top.r)
  <2>1. P!SubsOf("lt") = {Sub["lt"][i] : i \in DOMAIN Sub["lt"]}
    BY DEF P!SubsOf, Tree!SubsOf
  <2>2. 1 \in DOMAIN <<"gateway">> /\ <<"gateway">>[1] = "gateway"
    OBVIOUS
  <2> QED
    BY <1>1, <2>1, <2>2
<1>3. "gateway" \in visited
  BY <1>2, SubsAreThere
<1>4. Live("gateway")
  BY <1>3 DEF LiveInv, Visits, Users
<1> QED
  BY <1>4 DEF Live, Marks

(* The calls of Create and Update of the template. *)
LEMMA TemplateCalls ==
    ASSUME Types, NEW s \in LaunchTemplateWorks
    PROVE  \A i \in 1 .. Len(s) : s[i].r = "lt" /\ Joining(s[i])
<1>1. target["lt"] # 0 /\ "lt" \in Resource
  BY Kinds DEF Types, Others
<1>2. \A k \in ApiKeys : k = "key" \/ OldKey \in parts
  BY DEF ApiKeys, Has, OldKey
<1>3. \A p : First \in Of("lt", {p}) <=> p = "first"
  BY OfFacts DEF First
<1>4. CASE ~Exists("lt")
  <2>1. PICK k \in ApiKeys : s = CreateLaunchTemplate(k)
    BY <1>4 DEF LaunchTemplateWorks
  <2> DEFINE c == Call("lt", target["lt"], Of("lt", {"single"}) \union Joins(k, {"first", "latest"}), {})
  <2>2. s = <<c>>
    BY <2>1 DEF CreateLaunchTemplate
  <2>3. k = "key" => {First, Latest} \subseteq Joins(k, {"first", "latest"})
    BY OfFacts DEF Joins, First, Latest
  <2>4. /\ c.r = "lt" /\ c.version = target["lt"] /\ c.drop = {}
        /\ c.put = Of("lt", {"single"}) \union Joins(k, {"first", "latest"})
    BY DEF Call
  <2> HIDE DEF c
  <2>5. c.r = "lt" /\ Joining(c)
    BY <1>1, <1>2, <2>3, <2>4 DEF Joining
  <2> QED
    BY <2>2, <2>5
<1>5. CASE Exists("lt")
  <2>1. PICK k \in ApiKeys : s = CreateNewLaunchTemplateVersion(k) \o ModifyLaunchTemplateDefaultVersion
    BY <1>5 DEF LaunchTemplateWorks
  <2> DEFINE c == Call("lt", target["lt"], Joins(k, {"latest"}), Of("lt", {"single", "latest"}))
             d == Call("lt", target["lt"], {}, {})
  <2>2. /\ c.r = "lt" /\ c.version = target["lt"] /\ c.drop = Of("lt", {"single", "latest"}) /\ c.put = Joins(k, {"latest"})
        /\ d.r = "lt" /\ d.version = target["lt"] /\ d.drop = {} /\ d.put = {}
    BY DEF Call
  <2>3. First \notin Of("lt", {"single", "latest"}) /\ OldKey \notin Of("lt", {"single", "latest"})
    BY OfFacts DEF First, OldKey
  <2>4. k = "key" => Latest \in Joins(k, {"latest"})
    BY OfFacts DEF Joins, Latest
  <2>5. s = <<c>> \o <<d>>
    BY <2>1 DEF CreateNewLaunchTemplateVersion, ModifyLaunchTemplateDefaultVersion
  <2>9. c \in CallSet /\ d \in CallSet
    <3>1. Names("lt") = {"single", "first", "latest"} /\ target["lt"] \in 0 .. 2
      BY <1>1, NamesOf DEF Types
    <3>2. Joins(k, {"latest"}) \in SUBSET Part /\ Of("lt", {"single", "latest"}) \in SUBSET Part /\ {} \in SUBSET Part
      BY <1>1, <3>1, OfIsPart DEF Joins
    <3> QED
      BY <1>1, <3>1, <3>2, CallIsCall
  <2> HIDE DEF c, d
  <2>6. c.r = "lt" /\ Joining(c) /\ d.r = "lt" /\ Joining(d)
    BY <1>1, <1>2, <1>5, <2>2, <2>3, <2>4 DEF Joining
  <2>7. s = <<c, d>>
    <3>1. <<c>> \o <<d>> = <<c, d>>
      BY <2>9, Tuples
    <3> QED
      BY <2>5, <3>1
  <2>8. Len(s) = 2 /\ s[1] = c /\ s[2] = d
    BY <2>7
  <2> QED
    BY <2>6, <2>8
<1> QED
  BY <1>4, <1>5

(* Nor does another resource part it from its gateway. *)
LEMMA JoinDecided == ASSUME IInv, LiveInv, JoinInv, Decided, ~Excused PROVE JoinCalls(todo')
<1> DEFINE t == todo'  r == Top.r
<1>1. Fine(r, t) /\ t \in Works(r) /\ r \in Resource
  BY DecidedFacts
<1>2. r = "lt" => Policy \in parts
  <2>1. r = "lt" => ~dry
    BY DEF Decided, Grouping
  <2> QED
    BY <2>1, GatewayFirst DEF Decided
<1> HIDE DEF t, r
<1>3. Types /\ JoinsThere
  BY DEF IInv, BInv, JoinInv
<1>4. "lt" \notin Role \union Lambda /\ "gateway" \notin Role \union Lambda
  BY Kinds, KindsApart DEF Others
<1>5. \A i \in 1 .. Len(t) : EnsureCall(r, t[i])
  BY <1>1 DEF Fine, InEnsure
<1>6. ASSUME r = "lt" PROVE JoinCalls(t)
  <2>1. t \in LaunchTemplateWorks
    BY <1>1, <1>4, <1>6 DEF Works
  <2>2. \A i \in 1 .. Len(t) : t[i].r = "lt" /\ Joining(t[i])
    BY <1>3, <2>1, TemplateCalls
  <2> QED
    BY <1>2, <1>6, <2>2 DEF JoinCalls
<1>7. ASSUME r # "lt" PROVE JoinCalls(t)
  <2>1. \A i \in 1 .. Len(t) : t[i].r # "lt"
    <3>1. "lt" # "stop" /\ Stop.r = "stop"
      BY StopIsCall
    <3> QED
      BY <1>5, <1>7, <3>1 DEF EnsureCall
  <2>2. ASSUME NEW i \in 1 .. Len(t), Parting(t[i]) PROVE ~Exists("lt")
    <3>1. \A x \in t[i].drop : x[1] \in Touched(r)
      BY <1>5, EnsureDrops
    <3>2. r = "gateway"
      BY <1>7, <2>2, <3>1 DEF Parting, Touched, First, Latest, OldKey
    <3>3. t \in GatewayWorks
      BY <1>1, <1>4, <3>2 DEF Works
    <3>4. Policy \in parts => t = CreateJoinApi
      BY <3>3 DEF GatewayWorks, GatewayIsCurrent, Has, Policy
    <3>5. t = CreateJoinApi => t[i].drop = {}
      <4>1. \A k \in 1 .. Len(CreateJoinApi) : CreateJoinApi[k].drop = {}
        BY <1>3, MakesGateway DEF GatewayMade, JoinMade
      <4> QED
        BY <4>1
    <3> QED
      BY <1>3, <2>2, <3>4, <3>5 DEF JoinsThere, Parting
  <2> QED
    BY <2>1, <2>2 DEF JoinCalls
<1>8. JoinCalls(t)
  BY <1>6, <1>7
<1> QED
  BY <1>8 DEF t

(* Without calls that part or make the template, on the same state. *)
LEMMA JoinSame ==
    ASSUME JoinsThere, NEW s, JoinCalls(s), todo' = s, tag' = tag, 
           \A x \in {Policy, First, Latest, OldKey} : x \in parts => x \in parts',
           s # <<>> => parts' = parts
    PROVE  (JoinsThere /\ JoinCalls(todo))'
<1>1. JoinsThere'
  BY DEF JoinsThere, Exists, Policy, First, Latest, OldKey
<1>2. CASE s = <<>>
  BY <1>1, <1>2 DEF JoinCalls
<1>3. CASE parts' = parts
  <2>1. JoinCalls(todo)'
    BY <1>3 DEF JoinCalls, Joining, Parting, Exists, Policy, First, Latest, OldKey
  <2> QED
    BY <1>1, <2>1
<1> QED
  BY <1>2, <1>3

LEMMA JoinNext == ASSUME IInv, DInv, LiveInv, Listed, JoinInv, [Next]_vars PROVE JoinInv'
<1> SUFFICES ASSUME ~Excused' PROVE (JoinsThere /\ JoinCalls(todo))'
  BY DEF JoinInv
<1>1. CASE Excused
  <2>1. UNCHANGED <<tag, parts>> /\ todo' = <<>> /\ ~Exists("lt")
    BY <1>1, DestroyEnds
  <2> QED
    BY <2>1 DEF JoinsThere, JoinCalls, Exists
<1>2. CASE ~Excused
  <2>1. JoinsThere /\ JoinCalls(todo)
    BY <1>2 DEF JoinInv
  <2>2. CASE Decided
    <3>1. JoinCalls(todo') /\ UNCHANGED <<tag, parts>>
      BY <1>2, <2>2, JoinDecided, DecidedFacts
    <3> QED
      BY <2>1, <3>1, JoinSame
  <2>3. CASE Proceed
    <3> DEFINE t == todo'
    <3>1. /\ UNCHANGED <<tag, parts, cmd, outcome>> /\ outcome = "running"
          /\ cmd # "destroy" => \A i \in 1 .. Len(t) : t[i].r \in {"table", "asg"} /\ t[i].drop = {}
      BY <2>3, ProceedFacts
    <3>2. cmd # "destroy"
      BY <1>2, <3>1 DEF Excused, Destroying
    <3> HIDE DEF t
    <3>3. JoinCalls(t)
      BY <3>1, <3>2 DEF JoinCalls, Parting
    <3> QED
      BY <2>1, <3>1, <3>3, JoinSame DEF t
  <2>4. CASE NothingLeft
    <3>1. todo' = <<>> /\ tag' = tag /\ \A x \in parts \ parts' : x[2] \in {"policy", "runtime", "arch", "build"} /\ x # Policy
      BY <2>4 DEF NothingLeft
    <3>2. \A x \in {Policy, First, Latest, OldKey} : x \in parts => x \in parts'
      BY <3>1 DEF First, Latest, OldKey
    <3>3. JoinCalls(<<>>)
      BY DEF JoinCalls
    <3> QED
      BY <2>1, <3>1, <3>2, <3>3, JoinSame
  <2>5. CASE UNCHANGED vars
    <3>1. UNCHANGED <<tag, parts, todo>>
      BY <2>5 DEF vars, awsVars
    <3> QED
      BY <2>1, <3>1, JoinSame
  <2>6. CASE Work \/ WorkQuietly
    BY <2>6, JoinWork, JoinQuiet DEF JoinInv
  <2> QED
    BY <2>2, <2>3, <2>4, <2>5, <2>6, StepKinds
<1> QED
  BY <1>1, <1>2

(* The inductive invariant behind LaunchedInstancesJoin: outside a destroy *)
(* and until one is aborted, a launch template that exists has user data   *)
(* for the gateway that is there, or a key was left behind for it to take. *)
THEOREM JoinCorrect == Spec => [](Listed /\ JoinInv)
<1>1. Init => Listed /\ JoinInv
  BY Kinds DEF Init, Listed, JoinInv, JoinsThere, JoinCalls, Exists, Others
<1>2. IInv /\ DInv /\ LiveInv /\ (Listed /\ JoinInv) /\ [Next]_vars => (Listed /\ JoinInv)'
  BY ListedNext, JoinNext
<1> QED
  BY <1>1, <1>2, IInvCorrect, DInvCorrect, LiveCorrect, PTL DEF Spec

(* LaunchedInstancesJoin: what the user data of the launched instances     *)
(* names is there, unless a destroy was aborted or a key was left behind.  *)
THEOREM LaunchedJoinCorrect == Spec => []LaunchedInstancesJoin
<1>1. ASSUME IInv, JoinInv, Settled, "destroy" \notin cut
      PROVE  (Has("lt", "first") /\ Has("lt", "latest")) \/ Has("gateway", "oldKey")
  <2>1. outcome = "ok" /\ cmd \in {"import", "update"} /\ "cluster" \in visited
    BY <1>1 DEF Settled
  <2>2. stack = <<>> /\ ~dry /\ Types /\ P!IInv
    BY <1>1, <2>1 DEF IInv, BInv, Control
  <2>3. "lt" \in visited /\ "lt" \notin Grouping
    BY <1>1, <2>1, ClusterTree DEF Grouping
  <2>4. Exists("lt")
    BY <2>2, <2>3, VisitedExists
  <2>5. ~Excused
    BY <1>1, <2>1 DEF Excused, Destroying
  <2> QED
    BY <1>1, <2>4, <2>5 DEF JoinInv, JoinsThere, Has, First, Latest, OldKey
<1>2. IInv /\ JoinInv => LaunchedInstancesJoin
  BY <1>1 DEF LaunchedInstancesJoin
<1> QED
  BY <1>2, IInvCorrect, JoinCorrect, PTL

-----------------------------------------------------------------------------
(***************************************************************************)
(* The shape of the stack: what may call what.                             *)
(***************************************************************************)
LEMMA SubCases ==
    ASSUME NEW r \in Resource, NEW i \in 1 .. Len(Sub[r])
    PROVE  /\ r = "cluster" => (i = 1 /\ Sub[r][i] = "alb") \/ (i = 2 /\ Sub[r][i] = "hostgroup")
           /\ r = "asg" => (i = 1 /\ Sub[r][i] = "lt") \/ (i = 2 /\ Sub[r][i] = "rule")
           /\ r = "bare" => Sub[r][i] = "alb"
           /\ r = "hostgroup" => Sub[r][i] = "asg"
           /\ r = "lt" => Sub[r][i] = "gateway"
           /\ r = "gateway" => Sub[r][i] = "join"
           /\ r = "table" => Sub[r][i] = "key"
           /\ r = "rule" => Sub[r][i] \in {"sm"} \union Role
           /\ r = "sm" => Sub[r][i] \in Lambda \union Role
           /\ r \in Lambda => Sub[r][i] \in Role
           /\ r \notin Role \union {"alb", "key"}
<1>1. /\ \A a : 1 .. Len(<<a>>) = {1} /\ <<a>>[1] = a
      /\ \A a, b : 1 .. Len(<<a, b>>) = {1, 2} /\ <<a, b>>[1] = a /\ <<a, b>>[2] = b
      /\ 1 .. Len(<<>>) = {}
  OBVIOUS
<1>2. /\ (Role \union Lambda) \intersect (Grouping \union Others) = {} /\ Role \intersect Lambda = {}
      /\ Grouping \intersect Others = {}
  BY Kinds, KindsApart
<1>3. CASE r = "sm"
  <2> DEFINE s == ScaleLambdas  t == <<RoleOf["sm"]>>  S == {"fetch", "scale", "terminate"} \union {RoleOf["sm"]}
  <2>1. Sub[r] = s \o t
    BY <1>3, Kinds DEF Sub, Role
  <2>2. s \in Seq({"fetch", "scale", "terminate"}) /\ ToSet(s) = {s[j] : j \in DOMAIN s}
    BY ScaleLambdasAssumption DEF ToSet
  <2>3. s \in Seq(S) /\ t \in Seq(S) /\ Len(t) = 1 /\ t[1] = RoleOf["sm"]
    BY <2>2, SeqMonotonic
  <2>4. RoleOf["sm"] \in Role /\ ToSet(s) \subseteq Lambda
    BY Kinds
  <2> HIDE DEF s, t, S
  <2>5. \/ i \in 1 .. Len(s) /\ (s \o t)[i] = s[i]
        \/ i > Len(s) /\ i - Len(s) \in 1 .. Len(t) /\ (s \o t)[i] = t[i - Len(s)]
    BY <2>1, <2>3, ConcatFacts
  <2>6. DOMAIN s = 1 .. Len(s)
    BY <2>3
  <2>7. ASSUME i \in 1 .. Len(s), (s \o t)[i] = s[i]
        PROVE  Sub[r][i] \in Lambda
    <3>1. s[i] \in ToSet(s)
      BY <2>2, <2>6, <2>7
    <3> QED
      BY <2>1, <2>4, <2>7, <3>1
  <2>8. ASSUME i > Len(s), i - Len(s) \in 1 .. Len(t), (s \o t)[i] = t[i - Len(s)]
        PROVE  Sub[r][i] \in Role
    <3>1. i - Len(s) = 1
      BY <2>3, <2>8
    <3> QED
      BY <2>1, <2>3, <2>4, <2>8, <3>1
  <2>9. Sub[r][i] \in Lambda \union Role
    BY <2>5, <2>7, <2>8
  <2> QED
    BY <1>2, <1>3, <2>9 DEF Others
<1>4. CASE r \in Role
  <2>1. Sub[r] = <<>>
    BY <1>4, Kinds, KindsApart DEF Sub, RoleNames, LambdaNames
  <2> QED
    BY <1>1, <2>1
<1>5. CASE r \in Lambda
  <2>1. Sub[r] = <<RoleOf[r]>> /\ RoleOf[r] \in Role
    BY <1>5, Kinds, KindsApart DEF Sub, RoleNames, LambdaNames
  <2> QED
    BY <1>1, <1>2, <1>5, <2>1 DEF Others, Grouping
<1>6. CASE r \in Grouping
  <2>1. /\ r = "cluster" => Sub[r] = <<"alb", "hostgroup">>
        /\ r = "bare" => Sub[r] = <<"alb">>
        /\ r = "hostgroup" => Sub[r] = <<"asg">>
    BY <1>6, Kinds, KindsApart DEF Sub, Grouping
  <2>2. r \in {"cluster", "hostgroup", "bare"} /\ r \notin Role \union Lambda \union Others
    BY <1>2, <1>6 DEF Grouping
  <2>3. CASE r = "cluster"
    <3>1. Sub[r] = <<"alb", "hostgroup">>
      BY <2>1, <2>3
    <3>2. i \in {1, 2} /\ Sub[r][1] = "alb" /\ Sub[r][2] = "hostgroup"
      BY <1>1, <3>1
    <3> QED
      BY <2>2, <2>3, <3>2 DEF Others
  <2>4. CASE r = "bare"
    <3>1. i = 1 /\ Sub[r][1] = "alb"
      BY <1>1, <2>1, <2>4
    <3> QED
      BY <2>2, <2>4, <3>1 DEF Others
  <2>5. CASE r = "hostgroup"
    <3>1. i = 1 /\ Sub[r][1] = "asg"
      BY <1>1, <2>1, <2>5
    <3> QED
      BY <2>2, <2>5, <3>1 DEF Others
  <2> QED
    BY <2>2, <2>3, <2>4, <2>5
<1>7. CASE r \in Others \ {"sm"}
  <2>1. /\ r = "asg" => Sub[r] = <<"lt", "rule">>
        /\ r = "lt" => Sub[r] = <<"gateway">>
        /\ r = "gateway" => Sub[r] = <<"join">>
        /\ r = "table" => Sub[r] = <<"key">>
        /\ r = "rule" => Sub[r] = <<"sm", "ruleRole">>
        /\ r \in {"alb", "key"} => Sub[r] = <<>>
    BY <1>7, Kinds, KindsApart DEF Sub, Others, RoleOf
  <2>2. r \notin Role \union Lambda \union Grouping /\ "ruleRole" \in Role /\ r \notin {"cluster", "bare", "hostgroup"}
    BY <1>2, <1>7, Kinds DEF Grouping
  <2>3. CASE r = "asg"
    <3>1. Sub[r] = <<"lt", "rule">>
      BY <2>1, <2>3
    <3>2. i \in {1, 2} /\ Sub[r][1] = "lt" /\ Sub[r][2] = "rule"
      BY <1>1, <3>1
    <3> QED
      BY <2>2, <2>3, <3>2
  <2>4. CASE r = "rule"
    <3>1. Sub[r] = <<"sm", "ruleRole">>
      BY <2>1, <2>4
    <3>2. i \in {1, 2} /\ Sub[r][1] = "sm" /\ Sub[r][2] = "ruleRole"
      BY <1>1, <3>1
    <3> QED
      BY <2>2, <2>4, <3>2
  <2>5. CASE r = "lt"
    <3>1. i = 1 /\ Sub[r][1] = "gateway"
      BY <1>1, <2>1, <2>5
    <3> QED
      BY <2>2, <2>5, <3>1
  <2>6. CASE r = "gateway"
    <3>1. i = 1 /\ Sub[r][1] = "join"
      BY <1>1, <2>1, <2>6
    <3> QED
      BY <2>2, <2>6, <3>1
  <2>7. CASE r = "table"
    <3>1. i = 1 /\ Sub[r][1] = "key"
      BY <1>1, <2>1, <2>7
    <3> QED
      BY <2>2, <2>7, <3>1
  <2>8. CASE r \in {"alb", "key"}
    BY <1>1, <2>1, <2>8
  <2> QED
    BY <1>7, <2>3, <2>4, <2>5, <2>6, <2>7, <2>8 DEF Others
<1> QED
  BY <1>3, <1>4, <1>5, <1>6, <1>7, Kinds

(* One call below the other. *)
LEMMA Caller ==
    ASSUME P!IInv, stack # <<>>, NEW i \in 1 .. Len(stack), i < Len(stack)
    PROVE  LET r == stack[i].r  d == stack[i].done IN
           /\ r \in Resource /\ d \in Nat /\ d + 1 \in 1 .. Len(Sub[r])
           /\ i + 1 \in 1 .. Len(stack) /\ stack[i + 1].r = Sub[r][d + 1]
<1> DEFINE r == stack[i].r  d == stack[i].done
<1>1. Len(stack) \in Nat \ {0} /\ stack \in Seq(P!Frame)
  BY StackFacts
<1>2. i \in 1 .. Len(stack) - 1 /\ i + 1 \in 1 .. Len(stack)
  BY <1>1
<1>3. d < Len(Sub[r]) /\ stack[i + 1].r = Sub[r][d + 1]
  BY <1>2 DEF P!IInv, P!Calls, P!CallsChained
<1>4. stack[i] \in P!Frame
  BY <1>1, ElementOfSeq
<1>5. r \in Resource /\ d \in Nat
  BY <1>4 DEF P!Frame
<1>6. Len(Sub[r]) \in Nat
  BY <1>5, SubIsSeq, LenProperties
<1> QED
  BY <1>2, <1>3, <1>5, <1>6

LEMMA Shape ==
    ASSUME P!IInv, stack # <<>>, stack[1].r \in Roots
    PROVE  /\ stack[1].r # "cluster" =>
                Len(stack) <= 2 /\ (Len(stack) = 2 => stack[2].r \in {"alb", "key"})
           /\ stack[1].r = "cluster" =>
                /\ Len(stack) >= 2 => stack[2].r \in {"alb", "hostgroup"}
                /\ Len(stack) >= 3 => stack[3].r = "asg"
                /\ Len(stack) >= 4 => \/ stack[4].r = "lt" /\ stack[3].done = 0
                                      \/ stack[4].r = "rule" /\ stack[3].done = 1
                /\ Len(stack) >= 5 => /\ stack[4].r = "lt" => stack[5].r = "gateway"
                                      /\ stack[4].r = "rule" => stack[5].r \in {"sm"} \union Role
                /\ Len(stack) >= 6 => /\ stack[4].r = "lt" => stack[6].r = "join"
                                      /\ stack[4].r = "rule" => stack[6].r \in Lambda \union Role
                /\ Len(stack) >= 7 => stack[7].r \in Role
                /\ Len(stack) <= 7
<1> DEFINE n == Len(stack)  R(i) == stack[i].r  D(i) == stack[i].done
<1>1. n \in Nat \ {0}
  BY StackFacts
<1>2. ASSUME NEW i \in 1 .. n, i < n
      PROVE  /\ R(i) = "cluster" => (D(i) = 0 /\ R(i + 1) = "alb") \/ (D(i) = 1 /\ R(i + 1) = "hostgroup")
             /\ R(i) = "asg" => (D(i) = 0 /\ R(i + 1) = "lt") \/ (D(i) = 1 /\ R(i + 1) = "rule")
             /\ R(i) = "bare" => R(i + 1) = "alb"
             /\ R(i) = "hostgroup" => R(i + 1) = "asg"
             /\ R(i) = "lt" => R(i + 1) = "gateway"
             /\ R(i) = "gateway" => R(i + 1) = "join"
             /\ R(i) = "table" => R(i + 1) = "key"
             /\ R(i) = "rule" => R(i + 1) \in {"sm"} \union Role
             /\ R(i) = "sm" => R(i + 1) \in Lambda \union Role
             /\ R(i) \in Lambda => R(i + 1) \in Role
             /\ R(i) \notin Role \union {"alb", "key"}
  <2> DEFINE r == R(i)  d == D(i)
  <2>1. /\ r \in Resource /\ d \in Nat /\ d + 1 \in 1 .. Len(Sub[r])
        /\ R(i + 1) = Sub[r][d + 1]
    BY <1>2, Caller
  <2> HIDE DEF r, d
  <2>2. d + 1 = 1 => d = 0
    BY <2>1
  <2>3. d + 1 = 2 => d = 1
    BY <2>1
  <2> DEFINE j == d + 1
  <2>4. r \in Resource /\ j \in 1 .. Len(Sub[r])
    BY <2>1
  <2> HIDE DEF j
  <2>5. /\ r = "cluster" => (j = 1 /\ Sub[r][j] = "alb") \/ (j = 2 /\ Sub[r][j] = "hostgroup")
        /\ r = "asg" => (j = 1 /\ Sub[r][j] = "lt") \/ (j = 2 /\ Sub[r][j] = "rule")
        /\ r = "bare" => Sub[r][j] = "alb"
        /\ r = "hostgroup" => Sub[r][j] = "asg"
        /\ r = "lt" => Sub[r][j] = "gateway"
        /\ r = "gateway" => Sub[r][j] = "join"
        /\ r = "table" => Sub[r][j] = "key"
        /\ r = "rule" => Sub[r][j] \in {"sm"} \union Role
        /\ r = "sm" => Sub[r][j] \in Lambda \union Role
        /\ r \in Lambda => Sub[r][j] \in Role
        /\ r \notin Role \union {"alb", "key"}
    BY <2>4, SubCases
  <2> QED
    BY <2>1, <2>2, <2>3, <2>5 DEF r, d, j
<1> HIDE DEF n, R, D
<1>3. R(1) \in {"cluster", "bare", "table"}
  BY DEF R, Roots
<1>4. "join" \in Lambda
  BY Kinds
<1>5. \A k \in {1, 2, 3, 4, 5, 6, 7} : n > k => k \in 1 .. n /\ k < n
  BY <1>1
<1>6. ASSUME R(1) # "cluster"
      PROVE  n <= 2 /\ (n = 2 => R(2) \in {"alb", "key"})
  <2>1. n > 1 => R(2) \in {"alb", "key"}
    BY <1>2, <1>3, <1>5, <1>6
  <2>2. ~(n > 2)
    BY <1>2, <1>1, <1>5, <2>1
  <2> QED
    BY <1>1, <2>1, <2>2
<1>7. ASSUME R(1) = "cluster"
      PROVE  /\ n >= 2 => R(2) \in {"alb", "hostgroup"}
             /\ n >= 3 => R(3) = "asg"
             /\ n >= 4 => (R(4) = "lt" /\ D(3) = 0) \/ (R(4) = "rule" /\ D(3) = 1)
             /\ n >= 5 => (R(4) = "lt" => R(5) = "gateway") /\ (R(4) = "rule" => R(5) \in {"sm"} \union Role)
             /\ n >= 6 => (R(4) = "lt" => R(6) = "join") /\ (R(4) = "rule" => R(6) \in Lambda \union Role)
             /\ n >= 7 => R(7) \in Role
             /\ n <= 7
  <2>1. n > 1 => R(2) \in {"alb", "hostgroup"}
    BY <1>2, <1>5, <1>7
  <2>2. n > 2 => R(3) = "asg"
    BY <1>1, <1>2, <1>5, <2>1
  <2>3. n > 3 => (R(4) = "lt" /\ D(3) = 0) \/ (R(4) = "rule" /\ D(3) = 1)
    BY <1>1, <1>2, <1>5, <2>2
  <2>4. n > 4 => (R(4) = "lt" => R(5) = "gateway") /\ (R(4) = "rule" => R(5) \in {"sm"} \union Role)
    BY <1>1, <1>2, <1>5, <2>3
  <2>5. n > 5 => (R(4) = "lt" => R(6) = "join") /\ (R(4) = "rule" => R(6) \in Lambda \union Role)
    BY <1>1, <1>2, <1>5, <2>3, <2>4
  <2>6. n > 6 => R(7) \in Role
    BY <1>1, <1>2, <1>4, <1>5, <2>3, <2>5
  <2>7. ~(n > 7)
    BY <1>1, <1>2, <1>5, <2>6
  <2> QED
    BY <1>1, <2>1, <2>2, <2>3, <2>4, <2>5, <2>6, <2>7
<1> QED
  BY <1>6, <1>7 DEF n, R, D


(* What the steps of EnsureResource do to the calls below the innermost. *)
LEMMA Moves ==
    ASSUME P!IInv, stack # <<>>
    PROVE  LET n == Len(stack) IN
           /\ Descend =>
                /\ Len(stack') = n + 1 /\ \A i \in 1 .. n : stack'[i] = stack[i]
                /\ stack'[n + 1].step = "subresources"
           /\ \A step \in {"work", "return"} : Decide(step) =>
                /\ Len(stack') = n /\ \A i \in 1 .. n - 1 : stack'[i] = stack[i]
                /\ stack'[n].r = stack[n].r /\ stack'[n].done = stack[n].done /\ stack'[n].step = step
           /\ Return /\ n = 1 => stack' = <<>>
           /\ Return /\ n # 1 =>
                /\ Len(stack') = n - 1 /\ \A i \in 1 .. n - 2 : stack'[i] = stack[i]
                /\ stack'[n - 1].r = stack[n - 1].r /\ stack'[n - 1].done = stack[n - 1].done + 1
<1> DEFINE n == Len(stack)
<1>1. /\ n \in Nat \ {0} /\ stack \in Seq(P!Frame) /\ Top = P!Top /\ Below = P!Below /\ ~P!Idle
      /\ Top = stack[n] /\ Below \in Seq(P!Frame) /\ Len(Below) = n - 1
      /\ \A i \in 1 .. n - 1 : Below[i] = stack[i]
  BY StackFacts
<1>2. ASSUME Descend
      PROVE  /\ Len(stack') = n + 1 /\ \A i \in 1 .. n : stack'[i] = stack[i]
             /\ stack'[n + 1].step = "subresources"
  <2> DEFINE r == Sub[Top.r][Top.done + 1]
  <2>1. Top.step = "subresources" /\ Top.done < Len(Sub[Top.r]) /\ stack' = Append(stack, Frame(r))
    BY <1>2 DEF Descend, At
  <2>2. r \in Resource
    <3>1. Top.r \in Resource /\ Top \in P!Frame
      BY StackFacts
    <3>2. Sub[Top.r] \in Seq(Resource) /\ Top.done \in Nat
      BY <3>1, SubIsSeq DEF P!Frame
    <3> DEFINE s == Sub[Top.r]  d == Top.done
    <3>3. s \in Seq(Resource) /\ d \in Nat /\ d < Len(s)
      BY <2>1, <3>2
    <3> HIDE DEF s, d
    <3>4. d + 1 \in 1 .. Len(s)
      BY <3>3, LenProperties
    <3>5. s[d + 1] \in Resource
      BY <3>3, <3>4, ElementOfSeq
    <3> QED
      BY <3>5 DEF s, d
  <2> HIDE DEF r
  <2>3. Frame(r) = P!Call(r) /\ Frame(r).step = "subresources"
    BY OneFrame
  <2>4. stack' = Append(stack, P!Call(r))
    BY <2>1, <2>3
  <2>5. /\ Len(stack') = Len(stack) + 1 /\ \A i \in 1 .. Len(stack) : stack'[i] = stack[i]
        /\ stack'[Len(stack) + 1] = P!Call(r)
    BY <1>1, <2>2, <2>4, TreeAssumptions, P!PushStack
  <2> QED
    BY <2>3, <2>5
<1>3. ASSUME NEW step \in {"work", "return"}, Decide(step)
      PROVE  /\ Len(stack') = n /\ \A i \in 1 .. n - 1 : stack'[i] = stack[i]
             /\ stack'[n].r = stack[n].r /\ stack'[n].done = stack[n].done /\ stack'[n].step = step
  <2>1. P!Decide(step)
    BY <1>1, <1>3 DEF Decide, P!Decide
  <2>2. /\ Len(stack') = Len(stack) /\ \A i \in 1 .. Len(stack) - 1 : stack'[i] = stack[i]
        /\ stack'[Len(stack)].r = P!Top.r /\ stack'[Len(stack)].done = P!Top.done
        /\ stack'[Len(stack)].step = step
    BY <1>1, <2>1, TreeAssumptions, P!DecideStack
  <2> QED
    BY <1>1, <2>2
<1>4. ASSUME Return, n = 1 PROVE stack' = <<>>
  <2>1. Below = <<>>
    BY <1>1, <1>4, EmptySeq
  <2> QED
    BY <1>4, <2>1 DEF Return
<1>5. ASSUME Return, n # 1
      PROVE  /\ Len(stack') = n - 1 /\ \A i \in 1 .. n - 2 : stack'[i] = stack[i]
             /\ stack'[n - 1].r = stack[n - 1].r /\ stack'[n - 1].done = stack[n - 1].done + 1
  <2>1. Below # <<>>
    BY <1>1, <1>5, EmptySeq
  <2>2. stack' = [Below EXCEPT ![Len(Below)].done = @ + 1]
    BY <1>5, <2>1, Returned DEF Return
  <2>3. /\ Len(stack') = Len(stack) - 1
        /\ \A i \in 1 .. Len(stack') - 1 : stack'[i] = stack[i]
        /\ stack'[Len(stack')].r = stack[Len(stack')].r
        /\ stack'[Len(stack')].done = stack[Len(stack')].done + 1
    <3>1. stack' = [P!Below EXCEPT ![Len(P!Below)].done = @ + 1] /\ P!Below # <<>>
      BY <1>1, <2>1, <2>2
    <3> QED
      BY <1>1, <3>1, TreeAssumptions, P!PopStack
  <2>4. Len(stack') - 1 = n - 2
    BY <1>1, <2>3
  <2> QED
    BY <2>3, <2>4
<1> QED
  BY <1>2, <1>3, <1>4, <1>5

(* The versions a call can give. *)
LEMMA Versions ==
    ASSUME IInv, NEW i \in 1 .. Len(todo), todo[i] # Stop
    PROVE  /\ todo[i].version \in {0, tag[todo[i].r], target[todo[i].r]}
           /\ cmd = "destroy" => todo[i].version \in {0, tag[todo[i].r]}
           /\ cmd # "destroy" /\ todo[i].r # "gateway" =>
                 todo[i].version \in {tag[todo[i].r], target[todo[i].r]}
<1> DEFINE c == todo[i]
<1>1. /\ cmd = "destroy" => stack = <<>>
      /\ stack = <<>> => OutsideCall(c)
      /\ stack # <<>> => EnsureCall(Top.r, c)
  BY AnyCall
<1>2. c # Stop
  OBVIOUS
<1>3. \A r \in Grouping \union {"alb"} : tag[r] = 0
  BY DEF IInv, BInv, TagsKnown
<1> HIDE DEF c
<1> DEFINE Right == /\ c.version \in {0, tag[c.r], target[c.r]}
                    /\ cmd = "destroy" => c.version \in {0, tag[c.r]}
                    /\ cmd # "destroy" /\ c.r # "gateway" => c.version \in {tag[c.r], target[c.r]}
<1>4. stack = <<>> => Right
  BY <1>1, OutsideDrops DEF OutsideCall
<1>5. ASSUME stack # <<>> PROVE Right
  <2> DEFINE r == Top.r
  <2>1. EnsureCall(r, c)
    BY <1>1, <1>5
  <2> HIDE DEF r
  <2>2. c.version = 0 \/ c.version \in {tag[c.r], target[c.r]}
    BY <1>2, <2>1 DEF EnsureCall
  <2>3. c.r # "gateway" => c.version \in {tag[c.r], target[c.r]}
    BY <1>2, <1>3, <2>1 DEF EnsureCall
  <2> QED
    BY <1>1, <1>5, <2>2, <2>3
<1> QED
  BY <1>4, <1>5 DEF c

(* Outside a destroy nothing but the gateway is removed. *)
LEMMA TagStays ==
    ASSUME IInv, Work, cmd # "destroy", NEW r \in Resource, r # "gateway", Exists(r)
    PROVE  Exists(r)'
<1>1. /\ 1 \in 1 .. Len(todo) /\ todo[1] # Stop
      /\ tag'[r] = IF r = todo[1].r THEN todo[1].version ELSE tag[r]
  BY WorkFacts DEF IInv
<1>2. r = todo[1].r => todo[1].version \in {tag[r], target[r]}
  BY <1>1, Versions
<1>3. target[r] # 0
  BY DEF IInv, BInv, Types
<1> QED
  BY <1>1, <1>2, <1>3 DEF Exists

LEMMA TargetSame == ASSUME [Next]_vars, ~Upgrade PROVE target' = target
BY DEF Next, vars, history, ImportCluster, UpdateCluster, Destroy, Begins, Refused, Ensure, Proceed,
       CleanerStuck, Finish, Descend, Fetch, FetchStuck, Work, WorkQuietly, WorkStops, Worked, Return, Abort, Ends

LEMMA CutGrows == ASSUME [Next]_vars PROVE cut \subseteq cut'
BY DEF Next, vars, history, ImportCluster, UpdateCluster, Destroy, Begins, Refused, Upgrade, Ensure, Proceed,
       CleanerStuck, Finish, Descend, Fetch, FetchStuck, Work, WorkQuietly, WorkStops, Worked, Return, Abort

(* The tags change by a call alone. *)
LEMMA OnlyWorkTags == ASSUME IInv, [Next]_vars, ~Work PROVE tag' = tag
<1>1. WorkQuietly => tag' = tag
  BY QuietFacts DEF IInv
<1>2. Proceed => tag' = tag
  BY ProceedFacts
<1>3. Decided => tag' = tag
  BY DEF Decided
<1>4. NothingLeft => tag' = tag
  BY DEF NothingLeft
<1>5. UNCHANGED vars => tag' = tag
  BY DEF vars, awsVars
<1> QED
  BY <1>1, <1>2, <1>3, <1>4, <1>5, StepKinds

-----------------------------------------------------------------------------
(***************************************************************************)
(* A release changes every version it changes at once, and no tag is ahead *)
(* of it.                                                                  *)
(***************************************************************************)
NewTarget == [r \in Resource |-> IF r \in Upgraded THEN 2 ELSE 1]
Released ==
    /\ target = [r \in Resource |-> 1] \/ target = NewTarget
    /\ \A r \in Resource : tag[r] <= target[r]

LEMMA ReleasedNext == ASSUME IInv, Released, [Next]_vars PROVE Released'
<1>1. tag \in [Resource -> 0 .. 2] /\ target \in [Resource -> {1, 2}]
  BY DEF IInv, BInv, Types
<1>2. CASE Upgrade
  <2>1. tag' = tag /\ target = [r \in Resource |-> 1] /\ target' = NewTarget
    BY <1>2 DEF Upgrade, NewTarget
  <2> QED
    BY <1>1, <2>1 DEF Released, NewTarget
<1>3. CASE Work
  <2>1. /\ 1 \in 1 .. Len(todo) /\ todo[1] # Stop /\ target' = target
        /\ \A r \in Resource : tag'[r] = IF r = todo[1].r THEN todo[1].version ELSE tag[r]
    BY <1>3, WorkFacts DEF IInv
  <2>2. todo[1].version \in {0, tag[todo[1].r], target[todo[1].r]}
    BY <2>1, Versions
  <2>3. \A r \in Resource : tag'[r] <= target[r]
    BY <1>1, <2>1, <2>2 DEF Released
  <2>4. NewTarget' = NewTarget
    BY DEF NewTarget
  <2> QED
    BY <2>1, <2>3, <2>4 DEF Released
<1>4. CASE ~Upgrade /\ ~Work
  BY <1>4, OnlyWorkTags, TargetSame DEF Released, NewTarget
<1> QED
  BY <1>2, <1>3, <1>4

-----------------------------------------------------------------------------
(***************************************************************************)
(* An update goes through the cluster only when the group is there, and    *)
(* none but destroy removes the group.                                     *)
(***************************************************************************)
OnCluster ==
    \/ \E i \in 1 .. Len(plan) : plan[i] = "cluster"
    \/ stack # <<>> /\ stack[1].r = "cluster"
GroupThere == outcome = "running" /\ cmd \in {"update", "dryUpdate"} /\ OnCluster => Exists("asg")

LEMMA UpdatePlans ==
    ASSUME ~Exists("asg"), NEW c, 
           Begins(c, When(~Has("table", "build"), <<"migrate">>)
                     \o <<"table", IF Exists("asg") THEN "cluster" ELSE "bare">>)
    PROVE  \A i \in 1 .. Len(plan') : plan'[i] # "cluster"
<1> DEFINE s == <<"table", "bare">>
<1>1. plan' = When(~Has("table", "build"), <<"migrate">>) \o s
  BY DEF Begins
<1>2. <<"migrate">> \o s = UpdatePlan("bare") /\ <<>> \o s = s
  BY UpdatePlanIs
<1>3. plan' = <<"migrate", "table", "bare">> \/ plan' = s
  BY <1>1, <1>2 DEF When, UpdatePlan
<1> QED
  BY <1>3

(* The bottom of the stack is the same until the call of the command ends. *)
LEMMA BottomStays ==
    ASSUME IInv, stack # <<>>, Descend \/ Fetch \/ Worked \/ Return
    PROVE  stack' = <<>> \/ (stack' # <<>> /\ stack'[1].r = stack[1].r)
<1> DEFINE n == Len(stack)
<1>1. n \in Nat \ {0} /\ P!IInv
  BY StackFacts DEF IInv
<1> HIDE DEF n
<1>2. \A s : Len(s) \in Nat \ {0} => s # <<>>
  OBVIOUS
<1>3. CASE Descend
  <2>1. Len(stack') = n + 1 /\ \A i \in 1 .. n : stack'[i] = stack[i]
    BY <1>1, <1>3, Moves DEF n
  <2> QED
    BY <1>1, <1>2, <2>1
<1>4. CASE Fetch \/ Worked
  <2>1. PICK step \in {"work", "return"} : Decide(step)
    BY <1>4 DEF Fetch, Worked
  <2> QED
    BY <1>1, <2>1, DecideFacts
<1>5. CASE Return
  <2>1. CASE n = 1
    BY <1>1, <1>5, <2>1, Moves DEF n
  <2>2. CASE n # 1
    <3>1. /\ Len(stack') = n - 1 /\ \A i \in 1 .. n - 2 : stack'[i] = stack[i]
          /\ stack'[n - 1].r = stack[n - 1].r
      BY <1>1, <1>5, <2>2, Moves DEF n
    <3>2. n - 1 \in Nat \ {0} /\ (n - 1 = 1 \/ 1 \in 1 .. n - 2)
      BY <1>1, <2>2
    <3> QED
      BY <1>2, <3>1, <3>2
  <2> QED
    BY <2>1, <2>2
<1> QED
  BY <1>3, <1>4, <1>5

LEMMA GroupThereNext == ASSUME IInv, GroupThere, [Next]_vars PROVE GroupThere'
<1> SUFFICES ASSUME outcome' = "running", cmd' \in {"update", "dryUpdate"}, OnCluster' PROVE Exists("asg")'
  BY DEF GroupThere
<1>1. "asg" \in Resource /\ "asg" # "gateway" /\ Types
  BY Kinds DEF Others, IInv, BInv
<1>2. CASE UpdateCluster
  <2>1. Ready /\ stack' = stack /\ tag' = tag
    BY <1>2 DEF UpdateCluster, Begins, Refused, awsVars
  <2>2. stack = <<>>
    BY <2>1, ReadyFacts DEF IInv
  <2>3. PICK c : Begins(c, When(~Has("table", "build"), <<"migrate">>)
                           \o <<"table", IF Exists("asg") THEN "cluster" ELSE "bare">>)
    BY <1>2 DEF UpdateCluster, Refused
  <2>4. ~Exists("asg") => \A i \in 1 .. Len(plan') : plan'[i] # "cluster"
    BY <2>3, UpdatePlans
  <2>5. \E i \in 1 .. Len(plan') : plan'[i] = "cluster"
    BY <2>1, <2>2 DEF OnCluster
  <2> QED
    BY <2>1, <2>4, <2>5 DEF Exists
<1>3. CASE ImportCluster \/ Destroy \/ Upgrade \/ Finish \/ CleanerStuck \/ FetchStuck \/ WorkStops \/ Abort
  BY <1>3 DEF ImportCluster, Destroy, Upgrade, Begins, Refused, Finish, CleanerStuck, FetchStuck, WorkStops, Abort, Ends
<1>4. CASE Ensure \/ Proceed
  <2>1. /\ plan # <<>> /\ plan' = Tail(plan) /\ stack = <<>> /\ UNCHANGED <<tag, outcome, cmd>>
        /\ Ensure => stack' = <<Frame(Head(plan))>>
        /\ Proceed => stack' = stack
    BY <1>4 DEF Ensure, Proceed, Between, awsVars, ensureVars
  <2>2. plan \in Seq(StepName)
    BY <2>1 DEF IInv, BInv, PlanKnown, EndOf
  <2>3. Head(plan) = plan[1] /\ 1 \in 1 .. Len(plan)
        /\ \A i \in 1 .. Len(plan') : plan'[i] = plan[i + 1] /\ i + 1 \in 1 .. Len(plan)
    <3>1. /\ Len(plan) \in Nat \ {0} /\ Head(plan) = plan[1]
          /\ Len(plan') = Len(plan) - 1 /\ \A i \in 1 .. Len(plan) - 1 : plan'[i] = plan[i + 1]
      BY <2>1, <2>2, HeadTail
    <3> QED
      BY <3>1
  <2>4. Frame(Head(plan)).r = Head(plan)
    BY DEF Frame
  <2>5. \E i \in 1 .. Len(plan) : plan[i] = "cluster"
    <3>1. CASE \E i \in 1 .. Len(plan') : plan'[i] = "cluster"
      BY <2>3, <3>1
    <3>2. CASE stack' # <<>> /\ stack'[1].r = "cluster"
      <4>1. stack' = <<Frame(Head(plan))>>
        BY <1>4, <2>1, <3>2
      <4>2. stack'[1] = Frame(Head(plan))
        BY <4>1
      <4> QED
        BY <2>3, <2>4, <3>2, <4>2
    <3> QED
      BY <3>1, <3>2 DEF OnCluster
  <2> QED
    BY <2>1, <2>5 DEF GroupThere, OnCluster, Exists
<1>5. CASE Descend \/ Fetch \/ Worked \/ Return
  <2>1. stack # <<>> /\ UNCHANGED <<tag, outcome, cmd, plan>>
    BY <1>5 DEF Descend, Fetch, Worked, Return, At, awsVars
  <2>2. stack' = <<>> \/ stack'[1].r = stack[1].r
    BY <1>5, <2>1, BottomStays
  <2> QED
    BY <2>1, <2>2 DEF GroupThere, OnCluster, Exists
<1>6. CASE Work
  <2>1. UNCHANGED <<stack, outcome, cmd, plan>>
    BY <1>6, WorkFacts DEF IInv
  <2>2. Exists("asg")
    BY <2>1 DEF GroupThere, OnCluster
  <2> QED
    BY <1>1, <1>6, <2>1, <2>2, TagStays
<1>7. CASE WorkQuietly \/ UNCHANGED vars
  <2>1. UNCHANGED <<stack, outcome, cmd, plan, tag>>
    BY <1>7, QuietFacts DEF IInv, vars, awsVars, ensureVars
  <2> QED
    BY <2>1 DEF GroupThere, OnCluster, Exists
<1> QED
  BY <1>2, <1>3, <1>4, <1>5, <1>6, <1>7 DEF Next

-----------------------------------------------------------------------------
(* Destroy removes the group after its template.                           *)
TemplateGone == Destroying => \A i \in 1 .. Len(todo) : todo[i].r = "asg" => ~Exists("lt")

LEMMA GroupStep ==
    /\ \A step \in Clean : "asg" \in About(step) => step = "asg"
    /\ \A k \in 1 .. 11 : DestroyPlan[k] = "asg" => k = 8
    /\ DestroyPlan[5] = "lt" /\ Cleaned("lt") = {"lt"} /\ "lt" \in Clean /\ "asg" \in Clean
<1>1. /\ \A k \in 1 .. 11 : DestroyPlan[k] = "asg" => k = 8
      /\ DestroyPlan[5] = "lt"
  BY DEF DestroyPlan
<1>2. "asg" \notin Role \union Lambda
  BY Kinds, KindsApart DEF Others
<1>3. \A step \in Clean : "asg" \in About(step) => step = "asg"
  BY <1>2, CleanedIs DEF Clean
<1> QED
  BY <1>1, <1>3, CleanedIs DEF Clean

LEMMA TemplateGoneNext ==
    ASSUME IInv, Cleaning, Listed, TemplateGone, [Next]_vars
    PROVE  TemplateGone'
<1> SUFFICES ASSUME Destroying' PROVE (\A i \in 1 .. Len(todo) : todo[i].r = "asg" => ~Exists("lt"))'
  BY DEF TemplateGone
<1>1. "lt" \in Resource
  BY Kinds DEF Others
<1>2. CASE todo' = <<>>
  BY <1>2
<1>3. CASE UNCHANGED vars
  <2>1. UNCHANGED <<tag, todo, cmd, outcome>>
    BY <1>3 DEF vars, awsVars
  <2> QED
    BY <2>1 DEF TemplateGone, Destroying, Exists
<1>4. CASE Decided
  BY <1>4, DecidedFacts DEF Destroying
<1>5. CASE Work
  <2>1. /\ todo \in Seq(CallSet) /\ todo # <<>> /\ todo' = Tail(todo) /\ UNCHANGED <<cmd, outcome>>
        /\ 1 \in 1 .. Len(todo) /\ todo[1] # Stop
        /\ tag'["lt"] = IF "lt" = todo[1].r THEN todo[1].version ELSE tag["lt"]
    BY <1>1, <1>5, WorkFacts DEF IInv
  <2>2. "lt" = todo[1].r => todo[1].version \in {0, tag["lt"]}
    BY <2>1, Versions DEF Destroying
  <2>3. ~Exists("lt") => ~Exists("lt")'
    BY <2>1, <2>2 DEF Exists
  <2> DEFINE t == todo'
  <2>4. \A i \in 1 .. Len(t) : \E j \in 1 .. Len(todo) : j # 1 /\ t[i] = todo[j]
    BY <2>1, TailCall
  <2> HIDE DEF t
  <2>5. \A i \in 1 .. Len(t) : t[i].r = "asg" => ~Exists("lt")
    BY <2>1, <2>4 DEF TemplateGone, Destroying
  <2> QED
    BY <2>3, <2>5 DEF t
<1>6. CASE WorkQuietly
  <2>1. /\ todo \in Seq(CallSet) /\ todo # <<>> /\ todo' = Tail(todo) /\ UNCHANGED <<cmd, outcome, tag>>
    BY <1>6, QuietFacts DEF IInv
  <2> DEFINE t == todo'
  <2>4. \A i \in 1 .. Len(t) : \E j \in 1 .. Len(todo) : j # 1 /\ t[i] = todo[j]
    BY <2>1, TailCall
  <2> HIDE DEF t
  <2>5. \A i \in 1 .. Len(t) : t[i].r = "asg" => ~Exists("lt")
    BY <2>1, <2>4 DEF TemplateGone, Destroying
  <2> QED
    BY <2>1, <2>5 DEF t, Exists
<1>7. CASE Proceed
  <2>1. /\ outcome = "running" /\ cmd = "destroy" /\ todo = <<>> /\ plan # <<>> /\ tag' = tag
        /\ Keeps(Head(plan), todo')
    BY <1>7, ProceedFacts DEF Destroying
  <2>2. /\ Len(plan) \in 1 .. 11 /\ Head(plan) = DestroyPlan[12 - Len(plan)] /\ Head(plan) \in Clean
    <3>1. Head(plan) \notin Roots
      BY <1>7 DEF Proceed
    <3> QED
      BY <2>1, <3>1, PlanFacts, HeadKinds DEF IInv
  <2>3. ASSUME Head(plan) = "asg" PROVE ~Exists("lt")
    <3> DEFINE n == Len(plan)
    <3>1. n \in 1 .. 11 /\ DestroyPlan[12 - n] = "asg"
      BY <2>2, <2>3
    <3> HIDE DEF n
    <3>2. 12 - n \in 1 .. 11
      BY <3>1
    <3>3. 5 \in 1 .. 11 /\ 5 + n <= 11
      BY <3>1, <3>2, GroupStep
    <3>4. \A r \in Cleaned(DestroyPlan[5]) : ~Exists(r) \/ r \in missed
      BY <2>1, <2>2, <3>3, CleanedBefore DEF n
    <3>5. "lt" \notin missed
      BY Kinds, KindsApart DEF Listed, Others
    <3> QED
      BY <3>4, <3>5, GroupStep
  <2>4. \A i \in 1 .. Len(todo') : todo'[i].r = "asg" => Head(plan) = "asg"
    <3> DEFINE t == todo'
    <3>1. \A i \in 1 .. Len(t) : t[i].r \in About(Head(plan))
      BY <2>1 DEF Keeps
    <3> HIDE DEF t
    <3>2. \A i \in 1 .. Len(t) : t[i].r = "asg" => Head(plan) = "asg"
      BY <2>2, <3>1, GroupStep
    <3> QED
      BY <3>2 DEF t
  <2> QED
    BY <2>1, <2>3, <2>4 DEF Exists
<1> QED
  BY <1>2, <1>3, <1>4, <1>5, <1>6, <1>7, StepKinds DEF NothingLeft

-----------------------------------------------------------------------------
(***************************************************************************)
(* Where a call of EnsureResource is when it comes to the template and to  *)
(* the group.                                                              *)
(***************************************************************************)
Past ==
    /\ Len(stack) >= 3 /\ stack[3].r = "asg"
    /\ \/ stack[3].done >= 1
       \/ Len(stack) = 4 /\ stack[4].r = "lt" /\ stack[4].step \in {"work", "return"}

LEMMA Places ==
    ASSUME IInv, stack # <<>>
    PROVE  /\ Top.r = "lt" => stack[1].r = "cluster" /\ Len(stack) = 4 /\ stack[3].r = "asg" /\ stack[3].done = 0
           /\ Top.r = "asg" => stack[1].r = "cluster" /\ Len(stack) = 3
           /\ Past /\ Top.r # "asg" /\ Len(stack) <= 4 => Len(stack) = 4
           /\ Past => /\ Top.r \in {"asg", "lt", "rule", "sm"} \union Lambda \union Role
                      /\ Top.r = "lt" => Top.step \in {"work", "return"}
<1> DEFINE n == Len(stack)
<1>1. n \in Nat \ {0} /\ Top = stack[n] /\ P!IInv /\ stack[1].r \in Roots
  BY StackFacts DEF IInv, BInv, Position
<1>2. ({"lt", "asg", "cluster", "bare", "table"} \intersect (Lambda \union Role)) = {}
  BY Kinds, KindsApart DEF Others, Grouping
<1> DEFINE R(i) == stack[i].r
<1>3. R(1) # "cluster" => n <= 2 /\ (n = 2 => R(2) \in {"alb", "key"})
  BY <1>1, Shape
<1>4. R(1) = "cluster" =>
        /\ n >= 2 => R(2) \in {"alb", "hostgroup"}
        /\ n >= 3 => R(3) = "asg"
        /\ n >= 4 => \/ R(4) = "lt" /\ stack[3].done = 0
                     \/ R(4) = "rule" /\ stack[3].done = 1
        /\ n >= 5 => /\ R(4) = "lt" => R(5) = "gateway"
                     /\ R(4) = "rule" => R(5) \in {"sm"} \union Role
        /\ n >= 6 => /\ R(4) = "lt" => R(6) = "join"
                     /\ R(4) = "rule" => R(6) \in Lambda \union Role
        /\ n >= 7 => R(7) \in Role
        /\ n <= 7
  BY <1>1, Shape
<1>5. "join" \in Lambda /\ Top.r = R(n) /\ R(1) \in {"cluster", "bare", "table"}
  BY <1>1, Kinds DEF Roots
<1>6. Past => n >= 3 /\ (stack[3].done >= 1 \/ (n = 4 /\ R(4) = "lt" /\ stack[4].step \in {"work", "return"}))
  BY DEF Past
<1>7. Top = stack[n]
  BY <1>1
<1> HIDE DEF n, R
<1>8. n \in {1, 2, 3, 4, 5, 6, 7}
  BY <1>1, <1>3, <1>4
<1>9. /\ Top.r = "lt" => R(1) = "cluster" /\ n = 4 /\ R(3) = "asg" /\ stack[3].done = 0
      /\ Top.r = "asg" => R(1) = "cluster" /\ n = 3
  BY <1>1, <1>2, <1>3, <1>4, <1>5, <1>8
<1>10. Past /\ Top.r # "asg" /\ n <= 4 => n = 4
  BY <1>3, <1>4, <1>5, <1>6, <1>8
<1>11. Past => Top.r \in {"asg", "lt", "rule", "sm"} \union Lambda \union Role
  <2> SUFFICES ASSUME Past PROVE R(n) \in {"asg", "lt", "rule", "sm"} \union Lambda \union Role
    BY <1>5
  <2>1. R(1) = "cluster" /\ n >= 3
    BY <1>3, <1>6, <1>8
  <2>2. CASE n \in {3, 4}
    BY <1>4, <2>1, <2>2
  <2>3. CASE n \in {5, 6, 7}
    <3>1. n >= 5 /\ n >= 4
      BY <2>3
    <3>2. stack[3].done >= 1
      BY <1>6, <2>3
    <3>3. R(4) = "rule"
      BY <1>4, <2>1, <3>1, <3>2
    <3>4. /\ R(5) \in {"sm"} \union Role
          /\ n >= 6 => R(6) \in Lambda \union Role
          /\ n >= 7 => R(7) \in Role
      BY <1>4, <2>1, <3>1, <3>3
    <3>5. n = 5 => R(n) \in {"sm"} \union Role
      BY <3>4
    <3>6. n = 6 => R(n) \in Lambda \union Role
      BY <3>4
    <3>7. n = 7 => R(n) \in Role
      BY <3>4
    <3> QED
      BY <2>3, <3>5, <3>6, <3>7
  <2> QED
    BY <1>8, <2>1, <2>2, <2>3
<1>12. Past /\ Top.r = "lt" => Top.step \in {"work", "return"}
  BY <1>6, <1>7, <1>9
<1> QED
  BY <1>9, <1>10, <1>11, <1>12 DEF n, R

LEMMA PastMoves ==
    ASSUME IInv, Past, Descend \/ Fetch \/ Worked \/ Return
    PROVE  Past' \/ (Return /\ Len(stack) = 3)
<1>1. stack # <<>>
  BY DEF Past
<1> DEFINE n == Len(stack)
<1>2. n \in Nat \ {0} /\ P!IInv /\ Top = stack[n]
  BY <1>1, StackFacts DEF IInv
<1>3. /\ n >= 3 /\ stack[3].r = "asg"
      /\ stack[3].done >= 1 \/ (n = 4 /\ stack[4].r = "lt" /\ stack[4].step \in {"work", "return"})
  BY DEF Past
<1>4. stack[3].done \in Nat
  <2>1. 3 \in 1 .. Len(stack)
    BY <1>2, <1>3
  <2>2. stack[3] \in P!Frame
    BY <1>1, <2>1, StackFacts, ElementOfSeq DEF IInv
  <2> QED
    BY <2>2 DEF P!Frame
<1>5. CASE Descend
  <2>1. Len(stack') = n + 1 /\ \A i \in 1 .. n : stack'[i] = stack[i]
    BY <1>1, <1>2, <1>5, Moves
  <2>2. ~(n = 4 /\ stack[4].r = "lt" /\ stack[4].step \in {"work", "return"})
    BY <1>2, <1>5 DEF Descend, At
  <2> HIDE DEF n
  <2>3. Len(stack') >= 3 /\ stack'[3] = stack[3]
    BY <1>2, <1>3, <2>1
  <2> QED
    BY <1>3, <2>2, <2>3 DEF Past
<1>6. CASE Fetch \/ Worked
  <2>1. PICK step \in {"work", "return"} : Decide(step)
    BY <1>6 DEF Fetch, Worked
  <2>2. /\ Len(stack') = n /\ \A i \in 1 .. n - 1 : stack'[i] = stack[i]
        /\ stack'[n].r = stack[n].r /\ stack'[n].done = stack[n].done /\ stack'[n].step = step
    BY <1>1, <1>2, <2>1, Moves
  <2> HIDE DEF n
  <2>3. stack'[3].r = stack[3].r /\ stack'[3].done = stack[3].done
    BY <1>2, <1>3, <2>2
  <2>4. n = 4 => stack'[4].r = stack[4].r /\ stack'[4].step \in {"work", "return"}
    BY <2>2
  <2> QED
    BY <1>3, <2>2, <2>3, <2>4 DEF Past
<1>7. CASE Return
  <2>1. /\ n # 1
        /\ Len(stack') = n - 1 /\ \A i \in 1 .. n - 2 : stack'[i] = stack[i]
        /\ stack'[n - 1].r = stack[n - 1].r /\ stack'[n - 1].done = stack[n - 1].done + 1
    BY <1>1, <1>2, <1>3, <1>7, Moves
  <2> HIDE DEF n
  <2>2. CASE n = 3
    BY <1>7, <2>2 DEF n
  <2>3. CASE n = 4
    <3>1. Len(stack') = 3 /\ stack'[3].r = "asg" /\ stack'[3].done = stack[3].done + 1
      BY <1>3, <2>1, <2>3
    <3> QED
      BY <1>4, <3>1 DEF Past
  <2>4. CASE n > 4
    <3>1. Len(stack') >= 3 /\ stack'[3].r = "asg" /\ stack'[3].done >= 1
      <4>1. stack[3].done >= 1 /\ n - 1 >= 3
        BY <1>2, <1>3, <2>4
      <4>2. 3 \in 1 .. n - 2
        BY <1>2, <2>4
      <4> QED
        BY <1>3, <2>1, <4>1, <4>2
    <3> QED
      BY <3>1 DEF Past
  <2> QED
    BY <1>2, <1>3, <2>2, <2>3, <2>4
<1> QED
  BY <1>5, <1>6, <1>7

-----------------------------------------------------------------------------
(***************************************************************************)
(* A rule without a target keeps import from going on, and nothing but the *)
(* function that has just made it gives it one.                            *)
(***************************************************************************)
OffRule(s) == \A i \in 1 .. Len(s) : s[i].r # "rule" /\ \A x \in s[i].put : x[1] # "rule"
Dead == NoTarget /\ OffRule(todo)

LEMMA NoTargetSame ==
    ASSUME NoTarget, Exists("rule")', \A x \in parts' : x \in parts \/ x[1] # "rule"
    PROVE  NoTarget'
BY DEF NoTarget, Has, RuleTargets

(* What destroy does while the rule has no target. *)
LEMMA DeadCleaner ==
    ASSUME IInv, NoTarget, Proceed, cmd = "destroy"
    PROVE  OffRule(todo')
<1>1. /\ outcome = "running" /\ plan # <<>> /\ Keeps(Head(plan), todo') /\ OfCommand(todo') /\ stack = <<>>
      /\ UNCHANGED <<tag, parts, cmd>>
  BY ProceedFacts
<1> DEFINE t == todo'  step == Head(plan)
<1>2. PICK left \in SUBSET Listing(step, {}) :
        (cmd = "destroy" /\ CleanerFails(step) => left # {}) /\ t \in Steps(step, Listing(step, left))
  BY DEF Proceed
<1>3. step \in Clean
  <2>1. step \notin Roots
    BY DEF Proceed
  <2> QED
    BY <1>1, <2>1, HeadKinds DEF IInv
<1>4. /\ \A i \in 1 .. Len(t) : t[i].r \in About(step)
      /\ \A i \in 1 .. Len(t) : \A x \in t[i].put : x[1] \in Near(t[i].r)
  BY <1>1 DEF Keeps, OfCommand, OutsideCall
<1> HIDE DEF t, step
<1>5. CASE step = "rule"
  <2>1. left = {"rule"}
    <3>1. left # {}
      BY <1>2, <1>5 DEF CleanerFails
    <3>2. Listing("rule", {}) \subseteq {"rule"}
      BY ListingFacts
    <3> QED
      BY <1>2, <1>5, <3>1, <3>2
  <2>2. "rule" \notin Listing("rule", left)
    BY <2>1, ListingFacts
  <2>3. t = When("rule" \in Listing(step, left), DeleteCloudWatchEventRule)
    BY <1>2, <1>5 DEF Steps
  <2>4. t = <<>>
    BY <1>5, <2>2, <2>3 DEF When
  <2> QED
    BY <2>4 DEF OffRule, t
<1>6. CASE step = "iam"
  <2> DEFINE found == Listing(step, left)
  <2>1. t = DeleteRoles(found)
    BY <1>2, <1>6 DEF Steps
  <2>2. found \in SUBSET Role /\ \A r \in found : Exists(r)
    BY <1>6, ListingFacts
  <2>3. Types /\ Owned
    BY DEF IInv, BInv
  <2> HIDE DEF found
  <2>4. \A i \in 1 .. Len(DeleteRoles(found)) : \E x \in found :
            DeleteRoles(found)[i] = DeleteIamRole(x)[1] \/ DeleteRoles(found)[i] = DeleteIamRole(x)[2]
    BY <2>2, <2>3, RolesFine
  <2>5. LiveTargets = {}
    BY DEF NoTarget, LiveTargets, RuleTargets
  <2>6. ASSUME NEW x \in found
        PROVE  /\ DeleteIamRole(x)[1].put = {} /\ DeleteIamRole(x)[2].put = {}
               /\ DeleteIamRole(x)[1].r = x /\ DeleteIamRole(x)[2].r = x /\ x # "rule"
    <3>1. x \in Role /\ Exists(x)
      BY <2>2
    <3>2. x # "rule"
      BY <3>1, Kinds, KindsApart DEF Others
    <3> QED
      BY <2>3, <2>5, <3>1, <3>2, RoleCalls
  <2>7. OffRule(t)
    BY <2>1, <2>4, <2>6 DEF OffRule
  <2> QED
    BY <2>7 DEF t
<1>7. CASE step \notin {"rule", "iam"}
  <2>1. "rule" \notin Role \union Lambda /\ Role \intersect Lambda = {}
    BY Kinds, KindsApart DEF Others
  <2>2. About(step) \intersect (Role \union {"rule"}) = {}
    <3>1. {"alb", "gateway", "lt", "sm", "asg", "table", "key"} \intersect (Role \union {"rule"}) = {}
      BY Kinds, KindsApart DEF Others
    <3> QED
      BY <1>3, <1>7, <2>1, <3>1, CleanedIs DEF Clean
  <2>3. \A q : q \notin Role \union {"rule"} => "rule" \notin Near(q)
    BY DEF Near
  <2>4. OffRule(t)
    BY <1>4, <2>2, <2>3 DEF OffRule
  <2> QED
    BY <2>4 DEF t
<1> QED
  BY <1>5, <1>6, <1>7

LEMMA DeadKept == ASSUME IInv, Dead, [Next]_vars PROVE Dead'
<1>1. "rule" \in Resource /\ "rule" \notin Grouping /\ "rule" # "join" /\ "rule" # "stop"
  BY Kinds, KindsApart DEF Others, Grouping
<1>2. NoTarget /\ OffRule(todo) /\ Exists("rule")
  BY DEF Dead, NoTarget
<1>3. CASE Work
  <2> DEFINE c == todo[1]  t == todo'
  <2>1. /\ todo \in Seq(CallSet) /\ todo # <<>> /\ t = Tail(todo) /\ 1 \in 1 .. Len(todo)
        /\ parts' = (parts \ c.drop) \union c.put
        /\ tag'["rule"] = IF "rule" = c.r THEN c.version ELSE tag["rule"]
    BY <1>1, <1>3, WorkFacts DEF IInv
  <2>2. c.r # "rule" /\ \A x \in c.put : x[1] # "rule"
    BY <1>2, <2>1 DEF OffRule
  <2>3. \A i \in 1 .. Len(t) : \E j \in 1 .. Len(todo) : j # 1 /\ t[i] = todo[j]
    BY <2>1, TailCall
  <2> HIDE DEF c, t
  <2>4. NoTarget'
    BY <1>2, <2>1, <2>2, NoTargetSame DEF Exists
  <2>5. OffRule(t)
    BY <1>2, <2>3 DEF OffRule
  <2> QED
    BY <2>4, <2>5 DEF Dead, OffRule, t
<1>4. CASE WorkQuietly
  <2> DEFINE t == todo'
  <2>1. /\ todo \in Seq(CallSet) /\ todo # <<>> /\ t = Tail(todo) /\ UNCHANGED <<tag, parts>>
    BY <1>4, QuietFacts DEF IInv
  <2>3. \A i \in 1 .. Len(t) : \E j \in 1 .. Len(todo) : j # 1 /\ t[i] = todo[j]
    BY <2>1, TailCall
  <2> HIDE DEF t
  <2>4. NoTarget'
    BY <1>2, <2>1, NoTargetSame DEF Exists
  <2>5. OffRule(t)
    BY <1>2, <2>3 DEF OffRule
  <2> QED
    BY <2>4, <2>5 DEF Dead, OffRule, t
<1>5. CASE Proceed
  <2>1. /\ UNCHANGED <<tag, parts>>
        /\ cmd # "destroy" => \A i \in 1 .. Len(todo') : todo'[i].r \in {"table", "asg"}
        /\ OfCommand(todo') /\ stack = <<>> /\ cmd' = cmd
    BY <1>5, ProceedFacts
  <2>2. NoTarget'
    BY <1>2, <2>1, NoTargetSame DEF Exists
  <2> DEFINE t == todo'
  <2>3. ASSUME cmd # "destroy" PROVE OffRule(t)
    <3>1. \A i \in 1 .. Len(t) : OutsideCall(t[i])
      BY <2>1 DEF OfCommand
    <3>2. \A i \in 1 .. Len(t) : t[i].r \in {"table", "asg"}
      BY <2>1, <2>3
    <3> HIDE DEF t
    <3>3. \A i \in 1 .. Len(t) : \A x \in t[i].put : x[1] = t[i].r
      BY <2>3, <3>1, OutsideDrops
    <3> QED
      BY <3>2, <3>3 DEF OffRule
  <2>4. cmd = "destroy" => OffRule(t)
    BY <1>2, <1>5, DeadCleaner
  <2> HIDE DEF t
  <2>5. OffRule(t)
    BY <2>3, <2>4
  <2> QED
    BY <2>2, <2>5 DEF Dead, OffRule, t
<1>6. CASE Decided
  <2> DEFINE r == Top.r  t == todo'
  <2>1. Fine(r, t) /\ UNCHANGED <<tag, parts>>
    BY <1>6, DecidedFacts
  <2>2. r # "rule"
    BY <1>2, <1>6 DEF Decided, FetchFails
  <2> HIDE DEF r, t
  <2>3. \A i \in 1 .. Len(t) : EnsureCall(r, t[i])
    BY <2>1 DEF Fine, InEnsure
  <2>4. "rule" \notin Touched(r)
    BY <1>1, <2>2 DEF Touched
  <2>5. ASSUME NEW i \in 1 .. Len(t) PROVE t[i].r # "rule" /\ \A x \in t[i].put : x[1] # "rule"
    <3>1. \A x \in t[i].put \union t[i].drop : x[1] \in Touched(r)
      BY <2>3, EnsureDrops
    <3>2. t[i].r # "rule"
      BY <1>1, <2>2, <2>3, StopIsCall DEF EnsureCall
    <3> QED
      BY <2>4, <3>1, <3>2
  <2>6. NoTarget'
    BY <1>2, <2>1, NoTargetSame DEF Exists
  <2> QED
    BY <2>5, <2>6 DEF Dead, OffRule, t
<1>7. CASE NothingLeft
  <2>1. todo' = <<>> /\ tag' = tag /\ parts' \subseteq parts
    BY <1>7 DEF NothingLeft
  <2>2. NoTarget'
    BY <1>2, <2>1, NoTargetSame DEF Exists
  <2> QED
    BY <2>1, <2>2 DEF Dead, OffRule
<1>8. CASE UNCHANGED vars
  BY <1>8 DEF vars, awsVars, Dead, NoTarget, OffRule, Exists, Has
<1> QED
  BY <1>3, <1>4, <1>5, <1>6, <1>7, <1>8, StepKinds

-----------------------------------------------------------------------------
(***************************************************************************)
(* The template and the group that uses it.                                *)
(***************************************************************************)
Single == <<"lt", "single">>
GroupLatest == <<"asg", "latest">>

(* The calls that make and change the one and the other. *)
TemplateCall(c, first) ==
    /\ c.version = target["lt"]
    /\ Single \in c.drop => first /\ tag["lt"] = 1 /\ target["lt"] = 2
    /\ ~Exists("lt") => first /\ Single \in c.put
Putting(s, i, x) == \E j \in 1 .. Len(s) : j < i /\ x \in s[j].put
GroupCall(s, i) ==
    s[i].version = target["asg"] /\ tag["asg"] # target["asg"] =>
        IF Exists("asg") THEN GroupLatest \in parts \/ Putting(s, i, GroupLatest)
        ELSE ~Outdated("lt") /\ (Single \in parts \/ "import" \in cut)
CallsFit ==
    \A i \in 1 .. Len(todo) :
        /\ GroupLatest \in todo[i].drop => todo[i].r = "asg" /\ todo[i].version = 0
        /\ Single \in todo[i].drop => todo[i].r = "lt" /\ (stack = <<>> => todo[i].version = 0)
        /\ stack # <<>> /\ Top.r = "lt" => TemplateCall(todo[i], i = 1)
        /\ stack # <<>> /\ Top.r = "asg" => GroupCall(todo, i)

(***************************************************************************)
(* A template without its group is one an aborted import left, or has a    *)
(* rule without a target next to it, which the next import stops at; or    *)
(* import is on its way from the one to the other.                         *)
(***************************************************************************)
Midway == cmd = "import" /\ outcome = "running" /\ ~Outdated("lt") /\ Single \in parts /\ Past
Alone == Exists("lt") /\ ~Exists("asg") => "import" \in cut \/ Dead \/ Midway

(* In EnsureResource a call on the template is one of its own function. *)
LEMMA TemplateTop ==
    ASSUME IInv, NEW i \in 1 .. Len(todo), stack # <<>>
    PROVE  /\ todo[i].r = "lt" => Top.r = "lt"
           /\ todo[i].r = "asg" => Top.r = "asg"
<1>1. EnsureCall(Top.r, todo[i])
  BY AnyCall
<1>2. Stop.r = "stop"
  BY StopIsCall
<1> QED
  BY <1>1, <1>2 DEF EnsureCall

LEMMA MidwayWork ==
    ASSUME IInv, CallsFit, Midway, Work
    PROVE  Midway'
<1> DEFINE c == todo[1]
<1>1. /\ UNCHANGED <<target, stack, cmd, outcome>> /\ 1 \in 1 .. Len(todo)
      /\ parts' = (parts \ c.drop) \union c.put
      /\ \A r \in Resource : tag'[r] = IF r = c.r THEN c.version ELSE tag[r]
  BY WorkFacts DEF IInv
<1>2. stack # <<>> /\ "lt" \in Resource
  BY Kinds DEF Midway, Past, Others
<1>3. c.r = "lt" => TemplateCall(c, TRUE)
  BY <1>1, <1>2, TemplateTop DEF CallsFit
<1>4. Single \in c.drop => c.r = "lt"
  BY <1>1 DEF CallsFit
<1> HIDE DEF c
<1>5. tag'["lt"] = target["lt"] /\ Single \in parts'
  BY <1>1, <1>2, <1>3, <1>4 DEF Midway, Outdated, TemplateCall
<1> QED
  BY <1>1, <1>5 DEF Midway, Outdated, Past, Single

(* The template is made on the way of an import to the group. *)
LEMMA TemplateMade ==
    ASSUME IInv, CallsFit, GroupThere, Work, ~Exists("lt"), Exists("lt")', ~Exists("asg")'
    PROVE  Midway'
<1> DEFINE c == todo[1]
<1>1. /\ UNCHANGED <<target, stack, cmd, outcome>> /\ 1 \in 1 .. Len(todo) /\ c # Stop
      /\ parts' = (parts \ c.drop) \union c.put
      /\ \A r \in Resource : tag'[r] = IF r = c.r THEN c.version ELSE tag[r]
  BY WorkFacts DEF IInv
<1>2. "lt" \in Resource /\ "asg" \in Resource /\ "asg" # "gateway"
  BY Kinds DEF Others
<1>3. c.r = "lt" /\ c.version # 0
  BY <1>1, <1>2 DEF Exists
<1>4. stack # <<>>
  <2> SUFFICES ASSUME stack = <<>> PROVE FALSE
    OBVIOUS
  <2>1. c.version \in {0, tag["lt"]}
    BY <1>1, <1>3, AnyCall DEF OutsideCall
  <2> QED
    BY <1>3, <2>1 DEF Exists
<1>5. Top.r = "lt" /\ TemplateCall(c, TRUE)
  BY <1>1, <1>3, <1>4, TemplateTop DEF CallsFit
<1>6. stack[1].r = "cluster" /\ Len(stack) = 4 /\ stack[3].r = "asg" /\ Top = stack[4]
  BY <1>4, <1>5, Places, StackFacts DEF IInv
<1>7. Top.step = "work" /\ outcome = "running" /\ cmd \in {"import", "update", "dryUpdate"}
  <2>1. todo # <<>>
    BY <1>1 DEF IInv, BInv, Types
  <2> QED
    BY <1>4, <2>1 DEF IInv, BInv, Control
<1>8. cmd = "import"
  <2> SUFFICES ASSUME cmd # "import" PROVE FALSE
    OBVIOUS
  <2>1. Exists("asg")
    BY <1>4, <1>6, <1>7 DEF GroupThere, OnCluster
  <2>2. Exists("asg")'
    BY <1>2, <1>7, <2>1, TagStays
  <2> QED
    BY <2>2
<1>9. Past
  BY <1>5, <1>6, <1>7 DEF Past
<1> HIDE DEF c
<1>10. tag'["lt"] = target["lt"] /\ Single \in parts'
  BY <1>1, <1>2, <1>3, <1>5 DEF TemplateCall
<1> QED
  BY <1>1, <1>7, <1>8, <1>9, <1>10 DEF Midway, Outdated, Past, Single

LEMMA AloneWork ==
    ASSUME IInv, CallsFit, GroupThere, TemplateGone, Alone, [Next]_vars, Work
    PROVE  Alone'
<1> SUFFICES ASSUME Exists("lt")', ~Exists("asg")', "import" \notin cut' PROVE Dead' \/ Midway'
  BY DEF Alone
<1>1. "import" \notin cut
  BY CutGrows
<1>2. CASE Exists("lt") /\ ~Exists("asg")
  <2>1. Dead \/ Midway
    BY <1>1, <1>2 DEF Alone
  <2> QED
    BY <2>1, DeadKept, MidwayWork
<1>3. CASE ~Exists("lt")
  BY <1>3, TemplateMade
<1>4. CASE Exists("lt") /\ Exists("asg")
  <2>1. "lt" \in Resource /\ "asg" \in Resource /\ "asg" # "gateway"
    BY Kinds DEF Others
  <2>2. cmd = "destroy" /\ outcome = "running"
    <3>1. cmd = "destroy"
      BY <1>4, <2>1, TagStays
    <3>2. todo # <<>>
      BY DEF Work
    <3> QED
      BY <3>1, <3>2 DEF IInv, BInv, Control
  <2>3. /\ 1 \in 1 .. Len(todo)
        /\ \A r \in Resource : tag'[r] = IF r = todo[1].r THEN todo[1].version ELSE tag[r]
    BY WorkFacts DEF IInv
  <2>4. todo[1].r = "asg"
    BY <1>4, <2>1, <2>3 DEF Exists
  <2>5. ~Exists("lt")
    BY <2>2, <2>3, <2>4 DEF TemplateGone, Destroying
  <2> QED
    BY <1>4, <2>5
<1> QED
  BY <1>2, <1>3, <1>4

(* Import goes on from the template to the group. *)
LEMMA MidwayGoesOn ==
    ASSUME IInv, IInv', Midway, [Next]_vars, ~Work, ~Exists("asg")', "import" \notin cut'
    PROVE  Midway' \/ Dead'
<1>1. cmd = "import" /\ outcome = "running" /\ ~Outdated("lt") /\ Single \in parts /\ Past /\ stack # <<>>
  BY DEF Midway, Past
<1>2. tag' = tag
  BY OnlyWorkTags
<1>3. ~(ImportCluster \/ UpdateCluster \/ Destroy \/ Upgrade)
  BY <1>1 DEF ImportCluster, UpdateCluster, Destroy, Upgrade, Begins, Refused, Ready
<1>4. ~(Ensure \/ Proceed \/ CleanerStuck \/ Finish)
  BY <1>1 DEF Ensure, Proceed, CleanerStuck, Finish, Between
<1>5. ~Abort
  BY <1>1 DEF Abort
<1>6. ~WorkStops
  <2> SUFFICES ASSUME WorkStops PROVE FALSE
    OBVIOUS
  <2>1. todo # <<>> /\ Head(todo) = Stop /\ todo \in Seq(CallSet)
    BY DEF WorkStops, IInv, BInv, Types
  <2>2. 1 \in 1 .. Len(todo) /\ todo[1] = Stop
    BY <2>1, TodoTail
  <2>3. EnsureCall(Top.r, Stop)
    BY <1>1, <2>2, AnyCall
  <2>4. Top.r \in {"alb", "table"}
    BY <2>3, StopIsCall DEF EnsureCall
  <2>5. Top.r \in {"asg", "lt", "rule", "sm"} \union Lambda \union Role
    BY <1>1, Places
  <2> QED
    BY <2>4, <2>5, Kinds, KindsApart DEF Others
<1>7. CASE FetchStuck
  <2>1. Top.step = "subresources" /\ todo' = <<>> /\ parts' = parts
    BY <1>7 DEF FetchStuck, At, Ends, awsVars
  <2>2. Top.r # "lt"
    BY <1>1, <2>1, Places
  <2>3. NoTarget
    BY <1>1, <1>7, <2>2, StuckWhere
  <2>4. NoTarget'
    BY <1>2, <2>1, <2>3 DEF NoTarget, Exists, Has
  <2> QED
    BY <2>1, <2>4 DEF Dead, OffRule
<1>8. CASE Descend \/ Fetch \/ Worked \/ Return
  <2>1. UNCHANGED <<cmd, outcome, target, parts>>
    BY <1>8 DEF Descend, Fetch, Worked, Return, awsVars
  <2>2. CASE Past'
    BY <1>1, <1>2, <2>1, <2>2 DEF Midway, Outdated, Single
  <2>3. CASE ~Past'
    <3>1. Return /\ Len(stack) = 3
      BY <1>1, <1>8, <2>3, PastMoves
    <3>2. Top = stack[3] /\ Top.r = "asg" /\ P!At("return")
      BY <1>1, <3>1, StackFacts DEF IInv, Past, Return, At
    <3>3. ~dry
      BY <1>1 DEF IInv, BInv, Control
    <3>4. P!AtTarget("asg")
      BY <1>1, <3>2, <3>3, StackFacts DEF IInv, P!IInv, P!TagsRight, P!ReturnDeployed
    <3>5. Types /\ "asg" \in (Resource \ Grouping) \ {"alb"}
      BY Kinds, KindsApart DEF IInv, BInv, Others, Grouping
    <3>6. tag["asg"] = target["asg"] /\ target["asg"] # 0
      BY <3>4, <3>5, AtTargetIs DEF Types
    <3> QED
      BY <1>2, <3>6 DEF Exists
  <2> QED
    BY <2>2, <2>3
<1>9. CASE WorkQuietly \/ UNCHANGED vars
  <2>1. UNCHANGED <<cmd, outcome, target, parts, stack>>
    BY <1>9, QuietFacts DEF IInv, vars, awsVars, ensureVars
  <2> QED
    BY <1>1, <1>2, <2>1 DEF Midway, Outdated, Single, Past
<1> QED
  BY <1>3, <1>4, <1>5, <1>6, <1>7, <1>8, <1>9 DEF Next

LEMMA AloneNext ==
    ASSUME IInv, CallsFit, GroupThere, TemplateGone, Alone, [Next]_vars
    PROVE  Alone'
<1>1. CASE Work
  BY <1>1, AloneWork
<1>2. CASE ~Work
  <2> SUFFICES ASSUME Exists("lt")', ~Exists("asg")', "import" \notin cut' PROVE Dead' \/ Midway'
    BY DEF Alone
  <2>1. tag' = tag /\ "import" \notin cut
    BY <1>2, OnlyWorkTags, CutGrows
  <2>2. Dead \/ Midway
    BY <2>1 DEF Alone, Exists
  <2>3. IInv'
    BY NextStep, TreeStep DEF IInv
  <2> QED
    BY <1>2, <2>2, <2>3, DeadKept, MidwayGoesOn
<1> QED
  BY <1>1, <1>2

(***************************************************************************)
(* A group on version 1 uses the template as it is now while the template  *)
(* has one version; once it has a second, a release is about to change     *)
(* the group as well.                                                      *)
(***************************************************************************)
TemplateOnly == "lt" \in Upgraded /\ "asg" \notin Upgraded
OnFirst == Exists("asg") /\ GroupLatest \notin parts
Fits ==
    OnFirst =>
        \/ ~Exists("lt") \/ Single \in parts \/ "import" \in cut
        \/ TemplateOnly
        \/ tag["asg"] = 1 /\ target["asg"] = 2
Newer == OnFirst /\ tag["asg"] = 2 => tag["lt"] # 1 \/ "lt" \notin Upgraded

LEMMA OnlyWorkMoves ==
    ASSUME IInv, [Next]_vars, ~Work
    PROVE  /\ Single \in parts' <=> Single \in parts
           /\ GroupLatest \in parts' <=> GroupLatest \in parts
<1>1. CASE NothingLeft
  BY <1>1 DEF NothingLeft, Single, GroupLatest
<1>2. CASE WorkQuietly \/ Proceed \/ Decided \/ UNCHANGED vars
  <2>1. parts' = parts
    BY <1>2, QuietFacts, ProceedFacts, DecidedFacts DEF IInv, vars, awsVars
  <2> QED
    BY <2>1
<1> QED
  BY <1>1, <1>2, StepKinds

LEMMA VersionsOf ==
    ASSUME IInv, Released, NEW r \in Resource
    PROVE  /\ tag[r] \in {0, 1, 2} /\ target[r] \in {1, 2}
           /\ tag[r] = 2 => target = NewTarget
           /\ target[r] = 2 => target = NewTarget
           /\ target = NewTarget => target[r] = IF r \in Upgraded THEN 2 ELSE 1
<1>1. tag[r] \in {0, 1, 2} /\ target[r] \in {1, 2} /\ tag[r] <= target[r]
  BY DEF IInv, BInv, Types, Released
<1>2. target[r] = 2 => target = NewTarget
  BY DEF Released
<1>3. tag[r] = 2 => target[r] = 2
  BY <1>1
<1> QED
  BY <1>1, <1>2, <1>3 DEF NewTarget

(* The call on the template, in EnsureResource. *)
LEMMA FitsTemplate ==
    ASSUME IInv, Released, CallsFit, Fits, Newer, Work, stack # <<>>, todo[1].r = "lt", OnFirst',
           cut' = cut
    PROVE  Fits' /\ Newer'
<1> DEFINE c == todo[1]
<1>1. "lt" \in Resource /\ "asg" \in Resource
  BY Kinds DEF Others
<1>2. /\ 1 \in 1 .. Len(todo) /\ target' = target
      /\ tag'["lt"] = c.version /\ tag'["asg"] = tag["asg"]
      /\ parts' = (parts \ c.drop) \union c.put
  BY <1>1, WorkFacts DEF IInv
<1>3. TemplateCall(c, TRUE) /\ GroupLatest \notin c.drop
  <2>1. Top.r = "lt"
    BY <1>2, TemplateTop
  <2>2. TemplateCall(c, 1 = 1) /\ (GroupLatest \in c.drop => c.r = "asg")
    BY <1>2, <2>1 DEF CallsFit
  <2> QED
    BY <2>2
<1>4. OnFirst
  BY <1>2, <1>3 DEF OnFirst, Exists
<1>5. tag'["lt"] = target["lt"]
  BY <1>2, <1>3 DEF TemplateCall
<1>6. Newer'
  <2> SUFFICES ASSUME tag'["asg"] = 2, "lt" \in Upgraded PROVE tag'["lt"] # 1
    BY DEF Newer
  <2> QED
    BY <1>1, <1>2, <1>5, VersionsOf
<1>7. Fits'
  <2>1. CASE ~Exists("lt")
    BY <1>2, <1>3, <2>1 DEF TemplateCall, Fits
  <2>2. CASE Single \in parts /\ Single \notin c.drop
    BY <1>2, <2>2 DEF Fits
  <2>3. CASE Single \in c.drop
    <3>1. tag["lt"] = 1 /\ target["lt"] = 2
      BY <1>3, <2>3 DEF TemplateCall
    <3>2. "lt" \in Upgraded /\ target = NewTarget
      BY <1>1, <3>1, VersionsOf
    <3>3. tag["asg"] \in {1, 2} /\ ("asg" \in Upgraded => target["asg"] = 2)
      BY <1>1, <1>4, <3>2, VersionsOf DEF OnFirst, Exists
    <3>4. tag["asg"] # 2
      BY <1>4, <3>1, <3>2 DEF Newer
    <3> QED
      BY <1>2, <3>2, <3>3, <3>4 DEF Fits, TemplateOnly
  <2>4. CASE Exists("lt") /\ Single \notin parts
    <3>1. "import" \in cut \/ TemplateOnly \/ (tag["asg"] = 1 /\ target["asg"] = 2)
      BY <1>4, <2>4 DEF Fits
    <3> QED
      BY <1>2, <3>1 DEF Fits, TemplateOnly
  <2> QED
    BY <2>1, <2>2, <2>3, <2>4
<1> QED
  BY <1>6, <1>7

(* The call on the group. *)
LEMMA FitsGroup ==
    ASSUME IInv, Released, CallsFit, Fits, Newer, Work, todo[1].r = "asg", OnFirst', cut' = cut
    PROVE  Fits' /\ Newer'
<1> DEFINE c == todo[1]
<1>1. "lt" \in Resource /\ "asg" \in Resource
  BY Kinds DEF Others
<1>2. /\ 1 \in 1 .. Len(todo) /\ target' = target
      /\ tag'["lt"] = tag["lt"] /\ tag'["asg"] = c.version
      /\ parts' = (parts \ c.drop) \union c.put
      /\ stack = <<>> => OutsideCall(c)
      /\ stack # <<>> => EnsureCall(Top.r, c)
  BY <1>1, WorkFacts DEF IInv
<1>3. c.version # 0
  BY <1>2 DEF OnFirst, Exists
<1>4. GroupLatest \notin c.drop /\ Single \notin c.drop
  BY <1>2, <1>3 DEF CallsFit
<1>5. CASE c.version = tag["asg"]
  <2>1. OnFirst
    BY <1>2, <1>3, <1>4, <1>5 DEF OnFirst, Exists
  <2> QED
    BY <1>2, <1>4, <1>5, <2>1, VersionsOf DEF Fits, Newer, TemplateOnly, Exists
<1>6. CASE c.version # tag["asg"]
  <2>1. stack # <<>>
    BY <1>2, <1>3, <1>6 DEF OutsideCall
  <2>2. Top.r = "asg"
    BY <1>2, <2>1, TemplateTop
  <2>3. c.version = target["asg"]
    BY <1>2, <1>6, <2>1, <2>2, Kinds, KindsApart DEF EnsureCall, Grouping, Others
  <2>4. GroupCall(todo, 1)
    BY <1>2, <2>1, <2>2 DEF CallsFit
  <2>5. ~Putting(todo, 1, GroupLatest)
    BY DEF Putting
  <2>6. ~Exists("asg")
    BY <1>2, <1>4, <1>6, <2>3, <2>4, <2>5 DEF GroupCall, OnFirst
  <2>7. tag["lt"] = target["lt"] /\ (Single \in parts \/ "import" \in cut)
    BY <1>6, <2>3, <2>4, <2>6 DEF GroupCall, Outdated
  <2>8. Fits'
    BY <1>2, <1>4, <2>7 DEF Fits
  <2>9. Newer'
    <3> SUFFICES ASSUME tag'["asg"] = 2, "lt" \in Upgraded PROVE tag'["lt"] # 1
      BY DEF Newer
    <3> QED
      BY <1>1, <1>2, <2>3, <2>7, VersionsOf
  <2> QED
    BY <2>8, <2>9
<1> QED
  BY <1>5, <1>6

LEMMA FitsNext ==
    ASSUME IInv, Released, CallsFit, Fits, Newer, [Next]_vars
    PROVE  Fits' /\ Newer'
<1> USE DEF Exists
<1>1. "lt" \in Resource /\ "asg" \in Resource
  BY Kinds DEF Others
<1>2. CASE ~OnFirst'
  BY <1>2 DEF Fits, Newer
<1>3. CASE OnFirst' /\ ~Work
  <2>1. tag' = tag /\ (Single \in parts' <=> Single \in parts) /\ (GroupLatest \in parts' <=> GroupLatest \in parts)
        /\ cut \subseteq cut'
    BY <1>3, OnlyWorkTags, OnlyWorkMoves, CutGrows
  <2>2. OnFirst
    BY <1>3, <2>1 DEF OnFirst
  <2>3. Newer'
    BY <2>1, <2>2 DEF Newer
  <2>4. CASE target' = target
    BY <2>1, <2>2, <2>3, <2>4 DEF Fits, TemplateOnly
  <2>5. CASE Upgrade
    <3>1. target["asg"] = 1
      BY <1>1, <2>5 DEF Upgrade
    <3> QED
      BY <2>1, <2>2, <2>3, <3>1 DEF Fits, TemplateOnly
  <2> QED
    BY <2>4, <2>5, TargetSame
<1>4. CASE OnFirst' /\ Work
  <2> DEFINE c == todo[1]
  <2>1. /\ 1 \in 1 .. Len(todo) /\ target' = target
        /\ \A r \in Resource : tag'[r] = IF r = c.r THEN c.version ELSE tag[r]
        /\ parts' = (parts \ c.drop) \union c.put
        /\ stack = <<>> => OutsideCall(c)
    BY <1>4, WorkFacts DEF IInv
  <2>2. cut' = cut
    BY <1>4 DEF Work, history
  <2>3. CASE c.r = "asg"
    BY <1>4, <2>2, <2>3, FitsGroup
  <2>4. CASE c.r = "lt" /\ stack # <<>>
    BY <1>4, <2>2, <2>4, FitsTemplate
  <2>5. CASE c.r # "asg" /\ (c.r = "lt" => stack = <<>>)
    <3>1. GroupLatest \notin c.drop
      BY <2>1, <2>5 DEF CallsFit
    <3>2. tag'["asg"] = tag["asg"] /\ OnFirst
      BY <1>1, <1>4, <2>1, <2>5, <3>1 DEF OnFirst
    <3>3. tag'["lt"] \in {0, tag["lt"]} /\ (Single \in c.drop => tag'["lt"] = 0)
      BY <1>1, <2>1, <2>5 DEF CallsFit, OutsideCall
    <3> QED
      BY <2>1, <2>2, <3>2, <3>3 DEF Fits, Newer, TemplateOnly
  <2> QED
    BY <2>3, <2>4, <2>5
<1> QED
  BY <1>2, <1>3, <1>4

-----------------------------------------------------------------------------
(***************************************************************************)
(* Every function makes its calls as CallsFit has them.                    *)
(***************************************************************************)
LEMMA TemplateFits ==
    ASSUME Types, Released, IInv, NEW s \in LaunchTemplateWorks
    PROVE  \A i \in 1 .. Len(s) : s[i].r = "lt" /\ TemplateCall(s[i], i = 1)
<1>1. target["lt"] # 0 /\ "lt" \in Resource
  BY Kinds DEF Types, Others
<1>2. CASE ~Exists("lt")
  <2>1. PICK k \in ApiKeys : s = CreateLaunchTemplate(k)
    BY <1>2 DEF LaunchTemplateWorks
  <2> DEFINE c == Call("lt", target["lt"], Of("lt", {"single"}) \union Joins(k, {"first", "latest"}), {})
  <2>2. s = <<c>>
    BY <2>1 DEF CreateLaunchTemplate
  <2>3. /\ c.r = "lt" /\ c.version = target["lt"] /\ c.drop = {}
        /\ c.put = Of("lt", {"single"}) \union Joins(k, {"first", "latest"})
    BY DEF Call
  <2>4. Single \in Of("lt", {"single"})
    BY OfFacts DEF Single
  <2> HIDE DEF c
  <2>5. c.r = "lt" /\ TemplateCall(c, TRUE)
    BY <2>3, <2>4 DEF TemplateCall
  <2>6. \A i \in 1 .. Len(s) : s[i] = c /\ (i = 1) = TRUE
    BY <2>2
  <2> QED
    BY <2>5, <2>6
<1>3. CASE Exists("lt")
  <2>1. PICK k \in ApiKeys : s = CreateNewLaunchTemplateVersion(k) \o ModifyLaunchTemplateDefaultVersion
    BY <1>3 DEF LaunchTemplateWorks
  <2> DEFINE c == Call("lt", target["lt"], Joins(k, {"latest"}), Of("lt", {"single", "latest"}))
             d == Call("lt", target["lt"], {}, {})
  <2>2. /\ c.r = "lt" /\ c.version = target["lt"]
        /\ d.r = "lt" /\ d.version = target["lt"] /\ d.drop = {}
    BY DEF Call
  <2>3. s = <<c>> \o <<d>>
    BY <2>1 DEF CreateNewLaunchTemplateVersion, ModifyLaunchTemplateDefaultVersion
  <2>4. c \in CallSet /\ d \in CallSet
    <3>1. Names("lt") = {"single", "first", "latest"} /\ target["lt"] \in 0 .. 2
      BY <1>1, NamesOf DEF Types
    <3>2. Joins(k, {"latest"}) \in SUBSET Part /\ Of("lt", {"single", "latest"}) \in SUBSET Part /\ {} \in SUBSET Part
      BY <1>1, <3>1, OfIsPart DEF Joins
    <3> QED
      BY <1>1, <3>1, <3>2, CallIsCall
  <2>5. tag["lt"] = 1 /\ target["lt"] = 2
    <3>1. Outdated("lt")
      BY <1>3 DEF LaunchTemplateWorks
    <3>2. tag["lt"] \in {0, 1, 2} /\ target["lt"] \in {1, 2} /\ tag["lt"] <= target["lt"]
      BY <1>1, VersionsOf DEF Released
    <3> QED
      BY <1>3, <3>1, <3>2 DEF Outdated, Exists
  <2> HIDE DEF c, d
  <2>6. TemplateCall(c, TRUE) /\ TemplateCall(d, FALSE)
    BY <1>3, <2>2, <2>5 DEF TemplateCall
  <2>7. s = <<c, d>>
    <3>1. <<c>> \o <<d>> = <<c, d>>
      BY <2>4, Tuples
    <3> QED
      BY <2>3, <3>1
  <2>8. Len(s) = 2 /\ s[1] = c /\ s[2] = d
    BY <2>7
  <2>9. s[1].r = "lt" /\ s[2].r = "lt" /\ TemplateCall(s[1], 1 = 1) /\ TemplateCall(s[2], 2 = 1)
    BY <2>2, <2>6, <2>8
  <2>10. 1 .. Len(s) = {1, 2}
    BY <2>8
  <2> QED
    BY <2>9, <2>10
<1> QED
  BY <1>2, <1>3

(* The template is at this version, and of one piece, when the group is    *)
(* made: the rule in between let nothing pass but an import on its way.    *)
LEMMA MadeOnTemplate ==
    ASSUME IInv, LiveInv, Alone, stack # <<>>, Top.r = "asg", Top.step = "subresources",
           Top.done = Len(Sub[Top.r]), ~dry, ~Exists("asg")
    PROVE  ~Outdated("lt") /\ (Single \in parts \/ "import" \in cut)
<1>1. {"lt", "rule"} \subseteq visited
  <2>1. P!SubsOf("asg") = {Sub["asg"][i] : i \in DOMAIN Sub["asg"]}
    BY DEF P!SubsOf, Tree!SubsOf
  <2>2. Sub["asg"] = <<"lt", "rule">>
    BY Kinds, KindsApart DEF Sub, Others, Grouping
  <2>3. 1 \in DOMAIN <<"lt", "rule">> /\ 2 \in DOMAIN <<"lt", "rule">>
    OBVIOUS
  <2>4. {"lt", "rule"} \subseteq P!SubsOf("asg")
    BY <2>1, <2>2, <2>3
  <2> QED
    BY <2>4, SubsAreThere
<1>2. tag["lt"] = target["lt"] /\ Exists("lt")
  <2>1. "lt" \notin Grouping /\ Types /\ P!IInv
    BY DEF Grouping, IInv, BInv
  <2> QED
    BY <1>1, <2>1, VisitedExists
<1>3. ~NoTarget
  <2>1. Live("rule")
    BY <1>1 DEF LiveInv, Visits, Users, RoleUser
  <2>2. \E p \in {"target", "again"} : <<"rule", p>> \in parts
    BY <2>1, OfFacts DEF Live, Marks
  <2> QED
    BY <2>2 DEF NoTarget, Has, RuleTargets
<1>4. "import" \in cut \/ Midway
  BY <1>2, <1>3 DEF Alone, Dead
<1> QED
  BY <1>2, <1>4 DEF Midway, Outdated

LEMMA GroupFits ==
    ASSUME IInv, LiveInv, Alone, Decided, Top.r = "asg"
    PROVE  \A i \in 1 .. Len(todo') : GroupCall(todo', i)
<1> DEFINE t == todo'
<1>1. /\ t \in Works(Top.r) /\ ~dry /\ Types /\ "asg" \in Resource
      /\ stack # <<>> /\ Top.step = "subresources" /\ Top.done = Len(Sub[Top.r])
  BY Kinds DEF Decided, Grouping, IInv, BInv, Others
<1> HIDE DEF t
<1>2. t \in AutoScalingGroupWorks
  BY <1>1, Kinds, KindsApart DEF Works, Others
<1>3. ASSUME ~Exists("asg"), NEW i \in 1 .. Len(t) PROVE GroupCall(t, i)
  BY <1>1, <1>3, MadeOnTemplate DEF GroupCall
<1>4. ASSUME Exists("asg"), NEW i \in 1 .. Len(t) PROVE GroupCall(t, i)
  <2> DEFINE c == Puts("asg", {"latest"})  d == Tags("asg")
  <2>1. t = <<c, d>>
    BY <1>2, <1>4 DEF AutoScalingGroupWorks, UpdateAutoScalingGroup
  <2>2. c.version = tag["asg"] /\ c.put = Of("asg", {"latest"})
    BY DEF Puts, Call
  <2>3. GroupLatest \in c.put
    BY <2>2, OfFacts DEF GroupLatest
  <2> HIDE DEF c, d
  <2>4. Len(t) = 2 /\ t[1] = c
    BY <2>1
  <2>5. i = 1 \/ i = 2
    BY <2>4
  <2>6. CASE i = 1
    BY <2>2, <2>4, <2>6 DEF GroupCall
  <2>7. CASE i = 2
    <3>1. 1 \in 1 .. Len(t) /\ 1 < i
      BY <2>4, <2>7
    <3>2. Putting(t, i, GroupLatest)
      BY <2>3, <2>4, <3>1 DEF Putting
    <3> QED
      BY <1>4, <3>2 DEF GroupCall
  <2> QED
    BY <2>5, <2>6, <2>7
<1>5. \A i \in 1 .. Len(t) : GroupCall(t, i)
  BY <1>3, <1>4
<1> QED
  BY <1>5 DEF t

(* Replacing a gateway leaves the template of one piece. *)
LEMMA GatewayFits ==
    ASSUME Types
    PROVE  /\ \A i \in 1 .. Len(DeleteRestApiGateway) : Single \notin DeleteRestApiGateway[i].drop
           /\ \A s \in GatewayWorks : \A i \in 1 .. Len(s) : Single \notin s[i].drop
<1> DEFINE s == DeleteRestApiGateway  m == CreateJoinApi
<1>1. /\ s \in Seq(CallSet) /\ Len(s) = 3
      /\ s[1].drop = Of("gateway", {"deployment", "plan", "key", "planKey"})
                     \union Of("join", {"permission"}) \union Of("lt", {"first", "latest"})
      /\ s[2].drop = Of("gateway", {"oldPlan"}) /\ s[3].drop = Of("gateway", {"oldKey"})
  BY RemovesGateway
<1>2. m \in Seq(CallSet) /\ \A i \in 1 .. Len(m) : m[i].drop = {}
  BY MakesGateway DEF GatewayMade, JoinMade
<1>3. GatewayWorks \subseteq {m, s \o m}
  BY DEF GatewayWorks, ReCreateGateway
<1> HIDE DEF s, m
<1>4. \A i \in 1 .. Len(s) : Single \notin s[i].drop
  <2>1. Single \notin s[1].drop /\ Single \notin s[2].drop /\ Single \notin s[3].drop
    BY <1>1, OfFacts DEF Single
  <2>2. \A i \in 1 .. Len(s) : i = 1 \/ i = 2 \/ i = 3
    BY <1>1
  <2> QED
    BY <2>1, <2>2
<1>5. \A i \in 1 .. Len(m) : Single \notin m[i].drop
  BY <1>2
<1>6. ASSUME NEW i \in 1 .. Len(s \o m) PROVE Single \notin (s \o m)[i].drop
  <2>1. \/ i \in 1 .. Len(s) /\ (s \o m)[i] = s[i]
        \/ i > Len(s) /\ i - Len(s) \in 1 .. Len(m) /\ (s \o m)[i] = m[i - Len(s)]
    <3>1. s \in Seq(CallSet) /\ m \in Seq(CallSet)
      BY <1>1, <1>2
    <3>2. Splits(s, m, s \o m)
      BY <3>1, ConcatSplits
    <3> QED
      BY <3>2 DEF Splits
  <2> QED
    BY <1>4, <1>5, <2>1
<1> QED
  BY <1>3, <1>4, <1>5, <1>6 DEF s, m

LEMMA CallsFitDecided == ASSUME IInv, LiveInv, Released, Alone, [Next]_vars, Decided PROVE CallsFit'
<1> DEFINE t == todo'
<1>1. /\ t \in Works(Top.r) /\ Fine(Top.r, t) /\ Types /\ Top.r \in Resource
      /\ Top'.r = Top.r /\ stack' # <<>> /\ UNCHANGED <<tag, parts, target>>
  BY DecidedFacts DEF IInv, BInv
<1>2. cut' = cut
  <2>1. ~Abort
    BY DEF Abort, Ends, Decided, Decide
  <2> QED
    BY <2>1 DEF Next, vars, history, ImportCluster, UpdateCluster, Destroy, Begins, Refused, Upgrade, Ensure, Proceed,
         CleanerStuck, Finish, Descend, Fetch, FetchStuck, Work, WorkQuietly, WorkStops, Worked, Return
<1>3. Top.r = "asg" => \A i \in 1 .. Len(t) : GroupCall(t, i)
  BY GroupFits
<1> HIDE DEF t
<1>4. \A i \in 1 .. Len(t) : EnsureCall(Top.r, t[i])
  BY <1>1 DEF Fine, InEnsure
<1>5. "lt" \notin Role \union Lambda /\ "gateway" \notin Role \union Lambda /\ "asg" \notin Role
  BY Kinds, KindsApart DEF Others
<1>6. ASSUME NEW i \in 1 .. Len(t)
      PROVE  GroupLatest \notin t[i].drop
  BY <1>4, <1>5, EnsureDrops DEF GroupLatest, Permission
<1>7. Top.r = "lt" => \A i \in 1 .. Len(t) : t[i].r = "lt" /\ TemplateCall(t[i], i = 1)
  BY <1>1, <1>5, TemplateFits DEF Works
<1>8. ASSUME NEW i \in 1 .. Len(t), Single \in t[i].drop
      PROVE  t[i].r = "lt"
  <2>1. Top.r \in {"lt", "gateway"}
    BY <1>4, <1>8, EnsureDrops DEF Touched, Single
  <2>2. Top.r # "gateway"
    <3>1. Top.r = "gateway" => t \in GatewayWorks
      BY <1>1, <1>5 DEF Works
    <3> QED
      BY <1>1, <1>8, <3>1, GatewayFits
  <2> QED
    BY <1>7, <2>1, <2>2
<1>9. ASSUME NEW i \in 1 .. Len(t), Top.r = "asg" PROVE GroupCall(todo, i)'
  <2>1. GroupCall(t, i)
    BY <1>3, <1>9
  <2>2. Putting(t, i, GroupLatest) => Putting(todo, i, GroupLatest)'
    BY DEF Putting, GroupLatest, t
  <2>3. t[i] = todo'[i]
    BY DEF t
  <2> QED
    BY <1>1, <1>2, <2>1, <2>2, <2>3 DEF GroupCall, Exists, Outdated, GroupLatest, Single
<1>10. ASSUME NEW i \in 1 .. Len(t), Top.r = "lt" PROVE TemplateCall(todo[i], i = 1)'
  <2>1. TemplateCall(t[i], i = 1)
    BY <1>7, <1>10
  <2>2. t[i] = todo'[i]
    BY DEF t
  <2> QED
    BY <1>1, <2>1, <2>2 DEF TemplateCall, Exists, Single
<1> SUFFICES ASSUME NEW i \in 1 .. Len(t)
             PROVE  /\ GroupLatest \in todo'[i].drop => todo'[i].r = "asg" /\ todo'[i].version = 0
                    /\ Single \in todo'[i].drop => todo'[i].r = "lt"
                    /\ Top.r = "lt" => TemplateCall(todo[i], i = 1)'
                    /\ Top.r = "asg" => GroupCall(todo, i)'
  BY <1>1 DEF CallsFit, Single, GroupLatest, t
<1>11. t[i] = todo'[i]
  BY DEF t
<1> QED
  BY <1>6, <1>8, <1>9, <1>10, <1>11

(* The calls that are left, after one of them.                             *)
LEMMA CallsFitWork == ASSUME IInv, CallsFit, [Next]_vars, Work PROVE CallsFit'
<1> DEFINE c == todo[1]  t == todo'
<1>1. /\ todo \in Seq(CallSet) /\ todo # <<>> /\ t = Tail(todo) /\ 1 \in 1 .. Len(todo)
      /\ parts' = (parts \ c.drop) \union c.put /\ UNCHANGED <<cmd, stack, target>>
      /\ \A r \in Resource : tag'[r] = IF r = c.r THEN c.version ELSE tag[r]
      /\ stack # <<>> => EnsureCall(Top.r, c)
  BY WorkFacts DEF IInv
<1>2. cut' = cut
  BY DEF Work, history
<1>3. "lt" \in Resource /\ "asg" \in Resource /\ "asg" # "gateway" /\ "lt" # "gateway"
      /\ "asg" \notin Grouping \union {"alb", "table"}
  BY Kinds, KindsApart DEF Others, Grouping
<1>4. stack # <<>> => cmd # "destroy"
  BY DEF IInv, BInv, Control
<1>5. \A i \in 1 .. Len(t) : i + 1 \in 1 .. Len(todo) /\ t[i] = todo[i + 1] /\ 1 < i + 1 /\ 1 # i + 1
  BY <1>1, TodoTail
<1>6. \A j \in 1 .. Len(todo) : j = 1 \/ (j - 1 \in 1 .. Len(t) /\ t[j - 1] = todo[j] /\ 1 < j)
  BY <1>1, TodoTail
<1>7. /\ GroupLatest \in c.drop => c.r = "asg" /\ c.version = 0
      /\ Single \in c.drop => c.r = "lt"
  BY <1>1 DEF CallsFit
<1>8. Exists("lt") /\ stack # <<>> => Exists("lt")'
  BY <1>3, <1>4, TagStays
<1> HIDE DEF c
<1>9. ASSUME NEW i \in 1 .. Len(t), stack # <<>>, Top.r = "asg" PROVE GroupCall(todo, i)'
  <2> DEFINE k == i + 1
  <2>1. GroupCall(todo, k) /\ k \in 1 .. Len(todo) /\ t[i] = todo[k]
    BY <1>5, <1>9 DEF CallsFit
  <2>2. c.r = "asg" /\ c.version \in {tag["asg"], target["asg"]}
    BY <1>1, <1>3, <1>9, StopIsCall DEF EnsureCall
  <2> SUFFICES ASSUME todo'[i].version = target["asg"], tag'["asg"] # target["asg"]
               PROVE  IF tag'["asg"] # 0 THEN GroupLatest \in parts' \/ Putting(todo, i, GroupLatest)'
                      ELSE tag'["lt"] = target["lt"] /\ (Single \in parts' \/ "import" \in cut)
    BY <1>1, <1>2 DEF GroupCall, Exists, Outdated, GroupLatest, Single
  <2>3. tag'["asg"] = tag["asg"] /\ tag'["lt"] = tag["lt"] /\ tag["asg"] # target["asg"]
    BY <1>1, <1>3, <2>2
  <2>4. todo[k].version = target["asg"]
    BY <2>1
  <2>5. IF Exists("asg") THEN GroupLatest \in parts \/ Putting(todo, k, GroupLatest)
        ELSE ~Outdated("lt") /\ (Single \in parts \/ "import" \in cut)
    BY <2>1, <2>3, <2>4 DEF GroupCall
  <2>6. CASE ~Exists("asg")
    <3>1. Single \notin c.drop
      BY <1>7, <2>2
    <3> QED
      BY <1>1, <2>3, <2>5, <2>6, <3>1 DEF Exists, Outdated
  <2>7. CASE Exists("asg") /\ GroupLatest \in parts
    <3>1. GroupLatest \notin c.drop
      BY <1>7, <1>1, <1>3, <2>2, <2>3, <2>7 DEF Exists
    <3> QED
      BY <1>1, <2>3, <2>7, <3>1 DEF Exists
  <2>8. CASE Exists("asg") /\ Putting(todo, k, GroupLatest)
    <3>1. PICK j \in 1 .. Len(todo) : j < k /\ GroupLatest \in todo[j].put
      BY <2>8 DEF Putting
    <3>2. CASE j = 1
      BY <1>1, <2>3, <2>8, <3>1, <3>2 DEF Exists, c
    <3>3. CASE j # 1
      <4>1. j - 1 \in 1 .. Len(t) /\ t[j - 1] = todo[j]
        BY <1>6, <3>3
      <4>2. j - 1 < i
        BY <3>1
      <4>3. Putting(todo, i, GroupLatest)'
        BY <3>1, <4>1, <4>2 DEF Putting, GroupLatest
      <4> QED
        BY <2>3, <2>8, <4>3 DEF Exists
    <3> QED
      BY <3>2, <3>3
  <2> QED
    BY <2>5, <2>6, <2>7, <2>8
<1>10. ASSUME NEW i \in 1 .. Len(t), stack # <<>>, Top.r = "lt" PROVE TemplateCall(todo[i], i = 1)'
  <2> DEFINE k == i + 1
  <2>1. TemplateCall(todo[k], k = 1) /\ k # 1 /\ t[i] = todo[k]
    BY <1>5, <1>10 DEF CallsFit
  <2> QED
    BY <1>1, <1>8, <1>10, <2>1 DEF TemplateCall, Exists, Single
<1> SUFFICES ASSUME NEW i \in 1 .. Len(t)
             PROVE  /\ GroupLatest \in todo'[i].drop => todo'[i].r = "asg" /\ todo'[i].version = 0
                    /\ Single \in todo'[i].drop => todo'[i].r = "lt" /\ (stack = <<>> => todo'[i].version = 0)
                    /\ stack # <<>> /\ Top.r = "lt" => TemplateCall(todo[i], i = 1)'
                    /\ stack # <<>> /\ Top.r = "asg" => GroupCall(todo, i)'
  BY <1>1 DEF CallsFit, Single, GroupLatest, Top
<1>11. /\ GroupLatest \in t[i].drop => t[i].r = "asg" /\ t[i].version = 0
       /\ Single \in t[i].drop => t[i].r = "lt" /\ (stack = <<>> => t[i].version = 0)
  BY <1>5 DEF CallsFit
<1> QED
  BY <1>9, <1>10, <1>11

LEMMA CallsFitQuiet == ASSUME IInv, CallsFit, [Next]_vars, WorkQuietly PROVE CallsFit'
<1> DEFINE t == todo'
<1>1. /\ todo \in Seq(CallSet) /\ todo # <<>> /\ t = Tail(todo) /\ 1 \in 1 .. Len(todo)
      /\ ErrorIgnored(todo[1]) /\ UNCHANGED <<tag, parts, cmd, stack, target>>
  BY QuietFacts DEF IInv
<1>2. cut' = cut
  BY DEF WorkQuietly, history
<1>3. \A i \in 1 .. Len(t) : i + 1 \in 1 .. Len(todo) /\ t[i] = todo[i + 1] /\ 1 < i + 1 /\ 1 # i + 1
  BY <1>1, TodoTail
<1>4. \A j \in 1 .. Len(todo) : j = 1 \/ (j - 1 \in 1 .. Len(t) /\ t[j - 1] = todo[j] /\ 1 < j)
  BY <1>1, TodoTail
<1>5. GroupLatest \notin todo[1].put
  <2>1. "asg" \notin {"key"} \union Lambda
    BY Kinds, KindsApart DEF Others
  <2> QED
    BY <1>1, <2>1, IgnoredPut DEF GroupLatest
<1>6. ASSUME NEW i \in 1 .. Len(t), stack # <<>>, Top.r = "asg" PROVE GroupCall(todo, i)'
  <2> DEFINE k == i + 1
  <2>1. GroupCall(todo, k) /\ k \in 1 .. Len(todo) /\ t[i] = todo[k]
    BY <1>3, <1>6 DEF CallsFit
  <2>2. ASSUME Putting(todo, k, GroupLatest) PROVE Putting(todo, i, GroupLatest)'
    <3>1. PICK j \in 1 .. Len(todo) : j < k /\ GroupLatest \in todo[j].put
      BY <2>2 DEF Putting
    <3>2. j - 1 \in 1 .. Len(t) /\ t[j - 1] = todo[j]
      BY <1>4, <1>5, <3>1
    <3>3. j - 1 < i
      BY <3>1
    <3> QED
      BY <3>1, <3>2, <3>3 DEF Putting, GroupLatest
  <2> QED
    BY <1>1, <1>2, <2>1, <2>2 DEF GroupCall, Exists, Outdated, GroupLatest, Single
<1>7. ASSUME NEW i \in 1 .. Len(t), stack # <<>>, Top.r = "lt" PROVE TemplateCall(todo[i], i = 1)'
  <2> DEFINE k == i + 1
  <2>1. TemplateCall(todo[k], k = 1) /\ k # 1 /\ t[i] = todo[k]
    BY <1>3, <1>7 DEF CallsFit
  <2> QED
    BY <1>1, <2>1 DEF TemplateCall, Exists, Single
<1> SUFFICES ASSUME NEW i \in 1 .. Len(t)
             PROVE  /\ GroupLatest \in todo'[i].drop => todo'[i].r = "asg" /\ todo'[i].version = 0
                    /\ Single \in todo'[i].drop => todo'[i].r = "lt" /\ (stack = <<>> => todo'[i].version = 0)
                    /\ stack # <<>> /\ Top.r = "lt" => TemplateCall(todo[i], i = 1)'
                    /\ stack # <<>> /\ Top.r = "asg" => GroupCall(todo, i)'
  BY <1>1 DEF CallsFit, Single, GroupLatest, Top
<1>8. /\ GroupLatest \in t[i].drop => t[i].r = "asg" /\ t[i].version = 0
      /\ Single \in t[i].drop => t[i].r = "lt" /\ (stack = <<>> => t[i].version = 0)
  BY <1>3 DEF CallsFit
<1> QED
  BY <1>6, <1>7, <1>8

(* What destroy takes from the template and the group.                     *)
LEMMA CallsFitProceed == ASSUME IInv, Proceed PROVE CallsFit'
<1> DEFINE t == todo'  s == Head(plan)
<1>1. /\ stack = <<>> /\ UNCHANGED <<stack, tag, parts, cmd>> /\ t \in Seq(CallSet) /\ OfCommand(t)
      /\ outcome = "running" /\ plan # <<>>
      /\ cmd # "destroy" => \A i \in 1 .. Len(t) : t[i].drop = {}
      /\ cmd = "destroy" => Keeps(s, t)
  BY ProceedFacts
<1>2. \E found : t \in Steps(s, found)
  BY DEF Proceed
<1>3. Types /\ (cmd = "destroy" => s \in Clean)
  BY <1>1, HeadKinds DEF IInv, BInv
<1> HIDE DEF t, s
<1>4. \A i \in 1 .. Len(t) : \A x \in t[i].drop : x[1] \in Near(t[i].r)
  BY <1>1 DEF OfCommand, OutsideCall
<1>5. "asg" \notin RoleUser \union {"join", "lt"} /\ "lt" \notin RoleUser \union {"join"} /\ "gateway" \notin RoleUser
  BY Kinds, KindsApart DEF Others
<1>6. \A step \in Clean : \A r \in {"asg", "lt", "gateway"} : r \in About(step) => step = r
  BY Kinds, KindsApart DEF Clean, About, Cleaned, Others
<1>7. ASSUME NEW i \in 1 .. Len(t), GroupLatest \in t[i].drop PROVE t[i].r = "asg" /\ t[i].version = 0
  <2>1. cmd = "destroy"
    BY <1>1, <1>7
  <2>2. t[i].r = "asg"
    BY <1>4, <1>5, <1>7 DEF Near, GroupLatest
  <2>3. s = "asg"
    BY <1>1, <1>3, <1>6, <2>1, <2>2 DEF Keeps
  <2>4. PICK keep \in BOOLEAN : t = When(Exists("asg"), DeleteAutoScalingGroup(keep))
    BY <1>2, <2>3 DEF Steps
  <2>5. t = DeleteAutoScalingGroup(keep)
    BY <1>7, <2>4 DEF When
  <2> DEFINE c == Drops("asg", {"instances"})  d == Removes("asg")
  <2>6. t = IF keep THEN <<c, d>> ELSE <<d>>
    BY <1>3, <2>5, GroupDeleted
  <2>7. c.drop = Of("asg", {"instances"}) /\ d.version = 0
    BY DEF Drops, Removes, Call
  <2>8. GroupLatest \notin c.drop
    BY <2>7, OfFacts DEF GroupLatest
  <2> HIDE DEF c, d
  <2>9. t[i] = c \/ t[i] = d
    BY <2>6
  <2> QED
    BY <1>7, <2>2, <2>7, <2>8, <2>9
<1>8. ASSUME NEW i \in 1 .. Len(t), Single \in t[i].drop PROVE t[i].r = "lt" /\ t[i].version = 0
  <2>1. cmd = "destroy"
    BY <1>1, <1>8
  <2>2. t[i].r \in {"lt", "gateway"}
    BY <1>4, <1>5, <1>8 DEF Near, Single
  <2>3. s = t[i].r
    BY <1>1, <1>3, <1>6, <2>1, <2>2 DEF Keeps
  <2>4. CASE t[i].r = "lt"
    <3>1. t = When(Exists("lt"), DeleteLaunchTemplate)
      BY <1>2, <2>3, <2>4 DEF Steps
    <3> DEFINE d == Removes("lt")
    <3>2. t = <<d>>
      BY <1>8, <3>1 DEF When, DeleteLaunchTemplate
    <3>3. d.version = 0
      BY DEF Removes, Call
    <3> HIDE DEF d
    <3>4. t[i] = d
      BY <3>2
    <3> QED
      BY <2>4, <3>3, <3>4
  <2>5. CASE t[i].r = "gateway"
    <3>1. t = When(Exists("gateway"), DeleteRestApiGateway)
      BY <1>2, <2>3, <2>5 DEF Steps
    <3>2. t = DeleteRestApiGateway
      BY <1>8, <3>1 DEF When
    <3> QED
      BY <1>3, <1>8, <3>2, GatewayFits
  <2> QED
    BY <2>2, <2>4, <2>5
<1> QED
  BY <1>1, <1>7, <1>8 DEF CallsFit, Single, GroupLatest, t

LEMMA CallsFitNext ==
    ASSUME IInv, LiveInv, Released, CallsFit, Alone, [Next]_vars
    PROVE  CallsFit'
<1>1. CASE NothingLeft
  BY <1>1 DEF NothingLeft, CallsFit
<1>2. CASE UNCHANGED vars
  <2>1. UNCHANGED <<tag, parts, target, stack, todo, cut>>
    BY <1>2 DEF vars, awsVars, ensureVars, history
  <2> QED
    BY <2>1 DEF CallsFit, TemplateCall, GroupCall, Putting, Exists, Outdated, Single, GroupLatest, Top
<1> QED
  BY <1>1, <1>2, StepKinds, CallsFitWork, CallsFitQuiet, CallsFitProceed, CallsFitDecided

GroupInv == Released /\ GroupThere /\ TemplateGone /\ Alone /\ Fits /\ Newer /\ CallsFit

(* The inductive invariant behind GroupUsesTemplate: a group that was not  *)
(* moved to $Latest has a template of one version, was made for one an     *)
(* aborted import left, or is about to be moved.                           *)
THEOREM GroupCorrect == Spec => []GroupInv
<1>1. Init => GroupInv
  <2>1. {"asg", "lt"} \subseteq Resource
    BY Kinds DEF Others
  <2> QED
    BY <2>1 DEF Init, GroupInv, Released, GroupThere, TemplateGone, Destroying, Alone, Fits, Newer, CallsFit, OnFirst,
           Exists
<1>2. IInv /\ DInv /\ LiveInv /\ Listed /\ GroupInv /\ [Next]_vars => GroupInv'
  BY ReleasedNext, GroupThereNext, TemplateGoneNext, AloneNext, FitsNext, CallsFitNext DEF GroupInv, DInv
<1> QED
  BY <1>1, <1>2, IInvCorrect, DInvCorrect, LiveCorrect, JoinCorrect, PTL DEF Spec

(* GroupUsesTemplate: after an import or an update that succeeds the group *)
(* is on the launch template of this version, with the two exceptions the  *)
(* property names.                                                         *)
THEOREM GroupUsesTemplateCorrect == Spec => []GroupUsesTemplate
<1>1. ASSUME IInv, Fits, Settled, GroupLatest \notin parts, Single \notin parts, "import" \notin cut
      PROVE  TemplateOnly
  <2>1. outcome = "ok" /\ cmd \in {"import", "update"} /\ "cluster" \in visited
    BY <1>1 DEF Settled
  <2>2. stack = <<>> /\ ~dry /\ Types /\ P!IInv
    BY <1>1, <2>1 DEF IInv, BInv, Control
  <2>3. {"lt", "asg"} \subseteq visited /\ "lt" \notin Grouping /\ "asg" \notin Grouping
    BY <1>1, <2>1, ClusterTree DEF Grouping
  <2>4. Exists("lt") /\ Exists("asg") /\ tag["asg"] = target["asg"]
    BY <2>2, <2>3, VisitedExists
  <2> QED
    BY <1>1, <2>4 DEF Fits, OnFirst
<1>2. IInv /\ GroupInv => GroupUsesTemplate
  BY <1>1 DEF GroupInv, GroupUsesTemplate, TemplateOnly, Has, GroupLatest, Single
<1> QED
  BY <1>2, IInvCorrect, GroupCorrect, PTL

-----------------------------------------------------------------------------
(***************************************************************************)
(* What counts the faults: without any, no command was cut and no listing  *)
(* left anything out.                                                      *)
(***************************************************************************)
Counted ==
    /\ aborts \in Nat /\ quiet \in Nat
    /\ aborts = 0 => cut = {}
    /\ quiet = 0 => missed = {}

LEMMA CountedStep ==
    ASSUME IInv, Counted, [Next]_vars
    PROVE  /\ Counted'
           /\ aborts' = 0 => aborts = 0 /\ ~Abort
           /\ quiet' = 0 => quiet = 0 /\ ~WorkQuietly
<1>1. CASE Proceed
  <2>1. PICK left \in SUBSET Listing(Head(plan), {}) :
            missed' = missed \union left /\ quiet' = quiet + Cardinality(left)
    BY <1>1 DEF Proceed
  <2>2. IsFiniteSet(Listing(Head(plan), {}))
    <3>1. Listing(Head(plan), {}) \subseteq Role \union Lambda \union {"sm", "rule", "table"}
      BY DEF Listing, GetClusterRoles, GetClusterLambdas, GetClusterStateMachines, GetCloudWatchEventRules, GetClusterDb
    <3>2. IsFiniteSet({"sm", "rule", "table"})
      <4>1. {"sm", "rule", "table"} = {"sm"} \union ({"rule"} \union {"table"})
        OBVIOUS
      <4>2. \A y : IsFiniteSet({y})
        BY FS_Singleton
      <4>3. IsFiniteSet({"rule"} \union {"table"})
        BY <4>2, FS_Union
      <4>4. IsFiniteSet({"sm"} \union ({"rule"} \union {"table"}))
        BY <4>2, <4>3, FS_Union
      <4> QED
        BY <4>1, <4>4, Zenon
    <3>3. IsFiniteSet(Role \union Lambda \union {"sm", "rule", "table"})
      BY <3>2, KindsFinite, FS_Union
    <3> QED
      BY <3>1, <3>3, FS_Subset
  <2>3. IsFiniteSet(left)
    BY <2>2, FS_Subset
  <2>4. Cardinality(left) \in Nat /\ (Cardinality(left) = 0 => left = {})
    BY <2>3, FS_CardinalityType, FS_EmptySet
  <2>5. aborts' = aborts /\ cut' = cut /\ ~WorkQuietly /\ ~Abort
    <3>1. aborts' = aborts /\ cut' = cut /\ todo = <<>>
      BY <1>1 DEF Proceed, Between
    <3> QED
      BY <3>1 DEF WorkQuietly, Abort, Counted
  <2> QED
    BY <2>1, <2>4, <2>5 DEF Counted
<1>2. CASE WorkQuietly
  <2>1. quiet' = quiet + 1 /\ aborts' = aborts /\ UNCHANGED <<cut, missed>> /\ ~Abort
    BY <1>2 DEF WorkQuietly, history, Abort, Counted
  <2> QED
    BY <2>1 DEF Counted
<1>3. CASE Abort
  <2>1. aborts' = aborts + 1 /\ quiet' = quiet /\ missed' = missed /\ ~WorkQuietly
    BY <1>3 DEF Abort, Ends, WorkQuietly, Counted
  <2> QED
    BY <2>1 DEF Counted
<1>4. CASE ~Proceed /\ ~WorkQuietly /\ ~Abort
  <2>1. UNCHANGED <<aborts, quiet, cut, missed>>
    BY <1>4 DEF Next, vars, history, bounds, ImportCluster, UpdateCluster, Destroy, Begins, Refused, Upgrade, Ensure,
           CleanerStuck, Finish, Descend, Fetch, FetchStuck, Work, WorkStops, Worked, Return, Ends
  <2> QED
    BY <1>4, <2>1 DEF Counted
<1> QED
  BY <1>1, <1>2, <1>3, <1>4

-----------------------------------------------------------------------------
(***************************************************************************)
(* What the calls of a cleaner take away.                                  *)
(***************************************************************************)
LEMMA CleanerIs ==
    ASSUME IInv, Proceed, cmd = "destroy"
    PROVE  \/ todo' = <<>>
           \/ /\ Head(plan) = "iam"
              /\ \E found \in SUBSET Role : (\A r \in found : Exists(r)) /\ todo' = DeleteRoles(found)
           \/ Head(plan) = "lambdas" /\ \E found \in SUBSET Lambda : todo' = DeleteLambdas(found)
           \/ Head(plan) = "gateway" /\ todo' = DeleteRestApiGateway
           \/ \E r \in {"lt", "sm", "asg", "table"} : todo' = <<Removes(r)>>
           \/ todo' = <<Drops("asg", {"instances"}), Removes("asg")>>
           \/ todo' = <<Drops("rule", RuleTargets), Removes("rule")>>
           \/ todo' = <<Drops("key", {"alias"}), Removes("key")>>
           \/ Head(plan) \in {"record", "alb"}
<1> DEFINE t == todo'  s == Head(plan)
<1>1. PICK left : t \in Steps(s, Listing(s, left))
  BY DEF Proceed
<1>2. s \in Clean /\ Types
  BY ProceedFacts, HeadKinds DEF IInv, BInv
<1> HIDE DEF t, s
<1> DEFINE found == Listing(s, left)
<1>3. \A b, calls : When(b, calls) = calls \/ When(b, calls) = <<>>
  BY DEF When
<1>4. CASE s = "iam"
  <2>1. t = DeleteRoles(found) /\ found \subseteq Role /\ \A r \in found : Exists(r)
    BY <1>1, <1>4, ListingFacts DEF Steps
  <2> HIDE DEF found
  <2> QED
    BY <1>4, <2>1 DEF s, t
<1>5. CASE s = "lambdas"
  <2>1. t = DeleteLambdas(found) /\ found \subseteq Lambda
    BY <1>1, <1>5, ListingFacts DEF Steps
  <2> HIDE DEF found
  <2> QED
    BY <1>5, <2>1 DEF s, t
<1>6. CASE s = "gateway"
  <2>1. t = When(Exists(s), DeleteRestApiGateway)
    BY <1>1, <1>6 DEF Steps
  <2> QED
    BY <1>3, <1>6, <2>1 DEF s, t
<1>7. CASE s = "asg"
  <2>1. PICK keep \in BOOLEAN : t = When(Exists(s), DeleteAutoScalingGroup(keep))
    BY <1>1, <1>7 DEF Steps
  <2>2. t = DeleteAutoScalingGroup(keep) \/ t = <<>>
    BY <1>3, <2>1
  <2>3. t = <<Drops("asg", {"instances"}), Removes("asg")>> \/ t = <<Removes("asg")>> \/ t = <<>>
    BY <1>2, <2>2, GroupDeleted
  <2> QED
    BY <2>3 DEF t
<1>8. CASE s = "lt"
  <2>1. t = When(Exists(s), <<Removes("lt")>>)
    BY <1>1, <1>8 DEF Steps, DeleteLaunchTemplate
  <2> QED
    BY <1>3, <2>1 DEF t
<1>9. CASE s = "sm"
  <2>1. t = When(s \in found, <<Removes("sm")>>)
    BY <1>1, <1>9 DEF Steps, DeleteStateMachine
  <2> QED
    BY <1>3, <2>1 DEF t
<1>10. CASE s = "db"
  <2>1. t = When("table" \in found, <<Removes("table")>>)
    BY <1>1, <1>10 DEF Steps, DeleteTable
  <2> QED
    BY <1>3, <2>1 DEF t
<1>11. CASE s = "rule"
  <2>1. t = When(s \in found, <<Drops("rule", RuleTargets), Removes("rule")>>)
    BY <1>1, <1>11 DEF Steps, DeleteCloudWatchEventRule
  <2> QED
    BY <1>3, <2>1 DEF t
<1>12. CASE s = "kms"
  <2>1. t = When(Exists("key"), <<Drops("key", {"alias"}), Removes("key")>>)
    BY <1>1, <1>12 DEF Steps, DeleteKMSKey
  <2> QED
    BY <1>3, <2>1 DEF t
<1> QED
  BY <1>2, <1>4, <1>5, <1>6, <1>7, <1>8, <1>9, <1>10, <1>11, <1>12 DEF Clean, s

LEMMA CleanerDrops ==
    ASSUME IInv, Proceed, cmd = "destroy", NEW i \in 1 .. Len(todo'), NEW x \in todo'[i].drop
    PROVE  /\ \/ todo'[i].r = x[1] /\ todo'[i].version = 0
              \/ x[2] \in {"role", "policy", "alias", "instances"} /\ x[1] # "join"
              \/ x[2] = "role"
              \/ x[1] \in {"rule", "lt", "alb"}
              \/ x = Permission /\ todo'[i].r = "gateway"
           /\ x[2] = "policy" => todo'[i].r = x[1]
           /\ x[2] = "alias" \/ x[2] = "instances" => todo'[i].r = x[1]
<1> DEFINE t == todo'
<1>1. Types /\ Owned /\ Keeps(Head(plan), t) /\ OfCommand(t) /\ t \in Seq(CallSet)
  BY ProceedFacts DEF IInv, BInv
<1> HIDE DEF t
<1>2. i \in 1 .. Len(t) /\ x \in t[i].drop
  BY DEF t
<1>14. x \in Part
  <2>1. t[i] \in CallSet
    BY <1>1, <1>2
  <2> QED
    BY <1>2, <2>1 DEF CallSet
<1>3. ASSUME NEW r \in Resource, t[i] = Removes(r) PROVE t[i].r = x[1] /\ t[i].version = 0
  <2>1. Removes(r).r = r /\ Removes(r).version = 0 /\ Removes(r).drop = PartsOf(r)
    BY DEF Removes, Call
  <2> QED
    BY <1>2, <1>3, <2>1 DEF PartsOf
<1>4. ASSUME NEW r, NEW ps, t[i] = Drops(r, ps) PROVE t[i].r = r /\ x[1] = r /\ x[2] \in ps
  <2>1. Drops(r, ps).r = r /\ Drops(r, ps).drop = Of(r, ps)
    BY DEF Drops, Call
  <2> QED
    BY <1>2, <1>4, <2>1, OfFacts
<1>5. {"lt", "sm", "asg", "table", "rule", "key"} \subseteq Resource /\ Lambda \subseteq Resource /\ "join" \notin Role
  BY Kinds, KindsApart DEF Others
<1>6. CASE \E found \in SUBSET Role : (\A r \in found : Exists(r)) /\ t = DeleteRoles(found)
  <2>1. PICK found \in SUBSET Role : (\A r \in found : Exists(r)) /\ t = DeleteRoles(found)
    BY <1>6
  <2>2. PICK r \in found : t[i] = DeleteIamRole(r)[1] \/ t[i] = DeleteIamRole(r)[2]
    <3> DEFINE u == DeleteRoles(found)
    <3>1. \A k \in 1 .. Len(u) : \E r \in found : u[k] = DeleteIamRole(r)[1] \/ u[k] = DeleteIamRole(r)[2]
      BY <1>1, <2>1, RolesFine, ProceedFacts
    <3> HIDE DEF u
    <3>2. t = u
      BY <2>1 DEF u
    <3> QED
      BY <1>2, <3>1, <3>2
  <2>3. r \in Role /\ Exists(r)
    BY <2>1, <2>2
  <2>4. LET c == DeleteIamRole(r)[1]  d == DeleteIamRole(r)[2] IN
           /\ c.r = r /\ c.drop = Of(r, {"policy"})
           /\ \A y \in d.drop : y[1] # "rule" => y[2] = "role"
    BY <1>1, <2>3, RoleCalls
  <2>5. CASE t[i] = DeleteIamRole(r)[1]
    <3>1. t[i].r = r /\ x \in Of(r, {"policy"})
      BY <1>2, <2>4, <2>5
    <3>2. x[1] = r /\ x[2] = "policy"
      BY <3>1, OfFacts
    <3> QED
      BY <1>5, <2>3, <3>1, <3>2 DEF t
  <2>6. CASE t[i] = DeleteIamRole(r)[2]
    <3>1. x[1] # "rule" => x[2] = "role"
      BY <1>2, <2>4, <2>6
    <3>2. x[1] = "rule" => x[2] \in RuleTargets
      BY <1>14, NamesOf, PartFacts
    <3> QED
      BY <3>1, <3>2 DEF RuleTargets, t
  <2> QED
    BY <2>2, <2>5, <2>6
<1>7. CASE \E found \in SUBSET Lambda : t = DeleteLambdas(found)
  <2>1. PICK found \in SUBSET Lambda : t = DeleteLambdas(found)
    BY <1>7
  <2>2. \E l \in found : t[i] = Removes(l)
    BY <1>1, <1>2, <2>1, LambdasFine
  <2> QED
    BY <1>3, <1>5, <2>1, <2>2 DEF t
<1>8. CASE t = DeleteRestApiGateway
  <2>1. GatewayRemoval(t[i])
    BY <1>1, <1>2, <1>8, RemovesGateway
  <2>2. x[2] = "policy" \/ x[2] = "alias" \/ x[2] = "instances" => FALSE
    <3>1. x[1] \in {"gateway", "lt"} \/ x = <<"join", "permission">>
      BY <1>2, <2>1 DEF GatewayRemoval
    <3> QED
      BY <1>14, <3>1, PartFacts, NamesOf
  <2> QED
    BY <1>2, <2>1, <2>2 DEF GatewayRemoval, Permission, t
<1>9. CASE \E r \in {"lt", "sm", "asg", "table"} : t = <<Removes(r)>>
  <2>1. PICK r \in {"lt", "sm", "asg", "table"} : t = <<Removes(r)>>
    BY <1>9
  <2>2. t[i] = Removes(r)
    BY <1>2, <2>1
  <2> QED
    BY <1>3, <1>5, <2>2 DEF t
<1>10. ASSUME NEW r \in {"asg", "rule", "key"}, NEW ps, t = <<Drops(r, ps), Removes(r)>>,
              r # "rule" => ps \subseteq {"alias", "instances"}, r = "rule" => ps = RuleTargets
       PROVE  /\ (t[i].r = x[1] /\ t[i].version = 0) \/ (r # "rule" /\ x[2] \in {"alias", "instances"}) \/ x[1] = "rule"
              /\ x[1] = r /\ t[i].r = r
  <2>1. t[i] = Drops(r, ps) \/ t[i] = Removes(r)
    BY <1>2, <1>10
  <2>2. CASE t[i] = Drops(r, ps)
    BY <1>4, <1>10, <2>2
  <2>3. CASE t[i] = Removes(r)
    <3>1. Removes(r).r = r
      BY DEF Removes, Call
    <3> QED
      BY <1>3, <1>5, <2>3, <3>1
  <2> QED
    BY <2>1, <2>2, <2>3
<1>11. CASE \/ t = <<Drops("asg", {"instances"}), Removes("asg")>>
            \/ t = <<Drops("rule", RuleTargets), Removes("rule")>>
            \/ t = <<Drops("key", {"alias"}), Removes("key")>>
  <2>1. PICK r \in {"asg", "rule", "key"} :
            /\ (t[i].r = x[1] /\ t[i].version = 0) \/ (r # "rule" /\ x[2] \in {"alias", "instances"}) \/ x[1] = "rule"
            /\ x[1] = r /\ t[i].r = r
    BY <1>10, <1>11
  <2>2. x[1] \in {"asg", "rule", "key"} => x[2] # "policy"
    <3> QED
      BY <1>14, PartFacts, NamesOf DEF RuleTargets
  <2> QED
    BY <2>1, <2>2 DEF t
<1>12. CASE Head(plan) \in {"record", "alb"}
  <2>1. t[i].r = "alb"
    BY <1>1, <1>2, <1>12, CleanedIs DEF Keeps
  <2>2. x[1] = "alb"
    <3>1. x[1] \in Near("alb") /\ "alb" \notin Role
      BY <1>1, <1>2, <2>1, Kinds, KindsApart DEF OfCommand, OutsideCall, Others
    <3> QED
      BY <3>1 DEF Near
  <2> QED
    BY <2>1, <2>2 DEF t
<1>13. t # <<>>
  BY <1>2
<1> QED
  BY <1>6, <1>7, <1>8, <1>9, <1>11, <1>12, <1>13, CleanerIs, ProceedFacts DEF t

-----------------------------------------------------------------------------
(***************************************************************************)
(* As long as no destroy is aborted a group has its lambdas and its rule,  *)
(* and the rule has a target: import makes the group last, and a destroy   *)
(* that stops by itself before the group is gone stops on a rule without a *)
(* target.                                                                 *)
(***************************************************************************)
Complete == (\A l \in Lambda : Exists(l)) /\ Exists("rule")
RuleParts == Of("rule", RuleTargets)
RuleGoes(s, i) == \E j \in i .. Len(s) : s[j].r = "rule" /\ s[j].version = 0
GroupKept ==
    "destroy" \notin cut /\ Exists("asg") =>
        /\ ~Destroying => Complete
        /\ ~NoTarget \/ Removing(todo, "rule")
RuleCall(s, i) ==
    /\ s[i].r = "asg" /\ s[i].version # 0 /\ ~Exists("asg") => Complete /\ ~NoTarget
    /\ s[i].drop \intersect RuleParts # {} =>
          \/ Stale \in s[i].put
          \/ LiveTargets = {} /\ Stale \notin s[i].drop
          \/ RuleGoes(s, i)
RuleCalls == "destroy" \notin cut => \A i \in 1 .. Len(todo) : RuleCall(todo, i)

LEMMA RulePartsAre ==
    /\ \A x : x \in RuleParts <=> x \in {Target, Again, Stale}
    /\ \A x : x \in RuleParts => x[1] = "rule"
    /\ NoTarget <=> Exists("rule") /\ RuleParts \intersect parts = {}
<1>1. \A p : <<"rule", p>> \in RuleParts <=> p \in RuleTargets
  BY OfFacts DEF RuleParts
<1>2. \A x \in RuleParts : x[1] = "rule" /\ x[2] \in RuleTargets /\ x = <<"rule", x[2]>>
  BY OfFacts DEF RuleParts
<1>3. \A x \in RuleParts : x \in {Target, Again, Stale}
  BY <1>2 DEF RuleTargets, Target, Again, Stale
<1>4. {Target, Again, Stale} \subseteq RuleParts
  BY <1>1 DEF RuleTargets, Target, Again, Stale
<1> QED
  BY <1>1, <1>2, <1>3, <1>4 DEF NoTarget, Has

LEMMA HasTarget == ASSUME NEW x \in RuleParts, x \in parts' PROVE ~NoTarget'
<1>1. x[2] \in RuleTargets /\ x = <<"rule", x[2]>>
  BY OfFacts DEF RuleParts
<1>2. RuleTargets' = RuleTargets
  BY DEF RuleTargets
<1> QED
  BY <1>1, <1>2 DEF NoTarget, Has

(* Outside of destroy nothing is taken from the rule, and what the group   *)
(* needs is not removed.                                                   *)
LEMMA RuleSafe ==
    ASSUME IInv, Work, cmd # "destroy"
    PROVE  /\ Complete => Complete'
           /\ Exists("rule") /\ ~NoTarget => ~NoTarget'
           /\ \A r \in {"asg", "rule"} : Exists(r) => Exists(r)'
<1>1. {"asg", "rule"} \subseteq Resource /\ Lambda \subseteq Resource /\ "gateway" \notin Lambda
  BY Kinds, KindsApart DEF Others
<1>2. \A r \in Lambda \union {"asg", "rule"} : Exists(r) => Exists(r)'
  BY <1>1, TagStays
<1>3. Complete => Complete'
  <2>1. Lambda' = Lambda
    BY DEF Lambda
  <2> QED
    BY <1>2, <2>1 DEF Complete
<1>4. parts' = (parts \ todo[1].drop) \union todo[1].put /\ 1 \in 1 .. Len(todo)
  BY WorkFacts DEF IInv
<1>5. todo[1].drop \intersect RuleParts = {}
  <2>1. \A x \in todo[1].drop : x[1] \in Role \union {"gateway", "lt"} \/ x = Permission
    BY <1>4, AnyCall
  <2>2. "rule" \notin Role
    BY Kinds, KindsApart DEF Others
  <2> QED
    BY <2>1, <2>2, RulePartsAre DEF Permission
<1>6. ASSUME Exists("rule"), ~NoTarget PROVE ~NoTarget'
  <2>1. RuleParts \intersect parts # {}
    BY <1>6, RulePartsAre
  <2>2. RuleParts \intersect parts' # {}
    BY <1>4, <1>5, <2>1
  <2> QED
    BY <2>2, HasTarget
<1> QED
  BY <1>2, <1>3, <1>6

LEMMA NoRemovalOfRule ==
    ASSUME IInv, ~Destroying, Exists("rule")
    PROVE  ~Removing(todo, "rule")
<1> SUFFICES ASSUME NEW i \in 1 .. Len(todo), todo[i].r = "rule", todo[i].version = 0 PROVE FALSE
  BY DEF Removing
<1>1. todo # <<>>
  BY DEF IInv, BInv, Types
<1>2. cmd # "destroy"
  BY <1>1 DEF Destroying, IInv, BInv, Control
<1>3. todo[i] # Stop /\ "rule" \in Resource /\ target["rule"] \in {1, 2}
  BY StopIsCall, Kinds DEF Others, IInv, BInv, Types
<1> QED
  BY <1>2, <1>3, Versions DEF Exists

LEMMA GroupKeptWork == ASSUME IInv, GroupKept, RuleCalls, Work PROVE GroupKept'
<1>1. /\ todo \in Seq(CallSet) /\ todo # <<>> /\ todo' = Tail(todo) /\ 1 \in 1 .. Len(todo)
      /\ todo[1] # Stop /\ parts' = (parts \ todo[1].drop) \union todo[1].put
      /\ \A r \in Resource : tag'[r] = IF r = todo[1].r THEN todo[1].version ELSE tag[r]
      /\ UNCHANGED <<cmd, outcome>>
  BY WorkFacts DEF IInv
<1>2. cut' = cut /\ outcome = "running"
  BY <1>1 DEF Work, history, IInv, BInv, Control
<1>3. {"asg", "rule"} \subseteq Resource
  BY Kinds DEF Others
<1> SUFFICES ASSUME "destroy" \notin cut, Exists("asg")'
             PROVE  (~Destroying => Complete') /\ (~NoTarget' \/ Removing(todo', "rule"))
  BY <1>1, <1>2 DEF GroupKept, Destroying
<1>4. CASE cmd # "destroy"
  <2>1. Complete /\ ~NoTarget
    <3>1. CASE Exists("asg")
      <4>1. Complete
        BY <1>4, <3>1 DEF GroupKept, Destroying
      <4> QED
        BY <1>4, <3>1, <4>1, NoRemovalOfRule DEF GroupKept, Destroying, Complete
    <3>2. CASE ~Exists("asg")
      <4>1. todo[1].r = "asg" /\ todo[1].version # 0
        BY <1>1, <1>3, <3>2 DEF Exists
      <4> QED
        BY <1>1, <3>2, <4>1 DEF RuleCalls, RuleCall
    <3> QED
      BY <3>1, <3>2
  <2> QED
    BY <1>4, <2>1, RuleSafe DEF Complete
<1>5. CASE cmd = "destroy"
  <2>1. Destroying
    BY <1>2, <1>5 DEF Destroying
  <2>2. \A r \in {"asg", "rule"} : Exists(r)' => Exists(r)
    BY <1>1, <1>3, <1>5, Versions DEF Exists
  <2>3. SUFFICES ASSUME NoTarget' PROVE Removing(todo', "rule")
    BY <2>1
  <2>4. Exists("rule")' /\ Exists("rule")
    BY <2>2, <2>3 DEF NoTarget
  <2>5. ~(todo[1].r = "rule" /\ todo[1].version = 0)
    BY <1>1, <1>3, <2>4 DEF Exists
  <2>6. CASE Removing(todo, "rule")
    BY <1>1, <2>5, <2>6, RemovingTail
  <2>7. CASE ~NoTarget
    <3>1. PICK x \in RuleParts : x \in parts
      BY <2>4, <2>7, RulePartsAre
    <3>2. \A y \in RuleParts : y \notin parts'
      BY <2>3, HasTarget
    <3>3. x \in todo[1].drop /\ todo[1].drop \intersect RuleParts # {}
      BY <1>1, <3>1, <3>2
    <3>4. Stale \in RuleParts
      BY RulePartsAre
    <3>5. Stale \notin todo[1].put
      BY <1>1, <3>2, <3>4
    <3>6. ~(LiveTargets = {} /\ Stale \notin todo[1].drop)
      <4>1. LiveTargets = {} => x = Stale
        BY <3>1, RulePartsAre DEF LiveTargets, Has, Target, Again
      <4> QED
        BY <3>3, <4>1
    <3>7. RuleGoes(todo, 1)
      BY <1>1, <3>3, <3>5, <3>6 DEF RuleCalls, RuleCall
    <3>8. Removing(todo, "rule")
      BY <3>7 DEF RuleGoes, Removing
    <3> QED
      BY <1>1, <2>5, <3>8, RemovingTail
  <2>8. Exists("asg")
    BY <2>2
  <2> QED
    BY <2>6, <2>7, <2>8 DEF GroupKept
<1> QED
  BY <1>4, <1>5

LEMMA RuleCallsWork == ASSUME IInv, RuleCalls, Work PROVE RuleCalls'
<1>1. /\ todo \in Seq(CallSet) /\ todo # <<>> /\ todo' = Tail(todo) /\ 1 \in 1 .. Len(todo)
      /\ todo[1] # Stop /\ parts' = (parts \ todo[1].drop) \union todo[1].put
      /\ \A r \in Resource : tag'[r] = IF r = todo[1].r THEN todo[1].version ELSE tag[r]
      /\ UNCHANGED <<cmd, outcome>>
  BY WorkFacts DEF IInv
<1>2. cut' = cut /\ {"asg", "rule"} \subseteq Resource
  BY Kinds DEF Work, history, Others
<1> DEFINE t == todo'
<1>3. /\ \A i \in 1 .. Len(t) : i + 1 \in 1 .. Len(todo) /\ t[i] = todo[i + 1] /\ 1 < i + 1
      /\ \A j \in 1 .. Len(todo) : j = 1 \/ (j - 1 \in 1 .. Len(t) /\ t[j - 1] = todo[j] /\ 1 < j)
  BY <1>1, TodoTail
<1> HIDE DEF t
<1> SUFFICES ASSUME "destroy" \notin cut, NEW i \in 1 .. Len(t)
             PROVE  RuleCall(todo, i)'
  BY <1>2 DEF RuleCalls, t
<1> DEFINE k == i + 1
<1>4. k \in 1 .. Len(todo) /\ t[i] = todo[k] /\ 1 < k /\ RuleCall(todo, k)
  BY <1>3 DEF RuleCalls
<1>5. ASSUME t[i].r = "asg", t[i].version # 0, ~Exists("asg")'
      PROVE  Complete' /\ ~NoTarget'
  <2>1. todo[k] # Stop
    BY <1>4, <1>5, StopIsCall
  <2>2. ~Exists("asg")
    <3> SUFFICES ASSUME Exists("asg") PROVE FALSE
      OBVIOUS
    <3>1. todo[1].r = "asg" /\ todo[1].version = 0
      BY <1>1, <1>2, <1>5 DEF Exists
    <3>2. cmd = "destroy"
      BY <1>1, <1>2, <3>1, Versions DEF Exists, IInv, BInv, Types
    <3>3. stack = <<>>
      BY <3>2 DEF IInv, BInv, Control
    <3>4. RemovalsLast(todo)
      BY <3>3 DEF IInv, BInv, Pending, OfCommand
    <3> QED
      BY <1>1, <1>4, <1>5, <3>1, <3>4 DEF RemovalsLast
  <2>3. Complete /\ ~NoTarget
    BY <1>4, <1>5, <2>2 DEF RuleCall
  <2>4. cmd # "destroy"
    BY <1>4, <1>5, <2>1, <2>2, Versions DEF Exists
  <2> QED
    BY <2>3, <2>4, RuleSafe DEF Complete
<1>6. ASSUME t[i].drop \intersect RuleParts # {}
      PROVE  Stale \in t[i].put \/ (LiveTargets' = {} /\ Stale \notin t[i].drop) \/ RuleGoes(t, i)
  <2>1. CASE RuleGoes(todo, k)
    <3>1. PICK j \in k .. Len(todo) : todo[j].r = "rule" /\ todo[j].version = 0
      BY <2>1 DEF RuleGoes
    <3>2. j \in 1 .. Len(todo) /\ j # 1 /\ j - 1 >= i
      BY <1>4, <3>1
    <3>3. j - 1 \in i .. Len(t) /\ t[j - 1] = todo[j]
      BY <1>3, <3>2
    <3> QED
      BY <3>1, <3>3 DEF RuleGoes
  <2>2. CASE LiveTargets = {} /\ Stale \notin todo[k].drop
    <3>1. PICK x \in RuleParts : x \in todo[k].drop
      BY <1>4, <1>6
    <3>2. cmd = "destroy"
      <4>1. x[1] = "rule" /\ "rule" \notin Role
        BY RulePartsAre, Kinds, KindsApart DEF Others
      <4> QED
        BY <1>4, <3>1, <4>1, AnyCall DEF Permission
    <3>3. todo[1].put \subseteq Old \union Of("rule", {"stale"})
      BY <1>1, <3>2, AnyCall
    <3>4. Target \notin todo[1].put /\ Again \notin todo[1].put
      BY <3>3, OfFacts DEF Old, Target, Again
    <3>5. LiveTargets' = {}
      <4>1. Target \notin parts /\ Again \notin parts
        BY <2>2 DEF LiveTargets, Has, Target, Again
      <4>2. Target \notin parts' /\ Again \notin parts'
        BY <1>1, <3>4, <4>1
      <4> QED
        BY <4>2 DEF LiveTargets, Has, Target, Again
    <3> QED
      BY <1>4, <2>2, <3>5
  <2> QED
    BY <1>4, <1>6, <2>1, <2>2 DEF RuleCall
<1>7. RuleParts' = RuleParts
  BY DEF RuleParts, Of, RuleTargets
<1>8. RuleGoes(t, i) => RuleGoes(todo, i)'
  BY DEF RuleGoes, t
<1> QED
  BY <1>5, <1>6, <1>7, <1>8 DEF RuleCall, t, Stale

LEMMA GroupKeptQuiet == ASSUME IInv, GroupKept, RuleCalls, WorkQuietly PROVE GroupKept' /\ RuleCalls'
<1>1. /\ todo \in Seq(CallSet) /\ todo # <<>> /\ todo' = Tail(todo) /\ 1 \in 1 .. Len(todo)
      /\ ErrorIgnored(todo[1]) /\ UNCHANGED <<tag, parts, cmd, outcome, cut>>
  BY QuietFacts DEF IInv, WorkQuietly, history
<1> DEFINE t == todo'
<1>2. /\ \A i \in 1 .. Len(t) : i + 1 \in 1 .. Len(todo) /\ t[i] = todo[i + 1] /\ 1 < i + 1
      /\ \A j \in 1 .. Len(todo) : j = 1 \/ (j - 1 \in 1 .. Len(t) /\ t[j - 1] = todo[j] /\ 1 < j)
  BY <1>1, TodoTail
<1> HIDE DEF t
<1>3. cmd # "destroy"
  <2>1. PICK x \in todo[1].put : x[1] \in {"key"} \union Lambda
    BY <1>1, IgnoredPut
  <2>2. x \notin Old \union Of("rule", {"stale"})
    <3>1. {"rule", "gateway"} \intersect ({"key"} \union Lambda) = {}
      BY Kinds, KindsApart DEF Others
    <3> QED
      BY <2>1, <3>1, OfFacts DEF Old
  <2> QED
    BY <1>1, <2>1, <2>2, AnyCall
<1>4. /\ Complete' <=> Complete
      /\ NoTarget' <=> NoTarget
      /\ LiveTargets' = LiveTargets
      /\ RuleParts' = RuleParts
      /\ Exists("asg")' <=> Exists("asg")
      /\ Destroying' <=> Destroying
  BY <1>1 DEF Complete, NoTarget, LiveTargets, RuleParts, RuleTargets, Of, Has, Exists, Lambda, Destroying
<1>5. GroupKept'
  <2> SUFFICES ASSUME "destroy" \notin cut, Exists("asg") PROVE Complete /\ ~NoTarget
    BY <1>1, <1>4 DEF GroupKept
  <2>1. Complete /\ ~Destroying
    BY <1>3 DEF GroupKept, Destroying
  <2> QED
    BY <2>1, NoRemovalOfRule DEF GroupKept, Complete
<1>6. RuleCalls'
  <2> SUFFICES ASSUME "destroy" \notin cut, NEW i \in 1 .. Len(t) PROVE RuleCall(todo, i)'
    BY <1>1 DEF RuleCalls, t
  <2> DEFINE k == i + 1
  <2>1. k \in 1 .. Len(todo) /\ t[i] = todo[k] /\ 1 < k /\ RuleCall(todo, k)
    BY <1>2 DEF RuleCalls
  <2>2. RuleGoes(todo, k) => RuleGoes(t, i)
    <3> SUFFICES ASSUME RuleGoes(todo, k) PROVE RuleGoes(t, i)
      OBVIOUS
    <3>1. PICK j \in k .. Len(todo) : todo[j].r = "rule" /\ todo[j].version = 0
      BY DEF RuleGoes
    <3>2. j \in 1 .. Len(todo) /\ j # 1 /\ j - 1 >= i
      BY <2>1, <3>1
    <3>3. j - 1 \in i .. Len(t) /\ t[j - 1] = todo[j]
      BY <1>2, <3>2
    <3> QED
      BY <3>1, <3>3 DEF RuleGoes
  <2>3. RuleGoes(t, i) <=> RuleGoes(todo, i)'
    BY DEF RuleGoes, t
  <2> QED
    BY <1>4, <2>1, <2>2, <2>3 DEF RuleCall, t, Stale
<1> QED
  BY <1>5, <1>6

(* A destroy goes on, or ends, by few steps. *)
LEMMA DestroySteps ==
    ASSUME IInv, [Next]_vars, Destroying
    PROVE  Destroying' => Work \/ Proceed \/ UNCHANGED vars
<1>1. Destroying' => cmd' = "destroy" /\ outcome' = "running"
  BY DEF Destroying
<1>2. ~Destroy
  BY DEF Destroying, Destroy, Begins, Refused, Ready
<1>3. Finish => outcome' = "ok"
  BY DEF Finish
<1> QED
  BY <1>1, <1>2, <1>3, DestroyGoesOn

LEMMA GroupKeptIdle ==
    ASSUME IInv, DInv, Listed, GroupKept, [Next]_vars, NothingLeft, ~Work, ~Proceed
    PROVE  GroupKept' /\ RuleCalls'
<1>1. todo' = <<>> /\ tag' = tag /\ \A x \in parts : x[1] = "rule" => x \in parts' \/ x[2] \in {"policy", "runtime", "arch", "build"}
  BY DEF NothingLeft
<1>2. RuleCalls'
  BY <1>1 DEF RuleCalls
<1>3. UNCHANGED vars => GroupKept'
  <2> SUFFICES ASSUME UNCHANGED vars PROVE GroupKept'
    OBVIOUS
  <2>1. UNCHANGED <<tag, parts, cut, cmd, outcome, todo>>
    BY DEF vars, awsVars, history
  <2> QED
    BY <2>1 DEF GroupKept, Destroying, Exists, Complete, NoTarget, Has, Lambda, RuleTargets, Removing
<1> SUFFICES ASSUME "destroy" \notin cut', Exists("asg")', ~UNCHANGED vars
             PROVE  (~Destroying' => Complete') /\ ~NoTarget'
  BY <1>2, <1>3 DEF GroupKept
<1>4. "destroy" \notin cut /\ Exists("asg")
  BY <1>1, CutGrows DEF Exists
<1>5. ASSUME ~NoTarget PROVE ~NoTarget'
  <2>1. CASE ~Exists("rule")
    BY <1>1, <2>1 DEF NoTarget, Exists
  <2>2. CASE Exists("rule")
    <3>1. PICK x \in RuleParts : x \in parts
      BY <1>5, <2>2, RulePartsAre
    <3>2. x \in {Target, Again, Stale}
      BY RulePartsAre
    <3>3. x \in parts'
      BY <1>1, <3>1, <3>2 DEF Target, Again, Stale
    <3> QED
      BY <3>3, HasTarget
  <2> QED
    BY <2>1, <2>2
<1>6. CASE Destroying
  <2>1. ~Destroying'
    BY <1>6, DestroySteps
  <2>2. Excused /\ ~Excused'
    BY <1>6, <2>1 DEF Excused
  <2>3. todo = <<>> /\ (~Exists("asg") \/ NoTarget)
    BY <2>2, DestroyEnds
  <2> QED
    BY <1>4, <2>3 DEF GroupKept, Removing
<1>7. CASE ~Destroying
  <2>1. Complete /\ ~NoTarget
    BY <1>4, <1>7, NoRemovalOfRule DEF GroupKept, Complete
  <2>2. Complete'
    BY <1>1, <2>1 DEF Complete, Exists, Lambda
  <2> QED
    BY <1>5, <2>1, <2>2
<1> QED
  BY <1>6, <1>7

(* The group is made when all it needs is there. *)
LEMMA GroupMadeLast ==
    ASSUME IInv, LiveInv, stack # <<>>, Top.r = "asg", Top.step = "subresources",
           Top.done = Len(Sub[Top.r]), ~dry
    PROVE  Complete /\ ~NoTarget
<1>1. {"lt", "rule"} \subseteq visited
  <2>1. P!SubsOf("asg") = {Sub["asg"][i] : i \in DOMAIN Sub["asg"]}
    BY DEF P!SubsOf, Tree!SubsOf
  <2>2. Sub["asg"] = <<"lt", "rule">>
    BY Kinds, KindsApart DEF Sub, Others, Grouping
  <2>3. 1 \in DOMAIN <<"lt", "rule">> /\ 2 \in DOMAIN <<"lt", "rule">>
    OBVIOUS
  <2>4. {"lt", "rule"} \subseteq P!SubsOf("asg")
    BY <2>1, <2>2, <2>3
  <2> QED
    BY <2>4, SubsAreThere
<1>2. Lambda \subseteq visited
  BY <1>1, GroupTree
<1>3. (Lambda \union {"rule"}) \intersect (Grouping \union {"alb"}) = {}
  BY Kinds, KindsApart DEF Others, Grouping
<1>4. Complete
  BY <1>1, <1>2, <1>3, SubsAreThere DEF Complete
<1>5. Live("rule")
  BY <1>1 DEF LiveInv, Visits, Users, RoleUser
<1>6. \E p \in {"target", "again"} : <<"rule", p>> \in parts
  BY <1>5, OfFacts DEF Live, Marks
<1> QED
  BY <1>4, <1>6 DEF NoTarget, Has, RuleTargets

LEMMA GroupKeptDecided == ASSUME IInv, LiveInv, GroupKept, Decided, cut' = cut PROVE GroupKept' /\ RuleCalls'
<1>1. /\ todo = <<>> /\ stack # <<>> /\ Top.step = "subresources" /\ Top.done = Len(Sub[Top.r])
      /\ dry => Top.r \in Grouping
      /\ UNCHANGED <<tag, parts, cmd, outcome>> /\ cmd # "destroy"
      /\ Fine(Top.r, todo')
  BY DecidedFacts DEF Decided
<1> DEFINE t == todo'  r == Top.r
<1>2. /\ Complete' <=> Complete
      /\ NoTarget' <=> NoTarget
      /\ Destroying' <=> Destroying
      /\ Exists("asg")' <=> Exists("asg")
  BY <1>1 DEF Complete, NoTarget, RuleTargets, Has, Exists, Lambda, Destroying
<1>3. GroupKept'
  BY <1>1, <1>2 DEF GroupKept, Removing
<1>4. ASSUME NEW i \in 1 .. Len(t)
      PROVE  /\ t[i].r = "asg" /\ t[i].version # 0 /\ ~Exists("asg") => Complete /\ ~NoTarget
             /\ t[i].drop \intersect RuleParts = {}
  <2>1. EnsureCall(r, t[i])
    BY <1>1 DEF Fine, InEnsure
  <2>2. t[i].drop \intersect RuleParts = {}
    <3>1. \A x \in t[i].drop : x[1] \in Role \union {"gateway", "lt"} \/ x = Permission
      BY <2>1, EnsureDrops
    <3>2. "rule" \notin Role
      BY Kinds, KindsApart DEF Others
    <3> QED
      BY <3>1, <3>2, RulePartsAre DEF Permission
  <2>3. t[i].r = "asg" => r = "asg"
    BY <2>1, StopIsCall DEF EnsureCall
  <2> QED
    BY <1>1, <2>2, <2>3, GroupMadeLast DEF Grouping
<1>5. RuleParts' = RuleParts
  BY DEF RuleParts, RuleTargets, Of
<1>6. RuleCalls'
  BY <1>2, <1>4, <1>5 DEF RuleCalls, RuleCall
<1> QED
  BY <1>3, <1>6

(* Only the cleaners of the roles and of the rule reach the rule. *)
LEMMA FarFromRule ==
    ASSUME NEW step \in Clean \ {"iam", "rule"}, NEW q \in About(step)
    PROVE  q \notin Role \union {"rule"} /\ "rule" \notin Near(q)
<1>1. "rule" \notin Role \union Lambda /\ Role \intersect Lambda = {}
  BY Kinds, KindsApart DEF Others
<1>2. {"alb", "gateway", "lt", "sm", "asg", "table", "key"} \intersect (Role \union {"rule"}) = {}
  BY Kinds, KindsApart DEF Others
<1>3. About(step) \intersect (Role \union {"rule"}) = {}
  BY <1>1, <1>2, CleanedIs DEF Clean
<1> QED
  BY <1>3 DEF Near

(* What takes the targets of the rule along removes the rule, or leaves    *)
(* one behind that names the old role.                                     *)
LEMMA RuleCleaner ==
    ASSUME IInv, Proceed, cmd = "destroy", NEW i \in 1 .. Len(todo'), todo'[i].drop \intersect RuleParts # {}
    PROVE  \/ Stale \in todo'[i].put
           \/ LiveTargets = {} /\ Stale \notin todo'[i].drop
           \/ RuleGoes(todo', i)
<1> DEFINE t == todo'  step == Head(plan)
<1>1. /\ outcome = "running" /\ plan # <<>> /\ Keeps(step, t) /\ OfCommand(t) /\ Types /\ Owned
  BY ProceedFacts DEF IInv, BInv
<1>2. PICK left : t \in Steps(step, Listing(step, left))
  BY DEF Proceed
<1>3. step \in Clean
  BY <1>1, HeadKinds DEF Proceed, IInv
<1>4. t[i].r \in About(step) /\ \A x \in t[i].drop : x[1] \in Near(t[i].r)
  BY <1>1 DEF Keeps, OfCommand, OutsideCall
<1> HIDE DEF t, step
<1>5. PICK x \in RuleParts : x \in t[i].drop
  BY DEF t
<1>6. x[1] = "rule" /\ "rule" \notin Role
  BY RulePartsAre, Kinds, KindsApart DEF Others
<1>7. step = "iam" \/ step = "rule"
  BY <1>3, <1>4, <1>5, <1>6, FarFromRule
<1>8. CASE step = "rule"
  <2> DEFINE b == "rule" \in Listing(step, left)
  <2>1. t = When(b, DeleteCloudWatchEventRule)
    BY <1>2, <1>8 DEF Steps
  <2>2. i \in 1 .. Len(t)
    BY DEF t
  <2>3. t # <<>>
    BY <2>2
  <2>4. t = <<Drops("rule", RuleTargets), Removes("rule")>>
    BY <2>1, <2>3 DEF When, DeleteCloudWatchEventRule
  <2>5. 2 \in i .. Len(t) /\ t[2] = Removes("rule")
    BY <2>2, <2>4
  <2>6. t[2].r = "rule" /\ t[2].version = 0
    BY <2>5 DEF Removes, Call
  <2> QED
    BY <2>5, <2>6 DEF RuleGoes, t
<1>9. CASE step = "iam"
  <2> DEFINE found == Listing(step, left)
  <2>1. t = DeleteRoles(found)
    BY <1>2, <1>9 DEF Steps
  <2>2. found \in SUBSET Role /\ \A r \in found : Exists(r)
    BY <1>9, ListingFacts
  <2> HIDE DEF found
  <2>3. PICK r \in found : t[i] = DeleteIamRole(r)[1] \/ t[i] = DeleteIamRole(r)[2]
    BY <1>1, <2>1, <2>2, RolesFine DEF t
  <2>4. r \in Role /\ Exists(r)
    BY <2>2
  <2>5. t[i] # DeleteIamRole(r)[1]
    <3>1. DeleteIamRole(r)[1].drop = Of(r, {"policy"})
      BY <1>1, <2>4, RoleCalls
    <3> QED
      BY <1>5, <1>6, <2>4, <3>1, OfFacts
  <2> DEFINE u == CHOOSE u \in RoleUser : RoleOf[u] = r
  <2>6. t[i] = Call(r, 0, Orphans(u).put, Orphans(u).drop)
    BY <2>3, <2>5 DEF DeleteIamRole
  <2> HIDE DEF u
  <2>7. t[i].put = Orphans(u).put /\ t[i].drop = Orphans(u).drop
    BY <2>6 DEF Call
  <2>8. u = "rule"
    <3> SUFFICES ASSUME u # "rule" PROVE FALSE
      OBVIOUS
    <3>1. t[i].drop = Of(u, {"role"})
      BY <2>7 DEF Orphans
    <3> QED
      BY <1>5, <1>6, <3>1, OfFacts
  <2>9. /\ t[i].put = Of("rule", IF LiveTargets = {} THEN {} ELSE {"stale"})
        /\ t[i].drop = Of("rule", {"target", "again"})
    BY <2>7, <2>8 DEF Orphans
  <2>10. Stale \notin t[i].drop
    BY <2>9, OfFacts DEF Stale
  <2>11. LiveTargets # {} => Stale \in t[i].put
    BY <2>9, OfFacts DEF Stale
  <2> QED
    BY <2>10, <2>11 DEF t
<1> QED
  BY <1>7, <1>8, <1>9

LEMMA GroupKeptProceed == ASSUME IInv, GroupKept, Proceed PROVE GroupKept' /\ RuleCalls'
<1>1. /\ outcome = "running" /\ todo = <<>> /\ UNCHANGED <<tag, parts, cmd, outcome>>
      /\ OfCommand(todo')
      /\ cmd # "destroy" => \A i \in 1 .. Len(todo') : todo'[i].r \in {"table", "asg"} /\ todo'[i].drop = {}
  BY ProceedFacts
<1>2. cut' = cut
  BY DEF Proceed
<1>3. /\ Complete' <=> Complete
      /\ NoTarget' <=> NoTarget
      /\ Destroying' <=> Destroying
      /\ Exists("asg")' <=> Exists("asg")
      /\ LiveTargets' = LiveTargets
      /\ RuleParts' = RuleParts
  BY <1>1 DEF Complete, NoTarget, RuleTargets, Has, Exists, Lambda, Destroying, LiveTargets, RuleParts, Of
<1>4. GroupKept'
  BY <1>1, <1>2, <1>3 DEF GroupKept, Removing
<1> DEFINE t == todo'
<1>5. ASSUME NEW i \in 1 .. Len(t), t[i].r = "asg", t[i].version # 0, ~Exists("asg")
      PROVE  FALSE
  BY <1>1, <1>5 DEF OfCommand, OutsideCall, Exists
<1>6. ASSUME NEW i \in 1 .. Len(t), t[i].drop \intersect RuleParts # {}
      PROVE  Stale \in t[i].put \/ (LiveTargets = {} /\ Stale \notin t[i].drop) \/ RuleGoes(t, i)
  BY <1>1, <1>6, RuleCleaner
<1>7. \A i \in 1 .. Len(t) : RuleGoes(t, i) <=> RuleGoes(todo, i)'
  BY DEF RuleGoes
<1>8. RuleCalls'
  BY <1>3, <1>5, <1>6, <1>7 DEF RuleCalls, RuleCall, Stale
<1> QED
  BY <1>4, <1>8

LEMMA OnlyAbortCuts == ASSUME [Next]_vars, ~Abort PROVE cut' = cut
BY DEF Next, vars, history, ImportCluster, UpdateCluster, Destroy, Begins, Refused, Upgrade, Ensure, Proceed,
       CleanerStuck, Finish, Descend, Fetch, FetchStuck, Work, WorkQuietly, WorkStops, Worked, Return

LEMMA OnlyThoseQuiet == ASSUME [Next]_vars, ~WorkQuietly, ~Proceed PROVE quiet' = quiet
BY DEF Next, vars, bounds, ImportCluster, UpdateCluster, Destroy, Begins, Refused, Upgrade, Ensure,
       CleanerStuck, Finish, Descend, Fetch, FetchStuck, Work, WorkStops, Worked, Return, Abort, Ends

(* Besides the calls only a release changes what is in place. *)
LEMMA PartsSame == ASSUME IInv, [Next]_vars, ~Work, ~Upgrade PROVE parts' = parts
<1>1. CASE Next
  BY <1>1 DEF Next, awsVars, ImportCluster, UpdateCluster, Destroy, Begins, Refused, Ensure, Proceed,
         CleanerStuck, Finish, Descend, Fetch, FetchStuck, WorkQuietly, WorkStops, Worked, Return, Abort, Ends
<1> QED
  BY <1>1 DEF vars, awsVars

LEMMA DecidedCuts == ASSUME IInv, [Next]_vars, Decided PROVE cut' = cut
<1>1. outcome' = "running"
  BY DecidedFacts
<1>2. ~Abort
  BY <1>1 DEF Abort, Ends
<1> QED
  BY <1>2, OnlyAbortCuts

LEMMA GroupKeptNext ==
    ASSUME IInv, DInv, Listed, LiveInv, GroupKept, RuleCalls, [Next]_vars
    PROVE  GroupKept' /\ RuleCalls'
<1>1. CASE Work
  BY <1>1, GroupKeptWork, RuleCallsWork
<1>2. CASE WorkQuietly
  BY <1>2, GroupKeptQuiet
<1>3. CASE Proceed
  BY <1>3, GroupKeptProceed
<1>4. CASE Decided /\ ~Work /\ ~Proceed
  BY <1>4, GroupKeptDecided, DecidedCuts
<1>5. CASE NothingLeft /\ ~Work /\ ~Proceed
  BY <1>5, GroupKeptIdle
<1>6. CASE UNCHANGED vars
  <2>1. UNCHANGED <<tag, parts, cut, cmd, outcome, todo>>
    BY <1>6 DEF vars, awsVars, history
  <2>2. GroupKept'
    BY <2>1 DEF GroupKept, Destroying, Exists, Complete, NoTarget, Has, Lambda, RuleTargets, Removing
  <2>3. RuleCalls'
    BY <2>1 DEF RuleCalls, RuleCall, RuleGoes, Exists, Complete, NoTarget, Has, Lambda, RuleTargets, LiveTargets,
                RuleParts, Of, Stale
  <2> QED
    BY <2>2, <2>3
<1> QED
  BY <1>1, <1>2, <1>3, <1>4, <1>5, <1>6, StepKinds

-----------------------------------------------------------------------------
(***************************************************************************)
(* A lambda that has the version of this wekactl has its architecture, and *)
(* its runtime as long as no error was dropped; one that is there has the  *)
(* name of the table, until a destroy is aborted.  The call that sets the  *)
(* tag comes after those that put them.                                    *)
(***************************************************************************)
Counts(x, v) == v # 0 /\ (x[2] = "tableName" \/ v = target[x[1]])
PutBy(s, i, x) == \E j \in 1 .. i : x \in s[j].put
MadeWhole(x) == Counts(x, tag[x[1]]) => x \in parts
MadeBy(s, x) ==
    \A i \in 1 .. Len(s) :
        /\ x \in s[i].drop => s[i].r = x[1] /\ s[i].version = 0
        /\ s[i].r = x[1] /\ Counts(x, s[i].version) /\ ~Counts(x, tag[x[1]]) => x \in parts \/ PutBy(s, i, x)
Sure(x) == (x[2] = "runtime" => quiet = 0) /\ (x[2] = "tableName" => "destroy" \notin cut)
LambdaParts == Lambda \X {"arch", "runtime", "tableName"}
LambdaKept == \A x \in LambdaParts : Sure(x) => MadeWhole(x) /\ MadeBy(todo, x)

LEMMA LambdaPartsAre ==
    ASSUME NEW x \in LambdaParts
    PROVE  /\ x[1] \in Lambda /\ x[1] \in Resource /\ x[1] \notin {"rule", "lt", "alb", "gateway", "sm", "table", "asg"}
           /\ x[2] \in {"arch", "runtime", "tableName"} /\ x = <<x[1], x[2]>> /\ x # Permission
           /\ x[1] \notin Role
<1>1. x[1] \in Lambda /\ x[2] \in {"arch", "runtime", "tableName"} /\ x = <<x[1], x[2]>>
  BY DEF LambdaParts
<1>2. x # Permission
  BY <1>1 DEF Permission
<1> QED
  BY <1>1, <1>2, Kinds, KindsApart DEF Others

LEMMA LambdaDrops ==
    ASSUME IInv, NEW x \in LambdaParts, NEW i \in 1 .. Len(todo), x \in todo[i].drop
    PROVE  cmd = "destroy"
<1>1. x[1] \notin Role \union {"gateway", "lt"} /\ x # Permission
  BY LambdaPartsAre
<1> QED
  BY <1>1, AnyCall

LEMMA LambdaWork == ASSUME IInv, LambdaKept, Work PROVE LambdaKept'
<1>1. /\ todo \in Seq(CallSet) /\ todo # <<>> /\ todo' = Tail(todo) /\ 1 \in 1 .. Len(todo)
      /\ parts' = (parts \ todo[1].drop) \union todo[1].put
      /\ \A r \in Resource : tag'[r] = IF r = todo[1].r THEN todo[1].version ELSE tag[r]
      /\ target' = target
  BY WorkFacts DEF IInv
<1>2. cut' = cut /\ quiet' = quiet
  BY DEF Work, history, bounds
<1>3. cmd = "destroy" => RemovalsLast(todo)
  BY DEF IInv, BInv, Control, Pending, OfCommand
<1> DEFINE t == todo'
<1>4. /\ \A i \in 1 .. Len(t) : i + 1 \in 1 .. Len(todo) /\ t[i] = todo[i + 1] /\ 1 < i + 1
      /\ \A j \in 1 .. Len(todo) : j = 1 \/ (j - 1 \in 1 .. Len(t) /\ t[j - 1] = todo[j] /\ 1 < j)
  BY <1>1, TodoTail
<1> HIDE DEF t
<1> SUFFICES ASSUME NEW x \in LambdaParts, Sure(x) PROVE (MadeWhole(x) /\ MadeBy(todo, x))'
  BY <1>2 DEF LambdaKept, LambdaParts, Lambda, Sure
<1> DEFINE l == x[1]
<1>5. l \in Resource /\ MadeWhole(x) /\ MadeBy(todo, x)
  BY LambdaPartsAre DEF LambdaKept
<1>6. \A v : Counts(x, v)' <=> Counts(x, v)
  BY <1>1 DEF Counts
<1>7. tag'[l] = IF l = todo[1].r THEN todo[1].version ELSE tag[l]
  BY <1>1, <1>5
<1>8. x \in todo[1].drop => todo[1].r = l /\ todo[1].version = 0 /\ cmd = "destroy"
  BY <1>1, <1>5, LambdaDrops DEF MadeBy
<1>9. ~Counts(x, 0)
  BY DEF Counts
<1>10. ASSUME Counts(x, tag'[l]) PROVE x \in parts'
  <2>1. x \notin todo[1].drop
    BY <1>7, <1>8, <1>9, <1>10
  <2>2. CASE Counts(x, tag[l])
    BY <1>1, <1>5, <2>1, <2>2 DEF MadeWhole
  <2>3. CASE ~Counts(x, tag[l])
    <3>1. todo[1].r = l /\ Counts(x, todo[1].version)
      BY <1>7, <1>10, <2>3
    <3>2. x \in parts \/ PutBy(todo, 1, x)
      BY <1>1, <1>5, <2>3, <3>1 DEF MadeBy
    <3> QED
      BY <1>1, <2>1, <3>2 DEF PutBy
  <2> QED
    BY <2>2, <2>3
<1>11. ASSUME NEW i \in 1 .. Len(t), t[i].r = l, Counts(x, t[i].version), ~Counts(x, tag'[l])
       PROVE  x \in parts' \/ PutBy(t, i, x)
  <2> DEFINE k == i + 1
  <2>1. k \in 1 .. Len(todo) /\ t[i] = todo[k] /\ 1 < k
    BY <1>4
  <2>2. x \in todo[1].drop => FALSE
    BY <1>1, <1>3, <1>8, <1>9, <1>11, <2>1 DEF RemovalsLast
  <2>3. x \in parts => x \in parts'
    BY <1>1, <2>2
  <2>4. CASE Counts(x, tag[l])
    BY <1>5, <2>3, <2>4 DEF MadeWhole
  <2>5. CASE ~Counts(x, tag[l])
    <3>1. x \in parts \/ PutBy(todo, k, x)
      BY <1>5, <1>11, <2>1, <2>5 DEF MadeBy
    <3>2. ASSUME PutBy(todo, k, x) PROVE x \in parts' \/ PutBy(t, i, x)
      <4>1. PICK j \in 1 .. k : x \in todo[j].put
        BY <3>2 DEF PutBy
      <4>2. CASE j = 1
        BY <1>1, <4>1, <4>2
      <4>3. CASE j # 1
        <5>1. j \in 1 .. Len(todo)
          BY <2>1, <4>1
        <5>2. j - 1 \in 1 .. Len(t) /\ t[j - 1] = todo[j]
          BY <1>4, <4>3, <5>1
        <5>3. j - 1 \in 1 .. i
          BY <2>1, <4>1, <5>2
        <5> QED
          BY <4>1, <5>2, <5>3 DEF PutBy
      <4> QED
        BY <4>2, <4>3
    <3> QED
      BY <2>3, <3>1, <3>2
  <2> QED
    BY <2>4, <2>5
<1>12. ASSUME NEW i \in 1 .. Len(t), x \in t[i].drop PROVE t[i].r = l /\ t[i].version = 0
  BY <1>4, <1>5, <1>12 DEF MadeBy
<1>13. \A i \in 1 .. Len(t) : PutBy(t, i, x) <=> PutBy(todo, i, x)'
  BY DEF PutBy, t
<1> QED
  BY <1>6, <1>10, <1>11, <1>12, <1>13 DEF MadeWhole, MadeBy, t

LEMMA LambdaQuiet == ASSUME IInv, Counted, LambdaKept, [Next]_vars, WorkQuietly PROVE LambdaKept'
<1>1. /\ todo \in Seq(CallSet) /\ todo # <<>> /\ todo' = Tail(todo) /\ 1 \in 1 .. Len(todo)
      /\ ErrorIgnored(todo[1]) /\ UNCHANGED <<tag, parts, target, cut>>
  BY QuietFacts DEF IInv, WorkQuietly, history
<1>2. quiet' # 0
  BY CountedStep
<1> DEFINE t == todo'
<1>3. /\ \A i \in 1 .. Len(t) : i + 1 \in 1 .. Len(todo) /\ t[i] = todo[i + 1] /\ 1 < i + 1
      /\ \A j \in 1 .. Len(todo) : j = 1 \/ (j - 1 \in 1 .. Len(t) /\ t[j - 1] = todo[j] /\ 1 < j)
  BY <1>1, TodoTail
<1> HIDE DEF t
<1> SUFFICES ASSUME NEW x \in LambdaParts, Sure(x)' PROVE (MadeWhole(x) /\ MadeBy(todo, x))'
  BY DEF LambdaKept, LambdaParts, Lambda
<1>4. x[2] # "runtime" /\ Sure(x)
  BY <1>1, <1>2 DEF Sure
<1>5. MadeWhole(x) /\ MadeBy(todo, x)
  BY <1>4 DEF LambdaKept
<1>6. x \notin todo[1].put
  <2>1. todo[1].put = Of("key", {"alias"}) \/ \E l \in Lambda : todo[1].put = Of(l, {"runtime"})
    BY <1>1 DEF ErrorIgnored
  <2>2. \A y \in todo[1].put : y[2] \in {"alias", "runtime"}
    BY <2>1, OfFacts
  <2> QED
    BY <1>4, <2>2, LambdaPartsAre
<1>7. \A v : Counts(x, v)' <=> Counts(x, v)
  BY <1>1 DEF Counts
<1>8. MadeWhole(x)'
  BY <1>1, <1>5, <1>7 DEF MadeWhole
<1>9. ASSUME NEW i \in 1 .. Len(t), PutBy(todo, i + 1, x) PROVE PutBy(todo, i, x)'
  <2>1. PICK j \in 1 .. i + 1 : x \in todo[j].put
    BY <1>9 DEF PutBy
  <2>2. j # 1 /\ j \in 1 .. Len(todo)
    BY <1>3, <1>6, <2>1
  <2>3. j - 1 \in 1 .. Len(t) /\ t[j - 1] = todo[j]
    BY <1>3, <2>2
  <2>4. j - 1 \in 1 .. i
    BY <2>1, <2>3
  <2> QED
    BY <2>1, <2>3, <2>4 DEF PutBy, t
<1>10. ASSUME NEW i \in 1 .. Len(t)
       PROVE  /\ x \in t[i].drop => t[i].r = x[1] /\ t[i].version = 0
              /\ t[i].r = x[1] /\ Counts(x, t[i].version) /\ ~Counts(x, tag[x[1]]) =>
                    x \in parts \/ PutBy(todo, i, x)'
  BY <1>3, <1>5, <1>9 DEF MadeBy
<1>11. MadeBy(todo, x)'
  BY <1>1, <1>7, <1>10 DEF MadeBy, t
<1> QED
  BY <1>8, <1>11

(* UpdateLambda puts what is missing before it sets the tag. *)
LambdaFront(l) ==
    (When(~Has(l, "runtime"), UpdateLambdaRuntime(l)) \o When(~Has(l, "arch"), UpdateLambdaArchitecture(l)))
    \o When(~Has(l, "role"), UpdateLambdaRole(l))
KeepsTag(s, l) == \A i \in 1 .. Len(s) : s[i].version = tag[l]
Brings(s, x) == \E i \in 1 .. Len(s) : x \in s[i].put

LEMMA BringsConcat ==
    ASSUME NEW s \in Seq(CallSet), NEW t \in Seq(CallSet), NEW l, KeepsTag(s, l), KeepsTag(t, l)
    PROVE  /\ s \o t \in Seq(CallSet) /\ KeepsTag(s \o t, l)
           /\ \A x : Brings(s, x) \/ Brings(t, x) => Brings(s \o t, x)
<1> DEFINE u == s \o t
<1>1. Splits(s, t, u) /\ u \in Seq(CallSet)
  BY ConcatSplits
<1> HIDE DEF u
<1>2. KeepsTag(u, l)
  <2> SUFFICES ASSUME NEW i \in 1 .. Len(u) PROVE u[i].version = tag[l]
    BY DEF KeepsTag
  <2>1. \/ i \in 1 .. Len(s) /\ u[i] = s[i]
        \/ i - Len(s) \in 1 .. Len(t) /\ u[i] = t[i - Len(s)]
    BY <1>1 DEF Splits
  <2> QED
    BY <2>1 DEF KeepsTag
<1>3. ASSUME NEW x, Brings(s, x) PROVE Brings(u, x)
  <2>1. PICK i \in 1 .. Len(s) : x \in s[i].put
    BY <1>3 DEF Brings
  <2> QED
    BY <1>1, <2>1 DEF Splits, Brings
<1>4. ASSUME NEW x, Brings(t, x) PROVE Brings(u, x)
  <2>1. PICK i \in 1 .. Len(t) : x \in t[i].put
    BY <1>4 DEF Brings
  <2>2. Len(s) + i \in 1 .. Len(u) /\ u[Len(s) + i] = t[i]
    BY <1>1 DEF Splits
  <2> QED
    BY <2>1, <2>2 DEF Brings
<1> QED
  BY <1>1, <1>2, <1>3, <1>4 DEF u

LEMMA LambdaFrontBrings ==
    ASSUME Types, TagsKnown, NEW l \in Lambda
    PROVE  /\ LambdaFront(l) \in Seq(CallSet) /\ KeepsTag(LambdaFront(l), l)
           /\ \A p \in {"runtime", "arch"} : <<l, p>> \in parts \/ Brings(LambdaFront(l), <<l, p>>)
<1>1. l \in Resource /\ Names(l) = {"role", "runtime", "arch", "tableName", "policy", "permission"}
  BY Kinds, NamesOf
<1> DEFINE rt == When(~Has(l, "runtime"), UpdateLambdaRuntime(l))
           ar == When(~Has(l, "arch"), UpdateLambdaArchitecture(l))
           ro == When(~Has(l, "role"), UpdateLambdaRole(l))
<1>2. ASSUME NEW p \in {"runtime", "arch", "role"}, NEW s, s = When(~Has(l, p), <<Puts(l, {p})>>)
      PROVE  s \in Seq(CallSet) /\ KeepsTag(s, l) /\ (<<l, p>> \in parts \/ Brings(s, <<l, p>>))
  <2> DEFINE c == Puts(l, {p})
  <2>1. c \in CallSet /\ c.version = tag[l] /\ <<l, p>> \in c.put
    BY <1>1, Calls, OfFacts
  <2>2. CASE Has(l, p)
    <3>1. s = <<>>
      BY <1>2, <2>2 DEF When
    <3> QED
      BY <2>2, <3>1 DEF KeepsTag, Has
  <2>3. CASE ~Has(l, p)
    <3>1. s = <<c>>
      BY <1>2, <2>3 DEF When
    <3> HIDE DEF c
    <3>2. Len(s) = 1 /\ s[1] = c /\ s \in Seq(CallSet)
      BY <2>1, <3>1
    <3> QED
      BY <2>1, <3>2 DEF KeepsTag, Brings
  <2> QED
    BY <2>2, <2>3
<1>3. rt \in Seq(CallSet) /\ KeepsTag(rt, l) /\ (<<l, "runtime">> \in parts \/ Brings(rt, <<l, "runtime">>))
  BY <1>2 DEF UpdateLambdaRuntime
<1>4. ar \in Seq(CallSet) /\ KeepsTag(ar, l) /\ (<<l, "arch">> \in parts \/ Brings(ar, <<l, "arch">>))
  BY <1>2 DEF UpdateLambdaArchitecture
<1>5. ro \in Seq(CallSet) /\ KeepsTag(ro, l)
  BY <1>2 DEF UpdateLambdaRole
<1>6. LambdaFront(l) = (rt \o ar) \o ro
  BY DEF LambdaFront
<1> HIDE DEF rt, ar, ro
<1> DEFINE before == rt \o ar
<1>7. /\ before \in Seq(CallSet) /\ KeepsTag(before, l)
      /\ \A x : Brings(rt, x) \/ Brings(ar, x) => Brings(before, x)
  BY <1>3, <1>4, BringsConcat
<1> HIDE DEF before
<1>8. /\ before \o ro \in Seq(CallSet) /\ KeepsTag(before \o ro, l)
      /\ \A x : Brings(before, x) => Brings(before \o ro, x)
  BY <1>5, <1>7, BringsConcat
<1> QED
  BY <1>3, <1>4, <1>6, <1>7, <1>8 DEF before

LEMMA LambdaMakes ==
    ASSUME Types, TagsKnown, NEW l \in Lambda, NEW s \in LambdaWorks(l),
           NEW x \in LambdaParts, x[1] = l, x[2] = "tableName" => Exists(l) \/ cmd = "import",
           NEW i \in 1 .. Len(s), Counts(x, s[i].version), ~Counts(x, tag[l])
    PROVE  x \in parts \/ PutBy(s, i, x)
<1>1. x[2] \in {"arch", "runtime", "tableName"} /\ x = <<l, x[2]>> /\ l \in Resource
  BY LambdaPartsAre
<1>2. CASE ~Exists(l)
  <2> DEFINE ps == {"role", "runtime", "arch"} \union (IF cmd = "import" THEN {"tableName"} ELSE {})
             c == Call(l, target[l], Of(l, ps), {})
  <2>1. s = <<c>>
    BY <1>2 DEF LambdaWorks, CreateLambda
  <2>2. x[2] \in ps
    BY <1>1, <1>2
  <2> HIDE DEF ps
  <2>3. x \in c.put
    BY <1>1, <2>2, OfFacts DEF Call
  <2> HIDE DEF c
  <2>4. i = 1 /\ s[1] = c
    BY <2>1
  <2> QED
    BY <2>3, <2>4 DEF PutBy
<1>3. CASE Exists(l)
  <2> DEFINE front == LambdaFront(l)
             ha == When(tag[l] # target[l], UpdateLambdaHandler(l))
  <2>1. s = front \o ha
    BY <1>3 DEF LambdaWorks, UpdateLambda, LambdaFront, Exists
  <2>2. /\ front \in Seq(CallSet)
        /\ \A j \in 1 .. Len(front) : front[j].version = tag[l]
        /\ \A p \in {"runtime", "arch"} : <<l, p>> \in parts \/ Brings(front, <<l, p>>)
    BY LambdaFrontBrings DEF KeepsTag
  <2>3. ha \in Seq(CallSet)
    <3>1. {} \subseteq Names(l)
      OBVIOUS
    <3>2. Puts(l, {}) \in CallSet /\ Tags(l) \in CallSet
      BY <1>1, <3>1, Calls
    <3> QED
      BY <3>2, Tuples, WhenIsSeq DEF UpdateLambdaHandler
  <2> HIDE DEF front, ha
  <2>4. Splits(front, ha, s)
    BY <2>1, <2>2, <2>3, ConcatSplits
  <2>5. i > Len(front)
    BY <2>2, <2>4 DEF Splits
  <2>6. x[2] # "tableName"
    BY <1>3 DEF Counts, Exists
  <2>7. x \in parts \/ \E j \in 1 .. Len(front) : x \in front[j].put
    BY <1>1, <2>2, <2>6 DEF Brings
  <2>8. ASSUME NEW j \in 1 .. Len(front), x \in front[j].put PROVE PutBy(s, i, x)
    <3>1. j \in 1 .. i /\ s[j] = front[j]
      BY <2>2, <2>4, <2>5 DEF Splits
    <3> QED
      BY <2>8, <3>1 DEF PutBy
  <2> QED
    BY <2>7, <2>8
<1> QED
  BY <1>2, <1>3

(* Of the group only import and an update that finds the group get so far. *)
LEMMA UnderCluster ==
    ASSUME IInv, stack # <<>>, Top.r \notin Roots \union {"alb", "key"}
    PROVE  stack[1].r = "cluster" /\ outcome = "running" /\ cmd \in {"import", "update", "dryUpdate"}
<1>1. stack[1].r \in Roots /\ outcome = "running" /\ cmd \in {"import", "update", "dryUpdate"}
  BY DEF IInv, BInv, Position, Control
<1> DEFINE n == Len(stack)
<1>2. Top = stack[n] /\ n \in Nat \ {0}
  BY StackFacts DEF IInv
<1>3. stack[1].r # "cluster" => n <= 2 /\ (n = 2 => stack[2].r \in {"alb", "key"})
  BY <1>1, Shape DEF IInv
<1> HIDE DEF n
<1>4. n <= 2 => n = 1 \/ n = 2
  BY <1>2
<1> QED
  BY <1>1, <1>2, <1>3, <1>4

LEMMA LambdaDecided == ASSUME IInv, GroupThere, GroupKept, LambdaKept, [Next]_vars, Decided PROVE LambdaKept'
<1>1. /\ UNCHANGED <<tag, parts, target, cmd>> /\ cmd # "destroy" /\ stack # <<>> /\ Top.r \in Resource
      /\ Fine(Top.r, todo') /\ todo' \in Works(Top.r) /\ todo = <<>>
  BY DecidedFacts DEF Decided
<1>2. cut' = cut
  BY DecidedCuts
<1>3. quiet' = quiet
  <2>1. ~WorkQuietly /\ ~Proceed
    BY <1>1 DEF WorkQuietly, Proceed, Between
  <2> QED
    BY <2>1, OnlyThoseQuiet
<1> DEFINE t == todo'  r == Top.r
<1> SUFFICES ASSUME NEW x \in LambdaParts, Sure(x) PROVE (MadeWhole(x) /\ MadeBy(todo, x))'
  BY <1>2, <1>3 DEF LambdaKept, LambdaParts, Lambda, Sure
<1>4. MadeWhole(x)
  BY DEF LambdaKept
<1>5. x[1] \in Lambda /\ x[1] \notin Role \union {"gateway", "lt"} /\ x # Permission
      /\ x[1] \notin Roots \union {"alb", "key"}
  BY LambdaPartsAre, Kinds, KindsApart DEF Others, Grouping, Roots
<1>6. \A v : Counts(x, v)' <=> Counts(x, v)
  BY <1>1 DEF Counts
<1>7. ASSUME NEW i \in 1 .. Len(t) PROVE EnsureCall(r, t[i]) /\ x \notin t[i].drop
  <2>1. EnsureCall(r, t[i])
    BY <1>1 DEF Fine, InEnsure
  <2> QED
    BY <1>5, <2>1, EnsureDrops
<1>8. ASSUME NEW i \in 1 .. Len(t), t[i].r = x[1], Counts(x, t[i].version), ~Counts(x, tag[x[1]])
      PROVE  x \in parts \/ PutBy(t, i, x)
  <2>1. r = x[1]
    <3>1. t[i].version # tag[x[1]] /\ t[i] # Stop
      BY <1>8, StopIsCall DEF Counts
    <3>2. x[1] \notin Grouping \union {"alb", "gateway", "stop"}
      BY <1>5, Kinds, KindsApart DEF Others
    <3> QED
      BY <1>7, <1>8, <3>1, <3>2 DEF EnsureCall
  <2>2. t \in LambdaWorks(x[1])
    <3>1. \A l \in Lambda : Works(l) = LambdaWorks(l)
      BY Kinds, KindsApart DEF Works, RoleNames, LambdaNames, Others
    <3> QED
      BY <1>1, <1>5, <2>1, <3>1
  <2>3. x[2] = "tableName" => Exists(x[1]) \/ cmd = "import"
    <3> SUFFICES ASSUME x[2] = "tableName", cmd # "import" PROVE Exists(x[1])
      OBVIOUS
    <3>1. "destroy" \notin cut
      BY DEF Sure
    <3>2. stack[1].r = "cluster" /\ outcome = "running" /\ cmd \in {"import", "update", "dryUpdate"}
      BY <1>1, <1>5, <2>1, UnderCluster
    <3>3. Exists("asg")
      BY <1>1, <3>2 DEF GroupThere, OnCluster
    <3>4. Complete
      BY <1>1, <3>1, <3>3 DEF GroupKept, Destroying
    <3> QED
      BY <1>5, <3>4 DEF Complete
  <2> HIDE DEF t, r
  <2> QED
    BY <1>5, <1>8, <2>2, <2>3, LambdaMakes DEF IInv, BInv
<1>9. \A i \in 1 .. Len(t) : PutBy(t, i, x) <=> PutBy(todo, i, x)'
  BY DEF PutBy
<1> QED
  BY <1>1, <1>4, <1>6, <1>7, <1>8, <1>9 DEF MadeWhole, MadeBy

LEMMA LambdaProceed == ASSUME IInv, Counted, LambdaKept, [Next]_vars, Proceed PROVE LambdaKept'
<1>1. /\ outcome = "running" /\ UNCHANGED <<tag, parts, target, cmd>> /\ OfCommand(todo')
      /\ cmd # "destroy" => \A i \in 1 .. Len(todo') : todo'[i].drop = {}
  BY ProceedFacts
<1>2. cut' = cut /\ (quiet' = 0 => quiet = 0)
  BY CountedStep DEF Proceed
<1> DEFINE t == todo'
<1> SUFFICES ASSUME NEW x \in LambdaParts, Sure(x) PROVE (MadeWhole(x) /\ MadeBy(todo, x))'
  BY <1>2 DEF LambdaKept, LambdaParts, Lambda, Sure
<1>3. MadeWhole(x) /\ x[2] \in {"arch", "runtime", "tableName"} /\ x # Permission
      /\ x[1] \notin {"rule", "lt", "alb"}
  BY LambdaPartsAre DEF LambdaKept
<1>4. \A v : Counts(x, v)' <=> Counts(x, v)
  BY <1>1 DEF Counts
<1>5. ASSUME NEW i \in 1 .. Len(t), x \in t[i].drop PROVE t[i].r = x[1] /\ t[i].version = 0
  <2>1. cmd = "destroy"
    BY <1>1, <1>5
  <2> QED
    BY <1>3, <1>5, <2>1, CleanerDrops
<1>6. ASSUME NEW i \in 1 .. Len(t), t[i].r = x[1], Counts(x, t[i].version), ~Counts(x, tag[x[1]])
      PROVE  FALSE
  <2>1. t[i].version \in {0, tag[x[1]]}
    BY <1>1, <1>6 DEF OfCommand, OutsideCall
  <2> QED
    BY <1>6, <2>1 DEF Counts
<1>7. MadeBy(todo, x)'
  BY <1>1, <1>4, <1>5, <1>6 DEF MadeBy
<1> QED
  BY <1>1, <1>3, <1>4, <1>7 DEF MadeWhole

(* What a release takes away it also takes out of date. *)
LEMMA LambdaIdle ==
    ASSUME IInv, Counted, Released, LambdaKept, [Next]_vars, NothingLeft, ~Work
    PROVE  LambdaKept'
<1>1. todo' = <<>> /\ tag' = tag /\ cut \subseteq cut' /\ (quiet' = 0 => quiet = 0)
  BY CountedStep, CutGrows DEF NothingLeft
<1> SUFFICES ASSUME NEW x \in LambdaParts, Sure(x)' PROVE MadeWhole(x)'
  BY <1>1 DEF LambdaKept, LambdaParts, Lambda, MadeBy
<1>2. Sure(x) /\ MadeWhole(x)
  BY <1>1 DEF Sure, LambdaKept
<1>3. CASE ~Upgrade
  <2>1. UNCHANGED <<parts, target>>
    BY <1>3, PartsSame, TargetSame
  <2> QED
    BY <1>1, <1>2, <2>1 DEF MadeWhole, Counts
<1>4. CASE Upgrade
  <2>1. /\ target = [r \in Resource |-> 1] /\ target' = [r \in Resource |-> IF r \in Upgraded THEN 2 ELSE 1]
        /\ \A y \in parts \ parts' : \/ y[1] \in Upgraded
                                     \/ y[1] = "table"
    <3>1. target = [r \in Resource |-> 1] /\ target' = [r \in Resource |-> IF r \in Upgraded THEN 2 ELSE 1]
      BY <1>4 DEF Upgrade
    <3>2. parts' = parts \ ((UNION {Of(r, {"policy"}) : r \in Upgraded \intersect Role})
                       \union (UNION {Of(l, {"runtime", "arch"}) : l \in Upgraded \intersect Lambda})
                       \union Of("table", {"build"}))
      BY <1>4 DEF Upgrade
    <3>3. \A y \in parts \ parts' : y[1] \in Upgraded \/ y[1] = "table"
      BY <3>2, OfFacts
    <3> QED
      BY <3>1, <3>3
  <2>2. x[1] \in Resource /\ x[1] # "table" /\ tag[x[1]] \in 0 .. 2
    BY LambdaPartsAre DEF IInv, BInv, Types
  <2>3. x[2] = "tableName" => (x \in parts => x \in parts')
    <3>1. parts' \subseteq parts /\ \A y \in parts \ parts' : y[2] \in {"policy", "runtime", "arch", "build"}
      BY DEF NothingLeft
    <3> QED
      BY <3>1
  <2>4. CASE x[2] = "tableName"
    BY <1>1, <1>2, <2>3, <2>4 DEF MadeWhole, Counts
  <2>5. CASE x[2] # "tableName" /\ x[1] \in Upgraded
    <3>1. tag[x[1]] <= target[x[1]] /\ target[x[1]] = 1 /\ target'[x[1]] = 2
      BY <2>1, <2>2, <2>5 DEF Released
    <3> QED
      BY <1>1, <2>2, <2>5, <3>1 DEF MadeWhole, Counts
  <2>6. CASE x[2] # "tableName" /\ x[1] \notin Upgraded
    <3>1. target'[x[1]] = target[x[1]] /\ (x \in parts => x \in parts')
      BY <2>1, <2>2, <2>6
    <3> QED
      BY <1>1, <1>2, <3>1 DEF MadeWhole, Counts
  <2> QED
    BY <2>4, <2>5, <2>6
<1> QED
  BY <1>3, <1>4

LEMMA LambdaNext ==
    ASSUME IInv, Counted, Released, GroupThere, GroupKept, LambdaKept, [Next]_vars
    PROVE  LambdaKept'
<1>1. CASE UNCHANGED vars
  <2>1. UNCHANGED <<tag, parts, target, todo, cut, quiet>>
    BY <1>1 DEF vars, awsVars, history, bounds
  <2> QED
    BY <2>1 DEF LambdaKept, LambdaParts, Lambda, Sure, MadeWhole, MadeBy, Counts, PutBy
<1> QED
  BY <1>1, LambdaWork, LambdaQuiet, LambdaProceed, LambdaDecided, LambdaIdle, StepKinds

-----------------------------------------------------------------------------
(***************************************************************************)
(* The join lambda lets the gateway call it only when the gateway is       *)
(* complete.                                                               *)
(***************************************************************************)
Four == Of("gateway", {"deployment", "plan", "key", "planKey"})
Gated == Permission \in parts => Four \subseteq parts
Placed(x, s, i) ==
    \/ x \in parts /\ \A k \in 1 .. i : x \notin s[k].drop
    \/ \E j \in 1 .. i - 1 : x \in s[j].put /\ \A k \in j .. i : x \notin s[k].drop
GateCall(s, i) ==
    /\ s[i].drop \intersect Four # {} => Permission \in s[i].drop
    /\ Permission \in s[i].put => \A x \in Four : Placed(x, s, i)
GateCalls == \A i \in 1 .. Len(todo) : GateCall(todo, i)

LEMMA FourAre == \A x \in Four : x[1] = "gateway" /\ x[2] \in {"deployment", "plan", "key", "planKey"} /\ x \notin Old
BY OfFacts DEF Four, Old

(* What the functions of the gateway call, one after the other. *)
GatewayCalls(s, k) ==
    /\ Len(s) = k + 6
    /\ k = 3 => \A i \in 1 .. 3 : s[i] = DeleteRestApiGateway[i]
    /\ s[k + 1] = Tags("gateway")
    /\ s[k + 2] = GatewayCall("deployment") /\ s[k + 3] = GatewayCall("plan")
    /\ s[k + 4] = GatewayCall("key") /\ s[k + 5] = GatewayCall("planKey")
    /\ s[k + 6] = Puts("join", {"policy", "permission"})

LEMMA GatewayCallsAre ==
    ASSUME Types, NEW s \in GatewayWorks
    PROVE  GatewayCalls(s, 0) \/ (GatewayCalls(s, 3) /\ Policy \notin parts)
<1> DEFINE a == CreateRestApiGateway  b == AddLambdaInvokePermissions  d == DeleteRestApiGateway  m == a \o b
           p == Puts("join", {"policy", "permission"})
<1>1. a \in Seq(CallSet) /\ b \in Seq(CallSet) /\ d \in Seq(CallSet) /\ Len(d) = 3 /\ m = CreateJoinApi
  BY RemovesGateway, GatewayParts DEF CreateJoinApi
<1>2. /\ Len(a) = 5 /\ a[1] = Tags("gateway") /\ a[2] = GatewayCall("deployment") /\ a[3] = GatewayCall("plan")
      /\ a[4] = GatewayCall("key") /\ a[5] = GatewayCall("planKey")
  BY DEF CreateRestApiGateway
<1>3. Len(b) = 1 /\ b[1] = p
  BY DEF AddLambdaInvokePermissions
<1>4. s = m \/ (s = d \o m /\ Policy \notin parts)
  BY <1>1 DEF GatewayWorks, ReCreateGateway, GatewayIsCurrent, Has, Policy
<1> HIDE DEF a, b, d, p
<1>5. m \in Seq(CallSet) /\ Len(m) = 6 /\ m[6] = p /\ \A i \in 1 .. 5 : m[i] = a[i]
  <2>1. m \in Seq(CallSet) /\ Len(m) = 6 /\ \A i \in 1 .. 6 : m[i] = IF i <= 5 THEN a[i] ELSE b[i - 5]
    <3>1. /\ m \in Seq(CallSet) /\ Len(m) = Len(a) + Len(b)
          /\ \A i \in 1 .. Len(a) + Len(b) : m[i] = IF i <= Len(a) THEN a[i] ELSE b[i - Len(a)]
      BY <1>1, ConcatProperties
    <3> HIDE DEF m
    <3> QED
      BY <1>2, <1>3, <3>1
  <2> HIDE DEF m
  <2> QED
    BY <1>3, <2>1
<1> HIDE DEF m
<1>6. m[1] = a[1] /\ m[2] = a[2] /\ m[3] = a[3] /\ m[4] = a[4] /\ m[5] = a[5]
  BY <1>5
<1>7. GatewayCalls(m, 0)
  <2>1. 0 + 1 = 1 /\ 0 + 2 = 2 /\ 0 + 3 = 3 /\ 0 + 4 = 4 /\ 0 + 5 = 5 /\ 0 + 6 = 6 /\ 0 # 3
    OBVIOUS
  <2> QED
    BY <1>2, <1>5, <1>6, <2>1 DEF GatewayCalls, p
<1>8. CASE s = d \o m /\ Policy \notin parts
  <2>1. Len(s) = 9 /\ \A i \in 1 .. 9 : s[i] = IF i <= 3 THEN d[i] ELSE m[i - 3]
    <3>1. /\ Len(s) = Len(d) + Len(m)
          /\ \A i \in 1 .. Len(d) + Len(m) : s[i] = IF i <= Len(d) THEN d[i] ELSE m[i - Len(d)]
      <4>1. d \in Seq(CallSet) /\ m \in Seq(CallSet) /\ s = d \o m
        BY <1>1, <1>5, <1>8
      <4> QED
        BY <4>1, ConcatProperties
    <3> QED
      BY <1>1, <1>5, <3>1
  <2>2. \A i \in 1 .. 3 : s[i] = d[i]
    BY <2>1
  <2>3. /\ s[4] = m[1] /\ s[5] = m[2] /\ s[6] = m[3] /\ s[7] = m[4] /\ s[8] = m[5] /\ s[9] = m[6]
    BY <2>1
  <2> QED
    <3>1. 3 + 1 = 4 /\ 3 + 2 = 5 /\ 3 + 3 = 6 /\ 3 + 4 = 7 /\ 3 + 5 = 8 /\ 3 + 6 = 9
      OBVIOUS
    <3>2. GatewayCalls(s, 3)
      BY <1>2, <1>5, <1>6, <2>1, <2>2, <2>3, <3>1 DEF GatewayCalls, p, d
    <3> QED
      BY <1>8, <3>2
<1>9. s = m => GatewayCalls(s, 0)
  BY <1>7
<1> QED
  BY <1>4, <1>8, <1>9

LEMMA GatewayGates ==
    ASSUME Types, NEW s \in GatewayWorks, NEW i \in 1 .. Len(s)
    PROVE  GateCall(s, i)
<1>1. PICK k \in {0, 3} : GatewayCalls(s, k)
  BY GatewayCallsAre
<1>2. ASSUME NEW p PROVE GatewayCall(p).put = Of("gateway", {p}) /\ GatewayCall(p).drop = {}
  BY DEF GatewayCall, Call
<1>3. Tags("gateway").put = {} /\ Tags("gateway").drop = {}
      /\ Puts("join", {"policy", "permission"}).drop = {}
  BY DEF Tags, Puts, Call
<1> DEFINE d == DeleteRestApiGateway
<1>4. /\ d[1].put \subseteq Old /\ d[2].put = {} /\ d[3].put = {}
      /\ Permission \in d[1].drop
      /\ d[2].drop = Of("gateway", {"oldPlan"}) /\ d[3].drop = Of("gateway", {"oldKey"})
  BY RemovesGateway, OfFacts DEF Permission
<1> HIDE DEF d
<1>5. d[2].drop \intersect Four = {} /\ d[3].drop \intersect Four = {}
  BY <1>4, OfFacts, FourAre
<1>6. Permission \notin d[1].put \union d[2].put \union d[3].put
  BY <1>4, OfFacts DEF Permission, Old
<1>7. ASSUME NEW p PROVE Permission \notin GatewayCall(p).put
  <2> DEFINE c == GatewayCall(p)
  <2>1. c.put = Of("gateway", {p})
    BY <1>2
  <2> HIDE DEF c
  <2>2. Permission \notin c.put
    BY <2>1, OfFacts DEF Permission
  <2> QED
    BY <2>2 DEF c
<1>8. CASE i \in 1 .. k
  <2>1. i \in {1, 2, 3} /\ s[i] = d[i]
    BY <1>1, <1>8 DEF GatewayCalls, d
  <2> QED
    BY <1>4, <1>5, <1>6, <2>1 DEF GateCall
<1>9. CASE i \in k + 1 .. k + 5
  <2>1. i \in {k + 1, k + 2, k + 3, k + 4, k + 5}
    BY <1>9
  <2>2. s[i] = Tags("gateway") \/ \E p : s[i] = GatewayCall(p)
    BY <1>1, <2>1 DEF GatewayCalls
  <2>3. s[i].drop = {} /\ Permission \notin s[i].put
    BY <1>2, <1>3, <1>7, <2>2
  <2> QED
    BY <2>3 DEF GateCall
<1>10. CASE i = k + 6
  <2>1. s[i].drop = {}
    BY <1>1, <1>3, <1>10 DEF GatewayCalls
  <2>2. \A j \in k + 1 .. k + 6 : s[j].drop = {}
    <3>1. \A j \in k + 1 .. k + 6 : j \in {k + 1, k + 2, k + 3, k + 4, k + 5, k + 6}
      OBVIOUS
    <3>2. /\ s[k + 1].drop = {} /\ s[k + 2].drop = {} /\ s[k + 3].drop = {} /\ s[k + 4].drop = {} /\ s[k + 5].drop = {}
          /\ s[k + 6].drop = {}
      BY <1>1, <1>2, <1>3 DEF GatewayCalls
    <3> QED
      BY <3>1, <3>2
  <2>3. ASSUME NEW x \in Four PROVE \E j \in k + 2 .. k + 5 : x \in s[j].put
    <3>1. x \in Of("gateway", {x[2]}) /\ x[2] \in {"deployment", "plan", "key", "planKey"}
      BY OfFacts DEF Four
    <3>2. x \in GatewayCall(x[2]).put
      BY <1>2, <3>1
    <3>3. \E j \in {k + 2, k + 3, k + 4, k + 5} : s[j] = GatewayCall(x[2])
      BY <1>1, <3>1 DEF GatewayCalls
    <3> QED
      BY <3>2, <3>3
  <2>4. ASSUME NEW x \in Four PROVE Placed(x, s, i)
    <3>1. PICK j \in k + 2 .. k + 5 : x \in s[j].put
      BY <2>3
    <3>2. j \in 1 .. i - 1 /\ \A n \in j .. i : n \in k + 1 .. k + 6
      BY <1>10, <3>1
    <3> QED
      BY <2>2, <3>1, <3>2 DEF Placed
  <2> QED
    BY <2>1, <2>4 DEF GateCall
<1>11. i \in 1 .. k + 6
  BY <1>1 DEF GatewayCalls
<1> QED
  BY <1>8, <1>9, <1>10, <1>11

(* What the functions of a lambda put. *)
LambdaPart(l) == Of(l, {"role", "runtime", "arch", "tableName"})
LEMMA LambdaPuts ==
    ASSUME Types, TagsKnown, NEW l \in Lambda, NEW s \in LambdaWorks(l)
    PROVE  \A i \in 1 .. Len(s) : s[i].put \subseteq LambdaPart(l) /\ s[i].drop = {}
<1>0. l \in Resource /\ Names(l) = {"role", "runtime", "arch", "tableName", "policy", "permission"}
  BY Kinds, NamesOf
<1> DEFINE Good(c) == c.put \subseteq LambdaPart(l) /\ c.drop = {}
<1>1. CASE ~Exists(l)
  <2>1. PICK tableName \in {{"tableName"}, {}} :
          s = <<Call(l, target[l], Of(l, {"role", "runtime", "arch"} \union tableName), {})>>
    BY <1>1 DEF LambdaWorks, CreateLambda
  <2> DEFINE ps == {"role", "runtime", "arch"} \union tableName
             c == Call(l, target[l], Of(l, ps), {})
  <2>2. Good(c)
    <3>1. c.put = Of(l, ps) /\ c.drop = {} /\ ps \subseteq {"role", "runtime", "arch", "tableName"}
      BY DEF Call
    <3> HIDE DEF ps, c
    <3> QED
      BY <3>1 DEF LambdaPart, Of
  <2>3. s = <<c>>
    BY <2>1
  <2> HIDE DEF ps, c
  <2> QED
    BY <2>2, <2>3
<1>2. CASE Exists(l)
  <2>1. s = UpdateLambda(l)
    BY <1>2 DEF LambdaWorks, Exists
  <2> DEFINE rt == When(~Has(l, "runtime"), UpdateLambdaRuntime(l))
             ar == When(~Has(l, "arch"), UpdateLambdaArchitecture(l))
             ro == When(~Has(l, "role"), UpdateLambdaRole(l))
             ha == When(tag[l] # target[l], UpdateLambdaHandler(l))
  <2>2. s = ((rt \o ar) \o ro) \o ha
    BY <2>1 DEF UpdateLambda
  <2>3. ASSUME NEW ps \in SUBSET {"role", "runtime", "arch"} PROVE Puts(l, ps) \in CallSet /\ Good(Puts(l, ps))
    <3>1. ps \subseteq Names(l) /\ ps \subseteq {"role", "runtime", "arch", "tableName"}
      BY <1>0
    <3>2. Puts(l, ps).put = Of(l, ps) /\ Puts(l, ps).drop = {}
      BY DEF Puts, Call
    <3>3. Puts(l, ps) \in CallSet
      BY <1>0, <3>1, Calls
    <3>4. Of(l, ps) \subseteq LambdaPart(l)
      BY <3>1 DEF LambdaPart, Of
    <3> QED
      BY <3>2, <3>3, <3>4
  <2>4. Tags(l) \in CallSet /\ Good(Tags(l))
    <3>1. {} \subseteq Names(l)
      OBVIOUS
    <3> QED
      BY <1>0, <3>1, Calls
  <2>5. /\ Puts(l, {"runtime"}) \in CallSet /\ Puts(l, {"arch"}) \in CallSet /\ Puts(l, {"role"}) \in CallSet
        /\ Puts(l, {}) \in CallSet
        /\ Good(Puts(l, {"runtime"})) /\ Good(Puts(l, {"arch"})) /\ Good(Puts(l, {"role"})) /\ Good(Puts(l, {}))
    BY <2>3
  <2> DEFINE Fit(w) == w \in Seq(CallSet) /\ \A i \in 1 .. Len(w) : Good(w[i])
  <2> HIDE DEF Good
  <2>6. Fit(rt) /\ Fit(ar) /\ Fit(ro) /\ Fit(ha)
    BY <2>4, <2>5 DEF When, UpdateLambdaRuntime, UpdateLambdaArchitecture, UpdateLambdaRole, UpdateLambdaHandler
  <2> HIDE DEF rt, ar, ro, ha
  <2>7. ASSUME NEW v, NEW w, Fit(v), Fit(w) PROVE Fit(v \o w)
    <3> DEFINE u == v \o w
    <3>1. /\ u \in Seq(CallSet)
          /\ \A i \in 1 .. Len(u) :
            \/ i \in 1 .. Len(v) /\ u[i] = v[i]
            \/ i > Len(v) /\ i - Len(v) \in 1 .. Len(w) /\ u[i] = w[i - Len(v)]
      BY <2>7, ConcatFacts
    <3> HIDE DEF u
    <3>2. Fit(u)
      BY <2>7, <3>1
    <3> QED
      BY <3>2 DEF u
  <2> HIDE DEF Fit
  <2>8. Fit(s)
    BY <2>2, <2>6, <2>7
  <2> QED
    BY <2>8 DEF Fit, Good
<1> QED
  BY <1>1, <1>2

(* The first of the calls is done: what was to be placed still is. *)
LEMMA PlacedTail ==
    ASSUME todo \in Seq(CallSet), todo # <<>>, NEW t, t = Tail(todo), NEW x, NEW q,
           NEW i \in 1 .. Len(t), Placed(x, todo, i + 1),
           x \in todo[1].put => x \in q,
           x \in parts /\ x \notin todo[1].drop => x \in q
    PROVE  \/ x \in q /\ \A k \in 1 .. i : x \notin t[k].drop
           \/ \E j \in 1 .. i - 1 : x \in t[j].put /\ \A k \in j .. i : x \notin t[k].drop
<1>1. /\ Len(t) \in Nat
      /\ \A k \in 1 .. Len(t) : k + 1 \in 1 .. Len(todo) /\ t[k] = todo[k + 1]
  BY TodoTail
<1>2. ASSUME x \in parts, \A k \in 1 .. i + 1 : x \notin todo[k].drop
      PROVE  x \in q /\ \A k \in 1 .. i : x \notin t[k].drop
  <2>1. 1 \in 1 .. i + 1 /\ \A k \in 1 .. i : k + 1 \in 1 .. i + 1 /\ k \in 1 .. Len(t)
    BY <1>1
  <2> QED
    BY <1>1, <1>2, <2>1
<1>3. ASSUME NEW j \in 1 .. i, x \in todo[j].put, \A k \in j .. i + 1 : x \notin todo[k].drop
      PROVE  \/ x \in q /\ \A k \in 1 .. i : x \notin t[k].drop
             \/ \E n \in 1 .. i - 1 : x \in t[n].put /\ \A k \in n .. i : x \notin t[k].drop
  <2>1. CASE j = 1
    <3>1. \A k \in 1 .. i : k + 1 \in j .. i + 1 /\ k \in 1 .. Len(t)
      BY <1>1, <2>1
    <3> QED
      BY <1>1, <1>3, <2>1, <3>1
  <2>2. CASE j # 1
    <3> DEFINE n == j - 1
    <3>1. /\ n \in 1 .. i - 1 /\ n \in 1 .. Len(t) /\ n + 1 = j
          /\ \A k \in n .. i : k + 1 \in j .. i + 1 /\ k \in 1 .. Len(t)
      BY <1>1, <2>2
    <3> HIDE DEF n
    <3>2. x \in t[n].put /\ \A k \in n .. i : x \notin t[k].drop
      BY <1>1, <1>3, <3>1
    <3> QED
      BY <3>1, <3>2
  <2> QED
    BY <2>1, <2>2
<1>4. i + 1 - 1 = i
  OBVIOUS
<1> QED
  BY <1>2, <1>3, <1>4 DEF Placed

LEMMA GateMoves ==
    ASSUME IInv, Gated, GateCalls, todo # <<>>, todo' = Tail(todo),
           \A x \in Four : (x \in todo[1].put => x \in parts') /\ (x \in parts /\ x \notin todo[1].drop => x \in parts'),
           Permission \in parts' => \/ Permission \in todo[1].put
                                    \/ Permission \in parts /\ todo[1].drop \intersect Four = {}
    PROVE  Gated' /\ GateCalls'
<1> DEFINE t == todo'  q == parts'
<1>1. todo \in Seq(CallSet) /\ t = Tail(todo) /\ 1 \in 1 .. Len(todo)
      /\ \A i \in 1 .. Len(t) : i + 1 \in 1 .. Len(todo) /\ t[i] = todo[i + 1]
  <2>1. todo \in Seq(CallSet)
    BY DEF IInv, BInv, Types
  <2> QED
    BY <2>1, TodoTail
<1>2. /\ \A x \in Four : (x \in todo[1].put => x \in q) /\ (x \in parts /\ x \notin todo[1].drop => x \in q)
      /\ Permission \in q => \/ Permission \in todo[1].put
                             \/ Permission \in parts /\ todo[1].drop \intersect Four = {}
  OBVIOUS
<1> HIDE DEF t, q
<1>3. Permission \in q => Four \subseteq q
  <2>1. ASSUME Permission \in todo[1].put, NEW x \in Four PROVE x \in q
    <3>1. Placed(x, todo, 1)
      BY <1>1, <2>1 DEF GateCalls, GateCall
    <3>2. x \in parts /\ x \notin todo[1].drop
      BY <3>1 DEF Placed
    <3> QED
      BY <1>2, <3>2
  <2>2. ASSUME Permission \in parts, todo[1].drop \intersect Four = {}, NEW x \in Four PROVE x \in q
    BY <1>2, <2>2 DEF Gated
  <2> QED
    BY <1>2, <2>1, <2>2
<1>4. ASSUME NEW i \in 1 .. Len(t)
      PROVE  /\ t[i].drop \intersect Four # {} => Permission \in t[i].drop
             /\ Permission \in t[i].put => \A x \in Four :
                    \/ x \in q /\ \A k \in 1 .. i : x \notin t[k].drop
                    \/ \E j \in 1 .. i - 1 : x \in t[j].put /\ \A k \in j .. i : x \notin t[k].drop
  <2>1. GateCall(todo, i + 1) /\ t[i] = todo[i + 1]
    BY <1>1 DEF GateCalls
  <2>2. ASSUME Permission \in t[i].put, NEW x \in Four
        PROVE  \/ x \in q /\ \A k \in 1 .. i : x \notin t[k].drop
               \/ \E j \in 1 .. i - 1 : x \in t[j].put /\ \A k \in j .. i : x \notin t[k].drop
    <3>1. Placed(x, todo, i + 1)
      BY <2>1, <2>2 DEF GateCall
    <3>2. (x \in todo[1].put => x \in q) /\ (x \in parts /\ x \notin todo[1].drop => x \in q)
      BY <1>2, <2>2
    <3>3. todo \in Seq(CallSet) /\ todo # <<>> /\ t = Tail(todo)
      BY <1>1
    <3> QED
      BY <3>1, <3>2, <3>3, PlacedTail
  <2> QED
    BY <2>1, <2>2 DEF GateCall
<1>5. Gated'
  BY <1>3 DEF Gated, Permission, Four, Of, q
<1>6. GateCalls'
  BY <1>4 DEF GateCalls, GateCall, Placed, Permission, Four, Of, t, q
<1> QED
  BY <1>5, <1>6

LEMMA GateWork == ASSUME IInv, Gated, GateCalls, Work PROVE Gated' /\ GateCalls'
<1>1. /\ todo # <<>> /\ todo' = Tail(todo) /\ 1 \in 1 .. Len(todo)
      /\ parts' = (parts \ todo[1].drop) \union todo[1].put
  BY WorkFacts DEF IInv
<1>2. todo[1].drop \intersect Four # {} => Permission \in todo[1].drop
  BY <1>1 DEF GateCalls, GateCall
<1> QED
  BY <1>1, <1>2, GateMoves

LEMMA GateQuiet == ASSUME IInv, Gated, GateCalls, WorkQuietly PROVE Gated' /\ GateCalls'
<1>1. /\ todo # <<>> /\ todo' = Tail(todo) /\ ErrorIgnored(todo[1]) /\ todo[1].drop = {} /\ parts' = parts
  BY QuietFacts DEF IInv
<1>2. \A y \in todo[1].put : y[2] \in {"alias", "runtime"}
  <2>1. todo[1].put = Of("key", {"alias"}) \/ \E l \in Lambda : todo[1].put = Of(l, {"runtime"})
    BY <1>1 DEF ErrorIgnored
  <2> QED
    BY <2>1, OfFacts
<1>3. \A x \in Four : x \notin todo[1].put
  BY <1>2, FourAre
<1> QED
  BY <1>1, <1>3, GateMoves

LEMMA GateIdle == ASSUME Gated, NothingLeft PROVE Gated' /\ GateCalls'
<1>1. todo' = <<>> /\ parts' \subseteq parts /\ \A x \in parts \ parts' : x[2] \in {"policy", "runtime", "arch", "build"}
  BY DEF NothingLeft
<1>2. \A x \in Four : x \in parts => x \in parts'
  BY <1>1, FourAre
<1>3. Gated'
  BY <1>1, <1>2 DEF Gated, Permission, Four, Of
<1> QED
  BY <1>1, <1>3 DEF GateCalls

LEMMA GateSame ==
    ASSUME Gated, parts' = parts, NEW t, t = todo', \A i \in 1 .. Len(t) : GateCall(t, i)
    PROVE  Gated' /\ GateCalls'
<1>1. Gated'
  BY DEF Gated, Permission, Four, Of
<1>2. GateCalls'
  BY DEF GateCalls, GateCall, Placed, Permission, Four, Of
<1> QED
  BY <1>1, <1>2

LEMMA FarFromGate ==
    ASSUME NEW s, \A i \in 1 .. Len(s) : s[i].drop \intersect Four = {} /\ Permission \notin s[i].put
    PROVE  \A i \in 1 .. Len(s) : GateCall(s, i)
BY DEF GateCall

LEMMA GateDecided == ASSUME IInv, Gated, Decided PROVE Gated' /\ GateCalls'
<1> DEFINE t == todo'  r == Top.r
<1>1. Fine(r, t) /\ t \in Works(r) /\ parts' = parts
  BY DecidedFacts
<1> HIDE DEF t, r
<1>2. Types /\ TagsKnown
  BY DEF IInv, BInv
<1>3. \A i \in 1 .. Len(t) : GateCall(t, i)
  <2>1. CASE r = "gateway"
    <3>1. "gateway" \notin Role \union Lambda
      BY Kinds, KindsApart DEF Others
    <3>2. t \in GatewayWorks
      BY <1>1, <2>1, <3>1 DEF Works
    <3> QED
      BY <1>2, <3>2, GatewayGates
  <2>2. CASE r # "gateway"
    <3>1. ASSUME NEW i \in 1 .. Len(t) PROVE t[i].drop \intersect Four = {} /\ Permission \notin t[i].put
      <4>1. EnsureCall(r, t[i])
        BY <1>1 DEF Fine, InEnsure
      <4>2. \A x \in t[i].put \union t[i].drop : x[1] \in Touched(r)
        BY <4>1, EnsureDrops
      <4>3. "gateway" \in Touched(r) => FALSE
        BY <2>2 DEF Touched
      <4>4. t[i].drop \intersect Four = {}
        BY <4>2, <4>3, FourAre
      <4>5. ASSUME Permission \in t[i].put PROVE FALSE
        <5>1. "join" \in Touched(r)
          BY <4>2, <4>5 DEF Permission
        <5>2. r = "join"
          BY <2>2, <5>1 DEF Touched
        <5>3. "join" \notin Role /\ "join" \in Lambda
          BY Kinds, KindsApart
        <5>4. t \in LambdaWorks("join")
          BY <1>1, <5>2, <5>3 DEF Works
        <5>5. t[i].put \subseteq LambdaPart("join")
          BY <1>2, <5>3, <5>4, LambdaPuts
        <5> QED
          BY <4>5, <5>5, OfFacts DEF LambdaPart, Permission
      <4> QED
        BY <4>4, <4>5
    <3> QED
      BY <3>1, FarFromGate
  <2> QED
    BY <2>1, <2>2
<1> QED
  BY <1>1, <1>3, GateSame DEF t

(* The cleaner of the gateway. *)
LEMMA GatewayCleaner ==
    ASSUME IInv, Proceed, cmd = "destroy", NEW i \in 1 .. Len(todo'), todo'[i].r = "gateway"
    PROVE  todo' = DeleteRestApiGateway /\ Head(plan) = "gateway"
<1> DEFINE t == todo'
<1>1. outcome = "running" /\ stack = <<>> /\ todo = <<>> /\ plan # <<>> /\ Keeps(Head(plan), t) /\ t \in Seq(CallSet)
  BY ProceedFacts
<1>2. PICK left : t \in Steps(Head(plan), Listing(Head(plan), left))
  BY DEF Proceed
<1>3. i \in 1 .. Len(t) /\ t[i].r = "gateway"
  OBVIOUS
<1> HIDE DEF t
<1>4. "gateway" \in About(Head(plan))
  BY <1>1, <1>3 DEF Keeps
<1>5. Head(plan) \in Clean
  BY <1>1, HeadKinds DEF IInv
<1>6. Head(plan) = "gateway"
  <2>1. "gateway" \notin Role \union Lambda
    BY Kinds, KindsApart DEF Others
  <2> QED
    BY <1>4, <1>5, <2>1, CleanedIs DEF Clean
<1>7. t = When(Exists("gateway"), DeleteRestApiGateway)
  BY <1>2, <1>6 DEF Steps
<1>8. t # <<>>
  BY <1>3
<1>9. t = DeleteRestApiGateway
  BY <1>7, <1>8 DEF When
<1> QED
  BY <1>6, <1>9 DEF t

LEMMA GateProceed == ASSUME IInv, Gated, Proceed PROVE Gated' /\ GateCalls'
<1> DEFINE t == todo'
<1>1. /\ parts' = parts /\ OfCommand(t) /\ t \in Seq(CallSet)
      /\ cmd # "destroy" => \A i \in 1 .. Len(t) : t[i].r \in {"table", "asg"} /\ t[i].drop = {}
  BY ProceedFacts
<1>2. CASE cmd # "destroy"
  <2> HIDE DEF t
  <2>1. ASSUME NEW i \in 1 .. Len(t) PROVE t[i].drop \intersect Four = {} /\ Permission \notin t[i].put
    <3>1. OutsideCall(t[i])
      BY <1>1 DEF OfCommand
    <3>2. \A x \in t[i].put : x[1] = t[i].r
      BY <1>2, <3>1, OutsideDrops
    <3> QED
      BY <1>1, <1>2, <3>2 DEF Permission
  <2>2. \A i \in 1 .. Len(t) : GateCall(t, i)
    BY <2>1, FarFromGate
  <2> QED
    BY <1>1, <2>2, GateSame DEF t
<1>3. CASE cmd = "destroy"
  <2>1. ASSUME NEW i \in 1 .. Len(t) PROVE GateCall(t, i)
    <3>1. OutsideCall(t[i])
      BY <1>1 DEF OfCommand
    <3>2. Permission \notin t[i].put
      <4>1. Permission \notin Old \union Of("rule", {"stale"})
        BY OfFacts DEF Old, Permission
      <4> QED
        BY <1>3, <3>1, <4>1, OutsideDrops
    <3>3. ASSUME NEW x \in t[i].drop, x \in Four PROVE Permission \in t[i].drop
      <4>1. t[i].r = "gateway"
        BY <1>3, <3>3, CleanerDrops, FourAre
      <4>2. t = DeleteRestApiGateway
        BY <1>3, <4>1, GatewayCleaner
      <4> DEFINE d == DeleteRestApiGateway
      <4>3. /\ Len(d) = 3 /\ Permission \in d[1].drop
            /\ d[2].drop = Of("gateway", {"oldPlan"}) /\ d[3].drop = Of("gateway", {"oldKey"})
        <5>1. Types
          BY DEF IInv, BInv
        <5> QED
          BY <5>1, RemovesGateway, OfFacts DEF Permission
      <4> HIDE DEF d
      <4>4. x \notin d[2].drop /\ x \notin d[3].drop
        BY <3>3, <4>3, OfFacts, FourAre
      <4>5. i \in 1 .. 3 /\ x \in d[i].drop /\ t[i] = d[i]
        BY <3>3, <4>2, <4>3 DEF d
      <4> HIDE DEF t
      <4>6. i = 1
        BY <4>4, <4>5
      <4> QED
        BY <4>3, <4>5, <4>6
    <3> QED
      BY <3>2, <3>3 DEF GateCall
  <2> HIDE DEF t
  <2> QED
    BY <1>1, <2>1, GateSame DEF t
<1> QED
  BY <1>2, <1>3

LEMMA GateNext == ASSUME IInv, Gated, GateCalls, [Next]_vars PROVE Gated' /\ GateCalls'
<1>1. CASE UNCHANGED vars
  <2>1. UNCHANGED <<parts, todo>>
    BY <1>1 DEF vars, awsVars
  <2>2. \A i \in 1 .. Len(todo) : GateCall(todo, i)
    BY DEF GateCalls
  <2> QED
    BY <2>1, <2>2, GateSame
<1> QED
  BY <1>1, GateWork, GateQuiet, GateIdle, GateDecided, GateProceed, StepKinds

-----------------------------------------------------------------------------
(***************************************************************************)
(* What is in place, or will be when the calls that remain are made.       *)
(***************************************************************************)
In(x) == x \in parts \/ Brings(todo, x)

LEMMA BringsTail ==
    ASSUME NEW s \in Seq(CallSet), s # <<>>, NEW x, Brings(s, x)
    PROVE  x \in s[1].put \/ Brings(Tail(s), x)
<1>1. PICK i \in 1 .. Len(s) : x \in s[i].put
  BY DEF Brings
<1>2. i = 1 \/ (i - 1 \in 1 .. Len(Tail(s)) /\ Tail(s)[i - 1] = s[i])
  BY TodoTail
<1> QED
  BY <1>1, <1>2 DEF Brings

LEMMA InWork == ASSUME IInv, Work, NEW x, In(x), x \notin todo[1].drop PROVE In(x)'
<1>1. todo \in Seq(CallSet) /\ todo # <<>> /\ todo' = Tail(todo) /\ parts' = (parts \ todo[1].drop) \union todo[1].put
  BY WorkFacts DEF IInv
<1>2. x \in parts' \/ Brings(todo', x)
  BY <1>1, BringsTail DEF In
<1> QED
  BY <1>2 DEF In, Brings

LEMMA InQuiet ==
    ASSUME IInv, WorkQuietly, NEW x, In(x), x[2] \notin {"alias", "runtime"}
    PROVE  In(x)'
<1>1. todo \in Seq(CallSet) /\ todo # <<>> /\ todo' = Tail(todo) /\ parts' = parts /\ ErrorIgnored(todo[1])
  BY QuietFacts DEF IInv
<1>2. x \notin todo[1].put
  <2>1. todo[1].put = Of("key", {"alias"}) \/ \E l \in Lambda : todo[1].put = Of(l, {"runtime"})
    BY <1>1 DEF ErrorIgnored
  <2> QED
    BY <2>1, OfFacts
<1>3. x \in parts' \/ Brings(todo', x)
  BY <1>1, <1>2, BringsTail DEF In
<1> QED
  BY <1>3 DEF In, Brings

LEMMA InSame == ASSUME UNCHANGED <<parts, todo>>, NEW x, In(x) PROVE In(x)'
BY DEF In, Brings

LEMMA InIdle == ASSUME todo = <<>>, NEW x, In(x), parts' = parts PROVE x \in parts /\ In(x)'
BY DEF In, Brings

(***************************************************************************)
(* The group is attached to the target group once the host group is        *)
(* ensured, in a dry run too.                                              *)
(***************************************************************************)
TG == <<"asg", "targetGroup">>
Attached ==
    /\ "hostgroup" \in visited => TG \in parts
    /\ stack # <<>> /\ Top.r = "hostgroup" /\ Top.step \in {"work", "return"} => In(TG)

LEMMA AttachedFresh ==
    ASSUME visited' = {}, stack' # <<>> => Top'.step = "subresources"
    PROVE  Attached'
BY DEF Attached

LEMMA AttachedKept ==
    ASSUME Attached, UNCHANGED <<visited, parts>>, stack' # <<>> => Top'.step = "subresources"
    PROVE  Attached'
BY DEF Attached, TG

LEMMA AttachedSteps == ASSUME IInv, Attached, Descend \/ Worked \/ Return \/ Finish \/ Fetch PROVE Attached'
<1>1. CASE Descend
  BY <1>1, DescendsAnew, AttachedKept DEF Descend, awsVars
<1>2. CASE Worked
  <2>1. stack # <<>> /\ Top.step = "work" /\ todo = <<>> /\ Decide("return") /\ UNCHANGED <<visited, parts, todo>>
    BY <1>2 DEF Worked, At, awsVars
  <2>2. Top'.r = Top.r
    BY <2>1, DecideFacts DEF IInv
  <2>3. Top.r = "hostgroup" => In(TG)'
    BY <2>1, InSame DEF Attached
  <2> QED
    BY <2>1, <2>2, <2>3 DEF Attached, TG
<1>3. CASE Return
  <2>1. /\ stack # <<>> /\ Top.step = "return" /\ visited' = visited \union {Top.r} /\ parts' = parts /\ todo = <<>>
    BY <1>3 DEF Return, At, awsVars
  <2>2. stack' # <<>> => Top'.step = "subresources"
    BY <1>3, ReturnsToLoop
  <2>3. "hostgroup" \in visited' => TG \in parts
    BY <2>1, InIdle DEF Attached
  <2> QED
    BY <2>1, <2>2, <2>3 DEF Attached, TG
<1>4. CASE Finish
  BY <1>4, AttachedKept DEF Finish, Between, awsVars, ensureVars
<1>5. CASE Fetch
  <2>1. stack # <<>> /\ UNCHANGED <<visited, parts>>
    BY <1>5 DEF Fetch, At, awsVars
  <2> DEFINE r == Top.r
  <2>2. \/ (todo' \in Works(r) /\ Decide("work"))
        \/ ((IF dry THEN r \notin Grouping ELSE MayLeave(r)) /\ Decide("return"))
    BY <1>5 DEF Fetch
  <2>3. Top'.r = r
    BY <2>1, <2>2, DecideFacts DEF IInv
  <2>4. r = "hostgroup" => Works(r) = {AttachTargetGroup} /\ r \in Grouping
    <3>1. "hostgroup" \notin Role \union Lambda \union {"sm", "rule", "gateway", "lt", "asg", "alb", "key", "table"}
      BY Kinds, KindsApart DEF Others, Grouping
    <3> QED
      BY <3>1 DEF Works, Grouping
  <2> HIDE DEF r
  <2>5. ASSUME r = "hostgroup" PROVE todo' = AttachTargetGroup
    BY <2>2, <2>4, <2>5 DEF MayLeave
  <2>6. Brings(AttachTargetGroup, TG)
    <3> DEFINE c == Call("hostgroup", 0, Of("asg", {"targetGroup"}), {})
    <3>1. TG \in c.put
      BY OfFacts DEF Call, TG
    <3>2. AttachTargetGroup = <<c>>
      BY DEF AttachTargetGroup
    <3> HIDE DEF c
    <3> QED
      BY <3>1, <3>2 DEF Brings
  <2>7. r = "hostgroup" => In(TG)'
    BY <2>5, <2>6 DEF In, Brings, TG
  <2> QED
    BY <2>1, <2>3, <2>7 DEF Attached, TG
<1> QED
  BY <1>1, <1>2, <1>3, <1>4, <1>5

LEMMA AttachedNext == ASSUME IInv, Attached, [Next]_vars PROVE Attached'
<1>1. CASE Proceed
  <2>1. stack' = <<>> /\ UNCHANGED <<visited, parts>>
    BY <1>1, ProceedFacts
  <2> QED
    BY <2>1, AttachedKept
<1>2. CASE UNCHANGED vars
  <2>1. UNCHANGED <<visited, parts, stack, todo>>
    BY <1>2 DEF vars, awsVars, ensureVars
  <2> QED
    BY <2>1 DEF Attached, In, Brings, TG, Top
<1>3. CASE Work
  <2>1. 1 \in 1 .. Len(todo) /\ parts' = (parts \ todo[1].drop) \union todo[1].put /\ UNCHANGED <<stack, visited, cmd>>
    BY <1>3, WorkFacts DEF IInv
  <2>2. CASE cmd = "destroy"
    <3>1. stack = <<>> /\ visited = {}
      BY <2>2 DEF IInv, BInv, Control
    <3> QED
      BY <2>1, <3>1, AttachedFresh
  <2>3. CASE cmd # "destroy"
    <3>1. TG \notin todo[1].drop
      <4>1. "asg" \notin Role
        BY Kinds, KindsApart DEF Others
      <4> QED
        BY <2>1, <2>3, <4>1, AnyCall DEF TG, Permission
    <3>2. TG \in parts => TG \in parts'
      BY <2>1, <3>1
    <3>3. In(TG) => In(TG)'
      BY <1>3, <3>1, InWork
    <3>4. Top' = Top
      BY <2>1 DEF Top
    <3> QED
      BY <2>1, <3>2, <3>3, <3>4 DEF Attached, TG
  <2> QED
    BY <2>2, <2>3
<1>4. CASE WorkQuietly
  <2>1. UNCHANGED <<stack, visited, parts>>
    BY <1>4, QuietFacts DEF IInv
  <2>2. In(TG) => In(TG)'
    BY <1>4, InQuiet DEF TG
  <2>3. Top' = Top
    BY <2>1 DEF Top
  <2> QED
    BY <2>1, <2>2, <2>3 DEF Attached, TG
<1> QED
  BY <1>1, <1>2, <1>3, <1>4, AttachedSteps, AttachedFresh, CommandsFresh DEF Next

-----------------------------------------------------------------------------
(***************************************************************************)
(* What the steps of a plan save is there when the plan is past them.      *)
(***************************************************************************)
Build == <<"table", "build">>
Instances == <<"asg", "instances">>
Elb == <<"asg", "elb">>
Updates == {"update", "dryUpdate"}
Reached(K, x, n) == outcome \in {"running", "ok"} /\ cmd \in K /\ Len(plan) <= n => In(x)

SavedParts == {Credentials, Setting, Build, Instances, Elb}
Serves(K, x, n) ==
    /\ outcome = "running" /\ plan # <<>> /\ cmd \in K /\ Len(plan) = n + 1 =>
          Head(plan) \notin Roots /\ (Proceed => In(x)')
    /\ UpdateCluster /\ outcome' = "running" /\ K = Updates /\ Len(plan') <= n => In(x)'

LEMMA SavedPartsAre ==
    ASSUME NEW x \in SavedParts
    PROVE  x[1] \in {"table", "asg"} /\ x[2] \notin {"alias", "runtime"} /\ x # Permission
BY DEF SavedParts, Credentials, Setting, Build, Instances, Elb, Permission

LEMMA ReachedNext ==
    ASSUME IInv, [Next]_vars, NEW K \in {{"import"}, Updates}, NEW n \in 0 .. 4, NEW x \in SavedParts,
           Reached(K, x, n), Serves(K, x, n)
    PROVE  Reached(K, x, n)'
<1>10. x[1] \in {"table", "asg"} /\ x[2] \notin {"alias", "runtime"} /\ x # Permission
  BY SavedPartsAre
<1> SUFFICES ASSUME outcome' \in {"running", "ok"}, cmd' \in K, Len(plan') <= n PROVE In(x)'
  BY DEF Reached
<1>1. CASE ImportCluster
  <2>1. cmd' = "import" /\ plan' = ImportPlan /\ Len(ImportPlan) = 6
    BY <1>1 DEF ImportCluster, Begins, ImportPlan
  <2> QED
    BY <2>1
<1>2. CASE UpdateCluster
  BY <1>2 DEF UpdateCluster, Refused, Begins, Updates, Serves
<1>3. CASE Destroy \/ Upgrade
  BY <1>3 DEF Destroy, Upgrade, Refused, Begins, Updates
<1>4. CASE CleanerStuck \/ FetchStuck \/ WorkStops \/ Abort
  BY <1>4 DEF CleanerStuck, FetchStuck, WorkStops, Abort, Ends
<1>5. CASE Ensure \/ Proceed
  <2>1. /\ outcome = "running" /\ todo = <<>> /\ plan # <<>> /\ plan' = Tail(plan) /\ UNCHANGED <<cmd, parts>>
        /\ Ensure => Head(plan) \in Roots
    BY <1>5 DEF Ensure, Proceed, Between, awsVars
  <2>2. Len(plan) \in Nat \ {0} /\ Len(plan') = Len(plan) - 1
    <3>1. BInv
      BY DEF IInv
    <3>2. Len(plan) \in Nat \ {0} /\ Len(Tail(plan)) = Len(plan) - 1
      BY <2>1, <3>1, PlanFacts, Zenon
    <3> QED
      BY <2>1, <3>2, Zenon
  <2>3. CASE Len(plan) = n + 1
    BY <1>5, <2>1, <2>3 DEF Serves
  <2>4. CASE Len(plan) <= n
    <3>1. In(x)
      BY <2>1, <2>4 DEF Reached
    <3> QED
      BY <2>1, <3>1, InIdle
  <2> QED
    BY <2>2, <2>3, <2>4
<1>6. CASE Finish \/ Descend \/ Fetch \/ Worked \/ Return
  <2>1. todo = <<>> /\ UNCHANGED <<parts, cmd, plan>> /\ outcome \in {"running", "ok"}
    BY <1>6 DEF Finish, Descend, Fetch, Worked, Return, At, Between, awsVars
  <2> QED
    BY <2>1, InIdle DEF Reached
<1>7. CASE Work
  <2>1. 1 \in 1 .. Len(todo) /\ UNCHANGED <<outcome, cmd, plan>>
    BY <1>7, WorkFacts DEF IInv
  <2>2. x \notin todo[1].drop
    <3>1. cmd # "destroy" /\ {"table", "asg"} \intersect (Role \union {"gateway", "lt"}) = {}
      BY <2>1, Kinds, KindsApart DEF Others, Updates
    <3> QED
      BY <1>10, <2>1, <3>1, AnyCall
  <2> QED
    BY <1>7, <2>1, <2>2, InWork DEF Reached
<1>8. CASE WorkQuietly
  BY <1>8, <1>10, InQuiet, QuietFacts DEF IInv, Reached
<1>9. CASE UNCHANGED vars
  BY <1>9, InSame DEF vars, awsVars, Reached
<1> QED
  BY <1>1, <1>2, <1>3, <1>4, <1>5, <1>6, <1>7, <1>8, <1>9 DEF Next

(* The calls that save. *)
LEMMA SavesBring ==
    /\ Brings(SaveCredentials, Credentials)
    /\ Brings(SaveClusterSettings, Setting) /\ Brings(SaveClusterSettings, Build)
    /\ Brings(AttachInstancesToASG, Instances)
    /\ Elb \in parts \/ Brings(AttachLoadBalancer, Elb)
<1>1. ASSUME NEW r, NEW ps, NEW p \in ps PROVE Brings(<<Puts(r, ps)>>, <<r, p>>)
  <2> DEFINE c == Puts(r, ps)
  <2>1. <<r, p>> \in c.put
    BY OfFacts DEF Puts, Call
  <2> HIDE DEF c
  <2>2. Brings(<<c>>, <<r, p>>)
    BY <2>1 DEF Brings
  <2> QED
    BY <2>2 DEF c
<1>2. Elb \in parts \/ Brings(AttachLoadBalancer, Elb)
  <2> DEFINE c == Puts("asg", {"elb"})  d == Puts("asg", {"healthCheck"})
  <2>1. Elb \in c.put
    BY OfFacts DEF Puts, Call, Elb
  <2>2. Elb \in parts \/ AttachLoadBalancer = <<c, d>>
    BY DEF AttachLoadBalancer, When, Has, Elb
  <2> HIDE DEF c, d
  <2> QED
    BY <2>1, <2>2 DEF Brings
<1> QED
  BY <1>1, <1>2 DEF SaveCredentials, SaveClusterSettings, AttachInstancesToASG, Credentials, Setting, Build, Instances

LEMMA BringsIn == ASSUME NEW x, parts' = parts, x \in parts \/ Brings(todo', x) PROVE In(x)'
BY DEF In, Brings

Saved ==
    /\ Reached({"import"}, Credentials, 4)
    /\ Reached({"import"}, Setting, 3) /\ Reached({"import"}, Build, 3)
    /\ Reached({"import"}, Instances, 1)
    /\ Reached({"import"}, Elb, 0)
    /\ Reached(Updates, Setting, 3)
    /\ Reached(Updates, Build, 2)

LEMMA SavedNext == ASSUME IInv, Saved, [Next]_vars PROVE Saved'
<1>1. ASSUME outcome = "running", plan # <<>>
      PROVE  /\ cmd = "import" => /\ Len(plan) = 5 => Head(plan) = "credentials"
                                  /\ Len(plan) = 4 => Head(plan) = "settings"
                                  /\ Len(plan) = 2 => Head(plan) = "attach"
                                  /\ Len(plan) = 1 => Head(plan) = "loadBalancer"
             /\ cmd \in Updates => Len(plan) <= 3 /\ (Len(plan) = 3 => Head(plan) = "migrate")
             /\ {"credentials", "settings", "attach", "loadBalancer", "migrate"} \intersect Roots = {}
  <2>1. cmd = "import" => Head(plan) = ImportPlan[7 - Len(plan)] /\ Len(plan) \in 1 .. 6
    BY <1>1, PlanFacts DEF IInv
  <2>2. cmd \in Updates => Len(plan) \in 1 .. 3 /\ (Len(plan) = 3 => Head(plan) = "migrate")
    BY <1>1, PlanFacts DEF IInv, Updates
  <2>3. /\ ImportPlan[7 - 5] = "credentials" /\ ImportPlan[7 - 4] = "settings" /\ ImportPlan[7 - 2] = "attach"
        /\ ImportPlan[7 - 1] = "loadBalancer"
    <3>1. 7 - 5 = 2 /\ 7 - 4 = 3 /\ 7 - 2 = 5 /\ 7 - 1 = 6
      OBVIOUS
    <3> QED
      BY <3>1 DEF ImportPlan
  <2>4. {"credentials", "settings", "attach", "loadBalancer", "migrate"} \intersect Roots = {}
    BY DEF Roots
  <2> DEFINE n == Len(plan)
  <2>5. cmd = "import" => Head(plan) = ImportPlan[7 - n]
    BY <2>1
  <2> HIDE DEF n
  <2>6. cmd = "import" => /\ n = 5 => Head(plan) = "credentials"
                          /\ n = 4 => Head(plan) = "settings"
                          /\ n = 2 => Head(plan) = "attach"
                          /\ n = 1 => Head(plan) = "loadBalancer"
    BY <2>3, <2>5
  <2>7. cmd \in Updates => n <= 3
    <3>1. cmd \in Updates => n \in 1 .. 3
      BY <2>2 DEF n
    <3> QED
      BY <3>1
  <2> QED
    BY <2>2, <2>4, <2>6, <2>7 DEF n
<1>2. ASSUME Proceed
      PROVE  /\ parts' = parts
             /\ Head(plan) = "credentials" => todo' = SaveCredentials
             /\ Head(plan) \in {"settings", "migrate"} => todo' = SaveClusterSettings
             /\ Head(plan) = "attach" => todo' = AttachInstancesToASG
             /\ Head(plan) = "loadBalancer" => todo' = AttachLoadBalancer
  BY <1>2, ProceedFacts DEF Proceed, Steps
<1>3. /\ Proceed /\ Head(plan) = "credentials" => In(Credentials)'
      /\ Proceed /\ Head(plan) \in {"settings", "migrate"} => In(Setting)' /\ In(Build)'
      /\ Proceed /\ Head(plan) = "attach" => In(Instances)'
      /\ Proceed /\ Head(plan) = "loadBalancer" => In(Elb)'
  BY <1>2, SavesBring, BringsIn
<1>4. {Credentials, Setting, Build, Instances, Elb} \subseteq SavedParts
  BY DEF SavedParts
<1>5. ASSUME UpdateCluster, outcome' = "running"
      PROVE  In(Setting)' /\ (Len(plan') <= 2 => In(Build)')
  <2>1. /\ parts' = parts /\ Setting \in parts
        /\ plan' = When(Build \notin parts, <<"migrate">>) \o <<"table", IF Exists("asg") THEN "cluster" ELSE "bare">>
    BY <1>5 DEF UpdateCluster, Refused, Begins, GetClusterFails, Has, Setting, Build, awsVars
  <2>2. Build \notin parts => Len(plan') = 3
    BY <2>1 DEF When
  <2> QED
    BY <2>1, <2>2, BringsIn
<1> DEFINE Imports == {"import"}
<1>6. Imports # Updates /\ Imports \in {{"import"}, Updates} /\ (cmd \in Imports => cmd = "import")
      /\ Updates \in {{"import"}, Updates}
  BY DEF Updates
<1> HIDE DEF Imports
<1>7. /\ 0 + 1 = 1 /\ 1 + 1 = 2 /\ 2 + 1 = 3 /\ 3 + 1 = 4 /\ 4 + 1 = 5 /\ {0, 1, 2, 3, 4} \subseteq 0 .. 4 /\ ~(4 <= 3)
  OBVIOUS
<1>8. /\ Serves(Imports, Credentials, 4) /\ Serves(Imports, Setting, 3) /\ Serves(Imports, Build, 3)
      /\ Serves(Imports, Instances, 1) /\ Serves(Imports, Elb, 0)
  BY <1>1, <1>3, <1>6, <1>7 DEF Serves
<1>9. Serves(Updates, Setting, 3)
  BY <1>1, <1>5, <1>7 DEF Serves
<1>10. Serves(Updates, Build, 2)
  BY <1>1, <1>3, <1>5, <1>7 DEF Serves
<1>11. /\ Reached(Imports, Credentials, 4)
       /\ Reached(Imports, Setting, 3) /\ Reached(Imports, Build, 3)
       /\ Reached(Imports, Instances, 1)
       /\ Reached(Imports, Elb, 0)
       /\ Reached(Updates, Setting, 3)
       /\ Reached(Updates, Build, 2)
  BY DEF Saved, Imports
<1>12. /\ Reached(Imports, Credentials, 4)' /\ Reached(Imports, Setting, 3)' /\ Reached(Imports, Build, 3)'
       /\ Reached(Imports, Instances, 1)' /\ Reached(Imports, Elb, 0)'
       /\ Reached(Updates, Setting, 3)' /\ Reached(Updates, Build, 2)'
  BY <1>4, <1>6, <1>7, <1>8, <1>9, <1>10, <1>11, ReachedNext
<1> QED
  BY <1>12 DEF Saved, Updates, Credentials, Setting, Build, Instances, Elb, Imports

(***************************************************************************)
(* A table with settings has credentials.                                  *)
(***************************************************************************)
CreditCall(c) == Credentials \in c.drop => c.r = "table" /\ c.version = 0
Credited ==
    /\ In(Setting) => Credentials \in parts
    /\ \A i \in 1 .. Len(todo) : CreditCall(todo[i])

(* Works of the table put none of its items. *)
LEMMA TablePuts ==
    ASSUME NEW s \in DynamoDbWorks, NEW i \in 1 .. Len(s)
    PROVE  s[i].put = {}
<1> DEFINE c == Tags("table")  d == Call("table", target["table"], {}, {})
<1>1. c.put = {} /\ d.put = {} /\ Stop.put = {}
  BY DEF Tags, Call, Stop
<1>2. s \in {<<c>>, <<Stop>>, <<c, d>>, <<c, Stop>>}
  BY DEF DynamoDbWorks, CreateDb, UpdateDb
<1> HIDE DEF c, d
<1> QED
  BY <1>1, <1>2

LEMMA CreditedSame ==
    ASSUME parts' = parts, NEW t, t = todo', Setting \in parts \/ Brings(t, Setting) => Credentials \in parts,
           \A i \in 1 .. Len(t) : CreditCall(t[i])
    PROVE  Credited'
BY DEF Credited, CreditCall, In, Brings, Setting, Credentials

LEMMA CreditedWork == ASSUME IInv, Credited, Work PROVE Credited'
<1> DEFINE t == todo'
<1>1. /\ todo \in Seq(CallSet) /\ todo # <<>> /\ t = Tail(todo) /\ 1 \in 1 .. Len(todo)
      /\ parts' = (parts \ todo[1].drop) \union todo[1].put
  BY WorkFacts DEF IInv
<1>2. \A i \in 1 .. Len(t) : i + 1 \in 1 .. Len(todo) /\ t[i] = todo[i + 1]
  BY <1>1, TodoTail
<1> HIDE DEF t
<1>3. \A i \in 1 .. Len(t) : CreditCall(t[i])
  BY <1>2 DEF Credited
<1>4. ASSUME Setting \in parts' \/ Brings(t, Setting) PROVE Credentials \in parts'
  <2>1. Brings(t, Setting) => Brings(todo, Setting)
    BY <1>2 DEF Brings
  <2>2. Setting \in todo[1].put => Brings(todo, Setting)
    BY <1>1 DEF Brings
  <2>3. In(Setting)
    BY <1>1, <1>4, <2>1, <2>2 DEF In
  <2>4. ASSUME Credentials \in todo[1].drop PROVE FALSE
    <3>1. todo[1].r = "table" /\ todo[1].version = 0
      BY <1>1, <2>4 DEF Credited, CreditCall
    <3>2. cmd = "destroy"
      <4>1. "table" \notin Role \union {"gateway", "lt"}
        BY Kinds, KindsApart DEF Others
      <4> QED
        BY <1>1, <2>4, <4>1, AnyCall DEF Credentials, Permission
    <3>3. \A i \in 1 .. Len(todo) : Setting \notin todo[i].put
      <4>1. Setting \notin Old \union Of("rule", {"stale"})
        BY OfFacts DEF Setting, Old
      <4> QED
        BY <3>2, <4>1, AnyCall
    <3>4. Setting \in parts
      BY <2>3, <3>3 DEF In, Brings
    <3>5. Setting \in todo[1].drop
      <4>1. stack = <<>>
        BY <1>1, <3>2, AnyCall
      <4>2. Clears(todo)
        BY <4>1 DEF IInv, BInv, Pending, OfCommand, Both
      <4>3. "table" \notin Grouping \union {"alb", "stop"}
        BY KindsApart DEF Others
      <4>4. Setting \in PartsOf("table") /\ Setting \notin Old
        BY <3>4, OfFacts DEF PartsOf, Setting, Old
      <4>5. \E j \in 1 .. 1 : Setting \in todo[j].drop
        BY <1>1, <3>1, <4>2, <4>3, <4>4 DEF Clears
      <4> QED
        BY <4>5
    <3>6. ~Brings(t, Setting) /\ Setting \notin parts'
      BY <1>1, <2>1, <3>3, <3>5 DEF Brings
    <3> QED
      BY <1>4, <3>6
  <2> QED
    BY <1>1, <2>3, <2>4 DEF Credited
<1> QED
  BY <1>3, <1>4 DEF Credited, CreditCall, In, Brings, Setting, Credentials, t

LEMMA CreditedQuiet == ASSUME IInv, Credited, WorkQuietly PROVE Credited'
<1> DEFINE t == todo'
<1>1. todo \in Seq(CallSet) /\ todo # <<>> /\ t = Tail(todo) /\ parts' = parts
  BY QuietFacts DEF IInv
<1>2. \A i \in 1 .. Len(t) : i + 1 \in 1 .. Len(todo) /\ t[i] = todo[i + 1]
  BY <1>1, TodoTail
<1> HIDE DEF t
<1>3. Brings(t, Setting) => Brings(todo, Setting)
  BY <1>2 DEF Brings
<1>4. \A i \in 1 .. Len(t) : CreditCall(t[i])
  BY <1>2 DEF Credited
<1> QED
  BY <1>1, <1>3, <1>4, CreditedSame DEF Credited, In, t

LEMMA CreditedDecided == ASSUME IInv, Credited, Decided PROVE Credited'
<1> DEFINE t == todo'  r == Top.r
<1>1. Fine(r, t) /\ t \in Works(r) /\ parts' = parts
  BY DecidedFacts
<1> HIDE DEF t, r
<1>2. "table" \notin Role \union Lambda \union {"gateway", "lt", "sm", "rule", "asg", "alb", "key"}
  BY Kinds, KindsApart DEF Others
<1>3. ASSUME NEW i \in 1 .. Len(t) PROVE Credentials \notin t[i].drop /\ Setting \notin t[i].put
  <2>1. EnsureCall(r, t[i])
    BY <1>1 DEF Fine, InEnsure
  <2>2. Credentials \notin t[i].drop
    BY <1>2, <2>1, EnsureDrops DEF Credentials, Permission
  <2>3. ASSUME Setting \in t[i].put PROVE FALSE
    <3>1. r = "table"
      BY <2>1, <2>3, EnsureDrops DEF Touched, Setting
    <3>2. t \in DynamoDbWorks
      BY <1>1, <1>2, <3>1 DEF Works
    <3> QED
      BY <2>3, <3>2, TablePuts
  <2> QED
    BY <2>2, <2>3
<1>4. Setting \in parts => Credentials \in parts
  BY DEF Credited, In
<1> QED
  BY <1>1, <1>3, <1>4, CreditedSame DEF CreditCall, Brings, t

LEMMA CreditedProceed == ASSUME IInv, Saved, Credited, Proceed PROVE Credited'
<1> DEFINE t == todo'
<1>1. /\ outcome = "running" /\ stack = <<>> /\ todo = <<>> /\ plan # <<>> /\ parts' = parts /\ OfCommand(t)
      /\ cmd # "destroy" => \A i \in 1 .. Len(t) : t[i].drop = {}
  BY ProceedFacts
<1>2. Setting \in parts => Credentials \in parts
  BY DEF Credited, In
<1>3. CASE cmd = "destroy"
  <2>1. ASSUME NEW i \in 1 .. Len(t), Credentials \in t[i].drop PROVE t[i].r = "table" /\ t[i].version = 0
    BY <1>3, <2>1, CleanerDrops DEF Credentials, Permission
  <2> HIDE DEF t
  <2>2. ASSUME NEW i \in 1 .. Len(t) PROVE Setting \notin t[i].put
    <3>1. Setting \notin Old \union Of("rule", {"stale"})
      BY OfFacts DEF Setting, Old
    <3>2. OutsideCall(t[i])
      BY <1>1 DEF OfCommand
    <3> QED
      BY <1>3, <3>1, <3>2, OutsideDrops
  <2> QED
    BY <1>1, <1>2, <2>1, <2>2, CreditedSame DEF CreditCall, Brings, t
<1>4. CASE cmd # "destroy"
  <2>1. ASSUME Brings(t, Setting) PROVE Credentials \in parts
    <3>1. Head(plan) \in Saves \union Attaches
      <4>1. Head(plan) \in StepName /\ Head(plan) \notin Roots
        BY <1>1, PlanFacts DEF IInv, Proceed
      <4>2. cmd \in {"import", "update", "dryUpdate"}
        BY <1>1, <1>4, PlanFacts DEF IInv
      <4> QED
        BY <1>1, <4>1, <4>2, PlanFacts DEF IInv, StepName, ImportPlan, Saves, Attaches, Roots
    <3>2. ASSUME NEW r, NEW ps, <<r, ps>> \in {<<"table", {"credentials"}>>, <<"asg", {"instances"}>>,
                                                <<"asg", {"elb"}>>, <<"asg", {"healthCheck"}>>}
          PROVE  Setting \notin Puts(r, ps).put
      <4> DEFINE c == Puts(r, ps)
      <4>1. c.put = Of(r, ps)
        BY DEF Puts, Call
      <4> HIDE DEF c
      <4>2. Setting \notin c.put
        BY <3>2, <4>1, OfFacts DEF Setting
      <4> QED
        BY <4>2 DEF c
    <3>3. Head(plan) \in {"settings", "migrate"}
      <4> SUFFICES ASSUME Head(plan) \in {"credentials", "attach", "loadBalancer"} PROVE FALSE
        BY <3>1 DEF Saves, Attaches
      <4> DEFINE a == Puts("table", {"credentials"})  b == Puts("asg", {"instances"})
                 c == Puts("asg", {"elb"})  d == Puts("asg", {"healthCheck"})
      <4>1. Setting \notin a.put /\ Setting \notin b.put /\ Setting \notin c.put /\ Setting \notin d.put
        BY <3>2
      <4>2. t \in {<<a>>, <<b>>, <<c, d>>, <<>>}
        BY DEF Proceed, Steps, SaveCredentials, AttachInstancesToASG, AttachLoadBalancer, When
      <4> HIDE DEF a, b, c, d, t
      <4> QED
        BY <2>1, <4>1, <4>2 DEF Brings
    <3>4. CASE Head(plan) = "settings"
      <4>1. cmd = "import" /\ Len(plan) = 4
        <5>1. cmd \in Updates => Head(plan) \in {"migrate", "table", "cluster", "bare"}
          <6>1. cmd \in Updates => Len(plan) \in {1, 2, 3}
            BY <1>1, PlanLengths DEF IInv, Updates
          <6> QED
            BY <1>1, <6>1, PlanFacts DEF IInv, Updates
        <5>2. cmd = "import"
          BY <1>1, <1>4, <3>4, <5>1, PlanFacts DEF IInv, Updates
        <5>3. Len(plan) \in {1, 2, 3, 4, 5, 6}
          BY <1>1, <5>2, PlanLengths DEF IInv
        <5>4. "settings" \notin Attaches
          BY DEF Attaches
        <5> QED
          BY <1>1, <3>4, <5>2, <5>3, <5>4, HeadKinds DEF IInv
      <4>2. In(Credentials)
        BY <1>1, <4>1 DEF Saved, Reached
      <4> QED
        BY <1>1, <4>2 DEF In, Brings
    <3>5. CASE Head(plan) = "migrate"
      <4>1. cmd \in Updates /\ Len(plan) <= 3
        <5>1. cmd # "import"
          BY <1>1, <3>5, PlanFacts DEF IInv, ImportPlan
        <5>2. cmd \in Updates
          BY <1>1, <1>4, <5>1, PlanFacts DEF IInv, Updates
        <5> DEFINE n == Len(plan)
        <5>3. n \in {1, 2, 3}
          BY <1>1, <5>2, PlanLengths DEF IInv, Updates
        <5> HIDE DEF n
        <5>4. n <= 3
          BY <5>3
        <5> QED
          BY <5>2, <5>4 DEF n
      <4>2. In(Setting)
        BY <1>1, <4>1 DEF Saved, Reached
      <4> QED
        BY <4>2 DEF Credited
    <3> QED
      BY <3>3, <3>4, <3>5
  <2> HIDE DEF t
  <2> QED
    BY <1>1, <1>2, <1>4, <2>1, CreditedSame DEF CreditCall, t
<1> QED
  BY <1>3, <1>4

LEMMA CreditedNext == ASSUME IInv, Saved, Credited, [Next]_vars PROVE Credited'
<1>1. CASE NothingLeft
  <2>1. todo' = <<>> /\ parts' \subseteq parts /\ (Credentials \in parts => Credentials \in parts')
    BY <1>1 DEF NothingLeft, Credentials
  <2>2. Setting \in parts' => Credentials \in parts'
    BY <2>1 DEF Credited, In
  <2> QED
    BY <2>1, <2>2 DEF Credited, In, Brings, Setting, Credentials
<1>2. CASE UNCHANGED vars
  <2>1. UNCHANGED <<parts, todo>>
    BY <1>2 DEF vars, awsVars
  <2> QED
    BY <2>1, CreditedSame DEF Credited, In
<1> QED
  BY <1>1, <1>2, CreditedWork, CreditedQuiet, CreditedDecided, CreditedProceed, StepKinds

-----------------------------------------------------------------------------
(***************************************************************************)
(* The second halves of NeverRepaired.  Without faults each is in place or *)
(* to be put there, or its resource is not there, will not be there or is  *)
(* of another version; and the health check, which import sets when it     *)
(* attaches the load balancer, waits for that.                             *)
(***************************************************************************)
Faultless == aborts = 0 /\ quiet = 0
HealthCheck == <<"asg", "healthCheck">>
SecondHalves == {<<r, "policy">> : r \in Role} \union {<<"key", "alias">>, <<"asg", "suspended">>}
HalfParts == SecondHalves \union {HealthCheck}
Due(x, v) == v # 0 /\ (x[2] = "policy" => v = target[x[1]])
Unstopped(s) == \A i \in 1 .. Len(s) : s[i] # Stop
PutForGood(x, s) == \E i \in 1 .. Len(s) : x \in s[i].put /\ \A j \in i .. Len(s) : x \notin s[j].drop
RemovedForGood(x, s) ==
    \E i \in 1 .. Len(s) : s[i].r = x[1] /\ s[i].version = 0 /\ \A j \in i .. Len(s) : s[j].r = x[1] => s[j].version = 0
Staying(x, s) == x \in parts /\ \A j \in 1 .. Len(s) : x \notin s[j].drop
NotDue(x, s) == ~Due(x, tag[x[1]]) /\ \A j \in 1 .. Len(s) : s[j].r = x[1] => ~Due(x, s[j].version)
Spared(x, s) == IF x = HealthCheck THEN Elb \notin parts /\ ~Brings(s, Elb) ELSE NotDue(x, s)
Half(x, s) ==
    \/ Unstopped(s) /\ (PutForGood(x, s) \/ RemovedForGood(x, s))
    \/ Staying(x, s)
    \/ Spared(x, s)
HalvesMade == Faultless => \A x \in HalfParts : Half(x, todo)

LEMMA HalfPartsAre ==
    ASSUME NEW x \in HalfParts
    PROVE  /\ x[1] \in Role \union {"key", "asg"} /\ x[1] \in Resource
           /\ x[1] \notin Grouping \union {"alb", "gateway", "join", "stop", "lt", "rule", "hostgroup"}
           /\ x[2] \in {"policy", "alias", "suspended", "healthCheck"} /\ x = <<x[1], x[2]>>
           /\ x \notin Old /\ x # Permission
           /\ x[2] = "policy" <=> x[1] \in Role
           /\ x[1] = "key" => x = <<"key", "alias">>
           /\ x[1] = "asg" => x \in {HealthCheck, <<"asg", "suspended">>}
<1>1. x[1] \in Role \union {"key", "asg"} /\ x = <<x[1], x[2]>> /\ x[2] \in {"policy", "alias", "suspended", "healthCheck"}
      /\ (x[2] = "policy" <=> x[1] \in Role)
      /\ (x[1] = "key" => x = <<"key", "alias">>)
      /\ (x[1] = "asg" => x \in {HealthCheck, <<"asg", "suspended">>})
  <2>1. "key" \notin Role /\ "asg" \notin Role
    BY Kinds, KindsApart DEF Others
  <2> QED
    BY <2>1 DEF HalfParts, SecondHalves, HealthCheck
<1>2. x[1] \in Resource /\ x[1] \notin Grouping \union {"alb", "gateway", "join", "stop", "lt", "rule", "hostgroup"}
  <2>1. "hostgroup" \in Grouping /\ "join" \in LambdaNames
    BY DEF Grouping, LambdaNames
  <2> QED
    BY <1>1, <2>1, Kinds, KindsApart DEF Others
<1>3. x \notin Old /\ x # Permission
  BY <1>2, OfFacts DEF Old, Permission
<1> QED
  BY <1>1, <1>2, <1>3

LEMMA HalfSame ==
    ASSUME UNCHANGED <<tag, parts, target>>, NEW t, t = todo', \A x \in HalfParts : Half(x, t)
    PROVE  HalvesMade'
BY DEF HalvesMade, HalfParts, SecondHalves, Role, RoleUser, Lambda, HealthCheck, Half, Unstopped, PutForGood, RemovedForGood, Staying,
       NotDue, Spared, Due, Brings, Elb, Faultless

LEMMA HalfWork == ASSUME IInv, HalvesMade, Work, [Next]_vars PROVE HalvesMade'
<1> DEFINE t == todo'
<1>1. /\ todo \in Seq(CallSet) /\ todo # <<>> /\ t = Tail(todo) /\ 1 \in 1 .. Len(todo)
      /\ parts' = (parts \ todo[1].drop) \union todo[1].put
      /\ \A r \in Resource : tag'[r] = IF r = todo[1].r THEN todo[1].version ELSE tag[r]
      /\ UNCHANGED target
  BY WorkFacts DEF IInv
<1>2. /\ Len(todo) \in Nat \ {0} /\ Len(t) = Len(todo) - 1
      /\ \A i \in 1 .. Len(t) : i + 1 \in 1 .. Len(todo) /\ t[i] = todo[i + 1]
      /\ \A j \in 1 .. Len(todo) : j = 1 \/ (j - 1 \in 1 .. Len(t) /\ t[j - 1] = todo[j])
  BY <1>1, TodoTail
<1>3. Owned' /\ \A i \in 1 .. Len(t) : PutOwned(todo[i])'
  <2>1. BInv'
    BY NextStep DEF IInv
  <2>2. Pending' /\ Owned'
    BY <2>1 DEF BInv
  <2>3. Both(todo)'
    BY <2>2 DEF Pending, OfCommand, InEnsure
  <2> QED
    BY <2>2, <2>3 DEF Both
<1>9. HalfParts' = HalfParts /\ (Faultless' => Faultless)
  BY DEF HalfParts, SecondHalves, HealthCheck, Role, RoleUser, Lambda, Faultless, Work, bounds
<1> HIDE DEF t
<1> SUFFICES ASSUME Faultless, NEW x \in HalfParts PROVE Half(x, todo)'
  BY <1>9 DEF HalvesMade, t
<1>4. x[1] \in Resource /\ x[1] \notin Grouping \union {"alb", "hostgroup", "rule"} /\ Half(x, todo)
  BY HalfPartsAre DEF HalvesMade
<1>5. ASSUME Unstopped(todo) PROVE Unstopped(todo)'
  <2>1. \A i \in 1 .. Len(t) : t[i] # Stop
    BY <1>2, <1>5 DEF Unstopped
  <2>2. Stop' = Stop
    BY DEF Stop, Call
  <2> QED
    BY <2>1, <2>2 DEF Unstopped, t
<1>6. ASSUME Unstopped(todo), PutForGood(x, todo) PROVE Half(x, todo)'
  <2>1. PICK i \in 1 .. Len(todo) : x \in todo[i].put /\ \A j \in i .. Len(todo) : x \notin todo[j].drop
    BY <1>6 DEF PutForGood
  <2>2. CASE i = 1
    <3>1. x \in parts' /\ \A j \in 1 .. Len(t) : x \notin t[j].drop
      BY <1>1, <1>2, <2>1, <2>2
    <3>2. Staying(x, todo)'
      BY <3>1 DEF Staying, t
    <3> QED
      BY <3>2 DEF Half
  <2>3. CASE i # 1
    <3> DEFINE k == i - 1
    <3>1. k \in 1 .. Len(t) /\ t[k] = todo[i]
      BY <1>2, <2>3
    <3>2. \A j \in k .. Len(t) : j \in 1 .. Len(t) /\ j + 1 \in i .. Len(todo) /\ t[j] = todo[j + 1]
      BY <1>2, <3>1
    <3> HIDE DEF k
    <3>3. PutForGood(x, todo)'
      BY <2>1, <3>1, <3>2 DEF PutForGood, t
    <3> QED
      BY <1>5, <1>6, <3>3 DEF Half
  <2> QED
    BY <2>2, <2>3
<1>7. ASSUME Unstopped(todo), RemovedForGood(x, todo) PROVE Half(x, todo)'
  <2>1. PICK i \in 1 .. Len(todo) : todo[i].r = x[1] /\ todo[i].version = 0
                                    /\ \A j \in i .. Len(todo) : todo[j].r = x[1] => todo[j].version = 0
    BY <1>7 DEF RemovedForGood
  <2>2. CASE i = 1
    <3>1. tag'[x[1]] = 0 /\ \A j \in 1 .. Len(t) : t[j].r = x[1] => t[j].version = 0
      BY <1>1, <1>2, <1>4, <2>1, <2>2
    <3>2. CASE x # HealthCheck
      <4>1. NotDue(x, todo)'
        BY <3>1 DEF NotDue, Due, t
      <4> QED
        BY <3>2, <4>1 DEF Half, Spared, HealthCheck
    <3>3. CASE x = HealthCheck
      <4>1. x[1] = "asg" /\ Elb[1] = "asg" /\ Elb \notin Old
        BY <3>3, OfFacts DEF HealthCheck, Elb, Old
      <4>2. ~Exists("asg")'
        BY <3>1, <4>1 DEF Exists
      <4>3. Elb \notin parts'
        <5>1. \A y \in parts' : y[1] = "alb" \/ y \in Old \/ tag'[y[1]] # 0
          BY <1>3 DEF Owned, Exists, Old, Of
        <5> QED
          BY <3>1, <4>1, <5>1
      <4>4. ASSUME NEW j \in 1 .. Len(t), Elb \in t[j].put PROVE FALSE
        <5>1. PutOwned(todo[j])' /\ t[j] = todo'[j]
          BY <1>3 DEF t
        <5>2. \A y \in t[j].put : \/ y[1] = "alb" \/ y \in Old
                                  \/ y[1] = t[j].r /\ t[j].version # 0
                                  \/ t[j].r = "hostgroup" /\ tag'[y[1]] # 0
                                  \/ t[j].r \in Role' /\ y[1] = "rule"
          BY <5>1 DEF PutOwned, Exists, Old, Of
        <5> QED
          BY <3>1, <4>1, <4>4, <5>2
      <4>5. ~Brings(todo, Elb)'
        BY <4>4 DEF Brings, t, Elb
      <4>6. Elb' = Elb /\ HealthCheck' = HealthCheck
        BY DEF Elb, HealthCheck
      <4>7. Spared(x, todo)'
        BY <3>3, <4>3, <4>5, <4>6 DEF Spared
      <4> QED
        BY <4>7 DEF Half
    <3> QED
      BY <3>2, <3>3
  <2>3. CASE i # 1
    <3> DEFINE k == i - 1
    <3>1. k \in 1 .. Len(t) /\ t[k] = todo[i]
      BY <1>2, <2>3
    <3>2. \A j \in k .. Len(t) : j \in 1 .. Len(t) /\ j + 1 \in i .. Len(todo) /\ t[j] = todo[j + 1]
      BY <1>2, <3>1
    <3> HIDE DEF k
    <3>3. RemovedForGood(x, todo)'
      BY <2>1, <3>1, <3>2 DEF RemovedForGood, t
    <3> QED
      BY <1>5, <1>7, <3>3 DEF Half
  <2> QED
    BY <2>2, <2>3
<1>8. CASE Staying(x, todo)
  <2>1. x \in parts' /\ \A j \in 1 .. Len(t) : x \notin t[j].drop
    BY <1>1, <1>2, <1>8 DEF Staying
  <2>2. Staying(x, todo)'
    BY <2>1 DEF Staying, t
  <2> QED
    BY <2>2 DEF Half
<1>10. CASE Spared(x, todo)
  <2>1. CASE x = HealthCheck
    <3>1. Elb \notin parts /\ ~Brings(todo, Elb)
      BY <1>10, <2>1 DEF Spared
    <3>2. Elb \notin parts' /\ \A j \in 1 .. Len(t) : Elb \notin t[j].put
      BY <1>1, <1>2, <3>1 DEF Brings
    <3>3. Spared(x, todo)'
      BY <2>1, <3>2 DEF Spared, Brings, Elb, HealthCheck, t
    <3> QED
      BY <3>3 DEF Half
  <2>2. CASE x # HealthCheck
    <3>1. NotDue(x, todo)
      BY <1>10, <2>2 DEF Spared
    <3>2. ~Due(x, tag'[x[1]]) /\ \A j \in 1 .. Len(t) : t[j].r = x[1] => ~Due(x, t[j].version)
      BY <1>1, <1>2, <1>4, <3>1 DEF NotDue
    <3>3. NotDue(x, todo)'
      BY <1>1, <3>2 DEF NotDue, Due, t
    <3> QED
      BY <2>2, <3>3 DEF Half, Spared, HealthCheck
  <2> QED
    BY <2>1, <2>2
<1> QED
  BY <1>4, <1>6, <1>7, <1>8, <1>10 DEF Half

(* A step that leaves what is there and makes new calls. *)
LEMMA HalfBefore ==
    ASSUME HalvesMade, Faultless, todo = <<>>, NEW x \in HalfParts
    PROVE  x \in parts \/ (IF x = HealthCheck THEN Elb \notin parts ELSE ~Due(x, tag[x[1]]))
BY DEF HalvesMade, Half, PutForGood, RemovedForGood, Staying, Spared, NotDue

LEMMA PutSecond ==
    ASSUME NEW x, NEW a, NEW b, x \in b.put, x \notin b.drop, a.r # "stop", b.r # "stop"
    PROVE  /\ Half(x, <<a, b>>)
           /\ \A c : x \notin c.drop /\ c.r # "stop" => Half(x, <<a, b, c>>)
<1>1. \A y : y.r # "stop" => y # Stop
  BY DEF Stop, Call
<1>2. Half(x, <<a, b>>)
  <2> DEFINE s == <<a, b>>
  <2>1. Len(s) = 2 /\ s[1] = a /\ s[2] = b
    OBVIOUS
  <2> HIDE DEF s
  <2>2. Unstopped(s)
    <3>1. \A i \in 1 .. Len(s) : s[i] = a \/ s[i] = b
      BY <2>1
    <3> QED
      BY <1>1, <3>1 DEF Unstopped
  <2>3. 2 \in 1 .. Len(s) /\ \A j \in 2 .. Len(s) : s[j] = b
    BY <2>1
  <2>4. PutForGood(x, s)
    BY <2>1, <2>3 DEF PutForGood
  <2> QED
    BY <2>2, <2>4 DEF Half, s
<1>3. ASSUME NEW c, x \notin c.drop, c.r # "stop" PROVE Half(x, <<a, b, c>>)
  <2> DEFINE s == <<a, b, c>>
  <2>1. Len(s) = 3 /\ s[1] = a /\ s[2] = b /\ s[3] = c
    OBVIOUS
  <2> HIDE DEF s
  <2>2. Unstopped(s)
    <3>1. \A i \in 1 .. Len(s) : s[i] = a \/ s[i] = b \/ s[i] = c
      BY <2>1
    <3> QED
      BY <1>1, <1>3, <3>1 DEF Unstopped
  <2>3. 2 \in 1 .. Len(s) /\ \A j \in 2 .. Len(s) : s[j] = b \/ s[j] = c
    BY <2>1
  <2>4. PutForGood(x, s)
    BY <1>3, <2>1, <2>3 DEF PutForGood
  <2> QED
    BY <2>2, <2>4 DEF Half, s
<1> QED
  BY <1>2, <1>3

(* EnsureResource makes both halves. *)
LEMMA HalfWorks ==
    ASSUME Types, NEW x \in HalfParts, NEW t,
           \/ x[1] \in Role /\ t \in RoleWorks(x[1])
           \/ x = <<"key", "alias">> /\ t \in KmsWorks
           \/ x = <<"asg", "suspended">> /\ t \in AutoScalingGroupWorks /\ ~Exists("asg")
    PROVE  Half(x, t)
<1>1. x[1] # "stop" /\ x = <<x[1], x[2]>> /\ (x[1] \in Role => x[2] = "policy")
  BY HalfPartsAre
<1>2. CASE x[1] \in Role /\ t \in RoleWorks(x[1])
  <2> DEFINE r == x[1]
             a == Tags(r)  b == Call(r, target[r], Of(r, {"policy"}), {})
             c == Drops(r, {"policy"})  d == Puts(r, {"policy"})
  <2>1. /\ a.r = r /\ b.r = r /\ c.r = r /\ d.r = r
        /\ x \in b.put /\ b.drop = {} /\ x \in d.put /\ d.drop = {} /\ a.drop = {}
    BY <1>1, <1>2, OfFacts DEF Tags, Call, Drops, Puts
  <2>2. t \in {<<a, b>>, <<c, d, a>>}
    BY <1>2 DEF RoleWorks, CreateIamRole, UpdateRolePolicy
  <2> HIDE DEF a, b, c, d
  <2>3. Half(x, <<a, b>>)
    BY <1>1, <2>1, PutSecond
  <2>4. Half(x, <<c, d, a>>)
    BY <1>1, <2>1, PutSecond
  <2> QED
    BY <2>2, <2>3, <2>4
<1>3. CASE x = <<"key", "alias">> /\ t \in KmsWorks
  <2> DEFINE a == Tags("key")  b == Call("key", target["key"], Of("key", {"alias"}), {})
  <2>1. a.r # "stop" /\ b.r # "stop" /\ x \in b.put /\ b.drop = {}
    BY <1>3, OfFacts DEF Tags, Call
  <2>2. t = <<a, b>>
    BY <1>3 DEF KmsWorks, CreateKMSKey
  <2> HIDE DEF a, b
  <2> QED
    BY <2>1, <2>2, PutSecond
<1>4. CASE x = <<"asg", "suspended">> /\ t \in AutoScalingGroupWorks /\ ~Exists("asg")
  <2> DEFINE a == Tags("asg")  b == Call("asg", target["asg"], Of("asg", {"suspended"}), {})
  <2>1. a.r # "stop" /\ b.r # "stop" /\ x \in b.put /\ b.drop = {}
    BY <1>4, OfFacts DEF Tags, Call
  <2>2. t = <<a, b>>
    BY <1>4 DEF AutoScalingGroupWorks, CreateAutoScalingGroup
  <2> HIDE DEF a, b
  <2> QED
    BY <2>1, <2>2, PutSecond
<1> QED
  BY <1>2, <1>3, <1>4

(* Nor does EnsureResource put the classic load balancer. *)
LEMMA NoElbEnsured ==
    ASSUME IInv, Decided, NEW i \in 1 .. Len(todo')
    PROVE  Elb \notin todo'[i].put
<1> DEFINE t == todo'  r == Top.r
<1>1. Fine(r, t) /\ t \in Works(r)
  BY DecidedFacts
<1> HIDE DEF t, r
<1>2. SUFFICES ASSUME Elb \in t[i].put PROVE FALSE
  BY DEF t
<1>3. i \in 1 .. Len(t)
  BY DEF t
<1>4. EnsureCall(r, t[i])
  BY <1>1, <1>3 DEF Fine, InEnsure
<1>5. "asg" \in Touched(r)
  BY <1>2, <1>4, EnsureDrops DEF Elb
<1>6. r = "asg" \/ r = "hostgroup"
  BY <1>5 DEF Touched
<1>7. CASE r = "hostgroup"
  <2>1. "hostgroup" \in Grouping /\ "hostgroup" \notin Role /\ "hostgroup" \notin {"alb", "gateway", "stop", "asg", "join", "table"}
    BY Kinds, KindsApart DEF Grouping
  <2>2. t[i].put \subseteq Of("asg", {"targetGroup"})
    BY <1>2, <1>4, <1>7, <2>1, StopIsCall DEF EnsureCall
  <2> QED
    BY <1>2, <2>2, OfFacts DEF Elb
<1>8. CASE r = "asg"
  <2>1. "asg" \notin Role \union Lambda
    BY Kinds, KindsApart DEF Others
  <2>2. t \in AutoScalingGroupWorks
    BY <1>1, <1>8, <2>1 DEF Works
  <2> DEFINE a == Tags("asg")  b == Call("asg", target["asg"], Of("asg", {"suspended"}), {})
             c == Puts("asg", {"latest"})
  <2>3. Elb \notin a.put /\ Elb \notin b.put /\ Elb \notin c.put
    BY OfFacts DEF Tags, Call, Puts, Elb
  <2>4. t \in {<<a, b>>, <<c, a>>}
    BY <2>2 DEF AutoScalingGroupWorks, CreateAutoScalingGroup, UpdateAutoScalingGroup
  <2> HIDE DEF a, b, c
  <2> QED
    BY <1>2, <1>3, <2>3, <2>4
<1> QED
  BY <1>6, <1>7, <1>8

LEMMA HalfDecided == ASSUME IInv, Counted, HalvesMade, Decided, [Next]_vars PROVE HalvesMade'
<1> DEFINE t == todo'  r == Top.r
<1>1. /\ Fine(r, t) /\ t \in Works(r) /\ UNCHANGED <<tag, parts, target>> /\ todo = <<>> /\ r \in Resource
      /\ Types
  BY DecidedFacts DEF Decided, IInv, BInv
<1>2. Faultless' => Faultless
  BY CountedStep DEF Faultless
<1>3. \A i \in 1 .. Len(t) : Elb \notin t[i].put
  BY NoElbEnsured
<1> HIDE DEF t, r
<1>4. ASSUME Faultless, NEW x \in HalfParts PROVE Half(x, t)
  <2>1. x \in parts \/ (IF x = HealthCheck THEN Elb \notin parts ELSE ~Due(x, tag[x[1]]))
    BY <1>1, <1>4, HalfBefore
  <2>2. /\ x[1] \in Role \union {"key", "asg"}
        /\ x[1] \notin Grouping \union {"alb", "gateway", "join", "stop", "lt", "rule", "hostgroup"}
        /\ x # Permission
        /\ x[1] = "key" => x = <<"key", "alias">>
        /\ x[1] = "asg" => x \in {HealthCheck, <<"asg", "suspended">>}
    BY HalfPartsAre
  <2>3. ASSUME NEW i \in 1 .. Len(t)
        PROVE  /\ x \in t[i].drop => x[1] \in Role /\ x[1] = r
               /\ t[i].r = x[1] => x[1] = r
    <3>1. EnsureCall(r, t[i])
      BY <1>1, <2>3 DEF Fine, InEnsure
    <3>2. ASSUME x \in t[i].drop PROVE x[1] \in Role /\ x[1] = r
      <4>1. x[1] \in Role \union {"gateway", "lt"} /\ x[1] \in Touched(r)
        BY <2>2, <3>1, <3>2, EnsureDrops
      <4>2. {"join", "lt", "asg"} \intersect Role = {}
        BY Kinds, KindsApart DEF Others
      <4> QED
        BY <2>2, <4>1, <4>2 DEF Touched
    <3>3. t[i].r = x[1] => x[1] = r
      BY <2>2, <3>1, StopIsCall DEF EnsureCall
    <3> QED
      BY <3>2, <3>3
  <2>4. CASE x[1] # r \/ (x[1] = "asg" /\ (x = HealthCheck \/ Exists("asg")))
    <3>1. "asg" \notin Role
      BY Kinds, KindsApart DEF Others
    <3>2. \A i \in 1 .. Len(t) : x \notin t[i].drop
      BY <2>3, <2>4, <3>1
    <3>3. x \in parts => Half(x, t)
      BY <3>2 DEF Half, Staying
    <3>4. CASE x = HealthCheck
      BY <1>3, <2>1, <3>3, <3>4 DEF Half, Spared, Brings
    <3>5. CASE x # HealthCheck /\ x[1] # r
      BY <2>1, <2>3, <3>3, <3>5 DEF Half, Spared, NotDue
    <3>6. CASE x # HealthCheck /\ x[1] = "asg" /\ Exists("asg")
      BY <2>1, <2>2, <3>3, <3>6 DEF Due, Exists
    <3> QED
      BY <2>4, <3>4, <3>5, <3>6
  <2>5. CASE x[1] = r /\ ~(x[1] = "asg" /\ (x = HealthCheck \/ Exists("asg")))
    <3>1. {"key", "asg"} \intersect (Role \union Lambda) = {}
      BY Kinds, KindsApart DEF Others
    <3>2. \/ x[1] \in Role /\ t \in RoleWorks(x[1])
          \/ x = <<"key", "alias">> /\ t \in KmsWorks
          \/ x = <<"asg", "suspended">> /\ t \in AutoScalingGroupWorks /\ ~Exists("asg")
      <4>1. CASE x[1] \in Role
        <5>1. r \notin Lambda \union {"sm", "rule", "gateway", "lt", "asg", "alb", "key", "table", "hostgroup"}
          BY <2>5, <4>1, Kinds, KindsApart DEF Others, Grouping
        <5>2. t \in RoleWorks(r)
          BY <1>1, <2>5, <4>1, <5>1 DEF Works
        <5> QED
          BY <2>5, <4>1, <5>2
      <4>2. CASE x[1] = "key"
        <5>1. t \in KmsWorks
          BY <1>1, <2>5, <3>1, <4>2 DEF Works
        <5> QED
          BY <2>2, <4>2, <5>1
      <4>3. CASE x[1] = "asg"
        <5>1. t \in AutoScalingGroupWorks
          BY <1>1, <2>5, <3>1, <4>3 DEF Works
        <5> QED
          BY <2>2, <2>5, <4>3, <5>1
      <4> QED
        BY <2>2, <4>1, <4>2, <4>3
    <3> QED
      BY <1>1, <3>2, HalfWorks
  <2> QED
    BY <2>4, <2>5
<1> QED
  BY <1>1, <1>2, <1>4, HalfSame DEF t, HalvesMade, Faultless

(* The calls of import and update outside of EnsureResource. *)
LEMMA HalfSaves ==
    ASSUME IInv, HalvesMade, Faultless, Proceed, cmd # "destroy", NEW x \in HalfParts
    PROVE  Half(x, todo')
<1> DEFINE t == todo'
<1>1. /\ outcome = "running" /\ plan # <<>> /\ todo = <<>> /\ OfCommand(t)
      /\ \A i \in 1 .. Len(t) : t[i].drop = {}
  BY ProceedFacts
<1>2. \A i \in 1 .. Len(t) : OutsideCall(t[i])
  BY <1>1 DEF OfCommand
<1>3. x \in parts \/ (IF x = HealthCheck THEN Elb \notin parts ELSE ~Due(x, tag[x[1]]))
  BY <1>1, HalfBefore
<1> HIDE DEF t
<1>4. CASE x \in parts
  BY <1>1, <1>4 DEF Half, Staying, t
<1>5. CASE x # HealthCheck /\ ~Due(x, tag[x[1]])
  <2>1. \A i \in 1 .. Len(t) : t[i].version = tag[t[i].r]
    BY <1>2, OutsideDrops
  <2> QED
    BY <1>5, <2>1 DEF Half, Spared, NotDue, t
<1>6. CASE x = HealthCheck /\ Elb \notin parts
  <2>1. CASE ~Brings(t, Elb)
    BY <1>6, <2>1 DEF Half, Spared, t
  <2>2. CASE Brings(t, Elb)
    <3> DEFINE a == Puts("table", {"credentials"})  b == Puts("asg", {"instances"})
               c == Puts("asg", {"elb"})  d == Puts("asg", {"healthCheck"})
               e == Puts("table", {"settings", "build"})
    <3>1. /\ Elb \notin a.put /\ Elb \notin b.put /\ Elb \notin e.put
          /\ HealthCheck \in d.put /\ d.drop = {} /\ c.r # "stop" /\ d.r # "stop"
      BY OfFacts DEF Puts, Call, Elb, HealthCheck
    <3>2. Head(plan) \in Saves \union Attaches
      <4>1. Head(plan) \in StepName /\ Head(plan) \notin Roots
        BY <1>1, PlanFacts DEF IInv, Proceed
      <4>2. cmd \in {"import", "update", "dryUpdate"}
        BY <1>1, PlanFacts DEF IInv
      <4> QED
        BY <1>1, <4>1, <4>2, PlanFacts DEF IInv, StepName, ImportPlan, Saves, Attaches, Roots
    <3>3. t \in {<<a>>, <<b>>, <<c, d>>, <<>>, <<e>>}
      BY <3>2 DEF Proceed, Steps, SaveCredentials, SaveClusterSettings, AttachInstancesToASG, AttachLoadBalancer, When,
             Saves, Attaches, t
    <3> HIDE DEF a, b, c, d, e
    <3>4. t = <<c, d>>
      BY <2>2, <3>1, <3>3 DEF Brings
    <3> QED
      BY <1>6, <3>1, <3>4, PutSecond DEF t
  <2> QED
    BY <2>1, <2>2
<1> QED
  BY <1>3, <1>4, <1>5, <1>6

LEMMA HalfCleans ==
    ASSUME IInv, HalvesMade, Faultless, Proceed, cmd = "destroy", missed' = {}, NEW x \in HalfParts
    PROVE  Half(x, todo')
<1> DEFINE t == todo'
<1>1. /\ outcome = "running" /\ plan # <<>> /\ todo = <<>> /\ OfCommand(t) /\ Keeps(Head(plan), t)
      /\ \A r \in Cleaned(Head(plan)) : Exists(r) => Removing(t, r)
  BY ProceedFacts
<1>2. \A i \in 1 .. Len(t) : OutsideCall(t[i])
  BY <1>1 DEF OfCommand
<1>3. x \in parts \/ (IF x = HealthCheck THEN Elb \notin parts ELSE ~Due(x, tag[x[1]]))
  BY <1>1, HalfBefore
<1>4. ASSUME NEW i \in 1 .. Len(t), x \in t[i].drop PROVE t[i].r = x[1]
  BY <1>4, CleanerDrops, HalfPartsAre
<1> HIDE DEF t
<1>5. CASE x \in parts
  <2>1. CASE \A i \in 1 .. Len(t) : x \notin t[i].drop
    BY <1>5, <2>1 DEF Half, Staying, t
  <2>2. ASSUME NEW k \in 1 .. Len(t), x \in t[k].drop PROVE Half(x, t)
    <3>1. t[k].r = x[1] /\ x[1] \in About(Head(plan))
      BY <1>1, <1>4, <2>2 DEF Keeps
    <3>2. x[1] \in Cleaned(Head(plan))
      BY <3>1, CleanedIs, HalfPartsAre
    <3>3. Exists(x[1])
      BY <1>5, HalfPartsAre DEF IInv, BInv, Owned
    <3>4. PICK i \in 1 .. Len(t) : t[i].r = x[1] /\ t[i].version = 0
      BY <1>1, <3>2, <3>3 DEF Removing
    <3>5. \A j \in i .. Len(t) : j \in 1 .. Len(t) /\ (j = i \/ i < j)
      OBVIOUS
    <3>6. RemovedForGood(x, t)
      BY <1>1, <3>4, <3>5 DEF RemovedForGood, OfCommand, RemovalsLast
    <3>7. Unstopped(t)
      <4>1. Stop.r \notin Resource
        BY StopIsCall, KindsApart
      <4> QED
        BY <1>2, <4>1 DEF Unstopped, OutsideCall
    <3> QED
      BY <3>6, <3>7 DEF Half
  <2> QED
    BY <2>1, <2>2 DEF t
<1>6. CASE x # HealthCheck /\ ~Due(x, tag[x[1]])
  <2>1. \A i \in 1 .. Len(t) : t[i].version \in {0, tag[t[i].r]}
    BY <1>2 DEF OutsideCall
  <2> QED
    BY <1>6, <2>1 DEF Half, Spared, NotDue, Due, t
<1>7. CASE x = HealthCheck /\ Elb \notin parts
  <2>1. Elb \notin Old \union Of("rule", {"stale"})
    BY OfFacts DEF Elb, Old
  <2>2. ~Brings(t, Elb)
    BY <1>2, <2>1, OutsideDrops DEF Brings
  <2> QED
    BY <1>7, <2>2 DEF Half, Spared, t
<1> QED
  BY <1>3, <1>5, <1>6, <1>7

LEMMA HalfProceed == ASSUME IInv, Counted, HalvesMade, Proceed, [Next]_vars PROVE HalvesMade'
<1>1. Faultless' => Faultless /\ missed' = {}
  BY CountedStep DEF Faultless, Counted
<1>2. UNCHANGED <<tag, parts, target>>
  BY ProceedFacts
<1>3. Faultless' => \A x \in HalfParts : Half(x, todo')
  BY <1>1, HalfSaves, HalfCleans
<1> QED
  BY <1>2, <1>3, HalfSame DEF HalvesMade

(* Only a call that stops empties what is left to do. *)
LEMMA OnlyStops ==
    ASSUME IInv, [Next]_vars, todo # <<>>, todo' # todo, ~Work, ~WorkQuietly, ~Abort
    PROVE  Head(todo) = Stop
<1>1. outcome = "running" /\ ~Between /\ ~Ready /\ \A step : ~At(step)
  BY DEF IInv, BInv, Control, Between, Ready, At
<1> QED
  BY <1>1 DEF Next, vars, ImportCluster, UpdateCluster, Destroy, Begins, Refused, Upgrade, Ensure, Proceed,
     CleanerStuck, Finish, Descend, Fetch, FetchStuck, Worked, Return, WorkStops

LEMMA HalfIdle ==
    ASSUME IInv, Counted, Released, HalvesMade, [Next]_vars, NothingLeft, ~Work, ~Proceed
    PROVE  HalvesMade'
<1>1. Faultless' => Faultless /\ ~WorkQuietly /\ ~Abort
  BY CountedStep DEF Faultless
<1>2. /\ todo' = <<>> /\ tag' = tag /\ parts' \subseteq parts
      /\ \A x \in parts \ parts' : x[2] \in {"policy", "runtime", "arch", "build"}
  BY DEF NothingLeft
<1>3. HalfParts' = HalfParts
  BY DEF HalfParts, SecondHalves, HealthCheck, Role, RoleUser, Lambda
<1> SUFFICES ASSUME Faultless', NEW x \in HalfParts PROVE Half(x, todo)'
  BY <1>3 DEF HalvesMade
<1>4. Half(x, todo) /\ Faultless
  BY <1>1 DEF HalvesMade
<1>5. todo # <<>> => ~Unstopped(todo)
  <2>1. ASSUME todo # <<>> PROVE ~Unstopped(todo)
    <3>1. Head(todo) = Stop
      BY <1>1, <1>2, <2>1, OnlyStops
    <3>2. todo \in Seq(CallSet)
      BY DEF IInv, BInv, Types
    <3>3. 1 \in 1 .. Len(todo) /\ todo[1] = Stop
      BY <2>1, <3>1, <3>2, TodoTail
    <3> QED
      BY <3>3 DEF Unstopped
  <2> QED
    BY <2>1
<1>6. ~(Unstopped(todo) /\ (PutForGood(x, todo) \/ RemovedForGood(x, todo)))
  BY <1>5 DEF PutForGood, RemovedForGood
<1>7. x \in parts \/ (IF x = HealthCheck THEN Elb \notin parts ELSE ~Due(x, tag[x[1]]))
  BY <1>4, <1>6 DEF Half, Staying, Spared, NotDue
<1>8. CASE x \in parts'
  BY <1>2, <1>8 DEF Half, Staying
<1>9. CASE x = HealthCheck /\ Elb \notin parts
  <2>1. Elb' \notin parts' /\ HealthCheck' = HealthCheck /\ ~Brings(todo, Elb)'
    BY <1>2, <1>9 DEF Elb, HealthCheck, Brings
  <2> QED
    BY <1>9, <2>1 DEF Half, Spared
<1>10. ASSUME x # HealthCheck, ~Due(x, tag[x[1]])' PROVE Half(x, todo)'
  <2>1. NotDue(x, todo)'
    BY <1>2, <1>10 DEF NotDue
  <2> QED
    BY <1>10, <2>1 DEF Half, Spared, HealthCheck
<1>11. CASE ~Upgrade
  <2>1. parts' = parts /\ target' = target
    BY <1>11, PartsSame, TargetSame
  <2>2. x # HealthCheck /\ ~Due(x, tag[x[1]]) => ~Due(x, tag[x[1]])'
    BY <1>2, <2>1 DEF Due
  <2> QED
    BY <1>7, <1>8, <1>9, <1>10, <2>1, <2>2
<1>12. CASE Upgrade
  <2> DEFINE r == x[1]
  <2>1. r \in Resource /\ x = <<x[1], x[2]>> /\ (x[2] = "policy" <=> r \in Role)
        /\ x[2] \in {"policy", "alias", "suspended", "healthCheck"}
    BY HalfPartsAre
  <2>2. /\ target = [q \in Resource |-> 1] /\ target' = NewTarget /\ tag[r] <= target[r] /\ tag[r] \in 0 .. 2
    BY <1>12, <2>1 DEF Upgrade, NewTarget, Released, IInv, BInv, Types
  <2>3. target[r] = 1 /\ tag[r] \in {0, 1}
    BY <2>1, <2>2
  <2>4. ASSUME ~Due(x, tag[r]), x # HealthCheck PROVE Half(x, todo)'
    <3>1. tag[r] = 0
      BY <2>3, <2>4 DEF Due
    <3> QED
      BY <1>2, <1>10, <2>4, <3>1 DEF Due
  <2>5. ASSUME x \in parts, x \notin parts' PROVE Half(x, todo)'
    <3>1. x[2] = "policy" /\ r \in Role
      BY <1>2, <2>1, <2>5
    <3>2. r \in Upgraded
      <4>1. x \in (UNION {Of(q, {"policy"}) : q \in Upgraded \intersect Role})
                  \union (UNION {Of(l, {"runtime", "arch"}) : l \in Upgraded \intersect Lambda}) \union Of("table", {"build"})
        BY <1>12, <2>5 DEF Upgrade
      <4>2. x \notin Of("table", {"build"}) /\ \A l : x \notin Of(l, {"runtime", "arch"})
        BY <3>1, OfFacts
      <4>3. \E q \in Upgraded \intersect Role : x \in Of(q, {"policy"})
        BY <4>1, <4>2
      <4> QED
        BY <4>3, OfFacts
    <3>3. target'[r] = 2
      BY <2>1, <2>2, <3>2 DEF NewTarget
    <3> QED
      BY <1>2, <1>10, <2>3, <3>1, <3>3 DEF Due, HealthCheck
  <2> QED
    BY <1>7, <1>8, <1>9, <2>4, <2>5
<1> QED
  BY <1>11, <1>12

LEMMA HalfNext == ASSUME IInv, Counted, Released, HalvesMade, [Next]_vars PROVE HalvesMade'
<1>1. CASE WorkQuietly
  <2>1. ~Faultless'
    BY <1>1, CountedStep DEF Faultless
  <2> QED
    BY <2>1 DEF HalvesMade
<1>2. CASE UNCHANGED vars
  <2>1. UNCHANGED <<tag, parts, target, todo, aborts, quiet>>
    BY <1>2 DEF vars, awsVars, bounds
  <2>2. Faultless' => Faultless
    BY <2>1 DEF Faultless
  <2> QED
    BY <2>1, <2>2, HalfSame DEF HalvesMade
<1> QED
  BY <1>1, <1>2, HalfWork, HalfProceed, HalfDecided, HalfIdle, StepKinds

-----------------------------------------------------------------------------
(***************************************************************************)
(* Without faults the key of a gateway before does not stay: the deletion  *)
(* that leaves it deletes it.                                              *)
(***************************************************************************)
KeyGoes(s) ==
    \/ OldKey \notin parts /\ ~Brings(s, OldKey)
    \/ /\ Unstopped(s)
       /\ \E i \in 1 .. Len(s) : OldKey \in s[i].drop /\ \A j \in i .. Len(s) : OldKey \notin s[j].put
NoOldKey == Faultless => KeyGoes(todo)

LEMMA KeyGoesWork == ASSUME IInv, KeyGoes(todo), Work PROVE KeyGoes(todo)'
<1> DEFINE t == todo'
<1>1. /\ todo \in Seq(CallSet) /\ todo # <<>> /\ t = Tail(todo) /\ 1 \in 1 .. Len(todo)
      /\ parts' = (parts \ todo[1].drop) \union todo[1].put
  BY WorkFacts DEF IInv
<1>2. /\ Len(todo) \in Nat \ {0} /\ Len(t) = Len(todo) - 1
      /\ \A i \in 1 .. Len(t) : i + 1 \in 1 .. Len(todo) /\ t[i] = todo[i + 1]
      /\ \A j \in 1 .. Len(todo) : j = 1 \/ (j - 1 \in 1 .. Len(t) /\ t[j - 1] = todo[j])
  BY <1>1, TodoTail
<1>3. OldKey' = OldKey /\ Stop' = Stop
  BY DEF OldKey, Stop, Call
<1> HIDE DEF t
<1>4. CASE OldKey \notin parts /\ ~Brings(todo, OldKey)
  <2>1. OldKey \notin parts' /\ \A i \in 1 .. Len(t) : OldKey \notin t[i].put
    BY <1>1, <1>2, <1>4 DEF Brings
  <2> QED
    BY <1>3, <2>1 DEF KeyGoes, Brings, t
<1>5. ASSUME Unstopped(todo), NEW i \in 1 .. Len(todo), OldKey \in todo[i].drop,
             \A j \in i .. Len(todo) : OldKey \notin todo[j].put
      PROVE  KeyGoes(todo)'
  <2>1. \A j \in 1 .. Len(t) : t[j] # Stop
    BY <1>2, <1>5 DEF Unstopped
  <2>2. CASE i = 1
    <3>1. OldKey \notin parts' /\ \A j \in 1 .. Len(t) : OldKey \notin t[j].put
      BY <1>1, <1>2, <1>5, <2>2
    <3> QED
      BY <1>3, <3>1 DEF KeyGoes, Brings, t
  <2>3. CASE i # 1
    <3> DEFINE k == i - 1
    <3>1. k \in 1 .. Len(t) /\ t[k] = todo[i]
      BY <1>2, <2>3
    <3>2. \A j \in k .. Len(t) : j \in 1 .. Len(t) /\ j + 1 \in i .. Len(todo) /\ t[j] = todo[j + 1]
      BY <1>2, <3>1
    <3> HIDE DEF k
    <3>3. k \in 1 .. Len(t) /\ OldKey \in t[k].drop /\ \A j \in k .. Len(t) : OldKey \notin t[j].put
      BY <1>5, <3>1, <3>2
    <3> QED
      BY <1>3, <2>1, <3>3 DEF KeyGoes, Unstopped, t
  <2> QED
    BY <2>2, <2>3
<1> QED
  BY <1>4, <1>5 DEF KeyGoes

(* The calls that make a gateway delete the key of the one before. *)
LEMMA KeyDeleted ==
    ASSUME Types, OldKey \notin parts
    PROVE  /\ KeyGoes(DeleteRestApiGateway)
           /\ \A s \in GatewayWorks : KeyGoes(s)
<1> DEFINE d == DeleteRestApiGateway
<1>1. /\ Len(d) = 3 /\ \A i \in 1 .. 3 : d[i].r = "gateway"
      /\ d[3].put = {} /\ OldKey \in d[3].drop
  BY RemovesGateway, OfFacts DEF GatewayRemoval, OldKey
<1>2. Stop.r = "stop"
  BY StopIsCall
<1>3. KeyGoes(d)
  <2> HIDE DEF d
  <2>1. Unstopped(d)
    BY <1>1, <1>2 DEF Unstopped
  <2>2. 3 \in 1 .. Len(d) /\ \A j \in 3 .. Len(d) : j = 3
    BY <1>1
  <2> QED
    BY <1>1, <2>1, <2>2 DEF KeyGoes
<1> HIDE DEF d
<1>4. ASSUME NEW s \in GatewayWorks PROVE KeyGoes(s)
  <2>1. PICK k \in {0, 3} : GatewayCalls(s, k)
    BY <1>4, GatewayCallsAre
  <2> DEFINE a == Tags("gateway")  f(p) == GatewayCall(p)  c == Puts("join", {"policy", "permission"})
  <2>2. /\ a.r = "gateway" /\ OldKey \notin a.put
        /\ \A p \in {"deployment", "plan", "key", "planKey"} : f(p).r = "gateway" /\ OldKey \notin f(p).put
        /\ c.r = "join" /\ OldKey \notin c.put
    BY OfFacts DEF Tags, GatewayCall, Puts, Call, OldKey
  <2>3. /\ Len(s) = k + 6 /\ (k = 3 => \A i \in 1 .. 3 : s[i] = d[i])
        /\ s[k + 1] = a /\ s[k + 2] = f("deployment") /\ s[k + 3] = f("plan")
        /\ s[k + 4] = f("key") /\ s[k + 5] = f("planKey") /\ s[k + 6] = c
    BY <2>1 DEF GatewayCalls, d
  <2> HIDE DEF a, f, c
  <2>4. \A i \in k + 1 .. k + 6 : i \in {k + 1, k + 2, k + 3, k + 4, k + 5, k + 6}
    OBVIOUS
  <2>5. \A i \in k + 1 .. k + 6 : s[i].r \in {"gateway", "join"} /\ OldKey \notin s[i].put
    BY <2>2, <2>3, <2>4
  <2>6. CASE k = 0
    <3>1. \A i \in 1 .. Len(s) : i \in k + 1 .. k + 6
      BY <2>3, <2>6
    <3>2. ~Brings(s, OldKey)
      BY <2>5, <3>1 DEF Brings
    <3> QED
      BY <3>2 DEF KeyGoes
  <2>7. CASE k = 3
    <3>1. Len(s) = 9 /\ \A i \in 1 .. 9 : i \in 1 .. 3 \/ i \in k + 1 .. k + 6
      BY <2>3, <2>7
    <3>2. Unstopped(s)
      BY <1>1, <1>2, <2>3, <2>5, <2>7, <3>1 DEF Unstopped
    <3>3. s[3] = d[3] /\ 3 \in 1 .. Len(s) /\ \A j \in 3 .. Len(s) : j = 3 \/ j \in k + 1 .. k + 6
      BY <2>3, <2>7, <3>1
    <3>4. OldKey \in s[3].drop /\ \A j \in 3 .. Len(s) : OldKey \notin s[j].put
      BY <1>1, <2>5, <3>3
    <3> QED
      BY <3>2, <3>3, <3>4 DEF KeyGoes
  <2> QED
    BY <2>6, <2>7
<1> QED
  BY <1>3, <1>4 DEF d

LEMMA KeyGoesSame ==
    ASSUME parts' = parts, NEW t, t = todo', KeyGoes(t)
    PROVE  KeyGoes(todo)'
BY DEF KeyGoes, Unstopped, Brings, OldKey, Stop, Call

LEMMA NoOldKeyNext == ASSUME IInv, Counted, NoOldKey, [Next]_vars PROVE NoOldKey'
<1> DEFINE t == todo'
<1>1. (Faultless' => Faultless /\ ~WorkQuietly /\ ~Abort) /\ Types
  BY CountedStep DEF Faultless, IInv, BInv
<1> SUFFICES ASSUME Faultless, KeyGoes(todo), ~WorkQuietly, ~Abort PROVE KeyGoes(todo)'
  BY <1>1 DEF NoOldKey
<1>2. todo = <<>> => OldKey \notin parts
  BY DEF KeyGoes
<1> HIDE DEF t
<1>3. CASE Decided
  <2> DEFINE r == Top.r
  <2>1. Fine(r, t) /\ t \in Works(r) /\ parts' = parts /\ todo = <<>>
    BY <1>3, DecidedFacts DEF Decided, t
  <2>2. CASE r = "gateway"
    <3>1. "gateway" \notin Role \union Lambda
      BY Kinds, KindsApart DEF Others
    <3>2. t \in GatewayWorks
      BY <2>1, <2>2, <3>1 DEF Works
    <3> QED
      BY <1>1, <1>2, <2>1, <3>2, KeyDeleted, KeyGoesSame DEF t
  <2>3. CASE r # "gateway"
    <3> HIDE DEF r
    <3>1. ASSUME NEW i \in 1 .. Len(t) PROVE OldKey \notin t[i].put
      <4>1. EnsureCall(r, t[i])
        BY <2>1 DEF Fine, InEnsure
      <4>2. "gateway" \notin Touched(r)
        BY <2>3 DEF Touched
      <4> QED
        BY <4>1, <4>2, EnsureDrops DEF OldKey
    <3>2. KeyGoes(t)
      BY <1>2, <2>1, <3>1 DEF KeyGoes, Brings
    <3> QED
      BY <2>1, <3>2, KeyGoesSame DEF t
  <2> QED
    BY <2>2, <2>3
<1>4. CASE Proceed
  <2>1. /\ parts' = parts /\ todo = <<>> /\ OfCommand(t)
        /\ cmd # "destroy" => \A i \in 1 .. Len(t) : t[i].r \in {"table", "asg"}
    BY <1>4, ProceedFacts DEF t
  <2>2. CASE Brings(t, OldKey)
    <3>1. PICK i \in 1 .. Len(t) : OldKey \in t[i].put
      BY <2>2 DEF Brings
    <3>2. OutsideCall(t[i])
      BY <2>1 DEF OfCommand
    <3>3. t[i].r = "gateway"
      <4>1. "gateway" \in Near(t[i].r)
        BY <3>1, <3>2 DEF OutsideCall, OldKey
      <4>2. "gateway" \notin RoleUser
        BY Kinds, KindsApart DEF Others
      <4> QED
        BY <4>1, <4>2 DEF Near
    <3>4. cmd = "destroy"
      BY <2>1, <3>3
    <3>5. t = DeleteRestApiGateway
      BY <1>4, <3>3, <3>4, GatewayCleaner DEF t
    <3> QED
      BY <1>1, <1>2, <2>1, <3>5, KeyDeleted, KeyGoesSame DEF t
  <2>3. CASE ~Brings(t, OldKey)
    <3>1. KeyGoes(t)
      BY <1>2, <2>1, <2>3 DEF KeyGoes
    <3> QED
      BY <2>1, <3>1, KeyGoesSame DEF t
  <2> QED
    BY <2>2, <2>3
<1>5. CASE NothingLeft /\ ~Work
  <2>1. todo' = <<>> /\ parts' \subseteq parts
    BY <1>5 DEF NothingLeft
  <2>2. OldKey \notin parts
    <3>1. SUFFICES ASSUME todo # <<>>, Unstopped(todo) PROVE FALSE
      BY <1>2 DEF KeyGoes
    <3>2. Head(todo) = Stop
      BY <1>5, <2>1, <3>1, OnlyStops
    <3>3. todo \in Seq(CallSet)
      BY <1>1 DEF Types
    <3>4. 1 \in 1 .. Len(todo) /\ todo[1] = Stop
      BY <3>1, <3>2, <3>3, TodoTail
    <3> QED
      BY <3>1, <3>4 DEF Unstopped
  <2> QED
    BY <2>1, <2>2 DEF KeyGoes, Brings, OldKey
<1>6. CASE UNCHANGED vars
  <2>1. UNCHANGED <<parts, todo>>
    BY <1>6 DEF vars, awsVars
  <2> QED
    BY <2>1, KeyGoesSame
<1> QED
  BY <1>3, <1>4, <1>5, <1>6, KeyGoesWork, StepKinds

-----------------------------------------------------------------------------
(***************************************************************************)
(* Without an aborted command a group has its instances and its classic    *)
(* load balancer, or import is on the way to attach them: nothing stops it *)
(* between the creation of the group and that.                             *)
(***************************************************************************)
EndingAt(s) ==
    \/ s = <<>>
    \/ Len(s) = 3 /\ s[3].r = "asg" /\ s[3].step \in {"work", "return"}
    \/ Len(s) = 2 /\ s[2].r = "hostgroup" /\ s[2].done = 1
    \/ Len(s) = 1 /\ s[1].r = "cluster" /\ s[1].done = 2
ImportEnding == cmd = "import" /\ outcome = "running" /\ Len(plan) <= 2 /\ EndingAt(stack)
GroupServed ==
    aborts = 0 /\ Exists("asg") /\ ~Destroying => {Instances, Elb} \subseteq parts \/ ImportEnding

LEMMA OneGroup == Len(Sub["hostgroup"]) = 1
<1>1. "hostgroup" \in Resource /\ "hostgroup" \notin Role \union Lambda
  BY Kinds, KindsApart DEF Grouping
<1>2. Sub["hostgroup"] = <<"asg">>
  BY <1>1 DEF Sub
<1> QED
  BY <1>2

(* The way back from the group to the command. *)
LEMMA EndingMoves ==
    ASSUME IInv, stack # <<>>, EndingAt(stack), Descend \/ Fetch \/ Worked \/ Return
    PROVE  EndingAt(stack')
<1> DEFINE n == Len(stack)
<1>1. n \in Nat \ {0} /\ P!IInv /\ Top = stack[n] /\ stack[1].r \in Roots
  BY StackFacts DEF IInv, BInv, Position
<1>2. \A i \in 1 .. n : stack[i] \in P!Frame /\ stack[i].r \in Resource /\ stack[i].done \in Nat
  <2>1. stack \in Seq(P!Frame)
    BY StackFacts DEF IInv
  <2>2. \A i \in 1 .. n : stack[i] \in P!Frame
    BY <2>1, ElementOfSeq
  <2> QED
    BY <2>2 DEF P!Frame
<1>3. \/ n = 3 /\ stack[3].r = "asg" /\ stack[3].step \in {"work", "return"}
      \/ n = 2 /\ stack[2].r = "hostgroup" /\ stack[2].done = 1
      \/ n = 1 /\ stack[1].r = "cluster" /\ stack[1].done = 2
  BY DEF EndingAt
<1>4. CASE Descend
  <2>1. Top.step = "subresources" /\ Top.done < Len(Sub[Top.r])
    BY <1>4 DEF Descend, At
  <2>2. CASE n = 2 /\ stack[2].r = "hostgroup" /\ stack[2].done = 1
    BY <1>1, <2>1, <2>2, OneGroup
  <2>3. CASE n = 1 /\ stack[1].r = "cluster" /\ stack[1].done = 2
    <3>1. "cluster" \in Resource /\ Len(Sub["cluster"]) \in Nat
      BY <1>2, <2>3, SubIsSeq, LenProperties
    <3>2. 3 \in 1 .. Len(Sub["cluster"])
      BY <1>1, <2>1, <2>3, <3>1
    <3> QED
      BY <3>1, <3>2, SubCases
  <2> QED
    BY <1>1, <1>3, <2>1, <2>2, <2>3
<1>5. CASE Fetch \/ Worked
  <2>1. PICK step \in {"work", "return"} : Decide(step)
    BY <1>5 DEF Fetch, Worked
  <2>2. /\ Len(stack') = n
        /\ stack'[n].r = stack[n].r /\ stack'[n].done = stack[n].done /\ stack'[n].step = step
    BY <1>1, <2>1, Moves
  <2> QED
    BY <1>3, <2>1, <2>2 DEF EndingAt
<1>6. CASE Return
  <2>1. n = 1 => stack' = <<>>
    BY <1>1, <1>6, Moves
  <2>2. n # 1 => Len(stack') = n - 1 /\ stack'[n - 1].r = stack[n - 1].r /\ stack'[n - 1].done = stack[n - 1].done + 1
    BY <1>1, <1>6, Moves
  <2>3. n >= 2 => /\ stack[n - 1].done + 1 \in 1 .. Len(Sub[stack[n - 1].r])
                  /\ stack[n].r = Sub[stack[n - 1].r][stack[n - 1].done + 1]
    <3>1. ASSUME n >= 2 PROVE n - 1 \in 1 .. n /\ n - 1 < n /\ (n - 1) + 1 = n
      BY <1>1, <3>1
    <3> QED
      BY <1>1, <3>1, Caller
  <2>4. CASE n = 3 /\ stack[3].r = "asg"
    <3>1. stack[1].r = "cluster" /\ stack[2].r \in {"alb", "hostgroup"}
      BY <1>1, <2>4, Shape
    <3>2. stack[2].done + 1 \in 1 .. Len(Sub[stack[2].r]) /\ Len(stack') = 2 /\ stack'[2].r = stack[2].r
          /\ stack'[2].done = stack[2].done + 1
      BY <2>2, <2>3, <2>4
    <3>3. stack[2].r = "hostgroup"
      <4>1. stack[2].r = "alb" => "alb" \in Resource
        BY <1>2, <2>4
      <4> QED
        BY <3>1, <3>2, <4>1, SubCases
    <3>4. stack[2].done \in Nat /\ stack[2].done + 1 \in 1 .. 1
      BY <1>2, <2>4, <3>2, <3>3, OneGroup
    <3> QED
      BY <3>2, <3>3, <3>4 DEF EndingAt
  <2>5. CASE n = 2 /\ stack[2].r = "hostgroup"
    <3>1. stack[1].r = "cluster"
      BY <1>1, <2>5, Shape
    <3>2. /\ stack[1].done + 1 \in 1 .. Len(Sub["cluster"]) /\ Sub["cluster"][stack[1].done + 1] = "hostgroup"
          /\ Len(stack') = 1 /\ stack'[1].r = "cluster" /\ stack'[1].done = stack[1].done + 1
      BY <2>2, <2>3, <2>5, <3>1
    <3>3. "cluster" \in Resource
      BY <1>1, <1>2, <3>1
    <3>4. stack[1].done + 1 = 2
      BY <3>2, <3>3, SubCases
    <3> QED
      BY <3>2, <3>4 DEF EndingAt
  <2> QED
    BY <1>3, <2>1, <2>4, <2>5 DEF EndingAt
<1> QED
  BY <1>4, <1>5, <1>6

LEMMA ImportGoesOn ==
    ASSUME IInv, Saved, ImportEnding, [Next]_vars, ~Abort
    PROVE  ImportEnding' \/ {Instances, Elb} \subseteq parts'
<1>1. cmd = "import" /\ outcome = "running" /\ Len(plan) <= 2 /\ EndingAt(stack) /\ ~Ready
  BY DEF ImportEnding, Ready
<1>2. stack # <<>> => Top.r \in {"asg", "hostgroup", "cluster"}
  <2>1. stack # <<>> => Top = stack[Len(stack)]
    BY StackFacts DEF IInv
  <2> QED
    BY <1>1, <2>1 DEF EndingAt
<1>3. ~FetchStuck
  BY <1>1, <1>2, StuckWhere DEF FetchStuck, At
<1>4. ~WorkStops
  <2>1. ASSUME WorkStops PROVE FALSE
    <3>1. 1 \in 1 .. Len(todo) /\ todo[1] = Stop
      BY <2>1, TodoTail DEF WorkStops, IInv, BInv, Types
    <3>2. stack = <<>> => Stop.r \in Resource
      BY <3>1, AnyCall DEF OutsideCall
    <3>3. stack # <<>> => EnsureCall(Top.r, Stop)
      BY <3>1, AnyCall
    <3> QED
      BY <1>2, <3>2, <3>3, StopIsCall, KindsApart DEF EnsureCall
  <2> QED
    BY <2>1
<1>5. ~CleanerStuck /\ ~Ensure
  <2>1. ASSUME Ensure PROVE FALSE
    <3> DEFINE k == Len(plan)
    <3>1. plan # <<>>
      BY <2>1 DEF Ensure
    <3>2. k \in {1, 2, 3, 4, 5, 6} /\ k <= 2 /\ (k \in {1, 2} => Head(plan) \in Attaches)
      BY <1>1, <3>1, PlanLengths, HeadKinds DEF IInv
    <3> HIDE DEF k
    <3>3. Head(plan) \in Attaches
      BY <3>2
    <3> QED
      BY <2>1, <3>3 DEF Ensure, Attaches, Roots
  <2> QED
    BY <1>1, <2>1 DEF CleanerStuck
<1>6. CASE Finish
  <2>1. plan = <<>> /\ todo = <<>> /\ parts' = parts
    BY <1>6 DEF Finish, Between, awsVars
  <2>2. Len(plan) = 0
    BY <2>1
  <2>3. In(Instances) /\ In(Elb)
    BY <1>1, <2>2 DEF Saved, Reached
  <2> QED
    BY <2>1, <2>3 DEF In, Brings, Instances, Elb
<1>7. CASE Proceed
  <2>1. UNCHANGED <<cmd, outcome, stack>> /\ stack = <<>> /\ plan # <<>> /\ plan' = Tail(plan)
    BY <1>7, ProceedFacts
  <2> DEFINE k == Len(plan)  m == Len(plan')
  <2>2. k \in Nat /\ m = k - 1 /\ k <= 2
    BY <1>1, <2>1, PlanFacts DEF IInv
  <2> HIDE DEF k, m
  <2>3. m <= 2
    BY <2>2
  <2> QED
    BY <1>1, <2>1, <2>3 DEF ImportEnding, EndingAt, m
<1>8. CASE Work \/ WorkQuietly \/ UNCHANGED vars
  <2>1. UNCHANGED <<cmd, outcome, plan, stack>>
    BY <1>8 DEF Work, WorkQuietly, vars, ensureVars
  <2> QED
    BY <1>1, <2>1 DEF ImportEnding
<1>9. CASE Descend \/ Fetch \/ Worked \/ Return
  <2>1. UNCHANGED <<cmd, outcome, plan>> /\ stack # <<>>
    BY <1>9 DEF Descend, Fetch, Worked, Return, At
  <2>2. EndingAt(stack')
    BY <1>1, <1>9, <2>1, EndingMoves
  <2> QED
    BY <1>1, <2>1, <2>2 DEF ImportEnding, EndingAt
<1> QED
  BY <1>1, <1>3, <1>4, <1>5, <1>6, <1>7, <1>8, <1>9
     DEF Next, ImportCluster, UpdateCluster, Destroy, Begins, Refused, Upgrade

LEMMA ServedNext ==
    ASSUME IInv, DInv, Listed, Counted, GroupThere, GroupKept, Saved, GroupServed, [Next]_vars
    PROVE  GroupServed'
<1>1. Instances' = Instances /\ Elb' = Elb
  BY DEF Instances, Elb
<1> SUFFICES ASSUME aborts' = 0, Exists("asg")', ~Destroying' PROVE {Instances, Elb} \subseteq parts' \/ ImportEnding'
  BY <1>1 DEF GroupServed
<1>2. aborts = 0 /\ ~Abort /\ cut = {} /\ cut' = {}
  BY CountedStep DEF Counted
<1>3. "asg" \in Resource
  BY Kinds DEF Others
<1>4. CASE Destroying
  <2>1. Excused /\ ~Excused'
    BY <1>2, <1>4 DEF Excused
  <2>2. tag' = tag /\ todo = <<>> /\ (~Exists("asg") \/ NoTarget)
    BY <2>1, DestroyEnds
  <2>3. Exists("asg") /\ NoTarget
    BY <2>2 DEF Exists
  <2> QED
    BY <1>2, <2>2, <2>3 DEF GroupKept, Removing
<1>5. CASE ~Destroying /\ Exists("asg")
  <2>1. CASE {Instances, Elb} \subseteq parts
    <3>1. CASE Work
      <4>1. /\ parts' = (parts \ todo[1].drop) \union todo[1].put /\ 1 \in 1 .. Len(todo) /\ todo # <<>>
        BY <3>1, WorkFacts DEF IInv
      <4>2. cmd # "destroy"
        BY <1>5, <4>1 DEF Destroying, IInv, BInv, Control
      <4>3. \A x \in todo[1].drop : x[1] \in Role \union {"gateway", "lt"} \/ x = Permission
        BY <4>1, <4>2, AnyCall
      <4>4. "asg" \notin Role
        BY Kinds, KindsApart DEF Others
      <4> QED
        BY <2>1, <4>1, <4>3, <4>4 DEF Instances, Elb, Permission
    <3>2. CASE Upgrade
      <4>1. NothingLeft
        <5>1. ~Work /\ ~WorkQuietly /\ ~Proceed /\ ~Decided /\ ~UNCHANGED vars
          <6>1. todo = <<>> /\ stack = <<>> /\ outcome # "running"
            BY <3>2, ReadyFacts DEF IInv, Upgrade, Ready
          <6>2. target' # target
            <7>1. PICK r \in Upgraded : TRUE
              BY <3>2 DEF Upgrade
            <7>2. r \in Resource /\ target[r] = 1 /\ target'[r] = 2
              BY <3>2, <7>1, UpgradedAssumption, Kinds DEF Upgrade, Others
            <7> QED
              BY <7>2
          <6> QED
            BY <6>1, <6>2 DEF Work, WorkQuietly, Proceed, Between, Decided, vars
        <5> QED
          BY <5>1, StepKinds
      <4> QED
        BY <2>1, <4>1 DEF NothingLeft, Instances, Elb
    <3> QED
      BY <2>1, <3>1, <3>2, PartsSame
  <2>2. CASE ImportEnding
    BY <1>2, <2>2, ImportGoesOn
  <2> QED
    BY <1>2, <1>5, <2>1, <2>2 DEF GroupServed
<1>6. CASE ~Destroying /\ ~Exists("asg")
  <2>1. Work
    <3>1. tag' # tag
      BY <1>6 DEF Exists
    <3> QED
      BY <3>1, OnlyWorkTags
  <2>2. /\ 1 \in 1 .. Len(todo) /\ todo # <<>> /\ todo[1] # Stop
        /\ \A r \in Resource : tag'[r] = IF r = todo[1].r THEN todo[1].version ELSE tag[r]
        /\ UNCHANGED <<stack, plan, cmd, outcome>>
    BY <2>1, WorkFacts DEF IInv
  <2>3. todo[1].r = "asg" /\ todo[1].version # 0 /\ tag["asg"] = 0
    BY <1>3, <1>6, <2>2 DEF Exists
  <2>4. outcome = "running" /\ cmd # "destroy"
    BY <1>6, <2>2 DEF Destroying, IInv, BInv, Control
  <2>5. stack # <<>>
    BY <2>2, <2>3, AnyCall DEF OutsideCall
  <2>6. Top.r = "asg" /\ Top.step = "work"
    BY <2>2, <2>3, <2>5, TemplateTop, AnyCall
  <2>7. stack[1].r = "cluster" /\ Len(stack) = 3 /\ Top = stack[Len(stack)]
    BY <2>5, <2>6, Places, StackFacts DEF IInv
  <2>8. cmd = "import"
    <3>1. cmd \in {"import", "update", "dryUpdate"}
      BY <2>5 DEF IInv, BInv, Control
    <3> QED
      BY <1>6, <2>4, <2>5, <2>7, <3>1 DEF GroupThere, OnCluster
  <2>9. Len(plan) \in {2, 5} /\ (stack[1].r = "table" <=> Len(plan) = 5)
    BY <2>5, <2>8 DEF IInv, BInv, Position
  <2>10. Len(plan) = 2
    BY <2>7, <2>9
  <2> QED
    BY <2>2, <2>4, <2>6, <2>7, <2>8, <2>10 DEF ImportEnding, EndingAt
<1> QED
  BY <1>4, <1>5, <1>6

-----------------------------------------------------------------------------
(***************************************************************************)
(* All of it together.                                                     *)
(***************************************************************************)
WholeInv ==
    /\ Counted
    /\ GroupKept /\ RuleCalls
    /\ LambdaKept
    /\ Gated /\ GateCalls
    /\ Attached
    /\ Saved /\ Credited
    /\ HalvesMade /\ NoOldKey /\ GroupServed

LEMMA WholeInit == Init => WholeInv
<1> SUFFICES ASSUME Init PROVE WholeInv
  OBVIOUS
<1>1. /\ todo = <<>> /\ parts = {} /\ stack = <<>> /\ visited = {} /\ outcome = "none" /\ cmd = "none"
      /\ aborts = 0 /\ quiet = 0 /\ cut = {} /\ missed = {} /\ \A r \in Resource : tag[r] = 0
  BY DEF Init
<1>2. "asg" \in Resource /\ ~Exists("asg")
  BY <1>1, Kinds DEF Others, Exists
<1>3. Counted /\ GroupKept /\ RuleCalls
  BY <1>1, <1>2 DEF Counted, GroupKept, RuleCalls
<1>4. LambdaKept
  BY <1>1, LambdaPartsAre DEF LambdaKept, MadeWhole, MadeBy, Counts
<1>5. Gated /\ GateCalls /\ Attached /\ Saved /\ Credited
  BY <1>1 DEF Gated, GateCalls, Attached, Saved, Reached, Credited, In, Brings
<1>6. HalvesMade
  <2>1. \A x \in HalfParts : Spared(x, todo)
    BY <1>1, HalfPartsAre DEF Spared, NotDue, Due, Brings
  <2> QED
    BY <2>1 DEF HalvesMade, Half
<1>7. NoOldKey /\ GroupServed
  BY <1>1, <1>2 DEF NoOldKey, KeyGoes, Brings, GroupServed
<1> QED
  BY <1>3, <1>4, <1>5, <1>6, <1>7 DEF WholeInv

(* WholeInv, the invariant behind SuccessIsWhole: what the calls that are  *)
(* still to be made will put in place of what is missing.                  *)
THEOREM WholeCorrect == Spec => []WholeInv
<1>1. /\ IInv /\ DInv /\ LiveInv /\ (Listed /\ JoinInv) /\ GroupInv /\ WholeInv /\ [Next]_vars
      => WholeInv'
  <2> SUFFICES ASSUME IInv, DInv, LiveInv, Listed, GroupInv, WholeInv, [Next]_vars PROVE WholeInv'
    OBVIOUS
  <2>1. Released /\ GroupThere
    BY DEF GroupInv
  <2>2. /\ Counted /\ GroupKept /\ RuleCalls /\ LambdaKept /\ Gated /\ GateCalls /\ Attached
        /\ Saved /\ Credited /\ HalvesMade /\ NoOldKey /\ GroupServed
    BY DEF WholeInv
  <2>3. Counted' /\ (GroupKept' /\ RuleCalls') /\ LambdaKept'
    BY <2>1, <2>2, CountedStep, GroupKeptNext, LambdaNext
  <2>4. (Gated' /\ GateCalls') /\ Attached' /\ Saved' /\ Credited'
    BY <2>2, GateNext, AttachedNext, SavedNext, CreditedNext
  <2>5. HalvesMade' /\ NoOldKey' /\ GroupServed'
    BY <2>1, <2>2, HalfNext, NoOldKeyNext, ServedNext
  <2> QED
    BY <2>3, <2>4, <2>5 DEF WholeInv
<1> QED
  BY <1>1, WholeInit, IInvCorrect, DInvCorrect, LiveCorrect, JoinCorrect, GroupCorrect, PTL DEF Spec

(* What is wanted of each resource. *)
LEMMA WantedIs ==
    /\ \A r \in Role : Wanted(r) = {"policy"}
    /\ Wanted("join") = {"role", "runtime", "arch", "tableName", "policy", "permission"}
    /\ \A r \in Lambda \ {"join"} : Wanted(r) = {"role", "runtime", "arch", "tableName"}
    /\ Wanted("sm") = {"role"} /\ Wanted("rule") = {"target"}
    /\ Wanted("gateway") = {"deployment", "plan", "key", "planKey"}
    /\ Wanted("lt") = {"latest"}
    /\ Wanted("asg") = {"suspended", "targetGroup", "instances", "healthCheck"}
    /\ Wanted("alb") = AlbParts
    /\ Wanted("table") = {"credentials", "settings", "build"}
    /\ Wanted("key") = {"alias"}
    /\ \A r \in Grouping : Wanted(r) = {}
<1>1. \A r \in Role : r \notin Lambda /\ r # "join" /\ r \notin {"sm", "rule", "gateway", "lt", "asg", "alb", "table", "key"}
  BY Kinds, KindsApart DEF Others
<1>2. \A r \in Lambda : r \notin Role /\ r \notin {"sm", "rule", "gateway", "lt", "asg", "alb", "table", "key"}
  BY Kinds, KindsApart DEF Others
<1>3. \A r \in Grouping : r \notin Role /\ r \notin Lambda /\ r # "join" /\ r \notin {"sm", "rule", "gateway", "lt", "asg", "alb", "table", "key"}
  BY Kinds, KindsApart DEF Others, LambdaNames
<1>4. \A r \in {"sm", "rule", "gateway", "lt", "asg", "alb", "table", "key"} : r \notin Role /\ r \notin Lambda
  BY <1>1, <1>2
<1>5. \A r \in Role : Wanted(r) = {"policy"}
  BY <1>1 DEF Wanted
<1>6. "join" \notin Role
  BY <1>1
<1>7. Wanted("join") = {"role", "runtime", "arch", "tableName", "policy", "permission"}
  BY <1>6 DEF Wanted
<1>8. \A r \in Lambda \ {"join"} : Wanted(r) = {"role", "runtime", "arch", "tableName"}
  BY <1>2 DEF Wanted
<1>9. Wanted("sm") = {"role"} /\ Wanted("rule") = {"target"} /\ Wanted("lt") = {"latest"}
  BY <1>4 DEF Wanted
<1>10. Wanted("gateway") = {"deployment", "plan", "key", "planKey"} /\ Wanted("key") = {"alias"}
  BY <1>4 DEF Wanted
<1>11. Wanted("asg") = {"suspended", "targetGroup", "instances", "healthCheck"} /\ Wanted("alb") = AlbParts
  BY <1>4 DEF Wanted
<1>12. Wanted("table") = {"credentials", "settings", "build"}
  BY <1>4 DEF Wanted
<1>13. \A r \in Grouping : Wanted(r) = {}
  BY <1>3 DEF Wanted
<1> QED
  BY <1>5, <1>7, <1>8, <1>9, <1>10, <1>11, <1>12, <1>13

(* What import or update has done when it ends well.                       *)
LEMMA SettledFacts ==
    ASSUME IInv, Settled
    PROVE  /\ outcome = "ok" /\ cmd \in {"import", "update"} /\ todo = <<>> /\ plan = <<>> /\ Len(plan) = 0 /\ ~dry
           /\ \A r \in Role \union Lambda \union {"sm", "rule", "gateway", "lt", "asg"} :
                 tag[r] = target[r] /\ tag[r] # 0 /\ r \in visited
           /\ {"alb", "hostgroup"} \subseteq visited /\ AlbIsWhole
           /\ ~Destroying /\ ~ImportEnding
<1>1. outcome = "ok" /\ cmd \in {"import", "update"} /\ "cluster" \in visited
  BY DEF Settled
<1>2. stack = <<>> /\ todo = <<>> /\ plan = <<>> /\ ~dry /\ Types /\ P!IInv
  BY <1>1 DEF IInv, BInv, Control
<1>3. /\ {"alb", "hostgroup", "asg", "lt", "rule", "gateway", "sm"} \subseteq visited
      /\ Lambda \subseteq visited /\ Role \subseteq visited
  BY <1>1, ClusterTree
<1>4. \A r \in Role \union Lambda \union {"sm", "rule", "gateway", "lt", "asg"} : r \notin Grouping /\ r # "alb"
  BY Kinds, KindsApart DEF Others
<1>5. \A r \in Role \union Lambda \union {"sm", "rule", "gateway", "lt", "asg"} : tag[r] = target[r] /\ tag[r] # 0
  BY <1>2, <1>3, <1>4, VisitedExists DEF Exists
<1>6. AlbIsWhole
  <2>1. ~P!At("work")
    BY <1>2 DEF P!At, P!Idle
  <2> QED
    BY <1>2, <1>3, <2>1, AtTargetIs DEF P!IInv, P!TagsRight, P!VisitedDeployed
<1> QED
  BY <1>1, <1>2, <1>3, <1>5, <1>6 DEF Destroying, ImportEnding

(* A second half without faults. *)
LEMMA HalfSettled ==
    ASSUME HalvesMade, GroupServed, Faultless, todo = <<>>, NEW x \in HalfParts, tag[x[1]] # 0, tag[x[1]] = target[x[1]],
           x = HealthCheck => ~Destroying /\ ~ImportEnding
    PROVE  x \in parts
<1>1. x \in parts \/ (IF x = HealthCheck THEN Elb \notin parts ELSE ~Due(x, tag[x[1]]))
  BY HalfBefore
<1>2. x # HealthCheck => Due(x, tag[x[1]])
  BY DEF Due
<1>3. x = HealthCheck => Elb \in parts
  BY DEF GroupServed, Faultless, Exists, HealthCheck
<1> QED
  BY <1>1, <1>2, <1>3

(* The parts in place when import or update has ended well, one kind of    *)
(* resource after the other.                                               *)
LEMMA PartsSettled ==
    ASSUME IInv, DInv, LiveInv, Targets, Listed /\ JoinInv, WholeInv, RolesLive, Settled
    PROVE  /\ \A r \in Role : Faultless => <<r, "policy">> \in parts
           /\ \A l \in Lambda : /\ {<<l, "role">>, <<l, "arch">>} \subseteq parts
                                /\ quiet = 0 => <<l, "runtime">> \in parts
                                /\ "destroy" \notin cut => <<l, "tableName">> \in parts
           /\ Policy \in parts /\ ("join" \in missed \/ {Permission} \union Four \subseteq parts)
           /\ <<"sm", "role">> \in parts /\ Target \in parts
           /\ Faultless => {Latest, <<"asg", "suspended">>, HealthCheck, <<"key", "alias">>} \subseteq parts
           /\ TG \in parts /\ (cmd = "import" \/ Faultless => Instances \in parts)
           /\ AlbIsWhole /\ {Credentials, Setting, Build} \subseteq parts
           /\ "destroy" \in cut \/ "join" \in missed => ~Faultless
<1>1. /\ outcome = "ok" /\ cmd \in {"import", "update"} /\ todo = <<>> /\ Len(plan) = 0 /\ ~dry
      /\ \A r \in Role \union Lambda \union {"sm", "rule", "gateway", "lt", "asg"} :
            tag[r] = target[r] /\ tag[r] # 0 /\ r \in visited
      /\ {"alb", "hostgroup"} \subseteq visited /\ AlbIsWhole
      /\ ~Destroying /\ ~ImportEnding
  BY SettledFacts
<1>2. /\ Counted /\ LambdaKept /\ Gated /\ Attached /\ Saved /\ Credited
      /\ HalvesMade /\ NoOldKey /\ GroupServed
  BY DEF WholeInv
<1>3. /\ \A u \in RoleUser \ {"rule"} : <<u, "role">> \in parts
      /\ LiveTargets # {} /\ (Permission \in parts \/ "join" \in missed)
  BY DEF RolesLive, Has, Permission
<1>4. \A x : In(x) => x \in parts
  BY <1>1 DEF In, Brings
<1>5. Faultless => cut = {} /\ missed = {}
  BY <1>2 DEF Counted, Faultless
<1>6. ASSUME Faultless, NEW x \in HalfParts, x[1] # "key" PROVE x \in parts
  <2>1. x[1] \in Role \union {"asg"}
    BY <1>6, HalfPartsAre
  <2>2. tag[x[1]] # 0 /\ tag[x[1]] = target[x[1]]
    BY <2>1, <1>1
  <2> QED
    BY <2>2, <1>1, <1>2, <1>6, HalfSettled
<1>7. \A r \in Role : Faultless => <<r, "policy">> \in parts
  <2> SUFFICES ASSUME NEW r \in Role, Faultless PROVE <<r, "policy">> \in parts
    OBVIOUS
  <2>1. <<r, "policy">> \in HalfParts
    BY DEF HalfParts, SecondHalves
  <2>2. r # "key"
    BY Kinds, KindsApart DEF Others
  <2> QED
    BY <1>6, <2>1, <2>2
<1>8. ASSUME NEW l \in Lambda
      PROVE  /\ {<<l, "role">>, <<l, "arch">>} \subseteq parts
             /\ quiet = 0 => <<l, "runtime">> \in parts
             /\ "destroy" \notin cut => <<l, "tableName">> \in parts
  <2>1. \A p \in {"arch", "runtime", "tableName"} : <<l, p>> \in LambdaParts
    BY DEF LambdaParts
  <2>2. \A p \in {"arch", "runtime", "tableName"} : Counts(<<l, p>>, tag[l])
    BY <1>1 DEF Counts
  <2>3. \A p \in {"arch", "runtime", "tableName"} : Sure(<<l, p>>) => <<l, p>> \in parts
    BY <1>2, <2>1, <2>2 DEF LambdaKept, MadeWhole
  <2>4. l \in RoleUser \ {"rule"}
    BY Kinds, KindsApart DEF Others
  <2> QED
    BY <1>3, <2>3, <2>4 DEF Sure
<1>9. Policy \in parts
  <2>1. "gateway" \in visited \intersect Users
    BY <1>1 DEF Users
  <2>2. Live("gateway")
    BY <1>1, <2>1 DEF LiveInv, Visits
  <2> QED
    BY <2>2 DEF Live, Marks
<1>10. "join" \in missed \/ {Permission} \union Four \subseteq parts
  BY <1>2, <1>3 DEF Gated
<1>11. <<"sm", "role">> \in parts
  BY <1>3, Kinds
<1>12. Target \in parts
  <2>1. Target \in parts \/ Again \in parts
    BY <1>3 DEF LiveTargets, Has, Target, Again
  <2> QED
    BY <2>1 DEF Targets
<1>13. Faultless => Latest \in parts
  <2> SUFFICES ASSUME Faultless PROVE Latest \in parts
    OBVIOUS
  <2>1. ~Excused
    BY <1>1, <1>5 DEF Excused
  <2>2. Exists("lt")
    BY <1>1 DEF Exists
  <2>3. OldKey \notin parts
    BY <1>1, <1>2 DEF NoOldKey, KeyGoes
  <2> QED
    BY <2>1, <2>2, <2>3 DEF JoinInv, JoinsThere
<1>14. Faultless => {<<"asg", "suspended">>, HealthCheck} \subseteq parts
  <2>1. <<"asg", "suspended">> \in HalfParts /\ HealthCheck \in HalfParts /\ HealthCheck[1] = "asg"
    BY DEF HalfParts, SecondHalves, HealthCheck
  <2> QED
    BY <1>6, <2>1
<1>15. {Credentials, Setting, Build} \subseteq parts
  <2>1. Setting \in parts /\ Build \in parts
    <3>1. CASE cmd = "import"
      BY <3>1, <1>1, <1>2, <1>4 DEF Saved, Reached
    <3>2. CASE cmd = "update"
      BY <3>2, <1>1, <1>2, <1>4 DEF Saved, Reached, Updates
    <3> QED
      BY <1>1, <3>1, <3>2
  <2>2. In(Setting)
    BY <2>1 DEF In
  <2> QED
    BY <1>2, <2>1, <2>2 DEF Credited
<1>16. Faultless => <<"key", "alias">> \in parts
  <2> SUFFICES ASSUME Faultless PROVE <<"key", "alias">> \in parts
    OBVIOUS
  <2>1. Setting[1] = "table" /\ Setting \notin Old
    BY DEF Setting, Old, Of
  <2>2. Exists("table")
    BY <1>15, <2>1 DEF IInv, BInv, Owned
  <2>3. tag["key"] # 0
    BY <1>5, <2>2 DEF DInv, KeyKept, Exists
  <2> DEFINE x == <<"key", "alias">>
  <2>4. x \in HalfParts /\ x[1] = "key" /\ x[2] = "alias" /\ x # HealthCheck
    BY DEF HalfParts, SecondHalves, HealthCheck
  <2>5. Due(x, tag["key"])
    BY <2>3, <2>4 DEF Due
  <2> QED
    BY <1>1, <1>2, <2>4, <2>5, HalfBefore
<1>17. TG \in parts
  BY <1>1, <1>2 DEF Attached
<1>18. cmd = "import" \/ Faultless => Instances \in parts
  <2>1. ASSUME cmd = "import" PROVE Instances \in parts
    BY <2>1, <1>1, <1>2, <1>4 DEF Saved, Reached
  <2>2. ASSUME Faultless PROVE Instances \in parts
    BY <2>2, <1>1, <1>2 DEF GroupServed, Faultless, Exists
  <2> QED
    BY <2>1, <2>2
<1>19. "destroy" \in cut \/ "join" \in missed => ~Faultless
  BY <1>5
<1> QED
  BY <1>1, <1>7, <1>8, <1>9, <1>10, <1>11, <1>12, <1>13, <1>14, <1>15, <1>16, <1>17, <1>18, <1>19

(* SuccessIsWhole: an import or an update that succeeds leaves every       *)
(* resource whole, whatever was interrupted before, but for the second     *)
(* halves that no run makes good; without an interruption nothing at all   *)
(* is missing.                                                             *)
THEOREM SuccessCorrect == Spec => []SuccessIsWhole
<1>1. ASSUME IInv, DInv, LiveInv, Targets, Listed /\ JoinInv, WholeInv, RolesLive PROVE SuccessIsWhole
  <2> DEFINE but == IF Faultless THEN {}
                    ELSE NeverRepaired \union Of("lt", {"latest"})
                         \union (IF "join" \in missed THEN OldJoinPolicy ELSE {})
                         \union (IF "destroy" \in cut THEN TableNames ELSE {})
                         \union Of("asg", IF cmd = "import" THEN {} ELSE {"instances"})
             ok == parts \union but
  <2> SUFFICES ASSUME Settled, NEW r \in Resource, NEW p \in Wanted(r) PROVE <<r, p>> \in ok
    <3>1. (Settled => Whole(but)) => SuccessIsWhole
      BY DEF SuccessIsWhole, Faultless
    <3> HIDE DEF but
    <3>2. Whole(but) <=> \A r \in Resource : \A p \in Wanted(r) : <<r, p>> \in ok
      BY DEF Whole, Of
    <3> QED
      BY <3>1, <3>2
  <2>1. /\ \A q \in Role : Faultless => <<q, "policy">> \in parts
        /\ \A l \in Lambda : /\ {<<l, "role">>, <<l, "arch">>} \subseteq parts
                             /\ quiet = 0 => <<l, "runtime">> \in parts
                             /\ "destroy" \notin cut => <<l, "tableName">> \in parts
        /\ Policy \in parts /\ ("join" \in missed \/ {Permission} \union Four \subseteq parts)
        /\ <<"sm", "role">> \in parts /\ Target \in parts
        /\ Faultless => {Latest, <<"asg", "suspended">>, HealthCheck, <<"key", "alias">>} \subseteq parts
        /\ TG \in parts /\ (cmd = "import" \/ Faultless => Instances \in parts)
        /\ AlbIsWhole /\ {Credentials, Setting, Build} \subseteq parts
        /\ "destroy" \in cut \/ "join" \in missed => ~Faultless
    BY <1>1, PartsSettled
  <2>2. /\ \A q \in Role : ~Faultless => <<q, "policy">> \in but
        /\ \A l \in Lambda : ~Faultless => <<l, "runtime">> \in but
        /\ ~Faultless => {Latest, <<"asg", "suspended">>, HealthCheck, <<"key", "alias">>} \subseteq but
    BY DEF NeverRepaired, Of, Latest, HealthCheck
  <2>3. \A l \in Lambda : "destroy" \in cut => <<l, "tableName">> \in but
    BY <2>1 DEF TableNames, Of
  <2>4. "join" \in missed => {Permission} \union Four \subseteq but
    <3>1. {Permission} \union Four \subseteq OldJoinPolicy
      BY WantedIs DEF OldJoinPolicy, Four, Of, Permission
    <3> QED
      BY <3>1, <2>1
  <2>5. ~Faultless /\ cmd # "import" => Instances \in but
    BY DEF Instances, Of
  <2>6. quiet # 0 => ~Faultless
    BY DEF Faultless
  <2> HIDE DEF but
  <2>7. CASE r \in Role
    BY <2>7, <2>1, <2>2, WantedIs
  <2>8. \A l \in Lambda : \A q \in {"role", "runtime", "arch", "tableName"} : <<l, q>> \in ok
    <3> SUFFICES ASSUME NEW l \in Lambda
                 PROVE  <<l, "role">> \in ok /\ <<l, "runtime">> \in ok /\ <<l, "arch">> \in ok /\ <<l, "tableName">> \in ok
      OBVIOUS
    <3>1. <<l, "role">> \in parts /\ <<l, "arch">> \in parts
      BY <2>1
    <3>2. <<l, "runtime">> \in ok
      BY <2>1, <2>2, <2>6
    <3>3. <<l, "tableName">> \in ok
      BY <2>1, <2>3
    <3> QED
      BY <3>1, <3>2, <3>3
  <2>9. CASE r = "join"
    <3>1. {Policy, Permission} \subseteq ok
      BY <2>1, <2>4
    <3>2. \A q \in {"role", "runtime", "arch", "tableName"} : <<"join", q>> \in ok
      BY <2>8, Kinds
    <3>3. \A q \in {"policy", "permission"} : <<"join", q>> \in ok
      BY <3>1 DEF Policy, Permission
    <3>4. p \in {"role", "runtime", "arch", "tableName", "policy", "permission"}
      BY <2>9, WantedIs
    <3> QED
      BY <2>9, <3>2, <3>3, <3>4
  <2>10. CASE r \in Lambda \ {"join"}
    <3>1. Wanted(r) = {"role", "runtime", "arch", "tableName"}
      BY <2>10, WantedIs
    <3>2. p \in {"role", "runtime", "arch", "tableName"}
      BY <3>1
    <3> QED
      BY <2>10, <2>8, <3>2
  <2>11. CASE r = "sm" \/ r = "rule"
    BY <2>11, <2>1, WantedIs DEF Target
  <2>12. CASE r = "gateway"
    <3>1. Four \subseteq ok
      BY <2>1, <2>4
    <3>2. <<r, p>> \in Four
      BY <2>12, WantedIs DEF Four, Of
    <3> QED
      BY <3>1, <3>2
  <2>13. CASE r = "lt" \/ r = "key"
    BY <2>13, <2>1, <2>2, WantedIs DEF Latest
  <2>14. CASE r = "asg"
    <3>1. {<<"asg", "suspended">>, HealthCheck, TG, Instances} \subseteq ok
      BY <2>1, <2>2, <2>5
    <3>2. p \in {"suspended", "targetGroup", "instances", "healthCheck"}
      BY <2>14, WantedIs
    <3> QED
      BY <2>14, <3>1, <3>2 DEF HealthCheck, TG, Instances
  <2>15. CASE r = "alb"
    BY <2>15, <2>1, WantedIs DEF AlbIsWhole, Has
  <2>16. CASE r = "table"
    <3>1. p \in {"credentials", "settings", "build"}
      BY <2>16, WantedIs
    <3> QED
      BY <2>16, <3>1, <2>1 DEF Credentials, Setting, Build
  <2>17. r \notin Grouping
    BY WantedIs
  <2> QED
    BY <2>7, <2>9, <2>10, <2>11, <2>12, <2>13, <2>14, <2>15, <2>16, <2>17, Kinds DEF Others
<1> QED
  BY <1>1, IInvCorrect, DInvCorrect, LiveCorrect, TargetsCorrect, JoinCorrect, WholeCorrect,
     RolesLiveCorrect, PTL

=============================================================================
