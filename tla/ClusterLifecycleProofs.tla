----------------------- MODULE ClusterLifecycleProofs -----------------------
(***************************************************************************)
(* What holds of import, update and destroy for every set of lambdas and   *)
(* of upgraded resources and any number of commands, failures and listings *)
(* that leave something out.                                               *)
(*                                                                         *)
(* The invariant says of every function in progress what its remaining     *)
(* calls can still do (Pending): which resources and parts they touch,     *)
(* that the tag is at the version of this wekactl once they are made, and  *)
(* that nothing is put on a resource that is not there (Owned).  It is     *)
(* inductive together with the invariant of ResourceTree, which the        *)
(* refinement gives to the commands.                                       *)
(*                                                                         *)
(* On it stand the invariants of one concern each: Targets (the targets of *)
(* the rule), DInv (what a destroy removes and what commands keep for each *)
(* other), LiveInv and PolicyInv (what EnsureResource leaves in use) and   *)
(* Torn (what a function stops on).  StepKinds says once what a step does  *)
(* to the calls that remain.                                               *)
(***************************************************************************)
EXTENDS ClusterLifecycle, SequenceTheorems, FiniteSetTheorems, TLAPS

(* ResourceTree with its theorems. *)
P == INSTANCE ResourceTreeProofs WITH
    deployed <- [r \in Resource |-> Deployed(r)],
    Versions <- {1, 2}

-----------------------------------------------------------------------------
(* The parts a resource can have. *)
Names(r) ==
    CASE r \in Role -> {"policy"}
      [] r \in Lambda -> {"role", "runtime", "arch", "tableName", "policy", "permission"}
      [] r = "sm" -> {"role"}
      [] r = "rule" -> RuleTargets
      [] r = "gateway" -> {"deployment", "plan", "key", "planKey", "oldPlan", "oldKey"}
      [] r = "lt" -> {"single", "first", "latest"}
      [] r = "asg" -> {"suspended", "latest", "instances", "elb", "healthCheck", "targetGroup"}
      [] r = "alb" -> AlbParts
      [] r = "table" -> {"credentials", "settings", "build"}
      [] r = "key" -> {"alias"}
      [] OTHER -> {}
Part == UNION {Of(r, Names(r)) : r \in Resource}
CallSet == [r : Resource \union {"stop"}, version : 0 .. 2, put : SUBSET Part, drop : SUBSET Part]

Types ==
    /\ tag \in [Resource -> 0 .. 2]
    /\ parts \subseteq Part
    /\ target \in [Resource -> {1, 2}]
    /\ made \in BOOLEAN
    /\ cmd \in Commands \union {"none"}
    /\ outcome \in {"none", "running", "ok", "aborted", "stuck"}
    /\ todo \in Seq(CallSet)
    /\ missed \subseteq Resource

(* The versions that never changed, and the resources without a tag. *)
TagsKnown ==
    /\ \A r \in Resource \ Upgraded : target[r] = 1 /\ tag[r] # 2
    /\ \A r \in Grouping \union {"alb"} : tag[r] = 0

(* What is left of the plan of a command is the end of its full plan. *)
Saves == {"credentials", "settings", "migrate"}
Attaches == {"attach", "loadBalancer"}
Clean == {"record", "iam", "lambdas", "gateway", "lt", "sm", "rule", "asg", "alb", "db", "kms"}
StepName == Saves \union Attaches \union Clean \union Roots

EndOf(s, full) ==
    /\ s \in Seq(StepName)
    /\ Len(s) <= Len(full)
    /\ \A i \in 1 .. Len(s) : s[i] = full[Len(full) - Len(s) + i]
ImportPlan == <<"table", "credentials", "settings", "cluster", "attach", "loadBalancer">>
UpdatePlan(root) == <<"migrate", "table", root>>
DestroyPlan ==
    <<"record", "iam", "lambdas", "gateway", "lt", "sm", "rule", "asg", "alb", "db", "kms">>

PlanKnown ==
    /\ cmd = "import" => EndOf(plan, ImportPlan)
    /\ cmd \in {"update", "dryUpdate"} => \E root \in {"cluster", "bare"} : EndOf(plan, UpdatePlan(root))
    /\ cmd = "destroy" => EndOf(plan, DestroyPlan)

Control ==
    /\ outcome # "running" => stack = <<>> /\ todo = <<>> /\ plan = <<>>
    /\ stack # <<>> /\ todo # <<>> => Top.step = "work"
    /\ stack # <<>> => cmd \in {"import", "update", "dryUpdate"}
    /\ cmd = "destroy" => visited = {}
    /\ cmd = "none" => outcome # "running" /\ visited = {}
    /\ dry /\ (visited # {} \/ stack # <<>>) => cmd = "dryUpdate"

(* The calls of Create or Update of r. *)
Touched(r) ==
    {r} \union (IF r = "gateway" THEN {"join", "lt"} ELSE {})
        \union (IF r = "hostgroup" THEN {"asg"} ELSE {})
EnsureCall(r, c) ==
    \/ c = Stop /\ r \in {"alb", "table"}
    \/ /\ c.r # "stop"
       /\ \/ c.r = r /\ r \notin Grouping \union {"alb"} /\ c.version \in {tag[r], target[r]}
          \/ /\ c.r = r /\ r \in Grouping \union {"alb"} /\ c.version = 0 /\ c.drop = {}
             /\ r # "alb" => c.put \subseteq Of("asg", {"targetGroup"})
          \/ c.r = r /\ r = "gateway" /\ c.version = 0
          \/ c.r = "join" /\ r = "gateway" /\ c.version = tag["join"]
       /\ \A x \in c.put \union c.drop : x[1] \in Touched(r)
       /\ \A x \in c.drop : x[1] \in Role \union {"gateway", "lt"} \/ x = <<"join", "permission">>
       /\ ErrorIgnored(c) => c.drop = {}

(* Once it has the version of this wekactl it keeps it. *)
FinalsLast(r, s) ==
    \A i, j \in 1 .. Len(s) :
        i < j /\ s[i].r = r /\ s[j].r = r /\ s[i].version = target[r] => s[j].version = target[r]

(* And it gets there, or the code stops by itself. *)
Stops(s) == \E i \in 1 .. Len(s) : s[i] = Stop
Leads(r, s) ==
    /\ r \notin Grouping \union {"alb"} =>
        \/ Stops(s)
        \/ \E i \in 1 .. Len(s) : s[i].r = r /\ s[i].version = target[r] /\ ~ErrorIgnored(s[i])
        \/ tag[r] = target[r] /\ \A i \in 1 .. Len(s) : s[i].r = r => s[i].version = target[r]
    /\ r = "alb" =>
        \A p \in AlbParts :
            Has("alb", p) \/ Stops(s) \/ \E i \in 1 .. Len(s) : <<"alb", p>> \in s[i].put

(* The usage plan and the key that a deletion of the gateway leaves. *)
Old == Of("gateway", {"oldPlan", "oldKey"})

(* The calls a command makes itself. *)
Near(r) ==
    {r} \union (IF r \in Role THEN RoleUser ELSE {}) \union (IF r = "gateway" THEN {"join", "lt"} ELSE {})
OutsideCall(c) ==
    /\ c.r \in Resource
    /\ c.version \in {0, tag[c.r]}
    /\ IF cmd = "destroy" THEN c.put \subseteq Old \union Of("rule", {"stale"})
       ELSE /\ c.version = tag[c.r] /\ c.drop = {}
            /\ \A x \in c.put : x[1] = c.r /\ c.r # "alb"
    /\ cmd \in {"update", "dryUpdate"} => c.r = "table"
    /\ \A x \in c.put \union c.drop : x[1] \in Near(c.r)
RemovalsLast(s) ==
    \A i, j \in 1 .. Len(s) :
        /\ i < j /\ s[i].r = s[j].r /\ s[i].version = 0 => s[j].version = 0
        /\ s[i].r \in Role => s[j].r \in Role

(* Parts are put on what is there, and are gone when it goes. *)
PutOwned(c) ==
    \A x \in c.put :
        \/ x[1] = "alb" \/ x \in Old
        \/ x[1] = c.r /\ c.version # 0
        \/ c.r = "hostgroup" /\ Exists(x[1])
        \/ c.r \in Role /\ x[1] = "rule" /\ Exists("rule")
Clears(s) ==
    \A i \in 1 .. Len(s) :
        s[i].version = 0 /\ s[i].r \notin Grouping \union {"alb", "stop"} =>
            /\ \A x \in PartsOf(s[i].r) : x \in Old \/ \E j \in 1 .. i : x \in s[j].drop
            /\ \A j \in 1 .. i : \A x \in s[j].put : x[1] = s[i].r => x \in Old
Owned == \A x \in parts : x[1] = "alb" \/ x \in Old \/ Exists(x[1])

Both(s) == (\A i \in 1 .. Len(s) : PutOwned(s[i])) /\ Clears(s)
InEnsure(r, s) == (\A i \in 1 .. Len(s) : EnsureCall(r, s[i])) /\ FinalsLast(r, s) /\ Both(s)
OfCommand(s) == (\A i \in 1 .. Len(s) : OutsideCall(s[i])) /\ RemovalsLast(s) /\ Both(s)

Pending ==
    /\ stack = <<>> => OfCommand(todo)
    /\ stack # <<>> => InEnsure(Top.r, todo)
    /\ stack # <<>> /\ Top.step = "work" => Leads(Top.r, todo)

(* Where a command is, and what it has ensured by then. *)
Position ==
    /\ stack # <<>> =>
        /\ cmd = "import" => Len(plan) \in {2, 5} /\ stack[1].r = ImportPlan[6 - Len(plan)]
        /\ cmd \in {"update", "dryUpdate"} => Len(plan) \in {0, 1}
        /\ stack[1].r \in Roots
        /\ stack[1].r = "table" <=> (IF cmd = "import" THEN Len(plan) = 5 ELSE Len(plan) = 1)
        /\ dry <=> cmd = "dryUpdate" /\ stack[1].r # "table"
    /\ outcome = "running" /\ stack = <<>> /\ cmd = "import" =>
        /\ Len(plan) \in {3, 4, 5} => "table" \in visited
        /\ Len(plan) <= 2 => "cluster" \in visited
    /\ outcome = "running" /\ cmd \in {"update", "dryUpdate"} /\ Len(plan) = 3 =>
        stack = <<>> /\ todo = <<>> /\ Has("table", "settings")

BInv == Types /\ TagsKnown /\ Control /\ (outcome = "running" => PlanKnown) /\ Pending /\ Owned /\ Position

-----------------------------------------------------------------------------
(* The kinds of resources. *)
RoleNames == {"joinRole", "fetchRole", "scaleRole", "terminateRole", "smRole", "ruleRole"}
LambdaNames == {"join", "fetch", "scale", "terminate"}
Others == {"sm", "rule", "gateway", "lt", "asg", "alb", "table", "key"}

LEMMA Kinds ==
    /\ Lambda \subseteq LambdaNames /\ "join" \in Lambda
    /\ Role \subseteq RoleNames /\ {"joinRole", "smRole", "ruleRole"} \subseteq Role
    /\ \A u \in RoleUser : RoleOf[u] \in Role
    /\ \A u, v \in RoleUser : RoleOf[u] = RoleOf[v] => u = v
    /\ RoleUser = Lambda \union {"sm", "rule"}
    /\ Resource = Role \union Lambda \union Grouping \union Others
    /\ ToSet(ScaleLambdas) \subseteq {"fetch", "scale", "terminate"}
    /\ Lambda = {"join"} \union ToSet(ScaleLambdas)
<1>1. \A i \in 1 .. Len(ScaleLambdas) : ScaleLambdas[i] \in {"fetch", "scale", "terminate"}
  BY ScaleLambdasAssumption, ElementOfSeq
<1>2. ToSet(ScaleLambdas) \subseteq {"fetch", "scale", "terminate"}
  BY <1>1, ScaleLambdasAssumption, LenProperties DEF ToSet
<1>3. Lambda \subseteq LambdaNames /\ "join" \in Lambda
  BY <1>2 DEF Lambda, LambdaNames
<1>4. RoleUser \subseteq LambdaNames \union {"sm", "rule"}
  BY <1>3 DEF RoleUser
<1>5. \A u \in RoleUser : RoleOf[u] \in RoleNames /\ RoleOf[u] \in Role
  BY <1>4 DEF RoleOf, RoleNames, LambdaNames, Role
<1>6. \A u, v \in RoleUser : RoleOf[u] = RoleOf[v] => u = v
  BY <1>4 DEF RoleOf, LambdaNames
<1>7. {"joinRole", "smRole", "ruleRole"} \subseteq Role
  BY <1>3 DEF Role, RoleUser, RoleOf
<1>8. Resource = Role \union Lambda \union Grouping \union Others
  BY DEF Resource, RoleUser, Others
<1> QED
  BY <1>2, <1>3, <1>5, <1>6, <1>7, <1>8 DEF Role, RoleUser, Lambda

LEMMA KindsApart ==
    /\ RoleNames \intersect (LambdaNames \union Grouping \union Others \union {"stop"}) = {}
    /\ LambdaNames \intersect (Grouping \union Others \union {"stop"}) = {}
    /\ Grouping \intersect (Others \union {"stop"}) = {}
    /\ "stop" \notin Others /\ "stop" \notin Resource
BY Kinds DEF RoleNames, LambdaNames, Grouping, Others

(* The tree of resources is one that ResourceTree speaks of. *)
LEMMA SubIsSeq == Sub \in [Resource -> Seq(Resource)]
<1>1. \A r \in Resource : Sub[r] \in Seq(Resource)
  <2> SUFFICES ASSUME NEW r \in Resource PROVE Sub[r] \in Seq(Resource)
    OBVIOUS
  <2>1. CASE r = "sm"
    <3>1. ScaleLambdas \in Seq(Resource) /\ <<RoleOf["sm"]>> \in Seq(Resource)
      <4>1. {"fetch", "scale", "terminate"} \intersect ToSet(ScaleLambdas) \subseteq Resource
        BY Kinds
      <4>2. \A i \in 1 .. Len(ScaleLambdas) : ScaleLambdas[i] \in Resource
        BY <4>1, ScaleLambdasAssumption, ElementOfSeq, LenProperties, Kinds DEF ToSet
      <4>3. ScaleLambdas = [i \in 1 .. Len(ScaleLambdas) |-> ScaleLambdas[i]] /\ Len(ScaleLambdas) \in Nat
        BY ScaleLambdasAssumption, LenProperties
      <4> QED
        BY <4>2, <4>3, Kinds
    <3>2. Sub[r] = ScaleLambdas \o <<RoleOf["sm"]>>
      BY <2>1, Kinds DEF Sub, Role
    <3> QED
      BY <3>1, <3>2, ConcatProperties
  <2>2. CASE r \in Role
    <3>1. Sub[r] = <<>>
      BY <2>2, Kinds, KindsApart DEF Sub, RoleNames, LambdaNames
    <3> QED
      BY <3>1
  <2>3. CASE r \in Lambda
    <3>1. Sub[r] = <<RoleOf[r]>> /\ RoleOf[r] \in Resource
      BY <2>3, Kinds, KindsApart DEF Sub, RoleNames, LambdaNames
    <3> QED
      BY <3>1
  <2>4. CASE r \in Grouping
    <3>1. \/ Sub[r] = <<"alb", "hostgroup">> \/ Sub[r] = <<"alb">> \/ Sub[r] = <<"asg">>
      BY <2>4, Kinds, KindsApart DEF Sub, Grouping
    <3>2. "alb" \in Resource /\ "hostgroup" \in Resource /\ "asg" \in Resource
      BY Kinds DEF Others, Grouping
    <3>3. {<<"alb", "hostgroup">>, <<"alb">>, <<"asg">>} \subseteq Seq(Resource)
      BY <3>2
    <3> QED
      BY <3>1, <3>3
  <2>5. CASE r \in Others \ {"sm"}
    <3>1. \/ Sub[r] = <<"lt", "rule">> \/ Sub[r] = <<"gateway">> \/ Sub[r] = <<"join">>
          \/ Sub[r] = <<"sm", "ruleRole">> \/ Sub[r] = <<"key">> \/ Sub[r] = <<>>
      BY <2>5, Kinds, KindsApart DEF Sub, Others, RoleOf
    <3>2. "lt" \in Resource /\ "rule" \in Resource /\ "gateway" \in Resource /\ "join" \in Resource
          /\ "sm" \in Resource /\ "ruleRole" \in Resource /\ "key" \in Resource
      BY Kinds DEF Others
    <3>3. {<<"lt", "rule">>, <<"gateway">>, <<"join">>, <<"sm", "ruleRole">>, <<"key">>, <<>>}
            \subseteq Seq(Resource)
      BY <3>2
    <3> QED
      BY <3>1, <3>3
  <2> QED
    BY <2>1, <2>2, <2>3, <2>4, <2>5, Kinds
<1>2. Sub = [r \in Resource |-> Sub[r]]
  BY DEF Sub
<1> QED
  BY <1>1, <1>2

LEMMA TreeAssumptions == P!SubAssumption /\ P!VersionsAssumption
<1>1. \A r \in Resource : \A i \in DOMAIN Sub[r] : Sub[r][i] # r
  <2> SUFFICES ASSUME NEW r \in Resource, NEW i \in DOMAIN Sub[r] PROVE Sub[r][i] # r
    OBVIOUS
  <2>1. CASE r = "sm"
    <3>1. ScaleLambdas \in Seq(Resource \union LambdaNames) /\ <<RoleOf["sm"]>> \in Seq(Resource \union LambdaNames)
      <4>1. RoleOf["sm"] \in Resource /\ {"fetch", "scale", "terminate"} \subseteq LambdaNames
        BY Kinds DEF LambdaNames
      <4> QED
        BY <4>1, ScaleLambdasAssumption, SeqMonotonic
    <3>2. Sub[r] = ScaleLambdas \o <<RoleOf["sm"]>>
      BY <2>1, Kinds DEF Sub, Role
    <3>3. i \in 1 .. Len(ScaleLambdas) + 1
      BY <3>1, <3>2, ConcatProperties, LenProperties
    <3>4. Len(ScaleLambdas) \in Nat
      BY <3>1, LenProperties
    <3>5. CASE i <= Len(ScaleLambdas)
      <4>1. i \in 1 .. Len(ScaleLambdas) /\ Sub[r][i] = ScaleLambdas[i]
        BY <3>1, <3>2, <3>3, <3>4, <3>5, ConcatProperties
      <4> QED
        BY <2>1, <4>1, ScaleLambdasAssumption, ElementOfSeq
    <3>6. CASE i = Len(ScaleLambdas) + 1
      BY <2>1, <3>1, <3>2, <3>3, <3>4, <3>6, ConcatProperties DEF RoleOf
    <3> QED
      BY <3>3, <3>4, <3>5, <3>6
  <2>2. CASE r \in Role
    <3>1. Sub[r] = <<>>
      BY <2>2, Kinds, KindsApart DEF Sub, RoleNames, LambdaNames
    <3> QED
      BY <3>1
  <2>3. CASE r \in Lambda
    <3>1. Sub[r] = <<RoleOf[r]>> /\ RoleOf[r] \in RoleNames /\ r \in LambdaNames
      BY <2>3, Kinds, KindsApart DEF Sub, RoleNames, LambdaNames
    <3> QED
      BY <3>1, KindsApart
  <2>4. CASE r \in (Grouping \union Others) \ {"sm"}
    BY <2>4, Kinds, KindsApart DEF Sub, Grouping, Others, RoleOf, RoleNames, LambdaNames
  <2> QED
    BY <2>1, <2>2, <2>3, <2>4, Kinds
<1>2. \A r \in Resource : r \notin Tree!SubsOf(r)
  BY <1>1 DEF Tree!SubsOf
<1> QED
  BY <1>2, SubIsSeq DEF P!SubAssumption, P!VersionsAssumption, P!SubsOf, Tree!SubsOf

-----------------------------------------------------------------------------
(* Parts, and the calls that put and drop them. *)
LEMMA OfFacts ==
    ASSUME NEW r, NEW ps
    PROVE  /\ \A x \in Of(r, ps) : x[1] = r /\ x[2] \in ps /\ x = <<r, x[2]>>
           /\ \A p : <<r, p>> \in Of(r, ps) <=> p \in ps
           /\ \A x \in PartsOf(r) : x[1] = r /\ x \in parts
BY DEF Of, PartsOf

LEMMA OfIsPart ==
    ASSUME NEW r \in Resource, NEW ps, ps \subseteq Names(r)
    PROVE  Of(r, ps) \subseteq Part
BY DEF Of, Part

LEMMA PartFacts ==
    ASSUME NEW x \in Part
    PROVE  x[1] \in Resource /\ x[2] \in Names(x[1]) /\ x = <<x[1], x[2]>>
BY DEF Of, Part

LEMMA NamesOf ==
    /\ \A r \in Role : Names(r) = {"policy"}
    /\ \A r \in Lambda : Names(r) = {"role", "runtime", "arch", "tableName", "policy", "permission"}
    /\ Names("sm") = {"role"}
    /\ Names("rule") = RuleTargets
    /\ Names("gateway") = {"deployment", "plan", "key", "planKey", "oldPlan", "oldKey"}
    /\ Names("lt") = {"single", "first", "latest"}
    /\ Names("asg") = {"suspended", "latest", "instances", "elb", "healthCheck", "targetGroup"}
    /\ Names("alb") = AlbParts
    /\ Names("table") = {"credentials", "settings", "build"}
    /\ Names("key") = {"alias"}
<1>1. \A r \in Role : Names(r) = {"policy"}
  BY Kinds, KindsApart DEF Names, RoleNames, Others
<1>2. \A r \in Lambda : Names(r) = {"role", "runtime", "arch", "tableName", "policy", "permission"}
  BY Kinds, KindsApart DEF Names, RoleNames, LambdaNames, Others
<1>3. \A r \in Others : r \notin Role /\ r \notin Lambda
  BY Kinds, KindsApart DEF RoleNames, LambdaNames
<1> HIDE DEF Others
<1>4. {"sm", "rule", "gateway", "lt", "asg", "alb", "table", "key"} \subseteq Others
  BY DEF Others
<1>5. Names("sm") = {"role"} /\ Names("rule") = RuleTargets
  BY <1>3, <1>4 DEF Names
<1>6. Names("gateway") = {"deployment", "plan", "key", "planKey", "oldPlan", "oldKey"}
      /\ Names("lt") = {"single", "first", "latest"}
  BY <1>3, <1>4 DEF Names
<1>7. Names("asg") = {"suspended", "latest", "instances", "elb", "healthCheck", "targetGroup"}
      /\ Names("alb") = AlbParts
  BY <1>3, <1>4 DEF Names
<1>8. Names("table") = {"credentials", "settings", "build"} /\ Names("key") = {"alias"}
  BY <1>3, <1>4 DEF Names
<1> QED
  BY <1>1, <1>2, <1>5, <1>6, <1>7, <1>8

LEMMA CallIsCall ==
    ASSUME NEW r \in Resource, NEW v \in 0 .. 2, NEW put \in SUBSET Part, NEW drop \in SUBSET Part
    PROVE  /\ Call(r, v, put, drop) \in CallSet
           /\ Call(r, v, put, drop).r = r
           /\ Call(r, v, put, drop).version = v
           /\ Call(r, v, put, drop).put = put
           /\ Call(r, v, put, drop).drop = drop
           /\ Call(r, v, put, drop) # Stop
<1>1. Call(r, v, put, drop).r = r /\ Stop.r = "stop"
  BY DEF Call, Stop
<1> QED
  BY <1>1, KindsApart DEF Call, CallSet

LEMMA StopIsCall == Stop \in CallSet /\ Stop.r = "stop" /\ Stop.version = 0 /\ Stop.put = {} /\ Stop.drop = {}
BY DEF Stop, Call, CallSet

(* The calls about one resource. *)
LEMMA Calls ==
    ASSUME Types, NEW r \in Resource, NEW ps, ps \subseteq Names(r)
    PROVE  /\ Puts(r, ps) \in CallSet /\ Puts(r, ps).r = r /\ Puts(r, ps).version = tag[r]
           /\ Puts(r, ps).put = Of(r, ps) /\ Puts(r, ps).drop = {}
           /\ Drops(r, ps) \in CallSet /\ Drops(r, ps).r = r /\ Drops(r, ps).version = tag[r]
           /\ Drops(r, ps).put = {} /\ Drops(r, ps).drop = Of(r, ps)
           /\ Tags(r) \in CallSet /\ Tags(r).r = r /\ Tags(r).version = target[r]
           /\ Tags(r).put = {} /\ Tags(r).drop = {}
           /\ Removes(r) \in CallSet /\ Removes(r).r = r /\ Removes(r).version = 0
           /\ Removes(r).put = {} /\ Removes(r).drop = PartsOf(r)
           /\ Call(r, target[r], Of(r, ps), {}) \in CallSet
           /\ Call(r, target[r], Of(r, ps), {}).r = r
           /\ Call(r, target[r], Of(r, ps), {}).version = target[r]
           /\ Call(r, target[r], Of(r, ps), {}).put = Of(r, ps)
           /\ Call(r, target[r], Of(r, ps), {}).drop = {}
<1>1. tag[r] \in 0 .. 2 /\ target[r] \in 0 .. 2 /\ 0 \in 0 .. 2
  BY DEF Types
<1>2. Of(r, ps) \in SUBSET Part /\ {} \in SUBSET Part /\ PartsOf(r) \in SUBSET Part
  BY OfIsPart DEF Types, PartsOf
<1> QED
  BY <1>1, <1>2, CallIsCall DEF Puts, Drops, Tags, Removes

LEMMA NotIgnored ==
    ASSUME NEW c, c.put = {} \/ \E x \in c.put : x[2] \notin {"alias", "runtime"}
    PROVE  ~ErrorIgnored(c)
<1>1. SUFFICES ASSUME NEW r, NEW p \in {"alias", "runtime"}, c.put = Of(r, {p}) PROVE FALSE
  BY DEF ErrorIgnored
<1>2. <<r, p>> \in c.put /\ \A x \in c.put : x[2] = p
  BY <1>1, OfFacts
<1> QED
  BY <1>1, <1>2

LEMMA IgnoredPut ==
    ASSUME NEW c, ErrorIgnored(c)
    PROVE  /\ \E r \in {"key"} \union Lambda : \E x \in c.put : x[1] = r
           /\ \A x \in c.put : x[1] \in {"key"} \union Lambda /\ x[1] \notin Role \union {"gateway", "lt", "alb"}
<1>1. PICK r \in {"key"} \union Lambda, p \in {"alias", "runtime"} : c.put = Of(r, {p})
  BY DEF ErrorIgnored
<1>2. <<r, p>> \in c.put /\ <<r, p>>[1] = r /\ \A x \in c.put : x[1] = r
  BY <1>1, OfFacts
<1>3. r \notin Role \union {"gateway", "lt", "alb"}
  BY Kinds, KindsApart DEF Others
<1> QED
  BY <1>2, <1>3

(* Calls that all are about r and keep it. *)
Own(r, c) ==
    /\ c.r = r
    /\ c.version \in {tag[r], target[r]}
    /\ c.version # 0
    /\ \A x \in c.put \union c.drop : x[1] = r
    /\ r \notin Grouping
    /\ c.drop # {} => r \in Role \union {"gateway", "lt"}

LEMMA OwnCalls ==
    ASSUME NEW r \in Resource, r # "alb", NEW s, \A i \in 1 .. Len(s) : Own(r, s[i]), FinalsLast(r, s)
    PROVE  InEnsure(r, s)
<1>1. \A i \in 1 .. Len(s) : EnsureCall(r, s[i])
  <2> SUFFICES ASSUME NEW i \in 1 .. Len(s) PROVE EnsureCall(r, s[i])
    OBVIOUS
  <2> DEFINE c == s[i]
  <2>1. Own(r, c)
    OBVIOUS
  <2> HIDE DEF c
  <2>2. ErrorIgnored(c) => c.drop = {}
    BY <2>1, IgnoredPut DEF Own
  <2>3. EnsureCall(r, c)
    BY <2>1, <2>2, KindsApart DEF Own, EnsureCall, Touched
  <2> QED
    BY <2>3 DEF c
<1>2. \A i \in 1 .. Len(s) : PutOwned(s[i])
  BY DEF Own, PutOwned
<1>3. Clears(s)
  BY DEF Own, Clears
<1> QED
  BY <1>1, <1>2, <1>3 DEF InEnsure, Both

LEMMA OwnOne ==
    ASSUME NEW r \in Resource, r # "alb", NEW c \in CallSet, Own(r, c), c.version = target[r],
           ~ErrorIgnored(c) \/ tag[r] = target[r]
    PROVE  <<c>> \in Seq(CallSet) /\ InEnsure(r, <<c>>) /\ Leads(r, <<c>>)
<1> DEFINE s == <<c>>
<1>1. s \in Seq(CallSet) /\ Len(s) = 1 /\ s[1] = c
  OBVIOUS
<1> HIDE DEF s
<1>2. InEnsure(r, s)
  BY <1>1, OwnCalls DEF FinalsLast
<1>3. Leads(r, s)
  <2>1. ~ErrorIgnored(c) => \E i \in 1 .. Len(s) : s[i].r = r /\ s[i].version = target[r] /\ ~ErrorIgnored(s[i])
    BY <1>1 DEF Own
  <2>2. \A i \in 1 .. Len(s) : s[i].r = r => s[i].version = target[r]
    BY <1>1
  <2> QED
    BY <2>1, <2>2 DEF Leads
<1> QED
  BY <1>1, <1>2, <1>3 DEF s

LEMMA OwnTwo ==
    ASSUME NEW r \in Resource, r # "alb", NEW c \in CallSet, NEW d \in CallSet, Own(r, c), Own(r, d),
           d.version = target[r], ~ErrorIgnored(d) \/ (~ErrorIgnored(c) /\ c.version = target[r])
    PROVE  <<c, d>> \in Seq(CallSet) /\ InEnsure(r, <<c, d>>) /\ Leads(r, <<c, d>>)
<1> DEFINE s == <<c, d>>
<1>1. s \in Seq(CallSet) /\ Len(s) = 2 /\ s[1] = c /\ s[2] = d
  OBVIOUS
<1> HIDE DEF s
<1>2. InEnsure(r, s)
  BY <1>1, OwnCalls DEF FinalsLast
<1>3. Leads(r, s)
  <2>1. \E i \in 1 .. Len(s) : s[i].r = r /\ s[i].version = target[r] /\ ~ErrorIgnored(s[i])
    BY <1>1 DEF Own
  <2> QED
    BY <2>1 DEF Leads
<1> QED
  BY <1>1, <1>2, <1>3 DEF s

LEMMA ConcatFacts ==
    ASSUME NEW S, NEW s \in Seq(S), NEW t \in Seq(S)
    PROVE  /\ s \o t \in Seq(S)
           /\ Len(s) \in Nat /\ Len(t) \in Nat /\ Len(s \o t) \in Nat
           /\ \A i \in 1 .. Len(s \o t) :
                 \/ i \in 1 .. Len(s) /\ (s \o t)[i] = s[i]
                 \/ i > Len(s) /\ i - Len(s) \in 1 .. Len(t) /\ (s \o t)[i] = t[i - Len(s)]
           /\ \A i \in 1 .. Len(s) : i \in 1 .. Len(s \o t) /\ (s \o t)[i] = s[i]
           /\ \A i \in 1 .. Len(t) : Len(s) + i \in 1 .. Len(s \o t) /\ (s \o t)[Len(s) + i] = t[i]
<1>1. /\ s \o t \in Seq(S) /\ Len(s \o t) = Len(s) + Len(t)
      /\ \A i \in 1 .. Len(s) + Len(t) : (s \o t)[i] = IF i <= Len(s) THEN s[i] ELSE t[i - Len(s)]
  BY ConcatProperties
<1>2. Len(s) \in Nat /\ Len(t) \in Nat
  BY LenProperties
<1> QED
  BY <1>1, <1>2

(* u is s followed by t, position by position.                             *)
Splits(s, t, u) ==
    /\ \A i \in 1 .. Len(u) :
          \/ i \in 1 .. Len(s) /\ u[i] = s[i]
          \/ i > Len(s) /\ i - Len(s) \in 1 .. Len(t) /\ u[i] = t[i - Len(s)]
    /\ \A i \in 1 .. Len(s) : i \in 1 .. Len(u) /\ u[i] = s[i]
    /\ \A i \in 1 .. Len(t) : Len(s) + i \in 1 .. Len(u) /\ u[Len(s) + i] = t[i]

LEMMA ConcatSplits ==
    ASSUME NEW S, NEW s \in Seq(S), NEW t \in Seq(S)
    PROVE  s \o t \in Seq(S) /\ Splits(s, t, s \o t)
BY ConcatFacts DEF Splits

LEMMA Tuples ==
    ASSUME NEW S, NEW c \in S, NEW d \in S
    PROVE  /\ <<c>> \in Seq(S) /\ Len(<<c>>) = 1 /\ <<c>>[1] = c
           /\ <<c, d>> \in Seq(S) /\ Len(<<c, d>>) = 2 /\ <<c, d>>[1] = c /\ <<c, d>>[2] = d
           /\ <<c>> \o <<d>> = <<c, d>>
<1>1. <<c>> \in Seq(S) /\ Len(<<c>>) = 1 /\ <<c>>[1] = c
  OBVIOUS
<1>2. <<d>> \in Seq(S) /\ Len(<<d>>) = 1 /\ <<d>>[1] = d
  OBVIOUS
<1>3. <<c, d>> \in Seq(S) /\ Len(<<c, d>>) = 2 /\ <<c, d>>[1] = c /\ <<c, d>>[2] = d
  OBVIOUS
<1> DEFINE s == <<c>>  t == <<d>>  u == <<c, d>>
<1> HIDE DEF s, t, u
<1>4. s \in Seq(S) /\ Len(s) = 1 /\ s[1] = c /\ t \in Seq(S) /\ Len(t) = 1 /\ t[1] = d
  BY <1>1, <1>2 DEF s, t
<1>5. u \in Seq(S) /\ Len(u) = 2 /\ u[1] = c /\ u[2] = d
  BY <1>3 DEF u
<1>6. s \o t \in Seq(S) /\ Len(s \o t) = Len(u) /\ \A i \in 1 .. Len(u) : (s \o t)[i] = u[i]
  <2>1. /\ s \o t \in Seq(S) /\ Len(s \o t) = Len(s) + Len(t)
        /\ \A i \in 1 .. Len(s) + Len(t) : (s \o t)[i] = IF i <= Len(s) THEN s[i] ELSE t[i - Len(s)]
    BY <1>4, ConcatProperties
  <2>2. 1 .. 2 = {1, 2} /\ 1 + 1 = 2 /\ 2 - 1 = 1
    OBVIOUS
  <2> QED
    BY <1>4, <1>5, <2>1, <2>2
<1>7. s \o t = u
  BY <1>5, <1>6, SeqEqual
<1> QED
  BY <1>1, <1>3, <1>7 DEF s, t, u

LEMMA WhenIsSeq ==
    ASSUME NEW S, NEW condition, NEW calls \in Seq(S)
    PROVE  /\ When(condition, calls) \in Seq(S)
           /\ condition => When(condition, calls) = calls
           /\ ~condition => When(condition, calls) = <<>>
BY DEF When

LEMMA OwnThree ==
    ASSUME NEW r \in Resource, r # "alb", NEW c \in CallSet, NEW d \in CallSet, NEW e \in CallSet,
           Own(r, c), Own(r, d), Own(r, e),
           c.version = tag[r], d.version = tag[r], e.version = target[r], ~ErrorIgnored(e)
    PROVE  <<c, d, e>> \in Seq(CallSet) /\ InEnsure(r, <<c, d, e>>) /\ Leads(r, <<c, d, e>>)
<1> DEFINE s == <<c, d, e>>
<1>1. s \in Seq(CallSet) /\ Len(s) = 3 /\ s[1] = c /\ s[2] = d /\ s[3] = e
  OBVIOUS
<1> HIDE DEF s
<1>2. \A i \in 1 .. Len(s) : Own(r, s[i]) /\ (s[i].version = tag[r] \/ i = 3)
  BY <1>1
<1>3. FinalsLast(r, s)
  <2> SUFFICES ASSUME NEW i \in 1 .. Len(s), NEW j \in 1 .. Len(s), i < j, s[i].version = target[r]
               PROVE  s[j].version = target[r]
    BY DEF FinalsLast
  <2>1. tag[r] = target[r]
    BY <1>1, <1>2
  <2> QED
    BY <1>2, <2>1 DEF Own
<1>4. InEnsure(r, s)
  BY <1>2, <1>3, OwnCalls
<1>5. Leads(r, s)
  <2>1. \E i \in 1 .. Len(s) : s[i].r = r /\ s[i].version = target[r] /\ ~ErrorIgnored(s[i])
    BY <1>1 DEF Own
  <2> QED
    BY <2>1 DEF Leads
<1> QED
  BY <1>1, <1>4, <1>5 DEF s

(* Calls with the version there is, before the others. *)
LEMMA OwnConcat ==
    ASSUME NEW r \in Resource, NEW s \in Seq(CallSet), NEW t \in Seq(CallSet),
           \A i \in 1 .. Len(s) : Own(r, s[i]) /\ s[i].version = tag[r],
           \A i \in 1 .. Len(t) : Own(r, t[i]), FinalsLast(r, t)
    PROVE  /\ s \o t \in Seq(CallSet)
           /\ \A i \in 1 .. Len(s \o t) : Own(r, (s \o t)[i])
           /\ FinalsLast(r, s \o t)
           /\ (\A i \in 1 .. Len(t) : t[i].version = tag[r])
                 => \A i \in 1 .. Len(s \o t) : (s \o t)[i].version = tag[r]
<1> DEFINE u == s \o t
<1>1. /\ u \in Seq(CallSet)
      /\ Len(s) \in Nat /\ Len(t) \in Nat /\ Len(u) \in Nat
      /\ \A i \in 1 .. Len(u) :
            \/ i \in 1 .. Len(s) /\ u[i] = s[i]
            \/ i > Len(s) /\ i - Len(s) \in 1 .. Len(t) /\ u[i] = t[i - Len(s)]
  BY ConcatFacts
<1> HIDE DEF u
<1>2. \A i \in 1 .. Len(u) : Own(r, u[i])
  BY <1>1
<1>3. FinalsLast(r, u)
  <2> SUFFICES ASSUME NEW i \in 1 .. Len(u), NEW j \in 1 .. Len(u), i < j, u[i].version = target[r]
               PROVE  u[j].version = target[r]
    BY DEF FinalsLast
  <2>1. CASE i \in 1 .. Len(s) /\ u[i] = s[i]
    <3>1. tag[r] = target[r]
      BY <2>1
    <3> QED
      BY <1>2, <3>1 DEF Own
  <2>2. CASE i > Len(s) /\ i - Len(s) \in 1 .. Len(t) /\ u[i] = t[i - Len(s)]
    <3>1. j - Len(s) \in 1 .. Len(t) /\ u[j] = t[j - Len(s)] /\ i - Len(s) < j - Len(s)
      <4>1. i \in Nat /\ j \in Nat /\ Len(s) \in Nat
        BY <1>1
      <4>2. ~(j \in 1 .. Len(s))
        BY <2>2, <4>1
      <4>3. j - Len(s) \in 1 .. Len(t) /\ u[j] = t[j - Len(s)]
        BY <1>1, <4>2
      <4> QED
        BY <4>1, <4>3
    <3>2. t[i - Len(s)].r = r /\ t[j - Len(s)].r = r
      BY <2>2, <3>1 DEF Own
    <3> QED
      BY <2>2, <3>1, <3>2 DEF FinalsLast
  <2> QED
    BY <1>1, <2>1, <2>2
<1> QED
  BY <1>1, <1>2, <1>3 DEF u

-----------------------------------------------------------------------------
(* What Create and Update of the resources come to. *)
Fine(r, s) == s \in Seq(CallSet) /\ InEnsure(r, s) /\ Leads(r, s)

LEMMA RoleFine ==
    ASSUME Types, TagsKnown, NEW r \in Role, NEW s \in RoleWorks(r)
    PROVE  Fine(r, s)
<1>1. r \in Resource /\ r # "alb" /\ r \notin Grouping /\ Names(r) = {"policy"}
  BY Kinds, KindsApart, NamesOf DEF Others
<1>2. \A ps : ps \subseteq {"policy"} => \A x \in Of(r, ps) : x[1] = r
  BY OfFacts
<1>3. target[r] # 0
  BY <1>1 DEF Types
<1> DEFINE put == Call(r, target[r], Of(r, {"policy"}), {})
<1>4. Own(r, Tags(r)) /\ Tags(r) \in CallSet /\ Tags(r).version = target[r] /\ ~ErrorIgnored(Tags(r))
  BY <1>1, <1>3, Calls, NotIgnored DEF Own
<1>5. Own(r, put) /\ put \in CallSet /\ put.version = target[r] /\ ~ErrorIgnored(put)
  <2>1. put \in CallSet /\ put.r = r /\ put.version = target[r] /\ put.put = Of(r, {"policy"}) /\ put.drop = {}
    BY <1>1, Calls
  <2>2. <<r, "policy">> \in put.put /\ <<r, "policy">>[2] = "policy"
    BY <2>1, OfFacts
  <2> HIDE DEF put
  <2>3. ~ErrorIgnored(put)
    BY <2>2, NotIgnored
  <2> QED
    BY <1>1, <1>2, <1>3, <2>1, <2>3 DEF Own
<1>6. ASSUME Exists(r)
      PROVE  /\ Drops(r, {"policy"}) \in CallSet /\ Own(r, Drops(r, {"policy"}))
             /\ Puts(r, {"policy"}) \in CallSet /\ Own(r, Puts(r, {"policy"}))
             /\ Drops(r, {"policy"}).version = tag[r] /\ Puts(r, {"policy"}).version = tag[r]
  BY <1>1, <1>2, <1>6, Calls DEF Own, Exists
<1>7. CASE ~Exists(r)
  <2>1. s = <<Tags(r), put>>
    BY <1>7 DEF RoleWorks, CreateIamRole
  <2> QED
    BY <1>1, <1>4, <1>5, <2>1, OwnTwo DEF Fine
<1>8. CASE Exists(r)
  <2>1. s = <<Drops(r, {"policy"}), Puts(r, {"policy"}), Tags(r)>>
    BY <1>8 DEF RoleWorks, UpdateRolePolicy
  <2> HIDE DEF put
  <2> QED
    BY <1>1, <1>4, <1>6, <1>8, <2>1, OwnThree DEF Fine
<1> QED
  BY <1>7, <1>8

(* Update of a lambda: what was made otherwise, then the handler. *)
LEMMA LambdaFine ==
    ASSUME Types, TagsKnown, NEW l \in Lambda, NEW s \in LambdaWorks(l)
    PROVE  Fine(l, s)
<1>1. l \in Resource /\ l # "alb" /\ l \notin Grouping /\ target[l] # 0
      /\ Names(l) = {"role", "runtime", "arch", "tableName", "policy", "permission"}
  BY Kinds, KindsApart, NamesOf DEF Others, Types
<1>2. CASE ~Exists(l)
  <2>1. PICK tableName \in {{"tableName"}, {}} :
          s = <<Call(l, target[l], Of(l, {"role", "runtime", "arch"} \union tableName), {})>>
    BY <1>2 DEF LambdaWorks, CreateLambda
  <2> DEFINE ps == {"role", "runtime", "arch"} \union tableName
             create == Call(l, target[l], Of(l, ps), {})
  <2>2. ps \subseteq Names(l) /\ "role" \in ps
    BY <1>1
  <2> HIDE DEF ps
  <2>3. /\ create \in CallSet /\ create.r = l /\ create.version = target[l]
        /\ create.put = Of(l, ps) /\ create.drop = {}
    BY <1>1, <2>2, Calls
  <2> HIDE DEF create
  <2>4. <<l, "role">> \in create.put /\ <<l, "role">>[2] = "role" /\ \A x \in create.put : x[1] = l
    BY <2>2, <2>3, OfFacts
  <2>5. s = <<create>>
    BY <2>1 DEF create, ps
  <2>6. ~ErrorIgnored(create)
    BY <2>4, NotIgnored
  <2>7. Own(l, create)
    BY <1>1, <2>3, <2>4 DEF Own
  <2> QED
    BY <1>1, <2>3, <2>5, <2>6, <2>7, OwnOne DEF Fine
<1>3. CASE Exists(l)
  <2>1. tag[l] # 0 /\ s = UpdateLambda(l) /\ ~LambdaIsCurrent(l)
    BY <1>3 DEF LambdaWorks, Exists
  <2>2. \A p \in {"role", "runtime", "arch"} :
          /\ <<Puts(l, {p})>> \in Seq(CallSet)
          /\ \A i \in 1 .. Len(<<Puts(l, {p})>>) :
                Own(l, <<Puts(l, {p})>>[i]) /\ <<Puts(l, {p})>>[i].version = tag[l]
    <3> SUFFICES ASSUME NEW p \in {"role", "runtime", "arch"}
                 PROVE  /\ <<Puts(l, {p})>> \in Seq(CallSet)
                        /\ \A i \in 1 .. Len(<<Puts(l, {p})>>) :
                              Own(l, <<Puts(l, {p})>>[i]) /\ <<Puts(l, {p})>>[i].version = tag[l]
      OBVIOUS
    <3>1. {p} \subseteq Names(l)
      BY <1>1
    <3> DEFINE c == Puts(l, {p})
    <3>2. c \in CallSet /\ Own(l, c) /\ c.version = tag[l]
      BY <1>1, <2>1, <3>1, Calls, OfFacts DEF Own
    <3> HIDE DEF c
    <3>3. <<c>> \in Seq(CallSet) /\ \A i \in 1 .. Len(<<c>>) : <<c>>[i] = c
      BY <3>2
    <3>4. \A i \in 1 .. Len(<<c>>) : Own(l, <<c>>[i]) /\ <<c>>[i].version = tag[l]
      BY <3>2, <3>3
    <3> QED
      BY <3>3, <3>4 DEF c
  <2> DEFINE rt == When(~Has(l, "runtime"), UpdateLambdaRuntime(l))
             ar == When(~Has(l, "arch"), UpdateLambdaArchitecture(l))
             ro == When(~Has(l, "role"), UpdateLambdaRole(l))
             ha == When(tag[l] # target[l], UpdateLambdaHandler(l))
  <2>3. /\ rt \in Seq(CallSet) /\ \A i \in 1 .. Len(rt) : Own(l, rt[i]) /\ rt[i].version = tag[l]
        /\ ar \in Seq(CallSet) /\ \A i \in 1 .. Len(ar) : Own(l, ar[i]) /\ ar[i].version = tag[l]
        /\ ro \in Seq(CallSet) /\ \A i \in 1 .. Len(ro) : Own(l, ro[i]) /\ ro[i].version = tag[l]
    BY <2>2 DEF When, UpdateLambdaRuntime, UpdateLambdaArchitecture, UpdateLambdaRole
  <2>4. /\ Puts(l, {}) \in CallSet /\ Own(l, Puts(l, {})) /\ Puts(l, {}).version = tag[l]
        /\ Tags(l) \in CallSet /\ Own(l, Tags(l)) /\ Tags(l).version = target[l] /\ ~ErrorIgnored(Tags(l))
    BY <1>1, <2>1, Calls, OfFacts, NotIgnored DEF Own
  <2>5. /\ ha \in Seq(CallSet) /\ \A i \in 1 .. Len(ha) : Own(l, ha[i])
        /\ FinalsLast(l, ha)
        /\ tag[l] # target[l] => Len(ha) = 2 /\ ha[2] = Tags(l)
        /\ tag[l] = target[l] => ha = <<>>
    <3>1. CASE tag[l] = target[l]
      BY <3>1 DEF When, FinalsLast
    <3>2. CASE tag[l] # target[l]
      <4>1. ha = <<Puts(l, {}), Tags(l)>>
        BY <3>2 DEF When, UpdateLambdaHandler
      <4> HIDE DEF ha
      <4>2. ha \in Seq(CallSet) /\ Len(ha) = 2 /\ ha[1] = Puts(l, {}) /\ ha[2] = Tags(l)
        BY <2>4, <4>1, Tuples
      <4> QED
        BY <2>4, <3>2, <4>1, <4>2 DEF FinalsLast
    <3> QED
      BY <3>1, <3>2
  <2>6. s = ((rt \o ar) \o ro) \o ha
    BY <2>1 DEF UpdateLambda
  <2> HIDE DEF rt, ar, ro, ha
  <2>7. FinalsLast(l, ar) /\ FinalsLast(l, ro)
    BY <2>3 DEF FinalsLast
  <2>8. rt \o ar \in Seq(CallSet)
        /\ \A i \in 1 .. Len(rt \o ar) : Own(l, (rt \o ar)[i]) /\ (rt \o ar)[i].version = tag[l]
    BY <1>1, <2>3, <2>7, OwnConcat
  <2>9. (rt \o ar) \o ro \in Seq(CallSet)
        /\ \A i \in 1 .. Len((rt \o ar) \o ro) :
              Own(l, ((rt \o ar) \o ro)[i]) /\ ((rt \o ar) \o ro)[i].version = tag[l]
    BY <1>1, <2>3, <2>7, <2>8, OwnConcat
  <2> DEFINE before == (rt \o ar) \o ro
  <2>10. before \in Seq(CallSet) /\ \A i \in 1 .. Len(before) : Own(l, before[i]) /\ before[i].version = tag[l]
    BY <2>9
  <2>11. s = before \o ha
    BY <2>6
  <2> HIDE DEF before
  <2>12. s \in Seq(CallSet) /\ (\A i \in 1 .. Len(s) : Own(l, s[i])) /\ FinalsLast(l, s)
    BY <1>1, <2>5, <2>10, <2>11, OwnConcat
  <2>13. InEnsure(l, s)
    BY <1>1, <2>12, OwnCalls
  <2>14. Leads(l, s)
    <3>1. CASE tag[l] = target[l]
      <4>1. \A i \in 1 .. Len(s) : s[i].r = l => s[i].version = target[l]
        BY <2>12, <3>1 DEF Own
      <4> QED
        BY <1>1, <3>1, <4>1 DEF Leads
    <3>2. CASE tag[l] # target[l]
      <4>1. Len(ha) = 2 /\ ha[2] = Tags(l) /\ 2 \in 1 .. Len(ha)
        <5>1. 2 \in 1 .. 2
          OBVIOUS
        <5> QED
          BY <2>5, <3>2, <5>1
      <4>2. Len(before) + 2 \in 1 .. Len(s) /\ s[Len(before) + 2] = Tags(l)
        <5>1. before \in Seq(CallSet) /\ ha \in Seq(CallSet)
          BY <2>5, <2>10
        <5>2. \A i \in 1 .. Len(ha) :
                Len(before) + i \in 1 .. Len(before \o ha) /\ (before \o ha)[Len(before) + i] = ha[i]
          BY <5>1, ConcatFacts
        <5> QED
          BY <2>11, <4>1, <5>2
      <4> QED
        BY <1>1, <2>4, <4>2 DEF Leads, Own
    <3> QED
      BY <3>1, <3>2
  <2> QED
    BY <2>12, <2>13, <2>14 DEF Fine
<1> QED
  BY <1>2, <1>3

LEMMA OneFine ==
    ASSUME Types, NEW r \in Resource \ Grouping, r # "alb", NEW ps, ps \subseteq Names(r), NEW version,
           version = target[r] \/ (tag[r] = target[r] /\ version = tag[r]),
           NEW p \in ps, p \notin {"alias", "runtime"}
    PROVE  Fine(r, <<Call(r, version, Of(r, ps), {})>>)
<1>1. version = target[r] /\ target[r] # 0
  BY DEF Types
<1> DEFINE c == Call(r, target[r], Of(r, ps), {})
<1>2. c \in CallSet /\ c.r = r /\ c.version = target[r] /\ c.put = Of(r, ps) /\ c.drop = {}
  BY Calls
<1> HIDE DEF c
<1>4. <<r, p>> \in c.put /\ <<r, p>>[2] = p
  BY <1>2, OfFacts
<1>5. ~ErrorIgnored(c)
  BY <1>4, NotIgnored
<1>6. Own(r, c)
  BY <1>1, <1>2, OfFacts DEF Own
<1>7. Fine(r, <<c>>)
  BY <1>2, <1>5, <1>6, OwnOne DEF Fine
<1> QED
  BY <1>1, <1>7 DEF c

(* Created and tagged first, then completed. *)
LEMMA TagsThenPuts ==
    ASSUME Types, NEW r \in Resource \ Grouping, r # "alb", NEW ps, ps \subseteq Names(r)
    PROVE  Fine(r, <<Tags(r), Call(r, target[r], Of(r, ps), {})>>)
<1> DEFINE c == Tags(r)  d == Call(r, target[r], Of(r, ps), {})
<1>1. target[r] # 0
  BY DEF Types
<1>2. c \in CallSet /\ c.r = r /\ c.version = target[r] /\ c.put = {} /\ c.drop = {}
  BY Calls
<1>3. d \in CallSet /\ d.r = r /\ d.version = target[r] /\ d.put = Of(r, ps) /\ d.drop = {}
  BY Calls
<1> HIDE DEF c, d
<1>4. Own(r, c) /\ Own(r, d) /\ ~ErrorIgnored(c)
  BY <1>1, <1>2, <1>3, OfFacts, NotIgnored DEF Own
<1>5. Fine(r, <<c, d>>)
  BY <1>2, <1>3, <1>4, OwnTwo DEF Fine
<1> QED
  BY <1>5 DEF c, d

LEMMA StateMachineFine ==
    ASSUME Types, TagsKnown, "sm" \notin Upgraded, NEW s \in StateMachineWorks
    PROVE  Fine("sm", s)
<1>1. "sm" \in Resource \ Grouping /\ "sm" # "alb" /\ {"role"} \subseteq Names("sm") /\ "role" \in {"role"}
  BY Kinds, NamesOf DEF Others, Grouping
<1>2. CASE ~Exists("sm")
  <2>1. s = <<Call("sm", target["sm"], Of("sm", {"role"}), {})>>
    BY <1>2 DEF StateMachineWorks, CreateStateMachine
  <2> QED
    BY <1>1, <2>1, OneFine
<1>3. CASE Exists("sm")
  <2>1. tag["sm"] = target["sm"]
    BY <1>1, <1>3 DEF Types, TagsKnown, Exists
  <2>2. s = <<Call("sm", tag["sm"], Of("sm", {"role"}), {})>>
    BY <1>3 DEF StateMachineWorks, UpdateStateMachineRoleArn, Puts
  <2> QED
    BY <1>1, <2>1, <2>2, OneFine
<1> QED
  BY <1>2, <1>3

LEMMA RuleFine ==
    ASSUME Types, TagsKnown, "rule" \notin Upgraded, NEW s \in RuleWorks
    PROVE  Fine("rule", s)
<1> DEFINE ps == {IF Has("rule", "target") THEN "again" ELSE "target"}
<1>1. "rule" \in Resource \ Grouping /\ "rule" # "alb" /\ ps \subseteq Names("rule") /\ \E p \in ps : p \notin {"alias", "runtime"}
  BY Kinds, NamesOf DEF Others, Grouping, RuleTargets
<1>2. PutTargets(target["rule"]) = <<Call("rule", target["rule"], Of("rule", ps), {})>>
      /\ PutTargets(tag["rule"]) = <<Call("rule", tag["rule"], Of("rule", ps), {})>>
  BY DEF PutTargets
<1> HIDE DEF ps
<1>3. CASE ~Exists("rule")
  <2>1. s = <<Tags("rule")>> \o <<Call("rule", target["rule"], Of("rule", ps), {})>>
    BY <1>2, <1>3 DEF RuleWorks, CreateCloudWatchEventRule
  <2>2. Tags("rule") \in CallSet /\ Call("rule", target["rule"], Of("rule", ps), {}) \in CallSet
    BY <1>1, Calls
  <2>3. s = <<Tags("rule"), Call("rule", target["rule"], Of("rule", ps), {})>>
    BY <2>1, <2>2, Tuples
  <2> QED
    BY <1>1, <2>3, TagsThenPuts
<1>4. CASE Exists("rule")
  <2>1. tag["rule"] = target["rule"]
    BY <1>1, <1>4 DEF Types, TagsKnown, Exists
  <2>2. s = <<Call("rule", tag["rule"], Of("rule", ps), {})>>
    BY <1>2, <1>4 DEF RuleWorks
  <2> QED
    BY <1>1, <2>1, <2>2, OneFine
<1> QED
  BY <1>3, <1>4

LEMMA LaunchTemplateFine ==
    ASSUME Types, NEW s \in LaunchTemplateWorks
    PROVE  Fine("lt", s)
<1>1. "lt" \in Resource \ Grouping /\ "lt" # "alb" /\ Names("lt") = {"single", "first", "latest"}
      /\ tag["lt"] \in 0 .. 2 /\ target["lt"] \in {1, 2}
  BY Kinds, NamesOf DEF Others, Grouping, Types
<1>2. ASSUME NEW k PROVE Fine("lt", CreateLaunchTemplate(k))
  <2>1. PICK ps : ps \subseteq Names("lt") /\ "single" \in ps
                  /\ Of("lt", {"single"}) \union Joins(k, {"first", "latest"}) = Of("lt", ps)
    <3>1. CASE k = "key"
      <4>1. Of("lt", {"single"}) \union Joins(k, {"first", "latest"}) = Of("lt", {"single", "first", "latest"})
        BY <3>1 DEF Joins, Of
      <4> QED
        BY <1>1, <4>1
    <3>2. CASE k # "key"
      <4>1. Of("lt", {"single"}) \union Joins(k, {"first", "latest"}) = Of("lt", {"single"})
        BY <3>2 DEF Joins
      <4> QED
        BY <1>1, <4>1
    <3> QED
      BY <3>1, <3>2
  <2>2. "single" \in ps /\ "single" \notin {"alias", "runtime"}
    BY <2>1
  <2>3. Fine("lt", <<Call("lt", target["lt"], Of("lt", ps), {})>>)
    BY <1>1, <2>1, <2>2, OneFine
  <2> QED
    BY <2>1, <2>3 DEF CreateLaunchTemplate
<1>3. ASSUME NEW k PROVE Fine("lt", CreateNewLaunchTemplateVersion(k) \o ModifyLaunchTemplateDefaultVersion)
  <2> DEFINE c == Call("lt", target["lt"], Joins(k, {"latest"}), Of("lt", {"single", "latest"}))
             d == Call("lt", target["lt"], {}, {})
  <2>1. Joins(k, {"latest"}) \in SUBSET Part /\ Of("lt", {"single", "latest"}) \in SUBSET Part
        /\ {} \in SUBSET Part /\ target["lt"] \in 0 .. 2
    BY <1>1, OfIsPart DEF Joins
  <2>2. \A x \in Joins(k, {"latest"}) \union Of("lt", {"single", "latest"}) : x[1] = "lt"
    BY OfFacts DEF Joins
  <2>3. /\ c \in CallSet /\ c.r = "lt" /\ c.version = target["lt"]
        /\ c.put = Joins(k, {"latest"}) /\ c.drop = Of("lt", {"single", "latest"})
    BY <1>1, <2>1, CallIsCall
  <2>4. /\ d \in CallSet /\ d.r = "lt" /\ d.version = target["lt"] /\ d.put = {} /\ d.drop = {}
    BY <1>1, <2>1, CallIsCall
  <2>5. CreateNewLaunchTemplateVersion(k) \o ModifyLaunchTemplateDefaultVersion = <<c>> \o <<d>>
    BY DEF CreateNewLaunchTemplateVersion, ModifyLaunchTemplateDefaultVersion
  <2> HIDE DEF c, d
  <2>6. <<c>> \o <<d>> = <<c, d>>
    BY <2>3, <2>4, Tuples
  <2>7. Own("lt", c) /\ Own("lt", d) /\ ~ErrorIgnored(d)
    BY <1>1, <2>2, <2>3, <2>4, NotIgnored DEF Own
  <2>8. Fine("lt", <<c, d>>)
    BY <1>1, <2>3, <2>4, <2>7, OwnTwo DEF Fine
  <2> QED
    BY <2>5, <2>6, <2>8
<1> QED
  BY <1>2, <1>3 DEF LaunchTemplateWorks

LEMMA GroupFine ==
    ASSUME Types, NEW s \in AutoScalingGroupWorks
    PROVE  Fine("asg", s)
<1>1. "asg" \in Resource \ Grouping /\ "asg" # "alb"
      /\ {"suspended"} \subseteq Names("asg") /\ {"latest"} \subseteq Names("asg")
      /\ target["asg"] \in {1, 2} /\ tag["asg"] \in 0 .. 2
  BY Kinds, NamesOf DEF Others, Grouping, Types
<1>2. CASE ~Exists("asg")
  BY <1>1, <1>2, TagsThenPuts DEF AutoScalingGroupWorks, CreateAutoScalingGroup
<1>3. CASE Exists("asg")
  <2>1. s = <<Puts("asg", {"latest"}), Tags("asg")>>
    BY <1>3 DEF AutoScalingGroupWorks, UpdateAutoScalingGroup
  <2>2. /\ Puts("asg", {"latest"}) \in CallSet /\ Own("asg", Puts("asg", {"latest"}))
        /\ Tags("asg") \in CallSet /\ Own("asg", Tags("asg")) /\ ~ErrorIgnored(Tags("asg"))
        /\ Tags("asg").version = target["asg"]
    BY <1>1, <1>3, Calls, OfFacts, NotIgnored DEF Own, Exists
  <2> DEFINE c == Puts("asg", {"latest"})  d == Tags("asg")
  <2> HIDE DEF c, d
  <2>3. c \in CallSet /\ Own("asg", c) /\ d \in CallSet /\ Own("asg", d) /\ ~ErrorIgnored(d)
        /\ d.version = target["asg"]
    BY <2>2 DEF c, d
  <2>4. Fine("asg", <<c, d>>)
    BY <1>1, <2>3, OwnTwo DEF Fine
  <2> QED
    BY <2>1, <2>4 DEF c, d
<1> QED
  BY <1>2, <1>3

LEMMA KmsFine ==
    ASSUME Types, NEW s \in KmsWorks
    PROVE  Fine("key", s)
<1>1. "key" \in Resource \ Grouping /\ "key" # "alb" /\ {"alias"} \subseteq Names("key")
  BY Kinds, NamesOf DEF Others, Grouping
<1> QED
  BY <1>1, TagsThenPuts DEF KmsWorks, CreateKMSKey

(* The gateway: perhaps the calls that remove it, then those that make it. *)
GatewayRemoval(c) ==
    /\ c.r = "gateway" /\ c.version = 0 /\ c.put \subseteq Old
    /\ \A x \in c.drop : x[1] \in {"gateway", "lt"} \/ x = <<"join", "permission">>
GatewayMade(c) ==
    /\ c.r = "gateway" /\ c.version = target["gateway"] /\ c.drop = {}
    /\ \A x \in c.put : x[1] = "gateway"
    /\ ~ErrorIgnored(c)
JoinMade(c) ==
    /\ c.r = "join" /\ c.version = tag["join"] /\ c.drop = {}
    /\ \A x \in c.put : x[1] = "join"

LEMMA GatewayFine ==
    ASSUME Types, Exists("join"), NEW s \in Seq(CallSet),
           \A i \in 1 .. Len(s) : GatewayRemoval(s[i]) \/ GatewayMade(s[i]) \/ JoinMade(s[i]),
           \A i, j \in 1 .. Len(s) : i < j /\ GatewayRemoval(s[j]) => GatewayRemoval(s[i]),
           \A i \in 1 .. Len(s) : GatewayRemoval(s[i]) =>
               \A x \in PartsOf("gateway") : x \in Old \/ x \in s[1].drop,
           \E i \in 1 .. Len(s) : GatewayMade(s[i])
    PROVE  Fine("gateway", s)
<1>1. "gateway" \in Resource \ ({"join", "alb", "stop"} \union Grouping) /\ "join" # "stop"
      /\ target["gateway"] # 0
  BY Kinds DEF Others, Grouping, Types
<1>2. Touched("gateway") = {"gateway", "join", "lt"}
  BY DEF Touched
<1>3. \A x \in Old : x[1] = "gateway"
  BY OfFacts DEF Old
<1>4. \A i \in 1 .. Len(s) : EnsureCall("gateway", s[i])
  <2> SUFFICES ASSUME NEW i \in 1 .. Len(s) PROVE EnsureCall("gateway", s[i])
    OBVIOUS
  <2>1. CASE GatewayRemoval(s[i])
    <3>1. ~ErrorIgnored(s[i])
      BY <1>3, <2>1, IgnoredPut DEF GatewayRemoval
    <3> QED
      BY <1>1, <1>2, <1>3, <2>1, <3>1 DEF GatewayRemoval, EnsureCall
  <2>2. CASE GatewayMade(s[i])
    BY <1>1, <1>2, <2>2 DEF GatewayMade, EnsureCall
  <2>3. CASE JoinMade(s[i])
    BY <1>1, <1>2, <2>3 DEF JoinMade, EnsureCall
  <2> QED
    BY <2>1, <2>2, <2>3
<1>5. FinalsLast("gateway", s)
  <2> SUFFICES ASSUME NEW i \in 1 .. Len(s), NEW j \in 1 .. Len(s), i < j,
                      s[i].r = "gateway", s[j].r = "gateway", s[i].version = target["gateway"]
               PROVE  s[j].version = target["gateway"]
    BY DEF FinalsLast
  <2>1. ~GatewayRemoval(s[i])
    BY <1>1 DEF GatewayRemoval
  <2>2. ~GatewayRemoval(s[j]) /\ ~JoinMade(s[j])
    BY <1>1, <2>1 DEF JoinMade
  <2> QED
    BY <2>2 DEF GatewayMade
<1>6. \A i \in 1 .. Len(s) : PutOwned(s[i])
  <2> SUFFICES ASSUME NEW i \in 1 .. Len(s), NEW x \in s[i].put
               PROVE  x \in Old \/ (x[1] = s[i].r /\ s[i].version # 0)
    BY DEF PutOwned
  <2> QED
    BY <1>1 DEF GatewayRemoval, GatewayMade, JoinMade, Exists
<1>7. Clears(s)
  <2> SUFFICES ASSUME NEW i \in 1 .. Len(s), s[i].version = 0
               PROVE  /\ \A x \in PartsOf(s[i].r) : x \in Old \/ \E j \in 1 .. i : x \in s[j].drop
                      /\ \A j \in 1 .. i : \A x \in s[j].put : x[1] = s[i].r => x \in Old
    BY DEF Clears
  <2>1. GatewayRemoval(s[i])
    BY <1>1 DEF GatewayMade, JoinMade, Exists
  <2>2. 1 \in 1 .. i /\ \A j \in 1 .. i : j \in 1 .. Len(s) /\ (j < i \/ j = i)
    BY LenProperties
  <2>3. \A j \in 1 .. i : GatewayRemoval(s[j])
    BY <2>1, <2>2
  <2> QED
    BY <2>1, <2>2, <2>3 DEF GatewayRemoval
<1>8. Leads("gateway", s)
  BY <1>1 DEF Leads, GatewayMade
<1> QED
  BY <1>4, <1>5, <1>6, <1>7, <1>8 DEF Fine, InEnsure, Both

LEMMA MakesGateway ==
    ASSUME Types
    PROVE  /\ CreateJoinApi \in Seq(CallSet)
           /\ \A i \in 1 .. Len(CreateJoinApi) : GatewayMade(CreateJoinApi[i]) \/ JoinMade(CreateJoinApi[i])
           /\ \E i \in 1 .. Len(CreateJoinApi) : GatewayMade(CreateJoinApi[i])
<1>1. "gateway" \in Resource /\ "join" \in Resource
      /\ Names("gateway") = {"deployment", "plan", "key", "planKey", "oldPlan", "oldKey"}
      /\ {"policy", "permission"} \subseteq Names("join")
  BY Kinds, NamesOf DEF Others
<1>2. Tags("gateway") \in CallSet /\ GatewayMade(Tags("gateway"))
  BY <1>1, Calls, NotIgnored DEF GatewayMade
<1>3. ASSUME NEW p \in {"deployment", "plan", "key", "planKey"}
      PROVE  GatewayCall(p) \in CallSet /\ GatewayMade(GatewayCall(p))
  <2>1. {p} \subseteq Names("gateway")
    BY <1>1, <1>3
  <2> DEFINE c == GatewayCall(p)
  <2>2. c \in CallSet /\ c.r = "gateway" /\ c.version = target["gateway"] /\ c.put = Of("gateway", {p}) /\ c.drop = {}
    BY <1>1, <2>1, Calls DEF GatewayCall
  <2> HIDE DEF c
  <2>3. <<"gateway", p>> \in c.put /\ <<"gateway", p>>[2] = p /\ p \notin {"alias", "runtime"}
    BY <1>3, <2>2, OfFacts
  <2>4. ~ErrorIgnored(c)
    BY <2>3, NotIgnored
  <2>5. GatewayMade(c)
    BY <2>2, <2>4, OfFacts DEF GatewayMade
  <2> QED
    BY <2>2, <2>5 DEF c
<1> DEFINE j == Puts("join", {"policy", "permission"})
<1>4. j \in CallSet /\ JoinMade(j)
  BY <1>1, Calls, OfFacts DEF JoinMade
<1> DEFINE s == CreateRestApiGateway  t == AddLambdaInvokePermissions
<1>5. s \in Seq(CallSet) /\ Len(s) = 5 /\ \A i \in 1 .. Len(s) : GatewayMade(s[i])
  BY <1>2, <1>3 DEF CreateRestApiGateway
<1>6. t \in Seq(CallSet) /\ \A i \in 1 .. Len(t) : JoinMade(t[i])
  BY <1>4 DEF AddLambdaInvokePermissions
<1>7. CreateJoinApi = s \o t
  BY DEF CreateJoinApi
<1> HIDE DEF s, t
<1> DEFINE u == s \o t
<1>75. s \in Seq(CallSet) /\ t \in Seq(CallSet)
  BY <1>5, <1>6
<1>76. u \in Seq(CallSet) /\ Splits(s, t, u)
  BY <1>75, ConcatSplits
<1> HIDE DEF u
<1>8. /\ u \in Seq(CallSet)
      /\ \A i \in 1 .. Len(u) :
            \/ i \in 1 .. Len(s) /\ u[i] = s[i]
            \/ i > Len(s) /\ i - Len(s) \in 1 .. Len(t) /\ u[i] = t[i - Len(s)]
      /\ \A i \in 1 .. Len(s) : i \in 1 .. Len(u) /\ u[i] = s[i]
  BY <1>76 DEF Splits
<1>9. u \in Seq(CallSet) /\ \A i \in 1 .. Len(u) : GatewayMade(u[i]) \/ JoinMade(u[i])
  BY <1>5, <1>6, <1>8
<1>10. 1 \in 1 .. Len(s)
  BY <1>5
<1>11. \E i \in 1 .. Len(u) : GatewayMade(u[i])
  BY <1>5, <1>8, <1>10
<1> QED
  BY <1>7, <1>9, <1>11 DEF u

LEMMA RemovesGateway ==
    ASSUME Types
    PROVE  LET s == DeleteRestApiGateway IN
           /\ s \in Seq(CallSet) /\ Len(s) = 3
           /\ \A i \in 1 .. Len(s) : GatewayRemoval(s[i])
           /\ \A x \in PartsOf("gateway") : x \in Old \/ x \in s[1].drop
           /\ s[1].put \subseteq Old
           /\ s[1].drop = Of("gateway", {"deployment", "plan", "key", "planKey"})
                          \union Of("join", {"permission"}) \union Of("lt", {"first", "latest"})
           /\ s[2].put = {} /\ s[3].put = {}
           /\ s[2].drop = Of("gateway", {"oldPlan"}) /\ s[3].drop = Of("gateway", {"oldKey"})
<1> DEFINE drop == Of("gateway", {"deployment", "plan", "key", "planKey"})
                   \union Of("join", {"permission"}) \union Of("lt", {"first", "latest"})
           put == Of("gateway", Leftover)
           a == Call("gateway", 0, put, drop)
           b == Call("gateway", 0, {}, Of("gateway", {"oldPlan"}))
           c == Call("gateway", 0, {}, Of("gateway", {"oldKey"}))
<1>1. "gateway" \in Resource /\ "join" \in Resource /\ "lt" \in Resource
      /\ Names("gateway") = {"deployment", "plan", "key", "planKey", "oldPlan", "oldKey"}
      /\ {"permission"} \subseteq Names("join") /\ {"first", "latest"} \subseteq Names("lt")
  BY Kinds, NamesOf DEF Others
<1>2. Of("gateway", {"deployment", "plan", "key", "planKey"}) \subseteq Part
      /\ Of("join", {"permission"}) \subseteq Part /\ Of("lt", {"first", "latest"}) \subseteq Part
      /\ Of("gateway", {"oldPlan"}) \subseteq Part /\ Of("gateway", {"oldKey"}) \subseteq Part
  BY <1>1, OfIsPart
<1>3. put \subseteq Part /\ put \subseteq Old
  <2>1. Leftover \subseteq {"oldPlan", "oldKey"}
    BY DEF Leftover
  <2>2. put \subseteq Old
    BY <2>1 DEF Old, Of
  <2> QED
    BY <1>1, <2>1, <2>2, OfIsPart
<1>4. a \in CallSet /\ a.r = "gateway" /\ a.version = 0 /\ a.put = put /\ a.drop = drop
  BY <1>1, <1>2, <1>3, CallIsCall
<1>5. b \in CallSet /\ b.r = "gateway" /\ b.version = 0 /\ b.put = {} /\ b.drop = Of("gateway", {"oldPlan"})
  BY <1>1, <1>2, CallIsCall
<1>6. c \in CallSet /\ c.r = "gateway" /\ c.version = 0 /\ c.put = {} /\ c.drop = Of("gateway", {"oldKey"})
  BY <1>1, <1>2, CallIsCall
<1>7. \A x \in drop \union Of("gateway", {"oldPlan"}) \union Of("gateway", {"oldKey"}) :
        x[1] \in {"gateway", "lt"} \/ x = <<"join", "permission">>
  BY OfFacts
<1>8. \A x \in PartsOf("gateway") : x \in Old \/ x \in drop
  <2> SUFFICES ASSUME NEW x \in PartsOf("gateway") PROVE x \in Old \/ x \in drop
    OBVIOUS
  <2>1. x[1] = "gateway" /\ x \in Part
    BY DEF PartsOf, Types
  <2>2. x = <<"gateway", x[2]>>
    BY <2>1, PartFacts
  <2>3. x[2] \in Names("gateway")
    BY <2>1, PartFacts
  <2> QED
    BY <1>1, <2>2, <2>3, OfFacts DEF Old
<1>9. DeleteRestApiGateway = <<a, b, c>>
  BY DEF DeleteRestApiGateway
<1> HIDE DEF a, b, c, put, drop
<1>10. GatewayRemoval(a) /\ GatewayRemoval(b) /\ GatewayRemoval(c)
  BY <1>3, <1>4, <1>5, <1>6, <1>7 DEF GatewayRemoval
<1> DEFINE s == <<a, b, c>>
<1>11. s \in Seq(CallSet) /\ Len(s) = 3 /\ s[1] = a /\ s[2] = b /\ s[3] = c
  BY <1>4, <1>5, <1>6
<1> HIDE DEF s
<1>12. \A i \in 1 .. Len(s) : GatewayRemoval(s[i])
  BY <1>10, <1>11
<1>13. /\ s \in Seq(CallSet) /\ Len(s) = 3
       /\ \A i \in 1 .. Len(s) : GatewayRemoval(s[i])
       /\ \A x \in PartsOf("gateway") : x \in Old \/ x \in s[1].drop
       /\ s[1].put \subseteq Old /\ s[1].drop = drop
       /\ s[2].put = {} /\ s[3].put = {}
       /\ s[2].drop = Of("gateway", {"oldPlan"}) /\ s[3].drop = Of("gateway", {"oldKey"})
  BY <1>3, <1>4, <1>5, <1>6, <1>8, <1>11, <1>12
<1> QED
  BY <1>9, <1>13 DEF s, drop

LEMMA GatewayWorksFine ==
    ASSUME Types, Exists("join"), NEW s \in GatewayWorks
    PROVE  Fine("gateway", s)
<1>1. target["gateway"] # 0
  BY Kinds DEF Others, Types
<1>2. \A c : (GatewayMade(c) \/ JoinMade(c)) => ~GatewayRemoval(c)
  BY <1>1 DEF GatewayMade, JoinMade, GatewayRemoval
<1>3. CASE ~Exists("gateway")
  <2>1. s = CreateJoinApi
    BY <1>3 DEF GatewayWorks
  <2> QED
    BY <1>2, <2>1, MakesGateway, GatewayFine
<1>4. CASE Exists("gateway")
  <2> DEFINE d == DeleteRestApiGateway  m == CreateJoinApi
  <2>1. s = d \o m
    BY <1>4 DEF GatewayWorks, ReCreateGateway
  <2>2. /\ d \in Seq(CallSet) /\ Len(d) = 3
        /\ \A i \in 1 .. Len(d) : GatewayRemoval(d[i])
        /\ \A x \in PartsOf("gateway") : x \in Old \/ x \in d[1].drop
    BY RemovesGateway
  <2>3. /\ m \in Seq(CallSet)
        /\ \A i \in 1 .. Len(m) : ~GatewayRemoval(m[i]) /\ (GatewayMade(m[i]) \/ JoinMade(m[i]))
        /\ \E i \in 1 .. Len(m) : GatewayMade(m[i])
    BY <1>2, MakesGateway
  <2> HIDE DEF d, m
  <2>35. d \in Seq(CallSet) /\ m \in Seq(CallSet)
    BY <2>2, <2>3
  <2>4. /\ s \in Seq(CallSet)
        /\ \A i \in 1 .. Len(s) :
              \/ i \in 1 .. Len(d) /\ s[i] = d[i]
              \/ i > Len(d) /\ i - Len(d) \in 1 .. Len(m) /\ s[i] = m[i - Len(d)]
        /\ \A i \in 1 .. Len(d) : i \in 1 .. Len(s) /\ s[i] = d[i]
        /\ \A i \in 1 .. Len(m) : Len(d) + i \in 1 .. Len(s) /\ s[Len(d) + i] = m[i]
    BY <2>1, <2>35, ConcatFacts
  <2>5. \A i \in 1 .. Len(s) : GatewayRemoval(s[i]) \/ GatewayMade(s[i]) \/ JoinMade(s[i])
    BY <2>2, <2>3, <2>4
  <2>6. \A i \in 1 .. Len(s) : GatewayRemoval(s[i]) => i \in 1 .. 3
    BY <2>2, <2>3, <2>4
  <2>7. \A i, j \in 1 .. Len(s) : i < j /\ GatewayRemoval(s[j]) => GatewayRemoval(s[i])
    BY <2>2, <2>4, <2>6
  <2>8. s[1] = d[1]
    BY <2>2, <2>4
  <2>9. \E i \in 1 .. Len(s) : GatewayMade(s[i])
    BY <2>3, <2>4
  <2> QED
    BY <2>2, <2>4, <2>5, <2>7, <2>8, <2>9, GatewayFine
<1> QED
  BY <1>3, <1>4

(* The load balancer: each missing part is still to be put. *)
AlbCall(c) == c = Stop \/ \E p \in AlbParts : c = Puts("alb", {p})
Pends(s, p) == \E i \in 1 .. Len(s) : s[i] = Puts("alb", {p})

LEMMA AlbCallFacts ==
    ASSUME Types, TagsKnown, NEW p \in AlbParts
    PROVE  LET c == Puts("alb", {p}) IN
           /\ c \in CallSet /\ c.r = "alb" /\ c.version = 0 /\ c.put = Of("alb", {p}) /\ c.drop = {}
           /\ c # Stop
<1>1. "alb" \in Resource /\ "alb" # "stop" /\ {p} \subseteq Names("alb") /\ tag["alb"] = 0
  BY Kinds, KindsApart, NamesOf DEF Others, TagsKnown
<1> DEFINE c == Puts("alb", {p})
<1>2. c \in CallSet /\ c.r = "alb" /\ c.version = 0 /\ c.put = Of("alb", {p}) /\ c.drop = {}
  BY <1>1, Calls
<1> HIDE DEF c
<1>3. c # Stop
  BY <1>1, <1>2, StopIsCall
<1> QED
  BY <1>2, <1>3 DEF c

LEMMA AlbFine ==
    ASSUME Types, TagsKnown, "alb" \notin Upgraded, NEW s \in Seq(CallSet),
           \A i \in 1 .. Len(s) : AlbCall(s[i]),
           \A p \in AlbParts : Has("alb", p) \/ Stops(s) \/ Pends(s, p)
    PROVE  Fine("alb", s)
<1>1. "alb" \in Resource /\ "alb" \notin Grouping /\ target["alb"] = 1 /\ Touched("alb") = {"alb"}
  BY Kinds DEF Others, Grouping, Touched, TagsKnown
<1>2. \A i \in 1 .. Len(s) : s[i] = Stop \/ (/\ s[i] # Stop /\ s[i].r = "alb" /\ s[i].version = 0
                                             /\ s[i].drop = {} /\ \A x \in s[i].put : x[1] = "alb")
  <2> SUFFICES ASSUME NEW i \in 1 .. Len(s), s[i] # Stop
               PROVE  s[i].r = "alb" /\ s[i].version = 0 /\ s[i].drop = {} /\ \A x \in s[i].put : x[1] = "alb"
    OBVIOUS
  <2>1. PICK p \in AlbParts : s[i] = Puts("alb", {p})
    BY DEF AlbCall
  <2> QED
    BY <2>1, AlbCallFacts, OfFacts
<1>3. \A i \in 1 .. Len(s) : EnsureCall("alb", s[i])
  BY <1>1, <1>2, KindsApart DEF EnsureCall
<1>4. FinalsLast("alb", s)
  BY <1>1, <1>2, StopIsCall DEF FinalsLast
<1>5. \A i \in 1 .. Len(s) : PutOwned(s[i])
  BY <1>2, StopIsCall DEF PutOwned
<1>6. Clears(s)
  BY <1>2, StopIsCall DEF Clears
<1>7. \A p \in AlbParts : Pends(s, p) => \E i \in 1 .. Len(s) : <<"alb", p>> \in s[i].put
  BY AlbCallFacts, OfFacts DEF Pends
<1>8. Leads("alb", s)
  BY <1>1, <1>7 DEF Leads
<1> QED
  BY <1>3, <1>4, <1>5, <1>6, <1>8 DEF Fine, InEnsure, Both

(* A part is put by a call that is made only when it is missing. *)
LEMMA AlbWhen ==
    ASSUME Types, TagsKnown, NEW s \in Seq(CallSet), NEW t \in Seq(CallSet),
           \A i \in 1 .. Len(s) : AlbCall(s[i]), \A i \in 1 .. Len(t) : AlbCall(t[i])
    PROVE  /\ s \o t \in Seq(CallSet)
           /\ \A i \in 1 .. Len(s \o t) : AlbCall((s \o t)[i])
           /\ Stops(s) \/ Stops(t) => Stops(s \o t)
           /\ \A p : Pends(s, p) \/ Pends(t, p) => Pends(s \o t, p)
<1> DEFINE u == s \o t
<1>1. /\ u \in Seq(CallSet)
      /\ \A i \in 1 .. Len(u) :
            \/ i \in 1 .. Len(s) /\ u[i] = s[i]
            \/ i > Len(s) /\ i - Len(s) \in 1 .. Len(t) /\ u[i] = t[i - Len(s)]
      /\ \A i \in 1 .. Len(s) : i \in 1 .. Len(u) /\ u[i] = s[i]
      /\ \A i \in 1 .. Len(t) : Len(s) + i \in 1 .. Len(u) /\ u[Len(s) + i] = t[i]
  BY ConcatFacts
<1> HIDE DEF u
<1>2. \A i \in 1 .. Len(u) : AlbCall(u[i])
  BY <1>1
<1>3. Stops(s) \/ Stops(t) => Stops(u)
  BY <1>1 DEF Stops
<1>4. \A p : Pends(s, p) \/ Pends(t, p) => Pends(u, p)
  BY <1>1 DEF Pends
<1> QED
  BY <1>1, <1>2, <1>3, <1>4 DEF u

LEMMA AlbPut ==
    ASSUME Types, TagsKnown, NEW p \in AlbParts, NEW condition
    PROVE  LET s == When(condition, <<Puts("alb", {p})>>) IN
           /\ s \in Seq(CallSet) /\ \A i \in 1 .. Len(s) : AlbCall(s[i])
           /\ condition => Pends(s, p)
<1> DEFINE c == Puts("alb", {p})
<1>1. c \in CallSet /\ AlbCall(c)
  BY AlbCallFacts DEF AlbCall
<1>2. <<c>> \in Seq(CallSet) /\ Len(<<c>>) = 1 /\ <<c>>[1] = c /\ 1 \in 1 .. 1
  BY <1>1
<1>3. Pends(<<c>>, p)
  BY <1>2 DEF Pends
<1>4. \A i \in 1 .. Len(<<c>>) : AlbCall(<<c>>[i])
  BY <1>1, <1>2
<1> HIDE DEF c
<1>5. CASE condition
  <2>1. When(condition, <<c>>) = <<c>>
    BY <1>5 DEF When
  <2> QED
    BY <1>2, <1>3, <1>4, <2>1 DEF c
<1>6. CASE ~condition
  <2>1. When(condition, <<c>>) = <<>>
    BY <1>6 DEF When
  <2>2. <<>> \in Seq(CallSet) /\ \A i \in 1 .. Len(<<>>) : AlbCall(<<>>[i])
    BY EmptySeq
  <2> QED
    BY <1>6, <2>1, <2>2 DEF c
<1> QED
  BY <1>5, <1>6

LEMMA AlbWorksFine ==
    ASSUME Types, TagsKnown, "alb" \notin Upgraded, NEW s \in AlbWorks
    PROVE  Fine("alb", s)
<1>1. {"lb", "tg", "listener"} \subseteq AlbParts
      /\ (Dns => AlbParts = {"lb", "tg", "listener", "record"})
      /\ (~Dns => AlbParts = {"lb", "tg", "listener"})
  BY DEF AlbParts
<1> DEFINE put(p) == <<Puts("alb", {p})>>
<1>2. ASSUME NEW p \in AlbParts
      PROVE  put(p) \in Seq(CallSet) /\ (\A i \in 1 .. Len(put(p)) : AlbCall(put(p)[i])) /\ Pends(put(p), p)
  <2>1. When(TRUE, put(p)) = put(p)
    BY DEF When
  <2> QED
    BY <1>2, <2>1, AlbPut
<1>3. CreateApplicationLoadBalancer = put("lb") /\ CreateTargetGroup = put("tg")
      /\ CreateListener = put("listener") /\ CreateApplicationLoadBalancerAliasRecord = put("record")
  BY DEF CreateApplicationLoadBalancer, CreateTargetGroup, CreateListener, CreateApplicationLoadBalancerAliasRecord
<1>4. CASE ~Dns /\ PartsOf("alb") = {}
  <2> DEFINE a == put("lb")  b == put("tg")  c == put("listener")
  <2>1. s = (a \o b) \o c
    BY <1>3, <1>4 DEF AlbWorks, CreateAlb
  <2>2. /\ a \in Seq(CallSet) /\ (\A i \in 1 .. Len(a) : AlbCall(a[i])) /\ Pends(a, "lb")
        /\ b \in Seq(CallSet) /\ (\A i \in 1 .. Len(b) : AlbCall(b[i])) /\ Pends(b, "tg")
        /\ c \in Seq(CallSet) /\ (\A i \in 1 .. Len(c) : AlbCall(c[i])) /\ Pends(c, "listener")
    BY <1>1, <1>2
  <2> HIDE DEF a, b, c
  <2>3. /\ a \o b \in Seq(CallSet) /\ (\A i \in 1 .. Len(a \o b) : AlbCall((a \o b)[i]))
        /\ Pends(a \o b, "lb") /\ Pends(a \o b, "tg")
    BY <2>2, AlbWhen
  <2>4. /\ s \in Seq(CallSet) /\ (\A i \in 1 .. Len(s) : AlbCall(s[i]))
        /\ Pends(s, "lb") /\ Pends(s, "tg") /\ Pends(s, "listener")
    BY <2>1, <2>2, <2>3, AlbWhen
  <2>5. \A p \in AlbParts : Pends(s, p)
    BY <1>1, <1>4, <2>4
  <2> QED
    BY <2>4, <2>5, AlbFine
<1>5. CASE ~(~Dns /\ PartsOf("alb") = {})
  <2> DEFINE a == When(~Has("alb", "tg"), put("tg"))
             b == When(~Has("alb", "lb"), put("lb"))
             c == When(~Has("alb", "listener"), put("listener"))
             d == When(Dns /\ ~Has("alb", "record"),
                       IF Has("alb", "lb") /\ Has("alb", "listener") THEN <<Stop>> ELSE put("record"))
  <2>1. s = ((a \o b) \o c) \o d
    BY <1>3, <1>5 DEF AlbWorks, UpdateAlb
  <2>2. /\ a \in Seq(CallSet) /\ (\A i \in 1 .. Len(a) : AlbCall(a[i])) /\ (~Has("alb", "tg") => Pends(a, "tg"))
        /\ b \in Seq(CallSet) /\ (\A i \in 1 .. Len(b) : AlbCall(b[i])) /\ (~Has("alb", "lb") => Pends(b, "lb"))
        /\ c \in Seq(CallSet) /\ (\A i \in 1 .. Len(c) : AlbCall(c[i]))
        /\ (~Has("alb", "listener") => Pends(c, "listener"))
    BY <1>1, AlbPut
  <2>3. /\ d \in Seq(CallSet) /\ (\A i \in 1 .. Len(d) : AlbCall(d[i]))
        /\ (Dns /\ ~Has("alb", "record") => Stops(d) \/ Pends(d, "record"))
    <3>1. CASE ~(Dns /\ ~Has("alb", "record"))
      <4>1. d = <<>>
        BY <3>1 DEF When
      <4> HIDE DEF d
      <4>2. d \in Seq(CallSet) /\ Len(d) = 0
        BY <4>1, EmptySeq
      <4> QED
        BY <3>1, <4>2
    <3>2. CASE (Dns /\ ~Has("alb", "record")) /\ Has("alb", "lb") /\ Has("alb", "listener")
      <4>1. d = <<Stop>>
        BY <3>2 DEF When
      <4>2. <<Stop>> \in Seq(CallSet) /\ Len(<<Stop>>) = 1 /\ <<Stop>>[1] = Stop /\ 1 \in 1 .. 1
        BY StopIsCall
      <4>3. Stops(<<Stop>>)
        BY <4>2 DEF Stops
      <4>4. \A i \in 1 .. Len(<<Stop>>) : AlbCall(<<Stop>>[i])
        BY <4>2 DEF AlbCall
      <4> QED
        BY <4>1, <4>2, <4>3, <4>4
    <3>3. CASE (Dns /\ ~Has("alb", "record")) /\ ~(Has("alb", "lb") /\ Has("alb", "listener"))
      <4>1. d = put("record")
        BY <3>3 DEF When
      <4>2. "record" \in AlbParts
        BY <1>1, <3>3
      <4> HIDE DEF put, d
      <4> QED
        BY <1>2, <4>1, <4>2
    <3> HIDE DEF d, put
    <3> QED
      BY <3>1, <3>2, <3>3
  <2> HIDE DEF a, b, c, d
  <2>4. /\ a \o b \in Seq(CallSet) /\ (\A i \in 1 .. Len(a \o b) : AlbCall((a \o b)[i]))
        /\ (~Has("alb", "tg") => Pends(a \o b, "tg")) /\ (~Has("alb", "lb") => Pends(a \o b, "lb"))
    BY <2>2, AlbWhen
  <2> DEFINE v == (a \o b) \o c
  <2>5. /\ v \in Seq(CallSet) /\ (\A i \in 1 .. Len(v) : AlbCall(v[i]))
        /\ (~Has("alb", "tg") => Pends(v, "tg")) /\ (~Has("alb", "lb") => Pends(v, "lb"))
        /\ (~Has("alb", "listener") => Pends(v, "listener"))
    BY <2>2, <2>4, AlbWhen
  <2>6. s = v \o d
    BY <2>1
  <2> HIDE DEF v
  <2>7. /\ s \in Seq(CallSet) /\ (\A i \in 1 .. Len(s) : AlbCall(s[i]))
        /\ (~Has("alb", "tg") => Pends(s, "tg")) /\ (~Has("alb", "lb") => Pends(s, "lb"))
        /\ (~Has("alb", "listener") => Pends(s, "listener"))
        /\ (Dns /\ ~Has("alb", "record") => Stops(s) \/ Pends(s, "record"))
    BY <2>3, <2>5, <2>6, AlbWhen
  <2>8. \A p \in AlbParts : Has("alb", p) \/ Stops(s) \/ Pends(s, p)
    BY <1>1, <2>7 DEF AlbParts
  <2> QED
    BY <2>7, <2>8, AlbFine
<1> QED
  BY <1>4, <1>5

(* The table: tagged, then an item migrated that has to be there. *)
LEMMA WithStop ==
    ASSUME Types, NEW c \in CallSet, c = Tags("table")
    PROVE  /\ InEnsure("table", <<Stop>>) /\ Stops(<<Stop>>) /\ <<Stop>> \in Seq(CallSet)
           /\ InEnsure("table", <<c, Stop>>) /\ Stops(<<c, Stop>>) /\ <<c, Stop>> \in Seq(CallSet)
<1>1. "table" \in Resource \ Grouping /\ "table" # "alb" /\ "table" # "stop" /\ target["table"] # 0
  BY Kinds DEF Others, Grouping, Types
<1>2. c.r = "table" /\ c.version = target["table"] /\ c.put = {} /\ c.drop = {}
  BY <1>1, Calls
<1>3. EnsureCall("table", Stop) /\ PutOwned(Stop) /\ EnsureCall("table", c) /\ PutOwned(c)
  BY <1>1, <1>2, StopIsCall DEF EnsureCall, PutOwned
<1> DEFINE s == <<Stop>>  t == <<c, Stop>>
<1>4. s \in Seq(CallSet) /\ Len(s) = 1 /\ s[1] = Stop
  BY StopIsCall
<1>5. t \in Seq(CallSet) /\ Len(t) = 2 /\ t[1] = c /\ t[2] = Stop
  BY StopIsCall
<1> HIDE DEF s, t
<1>6. InEnsure("table", s) /\ Stops(s)
  <2>1. FinalsLast("table", s) /\ Clears(s) /\ Stops(s)
    BY <1>4, StopIsCall DEF FinalsLast, Clears, Stops
  <2> QED
    BY <1>3, <1>4, <2>1 DEF InEnsure, Both
<1>7. InEnsure("table", t) /\ Stops(t)
  <2>1. \A i \in 1 .. Len(t) : (i = 1 /\ t[i] = c) \/ (i = 2 /\ t[i] = Stop)
    BY <1>5
  <2>2. FinalsLast("table", t)
    BY <1>1, <2>1, StopIsCall DEF FinalsLast
  <2>3. Clears(t)
    BY <1>1, <1>2, <2>1, StopIsCall DEF Clears
  <2>4. Stops(t)
    BY <1>5 DEF Stops
  <2> QED
    BY <1>3, <2>1, <2>2, <2>3, <2>4 DEF InEnsure, Both
<1> QED
  BY <1>4, <1>5, <1>6, <1>7 DEF s, t

LEMMA TableFine ==
    ASSUME Types, NEW s \in DynamoDbWorks
    PROVE  Fine("table", s)
<1>1. "table" \in Resource \ Grouping /\ "table" # "alb" /\ {} \subseteq Names("table")
      /\ target["table"] \in {1, 2}
  BY Kinds DEF Others, Grouping, Types
<1> DEFINE c == Tags("table")  d == Call("table", target["table"], {}, {})
<1>2. c \in CallSet /\ Own("table", c) /\ c.version = target["table"] /\ ~ErrorIgnored(c)
  <2>1. c \in CallSet /\ c.r = "table" /\ c.version = target["table"] /\ c.put = {} /\ c.drop = {}
    BY <1>1, Calls
  <2> HIDE DEF c
  <2> QED
    BY <1>1, <2>1, NotIgnored DEF Own
<1>3. d \in CallSet /\ Own("table", d) /\ d.version = target["table"] /\ ~ErrorIgnored(d)
  <2>1. d \in CallSet /\ d.r = "table" /\ d.version = target["table"] /\ d.put = {} /\ d.drop = {}
    BY <1>1, CallIsCall
  <2> QED
    BY <1>1, <2>1, NotIgnored DEF Own
<1> HIDE DEF d
<1>4. Fine("table", <<c>>)
  BY <1>1, <1>2, OwnOne DEF Fine
<1>5. Fine("table", <<c, d>>)
  BY <1>1, <1>2, <1>3, OwnTwo DEF Fine
<1>6. Fine("table", <<Stop>>) /\ Fine("table", <<c, Stop>>)
  <2>1. \A t : Stops(t) => Leads("table", t)
    BY <1>1 DEF Leads
  <2> QED
    BY <1>2, <2>1, WithStop DEF Fine
<1>7. \/ s = <<c>> \/ s = <<Stop>> \/ s = <<c, d>> \/ s = <<c, Stop>>
  BY DEF DynamoDbWorks, CreateDb, UpdateDb, d
<1> QED
  BY <1>4, <1>5, <1>6, <1>7

LEMMA GroupingFine ==
    ASSUME Types, TagsKnown, NEW r \in Grouping, r = "hostgroup" => Exists("asg"), NEW s \in Works(r)
    PROVE  Fine(r, s)
<1>1. r \in Resource /\ r \notin Role /\ r \notin Lambda /\ r \notin Others /\ r # "stop"
  BY Kinds, KindsApart
<1>2. CASE r # "hostgroup"
  <2>1. s = <<>>
    BY <1>1, <1>2 DEF Works, Grouping, Others
  <2>2. s \in Seq(CallSet) /\ Len(s) = 0
    BY <2>1, EmptySeq
  <2>3. InEnsure(r, s)
    BY <2>2 DEF InEnsure, FinalsLast, Both, Clears
  <2>4. Leads(r, s)
    BY <1>1 DEF Leads, Others
  <2> QED
    BY <2>2, <2>3, <2>4 DEF Fine
<1>3. CASE r = "hostgroup"
  <2> DEFINE c == Call("hostgroup", 0, Of("asg", {"targetGroup"}), {})
  <2>1. s = <<c>>
    BY <1>1, <1>3 DEF Works, Others, AttachTargetGroup
  <2>2. Of("asg", {"targetGroup"}) \in SUBSET Part /\ {} \in SUBSET Part /\ 0 \in 0 .. 2
    <3>1. "asg" \in Resource /\ {"targetGroup"} \subseteq Names("asg")
      BY Kinds, NamesOf DEF Others
    <3> QED
      BY <3>1, OfIsPart
  <2>3. c \in CallSet /\ c.r = "hostgroup" /\ c.version = 0 /\ c.put = Of("asg", {"targetGroup"}) /\ c.drop = {}
    BY <1>1, <1>3, <2>2, CallIsCall
  <2> HIDE DEF c
  <2>4. s \in Seq(CallSet) /\ Len(s) = 1 /\ s[1] = c
    BY <2>1, <2>3
  <2>5. tag["hostgroup"] = 0 /\ \A x \in c.put : x[1] = "asg"
    BY <1>3, <2>3, OfFacts DEF TagsKnown
  <2>6. EnsureCall(r, c) /\ PutOwned(c)
    BY <1>1, <1>3, <2>3, <2>5 DEF EnsureCall, PutOwned, Touched
  <2>7. FinalsLast(r, s) /\ Clears(s)
    BY <1>3, <2>3, <2>4 DEF FinalsLast, Clears, Grouping
  <2>8. Leads(r, s)
    BY <1>1 DEF Leads, Others
  <2> QED
    BY <2>4, <2>6, <2>7, <2>8 DEF Fine, InEnsure, Both
<1> QED
  BY <1>2, <1>3

LEMMA NeverUpgraded == {"sm", "rule", "gateway", "alb", "key"} \intersect Upgraded = {}
BY UpgradedAssumption, Kinds, KindsApart DEF RoleNames, LambdaNames, Others

(* Whatever resource it is, Create and Update come to such calls. *)
LEMMA WorksFine ==
    ASSUME Types, TagsKnown, NEW r \in Resource,
           r = "hostgroup" => Exists("asg"), r = "gateway" => Exists("join"), NEW s \in Works(r)
    PROVE  Fine(r, s)
<1>1. CASE r \in Role
  <2>1. s \in RoleWorks(r)
    BY <1>1, Kinds, KindsApart DEF Works, RoleNames, LambdaNames, Grouping, Others
  <2> QED
    BY <1>1, <2>1, RoleFine
<1>2. CASE r \in Lambda
  <2>1. s \in LambdaWorks(r)
    BY <1>2, Kinds, KindsApart DEF Works, RoleNames, LambdaNames
  <2> QED
    BY <1>2, <2>1, LambdaFine
<1>3. CASE r \in Grouping
  BY <1>3, GroupingFine
<1>4. CASE r \in Others
  <2>1. r \notin Role /\ r \notin Lambda
    BY <1>4, Kinds, KindsApart
  <2>2. CASE r = "sm"
    BY <2>1, <2>2, NeverUpgraded, StateMachineFine DEF Works
  <2>3. CASE r = "rule"
    BY <2>1, <2>3, NeverUpgraded, RuleFine DEF Works
  <2>4. CASE r = "gateway"
    BY <2>1, <2>4, GatewayWorksFine DEF Works
  <2>5. CASE r = "lt"
    BY <2>1, <2>5, LaunchTemplateFine DEF Works
  <2>6. CASE r = "asg"
    BY <2>1, <2>6, GroupFine DEF Works
  <2>7. CASE r = "alb"
    BY <2>1, <2>7, NeverUpgraded, AlbWorksFine DEF Works
  <2>8. CASE r = "table"
    BY <2>1, <2>8, TableFine DEF Works
  <2>9. CASE r = "key"
    BY <2>1, <2>9, KmsFine DEF Works
  <2> QED
    BY <1>4, <2>2, <2>3, <2>4, <2>5, <2>6, <2>7, <2>8, <2>9 DEF Others
<1> QED
  BY <1>1, <1>2, <1>3, <1>4, Kinds

-----------------------------------------------------------------------------
(* The calls a command makes itself. *)
LEMMA SetToSeqFacts ==
    ASSUME NEW S, IsFiniteSet(S)
    PROVE  /\ Cardinality(S) \in Nat
           /\ SetToSeq(S) \in [1 .. Cardinality(S) -> S]
           /\ \A i, j \in 1 .. Cardinality(S) : SetToSeq(S)[i] = SetToSeq(S)[j] => i = j
           /\ \A x \in S : \E i \in 1 .. Cardinality(S) : SetToSeq(S)[i] = x
<1> DEFINE n == Cardinality(S)
<1>1. n \in Nat /\ ExistsBijection(1 .. n, S)
  BY FS_CardinalityType
<1>2. \E f \in [1 .. n -> S] : IsInjective(f)
  BY <1>1 DEF ExistsBijection, Bijection, Injection
<1>3. SetToSeq(S) \in [1 .. n -> S] /\ IsInjective(SetToSeq(S))
  BY <1>2 DEF SetToSeq
<1> DEFINE f == SetToSeq(S)
<1>4. f \in Injection(1 .. n, S)
  BY <1>3 DEF Injection
<1> HIDE DEF f
<1>5. IsFiniteSet(1 .. n) /\ Cardinality(1 .. n) = n
  BY <1>1, FS_Interval
<1>6. f \in Surjection(1 .. n, S)
  BY <1>4, <1>5, FS_Injection
<1>7. \A x \in S : \E i \in 1 .. n : f[i] = x
  BY <1>6 DEF Surjection
<1>8. \A i, j \in 1 .. n : f[i] = f[j] => i = j
  BY <1>3 DEF f, IsInjective
<1> QED
  BY <1>1, <1>3, <1>7, <1>8 DEF f

LEMMA KindsFinite == IsFiniteSet(Role) /\ IsFiniteSet(Lambda)
<1>1. IsFiniteSet(RoleNames)
  <2>1. IsFiniteSet({}) /\ RoleNames =
          ((((({} \union {"joinRole"}) \union {"fetchRole"}) \union {"scaleRole"})
             \union {"terminateRole"}) \union {"smRole"}) \union {"ruleRole"}
    BY FS_EmptySet DEF RoleNames
  <2> QED
    BY <2>1, FS_AddElement
<1>2. IsFiniteSet(LambdaNames)
  <2>1. IsFiniteSet({}) /\ LambdaNames =
          ((({} \union {"join"}) \union {"fetch"}) \union {"scale"}) \union {"terminate"}
    BY FS_EmptySet DEF LambdaNames
  <2> QED
    BY <2>1, FS_AddElement
<1> QED
  BY <1>1, <1>2, Kinds, FS_Subset

LEMMA EmptyFine == <<>> \in Seq(CallSet) /\ OfCommand(<<>>)
<1> DEFINE s == <<>>
<1>1. s \in Seq(CallSet) /\ Len(s) = 0
  BY EmptySeq
<1> HIDE DEF s
<1>2. OfCommand(s)
  BY <1>1 DEF OfCommand, RemovalsLast, Both, Clears
<1> QED
  BY <1>1, <1>2 DEF s

(* Functions that only put parts on a resource that is there. *)
KeepsAndPuts(r, c) == c.r = r /\ c.version = tag[r] /\ c.drop = {} /\ \A x \in c.put : x[1] = r

LEMMA PutsFine ==
    ASSUME NEW r \in Resource, r # "alb", Exists(r), r \notin Role, NEW s \in Seq(CallSet),
           cmd # "destroy", cmd \in {"update", "dryUpdate"} => r = "table",
           \A i \in 1 .. Len(s) : KeepsAndPuts(r, s[i])
    PROVE  OfCommand(s)
<1>1. tag[r] # 0
  BY DEF Exists
<1>2. \A i \in 1 .. Len(s) : OutsideCall(s[i]) /\ PutOwned(s[i])
  BY <1>1 DEF KeepsAndPuts, OutsideCall, PutOwned, Near
<1>3. RemovalsLast(s) /\ Clears(s)
  BY <1>1 DEF KeepsAndPuts, RemovalsLast, Clears
<1> QED
  BY <1>2, <1>3 DEF OfCommand, Both

LEMMA KeepsIsCall ==
    ASSUME Types, NEW r \in Resource, NEW ps, ps \subseteq Names(r)
    PROVE  Puts(r, ps) \in CallSet /\ KeepsAndPuts(r, Puts(r, ps))
BY Calls, OfFacts DEF KeepsAndPuts

LEMMA SavesFine ==
    ASSUME Types, Exists("table"), cmd # "destroy"
    PROVE  /\ SaveCredentials \in Seq(CallSet) /\ OfCommand(SaveCredentials)
           /\ SaveClusterSettings \in Seq(CallSet) /\ OfCommand(SaveClusterSettings)
<1>1. /\ "table" \in Resource /\ "table" # "alb" /\ "table" \notin Role
      /\ {"credentials"} \subseteq Names("table") /\ {"settings", "build"} \subseteq Names("table")
  BY Kinds, KindsApart, NamesOf DEF Others
<1>2. ASSUME NEW c \in CallSet, KeepsAndPuts("table", c) PROVE <<c>> \in Seq(CallSet) /\ OfCommand(<<c>>)
  <2> DEFINE s == <<c>>
  <2>1. s \in Seq(CallSet) /\ Len(s) = 1 /\ s[1] = c
    OBVIOUS
  <2> HIDE DEF s
  <2>2. \A i \in 1 .. Len(s) : KeepsAndPuts("table", s[i])
    BY <1>2, <2>1
  <2> QED
    BY <1>1, <2>1, <2>2, PutsFine DEF s
<1> QED
  BY <1>1, <1>2, KeepsIsCall DEF SaveCredentials, SaveClusterSettings

LEMMA AttachesFine ==
    ASSUME Types, Exists("asg"), cmd = "import"
    PROVE  /\ AttachInstancesToASG \in Seq(CallSet) /\ OfCommand(AttachInstancesToASG)
           /\ AttachLoadBalancer \in Seq(CallSet) /\ OfCommand(AttachLoadBalancer)
<1>1. /\ "asg" \in Resource /\ "asg" # "alb" /\ "asg" \notin Role
      /\ {"instances"} \subseteq Names("asg") /\ {"elb"} \subseteq Names("asg") /\ {"healthCheck"} \subseteq Names("asg")
  BY Kinds, KindsApart, NamesOf DEF Others
<1>2. ASSUME NEW s \in Seq(CallSet), \A i \in 1 .. Len(s) : KeepsAndPuts("asg", s[i]) PROVE OfCommand(s)
  BY <1>1, <1>2, PutsFine
<1> DEFINE a == Puts("asg", {"instances"})  b == Puts("asg", {"elb"})  c == Puts("asg", {"healthCheck"})
<1>3. /\ a \in CallSet /\ KeepsAndPuts("asg", a)
      /\ b \in CallSet /\ KeepsAndPuts("asg", b)
      /\ c \in CallSet /\ KeepsAndPuts("asg", c)
  BY <1>1, KeepsIsCall
<1> HIDE DEF a, b, c
<1>4. <<a>> \in Seq(CallSet) /\ OfCommand(<<a>>)
  <2> DEFINE s == <<a>>
  <2>1. s \in Seq(CallSet) /\ Len(s) = 1 /\ s[1] = a
    BY <1>3
  <2> HIDE DEF s
  <2>2. \A i \in 1 .. Len(s) : KeepsAndPuts("asg", s[i])
    BY <1>3, <2>1
  <2> QED
    BY <1>2, <2>1, <2>2 DEF s
<1>5. <<b, c>> \in Seq(CallSet) /\ OfCommand(<<b, c>>)
  <2> DEFINE s == <<b, c>>
  <2>1. s \in Seq(CallSet) /\ Len(s) = 2 /\ s[1] = b /\ s[2] = c
    BY <1>3
  <2> HIDE DEF s
  <2>2. \A i \in 1 .. Len(s) : KeepsAndPuts("asg", s[i])
    BY <1>3, <2>1
  <2> QED
    BY <1>2, <2>1, <2>2 DEF s
<1> QED
  BY <1>4, <1>5, EmptyFine DEF AttachInstancesToASG, AttachLoadBalancer, When, a, b, c

(* Functions that remove a resource, after some of its parts. *)
LEMMA RemovesFine ==
    ASSUME Types, cmd = "destroy", NEW r \in Resource \ Grouping, r # "alb", r \notin Role, Exists(r),
           NEW ps, ps \subseteq Names(r)
    PROVE  /\ <<Removes(r)>> \in Seq(CallSet) /\ OfCommand(<<Removes(r)>>)
           /\ <<Drops(r, ps), Removes(r)>> \in Seq(CallSet) /\ OfCommand(<<Drops(r, ps), Removes(r)>>)
<1>1. tag[r] # 0
  BY DEF Exists
<1> DEFINE c == Drops(r, ps)  d == Removes(r)
<1>2. /\ c \in CallSet /\ c.r = r /\ c.version = tag[r] /\ c.put = {} /\ c.drop = Of(r, ps)
      /\ d \in CallSet /\ d.r = r /\ d.version = 0 /\ d.put = {} /\ d.drop = PartsOf(r)
  BY Calls
<1> HIDE DEF c, d
<1>3. OutsideCall(c) /\ OutsideCall(d) /\ PutOwned(c) /\ PutOwned(d)
  <2>1. \A x \in c.drop \union d.drop : x[1] = r
    BY <1>2, OfFacts
  <2> QED
    BY <1>2, <2>1 DEF OutsideCall, PutOwned, Near
<1>4. <<d>> \in Seq(CallSet) /\ OfCommand(<<d>>)
  <2> DEFINE s == <<d>>
  <2>1. s \in Seq(CallSet) /\ Len(s) = 1 /\ s[1] = d
    BY <1>2
  <2> HIDE DEF s
  <2>2. RemovalsLast(s) /\ Clears(s)
    BY <1>2, <2>1 DEF RemovalsLast, Clears
  <2> QED
    BY <1>3, <2>1, <2>2 DEF s, OfCommand, Both
<1>5. <<c, d>> \in Seq(CallSet) /\ OfCommand(<<c, d>>)
  <2> DEFINE s == <<c, d>>
  <2>1. s \in Seq(CallSet) /\ Len(s) = 2 /\ s[1] = c /\ s[2] = d
    BY <1>2
  <2> HIDE DEF s
  <2>2. \A i \in 1 .. Len(s) : (i = 1 /\ s[i] = c) \/ (i = 2 /\ s[i] = d)
    BY <2>1
  <2>3. RemovalsLast(s)
    BY <1>1, <1>2, <2>2 DEF RemovalsLast
  <2>4. Clears(s)
    BY <1>1, <1>2, <2>2 DEF Clears
  <2> QED
    BY <1>3, <2>1, <2>2, <2>3, <2>4 DEF s, OfCommand, Both
<1> QED
  BY <1>4, <1>5 DEF c, d

LEMMA WhenFine ==
    ASSUME NEW condition, NEW s, condition => s \in Seq(CallSet) /\ OfCommand(s)
    PROVE  When(condition, s) \in Seq(CallSet) /\ OfCommand(When(condition, s))
<1>1. CASE condition
  BY <1>1 DEF When
<1>2. CASE ~condition
  BY <1>2, EmptyFine DEF When
<1> QED
  BY <1>1, <1>2

(* The load balancer, and its record. *)
AlbDrop(c) == c.r = "alb" /\ c.version = 0 /\ c.put = {} /\ \A x \in c.drop : x[1] = "alb"

LEMMA AlbDropsFine ==
    ASSUME cmd = "destroy", NEW s \in Seq(CallSet), \A i \in 1 .. Len(s) : AlbDrop(s[i])
    PROVE  OfCommand(s)
<1>1. "alb" \in Resource /\ "alb" \notin Role
  BY Kinds, KindsApart DEF Others
<1>2. \A i \in 1 .. Len(s) : OutsideCall(s[i]) /\ PutOwned(s[i])
  BY <1>1 DEF AlbDrop, OutsideCall, PutOwned, Near
<1>3. RemovalsLast(s) /\ Clears(s)
  BY <1>1 DEF AlbDrop, RemovalsLast, Clears
<1> QED
  BY <1>2, <1>3 DEF OfCommand, Both

LEMMA AlbWhenDrops ==
    ASSUME Types, TagsKnown, NEW ps, ps \subseteq AlbParts, NEW condition
    PROVE  LET s == When(condition, <<Drops("alb", ps)>>) IN
           s \in Seq(CallSet) /\ \A i \in 1 .. Len(s) : AlbDrop(s[i])
<1>1. "alb" \in Resource /\ Names("alb") = AlbParts /\ tag["alb"] = 0
  BY Kinds, NamesOf DEF Others, TagsKnown
<1> DEFINE c == Drops("alb", ps)
<1>2. c \in CallSet /\ AlbDrop(c)
  BY <1>1, Calls, OfFacts DEF AlbDrop
<1> HIDE DEF c
<1> DEFINE s == When(condition, <<c>>)
<1>3. s = <<>> \/ (s \in Seq(CallSet) /\ Len(s) = 1 /\ s[1] = c)
  BY <1>2 DEF When
<1> HIDE DEF s
<1>4. s \in Seq(CallSet) /\ \A i \in 1 .. Len(s) : AlbDrop(s[i])
  <2>1. CASE s = <<>>
    <3>1. s \in Seq(CallSet) /\ Len(s) = 0
      BY <2>1, EmptySeq
    <3> QED
      BY <3>1
  <2>2. CASE s \in Seq(CallSet) /\ Len(s) = 1 /\ s[1] = c
    BY <1>2, <2>2
  <2> QED
    BY <1>3, <2>1, <2>2
<1> QED
  BY <1>4 DEF s, c

LEMMA DeleteAlbFine ==
    ASSUME Types, TagsKnown, cmd = "destroy"
    PROVE  /\ DeleteAlb \in Seq(CallSet) /\ OfCommand(DeleteAlb)
           /\ Dns => DeleteRoute53Record \in Seq(CallSet) /\ OfCommand(DeleteRoute53Record)
<1> DEFINE a == DeleteListener  b == DeleteApplicationLoadBalancer  c == DeleteTargetGroup
<1>1. {"listener"} \subseteq AlbParts /\ {"lb", "listener"} \subseteq AlbParts /\ {"tg"} \subseteq AlbParts
      /\ (Dns => {"record"} \subseteq AlbParts)
  BY DEF AlbParts
<1>2. /\ a \in Seq(CallSet) /\ (\A i \in 1 .. Len(a) : AlbDrop(a[i]))
      /\ b \in Seq(CallSet) /\ (\A i \in 1 .. Len(b) : AlbDrop(b[i]))
      /\ c \in Seq(CallSet) /\ (\A i \in 1 .. Len(c) : AlbDrop(c[i]))
  BY <1>1, AlbWhenDrops DEF DeleteListener, DeleteApplicationLoadBalancer, DeleteTargetGroup
<1>3. DeleteAlb = (a \o b) \o c
  BY DEF DeleteAlb
<1> HIDE DEF a, b, c
<1>4. ASSUME NEW s \in Seq(CallSet), \A i \in 1 .. Len(s) : AlbDrop(s[i]),
             NEW t \in Seq(CallSet), \A i \in 1 .. Len(t) : AlbDrop(t[i])
      PROVE  s \o t \in Seq(CallSet) /\ \A i \in 1 .. Len(s \o t) : AlbDrop((s \o t)[i])
  <2> DEFINE u == s \o t
  <2>1. /\ u \in Seq(CallSet)
        /\ \A i \in 1 .. Len(u) :
              \/ i \in 1 .. Len(s) /\ u[i] = s[i]
              \/ i > Len(s) /\ i - Len(s) \in 1 .. Len(t) /\ u[i] = t[i - Len(s)]
    BY ConcatFacts
  <2> HIDE DEF u
  <2>2. u \in Seq(CallSet) /\ \A i \in 1 .. Len(u) : AlbDrop(u[i])
    BY <1>4, <2>1
  <2> QED
    BY <2>2 DEF u
<1>5. a \o b \in Seq(CallSet) /\ \A i \in 1 .. Len(a \o b) : AlbDrop((a \o b)[i])
  BY <1>2, <1>4
<1>6. DeleteAlb \in Seq(CallSet) /\ \A i \in 1 .. Len(DeleteAlb) : AlbDrop(DeleteAlb[i])
  BY <1>2, <1>3, <1>4, <1>5
<1>7. Dns => DeleteRoute53Record \in Seq(CallSet)
             /\ \A i \in 1 .. Len(DeleteRoute53Record) : AlbDrop(DeleteRoute53Record[i])
  BY <1>1, AlbWhenDrops DEF DeleteRoute53Record
<1> QED
  BY <1>6, <1>7, AlbDropsFine


(* The roles: of each the policy, then the role. *)
LEMMA RoleCalls ==
    ASSUME Types, Owned, cmd = "destroy", NEW r \in Role, Exists(r)
    PROVE  LET c == DeleteIamRole(r)[1]  d == DeleteIamRole(r)[2] IN
           /\ c \in CallSet /\ c.r = r /\ c.version = tag[r] /\ c.put = {} /\ c.drop = Of(r, {"policy"})
           /\ d \in CallSet /\ d.r = r /\ d.version = 0 /\ d.put \subseteq Of("rule", {"stale"})
           /\ \A x \in d.drop : x[1] \in RoleUser
           /\ \A p \in {"target", "again"} : <<"rule", "stale">> \in d.put => <<"rule", p>> \in d.drop
           /\ <<"rule", "target">> \in d.drop => <<"rule", "again">> \in d.drop
           /\ \A x \in d.drop : x[1] = "rule" => x \in Of("rule", {"target", "again"})
           /\ \A x \in d.drop : x[1] # "rule" => x[2] = "role"
           /\ d.put # {} => Exists("rule") /\ LiveTargets # {}
<1>1. r \in Resource /\ {"policy"} \subseteq Names(r)
  BY Kinds, NamesOf
<1> DEFINE user == CHOOSE u \in RoleUser : RoleOf[u] = r
           put == Orphans(user).put
           drop == Orphans(user).drop
           c == Drops(r, {"policy"})
           d == Call(r, 0, put, drop)
<1>2. \E u \in RoleUser : RoleOf[u] = r
  BY DEF Role
<1>3. user \in RoleUser
  BY <1>2
<1> HIDE DEF user
<1>4. c \in CallSet /\ c.r = r /\ c.version = tag[r] /\ c.put = {} /\ c.drop = Of(r, {"policy"})
  BY <1>1, Calls
<1>5. /\ put \subseteq Of("rule", {"stale"})
      /\ put # {} => LiveTargets # {}
      /\ put # {} => drop = Of("rule", {"target", "again"})
      /\ drop = Of("rule", {"target", "again"}) \/ (user # "rule" /\ drop = Of(user, {"role"}))
  BY DEF Orphans, Of
<1> HIDE DEF put, drop
<1>6. put \in SUBSET Part /\ drop \in SUBSET Part
  <2>1. "rule" \in Resource /\ {"stale"} \subseteq Names("rule") /\ {"target", "again"} \subseteq Names("rule")
    BY Kinds, NamesOf DEF Others, RuleTargets
  <2>2. user \in Resource /\ (user # "rule" => {"role"} \subseteq Names(user))
    BY <1>3, Kinds, NamesOf DEF Others
  <2> QED
    BY <1>5, <2>1, <2>2, OfIsPart
<1>7. LiveTargets # {} => Exists("rule")
  <2> SUFFICES ASSUME NEW p, <<"rule", p>> \in parts PROVE Exists("rule")
    BY DEF LiveTargets, Has
  <2>1. <<"rule", p>>[1] = "rule"
    OBVIOUS
  <2> QED
    BY <2>1, OfFacts DEF Owned, Old
<1> HIDE DEF c
<1>8. d \in CallSet /\ d.r = r /\ d.version = 0 /\ d.put = put /\ d.drop = drop
  BY <1>1, <1>6, CallIsCall
<1> HIDE DEF d
<1>9. /\ \A x \in drop : x[1] \in RoleUser
      /\ \A p \in {"target", "again"} : <<"rule", "stale">> \in put => <<"rule", p>> \in drop
      /\ \A x \in drop : x[1] = "rule" => x \in Of("rule", {"target", "again"})
      /\ \A x \in drop : x[1] # "rule" => x[2] = "role"
  <2>1. "rule" \in RoleUser
    BY Kinds
  <2>2. CASE drop = Of("rule", {"target", "again"})
    BY <2>1, <2>2, OfFacts
  <2>3. CASE user # "rule" /\ drop = Of(user, {"role"})
    <3>1. put = {}
      <4>1. <<"rule", "target">> \in Of("rule", {"target", "again"}) /\ \A x \in drop : x[1] # "rule"
        BY <2>3, OfFacts
      <4> QED
        BY <1>5, <4>1, OfFacts
    <3> QED
      BY <1>3, <2>3, <3>1, OfFacts
  <2> QED
    BY <1>5, <2>2, <2>3
<1>10. <<"rule", "target">> \in drop => <<"rule", "again">> \in drop
  <2>1. drop = Of("rule", {"target", "again"}) => <<"rule", "again">> \in drop
    BY OfFacts
  <2>2. user # "rule" /\ drop = Of(user, {"role"}) => <<"rule", "target">> \notin drop
    BY OfFacts
  <2> QED
    BY <1>5, <2>1, <2>2
<1>11. DeleteIamRole(r) = <<c, d>>
  BY DEF DeleteIamRole, user, c, d, put, drop
<1>12. DeleteIamRole(r)[1] = c /\ DeleteIamRole(r)[2] = d
  BY <1>11
<1> QED
  BY <1>4, <1>5, <1>7, <1>8, <1>9, <1>10, <1>12

LEMMA Halves ==
    ASSUME NEW n \in Nat
    PROVE  /\ \A i \in 1 .. 2 * n : (i + 1) \div 2 \in 1 .. n
           /\ \A i \in 1 .. 2 * n : i % 2 = 1 \/ i % 2 = 0
           /\ \A i \in 1 .. 2 * n : i % 2 = 0 =>
                 i - 1 \in 1 .. 2 * n /\ (i - 1) % 2 = 1 /\ (i - 1 + 1) \div 2 = (i + 1) \div 2
           /\ \A i, j \in 1 .. 2 * n : i < j /\ (i + 1) \div 2 = (j + 1) \div 2 => i % 2 = 1 /\ j % 2 = 0
<1>1. \A i \in 1 .. 2 * n : i % 2 = 1 \/ i % 2 = 0
  OBVIOUS
<1>2. \A i \in 1 .. 2 * n : (i + 1) \div 2 \in 1 .. n
  OBVIOUS
<1>3. \A i \in 1 .. 2 * n : i % 2 = 0 =>
         i - 1 \in 1 .. 2 * n /\ (i - 1) % 2 = 1 /\ (i - 1 + 1) \div 2 = (i + 1) \div 2
  OBVIOUS
<1>4. \A i, j \in 1 .. 2 * n : i < j /\ (i + 1) \div 2 = (j + 1) \div 2 => i % 2 = 1 /\ j % 2 = 0
  OBVIOUS
<1> QED
  BY <1>1, <1>2, <1>3, <1>4

LEMMA RolesFine ==
    ASSUME Types, Owned, cmd = "destroy", NEW found \in SUBSET Role, \A r \in found : Exists(r)
    PROVE  /\ DeleteRoles(found) \in Seq(CallSet) /\ OfCommand(DeleteRoles(found))
           /\ \A x \in found : \E i \in 1 .. Len(DeleteRoles(found)) :
                 DeleteRoles(found)[i].r = x /\ DeleteRoles(found)[i].version = 0
           /\ \A i \in 1 .. Len(DeleteRoles(found)) : \E x \in found :
                 \/ DeleteRoles(found)[i] = DeleteIamRole(x)[1]
                 \/ DeleteRoles(found)[i] = DeleteIamRole(x)[2]
<1> DEFINE n == Cardinality(found)
           f == SetToSeq(found)
           r(i) == f[(i + 1) \div 2]
           s == DeleteRoles(found)
<1>1. IsFiniteSet(found)
  BY KindsFinite, FS_Subset
<1>2. n \in Nat /\ f \in [1 .. n -> found] /\ (\A i, j \in 1 .. n : f[i] = f[j] => i = j)
      /\ \A x \in found : \E i \in 1 .. n : f[i] = x
  BY <1>1, SetToSeqFacts
<1>3. s = [i \in 1 .. 2 * n |-> DeleteIamRole(r(i))[IF i % 2 = 1 THEN 1 ELSE 2]]
  BY DEF DeleteRoles
<1> HIDE DEF n, f, s
<1>4. \A i \in 1 .. 2 * n : r(i) \in found
  BY <1>2, Halves
<1>5. \A i \in 1 .. 2 * n : r(i) \in Role /\ Exists(r(i))
  BY <1>4
<1> HIDE DEF r
<1>6. \A i \in 1 .. 2 * n : s[i] = DeleteIamRole(r(i))[IF i % 2 = 1 THEN 1 ELSE 2]
  BY <1>3
<1>7. \A i \in 1 .. 2 * n :
        /\ s[i] \in CallSet /\ s[i].r = r(i)
        /\ i % 2 = 1 => s[i].version = tag[r(i)] /\ s[i].put = {} /\ s[i].drop = Of(r(i), {"policy"})
        /\ i % 2 = 0 =>
              /\ s[i].version = 0 /\ s[i].put \subseteq Of("rule", {"stale"})
              /\ \A x \in s[i].drop : x[1] \in RoleUser
              /\ s[i].put # {} => Exists("rule")
  <2> SUFFICES ASSUME NEW i \in 1 .. 2 * n
               PROVE  /\ s[i] \in CallSet /\ s[i].r = r(i)
                      /\ i % 2 = 1 => s[i].version = tag[r(i)] /\ s[i].put = {} /\ s[i].drop = Of(r(i), {"policy"})
                      /\ i % 2 = 0 =>
                            /\ s[i].version = 0 /\ s[i].put \subseteq Of("rule", {"stale"})
                            /\ \A x \in s[i].drop : x[1] \in RoleUser
                            /\ s[i].put # {} => Exists("rule")
    OBVIOUS
  <2>1. r(i) \in Role /\ Exists(r(i))
    BY <1>5
  <2>2. i % 2 = 1 \/ i % 2 = 0
    BY <1>2, Halves
  <2>3. CASE i % 2 = 1
    <3>1. s[i] = DeleteIamRole(r(i))[1] /\ i % 2 # 0
      BY <1>6, <2>3
    <3> QED
      BY <2>1, <2>3, <3>1, RoleCalls
  <2>4. CASE i % 2 = 0
    <3>1. s[i] = DeleteIamRole(r(i))[2] /\ i % 2 # 1
      BY <1>6, <2>4
    <3> QED
      BY <2>1, <2>4, <3>1, RoleCalls
  <2> QED
    BY <2>2, <2>3, <2>4
<1>8. s \in Seq(CallSet) /\ Len(s) = 2 * n
  <2>1. 2 * n \in Nat
    BY <1>2
  <2>2. s \in [1 .. 2 * n -> CallSet]
    BY <1>3, <1>7
  <2> QED
    BY <2>1, <2>2, LenProperties
<1>9. \A i \in 1 .. Len(s) : OutsideCall(s[i]) /\ PutOwned(s[i])
  <2> SUFFICES ASSUME NEW i \in 1 .. 2 * n PROVE OutsideCall(s[i]) /\ PutOwned(s[i])
    BY <1>8
  <2>1. s[i].r \in Role /\ s[i].r \in Resource /\ Near(s[i].r) = {s[i].r} \union RoleUser
        /\ s[i].version \in {0, tag[s[i].r]}
    <3>1. s[i].r \in Role /\ s[i].r # "gateway"
      BY <1>5, <1>7, Kinds, KindsApart DEF Others
    <3>2. i % 2 = 1 \/ i % 2 = 0
      BY <1>2, Halves
    <3> QED
      BY <1>7, <3>1, <3>2, Kinds DEF Near
  <2>2. s[i].put \subseteq Of("rule", {"stale"}) /\ (s[i].put # {} => Exists("rule"))
        /\ \A x \in s[i].drop : x[1] \in Near(s[i].r)
    <3>1. i % 2 = 1 \/ i % 2 = 0
      BY <1>2, Halves
    <3> QED
      BY <1>7, <2>1, <3>1, OfFacts
  <2>3. "rule" \in Near(s[i].r) /\ \A x \in s[i].put : x[1] = "rule"
    BY <2>1, <2>2, OfFacts, Kinds
  <2>4. OutsideCall(s[i])
    BY <2>1, <2>2, <2>3 DEF OutsideCall
  <2>5. PutOwned(s[i])
    BY <2>1, <2>2, <2>3 DEF PutOwned
  <2> QED
    BY <2>4, <2>5
<1>10. RemovalsLast(s)
  <2> SUFFICES ASSUME NEW i \in 1 .. 2 * n, NEW j \in 1 .. 2 * n
               PROVE  /\ i < j /\ s[i].r = s[j].r /\ s[i].version = 0 => s[j].version = 0
                      /\ s[i].r \in Role => s[j].r \in Role
    BY <1>8 DEF RemovalsLast
  <2>1. s[j].r \in Role
    BY <1>5, <1>7
  <2>2. ASSUME i < j, s[i].r = s[j].r PROVE s[j].version = 0
    <3>1. (i + 1) \div 2 \in 1 .. n /\ (j + 1) \div 2 \in 1 .. n
      BY <1>2, Halves
    <3>2. f[(i + 1) \div 2] = f[(j + 1) \div 2]
      BY <1>7, <2>2 DEF r
    <3>3. (i + 1) \div 2 = (j + 1) \div 2
      BY <1>2, <3>1, <3>2
    <3>4. j % 2 = 0
      BY <1>2, <2>2, <3>3, Halves
    <3> QED
      BY <1>7, <3>4
  <2> QED
    BY <2>1, <2>2
<1>11. Clears(s)
  <2> SUFFICES ASSUME NEW i \in 1 .. 2 * n, s[i].version = 0
               PROVE  /\ \A x \in PartsOf(s[i].r) : x \in Old \/ \E j \in 1 .. i : x \in s[j].drop
                      /\ \A j \in 1 .. i : \A x \in s[j].put : x[1] = s[i].r => x \in Old
    BY <1>8 DEF Clears
  <2>1. i % 2 = 0
    <3>1. i % 2 = 1 => s[i].version # 0
      BY <1>5, <1>7 DEF Exists
    <3> QED
      BY <1>2, <3>1, Halves
  <2>2. i - 1 \in 1 .. 2 * n /\ (i - 1) % 2 = 1 /\ r(i - 1) = r(i)
    BY <1>2, <2>1, Halves DEF r
  <2>3. s[i - 1].drop = Of(s[i].r, {"policy"})
    BY <1>7, <2>2
  <2>4. s[i].r \in Role
    BY <1>5, <1>7
  <2>5. \A x \in PartsOf(s[i].r) : x \in s[i - 1].drop
    <3> SUFFICES ASSUME NEW x \in PartsOf(s[i].r) PROVE x \in Of(s[i].r, {"policy"})
      BY <2>3
    <3>1. x[1] = s[i].r /\ x \in Part
      BY DEF PartsOf, Types
    <3>2. x[2] = "policy" /\ x = <<s[i].r, x[2]>>
      BY <2>4, <3>1, PartFacts, NamesOf
    <3> QED
      BY <3>2, OfFacts
  <2>6. i - 1 \in 1 .. i
    BY <2>2
  <2>7. \A j \in 1 .. 2 * n : \A x \in s[j].put : x[1] = "rule"
    <3>1. \A j \in 1 .. 2 * n : s[j].put \subseteq Of("rule", {"stale"})
      <4> SUFFICES ASSUME NEW j \in 1 .. 2 * n PROVE s[j].put \subseteq Of("rule", {"stale"})
        OBVIOUS
      <4>1. j % 2 = 1 \/ j % 2 = 0
        BY <1>2, Halves
      <4> QED
        BY <1>7, <4>1
    <3> QED
      BY <3>1, OfFacts
  <2>8. s[i].r # "rule"
    BY <2>4, Kinds, KindsApart DEF Others
  <2>9. \A j \in 1 .. i : j \in 1 .. 2 * n
    BY <1>2
  <2> QED
    BY <2>5, <2>6, <2>7, <2>8, <2>9
<1>12. s \in Seq(CallSet) /\ OfCommand(s)
  BY <1>8, <1>9, <1>10, <1>11 DEF OfCommand, Both
<1>13. \A x \in found : \E i \in 1 .. Len(s) : s[i].r = x /\ s[i].version = 0
  <2> SUFFICES ASSUME NEW k \in 1 .. n
               PROVE  \E i \in 1 .. Len(s) : s[i].r = f[k] /\ s[i].version = 0
    BY <1>2
  <2>1. 2 * k \in 1 .. 2 * n /\ (2 * k) % 2 = 0 /\ (2 * k + 1) \div 2 = k
    BY <1>2
  <2> QED
    BY <1>7, <1>8, <2>1 DEF r
<1>14. \A i \in 1 .. Len(s) : \E x \in found : s[i] = DeleteIamRole(x)[1] \/ s[i] = DeleteIamRole(x)[2]
  BY <1>4, <1>6, <1>8
<1> QED
  BY <1>12, <1>13, <1>14 DEF s

LEMMA LambdasFine ==
    ASSUME Types, cmd = "destroy", NEW found \in SUBSET Lambda
    PROVE  /\ DeleteLambdas(found) \in Seq(CallSet) /\ OfCommand(DeleteLambdas(found))
           /\ \A l \in found : \E i \in 1 .. Len(DeleteLambdas(found)) : DeleteLambdas(found)[i] = Removes(l)
           /\ \A i \in 1 .. Len(DeleteLambdas(found)) : \E l \in found : DeleteLambdas(found)[i] = Removes(l)
<1> DEFINE n == Cardinality(found)
           f == SetToSeq(found)
           s == DeleteLambdas(found)
<1>1. IsFiniteSet(found)
  BY KindsFinite, FS_Subset
<1>2. n \in Nat /\ f \in [1 .. n -> found] /\ \A x \in found : \E i \in 1 .. n : f[i] = x
  BY <1>1, SetToSeqFacts
<1>3. s = [i \in 1 .. n |-> DeleteLambda(f[i])[1]]
  BY DEF DeleteLambdas
<1> HIDE DEF n, f, s
<1>4. \A i \in 1 .. n : f[i] \in Lambda /\ s[i] = Removes(f[i])
  BY <1>2, <1>3 DEF DeleteLambda
<1>5. \A i \in 1 .. n :
        /\ s[i] \in CallSet /\ s[i].r \in Lambda /\ s[i].r = f[i]
        /\ s[i].version = 0 /\ s[i].put = {} /\ s[i].drop = PartsOf(s[i].r)
  <2> SUFFICES ASSUME NEW i \in 1 .. n
               PROVE  /\ s[i] \in CallSet /\ s[i].r \in Lambda /\ s[i].r = f[i]
                      /\ s[i].version = 0 /\ s[i].put = {} /\ s[i].drop = PartsOf(s[i].r)
    OBVIOUS
  <2>1. f[i] \in Lambda /\ f[i] \in Resource /\ s[i] = Removes(f[i])
    BY <1>4, Kinds
  <2>2. {} \subseteq Names(f[i])
    OBVIOUS
  <2> QED
    BY <2>1, <2>2, Calls
<1>6. s \in Seq(CallSet) /\ Len(s) = n
  <2>1. s \in [1 .. n -> CallSet]
    BY <1>3, <1>5
  <2> QED
    BY <1>2, <2>1, LenProperties
<1>7. \A i \in 1 .. Len(s) : OutsideCall(s[i]) /\ PutOwned(s[i])
  <2> SUFFICES ASSUME NEW i \in 1 .. n PROVE OutsideCall(s[i]) /\ PutOwned(s[i])
    BY <1>6
  <2>1. s[i].r \in Resource /\ \A x \in s[i].drop : x[1] = s[i].r
    BY <1>5, Kinds, OfFacts
  <2> QED
    BY <1>5, <2>1 DEF OutsideCall, PutOwned, Near
<1>8. RemovalsLast(s)
  <2>1. \A i \in 1 .. n : s[i].r \notin Role
    BY <1>5, Kinds, KindsApart
  <2> QED
    BY <1>5, <1>6, <2>1 DEF RemovalsLast
<1>9. Clears(s)
  <2>1. \A i \in 1 .. n : i \in 1 .. i
    BY <1>2
  <2> QED
    BY <1>5, <1>6, <2>1 DEF Clears
<1>10. s \in Seq(CallSet) /\ OfCommand(s)
  BY <1>6, <1>7, <1>8, <1>9 DEF OfCommand, Both
<1>11. \A l \in found : \E i \in 1 .. Len(s) : s[i] = Removes(l)
  BY <1>2, <1>4, <1>6
<1>12. \A i \in 1 .. Len(s) : \E l \in found : s[i] = Removes(l)
  BY <1>2, <1>4, <1>6
<1> QED
  BY <1>10, <1>11, <1>12 DEF s

LEMMA GroupDeleted ==
    ASSUME Types
    PROVE  \A keep \in BOOLEAN : DeleteAutoScalingGroup(keep) =
              IF keep THEN <<Drops("asg", {"instances"}), Removes("asg")>> ELSE <<Removes("asg")>>
<1>1. "asg" \in Resource /\ {"instances"} \subseteq Names("asg")
  BY Kinds, NamesOf DEF Others
<1>2. Drops("asg", {"instances"}) \in CallSet /\ Removes("asg") \in CallSet
  BY <1>1, Calls
<1> DEFINE c == Drops("asg", {"instances"})  d == Removes("asg")
<1> HIDE DEF c, d
<1>3. c \in CallSet /\ d \in CallSet
  BY <1>2 DEF c, d
<1>4. <<c>> \o <<d>> = <<c, d>>
  BY <1>3, Tuples
<1>5. <<>> \o <<d>> = <<d>>
  BY <1>3, Tuples, ConcatEmptySeq
<1> QED
  BY <1>4, <1>5 DEF DeleteAutoScalingGroup, When, c, d

LEMMA RemovedFine ==
    ASSUME Types, cmd = "destroy"
    PROVE  /\ Exists("gateway") => DeleteRestApiGateway \in Seq(CallSet) /\ OfCommand(DeleteRestApiGateway)
           /\ Exists("lt") => DeleteLaunchTemplate \in Seq(CallSet) /\ OfCommand(DeleteLaunchTemplate)
           /\ Exists("sm") => DeleteStateMachine \in Seq(CallSet) /\ OfCommand(DeleteStateMachine)
           /\ Exists("rule") =>
                 DeleteCloudWatchEventRule \in Seq(CallSet) /\ OfCommand(DeleteCloudWatchEventRule)
           /\ \A keep \in BOOLEAN : Exists("asg") =>
                 DeleteAutoScalingGroup(keep) \in Seq(CallSet) /\ OfCommand(DeleteAutoScalingGroup(keep))
           /\ Exists("table") => DeleteTable \in Seq(CallSet) /\ OfCommand(DeleteTable)
           /\ Exists("key") => DeleteKMSKey \in Seq(CallSet) /\ OfCommand(DeleteKMSKey)
<1>1. {"gateway", "lt", "sm", "rule", "asg", "table", "key"} \subseteq (Resource \ Grouping) \ Role
  BY Kinds, KindsApart DEF Others
<1>2. Names("rule") = RuleTargets /\ {"instances"} \subseteq Names("asg") /\ {"alias"} \subseteq Names("key")
  BY NamesOf
<1>3. DeleteRestApiGateway \in Seq(CallSet) /\ OfCommand(DeleteRestApiGateway)
  <2> DEFINE s == DeleteRestApiGateway
  <2>1. /\ s \in Seq(CallSet) /\ Len(s) = 3
        /\ \A i \in 1 .. Len(s) : GatewayRemoval(s[i])
        /\ \A x \in PartsOf("gateway") : x \in Old \/ x \in s[1].drop
    BY RemovesGateway
  <2> HIDE DEF s
  <2>2. \A x \in Old : x[1] = "gateway"
    BY OfFacts DEF Old
  <2>3. Near("gateway") = {"gateway", "join", "lt"}
    BY <1>1 DEF Near
  <2>4. \A i \in 1 .. Len(s) : OutsideCall(s[i]) /\ PutOwned(s[i])
    <3> SUFFICES ASSUME NEW i \in 1 .. Len(s) PROVE OutsideCall(s[i]) /\ PutOwned(s[i])
      OBVIOUS
    <3>1. s[i].r = "gateway" /\ s[i].version = 0 /\ s[i].put \subseteq Old
          /\ \A x \in s[i].put \union s[i].drop : x[1] \in Near("gateway")
      BY <2>1, <2>2, <2>3 DEF GatewayRemoval
    <3> QED
      BY <1>1, <3>1 DEF OutsideCall, PutOwned
  <2>5. RemovalsLast(s)
    BY <2>1 DEF RemovalsLast, GatewayRemoval
  <2>6. Clears(s)
    BY <2>1 DEF Clears, GatewayRemoval
  <2> QED
    BY <2>1, <2>4, <2>5, <2>6 DEF OfCommand, Both, s
<1>4. \A keep \in BOOLEAN : DeleteAutoScalingGroup(keep) =
         IF keep THEN <<Drops("asg", {"instances"}), Removes("asg")>> ELSE <<Removes("asg")>>
  BY GroupDeleted
<1>5. \A r \in {"lt", "sm", "table", "asg"} : Exists(r) => <<Removes(r)>> \in Seq(CallSet) /\ OfCommand(<<Removes(r)>>)
  <2> SUFFICES ASSUME NEW r \in {"lt", "sm", "table", "asg"}, Exists(r)
               PROVE  <<Removes(r)>> \in Seq(CallSet) /\ OfCommand(<<Removes(r)>>)
    OBVIOUS
  <2>1. r \in Resource \ Grouping /\ r # "alb" /\ r \notin Role /\ {} \subseteq Names(r)
    BY <1>1
  <2> QED
    BY <2>1, RemovesFine
<1>6. Exists("asg") =>
        <<Drops("asg", {"instances"}), Removes("asg")>> \in Seq(CallSet)
        /\ OfCommand(<<Drops("asg", {"instances"}), Removes("asg")>>)
  BY <1>1, <1>2, RemovesFine
<1>7. Exists("rule") => DeleteCloudWatchEventRule \in Seq(CallSet) /\ OfCommand(DeleteCloudWatchEventRule)
  BY <1>1, <1>2, RemovesFine DEF DeleteCloudWatchEventRule
<1>8. Exists("key") => DeleteKMSKey \in Seq(CallSet) /\ OfCommand(DeleteKMSKey)
  BY <1>1, <1>2, RemovesFine DEF DeleteKMSKey
<1> QED
  BY <1>3, <1>4, <1>5, <1>6, <1>7, <1>8 DEF DeleteLaunchTemplate, DeleteStateMachine, DeleteTable

LEMMA ListingFacts ==
    ASSUME NEW left, NEW s
    PROVE  /\ \A r \in Listing(s, left) : Exists(r) /\ r \notin left
           /\ s = "iam" => Listing(s, left) = {r \in Role : Exists(r)} \ left
           /\ s = "lambdas" => Listing(s, left) = {r \in Lambda : Exists(r)} \ left
           /\ s \in {"sm", "rule"} => Listing(s, left) = {r \in {s} : Exists(r)} \ left
           /\ s = "db" => Listing(s, left) = {r \in {"table"} : Exists(r)} \ left
           /\ s \notin {"iam", "lambdas", "sm", "rule", "db"} => Listing(s, left) = {}
BY DEF Listing, GetClusterRoles, GetClusterLambdas, GetClusterStateMachines,
       GetCloudWatchEventRules, GetClusterDb

(* Whatever step it is, its calls are such calls. *)
LEMMA StepsFine ==
    ASSUME Types, TagsKnown, Owned, NEW step \in Saves \union Attaches \union Clean, NEW left,
           step \in Saves => Exists("table") /\ cmd # "destroy",
           step \in Attaches => Exists("asg") /\ cmd = "import",
           step \in Clean => cmd = "destroy", step = "record" => Dns,
           NEW s \in Steps(step, Listing(step, left))
    PROVE  s \in Seq(CallSet) /\ OfCommand(s)
<1> DEFINE found == Listing(step, left)
<1>1. \A r \in found : Exists(r)
  BY ListingFacts
<1> HIDE DEF found
<1>2. s \in Steps(step, found)
  BY DEF found
<1>3. CASE step \in Saves
  <2>1. s \in {SaveCredentials, SaveClusterSettings}
    BY <1>2, <1>3 DEF Steps, Saves
  <2>2. Exists("table") /\ cmd # "destroy"
    BY <1>3
  <2> QED
    BY <2>1, <2>2, SavesFine
<1>4. CASE step \in Attaches
  <2>1. s \in {AttachInstancesToASG, AttachLoadBalancer}
    BY <1>2, <1>4 DEF Steps, Attaches
  <2>2. Exists("asg") /\ cmd = "import"
    BY <1>4
  <2> QED
    BY <2>1, <2>2, AttachesFine
<1>5. CASE step \in Clean
  <2>1. cmd = "destroy"
    BY <1>5
  <2>2. CASE step = "record"
    BY <1>2, <2>1, <2>2, DeleteAlbFine DEF Steps
  <2>3. CASE step = "alb"
    BY <1>2, <2>1, <2>3, DeleteAlbFine DEF Steps
  <2>4. CASE step = "iam"
    <3>1. s = DeleteRoles(found) /\ found \in SUBSET Role
      BY <1>2, <2>4, ListingFacts DEF Steps, found
    <3> QED
      BY <1>1, <2>1, <3>1, RolesFine
  <2>5. CASE step = "lambdas"
    <3>1. s = DeleteLambdas(found) /\ found \in SUBSET Lambda
      BY <1>2, <2>5, ListingFacts DEF Steps, found
    <3> QED
      BY <2>1, <3>1, LambdasFine
  <2>6. CASE step = "gateway"
    <3>1. s = When(Exists("gateway"), DeleteRestApiGateway)
      BY <1>2, <2>6 DEF Steps
    <3> QED
      BY <2>1, <3>1, RemovedFine, WhenFine
  <2>7. CASE step = "lt"
    <3>1. s = When(Exists("lt"), DeleteLaunchTemplate)
      BY <1>2, <2>7 DEF Steps
    <3> QED
      BY <2>1, <3>1, RemovedFine, WhenFine
  <2>8. CASE step = "sm"
    <3>1. s = When("sm" \in found, DeleteStateMachine) /\ ("sm" \in found => Exists("sm"))
      BY <1>1, <1>2, <2>8 DEF Steps
    <3> QED
      BY <2>1, <3>1, RemovedFine, WhenFine
  <2>9. CASE step = "rule"
    <3>1. s = When("rule" \in found, DeleteCloudWatchEventRule) /\ ("rule" \in found => Exists("rule"))
      BY <1>1, <1>2, <2>9 DEF Steps
    <3> QED
      BY <2>1, <3>1, RemovedFine, WhenFine
  <2>10. CASE step = "asg"
    <3>1. PICK keep \in BOOLEAN : s = When(Exists("asg"), DeleteAutoScalingGroup(keep))
      BY <1>2, <2>10 DEF Steps
    <3>2. Exists("asg") => DeleteAutoScalingGroup(keep) \in Seq(CallSet) /\ OfCommand(DeleteAutoScalingGroup(keep))
      BY <2>1, RemovedFine
    <3> QED
      BY <3>1, <3>2, WhenFine
  <2>11. CASE step = "db"
    <3>1. s = When("table" \in found, DeleteTable) /\ ("table" \in found => Exists("table"))
      BY <1>1, <1>2, <2>11 DEF Steps
    <3> QED
      BY <2>1, <3>1, RemovedFine, WhenFine
  <2>12. CASE step = "kms"
    <3>1. s = When(Exists("key"), DeleteKMSKey)
      BY <1>2, <2>12 DEF Steps
    <3> QED
      BY <2>1, <3>1, RemovedFine, WhenFine
  <2> QED
    BY <1>5, <2>2, <2>3, <2>4, <2>5, <2>6, <2>7, <2>8, <2>9, <2>10, <2>11, <2>12 DEF Clean
<1> QED
  BY <1>3, <1>4, <1>5

-----------------------------------------------------------------------------
(* The state of a call of EnsureResource, as ResourceTree has it.          *)
LEMMA TreeStep == P!IInv /\ [P!Next]_P!vars => P!IInv'
BY TreeAssumptions, P!StepIInv

LEMMA TreeInit == P!Init => P!IInv
BY TreeAssumptions, P!InitIInv

LEMMA SameSpec == /\ P!Init <=> Tree!Init
                  /\ [P!Next]_P!vars <=> [Tree!Next]_Tree!vars
<1>1. P!Init <=> Tree!Init
  BY DEF P!Init, Tree!Init
<1>2. P!vars = Tree!vars /\ P!vars' = Tree!vars'
  BY DEF P!vars, Tree!vars
<1>3. P!Next <=> Tree!Next
  <2>1. \A root : P!Begin(root) <=> Tree!Begin(root)
    BY DEF P!Begin, Tree!Begin, P!Idle, Tree!Idle, P!Call, Tree!Call
  <2>2. P!Descend <=> Tree!Descend
    BY DEF P!Descend, Tree!Descend, P!At, Tree!At, P!Idle, Tree!Idle, P!Top, Tree!Top, P!SubsDone, Tree!SubsDone,
           P!Call, Tree!Call
  <2>3. P!Fetch <=> Tree!Fetch
    BY DEF P!Fetch, Tree!Fetch, P!At, Tree!At, P!Idle, Tree!Idle, P!Top, Tree!Top, P!SubsDone, Tree!SubsDone,
           P!Decide, Tree!Decide, P!Below, Tree!Below, P!AtTarget, Tree!AtTarget
  <2>4. P!Work <=> Tree!Work
    BY DEF P!Work, Tree!Work, P!At, Tree!At, P!Idle, Tree!Idle, P!Top, Tree!Top
  <2>5. P!Worked <=> Tree!Worked
    BY DEF P!Worked, Tree!Worked, P!At, Tree!At, P!Idle, Tree!Idle, P!Top, Tree!Top,
           P!Decide, Tree!Decide, P!Below, Tree!Below, P!AtTarget, Tree!AtTarget
  <2>6. P!Return <=> Tree!Return
    BY DEF P!Return, Tree!Return, P!At, Tree!At, P!Idle, Tree!Idle, P!Top, Tree!Top, P!Below, Tree!Below
  <2>7. P!Fail <=> Tree!Fail
    BY DEF P!Fail, Tree!Fail, P!Idle, Tree!Idle
  <2>8. P!Between <=> Tree!Between
    BY DEF P!Between, Tree!Between, P!Idle, Tree!Idle
  <2> QED
    BY <2>1, <2>2, <2>3, <2>4, <2>5, <2>6, <2>7, <2>8 DEF P!Next, Tree!Next
<1> QED
  BY <1>1, <1>2, <1>3

LEMMA HeadTail ==
    ASSUME NEW S, NEW s \in Seq(S), s # <<>>
    PROVE  /\ Len(s) \in Nat \ {0}
           /\ Head(s) = s[1] /\ Head(s) \in S
           /\ Tail(s) \in Seq(S) /\ Len(Tail(s)) = Len(s) - 1
           /\ \A i \in 1 .. Len(s) - 1 : Tail(s)[i] = s[i + 1]
<1>1. Len(s) \in Nat \ {0}
  BY EmptySeq
<1>2. s[1] \in S
  BY <1>1, ElementOfSeq
<1> QED
  BY <1>1, <1>2, HeadTailProperties

LEMMA StackFacts ==
    ASSUME P!IInv, stack # <<>>
    PROVE  /\ Len(stack) \in Nat \ {0}
           /\ stack \in Seq(P!Frame)
           /\ Top = P!Top /\ Below = P!Below /\ Top = stack[Len(stack)]
           /\ Top \in P!Frame /\ Top.r \in Resource
           /\ Below \in Seq(P!Frame) /\ Len(Below) = Len(stack) - 1
           /\ \A i \in 1 .. Len(stack) - 1 : Below[i] = stack[i]
           /\ \A step : P!At(step) <=> Top.step = step
           /\ ~P!Idle
<1>1. stack \in Seq(P!Frame) /\ ~P!Idle
  BY DEF P!IInv, P!TypeOK, P!Idle
<1>2. Top = P!Top /\ Below = P!Below /\ Top = stack[Len(stack)]
  BY DEF Top, Below, Last, Front, P!Top, P!Below
<1>3. /\ Len(stack) \in Nat \ {0} /\ P!Top \in P!Frame
      /\ P!Below \in Seq(P!Frame) /\ Len(P!Below) = Len(stack) - 1
      /\ \A i \in 1 .. Len(stack) - 1 : P!Below[i] = stack[i]
  BY <1>1, TreeAssumptions, P!BelowFacts
<1>4. Top.r \in Resource
  BY <1>2, <1>3 DEF P!Frame
<1> QED
  BY <1>1, <1>2, <1>3, <1>4 DEF P!At

(* The tags, as ResourceTree has them. *)
Dep == [r \in Resource |-> Deployed(r)]

LEMMA DepFacts ==
    ASSUME Types
    PROVE  /\ \A r \in Resource \ {"alb"} : Dep[r] = tag[r]
           /\ Dep["alb"] = IF AlbIsWhole THEN target["alb"] ELSE 0
           /\ Dep \in [Resource -> {1, 2} \union {0}]
           /\ target["alb"] \in {1, 2} /\ "alb" \in Resource
<1>1. "alb" \in Resource
  BY Kinds DEF Others
<1> QED
  BY <1>1 DEF Dep, Deployed, Types

LEMMA AtTargetIs ==
    ASSUME Types
    PROVE  /\ \A r \in (Resource \ Grouping) \ {"alb"} : P!AtTarget(r) <=> tag[r] = target[r]
           /\ \A r \in Resource \cap Grouping : P!AtTarget(r)
           /\ P!AtTarget("alb") <=> AlbIsWhole
<1>1. "alb" \notin Grouping
  BY DEF Grouping
<1>2. \A r \in Resource : P!AtTarget(r) <=> r \in Grouping \/ Dep[r] = target[r]
  BY DEF P!AtTarget, Dep
<1> QED
  BY <1>1, <1>2, DepFacts

(* What has been ensured is there. *)
LEMMA VisitedExists ==
    ASSUME Types, P!IInv, ~dry, NEW r \in visited, r \notin Grouping, r # "alb",
           stack = <<>> \/ Top.step # "work"
    PROVE  tag[r] = target[r] /\ Exists(r)
<1>1. r \in Resource /\ target[r] # 0
  BY DEF P!IInv, P!TypeOK, Types
<1>2. ~P!At("work")
  BY StackFacts DEF P!At, P!Idle
<1>3. P!AtTarget(r)
  BY <1>2 DEF P!IInv, P!TagsRight, P!VisitedDeployed
<1> QED
  BY <1>1, <1>3, AtTargetIs DEF Exists

(* When no tag and no part of the load balancer changes. *)
LEMMA DepSame ==
    ASSUME Types, target' = target, tag' = tag, \A p \in AlbParts : Has("alb", p)' <=> Has("alb", p)
    PROVE  Dep' = Dep
<1>1. AlbIsWhole' <=> AlbIsWhole
  BY DEF AlbIsWhole, AlbParts
<1>2. \A r \in Resource : Deployed(r)' = Deployed(r)
  BY <1>1, DepFacts DEF Deployed
<1> QED
  BY <1>2 DEF Dep

LEMMA TreeStays == ASSUME Dep' = Dep, UNCHANGED <<target, stack, dry, visited>> PROVE [P!Next]_P!vars
BY DEF P!vars, Dep

LEMMA TreeBetween ==
    ASSUME stack = <<>>, visited' = {}, UNCHANGED <<stack, dry>>,
           \/ target' \in [Resource -> {1, 2}] /\ Dep' = Dep
           \/ /\ \E gone \in SUBSET Resource :
                    Dep' = [r \in Resource |-> IF r \in gone THEN 0 ELSE Dep[r]]
              /\ UNCHANGED target
    PROVE  [P!Next]_P!vars
<1>1. P!Between
  BY DEF P!Between, P!Idle, Dep
<1> QED
  BY <1>1 DEF P!Next

(* The command ends while EnsureResource is at work, or between. *)
LEMMA EndsTree ==
    ASSUME BInv, P!IInv, NEW how, Ends(how)
    PROVE  [P!Next]_P!vars
<1>1. /\ stack' = <<>> /\ visited' = {}
      /\ UNCHANGED <<tag, parts, target, dry>>
  BY DEF Ends, awsVars
<1>2. Dep' = Dep
  BY <1>1, DepSame DEF BInv, Has
<1>3. CASE stack = <<>>
  <2>1. target' \in [Resource -> {1, 2}]
    BY <1>1 DEF BInv, Types
  <2> QED
    BY <1>1, <1>2, <1>3, <2>1, TreeBetween
<1>4. CASE stack # <<>>
  <2>1. P!Fail
    BY <1>1, <1>2, <1>4 DEF P!Fail, P!Idle, Dep
  <2> QED
    BY <2>1 DEF P!Next
<1> QED
  BY <1>3, <1>4

(* Nothing in progress. *)
LEMMA QuietPending == ASSUME stack' = <<>>, todo' = <<>> PROVE Pending'
<1>1. Len(todo') = 0
  BY EmptySeq
<1> QED
  BY <1>1 DEF Pending, OfCommand, RemovalsLast, Both, Clears

LEMMA EndsBInv ==
    ASSUME BInv, NEW how \in {"aborted", "stuck"}, Ends(how)
    PROVE  BInv'
<1>1. /\ stack' = <<>> /\ todo' = <<>> /\ plan' = <<>> /\ visited' = {} /\ outcome' = how
      /\ UNCHANGED <<tag, parts, target, dry, made, cmd, missed>>
  BY DEF Ends, awsVars
<1>2. Types'
  BY <1>1, EmptySeq DEF BInv, Types
<1>3. TagsKnown'
  BY <1>1 DEF BInv, TagsKnown
<1>4. Control'
  BY <1>1 DEF BInv, Control
<1>5. Owned'
  BY <1>1 DEF BInv, Owned, Exists
<1>6. Position'
  BY <1>1 DEF Position
<1> QED
  BY <1>1, <1>2, <1>3, <1>4, <1>5, <1>6, QuietPending DEF BInv

-----------------------------------------------------------------------------
(***************************************************************************)
(* The steps.  Each keeps BInv and is a step of ResourceTree, or leaves    *)
(* its variables as they are.                                              *)
(***************************************************************************)
LEMMA ReadyFacts == ASSUME BInv, Ready PROVE stack = <<>> /\ todo = <<>> /\ plan = <<>>
BY DEF BInv, Control, Ready

LEMMA RefusedStep ==
    ASSUME BInv, P!IInv, NEW c, Refused(c)
    PROVE  BInv' /\ [P!Next]_P!vars
<1>1. /\ stack = <<>> /\ todo = <<>> /\ plan = <<>> /\ c \in Commands
      /\ cmd' = c /\ outcome' = "stuck" /\ visited' = {}
      /\ UNCHANGED <<tag, parts, target, stack, dry, made, plan, todo, missed>>
  BY ReadyFacts DEF Refused, awsVars, history
<1>2. Types' /\ TagsKnown' /\ Owned'
  BY <1>1 DEF BInv, Types, TagsKnown, Owned, Exists
<1>3. Control'
  BY <1>1, CommandsAssumption DEF Control
<1>4. Position'
  BY <1>1 DEF Position
<1>5. Dep' = Dep
  BY <1>1, DepSame DEF BInv, Has
<1>6. target' \in [Resource -> {1, 2}]
  BY <1>2 DEF Types
<1> QED
  BY <1>1, <1>2, <1>3, <1>4, <1>5, <1>6, QuietPending, TreeBetween DEF BInv

LEMMA EndOfAll ==
    ASSUME NEW s \in Seq(StepName)
    PROVE  EndOf(s, s)
<1>1. Len(s) \in Nat
  BY LenProperties
<1> QED
  BY <1>1 DEF EndOf

LEMMA Prepend ==
    ASSUME NEW a \in StepName, NEW s \in Seq(StepName), NEW full \in Seq(StepName),
           Len(full) = Len(s) + 1, full[1] = a, \A i \in 1 .. Len(s) : full[i + 1] = s[i]
    PROVE  /\ EndOf(s, full)
           /\ <<a>> \o s = full
           /\ <<>> \o s = s
<1>1. Len(s) \in Nat
  BY LenProperties
<1>2. EndOf(s, full)
  BY <1>1 DEF EndOf
<1>3. <<>> \o s = s
  BY ConcatEmptySeq
<1>4. <<a>> \in Seq(StepName) /\ Len(<<a>>) = 1 /\ <<a>>[1] = a
  OBVIOUS
<1> DEFINE one == <<a>>
<1> HIDE DEF one
<1>5. one \in Seq(StepName) /\ Len(one) = 1 /\ one[1] = a
  BY <1>4 DEF one
<1>6. /\ one \o s \in Seq(StepName)
      /\ Len(one \o s) = Len(one) + Len(s)
      /\ \A i \in 1 .. Len(one) + Len(s) :
            (one \o s)[i] = IF i <= Len(one) THEN one[i] ELSE s[i - Len(one)]
  BY <1>5, ConcatProperties
<1>7. \A i \in 1 .. Len(full) : (one \o s)[i] = full[i]
  <2> SUFFICES ASSUME NEW i \in 1 .. Len(full) PROVE (one \o s)[i] = full[i]
    OBVIOUS
  <2>1. i \in 1 .. Len(one) + Len(s)
    BY <1>1, <1>5
  <2>2. CASE i = 1
    BY <1>5, <1>6, <2>1, <2>2
  <2>3. CASE i # 1
    <3>1. i - 1 \in 1 .. Len(s) /\ ~(i <= Len(one)) /\ i - Len(one) = i - 1
      BY <1>1, <1>5, <2>1, <2>3
    <3>2. full[i - 1 + 1] = s[i - 1] /\ i - 1 + 1 = i
      BY <3>1
    <3> QED
      BY <1>6, <2>1, <3>1, <3>2
  <2> QED
    BY <2>2, <2>3
<1>8. one \o s = full
  <2>1. Len(one \o s) = Len(full)
    BY <1>1, <1>5, <1>6
  <2> QED
    BY <1>6, <1>7, <2>1, SeqEqual
<1> QED
  BY <1>2, <1>3, <1>8 DEF one

LEMMA Plans ==
    /\ ImportPlan \in Seq(StepName) /\ Len(ImportPlan) = 6
    /\ \A root \in {"cluster", "bare"} :
          /\ UpdatePlan(root) \in Seq(StepName) /\ Len(UpdatePlan(root)) = 3
          /\ <<"table", root>> \in Seq(StepName) /\ Len(<<"table", root>>) = 2
          /\ UpdatePlan(root)[1] = "migrate"
          /\ \A i \in 1 .. 2 : UpdatePlan(root)[i + 1] = <<"table", root>>[i]
    /\ DestroyPlan \in Seq(StepName) /\ Len(DestroyPlan) = 11 /\ DestroyPlan[1] = "record"
    /\ Cleaners \in Seq(StepName) /\ Len(Cleaners) = 10
    /\ \A i \in 1 .. 10 : DestroyPlan[i + 1] = Cleaners[i]
<1>1. Saves \union Attaches \union Clean \union Roots \subseteq StepName
  BY DEF StepName
<1>2. ImportPlan \in Seq(StepName) /\ Len(ImportPlan) = 6
  BY <1>1 DEF ImportPlan, Saves, Attaches, Roots
<1>3. ASSUME NEW root \in {"cluster", "bare"}
      PROVE  /\ UpdatePlan(root) \in Seq(StepName) /\ Len(UpdatePlan(root)) = 3
             /\ <<"table", root>> \in Seq(StepName) /\ Len(<<"table", root>>) = 2
             /\ UpdatePlan(root)[1] = "migrate"
             /\ \A i \in 1 .. 2 : UpdatePlan(root)[i + 1] = <<"table", root>>[i]
  <2>1. "migrate" \in StepName /\ "table" \in StepName /\ root \in StepName
    BY <1>1 DEF Saves, Roots
  <2> QED
    BY <2>1 DEF UpdatePlan
<1>4. DestroyPlan \in Seq(StepName) /\ Len(DestroyPlan) = 11 /\ DestroyPlan[1] = "record"
  BY <1>1 DEF DestroyPlan, Clean
<1>5. Cleaners \in Seq(StepName) /\ Len(Cleaners) = 10
  BY <1>1 DEF Cleaners, Clean
<1>6. \A i \in 1 .. 10 : DestroyPlan[i + 1] = Cleaners[i]
  BY DEF DestroyPlan, Cleaners
<1> QED
  BY <1>2, <1>3, <1>4, <1>5, <1>6

LEMMA BeginsStep ==
    ASSUME BInv, P!IInv, NEW c, NEW steps, Begins(c, steps),
           c = "import" => EndOf(steps, ImportPlan),
           c = "import" => Len(steps) = 6,
           c \in {"update", "dryUpdate"} => \E root \in {"cluster", "bare"} : EndOf(steps, UpdatePlan(root)),
           c \in {"update", "dryUpdate"} /\ Len(steps) = 3 => Has("table", "settings"),
           c = "destroy" => EndOf(steps, DestroyPlan)
    PROVE  BInv' /\ [P!Next]_P!vars
<1>1. /\ stack = <<>> /\ todo = <<>> /\ c \in Commands
      /\ cmd' = c /\ outcome' = "running" /\ plan' = steps /\ visited' = {} /\ made' = FALSE
      /\ UNCHANGED <<tag, parts, target, stack, dry, todo, missed>>
  BY ReadyFacts DEF Begins, awsVars, history
<1>2. Types' /\ TagsKnown' /\ Owned'
  BY <1>1 DEF BInv, Types, TagsKnown, Owned, Exists
<1>3. Control'
  BY <1>1, CommandsAssumption DEF Control
<1>4. PlanKnown'
  BY <1>1 DEF PlanKnown, EndOf
<1>5. Position'
  <2>1. outcome' = "running" /\ cmd' \in {"update", "dryUpdate"} /\ Len(plan') = 3 => <<"table", "settings">> \in parts
    BY <1>1 DEF Has
  <2> DEFINE n == Len(plan')
  <2>2. cmd' = "import" => ~(n \in {3, 4, 5}) /\ ~(n <= 2)
    <3>1. cmd' = "import" => n = 6
      BY <1>1
    <3> HIDE DEF n
    <3> QED
      BY <3>1
  <2> QED
    BY <1>1, <2>1, <2>2 DEF Position, Has
<1>6. Dep' = Dep
  BY <1>1, DepSame DEF BInv, Has
<1>7. target' \in [Resource -> {1, 2}]
  BY <1>2 DEF Types
<1> QED
  BY <1>1, <1>2, <1>3, <1>4, <1>5, <1>6, <1>7, QuietPending, TreeBetween DEF BInv

LEMMA ImportStep == ASSUME BInv, P!IInv, ImportCluster PROVE BInv' /\ [P!Next]_P!vars
<1>1. Begins("import", ImportPlan)
  BY DEF ImportCluster, ImportPlan
<1>2. EndOf(ImportPlan, ImportPlan) /\ Len(ImportPlan) = 6
  BY Plans, EndOfAll
<1> QED
  BY <1>1, <1>2, BeginsStep

(* The plan of update, with the migration of the settings and without. *)
LEMMA UpdatePlanIs ==
    ASSUME NEW root \in {"cluster", "bare"}
    PROVE  /\ EndOf(<<"table", root>>, UpdatePlan(root))
           /\ <<"migrate">> \o <<"table", root>> = UpdatePlan(root)
           /\ <<>> \o <<"table", root>> = <<"table", root>>
<1>1. "migrate" \in StepName
  BY DEF StepName, Saves
<1> DEFINE full == UpdatePlan(root)  s == <<"table", root>>
<1>2. /\ full \in Seq(StepName) /\ Len(full) = 3 /\ s \in Seq(StepName) /\ Len(s) = 2
      /\ full[1] = "migrate" /\ \A i \in 1 .. 2 : full[i + 1] = s[i]
  BY Plans, Zenon
<1> HIDE DEF full, s
<1>3. Len(full) = Len(s) + 1 /\ \A i \in 1 .. Len(s) : full[i + 1] = s[i]
  BY <1>2
<1>4. EndOf(s, full) /\ <<"migrate">> \o s = full /\ <<>> \o s = s
  BY <1>1, <1>2, <1>3, Prepend
<1> QED
  BY <1>4 DEF full, s

LEMMA UpdateStep == ASSUME BInv, P!IInv, UpdateCluster PROVE BInv' /\ [P!Next]_P!vars
<1>1. PICK c \in {"update", "dryUpdate"} :
        \/ Refused(c)
        \/ /\ ~GetClusterFails
           /\ Begins(c, When(~Has("table", "build"), <<"migrate">>)
                        \o <<"table", IF Exists("asg") THEN "cluster" ELSE "bare">>)
  BY DEF UpdateCluster
<1>2. CASE Refused(c)
  BY <1>2, RefusedStep
<1>3. CASE /\ ~GetClusterFails
           /\ Begins(c, When(~Has("table", "build"), <<"migrate">>)
                        \o <<"table", IF Exists("asg") THEN "cluster" ELSE "bare">>)
  <2> DEFINE root == IF Exists("asg") THEN "cluster" ELSE "bare"
             steps == When(~Has("table", "build"), <<"migrate">>) \o <<"table", root>>
  <2>1. root \in {"cluster", "bare"}
    OBVIOUS
  <2>2. Begins(c, steps) /\ Has("table", "settings")
    BY <1>3 DEF GetClusterFails
  <2> HIDE DEF root
  <2>3. EndOf(<<"table", root>>, UpdatePlan(root)) /\ <<"migrate">> \o <<"table", root>> = UpdatePlan(root)
        /\ <<>> \o <<"table", root>> = <<"table", root>>
    BY <2>1, UpdatePlanIs
  <2>4. steps = UpdatePlan(root) \/ steps = <<"table", root>>
    BY <2>3 DEF When
  <2> HIDE DEF steps
  <2>5. EndOf(steps, UpdatePlan(root))
    BY <2>1, <2>3, <2>4, Plans, EndOfAll
  <2>6. c # "import" /\ c # "destroy"
    OBVIOUS
  <2> QED
    BY <2>1, <2>2, <2>5, <2>6, BeginsStep
<1> QED
  BY <1>1, <1>2, <1>3

LEMMA CleanersPlan == EndOf(Cleaners, DestroyPlan) /\ <<"record">> \o Cleaners = DestroyPlan /\ <<>> \o Cleaners = Cleaners
<1>1. "record" \in StepName
  BY DEF StepName, Clean
<1>2. Len(DestroyPlan) = Len(Cleaners) + 1 /\ Len(Cleaners) = 10
  BY Plans
<1>3. \A i \in 1 .. Len(Cleaners) : DestroyPlan[i + 1] = Cleaners[i]
  BY <1>2, Plans
<1>4. DestroyPlan \in Seq(StepName) /\ Cleaners \in Seq(StepName) /\ DestroyPlan[1] = "record"
  BY Plans
<1>5. EndOf(Cleaners, DestroyPlan)
  BY <1>1, <1>2, <1>3, <1>4, Prepend
<1>6. <<"record">> \o Cleaners = DestroyPlan
  <2> DEFINE a == "record"
  <2>1. a \in StepName /\ DestroyPlan[1] = a
    BY <1>1, <1>4
  <2> HIDE DEF a
  <2> DEFINE s == Cleaners  full == DestroyPlan
  <2>3. /\ s \in Seq(StepName) /\ full \in Seq(StepName) /\ Len(full) = Len(s) + 1
        /\ full[1] = a /\ \A i \in 1 .. Len(s) : full[i + 1] = s[i]
    BY <1>2, <1>3, <1>4, <2>1
  <2> HIDE DEF s, full
  <2>4. <<a>> \o s = full
    BY <2>1, <2>3, Prepend
  <2>2. <<a>> \o Cleaners = DestroyPlan
    BY <2>4 DEF s, full
  <2> QED
    BY <2>2 DEF a
<1>7. <<>> \o Cleaners = Cleaners
  BY <1>4, ConcatEmptySeq
<1> QED
  BY <1>5, <1>6, <1>7

LEMMA DestroyStep == ASSUME BInv, P!IInv, Destroy PROVE BInv' /\ [P!Next]_P!vars
<1>1. CASE Refused("destroy")
  BY <1>1, RefusedStep
<1>2. CASE Begins("destroy", When(Dns /\ Has("table", "settings"), <<"record">>) \o Cleaners)
  <2> DEFINE steps == When(Dns /\ Has("table", "settings"), <<"record">>) \o Cleaners
  <2>1. EndOf(Cleaners, DestroyPlan) /\ <<"record">> \o Cleaners = DestroyPlan /\ <<>> \o Cleaners = Cleaners
    BY CleanersPlan
  <2>2. EndOf(steps, DestroyPlan)
    BY <2>1, Plans, EndOfAll DEF When
  <2> HIDE DEF steps
  <2>3. Begins("destroy", steps)
    BY <1>2 DEF steps
  <2> QED
    BY <2>2, <2>3, BeginsStep
<1> QED
  BY <1>1, <1>2 DEF Destroy

LEMMA FinishStep == ASSUME BInv, P!IInv, Finish PROVE BInv' /\ [P!Next]_P!vars
<1>1. /\ stack = <<>> /\ todo = <<>> /\ plan = <<>> /\ outcome' = "ok" /\ outcome = "running"
      /\ UNCHANGED <<tag, parts, target, stack, dry, visited, made, cmd, plan, todo, missed>>
  BY DEF Finish, Between, awsVars, ensureVars, history
<1>2. Types' /\ TagsKnown' /\ Owned'
  BY <1>1 DEF BInv, Types, TagsKnown, Owned, Exists
<1>3. Control'
  BY <1>1 DEF BInv, Control
<1>4. Position'
  BY <1>1 DEF Position
<1>5. Dep' = Dep
  BY <1>1, DepSame DEF BInv, Has
<1> QED
  BY <1>1, <1>2, <1>3, <1>4, <1>5, QuietPending, TreeStays DEF BInv

LEMMA UpgradeStep == ASSUME BInv, P!IInv, Upgrade PROVE BInv' /\ [P!Next]_P!vars
<1>1. /\ stack = <<>> /\ todo = <<>> /\ plan = <<>> /\ outcome' = "none"
      /\ target' = [r \in Resource |-> IF r \in Upgraded THEN 2 ELSE 1]
      /\ parts' = parts \ ((UNION {Of(r, {"policy"}) : r \in Upgraded \intersect Role})
                           \union (UNION {Of(l, {"runtime", "arch"}) : l \in Upgraded \intersect Lambda})
                           \union Of("table", {"build"}))
      /\ visited' = {}
      /\ UNCHANGED <<tag, stack, dry, made, cmd, plan, todo, missed>>
  BY ReadyFacts DEF Upgrade, history
<1>2. parts' \subseteq parts
  BY <1>1
<1>3. Types'
  BY <1>1, <1>2 DEF BInv, Types
<1>4. TagsKnown' /\ Owned'
  <2>1. \A r \in Resource \ Upgraded : target'[r] = 1
    BY <1>1
  <2> QED
    BY <1>1, <1>2, <2>1 DEF BInv, TagsKnown, Owned, Exists
<1>5. Control'
  BY <1>1 DEF BInv, Control
<1>6. Position'
  BY <1>1 DEF Position
<1>7. Dep' = Dep
  <2>1. \A x \in parts : x[1] = "alb" => x \in parts'
    <3> SUFFICES ASSUME NEW x \in parts, x[1] = "alb", x \notin parts' PROVE FALSE
      OBVIOUS
    <3> DEFINE P1 == UNION {Of(r, {"policy"}) : r \in Upgraded \intersect Role}
               P2 == UNION {Of(l, {"runtime", "arch"}) : l \in Upgraded \intersect Lambda}
    <3>3. x \in P1 => \E r \in Upgraded \intersect Role : x \in Of(r, {"policy"})
      OBVIOUS
    <3>4. x \in P2 => \E l \in Upgraded \intersect Lambda : x \in Of(l, {"runtime", "arch"})
      OBVIOUS
    <3>5. parts' = parts \ (P1 \union P2 \union Of("table", {"build"}))
      BY DEF Upgrade
    <3> HIDE DEF P1, P2
    <3>1. \/ \E r \in Upgraded \intersect Role : x \in Of(r, {"policy"})
          \/ \E l \in Upgraded \intersect Lambda : x \in Of(l, {"runtime", "arch"})
          \/ x \in Of("table", {"build"})
      BY <3>3, <3>4, <3>5
    <3>2. "alb" \notin Role /\ "alb" \notin Lambda
      BY Kinds, KindsApart DEF Others
    <3> QED
      BY <3>1, <3>2, OfFacts
  <2>2. ASSUME NEW p \in AlbParts PROVE <<"alb", p>> \in parts' <=> <<"alb", p>> \in parts
    <3> DEFINE x == <<"alb", p>>
    <3>1. x[1] = "alb"
      OBVIOUS
    <3> HIDE DEF x
    <3>2. x \in parts' <=> x \in parts
      BY <1>2, <2>1, <3>1
    <3> QED
      BY <3>2 DEF x
  <2>3. AlbIsWhole' <=> AlbIsWhole
    BY <2>2 DEF AlbIsWhole, AlbParts, Has
  <2>4. target'["alb"] = target["alb"]
    <3>1. "alb" \in Resource /\ "alb" \notin Upgraded
      BY NeverUpgraded, Kinds DEF Others
    <3> QED
      BY <1>1, <3>1 DEF BInv, TagsKnown
  <2>5. \A r \in Resource : Deployed(r)' = Deployed(r)
    BY <1>1, <2>3, <2>4 DEF Deployed
  <2> QED
    BY <2>5 DEF Dep
<1>8. target' \in [Resource -> {1, 2}]
  BY <1>3 DEF Types
<1> QED
  BY <1>1, <1>3, <1>4, <1>5, <1>6, <1>7, <1>8, QuietPending, TreeBetween DEF BInv, Ready, Upgrade

LEMMA EndingStep ==
    ASSUME BInv, P!IInv, Abort \/ FetchStuck \/ WorkStops \/ CleanerStuck
    PROVE  BInv' /\ [P!Next]_P!vars
<1>1. PICK how \in {"aborted", "stuck"} : Ends(how)
  BY DEF Abort, FetchStuck, WorkStops, CleanerStuck
<1> QED
  BY <1>1, EndsTree, EndsBInv

(* What a command is about to do. *)
LEMMA EndHead ==
    ASSUME NEW s, NEW full \in Seq(StepName), EndOf(s, full), s # <<>>
    PROVE  /\ Len(s) \in 1 .. Len(full) /\ Len(full) \in Nat
           /\ Head(s) = full[Len(full) - Len(s) + 1] /\ Head(s) \in StepName
           /\ EndOf(Tail(s), full) /\ Len(Tail(s)) = Len(s) - 1
<1>1. s \in Seq(StepName) /\ Len(s) <= Len(full)
      /\ \A i \in 1 .. Len(s) : s[i] = full[Len(full) - Len(s) + i]
  BY DEF EndOf
<1>2. /\ Len(s) \in Nat \ {0} /\ Head(s) = s[1] /\ Head(s) \in StepName
      /\ Tail(s) \in Seq(StepName) /\ Len(Tail(s)) = Len(s) - 1
      /\ \A i \in 1 .. Len(s) - 1 : Tail(s)[i] = s[i + 1]
  BY <1>1, HeadTail
<1>3. Len(full) \in Nat
  BY LenProperties
<1>4. ASSUME NEW i \in 1 .. Len(Tail(s)) PROVE Tail(s)[i] = full[Len(full) - Len(Tail(s)) + i]
  <2>1. i + 1 \in 1 .. Len(s) /\ i \in 1 .. Len(s) - 1
    BY <1>2, <1>4
  <2>2. Tail(s)[i] = full[Len(full) - Len(s) + (i + 1)]
    BY <1>1, <1>2, <2>1
  <2>3. Len(full) - Len(s) + (i + 1) = Len(full) - Len(Tail(s)) + i
    BY <1>2, <1>3, <1>4
  <2> QED
    BY <2>2, <2>3
<1>5. EndOf(Tail(s), full)
  BY <1>1, <1>2, <1>3, <1>4 DEF EndOf
<1>6. 1 \in 1 .. Len(s)
  BY <1>2
<1> QED
  BY <1>1, <1>2, <1>3, <1>5, <1>6

LEMMA PlanFacts ==
    ASSUME BInv, outcome = "running", plan # <<>>
    PROVE  /\ Len(plan) \in Nat \ {0} /\ Len(Tail(plan)) = Len(plan) - 1 /\ Head(plan) \in StepName
           /\ cmd \in {"import", "update", "dryUpdate", "destroy"}
           /\ cmd = "import" =>
                 /\ Len(plan) \in 1 .. 6 /\ Head(plan) = ImportPlan[7 - Len(plan)]
                 /\ EndOf(Tail(plan), ImportPlan)
           /\ cmd \in {"update", "dryUpdate"} =>
                 /\ Len(plan) \in 1 .. 3
                 /\ Len(plan) = 3 => Head(plan) = "migrate"
                 /\ Len(plan) = 2 => Head(plan) = "table"
                 /\ Len(plan) = 1 => Head(plan) \in {"cluster", "bare"}
                 /\ \E root \in {"cluster", "bare"} : EndOf(Tail(plan), UpdatePlan(root))
           /\ cmd = "destroy" =>
                 /\ Len(plan) \in 1 .. 11 /\ Head(plan) = DestroyPlan[12 - Len(plan)]
                 /\ EndOf(Tail(plan), DestroyPlan)
<1>1. PlanKnown /\ cmd \in {"import", "update", "dryUpdate", "destroy"}
  BY CommandsAssumption DEF BInv, Types, Control
<1>2. CASE cmd = "import"
  <2>1. EndOf(plan, ImportPlan) /\ ImportPlan \in Seq(StepName) /\ Len(ImportPlan) = 6
    BY <1>1, <1>2, Plans DEF PlanKnown
  <2>2. /\ Len(plan) \in 1 .. Len(ImportPlan)
        /\ Head(plan) = ImportPlan[Len(ImportPlan) - Len(plan) + 1] /\ Head(plan) \in StepName
        /\ EndOf(Tail(plan), ImportPlan) /\ Len(Tail(plan)) = Len(plan) - 1
    BY <2>1, EndHead
  <2>3. Len(plan) \in 1 .. 6 /\ Len(plan) \in Nat \ {0} /\ Len(ImportPlan) - Len(plan) + 1 = 7 - Len(plan)
    <3> DEFINE n == Len(plan)  m == Len(ImportPlan)
    <3>1. n \in 1 .. m /\ m = 6
      BY <2>1, <2>2
    <3> HIDE DEF n, m
    <3>2. n \in 1 .. 6 /\ n \in Nat \ {0} /\ m - n + 1 = 7 - n
      BY <3>1
    <3> QED
      BY <3>2 DEF n, m
  <2> QED
    BY <1>1, <1>2, <2>2, <2>3, Zenon
<1>3. CASE cmd \in {"update", "dryUpdate"}
  <2>1. PICK root \in {"cluster", "bare"} : EndOf(plan, UpdatePlan(root))
    BY <1>1, <1>3 DEF PlanKnown
  <2> DEFINE full == UpdatePlan(root)
  <2>2. full \in Seq(StepName) /\ Len(full) = 3
    BY <2>1, Plans
  <2>3. full[1] = "migrate" /\ full[2] = "table" /\ full[3] = root
    BY DEF UpdatePlan
  <2>4. EndOf(plan, full)
    BY <2>1
  <2> HIDE DEF full
  <2>5. /\ Len(plan) \in 1 .. Len(full)
        /\ Head(plan) = full[Len(full) - Len(plan) + 1] /\ Head(plan) \in StepName
        /\ EndOf(Tail(plan), full) /\ Len(Tail(plan)) = Len(plan) - 1
    BY <2>2, <2>4, EndHead
  <2>6. Len(plan) \in 1 .. 3
    BY <2>2, <2>5
  <2>7. /\ Len(plan) = 3 => Head(plan) = "migrate"
        /\ Len(plan) = 2 => Head(plan) = "table"
        /\ Len(plan) = 1 => Head(plan) = root
    <3> DEFINE n == Len(plan)  m == Len(full)
    <3>1. n \in 1 .. 3 /\ m = 3 /\ Head(plan) = full[m - n + 1]
      BY <2>2, <2>5, <2>6
    <3> HIDE DEF n, m
    <3>2. /\ n = 3 => m - n + 1 = 1
          /\ n = 2 => m - n + 1 = 2
          /\ n = 1 => m - n + 1 = 3
      BY <3>1
    <3>3. /\ n = 3 => Head(plan) = "migrate"
          /\ n = 2 => Head(plan) = "table"
          /\ n = 1 => Head(plan) = root
      BY <2>3, <3>1, <3>2
    <3> QED
      BY <3>3 DEF n
  <2>8. EndOf(Tail(plan), UpdatePlan(root))
    BY <2>5 DEF full
  <2> QED
    BY <1>1, <1>3, <2>1, <2>5, <2>6, <2>7, <2>8
<1>4. CASE cmd = "destroy"
  <2>1. EndOf(plan, DestroyPlan) /\ DestroyPlan \in Seq(StepName) /\ Len(DestroyPlan) = 11
    BY <1>1, <1>4, Plans DEF PlanKnown
  <2>2. /\ Len(plan) \in 1 .. Len(DestroyPlan)
        /\ Head(plan) = DestroyPlan[Len(DestroyPlan) - Len(plan) + 1] /\ Head(plan) \in StepName
        /\ EndOf(Tail(plan), DestroyPlan) /\ Len(Tail(plan)) = Len(plan) - 1
    BY <2>1, EndHead
  <2>3. Len(plan) \in 1 .. 11 /\ Len(plan) \in Nat \ {0} /\ Len(DestroyPlan) - Len(plan) + 1 = 12 - Len(plan)
    <3> DEFINE n == Len(plan)  m == Len(DestroyPlan)
    <3>1. n \in 1 .. m /\ m = 11
      BY <2>1, <2>2
    <3> HIDE DEF n, m
    <3>2. n \in 1 .. 11 /\ n \in Nat \ {0} /\ m - n + 1 = 12 - n
      BY <3>1
    <3> QED
      BY <3>2 DEF n, m
  <2> QED
    BY <1>1, <1>4, <2>2, <2>3, Zenon
<1> QED
  BY <1>1, <1>2, <1>3, <1>4

(* How many steps a running command has left, one by one.                 *)
LEMMA PlanLengths ==
    ASSUME BInv, outcome = "running", plan # <<>>
    PROVE  /\ cmd = "import" => Len(plan) \in {1, 2, 3, 4, 5, 6}
           /\ cmd \in {"update", "dryUpdate"} => Len(plan) \in {1, 2, 3}
<1> DEFINE n == Len(plan)
<1>1. (cmd = "import" => n \in 1 .. 6) /\ (cmd \in {"update", "dryUpdate"} => n \in 1 .. 3)
  BY PlanFacts, Zenon
<1> HIDE DEF n
<1>2. (n \in 1 .. 6 => n \in {1, 2, 3, 4, 5, 6}) /\ (n \in 1 .. 3 => n \in {1, 2, 3})
  OBVIOUS
<1>3. /\ cmd = "import" => n \in {1, 2, 3, 4, 5, 6}
      /\ cmd \in {"update", "dryUpdate"} => n \in {1, 2, 3}
  BY <1>1, <1>2
<1> QED
  BY <1>3 DEF n

LEMMA HeadKinds ==
    ASSUME BInv, outcome = "running", plan # <<>>
    PROVE  /\ cmd = "destroy" => Head(plan) \in Clean
           /\ cmd = "import" =>
                 /\ Len(plan) = 6 => Head(plan) = "table"
                 /\ Len(plan) = 5 => Head(plan) = "credentials"
                 /\ Len(plan) = 4 => Head(plan) = "settings"
                 /\ Len(plan) = 3 => Head(plan) = "cluster"
                 /\ Len(plan) \in {1, 2} => Head(plan) \in Attaches
           /\ Roots \intersect (Saves \union Attaches \union Clean) = {}
           /\ Saves \intersect (Attaches \union Clean) = {} /\ Attaches \intersect Clean = {}
<1>1. cmd = "destroy" => Head(plan) \in Clean
  <2>1. \A i \in 1 .. 11 : DestroyPlan[i] \in Clean
    BY DEF DestroyPlan, Clean
  <2> DEFINE n == Len(plan)
  <2>2. cmd = "destroy" => n \in 1 .. 11 /\ Head(plan) = DestroyPlan[12 - n]
    BY PlanFacts
  <2> HIDE DEF n
  <2>3. n \in 1 .. 11 => 12 - n \in 1 .. 11
    OBVIOUS
  <2> QED
    BY <2>1, <2>2, <2>3
<1>2. cmd = "import" =>
        /\ Len(plan) = 6 => Head(plan) = "table"
        /\ Len(plan) = 5 => Head(plan) = "credentials"
        /\ Len(plan) = 4 => Head(plan) = "settings"
        /\ Len(plan) = 3 => Head(plan) = "cluster"
        /\ Len(plan) \in {1, 2} => Head(plan) \in Attaches
  <2>1. ImportPlan[1] = "table" /\ ImportPlan[2] = "credentials" /\ ImportPlan[3] = "settings"
        /\ ImportPlan[4] = "cluster" /\ ImportPlan[5] \in Attaches /\ ImportPlan[6] \in Attaches
    BY DEF ImportPlan, Attaches
  <2> DEFINE n == Len(plan)
  <2>2. cmd = "import" => n \in 1 .. 6 /\ Head(plan) = ImportPlan[7 - n]
    BY PlanFacts
  <2> HIDE DEF n
  <2>3. /\ n = 6 => 7 - n = 1
        /\ n = 5 => 7 - n = 2
        /\ n = 4 => 7 - n = 3
        /\ n = 3 => 7 - n = 4
        /\ n = 2 => 7 - n = 5
        /\ n = 1 => 7 - n = 6
    OBVIOUS
  <2>4. cmd = "import" =>
          /\ n = 6 => Head(plan) = "table"
          /\ n = 5 => Head(plan) = "credentials"
          /\ n = 4 => Head(plan) = "settings"
          /\ n = 3 => Head(plan) = "cluster"
          /\ n \in {1, 2} => Head(plan) \in Attaches
    BY <2>1, <2>2, <2>3
  <2> QED
    BY <2>4 DEF n
<1>3. /\ Roots \intersect (Saves \union Attaches \union Clean) = {}
      /\ Saves \intersect (Attaches \union Clean) = {} /\ Attaches \intersect Clean = {}
  BY DEF Roots, Saves, Attaches, Clean
<1> QED
  BY <1>1, <1>2, <1>3

(* No calls left. *)
LEMMA EmptyPending ==
    ASSUME todo' = <<>>, stack' # <<>> => Top'.step # "work"
    PROVE  Pending'
<1>1. Len(todo') = 0
  BY EmptySeq
<1> QED
  BY <1>1 DEF Pending, InEnsure, FinalsLast, OfCommand, RemovalsLast, Both, Clears

(* Its calls, when they are decided. *)
LEMMA BothSame ==
    ASSUME NEW s, todo' = s, UNCHANGED <<tag, parts>>, Both(s)
    PROVE  Both(todo)'
<1>1. (\A i \in 1 .. Len(todo) : PutOwned(todo[i]))'
  BY DEF Both, PutOwned, Exists
<1>2. Clears(todo)'
  BY DEF Both, Clears, PartsOf
<1> QED
  BY <1>1, <1>2 DEF Both

LEMMA CommandSame ==
    ASSUME NEW s, todo' = s, UNCHANGED <<tag, parts, cmd>>, OfCommand(s)
    PROVE  OfCommand(todo)'
<1>1. (\A i \in 1 .. Len(todo) : OutsideCall(todo[i]))'
  BY DEF OfCommand, OutsideCall
<1>2. RemovalsLast(todo)'
  BY DEF OfCommand, RemovalsLast
<1>3. Both(todo)'
  BY BothSame DEF OfCommand
<1> QED
  BY <1>1, <1>2, <1>3 DEF OfCommand

LEMMA EnsureSame ==
    ASSUME NEW r, NEW s, todo' = s, Top'.r = r, UNCHANGED <<tag, parts, target>>, Fine(r, s)
    PROVE  InEnsure(Top.r, todo)' /\ Leads(Top.r, todo)'
<1>1. (\A i \in 1 .. Len(todo) : EnsureCall(Top.r, todo[i]))'
  BY DEF Fine, InEnsure, EnsureCall
<1>2. FinalsLast(Top.r, todo)'
  BY DEF Fine, InEnsure, FinalsLast
<1>3. Both(todo)'
  BY BothSame DEF Fine, InEnsure
<1>4. Leads(Top.r, todo)'
  BY DEF Fine, Leads, Stops, ErrorIgnored, Has
<1> QED
  BY <1>1, <1>2, <1>3, <1>4 DEF InEnsure

LEMMA OneFrame ==
    ASSUME NEW root
    PROVE  /\ Len(<<Frame(root)>>) = 1 /\ <<Frame(root)>>[1] = Frame(root) /\ <<Frame(root)>> # <<>>
           /\ Last(<<Frame(root)>>) = Frame(root) /\ Frame(root) = P!Call(root)
           /\ Frame(root).r = root /\ Frame(root).step = "subresources"
<1>1. /\ Len(<<Frame(root)>>) = 1 /\ <<Frame(root)>>[1] = Frame(root) /\ <<Frame(root)>> # <<>>
  OBVIOUS
<1>2. Last(<<Frame(root)>>) = Frame(root)
  BY <1>1 DEF Last
<1>3. Frame(root) = P!Call(root) /\ Frame(root).r = root /\ Frame(root).step = "subresources"
  BY DEF Frame, P!Call
<1> QED
  BY <1>1, <1>2, <1>3

LEMMA EnsureStep == ASSUME BInv, P!IInv, Ensure PROVE BInv' /\ [P!Next]_P!vars
<1> DEFINE root == Head(plan)
<1>1. /\ outcome = "running" /\ stack = <<>> /\ todo = <<>> /\ plan # <<>> /\ root \in Roots
      /\ stack' = <<Frame(root)>> /\ visited' = {} /\ plan' = Tail(plan)
      /\ dry' = (cmd = "dryUpdate" /\ root # "table")
      /\ UNCHANGED <<tag, parts, target, made, cmd, outcome, todo, missed>>
  BY DEF Ensure, Between, awsVars, history
<1>2. root \in Resource
  BY <1>1, Kinds DEF Roots, Grouping, Others
<1>3. cmd \in {"import", "update", "dryUpdate"}
  BY <1>1, PlanFacts, HeadKinds
<1> HIDE DEF root
<1>4. stack' # <<>> /\ Len(stack') = 1 /\ stack'[1] = Frame(root) /\ Top' = Frame(root)
      /\ Frame(root).r = root /\ Frame(root).step = "subresources" /\ Frame(root) = P!Call(root)
  BY <1>1, OneFrame DEF Top
<1>5. [P!Next]_P!vars
  <2>1. Dep' = Dep
    BY <1>1, DepSame DEF BInv, Has
  <2>2. P!Begin(root)
    BY <1>1, <1>4, <2>1 DEF P!Begin, P!Idle, Dep
  <2> QED
    BY <1>2, <2>2 DEF P!Next
<1>6. Types' /\ TagsKnown' /\ Owned'
  BY <1>1 DEF BInv, Types, TagsKnown, Owned, Exists
<1>7. Control'
  BY <1>1, <1>3 DEF Control
<1>8. PlanKnown'
  <2>1. /\ cmd = "import" => EndOf(Tail(plan), ImportPlan)
        /\ cmd \in {"update", "dryUpdate"} => \E r \in {"cluster", "bare"} : EndOf(Tail(plan), UpdatePlan(r))
    BY <1>1, PlanFacts
  <2>2. (cmd = "import" => EndOf(plan, ImportPlan))'
    BY <1>1, <2>1 DEF EndOf, ImportPlan
  <2>3. (cmd \in {"update", "dryUpdate"} => \E r \in {"cluster", "bare"} : EndOf(plan, UpdatePlan(r)))'
    BY <1>1, <2>1 DEF EndOf, UpdatePlan
  <2> QED
    BY <1>1, <1>3, <2>2, <2>3 DEF PlanKnown
<1>9. Pending'
  BY <1>1, <1>4, EmptyPending
<1>10. Position'
  <2>1. Len(plan) \in Nat \ {0} /\ Len(plan') = Len(plan) - 1
    BY <1>1, PlanFacts
  <2>2. cmd = "import" => (Len(plan) = 6 /\ root = "table") \/ (Len(plan) = 3 /\ root = "cluster")
    <3>1. Saves \intersect Roots = {} /\ Attaches \intersect Roots = {}
          /\ {"credentials", "settings"} \subseteq Saves
      BY DEF Saves, Attaches, Roots
    <3>2. cmd = "import" => Len(plan) \in 1 .. 6
      BY <1>1, PlanFacts
    <3>3. cmd = "import" => Len(plan) \in {1, 2, 3, 4, 5, 6}
      BY <3>2
    <3> QED
      BY <1>1, <3>1, <3>3, HeadKinds DEF root
  <2>3. cmd \in {"update", "dryUpdate"} => (Len(plan) = 2 /\ root = "table") \/ (Len(plan) = 1 /\ root # "table")
    <3>1. "migrate" \notin Roots
      BY DEF Roots
    <3>2. cmd \in {"update", "dryUpdate"} => Len(plan) \in 1 .. 3
      BY <1>1, PlanFacts
    <3>3. cmd \in {"update", "dryUpdate"} => Len(plan) \in {1, 2, 3}
      BY <3>2
    <3> QED
      BY <1>1, <3>1, <3>3, PlanFacts DEF root
  <2>4. ImportPlan[1] = "table" /\ ImportPlan[4] = "cluster"
    BY DEF ImportPlan
  <2> DEFINE n == Len(plan')
  <2>5. /\ cmd' = "import" => (n = 5 /\ root = ImportPlan[6 - n] /\ root = "table")
                               \/ (n = 2 /\ root = ImportPlan[6 - n] /\ root # "table")
        /\ cmd' \in {"update", "dryUpdate"} => (n = 1 /\ root = "table") \/ (n = 0 /\ root # "table")
    <3> DEFINE m == Len(plan)
    <3>1. n = m - 1 /\ m \in Nat
      BY <2>1
    <3>2. cmd' = cmd
      BY <1>1
    <3>3. cmd = "import" => (m = 6 /\ root = "table") \/ (m = 3 /\ root = "cluster")
      BY <2>2
    <3>4. cmd \in {"update", "dryUpdate"} => (m = 2 /\ root = "table") \/ (m = 1 /\ root # "table")
      BY <2>3
    <3> HIDE DEF m, n
    <3>5. (m = 6 => n = 5 /\ 6 - n = 1) /\ (m = 3 => n = 2 /\ 6 - n = 4) /\ (m = 2 => n = 1) /\ (m = 1 => n = 0)
      BY <3>1
    <3> QED
      BY <3>2, <3>3, <3>4, <3>5, <2>4
  <2>6. stack' # <<>> /\ stack'[1].r = root /\ dry' = (cmd' = "dryUpdate" /\ root # "table")
    BY <1>1, <1>4
  <2>7. ~(outcome' = "running" /\ cmd' \in {"update", "dryUpdate"} /\ n = 3)
    <3> HIDE DEF n
    <3> QED
      BY <2>5
  <2>8. n # 5 \/ n # 2
    OBVIOUS
  <2>9. cmd' = "import" => n \in {2, 5} /\ root = ImportPlan[6 - n] /\ (root = "table" <=> n = 5)
    <3> HIDE DEF n
    <3> QED
      BY <2>5
  <2>10. cmd' \in {"update", "dryUpdate"} => n \in {0, 1} /\ (root = "table" <=> n = 1)
    <3> HIDE DEF n
    <3> QED
      BY <2>5
  <2>11. cmd' \in {"import", "update", "dryUpdate"} /\ root \in Roots
    BY <1>1, <1>3
  <2>12. (stack # <<>> =>
            /\ cmd = "import" => Len(plan) \in {2, 5} /\ stack[1].r = ImportPlan[6 - Len(plan)]
            /\ cmd \in {"update", "dryUpdate"} => Len(plan) \in {0, 1}
            /\ stack[1].r \in Roots
            /\ stack[1].r = "table" <=> (IF cmd = "import" THEN Len(plan) = 5 ELSE Len(plan) = 1)
            /\ dry <=> cmd = "dryUpdate" /\ stack[1].r # "table")'
    BY <2>6, <2>9, <2>10, <2>11
  <2> QED
    BY <1>4, <2>7, <2>12 DEF Position
<1> QED
  BY <1>5, <1>6, <1>7, <1>8, <1>9, <1>10 DEF BInv

LEMMA AfterTree ==
    ASSUME BInv, P!IInv, NEW r \in visited, r = "table" \/ r = "cluster", stack = <<>>, cmd \in {"import", "update"}
    PROVE  /\ r = "table" => Exists("table")
           /\ r = "cluster" => Exists("asg")
<1>1. ~dry
  BY DEF BInv, Control
<1>2. Types /\ (stack = <<>> \/ Top.step # "work")
  BY DEF BInv
<1>3. {"table", "asg"} \intersect (Grouping \union {"alb"}) = {}
  BY DEF Grouping
<1>4. CASE r = "table"
  BY <1>1, <1>2, <1>3, <1>4, VisitedExists
<1>5. CASE r = "cluster"
  <2>1. \A q \in visited : P!SubsOf(q) \subseteq visited
    BY DEF P!IInv, P!TagsRight, P!VisitedClosed
  <2>2. "hostgroup" \in P!SubsOf("cluster") /\ "asg" \in P!SubsOf("hostgroup")
    <3>1. "cluster" \in Resource /\ "hostgroup" \in Resource
      BY Kinds DEF Grouping
    <3>2. Sub["cluster"] = <<"alb", "hostgroup">> /\ Sub["hostgroup"] = <<"asg">>
      <4>1. "cluster" \notin Lambda /\ "hostgroup" \notin Lambda
        BY Kinds, KindsApart DEF Grouping, LambdaNames
      <4> QED
        BY <3>1, <4>1 DEF Sub
    <3>3. 2 \in DOMAIN Sub["cluster"] /\ Sub["cluster"][2] = "hostgroup"
          /\ 1 \in DOMAIN Sub["hostgroup"] /\ Sub["hostgroup"][1] = "asg"
      BY <3>2
    <3> QED
      BY <3>3 DEF P!SubsOf
  <2>3. "asg" \in visited
    BY <1>5, <2>1, <2>2
  <2> QED
    BY <1>1, <1>2, <1>3, <1>5, <2>3, VisitedExists
<1> QED
  BY <1>4, <1>5

(* The calls of a step of a command are calls that command may make. *)
LEMMA ProceedCalls ==
    ASSUME BInv, P!IInv, outcome = "running", stack = <<>>, plan # <<>>, Head(plan) \notin Roots,
           NEW left, NEW s \in Steps(Head(plan), Listing(Head(plan), left))
    PROVE  s \in Seq(CallSet) /\ OfCommand(s)
<1> DEFINE step == Head(plan)
<1>1. step \in Saves \union Attaches \union Clean
  BY PlanFacts DEF StepName
<1>2. Types /\ TagsKnown /\ Owned
  BY DEF BInv
<1>3. cmd = "import" \/ cmd \in {"update", "dryUpdate"} \/ cmd = "destroy"
  BY PlanFacts
<1>4. cmd = "destroy" => step \in Clean
  BY HeadKinds
<1>5. cmd \in {"update", "dryUpdate"} => step = "migrate" /\ Len(plan) = 3
  <2>1. cmd \in {"update", "dryUpdate"} => Len(plan) \in {1, 2, 3}
    BY PlanLengths
  <2>2. {"table", "cluster", "bare"} \subseteq Roots
    BY DEF Roots
  <2> QED
    BY <2>1, <2>2, PlanFacts
<1>6. cmd = "import" =>
        \/ step \in Saves /\ Len(plan) \in {4, 5}
        \/ step \in Attaches /\ Len(plan) \in {1, 2}
  <2>1. cmd = "import" => Len(plan) \in {1, 2, 3, 4, 5, 6}
    BY PlanLengths
  <2>2. {"table", "cluster"} \subseteq Roots /\ {"credentials", "settings"} \subseteq Saves
    BY DEF Roots, Saves
  <2> QED
    BY <2>1, <2>2, HeadKinds
<1>7. step \in Saves => Exists("table") /\ cmd # "destroy"
  <2>1. cmd = "import" /\ Len(plan) \in {4, 5} => "table" \in visited
    BY DEF BInv, Position
  <2>2. cmd = "import" /\ Len(plan) \in {4, 5} => Exists("table")
    BY <2>1, AfterTree
  <2>3. cmd \in {"update", "dryUpdate"} /\ Len(plan) = 3 => Exists("table")
    <3>1. cmd \in {"update", "dryUpdate"} /\ Len(plan) = 3 => <<"table", "settings">> \in parts
      BY DEF BInv, Position, Has
    <3>2. <<"table", "settings">>[1] = "table" /\ <<"table", "settings">> \notin Old
      BY OfFacts DEF Old
    <3> QED
      BY <1>2, <3>1, <3>2 DEF Owned
  <2> QED
    BY <1>3, <1>4, <1>5, <1>6, <2>2, <2>3, HeadKinds
<1>8. step \in Attaches => Exists("asg") /\ cmd = "import"
  <2> DEFINE n == Len(plan)
  <2>4. cmd = "import" /\ n <= 2 => "cluster" \in visited
    BY DEF BInv, Position
  <2>5. n \in {1, 2} => n <= 2
    <3> HIDE DEF n
    <3> QED
      OBVIOUS
  <2>1. cmd = "import" /\ Len(plan) \in {1, 2} => "cluster" \in visited
    BY <2>4, <2>5
  <2>2. cmd = "import" /\ Len(plan) \in {1, 2} => Exists("asg")
    BY <2>1, AfterTree
  <2>3. "migrate" \in Saves
    BY DEF Saves
  <2> QED
    BY <1>3, <1>4, <1>5, <1>6, <2>2, <2>3, HeadKinds
<1>9. step \in Clean => cmd = "destroy"
  BY <1>3, <1>5, <1>6, HeadKinds DEF Saves
<1>10. s \in Steps(step, Listing(step, left))
  OBVIOUS
<1> HIDE DEF step
<1>11. CASE step = "record" /\ ~Dns
  <2>1. s = DeleteRoute53Record
    BY <1>10, <1>11 DEF Steps
  <2>2. ~Has("alb", "record")
    <3>1. <<"alb", "record">> \in Part => <<"alb", "record">>[2] \in Names("alb")
      <4>1. <<"alb", "record">>[1] = "alb"
        OBVIOUS
      <4> QED
        BY <4>1, PartFacts
    <3>2. <<"alb", "record">>[2] \notin Names("alb")
      BY <1>11, NamesOf DEF AlbParts
    <3> QED
      BY <1>2, <3>1, <3>2 DEF Types, Has
  <2>3. s = <<>>
    BY <2>1, <2>2 DEF DeleteRoute53Record, When
  <2> QED
    BY <2>3, EmptyFine
<1>12. CASE ~(step = "record" /\ ~Dns)
  BY <1>1, <1>2, <1>7, <1>8, <1>9, <1>10, <1>12, StepsFine, DnsAssumption
<1> QED
  BY <1>11, <1>12

LEMMA ProceedStep == ASSUME BInv, P!IInv, Proceed PROVE BInv' /\ [P!Next]_P!vars
<1>1. PICK left \in SUBSET Listing(Head(plan), {}) :
        /\ todo' \in Steps(Head(plan), Listing(Head(plan), left))
        /\ missed' = missed \union left
  BY DEF Proceed
<1>2. /\ outcome = "running" /\ stack = <<>> /\ todo = <<>> /\ plan # <<>> /\ Head(plan) \notin Roots
      /\ plan' = Tail(plan)
      /\ UNCHANGED <<tag, parts, target, stack, dry, visited, made, cmd, outcome>>
  BY DEF Proceed, Between, awsVars, ensureVars
<1>3. todo' \in Seq(CallSet) /\ OfCommand(todo')
  BY <1>1, <1>2, ProceedCalls
<1>4. [P!Next]_P!vars
  BY <1>2, DepSame, TreeStays DEF BInv, Has
<1>5. left \subseteq Resource
  <2>1. Listing(Head(plan), {}) \subseteq Resource
    BY ListingFacts, Kinds DEF Others, Listing, GetClusterRoles, GetClusterLambdas, GetClusterStateMachines,
       GetCloudWatchEventRules, GetClusterDb
  <2> QED
    BY <2>1
<1>6. Types' /\ TagsKnown' /\ Owned'
  BY <1>1, <1>2, <1>3, <1>5 DEF BInv, Types, TagsKnown, Owned, Exists
<1>7. Control'
  BY <1>2 DEF BInv, Control
<1>8. PlanKnown'
  <2>1. /\ cmd = "import" => EndOf(Tail(plan), ImportPlan)
        /\ cmd \in {"update", "dryUpdate"} => \E r \in {"cluster", "bare"} : EndOf(Tail(plan), UpdatePlan(r))
        /\ cmd = "destroy" => EndOf(Tail(plan), DestroyPlan)
    BY <1>2, PlanFacts
  <2>2. (cmd = "import" => EndOf(plan, ImportPlan))'
    BY <1>2, <2>1 DEF EndOf, ImportPlan
  <2>3. (cmd \in {"update", "dryUpdate"} => \E r \in {"cluster", "bare"} : EndOf(plan, UpdatePlan(r)))'
    BY <1>2, <2>1 DEF EndOf, UpdatePlan
  <2>4. (cmd = "destroy" => EndOf(plan, DestroyPlan))'
    BY <1>2, <2>1 DEF EndOf, DestroyPlan
  <2> QED
    BY <2>2, <2>3, <2>4 DEF PlanKnown
<1>9. Pending'
  <2>1. \A s : todo' = s /\ OfCommand(s) => OfCommand(todo)'
    BY <1>2, CommandSame
  <2>2. OfCommand(todo)'
    BY <1>3, <2>1
  <2> QED
    BY <1>2, <2>2 DEF Pending
<1>10. Position'
  <2>1. Len(plan) \in Nat \ {0} /\ Len(plan') = Len(plan) - 1
    BY <1>2, PlanFacts
  <2> DEFINE m == Len(plan)  n == Len(plan')
  <2>2. m \in Nat \ {0} /\ n = m - 1
    BY <2>1
  <2>3. cmd = "import" => m # 3 /\ m # 6
    BY <1>2, HeadKinds DEF Roots
  <2>4. /\ cmd = "import" /\ m \in {3, 4, 5} => "table" \in visited
        /\ cmd = "import" /\ m <= 2 => "cluster" \in visited
    BY <1>2 DEF BInv, Position
  <2>5. cmd \in {"update", "dryUpdate"} => m \in 1 .. 3
    BY <1>2, PlanFacts
  <2> HIDE DEF m, n
  <2>6. /\ cmd = "import" /\ n \in {3, 4, 5} => "table" \in visited
        /\ cmd = "import" /\ n <= 2 => "cluster" \in visited
        /\ cmd \in {"update", "dryUpdate"} => n # 3
    BY <2>2, <2>3, <2>4, <2>5
  <2> QED
    BY <1>2, <2>6 DEF Position, n
<1> QED
  BY <1>4, <1>6, <1>7, <1>8, <1>9, <1>10 DEF BInv

LEMMA DescendStep == ASSUME BInv, P!IInv, Descend PROVE BInv' /\ [P!Next]_P!vars
<1> DEFINE r == Sub[Top.r][Top.done + 1]
<1>1. /\ stack # <<>> /\ Top.step = "subresources" /\ todo = <<>> /\ Top.done < Len(Sub[Top.r])
      /\ stack' = Append(stack, Frame(r))
      /\ UNCHANGED <<tag, parts, target, dry, visited, made, cmd, outcome, plan, todo, missed>>
  BY DEF Descend, At, awsVars, history
<1>2. /\ Len(stack) \in Nat \ {0} /\ stack \in Seq(P!Frame) /\ Top = P!Top /\ Top \in P!Frame /\ Top.r \in Resource
      /\ P!At("subresources")
  BY <1>1, StackFacts
<1>3. r \in Resource
  <2>1. Top.done \in Nat /\ Len(Sub[Top.r]) \in Nat /\ \A i \in 1 .. Len(Sub[Top.r]) : Sub[Top.r][i] \in Resource
    <3>1. Sub[Top.r] \in Seq(Resource)
      BY <1>2, SubIsSeq
    <3>2. Len(Sub[Top.r]) \in Nat /\ \A i \in 1 .. Len(Sub[Top.r]) : Sub[Top.r][i] \in Resource
      BY <3>1, LenProperties, ElementOfSeq
    <3> QED
      BY <1>2, <3>2 DEF P!Frame
  <2>2. Top.done + 1 \in 1 .. Len(Sub[Top.r])
    BY <1>1, <2>1
  <2> QED
    BY <2>1, <2>2
<1>4. [P!Next]_P!vars
  <2>1. Dep' = Dep
    BY <1>1, DepSame DEF BInv, Has
  <2>2. P!Descend
    BY <1>1, <1>2, <2>1 DEF P!Descend, P!SubsDone, Dep, Frame, P!Call
  <2> QED
    BY <2>2 DEF P!Next
<1> HIDE DEF r
<1>5. /\ stack' # <<>> /\ stack'[1] = stack[1] /\ Top'.step = "subresources"
  <2>1. Frame(r) = P!Call(r) /\ Frame(r).step = "subresources"
    BY OneFrame
  <2>2. /\ stack' \in Seq(P!Frame) /\ Len(stack') = Len(stack) + 1
        /\ \A i \in 1 .. Len(stack) : stack'[i] = stack[i]
        /\ stack'[Len(stack) + 1] = Frame(r)
    <3>1. stack' = Append(stack, P!Call(r))
      BY <1>1, <2>1
    <3> QED
      BY <1>2, <1>3, <2>1, <3>1, TreeAssumptions, P!PushStack
  <2>3. Len(stack') # 0 /\ 1 \in 1 .. Len(stack)
    BY <1>2, <2>2
  <2>4. stack' # <<>>
    BY <2>3, EmptySeq
  <2>5. Top' = Frame(r)
    BY <2>2 DEF Top, Last
  <2> QED
    BY <2>1, <2>2, <2>3, <2>4, <2>5
<1>6. Types' /\ TagsKnown' /\ Owned'
  BY <1>1 DEF BInv, Types, TagsKnown, Owned, Exists
<1>7. Control'
  BY <1>1, <1>5 DEF BInv, Control
<1>8. (outcome = "running" => PlanKnown)'
  BY <1>1 DEF BInv, PlanKnown, EndOf
<1>9. Pending'
  BY <1>1, <1>5, EmptyPending
<1>10. Position'
  BY <1>1, <1>5 DEF BInv, Position
<1> QED
  BY <1>4, <1>6, <1>7, <1>8, <1>9, <1>10 DEF BInv

(* What Fetch finds right is at the version of this wekactl. *)
LEMMA CurrentIsTarget ==
    ASSUME Types, TagsKnown, NEW r \in Resource \ Upgraded, Exists(r)
    PROVE  tag[r] = target[r]
<1>1. target[r] = 1 /\ tag[r] # 2 /\ tag[r] \in 0 .. 2 /\ tag[r] # 0
  BY DEF Types, TagsKnown, Exists
<1> QED
  BY <1>1

LEMMA LeftIsRight ==
    ASSUME Types, TagsKnown, Owned, NEW r \in Resource, ~FetchFails(r), MayLeave(r)
    PROVE  r \notin Grouping /\ P!AtTarget(r)
<1>1. {"sm", "rule", "gateway", "alb", "key"} \intersect Upgraded = {}
  BY NeverUpgraded
<1>2. CASE r = "rule" /\ FirstTargetIsLive
  <2>1. PICK p \in {"target", "again"} : <<"rule", p>> \in parts
    BY <1>2 DEF FirstTargetIsLive, LiveTargets, Has
  <2>2. <<"rule", p>>[1] = "rule" /\ <<"rule", p>> \notin Old
    BY OfFacts DEF Old
  <2>3. Exists("rule")
    BY <2>1, <2>2 DEF Owned
  <2>4. r \notin Grouping /\ r # "alb"
    BY <1>2 DEF Grouping
  <2> QED
    BY <1>1, <1>2, <2>3, <2>4, CurrentIsTarget, AtTargetIs
<1>3. CASE Works(r) = {}
  <2>1. CASE r \in Role
    <3>1. Works(r) = RoleWorks(r) /\ r \notin Grouping /\ r # "alb"
      BY <2>1, Kinds, KindsApart DEF Works, Others, RoleNames, LambdaNames, Grouping
    <3>2. tag[r] = target[r]
      BY <1>3, <3>1 DEF RoleWorks, Outdated
    <3> QED
      BY <3>1, <3>2, AtTargetIs
  <2>2. CASE r \in Lambda
    <3>1. Works(r) = LambdaWorks(r) /\ r \notin Grouping /\ r # "alb"
      BY <2>2, Kinds, KindsApart DEF Works, Others, RoleNames, LambdaNames, Grouping
    <3>2. tag[r] = target[r]
      BY <1>3, <3>1 DEF LambdaWorks, LambdaIsCurrent, Outdated
    <3> QED
      BY <3>1, <3>2, AtTargetIs
  <2>3. CASE r \in Others
    <3>1. /\ r = "sm" => Works(r) = StateMachineWorks
          /\ r = "rule" => Works(r) = RuleWorks
          /\ r = "gateway" => Works(r) = GatewayWorks
          /\ r = "lt" => Works(r) = LaunchTemplateWorks
          /\ r = "asg" => Works(r) = AutoScalingGroupWorks
          /\ r = "alb" => Works(r) = AlbWorks
          /\ r = "key" => Works(r) = KmsWorks
          /\ r = "table" => Works(r) = DynamoDbWorks
      BY <2>3, Kinds, KindsApart DEF Works, RoleNames, LambdaNames
    <3>2. r \notin Grouping
      BY <2>3, KindsApart
    <3>3. CASE r = "alb"
      <4>1. AlbIsWhole
        BY <1>3, <3>1, <3>3 DEF AlbWorks
      <4> QED
        BY <3>2, <3>3, <4>1, AtTargetIs
    <3>4. CASE r \in {"sm", "rule", "gateway", "key"}
      <4>1. Exists(r)
        BY <1>3, <3>1, <3>4 DEF StateMachineWorks, RuleWorks, GatewayWorks, KmsWorks
      <4>2. r \notin Upgraded /\ r # "alb"
        BY <1>1, <3>4
      <4> QED
        BY <3>2, <4>1, <4>2, CurrentIsTarget, AtTargetIs
    <3>5. CASE r = "asg"
      <4>1. tag[r] = target[r]
        BY <1>3, <3>1, <3>5 DEF AutoScalingGroupWorks, Outdated
      <4> QED
        BY <3>2, <3>5, <4>1, AtTargetIs
    <3>6. CASE r = "table"
      <4>1. UpdateDb(TRUE) \in {UpdateDb(listed) : listed \in {TRUE, quiet = MaxQuiet}}
        OBVIOUS
      <4>2. tag[r] = target[r]
        BY <1>3, <3>1, <3>6, <4>1 DEF DynamoDbWorks, Outdated
      <4> QED
        BY <3>2, <3>6, <4>2, AtTargetIs
    <3>7. CASE r = "lt"
      <4>1. PICK k : k \in ApiKeys
        BY <3>7 DEF FetchFails, NoGateway
      <4>2. /\ CreateLaunchTemplate(k) \in {CreateLaunchTemplate(j) : j \in ApiKeys}
            /\ CreateNewLaunchTemplateVersion(k) \o ModifyLaunchTemplateDefaultVersion
                  \in {CreateNewLaunchTemplateVersion(j) \o ModifyLaunchTemplateDefaultVersion : j \in ApiKeys}
        BY <4>1
      <4>3. tag[r] = target[r]
        BY <1>3, <3>1, <3>7, <4>2 DEF LaunchTemplateWorks, Outdated
      <4> QED
        BY <3>2, <3>7, <4>3, AtTargetIs
    <3> QED
      BY <2>3, <3>3, <3>4, <3>5, <3>6, <3>7 DEF Others
  <2>4. CASE r \in Grouping
    <3>1. Works(r) = IF r = "hostgroup" THEN {AttachTargetGroup} ELSE {<<>>}
      BY <2>4, Kinds, KindsApart DEF Works, RoleNames, LambdaNames, Grouping, Others
    <3> QED
      BY <1>3, <3>1
  <2> QED
    BY <2>1, <2>2, <2>3, <2>4, Kinds
<1> QED
  BY <1>2, <1>3 DEF MayLeave

(* A decision of the innermost call changes nothing below it. *)
LEMMA DecideFacts ==
    ASSUME P!IInv, stack # <<>>, NEW step \in {"work", "return"}, Decide(step)
    PROVE  /\ stack' # <<>> /\ Len(stack') = Len(stack)
           /\ Top'.r = Top.r /\ Top'.step = step
           /\ stack'[1].r = stack[1].r
           /\ P!Decide(step)
<1>1. /\ Len(stack) \in Nat \ {0} /\ stack \in Seq(P!Frame) /\ Top = P!Top /\ Below = P!Below /\ ~P!Idle
      /\ Top = stack[Len(stack)]
  BY StackFacts
<1>2. P!Decide(step)
  BY <1>1 DEF Decide, P!Decide
<1>3. /\ stack' \in Seq(P!Frame)
      /\ Len(stack') = Len(stack)
      /\ \A i \in 1 .. Len(stack) - 1 : stack'[i] = stack[i]
      /\ stack'[Len(stack)].r = P!Top.r
      /\ stack'[Len(stack)].step = step
  BY <1>1, <1>2, TreeAssumptions, P!DecideStack
<1>4. stack' # <<>>
  BY <1>1, <1>3, EmptySeq
<1>5. Top' = stack'[Len(stack')]
  BY DEF Top, Last
<1>6. stack'[1].r = stack[1].r
  <2>1. CASE Len(stack) = 1
    BY <1>1, <1>3, <2>1
  <2>2. CASE Len(stack) # 1
    <3> DEFINE n == Len(stack)
    <3>2. n \in Nat \ {0} /\ n # 1
      BY <1>1, <2>2
    <3> HIDE DEF n
    <3>3. 1 \in 1 .. n - 1
      BY <3>2
    <3>1. 1 \in 1 .. Len(stack) - 1
      BY <3>3 DEF n
    <3> QED
      BY <1>3, <3>1
  <2> QED
    BY <2>1, <2>2
<1> QED
  BY <1>1, <1>2, <1>3, <1>4, <1>5, <1>6

LEMMA DecideBInv ==
    ASSUME BInv, P!IInv, stack # <<>>, NEW step \in {"work", "return"}, Decide(step),
           todo' \in Seq(CallSet), todo' # <<>> => step = "work",
           UNCHANGED <<tag, parts, target, dry, visited, cmd, outcome, plan, missed>>, made' \in BOOLEAN,
           Pending'
    PROVE  BInv'
<1>1. /\ stack' # <<>> /\ Top'.step = step /\ stack'[1].r = stack[1].r
  BY DecideFacts
<1>2. Types' /\ TagsKnown' /\ Owned'
  BY DEF BInv, Types, TagsKnown, Owned, Exists
<1>3. Control'
  BY <1>1 DEF BInv, Control
<1>4. (outcome = "running" => PlanKnown)'
  BY DEF BInv, PlanKnown, EndOf
<1>5. Position'
  BY <1>1 DEF BInv, Position
<1> QED
  BY <1>2, <1>3, <1>4, <1>5 DEF BInv

LEMMA FetchStep == ASSUME BInv, P!IInv, Fetch PROVE BInv' /\ [P!Next]_P!vars
<1>1. /\ stack # <<>> /\ Top.step = "subresources" /\ todo = <<>> /\ Top.done = Len(Sub[Top.r])
      /\ ~FetchFails(Top.r) /\ ~AttachFails(Top.r)
      /\ UNCHANGED <<tag, parts, target, dry, visited, made, cmd, outcome, plan, missed>>
  BY DEF Fetch, At, awsVars, history
<1>2. /\ Top = P!Top /\ Top.r \in Resource /\ P!At("subresources") /\ P!SubsDone
  BY <1>1, StackFacts DEF P!SubsDone
<1>3. Dep' = Dep
  BY <1>1, DepSame DEF BInv, Has
<1>4. Types /\ TagsKnown /\ Owned /\ made \in BOOLEAN
  BY DEF BInv, Types
<1>5. ASSUME dry => Top.r \in Grouping, todo' \in Works(Top.r), Decide("work")
      PROVE  BInv' /\ [P!Next]_P!vars
  <2> DEFINE r == Top.r
  <2>1. Fine(r, todo')
    <3>1. (r = "hostgroup" => Exists("asg")) /\ (r = "gateway" => Exists("join"))
      BY <1>1 DEF FetchFails, AttachFails
    <3>2. r \in Resource /\ todo' \in Works(r)
      BY <1>2, <1>5
    <3> HIDE DEF r
    <3> QED
      BY <1>4, <3>1, <3>2, WorksFine
  <2>2. /\ stack' # <<>> /\ Top'.r = r /\ Top'.step = "work" /\ P!Decide("work")
    BY <1>1, <1>5, DecideFacts
  <2>3. InEnsure(Top.r, todo)' /\ Leads(Top.r, todo)'
    <3> HIDE DEF r
    <3>1. \A q, s : todo' = s /\ Top'.r = q /\ Fine(q, s) => InEnsure(Top.r, todo)' /\ Leads(Top.r, todo)'
      BY <1>1, EnsureSame
    <3> QED
      BY <2>1, <2>2, <3>1
  <2>4. Pending'
    BY <2>2, <2>3 DEF Pending
  <2>5. BInv'
    BY <1>1, <1>4, <1>5, <2>1, <2>4, DecideBInv DEF Fine
  <2>6. P!Fetch
    BY <1>1, <1>2, <1>3, <1>5, <2>2 DEF P!Fetch, Dep
  <2> QED
    BY <2>5, <2>6 DEF P!Next
<1>6. ASSUME IF dry THEN Top.r \notin Grouping ELSE MayLeave(Top.r), Decide("return"), UNCHANGED todo
      PROVE  BInv' /\ [P!Next]_P!vars
  <2>1. Top.r \notin Grouping /\ (dry \/ P!AtTarget(Top.r))
    BY <1>1, <1>2, <1>4, <1>6, LeftIsRight
  <2>2. /\ stack' # <<>> /\ Top'.step = "return" /\ P!Decide("return")
    BY <1>1, <1>6, DecideFacts
  <2>3. todo' = <<>>
    BY <1>1, <1>6
  <2>4. Pending'
    BY <2>2, <2>3, EmptyPending
  <2>5. BInv'
    <3>1. todo' \in Seq(CallSet)
      BY <2>3
    <3> QED
      BY <1>1, <1>4, <1>6, <2>3, <2>4, <3>1, DecideBInv
  <2>6. P!Fetch
    BY <1>1, <1>2, <1>3, <2>1, <2>2 DEF P!Fetch, Dep
  <2> QED
    BY <2>5, <2>6 DEF P!Next
<1> QED
  BY <1>5, <1>6 DEF Fetch

LEMMA WorkedStep == ASSUME BInv, P!IInv, Worked PROVE BInv' /\ [P!Next]_P!vars
<1>1. /\ stack # <<>> /\ Top.step = "work" /\ todo = <<>> /\ Decide("return")
      /\ made' = (made \/ (Top.r = "gateway"))
      /\ UNCHANGED <<tag, parts, target, dry, visited, cmd, outcome, plan, todo, missed>>
  BY DEF Worked, At, awsVars, history
<1>2. /\ Top = P!Top /\ Top.r \in Resource /\ P!At("work")
  BY <1>1, StackFacts
<1>3. P!AtTarget(Top.r)
  <2>1. Leads(Top.r, todo) /\ Len(todo) = 0 /\ Types
    BY <1>1, EmptySeq DEF BInv, Pending
  <2>2. ~Stops(todo) /\ \A i : i \notin 1 .. Len(todo)
    BY <2>1 DEF Stops
  <2>3. Top.r \notin Grouping \union {"alb"} => tag[Top.r] = target[Top.r]
    BY <2>1, <2>2 DEF Leads
  <2>4. Top.r = "alb" => AlbIsWhole
    BY <2>1, <2>2 DEF Leads, AlbIsWhole
  <2> QED
    BY <1>2, <2>1, <2>3, <2>4, AtTargetIs
<1>4. /\ stack' # <<>> /\ Top'.step = "return" /\ P!Decide("return")
  BY <1>1, DecideFacts
<1>5. Pending'
  BY <1>1, <1>4, EmptyPending
<1>6. BInv'
  <2>1. todo' \in Seq(CallSet) /\ todo' = <<>> /\ made' \in BOOLEAN
    BY <1>1
  <2> QED
    BY <1>1, <1>5, <2>1, DecideBInv
<1>7. P!Worked
  <2>1. Dep' = Dep
    BY <1>1, DepSame DEF BInv, Has
  <2> QED
    BY <1>1, <1>2, <1>3, <1>4, <2>1 DEF P!Worked, Dep
<1> QED
  BY <1>6, <1>7 DEF P!Next

(* A call that returns adds one to what its caller has done. *)
LEMMA Returned ==
    ASSUME P!IInv, stack # <<>>, Below # <<>>,
           stack' = Append(Front(Below), [Last(Below) EXCEPT !.done = @ + 1])
    PROVE  stack' = [Below EXCEPT ![Len(Below)].done = @ + 1]
<1> DEFINE b == Below  n == Len(b)  f == [Last(b) EXCEPT !.done = @ + 1]
           t == [b EXCEPT ![n].done = @ + 1]
<1>1. b \in Seq(P!Frame) /\ n \in Nat \ {0} /\ Last(b) = b[n] /\ Last(b) \in P!Frame
  <2>1. b \in Seq(P!Frame) /\ n \in Nat \ {0}
    BY StackFacts, EmptySeq
  <2> QED
    BY <2>1, ElementOfSeq DEF Last
<1>2. f \in P!Frame
  BY <1>1 DEF P!Frame
<1>3. stack' = Append(Front(b), f) /\ Front(b) = SubSeq(b, 1, n - 1)
  BY DEF Front
<1>4. t = [b EXCEPT ![n] = f]
  BY <1>1
<1> HIDE DEF b, n, f
<1>5. /\ SubSeq(b, 1, n - 1) \in Seq(P!Frame) /\ Len(SubSeq(b, 1, n - 1)) = n - 1
      /\ \A i \in 1 .. n - 1 : SubSeq(b, 1, n - 1)[i] = b[i]
  <2>1. n - 1 \in Int /\ (IF 1 <= n - 1 THEN n - 1 - 1 + 1 ELSE 0) = n - 1
        /\ \A i : 1 + i - 1 = i \/ i \notin 1 .. n - 1
    BY <1>1
  <2>2. \A i \in 1 .. n - 1 : b[i] \in P!Frame
    <3>1. \A i \in 1 .. n - 1 : i \in 1 .. n
      BY <1>1
    <3> QED
      BY <1>1, <3>1, ElementOfSeq DEF n
  <2>3. /\ SubSeq(b, 1, n - 1) \in Seq(P!Frame)
        /\ Len(SubSeq(b, 1, n - 1)) = IF 1 <= n - 1 THEN n - 1 - 1 + 1 ELSE 0
        /\ \A i \in 1 .. n - 1 - 1 + 1 : SubSeq(b, 1, n - 1)[i] = b[1 + i - 1]
    BY <2>1, <2>2, SubSeqProperties
  <2>4. \A i \in 1 .. n - 1 : i \in 1 .. n - 1 - 1 + 1 /\ 1 + i - 1 = i
    BY <1>1
  <2> QED
    BY <2>1, <2>3, <2>4
<1>6. /\ stack' \in Seq(P!Frame) /\ Len(stack') = n
      /\ \A i \in 1 .. n - 1 : stack'[i] = b[i]
      /\ stack'[n] = f
  <2> DEFINE s == SubSeq(b, 1, n - 1)
  <2>1. s \in Seq(P!Frame) /\ Len(s) = n - 1 /\ stack' = Append(s, f) /\ \A i \in 1 .. n - 1 : s[i] = b[i]
    BY <1>3, <1>5
  <2> HIDE DEF s
  <2>2. /\ Append(s, f) \in Seq(P!Frame) /\ Len(Append(s, f)) = Len(s) + 1
        /\ \A i \in 1 .. Len(s) : Append(s, f)[i] = s[i]
        /\ Append(s, f)[Len(s) + 1] = f
    BY <1>2, <2>1, AppendProperties
  <2>3. Len(s) + 1 = n
    BY <1>1, <2>1
  <2> QED
    BY <2>1, <2>2, <2>3
<1> HIDE DEF t
<1>7. t \in Seq(P!Frame) /\ Len(t) = n /\ \A i \in 1 .. n : t[i] = IF i = n THEN f ELSE b[i]
  BY <1>1, <1>2, <1>4 DEF n
<1>8. \A i \in 1 .. n : stack'[i] = t[i]
  BY <1>1, <1>6, <1>7
<1>9. stack' = t
  BY <1>6, <1>7, <1>8, SeqEqual
<1> QED
  BY <1>9 DEF t, n, b

LEMMA ReturnStep == ASSUME BInv, P!IInv, Return PROVE BInv' /\ [P!Next]_P!vars
<1>1. /\ stack # <<>> /\ Top.step = "return" /\ todo = <<>>
      /\ visited' = visited \union {Top.r}
      /\ stack' = IF Below = <<>> THEN <<>>
                  ELSE Append(Front(Below), [Last(Below) EXCEPT !.done = @ + 1])
      /\ UNCHANGED <<tag, parts, target, dry, made, cmd, outcome, plan, todo, missed>>
  BY DEF Return, At, awsVars, history
<1>2. /\ Len(stack) \in Nat \ {0} /\ stack \in Seq(P!Frame) /\ Top = P!Top /\ Below = P!Below
      /\ Top.r \in Resource /\ P!At("return") /\ ~P!Idle
      /\ Below \in Seq(P!Frame) /\ Len(Below) = Len(stack) - 1 /\ Top = stack[Len(stack)]
  BY <1>1, StackFacts
<1>3. Below # <<>> => stack' = [Below EXCEPT ![Len(Below)].done = @ + 1]
  <2> SUFFICES ASSUME Below # <<>> PROVE stack' = [Below EXCEPT ![Len(Below)].done = @ + 1]
    OBVIOUS
  <2>1. stack' = Append(Front(Below), [Last(Below) EXCEPT !.done = @ + 1])
    BY <1>1
  <2> QED
    BY <1>1, <2>1, Returned
<1>4. P!Return
  <2>1. Dep' = Dep
    BY <1>1, DepSame DEF BInv, Has
  <2>2. stack' = IF P!Below = <<>> THEN <<>> ELSE [P!Below EXCEPT ![Len(P!Below)].done = @ + 1]
    BY <1>1, <1>2, <1>3
  <2> QED
    BY <1>1, <1>2, <2>1, <2>2 DEF P!Return, Dep
<1>5. CASE Below = <<>>
  <2>1. stack' = <<>> /\ Len(stack) = 1 /\ Top = stack[1]
    <3> DEFINE n == Len(stack)
    <3>1. 0 = n - 1 /\ n \in Nat
      BY <1>2, <1>5, EmptySeq
    <3> HIDE DEF n
    <3>2. n = 1
      BY <3>1
    <3> QED
      BY <1>1, <1>2, <1>5, <3>2 DEF n
  <2>2. Pending'
    BY <1>1, <2>1, EmptyPending
  <2>3. Types' /\ TagsKnown' /\ Owned'
    BY <1>1 DEF BInv, Types, TagsKnown, Owned, Exists
  <2>4. Control'
    BY <1>1, <2>1 DEF BInv, Control
  <2>5. (outcome = "running" => PlanKnown)'
    BY <1>1 DEF BInv, PlanKnown, EndOf
  <2>6. Position'
    <3> DEFINE n == Len(plan)
    <3>1. /\ cmd = "import" => n \in {2, 5} /\ Top.r = ImportPlan[6 - n]
          /\ cmd \in {"update", "dryUpdate"} => n \in {0, 1}
      BY <1>1, <2>1 DEF BInv, Position
    <3>2. ImportPlan[1] = "table" /\ ImportPlan[4] = "cluster"
      BY DEF ImportPlan
    <3>3. Top.r \in visited' /\ plan' = plan /\ cmd' = cmd
      BY <1>1
    <3> HIDE DEF n
    <3>4. /\ cmd = "import" /\ n \in {3, 4, 5} => Top.r = "table"
          /\ cmd = "import" /\ n <= 2 => Top.r = "cluster"
          /\ cmd \in {"update", "dryUpdate"} => n # 3
      BY <3>1, <3>2
    <3> QED
      BY <2>1, <3>3, <3>4 DEF Position, n
  <2> QED
    BY <1>4, <2>2, <2>3, <2>4, <2>5, <2>6 DEF BInv, P!Next
<1>6. CASE Below # <<>>
  <2>1. /\ stack' \in Seq(P!Frame)
        /\ Len(stack') = Len(stack) - 1 /\ Len(stack') \in Nat \ {0}
        /\ \A i \in 1 .. Len(stack') - 1 : stack'[i] = stack[i]
        /\ stack'[Len(stack')].r = stack[Len(stack')].r
        /\ stack'[Len(stack')].step = stack[Len(stack')].step
    <3>1. /\ stack' \in Seq(P!Frame)
          /\ Len(stack') = Len(stack) - 1 /\ Len(stack') \in Nat \ {0}
          /\ \A i \in 1 .. Len(stack') - 1 : stack'[i] = stack[i]
          /\ stack'[Len(stack')].r = stack[Len(stack')].r
          /\ stack'[Len(stack')].step = stack[Len(stack')].step
      BY <1>2, <1>3, <1>6, TreeAssumptions, P!PopStack
    <3> QED
      BY <3>1
  <2>2. stack' # <<>> /\ stack'[1].r = stack[1].r
    <3>1. stack' # <<>>
      BY <2>1, EmptySeq
    <3>2. Len(stack') = 1 \/ 1 \in 1 .. Len(stack') - 1
      BY <2>1
    <3> QED
      BY <2>1, <3>1, <3>2
  <2>3. Top'.step # "work"
    <3>1. Len(stack') \in 1 .. Len(stack) - 1
      BY <1>2, <2>1
    <3>2. stack[Len(stack')].step = "subresources"
      BY <3>1 DEF P!IInv, P!Calls, P!CallsChained
    <3> QED
      BY <2>1, <3>2 DEF Top, Last
  <2>4. Pending'
    BY <1>1, <2>3, EmptyPending
  <2>5. Types' /\ TagsKnown' /\ Owned'
    BY <1>1 DEF BInv, Types, TagsKnown, Owned, Exists
  <2>6. Control'
    BY <1>1, <2>2 DEF BInv, Control
  <2>7. (outcome = "running" => PlanKnown)'
    BY <1>1 DEF BInv, PlanKnown, EndOf
  <2>8. Position'
    BY <1>1, <2>2 DEF BInv, Position
  <2> QED
    BY <1>4, <2>4, <2>5, <2>6, <2>7, <2>8 DEF BInv, P!Next
<1> QED
  BY <1>5, <1>6

-----------------------------------------------------------------------------
(* The next call: what is left of the calls after it. *)
LEMMA TodoTail ==
    ASSUME NEW s \in Seq(CallSet), s # <<>>, NEW t, t = Tail(s)
    PROVE  /\ Len(s) \in Nat \ {0} /\ 1 \in 1 .. Len(s) /\ Head(s) = s[1] /\ Head(s) \in CallSet
           /\ t \in Seq(CallSet) /\ Len(t) = Len(s) - 1 /\ Len(t) \in Nat
           /\ \A i \in 1 .. Len(t) : i + 1 \in 1 .. Len(s) /\ t[i] = s[i + 1] /\ 1 < i + 1 /\ 1 # i + 1
           /\ \A i, j \in 1 .. Len(t) : i < j => i + 1 < j + 1
           /\ \A j \in 1 .. Len(s) : j = 1 \/ (j - 1 \in 1 .. Len(t) /\ t[j - 1] = s[j] /\ 1 < j)
<1>1. /\ Len(s) \in Nat \ {0} /\ Head(s) = s[1] /\ Head(s) \in CallSet
      /\ t \in Seq(CallSet) /\ Len(t) = Len(s) - 1
      /\ \A i \in 1 .. Len(s) - 1 : t[i] = s[i + 1]
  BY HeadTail
<1> DEFINE n == Len(s)  m == Len(t)
<1>2. n \in Nat \ {0} /\ m = n - 1 /\ \A i \in 1 .. n - 1 : t[i] = s[i + 1]
  BY <1>1
<1> HIDE DEF n, m
<1>3. 1 \in 1 .. n /\ m \in Nat /\ \A i \in 1 .. m : i + 1 \in 1 .. n /\ i \in 1 .. n - 1 /\ 1 < i + 1 /\ 1 # i + 1
  BY <1>2
<1>4. \A j \in 1 .. n : j = 1 \/ (j - 1 \in 1 .. m /\ j - 1 \in 1 .. n - 1 /\ (j - 1) + 1 = j /\ 1 < j)
  BY <1>2
<1>5. \A i, j \in 1 .. m : i < j => i + 1 < j + 1
  BY <1>2
<1>6. \A i \in 1 .. m : t[i] = s[i + 1]
  BY <1>2, <1>3
<1>7. \A j \in 1 .. n : j = 1 \/ (j - 1 \in 1 .. m /\ t[j - 1] = s[j] /\ 1 < j)
  BY <1>2, <1>4
<1> QED
  BY <1>1, <1>3, <1>5, <1>6, <1>7 DEF n, m

(* A call after the first is made when the first has been. *)
LEMMA TailStops ==
    ASSUME NEW s \in Seq(CallSet), s # <<>>, NEW t, t = Tail(s), Stops(s), s[1] # Stop
    PROVE  Stops(t)
<1>1. PICK j \in 1 .. Len(s) : s[j] = Stop
  BY DEF Stops
<1>2. j - 1 \in 1 .. Len(t) /\ t[j - 1] = s[j]
  BY <1>1, TodoTail
<1> QED
  BY <1>1, <1>2 DEF Stops

(* What the calls still clear when the next has been made. *)
LEMMA TailClears ==
    ASSUME Types, NEW s \in Seq(CallSet), s # <<>>, todo' = Tail(s), Clears(s),
           parts' \subseteq (parts \ s[1].drop) \union s[1].put
    PROVE  Clears(todo)'
<1> DEFINE t == todo'
<1>1. /\ \A i \in 1 .. Len(t) : i + 1 \in 1 .. Len(s) /\ t[i] = s[i + 1]
      /\ \A j \in 1 .. Len(s) : j = 1 \/ (j - 1 \in 1 .. Len(t) /\ t[j - 1] = s[j])
      /\ Len(t) \in Nat
  BY TodoTail
<1> HIDE DEF t
<1>2. ASSUME NEW i \in 1 .. Len(t), t[i].version = 0, t[i].r \notin Grouping \union {"alb", "stop"}
      PROVE  /\ \A x \in parts' : x[1] = t[i].r => x \in Old \/ \E j \in 1 .. i : x \in t[j].drop
             /\ \A j \in 1 .. i : \A x \in t[j].put : x[1] = t[i].r => x \in Old
  <2> DEFINE r == t[i].r
  <2>1. /\ i \in Nat /\ i + 1 \in 1 .. Len(s) /\ s[i + 1].r = r /\ s[i + 1].version = 0
        /\ r \notin Grouping \union {"alb", "stop"}
        /\ 1 \in 1 .. i + 1
        /\ \A j \in 1 .. i : j + 1 \in 1 .. i + 1 /\ t[j] = s[j + 1]
        /\ \A j \in 1 .. i + 1 : j = 1 \/ (j - 1 \in 1 .. i /\ t[j - 1] = s[j])
    <3>1. i \in Nat /\ 1 \in 1 .. i + 1 /\ \A j \in 1 .. i : j + 1 \in 1 .. i + 1 /\ j \in 1 .. Len(t)
      BY <1>1, <1>2
    <3>2. \A j \in 1 .. i + 1 : j = 1 \/ (j - 1 \in 1 .. i /\ j - 1 \in 1 .. Len(t) /\ (j - 1) + 1 = j)
      BY <1>1, <1>2
    <3> QED
      BY <1>1, <1>2, <3>1, <3>2
  <2> HIDE DEF r
  <2>2. /\ \A x \in PartsOf(r) : x \in Old \/ \E j \in 1 .. i + 1 : x \in s[j].drop
        /\ \A j \in 1 .. i + 1 : \A x \in s[j].put : x[1] = r => x \in Old
    BY <2>1 DEF Clears
  <2>3. ASSUME NEW x \in parts', x[1] = r PROVE x \in Old \/ \E j \in 1 .. i : x \in t[j].drop
    <3>1. CASE x \in s[1].put
      BY <2>1, <2>2, <2>3, <3>1
    <3>2. CASE x \notin s[1].put
      <4>1. x \in PartsOf(r) /\ x \notin s[1].drop
        BY <2>3, <3>2 DEF PartsOf
      <4>2. CASE x \notin Old
        <5>1. PICK j \in 1 .. i + 1 : x \in s[j].drop
          BY <2>2, <4>1, <4>2
        <5>2. j - 1 \in 1 .. i /\ t[j - 1] = s[j]
          BY <2>1, <4>1, <5>1
        <5> QED
          BY <5>1, <5>2
      <4> QED
        BY <4>2
    <3> QED
      BY <3>1, <3>2
  <2>4. \A j \in 1 .. i : \A x \in t[j].put : x[1] = r => x \in Old
    <3> TAKE j \in 1 .. i
    <3>1. j + 1 \in 1 .. i + 1 /\ t[j] = s[j + 1]
      BY <2>1
    <3> QED
      BY <2>2, <3>1
  <2> QED
    BY <2>3, <2>4 DEF r
<1>3. (\A i \in 1 .. Len(todo) :
         todo[i].version = 0 /\ todo[i].r \notin Grouping \union {"alb", "stop"} =>
            /\ \A x \in parts : x[1] = todo[i].r => x \in Old \/ \E j \in 1 .. i : x \in todo[j].drop
            /\ \A j \in 1 .. i : \A x \in todo[j].put : x[1] = todo[i].r => x \in Old)'
  BY <1>2 DEF t
<1> QED
  BY <1>3 DEF Clears, PartsOf

(* What is there after the call. *)
LEMMA OwnedNext ==
    ASSUME Types, TagsKnown, Owned, NEW s, 1 \in 1 .. Len(s), s[1] \in CallSet, s[1].r \in Resource, Both(s),
           tag' = [tag EXCEPT ![s[1].r] = s[1].version], parts' = (parts \ s[1].drop) \union s[1].put
    PROVE  Owned'
<1> DEFINE c == s[1]
<1>1. /\ PutOwned(c)
      /\ c.version = 0 /\ c.r \notin Grouping \union {"alb", "stop"} =>
            \A x \in PartsOf(c.r) : x \in Old \/ x \in c.drop
  BY DEF Both, Clears
<1>2. /\ c.r \in Resource /\ tag' = [tag EXCEPT ![c.r] = c.version] /\ parts' = (parts \ c.drop) \union c.put
      /\ c \in CallSet
  OBVIOUS
<1> HIDE DEF c
<1>3. c.put \subseteq Part /\ parts \subseteq Part
  BY <1>2 DEF CallSet, Types
<1>4. "rule" \notin Role /\ c.r # "stop" /\ "hostgroup" \in Grouping /\ "rule" \in Resource
  BY <1>2, Kinds, KindsApart DEF Others, Grouping
<1> SUFFICES ASSUME NEW x \in parts', x[1] # "alb", x \notin Old PROVE tag'[x[1]] # 0
  BY DEF Owned, Exists
<1>5. x[1] \in Resource
  BY <1>2, <1>3, PartFacts
<1>6. \A r \in Resource : tag'[r] = IF r = c.r THEN c.version ELSE tag[r]
  BY <1>2 DEF Types
<1>7. \A r \in Grouping : tag[r] = 0
  BY DEF TagsKnown
<1>8. CASE x \in c.put
  <2>1. CASE x[1] = c.r /\ c.version # 0
    BY <1>5, <1>6, <2>1
  <2>2. CASE c.r = "hostgroup" /\ Exists(x[1])
    BY <1>4, <1>5, <1>6, <1>7, <2>2 DEF Exists
  <2>3. CASE c.r \in Role /\ x[1] = "rule" /\ Exists("rule")
    BY <1>4, <1>5, <1>6, <2>3 DEF Exists
  <2> QED
    BY <1>1, <1>8, <2>1, <2>2, <2>3 DEF PutOwned
<1>9. CASE x \notin c.put
  <2>1. x \in parts /\ x \notin c.drop /\ tag[x[1]] # 0
    BY <1>2, <1>9 DEF Owned, Exists
  <2>2. x[1] \notin Grouping
    BY <1>7, <2>1
  <2>3. CASE x[1] = c.r
    <3>1. x \in PartsOf(c.r)
      BY <2>1, <2>3 DEF PartsOf
    <3>2. c.version # 0
      BY <1>1, <1>4, <2>1, <2>2, <2>3, <3>1
    <3> QED
      BY <1>5, <1>6, <2>3, <3>2
  <2> QED
    BY <1>5, <1>6, <2>1, <2>3
<1> QED
  BY <1>8, <1>9

(* The next call of Create or Update. *)
LEMMA WorkFacts ==
    ASSUME BInv, P!IInv, Work
    PROVE  /\ todo \in Seq(CallSet) /\ todo # <<>> /\ todo' = Tail(todo)
           /\ todo[1] = Head(todo) /\ todo[1] \in CallSet /\ todo[1] # Stop /\ todo[1].r \in Resource
           /\ todo[1].version \in 0 .. 2
           /\ tag' = [tag EXCEPT ![todo[1].r] = todo[1].version]
           /\ parts' = (parts \ todo[1].drop) \union todo[1].put
           /\ UNCHANGED <<target, stack, dry, visited, made, cmd, outcome, plan, missed>>
           /\ 1 \in 1 .. Len(todo)
           /\ \A r \in Resource : tag'[r] = IF r = todo[1].r THEN todo[1].version ELSE tag[r]
           /\ stack = <<>> => OutsideCall(todo[1])
           /\ stack # <<>> => EnsureCall(Top.r, todo[1])
<1>1. /\ todo # <<>> /\ Head(todo) # Stop /\ todo' = Tail(todo)
      /\ tag' = [tag EXCEPT ![Head(todo).r] = Head(todo).version]
      /\ parts' = (parts \ Head(todo).drop) \union Head(todo).put
      /\ UNCHANGED <<target, stack, dry, visited, made, cmd, outcome, plan, missed>>
  BY DEF Work, ensureVars, history
<1>2. /\ todo \in Seq(CallSet) /\ tag \in [Resource -> 0 .. 2]
  BY DEF BInv, Types
<1>3. todo[1] = Head(todo) /\ todo[1] \in CallSet /\ 1 \in 1 .. Len(todo)
  BY <1>1, <1>2, TodoTail
<1>4. /\ stack = <<>> => OutsideCall(todo[1])
      /\ stack # <<>> => EnsureCall(Top.r, todo[1])
  BY <1>3 DEF BInv, Pending, OfCommand, InEnsure
<1>5. todo[1].r \in Resource
  <2>1. todo[1].r \in Resource \union {"stop"}
    BY <1>3 DEF CallSet
  <2> QED
    BY <1>1, <1>3, <1>4, <2>1, KindsApart DEF OutsideCall, EnsureCall
<1>6. todo[1].version \in 0 .. 2
  BY <1>3 DEF CallSet
<1> QED
  BY <1>1, <1>2, <1>3, <1>4, <1>5, <1>6

LEMMA WorkTypes == ASSUME BInv, P!IInv, Work PROVE Types' /\ Owned' /\ Control' /\ Position' /\ (outcome = "running" => PlanKnown)'
<1>1. Types'
  <2>1. todo' \in Seq(CallSet)
    BY WorkFacts, TodoTail
  <2>2. parts' \subseteq Part
    BY WorkFacts DEF BInv, Types, CallSet
  <2>3. tag' \in [Resource -> 0 .. 2]
    BY WorkFacts DEF BInv, Types
  <2> QED
    BY <2>1, <2>2, <2>3, WorkFacts DEF BInv, Types
<1>2. Owned'
  <2>1. Both(todo)
    BY DEF BInv, Pending, OfCommand, InEnsure
  <2> QED
    BY <2>1, WorkFacts, OwnedNext DEF BInv
<1>3. Control'
  <2>1. Top' = Top /\ todo # <<>>
    BY WorkFacts DEF Top
  <2>2. outcome = "running"
    BY <2>1 DEF BInv, Control
  <2> QED
    BY <2>1, <2>2, WorkFacts DEF BInv, Control
<1>4. Position'
  BY WorkFacts DEF BInv, Position
<1>5. (outcome = "running" => PlanKnown)'
  BY WorkFacts DEF BInv, PlanKnown, EndOf
<1> QED
  BY <1>1, <1>2, <1>3, <1>4, <1>5

LEMMA TagsNext ==
    ASSUME TagsKnown, UNCHANGED target, NEW c, c.r \in Resource,
           \A r \in Resource : tag'[r] = IF r = c.r THEN c.version ELSE tag[r],
           c.version \in {0, tag[c.r], target[c.r]},
           c.r \in Grouping \union {"alb"} => c.version = 0 \/ c.version = tag[c.r]
    PROVE  TagsKnown'
<1>1. Grouping \union {"alb"} \subseteq Resource
  BY Kinds DEF Others
<1> QED
  BY <1>1 DEF TagsKnown

(* A call of EnsureResource sets a version, or changes no tag. *)
LEMMA EnsureTag ==
    ASSUME BInv, stack # <<>>, NEW r \in Resource, NEW c, EnsureCall(r, c), c # Stop, c.r \in Resource
    PROVE  /\ c.version \in {0, tag[c.r], target[c.r]}
           /\ c.r \in Grouping \union {"alb"} => c.version = tag[c.r]
           /\ r \in Grouping \union {"alb"} => c.r = r /\ c.version = tag[r]
           /\ c.r # r => c.version = tag[c.r]
           /\ c.r = r /\ c.version \notin {tag[r], target[r]} => r = "gateway" /\ c.version = 0 /\ tag[r] = 1 /\ target[r] = 1
           /\ r # "alb" => \A x \in c.put \union c.drop : x[1] # "alb"
           /\ r = "alb" => c.drop = {}
<1>1. \A q \in Grouping \union {"alb"} : tag[q] = 0
  BY DEF BInv, TagsKnown
<1>2. "join" \notin Grouping \union {"alb"} /\ "gateway" \notin Grouping \union {"alb"} /\ "join" # "gateway"
  BY DEF Grouping
<1>3. "gateway" \in Resource /\ target["gateway"] = 1 /\ tag["gateway"] \in {0, 1}
  <2>1. "gateway" \in Resource \ Upgraded
    BY NeverUpgraded, Kinds DEF Others
  <2> QED
    BY <2>1 DEF BInv, TagsKnown, Types
<1>4. r # "alb" => "alb" \notin Touched(r)
  BY DEF Touched
<1> QED
  BY <1>1, <1>2, <1>3, <1>4 DEF EnsureCall

LEMMA WorkTagsKnown == ASSUME BInv, P!IInv, Work PROVE TagsKnown'
<1> DEFINE c == todo[1]
<1>1. /\ c.r \in Resource /\ UNCHANGED target /\ c # Stop
      /\ \A r \in Resource : tag'[r] = IF r = c.r THEN c.version ELSE tag[r]
      /\ stack = <<>> => OutsideCall(c)
      /\ stack # <<>> => EnsureCall(Top.r, c) /\ Top.r \in Resource
  BY WorkFacts, StackFacts
<1> HIDE DEF c
<1>2. CASE stack = <<>>
  <2>1. c.version \in {0, tag[c.r]}
    BY <1>1, <1>2 DEF OutsideCall
  <2> QED
    BY <1>1, <2>1, TagsNext DEF BInv
<1>3. CASE stack # <<>>
  <2>1. c.version \in {0, tag[c.r], target[c.r]} /\ (c.r \in Grouping \union {"alb"} => c.version = tag[c.r])
    BY <1>1, <1>3, EnsureTag
  <2> QED
    BY <1>1, <2>1, TagsNext DEF BInv
<1> QED
  BY <1>2, <1>3

(* It is a step of ResourceTree. *)
LEMMA AlbDep ==
    ASSUME Types, TagsKnown, Types', UNCHANGED target, \A r \in Resource \ {"alb"} : tag'[r] = tag[r]
    PROVE  /\ (AlbIsWhole' <=> AlbIsWhole) => Dep' = Dep
           /\ AlbIsWhole' => Dep' = [Dep EXCEPT !["alb"] = target["alb"]]
<1>1. Dep = [r \in Resource |-> Dep[r]] /\ Dep' = [r \in Resource |-> Dep'[r]]
  BY DEF Dep
<1>2. \A r \in Resource \ {"alb"} : Dep'[r] = Dep[r]
  BY DEF Dep, Deployed
<1>3. Dep["alb"] = (IF AlbIsWhole THEN target["alb"] ELSE 0) /\ Dep'["alb"] = (IF AlbIsWhole' THEN target["alb"] ELSE 0)
      /\ "alb" \in Resource
  <2>1. "alb" \in Resource
    BY Kinds DEF Others
  <2> QED
    BY <2>1 DEF Dep, Deployed
<1> QED
  BY <1>1, <1>2, <1>3

LEMMA WorkEnsureTree ==
    ASSUME BInv, P!IInv, Work, stack # <<>>
    PROVE  [P!Next]_P!vars
<1> DEFINE c == todo[1]  r == Top.r
<1>1. /\ c.r \in Resource /\ UNCHANGED <<target, stack, dry, visited>> /\ c # Stop /\ EnsureCall(r, c)
      /\ \A q \in Resource : tag'[q] = IF q = c.r THEN c.version ELSE tag[q]
      /\ parts' = (parts \ c.drop) \union c.put
  BY WorkFacts
<1>2. r \in Resource /\ r = P!Top.r /\ P!At("work")
  <2>1. Top.step = "work"
    BY WorkFacts DEF BInv, Control
  <2> QED
    BY <2>1, StackFacts
<1> HIDE DEF c, r
<1>3. /\ c.version \in {0, tag[c.r], target[c.r]}
      /\ r \in Grouping \union {"alb"} => c.r = r /\ c.version = tag[r]
      /\ c.r # r => c.version = tag[c.r]
      /\ c.r = r /\ c.version \notin {tag[r], target[r]} => r = "gateway" /\ c.version = 0 /\ tag[r] = 1 /\ target[r] = 1
      /\ r # "alb" => \A x \in c.put \union c.drop : x[1] # "alb"
      /\ r = "alb" => c.drop = {}
  BY <1>1, <1>2, EnsureTag
<1>4. Types /\ Types' /\ TagsKnown
  BY WorkTypes DEF BInv
<1>5. r # "alb" => (AlbIsWhole' <=> AlbIsWhole)
  <2> SUFFICES ASSUME r # "alb" PROVE AlbIsWhole' <=> AlbIsWhole
    OBVIOUS
  <2>1. \A x : x[1] = "alb" => (x \in parts' <=> x \in parts)
    BY <1>1, <1>3
  <2>2. \A p : <<"alb", p>>[1] = "alb"
    OBVIOUS
  <2>3. \A p : <<"alb", p>> \in parts' <=> <<"alb", p>> \in parts
    BY <2>1, <2>2
  <2> QED
    BY <2>3 DEF AlbIsWhole, Has, AlbParts
<1>6. r = "alb" /\ AlbIsWhole => AlbIsWhole'
  <2> SUFFICES ASSUME r = "alb", AlbIsWhole PROVE AlbIsWhole'
    OBVIOUS
  <2>1. \A x \in parts : x \in parts'
    BY <1>1, <1>3
  <2>2. \A p \in AlbParts : <<"alb", p>> \in parts
    BY Zenon DEF AlbIsWhole, Has
  <2>3. \A p \in AlbParts : <<"alb", p>> \in parts'
    BY <2>1, <2>2, Zenon
  <2>4. AlbParts' = AlbParts
    BY DEF AlbParts
  <2> QED
    BY <2>3, <2>4, Zenon DEF AlbIsWhole, Has
<1>7. CASE \A q \in Resource : tag'[q] = tag[q]
  <2>1. CASE AlbIsWhole' <=> AlbIsWhole
    BY <1>1, <1>4, <1>7, <2>1, AlbDep, TreeStays
  <2>2. CASE ~(AlbIsWhole' <=> AlbIsWhole)
    <3>1. r = "alb" /\ AlbIsWhole'
      BY <1>5, <1>6, <2>2
    <3>2. Dep' = [Dep EXCEPT !["alb"] = target["alb"]]
      BY <1>1, <1>4, <1>7, <3>1, AlbDep
    <3>3. "alb" \notin Grouping /\ target["alb"] # 0
      BY <1>4, DepFacts DEF Grouping
    <3>4. P!Work
      BY <1>1, <1>2, <3>1, <3>2, <3>3 DEF P!Work, Dep
    <3> QED
      BY <3>4 DEF P!Next
  <2> QED
    BY <2>1, <2>2
<1>8. CASE ~(\A q \in Resource : tag'[q] = tag[q])
  <2>1. c.r = r /\ c.version # tag[r]
    BY <1>1, <1>3, <1>8
  <2>2. r \notin Grouping /\ r # "alb"
    BY <1>3, <2>1
  <2>3. c.version \in {0, target[r]} /\ (c.version = 0 => tag[r] # 0)
    BY <1>3, <2>1
  <2>4. Dep' = [Dep EXCEPT ![r] = c.version] /\ Dep[r] = tag[r]
    <3>1. Dep = [q \in Resource |-> Dep[q]] /\ Dep' = [q \in Resource |-> Dep'[q]]
      BY DEF Dep
    <3>2. \A q \in Resource \ {"alb"} : Dep[q] = tag[q] /\ Dep'[q] = tag'[q]
      BY DEF Dep, Deployed
    <3>3. Dep'["alb"] = Dep["alb"]
      BY <1>1, <1>5, <2>2, DepFacts, <1>4 DEF Dep, Deployed
    <3> QED
      BY <1>1, <1>2, <2>1, <2>2, <3>1, <3>2, <3>3
  <2>5. P!Work
    BY <1>1, <1>2, <2>2, <2>3, <2>4 DEF P!Work, Dep
  <2> QED
    BY <2>5 DEF P!Next
<1> QED
  BY <1>7, <1>8

LEMMA WorkEnsurePending ==
    ASSUME BInv, P!IInv, Work, stack # <<>>
    PROVE  Pending'
<1> DEFINE c == todo[1]  r == Top.r  t == todo'
<1>1. /\ c.r \in Resource /\ UNCHANGED <<target, stack>> /\ c # Stop /\ EnsureCall(r, c) /\ c \in CallSet
      /\ \A q \in Resource : tag'[q] = IF q = c.r THEN c.version ELSE tag[q]
      /\ parts' = (parts \ c.drop) \union c.put /\ Top' = Top
      /\ todo \in Seq(CallSet) /\ todo # <<>> /\ t = Tail(todo) /\ 1 \in 1 .. Len(todo)
  BY WorkFacts DEF Top
<1>2. r \in Resource /\ "join" \in Resource
  BY <1>1, StackFacts, Kinds
<1>3. /\ \A i \in 1 .. Len(t) : i + 1 \in 1 .. Len(todo) /\ t[i] = todo[i + 1] /\ 1 < i + 1
      /\ \A i, j \in 1 .. Len(t) : i < j => i + 1 < j + 1
      /\ \A j \in 1 .. Len(todo) : j = 1 \/ (j - 1 \in 1 .. Len(t) /\ t[j - 1] = todo[j] /\ 1 < j)
      /\ t \in Seq(CallSet)
  BY <1>1, TodoTail
<1>4. /\ InEnsure(r, todo) /\ Leads(r, todo) /\ Types
  <2>1. Top.step = "work"
    BY <1>1 DEF BInv, Control
  <2> QED
    BY <2>1 DEF BInv, Pending
<1> HIDE DEF c, r, t
<1>5. /\ c.version \in {0, tag[c.r], target[c.r]}
      /\ r \in Grouping \union {"alb"} => c.r = r /\ c.version = tag[r]
      /\ c.r # r => c.version = tag[c.r]
      /\ c.r = r /\ c.version \notin {tag[r], target[r]} => r = "gateway" /\ c.version = 0 /\ tag[r] = 1 /\ target[r] = 1
      /\ r # "alb" => \A x \in c.put \union c.drop : x[1] # "alb"
      /\ r = "alb" => c.drop = {}
  BY <1>1, <1>2, EnsureTag
<1>6. FinalsLast(r, todo) /\ Both(todo) /\ \A i \in 1 .. Len(todo) : EnsureCall(r, todo[i])
  BY <1>4 DEF InEnsure
<1>7. \A i \in 1 .. Len(t) :
        t[i].r = r /\ c.r = r /\ c.version = target[r] => t[i].version = target[r]
  BY <1>1, <1>3, <1>6 DEF FinalsLast, c
<1>8. ASSUME NEW d, EnsureCall(r, d), d.r = r /\ c.r = r /\ c.version = target[r] => d.version = target[r]
      PROVE  (/\ EnsureCall(r, d)
              /\ d.r = r /\ r \notin Grouping \union {"alb"} => d.version \in {0, tag'[r], target[r]}
              /\ d.r = r /\ r \notin Grouping \union {"alb"} /\ r # "gateway" => d.version \in {tag'[r], target[r]}
              /\ d.r = "join" /\ r = "gateway" => d.version = tag'["join"])
  <2>1. "join" # "gateway" /\ "gateway" \notin Grouping \union {"alb"} /\ "join" \notin Grouping \union {"alb"}
    BY DEF Grouping
  <2>2. r # "gateway" /\ d.r = r /\ r \notin Grouping \union {"alb"} => d.version \in {tag[r], target[r]}
    BY <1>8, <2>1, StopIsCall, <1>2, KindsApart DEF EnsureCall
  <2>3. r = "gateway" /\ d.r = "join" => d.version = tag["join"]
    BY <1>8, <2>1, StopIsCall DEF EnsureCall
  <2>4. r = "gateway" /\ d.r = r => d.version \in {0, tag[r], target[r]} 
    BY <1>8, <2>1, StopIsCall DEF EnsureCall
  <2>5. r = "gateway" => tag[r] \in {0, 1} /\ target[r] = 1
    <3>1. r = "gateway" => r \notin Upgraded
      BY NeverUpgraded
    <3> QED
      BY <1>2, <3>1 DEF BInv, TagsKnown, Types
  <2>6. tag'["join"] = tag["join"] \/ r # "gateway"
    BY <1>1, <1>2, <1>5
  <2>7. tag'[r] \in {tag[r], target[r]} \/ r = "gateway"
    BY <1>1, <1>2, <1>5
  <2>8. c.r = r /\ tag'[r] # tag[r] /\ r # "gateway" => c.version = target[r]
    BY <1>1, <1>2, <1>5
  <2>9. c.r # r => tag'[r] = tag[r]
    BY <1>1, <1>2
  <2> QED
    BY <1>8, <2>2, <2>3, <2>4, <2>5, <2>6, <2>7, <2>8, <2>9
<1>9. (\A i \in 1 .. Len(todo) : EnsureCall(Top.r, todo[i]))'
  <2>1. ASSUME NEW i \in 1 .. Len(t)
        PROVE  /\ EnsureCall(r, t[i])
               /\ t[i].r = r /\ r \notin Grouping \union {"alb"} => t[i].version \in {0, tag'[r], target[r]}
               /\ t[i].r = r /\ r \notin Grouping \union {"alb"} /\ r # "gateway" => t[i].version \in {tag'[r], target[r]}
               /\ t[i].r = "join" /\ r = "gateway" => t[i].version = tag'["join"]
    <3> DEFINE d == t[i]
    <3>1. EnsureCall(r, d) /\ (d.r = r /\ c.r = r /\ c.version = target[r] => d.version = target[r])
      BY <1>3, <1>6, <1>7, <2>1
    <3> HIDE DEF d
    <3>2. /\ EnsureCall(r, d)
          /\ d.r = r /\ r \notin Grouping \union {"alb"} => d.version \in {0, tag'[r], target[r]}
          /\ d.r = r /\ r \notin Grouping \union {"alb"} /\ r # "gateway" => d.version \in {tag'[r], target[r]}
          /\ d.r = "join" /\ r = "gateway" => d.version = tag'["join"]
      BY <1>8, <3>1
    <3> QED
      BY <3>2 DEF d
  <2>2. Top'.r = r /\ target' = target
    BY <1>1 DEF r
  <2>3. \A i \in 1 .. Len(t) :
          \/ t[i] = Stop /\ r \in {"alb", "table"}
          \/ /\ t[i].r # "stop"
             /\ \/ t[i].r = r /\ r \notin Grouping \union {"alb"} /\ t[i].version \in {tag'[r], target[r]}
                \/ /\ t[i].r = r /\ r \in Grouping \union {"alb"} /\ t[i].version = 0 /\ t[i].drop = {}
                   /\ r # "alb" => t[i].put \subseteq Of("asg", {"targetGroup"})
                \/ t[i].r = r /\ r = "gateway" /\ t[i].version = 0
                \/ t[i].r = "join" /\ r = "gateway" /\ t[i].version = tag'["join"]
             /\ \A x \in t[i].put \union t[i].drop : x[1] \in Touched(r)
             /\ \A x \in t[i].drop : x[1] \in Role \union {"gateway", "lt"} \/ x = <<"join", "permission">>
             /\ ErrorIgnored(t[i]) => t[i].drop = {}
    <3> SUFFICES ASSUME NEW i \in 1 .. Len(t), ~(t[i] = Stop /\ r \in {"alb", "table"})
                 PROVE  /\ t[i].r # "stop"
                        /\ \/ t[i].r = r /\ r \notin Grouping \union {"alb"} /\ t[i].version \in {tag'[r], target[r]}
                           \/ /\ t[i].r = r /\ r \in Grouping \union {"alb"} /\ t[i].version = 0 /\ t[i].drop = {}
                              /\ r # "alb" => t[i].put \subseteq Of("asg", {"targetGroup"})
                           \/ t[i].r = r /\ r = "gateway" /\ t[i].version = 0
                           \/ t[i].r = "join" /\ r = "gateway" /\ t[i].version = tag'["join"]
                        /\ \A x \in t[i].put \union t[i].drop : x[1] \in Touched(r)
                        /\ \A x \in t[i].drop : x[1] \in Role \union {"gateway", "lt"} \/ x = <<"join", "permission">>
                        /\ ErrorIgnored(t[i]) => t[i].drop = {}
      OBVIOUS
    <3> DEFINE d == t[i]
    <3>1. /\ EnsureCall(r, d)
          /\ d.r = r /\ r \notin Grouping \union {"alb"} => d.version \in {0, tag'[r], target[r]}
          /\ d.r = r /\ r \notin Grouping \union {"alb"} /\ r # "gateway" => d.version \in {tag'[r], target[r]}
          /\ d.r = "join" /\ r = "gateway" => d.version = tag'["join"]
          /\ ~(d = Stop /\ r \in {"alb", "table"})
      BY <2>1
    <3> HIDE DEF d
    <3>2. /\ d.r # "stop"
          /\ \/ d.r = r /\ r \notin Grouping \union {"alb"} /\ d.version \in {tag'[r], target[r]}
             \/ /\ d.r = r /\ r \in Grouping \union {"alb"} /\ d.version = 0 /\ d.drop = {}
                /\ r # "alb" => d.put \subseteq Of("asg", {"targetGroup"})
             \/ d.r = r /\ r = "gateway" /\ d.version = 0
             \/ d.r = "join" /\ r = "gateway" /\ d.version = tag'["join"]
          /\ \A x \in d.put \union d.drop : x[1] \in Touched(r)
          /\ \A x \in d.drop : x[1] \in Role \union {"gateway", "lt"} \/ x = <<"join", "permission">>
          /\ ErrorIgnored(d) => d.drop = {}
      BY <3>1 DEF EnsureCall
    <3> QED
      BY <3>2 DEF d
  <2> QED
    BY <2>2, <2>3 DEF EnsureCall, t, ErrorIgnored
<1>10. FinalsLast(Top.r, todo)'
  <2>1. \A i, j \in 1 .. Len(t) : i < j /\ t[i].r = r /\ t[j].r = r /\ t[i].version = target[r]
            => t[j].version = target[r]
    <3> SUFFICES ASSUME NEW i \in 1 .. Len(t), NEW j \in 1 .. Len(t), i < j, t[i].r = r, t[j].r = r,
                        t[i].version = target[r]
                 PROVE  t[j].version = target[r]
      OBVIOUS
    <3>1. i + 1 \in 1 .. Len(todo) /\ j + 1 \in 1 .. Len(todo) /\ i + 1 < j + 1
          /\ t[i] = todo[i + 1] /\ t[j] = todo[j + 1]
      BY <1>3
    <3> QED
      BY <1>6, <3>1 DEF FinalsLast
  <2>2. Top'.r = r /\ target' = target
    BY <1>1 DEF r
  <2> QED
    BY <2>1, <2>2 DEF FinalsLast, t
<1>11. Both(todo)'
  <2>1. Clears(todo)'
    BY <1>1, <1>4, <1>6, TailClears DEF Both, c, t
  <2>2. (\A i \in 1 .. Len(todo) : PutOwned(todo[i]))'
    <3>1. r = "hostgroup" => \A q \in Resource : tag'[q] = tag[q]
      BY <1>1, <1>2, <1>5 DEF Grouping
    <3>2. ASSUME NEW i \in 1 .. Len(t), NEW x \in t[i].put
          PROVE  \/ x[1] = "alb" \/ x \in Old
                 \/ x[1] = t[i].r /\ t[i].version # 0
                 \/ t[i].r = "hostgroup" /\ tag'[x[1]] # 0
                 \/ t[i].r \in Role /\ x[1] = "rule" /\ tag'["rule"] # 0
      <4> DEFINE d == t[i]
      <4>1. PutOwned(d) /\ EnsureCall(r, d) /\ d \in CallSet
        <5>1. t[i] = todo[i + 1] /\ i + 1 \in 1 .. Len(todo)
          BY <1>3, <3>2
        <5> QED
          BY <1>1, <1>6, <5>1, ElementOfSeq DEF Both
      <4>2. x \in d.put
        BY <3>2
      <4> HIDE DEF d
      <4>3. x[1] \in Resource
        BY <4>1, <4>2, PartFacts DEF CallSet
      <4>4. d.r = "hostgroup" /\ Exists(x[1]) => tag'[x[1]] # 0
        <5>1. d.r = "hostgroup" => r = "hostgroup"
          BY <4>1, StopIsCall DEF EnsureCall
        <5> QED
          BY <3>1, <4>3, <5>1 DEF Exists
      <4>5. ~(d.r \in Role /\ x[1] = "rule")
        <5>1. "stop" \notin Role /\ "join" \notin Role /\ "rule" \notin Role /\ "gateway" \notin Role
              /\ "hostgroup" \notin Role
          BY Kinds, KindsApart DEF Others, Grouping
        <5>2. d.r \in Role => d.r = r /\ x[1] \in Touched(r)
          BY <4>1, <4>2, <5>1, StopIsCall DEF EnsureCall
        <5> QED
          BY <5>1, <5>2 DEF Touched
      <4>6. \/ x[1] = "alb" \/ x \in Old
            \/ x[1] = d.r /\ d.version # 0
            \/ d.r = "hostgroup" /\ tag'[x[1]] # 0
            \/ d.r \in Role /\ x[1] = "rule" /\ tag'["rule"] # 0
        BY <4>1, <4>2, <4>4, <4>5 DEF PutOwned
      <4> QED
        BY <4>6 DEF d
    <3> QED
      BY <3>2 DEF PutOwned, Exists, t
  <2> QED
    BY <2>1, <2>2 DEF Both
<1>12. Leads(Top.r, todo)'
  <2>1. Stops(todo) => Stops(t)
    BY <1>1, TailStops DEF c
  <2>2. r \notin Grouping \union {"alb"} =>
            \/ Stops(t)
            \/ \E i \in 1 .. Len(t) : t[i].r = r /\ t[i].version = target[r] /\ ~ErrorIgnored(t[i])
            \/ tag'[r] = target[r] /\ \A i \in 1 .. Len(t) : t[i].r = r => t[i].version = target[r]
    <3> SUFFICES ASSUME r \notin Grouping \union {"alb"}, ~Stops(t)
                 PROVE  \/ \E i \in 1 .. Len(t) : t[i].r = r /\ t[i].version = target[r] /\ ~ErrorIgnored(t[i])
                        \/ tag'[r] = target[r] /\ \A i \in 1 .. Len(t) : t[i].r = r => t[i].version = target[r]
      OBVIOUS
    <3>1. CASE c.r = r /\ c.version = target[r]
      BY <1>1, <1>2, <1>7, <3>1
    <3>2. CASE ~(c.r = r /\ c.version = target[r])
      <4>1. CASE \E i \in 1 .. Len(todo) : todo[i].r = r /\ todo[i].version = target[r] /\ ~ErrorIgnored(todo[i])
        <5>1. PICK i \in 1 .. Len(todo) : todo[i].r = r /\ todo[i].version = target[r] /\ ~ErrorIgnored(todo[i])
          BY <4>1
        <5>2. i # 1
          BY <3>2, <5>1 DEF c
        <5>3. i - 1 \in 1 .. Len(t) /\ t[i - 1] = todo[i]
          BY <1>3, <5>2
        <5> QED
          BY <5>1, <5>3
      <4>2. CASE tag[r] = target[r] /\ \A i \in 1 .. Len(todo) : todo[i].r = r => todo[i].version = target[r]
        <5>1. c.r # r
          BY <1>1, <3>2, <4>2 DEF c
        <5>2. tag'[r] = target[r]
          BY <1>1, <1>2, <4>2, <5>1
        <5> QED
          BY <1>3, <4>2, <5>2
      <4> QED
        BY <1>4, <2>1, <4>1, <4>2 DEF Leads
    <3> QED
      BY <3>1, <3>2
  <2>3. \A p : p \in AlbParts /\ r = "alb" =>
              <<"alb", p>> \in parts' \/ Stops(t) \/ \E i \in 1 .. Len(t) : <<"alb", p>> \in t[i].put
    <3>0. ASSUME NEW p, p \in AlbParts, r = "alb"
          PROVE  <<"alb", p>> \in parts' \/ Stops(t) \/ \E i \in 1 .. Len(t) : <<"alb", p>> \in t[i].put
      <4> DEFINE x == <<"alb", p>>
      <4>1. x \in parts \/ Stops(todo) \/ \E i \in 1 .. Len(todo) : x \in todo[i].put
        BY <1>4, <3>0 DEF Leads, Has
      <4> HIDE DEF x
      <4>2. CASE x \in parts
        BY <1>1, <1>5, <3>0, <4>2 DEF x
      <4>3. CASE \E i \in 1 .. Len(todo) : x \in todo[i].put
        <5>1. PICK i \in 1 .. Len(todo) : x \in todo[i].put
          BY <4>3
        <5>2. CASE i = 1
          BY <1>1, <5>1, <5>2 DEF c, x
        <5>3. CASE i # 1
          <6>1. i - 1 \in 1 .. Len(t) /\ t[i - 1] = todo[i]
            BY <1>3, <5>3
          <6> QED
            BY <5>1, <6>1 DEF x
        <5> QED
          BY <5>2, <5>3
      <4> QED
        BY <2>1, <4>1, <4>2, <4>3
    <3> QED
      BY <3>0
  <2>4. Top'.r = r /\ target' = target
    BY <1>1 DEF r
  <2>5. Stops(t) <=> Stops(todo)'
    BY DEF Stops, t
  <2> QED
    BY <2>2, <2>3, <2>4, <2>5 DEF Leads, t, Has, ErrorIgnored, AlbParts, Stops
<1>13. stack' # <<>>
  BY <1>1
<1> QED
  BY <1>9, <1>10, <1>11, <1>12, <1>13 DEF Pending, InEnsure

(* The next call of a command itself. *)
LEMMA WorkOutsideTree ==
    ASSUME BInv, P!IInv, Work, stack = <<>>
    PROVE  [P!Next]_P!vars
<1> DEFINE c == todo[1]
<1>1. /\ c.r \in Resource /\ UNCHANGED <<target, stack, dry, visited>> /\ OutsideCall(c)
      /\ \A q \in Resource : tag'[q] = IF q = c.r THEN c.version ELSE tag[q]
      /\ parts' = (parts \ c.drop) \union c.put
  BY WorkFacts
<1> HIDE DEF c
<1>2. Types /\ Types' /\ target' \in [Resource -> {1, 2}]
  BY <1>1, WorkTypes DEF BInv, Types
<1>3. tag \in [Resource -> 0 .. 2] /\ tag' \in [Resource -> 0 .. 2]
  BY <1>2 DEF Types
<1>4. CASE cmd # "destroy"
  <2>1. c.version = tag[c.r] /\ c.drop = {} /\ \A x \in c.put : x[1] # "alb"
    BY <1>1, <1>4 DEF OutsideCall
  <2>2. tag' = tag
    BY <1>1, <1>3, <2>1
  <2>3. \A p : <<"alb", p>> \in parts' <=> <<"alb", p>> \in parts
    BY <1>1, <2>1
  <2> QED
    BY <1>1, <1>2, <2>2, <2>3, DepSame, TreeStays DEF Has
<1>5. CASE cmd = "destroy"
  <2>1. visited = {} /\ visited' = {}
    BY <1>1, <1>5 DEF BInv, Control
  <2>2. c.put \subseteq Old \union Of("rule", {"stale"}) /\ c.version \in {0, tag[c.r]}
    BY <1>1, <1>5 DEF OutsideCall
  <2>3. \A x \in c.put : x[1] # "alb"
    BY <2>2, OfFacts DEF Old
  <2>4. \A p : <<"alb", p>> \in parts' => <<"alb", p>> \in parts
    BY <1>1, <2>3
  <2>5. AlbIsWhole' => AlbIsWhole
    <3>1. \A p : Has("alb", p)' => Has("alb", p)
      BY <2>4 DEF Has
    <3> QED
      BY <3>1 DEF AlbIsWhole, AlbParts
  <2>6. \A q \in Resource : Dep'[q] \in {0, Dep[q]}
    <3>1. \A q \in Resource \ {"alb"} : Dep[q] = tag[q] /\ Dep'[q] = tag'[q]
      BY DEF Dep, Deployed
    <3>2. Dep'["alb"] \in {0, Dep["alb"]}
      BY <1>1, <1>2, <2>5, DepFacts DEF Dep, Deployed
    <3> QED
      BY <1>1, <2>2, <3>1, <3>2
  <2> DEFINE gone == {q \in Resource : Dep'[q] = 0}
  <2>7. Dep' = [q \in Resource |-> IF q \in gone THEN 0 ELSE Dep[q]]
    <3>1. Dep' = [q \in Resource |-> Dep'[q]]
      BY DEF Dep
    <3> QED
      BY <2>6, <3>1
  <2>8. gone \in SUBSET Resource
    OBVIOUS
  <2> HIDE DEF gone
  <2> QED
    BY <1>1, <2>1, <2>7, <2>8, TreeBetween
<1> QED
  BY <1>4, <1>5

LEMMA WorkOutsidePending ==
    ASSUME BInv, P!IInv, Work, stack = <<>>
    PROVE  Pending'
<1> DEFINE c == todo[1]  t == todo'
<1>1. /\ c.r \in Resource /\ UNCHANGED <<target, stack, cmd>> /\ OutsideCall(c)
      /\ \A q \in Resource : tag'[q] = IF q = c.r THEN c.version ELSE tag[q]
      /\ parts' = (parts \ c.drop) \union c.put
      /\ todo \in Seq(CallSet) /\ todo # <<>> /\ t = Tail(todo) /\ 1 \in 1 .. Len(todo)
  BY WorkFacts
<1>2. /\ \A i \in 1 .. Len(t) : i + 1 \in 1 .. Len(todo) /\ t[i] = todo[i + 1] /\ 1 < i + 1
      /\ \A i, j \in 1 .. Len(t) : i < j => i + 1 < j + 1
      /\ t \in Seq(CallSet)
  BY <1>1, TodoTail
<1>3. OfCommand(todo) /\ Types /\ TagsKnown
  BY DEF BInv, Pending
<1>4. (\A i \in 1 .. Len(todo) : OutsideCall(todo[i])) /\ RemovalsLast(todo) /\ Both(todo)
  BY <1>3 DEF OfCommand
<1> HIDE DEF t
<1>5. ASSUME NEW i \in 1 .. Len(t)
      PROVE  /\ OutsideCall(t[i]) /\ PutOwned(t[i]) /\ t[i] \in CallSet
             /\ t[i].r = c.r /\ c.version = 0 => t[i].version = 0
             /\ t[i].r \in Role => c.r \in Role
  <2>1. i + 1 \in 1 .. Len(todo) /\ t[i] = todo[i + 1] /\ 1 < i + 1
    BY <1>2
  <2>2. t[i] \in CallSet
    BY <1>1, <2>1, ElementOfSeq
  <2> QED
    BY <1>1, <1>4, <2>1, <2>2 DEF RemovalsLast, Both, c
<1> HIDE DEF c
<1>6. c.version \in {0, tag[c.r]} /\ (cmd # "destroy" => c.version = tag[c.r])
  BY <1>1 DEF OutsideCall
<1>7. "rule" \notin Role /\ "hostgroup" \in Grouping /\ Grouping \subseteq Resource
      /\ "rule" # "hostgroup" /\ "hostgroup" \notin Role /\ "rule" \in Resource
  BY Kinds, KindsApart DEF Others, Grouping
<1>8. (\A i \in 1 .. Len(todo) : OutsideCall(todo[i]))'
  <2>1. ASSUME NEW d, OutsideCall(d), d.r = c.r /\ c.version = 0 => d.version = 0
        PROVE  /\ d.version \in {0, tag'[d.r]} /\ (cmd # "destroy" => d.version = tag'[d.r])
               /\ OutsideCall(d)
    <3>1. d.r \in Resource /\ d.version \in {0, tag[d.r]} /\ (cmd # "destroy" => d.version = tag[d.r])
      BY <2>1 DEF OutsideCall
    <3>2. d.version \in {0, tag'[d.r]} /\ (cmd # "destroy" => d.version = tag'[d.r])
      BY <1>1, <1>6, <2>1, <3>1
    <3> QED
      BY <2>1, <3>2
  <2>2. \A i \in 1 .. Len(t) :
          /\ t[i].version \in {0, tag'[t[i].r]} /\ (cmd # "destroy" => t[i].version = tag'[t[i].r])
          /\ OutsideCall(t[i])
    BY <1>5, <2>1
  <2>3. \A i \in 1 .. Len(t) :
          /\ t[i].r \in Resource
          /\ t[i].version \in {0, tag'[t[i].r]}
          /\ IF cmd = "destroy" THEN t[i].put \subseteq Old \union Of("rule", {"stale"})
             ELSE /\ t[i].version = tag'[t[i].r] /\ t[i].drop = {}
                  /\ \A x \in t[i].put : x[1] = t[i].r /\ t[i].r # "alb"
          /\ cmd \in {"update", "dryUpdate"} => t[i].r = "table"
          /\ \A x \in t[i].put \union t[i].drop : x[1] \in Near(t[i].r)
    BY <2>2 DEF OutsideCall
  <2> QED
    BY <1>1, <2>3 DEF OutsideCall, t
<1>9. RemovalsLast(todo)'
  <2>1. ASSUME NEW i \in 1 .. Len(t), NEW j \in 1 .. Len(t)
        PROVE  /\ i < j /\ t[i].r = t[j].r /\ t[i].version = 0 => t[j].version = 0
               /\ t[i].r \in Role => t[j].r \in Role
    <3>1. /\ i + 1 \in 1 .. Len(todo) /\ j + 1 \in 1 .. Len(todo) /\ (i < j => i + 1 < j + 1)
          /\ t[i] = todo[i + 1] /\ t[j] = todo[j + 1]
      BY <1>2
    <3> QED
      BY <1>4, <3>1 DEF RemovalsLast
  <2>2. RemovalsLast(t)
    BY <2>1 DEF RemovalsLast
  <2> QED
    BY <2>2 DEF RemovalsLast, t
<1>10. Both(todo)'
  <2>1. Clears(todo)'
    <3>1. Clears(todo)
      BY <1>4 DEF Both
    <3> QED
      BY <1>1, <1>3, <3>1, TailClears DEF t, c
  <2>2. ASSUME NEW d, OutsideCall(d), PutOwned(d), d \in CallSet, d.r \in Role => c.r \in Role
        PROVE  \A x \in d.put :
                 \/ x[1] = "alb" \/ x \in Old
                 \/ x[1] = d.r /\ d.version # 0
                 \/ d.r \in Role /\ x[1] = "rule" /\ tag'["rule"] # 0
    <3>1. ASSUME NEW x \in d.put
          PROVE  \/ x[1] = "alb" \/ x \in Old
                 \/ x[1] = d.r /\ d.version # 0
                 \/ d.r \in Role /\ x[1] = "rule" /\ tag'["rule"] # 0
      <4>1. ~(d.r = "hostgroup" /\ Exists(x[1])) \/ x \in Old
        <5>1. cmd # "destroy" => x[1] = d.r
          BY <2>2, <3>1 DEF OutsideCall
        <5>2. cmd = "destroy" => x \in Old \/ x[1] = "rule"
          BY <2>2, <3>1, OfFacts DEF OutsideCall
        <5>3. d.r = "hostgroup" => x[1] = "hostgroup"
          BY <1>7, <2>2, <3>1 DEF OutsideCall, Near
        <5> QED
          BY <1>3, <1>7, <5>1, <5>2, <5>3 DEF TagsKnown, Exists
      <4>2. d.r \in Role => tag'["rule"] = tag["rule"]
        BY <1>1, <1>7, <2>2
      <4> QED
        BY <2>2, <3>1, <4>1, <4>2 DEF PutOwned, Exists
    <3> QED
      BY <3>1
  <2>3. \A i \in 1 .. Len(t) : \A x \in t[i].put :
          \/ x[1] = "alb" \/ x \in Old
          \/ x[1] = t[i].r /\ t[i].version # 0
          \/ t[i].r \in Role /\ x[1] = "rule" /\ tag'["rule"] # 0
    BY <1>5, <2>2
  <2>4. (\A i \in 1 .. Len(todo) : PutOwned(todo[i]))'
    BY <2>3 DEF PutOwned, Exists, t
  <2> QED
    BY <2>1, <2>4 DEF Both
<1>11. stack' = <<>>
  BY <1>1
<1> QED
  BY <1>8, <1>9, <1>10, <1>11 DEF Pending, OfCommand

LEMMA WorkStep == ASSUME BInv, P!IInv, Work PROVE BInv' /\ [P!Next]_P!vars
<1>1. Pending' /\ [P!Next]_P!vars
  BY WorkEnsureTree, WorkEnsurePending, WorkOutsideTree, WorkOutsidePending
<1> QED
  BY <1>1, WorkTypes, WorkTagsKnown DEF BInv

(* A call fails and the code goes on. *)
LEMMA QuietFacts ==
    ASSUME BInv, P!IInv, WorkQuietly
    PROVE  /\ todo \in Seq(CallSet) /\ todo # <<>> /\ todo' = Tail(todo) /\ 1 \in 1 .. Len(todo)
           /\ ErrorIgnored(todo[1]) /\ todo[1].drop = {} /\ todo[1] # Stop
           /\ \A x \in todo[1].put : x[1] # "alb"
           /\ UNCHANGED <<tag, parts, target, stack, dry, visited, made, cmd, outcome, plan, missed>>
<1>1. /\ todo # <<>> /\ ErrorIgnored(Head(todo)) /\ todo' = Tail(todo)
      /\ UNCHANGED <<tag, parts, target, stack, dry, visited, made, cmd, outcome, plan, missed>>
  BY DEF WorkQuietly, awsVars, ensureVars, history
<1>2. todo \in Seq(CallSet)
  BY DEF BInv, Types
<1> DEFINE c == todo[1]
<1>3. c = Head(todo) /\ 1 \in 1 .. Len(todo)
  BY <1>1, <1>2, TodoTail
<1>4. /\ stack = <<>> => OutsideCall(c)
      /\ stack # <<>> => EnsureCall(Top.r, c)
  BY <1>3 DEF BInv, Pending, OfCommand, InEnsure
<1>5. ErrorIgnored(c)
  BY <1>1, <1>3
<1> HIDE DEF c
<1>6. PICK q \in {"key"} \union Lambda : \E x \in c.put : x[1] = q
  BY <1>5, IgnoredPut
<1>7. "rule" \notin {"key"} \union Lambda /\ "gateway" \notin {"key"} \union Lambda
  BY Kinds, KindsApart DEF Others
<1>8. c # Stop /\ \A x \in c.put : x[1] # "alb"
  BY <1>5, <1>6, IgnoredPut, StopIsCall
<1>9. c.drop = {}
  <2>1. CASE stack # <<>>
    BY <1>4, <1>5, <1>8, <2>1 DEF EnsureCall
  <2>2. CASE stack = <<>>
    <3>1. cmd # "destroy"
      <4>1. \A x \in Old \union Of("rule", {"stale"}) : x[1] \in {"gateway", "rule"}
        BY OfFacts DEF Old
      <4>2. ~(c.put \subseteq Old \union Of("rule", {"stale"}))
        BY <1>6, <1>7, <4>1
      <4> QED
        BY <1>4, <2>2, <4>2 DEF OutsideCall
    <3> QED
      BY <1>4, <2>2, <3>1 DEF OutsideCall
  <2> QED
    BY <2>1, <2>2
<1> QED
  BY <1>1, <1>2, <1>3, <1>5, <1>8, <1>9 DEF c

LEMMA QuietPendingKept ==
    ASSUME BInv, P!IInv, WorkQuietly
    PROVE  Pending'
<1> DEFINE t == todo'  r == Top.r
<1>1. /\ todo \in Seq(CallSet) /\ todo # <<>> /\ t = Tail(todo)
      /\ ErrorIgnored(todo[1]) /\ todo[1].drop = {} /\ todo[1] # Stop
      /\ \A x \in todo[1].put : x[1] # "alb"
      /\ UNCHANGED <<tag, parts, target, stack, cmd>> /\ Top' = Top
  BY QuietFacts DEF Top
<1>2. /\ \A i \in 1 .. Len(t) : i + 1 \in 1 .. Len(todo) /\ t[i] = todo[i + 1] /\ 1 < i + 1
      /\ \A i, j \in 1 .. Len(t) : i < j => i + 1 < j + 1
      /\ \A j \in 1 .. Len(todo) : j = 1 \/ (j - 1 \in 1 .. Len(t) /\ t[j - 1] = todo[j])
      /\ t \in Seq(CallSet)
  BY <1>1, TodoTail
<1>3. (stack = <<>> => OfCommand(todo)) /\ (stack # <<>> => InEnsure(r, todo) /\ Leads(r, todo)) /\ Types
  <2>1. stack # <<>> => Top.step = "work"
    BY <1>1 DEF BInv, Control
  <2> QED
    BY <2>1 DEF BInv, Pending
<1> HIDE DEF t, r
<1>4. Clears(t) /\ \A i \in 1 .. Len(t) : PutOwned(t[i])
  <2>1. Both(todo)
    BY <1>3 DEF OfCommand, InEnsure
  <2>2. parts' \subseteq (parts \ todo[1].drop) \union todo[1].put
    BY <1>1
  <2>3. Clears(todo)'
    BY <1>1, <1>3, <2>1, <2>2, TailClears DEF Both, t
  <2>4. Clears(t)
    BY <1>1, <2>3 DEF Clears, PartsOf, t
  <2>5. \A i \in 1 .. Len(t) : PutOwned(t[i])
    BY <1>2, <2>1 DEF Both
  <2> QED
    BY <2>4, <2>5
<1>5. stack = <<>> => OfCommand(t)
  <2> SUFFICES ASSUME stack = <<>> PROVE OfCommand(t)
    OBVIOUS
  <2>1. \A i \in 1 .. Len(t) : OutsideCall(t[i])
    BY <1>2, <1>3 DEF OfCommand
  <2>2. RemovalsLast(t)
    <3>1. ASSUME NEW i \in 1 .. Len(t), NEW j \in 1 .. Len(t)
          PROVE  /\ i < j /\ t[i].r = t[j].r /\ t[i].version = 0 => t[j].version = 0
                 /\ t[i].r \in Role => t[j].r \in Role
      <4>1. /\ i + 1 \in 1 .. Len(todo) /\ j + 1 \in 1 .. Len(todo) /\ (i < j => i + 1 < j + 1)
            /\ t[i] = todo[i + 1] /\ t[j] = todo[j + 1]
        BY <1>2
      <4> QED
        BY <1>3, <4>1 DEF OfCommand, RemovalsLast
    <3> QED
      BY <3>1 DEF RemovalsLast
  <2> QED
    BY <1>4, <2>1, <2>2 DEF OfCommand, Both
<1>6. stack # <<>> => InEnsure(r, t)
  <2> SUFFICES ASSUME stack # <<>> PROVE InEnsure(r, t)
    OBVIOUS
  <2>1. \A i \in 1 .. Len(t) : EnsureCall(r, t[i])
    BY <1>2, <1>3 DEF InEnsure
  <2>2. FinalsLast(r, t)
    <3>1. ASSUME NEW i \in 1 .. Len(t), NEW j \in 1 .. Len(t), i < j, t[i].r = r, t[j].r = r,
                 t[i].version = target[r]
          PROVE  t[j].version = target[r]
      <4>1. /\ i + 1 \in 1 .. Len(todo) /\ j + 1 \in 1 .. Len(todo) /\ i + 1 < j + 1
            /\ t[i] = todo[i + 1] /\ t[j] = todo[j + 1]
        BY <1>2, <3>1
      <4> QED
        BY <1>3, <3>1, <4>1 DEF InEnsure, FinalsLast
    <3> QED
      BY <3>1 DEF FinalsLast
  <2> QED
    BY <1>4, <2>1, <2>2 DEF InEnsure, Both
<1>7. stack # <<>> => Leads(r, t)
  <2> SUFFICES ASSUME stack # <<>> PROVE Leads(r, t)
    OBVIOUS
  <2>1. Stops(todo) => Stops(t)
    BY <1>1, TailStops
  <2>2. ASSUME r \notin Grouping \union {"alb"}, ~Stops(t)
        PROVE  \/ \E i \in 1 .. Len(t) : t[i].r = r /\ t[i].version = target[r] /\ ~ErrorIgnored(t[i])
               \/ tag[r] = target[r] /\ \A i \in 1 .. Len(t) : t[i].r = r => t[i].version = target[r]
    <3>1. CASE \E i \in 1 .. Len(todo) : todo[i].r = r /\ todo[i].version = target[r] /\ ~ErrorIgnored(todo[i])
      <4>1. PICK i \in 1 .. Len(todo) : todo[i].r = r /\ todo[i].version = target[r] /\ ~ErrorIgnored(todo[i])
        BY <3>1
      <4>2. i - 1 \in 1 .. Len(t) /\ t[i - 1] = todo[i]
        BY <1>1, <1>2, <4>1
      <4> QED
        BY <4>1, <4>2
    <3>2. CASE tag[r] = target[r] /\ \A i \in 1 .. Len(todo) : todo[i].r = r => todo[i].version = target[r]
      BY <1>2, <3>2
    <3> QED
      BY <1>3, <2>1, <2>2, <3>1, <3>2 DEF Leads
  <2>3. \A p : p \in AlbParts /\ r = "alb" =>
            Has("alb", p) \/ Stops(t) \/ \E i \in 1 .. Len(t) : <<"alb", p>> \in t[i].put
    <3>1. ASSUME NEW p, p \in AlbParts, r = "alb"
          PROVE  Has("alb", p) \/ Stops(t) \/ \E i \in 1 .. Len(t) : <<"alb", p>> \in t[i].put
      <4>1. Has("alb", p) \/ Stops(todo) \/ \E i \in 1 .. Len(todo) : <<"alb", p>> \in todo[i].put
        BY <1>3, <3>1 DEF Leads
      <4>2. CASE \E i \in 1 .. Len(todo) : <<"alb", p>> \in todo[i].put
        <5>1. PICK i \in 1 .. Len(todo) : <<"alb", p>> \in todo[i].put
          BY <4>2
        <5>2. i # 1
          BY <1>1, <5>1
        <5>3. i - 1 \in 1 .. Len(t) /\ t[i - 1] = todo[i]
          BY <1>2, <5>2
        <5> QED
          BY <5>1, <5>3
      <4> QED
        BY <2>1, <4>1, <4>2
    <3> QED
      BY <3>1
  <2> QED
    BY <2>2, <2>3 DEF Leads
<1>8. (stack = <<>> => OfCommand(todo))'
  BY <1>1, <1>5, CommandSame DEF t
<1>9. (stack # <<>> => InEnsure(Top.r, todo) /\ Leads(Top.r, todo))'
  <2>1. CASE stack # <<>>
    <3>1. Fine(r, t) /\ Top'.r = r /\ todo' = t
      BY <1>1, <1>6, <1>7, <2>1 DEF Fine, r, t
    <3>2. InEnsure(Top.r, todo)' /\ Leads(Top.r, todo)'
      BY <1>1, <3>1, EnsureSame
    <3> QED
      BY <3>2
  <2> QED
    BY <1>1, <2>1
<1> QED
  BY <1>8, <1>9 DEF Pending

LEMMA WorkQuietlyStep == ASSUME BInv, P!IInv, WorkQuietly PROVE BInv' /\ [P!Next]_P!vars
<1>1. /\ todo \in Seq(CallSet) /\ todo # <<>> /\ todo' = Tail(todo)
      /\ UNCHANGED <<tag, parts, target, stack, dry, visited, made, cmd, outcome, plan, missed>>
      /\ Top' = Top /\ outcome = "running"
  BY QuietFacts DEF Top, BInv, Control
<1>2. todo' \in Seq(CallSet)
  BY <1>1, TodoTail
<1>3. Types'
  BY <1>1, <1>2 DEF BInv, Types
<1>4. TagsKnown' /\ Owned'
  BY <1>1 DEF BInv, TagsKnown, Owned, Exists
<1>5. Control'
  BY <1>1 DEF BInv, Control
<1>6. (outcome = "running" => PlanKnown)'
  BY <1>1 DEF BInv, PlanKnown, EndOf
<1>7. Position'
  BY <1>1 DEF BInv, Position
<1>8. Dep' = Dep
  BY <1>1, DepSame DEF BInv, Has
<1>9. [P!Next]_P!vars
  BY <1>1, <1>8, TreeStays
<1> QED
  BY <1>3, <1>4, <1>5, <1>6, <1>7, <1>9, QuietPendingKept DEF BInv

-----------------------------------------------------------------------------
LEMMA InitStep == Init => BInv /\ P!Init
<1> SUFFICES ASSUME Init PROVE BInv /\ P!Init
  OBVIOUS
<1>1. /\ tag = [r \in Resource |-> 0] /\ parts = {} /\ target = [r \in Resource |-> 1] /\ made = FALSE
      /\ cmd = "none" /\ outcome = "none" /\ plan = <<>> /\ stack = <<>> /\ dry = FALSE /\ todo = <<>>
      /\ visited = {} /\ missed = {}
  BY DEF Init
<1>2. Types
  <2>1. tag \in [Resource -> 0 .. 2] /\ target \in [Resource -> {1, 2}]
    BY <1>1
  <2>2. todo \in Seq(CallSet)
    BY <1>1, EmptySeq
  <2> QED
    BY <1>1, <2>1, <2>2 DEF Types
<1>3. TagsKnown
  <2>1. Grouping \union {"alb"} \subseteq Resource
    BY Kinds DEF Others
  <2> QED
    BY <1>1, <2>1 DEF TagsKnown
<1>4. Control
  BY <1>1 DEF Control
<1>5. Pending
  BY <1>1, EmptyFine DEF Pending
<1>6. Owned /\ Position
  BY <1>1 DEF Owned, Position
<1>7. P!Init
  <2>1. AlbIsWhole = FALSE
    BY <1>1 DEF AlbIsWhole, AlbParts, Has
  <2>2. Dep = [r \in Resource |-> 0]
    BY <1>1, <1>2, <2>1, DepFacts DEF Dep, Deployed
  <2> QED
    BY <1>1, <2>2 DEF P!Init, Dep
<1> QED
  BY <1>1, <1>2, <1>3, <1>4, <1>5, <1>6, <1>7 DEF BInv

(* One step per action. *)
LEMMA NextStep == ASSUME BInv, P!IInv, [Next]_vars PROVE BInv' /\ [P!Next]_P!vars
<1>1. CASE UNCHANGED vars
  <2>1. UNCHANGED <<tag, parts, target, stack, dry, visited, made, cmd, outcome, plan, todo, missed>>
    BY <1>1 DEF vars, awsVars, ensureVars, history
  <2>2. BInv'
    <3>1. Types' /\ TagsKnown' /\ Owned' /\ (outcome = "running" => PlanKnown)'
      BY <2>1 DEF BInv, Types, TagsKnown, Owned, PlanKnown, EndOf, Exists
    <3>2. Control' /\ Position'
      BY <2>1 DEF BInv, Control, Position, Top, Has
    <3>3. Pending'
      <4>1. OfCommand(todo) => OfCommand(todo)'
        BY <2>1, CommandSame
      <4>2. Top' = Top
        BY <2>1 DEF Top
      <4>3. InEnsure(Top.r, todo) => InEnsure(Top.r, todo)'
        <5>1. Both(todo) => Both(todo)'
          BY <2>1, BothSame
        <5> QED
          BY <2>1, <4>2, <5>1 DEF InEnsure, EnsureCall, FinalsLast, ErrorIgnored
      <4>4. Leads(Top.r, todo) => Leads(Top.r, todo)'
        BY <2>1, <4>2 DEF Leads, Stops, ErrorIgnored, Has
      <4> QED
        BY <2>1, <4>1, <4>2, <4>3, <4>4 DEF BInv, Pending
    <3> QED
      BY <3>1, <3>2, <3>3 DEF BInv
  <2>3. Dep' = Dep
    BY <2>1, DepSame DEF BInv, Has
  <2> QED
    BY <2>1, <2>2, <2>3, TreeStays
<1>2. CASE ImportCluster
  BY <1>2, ImportStep
<1>3. CASE UpdateCluster
  BY <1>3, UpdateStep
<1>4. CASE Destroy
  BY <1>4, DestroyStep
<1>5. CASE Ensure
  BY <1>5, EnsureStep
<1>6. CASE Proceed
  BY <1>6, ProceedStep
<1>7. CASE Finish
  BY <1>7, FinishStep
<1>8. CASE Descend
  BY <1>8, DescendStep
<1>9. CASE Fetch
  BY <1>9, FetchStep
<1>10. CASE Work
  BY <1>10, WorkStep
<1>11. CASE WorkQuietly
  BY <1>11, WorkQuietlyStep
<1>12. CASE Worked
  BY <1>12, WorkedStep
<1>13. CASE Return
  BY <1>13, ReturnStep
<1>14. CASE Upgrade
  BY <1>14, UpgradeStep
<1>15. CASE Abort \/ FetchStuck \/ WorkStops \/ CleanerStuck
  BY <1>15, EndingStep
<1> QED
  BY <1>1, <1>2, <1>3, <1>4, <1>5, <1>6, <1>7, <1>8, <1>9, <1>10, <1>11, <1>12, <1>13, <1>14, <1>15 DEF Next

IInv == BInv /\ P!IInv

(* The inductive invariant of import, update and destroy: what the calls   *)
(* that remain can do, and where EnsureResource is.                        *)
THEOREM IInvCorrect == Spec => []IInv
<1>1. Init => IInv
  BY InitStep, TreeInit DEF IInv
<1>2. IInv /\ [Next]_vars => IInv'
  BY NextStep, TreeStep DEF IInv
<1> QED
  BY <1>1, <1>2, PTL DEF Spec

(***************************************************************************)
(* TreeSpec: EnsureResource of every command, whatever it creates, updates *)
(* and deletes, fails or finds, is EnsureResource of ResourceTree.         *)
(***************************************************************************)
THEOREM ImplementsTree == Spec => TreeSpec
<1>1. Init => Tree!Init
  BY InitStep, SameSpec
<1>2. IInv /\ [Next]_vars => [Tree!Next]_Tree!vars
  BY NextStep, SameSpec DEF IInv
<1> QED
  BY <1>1, <1>2, IInvCorrect, PTL DEF Spec, TreeSpec, Tree!Spec

(* The types of the variables. *)
THEOREM TypeCorrect == Spec => []TypeOK
<1>1. IInv => TypeOK
  <2> SUFFICES ASSUME IInv PROVE TypeOK
    OBVIOUS
  <2>1. Types /\ visited \subseteq Resource /\ dry \in BOOLEAN
    BY DEF IInv, BInv, P!IInv, P!TypeOK
  <2>2. \A x \in parts : x[1] \in Resource
    BY <2>1, PartFacts DEF Types
  <2>3. \A i \in DOMAIN todo : todo[i] = Stop \/ todo[i].r \in Resource
    <3>1. DOMAIN todo = 1 .. Len(todo)
      BY <2>1 DEF Types
    <3>2. \A i \in 1 .. Len(todo) : OutsideCall(todo[i]) \/ EnsureCall(Top.r, todo[i])
      BY DEF IInv, BInv, Pending, OfCommand, InEnsure
    <3>3. stack # <<>> => Top.r \in Resource
      BY StackFacts DEF IInv
    <3>4. ASSUME NEW c, c \in CallSet, OutsideCall(c) \/ EnsureCall(Top.r, c)
          PROVE  c = Stop \/ c.r \in Resource
      BY <3>4 DEF CallSet, OutsideCall, EnsureCall
    <3>5. \A i \in 1 .. Len(todo) : todo[i] \in CallSet
      BY <2>1, ElementOfSeq DEF Types
    <3> QED
      BY <3>1, <3>2, <3>4, <3>5
  <2>4. cmd \in Commands \union {"none"} /\ outcome \in {"none", "running", "ok", "aborted", "stuck"}
        /\ tag \in [Resource -> 0 .. 2] /\ made \in BOOLEAN
    BY <2>1 DEF Types
  <2> QED
    BY <2>1, <2>2, <2>3, <2>4 DEF TypeOK
<1> QED
  BY <1>1, IInvCorrect, PTL

-----------------------------------------------------------------------------
(* A command changes AWS only by its calls. *)
LEMMA OnlyWork ==
    ASSUME [Next]_vars, outcome = "running", ~Work
    PROVE  UNCHANGED <<tag, parts>>
<1>1. CASE UNCHANGED vars
  BY <1>1 DEF vars, awsVars
<1>2. ~Ready
  BY DEF Ready
<1>3. ~ImportCluster /\ ~UpdateCluster /\ ~Destroy /\ ~Upgrade
  BY <1>2 DEF ImportCluster, UpdateCluster, Destroy, Begins, Refused, Upgrade
<1>4. CASE Ensure \/ Proceed \/ Finish \/ Descend \/ Fetch \/ WorkQuietly \/ Worked \/ Return
  BY <1>4 DEF Ensure, Proceed, Finish, Descend, Fetch, WorkQuietly, Worked, Return, awsVars
<1>5. CASE CleanerStuck \/ FetchStuck \/ WorkStops \/ Abort
  BY <1>5 DEF CleanerStuck, FetchStuck, WorkStops, Abort, Ends, awsVars
<1> QED
  BY <1>1, <1>3, <1>4, <1>5 DEF Next

(* Below the table there is the key alone. *)
LEMMA TableTree ==
    ASSUME P!IInv, stack # <<>>, stack[1].r = "table"
    PROVE  Top.r \in {"table", "key"}
<1>1. Len(stack) \in Nat \ {0} /\ stack \in Seq(P!Frame) /\ Top = stack[Len(stack)]
  BY StackFacts
<1>2. "table" \in Resource /\ "key" \in Resource /\ "table" \notin Role \union Lambda /\ "key" \notin Role \union Lambda
  BY Kinds, KindsApart DEF Others
<1>3. Sub["table"] = <<"key">> /\ Sub["key"] = <<>>
  BY <1>2 DEF Sub
<1>4. /\ \A i \in 1 .. Len(stack) - 1 : /\ stack[i].done < Len(Sub[stack[i].r])
                                         /\ stack[i + 1].r = Sub[stack[i].r][stack[i].done + 1]
      /\ \A i \in 1 .. Len(stack) : stack[i].done \in Nat
  <2>1. \A i \in 1 .. Len(stack) : stack[i] \in P!Frame
    BY <1>1, ElementOfSeq
  <2> QED
    BY <2>1 DEF P!IInv, P!Calls, P!CallsChained, P!Frame
<1> DEFINE n == Len(stack)
<1>9. n \in Nat \ {0} /\ n = Len(stack)
  BY <1>1
<1> HIDE DEF n
<1>5. CASE n = 1
  BY <1>1, <1>5, <1>9
<1>6. CASE n # 1
  <2>1. 1 \in 1 .. n - 1 /\ 1 \in 1 .. n /\ 1 + 1 = 2
    BY <1>6, <1>9
  <2>2. stack[1].done < Len(<<"key">>) /\ stack[1].done \in Nat /\ stack[2].r = <<"key">>[stack[1].done + 1]
    BY <1>3, <1>4, <1>9, <2>1
  <2>3. stack[1].done = 0
    BY <2>2
  <2>4. stack[2].r = "key"
    BY <2>2, <2>3
  <2>5. CASE n = 2
    BY <1>1, <1>9, <2>4, <2>5
  <2>6. CASE n # 2
    <3>1. 2 \in 1 .. n - 1 /\ 2 \in 1 .. n
      BY <1>6, <1>9, <2>6
    <3>2. stack[2].done < Len(<<>>) /\ stack[2].done \in Nat
      BY <1>3, <1>4, <1>9, <2>4, <3>1
    <3> QED
      BY <3>2
  <2> QED
    BY <2>5, <2>6
<1> QED
  BY <1>5, <1>6

(* A call of a dry run. *)
LEMMA DryCall ==
    ASSUME IInv, Work, cmd = "dryUpdate"
    PROVE  /\ \A r \in Resource \ {"table", "key"} : tag'[r] = tag[r]
           /\ \A x : x \in Of("asg", {"targetGroup"}) \/ x[1] \in {"table", "key"} \/ (x \in parts' <=> x \in parts)
<1> DEFINE c == todo[1]
<1>1. /\ c.r \in Resource /\ c # Stop /\ todo # <<>>
      /\ \A q \in Resource : tag'[q] = IF q = c.r THEN c.version ELSE tag[q]
      /\ parts' = (parts \ c.drop) \union c.put
      /\ stack = <<>> => OutsideCall(c)
      /\ stack # <<>> => EnsureCall(Top.r, c)
  BY WorkFacts DEF IInv
<1> HIDE DEF c
<1>2. SUFFICES /\ c.r \notin {"table", "key"} => c.version = tag[c.r]
               /\ \A x \in c.put \union c.drop : x \in Of("asg", {"targetGroup"}) \/ x[1] \in {"table", "key"}
  BY <1>1
<1>3. CASE stack = <<>>
  <2>1. c.r = "table" /\ c.drop = {} /\ \A x \in c.put : x[1] = c.r
    BY <1>1, <1>3 DEF OutsideCall
  <2> QED
    BY <2>1
<1>4. CASE stack # <<>> /\ dry
  <2>1. Top.r \in Grouping
    <3>1. Top.step = "work"
      BY <1>1, <1>4 DEF IInv, BInv, Control
    <3> QED
      BY <1>4, <3>1, StackFacts DEF IInv, P!IInv, P!TagsRight, P!DryWork
  <2>2. Top.r # "gateway" /\ Top.r # "alb" /\ Top.r \in Resource /\ tag[Top.r] = 0
    BY <2>1, Kinds DEF Grouping, IInv, BInv, TagsKnown
  <2>3. c.r = Top.r /\ c.version = 0 /\ c.drop = {} /\ c.put \subseteq Of("asg", {"targetGroup"})
    BY <1>1, <1>4, <2>1, <2>2 DEF EnsureCall
  <2> QED
    BY <2>2, <2>3
<1>5. CASE stack # <<>> /\ ~dry
  <2>1. stack[1].r = "table"
    BY <1>5 DEF IInv, BInv, Position
  <2>2. Top.r \in {"table", "key"}
    BY <1>5, <2>1, TableTree DEF IInv
  <2>3. c.r = Top.r /\ \A x \in c.put \union c.drop : x[1] = Top.r
    BY <1>1, <1>5, <2>2 DEF EnsureCall, Touched
  <2> QED
    BY <2>2, <2>3
<1> QED
  BY <1>3, <1>4, <1>5

(***************************************************************************)
(* DryRunKeepsResources: a dry run of update changes nothing but the       *)
(* table, its key and the target group of the Auto Scaling group.          *)
(***************************************************************************)
THEOREM DryRunCorrect == Spec => DryRunKeepsResources
<1>1. IInv /\ [Next]_vars =>
        [cmd = "dryUpdate" /\ outcome = "running" =>
           /\ \A r \in Resource \ {"table", "key"} : tag'[r] = tag[r]
           /\ parts \ DryRunTouches = parts' \ DryRunTouches']_vars
  <2> SUFFICES ASSUME IInv, [Next]_vars, cmd = "dryUpdate", outcome = "running"
               PROVE  /\ \A r \in Resource \ {"table", "key"} : tag'[r] = tag[r]
                      /\ parts \ DryRunTouches = parts' \ DryRunTouches'
    OBVIOUS
  <2>1. /\ \A r \in Resource \ {"table", "key"} : tag'[r] = tag[r]
        /\ \A x : x \in Of("asg", {"targetGroup"}) \/ x[1] \in {"table", "key"} \/ (x \in parts' <=> x \in parts)
    BY DryCall, OnlyWork
  <2>2. parts \ DryRunTouches = {x \in parts : x \notin Of("asg", {"targetGroup"}) /\ x[1] \notin {"table", "key"}}
    BY DEF DryRunTouches, PartsOf
  <2>3. parts' \ DryRunTouches' = {x \in parts' : x \notin Of("asg", {"targetGroup"}) /\ x[1] \notin {"table", "key"}}
    BY DEF DryRunTouches, PartsOf, Of
  <2> QED
    BY <2>1, <2>2, <2>3
<1> QED
  BY <1>1, IInvCorrect, PTL DEF Spec, DryRunKeepsResources

-----------------------------------------------------------------------------
(***************************************************************************)
(* The calls of the cleaners.  A step of destroy is about some resources:  *)
(* each call is about one of them, what is found of them is removed, and   *)
(* the parts that belong together are dropped together.                    *)
(***************************************************************************)
Setting == <<"table", "settings">>
Record == <<"alb", "record">>
Policy == <<"join", "policy">>
Permission == <<"join", "permission">>

Cleaned(s) ==
    CASE s = "iam" -> Role
      [] s = "lambdas" -> Lambda
      [] s \in {"gateway", "lt", "sm", "rule", "asg"} -> {s}
      [] s = "db" -> {"table"}
      [] s = "kms" -> {"key"}
      [] OTHER -> {}
CleanedAlb(s) ==
    CASE s = "record" -> {"record"} [] s = "alb" -> {"lb", "tg", "listener"} [] OTHER -> {}
About(s) == IF s \in {"record", "alb"} THEN {"alb"} ELSE Cleaned(s)

Tidy(c) ==
    /\ Has("rule", "again") /\ (<<"rule", "target">> \in c.drop \/ <<"rule", "stale">> \in c.drop) =>
          <<"rule", "again">> \in c.drop
    /\ Permission \in c.drop /\ Policy \in parts => Policy \in c.drop \/ c.r = "gateway"

LEMMA CleanedIs ==
    /\ Cleaned("record") = {} /\ Cleaned("alb") = {} /\ Cleaned("iam") = Role /\ Cleaned("lambdas") = Lambda
    /\ Cleaned("gateway") = {"gateway"} /\ Cleaned("lt") = {"lt"} /\ Cleaned("sm") = {"sm"}
    /\ Cleaned("rule") = {"rule"} /\ Cleaned("asg") = {"asg"} /\ Cleaned("db") = {"table"}
    /\ Cleaned("kms") = {"key"}
    /\ CleanedAlb("record") = {"record"} /\ CleanedAlb("alb") = {"lb", "tg", "listener"}
    /\ \A s : s \notin {"record", "alb"} => CleanedAlb(s) = {}
    /\ About("record") = {"alb"} /\ About("alb") = {"alb"}
    /\ \A s : s \notin {"record", "alb"} => About(s) = Cleaned(s)
BY DEF Cleaned, CleanedAlb, About


(* A call that drops no part of the rule or the join lambda is tidy. *)
LEMMA TidyElsewhere ==
    ASSUME NEW c, \A x \in c.drop : x[1] \notin {"rule", "join"}
    PROVE  Tidy(c)
BY DEF Tidy, Permission

LEMMA RemovesTidy ==
    ASSUME Types, NEW r \in Resource
    PROVE  Tidy(Removes(r)) /\ Removes(r).r = r /\ Removes(r).version = 0
<1>1. {} \subseteq Names(r)
  OBVIOUS
<1>2. Removes(r).drop = PartsOf(r) /\ Removes(r).r = r /\ Removes(r).version = 0
  BY <1>1, Calls
<1>3. Tidy(Removes(r))
  BY <1>2 DEF Tidy, PartsOf, Has, Permission, Policy
<1> QED
  BY <1>2, <1>3

LEMMA DropsTidy ==
    ASSUME Types, NEW r \in Resource, NEW ps, ps \subseteq Names(r), r = "rule" => ps = RuleTargets, r # "join"
    PROVE  Tidy(Drops(r, ps)) /\ Drops(r, ps).r = r
<1>1. Drops(r, ps).drop = Of(r, ps) /\ Drops(r, ps).r = r
  BY Calls
<1>2. CASE r = "rule"
  <2>1. <<"rule", "again">> \in Drops(r, ps).drop
    BY <1>1, <1>2, OfFacts DEF RuleTargets
  <2>2. Permission \notin Drops(r, ps).drop
    BY <1>1, <1>2, OfFacts DEF Permission
  <2> QED
    BY <1>1, <2>1, <2>2 DEF Tidy
<1>3. CASE r # "rule"
  BY <1>1, <1>3, OfFacts, TidyElsewhere
<1> QED
  BY <1>1, <1>2, <1>3

(* Each call is about a resource of the step, and tidy. *)
Keeps(step, s) == \A i \in 1 .. Len(s) : s[i].r \in About(step) /\ Tidy(s[i])

LEMMA KeepsWhen ==
    ASSUME NEW step, NEW s, NEW condition, condition => Keeps(step, s)
    PROVE  Keeps(step, When(condition, s))
BY DEF Keeps, When

LEMMA RemovesKeeps ==
    ASSUME Types, NEW r \in Resource, r # "join", NEW step, r \in About(step), NEW ps, ps \subseteq Names(r),
           r = "rule" => ps = RuleTargets
    PROVE  Keeps(step, <<Removes(r)>>) /\ Keeps(step, <<Drops(r, ps), Removes(r)>>)
<1>1. Tidy(Removes(r)) /\ Removes(r).r = r
  BY RemovesTidy
<1>2. Tidy(Drops(r, ps)) /\ Drops(r, ps).r = r
  BY DropsTidy
<1> DEFINE c == Drops(r, ps)  d == Removes(r)
<1> HIDE DEF c, d
<1>3. Keeps(step, <<d>>) /\ Keeps(step, <<c, d>>)
  BY <1>1, <1>2 DEF Keeps, c, d
<1> QED
  BY <1>3 DEF c, d

LEMMA AlbKeeps ==
    ASSUME NEW step \in {"record", "alb"}, NEW s, \A i \in 1 .. Len(s) : AlbDrop(s[i])
    PROVE  Keeps(step, s)
BY CleanedIs, TidyElsewhere DEF Keeps, AlbDrop

LEMMA RolesKeep ==
    ASSUME Types, Owned, cmd = "destroy", NEW found \in SUBSET Role, \A r \in found : Exists(r)
    PROVE  Keeps("iam", DeleteRoles(found))
<1> DEFINE s == DeleteRoles(found)
<1>1. \A i \in 1 .. Len(s) : \E r \in found : s[i] = DeleteIamRole(r)[1] \/ s[i] = DeleteIamRole(r)[2]
  BY RolesFine
<1> HIDE DEF s
<1>2. ASSUME NEW r \in found
      PROVE  LET c == DeleteIamRole(r)[1]  d == DeleteIamRole(r)[2] IN
             c.r \in Role /\ d.r \in Role /\ Tidy(c) /\ Tidy(d)
  <2> DEFINE c == DeleteIamRole(r)[1]  d == DeleteIamRole(r)[2]
  <2>1. r \in Role /\ Exists(r)
    BY <1>2
  <2>2. /\ c.r = r /\ c.drop = Of(r, {"policy"}) /\ d.r = r
        /\ <<"rule", "target">> \in d.drop => <<"rule", "again">> \in d.drop
        /\ \A x \in d.drop : x[1] = "rule" => x \in Of("rule", {"target", "again"})
        /\ \A x \in d.drop : x[1] # "rule" => x[2] = "role"
    BY <2>1, RoleCalls
  <2> HIDE DEF c, d
  <2>3. Tidy(c)
    <3>1. r \notin {"rule", "join"}
      BY <2>1, Kinds, KindsApart DEF Others
    <3> QED
      BY <2>2, <3>1, OfFacts, TidyElsewhere
  <2>4. Tidy(d)
    <3>1. <<"rule", "stale">> \notin d.drop
      BY <2>2, OfFacts
    <3>2. Permission \notin d.drop
      BY <2>2 DEF Permission
    <3> QED
      BY <2>2, <3>1, <3>2 DEF Tidy
  <2>5. c.r \in Role /\ d.r \in Role
    BY <2>1, <2>2
  <2> QED
    BY <2>3, <2>4, <2>5 DEF c, d
<1>3. Keeps("iam", s)
  BY <1>1, <1>2, CleanedIs DEF Keeps
<1> QED
  BY <1>3 DEF s

LEMMA LambdasKeep ==
    ASSUME Types, cmd = "destroy", NEW found \in SUBSET Lambda
    PROVE  Keeps("lambdas", DeleteLambdas(found))
<1> DEFINE s == DeleteLambdas(found)
<1>1. \A i \in 1 .. Len(s) : \E l \in found : s[i] = Removes(l)
  BY LambdasFine
<1> HIDE DEF s
<1>2. \A l \in found : Removes(l).r \in Lambda /\ Tidy(Removes(l))
  BY Kinds, RemovesTidy
<1>3. Keeps("lambdas", s)
  BY <1>1, <1>2, CleanedIs DEF Keeps
<1> QED
  BY <1>3 DEF s

LEMMA GatewayKeeps ==
    ASSUME Types
    PROVE  Keeps("gateway", DeleteRestApiGateway)
<1> DEFINE s == DeleteRestApiGateway
<1>1. \A i \in 1 .. Len(s) : GatewayRemoval(s[i])
  BY RemovesGateway
<1> HIDE DEF s
<1>2. ASSUME NEW c, GatewayRemoval(c)
      PROVE  c.r = "gateway" /\ Tidy(c)
  <2>1. \A x \in c.drop : x[1] # "rule"
    BY <1>2 DEF GatewayRemoval
  <2>2. c.r = "gateway"
    BY <1>2 DEF GatewayRemoval
  <2>3. <<"rule", "target">> \notin c.drop /\ <<"rule", "stale">> \notin c.drop
    BY <2>1
  <2> QED
    BY <2>2, <2>3 DEF Tidy
<1>3. Keeps("gateway", s)
  BY <1>1, <1>2, CleanedIs DEF Keeps
<1> QED
  BY <1>3 DEF s

(* A resource is removed by one of its calls. *)
Removing(s, r) == \E i \in 1 .. Len(s) : s[i].r = r /\ s[i].version = 0

LEMMA RemovesRemoves ==
    ASSUME Types, NEW r \in Resource, NEW c
    PROVE  Removing(<<Removes(r)>>, r) /\ Removing(<<c, Removes(r)>>, r)
<1> DEFINE d == Removes(r)
<1>1. d.r = r /\ d.version = 0
  BY RemovesTidy
<1> HIDE DEF d
<1>2. Len(<<d>>) = 1 /\ <<d>>[1] = d /\ Len(<<c, d>>) = 2 /\ <<c, d>>[2] = d
  OBVIOUS
<1>3. Removing(<<d>>, r) /\ Removing(<<c, d>>, r)
  BY <1>1, <1>2 DEF Removing
<1> QED
  BY <1>3 DEF d

LEMMA WhenRemoves ==
    ASSUME NEW r, NEW s, NEW condition, condition, Removing(s, r)
    PROVE  Removing(When(condition, s), r)
BY DEF When

(* The load balancer and its parts. *)
Dropping(s, p) == \E i \in 1 .. Len(s) : <<"alb", p>> \in s[i].drop

LEMMA AlbDropping ==
    ASSUME Types, TagsKnown
    PROVE  /\ \A i \in 1 .. Len(DeleteAlb) : AlbDrop(DeleteAlb[i])
           /\ Dns => \A i \in 1 .. Len(DeleteRoute53Record) : AlbDrop(DeleteRoute53Record[i])
           /\ \A p : p \in {"lb", "tg", "listener"} /\ Has("alb", p) => Dropping(DeleteAlb, p)
           /\ Dns /\ Has("alb", "record") => Dropping(DeleteRoute53Record, "record")
<1> DEFINE a == DeleteListener  b == DeleteApplicationLoadBalancer  c == DeleteTargetGroup
<1>1. {"listener"} \subseteq AlbParts /\ {"lb", "listener"} \subseteq AlbParts /\ {"tg"} \subseteq AlbParts
      /\ (Dns => {"record"} \subseteq AlbParts)
  BY DEF AlbParts
<1>2. /\ a \in Seq(CallSet) /\ b \in Seq(CallSet) /\ c \in Seq(CallSet)
      /\ \A i \in 1 .. Len(a) : AlbDrop(a[i])
      /\ \A i \in 1 .. Len(b) : AlbDrop(b[i])
      /\ \A i \in 1 .. Len(c) : AlbDrop(c[i])
  BY <1>1, AlbWhenDrops DEF DeleteListener, DeleteApplicationLoadBalancer, DeleteTargetGroup
<1>3. Dns => \A i \in 1 .. Len(DeleteRoute53Record) : AlbDrop(DeleteRoute53Record[i])
  BY <1>1, AlbWhenDrops DEF DeleteRoute53Record
<1>4. ASSUME NEW ps, ps \subseteq AlbParts, NEW p \in ps, NEW condition, condition
      PROVE  Dropping(When(condition, <<Drops("alb", ps)>>), p)
  <2>1. "alb" \in Resource
    BY Kinds DEF Others
  <2>2. Drops("alb", ps).drop = Of("alb", ps)
    BY <1>4, <2>1, NamesOf, Calls
  <2> DEFINE d == Drops("alb", ps)
  <2>3. <<"alb", p>> \in d.drop
    BY <1>4, <2>2, OfFacts
  <2> HIDE DEF d
  <2>4. Dropping(<<d>>, p)
    BY <2>3 DEF Dropping
  <2> QED
    BY <1>4, <2>4 DEF When, d
<1>5. Has("alb", "listener") => Dropping(a, "listener")
  BY <1>1, <1>4 DEF DeleteListener
<1>6. Has("alb", "lb") => Dropping(b, "lb")
  BY <1>1, <1>4 DEF DeleteApplicationLoadBalancer
<1>7. Has("alb", "tg") => Dropping(c, "tg")
  BY <1>1, <1>4 DEF DeleteTargetGroup
<1>8. Dns /\ Has("alb", "record") => Dropping(DeleteRoute53Record, "record")
  BY <1>1, <1>4 DEF DeleteRoute53Record
<1>9. DeleteAlb = a \o b \o c
  BY DEF DeleteAlb
<1> HIDE DEF a, b, c
<1> DEFINE ab == a \o b
<1>10. /\ ab \in Seq(CallSet)
       /\ \A i \in 1 .. Len(ab) : AlbDrop(ab[i])
       /\ \A p : Dropping(a, p) \/ Dropping(b, p) => Dropping(ab, p)
  <2>1. ab \in Seq(CallSet) /\ Splits(a, b, ab)
    BY <1>2, ConcatSplits
  <2> HIDE DEF ab
  <2>2. \A i \in 1 .. Len(ab) : AlbDrop(ab[i])
    BY <1>2, <2>1 DEF Splits
  <2>3. \A p : Dropping(a, p) \/ Dropping(b, p) => Dropping(ab, p)
    BY <2>1 DEF Splits, Dropping
  <2> QED
    BY <2>1, <2>2, <2>3
<1> HIDE DEF ab
<1> DEFINE abc == ab \o c
<1>11. /\ \A i \in 1 .. Len(abc) : AlbDrop(abc[i])
       /\ \A p : Dropping(ab, p) \/ Dropping(c, p) => Dropping(abc, p)
  <2>1. Splits(ab, c, abc)
    BY <1>2, <1>10, ConcatSplits
  <2> HIDE DEF abc
  <2>2. \A i \in 1 .. Len(abc) : AlbDrop(abc[i])
    BY <1>2, <1>10, <2>1 DEF Splits
  <2>3. \A p : Dropping(ab, p) \/ Dropping(c, p) => Dropping(abc, p)
    BY <2>1 DEF Splits, Dropping
  <2> QED
    BY <2>2, <2>3
<1>12. DeleteAlb = abc
  BY <1>9 DEF ab, abc
<1> HIDE DEF abc
<1> QED
  BY <1>3, <1>5, <1>6, <1>7, <1>8, <1>10, <1>11, <1>12

LEMMA RolesRemoved ==
    ASSUME Types, Owned, cmd = "destroy", NEW found \in SUBSET Role, \A r \in found : Exists(r)
    PROVE  \A r \in found : Removing(DeleteRoles(found), r)
<1> DEFINE s == DeleteRoles(found)
<1>1. \A r \in found : \E i \in 1 .. Len(s) : s[i].r = r /\ s[i].version = 0
  BY RolesFine
<1> HIDE DEF s
<1>2. \A r \in found : Removing(s, r)
  BY <1>1 DEF Removing
<1> QED
  BY <1>2 DEF s

LEMMA LambdasRemoved ==
    ASSUME Types, cmd = "destroy", NEW found \in SUBSET Lambda
    PROVE  \A l \in found : Removing(DeleteLambdas(found), l)
<1> DEFINE s == DeleteLambdas(found)
<1>1. \A l \in found : \E i \in 1 .. Len(s) : s[i] = Removes(l)
  BY LambdasFine
<1> HIDE DEF s
<1>2. \A l \in found : Removes(l).r = l /\ Removes(l).version = 0
  BY Kinds, RemovesTidy
<1>3. \A l \in found : Removing(s, l)
  BY <1>1, <1>2 DEF Removing
<1> QED
  BY <1>3 DEF s

LEMMA OneCleaned ==
    ASSUME NEW step, NEW r, Cleaned(step) = {r}, CleanedAlb(step) = {}, NEW s, NEW condition, NEW left,
           Exists(r) => r \in left \/ condition, Keeps(step, s), Removing(s, r)
    PROVE  LET t == When(condition, s) IN
           /\ Keeps(step, t)
           /\ \A q \in Cleaned(step) : Exists(q) => q \in left \/ Removing(t, q)
           /\ \A p : p \in CleanedAlb(step) /\ Has("alb", p) => Dropping(t, p)
<1>1. Keeps(step, When(condition, s))
  BY KeepsWhen
<1>2. condition => Removing(When(condition, s), r)
  BY WhenRemoves
<1> QED
  BY <1>1, <1>2

LEMMA CleanCalls ==
    ASSUME Types, TagsKnown, Owned, cmd = "destroy", NEW step \in Clean, NEW left, step = "record" => Dns,
           NEW s \in Steps(step, Listing(step, left))
    PROVE  /\ Keeps(step, s)
           /\ \A r \in Cleaned(step) : Exists(r) => r \in left \/ Removing(s, r)
           /\ \A p : p \in CleanedAlb(step) /\ Has("alb", p) => Dropping(s, p)
<1> DEFINE found == Listing(step, left)
<1>1. \A r \in found : Exists(r)
  BY ListingFacts
<1>2. {"sm", "rule", "gateway", "lt", "asg", "alb", "table", "key"} \subseteq Resource /\ "join" \notin Others
      /\ Role \subseteq Resource /\ Lambda \subseteq Resource
  BY Kinds, KindsApart DEF Others
<1>3. "join" \notin {"sm", "rule", "gateway", "lt", "asg", "alb", "table", "key"}
  BY <1>2 DEF Others
<1>4. /\ {} \subseteq Names("rule") /\ RuleTargets \subseteq Names("rule") /\ {"instances"} \subseteq Names("asg")
      /\ {"alias"} \subseteq Names("key") /\ \A r : {} \subseteq Names(r)
  BY NamesOf
<1>5. CASE step = "record"
  <2>1. s = DeleteRoute53Record /\ Dns /\ Cleaned(step) = {} /\ CleanedAlb(step) = {"record"}
    BY <1>5, CleanedIs DEF Steps
  <2> QED
    BY <1>5, <2>1, AlbDropping, AlbKeeps
<1>6. CASE step = "alb"
  <2>1. s = DeleteAlb /\ Cleaned(step) = {} /\ CleanedAlb(step) = {"lb", "tg", "listener"}
    BY <1>6, CleanedIs DEF Steps
  <2> QED
    BY <1>6, <2>1, AlbDropping, AlbKeeps
<1>7. CASE step = "iam"
  <2>1. s = DeleteRoles(found) /\ found = {r \in Role : Exists(r)} \ left /\ Cleaned(step) = Role /\ CleanedAlb(step) = {}
    BY <1>7, CleanedIs, ListingFacts DEF Steps
  <2> HIDE DEF found
  <2>2. Keeps("iam", DeleteRoles(found))
    BY <1>1, <2>1, RolesKeep
  <2>3. \A r \in found : Removing(DeleteRoles(found), r)
    BY <1>1, <2>1, RolesRemoved
  <2> QED
    BY <1>7, <2>1, <2>2, <2>3
<1>8. CASE step = "lambdas"
  <2>1. s = DeleteLambdas(found) /\ found = {r \in Lambda : Exists(r)} \ left /\ Cleaned(step) = Lambda
        /\ CleanedAlb(step) = {}
    BY <1>8, CleanedIs, ListingFacts DEF Steps
  <2> HIDE DEF found
  <2>2. Keeps("lambdas", DeleteLambdas(found))
    BY <2>1, LambdasKeep
  <2>3. \A l \in found : Removing(DeleteLambdas(found), l)
    BY <2>1, LambdasRemoved
  <2> QED
    BY <1>8, <2>1, <2>2, <2>3
<1>9. CASE step = "gateway"
  <2>1. s = When(Exists("gateway"), DeleteRestApiGateway) /\ Cleaned(step) = {"gateway"} /\ CleanedAlb(step) = {}
    BY <1>9, CleanedIs DEF Steps
  <2>2. Keeps(step, s)
    BY <1>9, <2>1, GatewayKeeps, KeepsWhen
  <2>3. Removing(DeleteRestApiGateway, "gateway")
    <3> DEFINE t == DeleteRestApiGateway
    <3>1. Len(t) = 3 /\ \A i \in 1 .. Len(t) : GatewayRemoval(t[i])
      BY RemovesGateway
    <3> HIDE DEF t
    <3>2. 1 \in 1 .. Len(t)
      BY <3>1
    <3>3. Removing(t, "gateway")
      BY <3>1, <3>2 DEF Removing, GatewayRemoval
    <3> QED
      BY <3>3 DEF t
  <2> QED
    BY <2>1, <2>2, <2>3, WhenRemoves
<1>10. CASE step = "lt"
  <2>1. s = When(Exists("lt"), <<Removes("lt")>>) /\ Cleaned(step) = {"lt"} /\ CleanedAlb(step) = {}
        /\ About(step) = {"lt"}
    BY <1>10, CleanedIs DEF Steps, DeleteLaunchTemplate
  <2>2. Keeps(step, <<Removes("lt")>>)
    BY <1>2, <1>3, <1>4, <2>1, RemovesKeeps
  <2>3. Removing(<<Removes("lt")>>, "lt")
    BY <1>2, RemovesRemoves
  <2>4. Exists("lt") => "lt" \in left \/ Exists("lt")
    BY <2>1
  <2> QED
    BY <2>1, <2>2, <2>3, <2>4, OneCleaned
<1>11. CASE step = "sm"
  <2>1. s = When("sm" \in found, <<Removes("sm")>>) /\ Cleaned(step) = {"sm"} /\ CleanedAlb(step) = {}
        /\ About(step) = {"sm"} /\ (Exists("sm") => "sm" \in left \/ "sm" \in found)
    BY <1>11, CleanedIs, ListingFacts DEF Steps, DeleteStateMachine
  <2>2. Keeps(step, <<Removes("sm")>>)
    BY <1>2, <1>3, <1>4, <2>1, RemovesKeeps
  <2>3. Removing(<<Removes("sm")>>, "sm")
    BY <1>2, RemovesRemoves
  <2>4. Exists("sm") => "sm" \in left \/ "sm" \in found
    BY <2>1
  <2> QED
    BY <2>1, <2>2, <2>3, <2>4, OneCleaned
<1>12. CASE step = "rule"
  <2>1. s = When("rule" \in found, <<Drops("rule", RuleTargets), Removes("rule")>>)
        /\ Cleaned(step) = {"rule"} /\ CleanedAlb(step) = {}
        /\ About(step) = {"rule"} /\ (Exists("rule") => "rule" \in left \/ "rule" \in found)
    BY <1>12, CleanedIs, ListingFacts DEF Steps, DeleteCloudWatchEventRule
  <2>2. Keeps(step, <<Drops("rule", RuleTargets), Removes("rule")>>)
    BY <1>2, <1>3, <1>4, <2>1, RemovesKeeps
  <2>3. Removing(<<Drops("rule", RuleTargets), Removes("rule")>>, "rule")
    BY <1>2, RemovesRemoves
  <2>4. Exists("rule") => "rule" \in left \/ "rule" \in found
    BY <2>1
  <2> QED
    BY <2>1, <2>2, <2>3, <2>4, OneCleaned
<1>13. CASE step = "asg"
  <2>1. PICK keep \in BOOLEAN : s = When(Exists("asg"), DeleteAutoScalingGroup(keep))
    BY <1>13 DEF Steps
  <2>2. Cleaned(step) = {"asg"} /\ CleanedAlb(step) = {} /\ About(step) = {"asg"}
    BY <1>13, CleanedIs
  <2>3. DeleteAutoScalingGroup(keep) = <<Removes("asg")>>
        \/ DeleteAutoScalingGroup(keep) = <<Drops("asg", {"instances"}), Removes("asg")>>
    BY GroupDeleted
  <2>6. Keeps(step, <<Removes("asg")>>) /\ Keeps(step, <<Drops("asg", {"instances"}), Removes("asg")>>)
    BY <1>2, <1>3, <1>4, <2>2, RemovesKeeps
  <2>7. Removing(<<Removes("asg")>>, "asg") /\ Removing(<<Drops("asg", {"instances"}), Removes("asg")>>, "asg")
    BY <1>2, RemovesRemoves
  <2>4. Keeps(step, DeleteAutoScalingGroup(keep))
    BY <2>3, <2>6
  <2>5. Removing(DeleteAutoScalingGroup(keep), "asg")
    BY <2>3, <2>7
  <2> QED
    BY <2>1, <2>2, <2>4, <2>5, OneCleaned
<1>14. CASE step = "db"
  <2>1. s = When("table" \in found, <<Removes("table")>>) /\ Cleaned(step) = {"table"} /\ CleanedAlb(step) = {}
        /\ About(step) = {"table"} /\ (Exists("table") => "table" \in left \/ "table" \in found)
    BY <1>14, CleanedIs, ListingFacts DEF Steps, DeleteTable
  <2>2. Keeps(step, <<Removes("table")>>)
    BY <1>2, <1>3, <1>4, <2>1, RemovesKeeps
  <2>3. Removing(<<Removes("table")>>, "table")
    BY <1>2, RemovesRemoves
  <2>4. Exists("table") => "table" \in left \/ "table" \in found
    BY <2>1
  <2> QED
    BY <2>1, <2>2, <2>3, <2>4, OneCleaned
<1>15. CASE step = "kms"
  <2>1. s = When(Exists("key"), <<Drops("key", {"alias"}), Removes("key")>>) /\ Cleaned(step) = {"key"}
        /\ CleanedAlb(step) = {} /\ About(step) = {"key"}
    BY <1>15, CleanedIs DEF Steps, DeleteKMSKey
  <2>2. Keeps(step, <<Drops("key", {"alias"}), Removes("key")>>)
    BY <1>2, <1>3, <1>4, <2>1, RemovesKeeps
  <2>3. Removing(<<Drops("key", {"alias"}), Removes("key")>>, "key")
    BY <1>2, RemovesRemoves
  <2>4. Exists("key") => "key" \in left \/ Exists("key")
    BY <2>1
  <2> QED
    BY <2>1, <2>2, <2>3, <2>4, OneCleaned
<1> QED
  BY <1>5, <1>6, <1>7, <1>8, <1>9, <1>10, <1>11, <1>12, <1>13, <1>14, <1>15 DEF Clean

-----------------------------------------------------------------------------
(***************************************************************************)
(* The steps, as what they do to the calls that remain: the next one is    *)
(* made or fails, a function decides on its calls, or none are left.       *)
(***************************************************************************)
Decided ==
    /\ stack # <<>> /\ Top.step = "subresources" /\ Top.done = Len(Sub[Top.r]) /\ todo = <<>>
    /\ ~FetchFails(Top.r) /\ ~AttachFails(Top.r) /\ (dry => Top.r \in Grouping)
    /\ todo' \in Works(Top.r) /\ Decide("work")
    /\ UNCHANGED <<tag, parts, target, dry, visited, made, cmd, outcome, plan, missed>>

NothingLeft ==
    /\ todo' = <<>>
    /\ UNCHANGED <<tag, missed>>
    /\ parts' \subseteq parts
    /\ \A x \in parts \ parts' : x[2] \in {"policy", "runtime", "arch", "build"} /\ x # Policy

LEMMA StepKinds ==
    ASSUME IInv, [Next]_vars
    PROVE  Work \/ WorkQuietly \/ Proceed \/ Decided \/ NothingLeft \/ UNCHANGED vars
<1>1. CASE ImportCluster \/ UpdateCluster \/ Destroy \/ Upgrade
  <2>1. Ready
    BY <1>1 DEF ImportCluster, UpdateCluster, Destroy, Upgrade, Begins, Refused
  <2>2. todo = <<>>
    BY <2>1, ReadyFacts DEF IInv
  <2>3. UNCHANGED <<tag, missed, todo>>
    BY <1>1 DEF ImportCluster, UpdateCluster, Destroy, Upgrade, Begins, Refused, awsVars, history
  <2>4. CASE Upgrade
    <3> DEFINE gone == (UNION {Of(r, {"policy"}) : r \in Upgraded \intersect Role})
                       \union (UNION {Of(l, {"runtime", "arch"}) : l \in Upgraded \intersect Lambda})
                       \union Of("table", {"build"})
    <3>1. parts' = parts \ gone
      BY <2>4 DEF Upgrade
    <3>2. ASSUME NEW x \in gone PROVE x[2] \in {"policy", "runtime", "arch", "build"} /\ x # Policy
      <4>1. CASE \E r \in Role : x \in Of(r, {"policy"})
        <5>1. x[1] \in Role /\ x[2] = "policy"
          BY <4>1, OfFacts
        <5> QED
          BY <5>1, Kinds, KindsApart DEF Policy
      <4>2. CASE \E l \in Lambda : x \in Of(l, {"runtime", "arch"})
        BY <4>2, OfFacts DEF Policy
      <4>3. CASE x \in Of("table", {"build"})
        BY <4>3, OfFacts DEF Policy
      <4> QED
        BY <3>2, <4>1, <4>2, <4>3
    <3> HIDE DEF gone
    <3> QED
      BY <2>2, <2>3, <3>1, <3>2 DEF NothingLeft
  <2>5. CASE ~Upgrade
    BY <1>1, <2>2, <2>3, <2>5 DEF NothingLeft, ImportCluster, UpdateCluster, Destroy, Begins, Refused, awsVars
  <2> QED
    BY <2>4, <2>5
<1>2. CASE Ensure \/ Finish
  BY <1>2 DEF Ensure, Finish, Between, NothingLeft, awsVars, history
<1>3. CASE Descend \/ Worked \/ Return
  BY <1>3 DEF Descend, Worked, Return, At, NothingLeft, awsVars, history
<1>4. CASE CleanerStuck \/ FetchStuck \/ WorkStops \/ Abort
  BY <1>4 DEF CleanerStuck, FetchStuck, WorkStops, Abort, Ends, NothingLeft, awsVars
<1>5. CASE Fetch
  BY <1>5 DEF Fetch, At, Decided, NothingLeft, awsVars, history
<1> QED
  BY <1>1, <1>2, <1>3, <1>4, <1>5 DEF Next

(* The calls of import and update themselves are about the table and the   *)
(* Auto Scaling group.                                                     *)
LEMMA OwnStepCalls ==
    ASSUME Types, NEW step \in Saves \union Attaches, NEW left, NEW s \in Steps(step, Listing(step, left))
    PROVE  \A i \in 1 .. Len(s) : s[i].r \in {"table", "asg"} /\ s[i].drop = {}
<1>1. {"table", "asg"} \subseteq Resource
  BY Kinds DEF Others
<1>2. {"credentials"} \subseteq Names("table") /\ {"settings", "build"} \subseteq Names("table")
      /\ {"instances"} \subseteq Names("asg") /\ {"elb"} \subseteq Names("asg") /\ {"healthCheck"} \subseteq Names("asg")
  BY NamesOf
<1> DEFINE About2(c) == c.r \in {"table", "asg"} /\ c.drop = {}
<1>3. About2(Puts("table", {"credentials"})) /\ About2(Puts("table", {"settings", "build"}))
      /\ About2(Puts("asg", {"instances"})) /\ About2(Puts("asg", {"elb"})) /\ About2(Puts("asg", {"healthCheck"}))
  BY <1>1, <1>2, Calls
<1>4. s \in {SaveCredentials, SaveClusterSettings, AttachInstancesToASG, AttachLoadBalancer}
  BY DEF Steps, Saves, Attaches
<1>5. ASSUME NEW c, NEW d, About2(c), About2(d)
      PROVE  /\ \A i \in 1 .. Len(<<c>>) : About2(<<c>>[i])
             /\ \A i \in 1 .. Len(<<c, d>>) : About2(<<c, d>>[i])
             /\ \A i \in 1 .. Len(<<>>) : About2(<<>>[i])
  BY <1>5
<1> HIDE DEF About2
<1>6. \A i \in 1 .. Len(s) : About2(s[i])
  BY <1>3, <1>4, <1>5 DEF SaveCredentials, SaveClusterSettings, AttachInstancesToASG, AttachLoadBalancer, When
<1> QED
  BY <1>6 DEF About2

(* What Proceed decides on. *)
LEMMA ProceedFacts ==
    ASSUME IInv, Proceed
    PROVE  /\ outcome = "running" /\ stack = <<>> /\ todo = <<>> /\ plan # <<>> /\ plan' = Tail(plan)
           /\ UNCHANGED <<tag, parts, target, stack, dry, visited, made, cmd, outcome>>
           /\ missed \subseteq missed'
           /\ todo' \in Seq(CallSet) /\ OfCommand(todo')
           /\ cmd # "destroy" => \A i \in 1 .. Len(todo') : todo'[i].r \in {"table", "asg"} /\ todo'[i].drop = {}
           /\ cmd = "destroy" =>
                 /\ Keeps(Head(plan), todo')
                 /\ \A r \in Cleaned(Head(plan)) : Exists(r) => r \in missed' \/ Removing(todo', r)
                 /\ \A p : p \in CleanedAlb(Head(plan)) /\ Has("alb", p) => Dropping(todo', p)
<1>1. /\ outcome = "running" /\ stack = <<>> /\ todo = <<>> /\ plan # <<>> /\ plan' = Tail(plan)
      /\ UNCHANGED <<tag, parts, target, stack, dry, visited, made, cmd, outcome>>
      /\ Head(plan) \notin Roots
  BY DEF Proceed, Between, awsVars, ensureVars
<1>2. PICK left : todo' \in Steps(Head(plan), Listing(Head(plan), left)) /\ missed' = missed \union left
  BY DEF Proceed
<1>3. Types /\ TagsKnown /\ Owned /\ BInv
  BY DEF IInv, BInv
<1>4. ASSUME cmd # "destroy"
      PROVE  \A i \in 1 .. Len(todo') : todo'[i].r \in {"table", "asg"} /\ todo'[i].drop = {}
  <2>1. Head(plan) \in Saves \union Attaches
    <3>1. cmd = "import" \/ cmd \in {"update", "dryUpdate"}
      BY <1>1, <1>3, <1>4, PlanFacts, Zenon
    <3>2. {"table", "cluster", "bare"} \subseteq Roots /\ {"credentials", "settings", "migrate"} \subseteq Saves
      BY DEF Roots, Saves
    <3>3. CASE cmd = "import"
      <4>1. Len(plan) \in {1, 2, 3, 4, 5, 6}
        BY <1>1, <1>3, <3>3, PlanLengths
      <4>2. Len(plan) # 6 /\ Len(plan) # 3
        BY <1>1, <1>3, <3>2, <3>3, HeadKinds
      <4> QED
        BY <1>1, <1>3, <3>2, <3>3, <4>1, <4>2, HeadKinds
    <3>4. CASE cmd \in {"update", "dryUpdate"}
      <4>1. Len(plan) \in {1, 2, 3}
        BY <1>1, <1>3, <3>4, PlanLengths
      <4> QED
        BY <1>1, <1>3, <3>2, <3>4, <4>1, PlanFacts
    <3> QED
      BY <3>1, <3>3, <3>4
  <2> DEFINE t == todo'
  <2>2. t \in Steps(Head(plan), Listing(Head(plan), left))
    BY <1>2
  <2> HIDE DEF t
  <2>3. \A i \in 1 .. Len(t) : t[i].r \in {"table", "asg"} /\ t[i].drop = {}
    BY <1>3, <2>1, <2>2, OwnStepCalls
  <2> QED
    BY <2>3 DEF t
<1>5. ASSUME cmd = "destroy"
      PROVE  /\ Keeps(Head(plan), todo')
             /\ \A r \in Cleaned(Head(plan)) : Exists(r) => r \in missed' \/ Removing(todo', r)
             /\ \A p : p \in CleanedAlb(Head(plan)) /\ Has("alb", p) => Dropping(todo', p)
  <2>1. Head(plan) \in Clean
    BY <1>1, <1>3, <1>5, HeadKinds
  <2>2. CASE Head(plan) = "record" /\ ~Dns
    <3>1. Cleaned("record") = {} /\ CleanedAlb("record") = {"record"} /\ About("record") = {"alb"}
      BY CleanedIs
    <3>2. ~Has("alb", "record")
      <4>1. "record" \notin AlbParts
        BY <2>2 DEF AlbParts
      <4> QED
        BY <1>3, <4>1, PartFacts, NamesOf DEF Types, Has
    <3>3. todo' = <<>>
      <4>1. todo' = DeleteRoute53Record
        BY <1>2, <2>2 DEF Steps
      <4> QED
        BY <3>2, <4>1 DEF DeleteRoute53Record, When
    <3> QED
      BY <2>2, <3>1, <3>2, <3>3 DEF Keeps
  <2>3. CASE Head(plan) = "record" => Dns
    <3> DEFINE t == todo'  step == Head(plan)
    <3>1. t \in Steps(step, Listing(step, left)) /\ step \in Clean /\ (step = "record" => Dns)
      BY <1>2, <2>1, <2>3
    <3> HIDE DEF t, step
    <3>2. /\ Keeps(step, t)
          /\ \A r \in Cleaned(step) : Exists(r) => r \in left \/ Removing(t, r)
          /\ \A p : p \in CleanedAlb(step) /\ Has("alb", p) => Dropping(t, p)
      BY <1>3, <1>5, <3>1, CleanCalls
    <3> QED
      BY <1>2, <3>2 DEF t, step
  <2> QED
    BY <2>2, <2>3
<1>6. todo' \in Seq(CallSet) /\ OfCommand(todo')
  <2> DEFINE t == todo'
  <2>1. t \in Steps(Head(plan), Listing(Head(plan), left))
    BY <1>2
  <2> HIDE DEF t
  <2>2. t \in Seq(CallSet) /\ OfCommand(t)
    BY <1>1, <1>3, <2>1, ProceedCalls DEF IInv
  <2> QED
    BY <2>2 DEF t
<1> QED
  BY <1>1, <1>2, <1>4, <1>5, <1>6

(* What Fetch decides on. *)
LEMMA DecidedFacts ==
    ASSUME IInv, Decided
    PROVE  /\ stack # <<>> /\ Top.r \in Resource /\ cmd # "destroy" /\ outcome = "running"
           /\ Fine(Top.r, todo') /\ todo' \in Works(Top.r)
           /\ Top'.r = Top.r /\ Top'.step = "work" /\ stack' # <<>>
           /\ UNCHANGED <<tag, parts, target, dry, visited, made, cmd, outcome, plan, missed>>
<1>1. /\ stack # <<>> /\ Top.r \in Resource /\ Top'.r = Top.r /\ Top'.step = "work" /\ stack' # <<>>
      /\ todo' \in Works(Top.r)
      /\ UNCHANGED <<tag, parts, target, dry, visited, made, cmd, outcome, plan, missed>>
  BY DecideFacts, StackFacts DEF Decided, IInv
<1>2. cmd # "destroy" /\ outcome = "running"
  BY <1>1 DEF IInv, BInv, Control
<1>3. (Top.r = "hostgroup" => Exists("asg")) /\ (Top.r = "gateway" => Exists("join"))
  BY DEF Decided, FetchFails, AttachFails
<1> DEFINE t == todo'  r == Top.r
<1>4. t \in Works(r) /\ r \in Resource /\ (r = "hostgroup" => Exists("asg")) /\ (r = "gateway" => Exists("join"))
  BY <1>1, <1>3
<1> HIDE DEF t, r
<1>5. Fine(r, t)
  BY <1>4, WorksFine DEF IInv, BInv
<1> QED
  BY <1>1, <1>2, <1>5 DEF t, r

(* The drops and puts of any call. *)
LEMMA OutsideDrops ==
    ASSUME NEW c, OutsideCall(c)
    PROVE  /\ cmd # "destroy" => c.drop = {} /\ c.version = tag[c.r] /\ \A x \in c.put : x[1] = c.r
           /\ cmd = "destroy" => c.put \subseteq Old \union Of("rule", {"stale"})
BY DEF OutsideCall

LEMMA EnsureDrops ==
    ASSUME NEW r, NEW c, EnsureCall(r, c)
    PROVE  /\ \A x \in c.drop : x[1] \in Role \union {"gateway", "lt"} \/ x = Permission
           /\ \A x \in c.put \union c.drop : x[1] \in Touched(r)
<1>1. Stop.drop = {} /\ Stop.put = {}
  BY StopIsCall
<1> QED
  BY <1>1 DEF EnsureCall, Permission

LEMMA AnyCall ==
    ASSUME IInv, NEW i \in 1 .. Len(todo)
    PROVE  /\ cmd # "destroy" => \A x \in todo[i].drop :
                 x[1] \in Role \union {"gateway", "lt"} \/ x = Permission
           /\ cmd = "destroy" => stack = <<>> /\ todo[i].put \subseteq Old \union Of("rule", {"stale"})
           /\ stack = <<>> => OutsideCall(todo[i])
           /\ stack # <<>> => EnsureCall(Top.r, todo[i]) /\ Top.step = "work" /\ Top.r \in Resource
<1>1. stack = <<>> => OutsideCall(todo[i])
  BY DEF IInv, BInv, Pending, OfCommand
<1>2. stack # <<>> => EnsureCall(Top.r, todo[i])
  BY DEF IInv, BInv, Pending, InEnsure
<1>3. todo # <<>>
  BY DEF IInv, BInv, Types
<1>4. stack # <<>> => cmd # "destroy" /\ Top.step = "work" /\ Top.r \in Resource
  BY <1>3, StackFacts DEF IInv, BInv, Control
<1>5. stack = <<>> =>
         /\ cmd # "destroy" => todo[i].drop = {}
         /\ cmd = "destroy" => todo[i].put \subseteq Old \union Of("rule", {"stale"})
  BY <1>1, OutsideDrops
<1>6. stack # <<>> => \A x \in todo[i].drop : x[1] \in Role \union {"gateway", "lt"} \/ x = Permission
  BY <1>2, EnsureDrops
<1> QED
  BY <1>1, <1>2, <1>4, <1>5, <1>6

-----------------------------------------------------------------------------
(***************************************************************************)
(* The targets of the rule.  A second live target is put only next to a    *)
(* live and a stale one, and whatever drops one of these drops it too.     *)
(***************************************************************************)
Again == <<"rule", "again">>
Target == <<"rule", "target">>
Stale == <<"rule", "stale">>
Targets ==
    /\ Again \in parts => Target \in parts /\ Stale \in parts
    /\ \A i \in 1 .. Len(todo) :
        /\ Again \in todo[i].put => Target \in parts /\ Stale \in parts
        /\ Again \in parts /\ (Target \in todo[i].drop \/ Stale \in todo[i].drop) => Again \in todo[i].drop

(* Only destroy drops a target, and it puts no live one. *)
LEMMA TargetCalls ==
    ASSUME IInv, NEW i \in 1 .. Len(todo)
    PROVE  /\ cmd # "destroy" => Target \notin todo[i].drop /\ Stale \notin todo[i].drop
           /\ cmd = "destroy" => Again \notin todo[i].put
<1>1. "rule" \notin Role \union {"gateway", "lt"}
  BY Kinds, KindsApart DEF Others
<1>2. CASE cmd # "destroy"
  BY <1>1, <1>2, AnyCall DEF Target, Stale, Permission
<1>3. CASE cmd = "destroy"
  <2>1. Again \notin Old \union Of("rule", {"stale"})
    BY OfFacts DEF Old, Again
  <2> QED
    BY <1>3, <2>1, AnyCall
<1> QED
  BY <1>2, <1>3

LEMMA TargetsWork == ASSUME IInv, Targets, Work PROVE Targets'
<1> DEFINE c == todo[1]  t == todo'
<1>1. /\ todo \in Seq(CallSet) /\ todo # <<>> /\ t = Tail(todo) /\ 1 \in 1 .. Len(todo)
      /\ parts' = (parts \ c.drop) \union c.put /\ cmd' = cmd
  BY WorkFacts DEF IInv
<1>2. \A i \in 1 .. Len(t) : i + 1 \in 1 .. Len(todo) /\ t[i] = todo[i + 1]
  BY <1>1, TodoTail
<1>3. /\ cmd # "destroy" => Target \notin c.drop /\ Stale \notin c.drop
      /\ cmd = "destroy" => Again \notin c.put
  BY <1>1, TargetCalls
<1>4. /\ Again \in c.put => Target \in parts /\ Stale \in parts
      /\ Again \in parts /\ (Target \in c.drop \/ Stale \in c.drop) => Again \in c.drop
  BY <1>1 DEF Targets
<1> HIDE DEF c, t
<1>5. Again \in parts' => Target \in parts' /\ Stale \in parts'
  BY <1>1, <1>3, <1>4 DEF Targets
<1>6. ASSUME NEW i \in 1 .. Len(t)
      PROVE  /\ Again \in t[i].put => Target \in parts' /\ Stale \in parts'
             /\ Again \in parts' /\ (Target \in t[i].drop \/ Stale \in t[i].drop) => Again \in t[i].drop
  <2>1. i + 1 \in 1 .. Len(todo) /\ t[i] = todo[i + 1]
    BY <1>2
  <2>2. /\ cmd # "destroy" => Target \notin t[i].drop /\ Stale \notin t[i].drop
        /\ cmd = "destroy" => Again \notin t[i].put
    BY <2>1, TargetCalls
  <2>3. /\ Again \in t[i].put => Target \in parts /\ Stale \in parts
        /\ Again \in parts /\ (Target \in t[i].drop \/ Stale \in t[i].drop) => Again \in t[i].drop
    BY <2>1 DEF Targets
  <2> QED
    BY <1>1, <1>3, <2>2, <2>3
<1>7. /\ Again \in parts' => Target \in parts' /\ Stale \in parts'
      /\ \A i \in 1 .. Len(todo') :
           /\ Again \in todo'[i].put => Target \in parts' /\ Stale \in parts'
           /\ Again \in parts' /\ (Target \in todo'[i].drop \/ Stale \in todo'[i].drop) => Again \in todo'[i].drop
  BY <1>5, <1>6 DEF t
<1> QED
  BY <1>7 DEF Targets, Again, Target, Stale

LEMMA TargetsQuiet == ASSUME IInv, Targets, WorkQuietly PROVE Targets'
<1> DEFINE t == todo'
<1>1. todo \in Seq(CallSet) /\ todo # <<>> /\ t = Tail(todo) /\ parts' = parts
  BY QuietFacts DEF IInv
<1>2. \A i \in 1 .. Len(t) : i + 1 \in 1 .. Len(todo) /\ t[i] = todo[i + 1]
  BY <1>1, TodoTail
<1> HIDE DEF t
<1>3. \A i \in 1 .. Len(t) :
         /\ Again \in t[i].put => Target \in parts /\ Stale \in parts
         /\ Again \in parts /\ (Target \in t[i].drop \/ Stale \in t[i].drop) => Again \in t[i].drop
  BY <1>2 DEF Targets
<1> QED
  BY <1>1, <1>3 DEF Targets, Again, Target, Stale, t

(* A call that puts it is one of Update of the rule, which found a stale   *)
(* target first.                                                           *)
LEMMA RulePuts ==
    ASSUME Types, Owned, NEW s \in RuleWorks, NEW i \in 1 .. Len(s), Again \in s[i].put
    PROVE  Target \in parts /\ Stale \in parts
<1>1. ASSUME NEW v, NEW c, c = PutTargets(v)[1], Again \in c.put
      PROVE  Has("rule", "target")
  <2>1. c.put = Of("rule", {IF Has("rule", "target") THEN "again" ELSE "target"})
    BY <1>1 DEF PutTargets, Call
  <2> QED
    BY <1>1, <2>1, OfFacts DEF Again
<1>2. CASE ~Exists("rule")
  <2>1. s = <<Tags("rule")>> \o PutTargets(target["rule"])
    BY <1>2 DEF RuleWorks, CreateCloudWatchEventRule
  <2> DEFINE c == Tags("rule")  d == PutTargets(target["rule"])[1]
  <2>2. c.put = {} /\ PutTargets(target["rule"]) = <<d>>
    BY DEF Tags, Call, PutTargets
  <2>3. c \in CallSet /\ d \in CallSet
    <3>1. "rule" \in Resource /\ {IF Has("rule", "target") THEN "again" ELSE "target"} \subseteq Names("rule")
      BY Kinds, NamesOf DEF Others, RuleTargets
    <3> QED
      BY <3>1, Calls DEF PutTargets
  <2>4. Again \in d.put => Has("rule", "target")
    BY <1>1
  <2> HIDE DEF c, d
  <2>5. s = <<c, d>>
    BY <2>1, <2>2, <2>3, Tuples DEF c
  <2>6. Has("rule", "target")
    BY <2>2, <2>4, <2>5
  <2>7. Target # <<"alb", "lb">> /\ Target \notin Old /\ Target[1] = "rule"
    BY OfFacts DEF Target, Old
  <2> QED
    BY <1>2, <2>6, <2>7 DEF Owned, Has, Target
<1>3. CASE Exists("rule")
  <2>1. s = PutTargets(tag["rule"]) /\ FirstTargetIsStale
    BY <1>3 DEF RuleWorks
  <2>2. i = 1
    BY <2>1 DEF PutTargets
  <2>3. Has("rule", "target")
    BY <1>1, <2>1, <2>2
  <2> QED
    BY <2>1, <2>3 DEF FirstTargetIsStale, Has, Target, Stale
<1> QED
  BY <1>2, <1>3

LEMMA TargetsDecided == ASSUME IInv, Targets, Decided PROVE Targets'
<1> DEFINE t == todo'  r == Top.r
<1>1. /\ Fine(r, t) /\ t \in Works(r) /\ parts' = parts
  BY DecidedFacts
<1>2. \A i \in 1 .. Len(t) : EnsureCall(r, t[i])
  BY <1>1 DEF Fine, InEnsure
<1> HIDE DEF t, r
<1>3. ASSUME NEW i \in 1 .. Len(t) PROVE Target \notin t[i].drop /\ Stale \notin t[i].drop
  <2>1. \A x \in t[i].drop : x[1] \in Role \union {"gateway", "lt"} \/ x = Permission
    BY <1>2, EnsureDrops
  <2>2. "rule" \notin Role \union {"gateway", "lt"}
    BY Kinds, KindsApart DEF Others
  <2> QED
    BY <2>1, <2>2 DEF Target, Stale, Permission
<1>4. ASSUME NEW i \in 1 .. Len(t), Again \in t[i].put
      PROVE  Target \in parts /\ Stale \in parts
  <2>1. "rule" \in Touched(r)
    <3>1. \A x \in t[i].put : x[1] \in Touched(r)
      BY <1>2, EnsureDrops
    <3> QED
      BY <1>4, <3>1 DEF Again
  <2>2. r = "rule"
    BY <2>1 DEF Touched
  <2>3. "rule" \notin Role \union Lambda
    BY Kinds, KindsApart DEF Others
  <2>4. t \in RuleWorks
    BY <1>1, <2>2, <2>3 DEF Works
  <2> QED
    BY <1>4, <2>4, RulePuts DEF IInv, BInv
<1>5. /\ Again \in parts' => Target \in parts' /\ Stale \in parts'
      /\ \A i \in 1 .. Len(t) :
           /\ Again \in t[i].put => Target \in parts' /\ Stale \in parts'
           /\ Again \in parts' /\ (Target \in t[i].drop \/ Stale \in t[i].drop) => Again \in t[i].drop
  BY <1>1, <1>3, <1>4 DEF Targets
<1> QED
  BY <1>5 DEF Targets, Again, Target, Stale, t

LEMMA TargetsProceed == ASSUME IInv, Targets, Proceed PROVE Targets'
<1> DEFINE t == todo'
<1>1. /\ parts' = parts /\ OfCommand(t)
      /\ cmd # "destroy" => \A i \in 1 .. Len(t) : t[i].r \in {"table", "asg"} /\ t[i].drop = {}
      /\ cmd = "destroy" => Keeps(Head(plan), t)
  BY ProceedFacts
<1> HIDE DEF t
<1>2. ASSUME NEW i \in 1 .. Len(t)
      PROVE  /\ Again \notin t[i].put
             /\ Again \in parts /\ (Target \in t[i].drop \/ Stale \in t[i].drop) => Again \in t[i].drop
  <2>1. OutsideCall(t[i])
    BY <1>1 DEF OfCommand
  <2>2. CASE cmd = "destroy"
    <3>1. Again \notin Old \union Of("rule", {"stale"})
      BY OfFacts DEF Old, Again
    <3>2. Again \notin t[i].put
      BY <2>1, <2>2, <3>1, OutsideDrops
    <3>3. Tidy(t[i])
      BY <1>1, <2>2 DEF Keeps
    <3> QED
      BY <3>2, <3>3 DEF Tidy, Has, Again, Target, Stale
  <2>3. CASE cmd # "destroy"
    <3>1. t[i].r \in {"table", "asg"} /\ t[i].drop = {}
      BY <1>1, <2>3
    <3>2. \A x \in t[i].put : x[1] = t[i].r
      BY <2>1, <2>3, OutsideDrops
    <3> QED
      BY <3>1, <3>2 DEF Again
  <2> QED
    BY <2>2, <2>3
<1> QED
  BY <1>1, <1>2 DEF Targets, t, Again, Target, Stale

LEMMA TargetsNext == ASSUME IInv, Targets, [Next]_vars PROVE Targets'
<1>1. CASE NothingLeft
  <2>1. Again \in parts' => Target \in parts' /\ Stale \in parts'
    BY <1>1 DEF NothingLeft, Targets, Again, Target, Stale
  <2> QED
    BY <1>1, <2>1 DEF NothingLeft, Targets, Again, Target, Stale
<1>2. CASE UNCHANGED vars
  BY <1>2 DEF vars, awsVars, Targets, Again, Target, Stale
<1> QED
  BY <1>1, <1>2, StepKinds, TargetsWork, TargetsQuiet, TargetsDecided, TargetsProceed

(* The inductive invariant behind OneTargetUnlessReplaced: a second live   *)
(* target is only put on, and only kept, next to one whose role is gone.   *)
THEOREM TargetsCorrect == Spec => []Targets
<1>1. Init => Targets
  BY DEF Init, Targets
<1> QED
  BY <1>1, IInvCorrect, TargetsNext, PTL DEF Spec

(***************************************************************************)
(* OneTargetUnlessReplaced: whatever imports and updates ran, there is a   *)
(* second live target only next to one whose role is gone, so that the     *)
(* rule starts one execution a minute.                                     *)
(***************************************************************************)
THEOREM OneTargetCorrect == Spec => []OneTargetUnlessReplaced
<1>1. Targets => OneTargetUnlessReplaced
  <2> SUFFICES ASSUME Targets, Cardinality(LiveTargets) > 1 PROVE Has("rule", "stale")
    BY DEF OneTargetUnlessReplaced
  <2>1. CASE "again" \in LiveTargets
    BY <2>1 DEF LiveTargets, Targets, Has, Again, Stale
  <2>2. CASE "again" \notin LiveTargets
    <3>1. LiveTargets = {} \/ LiveTargets = {"target"}
      BY <2>2 DEF LiveTargets
    <3>2. Cardinality({}) = 0 /\ Cardinality({"target"}) = 1
      BY FS_EmptySet, FS_Singleton
    <3> QED
      BY <3>1, <3>2
  <2> QED
    BY <2>1, <2>2
<1> QED
  BY <1>1, TargetsCorrect, PTL

-----------------------------------------------------------------------------
(***************************************************************************)
(* What destroy leaves.  Of the steps it has begun or done, everything is  *)
(* gone, left out by the listing, or removed by a call that remains.       *)
(***************************************************************************)
Gone(r) == ~Exists(r) \/ r \in missed \/ Removing(todo, r)
Lost(p) == ~Has("alb", p) \/ Dropping(todo, p)
StepCleans(k) ==
    /\ \A r \in Cleaned(DestroyPlan[k]) : Gone(r)
    /\ \A p : p \in CleanedAlb(DestroyPlan[k]) => Lost(p)
Cleaning ==
    cmd = "destroy" /\ outcome \in {"running", "ok"} =>
        \A k \in 1 .. 11 : Len(plan) <= 11 - k => StepCleans(k)

(* What a function removes is gone after the last of its calls. *)
LEMMA RemovingTail ==
    ASSUME NEW s \in Seq(CallSet), s # <<>>
    PROVE  /\ \A r : Removing(s, r) => (s[1].r = r /\ s[1].version = 0) \/ Removing(Tail(s), r)
           /\ \A p : Dropping(s, p) => <<"alb", p>> \in s[1].drop \/ Dropping(Tail(s), p)
<1> DEFINE t == Tail(s)
<1>1. \A j \in 1 .. Len(s) : j = 1 \/ (j - 1 \in 1 .. Len(t) /\ t[j - 1] = s[j])
  BY TodoTail
<1> HIDE DEF t
<1>2. ASSUME NEW r, Removing(s, r) PROVE (s[1].r = r /\ s[1].version = 0) \/ Removing(t, r)
  <2>1. PICK j \in 1 .. Len(s) : s[j].r = r /\ s[j].version = 0
    BY <1>2 DEF Removing
  <2> QED
    BY <1>1, <2>1 DEF Removing
<1>3. ASSUME NEW p, Dropping(s, p) PROVE <<"alb", p>> \in s[1].drop \/ Dropping(t, p)
  <2>1. PICK j \in 1 .. Len(s) : <<"alb", p>> \in s[j].drop
    BY <1>3 DEF Dropping
  <2> QED
    BY <1>1, <2>1 DEF Dropping
<1> QED
  BY <1>2, <1>3 DEF t

LEMMA GoneWork ==
    ASSUME IInv, Work, cmd = "destroy"
    PROVE  /\ \A r \in Resource : Gone(r) => Gone(r)'
           /\ \A p : Lost(p) => Lost(p)'
<1> DEFINE c == todo[1]  t == todo'
<1>1. /\ todo \in Seq(CallSet) /\ todo # <<>> /\ t = Tail(todo) /\ 1 \in 1 .. Len(todo)
      /\ parts' = (parts \ c.drop) \union c.put /\ missed' = missed
      /\ \A r \in Resource : tag'[r] = IF r = c.r THEN c.version ELSE tag[r]
  BY WorkFacts DEF IInv
<1>2. stack = <<>> /\ OutsideCall(c)
  BY <1>1, AnyCall
<1>3. /\ \A r : Removing(todo, r) => (c.r = r /\ c.version = 0) \/ Removing(t, r)
      /\ \A p : Dropping(todo, p) => <<"alb", p>> \in c.drop \/ Dropping(t, p)
  BY <1>1, RemovingTail
<1>4. c.version \in {0, tag[c.r]}
  BY <1>2 DEF OutsideCall
<1>5. \A p : <<"alb", p>> \notin c.put
  <2>1. c.put \subseteq Old \union Of("rule", {"stale"})
    BY <1>2, OutsideDrops
  <2>2. \A x \in Old \union Of("rule", {"stale"}) : x[1] # "alb"
    BY OfFacts DEF Old
  <2> QED
    BY <2>1, <2>2
<1> HIDE DEF c, t
<1>6. ASSUME NEW r \in Resource, Gone(r) PROVE ~(tag'[r] # 0) \/ r \in missed' \/ Removing(t, r)
  BY <1>1, <1>3, <1>4, <1>6 DEF Gone, Exists
<1>7. ASSUME NEW p, Lost(p) PROVE Lost(p)'
  <2> DEFINE x == <<"alb", p>>
  <2>1. x \notin parts \/ x \in c.drop \/ Dropping(t, p)
    BY <1>3, <1>7 DEF Lost, Has
  <2>2. x \notin c.put
    BY <1>5
  <2> HIDE DEF x
  <2>3. x \notin parts' \/ Dropping(t, p)
    BY <1>1, <2>1, <2>2
  <2>4. (x \in parts' <=> Has("alb", p)') /\ (Dropping(t, p) <=> Dropping(todo, p)')
    BY DEF Has, x, Dropping, t
  <2> QED
    BY <2>3, <2>4 DEF Lost
<1>8. \A r \in Resource : Gone(r) => Gone(r)'
  BY <1>6 DEF Gone, Exists, t, Removing
<1>9. \A p : Lost(p) => Lost(p)'
  BY <1>7
<1> QED
  BY <1>8, <1>9

(* The ways a destroy goes on. *)
LEMMA DestroyGoesOn ==
    ASSUME IInv, [Next]_vars, cmd' = "destroy", outcome' \in {"running", "ok"}
    PROVE  \/ cmd = "destroy" /\ outcome = "running" /\ (Work \/ Proceed \/ Finish)
           \/ Destroy /\ ~DestroyRefused
           \/ UNCHANGED vars
<1>1. CASE ImportCluster \/ UpdateCluster \/ Upgrade
  BY <1>1 DEF ImportCluster, UpdateCluster, Upgrade, Begins, Refused
<1>2. CASE Destroy
  BY <1>2 DEF Destroy, Refused
<1>3. CASE Ensure
  <2>1. cmd = "destroy" /\ outcome = "running" /\ plan # <<>> /\ Head(plan) \in Roots
    BY <1>3 DEF Ensure, Between
  <2> QED
    BY <2>1, HeadKinds DEF IInv
<1>4. CASE CleanerStuck \/ FetchStuck \/ WorkStops \/ Abort
  BY <1>4 DEF CleanerStuck, FetchStuck, WorkStops, Abort, Ends
<1>5. CASE Descend \/ Fetch \/ Worked \/ Return
  <2>1. stack # <<>> /\ cmd = "destroy"
    BY <1>5 DEF Descend, Fetch, Worked, Return, At
  <2> QED
    BY <2>1 DEF IInv, BInv, Control
<1>6. CASE WorkQuietly
  <2>1. /\ cmd = "destroy" /\ 1 \in 1 .. Len(todo) /\ ErrorIgnored(todo[1])
    BY <1>6, QuietFacts DEF IInv
  <2> DEFINE c == todo[1]
  <2>2. c.put \subseteq Old \union Of("rule", {"stale"}) /\ ErrorIgnored(c)
    BY <2>1, AnyCall
  <2> HIDE DEF c
  <2>3. \A x \in Old \union Of("rule", {"stale"}) : x[1] \in {"gateway", "rule"}
    BY OfFacts DEF Old
  <2>4. \E r \in {"key"} \union Lambda : \E x \in c.put : x[1] = r
    BY <2>2, IgnoredPut
  <2>5. "rule" \notin {"key"} \union Lambda /\ "gateway" \notin {"key"} \union Lambda
    BY Kinds, KindsApart DEF Others
  <2> QED
    BY <2>2, <2>3, <2>4, <2>5
<1>7. CASE Work \/ Proceed \/ Finish
  <2>1. (cmd = "destroy" /\ todo # <<>>) \/ (outcome = "running" /\ cmd = "destroy")
    BY <1>7 DEF Work, Proceed, Finish, Between, ensureVars
  <2>2. outcome = "running"
    BY <2>1 DEF IInv, BInv, Control
  <2> QED
    BY <1>7, <2>1, <2>2
<1> QED
  BY <1>1, <1>2, <1>3, <1>4, <1>5, <1>6, <1>7 DEF Next

LEMMA CleanedIsResource ==
    /\ \A k \in 1 .. 11 : DestroyPlan[k] \in Clean
    /\ \A step \in Clean : Cleaned(step) \subseteq Resource
<1>1. \A k \in 1 .. 11 : DestroyPlan[k] \in Clean
  BY DEF DestroyPlan, Clean
<1>2. \A step \in Clean : Cleaned(step) \subseteq Resource
  BY CleanedIs, Kinds DEF Clean, Others
<1> QED
  BY <1>1, <1>2

(* The record is there only as long as the settings are. *)
RecordKept ==
    /\ Record \in parts => Setting \in parts
    /\ \A i \in 1 .. Len(todo) : Setting \in todo[i].drop => Record \notin parts

LEMMA CleaningNext ==
    ASSUME IInv, Cleaning, RecordKept, [Next]_vars
    PROVE  Cleaning'
<1> SUFFICES ASSUME cmd' = "destroy", outcome' \in {"running", "ok"}, NEW k \in 1 .. 11, Len(plan') <= 11 - k
             PROVE  /\ \A r \in Cleaned(DestroyPlan[k]) : Gone(r)'
                    /\ \A p : p \in CleanedAlb(DestroyPlan[k]) => Lost(p)'
  BY DEF Cleaning, StepCleans, DestroyPlan, Cleaned, CleanedAlb
<1>1. Cleaned(DestroyPlan[k]) \subseteq Resource
  BY CleanedIsResource
<1>2. CASE cmd = "destroy" /\ outcome = "running" /\ Work
  <2>1. plan' = plan
    BY <1>2, WorkFacts DEF IInv
  <2>2. StepCleans(k)
    BY <1>2, <2>1 DEF Cleaning
  <2>3. /\ \A r \in Resource : Gone(r) => Gone(r)'
        /\ \A p : Lost(p) => Lost(p)'
    BY <1>2, GoneWork
  <2> QED
    BY <1>1, <2>2, <2>3 DEF StepCleans
<1>3. CASE cmd = "destroy" /\ outcome = "running" /\ Proceed
  <2>1. /\ todo = <<>> /\ plan # <<>> /\ plan' = Tail(plan) /\ UNCHANGED <<tag, parts>> /\ missed \subseteq missed'
        /\ \A r \in Cleaned(Head(plan)) : Exists(r) => r \in missed' \/ Removing(todo', r)
        /\ \A p : p \in CleanedAlb(Head(plan)) /\ Has("alb", p) => Dropping(todo', p)
    BY <1>3, ProceedFacts
  <2>2. Len(plan) \in 1 .. 11 /\ Head(plan) = DestroyPlan[12 - Len(plan)] /\ Len(plan') = Len(plan) - 1
    BY <1>3, <2>1, PlanFacts DEF IInv
  <2>3. CASE Len(plan) <= 11 - k
    <3>1. StepCleans(k)
      BY <1>3, <2>3 DEF Cleaning
    <3>2. \A r : ~Removing(todo, r) /\ ~Dropping(todo, r)
      BY <2>1 DEF Removing, Dropping
    <3>3. \A r \in Resource : Gone(r) => ~Exists(r) \/ r \in missed
      BY <3>2 DEF Gone
    <3>4. \A r \in Resource : Gone(r) => Gone(r)'
      BY <2>1, <3>3 DEF Gone, Exists
    <3>5. \A p : Lost(p) => ~Has("alb", p)
      BY <3>2 DEF Lost
    <3>6. \A p : Lost(p) => Lost(p)'
      BY <2>1, <3>5 DEF Lost, Has
    <3> QED
      BY <1>1, <3>1, <3>4, <3>6 DEF StepCleans
  <2>4. CASE ~(Len(plan) <= 11 - k)
    <3>1. k = 12 - Len(plan)
      BY <2>2, <2>4
    <3>2. Head(plan) = DestroyPlan[k]
      BY <2>2, <3>1
    <3>3. \A r \in Cleaned(DestroyPlan[k]) : Gone(r)'
      BY <2>1, <3>2 DEF Gone, Exists, Removing
    <3>4. ASSUME NEW p, p \in CleanedAlb(DestroyPlan[k]) PROVE Lost(p)'
      <4>1. Has("alb", p) => Dropping(todo', p)
        BY <2>1, <3>2, <3>4
      <4>2. (Has("alb", p)' <=> Has("alb", p)) /\ (Dropping(todo', p) <=> Dropping(todo, p)')
        BY <2>1 DEF Has, Dropping
      <4> QED
        BY <4>1, <4>2 DEF Lost
    <3> QED
      BY <3>3, <3>4
  <2> QED
    BY <2>3, <2>4
<1>4. CASE (cmd = "destroy" /\ outcome = "running" /\ Finish) \/ UNCHANGED vars
  <2>1. UNCHANGED <<tag, parts, missed, todo, plan, cmd>> /\ outcome \in {"running", "ok"}
    BY <1>4 DEF Finish, Between, vars, awsVars, history
  <2>2. StepCleans(k)
    BY <2>1 DEF Cleaning
  <2>3. \A r : Gone(r) => Gone(r)'
    BY <2>1 DEF Gone, Exists, Removing
  <2>4. \A p : Lost(p) => Lost(p)'
    BY <2>1 DEF Lost, Has, Dropping
  <2> QED
    BY <2>2, <2>3, <2>4 DEF StepCleans
<1>5. CASE Destroy /\ ~DestroyRefused
  <2> DEFINE w == Dns /\ Has("table", "settings")
  <2>1. /\ plan' = When(w, <<"record">>) \o Cleaners
        /\ UNCHANGED <<tag, parts, todo, missed>>
    BY <1>5 DEF Destroy, Begins, awsVars, history
  <2>2. Len(plan') >= 10 /\ (w => Len(plan') = 11) /\ Len(plan') \in Nat
    <3>1. Len(Cleaners) = 10 /\ Len(DestroyPlan) = 11
      BY Plans
    <3>2. plan' = IF w THEN DestroyPlan ELSE Cleaners
      BY <2>1, CleanersPlan DEF When
    <3> HIDE DEF w
    <3>3. CASE w
      <4>1. plan' = DestroyPlan
        BY <3>2, <3>3
      <4>2. Len(plan') = 11
        BY <3>1, <4>1
      <4> QED
        BY <4>2
    <3>4. CASE ~w
      <4>1. plan' = Cleaners
        BY <3>2, <3>4
      <4>2. Len(plan') = 10
        BY <3>1, <4>1
      <4> QED
        BY <3>4, <4>2
    <3> QED
      BY <3>3, <3>4
  <2> HIDE DEF w
  <2> DEFINE n == Len(plan')
  <2>7. n <= 11 - k /\ n >= 10 /\ (w => n = 11) /\ n \in Nat
    BY <2>2
  <2> HIDE DEF n
  <2>3. k = 1 /\ ~w
    BY <2>7
  <2>4. Cleaned(DestroyPlan[k]) = {} /\ CleanedAlb(DestroyPlan[k]) = {"record"}
    BY <2>3, CleanedIs DEF DestroyPlan
  <2>5. ~Has("alb", "record")
    <3>1. CASE ~Dns
      <4>1. "record" \notin AlbParts
        BY <3>1 DEF AlbParts
      <4> QED
        BY <4>1, PartFacts, NamesOf DEF IInv, BInv, Types, Has
    <3>2. CASE Dns
      BY <2>3, <3>2 DEF RecordKept, Record, Setting, Has, w
    <3> QED
      BY <3>1, <3>2
  <2>6. Lost("record")'
    BY <2>1, <2>5 DEF Lost, Has
  <2> QED
    BY <2>4, <2>6
<1> QED
  BY <1>2, <1>3, <1>4, <1>5, DestroyGoesOn

LEMMA DestroyPlanIs ==
    /\ \A k \in 1 .. 11 : DestroyPlan[k] = "db" => k = 10
    /\ \A k \in 1 .. 11 : DestroyPlan[k] = "kms" => k = 11
    /\ \A k \in 1 .. 11 : DestroyPlan[k] = "gateway" => k = 4
    /\ DestroyPlan[1] = "record" /\ DestroyPlan[3] = "lambdas" /\ DestroyPlan[10] = "db"
BY DEF DestroyPlan

LEMMA AboutIs ==
    ASSUME NEW step \in Clean
    PROVE  /\ "table" \in About(step) => step = "db"
           /\ "key" \in About(step) => step = "kms"
<1>1. {"table", "key"} \intersect (Role \union Lambda) = {}
  BY Kinds, KindsApart DEF Others
<1> QED
  BY <1>1, CleanedIs DEF Clean

(* What was cleaned before this step. *)
LEMMA CleanedBefore ==
    ASSUME IInv, Cleaning, outcome = "running", cmd = "destroy", todo = <<>>, plan # <<>>, Head(plan) \in Clean,
           NEW k \in 1 .. 11, k + Len(plan) <= 11
    PROVE  /\ \A r \in Cleaned(DestroyPlan[k]) : ~Exists(r) \/ r \in missed
           /\ \A p : p \in CleanedAlb(DestroyPlan[k]) => ~Has("alb", p)
<1>1. Len(plan) <= 11 - k
  BY PlanFacts DEF IInv
<1>2. \A x : ~Removing(todo, x) /\ ~Dropping(todo, x)
  BY DEF Removing, Dropping
<1> QED
  BY <1>1, <1>2 DEF Cleaning, StepCleans, Gone, Lost

(* The settings are there once import has saved them, and for update.      *)
Settles(s) == \E i \in 1 .. Len(s) : Setting \in s[i].put
SettingsNeeded == outcome = "running" /\ (cmd \in {"update", "dryUpdate"} \/ (cmd = "import" /\ Len(plan) <= 3))
SettingsKept ==
    SettingsNeeded => Setting \in parts \/ (cmd = "import" /\ Len(plan) = 3 /\ stack = <<>> /\ Settles(todo))

LEMMA SettlesTail ==
    ASSUME NEW s \in Seq(CallSet), s # <<>>, Settles(s)
    PROVE  Setting \in s[1].put \/ Settles(Tail(s))
<1> DEFINE t == Tail(s)
<1>1. \A j \in 1 .. Len(s) : j = 1 \/ (j - 1 \in 1 .. Len(t) /\ t[j - 1] = s[j])
  BY TodoTail
<1> HIDE DEF t
<1>2. PICK j \in 1 .. Len(s) : Setting \in s[j].put
  BY DEF Settles
<1>3. Setting \in s[1].put \/ Settles(t)
  BY <1>1, <1>2 DEF Settles
<1> QED
  BY <1>3 DEF t

LEMMA SettingsNext ==
    ASSUME IInv, SettingsKept, [Next]_vars
    PROVE  SettingsKept'
<1> SUFFICES ASSUME SettingsNeeded'
             PROVE  Setting \in parts' \/ (cmd' = "import" /\ Len(plan') = 3 /\ stack' = <<>> /\ Settles(todo'))
  BY DEF SettingsKept, Setting, Settles
<1>1. outcome' = "running" /\ (cmd' \in {"update", "dryUpdate"} \/ (cmd' = "import" /\ Len(plan') <= 3))
  BY DEF SettingsNeeded
<1>2. CASE ImportCluster
  BY <1>1, <1>2 DEF ImportCluster, Begins
<1>3. CASE UpdateCluster
  BY <1>1, <1>3 DEF UpdateCluster, Refused, Begins, GetClusterFails, Has, Setting, awsVars
<1>4. CASE Destroy \/ Upgrade \/ Finish
  BY <1>1, <1>4 DEF Destroy, Upgrade, Finish, Refused, Begins
<1>5. CASE CleanerStuck \/ FetchStuck \/ WorkStops \/ Abort
  BY <1>1, <1>5 DEF CleanerStuck, FetchStuck, WorkStops, Abort, Ends
<1>6. CASE Ensure
  <2>1. /\ outcome = "running" /\ stack = <<>> /\ todo = <<>> /\ plan # <<>> /\ Head(plan) \in Roots
        /\ plan' = Tail(plan) /\ cmd' = cmd /\ parts' = parts
    BY <1>6 DEF Ensure, Between, awsVars
  <2>2. SettingsNeeded
    <3>1. CASE cmd = "import"
      <4> DEFINE n == Len(plan)
      <4>1. n \in 1 .. 6 /\ Len(plan') = n - 1 /\ n # 4
        BY <2>1, <3>1, PlanFacts, HeadKinds DEF IInv, Saves, Roots
      <4>2. Len(plan') <= 3
        BY <1>1, <2>1, <3>1
      <4> HIDE DEF n
      <4>3. n <= 3
        BY <4>1, <4>2
      <4> QED
        BY <2>1, <3>1, <4>3 DEF SettingsNeeded, n
    <3>2. CASE cmd # "import"
      BY <1>1, <2>1, <3>2 DEF SettingsNeeded
    <3> QED
      BY <3>1, <3>2
  <2>3. ~Settles(todo)
    BY <2>1 DEF Settles
  <2> QED
    BY <2>1, <2>2, <2>3 DEF SettingsKept
<1>7. CASE Proceed
  <2>1. /\ outcome = "running" /\ stack = <<>> /\ todo = <<>> /\ plan # <<>> /\ plan' = Tail(plan)
        /\ UNCHANGED <<parts, cmd, stack>>
    BY <1>7, ProceedFacts
  <2>2. ~Settles(todo)
    BY <2>1 DEF Settles
  <2>3. CASE SettingsNeeded
    BY <2>1, <2>2, <2>3 DEF SettingsKept
  <2>4. CASE ~SettingsNeeded
    <3> DEFINE n == Len(plan)
    <3>1. cmd = "import"
      BY <1>1, <2>1, <2>4 DEF SettingsNeeded
    <3>2. n \in 1 .. 6 /\ Len(plan') = n - 1 /\ ~(n <= 3) /\ Len(plan') <= 3
      BY <1>1, <2>1, <2>4, <3>1, PlanFacts DEF IInv, SettingsNeeded
    <3> HIDE DEF n
    <3>3. n = 4 /\ Len(plan') = 3
      BY <3>2
    <3>4. Head(plan) = "settings"
      BY <2>1, <3>1, <3>3, HeadKinds DEF IInv, n
    <3>5. todo' = SaveClusterSettings
      BY <1>7, <3>4 DEF Proceed, Steps
    <3>6. Setting \in Puts("table", {"settings", "build"}).put
      BY DEF Puts, Call, Of, Setting
    <3>7. Settles(SaveClusterSettings)
      BY <3>6 DEF Settles, SaveClusterSettings
    <3> QED
      BY <2>1, <3>1, <3>3, <3>5, <3>7
  <2> QED
    BY <2>3, <2>4
<1>8. CASE Descend \/ Fetch \/ Worked \/ Return
  <2>1. stack # <<>> /\ UNCHANGED <<parts, cmd, outcome, plan>>
    BY <1>8 DEF Descend, Fetch, Worked, Return, At, awsVars
  <2> QED
    BY <1>1, <2>1 DEF SettingsKept, SettingsNeeded
<1>9. CASE Work
  <2>1. /\ todo \in Seq(CallSet) /\ todo # <<>> /\ todo' = Tail(todo) /\ 1 \in 1 .. Len(todo)
        /\ parts' = (parts \ todo[1].drop) \union todo[1].put /\ UNCHANGED <<stack, cmd, outcome, plan>>
    BY <1>9, WorkFacts DEF IInv
  <2>2. Setting \notin todo[1].drop
    <3>1. cmd # "destroy" /\ "table" \notin Role \union {"gateway", "lt"}
      BY <1>1, <2>1, Kinds, KindsApart DEF Others
    <3> QED
      BY <2>1, <3>1, AnyCall DEF Setting, Permission
  <2>3. SettingsNeeded
    BY <1>1, <2>1 DEF SettingsNeeded
  <2>4. Settles(todo) => Setting \in todo[1].put \/ Settles(todo')
    BY <2>1, SettlesTail
  <2> QED
    BY <2>1, <2>2, <2>3, <2>4 DEF SettingsKept
<1>10. CASE WorkQuietly
  <2>1. /\ todo \in Seq(CallSet) /\ todo # <<>> /\ todo' = Tail(todo) /\ ErrorIgnored(todo[1])
        /\ UNCHANGED <<stack, cmd, outcome, plan, parts>>
    BY <1>10, QuietFacts DEF IInv
  <2>2. Setting \notin todo[1].put
    <3>1. "table" \notin {"key"} \union Lambda
      BY Kinds, KindsApart DEF Others
    <3>2. \A c : ErrorIgnored(c) => \A x \in c.put : x[1] \in {"key"} \union Lambda
      BY IgnoredPut
    <3> QED
      BY <2>1, <3>1, <3>2 DEF Setting
  <2>3. SettingsNeeded
    BY <1>1, <2>1 DEF SettingsNeeded
  <2>4. Settles(todo) => Setting \in todo[1].put \/ Settles(todo')
    BY <2>1, SettlesTail
  <2> QED
    BY <2>1, <2>2, <2>3, <2>4 DEF SettingsKept
<1>11. CASE UNCHANGED vars
  BY <1>1, <1>11 DEF vars, awsVars, ensureVars, SettingsKept, SettingsNeeded
<1> QED
  BY <1>2, <1>3, <1>4, <1>5, <1>6, <1>7, <1>8, <1>9, <1>10, <1>11 DEF Next

(* The record is put only when the settings are there. *)
LEMMA RecordPuts ==
    ASSUME IInv, SettingsKept, NEW i \in 1 .. Len(todo), Record \in todo[i].put
    PROVE  Setting \in parts /\ cmd # "destroy"
<1> DEFINE c == todo[i]
<1>1. Record \in c.put /\ Record[1] = "alb"
  BY DEF Record
<1>2. cmd # "destroy"
  <2>1. \A x \in Old \union Of("rule", {"stale"}) : x[1] # "alb"
    BY OfFacts DEF Old
  <2> QED
    BY <1>1, <2>1, AnyCall
<1>3. stack # <<>>
  <2>1. OutsideCall(c) /\ cmd # "destroy" => \A x \in c.put : x[1] # "alb"
    BY DEF OutsideCall
  <2>2. stack = <<>> => OutsideCall(c)
    BY AnyCall
  <2> QED
    BY <1>1, <1>2, <2>1, <2>2
<1>4. EnsureCall(Top.r, c)
  BY <1>3, AnyCall
<1> HIDE DEF c
<1>5. Top.r = "alb"
  BY <1>1, <1>4, EnsureDrops DEF Touched
<1>6. stack[1].r # "table"
  BY <1>3, <1>5, TableTree DEF IInv
<1>7. outcome = "running" /\ cmd \in {"import", "update", "dryUpdate"}
  BY <1>3 DEF IInv, BInv, Control
<1>8. cmd = "import" => Len(plan) = 2
  BY <1>3, <1>6 DEF IInv, BInv, Position
<1>9. SettingsNeeded
  <2>1. cmd = "import" => Len(plan) <= 3
    <3>1. 2 <= 3
      OBVIOUS
    <3> QED
      BY <1>8, <3>1
  <2> QED
    BY <1>7, <2>1 DEF SettingsNeeded
<1> QED
  BY <1>2, <1>3, <1>9 DEF SettingsKept

(* Only destroy drops the settings, and when the record is gone. *)
LEMMA SettingDrops ==
    ASSUME IInv, NEW i \in 1 .. Len(todo), Setting \in todo[i].drop
    PROVE  cmd = "destroy"
<1>1. "table" \notin Role \union {"gateway", "lt"}
  BY Kinds, KindsApart DEF Others
<1> QED
  BY <1>1, AnyCall DEF Setting, Permission

LEMMA RecordNext ==
    ASSUME IInv, Cleaning, SettingsKept, RecordKept, [Next]_vars
    PROVE  RecordKept'
<1> DEFINE t == todo'
<1> SUFFICES /\ Record \in parts' => Setting \in parts'
             /\ \A i \in 1 .. Len(t) : Setting \in t[i].drop => Record \notin parts'
  BY DEF RecordKept, Record, Setting
<1>1. CASE Work
  <2> DEFINE c == todo[1]
  <2>1. /\ todo \in Seq(CallSet) /\ todo # <<>> /\ t = Tail(todo) /\ 1 \in 1 .. Len(todo)
        /\ parts' = (parts \ c.drop) \union c.put
    BY <1>1, WorkFacts DEF IInv
  <2>2. \A i \in 1 .. Len(t) : i + 1 \in 1 .. Len(todo) /\ t[i] = todo[i + 1]
    BY <2>1, TodoTail
  <2>3. /\ Record \in c.put => Setting \in parts /\ cmd # "destroy"
        /\ Setting \in c.drop => cmd = "destroy" /\ Record \notin parts
    BY <2>1, RecordPuts, SettingDrops DEF RecordKept
  <2> HIDE DEF c, t
  <2>4. Record \in parts' => Setting \in parts'
    BY <2>1, <2>3 DEF RecordKept
  <2>5. ASSUME NEW i \in 1 .. Len(t), Setting \in t[i].drop PROVE Record \notin parts'
    <3>1. i + 1 \in 1 .. Len(todo) /\ Setting \in todo[i + 1].drop
      BY <2>2, <2>5
    <3>2. cmd = "destroy" /\ Record \notin parts
      BY <3>1, SettingDrops DEF RecordKept
    <3> QED
      BY <2>1, <2>3, <3>2
  <2> QED
    BY <2>4, <2>5
<1>2. CASE WorkQuietly
  <2>1. todo \in Seq(CallSet) /\ todo # <<>> /\ t = Tail(todo) /\ parts' = parts
    BY <1>2, QuietFacts DEF IInv
  <2>2. \A i \in 1 .. Len(t) : i + 1 \in 1 .. Len(todo) /\ t[i] = todo[i + 1]
    BY <2>1, TodoTail
  <2> HIDE DEF t
  <2> QED
    BY <2>1, <2>2 DEF RecordKept
<1>3. CASE Proceed
  <2>1. /\ outcome = "running" /\ stack = <<>> /\ todo = <<>> /\ plan # <<>> /\ parts' = parts /\ OfCommand(t)
        /\ cmd # "destroy" => \A i \in 1 .. Len(t) : t[i].drop = {}
        /\ cmd = "destroy" => Keeps(Head(plan), t)
    BY <1>3, ProceedFacts
  <2> HIDE DEF t
  <2>2. ASSUME NEW i \in 1 .. Len(t), Setting \in t[i].drop PROVE Record \notin parts
    <3>1. cmd = "destroy"
      BY <2>1, <2>2
    <3>2. t[i].r \in About(Head(plan)) /\ "table" \in Near(t[i].r)
      <4>1. OutsideCall(t[i])
        BY <2>1 DEF OfCommand
      <4> QED
        BY <2>1, <2>2, <3>1, <4>1 DEF Keeps, OutsideCall, Setting
    <3>3. t[i].r = "table"
      <4>1. "table" \notin RoleUser
        BY Kinds, KindsApart DEF Others
      <4> QED
        BY <3>2, <4>1 DEF Near
    <3>4. Head(plan) \in Clean
      BY <2>1, <3>1, HeadKinds DEF IInv
    <3>5. Head(plan) = "db"
      BY <3>2, <3>3, <3>4, AboutIs
    <3> DEFINE n == Len(plan)
    <3>6. n \in 1 .. 11 /\ DestroyPlan[12 - n] = "db"
      BY <2>1, <3>1, <3>5, PlanFacts DEF IInv
    <3> HIDE DEF n
    <3>7. 12 - n \in 1 .. 11
      BY <3>6
    <3>8. 12 - n = 10
      BY <3>6, <3>7, DestroyPlanIs
    <3>10. 1 + n <= 11
      BY <3>6, <3>8
    <3>11. 1 + Len(plan) <= 11
      BY <3>10 DEF n
    <3>9. \A p : p \in CleanedAlb(DestroyPlan[1]) => ~Has("alb", p)
      BY <2>1, <3>1, <3>4, <3>11, CleanedBefore
    <3> QED
      BY <3>9, DestroyPlanIs, CleanedIs DEF Has, Record
  <2> QED
    BY <2>1, <2>2 DEF RecordKept
<1>4. CASE Decided
  <2>1. Fine(Top.r, t) /\ parts' = parts
    BY <1>4, DecidedFacts
  <2> HIDE DEF t
  <2>2. ASSUME NEW i \in 1 .. Len(t) PROVE Setting \notin t[i].drop
    <3>1. EnsureCall(Top.r, t[i])
      BY <2>1 DEF Fine, InEnsure
    <3>2. "table" \notin Role \union {"gateway", "lt"}
      BY Kinds, KindsApart DEF Others
    <3> QED
      BY <3>1, <3>2, EnsureDrops DEF Setting, Permission
  <2> QED
    BY <2>1, <2>2 DEF RecordKept
<1>5. CASE NothingLeft
  <2>1. Setting \in parts => Setting \in parts'
    BY <1>5 DEF NothingLeft, Setting
  <2>2. t = <<>> /\ parts' \subseteq parts
    BY <1>5 DEF NothingLeft
  <2> HIDE DEF t
  <2> QED
    BY <2>1, <2>2 DEF RecordKept
<1>6. CASE UNCHANGED vars
  <2>1. t = todo /\ parts' = parts
    BY <1>6 DEF vars, awsVars
  <2> HIDE DEF t
  <2> QED
    BY <2>1 DEF RecordKept
<1> QED
  BY <1>1, <1>2, <1>3, <1>4, <1>5, <1>6, StepKinds

(* The key is there as long as the table, unless destroy did not find it.  *)
KeyKept ==
    /\ Exists("table") => Exists("key") \/ "table" \in missed
    /\ stack = <<>> /\ Removing(todo, "key") /\ Exists("table") => "table" \in missed

(* The table is created after its key. *)
LEMMA TableOnKey ==
    ASSUME IInv, stack # <<>>, Top.step = "work", Top.r = "table"
    PROVE  Exists("key")
<1>1. /\ P!IInv /\ ~P!Idle /\ P!At("work") /\ P!Top = Top /\ Types
  BY StackFacts DEF IInv, BInv, P!At
<1>2. P!SubsOf(Top.r) \subseteq visited
  <2>1. P!Top.step # "subresources"
    BY <1>1
  <2> QED
    BY <1>1, <2>1, TreeAssumptions, P!SubsVisited
<1>3. "key" \in P!SubsOf("table")
  <2>1. "table" \in Resource /\ "table" \notin Role \union Lambda
    BY Kinds, KindsApart DEF Others
  <2>2. Sub["table"] = <<"key">>
    BY <2>1 DEF Sub
  <2> QED
    BY <2>2 DEF P!SubsOf
<1>4. ~dry
  <2>1. "table" \notin Grouping
    BY DEF Grouping
  <2> QED
    BY <1>1, <2>1 DEF P!IInv, P!TagsRight, P!DryWork
<1>5. P!AtTarget("key")
  BY <1>1, <1>2, <1>3, <1>4 DEF P!IInv, P!TagsRight, P!VisitedDeployed
<1>6. "key" \in Resource /\ "key" \notin Grouping /\ "key" # "alb"
  BY Kinds DEF Others, Grouping
<1> QED
  BY <1>1, <1>5, <1>6, AtTargetIs DEF Types, Exists

LEMMA KeyNext ==
    ASSUME IInv, Cleaning, KeyKept, [Next]_vars
    PROVE  KeyKept'
<1> DEFINE t == todo'
<1> SUFFICES /\ tag'["table"] # 0 => tag'["key"] # 0 \/ "table" \in missed'
             /\ stack' = <<>> /\ Removing(t, "key") /\ tag'["table"] # 0 => "table" \in missed'
  BY DEF KeyKept, Exists, Removing
<1>0. "table" \in Resource /\ "key" \in Resource
  BY Kinds DEF Others
<1>1. CASE Work
  <2> DEFINE c == todo[1]
  <2>1. /\ todo \in Seq(CallSet) /\ todo # <<>> /\ t = Tail(todo) /\ 1 \in 1 .. Len(todo)
        /\ c # Stop /\ c.r \in Resource
        /\ \A r \in Resource : tag'[r] = IF r = c.r THEN c.version ELSE tag[r]
        /\ UNCHANGED <<stack, missed>> /\ Types /\ BInv
    BY <1>1, WorkFacts DEF IInv, BInv
  <2>2. CASE stack # <<>>
    <3>1. EnsureCall(Top.r, c) /\ Top.step = "work" /\ Top.r \in Resource
      BY <2>1, <2>2, AnyCall
    <3> HIDE DEF c, t
    <3>2. /\ c.r # Top.r => c.version = tag[c.r]
          /\ c.r = Top.r /\ c.version \notin {tag[Top.r], target[Top.r]} => Top.r = "gateway"
      BY <2>1, <2>2, <3>1, EnsureTag
    <3>3. target["key"] # 0
      BY <1>0, <2>1 DEF Types
    <3>4. Exists("key") => tag'["key"] # 0
      BY <1>0, <2>1, <3>2, <3>3 DEF Exists
    <3>5. tag'["table"] # 0 => Exists("table") \/ Top.r = "table"
      BY <1>0, <2>1, <3>2 DEF Exists
    <3>6. Top.r = "table" => Exists("key")
      BY <2>2, <3>1, TableOnKey
    <3> QED
      BY <2>1, <2>2, <3>4, <3>5, <3>6 DEF KeyKept
  <2>3. CASE stack = <<>>
    <3>1. c.version \in {0, tag[c.r]}
      BY <2>1, <2>3, AnyCall DEF OutsideCall
    <3>2. c.r = "key" /\ c.version = 0 => Removing(todo, "key")
      BY <2>1 DEF Removing
    <3>3. \A i \in 1 .. Len(t) : i + 1 \in 1 .. Len(todo) /\ t[i] = todo[i + 1]
      BY <2>1, TodoTail
    <3> HIDE DEF c, t
    <3>4. Removing(t, "key") => Removing(todo, "key")
      BY <3>3 DEF Removing
    <3>5. tag'["table"] # 0 => Exists("table")
      BY <1>0, <2>1, <3>1 DEF Exists
    <3>6. Exists("key") => tag'["key"] # 0 \/ Removing(todo, "key")
      BY <1>0, <2>1, <3>1, <3>2 DEF Exists
    <3> QED
      BY <2>1, <2>3, <3>4, <3>5, <3>6 DEF KeyKept
  <2> QED
    BY <2>2, <2>3
<1>2. CASE WorkQuietly
  <2>1. todo \in Seq(CallSet) /\ todo # <<>> /\ t = Tail(todo) /\ UNCHANGED <<tag, stack, missed>>
    BY <1>2, QuietFacts DEF IInv
  <2>2. \A i \in 1 .. Len(t) : i + 1 \in 1 .. Len(todo) /\ t[i] = todo[i + 1]
    BY <2>1, TodoTail
  <2> HIDE DEF t
  <2>3. Removing(t, "key") => Removing(todo, "key")
    BY <2>2 DEF Removing
  <2> QED
    BY <2>1, <2>3 DEF KeyKept, Exists
<1>3. CASE Proceed
  <2>1. /\ outcome = "running" /\ stack = <<>> /\ todo = <<>> /\ plan # <<>> /\ tag' = tag /\ missed \subseteq missed'
        /\ cmd # "destroy" => \A i \in 1 .. Len(t) : t[i].r \in {"table", "asg"}
        /\ cmd = "destroy" => Keeps(Head(plan), t)
    BY <1>3, ProceedFacts
  <2> HIDE DEF t
  <2>2. ASSUME Removing(t, "key"), Exists("table") PROVE "table" \in missed
    <3>1. PICK i \in 1 .. Len(t) : t[i].r = "key"
      BY <2>2 DEF Removing
    <3>2. cmd = "destroy"
      BY <2>1, <3>1
    <3>3. Head(plan) \in Clean
      BY <2>1, <3>2, HeadKinds DEF IInv
    <3>4. "key" \in About(Head(plan))
      BY <2>1, <3>1, <3>2 DEF Keeps
    <3>5. Head(plan) = "kms"
      BY <3>3, <3>4, AboutIs
    <3> DEFINE n == Len(plan)
    <3>6. n \in 1 .. 11 /\ DestroyPlan[12 - n] = "kms"
      BY <2>1, <3>2, <3>5, PlanFacts DEF IInv
    <3> HIDE DEF n
    <3>7. 12 - n \in 1 .. 11
      BY <3>6
    <3>8. 12 - n = 11
      BY <3>6, <3>7, DestroyPlanIs
    <3>10. 10 + n <= 11
      BY <3>6, <3>8
    <3>11. 10 + Len(plan) <= 11
      BY <3>10 DEF n
    <3>9. \A r \in Cleaned(DestroyPlan[10]) : ~Exists(r) \/ r \in missed
      BY <2>1, <3>2, <3>3, <3>11, CleanedBefore
    <3> QED
      BY <2>2, <3>9, DestroyPlanIs, CleanedIs
  <2> QED
    BY <2>1, <2>2 DEF KeyKept, Exists
<1>4. CASE Decided
  <2>1. stack' # <<>> /\ UNCHANGED <<tag, missed>>
    BY <1>4, DecidedFacts
  <2> QED
    BY <2>1 DEF KeyKept, Exists
<1>5. CASE NothingLeft
  <2>1. t = <<>> /\ UNCHANGED <<tag, missed>>
    BY <1>5 DEF NothingLeft
  <2> HIDE DEF t
  <2> QED
    BY <2>1 DEF KeyKept, Exists, Removing
<1>6. CASE UNCHANGED vars
  <2>1. t = todo /\ UNCHANGED <<tag, missed, stack>>
    BY <1>6 DEF vars, awsVars, ensureVars, history
  <2> HIDE DEF t
  <2> QED
    BY <2>1 DEF KeyKept, Exists
<1> QED
  BY <1>1, <1>2, <1>3, <1>4, <1>5, <1>6, StepKinds

-----------------------------------------------------------------------------
DInv == Cleaning /\ SettingsKept /\ RecordKept /\ KeyKept

(* The inductive invariant, next to IInv, of what a destroy has removed    *)
(* and of what the commands keep for each other.                           *)
THEOREM DInvCorrect == Spec => []DInv
<1>1. ASSUME Init PROVE DInv
  <2>1. Cleaning /\ SettingsKept
    BY <1>1 DEF Init, Cleaning, SettingsKept, SettingsNeeded
  <2>2. RecordKept
    BY <1>1 DEF Init, RecordKept
  <2>3. KeyKept
    <3>1. "table" \in Resource /\ todo = <<>>
      BY <1>1, Kinds DEF Init, Others
    <3>2. tag["table"] = 0
      BY <1>1, <3>1 DEF Init
    <3> QED
      BY <3>2 DEF KeyKept, Exists
  <2> QED
    BY <2>1, <2>2, <2>3 DEF DInv
<1>2. IInv /\ DInv /\ [Next]_vars => DInv'
  BY CleaningNext, SettingsNext, RecordNext, KeyNext DEF DInv
<1> QED
  BY <1>1, <1>2, IInvCorrect, PTL DEF Spec

(***************************************************************************)
(* NeededIsKept: at every moment the settings are there as long as the     *)
(* record that destroy finds by them, and the key as long as the table.    *)
(***************************************************************************)
THEOREM NeededCorrect == Spec => []NeededIsKept
<1>1. DInv /\ TypeOK => NeededIsKept
  BY DEF DInv, RecordKept, KeyKept, NeededIsKept, Has, Record, Setting
<1> QED
  BY <1>1, DInvCorrect, TypeCorrect, PTL

(* The step of destroy that removes a resource. *)
LEMMA CleanedAtEnd ==
    ASSUME NEW r \in Resource \ (Grouping \union {"alb"})
    PROVE  \E k \in 1 .. 11 : r \in Cleaned(DestroyPlan[k])
<1>1. /\ DestroyPlan[2] = "iam" /\ DestroyPlan[3] = "lambdas" /\ DestroyPlan[4] = "gateway"
      /\ DestroyPlan[5] = "lt" /\ DestroyPlan[6] = "sm" /\ DestroyPlan[7] = "rule"
      /\ DestroyPlan[8] = "asg" /\ DestroyPlan[10] = "db" /\ DestroyPlan[11] = "kms"
  BY DEF DestroyPlan
<1>2. CASE r \in Role \union Lambda
  <2>1. Cleaned(DestroyPlan[2]) = Role /\ Cleaned(DestroyPlan[3]) = Lambda /\ 2 \in 1 .. 11 /\ 3 \in 1 .. 11
    BY <1>1, CleanedIs
  <2> QED
    BY <1>2, <2>1
<1>3. CASE r \in Others
  <2>1. r \in {"sm", "rule", "gateway", "lt", "asg", "table", "key"}
    BY <1>3 DEF Others
  <2>2. /\ "gateway" \in Cleaned(DestroyPlan[4]) /\ "lt" \in Cleaned(DestroyPlan[5])
        /\ "sm" \in Cleaned(DestroyPlan[6]) /\ "rule" \in Cleaned(DestroyPlan[7])
        /\ "asg" \in Cleaned(DestroyPlan[8]) /\ "table" \in Cleaned(DestroyPlan[10])
        /\ "key" \in Cleaned(DestroyPlan[11])
    BY <1>1, CleanedIs
  <2>3. {4, 5, 6, 7, 8, 10, 11} \subseteq 1 .. 11
    OBVIOUS
  <2> QED
    BY <2>1, <2>2, <2>3
<1> QED
  BY <1>2, <1>3, Kinds

(***************************************************************************)
(* DestroyRemovesAll: a destroy that succeeds, after any number of         *)
(* interrupted commands, leaves what its listings left out, and the usage  *)
(* plan and the key of a gateway whose deletion once stopped.              *)
(***************************************************************************)
THEOREM DestroyCorrect == Spec => []DestroyRemovesAll
<1>1. ASSUME IInv, DInv, Succeeded("destroy")
      PROVE  /\ \A r \in Resource : Exists(r) => r \in missed
             /\ \A x \in parts : x[1] \in missed \/ x \in Old
  <2>1. cmd = "destroy" /\ outcome = "ok" /\ plan = <<>> /\ todo = <<>>
    BY <1>1 DEF Succeeded, IInv, BInv, Control
  <2>2. \A k \in 1 .. 11 : StepCleans(k)
    <3>1. \A k \in 1 .. 11 : Len(plan) <= 11 - k
      BY <2>1
    <3> QED
      BY <1>1, <2>1, <3>1 DEF DInv, Cleaning
  <2>3. \A r : ~Removing(todo, r) /\ ~Dropping(todo, r)
    BY <2>1 DEF Removing, Dropping
  <2>4. ASSUME NEW r \in Resource, Exists(r) PROVE r \in missed
    <3>1. r \notin Grouping \union {"alb"}
      BY <1>1, <2>4 DEF IInv, BInv, TagsKnown, Exists
    <3>2. PICK k \in 1 .. 11 : r \in Cleaned(DestroyPlan[k])
      BY <3>1, CleanedAtEnd
    <3>3. Gone(r)
      BY <2>2, <3>2 DEF StepCleans
    <3> QED
      BY <2>3, <2>4, <3>3 DEF Gone
  <2>5. \A p \in AlbParts : ~Has("alb", p)
    <3>1. DestroyPlan[1] = "record" /\ DestroyPlan[9] = "alb" /\ 1 \in 1 .. 11 /\ 9 \in 1 .. 11
      BY DEF DestroyPlan
    <3>2. CleanedAlb(DestroyPlan[1]) = {"record"} /\ CleanedAlb(DestroyPlan[9]) = {"lb", "tg", "listener"}
      BY <3>1, CleanedIs
    <3>3. \A p \in {"record", "lb", "tg", "listener"} : Lost(p)
      BY <2>2, <3>1, <3>2 DEF StepCleans
    <3>4. AlbParts \subseteq {"record", "lb", "tg", "listener"}
      BY DEF AlbParts
    <3> QED
      BY <2>3, <3>3, <3>4 DEF Lost
  <2>6. ASSUME NEW x \in parts PROVE x[1] \in missed \/ x \in Old
    <3>1. x[1] = "alb" \/ x \in Old \/ Exists(x[1])
      BY <1>1 DEF IInv, BInv, Owned
    <3>2. x[1] \in Resource /\ x[2] \in Names(x[1]) /\ x = <<x[1], x[2]>>
      BY <1>1, PartFacts DEF IInv, BInv, Types
    <3>3. x[1] # "alb"
      <4>1. x[1] = "alb" => x[2] \in AlbParts /\ Has("alb", x[2])
        BY <3>2, NamesOf DEF Has
      <4> QED
        BY <2>5, <4>1
    <3> QED
      BY <2>4, <3>1, <3>2, <3>3
  <2> QED
    BY <2>4, <2>6
<1>2. IInv /\ DInv => DestroyRemovesAll
  BY <1>1 DEF DestroyRemovesAll, Old
<1> QED
  BY <1>2, IInvCorrect, DInvCorrect, PTL

-----------------------------------------------------------------------------
(***************************************************************************)
(* What the resources that EnsureResource has gone through show: a lambda  *)
(* and the state machine that their role is there, the rule a live target, *)
(* and the gateway the policy of the join lambda.                          *)
(***************************************************************************)
Users == RoleUser \union {"gateway"}
Marks(u) == IF u = "rule" THEN Of("rule", {"target", "again"})
            ELSE IF u = "gateway" THEN {Policy} ELSE {<<u, "role">>}
Live(u) == Marks(u) \intersect parts # {}
Reviving(s, u) == \E i \in 1 .. Len(s) : Marks(u) \intersect s[i].put # {}
Visits == ~dry => \A u \in visited \intersect Users : Live(u)
Reaches ==
    stack # <<>> /\ ~dry /\ Top.r \in Users =>
        /\ Top.step = "work" => Live(Top.r) \/ Reviving(todo, Top.r)
        /\ Top.step = "return" => Live(Top.r)
LiveInv == Visits /\ Reaches

LEMMA MarksFacts ==
    ASSUME NEW u \in Users, NEW x \in Marks(u)
    PROVE  x[1] \notin Role \union {"gateway", "lt"} /\ x # Permission /\ x[2] \notin {"alias", "runtime"}
<1>1. ({"rule", "join", "sm"} \union Lambda) \intersect (Role \union {"gateway", "lt"}) = {}
  BY Kinds, KindsApart DEF Others
<1>2. CASE u = "rule"
  BY <1>1, <1>2, OfFacts DEF Marks, Permission
<1>3. CASE u = "gateway"
  BY <1>1, <1>3 DEF Marks, Policy, Permission
<1>4. CASE u \in Lambda \union {"sm"} /\ u # "rule" /\ u # "gateway"
  BY <1>1, <1>4 DEF Marks, Permission
<1> QED
  BY <1>2, <1>3, <1>4, Kinds DEF Users

LEMMA RevivingTail ==
    ASSUME NEW s \in Seq(CallSet), s # <<>>, NEW u, Reviving(s, u)
    PROVE  Marks(u) \intersect s[1].put # {} \/ Reviving(Tail(s), u)
<1> DEFINE t == Tail(s)
<1>1. \A j \in 1 .. Len(s) : j = 1 \/ (j - 1 \in 1 .. Len(t) /\ t[j - 1] = s[j])
  BY TodoTail
<1> HIDE DEF t
<1>2. PICK j \in 1 .. Len(s) : Marks(u) \intersect s[j].put # {}
  BY DEF Reviving
<1>3. Marks(u) \intersect s[1].put # {} \/ Reviving(t, u)
  BY <1>1, <1>2 DEF Reviving
<1> QED
  BY <1>3 DEF t

LEMMA RevivingConcat ==
    ASSUME NEW s \in Seq(CallSet), NEW t \in Seq(CallSet), NEW u, Reviving(s, u) \/ Reviving(t, u)
    PROVE  Reviving(s \o t, u)
<1> DEFINE w == s \o t
<1>1. /\ \A i \in 1 .. Len(s) : i \in 1 .. Len(w) /\ w[i] = s[i]
      /\ \A i \in 1 .. Len(t) : Len(s) + i \in 1 .. Len(w) /\ w[Len(s) + i] = t[i]
  BY ConcatFacts
<1> HIDE DEF w
<1>2. Reviving(w, u)
  BY <1>1 DEF Reviving
<1> QED
  BY <1>2 DEF w

(* Create or Update of such a resource puts its mark when it is missing.   *)
LEMMA LambdaRevives ==
    ASSUME Types, TagsKnown, NEW l \in Lambda, NEW s \in LambdaWorks(l)
    PROVE  Live(l) \/ Reviving(s, l)
<1>0. l \in Resource /\ Marks(l) = {<<l, "role">>}
      /\ Names(l) = {"role", "runtime", "arch", "tableName", "policy", "permission"}
  BY Kinds, KindsApart, NamesOf DEF Others, Marks
<1>1. CASE ~Exists(l)
  <2>1. PICK tableName \in {{"tableName"}, {}} :
          s = <<Call(l, target[l], Of(l, {"role", "runtime", "arch"} \union tableName), {})>>
    BY <1>1 DEF LambdaWorks, CreateLambda
  <2> DEFINE ps == {"role", "runtime", "arch"} \union tableName
             c == Call(l, target[l], Of(l, ps), {})
  <2>2. <<l, "role">> \in c.put
    BY OfFacts DEF Call
  <2>3. s = <<c>>
    BY <2>1
  <2> HIDE DEF ps, c
  <2>4. Len(s) = 1 /\ s[1] = c
    BY <2>3
  <2> QED
    BY <1>0, <2>2, <2>4 DEF Reviving
<1>2. CASE Exists(l)
  <2>1. s = UpdateLambda(l)
    BY <1>2 DEF LambdaWorks, Exists
  <2> DEFINE c == Puts(l, {"role"})
             before == When(~Has(l, "runtime"), UpdateLambdaRuntime(l)) \o When(~Has(l, "arch"), UpdateLambdaArchitecture(l))
             ro == When(~Has(l, "role"), UpdateLambdaRole(l))
             ha == When(tag[l] # target[l], UpdateLambdaHandler(l))
  <2>2. s = (before \o ro) \o ha
    BY <2>1 DEF UpdateLambda
  <2>3. \A ps \in SUBSET {"role", "runtime", "arch"} : Puts(l, ps) \in CallSet
    BY <1>0, Calls
  <2>4. Puts(l, {"runtime"}) \in CallSet /\ Puts(l, {"arch"}) \in CallSet /\ c \in CallSet
        /\ Puts(l, {}) \in CallSet /\ Tags(l) \in CallSet
    BY <1>0, <2>3, Calls
  <2>5. /\ When(~Has(l, "runtime"), UpdateLambdaRuntime(l)) \in Seq(CallSet)
        /\ When(~Has(l, "arch"), UpdateLambdaArchitecture(l)) \in Seq(CallSet)
        /\ ro \in Seq(CallSet) /\ ha \in Seq(CallSet)
    <3>1. /\ UpdateLambdaRuntime(l) \in Seq(CallSet) /\ UpdateLambdaArchitecture(l) \in Seq(CallSet)
          /\ UpdateLambdaRole(l) \in Seq(CallSet) /\ UpdateLambdaHandler(l) \in Seq(CallSet)
      BY <2>4, Tuples DEF UpdateLambdaRuntime, UpdateLambdaArchitecture, UpdateLambdaRole, UpdateLambdaHandler
    <3> QED
      BY <3>1, WhenIsSeq
  <2>6. before \in Seq(CallSet)
    BY <2>5, ConcatFacts
  <2>7. ~Has(l, "role") => Reviving(ro, l)
    <3>1. <<l, "role">> \in c.put
      BY <1>0, Calls, OfFacts
    <3>2. ~Has(l, "role") => ro = <<c>>
      BY DEF When, UpdateLambdaRole
    <3> HIDE DEF c, ro
    <3> QED
      BY <1>0, <3>1, <3>2 DEF Reviving
  <2>8. Has(l, "role") => Live(l)
    BY <1>0 DEF Live, Has
  <2> HIDE DEF before, ro, ha
  <2>9. before \o ro \in Seq(CallSet)
    BY <2>5, <2>6, ConcatFacts
  <2>10. Reviving(ro, l) => Reviving(s, l)
    BY <2>2, <2>5, <2>6, <2>9, RevivingConcat
  <2> QED
    BY <2>7, <2>8, <2>10
<1> QED
  BY <1>1, <1>2

LEMMA GatewayParts ==
    ASSUME Types
    PROVE  CreateRestApiGateway \in Seq(CallSet) /\ AddLambdaInvokePermissions \in Seq(CallSet)
<1>1. "gateway" \in Resource /\ "join" \in Resource
      /\ Names("gateway") = {"deployment", "plan", "key", "planKey", "oldPlan", "oldKey"}
      /\ {"policy", "permission"} \subseteq Names("join")
  BY Kinds, NamesOf DEF Others
<1>2. \A p \in {"deployment", "plan", "key", "planKey"} : GatewayCall(p) \in CallSet
  <2> SUFFICES ASSUME NEW p \in {"deployment", "plan", "key", "planKey"} PROVE GatewayCall(p) \in CallSet
    OBVIOUS
  <2>1. {p} \subseteq Names("gateway")
    BY <1>1
  <2> QED
    BY <1>1, <2>1, Calls DEF GatewayCall
<1>3. Tags("gateway") \in CallSet
  <2>1. {} \subseteq Names("gateway")
    OBVIOUS
  <2> QED
    BY <1>1, <2>1, Calls
<1>4. Puts("join", {"policy", "permission"}) \in CallSet
  BY <1>1, Calls
<1> QED
  BY <1>2, <1>3, <1>4 DEF CreateRestApiGateway, AddLambdaInvokePermissions

(* The gateway is made with the policy of the join lambda. *)
LEMMA GatewayRevives ==
    ASSUME Types, NEW s \in GatewayWorks
    PROVE  Reviving(s, "gateway")
<1>1. Reviving(AddLambdaInvokePermissions, "gateway")
  <2> DEFINE c == Puts("join", {"policy", "permission"})
  <2>1. Policy \in c.put
    BY OfFacts DEF Policy, Puts, Call
  <2>2. AddLambdaInvokePermissions = <<c>> /\ Marks("gateway") = {Policy}
    BY DEF AddLambdaInvokePermissions, Marks
  <2> HIDE DEF c
  <2> QED
    BY <2>1, <2>2 DEF Reviving
<1>2. /\ CreateRestApiGateway \in Seq(CallSet) /\ AddLambdaInvokePermissions \in Seq(CallSet)
      /\ DeleteRestApiGateway \in Seq(CallSet) /\ CreateJoinApi \in Seq(CallSet)
  BY RemovesGateway, MakesGateway, GatewayParts
<1>3. Reviving(CreateJoinApi, "gateway")
  BY <1>1, <1>2, RevivingConcat DEF CreateJoinApi
<1>4. Reviving(ReCreateGateway, "gateway")
  BY <1>2, <1>3, RevivingConcat DEF ReCreateGateway
<1> QED
  BY <1>3, <1>4 DEF GatewayWorks

LEMMA RuleRevives ==
    ASSUME Types, NEW s \in RuleWorks
    PROVE  Reviving(s, "rule")
<1>0. "rule" \in Resource /\ {IF Has("rule", "target") THEN "again" ELSE "target"} \subseteq Names("rule")
  BY Kinds, NamesOf DEF Others, RuleTargets
<1>1. ASSUME NEW v
      PROVE  Reviving(PutTargets(v), "rule")
  <2> DEFINE c == PutTargets(v)[1]
  <2>1. PutTargets(v) = <<c>>
    BY DEF PutTargets
  <2>2. c.put = Of("rule", {IF Has("rule", "target") THEN "again" ELSE "target"})
    BY DEF PutTargets, Call
  <2>3. (IF Has("rule", "target") THEN <<"rule", "again">> ELSE <<"rule", "target">>) \in c.put
    BY <2>2, OfFacts
  <2>4. <<"rule", "again">> \in Marks("rule") /\ <<"rule", "target">> \in Marks("rule")
    BY OfFacts DEF Marks
  <2> HIDE DEF c
  <2> QED
    BY <2>1, <2>3, <2>4 DEF Reviving
<1>2. PutTargets(target["rule"]) \in Seq(CallSet) /\ <<Tags("rule")>> \in Seq(CallSet)
  BY <1>0, Calls DEF PutTargets
<1>3. Reviving(CreateCloudWatchEventRule, "rule")
  BY <1>1, <1>2, RevivingConcat DEF CreateCloudWatchEventRule
<1> QED
  BY <1>1, <1>3 DEF RuleWorks

LEMMA WorksRevive ==
    ASSUME Types, TagsKnown, NEW r \in Users, NEW s \in Works(r)
    PROVE  Live(r) \/ Reviving(s, r)
<1>1. /\ r \in Lambda => Works(r) = LambdaWorks(r)
      /\ r = "sm" => Works(r) = StateMachineWorks
      /\ r = "rule" => Works(r) = RuleWorks
      /\ r = "gateway" => Works(r) = GatewayWorks
  BY Kinds, KindsApart DEF Works, RoleNames, LambdaNames, Others
<1>2. CASE r = "sm"
  <2>1. s = CreateStateMachine \/ s = UpdateStateMachineRoleArn
    BY <1>1, <1>2 DEF StateMachineWorks
  <2>2. PICK c : s = <<c>> /\ c.put = Of("sm", {"role"})
    BY <2>1 DEF CreateStateMachine, UpdateStateMachineRoleArn, Puts, Call
  <2>3. <<"sm", "role">> \in c.put /\ Marks("sm") = {<<"sm", "role">>}
    BY <2>2, OfFacts DEF Marks
  <2> QED
    BY <1>2, <2>2, <2>3 DEF Reviving
<1> QED
  BY <1>1, <1>2, LambdaRevives, RuleRevives, GatewayRevives, Kinds DEF Users

(* And one that is left as it is has its mark. *)
LEMMA LeaveLive ==
    ASSUME NEW r \in Users, ~FetchFails(r), MayLeave(r)
    PROVE  Live(r)
<1>1. /\ r \in Lambda => Works(r) = LambdaWorks(r)
      /\ r = "sm" => Works(r) = StateMachineWorks
      /\ r = "rule" => Works(r) = RuleWorks
      /\ r = "gateway" => Works(r) = GatewayWorks
  BY Kinds, KindsApart DEF Works, RoleNames, LambdaNames, Others
<1>2. r \in Lambda => r # "rule" /\ r # "gateway"
  BY Kinds, KindsApart DEF Others
<1>3. CASE r \in Lambda
  <2>1. LambdaWorks(r) = {}
    BY <1>1, <1>2, <1>3 DEF MayLeave
  <2>2. Has(r, "role")
    BY <2>1 DEF LambdaWorks, LambdaIsCurrent
  <2> QED
    BY <1>2, <1>3, <2>2 DEF Live, Marks, Has
<1>4. CASE r = "sm"
  <2>1. StateMachineWorks = {}
    BY <1>1, <1>4 DEF MayLeave
  <2>2. Has("sm", "role")
    BY <2>1 DEF StateMachineWorks, StateMachineIsCurrent
  <2> QED
    BY <1>4, <2>2 DEF Live, Marks, Has
<1>5. CASE r = "gateway"
  <2>1. GatewayWorks = {}
    BY <1>1, <1>5 DEF MayLeave
  <2>2. Has("join", "policy")
    BY <2>1 DEF GatewayWorks, GatewayIsCurrent
  <2> QED
    BY <1>5, <2>2 DEF Live, Marks, Has, Policy
<1>6. CASE r = "rule"
  <2>1. LiveTargets # {} => Live("rule")
    <3> SUFFICES ASSUME NEW p \in {"target", "again"}, <<"rule", p>> \in parts PROVE Live("rule")
      BY DEF LiveTargets, Has
    <3>1. <<"rule", p>> \in Marks("rule")
      BY OfFacts DEF Marks
    <3> QED
      BY <3>1 DEF Live
  <2>2. LiveTargets # {}
    <3>1. CASE FirstTargetIsLive
      BY <3>1 DEF FirstTargetIsLive
    <3>2. CASE Works("rule") = {}
      <4>1. Exists("rule") /\ ~Has("rule", "stale")
        BY <1>1, <1>6, <3>2 DEF RuleWorks, FirstTargetIsStale
      <4>2. \E p \in RuleTargets : Has("rule", p)
        BY <1>6, <4>1 DEF FetchFails, NoTarget
      <4> QED
        BY <4>1, <4>2 DEF RuleTargets, LiveTargets
    <3> QED
      BY <1>6, <3>1, <3>2 DEF MayLeave
  <2> QED
    BY <1>6, <2>1, <2>2
<1> QED
  BY <1>3, <1>4, <1>5, <1>6, Kinds DEF Users

(* After a command has ended or begun, or EnsureResource on a resource. *)
LEMMA LiveFresh ==
    ASSUME visited' = {}, stack' # <<>> => Top'.step = "subresources"
    PROVE  LiveInv'
BY DEF LiveInv, Visits, Reaches

LEMMA LiveKept ==
    ASSUME LiveInv, UNCHANGED <<visited, dry, parts>>, stack' # <<>> => Top'.step = "subresources"
    PROVE  LiveInv'
BY DEF LiveInv, Visits, Reaches, Live, Marks, Policy

LEMMA CommandsFresh ==
    ASSUME IInv, ImportCluster \/ UpdateCluster \/ Destroy \/ Upgrade \/ Ensure
                 \/ CleanerStuck \/ FetchStuck \/ WorkStops \/ Abort
    PROVE  visited' = {} /\ (stack' # <<>> => Top'.step = "subresources")
<1>1. CASE ImportCluster \/ UpdateCluster \/ Destroy \/ Upgrade
  <2>1. Ready /\ visited' = {} /\ stack' = stack
    BY <1>1 DEF ImportCluster, UpdateCluster, Destroy, Upgrade, Begins, Refused
  <2>2. stack = <<>>
    BY <2>1, ReadyFacts DEF IInv
  <2> QED
    BY <2>1, <2>2
<1>2. CASE Ensure
  <2>1. visited' = {} /\ stack' = <<Frame(Head(plan))>>
    BY <1>2 DEF Ensure
  <2>2. Top' = Last(stack')
    BY DEF Top
  <2> QED
    BY <2>1, <2>2, OneFrame
<1>3. CASE CleanerStuck \/ FetchStuck \/ WorkStops \/ Abort
  <2>1. visited' = {} /\ stack' = <<>>
    BY <1>3 DEF CleanerStuck, FetchStuck, WorkStops, Abort, Ends
  <2> QED
    BY <2>1
<1> QED
  BY <1>1, <1>2, <1>3

LEMMA LiveCommands ==
    ASSUME IInv, ImportCluster \/ UpdateCluster \/ Destroy \/ Upgrade \/ Ensure
                 \/ CleanerStuck \/ FetchStuck \/ WorkStops \/ Abort
    PROVE  LiveInv'
BY CommandsFresh, LiveFresh

(* A call of EnsureResource starts with the subresources. *)
LEMMA DescendsAnew == ASSUME IInv, Descend PROVE Top'.step = "subresources"
<1> DEFINE f == Frame(Sub[Top.r][Top.done + 1])
<1>1. stack' = Append(stack, f) /\ stack \in Seq(P!Frame) /\ f.step = "subresources"
  <2>1. stack # <<>> /\ stack' = Append(stack, f)
    BY DEF Descend, At
  <2> QED
    BY <2>1, StackFacts DEF IInv, Frame
<1> HIDE DEF f
<1>2. stack \in Seq(P!Frame \union {f})
  BY <1>1, SeqMonotonic
<1>3. Last(stack') = f
  BY <1>1, <1>2, AppendProperties DEF Last
<1> QED
  BY <1>1, <1>3 DEF Top

(* A call of EnsureResource returns to the loop of its caller.             *)
LEMMA ReturnsToLoop ==
    ASSUME IInv, Return, stack' # <<>>
    PROVE  Top'.step = "subresources"
<1> DEFINE b == Below  n == Len(b)  f == Last(b)
<1>1. /\ stack # <<>> /\ b # <<>>
      /\ stack' = Append(Front(b), [f EXCEPT !.done = @ + 1])
  BY DEF Return, At
<1>2. /\ Len(stack) \in Nat \ {0} /\ b \in Seq(P!Frame) /\ n = Len(stack) - 1
      /\ \A i \in 1 .. Len(stack) - 1 : b[i] = stack[i]
  BY <1>1, StackFacts DEF IInv
<1>3. n \in Nat \ {0} /\ f = b[n] /\ f \in P!Frame
  <2>1. n \in Nat \ {0}
    BY <1>1, <1>2, EmptySeq
  <2> QED
    BY <1>2, <2>1, ElementOfSeq DEF Last
<1>4. f.step = "subresources"
  <2>1. n \in 1 .. Len(stack) - 1
    BY <1>2, <1>3
  <2>2. stack[n].step = "subresources"
    BY <2>1 DEF IInv, P!IInv, P!Calls, P!CallsChained
  <2> QED
    BY <1>2, <1>3, <2>1, <2>2
<1> DEFINE g == [f EXCEPT !.done = @ + 1]
<1>5. g \in P!Frame /\ g.step = "subresources"
  BY <1>3, <1>4 DEF P!Frame
<1>6. Front(b) \in Seq(P!Frame)
  <2>1. \A i \in 1 .. n - 1 : b[i] \in P!Frame
    <3>1. \A i \in 1 .. n - 1 : i \in 1 .. n
      BY <1>3
    <3> QED
      BY <1>2, <3>1, ElementOfSeq
  <2>2. Front(b) = SubSeq(b, 1, n - 1)
    BY DEF Front
  <2> QED
    BY <1>2, <1>3, <2>1, <2>2, SubSeqProperties
<1> HIDE DEF b, n, f, g
<1>7. stack' = Append(Front(b), g)
  BY <1>1 DEF g
<1>8. Last(stack') = g
  BY <1>5, <1>6, <1>7, AppendProperties DEF Last
<1> QED
  BY <1>5, <1>8 DEF Top

LEMMA LiveMoves ==
    ASSUME IInv, LiveInv, Descend \/ Worked \/ Return \/ Finish
    PROVE  LiveInv'
<1>1. CASE Descend
  <2>1. UNCHANGED <<visited, dry, parts>> /\ stack # <<>>
    BY <1>1 DEF Descend, At, awsVars
  <2>3. Top'.step = "subresources"
    BY <1>1, DescendsAnew
  <2> QED
    BY <2>1, <2>3, LiveKept
<1>2. CASE Worked
  <2>1. /\ stack # <<>> /\ Top.step = "work" /\ todo = <<>> /\ Decide("return")
        /\ UNCHANGED <<visited, dry, parts>>
    BY <1>2 DEF Worked, At, awsVars
  <2>2. Top'.r = Top.r /\ Top'.step = "return"
    BY <2>1, DecideFacts DEF IInv
  <2>3. ~Reviving(todo, Top.r)
    BY <2>1 DEF Reviving
  <2>4. ~dry /\ Top.r \in Users => Marks(Top.r) \intersect parts # {}
    BY <2>1, <2>3 DEF LiveInv, Reaches, Live
  <2> DEFINE r == Top.r
  <2> HIDE DEF r
  <2>5. Top'.r = r /\ (~dry /\ r \in Users => Marks(r) \intersect parts # {})
    BY <2>2, <2>4 DEF r
  <2>6. Reaches'
    BY <2>1, <2>2, <2>5 DEF Reaches, Live, Marks, Policy
  <2>7. Visits'
    BY <2>1 DEF LiveInv, Visits, Live, Marks, Policy
  <2> QED
    BY <2>6, <2>7 DEF LiveInv
<1>3. CASE Return
  <2>1. /\ stack # <<>> /\ Top.step = "return" /\ visited' = visited \union {Top.r} /\ UNCHANGED <<dry, parts>>
    BY <1>3 DEF Return, At, awsVars
  <2>2. stack' # <<>> => Top'.step = "subresources"
    BY <1>3, ReturnsToLoop
  <2>3. Reaches'
    BY <2>2 DEF Reaches
  <2>4. \A u : ~dry /\ u \in visited' \intersect Users => Marks(u) \intersect parts # {}
    BY <2>1 DEF LiveInv, Visits, Reaches, Live
  <2>5. Visits'
    BY <2>1, <2>4 DEF Visits, Live, Marks, Policy
  <2> QED
    BY <2>3, <2>5 DEF LiveInv
<1>4. CASE Finish
  <2>1. stack' = <<>> /\ UNCHANGED <<visited, dry, parts>>
    BY <1>4 DEF Finish, Between, awsVars, ensureVars
  <2> QED
    BY <2>1, LiveKept
<1> QED
  BY <1>1, <1>2, <1>3, <1>4

LEMMA LiveFetch ==
    ASSUME IInv, LiveInv, Fetch
    PROVE  LiveInv'
<1>1. /\ stack # <<>> /\ Top.step = "subresources" /\ todo = <<>>
      /\ ~FetchFails(Top.r) /\ UNCHANGED <<tag, parts, dry, visited>>
  BY DEF Fetch, At, awsVars
<1> DEFINE r == Top.r  t == todo'
<1>2. \/ t \in Works(r) /\ Decide("work")
      \/ (dry \/ MayLeave(r)) /\ Decide("return")
  BY DEF Fetch
<1>3. \/ t \in Works(r) /\ Top'.r = r /\ Top'.step = "work"
      \/ (dry \/ MayLeave(r)) /\ Top'.r = r /\ Top'.step = "return"
  BY <1>1, <1>2, DecideFacts DEF IInv
<1>4. ~FetchFails(r)
  BY <1>1
<1> HIDE DEF r, t
<1>5. r \in Users /\ ~dry => Live(r) \/ (Top'.step = "work" /\ Reviving(t, r))
  <2>1. CASE t \in Works(r) /\ Top'.r = r /\ Top'.step = "work"
    BY <2>1, WorksRevive DEF IInv, BInv
  <2>2. CASE dry \/ MayLeave(r)
    BY <1>4, <2>2, LeaveLive
  <2> QED
    BY <1>3, <2>1, <2>2
<1>6. r \in Users /\ ~dry => Marks(r) \intersect parts' # {} \/ (Top'.step = "work" /\ Reviving(todo', r))
  BY <1>1, <1>5 DEF Live, t
<1>7. Reaches'
  BY <1>1, <1>3, <1>6 DEF Reaches, Live, Marks, Policy, Reviving
<1>8. Visits'
  BY <1>1 DEF LiveInv, Visits, Live, Marks, Policy
<1> QED
  BY <1>7, <1>8 DEF LiveInv

(* No call of import and update takes a mark away, and none that puts one  *)
(* fails without stopping the command.                                     *)
LEMMA LiveWork ==
    ASSUME IInv, LiveInv, Work
    PROVE  LiveInv'
<1> DEFINE c == todo[1]  t == todo'  r == Top.r
<1>1. /\ todo \in Seq(CallSet) /\ todo # <<>> /\ t = Tail(todo) /\ 1 \in 1 .. Len(todo)
      /\ parts' = (parts \ c.drop) \union c.put
      /\ UNCHANGED <<stack, dry, visited, cmd>>
  BY WorkFacts DEF IInv
<1>2. CASE cmd = "destroy"
  <2>1. stack = <<>> /\ visited = {}
    BY <1>2 DEF IInv, BInv, Control
  <2> QED
    BY <1>1, <2>1, LiveFresh
<1>3. CASE cmd # "destroy"
  <2>1. \A x \in c.drop : x[1] \in Role \union {"gateway", "lt"} \/ x = Permission
    BY <1>1, <1>3, AnyCall
  <2>2. Reviving(todo, r) => Marks(r) \intersect c.put # {} \/ Reviving(t, r)
    BY <1>1, RevivingTail
  <2>3. stack # <<>> => Top.step = "work"
    BY <1>1 DEF IInv, BInv, Control
  <2>4. Top' = Top
    BY <1>1 DEF Top
  <2>5. LiveInv /\ (stack # <<>> /\ ~dry /\ r \in Users => Live(r) \/ Reviving(todo, r))
    BY <2>3 DEF LiveInv, Reaches
  <2> HIDE DEF c, t
  <2>6. ASSUME NEW u \in Users, Live(u) PROVE Marks(u) \intersect parts' # {}
    BY <1>1, <2>1, <2>6, MarksFacts DEF Live
  <2>7. Visits'
    <3>1. \A u : ~dry /\ u \in visited \intersect Users => Marks(u) \intersect parts' # {}
      BY <2>6 DEF LiveInv, Visits
    <3> QED
      BY <1>1, <3>1 DEF Visits, Live, Marks, Policy
  <2>8. stack # <<>> /\ ~dry /\ r \in Users => Marks(r) \intersect parts' # {} \/ Reviving(t, r)
    BY <1>1, <2>2, <2>5, <2>6
  <2>9. Top'.r = r /\ (stack' # <<>> => Top'.step = "work")
    BY <1>1, <2>3, <2>4
  <2> HIDE DEF r
  <2>10. Reaches'
    BY <1>1, <2>8, <2>9 DEF Reaches, Live, Marks, Policy, Reviving, t
  <2> QED
    BY <2>7, <2>10 DEF LiveInv
<1> QED
  BY <1>2, <1>3

LEMMA LiveQuiet ==
    ASSUME IInv, LiveInv, WorkQuietly
    PROVE  LiveInv'
<1> DEFINE c == todo[1]  t == todo'  r == Top.r
<1>1. /\ todo \in Seq(CallSet) /\ todo # <<>> /\ t = Tail(todo) /\ ErrorIgnored(c)
      /\ UNCHANGED <<parts, stack, dry, visited>>
  BY QuietFacts DEF IInv
<1>2. Reviving(todo, r) => Marks(r) \intersect c.put # {} \/ Reviving(t, r)
  BY <1>1, RevivingTail
<1>3. \A x \in c.put : x[2] \in {"alias", "runtime"}
  BY <1>1, OfFacts DEF ErrorIgnored
<1>4. stack # <<>> => Top.step = "work"
  BY <1>1 DEF IInv, BInv, Control
<1>5. Top' = Top
  BY <1>1 DEF Top
<1>6. stack # <<>> /\ ~dry /\ r \in Users => Live(r) \/ Reviving(todo, r)
  BY <1>4 DEF LiveInv, Reaches
<1> HIDE DEF c, t
<1>7. r \in Users => Marks(r) \intersect c.put = {}
  BY <1>3, MarksFacts
<1>8. Visits'
  BY <1>1 DEF LiveInv, Visits, Live, Marks, Policy
<1>9. stack # <<>> /\ ~dry /\ r \in Users => Marks(r) \intersect parts' # {} \/ Reviving(t, r)
  BY <1>1, <1>2, <1>6, <1>7 DEF Live
<1>10. Top'.r = r /\ (stack' # <<>> => Top'.step = "work")
  BY <1>1, <1>4, <1>5
<1> HIDE DEF r
<1>11. Reaches'
  BY <1>1, <1>9, <1>10 DEF Reaches, Live, Marks, Policy, Reviving, t
<1> QED
  BY <1>8, <1>11 DEF LiveInv

LEMMA LiveNext == ASSUME IInv, LiveInv, [Next]_vars PROVE LiveInv'
<1>1. CASE Proceed
  <2>1. stack' = <<>> /\ UNCHANGED <<visited, dry, parts>>
    BY <1>1, ProceedFacts
  <2> QED
    BY <2>1, LiveKept
<1>2. CASE UNCHANGED vars
  <2>1. UNCHANGED <<visited, dry, parts, stack, todo>>
    BY <1>2 DEF vars, awsVars, ensureVars
  <2> QED
    BY <2>1 DEF LiveInv, Visits, Reaches, Live, Marks, Policy, Reviving, Top
<1> QED
  BY <1>1, <1>2, LiveCommands, LiveMoves, LiveFetch, LiveWork, LiveQuiet DEF Next

(* The inductive invariant behind RolesLive: what EnsureResource returned  *)
(* from uses a role that exists, and nothing later in the run undoes it.   *)
THEOREM LiveCorrect == Spec => []LiveInv
<1>1. Init => LiveInv
  BY DEF Init, LiveInv, Visits, Reaches
<1> QED
  BY <1>1, IInvCorrect, LiveNext, PTL DEF Spec

-----------------------------------------------------------------------------
(***************************************************************************)
(* The policy of the join lambda is put with the permission of the         *)
(* gateway, which goes with the gateway: then the policy has gone with the *)
(* lambda before, or is seen to be missing, or destroy missed the lambda.  *)
(***************************************************************************)
Admitted == Policy \in parts => Permission \in parts \/ "join" \in missed
Together(s) ==
    \A i \in 1 .. Len(s) :
        /\ Policy \in s[i].put => Permission \in s[i].put
        /\ Permission \in s[i].drop /\ Policy \notin s[i].drop =>
              \/ "join" \in missed
              \/ Policy \notin parts /\ \A j \in 1 .. i : Policy \notin s[j].put
PolicyInv == Admitted /\ Together(todo)

(* Calls that put the policy of no lambda and drop no permission. *)
LEMMA FarTogether ==
    ASSUME NEW s, \A i \in 1 .. Len(s) : Policy \notin s[i].put /\ Permission \notin s[i].drop
    PROVE  Together(s)
BY DEF Together

LEMMA PolicySame ==
    ASSUME NEW s, Together(s), todo' = s, UNCHANGED <<parts, missed>>
    PROVE  Together(todo)'
BY DEF Together, Policy, Permission

LEMMA AdmittedSame ==
    ASSUME Admitted, parts' = parts, missed \subseteq missed'
    PROVE  Admitted'
BY DEF Admitted, Policy, Permission

LEMMA PolicyWork == ASSUME IInv, PolicyInv, Work PROVE PolicyInv'
<1> DEFINE c == todo[1]  t == todo'
<1>1. /\ todo \in Seq(CallSet) /\ todo # <<>> /\ t = Tail(todo) /\ 1 \in 1 .. Len(todo)
      /\ parts' = (parts \ c.drop) \union c.put /\ missed' = missed
  BY WorkFacts DEF IInv
<1>2. \A i \in 1 .. Len(t) : i + 1 \in 1 .. Len(todo) /\ t[i] = todo[i + 1]
  BY <1>1, TodoTail
<1>3. \A i \in 1 .. Len(t) : 1 \in 1 .. i + 1 /\ \A j \in 1 .. i : j + 1 \in 1 .. i + 1 /\ j \in 1 .. Len(t)
  <2>1. Len(t) \in Nat
    BY <1>1, TodoTail
  <2> HIDE DEF t
  <2> QED
    BY <2>1
<1>4. /\ Policy \in c.put => Permission \in c.put
      /\ Permission \in c.drop /\ Policy \notin c.drop => "join" \in missed \/ Policy \notin parts
  BY <1>1 DEF PolicyInv, Together
<1> HIDE DEF c, t
<1>5. Policy \in parts' => Permission \in parts' \/ "join" \in missed'
  BY <1>1, <1>4 DEF PolicyInv, Admitted
<1>6. ASSUME NEW i \in 1 .. Len(t)
      PROVE  /\ Policy \in t[i].put => Permission \in t[i].put
             /\ Permission \in t[i].drop /\ Policy \notin t[i].drop =>
                   \/ "join" \in missed'
                   \/ Policy \notin parts' /\ \A j \in 1 .. i : Policy \notin t[j].put
  <2>1. /\ Policy \in todo[i + 1].put => Permission \in todo[i + 1].put
        /\ Permission \in todo[i + 1].drop /\ Policy \notin todo[i + 1].drop =>
              \/ "join" \in missed
              \/ Policy \notin parts /\ \A j \in 1 .. i + 1 : Policy \notin todo[j].put
    BY <1>2 DEF PolicyInv, Together
  <2>2. (\A j \in 1 .. i + 1 : Policy \notin todo[j].put) => Policy \notin c.put /\ \A j \in 1 .. i : Policy \notin t[j].put
    BY <1>2, <1>3 DEF c
  <2> QED
    BY <1>1, <1>2, <2>1, <2>2
<1>7. Admitted'
  BY <1>5 DEF Admitted, Policy, Permission
<1>8. Together(todo)'
  BY <1>6 DEF Together, Policy, Permission, t
<1> QED
  BY <1>7, <1>8 DEF PolicyInv

LEMMA PolicyQuiet == ASSUME IInv, PolicyInv, WorkQuietly PROVE PolicyInv'
<1> DEFINE t == todo'
<1>1. /\ todo \in Seq(CallSet) /\ todo # <<>> /\ t = Tail(todo) /\ UNCHANGED <<parts, missed>>
  BY QuietFacts DEF IInv
<1>2. \A i \in 1 .. Len(t) : i + 1 \in 1 .. Len(todo) /\ t[i] = todo[i + 1]
  BY <1>1, TodoTail
<1>3. \A i \in 1 .. Len(t) : \A j \in 1 .. i : j + 1 \in 1 .. i + 1 /\ j \in 1 .. Len(t)
  <2>1. Len(t) \in Nat
    BY <1>1, TodoTail
  <2> HIDE DEF t
  <2> QED
    BY <2>1
<1> HIDE DEF t
<1>4. Together(t)
  <2> SUFFICES ASSUME NEW i \in 1 .. Len(t)
               PROVE  /\ Policy \in t[i].put => Permission \in t[i].put
                      /\ Permission \in t[i].drop /\ Policy \notin t[i].drop =>
                            \/ "join" \in missed
                            \/ Policy \notin parts /\ \A j \in 1 .. i : Policy \notin t[j].put
    BY DEF Together
  <2>1. /\ Policy \in todo[i + 1].put => Permission \in todo[i + 1].put
        /\ Permission \in todo[i + 1].drop /\ Policy \notin todo[i + 1].drop =>
              \/ "join" \in missed
              \/ Policy \notin parts /\ \A j \in 1 .. i + 1 : Policy \notin todo[j].put
    BY <1>2 DEF PolicyInv, Together
  <2>2. (\A j \in 1 .. i + 1 : Policy \notin todo[j].put) => \A j \in 1 .. i : Policy \notin t[j].put
    BY <1>2, <1>3
  <2> QED
    BY <1>2, <2>1, <2>2
<1>5. Together(todo)'
  BY <1>1, <1>4, PolicySame DEF t
<1> QED
  BY <1>1, <1>5, AdmittedSame DEF PolicyInv

(* The gateway is deleted and made again only without the policy.          *)
LEMMA GatewayTogether ==
    ASSUME Types, NEW s \in GatewayWorks
    PROVE  Together(s)
<1> DEFINE a == CreateRestApiGateway  b == AddLambdaInvokePermissions  m == CreateJoinApi  d == DeleteRestApiGateway
<1>1. a \in Seq(CallSet) /\ b \in Seq(CallSet) /\ d \in Seq(CallSet) /\ m \in Seq(CallSet) /\ m = a \o b
  BY RemovesGateway, MakesGateway, GatewayParts DEF CreateJoinApi
<1> DEFINE Good(c) == (Policy \in c.put => Permission \in c.put) /\ Permission \notin c.drop
<1>2. \A i \in 1 .. Len(a) : Good(a[i])
  <2>1. Good(Tags("gateway"))
    BY DEF Tags, Call
  <2>2. ASSUME NEW p PROVE Good(GatewayCall(p))
    <3> DEFINE c == GatewayCall(p)
    <3>1. c.put = Of("gateway", {p}) /\ c.drop = {}
      BY DEF GatewayCall, Call
    <3> HIDE DEF c
    <3>2. Policy \notin c.put /\ Permission \notin c.drop
      BY <3>1, OfFacts DEF Policy
    <3> QED
      BY <3>2 DEF c
  <2> HIDE DEF Good
  <2>3. a = <<Tags("gateway"), GatewayCall("deployment"), GatewayCall("plan"), GatewayCall("key"), GatewayCall("planKey")>>
    BY DEF CreateRestApiGateway
  <2> HIDE DEF a
  <2>4. /\ Len(a) = 5 /\ a[1] = Tags("gateway") /\ a[2] = GatewayCall("deployment") /\ a[3] = GatewayCall("plan")
        /\ a[4] = GatewayCall("key") /\ a[5] = GatewayCall("planKey")
    BY <2>3
  <2> QED
    BY <2>1, <2>2, <2>4
<1>3. \A i \in 1 .. Len(b) : Good(b[i])
  <2> DEFINE c == Puts("join", {"policy", "permission"})
  <2>1. Permission \in c.put /\ c.drop = {}
    BY OfFacts DEF Puts, Call, Permission
  <2>2. b = <<c>>
    BY DEF AddLambdaInvokePermissions
  <2> HIDE DEF c
  <2> QED
    BY <2>1, <2>2
<1>4. /\ Len(d) = 3 /\ Policy \notin d[1].put
      /\ d[2].put = {} /\ d[3].put = {} /\ Permission \notin d[2].drop /\ Permission \notin d[3].drop
  <2>1. Policy \notin Old /\ Permission \notin Of("gateway", {"oldPlan"}) /\ Permission \notin Of("gateway", {"oldKey"})
    BY OfFacts DEF Old, Policy, Permission
  <2> QED
    BY <2>1, RemovesGateway
<1> HIDE DEF Good, a, b, m, d
<1>5. \A i \in 1 .. Len(m) : Good(m[i])
  <2>1. \A i \in 1 .. Len(m) :
            \/ i \in 1 .. Len(a) /\ m[i] = a[i]
            \/ i > Len(a) /\ i - Len(a) \in 1 .. Len(b) /\ m[i] = b[i - Len(a)]
    BY <1>1, ConcatFacts
  <2> QED
    BY <1>2, <1>3, <2>1
<1>6. CASE s = m
  BY <1>5, <1>6 DEF Together, Good
<1>7. CASE s = d \o m /\ Policy \notin parts
  <2>1. \A i \in 1 .. Len(s) :
            \/ i \in 1 .. Len(d) /\ s[i] = d[i]
            \/ i > Len(d) /\ i - Len(d) \in 1 .. Len(m) /\ s[i] = m[i - Len(d)]
    BY <1>1, <1>7, ConcatFacts
  <2>2. \A i \in 1 .. Len(s) : i # 1 => Good(s[i])
    <3> SUFFICES ASSUME NEW i \in 1 .. Len(s), i # 1 PROVE Good(s[i])
      OBVIOUS
    <3>1. CASE i \in 1 .. Len(d) /\ s[i] = d[i]
      <4>1. i \in {2, 3}
        BY <1>4, <3>1
      <4> QED
        BY <1>4, <3>1, <4>1 DEF Good
    <3> QED
      BY <1>5, <2>1, <3>1
  <2>3. 1 \in 1 .. Len(s) => s[1] = d[1]
    BY <1>4, <2>1
  <2> QED
    BY <1>4, <1>7, <2>2, <2>3 DEF Together, Good
<1>8. s = m \/ (s = d \o m /\ Policy \notin parts)
  BY DEF GatewayWorks, ReCreateGateway, GatewayIsCurrent, Has, Policy, m, d
<1> QED
  BY <1>6, <1>7, <1>8

LEMMA LambdaTogether ==
    ASSUME Types, TagsKnown, NEW l \in Lambda, NEW s \in LambdaWorks(l)
    PROVE  Together(s)
<1>0. l \in Resource /\ l \notin Role \union {"gateway", "lt"}
      /\ Names(l) = {"role", "runtime", "arch", "tableName", "policy", "permission"}
  BY Kinds, KindsApart, NamesOf DEF Others
<1> DEFINE Good(c) == Policy \notin c.put /\ Permission \notin c.drop
<1>1. CASE ~Exists(l)
  <2>1. PICK tableName \in {{"tableName"}, {}} :
          s = <<Call(l, target[l], Of(l, {"role", "runtime", "arch"} \union tableName), {})>>
    BY <1>1 DEF LambdaWorks, CreateLambda
  <2> DEFINE ps == {"role", "runtime", "arch"} \union tableName
             c == Call(l, target[l], Of(l, ps), {})
  <2>2. Good(c)
    <3>1. c.put = Of(l, ps) /\ c.drop = {} /\ "policy" \notin ps
      BY DEF Call
    <3> HIDE DEF ps, c
    <3> QED
      BY <3>1, OfFacts DEF Policy
  <2>3. s = <<c>>
    BY <2>1
  <2> HIDE DEF ps, c
  <2>4. \A i \in 1 .. Len(s) : Good(s[i])
    BY <2>2, <2>3
  <2> QED
    BY <2>4, FarTogether
<1>2. CASE Exists(l)
  <2>1. s = UpdateLambda(l)
    BY <1>2 DEF LambdaWorks, Exists
  <2> DEFINE rt == When(~Has(l, "runtime"), UpdateLambdaRuntime(l))
             ar == When(~Has(l, "arch"), UpdateLambdaArchitecture(l))
             ro == When(~Has(l, "role"), UpdateLambdaRole(l))
             ha == When(tag[l] # target[l], UpdateLambdaHandler(l))
  <2>2. s = ((rt \o ar) \o ro) \o ha
    BY <2>1 DEF UpdateLambda
  <2>3. /\ \A ps \in SUBSET {"role", "runtime", "arch"} : Puts(l, ps) \in CallSet /\ Good(Puts(l, ps))
        /\ Tags(l) \in CallSet /\ Good(Tags(l))
    <3>1. ASSUME NEW ps \in SUBSET {"role", "runtime", "arch"} PROVE Puts(l, ps) \in CallSet /\ Good(Puts(l, ps))
      <4>1. ps \subseteq Names(l) /\ "policy" \notin ps
        BY <1>0
      <4>2. Puts(l, ps).put = Of(l, ps) /\ Puts(l, ps).drop = {}
        BY DEF Puts, Call
      <4>3. Puts(l, ps) \in CallSet
        BY <1>0, <4>1, Calls
      <4> QED
        BY <4>1, <4>2, <4>3, OfFacts DEF Policy
    <3>2. Tags(l) \in CallSet /\ Tags(l).put = {} /\ Tags(l).drop = {}
      <4>1. {} \subseteq Names(l)
        OBVIOUS
      <4> QED
        BY <1>0, <4>1, Calls
    <3> QED
      BY <3>1, <3>2
  <2>4. /\ Puts(l, {"runtime"}) \in CallSet /\ Puts(l, {"arch"}) \in CallSet /\ Puts(l, {"role"}) \in CallSet
        /\ Puts(l, {}) \in CallSet /\ Tags(l) \in CallSet
        /\ Good(Puts(l, {"runtime"})) /\ Good(Puts(l, {"arch"})) /\ Good(Puts(l, {"role"}))
        /\ Good(Puts(l, {})) /\ Good(Tags(l))
    BY <2>3
  <2> DEFINE Fit(w) == w \in Seq(CallSet) /\ \A i \in 1 .. Len(w) : Good(w[i])
  <2> HIDE DEF Good
  <2>5. Fit(rt) /\ Fit(ar) /\ Fit(ro) /\ Fit(ha)
    BY <2>4 DEF When, UpdateLambdaRuntime, UpdateLambdaArchitecture, UpdateLambdaRole, UpdateLambdaHandler
  <2> HIDE DEF rt, ar, ro, ha
  <2>6. ASSUME NEW v, NEW w, Fit(v), Fit(w) PROVE Fit(v \o w)
    <3> DEFINE u == v \o w
    <3>1. /\ u \in Seq(CallSet)
          /\ \A i \in 1 .. Len(u) :
            \/ i \in 1 .. Len(v) /\ u[i] = v[i]
            \/ i > Len(v) /\ i - Len(v) \in 1 .. Len(w) /\ u[i] = w[i - Len(v)]
      BY <2>6, ConcatFacts
    <3> HIDE DEF u
    <3>2. Fit(u)
      BY <2>6, <3>1
    <3> QED
      BY <3>2 DEF u
  <2> HIDE DEF Fit
  <2>7. Fit(s)
    BY <2>2, <2>5, <2>6
  <2> QED
    BY <2>7, FarTogether DEF Fit, Good
<1> QED
  BY <1>1, <1>2

LEMMA PolicyDecided == ASSUME IInv, PolicyInv, Decided PROVE PolicyInv'
<1> DEFINE t == todo'  r == Top.r
<1>1. Fine(r, t) /\ t \in Works(r) /\ UNCHANGED <<parts, missed>>
  BY DecidedFacts
<1> HIDE DEF t, r
<1>2. Types /\ TagsKnown
  BY DEF IInv, BInv
<1>3. Together(t)
  <2>1. CASE r = "gateway"
    <3>1. "gateway" \notin Role \union Lambda
      BY Kinds, KindsApart DEF Others
    <3>2. t \in GatewayWorks
      BY <1>1, <2>1, <3>1 DEF Works
    <3> QED
      BY <1>2, <3>2, GatewayTogether
  <2>2. CASE r = "join"
    <3>1. "join" \notin Role /\ "join" \in Lambda
      BY Kinds, KindsApart
    <3>2. t \in LambdaWorks("join")
      BY <1>1, <2>2, <3>1 DEF Works
    <3> QED
      BY <1>2, <3>1, <3>2, LambdaTogether
  <2>3. CASE r # "gateway" /\ r # "join"
    <3>1. "join" \notin Touched(r)
      BY <2>3 DEF Touched
    <3>2. ASSUME NEW i \in 1 .. Len(t) PROVE Policy \notin t[i].put /\ Permission \notin t[i].drop
      <4>1. EnsureCall(r, t[i])
        BY <1>1 DEF Fine, InEnsure
      <4>2. \A x \in t[i].put \union t[i].drop : x[1] \in Touched(r)
        BY <4>1, EnsureDrops
      <4> QED
        BY <3>1, <4>2 DEF Policy, Permission
    <3> QED
      BY <3>2, FarTogether
  <2> QED
    BY <2>1, <2>2, <2>3
<1>4. Together(todo)'
  BY <1>1, <1>3, PolicySame DEF t
<1> QED
  BY <1>1, <1>4, AdmittedSame DEF PolicyInv

LEMMA PolicyProceed == ASSUME IInv, Cleaning, PolicyInv, Proceed PROVE PolicyInv'
<1> DEFINE t == todo'
<1>1. /\ outcome = "running" /\ stack = <<>> /\ todo = <<>> /\ plan # <<>> /\ parts' = parts
      /\ missed \subseteq missed' /\ OfCommand(t)
      /\ cmd # "destroy" => \A i \in 1 .. Len(t) : t[i].r \in {"table", "asg"} /\ t[i].drop = {}
      /\ cmd = "destroy" => Keeps(Head(plan), t)
  BY ProceedFacts
<1> HIDE DEF t
<1>2. ASSUME NEW i \in 1 .. Len(t)
      PROVE  /\ Policy \notin t[i].put
             /\ Permission \in t[i].drop /\ Policy \notin t[i].drop => "join" \in missed \/ Policy \notin parts
  <2>1. OutsideCall(t[i])
    BY <1>1 DEF OfCommand
  <2>2. CASE cmd # "destroy"
    <3>1. \A x \in t[i].put : x[1] = t[i].r
      BY <2>1, <2>2, OutsideDrops
    <3> QED
      BY <1>1, <2>2, <3>1 DEF Policy
  <2>3. CASE cmd = "destroy"
    <3>1. Policy \notin t[i].put
      <4>1. Policy \notin Old \union Of("rule", {"stale"})
        BY OfFacts DEF Old, Policy
      <4> QED
        BY <2>1, <2>3, <4>1, OutsideDrops
    <3>2. ASSUME Permission \in t[i].drop, Policy \notin t[i].drop, Policy \in parts PROVE "join" \in missed
      <4>1. t[i].r = "gateway" /\ "gateway" \in About(Head(plan))
        BY <1>1, <2>3, <3>2 DEF Keeps, Tidy
      <4>2. Head(plan) \in Clean
        BY <1>1, <2>3, HeadKinds DEF IInv
      <4>3. Head(plan) = "gateway"
        <5>1. "gateway" \notin Role \union Lambda
          BY Kinds, KindsApart DEF Others
        <5> QED
          BY <4>1, <4>2, <5>1, CleanedIs DEF Clean
      <4> DEFINE n == Len(plan)
      <4>4. n \in 1 .. 11 /\ DestroyPlan[12 - n] = "gateway"
        BY <1>1, <2>3, <4>3, PlanFacts DEF IInv
      <4> HIDE DEF n
      <4>5. 12 - n \in 1 .. 11
        BY <4>4
      <4>6. 12 - n = 4
        BY <4>4, <4>5, DestroyPlanIs
      <4>7. 3 + n <= 11
        BY <4>4, <4>6
      <4>8. 3 + Len(plan) <= 11
        BY <4>7 DEF n
      <4>9. \A r \in Cleaned(DestroyPlan[3]) : ~Exists(r) \/ r \in missed
        BY <1>1, <2>3, <4>2, <4>8, CleanedBefore
      <4>10. "join" \in Cleaned(DestroyPlan[3])
        BY DestroyPlanIs, CleanedIs, Kinds
      <4>11. Exists("join")
        <5>1. Policy[1] = "join" /\ Policy \notin Old
          BY OfFacts DEF Policy, Old
        <5> QED
          BY <3>2, <5>1 DEF IInv, BInv, Owned
      <4> QED
        BY <4>9, <4>10, <4>11
    <3> QED
      BY <3>1, <3>2
  <2> QED
    BY <2>2, <2>3
<1>3. Len(t) \in Nat
  <2>1. t \in Seq(CallSet)
    BY ProceedFacts DEF t
  <2> QED
    BY <2>1
<1>4. \A i \in 1 .. Len(t) : \A j \in 1 .. i : j \in 1 .. Len(t)
  BY <1>3
<1>5. \A i \in 1 .. Len(t) :
        /\ Policy \in t[i].put => Permission \in t[i].put
        /\ Permission \in t[i].drop /\ Policy \notin t[i].drop =>
              \/ "join" \in missed'
              \/ Policy \notin parts' /\ \A j \in 1 .. i : Policy \notin t[j].put
  BY <1>1, <1>2, <1>4
<1>6. Together(todo)'
  BY <1>5 DEF Together, Policy, Permission, t
<1> QED
  BY <1>1, <1>6, AdmittedSame DEF PolicyInv

LEMMA PolicyNext == ASSUME IInv, Cleaning, PolicyInv, [Next]_vars PROVE PolicyInv'
<1>1. CASE NothingLeft
  <2>1. todo' = <<>> /\ parts' \subseteq parts /\ missed' = missed /\ (Permission \in parts => Permission \in parts')
    BY <1>1 DEF NothingLeft, Permission
  <2>2. Admitted'
    BY <2>1 DEF PolicyInv, Admitted, Policy, Permission
  <2>3. Together(todo)'
    BY <2>1 DEF Together
  <2> QED
    BY <2>2, <2>3 DEF PolicyInv
<1>2. CASE UNCHANGED vars
  <2>1. UNCHANGED <<parts, missed, todo>>
    BY <1>2 DEF vars, awsVars, history
  <2>2. Admitted' /\ Together(todo)'
    BY <2>1, AdmittedSame, PolicySame DEF PolicyInv
  <2> QED
    BY <2>2 DEF PolicyInv
<1> QED
  BY <1>1, <1>2, StepKinds, PolicyWork, PolicyQuiet, PolicyDecided, PolicyProceed

(* The inductive invariant behind RolesLive: the join lambda has a policy  *)
(* only with the permission of the gateway, or it outlived a destroy.      *)
THEOREM PolicyCorrect == Spec => []PolicyInv
<1>1. Init => PolicyInv
  BY DEF Init, PolicyInv, Admitted, Together
<1>2. DInv => Cleaning
  BY DEF DInv
<1> QED
  BY <1>1, <1>2, IInvCorrect, DInvCorrect, PolicyNext, PTL DEF Spec

(* Below the cluster there is everything but the table and its key. *)
LEMMA GroupTree ==
    ASSUME IInv, "lt" \in visited, "rule" \in visited
    PROVE  {"gateway", "sm"} \subseteq visited /\ Lambda \subseteq visited /\ Role \subseteq visited
<1>1. \A q \in visited : \A i \in DOMAIN Sub[q] : Sub[q][i] \in visited
  BY DEF IInv, P!IInv, P!TagsRight, P!VisitedClosed, P!SubsOf
<1>2. /\ "cluster" \in Resource /\ "hostgroup" \in Resource /\ "asg" \in Resource /\ "lt" \in Resource
      /\ "gateway" \in Resource /\ "rule" \in Resource /\ "sm" \in Resource
      /\ Lambda \subseteq Resource
      /\ {"cluster", "hostgroup", "asg", "lt", "gateway", "rule", "sm", "bare"} \intersect Lambda = {}
      /\ "join" \in Lambda
  BY Kinds, KindsApart DEF Grouping, Others
<1>3. /\ Sub["cluster"] = <<"alb", "hostgroup">> /\ Sub["hostgroup"] = <<"asg">> /\ Sub["asg"] = <<"lt", "rule">>
      /\ Sub["lt"] = <<"gateway">> /\ Sub["gateway"] = <<"join">> /\ Sub["rule"] = <<"sm", RoleOf["rule"]>>
      /\ Sub["sm"] = ScaleLambdas \o <<RoleOf["sm"]>>
  BY <1>2 DEF Sub
<1>4. \A l \in Lambda : Sub[l] = <<RoleOf[l]>>
  <2> SUFFICES ASSUME NEW l \in Lambda PROVE Sub[l] = <<RoleOf[l]>>
    OBVIOUS
  <2>1. /\ l \in Resource /\ l # "cluster" /\ l # "hostgroup" /\ l # "asg" /\ l # "lt" /\ l # "gateway" /\ l # "rule"
        /\ l # "sm" /\ l # "bare" /\ l # "table"
    BY <1>2, Kinds, KindsApart DEF Others
  <2> QED
    BY <2>1, Zenon DEF Sub
<1>5. /\ \A a : DOMAIN <<a>> = {1} /\ <<a>>[1] = a
      /\ \A a, b : DOMAIN <<a, b>> = {1, 2} /\ <<a, b>>[1] = a /\ <<a, b>>[2] = b
  OBVIOUS
<1>9. "gateway" \in visited /\ "sm" \in visited /\ RoleOf["rule"] \in visited
  <2>1. "gateway" \in visited
    <3>1. \A i \in DOMAIN Sub["lt"] : Sub["lt"][i] \in visited
      BY <1>1
    <3>2. \A i \in DOMAIN <<"gateway">> : <<"gateway">>[i] \in visited
      BY <1>3, <3>1
    <3> QED
      BY <1>5, <3>2
  <2> DEFINE f == RoleOf["rule"]
  <2>2. Sub["rule"] = <<"sm", f>>
    BY <1>3
  <2> HIDE DEF f
  <2>3. \A i \in DOMAIN <<"sm", f>> : <<"sm", f>>[i] \in visited
    BY <1>1, <2>2
  <2>4. "sm" \in visited /\ f \in visited
    BY <1>5, <2>3
  <2> QED
    BY <2>1, <2>4 DEF f
<1>10. "join" \in visited
  BY <1>1, <1>3, <1>5, <1>9
<1>11. ToSet(ScaleLambdas) \subseteq visited /\ RoleOf["sm"] \in visited
  <2> DEFINE s == ScaleLambdas  t == <<RoleOf["sm"]>>  u == s \o t  S == {"fetch", "scale", "terminate"} \union {RoleOf["sm"]}
  <2>1. s \in Seq({"fetch", "scale", "terminate"})
    BY ScaleLambdasAssumption
  <2>2. s \in Seq(S) /\ t \in Seq(S) /\ Len(t) = 1 /\ t[1] = RoleOf["sm"]
    BY <2>1, SeqMonotonic
  <2>3. \A i \in DOMAIN u : u[i] \in visited
    BY <1>1, <1>3, <1>9
  <2>4. ToSet(s) = {s[i] : i \in DOMAIN s}
    BY DEF ToSet
  <2> HIDE DEF s, t, u, S
  <2>45. u = s \o t
    BY DEF u
  <2>5. /\ \A i \in 1 .. Len(s) : i \in 1 .. Len(u) /\ u[i] = s[i]
        /\ \A i \in 1 .. Len(t) : Len(s) + i \in 1 .. Len(u) /\ u[Len(s) + i] = t[i]
        /\ u \in Seq(S)
    <3>1. s \in Seq(S) /\ t \in Seq(S)
      BY <2>2
    <3> QED
      BY <2>45, <3>1, ConcatFacts
  <2>6. DOMAIN u = 1 .. Len(u) /\ DOMAIN s = 1 .. Len(s)
    BY <2>2, <2>5
  <2>7. \A i \in DOMAIN s : s[i] \in visited
    BY <2>3, <2>5, <2>6
  <2>8. t[1] \in visited
    <3>1. 1 \in 1 .. Len(t)
      BY <2>2
    <3> QED
      BY <2>3, <2>5, <2>6, <3>1
  <2> QED
    BY <2>2, <2>4, <2>7, <2>8 DEF s
<1>12. Lambda \subseteq visited
  BY <1>10, <1>11, Kinds
<1>13. \A l \in Lambda : RoleOf[l] \in visited
  BY <1>1, <1>4, <1>5, <1>12
<1>14. Role \subseteq visited
  BY <1>9, <1>11, <1>13, Kinds DEF Role
<1> QED
  BY <1>9, <1>12, <1>14

LEMMA ClusterTree ==
    ASSUME IInv, "cluster" \in visited
    PROVE  /\ {"alb", "hostgroup", "asg", "lt", "rule", "gateway", "sm"} \subseteq visited
           /\ Lambda \subseteq visited /\ Role \subseteq visited
<1>1. \A q \in visited : \A i \in DOMAIN Sub[q] : Sub[q][i] \in visited
  BY DEF IInv, P!IInv, P!TagsRight, P!VisitedClosed, P!SubsOf
<1>2. "cluster" \in Resource /\ "hostgroup" \in Resource /\ "asg" \in Resource
  BY Kinds, KindsApart DEF Grouping, Others
<1>3. Sub["cluster"] = <<"alb", "hostgroup">> /\ Sub["hostgroup"] = <<"asg">> /\ Sub["asg"] = <<"lt", "rule">>
  BY <1>2, Kinds, KindsApart DEF Sub, Others, Grouping
<1>4. /\ \A a : DOMAIN <<a>> = {1} /\ <<a>>[1] = a
      /\ \A a, b : DOMAIN <<a, b>> = {1, 2} /\ <<a, b>>[1] = a /\ <<a, b>>[2] = b
  OBVIOUS
<1>5. "alb" \in visited /\ "hostgroup" \in visited
  BY <1>1, <1>3, <1>4
<1>6. "asg" \in visited
  BY <1>1, <1>3, <1>4, <1>5
<1>7. "lt" \in visited /\ "rule" \in visited
  BY <1>1, <1>3, <1>4, <1>6
<1> QED
  BY <1>5, <1>6, <1>7, GroupTree

(***************************************************************************)
(* RolesLive: after an import or an update that succeeds, even one that    *)
(* follows an interrupted destroy, the lambdas, the state machine and the  *)
(* rule use roles that exist, and the join lambda lets the gateway call    *)
(* it, unless it outlived a destroy.                                       *)
(***************************************************************************)
THEOREM RolesLiveCorrect == Spec => []RolesLive
<1>1. ASSUME IInv, LiveInv, PolicyInv, Settled
      PROVE  /\ \A u \in RoleUser \ {"rule"} : Exists(RoleOf[u]) /\ Has(u, "role")
             /\ LiveTargets # {}
             /\ Exists("gateway")
             /\ Has("join", "permission") \/ "join" \in missed
  <2>1. outcome = "ok" /\ cmd \in {"import", "update"} /\ "cluster" \in visited
    BY <1>1 DEF Settled
  <2>2. stack = <<>> /\ ~dry /\ Types /\ P!IInv
    BY <1>1, <2>1 DEF IInv, BInv, Control
  <2>3. "gateway" \in visited /\ Role \subseteq visited /\ RoleUser \subseteq visited
    BY <1>1, <2>1, ClusterTree, Kinds
  <2>4. \A r \in Role \union {"gateway"} : r \notin Grouping /\ r # "alb"
    BY Kinds, KindsApart DEF Others
  <2>5. Exists("gateway") /\ \A r \in Role : Exists(r)
    BY <2>2, <2>3, <2>4, VisitedExists
  <2>6. \A u \in Users : Live(u)
    BY <1>1, <2>2, <2>3 DEF LiveInv, Visits, Users
  <2>7. \A u \in RoleUser \ {"rule"} : u # "gateway"
    BY Kinds, KindsApart DEF Others
  <2>8. \A u \in RoleUser \ {"rule"} : Exists(RoleOf[u]) /\ Has(u, "role")
    <3> SUFFICES ASSUME NEW u \in RoleUser \ {"rule"} PROVE Exists(RoleOf[u]) /\ Has(u, "role")
      OBVIOUS
    <3>1. Live(u) /\ u # "gateway" /\ u # "rule" /\ RoleOf[u] \in Role
      BY <2>6, <2>7, Kinds DEF Users
    <3> QED
      BY <2>5, <3>1 DEF Live, Marks, Has
  <2>9. LiveTargets # {}
    <3>1. Live("rule")
      BY <2>6, Kinds DEF Users
    <3>2. PICK x \in Of("rule", {"target", "again"}) : x \in parts
      BY <3>1 DEF Live, Marks
    <3>3. x[2] \in {"target", "again"} /\ x = <<"rule", x[2]>>
      BY <3>2, OfFacts
    <3> QED
      BY <3>2, <3>3 DEF LiveTargets, Has
  <2>10. Policy \in parts
    <3>1. Live("gateway")
      BY <2>6 DEF Users
    <3> QED
      BY <3>1 DEF Live, Marks
  <2>11. Has("join", "permission") \/ "join" \in missed
    BY <1>1, <2>10 DEF PolicyInv, Admitted, Has, Permission
  <2> QED
    BY <2>5, <2>8, <2>9, <2>11
<1>2. IInv /\ LiveInv /\ PolicyInv => RolesLive
  BY <1>1 DEF RolesLive
<1> QED
  BY <1>2, IInvCorrect, LiveCorrect, PolicyCorrect, PTL

-----------------------------------------------------------------------------
(***************************************************************************)
(* A function that stops by itself has found what it stops on: the load    *)
(* balancer that lacks its record alone, once the target group is there,   *)
(* or the table without credentials or left out by the listing.            *)
(***************************************************************************)
Group == <<"alb", "tg">>
Credentials == <<"table", "credentials">>
TornAlb(s, i) ==
    /\ Dns /\ ~Has("alb", "record") /\ Has("alb", "lb") /\ Has("alb", "listener")
    /\ \A j \in 1 .. Len(s) : Record \notin s[j].put
    /\ Group \in parts \/ \E j \in 1 .. i : Group \in s[j].put
TornTable(s, i) ==
    \/ Credentials \notin parts /\ \A j \in 1 .. Len(s) : s[j].put = {}
    \/ Exists("table") /\ Outdated("table") /\ i = 1
TornAt(r, s) ==
    \A i \in 1 .. Len(s) : s[i] = Stop =>
        /\ r = "alb" => TornAlb(s, i)
        /\ r = "table" => TornTable(s, i)
Torn == stack # <<>> => TornAt(Top.r, todo)

LEMMA TornWork == ASSUME IInv, Torn, Work PROVE Torn'
<1> SUFFICES ASSUME stack' # <<>> PROVE TornAt(Top.r, todo)'
  BY DEF Torn
<1> DEFINE c == todo[1]  t == todo'  r == Top.r
<1>1. /\ todo \in Seq(CallSet) /\ todo # <<>> /\ t = Tail(todo) /\ 1 \in 1 .. Len(todo)
      /\ parts' = (parts \ c.drop) \union c.put /\ stack' = stack /\ stack # <<>> /\ EnsureCall(r, c)
  BY WorkFacts DEF IInv
<1>2. /\ \A i \in 1 .. Len(t) : i + 1 \in 1 .. Len(todo) /\ t[i] = todo[i + 1]
      /\ \A j \in 1 .. Len(todo) : j = 1 \/ (j - 1 \in 1 .. Len(t) /\ t[j - 1] = todo[j])
      /\ Len(t) \in Nat
  BY <1>1, TodoTail
<1>3. TornAt(r, todo)
  BY <1>1 DEF Torn
<1>4. r = "alb" \/ r = "table" => \A x \in c.drop : x[1] \notin {"alb", "table"}
  <2>1. {"alb", "table"} \intersect (Role \union {"gateway", "lt"}) = {}
    BY Kinds, KindsApart DEF Others
  <2> HIDE DEF c, r
  <2>2. \A x \in c.drop : x[1] \in Role \union {"gateway", "lt"} \/ x = Permission
    BY <1>1, EnsureDrops
  <2> QED
    BY <2>1, <2>2 DEF Permission
<1>5. Top' = Top
  BY <1>1 DEF Top
<1> HIDE DEF c, t, r
<1>6. ASSUME NEW i \in 1 .. Len(t), t[i] = Stop, r = "alb"
      PROVE  /\ Dns /\ Record \notin parts' /\ <<"alb", "lb">> \in parts' /\ <<"alb", "listener">> \in parts'
             /\ \A j \in 1 .. Len(t) : Record \notin t[j].put
             /\ Group \in parts' \/ \E j \in 1 .. i : Group \in t[j].put
  <2>1. TornAlb(todo, i + 1)
    BY <1>2, <1>3, <1>6 DEF TornAt
  <2>2. Record \notin c.put
    BY <1>1, <2>1 DEF TornAlb, c
  <2>3. <<"alb", "lb">> \in parts' /\ <<"alb", "listener">> \in parts' /\ (Group \in parts => Group \in parts')
    <3>1. <<"alb", "lb">>[1] = "alb" /\ <<"alb", "listener">>[1] = "alb" /\ Group[1] = "alb"
      BY DEF Group
    <3>2. <<"alb", "lb">> \in parts /\ <<"alb", "listener">> \in parts
      BY <2>1 DEF TornAlb, Has
    <3> QED
      BY <1>1, <1>4, <1>6, <3>1, <3>2
  <2>4. Record \notin parts'
    BY <1>1, <2>1, <2>2 DEF TornAlb, Has, Record
  <2>5. \A j \in 1 .. Len(t) : Record \notin t[j].put
    BY <1>2, <2>1 DEF TornAlb
  <2>6. (\E j \in 1 .. i + 1 : Group \in todo[j].put) => Group \in c.put \/ \E j \in 1 .. i : Group \in t[j].put
    <3> SUFFICES ASSUME NEW j \in 1 .. i + 1, Group \in todo[j].put
                 PROVE  Group \in c.put \/ \E k \in 1 .. i : Group \in t[k].put
      OBVIOUS
    <3>1. CASE j = 1
      BY <3>1 DEF c
    <3>2. CASE j # 1
      <4>1. j \in 1 .. Len(todo) /\ j - 1 \in 1 .. i
        BY <1>1, <1>2, <3>2
      <4> QED
        BY <1>2, <3>2, <4>1
    <3> QED
      BY <3>1, <3>2
  <2>7. Group \in parts' \/ \E j \in 1 .. i : Group \in t[j].put
    BY <1>1, <2>1, <2>3, <2>6 DEF TornAlb
  <2> QED
    BY <2>1, <2>3, <2>4, <2>5, <2>7 DEF TornAlb
<1>7. ASSUME NEW i \in 1 .. Len(t), t[i] = Stop, r = "table"
      PROVE  Credentials \notin parts' /\ \A j \in 1 .. Len(t) : t[j].put = {}
  <2>1. TornTable(todo, i + 1)
    BY <1>2, <1>3, <1>7 DEF TornAt
  <2>2. Credentials \notin parts /\ \A j \in 1 .. Len(todo) : todo[j].put = {}
    <3>1. i + 1 # 1
      BY <1>2
    <3> QED
      BY <2>1, <3>1 DEF TornTable
  <2>3. c.put = {}
    BY <1>1, <2>2 DEF c
  <2> QED
    BY <1>1, <1>2, <2>2, <2>3
<1>8. Top'.r = r
  BY <1>5 DEF r
<1> QED
  BY <1>6, <1>7, <1>8 DEF TornAt, TornAlb, TornTable, Has, Group, Credentials, Record, Stop, Call, t

LEMMA TornQuiet == ASSUME IInv, Torn, WorkQuietly PROVE Torn'
<1> SUFFICES ASSUME stack' # <<>> PROVE TornAt(Top.r, todo)'
  BY DEF Torn
<1> DEFINE c == todo[1]  r == Top.r
<1>1. /\ 1 \in 1 .. Len(todo) /\ ErrorIgnored(c) /\ stack' = stack /\ stack # <<>>
  BY QuietFacts DEF IInv
<1>2. EnsureCall(r, c)
  BY <1>1, AnyCall
<1> HIDE DEF c
<1>3. Top'.r = r
  BY <1>1 DEF Top
<1> HIDE DEF r
<1>4. r # "alb" /\ r # "table"
  <2>1. \A x \in c.put : x[1] \in Touched(r)
    BY <1>2, EnsureDrops
  <2>2. PICK q \in {"key"} \union Lambda : \E x \in c.put : x[1] = q
    BY <1>1, IgnoredPut
  <2>3. q \in Touched(r) /\ q # "alb" /\ q # "table"
    BY <2>1, <2>2, Kinds, KindsApart DEF Others
  <2> QED
    BY <2>3 DEF Touched
<1> QED
  BY <1>3, <1>4 DEF TornAt

(* No call of s is a stop. *)
Free(s) == s \in Seq(CallSet) /\ \A i \in 1 .. Len(s) : s[i] # Stop

LEMMA FreeWhen == ASSUME NEW b \in BOOLEAN, NEW e \in CallSet, b => e # Stop PROVE Free(When(b, <<e>>))
<1>1. CASE b
  <2> DEFINE w == <<e>>
  <2>1. w \in Seq(CallSet) /\ Len(w) = 1 /\ w[1] = e
    OBVIOUS
  <2> HIDE DEF w
  <2>2. Free(w)
    BY <1>1, <2>1 DEF Free
  <2> QED
    BY <1>1, <2>2 DEF When, w
<1>2. CASE ~b
  <2> DEFINE w == <<>>
  <2>1. w \in Seq(CallSet) /\ Len(w) = 0
    OBVIOUS
  <2> HIDE DEF w
  <2>2. Free(w)
    BY <2>1 DEF Free
  <2> QED
    BY <1>2, <2>2 DEF When, w
<1> QED
  BY <1>1, <1>2

LEMMA FreeConcat == ASSUME NEW v, NEW w, Free(v), Free(w) PROVE Free(v \o w)
<1> DEFINE u == v \o w
<1>0. v \in Seq(CallSet) /\ w \in Seq(CallSet)
  BY DEF Free
<1>1. /\ u \in Seq(CallSet)
      /\ \A i \in 1 .. Len(u) :
        \/ i \in 1 .. Len(v) /\ u[i] = v[i]
        \/ i > Len(v) /\ i - Len(v) \in 1 .. Len(w) /\ u[i] = w[i - Len(v)]
  BY <1>0, ConcatFacts
<1> HIDE DEF u
<1>2. Free(u)
  BY <1>1 DEF Free
<1> QED
  BY <1>2 DEF u

(* Update of the load balancer stops on the record alone. *)
LEMMA AlbTorn ==
    ASSUME Types, TagsKnown, NEW s \in AlbWorks
    PROVE  TornAt("alb", s)
<1>1. \A p \in AlbParts : Puts("alb", {p}) # Stop /\ Puts("alb", {p}).put = Of("alb", {p})
  BY AlbCallFacts
<1>2. {"lb", "tg", "listener"} \subseteq AlbParts /\ (Dns => "record" \in AlbParts)
  BY DEF AlbParts
<1> DEFINE lb == Puts("alb", {"lb"})  tg == Puts("alb", {"tg"})  li == Puts("alb", {"listener"})  re == Puts("alb", {"record"})
<1>3. lb # Stop /\ tg # Stop /\ li # Stop /\ (Dns => re # Stop)
      /\ Group \in tg.put /\ Record \notin tg.put /\ Stop.put = {}
  BY <1>1, <1>2, OfFacts, StopIsCall DEF Group, Record
<1>0. lb \in CallSet /\ tg \in CallSet /\ li \in CallSet /\ (Dns => re \in CallSet) /\ Stop \in CallSet
  BY <1>2, AlbCallFacts, StopIsCall
<1>9. Dns \in BOOLEAN /\ \A p : Has("alb", p) \in BOOLEAN
  BY DnsAssumption DEF Has
<1>4. CASE s = CreateAlb
  <2>1. s = (When(TRUE, <<lb>>) \o When(TRUE, <<tg>>)) \o When(TRUE, <<li>>)
    BY <1>4 DEF CreateAlb, CreateApplicationLoadBalancer, CreateTargetGroup, CreateListener, When
  <2> HIDE DEF lb, tg, li, re
  <2>2. Free(When(TRUE, <<lb>>)) /\ Free(When(TRUE, <<tg>>)) /\ Free(When(TRUE, <<li>>))
    BY <1>0, <1>3, FreeWhen
  <2>3. Free(s)
    BY <2>1, <2>2, FreeConcat
  <2> QED
    BY <2>3 DEF TornAt, Free
<1>5. CASE s = UpdateAlb
  <2> DEFINE a == When(~Has("alb", "tg"), <<tg>>)
             b == When(~Has("alb", "lb"), <<lb>>)
             c == When(~Has("alb", "listener"), <<li>>)
             stops == Has("alb", "lb") /\ Has("alb", "listener")
             e == IF stops THEN Stop ELSE re
             d == When(Dns /\ ~Has("alb", "record"), IF stops THEN <<Stop>> ELSE <<re>>)
  <2>1. s = ((a \o b) \o c) \o d
    BY <1>5 DEF UpdateAlb, CreateApplicationLoadBalancer, CreateTargetGroup, CreateListener,
                CreateApplicationLoadBalancerAliasRecord
  <2>6. Free(a)
    <3> HIDE DEF tg
    <3> QED
      BY <1>0, <1>3, <1>9, FreeWhen
  <2>2. CASE Dns /\ ~Has("alb", "record") /\ stops
    <3>1. a = (IF Has("alb", "tg") THEN <<>> ELSE <<tg>>) /\ b = <<>> /\ c = <<>> /\ d = <<Stop>>
      BY <2>2 DEF When
    <3>2. /\ a \in Seq(CallSet)
          /\ \A j \in 1 .. Len(a) : Record \notin a[j].put
          /\ Has("alb", "tg") \/ \E j \in 1 .. Len(a) : Group \in a[j].put
      <4> DEFINE w == <<tg>>
      <4>1. Len(w) = 1 /\ w[1] = tg
        OBVIOUS
      <4>2. a \in Seq(CallSet)
        BY <2>6 DEF Free
      <4> HIDE DEF tg, lb, li, re, a
      <4>3. CASE Has("alb", "tg")
        <5>1. Len(a) = 0
          BY <3>1, <4>3
        <5> QED
          BY <4>2, <4>3, <5>1
      <4>4. CASE ~Has("alb", "tg")
        <5>1. a = w
          BY <3>1, <4>4
        <5> HIDE DEF w
        <5>2. Len(a) = 1 /\ a[1] = tg
          BY <4>1, <5>1
        <5>3. \A j \in 1 .. Len(a) : j = 1
          BY <5>2
        <5>4. 1 \in 1 .. Len(a)
          BY <5>2
        <5> QED
          BY <1>3, <4>2, <5>2, <5>3, <5>4
      <4> QED
        BY <1>9, <4>3, <4>4
    <3> DEFINE z == <<Stop>>
    <3>3. z \in Seq(CallSet) /\ Len(z) = 1 /\ z[1] = Stop
      BY <1>0
    <3> HIDE DEF lb, tg, li, re, a, b, c, d
    <3>4. s = a \o z
      BY <2>1, <3>1, <3>2
    <3> HIDE DEF z
    <3>5. /\ s \in Seq(CallSet)
          /\ \A i \in 1 .. Len(s) :
            \/ i \in 1 .. Len(a) /\ s[i] = a[i]
            \/ i > Len(a) /\ i - Len(a) \in 1 .. Len(z) /\ s[i] = z[i - Len(a)]
      BY <3>2, <3>3, <3>4, ConcatFacts
    <3>6. \A j \in 1 .. Len(a) : s[j] = a[j]
      BY <3>2, <3>3, <3>4
    <3>7. \A j \in 1 .. Len(s) : Record \notin s[j].put
      BY <1>3, <3>2, <3>3, <3>5
    <3>8. ASSUME NEW i \in 1 .. Len(s), s[i] = Stop PROVE TornAlb(s, i)
      <4>1. i > Len(a) /\ Len(a) \in Nat
        BY <2>6, <3>2, <3>5, <3>8 DEF Free
      <4>2. Group \in parts \/ \E j \in 1 .. i : Group \in s[j].put
        BY <3>2, <3>6, <4>1 DEF Has, Group
      <4> QED
        BY <2>2, <3>7, <4>2 DEF TornAlb
    <3> QED
      BY <3>8 DEF TornAt
  <2>3. CASE ~(Dns /\ ~Has("alb", "record") /\ stops)
    <3> HIDE DEF lb, tg, li, re
    <3>1. Free(b) /\ Free(c)
      BY <1>0, <1>3, <1>9, FreeWhen
    <3>2. Free(d)
      <4>1. CASE Dns /\ ~Has("alb", "record")
        <5>1. d = When(TRUE, <<re>>)
          BY <2>3, <4>1 DEF When
        <5> HIDE DEF d
        <5> QED
          BY <1>0, <1>3, <4>1, <5>1, FreeWhen
      <4>2. CASE ~(Dns /\ ~Has("alb", "record"))
        <5>1. d = When(FALSE, <<lb>>)
          BY <4>2 DEF When
        <5> HIDE DEF d
        <5> QED
          BY <1>0, <5>1, FreeWhen
      <4> QED
        BY <4>1, <4>2
    <3> HIDE DEF a, b, c, d
    <3>4. Free(s)
      BY <2>1, <2>6, <3>1, <3>2, FreeConcat
    <3> QED
      BY <3>4 DEF Free, TornAt
  <2> QED
    BY <2>2, <2>3
<1> QED
  BY <1>4, <1>5 DEF AlbWorks

LEMMA TableTorn ==
    ASSUME Types, NEW s \in DynamoDbWorks
    PROVE  TornAt("table", s)
<1> DEFINE a == Tags("table")  b == Call("table", target["table"], {}, {})
<1>1. a.put = {} /\ b.put = {} /\ Stop.put = {} /\ a # Stop /\ b # Stop
  <2>1. a.put = {} /\ b.put = {} /\ Stop.put = {}
    BY StopIsCall DEF Tags, Call
  <2>2. a.r = "table" /\ b.r = "table" /\ Stop.r = "stop"
    BY StopIsCall DEF Tags, Call
  <2> QED
    BY <2>1, <2>2
<1>2. CASE ~Exists("table")
  <2>1. s = <<a>>
    BY <1>2 DEF DynamoDbWorks, CreateDb
  <2> HIDE DEF a
  <2>2. \A i \in 1 .. Len(s) : s[i] # Stop
    BY <1>1, <2>1
  <2> QED
    BY <2>2 DEF TornAt
<1>3. CASE Exists("table")
  <2>0. Outdated("table")
    <3> SUFFICES ASSUME ~Outdated("table") PROVE FALSE
      OBVIOUS
    <3>1. DynamoDbWorks = {}
      BY <1>3 DEF DynamoDbWorks
    <3> QED
      BY <3>1
  <2>7. s \in {UpdateDb(listed) : listed \in {TRUE, quiet = MaxQuiet}}
    <3> DEFINE L == {UpdateDb(listed) : listed \in {TRUE, quiet = MaxQuiet}}
    <3>1. DynamoDbWorks = L
      BY <1>3, <2>0, Zenon DEF DynamoDbWorks
    <3> HIDE DEF L
    <3>2. s \in L
      BY <3>1
    <3> QED
      BY <3>2, Zenon DEF L
  <2>1. PICK listed \in {TRUE, quiet = MaxQuiet} : s = UpdateDb(listed)
    BY <2>7
  <2>2. s = <<Stop>> \/ s = <<a, IF Has("table", "credentials") THEN b ELSE Stop>>
    BY <2>1 DEF UpdateDb
  <2> HIDE DEF a, b
  <2>3. CASE s = <<Stop>>
    <3>1. \A i \in 1 .. Len(s) : i = 1
      BY <2>3
    <3> QED
      BY <1>3, <2>0, <3>1 DEF TornAt, TornTable
  <2>4. CASE s = <<a, b>>
    <3>1. \A i \in 1 .. Len(s) : s[i] # Stop
      BY <1>1, <2>4
    <3> QED
      BY <3>1 DEF TornAt
  <2>5. CASE s = <<a, Stop>> /\ ~Has("table", "credentials")
    <3>1. \A i \in 1 .. Len(s) : s[i].put = {}
      BY <1>1, <2>5
    <3> QED
      BY <2>5, <3>1 DEF TornAt, TornTable, Has, Credentials
  <2> QED
    BY <2>2, <2>3, <2>4, <2>5
<1> QED
  BY <1>2, <1>3

LEMMA TornDecided == ASSUME IInv, Decided PROVE Torn'
<1> DEFINE t == todo'  r == Top.r
<1>1. t \in Works(r) /\ Top'.r = r /\ UNCHANGED <<parts, tag, target>> /\ Types /\ TagsKnown
  BY DecidedFacts DEF IInv, BInv
<1> HIDE DEF t, r
<1>2. TornAt(r, t)
  <2>1. {"alb", "table"} \intersect (Role \union Lambda) = {}
    BY Kinds, KindsApart DEF Others
  <2>2. CASE r = "alb"
    <3>1. t \in AlbWorks
      BY <1>1, <2>1, <2>2 DEF Works
    <3> QED
      BY <1>1, <2>2, <3>1, AlbTorn
  <2>3. CASE r = "table"
    <3>1. t \in DynamoDbWorks
      BY <1>1, <2>1, <2>3 DEF Works
    <3> QED
      BY <1>1, <2>3, <3>1, TableTorn
  <2> QED
    BY <2>2, <2>3 DEF TornAt
<1>3. ASSUME NEW q, NEW s, TornAt(q, s), todo' = s, Top'.r = q PROVE TornAt(Top.r, todo)'
  BY <1>1, <1>3 DEF TornAt, TornAlb, TornTable, Has, Group, Credentials, Record, Stop, Call, Exists, Outdated
<1>4. TornAt(Top.r, todo)'
  BY <1>1, <1>2, <1>3 DEF t
<1> QED
  BY <1>4 DEF Torn

LEMMA TornNext == ASSUME IInv, Torn, [Next]_vars PROVE Torn'
<1>1. CASE NothingLeft
  BY <1>1 DEF NothingLeft, Torn, TornAt
<1>2. CASE Proceed
  <2>1. stack' = <<>>
    BY <1>2, ProceedFacts
  <2> QED
    BY <2>1 DEF Torn
<1>3. CASE UNCHANGED vars
  <2>1. UNCHANGED <<stack, todo, parts, tag, target>>
    BY <1>3 DEF vars, awsVars, ensureVars
  <2> QED
    BY <2>1 DEF Torn, TornAt, TornAlb, TornTable, Has, Group, Credentials, Record, Stop, Call, Exists, Outdated, Top
<1> QED
  BY <1>1, <1>2, <1>3, StepKinds, TornWork, TornQuiet, TornDecided

(* The inductive invariant behind StuckOnlyIfTorn: a function whose calls  *)
(* lead to a stop has found the resource in a state that explains it.      *)
THEOREM TornCorrect == Spec => []Torn
<1>1. Init => Torn
  BY DEF Init, Torn
<1> QED
  BY <1>1, IInvCorrect, TornNext, PTL DEF Spec

-----------------------------------------------------------------------------
(***************************************************************************)
(* What Fetch stops on.  Its sub-resources are there, so that it is their  *)
(* parts; the load balancer is whole when the host group is looked at.     *)
(***************************************************************************)
TornImport ==
    \/ NoTarget
    \/ Exists("gateway") /\ ApiKeys = {}
    \/ Has("alb", "lb") /\ Has("alb", "tg") /\ Has("alb", "listener") /\ ~AlbIsWhole
    \/ ~Has("table", "credentials")
    \/ Exists("table") /\ Outdated("table")
TornDestroy ==
    \/ Exists("table") /\ ~Has("table", "settings")
    \/ NoTarget
    \/ Has("alb", "lb") /\ ~Has("alb", "tg")

LEMMA TornSame ==
    ASSUME UNCHANGED <<tag, parts, target, made>>
    PROVE  (TornImport' <=> TornImport) /\ (TornDestroy' <=> TornDestroy)
BY DEF TornImport, TornDestroy, NoTarget, Exists, Has, ApiKeys, AlbIsWhole, Outdated

(* A host group is below the cluster only, after the load balancer. *)
LEMMA HostgroupSub ==
    ASSUME NEW r \in Resource, NEW i \in 1 .. Len(Sub[r]), Sub[r][i] = "hostgroup"
    PROVE  r = "cluster" /\ i = 2
<1>1. "hostgroup" \notin Role \union Lambda \union Others
  BY Kinds, KindsApart DEF Grouping
<1>2. /\ \A a : 1 .. Len(<<a>>) = {1} /\ <<a>>[1] = a
      /\ \A a, b : 1 .. Len(<<a, b>>) = {1, 2} /\ <<a, b>>[1] = a /\ <<a, b>>[2] = b
      /\ 1 .. Len(<<>>) = {}
  OBVIOUS
<1>3. CASE r = "cluster"
  <2>1. Sub[r] = <<"alb", "hostgroup">>
    BY <1>3, Kinds, KindsApart DEF Sub, Grouping
  <2> QED
    BY <1>2, <1>3, <2>1
<1>4. CASE r = "sm"
  <2> DEFINE s == ScaleLambdas  t == <<RoleOf["sm"]>>  S == {"fetch", "scale", "terminate"} \union {RoleOf["sm"]}
  <2>1. Sub[r] = s \o t
    BY <1>4, Kinds DEF Sub, Role
  <2>2. s \in Seq({"fetch", "scale", "terminate"})
    BY ScaleLambdasAssumption
  <2>3. s \in Seq(S) /\ t \in Seq(S)
    BY <2>2, SeqMonotonic
  <2>4. "hostgroup" \notin S
    BY <1>1, Kinds DEF RoleOf
  <2> HIDE DEF s, t, S
  <2>5. s \o t \in Seq(S)
    BY <2>3, ConcatFacts
  <2>6. Sub[r][i] \in S
    BY <2>1, <2>5
  <2> QED
    BY <2>4, <2>6
<1>5. CASE r \in Role
  <2>1. Sub[r] = <<>>
    BY <1>5, Kinds, KindsApart DEF Sub, RoleNames, LambdaNames
  <2> QED
    BY <1>2, <2>1
<1>6. CASE r \in Lambda
  <2>1. Sub[r] = <<RoleOf[r]>> /\ RoleOf[r] \in Role
    BY <1>6, Kinds, KindsApart DEF Sub, RoleNames, LambdaNames
  <2> QED
    BY <1>1, <1>2, <2>1
<1>7. CASE r \in {"hostgroup", "bare"}
  <2>1. Sub[r] = <<"alb">> \/ Sub[r] = <<"asg">>
    BY <1>7, Kinds, KindsApart DEF Sub, Grouping
  <2> QED
    BY <1>2, <2>1
<1>8. CASE r \in Others \ {"sm"}
  <2>1. \/ Sub[r] = <<"lt", "rule">> \/ Sub[r] = <<"gateway">> \/ Sub[r] = <<"join">>
        \/ Sub[r] = <<"sm", "ruleRole">> \/ Sub[r] = <<"key">> \/ Sub[r] = <<>>
    BY <1>8, Kinds, KindsApart DEF Sub, Others, RoleOf
  <2> QED
    BY <1>2, <2>1
<1> QED
  BY <1>3, <1>4, <1>5, <1>6, <1>7, <1>8, Kinds DEF Grouping

LEMMA SubsAreThere ==
    ASSUME IInv, stack # <<>>, Top.step = "subresources", Top.done = Len(Sub[Top.r]), ~dry
    PROVE  /\ \A q \in P!SubsOf(Top.r) : q \in visited
           /\ \A q \in visited : q \notin Grouping /\ q # "alb" => Exists(q)
           /\ "alb" \in visited => AlbIsWhole
<1>1. /\ Types /\ P!IInv /\ Top.r \in Resource /\ Len(stack) \in 1 .. Len(stack) /\ Top = stack[Len(stack)]
      /\ ~P!At("work") /\ Sub[Top.r] \in Seq(Resource)
  BY StackFacts, SubIsSeq DEF IInv, BInv
<1>2. \A j \in 1 .. Len(Sub[Top.r]) : Sub[Top.r][j] \in visited
  BY <1>1 DEF P!IInv, P!Calls, P!DoneVisited
<1>3. \A q \in P!SubsOf(Top.r) : q \in visited
  BY <1>1, <1>2 DEF P!SubsOf
<1>4. \A q \in visited : q \notin Grouping /\ q # "alb" => Exists(q)
  BY <1>1, VisitedExists
<1>5. "alb" \in visited => AlbIsWhole
  BY <1>1, AtTargetIs DEF P!IInv, P!TagsRight, P!VisitedDeployed
<1> QED
  BY <1>3, <1>4, <1>5

LEMMA AttachesOnAlb ==
    ASSUME IInv, stack # <<>>, Top.r = "hostgroup"
    PROVE  "alb" \in visited
<1> DEFINE n == Len(stack)
<1>1. /\ n \in Nat \ {0} /\ stack \in Seq(P!Frame) /\ Top = stack[n] /\ P!IInv
      /\ stack[1].r \in Roots
  BY StackFacts DEF IInv, BInv, Position
<1>2. n = Len(stack) /\ (\A i \in 1 .. n : stack[i] \in P!Frame)
  BY <1>1, ElementOfSeq
<1> HIDE DEF n
<1>3. n # 1
  BY <1>1 DEF Roots
<1> DEFINE m == n - 1
<1>4. m \in 1 .. n - 1 /\ m \in 1 .. n /\ m + 1 = n
  BY <1>1, <1>3
<1> HIDE DEF m
<1>5. /\ stack[m].done < Len(Sub[stack[m].r])
      /\ stack[m + 1].r = Sub[stack[m].r][stack[m].done + 1]
      /\ \A j \in 1 .. stack[m].done : Sub[stack[m].r][j] \in visited
  BY <1>1, <1>2, <1>4 DEF P!IInv, P!Calls, P!CallsChained, P!DoneVisited
<1> DEFINE q == stack[m].r  d == stack[m].done
<1>6. q \in Resource /\ d \in Nat /\ d < Len(Sub[q]) /\ Sub[q][d + 1] = "hostgroup" /\ Len(Sub[q]) \in Nat
  <2>1. stack[m] \in P!Frame
    BY <1>2, <1>4
  <2>2. q \in Resource /\ d \in Nat
    BY <2>1 DEF P!Frame
  <2>3. Sub[q] \in Seq(Resource)
    BY <2>2, SubIsSeq
  <2>4. Len(Sub[q]) \in Nat
    BY <2>3, LenProperties
  <2>5. stack[m + 1].r = "hostgroup"
    BY <1>1, <1>4
  <2>6. d < Len(Sub[q]) /\ Sub[q][d + 1] = stack[m + 1].r
    BY <1>5
  <2> QED
    BY <2>2, <2>4, <2>5, <2>6
<1>7. \A j \in 1 .. d : Sub[q][j] \in visited
  BY <1>5
<1> HIDE DEF q, d
<1>8. d + 1 \in 1 .. Len(Sub[q])
  BY <1>6
<1>9. q = "cluster" /\ d + 1 = 2
  BY <1>6, <1>8, HostgroupSub
<1>10. Sub["cluster"] = <<"alb", "hostgroup">>
  BY Kinds, KindsApart DEF Sub, Grouping
<1>11. 1 \in 1 .. d
  BY <1>6, <1>9
<1> QED
  BY <1>7, <1>9, <1>10, <1>11

(* EnsureResource stops at a rule without a target and at a template whose *)
(* gateway has no key: what else a Fetch asks for has been ensured.        *)
LEMMA StuckWhere ==
    ASSUME IInv, FetchStuck, cmd = "import"
    PROVE  \/ Top.r = "rule" /\ NoTarget
           \/ Top.r = "lt" /\ Exists("gateway") /\ ApiKeys = {}
<1>1. /\ stack # <<>> /\ Top.step = "subresources" /\ Top.done = Len(Sub[Top.r])
      /\ FetchFails(Top.r) \/ AttachFails(Top.r)
  BY DEF FetchStuck, At
<1>2. ~dry /\ Top.r \in Resource
  BY <1>1, StackFacts DEF IInv, BInv, Control
<1>3. /\ \A q \in P!SubsOf(Top.r) : q \in visited
      /\ \A q \in visited : q \notin Grouping /\ q # "alb" => Exists(q)
      /\ "alb" \in visited => AlbIsWhole
  BY <1>1, <1>2, SubsAreThere
<1> DEFINE r == Top.r
<1>4. r \in Resource /\ \A i \in DOMAIN Sub[r] : Sub[r][i] \in visited
  BY <1>2, <1>3 DEF P!SubsOf
<1>5. /\ {"lt", "gateway", "sm", "hostgroup"} \intersect (Role \union Lambda) = {}
      /\ {"gateway", "join", "asg"} \intersect (Grouping \union {"alb"}) = {}
      /\ Lambda \intersect (Grouping \union {"alb"}) = {}
  BY Kinds, KindsApart DEF Others, Grouping
<1>6. \A a : 1 \in DOMAIN <<a>> /\ <<a>>[1] = a
  OBVIOUS
<1> HIDE DEF r
<1>8. CASE r = "lt" /\ NoGateway
  <2>1. Sub[r] = <<"gateway">>
    BY <1>4, <1>5, <1>8 DEF Sub
  <2>2. Exists("gateway")
    BY <1>3, <1>4, <1>5, <1>6, <2>1
  <2> QED
    BY <1>8, <2>2 DEF NoGateway, r
<1>9. CASE r = "gateway" /\ ~Exists("join")
  <2>1. Sub[r] = <<"join">>
    BY <1>4, <1>5, <1>9 DEF Sub
  <2> QED
    BY <1>3, <1>4, <1>5, <1>6, <1>9, <2>1
<1>10. CASE r = "sm" /\ NoScaleLambda
  <2> DEFINE s == ScaleLambdas  t == <<RoleOf["sm"]>>  S == {"fetch", "scale", "terminate"} \union {RoleOf["sm"]}
  <2>1. Sub[r] = s \o t
    BY <1>4, <1>10, Kinds DEF Sub, Role
  <2>2. s \in Seq({"fetch", "scale", "terminate"})
    BY ScaleLambdasAssumption
  <2>3. s \in Seq(S) /\ t \in Seq(S)
    BY <2>2, SeqMonotonic
  <2>4. ToSet(s) = {s[i] : i \in DOMAIN s} /\ ToSet(s) \subseteq Lambda
    BY Kinds DEF ToSet
  <2> HIDE DEF s, t, S
  <2>5. \A i \in 1 .. Len(s) : i \in 1 .. Len(s \o t) /\ (s \o t)[i] = s[i]
    BY <2>3, ConcatFacts
  <2>6. s \o t \in Seq(S)
    BY <2>3, ConcatFacts
  <2>7. DOMAIN s = 1 .. Len(s) /\ DOMAIN (s \o t) = 1 .. Len(s \o t)
    BY <2>3, <2>6
  <2>8. \A l \in ToSet(s) : l \in visited
    BY <1>4, <2>1, <2>4, <2>5, <2>7
  <2>9. \A l \in ToSet(s) : Exists(l)
    BY <1>3, <1>5, <2>4, <2>8
  <2> QED
    BY <1>10, <2>9 DEF NoScaleLambda, s
<1>11. CASE AttachFails(r)
  <2>1. r = "hostgroup"
    BY <1>11 DEF AttachFails
  <2>2. Sub[r] = <<"asg">>
    BY <1>4, <1>5, <2>1 DEF Sub
  <2>3. Exists("asg")
    BY <1>3, <1>4, <1>5, <1>6, <2>2
  <2>4. "alb" \in visited
    BY <1>1, <2>1, AttachesOnAlb DEF r
  <2>5. Has("alb", "tg")
    BY <1>3, <2>4 DEF AlbIsWhole, AlbParts
  <2> QED
    BY <1>11, <2>3, <2>5 DEF AttachFails
<1> QED
  BY <1>1, <1>8, <1>9, <1>10, <1>11 DEF FetchFails, r

LEMMA FetchStuckTorn ==
    ASSUME IInv, FetchStuck, cmd = "import"
    PROVE  TornImport
BY StuckWhere DEF TornImport

(* A function that stops by itself is one of import, on what is torn. *)
LEMMA WorkStopsTorn ==
    ASSUME IInv, Torn, WorkStops
    PROVE  cmd # "destroy" /\ TornImport
<1>1. todo # <<>> /\ Head(todo) = Stop /\ todo \in Seq(CallSet)
  BY DEF WorkStops, IInv, BInv, Types
<1>2. 1 \in 1 .. Len(todo) /\ todo[1] = Stop
  BY <1>1, HeadTail
<1>3. stack # <<>>
  <2>1. stack = <<>> => OutsideCall(Stop)
    BY <1>2, AnyCall
  <2>2. Stop.r \notin Resource
    BY StopIsCall, KindsApart
  <2> QED
    BY <2>1, <2>2 DEF OutsideCall
<1>4. EnsureCall(Top.r, Stop) /\ cmd # "destroy"
  BY <1>2, <1>3, AnyCall
<1>5. Top.r \in {"alb", "table"}
  BY <1>4, StopIsCall DEF EnsureCall
<1>6. TornAt(Top.r, todo)
  BY <1>3 DEF Torn
<1>7. CASE Top.r = "alb"
  <2>1. TornAlb(todo, 1)
    BY <1>2, <1>6, <1>7 DEF TornAt
  <2>2. Has("alb", "tg")
    <3>1. \A j \in 1 .. 1 : todo[j].put = {}
      BY <1>2, StopIsCall
    <3> QED
      BY <2>1, <3>1 DEF TornAlb, Group, Has
  <2>3. ~AlbIsWhole
    BY <2>1 DEF TornAlb, AlbIsWhole, AlbParts
  <2> QED
    BY <1>4, <2>1, <2>2, <2>3 DEF TornImport, TornAlb
<1>8. CASE Top.r = "table"
  <2>1. TornTable(todo, 1)
    BY <1>2, <1>6, <1>8 DEF TornAt
  <2> QED
    BY <1>4, <2>1 DEF TornTable, TornImport, Credentials, Has
<1> QED
  BY <1>5, <1>7, <1>8

LEMMA StuckNext ==
    ASSUME IInv, Torn, StuckOnlyIfTorn, [Next]_vars
    PROVE  StuckOnlyIfTorn'
<1>1. outcome = "stuck" => (cmd = "import" => TornImport) /\ (cmd = "destroy" => TornDestroy)
  BY DEF StuckOnlyIfTorn, TornImport, TornDestroy
<1>2. SUFFICES ASSUME outcome' = "stuck"
               PROVE  (cmd' = "import" => TornImport') /\ (cmd' = "destroy" => TornDestroy')
  BY DEF StuckOnlyIfTorn, TornImport, TornDestroy
<1>3. outcome # "running" => stack = <<>> /\ todo = <<>>
  BY DEF IInv, BInv, Control
<1>4. CASE ImportCluster \/ UpdateCluster \/ Destroy \/ Upgrade
  <2>1. PICK c \in {"update", "dryUpdate", "destroy"} : Refused(c) /\ (c = "destroy" => DestroyRefused)
    BY <1>2, <1>4 DEF ImportCluster, UpdateCluster, Destroy, Upgrade, Begins
  <2>2. cmd' = c /\ UNCHANGED <<tag, parts, target, made>>
    BY <2>1 DEF Refused, awsVars
  <2>3. c = "destroy" => TornDestroy
    BY <2>1 DEF DestroyRefused, TornDestroy
  <2> QED
    BY <2>2, <2>3, TornSame
<1>5. CASE Ensure \/ Proceed \/ Finish \/ Descend \/ Fetch \/ Work \/ WorkQuietly \/ Worked \/ Return \/ Abort
  <2>1. outcome = "running" /\ outcome' # "stuck"
    BY <1>3, <1>5 DEF Ensure, Proceed, Finish, Descend, Fetch, Work, WorkQuietly, Worked, Return, Abort, Ends, Between, At
  <2> QED
    BY <1>2, <2>1
<1>6. ASSUME CleanerStuck \/ FetchStuck \/ WorkStops
      PROVE  cmd' = cmd /\ UNCHANGED <<tag, parts, target, made>>
  BY <1>6 DEF CleanerStuck, FetchStuck, WorkStops, Ends, awsVars
<1>7. CASE CleanerStuck
  <2>1. cmd = "destroy" /\ CleanerFails(Head(plan))
    BY <1>7 DEF CleanerStuck
  <2>2. TornDestroy
    BY <2>1 DEF CleanerFails, TornDestroy
  <2> QED
    BY <1>6, <1>7, <2>1, <2>2, TornSame
<1>8. CASE FetchStuck
  <2>1. stack # <<>>
    BY <1>8 DEF FetchStuck, At
  <2>2. cmd # "destroy"
    BY <2>1 DEF IInv, BInv, Control
  <2> QED
    BY <1>6, <1>8, <2>2, FetchStuckTorn, TornSame
<1>9. CASE WorkStops
  BY <1>6, <1>9, WorkStopsTorn, TornSame
<1>10. CASE UNCHANGED vars
  <2>1. UNCHANGED <<cmd, outcome, tag, parts, target, made>>
    BY <1>10 DEF vars, awsVars, ensureVars
  <2> QED
    BY <1>1, <1>2, <2>1, TornSame
<1> QED
  BY <1>4, <1>5, <1>7, <1>8, <1>9, <1>10 DEF Next

(***************************************************************************)
(* StuckOnlyIfTorn: a command stops for another reason than a failed call  *)
(* only on what an interrupted one left half made, or on a table that the  *)
(* listing left out.                                                       *)
(***************************************************************************)
THEOREM StuckCorrect == Spec => []StuckOnlyIfTorn
<1>1. Init => StuckOnlyIfTorn
  BY DEF Init, StuckOnlyIfTorn
<1> QED
  BY <1>1, IInvCorrect, TornCorrect, StuckNext, PTL DEF Spec
=============================================================================
