-------------------------- MODULE ClusterLifecycle --------------------------
(***************************************************************************)
(* import, update and destroy of one cluster, over the resources of        *)
(* ClusterResources.  One command runs at a time.  It ensures the table    *)
(* and the cluster with EnsureResource, makes calls of its own before and  *)
(* after, and stops at the first error.  It may fail at every call and die *)
(* between any two; the next command then starts from what AWS holds.      *)
(***************************************************************************)
EXTENDS ClusterResources

CONSTANTS
    Commands,       \* the commands the user runs
    Upgraded,       \* the resources another release has a new version of
    MaxRuns,        \* bound: number of commands
    MaxAborts,      \* bound: commands that fail or die half way
    MaxQuiet        \* bound: what passes without an error: calls that fail
                    \* and resources that a listing leaves out

ASSUME CommandsAssumption == Commands \subseteq {"import", "update", "dryUpdate", "destroy"}
\* The versions of the other resources have never changed, and their Update
\* does not set the tag.
ASSUME UpgradedAssumption == Upgraded \subseteq Role \union Lambda \union {"lt", "asg", "table"}
ASSUME BoundsAssumption == MaxRuns \in Nat /\ MaxAborts \in Nat /\ MaxQuiet \in Nat

VARIABLES
    cmd,        \* the last command
    outcome,    \* "none" before the first, "running", and how it ended
    plan,       \* what the command still has to do
    stack,      \* the calls of EnsureResource in progress, the innermost last
    dry,        \* the dryRun argument of EnsureResource
    todo,       \* the calls that remain of the function in progress
    visited,    \* resources EnsureResource has returned nil for
    missed,     \* history: resources a listing of destroy has left out
    cut,        \* history: commands that were aborted
    runs, aborts, quiet

awsVars == <<tag, parts>>
ensureVars == <<stack, dry, visited, made>>
history == <<missed, cut>>
bounds == <<runs, aborts, quiet>>
vars == <<awsVars, target, ensureVars, cmd, outcome, plan, todo, history, bounds>>

Frame(r) == [r |-> r, done |-> 0, step |-> "subresources"]
Top == Last(stack)
Below == Front(stack)
At(step) == stack # <<>> /\ Top.step = step /\ todo = <<>>
Decide(step) == stack' = Append(Below, [Top EXCEPT !.step = step])

Init ==
    /\ tag = [r \in Resource |-> 0]
    /\ parts = {}
    /\ target = [r \in Resource |-> 1]
    /\ made = FALSE
    /\ cmd = "none"
    /\ outcome = "none"
    /\ plan = <<>>
    /\ stack = <<>>
    /\ dry = FALSE
    /\ todo = <<>>
    /\ visited = {}
    /\ missed = {}
    /\ cut = {}
    /\ runs = 0
    /\ aborts = 0
    /\ quiet = 0

(* The command ends here, with an error or a panic. *)
Ends(how) ==
    /\ outcome' = how
    /\ plan' = <<>>
    /\ stack' = <<>>
    /\ todo' = <<>>
    /\ visited' = {}
    /\ UNCHANGED <<awsVars, target, dry, made, cmd, missed, runs, quiet>>

-----------------------------------------------------------------------------
(***************************************************************************)
(* EnsureResource                                                          *)
(***************************************************************************)

Descend ==
    /\ At("subresources")
    /\ Top.done < Len(Sub[Top.r])
    /\ stack' = Append(stack, Frame(Sub[Top.r][Top.done + 1]))
    /\ UNCHANGED <<awsVars, target, dry, visited, made, cmd, outcome, plan, todo, history, bounds>>

(***************************************************************************)
(* Fetch of the resources returns an error, or panics: the first target of *)
(* a rule without targets, the key of a gateway without one, and, for a    *)
(* dry run that created nothing below, a lambda or a gateway that is not   *)
(* there.                                                                  *)
(***************************************************************************)
NoTarget == Exists("rule") /\ \A p \in RuleTargets : ~Has("rule", p)
NoGateway == ~Exists("gateway") \/ ApiKeys = {}
NoScaleLambda == \E l \in ToSet(ScaleLambdas) : ~Exists(l)

FetchFails(r) ==
    \/ r = "rule" /\ NoTarget
    \/ r = "lt" /\ NoGateway
    \/ r = "gateway" /\ ~Exists("join")
    \/ r = "sm" /\ NoScaleLambda

(* ListTargetsByRule lists the targets in any order; the first one counts. *)
FirstTargetIsStale == Has("rule", "stale")
FirstTargetIsLive == LiveTargets # {}

(***************************************************************************)
(* What Fetch and the versions lead to: the calls of Create or Update, one *)
(* of several when AWS chooses.  No calls: the resource is left as it is.  *)
(***************************************************************************)
Outdated(r) == tag[r] # target[r]

RoleWorks(r) ==
    IF ~Exists(r) THEN {CreateIamRole(r)}
    ELSE IF Outdated(r) THEN {UpdateRolePolicy(r)} ELSE {}

(* Variant: a lambda is judged by its tag alone.                           *)
LambdaWorksByTag(l) ==
    IF ~Exists(l) THEN {CreateLambda(l, IF cmd = "import" THEN {"tableName"} ELSE {})}
    ELSE IF Outdated(l) THEN {UpdateLambda(l)} ELSE {}

(* A lambda or a state machine whose role is gone, and a gateway whose     *)
(* lambda does not let it in, report another version than their tag.       *)
LambdaIsCurrent(l) == ~Outdated(l) /\ Has(l, "role")
StateMachineIsCurrent == Has("sm", "role")
GatewayIsCurrent == Has("join", "policy")

LambdaWorks(l) ==
    IF ~Exists(l) THEN {CreateLambda(l, IF cmd = "import" THEN {"tableName"} ELSE {})}
    ELSE IF LambdaIsCurrent(l) THEN {} ELSE {UpdateLambda(l)}

StateMachineWorks ==
    IF ~Exists("sm") THEN {CreateStateMachine}
    ELSE IF StateMachineIsCurrent THEN {} ELSE {UpdateStateMachineRoleArn}

(* Variant: whether the rule has a target of its role is not looked at.    *)
RuleWorksAlways ==
    IF ~Exists("rule") THEN {CreateCloudWatchEventRule} ELSE {PutTargets(tag["rule"])}

RuleWorks ==
    IF ~Exists("rule") THEN {CreateCloudWatchEventRule}
    ELSE IF FirstTargetIsStale THEN {PutTargets(tag["rule"])} ELSE {}

GatewayWorks ==
    IF ~Exists("gateway") THEN {CreateJoinApi}
    ELSE IF GatewayIsCurrent THEN {} ELSE {ReCreateGateway}

LaunchTemplateWorks ==
    IF ~Exists("lt") THEN {CreateLaunchTemplate(k) : k \in ApiKeys}
    ELSE IF Outdated("lt")
    THEN {CreateNewLaunchTemplateVersion(k) \o ModifyLaunchTemplateDefaultVersion : k \in ApiKeys}
    ELSE {}

AutoScalingGroupWorks ==
    IF ~Exists("asg") THEN {CreateAutoScalingGroup}
    ELSE IF Outdated("asg") THEN {UpdateAutoScalingGroup} ELSE {}

AlbWorks ==
    IF ~Dns /\ PartsOf("alb") = {} THEN {CreateAlb}
    ELSE IF ~AlbIsWhole THEN {UpdateAlb} ELSE {}

KmsWorks == IF ~Exists("key") THEN {CreateKMSKey} ELSE {}

DynamoDbWorks ==
    IF ~Exists("table") THEN {CreateDb}
    ELSE IF Outdated("table") THEN {UpdateDb(listed) : listed \in {TRUE, quiet = MaxQuiet}} ELSE {}

Works(r) ==
    CASE r \in Role -> RoleWorks(r)
      [] r \in Lambda -> LambdaWorks(r)
      [] r = "sm" -> StateMachineWorks
      [] r = "rule" -> RuleWorks
      [] r = "gateway" -> GatewayWorks
      [] r = "lt" -> LaunchTemplateWorks
      [] r = "asg" -> AutoScalingGroupWorks
      [] r = "alb" -> AlbWorks
      [] r = "key" -> KmsWorks
      [] r = "table" -> DynamoDbWorks
      [] r = "hostgroup" -> {AttachTargetGroup}
      [] OTHER -> {<<>>}

(* Create of the host group: the target group and the group must be there. *)
AttachFails(r) == r = "hostgroup" /\ (~Has("alb", "tg") \/ ~Exists("asg"))

(* Variant: what is there is left as it is.                                *)
MayLeaveIfThere(r) == Exists(r) \/ Works(r) = {}

MayLeave(r) == Works(r) = {} \/ (r = "rule" /\ FirstTargetIsLive)

Fetch ==
    /\ At("subresources")
    /\ Top.done = Len(Sub[Top.r])
    /\ ~FetchFails(Top.r) /\ ~AttachFails(Top.r)
    /\ \/ /\ dry => Top.r \in Grouping
          /\ todo' \in Works(Top.r)
          /\ Decide("work")
       \/ /\ IF dry THEN Top.r \notin Grouping ELSE MayLeave(Top.r)
          /\ Decide("return")
          /\ UNCHANGED todo
    /\ UNCHANGED <<awsVars, target, dry, visited, made, cmd, outcome, plan, history, bounds>>

FetchStuck ==
    /\ At("subresources")
    /\ Top.done = Len(Sub[Top.r])
    /\ FetchFails(Top.r) \/ AttachFails(Top.r)
    /\ Ends("stuck")
    /\ UNCHANGED <<cut, aborts>>

Worked ==
    /\ At("work")
    /\ Decide("return")
    /\ made' = (made \/ (Top.r = "gateway"))
    /\ UNCHANGED <<awsVars, target, dry, visited, cmd, outcome, plan, todo, history, bounds>>

Return ==
    /\ At("return")
    /\ visited' = visited \union {Top.r}
    /\ stack' = IF Below = <<>> THEN <<>>
                ELSE Append(Front(Below), [Last(Below) EXCEPT !.done = @ + 1])
    /\ UNCHANGED <<awsVars, target, dry, made, cmd, outcome, plan, todo, history, bounds>>

-----------------------------------------------------------------------------
(***************************************************************************)
(* Calls to AWS                                                            *)
(***************************************************************************)

(* The next call succeeds. *)
Work ==
    /\ todo # <<>>
    /\ LET c == Head(todo) IN
          /\ c # Stop
          /\ tag' = [tag EXCEPT ![c.r] = c.version]
          /\ parts' = (parts \ c.drop) \union c.put
    /\ todo' = Tail(todo)
    /\ UNCHANGED <<target, ensureVars, cmd, outcome, plan, history, bounds>>

(* It fails, and the code goes on. *)
WorkQuietly ==
    /\ todo # <<>>
    /\ quiet < MaxQuiet
    /\ ErrorIgnored(Head(todo))
    /\ todo' = Tail(todo)
    /\ quiet' = quiet + 1
    /\ UNCHANGED <<awsVars, target, ensureVars, cmd, outcome, plan, history, runs, aborts>>

WorkStops ==
    /\ todo # <<>>
    /\ Head(todo) = Stop
    /\ Ends("stuck")
    /\ UNCHANGED <<cut, aborts>>

(* It fails and the command stops, or the process dies. *)
Abort ==
    /\ outcome = "running"
    /\ aborts < MaxAborts
    /\ aborts' = aborts + 1
    /\ cut' = cut \union {cmd}
    /\ Ends("aborted")

-----------------------------------------------------------------------------
(***************************************************************************)
(* The commands                                                            *)
(***************************************************************************)

Ready == outcome # "running" /\ runs < MaxRuns

Begins(c, steps) ==
    /\ Ready
    /\ c \in Commands
    /\ cmd' = c
    /\ outcome' = "running"
    /\ plan' = steps
    /\ visited' = {}
    /\ made' = FALSE
    /\ runs' = runs + 1
    /\ UNCHANGED <<awsVars, target, stack, dry, todo, history, aborts, quiet>>

Refused(c) ==
    /\ Ready
    /\ c \in Commands
    /\ cmd' = c
    /\ runs' = runs + 1
    /\ outcome' = "stuck"
    /\ visited' = {}
    /\ UNCHANGED <<awsVars, target, stack, dry, made, plan, todo, history, aborts, quiet>>

ImportCluster ==
    Begins("import", <<"table", "credentials", "settings", "cluster", "attach", "loadBalancer">>)

(***************************************************************************)
(* GetCluster: the settings say whether there is a cluster, the groups     *)
(* tagged with its name which host groups it has, and the launch template  *)
(* of each how it was made.  Settings of another build are written back,   *)
(* in a dry run as well.                                                   *)
(***************************************************************************)
HostGroupUnknown == Exists("asg") /\ ~Exists("lt")
GetClusterFails == ~Has("table", "settings") \/ HostGroupUnknown

UpdateCluster ==
    \E c \in {"update", "dryUpdate"} :
        \/ GetClusterFails /\ Refused(c)
        \/ /\ ~GetClusterFails
           /\ Begins(c, When(~Has("table", "build"), <<"migrate">>)
                        \o <<"table", IF Exists("asg") THEN "cluster" ELSE "bare">>)

(* Variant: a cluster that is already destroyed is refused.                *)
RefusedWithoutTable == ~Has("table", "settings")

(***************************************************************************)
(* destroy: no table is taken for a cluster already destroyed, but a table *)
(* without settings is an error.                                           *)
(***************************************************************************)
DestroyRefused == Exists("table") /\ ~Has("table", "settings")

(* Variants: a cleaner forgotten; the key before the table.                *)
CleanersWithoutRule == <<"iam", "lambdas", "gateway", "lt", "sm", "asg", "alb", "db", "kms">>

KeyBeforeTable == <<"iam", "lambdas", "gateway", "lt", "sm", "rule", "asg", "alb", "kms", "db">>

Cleaners == <<"iam", "lambdas", "gateway", "lt", "sm", "rule", "asg", "alb", "db", "kms">>

Destroy ==
    \/ DestroyRefused /\ Refused("destroy")
    \/ /\ ~DestroyRefused
       /\ Begins("destroy", When(Dns /\ Has("table", "settings"), <<"record">>) \o Cleaners)

(* One after the other; of a role the policy first.                        *)
DeleteRoles(found) ==
    [i \in 1 .. 2 * Cardinality(found) |->
        DeleteIamRole(SetToSeq(found)[(i + 1) \div 2])[IF i % 2 = 1 THEN 1 ELSE 2]]
DeleteLambdas(found) ==
    [i \in 1 .. Cardinality(found) |-> DeleteLambda(SetToSeq(found)[i])[1]]

(***************************************************************************)
(* What the listings of the cleaners find.  GetClusterRoles and            *)
(* GetClusterLambdas leave out what they could not read the tags of; the   *)
(* others read one page.  So left, a part of a listing, may be missing.    *)
(***************************************************************************)
GetClusterRoles(left) == {r \in Role : Exists(r)} \ left
GetClusterLambdas(left) == {l \in Lambda : Exists(l)} \ left
GetClusterStateMachines(left) == {r \in {"sm"} : Exists(r)} \ left
GetCloudWatchEventRules(left) == {r \in {"rule"} : Exists(r)} \ left
GetClusterDb(left) == {r \in {"table"} : Exists(r)} \ left

Listing(s, left) ==
    CASE s = "iam" -> GetClusterRoles(left)
      [] s = "lambdas" -> GetClusterLambdas(left)
      [] s = "sm" -> GetClusterStateMachines(left)
      [] s = "rule" -> GetCloudWatchEventRules(left)
      [] s = "db" -> GetClusterDb(left)
      [] OTHER -> {}

(* A command's step: the calls of a function, one of several; without a    *)
(* listing found is not looked at.                                         *)
Steps(s, found) ==
    CASE s = "credentials" -> {SaveCredentials}
      [] s \in {"settings", "migrate"} -> {SaveClusterSettings}
      [] s = "attach" -> {AttachInstancesToASG}
      [] s = "loadBalancer" -> {AttachLoadBalancer}
      [] s = "record" -> {DeleteRoute53Record}
      [] s = "iam" -> {DeleteRoles(found)}
      [] s = "lambdas" -> {DeleteLambdas(found)}
      [] s = "gateway" -> {When(Exists(s), DeleteRestApiGateway)}
      [] s = "lt" -> {When(Exists(s), DeleteLaunchTemplate)}
      [] s = "sm" -> {When(s \in found, DeleteStateMachine)}
      [] s = "rule" -> {When(s \in found, DeleteCloudWatchEventRule)}
      [] s = "asg" -> {When(Exists(s), DeleteAutoScalingGroup(keep)) : keep \in BOOLEAN}
      [] s = "alb" -> {DeleteAlb}
      [] s = "db" -> {When("table" \in found, DeleteTable)}
      [] s = "kms" -> {When(Exists("key"), DeleteKMSKey)}

(* RemoveTargets of no target; the print of the target group of a load     *)
(* balancer that has none.                                                 *)
CleanerFails(s) ==
    \/ s = "rule" /\ NoTarget
    \/ s = "alb" /\ Has("alb", "lb") /\ ~Has("alb", "tg")

Between == outcome = "running" /\ stack = <<>> /\ todo = <<>>
Roots == {"table", "cluster", "bare"}

(* Variant: the two dryRun arguments swapped.                              *)
EnsureSwapped ==
    /\ Between
    /\ plan # <<>> /\ Head(plan) \in Roots
    /\ stack' = <<Frame(Head(plan))>>
    /\ dry' = (cmd = "dryUpdate" /\ Head(plan) = "table")
    /\ visited' = {}
    /\ plan' = Tail(plan)
    /\ UNCHANGED <<awsVars, target, made, cmd, outcome, todo, history, bounds>>

(* The call of EnsureResource on the table or the cluster. *)
Ensure ==
    /\ Between
    /\ plan # <<>> /\ Head(plan) \in Roots
    /\ stack' = <<Frame(Head(plan))>>
    /\ dry' = (cmd = "dryUpdate" /\ Head(plan) # "table")
    /\ visited' = {}
    /\ plan' = Tail(plan)
    /\ UNCHANGED <<awsVars, target, made, cmd, outcome, todo, history, bounds>>

Proceed ==
    /\ Between
    /\ plan # <<>> /\ Head(plan) \notin Roots
    /\ \E left \in SUBSET Listing(Head(plan), {}) :
          /\ quiet + Cardinality(left) <= MaxQuiet
          /\ cmd = "destroy" /\ CleanerFails(Head(plan)) => left # {}
          /\ todo' \in Steps(Head(plan), Listing(Head(plan), left))
          /\ missed' = missed \union left
          /\ quiet' = quiet + Cardinality(left)
    /\ plan' = Tail(plan)
    /\ UNCHANGED <<awsVars, target, ensureVars, cmd, outcome, cut, runs, aborts>>

CleanerStuck ==
    /\ Between
    /\ plan # <<>>
    /\ cmd = "destroy" /\ CleanerFails(Head(plan))
    /\ Ends("stuck")
    /\ UNCHANGED <<cut, aborts>>

Finish ==
    /\ Between
    /\ plan = <<>>
    /\ outcome' = "ok"
    /\ UNCHANGED <<awsVars, target, ensureVars, cmd, plan, todo, history, bounds>>

(***************************************************************************)
(* The user changes to a release with new versions.  What the release      *)
(* would make otherwise is no longer in place: the policies of roles, the  *)
(* runtime and the architecture of lambdas, the build in the settings.     *)
(***************************************************************************)
Upgrade ==
    /\ Ready
    /\ target = [r \in Resource |-> 1]
    /\ Upgraded # {}
    /\ target' = [r \in Resource |-> IF r \in Upgraded THEN 2 ELSE 1]
    /\ parts' = parts \ ((UNION {Of(r, {"policy"}) : r \in Upgraded \intersect Role})
                       \union (UNION {Of(l, {"runtime", "arch"}) : l \in Upgraded \intersect Lambda})
                       \union Of("table", {"build"}))
    /\ visited' = {}
    /\ outcome' = "none"
    /\ UNCHANGED <<tag, stack, dry, made, cmd, plan, todo, history, bounds>>

Next ==
    \/ ImportCluster
    \/ UpdateCluster
    \/ Destroy
    \/ Ensure
    \/ Proceed
    \/ CleanerStuck
    \/ Finish
    \/ Descend
    \/ Fetch
    \/ FetchStuck
    \/ Work
    \/ WorkQuietly
    \/ WorkStops
    \/ Worked
    \/ Return
    \/ Abort
    \/ Upgrade

Spec == Init /\ [][Next]_vars

-----------------------------------------------------------------------------
(***************************************************************************)
(* EnsureResource of ResourceTree.  The load balancer counts as deployed   *)
(* when all of it is, which is what its DeployedVersion comes to.          *)
(***************************************************************************)
Deployed(r) == IF r = "alb" THEN (IF AlbIsWhole THEN target[r] ELSE 0) ELSE tag[r]

Tree == INSTANCE ResourceTree WITH
    deployed <- [r \in Resource |-> Deployed(r)],
    Versions <- {1, 2}

(***************************************************************************)
(* Properties                                                              *)
(***************************************************************************)

Succeeded(c) == outcome = "ok" /\ cmd = c
Settled == outcome = "ok" /\ cmd \in {"import", "update"} /\ "cluster" \in visited

(* Parts that make a resource what import and update mean it to be.        *)
Wanted(r) ==
    CASE r \in Role -> {"policy"}
      [] r = "join" -> {"role", "runtime", "arch", "tableName", "policy", "permission"}
      [] r \in Lambda \ {"join"} -> {"role", "runtime", "arch", "tableName"}
      [] r = "sm" -> {"role"}
      [] r = "rule" -> {"target"}
      [] r = "gateway" -> {"deployment", "plan", "key", "planKey"}
      [] r = "lt" -> {"latest"}
      [] r = "asg" -> {"suspended", "targetGroup", "instances", "healthCheck"}
      [] r = "alb" -> AlbParts
      [] r = "table" -> {"credentials", "settings", "build"}
      [] r = "key" -> {"alias"}
      [] OTHER -> {}

Whole(but) == \A r \in Resource : Of(r, Wanted(r)) \subseteq parts \union but

(* Second halves that no later run makes good: the tag of the first half   *)
(* already says that the resource is up to date.                           *)
NeverRepaired ==
    (UNION {Of(r, {"policy"}) : r \in Role})
    \union (UNION {Of(l, {"runtime"}) : l \in Lambda})
    \union Of("asg", {"suspended", "healthCheck"}) \union Of("key", {"alias"})

(* The policy of a join lambda that outlived a destroy is for the gateway  *)
(* of before, and passes for the sign of a complete one.                   *)
OldJoinPolicy == Of("join", {"permission"}) \union Of("gateway", Wanted("gateway"))

(* Only import knows the name of the table.                                *)
TableNames == UNION {Of(l, {"tableName"}) : l \in Lambda}

(***************************************************************************)
(* Whatever was interrupted before, an import or an update that succeeds   *)
(* leaves every resource whole, but for the second halves of               *)
(* NeverRepaired, for the instances when import did not get to them, for   *)
(* the table name of lambdas that an update makes again after an aborted   *)
(* destroy, and for the launch template, which LaunchedInstancesJoin is    *)
(* about.  Without an interruption nothing is missing.                     *)
(***************************************************************************)
SuccessIsWhole ==
    Settled => Whole(IF aborts = 0 /\ quiet = 0 THEN {}
                     ELSE NeverRepaired \union Of("lt", {"latest"})
                          \union (IF "join" \in missed THEN OldJoinPolicy ELSE {})
                          \union (IF "destroy" \in cut THEN TableNames ELSE {})
                          \union Of("asg", IF cmd = "import" THEN {} ELSE {"instances"}))

(***************************************************************************)
(* The instances the group launches can ask the gateway for the join       *)
(* script: what their user data names is there.  A destroy that stopped    *)
(* may leave a join lambda without its policy, for which the gateway is    *)
(* made again, and any deletion of a gateway that stopped leaves its key,  *)
(* which the launch template may then take for the key of the next.        *)
(***************************************************************************)
LaunchedInstancesJoin ==
    Settled =>
        \/ Has("lt", IF Has("asg", "latest") \/ Has("lt", "single") THEN "latest" ELSE "first")
        \/ "destroy" \in cut
        \/ Has("gateway", "oldKey")

(***************************************************************************)
(* The group uses the launch template of this version, unless an import    *)
(* was cut short and the next one found the template without the group.    *)
(* The group is moved to $Latest by its own Update alone, which a release  *)
(* that changes the template and not the group does not run.               *)
(***************************************************************************)
GroupUsesTemplate ==
    Settled =>
        \/ Has("asg", "latest") \/ Has("lt", "single")
        \/ "import" \in cut
        \/ "lt" \in Upgraded /\ "asg" \notin Upgraded

(***************************************************************************)
(* After an import or an update that succeeds, even one that follows an    *)
(* interrupted destroy, the lambdas, the state machine and the rule use    *)
(* roles that exist, and the join lambda lets the gateway call it; unless  *)
(* it outlived a destroy, with a policy for the gateway of before.         *)
(***************************************************************************)
RolesLive ==
    Settled =>
        /\ \A u \in RoleUser \ {"rule"} : Exists(RoleOf[u]) /\ Has(u, "role")
        /\ LiveTargets # {}
        /\ Exists("gateway")
        /\ Has("join", "permission") \/ "join" \in missed

(* The rule starts one execution a minute, whatever imports and updates    *)
(* ran: there is a second target only next to one whose role is gone.      *)
OneTargetUnlessReplaced == Cardinality(LiveTargets) > 1 => Has("rule", "stale")

(***************************************************************************)
(* A command stops for another reason than a failed call only on what an   *)
(* interrupted one left.  Import: a rule without a target, a gateway       *)
(* without a key, a load balancer that lacks nothing but its DNS record, a *)
(* table without credentials; or a table to be updated that the listing    *)
(* left out.  Destroy: a table without settings, a rule without a target,  *)
(* a load balancer without a target group.                                 *)
(***************************************************************************)
StuckOnlyIfTorn ==
    outcome = "stuck" =>
        /\ cmd = "import" =>
              \/ NoTarget
              \/ Exists("gateway") /\ ApiKeys = {}
              \/ Has("alb", "lb") /\ Has("alb", "tg") /\ Has("alb", "listener") /\ ~AlbIsWhole
              \/ ~Has("table", "credentials")
              \/ Exists("table") /\ Outdated("table")
        /\ cmd = "destroy" =>
              \/ Exists("table") /\ ~Has("table", "settings")
              \/ NoTarget
              \/ Has("alb", "lb") /\ ~Has("alb", "tg")

(***************************************************************************)
(* What a destroy that succeeds leaves, after any number of interrupted    *)
(* commands: what a listing left out, and the usage plan and the key of a  *)
(* gateway, which it finds only through a REST API of that name.           *)
(***************************************************************************)
DestroyRemovesAll ==
    Succeeded("destroy") =>
        /\ \A r \in Resource : Exists(r) => r \in missed
        /\ \A x \in parts : x[1] \in missed \/ x \in Of("gateway", {"oldPlan", "oldKey"})

(* Types of the variables. *)
TypeOK ==
    /\ tag \in [Resource -> 0 .. 2]
    /\ \A x \in parts : x[1] \in Resource
    /\ cmd \in Commands \union {"none"}
    /\ outcome \in {"none", "running", "ok", "aborted", "stuck"}
    /\ \A i \in DOMAIN todo : todo[i] = Stop \/ todo[i].r \in Resource
    /\ visited \subseteq Resource
    /\ {dry, made} \subseteq BOOLEAN

(***************************************************************************)
(* At every moment, also in the middle of a command: what a later command  *)
(* needs is kept as long as what it needs it for.  The settings, in which  *)
(* destroy finds the DNS alias, are there as long as the record is, and    *)
(* the key as long as the table it encrypts.                               *)
(***************************************************************************)
NeededIsKept ==
    /\ TypeOK
    /\ Has("alb", "record") => Has("table", "settings")
    /\ Exists("table") => Exists("key") \/ "table" \in missed

(* A dry run of update changes nothing but the table, which it migrates    *)
(* and brings to this version, with its key; and it attaches the target    *)
(* group, since a host group is created every time.                        *)
DryRunTouches == Of("asg", {"targetGroup"}) \union PartsOf("table") \union PartsOf("key")
DryRunKeepsResources ==
    [][cmd = "dryUpdate" /\ outcome = "running" =>
       /\ \A r \in Resource \ {"table", "key"} : tag'[r] = tag[r]
       /\ parts \ DryRunTouches = parts' \ DryRunTouches']_vars

(* EnsureResource of every command is that of ResourceTree. *)
TreeSpec == Tree!Spec

=============================================================================
