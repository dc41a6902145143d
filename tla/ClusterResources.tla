-------------------------- MODULE ClusterResources --------------------------
(***************************************************************************)
(* The resources wekactl keeps on AWS for one cluster with one host group  *)
(* (Backends), and the AWS calls of the functions that create, update and  *)
(* delete them, one after the other.                                       *)
(*                                                                         *)
(* A resource has a version tag, and parts: what a second call puts in     *)
(* place after the one that creates it, and what must still be so for the  *)
(* resource to work.  A part that refers to another resource (the role of  *)
(* a lambda, the gateway in the user data of a launch template) is gone as *)
(* soon as that resource is replaced: roles and gateways never come back   *)
(* under the same ARN or id.                                               *)
(*                                                                         *)
(* Functions return sequences of calls, computed from the state they read  *)
(* before the first of them; ClusterLifecycle carries them out.            *)
(***************************************************************************)
EXTENDS Naturals, Sequences, FiniteSets, SequencesExt

CONSTANTS
    ScaleLambdas,   \* the lambdas of the state machine that are modelled
    Dns             \* import was given a DNS alias and its zone

ASSUME ScaleLambdasAssumption ==
    ScaleLambdas \in Seq({"fetch", "scale", "terminate"})
ASSUME DnsAssumption == Dns \in BOOLEAN

VARIABLES
    tag,        \* the version tag of each resource; 0 when it is not there
    parts,      \* the parts in place, as pairs <<resource, part>>
    target,     \* the versions of this wekactl
    made        \* this run has created the gateway and knows its id and key

Lambda == {"join"} \union ToSet(ScaleLambdas)
RoleOf == [join |-> "joinRole", fetch |-> "fetchRole", scale |-> "scaleRole",
           terminate |-> "terminateRole", sm |-> "smRole", rule |-> "ruleRole"]
RoleUser == Lambda \union {"sm", "rule"}
Role == {RoleOf[u] : u \in RoleUser}
Grouping == {"cluster", "hostgroup", "bare"}
Resource == Role \union RoleUser \union Grouping
            \union {"gateway", "lt", "asg", "alb", "table", "key"}

(***************************************************************************)
(* SubResources.  "bare" is the cluster as update sees it when there is no *)
(* Auto Scaling group to tell it of a host group.                          *)
(***************************************************************************)
Sub == [r \in Resource |->
    CASE r = "cluster" -> <<"alb", "hostgroup">>
      [] r = "bare" -> <<"alb">>
      [] r = "hostgroup" -> <<"asg">>
      [] r = "asg" -> <<"lt", "rule">>
      [] r = "lt" -> <<"gateway">>
      [] r = "gateway" -> <<"join">>
      [] r = "rule" -> <<"sm", RoleOf["rule"]>>
      [] r = "sm" -> ScaleLambdas \o <<RoleOf["sm"]>>
      [] r \in Lambda -> <<RoleOf[r]>>
      [] r = "table" -> <<"key">>
      [] OTHER -> <<>>]

Has(r, p) == <<r, p>> \in parts
Of(r, ps) == {<<r, p>> : p \in ps}
PartsOf(r) == {x \in parts : x[1] = r}
Exists(r) == tag[r] # 0

(* A call to AWS: what it does to the tag and the parts of a resource. *)
Call(r, version, put, drop) == [r |-> r, version |-> version, put |-> put, drop |-> drop]
Puts(r, ps) == Call(r, tag[r], Of(r, ps), {})
Drops(r, ps) == Call(r, tag[r], {}, Of(r, ps))
Tags(r) == Call(r, target[r], {}, {})
Removes(r) == Call(r, 0, {}, PartsOf(r))
When(condition, calls) == IF condition THEN calls ELSE <<>>

(* The code stops by itself: a nil pointer, or an item that is not there. *)
Stop == Call("stop", 0, {}, {})

(* Calls whose error the code drops: kms.CreateAlias, and the update of    *)
(* the runtime of a lambda, whose error the wait that follows replaces.    *)
ErrorIgnored(c) == c.put \in {Of("key", {"alias"})} \union {Of(l, {"runtime"}) : l \in Lambda}

-----------------------------------------------------------------------------
(* IAM roles: tagged when created, the policy put by a second call.  The   *)
(* uuid in the name makes every role new, so what referred to the old one  *)
(* does not refer to the next.                                             *)

CreateIamRole(r) == <<Tags(r), Call(r, target[r], Of(r, {"policy"}), {})>>

UpdateRolePolicy(r) == <<Drops(r, {"policy"}), Puts(r, {"policy"}), Tags(r)>>

(* The targets of the rule: with the role as it is, at most two of which   *)
(* are told apart, and with a role that is gone.                           *)
RuleTargets == {"target", "again", "stale"}
LiveTargets == {p \in {"target", "again"} : Has("rule", p)}

Orphans(u) ==
    IF u = "rule" THEN [put |-> Of(u, IF LiveTargets = {} THEN {} ELSE {"stale"}),
                        drop |-> Of(u, {"target", "again"})]
    ELSE [put |-> {}, drop |-> Of(u, {"role"})]

DeleteIamRole(r) ==
    LET user == CHOOSE u \in RoleUser : RoleOf[u] = r IN
    <<Drops(r, {"policy"}), Call(r, 0, Orphans(user).put, Orphans(user).drop)>>

-----------------------------------------------------------------------------
(* Lambdas.  The environment is set when the lambda is created: TABLE_NAME *)
(* is what the command knows.                                              *)

CreateLambda(l, tableName) ==
    <<Call(l, target[l], Of(l, {"role", "runtime", "arch"} \union tableName), {})>>

UpdateLambdaRuntime(l) == <<Puts(l, {"runtime"})>>
UpdateLambdaArchitecture(l) == <<Puts(l, {"arch"})>>
UpdateLambdaRole(l) == <<Puts(l, {"role"})>>
UpdateLambdaHandler(l) == <<Puts(l, {}), Tags(l)>>

(* Variant: the code of a lambda without its runtime and architecture.     *)
UpdateLambdaCodeOnly(l) ==
    When(~Has(l, "role"), UpdateLambdaRole(l))
    \o When(tag[l] # target[l], UpdateLambdaHandler(l))

UpdateLambda(l) ==
    When(~Has(l, "runtime"), UpdateLambdaRuntime(l))
    \o When(~Has(l, "arch"), UpdateLambdaArchitecture(l))
    \o When(~Has(l, "role"), UpdateLambdaRole(l))
    \o When(tag[l] # target[l], UpdateLambdaHandler(l))

DeleteLambda(l) == <<Removes(l)>>

-----------------------------------------------------------------------------
(* The state machine, and the rule that starts it.                         *)

CreateStateMachine == <<Call("sm", target["sm"], Of("sm", {"role"}), {})>>
UpdateStateMachineRoleArn == <<Puts("sm", {"role"})>>
DeleteStateMachine == <<Removes("sm")>>

(* Every call has a new uuid for the id of the target. *)
PutTargets(version) ==
    <<Call("rule", version, Of("rule", {IF Has("rule", "target") THEN "again" ELSE "target"}), {})>>

CreateCloudWatchEventRule == <<Tags("rule")>> \o PutTargets(target["rule"])

(* RemoveTargets refuses an empty list of ids: see DeleteFails. *)
DeleteCloudWatchEventRule == <<Drops("rule", RuleTargets), Removes("rule")>>

-----------------------------------------------------------------------------
(* The API gateway: the REST API, its deployment (with the resource, the   *)
(* method and the integration), the usage plan, the key, and the policy of *)
(* the join lambda that lets the gateway invoke it.                        *)

GatewayCall(part) == Call("gateway", target["gateway"], Of("gateway", {part}), {})
CreateRestApiGateway ==
    <<Tags("gateway"), GatewayCall("deployment"), GatewayCall("plan"), GatewayCall("key"),
      GatewayCall("planKey")>>

AddLambdaInvokePermissions == <<Puts("join", {"policy", "permission"})>>

CreateJoinApi == CreateRestApiGateway \o AddLambdaInvokePermissions

(* The usage plan and the key are found by name: those of a gateway whose  *)
(* deletion stopped after the REST API stay behind.                        *)
Leftover == {x \in {"oldPlan", "oldKey"} : Has("gateway", IF x = "oldPlan" THEN "plan" ELSE "key")}

DeleteRestApiGateway ==
    <<Call("gateway", 0, Of("gateway", Leftover),
           Of("gateway", {"deployment", "plan", "key", "planKey"})
           \union Of("join", {"permission"}) \union Of("lt", {"first", "latest"})),
      Call("gateway", 0, {}, Of("gateway", {"oldPlan"})),
      Call("gateway", 0, {}, Of("gateway", {"oldKey"}))>>

(* Update of a gateway whose lambda lost its policy: the REST API is       *)
(* deleted and the gateway made again.                                     *)
ReCreateGateway == DeleteRestApiGateway \o CreateJoinApi

(* GetRestApiGateway takes the first key of that name it finds. *)
ApiKeys == IF made THEN {"key"} ELSE {k \in {"key", "oldKey"} : Has("gateway", k)}

-----------------------------------------------------------------------------
(* The launch template: version 1 and $Latest, each joining through the    *)
(* gateway as it is now, with its key, or not.  ModifyLaunchTemplate sets  *)
(* the default version, which nothing uses.                                *)

Joins(key, versions) == IF key = "key" THEN Of("lt", versions) ELSE {}

CreateLaunchTemplate(key) ==
    <<Call("lt", target["lt"], Of("lt", {"single"}) \union Joins(key, {"first", "latest"}), {})>>

(* Variant: the new version is made without the user data.                 *)
CreateVersionWithoutUserData(key) ==
    <<Call("lt", target["lt"], {}, Of("lt", {"single", "latest"}))>>

CreateNewLaunchTemplateVersion(key) ==
    <<Call("lt", target["lt"], Joins(key, {"latest"}), Of("lt", {"single", "latest"}))>>

ModifyLaunchTemplateDefaultVersion == <<Call("lt", target["lt"], {}, {})>>

DeleteLaunchTemplate == <<Removes("lt")>>

-----------------------------------------------------------------------------
(* The Auto Scaling group: made on version 1 of the launch template, moved *)
(* to $Latest by an update.  Its instances, its target group and the       *)
(* classic load balancer of the stack are attached by later calls.         *)

CreateAutoScalingGroup == <<Tags("asg"), Call("asg", target["asg"], Of("asg", {"suspended"}), {})>>

(* Variant: the group gets its new tag and keeps its template.             *)
UpdateGroupTagOnly == <<Puts("asg", {}), Tags("asg")>>

UpdateAutoScalingGroup == <<Puts("asg", {"latest"}), Tags("asg")>>

AttachTargetGroup == <<Call("hostgroup", 0, Of("asg", {"targetGroup"}), {})>>

AttachInstancesToASG == <<Puts("asg", {"instances"})>>

AttachLoadBalancer ==
    When(~Has("asg", "elb"), <<Puts("asg", {"elb"}), Puts("asg", {"healthCheck"})>>)

(* With --keep-instances the instances are detached first. *)
DeleteAutoScalingGroup(keep) ==
    When(keep, <<Drops("asg", {"instances"})>>) \o <<Removes("asg")>>

-----------------------------------------------------------------------------
(* The application load balancer: load balancer, target group, listener    *)
(* and DNS record, each found by its own name and tag.                     *)

AlbParts == {"lb", "tg", "listener"} \union (IF Dns THEN {"record"} ELSE {})
AlbIsWhole == \A p \in AlbParts : Has("alb", p)

CreateApplicationLoadBalancer == <<Puts("alb", {"lb"})>>
CreateTargetGroup == <<Puts("alb", {"tg"})>>
CreateListener == <<Puts("alb", {"listener"})>>
CreateApplicationLoadBalancerAliasRecord == <<Puts("alb", {"record"})>>

(* With a DNS alias a load balancer without its record is never created    *)
(* but updated, so that Create makes no record.                            *)
CreateAlb == CreateApplicationLoadBalancer \o CreateTargetGroup \o CreateListener

(* Update puts what is missing; for the record it needs the load balancer, *)
(* which it looks up only to make the listener.                            *)
UpdateAlb ==
    When(~Has("alb", "tg"), CreateTargetGroup)
    \o When(~Has("alb", "lb"), CreateApplicationLoadBalancer)
    \o When(~Has("alb", "listener"), CreateListener)
    \o When(Dns /\ ~Has("alb", "record"),
            IF Has("alb", "lb") /\ Has("alb", "listener")
            THEN <<Stop>> ELSE CreateApplicationLoadBalancerAliasRecord)

(* Listeners go with their load balancer.                                  *)
DeleteListener == When(Has("alb", "listener"), <<Drops("alb", {"listener"})>>)
DeleteApplicationLoadBalancer == When(Has("alb", "lb"), <<Drops("alb", {"lb", "listener"})>>)
DeleteTargetGroup == When(Has("alb", "tg"), <<Drops("alb", {"tg"})>>)
DeleteAlb == DeleteListener \o DeleteApplicationLoadBalancer \o DeleteTargetGroup

DeleteRoute53Record == When(Has("alb", "record"), <<Drops("alb", {"record"})>>)

-----------------------------------------------------------------------------
(* The key and the table, with the items of the table.                     *)

CreateKMSKey == <<Tags("key"), Call("key", target["key"], Of("key", {"alias"}), {})>>
DeleteKMSKey == <<Drops("key", {"alias"}), Removes("key")>>

CreateDb == <<Tags("table")>>

(* The tag, of the table if the listing has it, then the migration of the  *)
(* credentials (see Credentials), which have to be there.                  *)
UpdateDb(listed) ==
    IF ~listed THEN <<Stop>>
    ELSE <<Tags("table"),
           IF Has("table", "credentials") THEN Call("table", target["table"], {}, {}) ELSE Stop>>

SaveCredentials == <<Puts("table", {"credentials"})>>
SaveClusterSettings == <<Puts("table", {"settings", "build"})>>
DeleteTable == <<Removes("table")>>

=============================================================================
