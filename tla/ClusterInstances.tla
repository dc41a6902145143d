--------------------------- MODULE ClusterInstances ---------------------------
(***************************************************************************)
(* What import and destroy do to the EC2 instances of a cluster: import    *)
(* disables their termination through the API and attaches them to the     *)
(* Auto Scaling group in batches; destroy deletes the group, with its      *)
(* instances or, with --keep-instances, after detaching them, and then     *)
(* terminates what runs under the tag of the cluster, in batches again.    *)
(* Instances launch and die meanwhile, and every call may fail.            *)
(***************************************************************************)
EXTENDS Naturals, FiniteSets, FiniteSetsExt

CONSTANTS
    Stack,          \* the backends of the stack
    Launched,       \* the instances the group may launch
    MinBackends,    \* fewer cannot be imported: 5
    GroupLimit,     \* instances AWS attaches or detaches in a call: 20
    DeleteLimit,    \* instances destroy means to terminate in a call: 50
    MaxRuns,        \* bound: number of commands
    MaxFails,       \* bound: calls that fail
    MaxDeaths       \* bound: instances that die by themselves

ASSUME InstanceAssumption ==
    /\ IsFiniteSet(Stack)
    /\ Stack \intersect Launched = {}
    /\ MinBackends \in Nat \ {0}
ASSUME LimitAssumption == {GroupLimit, DeleteLimit} \subseteq Nat \ {0}
ASSUME BoundAssumption == {MaxRuns, MaxFails, MaxDeaths} \subseteq Nat

Instance == Stack \union Launched

VARIABLES
    running,    \* instances that run
    disabled,   \* those with DisableApiTermination
    tagged,     \* those with the tag of the cluster
    exists,     \* the group exists
    group,      \* its instances
    cmd,        \* the command in progress, or the last one
    step,       \* where it is; "idle"
    ids,        \* the instances it listed
    left,       \* those it has not got to; AWS lists them in any order
    next,       \* the index of the next batch of DeleteInstances
    outcome,    \* how the last command ended
    began,      \* history: what the group had when destroy listed it
    runs, fails, deaths

ec2Vars == <<running, disabled, tagged>>
groupVars == <<exists, group>>
listVars == <<ids, left, next>>
cmdVars == <<cmd, step, listVars, outcome>>
bounds == <<runs, fails, deaths>>
vars == <<ec2Vars, groupVars, cmdVars, began, bounds>>

Init ==
    /\ running = Stack
    /\ disabled = {}
    /\ tagged = {}
    /\ exists = FALSE
    /\ group = {}
    /\ cmd = "none"
    /\ step = "idle"
    /\ ids = {}
    /\ left = {}
    /\ next = 0
    /\ outcome = "none"
    /\ began = {}
    /\ runs = 0
    /\ fails = 0
    /\ deaths = 0

(* The batches that may come next: as many as the limit lets through. *)
Batch(limit) == kSubset(Min({limit, Cardinality(left)}), left)

Lists(s) == ids' = s /\ left' = s /\ next' = 0
Goes(to) == step' = to /\ UNCHANGED <<cmd, outcome, runs>>
Ends(how) == step' = "idle" /\ outcome' = how /\ UNCHANGED <<cmd, runs>>

Begins(c, at) ==
    /\ step = "idle"
    /\ runs < MaxRuns
    /\ cmd' = c
    /\ step' = at
    /\ outcome' = "none"
    /\ runs' = runs + 1

-----------------------------------------------------------------------------
(* import                                                                  *)

(* The instances of the stack that are not terminated, if they are enough. *)
ImportCluster ==
    /\ Begins("import", "disable")
    /\ Cardinality(running \intersect Stack) >= MinBackends
    /\ Lists(running \intersect Stack)
    /\ UNCHANGED <<ec2Vars, groupVars, began, fails, deaths>>

(* Variant: the errors are not looked at.                                  *)
SetDisableQuietly ==
    /\ step = "disable"
    /\ \E failed \in SUBSET ids :
          /\ ids \ running \subseteq failed
          /\ failed \intersect running # {} => fails < MaxFails
          /\ disabled' = disabled \union (ids \ failed)
          /\ fails' = IF failed \intersect running = {} THEN fails ELSE fails + 1
    /\ Goes("ensure")
    /\ UNCHANGED <<running, tagged, groupVars, listVars, began, deaths>>

(* One call for each, at most 20 at a time, all of which are awaited; the  *)
(* first error ends the import.                                            *)
SetDisableInstancesApiTermination ==
    /\ step = "disable"
    /\ \E failed \in SUBSET ids :
          /\ ids \ running \subseteq failed
          /\ failed \intersect running # {} => fails < MaxFails
          /\ disabled' = disabled \union (ids \ failed)
          /\ fails' = IF failed \intersect running = {} THEN fails ELSE fails + 1
          /\ IF failed = {} THEN Goes("ensure") ELSE Ends("failed")
    /\ UNCHANGED <<running, tagged, groupVars, listVars, began, deaths>>

(* EnsureResource of the cluster: see ClusterLifecycle. *)
EnsureGroup ==
    /\ step = "ensure"
    /\ exists' = TRUE
    /\ Goes("list")
    /\ UNCHANGED <<ec2Vars, group, listVars, began, fails, deaths>>

(* GetDeltaInstancesIds of the instances of the group and those of the     *)
(* stack: what is still to be attached.                                    *)
ListDelta ==
    /\ step = "list"
    /\ left' = ids \ group
    /\ Goes("attach")
    /\ UNCHANGED <<ec2Vars, groupVars, ids, next, began, fails, deaths>>

(* Variant: the last batch, which is not full, is not attached.            *)
AttachSkipsLast ==
    /\ step = "attach"
    /\ \/ /\ Cardinality(left) < GroupLimit
          /\ Ends("ok") /\ UNCHANGED <<tagged, group, left>>
       \/ /\ Cardinality(left) >= GroupLimit
          /\ \E batch \in Batch(GroupLimit) :
                \/ /\ batch \subseteq running \ group
                   /\ group' = group \union batch /\ tagged' = tagged \union batch
                   /\ left' = left \ batch
                   /\ Goes("attach")
                \/ /\ ~(batch \subseteq running \ group)
                   /\ Ends("failed") /\ UNCHANGED <<tagged, group, left>>
    /\ UNCHANGED <<running, disabled, exists, ids, next, began, fails, deaths>>

(* AWS attaches a batch as a whole, of instances that run and have no      *)
(* group, and gives them the tags of the group.                            *)
AttachInstancesToASG ==
    /\ step = "attach"
    /\ \/ left = {} /\ Ends("ok") /\ UNCHANGED <<tagged, group, left>>
       \/ /\ left # {}
          /\ \E batch \in Batch(GroupLimit) :
                \/ /\ batch \subseteq running \ group
                   /\ group' = group \union batch /\ tagged' = tagged \union batch
                   /\ left' = left \ batch
                   /\ Goes("attach")
                \/ /\ ~(batch \subseteq running \ group)
                   /\ Ends("failed") /\ UNCHANGED <<tagged, group, left>>
    /\ UNCHANGED <<running, disabled, exists, ids, next, began, fails, deaths>>

-----------------------------------------------------------------------------
(* destroy                                                                 *)

Destroy(keep) ==
    /\ Begins(IF keep THEN "keep" ELSE "destroy", "describe")
    /\ UNCHANGED <<ec2Vars, groupVars, listVars, began, fails, deaths>>

(* Variant: --keep-instances is not looked at.                             *)
DescribeGroupOnly ==
    /\ step = "describe"
    /\ Lists(group)
    /\ began' = group
    /\ Goes(IF ~exists THEN "instances" ELSE "wait")
    /\ UNCHANGED <<ec2Vars, groupVars, fails, deaths>>

(* DeleteAutoScalingGroup: the instances, then MinSize 0. *)
DescribeGroup ==
    /\ step = "describe"
    /\ Lists(group)
    /\ began' = group
    /\ Goes(IF ~exists THEN "instances" ELSE IF cmd = "keep" /\ group # {} THEN "detach" ELSE "wait")
    /\ UNCHANGED <<ec2Vars, groupVars, fails, deaths>>

(* All in one call, which AWS refuses beyond its limit. *)
DetachInstances ==
    /\ step = "detach"
    /\ IF Cardinality(ids) <= GroupLimit /\ ids \subseteq group
       THEN group' = group \ ids /\ Goes("wait")
       ELSE Ends("failed") /\ UNCHANGED group
    /\ UNCHANGED <<ec2Vars, exists, listVars, began, fails, deaths>>

(* Activities in progress for a minute: destroy gives up. *)
WaitForActivities ==
    /\ step = "wait"
    /\ \/ Goes("delete") /\ UNCHANGED fails
       \/ fails < MaxFails /\ fails' = fails + 1 /\ Ends("failed")
    /\ UNCHANGED <<ec2Vars, groupVars, listVars, began, deaths>>

(* ForceDelete terminates what the group has by now, protected or not. *)
DeleteAutoScalingGroup ==
    /\ step = "delete"
    /\ exists' = FALSE
    /\ running' = running \ group
    /\ group' = {}
    /\ Goes("instances")
    /\ UNCHANGED <<disabled, tagged, listVars, began, fails, deaths>>

(* GetClusterInstances, without --keep-instances. *)
GetClusterInstances ==
    /\ step = "instances"
    /\ IF cmd = "keep" THEN Ends("ok") /\ UNCHANGED listVars
       ELSE Lists(running \intersect tagged) /\ Goes("terminate")
    /\ UNCHANGED <<ec2Vars, groupVars, began, fails, deaths>>

Batches == (Cardinality(ids) + DeleteLimit - 1) \div DeleteLimit

(* Variant: the protection is left on.                                     *)
TerminateProtected ==
    /\ step = "terminate"
    /\ \/ next >= Batches /\ Ends("ok") /\ UNCHANGED <<running, left, next>>
       \/ /\ next < Batches
          /\ \E batch \in Batch(DeleteLimit) :
                /\ running' = IF batch \intersect disabled = {} THEN running \ batch ELSE running
                /\ left' = left \ batch
          /\ next' = next + DeleteLimit
          /\ Goes("terminate")
    /\ UNCHANGED <<disabled, fails, tagged, groupVars, ids, began, deaths>>

(***************************************************************************)
(* A batch of DeleteInstances: the index advances by the limit, but is     *)
(* compared with the number of batches.  One protection that could not be  *)
(* lifted has the batch refused.  Errors are logged, no more.              *)
(***************************************************************************)
DeleteInstances ==
    /\ step = "terminate"
    /\ \/ next >= Batches /\ Ends("ok") /\ UNCHANGED <<running, disabled, left, next, fails>>
       \/ /\ next < Batches
          /\ \E batch \in Batch(DeleteLimit) :
                /\ \E failed \in {f \in SUBSET batch : Cardinality(f) <= MaxFails - fails} :
                      /\ disabled' = disabled \ (batch \ failed)
                      /\ running' = IF batch \intersect disabled' = {} THEN running \ batch ELSE running
                      /\ fails' = fails + Cardinality(failed)
                /\ left' = left \ batch
          /\ next' = next + DeleteLimit
          /\ Goes("terminate")
    /\ UNCHANGED <<tagged, groupVars, ids, began, deaths>>

-----------------------------------------------------------------------------
(* Any call, or the process, fails. *)
Fail ==
    /\ step # "idle"
    /\ fails < MaxFails
    /\ fails' = fails + 1
    /\ Ends("failed")
    /\ UNCHANGED <<ec2Vars, groupVars, listVars, began, deaths>>

(* The group launches an instance, from the launch template. *)
Launch(i) ==
    /\ exists
    /\ i \in Launched /\ i \notin tagged
    /\ running' = running \union {i}
    /\ disabled' = disabled \union {i}
    /\ tagged' = tagged \union {i}
    /\ group' = group \union {i}
    /\ UNCHANGED <<exists, cmdVars, began, bounds>>

(* An instance is terminated by a hand, or by an execution. *)
Die(i) ==
    /\ i \in running
    /\ deaths < MaxDeaths
    /\ running' = running \ {i}
    /\ group' = group \ {i}
    /\ deaths' = deaths + 1
    /\ UNCHANGED <<disabled, tagged, exists, cmdVars, began, runs, fails>>

Next ==
    \/ ImportCluster
    \/ SetDisableInstancesApiTermination
    \/ EnsureGroup
    \/ ListDelta
    \/ AttachInstancesToASG
    \/ \E keep \in BOOLEAN : Destroy(keep)
    \/ DescribeGroup
    \/ DetachInstances
    \/ WaitForActivities
    \/ DeleteAutoScalingGroup
    \/ GetClusterInstances
    \/ DeleteInstances
    \/ Fail
    \/ \E i \in Instance : Launch(i) \/ Die(i)

Spec == Init /\ [][Next]_vars

-----------------------------------------------------------------------------
(***************************************************************************)
(* Properties                                                              *)
(***************************************************************************)

(* Types of the variables. *)
TypeOK ==
    /\ {running, disabled, tagged, group, began, ids, left} \subseteq SUBSET Instance
    /\ exists \in BOOLEAN
    /\ cmd \in {"none", "import", "destroy", "keep"}
    /\ next \in Nat
    /\ outcome \in {"none", "ok", "failed"}

(***************************************************************************)
(* An instance of the group cannot be terminated through the API, before   *)
(* it is attached already: import stops if it could not disable that for   *)
(* one of them, and destroy allows it for instances without a group only.  *)
(***************************************************************************)
GroupIsProtected == TypeOK /\ group \subseteq disabled /\ group \subseteq running

(***************************************************************************)
(* An import resumes an earlier one.  When it succeeds it has attached     *)
(* every instance of the stack that runs, whichever batches the earlier    *)
(* ones got to; and its batches are refused for an instance that died,     *)
(* never for one that is attached already.                                 *)
(***************************************************************************)
ImportResumes ==
    cmd = "import" =>
        /\ outcome = "ok" => running \intersect ids \subseteq group
        /\ step = "attach" => left \intersect group = {}

(***************************************************************************)
(* destroy --keep-instances terminates no instance that the group had when *)
(* it began: they were detached before the group goes, and what it ends    *)
(* with is what was launched meanwhile.                                    *)
(***************************************************************************)
KeepKeeps ==
    [][exists /\ ~exists' /\ cmd = "keep" => running \intersect began \subseteq running']_vars

(***************************************************************************)
(* A destroy without a failing call leaves none of the instances it got to *)
(* running, protected and out of a group as they may be, and it gets to a  *)
(* full batch, or to all there are.  The loop does not get to a second.    *)
(***************************************************************************)
DestroyTerminatesBatch ==
    outcome = "ok" /\ cmd = "destroy" /\ fails = 0 =>
        /\ running \intersect (ids \ left) = {}
        /\ left = {} \/ Cardinality(ids \ left) >= DeleteLimit

=============================================================================
