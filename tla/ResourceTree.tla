---------------------------- MODULE ResourceTree ----------------------------
(***************************************************************************)
(* EnsureResource (cluster/resource.go) over any tree of resources: the    *)
(* sub-resources first, then Fetch, then Create or Update.  It is the      *)
(* abstract specification that ClusterLifecycle, with the resources and    *)
(* the AWS calls of wekactl, implements.                                   *)
(*                                                                         *)
(* A run may end with an error at any point, which also stands for a       *)
(* crash; the next run starts from what AWS holds.                         *)
(***************************************************************************)
EXTENDS Naturals, Sequences

CONSTANTS
    Resource,   \* the resources of a cluster
    Sub,        \* Sub[r]: the sequence SubResources returns
    Grouping,   \* resources that only group others: HostGroup and AWSCluster
    Versions    \* the version tags, 0 (the empty string) excluded

SubsOf(r) == {Sub[r][i] : i \in DOMAIN Sub[r]}

ASSUME SubAssumption ==
    /\ Sub \in [Resource -> Seq(Resource)]
    /\ \A r \in Resource : r \notin SubsOf(r)
ASSUME VersionsAssumption == Versions \subseteq Nat \ {0}

VARIABLES
    deployed,   \* the version tag on AWS; 0 when there is none
    target,     \* the version this wekactl installs
    stack,      \* the calls of EnsureResource in progress, the innermost last
    dry,        \* the run is a dry run
    visited     \* the resources whose EnsureResource has returned nil; none
                \* after an error

vars == <<deployed, target, stack, dry, visited>>

(***************************************************************************)
(* One call of EnsureResource: its resource, the number of sub-resources   *)
(* that have returned, and where it is: in the loop over the               *)
(* sub-resources, in Create or Update, or about to return nil.             *)
(***************************************************************************)
Frame == [r : Resource, done : Nat, step : {"subresources", "work", "return"}]
Call(r) == [r |-> r, done |-> 0, step |-> "subresources"]

Idle == stack = <<>>
Top == stack[Len(stack)]
Below == SubSeq(stack, 1, Len(stack) - 1)
SubsDone == Top.done = Len(Sub[Top.r])
At(step) == ~Idle /\ Top.step = step
Decide(step) == stack' = Append(Below, [Top EXCEPT !.step = step])
AtTarget(r) == r \in Grouping \/ deployed[r] = target[r]

Init ==
    /\ deployed = [r \in Resource |-> 0]
    /\ target \in [Resource -> Versions]
    /\ stack = <<>>
    /\ dry = FALSE
    /\ visited = {}

(* A command ensures the resource root. *)
Begin(root) ==
    /\ Idle
    /\ stack' = <<Call(root)>>
    /\ dry' \in BOOLEAN
    /\ visited' = {}
    /\ UNCHANGED <<deployed, target>>

(* The loop over SubResources calls EnsureResource on the next one. *)
Descend ==
    /\ At("subresources")
    /\ ~SubsDone
    /\ stack' = Append(stack, Call(Sub[Top.r][Top.done + 1]))
    /\ UNCHANGED <<deployed, target, dry, visited>>

(* Variant: Fetch does not wait for the sub-resources.                     *)
FetchFirst ==
    /\ At("subresources")
    /\ \/ Decide("work") /\ (dry => Top.r \in Grouping)
       \/ Decide("return") /\ Top.r \notin Grouping /\ (dry \/ AtTarget(Top.r))
    /\ UNCHANGED <<deployed, target, dry, visited>>

(***************************************************************************)
(* Fetch, and the comparison of the versions that follows.  A resource may *)
(* report a version that differs from its tag to have itself updated, so   *)
(* an update is also possible when the tag is the target.  A dry run stops *)
(* before Create and Update, but for the grouping resources.               *)
(***************************************************************************)
Fetch ==
    /\ At("subresources")
    /\ SubsDone
    /\ \/ Decide("work") /\ (dry => Top.r \in Grouping)
       \/ Decide("return") /\ Top.r \notin Grouping /\ (dry \/ AtTarget(Top.r))
    /\ UNCHANGED <<deployed, target, dry, visited>>

(* Variant: the tag is counted up.                                         *)
WorkCounts ==
    /\ At("work")
    /\ Top.r \notin Grouping
    /\ deployed' = [deployed EXCEPT ![Top.r] = @ + 1]
    /\ UNCHANGED <<target, stack, dry, visited>>

(***************************************************************************)
(* The call of Create or Update that sets the version tag, or the one that *)
(* removes a resource to create it again.                                  *)
(***************************************************************************)
Work ==
    /\ At("work")
    /\ Top.r \notin Grouping
    /\ \E v \in {0, target[Top.r]} :
          /\ v = 0 => deployed[Top.r] # 0
          /\ deployed' = [deployed EXCEPT ![Top.r] = v]
    /\ UNCHANGED <<target, stack, dry, visited>>

(* Variant: an error of Create or Update is dropped.                       *)
WorkedAnyway ==
    /\ At("work")
    /\ Decide("return")
    /\ UNCHANGED <<deployed, target, dry, visited>>

(* Create or Update returns nil. *)
Worked ==
    /\ At("work")
    /\ AtTarget(Top.r)
    /\ Decide("return")
    /\ UNCHANGED <<deployed, target, dry, visited>>

(* EnsureResource returns nil, to the loop over SubResources of its caller. *)
Return ==
    /\ At("return")
    /\ visited' = visited \union {Top.r}
    /\ stack' = IF Below = <<>> THEN <<>>
                ELSE [Below EXCEPT ![Len(Below)].done = @ + 1]
    /\ UNCHANGED <<deployed, target, dry>>

(* An error of any call is returned to the command; a crash is the same. *)
Fail ==
    /\ ~Idle
    /\ stack' = <<>>
    /\ visited' = {}
    /\ UNCHANGED <<deployed, target, dry>>

(***************************************************************************)
(* Between two runs: another release of wekactl, with other versions, or   *)
(* resources that are removed, by destroy or by hand.                      *)
(***************************************************************************)
Between ==
    /\ Idle
    /\ \/ target' \in [Resource -> Versions] /\ UNCHANGED deployed
       \/ /\ \E gone \in SUBSET Resource :
                deployed' = [r \in Resource |-> IF r \in gone THEN 0 ELSE deployed[r]]
          /\ UNCHANGED target
    /\ visited' = {}
    /\ UNCHANGED <<stack, dry>>

Next ==
    \/ \E root \in Resource : Begin(root)
    \/ Descend
    \/ Fetch
    \/ Work
    \/ Worked
    \/ Return
    \/ Fail
    \/ Between

Spec == Init /\ [][Next]_vars

-----------------------------------------------------------------------------
(***************************************************************************)
(* Properties                                                              *)
(***************************************************************************)

(* Types of the variables. *)
TypeOK ==
    /\ deployed \in [Resource -> Versions \union {0}]
    /\ target \in [Resource -> Versions]
    /\ stack \in Seq(Frame)
    /\ dry \in BOOLEAN
    /\ visited \in SUBSET Resource

(***************************************************************************)
(* A resource is created or updated only on top of sub-resources that are  *)
(* deployed at the versions of this wekactl: the recursion comes before    *)
(* Fetch in EnsureResource, and nothing of it is undone later in the run.  *)
(***************************************************************************)
SubResourcesFirst ==
    [][\A r \in Resource :
         deployed'[r] # deployed[r] /\ deployed'[r] # 0 =>
             \A s \in SubsOf(r) : AtTarget(s)]_vars

(***************************************************************************)
(* When EnsureResource returns nil from a root, every resource it went     *)
(* through is at the version of this wekactl, whatever earlier runs did    *)
(* and wherever they stopped; and it went through all of them, since       *)
(* visited holds the root's sub-resources, theirs, and so on.              *)
(***************************************************************************)
SuccessDeploys ==
    Idle /\ ~dry => \A r \in visited : AtTarget(r) /\ SubsOf(r) \subseteq visited

(* A dry run leaves every version tag alone: EnsureResource returns before *)
(* Create and Update, except for the resources that only group others.     *)
DryRunKeepsTags == [][~Idle /\ dry => UNCHANGED deployed]_vars

=============================================================================
