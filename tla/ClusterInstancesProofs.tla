----------------------- MODULE ClusterInstancesProofs -----------------------
(***************************************************************************)
(* What import and destroy guarantee about the instances for stacks of any *)
(* size, any limits of AWS and any number of commands, failures, launches  *)
(* and deaths.                                                             *)
(*                                                                         *)
(* The invariant follows the command in progress: what it has listed, what *)
(* of that it has not got to, and how the group may have changed since.    *)
(* The second part is about the search for the second subnet, for any VPC. *)
(***************************************************************************)
EXTENDS ClusterInstances, AlbSubnet, FiniteSetTheorems, TLAPS

Importing == {"disable", "ensure", "list", "attach"}
Destroying == {"describe", "detach", "wait", "delete", "instances", "terminate"}

Members ==
    /\ group \subseteq disabled
    /\ group \subseteq running
    /\ group \subseteq tagged
    /\ ~exists => group = {}

Progress ==
    /\ step \in Importing \union Destroying \union {"idle"}
    /\ step \in Importing => cmd = "import"
    /\ step \in Destroying => cmd \in {"destroy", "keep"}
    /\ step # "idle" => outcome = "none"
    /\ step \in {"list", "attach"} => exists
    /\ step \in {"instances", "terminate"} => ~exists

Listed ==
    /\ left \subseteq ids
    /\ cmd = "import" => ids \subseteq Stack
    /\ step \in {"ensure", "list", "attach"} => ids \subseteq disabled
    /\ step = "attach" =>
          /\ left \intersect group = {}
          /\ running \intersect ids \subseteq group \union left
    /\ cmd = "import" /\ outcome = "ok" => running \intersect ids \subseteq group

Kept ==
    /\ began \subseteq tagged
    /\ step = "detach" => ids = began
    /\ cmd = "keep" /\ step \in {"wait", "delete"} => began \intersect group = {}

IInv == TypeOK /\ Members /\ Progress /\ Listed /\ Kept

-----------------------------------------------------------------------------
(* A batch is a part of what is left. *)
LEMMA BatchIsLeft ==
    ASSUME NEW limit, NEW batch \in Batch(limit)
    PROVE  batch \subseteq left
BY DEF Batch, kSubset

LEMMA InitIInv == Init => IInv
<1> SUFFICES ASSUME Init PROVE IInv
  OBVIOUS
<1>1. TypeOK
  <2>1. Stack \subseteq Instance
    BY DEF Instance
  <2> QED
    BY <2>1 DEF Init, TypeOK
<1>2. Members /\ Progress
  BY DEF Init, Members, Progress, Importing, Destroying
<1>3. Listed /\ Kept
  BY DEF Init, Listed, Kept
<1> QED
  BY <1>1, <1>2, <1>3 DEF IInv

(* The actions of import. *)
LEMMA ImportStep ==
    ASSUME IInv,
           \/ ImportCluster \/ SetDisableInstancesApiTermination
           \/ EnsureGroup \/ ListDelta \/ AttachInstancesToASG
    PROVE  IInv'
<1> USE DEF IInv, Members, Progress, Importing, Destroying
<1>1. CASE ImportCluster
  BY <1>1, InstanceAssumption
     DEF ImportCluster, Begins, Lists, TypeOK, Listed, Kept, Instance, ec2Vars, groupVars
<1>2. CASE SetDisableInstancesApiTermination
  <2>1. PICK failed \in SUBSET ids :
          /\ disabled' = disabled \union (ids \ failed)
          /\ IF failed = {} THEN Goes("ensure") ELSE Ends("failed")
    BY <1>2 DEF SetDisableInstancesApiTermination
  <2>2. step = "disable" /\ UNCHANGED <<running, tagged, exists, group, ids, left, next, began>>
    BY <1>2 DEF SetDisableInstancesApiTermination, groupVars, listVars
  <2> QED
    BY <2>1, <2>2 DEF Goes, Ends, TypeOK, Listed, Kept
<1>3. CASE EnsureGroup
  BY <1>3 DEF EnsureGroup, Goes, TypeOK, Listed, Kept, ec2Vars, listVars
<1>4. CASE ListDelta
  BY <1>4 DEF ListDelta, Goes, TypeOK, Listed, Kept, ec2Vars, groupVars
<1>5. CASE AttachInstancesToASG
  <2>1. step = "attach" /\ UNCHANGED <<running, disabled, exists, ids, next, began>>
    BY <1>5 DEF AttachInstancesToASG
  <2>2. CASE left = {} /\ Ends("ok") /\ UNCHANGED <<tagged, group, left>>
    BY <2>1, <2>2 DEF Ends, TypeOK, Listed, Kept
  <2>3. CASE Ends("failed") /\ UNCHANGED <<tagged, group, left>>
    BY <2>1, <2>3 DEF Ends, TypeOK, Listed, Kept
  <2>4. ASSUME NEW batch \in Batch(GroupLimit),
               batch \subseteq running \ group,
               group' = group \union batch /\ tagged' = tagged \union batch,
               left' = left \ batch,
               Goes("attach")
        PROVE  IInv'
    <3>1. batch \subseteq left
      BY BatchIsLeft
    <3> QED
      BY <2>1, <2>4, <3>1 DEF Goes, TypeOK, Listed, Kept
  <2> QED
    BY <1>5, <2>2, <2>3, <2>4 DEF AttachInstancesToASG
<1> QED
  BY <1>1, <1>2, <1>3, <1>4, <1>5

(* The actions of destroy. *)
LEMMA DestroyStep ==
    ASSUME IInv,
           \/ \E keep \in BOOLEAN : Destroy(keep)
           \/ DescribeGroup \/ DetachInstances \/ WaitForActivities
           \/ DeleteAutoScalingGroup \/ GetClusterInstances \/ DeleteInstances
    PROVE  IInv'
<1> USE DEF IInv, Members, Progress, Importing, Destroying
<1>1. ASSUME NEW keep \in BOOLEAN, Destroy(keep)
      PROVE  IInv'
  BY <1>1 DEF Destroy, Begins, TypeOK, Listed, Kept, ec2Vars, groupVars, listVars
<1>2. CASE DescribeGroup
  BY <1>2 DEF DescribeGroup, Lists, Goes, TypeOK, Listed, Kept, ec2Vars, groupVars
<1>3. CASE DetachInstances
  BY <1>3 DEF DetachInstances, Goes, Ends, TypeOK, Listed, Kept, ec2Vars, listVars
<1>4. CASE WaitForActivities
  BY <1>4 DEF WaitForActivities, Goes, Ends, TypeOK, Listed, Kept, ec2Vars, groupVars, listVars
<1>5. CASE DeleteAutoScalingGroup
  BY <1>5 DEF DeleteAutoScalingGroup, Goes, TypeOK, Listed, Kept, listVars
<1>6. CASE GetClusterInstances
  BY <1>6 DEF GetClusterInstances, Lists, Goes, Ends, TypeOK, Listed, Kept, ec2Vars, groupVars, listVars
<1>7. CASE DeleteInstances
  <2>1. step = "terminate" /\ UNCHANGED <<tagged, exists, group, ids, began>>
    BY <1>7 DEF DeleteInstances, groupVars
  <2>2. CASE Ends("ok") /\ UNCHANGED <<running, disabled, left, next>>
    BY <2>1, <2>2 DEF Ends, TypeOK, Listed, Kept
  <2>3. ASSUME NEW batch \in Batch(DeleteLimit), NEW failed \in SUBSET batch,
               disabled' = disabled \ (batch \ failed),
               running' = IF batch \intersect disabled' = {} THEN running \ batch ELSE running,
               left' = left \ batch,
               next' = next + DeleteLimit,
               Goes("terminate")
        PROVE  IInv'
    <3>1. next' \in Nat
      BY <2>3, LimitAssumption DEF TypeOK
    <3>2. running' \subseteq running /\ disabled' \subseteq disabled /\ left' \subseteq left
      BY <2>3
    <3>3. group = {}
      BY <2>1
    <3> QED
      BY <2>1, <2>3, <3>1, <3>2, <3>3 DEF Goes, TypeOK, Listed, Kept
  <2> QED
    BY <1>7, <2>2, <2>3 DEF DeleteInstances
<1> QED
  BY <1>1, <1>2, <1>3, <1>4, <1>5, <1>6, <1>7

(* What happens meanwhile. *)
LEMMA OtherStep ==
    ASSUME IInv, Fail \/ (\E i \in Instance : Launch(i) \/ Die(i)) \/ UNCHANGED vars
    PROVE  IInv'
<1> USE DEF IInv, Members, Progress, Importing, Destroying
<1>1. CASE Fail
  BY <1>1 DEF Fail, Ends, TypeOK, Listed, Kept, ec2Vars, groupVars, listVars
<1>2. ASSUME NEW i \in Instance, Launch(i)
      PROVE  IInv'
  <2>1. i \in Launched /\ i \notin Stack /\ i \notin tagged
    BY <1>2, InstanceAssumption DEF Launch
  <2> QED
    BY <1>2, <2>1 DEF Launch, TypeOK, Listed, Kept, cmdVars, listVars
<1>3. ASSUME NEW i \in Instance, Die(i)
      PROVE  IInv'
  BY <1>3 DEF Die, TypeOK, Listed, Kept, cmdVars, listVars
<1>4. CASE UNCHANGED vars
  BY <1>4 DEF vars, TypeOK, Listed, Kept, ec2Vars, groupVars, cmdVars, listVars
<1> QED
  BY <1>1, <1>2, <1>3, <1>4

LEMMA NextIInv == IInv /\ [Next]_vars => IInv'
BY ImportStep, DestroyStep, OtherStep DEF Next

(* The invariant holds whatever the size of the stack and of the batches.  *)
THEOREM IInvCorrect == Spec => []IInv
BY InitIInv, NextIInv, PTL DEF Spec

(* GroupIsProtected: an instance of the group runs and is protected.       *)
THEOREM ProtectedCorrect == Spec => []GroupIsProtected
<1>1. IInv => GroupIsProtected
  BY DEF IInv, Members, GroupIsProtected
<1> QED
  BY <1>1, IInvCorrect, PTL

(* ImportResumes: an import that succeeds has attached whatever of the     *)
(* stack still runs, and attaches no member a second time.                 *)
THEOREM ResumesCorrect == Spec => []ImportResumes
<1>1. IInv => ImportResumes
  BY DEF IInv, Listed, ImportResumes
<1> QED
  BY <1>1, IInvCorrect, PTL

(* KeepKeeps: deleting the group with --keep-instances terminates none of  *)
(* the instances that destroy found in it.                                 *)
THEOREM KeepCorrect == Spec => KeepKeeps
<1>1. IInv /\ [Next]_vars =>
        [exists /\ ~exists' /\ cmd = "keep" => running \intersect began \subseteq running']_vars
  <2> SUFFICES ASSUME IInv, Next, exists, ~exists', cmd = "keep"
               PROVE  running \intersect began \subseteq running'
    OBVIOUS
  <2>1. DeleteAutoScalingGroup
    BY DEF Next, ImportCluster, SetDisableInstancesApiTermination, EnsureGroup, ListDelta,
           AttachInstancesToASG, Destroy, DescribeGroup, DetachInstances, WaitForActivities,
           GetClusterInstances, DeleteInstances, Fail, Launch, Die, groupVars
  <2> QED
    BY <2>1 DEF DeleteAutoScalingGroup, IInv, Kept
<1> QED
  BY <1>1, IInvCorrect, PTL DEF Spec, KeepKeeps

-----------------------------------------------------------------------------
(***************************************************************************)
(* What DeleteInstances gets to.  There are finitely many instances at any *)
(* time; as long as no call has failed, what it got to is terminated, and  *)
(* after the first batch that is as much as the limit lets through.        *)
(***************************************************************************)
Finitely == IsFiniteSet(running) /\ IsFiniteSet(ids)

GotTo ==
    \/ left = {}
    \/ Cardinality(ids \ left) >= DeleteLimit

Terminating ==
    cmd = "destroy" /\ (step = "terminate" \/ outcome = "ok") =>
        /\ ~exists
        /\ fails = 0 => running \intersect (ids \ left) = {}
        /\ IF outcome # "ok" /\ next = 0 THEN left = ids ELSE GotTo

DInv ==
    /\ IInv
    /\ Finitely
    /\ fails \in Nat
    /\ Terminating

(* A batch is full, or all that is left. *)
LEMMA BatchSize ==
    ASSUME IsFiniteSet(left), NEW limit \in Nat, NEW batch \in Batch(limit)
    PROVE  batch = left \/ Cardinality(batch) = limit
<1>1. Cardinality(left) \in Nat
  BY FS_CardinalityType
<1>2. Min({limit, Cardinality(left)}) \in {limit, Cardinality(left)}
  BY <1>1 DEF Min
<1>3. batch \in SUBSET left /\ Cardinality(batch) = Min({limit, Cardinality(left)})
  BY DEF Batch, kSubset
<1> QED
  BY <1>2, <1>3, FS_Subset

(* Without instances there is no batch. *)
LEMMA NoBatches ==
    ASSUME IsFiniteSet(ids), Batches <= 0
    PROVE  ids = {}
<1>1. Cardinality(ids) \in Nat
  BY FS_CardinalityType
<1>2. \A n \in Nat, d \in Nat \ {0} : (n + d - 1) \div d <= 0 => n = 0
  <2> SUFFICES ASSUME NEW n \in Nat, NEW d \in Nat \ {0}, n # 0
               PROVE  (n + d - 1) \div d >= 1
    OBVIOUS
  <2> QED
    OBVIOUS
<1>3. Cardinality(ids) = 0
  BY <1>1, <1>2, LimitAssumption DEF Batches
<1> QED
  BY <1>3, FS_EmptySet

(* A batch of DeleteInstances. *)
LEMMA TerminateStep ==
    ASSUME DInv, DeleteInstances
    PROVE  Terminating'
<1>1. step = "terminate" /\ UNCHANGED <<tagged, exists, group, ids, began, deaths, cmd>>
  BY DEF DeleteInstances, groupVars, Goes, Ends
<1>2. cmd = "destroy" \/ cmd = "keep"
  BY <1>1 DEF DInv, IInv, Progress, Destroying
<1>3. CASE next >= Batches /\ Ends("ok") /\ UNCHANGED <<running, disabled, left, next, fails>>
  <2>1. next = 0 => ids = {}
    BY <1>3, NoBatches DEF DInv, Finitely
  <2>2. left \subseteq ids /\ outcome = "none"
    BY <1>1 DEF DInv, IInv, Listed, Progress
  <2> QED
    BY <1>1, <1>3, <2>1, <2>2 DEF DInv, Terminating, GotTo, Ends
<1>4. ASSUME NEW batch \in Batch(DeleteLimit),
             NEW failed \in SUBSET batch, Cardinality(failed) <= MaxFails - fails,
             disabled' = disabled \ (batch \ failed),
             running' = IF batch \intersect disabled' = {} THEN running \ batch ELSE running,
             fails' = fails + Cardinality(failed),
             left' = left \ batch,
             next' = next + DeleteLimit,
             Goes("terminate")
      PROVE  Terminating'
  <2>1. left \subseteq ids /\ outcome = "none" /\ next \in Nat
    BY <1>1 DEF DInv, IInv, Listed, Progress, TypeOK
  <2>2. IsFiniteSet(left) /\ batch \subseteq left /\ IsFiniteSet(failed)
    BY <2>1, BatchIsLeft, FS_Subset DEF DInv, Finitely
  <2>3. Cardinality(failed) \in Nat /\ (Cardinality(failed) = 0 <=> failed = {})
    BY <2>2, FS_CardinalityType, FS_EmptySet
  <2>4. fails' = 0 => fails = 0 /\ running' = running \ batch
    <3>1. fails' = 0 => fails = 0 /\ Cardinality(failed) = 0
      BY <1>4, <2>3 DEF DInv
    <3>2. failed = {} => batch \intersect disabled' = {}
      BY <1>4
    <3> QED
      BY <1>4, <2>3, <3>1, <3>2
  <2>5. next' # 0
    BY <1>4, <2>1, LimitAssumption
  <2>6. ASSUME cmd = "destroy"
        PROVE  GotTo'
    <3>1. DeleteLimit \in Nat /\ IsFiniteSet(ids)
      BY LimitAssumption DEF DInv, Finitely
    <3>2. CASE next = 0
      <4>1. left = ids
        BY <1>1, <2>1, <2>6, <3>2 DEF DInv, Terminating
      <4>2. CASE batch = left
        BY <1>4, <4>2 DEF GotTo
      <4>3. CASE Cardinality(batch) = DeleteLimit
        <5>1. ids' \ left' = batch
          BY <1>1, <1>4, <2>2, <4>1
        <5> QED
          BY <3>1, <4>3, <5>1 DEF GotTo
      <4> QED
        BY <2>2, <3>1, <4>2, <4>3, BatchSize
    <3>3. CASE next # 0
      <4>1. GotTo
        BY <1>1, <2>1, <2>6, <3>3 DEF DInv, Terminating
      <4>2. CASE left = {}
        BY <1>4, <4>2 DEF GotTo
      <4>3. CASE Cardinality(ids \ left) >= DeleteLimit
        <5>1. IsFiniteSet(ids \ left') /\ ids \ left \subseteq ids \ left'
          BY <1>4, <3>1, FS_Difference
        <5>2. IsFiniteSet(ids \ left) /\ Cardinality(ids \ left) <= Cardinality(ids \ left')
          BY <5>1, FS_Subset
        <5>3. Cardinality(ids \ left) \in Nat /\ Cardinality(ids \ left') \in Nat
          BY <5>1, <5>2, FS_CardinalityType
        <5> QED
          BY <1>1, <3>1, <4>3, <5>2, <5>3 DEF GotTo
      <4> QED
        BY <4>1, <4>2, <4>3 DEF GotTo
    <3> QED
      BY <3>2, <3>3
  <2>7. cmd = "destroy" => ~exists /\ (fails = 0 => running \intersect (ids \ left) = {})
    BY <1>1 DEF DInv, Terminating
  <2> QED
    BY <1>1, <1>4, <2>1, <2>4, <2>5, <2>6, <2>7 DEF Terminating, Goes
<1> QED
  BY <1>1, <1>3, <1>4 DEF DeleteInstances

(* Listing keeps the instances that are known finite in number. *)
LEMMA FinitelyStep ==
    ASSUME IInv, Finitely, [Next]_vars
    PROVE  Finitely'
<1>1. \A S \in SUBSET running : IsFiniteSet(S)
  BY FS_Subset DEF Finitely
<1>2. IsFiniteSet(running')
  <2>1. CASE running' \subseteq running
    BY <1>1, <2>1
  <2>2. ASSUME NEW i, Launch(i)
        PROVE  IsFiniteSet(running')
    BY <2>2, FS_AddElement DEF Launch, Finitely
  <2>3. DeleteInstances => running' \subseteq running
    BY DEF DeleteInstances
  <2> QED
    BY <2>1, <2>2, <2>3
       DEF Next, vars, ImportCluster, SetDisableInstancesApiTermination, EnsureGroup, ListDelta,
           AttachInstancesToASG, Destroy, DescribeGroup, DetachInstances, WaitForActivities,
           DeleteAutoScalingGroup, GetClusterInstances, Fail, Die, ec2Vars
<1>3. ids' = ids \/ ids' \subseteq running
  BY DEF Next, vars, ImportCluster, SetDisableInstancesApiTermination, EnsureGroup, ListDelta,
         AttachInstancesToASG, Destroy, DescribeGroup, DetachInstances, WaitForActivities,
         DeleteAutoScalingGroup, GetClusterInstances, DeleteInstances, Fail, Launch, Die,
         listVars, cmdVars, Lists, IInv, Members
<1> QED
  BY <1>1, <1>2, <1>3 DEF Finitely

LEMMA TerminatingStep ==
    ASSUME DInv, [Next]_vars
    PROVE  Terminating' /\ fails' \in Nat
<1> USE DEF DInv, IInv, Progress, Importing, Destroying, Terminating, GotTo
<1>1. CASE ImportCluster
  BY <1>1 DEF ImportCluster, Begins
<1>2. CASE SetDisableInstancesApiTermination
  BY <1>2 DEF SetDisableInstancesApiTermination, Goes, Ends
<1>3. CASE EnsureGroup \/ ListDelta \/ AttachInstancesToASG
  BY <1>3 DEF EnsureGroup, ListDelta, AttachInstancesToASG, Goes, Ends
<1>4. ASSUME NEW keep \in BOOLEAN, Destroy(keep)
      PROVE  Terminating' /\ fails' \in Nat
  BY <1>4 DEF Destroy, Begins
<1>5. CASE DescribeGroup \/ DetachInstances \/ DeleteAutoScalingGroup
  BY <1>5 DEF DescribeGroup, DetachInstances, DeleteAutoScalingGroup, Goes, Ends
<1>6. CASE WaitForActivities
  BY <1>6 DEF WaitForActivities, Goes, Ends
<1>7. CASE GetClusterInstances
  BY <1>7 DEF GetClusterInstances, Lists, Goes, Ends, groupVars
<1>8. CASE DeleteInstances
  <2>1. fails' \in Nat
    <3>1. CASE fails' = fails
      BY <3>1
    <3>2. ASSUME NEW batch \in Batch(DeleteLimit), NEW failed \in SUBSET batch,
                 fails' = fails + Cardinality(failed)
          PROVE  fails' \in Nat
      <4>1. IsFiniteSet(failed)
        BY BatchIsLeft, FS_Subset DEF Finitely, Listed
      <4> QED
        BY <3>2, <4>1, FS_CardinalityType
    <3> QED
      BY <1>8, <3>1, <3>2 DEF DeleteInstances
  <2> QED
    BY <1>8, <2>1, TerminateStep
<1>9. CASE Fail
  BY <1>9 DEF Fail, Ends
<1>10. ASSUME NEW i \in Instance, Launch(i) \/ Die(i)
       PROVE  Terminating' /\ fails' \in Nat
  BY <1>10 DEF Launch, Die, cmdVars, listVars, bounds
<1>11. CASE UNCHANGED vars
  BY <1>11 DEF vars, ec2Vars, groupVars, cmdVars, listVars, bounds
<1> QED
  BY <1>1, <1>2, <1>3, <1>4, <1>5, <1>6, <1>7, <1>8, <1>9, <1>10, <1>11 DEF Next

LEMMA DInvCorrect == Spec => []DInv
<1>1. Init => DInv
  <2> SUFFICES ASSUME Init PROVE DInv
    OBVIOUS
  <2>1. Finitely
    BY InstanceAssumption, FS_EmptySet DEF Init, Finitely
  <2>2. fails \in Nat /\ Terminating
    BY DEF Init, Terminating
  <2> QED
    BY <2>1, <2>2, InitIInv DEF DInv
<1>2. DInv /\ [Next]_vars => DInv'
  BY NextIInv, FinitelyStep, TerminatingStep DEF DInv
<1> QED
  BY <1>1, <1>2, PTL DEF Spec

(* DestroyTerminatesBatch: a destroy without a failing call has terminated *)
(* a full batch of the instances of the cluster, or all of them.           *)
THEOREM TerminatesBatchCorrect == Spec => []DestroyTerminatesBatch
<1>1. DInv => DestroyTerminatesBatch
  BY DEF DInv, Terminating, GotTo, DestroyTerminatesBatch
<1> QED
  BY <1>1, DInvCorrect, PTL

-----------------------------------------------------------------------------
(***************************************************************************)
(* What GetAdditionalVpcSubnet answers, for any VPC, any order in which    *)
(* AWS lists it and any pages.                                             *)
(*                                                                         *)
(* The loop over the tables does not find the route table of every subnet. *)
(* RouteFound stands for it all the same: when the main table is listed    *)
(* first, subnets with the same table have the same one found              *)
(* (SharersMatch).                                                         *)
(***************************************************************************)
(* The requested subnet and those of other zones, once all are read. *)
Candidates == {s \in Subnet : s = subnetId \/ zone[s] # zone[subnetId]}

VpcType ==
    /\ associations \in Listings
    /\ subnetId \in Subnet
    /\ answer \in Subnet \union {None, NoAdditionalSubnet}

(* All subnets are read before the first table. *)
PagesRead ==
    /\ subnets \subseteq Subnet
    /\ tables \in 0 .. Len(associations)
    /\ tables # 0 => subnets = Subnet

(* The map is made from all that is listed, for all candidates. *)
RoutesKnown ==
    DOMAIN routeMap # {} =>
        /\ tables = Len(associations)
        /\ routeMap = [s \in Candidates |-> RouteFound(s)]

AnswerMatches ==
    answer # None =>
        /\ DOMAIN routeMap # {}
        /\ IF Matches = {} THEN answer = NoAdditionalSubnet ELSE answer \in Matches

SubnetInv == VpcType /\ PagesRead /\ RoutesKnown /\ AnswerMatches

-----------------------------------------------------------------------------
(* What is known of the associations listed. *)
LEMMA ListingFacts ==
    ASSUME associations \in Listings
    PROVE  /\ Len(associations) \in Nat \ {0}
           /\ DOMAIN associations = 1 .. Len(associations)
           /\ \A i, j \in DOMAIN associations : associations[i].subnet = associations[j].subnet => i = j
           /\ \E i \in DOMAIN associations : associations[i].subnet = None
           /\ \A i, j, k \in DOMAIN associations :
                 i < j /\ j < k /\ associations[i].table = associations[k].table =>
                     associations[j].table = associations[i].table
<1>1. PICK n \in 1 .. Cardinality(Subnet) + 1 :
          associations \in [1 .. n -> {Association(t, s) : t \in Table, s \in Subnet \union {None}}]
  BY DEF Listings
<1>2. n \in Nat \ {0}
  BY <1>1, FS_CardinalityType, SubnetAssumption
<1>3. associations = [i \in 1 .. n |-> associations[i]]
  BY <1>1
<1>4. Len(associations) = n /\ DOMAIN associations = 1 .. n
  BY <1>2, <1>3
<1>5. IsInjective([i \in DOMAIN associations |-> associations[i].subnet])
  BY DEF Listings
<1>6. \A i, j \in DOMAIN associations : associations[i].subnet = associations[j].subnet => i = j
  BY <1>5 DEF IsInjective
<1> QED
  BY <1>2, <1>4, <1>6 DEF Listings

(* A subnet with an association. *)
LEMMA OwnRoute ==
    ASSUME associations \in Listings, tables = Len(associations), NEW s,
           NEW i \in DOMAIN associations, associations[i].subnet = s
    PROVE  /\ RouteTable(s) = associations[i].table
           /\ \A m \in DOMAIN associations : associations[m].subnet = None =>
                 RouteFound(s) = IF m <= i THEN associations[m].table ELSE None
<1>1. IndexOf(s) = {i}
  BY ListingFacts DEF IndexOf
<1>2. RouteTable(s) = associations[i].table
  BY <1>1 DEF RouteTable
<1>3. ASSUME NEW m \in DOMAIN associations, associations[m].subnet = None
      PROVE  RouteFound(s) = IF m <= i THEN associations[m].table ELSE None
  <2>1. i \in Nat /\ m \in Nat /\ DOMAIN associations = 1 .. tables /\ tables \in Nat
    BY ListingFacts
  <2>2. Seen(s) = 1 .. i
    <3>1. {j \in 1 .. tables : associations[j].subnet = s} = {i}
      BY <1>1, <2>1 DEF IndexOf
    <3>2. Min({i}) = i
      BY <2>1 DEF Min
    <3> QED
      BY <3>1, <3>2 DEF Seen
  <2>3. {j \in 1 .. i : associations[j].subnet = None} = IF m <= i THEN {m} ELSE {}
    BY <1>3, <2>1, ListingFacts
  <2>4. Max({m}) = m
    BY <2>1 DEF Max
  <2> QED
    BY <2>2, <2>3, <2>4 DEF RouteFound
<1> QED
  BY <1>2, <1>3

(* A subnet without one. *)
LEMMA MainRoute ==
    ASSUME associations \in Listings, tables = Len(associations), NEW s, IndexOf(s) = {},
           NEW m \in DOMAIN associations, associations[m].subnet = None
    PROVE  RouteTable(s) = associations[m].table /\ RouteFound(s) = associations[m].table
<1>1. m \in Nat /\ DOMAIN associations = 1 .. tables /\ tables \in Nat
  BY ListingFacts
<1>2. IndexOf(None) = {m}
  BY ListingFacts DEF IndexOf
<1>3. RouteTable(s) = associations[m].table
  BY <1>2 DEF RouteTable
<1>4. Seen(s) = 1 .. tables
  BY <1>1 DEF Seen, IndexOf
<1>5. {j \in 1 .. tables : associations[j].subnet = None} = {m}
  BY <1>1, <1>2 DEF IndexOf
<1>6. Max({m}) = m
  BY <1>1 DEF Max
<1> QED
  BY <1>3, <1>4, <1>5, <1>6 DEF RouteFound

(* Subnets that share a route table have the same one found: the main      *)
(* table comes before either association, or after both.                   *)
LEMMA SharersMatch ==
    ASSUME associations \in Listings, tables = Len(associations), MainFirst,
           NEW s, NEW r, RouteTable(s) = RouteTable(r)
    PROVE  RouteFound(s) = RouteFound(r)
<1>1. PICK m \in DOMAIN associations : associations[m].subnet = None
  BY ListingFacts
<1>2. DOMAIN associations \subseteq Nat
  BY ListingFacts
<1>3. \A j \in DOMAIN associations : associations[m].table = associations[j].table => m <= j
  BY <1>1 DEF MainFirst, IndexOf
<1>4. CASE IndexOf(s) = {} /\ IndexOf(r) = {}
  BY <1>1, <1>4, MainRoute
<1>5. ASSUME NEW x, NEW y, IndexOf(x) = {}, IndexOf(y) # {}, RouteTable(x) = RouteTable(y)
      PROVE  RouteFound(x) = RouteFound(y)
  <2>1. PICK i \in DOMAIN associations : associations[i].subnet = y
    BY <1>5 DEF IndexOf
  <2>2. RouteTable(y) = associations[i].table
    BY <2>1, OwnRoute
  <2>3. RouteTable(x) = associations[m].table /\ RouteFound(x) = associations[m].table
    BY <1>1, <1>5, MainRoute
  <2>4. m <= i
    BY <1>3, <1>5, <2>2, <2>3
  <2> QED
    BY <1>1, <2>1, <2>3, <2>4, OwnRoute
<1>6. CASE IndexOf(s) # {} /\ IndexOf(r) # {}
  <2>1. PICK i \in DOMAIN associations : associations[i].subnet = s
    BY <1>6 DEF IndexOf
  <2>2. PICK j \in DOMAIN associations : associations[j].subnet = r
    BY <1>6 DEF IndexOf
  <2>3. associations[i].table = associations[j].table
    BY <2>1, <2>2, OwnRoute
  <2>4. m <= i <=> m <= j
    <3>1. ASSUME NEW a \in {i, j}, NEW b \in {i, j}, a < m, m <= b
          PROVE  FALSE
      <4>1. associations[m].table = associations[a].table
        BY <1>2, <2>3, <3>1, ListingFacts
      <4> QED
        BY <1>2, <1>3, <3>1, <4>1
    <3> QED
      BY <1>2, <3>1
  <2>5. RouteFound(s) = IF m <= i THEN associations[m].table ELSE None
    BY <1>1, <2>1, OwnRoute
  <2>6. RouteFound(r) = IF m <= j THEN associations[m].table ELSE None
    BY <1>1, <2>2, OwnRoute
  <2> QED
    BY <2>4, <2>5, <2>6
<1> QED
  BY <1>4, <1>5, <1>6

-----------------------------------------------------------------------------
LEMMA InitSubnet == SubnetInit => SubnetInv
<1> SUFFICES ASSUME SubnetInit PROVE SubnetInv
  OBVIOUS
<1>1. Len(associations) \in Nat
  BY ListingFacts DEF SubnetInit
<1> QED
  BY <1>1 DEF SubnetInit, SubnetInv, VpcType, PagesRead, RoutesKnown, AnswerMatches

LEMMA NextSubnet == SubnetInv /\ [SubnetNext]_subnetVars => SubnetInv'
<1> SUFFICES ASSUME SubnetInv, [SubnetNext]_subnetVars PROVE SubnetInv'
  OBVIOUS
<1> USE DEF SubnetInv, VpcType, PagesRead
<1>1. Len(associations) \in Nat \ {0}
  BY ListingFacts
<1>2. CASE GetVpcSubnets
  <2>1. tables = 0 /\ DOMAIN routeMap = {} /\ answer = None
    BY <1>1, <1>2 DEF GetVpcSubnets, RoutesKnown, AnswerMatches
  <2>2. subnets' \subseteq Subnet
    BY <1>2 DEF GetVpcSubnets
  <2>3. UNCHANGED <<zone, associations, subnetId, tables, routeMap, answer>>
    BY <1>2 DEF GetVpcSubnets, vpcVars
  <2> QED
    BY <1>1, <2>1, <2>2, <2>3 DEF RoutesKnown, AnswerMatches
<1>3. CASE GetRouteTables
  <2>1. tables # Len(associations)
    BY <1>1, <1>3 DEF GetRouteTables
  <2>2. DOMAIN routeMap = {} /\ answer = None
    BY <2>1 DEF RoutesKnown, AnswerMatches
  <2>3. UNCHANGED <<zone, associations, subnetId, subnets, routeMap, answer>>
    BY <1>3 DEF GetRouteTables, vpcVars
  <2>4. subnets = Subnet /\ tables' \in 0 .. Len(associations)
    BY <1>1, <1>3 DEF GetRouteTables
  <2> QED
    BY <2>2, <2>3, <2>4 DEF RoutesKnown, AnswerMatches
<1>4. CASE getSubnetsRouteMap
  <2>1. answer = None /\ subnets = Subnet
    BY <1>1, <1>4 DEF getSubnetsRouteMap, AnswerMatches
  <2>2. UNCHANGED <<zone, associations, subnetId, tables, subnets, answer>>
    BY <1>4 DEF getSubnetsRouteMap, vpcVars
  <2>3. routeMap' = [s \in Candidates |-> RouteFound(s)]
    BY <1>4, <2>1 DEF getSubnetsRouteMap, filterOutSameAvailabilityZoneAdditionalSubnets, Candidates
  <2>4. Candidates' = Candidates /\ \A s : RouteFound(s)' = RouteFound(s)
    BY <2>2 DEF Candidates, RouteFound, Seen
  <2>5. RoutesKnown'
    BY <1>4, <2>2, <2>3, <2>4 DEF RoutesKnown, getSubnetsRouteMap
  <2> QED
    BY <2>1, <2>2, <2>5 DEF AnswerMatches
<1>5. CASE GetAdditionalVpcSubnet
  <2>1. UNCHANGED <<zone, associations, subnetId, tables, subnets, routeMap>> /\ DOMAIN routeMap # {}
    BY <1>5 DEF GetAdditionalVpcSubnet, vpcVars
  <2>2. Matches' = Matches /\ Candidates' = Candidates /\ \A s : RouteFound(s)' = RouteFound(s)
    BY <2>1 DEF Candidates, RouteFound, Seen, Matches
  <2>3. Matches \subseteq Subnet
    BY <2>1 DEF Matches, RoutesKnown, Candidates
  <2>4. RoutesKnown'
    BY <2>1, <2>2 DEF RoutesKnown
  <2>5. IF Matches = {} THEN answer' = NoAdditionalSubnet ELSE answer' \in Matches
    BY <1>5 DEF GetAdditionalVpcSubnet
  <2> QED
    BY <2>1, <2>2, <2>3, <2>4, <2>5 DEF AnswerMatches
<1>6. CASE UNCHANGED subnetVars
  <2>1. UNCHANGED <<zone, associations, subnetId, tables, subnets, routeMap, answer>>
    BY <1>6 DEF subnetVars, vpcVars
  <2>2. Matches' = Matches /\ Candidates' = Candidates /\ \A s : RouteFound(s)' = RouteFound(s)
    BY <2>1 DEF Candidates, RouteFound, Seen, Matches
  <2> QED
    BY <2>1, <2>2 DEF RoutesKnown, AnswerMatches
<1> QED
  BY <1>2, <1>3, <1>4, <1>5, <1>6 DEF SubnetNext

(* The inductive invariant of the search: what has been read, what is      *)
(* found for it, and that the answer is one of the matches, if any.        *)
THEOREM SubnetCorrect == SubnetSpec => []SubnetInv
BY InitSubnet, NextSubnet, PTL DEF SubnetSpec

(* OtherZone: the second subnet of the load balancer is in another         *)
(* availability zone than the first.                                       *)
THEOREM OtherZoneCorrect == SubnetSpec => []OtherZone
<1>1. SubnetInv => OtherZone
  <2> SUFFICES ASSUME SubnetInv, answer \notin {None, NoAdditionalSubnet}
               PROVE  answer \in Subnet /\ zone[answer] # zone[subnetId]
    BY DEF OtherZone
  <2>1. answer \in Matches /\ DOMAIN routeMap # {}
    BY DEF SubnetInv, AnswerMatches
  <2>2. answer \in Candidates \ {subnetId}
    BY <2>1 DEF SubnetInv, RoutesKnown, Matches
  <2> QED
    BY <2>2 DEF Candidates
<1> QED
  BY <1>1, SubnetCorrect, PTL

(***************************************************************************)
(* RefusedOnlyWithoutSharer: with the main association listed first in the *)
(* main table, GetAdditionalVpcSubnet misses no subnet of another zone     *)
(* with the same route table, although it does not find the table of each. *)
(***************************************************************************)
THEOREM RefusedCorrect == SubnetSpec => []RefusedOnlyWithoutSharer
<1>1. SubnetInv => RefusedOnlyWithoutSharer
  <2> SUFFICES ASSUME SubnetInv, MainFirst, answer = NoAdditionalSubnet, NEW s \in Subnet,
                      zone[s] # zone[subnetId], RouteTable(s) = RouteTable(subnetId)
               PROVE  FALSE
    BY DEF RefusedOnlyWithoutSharer
  <2>1. DOMAIN routeMap # {} /\ subnetId \in Subnet
    BY NoneAssumption DEF SubnetInv, AnswerMatches, VpcType
  <2>2. routeMap = [r \in Candidates |-> RouteFound(r)] /\ tables = Len(associations)
    BY <2>1 DEF SubnetInv, RoutesKnown
  <2>3. RouteFound(s) = RouteFound(subnetId)
    BY <2>2, SharersMatch DEF SubnetInv, VpcType
  <2>4. s \in Candidates /\ subnetId \in Candidates /\ s # subnetId
    BY <2>1 DEF Candidates
  <2>5. s \in Matches
    BY <2>2, <2>3, <2>4 DEF Matches
  <2>6. answer \in Matches /\ Matches \subseteq Subnet
    <3>1. Matches \subseteq Subnet
      BY <2>2 DEF Matches, Candidates
    <3> QED
      BY <2>5, <3>1, NoneAssumption DEF SubnetInv, AnswerMatches
  <2> QED
    BY <2>6, NoneAssumption
<1> QED
  BY <1>1, SubnetCorrect, PTL

=============================================================================
