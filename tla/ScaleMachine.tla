---------------------------- MODULE ScaleMachine ----------------------------
(***************************************************************************)
(* The scale-in loop of one host group.                                    *)
(*                                                                         *)
(* A CloudWatch rule starts an execution of the state machine every        *)
(* minute: HostGroupInfo -> Scale -> Terminate -> ErrorCheck ->            *)
(* (Transient | Success).  Executions may overlap, and each of them acts   *)
(* on what it read some calls earlier.  The fleet they act on is changed   *)
(* at the same time by the Auto Scaling group, by the instances joining    *)
(* the Weka cluster, by hosts finishing deactivation and by the operator.  *)
(*                                                                         *)
(* One action per remote call that writes.  Reads that one lambda makes    *)
(* back to back and that feed the same decision are taken at one instant.  *)
(* Time is counted in ticks (a fraction of the 30 minutes of grace).       *)
(***************************************************************************)
EXTENDS Integers, FiniteSets

CONSTANTS
    Inst,            \* EC2 instance ids the group may ever use
    Initial,         \* the backends imported into the group
    Exec,            \* executions that may be in flight together
    Grace,           \* the 30 minutes of terminateUnneededInstances, in ticks
    JoinBy,          \* an instance that joins does it younger than this
    ExecLimit,       \* the lambda timeouts bound an execution to this many ticks
    TerminateLimit,  \* instances terminated by one call (50)
    Capacities,      \* desired capacities an operator asks for
    MaxApiFailures,  \* bound on AWS and Weka calls that fail
    MaxCrashes,      \* bound on lambdas that crash or time out
    MaxFaults        \* bound on instances that stop or become impaired

ASSUME InstAssumption == IsFiniteSet(Inst) /\ Initial \subseteq Inst

ASSUME TimeAssumption ==
    /\ Grace \in Nat /\ JoinBy \in Nat \ {0} /\ ExecLimit \in Nat
    /\ JoinBy + ExecLimit <= Grace

ASSUME BoundAssumption ==
    /\ TerminateLimit \in Nat \ {0}
    /\ Capacities \subseteq Nat /\ Cardinality(Initial) \in Capacities
    /\ MaxApiFailures \in Nat /\ MaxCrashes \in Nat /\ MaxFaults \in Nat

VARIABLES
    (* the fleet *)
    ec2,           \* instance state as DescribeInstances reports it
    apiProtected,  \* the DisableApiTermination attribute
    age,           \* ticks since LaunchTime, saturating at Grace
    lifecycle,     \* LifecycleState in the Auto Scaling group, "none" outside
    protected,     \* ProtectedFromScaleIn
    unhealthy,     \* HealthStatus is "Unhealthy"
    weka,          \* what the Weka cluster knows of the host on the instance
    desired,       \* DesiredCapacity
    (* the executions of the state machine *)
    pc,            \* where each is
    elapsed,       \* ticks since it started
    info,          \* what fetch passes on: Instances and DesiredCapacity
    scaled,        \* what scale passes on: Hosts and ToTerminate
    reported,      \* TransientErrors is not empty
    ids,           \* asgInstanceIds, then deltaInstanceIds
    caller,        \* which of its two callers terminateAsgInstances serves
    batch,         \* setToTerminate
    detach,        \* toDetach
    errs,          \* detachUnhealthyInstances has collected errors
    failures,      \* which calls of the execution failed
    (* the environment *)
    budget         \* faults it may still inject

protections == <<apiProtected, protected>>
response == <<info, scaled>>
locals == <<ids, caller, batch, detach, errs>>
fleet == <<ec2, protections, age, lifecycle, unhealthy, weka, desired>>
execution == <<pc, elapsed, response, reported, locals, failures>>
vars == <<fleet, execution, budget>>
-----------------------------------------------------------------------------
Ec2State  == {"none", "running", "stopped", "shutting-down", "terminated"}
Lifecycle == {"none", "InService", "Terminating"}
WekaState == {"none", "up", "deactivating", "inactive", "removed"}

\* Control states of an execution.  The Terminate lambda runs from "Terminate"
\* to "Candidates"; terminateAsgInstances, which it calls twice, is the three
\* states of TerminateAsg.
TerminateAsg == {"SetDisable", "Unprotect", "TerminateInstances"}
Working == {"HostGroupInfo", "Scale", "Terminate", "Detach", "Delta",
            "Candidates", "ErrorCheck", "Transient"} \cup TerminateAsg
Ended == {"Success", "Failed"}

Budget == [{"api", "crash", "fault"} -> Nat]

FleetType ==
    /\ ec2 \in [Inst -> Ec2State]
    /\ apiProtected \in [Inst -> BOOLEAN]
    /\ age \in [Inst -> 0..Grace]
    /\ lifecycle \in [Inst -> Lifecycle]
    /\ protected \in [Inst -> BOOLEAN]
    /\ unhealthy \in [Inst -> BOOLEAN]
    /\ weka \in [Inst -> WekaState]
    /\ desired \in Capacities

ExecType ==
    /\ pc \in [Exec -> Working \cup Ended]
    /\ elapsed \in [Exec -> 0..ExecLimit]
    /\ info \in [Exec -> [insts : SUBSET Inst, want : Capacities \cup {0}]]
    /\ scaled \in [Exec -> [hosts : SUBSET Inst, explicit : SUBSET Inst]]
    /\ reported \in [Exec -> BOOLEAN]
    /\ ids \in [Exec -> SUBSET Inst]
    /\ caller \in [Exec -> {"unhealthy", "unneeded"}]
    /\ batch \in [Exec -> SUBSET Inst]
    /\ detach \in [Exec -> SUBSET Inst]
    /\ errs \in [Exec -> BOOLEAN]
    /\ failures \in [Exec -> SUBSET {"scale", "unhealthy", "unneeded"}]

TypeOK == FleetType /\ ExecType /\ budget \in Budget
-----------------------------------------------------------------------------
Member(i) == weka[i] \in {"up", "deactivating", "inactive"}
Group == {i \in Inst : lifecycle[i] # "none"}
InService == {i \in Inst : lifecycle[i] = "InService"}
HasPrivateIp(i) == ec2[i] \in {"running", "stopped", "shutting-down"}

\* terminateInstanceIds[:Min(len, 50)]; the order of the list is EC2's.
FirstOf(S) ==
    {T \in SUBSET S : Cardinality(T) =
        IF Cardinality(S) <= TerminateLimit THEN Cardinality(S) ELSE TerminateLimit}

\* A fault of kind k happens in this step, or none does.
Charge(k, faulty) ==
    IF faulty THEN budget[k] > 0 /\ budget' = [budget EXCEPT ![k] = @ - 1]
              ELSE UNCHANGED budget

\* Control of execution e moves on.
Goto(e, to) == pc' = [pc EXCEPT ![e] = to]

\* Call c of execution e has failed, or not.
Note(e, c, failed) ==
    failures' = [failures EXCEPT ![e] = IF failed THEN @ \cup {c} ELSE @]

NoInfo == [insts |-> {}, want |-> 0]
NoHosts == [hosts |-> {}, explicit |-> {}]

\* Execution e is over, or starts over; its lambdas remember nothing.
Reset(e, to) ==
    /\ Goto(e, to)
    /\ elapsed' = [elapsed EXCEPT ![e] = 0]
    /\ info' = [info EXCEPT ![e] = NoInfo]
    /\ scaled' = [scaled EXCEPT ![e] = NoHosts]
    /\ reported' = [reported EXCEPT ![e] = FALSE]
    /\ ids' = [ids EXCEPT ![e] = {}]
    /\ caller' = [caller EXCEPT ![e] = "unhealthy"]
    /\ batch' = [batch EXCEPT ![e] = {}]
    /\ detach' = [detach EXCEPT ![e] = {}]
    /\ errs' = [errs EXCEPT ![e] = FALSE]

Restart(e, to) == Reset(e, to) /\ failures' = [failures EXCEPT ![e] = {}]

Init ==
    /\ ec2 = [i \in Inst |-> IF i \in Initial THEN "running" ELSE "none"]
    /\ apiProtected = [i \in Inst |-> i \in Initial]
    /\ age = [i \in Inst |-> IF i \in Initial THEN Grace ELSE 0]
    /\ lifecycle = [i \in Inst |-> IF i \in Initial THEN "InService" ELSE "none"]
    /\ protected = [i \in Inst |-> i \in Initial]
    /\ unhealthy = [i \in Inst |-> FALSE]
    /\ weka = [i \in Inst |-> IF i \in Initial THEN "up" ELSE "none"]
    /\ desired = Cardinality(Initial)
    /\ pc = [e \in Exec |-> "Success"]
    /\ elapsed = [e \in Exec |-> 0]
    /\ info = [e \in Exec |-> NoInfo]
    /\ scaled = [e \in Exec |-> NoHosts]
    /\ reported = [e \in Exec |-> FALSE]
    /\ ids = [e \in Exec |-> {}]
    /\ caller = [e \in Exec |-> "unhealthy"]
    /\ batch = [e \in Exec |-> {}]
    /\ detach = [e \in Exec |-> {}]
    /\ errs = [e \in Exec |-> FALSE]
    /\ failures = [e \in Exec |-> {}]
    /\ budget = [api |-> MaxApiFailures, crash |-> MaxCrashes, fault |-> MaxFaults]
-----------------------------------------------------------------------------
(* The state machine *)

\* The CloudWatch rule fires, whether or not earlier executions have ended.
StartExecution(e) ==
    /\ pc[e] \in Ended
    /\ Restart(e, "HostGroupInfo")
    /\ UNCHANGED <<fleet, budget>>

\* A lambda crashes, times out, or returns an error because a call it cannot
\* do without has failed: the execution fails, what was written stays.
Crash(e) ==
    /\ pc[e] \in Working
    /\ Charge("crash", TRUE)
    /\ Restart(e, "Failed")
    /\ UNCHANGED fleet

\* GetFetchDataParams: an empty group is an error, terminated instances have
\* no private ip and are left out.
HostGroupInfo(e) ==
    /\ pc[e] = "HostGroupInfo"
    /\ \/ Group = {} /\ Restart(e, "Failed")
       \/ /\ Group # {}
          /\ Goto(e, "Scale")
          /\ info' = [info EXCEPT ![e] = [insts |-> {i \in Group : HasPrivateIp(i)},
                                          want |-> desired]]
          /\ UNCHANGED <<elapsed, scaled, reported, locals, failures>>
    /\ UNCHANGED <<fleet, budget>>

\* scale_down.Handler calls the external ScaleDown on the Weka cluster as it is
\* now, with the instances and the capacity fetched before: running hosts above
\* that capacity and stopped hosts start deactivating, hosts that finished
\* deactivating are removed and named for explicit termination, and the hosts
\* that remain are listed.  A removal that fails is a transient error.
Scale(e, go, out) ==
    LET Up == {i \in info[e].insts : weka[i] = "up"}
        Running == {i \in Up : ec2[i] = "running"}
        Inactive == {i \in Inst : weka[i] = "inactive"}
    IN
    /\ pc[e] = "Scale"
    /\ go \subseteq Up /\ out \subseteq Inactive
    /\ \/ go \cap Running = {}
       \/ info[e].want + Cardinality(go \cap Running) <= Cardinality(Running)
    /\ Charge("api", out # Inactive)
    /\ weka' = [i \in Inst |-> IF i \in go THEN "deactivating"
                               ELSE IF i \in out THEN "removed" ELSE weka[i]]
    /\ scaled' = [scaled EXCEPT ![e] = [hosts |-> {i \in Inst : Member(i)} \ out,
                                        explicit |-> out \cap info[e].insts]]
    /\ reported' = [reported EXCEPT ![e] = (out # Inactive)]
    /\ Note(e, "scale", out # Inactive)
    /\ Goto(e, "Terminate")
    /\ info' = [info EXCEPT ![e] = NoInfo]
    /\ UNCHANGED <<ec2, protections, age, lifecycle, unhealthy, desired, elapsed, locals>>

\* Where detachUnhealthyInstances goes once terminateAsgInstances is over.
\* With nothing to detach it returns nil, whatever it has collected.
AfterUnhealthy(toDetach) == IF toDetach = {} THEN "Delta" ELSE "Detach"

\* Variant of Terminate for the liveness run: unprotected instances, which an
\* earlier execution may have left terminated in the group, are not detached.
TerminateKeepsUnprotected(e, blind, some) ==
    LET Shielded == {i \in Group : unhealthy[i] /\ protected[i]}
        Stopped == {i \in Shielded \ blind : ec2[i] = "stopped"}
        ToDetach == {i \in Shielded \ blind : ec2[i] = "terminated"} \cap InService
    IN
    /\ pc[e] = "Terminate"
    /\ blind \subseteq Shielded
    /\ some \in FirstOf(Stopped)
    /\ Charge("api", blind # {})
    /\ Goto(e, IF Stopped = {} THEN AfterUnhealthy(ToDetach) ELSE "SetDisable")
    /\ detach' = [detach EXCEPT ![e] = ToDetach]
    /\ batch' = [batch EXCEPT ![e] = some]
    /\ errs' = [errs EXCEPT ![e] = (blind # {})]
    /\ Note(e, "unhealthy", blind # {})
    /\ ids' = [ids EXCEPT ![e] = Group]
    /\ UNCHANGED <<fleet, elapsed, response, reported, caller>>

\* Variant: every unhealthy instance is terminated, not only the stopped ones.
TerminateAllUnhealthy(e, blind, some) ==
    LET Sick == {i \in Group : unhealthy[i]}
        Shielded == {i \in Sick : protected[i]}
        ToDetach == (Sick \ Shielded) \cap InService
    IN
    /\ pc[e] = "Terminate"
    /\ blind \subseteq Shielded
    /\ some \in FirstOf(Shielded \ blind)
    /\ Charge("api", blind # {})
    /\ Goto(e, IF Shielded \ blind = {} THEN AfterUnhealthy(ToDetach) ELSE "SetDisable")
    /\ detach' = [detach EXCEPT ![e] = ToDetach]
    /\ batch' = [batch EXCEPT ![e] = some]
    /\ errs' = [errs EXCEPT ![e] = (blind # {})]
    /\ Note(e, "unhealthy", blind # {})
    /\ ids' = [ids EXCEPT ![e] = Group]
    /\ UNCHANGED <<fleet, elapsed, response, reported, caller>>

\* terminate.Handler reads the group, and detachUnhealthyInstances sorts the
\* unhealthy ones: unprotected or terminated ones are to be detached, stopped
\* ones to be terminated first.  DescribeInstances may fail for some.
Terminate(e, blind, some) ==
    LET Sick == {i \in Group : unhealthy[i]}
        Shielded == {i \in Sick : protected[i]}
        Stopped == {i \in Shielded \ blind : ec2[i] = "stopped"}
        Gone == {i \in Shielded \ blind : ec2[i] = "terminated"}
        ToDetach == ((Sick \ Shielded) \cup Gone) \cap InService
    IN
    /\ pc[e] = "Terminate"
    /\ blind \subseteq Shielded
    /\ some \in FirstOf(Stopped)
    /\ Charge("api", blind # {})
    /\ Goto(e, IF Stopped = {} THEN AfterUnhealthy(ToDetach) ELSE "SetDisable")
    /\ detach' = [detach EXCEPT ![e] = ToDetach]
    /\ batch' = [batch EXCEPT ![e] = some]
    /\ errs' = [errs EXCEPT ![e] = (blind # {})]
    /\ Note(e, "unhealthy", blind # {})
    /\ ids' = [ids EXCEPT ![e] = Group]
    /\ UNCHANGED <<fleet, elapsed, response, reported, caller>>
-----------------------------------------------------------------------------
(* terminateAsgInstances, called for the stopped and for the unneeded ones *)

\* SetDisableInstancesApiTermination(batch, false): one goroutine per instance.
\* The instances whose call failed stay in the list it returns.
SetDisable(e, fails) ==
    LET Lost == {i \in batch[e] : ec2[i] = "terminated"} IN
    /\ pc[e] = "SetDisable"
    /\ Lost \subseteq fails /\ fails \subseteq batch[e]
    /\ Charge("api", fails # Lost)
    /\ apiProtected' = [i \in Inst |->
         IF i \in batch[e] \ fails THEN FALSE ELSE apiProtected[i]]
    /\ errs' = [errs EXCEPT ![e] = (@ \/ fails # {})]
    /\ Note(e, caller[e], fails # {})
    /\ Goto(e, "Unprotect")
    /\ UNCHANGED <<ec2, age, lifecycle, protected, unhealthy, weka, desired,
                   elapsed, response, reported, ids, caller, batch, detach>>

\* removeAutoScalingProtection: one call for the whole list, refused when an
\* instance of the list has left the group.  On failure nothing is terminated.
Unprotect(e, ok) ==
    /\ pc[e] = "Unprotect"
    /\ ok => batch[e] \subseteq Group
    /\ Charge("api", ~ok /\ batch[e] \subseteq Group)
    /\ protected' = [i \in Inst |-> IF ok /\ i \in batch[e] THEN FALSE ELSE protected[i]]
    /\ batch' = [batch EXCEPT ![e] = IF ok THEN @ ELSE {}]
    /\ errs' = [errs EXCEPT ![e] = (@ \/ ~ok)]
    /\ Note(e, caller[e], ~ok)
    /\ Goto(e, "TerminateInstances")
    /\ UNCHANGED <<ec2, age, lifecycle, apiProtected, unhealthy, weka, desired,
                   elapsed, response, reported, ids, caller, detach>>

\* The request is refused as a whole when its list is empty or names an
\* instance that is still protected against termination.
Accepted(list) == list # {} /\ \A i \in list : ~apiProtected[i]

\* Variant: terminateUnneededInstances drops the errors it collected.
TerminateInstancesQuietly(e, ok) ==
    LET terminated == IF ok THEN batch[e] ELSE {} IN
    /\ pc[e] = "TerminateInstances"
    /\ ok => Accepted(batch[e])
    /\ Charge("api", ~ok /\ Accepted(batch[e]))
    /\ ec2' = [i \in Inst |->
         IF i \in terminated /\ ec2[i] # "terminated" THEN "shutting-down" ELSE ec2[i]]
    /\ Note(e, caller[e], ~ok)
    /\ Goto(e, IF caller[e] = "unneeded" THEN "ErrorCheck"
               ELSE AfterUnhealthy(detach[e] \cup terminated))
    /\ detach' = [detach EXCEPT ![e] = @ \cup terminated]
    /\ errs' = [errs EXCEPT ![e] = (@ \/ ~ok)]
    /\ batch' = [batch EXCEPT ![e] = {}]
    /\ UNCHANGED <<protections, age, lifecycle, unhealthy, weka, desired,
                   elapsed, response, reported, ids, caller>>

\* terminateInstances, then what the caller does with the instances it got:
\* detachUnhealthyInstances will detach them, terminateUnneededInstances hands
\* the errors to the response.
TerminateInstances(e, ok) ==
    LET terminated == IF ok THEN batch[e] ELSE {}
        bad == errs[e] \/ ~ok
    IN
    /\ pc[e] = "TerminateInstances"
    /\ ok => Accepted(batch[e])
    /\ Charge("api", ~ok /\ Accepted(batch[e]))
    /\ ec2' = [i \in Inst |->
         IF i \in terminated /\ ec2[i] # "terminated" THEN "shutting-down" ELSE ec2[i]]
    /\ Note(e, caller[e], ~ok)
    /\ \/ /\ caller[e] = "unneeded"
          /\ Goto(e, "ErrorCheck")
          /\ reported' = [reported EXCEPT ![e] = (@ \/ bad)]
          /\ errs' = [errs EXCEPT ![e] = FALSE]
          /\ UNCHANGED detach
       \/ /\ caller[e] = "unhealthy"
          /\ Goto(e, AfterUnhealthy(detach[e] \cup terminated))
          /\ detach' = [detach EXCEPT ![e] = @ \cup terminated]
          /\ errs' = [errs EXCEPT ![e] = bad]
          /\ UNCHANGED reported
    /\ batch' = [batch EXCEPT ![e] = {}]
    /\ UNCHANGED <<protections, age, lifecycle, unhealthy, weka, desired,
                   elapsed, response, ids, caller>>
-----------------------------------------------------------------------------
(* The rest of terminate.Handler *)

\* DetachInstancesFromASG: refused when an instance of the list has left the
\* group.  All the errors collected so far reach the response here.
Detach(e, ok) ==
    /\ pc[e] = "Detach"
    /\ ok => detach[e] \subseteq Group
    /\ Charge("api", ~ok /\ detach[e] \subseteq Group)
    /\ lifecycle' = [i \in Inst |-> IF ok /\ i \in detach[e] THEN "none" ELSE lifecycle[i]]
    /\ reported' = [reported EXCEPT ![e] = (@ \/ errs[e] \/ ~ok)]
    /\ Note(e, "unhealthy", ~ok)
    /\ Goto(e, "Delta")
    /\ detach' = [detach EXCEPT ![e] = {}]
    /\ UNCHANGED <<ec2, protections, age, unhealthy, weka, desired,
                   elapsed, response, ids, caller, batch, errs>>

\* getDeltaInstancesIds, over the instances that were in the group when the
\* lambda started: those with a private ip that no listed host has.
Delta(e) ==
    LET delta == {i \in ids[e] : HasPrivateIp(i) /\ i \notin scaled[e].hosts} IN
    /\ pc[e] = "Delta"
    /\ \/ ids[e] = {} /\ Restart(e, "Failed")
       \/ /\ ids[e] # {}
          /\ Goto(e, IF delta = {} THEN "ErrorCheck" ELSE "Candidates")
          /\ ids' = [ids EXCEPT ![e] = delta]
          /\ errs' = [errs EXCEPT ![e] = FALSE]
          /\ caller' = [caller EXCEPT ![e] = "unneeded"]
          /\ UNCHANGED <<elapsed, response, reported, batch, detach, failures>>
    /\ UNCHANGED <<fleet, budget>>

\* Variants: no grace period; explicit termination only.
UnneededAtOnce(e, i) == ec2[i] \notin {"shutting-down", "terminated"}
UnneededIfNamed(e, i) ==
    i \in scaled[e].explicit /\ ec2[i] \notin {"shutting-down", "terminated"}

\* setForExplicitRemoval, else the instance must have outlived the grace
\* period; instances already on their way out are skipped.
Unneeded(e, i) ==
    /\ i \in scaled[e].explicit \/ age[i] >= Grace
    /\ ec2[i] \notin {"shutting-down", "terminated"}

\* The candidates are described again; setForExplicitRemoval dereferences the
\* private ip, which an instance terminated since then no longer has.
Candidates(e, some) ==
    LET unneeded == {i \in ids[e] : Unneeded(e, i)}
        noIp == \E i \in ids[e] : ~HasPrivateIp(i)
    IN
    /\ pc[e] = "Candidates"
    /\ some \in FirstOf(unneeded)
    /\ \/ scaled[e].explicit # {} /\ noIp /\ Restart(e, "Failed")
       \/ /\ scaled[e].explicit = {} \/ ~noIp
          /\ Goto(e, IF unneeded = {} THEN "ErrorCheck" ELSE "SetDisable")
          /\ batch' = [batch EXCEPT ![e] = some]
          /\ scaled' = [scaled EXCEPT ![e] = NoHosts]
          /\ ids' = [ids EXCEPT ![e] = {}]
          /\ UNCHANGED <<elapsed, info, reported, caller, detach, errs, failures>>
    /\ UNCHANGED <<fleet, budget>>

\* The Choice state: with no transient error the execution succeeds.
ErrorCheck(e) ==
    /\ pc[e] = "ErrorCheck"
    /\ \/ /\ reported[e]
          /\ Goto(e, "Transient")
          /\ UNCHANGED <<elapsed, response, reported, locals, failures>>
       \/ ~reported[e] /\ Reset(e, "Success") /\ UNCHANGED failures
    /\ UNCHANGED <<fleet, budget>>

\* The transient lambda fails with the errors it is given, which is how the
\* execution shows them.
Transient(e) ==
    /\ pc[e] = "Transient"
    /\ \/ reported[e] /\ Restart(e, "Failed")
       \/ ~reported[e] /\ Reset(e, "Success") /\ UNCHANGED failures
    /\ UNCHANGED <<fleet, budget>>

Step(e) ==
    \/ HostGroupInfo(e) \/ Delta(e) \/ ErrorCheck(e) \/ Transient(e)
    \/ \E go \in SUBSET info[e].insts :
         \E out \in SUBSET {i \in Inst : weka[i] = "inactive"} : Scale(e, go, out)
    \/ \E blind \in SUBSET {i \in Group : unhealthy[i]} :
         \E some \in SUBSET {i \in Group : unhealthy[i]} : Terminate(e, blind, some)
    \/ \E fails \in SUBSET batch[e] : SetDisable(e, fails)
    \/ \E some \in SUBSET ids[e] : Candidates(e, some)
    \/ \E ok \in BOOLEAN : Unprotect(e, ok) \/ TerminateInstances(e, ok) \/ Detach(e, ok)
-----------------------------------------------------------------------------
(* The fleet: Auto Scaling group, EC2, Weka and the operator *)

\* Variant: NewInstancesProtectedFromScaleIn is not set on the group.
LaunchUnprotected(i) ==
    /\ ec2[i] = "none"
    /\ Cardinality(InService) < desired
    /\ ec2' = [ec2 EXCEPT ![i] = "running"]
    /\ apiProtected' = [apiProtected EXCEPT ![i] = TRUE]
    /\ lifecycle' = [lifecycle EXCEPT ![i] = "InService"]
    /\ UNCHANGED <<age, protected, unhealthy, weka, desired, execution, budget>>

\* The group is below its desired capacity and launches an instance, protected
\* from scale-in (NewInstancesProtectedFromScaleIn) and from termination by API
\* call (the launch template sets DisableApiTermination).
Launch(i) ==
    /\ ec2[i] = "none"
    /\ Cardinality(InService) < desired
    /\ ec2' = [ec2 EXCEPT ![i] = "running"]
    /\ apiProtected' = [apiProtected EXCEPT ![i] = TRUE]
    /\ lifecycle' = [lifecycle EXCEPT ![i] = "InService"]
    /\ protected' = [protected EXCEPT ![i] = TRUE]
    /\ UNCHANGED <<age, unhealthy, weka, desired, execution, budget>>

\* The script the instance fetched from the join lambda adds it to the cluster.
Join(i) ==
    /\ ec2[i] = "running" /\ weka[i] = "none" /\ age[i] < JoinBy
    /\ weka' = [weka EXCEPT ![i] = "up"]
    /\ UNCHANGED <<ec2, protections, age, lifecycle, unhealthy,
                   desired, execution, budget>>

\* Weka has moved the data off a host that was told to deactivate.
Deactivated(i) ==
    /\ weka[i] = "deactivating"
    /\ weka' = [weka EXCEPT ![i] = "inactive"]
    /\ UNCHANGED <<ec2, protections, age, lifecycle, unhealthy,
                   desired, execution, budget>>

\* The group is above its desired capacity and terminates an instance that is
\* not protected from scale-in (API termination protection does not stop it).
ScaleIn(i) ==
    /\ lifecycle[i] = "InService" /\ ~protected[i]
    /\ Cardinality(InService) > desired
    /\ lifecycle' = [lifecycle EXCEPT ![i] = "Terminating"]
    /\ ec2' = [ec2 EXCEPT ![i] = IF @ = "terminated" THEN @ ELSE "shutting-down"]
    /\ UNCHANGED <<apiProtected, age, protected, unhealthy, weka, desired, execution, budget>>

\* A termination completes.  An instance the group itself was terminating
\* leaves the group, one that was terminated under it stays in it.
Terminated(i) ==
    /\ ec2[i] = "shutting-down"
    /\ ec2' = [ec2 EXCEPT ![i] = "terminated"]
    /\ lifecycle' = [lifecycle EXCEPT ![i] = IF @ = "Terminating" THEN "none" ELSE @]
    /\ UNCHANGED <<apiProtected, age, protected, unhealthy, weka, desired, execution, budget>>

\* A group member that was already terminated when the group picked it.
Reaped(i) ==
    /\ lifecycle[i] = "Terminating" /\ ec2[i] = "terminated"
    /\ lifecycle' = [lifecycle EXCEPT ![i] = "none"]
    /\ UNCHANGED <<ec2, apiProtected, age, protected, unhealthy, weka, desired, execution, budget>>

\* The group's health check sees that an instance is not running.  It does not
\* replace it: ReplaceUnhealthy is suspended.
MarkUnhealthy(i) ==
    /\ lifecycle[i] = "InService" /\ ~unhealthy[i] /\ ec2[i] # "running"
    /\ unhealthy' = [unhealthy EXCEPT ![i] = TRUE]
    /\ UNCHANGED <<ec2, apiProtected, age, lifecycle, protected, weka,
                   desired, execution, budget>>

\* A running instance fails its status checks.
Impair(i) ==
    /\ lifecycle[i] = "InService" /\ ~unhealthy[i] /\ ec2[i] = "running"
    /\ Charge("fault", TRUE)
    /\ unhealthy' = [unhealthy EXCEPT ![i] = TRUE]
    /\ UNCHANGED <<ec2, apiProtected, age, lifecycle, protected, weka, desired, execution>>

\* An instance shuts itself down: its join script failed, or it broke.
Stop(i) ==
    /\ ec2[i] = "running"
    /\ Charge("fault", TRUE)
    /\ ec2' = [ec2 EXCEPT ![i] = "stopped"]
    /\ UNCHANGED <<protections, age, lifecycle, unhealthy, weka, desired, execution>>

\* The operator changes the desired capacity.
Resize(d) ==
    /\ d # desired
    /\ desired' = d
    /\ UNCHANGED <<ec2, protections, age, lifecycle, unhealthy, weka, execution, budget>>

\* Variant: lambdas with no timeout.
TickUnbounded ==
    /\ age' = [i \in Inst |-> IF ec2[i] # "none" /\ age[i] < Grace THEN age[i] + 1 ELSE age[i]]
    /\ elapsed' = [e \in Exec |-> IF pc[e] \in Working THEN elapsed[e] + 1 ELSE elapsed[e]]
    /\ UNCHANGED <<ec2, protections, lifecycle, unhealthy, weka, desired,
                   pc, response, reported, locals, failures, budget>>

\* Time passes, for instances and executions; the lambda timeouts do not let
\* an execution go on for more than ExecLimit ticks.
Tick ==
    /\ \A e \in Exec : pc[e] \in Working => elapsed[e] < ExecLimit
    /\ age' = [i \in Inst |-> IF ec2[i] # "none" /\ age[i] < Grace THEN age[i] + 1 ELSE age[i]]
    /\ elapsed' = [e \in Exec |-> IF pc[e] \in Working THEN elapsed[e] + 1 ELSE elapsed[e]]
    /\ UNCHANGED <<ec2, protections, lifecycle, unhealthy, weka, desired,
                   pc, response, reported, locals, failures, budget>>

Fleet(i) ==
    \/ Launch(i) \/ Join(i) \/ Deactivated(i) \/ ScaleIn(i) \/ Terminated(i)
    \/ Reaped(i) \/ MarkUnhealthy(i) \/ Impair(i) \/ Stop(i)

Next ==
    \/ \E e \in Exec : StartExecution(e) \/ Step(e) \/ Crash(e)
    \/ \E i \in Inst : Fleet(i)
    \/ \E d \in Capacities : Resize(d)
    \/ Tick

Spec == Init /\ [][Next]_vars

\* The rule keeps firing and lambdas run to their end; EC2, Weka and the health
\* check complete what they began; time passes.  Faults, the operator, the
\* group's own scaling and joining instances owe nothing.
Fairness ==
    /\ \A e \in Exec : WF_vars(StartExecution(e)) /\ WF_vars(Step(e))
    /\ \A i \in Inst : /\ WF_vars(Deactivated(i))
                       /\ WF_vars(Terminated(i)) /\ WF_vars(Reaped(i))
                       /\ WF_vars(MarkUnhealthy(i))
    /\ WF_vars(Tick)

FairSpec == Spec /\ Fairness
-----------------------------------------------------------------------------
(* Properties *)

\* A host that has not been removed from Weka, on a running instance.
Serving(i) == Member(i) /\ ec2[i] = "running"

\* Nothing may ever make instance i serve (again).
Disposable(i) ==
    \/ ec2[i] \notin {"none", "running"}
    \/ weka[i] = "removed"
    \/ ec2[i] = "running" /\ weka[i] = "none" /\ age[i] >= JoinBy

\* The protections of an instance of the group that serves Weka are never
\* lifted, whatever executions overlap on stale lists: scale-in is managed.
ServingAreProtected ==
    \A i \in Inst : Serving(i) /\ lifecycle[i] # "none" => protected[i] /\ apiProtected[i]

\* No call of any execution and no scale-in of the group terminates a serving
\* instance, and none takes it out of the group.
NoServingLost ==
    [][\A i \in Inst : Serving(i) => /\ ec2'[i] # "shutting-down"
                                     /\ lifecycle[i] # "none" => lifecycle'[i] # "none"]_vars

\* An execution that succeeded has not swallowed a failure of the calls that
\* remove hosts from Weka or terminate unneeded instances.
ScaleInErrorsShown ==
    \A e \in Exec : pc[e] = "Success" => failures[e] \subseteq {"unhealthy"}

\* The same for every call: transient errors are what the transient lambda is
\* there to report.
AllErrorsShown ==
    \A e \in Exec : pc[e] = "Success" => failures[e] = {}

\* Instances that leave the group are on their way out of EC2: the group is
\* the only place where wekactl looks for instances to terminate.
NoOrphans ==
    \A i \in Inst : ec2[i] \in {"running", "stopped"} => lifecycle[i] # "none"

\* A host removed from Weka gets its instance terminated: by the execution that
\* removed it, or, if that one was lost, by a later one.
RemovedAreTerminated ==
    \A i \in Inst : weka[i] = "removed" ~> ec2[i] \in {"shutting-down", "terminated"}

\* A terminated instance does not stay in the group.
TerminatedLeaveGroup ==
    \A i \in Inst : ec2[i] = "terminated" ~> lifecycle[i] = "none"
-----------------------------------------------------------------------------
(* The scale-in loop implements ManagedScaleIn *)

PhaseOf(i) ==
    CASE ec2[i] = "none" -> "unused"
      [] ec2[i] = "stopped" -> "broken"
      [] ec2[i] \in {"shutting-down", "terminated"} -> "gone"
      [] ec2[i] = "running" /\ weka[i] = "none" -> IF age[i] < JoinBy THEN "joining" ELSE "late"
      [] ec2[i] = "running" /\ weka[i] = "up" -> "serving"
      [] ec2[i] = "running" /\ weka[i] \in {"deactivating", "inactive"} -> "draining"
      [] ec2[i] = "running" /\ weka[i] = "removed" -> "removed"

Phases == [i \in Inst |-> PhaseOf(i)]

Managed == INSTANCE ManagedScaleIn WITH phase <- Phases, group <- Group

\* Instances are retired and leave the group only as managed scale-in allows:
\* drained, then removed from Weka, then terminated (or broken, or too late).
ManagedSpec == Managed!Spec
-----------------------------------------------------------------------------
(* Why they hold: an invariant that every step preserves *)

\* Only disposable instances of the group have lost a protection.
LiftedAreDisposable ==
    \A i \in Inst : lifecycle[i] # "none" =>
        /\ ec2[i] # "none"
        /\ (protected[i] /\ apiProtected[i]) \/ Disposable(i)

\* What an execution is about to terminate or detach was disposable when it
\* was chosen, and still is.
ChosenAreDisposable ==
    \A e \in Exec : \A i \in batch[e] \cup detach[e] : Disposable(i)

\* Execution e has a list of hosts and has not compared the group with it yet.
Comparing(e) ==
    \/ pc[e] \in {"Terminate", "Detach", "Delta", "Candidates"}
    \/ pc[e] \in TerminateAsg /\ caller[e] = "unhealthy"

\* The list may be stale: a host it misses joined since, so its instance is
\* younger than the joining time and the execution's age together.
UnlistedAreYoung ==
    \A e \in Exec : Comparing(e) =>
        \A i \in Inst \ scaled[e].hosts : Member(i) => age[i] < JoinBy + elapsed[e]

\* Candidates exist, are not listed and are handled as unneeded ones, and hosts
\* named for explicit termination have been removed.
CandidatesUnlisted ==
    \A e \in Exec :
        /\ \A i \in ids[e] : ec2[i] # "none"
        /\ \A i \in scaled[e].explicit : weka[i] = "removed"
        /\ pc[e] = "Candidates" => /\ ids[e] \cap scaled[e].hosts = {}
                                   /\ caller[e] = "unneeded"

ManagedInv ==
    /\ LiftedAreDisposable
    /\ ChosenAreDisposable
    /\ UnlistedAreYoung
    /\ CandidatesUnlisted
=============================================================================
