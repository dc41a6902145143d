------------------------- MODULE ScaleMachineProofs -------------------------
(***************************************************************************)
(* Proofs about ScaleMachine, for any fleet, any number of overlapping     *)
(* executions and any number of faults.                                    *)
(***************************************************************************)
EXTENDS ScaleMachine, TLAPS

\* A fault leaves a legal budget behind.
LEMMA ChargeType ==
    ASSUME TypeOK, NEW k \in {"api", "crash", "fault"}, NEW b \in BOOLEAN, Charge(k, b)
    PROVE  budget' \in Budget
  BY DEF TypeOK, Charge, Budget

\* Ending or starting an execution keeps its variables well typed.
LEMMA ResetType ==
    ASSUME ExecType, NEW e \in Exec, NEW to \in Working \cup Ended, Reset(e, to),
           failures' \in [Exec -> SUBSET {"scale", "unhealthy", "unneeded"}]
    PROVE  ExecType'
<1>1. elapsed' \in [Exec -> 0..ExecLimit]
  BY TimeAssumption DEF Reset, ExecType
<1>2. info' \in [Exec -> [insts : SUBSET Inst, want : Capacities \cup {0}]]
  BY DEF Reset, ExecType, NoInfo
<1>3. scaled' \in [Exec -> [hosts : SUBSET Inst, explicit : SUBSET Inst]]
  BY DEF Reset, ExecType, NoHosts
<1>4. QED BY <1>1, <1>2, <1>3 DEF Reset, Goto, ExecType

LEMMA RestartType ==
    ASSUME ExecType, NEW e \in Exec, NEW to \in Working \cup Ended, Restart(e, to)
    PROVE  ExecType'
<1>1. failures' \in [Exec -> SUBSET {"scale", "unhealthy", "unneeded"}]
  BY DEF Restart, ExecType
<1>2. QED BY <1>1, ResetType DEF Restart

LEMMA NoteType ==
    ASSUME ExecType, NEW e \in Exec, NEW c \in {"scale", "unhealthy", "unneeded"},
           NEW b \in BOOLEAN, Note(e, c, b)
    PROVE  failures' \in [Exec -> SUBSET {"scale", "unhealthy", "unneeded"}]
  BY DEF Note, ExecType

LEMMA GotoType ==
    ASSUME ExecType, NEW e \in Exec, NEW to \in Working \cup Ended, Goto(e, to)
    PROVE  pc' \in [Exec -> Working \cup Ended]
  BY DEF Goto, ExecType

LEMMA InitType == Init => TypeOK
<1> SUFFICES ASSUME Init PROVE TypeOK OBVIOUS
<1>1. budget \in Budget
  BY BoundAssumption DEF Init, Budget
<1>2. desired \in Capacities
  BY BoundAssumption DEF Init
<1>3. /\ info \in [Exec -> [insts : SUBSET Inst, want : Capacities \cup {0}]]
      /\ scaled \in [Exec -> [hosts : SUBSET Inst, explicit : SUBSET Inst]]
  BY DEF Init, NoInfo, NoHosts
<1>4. pc \in [Exec -> Working \cup Ended] /\ elapsed \in [Exec -> 0..ExecLimit]
  BY TimeAssumption DEF Init, Ended
<1>5. ExecType
  BY <1>3, <1>4 DEF Init, ExecType
<1>6. FleetType
  BY <1>2, TimeAssumption DEF Init, FleetType, Ec2State, Lifecycle, WekaState
<1>7. QED BY <1>1, <1>5, <1>6 DEF TypeOK

LEMMA StepType ==
    ASSUME TypeOK, NEW e \in Exec, Step(e)
    PROVE  TypeOK'
<1> USE DEF TypeOK
<1>1. CASE HostGroupInfo(e)
  <2>1. UNCHANGED <<fleet, budget>>
    BY <1>1 DEF HostGroupInfo
  <2>2. FleetType' /\ budget' \in Budget
    BY <2>1 DEF fleet, protections, FleetType
  <2>3. CASE Restart(e, "Failed")
    BY <2>2, <2>3, RestartType DEF Ended
  <2>4. CASE ~ Restart(e, "Failed")
    <3>1. /\ Goto(e, "Scale")
          /\ info' = [info EXCEPT ![e] = [insts |-> {i \in Group : HasPrivateIp(i)}, want |-> desired]]
          /\ UNCHANGED <<elapsed, scaled, reported, locals, failures>>
      BY <1>1, <2>4 DEF HostGroupInfo
    <3>2. pc' \in [Exec -> Working \cup Ended]
      BY <3>1, GotoType DEF Working
    <3>3. info' \in [Exec -> [insts : SUBSET Inst, want : Capacities \cup {0}]]
      BY <3>1 DEF ExecType, FleetType, Group
    <3>4. QED BY <2>2, <3>1, <3>2, <3>3 DEF ExecType, locals
  <2>5. QED BY <2>3, <2>4
<1>2. ASSUME NEW go \in SUBSET info[e].insts, NEW out \in SUBSET Inst, Scale(e, go, out)
      PROVE  TypeOK'
  <2>1. weka' \in [Inst -> WekaState]
    BY <1>2 DEF Scale, FleetType, WekaState
  <2>2. UNCHANGED <<ec2, protections, age, lifecycle, unhealthy, desired, elapsed, locals>>
    BY <1>2 DEF Scale
  <2>3. FleetType'
    BY <2>1, <2>2 DEF FleetType, protections
  <2>4. budget' \in Budget
    BY <1>2, ChargeType DEF Scale
  <2>5. failures' \in [Exec -> SUBSET {"scale", "unhealthy", "unneeded"}]
    BY <1>2, NoteType DEF Scale
  <2>6. pc' \in [Exec -> Working \cup Ended]
    BY <1>2, GotoType DEF Scale, Working
  <2>7. info' \in [Exec -> [insts : SUBSET Inst, want : Capacities \cup {0}]]
    BY <1>2 DEF Scale, ExecType, NoInfo
  <2>8. scaled' \in [Exec -> [hosts : SUBSET Inst, explicit : SUBSET Inst]]
    BY <1>2 DEF Scale, ExecType
  <2>9. reported' \in [Exec -> BOOLEAN]
    BY <1>2 DEF Scale, ExecType
  <2>10. ExecType'
    BY <2>2, <2>5, <2>6, <2>7, <2>8, <2>9 DEF ExecType, locals
  <2>11. QED BY <2>3, <2>4, <2>10
<1>3. ASSUME NEW blind \in SUBSET Inst, NEW some \in SUBSET Inst, Terminate(e, blind, some)
      PROVE  TypeOK'
  <2>1. UNCHANGED <<fleet, elapsed, response, reported, caller>>
    BY <1>3 DEF Terminate
  <2>2. FleetType'
    BY <2>1 DEF FleetType, fleet, protections
  <2>3. budget' \in Budget
    BY <1>3, ChargeType DEF Terminate
  <2>4. failures' \in [Exec -> SUBSET {"scale", "unhealthy", "unneeded"}]
    BY <1>3, NoteType DEF Terminate
  <2>5. pc' \in [Exec -> Working \cup Ended]
    BY <1>3, GotoType DEF Terminate, AfterUnhealthy, Working, TerminateAsg
  <2>6. ids' \in [Exec -> SUBSET Inst]
    BY <1>3 DEF Terminate, ExecType, Group
  <2>7. batch' \in [Exec -> SUBSET Inst] /\ errs' \in [Exec -> BOOLEAN]
    BY <1>3 DEF Terminate, ExecType
  <2>8. detach' \in [Exec -> SUBSET Inst]
    BY <1>3 DEF Terminate, ExecType, Group, InService
  <2>9. ExecType'
    BY <2>1, <2>4, <2>5, <2>6, <2>7, <2>8 DEF ExecType, response
  <2>10. QED BY <2>2, <2>3, <2>9
<1>4. ASSUME NEW fails \in SUBSET batch[e], SetDisable(e, fails)
      PROVE  TypeOK'
  <2>1. UNCHANGED <<ec2, age, lifecycle, protected, unhealthy, weka, desired,
                    elapsed, response, reported, ids, caller, batch, detach>>
    BY <1>4 DEF SetDisable
  <2>2. FleetType'
    BY <1>4, <2>1 DEF SetDisable, FleetType
  <2>3. budget' \in Budget
    BY <1>4, ChargeType DEF SetDisable
  <2>4. caller[e] \in {"scale", "unhealthy", "unneeded"}
    BY DEF ExecType
  <2>5. failures' \in [Exec -> SUBSET {"scale", "unhealthy", "unneeded"}]
    BY <1>4, <2>4, NoteType DEF SetDisable
  <2>6. pc' \in [Exec -> Working \cup Ended]
    BY <1>4, GotoType DEF SetDisable, Working, TerminateAsg
  <2>7. errs' \in [Exec -> BOOLEAN]
    BY <1>4 DEF SetDisable, ExecType
  <2>8. ExecType'
    BY <2>1, <2>5, <2>6, <2>7 DEF ExecType, response
  <2>9. QED BY <2>2, <2>3, <2>8
<1>5. ASSUME NEW ok \in BOOLEAN, Unprotect(e, ok)
      PROVE  TypeOK'
  <2>1. UNCHANGED <<ec2, age, lifecycle, apiProtected, unhealthy, weka, desired,
                    elapsed, response, reported, ids, caller, detach>>
    BY <1>5 DEF Unprotect
  <2>2. FleetType'
    BY <1>5, <2>1 DEF Unprotect, FleetType
  <2>3. budget' \in Budget
    BY <1>5, ChargeType DEF Unprotect
  <2>4. failures' \in [Exec -> SUBSET {"scale", "unhealthy", "unneeded"}]
    <3>1. caller[e] \in {"scale", "unhealthy", "unneeded"}
      BY DEF ExecType
    <3>2. QED BY <1>5, <3>1, NoteType DEF Unprotect
  <2>5. pc' \in [Exec -> Working \cup Ended]
    BY <1>5, GotoType DEF Unprotect, Working, TerminateAsg
  <2>6. batch' \in [Exec -> SUBSET Inst] /\ errs' \in [Exec -> BOOLEAN]
    BY <1>5 DEF Unprotect, ExecType
  <2>7. ExecType'
    BY <2>1, <2>4, <2>5, <2>6 DEF ExecType, response
  <2>8. QED BY <2>2, <2>3, <2>7
<1>6. ASSUME NEW ok \in BOOLEAN, TerminateInstances(e, ok)
      PROVE  TypeOK'
  <2>1. UNCHANGED <<protections, age, lifecycle, unhealthy, weka, desired,
                    elapsed, response, ids, caller>>
    BY <1>6 DEF TerminateInstances
  <2>2. ec2' \in [Inst -> Ec2State]
    BY <1>6 DEF TerminateInstances, FleetType, Ec2State
  <2>3. FleetType'
    BY <2>1, <2>2 DEF FleetType, protections
  <2>4. budget' \in Budget
    BY <1>6, ChargeType DEF TerminateInstances
  <2>5. failures' \in [Exec -> SUBSET {"scale", "unhealthy", "unneeded"}]
    <3>1. caller[e] \in {"scale", "unhealthy", "unneeded"}
      BY DEF ExecType
    <3>2. QED BY <1>6, <3>1, NoteType DEF TerminateInstances
  <2>6. pc' \in [Exec -> Working \cup Ended]
    BY <1>6, GotoType DEF TerminateInstances, AfterUnhealthy, Working
  <2>7. batch' \in [Exec -> SUBSET Inst] /\ detach' \in [Exec -> SUBSET Inst]
    <3>1. batch' \in [Exec -> SUBSET Inst]
      BY <1>6 DEF TerminateInstances, ExecType
    <3>2. /\ detach[e] \cup (IF ok THEN batch[e] ELSE {}) \in SUBSET Inst
          /\ detach \in [Exec -> SUBSET Inst]
      BY DEF ExecType
    <3>3. \/ UNCHANGED detach
          \/ detach' = [detach EXCEPT ![e] = detach[e] \cup (IF ok THEN batch[e] ELSE {})]
      BY <1>6 DEF TerminateInstances
    <3>4. QED BY <3>1, <3>2, <3>3
  <2>8. errs' \in [Exec -> BOOLEAN] /\ reported' \in [Exec -> BOOLEAN]
    BY <1>6 DEF TerminateInstances, ExecType
  <2>9. ExecType'
    BY <2>1, <2>5, <2>6, <2>7, <2>8 DEF ExecType, response
  <2>10. QED BY <2>3, <2>4, <2>9
<1>7. ASSUME NEW ok \in BOOLEAN, Detach(e, ok)
      PROVE  TypeOK'
  <2>1. UNCHANGED <<ec2, protections, age, unhealthy, weka, desired,
                    elapsed, response, ids, caller, batch, errs>>
    BY <1>7 DEF Detach
  <2>2. lifecycle' \in [Inst -> Lifecycle]
    BY <1>7 DEF Detach, FleetType, Lifecycle
  <2>3. FleetType'
    BY <2>1, <2>2 DEF FleetType, protections
  <2>4. budget' \in Budget
    BY <1>7, ChargeType DEF Detach
  <2>5. failures' \in [Exec -> SUBSET {"scale", "unhealthy", "unneeded"}]
    BY <1>7, NoteType DEF Detach
  <2>6. pc' \in [Exec -> Working \cup Ended]
    BY <1>7, GotoType DEF Detach, Working
  <2>7. detach' \in [Exec -> SUBSET Inst] /\ reported' \in [Exec -> BOOLEAN]
    BY <1>7 DEF Detach, ExecType
  <2>8. ExecType'
    BY <2>1, <2>5, <2>6, <2>7 DEF ExecType, response
  <2>9. QED BY <2>3, <2>4, <2>8
<1>8. CASE Delta(e)
  <2>1. UNCHANGED <<fleet, budget>>
    BY <1>8 DEF Delta
  <2>2. FleetType' /\ budget' \in Budget
    BY <2>1 DEF fleet, protections, FleetType
  <2>3. CASE Restart(e, "Failed")
    BY <2>2, <2>3, RestartType DEF Ended
  <2>4. CASE ~ Restart(e, "Failed")
    <3>1. UNCHANGED <<elapsed, response, reported, batch, detach, failures>>
      BY <1>8, <2>4 DEF Delta
    <3>2. pc' \in [Exec -> Working \cup Ended]
      BY <1>8, <2>4, GotoType DEF Delta, Working
    <3>3. ids' \in [Exec -> SUBSET Inst]
      <4>1. {i \in ids[e] : HasPrivateIp(i) /\ i \notin scaled[e].hosts} \in SUBSET Inst
        BY DEF ExecType
      <4>2. ids \in [Exec -> SUBSET Inst]
        BY DEF ExecType
      <4>3. ids' = [ids EXCEPT ![e] = {i \in ids[e] : HasPrivateIp(i) /\ i \notin scaled[e].hosts}]
        BY <1>8, <2>4 DEF Delta
      <4>4. QED BY <4>1, <4>2, <4>3
    <3>4. errs' \in [Exec -> BOOLEAN] /\ caller' \in [Exec -> {"unhealthy", "unneeded"}]
      BY <1>8, <2>4 DEF Delta, ExecType
    <3>5. QED BY <2>2, <3>1, <3>2, <3>3, <3>4 DEF ExecType, response
  <2>5. QED BY <2>3, <2>4
<1>9. ASSUME NEW some \in SUBSET Inst, Candidates(e, some)
      PROVE  TypeOK'
  <2>1. UNCHANGED <<fleet, budget>>
    BY <1>9 DEF Candidates
  <2>2. FleetType' /\ budget' \in Budget
    BY <2>1 DEF fleet, protections, FleetType
  <2>3. CASE Restart(e, "Failed")
    BY <2>2, <2>3, RestartType DEF Ended
  <2>4. CASE ~ Restart(e, "Failed")
    <3>1. UNCHANGED <<elapsed, info, reported, caller, detach, errs, failures>>
      BY <1>9, <2>4 DEF Candidates
    <3>2. pc' \in [Exec -> Working \cup Ended]
      BY <1>9, <2>4, GotoType DEF Candidates, Working, TerminateAsg
    <3>3. batch' \in [Exec -> SUBSET Inst] /\ ids' \in [Exec -> SUBSET Inst]
      BY <1>9, <2>4 DEF Candidates, ExecType
    <3>4. scaled' \in [Exec -> [hosts : SUBSET Inst, explicit : SUBSET Inst]]
      <4>1. scaled' = [scaled EXCEPT ![e] = NoHosts]
        BY <1>9, <2>4 DEF Candidates
      <4>2. QED BY <4>1 DEF ExecType, NoHosts
    <3>5. QED BY <2>2, <3>1, <3>2, <3>3, <3>4 DEF ExecType
  <2>5. QED BY <2>3, <2>4
<1>10. CASE ErrorCheck(e) \/ Transient(e)
  <2>1. UNCHANGED <<fleet, budget>>
    BY <1>10 DEF ErrorCheck, Transient
  <2>2. FleetType' /\ budget' \in Budget
    BY <2>1 DEF fleet, protections, FleetType
  <2>3. CASE Restart(e, "Failed")
    BY <2>2, <2>3, RestartType DEF Ended
  <2>4. CASE Reset(e, "Success") /\ UNCHANGED failures
    <3>1. failures' \in [Exec -> SUBSET {"scale", "unhealthy", "unneeded"}]
      BY <2>4 DEF ExecType
    <3>2. QED BY <2>2, <2>4, <3>1, ResetType DEF Ended
  <2>5. CASE Goto(e, "Transient") /\ UNCHANGED <<elapsed, response, reported, locals, failures>>
    <3>1. pc' \in [Exec -> Working \cup Ended]
      BY <2>5, GotoType DEF Working
    <3>2. QED BY <2>2, <2>5, <3>1 DEF ExecType, response, locals
  <2>6. QED BY <1>10, <2>3, <2>4, <2>5 DEF ErrorCheck, Transient
<1>11. QED
  <2>1. info[e].insts \subseteq Inst /\ ids[e] \subseteq Inst /\ Group \subseteq Inst
    BY DEF ExecType, Group
  <2>2. CASE \E go \in SUBSET info[e].insts :
               \E out \in SUBSET {i \in Inst : weka[i] = "inactive"} : Scale(e, go, out)
    BY <1>2, <2>2
  <2>3. CASE \E blind \in SUBSET {i \in Group : unhealthy[i]} :
               \E some \in SUBSET {i \in Group : unhealthy[i]} : Terminate(e, blind, some)
    BY <1>3, <2>1, <2>3
  <2>4. CASE \E some \in SUBSET ids[e] : Candidates(e, some)
    BY <1>9, <2>1, <2>4
  <2>5. QED BY <1>1, <1>4, <1>5, <1>6, <1>7, <1>8, <1>10, <2>2, <2>3, <2>4 DEF Step

LEMMA FleetStepType ==
    ASSUME TypeOK, NEW i \in Inst, Fleet(i)
    PROVE  TypeOK'
<1> USE DEF TypeOK
<1>1. UNCHANGED execution
  BY DEF Fleet, Launch, Join, Deactivated, ScaleIn, Terminated, Reaped,
         MarkUnhealthy, Impair, Stop
<1>2. ExecType'
  BY <1>1 DEF ExecType, execution, response, locals
<1>3. budget' \in Budget
  <2>1. CASE Impair(i) \/ Stop(i)
    BY <2>1, ChargeType DEF Impair, Stop
  <2>2. CASE UNCHANGED budget
    BY <2>2
  <2>3. QED
    BY <2>1, <2>2 DEF Fleet, Launch, Join, Deactivated, ScaleIn, Terminated, Reaped,
                      MarkUnhealthy
<1>4. CASE Launch(i)
  BY <1>2, <1>3, <1>4 DEF Launch, FleetType, Ec2State, Lifecycle
<1>5. CASE Join(i) \/ Deactivated(i)
  BY <1>2, <1>3, <1>5 DEF Join, Deactivated, FleetType, WekaState, protections
<1>6. CASE ScaleIn(i)
  <2>1. ec2' \in [Inst -> Ec2State] /\ lifecycle' \in [Inst -> Lifecycle]
    BY <1>6 DEF ScaleIn, FleetType, Ec2State, Lifecycle
  <2>2. QED BY <1>2, <1>3, <1>6, <2>1 DEF ScaleIn, FleetType
<1>7. CASE Terminated(i)
  <2>1. ec2' \in [Inst -> Ec2State] /\ lifecycle' \in [Inst -> Lifecycle]
    BY <1>7 DEF Terminated, FleetType, Ec2State, Lifecycle
  <2>2. QED BY <1>2, <1>3, <1>7, <2>1 DEF Terminated, FleetType
<1>8. CASE Reaped(i)
  BY <1>2, <1>3, <1>8 DEF Reaped, FleetType, Lifecycle
<1>9. CASE MarkUnhealthy(i) \/ Impair(i)
  BY <1>2, <1>3, <1>9 DEF MarkUnhealthy, Impair, FleetType
<1>10. CASE Stop(i)
  BY <1>2, <1>3, <1>10 DEF Stop, FleetType, Ec2State, protections
<1>11. QED
  BY <1>4, <1>5, <1>6, <1>7, <1>8, <1>9, <1>10 DEF Fleet

LEMMA TickType == TypeOK /\ Tick => TypeOK'
<1> SUFFICES ASSUME TypeOK, Tick PROVE TypeOK' OBVIOUS
<1> USE DEF TypeOK
<1>1. UNCHANGED <<ec2, protections, lifecycle, unhealthy, weka, desired,
                  pc, response, reported, locals, failures, budget>>
  BY DEF Tick
<1>2. age' \in [Inst -> 0..Grace]
  <2>1. \A i \in Inst : age[i] \in 0..Grace /\ (age[i] < Grace => age[i] + 1 \in 0..Grace)
    BY TimeAssumption DEF FleetType
  <2>2. QED BY <2>1 DEF Tick
<1>3. elapsed' \in [Exec -> 0..ExecLimit]
  <2>1. \A e \in Exec : /\ elapsed[e] \in 0..ExecLimit
                        /\ pc[e] \in Working => elapsed[e] + 1 \in 0..ExecLimit
    BY TimeAssumption DEF Tick, ExecType
  <2>2. QED BY <2>1 DEF Tick
<1>4. QED
  BY <1>1, <1>2, <1>3 DEF FleetType, ExecType, protections, response, locals

LEMMA NextType == TypeOK /\ [Next]_vars => TypeOK'
<1> SUFFICES ASSUME TypeOK, [Next]_vars PROVE TypeOK' OBVIOUS
<1>1. CASE UNCHANGED vars
  BY <1>1 DEF TypeOK, FleetType, ExecType, vars, fleet, execution, protections,
              response, locals
<1>2. ASSUME NEW e \in Exec, StartExecution(e) PROVE TypeOK'
  <2>1. ExecType'
    BY <1>2, RestartType DEF StartExecution, Working, TypeOK
  <2>2. QED BY <1>2, <2>1 DEF StartExecution, TypeOK, FleetType, fleet, protections
<1>3. ASSUME NEW e \in Exec, Crash(e) PROVE TypeOK'
  <2>1. ExecType'
    BY <1>3, RestartType DEF Crash, Ended, TypeOK
  <2>2. budget' \in Budget
    BY <1>3, ChargeType DEF Crash
  <2>3. QED BY <1>3, <2>1, <2>2 DEF Crash, TypeOK, FleetType, fleet, protections
<1>4. ASSUME NEW d \in Capacities, Resize(d) PROVE TypeOK'
  BY <1>4 DEF Resize, TypeOK, FleetType, ExecType, protections, execution,
              response, locals
<1>5. QED
  BY <1>1, <1>2, <1>3, <1>4, StepType, FleetStepType, TickType DEF Next

\* Type correctness of the scale-in loop.
THEOREM TypeCorrect == Spec => []TypeOK
  BY InitType, NextType, PTL DEF Spec
-----------------------------------------------------------------------------
\* The steps of Next, flattened: what the proofs below split on.
LEMMA NextCases ==
    ASSUME TypeOK, [Next]_vars
    PROVE  \/ UNCHANGED vars
           \/ \E e \in Exec :
                \/ StartExecution(e) \/ Crash(e) \/ HostGroupInfo(e) \/ Delta(e)
                \/ ErrorCheck(e) \/ Transient(e)
                \/ \E go, out \in SUBSET Inst : Scale(e, go, out)
                \/ \E blind, some \in SUBSET Inst : Terminate(e, blind, some)
                \/ \E fails \in SUBSET Inst : SetDisable(e, fails)
                \/ \E some \in SUBSET Inst : Candidates(e, some)
                \/ \E ok \in BOOLEAN :
                     Unprotect(e, ok) \/ TerminateInstances(e, ok) \/ Detach(e, ok)
           \/ \E i \in Inst : Fleet(i)
           \/ \E d \in Capacities : Resize(d)
           \/ Tick
<1>1. ASSUME NEW e \in Exec
      PROVE  /\ info[e].insts \subseteq Inst /\ ids[e] \subseteq Inst /\ batch[e] \subseteq Inst
             /\ Group \subseteq Inst
  BY DEF TypeOK, ExecType, Group
<1>2. ASSUME NEW e \in Exec, Step(e)
      PROVE  \/ HostGroupInfo(e) \/ Delta(e) \/ ErrorCheck(e) \/ Transient(e)
             \/ \E go, out \in SUBSET Inst : Scale(e, go, out)
             \/ \E blind, some \in SUBSET Inst : Terminate(e, blind, some)
             \/ \E fails \in SUBSET Inst : SetDisable(e, fails)
             \/ \E some \in SUBSET Inst : Candidates(e, some)
             \/ \E ok \in BOOLEAN :
                  Unprotect(e, ok) \/ TerminateInstances(e, ok) \/ Detach(e, ok)
  <2>1. CASE \E go \in SUBSET info[e].insts :
               \E out \in SUBSET {i \in Inst : weka[i] = "inactive"} : Scale(e, go, out)
    BY <1>1, <2>1
  <2>2. CASE \E blind \in SUBSET {i \in Group : unhealthy[i]} :
               \E some \in SUBSET {i \in Group : unhealthy[i]} : Terminate(e, blind, some)
    BY <1>1, <2>2
  <2>3. CASE \E fails \in SUBSET batch[e] : SetDisable(e, fails)
    BY <1>1, <2>3
  <2>4. CASE \E some \in SUBSET ids[e] : Candidates(e, some)
    BY <1>1, <2>4
  <2>5. QED BY <1>2, <2>1, <2>2, <2>3, <2>4 DEF Step
<1>3. QED BY <1>2 DEF Next

\* What any step may do to an instance, whoever takes it.
Effects(i) ==
    /\ ec2[i] # "none" => ec2'[i] # "none"
    /\ ec2[i] \notin {"none", "running"} => ec2'[i] \notin {"none", "running"}
    /\ weka[i] = "removed" => weka'[i] = "removed"
    /\ weka'[i] # "none" => weka[i] # "none" \/ (ec2[i] = "running" /\ age[i] < JoinBy)
    /\ age[i] <= age'[i]
    /\ ec2[i] = "none" => age'[i] = age[i]
    /\ protected[i] /\ ~protected'[i] => \E e \in Exec : i \in batch[e]
    /\ apiProtected[i] /\ ~apiProtected'[i] => \E e \in Exec : i \in batch[e]
    /\ lifecycle[i] = "none" /\ lifecycle'[i] # "none" =>
          ec2'[i] = "running" /\ protected'[i] /\ apiProtected'[i]
    /\ lifecycle[i] # "none" /\ lifecycle'[i] = "none" =>
          ec2[i] # "running" \/ (\E e \in Exec : i \in detach[e])
    /\ ec2[i] = "running" /\ ec2'[i] = "shutting-down" =>
          \/ \E e \in Exec : i \in batch[e]
          \/ (lifecycle[i] # "none" /\ ~protected[i])

LEMMA StepEffects ==
    ASSUME TypeOK, [Next]_vars, NEW i \in Inst
    PROVE  Effects(i)
<1>0. Grace \in Nat BY TimeAssumption
<1> USE <1>0 DEF TypeOK, FleetType
<1>1. CASE UNCHANGED fleet
  BY <1>1 DEF Effects, fleet, protections
<1>2. ASSUME NEW e \in Exec, NEW go \in SUBSET Inst, NEW out \in SUBSET Inst, Scale(e, go, out)
      PROVE  Effects(i)
  <2>1. UNCHANGED <<ec2, protections, age, lifecycle>>
    BY <1>2 DEF Scale
  <2>2. \/ weka'[i] = weka[i]
        \/ weka[i] = "up" /\ weka'[i] = "deactivating"
        \/ weka[i] = "inactive" /\ weka'[i] = "removed"
    BY <1>2 DEF Scale
  <2>3. QED BY <2>1, <2>2 DEF Effects, protections
<1>3. ASSUME NEW e \in Exec, NEW fails \in SUBSET Inst, SetDisable(e, fails)
      PROVE  Effects(i)
  BY <1>3 DEF SetDisable, Effects
<1>4. ASSUME NEW e \in Exec, NEW ok \in BOOLEAN, Unprotect(e, ok)
      PROVE  Effects(i)
  BY <1>4 DEF Unprotect, Effects
<1>5. ASSUME NEW e \in Exec, NEW ok \in BOOLEAN, TerminateInstances(e, ok)
      PROVE  Effects(i)
  <2>1. UNCHANGED <<protections, age, lifecycle, weka>>
    BY <1>5 DEF TerminateInstances
  <2>2. \/ ec2'[i] = ec2[i]
        \/ i \in batch[e] /\ ec2'[i] = "shutting-down"
    BY <1>5 DEF TerminateInstances
  <2>3. QED BY <2>1, <2>2 DEF Effects, protections
<1>6. ASSUME NEW e \in Exec, NEW ok \in BOOLEAN, Detach(e, ok)
      PROVE  Effects(i)
  BY <1>6 DEF Detach, Effects, protections
<1>7. ASSUME NEW j \in Inst, Fleet(j)
      PROVE  Effects(i)
  <2>1. CASE Launch(j)
    BY <1>7, <2>1 DEF Launch, Effects
  <2>2. CASE Join(j)
    BY <1>7, <2>2 DEF Join, Effects, protections
  <2>3. CASE Deactivated(j)
    BY <1>7, <2>3 DEF Deactivated, Effects, protections
  <2>4. CASE ScaleIn(j)
    BY <1>7, <2>4 DEF ScaleIn, Effects
  <2>5. CASE Terminated(j)
    BY <1>7, <2>5 DEF Terminated, Effects
  <2>6. CASE Reaped(j)
    BY <1>7, <2>6 DEF Reaped, Effects
  <2>7. CASE MarkUnhealthy(j) \/ Impair(j)
    <3>1. UNCHANGED <<ec2, apiProtected, age, lifecycle, protected, weka>>
      BY <2>7 DEF MarkUnhealthy, Impair
    <3>2. QED BY <3>1 DEF Effects
  <2>8. CASE Stop(j)
    BY <1>7, <2>8 DEF Stop, Effects, protections
  <2>9. QED
    BY <1>7, <2>1, <2>2, <2>3, <2>4, <2>5, <2>6, <2>7, <2>8 DEF Fleet
<1>8. CASE Tick
  BY <1>8, TimeAssumption DEF Tick, Effects, protections
<1>9. ASSUME NEW d \in Capacities, Resize(d)
      PROVE  Effects(i)
  BY <1>9 DEF Resize, Effects, protections
<1>10. ASSUME NEW e \in Exec,
              \/ StartExecution(e) \/ Crash(e) \/ HostGroupInfo(e) \/ Delta(e)
              \/ ErrorCheck(e) \/ Transient(e)
              \/ \E some \in SUBSET Inst : Candidates(e, some)
              \/ \E blind, some \in SUBSET Inst : Terminate(e, blind, some)
       PROVE  UNCHANGED fleet
  BY <1>10 DEF StartExecution, Crash, HostGroupInfo, Delta, ErrorCheck, Transient,
               Candidates, Terminate
<1>11. CASE UNCHANGED vars
  BY <1>1, <1>11 DEF vars
<1>12. QED
  BY <1>1, <1>2, <1>3, <1>4, <1>5, <1>6, <1>7, <1>8, <1>9, <1>10, <1>11, NextCases

\* A disposable instance stays one: nobody brings it back to serve.
LEMMA DisposableStays ==
    ASSUME TypeOK, TypeOK', NEW i \in Inst, Effects(i), Disposable(i)
    PROVE  Disposable(i)'
  BY TimeAssumption DEF Effects, Disposable, TypeOK, FleetType, Ec2State, WekaState
-----------------------------------------------------------------------------
LEMMA InitManaged == Init => ManagedInv
<1> SUFFICES ASSUME Init PROVE ManagedInv OBVIOUS
<1>1. LiftedAreDisposable
  BY DEF Init, LiftedAreDisposable
<1>2. ChosenAreDisposable /\ CandidatesUnlisted
  BY DEF Init, ChosenAreDisposable, CandidatesUnlisted, NoHosts
<1>3. UnlistedAreYoung
  BY DEF Init, UnlistedAreYoung, Comparing, TerminateAsg
<1>4. QED BY <1>1, <1>2, <1>3 DEF ManagedInv

\* A protection is lifted only from a chosen instance, and the group only gets
\* protected instances.
LEMMA LiftedStep ==
    ASSUME TypeOK, TypeOK', ManagedInv, [Next]_vars
    PROVE  LiftedAreDisposable'
<1> SUFFICES ASSUME NEW i \in Inst, lifecycle'[i] # "none"
             PROVE  /\ ec2'[i] # "none"
                    /\ (protected'[i] /\ apiProtected'[i]) \/ Disposable(i)'
  BY DEF LiftedAreDisposable
<1>1. Effects(i)
  BY StepEffects
<1>2. CASE lifecycle[i] = "none"
  BY <1>1, <1>2 DEF Effects
<1>3. CASE lifecycle[i] # "none"
  <2>1. ec2[i] # "none" /\ ((protected[i] /\ apiProtected[i]) \/ Disposable(i))
    BY <1>3 DEF ManagedInv, LiftedAreDisposable
  <2>2. CASE Disposable(i)
    BY <1>1, <2>1, <2>2, DisposableStays DEF Effects
  <2>3. CASE protected[i] /\ apiProtected[i]
    <3>1. CASE \E e \in Exec : i \in batch[e]
      BY <2>2, <3>1 DEF ManagedInv, ChosenAreDisposable
    <3>2. CASE ~ \E e \in Exec : i \in batch[e]
      BY <1>1, <2>1, <2>3, <3>2 DEF Effects
    <3>3. QED BY <3>1, <3>2
  <2>4. QED BY <2>1, <2>2, <2>3
<1>4. QED BY <1>2, <1>3

\* What a step may do to an execution, apart from clearing it: where chosen
\* instances come from, and where lists and candidates do.
Choice(e, i) ==
    \/ i \in batch[e] \cup detach[e]
    \/ lifecycle[i] # "none" /\ (~protected[i] \/ ec2[i] \in {"stopped", "terminated"})
    \/ pc[e] = "Candidates" /\ i \in ids[e] /\ Unneeded(e, i)

LEMMA ChoiceStep ==
    ASSUME TypeOK, [Next]_vars, NEW e \in Exec, NEW i \in Inst,
           i \in batch'[e] \cup detach'[e]
    PROVE  Choice(e, i)
<1> USE DEF TypeOK, ExecType
<1>1. CASE UNCHANGED <<batch, detach>>
  BY <1>1 DEF Choice
<1>2. ASSUME NEW d \in Exec, NEW to, Reset(d, to)
      PROVE  Choice(e, i)
  BY <1>2 DEF Reset, Choice
<1>3. ASSUME NEW d \in Exec, StartExecution(d) \/ Crash(d) \/ HostGroupInfo(d) \/ Delta(d)
                               \/ ErrorCheck(d) \/ Transient(d)
      PROVE  Choice(e, i)
  <2>1. (\E to \in Working \cup Ended : Reset(d, to)) \/ UNCHANGED <<batch, detach>>
    BY <1>3 DEF StartExecution, Crash, HostGroupInfo, Delta, ErrorCheck, Transient, Restart,
                Working, Ended, locals
  <2>2. QED BY <1>1, <1>2, <2>1
<1>4. ASSUME NEW d \in Exec, NEW blind \in SUBSET Inst, NEW some \in SUBSET Inst,
             Terminate(d, blind, some)
      PROVE  Choice(e, i)
  <2>1. \A j \in Inst : j \in some => lifecycle[j] # "none" /\ ec2[j] = "stopped"
    BY <1>4 DEF Terminate, FirstOf, Group
  <2>2. \A j \in Inst : j \in detach'[d] =>
          lifecycle[j] # "none" /\ (~protected[j] \/ ec2[j] = "terminated")
    BY <1>4 DEF Terminate, Group
  <2>3. /\ batch'[e] = IF e = d THEN some ELSE batch[e]
        /\ e # d => detach'[e] = detach[e]
    BY <1>4 DEF Terminate
  <2>4. QED BY <2>1, <2>2, <2>3 DEF Choice
<1>5. ASSUME NEW d \in Exec, NEW some \in SUBSET Inst, Candidates(d, some)
      PROVE  Choice(e, i)
  <2>1. CASE Restart(d, "Failed")
    BY <1>2, <2>1 DEF Restart
  <2>2. CASE ~ Restart(d, "Failed")
    <3>1. /\ batch' = [batch EXCEPT ![d] = some] /\ UNCHANGED detach
          /\ some \subseteq {j \in ids[d] : Unneeded(d, j)}
          /\ pc[d] = "Candidates"
      BY <1>5, <2>2 DEF Candidates, FirstOf
    <3>2. QED BY <3>1 DEF Choice
  <2>3. QED BY <2>1, <2>2
<1>6. ASSUME NEW d \in Exec, NEW ok \in BOOLEAN, Unprotect(d, ok)
      PROVE  Choice(e, i)
  BY <1>6 DEF Unprotect, Choice
<1>7. ASSUME NEW d \in Exec, NEW ok \in BOOLEAN, TerminateInstances(d, ok)
      PROVE  Choice(e, i)
  <2>1. batch'[e] \subseteq batch[e]
    BY <1>7 DEF TerminateInstances
  <2>2. detach'[e] \subseteq detach[e] \cup batch[e]
    BY <1>7 DEF TerminateInstances
  <2>3. QED BY <2>1, <2>2 DEF Choice
<1>8. ASSUME NEW d \in Exec, NEW ok \in BOOLEAN, Detach(d, ok)
      PROVE  Choice(e, i)
  BY <1>8 DEF Detach, Choice
<1>9. ASSUME NEW d \in Exec, NEW go, NEW out, Scale(d, go, out)
      PROVE  Choice(e, i)
  BY <1>1, <1>9 DEF Scale, locals
<1>10. ASSUME NEW d \in Exec, NEW fails, SetDisable(d, fails)
       PROVE  Choice(e, i)
  BY <1>1, <1>10 DEF SetDisable
<1>11. ASSUME NEW j \in Inst, Fleet(j)
       PROVE  Choice(e, i)
  <2>1. UNCHANGED execution
    BY <1>11 DEF Fleet, Launch, Join, Deactivated, ScaleIn, Terminated, Reaped,
                 MarkUnhealthy, Impair, Stop
  <2>2. QED BY <1>1, <2>1 DEF execution, locals
<1>12. ASSUME NEW c \in Capacities, Resize(c)
       PROVE  Choice(e, i)
  BY <1>1, <1>12 DEF Resize, execution, locals
<1>13. CASE Tick
  BY <1>1, <1>13 DEF Tick, locals
<1>14. CASE UNCHANGED vars
  BY <1>1, <1>14 DEF vars, execution, locals
<1>15. QED
  BY <1>3, <1>4, <1>5, <1>6, <1>7, <1>8, <1>9, <1>10, <1>11, <1>12, <1>13, <1>14, NextCases

\* The delta trusts a list that may be stale.  An instance it misses that is a
\* member all the same is younger than JoinBy + ExecLimit, so the grace period
\* keeps it from being chosen.
LEMMA ChosenStep ==
    ASSUME TypeOK, TypeOK', ManagedInv, [Next]_vars
    PROVE  ChosenAreDisposable'
<1> SUFFICES ASSUME NEW e \in Exec, NEW i \in Inst, i \in batch'[e] \cup detach'[e]
             PROVE  Disposable(i)'
  BY DEF ChosenAreDisposable, TypeOK, ExecType
<1>1. Effects(i) /\ Choice(e, i)
  BY StepEffects, ChoiceStep
<1> SUFFICES Disposable(i)
  BY <1>1, DisposableStays
<1>2. CASE i \in batch[e] \cup detach[e]
  BY <1>2 DEF ManagedInv, ChosenAreDisposable
<1>3. CASE lifecycle[i] # "none" /\ (~protected[i] \/ ec2[i] \in {"stopped", "terminated"})
  BY <1>3 DEF ManagedInv, LiftedAreDisposable, Disposable
<1>4. CASE pc[e] = "Candidates" /\ i \in ids[e] /\ Unneeded(e, i)
  <2>1. CASE i \in scaled[e].explicit
    BY <2>1 DEF ManagedInv, CandidatesUnlisted, Disposable
  <2>2. CASE i \notin scaled[e].explicit
    <3>1. age[i] >= Grace /\ ec2[i] # "none"
      BY <1>4, <2>2 DEF Unneeded, ManagedInv, CandidatesUnlisted
    <3>2. i \in Inst \ scaled[e].hosts /\ Comparing(e)
      BY <1>4 DEF ManagedInv, CandidatesUnlisted, Comparing
    <3>3. age[i] \in Nat /\ elapsed[e] \in Nat /\ elapsed[e] <= ExecLimit
      BY TimeAssumption DEF TypeOK, FleetType, ExecType
    <3>4. JoinBy + elapsed[e] <= age[i] /\ JoinBy <= age[i]
      BY <3>1, <3>3, TimeAssumption
    <3>5. ~Member(i)
      BY <3>2, <3>3, <3>4, TimeAssumption DEF ManagedInv, UnlistedAreYoung
    <3>6. weka[i] \in {"none", "removed"}
      BY <3>5 DEF Member, TypeOK, FleetType, WekaState
    <3>7. QED BY <3>1, <3>4, <3>6 DEF Disposable
  <2>3. QED BY <2>1, <2>2
<1>5. QED BY <1>1, <1>2, <1>3, <1>4 DEF Choice

\* An execution that is comparing kept its list, and aged with the instances,
\* unless it has just received the list of all members.
LEMMA ListStep ==
    ASSUME TypeOK, CandidatesUnlisted, [Next]_vars, NEW e \in Exec, Comparing(e)', NEW i \in Inst,
           i \notin scaled'[e].hosts
    PROVE  \/ ~Member(i)'
           \/ /\ Comparing(e) /\ i \notin scaled[e].hosts
              /\ elapsed[e] <= elapsed'[e]
              /\ \/ age'[i] = age[i]
                 \/ age'[i] = age[i] + 1 /\ elapsed'[e] = elapsed[e] + 1
<1> DEFINE Kept == /\ Comparing(e) /\ i \notin scaled[e].hosts
                   /\ elapsed[e] <= elapsed'[e]
                   /\ \/ age'[i] = age[i]
                      \/ age'[i] = age[i] + 1 /\ elapsed'[e] = elapsed[e] + 1
<1> SUFFICES ~Member(i)' \/ Kept OBVIOUS
<1>0. /\ elapsed[e] \in Nat /\ age[i] \in Nat
      /\ pc \in [Exec -> Working \cup Ended] /\ elapsed \in [Exec -> 0..ExecLimit]
      /\ scaled \in [Exec -> [hosts : SUBSET Inst, explicit : SUBSET Inst]]
      /\ caller \in [Exec -> {"unhealthy", "unneeded"}]
      /\ weka \in [Inst -> WekaState]
  BY TimeAssumption DEF TypeOK, FleetType, ExecType
<1>1. ASSUME UNCHANGED <<pc, caller, scaled, elapsed, age>>
      PROVE  Kept
  BY <1>0, <1>1 DEF Comparing
<1>2. ASSUME NEW d \in Exec, d # e, pc'[e] = pc[e], caller'[e] = caller[e],
             scaled'[e] = scaled[e], elapsed'[e] = elapsed[e], age' = age
      PROVE  Kept
  BY <1>0, <1>2 DEF Comparing
<1>3. ASSUME NEW d \in Exec, NEW to \in Ended \cup {"HostGroupInfo"}, Reset(d, to), age' = age
      PROVE  Kept
  <2>1. d # e
    BY <1>0, <1>3 DEF Reset, Goto, Comparing, TerminateAsg, Ended
  <2>2. QED BY <1>0, <1>2, <1>3, <2>1 DEF Reset, Goto
<1>4. ASSUME NEW d \in Exec, StartExecution(d) \/ Crash(d)
      PROVE  Kept
  BY <1>3, <1>4 DEF StartExecution, Crash, Restart, Ended, fleet
<1>5. ASSUME NEW d \in Exec, ErrorCheck(d) \/ Transient(d)
      PROVE  Kept
  <2>1. age' = age
    BY <1>5 DEF ErrorCheck, Transient, fleet
  <2>2. CASE \E to \in Ended : Reset(d, to)
    BY <1>3, <2>1, <2>2
  <2>3. CASE ~ \E to \in Ended : Reset(d, to)
    <3>1. Goto(d, "Transient") /\ UNCHANGED <<elapsed, response, locals>>
      BY <1>5, <2>3 DEF ErrorCheck, Transient, Restart, Ended
    <3>2. QED
      BY <1>0, <1>2, <2>1, <3>1 DEF Goto, Comparing, TerminateAsg, response, locals
  <2>4. QED BY <2>2, <2>3
<1>6. ASSUME NEW d \in Exec, HostGroupInfo(d)
      PROVE  Kept
  <2>1. age' = age
    BY <1>6 DEF HostGroupInfo, fleet
  <2>2. CASE Restart(d, "Failed")
    BY <1>3, <2>1, <2>2 DEF Restart, Ended
  <2>3. CASE ~ Restart(d, "Failed")
    <3>1. Goto(d, "Scale") /\ UNCHANGED <<elapsed, scaled, locals>>
      BY <1>6, <2>3 DEF HostGroupInfo
    <3>2. QED
      BY <1>0, <1>2, <2>1, <3>1 DEF Goto, Comparing, TerminateAsg, locals
  <2>4. QED BY <2>2, <2>3
<1>7. ASSUME NEW d \in Exec, NEW go \in SUBSET Inst, NEW out \in SUBSET Inst, Scale(d, go, out)
      PROVE  ~Member(i)' \/ Kept
  <2>1. CASE d = e
    <3>1. i \notin {j \in Inst : Member(j)} \ out
      BY <1>0, <1>7, <2>1 DEF Scale
    <3>2. weka'[i] = "removed" \/ ~Member(i)
      BY <1>7, <3>1 DEF Scale, Member
    <3>3. weka'[i] = "removed" \/ weka'[i] = weka[i]
      BY <1>7, <3>2 DEF Scale, Member
    <3>4. QED BY <3>2, <3>3 DEF Member
  <2>2. CASE d # e
    BY <1>0, <1>2, <1>7, <2>2 DEF Scale, Goto, locals
  <2>3. QED BY <2>1, <2>2
<1>8. ASSUME NEW d \in Exec, NEW blind \in SUBSET Inst, NEW some \in SUBSET Inst,
             Terminate(d, blind, some)
      PROVE  Kept
  <2>1. /\ UNCHANGED <<fleet, elapsed, response, caller>> /\ pc[d] = "Terminate"
        /\ \A f \in Exec : f # d => pc'[f] = pc[f]
    BY <1>0, <1>8 DEF Terminate, Goto
  <2>2. QED BY <1>0, <2>1 DEF Comparing, fleet, response
<1>9. ASSUME NEW d \in Exec, NEW fails \in SUBSET Inst, SetDisable(d, fails)
      PROVE  Kept
  BY <1>0, <1>9 DEF SetDisable, Goto, Comparing, TerminateAsg, response
<1>10. ASSUME NEW d \in Exec, NEW ok \in BOOLEAN, Unprotect(d, ok)
       PROVE  Kept
  BY <1>0, <1>10 DEF Unprotect, Goto, Comparing, TerminateAsg, response
<1>11. ASSUME NEW d \in Exec, NEW ok \in BOOLEAN, TerminateInstances(d, ok)
       PROVE  Kept
  <2>1. /\ UNCHANGED <<age, elapsed, response, caller>> /\ pc[d] = "TerminateInstances"
        /\ \A f \in Exec : f # d => pc'[f] = pc[f]
        /\ caller[d] = "unhealthy" \/ pc'[d] = "ErrorCheck"
    BY <1>0, <1>11 DEF TerminateInstances, Goto
  <2>2. QED BY <1>0, <2>1 DEF Comparing, TerminateAsg, response
<1>12. ASSUME NEW d \in Exec, NEW ok \in BOOLEAN, Detach(d, ok)
       PROVE  Kept
  <2>1. /\ UNCHANGED <<age, elapsed, response, caller>> /\ pc[d] = "Detach"
        /\ \A f \in Exec : f # d => pc'[f] = pc[f]
    BY <1>0, <1>12 DEF Detach, Goto
  <2>2. QED BY <1>0, <2>1 DEF Comparing, response
<1>13. ASSUME NEW d \in Exec, Delta(d)
       PROVE  Kept
  <2>1. CASE Restart(d, "Failed")
    BY <1>3, <1>13, <2>1 DEF Delta, Restart, Ended, fleet
  <2>2. CASE ~ Restart(d, "Failed")
    <3>1. /\ UNCHANGED <<age, elapsed, response>> /\ pc[d] = "Delta"
          /\ \A f \in Exec : f # d => pc'[f] = pc[f] /\ caller'[f] = caller[f]
      BY <1>0, <1>13, <2>2 DEF Delta, Goto, fleet
    <3>2. QED BY <1>0, <3>1 DEF Comparing, response
  <2>3. QED BY <2>1, <2>2
<1>14. ASSUME NEW d \in Exec, NEW some \in SUBSET Inst, Candidates(d, some)
       PROVE  Kept
  <2>0. age' = age
    BY <1>14 DEF Candidates, fleet
  <2>1. CASE Restart(d, "Failed")
    BY <1>3, <2>0, <2>1 DEF Restart, Ended
  <2>2. CASE ~ Restart(d, "Failed")
    <3>1. /\ Goto(d, "ErrorCheck") \/ Goto(d, "SetDisable")
          /\ scaled' = [scaled EXCEPT ![d] = NoHosts]
          /\ UNCHANGED <<elapsed, caller>>
      BY <1>14, <2>2 DEF Candidates
    <3>2. CASE d # e
      BY <1>0, <1>2, <2>0, <3>1, <3>2 DEF Goto
    <3>3. CASE d = e
      <4>1. pc[d] = "Candidates" /\ caller[d] = "unneeded"
        BY <1>14 DEF Candidates, CandidatesUnlisted
      <4>2. pc'[e] \in {"ErrorCheck", "SetDisable"} /\ caller'[e] = "unneeded"
        BY <1>0, <3>1, <3>3, <4>1 DEF Goto
      <4>3. QED BY <4>2 DEF Comparing, TerminateAsg
    <3>4. QED BY <3>2, <3>3
  <2>3. QED BY <2>1, <2>2
<1>15. ASSUME NEW j \in Inst, Fleet(j)
       PROVE  Kept
  <2>1. UNCHANGED <<execution, age>>
    BY <1>15 DEF Fleet, Launch, Join, Deactivated, ScaleIn, Terminated, Reaped,
                 MarkUnhealthy, Impair, Stop
  <2>2. QED BY <1>1, <2>1 DEF execution, locals, response
<1>16. CASE (\E c \in Capacities : Resize(c)) \/ UNCHANGED vars
  BY <1>1, <1>16 DEF Resize, vars, execution, fleet, locals, response
<1>17. CASE Tick
  <2>1. UNCHANGED <<pc, caller, scaled>> /\ Comparing(e)
    BY <1>17 DEF Tick, Comparing, locals, response
  <2>2. pc[e] \in Working
    BY <2>1 DEF Comparing, Working, TerminateAsg
  <2>3. elapsed'[e] = elapsed[e] + 1 /\ (age'[i] = age[i] \/ age'[i] = age[i] + 1)
    BY <1>17, <2>2 DEF Tick
  <2>4. QED BY <1>0, <2>1, <2>3
<1>18. QED
  BY <1>4, <1>5, <1>6, <1>7, <1>8, <1>9, <1>10, <1>11, <1>12, <1>13, <1>14, <1>15,
     <1>16, <1>17, NextCases

LEMMA UnlistedStep ==
    ASSUME TypeOK, TypeOK', ManagedInv, [Next]_vars
    PROVE  UnlistedAreYoung'
<1> SUFFICES ASSUME NEW e \in Exec, Comparing(e)', NEW i \in Inst,
                    i \notin scaled'[e].hosts, Member(i)'
             PROVE  age'[i] < JoinBy + elapsed'[e]
  BY DEF UnlistedAreYoung
<1>1. Effects(i)
  BY StepEffects
<1>2. /\ Comparing(e) /\ i \notin scaled[e].hosts
      /\ elapsed[e] <= elapsed'[e]
      /\ \/ age'[i] = age[i]
         \/ age'[i] = age[i] + 1 /\ elapsed'[e] = elapsed[e] + 1
  BY ListStep DEF ManagedInv
<1>3. /\ age[i] \in Nat /\ age'[i] \in Nat /\ JoinBy \in Nat
      /\ elapsed[e] \in Nat /\ elapsed'[e] \in Nat
  BY TimeAssumption DEF TypeOK, FleetType, ExecType
<1>4. age[i] < JoinBy + elapsed[e]
  <2>1. CASE Member(i)
    BY <1>2, <2>1 DEF ManagedInv, UnlistedAreYoung
  <2>2. CASE ~Member(i)
    <3>1. weka[i] = "none"
      BY <1>1, <2>2 DEF Effects, Member, TypeOK, FleetType, WekaState
    <3>2. age[i] < JoinBy
      BY <1>1, <3>1 DEF Effects, Member
    <3>3. QED BY <1>3, <3>2
  <2>3. QED BY <2>1, <2>2
<1>5. QED BY <1>2, <1>3, <1>4

\* Where ids and the hosts for explicit termination come from, and what holds
\* of an execution about to choose among the candidates.
Passed(e, i) ==
    /\ i \in ids'[e] => i \in ids[e] \/ lifecycle[i] # "none"
    /\ i \in scaled'[e].explicit => i \in scaled[e].explicit \/ weka'[i] = "removed"
    /\ pc'[e] = "Candidates" =>
         \/ caller'[e] = "unneeded" /\ (i \in ids'[e] => i \notin scaled'[e].hosts)
         \/ /\ pc[e] = "Candidates" /\ caller'[e] = caller[e]
            /\ ids'[e] = ids[e] /\ scaled'[e] = scaled[e]

LEMMA PassedStep ==
    ASSUME TypeOK, [Next]_vars, NEW e \in Exec, NEW i
    PROVE  Passed(e, i)
<1>0. /\ pc \in [Exec -> Working \cup Ended] /\ ids \in [Exec -> SUBSET Inst]
      /\ scaled \in [Exec -> [hosts : SUBSET Inst, explicit : SUBSET Inst]]
      /\ caller \in [Exec -> {"unhealthy", "unneeded"}]
  BY DEF TypeOK, ExecType
<1>1. ASSUME \/ pc'[e] = pc[e]
             \/ pc'[e] # "Candidates",
             ids'[e] = ids[e], scaled'[e] = scaled[e], caller'[e] = caller[e]
      PROVE  Passed(e, i)
  BY <1>1 DEF Passed
<1>2. ASSUME NEW d \in Exec, NEW to \in Ended \cup {"HostGroupInfo"}, Reset(d, to)
      PROVE  Passed(e, i)
  <2>1. CASE d = e
    BY <1>0, <1>2, <2>1 DEF Reset, Goto, NoHosts, Passed, Ended
  <2>2. CASE d # e
    BY <1>0, <1>1, <1>2, <2>2 DEF Reset, Goto
  <2>3. QED BY <2>1, <2>2
<1>3. ASSUME NEW d \in Exec, StartExecution(d) \/ Crash(d)
      PROVE  Passed(e, i)
  BY <1>2, <1>3 DEF StartExecution, Crash, Restart, Ended
<1>4. ASSUME NEW d \in Exec, ErrorCheck(d) \/ Transient(d) \/ HostGroupInfo(d)
      PROVE  Passed(e, i)
  <2>1. CASE \E to \in Ended : Reset(d, to)
    BY <1>2, <2>1
  <2>2. CASE ~ \E to \in Ended : Reset(d, to)
    <3>1. /\ Goto(d, "Transient") \/ Goto(d, "Scale")
          /\ UNCHANGED <<scaled, locals>>
      BY <1>4, <2>2 DEF ErrorCheck, Transient, HostGroupInfo, Restart, Ended, response
    <3>2. QED BY <1>0, <1>1, <3>1 DEF Goto, locals
  <2>3. QED BY <2>1, <2>2
<1>5. ASSUME NEW d \in Exec, NEW go \in SUBSET Inst, NEW out \in SUBSET Inst, Scale(d, go, out)
      PROVE  Passed(e, i)
  <2>1. UNCHANGED locals /\ pc'[e] = (IF d = e THEN "Terminate" ELSE pc[e])
    BY <1>0, <1>5 DEF Scale, Goto
  <2>2. CASE d # e
    BY <1>0, <1>1, <1>5, <2>1, <2>2 DEF Scale, locals
  <2>3. CASE d = e
    <3>1. scaled'[e].explicit \subseteq out
      BY <1>0, <1>5, <2>3 DEF Scale
    <3>2. \A j \in Inst : j \in out => weka'[j] = "removed"
      BY <1>5 DEF Scale
    <3>3. QED BY <2>1, <2>3, <3>1, <3>2 DEF Passed, locals
  <2>4. QED BY <2>2, <2>3
<1>6. ASSUME NEW d \in Exec, NEW blind \in SUBSET Inst, NEW some \in SUBSET Inst,
             Terminate(d, blind, some)
      PROVE  Passed(e, i)
  <2>1. /\ UNCHANGED <<scaled, caller>> /\ ids' = [ids EXCEPT ![d] = Group]
        /\ pc'[e] # "Candidates" \/ (d # e /\ pc'[e] = pc[e])
    BY <1>0, <1>6 DEF Terminate, Goto, AfterUnhealthy, response
  <2>2. QED BY <1>0, <2>1 DEF Passed, Group
<1>7. ASSUME NEW d \in Exec, NEW fails \in SUBSET Inst, SetDisable(d, fails)
      PROVE  Passed(e, i)
  BY <1>0, <1>1, <1>7 DEF SetDisable, Goto, response
<1>8. ASSUME NEW d \in Exec, NEW ok \in BOOLEAN, Unprotect(d, ok)
      PROVE  Passed(e, i)
  BY <1>0, <1>1, <1>8 DEF Unprotect, Goto, response
<1>9. ASSUME NEW d \in Exec, NEW ok \in BOOLEAN, TerminateInstances(d, ok)
      PROVE  Passed(e, i)
  <2>1. /\ UNCHANGED <<response, ids, caller>>
        /\ pc'[e] # "Candidates" \/ pc'[e] = pc[e]
    BY <1>0, <1>9 DEF TerminateInstances, Goto, AfterUnhealthy
  <2>2. QED BY <1>1, <2>1 DEF response
<1>10. ASSUME NEW d \in Exec, NEW ok \in BOOLEAN, Detach(d, ok)
       PROVE  Passed(e, i)
  BY <1>0, <1>1, <1>10 DEF Detach, Goto, response
<1>11. ASSUME NEW d \in Exec, Delta(d)
       PROVE  Passed(e, i)
  <2>1. CASE Restart(d, "Failed")
    BY <1>2, <2>1 DEF Restart, Ended
  <2>2. CASE ~ Restart(d, "Failed")
    <3> DEFINE delta == {j \in ids[d] : HasPrivateIp(j) /\ j \notin scaled[d].hosts}
    <3>1. /\ Goto(d, IF delta = {} THEN "ErrorCheck" ELSE "Candidates")
          /\ ids' = [ids EXCEPT ![d] = delta]
          /\ caller' = [caller EXCEPT ![d] = "unneeded"]
          /\ UNCHANGED response
      BY <1>11, <2>2 DEF Delta
    <3>2. CASE d # e
      BY <1>0, <1>1, <3>1, <3>2 DEF Goto, response
    <3>3. CASE d = e
      <4>1. ids'[e] = delta /\ caller'[e] = "unneeded" /\ scaled' = scaled
        BY <1>0, <3>1, <3>3 DEF response
      <4>2. \A j \in delta : j \in ids[e] /\ j \notin scaled[e].hosts
        BY <3>3
      <4>3. QED BY <4>1, <4>2 DEF Passed
    <3>4. QED BY <3>2, <3>3
  <2>3. QED BY <2>1, <2>2
<1>12. ASSUME NEW d \in Exec, NEW some \in SUBSET Inst, Candidates(d, some)
       PROVE  Passed(e, i)
  <2>1. CASE Restart(d, "Failed")
    BY <1>2, <2>1 DEF Restart, Ended
  <2>2. CASE ~ Restart(d, "Failed")
    <3>1. /\ Goto(d, "ErrorCheck") \/ Goto(d, "SetDisable")
          /\ scaled' = [scaled EXCEPT ![d] = NoHosts]
          /\ ids' = [ids EXCEPT ![d] = {}]
          /\ UNCHANGED caller
      BY <1>12, <2>2 DEF Candidates
    <3>2. CASE d # e
      BY <1>0, <1>1, <3>1, <3>2 DEF Goto
    <3>3. CASE d = e
      BY <1>0, <3>1, <3>3 DEF Goto, Passed, NoHosts
    <3>4. QED BY <3>2, <3>3
  <2>3. QED BY <2>1, <2>2
<1>13. ASSUME NEW j \in Inst, Fleet(j)
       PROVE  Passed(e, i)
  <2>1. UNCHANGED execution
    BY <1>13 DEF Fleet, Launch, Join, Deactivated, ScaleIn, Terminated, Reaped,
                 MarkUnhealthy, Impair, Stop
  <2>2. QED BY <1>1, <2>1 DEF execution, locals, response
<1>14. CASE (\E c \in Capacities : Resize(c)) \/ UNCHANGED vars \/ Tick
  BY <1>1, <1>14 DEF Resize, Tick, vars, execution, locals, response
<1>15. QED
  BY <1>3, <1>4, <1>5, <1>6, <1>7, <1>8, <1>9, <1>10, <1>11, <1>12, <1>13, <1>14,
     NextCases

LEMMA CandidatesStep ==
    ASSUME TypeOK, TypeOK', ManagedInv, [Next]_vars
    PROVE  CandidatesUnlisted'
<1> SUFFICES ASSUME NEW e \in Exec
             PROVE  /\ \A i \in ids'[e] : ec2'[i] # "none"
                    /\ \A i \in scaled'[e].explicit : weka'[i] = "removed"
                    /\ pc'[e] = "Candidates" => /\ ids'[e] \cap scaled'[e].hosts = {}
                                               /\ caller'[e] = "unneeded"
  BY DEF CandidatesUnlisted
<1>1. (\A i \in Inst : Effects(i)) /\ (\A i : Passed(e, i))
  BY StepEffects, PassedStep
<1>2. ids'[e] \subseteq Inst /\ scaled'[e].explicit \subseteq Inst
  BY DEF TypeOK, ExecType
<1>3. \A i \in ids'[e] : ec2'[i] # "none"
  BY <1>1, <1>2 DEF Effects, Passed, ManagedInv, CandidatesUnlisted, LiftedAreDisposable
<1>4. \A i \in scaled'[e].explicit : weka'[i] = "removed"
  BY <1>1, <1>2 DEF Effects, Passed, ManagedInv, CandidatesUnlisted
<1>5. ASSUME pc'[e] = "Candidates"
      PROVE  ids'[e] \cap scaled'[e].hosts = {} /\ caller'[e] = "unneeded"
  <2>1. ASSUME NEW i
        PROVE  (i \in ids'[e] => i \notin scaled'[e].hosts) /\ caller'[e] = "unneeded"
    BY <1>1, <1>5 DEF Passed, ManagedInv, CandidatesUnlisted
  <2>2. caller'[e] = "unneeded"
    BY <2>1
  <2>3. QED BY <1>2, <2>1, <2>2
<1>6. QED BY <1>3, <1>4, <1>5
-----------------------------------------------------------------------------
\* The invariant behind managed scale-in, for every number of executions.
THEOREM ManagedCorrect == Spec => []ManagedInv
<1>1. TypeOK /\ TypeOK' /\ ManagedInv /\ [Next]_vars => ManagedInv'
  BY LiftedStep, ChosenStep, UnlistedStep, CandidatesStep DEF ManagedInv
<1>2. QED BY <1>1, InitManaged, TypeCorrect, PTL DEF Spec

\* Overlapping executions that act on stale lists never lift a protection of an
\* instance that serves Weka.
THEOREM ServingProtected == Spec => []ServingAreProtected
<1>1. ManagedInv => ServingAreProtected
  BY DEF ManagedInv, LiftedAreDisposable, ServingAreProtected, Serving, Disposable, Member
<1>2. QED BY <1>1, ManagedCorrect, PTL

\* No step terminates a serving instance or takes it out of the group.
THEOREM ServingNotLost == Spec => NoServingLost
<1>1. ASSUME TypeOK, ManagedInv, [Next]_vars, NEW i \in Inst, Serving(i)
      PROVE  /\ ec2'[i] # "shutting-down"
             /\ lifecycle[i] # "none" => lifecycle'[i] # "none"
  <2>1. Effects(i)
    BY <1>1, StepEffects
  <2>2. ~Disposable(i)
    BY <1>1 DEF Serving, Member, Disposable
  <2>3. \A e \in Exec : i \notin batch[e] \cup detach[e]
    BY <1>1, <2>2 DEF ManagedInv, ChosenAreDisposable
  <2>4. lifecycle[i] # "none" => protected[i]
    BY <1>1, <2>2 DEF ManagedInv, LiftedAreDisposable
  <2>5. QED BY <1>1, <2>1, <2>3, <2>4 DEF Effects, Serving
<1>2. TypeOK /\ ManagedInv /\ [Next]_vars =>
        [\A i \in Inst : Serving(i) => /\ ec2'[i] # "shutting-down"
                                       /\ lifecycle[i] # "none" => lifecycle'[i] # "none"]_vars
  BY <1>1
<1>3. QED BY <1>2, TypeCorrect, ManagedCorrect, PTL DEF Spec, NoServingLost
-----------------------------------------------------------------------------
(***************************************************************************)
(* What an execution does not keep to itself.  An error in the removal of  *)
(* hosts is in the response at once; one in the termination of unneeded    *)
(* instances as soon as terminateAsgInstances returns, until when it is    *)
(* among those that were collected.                                        *)
(***************************************************************************)
Collected(e) == pc[e] \in TerminateAsg /\ caller[e] = "unneeded" /\ errs[e]

ErrorsKept(e) ==
    /\ pc[e] \in {"HostGroupInfo", "Scale", "Failed"} => failures[e] = {}
    /\ pc[e] \in Working /\ "scale" \in failures[e] => reported[e]
    /\ pc[e] \in Working /\ "unneeded" \in failures[e] => reported[e] \/ Collected(e)
    /\ pc[e] = "Success" => failures[e] \subseteq {"unhealthy"}

ErrorsInv == \A e \in Exec : ErrorsKept(e)

\* A step of execution f.
StepOf(f) ==
    \/ StartExecution(f) \/ Crash(f) \/ HostGroupInfo(f) \/ Delta(f) \/ ErrorCheck(f) \/ Transient(f)
    \/ \E go, out \in SUBSET Inst : Scale(f, go, out)
    \/ \E blind, some \in SUBSET Inst : Terminate(f, blind, some)
    \/ \E fails \in SUBSET Inst : SetDisable(f, fails)
    \/ \E some \in SUBSET Inst : Candidates(f, some)
    \/ \E ok \in BOOLEAN : Unprotect(f, ok) \/ TerminateInstances(f, ok) \/ Detach(f, ok)

\* What execution e knows of its errors, for the steps of others.
Errors(e) == <<pc[e], failures[e], reported[e], caller[e], errs[e]>>

LEMMA OthersErrors ==
    ASSUME NEW e, ErrorsKept(e), Errors(e)' = Errors(e)
    PROVE  ErrorsKept(e)'
  BY DEF ErrorsKept, Errors, Collected

LEMMA RestartErrors ==
    ASSUME TypeOK, NEW e \in Exec, NEW to \in {"HostGroupInfo", "Failed"}, Restart(e, to)
    PROVE  ErrorsKept(e)'
  BY DEF TypeOK, ExecType, Restart, Reset, Goto, ErrorsKept

LEMMA ErrorsStep ==
    ASSUME TypeOK, ErrorsInv, [Next]_vars, NEW e \in Exec
    PROVE  ErrorsKept(e)'
<1>1. ErrorsKept(e)
  BY DEF ErrorsInv
<1>2. /\ pc \in [Exec -> Working \cup Ended] /\ failures \in [Exec -> SUBSET {"scale", "unhealthy", "unneeded"}]
      /\ reported \in [Exec -> BOOLEAN] /\ errs \in [Exec -> BOOLEAN]
      /\ caller \in [Exec -> {"unhealthy", "unneeded"}]
  BY DEF TypeOK, ExecType
<1>3. CASE StartExecution(e) \/ Crash(e)
  BY <1>3, RestartErrors DEF StartExecution, Crash
<1>4. CASE HostGroupInfo(e)
  BY <1>1, <1>2, <1>4, RestartErrors DEF HostGroupInfo, Goto, ErrorsKept, locals
<1>5. CASE Delta(e)
  BY <1>1, <1>2, <1>5, RestartErrors DEF Delta, Goto, ErrorsKept, Collected, Working, TerminateAsg
<1>6. CASE ErrorCheck(e)
  <2>1. CASE reported[e]
    <3>1. pc'[e] = "Transient" /\ failures'[e] = failures[e] /\ reported'[e] = reported[e]
      BY <1>2, <1>6, <2>1 DEF ErrorCheck, Reset, Goto
    <3>2. QED BY <2>1, <3>1 DEF ErrorsKept
  <2>2. CASE ~reported[e]
    <3>1. pc'[e] = "Success" /\ failures'[e] = failures[e] /\ pc[e] = "ErrorCheck"
      BY <1>2, <1>6, <2>2 DEF ErrorCheck, Reset, Goto
    <3>2. QED BY <1>1, <1>2, <2>2, <3>1 DEF ErrorsKept, Collected, Working, TerminateAsg
  <2>3. QED BY <2>1, <2>2
<1>7. CASE Transient(e)
  <2>1. CASE reported[e]
    BY <1>7, <2>1, RestartErrors DEF Transient
  <2>2. CASE ~reported[e]
    <3>1. pc'[e] = "Success" /\ failures'[e] = failures[e] /\ pc[e] = "Transient"
      BY <1>2, <1>7, <2>2 DEF Transient, Reset, Goto
    <3>2. QED BY <1>1, <1>2, <2>2, <3>1 DEF ErrorsKept, Collected, Working, TerminateAsg
  <2>3. QED BY <2>1, <2>2
<1>8. ASSUME NEW go \in SUBSET Inst, NEW out \in SUBSET Inst, Scale(e, go, out)
      PROVE  ErrorsKept(e)'
  <2> DEFINE failed == out # {i \in Inst : weka[i] = "inactive"}
  <2>1. /\ pc[e] = "Scale" /\ pc'[e] = "Terminate" /\ reported'[e] = failed
        /\ failures'[e] = IF failed THEN failures[e] \cup {"scale"} ELSE failures[e]
    BY <1>2, <1>8 DEF Scale, Note, Goto
  <2>2. failures[e] = {}
    BY <1>1, <2>1 DEF ErrorsKept
  <2> HIDE DEF failed
  <2>3. QED BY <2>1, <2>2 DEF ErrorsKept
<1>9. ASSUME NEW blind \in SUBSET Inst, NEW some \in SUBSET Inst, Terminate(e, blind, some)
      PROVE  ErrorsKept(e)'
  <2>1. /\ pc[e] = "Terminate" /\ pc'[e] \in {"Delta", "Detach", "SetDisable"}
        /\ failures'[e] \subseteq failures[e] \cup {"unhealthy"} /\ reported'[e] = reported[e]
    BY <1>2, <1>9 DEF Terminate, AfterUnhealthy, Note, Goto
  <2>2. QED BY <1>1, <2>1 DEF ErrorsKept, Collected, Working, TerminateAsg
<1>10. ASSUME NEW fails \in SUBSET Inst, SetDisable(e, fails)
       PROVE  ErrorsKept(e)'
  <2>1. /\ pc[e] = "SetDisable" /\ pc'[e] = "Unprotect"
        /\ reported'[e] = reported[e] /\ caller'[e] = caller[e]
        /\ failures'[e] = IF fails # {} THEN failures[e] \cup {caller[e]} ELSE failures[e]
        /\ errs[e] \/ fails # {} => errs'[e]
    BY <1>2, <1>10 DEF SetDisable, Note, Goto
  <2>2. CASE fails = {}
    BY <1>1, <2>1, <2>2 DEF ErrorsKept, Collected, Working, TerminateAsg
  <2>3. CASE fails # {} /\ caller[e] = "unneeded"
    BY <1>1, <2>1, <2>3 DEF ErrorsKept, Collected, Working, TerminateAsg
  <2>4. CASE fails # {} /\ caller[e] = "unhealthy"
    BY <1>1, <2>1, <2>4 DEF ErrorsKept, Collected, Working, TerminateAsg
  <2>5. QED BY <1>2, <2>2, <2>3, <2>4
<1>11. ASSUME NEW some \in SUBSET Inst, Candidates(e, some)
       PROVE  ErrorsKept(e)'
  <2>1. CASE Restart(e, "Failed")
    BY <2>1, RestartErrors
  <2>2. CASE ~Restart(e, "Failed")
    <3>1. /\ pc[e] = "Candidates" /\ pc'[e] \in {"ErrorCheck", "SetDisable"}
          /\ failures'[e] = failures[e] /\ reported'[e] = reported[e]
      BY <1>2, <1>11, <2>2 DEF Candidates, Goto
    <3>2. QED BY <1>1, <3>1 DEF ErrorsKept, Collected, Working, TerminateAsg
  <2>3. QED BY <2>1, <2>2
<1>12. ASSUME NEW ok \in BOOLEAN, Unprotect(e, ok)
       PROVE  ErrorsKept(e)'
  <2>1. /\ pc[e] = "Unprotect" /\ pc'[e] = "TerminateInstances"
        /\ reported'[e] = reported[e] /\ caller'[e] = caller[e]
        /\ failures'[e] = IF ~ok THEN failures[e] \cup {caller[e]} ELSE failures[e]
        /\ errs[e] \/ ~ok => errs'[e]
    BY <1>2, <1>12 DEF Unprotect, Note, Goto
  <2>2. CASE ok
    BY <1>1, <2>1, <2>2 DEF ErrorsKept, Collected, Working, TerminateAsg
  <2>3. CASE ~ok /\ caller[e] = "unneeded"
    BY <1>1, <2>1, <2>3 DEF ErrorsKept, Collected, Working, TerminateAsg
  <2>4. CASE ~ok /\ caller[e] = "unhealthy"
    BY <1>1, <2>1, <2>4 DEF ErrorsKept, Collected, Working, TerminateAsg
  <2>5. QED BY <1>2, <2>2, <2>3, <2>4
<1>13. ASSUME NEW ok \in BOOLEAN, TerminateInstances(e, ok)
       PROVE  ErrorsKept(e)'
  <2>1. /\ pc[e] = "TerminateInstances" /\ pc'[e] \in {"ErrorCheck", "Delta", "Detach"}
        /\ failures'[e] = IF ~ok THEN failures[e] \cup {caller[e]} ELSE failures[e]
    BY <1>2, <1>13 DEF TerminateInstances, AfterUnhealthy, Note, Goto
  <2>2. CASE caller[e] = "unneeded"
    <3>1. reported'[e] = (reported[e] \/ errs[e] \/ ~ok)
      BY <1>2, <1>13, <2>2 DEF TerminateInstances
    <3>2. QED BY <1>1, <1>2, <2>1, <2>2, <3>1 DEF ErrorsKept, Collected, Working, TerminateAsg
  <2>3. CASE caller[e] = "unhealthy"
    <3>1. reported'[e] = reported[e]
      BY <1>2, <1>13, <2>3 DEF TerminateInstances
    <3>2. QED BY <1>1, <1>2, <2>1, <2>3, <3>1 DEF ErrorsKept, Collected, Working, TerminateAsg
  <2>4. QED BY <1>2, <2>2, <2>3
<1>14. ASSUME NEW ok \in BOOLEAN, Detach(e, ok)
       PROVE  ErrorsKept(e)'
  <2>1. /\ pc[e] = "Detach" /\ pc'[e] = "Delta"
        /\ failures'[e] \subseteq failures[e] \cup {"unhealthy"}
        /\ reported[e] => reported'[e]
    BY <1>2, <1>14 DEF Detach, Note, Goto
  <2>2. QED BY <1>1, <2>1 DEF ErrorsKept, Collected, Working, TerminateAsg
<1>15. ASSUME NEW f \in Exec, f # e, StepOf(f)
       PROVE  ErrorsKept(e)'
  <2>1. CASE StartExecution(f) \/ Crash(f) \/ HostGroupInfo(f) \/ Delta(f) \/ ErrorCheck(f) \/ Transient(f)
    <3>1. Errors(e)' = Errors(e)
      BY <1>2, <1>15, <2>1 DEF StartExecution, Crash, HostGroupInfo, Delta, ErrorCheck, Transient,
             Restart, Reset, Goto, Errors, locals, response
    <3>2. QED BY <1>1, <3>1, OthersErrors
  <2>2. ASSUME NEW go \in SUBSET Inst, NEW out \in SUBSET Inst, Scale(f, go, out)
        PROVE  Errors(e)' = Errors(e)
    BY <1>2, <1>15, <2>2 DEF Scale, Note, Goto, Errors, locals
  <2>3. ASSUME NEW blind \in SUBSET Inst, NEW some \in SUBSET Inst, Terminate(f, blind, some)
        PROVE  Errors(e)' = Errors(e)
    BY <1>2, <1>15, <2>3 DEF Terminate, Note, Goto, Errors
  <2>4. ASSUME NEW fails \in SUBSET Inst, SetDisable(f, fails)
        PROVE  Errors(e)' = Errors(e)
    BY <1>2, <1>15, <2>4 DEF SetDisable, Note, Goto, Errors
  <2>5. ASSUME NEW some \in SUBSET Inst, Candidates(f, some)
        PROVE  Errors(e)' = Errors(e)
    BY <1>2, <1>15, <2>5 DEF Candidates, Restart, Reset, Goto, Errors
  <2>6. ASSUME NEW ok \in BOOLEAN, Unprotect(f, ok)
        PROVE  Errors(e)' = Errors(e)
    BY <1>2, <1>15, <2>6 DEF Unprotect, Note, Goto, Errors
  <2>7. ASSUME NEW ok \in BOOLEAN, TerminateInstances(f, ok)
        PROVE  Errors(e)' = Errors(e)
    BY <1>2, <1>15, <2>7 DEF TerminateInstances, Note, Goto, Errors
  <2>8. ASSUME NEW ok \in BOOLEAN, Detach(f, ok)
        PROVE  Errors(e)' = Errors(e)
    BY <1>2, <1>15, <2>8 DEF Detach, Note, Goto, Errors
  <2>9. QED BY <1>1, <1>15, <2>1, <2>2, <2>3, <2>4, <2>5, <2>6, <2>7, <2>8, OthersErrors DEF StepOf
<1>16. CASE UNCHANGED vars \/ (\E i \in Inst : Fleet(i)) \/ (\E d \in Capacities : Resize(d)) \/ Tick
  <2>1. UNCHANGED <<pc, failures, reported, caller, errs>>
    BY <1>16 DEF vars, Fleet, Launch, Join, Deactivated, ScaleIn, Reaped, MarkUnhealthy, Impair, Stop,
           Terminated, Resize, Tick, execution, locals
  <2>2. QED BY <1>1, <2>1, OthersErrors DEF Errors
<1>17. ASSUME NEW f \in Exec, StepOf(f)
       PROVE  ErrorsKept(e)'
  <2>1. CASE f # e
    BY <1>15, <1>17, <2>1
  <2>2. CASE f = e
    BY <1>3, <1>4, <1>5, <1>6, <1>7, <1>8, <1>9, <1>10, <1>11, <1>12, <1>13, <1>14, <1>17, <2>2
    DEF StepOf
  <2>3. QED BY <2>1, <2>2
<1>18. QED BY <1>16, <1>17, NextCases DEF StepOf

\* No error in the removal of hosts or the termination of unneeded instances is
\* lost on its way to the transient lambda.
THEOREM ErrorsCorrect == Spec => []ErrorsInv
<1>1. Init => ErrorsInv
  BY DEF Init, ErrorsInv, ErrorsKept, Working, TerminateAsg
<1>2. TypeOK /\ ErrorsInv /\ [Next]_vars => ErrorsInv'
  BY ErrorsStep DEF ErrorsInv
<1>3. QED BY <1>1, <1>2, TypeCorrect, PTL DEF Spec

\* ScaleInErrorsShown: the Choice state lets an execution succeed only if no
\* call failed in the removal of hosts or the termination of unneeded instances.
THEOREM ScaleInErrorsCorrect == Spec => []ScaleInErrorsShown
<1>1. ErrorsInv => ScaleInErrorsShown
  BY DEF ErrorsInv, ErrorsKept, ScaleInErrorsShown
<1>2. QED BY <1>1, ErrorsCorrect, PTL
-----------------------------------------------------------------------------
(***************************************************************************)
(* Proof that ScaleMachine implements ManagedScaleIn.                      *)
(***************************************************************************)
\* An instance id not yet in use has no age and no host.
UnusedAreFresh == \A i \in Inst : ec2[i] = "none" => age[i] = 0 /\ weka[i] = "none"

LEMMA FreshCorrect == Spec => []UnusedAreFresh
<1>1. Init => UnusedAreFresh
  BY DEF Init, UnusedAreFresh
<1>2. TypeOK /\ UnusedAreFresh /\ [Next]_vars => UnusedAreFresh'
  BY StepEffects DEF Effects, UnusedAreFresh
<1>3. QED BY <1>1, <1>2, TypeCorrect, PTL DEF Spec

\* The phase is that of the instance state, the host and the age.
LEMMA SamePhase ==
    ASSUME NEW i, ec2'[i] = ec2[i], weka'[i] = weka[i],
           age'[i] = age[i] \/ weka[i] # "none" \/ ec2[i] # "running"
    PROVE  PhaseOf(i)' = PhaseOf(i)
  BY DEF PhaseOf

LEMMA RunningPhase ==
    ASSUME TypeOK, NEW i \in Inst
    PROVE  /\ PhaseOf(i) = "serving" <=> ec2[i] = "running" /\ weka[i] = "up"
           /\ PhaseOf(i) = "draining" <=>
                ec2[i] = "running" /\ weka[i] \in {"deactivating", "inactive"}
           /\ PhaseOf(i) = "removed" <=> ec2[i] = "running" /\ weka[i] = "removed"
           /\ PhaseOf(i) = "gone" <=> ec2[i] \in {"shutting-down", "terminated"}
           /\ PhaseOf(i) = "broken" <=> ec2[i] = "stopped"
           /\ PhaseOf(i) = "unused" <=> ec2[i] = "none"
           /\ PhaseOf(i) = "late" <=>
                ec2[i] = "running" /\ weka[i] = "none" /\ ~(age[i] < JoinBy)
           /\ PhaseOf(i) = "joining" <=>
                ec2[i] = "running" /\ weka[i] = "none" /\ age[i] < JoinBy
  BY DEF TypeOK, FleetType, Ec2State, WekaState, PhaseOf

\* A chosen or unprotected instance is in a phase that may be retired.
LEMMA DisposablePhase ==
    ASSUME TypeOK, NEW i \in Inst, Disposable(i), ec2[i] # "none"
    PROVE  PhaseOf(i) \in {"late", "removed", "broken", "gone"}
<1>1. age[i] \in Nat /\ JoinBy \in Nat /\ ec2[i] \in Ec2State
  BY TimeAssumption DEF TypeOK, FleetType
<1>2. CASE ec2[i] \notin {"none", "running"}
  BY <1>1, <1>2 DEF PhaseOf, Ec2State
<1>3. CASE ec2[i] = "running" /\ weka[i] = "removed"
  BY <1>3 DEF PhaseOf
<1>4. CASE ec2[i] = "running" /\ weka[i] = "none" /\ age[i] >= JoinBy
  BY <1>1, <1>4 DEF PhaseOf
<1>5. QED BY <1>2, <1>3, <1>4 DEF Disposable

AbstractStep == [Managed!Next]_<<Phases, Group>>

LEMMA StutterStep ==
    ASSUME UNCHANGED <<ec2, weka, age, lifecycle>>
    PROVE  AbstractStep
<1>1. Phases' = Phases
  BY DEF Phases, PhaseOf
<1>2. Group' = Group
  BY DEF Group
<1>3. QED BY <1>1, <1>2 DEF AbstractStep

LEMMA RetireStep ==
    ASSUME TypeOK, TypeOK', NEW S \in SUBSET Inst,
           UNCHANGED <<weka, age, lifecycle>>,
           \A i \in S : Disposable(i) /\ ec2[i] # "none",
           \A i \in Inst : IF i \in S /\ ec2[i] # "terminated" THEN ec2'[i] = "shutting-down"
                                                         ELSE ec2'[i] = ec2[i]
    PROVE  AbstractStep
<1> DEFINE T == {i \in S : PhaseOf(i) # "gone"}
<1>1. Group' = Group
  BY DEF Group
<1>2. \A i \in T : Phases[i] \in {"late", "removed", "broken"}
  BY DisposablePhase DEF Phases
<1>3. ASSUME NEW i \in Inst
      PROVE  Phases'[i] = IF i \in T THEN "gone" ELSE Phases[i]
  <2>1. Phases'[i] = PhaseOf(i)' /\ Phases[i] = PhaseOf(i)
    BY DEF Phases
  <2>2. CASE i \in S /\ ec2[i] # "terminated"
    <3>1. PhaseOf(i)' = "gone"
      BY <2>2 DEF PhaseOf
    <3>2. QED BY <2>1, <2>2, <3>1
  <2>3. CASE ~(i \in S /\ ec2[i] # "terminated")
    <3>1. PhaseOf(i)' = PhaseOf(i)
      BY <2>3, SamePhase
    <3>2. i \notin T
      BY <2>3, RunningPhase
    <3>3. QED BY <2>1, <3>1, <3>2
  <2>4. QED BY <2>2, <2>3
<1>4. Phases' = [i \in Inst |-> IF i \in T THEN "gone" ELSE Phases[i]]
  BY <1>3 DEF Phases
<1>5. Managed!Retire(T)
  BY <1>1, <1>2, <1>4 DEF Managed!Retire, Managed!Move, Managed!Retirable
<1>6. QED BY <1>5 DEF AbstractStep, Managed!Next

LEMMA LeaveStep ==
    ASSUME TypeOK, TypeOK', NEW S \in SUBSET Group,
           UNCHANGED <<weka, age>>,
           \A i \in Inst : /\ PhaseOf(i)' = PhaseOf(i)
                           /\ lifecycle'[i] = IF i \in S THEN "none" ELSE lifecycle[i],
           \A i \in S : PhaseOf(i) \in {"late", "removed", "broken", "gone"}
    PROVE  AbstractStep
<1>1. Phases' = Phases
  BY DEF Phases
<1>2. Group' = Group \ S
  BY DEF Group
<1>3. Managed!Leave(S)
  BY <1>1, <1>2 DEF Managed!Leave, Managed!Retirable, Phases, Group
<1>4. QED BY <1>3 DEF AbstractStep, Managed!Next, Group

\* A step that moves the phase of one instance at most, and not the group.
LEMMA MoveStep ==
    ASSUME NEW i \in Inst, UNCHANGED lifecycle,
           \A j \in Inst \ {i} : PhaseOf(j)' = PhaseOf(j)
    PROVE  /\ Group' = Group
           /\ \A to : PhaseOf(i)' = to =>
                Phases' = [j \in Inst |-> IF j \in {i} THEN to ELSE Phases[j]]
<1>1. Group' = Group
  BY DEF Group
<1>2. ASSUME NEW to, PhaseOf(i)' = to
      PROVE  Phases' = [j \in Inst |-> IF j \in {i} THEN to ELSE Phases[j]]
  <2>1. \A j \in Inst : PhaseOf(j)' = IF j \in {i} THEN to ELSE Phases[j]
    BY <1>2 DEF Phases
  <2>2. QED BY <2>1 DEF Phases
<1>3. QED BY <1>1, <1>2

\* Hosts that start to deactivate, and hosts that are removed, together.
LEMMA ScaleStep ==
    ASSUME TypeOK, TypeOK', NEW e \in Exec, NEW go \in SUBSET Inst, NEW out \in SUBSET Inst,
           Scale(e, go, out)
    PROVE  AbstractStep
<1> DEFINE S == {i \in go : ec2[i] = "running"}
           R == {i \in out : ec2[i] = "running"}
<1>1. UNCHANGED <<ec2, age, lifecycle>>
  BY DEF Scale
<1>2. /\ \A i \in go : weka[i] = "up"
      /\ \A i \in out : weka[i] = "inactive"
      /\ \A i \in Inst : weka'[i] = IF i \in go THEN "deactivating"
                                    ELSE IF i \in out THEN "removed" ELSE weka[i]
  BY DEF Scale
<1>3. ASSUME NEW i \in Inst
      PROVE  PhaseOf(i)' = IF i \in S THEN "draining" ELSE IF i \in R THEN "removed" ELSE PhaseOf(i)
  <2>1. CASE i \in S
    BY <1>1, <1>2, <2>1 DEF PhaseOf
  <2>2. CASE i \in R
    BY <1>1, <1>2, <2>2 DEF PhaseOf
  <2>3. CASE i \notin S /\ i \notin R
    <3>1. CASE ec2[i] = "running"
      BY <1>1, <1>2, <2>3, <3>1, SamePhase
    <3>2. CASE ec2[i] # "running"
      BY <1>1, <2>3, <3>2 DEF PhaseOf, TypeOK, FleetType, Ec2State
    <3>3. QED BY <3>1, <3>2
  <2>4. ~(i \in S /\ i \in R)
    BY <1>2
  <2>5. QED BY <2>1, <2>2, <2>3, <2>4
<1>4. Phases' = [i \in Inst |-> IF i \in S THEN "draining"
                               ELSE IF i \in R THEN "removed" ELSE Phases[i]]
  BY <1>3 DEF Phases
<1>5. (\A i \in S : Phases[i] = "serving") /\ (\A i \in R : Phases[i] = "draining")
  BY <1>2, RunningPhase DEF Phases
<1>6. Group' = Group
  BY <1>1 DEF Group
<1>7. Managed!Drain(S, R)
  BY <1>4, <1>5, <1>6 DEF Managed!Drain
<1>8. S \in SUBSET Inst /\ R \in SUBSET Inst
  OBVIOUS
<1>9. QED BY <1>7, <1>8 DEF AbstractStep, Managed!Next

\* Instances whose time to join is over, as time passes.
LEMMA ExpireStep ==
    ASSUME TypeOK, TypeOK', Tick
    PROVE  AbstractStep
<1> DEFINE S == {i \in Inst : PhaseOf(i) = "joining" /\ ~(age'[i] < JoinBy)}
<1>1. UNCHANGED <<ec2, weka, lifecycle>>
  BY DEF Tick
<1>2. ASSUME NEW i \in Inst
      PROVE  PhaseOf(i)' = IF i \in S THEN "late" ELSE PhaseOf(i)
  <2>1. age[i] <= age'[i] /\ age[i] \in Nat /\ age'[i] \in Nat /\ JoinBy \in Nat
    BY TimeAssumption DEF Tick, TypeOK, FleetType
  <2>2. CASE ec2[i] = "running" /\ weka[i] = "none"
    BY <1>1, <2>1, <2>2 DEF PhaseOf
  <2>3. CASE ~(ec2[i] = "running" /\ weka[i] = "none")
    <3>1. PhaseOf(i)' = PhaseOf(i)
      BY <1>1, <2>3, SamePhase
    <3>2. i \notin S
      BY <2>3, RunningPhase
    <3>3. QED BY <3>1, <3>2
  <2>4. QED BY <2>2, <2>3
<1>3. Phases' = [i \in Inst |-> IF i \in S THEN "late" ELSE Phases[i]]
  BY <1>2 DEF Phases
<1>4. Group' = Group
  BY <1>1 DEF Group
<1>5. Managed!Expire(S)
  BY <1>3, <1>4 DEF Managed!Expire, Managed!Move, Phases
<1>6. QED BY <1>5 DEF AbstractStep, Managed!Next

LEMMA FleetAbstractStep ==
    ASSUME TypeOK, TypeOK', ManagedInv, UnusedAreFresh, NEW i \in Inst, Fleet(i)
    PROVE  AbstractStep
<1> USE DEF TypeOK, FleetType
<1>1. CASE Launch(i)
  <2>1. /\ ec2[i] = "none" /\ weka[i] = "none" /\ age[i] = 0 /\ JoinBy \in Nat \ {0}
        /\ UNCHANGED <<age, weka>>
    BY <1>1, TimeAssumption DEF Launch, UnusedAreFresh
  <2>2. PhaseOf(i) = "unused" /\ PhaseOf(i)' = "joining"
    BY <1>1, <2>1 DEF PhaseOf, Launch
  <2>3. \A j \in Inst \ {i} : PhaseOf(j)' = PhaseOf(j)
    BY <1>1, <2>1 DEF PhaseOf, Launch
  <2>4. Phases' = [j \in Inst |-> IF j \in {i} THEN "joining" ELSE Phases[j]]
    BY <2>2, <2>3 DEF Phases
  <2>5. Group' = Group \cup {i}
    BY <1>1 DEF Launch, Group
  <2>6. Managed!Launch(i)
    BY <2>2, <2>4, <2>5 DEF Managed!Launch, Managed!Move, Phases
  <2>7. QED BY <2>6 DEF AbstractStep, Managed!Next
<1>2. CASE Join(i)
  <2>1. PhaseOf(i) = "joining" /\ PhaseOf(i)' = "serving"
    BY <1>2 DEF Join, PhaseOf
  <2>2. \A j \in Inst \ {i} : PhaseOf(j)' = PhaseOf(j)
    BY <1>2 DEF Join, PhaseOf
  <2>3. Managed!Join(i)
    BY <1>2, <2>1, <2>2, MoveStep DEF Join, Managed!Join, Managed!Move, Phases
  <2>4. QED BY <2>3 DEF AbstractStep, Managed!Next
<1>3. CASE Deactivated(i)
  <2>1. \A j \in Inst : PhaseOf(j)' = PhaseOf(j)
    BY <1>3 DEF Deactivated, PhaseOf
  <2>2. Phases' = Phases /\ Group' = Group
    BY <1>3, <2>1 DEF Phases, Group, Deactivated
  <2>3. QED BY <2>2 DEF AbstractStep
<1>4. CASE ScaleIn(i)
  <2>1. lifecycle[i] # "none" /\ ec2[i] # "none" /\ Disposable(i)
    BY <1>4 DEF ScaleIn, ManagedInv, LiftedAreDisposable
  <2>2. UNCHANGED <<weka, age>> /\ Group' = Group
    BY <1>4 DEF ScaleIn, Group
  <2>3. CASE ec2[i] = "terminated"
    <3>1. \A j \in Inst : PhaseOf(j)' = PhaseOf(j)
      BY <1>4, <2>2, <2>3 DEF ScaleIn, PhaseOf
    <3>2. Phases' = Phases
      BY <3>1 DEF Phases
    <3>3. QED BY <2>2, <3>2 DEF AbstractStep
  <2>4. CASE ec2[i] # "terminated"
    <3>1. PhaseOf(i)' = "gone"
      BY <1>4, <2>4 DEF ScaleIn, PhaseOf
    <3>2. \A j \in Inst \ {i} : PhaseOf(j)' = PhaseOf(j)
      BY <1>4, <2>2 DEF ScaleIn, PhaseOf
    <3>3. Phases' = [j \in Inst |-> IF j \in {i} THEN "gone" ELSE Phases[j]]
      BY <3>1, <3>2 DEF Phases
    <3>4. CASE PhaseOf(i) = "gone"
      <4>1. Phases' = Phases
        BY <3>3, <3>4 DEF Phases
      <4>2. QED BY <2>2, <4>1 DEF AbstractStep
    <3>5. CASE PhaseOf(i) # "gone"
      <4>1. PhaseOf(i) \in {"late", "removed", "broken"}
        BY <2>1, <3>5, DisposablePhase
      <4>2. Managed!Retire({i})
        BY <2>2, <3>3, <4>1 DEF Managed!Retire, Managed!Move, Managed!Retirable, Phases
      <4>3. QED BY <4>2 DEF AbstractStep, Managed!Next
    <3>6. QED BY <3>4, <3>5
  <2>5. QED BY <2>3, <2>4
<1>5. CASE Terminated(i) \/ Reaped(i)
  <2>1. /\ ec2[i] \in {"shutting-down", "terminated"} /\ ec2'[i] = "terminated"
        /\ UNCHANGED <<weka, age>>
        /\ \A j \in Inst : j # i => ec2'[j] = ec2[j] /\ lifecycle'[j] = lifecycle[j]
        /\ lifecycle'[i] = IF lifecycle[i] = "Terminating" THEN "none" ELSE lifecycle[i]
    BY <1>5 DEF Terminated, Reaped
  <2>2. \A j \in Inst : PhaseOf(j)' = PhaseOf(j)
    BY <2>1 DEF PhaseOf
  <2>3. PhaseOf(i) = "gone"
    BY <2>1 DEF PhaseOf
  <2>4. CASE lifecycle[i] = "Terminating"
    <3>1. {i} \in SUBSET Group
      BY <2>4 DEF Group
    <3>2. QED BY <2>1, <2>2, <2>3, <2>4, <3>1, LeaveStep
  <2>5. CASE lifecycle[i] # "Terminating"
    <3>1. Phases' = Phases /\ Group' = Group
      BY <2>1, <2>2, <2>5 DEF Phases, Group
    <3>2. QED BY <3>1 DEF AbstractStep
  <2>6. QED BY <2>4, <2>5
<1>6. CASE MarkUnhealthy(i) \/ Impair(i)
  BY <1>6, StutterStep DEF MarkUnhealthy, Impair
<1>7. CASE Stop(i)
  <2>1. ec2[i] = "running" /\ PhaseOf(i)' = "broken"
    BY <1>7 DEF Stop, PhaseOf
  <2>2. \A j \in Inst \ {i} : PhaseOf(j)' = PhaseOf(j)
    BY <1>7 DEF Stop, PhaseOf
  <2>3. PhaseOf(i) \in {"joining", "late", "serving", "draining", "removed"}
    BY <2>1, RunningPhase DEF PhaseOf, WekaState
  <2>4. Managed!Break(i)
    BY <1>7, <2>1, <2>2, <2>3, MoveStep
    DEF Stop, Managed!Break, Managed!Move, Managed!Phase, Phases
  <2>5. QED BY <2>4 DEF AbstractStep, Managed!Next
<1>8. QED
  BY <1>1, <1>2, <1>3, <1>4, <1>5, <1>6, <1>7 DEF Fleet

LEMMA NextAbstractStep ==
    ASSUME TypeOK, TypeOK', ManagedInv, UnusedAreFresh, [Next]_vars
    PROVE  AbstractStep
<1>1. ASSUME NEW e \in Exec,
             \/ StartExecution(e) \/ Crash(e) \/ HostGroupInfo(e) \/ Delta(e)
             \/ ErrorCheck(e) \/ Transient(e)
             \/ \E blind, some \in SUBSET Inst : Terminate(e, blind, some)
             \/ \E some \in SUBSET Inst : Candidates(e, some)
      PROVE  AbstractStep
  BY <1>1, StutterStep DEF StartExecution, Crash, HostGroupInfo, Delta, ErrorCheck, Transient,
                           Terminate, Candidates, fleet
<1>2. ASSUME NEW e \in Exec,
             \/ \E fails \in SUBSET Inst : SetDisable(e, fails)
             \/ \E ok \in BOOLEAN : Unprotect(e, ok)
      PROVE  AbstractStep
  BY <1>2, StutterStep DEF SetDisable, Unprotect
<1>3. ASSUME NEW e \in Exec, NEW ok \in BOOLEAN, TerminateInstances(e, ok)
      PROVE  AbstractStep
  <2> DEFINE S == IF ok THEN batch[e] ELSE {}
  <2>1. UNCHANGED <<weka, age, lifecycle>>
    BY <1>3 DEF TerminateInstances
  <2>2. S \in SUBSET Inst /\ \A i \in S : Disposable(i)
    BY DEF TypeOK, ExecType, ManagedInv, ChosenAreDisposable
  <2>3. \A i \in S : ec2[i] # "none"
    BY <2>2 DEF Disposable, UnusedAreFresh
  <2>4. \A i \in Inst : IF i \in S /\ ec2[i] # "terminated" THEN ec2'[i] = "shutting-down"
                                                         ELSE ec2'[i] = ec2[i]
    BY <1>3 DEF TerminateInstances
  <2> HIDE DEF S
  <2>5. QED
    BY <2>1, <2>2, <2>3, <2>4, RetireStep
<1>4. ASSUME NEW e \in Exec, NEW ok \in BOOLEAN, Detach(e, ok)
      PROVE  AbstractStep
  <2> DEFINE S == IF ok THEN detach[e] ELSE {}
  <2>1. UNCHANGED <<weka, age, ec2>>
    BY <1>4 DEF Detach
  <2>2. S \in SUBSET Group /\ S \in SUBSET Inst /\ \A i \in S : Disposable(i)
    BY <1>4 DEF Detach, TypeOK, ExecType, ManagedInv, ChosenAreDisposable
  <2>3. \A i \in S : ec2[i] # "none"
    BY <2>2 DEF Disposable, UnusedAreFresh
  <2>4. \A i \in S : PhaseOf(i) \in {"late", "removed", "broken", "gone"}
    BY <2>2, <2>3, DisposablePhase
  <2>5. \A i \in Inst : /\ PhaseOf(i)' = PhaseOf(i)
                        /\ lifecycle'[i] = IF i \in S THEN "none" ELSE lifecycle[i]
    BY <1>4, <2>1 DEF Detach, PhaseOf
  <2> HIDE DEF S
  <2>6. QED BY <2>1, <2>2, <2>4, <2>5, LeaveStep
<1>5. CASE (\E d \in Capacities : Resize(d)) \/ UNCHANGED vars
  BY <1>5, StutterStep DEF Resize, vars, fleet
<1>6. QED
  BY <1>1, <1>2, <1>3, <1>4, <1>5, ScaleStep, ExpireStep, FleetAbstractStep, NextCases

\* The scale-in loop implements managed scale-in.
THEOREM Implements == Spec => ManagedSpec
<1>1. Init => Managed!Init
  <2> SUFFICES ASSUME Init PROVE Managed!Init OBVIOUS
  <2>1. \A i \in Inst : PhaseOf(i) = IF i \in Initial THEN "serving" ELSE "unused"
    BY DEF Init, PhaseOf
  <2>2. Group = Initial
    BY InstAssumption DEF Init, Group
  <2>3. QED BY <2>1, <2>2 DEF Managed!Init, Phases
<1>2. QED
  BY <1>1, NextAbstractStep, TypeCorrect, ManagedCorrect, FreshCorrect, PTL
  DEF Spec, ManagedSpec, Managed!Spec, AbstractStep
=============================================================================
