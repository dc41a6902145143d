--------------------------- MODULE ManagedScaleIn ---------------------------
(***************************************************************************)
(* What the scale-in loop promises, seen from the instances: one that      *)
(* serves Weka is drained, then removed from Weka, and only then retired   *)
(* and let out of the Auto Scaling group.  Apart from those, only an       *)
(* instance that broke or that can no longer join is ever retired.         *)
(*                                                                         *)
(* Nothing is said here of executions, of the lists they pass on or of the *)
(* protections: ScaleMachine implements this with all of them.             *)
(***************************************************************************)
CONSTANTS Inst, Initial

VARIABLES
    phase,   \* how far each instance is in its life
    group    \* the instances in the Auto Scaling group

Phase == {"unused", "joining", "late", "serving", "draining", "removed", "broken", "gone"}

\* Phases in which an instance may be retired, or has been.
Retirable == {"late", "removed", "broken"}

TypeOK == phase \in [Inst -> Phase] /\ group \subseteq Inst

Move(S, from, to) ==
    /\ \A i \in S : phase[i] \in from
    /\ phase' = [i \in Inst |-> IF i \in S THEN to ELSE phase[i]]

Init ==
    /\ phase = [i \in Inst |-> IF i \in Initial THEN "serving" ELSE "unused"]
    /\ group = Initial

\* The group launches an instance.
Launch(i) == Move({i}, {"unused"}, "joining") /\ group' = group \cup {i}

\* It joins Weka, or its time for that is over.
Join(i) == Move({i}, {"joining"}, "serving") /\ UNCHANGED group
Expire(S) == Move(S, {"joining"}, "late") /\ UNCHANGED group

\* The hosts of some instances start leaving Weka, those of others have left.
Drain(S, R) ==
    /\ \A i \in S : phase[i] = "serving"
    /\ \A i \in R : phase[i] = "draining"
    /\ phase' = [i \in Inst |-> IF i \in S THEN "draining"
                                ELSE IF i \in R THEN "removed" ELSE phase[i]]
    /\ UNCHANGED group

\* An instance stops for reasons of its own.
Break(i) == Move({i}, Phase \ {"unused", "broken", "gone"}, "broken") /\ UNCHANGED group

Retire(S) == Move(S, Retirable, "gone") /\ UNCHANGED group

Leave(S) ==
    /\ S \subseteq group
    /\ \A i \in S : phase[i] \in Retirable \cup {"gone"}
    /\ group' = group \ S
    /\ UNCHANGED phase

Next ==
    \/ \E i \in Inst : Launch(i) \/ Join(i) \/ Break(i)
    \/ \E S \in SUBSET Inst : Expire(S) \/ Retire(S) \/ Leave(S)
    \/ \E S, R \in SUBSET Inst : Drain(S, R)

Spec == Init /\ [][Next]_<<phase, group>>
=============================================================================
