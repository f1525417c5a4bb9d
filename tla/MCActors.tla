------------------------------ MODULE MCActors ------------------------------
(* Small instances of Actors for TLC.                                      *)
EXTENDS Actors

CONSTANTS a1, a2, s1, s2, d1, d2, f1, f2, take, plan, t1

OneDriverEach == [d \in {d1, d2} |-> IF d = d1 THEN a1 ELSE a2]
PlanSchedules == [b \in {take, plan, t1} |-> IF b = plan THEN {t1} ELSE {}]
TimerTarget == [t \in {t1} |-> a1]
TimerDue == [t \in {t1} |-> 1]
============================================================================
