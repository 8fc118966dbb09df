-------------------------------- MODULE MCJobs --------------------------------
(***************************************************************************)
(* Instances of Jobs for TLC: one or two process instances, two or three   *)
(* service tasks, two or three jobs of which the second has the higher     *)
(* priority.                                                               *)
(***************************************************************************)
EXTENDS Jobs

CONSTANTS i1, i2, e1, e2, e3

OneInstance == [e \in Elems |-> i1]
TwoInstances == [e \in Elems |-> IF e = e1 THEN i1 ELSE i2]
SecondFirst == [j \in Jobs |-> IF j = 2 THEN 1 ELSE 0]
Extensions == {-1, 1}
Answers == {-1, 1}
===============================================================================
