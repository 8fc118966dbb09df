---------------------------- MODULE MCProcessTree ----------------------------
(***************************************************************************)
(* Process shapes for TLC.                                                 *)
(*                                                                         *)
(*   main:  s1 -> review (user task)                                       *)
(*          s1 -> c1 (calls leaf) -> t1 -> x1, boundary timer b1 -> t3     *)
(*   leaf:  s2 -> t2 -> stop (terminate end)                               *)
(*          s2 -> sign, s2 -> seal (user tasks with canceling listeners)   *)
(*          s2 -> c2 (calls leaf again) -> x2, boundary timer b2           *)
(***************************************************************************)
EXTENDS ProcessTree

ElementKinds ==
    [e \in Elements |->
        CASE e \in {"s1", "s2", "b1", "b2"} -> "pass"
          [] e \in {"t1", "t2", "t3"} -> "task"
          [] e \in {"review", "sign", "seal"} -> "user"
          [] e \in {"c1", "c2"} -> "call"
          [] e = "stop" -> "terminate"
          [] OTHER -> "end"]

Shape ==
    [e \in Elements |->
        CASE e = "s1" -> <<"review", "c1">>
          [] e = "c1" -> <<"t1">>
          [] e = "t1" -> <<"x1">>
          [] e = "b1" -> <<"t3">>
          [] e = "s2" -> <<"t2", "sign", "seal", "c2">>
          [] e = "t2" -> <<"stop">>
          [] e = "c2" -> <<"x2">>
          [] OTHER -> << >>]

\* After its call activity leaf goes on to the task t3.
WorkAfterCall == [Shape EXCEPT !["c2"] = <<"t3">>, !["b1"] = << >>]

\* main: s1 -> b1 -> t3 and s1 -> stop, both without a wait state.
RaceToTerminate == [Shape EXCEPT !["s1"] = <<"b1", "stop">>]

Starts == [p \in Processes |-> IF p = "main" THEN "s1" ELSE "s2"]
Leaf == [e \in Elements |-> "leaf"]
Timers == [e \in Elements |-> CASE e = "c1" -> "b1" [] e = "c2" -> "b2" [] OTHER -> NoElement]

\* The shape is one the theorems about ProcessTree speak of.
Home == [e \in Elements |->
            IF e \in {"s1", "review", "c1", "t1", "x1", "b1", "t3"} THEN "main" ELSE "leaf"]

ASSUME ShapeAssumption == Flows = Shape => TerminateAlone /\ QuietAfterCalls(Home, {"x1", "x2"})
==============================================================================
