-------------------------- MODULE MCMessageRouting --------------------------
(***************************************************************************)
(* MessageRouting for TLC: two partitions, on two nodes or on one, two     *)
(* instances on partition 1 whose keys hash to partition 0, or one of them *)
(* with its canonical record at home.                                      *)
(***************************************************************************)
EXTENDS MessageRouting

CONSTANTS a, b, x, y

Two == 0 :> 1 @@ 1 :> 2
One == 0 :> 1 @@ 1 :> 1

\* Base: a and b on partition 1, both keys at home on partition 0.
Base == [owner |-> Two, home |-> x :> 0 @@ y :> 0, at |-> a :> 1 @@ b :> 1,
         ck |-> a :> x @@ b :> y, kind |-> a :> "catch" @@ b :> "interrupting",
         again |-> {}, forks |-> {}, starts |-> FALSE, inOrder |-> FALSE, faults |-> {}]

\* One and two nodes, shared keys, each kind of element, each fault.
Sound == {
    [Base EXCEPT !.owner = One, !.again = {b}, !.forks = {a}],
    [Base EXCEPT !.ck[b] = x, !.kind[b] = "nonInterrupting"],
    [Base EXCEPT !.ck[b] = x, !.at[b] = 0, !.again = {b}, !.faults = {"early"}],
    [Base EXCEPT !.ck[b] = x, !.faults = {"loss"}],
    [Base EXCEPT !.owner = One, !.home[x] = 1, !.starts = TRUE,
                 !.faults = {"crash", "suspend"}],
    \* Routing driven to its end after each command, as the tests do.
    [Base EXCEPT !.inOrder = TRUE, !.again = {a, b}, !.ck[b] = x, !.starts = TRUE],
    [Base EXCEPT !.inOrder = TRUE, !.ck[b] = x, !.kind[b] = "nonInterrupting",
                 !.faults = {"loss", "crash", "suspend"}]}

Overtaking == {Base, [Base EXCEPT !.forks = {a}, !.inOrder = TRUE]}
HashedAway == {[Base EXCEPT !.inOrder = TRUE, !.home[x] = 1, !.starts = TRUE, !.at[a] = 0]}
Crashing   == {[Base EXCEPT !.faults = {"crash"}]}
Suspending == {[Base EXCEPT !.faults = {"suspend"}]}
EarlyCrash == {[Base EXCEPT !.faults = {"early", "crash"}]}
=============================================================================
