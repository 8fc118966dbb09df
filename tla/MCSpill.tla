------------------------------- MODULE MCSpill -------------------------------
(***************************************************************************)
(* Spill for TLC: two instances.                                           *)
(***************************************************************************)
EXTENDS Spill

Setup(cold, shed, snapshots, raft, written) ==
    [cold |-> cold, vars |-> shed, snapshots |-> snapshots, raft |-> raft, writes |-> written]

\* A persistent node as it is deployed, both tiers over each kind of journal; and a replicated
\* partition without cold spill.
Deployed == {
    Setup(TRUE, TRUE, "full", FALSE, TRUE),      \* segmented journal, periodic snapshots
    Setup(TRUE, TRUE, "lean", FALSE, TRUE),      \* lean snapshots and the variable store
    Setup(TRUE, TRUE, "none", FALSE, TRUE),      \* one journal file, replayed in full
    Setup(FALSE, TRUE, "none", TRUE, FALSE)}     \* replicated

\* Cold spill with periodic snapshots, and on a replicated partition.
ColdWithSnapshots == {Setup(TRUE, FALSE, "full", FALSE, FALSE)}
ColdUnderRaft == {Setup(TRUE, FALSE, "none", TRUE, FALSE)}

\* A job beside a user task; an event-based wait for a message or a timer; the call of a child.
WaitsAndCalls == {{"job", "task"}, {"message", "timer"}, {"child"}}

TimerOnly == {{"timer"}}
=============================================================================
