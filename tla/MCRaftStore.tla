----------------------------- MODULE MCRaftStore -----------------------------
(***************************************************************************)
(* RaftStore for TLC.                                                      *)
(***************************************************************************)
EXTENDS RaftStore

\* Every mode, each on a machine that may lose power: strict, strict with the recovery relief,
\* deferred marker and asynchronous.
Stores == {
    [mode |-> "sync", relief |-> FALSE, power |-> TRUE, owned |-> TRUE],
    [mode |-> "sync", relief |-> TRUE, power |-> TRUE, owned |-> FALSE],
    [mode |-> "defer", relief |-> FALSE, power |-> TRUE, owned |-> FALSE],
    [mode |-> "async", relief |-> FALSE, power |-> TRUE, owned |-> TRUE]}
=============================================================================
