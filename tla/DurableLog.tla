----------------------------- MODULE DurableLog -----------------------------
(***************************************************************************)
(* What the journal promises its callers, without files, buffers or        *)
(* threads: every partition has one sequence of events; a caller is told   *)
(* when its event is safe; a failure may cut the sequence, never reorder   *)
(* it or punch a hole into it, and never cut off what was promised.        *)
(*                                                                         *)
(* Two promises are told apart.  An acknowledged event survives the end of *)
(* the process.  A firm event also survives the loss of power.  In sync    *)
(* durability the two are the same.                                        *)
(***************************************************************************)
EXTENDS Sequences, SequencesExt

CONSTANTS Partitions, Events

VARIABLES
    log,      \* the events of each partition, in order
    acked,    \* events whose caller was answered
    firm,     \* those of them that also survive a loss of power
    status    \* "up", "killed", "unpowered" or "refused"

vars == <<log, acked, firm, status>>

Kept == UNION {ToSet(log[p]) : p \in Partitions}

Init ==
    /\ log = [p \in Partitions |-> <<>>]
    /\ acked = {} /\ firm = {}
    /\ status = "up"

\* A command's event takes effect in its partition.
Append1(p, e) ==
    /\ status = "up" /\ e \notin Kept
    /\ log' = [log EXCEPT ![p] = Append(@, e)]
    /\ UNCHANGED <<acked, firm, status>>

\* Callers are answered; what was answered earlier may become firm.
Promise ==
    /\ status = "up"
    /\ acked \subseteq acked' /\ acked' \subseteq Kept
    /\ firm \subseteq firm' /\ firm' \subseteq acked'
    /\ UNCHANGED <<log, status>>

Fail ==
    /\ status = "up"
    /\ status' \in {"killed", "unpowered"}
    /\ UNCHANGED <<log, acked, firm>>

\* What must still be there after the failure.
Promised == IF status = "unpowered" THEN firm ELSE acked

\* Recovery: each partition comes back as a prefix that holds all that was promised.
Return ==
    /\ status \in {"killed", "unpowered"}
    /\ status' = "up"
    /\ \A p \in Partitions : \E n \in 0 .. Len(log[p]) : log'[p] = SubSeq(log[p], 1, n)
    /\ DOMAIN log' = Partitions
    /\ Promised \subseteq Kept'
    /\ acked' = acked \cap Kept' /\ firm' = firm \cap Kept'

\* Recovery refuses to start rather than come back with less.
Refuse ==
    /\ status \in {"killed", "unpowered"}
    /\ status' = "refused"
    /\ UNCHANGED <<log, acked, firm>>

Next ==
    \/ \E p \in Partitions, e \in Events : Append1(p, e)
    \/ Promise \/ Fail \/ Return \/ Refuse

Spec == Init /\ [][Next]_vars
=============================================================================
