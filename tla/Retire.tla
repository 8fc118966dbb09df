------------------------------- MODULE Retire -------------------------------
(***************************************************************************)
(* The retirement of replicated instances (server/src/main.rs, journal.rs, *)
(* engine-core memory.rs).  A partition's owner leads its Raft group.      *)
(* Creates and completions go through the log and are applied by the owner *)
(* and, later, by a follower; published messages and what is routed from   *)
(* other partitions, and an operator's cancel, suspend and resume, are     *)
(* applied to the owner's engine alone.  So that the follower's copies do  *)
(* not pile up, the owner sends it, over a lane of its own that loses and  *)
(* overtakes, the keys it has retired and a low-water mark.                *)
(*                                                                         *)
(* Both engines mint keys by counting, so they agree only while they apply *)
(* the same minting commands to the same effect.  `id', the log index of   *)
(* the create, tells which instance a key really stands for; it is 0 for   *)
(* an instance that a message started on the owner.                        *)
(***************************************************************************)
EXTENDS Integers, Sequences, FiniteSets, FiniteSetsExt

CONSTANTS
    Setups,          \* see Setup
    MaxRemove,       \* NANOBPMN_RETIRE_MAX_PER_TICK
    MaxTombstones,   \* MAX_TOMBSTONES
    MaxLog,          \* bound: log entries
    MaxLocal,        \* bound: commands applied to the owner alone
    MaxFrames        \* bound: frames under way

Setup == [ends : SUBSET {"cancel", "complete"},    \* how instances end
          suspends : BOOLEAN,                      \* do operators suspend instances?
          publishes : BOOLEAN,                     \* are messages published?
          overtakes : BOOLEAN]                     \* may a frame overtake the log?

ASSUME RetireAssumption ==
    /\ Setups \subseteq Setup
    /\ {MaxRemove, MaxFrames} \subseteq Nat \ {0}
    /\ {MaxTombstones, MaxLog, MaxLocal} \subseteq Nat

VARIABLES
    setup,
    log,              \* committed commands of the partition
    owner,            \* the owner's engine, see Engine
    buffer,           \* pending_retirements
    frames,           \* digests and marks under way
    follower,         \* the follower's engine
    tombs,            \* its retired_tombstones
    locals,           \* commands applied to the owner alone
    known,            \* history: <<key, id>> of what the follower was given
    paused            \* history: keys that were ever suspended

vars == <<setup, log, owner, buffer, frames, follower, tombs, locals, known, paused>>

Create      == [op |-> "create", key |-> 0]
Complete(k) == [op |-> "complete", key |-> k]
MaxKey      == MaxLog + 2 * MaxLocal
Keys        == 1 .. MaxKey

\* An engine: instances by key, next_local, and the log index it has applied.  An instance
\* whose last token has left while it was suspended is drained.
Inst   == [id : 0 .. MaxLog, state : {"active", "suspended", "drained", "ended"}]
Empty  == [inst |-> [k \in {} |-> {}], next |-> 0, applied |-> 0]
Held(engine) == DOMAIN engine.inst
Live(engine) == {k \in Held(engine) : engine.inst[k].state # "ended"}
Runs(engine) == {k \in Held(engine) : engine.inst[k].state \in {"active", "suspended"}}
Without(engine, S) == [engine EXCEPT !.inst = [k \in DOMAIN @ \ S |-> @[k]]]

Init ==
    /\ setup \in Setups /\ log = <<>> /\ owner = Empty /\ buffer = {}
    /\ frames = {} /\ follower = Empty /\ tombs = {} /\ locals = 0
    /\ known = {} /\ paused = {}

-----------------------------------------------------------------------------
(* Commands. *)

\* create_rest_via_raft and propose_partition_command: the owner proposes.
Propose(command) ==
    /\ Len(log) < MaxLog
    /\ log' = Append(log, command)
    /\ UNCHANGED <<setup, owner, buffer, frames, follower, tombs, locals, known, paused>>

ProposeCreate == Propose(Create)
ProposeComplete(k) ==
    /\ "complete" \in setup.ends /\ k \in Runs(owner)
    /\ Propose(Complete(k))

\* The engine with an instance under a new key.
Started(engine, k, i) ==
    [inst |-> [x \in DOMAIN engine.inst \cup {k} |->
                 IF x = k THEN [id |-> i, state |-> "active"] ELSE engine.inst[x]],
     next |-> k, applied |-> engine.applied]

\* The next log entry on an engine.  A create mints the instance's key, a completion those of
\* the elements it goes on to; a completion of what does not run on the engine is rejected, and
\* mints nothing.
Applied(engine) ==
    LET i == engine.applied + 1
        c == log[i]
        k == engine.next + 1
        to == IF engine.inst[c.key].state = "active" THEN "ended" ELSE "drained"
        e == [engine EXCEPT !.applied = i]
    IN IF c.op = "create" THEN Started(e, k, i)
       ELSE IF c.key \in Runs(engine) THEN [e EXCEPT !.inst[c.key].state = to, !.next = k]
       ELSE e

OwnerApply ==
    /\ owner.applied < Len(log)
    /\ owner' = Applied(owner)
    /\ UNCHANGED <<setup, log, buffer, frames, follower, tombs, locals, known, paused>>

\* Commands of the owner alone: they are applied to its engine and not proposed.
Local ==
    /\ locals < MaxLocal /\ locals' = locals + 1
    /\ UNCHANGED <<setup, log, buffer, frames, follower, tombs, known>>

\* cancel_instance_local: only an active instance is cancelled.
\* (One with canceling listeners mints their keys and waits for them, no longer active: what
\* Publish followed by Suspend does.)
Cancel(k) ==
    /\ "cancel" \in setup.ends /\ k \in Held(owner) /\ owner.inst[k].state = "active"
    /\ owner' = [owner EXCEPT !.inst[k].state = "ended"]
    /\ Local /\ paused' = paused

\* suspend_instance_local.
Suspend(k) ==
    /\ setup.suspends /\ k \in Held(owner) /\ owner.inst[k].state = "active"
    /\ owner' = [owner EXCEPT !.inst[k].state = "suspended"]
    /\ Local /\ paused' = paused \cup {k}

\* resume_instance_local: what has drained ends now.
Resume(k) ==
    /\ k \in Held(owner) /\ owner.inst[k].state \in {"suspended", "drained"}
    /\ owner' = [owner EXCEPT !.inst[k].state = IF @ = "drained" THEN "ended" ELSE "active"]
    /\ Local /\ paused' = paused

\* CorrelateMessage and the commands routed from other partitions: each mints, a message its
\* own key first.  It may find nobody waiting, start an instance, or advance one to its end.
Publish ==
    /\ setup.publishes
    /\ \/ owner' = [owner EXCEPT !.next = @ + 1]
       \/ owner' = Started(owner, owner.next + 2, 0)
       \/ \E k \in Held(owner) :
            /\ owner.inst[k].state = "active"
            /\ owner' = [owner EXCEPT !.inst[k].state = "ended", !.next = @ + 2]
    /\ Local /\ paused' = paused

\* The exporter has projected the end of k: it is evicted and noted for the digest.
Export(k) ==
    /\ k \in Held(owner) /\ owner.inst[k].state = "ended"
    /\ owner' = Without(owner, {k}) /\ buffer' = buffer \cup {k}
    /\ UNCHANGED <<setup, log, frames, follower, tombs, locals, known, paused>>

\* Mutants: the mark passes the key the next create will get; it waits for terminal ones.
LowWaterPastNext ==
    LET active == {k \in Held(owner) : owner.inst[k].state = "active"}
    IN IF active = {} THEN owner.next + 2 ELSE Min(active)
LowWaterResident == IF Held(owner) = {} THEN owner.next + 1 ELSE Min(Held(owner))

\* retirement_low_water: the smallest active key, or else the next key to be minted.
LowWater ==
    LET active == {k \in Held(owner) : owner.inst[k].state = "active"}
    IN IF active = {} THEN owner.next + 1 ELSE Min(active)

\* run_retirement_digest, every 500 ms: the buffer, then the mark.
Tick ==
    LET digest == [kind |-> "digest", keys |-> buffer, mark |-> 0, at |-> owner.applied]
        mark   == [kind |-> "mark", keys |-> {}, mark |-> LowWater, at |-> owner.applied]
    IN /\ Cardinality(frames) < MaxFrames
       /\ frames' = frames \cup {mark} \cup (IF buffer = {} THEN {} ELSE {digest})
       /\ buffer' = {}
       /\ UNCHANGED <<setup, log, owner, follower, tombs, locals, known, paused>>

-----------------------------------------------------------------------------
(* The follower. *)

\* apply, with finish_command reaping what was retired before it was created.
FollowerApply ==
    /\ follower.applied < Len(log)
    /\ LET f == Applied(follower)
           created == Held(f) \ Held(follower)
       IN /\ follower' = Without(f, created \cap tombs) /\ tombs' = tombs \ created
          /\ known' = known \cup {<<k, f.applied>> : k \in created}
    /\ UNCHANGED <<setup, log, owner, buffer, frames, locals, paused>>

\* It evicts what ends on it: no exporter will.
FollowerEvict(k) ==
    /\ k \in Held(follower) /\ follower.inst[k].state = "ended"
    /\ follower' = Without(follower, {k})
    /\ UNCHANGED <<setup, log, owner, buffer, frames, tombs, locals, known, paused>>

\* A follower too far behind installs the owner's state; restore_engine_from_snapshot drops
\* the terminal instances and, with the old engine, its tombstones.
Install ==
    /\ follower.applied < owner.applied
    /\ follower' = Without(owner, Held(owner) \ Live(owner)) /\ tombs' = {}
    /\ known' = {<<k, owner.inst[k].id>> : k \in Live(owner)}
    /\ UNCHANGED <<setup, log, owner, buffer, frames, locals, paused>>

Receive(f) ==
    /\ f \in frames /\ (setup.overtakes \/ f.at <= follower.applied)
    /\ frames' = frames \ {f}

\* As many of S as there are, at most n, in no particular order.
UpTo(n, S) == kSubset(Min({n, Cardinality(S)}), S)

Room == MaxTombstones - Cardinality(tombs)

\* apply_retirement_digest: what is there goes, what is not is remembered, up to the cap.
ReceiveDigest(f) ==
    /\ f.kind = "digest" /\ Receive(f)
    /\ follower' = Without(follower, f.keys)
    /\ \E noted \in UpTo(Room, f.keys \ (Held(follower) \cup tombs)) : tombs' = tombs \cup noted
    /\ UNCHANGED <<setup, log, owner, buffer, locals, known, paused>>

\* apply_retirement_watermark and retire_below: at most MaxRemove of those below the mark;
\* if there are any, tombstones below it go as well.
ReceiveMark(f) ==
    /\ f.kind = "mark" /\ Receive(f)
    /\ LET below == {k \in Held(follower) : k < f.mark}
       IN \E victims \in UpTo(MaxRemove, below) :
            /\ follower' = Without(follower, victims)
            /\ tombs' = IF victims = {} THEN tombs ELSE {k \in tombs : k >= f.mark}
    /\ UNCHANGED <<setup, log, owner, buffer, locals, known, paused>>

Lose(f) ==
    /\ f \in frames /\ frames' = frames \ {f}
    /\ UNCHANGED <<setup, log, owner, buffer, follower, tombs, locals, known, paused>>

-----------------------------------------------------------------------------
Next ==
    \/ ProposeCreate \/ OwnerApply \/ Publish \/ Tick \/ FollowerApply \/ Install
    \/ \E k \in Keys : ProposeComplete(k) \/ Export(k) \/ FollowerEvict(k)
    \/ \E k \in Keys : Cancel(k) \/ Suspend(k) \/ Resume(k)
    \/ \E f \in frames : ReceiveDigest(f) \/ ReceiveMark(f) \/ Lose(f)

\* Raft goes on applying on both sides, the exporter and the tick run for as long as their
\* nodes do, no frame is under way for ever, and of the marks, sent again and again, not every
\* one is lost.
Spec ==
    /\ Init /\ [][Next]_vars
    /\ WF_vars(OwnerApply) /\ WF_vars(FollowerApply) /\ WF_vars(Tick)
    /\ WF_vars(\E k \in Keys : FollowerEvict(k))
    /\ WF_vars(\E f \in frames : Lose(f) \/ ReceiveDigest(f))
    /\ SF_vars(\E f \in frames : ReceiveMark(f))

-----------------------------------------------------------------------------
(* Properties. *)

IsEngine(e) ==
    /\ Held(e) \subseteq Keys /\ \A k \in Held(e) : e.inst[k] \in Inst
    /\ e.next \in 0 .. MaxKey /\ e.applied \in 0 .. Len(log)

\* Engines, frames and tombstones have their shapes; the tombstones stay within the cap.
TypeOK ==
    /\ setup \in Setups /\ IsEngine(owner) /\ IsEngine(follower)
    /\ \A i \in DOMAIN log : log[i] \in {Create} \cup {Complete(k) : k \in Keys}
    /\ buffer \subseteq Keys /\ tombs \subseteq Keys /\ Cardinality(tombs) <= MaxTombstones
    /\ \A f \in frames : f.keys \subseteq Keys /\ f.mark \in 0 .. MaxKey + 1

Seen == {log[i] : i \in 1 .. follower.applied}

\* run_retirement_digest is "safe by construction": what the follower was given under the key
\* that the owner knows it by, by a create of the log or in a snapshot, and what runs on the
\* owner, was never suspended there and is not completed for the follower, is on the follower,
\* whatever frames were lost, late or early, whatever was published and however far apart the
\* two engines' keys are for other instances.
KnownIsKept ==
    \A k \in Live(owner) :
        /\ <<k, owner.inst[k].id>> \in known
        /\ k \notin paused /\ Complete(k) \notin Seen
        => k \in Held(follower) /\ follower.inst[k].id = owner.inst[k].id

\* "Every such instance has terminated on the owner, so reaping its replica shell here is safe"
\* (retire_below): an instance that lives on the owner, and whose create but no completion of
\* its key the follower has applied, is on the follower under some key.
FollowerKeepsLive ==
    \A k \in Live(owner) :
        owner.inst[k].id \in 1 .. follower.applied /\ Complete(k) \notin Seen =>
            \E j \in Held(follower) : follower.inst[j].id = owner.inst[k].id

\* The follower never mints more keys than the owner: completions, which mint only where they
\* find their instance, find it on both engines or on neither.
InStep ==
    /\ ~ setup.suspends
    /\ setup.ends = {"cancel"} \/ (setup.ends = {"complete"} /\ ~ setup.overtakes)

\* "A quiescent owner tells its followers to drop their entire replica backlog": once nothing
\* runs on the owner any more, the follower ends up empty although every digest may be lost.
FollowerDrains ==
    InStep /\ <>[](Live(owner) = {}) => <>[](Held(follower) = {})
=============================================================================
