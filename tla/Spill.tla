-------------------------------- MODULE Spill --------------------------------
(***************************************************************************)
(* The memory tiers of one partition's engine (journal.rs, coldspill.rs,   *)
(* varspill.rs, varstore.rs; engine-core memory.rs; the ticks of           *)
(* server/src/main.rs).  Under memory pressure the root variables of an    *)
(* instance, or the whole instance, move to disk and must come back before *)
(* anything needs them; periodic checkpoints and restarts run meanwhile.   *)
(*                                                                         *)
(* An instance waits for facets: a job, a task (user task or incident), a  *)
(* message, a timer, a child it called.  Its variables are the set of      *)
(* writes made to them.  `truth' is what the commands should have made of  *)
(* each instance if nothing had ever left memory.  The journal keeps what  *)
(* SegLog says it keeps: here it is one sequence of events.                *)
(*                                                                         *)
(* The code has steps after which the tiers may have lost something.  Each *)
(* is taken like any other, and recorded in the history variable `upsets'. *)
(***************************************************************************)
EXTENDS Integers, Sequences, FiniteSets

CONSTANTS
    Instances,        \* instance keys, in minting order
    WaitSets,         \* what a fresh instance may wait for
    Configs,          \* how the node is set up, see Config
    MaxWrites,        \* bound: variable writes
    MaxLog,           \* bound: events
    MaxCheckpoints,   \* bound: checkpoints
    MaxFaults         \* bound: restarts

Facets == {"job", "task", "message", "timer", "child"}
Config == [cold : BOOLEAN,                         \* cold spill wired
           vars : BOOLEAN,                         \* variable spill wired
           snapshots : {"none", "full", "lean"},   \* none: boot replays the whole log
           raft : BOOLEAN,                         \* ticks go through the leader's log
           writes : BOOLEAN]                       \* are variables written after creation?

ASSUME SpillAssumption ==
    /\ IsFiniteSet(Instances) /\ Instances \subseteq Nat
    /\ WaitSets \subseteq (SUBSET Facets) \ {{}}
    /\ Configs \subseteq Config
    /\ {MaxWrites, MaxLog, MaxCheckpoints, MaxFaults} \subseteq Nat

VARIABLES
    config, status,
    truth,            \* what each live instance should be: [vars, waits]
    hot,              \* State::instances: [vars, waits, spilled, locked]
    shells,           \* terminal instances not yet evicted
    index,            \* ColdIndex: the facets by which each cold instance is found
    dirty, forgotten, \* dirty_vars and forgotten_vars, in lean mode
    pending,          \* a checkpoint under way, or NoSnapshot
    coldRows, spillRows,  \* VarSpillStore: the cold and the spill table
    varRows,          \* VarStore, in lean mode
    log, snap,        \* the journal, and the last snapshot
    born, writes, checkpoints, faults,
    upsets            \* history: see Upsets

memory == <<hot, shells, index, dirty, forgotten, pending>>
tables == <<coldRows, spillRows>>
bounds == <<born, writes, checkpoints, faults>>
vars   == <<config, status, truth, memory, tables, varRows, log, snap, bounds, upsets>>

Upsets == {
    "partial",    \* a restart from a snapshot taken while something was cold or shed
    "cold",       \* a lean checkpoint that left out a cold instance
    "overwrite",  \* a checkpoint put older variables over those shed since it began
    "failed",     \* a checkpoint of the variable store failed
    "child",      \* a called child ended while its caller was cold
    "write"}      \* a command wrote to an instance whose variables were shed
Undisturbed == upsets = {}
Upset(what, happens) == upsets' = IF happens THEN upsets \cup {what} ELSE upsets

None       == [k \in {} |-> {}]
NoSnapshot == [covered |-> 0, insts |-> None, step |-> "none", partial |-> FALSE]
Lean       == config.snapshots = "lean"
Without(f, S) == [k \in DOMAIN f \ S |-> f[k]]
With(f, k, v) == [x \in DOMAIN f \cup {k} |-> IF x = k THEN v ELSE f[x]]
Over(f, g)    == [x \in DOMAIN f \cup DOMAIN g |-> IF x \in DOMAIN f THEN f[x] ELSE g[x]]

\* One event: instance `key' now waits for `waits' (nothing: it ended), and `write'
\* was added to its variables.  state::apply ignores an instance it does not hold.
Event(k, waits, write, new) == [key |-> k, waits |-> waits, write |-> write, new |-> new]
Fresh(e) == [vars |-> e.write, waits |-> e.waits, spilled |-> FALSE, locked |-> FALSE]
Apply(h, e) ==
    IF e.waits = {} THEN Without(h, {e.key})
    ELSE IF e.new THEN With(h, e.key, Fresh(e))
    ELSE IF e.key \in DOMAIN h
    THEN [h EXCEPT ![e.key].vars = @ \cup e.write, ![e.key].waits = e.waits,
                   ![e.key].locked = FALSE]
    ELSE h

\* replay_event for one event after the other.
Replay(h, events) ==
    LET after[n \in 0 .. Len(events)] ==
            IF n = 0 THEN h ELSE Apply(after[n - 1], events[n])
    IN  after[Len(events)]

Init ==
    /\ config \in Configs /\ status = "up"
    /\ truth = None /\ hot = None /\ shells = {} /\ index = None
    /\ dirty = {} /\ forgotten = {} /\ pending = NoSnapshot
    /\ coldRows = None /\ spillRows = None /\ varRows = None
    /\ log = <<>> /\ snap = NoSnapshot
    /\ born = {} /\ writes = 0 /\ checkpoints = 0 /\ faults = 0 /\ upsets = {}

-----------------------------------------------------------------------------
(* Commands.  ensure_resident_for_command, then the engine, then the journal. *)

\* A mutant: user tasks and incidents are left out of the index.
RoutesNoTask(waits) == (waits \ {"child", "task"}) \cup {"key"}

\* ColdIndex::insert: the facets recorded for a cold instance.  The call of a child is
\* not one of them; "key" stands for the instance and scope keys.
Routes(waits) == (waits \ {"child"}) \cup {"key"}

\* rehydrate_cold of every cold instance in S.
Rehydrated(S) == Over([k \in S \cap DOMAIN coldRows |-> coldRows[k]], hot)
Rehydrate(S) ==
    /\ index' = Without(index, S)
    /\ coldRows' = Without(coldRows, S)

\* The cold instances a command finds by facet f of instance k.
Targets(k, f) == {c \in {k} \cap DOMAIN index : f \in index[c]}

\* The engine's dirty-variable bookkeeping for an emitted event.
Track(k, ends) ==
    IF Lean
    THEN /\ dirty' = IF ends THEN dirty \ {k} ELSE dirty \cup {k}
         /\ forgotten' = IF ends THEN forgotten \cup {k} ELSE forgotten \ {k}
    ELSE UNCHANGED <<dirty, forgotten>>

\* A write of a later command, if this workload makes any.
NextWrite == IF config.writes THEN {writes + 1} ELSE {}

\* A command on instance k, found by facet f, that leaves it waiting for `next'.  If the
\* engine does not hold the instance nothing happens, although it should have.
Command(k, f, next) ==
    LET h == Rehydrated(Targets(k, f))
        e == Event(k, next, NextWrite, FALSE)
    IN /\ Len(log) < MaxLog /\ writes + Cardinality(NextWrite) <= MaxWrites
       /\ Rehydrate(Targets(k, f))
       /\ truth' = Apply(truth, e)
       /\ writes' = writes + Cardinality(NextWrite)
       /\ IF k \in DOMAIN h
          THEN /\ hot' = Apply(h, e) /\ log' = Append(log, e)
               /\ shells' = IF next = {} THEN shells \cup {k} ELSE shells
               /\ Track(k, next = {})
          ELSE /\ hot' = h
               /\ UNCHANGED <<log, shells, dirty, forgotten>>
       /\ upsets' = upsets
            \cup (IF f = "child" /\ k \in DOMAIN index THEN {"child"} ELSE {})
            \cup (IF k \in DOMAIN h /\ h[k].spilled /\ NextWrite # {} /\ next # {}
                  THEN {"write"} ELSE {})
       /\ UNCHANGED <<config, status, pending, spillRows, varRows, snap, born,
                      checkpoints, faults>>

\* CreateInstance, with variables.
Create(k, waits) ==
    /\ status = "up" /\ k \notin born /\ \A j \in Instances : j < k => j \in born
    /\ Len(log) < MaxLog /\ writes < MaxWrites
    /\ LET e == Event(k, waits, {writes + 1}, TRUE) IN
        truth' = Apply(truth, e) /\ hot' = Apply(hot, e) /\ log' = Append(log, e)
    /\ Track(k, FALSE)
    /\ born' = born \cup {k} /\ writes' = writes + 1
    /\ UNCHANGED <<config, status, shells, index, pending, tables, varRows, snap,
                   checkpoints, faults, upsets>>

\* CorrelateMessage, user-task and incident commands, and the completion of a called child:
\* the facet is used up.
Trigger(k, f) ==
    /\ status = "up" /\ k \in DOMAIN truth
    /\ f \in truth[k].waits \cap {"message", "task", "child"}
    /\ Command(k, f, truth[k].waits \ {f})

\* SetVariables on the instance or one of its scopes.
SetVariables(k) ==
    /\ status = "up" /\ k \in DOMAIN truth /\ config.writes
    /\ Command(k, "key", truth[k].waits)

CancelInstance(k) ==
    /\ status = "up" /\ k \in DOMAIN truth
    /\ Command(k, "key", {})

\* The root variables a worker receives: rehydrate_activated_variables takes them back
\* from the spill table, or copies them from the variable store in lean mode.
Restored(k, inst) ==
    LET rows == IF Lean THEN varRows ELSE spillRows IN
    IF inst.spilled /\ k \in DOMAIN rows
    THEN [inst EXCEPT !.vars = rows[k], !.spilled = FALSE] ELSE inst

\* ActivateJobs: a cold instance with a job of the type comes back first.
Activate(k) ==
    /\ status = "up" /\ k \in DOMAIN truth /\ "job" \in truth[k].waits
    /\ LET h == Rehydrated(Targets(k, "job")) IN
        /\ k \in DOMAIN h => ~ h[k].locked
        /\ hot' = IF k \in DOMAIN h
                  THEN [h EXCEPT ![k] = [Restored(k, @) EXCEPT !.locked = TRUE]] ELSE h
        /\ spillRows' = IF k \in DOMAIN h /\ h[k].spilled /\ ~ Lean
                        THEN Without(spillRows, {k}) ELSE spillRows
    /\ Rehydrate(Targets(k, "job"))
    /\ UNCHANGED <<config, status, truth, shells, dirty, forgotten, pending, varRows, log, snap,
                   bounds, upsets>>

\* CompleteJob by the worker that holds it: the process ends, or goes on to its next task
\* with the output merged into the variables.
CompleteJob(k) ==
    /\ status = "up" /\ k \in DOMAIN truth /\ "job" \in truth[k].waits
    /\ k \in DOMAIN hot /\ hot[k].locked
    /\ \E next \in {{}} \cup (IF config.writes THEN {truth[k].waits} ELSE {}) :
        Command(k, "job", next)

\* expire_jobs.
ExpireJob(k) ==
    /\ status = "up" /\ k \in DOMAIN hot /\ hot[k].locked
    /\ hot' = [hot EXCEPT ![k].locked = FALSE]
    /\ UNCHANGED <<config, status, truth, shells, index, dirty, forgotten, pending, tables,
                   varRows, log, snap, bounds, upsets>>

\* evict_instances, once the exporter has the completion.
Evict(k) ==
    /\ status = "up" /\ k \in shells
    /\ shells' = shells \ {k}
    /\ spillRows' = Without(spillRows, {k}) /\ coldRows' = Without(coldRows, {k})
    /\ forgotten' = IF Lean THEN forgotten \cup {k} ELSE forgotten
    /\ UNCHANGED <<config, status, truth, hot, index, dirty, pending, varRows, log, snap,
                   bounds, upsets>>

-----------------------------------------------------------------------------
(* Time.  A timer is due from the start: the tick that finds it comes when it comes. *)

\* A mutant: the tick looks at the engine's own timers only.
ColdDueIgnored == {}

\* ColdIndex::instances_due.
ColdDue == {k \in DOMAIN index : "timer" \in index[k]}

\* The due timers are taken in key order.
InKeyOrder(S) ==
    {s \in [1 .. Cardinality(S) -> S] : \A i, j \in DOMAIN s : i < j => s[i] < s[j]}

\* The tick of every 500 ms.  Directly hosted, trigger_timers runs each time; through Raft
\* it is proposed only when the engine's own state has a timer that is past its time, one
\* that has fired or was cancelled included: it stays there as long as its instance.
Armed(k) == \E n \in DOMAIN log : log[n].key = k /\ "timer" \in log[n].waits
Gate == config.raft => \E k \in DOMAIN hot \cup shells : Armed(k)

TriggerTimers ==
    /\ status = "up" /\ Gate
    /\ LET h   == Rehydrated(ColdDue)
           due == {k \in DOMAIN h : "timer" \in h[k].waits}
       IN /\ due # {}
          /\ \E order \in InKeyOrder(due) :
                LET fired == [i \in DOMAIN order |->
                                 Event(order[i], h[order[i]].waits \ {"timer"}, {}, FALSE)]
                IN /\ hot' = Replay(h, fired)
                   /\ truth' = Replay(truth, fired)
                   /\ log' = log \o fired
          /\ shells' = shells \cup {k \in due : h[k].waits = {"timer"}}
          /\ IF Lean
             THEN /\ dirty' = dirty \ {k \in due : h[k].waits = {"timer"}}
                  /\ forgotten' = forgotten \cup {k \in due : h[k].waits = {"timer"}}
             ELSE UNCHANGED <<dirty, forgotten>>
    /\ Rehydrate(ColdDue)
    /\ UNCHANGED <<config, status, pending, spillRows, varRows, snap, bounds, upsets>>

-----------------------------------------------------------------------------
(* Memory pressure. *)

\* is_spillable: parked on a job and on nothing that resumes it without an activation.
Spillable(k) ==
    /\ ~ hot[k].spilled /\ hot[k].vars # {}
    /\ "job" \in hot[k].waits /\ hot[k].waits \cap {"timer", "message"} = {}

\* shed_variables, oldest first: the payload is written out before it leaves memory.
ShedVariables(k) ==
    /\ status = "up" /\ config.vars
    /\ k \in DOMAIN hot /\ Spillable(k)
    /\ \A j \in DOMAIN hot : Spillable(j) => k <= j
    /\ hot' = [hot EXCEPT ![k].vars = {}, ![k].spilled = TRUE]
    /\ IF Lean THEN varRows' = With(varRows, k, hot[k].vars) /\ UNCHANGED spillRows
               ELSE spillRows' = With(spillRows, k, hot[k].vars) /\ UNCHANGED varRows
    /\ UNCHANGED <<config, status, truth, shells, index, dirty, forgotten, pending, coldRows,
                   log, snap, bounds, upsets>>

\* is_cold_spillable: no worker holds one of its jobs.
ColdSpillable(k) == ~ hot[k].spilled /\ ~ hot[k].locked

\* maybe_cold_spill, oldest first: the whole instance leaves the engine.
ColdSpill(k) ==
    /\ status = "up" /\ config.cold
    /\ k \in DOMAIN hot /\ ColdSpillable(k)
    /\ \A j \in DOMAIN hot : ColdSpillable(j) => k <= j
    /\ hot' = Without(hot, {k})
    /\ coldRows' = With(coldRows, k, hot[k])
    /\ index' = With(index, k, Routes(hot[k].waits))
    /\ UNCHANGED <<config, status, truth, shells, dirty, forgotten, pending, spillRows, varRows,
                   log, snap, bounds, upsets>>

-----------------------------------------------------------------------------
(* Checkpoints: snapshot_and_rotate, or its lean form with the variable store. *)

\* snapshot_control_only: the variables stay out of the snapshot.
ControlOnly(h) == [k \in DOMAIN h |-> [h[k] EXCEPT !.vars = {}]]

\* A mutant: the empty placeholder of a spilled instance is stored too.
UpsertsPlaceholder == [k \in dirty \cap DOMAIN hot |-> hot[k].vars]

\* drain_dirty_vars: what the variable store is told.
Upserts == [k \in {j \in dirty \cap DOMAIN hot : ~ hot[j].spilled} |-> hot[k].vars]

CheckpointBegin ==
    /\ status = "up" /\ config.snapshots # "none" /\ pending = NoSnapshot
    /\ checkpoints < MaxCheckpoints
    /\ pending' = IF Lean
                  THEN [covered |-> Len(log), insts |-> ControlOnly(hot), step |-> "vars",
                        partial |-> FALSE, upserts |-> Upserts, forgets |-> forgotten]
                  ELSE [covered |-> Len(log), insts |-> hot, step |-> "write",
                        partial |-> DOMAIN index # {} \/ \E k \in DOMAIN hot : hot[k].spilled]
    /\ Upset("cold", Lean /\ DOMAIN index # {})
    /\ dirty' = {} /\ forgotten' = {}
    /\ checkpoints' = checkpoints + 1
    /\ UNCHANGED <<config, status, truth, hot, shells, index, tables, varRows, log, snap,
                   born, writes, faults>>

\* VarStore::checkpoint, one transaction, before the snapshot that leaves them out.
CheckpointVars ==
    /\ status = "up" /\ pending.step = "vars"
    /\ varRows' = Without(Over(pending.upserts, varRows), pending.forgets)
    /\ pending' = [pending EXCEPT !.step = "write"]
    /\ Upset("overwrite", \E k \in DOMAIN pending.upserts \cap DOMAIN hot :
                            hot[k].spilled /\ pending.upserts[k] # varRows[k])
    /\ UNCHANGED <<config, status, truth, hot, shells, index, dirty, forgotten, tables, log, snap,
                   bounds>>

\* The store or the snapshot cannot be written: the tick is given up.
CheckpointFail ==
    /\ status = "up" /\ pending.step \in {"vars", "write"}
    /\ pending' = NoSnapshot
    /\ Upset("failed", pending.step = "vars")
    /\ UNCHANGED <<config, status, truth, hot, shells, index, dirty, forgotten, tables, varRows,
                   log, snap, bounds>>

CheckpointWrite ==
    /\ status = "up" /\ pending.step = "write"
    /\ snap' = [covered |-> pending.covered, insts |-> pending.insts, step |-> "done",
                partial |-> pending.partial]
    /\ pending' = NoSnapshot
    /\ UNCHANGED <<config, status, truth, hot, shells, index, dirty, forgotten, tables, varRows,
                   log, bounds, upsets>>

-----------------------------------------------------------------------------
(* Restart. *)

Crash ==
    /\ status = "up" /\ faults < MaxFaults
    /\ status' = "down" /\ faults' = faults + 1
    /\ UNCHANGED <<config, truth, memory, tables, varRows, log, snap, born, writes,
                   checkpoints, upsets>>

\* install_variables: the stored variables go in before the tail is replayed.
Installed(h) ==
    IF Lean
    THEN [k \in DOMAIN h |->
            IF k \in DOMAIN varRows THEN [h[k] EXCEPT !.vars = varRows[k], !.spilled = FALSE]
            ELSE h[k]]
    ELSE h

\* The snapshot and the tail of the log; VarSpillStore::open empties both its tables.
Recover ==
    /\ status = "down" /\ status' = "up"
    /\ hot' = Replay(Installed(snap.insts), SubSeq(log, snap.covered + 1, Len(log)))
    /\ shells' = {} /\ index' = None /\ pending' = NoSnapshot
    /\ coldRows' = None /\ spillRows' = None
    /\ dirty' = IF Lean THEN DOMAIN hot' ELSE {}
    /\ forgotten' = {}
    /\ Upset("partial", snap.partial)
    /\ UNCHANGED <<config, truth, varRows, log, snap, bounds>>

-----------------------------------------------------------------------------
Next ==
    \/ \E k \in Instances :
        \/ \E waits \in WaitSets : Create(k, waits)
        \/ \E f \in Facets : Trigger(k, f)
        \/ SetVariables(k) \/ CancelInstance(k)
        \/ Activate(k) \/ CompleteJob(k) \/ ExpireJob(k) \/ Evict(k)
        \/ ShedVariables(k) \/ ColdSpill(k)
    \/ TriggerTimers
    \/ CheckpointBegin \/ CheckpointVars \/ CheckpointFail \/ CheckpointWrite
    \/ Crash \/ Recover

\* The tick runs for as long as the process does, and an operator restarts the node.
Spec == Init /\ [][Next]_vars /\ WF_vars(TriggerTimers) /\ WF_vars(Recover)

-----------------------------------------------------------------------------
(* Properties. *)

Inst == [vars : SUBSET (1 .. MaxWrites), waits : SUBSET Facets, spilled : BOOLEAN,
         locked : BOOLEAN]
IsMap(f, S) == DOMAIN f \subseteq Instances /\ \A k \in DOMAIN f : f[k] \in S

\* Every table, index and set holds what its Rust or SQL type allows.
TypeOK ==
    /\ config \in Configs /\ status \in {"up", "down"}
    /\ IsMap(hot, Inst) /\ IsMap(coldRows, Inst) /\ IsMap(truth, Inst)
    /\ IsMap(index, SUBSET (Facets \cup {"key"}))
    /\ IsMap(spillRows, SUBSET (1 .. MaxWrites)) /\ IsMap(varRows, SUBSET (1 .. MaxWrites))
    /\ dirty \cup forgotten \cup shells \subseteq Instances
    /\ snap.covered \in 0 .. Len(log)
    /\ Lean \/ dirty \cup forgotten = {}
    /\ upsets \subseteq Upsets

\* The tiers hold exactly the live instances.
AllHeld ==
    /\ DOMAIN truth = DOMAIN hot \cup DOMAIN index
    /\ DOMAIN hot \cap DOMAIN index = {}
    /\ DOMAIN index = DOMAIN coldRows
    /\ \A k \in DOMAIN hot : hot[k].waits = truth[k].waits
    /\ \A k \in DOMAIN coldRows : coldRows[k].waits = truth[k].waits

\* The variables of instance k wherever they are kept.
Kept(k) ==
    LET rows == IF Lean THEN varRows ELSE spillRows IN
    IF k \in DOMAIN coldRows THEN coldRows[k].vars
    ELSE IF ~ hot[k].spilled THEN hot[k].vars
    ELSE IF k \in DOMAIN rows THEN rows[k] ELSE {}

AllWhole == \A k \in DOMAIN truth \cap (DOMAIN hot \cup DOMAIN coldRows) : Kept(k) = truth[k].vars

\* Cold spill is a cache: while the node is up, every instance that should be alive is in
\* the engine or cold with a row and a route for each thing it waits for, never both, and
\* nothing else is; restarts, checkpoints and every route back included, until an upset.
LiveIsHeld == status = "up" /\ Undisturbed => AllHeld

\* A spilled payload "never changes the engine's logical state" (types.rs): wherever the
\* variables of a live instance are, they are all the writes made to them, also after a
\* restart from a lean snapshot and the variable store, until an upset.
VariablesWhole == status = "up" /\ Undisturbed => AllWhole

\* A due timer fires, whether its instance is in memory or cold, unless an upset comes first.
TimersFire ==
    \A k \in Instances :
        (k \in DOMAIN truth /\ "timer" \in truth[k].waits)
            ~> ~ (Undisturbed /\ k \in DOMAIN truth /\ "timer" \in truth[k].waits)
=============================================================================
