# A TLA+ verification project for nano-bpm

nano-bpm is a Camunda-8-compatible BPMN engine in Rust. This directory models its
core in TLA+, checks the models with TLC and proves the main invariants of eight of
them with TLAPS, for every value of their constants. Source paths below are relative to `src/`.

The repository keeps specifications of its own under `formal/tla` (token flow in
one flat scope, job leases, Raft, snapshots). The modules here are written from the
Rust code and share no text with them; where the subjects meet (`TokenScopes`) this
project adds what those leave out: nested scopes, their teardown and re-entry.

## 1. Inventory of the system

| Component | State it keeps | Operations | Hard part | Correct when |
|---|---|---|---|---|
| Job lifecycle (`engine-core/src/state/apply/job.rs`, `engine/api.rs`, `lease.rs`, the job commands of `engine/mod.rs`) | jobs, the activatable and activated indices, incidents, key allocator | create, activate (poll or replicated plan), complete, fail, throw, update, expire, resolve, cancel, recover a lease | stale plans, late answers, expiry racing completion, soft locks lost on failover | no token waits on nothing, no job without a token, one job per task, a lease fences older holders, every lock ends |
| Command planner and step queue (`engine/mod.rs`) | process instances, tokens, the queue of one command | `plan_command_at`, `run_with`, `process_step`, `complete_finished_instances`, `cascade_cancel_children` | steps queued behind the teardown of their own scope | an ended instance stays ended, an empty one completes, every command ends |
| Call activities (`engine/call_activity.rs`) | parent and call element of an instance | spawn, retry, release the parent, depth cap | parent and child end, suspend or defer independently | no orphan child, no stranded parent, bounded depth |
| Boundary events, scopes (`engine/boundary.rs`) | timers, subscriptions, scopes | arm, fire, interrupt, tear down | several due at once, interruption of parked tokens | what a token waited on is gone with it |
| Joins, sub-processes, multi-instance, ad-hoc bodies, signals, compensation (`engine/mod.rs`, `engine/boundary.rs`) | per-instance maps | activate, arrive, fire, correlate | dead scopes, arrivals revoked, concurrent paths | each join fires once per full set of arrivals |
| Messages across partitions (`state/apply/subscription.rs`, `server/src/main.rs` 7714-8113) | a local and a canonical record per subscription, the hosts' routing tasks | open, close, correlate, publish, dispatch a start | two records on two partitions, tasks without order, retry or memory | each message advances a waiting token once, every waiting token can be found, no record outlives its token |
| Drain guard (`server/crates/nano-server-runtime/src/drain_guard.rs`) | five atomics and a monitor-owned state machine | mint, take, observe, publish, refill | lock-free races; a valve that waits for what it prevents | exact bucket, paced intake, the valve opens again |
| Backpressure, recovery throttle (same crate) | EWMA, cap, mode | observe, admit | feedback, hysteresis | cap within floor and ceiling, no flapping |
| Engine mailbox (`deepthi.rs`) | two queues, producer count | push, pop, drop handle | starvation of the low tier, panic of the single writer | nothing accepted is lost at shutdown |
| Journal (`nano-server-storage/src/journal.rs`) | writer queue, active segment, commits | persist, group commit, rotate, restore | crash between write, fsync and acknowledgement | acknowledged means durable, in order |
| Segmented log, snapshots (`seglog.rs`) | segments, snapshot, watermarks | seal, snapshot, compact, recover | snapshot against boundary, torn tail, lagging exporter | snapshot plus suffix is the whole history |
| Variable store and spills (`varstore.rs`, `varspill.rs`, `coldspill.rs`) | dirty set, cold index | delta checkpoint, spill, fault in, forget | spilled instance needed by a timer, job or message | every trigger finds its instance |
| Raft replication (`nano-server-raft`) | replicated log, lease digest, tombstones | propose, apply, digest, promote | leader-stamped time, leader-local locks, failover | replicas apply the same commands to the same state |
| Leadership fence (`fence.rs`) | (epoch, leader) register | announce, adopt, promote | lost, duplicated, reordered announcements | one winner per partition eventually |
| Read model, exporters, REST host, console, clients, parser, FEEL, DMN | projections, connections | - | at-least-once export | read model equals the fold of the log |

How they interact: the host turns requests into commands; the mailbox serialises
them onto one thread per partition; the engine decides a command, applies its
events and drains its queue; the journal makes the events durable and only then
acknowledges; on a cluster the command goes through Raft first and every replica
applies it. Job locks of lease-free jobs are local to the leader. The monitor
samples backlog and completions and paces the creates that enter.

## 2. Modules

### Engine

`Jobs` models the job lifecycle of one engine. The variables are the fields of
`State` the handlers touch (`jobs`, `activatable_jobs`, `activated_jobs`,
`incidents`, the `active` tokens, the instance states, `next_local`), the host's
clock, and one history variable, `issued`. The engine is a single writer, so one
action is one accepted command with its run to quiescence; a rejected command
changes nothing. The appliers of `state/apply/job.rs` are operators of the same
names on the job record. Element instances are drawn from a set, every element
is a service task, and `Advance` covers what the drain does with the token that
leaves: an end event consumes it or another service task parks it on a new job.

`ProcessTree` models instances and their call-activity children one *step* at a
time: the command fills the queue, `run_with` processes it in FIFO order,
`complete_finished_instances` and `cascade_cancel_children` follow. `Idle` is the
state between commands. `touched` and `ended` are what the code reads off the
command's log. Processes are trees, given as constants, so an element id stands
for its element instance. Due timers are handled in any order (the code uses key
order). Of `complete_call_activity` the failing output mapping (`call_activity.rs`
538-557: the token stays, on an incident that completes it when resolved) and the
multi-instance and ad-hoc branches (422-500) are left out.

`TokenScopes` models the tokens of one instance, again one step at a time, for
process definitions with cycles, gateways, joins, sub-processes in sub-processes
and multi-instance bodies. `active` holds element instances with their scope,
`join_flow_arrivals`, `join_instances` and `multi_instances` are the maps of
`ProcessInstance`, `torn_down_scopes` is the scratch of one command. A token
counted on a join carries its scope as history; the code keeps only the flow, by
element id. `fired` is history too. Each action pops the head of the queue and is
one arm of `process_step`: `DropStep` is the dead-scope guard with the revocation of
the join count, `ActivateElement`, `ActivateBody`, `ActivateChild` activate,
`WaitAtJoin` and `FireJoin` are the two outcomes of `activate_join`,
`CompleteElement`, `RaiseEscalation`, `TerminateScope`, `TerminateInstance`,
`CompleteChild` and `CompleteBody` complete. `CompleteDrained` and `Quiesce` are
what `run_with` does when the queue is empty. Conditions of gateways and of
multi-instance bodies are free choices. Execution listeners, which may defer the start of
multi-instance children, are left out.

`MessageRouting` models message subscriptions over several partitions and nodes.
`engine[p]` is what partition p holds (subscriptions by key, instances, key counter,
round-robin counter), `disk[p]` what its log replays to. A command is an operator on
a *plan*, the engine with the routable events emitted so far, so one action is one
command on one partition. `tasks` are the hosts' asynchronous tasks: the frames of
the requests a task is in the middle of, each with its node and its stack of events
(`drive_subscription_routing` pops from the end); a publish is such a task too, which
applies the message on its own partitions, pumps, and then calls the other owners.
`Lose`, `Disconnect` and `Restart` are the faults. Element instances are identified
with their subscription, all messages have one name, and keys other than those of
subscriptions are not counted. What a continuation does to an instance that is not
the record's own is left open beyond settling the record (`AdvanceToken`).

### Storage

`SegLog` models the durable half of a node: the engines' events go through one
channel to the writer thread, which group-commits them, seals segments, answers and
forwards to the exporters; a maintenance task snapshots all partitions, compacts
into the cold archive and prunes it. Its variables are in three groups: memory
(`engine`, `inbox`, `writer`, `shared`, `maint`, `exportq`), disk (`active`, `frag`,
`synced`, `sealed`, `head`, `pphead`, `snap`, `cold`, `rows`, `exported`) and
history (`acked`, `firm`). One action is one file operation, so a failure can fall
between any two. A failure ends the process (`killed`: files stay as written) or
takes the power too (`unpowered`: what was not synced is gone, possibly half a
line). Boot is one action that recovers or refuses.

`DurableLog` is what the journal promises its callers, without files or threads:
one sequence of events per partition, answered events survive the process, firm
ones survive the power, a failure leaves a prefix. `SegLog` implements it under the
refinement `log <- engine` (`ImplementsDurableLog`), with `acked`, `firm` and
`status` mapped to themselves.

`Spill` models the memory tiers: instances and variables that leave memory under
pressure, the routing index, delta checkpoints of the variable store, lean and full
snapshots, restart. `truth` is the history variable that says what each instance
should be. The memory measurement that triggers a spill is a free choice. `Recover` is
`recover_multi` (`seglog.rs` 2081-2132) together with `VarSpillStore::open`, which wipes both
spill tables (`varspill.rs` 219-250). Through Raft the tick is proposed only when some timer
in the engine's own state is past its time, fired and cancelled ones included
(`main.rs:16625`): `Armed` and `Gate`. Six kinds of step can lose something in the code as it
is; the model takes them like any other and records them in the history variable `upsets`
(section 3).

### Replication

`RaftStore` models one member's storage, one file operation at a time: segments,
markers, snapshot files, the pointer to the current one, the state machine, the
restart. The consensus library, openraft, is vendored under `third_party/openraft-0.9.24`.
Its protocol is not modelled; what it does to the store is: a core task that appends,
commits, truncates and purges, beside a state-machine worker and a builder task;
`install_full_snapshot`, which first truncates a log that disagrees with the snapshot
(`InstallTruncate`, `InstallBegin`); `get_initial_state`, which re-applies the committed
entries, purges a hole, and builds a snapshot when the log was purged and there is none
(`Hostable`, `Replayed`, `Republish`). Of the entries `load_log_ids` probes at boot only the first is
asked for: the others are missing only in a log with a gap. `AsyncDurability` is asynchronous mode or the opt-in
recovery relief (`raft_logstore.rs:552`), which the throttle switches on and off at any time.
`chosen` is what the group has committed. As in `Spill`, what the storage does not survive is
taken and recorded in `upsets`.

`Retire` models the retirement of replicas: the owner tells a follower over a lossy
lane which keys it has retired and below which mark everything has ended, while
creates and completions travel through the log. Both engines mint keys by counting;
`id` tells which instance a key really stands for. Commands that the host applies to the
owner's engine alone are `Cancel`, `Suspend`, `Resume` and `Publish`; the last stands for
`CorrelateMessage`, which always mints a key, for routed correlations and for dispatched
starts (`main.rs:7755`, `main.rs:7940`, `mod.rs:3264`). A cancel with canceling listeners mints their keys
and leaves the instance neither active nor ended, which is `Publish` followed by `Suspend`
here. `known` and `paused` are history: what the follower was given, and what was ever
suspended.

### Runtime

`DrainGuard` models the admission guard one atomic access at a time, with weak
compare-and-swaps that may fail spuriously, and the monitor with one step per
store. Credits become instances, completions end them: the loop is closed. A
grant's two flag loads are one step: the bucket cannot tell them apart. The
factor 1000 of the permille arithmetic is the constant `Whole`. A thread stands for
one kind of call at a time, so completing and granting threads are disjoint sets.

`Mailbox` models the engine actor's mailbox: two queues and a handle count under a
mutex, a condition variable, the single thread. An action is one critical section,
one notification (they come after the mutex is released, so other tasks and the
thread run in between), or one job, which returns or panics. Waiting callers may be
cancelled. The latency samples and heartbeat counters are left out.

Each module has an `MC` module that gives the constants their values. The proofs are
in modules of their own: `JobsProofs` (types, then tokens and jobs, then leases, finality
and indices), `ProcessTreeProofs`, `DrainGuardProofs`, `MailboxProofs`, `RaftStoreProofs`,
`RetireProofs`, `SpillProofs` and `TokenScopesProofs`.

## 3. Runs

| Run | Result | What it shows |
|---|---|---|
| `jobs_strict` | pass, 643 thousand states | Strict completion, one instance with two tasks (one an agent's), three jobs, leased and lease-free workers. Tokens, jobs, incidents, leases and locks stay consistent under every sequence of commands. |
| `jobs_leader` | pass, 185 thousand states | Lenient completion, digest recovery, timeout updates, two instances. The index scans see what they must, every lock ends. |
| `tree` | pass, 39 thousand states | A root calling a recursive callee with boundary timers, canceling listeners, a terminate end, late deployment of the callee. |
| `token_scopes` | pass, 315 thousand states | Eight definitions: re-entered, nested, looped, escalating and terminated scopes with parallel and inclusive joins. Every counted token is held in its own scope, no token lives in a dead one, joins fire once, nothing waits for what cannot come. |
| `drain_guard` | pass, 3.0 million states | Two completing, two granting threads and the monitor: intake is paced, every completion mints exactly its share. |
| `seglog` | pass, 959 thousand states | Two partitions, both durability modes, seals, snapshots, compaction, format migration, exporters, two failures. The journal implements `DurableLog`, the snapshot is the state at its boundary, the read model stays in step, recovery refuses only what it cannot read, the writer catches up. |
| `spill` | pass, 623 thousand states | A node as deployed, both tiers over full snapshots, lean snapshots and a log replayed in full, with later writes and called children, and a replicated partition without cold spill: until an upset, whatever leaves memory comes back whole for every command, timer, checkpoint (failing ones too) and restart, and a due timer fires in the end. |
| `raftstore` | pass, 3.1 million states | Every durability mode, with the recovery relief coming and going, on a machine that may lose power: until an upset, the member restarts into exactly the committed state, flushed entries are readable, a purge is always covered by a snapshot, only a torn log is refused. |
| `retire` | pass, 657 thousand states | Cancels, completions, suspensions, published messages, lost, late and early frames: an instance the follower was given under the owner's key is not retired while it runs on the owner; although keys drift, digests are lost and the tombstone set is full, the follower of an owner that has gone quiet ends up empty. |
| `mailbox` | pass, 37 thousand states | Three tasks with handles that are cloned, used and dropped: no wake-up is lost, a clean shutdown leaves no job behind. |
| `routing` | pass, 157 thousand states | Seven setups on one and two nodes, with lost forwards, broken links, restarts and suspension: no message is delivered twice or to a token that no longer waits on it. Undisturbed, opens and correlations arrive in whatever order tasks run; routed to the end after each command, as the repository's tests do it, every teardown disarms its canonical record. |
| `seglog_torn` | violation of `AnsweredSurvives` | A line torn by one failure swallows the first answered event after the restart. |

The type invariants of the other modules (among them the capacity of `DrainGuard`'s
bucket and the depth of `ProcessTree`'s trees) hold in the same configurations with
`TypeOK` added; so do `EndIsFinal` of `ProcessTree` and `WaitsOnOne` and `StartsOnce` of
`MessageRouting`.

### Known disagreements kept as configurations

The violation run above has its quotations under `findings` in
`PROJECT.json`. The following configurations show further places where the code does
not do what its comments say; each violates the one property it names.

| Configuration | Property | Where and what |
|---|---|---|
| `MCJobs_interrupt` | `IncidentOnToken` | `boundary.rs:919`: interrupting a plain activity resolves no incident, which stays open without a token (`boundary.rs:484`). |
| `MCJobs_digest` | `IndexExact` | `api.rs:104`: a recovered lease leaves its job in both indices (`types.rs:1256`, `types.rs:1612`). |
| `MCJobs_sticky` | `LeaseSticky` | `job.rs:341`: resolving an incident clears the lease the field's comment (`types.rs:295`) calls sticky. |
| `MCProcessTree_suspend` | `ChildHasParent` | `mod.rs:11851`: the cascade and the interruption look for children that are Active or Terminating; a suspended child survives its parent and, resumed, has no token to release (`mod.rs:11815`: "transitively down the parent-child tree"; `boundary.rs:911`). |
| `MCProcessTree_listener` | `WorkHasToken` | `mod.rs:10579`: a terminating parent is moved on by its completing child (`types.rs:92`). |
| `MCProcessTree_terminate` | `WorkHasToken` | `mod.rs:5188`: the dead-scope guard drops steps of a Terminated instance, a terminate end leaves a Completed one, so a queued step creates a job on it (`mod.rs:5296`). |
| `MCTokenScopes_shared` | `NeverStuck` | `mod.rs:11434`, `types.rs:558-571`: join counts are kept by element id, so the children of a parallel multi-instance body share them; the surplus of one child is reopened in the scope of another, and when that one ends early the first waits for ever. |
| `MCDrainGuard_valve` | `IdleEngineAdmits` | `drain_guard.rs:565`: the closed valve never opens on an engine that went idle (`drain_guard.rs:33`). |
| `MCSegLog_split` | `AnsweredSurvives` | `seglog.rs:504`: heads are written after the rename; a crash between the two leaves the next segment numbered from the old head (`seglog.rs:546`). |
| `MCMessageRouting_overtake` | `NoStaleSubscription` | `main.rs:7934`: opens and closes are routed by tasks that nothing orders, and one task takes its events from the end, so where one command parks a token and discards it (a fork to a catch and to a terminate end) the close always goes first and finds nothing; the open then creates a record no one will close, which claims later messages (`boundary.rs:1054`: "so a stale subscription never correlates later"; `main.rs:34426`). |
| `MCMessageRouting_start` | `NoDuplicateStart` | `main.rs:7743`: a publish is applied on the partition its key hashes to and then on partition 0, two independent commands, so a start event on 0 is not suppressed by a subscription that claimed the message elsewhere (`mod.rs:3290`; `tests/lifecycle.rs:2663`: "the same publish must NOT also start a duplicate instance"). |
| `MCMessageRouting_restart` | `RoutingSettles` | `main.rs:8088`: replay hands no event to the host and nothing at boot looks for Opening records, so an open that was durable but not routed never is (`main.rs:8086`: "a crash re-emits the Opening on replay and re-routes"; `main.rs:8053`). |
| `MCMessageRouting_suspend` | `ArmedWhenQuiet` | `mod.rs:3513`: a suspended instance on another partition drops the correlation after its canonical record was settled; `mod.rs:3318` promises that "the subscription stays `Open` for a future message", which holds only where both records are one. |
| `MCMessageRouting_early` | `DeliveredOnce` | `main.rs:17614`: the stream path routes an open before it is durable. After a crash the key is minted again for another instance; the other partition ignores the second open and settles the wrong token's record (`main.rs:8085`: "fire-and-forget is safe even if the instance partition has not yet fsynced"). |
| `MCRetire_publish` | `FollowerKeepsLive` | `main.rs:7755`: a published message is applied to the owner's engine alone and mints a key (`mod.rs:3264`), against `main.rs:16591`: "Mutations that mint state (a fired timer may create a job) MUST be logged or follower key allocation diverges". One publish that finds nobody and one create: the instance has key 2 on the owner and 1 on the follower, the owner's mark, 2, arrives in order, and the follower drops the replica of an instance that runs (`memory.rs:313`: "Every such instance has terminated on the owner, so reaping its replica shell here is safe."). |
| `MCRetire_suspend` | `FollowerKeepsLive` | `memory.rs:298`: the mark is the smallest Active key; a suspended instance below it is dropped on the followers (`memory.rs:289`, `memory.rs:313`). |
| `MCRetire_overtake` | `FollowerKeepsLive` | A digest that overtakes the completion it reports makes the follower skip a minting command; its keys drift (`main.rs:16591`). |

### Upsets

`RaftStore` and `Spill` take every step the code can take, and note in `upsets` the few
kinds after which the code no longer keeps its promise. Each is a place where the code does
less than its comments say, or a trade-off a deployment chose. The properties `AppliedExactly`, `FlushedReadable`,
`RefusesOnlyTorn`, `PurgeRestorable`, `LiveIsHeld` and `VariablesWhole` are `Exact`,
`Readable`, refusal only of a torn log, `Restorable`, `AllHeld` and `AllWhole` *until the
first upset*; nothing is excluded beforehand, in the runs or in the theorems. The run
`raftstore` checks invariants only and stops at the first upset (`CONSTRAINT Undisturbed`),
because they say nothing of what follows; `spill`, which also checks liveness, has no constraint.

That no kind is idle TLC shows with the properties without their condition: after that
upset alone,

| Upset of `RaftStore` | broken | Where |
|---|---|---|
| `purge`: a crash between the unlinks and the marker | refusal | `raft_logstore.rs` 1330-1350; the comments at 828 and 1311 say otherwise |
| `truncate`: a crash between unlinks and the cut | refusal | `raft_logstore.rs` 974-1033 |
| `install`: a crash while a snapshot is installed | `Readable`, refusal, `Restorable` | the core purges without waiting for the worker (openraft `following_handler/mod.rs` 316-320) |
| `unsynced`: a power loss takes a record reported flushed under asynchronous durability or the relief | `Readable`, refusal | by design, `raft_logstore.rs:552` |
| `reuse`: a snapshot gets the file name of the current one | all four | the counter restarts at 0 (`raft.rs:769`), the file is truncated (`raft.rs:945`) or removed after an install (`raft.rs:1238`, against `raft.rs:541`) |
| `overlap`: an install begins while a snapshot is built | `Readable`, refusal, `Restorable` | the builder's pointer goes over the newer one (`raft.rs` 941-997) |

| Upset of `Spill` | Where |
|---|---|
| `partial`: a restart from a full snapshot taken while an instance was cold or its variables shed | `memory.rs:18`: the snapshot is of the engine's own state, and boot wipes the tables (`varspill.rs:244`), which `journal.rs:1469` calls "a memory cache, not a system of record" |
| `cold`: a lean checkpoint beside a cold instance | the same, and its dirty mark is drained with nothing stored |
| `overwrite`: a checkpoint stores older variables over those shed since it began | `journal.rs` 1891-1950 and `varstore.rs` 143-167 write the same row |
| `failed`: the checkpoint of the variable store fails | `main.rs:22990`: the drained marks are gone; a failure of the snapshot write after it loses nothing |
| `child`: a called child ends while its caller is cold | `call_activity.rs:406`: the index has no facet for it |
| `write`: a command writes to an instance whose variables are shed | `types.rs` 578-583: it starts from the empty placeholder |

`TimersFire` has the same condition. On a replicated partition *with* cold spill it fails
without any upset (`MCSpill.cfg` with `Configs <- ColdUnderRaft`, `WaitSets <-
TimerOnly`): the gate looks at the engine's own timers only, so the timer of a cold instance
is never due (`main.rs:16624`, against `memory.rs:694` and `coldspill.rs:12`).

### What the passing runs leave out

They keep clear of the disagreements above, and only there.

- `tree`: operators suspend instances of the root process and not children
  (`Suspendable`), no work follows the call activity of a process with canceling
  listeners, no fork races a terminate end.
- `token_scopes`: the definitions are block-structured (`JoinFiresOnce` and
  `NeverStuck` are not true of arbitrary graphs), no join lies inside the children
  of a *parallel* multi-instance body, and no step is queued behind a terminate end
  at the root.
- `seglog`: only the last failure may tear a line or fall inside a seal, because
  what it leaves behind is not cleaned up (`CleanThenAny`).
- `raftstore`: nothing before the first upset. `spill`: a replicated partition with cold spill.
- `routing`: early routing and crashes are kept apart; `OpensArrive` speaks of setups
  without loss, crash and suspension, `InOrderDisarms` of those where routing ends
  before the next command. Stale canonical records do occur in the others, and are
  harmless to `DeliveredOnce` and `AdvancesWaiting`.
- `retire`: the setups publish or suspend, not both; with everything at once (`Free`) TLC
  checked `KnownIsKept` too, on 1.0 million states. It speaks of instances that
  both engines call by one key and that were never suspended. `FollowerDrains` is asked of setups in which nobody
  suspends and completions are neither overtaken nor mixed with cancels (`InStep`): elsewhere a
  completion may find its instance on one engine and not on the other, and a follower that
  has minted more keys than the owner keeps what lies above every mark.

### Bounds

Three jobs on two tasks are enough for a re-created job next to a live one, for a
plan with two keys and a choice by priority; time 0..2 with a timeout of 1 gives a
live, an expired and a renewed lock; three minted keys give two leases and an
incident. In `tree` the depth cap is 2 and `TreeSize` is the number of instances a
root can come to, so `MaxKey` = 4 leaves one key that a spawn too many would use; a
spawn beyond that is not taken, which would show as a drain that does not end. In
`token_scopes` 24 element instance keys let every scope be left and entered again at
least once with all its tokens; two items make a multi-instance child meet a sibling
in every stage of its life. `Whole` = 3 with a floor of 2 makes fractional mints cross
boundaries with and without a remainder; a bucket of 2 with two takers empties and
refills. In `seglog` two events on two partitions with one record per segment seal,
snapshot and compact between two failures, and two format versions make a snapshot
unreadable once. In `raftstore` four entries over segments of two give a roll, a
purge across a boundary and, with a second term, a truncation, with two crashes. In
`spill` two instances let one be cold while the other is hot; two writes are enough to shed
and to write again; it was also run once over all 48 setups (8.0 million states). In
`retire` one tombstone and one removal per tick make both limits bind; two local commands
let a publish be followed by a cancel or a second publish. In `mailbox`
three tasks let one push while another drops the handle it was cloned from. The `Max...`
constants stop the runs, which is why deadlock is not checked. In `routing`
two keys per partition let one instance wait twice or two instances once each, and two
messages let the second one meet what the first left behind.

### Fairness

`Jobs`: the host's timer loop ticks and expires locks for ever (one tick for all
locks, or on a leader one for each domain); nothing is assumed of workers.
`ProcessTree`: `run_with` and the cascade are loops of one thread, so the drain is
weakly fair. `DrainGuard`: the monitor task ticks for ever and started completions
go on; creates are not assumed. `SegLog`: the writer and each exporter are loops of
the live process; failures and maintenance are not fair. `Spill`: the timer tick
runs for ever and a node that went down is started again. `Mailbox`: the thread is a
loop whose jobs return or panic, and a task that left the mutex goes on to notify.
`MessageRouting`: tasks are polled until they end; clients, faults and group commits
owe nothing. `Retire`: both engines apply the log, the tick and the eviction run for ever, a frame under way is received
or lost; a mark is received in the end if one is sent again and again (strong
fairness), because the owner repeats it every tick and a lane that loses every one of
them has no follower at its end. Digests may all be lost.

## 4. Proofs

Each theorem holds for every choice of the constants that satisfies the assumption
its module names; what else it assumes is in its statement.

`Jobs` (`ConstantsAssumption`):

- `TypeCorrect`: `Spec => []TypeOK`. Inductive: `TypeInv`, which adds that a
  created job sits on an element (else `InstanceOf` is applied outside its domain).
- `NoStrandedToken`, `NoOrphanJob`, `SingleJob`: `TokenHasWork`, `JobHasToken`,
  `OneJobPerElement`. Inductive only together, as `TokenInv`: a completed job takes
  its token along, which would strand a second job of that element; re-creating a
  job after an uncaught error needs the element to have none and the incident to
  be the only one; an incident counts as work only if its job sits on that
  element. The actions are sorted into a few kinds of step (quiet, leaving,
  parking, re-creating, cancelling), each with one lemma.
- `FenceHolds`: `LeaseFence`. Inductive: `LeaseInv`, stored tokens are the newest
  issued and issued tokens are pairwise distinct and at most `next_local`. The
  key fact is that two jobs of one plan have different ranks (`RankInjective`),
  which needs the activation order to be total.
- `EndedForGood`, `LocksHold`, `IndicesSound`: the action properties `TerminalFinal`
  and `LockNotStolen`, and `IndexSound`. `JobSteps` says what any command does to the
  jobs: either it re-indexes all those whose state it changes, ends nothing twice and
  keeps the tokens of durable locks, or it restores one soft lock from a digest, which
  leaves that job in the index of polls as well. Resolving an incident is the hard case:
  `TokenInv` tells that the job it names is not one a teardown has cancelled.

`ProcessTree` (`TreeAssumption`), for any processes, call graphs and numbers of
instances. The properties speak of the states between commands, the invariants of every
step of the drain:

- `TreeTyped`, `NoneLeftEmpty`: `TypeOK`, `EmptyCompletes`, from `Base`. Its core is
  `Looked`: an instance that has run empty is in `touched`, so
  `complete_finished_instances` will see it; `Fresh`, `Kinded` and `Known` say that keys
  are not minted twice, that work, timers and incidents sit on elements of their kind,
  and that steps belong to instances there are.
- `NoneStranded`: `TokenIsDriven`, from `Driving`: every token waits on work, an
  incident, a child *or a queued step*, and a canceling listener means a terminating
  instance.
- `OverForGood`: `EndIsFinal`, from `Ended`, for processes in which a terminate end is
  reached from a task alone (`TerminateAlone`), so that no step is queued beside it.
- `NoIdleWork`: `WorkHasToken`, from `Working`, if moreover nothing but events and
  gateways follows a call activity of a process with canceling listeners
  (`QuietAfterCalls`). `MCProcessTree_terminate` and `MCProcessTree_listener` show that
  neither hypothesis can be dropped; TLC evaluates that the process of the run `tree`
  satisfies both (`ShapeAssumption`).

`DrainGuard` (`GuardAssumption`), for any number of threads:

- `BucketBounded`, `IntakePaced`, `MintsExact`: `TypeOK` (with the capacity of the
  bucket), `PacedIntake`, `MintExact`. Pacing is not inductive, because a mint reaches the
  bucket long after its completion was counted. `Covered` charges every thread that is
  between the two: `granted + budget + |Busy| <= Capacity + returned`. `Loaded` bounds
  what a compare-and-swap loop has read. The exact mint rests on a lemma about `\div`:
  adding less than a whole passes at most one multiple of it.

`Mailbox` (`MailboxAssumption`):

- `CleanShutdown`: `NothingLost`. Every job pushed is queued, in the thread's hands or
  has run (`Accounted`), and there are as many as were pushed (`Counted`), so none is
  there twice; the handle count is exact, so the thread ends only when nobody can push
  (`EndedEmpty`).

`Retire` (`RetireAssumption`):

- `TombstonesCapped`: `TypeOK`, with the cap on tombstones, for every setup.
- `RetirementSafe`: `KnownIsKept`, with no further hypothesis. The two engines need not
  agree on keys, so the invariant does not compare them: it relates each instance to what the
  follower was given (`known`). The owner never gives up a key it has not minted: what the
  buffer, a digest or a tombstone names was minted and is over, a mark is at most the next key
  and no higher than what runs and was never suspended, and all of that stays so while
  frames are under way, because keys only grow. That the instance is not completed for the
  follower is a premise: completions travel with the log and may name a key that means
  another instance there.

`RaftStore` (`RaftStoreAssumption`), for any segment size and number of entries, terms
and crashes:

- `RestartsExact`, `FlushedStays`, `HostsUnlessTorn`, `PurgeCovered`: `AppliedExactly`,
  `FlushedReadable`, `RefusesOnlyTorn`, `PurgeRestorable`, for every setup and with no
  further hypothesis: crashes may fall anywhere, power may be lost in every mode, builds and
  installs overlap and names are reused. Each says what holds until the first upset; for
  refusal that means the list of causes is complete.
- None of the four is inductive alone: a restart is exact because the log has no gap
  above the purge point, the purge point is covered by the snapshot, and the snapshot is
  what the group had committed at its index. `Inv` has these parts: `Shape` (types);
  `LogWhole` (`Layout`: records ascend within and across segments, which is what lets a
  purge drop whole segments; `NoGap` from the purge point to the last entry, or, inside a
  truncation, to where it cuts; `Agreement` with the group; `Unreported` and `Fsynced`:
  the only record a crash can take is the one being appended, which nobody was told of);
  `Marks` (the order of purge point, committed, applied and acknowledged index and of
  their durable copies); `Snapshots` (a file from its creation, through the sync, until
  the pointer names it). The lemmas speak of the records of a list of segments, so that
  each file operation is one lemma: append, open the next segment, unlink a suffix, cut a
  segment, unlink a prefix, reopen.

`Spill` (`SpillAssumption`), for any instances, wait sets and numbers of writes, events,
checkpoints and restarts:

- `TiersHold`, `VariablesKept`: `LiveIsHeld`, `VariablesWhole`, for every setup and with no
  further hypothesis, until the first upset. `UpsetsGrow` and `InvHolds` make that a
  statement about `Undisturbed => Inv`: upsets are never taken back, so a state without one
  has a past without one.
- The argument: what the commands should have made of the instances is the replay of the
  whole log (`Logged`), and a snapshot taken while nothing was cold or shed is the replay of a
  prefix (`Snapshots`). While the
  node is up, each instance is what the truth says, in one of the tiers (`Tiers`); in lean
  mode an instance whose row in the variable store is behind is in `dirty` (`Tracked`) or
  in the checkpoint under way, whose rows for it are current unless it has become dirty
  again (`Upserting`, `Checkpointing`). The row of the store may also be *ahead* of the snapshot, if the node
  goes down between the two writes: what it has in advance, the tail of the log writes
  again, and variables are sets of writes. So a restart is exact (`RecoverInv`). That a
  replay in two parts is the replay of the whole is an induction over the length of the
  log, written over the set of prefixes for which it holds (`Prefixes`). That a tick takes
  all due timers in some order needs an increasing sequence to meet every element of a set
  of its length (`AllTaken`).

`TokenScopes` (`DefinitionsAssumption`), for every set of definitions, block-structured or
not, and any number of items:

- `ScopesOutlive`: `ScopeAlive`, with no further hypothesis. A scope may be torn down (a
  boundary timer, an escalation, a terminate end, a finished loop) or complete while steps
  that name it wait in the queue, so the invariant says what each queued step may still
  find. An activation names the root, a sub-process, or a scope that is gone (`Entering`);
  keys are minted once, so what is gone stays gone. An element instance queued to complete
  is not a body and, if it is a sub-process, has no token in it and no activation queued
  for it (`Leaving`): the drain sweep runs only when the queue is empty. A step for a body
  finds it active or finds its record gone (`ForBody`). The scope of a body holds only
  children its record lists, of its own element and not bodies themselves (`Children`), so
  a loop that ends leaves nobody behind. Timers sit on no child of a body and open joins
  host nothing (`Timed`, `Gates`), which is why firing either takes no scope away from a
  token.
- A scope is older than what is in it (`Tokens`). That makes the walk up the scopes
  (`Ancestors`) a well-defined function and what it collects closed under containment
  (`UpTo`, `AncestorFunction`, `InsideWithin`), so a teardown takes a scope's whole
  content. The parts of the invariant have the state as parameters, and each kind of
  change is one lemma: a token comes (`Comes`, `BodyComes`, `ChildComes`), tokens leave
  (`Leave`), steps are queued (`Queued`), timers are armed (`Arms`), a join opens
  (`Opens`). `Inv` was model-checked on the definitions of the run before it was proved.

Only model-checked:

- liveness (`LockEventuallyReleased`, `DrainEnds`, `WriterCatchesUp`, `TimersFire`,
  `FollowerDrains`, `MailboxDrains`, `OpensArrive`), which is out of this prover's reach;
- `ChildHasParent` of `ProcessTree`: it is false once children are suspended, and it
  needs that no element is entered twice, which is a property of the process graph
  closed under flows, beyond a fixed set of lemmas;
- `JoinTokensHeld`, `JoinFiresOnce` and `NeverStuck` of `TokenScopes`: they hold for
  block-structured definitions, a notion that is itself an induction over the
  definition, and fail where parallel children share a join (`MCTokenScopes_shared`);
- `SegLog` with the refinement of `DurableLog`, and `MessageRouting`, whose recovery and
  routing are folds over sequences.

## 5. Not modelled, and the plan

Proofs next: that `DurableLog` keeps what it promised, and from there the steps of `SegLog`
that do not recover; `JoinTokensHeld` of `TokenScopes` where no
sub-process is active twice at once. A least counterexample (`SmallestKey` in `RetireProofs`, from
the well-foundedness of `<` on the naturals) stands in for an induction where one is
needed.

Models that remain worth writing: ad-hoc bodies, signals, compensation,
listener chains (`TokenScopes` with more kinds); the recovery throttle with its
signal abstracted to congested or not; the leadership fence together with a model of
two lineages of one partition; the lease digest between two engines.

Outside for good, and the bulk of the repository's lines: the REST host and its
request decoding (`server/src/main.rs`), the web console and its projects, the SQL
projections of the read model, the BPMN, FEEL and DMN parsers and evaluators, the
process OS tooling, the WebAssembly bindings and the clients. They transform data or
draw it, keep no protocol state of their own, and reach the modelled parts only
through the commands the models take as inputs. The vendored consensus library is
modelled only as the code drives it.
