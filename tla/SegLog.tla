------------------------------- MODULE SegLog -------------------------------
(***************************************************************************)
(* The durable half of a node (nano-server-storage: journal.rs, seglog.rs, *)
(* and the maintenance loop and boot path of server/src/main.rs): the      *)
(* engines hand their events to one writer thread that group-commits them  *)
(* to the active segment, seals segments, and acknowledges; a maintenance  *)
(* task snapshots every partition, compacts the sealed segments into the   *)
(* cold archive and prunes it; exporters project events into the read      *)
(* model; a failure ends the process anywhere and boot recovers.           *)
(*                                                                         *)
(* One command makes one event, <<partition, number>>.  An engine's state  *)
(* is the sequence of the events it applied, so restoring a snapshot and   *)
(* replaying events is concatenation.  A file is a sequence of lines: an   *)
(* event, or Bad, a line no decoder accepts.                               *)
(*                                                                         *)
(* Files survive the end of the process; the lines past `synced' do not    *)
(* survive a loss of power.  Renames and the small head files are taken    *)
(* to be durable when the directory is synced.                             *)
(***************************************************************************)
EXTENDS Integers, Sequences, SequencesExt, FiniteSets

CONSTANTS
    Partitions,       \* partitions of this node, all in one shared log
    Modes,            \* durability modes to start in, of "sync" and "async"
    MaxBatch,         \* MAX_GROUP_BATCH
    SegmentRecords,   \* segment_bytes, in records
    Bad,              \* a line that does not decode
    MaxEvents,        \* bound: commands
    Failures,         \* bound: the failures to come, and whether each may tear a line
                      \* in two and fall between the two halves of a seal
    MaxBuild,         \* bound: snapshot format versions
    MaxTicks          \* bound: maintenance ticks between two failures

ASSUME LogAssumption ==
    /\ IsFiniteSet(Partitions) /\ Partitions # {}
    /\ Modes \subseteq {"sync", "async"} /\ Modes # {}
    /\ MaxBatch \in Nat \ {0} /\ SegmentRecords \in Nat \ {0}
    /\ Failures \in Seq([torn : BOOLEAN, split : BOOLEAN])
    /\ Bad \notin Partitions \X Nat
    /\ {MaxEvents, MaxBuild, MaxTicks} \subseteq Nat

VARIABLES
    mode,             \* DurabilityMode
    status,           \* "up", "killed", "unpowered" or "refused"
    \* memory of the process
    engine,           \* events each partition's engine applied (kept while down: what it was)
    inbox,            \* the writer's channel: events and Rotate messages
    writer,           \* the writer thread: [pc, batch, rotate]
    shared,           \* SegShared: [total, start, pp, ppstart, sealed]
    maint,            \* the maintenance task
    exportq,          \* batches forwarded to each exporter shard
    \* disk
    active, frag,     \* lines of the active segment; is there an unterminated one after them?
    synced,           \* how many of them survive a loss of power
    sealed,           \* sealed segments: [start, lines, pp], pp from the sidecar
    head, pphead,     \* start of the active segment, in all and per partition
    snap,             \* the combined snapshot, or NoSnapshot
    cold,             \* the cold archive: [start, end, events]
    rows, exported,   \* the read model and its exported_position
    \* bounds and history
    build,            \* SNAPSHOT_FORMAT_VERSION of the running binary
    issued, faults, ticks,
    acked, firm       \* events answered, and those also synced

memory  == <<engine, inbox, writer, shared, maint, exportq>>
file    == <<active, frag, synced>>
disk    == <<file, sealed, head, pphead, snap, cold, rows, exported>>
history == <<issued, faults, ticks, acked, firm>>
vars    == <<mode, status, memory, disk, build, history>>

Event      == Partitions \X (1 .. MaxEvents)
NoSnapshot == [fmt |-> 0]
Rotate(p)  == <<"rotate", p>>
IsEvent(m) == m \notin {Rotate(p) : p \in Partitions}
Of(s, p)   == SelectSeq(s, LAMBDA e : e[1] = p)
Zero       == [p \in Partitions |-> 0]
Count(s)   == [p \in Partitions |-> Len(Of(s, p))]
Plus(f, g) == [p \in Partitions |-> f[p] + g[p]]
Drop(s, n) == SubSeq(s, n + 1, Len(s))

Idle    == [pc |-> "recv", batch |-> <<>>, rotate |-> {}]
Resting(floor) == [pc |-> "rest", cur |-> {}, entries |-> [p \in {} |-> {}],
                   gate |-> Zero, floor |-> floor]

Init ==
    /\ mode \in Modes /\ status = "up"
    /\ engine = [p \in Partitions |-> <<>>] /\ inbox = <<>> /\ writer = Idle
    /\ shared = [total |-> 0, start |-> 0, pp |-> Zero, ppstart |-> Zero, sealed |-> <<>>]
    /\ maint = Resting(0)
    /\ exportq = [p \in Partitions |-> <<>>]
    /\ active = <<>> /\ frag = FALSE /\ synced = 0 /\ sealed = <<>>
    /\ head = 0 /\ pphead = Zero /\ snap = NoSnapshot /\ cold = <<>>
    /\ rows = [p \in Partitions |-> <<>>] /\ exported = Zero
    /\ build = 1 /\ issued = 0 /\ faults = 0 /\ ticks = 0
    /\ acked = {} /\ firm = {}

-----------------------------------------------------------------------------
(* The engine threads. *)

\* A command takes effect and its event is sent to the writer.  The thread of a
\* partition whose rotate is outstanding waits for the reply and takes no command.
Persist(p) ==
    /\ status = "up" /\ issued < MaxEvents /\ p \notin maint.cur
    /\ LET e == <<p, issued + 1>> IN
        /\ engine' = [engine EXCEPT ![p] = Append(@, e)]
        /\ inbox' = Append(inbox, e)
    /\ issued' = issued + 1
    /\ UNCHANGED <<mode, status, writer, shared, maint, exportq, disk, build,
                   faults, ticks, acked, firm>>

-----------------------------------------------------------------------------
(* The writer thread: writer_loop in sync mode, writer_loop_async otherwise. *)

\* How many messages one batch takes: up to the cap, stopping at a rotate.
BatchLength ==
    CHOOSE n \in 0 .. Len(inbox) :
        /\ n <= MaxBatch
        /\ \A i \in 1 .. n : IsEvent(inbox[i])
        /\ \/ n = MaxBatch \/ n = Len(inbox) \/ ~ IsEvent(inbox[n + 1])

\* Receive a batch, and the rotate that ends it if it ended it before the cap.
WriterReceive ==
    /\ status = "up" /\ writer.pc = "recv" /\ inbox # <<>>
    /\ LET n == BatchLength
           rot == IF n < Len(inbox) /\ n < MaxBatch THEN {inbox[n + 1][2]} ELSE {}
       IN /\ writer' = [pc |-> IF n = 0 THEN "seal" ELSE "write",
                        batch |-> SubSeq(inbox, 1, n), rotate |-> rot]
          /\ inbox' = Drop(inbox, n + Cardinality(rot))
    /\ UNCHANGED <<mode, status, engine, shared, maint, exportq, disk, build, history>>

\* Lines as they end up in the file: the first one completes an unterminated line.
Glued(lines) == IF frag /\ lines # <<>> THEN <<Bad>> \o Tail(lines) ELSE lines

\* Sync durability fsyncs the batch before anyone is answered, async answers at once.
AfterWriteUnsynced == "ack"
AfterWrite == IF mode = "sync" THEN "fsync" ELSE "ack"

\* ActiveSegment::write_all: the lines reach the page cache.
WriterWrite ==
    /\ status = "up" /\ writer.pc = "write"
    /\ active' = active \o Glued(writer.batch)
    /\ frag' = FALSE
    /\ shared' = [shared EXCEPT !.total = @ + Len(writer.batch)]
    /\ writer' = [writer EXCEPT !.pc = AfterWrite]
    /\ UNCHANGED <<mode, status, engine, inbox, maint, exportq, synced, sealed, head, pphead,
                   snap, cold, rows, exported, build, history>>

\* fsync of the batch, before anyone hears of it.
WriterFsync ==
    /\ status = "up" /\ writer.pc = "fsync"
    /\ synced' = Len(active)
    /\ writer' = [writer EXCEPT !.pc = "ack"]
    /\ UNCHANGED <<mode, status, engine, inbox, shared, maint, exportq, active, frag, sealed,
                   head, pphead, snap, cold, rows, exported, build, history>>

AfterBatch == IF Len(active) >= SegmentRecords \/ writer.rotate # {} THEN "seal" ELSE "recv"

\* add_partition_events, then every caller is answered and every batch forwarded to
\* the exporter shard of its partition, in log order.
WriterAck ==
    /\ status = "up" /\ writer.pc = "ack"
    /\ shared' = [shared EXCEPT !.pp = Plus(@, Count(writer.batch))]
    /\ acked' = acked \cup ToSet(writer.batch)
    /\ firm' = IF mode = "sync" THEN acked' ELSE firm
    /\ exportq' = [p \in Partitions |-> exportq[p] \o Of(writer.batch, p)]
    /\ writer' = [writer EXCEPT !.pc = AfterBatch, !.batch = <<>>]
    /\ UNCHANGED <<mode, status, engine, inbox, maint, disk, build, issued, faults, ticks>>

\* do_fsync of the async loop: by size, by time, or when the producer goes quiet.
WriterFlush ==
    /\ status = "up" /\ mode = "async" /\ writer.pc \in {"recv", "seal"}
    /\ synced < Len(active)
    /\ synced' = Len(active)
    /\ firm' = acked
    /\ UNCHANGED <<mode, status, memory, active, frag, sealed, head, pphead, snap, cold,
                   rows, exported, build, issued, faults, ticks, acked>>

\* ActiveSegment::seal, first half: fsync, write the sidecar, rename, open a fresh
\* active segment.  An empty segment (end = start) is left alone.
SealRename ==
    /\ status = "up" /\ writer.pc = "seal"
    /\ writer' = [writer EXCEPT !.pc = "publish"]
    /\ IF shared.total = shared.start
       THEN UNCHANGED <<file, sealed, firm>>
       ELSE /\ sealed' = Append(sealed, [start |-> shared.start, lines |-> active,
                                          pp |-> shared.ppstart])
            /\ active' = <<>> /\ frag' = FALSE /\ synced' = 0
            /\ firm' = acked
    /\ UNCHANGED <<mode, status, engine, inbox, shared, maint, exportq, head, pphead, snap, cold,
                   rows, exported, build, issued, faults, ticks, acked>>

\* The rotates a seal answers.  Mutant: an empty segment returns early, without an answer.
RepliesUnlessEmpty == IF shared.total = shared.start THEN {} ELSE writer.rotate
Replies == writer.rotate

\* Second half: move the start of the active segment in memory and in the head files,
\* list the sealed segment, and answer the rotate with the partition's boundary.
SealPublish ==
    /\ status = "up" /\ writer.pc = "publish"
    /\ IF shared.total = shared.start
       THEN UNCHANGED <<shared, head, pphead>>
       ELSE /\ shared' = [shared EXCEPT !.start = shared.total, !.ppstart = shared.pp,
                            !.sealed = Append(@, [start |-> shared.start, end |-> shared.total,
                                                  pp |-> shared.pp])]
            /\ head' = shared.total /\ pphead' = shared.pp
    /\ maint' = [maint EXCEPT !.cur = @ \ Replies,
                   !.entries = [p \in DOMAIN @ |->
                       IF p \in Replies THEN [@[p] EXCEPT !.covered = shared.pp[p]] ELSE @[p]]]
    /\ writer' = Idle
    /\ UNCHANGED <<mode, status, engine, inbox, exportq, file, sealed, snap, cold, rows, exported,
                   build, history>>

-----------------------------------------------------------------------------
(* The exporter shards and the maintenance task of server/src/main.rs. *)

\* A shard projects the next event; rows and position commit together.
Project(p) ==
    /\ status = "up" /\ exportq[p] # <<>>
    /\ rows' = [rows EXCEPT ![p] = Append(@, Head(exportq[p]))]
    /\ exported' = [exported EXCEPT ![p] = @ + 1]
    /\ exportq' = [exportq EXCEPT ![p] = Tail(@)]
    /\ UNCHANGED <<mode, status, engine, inbox, writer, shared, maint, file, sealed, head, pphead,
                   snap, cold, build, history>>

MaintTick ==
    /\ status = "up" /\ maint.pc = "rest" /\ ticks < MaxTicks
    /\ maint' = [Resting(maint.floor) EXCEPT !.pc = "snap"]
    /\ ticks' = ticks + 1
    /\ UNCHANGED <<mode, status, engine, inbox, writer, shared, exportq, disk, build, issued,
                   faults, acked, firm>>

\* Where the rotate enters the writer's channel: behind the writes already in it.
\* Mutant: it overtakes them.
QueuedFirst(m) == <<m>> \o inbox
Queued(m) == Append(inbox, m)

\* snapshot_and_rotate, on the engine thread of one partition after the other: the
\* state is captured, then a rotate follows the writes already in the channel.
MaintSnapshot(p) ==
    /\ status = "up" /\ maint.pc = "snap" /\ maint.cur = {}
    /\ p \notin DOMAIN maint.entries
    /\ maint' = [maint EXCEPT !.cur = {p},
                   !.entries = [q \in DOMAIN @ \cup {p} |->
                       IF q = p THEN [covered |-> 0, state |-> engine[p]] ELSE @[q]]]
    /\ inbox' = Queued(Rotate(p))
    /\ UNCHANGED <<mode, status, engine, writer, shared, exportq, disk, build, history>>

SnapshotsTaken == maint.pc = "snap" /\ maint.cur = {} /\ DOMAIN maint.entries = Partitions

\* write_multi_snapshot replaces the combined snapshot; the gate is read after it.
MaintWrite ==
    /\ status = "up" /\ SnapshotsTaken
    /\ snap' = [fmt |-> build, entries |-> maint.entries]
    /\ maint' = [maint EXCEPT !.pc = "compact", !.gate = exported]
    /\ UNCHANGED <<mode, status, engine, inbox, writer, shared, exportq, file, sealed, head, pphead,
                   cold, rows, exported, build, history>>

\* The snapshot cannot be written: the tick ends, segments stay.
MaintWriteFails ==
    /\ status = "up" /\ SnapshotsTaken
    /\ maint' = Resting(maint.floor)
    /\ UNCHANGED <<mode, status, engine, inbox, writer, shared, exportq, disk, build, history>>

\* Mutant: only the exporters are asked.
CompactableExported(seg) == \A p \in Partitions : maint.gate[p] >= seg.pp[p]

\* A segment every shard has projected and every partition's snapshot covers.
Compactable(seg) ==
    \A p \in Partitions : maint.gate[p] >= seg.pp[p] /\ maint.entries[p].covered >= seg.pp[p]

\* compact_multi, one segment: archive it (unless it is archived already)...
CompactArchive ==
    /\ status = "up" /\ maint.pc = "compact"
    /\ shared.sealed # <<>> /\ Compactable(shared.sealed[1])
    /\ LET seg == shared.sealed[1]
           file1 == [start |-> seg.start, end |-> seg.end, lines |-> sealed[1].lines]
       IN cold' = IF \E i \in DOMAIN cold : cold[i].start = seg.start /\ cold[i].end = seg.end
                  THEN cold ELSE Append(cold, file1)
    /\ maint' = [maint EXCEPT !.pc = "remove"]
    /\ UNCHANGED <<mode, status, engine, inbox, writer, shared, exportq, file, sealed, head, pphead,
                   snap, rows, exported, build, history>>

\* ...and only then delete it.
CompactRemove ==
    /\ status = "up" /\ maint.pc = "remove"
    /\ sealed' = Tail(sealed)
    /\ shared' = [shared EXCEPT !.sealed = Tail(@)]
    /\ maint' = [maint EXCEPT !.pc = "compact"]
    /\ UNCHANGED <<mode, status, engine, inbox, writer, exportq, file, head, pphead, snap, cold,
                   rows, exported, build, history>>

\* No further segment qualifies: prune_cold_archive to the floor of the previous tick,
\* remember cold_prune_floor of this one.
MaintPrune ==
    /\ status = "up" /\ maint.pc = "compact"
    /\ shared.sealed # <<>> => ~ Compactable(shared.sealed[1])
    /\ cold' = SelectSeq(cold, LAMBDA f : f.end > maint.floor)
    /\ \E p \in Partitions :
        /\ \A q \in Partitions : maint.entries[p].covered <= maint.entries[q].covered
        /\ maint' = Resting(maint.entries[p].covered)
    /\ UNCHANGED <<mode, status, engine, inbox, writer, shared, exportq, file, sealed, head, pphead,
                   snap, rows, exported, build, history>>

-----------------------------------------------------------------------------
(* Failure. *)

\* The file once the batch in the writer's hands is written as well.
Whole == IF writer.pc = "write" THEN active \o Glued(writer.batch) ELSE active

\* The next failure, if it may fall here.
MayFail ==
    /\ status = "up" /\ faults < Len(Failures)
    /\ writer.pc = "publish" /\ shared.start # shared.total => Failures[faults + 1].split

\* The failure keeps the first n lines of it and perhaps a part of the next one.
CutAt(n) ==
    /\ active' = SubSeq(Whole, 1, n)
    /\ frag' \in {b \in BOOLEAN : /\ b => frag \/ (Failures[faults + 1].torn /\ n < Len(Whole))
                                  /\ frag /\ n = Len(active) => b}
    /\ synced' = n

\* The process ends; what was written stays, a write in progress may be half done.
Kill ==
    /\ MayFail
    /\ \E n \in Len(active) .. Len(Whole) : CutAt(n)
    /\ status' = "killed" /\ faults' = faults + 1
    /\ UNCHANGED <<mode, memory, sealed, head, pphead, snap, cold, rows, exported, build, issued,
                   ticks, acked, firm>>

\* Power is lost: of the lines not synced a prefix stays, and the read model, which
\* runs with synchronous=NORMAL, may fall back to an earlier commit.
PowerLoss ==
    /\ MayFail
    /\ \E n \in synced .. Len(Whole) : CutAt(n)
    /\ \E back \in [Partitions -> 0 .. MaxEvents] :
        /\ \A p \in Partitions : back[p] <= Len(rows[p])
        /\ rows' = [p \in Partitions |-> SubSeq(rows[p], 1, Len(rows[p]) - back[p])]
        /\ exported' = [p \in Partitions |-> exported[p] - back[p]]
    /\ status' = "unpowered" /\ faults' = faults + 1
    /\ UNCHANGED <<mode, memory, sealed, head, pphead, snap, cold, build, issued, ticks,
                   acked, firm>>

-----------------------------------------------------------------------------
(* Boot: recover_multi and catch_up_shard. *)

\* read_segment_events_tagged: a bad last line is dropped, a bad line elsewhere is an error.
Valid(lines)   == \A i \in 1 .. Len(lines) - 1 : lines[i] # Bad
Decoded(lines) == IF lines # <<>> /\ Last(lines) = Bad THEN Front(lines) ELSE lines

FirstIndex == IF sealed = <<>> THEN head ELSE sealed[1].start
Base       == IF sealed = <<>> THEN pphead ELSE sealed[1].pp
Hot        == FlattenSeq([i \in DOMAIN sealed |-> Decoded(sealed[i].lines)])
Surviving  == Hot \o Decoded(active)
ActiveStart ==
    IF sealed = <<>> THEN head ELSE Last(sealed).start + Len(Decoded(Last(sealed).lines))
Total      == ActiveStart + Len(Decoded(active))

\* read_cold_prefix_tagged: the files that continue one another from index 0.
ColdFiles ==
    CHOOSE n \in 0 .. Len(cold) :
        /\ \A i \in 1 .. n : cold[i].start = IF i = 1 THEN 0 ELSE cold[i - 1].end
        /\ n = Len(cold) \/ cold[n + 1].start # IF n = 0 THEN 0 ELSE cold[n].end
ColdEnd    == IF ColdFiles = 0 THEN 0 ELSE cold[ColdFiles].end
ColdEvents == FlattenSeq([i \in 1 .. ColdFiles |-> cold[i].lines])

Readable == snap # NoSnapshot /\ snap.fmt = build'
Migrate  == ~ Readable /\ (snap # NoSnapshot \/ FirstIndex > 0)

\* full_cold_prefix_tagged: is the whole history there?
FullHistory ==
    /\ ColdEnd = FirstIndex /\ Len(Surviving) = Total - FirstIndex
    /\ Bad \notin ToSet(ColdEvents)

\* The conditions under which boot fails closed instead of rewinding.
MustRefuse ==
    \/ \E i \in DOMAIN sealed : ~ Valid(sealed[i].lines)
    \/ ~ Valid(active)
    \/ Migrate /\ ~ FullHistory
    \/ Readable /\ \E p \in Partitions : Base[p] > 0 /\ snap.entries[p].covered < Base[p]

\* The engine of one partition: full history, snapshot plus tail, or all that survives.
Restored(p) ==
    IF Migrate THEN Of(ColdEvents \o Surviving, p)
    ELSE IF Readable
    THEN LET gap == snap.entries[p].covered - Base[p] IN
         snap.entries[p].state \o Drop(Of(Surviving, p), IF gap > 0 THEN gap ELSE 0)
    ELSE Of(Surviving, p)

\* Mutant: the position is taken as an offset into what survives.
CatchUpFromZero(p) ==
    LET tail == Of(Surviving, p) IN
    IF exported[p] < Base[p] THEN engine'[p]
    ELSE IF exported[p] > Base[p] + Len(tail) THEN tail
    ELSE rows[p] \o Drop(tail, exported[p])

\* plan_catch_up and catch_up_shard: resume, rebuild from what survives when the shard
\* is ahead of the log, or reproject from the engine when it fell below the floor.
CatchUp(p) ==
    LET tail == Of(Surviving, p) IN
    IF exported[p] < Base[p] THEN engine'[p]
    ELSE IF exported[p] > Base[p] + Len(tail) THEN tail
    ELSE rows[p] \o Drop(tail, exported[p] - Base[p])

Refuse ==
    /\ status \in {"killed", "unpowered"}
    /\ build' \in build .. MaxBuild
    /\ MustRefuse
    /\ status' = "refused"
    /\ UNCHANGED <<mode, memory, disk, history>>

Recover ==
    /\ status \in {"killed", "unpowered"}
    /\ build' \in build .. MaxBuild
    /\ ~ MustRefuse
    /\ status' = "up"
    /\ engine' = [p \in Partitions |-> Restored(p)]
    /\ shared' =
        LET pp(n) == Plus(Base, Count(FlattenSeq([i \in 1 .. n |-> Decoded(sealed[i].lines)])))
        IN [total |-> Total, start |-> ActiveStart, pp |-> Plus(Base, Count(Surviving)),
            ppstart |-> pp(Len(sealed)),
            sealed |-> [i \in DOMAIN sealed |->
                [start |-> sealed[i].start, end |-> sealed[i].start + Len(Decoded(sealed[i].lines)),
                 pp |-> pp(i)]]]
    /\ IF Migrate
       THEN /\ snap' = [fmt |-> build', entries |->
                   [p \in Partitions |-> [covered |-> shared'.pp[p], state |-> engine'[p]]]]
            /\ cold' = SelectSeq(cold, LAMBDA f : f.end > Total)
       ELSE UNCHANGED <<snap, cold>>
    /\ rows' = [p \in Partitions |-> CatchUp(p)]
    /\ exported' = [p \in Partitions |-> Base[p] + Len(Of(Surviving, p))]
    /\ inbox' = <<>> /\ writer' = Idle /\ maint' = Resting(0)
    /\ exportq' = [p \in Partitions |-> <<>>]
    /\ LET kept == UNION {ToSet(engine'[p]) : p \in Partitions} IN
        acked' = acked \cap kept /\ firm' = firm \cap kept
    /\ ticks' = 0
    /\ UNCHANGED <<mode, file, sealed, head, pphead, issued, faults>>

-----------------------------------------------------------------------------
Writer == WriterReceive \/ WriterWrite \/ WriterFsync \/ WriterAck \/ WriterFlush
            \/ SealRename \/ SealPublish

Maintenance ==
    \/ MaintTick \/ \E p \in Partitions : MaintSnapshot(p)
    \/ MaintWrite \/ MaintWriteFails \/ CompactArchive \/ CompactRemove \/ MaintPrune

Next ==
    \/ \E p \in Partitions : Persist(p) \/ Project(p)
    \/ Writer \/ Maintenance
    \/ Kill \/ PowerLoss \/ Recover \/ Refuse

\* The writer thread, the exporters and the maintenance task are loops the process
\* runs for as long as it lives.  Nothing is assumed of callers, of failures or of
\* the operator who restarts the node.
Spec ==
    /\ Init /\ [][Next]_vars
    /\ WF_vars(Writer)
    /\ \A p \in Partitions : WF_vars(Project(p))

-----------------------------------------------------------------------------
(* Properties. *)

SealedFile == [start : Nat, lines : Seq(Event \cup {Bad}), pp : [Partitions -> Nat]]

\* Every variable has the shape of the field, file or channel it stands for.
TypeOK ==
    /\ mode \in Modes /\ status \in {"up", "killed", "unpowered", "refused"}
    /\ engine \in [Partitions -> Seq(Event)]
    /\ \A i \in DOMAIN inbox : inbox[i] \in Event \cup {Rotate(p) : p \in Partitions}
    /\ writer.pc \in {"recv", "write", "fsync", "ack", "seal", "publish"}
    /\ writer.batch \in Seq(Event) /\ Len(writer.batch) <= MaxBatch
    /\ writer.rotate \subseteq Partitions
    /\ {shared.total, shared.start} \subseteq Nat
    /\ shared.pp \in [Partitions -> Nat] /\ shared.ppstart \in [Partitions -> Nat]
    /\ maint.pc \in {"rest", "snap", "compact", "remove"} /\ maint.cur \subseteq Partitions
    /\ exportq \in [Partitions -> Seq(Event)] /\ rows \in [Partitions -> Seq(Event)]
    /\ active \in Seq(Event \cup {Bad}) /\ frag \in BOOLEAN /\ synced \in 0 .. Len(active)
    /\ sealed \in Seq(SealedFile) /\ head \in Nat /\ pphead \in [Partitions -> Nat]
    /\ exported \in [Partitions -> Nat]
    /\ acked \subseteq Event /\ firm \subseteq acked

Abstract == INSTANCE DurableLog WITH log <- engine, Events <- Event

\* writer_loop, seal, compact_multi and recover_multi together keep the journal's promise:
\* a failure at any step cuts each partition's events to a prefix that holds everything
\* acknowledged (everything synced, after a loss of power), in order and without holes.
ImplementsDurableLog == Abstract!Spec

\* snapshot_and_rotate: the boundary the writer reports is exactly the state captured,
\* although other partitions write between the capture and the seal.
SnapshotAtBoundary ==
    snap # NoSnapshot =>
        \A p \in Partitions : Len(snap.entries[p].state) = snap.entries[p].covered

InFlight(p) == exportq[p] \o Of(writer.batch, p) \o Of(SelectSeq(inbox, IsEvent), p)

\* The read model never skips, repeats or reorders an event: what it holds and what is on
\* its way to it is the engine's history, across seals, compaction, failures and the three
\* catch-up plans (sync durability: an async journal may lose what it already exported).
ReadModelInStep ==
    status = "up" /\ mode = "sync" => \A p \in Partitions : engine[p] = rows[p] \o InFlight(p)

\* recover_multi fails closed only over a snapshot it cannot read: no failure, at whatever
\* step of sealing, compaction or pruning, leaves files behind that it refuses.
RefusesOnlyUnreadable ==
    status = "refused" => snap # NoSnapshot /\ snap.fmt # build

\* The journal's doc: "anything the server returns `200` for survives a crash".  In sync
\* mode no boot comes up without an event that was answered, or refuses to come up.
AnsweredSurvives ==
    [][mode = "sync" /\ acked # {} => status' # "refused" /\ acked \subseteq acked']_vars

\* While the process lives the writer catches up again and again: every write in the
\* channel is answered and every rotate replied to, so neither a caller nor the engine
\* thread behind a rotate waits for ever.
WriterCatchesUp ==
    []<>(status # "up" \/ (inbox = <<>> /\ writer.batch = <<>> /\ maint.cur = {}))
=============================================================================
