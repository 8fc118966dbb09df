------------------------------ MODULE RaftStore ------------------------------
(***************************************************************************)
(* One Raft member's durable storage: the segmented log and its markers    *)
(* (raft_logstore.rs), the snapshot files, the pointer to the current one  *)
(* and the state machine (raft.rs), and the restart (bootstrap_member).    *)
(* openraft, vendored, drives it from two tasks that run side by side: the *)
(* core, which appends, commits, truncates and purges, and the             *)
(* state-machine worker, which applies and installs while a builder task   *)
(* of its own writes a snapshot.  A crash may come between any two file    *)
(* operations.                                                             *)
(*                                                                         *)
(* An entry is its index and its term.  `chosen' is what the group has     *)
(* committed, entry by entry; the engine's state is the sequence of        *)
(* entries applied to it.  `upsets' records what the storage is known not  *)
(* to survive, as it happens; the properties speak of the time before.     *)
(***************************************************************************)
EXTENDS Integers, Sequences, SequencesExt, FiniteSets, FiniteSetsExt

CONSTANTS
    Setups,      \* how the store is configured, see Setup
    SegRecords,  \* records a segment holds before it rolls
    MaxIndex,    \* bound: log entries
    MaxTerm,     \* bound: terms, hence truncations
    MaxCrashes   \* bound: restarts

Setup == [mode : {"sync", "defer", "async"},  \* NANOBPMN_DURABILITY, _RAFT_DEFER_COMMITTED
          relief : BOOLEAN,                   \* may recovery_fsync_relief be switched on?
          power : BOOLEAN,                    \* may the machine lose power?
          owned : BOOLEAN]                    \* a partition this node owns, or one it follows
Upsets == {"purge", "truncate", "install",  \* a crash fell inside one of these
           "unsynced",                      \* a power loss took a record reported without fsync
           "reuse",                         \* a snapshot got the file name of the current one
           "overlap"}                       \* an install began while a snapshot was built

ASSUME RaftStoreAssumption ==
    /\ Setups \subseteq Setup
    /\ {SegRecords, MaxIndex, MaxTerm} \subseteq Nat \ {0} /\ MaxCrashes \in Nat

VARIABLES
    setup, status,             \* up, down, refused (cannot host), receiver (hosted empty)
    chosen, term,              \* the group's committed terms; the current term
    segs, synced, torn,        \* segment files; records of the last one on disk; is it cut off?
    marker,                    \* state.json
    files, ptr,                \* snapshot files; current-snapshot.json
    purged, committed, dirty,  \* Inner: last_purged, committed, state_dirty
    acked,                     \* the last index reported flushed to openraft
    core,                      \* what the core task is in the middle of
    engine, applied,           \* the engine's state; SmMeta::last_applied
    current, counter,          \* current_snapshot, snapshot_idx
    known,                     \* the snapshot openraft may purge up to
    build, install,            \* the builder task and an install under way
    crashes, upsets            \* history: restarts so far, see Upsets

disk   == <<segs, synced, torn, marker, files, ptr>>
memory == <<purged, committed, dirty, acked, core, engine, applied, current, counter, known,
            build, install>>
vars   == <<setup, status, chosen, term, disk, memory, crashes, upsets>>

Idle    == [op |-> "idle"]
NoFile  == [file |-> <<"none", 0>>, idx |-> 0]
Torn    == [whole |-> FALSE, content |-> <<>>]
Whole(content) == [whole |-> TRUE, content |-> content]
Active  == segs[Len(segs)]

\* The records of a sequence of segments, and the index in memory: those not purged.
Records(ss) == UNION {ToSet(ss[s].recs) : s \in DOMAIN ss}
LogOf(ss, upto) ==
    LET live == {r \in Records(ss) : r.i > upto}
    IN [i \in {r.i : r \in live} |-> (CHOOSE r \in live : r.i = i).t]
Log == LogOf(segs, purged)
LastIndex == Max(DOMAIN Log \cup {purged})

Init ==
    /\ setup \in Setups /\ status = "up" /\ chosen = <<>> /\ term = 1
    /\ segs = <<[start |-> 1, recs |-> <<>>]>> /\ synced = 0 /\ torn = FALSE
    /\ marker = [purged |-> 0, committed |-> 0]
    /\ files = [f \in {} |-> Torn] /\ ptr = NoFile
    /\ purged = 0 /\ committed = 0 /\ dirty = FALSE /\ acked = 0 /\ core = Idle
    /\ engine = <<>> /\ applied = 0 /\ current = NoFile /\ counter = 0 /\ known = 0
    /\ build = Idle /\ install = Idle /\ crashes = 0 /\ upsets = {}

-----------------------------------------------------------------------------
(* The core task: RaftLogStore, under its mutex. *)

CoreIdle == status = "up" /\ core = Idle

\* append: the record goes to the active segment, or to a fresh one once that is full; the
\* outgoing segment is fsynced first.
AppendWrite ==
    /\ CoreIdle /\ LastIndex < MaxIndex
    /\ LET rec == [i |-> LastIndex + 1,
                   t |-> IF LastIndex < Len(chosen) THEN chosen[LastIndex + 1] ELSE term]
           n   == Len(segs)
       IN IF Len(Active.recs) = SegRecords
          THEN /\ segs' = Append(segs, [start |-> rec.i, recs |-> <<rec>>])
               /\ synced' = 0
          ELSE /\ segs' = [segs EXCEPT ![n].recs = Append(@, rec)]
               /\ UNCHANGED synced
    /\ core' = [op |-> "append"]
    /\ UNCHANGED <<setup, status, chosen, term, torn, marker, files, ptr, purged, committed,
                   dirty, acked, engine, applied, current, counter, known, build, install, crashes, upsets>>

\* async_durability: the mode, or for the time being the recovery throttle, which comes and
\* goes on its own.
AsyncDurability ==
    IF setup.mode = "async" THEN {TRUE} ELSE IF setup.relief THEN BOOLEAN ELSE {FALSE}

\* A mutant: the deferred marker defers the log's fsync too.
SyncedOnAckDeferred(async) == IF async \/ setup.mode # "sync" THEN synced ELSE Len(Active.recs)

\* How much of the active segment is on disk when append reports it flushed.
SyncedOnAck(async) == IF async THEN synced ELSE Len(Active.recs)

AppendFlushed ==
    /\ status = "up" /\ core.op = "append"
    /\ \E async \in AsyncDurability : synced' = SyncedOnAck(async)
    /\ acked' = LastIndex /\ core' = Idle
    /\ UNCHANGED <<setup, status, chosen, term, segs, torn, marker, files, ptr, purged,
                   committed, dirty, engine, applied, current, counter, known, build, install, crashes, upsets>>

\* The group commits up to i, and save_committed runs before the entries are applied.
Commit(i) ==
    /\ CoreIdle /\ i > committed /\ i > known /\ i <= acked
    /\ Len(chosen) + 1 .. i \subseteq DOMAIN Log
    /\ \A j \in DOMAIN Log : j <= Len(chosen) => Log[j] = chosen[j]
    /\ chosen' = IF i <= Len(chosen) THEN chosen
                 ELSE chosen \o [k \in 1 .. i - Len(chosen) |-> Log[Len(chosen) + k]]
    /\ committed' = i
    /\ \E async \in AsyncDurability :
        IF ~ async /\ setup.mode = "sync"
        THEN marker' = [purged |-> purged, committed |-> i] /\ UNCHANGED dirty
        ELSE dirty' = TRUE /\ UNCHANGED marker
    /\ UNCHANGED <<setup, status, term, segs, synced, torn, files, ptr, purged, acked, core,
                   engine, applied, current, counter, known, build, install, crashes, upsets>>

\* flush_async, in the background flusher.
Flush ==
    /\ CoreIdle /\ (setup.mode # "sync" \/ setup.relief)
    /\ synced # Len(Active.recs) \/ dirty
    /\ synced' = Len(Active.recs)
    /\ marker' = IF dirty THEN [purged |-> purged, committed |-> committed] ELSE marker
    /\ dirty' = FALSE
    /\ UNCHANGED <<setup, status, chosen, term, segs, torn, files, ptr, purged, committed,
                   acked, core, engine, applied, current, counter, known, build, install, crashes, upsets>>

\* A new leader without our uncommitted tail: truncate from i on.
TruncateBegin(i) ==
    /\ CoreIdle /\ term < MaxTerm
    /\ i \in DOMAIN Log /\ i > Len(chosen)
    /\ term' = term + 1
    /\ acked' = IF acked < i THEN acked ELSE i - 1
    /\ core' = [op |-> "truncate", since |-> i]
    /\ UNCHANGED <<setup, status, chosen, disk, purged, committed, dirty, engine, applied,
                   current, counter, known, build, install, crashes, upsets>>

\* rewrite_after_truncate: segments that start at or after the point go one by one ...
TruncateUnlink ==
    /\ status = "up" /\ core.op = "truncate"
    /\ \E s \in DOMAIN segs :
        /\ segs[s].start >= core.since
        /\ \A r \in 1 .. s - 1 : segs[r].start < core.since
        /\ segs' = RemoveAt(segs, s)
    /\ synced' = 0
    /\ UNCHANGED <<setup, status, chosen, term, torn, marker, files, ptr, memory, crashes, upsets>>

\* ... then the straddled one is replaced by its surviving prefix, up to the end of the last
\* entry of the index it still holds; with no segment left a fresh one starts there.
Survivors(recs) ==
    LET kept == {n \in DOMAIN recs : recs[n].i > purged /\ recs[n].i < core.since}
    IN IF kept = {} THEN <<>> ELSE SubSeq(recs, 1, Max(kept))
TruncateCut ==
    /\ status = "up" /\ core.op = "truncate"
    /\ \A s \in DOMAIN segs : segs[s].start < core.since
    /\ segs' = IF segs = <<>> THEN <<[start |-> core.since, recs |-> <<>>]>>
               ELSE [segs EXCEPT ![Len(segs)].recs = Survivors(@)]
    /\ synced' = Len(segs'[Len(segs')].recs)
    /\ core' = Idle
    /\ UNCHANGED <<setup, status, chosen, term, torn, marker, files, ptr, purged, committed,
                   dirty, acked, engine, applied, current, counter, known, build, install, crashes, upsets>>

\* purge: the index first ...
PurgeBegin(i) ==
    /\ CoreIdle /\ purged < i /\ i <= known
    /\ purged' = i
    /\ core' = [op |-> "purge"]
    /\ UNCHANGED <<setup, status, chosen, term, disk, committed, dirty, acked, engine, applied,
                   current, counter, known, build, install, crashes, upsets>>

\* ... then the sealed segments that hold nothing else, one by one ...
FullyPurged(ss, s, upto) ==
    /\ s < Len(ss) /\ ss[s].recs # <<>>
    /\ ss[s].recs[Len(ss[s].recs)].i <= upto
PurgeUnlink ==
    /\ status = "up" /\ core.op = "purge"
    /\ FullyPurged(segs, 1, purged)
    /\ segs' = Tail(segs)
    /\ UNCHANGED <<setup, status, chosen, term, synced, torn, marker, files, ptr, memory, crashes, upsets>>

\* ... and last the marker.
PurgeMarker ==
    /\ status = "up" /\ core.op = "purge"
    /\ ~ FullyPurged(segs, 1, purged)
    /\ marker' = [purged |-> purged, committed |-> committed]
    /\ dirty' = FALSE /\ core' = Idle
    /\ UNCHANGED <<setup, status, chosen, term, segs, synced, torn, files, ptr, purged,
                   committed, acked, engine, applied, current, counter, known, build, install, crashes, upsets>>

-----------------------------------------------------------------------------
(* The state-machine worker and its builder. *)

Apply ==
    /\ status = "up" /\ install = Idle
    /\ applied < committed /\ applied + 1 \in DOMAIN Log
    /\ engine' = Append(engine, Log[applied + 1])
    /\ applied' = applied + 1
    /\ UNCHANGED <<setup, status, chosen, term, disk, purged, committed, dirty, acked, core,
                   current, counter, known, build, install, crashes, upsets>>

\* The snapshot directory with the file f in it, replaced if it was there.
Stored(f, snapshot) == [x \in DOMAIN files \cup {f} |-> IF x = f THEN snapshot ELSE files[x]]

\* get_snapshot_builder captures state and last_applied together; the builder then creates
\* its file, emptying it if it is there.
NextFile(kind) == <<kind, counter + 1>>
BuildBegin ==
    /\ status = "up" /\ build = Idle /\ install = Idle
    /\ applied > current.idx
    /\ upsets' = upsets \cup (IF NextFile("snap") = ptr.file THEN {"reuse"} ELSE {})
    /\ build' = [op |-> "write", file |-> NextFile("snap"), idx |-> applied, content |-> engine]
    /\ files' = Stored(NextFile("snap"), Torn)
    /\ counter' = counter + 1
    /\ UNCHANGED <<setup, status, chosen, term, segs, synced, torn, marker, ptr, purged,
                   committed, dirty, acked, core, engine, applied, current, known, install, crashes>>

BuildSync ==
    /\ status = "up" /\ build.op = "write"
    /\ files' = [files EXCEPT ![build.file] = Whole(build.content)]
    /\ build' = [build EXCEPT !.op = "pointer"]
    /\ UNCHANGED <<setup, status, chosen, term, segs, synced, torn, marker, ptr, purged,
                   committed, dirty, acked, core, engine, applied, current, counter, known, install, crashes, upsets>>

\* A mutant: the snapshot is published without its pointer.
BuildPointerDropped ==
    /\ status = "up" /\ build.op = "pointer"
    /\ build' = [build EXCEPT !.op = "publish"]
    /\ UNCHANGED <<setup, status, chosen, term, disk, purged, committed, dirty, acked, core,
                   engine, applied, current, counter, known, install, crashes, upsets>>

\* write_snapshot_ptr: temp file, fsync, rename, directory fsync.
BuildPointer ==
    /\ status = "up" /\ build.op = "pointer"
    /\ ptr' = [file |-> build.file, idx |-> build.idx]
    /\ build' = [build EXCEPT !.op = "publish"]
    /\ UNCHANGED <<setup, status, chosen, term, segs, synced, torn, marker, files, purged,
                   committed, dirty, acked, core, engine, applied, current, counter, known, install, crashes, upsets>>

\* Publish, drop the file it replaces, and tell the core, which may now purge.
BuildPublish ==
    /\ status = "up" /\ build.op = "publish"
    /\ current' = [file |-> build.file, idx |-> build.idx]
    /\ files' = [f \in DOMAIN files \ ({current.file} \ {build.file}) |-> files[f]]
    /\ known' = IF build.idx > known THEN build.idx ELSE known
    /\ build' = Idle
    /\ UNCHANGED <<setup, status, chosen, term, segs, synced, torn, marker, ptr, purged,
                   committed, dirty, acked, core, engine, applied, counter, install, crashes, upsets>>

\* install_full_snapshot: a snapshot of the leader's at s, above all that is known to be
\* committed.  If the log holds another entry at s, what is not known to be committed goes
\* first; the install follows, and the model lets the core do other things in between.
KnownCommitted == IF committed < known THEN known ELSE committed
InstallTruncate(s) ==
    /\ CoreIdle /\ install = Idle /\ s > KnownCommitted
    /\ s \in DOMAIN Log /\ s > Len(chosen) /\ Log[s] # term
    /\ acked' = IF acked < KnownCommitted THEN acked ELSE KnownCommitted
    /\ core' = [op |-> "truncate", since |-> KnownCommitted + 1]
    /\ UNCHANGED <<setup, status, chosen, term, disk, purged, committed, dirty, engine, applied,
                   current, counter, known, build, install, crashes, upsets>>

\* The snapshot holds our entries if the log reaches up to s.  The core hands it to the
\* worker and goes on to purge up to it, without waiting for it to be installed.
InstallBegin(s) ==
    /\ CoreIdle /\ install = Idle /\ s > KnownCommitted
    /\ chosen' = chosen \o [k \in 1 .. (IF s > Len(chosen) THEN s - Len(chosen) ELSE 0) |->
                              IF Len(chosen) + 1 .. s \subseteq DOMAIN Log THEN Log[Len(chosen) + k]
                              ELSE term]
    /\ install' = [op |-> "adopt", idx |-> s]
    /\ known' = s /\ purged' = s /\ core' = [op |-> "purge"]
    /\ upsets' = upsets \cup (IF build = Idle THEN {} ELSE {"overlap"})
                        \cup (IF NextFile("installed") = ptr.file THEN {"reuse"} ELSE {})
    /\ UNCHANGED <<setup, status, term, disk, committed, dirty, acked, engine, applied, current,
                   counter, build, crashes>>

\* install_snapshot: the engine takes the state over, and the received file is renamed.
InstallAdopt ==
    /\ status = "up" /\ install.op = "adopt"
    /\ engine' = SubSeq(chosen, 1, install.idx) /\ applied' = install.idx
    /\ files' = Stored(NextFile("installed"), Whole(engine'))
    /\ counter' = counter + 1
    /\ install' = [op |-> "pointer", idx |-> install.idx, file |-> NextFile("installed")]
    /\ UNCHANGED <<setup, status, chosen, term, segs, synced, torn, marker, ptr, purged,
                   committed, dirty, acked, core, current, known, build, crashes, upsets>>

InstallPointer ==
    /\ status = "up" /\ install.op = "pointer"
    /\ ptr' = [file |-> install.file, idx |-> install.idx]
    /\ install' = [install EXCEPT !.op = "publish"]
    /\ UNCHANGED <<setup, status, chosen, term, segs, synced, torn, marker, files, purged,
                   committed, dirty, acked, core, engine, applied, current, counter, known, build, crashes, upsets>>

\* The file it replaces goes, whatever its name.
InstallPublish ==
    /\ status = "up" /\ install.op = "publish"
    /\ files' = [f \in DOMAIN files \ {current.file} |-> files[f]]
    /\ current' = [file |-> install.file, idx |-> install.idx]
    /\ install' = Idle
    /\ UNCHANGED <<setup, status, chosen, term, segs, synced, torn, marker, ptr, purged,
                   committed, dirty, acked, core, engine, applied, counter, known, build, crashes, upsets>>

-----------------------------------------------------------------------------
(* Crash and restart. *)

\* What the core and the worker are in the middle of.
UnderWay == {core.op} \cup (IF install = Idle THEN {} ELSE {"install"})

\* The records of the active segment that were reported flushed.
Reported == Len(Active.recs) - (IF core.op = "append" THEN 1 ELSE 0)

\* A crash may cut the record being appended; a power loss all that was not fsynced.
Crash ==
    /\ status = "up" /\ crashes < MaxCrashes
    /\ status' = "down" /\ crashes' = crashes + 1
    /\ IF segs = <<>> THEN upsets' = upsets \cup (UnderWay \cap Upsets) /\ UNCHANGED <<segs, torn>>
       ELSE \E kept \in (IF setup.power THEN synced ELSE Reported) .. Len(Active.recs) :
             /\ segs' = [segs EXCEPT ![Len(segs)].recs = SubSeq(@, 1, kept)]
             /\ torn' \in IF kept < Len(Active.recs) THEN BOOLEAN ELSE {FALSE}
             /\ upsets' = upsets \cup (UnderWay \cap Upsets)
                                 \cup (IF kept < Reported /\ TRUE \in AsyncDurability THEN {"unsynced"} ELSE {})
    /\ UNCHANGED <<setup, chosen, term, synced, marker, files, ptr, memory>>

\* Purged sealed segments are unlinked.  The segments are in the order of their records, so
\* the purged ones come first.
Reclaimed(upto) ==
    LET kept == {s \in DOMAIN segs : ~ FullyPurged(segs, s, upto)}
    IN IF kept = {} THEN <<[start |-> 1, recs |-> <<>>]>> ELSE SubSeq(segs, Min(kept), Len(segs))

\* RaftLogStore::open: purged records are filtered out as well.
Opened == Reclaimed(marker.purged)

\* read_snapshot_ptr: the pointer counts only if its file is there.
Restored == IF ptr.file \in DOMAIN files THEN ptr ELSE NoFile

\* A mutant: off by one at the boundary of the snapshot.
PurgeHoleOffByOne == marker.committed > Restored.idx /\ marker.purged >= Restored.idx

\* durable_log_has_purge_hole, asked for the partitions this node follows.
PurgeHole == marker.committed > Restored.idx /\ marker.purged >= Restored.idx + 1

\* Can the member be hosted from its disk?  The log must parse, the snapshot must be whole,
\* and openraft's get_initial_state must find what it re-applies, and load_log_ids the first
\* entry of a log never purged.  (What it probes in between is missing only in a log with a gap.)
Hostable(log, upto) ==
    /\ ~ torn
    /\ Restored # NoFile => files[Restored.file].whole
    /\ Restored.idx + 1 .. upto \subseteq DOMAIN log
    /\ DOMAIN log # {} /\ marker.purged = 0 /\ Max(DOMAIN log) >= upto => 1 \in DOMAIN log

\* A mutant: every entry still in the log is replayed over the snapshot.
ReplayedAll(log, upto) ==
    LET base == IF Restored = NoFile THEN <<>> ELSE files[Restored.file].content
        due  == {i \in DOMAIN log : i <= upto}
    IN base \o [k \in 1 .. Cardinality(due) |-> log[Max(due) - Cardinality(due) + k]]

\* The restored state with the committed entries after it applied again.
Replayed(log, upto) ==
    LET base == IF Restored = NoFile THEN <<>> ELSE files[Restored.file].content
    IN base \o [k \in 1 .. upto - Restored.idx |-> log[Restored.idx + k]]

\* The current snapshot after a restart: the one restored or, with a log that was purged and
\* none, one that get_initial_state builds at once.
Republish(low, upto) ==
    LET old   == [f \in {Restored.file} \cap DOMAIN files |-> files[f]]
        built == [file |-> <<"snap", 1>>, idx |-> upto]
    IN IF Restored = NoFile /\ low > 0
       THEN /\ files' = [f \in {built.file} |-> Whole(engine')]
            /\ ptr' = built /\ current' = built /\ known' = upto /\ counter' = 1
       ELSE /\ files' = old
            /\ ptr' = Restored /\ current' = Restored /\ known' = Restored.idx /\ counter' = 0

\* bootstrap_member: PartitionStateMachine::new, restore_from_current_snapshot, open, and
\* openraft's initial state with the committed entries re-applied.
Boot ==
    LET log  == LogOf(Opened, marker.purged)
        upto == IF marker.committed > Restored.idx THEN marker.committed ELSE Restored.idx
        last == Max(DOMAIN log \cup {marker.purged})
    IN /\ status = "down"
       /\ IF ~ setup.owned /\ PurgeHole THEN status' = "receiver" /\ UNCHANGED <<disk, memory>>
          ELSE IF ~ Hostable(log, upto) THEN status' = "refused" /\ UNCHANGED <<disk, memory>>
          ELSE /\ status' = "up"
               /\ applied' = upto
               /\ engine' = Replayed(log, upto)
               /\ purged' = IF last < upto THEN upto ELSE marker.purged
               /\ segs' = Reclaimed(purged') /\ synced' = Len(segs'[Len(segs')].recs)
               /\ torn' = FALSE
               /\ Republish(purged', upto)
               /\ committed' = marker.committed
               /\ marker' = [marker EXCEPT !.purged = purged']
               /\ acked' = Max({acked, last, upto})
               /\ dirty' = FALSE /\ core' = Idle /\ build' = Idle /\ install' = Idle
       /\ UNCHANGED <<setup, chosen, term, crashes, upsets>>

-----------------------------------------------------------------------------
Next ==
    \/ AppendWrite \/ AppendFlushed \/ Flush
    \/ \E i \in 1 .. MaxIndex :
        Commit(i) \/ TruncateBegin(i) \/ PurgeBegin(i) \/ InstallTruncate(i) \/ InstallBegin(i)
    \/ TruncateUnlink \/ TruncateCut \/ PurgeUnlink \/ PurgeMarker
    \/ Apply
    \/ BuildBegin \/ BuildSync \/ BuildPointer \/ BuildPublish
    \/ InstallAdopt \/ InstallPointer \/ InstallPublish
    \/ Crash \/ Boot

Spec == Init /\ [][Next]_vars

-----------------------------------------------------------------------------
(* Properties. *)

Terms == Seq(1 .. MaxTerm)

\* Indices, terms and the two tasks' progress are within their types; what is on disk of the
\* active segment is a prefix of it.
TypeOK ==
    /\ setup \in Setups /\ status \in {"up", "down", "refused", "receiver"}
    /\ chosen \in Terms /\ engine \in Terms /\ term \in 1 .. MaxTerm
    /\ {purged, committed, acked, applied, known, marker.purged, marker.committed}
            \subseteq 0 .. MaxIndex
    /\ \A f \in DOMAIN files : files[f].content \in Terms
    /\ core.op \in {"idle", "append", "truncate", "purge"}
    /\ build.op \in {"idle", "write", "pointer", "publish"}
    /\ install.op \in {"idle", "adopt", "pointer", "publish"}
    /\ segs # <<>> => synced \in 0 .. Len(Active.recs) \/ status # "up"

\* Nothing has happened so far that the storage is known not to survive.
Undisturbed == upsets = {}

\* While the member is up its engine holds exactly the committed entries up to last_applied,
\* each applied once and in order: across builds, installs, purges, truncations and restarts.
Exact == status = "up" => applied <= Len(chosen) /\ engine = SubSeq(chosen, 1, applied)
AppliedExactly == Undisturbed => Exact

\* Every entry reported flushed to openraft is in the engine, readable from the log or in the
\* snapshot being installed, and no committed entry is read back as another one: also after a
\* crash in the middle of an append or a build, or between any two operations, and a restart.
Readable ==
    status = "up" =>
        /\ applied + 1 .. acked
                \subseteq DOMAIN Log \cup (IF install = Idle THEN {} ELSE 1 .. install.idx)
        /\ \A i \in DOMAIN Log : i <= committed => Log[i] = chosen[i]
FlushedReadable == Undisturbed => Readable

\* A restart fails to host the partition only if an append was cut in the middle of a record,
\* or one of Upsets came before.
Refused == status \in {"refused", "receiver"}
RefusesOnlyTorn == Refused => torn \/ ~ Undisturbed

\* "A restart can always restore the exact state a subsequent purge relied on" (raft.rs): the
\* snapshot the pointer names is there, whole, and covers all that was purged, at every
\* instant at which none is being installed.
Restorable ==
    install = Idle =>
        /\ marker.purged <= ptr.idx
        /\ ptr # NoFile =>
            /\ ptr.file \in DOMAIN files
            /\ files[ptr.file] = Whole(SubSeq(chosen, 1, ptr.idx))
PurgeRestorable == Undisturbed => Restorable
=============================================================================
