--------------------------- MODULE RaftStoreProofs ---------------------------
(***************************************************************************)
(* One Raft member's storage, for every deployment and every number of     *)
(* entries, terms and crashes: until one of the events in Upsets, which    *)
(* the specification records as they happen, the member restarts into      *)
(* exactly the committed state, and refuses to only over a torn record.    *)
(*                                                                         *)
(* The invariant has four parts.  Layout orders the records within and     *)
(* across segments.  LogWhole says that the log reaches from the purge     *)
(* point to its last entry without a gap, agrees with the group, and that  *)
(* a crash can only lose an entry nobody was told of.  Marks orders the    *)
(* indices the two tasks and the markers keep.  Snapshots follows a file   *)
(* from its creation until the pointer names it.                           *)
(***************************************************************************)
EXTENDS RaftStore, TLAPS, NaturalsInduction, WellFoundedInduction, SequenceTheorems

-----------------------------------------------------------------------------
(* The invariant. *)

Index     == 0 .. MaxIndex
Entry     == [i : 1 .. MaxIndex, t : Nat]
Segment   == [start : Nat, recs : Seq(Entry)]
FileName  == {"none", "snap", "installed"} \X Nat
Pointer   == [file : FileName, idx : Nat]
Building  == [op : {"write", "pointer", "publish"}, file : FileName, idx : Nat, content : Seq(Nat)]
Adopting  == [op : {"adopt"}, idx : Nat]
Adopted   == [op : {"pointer", "publish"}, idx : Nat, file : FileName]
CoreSteps == [op : {"idle", "append", "purge"}] \cup [op : {"truncate"}, since : Nat]

Shape ==
    /\ setup \in Setups /\ status \in {"up", "down", "refused", "receiver"}
    /\ chosen \in Seq(Nat) /\ term \in Nat /\ engine \in Seq(Nat)
    /\ segs \in Seq(Segment) /\ synced \in Nat /\ torn \in BOOLEAN
    /\ marker \in [purged : Nat, committed : Nat]
    /\ purged \in Index /\ committed \in Nat /\ acked \in Nat /\ applied \in Nat
    /\ known \in Nat /\ counter \in Nat
    /\ ptr \in Pointer /\ current \in Pointer
    /\ core \in CoreSteps
    /\ build \in {Idle} \cup Building
    /\ install \in {Idle} \cup Adopting \cup Adopted

\* Records ascend within a segment, from its start, and stay below the segments after it.
Ascending(recs) == \A a, b \in DOMAIN recs : a < b => recs[a].i < recs[b].i
Layout(ss) ==
    /\ \A s \in DOMAIN ss :
        /\ Ascending(ss[s].recs)
        /\ \A n \in DOMAIN ss[s].recs : ss[s].start <= ss[s].recs[n].i
    /\ \A p, s \in DOMAIN ss :
        p < s => \A n \in DOMAIN ss[p].recs : ss[p].recs[n].i < ss[s].start

\* No gap between a purge point and an index.
NoGap(ss, low, high) ==
    \A j \in Nat : low < j /\ j <= high => \E r \in Records(ss) : r.i = j

\* The log: unless a truncation is under way it reaches up to LastIndex, and all that was
\* reported flushed is in it; a truncation only ever drops what is not known to be committed.
Untruncated ==
    core.op # "truncate" =>
        /\ segs # <<>> /\ Active.start <= LastIndex + 1
        /\ NoGap(segs, purged, LastIndex) /\ acked <= LastIndex
Truncating ==
    core.op = "truncate" =>
        /\ NoGap(segs, purged, core.since - 1)
        /\ core.since > KnownCommitted /\ core.since > acked
Agreement ==
    \A r \in Records(segs) : r.i > purged /\ r.i <= Len(chosen) => r.t = chosen[r.i]
\* What a crash may lose: the record being appended, which nobody was told of.
Unreported ==
    status = "up" /\ core.op = "append" =>
        /\ Active.recs # <<>>
        /\ Active.recs[Len(Active.recs)].i = LastIndex
        /\ acked < LastIndex /\ purged < LastIndex
Fsynced ==
    status = "up" /\ setup.power /\ TRUE \notin AsyncDurability /\ core.op # "truncate" =>
        synced >= Reported
LogWhole ==
    Layout(segs) /\ Untruncated /\ Truncating /\ Agreement /\ Unreported /\ Fsynced

\* An index the group has committed, this member knows it, and a restart finds again.
Covered(i) == i <= Len(chosen) /\ i <= KnownCommitted /\ (i <= acked \/ i <= purged)

Marks ==
    /\ Covered(committed) /\ marker.committed <= committed
    /\ purged <= known /\ known <= Len(chosen)
    /\ marker.purged <= purged
    /\ core.op # "purge" => marker.purged = purged
    /\ Covered(applied) /\ engine = SubSeq(chosen, 1, applied)
    /\ install.op # "adopt" => known <= applied
    /\ status # "up" => core.op \in {"idle", "append"} /\ install = Idle
    /\ status = "up" => torn = FALSE
    /\ status \in {"refused", "receiver"} => torn

Named(p) ==
    p # NoFile =>
        /\ p.file \in DOMAIN files
        /\ files[p.file] = Whole(SubSeq(chosen, 1, p.idx))
BuildSound ==
    build # Idle =>
        /\ install = Idle
        /\ Covered(build.idx) /\ known <= build.idx /\ build.idx <= applied
        /\ build.content = SubSeq(chosen, 1, build.idx)
        /\ build.file \in DOMAIN files
        /\ build.op # "publish" => build.file # ptr.file /\ build.file # NoFile.file
        /\ build.op = "pointer" => files[build.file] = Whole(build.content)
        /\ build.op = "publish" => ptr = [file |-> build.file, idx |-> build.idx]
InstallSound ==
    install # Idle =>
        /\ build = Idle
        /\ install.idx <= Len(chosen) /\ install.idx <= purged /\ known = install.idx
        /\ install.op = "adopt" => NextFile("installed") # ptr.file
        /\ install.op # "adopt" =>
            /\ install.file # current.file /\ install.file # NoFile.file
            /\ install.file \in DOMAIN files
            /\ files[install.file] = Whole(SubSeq(chosen, 1, install.idx))
            /\ applied = install.idx
        /\ install.op = "publish" => ptr = [file |-> install.file, idx |-> install.idx]
Snapshots ==
    /\ Covered(ptr.idx) /\ Named(ptr)
    /\ install.op \in {"idle", "publish"} => known <= ptr.idx
    /\ build.op # "publish" /\ install.op # "publish" => current = ptr
    /\ BuildSound /\ InstallSound

Inv == Shape /\ LogWhole /\ Marks /\ Snapshots

-----------------------------------------------------------------------------
(* Largest and smallest elements, records, the index. *)

LEMMA LargestIndex ==
    ASSUME NEW M \in Nat, NEW S \in SUBSET (0 .. M), S # {}
    PROVE  Max(S) \in S /\ \A k \in S : k <= Max(S)
<1> DEFINE gaps == {M - k : k \in S}
<1>1. gaps \in SUBSET Nat /\ gaps # {}
  <2>1. \A k \in S : M - k \in Nat BY SMT
  <2> QED BY <2>1, Zenon
<1>2. \E x \in gaps : \A y \in gaps : ~ (<<y, x>> \in OpToRel(<, Nat))
  BY <1>1, NatLessThanWellFounded, WFMin
<1>3. \E x \in gaps : \A y \in gaps : ~ (y < x)
  BY <1>1, <1>2 DEF OpToRel
<1>4. \E x \in S : \A y \in S : ~ (M - y < M - x) BY <1>3
<1>5. \E x \in S : \A y \in S : x >= y BY <1>4
<1> QED BY <1>5 DEF Max

LEMMA SmallestPosition ==
    ASSUME NEW S \in SUBSET Nat, S # {}
    PROVE  Min(S) \in S /\ \A k \in S : Min(S) <= k
<1>1. \E x \in S : \A y \in S : ~ (<<y, x>> \in OpToRel(<, Nat))
  BY NatLessThanWellFounded, WFMin
<1>2. \E x \in S : \A y \in S : ~ (y < x)
  BY <1>1 DEF OpToRel
<1>3. \E x \in S : \A y \in S : x <= y BY <1>2
<1> QED BY <1>3 DEF Min

\* A record of some segments is at some place of one of them.
LEMMA RecordPlace ==
    ASSUME NEW ss, NEW r \in Records(ss)
    PROVE  \E s \in DOMAIN ss : \E n \in DOMAIN ss[s].recs : r = ss[s].recs[n]
BY DEF Records, ToSet

LEMMA PlaceRecord ==
    ASSUME NEW ss, NEW s \in DOMAIN ss, NEW n \in DOMAIN ss[s].recs
    PROVE  ss[s].recs[n] \in Records(ss)
BY DEF Records, ToSet

\* Segments and their records have the types of Shape.
LEMMA SegmentShape ==
    ASSUME NEW ss \in Seq(Segment)
    PROVE  /\ Len(ss) \in Nat /\ DOMAIN ss = 1 .. Len(ss)
           /\ \A s \in 1 .. Len(ss) :
                /\ ss[s] \in Segment
                /\ ss[s].start \in Nat /\ ss[s].recs \in Seq(Entry)
                /\ Len(ss[s].recs) \in Nat /\ DOMAIN ss[s].recs = 1 .. Len(ss[s].recs)
                /\ \A n \in 1 .. Len(ss[s].recs) :
                    /\ ss[s].recs[n] \in Entry
                    /\ ss[s].recs[n].i \in 1 .. MaxIndex /\ ss[s].recs[n].t \in Nat
<1>1. Len(ss) \in Nat /\ DOMAIN ss = 1 .. Len(ss) BY LenProperties
<1>2. ASSUME NEW s \in 1 .. Len(ss)
      PROVE  /\ ss[s] \in Segment
             /\ ss[s].start \in Nat /\ ss[s].recs \in Seq(Entry)
             /\ Len(ss[s].recs) \in Nat /\ DOMAIN ss[s].recs = 1 .. Len(ss[s].recs)
             /\ \A n \in 1 .. Len(ss[s].recs) :
                 /\ ss[s].recs[n] \in Entry
                 /\ ss[s].recs[n].i \in 1 .. MaxIndex /\ ss[s].recs[n].t \in Nat
  <2>1. ss[s] \in Segment BY ElementOfSeq
  <2>2. ss[s].start \in Nat /\ ss[s].recs \in Seq(Entry) BY <2>1 DEF Segment
  <2>3. Len(ss[s].recs) \in Nat /\ DOMAIN ss[s].recs = 1 .. Len(ss[s].recs)
    BY <2>2, LenProperties
  <2>4. \A n \in 1 .. Len(ss[s].recs) : ss[s].recs[n] \in Entry BY <2>2, ElementOfSeq
  <2> QED BY <2>1, <2>2, <2>3, <2>4 DEF Entry
<1> QED BY <1>1, <1>2

LEMMA RecordShape ==
    ASSUME NEW ss \in Seq(Segment), NEW r \in Records(ss)
    PROVE  r \in Entry /\ r.i \in 1 .. MaxIndex /\ r.t \in Nat
BY SegmentShape, RecordPlace

\* Segments in order hold one record of an index.
LEMMA OneRecord ==
    ASSUME NEW ss \in Seq(Segment), Layout(ss),
           NEW r \in Records(ss), NEW q \in Records(ss), r.i = q.i
    PROVE  r = q
<1>1. PICK s \in DOMAIN ss : \E n \in DOMAIN ss[s].recs : r = ss[s].recs[n] BY RecordPlace
<1>2. PICK n \in DOMAIN ss[s].recs : r = ss[s].recs[n] BY <1>1
<1>3. PICK p \in DOMAIN ss : \E m \in DOMAIN ss[p].recs : q = ss[p].recs[m] BY RecordPlace
<1>4. PICK m \in DOMAIN ss[p].recs : q = ss[p].recs[m] BY <1>3
<1>5. s \in 1 .. Len(ss) /\ p \in 1 .. Len(ss) /\ Len(ss) \in Nat BY <1>1, <1>3, SegmentShape
<1>6. r.i \in Nat /\ q.i \in Nat /\ ss[s].start \in Nat /\ ss[p].start \in Nat
  BY <1>5, RecordShape, SegmentShape
<1>7. ss[s].start <= r.i /\ ss[p].start <= q.i BY <1>2, <1>4, <1>5, SegmentShape DEF Layout
<1>8. CASE s < p
  <2>1. r.i < ss[p].start BY <1>1, <1>2, <1>3, <1>8 DEF Layout
  <2> QED BY <1>6, <1>7, <2>1
<1>9. CASE p < s
  <2>1. q.i < ss[s].start BY <1>1, <1>3, <1>4, <1>9 DEF Layout
  <2> QED BY <1>6, <1>7, <2>1
<1>10. CASE p = s
  <2>1. n \in Nat /\ m \in Nat BY <1>2, <1>4, <1>5, SegmentShape
  <2>2. ~ (n < m) /\ ~ (m < n) BY <1>2, <1>4, <1>6, <1>10 DEF Layout, Ascending
  <2> QED BY <1>2, <1>4, <1>10, <2>1, <2>2
<1> QED BY <1>5, <1>8, <1>9, <1>10

\* The index over ordered segments: the records above the purge point, each with its term.
LEMMA IndexProps ==
    ASSUME NEW ss \in Seq(Segment), Layout(ss), NEW u
    PROVE  /\ \A j : j \in DOMAIN LogOf(ss, u) <=> \E r \in Records(ss) : r.i = j /\ r.i > u
           /\ \A r \in Records(ss) : r.i > u => LogOf(ss, u)[r.i] = r.t
<1> DEFINE live == {r \in Records(ss) : r.i > u}
           log == [i \in {r.i : r \in live} |-> (CHOOSE r \in live : r.i = i).t]
<1>1. LogOf(ss, u) = log BY DEF LogOf
<1>2. DOMAIN log = {r.i : r \in live} OBVIOUS
<1>3. \A j : j \in DOMAIN log <=> \E r \in Records(ss) : r.i = j /\ r.i > u BY <1>2
<1>4. ASSUME NEW r \in Records(ss), r.i > u PROVE log[r.i] = r.t
  <2>1. r \in live BY <1>4
  <2>2. log[r.i] = (CHOOSE q \in live : q.i = r.i).t BY <2>1
  <2>3. PICK q \in live : q = CHOOSE x \in live : x.i = r.i
    BY <2>1
  <2>4. q.i = r.i BY <2>1, <2>3
  <2>5. q = r BY <2>1, <2>3, <2>4, OneRecord
  <2> QED BY <2>2, <2>3, <2>5
<1> QED BY <1>1, <1>3, <1>4

\* LastIndex over ordered segments: no record above the purge point is above it, and it is
\* the purge point or the index of a record.
IsLast(ss, u, l) ==
    /\ l \in Index /\ u <= l
    /\ \A r \in Records(ss) : r.i > u => r.i <= l
    /\ l = u \/ \E r \in Records(ss) : r.i = l

LEMMA LastProps ==
    ASSUME NEW ss \in Seq(Segment), Layout(ss), NEW u \in Index
    PROVE  IsLast(ss, u, Max(DOMAIN LogOf(ss, u) \cup {u}))
<1> DEFINE S == DOMAIN LogOf(ss, u) \cup {u}
<1>1. MaxIndex \in Nat BY RaftStoreAssumption
<1>2. \A j \in DOMAIN LogOf(ss, u) : j \in 0 .. MaxIndex
  BY <1>1, IndexProps, RecordShape
<1>3. S \in SUBSET (0 .. MaxIndex) /\ S # {} BY <1>2 DEF Index
<1>4. Max(S) \in S /\ \A k \in S : k <= Max(S) BY <1>1, <1>3, LargestIndex
<1>5. \A r \in Records(ss) : r.i > u => r.i \in S BY IndexProps
<1>6. Max(S) = u \/ \E r \in Records(ss) : r.i = Max(S)
  <2> DEFINE m == Max(S)
  <2>1. m \in DOMAIN LogOf(ss, u) \/ m = u BY <1>4
  <2> HIDE DEF m
  <2>2. m = u \/ \E r \in Records(ss) : r.i = m BY <2>1, IndexProps
  <2> QED BY <2>2 DEF m
<1>7. Max(S) \in Index BY <1>3, <1>4 DEF Index
<1> QED BY <1>4, <1>5, <1>6, <1>7 DEF IsLast

\* ... and there is only one such index.
LEMMA LastUnique ==
    ASSUME NEW ss \in Seq(Segment), NEW u \in Index, NEW l, NEW m,
           IsLast(ss, u, l), IsLast(ss, u, m)
    PROVE  l = m
<1>1. MaxIndex \in Nat /\ u \in Nat /\ l \in Nat /\ m \in Nat
  BY RaftStoreAssumption DEF IsLast, Index
<1>2. l <= m
  <2>1. CASE l = u BY <2>1 DEF IsLast
  <2>2. CASE l # u
    <3>1. PICK r \in Records(ss) : r.i = l BY <2>2 DEF IsLast
    <3>2. l > u BY <1>1, <2>2 DEF IsLast
    <3> QED BY <3>1, <3>2 DEF IsLast
  <2> QED BY <2>1, <2>2
<1>3. m <= l
  <2>1. CASE m = u BY <2>1 DEF IsLast
  <2>2. CASE m # u
    <3>1. PICK r \in Records(ss) : r.i = m BY <2>2 DEF IsLast
    <3>2. m > u BY <1>1, <2>2 DEF IsLast
    <3> QED BY <3>1, <3>2 DEF IsLast
  <2> QED BY <2>1, <2>2
<1> QED BY <1>1, <1>2, <1>3

-----------------------------------------------------------------------------
(* What the store's operations do to ordered segments. *)

\* A record above all others starts a segment ...
LEMMA Rolled ==
    ASSUME NEW ss \in Seq(Segment), Layout(ss), NEW rec \in Entry,
           \A r \in Records(ss) : r.i < rec.i
    PROVE  LET new == Append(ss, [start |-> rec.i, recs |-> <<rec>>]) IN
            /\ new \in Seq(Segment) /\ Layout(new) /\ new # <<>>
           /\ new[Len(new)] = [start |-> rec.i, recs |-> <<rec>>]
           /\ \A r : r \in Records(new) <=> r \in Records(ss) \/ r = rec
<1> DEFINE seg == [start |-> rec.i, recs |-> <<rec>>]
           new == Append(ss, seg)
<1>1. seg \in Segment /\ rec.i \in Nat BY RaftStoreAssumption DEF Segment, Entry
<1>2. /\ new \in Seq(Segment) /\ new # <<>> /\ Len(new) = Len(ss) + 1
      /\ \A s \in 1 .. Len(ss) : new[s] = ss[s]
      /\ new[Len(ss) + 1] = seg
  BY <1>1, AppendProperties
<1>3. DOMAIN ss = 1 .. Len(ss) /\ DOMAIN new = 1 .. Len(ss) + 1 /\ Len(ss) \in Nat
  BY <1>2, SegmentShape
<1>4. seg.start = rec.i /\ seg.recs = <<rec>> /\ DOMAIN seg.recs = {1} /\ seg.recs[1] = rec
  OBVIOUS
<1> HIDE DEF seg, new
<1>5. Layout(new)
  <2>1. ASSUME NEW s \in DOMAIN new
        PROVE  /\ Ascending(new[s].recs)
               /\ \A n \in DOMAIN new[s].recs : new[s].start <= new[s].recs[n].i
    <3>1. CASE s = Len(ss) + 1 BY <1>1, <1>2, <1>4, <3>1 DEF Ascending
    <3>2. CASE s # Len(ss) + 1
      <4>1. s \in DOMAIN ss /\ new[s] = ss[s] BY <1>2, <1>3, <3>2
      <4> QED BY <4>1 DEF Layout
    <3> QED BY <3>1, <3>2
  <2>2. ASSUME NEW p \in DOMAIN new, NEW s \in DOMAIN new, p < s,
               NEW n \in DOMAIN new[p].recs
        PROVE  new[p].recs[n].i < new[s].start
    <3>1. p \in DOMAIN ss /\ new[p] = ss[p] BY <1>2, <1>3, <2>2
    <3>2. CASE s = Len(ss) + 1
      <4>1. new[p].recs[n] \in Records(ss) BY <2>2, <3>1, PlaceRecord
      <4> QED BY <1>2, <1>4, <3>2, <4>1
    <3>3. CASE s # Len(ss) + 1
      <4>1. s \in DOMAIN ss /\ new[s] = ss[s] BY <1>2, <1>3, <3>3
      <4> QED BY <2>2, <3>1, <4>1 DEF Layout
    <3> QED BY <3>2, <3>3
  <2> QED BY <2>1, <2>2 DEF Layout
<1>6. ASSUME NEW r PROVE r \in Records(new) <=> r \in Records(ss) \/ r = rec
  <2>1. ASSUME r \in Records(new) PROVE r \in Records(ss) \/ r = rec
    <3>1. PICK s \in DOMAIN new : \E n \in DOMAIN new[s].recs : r = new[s].recs[n]
      BY <2>1, RecordPlace
    <3>2. CASE s = Len(ss) + 1 BY <1>2, <1>4, <3>1, <3>2
    <3>3. CASE s # Len(ss) + 1
      <4>1. s \in DOMAIN ss /\ new[s] = ss[s] BY <1>2, <1>3, <3>3
      <4> QED BY <3>1, <4>1, PlaceRecord
    <3> QED BY <3>2, <3>3
  <2>2. ASSUME r \in Records(ss) PROVE r \in Records(new)
    <3>1. PICK s \in DOMAIN ss : \E n \in DOMAIN ss[s].recs : r = ss[s].recs[n]
      BY <2>2, RecordPlace
    <3>2. s \in DOMAIN new /\ new[s] = ss[s] BY <1>2, <1>3
    <3> QED BY <3>1, <3>2, PlaceRecord
  <2>3. rec \in Records(new)
    <3>1. Len(ss) + 1 \in DOMAIN new BY <1>3
    <3>2. 1 \in DOMAIN new[Len(ss) + 1].recs /\ new[Len(ss) + 1].recs[1] = rec BY <1>2, <1>4
    <3>3. new[Len(ss) + 1].recs[1] \in Records(new) BY <3>1, <3>2, PlaceRecord
    <3> QED BY <3>2, <3>3
  <2> QED BY <2>1, <2>2, <2>3
<1> QED BY <1>2, <1>5, <1>6 DEF seg, new

\* The records of the last segment replaced ...
WithLast(ss, recs) == [ss EXCEPT ![Len(ss)].recs = recs]

LEMMA SegmentReplaced ==
    ASSUME NEW ss \in Seq(Segment), ss # <<>>, NEW recs \in Seq(Entry),
           NEW new, new = WithLast(ss, recs)
    PROVE  /\ new \in Seq(Segment) /\ new # <<>> /\ Len(new) = Len(ss)
           /\ \A s \in 1 .. Len(ss) : s # Len(ss) => new[s] = ss[s]
           /\ new[Len(ss)].start = ss[Len(ss)].start /\ new[Len(ss)].recs = recs
<1> DEFINE last == Len(ss)
           seg  == [ss[last] EXCEPT !.recs = recs]
<1>1. last \in Nat \ {0} /\ last \in DOMAIN ss /\ DOMAIN ss = 1 .. last /\ ss[last] \in Segment
  BY EmptySeq, SegmentShape
<1>2. seg \in Segment /\ seg.start = ss[last].start /\ seg.recs = recs
  BY <1>1 DEF Segment
<1>3. new = [ss EXCEPT ![last] = seg] BY DEF WithLast
<1>4. /\ new \in Seq(Segment) /\ Len(new) = last
      /\ \A s \in 1 .. last : new[s] = IF s = last THEN seg ELSE ss[s]
  <2> HIDE DEF seg
  <2> QED BY <1>1, <1>2, <1>3, ExceptSeq
<1>5. DOMAIN new = 1 .. last /\ new # <<>> /\ new[last] = seg BY <1>1, <1>4, SegmentShape
<1> HIDE DEF seg, last
<1> QED BY <1>2, <1>4, <1>5 DEF last

\* ... by more or by fewer of them.
LEMMA LastReplaced ==
    ASSUME NEW ss \in Seq(Segment), Layout(ss), ss # <<>>,
           NEW recs \in Seq(Entry), Ascending(recs),
           \A n \in DOMAIN recs : ss[Len(ss)].start <= recs[n].i,
           NEW new \in Seq(Segment), Len(new) = Len(ss),
           \A s \in 1 .. Len(ss) : s # Len(ss) => new[s] = ss[s],
           new[Len(ss)].start = ss[Len(ss)].start, new[Len(ss)].recs = recs
    PROVE  /\ Layout(new)
           /\ \A r \in Records(new) :
                \/ r \in Records(ss) /\ r.i < ss[Len(ss)].start
                \/ \E n \in DOMAIN recs : r = recs[n]
           /\ \A r \in Records(ss) :
                \/ r \in Records(new)
                \/ \E n \in DOMAIN ss[Len(ss)].recs : r = ss[Len(ss)].recs[n]
           /\ \A n \in DOMAIN recs : recs[n] \in Records(new)
<1> DEFINE last == Len(ss)
<1>1. last \in Nat \ {0} /\ last \in DOMAIN ss /\ DOMAIN ss = 1 .. last /\ ss[last] \in Segment
  BY EmptySeq, SegmentShape
<1>2. DOMAIN new = 1 .. last /\ \A s \in 1 .. last : s # last => new[s] = ss[s]
  BY SegmentShape
<1>3. new[last].start = ss[last].start /\ new[last].recs = recs OBVIOUS
<1> HIDE DEF last
<1>6. \A s \in DOMAIN new : s # last => s \in DOMAIN ss /\ new[s] = ss[s] /\ s < last
  BY <1>1, <1>2
<1>7. Layout(new)
  <2>1. ASSUME NEW s \in DOMAIN new
        PROVE  /\ Ascending(new[s].recs)
               /\ \A n \in DOMAIN new[s].recs : new[s].start <= new[s].recs[n].i
    <3>1. CASE s = last BY <1>3, <3>1 DEF last
    <3>2. CASE s # last BY <1>6, <3>2 DEF Layout
    <3> QED BY <3>1, <3>2
  <2>2. ASSUME NEW p \in DOMAIN new, NEW s \in DOMAIN new, p < s,
               NEW n \in DOMAIN new[p].recs
        PROVE  new[p].recs[n].i < new[s].start
    <3>1. p # last BY <1>1, <1>2, <2>2
    <3>2. p \in DOMAIN ss /\ new[p] = ss[p] BY <1>6, <3>1
    <3>3. s \in DOMAIN ss /\ new[s].start = ss[s].start BY <1>1, <1>3, <1>6
    <3> QED BY <2>2, <3>2, <3>3 DEF Layout
  <2> QED BY <2>1, <2>2 DEF Layout
<1>8. ASSUME NEW r \in Records(new)
      PROVE  \/ r \in Records(ss) /\ r.i < ss[last].start
             \/ \E n \in DOMAIN recs : r = recs[n]
  <2>1. PICK s \in DOMAIN new : \E n \in DOMAIN new[s].recs : r = new[s].recs[n]
    BY RecordPlace
  <2>2. CASE s = last BY <1>3, <2>1, <2>2
  <2>3. CASE s # last
    <3>1. s \in DOMAIN ss /\ new[s] = ss[s] /\ s < last BY <1>6, <2>3
    <3>2. PICK n \in DOMAIN ss[s].recs : r = ss[s].recs[n] BY <2>1, <3>1
    <3>3. r.i < ss[last].start BY <1>1, <3>1, <3>2 DEF Layout
    <3> QED BY <3>1, <3>2, <3>3, PlaceRecord
  <2> QED BY <2>2, <2>3
<1>9. ASSUME NEW r \in Records(ss)
      PROVE  r \in Records(new) \/ \E n \in DOMAIN ss[last].recs : r = ss[last].recs[n]
  <2>1. PICK s \in DOMAIN ss : \E n \in DOMAIN ss[s].recs : r = ss[s].recs[n]
    BY RecordPlace
  <2>2. CASE s = last BY <2>1, <2>2
  <2>3. CASE s # last
    <3>1. s \in DOMAIN new /\ new[s] = ss[s] BY <1>1, <1>2, <2>3
    <3>2. PICK n \in DOMAIN new[s].recs : r = new[s].recs[n] BY <2>1, <3>1
    <3> QED BY <3>1, <3>2, PlaceRecord
  <2> QED BY <2>2, <2>3
<1>10. ASSUME NEW n \in DOMAIN recs PROVE recs[n] \in Records(new)
  <2>1. last \in DOMAIN new /\ new[last].recs = recs BY <1>1, <1>2, <1>3
  <2> QED BY <2>1, PlaceRecord
<1> QED BY <1>7, <1>8, <1>9, <1>10 DEF last

\* Segments taken out keep the others in order.
LEMMA Selected ==
    ASSUME NEW ss \in Seq(Segment), Layout(ss), NEW new \in Seq(Segment),
           NEW f \in [1 .. Len(new) -> 1 .. Len(ss)],
           \A a, b \in 1 .. Len(new) : a < b => f[a] < f[b],
           \A s \in 1 .. Len(new) : new[s] = ss[f[s]]
    PROVE  /\ Layout(new)
           /\ Records(new) \subseteq Records(ss)
           /\ \A r \in Records(ss) :
                \/ r \in Records(new)
                \/ \E s \in DOMAIN ss :
                    /\ \A n \in 1 .. Len(new) : f[n] # s
                    /\ \E n \in DOMAIN ss[s].recs : r = ss[s].recs[n]
<1>1. DOMAIN new = 1 .. Len(new) /\ DOMAIN ss = 1 .. Len(ss) BY SegmentShape
<1>2. \A s \in DOMAIN new : f[s] \in DOMAIN ss /\ new[s] = ss[f[s]] BY <1>1
<1>3. Layout(new)
  <2>1. ASSUME NEW s \in DOMAIN new
        PROVE  /\ Ascending(new[s].recs)
               /\ \A n \in DOMAIN new[s].recs : new[s].start <= new[s].recs[n].i
    BY <1>2 DEF Layout
  <2>2. ASSUME NEW p \in DOMAIN new, NEW s \in DOMAIN new, p < s,
               NEW n \in DOMAIN new[p].recs
        PROVE  new[p].recs[n].i < new[s].start
    <3>1. f[p] < f[s] BY <1>1, <2>2
    <3> QED BY <1>2, <2>2, <3>1 DEF Layout
  <2> QED BY <2>1, <2>2 DEF Layout
<1>4. ASSUME NEW r \in Records(new) PROVE r \in Records(ss)
  <2>1. PICK s \in DOMAIN new : \E n \in DOMAIN new[s].recs : r = new[s].recs[n]
    BY RecordPlace
  <2> QED BY <1>2, <2>1, PlaceRecord
<1>5. ASSUME NEW r \in Records(ss),
             ~ \E s \in DOMAIN ss :
                /\ \A n \in 1 .. Len(new) : f[n] # s
                /\ \E n \in DOMAIN ss[s].recs : r = ss[s].recs[n]
      PROVE  r \in Records(new)
  <2>1. PICK s \in DOMAIN ss : \E n \in DOMAIN ss[s].recs : r = ss[s].recs[n]
    BY RecordPlace
  <2>2. PICK m \in 1 .. Len(new) : f[m] = s BY <1>5, <2>1
  <2>3. m \in DOMAIN new /\ new[m] = ss[s] BY <1>1, <2>2
  <2> QED BY <2>1, <2>3, PlaceRecord
<1> QED BY <1>3, <1>4, <1>5

\* The last segment with one more record, above all others.
LEMMA Grown ==
    ASSUME NEW ss \in Seq(Segment), Layout(ss), ss # <<>>, NEW rec \in Entry,
           \A r \in Records(ss) : r.i < rec.i, ss[Len(ss)].start <= rec.i
    PROVE  LET new == WithLast(ss, Append(ss[Len(ss)].recs, rec)) IN
            /\ new \in Seq(Segment) /\ Layout(new) /\ new # <<>>
           /\ new[Len(new)].start = ss[Len(ss)].start
           /\ new[Len(new)].recs = Append(ss[Len(ss)].recs, rec)
           /\ \A r : r \in Records(new) <=> r \in Records(ss) \/ r = rec
<1> DEFINE old == ss[Len(ss)].recs
           recs == Append(old, rec)
           new == WithLast(ss, recs)
<1>1. Len(ss) \in 1 .. Len(ss) /\ Len(ss) \in DOMAIN ss BY EmptySeq, SegmentShape
<1>2. old \in Seq(Entry) /\ Len(old) \in Nat /\ DOMAIN old = 1 .. Len(old)
  BY <1>1, SegmentShape
<1>3. /\ recs \in Seq(Entry) /\ Len(recs) = Len(old) + 1
      /\ \A n \in 1 .. Len(old) : recs[n] = old[n]
      /\ recs[Len(old) + 1] = rec
  BY <1>2, AppendProperties
<1>4. DOMAIN recs = 1 .. Len(old) + 1 BY <1>3, LenProperties
<1>5. \A n \in DOMAIN old : old[n] \in Records(ss) /\ ss[Len(ss)].start <= old[n].i
  BY <1>1, PlaceRecord DEF Layout
<1>6. /\ new \in Seq(Segment) /\ new # <<>> /\ Len(new) = Len(ss)
      /\ \A s \in 1 .. Len(ss) : s # Len(ss) => new[s] = ss[s]
      /\ new[Len(ss)].start = ss[Len(ss)].start /\ new[Len(ss)].recs = recs
  <2>1. recs \in Seq(Entry) BY <1>3
  <2> HIDE DEF recs
  <2> QED BY <2>1, SegmentReplaced
<1>7. Ascending(old) BY <1>1 DEF Layout
<1> HIDE DEF old, recs, new
<1>8. Ascending(recs)
  <2>1. ASSUME NEW a \in DOMAIN recs, NEW b \in DOMAIN recs, a < b
        PROVE  recs[a].i < recs[b].i
    <3>1. a \in DOMAIN old /\ recs[a] = old[a] BY <1>2, <1>3, <1>4, <2>1
    <3>2. CASE b = Len(old) + 1 BY <1>3, <1>5, <3>1, <3>2
    <3>3. CASE b # Len(old) + 1
      <4>1. b \in DOMAIN old /\ recs[b] = old[b] BY <1>2, <1>3, <1>4, <3>3
      <4> QED BY <1>7, <2>1, <3>1, <4>1 DEF Ascending
    <3> QED BY <3>2, <3>3
  <2> QED BY <2>1 DEF Ascending
<1>9. \A n \in DOMAIN recs : recs[n] = rec \/ \E m \in DOMAIN old : recs[n] = old[m]
  BY <1>2, <1>3, <1>4
<1>10. \A n \in DOMAIN recs : ss[Len(ss)].start <= recs[n].i BY <1>5, <1>9
<1>11. /\ Layout(new)
       /\ \A r \in Records(new) :
             \/ r \in Records(ss) /\ r.i < ss[Len(ss)].start
             \/ \E n \in DOMAIN recs : r = recs[n]
       /\ \A r \in Records(ss) :
             \/ r \in Records(new)
             \/ \E n \in DOMAIN ss[Len(ss)].recs : r = ss[Len(ss)].recs[n]
       /\ \A n \in DOMAIN recs : recs[n] \in Records(new)
  <2>1. recs \in Seq(Entry) BY <1>3
  <2>2. new \in Seq(Segment) /\ Len(new) = Len(ss) BY <1>6
  <2>3. \A s \in 1 .. Len(ss) : s # Len(ss) => new[s] = ss[s] BY <1>6
  <2>4. new[Len(ss)].start = ss[Len(ss)].start /\ new[Len(ss)].recs = recs BY <1>6
  <2> QED BY <1>8, <1>10, <2>1, <2>2, <2>3, <2>4, LastReplaced, Zenon
<1>12. \A n \in DOMAIN old : old[n] \in Records(new)
  BY <1>2, <1>3, <1>4, <1>11
<1>13. rec \in Records(new) BY <1>2, <1>3, <1>4, <1>11
<1>14. \A r : r \in Records(new) <=> r \in Records(ss) \/ r = rec
  BY <1>5, <1>9, <1>11, <1>12, <1>13 DEF old
<1> QED BY <1>6, <1>11, <1>14 DEF old, recs, new

\* The last segment cut to its first k records.
LEMMA CutShort ==
    ASSUME NEW ss \in Seq(Segment), Layout(ss), ss # <<>>, NEW k \in 0 .. Len(ss[Len(ss)].recs)
    PROVE  LET old == ss[Len(ss)].recs
               new == WithLast(ss, SubSeq(old, 1, k))
           IN  /\ new \in Seq(Segment) /\ Layout(new) /\ new # <<>>
               /\ new[Len(new)].start = ss[Len(ss)].start
               /\ new[Len(new)].recs = SubSeq(old, 1, k)
               /\ Len(new[Len(new)].recs) = k
               /\ \A r \in Records(new) :
                    /\ r \in Records(ss)
                    /\ r.i < ss[Len(ss)].start \/ \E n \in 1 .. k : r = old[n]
               /\ \A r \in Records(ss) :
                    r \in Records(new) \/ \E n \in k + 1 .. Len(old) : r = old[n]
<1> DEFINE old == ss[Len(ss)].recs
           recs == SubSeq(old, 1, k)
           new == WithLast(ss, recs)
<1>1. Len(ss) \in 1 .. Len(ss) /\ Len(ss) \in DOMAIN ss BY EmptySeq, SegmentShape
<1>2. old \in Seq(Entry) /\ Len(old) \in Nat /\ DOMAIN old = 1 .. Len(old) /\ k \in Nat /\ k <= Len(old)
  BY <1>1, SegmentShape
<1>3. /\ recs \in Seq(Entry) /\ Len(recs) = k
      /\ \A n \in 1 .. k : recs[n] = old[n]
  <2> HIDE DEF old
  <2>1. \A n \in 1 .. k : old[n] \in Entry BY <1>2, ElementOfSeq
  <2>2. /\ SubSeq(old, 1, k) \in Seq(Entry)
        /\ Len(SubSeq(old, 1, k)) = IF 1 <= k THEN k - 1 + 1 ELSE 0
        /\ \A n \in 1 .. k - 1 + 1 : SubSeq(old, 1, k)[n] = old[1 + n - 1]
    BY <1>2, <2>1, SubSeqProperties
  <2> QED BY <1>2, <2>2
<1>4. DOMAIN recs = 1 .. k BY <1>3, LenProperties
<1>5. \A n \in DOMAIN old : old[n] \in Records(ss) /\ ss[Len(ss)].start <= old[n].i
  BY <1>1, PlaceRecord DEF Layout
<1>6. /\ new \in Seq(Segment) /\ new # <<>> /\ Len(new) = Len(ss)
      /\ \A s \in 1 .. Len(ss) : s # Len(ss) => new[s] = ss[s]
      /\ new[Len(ss)].start = ss[Len(ss)].start /\ new[Len(ss)].recs = recs
  <2>1. recs \in Seq(Entry) BY <1>3
  <2> HIDE DEF recs
  <2> QED BY <2>1, SegmentReplaced
<1>7. Ascending(old) BY <1>1 DEF Layout
<1> HIDE DEF old, recs, new
<1>8. Ascending(recs) BY <1>2, <1>3, <1>4, <1>7 DEF Ascending
<1>9. \A n \in DOMAIN recs : ss[Len(ss)].start <= recs[n].i BY <1>2, <1>3, <1>4, <1>5
<1>10. /\ Layout(new)
       /\ \A r \in Records(new) :
             \/ r \in Records(ss) /\ r.i < ss[Len(ss)].start
             \/ \E n \in DOMAIN recs : r = recs[n]
       /\ \A r \in Records(ss) :
             \/ r \in Records(new)
             \/ \E n \in DOMAIN ss[Len(ss)].recs : r = ss[Len(ss)].recs[n]
       /\ \A n \in DOMAIN recs : recs[n] \in Records(new)
  <2>1. recs \in Seq(Entry) BY <1>3
  <2>2. new \in Seq(Segment) /\ Len(new) = Len(ss) BY <1>6
  <2>3. \A s \in 1 .. Len(ss) : s # Len(ss) => new[s] = ss[s] BY <1>6
  <2>4. new[Len(ss)].start = ss[Len(ss)].start /\ new[Len(ss)].recs = recs BY <1>6
  <2> QED BY <1>8, <1>9, <2>1, <2>2, <2>3, <2>4, LastReplaced, Zenon
<1>11. ASSUME NEW r \in Records(new)
       PROVE  r \in Records(ss) /\ (r.i < ss[Len(ss)].start \/ \E n \in 1 .. k : r = old[n])
  BY <1>2, <1>3, <1>4, <1>5, <1>10
<1>12. ASSUME NEW r \in Records(ss)
       PROVE  r \in Records(new) \/ \E n \in k + 1 .. Len(old) : r = old[n]
  <2>1. CASE r \in Records(new) BY <2>1
  <2>2. CASE \E n \in DOMAIN old : r = old[n]
    <3>1. PICK n \in DOMAIN old : r = old[n] BY <2>2
    <3>2. CASE n <= k BY <1>2, <1>3, <1>4, <1>10, <3>1, <3>2
    <3>3. CASE ~ (n <= k) BY <1>2, <3>1, <3>3
    <3> QED BY <3>2, <3>3
  <2> QED BY <1>10, <2>1, <2>2 DEF old
<1> QED BY <1>3, <1>6, <1>10, <1>11, <1>12 DEF old, recs, new

\* The segments from the m-th on, when those before it hold nothing above u.
LEMMA FromSegment ==
    ASSUME NEW ss \in Seq(Segment), Layout(ss), NEW m \in 1 .. Len(ss), NEW u \in Nat,
           \A s \in 1 .. m - 1 : ss[s].recs # <<>> /\ ss[s].recs[Len(ss[s].recs)].i <= u
    PROVE  LET new == SubSeq(ss, m, Len(ss))
           IN  /\ new \in Seq(Segment) /\ Layout(new) /\ new # <<>>
               /\ new[Len(new)] = ss[Len(ss)]
               /\ Records(new) \subseteq Records(ss)
               /\ \A r \in Records(ss) : r.i > u => r \in Records(new)
<1> DEFINE new == SubSeq(ss, m, Len(ss))
           f == [n \in 1 .. Len(new) |-> m + n - 1]
<1>1. Len(ss) \in Nat /\ m \in Nat /\ m <= Len(ss) /\ m > 0 /\ DOMAIN ss = 1 .. Len(ss) BY SegmentShape
<1>2. /\ new \in Seq(Segment) /\ Len(new) = Len(ss) - m + 1
      /\ \A n \in 1 .. Len(new) : new[n] = ss[m + n - 1]
  <2>1. \A n \in m .. Len(ss) : ss[n] \in Segment BY <1>1, ElementOfSeq
  <2> QED BY <1>1, <2>1, SubSeqProperties
<1> HIDE DEF new
<1>3. Len(new) \in Nat /\ new # <<>> /\ new[Len(new)] = ss[Len(ss)]
  <2>1. Len(new) \in 1 .. Len(new) /\ m + Len(new) - 1 = Len(ss) BY <1>1, <1>2
  <2> QED BY <1>2, <2>1, EmptySeq
<1>4. f \in [1 .. Len(new) -> 1 .. Len(ss)] BY <1>1, <1>2
<1>5. \A a, b \in 1 .. Len(new) : a < b => f[a] < f[b] BY <1>1, <1>3
<1>6. \A n \in 1 .. Len(new) : new[n] = ss[f[n]] BY <1>2
<1>7. \A s \in 1 .. Len(ss) : (\A n \in 1 .. Len(new) : f[n] # s) => s \in 1 .. m - 1
  <2>1. SUFFICES ASSUME NEW s \in 1 .. Len(ss), s >= m
                 PROVE  \E n \in 1 .. Len(new) : f[n] = s
    BY <1>1
  <2>2. s - m + 1 \in 1 .. Len(new) /\ m + (s - m + 1) - 1 = s BY <1>1, <1>2, <2>1
  <2> QED BY <2>2
<1> HIDE DEF f
<1>8. /\ Layout(new) /\ Records(new) \subseteq Records(ss)
      /\ \A r \in Records(ss) :
            \/ r \in Records(new)
            \/ \E s \in DOMAIN ss :
                /\ \A n \in 1 .. Len(new) : f[n] # s
                /\ \E n \in DOMAIN ss[s].recs : r = ss[s].recs[n]
  <2>1. new \in Seq(Segment) BY <1>2
  <2> QED BY <1>4, <1>5, <1>6, <2>1, Selected, SMTT(60)
<1>9. ASSUME NEW r \in Records(ss), r.i > u PROVE r \in Records(new)
  <2>1. SUFFICES ASSUME r \notin Records(new) PROVE FALSE OBVIOUS
  <2>2. PICK s \in DOMAIN ss : /\ \A n \in 1 .. Len(new) : f[n] # s
                               /\ \E n \in DOMAIN ss[s].recs : r = ss[s].recs[n]
    BY <1>8, <2>1
  <2>3. PICK n \in DOMAIN ss[s].recs : r = ss[s].recs[n] BY <2>2
  <2>4. s \in 1 .. m - 1 /\ s \in 1 .. Len(ss) BY <1>1, <1>7, <2>2
  <2>5. ss[s].recs \in Seq(Entry) /\ ss[s].recs # <<>> /\ ss[s].recs[Len(ss[s].recs)].i <= u
    BY <2>4, SegmentShape
  <2>6. PICK e \in Nat : e = Len(ss[s].recs) /\ e \in DOMAIN ss[s].recs /\ n \in Nat /\ n <= e
    BY <2>3, <2>4, <2>5, SegmentShape, EmptySeq
  <2>7. ss[s].recs[e].i \in Nat /\ r.i \in Nat BY <2>4, <2>6, SegmentShape, RecordShape
  <2>8. n < e => r.i < ss[s].recs[e].i BY <2>2, <2>3, <2>6 DEF Layout, Ascending
  <2>9. r.i <= ss[s].recs[e].i BY <2>3, <2>6, <2>7, <2>8
  <2> QED BY <1>9, <2>5, <2>6, <2>7, <2>9
<1> QED BY <1>2, <1>3, <1>8, <1>9 DEF new

\* A segment taken out.
LEMMA TakenOut ==
    ASSUME NEW ss \in Seq(Segment), Layout(ss), NEW s \in 1 .. Len(ss)
    PROVE  LET new == RemoveAt(ss, s)
           IN  /\ new \in Seq(Segment) /\ Layout(new)
               /\ Records(new) \subseteq Records(ss)
               /\ \A r \in Records(ss) : r \in Records(new) \/ r.i >= ss[s].start
<1> DEFINE a == SubSeq(ss, 1, s - 1)
           b == SubSeq(ss, s + 1, Len(ss))
           new == RemoveAt(ss, s)
           f == [n \in 1 .. Len(new) |-> IF n < s THEN n ELSE n + 1]
<1>1. Len(ss) \in Nat /\ s \in Nat /\ s > 0 /\ s <= Len(ss) /\ DOMAIN ss = 1 .. Len(ss) BY SegmentShape
<1>2. a \in Seq(Segment) /\ Len(a) = s - 1 /\ \A n \in 1 .. s - 1 : a[n] = ss[n]
  <2>1. \A n \in 1 .. s - 1 : ss[n] \in Segment BY <1>1, ElementOfSeq
  <2>2. /\ SubSeq(ss, 1, s - 1) \in Seq(Segment)
        /\ Len(SubSeq(ss, 1, s - 1)) = IF 1 <= s - 1 THEN s - 1 - 1 + 1 ELSE 0
        /\ \A n \in 1 .. s - 1 - 1 + 1 : SubSeq(ss, 1, s - 1)[n] = ss[1 + n - 1]
    BY <1>1, <2>1, SubSeqProperties
  <2> QED BY <1>1, <2>2
<1>3. b \in Seq(Segment) /\ Len(b) = Len(ss) - s /\ \A n \in 1 .. Len(ss) - s : b[n] = ss[s + n]
  <2>1. \A n \in s + 1 .. Len(ss) : ss[n] \in Segment BY <1>1, ElementOfSeq
  <2>2. /\ SubSeq(ss, s + 1, Len(ss)) \in Seq(Segment)
        /\ Len(SubSeq(ss, s + 1, Len(ss))) = IF s + 1 <= Len(ss) THEN Len(ss) - (s + 1) + 1 ELSE 0
        /\ \A n \in 1 .. Len(ss) - (s + 1) + 1 : SubSeq(ss, s + 1, Len(ss))[n] = ss[s + 1 + n - 1]
    BY <1>1, <2>1, SubSeqProperties
  <2>3. Len(b) = Len(ss) - s
    <3>1. Len(b) = IF s + 1 <= Len(ss) THEN Len(ss) - (s + 1) + 1 ELSE 0 BY <2>2
    <3>2. CASE s + 1 <= Len(ss)
      <4>1. Len(b) = Len(ss) - (s + 1) + 1 BY <3>1, <3>2
      <4>2. Len(ss) - (s + 1) + 1 = Len(ss) - s BY <1>1
      <4> QED BY <4>1, <4>2
    <3>3. CASE ~ (s + 1 <= Len(ss))
      <4>1. Len(b) = 0 BY <3>1, <3>3
      <4>2. PICK e \in Nat : e = Len(ss) BY <1>1
      <4>3. s \in Nat /\ s <= e /\ ~ (s + 1 <= e) BY <1>1, <3>3, <4>2
      <4>4. e - s = 0 BY <4>3
      <4> QED BY <4>1, <4>2, <4>4
    <3> QED BY <3>2, <3>3
  <2>4. ASSUME NEW n \in 1 .. Len(ss) - s PROVE b[n] = ss[s + n]
    <3>1. n \in 1 .. Len(ss) - (s + 1) + 1 /\ s + 1 + n - 1 = s + n BY <1>1
    <3> QED BY <2>2, <3>1
  <2> QED BY <2>2, <2>3, <2>4
<1>4. new = a \o b BY DEF RemoveAt
<1> HIDE DEF a, b, new
<1>5. /\ new \in Seq(Segment) /\ Len(new) = Len(ss) - 1
      /\ \A n \in 1 .. Len(ss) - 1 : new[n] = IF n <= s - 1 THEN a[n] ELSE b[n - (s - 1)]
  <2>1. /\ a \o b \in Seq(Segment) /\ Len(a \o b) = Len(a) + Len(b)
        /\ \A n \in 1 .. Len(a) + Len(b) : (a \o b)[n] = IF n <= Len(a) THEN a[n] ELSE b[n - Len(a)]
    BY <1>2, <1>3, ConcatProperties
  <2>2. Len(a) + Len(b) = Len(ss) - 1 BY <1>1, <1>2, <1>3
  <2> QED BY <1>2, <1>4, <2>1, <2>2
<1>6. \A n \in 1 .. Len(new) : new[n] = IF n < s THEN ss[n] ELSE ss[n + 1]
  <2>1. SUFFICES ASSUME NEW n \in 1 .. Len(new)
                 PROVE  new[n] = IF n < s THEN ss[n] ELSE ss[n + 1]
    OBVIOUS
  <2>2. CASE n < s BY <1>1, <1>2, <1>5, <2>2
  <2>3. CASE ~ (n < s)
    <3>1. n - (s - 1) \in 1 .. Len(ss) - s /\ s + (n - (s - 1)) = n + 1 BY <1>1, <1>5, <2>3
    <3>2. new[n] = b[n - (s - 1)]
      <4>1. n \in 1 .. Len(ss) - 1 /\ ~ (n <= s - 1) BY <1>1, <1>5, <2>3
      <4> QED BY <1>5, <4>1
    <3> QED BY <1>3, <2>3, <3>1, <3>2
  <2> QED BY <2>2, <2>3
<1>7. f \in [1 .. Len(new) -> 1 .. Len(ss)] BY <1>1, <1>5
<1>8. \A x, y \in 1 .. Len(new) : x < y => f[x] < f[y] BY <1>1, <1>5
<1>9. \A n \in 1 .. Len(new) : new[n] = ss[f[n]] BY <1>6
<1>10. \A p \in 1 .. Len(ss) : (\A n \in 1 .. Len(new) : f[n] # p) => p = s
  <2>1. SUFFICES ASSUME NEW p \in 1 .. Len(ss), p # s
                 PROVE  \E n \in 1 .. Len(new) : f[n] = p
    BY <1>1
  <2>2. CASE p < s
    <3>1. p \in 1 .. Len(new) BY <1>1, <1>5, <2>2
    <3> QED BY <2>2, <3>1
  <2>3. CASE p > s
    <3>1. p - 1 \in 1 .. Len(new) /\ ~ (p - 1 < s) /\ p - 1 + 1 = p BY <1>1, <1>5, <2>3
    <3> QED BY <3>1
  <2> QED BY <1>1, <2>1, <2>2, <2>3
<1> HIDE DEF f
<1>11. /\ Layout(new) /\ Records(new) \subseteq Records(ss)
       /\ \A r \in Records(ss) :
             \/ r \in Records(new)
             \/ \E p \in DOMAIN ss :
                 /\ \A n \in 1 .. Len(new) : f[n] # p
                 /\ \E n \in DOMAIN ss[p].recs : r = ss[p].recs[n]
  <2>1. new \in Seq(Segment) BY <1>5
  <2> QED BY <1>7, <1>8, <1>9, <2>1, Selected, SMTT(60)
<1>12. ASSUME NEW r \in Records(ss), r \notin Records(new) PROVE r.i >= ss[s].start
  <2>1. PICK p \in DOMAIN ss : /\ \A n \in 1 .. Len(new) : f[n] # p
                               /\ \E n \in DOMAIN ss[p].recs : r = ss[p].recs[n]
    BY <1>11, <1>12
  <2>2. p = s BY <1>1, <1>10, <2>1
  <2>3. ss[s].start <= r.i BY <1>1, <2>1, <2>2 DEF Layout
  <2>4. ss[s].start \in Nat /\ r.i \in Nat BY SegmentShape, RecordShape
  <2> QED BY <2>3, <2>4
<1> QED BY <1>5, <1>11, <1>12 DEF new

-----------------------------------------------------------------------------
(* The initial state, and the parts a step leaves alone. *)

LEMMA LastEntry ==
    ASSUME Shape, Layout(segs)
    PROVE  IsLast(segs, purged, LastIndex) /\ LastIndex \in Nat /\ LastIndex <= MaxIndex
<1>1. segs \in Seq(Segment) /\ purged \in Index BY DEF Shape
<1>2. IsLast(segs, purged, LastIndex) BY <1>1, LastProps DEF LastIndex, Log
<1> QED BY <1>2, RaftStoreAssumption DEF IsLast, Index

LEMMA LastEntryNext ==
    ASSUME Shape', Layout(segs')
    PROVE  IsLast(segs', purged', LastIndex')
<1>1. segs' \in Seq(Segment) /\ purged' \in Index BY DEF Shape
<1> QED BY <1>1, LastProps DEF LastIndex, Log

\* The index over the segments: what Log is.
LEMMA LogProps ==
    ASSUME Shape, Layout(segs)
    PROVE  /\ \A j : j \in DOMAIN Log <=> \E r \in Records(segs) : r.i = j /\ r.i > purged
           /\ \A r \in Records(segs) : r.i > purged => Log[r.i] = r.t
<1>1. segs \in Seq(Segment) BY DEF Shape
<1> QED BY <1>1, IndexProps DEF Log

LEMMA LogFrame ==
    ASSUME LogWhole, UNCHANGED <<setup, status, chosen, segs, synced, purged, acked, core, committed, known>>
    PROVE  LogWhole'
<1>1. LastIndex' = LastIndex /\ Active' = Active BY DEF LastIndex, Log, Active
<1>2. Layout(segs)' BY DEF LogWhole
<1>3. Untruncated' BY <1>1 DEF LogWhole, Untruncated
<1>4. Truncating' BY DEF LogWhole, Truncating, KnownCommitted
<1>5. Agreement' BY DEF LogWhole, Agreement
<1>6. Unreported' BY <1>1 DEF LogWhole, Unreported
<1>7. Fsynced' BY <1>1 DEF LogWhole, Fsynced, Reported, AsyncDurability
<1> QED BY <1>2, <1>3, <1>4, <1>5, <1>6, <1>7 DEF LogWhole

LEMMA MarksFrame ==
    ASSUME Marks, UNCHANGED <<status, torn, chosen, committed, marker, purged, known, acked,
                              applied, engine, core, install>>
    PROVE  Marks'
BY DEF Marks, Covered, KnownCommitted

LEMMA SnapshotsFrame ==
    ASSUME Snapshots, UNCHANGED <<chosen, acked, purged, committed, known, applied, files, ptr, current,
                                  counter, build, install>>
    PROVE  Snapshots'
BY DEF Snapshots, Covered, KnownCommitted, Named, BuildSound, InstallSound, NextFile

LEMMA InitInv ==
    ASSUME Init
    PROVE  Inv
<1>1. Shape
  <2>1. MaxIndex \in Nat /\ 0 \in Index BY RaftStoreAssumption DEF Index
  <2>2. segs \in Seq(Segment)
    <3>1. [start |-> 1, recs |-> <<>>] \in Segment BY DEF Segment
    <3> QED BY <3>1 DEF Init
  <2>3. NoFile \in Pointer BY DEF NoFile, Pointer, FileName
  <2>4. Idle \in CoreSteps BY DEF Idle, CoreSteps
  <2>5. chosen \in Seq(Nat) /\ engine \in Seq(Nat) BY DEF Init
  <2>6. marker \in [purged : Nat, committed : Nat] BY DEF Init
  <2> QED BY <2>1, <2>2, <2>3, <2>4, <2>5, <2>6 DEF Init, Shape
<1>2. LogWhole
  <2>1. Len(segs) = 1 /\ DOMAIN segs = {1} /\ segs # <<>> /\ Active = [start |-> 1, recs |-> <<>>]
    BY DEF Init, Active
  <2>2. Records(segs) = {} BY <2>1, RecordPlace DEF Init
  <2>3. Layout(segs) BY <2>1 DEF Init, Layout, Ascending
  <2>4. LastIndex = 0
    <3>1. IsLast(segs, purged, LastIndex) BY <1>1, <2>3, LastEntry
    <3> QED BY <2>2, <3>1 DEF Init, IsLast
  <2>5. core.op = "idle" BY DEF Init, Idle
  <2>6. Untruncated BY <2>1, <2>4 DEF Init, Untruncated, NoGap
  <2>7. Truncating /\ Agreement /\ Unreported
    BY <2>2, <2>5 DEF Truncating, Agreement, Unreported
  <2>8. Fsynced BY <2>1, <2>5 DEF Init, Fsynced, Reported
  <2> QED BY <2>3, <2>6, <2>7, <2>8 DEF LogWhole
<1>3. Marks BY DEF Init, Marks, Covered, KnownCommitted, Idle
<1>4. Snapshots
  BY DEF Init, Snapshots, Covered, KnownCommitted, Named, BuildSound, InstallSound, Idle, NoFile
<1> QED BY <1>1, <1>2, <1>3, <1>4 DEF Inv

-----------------------------------------------------------------------------
(* The core task. *)

\* The terms of the group's entries.
LEMMA ChosenTerm ==
    ASSUME Shape, NEW i \in Nat, i > 0, i <= Len(chosen)
    PROVE  chosen[i] \in Nat
<1>1. chosen \in Seq(Nat) /\ Len(chosen) \in Nat BY LenProperties DEF Shape
<1> QED BY <1>1, ElementOfSeq

\* A state whose log has one more record, after all the others.
LEMMA AppendWriteStep ==
    ASSUME Inv, AppendWrite
    PROVE  Inv'
<1>0. Shape /\ LogWhole /\ Marks /\ Snapshots /\ Layout(segs) BY DEF Inv, LogWhole
<1>1. PICK l \in Nat : l = LastIndex /\ l <= MaxIndex BY <1>0, LastEntry
<1>2. IsLast(segs, purged, l) BY <1>0, <1>1, LastEntry
<1>3. /\ l < MaxIndex /\ status = "up" /\ core.op = "idle" /\ core' = [op |-> "append"]
      /\ UNCHANGED <<setup, status, chosen, term, torn, marker, files, ptr, purged, committed,
                     dirty, acked, engine, applied, current, counter, known, build, install>>
  BY <1>1 DEF AppendWrite, CoreIdle, Idle
<1>4. segs \in Seq(Segment) /\ segs # <<>> /\ purged \in Nat /\ acked \in Nat /\ synced \in Nat
  BY <1>0, <1>3 DEF Shape, Index, LogWhole, Untruncated
<1>5. Active.start <= l + 1 /\ NoGap(segs, purged, l) /\ acked <= l
  BY <1>0, <1>1, <1>3 DEF LogWhole, Untruncated
<1> DEFINE rec == [i |-> l + 1, t |-> IF l < Len(chosen) THEN chosen[l + 1] ELSE term]
<1>6. rec \in Entry /\ rec.i = l + 1
  <2>1. l + 1 \in 1 .. MaxIndex BY <1>1, <1>3, RaftStoreAssumption
  <2>2. Len(chosen) \in Nat BY <1>0, LenProperties DEF Shape
  <2>3. l < Len(chosen) => chosen[l + 1] \in Nat BY <1>0, <2>2, ChosenTerm
  <2>4. term \in Nat BY <1>0 DEF Shape
  <2> QED BY <2>1, <2>3, <2>4 DEF Entry
<1>7. \A r \in Records(segs) : r.i < rec.i
  <2>1. \A r \in Records(segs) : r.i \in Nat BY <1>4, RecordShape
  <2> QED BY <1>1, <1>2, <1>4, <1>6, <2>1 DEF IsLast
<1>8. rec.i <= Len(chosen) => rec.t = chosen[rec.i]
  <2>1. Len(chosen) \in Nat BY <1>0, LenProperties DEF Shape
  <2> QED BY <1>1, <2>1
<1> HIDE DEF rec
<1>9. /\ segs' \in Seq(Segment) /\ Layout(segs') /\ segs' # <<>>
      /\ \A r : r \in Records(segs') <=> r \in Records(segs) \/ r = rec
      /\ Active'.start <= l + 1
      /\ Active'.recs \in Seq(Entry) /\ Active'.recs # <<>>
      /\ Active'.recs[Len(Active'.recs)] = rec
      /\ synced' \in Nat
      /\ (setup.power /\ TRUE \notin AsyncDurability => synced' >= Len(Active'.recs) - 1)
  <2>1. CASE Len(Active.recs) = SegRecords
    <3>1. segs' = Append(segs, [start |-> rec.i, recs |-> <<rec>>]) /\ synced' = 0
      BY <1>1, <2>1 DEF AppendWrite, rec
    <3>2. /\ segs' \in Seq(Segment) /\ Layout(segs') /\ segs' # <<>>
          /\ Active' = [start |-> rec.i, recs |-> <<rec>>]
          /\ \A r : r \in Records(segs') <=> r \in Records(segs) \/ r = rec
      BY <1>0, <1>4, <1>6, <1>7, <3>1, Rolled DEF Active
    <3>3. <<rec>> \in Seq(Entry) /\ Len(<<rec>>) = 1 /\ <<rec>>[1] = rec /\ <<rec>> # <<>>
      BY <1>6
    <3> QED BY <1>1, <1>6, <3>1, <3>2, <3>3
  <2>2. CASE Len(Active.recs) # SegRecords
    <3>1. segs' = WithLast(segs, Append(segs[Len(segs)].recs, rec)) /\ synced' = synced
      BY <1>1, <2>2 DEF AppendWrite, rec, WithLast, Active
    <3>2. /\ segs' \in Seq(Segment) /\ Layout(segs') /\ segs' # <<>>
          /\ Active'.start = Active.start /\ Active'.recs = Append(Active.recs, rec)
          /\ \A r : r \in Records(segs') <=> r \in Records(segs) \/ r = rec
      BY <1>0, <1>4, <1>5, <1>6, <1>7, <3>1, Grown DEF Active
    <3>3. Active.recs \in Seq(Entry) /\ Len(Active.recs) \in Nat
      BY <1>4, EmptySeq, SegmentShape DEF Active
    <3>4. /\ Active'.recs \in Seq(Entry) /\ Active'.recs # <<>>
          /\ Len(Active'.recs) = Len(Active.recs) + 1
          /\ Active'.recs[Len(Active.recs) + 1] = rec
      BY <1>6, <3>2, <3>3, AppendProperties
    <3>5. setup.power /\ TRUE \notin AsyncDurability => synced >= Len(Active.recs)
      BY <1>0, <1>3, <1>4, <3>3 DEF LogWhole, Fsynced, Reported
    <3>6. synced >= Len(Active.recs) => synced' >= Len(Active'.recs) - 1
      BY <1>4, <3>1, <3>3, <3>4
    <3>7. /\ synced' \in Nat /\ Active'.start <= l + 1
          /\ Active'.recs[Len(Active'.recs)] = rec
      BY <1>4, <1>5, <3>1, <3>2, <3>4
    <3> QED BY <3>2, <3>4, <3>5, <3>6, <3>7
  <2> QED BY <2>1, <2>2
<1>10. Shape'
  BY <1>0, <1>3, <1>9 DEF Shape, CoreSteps
<1>11. LastIndex' = l + 1
  <2>1. IsLast(segs', purged', LastIndex') BY <1>9, <1>10, LastEntryNext
  <2>2. IsLast(segs', purged', l + 1)
    <3>1. l + 1 \in Index /\ purged' <= l + 1 /\ purged' = purged
      BY <1>1, <1>2, <1>3, <1>4, RaftStoreAssumption DEF IsLast, Index
    <3>2. \A r \in Records(segs') : r.i \in Nat BY <1>9, RecordShape
    <3>3. \A r \in Records(segs') : r.i > purged => r.i <= l + 1
      BY <1>1, <1>2, <1>6, <1>9, <3>2 DEF IsLast
    <3> QED BY <1>6, <1>9, <3>1, <3>3 DEF IsLast
  <2>3. purged' \in Index BY <1>10 DEF Shape
  <2> QED BY <1>9, <2>1, <2>2, <2>3, LastUnique
<1>12. LogWhole'
  <2>1. NoGap(segs', purged, l + 1) BY <1>1, <1>4, <1>5, <1>6, <1>9 DEF NoGap
  <2>2. Untruncated'
    <3>1. Active'.start \in Nat BY <1>9, EmptySeq, SegmentShape DEF Active
    <3>2. Active'.start <= l + 1 + 1 /\ acked <= l + 1 BY <1>1, <1>4, <1>5, <1>9, <3>1
    <3> QED BY <1>3, <1>9, <1>11, <2>1, <3>2 DEF Untruncated
  <2>3. Truncating' BY <1>3 DEF Truncating
  <2>4. Agreement' BY <1>0, <1>3, <1>8, <1>9 DEF LogWhole, Agreement
  <2>5. Unreported'
    <3>1. acked < l + 1 /\ purged < l + 1 BY <1>1, <1>2, <1>4, <1>5 DEF IsLast
    <3> QED BY <1>3, <1>6, <1>9, <1>11, <3>1 DEF Unreported
  <2>6. Fsynced' BY <1>3, <1>9 DEF Fsynced, Reported, AsyncDurability
  <2> QED BY <1>9, <2>2, <2>3, <2>4, <2>5, <2>6 DEF LogWhole
<1>13. Marks' BY <1>0, <1>3 DEF Marks, Covered, KnownCommitted
<1>14. Snapshots' BY <1>0, <1>3, SnapshotsFrame
<1> QED BY <1>10, <1>12, <1>13, <1>14 DEF Inv

\* The record is reported flushed.
LEMMA AppendFlushedStep ==
    ASSUME Inv, AppendFlushed
    PROVE  Inv'
<1>0. Shape /\ LogWhole /\ Marks /\ Snapshots /\ Layout(segs) BY DEF Inv, LogWhole
<1>1. /\ status = "up" /\ core.op = "append" /\ core' = Idle
      /\ (synced' = synced \/ synced' = Len(Active.recs)) /\ acked' = LastIndex
      /\ (TRUE \notin AsyncDurability => synced' = Len(Active.recs))
      /\ UNCHANGED <<setup, status, chosen, term, segs, torn, marker, files, ptr, purged,
                     committed, engine, applied, current, counter, known, build, install>>
  BY DEF AppendFlushed, SyncedOnAck, AsyncDurability
<1>2. /\ segs \in Seq(Segment) /\ segs # <<>> /\ acked \in Nat /\ LastIndex \in Nat
      /\ acked <= LastIndex
  BY <1>0, <1>1, LastEntry DEF Shape, LogWhole, Untruncated
<1>3. LastIndex' = LastIndex /\ Active' = Active BY <1>1 DEF LastIndex, Log, Active
<1>4. Len(Active.recs) \in Nat BY <1>2, EmptySeq, SegmentShape DEF Active
<1>5. synced' \in Nat BY <1>0, <1>1, <1>4 DEF Shape
<1>6. Shape' BY <1>0, <1>1, <1>2, <1>5 DEF Shape, CoreSteps, Idle
<1>7. LogWhole'
  <2>1. Untruncated' BY <1>0, <1>1, <1>2, <1>3 DEF LogWhole, Untruncated
  <2>2. Truncating' /\ Unreported' BY <1>1 DEF Truncating, Unreported, Idle
  <2>3. Agreement' BY <1>0, <1>1 DEF LogWhole, Agreement
  <2>4. Fsynced'
    <3>1. Reported' = Len(Active.recs) - 0 BY <1>1, <1>3 DEF Reported, Idle
    <3>2. AsyncDurability' = AsyncDurability BY <1>1 DEF AsyncDurability
    <3> QED BY <1>1, <1>4, <3>1, <3>2 DEF Fsynced
  <2> QED BY <1>0, <1>1, <2>1, <2>2, <2>3, <2>4 DEF LogWhole
<1>8. \A i \in Nat : Covered(i) => Covered(i)'
  BY <1>0, <1>1, <1>2 DEF Covered, KnownCommitted, Shape
<1>9. Marks' BY <1>0, <1>1, <1>8 DEF Marks, Shape, Idle
<1>10. Snapshots'
  <2>1. ptr.idx \in Nat /\ (build # Idle => build.idx \in Nat)
    BY <1>0 DEF Shape, Pointer, Building
  <2> QED BY <1>0, <1>1, <1>8, <2>1
      DEF Snapshots, Named, BuildSound, InstallSound, NextFile
<1> QED BY <1>6, <1>7, <1>9, <1>10 DEF Inv

\* The background flusher.
LEMMA FlushStep ==
    ASSUME Inv, Flush
    PROVE  Inv'
<1>0. Shape /\ LogWhole /\ Marks /\ Snapshots /\ Layout(segs) BY DEF Inv, LogWhole
<1>1. /\ status = "up" /\ core.op = "idle" /\ synced' = Len(Active.recs)
      /\ marker' = IF dirty THEN [purged |-> purged, committed |-> committed] ELSE marker
      /\ UNCHANGED <<setup, status, chosen, term, segs, torn, files, ptr, purged, committed,
                     acked, core, engine, applied, current, counter, known, build, install>>
  BY DEF Flush, CoreIdle, Idle
<1>2. segs \in Seq(Segment) /\ segs # <<>> BY <1>0, <1>1 DEF Shape, LogWhole, Untruncated
<1>3. LastIndex' = LastIndex /\ Active' = Active BY <1>1 DEF LastIndex, Log, Active
<1>4. Len(Active.recs) \in Nat BY <1>2, EmptySeq, SegmentShape DEF Active
<1>5. purged \in Nat /\ committed \in Nat /\ marker \in [purged : Nat, committed : Nat]
  BY <1>0, RaftStoreAssumption DEF Shape, Index
<1>6. /\ marker' \in [purged : Nat, committed : Nat]
      /\ marker'.committed <= committed /\ marker'.purged = purged
  BY <1>0, <1>1, <1>5 DEF Marks
<1>7. Shape' BY <1>0, <1>1, <1>4, <1>6 DEF Shape
<1>8. LogWhole'
  <2>1. Untruncated' /\ Truncating' /\ Agreement' /\ Unreported'
    BY <1>0, <1>1, <1>3 DEF LogWhole, Untruncated, Truncating, Agreement, Unreported
  <2>2. Fsynced'
    <3>1. Reported' = Len(Active.recs) - 0 BY <1>1, <1>3 DEF Reported
    <3> QED BY <1>1, <1>4, <3>1 DEF Fsynced
  <2> QED BY <1>0, <1>1, <2>1, <2>2 DEF LogWhole
<1>9. Marks' BY <1>0, <1>1, <1>5, <1>6 DEF Marks, Covered, KnownCommitted
<1>10. Snapshots' BY <1>0, <1>1, SnapshotsFrame
<1> QED BY <1>7, <1>8, <1>9, <1>10 DEF Inv

\* The group's entries only grow.
LEMMA Extended ==
    ASSUME NEW c \in Seq(Nat), NEW d \in Seq(Nat)
    PROVE  /\ c \o d \in Seq(Nat) /\ Len(c \o d) = Len(c) + Len(d)
           /\ \A x \in Nat : x <= Len(c) => SubSeq(c \o d, 1, x) = SubSeq(c, 1, x)
           /\ \A x \in 1 .. Len(c) : (c \o d)[x] = c[x]
           /\ \A x \in 1 .. Len(d) : (c \o d)[Len(c) + x] = d[x]
<1>1. Len(c) \in Nat /\ Len(d) \in Nat BY LenProperties
<1>2. c \o d \in Seq(Nat) /\ Len(c \o d) = Len(c) + Len(d) BY ConcatProperties
<1>3. ASSUME NEW x \in Nat, x <= Len(c) PROVE SubSeq(c \o d, 1, x) = SubSeq(c, 1, x)
  <2>1. CASE x = 0 BY <2>1, SubSeqEmpty
  <2>2. CASE x # 0
    <3>1. x \in 1 .. Len(c) /\ 1 \in 1 .. Len(c) BY <1>1, <1>3, <2>2
    <3> QED BY <3>1, SubSeqOfConcat1
  <2> QED BY <2>1, <2>2
<1>4. \A x \in 1 .. Len(c) : (c \o d)[x] = c[x] BY <1>1, ConcatProperties
<1>5. \A x \in 1 .. Len(d) : (c \o d)[Len(c) + x] = d[x] BY <1>1, ConcatProperties
<1> QED BY <1>2, <1>3, <1>4, <1>5

\* Snapshots stay what they were when the group commits more.
LEMMA SnapshotsGrow ==
    ASSUME Shape, Snapshots, chosen' \in Seq(Nat),
           Len(chosen') >= Len(chosen),
           \A x \in Nat : x <= Len(chosen) => SubSeq(chosen', 1, x) = SubSeq(chosen, 1, x),
           committed' \in Nat, committed <= committed',
           UNCHANGED <<acked, purged, known, applied, files, ptr, current, counter, build, install>>
    PROVE  Snapshots'
<1>1. Len(chosen) \in Nat /\ Len(chosen') \in Nat BY LenProperties DEF Shape
<1>2. ptr.idx \in Nat BY DEF Shape, Pointer
<1>3. build # Idle => build.idx \in Nat BY DEF Shape, Building
<1>4. install # Idle => install.idx \in Nat BY DEF Shape, Adopting, Adopted
<1>5. \A i \in Nat : Covered(i) => Covered(i)'
  <2>1. committed \in Nat /\ known \in Nat BY DEF Shape
  <2> QED BY <1>1, <2>1 DEF Covered, KnownCommitted
<1>6. Covered(ptr.idx)' /\ Named(ptr)'
  BY <1>2, <1>5 DEF Snapshots, Named, Covered
<1>7. BuildSound' BY <1>3, <1>5 DEF Snapshots, BuildSound, Covered
<1>8. InstallSound'
  <2>1. SUFFICES ASSUME install # Idle PROVE InstallSound' BY DEF InstallSound
  <2>2. /\ install.idx <= Len(chosen')
        /\ SubSeq(chosen', 1, install.idx) = SubSeq(chosen, 1, install.idx)
    BY <1>1, <1>4, <2>1 DEF Snapshots, InstallSound
  <2> QED BY <2>1, <2>2 DEF Snapshots, InstallSound, NextFile
<1> QED BY <1>6, <1>7, <1>8 DEF Snapshots

\* The group commits what this member was the last to need, or catches it up.
LEMMA CommitStep ==
    ASSUME Inv, NEW i \in 1 .. MaxIndex, Commit(i)
    PROVE  Inv'
<1>0. Shape /\ LogWhole /\ Marks /\ Snapshots /\ Layout(segs) BY DEF Inv, LogWhole
<1>1. /\ status = "up" /\ core.op = "idle" /\ i > committed /\ i > known /\ i <= acked
      /\ committed' = i
      /\ chosen' = IF i <= Len(chosen) THEN chosen
                   ELSE chosen \o [k \in 1 .. i - Len(chosen) |-> Log[Len(chosen) + k]]
      /\ marker' = [purged |-> purged, committed |-> i] \/ marker' = marker
      /\ UNCHANGED <<setup, status, term, segs, synced, torn, files, ptr, purged, acked, core,
                     engine, applied, current, counter, known, build, install>>
  BY DEF Commit, CoreIdle, Idle
<1>2. /\ i \in Nat /\ purged \in Nat /\ committed \in Nat /\ acked \in Nat /\ applied \in Nat
      /\ known \in Nat /\ Len(chosen) \in Nat /\ chosen \in Seq(Nat) /\ segs \in Seq(Segment)
      /\ marker.purged \in Nat /\ marker.committed \in Nat
  BY <1>0, LenProperties, RaftStoreAssumption DEF Shape, Index
<1>3. PICK l \in Nat : l = LastIndex BY <1>0, LastEntry
<1>4. NoGap(segs, purged, l) /\ acked <= l /\ purged <= Len(chosen)
  BY <1>0, <1>1, <1>2, <1>3 DEF LogWhole, Untruncated, Marks
<1>5. \A j \in Nat : j > purged /\ j <= i => \E r \in Records(segs) : r.i = j /\ Log[j] = r.t /\ r.t \in Nat
  <2>1. SUFFICES ASSUME NEW j \in Nat, j > purged, j <= i
                 PROVE  \E r \in Records(segs) : r.i = j /\ Log[j] = r.t /\ r.t \in Nat
    OBVIOUS
  <2>2. PICK r \in Records(segs) : r.i = j BY <1>1, <1>2, <1>4, <2>1 DEF NoGap
  <2>3. Log[r.i] = r.t BY <1>0, <2>1, <2>2, LogProps
  <2>4. r.t \in Nat BY <1>2, RecordShape
  <2> QED BY <2>2, <2>3, <2>4
<1>6. /\ chosen' \in Seq(Nat) /\ Len(chosen') >= Len(chosen) /\ Len(chosen') >= i
      /\ Len(chosen') \in Nat
      /\ \A x \in Nat : x <= Len(chosen) => SubSeq(chosen', 1, x) = SubSeq(chosen, 1, x)
      /\ \A r \in Records(segs) : r.i > purged /\ r.i <= Len(chosen') => r.t = chosen'[r.i]
  <2>1. CASE i <= Len(chosen)
    BY <1>0, <1>1, <1>2, <2>1 DEF LogWhole, Agreement
  <2>2. CASE ~ (i <= Len(chosen))
    <3> DEFINE d == [k \in 1 .. i - Len(chosen) |-> Log[Len(chosen) + k]]
    <3>1. i - Len(chosen) \in Nat BY <1>2, <2>2
    <3>2. \A k \in 1 .. i - Len(chosen) : Log[Len(chosen) + k] \in Nat
      <4>1. SUFFICES ASSUME NEW k \in 1 .. i - Len(chosen) PROVE Log[Len(chosen) + k] \in Nat
        OBVIOUS
      <4>2. PICK j \in Nat : j = Len(chosen) + k /\ j > purged /\ j <= i
        BY <1>2, <1>4, <2>2, <3>1
      <4> QED BY <1>5, <4>2
    <3>3. d \in Seq(Nat) /\ Len(d) = i - Len(chosen) BY <3>1, <3>2
    <3>4. chosen' = chosen \o d BY <1>1, <2>2
    <3>5. \A k \in 1 .. i - Len(chosen) : d[k] = Log[Len(chosen) + k] OBVIOUS
    <3> HIDE DEF d
    <3>6. Len(chosen') = i BY <1>2, <3>3, <3>4, Extended
    <3>7. ASSUME NEW r \in Records(segs), r.i > purged, r.i <= Len(chosen')
          PROVE  r.t = chosen'[r.i]
      <4>1. r.i \in Nat /\ r.i > 0 BY <1>2, RecordShape
      <4>2. CASE r.i <= Len(chosen)
        <5>1. r.t = chosen[r.i] BY <1>0, <3>7, <4>2 DEF LogWhole, Agreement
        <5> QED BY <1>2, <3>3, <3>4, <4>1, <4>2, <5>1, Extended
      <4>3. CASE ~ (r.i <= Len(chosen))
        <5>1. PICK k \in 1 .. i - Len(chosen) : r.i = Len(chosen) + k
          <6>1. r.i - Len(chosen) \in 1 .. i - Len(chosen) BY <1>2, <3>6, <3>7, <4>1, <4>3
          <6>2. r.i = Len(chosen) + (r.i - Len(chosen)) BY <1>2, <4>1
          <6> QED BY <6>1, <6>2
        <5>3. Log[r.i] = r.t BY <1>0, <3>7, LogProps
        <5>4. chosen'[r.i] = d[k] BY <1>2, <3>3, <3>4, <5>1, Extended
        <5> QED BY <3>5, <5>1, <5>3, <5>4
      <4> QED BY <4>2, <4>3
    <3>8. /\ chosen' \in Seq(Nat)
          /\ \A x \in Nat : x <= Len(chosen) => SubSeq(chosen', 1, x) = SubSeq(chosen, 1, x)
      BY <1>2, <3>3, <3>4, Extended
    <3> QED BY <1>2, <2>2, <3>6, <3>7, <3>8
  <2> QED BY <2>1, <2>2
<1>7. /\ marker' \in [purged : Nat, committed : Nat]
      /\ marker'.committed <= i /\ marker'.purged = purged
  BY <1>0, <1>1, <1>2 DEF Shape, Marks
<1>8. Shape' BY <1>0, <1>1, <1>2, <1>6, <1>7 DEF Shape
<1>9. LogWhole'
  <2>1. LastIndex' = LastIndex /\ Active' = Active BY <1>1 DEF LastIndex, Log, Active
  <2>2. Untruncated' /\ Truncating' /\ Unreported'
    BY <1>0, <1>1, <2>1 DEF LogWhole, Untruncated, Truncating, Unreported
  <2>3. Agreement' BY <1>1, <1>6 DEF Agreement
  <2>4. Fsynced' BY <1>0, <1>1, <2>1 DEF LogWhole, Fsynced, Reported, AsyncDurability
  <2> QED BY <1>0, <1>1, <2>2, <2>3, <2>4 DEF LogWhole
<1>10. Marks'
  <2>1. Covered(committed)' BY <1>1, <1>2, <1>6 DEF Covered, KnownCommitted
  <2>2. Covered(applied)' /\ known <= Len(chosen')
    BY <1>0, <1>1, <1>2, <1>6 DEF Marks, Covered, KnownCommitted
  <2>3. engine' = SubSeq(chosen', 1, applied')
    BY <1>0, <1>1, <1>2, <1>6 DEF Marks, Covered
  <2> QED BY <1>0, <1>1, <1>2, <1>7, <2>1, <2>2, <2>3 DEF Marks
<1>11. Snapshots' BY <1>0, <1>1, <1>2, <1>6, SnapshotsGrow
<1> QED BY <1>8, <1>9, <1>10, <1>11 DEF Inv

\* A truncation begins: above all that was committed, below all that stays reported.
LEMMA TruncateBeginStep ==
    ASSUME Inv, NEW i \in 1 .. MaxIndex, TruncateBegin(i)
    PROVE  Inv'
<1>0. Shape /\ LogWhole /\ Marks /\ Snapshots /\ Layout(segs) BY DEF Inv, LogWhole
<1>1. /\ status = "up" /\ core.op = "idle" /\ i \in DOMAIN Log /\ i > Len(chosen)
      /\ term' = term + 1
      /\ acked' = IF acked < i THEN acked ELSE i - 1
      /\ core' = [op |-> "truncate", since |-> i]
      /\ UNCHANGED <<setup, status, chosen, segs, synced, torn, marker, files, ptr, purged,
                     committed, engine, applied, current, counter, known, build, install>>
  BY DEF TruncateBegin, CoreIdle, Idle, disk
<1>2. /\ i \in Nat /\ i > 0 /\ purged \in Nat /\ acked \in Nat /\ Len(chosen) \in Nat
      /\ segs \in Seq(Segment)
  BY <1>0, LenProperties, RaftStoreAssumption DEF Shape, Index
<1>3. PICK l \in Nat : l = LastIndex BY <1>0, LastEntry
<1>4. IsLast(segs, purged, l) BY <1>0, <1>3, LastEntry
<1>5. NoGap(segs, purged, l) BY <1>0, <1>1, <1>3 DEF LogWhole, Untruncated
<1>6. purged < i /\ i <= l
  <2>1. PICK r \in Records(segs) : r.i = i /\ r.i > purged BY <1>0, <1>1, LogProps
  <2> QED BY <1>2, <1>4, <2>1 DEF IsLast
<1>7. acked' \in Nat /\ acked' < i /\ (acked' = acked \/ acked' >= Len(chosen)) BY <1>1, <1>2
<1>8. Shape' BY <1>0, <1>1, <1>2, <1>7 DEF Shape, CoreSteps
<1>9. LogWhole'
  <2>1. Truncating'
    <3>1. NoGap(segs, purged, i - 1) BY <1>2, <1>3, <1>5, <1>6 DEF NoGap
    <3>2. i > KnownCommitted BY <1>0, <1>1, <1>2 DEF KnownCommitted, Marks, Covered, Shape
    <3> QED BY <1>1, <1>2, <1>7, <3>1, <3>2 DEF Truncating, KnownCommitted
  <2>2. Untruncated' /\ Unreported' /\ Fsynced' BY <1>1 DEF Untruncated, Unreported, Fsynced
  <2>3. Agreement' BY <1>0, <1>1 DEF LogWhole, Agreement
  <2> QED BY <1>0, <1>1, <2>1, <2>2, <2>3 DEF LogWhole
<1>10. \A x \in Nat : Covered(x) => Covered(x)' BY <1>1, <1>2, <1>7 DEF Covered, KnownCommitted
<1>11. Marks' BY <1>0, <1>1, <1>10 DEF Marks, Shape
<1>12. Snapshots'
  <2>1. ptr.idx \in Nat /\ (build # Idle => build.idx \in Nat)
    BY <1>0 DEF Shape, Pointer, Building
  <2> QED BY <1>0, <1>1, <1>10, <2>1
      DEF Snapshots, Named, BuildSound, InstallSound, NextFile
<1> QED BY <1>8, <1>9, <1>11, <1>12 DEF Inv

\* A segment from the truncation point on holds nothing below it.
LEMMA TruncateUnlinkStep ==
    ASSUME Inv, TruncateUnlink
    PROVE  Inv'
<1>0. Shape /\ LogWhole /\ Marks /\ Snapshots /\ Layout(segs) BY DEF Inv, LogWhole
<1>1. PICK s \in DOMAIN segs : segs[s].start >= core.since /\ segs' = RemoveAt(segs, s)
  BY DEF TruncateUnlink
<1>2. /\ status = "up" /\ core.op = "truncate" /\ synced' = 0
      /\ UNCHANGED <<setup, status, chosen, term, torn, marker, files, ptr, purged, committed,
                     acked, core, engine, applied, current, counter, known, build, install>>
  BY DEF TruncateUnlink, memory
<1>3. segs \in Seq(Segment) /\ core.since \in Nat /\ purged \in Nat
  BY <1>0, <1>2, RaftStoreAssumption DEF Shape, CoreSteps, Index
<1>4. s \in 1 .. Len(segs) /\ segs[s].start \in Nat BY <1>3, SegmentShape
<1>5. /\ segs' \in Seq(Segment) /\ Layout(segs') /\ Records(segs') \subseteq Records(segs)
      /\ \A r \in Records(segs) : r \in Records(segs') \/ r.i >= segs[s].start
  BY <1>0, <1>1, <1>3, <1>4, TakenOut
<1>6. Shape' BY <1>0, <1>2, <1>5 DEF Shape
<1>7. LogWhole'
  <2>1. Truncating'
    <3>1. NoGap(segs, purged, core.since - 1) BY <1>0, <1>2 DEF LogWhole, Truncating
    <3>2. NoGap(segs', purged, core.since - 1)
      <4>1. ASSUME NEW j \in Nat, purged < j, j <= core.since - 1
            PROVE  \E r \in Records(segs') : r.i = j
        <5>1. PICK r \in Records(segs) : r.i = j BY <3>1, <4>1 DEF NoGap
        <5>2. ~ (r.i >= segs[s].start) BY <1>1, <1>3, <1>4, <4>1, <5>1
        <5> QED BY <1>5, <5>1, <5>2
      <4> QED BY <4>1 DEF NoGap
    <3> QED BY <1>0, <1>2, <3>2 DEF LogWhole, Truncating, KnownCommitted
  <2>2. Untruncated' /\ Unreported' /\ Fsynced' BY <1>2 DEF Untruncated, Unreported, Fsynced
  <2>3. Agreement' BY <1>0, <1>2, <1>5 DEF LogWhole, Agreement
  <2> QED BY <1>5, <2>1, <2>2, <2>3 DEF LogWhole
<1>8. Marks' BY <1>0, <1>2, MarksFrame
<1>9. Snapshots' BY <1>0, <1>2, SnapshotsFrame
<1> QED BY <1>6, <1>7, <1>8, <1>9 DEF Inv

\* What the cut leaves of the segments: all below the truncation point that is not purged,
\* and nothing from it on.
LEMMA CutLeaves ==
    ASSUME Inv, TruncateCut
    PROVE  /\ segs' \in Seq(Segment) /\ Layout(segs') /\ segs' # <<>>
           /\ Active'.start <= core.since
           /\ \A r \in Records(segs') : r \in Records(segs) /\ (r.i < core.since \/ r.i <= purged)
           /\ \A r \in Records(segs) : purged < r.i /\ r.i < core.since => r \in Records(segs')
<1>0. Shape /\ LogWhole /\ Layout(segs) BY DEF Inv, LogWhole
<1>1. /\ core.op = "truncate" /\ \A s \in DOMAIN segs : segs[s].start < core.since
      /\ segs' = IF segs = <<>> THEN <<[start |-> core.since, recs |-> <<>>]>>
                 ELSE WithLast(segs, Survivors(segs[Len(segs)].recs))
  BY DEF TruncateCut, WithLast
<1>2. segs \in Seq(Segment) /\ core.since \in Nat /\ purged \in Nat
  BY <1>0, <1>1, RaftStoreAssumption DEF Shape, CoreSteps, Index
<1>3. CASE segs = <<>>
  <2> DEFINE seg == [start |-> core.since, recs |-> <<>>]
  <2>1. segs' = <<seg>> /\ seg \in Segment BY <1>1, <1>2, <1>3 DEF Segment
  <2>2. Len(segs') = 1 /\ DOMAIN segs' = {1} /\ segs'[1] = seg /\ segs' # <<>> /\ segs' \in Seq(Segment)
    BY <2>1
  <2>3. DOMAIN seg.recs = {} /\ seg.start = core.since OBVIOUS
  <2> HIDE DEF seg
  <2>4. \A r : r \notin Records(segs') BY <2>2, <2>3, RecordPlace
  <2>5. Layout(segs') BY <2>2, <2>3 DEF Layout, Ascending
  <2>6. \A r : r \notin Records(segs)
    <3>1. DOMAIN segs = {} BY <1>3
    <3> QED BY <3>1, RecordPlace
  <2>7. Active'.start <= core.since BY <1>2, <2>2, <2>3 DEF Active
  <2> QED BY <2>2, <2>4, <2>5, <2>6, <2>7
<1>4. CASE segs # <<>>
  <2> DEFINE old == segs[Len(segs)].recs
             kept == {n \in DOMAIN old : old[n].i > purged /\ old[n].i < core.since}
  <2>1. /\ Len(segs) \in 1 .. Len(segs) /\ Len(segs) \in DOMAIN segs
        /\ Len(old) \in Nat /\ DOMAIN old = 1 .. Len(old) /\ segs[Len(segs)].start \in Nat
    BY <1>2, <1>4, EmptySeq, SegmentShape
  <2>2. \A n \in DOMAIN old : old[n] \in Records(segs) /\ old[n].i \in Nat
    BY <1>2, <2>1, PlaceRecord, SegmentShape
  <2>3. Survivors(old) = IF kept = {} THEN <<>> ELSE SubSeq(old, 1, Max(kept)) BY DEF Survivors
  <2>4. segs' = WithLast(segs, Survivors(old)) BY <1>1, <1>4
  <2>5. Ascending(old) BY <1>0, <2>1 DEF Layout
  <2> HIDE DEF old
  <2>6. PICK k \in 0 .. Len(old) :
            /\ Survivors(old) = SubSeq(old, 1, k)
            /\ \A n \in 1 .. k : old[n].i < core.since
            /\ \A n \in k + 1 .. Len(old) : n \notin kept
    <3>1. CASE kept = {}
      <4>1. Survivors(old) = SubSeq(old, 1, 0) BY <2>3, <3>1, SubSeqEmpty
      <4>2. 0 \in 0 .. Len(old) BY <2>1
      <4> QED BY <3>1, <4>1, <4>2
    <3>2. CASE kept # {}
      <4>1. PICK k \in kept : k = Max(kept) /\ \A n \in kept : n <= k
        <5>1. kept \in SUBSET (0 .. Len(old)) BY <2>1
        <5> HIDE DEF kept
        <5> QED BY <2>1, <3>2, <5>1, LargestIndex
      <4>2. k \in 1 .. Len(old) /\ k \in DOMAIN old /\ old[k].i < core.since BY <2>1, <4>1
      <4>3. \A n \in 1 .. k : n < k => old[n].i < old[k].i
        BY <2>1, <2>5, <4>2 DEF Ascending
      <4>4. \A n \in 1 .. k : old[n].i < core.since
        BY <1>2, <2>1, <2>2, <4>2, <4>3
      <4>5. \A n \in k + 1 .. Len(old) : n \notin kept
        <5> HIDE DEF kept
        <5> QED BY <2>1, <4>1, <4>2
      <4>6. Survivors(old) = SubSeq(old, 1, k) BY <2>3, <3>2, <4>1
      <4>7. k \in 0 .. Len(old) BY <2>1, <4>2
      <4> HIDE DEF kept
      <4> QED BY <4>4, <4>5, <4>6, <4>7
    <3> QED BY <3>1, <3>2
  <2>7. /\ segs' \in Seq(Segment) /\ Layout(segs') /\ segs' # <<>>
        /\ Active'.start = segs[Len(segs)].start
        /\ \A r \in Records(segs') :
              /\ r \in Records(segs)
              /\ r.i < segs[Len(segs)].start \/ \E n \in 1 .. k : r = old[n]
        /\ \A r \in Records(segs) :
              r \in Records(segs') \/ \E n \in k + 1 .. Len(old) : r = old[n]
    BY <1>0, <1>2, <1>4, <2>4, <2>6, CutShort DEF old, Active
  <2>8. segs[Len(segs)].start < core.since BY <1>1, <2>1
  <2>9. ASSUME NEW r \in Records(segs') PROVE r \in Records(segs) /\ r.i < core.since
    <3>1. r \in Records(segs) /\ r.i \in Nat BY <1>2, <2>7, RecordShape
    <3> QED BY <1>2, <2>1, <2>6, <2>7, <2>8, <3>1
  <2>10. ASSUME NEW r \in Records(segs), purged < r.i, r.i < core.since
         PROVE  r \in Records(segs')
    <3>1. \A n \in k + 1 .. Len(old) : r # old[n]
      <4>1. ASSUME NEW n \in k + 1 .. Len(old) PROVE r # old[n]
        <5>1. n \in DOMAIN old /\ n \notin kept BY <2>1, <2>6
        <5> QED BY <1>2, <2>2, <2>10, <5>1
      <4> QED BY <4>1
    <3> QED BY <2>7, <3>1
  <2>11. Active'.start <= core.since BY <1>2, <2>1, <2>7, <2>8
  <2> QED BY <2>7, <2>9, <2>10, <2>11
<1> QED BY <1>3, <1>4

\* The log ends just below the truncation point.
LEMMA TruncateCutStep ==
    ASSUME Inv, TruncateCut
    PROVE  Inv'
<1>0. Shape /\ LogWhole /\ Marks /\ Snapshots /\ Layout(segs) BY DEF Inv, LogWhole
<1>1. /\ status = "up" /\ core.op = "truncate" /\ core' = Idle
      /\ synced' = Len(segs'[Len(segs')].recs)
      /\ UNCHANGED <<setup, status, chosen, term, torn, marker, files, ptr, purged, committed,
                     acked, engine, applied, current, counter, known, build, install>>
  BY DEF TruncateCut
<1>2. /\ segs' \in Seq(Segment) /\ Layout(segs') /\ segs' # <<>>
      /\ Active'.start <= core.since
      /\ \A r \in Records(segs') : r \in Records(segs) /\ (r.i < core.since \/ r.i <= purged)
      /\ \A r \in Records(segs) : purged < r.i /\ r.i < core.since => r \in Records(segs')
  BY CutLeaves
<1>3. PICK since \in Nat : since = core.since
  BY <1>0, <1>1 DEF Shape, CoreSteps
<1>4. /\ segs \in Seq(Segment) /\ purged \in Nat /\ acked \in Nat /\ Len(chosen) \in Nat
      /\ purged <= MaxIndex /\ MaxIndex \in Nat
  BY <1>0, LenProperties, RaftStoreAssumption DEF Shape, Index
<1>5. /\ NoGap(segs, purged, since - 1)
      /\ since > KnownCommitted /\ since > purged /\ since > acked
  <2>1. NoGap(segs, purged, since - 1) /\ since > KnownCommitted /\ since > acked
    BY <1>0, <1>1, <1>3 DEF LogWhole, Truncating
  <2>2. purged <= known /\ known \in Nat /\ committed \in Nat BY <1>0 DEF Marks, Shape
  <2>3. known <= KnownCommitted BY <2>2 DEF KnownCommitted
  <2> QED BY <1>3, <1>4, <2>1, <2>2, <2>3 DEF KnownCommitted
<1>6. NoGap(segs', purged, since - 1)
  <2>1. ASSUME NEW j \in Nat, purged < j, j <= since - 1
        PROVE  \E r \in Records(segs') : r.i = j
    <3>1. PICK r \in Records(segs) : r.i = j BY <1>5, <2>1 DEF NoGap
    <3>2. j < since BY <1>3, <2>1
    <3> QED BY <1>2, <1>3, <2>1, <3>1, <3>2
  <2> QED BY <2>1 DEF NoGap
<1>7. Active'.recs \in Seq(Entry) /\ Len(Active'.recs) \in Nat /\ Active'.start \in Nat
      /\ synced' = Len(Active'.recs)
  BY <1>1, <1>2, EmptySeq, SegmentShape DEF Active
<1>8. Shape' BY <1>0, <1>1, <1>2, <1>7 DEF Shape, CoreSteps, Idle
<1>9. LastIndex' = since - 1
  <2>1. IsLast(segs', purged', LastIndex') BY <1>2, <1>8, LastEntryNext
  <2>2. purged' \in Index /\ purged' = purged BY <1>1, <1>8 DEF Shape
  <2>3. \A r \in Records(segs') : r.i \in 1 .. MaxIndex BY <1>2, RecordShape
  <2>4. since - 1 = purged \/ \E r \in Records(segs') : r.i = since - 1
    <3>1. CASE purged < since - 1
      <4>1. since - 1 \in Nat /\ since - 1 <= since - 1 BY <1>3, <1>4, <3>1
      <4> QED BY <1>6, <3>1, <4>1 DEF NoGap
    <3>2. CASE ~ (purged < since - 1) BY <1>3, <1>4, <1>5, <3>2
    <3> QED BY <3>1, <3>2
  <2>5. since - 1 \in Index /\ purged <= since - 1 BY <1>3, <1>4, <1>5, <2>3, <2>4 DEF Index
  <2>6. \A r \in Records(segs') : r.i > purged => r.i <= since - 1
    BY <1>2, <1>3, <1>4, <2>3
  <2>7. IsLast(segs', purged', since - 1) BY <2>2, <2>4, <2>5, <2>6 DEF IsLast
  <2> QED BY <1>2, <2>1, <2>2, <2>7, LastUnique
<1>10. LogWhole'
  <2>1. Untruncated'
    <3>1. Active'.start <= since - 1 + 1 /\ acked <= since - 1
      BY <1>2, <1>3, <1>4, <1>5, <1>7
    <3> QED BY <1>1, <1>2, <1>6, <1>9, <3>1 DEF Untruncated
  <2>2. Truncating' /\ Unreported' BY <1>1 DEF Truncating, Unreported, Idle
  <2>3. Agreement' BY <1>0, <1>1, <1>2 DEF LogWhole, Agreement
  <2>4. Fsynced'
    <3>1. Reported' = Len(Active'.recs) - 0 BY <1>1 DEF Reported, Idle
    <3> QED BY <1>7, <3>1 DEF Fsynced
  <2> QED BY <1>2, <2>1, <2>2, <2>3, <2>4 DEF LogWhole
<1>11. Marks' BY <1>0, <1>1 DEF Marks, Covered, KnownCommitted, Idle
<1>12. Snapshots' BY <1>0, <1>1, SnapshotsFrame
<1> QED BY <1>8, <1>10, <1>11, <1>12 DEF Inv

\* A purge begins: the index forgets its entries up to i.
LEMMA PurgeBeginStep ==
    ASSUME Inv, NEW i \in 1 .. MaxIndex, PurgeBegin(i)
    PROVE  Inv'
<1>0. Shape /\ LogWhole /\ Marks /\ Snapshots /\ Layout(segs) BY DEF Inv, LogWhole
<1>1. /\ status = "up" /\ core.op = "idle" /\ core' = [op |-> "purge"]
      /\ purged < i /\ i <= known /\ purged' = i
      /\ UNCHANGED <<setup, status, chosen, term, segs, synced, torn, marker, files, ptr,
                     committed, acked, engine, applied, current, counter, known, build, install>>
  BY DEF PurgeBegin, CoreIdle, Idle, disk
<1>2. /\ i \in Nat /\ i \in Index /\ i <= MaxIndex /\ MaxIndex \in Nat /\ purged \in Nat
      /\ acked \in Nat /\ known \in Nat /\ Len(chosen) \in Nat
      /\ segs \in Seq(Segment) /\ segs # <<>>
      /\ marker.purged \in Nat
  BY <1>0, <1>1, LenProperties, RaftStoreAssumption DEF Shape, Index, LogWhole, Untruncated
<1>3. PICK l \in Nat : l = LastIndex BY <1>0, LastEntry
<1>4. IsLast(segs, purged, l) BY <1>0, <1>3, LastEntry
<1>5. NoGap(segs, purged, l) /\ acked <= l /\ Active.start <= l + 1
  BY <1>0, <1>1, <1>3 DEF LogWhole, Untruncated
<1>6. Shape' BY <1>0, <1>1, <1>2 DEF Shape, CoreSteps
<1>7. PICK m \in Nat : m = LastIndex' /\ m >= l /\ (m = l \/ m = i)
  <2> DEFINE m == IF l < i THEN i ELSE l
  <2>1. m \in Index /\ i <= m /\ m >= l BY <1>2, <1>3, <1>4 DEF IsLast, Index
  <2>2. \A r \in Records(segs) : r.i \in Nat BY <1>2, RecordShape
  <2>3. \A r \in Records(segs) : r.i > i => r.i <= m BY <1>1, <1>2, <1>3, <1>4, <2>2 DEF IsLast
  <2>4. m = i \/ \E r \in Records(segs) : r.i = m
    <3>1. CASE l < i BY <3>1
    <3>2. CASE ~ (l < i)
      <4>1. l = i \/ l # purged BY <1>1, <1>2, <1>3, <3>2
      <4> QED BY <1>4, <3>2, <4>1 DEF IsLast
    <3> QED BY <3>1, <3>2
  <2>5. IsLast(segs', purged', m) BY <1>1, <2>1, <2>3, <2>4 DEF IsLast
  <2>6. IsLast(segs', purged', LastIndex') BY <1>0, <1>1, <1>6, LastEntryNext
  <2>7. m = LastIndex' BY <1>1, <1>2, <2>5, <2>6, LastUnique
  <2> QED BY <1>2, <1>3, <2>1, <2>7
<1>8. LogWhole'
  <2>1. NoGap(segs, i, m) BY <1>1, <1>2, <1>3, <1>5, <1>7 DEF NoGap
  <2>2. Untruncated'
    <3>1. Active' = Active /\ Active.start \in Nat
      BY <1>1, <1>2, EmptySeq, SegmentShape DEF Active
    <3>2. Active.start <= m + 1 /\ acked <= m BY <1>2, <1>3, <1>5, <1>7, <3>1
    <3> QED BY <1>1, <1>2, <1>7, <2>1, <3>1, <3>2 DEF Untruncated
  <2>3. Truncating' /\ Unreported' BY <1>1 DEF Truncating, Unreported
  <2>4. Agreement'
    <3>1. \A r \in Records(segs) : r.i \in Nat BY <1>2, RecordShape
    <3> QED BY <1>0, <1>1, <1>2, <3>1 DEF LogWhole, Agreement
  <2>5. Fsynced' BY <1>0, <1>1 DEF LogWhole, Fsynced, Reported, AsyncDurability, Active
  <2> QED BY <1>0, <1>1, <2>2, <2>3, <2>4, <2>5 DEF LogWhole
<1>9. \A x \in Nat : Covered(x) => Covered(x)' BY <1>1, <1>2 DEF Covered, KnownCommitted
<1>10. Marks' BY <1>0, <1>1, <1>2, <1>9 DEF Marks, Shape
<1>11. Snapshots'
  <2>1. ptr.idx \in Nat /\ (build # Idle => build.idx \in Nat) /\ (install # Idle => install.idx \in Nat)
    BY <1>0 DEF Shape, Pointer, Building, Adopting, Adopted
  <2>2. InstallSound' BY <1>0, <1>1, <1>2, <2>1 DEF Snapshots, InstallSound, NextFile
  <2> QED BY <1>0, <1>1, <1>9, <2>1, <2>2 DEF Snapshots, Named, BuildSound
<1> QED BY <1>6, <1>8, <1>10, <1>11 DEF Inv

\* A sealed segment of purged records only goes.
LEMMA PurgeUnlinkStep ==
    ASSUME Inv, PurgeUnlink
    PROVE  Inv'
<1>0. Shape /\ LogWhole /\ Marks /\ Snapshots /\ Layout(segs) BY DEF Inv, LogWhole
<1>1. /\ status = "up" /\ core.op = "purge" /\ FullyPurged(segs, 1, purged) /\ segs' = Tail(segs)
      /\ UNCHANGED <<setup, status, chosen, term, synced, torn, marker, files, ptr, purged,
                     committed, acked, core, engine, applied, current, counter, known, build, install>>
  BY DEF PurgeUnlink, memory
<1>2. /\ segs \in Seq(Segment) /\ segs # <<>> /\ purged \in Nat /\ Len(segs) \in Nat
      /\ 1 < Len(segs)
  BY <1>0, <1>1, LenProperties, RaftStoreAssumption
  DEF Shape, Index, LogWhole, Untruncated, FullyPurged
<1>3. segs' = SubSeq(segs, 2, Len(segs)) BY <1>1, <1>2, TailIsSubSeq
<1>4. /\ segs' \in Seq(Segment) /\ Layout(segs') /\ segs' # <<>> /\ Active' = Active
      /\ Records(segs') \subseteq Records(segs)
      /\ \A r \in Records(segs) : r.i > purged => r \in Records(segs')
  <2>1. 2 \in 1 .. Len(segs) BY <1>2
  <2>2. \A s \in 1 .. 2 - 1 : /\ segs[s].recs # <<>>
                              /\ segs[s].recs[Len(segs[s].recs)].i <= purged
    BY <1>1 DEF FullyPurged
  <2> QED BY <1>0, <1>2, <1>3, <2>1, <2>2, FromSegment DEF Active
<1>5. Shape' BY <1>0, <1>1, <1>4 DEF Shape
<1>6. PICK l \in Nat : l = LastIndex BY <1>0, LastEntry
<1>7. LastIndex' = l
  <2>1. IsLast(segs, purged, l) BY <1>0, <1>6, LastEntry
  <2>2. IsLast(segs', purged', l)
    <3>1. l # purged => l > purged BY <1>2, <1>6, <2>1 DEF IsLast
    <3> QED BY <1>1, <1>4, <2>1, <3>1 DEF IsLast
  <2>3. IsLast(segs', purged', LastIndex') BY <1>4, <1>5, LastEntryNext
  <2>4. purged' \in Index BY <1>5 DEF Shape
  <2> QED BY <1>4, <2>2, <2>3, <2>4, LastUnique
<1>8. LogWhole'
  <2>1. Untruncated'
    <3>1. NoGap(segs, purged, l) /\ acked <= l /\ Active.start <= l + 1
      BY <1>0, <1>1, <1>6 DEF LogWhole, Untruncated
    <3>2. NoGap(segs', purged, l) BY <1>2, <1>4, <3>1 DEF NoGap
    <3> QED BY <1>1, <1>4, <1>7, <3>1, <3>2 DEF Untruncated
  <2>2. Truncating' /\ Unreported' BY <1>1 DEF Truncating, Unreported
  <2>3. Agreement' BY <1>0, <1>1, <1>4 DEF LogWhole, Agreement
  <2>4. Fsynced' BY <1>0, <1>1, <1>4 DEF LogWhole, Fsynced, Reported, AsyncDurability
  <2> QED BY <1>4, <2>1, <2>2, <2>3, <2>4 DEF LogWhole
<1>9. Marks' BY <1>0, <1>1, MarksFrame
<1>10. Snapshots' BY <1>0, <1>1, SnapshotsFrame
<1> QED BY <1>5, <1>8, <1>9, <1>10 DEF Inv

LEMMA PurgeMarkerStep ==
    ASSUME Inv, PurgeMarker
    PROVE  Inv'
<1>0. Shape /\ LogWhole /\ Marks /\ Snapshots /\ Layout(segs) BY DEF Inv, LogWhole
<1>1. /\ status = "up" /\ core.op = "purge" /\ core' = Idle
      /\ marker' = [purged |-> purged, committed |-> committed]
      /\ UNCHANGED <<setup, status, chosen, term, segs, synced, torn, files, ptr, purged,
                     committed, acked, engine, applied, current, counter, known, build, install>>
  BY DEF PurgeMarker
<1>2. purged \in Nat /\ committed \in Nat BY <1>0, RaftStoreAssumption DEF Shape, Index
<1>3. Shape' BY <1>0, <1>1, <1>2 DEF Shape, CoreSteps, Idle
<1>4. LogWhole'
  <2>1. LastIndex' = LastIndex /\ Active' = Active BY <1>1 DEF LastIndex, Log, Active
  <2>2. Untruncated' /\ Truncating' /\ Unreported'
    BY <1>0, <1>1, <2>1 DEF LogWhole, Untruncated, Truncating, Unreported, Idle
  <2>3. Agreement' BY <1>0, <1>1 DEF LogWhole, Agreement
  <2>4. Fsynced' BY <1>0, <1>1, <2>1 DEF LogWhole, Fsynced, Reported, AsyncDurability, Idle
  <2> QED BY <1>0, <1>1, <2>2, <2>3, <2>4 DEF LogWhole
<1>5. Marks' BY <1>0, <1>1, <1>2 DEF Marks, Covered, KnownCommitted, Idle
<1>6. Snapshots' BY <1>0, <1>1, SnapshotsFrame
<1> QED BY <1>3, <1>4, <1>5, <1>6 DEF Inv

-----------------------------------------------------------------------------
(* The state-machine worker and its builder. *)

\* The next committed entry, read from the log, is the group's.
LEMMA ApplyStep ==
    ASSUME Inv, Apply
    PROVE  Inv'
<1>0. Shape /\ LogWhole /\ Marks /\ Snapshots /\ Layout(segs) BY DEF Inv, LogWhole
<1>1. /\ status = "up" /\ install = Idle /\ applied < committed /\ applied + 1 \in DOMAIN Log
      /\ engine' = Append(engine, Log[applied + 1]) /\ applied' = applied + 1
      /\ UNCHANGED <<setup, status, chosen, term, segs, synced, torn, marker, files, ptr, purged,
                     committed, acked, core, current, counter, known, build, install>>
  BY DEF Apply, disk
<1>2. /\ applied \in Nat /\ committed \in Nat /\ acked \in Nat /\ purged \in Nat /\ known \in Nat
      /\ chosen \in Seq(Nat) /\ Len(chosen) \in Nat
  BY <1>0, LenProperties, RaftStoreAssumption DEF Shape, Index
<1>3. applied + 1 <= committed /\ Covered(committed) BY <1>0, <1>1, <1>2 DEF Marks
<1>4. Covered(applied + 1) /\ applied + 1 \in 1 .. Len(chosen)
  BY <1>2, <1>3 DEF Covered, KnownCommitted
<1>5. Log[applied + 1] = chosen[applied + 1]
  <2>1. PICK r \in Records(segs) : r.i = applied + 1 /\ r.i > purged BY <1>0, <1>1, LogProps
  <2>2. Log[r.i] = r.t BY <1>0, <2>1, LogProps
  <2>3. r.t = chosen[r.i] BY <1>0, <1>4, <2>1 DEF LogWhole, Agreement
  <2> QED BY <2>1, <2>2, <2>3
<1>6. engine' = SubSeq(chosen, 1, applied + 1) /\ engine' \in Seq(Nat)
  <2>1. engine = SubSeq(chosen, 1, applied) /\ engine \in Seq(Nat) BY <1>0 DEF Marks, Shape
  <2>2. chosen[applied + 1] \in Nat BY <1>2, <1>4, ElementOfSeq
  <2>3. Append(engine, chosen[applied + 1]) = engine \o <<chosen[applied + 1]>>
    BY <2>1, <2>2, AppendIsConcat
  <2>4. SubSeq(chosen, 1, applied + 1) = SubSeq(chosen, 1, applied + 1 - 1) \o <<chosen[applied + 1]>>
    <3>1. 1 \in 1 .. Len(chosen) /\ applied + 1 \in 1 .. Len(chosen) BY <1>2, <1>4
    <3> QED BY <1>2, <3>1, SubSeqRecursiveSecond
  <2>5. applied + 1 - 1 = applied BY <1>2
  <2>6. engine' \in Seq(Nat) BY <1>1, <1>5, <2>1, <2>2, AppendProperties
  <2> QED BY <1>1, <1>5, <2>1, <2>3, <2>4, <2>5, <2>6
<1>7. Shape' BY <1>0, <1>1, <1>2, <1>6 DEF Shape
<1>8. LogWhole' BY <1>0, <1>1, LogFrame
<1>9. Marks' BY <1>0, <1>1, <1>2, <1>4, <1>6 DEF Marks, Covered, KnownCommitted, Idle
<1>10. Snapshots'
  <2>1. build # Idle => build.idx \in Nat BY <1>0 DEF Shape, Building
  <2> QED BY <1>0, <1>1, <1>2, <2>1
      DEF Snapshots, Covered, KnownCommitted, Named, BuildSound, InstallSound
<1> QED BY <1>7, <1>8, <1>9, <1>10 DEF Inv

\* A builder at work, and an install at its later steps.
LEMMA BuildShape ==
    ASSUME Shape, build.op # "idle"
    PROVE  /\ build # Idle /\ build \in Building
           /\ build.file \in FileName /\ build.idx \in Nat /\ build.content \in Seq(Nat)
BY DEF Shape, Idle, Building

LEMMA InstallShape ==
    ASSUME Shape, install.op # "idle"
    PROVE  /\ install # Idle /\ install.idx \in Nat
           /\ install.op # "adopt" => install \in Adopted /\ install.file \in FileName
BY DEF Shape, Idle, Adopting, Adopted

\* A builder starts: its file is a new one.
LEMMA BuildBeginStep ==
    ASSUME Inv, Undisturbed', BuildBegin
    PROVE  Inv'
<1>0. Shape /\ LogWhole /\ Marks /\ Snapshots BY DEF Inv
<1> DEFINE f == NextFile("snap")
<1>1. /\ status = "up" /\ build = Idle /\ install = Idle /\ applied > current.idx /\ f # ptr.file
      /\ build' = [op |-> "write", file |-> f, idx |-> applied, content |-> engine]
      /\ files' = Stored(f, Torn) /\ counter' = counter + 1
      /\ UNCHANGED <<setup, status, chosen, term, segs, synced, torn, marker, ptr, purged,
                     committed, acked, core, engine, applied, current, known, install>>
  BY DEF BuildBegin, Undisturbed
<1>2. counter \in Nat /\ applied \in Nat /\ engine \in Seq(Nat) /\ known \in Nat /\ ptr.idx \in Nat
  BY <1>0 DEF Shape, Pointer
<1>3. f \in FileName /\ f # NoFile.file BY <1>2 DEF NextFile, FileName, NoFile
<1>4. f \in DOMAIN files' /\ \A x \in DOMAIN files : x # f => x \in DOMAIN files' /\ files'[x] = files[x]
  <2> HIDE DEF f
  <2> QED BY <1>1 DEF Stored
<1> HIDE DEF f
<1>5. current = ptr /\ known <= ptr.idx /\ ptr.idx < applied
  BY <1>0, <1>1, <1>2 DEF Snapshots, Idle
<1>6. Shape' BY <1>0, <1>1, <1>2, <1>3 DEF Shape, Building
<1>7. LogWhole' BY <1>0, <1>1, LogFrame
<1>8. Marks' BY <1>0, <1>1, MarksFrame
<1>9. Snapshots'
  <2>1. Covered(ptr.idx)' /\ Named(ptr)'
    BY <1>0, <1>1, <1>4 DEF Snapshots, Covered, KnownCommitted, Named
  <2>2. BuildSound'
    <3>1. Covered(applied) /\ engine = SubSeq(chosen, 1, applied) BY <1>0 DEF Marks
    <3>2. known <= applied BY <1>2, <1>5
    <3> QED BY <1>1, <1>2, <1>3, <1>4, <3>1, <3>2 DEF BuildSound, Covered, KnownCommitted
  <2>3. InstallSound' BY <1>1 DEF InstallSound
  <2> QED BY <1>1, <1>5, <2>1, <2>2, <2>3 DEF Snapshots
<1> QED BY <1>6, <1>7, <1>8, <1>9 DEF Inv

\* It is written, and fsynced ...
LEMMA BuildSyncStep ==
    ASSUME Inv, BuildSync
    PROVE  Inv'
<1>0. Shape /\ LogWhole /\ Marks /\ Snapshots BY DEF Inv
<1>1. /\ status = "up" /\ build.op = "write"
      /\ files' = [files EXCEPT ![build.file] = Whole(build.content)]
      /\ build' = [build EXCEPT !.op = "pointer"]
      /\ UNCHANGED <<setup, status, chosen, term, segs, synced, torn, marker, ptr, purged,
                     committed, acked, core, engine, applied, current, counter, known, install>>
  BY DEF BuildSync
<1>2. /\ build # Idle /\ build \in Building /\ install = Idle
      /\ build.file \in DOMAIN files /\ build.file # ptr.file
  BY <1>0, <1>1, BuildShape DEF Snapshots, BuildSound
<1>3. /\ build' \in Building /\ build'.op = "pointer" /\ build'.file = build.file
      /\ build'.idx = build.idx /\ build'.content = build.content
  BY <1>1, <1>2 DEF Building
<1>4. /\ DOMAIN files' = DOMAIN files /\ files'[build.file] = Whole(build.content)
      /\ \A x \in DOMAIN files : x # build.file => files'[x] = files[x]
  BY <1>1, <1>2
<1>5. Shape' BY <1>0, <1>1, <1>3 DEF Shape
<1>6. LogWhole' BY <1>0, <1>1, LogFrame
<1>7. Marks' BY <1>0, <1>1, MarksFrame
<1>8. Snapshots'
  <2>1. Covered(ptr.idx)' /\ Named(ptr)'
    BY <1>0, <1>1, <1>2, <1>4 DEF Snapshots, Covered, KnownCommitted, Named
  <2>2. BuildSound'
    BY <1>0, <1>1, <1>2, <1>3, <1>4 DEF Snapshots, BuildSound, Covered, KnownCommitted
  <2>3. InstallSound' BY <1>1, <1>2 DEF InstallSound
  <2> QED BY <1>0, <1>1, <1>2, <1>3, <2>1, <2>2, <2>3 DEF Snapshots
<1> QED BY <1>5, <1>6, <1>7, <1>8 DEF Inv

\* ... the pointer names it ...
LEMMA BuildPointerStep ==
    ASSUME Inv, BuildPointer
    PROVE  Inv'
<1>0. Shape /\ LogWhole /\ Marks /\ Snapshots BY DEF Inv
<1>1. /\ status = "up" /\ build.op = "pointer"
      /\ ptr' = [file |-> build.file, idx |-> build.idx]
      /\ build' = [build EXCEPT !.op = "publish"]
      /\ UNCHANGED <<setup, status, chosen, term, segs, synced, torn, marker, files, purged,
                     committed, acked, core, engine, applied, current, counter, known, install>>
  BY DEF BuildPointer
<1>2. /\ build # Idle /\ build \in Building /\ install = Idle
      /\ build.file \in FileName /\ build.idx \in Nat
  BY <1>0, <1>1, BuildShape DEF Snapshots, BuildSound
<1>3. /\ build' \in Building /\ build'.op = "publish" /\ build'.file = build.file
      /\ build'.idx = build.idx /\ build'.content = build.content
  BY <1>1, <1>2 DEF Building
<1>4. Shape' BY <1>0, <1>1, <1>2, <1>3 DEF Shape, Pointer
<1>5. LogWhole' BY <1>0, <1>1, LogFrame
<1>6. Marks' BY <1>0, <1>1, MarksFrame
<1>7. Snapshots'
  <2>1. /\ Covered(build.idx) /\ known <= build.idx
        /\ build.file \in DOMAIN files
        /\ files[build.file] = Whole(SubSeq(chosen, 1, build.idx))
    BY <1>0, <1>1, <1>2 DEF Snapshots, BuildSound
  <2>2. Covered(ptr.idx)' /\ Named(ptr)' /\ known' <= ptr'.idx
    BY <1>1, <2>1 DEF Covered, KnownCommitted, Named
  <2>3. BuildSound'
    BY <1>0, <1>1, <1>2, <1>3 DEF Snapshots, BuildSound, Covered, KnownCommitted
  <2>4. InstallSound' BY <1>1, <1>2 DEF InstallSound
  <2> QED BY <1>3, <2>2, <2>3, <2>4 DEF Snapshots
<1> QED BY <1>4, <1>5, <1>6, <1>7 DEF Inv

\* ... and it is published: the file before it goes, the core may purge.
LEMMA BuildPublishStep ==
    ASSUME Inv, BuildPublish
    PROVE  Inv'
<1>0. Shape /\ LogWhole /\ Marks /\ Snapshots BY DEF Inv
<1>1. /\ status = "up" /\ build.op = "publish"
      /\ current' = [file |-> build.file, idx |-> build.idx]
      /\ files' = [f \in DOMAIN files \ ({current.file} \ {build.file}) |-> files[f]]
      /\ known' = (IF build.idx > known THEN build.idx ELSE known)
      /\ build' = Idle
      /\ UNCHANGED <<setup, status, chosen, term, segs, synced, torn, marker, ptr, purged,
                     committed, acked, core, engine, applied, counter, install>>
  BY DEF BuildPublish
<1>2. /\ build # Idle /\ install = Idle /\ build.file \in FileName /\ build.idx \in Nat
      /\ ptr = [file |-> build.file, idx |-> build.idx]
      /\ Covered(build.idx) /\ known <= build.idx /\ build.idx <= applied
  BY <1>0, <1>1, BuildShape DEF Snapshots, BuildSound
<1>3. known \in Nat /\ known' = build.idx /\ purged \in Nat /\ applied \in Nat
  <2>1. known \in Nat /\ purged \in Nat /\ applied \in Nat
    BY <1>0, RaftStoreAssumption DEF Shape, Index
  <2> QED BY <1>1, <1>2, <2>1
<1>4. Shape' BY <1>0, <1>1, <1>2, <1>3 DEF Shape, Pointer
<1>8. committed \in Nat /\ KnownCommitted' = KnownCommitted
  BY <1>0, <1>1, <1>2, <1>3 DEF KnownCommitted, Covered, Shape
<1>5. LogWhole'
  <2>1. LastIndex' = LastIndex /\ Active' = Active BY <1>1 DEF LastIndex, Log, Active
  <2>2. Fsynced' BY <1>0, <1>1, <2>1 DEF LogWhole, Fsynced, Reported, AsyncDurability
  <2> QED BY <1>0, <1>1, <1>8, <2>1, <2>2
      DEF LogWhole, Untruncated, Truncating, Agreement, Unreported
<1>6. Marks'
  <2>1. purged <= known' BY <1>0, <1>2, <1>3 DEF Marks
  <2> QED BY <1>0, <1>1, <1>2, <1>3, <1>8, <2>1 DEF Marks, Covered
<1>7. Snapshots'
  <2>1. ptr.file \in DOMAIN files => ptr.file \in DOMAIN files' /\ files'[ptr.file] = files[ptr.file]
    <3>1. ptr.file = build.file BY <1>2
    <3> QED BY <1>1, <3>1
  <2>2. Covered(ptr.idx)' /\ Named(ptr)' BY <1>0, <1>1, <1>8, <2>1 DEF Snapshots, Covered, Named
  <2>3. known' <= ptr'.idx BY <1>1, <1>2, <1>3
  <2> QED BY <1>1, <1>2, <2>2, <2>3 DEF Snapshots, BuildSound, InstallSound
<1> QED BY <1>4, <1>5, <1>6, <1>7 DEF Inv

\* A conflicting tail is truncated ahead of an install: above all that is known to be
\* committed, below all that stays reported.
LEMMA InstallTruncateStep ==
    ASSUME Inv, NEW s \in 1 .. MaxIndex, InstallTruncate(s)
    PROVE  Inv'
<1>0. Shape /\ LogWhole /\ Marks /\ Snapshots /\ Layout(segs) BY DEF Inv, LogWhole
<1>1. /\ status = "up" /\ core.op = "idle" /\ install = Idle /\ s > KnownCommitted
      /\ s \in DOMAIN Log
      /\ acked' = IF acked < KnownCommitted THEN acked ELSE KnownCommitted
      /\ core' = [op |-> "truncate", since |-> KnownCommitted + 1]
      /\ UNCHANGED <<setup, status, chosen, term, segs, synced, torn, marker, files, ptr, purged,
                     committed, engine, applied, current, counter, known, build, install>>
  BY DEF InstallTruncate, CoreIdle, Idle, disk
<1>2. /\ s \in Nat /\ purged \in Nat /\ acked \in Nat /\ committed \in Nat /\ known \in Nat
      /\ segs \in Seq(Segment)
  BY <1>0, RaftStoreAssumption DEF Shape, Index
<1>3. PICK c \in Nat : c = KnownCommitted BY <1>2 DEF KnownCommitted
<1>4. KnownCommitted' = c BY <1>1, <1>3 DEF KnownCommitted
<1>5. PICK l \in Nat : l = LastIndex BY <1>0, LastEntry
<1>6. s <= l
  <2>1. IsLast(segs, purged, l) BY <1>0, <1>5, LastEntry
  <2>2. PICK r \in Records(segs) : r.i = s /\ r.i > purged BY <1>0, <1>1, LogProps
  <2> QED BY <2>1, <2>2 DEF IsLast
<1>7. NoGap(segs, purged, l) BY <1>0, <1>1, <1>5 DEF LogWhole, Untruncated
<1>8. acked' \in Nat /\ acked' <= c /\ acked' <= acked /\ (acked' = acked \/ acked' = c)
  BY <1>1, <1>2, <1>3
<1>9. Shape' BY <1>0, <1>1, <1>3, <1>8 DEF Shape, CoreSteps
<1>10. LogWhole'
  <2>1. Truncating'
    <3>1. NoGap(segs, purged, c + 1 - 1) BY <1>1, <1>3, <1>5, <1>6, <1>7 DEF NoGap
    <3>2. c + 1 > c /\ c + 1 > acked' BY <1>3, <1>8
    <3> QED BY <1>1, <1>3, <1>4, <3>1, <3>2 DEF Truncating
  <2>2. Untruncated' /\ Unreported' /\ Fsynced' BY <1>1 DEF Untruncated, Unreported, Fsynced
  <2>3. Agreement' BY <1>0, <1>1 DEF LogWhole, Agreement
  <2> QED BY <1>0, <1>1, <2>1, <2>2, <2>3 DEF LogWhole
<1>11. \A x \in Nat : Covered(x) => Covered(x)'
  <2>1. KnownCommitted' = KnownCommitted BY <1>1 DEF KnownCommitted
  <2> QED BY <1>1, <1>2, <1>3, <1>8, <2>1 DEF Covered
<1>12. Marks' BY <1>0, <1>1, <1>11 DEF Marks, Shape
<1>13. Snapshots'
  <2>1. ptr.idx \in Nat /\ (build # Idle => build.idx \in Nat)
    BY <1>0 DEF Shape, Pointer, Building
  <2> QED BY <1>0, <1>1, <1>11, <2>1
      DEF Snapshots, Named, BuildSound, InstallSound, NextFile
<1> QED BY <1>9, <1>10, <1>12, <1>13 DEF Inv

\* A snapshot of the leader's is received: the log is purged up to it, ahead of its install.
LEMMA InstallBeginStep ==
    ASSUME Inv, Undisturbed', NEW s \in 1 .. MaxIndex, InstallBegin(s)
    PROVE  Inv'
<1>0. Shape /\ LogWhole /\ Marks /\ Snapshots /\ Layout(segs) BY DEF Inv, LogWhole
<1> DEFINE d == [k \in 1 .. (IF s > Len(chosen) THEN s - Len(chosen) ELSE 0) |->
                   IF Len(chosen) + 1 .. s \subseteq DOMAIN Log THEN Log[Len(chosen) + k]
                   ELSE term]
<1>1. /\ status = "up" /\ core.op = "idle" /\ install = Idle /\ build = Idle
      /\ s > KnownCommitted /\ NextFile("installed") # ptr.file
      /\ chosen' = chosen \o d
      /\ install' = [op |-> "adopt", idx |-> s]
      /\ known' = s /\ purged' = s /\ core' = [op |-> "purge"]
      /\ UNCHANGED <<setup, status, term, segs, synced, torn, marker, files, ptr, committed,
                     acked, engine, applied, current, counter, build>>
  BY DEF InstallBegin, CoreIdle, Idle, Undisturbed, disk
<1>2. /\ s \in Nat /\ s \in Index /\ s <= MaxIndex /\ MaxIndex \in Nat /\ purged \in Nat
      /\ acked \in Nat /\ known \in Nat /\ applied \in Nat /\ committed \in Nat
      /\ Len(chosen) \in Nat /\ chosen \in Seq(Nat) /\ term \in Nat /\ ptr.idx \in Nat
      /\ segs \in Seq(Segment) /\ segs # <<>> /\ marker.purged \in Nat
  BY <1>0, <1>1, LenProperties, RaftStoreAssumption
  DEF Shape, Index, Pointer, LogWhole, Untruncated
<1>3. PICK l \in Nat : l = LastIndex BY <1>0, LastEntry
<1>4. IsLast(segs, purged, l) BY <1>0, <1>3, LastEntry
<1>5. /\ NoGap(segs, purged, l) /\ acked <= l /\ Active.start <= l + 1
      /\ purged < s /\ committed < s /\ known < s
  <2>1. NoGap(segs, purged, l) /\ acked <= l /\ Active.start <= l + 1
    BY <1>0, <1>1, <1>3 DEF LogWhole, Untruncated
  <2>2. committed < s /\ known < s BY <1>1, <1>2 DEF KnownCommitted
  <2>3. purged < s BY <1>0, <1>2, <2>2 DEF Marks
  <2> QED BY <2>1, <2>2, <2>3
<1>6. /\ chosen' \in Seq(Nat) /\ Len(chosen') \in Nat
      /\ Len(chosen') >= Len(chosen) /\ Len(chosen') >= s
      /\ Len(chosen') = Len(chosen) \/ Len(chosen') = s
      /\ \A x \in Nat : x <= Len(chosen) => SubSeq(chosen', 1, x) = SubSeq(chosen, 1, x)
      /\ \A x \in 1 .. Len(chosen) : chosen'[x] = chosen[x]
  <2>1. PICK e \in Nat : /\ e = (IF s > Len(chosen) THEN s - Len(chosen) ELSE 0)
                         /\ Len(chosen) + e >= s
                         /\ Len(chosen) + e = Len(chosen) \/ Len(chosen) + e = s
    <3>1. CASE s > Len(chosen)
      <4>1. s - Len(chosen) \in Nat /\ Len(chosen) + (s - Len(chosen)) = s BY <1>2, <3>1
      <4>2. s >= s BY <1>2
      <4> QED BY <3>1, <4>1, <4>2
    <3>2. CASE ~ (s > Len(chosen))
      <4>1. 0 \in Nat /\ Len(chosen) + 0 >= s /\ Len(chosen) + 0 = Len(chosen) BY <1>2, <3>2
      <4> QED BY <3>2, <4>1
    <3> QED BY <3>1, <3>2
  <2>2. d \in Seq(Nat) /\ Len(d) = e
    <3>1. \A k \in 1 .. e : Len(chosen) + 1 .. s \subseteq DOMAIN Log => Log[Len(chosen) + k] \in Nat
      <4>1. SUFFICES ASSUME NEW k \in 1 .. e, Len(chosen) + 1 .. s \subseteq DOMAIN Log
                     PROVE  Log[Len(chosen) + k] \in Nat
        OBVIOUS
      <4>2. PICK j \in Nat : j = Len(chosen) + k /\ j \in Len(chosen) + 1 .. s
        BY <1>2, <2>1
      <4>3. j \in DOMAIN Log BY <4>1, <4>2
      <4>4. PICK r \in Records(segs) : r.i = j /\ r.i > purged BY <1>0, <4>3, LogProps
      <4>5. Log[j] = r.t BY <1>0, <4>4, LogProps
      <4>6. r.t \in Nat BY <1>2, RecordShape
      <4> QED BY <4>2, <4>5, <4>6
    <3>2. d = [k \in 1 .. e |-> IF Len(chosen) + 1 .. s \subseteq DOMAIN Log THEN Log[Len(chosen) + k]
                                ELSE term]
      BY <2>1
    <3>3. \A k \in 1 .. e : (IF Len(chosen) + 1 .. s \subseteq DOMAIN Log THEN Log[Len(chosen) + k]
                             ELSE term) \in Nat
      BY <1>2, <3>1
    <3>4. d \in [1 .. e -> Nat] /\ DOMAIN d = 1 .. e
      <4> HIDE DEF d
      <4> QED BY <3>2, <3>3, Zenon
    <3> HIDE DEF d
    <3>5. d \in Seq(Nat) BY <3>4, SeqDef
    <3>6. Len(d) \in Nat /\ 1 .. Len(d) = 1 .. e BY <3>4, <3>5, LenProperties
    <3>7. Len(d) = e BY <2>1, <3>6
    <3> QED BY <3>5, <3>7
  <2> HIDE DEF d
  <2>3. Len(chosen') = Len(chosen) + e BY <1>1, <1>2, <2>2, Extended
  <2>4. /\ chosen' \in Seq(Nat)
        /\ \A x \in Nat : x <= Len(chosen) => SubSeq(chosen', 1, x) = SubSeq(chosen, 1, x)
        /\ \A x \in 1 .. Len(chosen) : chosen'[x] = chosen[x]
    BY <1>1, <1>2, <2>2, Extended
  <2>5. Len(chosen') \in Nat /\ Len(chosen') >= Len(chosen) /\ Len(chosen') >= s
    BY <1>2, <2>1, <2>3
  <2> QED BY <2>1, <2>3, <2>4, <2>5
<1> HIDE DEF d
<1>7. Shape' BY <1>0, <1>1, <1>2, <1>6 DEF Shape, CoreSteps, Adopting
<1>8. \A r \in Records(segs) : r.i \in 1 .. MaxIndex /\ r.i \in Nat BY <1>2, RecordShape
<1>9. PICK m \in Nat : m = LastIndex' /\ m >= l /\ m >= s
  <2> DEFINE m == IF l < s THEN s ELSE l
  <2>1. m \in Index /\ s <= m /\ m >= l BY <1>2, <1>3, <1>4 DEF IsLast, Index
  <2>2. \A r \in Records(segs) : r.i > s => r.i <= m
    BY <1>2, <1>3, <1>4, <1>5, <1>8 DEF IsLast
  <2>3. m = s \/ \E r \in Records(segs) : r.i = m
    <3>1. CASE l < s BY <3>1
    <3>2. CASE ~ (l < s)
      <4>1. l # purged BY <1>2, <1>3, <1>5, <3>2
      <4> QED BY <1>4, <3>2, <4>1 DEF IsLast
    <3> QED BY <3>1, <3>2
  <2>4. IsLast(segs', purged', m) BY <1>1, <2>1, <2>2, <2>3 DEF IsLast
  <2>5. IsLast(segs', purged', LastIndex') BY <1>0, <1>1, <1>7, LastEntryNext
  <2>6. m = LastIndex' BY <1>1, <1>2, <2>4, <2>5, LastUnique
  <2> QED BY <1>2, <1>3, <2>1, <2>6
<1>10. LogWhole'
  <2>1. NoGap(segs, s, m)
    <3>1. ASSUME NEW j \in Nat, s < j, j <= m PROVE \E r \in Records(segs) : r.i = j
      <4>1. m # s BY <1>2, <1>9, <3>1
      <4>2. m = l
        <5>1. IsLast(segs, s, m) BY <1>0, <1>1, <1>7, <1>9, LastEntryNext
        <5>2. PICK r \in Records(segs) : r.i = m BY <4>1, <5>1 DEF IsLast
        <5>3. m <= l BY <1>2, <1>3, <1>4, <1>5, <1>9, <5>2 DEF IsLast
        <5> QED BY <1>3, <1>9, <5>3
      <4>3. purged < j /\ j <= l BY <1>2, <1>5, <3>1, <4>2
      <4> QED BY <1>5, <4>3 DEF NoGap
    <3> QED BY <3>1 DEF NoGap
  <2>2. Untruncated'
    <3>1. Active' = Active /\ Active.start \in Nat
      <4>1. Active' = Active BY <1>1 DEF Active
      <4>2. Active.start \in Nat BY <1>2, EmptySeq, SegmentShape DEF Active
      <4> QED BY <4>1, <4>2
    <3>2. Active.start <= m + 1 /\ acked <= m BY <1>2, <1>3, <1>5, <1>9, <3>1
    <3> QED BY <1>1, <1>2, <1>9, <2>1, <3>1, <3>2 DEF Untruncated
  <2>3. Truncating' /\ Unreported' BY <1>1 DEF Truncating, Unreported
  <2>4. Agreement'
    <3>1. ASSUME NEW r \in Records(segs), r.i > s, r.i <= Len(chosen')
          PROVE  r.t = chosen'[r.i]
      <4>1. Len(chosen') = Len(chosen) BY <1>2, <1>6, <1>8, <3>1
      <4>2. r.i > purged /\ r.i \in 1 .. Len(chosen) BY <1>2, <1>5, <1>8, <3>1, <4>1
      <4>3. r.t = chosen[r.i] BY <1>0, <4>2 DEF LogWhole, Agreement
      <4> QED BY <1>6, <4>2, <4>3
    <3> QED BY <1>1, <3>1 DEF Agreement
  <2>5. Fsynced' BY <1>0, <1>1 DEF LogWhole, Fsynced, Reported, AsyncDurability, Active
  <2> QED BY <1>0, <1>1, <2>2, <2>3, <2>4, <2>5 DEF LogWhole
<1>11. \A x \in Nat : Covered(x) => Covered(x)'
  BY <1>1, <1>2, <1>5, <1>6 DEF Covered, KnownCommitted
<1>12. Marks'
  <2>1. Covered(committed)' /\ Covered(applied)' BY <1>0, <1>1, <1>2, <1>11 DEF Marks
  <2>2. engine' = SubSeq(chosen', 1, applied')
    BY <1>0, <1>1, <1>2, <1>6 DEF Marks, Covered
  <2>3. marker'.purged <= purged' /\ purged' <= known' /\ known' <= Len(chosen')
    <3>1. marker.purged <= purged BY <1>0 DEF Marks
    <3>2. marker.purged <= s /\ s <= s BY <1>2, <1>5, <3>1
    <3>3. s <= Len(chosen') BY <1>2, <1>6
    <3> QED BY <1>1, <3>2, <3>3
  <2> QED BY <1>0, <1>1, <2>1, <2>2, <2>3 DEF Marks
<1>13. Snapshots'
  <2>1. Covered(ptr.idx)' BY <1>0, <1>1, <1>2, <1>11 DEF Snapshots
  <2>2. Named(ptr)'
    <3>1. ptr.idx <= Len(chosen) BY <1>0 DEF Snapshots, Covered
    <3> QED BY <1>0, <1>1, <1>2, <1>6, <3>1 DEF Snapshots, Named
  <2>3. current = ptr BY <1>0, <1>1 DEF Snapshots, Idle
  <2>4. BuildSound' BY <1>1 DEF BuildSound
  <2>5. InstallSound' BY <1>1, <1>2, <1>6 DEF InstallSound, NextFile
  <2> QED BY <1>1, <2>1, <2>2, <2>3, <2>4, <2>5 DEF Snapshots, Idle
<1> QED BY <1>7, <1>10, <1>12, <1>13 DEF Inv

\* The engine takes the snapshot over.
LEMMA InstallAdoptStep ==
    ASSUME Inv, InstallAdopt
    PROVE  Inv'
<1>0. Shape /\ LogWhole /\ Marks /\ Snapshots BY DEF Inv
<1> DEFINE f == NextFile("installed")
<1>1. /\ status = "up" /\ install.op = "adopt"
      /\ engine' = SubSeq(chosen, 1, install.idx) /\ applied' = install.idx
      /\ files' = Stored(f, Whole(engine')) /\ counter' = counter + 1
      /\ install' = [op |-> "pointer", idx |-> install.idx, file |-> f]
      /\ UNCHANGED <<setup, status, chosen, term, segs, synced, torn, marker, ptr, purged,
                     committed, acked, core, current, known, build>>
  BY DEF InstallAdopt
<1>2. /\ install # Idle /\ install.idx \in Nat /\ build = Idle
      /\ install.idx <= Len(chosen) /\ install.idx <= purged /\ known = install.idx
      /\ f # ptr.file
  BY <1>0, <1>1, InstallShape DEF Snapshots, InstallSound
<1>3. counter \in Nat /\ chosen \in Seq(Nat) /\ Len(chosen) \in Nat BY <1>0, LenProperties DEF Shape
<1>4. f \in FileName /\ f # NoFile.file BY <1>3 DEF NextFile, FileName, NoFile
<1>5. /\ f \in DOMAIN files' /\ files'[f] = Whole(engine')
      /\ \A x \in DOMAIN files : x # f => x \in DOMAIN files' /\ files'[x] = files[x]
  <2> HIDE DEF f
  <2> QED BY <1>1 DEF Stored
<1> HIDE DEF f
<1>6. engine' \in Seq(Nat)
  <2>1. \A n \in 1 .. install.idx : chosen[n] \in Nat BY <1>2, <1>3, ElementOfSeq
  <2> QED BY <1>1, <1>2, <2>1, SubSeqProperties
<1>7. current = ptr BY <1>0, <1>1, <1>2 DEF Snapshots, Idle
<1>8. Shape'
  <2>1. install' \in Adopted BY <1>1, <1>2, <1>4 DEF Adopted
  <2>2. counter' \in Nat /\ applied' \in Nat BY <1>1, <1>2, <1>3
  <2> QED BY <1>0, <1>1, <1>6, <2>1, <2>2 DEF Shape
<1>9. LogWhole' BY <1>0, <1>1, LogFrame
<1>10. Marks'
  <2>1. install.idx <= KnownCommitted /\ KnownCommitted' = KnownCommitted
    BY <1>0, <1>1, <1>2 DEF KnownCommitted, Shape
  <2>2. install.idx <= install.idx BY <1>2
  <2> QED BY <1>0, <1>1, <1>2, <2>1, <2>2 DEF Marks, Covered
<1>11. Snapshots'
  <2>1. Covered(ptr.idx)' /\ Named(ptr)'
    BY <1>0, <1>1, <1>2, <1>5 DEF Snapshots, Covered, KnownCommitted, Named
  <2>2. BuildSound' BY <1>1, <1>2 DEF BuildSound
  <2>3. InstallSound' BY <1>1, <1>2, <1>4, <1>5, <1>7 DEF InstallSound
  <2> QED BY <1>1, <1>7, <2>1, <2>2, <2>3 DEF Snapshots
<1> QED BY <1>8, <1>9, <1>10, <1>11 DEF Inv

LEMMA InstallPointerStep ==
    ASSUME Inv, InstallPointer
    PROVE  Inv'
<1>0. Shape /\ LogWhole /\ Marks /\ Snapshots BY DEF Inv
<1>1. /\ status = "up" /\ install.op = "pointer"
      /\ ptr' = [file |-> install.file, idx |-> install.idx]
      /\ install' = [install EXCEPT !.op = "publish"]
      /\ UNCHANGED <<setup, status, chosen, term, segs, synced, torn, marker, files, purged,
                     committed, acked, core, engine, applied, current, counter, known, build>>
  BY DEF InstallPointer
<1>2. /\ install # Idle /\ install.idx \in Nat /\ install \in Adopted /\ install.file \in FileName
      /\ build = Idle
  BY <1>0, <1>1, InstallShape DEF Snapshots, InstallSound
<1>3. /\ install' \in Adopted /\ install'.op = "publish" /\ install'.file = install.file
      /\ install'.idx = install.idx
  BY <1>1, <1>2 DEF Adopted
<1>4. Shape' BY <1>0, <1>1, <1>2, <1>3 DEF Shape, Pointer
<1>5. LogWhole' BY <1>0, <1>1, LogFrame
<1>6. Marks' BY <1>0, <1>1, <1>3 DEF Marks, Covered, KnownCommitted
<1>7. Snapshots'
  <2>1. /\ install.idx <= Len(chosen) /\ install.idx <= purged /\ known <= install.idx
        /\ install.idx <= KnownCommitted
        /\ install.file \in DOMAIN files
        /\ files[install.file] = Whole(SubSeq(chosen, 1, install.idx))
    BY <1>0, <1>1, <1>2 DEF Snapshots, InstallSound, KnownCommitted, Shape
  <2>2. Covered(ptr.idx)' /\ Named(ptr)' /\ known' <= ptr'.idx
    BY <1>1, <2>1 DEF Covered, KnownCommitted, Named
  <2>3. BuildSound' BY <1>1, <1>2 DEF BuildSound
  <2>4. InstallSound' BY <1>0, <1>1, <1>2, <1>3 DEF Snapshots, InstallSound
  <2> QED BY <1>3, <2>2, <2>3, <2>4 DEF Snapshots
<1> QED BY <1>4, <1>5, <1>6, <1>7 DEF Inv

LEMMA InstallPublishStep ==
    ASSUME Inv, InstallPublish
    PROVE  Inv'
<1>0. Shape /\ LogWhole /\ Marks /\ Snapshots BY DEF Inv
<1>1. /\ status = "up" /\ install.op = "publish"
      /\ files' = [f \in DOMAIN files \ {current.file} |-> files[f]]
      /\ current' = [file |-> install.file, idx |-> install.idx]
      /\ install' = Idle
      /\ UNCHANGED <<setup, status, chosen, term, segs, synced, torn, marker, ptr, purged,
                     committed, acked, core, engine, applied, counter, known, build>>
  BY DEF InstallPublish
<1>2. /\ install # Idle /\ install.idx \in Nat /\ install.file \in FileName
      /\ build = Idle /\ install.file # current.file
      /\ ptr = [file |-> install.file, idx |-> install.idx] /\ known <= ptr.idx
  BY <1>0, <1>1, InstallShape DEF Snapshots, InstallSound
<1>3. Shape' BY <1>0, <1>1, <1>2 DEF Shape, Pointer
<1>4. LogWhole' BY <1>0, <1>1, LogFrame
<1>5. Marks' BY <1>0, <1>1 DEF Marks, Covered, KnownCommitted, Idle
<1>6. Snapshots'
  <2>1. ptr.file \in DOMAIN files => ptr.file \in DOMAIN files' /\ files'[ptr.file] = files[ptr.file]
    <3>1. ptr.file # current.file BY <1>2
    <3> QED BY <1>1, <3>1
  <2>2. Covered(ptr.idx)' /\ Named(ptr)'
    BY <1>0, <1>1, <2>1 DEF Snapshots, Covered, KnownCommitted, Named
  <2> QED BY <1>1, <1>2, <2>2 DEF Snapshots, BuildSound, InstallSound
<1> QED BY <1>3, <1>4, <1>5, <1>6 DEF Inv

-----------------------------------------------------------------------------
(* Crash and restart. *)

\* A crash that upsets nothing loses nothing, or the record being appended.
LEMMA CrashCuts ==
    ASSUME Inv, Undisturbed', Crash
    PROVE  /\ core.op \in {"idle", "append"} /\ install = Idle /\ segs # <<>>
           /\ torn' \in BOOLEAN
           /\ \E k \in 0 .. Len(Active.recs) :
                /\ segs' = WithLast(segs, SubSeq(segs[Len(segs)].recs, 1, k))
                /\ k = Len(Active.recs) \/ (core.op = "append" /\ k = Len(Active.recs) - 1)
<1>0. Shape /\ LogWhole BY DEF Inv
<1>1. status = "up" /\ UnderWay \cap Upsets = {} BY DEF Crash, Undisturbed
<1>2. core.op \in {"idle", "append"}
  <2>1. core.op \in {"idle", "append", "purge", "truncate"} BY <1>0 DEF Shape, CoreSteps
  <2> QED BY <1>1, <2>1 DEF UnderWay, Upsets
<1>3. install = Idle BY <1>1 DEF UnderWay, Upsets
<1>4. segs \in Seq(Segment) /\ segs # <<>> BY <1>0, <1>2 DEF Shape, LogWhole, Untruncated
<1>5. PICK e \in Nat : e = Len(Active.recs) BY <1>4, EmptySeq, SegmentShape DEF Active
<1> DEFINE cut == IF core.op = "append" THEN 1 ELSE 0
<1>6. PICK k \in (IF setup.power THEN synced ELSE e - cut) .. e :
        /\ segs' = WithLast(segs, SubSeq(segs[Len(segs)].recs, 1, k))
        /\ torn' \in IF k < e THEN BOOLEAN ELSE {FALSE}
        /\ k < e - cut => TRUE \notin AsyncDurability
  BY <1>4, <1>5 DEF Crash, WithLast, Reported, Undisturbed
<1>7. synced \in Nat /\ (setup.power /\ TRUE \notin AsyncDurability => synced >= e - cut)
  BY <1>0, <1>1, <1>2, <1>5 DEF Shape, LogWhole, Fsynced, Reported
<1>8. core.op = "append" => e >= 1
  <2>1. ASSUME core.op = "append" PROVE e >= 1
    <3>1. Active.recs # <<>> /\ Active.recs \in Seq(Entry)
      BY <1>0, <1>1, <1>4, <2>1, EmptySeq, SegmentShape DEF LogWhole, Unreported, Active
    <3> QED BY <1>5, <3>1, EmptySeq
  <2> QED BY <2>1
<1>9. e - cut <= k /\ k <= e /\ k \in Int
  <2>1. CASE setup.power
    <3>1. k \in synced .. e BY <1>6, <2>1
    <3>2. cut \in Nat /\ (k < e - cut => synced >= e - cut) BY <1>6, <1>7, <2>1
    <3> HIDE DEF cut
    <3> QED BY <1>5, <1>7, <3>1, <3>2
  <2>2. CASE ~ setup.power
    <3>1. k \in e - cut .. e BY <1>6, <2>2
    <3> QED BY <1>5, <3>1
  <2> QED BY <2>1, <2>2
<1>10. k \in 0 .. e /\ (k = e \/ (core.op = "append" /\ k = e - 1))
  <2>1. CASE core.op = "append" BY <1>5, <1>8, <1>9, <2>1
  <2>2. CASE core.op # "append" BY <1>5, <1>9, <2>2
  <2> QED BY <2>1, <2>2
<1>11. torn' \in BOOLEAN BY <1>6
<1> QED BY <1>2, <1>3, <1>4, <1>5, <1>6, <1>10, <1>11

\* What it loses was neither reported nor committed.
LEMMA CrashStep ==
    ASSUME Inv, Undisturbed', Crash
    PROVE  Inv'
<1>0. Shape /\ LogWhole /\ Marks /\ Snapshots /\ Layout(segs) BY DEF Inv, LogWhole
<1>1. /\ core.op \in {"idle", "append"} /\ install = Idle /\ segs # <<>> /\ torn' \in BOOLEAN
      /\ status = "up" /\ status' = "down"
      /\ UNCHANGED <<setup, chosen, term, synced, marker, files, ptr, purged, committed, acked,
                     core, engine, applied, current, counter, known, build, install>>
  BY CrashCuts DEF Crash, memory
<1>2. PICK k \in 0 .. Len(Active.recs) :
        /\ segs' = WithLast(segs, SubSeq(segs[Len(segs)].recs, 1, k))
        /\ k = Len(Active.recs) \/ (core.op = "append" /\ k = Len(Active.recs) - 1)
  BY CrashCuts
<1>3. /\ segs \in Seq(Segment) /\ purged \in Nat /\ acked \in Nat /\ MaxIndex \in Nat
  BY <1>0, RaftStoreAssumption DEF Shape, Index
<1> DEFINE old == segs[Len(segs)].recs
<1>4. PICK e \in Nat : e = Len(old) BY <1>1, <1>3, EmptySeq, SegmentShape
<1>5. /\ DOMAIN old = 1 .. e /\ Len(segs) \in DOMAIN segs /\ segs[Len(segs)].start \in Nat
      /\ \A n \in 1 .. e : old[n] \in Records(segs) /\ old[n].i \in Nat
  <2>1. Len(segs) \in 1 .. Len(segs) /\ Len(segs) \in DOMAIN segs BY <1>1, <1>3, EmptySeq, SegmentShape
  <2> QED BY <1>3, <1>4, <2>1, SegmentShape, PlaceRecord
<1>6. Ascending(old) /\ \A n \in 1 .. e : segs[Len(segs)].start <= old[n].i
  BY <1>0, <1>5 DEF Layout
<1>7. Active = segs[Len(segs)] /\ Active.recs = old BY DEF Active
<1> HIDE DEF old
<1>8. k \in 0 .. e /\ (k = e \/ (core.op = "append" /\ k = e - 1)) BY <1>2, <1>4, <1>7
<1>9. /\ segs' \in Seq(Segment) /\ Layout(segs') /\ segs' # <<>>
      /\ Active'.start = segs[Len(segs)].start
      /\ \A r \in Records(segs') :
            /\ r \in Records(segs)
            /\ r.i < segs[Len(segs)].start \/ \E n \in 1 .. k : r = old[n]
      /\ \A r \in Records(segs) :
            r \in Records(segs') \/ \E n \in k + 1 .. e : r = old[n]
  <2>1. k \in 0 .. Len(segs[Len(segs)].recs) BY <1>4, <1>8 DEF old
  <2> QED BY <1>0, <1>1, <1>2, <1>3, <1>4, <2>1, CutShort DEF old, Active
<1>10. Shape' BY <1>0, <1>1, <1>9 DEF Shape
<1>11. PICK l \in Nat : l = LastIndex /\ l <= MaxIndex BY <1>0, LastEntry
<1>12. IsLast(segs, purged, l) BY <1>0, <1>11, LastEntry
<1>13. NoGap(segs, purged, l) /\ acked <= l /\ segs[Len(segs)].start <= l + 1
  BY <1>0, <1>1, <1>7, <1>11 DEF LogWhole, Untruncated
<1>14. purged' \in Index /\ purged' = purged /\ IsLast(segs', purged', LastIndex')
  BY <1>1, <1>9, <1>10, LastEntryNext DEF Shape
<1>15. \E m \in Nat : /\ IsLast(segs', purged', m) /\ NoGap(segs', purged, m) /\ acked <= m
                      /\ segs[Len(segs)].start <= m + 1
  <2>1. CASE k = e
    <3>1. \A r \in Records(segs) : r \in Records(segs') BY <1>4, <1>9, <2>1
    <3>2. IsLast(segs', purged', l) BY <1>9, <1>12, <1>14, <3>1 DEF IsLast
    <3>3. NoGap(segs', purged, l) BY <1>13, <3>1 DEF NoGap
    <3> QED BY <1>11, <1>13, <3>2, <3>3
  <2>2. CASE core.op = "append" /\ k = e - 1
    <3>1. old # <<>> /\ old[e].i = l /\ acked < l /\ purged < l
      BY <1>0, <1>1, <1>4, <1>7, <1>11, <2>2 DEF LogWhole, Unreported
    <3>2. e \in 1 .. e /\ k \in Nat BY <1>4, <1>8, <2>2
    <3>3. ASSUME NEW r \in Records(segs') PROVE r.i < l
      <4>1. r.i \in Nat BY <1>9, RecordShape
      <4>2. segs[Len(segs)].start <= l BY <1>6, <3>1, <3>2
      <4>3. \A n \in 1 .. k : old[n].i < l BY <1>4, <1>5, <1>6, <2>2, <3>1, <3>2 DEF Ascending
      <4> QED BY <1>5, <1>9, <1>11, <4>1, <4>2, <4>3
    <3>4. ASSUME NEW r \in Records(segs), r.i # l PROVE r \in Records(segs')
      <4>1. \A n \in k + 1 .. e : n = e BY <1>4, <2>2
      <4> QED BY <1>9, <3>1, <3>4, <4>1
    <3>5. l - 1 \in Nat /\ l - 1 \in Index /\ purged <= l - 1 /\ acked <= l - 1
      BY <1>3, <1>11, <3>1 DEF Index
    <3>6. NoGap(segs', purged, l - 1)
      <4>1. ASSUME NEW j \in Nat, purged < j, j <= l - 1
            PROVE  \E r \in Records(segs') : r.i = j
        <5>1. j <= l /\ j # l BY <1>11, <4>1
        <5>2. PICK r \in Records(segs) : r.i = j BY <1>13, <4>1, <5>1 DEF NoGap
        <5> QED BY <3>4, <5>1, <5>2
      <4> QED BY <4>1 DEF NoGap
    <3>7. \A r \in Records(segs') : r.i > purged => r.i <= l - 1
      <4>1. \A r \in Records(segs') : r.i \in Nat BY <1>9, RecordShape
      <4> QED BY <1>11, <3>3, <4>1
    <3>8. l - 1 = purged \/ \E r \in Records(segs') : r.i = l - 1
      <4>1. CASE purged < l - 1
        <5>1. l - 1 <= l - 1 BY <3>5
        <5> QED BY <3>5, <3>6, <4>1, <5>1 DEF NoGap
      <4>2. CASE ~ (purged < l - 1) BY <1>3, <3>5, <4>2
      <4> QED BY <4>1, <4>2
    <3>9. IsLast(segs', purged', l - 1) BY <1>14, <3>5, <3>7, <3>8 DEF IsLast
    <3>10. segs[Len(segs)].start <= l - 1 + 1 BY <1>5, <1>6, <1>11, <3>1, <3>2
    <3> QED BY <3>5, <3>6, <3>9, <3>10
  <2> QED BY <1>8, <2>1, <2>2
<1>16. PICK m \in Nat : /\ IsLast(segs', purged', m) /\ NoGap(segs', purged, m) /\ acked <= m
                        /\ segs[Len(segs)].start <= m + 1
  BY <1>15
<1>17. LastIndex' = m BY <1>9, <1>14, <1>16, LastUnique
<1>18. LogWhole'
  <2>1. Untruncated' BY <1>1, <1>9, <1>14, <1>16, <1>17 DEF Untruncated
  <2>2. Truncating' /\ Unreported' /\ Fsynced' BY <1>1 DEF Truncating, Unreported, Fsynced
  <2>3. Agreement' BY <1>0, <1>1, <1>9 DEF LogWhole, Agreement
  <2> QED BY <1>9, <2>1, <2>2, <2>3 DEF LogWhole
<1>19. Marks' BY <1>0, <1>1 DEF Marks, Covered, KnownCommitted
<1>20. Snapshots' BY <1>0, <1>1, SnapshotsFrame
<1> QED BY <1>10, <1>18, <1>19, <1>20 DEF Inv

\* The segments a restart opens hold all that is not purged.
LEMMA OpenedKeeps ==
    ASSUME Shape, Layout(segs), segs # <<>>, marker.purged = purged
    PROVE  /\ Opened \in Seq(Segment) /\ Layout(Opened) /\ Opened # <<>>
           /\ Opened[Len(Opened)] = segs[Len(segs)]
           /\ Records(Opened) \subseteq Records(segs)
           /\ \A r \in Records(segs) : r.i > purged => r \in Records(Opened)
<1> DEFINE kept == {s \in DOMAIN segs : ~ FullyPurged(segs, s, marker.purged)}
<1>1. segs \in Seq(Segment) /\ purged \in Nat BY RaftStoreAssumption DEF Shape, Index
<1>2. Len(segs) \in Nat /\ DOMAIN segs = 1 .. Len(segs) /\ Len(segs) \in DOMAIN segs
  BY <1>1, EmptySeq, SegmentShape
<1>3. Len(segs) \in kept BY <1>2 DEF FullyPurged
<1>4. kept \in SUBSET Nat /\ kept \subseteq DOMAIN segs BY <1>2
<1>5. Opened = SubSeq(segs, Min(kept), Len(segs)) BY <1>3 DEF Opened, Reclaimed
<1>6. \A s \in DOMAIN segs : s \notin kept =>
        segs[s].recs # <<>> /\ segs[s].recs[Len(segs[s].recs)].i <= purged
  BY DEF FullyPurged
<1> HIDE DEF kept
<1>7. PICK m \in kept : m = Min(kept) /\ \A s \in kept : m <= s
  BY <1>3, <1>4, SmallestPosition
<1>8. m \in 1 .. Len(segs) BY <1>2, <1>4
<1>9. \A s \in 1 .. m - 1 : segs[s].recs # <<>> /\ segs[s].recs[Len(segs[s].recs)].i <= purged
  <2>1. ASSUME NEW s \in 1 .. m - 1
        PROVE  s \in DOMAIN segs /\ s \notin kept
    BY <1>2, <1>7, <1>8
  <2> QED BY <1>6, <2>1
<1>10. Opened = SubSeq(segs, m, Len(segs)) BY <1>5, <1>7
<1> QED BY <1>1, <1>8, <1>9, <1>10, FromSegment

\* Down, the member has a snapshot that covers the purge, and a log from there on.
LEMMA DownState ==
    ASSUME Inv, status = "down"
    PROVE  /\ core.op \in {"idle", "append"} /\ install = Idle /\ segs # <<>>
           /\ marker.purged = purged /\ Restored = ptr
           /\ purged <= ptr.idx /\ ptr.idx <= LastIndex /\ ptr.idx <= Len(chosen)
           /\ marker.committed <= LastIndex /\ marker.committed <= Len(chosen)
           /\ acked <= LastIndex /\ NoGap(segs, purged, LastIndex)
<1>0. Shape /\ LogWhole /\ Marks /\ Snapshots /\ Layout(segs) BY DEF Inv, LogWhole
<1>1. core.op \in {"idle", "append"} /\ install = Idle BY <1>0 DEF Marks
<1>2. segs # <<>> /\ acked <= LastIndex /\ NoGap(segs, purged, LastIndex)
  BY <1>0, <1>1 DEF LogWhole, Untruncated
<1>3. marker.purged = purged BY <1>0, <1>1 DEF Marks
<1>4. Restored = ptr BY <1>0 DEF Restored, Snapshots, Named
<1>5. PICK l \in Nat : l = LastIndex BY <1>0, LastEntry
<1>6. /\ purged \in Nat /\ known \in Nat /\ acked \in Nat /\ ptr.idx \in Nat
      /\ committed \in Nat /\ marker.committed \in Nat /\ Len(chosen) \in Nat
  BY <1>0, LenProperties, RaftStoreAssumption DEF Shape, Index, Pointer
<1>7. purged <= l
  <2>1. IsLast(segs, purged, l) BY <1>0, <1>5, LastEntry
  <2> QED BY <2>1 DEF IsLast
<1>8. purged <= known /\ known <= ptr.idx /\ Covered(ptr.idx) /\ Covered(committed)
      /\ marker.committed <= committed
  BY <1>0, <1>1 DEF Marks, Snapshots, Idle
<1> QED BY <1>1, <1>2, <1>3, <1>4, <1>5, <1>6, <1>7, <1>8 DEF Covered

\* The index a restart reads: the log's, entry by entry.
LEMMA BootLog ==
    ASSUME Inv, status = "down"
    PROVE  LET log == LogOf(Opened, marker.purged)
           IN  /\ IsLast(Opened, purged, LastIndex)
               /\ Max(DOMAIN log \cup {marker.purged}) = LastIndex
               /\ \A j \in Nat : purged < j /\ j <= LastIndex => j \in DOMAIN log
               /\ \A j \in DOMAIN log : j \in Nat /\ j > 0 /\ purged < j /\ j <= LastIndex
               /\ \A j \in DOMAIN log : j <= Len(chosen) => log[j] = chosen[j]
<1>0. Shape /\ LogWhole /\ Layout(segs) BY DEF Inv, LogWhole
<1>1. segs # <<>> /\ marker.purged = purged /\ NoGap(segs, purged, LastIndex) BY DownState
<1>2. /\ Opened \in Seq(Segment) /\ Layout(Opened)
      /\ Records(Opened) \subseteq Records(segs)
      /\ \A r \in Records(segs) : r.i > purged => r \in Records(Opened)
  BY <1>0, <1>1, OpenedKeeps
<1>3. PICK l \in Nat : l = LastIndex BY <1>0, LastEntry
<1>4. IsLast(segs, purged, l) BY <1>0, <1>3, LastEntry
<1>5. purged \in Index /\ purged \in Nat BY <1>0, RaftStoreAssumption DEF Shape, Index
<1> DEFINE log == LogOf(Opened, marker.purged)
<1>6. /\ \A j : j \in DOMAIN log <=> \E r \in Records(Opened) : r.i = j /\ r.i > purged
      /\ \A r \in Records(Opened) : r.i > purged => log[r.i] = r.t
  BY <1>1, <1>2, IndexProps
<1>7. IsLast(Opened, purged, l)
  <2>1. l # purged => l > purged BY <1>3, <1>4, <1>5 DEF IsLast
  <2> QED BY <1>2, <1>4, <2>1 DEF IsLast
<1>8. Max(DOMAIN log \cup {marker.purged}) = l
  <2>1. IsLast(Opened, purged, Max(DOMAIN log \cup {marker.purged})) BY <1>1, <1>2, <1>5, LastProps
  <2> QED BY <1>2, <1>5, <1>7, <2>1, LastUnique
<1> HIDE DEF log
<1>9. ASSUME NEW j \in Nat, purged < j, j <= l PROVE j \in DOMAIN log
  <2>1. PICK r \in Records(segs) : r.i = j BY <1>1, <1>3, <1>9 DEF NoGap
  <2>2. r \in Records(Opened) /\ r.i > purged BY <1>2, <1>5, <1>9, <2>1
  <2> QED BY <1>6, <2>1, <2>2
<1>10. ASSUME NEW j \in DOMAIN log
       PROVE  /\ j \in Nat /\ j > 0 /\ purged < j /\ j <= l
              /\ j <= Len(chosen) => log[j] = chosen[j]
  <2>1. PICK r \in Records(Opened) : r.i = j /\ r.i > purged BY <1>6
  <2>2. r \in Records(segs) BY <1>2
  <2>3. r.i \in 1 .. MaxIndex BY <1>2, RecordShape
  <2>4. log[j] = r.t BY <1>6, <2>1
  <2>5. j <= Len(chosen) => r.t = chosen[j] BY <1>0, <2>1, <2>2 DEF LogWhole, Agreement
  <2>6. j <= l BY <1>4, <2>1, <2>2 DEF IsLast
  <2> QED BY <1>5, <2>1, <2>3, <2>4, <2>5, <2>6
<1> QED BY <1>3, <1>7, <1>8, <1>9, <1>10 DEF log

\* Only a torn record keeps the member from being hosted.
LEMMA BootHosts ==
    ASSUME Inv, status = "down", NEW upto \in Nat, upto <= LastIndex,
           torn = FALSE
    PROVE  ~ PurgeHole /\ Hostable(LogOf(Opened, marker.purged), upto)
<1>0. Shape /\ Snapshots /\ Layout(segs) BY DEF Inv, LogWhole
<1>1. PICK l \in Nat : l = LastIndex BY <1>0, LastEntry
<1>2. PICK log : log = LogOf(Opened, marker.purged) OBVIOUS
<1>3. /\ \A j \in Nat : purged < j /\ j <= l => j \in DOMAIN log
      /\ \A j \in DOMAIN log : j \in Nat /\ j > 0 /\ purged < j /\ j <= l
  BY <1>1, <1>2, BootLog
<1>4. marker.purged = purged /\ Restored = ptr /\ purged <= ptr.idx BY DownState
<1>5. purged \in Nat /\ ptr.idx \in Nat
  BY <1>0, RaftStoreAssumption DEF Shape, Index, Pointer
<1>6. ~ PurgeHole BY <1>4, <1>5 DEF PurgeHole
<1>7. Restored # NoFile => files[Restored.file].whole
  BY <1>0, <1>4 DEF Snapshots, Named, Whole
<1>8. Restored.idx + 1 .. upto \subseteq DOMAIN log
  <2>1. \A j \in ptr.idx + 1 .. upto : j \in Nat /\ purged < j /\ j <= l
    BY <1>1, <1>4, <1>5
  <2> QED BY <1>3, <1>4, <2>1
<1>9. ASSUME DOMAIN log # {}, marker.purged = 0 PROVE 1 \in DOMAIN log
  <2>1. PICK j \in DOMAIN log : TRUE BY <1>9
  <2>2. 1 <= l /\ purged < 1 BY <1>1, <1>3, <1>4, <1>9, <2>1
  <2> QED BY <1>3, <2>2
<1>10. Hostable(log, upto) BY <1>7, <1>8, <1>9 DEF Hostable
<1> QED BY <1>2, <1>6, <1>10

\* The state re-applied over the snapshot is the group's.
LEMMA ReplayedExact ==
    ASSUME Inv, status = "down", NEW upto \in Nat,
           upto <= LastIndex, upto <= Len(chosen), ptr.idx <= upto
    PROVE  Replayed(LogOf(Opened, marker.purged), upto) = SubSeq(chosen, 1, upto)
<1>0. Shape /\ Snapshots /\ Layout(segs) BY DEF Inv, LogWhole
<1>1. PICK l \in Nat : l = LastIndex BY <1>0, LastEntry
<1>2. PICK log : log = LogOf(Opened, marker.purged) OBVIOUS
<1>3. /\ \A j \in Nat : purged < j /\ j <= l => j \in DOMAIN log
      /\ \A j \in DOMAIN log : j <= Len(chosen) => log[j] = chosen[j]
  BY <1>1, <1>2, BootLog
<1>4. Restored = ptr /\ purged <= ptr.idx /\ ptr.idx <= Len(chosen) BY DownState
<1>5. PICK x \in Nat : x = ptr.idx BY <1>0 DEF Shape, Pointer
<1>6. purged \in Nat /\ chosen \in Seq(Nat) /\ Len(chosen) \in Nat
  BY <1>0, LenProperties, RaftStoreAssumption DEF Shape, Index
<1> DEFINE base == IF Restored = NoFile THEN <<>> ELSE files[Restored.file].content
           rest == [k \in 1 .. upto - Restored.idx |-> log[Restored.idx + k]]
<1>7. base = SubSeq(chosen, 1, x)
  <2>1. CASE ptr = NoFile
    <3>1. x = 0 BY <1>5, <2>1 DEF NoFile
    <3>2. SubSeq(chosen, 1, 0) = <<>> BY SubSeqEmpty
    <3> QED BY <1>4, <2>1, <3>1, <3>2
  <2>2. CASE ptr # NoFile
    <3>1. files[ptr.file] = Whole(SubSeq(chosen, 1, ptr.idx)) BY <1>0, <2>2 DEF Snapshots, Named
    <3> QED BY <1>4, <1>5, <2>2, <3>1 DEF Whole
  <2> QED BY <2>1, <2>2
<1>8. rest = SubSeq(chosen, x + 1, upto)
  <2> DEFINE tail == SubSeq(chosen, x + 1, upto)
  <2>1. rest = [k \in 1 .. upto - x |-> log[x + k]] BY <1>4, <1>5
  <2>2. ASSUME NEW k \in 1 .. upto - x PROVE log[x + k] = chosen[x + k] /\ chosen[x + k] \in Nat
    <3>1. PICK j \in Nat : j = x + k BY <1>5
    <3>2. purged < j /\ j <= l /\ j <= Len(chosen) /\ j \in 1 .. Len(chosen)
      BY <1>1, <1>4, <1>5, <1>6, <3>1
    <3> QED BY <1>3, <1>6, <3>1, <3>2, ElementOfSeq
  <2>3. upto - x \in Nat BY <1>5
  <2>4. rest \in Seq(Nat) /\ Len(rest) = upto - x
    <3>1. PICK d \in Nat : d = upto - x BY <2>3
    <3>2. \A k \in 1 .. d : log[x + k] \in Nat BY <2>2, <3>1
    <3>3. rest = [k \in 1 .. d |-> log[x + k]] BY <2>1, <3>1
    <3>4. rest \in [1 .. d -> Nat] /\ DOMAIN rest = 1 .. d
      <4> HIDE DEF rest
      <4> QED BY <3>2, <3>3, Zenon
    <3> HIDE DEF rest
    <3>5. rest \in Seq(Nat) BY <3>4, SeqDef
    <3>6. Len(rest) \in Nat /\ 1 .. Len(rest) = 1 .. d BY <3>4, <3>5, LenProperties
    <3>7. Len(rest) = d BY <3>6
    <3> QED BY <3>1, <3>5, <3>7
  <2>5. \A k \in 1 .. upto - x : rest[k] = chosen[x + k] BY <2>1, <2>2
  <2>6. /\ tail \in Seq(Nat)
        /\ Len(tail) = IF x + 1 <= upto THEN upto - (x + 1) + 1 ELSE 0
        /\ \A k \in 1 .. upto - (x + 1) + 1 : tail[k] = chosen[x + 1 + k - 1]
    <3>1. PICK m \in Nat : m = x + 1 BY <1>5
    <3>2. \A n \in m .. upto : chosen[n] \in Nat
      <4>1. \A n \in m .. upto : n \in 1 .. Len(chosen) BY <1>5, <1>6, <3>1
      <4> QED BY <1>6, <4>1, ElementOfSeq
    <3>3. /\ SubSeq(chosen, m, upto) \in Seq(Nat)
          /\ Len(SubSeq(chosen, m, upto)) = IF m <= upto THEN upto - m + 1 ELSE 0
          /\ \A k \in 1 .. upto - m + 1 : SubSeq(chosen, m, upto)[k] = chosen[m + k - 1]
      BY <3>2, SubSeqProperties
    <3> QED BY <3>1, <3>3
  <2> HIDE DEF tail, rest
  <2>7. Len(tail) = upto - x BY <1>5, <2>3, <2>6
  <2>8. \A k \in 1 .. upto - x : tail[k] = chosen[x + k]
    <3>1. ASSUME NEW k \in 1 .. upto - x PROVE tail[k] = chosen[x + k]
      <4>1. k \in 1 .. upto - (x + 1) + 1 /\ x + 1 + k - 1 = x + k BY <1>5, <2>3
      <4> QED BY <2>6, <4>1
    <3> QED BY <3>1
  <2>9. rest = tail BY <2>4, <2>5, <2>6, <2>7, <2>8, SeqEqual
  <2> QED BY <2>9 DEF tail
<1>9. SubSeq(chosen, 1, x) \o SubSeq(chosen, x + 1, upto) = SubSeq(chosen, 1, upto)
  <2>1. 1 \in 1 .. Len(chosen) + 1 /\ x \in 1 - 1 .. Len(chosen) /\ upto \in x .. Len(chosen)
    BY <1>4, <1>5, <1>6
  <2> QED BY <1>6, <2>1, ConcatAdjacentSubSeq
<1>10. Replayed(log, upto) = base \o rest BY DEF Replayed
<1> QED BY <1>2, <1>7, <1>8, <1>9, <1>10

LEMMA BootStep ==
    ASSUME Inv, Boot
    PROVE  Inv'
<1>0. Shape /\ LogWhole /\ Marks /\ Snapshots /\ Layout(segs) BY DEF Inv, LogWhole
<1>1. status = "down" /\ UNCHANGED <<setup, chosen, term>> BY DEF Boot
<1> DEFINE upto == IF marker.committed > Restored.idx THEN marker.committed ELSE Restored.idx
           log == LogOf(Opened, marker.purged)
           last == Max(DOMAIN log \cup {marker.purged})
<1>2. /\ core.op \in {"idle", "append"} /\ install = Idle /\ segs # <<>>
      /\ marker.purged = purged /\ Restored = ptr
      /\ purged <= ptr.idx /\ ptr.idx <= LastIndex /\ ptr.idx <= Len(chosen)
      /\ marker.committed <= LastIndex /\ marker.committed <= Len(chosen)
      /\ acked <= LastIndex /\ NoGap(segs, purged, LastIndex)
  BY <1>1, DownState
<1>3. PICK l \in Nat : l = LastIndex BY <1>0, LastEntry
<1>4. /\ purged \in Nat /\ purged \in Index /\ acked \in Nat /\ marker.committed \in Nat
      /\ ptr.idx \in Nat /\ Len(chosen) \in Nat /\ chosen \in Seq(Nat) /\ ptr \in Pointer
      /\ marker \in [purged : Nat, committed : Nat]
  BY <1>0, LenProperties, RaftStoreAssumption DEF Shape, Index, Pointer
<1>5. PICK u \in Nat : /\ u = upto /\ u <= l /\ u <= Len(chosen) /\ ptr.idx <= u
                       /\ marker.committed <= u
  <2>1. CASE marker.committed > ptr.idx BY <1>2, <1>3, <1>4, <2>1
  <2>2. CASE ~ (marker.committed > ptr.idx) BY <1>2, <1>3, <1>4, <2>2
  <2> QED BY <2>1, <2>2
<1>6. last = l BY <1>1, <1>3, BootLog
<1>7. torn = FALSE => ~ PurgeHole /\ Hostable(log, u)
  BY <1>1, <1>3, <1>5, BootHosts
<1>8. torn \in BOOLEAN BY <1>0 DEF Shape
<1>9. ~ PurgeHole BY <1>2, <1>4 DEF PurgeHole
<1>10. CASE ~ Hostable(log, u)
  <2>1. torn BY <1>7, <1>8, <1>10
  <2>2. status' = "refused" /\ UNCHANGED <<disk, memory>> BY <1>5, <1>9, <1>10 DEF Boot
  <2>3. UNCHANGED <<segs, synced, torn, marker, files, ptr, purged, committed, acked, core,
                    engine, applied, current, counter, known, build, install>>
    BY <2>2 DEF disk, memory
  <2>4. Shape' BY <1>0, <1>1, <2>2, <2>3 DEF Shape
  <2>5. LogWhole'
    <3>1. LastIndex' = LastIndex /\ Active' = Active BY <2>3 DEF LastIndex, Log, Active
    <3>2. Untruncated' BY <1>0, <2>3, <3>1 DEF LogWhole, Untruncated
    <3>3. Truncating' /\ Agreement'
      BY <1>0, <1>1, <2>3 DEF LogWhole, Truncating, Agreement, KnownCommitted
    <3>4. Unreported' /\ Fsynced' BY <2>2 DEF Unreported, Fsynced
    <3> QED BY <1>0, <2>3, <3>2, <3>3, <3>4 DEF LogWhole
  <2>6. Marks' BY <1>0, <1>1, <1>2, <2>1, <2>2, <2>3 DEF Marks, Covered, KnownCommitted
  <2>7. Snapshots' BY <1>0, <1>1, <2>3, SnapshotsFrame
  <2> QED BY <2>4, <2>5, <2>6, <2>7 DEF Inv
<1>11. CASE Hostable(log, u)
  <2>1. /\ status' = "up"
        /\ segs' = Reclaimed(purged') /\ synced' = Len(segs'[Len(segs')].recs) /\ torn' = FALSE
        /\ applied' = u /\ engine' = Replayed(log, u)
        /\ purged' = (IF last < u THEN u ELSE marker.purged)
        /\ Republish(purged', u)
        /\ committed' = marker.committed
        /\ marker' = [marker EXCEPT !.purged = purged']
        /\ acked' = Max({acked, last, u})
        /\ core' = Idle /\ build' = Idle /\ install' = Idle
    BY <1>2, <1>5, <1>9, <1>11 DEF Boot
  <2>2. purged' = purged BY <1>2, <1>3, <1>5, <1>6, <2>1
  <2>14. segs' = Opened BY <1>2, <2>1, <2>2 DEF Opened
  <2>15. /\ files' = [f \in {ptr.file} \cap DOMAIN files |-> files[f]]
         /\ ptr' = ptr /\ current' = ptr /\ known' = ptr.idx /\ counter' = 0
    <3>1. ~ (Restored = NoFile /\ purged' > 0) BY <1>2, <1>4, <2>2 DEF NoFile
    <3> QED BY <1>2, <2>1, <3>1 DEF Republish
  <2>3. /\ marker' \in [purged : Nat, committed : Nat]
        /\ marker'.purged = purged /\ marker'.committed = marker.committed
    BY <1>2, <1>4, <2>1, <2>2
  <2>4. acked' = l
    <3> DEFINE S == {acked, l, u}
    <3>1. acked' = Max(S) BY <1>6, <2>1
    <3>2. S \in SUBSET (0 .. l) /\ S # {} BY <1>2, <1>3, <1>4, <1>5
    <3>3. Max(S) \in S /\ \A k \in S : k <= Max(S)
      <4> HIDE DEF S
      <4> QED BY <1>3, <3>2, LargestIndex
    <3>4. l \in S OBVIOUS
    <3>5. Max(S) \in Nat /\ Max(S) <= l /\ l <= Max(S)
      <4> HIDE DEF S
      <4>1. PICK top : top = Max(S) OBVIOUS
      <4>2. top \in 0 .. l /\ l <= top BY <3>2, <3>3, <3>4, <4>1
      <4> QED BY <4>1, <4>2
    <3> HIDE DEF S
    <3> QED BY <1>3, <3>1, <3>5
  <2>5. engine' = SubSeq(chosen, 1, u) /\ engine' \in Seq(Nat)
    <3>1. engine' = SubSeq(chosen, 1, u) BY <1>1, <1>3, <1>5, <2>1, ReplayedExact
    <3>2. \A n \in 1 .. u : chosen[n] \in Nat BY <1>4, <1>5, ElementOfSeq
    <3>3. SubSeq(chosen, 1, u) \in Seq(Nat) BY <1>5, <3>2, SubSeqProperties
    <3> QED BY <3>1, <3>3
  <2>6. /\ segs' \in Seq(Segment) /\ Layout(segs') /\ segs' # <<>>
        /\ Active' = Active
        /\ Records(segs') \subseteq Records(segs)
        /\ \A r \in Records(segs) : r.i > purged => r \in Records(segs')
    BY <1>0, <1>2, <2>14, OpenedKeeps DEF Active
  <2>7. Len(Active.recs) \in Nat /\ synced' = Len(Active'.recs)
    <3>1. Len(Active.recs) \in Nat BY <1>0, <1>2, EmptySeq, SegmentShape DEF Active, Shape
    <3>2. synced' = Len(Active'.recs) BY <2>1 DEF Active
    <3> QED BY <3>1, <3>2
  <2>8. Shape'
    <3>1. synced' \in Nat /\ core' \in CoreSteps BY <2>1, <2>6, <2>7 DEF CoreSteps, Idle
    <3> QED BY <1>0, <1>1, <1>3, <1>4, <1>5, <2>1, <2>2, <2>3, <2>4, <2>5, <2>6, <2>15, <3>1 DEF Shape
  <2>9. LastIndex' = l
    <3>1. IsLast(segs', purged', LastIndex') BY <2>6, <2>8, LastEntryNext
    <3>2. IsLast(segs', purged', l) BY <1>1, <1>3, <2>2, <2>14, BootLog
    <3> QED BY <1>4, <2>2, <2>6, <3>1, <3>2, LastUnique
  <2>10. LogWhole'
    <3>1. NoGap(segs', purged, l)
      <4>1. ASSUME NEW j \in Nat, purged < j, j <= l
            PROVE  \E r \in Records(segs') : r.i = j
        <5>1. PICK r \in Records(segs) : r.i = j BY <1>2, <1>3, <4>1 DEF NoGap
        <5> QED BY <1>4, <2>6, <4>1, <5>1
      <4> QED BY <4>1 DEF NoGap
    <3>2. Untruncated'
      <4>1. Active.start <= l + 1 BY <1>0, <1>2, <1>3 DEF LogWhole, Untruncated
      <4>2. l <= l BY <1>3
      <4> QED BY <2>2, <2>4, <2>6, <2>9, <3>1, <4>1, <4>2 DEF Untruncated
    <3>3. Truncating' /\ Unreported' BY <2>1 DEF Truncating, Unreported, Idle
    <3>4. Agreement' BY <1>0, <1>1, <2>2, <2>6 DEF LogWhole, Agreement
    <3>5. Fsynced'
      <4>1. Reported' = Len(Active'.recs) - 0 BY <2>1 DEF Reported, Idle
      <4> QED BY <2>6, <2>7, <4>1 DEF Fsynced
    <3> QED BY <2>6, <3>2, <3>3, <3>4, <3>5 DEF LogWhole
  <2>11. Covered(committed)' /\ Covered(applied)' /\ Covered(ptr.idx)'
    <3>1. u <= KnownCommitted' BY <1>2, <1>4, <1>5, <2>1, <2>15 DEF KnownCommitted
    <3>2. KnownCommitted' \in Nat BY <1>4, <2>1, <2>15 DEF KnownCommitted
    <3>3. /\ ptr.idx <= KnownCommitted' /\ marker.committed <= KnownCommitted'
          /\ ptr.idx <= l /\ marker.committed <= l
      BY <1>3, <1>4, <1>5, <3>1, <3>2
    <3>4. marker.committed <= Len(chosen) /\ ptr.idx <= Len(chosen) BY <1>2
    <3> QED BY <1>1, <1>5, <2>1, <2>4, <2>15, <3>1, <3>3, <3>4 DEF Covered
  <2>12. Marks'
    <3>1. engine' = SubSeq(chosen', 1, applied') BY <1>1, <2>1, <2>5
    <3>2. marker'.committed <= committed' /\ marker'.purged = purged' /\ marker'.purged <= purged'
      BY <1>4, <2>1, <2>2, <2>3
    <3>3. purged' <= known' /\ known' <= Len(chosen') /\ known' <= applied'
      BY <1>1, <1>2, <1>5, <2>1, <2>2, <2>15
    <3> QED BY <2>1, <2>11, <3>1, <3>2, <3>3 DEF Marks, Idle
  <2>13. Snapshots'
    <3>1. Named(ptr)' BY <1>0, <1>1, <2>15 DEF Snapshots, Named
    <3>2. known' <= ptr'.idx BY <1>4, <2>15
    <3> QED BY <2>1, <2>11, <2>15, <3>1, <3>2 DEF Snapshots, BuildSound, InstallSound
  <2> QED BY <2>8, <2>10, <2>12, <2>13 DEF Inv
<1> QED BY <1>10, <1>11

-----------------------------------------------------------------------------
(* The theorems. *)

\* An upset is never forgotten.
LEMMA UpsetsGrow ==
    ASSUME [Next]_vars
    PROVE  upsets \subseteq upsets'
<1>1. CASE UNCHANGED vars BY <1>1 DEF vars
<1>2. CASE AppendWrite \/ AppendFlushed \/ Flush BY <1>2 DEF AppendWrite, AppendFlushed, Flush
<1>3. CASE \E i \in 1 .. MaxIndex : Commit(i) \/ TruncateBegin(i) \/ PurgeBegin(i)
                                    \/ InstallTruncate(i) \/ InstallBegin(i)
  BY <1>3 DEF Commit, TruncateBegin, PurgeBegin, InstallTruncate, InstallBegin
<1>4. CASE TruncateUnlink \/ TruncateCut \/ PurgeUnlink \/ PurgeMarker
  BY <1>4 DEF TruncateUnlink, TruncateCut, PurgeUnlink, PurgeMarker
<1>5. CASE Apply BY <1>5 DEF Apply
<1>6. CASE BuildBegin \/ BuildSync \/ BuildPointer \/ BuildPublish
  BY <1>6 DEF BuildBegin, BuildSync, BuildPointer, BuildPublish
<1>7. CASE InstallAdopt \/ InstallPointer \/ InstallPublish
  BY <1>7 DEF InstallAdopt, InstallPointer, InstallPublish
<1>8. CASE Crash \/ Boot BY <1>8 DEF Crash, Boot
<1> QED BY <1>1, <1>2, <1>3, <1>4, <1>5, <1>6, <1>7, <1>8 DEF Next

LEMMA NextInv ==
    ASSUME Inv, Undisturbed', [Next]_vars
    PROVE  Inv'
<1>1. CASE UNCHANGED vars
  <2>1. UNCHANGED <<setup, status, chosen, term, segs, synced, torn, marker, files, ptr, purged,
                    committed, acked, core, engine, applied, current, counter, known, build, install>>
    BY <1>1 DEF vars, disk, memory
  <2>2. Shape /\ LogWhole /\ Marks /\ Snapshots BY DEF Inv
  <2>3. Shape' BY <2>1, <2>2 DEF Shape
  <2>4. LogWhole' /\ Marks' /\ Snapshots' BY <2>1, <2>2, LogFrame, MarksFrame, SnapshotsFrame
  <2> QED BY <2>3, <2>4 DEF Inv
<1>2. CASE AppendWrite \/ AppendFlushed \/ Flush
  BY <1>2, AppendWriteStep, AppendFlushedStep, FlushStep
<1>3. CASE \E i \in 1 .. MaxIndex : Commit(i) \/ TruncateBegin(i) \/ PurgeBegin(i)
                                    \/ InstallTruncate(i) \/ InstallBegin(i)
  <2>1. PICK i \in 1 .. MaxIndex : Commit(i) \/ TruncateBegin(i) \/ PurgeBegin(i)
                                   \/ InstallTruncate(i) \/ InstallBegin(i)
    BY <1>3
  <2> QED BY <2>1, CommitStep, TruncateBeginStep, PurgeBeginStep, InstallTruncateStep,
             InstallBeginStep
<1>4. CASE TruncateUnlink \/ TruncateCut \/ PurgeUnlink \/ PurgeMarker
  BY <1>4, TruncateUnlinkStep, TruncateCutStep, PurgeUnlinkStep, PurgeMarkerStep
<1>5. CASE Apply BY <1>5, ApplyStep
<1>6. CASE BuildBegin \/ BuildSync \/ BuildPointer \/ BuildPublish
  BY <1>6, BuildBeginStep, BuildSyncStep, BuildPointerStep, BuildPublishStep
<1>7. CASE InstallAdopt \/ InstallPointer \/ InstallPublish
  BY <1>7, InstallAdoptStep, InstallPointerStep, InstallPublishStep
<1>8. CASE Crash \/ Boot BY <1>8, CrashStep, BootStep
<1> QED BY <1>1, <1>2, <1>3, <1>4, <1>5, <1>6, <1>7, <1>8 DEF Next

LEMMA InvHolds == Spec => [](Undisturbed => Inv)
<1>1. Init => (Undisturbed => Inv) BY InitInv
<1>2. (Undisturbed => Inv) /\ [Next]_vars => (Undisturbed => Inv)'
  <2>1. SUFFICES ASSUME Undisturbed => Inv, [Next]_vars, Undisturbed' PROVE Inv' OBVIOUS
  <2>2. Undisturbed BY <2>1, UpsetsGrow DEF Undisturbed
  <2> QED BY <2>1, <2>2, NextInv
<1> QED BY <1>1, <1>2, PTL DEF Spec

\* The four properties, from the invariant.
LEMMA InvImplies ==
    ASSUME Inv
    PROVE  Exact /\ Readable /\ (Refused => torn) /\ Restorable
<1>0. Shape /\ LogWhole /\ Marks /\ Snapshots /\ Layout(segs) BY DEF Inv, LogWhole
<1>1. Exact BY <1>0 DEF Exact, Marks, Covered
<1>2. Readable
  <2>1. PICK l \in Nat : l = LastIndex BY <1>0, LastEntry
  <2>2. /\ purged \in Nat /\ acked \in Nat /\ applied \in Nat /\ known \in Nat /\ committed \in Nat
        /\ Len(chosen) \in Nat
        /\ core.op = "truncate" => core.since \in Nat
        /\ install # Idle => install.idx \in Nat
    BY <1>0, LenProperties, RaftStoreAssumption
    DEF Shape, Index, CoreSteps, Adopting, Adopted
  <2>3. \A j \in Nat : purged < j /\ j <= acked => j \in DOMAIN Log
    <3>1. SUFFICES ASSUME NEW j \in Nat, purged < j, j <= acked PROVE j \in DOMAIN Log
      OBVIOUS
    <3>2. \E r \in Records(segs) : r.i = j
      <4>1. CASE core.op # "truncate"
        <5>1. NoGap(segs, purged, l) /\ acked <= l BY <1>0, <2>1, <4>1 DEF LogWhole, Untruncated
        <5>2. j <= l BY <2>1, <2>2, <3>1, <5>1
        <5> QED BY <3>1, <5>1, <5>2 DEF NoGap
      <4>2. CASE core.op = "truncate"
        <5>1. NoGap(segs, purged, core.since - 1) /\ core.since > acked
          BY <1>0, <4>2 DEF LogWhole, Truncating
        <5>2. j <= core.since - 1 BY <2>2, <3>1, <4>2, <5>1
        <5> QED BY <3>1, <5>1, <5>2 DEF NoGap
      <4> QED BY <4>1, <4>2
    <3>3. PICK r \in Records(segs) : r.i = j BY <3>2
    <3>4. r.i > purged BY <2>2, <3>1, <3>3
    <3> QED BY <1>0, <3>3, <3>4, LogProps
  <2>4. purged <= known /\ (install = Idle => known <= applied)
        /\ (install # Idle => known = install.idx)
    BY <1>0 DEF Marks, Snapshots, InstallSound, Idle
  <2>5. applied + 1 .. acked
            \subseteq DOMAIN Log \cup (IF install = Idle THEN {} ELSE 1 .. install.idx)
    <3>1. ASSUME NEW j \in applied + 1 .. acked
          PROVE  j \in DOMAIN Log \cup (IF install = Idle THEN {} ELSE 1 .. install.idx)
      <4>1. j \in Nat /\ j > applied /\ j <= acked /\ j >= 1 BY <2>2
      <4>2. CASE purged < j BY <2>3, <4>1, <4>2
      <4>3. CASE ~ (purged < j)
        <5>1. install # Idle BY <2>2, <2>4, <4>1, <4>3
        <5>2. j \in 1 .. install.idx BY <2>2, <2>4, <4>1, <4>3, <5>1
        <5> QED BY <5>1, <5>2
      <4> QED BY <4>2, <4>3
    <3> QED BY <3>1
  <2>6. \A i \in DOMAIN Log : i <= committed => Log[i] = chosen[i]
    <3>1. SUFFICES ASSUME NEW i \in DOMAIN Log, i <= committed PROVE Log[i] = chosen[i]
      OBVIOUS
    <3>2. PICK r \in Records(segs) : r.i = i /\ r.i > purged BY <1>0, LogProps
    <3>3. Log[r.i] = r.t BY <1>0, <3>2, LogProps
    <3>4. r.i \in Nat BY <1>0, RecordShape DEF Shape
    <3>5. r.i <= Len(chosen) BY <1>0, <2>2, <3>1, <3>2, <3>4 DEF Marks, Covered
    <3> QED BY <1>0, <3>2, <3>3, <3>5 DEF LogWhole, Agreement
  <2> QED BY <2>5, <2>6 DEF Readable
<1>3. Refused => torn BY <1>0 DEF Refused, Marks
<1>4. Restorable
  <2>1. purged \in Nat /\ known \in Nat /\ marker.purged \in Nat /\ ptr.idx \in Nat
    BY <1>0, RaftStoreAssumption DEF Shape, Index, Pointer
  <2>2. ASSUME install = Idle PROVE marker.purged <= ptr.idx
    <3>1. marker.purged <= purged /\ purged <= known /\ known <= ptr.idx
      BY <1>0, <2>2 DEF Marks, Snapshots, Idle
    <3> QED BY <2>1, <3>1
  <2> QED BY <1>0, <2>2 DEF Restorable, Snapshots, Named
<1> QED BY <1>1, <1>2, <1>3, <1>4

\* While a member is up its engine holds exactly the committed entries up to last_applied,
\* each applied once and in order, across snapshots, purges, truncations and restarts, up to
\* the first of Upsets.
THEOREM RestartsExact == Spec => []AppliedExactly
<1>1. (Undisturbed => Inv) => AppliedExactly BY InvImplies DEF AppliedExactly
<1> QED BY <1>1, InvHolds, PTL

\* What was reported flushed to openraft stays readable, and no committed entry is read back
\* as another one, up to the first of Upsets.
THEOREM FlushedStays == Spec => []FlushedReadable
<1>1. (Undisturbed => Inv) => FlushedReadable BY InvImplies DEF FlushedReadable
<1> QED BY <1>1, InvHolds, PTL

\* A restart refuses the partition only when an append was cut in the middle of a record, or
\* after one of Upsets: there is no other cause.
THEOREM HostsUnlessTorn == Spec => []RefusesOnlyTorn
<1>1. (Undisturbed => Inv) => RefusesOnlyTorn BY InvImplies DEF RefusesOnlyTorn
<1> QED BY <1>1, InvHolds, PTL

\* The snapshot the pointer names is there, whole, and covers all that was purged, whenever
\* none is being installed, up to the first of Upsets.
THEOREM PurgeCovered == Spec => []PurgeRestorable
<1>1. (Undisturbed => Inv) => PurgeRestorable BY InvImplies DEF PurgeRestorable
<1> QED BY <1>1, InvHolds, PTL
=============================================================================
