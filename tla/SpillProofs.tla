----------------------------- MODULE SpillProofs -----------------------------
(***************************************************************************)
(* The memory tiers lose nothing, in any setup and for any number of       *)
(* instances, writes, checkpoints and restarts, until one of the steps     *)
(* that `upsets' records has been taken.  Each lemma about an action is of *)
(* a step after which there is still no upset.                             *)
(*                                                                         *)
(* What the commands should have made of the instances is what a replay of *)
(* the whole log makes of them (Logged).  A snapshot stands for a prefix   *)
(* of the log, and the variables it leaves out are in the variable store,  *)
(* which may be newer than the snapshot, by as much as the tail writes     *)
(* again (Snapshots).  Between a checkpoint and the next, what the store   *)
(* lacks is marked dirty or on its way (Tracked).                          *)
(***************************************************************************)
EXTENDS Spill, TLAPS, NaturalsInduction, WellFoundedInduction, SequenceTheorems,
        FiniteSetTheorems

-----------------------------------------------------------------------------
(* The invariant. *)

Payload    == SUBSET Nat
Instance   == [vars : Payload, waits : SUBSET Facets, spilled : BOOLEAN, locked : BOOLEAN]
Map(S)     == UNION {[D -> S] : D \in SUBSET Instances}
LogEntry   == [key : Instances, waits : SUBSET Facets, write : Payload, new : BOOLEAN]

Shape ==
    /\ config \in Configs /\ status \in {"up", "down"}
    /\ truth \in Map(Instance) /\ hot \in Map(Instance) /\ coldRows \in Map(Instance)
    /\ index \in Map(SUBSET (Facets \cup {"key"}))
    /\ spillRows \in Map(Payload) /\ varRows \in Map(Payload)
    /\ log \in Seq(LogEntry) /\ writes \in Nat
    /\ snap.covered \in Nat /\ snap.insts \in Map(Instance)
    /\ pending.covered \in Nat /\ pending.insts \in Map(Instance)
    /\ pending.step \in {"none", "vars", "write"}
    /\ pending.step = "none" => pending = NoSnapshot
    /\ pending.step = "vars" => pending.upserts \in Map(Payload)

\* What the first n events of a log make of the instances.
After(s, n) == Replay(None, SubSeq(s, 1, n))

\* Nothing is known of an instance before it is born, and every event is in the truth.
Logged ==
    /\ truth = Replay(None, log)
    /\ DOMAIN truth \cup DOMAIN spillRows \cup DOMAIN varRows \cup shells \cup forgotten
         \subseteq born
    /\ \A n \in DOMAIN log :
        /\ log[n].key \in born
        /\ log[n].key \in DOMAIN truth => log[n].write \subseteq truth[log[n].key].vars

\* An instance in a tier is the one it should be; its variables may be in the rows.
Faithful(t, rows, k, inst) ==
    /\ inst.waits = t[k].waits
    /\ IF inst.spilled THEN k \in DOMAIN rows /\ rows[k] = t[k].vars
                       ELSE inst.vars = t[k].vars
Held(c, t, h, ix, cr, rows) ==
    /\ DOMAIN t = DOMAIN h \cup DOMAIN ix /\ DOMAIN h \cap DOMAIN ix = {}
    /\ DOMAIN ix = DOMAIN cr /\ (DOMAIN ix # {} => c.cold)
    /\ \A k \in DOMAIN h : Faithful(t, rows, k, h[k]) /\ (h[k].spilled => c.vars)
    /\ \A k \in DOMAIN ix :
        Faithful(t, rows, k, cr[k]) /\ ~ cr[k].spilled /\ ix[k] = Routes(cr[k].waits)
Rows  == IF Lean THEN varRows ELSE spillRows
Tiers == Held(config, truth, hot, index, coldRows, Rows) /\ shells \cap DOMAIN truth = {}

\* The instances of a snapshot are those of a prefix of the log, unless it is partial.
Covers(insts, n) ==
    /\ DOMAIN insts = DOMAIN After(log, n) /\ DOMAIN insts \subseteq born
    /\ \A k \in DOMAIN insts : insts[k].waits = After(log, n)[k].waits
\* Variables from which the tail of the log after n leads to the present ones.
Between(v, n, k) == After(log, n)[k].vars \subseteq v /\ v \subseteq truth[k].vars

Snapshots ==
    /\ snap.covered <= Len(log)
    /\ ~ snap.partial =>
        /\ Covers(snap.insts, snap.covered)
        /\ \A k \in DOMAIN snap.insts \cap DOMAIN truth :
            /\ Between(Installed(snap.insts)[k].vars, snap.covered, k)
            /\ ~ Installed(snap.insts)[k].spilled
    /\ \A k \in DOMAIN varRows \cap DOMAIN truth : varRows[k] \subseteq truth[k].vars
    /\ snap # NoSnapshot => config.snapshots # "none"

\* The checkpoint under way: what it writes to the store, and the snapshot it will write.
Upserting ==
    pending.step = "vars" =>
        /\ Lean /\ pending.forgets \cap DOMAIN truth = {} /\ pending.forgets \subseteq born
        /\ DOMAIN pending.upserts \subseteq born
        /\ \A k \in DOMAIN pending.upserts \cap DOMAIN truth :
            /\ pending.upserts[k] \subseteq truth[k].vars
            /\ k \notin dirty => pending.upserts[k] = truth[k].vars
            /\ ~ snap.partial /\ k \in DOMAIN snap.insts =>
                After(log, snap.covered)[k].vars \subseteq pending.upserts[k]
Staged(k) ==
    IF pending.step = "vars" /\ k \in DOMAIN pending.upserts THEN pending.upserts[k]
    ELSE IF Lean THEN varRows[k] ELSE pending.insts[k].vars
Checkpointing ==
    pending.step # "none" =>
        /\ config.snapshots # "none" /\ pending.covered <= Len(log)
        /\ ~ pending.partial =>
            /\ Covers(pending.insts, pending.covered)
            /\ \A k \in DOMAIN pending.insts \cap DOMAIN truth :
                /\ Between(Staged(k), pending.covered, k)
                /\ Lean => k \in DOMAIN varRows
                             \/ (pending.step = "vars" /\ k \in DOMAIN pending.upserts)
                /\ ~ Lean => ~ pending.insts[k].spilled

\* In lean mode the store has an instance's variables, will have them, or knows it lacks them.
Tracked ==
    /\ forgotten \cap DOMAIN truth = {}
    /\ Lean => \A k \in DOMAIN truth :
        \/ k \in dirty
        \/ k \in DOMAIN varRows /\ varRows[k] = truth[k].vars
        \/ pending.step = "vars" /\ k \in DOMAIN pending.upserts

Inv ==
    /\ Shape /\ Logged /\ Snapshots
    /\ status = "up" => Tiers /\ Upserting /\ Checkpointing /\ Tracked

-----------------------------------------------------------------------------
(* Replay. *)

\* Induction over the prefixes of a sequence.
LEMMA Prefixes ==
    ASSUME NEW N \in Nat, NEW G \in SUBSET (0 .. N), 0 \in G,
           \A n \in 0 .. N : n \in G /\ n < N => n + 1 \in G
    PROVE  G = 0 .. N
<1> DEFINE rest == (0 .. N) \ G
<1>1. SUFFICES ASSUME rest # {} PROVE FALSE OBVIOUS
<1>2. rest \in SUBSET Nat OBVIOUS
<1>3. \E x \in rest : \A y \in rest : ~ (<<y, x>> \in OpToRel(<, Nat))
  <2> HIDE DEF rest
  <2> QED BY <1>1, <1>2, NatLessThanWellFounded, WFMin
<1>4. PICK x \in rest : \A y \in rest : ~ (y < x)
  <2>1. \A y \in rest, x \in rest : y < x => <<y, x>> \in OpToRel(<, Nat)
    BY <1>2 DEF OpToRel
  <2> QED BY <1>3, <2>1
<1>5. x \in Nat /\ x # 0 /\ x - 1 \in 0 .. N /\ x - 1 < N BY <1>2
<1>6. x - 1 \notin rest BY <1>4, <1>5
<1> QED BY <1>5, <1>6

\* A replay is well defined...
LEMMA ReplayFunction ==
    ASSUME NEW h, NEW s, Len(s) \in Nat
    PROVE  \E f : f = [n \in 0 .. Len(s) |-> IF n = 0 THEN h ELSE Apply(f[n - 1], s[n])]
<1> DEFINE Steps(f, m) == f = [n \in 0 .. m |-> IF n = 0 THEN h ELSE Apply(f[n - 1], s[n])]
           G == {m \in 0 .. Len(s) : \E f : Steps(f, m)}
<1>1. 0 \in G
  <2>1. Steps([n \in 0 .. 0 |-> h], 0) OBVIOUS
  <2>2. 0 \in 0 .. Len(s) OBVIOUS
  <2> HIDE DEF Steps
  <2> QED BY <2>1, <2>2
<1>2. ASSUME NEW m \in 0 .. Len(s), m \in G, m < Len(s) PROVE m + 1 \in G
  <2>1. PICK f : Steps(f, m) BY <1>2
  <2> DEFINE g == [n \in 0 .. m + 1 |-> IF n = m + 1 THEN Apply(f[m], s[m + 1]) ELSE f[n]]
  <2>2. ASSUME NEW n \in 0 .. m + 1
        PROVE  g[n] = IF n = 0 THEN h ELSE Apply(g[n - 1], s[n])
    <3>1. CASE n = m + 1
      <4>1. g[n] = Apply(f[m], s[m + 1]) /\ g[n - 1] = f[m] /\ n # 0 BY <1>2, <3>1
      <4> QED BY <3>1, <4>1
    <3>2. CASE n # m + 1
      <4>1. n \in 0 .. m /\ g[n] = f[n] BY <3>2
      <4>2. f[n] = IF n = 0 THEN h ELSE Apply(f[n - 1], s[n]) BY <2>1, <4>1
      <4>3. n # 0 => n - 1 \in 0 .. m + 1 /\ n - 1 # m + 1 BY <4>1
      <4>4. n # 0 => g[n - 1] = f[n - 1] BY <4>3
      <4> QED BY <4>1, <4>2, <4>4
    <3> QED BY <3>1, <3>2
  <2>3. Steps(g, m + 1)
    <3>1. g = [n \in 0 .. m + 1 |-> g[n]] OBVIOUS
    <3> HIDE DEF g
    <3> QED BY <2>2, <3>1
  <2>4. m + 1 \in 0 .. Len(s) BY <1>2
  <2> HIDE DEF Steps
  <2> QED BY <2>3, <2>4
<1>3. G = 0 .. Len(s)
  <2> HIDE DEF G
  <2>1. G \in SUBSET (0 .. Len(s)) BY DEF G
  <2> QED BY <1>1, <1>2, <2>1, Prefixes
<1> QED BY <1>3

Replaying(h, s) == CHOOSE f : f = [n \in 0 .. Len(s) |-> IF n = 0 THEN h ELSE Apply(f[n - 1], s[n])]

LEMMA ReplaySteps ==
    ASSUME NEW h, NEW s, Len(s) \in Nat
    PROVE  /\ Replay(h, s) = Replaying(h, s)[Len(s)]
           /\ Replaying(h, s)[0] = h
           /\ \A n \in 1 .. Len(s) : Replaying(h, s)[n] = Apply(Replaying(h, s)[n - 1], s[n])
<1>1. Replay(h, s) = Replaying(h, s)[Len(s)] BY DEF Replay, Replaying
<1>2. Replaying(h, s) = [n \in 0 .. Len(s) |-> IF n = 0 THEN h
                                                ELSE Apply(Replaying(h, s)[n - 1], s[n])]
  BY ReplayFunction DEF Replaying
<1> QED BY <1>1, <1>2

LEMMA ReplayNothing ==
    ASSUME NEW h
    PROVE  Replay(h, <<>>) = h
BY ReplaySteps

\* ...and one more event is applied to the result.
LEMMA ReplayAppend ==
    ASSUME NEW h, NEW S, NEW s \in Seq(S), NEW e \in S
    PROVE  Replay(h, Append(s, e)) = Apply(Replay(h, s), e)
<1> DEFINE t == Append(s, e)
           f == Replaying(h, s)
           g == Replaying(h, t)
           N == Len(s)
           G == {n \in 0 .. N : f[n] = g[n]}
<1>1. N \in Nat /\ Len(t) = N + 1 /\ t[N + 1] = e /\ \A n \in 1 .. N : t[n] = s[n] OBVIOUS
<1>2. /\ f[0] = h /\ g[0] = h /\ Replay(h, s) = f[N] /\ Replay(h, t) = g[N + 1]
      /\ \A n \in 1 .. N : f[n] = Apply(f[n - 1], s[n])
      /\ \A n \in 1 .. N + 1 : g[n] = Apply(g[n - 1], t[n])
  <2> HIDE DEF t
  <2> QED BY <1>1, ReplaySteps
<1> HIDE DEF t, f, g, N
<1>3. 0 \in G BY <1>1, <1>2
<1>4. ASSUME NEW n \in 0 .. N, n \in G, n < N PROVE n + 1 \in G
  <2>1. n + 1 \in 1 .. N /\ n + 1 \in 1 .. N + 1 /\ (n + 1) - 1 = n /\ n + 1 \in 0 .. N
    BY <1>1, <1>4
  <2>2. f[n + 1] = Apply(f[n], s[n + 1]) /\ g[n + 1] = Apply(g[n], t[n + 1])
    BY <1>2, <2>1
  <2> QED BY <1>1, <1>4, <2>1, <2>2
<1>5. G = 0 .. N
  <2> HIDE DEF G
  <2>1. G \in SUBSET (0 .. N) BY DEF G
  <2> QED BY <1>1, <1>3, <1>4, <2>1, Prefixes
<1>6. f[N] = g[N] BY <1>1, <1>5
<1>7. g[N + 1] = Apply(g[N], e)
  <2>1. N + 1 \in 1 .. N + 1 /\ (N + 1) - 1 = N BY <1>1
  <2> QED BY <1>1, <1>2, <2>1
<1> QED BY <1>2, <1>6, <1>7 DEF t

-----------------------------------------------------------------------------
(* Maps. *)

LEMMA MapShape ==
    ASSUME NEW S, NEW f \in Map(S)
    PROVE  /\ DOMAIN f \subseteq Instances /\ f = [k \in DOMAIN f |-> f[k]]
           /\ \A k \in DOMAIN f : f[k] \in S
BY DEF Map

LEMMA MapMade ==
    ASSUME NEW S, NEW D \in SUBSET Instances, NEW f \in [D -> S]
    PROVE  f \in Map(S)
BY DEF Map

LEMMA NoneMap == ASSUME NEW S PROVE None \in Map(S) /\ DOMAIN None = {}
<1>1. None \in [{} -> S] BY DEF None
<1> QED BY <1>1, MapMade

LEMMA WithoutMap ==
    ASSUME NEW S, NEW f \in Map(S), NEW K
    PROVE  /\ Without(f, K) \in Map(S) /\ DOMAIN Without(f, K) = DOMAIN f \ K
           /\ \A k \in DOMAIN f \ K : Without(f, K)[k] = f[k]
<1>1. DOMAIN f \ K \in SUBSET Instances /\ \A k \in DOMAIN f : f[k] \in S BY MapShape
<1>2. Without(f, K) \in [DOMAIN f \ K -> S] BY <1>1 DEF Without
<1> QED BY <1>1, <1>2, MapMade DEF Without

Added(f, k, v, g) ==
    /\ DOMAIN g = DOMAIN f \cup {k} /\ g[k] = v
    /\ \A x \in DOMAIN f \ {k} : g[x] = f[x]

LEMMA WithMap ==
    ASSUME NEW S, NEW f \in Map(S), NEW k \in Instances, NEW v \in S
    PROVE  With(f, k, v) \in Map(S) /\ Added(f, k, v, With(f, k, v))
<1>1. DOMAIN f \cup {k} \in SUBSET Instances /\ \A x \in DOMAIN f : f[x] \in S BY MapShape
<1>2. With(f, k, v) \in [DOMAIN f \cup {k} -> S] BY <1>1 DEF With
<1>3. With(f, k, v) \in Map(S) BY <1>1, <1>2, MapMade
<1>4. Added(f, k, v, With(f, k, v)) BY DEF With, Added
<1> QED BY <1>3, <1>4

Layered(f, g, o) ==
    /\ DOMAIN o = DOMAIN f \cup DOMAIN g
    /\ \A x \in DOMAIN f : o[x] = f[x]
    /\ \A x \in DOMAIN g \ DOMAIN f : o[x] = g[x]

LEMMA OverMap ==
    ASSUME NEW S, NEW f \in Map(S), NEW g \in Map(S)
    PROVE  Over(f, g) \in Map(S) /\ Layered(f, g, Over(f, g))
<1>1. /\ DOMAIN f \cup DOMAIN g \in SUBSET Instances
      /\ \A x \in DOMAIN f : f[x] \in S
      /\ \A x \in DOMAIN g : g[x] \in S
  BY MapShape
<1>2. Over(f, g) \in [DOMAIN f \cup DOMAIN g -> S] BY <1>1 DEF Over
<1>3. Over(f, g) \in Map(S) BY <1>1, <1>2, MapMade
<1>4. Layered(f, g, Over(f, g)) BY DEF Over, Layered
<1> QED BY <1>3, <1>4

\* Changing one instance of a map.
LEMMA ChangedMap ==
    ASSUME NEW S, NEW f \in Map(S), NEW k \in DOMAIN f, NEW v \in S
    PROVE  /\ [f EXCEPT ![k] = v] \in Map(S) /\ DOMAIN [f EXCEPT ![k] = v] = DOMAIN f
           /\ [f EXCEPT ![k] = v][k] = v
           /\ \A x \in DOMAIN f \ {k} : [f EXCEPT ![k] = v][x] = f[x]
<1>1. DOMAIN f \in SUBSET Instances /\ f \in [DOMAIN f -> S] BY MapShape
<1>2. [f EXCEPT ![k] = v] \in [DOMAIN f -> S] BY <1>1
<1> QED BY <1>1, <1>2, MapMade

LEMMA InstanceFields ==
    ASSUME NEW i \in Instance
    PROVE  /\ i.vars \in Payload /\ i.waits \in SUBSET Facets /\ i.spilled \in BOOLEAN
           /\ i.locked \in BOOLEAN
           /\ i = [vars |-> i.vars, waits |-> i.waits, spilled |-> i.spilled, locked |-> i.locked]
BY DEF Instance

LEMMA EntryFields ==
    ASSUME NEW e \in LogEntry
    PROVE  /\ e.key \in Instances /\ e.waits \in SUBSET Facets /\ e.write \in Payload
           /\ e.new \in BOOLEAN
BY DEF LogEntry

LEMMA EntryMade ==
    ASSUME NEW k \in Instances, NEW w \in SUBSET Facets, NEW v \in Payload, NEW b \in BOOLEAN
    PROVE  /\ Event(k, w, v, b) \in LogEntry
           /\ Event(k, w, v, b).key = k /\ Event(k, w, v, b).waits = w
           /\ Event(k, w, v, b).write = v /\ Event(k, w, v, b).new = b
BY DEF Event, LogEntry

\* What an event does to a map of instances.
Effect(h, e, g) ==
    /\ g \in Map(Instance)
    /\ \A k \in DOMAIN h \ {e.key} : k \in DOMAIN g /\ g[k] = h[k]
    /\ DOMAIN g \subseteq DOMAIN h \cup {e.key}
    /\ e.key \in DOMAIN g <=> e.waits # {} /\ (e.new \/ e.key \in DOMAIN h)
    /\ e.waits # {} /\ e.new =>
        g[e.key] = [vars |-> e.write, waits |-> e.waits, spilled |-> FALSE, locked |-> FALSE]
    /\ e.waits # {} /\ ~ e.new /\ e.key \in DOMAIN h =>
        g[e.key] = [vars |-> h[e.key].vars \cup e.write, waits |-> e.waits,
                    spilled |-> h[e.key].spilled, locked |-> FALSE]

LEMMA Applied ==
    ASSUME NEW h \in Map(Instance), NEW e \in LogEntry
    PROVE  Effect(h, e, Apply(h, e))
<1>0. e.key \in Instances /\ e.waits \in SUBSET Facets /\ e.write \in Payload /\ e.new \in BOOLEAN
  BY EntryFields
<1>1. CASE e.waits = {}
  <2>1. Apply(h, e) = Without(h, {e.key}) BY <1>1 DEF Apply
  <2>2. /\ Without(h, {e.key}) \in Map(Instance) /\ DOMAIN Without(h, {e.key}) = DOMAIN h \ {e.key}
        /\ \A k \in DOMAIN h \ {e.key} : Without(h, {e.key})[k] = h[k]
    BY WithoutMap
  <2> QED BY <1>1, <2>1, <2>2 DEF Effect
<1>2. CASE e.waits # {} /\ e.new
  <2> DEFINE v == [vars |-> e.write, waits |-> e.waits, spilled |-> FALSE, locked |-> FALSE]
  <2>2. Apply(h, e) = With(h, e.key, v) BY <1>2 DEF Apply, Fresh
  <2>3. v \in Instance BY <1>0 DEF Instance
  <2> HIDE DEF v
  <2>4. With(h, e.key, v) \in Map(Instance) /\ Added(h, e.key, v, With(h, e.key, v))
    BY <1>0, <2>3, WithMap
  <2> QED BY <1>2, <2>2, <2>4 DEF v, Effect, Added
<1>3. CASE e.waits # {} /\ ~ e.new /\ e.key \in DOMAIN h
  <2> DEFINE v == [vars |-> h[e.key].vars \cup e.write, waits |-> e.waits,
                   spilled |-> h[e.key].spilled, locked |-> FALSE]
  <2>1. h[e.key] \in Instance /\ h = [k \in DOMAIN h |-> h[k]] BY <1>3, MapShape
  <2>2. /\ h[e.key] = [vars |-> h[e.key].vars, waits |-> h[e.key].waits,
                       spilled |-> h[e.key].spilled, locked |-> h[e.key].locked]
        /\ h[e.key].vars \in Payload /\ h[e.key].spilled \in BOOLEAN
    BY <2>1, InstanceFields
  <2>3. Apply(h, e) = [h EXCEPT ![e.key].vars = @ \cup e.write, ![e.key].waits = e.waits,
                                ![e.key].locked = FALSE]
    BY <1>3 DEF Apply
  <2>4. Apply(h, e) = [h EXCEPT ![e.key] = v] BY <1>3, <2>1, <2>2, <2>3
  <2>5. v \in Instance BY <1>0, <2>2 DEF Instance, Payload
  <2> HIDE DEF v
  <2>6. /\ [h EXCEPT ![e.key] = v] \in Map(Instance) /\ DOMAIN [h EXCEPT ![e.key] = v] = DOMAIN h
        /\ [h EXCEPT ![e.key] = v][e.key] = v
        /\ \A x \in DOMAIN h \ {e.key} : [h EXCEPT ![e.key] = v][x] = h[x]
    BY <1>3, <2>5, ChangedMap
  <2> QED BY <1>3, <2>4, <2>6 DEF v, Effect
<1>4. CASE e.waits # {} /\ ~ e.new /\ e.key \notin DOMAIN h
  <2>1. Apply(h, e) = h BY <1>4 DEF Apply
  <2> QED BY <1>4, <2>1 DEF Effect
<1> QED BY <1>0, <1>1, <1>2, <1>3, <1>4

\* A replay yields a map.
LEMMA ReplayMap ==
    ASSUME NEW h \in Map(Instance), NEW s \in Seq(LogEntry)
    PROVE  Replay(h, s) \in Map(Instance)
<1> DEFINE f == Replaying(h, s)
           N == Len(s)
           G == {n \in 0 .. N : f[n] \in Map(Instance)}
<1>1. N \in Nat BY LenProperties
<1>2. /\ f[0] = h /\ Replay(h, s) = f[N]
      /\ \A n \in 1 .. N : f[n] = Apply(f[n - 1], s[n])
  BY <1>1, ReplaySteps
<1>3. \A n \in 1 .. N : s[n] \in LogEntry BY ElementOfSeq
<1> HIDE DEF f, N
<1>4. 0 \in G BY <1>1, <1>2
<1>5. ASSUME NEW n \in 0 .. N, n \in G, n < N PROVE n + 1 \in G
  <2>1. n + 1 \in 1 .. N /\ (n + 1) - 1 = n /\ n + 1 \in 0 .. N BY <1>1, <1>5
  <2>2. f[n + 1] = Apply(f[n], s[n + 1]) /\ s[n + 1] \in LogEntry BY <1>2, <1>3, <2>1
  <2>3. Apply(f[n], s[n + 1]) \in Map(Instance) BY <1>5, <2>2, Applied DEF Effect
  <2> QED BY <2>1, <2>2, <2>3
<1>6. G = 0 .. N
  <2> HIDE DEF G
  <2>1. G \in SUBSET (0 .. N) BY DEF G
  <2> QED BY <1>1, <1>4, <1>5, <2>1, Prefixes
<1> QED BY <1>1, <1>2, <1>6

\* Replaying one event more of a sequence.
LEMMA ReplayNext ==
    ASSUME NEW h, NEW S, NEW s \in Seq(S), NEW n \in 0 .. Len(s) - 1
    PROVE  /\ n + 1 \in 1 .. Len(s) /\ s[n + 1] \in S
           /\ Replay(h, SubSeq(s, 1, n + 1)) = Apply(Replay(h, SubSeq(s, 1, n)), s[n + 1])
<1>0. Len(s) \in Nat /\ n \in Nat /\ n + 1 \in 1 .. Len(s) /\ s[n + 1] \in S
  <2>1. Len(s) \in Nat BY LenProperties
  <2>2. n + 1 \in 1 .. Len(s) BY <2>1
  <2> QED BY <2>1, <2>2, ElementOfSeq
<1>1. \A i \in 1 .. n + 1 : s[i] \in S
  <2>1. \A i \in 1 .. n + 1 : i \in 1 .. Len(s) BY <1>0
  <2> QED BY <2>1, ElementOfSeq
<1> DEFINE a == SubSeq(s, 1, n)
           b == SubSeq(s, 1, n + 1)
<1>2. a \in Seq(S) /\ Len(a) = n /\ \A i \in 1 .. n : a[i] = s[i]
  <2>1. \A i \in 1 .. n : s[i] \in S BY <1>0, <1>1
  <2>2. 1 \in Int /\ n \in Int BY <1>0
  <2>3. a \in Seq(S) /\ Len(a) = (IF 1 <= n THEN n - 1 + 1 ELSE 0)
        /\ \A i \in 1 .. n - 1 + 1 : a[i] = s[1 + i - 1]
    BY <2>1, <2>2, SubSeqProperties
  <2> HIDE DEF a
  <2> QED BY <2>3, <1>0
<1>3. b \in Seq(S) /\ Len(b) = n + 1 /\ \A i \in 1 .. n + 1 : b[i] = s[i]
  <2>2. 1 \in Int /\ n + 1 \in Int BY <1>0
  <2>3. b \in Seq(S) /\ Len(b) = (IF 1 <= n + 1 THEN n + 1 - 1 + 1 ELSE 0)
        /\ \A i \in 1 .. n + 1 - 1 + 1 : b[i] = s[1 + i - 1]
    BY <1>1, <2>2, SubSeqProperties
  <2> HIDE DEF b
  <2> QED BY <2>3, <1>0
<1> HIDE DEF a, b
<1>4. b = Append(a, s[n + 1])
  <2>1. Append(a, s[n + 1]) \in Seq(S) /\ Len(Append(a, s[n + 1])) = n + 1 BY <1>0, <1>2
  <2>2. \A i \in 1 .. n + 1 : b[i] = Append(a, s[n + 1])[i] BY <1>0, <1>2, <1>3
  <2> QED BY <1>3, <2>1, <2>2, SeqEqual
<1>5. Replay(h, Append(a, s[n + 1])) = Apply(Replay(h, a), s[n + 1])
  BY <1>0, <1>2, ReplayAppend
<1> QED BY <1>0, <1>4, <1>5 DEF a, b

\* Replaying a log grown by some events.
LEMMA ReplayConcat ==
    ASSUME NEW h, NEW S, NEW s \in Seq(S), NEW t \in Seq(S)
    PROVE  Replay(h, s \o t) = Replay(Replay(h, s), t)
<1> DEFINE N == Len(t)
           Same(n) == Replay(h, s \o SubSeq(t, 1, n)) = Replay(Replay(h, s), SubSeq(t, 1, n))
           G == {n \in 0 .. N : Same(n)}
<1>0. N \in Nat BY LenProperties
<1>1. 0 \in G
  <2>1. SubSeq(t, 1, 0) = <<>> BY SubSeqEmpty
  <2>2. s \o <<>> = s BY ConcatEmptySeq
  <2>3. Same(0) BY <2>1, <2>2, ReplayNothing
  <2> QED BY <1>0, <2>3
<1>2. ASSUME NEW n \in 0 .. N, n \in G, n < N PROVE n + 1 \in G
  <2> DEFINE u == SubSeq(t, 1, n)
             e == t[n + 1]
  <2>0. n \in 0 .. Len(t) - 1 BY <1>0, <1>2
  <2>1. /\ n + 1 \in 1 .. N /\ e \in S
        /\ Replay(Replay(h, s), SubSeq(t, 1, n + 1)) = Apply(Replay(Replay(h, s), u), e)
    BY <2>0, ReplayNext
  <2>2. u \in Seq(S)
    <3>1. \A i \in 1 .. n : i \in 1 .. Len(t) BY <1>0, <1>2
    <3>2. \A i \in 1 .. n : t[i] \in S BY <3>1, ElementOfSeq
    <3>3. 1 \in Int /\ n \in Int BY <1>2
    <3> QED BY <3>2, <3>3, SubSeqProperties
  <2>3. SubSeq(t, 1, n + 1) = u \o <<e>>
    <3>1. 1 \in 1 .. Len(t) /\ n + 1 \in 1 .. Len(t) /\ (n + 1) - 1 = n BY <1>0, <2>1
    <3>2. SubSeq(t, 1, n + 1) = SubSeq(t, 1, (n + 1) - 1) \o <<t[n + 1]>>
      BY <3>1, SubSeqRecursiveSecond
    <3> QED BY <3>1, <3>2
  <2> HIDE DEF u, e
  <2> DEFINE w == s \o u
  <2>w. w \in Seq(S) BY <2>2, ConcatProperties
  <2>4. s \o (u \o <<e>>) = Append(w, e)
    <3>1. <<e>> \in Seq(S) BY <2>1
    <3>2. s \o (u \o <<e>>) = w \o <<e>> BY <2>2, <3>1, ConcatAssociative
    <3> HIDE DEF w
    <3>3. w \o <<e>> = Append(w, e) BY <2>1, <2>w, AppendIsConcat
    <3> QED BY <3>2, <3>3
  <2>5. Replay(h, Append(w, e)) = Apply(Replay(h, w), e)
    <3> HIDE DEF w
    <3> QED BY <2>1, <2>w, ReplayAppend
  <2>6. Replay(h, s \o u) = Replay(Replay(h, s), u) BY <1>2 DEF u
  <2>7. Same(n + 1) BY <2>1, <2>3, <2>4, <2>5, <2>6
  <2>8. n + 1 \in 0 .. N BY <1>0, <2>1
  <2> HIDE DEF Same
  <2> QED BY <2>7, <2>8
<1>3. G = 0 .. N
  <2> HIDE DEF G
  <2>1. G \in SUBSET (0 .. N) BY DEF G
  <2> QED BY <1>0, <1>1, <1>2, <2>1, Prefixes
<1>4. Same(N)
  <2> HIDE DEF Same
  <2> QED BY <1>0, <1>3
<1>5. SubSeq(t, 1, N) = t BY SubSeqFull
<1> QED BY <1>4, <1>5

\* A prefix of the log stands for the same instances when the log has grown...
LEMMA AfterKept ==
    ASSUME NEW s \in Seq(LogEntry), NEW t \in Seq(LogEntry), NEW n \in 0 .. Len(s)
    PROVE  After(s \o t, n) = After(s, n)
<1>1. Len(s) \in Nat /\ Len(t) \in Nat BY LenProperties
<1>2. /\ s \o t \in Seq(LogEntry) /\ Len(s \o t) = Len(s) + Len(t)
      /\ \A i \in 1 .. Len(s) + Len(t) : (s \o t)[i] = IF i <= Len(s) THEN s[i] ELSE t[i - Len(s)]
  BY ConcatProperties
<1> DEFINE w == s \o t
<1> HIDE DEF w
<1>3. \A i \in 1 .. n : w[i] = s[i] /\ s[i] \in LogEntry
  <2>1. \A i \in 1 .. n : i \in 1 .. Len(s) /\ i \in 1 .. Len(s) + Len(t) /\ i <= Len(s) BY <1>1
  <2> QED BY <1>2, <2>1, ElementOfSeq DEF w
<1>4. 1 \in Int /\ n \in Int /\ \A i \in 1 .. n : 1 + i - 1 = i BY <1>1
<1>5. /\ SubSeq(s, 1, n) \in Seq(LogEntry)
      /\ Len(SubSeq(s, 1, n)) = (IF 1 <= n THEN n - 1 + 1 ELSE 0)
      /\ \A i \in 1 .. n - 1 + 1 : SubSeq(s, 1, n)[i] = s[1 + i - 1]
  BY <1>3, <1>4, SubSeqProperties
<1>6. /\ SubSeq(w, 1, n) \in Seq(LogEntry)
      /\ Len(SubSeq(w, 1, n)) = (IF 1 <= n THEN n - 1 + 1 ELSE 0)
      /\ \A i \in 1 .. n - 1 + 1 : SubSeq(w, 1, n)[i] = w[1 + i - 1]
  BY <1>3, <1>4, SubSeqProperties
<1> DEFINE a == SubSeq(s, 1, n)
           b == SubSeq(w, 1, n)
<1>7. a = b
  <2>1. a \in Seq(LogEntry) /\ b \in Seq(LogEntry) /\ Len(a) = Len(b) BY <1>5, <1>6
  <2>2. \A i \in 1 .. Len(a) : a[i] = b[i]
    <3>1. Len(a) = n BY <1>1, <1>5
    <3> QED BY <1>1, <1>3, <1>5, <1>6, <3>1
  <2> HIDE DEF a, b
  <2> QED BY <2>1, <2>2, SeqEqual
<1> QED BY <1>7 DEF After, w

\* ...and the whole log for what it makes of them.
LEMMA AfterAll ==
    ASSUME NEW s \in Seq(LogEntry)
    PROVE  After(s, Len(s)) = Replay(None, s) /\ After(s, 0) = None
<1>1. SubSeq(s, 1, Len(s)) = s BY SubSeqFull
<1>2. SubSeq(s, 1, 0) = <<>> BY SubSeqEmpty
<1> QED BY <1>1, <1>2, ReplayNothing DEF After

LEMMA AfterMap ==
    ASSUME NEW s \in Seq(LogEntry), NEW n \in 0 .. Len(s)
    PROVE  After(s, n) \in Map(Instance)
<1>1. Len(s) \in Nat /\ n \in Int /\ 1 \in Int BY LenProperties
<1>2. \A i \in 1 .. n : i \in 1 .. Len(s) BY <1>1
<1>3. \A i \in 1 .. n : s[i] \in LogEntry BY <1>2, ElementOfSeq
<1>4. SubSeq(s, 1, n) \in Seq(LogEntry) BY <1>1, <1>3, SubSeqProperties
<1> QED BY <1>4, NoneMap, ReplayMap DEF After

-----------------------------------------------------------------------------
(* The tiers. *)

Rehydrating(h, cr, K) == Over([k \in K \cap DOMAIN cr |-> cr[k]], h)

\* Rehydration moves instances between the tiers and changes none of them.
Rehydrates(c, t, h, ix, cr, rows, K, g) ==
    /\ g \in Map(Instance) /\ DOMAIN g = DOMAIN h \cup (K \cap DOMAIN cr)
    /\ Held(c, t, g, Without(ix, K), Without(cr, K), rows)

LEMMA Rehydration ==
    ASSUME NEW c, NEW t, NEW h \in Map(Instance), NEW ix, NEW cr \in Map(Instance), NEW rows,
           Held(c, t, h, ix, cr, rows), NEW K
    PROVE  Rehydrates(c, t, h, ix, cr, rows, K, Rehydrating(h, cr, K))
<1> DEFINE back == [k \in K \cap DOMAIN cr |-> cr[k]]
           g    == Rehydrating(h, cr, K)
<1>1. back \in Map(Instance) /\ DOMAIN back = K \cap DOMAIN cr
  <2>1. K \cap DOMAIN cr \in SUBSET Instances /\ \A k \in K \cap DOMAIN cr : cr[k] \in Instance
    BY MapShape
  <2>2. back \in [K \cap DOMAIN cr -> Instance] BY <2>1
  <2> QED BY <2>1, <2>2, MapMade
<1>2. /\ g \in Map(Instance) /\ DOMAIN g = (K \cap DOMAIN cr) \cup DOMAIN h
      /\ \A k \in K \cap DOMAIN cr : g[k] = cr[k]
      /\ \A k \in DOMAIN h \ (K \cap DOMAIN cr) : g[k] = h[k]
  <2>1. \A k \in K \cap DOMAIN cr : back[k] = cr[k] OBVIOUS
  <2>2. g = Over(back, h) BY DEF Rehydrating
  <2> HIDE DEF back, g
  <2>3. Over(back, h) \in Map(Instance) /\ Layered(back, h, Over(back, h)) BY <1>1, OverMap
  <2> QED BY <1>1, <2>1, <2>2, <2>3 DEF Layered
<1>3. /\ DOMAIN Without(ix, K) = DOMAIN ix \ K /\ DOMAIN Without(cr, K) = DOMAIN cr \ K
      /\ \A k \in DOMAIN ix \ K : Without(ix, K)[k] = ix[k]
      /\ \A k \in DOMAIN cr \ K : Without(cr, K)[k] = cr[k]
  BY DEF Without
<1> HIDE DEF g
<1>4. Held(c, t, g, Without(ix, K), Without(cr, K), rows)
  <2>1. DOMAIN t = DOMAIN g \cup DOMAIN Without(ix, K) /\ DOMAIN g \cap DOMAIN Without(ix, K) = {}
    BY <1>2, <1>3 DEF Held
  <2>2. /\ DOMAIN Without(ix, K) = DOMAIN Without(cr, K)
        /\ (DOMAIN Without(ix, K) # {} => c.cold)
    BY <1>3 DEF Held
  <2>3. ASSUME NEW k \in DOMAIN g
        PROVE  Faithful(t, rows, k, g[k]) /\ (g[k].spilled => c.vars)
    <3>1. CASE k \in K \cap DOMAIN cr BY <1>2, <3>1 DEF Held
    <3>2. CASE k \notin K \cap DOMAIN cr
      <4>1. k \in DOMAIN h /\ g[k] = h[k] BY <1>2, <3>2
      <4> QED BY <4>1 DEF Held
    <3> QED BY <3>1, <3>2
  <2>4. \A k \in DOMAIN Without(ix, K) :
            /\ Faithful(t, rows, k, Without(cr, K)[k]) /\ ~ Without(cr, K)[k].spilled
            /\ Without(ix, K)[k] = Routes(Without(cr, K)[k].waits)
    BY <1>3 DEF Held
  <2> QED BY <2>1, <2>2, <2>3, <2>4 DEF Held
<1> QED BY <1>2, <1>4 DEF g, Rehydrates

\* An event on an instance that is not cold does the same in the engine as it should.
LEMMA HeldEvent ==
    ASSUME NEW c, NEW t \in Map(Instance), NEW h \in Map(Instance), NEW ix, NEW cr, NEW rows,
           Held(c, t, h, ix, cr, rows), NEW e \in LogEntry, e.key \notin DOMAIN ix, ~ e.new,
           e.key \in DOMAIN h /\ h[e.key].spilled /\ e.waits # {} => e.write = {}
    PROVE  Held(c, Apply(t, e), Apply(h, e), ix, cr, rows)
<1> DEFINE u == Apply(t, e)
           g == Apply(h, e)
<1>a. Effect(t, e, u) /\ Effect(h, e, g) BY Applied, Zenon
<1> HIDE DEF u, g
<1>1. /\ \A k \in DOMAIN t \ {e.key} : k \in DOMAIN u /\ u[k] = t[k]
      /\ DOMAIN u \subseteq DOMAIN t \cup {e.key}
      /\ e.key \in DOMAIN u <=> e.waits # {} /\ (e.new \/ e.key \in DOMAIN t)
      /\ e.waits # {} /\ ~ e.new /\ e.key \in DOMAIN t =>
            u[e.key] = [vars |-> t[e.key].vars \cup e.write, waits |-> e.waits,
                        spilled |-> t[e.key].spilled, locked |-> FALSE]
  BY <1>a DEF Effect
<1>2. /\ \A k \in DOMAIN h \ {e.key} : k \in DOMAIN g /\ g[k] = h[k]
      /\ DOMAIN g \subseteq DOMAIN h \cup {e.key}
      /\ e.key \in DOMAIN g <=> e.waits # {} /\ (e.new \/ e.key \in DOMAIN h)
      /\ e.waits # {} /\ ~ e.new /\ e.key \in DOMAIN h =>
            g[e.key] = [vars |-> h[e.key].vars \cup e.write, waits |-> e.waits,
                        spilled |-> h[e.key].spilled, locked |-> FALSE]
  BY <1>a DEF Effect
<1>3. e.key \in DOMAIN t <=> e.key \in DOMAIN h BY DEF Held
<1>4. DOMAIN u = DOMAIN g \cup DOMAIN ix /\ DOMAIN g \cap DOMAIN ix = {}
  <2>1. DOMAIN t = DOMAIN h \cup DOMAIN ix /\ DOMAIN h \cap DOMAIN ix = {} BY DEF Held
  <2>2. DOMAIN u \ {e.key} = DOMAIN t \ {e.key} BY <1>1
  <2>3. DOMAIN g \ {e.key} = DOMAIN h \ {e.key} BY <1>2
  <2>4. e.key \in DOMAIN u <=> e.key \in DOMAIN g BY <1>1, <1>2, <1>3
  <2> QED BY <2>1, <2>2, <2>3, <2>4
<1>5. ASSUME NEW k \in DOMAIN g
      PROVE  Faithful(u, rows, k, g[k]) /\ (g[k].spilled => c.vars)
  <2>1. CASE k = e.key
    <3>1. e.waits # {} /\ k \in DOMAIN h /\ k \in DOMAIN t BY <1>2, <1>3, <1>5, <2>1
    <3>2. /\ u[k].vars = t[k].vars \cup e.write /\ u[k].waits = e.waits
          /\ g[k].vars = h[k].vars \cup e.write /\ g[k].waits = e.waits
          /\ g[k].spilled = h[k].spilled
      BY <1>1, <1>2, <2>1, <3>1
    <3>3. Faithful(t, rows, k, h[k]) /\ (h[k].spilled => c.vars) BY <3>1 DEF Held
    <3>4. CASE h[k].spilled
      <4>1. e.write = {} BY <2>1, <3>1, <3>4
      <4>2. u[k].vars = t[k].vars BY <3>2, <4>1
      <4> QED BY <3>2, <3>3, <3>4, <4>2 DEF Faithful
    <3>5. CASE ~ h[k].spilled
      <4>1. h[k].vars = t[k].vars BY <3>3, <3>5 DEF Faithful
      <4>2. g[k].vars = u[k].vars BY <3>2, <4>1
      <4> QED BY <3>2, <3>5, <4>2 DEF Faithful
    <3> QED BY <3>4, <3>5
  <2>2. CASE k # e.key
    <3>1. k \in DOMAIN h /\ g[k] = h[k] BY <1>2, <1>5, <2>2
    <3>2. k \in DOMAIN t /\ Faithful(t, rows, k, h[k]) /\ (h[k].spilled => c.vars) BY <3>1 DEF Held
    <3>3. u[k] = t[k] BY <1>1, <2>2, <3>2
    <3> QED BY <3>1, <3>2, <3>3 DEF Faithful
  <2> QED BY <2>1, <2>2
<1>6. ASSUME NEW k \in DOMAIN ix
      PROVE  Faithful(u, rows, k, cr[k]) /\ ~ cr[k].spilled /\ ix[k] = Routes(cr[k].waits)
  <2>1. /\ k \in DOMAIN t /\ k # e.key
        /\ Faithful(t, rows, k, cr[k]) /\ ~ cr[k].spilled /\ ix[k] = Routes(cr[k].waits)
    BY <1>6 DEF Held
  <2>2. u[k] = t[k] BY <1>1, <2>1
  <2> QED BY <2>1, <2>2 DEF Faithful
<1>7. DOMAIN ix = DOMAIN cr /\ (DOMAIN ix # {} => c.cold) BY DEF Held
<1>8. Held(c, u, g, ix, cr, rows) BY <1>4, <1>5, <1>6, <1>7 DEF Held
<1> QED BY <1>8 DEF u, g

\* A new instance is in the engine.
LEMMA HeldNew ==
    ASSUME NEW c, NEW t \in Map(Instance), NEW h \in Map(Instance), NEW ix, NEW cr, NEW rows,
           Held(c, t, h, ix, cr, rows), NEW e \in LogEntry, e.key \notin DOMAIN t, e.new,
           e.waits # {}
    PROVE  Held(c, Apply(t, e), Apply(h, e), ix, cr, rows)
<1> DEFINE u == Apply(t, e)
           g == Apply(h, e)
<1>a. Effect(t, e, u) /\ Effect(h, e, g) BY Applied, Zenon
<1> HIDE DEF u, g
<1>b. DOMAIN t = DOMAIN h \cup DOMAIN ix /\ DOMAIN h \cap DOMAIN ix = {} BY DEF Held
<1>1. /\ \A k \in DOMAIN t : k \in DOMAIN u /\ u[k] = t[k]
      /\ DOMAIN u = DOMAIN t \cup {e.key}
      /\ u[e.key].vars = e.write /\ u[e.key].waits = e.waits
  BY <1>a DEF Effect
<1>2. /\ \A k \in DOMAIN h : k \in DOMAIN g /\ g[k] = h[k]
      /\ DOMAIN g = DOMAIN h \cup {e.key}
      /\ g[e.key].vars = e.write /\ g[e.key].waits = e.waits /\ g[e.key].spilled = FALSE
  BY <1>a, <1>b DEF Effect
<1>4. DOMAIN u = DOMAIN g \cup DOMAIN ix /\ DOMAIN g \cap DOMAIN ix = {} BY <1>1, <1>2, <1>b
<1>5. ASSUME NEW k \in DOMAIN g
      PROVE  Faithful(u, rows, k, g[k]) /\ (g[k].spilled => c.vars)
  <2>1. CASE k = e.key BY <1>1, <1>2, <2>1 DEF Faithful
  <2>2. CASE k # e.key
    <3>1. k \in DOMAIN h /\ g[k] = h[k] BY <1>2, <1>5, <2>2
    <3>2. k \in DOMAIN t /\ Faithful(t, rows, k, h[k]) /\ (h[k].spilled => c.vars) BY <3>1 DEF Held
    <3>3. u[k] = t[k] BY <1>1, <3>2
    <3> QED BY <3>1, <3>2, <3>3 DEF Faithful
  <2> QED BY <2>1, <2>2
<1>6. ASSUME NEW k \in DOMAIN ix
      PROVE  Faithful(u, rows, k, cr[k]) /\ ~ cr[k].spilled /\ ix[k] = Routes(cr[k].waits)
  <2>1. /\ k \in DOMAIN t
        /\ Faithful(t, rows, k, cr[k]) /\ ~ cr[k].spilled /\ ix[k] = Routes(cr[k].waits)
    BY <1>6 DEF Held
  <2>2. u[k] = t[k] BY <1>1, <2>1
  <2> QED BY <2>1, <2>2 DEF Faithful
<1>7. DOMAIN ix = DOMAIN cr /\ (DOMAIN ix # {} => c.cold) BY DEF Held
<1>8. Held(c, u, g, ix, cr, rows) BY <1>4, <1>5, <1>6, <1>7 DEF Held
<1> QED BY <1>8 DEF u, g

-----------------------------------------------------------------------------
(* Events are recorded, and the snapshots and the store bear with them. *)

\* Every known instance that is still alive keeps its variables.
Grown(t, u, b) == \A k \in DOMAIN u \cap b : k \in DOMAIN t /\ t[k].vars \subseteq u[k].vars

LEMMA Recorded ==
    ASSUME Shape, Logged, NEW es \in Seq(LogEntry), log' = log \o es, truth' = Replay(truth, es),
           born \subseteq born', Grown(truth, truth', born),
           DOMAIN truth' \cup DOMAIN spillRows' \cup DOMAIN varRows' \cup shells' \cup forgotten'
             \subseteq born',
           \A n \in DOMAIN es :
             /\ es[n].key \in born'
             /\ es[n].key \in DOMAIN truth' => es[n].write \subseteq truth'[es[n].key].vars
    PROVE  Logged' /\ log' \in Seq(LogEntry)
<1>0. log \in Seq(LogEntry) BY DEF Shape
<1>1. truth' = Replay(None, log')
  <2>1. Replay(None, log \o es) = Replay(Replay(None, log), es) BY <1>0, ReplayConcat
  <2> QED BY <2>1 DEF Logged
<1>2. /\ log' \in Seq(LogEntry) /\ Len(log') = Len(log) + Len(es)
      /\ \A i \in 1 .. Len(log) + Len(es) :
            log'[i] = IF i <= Len(log) THEN log[i] ELSE es[i - Len(log)]
  BY <1>0, ConcatProperties
<1>3. /\ Len(log) \in Nat /\ DOMAIN log = 1 .. Len(log)
      /\ Len(es) \in Nat /\ DOMAIN es = 1 .. Len(es)
      /\ DOMAIN log' = 1 .. Len(log')
  BY <1>0, <1>2, LenProperties
<1>4. ASSUME NEW n \in DOMAIN log'
      PROVE  /\ log'[n].key \in born'
             /\ log'[n].key \in DOMAIN truth' => log'[n].write \subseteq truth'[log'[n].key].vars
  <2>1. CASE n <= Len(log)
    <3>1. n \in DOMAIN log /\ log'[n] = log[n] BY <1>2, <1>3, <2>1
    <3>2. /\ log[n].key \in born
          /\ log[n].key \in DOMAIN truth => log[n].write \subseteq truth[log[n].key].vars
      BY <3>1 DEF Logged
    <3>3. log[n].key \in DOMAIN truth' =>
            /\ log[n].key \in DOMAIN truth
            /\ truth[log[n].key].vars \subseteq truth'[log[n].key].vars
      BY <3>2 DEF Grown
    <3> QED BY <3>1, <3>2, <3>3
  <2>2. CASE ~ (n <= Len(log))
    <3>1. n - Len(log) \in DOMAIN es /\ log'[n] = es[n - Len(log)] BY <1>2, <1>3, <2>2
    <3> QED BY <3>1
  <2> QED BY <2>1, <2>2
<1> QED BY <1>1, <1>2, <1>4 DEF Logged

\* An instance of a snapshot stays covered by it, and what the store lacks stays known.
LEMMA Borne ==
    ASSUME Shape, Snapshots, Upserting, Checkpointing, Tracked,
           NEW es \in Seq(LogEntry), log' = log \o es, DOMAIN varRows \subseteq born,
           config' = config, snap' = snap, pending' = pending, varRows' = varRows,
           born \subseteq born', Grown(truth, truth', born), forgotten' \cap DOMAIN truth' = {},
           Lean => \A k \in DOMAIN truth' :
              k \in dirty' \/ (k \in DOMAIN truth /\ k \notin dirty /\ truth'[k].vars = truth[k].vars)
    PROVE  Snapshots' /\ Upserting' /\ Checkpointing' /\ Tracked'
<1>0. log \in Seq(LogEntry) /\ snap.covered \in Nat /\ pending.covered \in Nat BY DEF Shape
<1>1. Len(log) \in Nat /\ Len(es) \in Nat /\ Len(log') = Len(log) + Len(es)
  BY <1>0, LenProperties, ConcatProperties
<1>2. \A n \in 0 .. Len(log) : After(log', n) = After(log, n) BY <1>0, AfterKept
<1>3. Lean' = Lean BY DEF Lean
<1>4. snap.covered \in 0 .. Len(log) BY <1>0, <1>1 DEF Snapshots
<1>5. Installed(snap.insts)' = Installed(snap.insts) BY <1>3 DEF Installed
<1>6. \A k \in born : k \in DOMAIN truth' => k \in DOMAIN truth /\ truth[k].vars \subseteq truth'[k].vars
  BY DEF Grown
<1>7. After(log', snap.covered) = After(log, snap.covered) BY <1>2, <1>4
<1>8. Snapshots'
  <2>1. ~ snap.partial => Covers(snap.insts, snap.covered)' BY <1>7 DEF Snapshots, Covers
  <2>2. ~ snap.partial => DOMAIN snap.insts \subseteq born BY DEF Snapshots, Covers
  <2>3. ASSUME ~ snap.partial, NEW k \in DOMAIN snap.insts \cap DOMAIN truth'
        PROVE  Between(Installed(snap.insts)[k].vars, snap.covered, k)' /\ ~ Installed(snap.insts)[k].spilled
    <3>1. k \in DOMAIN truth /\ truth[k].vars \subseteq truth'[k].vars BY <1>6, <2>2, <2>3
    <3>2. Between(Installed(snap.insts)[k].vars, snap.covered, k) /\ ~ Installed(snap.insts)[k].spilled
      BY <2>3, <3>1 DEF Snapshots
    <3> QED BY <1>5, <1>7, <3>1, <3>2 DEF Between
  <2>4. \A k \in DOMAIN varRows' \cap DOMAIN truth' : varRows'[k] \subseteq truth'[k].vars
    <3>1. ASSUME NEW k \in DOMAIN varRows \cap DOMAIN truth' PROVE varRows[k] \subseteq truth'[k].vars
      <4>1. k \in DOMAIN truth /\ truth[k].vars \subseteq truth'[k].vars BY <1>6
      <4>2. varRows[k] \subseteq truth[k].vars BY <4>1 DEF Snapshots
      <4> QED BY <4>1, <4>2
    <3> QED BY <3>1
  <2>5. snap' # NoSnapshot => config'.snapshots # "none" BY DEF Snapshots
  <2>6. snap.covered <= Len(log') BY <1>1, <1>4
  <2> QED BY <1>5, <2>1, <2>3, <2>4, <2>5, <2>6 DEF Snapshots
<1>9. Upserting'
  <2>1. SUFFICES ASSUME pending.step = "vars" PROVE Upserting' BY DEF Upserting
  <2>2. /\ Lean /\ pending.forgets \cap DOMAIN truth = {} /\ pending.forgets \subseteq born
        /\ DOMAIN pending.upserts \subseteq born
    BY <2>1 DEF Upserting
  <2>3. pending.forgets \cap DOMAIN truth' = {} BY <1>6, <2>2
  <2>4. ASSUME NEW k \in DOMAIN pending.upserts \cap DOMAIN truth'
        PROVE  /\ pending.upserts[k] \subseteq truth'[k].vars
               /\ k \notin dirty' => pending.upserts[k] = truth'[k].vars
               /\ ~ snap.partial /\ k \in DOMAIN snap.insts =>
                    After(log', snap.covered)[k].vars \subseteq pending.upserts[k]
    <3>1. k \in DOMAIN truth /\ truth[k].vars \subseteq truth'[k].vars BY <1>6, <2>2
    <3>2. /\ pending.upserts[k] \subseteq truth[k].vars
          /\ k \notin dirty => pending.upserts[k] = truth[k].vars
          /\ ~ snap.partial /\ k \in DOMAIN snap.insts =>
                After(log, snap.covered)[k].vars \subseteq pending.upserts[k]
      BY <2>1, <3>1 DEF Upserting
    <3>3. k \notin dirty' => k \notin dirty /\ truth'[k].vars = truth[k].vars BY <2>2
    <3> QED BY <1>7, <3>1, <3>2, <3>3
  <2> QED BY <1>3, <2>2, <2>3, <2>4 DEF Upserting
<1>10. Checkpointing'
  <2>1. SUFFICES ASSUME pending.step # "none" PROVE Checkpointing' BY DEF Checkpointing
  <2>2. /\ config.snapshots # "none" /\ pending.covered <= Len(log)
        /\ ~ pending.partial => Covers(pending.insts, pending.covered)
    BY <2>1 DEF Checkpointing
  <2>3. pending.covered \in 0 .. Len(log) /\ pending.covered <= Len(log') BY <1>0, <1>1, <2>2
  <2>4. After(log', pending.covered) = After(log, pending.covered) BY <1>2, <2>3
  <2>5. ~ pending.partial => Covers(pending.insts, pending.covered)' BY <2>2, <2>4 DEF Covers
  <2>6. ASSUME ~ pending.partial, NEW k \in DOMAIN pending.insts \cap DOMAIN truth'
        PROVE  /\ Between(Staged(k), pending.covered, k)'
               /\ Lean => k \in DOMAIN varRows
                            \/ (pending.step = "vars" /\ k \in DOMAIN pending.upserts)
               /\ ~ Lean => ~ pending.insts[k].spilled
    <3>1. k \in DOMAIN truth /\ truth[k].vars \subseteq truth'[k].vars BY <1>6, <2>2, <2>6 DEF Covers
    <3>2. /\ Between(Staged(k), pending.covered, k)
          /\ Lean => k \in DOMAIN varRows
                       \/ (pending.step = "vars" /\ k \in DOMAIN pending.upserts)
          /\ ~ Lean => ~ pending.insts[k].spilled
      BY <2>1, <2>6, <3>1 DEF Checkpointing
    <3>3. Staged(k)' = Staged(k) BY <1>3 DEF Staged
    <3> QED BY <2>4, <3>1, <3>2, <3>3 DEF Between
  <2> QED BY <1>3, <2>2, <2>3, <2>5, <2>6 DEF Checkpointing
<1>11. Tracked'
  <2>1. ASSUME Lean, NEW k \in DOMAIN truth'
        PROVE  \/ k \in dirty'
               \/ k \in DOMAIN varRows /\ varRows[k] = truth'[k].vars
               \/ pending.step = "vars" /\ k \in DOMAIN pending.upserts
    BY <2>1 DEF Tracked
  <2> QED BY <1>3, <2>1 DEF Tracked
<1> QED BY <1>8, <1>9, <1>10, <1>11

-----------------------------------------------------------------------------
(* Commands. *)

LEMMA OneEvent ==
    ASSUME NEW t, NEW s \in Seq(LogEntry), NEW e \in LogEntry
    PROVE  /\ <<e>> \in Seq(LogEntry) /\ Append(s, e) = s \o <<e>>
           /\ Replay(t, <<e>>) = Apply(t, e) /\ DOMAIN <<e>> = {1} /\ <<e>>[1] = e
<1>1. <<e>> \in Seq(LogEntry) /\ DOMAIN <<e>> = {1} /\ <<e>>[1] = e OBVIOUS
<1>2. Append(s, e) = s \o <<e>> BY AppendIsConcat
<1>3. Replay(t, <<e>>) = Apply(t, e)
  <2>1. <<>> \in Seq(LogEntry) BY EmptySeq
  <2>2. Append(<<>>, e) = <<e>> BY <2>1
  <2>3. Replay(t, Append(<<>>, e)) = Apply(Replay(t, <<>>), e) BY <2>1, ReplayAppend
  <2> QED BY <2>2, <2>3, ReplayNothing
<1> QED BY <1>1, <1>2, <1>3

\* What an event on a known instance does to the truth.
LEMMA TruthEvent ==
    ASSUME NEW t \in Map(Instance), NEW e \in LogEntry, ~ e.new, NEW b
    PROVE  /\ Apply(t, e) \in Map(Instance) /\ DOMAIN Apply(t, e) \subseteq DOMAIN t
           /\ e.waits = {} => e.key \notin DOMAIN Apply(t, e)
           /\ Grown(t, Apply(t, e), b)
           /\ \A k \in DOMAIN Apply(t, e) \ {e.key} : Apply(t, e)[k] = t[k]
           /\ e.key \in DOMAIN Apply(t, e) =>
                /\ e.write \subseteq Apply(t, e)[e.key].vars
                /\ Apply(t, e)[e.key].vars = t[e.key].vars \cup e.write
                /\ Apply(t, e)[e.key].waits = e.waits
<1> DEFINE u == Apply(t, e)
<1>a. Effect(t, e, u) BY Applied, Zenon
<1> HIDE DEF u
<1>1. u \in Map(Instance) /\ DOMAIN u \subseteq DOMAIN t /\ (e.waits = {} => e.key \notin DOMAIN u)
  BY <1>a DEF Effect
<1>2. \A k \in DOMAIN u \ {e.key} : u[k] = t[k] BY <1>a DEF Effect
<1>3. e.key \in DOMAIN u =>
        u[e.key] = [vars |-> t[e.key].vars \cup e.write, waits |-> e.waits,
                    spilled |-> t[e.key].spilled, locked |-> FALSE]
  BY <1>a DEF Effect
<1>4. e.key \in DOMAIN u => u[e.key].vars = t[e.key].vars \cup e.write /\ u[e.key].waits = e.waits
  BY <1>3
<1>5. Grown(t, u, b)
  <2>1. ASSUME NEW k \in DOMAIN u PROVE t[k].vars \subseteq u[k].vars BY <1>2, <1>4
  <2> QED BY <1>1, <2>1 DEF Grown
<1> QED BY <1>1, <1>2, <1>4, <1>5 DEF u

LEMMA NextWriteType ==
    ASSUME writes \in Nat
    PROVE  NextWrite \in Payload /\ writes + Cardinality(NextWrite) \in Nat
<1>1. CASE config.writes
  <2>1. NextWrite = {writes + 1} BY <1>1 DEF NextWrite
  <2>2. Cardinality({writes + 1}) = 1 BY FS_Singleton
  <2> QED BY <1>1, <2>1, <2>2 DEF Payload
<1>2. CASE ~ config.writes
  <2>1. NextWrite = {} BY <1>2 DEF NextWrite
  <2>2. Cardinality({}) = 0 BY FS_EmptySet
  <2> QED BY <2>1, <2>2 DEF Payload
<1> QED BY <1>1, <1>2

\* A command finds its instance by any facet it waits for, the end of a child excepted.
LEMMA Found ==
    ASSUME Inv, status = "up", NEW k \in DOMAIN truth, NEW f \in truth[k].waits \cup {"key"},
           k \in DOMAIN index => f # "child"
    PROVE  /\ k \in DOMAIN hot \cup (Targets(k, f) \cap DOMAIN coldRows)
           /\ k \notin DOMAIN index \ Targets(k, f)
<1>1. CASE k \in DOMAIN index
  <2>1. index[k] = Routes(truth[k].waits) /\ k \in DOMAIN coldRows
    BY <1>1 DEF Inv, Tiers, Held, Faithful
  <2>3. f \in index[k] BY <1>1, <2>1 DEF Routes
  <2> QED BY <1>1, <2>1, <2>3 DEF Targets
<1>2. CASE k \notin DOMAIN index BY <1>2 DEF Inv, Tiers, Held
<1> QED BY <1>1, <1>2

LEMMA CommandInv ==
    ASSUME Inv, Undisturbed', status = "up", NEW k \in DOMAIN truth,
           NEW f \in truth[k].waits \cup {"key"}, NEW next \in SUBSET truth[k].waits,
           Command(k, f, next)
    PROVE  Inv'
<1> DEFINE T == Targets(k, f)
           h == Rehydrating(hot, coldRows, T)
           e == Event(k, next, NextWrite, FALSE)
<1>0. /\ Shape /\ Logged /\ Snapshots /\ Tiers /\ Upserting /\ Checkpointing /\ Tracked
  BY DEF Inv
<1>1. /\ truth \in Map(Instance) /\ hot \in Map(Instance) /\ coldRows \in Map(Instance)
      /\ index \in Map(SUBSET (Facets \cup {"key"})) /\ log \in Seq(LogEntry) /\ writes \in Nat
      /\ config \in Configs
  BY <1>0 DEF Shape
<1>2. k \in Instances /\ truth[k] \in Instance /\ truth[k].waits \in SUBSET Facets
  BY <1>1, MapShape, InstanceFields
<1>3. NextWrite \in Payload /\ writes + Cardinality(NextWrite) \in Nat BY <1>1, NextWriteType
<1>4. /\ e \in LogEntry /\ e.key = k /\ e.waits = next /\ e.write = NextWrite /\ e.new = FALSE
  <2>1. next \in SUBSET Facets /\ FALSE \in BOOLEAN BY <1>2
  <2> QED BY <1>2, <1>3, <2>1 DEF Event, LogEntry
<1>5. h = Rehydrated(T) BY DEF Rehydrating, Rehydrated
<1>6. /\ h \in Map(Instance) /\ DOMAIN h = DOMAIN hot \cup (T \cap DOMAIN coldRows)
      /\ Held(config, truth, h, Without(index, T), Without(coldRows, T), Rows)
  <2>1. Held(config, truth, hot, index, coldRows, Rows) BY <1>0 DEF Tiers
  <2> HIDE DEF T
  <2>2. Rehydrates(config, truth, hot, index, coldRows, Rows, T, h) BY <1>1, <2>1, Rehydration
  <2> QED BY <2>2 DEF Rehydrates
<1>a. /\ k \in DOMAIN index => f # "child"
      /\ k \in DOMAIN h /\ h[k].spilled => NextWrite = {} \/ next = {}
  <2>1. /\ (IF f = "child" /\ k \in DOMAIN index THEN {"child"} ELSE {}) = {}
        /\ (IF k \in DOMAIN h /\ h[k].spilled /\ NextWrite # {} /\ next # {} THEN {"write"} ELSE {}) = {}
    BY <1>5 DEF Command, Undisturbed
  <2> HIDE DEF h
  <2> QED BY <2>1
<1>7. k \in DOMAIN h /\ k \notin DOMAIN index \ T BY <1>6, <1>a, Found
<1> HIDE DEF T, h, e
<1>8. /\ index' = Without(index, T) /\ coldRows' = Without(coldRows, T)
      /\ truth' = Apply(truth, e) /\ writes' = writes + Cardinality(NextWrite)
      /\ hot' = Apply(h, e) /\ log' = Append(log, e)
      /\ shells' = (IF next = {} THEN shells \cup {k} ELSE shells)
      /\ Track(k, next = {})
      /\ UNCHANGED <<config, status, pending, spillRows, varRows, snap, born, checkpoints, faults>>
  BY <1>5, <1>7 DEF Command, Rehydrate, T, e
<1>9. /\ truth' \in Map(Instance) /\ DOMAIN truth' \subseteq DOMAIN truth
      /\ next = {} => k \notin DOMAIN truth'
      /\ Grown(truth, truth', born)
      /\ \A j \in DOMAIN truth' \ {k} : truth'[j] = truth[j]
      /\ k \in DOMAIN truth' =>
            /\ NextWrite \subseteq truth'[k].vars /\ truth'[k].vars = truth[k].vars \cup NextWrite
            /\ truth'[k].waits = next
  <2>1. /\ Apply(truth, e) \in Map(Instance) /\ DOMAIN Apply(truth, e) \subseteq DOMAIN truth
        /\ e.waits = {} => e.key \notin DOMAIN Apply(truth, e)
        /\ Grown(truth, Apply(truth, e), born)
        /\ \A j \in DOMAIN Apply(truth, e) \ {e.key} : Apply(truth, e)[j] = truth[j]
        /\ e.key \in DOMAIN Apply(truth, e) =>
                /\ e.write \subseteq Apply(truth, e)[e.key].vars
                /\ Apply(truth, e)[e.key].vars = truth[e.key].vars \cup e.write
                /\ Apply(truth, e)[e.key].waits = e.waits
    <3>1. ~ e.new BY <1>4
    <3>2. truth \in Map(Instance) /\ e \in LogEntry BY <1>1, <1>4
    <3> QED BY <3>1, <3>2, TruthEvent, Zenon
  <2> QED BY <1>4, <1>8, <2>1
<1>10. hot' \in Map(Instance)
  <2>1. Effect(h, e, Apply(h, e)) BY <1>4, <1>6, Applied
  <2> QED BY <1>8, <2>1 DEF Effect
<1>11. Rows' = Rows BY <1>8 DEF Rows, Lean
<1>12. Held(config, truth', hot', index', coldRows', Rows)
  <2>1. e.key \in DOMAIN h /\ h[e.key].spilled /\ e.waits # {} => e.write = {} BY <1>4, <1>a
  <2>2. e.key \notin DOMAIN Without(index, T) /\ ~ e.new BY <1>4, <1>7 DEF Without
  <2>3. Held(config, Apply(truth, e), Apply(h, e), Without(index, T), Without(coldRows, T), Rows)
    BY <1>1, <1>4, <1>6, <2>1, <2>2, HeldEvent
  <2> QED BY <1>8, <2>3
<1>13. Tiers'
  <2>1. shells' \cap DOMAIN truth' = {} BY <1>0, <1>8, <1>9 DEF Tiers
  <2> QED BY <1>8, <1>11, <1>12, <2>1 DEF Tiers
<1>14. k \in born BY <1>0 DEF Logged
<1>15. /\ <<e>> \in Seq(LogEntry) /\ log' = log \o <<e>> /\ truth' = Replay(truth, <<e>>)
       /\ DOMAIN <<e>> = {1} /\ <<e>>[1] = e
  BY <1>1, <1>4, <1>8, OneEvent
<1>16. forgotten' \subseteq forgotten \cup {k} /\ (next # {} => forgotten' \subseteq forgotten)
  BY <1>8 DEF Track
<1>17. Logged' /\ log' \in Seq(LogEntry)
  <2>1. /\ DOMAIN truth' \cup DOMAIN spillRows' \cup DOMAIN varRows' \cup shells' \cup forgotten'
             \subseteq born'
    BY <1>0, <1>8, <1>9, <1>14, <1>16 DEF Logged
  <2>2. \A n \in DOMAIN <<e>> :
             /\ <<e>>[n].key \in born'
             /\ <<e>>[n].key \in DOMAIN truth' => <<e>>[n].write \subseteq truth'[<<e>>[n].key].vars
    BY <1>4, <1>8, <1>9, <1>14, <1>15
  <2>3. born \subseteq born' BY <1>8
  <2> QED BY <1>0, <1>9, <1>15, <2>1, <2>2, <2>3, Recorded
<1>18. Snapshots' /\ Upserting' /\ Checkpointing' /\ Tracked'
  <2>1. DOMAIN varRows \subseteq born /\ born \subseteq born' BY <1>0, <1>8 DEF Logged
  <2>2. forgotten' \cap DOMAIN truth' = {} BY <1>0, <1>9, <1>16 DEF Tracked
  <2>3. ASSUME Lean, NEW j \in DOMAIN truth'
        PROVE  j \in dirty' \/ (j \in DOMAIN truth /\ j \notin dirty /\ truth'[j].vars = truth[j].vars)
    <3>1. dirty' = IF next = {} THEN dirty \ {k} ELSE dirty \cup {k} BY <1>8, <2>3 DEF Track
    <3>2. CASE j = k BY <1>9, <3>1, <3>2
    <3>3. CASE j # k BY <1>9, <3>1, <3>3
    <3> QED BY <3>2, <3>3
  <2>4. config' = config /\ snap' = snap /\ pending' = pending /\ varRows' = varRows BY <1>8
  <2> QED BY <1>0, <1>9, <1>15, <2>1, <2>2, <2>3, <2>4, Borne
<1>20. Shape'
  <2>1. index' \in Map(SUBSET (Facets \cup {"key"})) /\ coldRows' \in Map(Instance)
    BY <1>1, <1>8, WithoutMap
  <2> QED BY <1>0, <1>3, <1>8, <1>9, <1>10, <1>17, <2>1 DEF Shape
<1> QED BY <1>13, <1>17, <1>18, <1>20 DEF Inv

LEMMA CommandsInv ==
    ASSUME Inv, Undisturbed', NEW k \in Instances,
           \/ \E f \in Facets : Trigger(k, f)
           \/ SetVariables(k) \/ CancelInstance(k) \/ CompleteJob(k)
    PROVE  Inv'
<1>1. ASSUME NEW f \in Facets, Trigger(k, f) PROVE Inv'
  <2>1. /\ status = "up" /\ k \in DOMAIN truth /\ f \in truth[k].waits \cup {"key"}
        /\ truth[k].waits \ {f} \in SUBSET truth[k].waits /\ Command(k, f, truth[k].waits \ {f})
    BY <1>1 DEF Trigger
  <2> QED BY <2>1, CommandInv
<1>2. CASE SetVariables(k)
  <2>1. /\ status = "up" /\ k \in DOMAIN truth /\ "key" \in truth[k].waits \cup {"key"}
        /\ truth[k].waits \in SUBSET truth[k].waits /\ Command(k, "key", truth[k].waits)
    BY <1>2 DEF SetVariables
  <2> QED BY <2>1, CommandInv
<1>3. CASE CancelInstance(k)
  <2>1. /\ status = "up" /\ k \in DOMAIN truth /\ "key" \in truth[k].waits \cup {"key"}
        /\ {} \in SUBSET truth[k].waits /\ Command(k, "key", {})
    BY <1>3 DEF CancelInstance
  <2> QED BY <2>1, CommandInv
<1>4. CASE CompleteJob(k)
  <2>1. PICK next \in {{}} \cup (IF config.writes THEN {truth[k].waits} ELSE {}) :
            Command(k, "job", next)
    BY <1>4 DEF CompleteJob
  <2>2. /\ status = "up" /\ k \in DOMAIN truth /\ "job" \in truth[k].waits \cup {"key"}
        /\ next \in SUBSET truth[k].waits
    BY <1>4 DEF CompleteJob
  <2> QED BY <2>1, <2>2, CommandInv
<1> QED BY <1>1, <1>2, <1>3, <1>4

LEMMA CreateInv ==
    ASSUME Inv, NEW k \in Instances, NEW waits \in WaitSets, Create(k, waits)
    PROVE  Inv'
<1> DEFINE e == Event(k, waits, {writes + 1}, TRUE)
<1>0. /\ Shape /\ Logged /\ Snapshots /\ Tiers /\ Upserting /\ Checkpointing /\ Tracked
      /\ status = "up"
  BY DEF Inv, Create
<1>1. /\ truth \in Map(Instance) /\ hot \in Map(Instance) /\ log \in Seq(LogEntry) /\ writes \in Nat
      /\ config \in Configs
  BY <1>0 DEF Shape
<1>2. waits \in SUBSET Facets /\ waits # {} BY SpillAssumption
<1>3. e \in LogEntry /\ e.key = k /\ e.waits = waits /\ e.write = {writes + 1} /\ e.new = TRUE
  BY <1>1, <1>2 DEF Event, LogEntry, Payload
<1>4. /\ truth' = Apply(truth, e) /\ hot' = Apply(hot, e) /\ log' = Append(log, e)
      /\ Track(k, FALSE) /\ born' = born \cup {k} /\ writes' = writes + 1 /\ k \notin born
      /\ UNCHANGED <<config, status, shells, index, pending, coldRows, spillRows, varRows, snap>>
  BY DEF Create, tables
<1> HIDE DEF e
<1>5. Effect(truth, e, truth') /\ Effect(hot, e, hot') BY <1>1, <1>3, <1>4, Applied
<1>6. k \notin DOMAIN truth BY <1>0, <1>4 DEF Logged
<1>7. /\ truth' \in Map(Instance) /\ hot' \in Map(Instance) /\ DOMAIN truth' = DOMAIN truth \cup {k}
      /\ \A j \in DOMAIN truth : truth'[j] = truth[j]
      /\ truth'[k].vars = {writes + 1} /\ truth'[k].waits = waits
  <2>1. /\ truth' \in Map(Instance) /\ hot' \in Map(Instance)
        /\ \A j \in DOMAIN truth \ {k} : j \in DOMAIN truth' /\ truth'[j] = truth[j]
        /\ DOMAIN truth' \subseteq DOMAIN truth \cup {k} /\ k \in DOMAIN truth'
    BY <1>2, <1>3, <1>5 DEF Effect
  <2>2. truth'[k] = [vars |-> {writes + 1}, waits |-> waits, spilled |-> FALSE, locked |-> FALSE]
    BY <1>2, <1>3, <1>5 DEF Effect
  <2>3. truth'[k].vars = {writes + 1} /\ truth'[k].waits = waits BY <2>2
  <2> QED BY <1>6, <2>1, <2>3
<1>8. Tiers'
  <2>1. Held(config, truth', hot', index, coldRows, Rows)
    <3>1. Held(config, truth, hot, index, coldRows, Rows) BY <1>0 DEF Tiers
    <3>2. e.key \notin DOMAIN truth /\ e.new /\ e.waits # {} BY <1>2, <1>3, <1>6
    <3> QED BY <1>1, <1>3, <1>4, <3>1, <3>2, HeldNew
  <2>2. Rows' = Rows BY <1>4 DEF Rows, Lean
  <2>3. shells' \cap DOMAIN truth' = {} BY <1>0, <1>4, <1>7 DEF Tiers, Logged
  <2> QED BY <1>4, <2>1, <2>2, <2>3 DEF Tiers
<1>9. Grown(truth, truth', born) BY <1>4, <1>7 DEF Grown
<1>10. /\ <<e>> \in Seq(LogEntry) /\ log' = log \o <<e>> /\ truth' = Replay(truth, <<e>>)
       /\ DOMAIN <<e>> = {1} /\ <<e>>[1] = e
  BY <1>1, <1>3, <1>4, OneEvent
<1>11. forgotten' \subseteq forgotten /\ k \notin forgotten' BY <1>0, <1>4 DEF Track, Logged
<1>12. Logged' /\ log' \in Seq(LogEntry)
  <2>1. /\ DOMAIN truth' \cup DOMAIN spillRows' \cup DOMAIN varRows' \cup shells' \cup forgotten'
             \subseteq born'
    BY <1>0, <1>4, <1>7, <1>11 DEF Logged
  <2>2. \A n \in DOMAIN <<e>> :
             /\ <<e>>[n].key \in born'
             /\ <<e>>[n].key \in DOMAIN truth' => <<e>>[n].write \subseteq truth'[<<e>>[n].key].vars
    BY <1>3, <1>4, <1>7, <1>10
  <2>3. born \subseteq born' BY <1>4
  <2> QED BY <1>0, <1>9, <1>10, <2>1, <2>2, <2>3, Recorded
<1>13. Snapshots' /\ Upserting' /\ Checkpointing' /\ Tracked'
  <2>1. DOMAIN varRows \subseteq born /\ born \subseteq born' BY <1>0, <1>4 DEF Logged
  <2>2. forgotten' \cap DOMAIN truth' = {} BY <1>0, <1>7, <1>11 DEF Tracked
  <2>3. ASSUME Lean, NEW j \in DOMAIN truth'
        PROVE  j \in dirty' \/ (j \in DOMAIN truth /\ j \notin dirty /\ truth'[j].vars = truth[j].vars)
    <3>1. dirty' = dirty \cup {k} BY <1>4, <2>3 DEF Track
    <3> QED BY <1>7, <3>1
  <2>4. config' = config /\ snap' = snap /\ pending' = pending /\ varRows' = varRows BY <1>4
  <2> QED BY <1>0, <1>9, <1>10, <2>1, <2>2, <2>3, <2>4, Borne
<1>15. Shape' BY <1>0, <1>1, <1>4, <1>7, <1>12 DEF Shape
<1> QED BY <1>8, <1>12, <1>13, <1>15 DEF Inv

-----------------------------------------------------------------------------
(* Steps that log nothing. *)

LEMMA Quiet ==
    ASSUME Inv, status = "up",
           UNCHANGED <<config, status, truth, log, snap, pending, varRows, born, writes, dirty>>,
           hot' \in Map(Instance), coldRows' \in Map(Instance), spillRows' \in Map(Payload),
           index' \in Map(SUBSET (Facets \cup {"key"})), DOMAIN spillRows' \subseteq born,
           shells' \subseteq shells, forgotten' \subseteq forgotten \cup shells,
           Held(config, truth, hot', index', coldRows', IF Lean THEN varRows ELSE spillRows')
    PROVE  Inv'
<1>0. /\ Shape /\ Logged /\ Snapshots /\ Tiers /\ Upserting /\ Checkpointing /\ Tracked
  BY DEF Inv
<1>1. Lean' = Lean BY DEF Lean
<1>2. Shape' BY <1>0 DEF Shape
<1>3. Logged' BY <1>0 DEF Logged
<1>4. Snapshots'
  <2>1. Installed(snap.insts)' = Installed(snap.insts) BY <1>1 DEF Installed
  <2> QED BY <1>0, <1>1, <2>1 DEF Snapshots, Covers, Between
<1>5. Tiers' BY <1>0, <1>1 DEF Tiers, Rows
<1>6. Upserting' BY <1>0, <1>1 DEF Upserting
<1>7. Checkpointing'
  <2>1. \A k : Staged(k)' = Staged(k) BY <1>1 DEF Staged
  <2> QED BY <1>0, <1>1, <2>1 DEF Checkpointing, Covers, Between
<1>8. Tracked' BY <1>0, <1>1 DEF Tracked, Tiers
<1> QED BY <1>2, <1>3, <1>4, <1>5, <1>6, <1>7, <1>8 DEF Inv

\* Exchanging one instance in the engine for one that is as good, and rows of no other.
LEMMA HeldChange ==
    ASSUME NEW c, NEW t, NEW h, NEW ix, NEW cr, NEW rows, Held(c, t, h, ix, cr, rows),
           NEW k \in DOMAIN h, NEW g, NEW new,
           DOMAIN g = DOMAIN h, \A j \in DOMAIN h \ {k} : g[j] = h[j],
           \A j \in DOMAIN rows \ {k} : j \in DOMAIN new /\ new[j] = rows[j],
           Faithful(t, new, k, g[k]), g[k].spilled => c.vars
    PROVE  Held(c, t, g, ix, cr, new)
<1>1. \A j \in DOMAIN g : Faithful(t, new, j, g[j]) /\ (g[j].spilled => c.vars)
  BY DEF Held, Faithful
<1>2. \A j \in DOMAIN ix :
        Faithful(t, new, j, cr[j]) /\ ~ cr[j].spilled /\ ix[j] = Routes(cr[j].waits)
  BY DEF Held, Faithful
<1> QED BY <1>1, <1>2 DEF Held

LEMMA ActivateInv ==
    ASSUME Inv, NEW k \in Instances, Activate(k)
    PROVE  Inv'
<1> DEFINE T == Targets(k, "job")
           h == Rehydrating(hot, coldRows, T)
           v == [Restored(k, h[k]) EXCEPT !.locked = TRUE]
<1>0. /\ Shape /\ Logged /\ Tiers /\ status = "up" /\ k \in DOMAIN truth /\ "job" \in truth[k].waits
  BY DEF Inv, Activate
<1>1. /\ hot \in Map(Instance) /\ coldRows \in Map(Instance) /\ spillRows \in Map(Payload)
      /\ varRows \in Map(Payload) /\ index \in Map(SUBSET (Facets \cup {"key"}))
  BY <1>0 DEF Shape
<1>2. h = Rehydrated(T) BY DEF Rehydrating, Rehydrated
<1>3. /\ h \in Map(Instance) /\ DOMAIN h = DOMAIN hot \cup (T \cap DOMAIN coldRows)
      /\ Held(config, truth, h, Without(index, T), Without(coldRows, T), Rows)
  <2>1. Held(config, truth, hot, index, coldRows, Rows) BY <1>0 DEF Tiers
  <2> HIDE DEF T
  <2>2. Rehydrates(config, truth, hot, index, coldRows, Rows, T, h) BY <1>1, <2>1, Rehydration
  <2> QED BY <2>2 DEF Rehydrates
<1>4. k \in DOMAIN h
  <2>1. "job" \in truth[k].waits \cup {"key"} /\ "job" # "child" BY <1>0
  <2> QED BY <1>0, <1>3, <2>1, Found
<1> HIDE DEF T, h
<1>5. /\ hot' = [h EXCEPT ![k] = v]
      /\ spillRows' = (IF h[k].spilled /\ ~ Lean THEN Without(spillRows, {k}) ELSE spillRows)
      /\ index' = Without(index, T) /\ coldRows' = Without(coldRows, T)
      /\ UNCHANGED <<config, status, truth, shells, dirty, forgotten, pending, varRows, log, snap, bounds>>
  <2>1. Rehydrated(Targets(k, "job")) = h BY <1>2 DEF T
  <2> QED BY <1>4, <2>1 DEF Activate, Rehydrate, T
<1>6. h[k] \in Instance /\ Faithful(truth, Rows, k, h[k]) /\ (h[k].spilled => config.vars)
  <2>1. h[k] \in Instance BY <1>3, <1>4, MapShape
  <2> QED BY <1>3, <1>4, <2>1 DEF Held
<1>7. v \in Instance /\ ~ v.spilled /\ v.waits = truth[k].waits /\ v.vars = truth[k].vars
  <2>1. CASE h[k].spilled
    <3>1. k \in DOMAIN Rows /\ Rows[k] = truth[k].vars BY <1>6, <2>1 DEF Faithful
    <3>2. Restored(k, h[k]) = [h[k] EXCEPT !.vars = Rows[k], !.spilled = FALSE]
      BY <2>1, <3>1 DEF Restored, Rows
    <3>3. Rows[k] \in Payload
      <4>1. Rows \in Map(Payload) BY <1>1 DEF Rows
      <4> QED BY <3>1, <4>1, MapShape
    <3>4. v = [[h[k] EXCEPT !.vars = Rows[k], !.spilled = FALSE] EXCEPT !.locked = TRUE] BY <3>2
    <3> HIDE DEF v
    <3>5. v \in Instance /\ ~ v.spilled /\ v.waits = h[k].waits /\ v.vars = Rows[k]
      BY <1>6, <3>3, <3>4 DEF Instance
    <3> QED BY <1>6, <3>1, <3>5 DEF Faithful
  <2>2. CASE ~ h[k].spilled
    <3>1. Restored(k, h[k]) = h[k] BY <2>2 DEF Restored
    <3>2. v = [h[k] EXCEPT !.locked = TRUE] BY <3>1
    <3> HIDE DEF v
    <3>3. v \in Instance /\ ~ v.spilled /\ v.waits = h[k].waits /\ v.vars = h[k].vars
      BY <1>6, <2>2, <3>2 DEF Instance
    <3> QED BY <1>6, <2>2, <3>3 DEF Faithful
  <2> QED BY <2>1, <2>2
<1> HIDE DEF v
<1>8. /\ hot' \in Map(Instance) /\ DOMAIN hot' = DOMAIN h /\ hot'[k] = v
      /\ \A j \in DOMAIN h \ {k} : hot'[j] = h[j]
  BY <1>3, <1>4, <1>5, <1>7, ChangedMap
<1> DEFINE new == IF Lean THEN varRows ELSE spillRows'
<1>9. /\ spillRows' \in Map(Payload) /\ DOMAIN spillRows' \subseteq DOMAIN spillRows
      /\ \A j \in DOMAIN Rows \ {k} : j \in DOMAIN new /\ new[j] = Rows[j]
  <2>1. /\ Without(spillRows, {k}) \in Map(Payload)
        /\ DOMAIN Without(spillRows, {k}) = DOMAIN spillRows \ {k}
        /\ \A j \in DOMAIN spillRows \ {k} : Without(spillRows, {k})[j] = spillRows[j]
    BY <1>1, WithoutMap
  <2>2. CASE h[k].spilled /\ ~ Lean
    <3>1. spillRows' = Without(spillRows, {k}) /\ new = spillRows' /\ Rows = spillRows
      BY <1>5, <2>2 DEF Rows
    <3> QED BY <2>1, <3>1
  <2>3. CASE ~ (h[k].spilled /\ ~ Lean)
    <3>1. spillRows' = spillRows /\ new = Rows BY <1>5, <2>3 DEF Rows
    <3> QED BY <1>1, <3>1
  <2> QED BY <2>2, <2>3
<1> HIDE DEF new
<1>10. Held(config, truth, hot', index', coldRows', new)
  <2>1. Faithful(truth, new, k, hot'[k]) /\ (hot'[k].spilled => config.vars)
    BY <1>7, <1>8 DEF Faithful
  <2>2. Held(config, truth, h, index', coldRows', Rows) BY <1>3, <1>5
  <2> QED BY <1>4, <1>8, <1>9, <2>1, <2>2, HeldChange
<1>11. index' \in Map(SUBSET (Facets \cup {"key"})) /\ coldRows' \in Map(Instance)
  BY <1>1, <1>5, WithoutMap
<1>12. UNCHANGED <<config, status, truth, log, snap, pending, varRows, born, writes, dirty>>
       /\ shells' = shells /\ forgotten' = forgotten
  BY <1>5 DEF bounds
<1>13. DOMAIN spillRows' \subseteq born BY <1>0, <1>9 DEF Logged
<1> QED BY <1>0, <1>8, <1>9, <1>10, <1>11, <1>12, <1>13, Quiet DEF new

LEMMA ExpireJobInv ==
    ASSUME Inv, NEW k \in Instances, ExpireJob(k)
    PROVE  Inv'
<1> DEFINE v == [hot[k] EXCEPT !.locked = FALSE]
<1>0. Shape /\ Logged /\ Tiers /\ status = "up" /\ k \in DOMAIN hot BY DEF Inv, ExpireJob
<1>1. /\ hot \in Map(Instance) /\ coldRows \in Map(Instance) /\ spillRows \in Map(Payload)
      /\ index \in Map(SUBSET (Facets \cup {"key"}))
  BY <1>0 DEF Shape
<1>2. hot[k] \in Instance BY <1>0, <1>1, MapShape
<1>3. v \in Instance /\ v.vars = hot[k].vars /\ v.waits = hot[k].waits /\ v.spilled = hot[k].spilled
  BY <1>2 DEF Instance
<1>4. hot' = [hot EXCEPT ![k] = v] BY DEF ExpireJob
<1> HIDE DEF v
<1>5. /\ hot' \in Map(Instance) /\ DOMAIN hot' = DOMAIN hot /\ hot'[k] = v
      /\ \A j \in DOMAIN hot \ {k} : hot'[j] = hot[j]
  BY <1>0, <1>1, <1>3, <1>4, ChangedMap
<1>6. Held(config, truth, hot', index, coldRows, Rows)
  <2>1. Held(config, truth, hot, index, coldRows, Rows) BY <1>0 DEF Tiers
  <2>2. Faithful(truth, Rows, k, hot[k]) /\ (hot[k].spilled => config.vars) BY <1>0, <2>1 DEF Held
  <2>3. Faithful(truth, Rows, k, hot'[k]) /\ (hot'[k].spilled => config.vars)
    BY <1>3, <1>5, <2>2 DEF Faithful
  <2> QED BY <1>0, <1>5, <2>1, <2>3, HeldChange
<1>7. /\ UNCHANGED <<config, status, truth, log, snap, pending, varRows, born, writes, dirty>>
      /\ UNCHANGED <<shells, forgotten, spillRows, coldRows, index>>
  BY DEF ExpireJob, bounds, tables
<1>8. DOMAIN spillRows' \subseteq born /\ Rows = IF Lean THEN varRows ELSE spillRows'
  BY <1>0, <1>7 DEF Logged, Rows
<1> QED BY <1>0, <1>1, <1>5, <1>6, <1>7, <1>8, Quiet

LEMMA EvictInv ==
    ASSUME Inv, NEW k \in Instances, Evict(k)
    PROVE  Inv'
<1>0. Shape /\ Logged /\ Tiers /\ status = "up" /\ k \in shells BY DEF Inv, Evict
<1>1. /\ hot \in Map(Instance) /\ coldRows \in Map(Instance) /\ spillRows \in Map(Payload)
      /\ index \in Map(SUBSET (Facets \cup {"key"}))
  BY <1>0 DEF Shape
<1>2. /\ spillRows' = Without(spillRows, {k}) /\ coldRows' = Without(coldRows, {k})
      /\ shells' = shells \ {k} /\ forgotten' \subseteq forgotten \cup {k}
      /\ UNCHANGED <<config, status, truth, log, snap, pending, varRows, born, writes, dirty>>
      /\ UNCHANGED <<hot, index>>
  BY DEF Evict, bounds
<1>3. /\ spillRows' \in Map(Payload) /\ DOMAIN spillRows' = DOMAIN spillRows \ {k}
      /\ \A j \in DOMAIN spillRows \ {k} : spillRows'[j] = spillRows[j]
  BY <1>1, <1>2, WithoutMap
<1>4. k \notin DOMAIN truth BY <1>0 DEF Tiers
<1>5. coldRows' = coldRows
  <2>1. k \notin DOMAIN coldRows BY <1>0, <1>4 DEF Tiers, Held
  <2>2. coldRows = [j \in DOMAIN coldRows |-> coldRows[j]] BY <1>1, MapShape
  <2> QED BY <1>2, <2>1, <2>2 DEF Without
<1> DEFINE new == IF Lean THEN varRows ELSE spillRows'
<1>6. \A j \in DOMAIN Rows \ {k} : j \in DOMAIN new /\ new[j] = Rows[j] BY <1>3 DEF Rows
<1>7. Held(config, truth, hot, index, coldRows, new)
  <2> HIDE DEF new
  <2>1. Held(config, truth, hot, index, coldRows, Rows) BY <1>0 DEF Tiers
  <2>2. \A i : \A j \in DOMAIN truth \ {k} :
            Faithful(truth, Rows, j, i) => Faithful(truth, new, j, i)
    BY <1>6 DEF Faithful
  <2>3. \A j \in DOMAIN hot \cup DOMAIN index : j \in DOMAIN truth \ {k} BY <1>4, <2>1 DEF Held
  <2> QED BY <2>1, <2>2, <2>3 DEF Held
<1>8. DOMAIN spillRows' \subseteq born BY <1>0, <1>3 DEF Logged
<1> QED BY <1>0, <1>1, <1>2, <1>3, <1>5, <1>7, <1>8, Quiet

LEMMA ShedVariablesInv ==
    ASSUME Inv, NEW k \in Instances, ShedVariables(k)
    PROVE  Inv'
<1> DEFINE v == [hot[k] EXCEPT !.vars = {}, !.spilled = TRUE]
           p == hot[k].vars
<1>0. /\ Shape /\ Logged /\ Snapshots /\ Tiers /\ Upserting /\ Checkpointing /\ Tracked
      /\ status = "up" /\ config.vars /\ k \in DOMAIN hot /\ ~ hot[k].spilled
  BY DEF Inv, ShedVariables, Spillable
<1>1. /\ hot \in Map(Instance) /\ coldRows \in Map(Instance) /\ spillRows \in Map(Payload)
      /\ varRows \in Map(Payload) /\ index \in Map(SUBSET (Facets \cup {"key"}))
  BY <1>0 DEF Shape
<1>2. hot[k] \in Instance /\ p \in Payload
  <2>1. hot[k] \in Instance BY <1>0, <1>1, MapShape
  <2> QED BY <2>1, InstanceFields
<1>3. v \in Instance /\ v.spilled /\ v.waits = hot[k].waits BY <1>2 DEF Instance, Payload
<1>4. Held(config, truth, hot, index, coldRows, Rows) BY <1>0 DEF Tiers
<1>5. k \in DOMAIN truth /\ p = truth[k].vars /\ hot[k].waits = truth[k].waits /\ k \in born
  BY <1>0, <1>4 DEF Held, Faithful, Logged
<1>6. hot' = [hot EXCEPT ![k] = v] BY DEF ShedVariables
<1>7. /\ UNCHANGED <<config, status, truth, log, snap, pending, born, writes, dirty>>
      /\ UNCHANGED <<shells, forgotten, coldRows, index>>
      /\ Lean => varRows' = With(varRows, k, p) /\ spillRows' = spillRows
      /\ ~ Lean => spillRows' = With(spillRows, k, p) /\ varRows' = varRows
  BY DEF ShedVariables, bounds
<1> HIDE DEF v, p
<1>8. /\ hot' \in Map(Instance) /\ DOMAIN hot' = DOMAIN hot /\ hot'[k] = v
      /\ \A j \in DOMAIN hot \ {k} : hot'[j] = hot[j]
  BY <1>0, <1>1, <1>3, <1>6, ChangedMap
<1> DEFINE new == IF Lean THEN varRows' ELSE spillRows'
<1>9. new = With(Rows, k, p) BY <1>7 DEF Rows
<1>10. Held(config, truth, hot', index, coldRows, new)
  <2>1. /\ \A j \in DOMAIN Rows \ {k} : j \in DOMAIN new /\ new[j] = Rows[j]
        /\ k \in DOMAIN new /\ new[k] = p
    BY <1>9 DEF With
  <2> HIDE DEF new
  <2>2. Faithful(truth, new, k, hot'[k]) /\ (hot'[k].spilled => config.vars)
    BY <1>0, <1>3, <1>5, <1>8, <2>1 DEF Faithful
  <2> QED BY <1>0, <1>4, <1>8, <2>1, <2>2, HeldChange
<1>11. CASE ~ Lean
  <2>1. With(spillRows, k, p) \in Map(Payload) /\ Added(spillRows, k, p, With(spillRows, k, p))
    BY <1>1, <1>2, WithMap
  <2>2. spillRows' \in Map(Payload) /\ DOMAIN spillRows' \subseteq born
    BY <1>0, <1>5, <1>7, <1>11, <2>1 DEF Logged, Added
  <2>3. Held(config, truth, hot', index', coldRows', IF Lean THEN varRows ELSE spillRows')
    BY <1>7, <1>10, <1>11
  <2>4. UNCHANGED <<config, status, truth, log, snap, pending, varRows, born, writes, dirty>>
    BY <1>7, <1>11
  <2> QED BY <1>0, <1>1, <1>7, <1>8, <2>2, <2>3, <2>4, Quiet
<1>12. CASE Lean
  <2>0. Lean' = Lean BY <1>7 DEF Lean
  <2>1. /\ varRows' \in Map(Payload) /\ DOMAIN varRows' = DOMAIN varRows \cup {k}
        /\ varRows'[k] = truth[k].vars
        /\ \A j \in DOMAIN varRows \ {k} : varRows'[j] = varRows[j]
    <3>1. With(varRows, k, p) \in Map(Payload) /\ Added(varRows, k, p, With(varRows, k, p))
      BY <1>1, <1>2, WithMap
    <3> QED BY <1>5, <1>7, <1>12, <3>1 DEF Added
  <2>2. Shape' BY <1>0, <1>7, <1>8, <1>12, <2>1 DEF Shape
  <2>3. Logged' BY <1>0, <1>5, <1>7, <1>12, <2>1 DEF Logged
  <2>4. Snapshots'
    <3>1. ASSUME ~ snap.partial, NEW j \in DOMAIN snap.insts \cap DOMAIN truth
          PROVE  /\ Between(Installed(snap.insts)'[j].vars, snap.covered, j)
                 /\ ~ Installed(snap.insts)'[j].spilled
      <4>1. /\ Between(Installed(snap.insts)[j].vars, snap.covered, j)
            /\ ~ Installed(snap.insts)[j].spilled
        BY <1>0, <3>1 DEF Snapshots
      <4>2. Installed(snap.insts)'[j] =
              IF j \in DOMAIN varRows' THEN [snap.insts[j] EXCEPT !.vars = varRows'[j], !.spilled = FALSE]
              ELSE snap.insts[j]
        BY <1>7, <1>12, <2>0 DEF Installed
      <4>3. Installed(snap.insts)[j] =
              IF j \in DOMAIN varRows THEN [snap.insts[j] EXCEPT !.vars = varRows[j], !.spilled = FALSE]
              ELSE snap.insts[j]
        BY <1>12 DEF Installed
      <4>4. CASE j = k
        <5>1. snap.insts[j] \in Instance
          <6>1. snap.insts \in Map(Instance) BY <1>0 DEF Shape
          <6> QED BY <6>1, MapShape
        <5>2. /\ Installed(snap.insts)'[j].vars = truth[j].vars
              /\ Installed(snap.insts)'[j].spilled = FALSE
          BY <2>1, <4>2, <4>4, <5>1 DEF Instance
        <5> QED BY <4>1, <5>2 DEF Between
      <4>5. CASE j # k BY <2>1, <4>1, <4>2, <4>3, <4>5
      <4> QED BY <4>4, <4>5
    <3>2. \A j \in DOMAIN varRows' \cap DOMAIN truth : varRows'[j] \subseteq truth[j].vars
      BY <1>0, <2>1 DEF Snapshots
    <3>3. ~ snap.partial => Covers(snap.insts, snap.covered)' BY <1>0, <1>7 DEF Snapshots, Covers
    <3> QED BY <1>0, <1>7, <3>1, <3>2, <3>3 DEF Snapshots, Between
  <2>5. Tiers'
    <3>1. Rows' = new BY <1>12, <2>0 DEF Rows
    <3> QED BY <1>0, <1>7, <1>10, <3>1 DEF Tiers
  <2>6. Upserting' BY <1>0, <1>7, <2>0 DEF Upserting
  <2>7. Checkpointing'
    <3>1. SUFFICES ASSUME pending.step # "none" PROVE Checkpointing' BY <1>7 DEF Checkpointing
    <3>2. ASSUME ~ pending.partial, NEW j \in DOMAIN pending.insts \cap DOMAIN truth
          PROVE  /\ Between(Staged(j)', pending.covered, j)
                 /\ j \in DOMAIN varRows' \/ (pending.step = "vars" /\ j \in DOMAIN pending.upserts)
      <4>1. /\ Between(Staged(j), pending.covered, j)
            /\ j \in DOMAIN varRows \/ (pending.step = "vars" /\ j \in DOMAIN pending.upserts)
        BY <1>0, <1>12, <3>1, <3>2 DEF Checkpointing
      <4>2. CASE pending.step = "vars" /\ j \in DOMAIN pending.upserts
        <5>1. Staged(j)' = Staged(j) BY <1>7, <4>2 DEF Staged
        <5> QED BY <4>1, <4>2, <5>1
      <4>3. CASE ~ (pending.step = "vars" /\ j \in DOMAIN pending.upserts)
        <5>1. Staged(j)' = varRows'[j] /\ Staged(j) = varRows[j] /\ j \in DOMAIN varRows
          BY <1>7, <1>12, <2>0, <4>1, <4>3 DEF Staged
        <5>2. CASE j = k BY <2>1, <4>1, <5>1, <5>2 DEF Between
        <5>3. CASE j # k BY <2>1, <4>1, <5>1, <5>3
        <5> QED BY <5>2, <5>3
      <4> QED BY <4>2, <4>3
    <3>3. /\ config.snapshots # "none" /\ pending.covered <= Len(log)
          /\ ~ pending.partial => Covers(pending.insts, pending.covered)'
      BY <1>0, <1>7, <3>1 DEF Checkpointing, Covers
    <3> QED BY <1>7, <1>12, <2>0, <3>2, <3>3 DEF Checkpointing, Between
  <2>8. Tracked' BY <1>0, <1>7, <2>0, <2>1 DEF Tracked
  <2> QED BY <2>2, <2>3, <2>4, <2>5, <2>6, <2>7, <2>8 DEF Inv
<1> QED BY <1>11, <1>12

LEMMA ColdSpillInv ==
    ASSUME Inv, NEW k \in Instances, ColdSpill(k)
    PROVE  Inv'
<1> DEFINE r == Routes(hot[k].waits)
<1>0. /\ Shape /\ Logged /\ Tiers /\ status = "up" /\ config.cold /\ k \in DOMAIN hot
      /\ ~ hot[k].spilled
  BY DEF Inv, ColdSpill, ColdSpillable
<1>1. /\ hot \in Map(Instance) /\ coldRows \in Map(Instance) /\ spillRows \in Map(Payload)
      /\ index \in Map(SUBSET (Facets \cup {"key"}))
  BY <1>0 DEF Shape
<1>2. hot[k] \in Instance /\ r \in SUBSET (Facets \cup {"key"})
  <2>1. hot[k] \in Instance BY <1>0, <1>1, MapShape
  <2>2. hot[k].waits \in SUBSET Facets BY <2>1, InstanceFields
  <2> QED BY <2>1, <2>2 DEF Routes
<1>3. /\ hot' = Without(hot, {k}) /\ coldRows' = With(coldRows, k, hot[k]) /\ index' = With(index, k, r)
      /\ UNCHANGED <<config, status, truth, log, snap, pending, varRows, born, writes, dirty>>
      /\ UNCHANGED <<shells, forgotten, spillRows>>
  BY DEF ColdSpill, bounds
<1> HIDE DEF r
<1>4. /\ hot' \in Map(Instance) /\ DOMAIN hot' = DOMAIN hot \ {k}
      /\ \A j \in DOMAIN hot \ {k} : hot'[j] = hot[j]
  BY <1>1, <1>3, WithoutMap
<1>5. /\ coldRows' \in Map(Instance) /\ DOMAIN coldRows' = DOMAIN coldRows \cup {k}
      /\ coldRows'[k] = hot[k]
      /\ \A j \in DOMAIN coldRows \ {k} : coldRows'[j] = coldRows[j]
  <2>1. With(coldRows, k, hot[k]) \in Map(Instance) /\ Added(coldRows, k, hot[k], With(coldRows, k, hot[k]))
    BY <1>1, <1>2, WithMap
  <2> QED BY <1>3, <2>1 DEF Added
<1>6. /\ index' \in Map(SUBSET (Facets \cup {"key"})) /\ DOMAIN index' = DOMAIN index \cup {k}
      /\ index'[k] = r
      /\ \A j \in DOMAIN index \ {k} : index'[j] = index[j]
  <2> DEFINE S == SUBSET (Facets \cup {"key"})
  <2> HIDE DEF S
  <2>1. index \in Map(S) /\ r \in S BY <1>1, <1>2 DEF S
  <2>2. With(index, k, r) \in Map(S) /\ Added(index, k, r, With(index, k, r)) BY <2>1, WithMap
  <2> QED BY <1>3, <2>2 DEF S, Added
<1>7. Held(config, truth, hot', index', coldRows', Rows)
  <2>1. Held(config, truth, hot, index, coldRows, Rows) BY <1>0 DEF Tiers
  <2>2. ASSUME NEW j \in DOMAIN index'
        PROVE  /\ Faithful(truth, Rows, j, coldRows'[j]) /\ ~ coldRows'[j].spilled
               /\ index'[j] = Routes(coldRows'[j].waits)
    <3>1. CASE j = k
      <4>1. Faithful(truth, Rows, k, hot[k]) BY <1>0, <2>1 DEF Held
      <4> QED BY <1>0, <1>5, <1>6, <3>1, <4>1 DEF r
    <3>2. CASE j # k
      <4>1. j \in DOMAIN index /\ j \in DOMAIN coldRows BY <1>6, <2>1, <2>2, <3>2 DEF Held
      <4>2. coldRows'[j] = coldRows[j] /\ index'[j] = index[j] BY <1>5, <1>6, <3>2, <4>1
      <4> QED BY <2>1, <4>1, <4>2 DEF Held
    <3> QED BY <3>1, <3>2
  <2>3. \A j \in DOMAIN hot' : Faithful(truth, Rows, j, hot'[j]) /\ (hot'[j].spilled => config.vars)
    BY <1>4, <2>1 DEF Held
  <2>4. DOMAIN truth = DOMAIN hot' \cup DOMAIN index' /\ DOMAIN hot' \cap DOMAIN index' = {}
    BY <1>0, <1>4, <1>6, <2>1 DEF Held
  <2>5. DOMAIN index' = DOMAIN coldRows' BY <1>5, <1>6, <2>1 DEF Held
  <2> QED BY <1>0, <2>2, <2>3, <2>4, <2>5 DEF Held
<1>8. DOMAIN spillRows' \subseteq born /\ Rows = IF Lean THEN varRows ELSE spillRows'
  BY <1>0, <1>3 DEF Logged, Rows
<1> QED BY <1>0, <1>1, <1>3, <1>4, <1>5, <1>6, <1>7, <1>8, Quiet

-----------------------------------------------------------------------------
(* Timers. *)

\* Events that write nothing, one after the other, on instances that are not cold.
Ran(c, t, u, g, ix, cr, rows) ==
    /\ u \in Map(Instance) /\ g \in Map(Instance) /\ Held(c, u, g, ix, cr, rows)
    /\ DOMAIN u \subseteq DOMAIN t
    /\ \A k \in DOMAIN u : u[k].vars = t[k].vars

LEMMA RanEvents ==
    ASSUME NEW c, NEW t \in Map(Instance), NEW h \in Map(Instance), NEW ix, NEW cr, NEW rows,
           Held(c, t, h, ix, cr, rows), NEW es \in Seq(LogEntry),
           \A n \in 1 .. Len(es) : ~ es[n].new /\ es[n].write = {} /\ es[n].key \notin DOMAIN ix
    PROVE  /\ Ran(c, t, Replay(t, es), Replay(h, es), ix, cr, rows)
           /\ \A n \in 1 .. Len(es) : es[n].waits = {} => es[n].key \notin DOMAIN Replay(t, es)
<1> DEFINE N == Len(es)
           u(n) == Replay(t, SubSeq(es, 1, n))
           g(n) == Replay(h, SubSeq(es, 1, n))
           P(n) == /\ Ran(c, t, u(n), g(n), ix, cr, rows)
                   /\ \A m \in 1 .. n : es[m].waits = {} => es[m].key \notin DOMAIN u(n)
           G == {n \in 0 .. N : P(n)}
<1>0. N \in Nat BY LenProperties
<1>1. 0 \in G
  <2>1. SubSeq(es, 1, 0) = <<>> BY SubSeqEmpty
  <2>2. u(0) = t /\ g(0) = h BY <2>1, ReplayNothing
  <2> HIDE DEF u, g
  <2>3. P(0) BY <2>2 DEF Ran
  <2> QED BY <1>0, <2>3
<1>2. ASSUME NEW n \in 0 .. N, n \in G, n < N PROVE n + 1 \in G
  <2> DEFINE e == es[n + 1]
  <2>0. n \in 0 .. Len(es) - 1 BY <1>0, <1>2
  <2>1. n + 1 \in 1 .. N /\ e \in LogEntry /\ u(n + 1) = Apply(u(n), e) /\ g(n + 1) = Apply(g(n), e)
    BY <2>0, ReplayNext
  <2>2. P(n) BY <1>2
  <2> HIDE DEF u, g
  <2>3. ~ e.new /\ e.write = {} /\ e.key \notin DOMAIN ix BY <2>1
  <2> HIDE DEF e
  <2>4. u(n) \in Map(Instance) /\ g(n) \in Map(Instance) /\ Held(c, u(n), g(n), ix, cr, rows)
    BY <2>2 DEF Ran
  <2>5. Held(c, u(n + 1), g(n + 1), ix, cr, rows) BY <2>1, <2>3, <2>4, HeldEvent
  <2>6. g(n + 1) \in Map(Instance)
    <3>1. Effect(g(n), e, Apply(g(n), e)) BY <2>1, <2>4, Applied
    <3> QED BY <2>1, <3>1 DEF Effect
  <2>7. Effect(u(n), e, u(n + 1)) BY <2>1, <2>4, Applied
  <2>8. /\ u(n + 1) \in Map(Instance) /\ DOMAIN u(n + 1) \subseteq DOMAIN u(n)
        /\ e.waits = {} => e.key \notin DOMAIN u(n + 1)
        /\ \A k \in DOMAIN u(n + 1) \ {e.key} : u(n + 1)[k] = u(n)[k]
    BY <2>3, <2>7 DEF Effect
  <2>9. e.key \in DOMAIN u(n + 1) => u(n + 1)[e.key].vars = u(n)[e.key].vars
    <3>1. e.key \in DOMAIN u(n + 1) =>
            u(n + 1)[e.key] = [vars |-> u(n)[e.key].vars \cup e.write, waits |-> e.waits,
                               spilled |-> u(n)[e.key].spilled, locked |-> FALSE]
      BY <2>3, <2>7 DEF Effect
    <3> QED BY <2>3, <3>1
  <2>10. ASSUME NEW k \in DOMAIN u(n + 1)
         PROVE  k \in DOMAIN t /\ u(n + 1)[k].vars = t[k].vars
    <3>1. k \in DOMAIN u(n) /\ k \in DOMAIN t /\ u(n)[k].vars = t[k].vars
      BY <2>2, <2>8 DEF Ran
    <3>2. CASE k = e.key BY <2>3, <2>9, <3>1, <3>2
    <3>3. CASE k # e.key BY <2>8, <3>1, <3>3
    <3> QED BY <3>2, <3>3
  <2>11. ASSUME NEW m \in 1 .. n + 1, es[m].waits = {} PROVE es[m].key \notin DOMAIN u(n + 1)
    <3>1. CASE m = n + 1 BY <2>8, <2>11, <3>1 DEF e
    <3>2. CASE m # n + 1
      <4>1. m \in 1 .. n BY <3>2
      <4> QED BY <2>2, <2>8, <2>11, <4>1
    <3> QED BY <3>1, <3>2
  <2>12. P(n + 1) BY <2>5, <2>6, <2>8, <2>10, <2>11 DEF Ran
  <2>13. n + 1 \in 0 .. N BY <1>0, <2>1
  <2> HIDE DEF P
  <2> QED BY <2>12, <2>13
<1>3. G = 0 .. N
  <2> HIDE DEF G
  <2>1. G \in SUBSET (0 .. N) BY DEF G
  <2> QED BY <1>0, <1>1, <1>2, <2>1, Prefixes
<1>4. P(N)
  <2> HIDE DEF P
  <2> QED BY <1>0, <1>3
<1>5. SubSeq(es, 1, N) = es BY SubSeqFull
<1> QED BY <1>4, <1>5

\* Every due timer is taken.
LEMMA AllTaken ==
    ASSUME NEW S \in SUBSET Instances, NEW order \in InKeyOrder(S)
    PROVE  /\ Cardinality(S) \in Nat /\ order \in [1 .. Cardinality(S) -> S]
           /\ \A k \in S : \E i \in 1 .. Cardinality(S) : order[i] = k
<1> DEFINE n == Cardinality(S)
<1>1. IsFiniteSet(S) BY SpillAssumption, FS_Subset
<1>2. n \in Nat BY <1>1, FS_CardinalityType
<1> HIDE DEF n
<1>3. /\ order \in [1 .. n -> S] /\ \A i, j \in 1 .. n : i < j => order[i] < order[j]
  BY DEF InKeyOrder, n
<1>4. order \in Injection(1 .. n, S)
  <2>1. ASSUME NEW i \in 1 .. n, NEW j \in 1 .. n, order[i] = order[j] PROVE i = j
    <3>1. order[i] \in Nat /\ order[j] \in Nat BY <1>3, SpillAssumption
    <3>2. ~ (i < j) /\ ~ (j < i) BY <1>3, <2>1, <3>1
    <3> QED BY <1>2, <3>2
  <2> QED BY <1>3, <2>1 DEF Injection, IsInjective
<1>5. Cardinality(1 .. n) = n
  <2>1. 1 \in Int /\ n \in Int BY <1>2
  <2>2. Cardinality(1 .. n) = IF 1 > n THEN 0 ELSE n - 1 + 1 BY <2>1, FS_Interval
  <2> QED BY <1>2, <2>2
<1>6. order \in Surjection(1 .. n, S) BY <1>1, <1>4, <1>5, FS_Injection DEF n
<1>7. \A k \in S : \E i \in 1 .. n : order[i] = k BY <1>6 DEF Surjection
<1> QED BY <1>2, <1>3, <1>7 DEF n

LEMMA TriggerTimersInv ==
    ASSUME Inv, TriggerTimers
    PROVE  Inv'
<1> DEFINE T == ColdDue
           h == Rehydrating(hot, coldRows, T)
           due == {k \in DOMAIN h : "timer" \in h[k].waits}
           Fires(order) == [i \in DOMAIN order |->
                              Event(order[i], h[order[i]].waits \ {"timer"}, {}, FALSE)]
           ended == {k \in due : h[k].waits = {"timer"}}
<1>0. /\ Shape /\ Logged /\ Snapshots /\ Tiers /\ Upserting /\ Checkpointing /\ Tracked
      /\ status = "up"
  BY DEF Inv, TriggerTimers
<1>1. /\ truth \in Map(Instance) /\ hot \in Map(Instance) /\ coldRows \in Map(Instance)
      /\ index \in Map(SUBSET (Facets \cup {"key"})) /\ log \in Seq(LogEntry) /\ config \in Configs
  BY <1>0 DEF Shape
<1>2. h = Rehydrated(T) BY DEF Rehydrating, Rehydrated
<1>3. /\ h \in Map(Instance)
      /\ Held(config, truth, h, Without(index, T), Without(coldRows, T), Rows)
  <2>1. Held(config, truth, hot, index, coldRows, Rows) BY <1>0 DEF Tiers
  <2> HIDE DEF T
  <2>2. Rehydrates(config, truth, hot, index, coldRows, Rows, T, h) BY <1>1, <2>1, Rehydration
  <2> QED BY <2>2 DEF Rehydrates
<1> HIDE DEF h
<1>4. PICK order \in InKeyOrder(due) :
        /\ hot' = Replay(h, Fires(order)) /\ truth' = Replay(truth, Fires(order))
        /\ log' = log \o Fires(order)
  BY <1>2 DEF TriggerTimers
<1>5. /\ shells' = shells \cup ended
      /\ Lean => dirty' = dirty \ ended /\ forgotten' = forgotten \cup ended
      /\ ~ Lean => UNCHANGED <<dirty, forgotten>>
      /\ index' = Without(index, T) /\ coldRows' = Without(coldRows, T)
      /\ UNCHANGED <<config, status, pending, spillRows, varRows, snap, born, writes>>
  BY <1>2 DEF TriggerTimers, Rehydrate, bounds
<1> DEFINE es == Fires(order)
           n  == Cardinality(due)
<1>6. due \in SUBSET Instances /\ due \subseteq DOMAIN h BY <1>3, MapShape
<1>7. /\ n \in Nat /\ order \in [1 .. n -> due]
      /\ \A k \in due : \E i \in 1 .. n : order[i] = k
  <2> HIDE DEF due
  <2> QED BY <1>6, AllTaken
<1> HIDE DEF n
<1>8. ASSUME NEW i \in 1 .. n
      PROVE  /\ es[i] \in LogEntry /\ es[i].key = order[i] /\ es[i].new = FALSE /\ es[i].write = {}
             /\ es[i].waits = h[order[i]].waits \ {"timer"} /\ order[i] \in due
  <2>1. order[i] \in due /\ order[i] \in Instances /\ order[i] \in DOMAIN h BY <1>6, <1>7
  <2>2. h[order[i]].waits \in SUBSET Facets
    <3>1. h[order[i]] \in Instance BY <1>3, <2>1, MapShape
    <3> QED BY <3>1, InstanceFields
  <2>3. es[i] = Event(order[i], h[order[i]].waits \ {"timer"}, {}, FALSE) BY <1>7
  <2> DEFINE w == h[order[i]].waits \ {"timer"}
             k == order[i]
             e == es[i]
  <2>4. w \in SUBSET Facets /\ k \in Instances /\ e = Event(k, w, {}, FALSE) BY <2>1, <2>2, <2>3
  <2> HIDE DEF es, w, k, e
  <2>5. e \in LogEntry /\ e.key = k /\ e.new = FALSE /\ e.write = {} /\ e.waits = w
    BY <2>4 DEF Event, LogEntry, Payload
  <2> QED BY <2>1, <2>5 DEF w, k, e
<1>9. es \in Seq(LogEntry) /\ Len(es) = n /\ DOMAIN es = 1 .. n
  <2>1. es \in [1 .. n -> LogEntry]
    <3>1. DOMAIN order = 1 .. n BY <1>7
    <3>2. es = [i \in 1 .. n |-> es[i]] BY <3>1
    <3> HIDE DEF es
    <3> QED BY <1>8, <3>2
  <2> HIDE DEF es
  <2> QED BY <1>7, <2>1
<1> HIDE DEF es
<1>11. \A i \in 1 .. Len(es) : ~ es[i].new /\ es[i].write = {} /\ es[i].key \notin DOMAIN index'
  <2>1. ASSUME NEW i \in 1 .. n PROVE es[i].key \notin DOMAIN index'
    <3>1. order[i] \in DOMAIN h BY <1>6, <1>8
    <3>2. order[i] \notin DOMAIN Without(index, T) BY <1>3, <3>1 DEF Held
    <3> QED BY <1>5, <1>8, <3>2
  <2> QED BY <1>8, <1>9, <2>1
<1>12. /\ Ran(config, truth, truth', hot', index', coldRows', Rows)
       /\ \A i \in 1 .. n : es[i].waits = {} => es[i].key \notin DOMAIN truth'
  <2>1. Held(config, truth, h, index', coldRows', Rows) BY <1>3, <1>5
  <2>2. /\ Ran(config, truth, Replay(truth, es), Replay(h, es), index', coldRows', Rows)
        /\ \A i \in 1 .. Len(es) : es[i].waits = {} => es[i].key \notin DOMAIN Replay(truth, es)
    BY <1>1, <1>3, <1>9, <1>11, <2>1, RanEvents
  <2>3. truth' = Replay(truth, es) /\ hot' = Replay(h, es) BY <1>4 DEF es
  <2> QED BY <1>9, <2>2, <2>3
<1>13. /\ truth' \in Map(Instance) /\ hot' \in Map(Instance)
       /\ Held(config, truth', hot', index', coldRows', Rows) /\ DOMAIN truth' \subseteq DOMAIN truth
       /\ \A k \in DOMAIN truth' : truth'[k].vars = truth[k].vars
  BY <1>12 DEF Ran
<1>14. ended \cap DOMAIN truth' = {} /\ ended \subseteq born
  <2>1. ASSUME NEW k \in ended PROVE k \notin DOMAIN truth' /\ k \in born
    <3>1. PICK i \in 1 .. n : order[i] = k BY <1>7
    <3>2. es[i].waits = {} /\ es[i].key = k BY <1>8, <3>1
    <3>3. k \in DOMAIN truth BY <1>3, <1>6 DEF Held
    <3> QED BY <1>0, <1>12, <3>2, <3>3 DEF Logged
  <2> QED BY <2>1
<1> HIDE DEF ended
<1>15. Tiers'
  <2>1. Rows' = Rows BY <1>5 DEF Rows, Lean
  <2>2. shells' \cap DOMAIN truth' = {} BY <1>0, <1>5, <1>13, <1>14 DEF Tiers
  <2> QED BY <1>5, <1>13, <2>1, <2>2 DEF Tiers
<1>16. log' = log \o es /\ truth' = Replay(truth, es) BY <1>4 DEF es
<1>17. Grown(truth, truth', born) BY <1>13 DEF Grown
<1>18. forgotten' \subseteq forgotten \cup ended BY <1>5
<1>19. Logged' /\ log' \in Seq(LogEntry)
  <2>1. /\ DOMAIN truth' \cup DOMAIN spillRows' \cup DOMAIN varRows' \cup shells' \cup forgotten'
             \subseteq born'
        /\ born \subseteq born'
    BY <1>0, <1>5, <1>13, <1>14, <1>18 DEF Logged
  <2>2. \A i \in DOMAIN es :
             /\ es[i].key \in born'
             /\ es[i].key \in DOMAIN truth' => es[i].write \subseteq truth'[es[i].key].vars
    <3>1. ASSUME NEW i \in 1 .. n PROVE es[i].key \in born' /\ es[i].write = {}
      <4>1. order[i] \in DOMAIN truth BY <1>3, <1>6, <1>8 DEF Held
      <4> QED BY <1>0, <1>5, <1>8, <4>1 DEF Logged
    <3> QED BY <1>9, <3>1
  <2> QED BY <1>0, <1>9, <1>16, <1>17, <2>1, <2>2, Recorded
<1>20. Snapshots' /\ Upserting' /\ Checkpointing' /\ Tracked'
  <2>1. DOMAIN varRows \subseteq born /\ born \subseteq born' BY <1>0, <1>5 DEF Logged
  <2>2. forgotten' \cap DOMAIN truth' = {} BY <1>0, <1>13, <1>14, <1>18 DEF Tracked
  <2>3. ASSUME Lean, NEW j \in DOMAIN truth'
        PROVE  j \in dirty' \/ (j \in DOMAIN truth /\ j \notin dirty /\ truth'[j].vars = truth[j].vars)
    <3>1. j \notin ended BY <1>14, <2>3
    <3> QED BY <1>5, <1>13, <2>3, <3>1
  <2>4. config' = config /\ snap' = snap /\ pending' = pending /\ varRows' = varRows BY <1>5
  <2> QED BY <1>0, <1>9, <1>16, <1>17, <2>1, <2>2, <2>3, <2>4, Borne
<1>22. Shape'
  <2>1. index' \in Map(SUBSET (Facets \cup {"key"})) /\ coldRows' \in Map(Instance)
    BY <1>1, <1>5, WithoutMap
  <2> QED BY <1>0, <1>5, <1>13, <1>19, <2>1 DEF Shape
<1> QED BY <1>15, <1>19, <1>20, <1>22 DEF Inv

-----------------------------------------------------------------------------
(* Checkpoints. *)

LEMMA CheckpointBeginInv ==
    ASSUME Inv, Undisturbed', CheckpointBegin
    PROVE  Inv'
<1>0. /\ Shape /\ Logged /\ Snapshots /\ Tiers /\ Upserting /\ Checkpointing /\ Tracked
      /\ status = "up" /\ config.snapshots # "none" /\ pending = NoSnapshot
  BY DEF Inv, CheckpointBegin
<1>1. /\ truth \in Map(Instance) /\ hot \in Map(Instance) /\ log \in Seq(LogEntry)
      /\ varRows \in Map(Payload) /\ config \in Configs
  BY <1>0 DEF Shape
<1>2. /\ UNCHANGED <<config, status, truth, hot, shells, index, coldRows, spillRows, varRows, log, snap,
                     born, writes>>
      /\ dirty' = {} /\ forgotten' = {}
  BY DEF CheckpointBegin, tables
<1>3. Lean' = Lean BY <1>2 DEF Lean
<1>4. Len(log) \in Nat /\ After(log, Len(log)) = truth
  BY <1>0, <1>1, LenProperties, AfterAll DEF Logged
<1>5. /\ DOMAIN index = {} => DOMAIN hot = DOMAIN truth
      /\ DOMAIN hot \subseteq DOMAIN truth /\ DOMAIN hot \subseteq born
      /\ \A k \in DOMAIN hot : Faithful(truth, Rows, k, hot[k])
  BY <1>0 DEF Tiers, Held, Logged
<1>6. Snapshots'
  <2>1. Installed(snap.insts)' = Installed(snap.insts) BY <1>2, <1>3 DEF Installed
  <2> QED BY <1>0, <1>2, <2>1 DEF Snapshots, Covers, Between
<1>7. Logged' BY <1>0, <1>2 DEF Logged
<1>8. Tiers' BY <1>0, <1>2, <1>3 DEF Tiers, Rows
<1>10. CASE Lean
  <2>1. /\ pending' = [covered |-> Len(log), insts |-> ControlOnly(hot), step |-> "vars",
                       partial |-> FALSE, upserts |-> Upserts, forgets |-> forgotten]
    BY <1>10 DEF CheckpointBegin
  <2>a. DOMAIN hot = DOMAIN truth
    <3>1. DOMAIN index = {} BY <1>10 DEF CheckpointBegin, Upset, Undisturbed
    <3> QED BY <1>5, <3>1
  <2>2. /\ pending'.covered = Len(log) /\ pending'.insts = ControlOnly(hot) /\ pending'.step = "vars"
        /\ pending'.upserts = Upserts /\ pending'.forgets = forgotten
    BY <2>1
  <2>3. /\ DOMAIN ControlOnly(hot) = DOMAIN hot /\ ControlOnly(hot) \in Map(Instance)
        /\ \A k \in DOMAIN hot : ControlOnly(hot)[k].waits = hot[k].waits
    <3>1. DOMAIN hot \in SUBSET Instances /\ \A k \in DOMAIN hot : hot[k] \in Instance BY <1>1, MapShape
    <3>2. \A k \in DOMAIN hot : /\ [hot[k] EXCEPT !.vars = {}] \in Instance
                                /\ [hot[k] EXCEPT !.vars = {}].waits = hot[k].waits
      BY <3>1 DEF Instance, Payload
    <3>3. ControlOnly(hot) \in [DOMAIN hot -> Instance] BY <3>2 DEF ControlOnly
    <3>4. ControlOnly(hot) \in Map(Instance) BY <3>1, <3>3, MapMade
    <3> QED BY <3>2, <3>3, <3>4 DEF ControlOnly
  <2>4. /\ DOMAIN Upserts = {k \in dirty \cap DOMAIN hot : ~ hot[k].spilled}
        /\ \A k \in DOMAIN Upserts : Upserts[k] = truth[k].vars
    BY <1>5 DEF Upserts, Faithful
  <2>5. Upserts \in Map(Payload)
    <3>1. DOMAIN Upserts \in SUBSET Instances BY <1>1, <2>4, MapShape
    <3>2. ASSUME NEW k \in DOMAIN Upserts PROVE Upserts[k] \in Payload
      <4>1. k \in DOMAIN truth BY <1>5, <2>4
      <4>2. truth[k] \in Instance BY <1>1, <4>1, MapShape
      <4> QED BY <2>4, <4>2, InstanceFields
    <3>3. Upserts = [k \in DOMAIN Upserts |-> Upserts[k]] BY DEF Upserts
    <3> DEFINE u == Upserts
    <3> HIDE DEF u
    <3>4. u \in [DOMAIN u -> Payload] BY <3>2, <3>3 DEF u
    <3>5. u \in Map(Payload) BY <3>1, <3>4, MapMade DEF u
    <3> QED BY <3>5 DEF u
  <2>6. Shape' BY <1>0, <1>2, <1>4, <2>2, <2>3, <2>5 DEF Shape
  <2>7. Upserting'
    <3>1. ASSUME NEW k \in DOMAIN Upserts, ~ snap.partial, k \in DOMAIN snap.insts
          PROVE  After(log, snap.covered)[k].vars \subseteq truth[k].vars
      BY <1>0, <1>5, <2>4, <3>1 DEF Snapshots, Between
    <3>2. DOMAIN Upserts \subseteq born BY <1>5, <2>4
    <3> QED BY <1>0, <1>2, <1>3, <1>10, <2>2, <2>4, <3>1, <3>2 DEF Upserting, Tracked, Logged
  <2>8. ASSUME NEW k \in DOMAIN truth, k \notin DOMAIN Upserts
        PROVE  k \in DOMAIN varRows /\ varRows[k] = truth[k].vars
    <3>1. k \notin dirty \/ hot[k].spilled BY <2>a, <2>4, <2>8
    <3>2. CASE hot[k].spilled BY <1>5, <1>10, <2>a, <3>2 DEF Faithful, Rows
    <3>3. CASE k \notin dirty
      <4>1. pending.step # "vars" BY <1>0 DEF NoSnapshot
      <4> QED BY <1>0, <1>10, <3>3, <4>1 DEF Tracked
    <3> QED BY <3>1, <3>2, <3>3
  <2>9. Tracked' BY <1>2, <1>3, <2>2, <2>8 DEF Tracked
  <2>10. Checkpointing'
    <3>1. Covers(ControlOnly(hot), Len(log))
      BY <1>4, <1>5, <2>a, <2>3 DEF Covers, Faithful
    <3>2. ASSUME NEW k \in DOMAIN truth PROVE Staged(k)' = truth[k].vars
      BY <1>2, <1>3, <1>10, <2>2, <2>4, <2>8 DEF Staged
    <3> QED BY <1>0, <1>2, <1>3, <1>4, <1>10, <2>2, <2>8, <3>1, <3>2
        DEF Checkpointing, Covers, Between
  <2> QED BY <1>6, <1>7, <1>8, <2>6, <2>7, <2>9, <2>10 DEF Inv
<1>11. CASE ~ Lean
  <2>1. pending' = [covered |-> Len(log), insts |-> hot, step |-> "write",
                    partial |-> DOMAIN index # {} \/ \E k \in DOMAIN hot : hot[k].spilled]
    BY <1>11 DEF CheckpointBegin
  <2>2. /\ pending'.covered = Len(log) /\ pending'.insts = hot /\ pending'.step = "write"
        /\ pending'.partial <=> DOMAIN index # {} \/ \E k \in DOMAIN hot : hot[k].spilled
    BY <2>1
  <2>3. Shape' BY <1>0, <1>2, <1>4, <2>2 DEF Shape
  <2>4. Upserting' BY <2>2 DEF Upserting
  <2>5. Tracked' BY <1>2, <1>3, <1>11 DEF Tracked
  <2>6. ASSUME ~ pending'.partial PROVE Checkpointing'
    <3>1. /\ DOMAIN hot = DOMAIN truth
          /\ \A k \in DOMAIN hot : /\ ~ hot[k].spilled /\ hot[k].vars = truth[k].vars
                                   /\ hot[k].waits = truth[k].waits
      BY <1>5, <2>2, <2>6 DEF Faithful
    <3>2. Covers(hot, Len(log)) BY <1>4, <1>5, <3>1 DEF Covers
    <3>3. ASSUME NEW k \in DOMAIN truth PROVE Staged(k)' = truth[k].vars
      BY <1>3, <1>11, <2>2, <3>1 DEF Staged
    <3>4. Covers(pending.insts, pending.covered)' BY <1>2, <2>2, <3>2 DEF Covers
    <3>5. ASSUME NEW k \in DOMAIN pending'.insts \cap DOMAIN truth'
          PROVE  Between(Staged(k), pending.covered, k)' /\ ~ pending'.insts[k].spilled
      BY <1>2, <1>4, <2>2, <3>1, <3>3 DEF Between
    <3>6. config'.snapshots # "none" /\ pending'.covered <= Len(log') BY <1>0, <1>2, <1>4, <2>2
    <3> QED BY <1>3, <1>11, <3>4, <3>5, <3>6 DEF Checkpointing
  <2>7. ASSUME pending'.partial PROVE Checkpointing'
    <3>1. config'.snapshots # "none" /\ pending'.covered <= Len(log') BY <1>0, <1>2, <1>4, <2>2
    <3> QED BY <2>7, <3>1 DEF Checkpointing
  <2>8. Checkpointing'
    <3>1. CASE pending'.partial BY <2>7, <3>1
    <3>2. CASE ~ pending'.partial BY <2>6, <3>2
    <3> QED BY <3>1, <3>2
  <2> QED BY <1>6, <1>7, <1>8, <2>3, <2>4, <2>5, <2>8 DEF Inv
<1> QED BY <1>10, <1>11

LEMMA CheckpointFailInv ==
    ASSUME Inv, Undisturbed', CheckpointFail
    PROVE  Inv'
<1>0. /\ Shape /\ Logged /\ Snapshots /\ Tiers /\ Upserting /\ Checkpointing /\ Tracked
      /\ status = "up" /\ pending.step = "write"
  BY DEF Inv, CheckpointFail, Upset, Undisturbed
<1>2. /\ UNCHANGED <<config, status, truth, hot, shells, index, dirty, forgotten, coldRows, spillRows,
                     varRows, log, snap, born, writes>>
      /\ pending' = NoSnapshot
  BY DEF CheckpointFail, tables, bounds
<1>3. Lean' = Lean BY <1>2 DEF Lean
<1>4. pending'.step = "none" /\ pending'.covered = 0 /\ pending'.insts = None BY <1>2 DEF NoSnapshot
<1>5. Shape' BY <1>0, <1>2, <1>4, NoneMap DEF Shape
<1>6. Snapshots'
  <2>1. Installed(snap.insts)' = Installed(snap.insts) BY <1>2, <1>3 DEF Installed
  <2> QED BY <1>0, <1>2, <2>1 DEF Snapshots, Covers, Between
<1>7. Logged' BY <1>0, <1>2 DEF Logged
<1>8. Tiers' BY <1>0, <1>2, <1>3 DEF Tiers, Rows
<1>10. Upserting' /\ Checkpointing' BY <1>4 DEF Upserting, Checkpointing
<1>11. Tracked' BY <1>0, <1>2, <1>3 DEF Tracked
<1> QED BY <1>5, <1>6, <1>7, <1>8, <1>10, <1>11 DEF Inv

LEMMA CheckpointWriteInv ==
    ASSUME Inv, CheckpointWrite
    PROVE  Inv'
<1>0. /\ Shape /\ Logged /\ Snapshots /\ Tiers /\ Upserting /\ Checkpointing /\ Tracked
      /\ status = "up" /\ pending.step = "write"
  BY DEF Inv, CheckpointWrite
<1>2. /\ UNCHANGED <<config, status, truth, hot, shells, index, dirty, forgotten, coldRows, spillRows,
                     varRows, log, born, writes>>
      /\ snap' = [covered |-> pending.covered, insts |-> pending.insts, step |-> "done",
                  partial |-> pending.partial]
      /\ pending' = NoSnapshot
  BY DEF CheckpointWrite, tables, bounds
<1>3. Lean' = Lean BY <1>2 DEF Lean
<1>4. pending'.step = "none" /\ pending'.covered = 0 /\ pending'.insts = None BY <1>2 DEF NoSnapshot
<1>5. snap'.covered = pending.covered /\ snap'.insts = pending.insts /\ snap'.partial = pending.partial
  BY <1>2
<1>6. Shape' BY <1>0, <1>2, <1>4, <1>5, NoneMap DEF Shape
<1>7. Logged' BY <1>0, <1>2 DEF Logged
<1>8. Tiers' BY <1>0, <1>2, <1>3 DEF Tiers, Rows
<1>10. Upserting' /\ Checkpointing' BY <1>4 DEF Upserting, Checkpointing
<1>11. Tracked' BY <1>0, <1>2, <1>3 DEF Tracked
<1>12. Snapshots'
  <2>1. config.snapshots # "none" /\ pending.covered <= Len(log) BY <1>0 DEF Checkpointing
  <2>2. ~ pending.partial => Covers(snap.insts, snap.covered)'
    BY <1>0, <1>2, <1>5 DEF Checkpointing, Covers
  <2>3. ASSUME ~ pending.partial, NEW k \in DOMAIN pending.insts \cap DOMAIN truth
        PROVE  /\ Between(Installed(pending.insts)[k].vars, pending.covered, k)
               /\ ~ Installed(pending.insts)[k].spilled
    <3>1. /\ Between(Staged(k), pending.covered, k) /\ (Lean => k \in DOMAIN varRows)
          /\ ~ Lean => ~ pending.insts[k].spilled
      BY <1>0, <2>3 DEF Checkpointing
    <3>2. CASE Lean
      <4>1. pending.insts[k] \in Instance
        <5>1. pending.insts \in Map(Instance) BY <1>0 DEF Shape
        <5> QED BY <5>1, MapShape
      <4>2. Installed(pending.insts)[k] =
                [pending.insts[k] EXCEPT !.vars = varRows[k], !.spilled = FALSE]
        BY <3>1, <3>2 DEF Installed
      <4>3. Installed(pending.insts)[k].vars = varRows[k] /\ Installed(pending.insts)[k].spilled = FALSE
        BY <4>1, <4>2 DEF Instance
      <4>4. Staged(k) = varRows[k] BY <1>0, <3>2 DEF Staged
      <4> QED BY <3>1, <4>3, <4>4
    <3>3. CASE ~ Lean
      <4>1. Installed(pending.insts) = pending.insts /\ Staged(k) = pending.insts[k].vars
        BY <1>0, <3>3 DEF Installed, Staged
      <4> QED BY <3>1, <3>3, <4>1
    <3> QED BY <3>2, <3>3
  <2>4. Installed(snap.insts)' = Installed(pending.insts) BY <1>2, <1>3, <1>5 DEF Installed
  <2> QED BY <1>0, <1>2, <1>5, <2>1, <2>2, <2>3, <2>4 DEF Snapshots, Between
<1> QED BY <1>6, <1>7, <1>8, <1>10, <1>11, <1>12 DEF Inv

LEMMA CheckpointVarsInv ==
    ASSUME Inv, Undisturbed', CheckpointVars
    PROVE  Inv'
<1> DEFINE u == pending.upserts
           x == pending.forgets
<1>0. /\ Shape /\ Logged /\ Snapshots /\ Tiers /\ Upserting /\ Checkpointing /\ Tracked
      /\ status = "up" /\ pending.step = "vars" /\ Lean
  BY DEF Inv, CheckpointVars, Upserting
<1>1. varRows \in Map(Payload) /\ u \in Map(Payload) BY <1>0 DEF Shape
<1>2. /\ UNCHANGED <<config, status, truth, hot, shells, index, dirty, forgotten, coldRows, spillRows,
                     log, snap, born, writes>>
      /\ varRows' = Without(Over(u, varRows), x)
      /\ pending' = [pending EXCEPT !.step = "write"]
  BY DEF CheckpointVars, tables, bounds
<1>3. Lean' = Lean BY <1>2 DEF Lean
<1>4. /\ pending'.step = "write" /\ pending'.insts = pending.insts
      /\ pending'.covered = pending.covered /\ pending'.partial = pending.partial
  BY <1>2
<1>5. /\ x \cap DOMAIN truth = {} /\ DOMAIN u \subseteq born
      /\ \A k \in DOMAIN u \cap DOMAIN truth :
            /\ u[k] \subseteq truth[k].vars
            /\ k \notin dirty => u[k] = truth[k].vars
            /\ ~ snap.partial /\ k \in DOMAIN snap.insts =>
                After(log, snap.covered)[k].vars \subseteq u[k]
  BY <1>0 DEF Upserting
<1>a. \A k \in DOMAIN u \cap DOMAIN hot : hot[k].spilled => u[k] = varRows[k]
  BY DEF CheckpointVars, Upset, Undisturbed
<1> HIDE DEF u, x
<1>6. /\ varRows' \in Map(Payload) /\ DOMAIN varRows' = (DOMAIN u \cup DOMAIN varRows) \ x
      /\ \A k \in DOMAIN u \ x : varRows'[k] = u[k]
      /\ \A k \in DOMAIN varRows \ (DOMAIN u \cup x) : varRows'[k] = varRows[k]
  <2> DEFINE o == Over(u, varRows)
  <2>1. o \in Map(Payload) /\ Layered(u, varRows, o) BY <1>1, OverMap
  <2> HIDE DEF o
  <2>2. /\ Without(o, x) \in Map(Payload) /\ DOMAIN Without(o, x) = DOMAIN o \ x
        /\ \A k \in DOMAIN o \ x : Without(o, x)[k] = o[k]
    BY <2>1, WithoutMap
  <2>3. varRows' = Without(o, x) BY <1>2 DEF o
  <2> QED BY <2>1, <2>2, <2>3 DEF Layered
<1>7. \A k \in DOMAIN truth :
        /\ k \in DOMAIN varRows' <=> k \in DOMAIN u \/ k \in DOMAIN varRows
        /\ k \in DOMAIN u => varRows'[k] = u[k]
        /\ k \notin DOMAIN u /\ k \in DOMAIN varRows => varRows'[k] = varRows[k]
  BY <1>5, <1>6
<1>8. Shape' BY <1>0, <1>2, <1>4, <1>6 DEF Shape
<1>9. Logged' BY <1>0, <1>2, <1>5, <1>6 DEF Logged
<1>11. Tiers'
  <2>1. Rows = varRows /\ Rows' = varRows' BY <1>0, <1>3 DEF Rows
  <2>2. Held(config, truth, hot, index, coldRows, varRows) BY <1>0, <2>1 DEF Tiers
  <2>3. ASSUME NEW k \in DOMAIN truth, NEW i, Faithful(truth, varRows, k, i), ~ i.spilled
        PROVE  Faithful(truth, varRows', k, i)
    BY <2>3 DEF Faithful
  <2>4. ASSUME NEW k \in DOMAIN hot PROVE Faithful(truth, varRows', k, hot[k])
    <3>1. k \in DOMAIN truth /\ Faithful(truth, varRows, k, hot[k]) BY <2>2 DEF Held
    <3>2. CASE hot[k].spilled
      <4>1. k \in DOMAIN varRows /\ varRows[k] = truth[k].vars BY <3>1, <3>2 DEF Faithful
      <4>2. k \in DOMAIN u => u[k] = truth[k].vars BY <1>a, <3>2, <4>1
      <4> QED BY <1>7, <3>1, <3>2, <4>1, <4>2 DEF Faithful
    <3>3. CASE ~ hot[k].spilled BY <2>3, <3>1, <3>3
    <3> QED BY <3>2, <3>3
  <2> QED BY <1>0, <1>2, <2>1, <2>2, <2>3, <2>4 DEF Tiers, Held
<1>12. Snapshots'
  <2>1. ASSUME ~ snap.partial, NEW j \in DOMAIN snap.insts \cap DOMAIN truth
        PROVE  /\ Between(Installed(snap.insts)'[j].vars, snap.covered, j)
               /\ ~ Installed(snap.insts)'[j].spilled
    <3>1. /\ Between(Installed(snap.insts)[j].vars, snap.covered, j)
          /\ ~ Installed(snap.insts)[j].spilled
      BY <1>0, <2>1 DEF Snapshots
    <3>2. Installed(snap.insts)'[j] =
            IF j \in DOMAIN varRows' THEN [snap.insts[j] EXCEPT !.vars = varRows'[j], !.spilled = FALSE]
            ELSE snap.insts[j]
      BY <1>0, <1>2, <1>3 DEF Installed
    <3>3. Installed(snap.insts)[j] =
            IF j \in DOMAIN varRows THEN [snap.insts[j] EXCEPT !.vars = varRows[j], !.spilled = FALSE]
            ELSE snap.insts[j]
      BY <1>0 DEF Installed
    <3>4. CASE j \in DOMAIN u
      <4>1. snap.insts[j] \in Instance
        <5>1. snap.insts \in Map(Instance) BY <1>0 DEF Shape
        <5> QED BY <5>1, MapShape
      <4>2. Installed(snap.insts)'[j].vars = u[j] /\ Installed(snap.insts)'[j].spilled = FALSE
        BY <1>7, <3>2, <3>4, <4>1 DEF Instance
      <4> QED BY <1>5, <2>1, <3>4, <4>2 DEF Between
    <3>5. CASE j \notin DOMAIN u BY <1>7, <3>1, <3>2, <3>3, <3>5
    <3> QED BY <3>4, <3>5
  <2>2. ASSUME NEW j \in DOMAIN varRows' \cap DOMAIN truth PROVE varRows'[j] \subseteq truth[j].vars
    <3>1. CASE j \in DOMAIN u BY <1>5, <1>7, <3>1
    <3>2. CASE j \notin DOMAIN u BY <1>0, <1>7, <3>2 DEF Snapshots
    <3> QED BY <3>1, <3>2
  <2>3. ~ snap.partial => Covers(snap.insts, snap.covered)' BY <1>0, <1>2 DEF Snapshots, Covers
  <2> QED BY <1>0, <1>2, <2>1, <2>2, <2>3 DEF Snapshots, Between
<1>13. Upserting' BY <1>4 DEF Upserting
<1>14. Checkpointing'
  <2>1. /\ config.snapshots # "none" /\ pending.covered <= Len(log)
        /\ ~ pending.partial => Covers(pending.insts, pending.covered)
    BY <1>0 DEF Checkpointing
  <2>2. ASSUME ~ pending.partial, NEW j \in DOMAIN pending.insts \cap DOMAIN truth
        PROVE  Between(varRows'[j], pending.covered, j) /\ j \in DOMAIN varRows'
    <3>1. Between(Staged(j), pending.covered, j) /\ (j \in DOMAIN varRows \/ j \in DOMAIN u)
      BY <1>0, <2>2 DEF Checkpointing, u
    <3>2. varRows'[j] = Staged(j) /\ j \in DOMAIN varRows'
      BY <1>0, <1>7, <3>1 DEF Staged, u
    <3> QED BY <3>1, <3>2
  <2>3. \A j : Staged(j)' = varRows'[j] BY <1>0, <1>3, <1>4 DEF Staged
  <2> QED BY <1>0, <1>2, <1>3, <1>4, <2>1, <2>2, <2>3 DEF Checkpointing, Covers, Between
<1>15. Tracked'
  <2>1. ASSUME NEW j \in DOMAIN truth, j \notin dirty
        PROVE  j \in DOMAIN varRows' /\ varRows'[j] = truth[j].vars
    <3>1. CASE j \in DOMAIN u BY <1>5, <1>7, <2>1, <3>1
    <3>2. CASE j \notin DOMAIN u BY <1>0, <1>7, <2>1, <3>2 DEF Tracked, u
    <3> QED BY <3>1, <3>2
  <2> QED BY <1>0, <1>2, <2>1 DEF Tracked
<1> QED BY <1>8, <1>9, <1>11, <1>12, <1>13, <1>14, <1>15 DEF Inv

-----------------------------------------------------------------------------
(* Restarts. *)

LEMMA CrashInv ==
    ASSUME Inv, Crash
    PROVE  Inv'
<1>0. Shape /\ Logged /\ Snapshots BY DEF Inv
<1>1. /\ status' = "down"
      /\ UNCHANGED <<config, truth, hot, shells, index, dirty, forgotten, pending, coldRows, spillRows,
                     varRows, log, snap, born, writes>>
  BY DEF Crash, memory, tables
<1>2. Lean' = Lean BY <1>1 DEF Lean
<1>3. Shape' BY <1>0, <1>1 DEF Shape
<1>4. Logged' BY <1>0, <1>1 DEF Logged
<1>5. Snapshots'
  <2>1. Installed(snap.insts)' = Installed(snap.insts) BY <1>1, <1>2 DEF Installed
  <2> QED BY <1>0, <1>1, <2>1 DEF Snapshots, Covers, Between
<1> QED BY <1>1, <1>3, <1>4, <1>5 DEF Inv

\* What recovery has made of the instances when it has read the log as far as a prefix that
\* made them `a': nothing is missing, and nothing is there that will not be.
Recovering(a, g) ==
    /\ DOMAIN g = DOMAIN a
    /\ \A k \in DOMAIN g : g[k].waits = a[k].waits
    /\ \A k \in DOMAIN g \cap DOMAIN truth :
        a[k].vars \subseteq g[k].vars /\ g[k].vars \subseteq truth[k].vars /\ ~ g[k].spilled

LEMMA RecoveringEvent ==
    ASSUME NEW a \in Map(Instance), NEW g \in Map(Instance), Recovering(a, g), NEW e \in LogEntry,
           e.key \in DOMAIN truth => e.write \subseteq truth[e.key].vars
    PROVE  Recovering(Apply(a, e), Apply(g, e))
<1> DEFINE b == Apply(a, e)
           f == Apply(g, e)
<1>1. Effect(a, e, b) /\ Effect(g, e, f) BY Applied, Zenon
<1> HIDE DEF b, f
<1>2. DOMAIN f = DOMAIN b
  <2>1. DOMAIN b \ {e.key} = DOMAIN a \ {e.key} BY <1>1 DEF Effect
  <2>2. DOMAIN f \ {e.key} = DOMAIN g \ {e.key} BY <1>1 DEF Effect
  <2>3. e.key \in DOMAIN b <=> e.key \in DOMAIN f BY <1>1 DEF Effect, Recovering
  <2> QED BY <2>1, <2>2, <2>3 DEF Recovering
<1>3. ASSUME NEW k \in DOMAIN f, k # e.key
      PROVE  /\ f[k].waits = b[k].waits
             /\ k \in DOMAIN truth => /\ b[k].vars \subseteq f[k].vars
                                      /\ f[k].vars \subseteq truth[k].vars /\ ~ f[k].spilled
  <2>1. k \in DOMAIN g /\ k \in DOMAIN a /\ f[k] = g[k] /\ b[k] = a[k]
    BY <1>1, <1>2, <1>3 DEF Effect
  <2> QED BY <2>1 DEF Recovering
<1>4. ASSUME NEW k \in DOMAIN f, k = e.key
      PROVE  /\ f[k].waits = b[k].waits
             /\ k \in DOMAIN truth => /\ b[k].vars \subseteq f[k].vars
                                      /\ f[k].vars \subseteq truth[k].vars /\ ~ f[k].spilled
  <2>1. e.waits # {} /\ e.new \in BOOLEAN BY <1>1, <1>4, EntryFields DEF Effect
  <2>2. CASE e.new
    <3>1. /\ f[k].vars = e.write /\ f[k].waits = e.waits /\ f[k].spilled = FALSE
          /\ b[k].vars = e.write /\ b[k].waits = e.waits
      BY <1>1, <1>4, <2>1, <2>2 DEF Effect
    <3> QED BY <1>4, <3>1
  <2>3. CASE ~ e.new
    <3>1. k \in DOMAIN g /\ k \in DOMAIN a BY <1>1, <1>2, <1>4, <2>3 DEF Effect
    <3>2. /\ f[k].vars = g[k].vars \cup e.write /\ f[k].waits = e.waits /\ f[k].spilled = g[k].spilled
          /\ b[k].vars = a[k].vars \cup e.write /\ b[k].waits = e.waits
      BY <1>1, <1>4, <2>1, <2>3, <3>1 DEF Effect
    <3>3. k \in DOMAIN truth =>
            a[k].vars \subseteq g[k].vars /\ g[k].vars \subseteq truth[k].vars /\ ~ g[k].spilled
      BY <3>1 DEF Recovering
    <3> QED BY <1>4, <3>2, <3>3
  <2> QED BY <2>1, <2>2, <2>3
<1>5. Recovering(b, f) BY <1>2, <1>3, <1>4 DEF Recovering
<1> QED BY <1>5 DEF b, f

\* The snapshot, the variable store and the tail of the log make the instances what they were.
LEMMA Recovered ==
    ASSUME Shape, Logged, Snapshots, ~ snap.partial
    PROVE  LET g == Replay(Installed(snap.insts), SubSeq(log, snap.covered + 1, Len(log)))
           IN  g \in Map(Instance) /\ Recovering(truth, g)
<1> DEFINE c == snap.covered
           N == Len(log) - c
           t == SubSeq(log, c + 1, Len(log))
           h == Installed(snap.insts)
           g(n) == Replay(h, SubSeq(t, 1, n))
           P(n) == g(n) \in Map(Instance) /\ Recovering(After(log, c + n), g(n))
           G == {n \in 0 .. N : P(n)}
<1>0. /\ log \in Seq(LogEntry) /\ Len(log) \in Nat /\ c \in Nat /\ N \in Nat
      /\ snap.insts \in Map(Instance) /\ varRows \in Map(Payload)
  <2>1. log \in Seq(LogEntry) /\ c \in Nat /\ c <= Len(log) BY DEF Shape, Snapshots
  <2>2. Len(log) \in Nat BY <2>1, LenProperties
  <2> QED BY <2>1, <2>2 DEF Shape
<1>1. t \in Seq(LogEntry) /\ Len(t) = N /\ \A n \in 1 .. N : t[n] = log[c + n] /\ c + n \in 1 .. Len(log)
  <2>1. \A i \in c + 1 .. Len(log) : i \in 1 .. Len(log) BY <1>0
  <2>2. \A i \in c + 1 .. Len(log) : log[i] \in LogEntry BY <1>0, <2>1, ElementOfSeq
  <2>3. c + 1 \in Int /\ Len(log) \in Int BY <1>0
  <2>4. /\ t \in Seq(LogEntry)
        /\ Len(t) = (IF c + 1 <= Len(log) THEN Len(log) - (c + 1) + 1 ELSE 0)
        /\ \A i \in 1 .. Len(log) - (c + 1) + 1 : t[i] = log[(c + 1) + i - 1]
    BY <2>2, <2>3, SubSeqProperties
  <2> HIDE DEF t
  <2>5. Len(t) = N BY <1>0, <2>4
  <2>6. \A n \in 1 .. N : n \in 1 .. Len(log) - (c + 1) + 1 /\ (c + 1) + n - 1 = c + n
                          /\ c + n \in 1 .. Len(log)
    BY <1>0
  <2> QED BY <2>4, <2>5, <2>6
<1>2. h \in Map(Instance) /\ DOMAIN h = DOMAIN snap.insts
      /\ \A k \in DOMAIN h : h[k].waits = snap.insts[k].waits
  <2>1. /\ DOMAIN snap.insts \in SUBSET Instances
        /\ \A k \in DOMAIN snap.insts : snap.insts[k] \in Instance
        /\ \A k \in DOMAIN varRows : varRows[k] \in Payload
    BY <1>0, MapShape
  <2>2. CASE Lean
    <3>1. \A k \in DOMAIN snap.insts : k \in DOMAIN varRows =>
            /\ [snap.insts[k] EXCEPT !.vars = varRows[k], !.spilled = FALSE] \in Instance
            /\ [snap.insts[k] EXCEPT !.vars = varRows[k], !.spilled = FALSE].waits = snap.insts[k].waits
      BY <2>1 DEF Instance
    <3>2. /\ DOMAIN h = DOMAIN snap.insts
          /\ h \in [DOMAIN snap.insts -> Instance]
          /\ \A k \in DOMAIN h : h[k].waits = snap.insts[k].waits
      BY <2>1, <2>2, <3>1 DEF Installed
    <3> HIDE DEF h
    <3> QED BY <2>1, <3>2, MapMade
  <2>3. CASE ~ Lean
    <3>1. h = snap.insts BY <2>3 DEF Installed
    <3> QED BY <1>0, <3>1
  <2> QED BY <2>2, <2>3
<1>3. Recovering(After(log, c), h)
  <2>1. /\ DOMAIN snap.insts = DOMAIN After(log, c)
        /\ \A k \in DOMAIN snap.insts : snap.insts[k].waits = After(log, c)[k].waits
    BY DEF Snapshots, Covers
  <2>2. \A k \in DOMAIN snap.insts \cap DOMAIN truth :
            /\ After(log, c)[k].vars \subseteq h[k].vars /\ h[k].vars \subseteq truth[k].vars
            /\ ~ h[k].spilled
    BY DEF Snapshots, Between
  <2> HIDE DEF h, c
  <2> QED BY <1>2, <2>1, <2>2 DEF Recovering
<1> HIDE DEF h, t
<1>4. 0 \in G
  <2>1. SubSeq(t, 1, 0) = <<>> BY SubSeqEmpty
  <2>2. g(0) = h BY <2>1, ReplayNothing
  <2>3. c + 0 = c /\ 0 \in 0 .. N BY <1>0
  <2> HIDE DEF g, c, N
  <2>4. P(0) BY <1>2, <1>3, <2>2, <2>3
  <2> QED BY <2>3, <2>4
<1>5. ASSUME NEW n \in 0 .. N, n \in G, n < N PROVE n + 1 \in G
  <2> DEFINE e == t[n + 1]
             a(m) == After(log, c + m)
  <2>1. n \in 0 .. Len(t) - 1 BY <1>0, <1>1, <1>5
  <2>2. n + 1 \in 1 .. Len(t) /\ e \in LogEntry /\ g(n + 1) = Apply(g(n), e)
    BY <1>1, <2>1, ReplayNext
  <2>3. n + 1 \in 1 .. N /\ n + 1 \in 0 .. N BY <1>0, <1>1, <2>2
  <2>4. e = log[c + n + 1] /\ c + n + 1 \in DOMAIN log /\ c + n \in 0 .. Len(log) - 1
    <3>1. c + (n + 1) = c + n + 1 BY <1>0
    <3>2. DOMAIN log = 1 .. Len(log) BY <1>0, LenProperties
    <3>3. c + n \in Nat /\ c + n + 1 \in 1 .. Len(log) BY <1>0, <1>1, <2>3, <3>1
    <3> QED BY <1>0, <1>1, <2>3, <3>1, <3>2, <3>3
  <2>5. a(n + 1) = Apply(a(n), e)
    <3> DEFINE m == c + n
    <3>1. m \in 0 .. Len(log) - 1 BY <2>4
    <3>2. c + (n + 1) = m + 1 BY <1>0
    <3>3. e = log[m + 1] BY <2>4
    <3> HIDE DEF m, e
    <3>4. Replay(None, SubSeq(log, 1, m + 1)) = Apply(Replay(None, SubSeq(log, 1, m)), log[m + 1])
      BY <1>0, <3>1, ReplayNext
    <3> QED BY <3>2, <3>3, <3>4 DEF After, m
  <2>6. e.key \in DOMAIN truth => e.write \subseteq truth[e.key].vars BY <2>4 DEF Logged
  <2>7. P(n) BY <1>5
  <2>8. a(n) \in Map(Instance)
    <3>1. c + n \in 0 .. Len(log) BY <1>0, <2>4
    <3> QED BY <1>0, <3>1, AfterMap
  <2>9. g(n) \in Map(Instance) /\ Recovering(a(n), g(n)) BY <2>7
  <2> HIDE DEF g, a, e
  <2>10. Recovering(a(n + 1), g(n + 1)) BY <2>2, <2>5, <2>6, <2>8, <2>9, RecoveringEvent
  <2>11. g(n + 1) \in Map(Instance)
    <3>1. Effect(g(n), e, Apply(g(n), e)) BY <2>2, <2>9, Applied
    <3> QED BY <2>2, <3>1 DEF Effect
  <2>12. P(n + 1) BY <2>10, <2>11 DEF a
  <2> HIDE DEF P
  <2> QED BY <2>3, <2>12
<1>6. G = 0 .. N
  <2> HIDE DEF G, N
  <2>1. G \in SUBSET (0 .. N) BY DEF G
  <2> QED BY <1>0, <1>4, <1>5, <2>1, Prefixes
<1>7. P(N)
  <2> HIDE DEF P
  <2>1. N \in 0 .. N BY <1>0
  <2> QED BY <1>6, <2>1
<1>8. SubSeq(t, 1, N) = t BY <1>1, SubSeqFull
<1>9. After(log, c + N) = truth
  <2>1. c + N = Len(log) BY <1>0
  <2>2. After(log, Len(log)) = truth BY <1>0, AfterAll DEF Logged
  <2> QED BY <2>1, <2>2
<1>10. Replay(h, t) \in Map(Instance) /\ Recovering(truth, Replay(h, t)) BY <1>7, <1>8, <1>9
<1> QED BY <1>10 DEF h, t

LEMMA RecoverInv ==
    ASSUME Inv, Undisturbed', Recover
    PROVE  Inv'
<1>0. Shape /\ Logged /\ Snapshots BY DEF Inv
<1>1. /\ hot' = Replay(Installed(snap.insts), SubSeq(log, snap.covered + 1, Len(log)))
      /\ shells' = {} /\ index' = None /\ pending' = NoSnapshot /\ coldRows' = None
      /\ spillRows' = None /\ dirty' = (IF Lean THEN DOMAIN hot' ELSE {}) /\ forgotten' = {}
      /\ status' = "up" /\ UNCHANGED <<config, truth, varRows, log, snap, born, writes>>
  BY DEF Recover, bounds
<1>a. ~ snap.partial BY DEF Recover, Upset, Undisturbed
<1>2. hot' \in Map(Instance) /\ Recovering(truth, hot') BY <1>0, <1>1, <1>a, Recovered
<1>3. Lean' = Lean BY <1>1 DEF Lean
<1>4. pending'.step = "none" /\ pending'.covered = 0 /\ pending'.insts = None BY <1>1 DEF NoSnapshot
<1>5. Shape' BY <1>0, <1>1, <1>2, <1>4, NoneMap DEF Shape
<1>6. Logged' BY <1>0, <1>1, NoneMap DEF Logged
<1>7. Snapshots'
  <2>1. Installed(snap.insts)' = Installed(snap.insts) BY <1>1, <1>3 DEF Installed
  <2> QED BY <1>0, <1>1, <2>1 DEF Snapshots, Covers, Between
<1>9. Tiers'
  <2>1. DOMAIN hot' = DOMAIN truth BY <1>2 DEF Recovering
  <2>2. ASSUME NEW k \in DOMAIN hot', NEW rows
        PROVE  Faithful(truth, rows, k, hot'[k]) /\ ~ hot'[k].spilled
    <3>1. /\ hot'[k].waits = truth[k].waits /\ ~ hot'[k].spilled
          /\ truth[k].vars \subseteq hot'[k].vars /\ hot'[k].vars \subseteq truth[k].vars
      BY <1>2, <2>1 DEF Recovering
    <3>2. hot'[k].vars = truth[k].vars BY <3>1
    <3> QED BY <3>1, <3>2 DEF Faithful
  <2>3. DOMAIN index' = {} /\ DOMAIN coldRows' = {} BY <1>1, NoneMap
  <2>4. Held(config, truth, hot', index', coldRows', Rows') BY <2>1, <2>2, <2>3 DEF Held
  <2> QED BY <1>1, <2>4 DEF Tiers
<1>10. Upserting' /\ Checkpointing' BY <1>4 DEF Upserting, Checkpointing
<1>11. Tracked'
  <2>1. Lean => dirty' = DOMAIN truth BY <1>1, <1>2 DEF Recovering
  <2> QED BY <1>1, <1>3, <2>1 DEF Tracked
<1> QED BY <1>5, <1>6, <1>7, <1>9, <1>10, <1>11 DEF Inv

-----------------------------------------------------------------------------
(* The theorems. *)

LEMMA InitInv ==
    ASSUME Init
    PROVE  Inv
<1>1. /\ config \in Configs /\ status = "up" /\ truth = None /\ hot = None /\ shells = {}
      /\ index = None /\ dirty = {} /\ forgotten = {} /\ pending = NoSnapshot /\ coldRows = None
      /\ spillRows = None /\ varRows = None /\ log = <<>> /\ snap = NoSnapshot /\ born = {} /\ writes = 0
  BY DEF Init
<1>2. NoSnapshot.covered = 0 /\ NoSnapshot.insts = None /\ NoSnapshot.step = "none" BY DEF NoSnapshot
<1>3. DOMAIN None = {} BY NoneMap
<1>4. Shape BY <1>1, <1>2, NoneMap DEF Shape
<1>5. Logged BY <1>1, <1>3, ReplayNothing DEF Logged
<1>6. After(log, 0) = None /\ Len(log) = 0
  <2>1. log \in Seq(LogEntry) BY <1>4 DEF Shape
  <2> QED BY <1>1, <2>1, AfterAll
<1>7. Snapshots
  <2>1. DOMAIN Installed(None) = {} BY <1>3 DEF Installed
  <2> QED BY <1>1, <1>2, <1>3, <1>6 DEF Snapshots, Covers
<1>9. Tiers BY <1>1, <1>3 DEF Tiers, Held
<1>10. Upserting /\ Checkpointing BY <1>1, <1>2 DEF Upserting, Checkpointing
<1>11. Tracked BY <1>1, <1>3 DEF Tracked
<1> QED BY <1>4, <1>5, <1>7, <1>9, <1>10, <1>11 DEF Inv

LEMMA NextInv ==
    ASSUME Inv, Undisturbed', [Next]_vars
    PROVE  Inv'
<1>1. ASSUME NEW k \in Instances, NEW waits \in WaitSets, Create(k, waits) PROVE Inv'
  BY <1>1, CreateInv
<1>2. ASSUME NEW k \in Instances,
             (\E f \in Facets : Trigger(k, f)) \/ SetVariables(k) \/ CancelInstance(k) \/ CompleteJob(k)
      PROVE  Inv'
  BY <1>2, CommandsInv
<1>3. ASSUME NEW k \in Instances, Activate(k) PROVE Inv' BY <1>3, ActivateInv
<1>4. ASSUME NEW k \in Instances, ExpireJob(k) PROVE Inv' BY <1>4, ExpireJobInv
<1>5. ASSUME NEW k \in Instances, Evict(k) PROVE Inv' BY <1>5, EvictInv
<1>6. ASSUME NEW k \in Instances, ShedVariables(k) PROVE Inv' BY <1>6, ShedVariablesInv
<1>7. ASSUME NEW k \in Instances, ColdSpill(k) PROVE Inv' BY <1>7, ColdSpillInv
<1>8. CASE TriggerTimers BY <1>8, TriggerTimersInv
<1>9. CASE CheckpointBegin BY <1>9, CheckpointBeginInv
<1>10. CASE CheckpointVars BY <1>10, CheckpointVarsInv
<1>11. CASE CheckpointFail BY <1>11, CheckpointFailInv
<1>12. CASE CheckpointWrite BY <1>12, CheckpointWriteInv
<1>13. CASE Crash BY <1>13, CrashInv
<1>14. CASE Recover BY <1>14, RecoverInv
<1>15. CASE UNCHANGED vars
  <2>1. UNCHANGED <<config, status, truth, hot, shells, index, dirty, forgotten, pending, coldRows,
                    spillRows, varRows, log, snap, born, writes>>
    BY <1>15 DEF vars, memory, tables, bounds
  <2>2. Lean' = Lean /\ Installed(snap.insts)' = Installed(snap.insts)
    BY <2>1 DEF Lean, Installed
  <2>3. Shape /\ Logged => (Shape /\ Logged)' BY <2>1 DEF Shape, Logged
  <2>4. Snapshots => Snapshots' BY <2>1, <2>2 DEF Snapshots, Covers, Between
  <2>5. Tiers /\ Upserting /\ Tracked => (Tiers /\ Upserting /\ Tracked)'
    BY <2>1, <2>2 DEF Tiers, Rows, Upserting, Tracked
  <2>6. Checkpointing => Checkpointing'
    <3>1. \A k : Staged(k)' = Staged(k) BY <2>1, <2>2 DEF Staged
    <3> QED BY <2>1, <2>2, <3>1 DEF Checkpointing, Covers, Between
  <2> QED BY <2>1, <2>3, <2>4, <2>5, <2>6 DEF Inv
<1> QED BY <1>1, <1>2, <1>3, <1>4, <1>5, <1>6, <1>7, <1>8, <1>9, <1>10, <1>11, <1>12, <1>13, <1>14,
           <1>15 DEF Next

\* What has upset the tiers stays recorded.
LEMMA UpsetsGrow ==
    ASSUME [Next]_vars, Undisturbed'
    PROVE  Undisturbed
<1> USE DEF Undisturbed
<1>1. ASSUME NEW k \in Instances, NEW f, NEW next, Command(k, f, next) PROVE upsets \subseteq upsets'
  BY <1>1 DEF Command
<1>2. ASSUME NEW k \in Instances,
             (\E f \in Facets : Trigger(k, f)) \/ SetVariables(k) \/ CancelInstance(k) \/ CompleteJob(k)
      PROVE  upsets \subseteq upsets'
  BY <1>1, <1>2 DEF Trigger, SetVariables, CancelInstance, CompleteJob
<1>3. ASSUME NEW k \in Instances,
             \/ \E waits \in WaitSets : Create(k, waits)
             \/ Activate(k) \/ ExpireJob(k) \/ Evict(k) \/ ShedVariables(k) \/ ColdSpill(k)
      PROVE  upsets' = upsets
  BY <1>3 DEF Create, Activate, ExpireJob, Evict, ShedVariables, ColdSpill
<1>4. CASE TriggerTimers BY <1>4 DEF TriggerTimers
<1>5. CASE CheckpointBegin \/ CheckpointVars \/ CheckpointFail \/ Recover
  BY <1>5 DEF CheckpointBegin, CheckpointVars, CheckpointFail, Recover, Upset
<1>6. CASE CheckpointWrite \/ Crash BY <1>6 DEF CheckpointWrite, Crash
<1>7. CASE UNCHANGED vars BY <1>7 DEF vars
<1> QED BY <1>2, <1>3, <1>4, <1>5, <1>6, <1>7 DEF Next

LEMMA InvHolds == Spec => [](Undisturbed => Inv)
<1>1. Init => (Undisturbed => Inv) BY InitInv
<1>2. (Undisturbed => Inv) /\ [Next]_vars => (Undisturbed => Inv)' BY NextInv, UpsetsGrow
<1> QED BY <1>1, <1>2, PTL DEF Spec

\* In every setup, and whatever the numbers of instances, writes, checkpoints and restarts,
\* until an upset: every instance that should be alive is in the engine or cold, with a row
\* and the routes by which commands and the timer tick find it (journal.rs
\* ensure_resident_for_command, coldspill.rs ColdIndex), also after a restart from a
\* snapshot and the tail of the log.
THEOREM TiersHold == Spec => []LiveIsHeld
<1>1. (Undisturbed => Inv) => LiveIsHeld
  BY DEF Inv, Tiers, Held, Faithful, LiveIsHeld, AllHeld
<1> QED BY <1>1, InvHolds, PTL

\* In every setup and until an upset: wherever the variables of a live instance are kept, in
\* the engine, in a cold row, in the spill table or in the variable store a lean snapshot
\* relies on, they are all the writes made to them (memory.rs, varspill.rs, varstore.rs
\* checkpoint, journal.rs recovery).
THEOREM VariablesKept == Spec => []VariablesWhole
<1>1. ASSUME Undisturbed => Inv PROVE VariablesWhole
  <2>1. SUFFICES ASSUME status = "up", Undisturbed,
                        NEW k \in DOMAIN truth \cap (DOMAIN hot \cup DOMAIN coldRows)
                 PROVE  Kept(k) = truth[k].vars
    BY DEF VariablesWhole, AllWhole
  <2>2. Held(config, truth, hot, index, coldRows, Rows) BY <1>1, <2>1 DEF Inv, Tiers
  <2>3. CASE k \in DOMAIN coldRows
    <3>1. Kept(k) = coldRows[k].vars BY <2>3 DEF Kept
    <3>2. Faithful(truth, Rows, k, coldRows[k]) /\ ~ coldRows[k].spilled BY <2>2, <2>3 DEF Held
    <3> QED BY <3>1, <3>2 DEF Faithful
  <2>4. CASE k \notin DOMAIN coldRows
    <3>1. k \in DOMAIN hot /\ Faithful(truth, Rows, k, hot[k]) BY <2>1, <2>2, <2>4 DEF Held
    <3>2. CASE hot[k].spilled BY <2>4, <3>1, <3>2 DEF Kept, Faithful, Rows
    <3>3. CASE ~ hot[k].spilled BY <2>4, <3>1, <3>3 DEF Kept, Faithful
    <3> QED BY <3>2, <3>3
  <2> QED BY <2>3, <2>4
<1> QED BY <1>1, InvHolds, PTL
=============================================================================
