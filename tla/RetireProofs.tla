---------------------------- MODULE RetireProofs ----------------------------
(***************************************************************************)
(* Retirement takes from the follower nothing that it knows under the      *)
(* owner's key and that still runs on the owner, however many instances,   *)
(* frames and tombstones there are, whatever is lost, late or early,       *)
(* published, suspended, cancelled or completed.                           *)
(*                                                                         *)
(* The argument is that the owner never gives up a key it has not minted:  *)
(* what the buffer, a digest or a tombstone names was minted and is over,  *)
(* a mark is at most the next key and no higher than what runs and was     *)
(* never suspended, and all of that stays so while frames are under way.   *)
(* An instance the follower has and the owner has yet to mint is therefore *)
(* as safe as one that runs on both.                                       *)
(***************************************************************************)
EXTENDS Retire, FiniteSetTheorems, WellFoundedInduction, TLAPS

Engines == [inst : UNION {[S -> Inst] : S \in SUBSET Keys},
            next : Nat, applied : Nat]
Frames  == [kind : {"digest", "mark"}, keys : SUBSET Keys, mark : Nat, at : Nat]
Command == {Create} \cup {Complete(k) : k \in Keys}

\* An engine holds only what it has minted, and has minted as much as commands allow.
EngineOK(e) ==
    /\ e \in Engines /\ e.next <= e.applied + 2 * locals /\ e.applied <= Len(log)
    /\ \A k \in Held(e) : k <= e.next

Shape ==
    /\ setup \in Setups /\ log \in Seq(Command) /\ Len(log) <= MaxLog
    /\ locals \in 0 .. MaxLocal
    /\ EngineOK(owner) /\ EngineOK(follower)
    /\ buffer \subseteq Keys /\ tombs \subseteq Keys
    /\ frames \subseteq Frames /\ \A f \in frames : f.mark <= MaxKey + 1

-----------------------------------------------------------------------------
(* Engines. *)

LEMMA Bounds ==
    /\ MaxLog \in Nat /\ MaxLocal \in Nat /\ MaxTombstones \in Nat /\ MaxKey \in Nat
    /\ MaxKey = MaxLog + 2 * MaxLocal /\ Keys \subseteq Nat /\ Keys = 1 .. MaxKey
BY RetireAssumption DEF MaxKey, Keys

\* What it takes to be an engine.
LEMMA EngineShape ==
    ASSUME NEW e \in Engines
    PROVE  /\ Held(e) \subseteq Keys /\ \A k \in Held(e) : e.inst[k] \in Inst
           /\ e.next \in Nat /\ e.applied \in Nat /\ Live(e) \subseteq Held(e)
           /\ e.inst = [k \in Held(e) |-> e.inst[k]]
           /\ e = [inst |-> e.inst, next |-> e.next, applied |-> e.applied]
<1>1. PICK S \in SUBSET Keys : e.inst \in [S -> Inst] BY DEF Engines
<1>2. e = [inst |-> e.inst, next |-> e.next, applied |-> e.applied] BY DEF Engines
<1> QED BY <1>1, <1>2 DEF Engines, Held, Live

LEMMA EngineMade ==
    ASSUME NEW S \in SUBSET Keys, NEW f \in [S -> Inst], NEW n \in Nat, NEW a \in Nat
    PROVE  [inst |-> f, next |-> n, applied |-> a] \in Engines
BY DEF Engines

\* Taking instances out of an engine.
LEMMA WithoutThem ==
    ASSUME NEW e \in Engines, NEW S
    PROVE  /\ Without(e, S) \in Engines /\ Held(Without(e, S)) = Held(e) \ S
           /\ \A k \in Held(e) \ S : Without(e, S).inst[k] = e.inst[k]
           /\ Without(e, S).next = e.next /\ Without(e, S).applied = e.applied
<1> DEFINE f == [k \in Held(e) \ S |-> e.inst[k]]
<1>1. /\ Held(e) \subseteq Keys /\ \A k \in Held(e) : e.inst[k] \in Inst
      /\ e.next \in Nat /\ e.applied \in Nat
      /\ e = [inst |-> e.inst, next |-> e.next, applied |-> e.applied]
  BY EngineShape
<1>2. f \in [Held(e) \ S -> Inst] /\ Held(e) \ S \in SUBSET Keys BY <1>1
<1>3. Without(e, S) = [inst |-> f, next |-> e.next, applied |-> e.applied]
  BY <1>1 DEF Without, Held
<1>4. Without(e, S) \in Engines BY <1>1, <1>2, <1>3, EngineMade
<1> QED BY <1>2, <1>3, <1>4 DEF Held

LEMMA EngineFacts ==
    ASSUME Shape, NEW e, EngineOK(e)
    PROVE  /\ e \in Engines /\ Held(e) \subseteq Keys /\ Held(e) \subseteq Nat
           /\ \A k \in Held(e) : e.inst[k] \in Inst /\ k <= e.next
           /\ e.next \in Nat /\ e.applied \in Nat /\ e.applied \in 0 .. Len(log)
           /\ e.next <= e.applied + 2 * locals /\ e.next <= MaxKey
           /\ Len(log) \in Nat /\ Len(log) <= MaxLog /\ locals \in Nat /\ locals <= MaxLocal
<1>1. e \in Engines BY DEF EngineOK
<1>2. Len(log) \in Nat /\ Len(log) <= MaxLog /\ locals \in Nat /\ locals <= MaxLocal
  BY Bounds DEF Shape
<1>3. /\ Held(e) \subseteq Keys /\ \A k \in Held(e) : e.inst[k] \in Inst
      /\ e.next \in Nat /\ e.applied \in Nat
  BY <1>1, EngineShape
<1>4. e.next <= e.applied + 2 * locals /\ e.applied <= Len(log) BY DEF EngineOK
<1>5. e.next <= MaxKey /\ e.applied \in 0 .. Len(log) BY <1>2, <1>3, <1>4, Bounds
<1> QED BY <1>1, <1>2, <1>3, <1>4, <1>5, Bounds DEF EngineOK

\* One engine after some command: what it held it holds, under the ids it had, what has ended
\* stays so, and what is new is under keys minted by the command.
After(e, d) ==
    /\ e.next <= d.next /\ d.next \in Nat /\ d.applied \in Nat /\ d \in Engines
    /\ Held(e) \subseteq Held(d) /\ \A k \in Held(d) \ Held(e) : e.next < k /\ k <= d.next
    /\ \A k \in Held(e) : d.inst[k].id = e.inst[k].id
    /\ \A k \in Held(e) : e.inst[k].state = "ended" => d.inst[k].state = "ended"

\* A new instance.
LEMMA StartedOne ==
    ASSUME NEW e \in Engines, NEW k \in Keys, NEW i \in 0 .. MaxLog, k > e.next,
           \A x \in Held(e) : x <= e.next
    PROVE  /\ After(e, Started(e, k, i)) /\ Held(Started(e, k, i)) = Held(e) \cup {k}
           /\ k \notin Held(e)
           /\ Started(e, k, i).inst[k] = [id |-> i, state |-> "active"]
           /\ \A x \in Held(e) : Started(e, k, i).inst[x] = e.inst[x]
           /\ Started(e, k, i).next = k /\ Started(e, k, i).applied = e.applied
<1> DEFINE f == [x \in Held(e) \cup {k} |-> IF x = k THEN [id |-> i, state |-> "active"]
                                            ELSE e.inst[x]]
           d == Started(e, k, i)
<1>1. /\ Held(e) \subseteq Keys /\ \A x \in Held(e) : e.inst[x] \in Inst
      /\ e.next \in Nat /\ e.applied \in Nat
      /\ e = [inst |-> e.inst, next |-> e.next, applied |-> e.applied]
  BY EngineShape
<1>2. k \in Nat /\ k \notin Held(e) BY <1>1, Bounds
<1>3. [id |-> i, state |-> "active"] \in Inst BY DEF Inst
<1>4. f \in [Held(e) \cup {k} -> Inst] /\ Held(e) \cup {k} \in SUBSET Keys BY <1>1, <1>3
<1>5. d = [inst |-> f, next |-> k, applied |-> e.applied] BY <1>1 DEF Started, Held
<1>6. f[k] = [id |-> i, state |-> "active"] /\ \A x \in Held(e) : f[x] = e.inst[x]
  BY <1>2
<1> HIDE DEF f, d
<1>7. d \in Engines BY <1>1, <1>2, <1>4, <1>5, EngineMade
<1>8. /\ d.inst = f /\ d.next = k /\ d.applied = e.applied /\ Held(d) = Held(e) \cup {k}
  BY <1>4, <1>5 DEF Held
<1>9. After(e, d) BY <1>1, <1>2, <1>6, <1>7, <1>8 DEF After
<1> QED BY <1>2, <1>6, <1>8, <1>9 DEF d

\* An instance changes its state.
LEMMA Moved ==
    ASSUME NEW e \in Engines, NEW k \in Held(e), e.inst[k].state # "ended",
           NEW to \in {"active", "suspended", "drained", "ended"},
           NEW n \in Nat, NEW a \in Nat, e.next <= n, NEW d,
           d = [inst |-> [e.inst EXCEPT ![k].state = to], next |-> n, applied |-> a]
    PROVE  /\ After(e, d) /\ Held(d) = Held(e) /\ d.next = n /\ d.applied = a
           /\ d.inst[k].state = to /\ \A x \in Held(e) \ {k} : d.inst[x] = e.inst[x]
<1> DEFINE f == [e.inst EXCEPT ![k].state = to]
<1>1. /\ Held(e) \subseteq Keys /\ \A x \in Held(e) : e.inst[x] \in Inst
      /\ e.next \in Nat /\ e.inst = [x \in Held(e) |-> e.inst[x]]
  BY EngineShape
<1>2. /\ [e.inst[k] EXCEPT !.state = to] \in Inst
      /\ [e.inst[k] EXCEPT !.state = to].state = to
      /\ [e.inst[k] EXCEPT !.state = to].id = e.inst[k].id
  BY <1>1 DEF Inst
<1>3. /\ DOMAIN f = Held(e) /\ f[k] = [e.inst[k] EXCEPT !.state = to]
      /\ \A x \in Held(e) \ {k} : f[x] = e.inst[x]
      /\ f = [x \in Held(e) |-> f[x]]
  BY <1>1
<1>4. f \in [Held(e) -> Inst] /\ Held(e) \in SUBSET Keys BY <1>1, <1>2, <1>3
<1> HIDE DEF f
<1>5. d = [inst |-> f, next |-> n, applied |-> a] BY DEF f
<1>6. d \in Engines BY <1>4, <1>5, EngineMade
<1>7. d.inst = f /\ d.next = n /\ d.applied = a /\ Held(d) = Held(e)
  BY <1>3, <1>5 DEF Held
<1>8. f[k].state = to /\ f[k].id = e.inst[k].id BY <1>2, <1>3
<1>9. \A x \in Held(e) : f[x].id = e.inst[x].id BY <1>3, <1>8
<1>10. \A x \in Held(e) : e.inst[x].state = "ended" => f[x].state = "ended" BY <1>3, <1>8
<1> QED BY <1>3, <1>6, <1>7, <1>8, <1>9, <1>10 DEF After

\* d is e after the next entry of the log: at most one key is minted, one completion may have
\* found its instance, and nothing else has changed.
Advanced(e, d) ==
    /\ EngineOK(d) /\ After(e, d) /\ d.applied = e.applied + 1 /\ d.next <= e.next + 1
    /\ Held(d) \ Held(e) \subseteq {e.next + 1}
    /\ \A k \in Held(d) \ Held(e) : d.inst[k] = [id |-> e.applied + 1, state |-> "active"]
    /\ \A k \in Held(e) : log[e.applied + 1] # Complete(k) => d.inst[k] = e.inst[k]
    /\ \A k \in Held(d) : d.inst[k].state \in {"suspended", "drained"} =>
          k \in Held(e) /\ e.inst[k].state \in {"suspended", "drained"}

LEMMA AppliedOne ==
    ASSUME Shape, NEW e, EngineOK(e), e.applied < Len(log)
    PROVE  Advanced(e, Applied(e))
<1> DEFINE i == e.applied + 1
           k == e.next + 1
           c == log[i]
           b == [e EXCEPT !.applied = i]
           d == Applied(e)
<1>1. /\ e \in Engines /\ Held(e) \subseteq Keys /\ Held(e) \subseteq Nat
      /\ \A x \in Held(e) : e.inst[x] \in Inst /\ x <= e.next
      /\ e.next \in Nat /\ e.applied \in Nat /\ e.next <= e.applied + 2 * locals
      /\ Len(log) \in Nat /\ Len(log) <= MaxLog /\ locals \in Nat /\ locals <= MaxLocal
  BY EngineFacts
<1>2. e = [inst |-> e.inst, next |-> e.next, applied |-> e.applied] BY <1>1, EngineShape
<1>3. /\ i \in 1 .. Len(log) /\ i \in Nat /\ i <= Len(log) /\ i \in 0 .. MaxLog
      /\ k \in Nat /\ k \in Keys /\ k <= i + 2 * locals /\ e.next <= i + 2 * locals
  BY <1>1, Bounds
<1>4. b = [inst |-> e.inst, next |-> e.next, applied |-> i] BY <1>2
<1>5. b \in Engines /\ Held(b) = Held(e) /\ b.inst = e.inst /\ b.next = e.next /\ b.applied = i
  BY <1>1, <1>3, <1>4 DEF Engines, Held
<1>6. CASE c.op = "create"
  <2>1. d = Started(b, k, i) BY <1>6 DEF Applied
  <2>2. k > b.next /\ \A x \in Held(b) : x <= b.next BY <1>1, <1>5
  <2> HIDE DEF d, b
  <2>3. /\ After(b, d) /\ Held(d) = Held(b) \cup {k} /\ k \notin Held(b)
        /\ d.inst[k] = [id |-> i, state |-> "active"] /\ d.next = k /\ d.applied = b.applied
        /\ \A x \in Held(b) : d.inst[x] = b.inst[x]
    BY <1>3, <1>5, <2>1, <2>2, StartedOne
  <2>4. After(e, d) BY <1>5, <2>3 DEF After
  <2>5. \A x \in Held(d) : x <= d.next BY <1>1, <1>5, <2>3
  <2>6. EngineOK(d) BY <1>3, <1>5, <2>3, <2>4, <2>5 DEF EngineOK, After
  <2>7. \A x \in Held(d) : d.inst[x].state \in {"suspended", "drained"} =>
            x \in Held(e) /\ e.inst[x].state \in {"suspended", "drained"}
    BY <1>5, <2>3
  <2>8. Advanced(e, d) BY <1>1, <1>5, <2>3, <2>4, <2>6, <2>7 DEF Advanced
  <2> QED BY <2>8 DEF d
<1>7. ASSUME NEW x \in Keys, c = Complete(x) PROVE Advanced(e, d)
  <2>1. c.op # "create" /\ c.key = x BY <1>7 DEF Complete
  <2>2. CASE x \in Runs(e)
    <3> DEFINE to == IF e.inst[x].state = "active" THEN "ended" ELSE "drained"
    <3>1. x \in Held(e) /\ e.inst[x].state \in {"active", "suspended"} BY <2>2 DEF Runs
    <3>2. d = [b EXCEPT !.inst[x].state = to, !.next = k] BY <2>1, <2>2 DEF Applied
    <3>3. d = [inst |-> [e.inst EXCEPT ![x].state = to], next |-> k, applied |-> i]
      BY <1>4, <3>2
    <3>4. e.next <= k BY <1>1
    <3>5. to \in {"active", "suspended", "drained", "ended"} OBVIOUS
    <3> HIDE DEF d, b, to
    <3>6. /\ After(e, d) /\ Held(d) = Held(e) /\ d.next = k /\ d.applied = i
          /\ d.inst[x].state = to /\ \A y \in Held(e) \ {x} : d.inst[y] = e.inst[y]
      <4>1. e \in Engines /\ x \in Held(e) /\ e.inst[x].state # "ended" BY <1>1, <3>1
      <4>2. i \in Nat /\ k \in Nat /\ e.next <= k BY <1>3, <3>4
      <4> HIDE DEF i, k
      <4> QED BY <3>3, <3>5, <4>1, <4>2, Moved
    <3>7. EngineOK(d) BY <1>1, <1>3, <3>6 DEF EngineOK, After
    <3>8. \A y \in Held(e) : c # Complete(y) => d.inst[y] = e.inst[y] BY <1>7, <3>6
    <3>9. \A y \in Held(d) : d.inst[y].state \in {"suspended", "drained"} =>
            y \in Held(e) /\ e.inst[y].state \in {"suspended", "drained"}
      BY <3>1, <3>6 DEF to
    <3> QED BY <1>1, <3>6, <3>7, <3>8, <3>9 DEF Advanced
  <2>3. CASE x \notin Runs(e)
    <3>1. d = b BY <2>1, <2>3 DEF Applied
    <3> HIDE DEF d, b
    <3>2. After(e, d) BY <1>1, <1>3, <1>5, <3>1 DEF After
    <3>3. EngineOK(d) BY <1>1, <1>3, <1>5, <3>1 DEF EngineOK
    <3> QED BY <1>1, <1>5, <3>1, <3>2, <3>3 DEF Advanced
  <2> QED BY <2>2, <2>3
<1>8. c \in Command BY <1>3 DEF Shape
<1> QED BY <1>6, <1>7, <1>8 DEF Command, Create

-----------------------------------------------------------------------------
(* Types. *)

LEMMA WithoutOK ==
    ASSUME NEW e, EngineOK(e), NEW S
    PROVE  EngineOK(Without(e, S))
BY WithoutThem DEF EngineOK

\* A non-empty set of keys has a smallest one.
LEMMA SmallestKey ==
    ASSUME NEW S \in SUBSET Nat, S # {}
    PROVE  Min(S) \in S /\ \A k \in S : Min(S) <= k
<1>1. \E x \in S : \A y \in S : ~ (<<y, x>> \in OpToRel(<, Nat))
  BY NatLessThanWellFounded, WFMin
<1>2. \E x \in S : \A y \in S : ~ (y < x)
  BY <1>1 DEF OpToRel
<1>3. \E x \in S : \A y \in S : x <= y BY <1>2
<1> QED BY <1>3 DEF Min

\* The mark is no higher than any active instance, nor than the next key.
LEMMA MarkBound ==
    ASSUME EngineOK(owner)
    PROVE  /\ LowWater \in Nat
           /\ \A k \in Held(owner) : owner.inst[k].state = "active" => LowWater <= k
           /\ LowWater = owner.next + 1 \/ LowWater \in Held(owner)
<1> DEFINE active == {k \in Held(owner) : owner.inst[k].state = "active"}
<1>1. owner.next \in Nat /\ active \subseteq Held(owner) /\ Held(owner) \subseteq Nat
  <2>1. owner \in Engines BY DEF EngineOK
  <2> QED BY <2>1, EngineShape, Bounds
<1>2. CASE active = {} BY <1>1, <1>2 DEF LowWater
<1>3. CASE active # {}
  <2>1. LowWater = Min(active) BY <1>3 DEF LowWater
  <2>2. Min(active) \in active /\ \A k \in active : Min(active) <= k
    BY <1>1, <1>3, SmallestKey
  <2> QED BY <1>1, <2>1, <2>2
<1> QED BY <1>2, <1>3

\* A fresh engine.
LEMMA EmptyOK ==
    ASSUME log = <<>>, locals = 0
    PROVE  EngineOK(Empty) /\ Held(Empty) = {} /\ Empty.next = 0 /\ Empty.applied = 0
<1>1. [k \in {} |-> {}] \in [{} -> Inst] /\ {} \in SUBSET Keys OBVIOUS
<1>2. Empty \in Engines BY <1>1, EngineMade DEF Empty
<1>3. Len(log) = 0 OBVIOUS
<1> QED BY <1>2, <1>3 DEF EngineOK, Empty, Held

LEMMA ShapeInit == Init => Shape
<1> SUFFICES ASSUME Init PROVE Shape OBVIOUS
<1>1. log = <<>> /\ locals = 0 /\ owner = Empty /\ follower = Empty BY DEF Init
<1>2. EngineOK(owner) /\ EngineOK(follower) BY <1>1, EmptyOK
<1>3. log \in Seq(Command) /\ Len(log) <= MaxLog /\ locals \in 0 .. MaxLocal BY <1>1, Bounds
<1> QED BY <1>2, <1>3 DEF Init, Shape

\* A command of the owner alone.
LEMMA LocalOne ==
    ASSUME Shape, NEW k \in Keys, Cancel(k) \/ Suspend(k) \/ Resume(k)
    PROVE  /\ After(owner, owner') /\ Held(owner') = Held(owner) /\ k \in Held(owner)
           /\ owner'.next = owner.next /\ owner'.applied = owner.applied
           /\ \A x \in Held(owner) \ {k} : owner'.inst[x] = owner.inst[x]
           /\ owner'.inst[k].state \in {"suspended", "drained"} => k \in paused'
           /\ paused \subseteq paused' /\ owner.inst[k].state # "ended"
           /\ Local
<1>1. /\ owner \in Engines /\ owner.next \in Nat /\ owner.applied \in Nat
      /\ owner = [inst |-> owner.inst, next |-> owner.next, applied |-> owner.applied]
      /\ owner.next <= owner.next
  <2>1. EngineOK(owner) BY DEF Shape
  <2>2. owner \in Engines /\ owner.next \in Nat /\ owner.applied \in Nat
    BY <2>1, EngineFacts
  <2>3. owner = [inst |-> owner.inst, next |-> owner.next, applied |-> owner.applied]
    BY <2>2, EngineShape
  <2> QED BY <2>2, <2>3
<1>2. /\ k \in Held(owner) /\ owner.inst[k].state # "ended" /\ Local /\ paused \subseteq paused'
      /\ \E to \in {"active", "suspended", "drained", "ended"} :
            /\ owner' = [owner EXCEPT !.inst[k].state = to]
            /\ to \in {"suspended", "drained"} => k \in paused'
  <2>1. CASE Cancel(k) BY <2>1 DEF Cancel
  <2>2. CASE Suspend(k) BY <2>2 DEF Suspend
  <2>3. CASE Resume(k)
    <3> DEFINE to == IF owner.inst[k].state = "drained" THEN "ended" ELSE "active"
    <3>1. owner' = [owner EXCEPT !.inst[k].state = to] BY <2>3 DEF Resume
    <3>2. to \in {"active", "ended"} OBVIOUS
    <3> HIDE DEF to
    <3>3. \E y \in {"active", "suspended", "drained", "ended"} :
            /\ owner' = [owner EXCEPT !.inst[k].state = y]
            /\ y \in {"suspended", "drained"} => k \in paused'
      BY <3>1, <3>2
    <3> QED BY <2>3, <3>3 DEF Resume
  <2> QED BY <2>1, <2>2, <2>3
<1>3. PICK to \in {"active", "suspended", "drained", "ended"} :
          /\ owner' = [owner EXCEPT !.inst[k].state = to]
          /\ to \in {"suspended", "drained"} => k \in paused'
  BY <1>2
<1>4. owner' = [inst |-> [owner.inst EXCEPT ![k].state = to], next |-> owner.next,
                applied |-> owner.applied]
  BY <1>1, <1>3
<1>5. /\ After(owner, owner') /\ Held(owner') = Held(owner)
      /\ owner'.next = owner.next /\ owner'.applied = owner.applied
      /\ owner'.inst[k].state = to /\ \A x \in Held(owner) \ {k} : owner'.inst[x] = owner.inst[x]
  BY <1>1, <1>2, <1>4, Moved
<1> QED BY <1>2, <1>3, <1>5

\* A message: the owner mints one key or two, and starts or ends at most one instance.
LEMMA PublishOne ==
    ASSUME Shape, Publish
    PROVE  /\ After(owner, owner') /\ owner'.applied = owner.applied
           /\ owner'.next <= owner.next + 2 /\ \A k \in Held(owner') : k <= owner'.next
           /\ \A k \in Held(owner') : owner'.inst[k].state \in {"suspended", "drained"} =>
                k \in Held(owner) /\ owner'.inst[k] = owner.inst[k]
           /\ Local /\ paused' = paused
<1>1. /\ owner \in Engines /\ owner.next \in Nat /\ owner.applied \in Nat
      /\ owner = [inst |-> owner.inst, next |-> owner.next, applied |-> owner.applied]
      /\ Held(owner) \subseteq Nat /\ \A k \in Held(owner) : k <= owner.next
      /\ owner.next <= owner.applied + 2 * locals /\ owner.applied <= MaxLog
      /\ locals \in Nat
  <2>1. EngineOK(owner) BY DEF Shape
  <2>2. /\ owner \in Engines /\ owner.next \in Nat /\ owner.applied \in 0 .. Len(log)
        /\ owner.applied \in Nat /\ Len(log) \in Nat /\ Len(log) <= MaxLog
        /\ Held(owner) \subseteq Nat /\ \A k \in Held(owner) : k <= owner.next
        /\ owner.next <= owner.applied + 2 * locals /\ locals \in Nat
    BY <2>1, EngineFacts
  <2>3. owner = [inst |-> owner.inst, next |-> owner.next, applied |-> owner.applied]
    BY <2>2, EngineShape
  <2> QED BY <2>2, <2>3, Bounds
<1>2. Local /\ paused' = paused /\ locals < MaxLocal BY DEF Publish, Local
<1>3. CASE owner' = [owner EXCEPT !.next = @ + 1]
  <2>1. owner' = [inst |-> owner.inst, next |-> owner.next + 1, applied |-> owner.applied]
    BY <1>1, <1>3
  <2>2. /\ owner' \in Engines /\ Held(owner') = Held(owner) /\ owner'.inst = owner.inst
        /\ owner'.next = owner.next + 1 /\ owner'.applied = owner.applied
    BY <1>1, <2>1 DEF Engines, Held
  <2> QED BY <1>1, <1>2, <2>2 DEF After
<1>4. CASE owner' = Started(owner, owner.next + 2, 0)
  <2>1. owner.next + 2 \in Keys /\ 0 \in 0 .. MaxLog /\ owner.next + 2 > owner.next
    BY <1>1, <1>2, Bounds
  <2>2. /\ After(owner, owner') /\ Held(owner') = Held(owner) \cup {owner.next + 2}
        /\ owner'.inst[owner.next + 2] = [id |-> 0, state |-> "active"]
        /\ \A x \in Held(owner) : owner'.inst[x] = owner.inst[x]
        /\ owner'.next = owner.next + 2 /\ owner'.applied = owner.applied
    BY <1>1, <1>4, <2>1, StartedOne
  <2> QED BY <1>1, <1>2, <2>2
<1>5. ASSUME NEW k \in Held(owner), owner.inst[k].state = "active",
             owner' = [owner EXCEPT !.inst[k].state = "ended", !.next = @ + 2]
      PROVE  /\ After(owner, owner') /\ owner'.applied = owner.applied
             /\ owner'.next <= owner.next + 2 /\ \A x \in Held(owner') : x <= owner'.next
             /\ \A x \in Held(owner') : owner'.inst[x].state \in {"suspended", "drained"} =>
                  x \in Held(owner) /\ owner'.inst[x] = owner.inst[x]
  <2>1. owner' = [inst |-> [owner.inst EXCEPT ![k].state = "ended"], next |-> owner.next + 2,
                  applied |-> owner.applied]
    BY <1>1, <1>5
  <2>2. /\ After(owner, owner') /\ Held(owner') = Held(owner)
        /\ owner'.next = owner.next + 2 /\ owner'.applied = owner.applied
        /\ owner'.inst[k].state = "ended"
        /\ \A x \in Held(owner) \ {k} : owner'.inst[x] = owner.inst[x]
    <3>1. owner.inst[k].state # "ended" /\ owner.next + 2 \in Nat
          /\ owner.next <= owner.next + 2
      BY <1>1, <1>5
    <3> QED BY <1>1, <2>1, <3>1, Moved
  <2> QED BY <1>1, <2>2
<1> QED BY <1>2, <1>3, <1>4, <1>5 DEF Publish

LEMMA ShapeNext == Shape /\ [Next]_vars => Shape'
<1> SUFFICES ASSUME Shape, [Next]_vars PROVE Shape' OBVIOUS
<1> USE DEF EngineOK
<1>0. /\ EngineOK(owner) /\ EngineOK(follower)
      /\ owner.next \in Nat /\ owner.applied \in Nat /\ owner.applied \in 0 .. Len(log)
      /\ owner.next <= MaxKey /\ follower.next \in Nat /\ follower.applied \in Nat
      /\ Len(log) \in Nat /\ Len(log) <= MaxLog /\ locals \in Nat /\ locals <= MaxLocal
      /\ Held(owner) \subseteq Keys
  <2>1. EngineOK(owner) /\ EngineOK(follower) BY DEF Shape
  <2> QED BY <2>1, EngineFacts
<1>1. ASSUME NEW c \in Command, Propose(c) PROVE Shape'
  <2>1. log' = Append(log, c) /\ Len(log) < MaxLog BY <1>1 DEF Propose
  <2>2. log' \in Seq(Command) /\ Len(log') = Len(log) + 1 BY <2>1 DEF Shape
  <2>3. Len(log') <= MaxLog BY <1>0, <2>1, <2>2, Bounds
  <2>4. owner.applied <= Len(log') /\ follower.applied <= Len(log') BY <1>0, <2>2
  <2> QED BY <1>1, <2>2, <2>3, <2>4 DEF Propose, Shape, Held
<1>2. CASE ProposeCreate BY <1>1, <1>2 DEF ProposeCreate, Command
<1>3. ASSUME NEW k \in Keys, ProposeComplete(k) PROVE Shape'
  BY <1>1, <1>3 DEF ProposeComplete, Command
<1>4. CASE OwnerApply
  <2>1. EngineOK(Applied(owner)) BY <1>0, <1>4, AppliedOne DEF OwnerApply, Advanced
  <2> QED BY <1>4, <2>1 DEF OwnerApply, Shape, Held
<1>5. ASSUME Local, After(owner, owner'), owner'.applied = owner.applied,
             owner'.next <= owner.next + 2, \A k \in Held(owner') : k <= owner'.next
      PROVE  Shape'
  <2>1. locals' = locals + 1 /\ locals < MaxLocal
        /\ UNCHANGED <<setup, log, buffer, frames, follower, tombs>>
    BY <1>5 DEF Local
  <2>2. locals' \in 0 .. MaxLocal BY <1>0, <2>1, Bounds
  <2>3. owner' \in Engines /\ owner'.next \in Nat BY <1>5 DEF After
  <2>4. owner'.next <= owner'.applied + 2 * locals'
    BY <1>0, <1>5, <2>1, <2>3
  <2>5. follower.next <= follower.applied + 2 * locals' BY <1>0, <2>1
  <2> QED BY <1>5, <2>1, <2>2, <2>3, <2>4, <2>5 DEF Shape, Held
<1>51. ASSUME NEW k \in Keys, Cancel(k) \/ Suspend(k) \/ Resume(k) PROVE Shape'
  <2>1. owner'.next <= owner.next + 2 /\ \A x \in Held(owner') : x <= owner'.next
    BY <1>0, <1>51, LocalOne
  <2> QED BY <1>5, <1>51, <2>1, LocalOne
<1>52. CASE Publish BY <1>5, <1>52, PublishOne
<1>6. ASSUME NEW k \in Keys, Export(k) PROVE Shape'
  <2>1. EngineOK(Without(owner, {k})) BY <1>0, WithoutOK
  <2> QED BY <1>6, <2>1 DEF Export, Shape, Held
<1>7. CASE Tick
  <2>1. LowWater \in Nat /\ LowWater <= MaxKey + 1
    <3>1. \A k \in Held(owner) : k \in Nat /\ k <= MaxKey BY <1>0, Bounds
    <3>2. LowWater \in Nat /\ (LowWater = owner.next + 1 \/ LowWater \in Held(owner))
      BY <1>0, MarkBound
    <3> QED BY <1>0, <3>1, <3>2, Bounds
  <2>2. 0 <= MaxKey + 1 BY Bounds
  <2>3. /\ [kind |-> "digest", keys |-> buffer, mark |-> 0, at |-> owner.applied] \in Frames
        /\ [kind |-> "mark", keys |-> {}, mark |-> LowWater, at |-> owner.applied] \in Frames
    BY <1>0, <2>1 DEF Frames, Shape
  <2>4. /\ frames' \subseteq Frames /\ \A f \in frames' : f.mark <= MaxKey + 1
    <3>1. frames \subseteq Frames /\ \A f \in frames : f.mark <= MaxKey + 1 BY DEF Shape
    <3>2. \A f \in frames' :
            \/ f \in frames
            \/ f = [kind |-> "digest", keys |-> buffer, mark |-> 0, at |-> owner.applied]
            \/ f = [kind |-> "mark", keys |-> {}, mark |-> LowWater, at |-> owner.applied]
      BY <1>7 DEF Tick
    <3>3. frames' \subseteq Frames BY <2>3, <3>1, <3>2
    <3>4. \A f \in frames' : f \in frames \/ f.mark = 0 \/ f.mark = LowWater BY <3>2
    <3> QED BY <2>1, <2>2, <3>1, <3>3, <3>4
  <2> QED BY <1>7, <2>4 DEF Tick, Shape, Held
<1>8. CASE FollowerApply
  <2>1. EngineOK(Applied(follower)) BY <1>0, <1>8, AppliedOne DEF FollowerApply, Advanced
  <2>2. EngineOK(follower') BY <1>8, <2>1, WithoutOK DEF FollowerApply
  <2> QED BY <1>8, <2>2 DEF FollowerApply, Shape, Held
<1>9. ASSUME NEW k \in Keys, FollowerEvict(k) PROVE Shape'
  <2>1. EngineOK(Without(follower, {k})) BY <1>0, WithoutOK
  <2> QED BY <1>9, <2>1 DEF FollowerEvict, Shape, Held
<1>10. CASE Install
  <2>1. EngineOK(Without(owner, Held(owner) \ Live(owner))) BY <1>0, WithoutOK
  <2>2. follower' = Without(owner, Held(owner) \ Live(owner)) /\ tombs' = {}
        /\ UNCHANGED <<setup, log, owner, buffer, frames, locals>>
    BY <1>10 DEF Install
  <2>3. EngineOK(follower') BY <2>1, <2>2
  <2> QED BY <2>2, <2>3 DEF Shape, Held
<1>11. ASSUME NEW f \in frames, ReceiveDigest(f) PROVE Shape'
  <2>1. f.keys \subseteq Keys BY DEF Shape, Frames
  <2>2. tombs' \subseteq Keys
    BY <1>11, <2>1 DEF ReceiveDigest, UpTo, kSubset, Shape
  <2>3. EngineOK(follower') BY <1>0, <1>11, WithoutOK DEF ReceiveDigest
  <2> QED BY <1>11, <2>2, <2>3 DEF ReceiveDigest, Receive, Shape, Held
<1>12. ASSUME NEW f \in frames, ReceiveMark(f) PROVE Shape'
  <2>1. tombs' \subseteq Keys BY <1>12 DEF ReceiveMark, Shape
  <2>2. EngineOK(follower') BY <1>0, <1>12, WithoutOK DEF ReceiveMark
  <2> QED BY <1>12, <2>1, <2>2 DEF ReceiveMark, Receive, Shape, Held
<1>13. ASSUME NEW f \in frames, Lose(f) PROVE Shape' BY <1>13 DEF Lose, Shape, Held
<1>14. CASE UNCHANGED vars BY <1>14 DEF vars, Shape, Held
<1> QED BY <1>2, <1>3, <1>4, <1>51, <1>52, <1>6, <1>7, <1>8, <1>9, <1>10, <1>11, <1>12,
           <1>13, <1>14
        DEF Next

-----------------------------------------------------------------------------
(* The cap on tombstones. *)

Capped == Cardinality(tombs) <= MaxTombstones

LEMMA FewerTombs ==
    ASSUME Shape, Capped, NEW S, S \subseteq tombs
    PROVE  Cardinality(S) <= MaxTombstones
<1>1. IsFiniteSet(Keys) BY Bounds, FS_Interval DEF Keys
<1>2. IsFiniteSet(tombs) BY <1>1, FS_Subset DEF Shape
<1>3. Cardinality(S) <= Cardinality(tombs) BY <1>2, FS_Subset
<1>4. IsFiniteSet(S) BY <1>2, FS_Subset
<1>5. Cardinality(S) \in Nat /\ Cardinality(tombs) \in Nat /\ MaxTombstones \in Nat
  BY <1>2, <1>4, FS_CardinalityType, RetireAssumption
<1> QED BY <1>3, <1>5 DEF Capped

LEMMA CappedNext == Shape /\ Capped /\ [Next]_vars => Capped'
<1> SUFFICES ASSUME Shape, Capped, [Next]_vars PROVE Capped' OBVIOUS
<1>1. CASE UNCHANGED tombs BY <1>1 DEF Capped
<1>2. ASSUME tombs' \subseteq tombs PROVE Capped' BY <1>2, FewerTombs DEF Capped
<1>3. ASSUME NEW f \in frames, ReceiveDigest(f) PROVE Capped'
  <2>1. f.keys \subseteq Keys BY DEF Shape, Frames
  <2> DEFINE S == f.keys \ (Held(follower) \cup tombs)
  <2>2. IsFiniteSet(Keys) BY Bounds, FS_Interval DEF Keys
  <2>3. IsFiniteSet(tombs) /\ IsFiniteSet(S) BY <2>1, <2>2, FS_Subset DEF Shape
  <2>4. PICK noted \in UpTo(Room, S) : tombs' = tombs \cup noted
    BY <1>3 DEF ReceiveDigest
  <2>5. noted \subseteq S /\ Cardinality(noted) = Min({Room, Cardinality(S)})
    BY <2>4 DEF UpTo, kSubset
  <2>6. IsFiniteSet(noted) BY <2>3, <2>5, FS_Subset
  <2>7. /\ Cardinality(noted) \in Nat /\ Cardinality(tombs) \in Nat /\ MaxTombstones \in Nat
        /\ Cardinality(S) \in Nat /\ Room \in Nat /\ Room = MaxTombstones - Cardinality(tombs)
    BY <2>3, <2>6, FS_CardinalityType, RetireAssumption DEF Room, Capped
  <2>8. {Room, Cardinality(S)} \in SUBSET Nat BY <2>7
  <2>9. Min({Room, Cardinality(S)}) <= Room BY <2>8, SmallestKey
  <2>10. Cardinality(tombs \cup noted)
            = Cardinality(tombs) + Cardinality(noted) - Cardinality(tombs \cap noted)
    BY <2>3, <2>6, FS_Union
  <2>11. Cardinality(tombs \cap noted) \in Nat
    BY <2>3, FS_Intersection, FS_CardinalityType
  <2> QED BY <2>4, <2>5, <2>7, <2>9, <2>10, <2>11 DEF Capped
<1>4. CASE FollowerApply BY <1>2, <1>4 DEF FollowerApply
<1>5. CASE Install BY <1>2, <1>5 DEF Install
<1>6. ASSUME NEW f \in frames, ReceiveMark(f) PROVE Capped'
  BY <1>2, <1>6 DEF ReceiveMark
<1> QED BY <1>1, <1>3, <1>4, <1>5, <1>6
        DEF Next, vars, ProposeCreate, ProposeComplete, Propose, OwnerApply, Local, Cancel,
            Suspend, Resume, Publish, Export, Tick, FollowerEvict, Lose

\* Engines, frames and tombstones keep their shapes, and however many digests report keys the
\* follower does not hold, apply_retirement_digest remembers no more than the cap allows.
THEOREM TombstonesCapped == Spec => []TypeOK
<1>1. Init => Shape /\ Capped
  <2>1. Init => Cardinality(tombs) = 0 BY FS_EmptySet DEF Init
  <2> QED BY <2>1, ShapeInit, Bounds DEF Capped
<1>2. Shape /\ Capped /\ [Next]_vars => (Shape /\ Capped)' BY ShapeNext, CappedNext
<1>3. Shape /\ Capped => TypeOK
  <2> SUFFICES ASSUME Shape, Capped PROVE TypeOK OBVIOUS
  <2>1. ASSUME NEW e, EngineOK(e) PROVE IsEngine(e)
    <3>1. /\ e.next \in Nat /\ e.next <= MaxKey /\ e.applied \in 0 .. Len(log)
          /\ Held(e) \subseteq Keys /\ \A k \in Held(e) : e.inst[k] \in Inst
      BY <2>1, EngineFacts
    <3> QED BY <3>1, Bounds DEF IsEngine
  <2>2. IsEngine(owner) /\ IsEngine(follower) BY <2>1 DEF Shape
  <2>3. \A i \in DOMAIN log : log[i] \in {Create} \cup {Complete(k) : k \in Keys}
    BY DEF Shape, Command
  <2>4. \A f \in frames : f.keys \subseteq Keys /\ f.mark \in 0 .. MaxKey + 1
    <3>1. \A f \in frames : f.keys \subseteq Keys /\ f.mark \in Nat /\ f.mark <= MaxKey + 1
      BY DEF Shape, Frames
    <3> QED BY <3>1, Bounds
  <2> QED BY <2>2, <2>3, <2>4 DEF TypeOK, Shape, Capped
<1> QED BY <1>1, <1>2, <1>3, PTL DEF Spec

-----------------------------------------------------------------------------
(* Nothing that runs is given up. *)

\* The owner has minted k, and k is over.
Gone(k) == k <= owner.next /\ k \notin Live(owner)

\* A mark at m takes nothing that runs and was never suspended, nor what is yet to be minted.
Below(m) == m <= owner.next + 1 /\ \A k \in Live(owner) \ paused : m <= k

\* The follower must hold instance i under k: the owner runs it there, or has not got so far.
Owed(k, i) ==
    /\ k \notin paused /\ Complete(k) \notin Seen
    /\ k > owner.next \/ (k \in Live(owner) /\ owner.inst[k].id = i)

Kept(k, i) == k \in Live(follower) /\ follower.inst[k].id = i

Ids == 0 .. MaxLog

Safe ==
    /\ \A k \in Held(owner) : owner.inst[k].state \in {"suspended", "drained"} => k \in paused
    /\ \A k \in buffer \cup tombs : Gone(k)
    /\ \A f \in frames : Below(f.mark) /\ \A k \in f.keys : Gone(k)
    /\ \A k \in Keys, i \in Ids : <<k, i>> \in known /\ Owed(k, i) => Kept(k, i)

\* A command on the owner keeps it so: what is over stays over, and new keys are higher.
LEMMA OwnerMoves ==
    ASSUME Shape, Safe, After(owner, owner'), paused \subseteq paused',
           UNCHANGED <<buffer, frames, follower, tombs, known>>, Seen' = Seen,
           \A k \in Held(owner') : owner'.inst[k].state \in {"suspended", "drained"} => k \in paused'
    PROVE  Safe'
<1>1. /\ owner.next \in Nat /\ Held(owner) \subseteq Nat /\ \A k \in Held(owner) : k <= owner.next
  <2>1. EngineOK(owner) BY DEF Shape
  <2> QED BY <2>1, EngineFacts
<1>2. /\ owner.next <= owner'.next /\ owner'.next \in Nat /\ owner' \in Engines
      /\ \A k \in Held(owner') \ Held(owner) : owner.next < k
      /\ \A k \in Held(owner) : owner'.inst[k].id = owner.inst[k].id
      /\ \A k \in Held(owner) : owner.inst[k].state = "ended" => owner'.inst[k].state = "ended"
  BY DEF After
<1>3. Held(owner') \subseteq Nat BY <1>2, EngineShape, Bounds
<1>4. \A k \in Live(owner') : k \in Live(owner) \/ owner.next < k
  BY <1>2 DEF Live
<1>5. ASSUME NEW k \in Nat, Gone(k) PROVE Gone(k)'
  BY <1>1, <1>2, <1>4, <1>5 DEF Gone
<1>6. ASSUME NEW m \in Nat, Below(m) PROVE Below(m)'
  <2>1. m <= owner'.next + 1 BY <1>1, <1>2, <1>6 DEF Below
  <2>2. ASSUME NEW k \in Live(owner)', k \notin paused' PROVE m <= k
    <3>1. k \in Nat BY <1>3, <2>2 DEF Live
    <3>2. CASE k \in Live(owner) BY <1>6, <2>2, <3>2 DEF Below
    <3>3. CASE owner.next < k BY <1>1, <1>6, <3>1, <3>3 DEF Below
    <3> QED BY <1>4, <2>2, <3>2, <3>3
  <2> QED BY <2>1, <2>2 DEF Below
<1>7. ASSUME NEW k \in Keys, NEW i \in Ids, Owed(k, i)' PROVE Owed(k, i)
  <2>1. k \in Nat BY Bounds
  <2>2. k \notin paused /\ Complete(k) \notin Seen BY <1>7 DEF Owed
  <2>3. CASE k > owner'.next BY <1>1, <1>2, <2>1, <2>2, <2>3 DEF Owed
  <2>4. CASE k \in Live(owner') /\ owner'.inst[k].id = i
    <3>1. CASE k \in Live(owner)
      BY <1>2, <2>2, <2>4, <3>1 DEF Owed, Live
    <3>2. CASE owner.next < k BY <1>1, <2>1, <2>2, <3>2 DEF Owed
    <3> QED BY <1>4, <2>4, <3>1, <3>2
  <2>5. k > owner'.next \/ (k \in Live(owner') /\ owner'.inst[k].id = i)
    BY <1>7 DEF Owed, Live, Held
  <2> QED BY <2>3, <2>4, <2>5
<1>8. \A k \in buffer' \cup tombs' : Gone(k)'
  BY <1>5, Bounds DEF Safe, Shape
<1>9. \A f \in frames' : Below(f.mark)' /\ \A k \in f.keys : Gone(k)'
  <2>1. \A f \in frames : f.mark \in Nat /\ f.keys \subseteq Nat BY Bounds DEF Shape, Frames
  <2> QED BY <1>5, <1>6, <2>1 DEF Safe
<1>10. \A k \in Keys, i \in Ids : (<<k, i>> \in known /\ Owed(k, i) => Kept(k, i))'
  BY <1>7 DEF Safe, Kept, Live, Held
<1> QED BY <1>8, <1>9, <1>10 DEF Safe, Gone, Below, Live, Held

\* A step of the follower keeps it so that takes from it only what nobody owes it.
LEMMA FollowerMoves ==
    ASSUME Shape, Safe, UNCHANGED <<owner, buffer, known, paused>>, frames' \subseteq frames,
           \A k \in tombs' : k \in tombs \/ Gone(k), Seen' = Seen,
           \A k \in Keys, i \in Ids : <<k, i>> \in known /\ Owed(k, i) => Kept(k, i)'
    PROVE  Safe'
<1>1. \A k : Gone(k)' <=> Gone(k) BY DEF Gone, Live, Held
<1>2. \A m : Below(m)' <=> Below(m) BY DEF Below, Live, Held
<1>3. \A k, i : Owed(k, i)' <=> Owed(k, i) BY DEF Owed, Live, Held
<1>4. \A k \in buffer' \cup tombs' : Gone(k)' BY <1>1 DEF Safe
<1>5. \A f \in frames' : Below(f.mark)' /\ \A k \in f.keys : Gone(k)' BY <1>1, <1>2 DEF Safe
<1>6. \A k \in Keys, i \in Ids : (<<k, i>> \in known /\ Owed(k, i) => Kept(k, i))' BY <1>3
<1> QED BY <1>4, <1>5, <1>6 DEF Safe, Held

\* What is over, or below a mark, is not owed.
LEMMA NotOwed ==
    ASSUME Shape, Safe, NEW k \in Keys, NEW i \in Ids, Owed(k, i)
    PROVE  ~ Gone(k) /\ \A f \in frames : k \notin f.keys /\ ~ (k < f.mark)
<1>1. owner.next \in Nat /\ k \in Nat
  <2>1. EngineOK(owner) BY DEF Shape
  <2> QED BY <2>1, EngineFacts, Bounds
<1>2. ~ Gone(k) BY <1>1 DEF Owed, Gone
<1>3. ASSUME NEW f \in frames PROVE ~ (k < f.mark)
  <2>1. f.mark \in Nat /\ Below(f.mark) BY DEF Shape, Frames, Safe
  <2>2. CASE k > owner.next BY <1>1, <2>1, <2>2 DEF Below
  <2>3. CASE k \in Live(owner) BY <1>1, <2>1, <2>3 DEF Below, Owed
  <2> QED BY <2>2, <2>3 DEF Owed
<1> QED BY <1>2, <1>3 DEF Safe

LEMMA SafeInit == Init => Safe
BY EmptyOK DEF Init, Safe

LEMMA SafeNext == Shape /\ Safe /\ [Next]_vars => Safe'
<1> SUFFICES ASSUME Shape, Safe, [Next]_vars PROVE Safe' OBVIOUS
<1>0. /\ EngineOK(owner) /\ EngineOK(follower) /\ owner \in Engines /\ follower \in Engines
      /\ owner.next \in Nat /\ owner.applied \in Nat /\ follower.next \in Nat
      /\ follower.applied \in Nat /\ Held(owner) \subseteq Keys /\ Held(follower) \subseteq Keys
      /\ \A k \in Held(owner) : k <= owner.next /\ owner.inst[k] \in Inst
      /\ \A k \in Held(follower) : k <= follower.next
      /\ Len(log) \in Nat /\ follower.applied \in 0 .. Len(log)
  <2>1. EngineOK(owner) /\ EngineOK(follower) BY DEF Shape
  <2> QED BY <2>1, EngineFacts
<1>00. After(owner, owner) BY <1>0 DEF After
<1>1. ASSUME NEW c, Propose(c) PROVE Safe'
  <2>1. log' = Append(log, c)
        /\ UNCHANGED <<owner, buffer, frames, follower, tombs, known, paused>>
    BY <1>1 DEF Propose
  <2>2. \A i \in 1 .. follower.applied : log'[i] = log[i] BY <1>0, <2>1 DEF Shape
  <2>3. Seen' = Seen BY <2>1, <2>2 DEF Seen
  <2> QED BY <2>1, <2>3 DEF Safe, Gone, Below, Owed, Kept, Live, Held
<1>2. CASE ProposeCreate BY <1>1, <1>2 DEF ProposeCreate
<1>3. ASSUME NEW k \in Keys, ProposeComplete(k) PROVE Safe'
  BY <1>1, <1>3 DEF ProposeComplete
<1>4. CASE OwnerApply
  <2>1. Advanced(owner, owner') BY <1>0, <1>4, AppliedOne DEF OwnerApply
  <2>2. UNCHANGED <<log, buffer, frames, follower, tombs, known, paused>>
    BY <1>4 DEF OwnerApply
  <2>3. Seen' = Seen BY <2>2 DEF Seen
  <2>4. \A k \in Held(owner') : owner'.inst[k].state \in {"suspended", "drained"} => k \in paused'
    BY <2>1, <2>2 DEF Advanced, Safe
  <2>5. After(owner, owner') BY <2>1 DEF Advanced
  <2> QED BY <2>2, <2>3, <2>4, <2>5, OwnerMoves
<1>5. ASSUME NEW k \in Keys, Cancel(k) \/ Suspend(k) \/ Resume(k) PROVE Safe'
  <2>1. /\ After(owner, owner') /\ Held(owner') = Held(owner) /\ k \in Held(owner)
        /\ \A x \in Held(owner) \ {k} : owner'.inst[x] = owner.inst[x]
        /\ owner'.inst[k].state \in {"suspended", "drained"} => k \in paused'
        /\ paused \subseteq paused' /\ Local
    BY <1>5, LocalOne
  <2>2. UNCHANGED <<log, buffer, frames, follower, tombs, known>> BY <2>1 DEF Local
  <2>3. Seen' = Seen BY <2>2 DEF Seen
  <2>4. \A x \in Held(owner') : owner'.inst[x].state \in {"suspended", "drained"} => x \in paused'
    BY <2>1 DEF Safe
  <2> QED BY <2>1, <2>2, <2>3, <2>4, OwnerMoves
<1>6. CASE Publish
  <2>1. /\ After(owner, owner') /\ Local /\ paused' = paused
        /\ \A k \in Held(owner') : owner'.inst[k].state \in {"suspended", "drained"} =>
                k \in Held(owner) /\ owner'.inst[k] = owner.inst[k]
    BY <1>6, PublishOne
  <2>2. UNCHANGED <<log, buffer, frames, follower, tombs, known>> BY <2>1 DEF Local
  <2>3. Seen' = Seen BY <2>2 DEF Seen
  <2>4. \A x \in Held(owner') : owner'.inst[x].state \in {"suspended", "drained"} => x \in paused'
    BY <2>1 DEF Safe
  <2> QED BY <2>1, <2>2, <2>3, <2>4, OwnerMoves
<1>7. ASSUME NEW k \in Keys, Export(k) PROVE Safe'
  <2>1. /\ owner' = Without(owner, {k}) /\ buffer' = buffer \cup {k} /\ k \in Held(owner)
        /\ owner.inst[k].state = "ended"
        /\ UNCHANGED <<log, frames, follower, tombs, known, paused>>
    BY <1>7 DEF Export
  <2>2. /\ Held(owner') = Held(owner) \ {k} /\ owner'.next = owner.next
        /\ \A x \in Held(owner) \ {k} : owner'.inst[x] = owner.inst[x]
    BY <1>0, <2>1, WithoutThem
  <2>3. Live(owner') = Live(owner) BY <2>1, <2>2 DEF Live
  <2>4. \A x \in Live(owner) : x \in Held(owner) \ {k} BY <2>1 DEF Live
  <2>5. Gone(k) BY <1>0, <2>1 DEF Gone, Live
  <2>6. \A x : Gone(x)' <=> Gone(x) BY <2>2, <2>3 DEF Gone, Live, Held
  <2>7. \A m : Below(m)' <=> Below(m) BY <2>1, <2>2, <2>3 DEF Below, Live, Held
  <2>8. Seen' = Seen BY <2>1 DEF Seen
  <2>9. \A x, i : Owed(x, i)' <=> Owed(x, i)
    BY <2>1, <2>2, <2>3, <2>4, <2>8 DEF Owed, Live, Held
  <2>10. \A x, i : Kept(x, i)' <=> Kept(x, i) BY <2>1 DEF Kept, Live, Held
  <2>11. \A x \in buffer' \cup tombs' : Gone(x)' BY <2>1, <2>5, <2>6 DEF Safe
  <2>12. \A f \in frames' : Below(f.mark)' /\ \A x \in f.keys : Gone(x)'
    BY <2>1, <2>6, <2>7 DEF Safe
  <2>13. \A x \in Keys, i \in Ids : (<<x, i>> \in known /\ Owed(x, i) => Kept(x, i))'
    BY <2>1, <2>9, <2>10 DEF Safe
  <2>14. \A x \in Held(owner)' : owner'.inst[x].state \in {"suspended", "drained"} => x \in paused'
    BY <2>1, <2>2 DEF Safe, Held
  <2> QED BY <2>11, <2>12, <2>13, <2>14 DEF Safe
<1>8. CASE Tick
  <2>1. UNCHANGED <<log, owner, follower, tombs, known, paused>> /\ buffer' = {} BY <1>8 DEF Tick
  <2>2. Below(LowWater)
    <3>1. /\ LowWater \in Nat /\ (LowWater = owner.next + 1 \/ LowWater \in Held(owner))
          /\ \A k \in Held(owner) : owner.inst[k].state = "active" => LowWater <= k
      BY <1>0, MarkBound
    <3>2. LowWater <= owner.next + 1 BY <1>0, <3>1, Bounds
    <3>3. \A k \in Live(owner) \ paused : k \in Held(owner) /\ owner.inst[k].state = "active"
      BY <1>0 DEF Live, Inst, Safe
    <3> QED BY <3>1, <3>2, <3>3 DEF Below
  <2>3. Below(0) BY <1>0, Bounds DEF Below, Live
  <2>4. ASSUME NEW f \in frames' PROVE Below(f.mark) /\ \A k \in f.keys : Gone(k)
    <3>1. \/ f \in frames
          \/ f = [kind |-> "digest", keys |-> buffer, mark |-> 0, at |-> owner.applied]
          \/ f = [kind |-> "mark", keys |-> {}, mark |-> LowWater, at |-> owner.applied]
      BY <1>8, <2>4 DEF Tick
    <3>2. f \in frames \/ (f.keys = buffer /\ f.mark = 0) \/ (f.keys = {} /\ f.mark = LowWater)
      BY <3>1
    <3> QED BY <2>2, <2>3, <3>2 DEF Safe
  <2>5. Seen' = Seen BY <2>1 DEF Seen
  <2> QED BY <2>1, <2>4, <2>5 DEF Safe, Gone, Below, Owed, Kept, Live, Held
<1>9. CASE FollowerApply
  <2> DEFINE f == Applied(follower)
             created == Held(f) \ Held(follower)
             i == follower.applied + 1
  <2>1. /\ follower' = Without(f, created \cap tombs) /\ tombs' = tombs \ created
        /\ known' = known \cup {<<k, f.applied>> : k \in created}
        /\ follower.applied < Len(log)
        /\ UNCHANGED <<log, owner, buffer, frames, paused>>
    BY <1>9 DEF FollowerApply
  <2>2. Advanced(follower, f) BY <1>0, <2>1, AppliedOne
  <2> HIDE DEF f
  <2>3. /\ f \in Engines /\ f.applied = i /\ created \subseteq {follower.next + 1}
        /\ \A k \in created : f.inst[k] = [id |-> i, state |-> "active"]
        /\ \A k \in Held(follower) : log[i] # Complete(k) => f.inst[k] = follower.inst[k]
        /\ Held(follower) \subseteq Held(f)
    BY <2>2 DEF Advanced, After
  <2>4. /\ Held(follower') = Held(f) \ (created \cap tombs) /\ follower'.applied = i
        /\ \A k \in Held(follower') : follower'.inst[k] = f.inst[k]
    BY <2>1, <2>3, WithoutThem
  <2>5. Seen \subseteq Seen' /\ log[i] \in Seen'
    <3>1. 1 .. follower.applied \subseteq 1 .. i /\ i \in 1 .. i BY <1>0
    <3> QED BY <2>1, <2>4, <3>1 DEF Seen
  <2>6. ASSUME NEW k \in Keys, NEW j \in Ids, <<k, j>> \in known', Owed(k, j)' PROVE Kept(k, j)'
    <3>1. Owed(k, j) BY <2>1, <2>5, <2>6 DEF Owed, Live, Held
    <3>2. k \notin tombs BY <3>1, NotOwed DEF Safe
    <3>3. log[i] # Complete(k) BY <2>5, <2>6 DEF Owed
    <3>4. CASE <<k, j>> \in known
      <4>1. Kept(k, j) BY <3>1, <3>4 DEF Safe
      <4>2. k \in Held(follower) /\ follower.inst[k].state # "ended" /\ follower.inst[k].id = j
        BY <4>1 DEF Kept, Live
      <4>3. k \in Held(follower') /\ follower'.inst[k] = follower.inst[k]
        BY <2>3, <2>4, <3>3, <4>2
      <4> QED BY <4>2, <4>3 DEF Kept, Live, Held
    <3>5. CASE k \in created /\ j = i
      <4>1. k \in Held(follower') BY <2>4, <3>2, <3>5
      <4>2. follower'.inst[k] = [id |-> i, state |-> "active"] BY <2>3, <2>4, <3>5, <4>1
      <4> QED BY <3>5, <4>1, <4>2 DEF Kept, Live, Held
    <3>6. <<k, j>> \in known \/ (k \in created /\ j = i)
      BY <2>1, <2>3, <2>6
    <3> QED BY <3>4, <3>5, <3>6
  <2>7. \A k : Gone(k)' <=> Gone(k) BY <2>1 DEF Gone, Live, Held
  <2>8. \A m : Below(m)' <=> Below(m) BY <2>1 DEF Below, Live, Held
  <2>9. \A k \in buffer' \cup tombs' : Gone(k)' BY <2>1, <2>7 DEF Safe
  <2>10. \A g \in frames' : Below(g.mark)' /\ \A k \in g.keys : Gone(k)'
    BY <2>1, <2>7, <2>8 DEF Safe
  <2>11. \A k \in Keys, j \in Ids : (<<k, j>> \in known /\ Owed(k, j) => Kept(k, j))' BY <2>6
  <2> QED BY <2>1, <2>9, <2>10, <2>11 DEF Safe, Held
<1>10. ASSUME NEW k \in Keys, FollowerEvict(k) PROVE Safe'
  <2>1. /\ follower' = Without(follower, {k}) /\ follower.inst[k].state = "ended"
        /\ UNCHANGED <<log, owner, buffer, frames, tombs, known, paused>>
    BY <1>10 DEF FollowerEvict
  <2>2. /\ Held(follower') = Held(follower) \ {k} /\ follower'.applied = follower.applied
        /\ \A x \in Held(follower) \ {k} : follower'.inst[x] = follower.inst[x]
    BY <1>0, <2>1, WithoutThem
  <2>3. Seen' = Seen BY <2>1, <2>2 DEF Seen
  <2>4. \A x, i : Kept(x, i) => Kept(x, i)' BY <2>1, <2>2 DEF Kept, Live, Held
  <2>5. \A x \in Keys, i \in Ids : <<x, i>> \in known /\ Owed(x, i) => Kept(x, i)'
    BY <2>4 DEF Safe
  <2> QED BY <2>1, <2>3, <2>5, FollowerMoves
<1>11. CASE Install
  <2>1. /\ follower' = Without(owner, Held(owner) \ Live(owner)) /\ tombs' = {}
        /\ known' = {<<k, owner.inst[k].id>> : k \in Live(owner)}
        /\ UNCHANGED <<log, owner, buffer, frames, paused>>
    BY <1>11 DEF Install
  <2>2. /\ Held(follower') = Held(owner) \ (Held(owner) \ Live(owner))
        /\ \A x \in Held(follower') : follower'.inst[x] = owner.inst[x]
    BY <1>0, <2>1, WithoutThem
  <2>3. \A k \in Live(owner) : k \in Held(follower') /\ follower'.inst[k] = owner.inst[k]
                              /\ owner.inst[k].state # "ended"
    BY <2>2 DEF Live
  <2>5. ASSUME NEW k \in Keys, NEW i \in Ids, <<k, i>> \in known' PROVE Kept(k, i)'
    <3>1. k \in Live(owner) /\ i = owner.inst[k].id BY <2>1, <2>5
    <3>2. k \in Held(follower') /\ follower'.inst[k].id = i /\ follower'.inst[k].state # "ended"
      BY <2>3, <3>1
    <3> QED BY <3>2 DEF Kept, Live, Held
  <2> QED BY <2>1, <2>5 DEF Safe, Gone, Below, Live, Held
<1>12. ASSUME NEW f \in frames, NEW S, follower' = Without(follower, S), frames' \subseteq frames,
             \A k \in S : k \in f.keys \/ k < f.mark,
             \A k \in tombs' : k \in tombs \/ k \in f.keys,
             UNCHANGED <<log, owner, buffer, known, paused>>
      PROVE  Safe'
  <2>1. /\ Held(follower') = Held(follower) \ S /\ follower'.applied = follower.applied
        /\ \A x \in Held(follower) \ S : follower'.inst[x] = follower.inst[x]
    BY <1>0, <1>12, WithoutThem
  <2>2. Seen' = Seen BY <1>12, <2>1 DEF Seen
  <2>3. ASSUME NEW k \in Keys, NEW i \in Ids, <<k, i>> \in known, Owed(k, i) PROVE Kept(k, i)'
    <3>1. k \notin S BY <1>12, <2>3, NotOwed
    <3>2. Kept(k, i) BY <2>3 DEF Safe
    <3> QED BY <2>1, <3>1, <3>2 DEF Kept, Live, Held
  <2>4. \A k \in tombs' : k \in tombs \/ Gone(k) BY <1>12 DEF Safe
  <2> QED BY <1>12, <2>2, <2>3, <2>4, FollowerMoves
<1>13. ASSUME NEW f \in frames, ReceiveDigest(f) PROVE Safe'
  <2>1. \A k \in tombs' : k \in tombs \/ k \in f.keys
    BY <1>13 DEF ReceiveDigest, UpTo, kSubset
  <2>2. /\ follower' = Without(follower, f.keys) /\ frames' \subseteq frames
        /\ UNCHANGED <<log, owner, buffer, known, paused>>
    BY <1>13 DEF ReceiveDigest, Receive
  <2> QED BY <1>12, <2>1, <2>2
<1>14. ASSUME NEW f \in frames, ReceiveMark(f) PROVE Safe'
  <2>1. PICK victims \in SUBSET {k \in Held(follower) : k < f.mark} :
            follower' = Without(follower, victims) /\ tombs' \subseteq tombs
    BY <1>14 DEF ReceiveMark, UpTo, kSubset
  <2>2. frames' \subseteq frames /\ UNCHANGED <<log, owner, buffer, known, paused>>
    BY <1>14 DEF ReceiveMark, Receive
  <2> QED BY <1>12, <2>1, <2>2
<1>15. ASSUME NEW f \in frames, Lose(f) PROVE Safe'
  <2>1. frames' \subseteq frames /\ UNCHANGED <<log, owner, buffer, follower, tombs, known, paused>>
    BY <1>15 DEF Lose
  <2>2. Seen' = Seen BY <2>1 DEF Seen
  <2>3. \A k \in Keys, i \in Ids : <<k, i>> \in known /\ Owed(k, i) => Kept(k, i)'
    BY <2>1 DEF Safe, Kept, Live, Held
  <2> QED BY <2>1, <2>2, <2>3, FollowerMoves
<1>16. CASE UNCHANGED vars
  BY <1>16 DEF vars, Safe, Gone, Below, Owed, Kept, Seen, Live, Held
<1> QED BY <1>2, <1>3, <1>4, <1>5, <1>6, <1>7, <1>8, <1>9, <1>10, <1>11, <1>13, <1>14, <1>15,
           <1>16
        DEF Next

\* run_retirement_digest's "safe by construction", for any setting, any number of instances,
\* any cap and any loss, delay and overtaking of frames, with messages published, instances
\* suspended and completions rejected on one side at will: an instance that the follower was
\* given under the owner's key, and that runs on the owner, was never suspended there and is
\* not completed for the follower, is on the follower.
THEOREM RetirementSafe == Spec => []KnownIsKept
<1>1. Init => Shape /\ Safe BY ShapeInit, SafeInit
<1>2. Shape /\ Safe /\ [Next]_vars => (Shape /\ Safe)' BY ShapeNext, SafeNext
<1>3. Shape /\ Safe => KnownIsKept
  <2> SUFFICES ASSUME Shape, Safe, NEW k \in Live(owner), <<k, owner.inst[k].id>> \in known,
                      k \notin paused, Complete(k) \notin Seen
               PROVE  k \in Held(follower) /\ follower.inst[k].id = owner.inst[k].id
    BY DEF KnownIsKept
  <2>1. k \in Keys /\ owner.inst[k].id \in Ids
    <3>1. EngineOK(owner) /\ k \in Held(owner) BY DEF Shape, Live
    <3>2. k \in Keys /\ owner.inst[k] \in Inst BY <3>1, EngineFacts
    <3> QED BY <3>2 DEF Inst, Ids
  <2>2. Owed(k, owner.inst[k].id) BY DEF Owed
  <2>3. Kept(k, owner.inst[k].id) BY <2>1, <2>2 DEF Safe
  <2> QED BY <2>3 DEF Kept, Live
<1> QED BY <1>1, <1>2, <1>3, PTL DEF Spec
=============================================================================
