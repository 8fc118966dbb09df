-------------------------- MODULE ProcessTreeProofs --------------------------
(***************************************************************************)
(* Instances and their call-activity children, for any processes and any   *)
(* number of instances.                                                    *)
(*                                                                         *)
(* The properties speak of the states between commands; the argument is    *)
(* about the steps in between, where a token may wait for nothing but a    *)
(* queued step, and an instance may have run empty but not be completed    *)
(* yet.  Two invariants hold for every process (Base, Driving).  Two more  *)
(* need the shapes of processes the code handles: Ended needs that no step *)
(* is queued beside a terminate end (TerminateAlone), Working also that no *)
(* work is left to reach after a call activity of a process whose tasks    *)
(* have canceling listeners (QuietAfterCalls).                             *)
(***************************************************************************)
EXTENDS ProcessTree, FiniteSetTheorems, SequenceTheorems, FunctionTheorems, TLAPS

Calls == {e \in Elements : Kind[e] = "call"}
Timed == {e \in Calls : Boundary[e] # NoElement}
Queued == ToSet(queue)

\* Jobs and user tasks belong to tasks; timers, incidents and children to call activities.
Kinded ==
    /\ \A k \in Keys :
        /\ instance[k].timers \subseteq Timed /\ instance[k].incidents \subseteq Calls
        /\ instance[k].parent # NoKey => instance[k].call \in Calls
        /\ \A e \in Elements : instance[k].work[e] # "None" => Kind[e] \in {"task", "user"}
    /\ \A s \in Queued :
        s.op \in {"CompleteCallActivity", "RetryCallActivitySpawn"} => s.elem \in Calls

\* Keys are not minted twice.
Fresh == \A k \in Keys : k >= next_key => instance[k].state = "None"

\* An instance that has run empty is one the drain will look at.
Looked ==
    \A k \in Keys : instance[k].state = "Active" /\ instance[k].active = {} => k \in touched

\* Steps and what they wait on belong to instances there are.
Known ==
    /\ \A s \in Queued : instance[s.key].state # "None"
    /\ \A k \in Keys : instance[k].state = "None" =>
          /\ instance[k].active = {} /\ instance[k].timers = {} /\ instance[k].incidents = {}
          /\ \A e \in Elements : instance[k].work[e] = "None"

Base == TypeOK /\ Kinded /\ Fresh /\ Looked /\ Known

-----------------------------------------------------------------------------
(* The queue.                                                              *)

LEMMA EmptyQueue == << >> \in Seq(Steps) /\ ToSet(<< >>) = {} /\ Len(<< >>) = 0
BY DEF ToSet

\* The head of the queue and the rest.
LEMMA HeadTail ==
    ASSUME NEW q \in Seq(Steps), q # << >>
    PROVE  /\ Head(q) \in Steps /\ Tail(q) \in Seq(Steps)
           /\ Len(q) \in Nat /\ Len(Tail(q)) = Len(q) - 1
           /\ ToSet(q) = {Head(q)} \cup ToSet(Tail(q))
           /\ Len(q) = 1 => ToSet(Tail(q)) = {}
<1>1. /\ Tail(q) \in Seq(Steps) /\ Len(Tail(q)) = Len(q) - 1 /\ Len(q) \in Nat /\ Len(q) >= 1
      /\ Head(q) = q[1] /\ Head(q) \in Steps
      /\ DOMAIN q = 1 .. Len(q) /\ DOMAIN Tail(q) = 1 .. Len(q) - 1
      /\ \A i \in 1 .. Len(q) - 1 : Tail(q)[i] = q[i + 1]
  OBVIOUS
<1>2. ToSet(q) \subseteq {Head(q)} \cup ToSet(Tail(q))
  <2> SUFFICES ASSUME NEW i \in 1 .. Len(q), i # 1
               PROVE  q[i] \in ToSet(Tail(q))
    BY <1>1 DEF ToSet
  <2>1. i - 1 \in 1 .. Len(q) - 1 /\ Tail(q)[i - 1] = q[i] BY <1>1
  <2> QED BY <1>1, <2>1 DEF ToSet
<1>3. {Head(q)} \cup ToSet(Tail(q)) \subseteq ToSet(q)
  <2>1. \A i \in 1 .. Len(q) - 1 : i + 1 \in 1 .. Len(q) BY <1>1
  <2>2. 1 \in 1 .. Len(q) BY <1>1
  <2> QED BY <1>1, <2>1, <2>2 DEF ToSet
<1>4. Len(q) = 1 => ToSet(Tail(q)) = {} BY <1>1 DEF ToSet
<1> QED BY <1>1, <1>2, <1>3, <1>4

\* Steps put at the end of a queue.
LEMMA Concatenated ==
    ASSUME NEW q \in Seq(Steps), NEW r \in Seq(Steps)
    PROVE  /\ q \o r \in Seq(Steps) /\ Len(q \o r) = Len(q) + Len(r)
           /\ ToSet(q \o r) = ToSet(q) \cup ToSet(r)
<1>1. /\ q \o r \in Seq(Steps) /\ Len(q \o r) = Len(q) + Len(r)
      /\ Len(q) \in Nat /\ Len(r) \in Nat
      /\ DOMAIN q = 1 .. Len(q) /\ DOMAIN r = 1 .. Len(r) /\ DOMAIN (q \o r) = 1 .. Len(q) + Len(r)
      /\ \A i \in 1 .. Len(q) + Len(r) :
            (q \o r)[i] = IF i <= Len(q) THEN q[i] ELSE r[i - Len(q)]
  OBVIOUS
<1>2. ToSet(q \o r) \subseteq ToSet(q) \cup ToSet(r)
  <2> SUFFICES ASSUME NEW i \in 1 .. Len(q) + Len(r)
               PROVE  (q \o r)[i] \in ToSet(q) \cup ToSet(r)
    BY <1>1 DEF ToSet
  <2>1. CASE i <= Len(q) BY <1>1, <2>1 DEF ToSet
  <2>2. CASE i > Len(q)
    <3>1. i - Len(q) \in 1 .. Len(r) /\ (q \o r)[i] = r[i - Len(q)] BY <1>1, <2>2
    <3> QED BY <1>1, <3>1 DEF ToSet
  <2> QED BY <1>1, <2>1, <2>2
<1>3. ToSet(q) \subseteq ToSet(q \o r)
  BY <1>1 DEF ToSet
<1>4. ToSet(r) \subseteq ToSet(q \o r)
  <2> SUFFICES ASSUME NEW i \in 1 .. Len(r) PROVE r[i] \in ToSet(q \o r)
    BY <1>1 DEF ToSet
  <2>1. i + Len(q) \in 1 .. Len(q) + Len(r) /\ (q \o r)[i + Len(q)] = r[i] BY <1>1
  <2> QED BY <1>1, <2>1 DEF ToSet
<1> QED BY <1>1, <1>2, <1>3, <1>4

LEMMA Appended ==
    ASSUME NEW q \in Seq(Steps), NEW s \in Steps
    PROVE  /\ Append(q, s) \in Seq(Steps) /\ Len(Append(q, s)) = Len(q) + 1
           /\ ToSet(Append(q, s)) = ToSet(q) \cup {s}
<1>1. Append(q, s) = q \o <<s>> /\ <<s>> \in Seq(Steps) /\ Len(<<s>>) = 1 OBVIOUS
<1>2. ToSet(<<s>>) = {s} BY DEF ToSet
<1> QED BY <1>1, <1>2, Concatenated

\* A queue of one step.
LEMMA OneStep ==
    ASSUME NEW s \in Steps
    PROVE  <<s>> \in Seq(Steps) /\ Len(<<s>>) = 1 /\ ToSet(<<s>>) = {s}
BY DEF ToSet

\* The activations along the outgoing flows.
LEMMA AllActivated ==
    ASSUME NEW k \in Keys, NEW e \in Elements
    PROVE  /\ ActivateAll(k, e) \in Seq(Steps) /\ Len(ActivateAll(k, e)) = Len(Flows[e])
           /\ ToSet(ActivateAll(k, e)) = {Step("Activate", k, f) : f \in ToSet(Flows[e])}
           /\ ToSet(Flows[e]) \subseteq Elements
<1>1. Flows[e] \in Seq(Elements) BY TreeAssumption
<1>2. /\ Len(Flows[e]) \in Nat /\ DOMAIN Flows[e] = 1 .. Len(Flows[e])
      /\ \A n \in 1 .. Len(Flows[e]) : Flows[e][n] \in Elements
  BY <1>1
<1>3. \A f \in Elements : Step("Activate", k, f) \in Steps BY DEF Step, Steps
<1>4. ActivateAll(k, e) \in [1 .. Len(Flows[e]) -> Steps] BY <1>2, <1>3 DEF ActivateAll
<1>5. /\ ActivateAll(k, e) \in Seq(Steps) /\ Len(ActivateAll(k, e)) = Len(Flows[e])
      /\ DOMAIN ActivateAll(k, e) = 1 .. Len(Flows[e])
  BY <1>2, <1>4, IsASeq, LenProperties
<1>6. \A n \in 1 .. Len(Flows[e]) : ActivateAll(k, e)[n] = Step("Activate", k, Flows[e][n])
  BY DEF ActivateAll
<1> QED BY <1>2, <1>5, <1>6 DEF ToSet

\* The step that releases the parent of k.
LEMMA Released ==
    ASSUME TypeOK, NEW k \in Keys
    PROVE  LET p == instance[k].parent
               c == instance[k].call
               s == call_activity_completion_step(k)
           IN  /\ s \in Seq(Steps)
               /\ p # NoKey /\ c \in instance[p].active =>
                     s = <<Step("CompleteCallActivity", p, c)>> /\ p \in Keys /\ c \in Elements
                     /\ Step("CompleteCallActivity", p, c) \in Steps
               /\ ~(p # NoKey /\ c \in instance[p].active) => s = << >>
<1> DEFINE p == instance[k].parent
           c == instance[k].call
<1>1. instance[k] \in InstanceRecord /\ p \in Keys \cup {NoKey} BY DEF TypeOK, InstanceRecord
<1>2. CASE p # NoKey /\ c \in instance[p].active
  <2>1. p \in Keys BY <1>1, <1>2
  <2>2. instance[p].active \subseteq Elements BY <2>1 DEF TypeOK, InstanceRecord
  <2>3. c \in Elements BY <1>2, <2>2
  <2>4. Step("CompleteCallActivity", p, c) \in Steps BY <2>1, <2>3 DEF Step, Steps
  <2>5. call_activity_completion_step(k) = <<Step("CompleteCallActivity", p, c)>>
    BY <1>2 DEF call_activity_completion_step
  <2> QED BY <1>2, <2>1, <2>3, <2>4, <2>5, OneStep
<1>3. CASE ~(p # NoKey /\ c \in instance[p].active)
  <2>1. call_activity_completion_step(k) = << >> BY <1>3 DEF call_activity_completion_step
  <2> QED BY <1>3, <2>1, EmptyQueue
<1> QED BY <1>2, <1>3

\* InKeyOrder enumerates a set of keys.
LEMMA KeyOrder ==
    ASSUME NEW S \in SUBSET Keys
    PROVE  /\ Cardinality(S) \in Nat
           /\ InKeyOrder(S) \in [1 .. Cardinality(S) -> S]
           /\ \A k \in S : \E n \in 1 .. Cardinality(S) : InKeyOrder(S)[n] = k
<1> DEFINE Below(k) == {j \in S : j <= k}
           rank == [k \in S |-> Cardinality(Below(k))]
<1>0. Keys \subseteq Nat /\ IsFiniteSet(Keys) BY TreeAssumption, FS_Interval DEF Keys
<1>1. IsFiniteSet(S) /\ Cardinality(S) \in Nat BY <1>0, FS_Subset, FS_CardinalityType
<1>2. ASSUME NEW k \in S
      PROVE  IsFiniteSet(Below(k)) /\ Cardinality(Below(k)) \in 1 .. Cardinality(S)
  <2>1. IsFiniteSet(Below(k)) /\ Cardinality(Below(k)) \in Nat
        /\ Cardinality(Below(k)) <= Cardinality(S)
    BY <1>1, FS_Subset, FS_CardinalityType
  <2>2. k \in Below(k) BY <1>0
  <2>3. Cardinality(Below(k)) # 0 BY <2>1, <2>2, FS_EmptySet
  <2> QED BY <2>1, <2>3, <1>1
<1>3. ASSUME NEW k \in S, NEW l \in S, k < l
      PROVE  Cardinality(Below(k)) # Cardinality(Below(l))
  <2>0. \A j \in S : j <= k => j <= l BY <1>0, <1>3
  <2>1. Below(k) \in SUBSET Below(l) BY <2>0
  <2>2. l \in Below(l) /\ l \notin Below(k) BY <1>0, <1>3
  <2>3. IsFiniteSet(Below(l)) BY <1>2
  <2> QED BY <2>1, <2>2, <2>3, FS_Subset
<1>4. \A k, l \in S : Cardinality(Below(k)) = Cardinality(Below(l)) => k = l
  <2> SUFFICES ASSUME NEW k \in S, NEW l \in S, k # l
               PROVE  Cardinality(Below(k)) # Cardinality(Below(l))
    OBVIOUS
  <2>1. k < l \/ l < k BY <1>0
  <2> QED BY <1>3, <2>1
<1>5. rank \in Injection(S, 1 .. Cardinality(S))
  <2>1. rank \in [S -> 1 .. Cardinality(S)] BY <1>2
  <2>2. \A k, l \in S : rank[k] = rank[l] => k = l BY <1>4
  <2> HIDE DEF rank
  <2> QED BY <2>1, <2>2 DEF Injection, IsInjective
<1>6. rank \in Surjection(S, 1 .. Cardinality(S))
  <2>1. IsFiniteSet(1 .. Cardinality(S)) /\ Cardinality(1 .. Cardinality(S)) = Cardinality(S)
    BY <1>1, FS_Interval
  <2> HIDE DEF rank
  <2> QED BY <1>5, <2>1, FS_Injection
<1>7. \A n \in 1 .. Cardinality(S) : \E k \in S : Cardinality(Below(k)) = n
  <2>1. \A n \in 1 .. Cardinality(S) : \E k \in S : rank[k] = n
    <3> HIDE DEF rank
    <3> QED BY <1>6 DEF Surjection
  <2> QED BY <2>1
<1>8. \A n \in 1 .. Cardinality(S) :
         InKeyOrder(S)[n] \in S /\ Cardinality(Below(InKeyOrder(S)[n])) = n
  BY <1>7 DEF InKeyOrder
<1>9. \A k \in S : InKeyOrder(S)[Cardinality(Below(k))] = k
  BY <1>2, <1>4, <1>8
<1>10. InKeyOrder(S) \in [1 .. Cardinality(S) -> S] BY <1>8 DEF InKeyOrder
<1> QED BY <1>1, <1>2, <1>9, <1>10

-----------------------------------------------------------------------------
(* The appliers.                                                           *)

\* An element is entered.
LEMMA RecActivated ==
    ASSUME NEW r \in InstanceRecord, NEW e \in Elements
    PROVE  LET q == ElementActivated(r, e)
           IN  /\ q \in InstanceRecord
               /\ q.state = r.state /\ q.process = r.process /\ q.parent = r.parent /\ q.call = r.call
               /\ q.active = r.active \cup {e} /\ q.work = r.work
               /\ q.timers = r.timers /\ q.incidents = r.incidents
BY DEF ElementActivated, InstanceRecord

\* An element is left.
LEMMA RecCompleted ==
    ASSUME NEW r \in InstanceRecord, NEW e \in Elements
    PROVE  LET q == ElementCompleted(r, e)
           IN  /\ q \in InstanceRecord
               /\ q.state = r.state /\ q.process = r.process /\ q.parent = r.parent /\ q.call = r.call
               /\ q.active = r.active \ {e} /\ q.work = r.work
               /\ q.timers = r.timers \ {e} /\ q.incidents = r.incidents
BY DEF ElementCompleted, InstanceRecord

\* An instance completes.
LEMMA RecOver ==
    ASSUME NEW r \in InstanceRecord
    PROVE  LET q == ProcessInstanceCompleted(r)
           IN  /\ q \in InstanceRecord
               /\ q.state = "Completed" /\ q.process = r.process /\ q.parent = r.parent /\ q.call = r.call
               /\ q.active = {} /\ q.work = r.work
               /\ q.timers = r.timers /\ q.incidents = r.incidents
BY DEF ProcessInstanceCompleted, InstanceRecord, States

\* An instance is terminated.
LEMMA RecTerminated ==
    ASSUME NEW r \in InstanceRecord
    PROVE  LET q == ProcessInstanceTerminated(r)
           IN  /\ q \in InstanceRecord
               /\ q.state = "Terminated" /\ q.process = r.process /\ q.parent = r.parent /\ q.call = r.call
               /\ q.active = {} /\ q.work = r.work
               /\ q.timers = r.timers /\ q.incidents = {}
BY DEF ProcessInstanceTerminated, InstanceRecord, States

\* What the tokens of an instance wait on is canceled.
LEMMA RecDiscarded ==
    ASSUME NEW r \in InstanceRecord
    PROVE  LET q == DiscardTokens(r)
           IN  /\ q \in InstanceRecord
               /\ q.state = r.state /\ q.process = r.process /\ q.parent = r.parent /\ q.call = r.call
               /\ q.active = r.active /\ q.work = [e \in Elements |-> IF r.work[e] \in Open THEN "Canceled" ELSE r.work[e]]
               /\ q.timers = {} /\ q.incidents = r.incidents
BY DEF DiscardTokens, InstanceRecord, Works, Open

\* The state of an instance changes.
LEMMA RecState ==
    ASSUME NEW r \in InstanceRecord, NEW st \in States
    PROVE  LET q == [r EXCEPT !.state = st]
           IN  /\ q \in InstanceRecord
               /\ q.state = st /\ q.process = r.process /\ q.parent = r.parent /\ q.call = r.call
               /\ q.active = r.active /\ q.work = r.work
               /\ q.timers = r.timers /\ q.incidents = r.incidents
BY DEF InstanceRecord

\* A job or user task changes.
LEMMA RecWork ==
    ASSUME NEW r \in InstanceRecord, NEW e \in Elements, NEW w \in Works
    PROVE  LET q == [r EXCEPT !.work[e] = w]
           IN  /\ q \in InstanceRecord
               /\ q.state = r.state /\ q.process = r.process /\ q.parent = r.parent /\ q.call = r.call
               /\ q.active = r.active /\ q.work = [r.work EXCEPT ![e] = w]
               /\ q.timers = r.timers /\ q.incidents = r.incidents
BY DEF InstanceRecord

\* The jobs and user tasks change.
LEMMA RecWorks ==
    ASSUME NEW r \in InstanceRecord, NEW w \in [Elements -> Works]
    PROVE  LET q == [r EXCEPT !.work = w]
           IN  /\ q \in InstanceRecord
               /\ q.state = r.state /\ q.process = r.process /\ q.parent = r.parent /\ q.call = r.call
               /\ q.active = r.active /\ q.work = w
               /\ q.timers = r.timers /\ q.incidents = r.incidents
BY DEF InstanceRecord

\* The incidents change.
LEMMA RecIncidents ==
    ASSUME NEW r \in InstanceRecord, NEW S \in SUBSET Elements
    PROVE  LET q == [r EXCEPT !.incidents = S]
           IN  /\ q \in InstanceRecord
               /\ q.state = r.state /\ q.process = r.process /\ q.parent = r.parent /\ q.call = r.call
               /\ q.active = r.active /\ q.work = r.work
               /\ q.timers = r.timers /\ q.incidents = S
BY DEF InstanceRecord

\* The timers change.
LEMMA RecTimers ==
    ASSUME NEW r \in InstanceRecord, NEW S \in SUBSET Elements
    PROVE  LET q == [r EXCEPT !.timers = S]
           IN  /\ q \in InstanceRecord
               /\ q.state = r.state /\ q.process = r.process /\ q.parent = r.parent /\ q.call = r.call
               /\ q.active = r.active /\ q.work = r.work
               /\ q.timers = S /\ q.incidents = r.incidents
BY DEF InstanceRecord

\* Terminated with all it waits on.
LEMMA RecReaped ==
    ASSUME NEW r \in InstanceRecord
    PROVE  LET q == DiscardAndTerminate(r)
           IN  /\ q \in InstanceRecord
               /\ q.state = "Terminated" /\ q.process = r.process /\ q.parent = r.parent /\ q.call = r.call
               /\ q.active = {} /\ q.timers = {} /\ q.incidents = {}
               /\ q.work = [e \in Elements |-> IF r.work[e] \in Open THEN "Canceled" ELSE r.work[e]]
BY RecDiscarded, RecTerminated DEF DiscardAndTerminate

\* A new instance.
LEMMA RecCreated ==
    ASSUME NEW p \in Processes, NEW parent \in Keys \cup {NoKey}, NEW call \in Elements \cup {NoElement}
    PROVE  LET q == ProcessInstanceCreated(p, parent, call)
           IN  /\ q \in InstanceRecord
               /\ q.state = "Active" /\ q.process = p /\ q.parent = parent /\ q.call = call
               /\ q.active = {} /\ q.timers = {} /\ q.incidents = {}
               /\ q.work = [e \in Elements |-> "None"]
BY DEF ProcessInstanceCreated, InstanceRecord, States, Works

-----------------------------------------------------------------------------
(* What holds for every process.                                           *)

\* The parts of an instance, and the step at the head of the queue.
LEMMA Parts ==
    ASSUME TypeOK, NEW k \in Keys
    PROVE  /\ instance[k] \in InstanceRecord /\ instance[k].state \in States
           /\ instance[k].active \subseteq Elements /\ instance[k].timers \subseteq Elements
           /\ instance[k].incidents \subseteq Elements
           /\ instance[k].work \in [Elements -> Works]
           /\ instance[k].parent \in Keys \cup {NoKey}
           /\ instance[k].call \in Elements \cup {NoElement}
           /\ instance[k].process \in Processes
BY DEF TypeOK, InstanceRecord

LEMMA AtHead ==
    ASSUME TypeOK, queue # << >>
    PROVE  /\ Head(queue) \in Steps /\ Head(queue).key \in Keys /\ Head(queue).elem \in Elements
           /\ Tail(queue) \in Seq(Steps) /\ Len(queue) \in Nat /\ Len(Tail(queue)) = Len(queue) - 1
           /\ Queued = {Head(queue)} \cup ToSet(Tail(queue))
           /\ Len(queue) = 1 => ToSet(Tail(queue)) = {}
<1>1. queue \in Seq(Steps) BY DEF TypeOK
<1>2. \A s \in Steps : s.key \in Keys /\ s.elem \in Elements BY DEF Steps
<1> QED BY <1>1, <1>2, HeadTail DEF Queued

LEMMA AtStep ==
    ASSUME NEW k \in Keys, NEW e \in Elements,
           NEW op \in {"Activate", "Complete", "CompleteCallActivity", "RetryCallActivitySpawn"}
    PROVE  /\ Step(op, k, e) \in Steps /\ Step(op, k, e).op = op
           /\ Step(op, k, e).key = k /\ Step(op, k, e).elem = e
BY DEF Step, Steps

\* One instance changes.
LEMMA BaseOne ==
    ASSUME Base, NEW k \in Keys, NEW r \in InstanceRecord,
           instance' = [instance EXCEPT ![k] = r],
           r.timers \subseteq Timed, r.incidents \subseteq Calls,
           r.parent = instance[k].parent, r.call = instance[k].call,
           \A e \in Elements : r.work[e] # "None" => Kind[e] \in {"task", "user"},
           instance[k].state # "None", r.state # "None",
           touched \subseteq touched', touched' \subseteq Keys, ended' \subseteq Keys,
           k \in touched' \/ (r.state = instance[k].state /\ r.active = instance[k].active),
           due' \subseteq Keys \X Elements, queue' \in Seq(Steps),
           \A s \in Queued' :
              \/ s \in Queued
              \/ /\ s.key \in Keys /\ instance[s.key].state # "None"
                 /\ s.op \in {"CompleteCallActivity", "RetryCallActivitySpawn"} => s.elem \in Calls,
           UNCHANGED <<deployed, next_key>>
    PROVE  Base'
<1>0. TypeOK /\ Kinded /\ Fresh /\ Looked /\ Known BY DEF Base
<1>1. /\ instance' \in [Keys -> InstanceRecord] /\ instance'[k] = r
      /\ \A i \in Keys : i # k => instance'[i] = instance[i]
  BY <1>0 DEF TypeOK
<1>2. TypeOK' BY <1>0, <1>1 DEF TypeOK
<1>3. Kinded' BY <1>0, <1>1 DEF Kinded
<1>4. Fresh' BY <1>0, <1>1 DEF Fresh
<1>5. Looked' BY <1>0, <1>1 DEF Looked
<1>6. Known'
  <2>0. \A s \in Queued : s.key \in Keys
    <3>1. queue \in Seq(Steps) BY <1>0 DEF TypeOK
    <3>2. Queued \subseteq Steps BY <3>1 DEF Queued, ToSet
    <3> QED BY <3>2 DEF Steps
  <2>1. \A i \in Keys : instance[i].state # "None" => instance'[i].state # "None" BY <1>1
  <2>2. \A s \in Queued' : instance'[s.key].state # "None" BY <1>0, <2>0, <2>1 DEF Known
  <2> QED BY <1>0, <1>1, <2>2 DEF Known
<1> QED BY <1>2, <1>3, <1>4, <1>5, <1>6 DEF Base

\* No instance changes, and no step is queued.
LEMMA BaseQuiet ==
    ASSUME Base, instance' = instance, next_key' = next_key, deployed' \subseteq Processes,
           due' \subseteq Keys \X Elements, queue' \in Seq(Steps), Queued' \subseteq Queued,
           touched' \subseteq Keys, ended' \subseteq Keys,
           \A k \in Keys : instance[k].state = "Active" /\ instance[k].active = {} => k \in touched'
    PROVE  Base'
<1>1. TypeOK' BY DEF Base, TypeOK
<1>2. Kinded' BY DEF Base, Kinded
<1>3. Fresh' BY DEF Base, Fresh
<1>4. Looked' BY DEF Looked
<1>5. Known' BY DEF Base, Known
<1> QED BY <1>1, <1>2, <1>3, <1>4, <1>5 DEF Base

\* An instance is created for the key next_key, perhaps from the call activity of another.
LEMMA BaseCreated ==
    ASSUME Base, NEW p \in Processes, NEW parent \in Keys \cup {NoKey},
           NEW call \in Elements \cup {NoElement},
           NEW k \in Keys, NEW r \in InstanceRecord,
           parent = NoKey => r = instance[k],
           parent # NoKey => /\ parent = k /\ call \in Calls /\ instance[k].state # "None"
                             /\ r.state = instance[k].state
                             /\ r.timers \subseteq Timed /\ r.incidents \subseteq Calls
                             /\ r.parent = instance[k].parent /\ r.call = instance[k].call
                             /\ r.work = instance[k].work,
           next_key \in Keys,
           instance' = [instance EXCEPT ![k] = r,
                                        ![next_key] = ProcessInstanceCreated(p, parent, call)],
           next_key' = next_key + 1, deployed' = deployed, due' = due, ended' = ended,
           touched \subseteq touched', touched' \subseteq Keys, next_key \in touched',
           parent # NoKey => k \in touched',
           queue' \in Seq(Steps),
           \A s \in Queued' : s \in Queued \/ (s.op = "Activate" /\ s.key = next_key)
    PROVE  Base' /\ (parent # NoKey => k # next_key)
<1>0. TypeOK /\ Kinded /\ Fresh /\ Looked /\ Known BY DEF Base
<1> DEFINE c == ProcessInstanceCreated(p, parent, call)
<1>a. /\ c \in InstanceRecord /\ c.state = "Active" /\ c.parent = parent /\ c.call = call
      /\ c.active = {} /\ c.timers = {} /\ c.incidents = {} /\ \A e \in Elements : c.work[e] = "None"
  <2>1. /\ c \in InstanceRecord /\ c.state = "Active" /\ c.parent = parent /\ c.call = call
        /\ c.active = {} /\ c.timers = {} /\ c.incidents = {} /\ c.work = [e \in Elements |-> "None"]
    BY DEF ProcessInstanceCreated, InstanceRecord, States, Works
  <2> QED BY <2>1
<1> HIDE DEF c
<1>b. instance[next_key].state = "None" BY <1>0, TreeAssumption DEF Fresh, Keys
<1>c. parent # NoKey => k # next_key BY <1>b
<1>d. instance' = [instance EXCEPT ![k] = r, ![next_key] = c] BY DEF c
<1>1. /\ instance' \in [Keys -> InstanceRecord] /\ instance'[next_key] = c
      /\ \A i \in Keys : i # next_key =>
            instance'[i] = instance[i] \/ (i = k /\ parent # NoKey /\ instance'[k] = r)
  <2>1. /\ instance' \in [Keys -> InstanceRecord] /\ instance'[next_key] = c
        /\ \A i \in Keys : i # next_key => instance'[i] = IF i = k THEN r ELSE instance[i]
    BY <1>0, <1>a, <1>d DEF TypeOK
  <2> QED BY <2>1
<1>2. TypeOK'
  <2>1. next_key' \in 1 .. MaxKey + 1 BY <1>0, TreeAssumption DEF Keys
  <2> QED BY <1>0, <1>1, <2>1 DEF TypeOK
<1>3. Kinded' BY <1>0, <1>1, <1>a, <1>c DEF Kinded
<1>4. Fresh'
  <2> SUFFICES ASSUME NEW i \in Keys, i >= next_key + 1 PROVE instance'[i].state = "None"
    BY DEF Fresh
  <2>1. i # next_key /\ i >= next_key BY TreeAssumption DEF Keys
  <2>2. instance[i].state = "None" BY <1>0, <2>1 DEF Fresh
  <2> QED BY <1>1, <2>1, <2>2
<1>5. Looked'
  <2> SUFFICES ASSUME NEW i \in Keys, instance'[i].state = "Active" /\ instance'[i].active = {}
               PROVE  i \in touched'
    BY DEF Looked
  <2>1. CASE i = next_key BY <2>1
  <2>2. CASE i # next_key BY <1>0, <1>1, <2>2 DEF Looked
  <2> QED BY <2>1, <2>2
<1>6. Known'
  <2>0. \A s \in Queued : s.key \in Keys
    <3>1. queue \in Seq(Steps) BY <1>0 DEF TypeOK
    <3>2. Queued \subseteq Steps BY <3>1 DEF Queued, ToSet
    <3> QED BY <3>2 DEF Steps
  <2>1. \A i \in Keys : instance[i].state # "None" => instance'[i].state # "None"
    BY <1>1, <1>b, <1>a
  <2>2. \A s \in Queued' : instance'[s.key].state # "None" BY <1>0, <1>1, <1>a, <2>0, <2>1 DEF Known
  <2>3. \A i \in Keys : instance'[i].state = "None" =>
          /\ instance'[i].active = {} /\ instance'[i].timers = {} /\ instance'[i].incidents = {}
          /\ \A e \in Elements : instance'[i].work[e] = "None"
    BY <1>0, <1>1, <1>a, <2>1 DEF Known
  <2> QED BY <2>2, <2>3 DEF Known
<1> QED BY <1>2, <1>3, <1>4, <1>5, <1>6, <1>c DEF Base

Failed(r, e) == [r EXCEPT !.incidents = @ \cup {e}]

\* spawn_call_activity_instance: an incident, or a child under a key not used before.
LEMMA BaseSpawn ==
    ASSUME Base, NEW k \in Keys, NEW r \in InstanceRecord, NEW e \in Calls, NEW rest \in Seq(Steps),
           ToSet(rest) \subseteq Queued, instance[k].state # "None",
           r.state = instance[k].state, r.timers \subseteq Timed, r.incidents = instance[k].incidents,
           r.parent = instance[k].parent, r.call = instance[k].call, r.work = instance[k].work,
           SpawnChild(k, r, e, rest), UNCHANGED <<deployed, due, ended>>
    PROVE  /\ Base'
           /\ \/ /\ instance'[k] = Failed(r, e) /\ Failed(r, e) \in InstanceRecord
                 /\ \A i \in Keys : i # k => instance'[i] = instance[i]
                 /\ queue' = rest
              \/ /\ next_key \in Keys /\ k # next_key /\ instance[next_key].state = "None"
                 /\ instance'[k] = r
                 /\ instance'[next_key] = ProcessInstanceCreated(Callee[e], k, e)
                 /\ \A i \in Keys : i # k /\ i # next_key => instance'[i] = instance[i]
                 /\ Step("Activate", next_key, StartEvent[Callee[e]]) \in Steps
                 /\ queue' = Append(rest, Step("Activate", next_key, StartEvent[Callee[e]]))
<1>0. TypeOK /\ Kinded /\ Fresh BY DEF Base
<1>e. e \in Elements BY DEF Calls
<1>1. CASE TooDeep(k) \/ Callee[e] \notin deployed
  <2> DEFINE q == Failed(r, e)
  <2>1. /\ instance' = [instance EXCEPT ![k] = q] /\ queue' = rest
        /\ touched' = touched \cup {k} /\ next_key' = next_key
    BY <1>1 DEF SpawnChild, Failed
  <2>2. /\ q \in InstanceRecord /\ q.state = r.state /\ q.timers = r.timers /\ q.work = r.work
        /\ q.incidents = r.incidents \cup {e} /\ q.parent = r.parent /\ q.call = r.call
    BY <1>e DEF InstanceRecord, Failed
  <2> HIDE DEF q
  <2>3. /\ q.timers \subseteq Timed /\ q.incidents \subseteq Calls
        /\ \A f \in Elements : q.work[f] # "None" => Kind[f] \in {"task", "user"}
    BY <1>0, <2>2 DEF Kinded
  <2>4. touched' \subseteq Keys /\ ended' \subseteq Keys /\ due' \subseteq Keys \X Elements
    BY <1>0, <2>1 DEF TypeOK
  <2>5. Queued' \subseteq Queued BY <2>1 DEF Queued
  <2>6. Base' BY <2>1, <2>2, <2>3, <2>4, <2>5, BaseOne
  <2>7. instance'[k] = q /\ \A i \in Keys : i # k => instance'[i] = instance[i]
    BY <1>0, <2>1 DEF TypeOK
  <2> QED BY <2>1, <2>2, <2>6, <2>7 DEF q
<1>2. CASE ~(TooDeep(k) \/ Callee[e] \notin deployed)
  <2> DEFINE s == Step("Activate", next_key, StartEvent[Callee[e]])
  <2>1. /\ next_key \in Keys
        /\ instance' = [instance EXCEPT ![k] = r,
                             ![next_key] = ProcessInstanceCreated(Callee[e], k, e)]
        /\ queue' = Append(rest, s)
        /\ touched' = touched \cup {k, next_key} /\ next_key' = next_key + 1
    BY <1>2 DEF SpawnChild
  <2>2. /\ Callee[e] \in Processes /\ StartEvent[Callee[e]] \in Elements
    BY <1>e, TreeAssumption
  <2>3. s \in Steps /\ s.op = "Activate" /\ s.key = next_key BY <2>1, <2>2, AtStep
  <2>4. queue' \in Seq(Steps) /\ Queued' = ToSet(rest) \cup {s}
    BY <2>1, <2>3, Appended DEF Queued
  <2>5. k # NoKey BY TreeAssumption DEF Keys, NoKey
  <2>6. touched' \subseteq Keys /\ touched \subseteq touched' /\ next_key \in touched' /\ k \in touched'
    BY <1>0, <2>1 DEF TypeOK
  <2>7. r.incidents \subseteq Calls BY <1>0 DEF Kinded
  <2>8. \A t \in Queued' : t \in Queued \/ (t.op = "Activate" /\ t.key = next_key)
    BY <2>3, <2>4
  <2>9. deployed' = deployed /\ due' = due /\ ended' = ended OBVIOUS
  <2> HIDE DEF s
  <2>10. Base' /\ k # next_key
    BY <1>e, <2>1, <2>2, <2>4, <2>5, <2>6, <2>7, <2>8, <2>9, BaseCreated
  <2>11. instance[next_key].state = "None" BY <1>0, <2>1, TreeAssumption DEF Fresh, Keys
  <2> DEFINE c == ProcessInstanceCreated(Callee[e], k, e)
  <2>12. instance' = [instance EXCEPT ![k] = r, ![next_key] = c] BY <2>1
  <2> HIDE DEF c
  <2>13. /\ instance'[k] = r /\ instance'[next_key] = c
         /\ \A i \in Keys : i # k /\ i # next_key => instance'[i] = instance[i]
    BY <1>0, <2>1, <2>10, <2>12 DEF TypeOK
  <2> QED BY <2>1, <2>3, <2>10, <2>11, <2>13 DEF s, c
<1> QED BY <1>1, <1>2

\* Initially there are no instances.
LEMMA BaseInit == Init => Base
<1> SUFFICES ASSUME Init PROVE Base OBVIOUS
<1> DEFINE p == CHOOSE x \in Processes : TRUE
           r == ProcessInstanceCreated(p, NoKey, NoElement)
           q == [r EXCEPT !.state = "None"]
<1>1. p \in Processes BY TreeAssumption
<1> HIDE DEF p
<1>2. /\ r \in InstanceRecord /\ r.parent = NoKey /\ r.active = {} /\ r.timers = {}
      /\ r.incidents = {} /\ r.work = [e \in Elements |-> "None"]
  BY <1>1 DEF ProcessInstanceCreated, InstanceRecord, States, Works
<1> HIDE DEF r
<1>3. /\ q \in InstanceRecord /\ q.state = "None" /\ q.parent = NoKey /\ q.active = {}
      /\ q.timers = {} /\ q.incidents = {} /\ q.work = [e \in Elements |-> "None"]
  BY <1>2 DEF InstanceRecord, States
<1>4. instance = [k \in Keys |-> q] BY DEF Init, p, r
<1> HIDE DEF q
<1>5. Queued = {} BY EmptyQueue DEF Init, Queued
<1>6. \A k \in Keys : instance[k] = q BY <1>4
<1>7. TypeOK
  <2>1. next_key \in 1 .. MaxKey + 1 BY TreeAssumption DEF Init
  <2>2. deployed \subseteq Processes BY TreeAssumption DEF Init
  <2>3. instance \in [Keys -> InstanceRecord] BY <1>3, <1>4
  <2> QED BY <2>1, <2>2, <2>3, EmptyQueue DEF Init, TypeOK
<1>8. Kinded BY <1>3, <1>5, <1>6 DEF Kinded
<1>9. Fresh /\ Looked /\ Known BY <1>3, <1>5, <1>6 DEF Fresh, Looked, Known
<1> QED BY <1>7, <1>8, <1>9 DEF Base

-----------------------------------------------------------------------------
(* The steps of the drain, one by one: what each does to the state.        *)

\* The steps that activate what comes after e.
Onward(k, e) == {Step("Activate", k, f) : f \in ToSet(Flows[e])}

\* The step at the head of the queue: its instance and its element, and the record of that
\* instance before and after the step.
HKey  == Head(queue).key
HElem == Head(queue).elem
Was   == instance[HKey]
Now   == instance'[HKey]

\* The step op at the head of the queue is taken: of the records only that of its instance
\* changes, and the steps new are queued behind the others.
Turn(op, new) ==
    /\ due = {} /\ due' = {} /\ queue # << >>
    /\ Head(queue).op = op /\ HKey \in Keys /\ HElem \in Elements
    /\ Queued = {Head(queue)} \cup ToSet(Tail(queue))
    /\ Queued' = ToSet(Tail(queue)) \cup new
    /\ Len(queue) \in Nat /\ (Len(queue) = 1 => ToSet(Tail(queue)) = {})
    /\ Was \in InstanceRecord /\ Was.state \notin {"None", "Terminated"}
    /\ op \in {"Complete", "RetryCallActivitySpawn"} => HElem \in Was.active
    /\ Now \in InstanceRecord
    /\ Now.process = Was.process /\ Now.parent = Was.parent /\ Now.call = Was.call
    /\ instance' \in [Keys -> InstanceRecord]
    /\ \A i \in Keys : i # HKey => instance'[i] = instance[i]

\* What Takes says of the head of the queue.
LEMMA Taken ==
    ASSUME Base, NEW op, Takes(op)
    PROVE  /\ due = {} /\ due' = {} /\ queue # << >> /\ deployed' = deployed
           /\ Head(queue).op = op /\ HKey \in Keys /\ HElem \in Elements
           /\ Tail(queue) \in Seq(Steps) /\ Len(queue) \in Nat /\ Len(Tail(queue)) = Len(queue) - 1
           /\ Queued = {Head(queue)} \cup ToSet(Tail(queue))
           /\ Len(queue) = 1 => ToSet(Tail(queue)) = {}
           /\ Was \in InstanceRecord /\ Was.state \notin {"None", "Terminated"}
           /\ op \in {"Complete", "RetryCallActivitySpawn"} => HElem \in Was.active
<1>1. due = {} /\ due' = {} /\ queue # << >> /\ deployed' = deployed /\ Head(queue).op = op
      /\ ~step_targets_dead_scope(Head(queue))
  BY DEF Takes
<1>2. TypeOK /\ Known BY DEF Base
<1>3. Was.state # "None" BY <1>1, <1>2, AtHead DEF Known, Was, HKey
<1>4. /\ Was.state # "Terminated"
      /\ op \in {"Complete", "RetryCallActivitySpawn"} => HElem \in Was.active
  BY <1>1 DEF step_targets_dead_scope, Was, HKey, HElem
<1> QED BY <1>1, <1>2, <1>3, <1>4, AtHead, Parts DEF Was, HKey, HElem

\* The usual step: one record changes; the rest follows from the record and the new steps.
LEMMA Turned ==
    ASSUME Base, NEW op, Takes(op), NEW r \in InstanceRecord, NEW new \in Seq(Steps),
           instance' = [instance EXCEPT ![HKey] = r],
           queue' = Tail(queue) \o new, touched' = touched \cup {HKey},
           r.process = Was.process, r.parent = Was.parent, r.call = Was.call,
           r.timers \subseteq Timed, r.incidents \subseteq Calls, r.state # "None",
           \A f \in Elements : r.work[f] # "None" => Kind[f] \in {"task", "user"},
           ended' = ended \/ ended' = ended \cup {HKey}, next_key' = next_key,
           \A s \in ToSet(new) :
              /\ s.key \in Keys /\ instance[s.key].state # "None"
              /\ s.op \in {"CompleteCallActivity", "RetryCallActivitySpawn"} => s.elem \in Calls
    PROVE  /\ Base' /\ Turn(op, ToSet(new)) /\ Now = r
           /\ Len(queue') = Len(queue) - 1 + Len(new)
<1>0. TypeOK BY DEF Base
<1>1. /\ HKey \in Keys /\ HElem \in Elements /\ deployed' = deployed /\ due' = {}
      /\ Tail(queue) \in Seq(Steps) /\ Len(Tail(queue)) = Len(queue) - 1
      /\ Queued = {Head(queue)} \cup ToSet(Tail(queue))
      /\ Was.state \notin {"None", "Terminated"}
  BY Taken
<1>2. queue' \in Seq(Steps) /\ Queued' = ToSet(Tail(queue)) \cup ToSet(new)
      /\ Len(queue') = Len(queue) - 1 + Len(new)
  BY <1>1, Concatenated DEF Queued
<1>3. touched' \subseteq Keys /\ ended' \subseteq Keys /\ due' \subseteq Keys \X Elements
      /\ touched \subseteq touched' /\ HKey \in touched'
  BY <1>0, <1>1 DEF TypeOK
<1>4. \A s \in Queued' :
              \/ s \in Queued
              \/ /\ s.key \in Keys /\ instance[s.key].state # "None"
                 /\ s.op \in {"CompleteCallActivity", "RetryCallActivitySpawn"} => s.elem \in Calls
  BY <1>1, <1>2
<1>5. Base' BY <1>1, <1>2, <1>3, <1>4, BaseOne DEF Was
<1>6. /\ instance' \in [Keys -> InstanceRecord] /\ Now = r
      /\ \A i \in Keys : i # HKey => instance'[i] = instance[i]
  BY <1>0, <1>1 DEF TypeOK, Now
<1>7. Turn(op, ToSet(new)) BY <1>1, <1>2, <1>6, Taken DEF Turn
<1> QED BY <1>2, <1>5, <1>6, <1>7

\* What Base says of a record.
LEMMA Kept ==
    ASSUME Base, NEW k \in Keys
    PROVE  /\ instance[k].timers \subseteq Timed /\ instance[k].incidents \subseteq Calls
           /\ \A f \in Elements : instance[k].work[f] # "None" => Kind[f] \in {"task", "user"}
BY DEF Base, Kinded

\* A start, boundary or end event or a gateway is entered.
LEMMA PassEntered ==
    ASSUME Base, ActivatePass
    PROVE  /\ Base' /\ Turn("Activate", {Step("Complete", HKey, HElem)})
           /\ Kind[HElem] \in {"pass", "end", "terminate"} /\ Len(queue') = Len(queue)
           /\ Now.state = Was.state /\ Now.active = Was.active \cup {HElem}
           /\ Now.work = Was.work /\ Now.timers = Was.timers /\ Now.incidents = Was.incidents
<1> DEFINE r == ElementActivated(Was, HElem)
           s == Step("Complete", HKey, HElem)
<1>1. Takes("Activate") BY DEF ActivatePass
<1>2. /\ Kind[HElem] \in {"pass", "end", "terminate"} /\ instance' = [instance EXCEPT ![HKey] = r]
      /\ queue' = Append(Tail(queue), s) /\ touched' = touched \cup {HKey}
      /\ next_key' = next_key /\ ended' = ended
  BY DEF ActivatePass, HKey, HElem, Was
<1>3. /\ HKey \in Keys /\ HElem \in Elements /\ Was \in InstanceRecord /\ Tail(queue) \in Seq(Steps)
      /\ Was.state # "None" /\ Len(queue) \in Nat
  BY <1>1, Taken
<1>4. /\ r \in InstanceRecord /\ r.state = Was.state /\ r.process = Was.process
      /\ r.parent = Was.parent /\ r.call = Was.call
      /\ r.active = Was.active \cup {HElem} /\ r.work = Was.work
      /\ r.timers = Was.timers /\ r.incidents = Was.incidents
  BY <1>3, RecActivated
<1>5. s \in Steps /\ s.op = "Complete" /\ s.key = HKey BY <1>3, AtStep
<1> HIDE DEF r, s
<1>6. PICK new \in Seq(Steps) : new = <<s>> /\ Len(new) = 1 /\ ToSet(new) = {s} BY <1>5, OneStep
<1>7. queue' = Tail(queue) \o new BY <1>2, <1>3, <1>5, <1>6
<1>8. r.timers \subseteq Timed /\ r.incidents \subseteq Calls
      /\ \A f \in Elements : r.work[f] # "None" => Kind[f] \in {"task", "user"}
  BY <1>3, <1>4, Kept DEF Was
<1>9. \A t \in ToSet(new) :
           /\ t.key \in Keys /\ instance[t.key].state # "None"
           /\ t.op \in {"CompleteCallActivity", "RetryCallActivitySpawn"} => t.elem \in Calls
  BY <1>3, <1>5, <1>6 DEF Was
<1>10. Base' /\ Turn("Activate", ToSet(new)) /\ Now = r /\ Len(queue') = Len(queue) - 1 + Len(new)
  BY <1>1, <1>2, <1>3, <1>4, <1>7, <1>8, <1>9, Turned
<1>11. Turn("Activate", {s}) BY <1>6, <1>10 DEF Turn
<1> QED BY <1>2, <1>3, <1>4, <1>6, <1>10, <1>11 DEF s

\* A task is entered.
LEMMA TaskEntered ==
    ASSUME Base, ActivateTask
    PROVE  /\ Base' /\ Turn("Activate", {})
           /\ Kind[HElem] \in {"task", "user"} /\ Len(queue') = Len(queue) - 1
           /\ Now.state = Was.state /\ Now.active = Was.active \cup {HElem}
           /\ \A f \in Elements : Now.work[f] = IF f = HElem THEN "Created" ELSE Was.work[f]
           /\ Now.timers = Was.timers /\ Now.incidents = Was.incidents
<1> DEFINE q == ElementActivated(Was, HElem)
           r == [q EXCEPT !.work[HElem] = "Created"]
<1>1. Takes("Activate") BY DEF ActivateTask
<1>2. /\ Kind[HElem] \in {"task", "user"} /\ instance' = [instance EXCEPT ![HKey] = r]
      /\ queue' = Tail(queue) /\ touched' = touched \cup {HKey}
      /\ next_key' = next_key /\ ended' = ended
  BY DEF ActivateTask, HKey, HElem, Was
<1>3. /\ HKey \in Keys /\ HElem \in Elements /\ Was \in InstanceRecord /\ Tail(queue) \in Seq(Steps)
      /\ Was.state # "None" /\ Len(queue) \in Nat
  BY <1>1, Taken
<1>4. /\ q \in InstanceRecord /\ q.state = Was.state /\ q.process = Was.process
      /\ q.parent = Was.parent /\ q.call = Was.call
      /\ q.active = Was.active \cup {HElem} /\ q.work = Was.work
      /\ q.timers = Was.timers /\ q.incidents = Was.incidents
  BY <1>3, RecActivated
<1> HIDE DEF q
<1>5. /\ r \in InstanceRecord /\ r.state = q.state /\ r.process = q.process
      /\ r.parent = q.parent /\ r.call = q.call /\ r.active = q.active
      /\ r.work = [q.work EXCEPT ![HElem] = "Created"]
      /\ r.timers = q.timers /\ r.incidents = q.incidents
  BY <1>3, <1>4, RecWork DEF Works
<1> HIDE DEF r
<1>6. PICK none \in Seq(Steps) : none = << >> /\ ToSet(none) = {} /\ Len(none) = 0 BY EmptyQueue
<1>7. queue' = Tail(queue) \o none BY <1>2, <1>3, <1>6, ConcatEmptySeq
<1>8. Was.work \in [Elements -> Works] BY <1>3 DEF InstanceRecord
<1>9. \A f \in Elements : r.work[f] = IF f = HElem THEN "Created" ELSE Was.work[f]
  BY <1>3, <1>4, <1>5, <1>8
<1>10. r.timers \subseteq Timed /\ r.incidents \subseteq Calls
       /\ \A f \in Elements : r.work[f] # "None" => Kind[f] \in {"task", "user"}
  BY <1>2, <1>3, <1>4, <1>5, <1>9, Kept DEF Was
<1>11. \A t \in ToSet(none) :
           /\ t.key \in Keys /\ instance[t.key].state # "None"
           /\ t.op \in {"CompleteCallActivity", "RetryCallActivitySpawn"} => t.elem \in Calls
  BY <1>6
<1>12. r.state # "None" /\ r.process = Was.process /\ r.parent = Was.parent
        /\ r.call = Was.call /\ r \in InstanceRecord
  BY <1>3, <1>4, <1>5
<1>13. Base' /\ Turn("Activate", ToSet(none)) /\ Now = r /\ Len(queue') = Len(queue) - 1 + Len(none)
  BY <1>1, <1>2, <1>7, <1>10, <1>11, <1>12, Turned
<1>14. Turn("Activate", {}) BY <1>6, <1>13 DEF Turn
<1>15. /\ Now.state = Was.state /\ Now.active = Was.active \cup {HElem}
       /\ Now.timers = Was.timers /\ Now.incidents = Was.incidents
  BY <1>4, <1>5, <1>13
<1>16. \A f \in Elements : Now.work[f] = IF f = HElem THEN "Created" ELSE Was.work[f]
  BY <1>9, <1>13
<1>17. Len(queue') = Len(queue) - 1 BY <1>3, <1>6, <1>13
<1> QED BY <1>2, <1>13, <1>14, <1>15, <1>16, <1>17

\* A token leaves through the outgoing flows.
LEMMA TokenLeaves ==
    ASSUME Base, NEW op, Takes(op),
           instance' = [instance EXCEPT ![HKey] = ElementCompleted(Was, HElem)],
           queue' = Tail(queue) \o ActivateAll(HKey, HElem),
           touched' = touched \cup {HKey}, next_key' = next_key, ended' = ended
    PROVE  /\ Base' /\ Turn(op, Onward(HKey, HElem))
           /\ Len(queue') = Len(queue) - 1 + Len(Flows[HElem])
           /\ Now.state = Was.state /\ Now.active = Was.active \ {HElem}
           /\ Now.work = Was.work /\ Now.timers = Was.timers \ {HElem}
           /\ Now.incidents = Was.incidents
<1> DEFINE r == ElementCompleted(Was, HElem)
           new == ActivateAll(HKey, HElem)
<1>1. /\ HKey \in Keys /\ HElem \in Elements /\ Was \in InstanceRecord
      /\ Tail(queue) \in Seq(Steps) /\ Was.state # "None" /\ Len(queue) \in Nat
  BY Taken
<1>2. instance' = [instance EXCEPT ![HKey] = r] /\ queue' = Tail(queue) \o new
  OBVIOUS
<1>3. /\ r \in InstanceRecord /\ r.state = Was.state /\ r.process = Was.process
      /\ r.parent = Was.parent /\ r.call = Was.call
      /\ r.active = Was.active \ {HElem} /\ r.work = Was.work
      /\ r.timers = Was.timers \ {HElem} /\ r.incidents = Was.incidents
  BY <1>1, RecCompleted
<1> HIDE DEF r
<1>4. /\ new \in Seq(Steps) /\ Len(new) = Len(Flows[HElem]) /\ ToSet(new) = Onward(HKey, HElem)
      /\ ToSet(Flows[HElem]) \subseteq Elements
  BY <1>1, AllActivated DEF Onward
<1> HIDE DEF new
<1>5. r.timers \subseteq Timed /\ r.incidents \subseteq Calls
      /\ \A f \in Elements : r.work[f] # "None" => Kind[f] \in {"task", "user"}
  BY <1>1, <1>3, Kept DEF Was
<1>6. \A t \in ToSet(new) :
           /\ t.key \in Keys /\ instance[t.key].state # "None"
           /\ t.op \in {"CompleteCallActivity", "RetryCallActivitySpawn"} => t.elem \in Calls
  BY <1>1, <1>4, AtStep DEF Onward, Was
<1>7. Base' /\ Turn(op, ToSet(new)) /\ Now = r /\ Len(queue') = Len(queue) - 1 + Len(new)
  BY <1>1, <1>2, <1>3, <1>4, <1>5, <1>6, Turned
<1>8. Turn(op, Onward(HKey, HElem)) BY <1>4, <1>7 DEF Turn
<1> QED BY <1>1, <1>3, <1>4, <1>7, <1>8

\* A Complete step, unless it is that of a terminate end.
LEMMA ElementLeft ==
    ASSUME Base, Complete
    PROVE  /\ Base' /\ Turn("Complete", Onward(HKey, HElem))
           /\ Kind[HElem] # "terminate" /\ Len(queue') = Len(queue) - 1 + Len(Flows[HElem])
           /\ Now.state = Was.state /\ Now.active = Was.active \ {HElem}
           /\ Now.work = Was.work /\ Now.timers = Was.timers \ {HElem}
           /\ Now.incidents = Was.incidents
<1>1. Takes("Complete") BY DEF Complete
<1>2. /\ Kind[HElem] # "terminate"
      /\ instance' = [instance EXCEPT ![HKey] = ElementCompleted(Was, HElem)]
      /\ queue' = Tail(queue) \o ActivateAll(HKey, HElem)
      /\ touched' = touched \cup {HKey} /\ next_key' = next_key /\ ended' = ended
  BY DEF Complete, HKey, HElem, Was
<1> QED BY <1>1, <1>2, TokenLeaves

\* The token of a finished call activity, if it is still there.
LEMMA CallLeft ==
    ASSUME Base, CompleteCallActivity
    PROVE  /\ Base' /\ HElem \in Calls
           /\ \/ /\ HElem \notin Was.active /\ instance' = instance
                 /\ Turn("CompleteCallActivity", {}) /\ Len(queue') = Len(queue) - 1
              \/ /\ HElem \in Was.active
                 /\ Turn("CompleteCallActivity", Onward(HKey, HElem))
                 /\ Len(queue') = Len(queue) - 1 + Len(Flows[HElem])
                 /\ Now.state = Was.state /\ Now.active = Was.active \ {HElem}
                 /\ Now.work = Was.work /\ Now.timers = Was.timers \ {HElem}
                 /\ Now.incidents = Was.incidents
<1>0. TypeOK /\ Kinded /\ Looked BY DEF Base
<1>1. Takes("CompleteCallActivity") BY DEF CompleteCallActivity
<1>2. /\ HKey \in Keys /\ HElem \in Elements /\ queue # << >>
      /\ Head(queue).op = "CompleteCallActivity"
      /\ Queued = {Head(queue)} \cup ToSet(Tail(queue)) /\ Tail(queue) \in Seq(Steps)
      /\ due = {} /\ due' = {} /\ deployed' = deployed /\ Len(Tail(queue)) = Len(queue) - 1
      /\ Len(queue) = 1 => ToSet(Tail(queue)) = {}
  BY <1>1, Taken
<1>3. HElem \in Calls BY <1>0, <1>2 DEF Kinded, HElem
<1>4. CASE HElem \in Was.active
  <2>1. /\ instance' = [instance EXCEPT ![HKey] = ElementCompleted(Was, HElem)]
        /\ queue' = Tail(queue) \o ActivateAll(HKey, HElem)
        /\ touched' = touched \cup {HKey} /\ next_key' = next_key /\ ended' = ended
    BY <1>4 DEF CompleteCallActivity, HKey, HElem, Was
  <2> QED BY <1>1, <1>3, <1>4, <2>1, TokenLeaves
<1>5. CASE HElem \notin Was.active
  <2>1. /\ instance' = instance /\ queue' = Tail(queue) /\ touched' = touched
        /\ next_key' = next_key /\ ended' = ended
    BY <1>5 DEF CompleteCallActivity, HKey, HElem, Was
  <2>2. Queued' = ToSet(Tail(queue)) BY <2>1 DEF Queued
  <2>3. Base' BY <1>0, <1>2, <2>1, <2>2, BaseQuiet DEF TypeOK, Looked
  <2>4. Now = Was BY <2>1 DEF Now, Was
  <2>5. Turn("CompleteCallActivity", {})
    BY <1>0, <1>1, <1>2, <2>1, <2>2, <2>4, Taken DEF Turn, TypeOK
  <2> QED BY <1>2, <1>3, <1>5, <2>1, <2>3, <2>5
<1> QED BY <1>4, <1>5

\* A terminate end completes its instance, with all its tokens wait on, and releases the parent.
LEMMA TerminateEnded ==
    ASSUME Base, CompleteTerminateEnd
    PROVE  /\ Base' /\ Turn("Complete", ToSet(call_activity_completion_step(HKey)))
           /\ Kind[HElem] = "terminate"
           /\ Now.state = "Completed" /\ Now.active = {} /\ Now.timers = {} /\ Now.incidents = {}
           /\ \A f \in Elements : /\ Now.work[f] \notin Open
                                  /\ Now.work[f] # "None" => Was.work[f] # "None"
<1> DEFINE a == ElementCompleted(Was, HElem)
           b == DiscardTokens(a)
           c == [b EXCEPT !.incidents = {}]
           r == ProcessInstanceCompleted(c)
           new == call_activity_completion_step(HKey)
<1>0. TypeOK /\ Kinded /\ Known BY DEF Base
<1>1. Takes("Complete") BY DEF CompleteTerminateEnd
<1>2. /\ Kind[HElem] = "terminate" /\ instance' = [instance EXCEPT ![HKey] = r]
      /\ queue' = Tail(queue) \o new /\ touched' = touched \cup {HKey}
      /\ next_key' = next_key /\ ended' = ended \cup {HKey}
  BY DEF CompleteTerminateEnd, HKey, HElem, Was
<1>3. /\ HKey \in Keys /\ HElem \in Elements /\ Was \in InstanceRecord /\ Tail(queue) \in Seq(Steps)
      /\ Was.state # "None"
  BY <1>1, Taken
<1>4. /\ a \in InstanceRecord /\ a.process = Was.process /\ a.parent = Was.parent
      /\ a.call = Was.call /\ a.work = Was.work
  BY <1>3, RecCompleted
<1> HIDE DEF a
<1>5. /\ b \in InstanceRecord /\ b.process = a.process /\ b.parent = a.parent /\ b.call = a.call
      /\ b.timers = {}
      /\ b.work = [e \in Elements |-> IF a.work[e] \in Open THEN "Canceled" ELSE a.work[e]]
  BY <1>4, RecDiscarded
<1> HIDE DEF b
<1>6. /\ c \in InstanceRecord /\ c.process = b.process /\ c.parent = b.parent /\ c.call = b.call
      /\ c.timers = {} /\ c.work = b.work /\ c.incidents = {}
  BY <1>5, RecIncidents
<1> HIDE DEF c
<1>7. /\ r \in InstanceRecord /\ r.process = c.process /\ r.parent = c.parent /\ r.call = c.call
      /\ r.timers = {} /\ r.work = c.work /\ r.incidents = {} /\ r.state = "Completed" /\ r.active = {}
  BY <1>6, RecOver
<1> HIDE DEF r
<1>8. \A f \in Elements : r.work[f] \notin Open /\ (r.work[f] # "None" => Was.work[f] # "None")
  BY <1>4, <1>5, <1>6, <1>7 DEF Open
<1>9. /\ new \in Seq(Steps)
      /\ \A t \in ToSet(new) :
           /\ t.key \in Keys /\ instance[t.key].state # "None"
           /\ t.op \in {"CompleteCallActivity", "RetryCallActivitySpawn"} => t.elem \in Calls
  <2>1. CASE Was.parent # NoKey /\ Was.call \in instance[Was.parent].active
    <3>1. /\ new = <<Step("CompleteCallActivity", Was.parent, Was.call)>> /\ Was.parent \in Keys
          /\ Was.call \in Elements
      BY <1>0, <1>3, <2>1, Released DEF Was
    <3>2. instance[Was.parent].state # "None" BY <1>0, <2>1, <3>1 DEF Known
    <3>3. Was.call \in Calls BY <1>0, <1>3, <2>1 DEF Kinded, Was
    <3> QED BY <3>1, <3>2, <3>3, AtStep, OneStep
  <2>2. CASE ~(Was.parent # NoKey /\ Was.call \in instance[Was.parent].active)
    <3>1. new = << >> BY <1>0, <1>3, <2>2, Released DEF Was
    <3> QED BY <3>1, EmptyQueue
  <2> QED BY <2>1, <2>2
<1> HIDE DEF new
<1>10. /\ r.timers \subseteq Timed /\ r.incidents \subseteq Calls /\ r.state # "None"
       /\ r.process = Was.process /\ r.parent = Was.parent /\ r.call = Was.call
       /\ \A f \in Elements : r.work[f] # "None" => Kind[f] \in {"task", "user"}
  BY <1>3, <1>4, <1>5, <1>6, <1>7, <1>8, Kept DEF Was
<1>11. Base' /\ Turn("Complete", ToSet(new)) /\ Now = r
  BY <1>1, <1>2, <1>7, <1>9, <1>10, Turned
<1>12. \A f \in Elements : Now.work[f] \notin Open /\ (Now.work[f] # "None" => Was.work[f] # "None")
  BY <1>8, <1>11
<1> QED BY <1>2, <1>7, <1>11, <1>12 DEF new

\* The step at the head spawns a child under the key next_key.
Born(op) ==
    /\ due = {} /\ due' = {} /\ queue # << >>
    /\ Head(queue).op = op /\ HKey \in Keys /\ HElem \in Calls
    /\ Queued = {Head(queue)} \cup ToSet(Tail(queue))
    /\ Queued' = ToSet(Tail(queue)) \cup {Step("Activate", next_key, StartEvent[Callee[HElem]])}
    /\ Len(queue) \in Nat /\ (Len(queue) = 1 => ToSet(Tail(queue)) = {})
    /\ Was \in InstanceRecord /\ Was.state \notin {"None", "Terminated"}
    /\ op = "RetryCallActivitySpawn" => HElem \in Was.active
    /\ Now \in InstanceRecord /\ Now.state = Was.state /\ Now.process = Was.process
    /\ Now.parent = Was.parent /\ Now.call = Was.call /\ Now.work = Was.work
    /\ Now.incidents = Was.incidents
    /\ next_key \in Keys /\ next_key # HKey /\ instance[next_key].state = "None"
    /\ instance' \in [Keys -> InstanceRecord]
    /\ instance'[next_key].state = "Active" /\ instance'[next_key].process = Callee[HElem]
    /\ instance'[next_key].parent = HKey /\ instance'[next_key].call = HElem
    /\ instance'[next_key].active = {} /\ instance'[next_key].timers = {}
    /\ instance'[next_key].incidents = {}
    /\ \A f \in Elements : instance'[next_key].work[f] = "None"
    /\ \A i \in Keys : i # HKey /\ i # next_key => instance'[i] = instance[i]

\* The head of the queue comes to an incident or to a child.
LEMMA Spawning ==
    ASSUME Base, NEW op, Takes(op), NEW r \in InstanceRecord, HElem \in Calls,
           r.state = Was.state, r.process = Was.process, r.parent = Was.parent, r.call = Was.call,
           r.work = Was.work, r.incidents = Was.incidents, r.timers \subseteq Timed,
           SpawnChild(HKey, r, HElem, Tail(queue)), ended' = ended
    PROVE  /\ Base' /\ Now.active = r.active /\ Now.timers = r.timers
           /\ \/ /\ Turn(op, {}) /\ Len(queue') = Len(queue) - 1
                 /\ Now.state = Was.state /\ Now.work = Was.work
                 /\ Now.incidents = Was.incidents \cup {HElem}
              \/ Born(op) /\ Len(queue') = Len(queue)
<1>0. TypeOK BY DEF Base
<1>1. /\ HKey \in Keys /\ HElem \in Elements /\ Tail(queue) \in Seq(Steps)
      /\ ToSet(Tail(queue)) \subseteq Queued /\ Was.state # "None"
      /\ deployed' = deployed /\ due' = due /\ ended' = ended /\ Len(queue) \in Nat
      /\ Len(Tail(queue)) = Len(queue) - 1
  BY Taken
<1> DEFINE c == ProcessInstanceCreated(Callee[HElem], HKey, HElem)
           s == Step("Activate", next_key, StartEvent[Callee[HElem]])
<1>2. Base' /\ \/ /\ instance'[HKey] = Failed(r, HElem) /\ Failed(r, HElem) \in InstanceRecord
                  /\ \A i \in Keys : i # HKey => instance'[i] = instance[i]
                  /\ queue' = Tail(queue)
               \/ /\ next_key \in Keys /\ HKey # next_key /\ instance[next_key].state = "None"
                  /\ instance'[HKey] = r /\ instance'[next_key] = c
                  /\ \A i \in Keys : i # HKey /\ i # next_key => instance'[i] = instance[i]
                  /\ s \in Steps /\ queue' = Append(Tail(queue), s)
  <2>1. /\ instance[HKey].state # "None" /\ r.state = instance[HKey].state
        /\ r.incidents = instance[HKey].incidents /\ r.parent = instance[HKey].parent
        /\ r.call = instance[HKey].call /\ r.work = instance[HKey].work
    BY <1>1 DEF Was
  <2>2. UNCHANGED <<deployed, due, ended>> BY <1>1
  <2> QED BY <1>1, <2>1, <2>2, BaseSpawn
<1> HIDE DEF s
<1>a. instance' \in [Keys -> InstanceRecord] BY <1>2 DEF Base, TypeOK
<1>3. CASE /\ instance'[HKey] = Failed(r, HElem) /\ Failed(r, HElem) \in InstanceRecord
           /\ \A i \in Keys : i # HKey => instance'[i] = instance[i]
           /\ queue' = Tail(queue)
  <2> DEFINE q == Failed(r, HElem)
  <2>1. /\ q.state = r.state /\ q.process = r.process /\ q.parent = r.parent
        /\ q.call = r.call /\ q.active = r.active /\ q.timers = r.timers /\ q.work = r.work
        /\ q.incidents = r.incidents \cup {HElem}
    BY <1>1 DEF InstanceRecord, Failed
  <2> HIDE DEF q
  <2>2. Now = q /\ q \in InstanceRecord BY <1>3 DEF q, Now
  <2>4. Queued' = ToSet(Tail(queue)) \cup {} BY <1>3 DEF Queued
  <2>5. Turn(op, {}) BY <1>3, <1>a, <2>1, <2>2, <2>4, Taken DEF Turn
  <2> QED BY <1>1, <1>2, <1>3, <2>1, <2>2, <2>5
<1>4. CASE /\ next_key \in Keys /\ HKey # next_key /\ instance[next_key].state = "None"
           /\ instance'[HKey] = r /\ instance'[next_key] = c
           /\ \A i \in Keys : i # HKey /\ i # next_key => instance'[i] = instance[i]
           /\ s \in Steps /\ queue' = Append(Tail(queue), s)
  <2>0. Callee[HElem] \in Processes BY <1>1, TreeAssumption
  <2>1. /\ c.state = "Active" /\ c.process = Callee[HElem] /\ c.parent = HKey
        /\ c.call = HElem /\ c.active = {} /\ c.timers = {} /\ c.incidents = {}
        /\ c.work = [e \in Elements |-> "None"]
    BY DEF ProcessInstanceCreated
  <2> HIDE DEF c
  <2>3. Now = r BY <1>4 DEF Now
  <2>4. Queued' = ToSet(Tail(queue)) \cup {s} /\ Len(queue') = Len(Tail(queue)) + 1
    BY <1>1, <1>4, Appended DEF Queued
  <2>5. \A f \in Elements : instance'[next_key].work[f] = "None" BY <1>4, <2>1
  <2>6. Born(op) BY <1>4, <1>a, <2>1, <2>3, <2>4, <2>5, Taken DEF Born, s
  <2>7. Len(queue') = Len(queue) BY <1>1, <2>4
  <2> QED BY <1>2, <2>3, <2>6, <2>7
<1> QED BY <1>2, <1>3, <1>4

\* A call activity is entered.
LEMMA CallEntered ==
    ASSUME Base, ActivateCallActivity
    PROVE  /\ Base' /\ HElem \in Calls /\ Now.active = Was.active \cup {HElem}
           /\ Was.timers \subseteq Now.timers /\ Now.timers \subseteq Was.timers \cup {HElem}
           /\ \/ /\ Turn("Activate", {}) /\ Len(queue') = Len(queue) - 1
                 /\ Now.state = Was.state /\ Now.work = Was.work
                 /\ Now.incidents = Was.incidents \cup {HElem}
              \/ Born("Activate") /\ Len(queue') = Len(queue)
<1> DEFINE q == ElementActivated(Was, HElem)
           T == IF Boundary[HElem] = NoElement THEN q.timers ELSE q.timers \cup {HElem}
           r == [q EXCEPT !.timers = T]
<1>1. Takes("Activate") BY DEF ActivateCallActivity
<1>2. /\ Kind[HElem] = "call" /\ ended' = ended
      /\ SpawnChild(HKey, [q EXCEPT !.timers = IF Boundary[HElem] = NoElement THEN @ ELSE @ \cup {HElem}],
                    HElem, Tail(queue))
  BY DEF ActivateCallActivity, HKey, HElem, Was
<1>3. /\ HKey \in Keys /\ HElem \in Elements /\ Was \in InstanceRecord
  BY <1>1, Taken
<1>4. /\ q \in InstanceRecord /\ q.state = Was.state /\ q.process = Was.process
      /\ q.parent = Was.parent /\ q.call = Was.call
      /\ q.active = Was.active \cup {HElem} /\ q.work = Was.work
      /\ q.timers = Was.timers /\ q.incidents = Was.incidents
  BY <1>3, RecActivated
<1>5. SpawnChild(HKey, r, HElem, Tail(queue)) BY <1>2
<1> HIDE DEF q
<1>6. HElem \in Calls BY <1>2, <1>3 DEF Calls
<1>7. T \subseteq Elements /\ T \subseteq Timed /\ Was.timers \subseteq T /\ T \subseteq Was.timers \cup {HElem}
  <2>1. Was.timers \subseteq Timed BY <1>3, Kept DEF Was
  <2>2. Timed \subseteq Elements BY DEF Timed, Calls
  <2>3. Boundary[HElem] # NoElement => HElem \in Timed BY <1>6 DEF Timed
  <2> QED BY <1>4, <2>1, <2>2, <2>3
<1> HIDE DEF T
<1>8. /\ r \in InstanceRecord /\ r.state = q.state /\ r.process = q.process
      /\ r.parent = q.parent /\ r.call = q.call /\ r.active = q.active /\ r.work = q.work
      /\ r.timers = T /\ r.incidents = q.incidents
  BY <1>4, <1>7, RecTimers
<1> HIDE DEF r
<1>9. /\ r.state = Was.state /\ r.process = Was.process /\ r.parent = Was.parent /\ r.call = Was.call
      /\ r.work = Was.work /\ r.incidents = Was.incidents /\ r.timers \subseteq Timed
  BY <1>4, <1>7, <1>8
<1>10. /\ Base' /\ Now.active = r.active /\ Now.timers = r.timers
       /\ \/ /\ Turn("Activate", {}) /\ Len(queue') = Len(queue) - 1
                 /\ Now.state = Was.state /\ Now.work = Was.work
                 /\ Now.incidents = Was.incidents \cup {HElem}
          \/ Born("Activate") /\ Len(queue') = Len(queue)
  BY <1>1, <1>2, <1>5, <1>6, <1>8, <1>9, Spawning
<1> QED BY <1>4, <1>6, <1>7, <1>8, <1>10

\* The spawn is tried again.
LEMMA SpawnRetried ==
    ASSUME Base, RetryCallActivitySpawn
    PROVE  /\ Base' /\ HElem \in Calls /\ Now.active = Was.active /\ Now.timers = Was.timers
           /\ \/ /\ Turn("RetryCallActivitySpawn", {}) /\ Len(queue') = Len(queue) - 1
                 /\ Now.state = Was.state /\ Now.work = Was.work
                 /\ Now.incidents = Was.incidents \cup {HElem}
              \/ Born("RetryCallActivitySpawn") /\ Len(queue') = Len(queue)
<1>1. Takes("RetryCallActivitySpawn") BY DEF RetryCallActivitySpawn
<1>2. SpawnChild(HKey, Was, HElem, Tail(queue)) /\ ended' = ended
  BY DEF RetryCallActivitySpawn, HKey, HElem, Was
<1>3. /\ HKey \in Keys /\ HElem \in Elements /\ Was \in InstanceRecord
      /\ Head(queue).op = "RetryCallActivitySpawn" /\ Head(queue) \in Queued
  BY <1>1, Taken
<1>4. HElem \in Calls BY <1>3 DEF Base, Kinded, HElem
<1>5. Was.timers \subseteq Timed BY <1>3, Kept DEF Was
<1> QED BY <1>1, <1>2, <1>3, <1>4, <1>5, Spawning

\* A step of a dead scope is dropped.
LEMMA StepDropped ==
    ASSUME Base, DropStep
    PROVE  /\ Base' /\ instance' = instance /\ due = {} /\ due' = {} /\ queue # << >>
           /\ HKey \in Keys /\ HElem \in Elements /\ Len(queue) \in Nat
           /\ Queued = {Head(queue)} \cup Queued' /\ Len(queue') = Len(queue) - 1
           /\ Len(queue) = 1 => Queued' = {}
           /\ \/ Was.state = "Terminated"
              \/ HElem \notin Was.active
<1>1. /\ TypeOK /\ Looked BY DEF Base
<1>2. /\ due = {} /\ queue # << >> /\ step_targets_dead_scope(Head(queue)) /\ queue' = Tail(queue)
      /\ UNCHANGED <<deployed, instance, next_key, due, touched, ended>>
  BY DEF DropStep
<1>3. Queued' = ToSet(Tail(queue)) BY <1>2 DEF Queued
<1>4. Base' BY <1>1, <1>2, <1>3, AtHead, BaseQuiet DEF TypeOK, Looked
<1> QED BY <1>1, <1>2, <1>3, <1>4, AtHead DEF step_targets_dead_scope, Was, HKey, HElem

\* Several instances change, and lose what they hold.
Lessened(k) ==
    /\ instance'[k].timers \subseteq instance[k].timers
    /\ instance'[k].incidents \subseteq instance[k].incidents
    /\ instance'[k].parent = instance[k].parent /\ instance'[k].call = instance[k].call
    /\ \A e \in Elements : instance'[k].work[e] # "None" => instance[k].work[e] # "None"
    /\ instance'[k] # instance[k] => instance[k].state # "None" /\ instance'[k].state # "None"
    /\ instance'[k].state = "Active" /\ instance'[k].active = {} => k \in touched'

\* Run empty, and completed.
RunEmpty(k) ==
    /\ instance[k].state = "Active" /\ instance[k].active = {}
    /\ instance'[k].state = "Completed" /\ instance'[k].active = {}
    /\ instance'[k].timers = instance[k].timers /\ instance'[k].work = instance[k].work
    /\ instance'[k].incidents = instance[k].incidents
    /\ instance'[k].parent = instance[k].parent /\ instance'[k].call = instance[k].call
    /\ instance'[k].process = instance[k].process

LEMMA BaseMany ==
    ASSUME Base, instance' \in [Keys -> InstanceRecord],
           \A k \in Keys : Lessened(k),
           touched' \subseteq Keys, ended' \subseteq Keys,
           due' \subseteq Keys \X Elements, queue' \in Seq(Steps),
           \A s \in Queued' :
              \/ s \in Queued
              \/ /\ s.key \in Keys /\ instance[s.key].state # "None"
                 /\ s.op \in {"CompleteCallActivity", "RetryCallActivitySpawn"} => s.elem \in Calls,
           UNCHANGED <<deployed, next_key>>
    PROVE  Base'
<1>0. TypeOK /\ Kinded /\ Fresh /\ Looked /\ Known BY DEF Base
<1>1. TypeOK' BY <1>0 DEF TypeOK
<1>2. Kinded' BY <1>0 DEF Kinded, Lessened
<1>3. Fresh' BY <1>0 DEF Fresh, Lessened
<1>4. Looked' BY DEF Looked, Lessened
<1>5. Known'
  <2>0. \A s \in Queued : s.key \in Keys
    <3>1. queue \in Seq(Steps) BY <1>0 DEF TypeOK
    <3>2. Queued \subseteq Steps BY <3>1 DEF Queued, ToSet
    <3> QED BY <3>2 DEF Steps
  <2>1. \A i \in Keys : instance[i].state # "None" => instance'[i].state # "None" BY DEF Lessened
  <2>2. \A s \in Queued' : instance'[s.key].state # "None" BY <1>0, <2>0, <2>1 DEF Known
  <2>3. \A i \in Keys : instance'[i].state = "None" => instance'[i] = instance[i] BY DEF Lessened
  <2> QED BY <1>0, <2>2, <2>3 DEF Known
<1> QED BY <1>1, <1>2, <1>3, <1>4, <1>5 DEF Base

\* The instances that have run empty are completed, and their parents released.
LEMMA EmptyCompleted ==
    ASSUME Base, complete_finished_instances
    PROVE  /\ Base' /\ queue = << >> /\ Queued = {} /\ due = {} /\ due' = {}
           /\ Finished \subseteq Keys /\ instance' \in [Keys -> InstanceRecord]
           /\ \A k \in Keys : k \notin Finished => instance'[k] = instance[k]
           /\ \A k \in Finished : RunEmpty(k)
           /\ \A s \in Queued' : /\ s.op = "CompleteCallActivity" /\ s.key \in Keys /\ s.elem \in Elements
                                 /\ s.elem \in instance[s.key].active
           /\ \A k \in Finished :
                 instance[k].parent # NoKey /\ instance[k].call \in instance[instance[k].parent].active
                   => Step("CompleteCallActivity", instance[k].parent, instance[k].call) \in Queued'
<1>0. TypeOK /\ Kinded /\ Looked /\ Known BY DEF Base
<1>1. /\ due = {} /\ queue = << >> /\ ended' = ended \cup Finished
      /\ instance' = [k \in Keys |-> IF k \in Finished THEN ProcessInstanceCompleted(instance[k])
                                     ELSE instance[k]]
      /\ queue' = [n \in 1 .. Cardinality(Releasing) |->
                     Head(call_activity_completion_step(InKeyOrder(Releasing)[n]))]
      /\ UNCHANGED <<deployed, next_key, due, touched>>
  BY DEF complete_finished_instances
<1>2. Finished \subseteq Keys /\ Releasing \subseteq Finished
  BY <1>0 DEF Finished, Releasing, TypeOK
<1>3. \A k \in Keys : /\ ProcessInstanceCompleted(instance[k]) \in InstanceRecord
                      /\ instance[k] \in InstanceRecord
  BY <1>0, RecOver, Parts
<1>4. /\ instance' \in [Keys -> InstanceRecord]
      /\ \A k \in Keys : k \notin Finished => instance'[k] = instance[k]
      /\ \A k \in Finished : instance'[k] = ProcessInstanceCompleted(instance[k])
  BY <1>1, <1>2, <1>3
<1>5. ASSUME NEW k \in Finished PROVE RunEmpty(k)
  <2>1. instance[k].state = "Active" /\ instance[k].active = {} BY DEF Finished
  <2>2. instance[k] \in InstanceRecord /\ instance'[k] = ProcessInstanceCompleted(instance[k])
    BY <1>2, <1>3, <1>4
  <2> QED BY <2>1, <2>2, RecOver DEF RunEmpty
<1> DEFINE S(k) == Step("CompleteCallActivity", instance[k].parent, instance[k].call)
<1>6. \A k \in Finished :
        /\ k \in Releasing <=>
              instance[k].parent # NoKey /\ instance[k].call \in instance[instance[k].parent].active
        /\ k \in Releasing => /\ call_activity_completion_step(k) = <<S(k)>> /\ S(k) \in Steps
                              /\ instance[k].parent \in Keys /\ instance[k].call \in Elements
  <2> SUFFICES ASSUME NEW k \in Finished
               PROVE  /\ k \in Releasing <=>
                            instance[k].parent # NoKey
                            /\ instance[k].call \in instance[instance[k].parent].active
                      /\ k \in Releasing =>
                            /\ call_activity_completion_step(k) = <<S(k)>> /\ S(k) \in Steps
                            /\ instance[k].parent \in Keys /\ instance[k].call \in Elements
    OBVIOUS
  <2>0. k \in Keys BY <1>2
  <2>1. CASE instance[k].parent # NoKey /\ instance[k].call \in instance[instance[k].parent].active
    <3>1. /\ call_activity_completion_step(k) = <<S(k)>> /\ S(k) \in Steps
          /\ instance[k].parent \in Keys /\ instance[k].call \in Elements
      BY <1>0, <2>0, <2>1, Released
    <3> HIDE DEF S
    <3>2. <<S(k)>> # << >> OBVIOUS
    <3> QED BY <2>1, <3>1, <3>2 DEF Releasing
  <2>2. CASE ~(instance[k].parent # NoKey /\ instance[k].call \in instance[instance[k].parent].active)
    <3>1. call_activity_completion_step(k) = << >> BY <1>0, <2>0, <2>2, Released
    <3> QED BY <2>2, <3>1 DEF Releasing
  <2> QED BY <2>1, <2>2
<1>7. /\ Cardinality(Releasing) \in Nat
      /\ InKeyOrder(Releasing) \in [1 .. Cardinality(Releasing) -> Releasing]
      /\ \A k \in Releasing : \E n \in 1 .. Cardinality(Releasing) : InKeyOrder(Releasing)[n] = k
  BY <1>2, KeyOrder
<1>8. \A n \in 1 .. Cardinality(Releasing) : queue'[n] = S(InKeyOrder(Releasing)[n])
  <2> SUFFICES ASSUME NEW n \in 1 .. Cardinality(Releasing)
               PROVE  queue'[n] = S(InKeyOrder(Releasing)[n])
    OBVIOUS
  <2>1. queue'[n] = Head(call_activity_completion_step(InKeyOrder(Releasing)[n])) BY <1>1
  <2>2. InKeyOrder(Releasing)[n] \in Releasing BY <1>7
  <2>3. call_activity_completion_step(InKeyOrder(Releasing)[n]) = <<S(InKeyOrder(Releasing)[n])>>
    BY <1>2, <1>6, <2>2
  <2> HIDE DEF S
  <2> QED BY <2>1, <2>3
<1>9. DOMAIN queue' = 1 .. Cardinality(Releasing) BY <1>1
<1>10. queue' \in [1 .. Cardinality(Releasing) -> Steps]
  <2>1. \A n \in 1 .. Cardinality(Releasing) : queue'[n] \in Steps BY <1>2, <1>6, <1>7, <1>8
  <2> QED BY <1>1, <2>1
<1>11. queue' \in Seq(Steps) BY <1>7, <1>10
<1>12. Queued' = {S(k) : k \in Releasing}
  <2> HIDE DEF S
  <2>1. Queued' \subseteq {S(k) : k \in Releasing} BY <1>7, <1>8, <1>9 DEF Queued, ToSet
  <2>2. {S(k) : k \in Releasing} \subseteq Queued' BY <1>7, <1>8, <1>9 DEF Queued, ToSet
  <2> QED BY <2>1, <2>2
<1>13. \A s \in Queued' : /\ s.op = "CompleteCallActivity" /\ s.key \in Keys /\ s.elem \in Elements
                          /\ s.elem \in instance[s.key].active /\ s.elem \in Calls
  <2> SUFFICES ASSUME NEW k \in Releasing
               PROVE  /\ S(k).op = "CompleteCallActivity" /\ S(k).key \in Keys /\ S(k).elem \in Elements
                      /\ S(k).elem \in instance[S(k).key].active /\ S(k).elem \in Calls
    BY <1>12
  <2>1. /\ instance[k].parent \in Keys /\ instance[k].call \in Elements /\ instance[k].parent # NoKey
        /\ instance[k].call \in instance[instance[k].parent].active
    BY <1>2, <1>6
  <2>2. instance[k].call \in Calls BY <1>0, <1>2, <2>1 DEF Kinded
  <2>3. S(k).op = "CompleteCallActivity" /\ S(k).key = instance[k].parent /\ S(k).elem = instance[k].call
    BY <2>1, AtStep
  <2> HIDE DEF S
  <2> QED BY <2>1, <2>2, <2>3
<1>14. \A k \in Finished :
         instance[k].parent # NoKey /\ instance[k].call \in instance[instance[k].parent].active
            => S(k) \in Queued'
  BY <1>6, <1>12
<1>15. Queued = {} BY <1>1, EmptyQueue DEF Queued
<1>16. Base'
  <2>1. touched' \subseteq Keys /\ ended' \subseteq Keys /\ due' \subseteq Keys \X Elements
    BY <1>0, <1>1, <1>2 DEF TypeOK
  <2>2. \A s \in Queued' : /\ s.key \in Keys /\ instance[s.key].state # "None"
                           /\ s.op \in {"CompleteCallActivity", "RetryCallActivitySpawn"} => s.elem \in Calls
    BY <1>0, <1>13 DEF Known
  <2>3. ASSUME NEW k \in Keys PROVE Lessened(k)
    <3>1. CASE k \in Finished BY <1>5, <3>1 DEF Lessened, RunEmpty
    <3>2. CASE k \notin Finished BY <1>0, <1>1, <1>4, <3>2 DEF Lessened, Looked, Finished
    <3> QED BY <3>1, <3>2
  <2>4. UNCHANGED <<deployed, next_key>> BY <1>1
  <2> QED BY <1>4, <1>11, <2>1, <2>2, <2>3, <2>4, BaseMany
<1> QED BY <1>1, <1>2, <1>4, <1>5, <1>13, <1>14, <1>15, <1>16

\* Terminated, with all it waits on.
Reaped(k) ==
    /\ instance[k].state \in Reapable
    /\ instance'[k].state = "Terminated" /\ instance'[k].active = {}
    /\ instance'[k].timers = {} /\ instance'[k].incidents = {}
    /\ \A e \in Elements : /\ instance'[k].work[e] \notin Open
                           /\ instance'[k].work[e] # "None" => instance[k].work[e] # "None"
    /\ instance'[k].parent = instance[k].parent /\ instance'[k].call = instance[k].call
    /\ instance'[k].process = instance[k].process

LEMMA ReapedOne ==
    ASSUME TypeOK, NEW k \in Keys, instance[k].state \in Reapable,
           instance'[k] = DiscardAndTerminate(instance[k])
    PROVE  instance'[k] \in InstanceRecord /\ Reaped(k) /\ Lessened(k)
<1>1. instance[k] \in InstanceRecord BY Parts
<1> DEFINE q == DiscardAndTerminate(instance[k])
<1>2. /\ q \in InstanceRecord /\ q.state = "Terminated" /\ q.process = instance[k].process
      /\ q.parent = instance[k].parent /\ q.call = instance[k].call
      /\ q.active = {} /\ q.timers = {} /\ q.incidents = {}
      /\ q.work = [e \in Elements |-> IF instance[k].work[e] \in Open THEN "Canceled"
                                      ELSE instance[k].work[e]]
  BY <1>1, RecReaped
<1> HIDE DEF q
<1>3. instance'[k] = q BY DEF q
<1>4. \A e \in Elements : /\ instance'[k].work[e] \notin Open
                          /\ instance'[k].work[e] # "None" => instance[k].work[e] # "None"
  BY <1>2, <1>3 DEF Open
<1>5. instance[k].state # "None" BY DEF Reapable
<1> QED BY <1>2, <1>3, <1>4, <1>5 DEF Reaped, Lessened

\* The children of the instances that ended are terminated.
LEMMA ChildrenReaped ==
    ASSUME Base, cascade_cancel_children
    PROVE  /\ Base' /\ queue = << >> /\ Queued = {} /\ Queued' = {} /\ due = {} /\ due' = {}
           /\ instance' \in [Keys -> InstanceRecord]
           /\ \A k \in Keys : instance'[k] = instance[k] \/ Reaped(k)
<1>0. TypeOK /\ Looked BY DEF Base
<1>1. /\ due = {} /\ queue = << >> /\ ended' = ended \cup ChildrenOfEnded
      /\ touched' = touched \cup ChildrenOfEnded
      /\ instance' = [k \in Keys |-> IF k \in ChildrenOfEnded THEN DiscardAndTerminate(instance[k])
                                     ELSE instance[k]]
      /\ UNCHANGED <<deployed, next_key, due, queue>>
  BY DEF cascade_cancel_children, Drained
<1>2. ChildrenOfEnded \subseteq Keys /\ \A k \in ChildrenOfEnded : instance[k].state \in Reapable
  BY DEF ChildrenOfEnded
<1>3. \A k \in Keys : instance'[k] = IF k \in ChildrenOfEnded THEN DiscardAndTerminate(instance[k])
                                     ELSE instance[k]
  BY <1>1
<1>4. ASSUME NEW k \in Keys
      PROVE  /\ instance'[k] \in InstanceRecord /\ Lessened(k)
             /\ instance'[k] = instance[k] \/ Reaped(k)
  <2>1. CASE k \in ChildrenOfEnded BY <1>0, <1>2, <1>3, <2>1, ReapedOne
  <2>2. CASE k \notin ChildrenOfEnded
    <3>1. instance'[k] = instance[k] BY <1>3, <2>2
    <3>2. instance[k] \in InstanceRecord BY <1>0, Parts
    <3>3. touched \subseteq touched' BY <1>1
    <3> QED BY <1>0, <3>1, <3>2, <3>3 DEF Lessened, Looked
  <2> QED BY <2>1, <2>2
<1>5. instance' \in [Keys -> InstanceRecord] BY <1>1, <1>4
<1>6. Queued = {} /\ Queued' = {} /\ queue' \in Seq(Steps) BY <1>1, EmptyQueue DEF Queued
<1>7. Base'
  <2>1. touched' \subseteq Keys /\ ended' \subseteq Keys /\ due' \subseteq Keys \X Elements
    BY <1>0, <1>1, <1>2 DEF TypeOK
  <2>2. UNCHANGED <<deployed, next_key>> BY <1>1
  <2> QED BY <1>4, <1>5, <1>6, <2>1, <2>2, BaseMany
<1> QED BY <1>1, <1>4, <1>5, <1>6, <1>7

\* The command is over.
LEMMA CommandOver ==
    ASSUME Base, Quiesce
    PROVE  /\ Base' /\ instance' = instance /\ queue' = queue /\ queue = << >>
           /\ due = {} /\ due' = {}
<1>0. TypeOK /\ Looked BY DEF Base
<1>1. /\ due = {} /\ queue = << >> /\ Finished = {} /\ touched' = {} /\ ended' = {}
      /\ UNCHANGED <<deployed, instance, next_key, due, queue>>
  BY DEF Quiesce, Drained
<1>2. \A k \in Keys : ~(instance[k].state = "Active" /\ instance[k].active = {})
  BY <1>0, <1>1 DEF Finished, Looked
<1>3. Queued' = Queued BY <1>1 DEF Queued
<1>4. Base' BY <1>0, <1>1, <1>2, <1>3, BaseQuiet DEF TypeOK
<1> QED BY <1>1, <1>4

\* A due timer has been disarmed, or takes the token of its call activity away.
LEMMA TimerFired ==
    ASSUME Base, NEW k \in Keys, NEW e \in Elements, FireTimer(k, e)
    PROVE  /\ Base' /\ due # {} /\ due' \subseteq due /\ instance' \in [Keys -> InstanceRecord]
           /\ \/ instance' = instance /\ queue' = queue
              \/ /\ e \in instance[k].timers /\ e \in Timed /\ instance[k].state # "None"
                 /\ Boundary[e] \in Elements
                 /\ Queued' = Queued \cup {Step("Activate", k, Boundary[e])}
                 /\ instance'[k].state = instance[k].state
                 /\ instance'[k].active = instance[k].active \ {e}
                 /\ instance'[k].work = instance[k].work
                 /\ instance'[k].timers = instance[k].timers \ {e}
                 /\ instance'[k].incidents = instance[k].incidents
                 /\ instance'[k].process = instance[k].process
                 /\ instance'[k].parent = instance[k].parent /\ instance'[k].call = instance[k].call
                 /\ \A i \in Keys : i # k => instance'[i] = instance[i] \/ Reaped(i)
<1>0. TypeOK /\ Kinded /\ Looked /\ Known BY DEF Base
<1>1. <<k, e>> \in due /\ due' = due \ {<<k, e>>} /\ UNCHANGED <<deployed, next_key>> BY DEF FireTimer
<1>2. due # {} /\ due' \subseteq due /\ due' \subseteq Keys \X Elements BY <1>0, <1>1 DEF TypeOK
<1>3. CASE ~StillArmed(k, e)
  <2>1. UNCHANGED <<instance, queue, touched, ended>> BY <1>3 DEF FireTimer
  <2>2. Queued' = Queued BY <2>1 DEF Queued
  <2>3. deployed' = deployed /\ next_key' = next_key BY <1>1
  <2>4. Base' BY <1>0, <1>2, <2>1, <2>2, <2>3, BaseQuiet DEF TypeOK, Looked
  <2> QED BY <1>0, <1>2, <2>1, <2>4 DEF TypeOK
<1>4. CASE StillArmed(k, e)
  <2> DEFINE child == call_activity_child_of(k, e)
             s == Step("Activate", k, Boundary[e])
             r == ElementCompleted(instance[k], e)
  <2>1. /\ instance' = [i \in Keys |-> IF i = k THEN r
                                       ELSE IF i \in child THEN DiscardAndTerminate(instance[i])
                                       ELSE instance[i]]
        /\ queue' = Append(queue, s)
        /\ touched' = touched \cup {k} \cup child /\ ended' = ended \cup child
    BY <1>4 DEF FireTimer
  <2>2. child \subseteq Keys /\ \A i \in child : instance[i].state \in Reapable
    BY DEF call_activity_child_of
  <2>3. e \in instance[k].timers /\ e \in Timed /\ instance[k].state # "None"
    BY <1>0, <1>4 DEF StillArmed, Kinded, Known
  <2>4. Boundary[e] \in Elements BY <2>3, TreeAssumption DEF Timed
  <2>5. s \in Steps /\ s.op = "Activate" /\ s.key = k BY <2>4, AtStep
  <2>6. queue' \in Seq(Steps) /\ Queued' = Queued \cup {s}
    BY <1>0, <2>1, <2>5, Appended DEF Queued, TypeOK
  <2> HIDE DEF s
  <2>7. instance[k] \in InstanceRecord BY <1>0, Parts
  <2>8. /\ r \in InstanceRecord /\ r.state = instance[k].state /\ r.process = instance[k].process
        /\ r.parent = instance[k].parent /\ r.call = instance[k].call
        /\ r.active = instance[k].active \ {e} /\ r.work = instance[k].work
        /\ r.timers = instance[k].timers \ {e} /\ r.incidents = instance[k].incidents
    BY <2>7, RecCompleted
  <2> HIDE DEF r
  <2>9. /\ instance'[k] = r
        /\ \A i \in Keys : i # k => instance'[i] = IF i \in child THEN DiscardAndTerminate(instance[i])
                                                   ELSE instance[i]
    BY <2>1
  <2>10. touched' \subseteq Keys /\ ended' \subseteq Keys /\ touched \subseteq touched' /\ k \in touched'
    BY <1>0, <2>1, <2>2 DEF TypeOK
  <2>11. ASSUME NEW i \in Keys
         PROVE  /\ instance'[i] \in InstanceRecord /\ Lessened(i)
                /\ i # k => instance'[i] = instance[i] \/ Reaped(i)
    <3>1. CASE i = k BY <2>3, <2>8, <2>9, <2>10, <3>1 DEF Lessened
    <3>2. CASE i # k /\ i \in child BY <1>0, <2>2, <2>9, <3>2, ReapedOne
    <3>3. CASE i # k /\ i \notin child
      <4>1. instance'[i] = instance[i] BY <2>9, <3>3
      <4>2. instance[i] \in InstanceRecord BY <1>0, Parts
      <4> QED BY <1>0, <2>10, <3>3, <4>1, <4>2 DEF Lessened, Looked
    <3> QED BY <3>1, <3>2, <3>3
  <2>12. instance' \in [Keys -> InstanceRecord] BY <2>1, <2>11
  <2>13. Base'
    <3>1. UNCHANGED <<deployed, next_key>> BY <1>1
    <3>2. \A t \in Queued' :
              \/ t \in Queued
              \/ /\ t.key \in Keys /\ instance[t.key].state # "None"
                 /\ t.op \in {"CompleteCallActivity", "RetryCallActivitySpawn"} => t.elem \in Calls
      BY <2>3, <2>5, <2>6
    <3>3. ended' \subseteq Keys /\ touched' \subseteq Keys BY <2>10
    <3>4. \A i \in Keys : Lessened(i) BY <2>11
    <3> QED BY <1>2, <2>6, <2>12, <3>1, <3>2, <3>3, <3>4, BaseMany
  <2>14. /\ instance'[k].state = instance[k].state
         /\ instance'[k].active = instance[k].active \ {e}
         /\ instance'[k].work = instance[k].work
         /\ instance'[k].timers = instance[k].timers \ {e}
         /\ instance'[k].incidents = instance[k].incidents
         /\ instance'[k].process = instance[k].process
         /\ instance'[k].parent = instance[k].parent /\ instance'[k].call = instance[k].call
    BY <2>8, <2>9
  <2>15. \A i \in Keys : i # k => instance'[i] = instance[i] \/ Reaped(i) BY <2>11
  <2> QED BY <1>2, <2>3, <2>4, <2>6, <2>12, <2>13, <2>14, <2>15 DEF s
<1> QED BY <1>3, <1>4

-----------------------------------------------------------------------------
(* The commands, one by one.                                               *)

\* A command to the instance k, which queues one step at most.
Order(k) ==
    /\ queue = << >> /\ due = {} /\ due' = {} /\ Queued = {}
    /\ Queued' # {} => Len(queue') = 1
    /\ instance[k].state # "None" /\ instance'[k].state # "None"
    /\ instance' \in [Keys -> InstanceRecord]
    /\ instance'[k].process = instance[k].process
    /\ instance'[k].parent = instance[k].parent /\ instance'[k].call = instance[k].call
    /\ \A i \in Keys : i # k => instance'[i] = instance[i]

LEMMA Ordered ==
    ASSUME Base, Idle, NEW k \in Keys, NEW r \in InstanceRecord,
           instance' = [instance EXCEPT ![k] = r],
           r.process = instance[k].process, r.parent = instance[k].parent, r.call = instance[k].call,
           r.timers \subseteq instance[k].timers, r.incidents \subseteq instance[k].incidents,
           \A e \in Elements : r.work[e] # "None" => instance[k].work[e] # "None",
           instance[k].state # "None", r.state # "None",
           k \in touched' \/ (r.state = instance[k].state /\ r.active = instance[k].active),
           touched' \subseteq {k}, ended' \subseteq {k},
           queue' \in Seq(Steps), Queued' # {} => Len(queue') = 1,
           \A s \in Queued' : s.key = k /\ s.elem \in Elements
                          /\ (s.op \in {"CompleteCallActivity", "RetryCallActivitySpawn"} => s.elem \in Calls),
           deployed' = deployed, next_key' = next_key, due' = due
    PROVE  Base' /\ Order(k) /\ instance'[k] = r
<1>0. TypeOK BY DEF Base
<1>1. queue = << >> /\ due = {} /\ touched = {} /\ ended = {} BY DEF Idle
<1>2. Queued = {} BY <1>1, EmptyQueue DEF Queued
<1>3. /\ r.timers \subseteq Timed /\ r.incidents \subseteq Calls
      /\ \A e \in Elements : r.work[e] # "None" => Kind[e] \in {"task", "user"}
  BY Kept
<1>4. /\ touched \subseteq touched' /\ touched' \subseteq Keys /\ ended' \subseteq Keys
      /\ due' \subseteq Keys \X Elements /\ due' = {}
  BY <1>1
<1>5. \A s \in Queued' :
              \/ s \in Queued
              \/ /\ s.key \in Keys /\ instance[s.key].state # "None"
                 /\ s.op \in {"CompleteCallActivity", "RetryCallActivitySpawn"} => s.elem \in Calls
  OBVIOUS
<1>6. UNCHANGED <<deployed, next_key>> OBVIOUS
<1>7. Base' BY <1>3, <1>4, <1>5, <1>6, BaseOne
<1>8. /\ instance' \in [Keys -> InstanceRecord] /\ instance'[k] = r
      /\ \A i \in Keys : i # k => instance'[i] = instance[i]
  BY <1>0 DEF TypeOK
<1>9. Order(k) BY <1>1, <1>2, <1>4, <1>8 DEF Order
<1> QED BY <1>7, <1>8, <1>9

\* What Command says.
LEMMA Commanded ==
    ASSUME Base, NEW k \in Keys, NEW s, Command(k, s)
    PROVE  /\ Idle /\ touched' = {k} /\ ended = {} /\ queue' = s /\ deployed' = deployed
           /\ next_key' = next_key /\ due' = due
BY DEF Command, Idle

\* A process is deployed.
LEMMA Deployed ==
    ASSUME Base, NEW p \in Processes, DeployProcess(p)
    PROVE  /\ Base' /\ instance' = instance /\ queue' = queue /\ due = {} /\ due' = {}
<1>0. TypeOK /\ Looked BY DEF Base
<1>1. /\ Idle /\ deployed' = deployed \cup {p} /\ instance' = instance /\ next_key' = next_key
      /\ due' = due /\ queue' = queue /\ touched' = touched /\ ended' = ended
  BY DEF DeployProcess, drain
<1>2. Queued' = Queued BY <1>1 DEF Queued
<1>3. Base' BY <1>0, <1>1, <1>2, BaseQuiet DEF TypeOK, Looked
<1> QED BY <1>1, <1>3 DEF Idle

\* The due timers are collected.
LEMMA TimersDue ==
    ASSUME Base, NEW fired \in SUBSET {t \in Keys \X Elements : t[2] \in instance[t[1]].timers},
           TriggerTimers(fired)
    PROVE  /\ Base' /\ instance' = instance /\ queue' = queue /\ queue = << >>
<1>0. TypeOK /\ Looked BY DEF Base
<1>1. /\ Idle /\ due' = fired
      /\ UNCHANGED <<deployed, instance, next_key, queue, touched, ended>>
  BY DEF TriggerTimers
<1>2. Queued' = Queued BY <1>1 DEF Queued
<1>3. Base' BY <1>0, <1>1, <1>2, BaseQuiet DEF TypeOK, Looked
<1> QED BY <1>1, <1>3 DEF Idle

\* A client creates an instance.
LEMMA InstanceCreated ==
    ASSUME Base, NEW p \in Processes, CreateInstance(p)
    PROVE  /\ Base' /\ due = {} /\ due' = {} /\ Queued = {}
           /\ Queued' = {Step("Activate", next_key, StartEvent[p])}
           /\ Len(queue') = 1
           /\ next_key \in Keys /\ instance[next_key].state = "None"
           /\ instance' \in [Keys -> InstanceRecord]
           /\ instance'[next_key].state = "Active" /\ instance'[next_key].process = p
           /\ instance'[next_key].parent = NoKey
           /\ instance'[next_key].active = {} /\ instance'[next_key].timers = {}
           /\ instance'[next_key].incidents = {}
           /\ \A f \in Elements : instance'[next_key].work[f] = "None"
           /\ \A i \in Keys : i # next_key => instance'[i] = instance[i]
<1>0. TypeOK /\ Fresh BY DEF Base
<1> DEFINE c == ProcessInstanceCreated(p, NoKey, NoElement)
           s == Step("Activate", next_key, StartEvent[p])
<1>1. /\ Idle /\ next_key \in Keys /\ instance' = [instance EXCEPT ![next_key] = c]
      /\ next_key' = next_key + 1 /\ queue' = <<s>> /\ touched' = {next_key}
      /\ deployed' = deployed /\ due' = due /\ ended' = ended
  BY DEF CreateInstance
<1>2. s \in Steps /\ s.op = "Activate" /\ s.key = next_key BY <1>1, TreeAssumption, AtStep
<1> HIDE DEF s
<1>3. queue' \in Seq(Steps) /\ Queued' = {s} /\ Len(queue') = 1 BY <1>1, <1>2, OneStep DEF Queued
<1>4. /\ queue = << >> /\ due = {} /\ touched = {} /\ Queued = {} BY <1>1, EmptyQueue DEF Idle, Queued
<1>5. instance[next_key].state = "None" BY <1>0, <1>1, TreeAssumption DEF Fresh, Keys
<1>6. /\ c \in InstanceRecord /\ c.state = "Active" /\ c.process = p /\ c.parent = NoKey
      /\ c.active = {} /\ c.timers = {} /\ c.incidents = {} /\ c.work = [e \in Elements |-> "None"]
  BY RecCreated
<1>7. instance' = [instance EXCEPT ![next_key] = instance[next_key], ![next_key] = c]
  BY <1>0, <1>1 DEF TypeOK
<1> HIDE DEF c
<1>8. instance[next_key] \in InstanceRecord BY <1>0, <1>1, Parts
<1>9. \A t \in Queued' : t \in Queued \/ (t.op = "Activate" /\ t.key = next_key) BY <1>2, <1>3
<1>10. touched \subseteq touched' /\ touched' \subseteq Keys /\ next_key \in touched' BY <1>1, <1>4
<1>11. Base'
  <2>1. instance' = [instance EXCEPT ![next_key] = instance[next_key],
                                     ![next_key] = ProcessInstanceCreated(p, NoKey, NoElement)]
    BY <1>7 DEF c
  <2>2. NoElement \in Elements \cup {NoElement} /\ NoKey \in Keys \cup {NoKey} OBVIOUS
  <2> QED BY <1>1, <1>3, <1>8, <1>9, <1>10, <2>1, <2>2, BaseCreated
<1>12. /\ instance' \in [Keys -> InstanceRecord] /\ instance'[next_key] = c
       /\ \A i \in Keys : i # next_key => instance'[i] = instance[i]
  BY <1>0, <1>1, <1>6 DEF TypeOK
<1>13. \A f \in Elements : c.work[f] = "None" BY <1>6
<1> QED BY <1>1, <1>3, <1>4, <1>5, <1>6, <1>11, <1>12, <1>13 DEF s

\* A job or user task of k changes; nothing else of k does.
WorkOnly(k, e, w) ==
    /\ instance'[k].state = instance[k].state /\ instance'[k].active = instance[k].active
    /\ instance'[k].timers = instance[k].timers /\ instance'[k].incidents = instance[k].incidents
    /\ \A f \in Elements : instance'[k].work[f] = IF f = e THEN w ELSE instance[k].work[f]

LEMMA WorkOrdered ==
    ASSUME Base, Idle, NEW k \in Keys, NEW e \in Elements, NEW w \in Works,
           instance' = [instance EXCEPT ![k].work[e] = w], instance[k].work[e] # "None",
           touched' \subseteq {k}, ended' \subseteq {k},
           queue' \in Seq(Steps), Queued' # {} => Len(queue') = 1,
           \A s \in Queued' : s.key = k /\ s.elem = e /\ s.op = "Complete",
           deployed' = deployed, next_key' = next_key, due' = due
    PROVE  Base' /\ Order(k) /\ WorkOnly(k, e, w)
<1>0. TypeOK /\ Known BY DEF Base
<1> DEFINE r == [instance[k] EXCEPT !.work[e] = w]
<1>1. instance[k] \in InstanceRecord /\ instance[k].work \in [Elements -> Works] BY <1>0, Parts
<1>2. instance' = [instance EXCEPT ![k] = r] BY <1>0 DEF TypeOK
<1>3. /\ r \in InstanceRecord /\ r.state = instance[k].state /\ r.process = instance[k].process
      /\ r.parent = instance[k].parent /\ r.call = instance[k].call /\ r.active = instance[k].active
      /\ r.work = [instance[k].work EXCEPT ![e] = w]
      /\ r.timers = instance[k].timers /\ r.incidents = instance[k].incidents
  BY <1>1, RecWork
<1> HIDE DEF r
<1>4. \A f \in Elements : r.work[f] = IF f = e THEN w ELSE instance[k].work[f] BY <1>1, <1>3
<1>5. instance[k].state # "None" BY <1>0 DEF Known
<1>6. \A f \in Elements : r.work[f] # "None" => instance[k].work[f] # "None" BY <1>4
<1>7. \A s \in Queued' : s.key = k /\ s.elem \in Elements
                     /\ (s.op \in {"CompleteCallActivity", "RetryCallActivitySpawn"} => s.elem \in Calls)
  OBVIOUS
<1>8. Base' /\ Order(k) /\ instance'[k] = r BY <1>2, <1>3, <1>5, <1>6, <1>7, Ordered
<1> QED BY <1>3, <1>4, <1>8 DEF WorkOnly

\* A worker takes a job.
LEMMA JobTaken ==
    ASSUME Base, NEW k \in Keys, NEW e \in Elements, ActivateJob(k, e)
    PROVE  /\ Base' /\ Order(k) /\ Queued' = {} /\ WorkOnly(k, e, "Activated")
           /\ instance[k].work[e] = "Created"
<1>1. /\ Idle /\ instance[k].work[e] = "Created"
      /\ instance' = [instance EXCEPT ![k].work[e] = "Activated"]
      /\ deployed' = deployed /\ next_key' = next_key
      /\ due' = due /\ queue' = queue /\ touched' = touched /\ ended' = ended
  BY DEF ActivateJob, drain
<1>2. queue = << >> /\ touched = {} /\ ended = {} BY <1>1 DEF Idle
<1>3. queue' \in Seq(Steps) /\ Queued' = {} BY <1>1, <1>2, EmptyQueue DEF Queued
<1>4. "Activated" \in Works BY DEF Works
<1> QED BY <1>1, <1>2, <1>3, <1>4, WorkOrdered

\* A job or a user task completes.
LEMMA WorkDone ==
    ASSUME Base, NEW k \in Keys, NEW e \in Elements, CompleteJob(k, e) \/ CompleteUserTask(k, e)
    PROVE  /\ Base' /\ Order(k) /\ Queued' = {Step("Complete", k, e)} /\ WorkOnly(k, e, "Completed")
           /\ instance[k].work[e] \in {"Created", "Activated"} /\ Kind[e] \in {"task", "user"}
<1> DEFINE s == Step("Complete", k, e)
<1>1. /\ instance[k].work[e] \in {"Created", "Activated"} /\ Command(k, <<s>>)
      /\ instance' = [instance EXCEPT ![k].work[e] = "Completed"] /\ ended' = ended
  BY DEF CompleteJob, CompleteUserTask
<1>2. s \in Steps /\ s.op = "Complete" /\ s.key = k /\ s.elem = e BY AtStep
<1>3. /\ Idle /\ touched' = {k} /\ ended = {} /\ queue' = <<s>> /\ deployed' = deployed
      /\ next_key' = next_key /\ due' = due
  BY <1>1, Commanded
<1> HIDE DEF s
<1>4. queue' \in Seq(Steps) /\ Queued' = {s} /\ Len(queue') = 1 BY <1>2, <1>3, OneStep DEF Queued
<1>5. "Completed" \in Works BY DEF Works
<1>6. Base' /\ Order(k) /\ WorkOnly(k, e, "Completed")
  BY <1>1, <1>2, <1>3, <1>4, <1>5, WorkOrdered
<1>7. Kind[e] \in {"task", "user"} BY <1>1, Kept
<1> QED BY <1>1, <1>4, <1>6, <1>7 DEF s

\* The state of k changes; nothing else of k does.
StateOnly(k, st) ==
    /\ instance'[k].state = st /\ instance'[k].active = instance[k].active
    /\ instance'[k].timers = instance[k].timers /\ instance'[k].incidents = instance[k].incidents
    /\ instance'[k].work = instance[k].work

LEMMA StateOrdered ==
    ASSUME Base, NEW k \in Keys, NEW st \in States, Command(k, << >>), ended' = ended,
           instance' = [instance EXCEPT ![k].state = st], instance[k].state # "None", st # "None"
    PROVE  Base' /\ Order(k) /\ Queued' = {} /\ StateOnly(k, st)
<1>0. TypeOK BY DEF Base
<1> DEFINE r == [instance[k] EXCEPT !.state = st]
<1>1. instance[k] \in InstanceRecord BY <1>0, Parts
<1>2. instance' = [instance EXCEPT ![k] = r] BY <1>0 DEF TypeOK
<1>3. /\ r \in InstanceRecord /\ r.state = st /\ r.process = instance[k].process
      /\ r.parent = instance[k].parent /\ r.call = instance[k].call /\ r.active = instance[k].active
      /\ r.work = instance[k].work /\ r.timers = instance[k].timers
      /\ r.incidents = instance[k].incidents
  BY <1>1, RecState
<1> HIDE DEF r
<1>4. /\ Idle /\ touched' = {k} /\ ended = {} /\ queue' = << >> /\ deployed' = deployed
      /\ next_key' = next_key /\ due' = due
  BY Commanded
<1>5. queue' \in Seq(Steps) /\ Queued' = {} BY <1>4, EmptyQueue DEF Queued
<1>6. \A f \in Elements : r.work[f] # "None" => instance[k].work[f] # "None" BY <1>3
<1>7. Base' /\ Order(k) /\ Queued' = {} /\ instance'[k] = r
  BY <1>2, <1>3, <1>4, <1>5, <1>6, Ordered
<1> QED BY <1>3, <1>5, <1>7 DEF StateOnly

\* Suspended.
LEMMA InstanceSuspended ==
    ASSUME Base, NEW k \in Keys, SuspendInstance(k)
    PROVE  Base' /\ Order(k) /\ Queued' = {} /\ StateOnly(k, "Suspended") /\ instance[k].state = "Active"
<1>1. /\ instance[k].state = "Active" /\ Command(k, << >>) /\ ended' = ended
      /\ instance' = [instance EXCEPT ![k].state = "Suspended"]
  BY DEF SuspendInstance
<1>2. "Suspended" \in States BY DEF States
<1> QED BY <1>1, <1>2, StateOrdered

\* Resumed.
LEMMA InstanceResumed ==
    ASSUME Base, NEW k \in Keys, ResumeInstance(k)
    PROVE  Base' /\ Order(k) /\ Queued' = {} /\ StateOnly(k, "Active") /\ instance[k].state = "Suspended"
<1>1. /\ instance[k].state = "Suspended" /\ Command(k, << >>) /\ ended' = ended
      /\ instance' = [instance EXCEPT ![k].state = "Active"]
  BY DEF ResumeInstance
<1>2. "Active" \in States BY DEF States
<1> QED BY <1>1, <1>2, StateOrdered

\* An incident is resolved: the spawn is to be tried again.
LEMMA IncidentResolved ==
    ASSUME Base, NEW k \in Keys, NEW e \in Elements, ResolveIncident(k, e)
    PROVE  /\ Base' /\ Order(k) /\ Queued' = {Step("RetryCallActivitySpawn", k, e)} /\ e \in Calls
           /\ instance'[k].state = instance[k].state /\ instance'[k].active = instance[k].active
           /\ instance'[k].timers = instance[k].timers /\ instance'[k].work = instance[k].work
           /\ instance'[k].incidents = instance[k].incidents \ {e}
<1>0. TypeOK /\ Known BY DEF Base
<1> DEFINE S == instance[k].incidents \ {e}
           r == [instance[k] EXCEPT !.incidents = S]
           s == Step("RetryCallActivitySpawn", k, e)
<1>1. /\ e \in instance[k].incidents /\ Command(k, <<s>>) /\ ended' = ended
      /\ instance' = [instance EXCEPT ![k].incidents = @ \ {e}]
  BY DEF ResolveIncident
<1>2. instance[k] \in InstanceRecord /\ instance[k].incidents \subseteq Elements BY <1>0, Parts
<1>3. instance' = [instance EXCEPT ![k] = r] BY <1>0, <1>1 DEF TypeOK
<1>4. /\ r \in InstanceRecord /\ r.state = instance[k].state /\ r.process = instance[k].process
      /\ r.parent = instance[k].parent /\ r.call = instance[k].call /\ r.active = instance[k].active
      /\ r.work = instance[k].work /\ r.timers = instance[k].timers /\ r.incidents = S
  BY <1>2, RecIncidents
<1> HIDE DEF r
<1>5. s \in Steps /\ s.op = "RetryCallActivitySpawn" /\ s.key = k /\ s.elem = e BY AtStep
<1>6. /\ Idle /\ touched' = {k} /\ ended = {} /\ queue' = <<s>> /\ deployed' = deployed
      /\ next_key' = next_key /\ due' = due
  BY <1>1, Commanded
<1> HIDE DEF s
<1>7. queue' \in Seq(Steps) /\ Queued' = {s} /\ Len(queue') = 1 BY <1>5, <1>6, OneStep DEF Queued
<1>8. e \in Calls BY <1>1, Kept
<1>9. instance[k].state # "None" BY <1>0, <1>1 DEF Known
<1>10. /\ \A f \in Elements : r.work[f] # "None" => instance[k].work[f] # "None"
       /\ r.timers \subseteq instance[k].timers /\ r.incidents \subseteq instance[k].incidents
       /\ touched' \subseteq {k} /\ ended' \subseteq {k} /\ k \in touched'
  BY <1>1, <1>4, <1>6
<1>11. \A t \in Queued' : t.key = k /\ t.elem \in Elements
                      /\ (t.op \in {"CompleteCallActivity", "RetryCallActivitySpawn"} => t.elem \in Calls)
  BY <1>5, <1>7, <1>8
<1>12. Base' /\ Order(k) /\ instance'[k] = r
  BY <1>3, <1>4, <1>6, <1>7, <1>9, <1>10, <1>11, Ordered
<1> QED BY <1>4, <1>7, <1>8, <1>12 DEF s

\* Waiting for its canceling listeners: what else it waited on is canceled.
Awaiting(k) ==
    /\ Deferred(instance[k]) # {}
    /\ instance'[k].state = "Terminating" /\ instance'[k].active = instance[k].active
    /\ instance'[k].timers = {} /\ instance'[k].incidents = instance[k].incidents
    /\ \A e \in Elements :
          /\ instance'[k].work[e] # "None" => instance[k].work[e] # "None"
          /\ instance'[k].work[e] \in Open =>
                instance'[k].work[e] = "Canceling" /\ instance[k].work[e] = "Created"

\* Canceled by a client.
LEMMA InstanceCanceled ==
    ASSUME Base, NEW k \in Keys, CancelInstance(k)
    PROVE  /\ Base' /\ Order(k) /\ Queued' = {} /\ instance[k].state = "Active"
           /\ Reaped(k) \/ Awaiting(k)
<1>0. TypeOK /\ Known BY DEF Base
<1> DEFINE b == instance[k]
<1>1. b.state = "Active" /\ Command(k, << >>) BY DEF CancelInstance
<1>2. b \in InstanceRecord /\ b.work \in [Elements -> Works] BY <1>0, Parts
<1>3. /\ Idle /\ touched' = {k} /\ ended = {} /\ queue' = << >> /\ deployed' = deployed
      /\ next_key' = next_key /\ due' = due
  BY <1>1, Commanded
<1>4. queue' \in Seq(Steps) /\ Queued' = {} BY <1>3, EmptyQueue DEF Queued
<1>5. CASE Deferred(b) = {}
  <2> DEFINE r == DiscardAndTerminate(b)
  <2>1. instance' = [instance EXCEPT ![k] = r] /\ ended' = {k} BY <1>5 DEF CancelInstance
  <2>2. instance'[k] = DiscardAndTerminate(instance[k]) BY <1>0, <2>1 DEF TypeOK
  <2>3. instance'[k] \in InstanceRecord /\ Reaped(k) BY <1>0, <1>1, <2>2, ReapedOne DEF Reapable
  <2> HIDE DEF r
  <2>4. instance'[k] = r BY <2>2 DEF r
  <2>5. /\ r \in InstanceRecord /\ r.state = "Terminated"
        /\ r.process = b.process /\ r.parent = b.parent /\ r.call = b.call
        /\ r.timers \subseteq b.timers /\ r.incidents \subseteq b.incidents
        /\ \A f \in Elements : r.work[f] # "None" => b.work[f] # "None"
    BY <2>3, <2>4 DEF Reaped
  <2>6. Base' /\ Order(k) BY <1>1, <1>3, <1>4, <2>1, <2>5, Ordered
  <2> QED BY <1>1, <1>4, <2>3, <2>6
<1>6. CASE Deferred(b) # {}
  <2> DEFINE d == DiscardTokens(b)
             w == [e \in Elements |-> IF e \in Deferred(b) THEN "Canceling" ELSE d.work[e]]
             t == [d EXCEPT !.state = "Terminating"]
             r == [t EXCEPT !.work = w]
  <2>1. /\ instance' = [instance EXCEPT ![k] =
                [d EXCEPT !.state = "Terminating",
                          !.work = [e \in Elements |-> IF e \in Deferred(b) THEN "Canceling" ELSE @[e]]]]
        /\ ended' = ended
    BY <1>6 DEF CancelInstance
  <2>2. /\ d \in InstanceRecord /\ d.process = b.process /\ d.parent = b.parent /\ d.call = b.call
        /\ d.active = b.active /\ d.timers = {} /\ d.incidents = b.incidents
        /\ d.work = [e \in Elements |-> IF b.work[e] \in Open THEN "Canceled" ELSE b.work[e]]
    BY <1>2, RecDiscarded
  <2>3. instance' = [instance EXCEPT ![k] = r]
    <3> HIDE DEF d
    <3> QED BY <2>1, <2>2 DEF InstanceRecord
  <2> HIDE DEF d
  <2>4. /\ t \in InstanceRecord /\ t.state = "Terminating" /\ t.process = d.process
        /\ t.parent = d.parent /\ t.call = d.call /\ t.active = d.active
        /\ t.timers = d.timers /\ t.incidents = d.incidents
    BY <2>2, RecState DEF States
  <2> HIDE DEF t
  <2>5. w \in [Elements -> Works]
    <3>1. d.work \in [Elements -> Works] BY <2>2 DEF InstanceRecord
    <3> QED BY <3>1 DEF Works
  <2>6. \A f \in Elements :
          w[f] = IF b.work[f] = "Created" /\ f \in Listening THEN "Canceling"
                 ELSE IF b.work[f] \in Open THEN "Canceled" ELSE b.work[f]
    BY <2>2 DEF Deferred
  <2> HIDE DEF w
  <2>7. /\ r \in InstanceRecord /\ r.state = t.state /\ r.process = t.process
        /\ r.parent = t.parent /\ r.call = t.call /\ r.active = t.active
        /\ r.timers = t.timers /\ r.incidents = t.incidents /\ r.work = w
    BY <2>4, <2>5, RecWorks
  <2> HIDE DEF r
  <2>8. \A f \in Elements :
           /\ r.work[f] # "None" => b.work[f] # "None"
           /\ r.work[f] \in Open => r.work[f] = "Canceling" /\ b.work[f] = "Created"
    BY <2>6, <2>7 DEF Open
  <2>9. /\ r.state = "Terminating" /\ r.process = b.process /\ r.parent = b.parent /\ r.call = b.call
        /\ r.timers = {} /\ r.incidents = b.incidents /\ r.active = b.active
    BY <2>2, <2>4, <2>7
  <2>10. Base' /\ Order(k) /\ instance'[k] = r
    BY <1>1, <1>3, <1>4, <2>1, <2>3, <2>7, <2>8, <2>9, Ordered
  <2>11. Awaiting(k) BY <1>6, <2>8, <2>9, <2>10 DEF Awaiting
  <2> QED BY <1>1, <1>4, <2>10, <2>11
<1> QED BY <1>5, <1>6

\* The last canceling listener has answered.
LastAnswer(k, e) ==
    /\ instance[k].state = "Terminating"
    /\ instance'[k].state = "Terminated" /\ instance'[k].active = {}
    /\ instance'[k].timers = instance[k].timers /\ instance'[k].incidents = {}
    /\ \A f \in Elements : /\ instance'[k].work[f] = IF f = e THEN "Canceled" ELSE instance[k].work[f]
                           /\ instance'[k].work[f] # "Canceling"

LEMMA ListenerAnswered ==
    ASSUME Base, NEW k \in Keys, NEW e \in Elements, CompleteListener(k, e)
    PROVE  /\ Base' /\ Order(k) /\ Queued' = {} /\ instance[k].work[e] = "Canceling"
           /\ WorkOnly(k, e, "Canceled") \/ LastAnswer(k, e)
<1>0. TypeOK /\ Known BY DEF Base
<1> DEFINE b == instance[k]
           c == [b EXCEPT !.work[e] = "Canceled"]
<1>1. b.work[e] = "Canceling" /\ Command(k, << >>) BY DEF CompleteListener
<1>2. b \in InstanceRecord /\ b.work \in [Elements -> Works] BY <1>0, Parts
<1>3. /\ Idle /\ touched' = {k} /\ ended = {} /\ queue' = << >> /\ deployed' = deployed
      /\ next_key' = next_key /\ due' = due
  BY <1>1, Commanded
<1>4. queue' \in Seq(Steps) /\ Queued' = {} BY <1>3, EmptyQueue DEF Queued
<1>5. \/ /\ c.state = "Terminating" /\ OthersCanceling(c, e) = {}
         /\ instance' = [instance EXCEPT ![k] = ProcessInstanceTerminated(c)] /\ ended' = {k}
      \/ instance' = [instance EXCEPT ![k] = c] /\ ended' = ended
  BY DEF CompleteListener
<1>6. /\ c \in InstanceRecord /\ c.state = b.state /\ c.process = b.process
      /\ c.parent = b.parent /\ c.call = b.call /\ c.active = b.active
      /\ c.work = [b.work EXCEPT ![e] = "Canceled"]
      /\ c.timers = b.timers /\ c.incidents = b.incidents
  BY <1>2, RecWork DEF Works
<1> HIDE DEF c
<1>7. \A f \in Elements : c.work[f] = IF f = e THEN "Canceled" ELSE b.work[f] BY <1>2, <1>6
<1>8. \A f \in Elements : c.work[f] # "None" => b.work[f] # "None" BY <1>1, <1>7
<1>9. b.state # "None" BY <1>0, <1>1 DEF Known
<1>10. CASE instance' = [instance EXCEPT ![k] = c] /\ ended' = ended
  <2>1. Base' /\ Order(k) /\ instance'[k] = c
    BY <1>3, <1>4, <1>6, <1>8, <1>9, <1>10, Ordered
  <2>2. WorkOnly(k, e, "Canceled") BY <1>6, <1>7, <2>1 DEF WorkOnly
  <2> QED BY <1>1, <1>4, <2>1, <2>2
<1>11. CASE /\ c.state = "Terminating" /\ OthersCanceling(c, e) = {}
            /\ instance' = [instance EXCEPT ![k] = ProcessInstanceTerminated(c)] /\ ended' = {k}
  <2> DEFINE r == ProcessInstanceTerminated(c)
  <2>1. /\ r \in InstanceRecord /\ r.state = "Terminated" /\ r.process = c.process
        /\ r.parent = c.parent /\ r.call = c.call /\ r.active = {}
        /\ r.work = c.work /\ r.timers = c.timers /\ r.incidents = {}
    BY <1>6, RecTerminated
  <2> HIDE DEF r
  <2>2. instance' = [instance EXCEPT ![k] = r] BY <1>11 DEF r
  <2>3. /\ r.process = b.process /\ r.parent = b.parent /\ r.call = b.call
        /\ r.timers \subseteq b.timers /\ r.incidents \subseteq b.incidents
        /\ \A f \in Elements : r.work[f] # "None" => b.work[f] # "None"
    BY <1>6, <1>8, <2>1
  <2>4. Base' /\ Order(k) /\ instance'[k] = r
    BY <1>3, <1>4, <1>9, <1>11, <2>1, <2>2, <2>3, Ordered
  <2>5. \A f \in Elements : c.work[f] # "Canceling" BY <1>7, <1>11 DEF OthersCanceling
  <2>6. LastAnswer(k, e) BY <1>6, <1>7, <1>11, <2>1, <2>4, <2>5 DEF LastAnswer
  <2> QED BY <1>1, <1>4, <2>4, <2>6
<1> QED BY <1>5, <1>10, <1>11

-----------------------------------------------------------------------------
(* The shape of the state, and: nothing that has run empty is forgotten.   *)

LEMMA BaseNext ==
    ASSUME Base, [Next]_vars
    PROVE  Base'
<1>1. CASE DropStep BY <1>1, StepDropped
<1>2. CASE ActivatePass BY <1>2, PassEntered
<1>3. CASE ActivateTask BY <1>3, TaskEntered
<1>4. CASE ActivateCallActivity BY <1>4, CallEntered
<1>5. CASE RetryCallActivitySpawn BY <1>5, SpawnRetried
<1>6. CASE Complete BY <1>6, ElementLeft
<1>7. CASE CompleteTerminateEnd BY <1>7, TerminateEnded
<1>8. CASE CompleteCallActivity BY <1>8, CallLeft
<1>9. CASE complete_finished_instances BY <1>9, EmptyCompleted
<1>10. CASE cascade_cancel_children BY <1>10, ChildrenReaped
<1>11. CASE Quiesce BY <1>11, CommandOver
<1>12. ASSUME NEW k \in Keys, NEW e \in Elements, FireTimer(k, e) PROVE Base'
  BY <1>12, TimerFired
<1>13. ASSUME NEW p \in Processes, DeployProcess(p) PROVE Base' BY <1>13, Deployed
<1>14. ASSUME NEW p \in Roots, CreateInstance(p) PROVE Base'
  <2>1. p \in Processes BY TreeAssumption
  <2> QED BY <1>14, <2>1, InstanceCreated
<1>15. ASSUME NEW k \in Keys, CancelInstance(k) PROVE Base' BY <1>15, InstanceCanceled
<1>16. ASSUME NEW k \in Keys, SuspendInstance(k) PROVE Base' BY <1>16, InstanceSuspended
<1>17. ASSUME NEW k \in Keys, ResumeInstance(k) PROVE Base' BY <1>17, InstanceResumed
<1>18. ASSUME NEW k \in Keys, NEW e \in Elements, ActivateJob(k, e) PROVE Base' BY <1>18, JobTaken
<1>19. ASSUME NEW k \in Keys, NEW e \in Elements, CompleteJob(k, e) \/ CompleteUserTask(k, e)
       PROVE  Base'
  BY <1>19, WorkDone
<1>20. ASSUME NEW k \in Keys, NEW e \in Elements, CompleteListener(k, e) PROVE Base'
  BY <1>20, ListenerAnswered
<1>21. ASSUME NEW k \in Keys, NEW e \in Elements, ResolveIncident(k, e) PROVE Base'
  BY <1>21, IncidentResolved
<1>22. ASSUME NEW fired \in SUBSET {t \in Keys \X Elements : t[2] \in instance[t[1]].timers},
              TriggerTimers(fired)
       PROVE  Base'
  BY <1>22, TimersDue
<1>23. CASE UNCHANGED vars
  <2>1. /\ instance' = instance /\ next_key' = next_key /\ deployed' = deployed /\ due' = due
        /\ queue' = queue /\ touched' = touched /\ ended' = ended
    BY <1>23 DEF vars, drain
  <2> QED BY <2>1 DEF Base, TypeOK, Kinded, Fresh, Looked, Known, Queued
<1> QED BY <1>1, <1>2, <1>3, <1>4, <1>5, <1>6, <1>7, <1>8, <1>9, <1>10, <1>11, <1>12, <1>13, <1>14,
           <1>15, <1>16, <1>17, <1>18, <1>19, <1>20, <1>21, <1>22, <1>23 DEF Next, Drain

LEMMA BaseAlways == Spec => []Base
<1>1. Init => Base BY BaseInit
<1>2. Base /\ [Next]_vars => Base' BY BaseNext
<1> QED BY <1>1, <1>2, PTL DEF Spec

\* The state is of the expected shape, for any processes (ProcessTree.TypeOK).
THEOREM TreeTyped == Spec => []TypeOK
<1>1. Base => TypeOK BY DEF Base
<1> QED BY <1>1, BaseAlways, PTL

\* complete_finished_instances forgets no one: an instance that has run out of tokens has
\* completed by the end of the command, for any processes.
THEOREM NoneLeftEmpty == Spec => []EmptyCompletes
<1>1. Base => EmptyCompletes BY DEF Base, Looked, EmptyCompletes, Idle
<1> QED BY <1>1, BaseAlways, PTL

-----------------------------------------------------------------------------
(* No token is stranded.                                                   *)

\* A child that has not completed, for the token of k in e.
ChildOf(k, e) ==
    \E c \in Keys : /\ instance[c].parent = k /\ instance[c].call = e
                    /\ instance[c].state \in Live \cup {"Terminated"}

\* A queued step that takes the token of k out of e or tries its spawn again.
StepFor(k, e) == \E s \in Queued : s.op # "Activate" /\ s.key = k /\ s.elem = e

\* What the token of k in e waits for, in the middle of a command too.
Waits(k, e) ==
    \/ instance[k].work[e] \in Open
    \/ e \in instance[k].incidents
    \/ ChildOf(k, e)
    \/ StepFor(k, e)

\* Canceling listeners run in terminating instances, which the property is silent about: that
\* an answered one leaves no token without work.
CancelingWaits ==
    \A k \in Keys, e \in Elements :
        instance[k].work[e] = "Canceling" => instance[k].state = "Terminating"

Driven ==
    \A k \in Keys : instance[k].state \in {"Active", "Suspended"} =>
        \A e \in instance[k].active : Waits(k, e)

Driving == CancelingWaits /\ Driven

\* Another instance: unchanged, terminated or new.
Aside(i) ==
    \/ instance'[i] = instance[i]
    \/ /\ instance'[i].active = {}
       /\ \/ instance[i].state = "None"
          \/ /\ instance'[i].parent = instance[i].parent /\ instance'[i].call = instance[i].call
             /\ instance'[i].state = "Terminated"
       /\ \A e \in Elements : instance'[i].work[e] # "Canceling"

\* The token of k in e is new and waits, or is one that waited and still does.
Goes(k, e, gone) ==
    instance'[k].state \in {"Active", "Suspended"} /\ e \in instance'[k].active =>
        \/ Waits(k, e)'
        \/ /\ e # gone /\ instance[k].state \in {"Active", "Suspended"} /\ e \in instance[k].active
           /\ instance[k].work[e] \in Open => instance'[k].work[e] \in Open
           /\ e \in instance[k].incidents => e \in instance'[k].incidents

\* One instance, k, changes, and no step but one for its element gone has left the queue.
LEMMA DrivenOne ==
    ASSUME Base, Base', Driven, NEW k \in Keys, NEW gone,
           \A i \in Keys : i # k => Aside(i),
           instance'[k].parent = instance[k].parent, instance'[k].call = instance[k].call,
           \/ instance'[k].state \in Live \cup {"Terminated"}
           \/ instance[k].state \notin Live \cup {"Terminated"}
           \/ /\ instance'[k].state = "Completed"
              /\ instance[k].parent # NoKey /\ instance[k].call \in instance[instance[k].parent].active
                   => StepFor(instance[k].parent, instance[k].call)',
           \A s \in Queued : s \in Queued' \/ s.op = "Activate" \/ (s.key = k /\ s.elem = gone),
           \A e \in Elements : Goes(k, e, gone)
    PROVE  Driven'
<1>0. TypeOK /\ TypeOK' BY DEF Base
<1> SUFFICES ASSUME NEW i \in Keys, instance'[i].state \in {"Active", "Suspended"},
                    NEW e \in instance'[i].active
             PROVE  Waits(i, e)'
  BY DEF Driven
<1>1. e \in Elements BY <1>0 DEF TypeOK, InstanceRecord
<1>2. \/ Waits(i, e)'
      \/ /\ instance[i].state \in {"Active", "Suspended"} /\ e \in instance[i].active
         /\ i = k => e # gone
         /\ instance[i].work[e] \in Open => instance'[i].work[e] \in Open
         /\ e \in instance[i].incidents => e \in instance'[i].incidents
  <2>1. CASE i = k BY <1>1, <2>1 DEF Goes
  <2>2. CASE i # k
    <3>1. Aside(i) BY <2>2
    <3>2. instance'[i] = instance[i] BY <3>1 DEF Aside
    <3> QED BY <2>2, <3>2
  <2> QED BY <2>1, <2>2
<1>3. CASE ~Waits(i, e)'
  <2>0. /\ instance[i].state \in {"Active", "Suspended"} /\ e \in instance[i].active
        /\ i = k => e # gone
        /\ instance[i].work[e] \in Open => instance'[i].work[e] \in Open
        /\ e \in instance[i].incidents => e \in instance'[i].incidents
    BY <1>2, <1>3
  <2>1. Waits(i, e) BY <2>0 DEF Driven
  <2>2. CASE instance[i].work[e] \in Open BY <2>0, <2>2 DEF Waits
  <2>3. CASE e \in instance[i].incidents BY <2>0, <2>3 DEF Waits
  <2>4. CASE StepFor(i, e)
    <3>1. PICK s \in Queued : s.op # "Activate" /\ s.key = i /\ s.elem = e BY <2>4 DEF StepFor
    <3>2. s \in Queued' BY <2>0, <3>1
    <3> QED BY <3>1, <3>2 DEF Waits, StepFor
  <2>5. CASE ChildOf(i, e)
    <3>1. PICK c \in Keys : /\ instance[c].parent = i /\ instance[c].call = e
                            /\ instance[c].state \in Live \cup {"Terminated"}
      BY <2>5 DEF ChildOf
    <3>2. CASE c # k
      <4>1. Aside(c) BY <3>2
      <4>2. instance[c].state # "None" BY <3>1 DEF Live
      <4>3. /\ instance'[c].parent = i /\ instance'[c].call = e
            /\ instance'[c].state \in Live \cup {"Terminated"}
        BY <3>1, <4>1, <4>2 DEF Aside
      <4> QED BY <4>3 DEF Waits, ChildOf
    <3>3. CASE c = k /\ instance'[k].state \in Live \cup {"Terminated"}
      BY <3>1, <3>3 DEF Waits, ChildOf
    <3>4. CASE c = k /\ instance'[k].state \notin Live \cup {"Terminated"}
      <4>1. i # NoKey BY TreeAssumption DEF Keys, NoKey
      <4>2. instance[k].parent = i /\ instance[k].call = e BY <3>1, <3>4
      <4>3. StepFor(i, e)' BY <2>0, <3>1, <3>4, <4>1, <4>2
      <4> QED BY <4>3 DEF Waits
    <3> QED BY <3>2, <3>3, <3>4
  <2> QED BY <2>1, <2>2, <2>3, <2>4, <2>5 DEF Waits
<1> QED BY <1>3

LEMMA DrivingOne ==
    ASSUME Base, Base', Driving, NEW k \in Keys, NEW gone,
           \A i \in Keys : i # k => Aside(i),
           instance'[k].parent = instance[k].parent, instance'[k].call = instance[k].call,
           \/ instance'[k].state \in Live \cup {"Terminated"}
           \/ instance[k].state \notin Live \cup {"Terminated"}
           \/ /\ instance'[k].state = "Completed"
              /\ instance[k].parent # NoKey /\ instance[k].call \in instance[instance[k].parent].active
                   => StepFor(instance[k].parent, instance[k].call)',
           \A s \in Queued : s \in Queued' \/ s.op = "Activate" \/ (s.key = k /\ s.elem = gone),
           \A e \in Elements : Goes(k, e, gone),
           \A e \in Elements : instance'[k].work[e] = "Canceling" => instance'[k].state = "Terminating"
    PROVE  Driving'
<1>1. Driven' BY DrivenOne DEF Driving
<1>2. CancelingWaits' BY DEF Driving, CancelingWaits, Aside
<1> QED BY <1>1, <1>2 DEF Driving

\* The same for the instance k of the step at the head of the queue.
LEMMA DrivingTurn ==
    ASSUME Base, Base', Driving, NEW op, NEW new, Turn(op, new),
           NEW k \in Keys, k = HKey, NEW g \in Elements, g = HElem,
           \/ instance'[k].state = instance[k].state
           \/ /\ instance'[k].state = "Completed"
              /\ instance[k].parent # NoKey /\ instance[k].call \in instance[instance[k].parent].active
                   => StepFor(instance[k].parent, instance[k].call)',
           \A e \in Elements : Goes(k, e, g),
           \A e \in Elements : instance'[k].work[e] = "Canceling" =>
              instance[k].work[e] = "Canceling" /\ instance'[k].state = instance[k].state
    PROVE  Driving'
<1>1. \A i \in Keys : i # k => Aside(i) BY DEF Turn, Aside
<1>2. instance'[k].parent = instance[k].parent /\ instance'[k].call = instance[k].call
  BY DEF Turn, Was, Now
<1>3. \A s \in Queued : s \in Queued' \/ s.op = "Activate" \/ (s.key = k /\ s.elem = g)
  BY DEF Turn, HKey, HElem
<1>4. \A e \in Elements : instance'[k].work[e] = "Canceling" => instance'[k].state = "Terminating"
  BY DEF Driving, CancelingWaits
<1>5. instance'[k].state = instance[k].state =>
         \/ instance'[k].state \in Live \cup {"Terminated"}
         \/ instance[k].state \notin Live \cup {"Terminated"}
  OBVIOUS
<1> QED BY <1>1, <1>2, <1>3, <1>4, <1>5, DrivingOne

\* An element entered or left.
LEMMA DrivingDrop == ASSUME Base, Driving, DropStep PROVE Driving'
<1>0. /\ Base' /\ instance' = instance /\ HKey \in Keys /\ HElem \in Elements
      /\ Queued = {Head(queue)} \cup Queued' /\ (Was.state = "Terminated" \/ HElem \notin Was.active)
  BY StepDropped
<1>1. CancelingWaits' BY <1>0 DEF Driving, CancelingWaits
<1>2. ASSUME NEW k \in Keys, instance[k].state \in {"Active", "Suspended"},
             NEW e \in instance[k].active
      PROVE  Waits(k, e)'
  <2>1. Waits(k, e) BY <1>2 DEF Driving, Driven
  <2>2. ~(k = HKey /\ e = HElem) BY <1>0, <1>2 DEF Was
  <2>3. StepFor(k, e) => StepFor(k, e)' BY <1>0, <2>2 DEF StepFor, HKey, HElem
  <2>4. ChildOf(k, e) => ChildOf(k, e)' BY <1>0 DEF ChildOf
  <2> QED BY <1>0, <2>1, <2>3, <2>4 DEF Waits
<1>3. Driven' BY <1>0, <1>2 DEF Driven
<1> QED BY <1>1, <1>3 DEF Driving

LEMMA DrivingPass == ASSUME Base, Driving, ActivatePass PROVE Driving'
<1>0. /\ Base' /\ Turn("Activate", {Step("Complete", HKey, HElem)})
      /\ Now.state = Was.state /\ Now.active = Was.active \cup {HElem}
      /\ Now.work = Was.work /\ Now.timers = Was.timers /\ Now.incidents = Was.incidents
  BY PassEntered
<1>1. PICK k \in Keys : k = HKey BY <1>0 DEF Turn
<1>2. PICK g \in Elements : g = HElem BY <1>0 DEF Turn
<1>3. /\ instance'[k].state = instance[k].state /\ instance'[k].active = instance[k].active \cup {g}
      /\ instance'[k].work = instance[k].work /\ instance'[k].incidents = instance[k].incidents
  BY <1>0, <1>1, <1>2 DEF Now, Was
<1>4. Step("Complete", k, g) \in Queued' BY <1>0, <1>1, <1>2 DEF Turn
<1>5. Waits(k, g)' BY <1>4, AtStep DEF Waits, StepFor
<1>6. \A e \in Elements : Goes(k, e, g) BY <1>3, <1>5 DEF Goes
<1> QED BY <1>0, <1>1, <1>2, <1>3, <1>6, DrivingTurn

LEMMA DrivingTask == ASSUME Base, Driving, ActivateTask PROVE Driving'
<1>0. /\ Base' /\ Turn("Activate", {})
      /\ Now.state = Was.state /\ Now.active = Was.active \cup {HElem}
      /\ \A f \in Elements : Now.work[f] = IF f = HElem THEN "Created" ELSE Was.work[f]
      /\ Now.timers = Was.timers /\ Now.incidents = Was.incidents
  BY TaskEntered
<1>1. PICK k \in Keys : k = HKey BY <1>0 DEF Turn
<1>2. PICK g \in Elements : g = HElem BY <1>0 DEF Turn
<1>3. /\ instance'[k].state = instance[k].state /\ instance'[k].active = instance[k].active \cup {g}
      /\ \A f \in Elements : instance'[k].work[f] = IF f = g THEN "Created" ELSE instance[k].work[f]
      /\ instance'[k].incidents = instance[k].incidents
  BY <1>0, <1>1, <1>2 DEF Now, Was
<1>4. Waits(k, g)' BY <1>3 DEF Waits, Open
<1>5. \A e \in Elements : Goes(k, e, g) BY <1>3, <1>4 DEF Goes
<1>6. \A e \in Elements : instance'[k].work[e] = "Canceling" =>
         instance[k].work[e] = "Canceling" /\ instance'[k].state = instance[k].state
  BY <1>3
<1> QED BY <1>0, <1>1, <1>2, <1>3, <1>5, <1>6, DrivingTurn

\* A token leaves its element.
LEMMA DrivingLeaves ==
    ASSUME Base, Base', Driving, NEW op, NEW new, Turn(op, new),
           Now.state = Was.state, Now.active = Was.active \ {HElem},
           Now.work = Was.work, Now.incidents = Was.incidents
    PROVE  Driving'
<1>1. PICK k \in Keys : k = HKey BY DEF Turn
<1>2. PICK g \in Elements : g = HElem BY DEF Turn
<1>3. /\ instance'[k].state = instance[k].state /\ instance'[k].active = instance[k].active \ {g}
      /\ instance'[k].work = instance[k].work /\ instance'[k].incidents = instance[k].incidents
  BY <1>1, <1>2 DEF Now, Was
<1>4. \A e \in Elements : Goes(k, e, g) BY <1>3 DEF Goes
<1> QED BY <1>1, <1>2, <1>3, <1>4, DrivingTurn

LEMMA DrivingComplete == ASSUME Base, Driving, Complete PROVE Driving'
BY ElementLeft, DrivingLeaves

LEMMA DrivingCallLeft == ASSUME Base, Driving, CompleteCallActivity PROVE Driving'
<1>0. Base' BY CallLeft
<1>1. CASE HElem \in Was.active
  <2>1. /\ Turn("CompleteCallActivity", Onward(HKey, HElem))
        /\ Now.state = Was.state /\ Now.active = Was.active \ {HElem}
        /\ Now.work = Was.work /\ Now.incidents = Was.incidents
    BY <1>1, CallLeft
  <2> QED BY <1>0, <2>1, DrivingLeaves
<1>2. CASE HElem \notin Was.active
  <2>1. Turn("CompleteCallActivity", {}) /\ instance' = instance BY <1>2, CallLeft
  <2>2. Now = Was BY <2>1 DEF Now, Was
  <2>3. Now.active = Was.active \ {HElem}
    <3>1. Was.active \ {HElem} = Was.active BY <1>2
    <3> QED BY <2>2, <3>1
  <2> QED BY <1>0, <2>1, <2>2, <2>3, DrivingLeaves
<1> QED BY <1>1, <1>2

LEMMA DrivingTerminateEnd == ASSUME Base, Driving, CompleteTerminateEnd PROVE Driving'
<1>0. /\ Base' /\ Turn("Complete", ToSet(call_activity_completion_step(HKey)))
      /\ Now.state = "Completed" /\ Now.active = {}
      /\ \A f \in Elements : Now.work[f] \notin Open
  BY TerminateEnded
<1>1. PICK k \in Keys : k = HKey BY <1>0 DEF Turn
<1>2. PICK g \in Elements : g = HElem BY <1>0 DEF Turn
<1>3. /\ instance'[k].state = "Completed" /\ instance'[k].active = {}
      /\ \A f \in Elements : instance'[k].work[f] \notin Open
  BY <1>0, <1>1 DEF Now
<1>4. ASSUME instance[k].parent # NoKey, instance[k].call \in instance[instance[k].parent].active
      PROVE  StepFor(instance[k].parent, instance[k].call)'
  <2> DEFINE p == instance[k].parent
             c == instance[k].call
             s == Step("CompleteCallActivity", p, c)
  <2>1. TypeOK BY DEF Base
  <2>2. /\ call_activity_completion_step(k) = <<s>> /\ s \in Steps /\ p \in Keys /\ c \in Elements
    BY <1>4, <2>1, Released
  <2>3. s.op = "CompleteCallActivity" /\ s.key = p /\ s.elem = c BY <2>2, AtStep
  <2> HIDE DEF s
  <2>4. ToSet(<<s>>) = {s} BY <2>2, OneStep
  <2>5. call_activity_completion_step(HKey) = call_activity_completion_step(k)
    BY <1>1 DEF call_activity_completion_step
  <2>6. s \in Queued' BY <1>0, <2>2, <2>4, <2>5 DEF Turn
  <2>7. instance'[k].parent = p /\ instance'[k].call = c BY <1>0, <1>1 DEF Turn, Now, Was
  <2> QED BY <2>3, <2>6, <2>7 DEF StepFor
<1>5. \A e \in Elements : Goes(k, e, g) BY <1>3 DEF Goes
<1>6. \A e \in Elements : instance'[k].work[e] # "Canceling" BY <1>3 DEF Open
<1> QED BY <1>0, <1>1, <1>2, <1>3, <1>4, <1>5, <1>6, DrivingTurn

\* The step at the head comes to an incident.
LEMMA DrivingFailed ==
    ASSUME Base, Base', Driving, NEW op, Turn(op, {}), HElem \in Calls,
           Now.state = Was.state, Now.work = Was.work, Now.active \subseteq Was.active \cup {HElem},
           Now.incidents = Was.incidents \cup {HElem}
    PROVE  Driving'
<1>1. PICK k \in Keys : k = HKey BY DEF Turn
<1>2. PICK g \in Elements : g = HElem BY DEF Turn
<1>3. /\ instance'[k].state = instance[k].state
      /\ instance'[k].active \subseteq instance[k].active \cup {g}
      /\ instance'[k].work = instance[k].work /\ instance'[k].incidents = instance[k].incidents \cup {g}
  BY <1>1, <1>2 DEF Now, Was
<1>4. Waits(k, g)' BY <1>3 DEF Waits
<1>5. \A e \in Elements : Goes(k, e, g) BY <1>3, <1>4 DEF Goes
<1> QED BY <1>1, <1>2, <1>3, <1>5, DrivingTurn

\* The step at the head comes to a child.
LEMMA DrivingBorn ==
    ASSUME Base, Base', Driving, NEW op, Born(op), Now.active \subseteq Was.active \cup {HElem}
    PROVE  Driving'
<1>1. PICK k \in Keys : k = HKey BY DEF Born
<1>2. PICK g \in Elements : g = HElem BY DEF Born, Calls
<1>3. PICK c \in Keys : c = next_key BY DEF Born
<1>4. /\ instance'[k].state = instance[k].state
      /\ instance'[k].active \subseteq instance[k].active \cup {g}
      /\ instance'[k].work = instance[k].work /\ instance'[k].incidents = instance[k].incidents
      /\ instance'[k].parent = instance[k].parent /\ instance'[k].call = instance[k].call
  BY <1>1, <1>2 DEF Now, Was, Born
<1>5. /\ c # k /\ instance[c].state = "None" /\ instance'[c].state = "Active"
      /\ instance'[c].parent = k /\ instance'[c].call = g /\ instance'[c].active = {}
      /\ \A f \in Elements : instance'[c].work[f] = "None"
      /\ \A i \in Keys : i # k /\ i # c => instance'[i] = instance[i]
  BY <1>1, <1>2, <1>3 DEF Born
<1>6. Waits(k, g)' BY <1>5 DEF Waits, ChildOf, Live
<1>7. \A e \in Elements : Goes(k, e, g) BY <1>4, <1>6 DEF Goes
<1>8. \A i \in Keys : i # k => Aside(i) BY <1>5 DEF Aside
<1>9. \A s \in Queued : s \in Queued' \/ s.op = "Activate" \/ (s.key = k /\ s.elem = g)
  BY <1>1, <1>2 DEF Born, HKey, HElem
<1>10. \A e \in Elements : instance'[k].work[e] = "Canceling" => instance'[k].state = "Terminating"
  BY <1>4 DEF Driving, CancelingWaits
<1>11. \/ instance'[k].state \in Live \cup {"Terminated"}
       \/ instance[k].state \notin Live \cup {"Terminated"}
  BY <1>4
<1> QED BY <1>4, <1>7, <1>8, <1>9, <1>10, <1>11, DrivingOne

LEMMA DrivingCallEntered == ASSUME Base, Driving, ActivateCallActivity PROVE Driving'
<1>1. /\ Base' /\ HElem \in Calls /\ Now.active = Was.active \cup {HElem}
      /\ \/ /\ Turn("Activate", {}) /\ Now.state = Was.state /\ Now.work = Was.work
            /\ Now.incidents = Was.incidents \cup {HElem}
         \/ Born("Activate")
  BY CallEntered
<1>2. Now.active \subseteq Was.active \cup {HElem} BY <1>1
<1> QED BY <1>1, <1>2, DrivingFailed, DrivingBorn

LEMMA DrivingRetried == ASSUME Base, Driving, RetryCallActivitySpawn PROVE Driving'
<1>1. /\ Base' /\ HElem \in Calls /\ Now.active = Was.active
      /\ \/ /\ Turn("RetryCallActivitySpawn", {}) /\ Now.state = Was.state /\ Now.work = Was.work
            /\ Now.incidents = Was.incidents \cup {HElem}
         \/ Born("RetryCallActivitySpawn")
  BY SpawnRetried
<1>2. Now.active \subseteq Was.active \cup {HElem} BY <1>1
<1> QED BY <1>1, <1>2, DrivingFailed, DrivingBorn

LEMMA DrivingEmpty == ASSUME Base, Driving, complete_finished_instances PROVE Driving'
<1>0. /\ Base' /\ Queued = {} /\ Finished \subseteq Keys
      /\ \A k \in Keys : k \notin Finished => instance'[k] = instance[k]
      /\ \A k \in Finished : RunEmpty(k)
      /\ \A k \in Finished :
            instance[k].parent # NoKey /\ instance[k].call \in instance[instance[k].parent].active
               => Step("CompleteCallActivity", instance[k].parent, instance[k].call) \in Queued'
  BY EmptyCompleted
<1>1. CancelingWaits'
  <2> SUFFICES ASSUME NEW k \in Keys, NEW e \in Elements, instance'[k].work[e] = "Canceling"
               PROVE  instance'[k].state = "Terminating"
    BY DEF CancelingWaits
  <2>1. k \notin Finished BY <1>0 DEF Driving, CancelingWaits, RunEmpty
  <2> QED BY <1>0, <2>1 DEF Driving, CancelingWaits
<1>2. Driven'
  <2> SUFFICES ASSUME NEW i \in Keys, instance'[i].state \in {"Active", "Suspended"},
                      NEW e \in instance'[i].active
               PROVE  Waits(i, e)'
    BY DEF Driven
  <2>1. instance'[i] = instance[i] BY <1>0 DEF RunEmpty
  <2>2. Waits(i, e) BY <2>1 DEF Driving, Driven
  <2>3. ~StepFor(i, e) BY <1>0 DEF StepFor
  <2>4. CASE instance[i].work[e] \in Open \/ e \in instance[i].incidents BY <2>1, <2>4 DEF Waits
  <2>5. CASE ChildOf(i, e)
    <3>1. PICK c \in Keys : /\ instance[c].parent = i /\ instance[c].call = e
                            /\ instance[c].state \in Live \cup {"Terminated"}
      BY <2>5 DEF ChildOf
    <3>2. CASE c \notin Finished BY <1>0, <3>1, <3>2 DEF Waits, ChildOf
    <3>3. CASE c \in Finished
      <4>1. i # NoKey BY TreeAssumption DEF Keys, NoKey
      <4>2. Step("CompleteCallActivity", i, e) \in Queued' BY <1>0, <2>1, <3>1, <3>3, <4>1
      <4>3. e \in Elements BY <2>1, Parts DEF Base
      <4> QED BY <4>2, <4>3, AtStep DEF Waits, StepFor
    <3> QED BY <3>2, <3>3
  <2> QED BY <2>2, <2>3, <2>4, <2>5 DEF Waits
<1> QED BY <1>1, <1>2 DEF Driving

\* A command to an instance.
LEMMA DrivingOrder ==
    ASSUME Base, Base', Driving, NEW k \in Keys, Order(k),
           instance'[k].state \in Live \cup {"Terminated"} \/ instance'[k].state = instance[k].state,
           \A e \in Elements : Goes(k, e, NoElement),
           \A e \in Elements : instance'[k].work[e] = "Canceling" => instance'[k].state = "Terminating"
    PROVE  Driving'
<1>1. \A i \in Keys : i # k => Aside(i) BY DEF Order, Aside
<1>2. instance'[k].parent = instance[k].parent /\ instance'[k].call = instance[k].call BY DEF Order
<1>3. \A s \in Queued : s \in Queued' \/ s.op = "Activate" \/ (s.key = k /\ s.elem = NoElement)
  BY DEF Order
<1>4. \/ instance'[k].state \in Live \cup {"Terminated"}
      \/ instance[k].state \notin Live \cup {"Terminated"}
  OBVIOUS
<1> QED BY <1>1, <1>2, <1>3, <1>4, DrivingOne

LEMMA DrivingNext ==
    ASSUME Base, Driving, [Next]_vars
    PROVE  Driving'
<1>a. NoElement \notin Elements BY TreeAssumption
<1>b. CancelingWaits /\ Driven BY DEF Driving
<1>1. CASE DropStep BY <1>1, DrivingDrop
<1>2. CASE ActivatePass BY <1>2, DrivingPass
<1>3. CASE ActivateTask BY <1>3, DrivingTask
<1>4. CASE ActivateCallActivity BY <1>4, DrivingCallEntered
<1>5. CASE RetryCallActivitySpawn BY <1>5, DrivingRetried
<1>6. CASE Complete BY <1>6, DrivingComplete
<1>7. CASE CompleteTerminateEnd BY <1>7, DrivingTerminateEnd
<1>8. CASE CompleteCallActivity BY <1>8, DrivingCallLeft
<1>9. CASE complete_finished_instances BY <1>9, DrivingEmpty
<1>s. ASSUME instance' = instance, queue' = queue PROVE Driving'
  <2>1. Queued' = Queued BY <1>s DEF Queued
  <2>2. \A k \in Keys : \A e \in instance[k].active : Waits(k, e) => Waits(k, e)'
    BY <1>s, <2>1 DEF Waits, StepFor, ChildOf
  <2> QED BY <1>s, <2>2 DEF Driving, Driven, CancelingWaits
<1>10. CASE cascade_cancel_children
  <2>1. /\ Queued = {} /\ \A k \in Keys : instance'[k] = instance[k] \/ Reaped(k)
    BY <1>10, ChildrenReaped
  <2>2. CancelingWaits' BY <1>b, <2>1 DEF CancelingWaits, Reaped, Open
  <2>3. ASSUME NEW k \in Keys, instance'[k].state \in {"Active", "Suspended"}, NEW e \in instance'[k].active
        PROVE  Waits(k, e)'
    <3>1. instance'[k] = instance[k] BY <2>1, <2>3 DEF Reaped
    <3>2. Waits(k, e) BY <1>b, <2>3, <3>1 DEF Driven
    <3>3. ~StepFor(k, e) BY <2>1 DEF StepFor
    <3>4. ChildOf(k, e) => ChildOf(k, e)' BY <2>1 DEF ChildOf, Reaped
    <3> QED BY <3>1, <3>2, <3>3, <3>4 DEF Waits
  <2> QED BY <2>2, <2>3 DEF Driving, Driven
<1>11. CASE Quiesce BY <1>11, <1>s, CommandOver
<1>12. ASSUME NEW k \in Keys, NEW e \in Elements, FireTimer(k, e) PROVE Driving'
  <2>1. CASE instance' = instance /\ queue' = queue BY <1>s, <2>1
  <2>2. CASE ~(instance' = instance /\ queue' = queue)
    <3>1. /\ Base' /\ Queued \subseteq Queued'
          /\ instance'[k].state = instance[k].state
          /\ instance'[k].active = instance[k].active \ {e}
          /\ instance'[k].work = instance[k].work
          /\ instance'[k].incidents = instance[k].incidents
          /\ instance'[k].parent = instance[k].parent /\ instance'[k].call = instance[k].call
          /\ \A i \in Keys : i # k => instance'[i] = instance[i] \/ Reaped(i)
      BY <1>12, <2>2, TimerFired
    <3>2. \A i \in Keys : i # k => Aside(i) BY <3>1 DEF Aside, Reaped, Open
    <3>3. \A f \in Elements : Goes(k, f, e) BY <3>1 DEF Goes
    <3>4. \A s \in Queued : s \in Queued' \/ s.op = "Activate" \/ (s.key = k /\ s.elem = e) BY <3>1
    <3>5. \A f \in Elements : instance'[k].work[f] = "Canceling" => instance'[k].state = "Terminating"
      BY <1>b, <3>1 DEF CancelingWaits
    <3>6. \/ instance'[k].state \in Live \cup {"Terminated"}
          \/ instance[k].state \notin Live \cup {"Terminated"}
      BY <3>1
    <3> QED BY <3>1, <3>2, <3>3, <3>4, <3>5, <3>6, DrivingOne
  <2> QED BY <2>1, <2>2
<1>13. ASSUME NEW p \in Processes, DeployProcess(p) PROVE Driving' BY <1>13, <1>s, Deployed
<1>14. ASSUME NEW p \in Roots, CreateInstance(p) PROVE Driving'
  <2>0. p \in Processes BY TreeAssumption
  <2>1. PICK c \in Keys : c = next_key BY <1>14, <2>0, InstanceCreated
  <2>2. /\ Queued = {} /\ instance[c].state = "None" /\ instance'[c].active = {}
        /\ \A f \in Elements : instance'[c].work[f] = "None"
        /\ \A i \in Keys : i # c => instance'[i] = instance[i]
    BY <1>14, <2>0, <2>1, InstanceCreated
  <2>3. CancelingWaits' BY <1>b, <2>2 DEF CancelingWaits
  <2>4. ASSUME NEW k \in Keys, instance'[k].state \in {"Active", "Suspended"}, NEW e \in instance'[k].active
        PROVE  Waits(k, e)'
    <3>1. k # c /\ instance'[k] = instance[k] BY <2>2, <2>4
    <3>2. Waits(k, e) BY <1>b, <2>4, <3>1 DEF Driven
    <3>3. ~StepFor(k, e) BY <2>2 DEF StepFor
    <3>4. ChildOf(k, e) => ChildOf(k, e)' BY <2>2 DEF ChildOf, Live
    <3> QED BY <3>1, <3>2, <3>3, <3>4 DEF Waits
  <2> QED BY <2>3, <2>4 DEF Driving, Driven
<1>15. ASSUME NEW k \in Keys, CancelInstance(k) PROVE Driving'
  <2>1. Base' /\ Order(k) /\ (Reaped(k) \/ Awaiting(k)) BY <1>15, InstanceCanceled
  <2>2. /\ instance'[k].state \in {"Terminated", "Terminating"}
        /\ \A e \in Elements : instance'[k].work[e] = "Canceling" => instance'[k].state = "Terminating"
    BY <2>1 DEF Reaped, Awaiting, Open
  <2>3. \A e \in Elements : Goes(k, e, NoElement) BY <2>2 DEF Goes
  <2> QED BY <2>1, <2>2, <2>3, DrivingOrder DEF Live
<1>16. ASSUME NEW k \in Keys, NEW st \in {"Active", "Suspended"}, Base', Order(k), StateOnly(k, st),
              instance[k].state \in {"Active", "Suspended"}
       PROVE  Driving'
  <2>1. \A e \in Elements : Goes(k, e, NoElement) BY <1>a, <1>16 DEF Goes, StateOnly
  <2>2. \A e \in Elements : instance'[k].work[e] # "Canceling"
    BY <1>b, <1>16 DEF CancelingWaits, StateOnly
  <2>3. instance'[k].state \in Live BY <1>16 DEF StateOnly, Live
  <2> QED BY <1>16, <2>1, <2>2, <2>3, DrivingOrder
<1>17. ASSUME NEW k \in Keys, SuspendInstance(k) \/ ResumeInstance(k) PROVE Driving'
  BY <1>16, <1>17, InstanceSuspended, InstanceResumed
<1>18. ASSUME NEW k \in Keys, NEW e \in Elements, ActivateJob(k, e) PROVE Driving'
  <2>1. Base' /\ Order(k) /\ WorkOnly(k, e, "Activated") BY <1>18, JobTaken
  <2>2. \A f \in Elements : Goes(k, f, NoElement) BY <1>a, <2>1 DEF Goes, WorkOnly, Open
  <2>3. \A f \in Elements : instance'[k].work[f] = "Canceling" => instance'[k].state = "Terminating"
    BY <1>b, <2>1 DEF WorkOnly, CancelingWaits
  <2>4. instance'[k].state = instance[k].state BY <2>1 DEF WorkOnly
  <2> QED BY <2>1, <2>2, <2>3, <2>4, DrivingOrder
<1>19. ASSUME NEW k \in Keys, NEW e \in Elements, CompleteJob(k, e) \/ CompleteUserTask(k, e)
       PROVE  Driving'
  <2>1. Base' /\ Order(k) /\ WorkOnly(k, e, "Completed") /\ Step("Complete", k, e) \in Queued'
    BY <1>19, WorkDone
  <2>2. Waits(k, e)' BY <2>1, AtStep DEF Waits, StepFor
  <2>3. \A f \in Elements : Goes(k, f, NoElement) BY <1>a, <2>1, <2>2 DEF Goes, WorkOnly
  <2>4. \A f \in Elements : instance'[k].work[f] = "Canceling" => instance'[k].state = "Terminating"
    BY <1>b, <2>1 DEF WorkOnly, CancelingWaits
  <2>5. instance'[k].state = instance[k].state BY <2>1 DEF WorkOnly
  <2> QED BY <2>1, <2>3, <2>4, <2>5, DrivingOrder
<1>20. ASSUME NEW k \in Keys, NEW e \in Elements, CompleteListener(k, e) PROVE Driving'
  <2>1. /\ Base' /\ Order(k) /\ instance[k].state = "Terminating"
        /\ WorkOnly(k, e, "Canceled") \/ LastAnswer(k, e)
    BY <1>20, <1>b, ListenerAnswered DEF CancelingWaits
  <2>2. /\ instance'[k].state \in {"Terminated", "Terminating"}
        /\ \A f \in Elements : instance'[k].work[f] = "Canceling" => instance'[k].state = "Terminating"
    BY <2>1 DEF WorkOnly, LastAnswer
  <2>3. \A f \in Elements : Goes(k, f, NoElement) BY <2>2 DEF Goes
  <2> QED BY <2>1, <2>2, <2>3, DrivingOrder DEF Live
<1>21. ASSUME NEW k \in Keys, NEW e \in Elements, ResolveIncident(k, e) PROVE Driving'
  <2>1. /\ Base' /\ Order(k) /\ Step("RetryCallActivitySpawn", k, e) \in Queued'
        /\ instance'[k].state = instance[k].state /\ instance'[k].active = instance[k].active
        /\ instance'[k].work = instance[k].work /\ instance'[k].incidents = instance[k].incidents \ {e}
    BY <1>21, IncidentResolved
  <2>2. Waits(k, e)' BY <2>1, AtStep DEF Waits, StepFor
  <2>3. \A f \in Elements : Goes(k, f, NoElement) BY <1>a, <2>1, <2>2 DEF Goes
  <2>4. \A f \in Elements : instance'[k].work[f] = "Canceling" => instance'[k].state = "Terminating"
    BY <1>b, <2>1 DEF CancelingWaits
  <2> QED BY <2>1, <2>3, <2>4, DrivingOrder
<1>22. ASSUME NEW fired \in SUBSET {t \in Keys \X Elements : t[2] \in instance[t[1]].timers},
              TriggerTimers(fired)
       PROVE  Driving'
  BY <1>22, <1>s, TimersDue
<1>23. CASE UNCHANGED vars BY <1>23, <1>s DEF vars, drain
<1> QED BY <1>1, <1>2, <1>3, <1>4, <1>5, <1>6, <1>7, <1>8, <1>9, <1>10, <1>11, <1>12, <1>13, <1>14,
           <1>15, <1>17, <1>18, <1>19, <1>20, <1>21, <1>22, <1>23 DEF Next, Drain

LEMMA DrivingAlways == Spec => []Driving
<1>1. Init => Driving
  <2> SUFFICES ASSUME Init PROVE Driving OBVIOUS
  <2>1. Base BY BaseInit
  <2>2. \A k \in Keys : instance[k].state = "None" BY DEF Init, ProcessInstanceCreated
  <2>3. \A k \in Keys, e \in Elements : instance[k].work[e] = "None"
    BY <2>1, <2>2 DEF Base, Known
  <2> QED BY <2>2, <2>3 DEF Driving, Driven, CancelingWaits
<1>2. Base /\ Driving /\ [Next]_vars => Driving' BY DrivingNext
<1> QED BY <1>1, <1>2, BaseAlways, PTL DEF Spec

\* Between commands, every token of a running instance waits on work in play, on an incident
\* or on a child that has not completed, for any processes.
THEOREM NoneStranded == Spec => []TokenIsDriven
<1>1. Base /\ Driving => TokenIsDriven
  <2> SUFFICES ASSUME Base, Driving, Idle PROVE TokenIsDriven BY DEF TokenIsDriven
  <2>1. Queued = {} BY EmptyQueue DEF Idle, Queued
  <2> QED BY <2>1 DEF Driving, Driven, Waits, StepFor, ChildOf, TokenIsDriven
<1> QED BY <1>1, BaseAlways, DrivingAlways, PTL

-----------------------------------------------------------------------------
(* An instance that has ended stays ended.                                 *)

\* The steps on the way from a task to a terminate end.
Solo(s) ==
    \/ s.op = "Complete" /\ Kind[s.elem] \notin {"pass", "end"}
    \/ s.op = "Activate" /\ Kind[s.elem] = "terminate"

Alone == \A s \in Queued : Solo(s) => Len(queue) = 1 /\ due = {}

OverEmpty ==
    \A k \in Keys :
        /\ instance[k].state # "Terminated" => instance[k].timers \subseteq instance[k].active
        /\ instance[k].state \in Over \cup {"None"} => instance[k].active = {}

Targets == \A s \in Queued : s.op = "Activate" => instance[s.key].state # "Completed"

Ended == Alone /\ OverEmpty /\ Targets

\* What EndIsFinal says of a step, for k.
Final(k) ==
    instance[k].state \in Over => instance'[k].state = instance[k].state /\ instance'[k].active = {}

\* What OverEmpty says of the next state, for k.
Emptied(k) ==
    /\ instance'[k].state # "Terminated" => instance'[k].timers \subseteq instance'[k].active
    /\ instance'[k].state \in Over \cup {"None"} => instance'[k].active = {}

\* The keys of queued steps.
LEMMA StepKeys ==
    ASSUME TypeOK
    PROVE  \A s \in Queued : s.key \in Keys /\ s.elem \in Elements
<1>1. queue \in Seq(Steps) BY DEF TypeOK
<1>2. Queued \subseteq Steps BY <1>1 DEF Queued, ToSet
<1> QED BY <1>2 DEF Steps

\* The step at the head of the queue changes its instance k and queues the steps new.
LEMMA EndedTurn ==
    ASSUME Base, Base', Ended, NEW op, NEW new, Turn(op, new), NEW k \in Keys, k = HKey,
           \A s \in new : Solo(s) => Len(queue') = 1,
           \A s \in new : s.op = "Activate" => s.key \in Keys /\ instance'[s.key].state # "Completed",
           Emptied(k), Final(k),
           instance'[k].state = instance[k].state \/ Solo(Head(queue))
    PROVE  Ended' /\ \A i \in Keys : Final(i)
<1>0. Alone /\ OverEmpty /\ Targets /\ TypeOK BY DEF Ended, Base
<1>1. /\ due' = {} /\ Queued' = ToSet(Tail(queue)) \cup new
      /\ Queued = {Head(queue)} \cup ToSet(Tail(queue))
      /\ Len(queue) = 1 => ToSet(Tail(queue)) = {}
      /\ \A i \in Keys : i # k => instance'[i] = instance[i]
  BY DEF Turn
<1>2. \A s \in ToSet(Tail(queue)) : ~Solo(s) /\ ~Solo(Head(queue)) BY <1>0, <1>1 DEF Alone
<1>3. Alone' BY <1>1, <1>2 DEF Alone, Solo
<1>4. OverEmpty' BY <1>0, <1>1 DEF OverEmpty, Emptied
<1>5. \A i \in Keys : Final(i) BY <1>0, <1>1 DEF OverEmpty, Final
<1>6. Targets'
  <2> SUFFICES ASSUME NEW s \in Queued', s.op = "Activate" PROVE instance'[s.key].state # "Completed"
    BY DEF Targets
  <2>1. CASE s \in new BY <2>1
  <2>2. CASE s \in ToSet(Tail(queue))
    <3>1. s.key \in Keys /\ instance[s.key].state # "Completed"
      BY <1>0, <1>1, <2>2, StepKeys DEF Targets
    <3>2. instance'[k].state = instance[k].state BY <1>2, <2>2
    <3> QED BY <1>1, <3>1, <3>2
  <2> QED BY <1>1, <2>1, <2>2
<1> QED BY <1>3, <1>4, <1>5, <1>6 DEF Ended

\* An element is entered, but not a call activity that spawns.
LEMMA EndedEnters ==
    ASSUME Base, Base', Ended, NEW new, Turn("Activate", new),
           \A s \in new : s.op # "Activate" /\ (Solo(s) => Len(queue') = 1),
           Now.state = Was.state, Now.active = Was.active \cup {HElem},
           Now.timers \subseteq Was.timers \cup {HElem}
    PROVE  Ended' /\ \A i \in Keys : Final(i)
<1>0. Alone /\ OverEmpty /\ Targets BY DEF Ended
<1>1. PICK k \in Keys : k = HKey BY DEF Turn
<1>2. PICK g \in Elements : g = HElem BY DEF Turn
<1>3. /\ instance'[k].state = instance[k].state /\ instance'[k].active = instance[k].active \cup {g}
      /\ instance'[k].timers \subseteq instance[k].timers \cup {g}
  BY <1>1, <1>2 DEF Now, Was
<1>4. instance[k].state \notin {"None", "Terminated", "Completed"}
  BY <1>0, <1>1 DEF Turn, Was, Targets, HKey
<1>5. Emptied(k) BY <1>0, <1>3, <1>4 DEF Emptied, OverEmpty, Over
<1>6. Final(k) BY <1>4 DEF Final, Over
<1>7. /\ \A s \in new : Solo(s) => Len(queue') = 1
      /\ \A s \in new : s.op = "Activate" => s.key \in Keys /\ instance'[s.key].state # "Completed"
  OBVIOUS
<1> QED BY <1>1, <1>3, <1>5, <1>6, <1>7, EndedTurn

LEMMA EndedPass == ASSUME Base, Ended, ActivatePass PROVE Ended' /\ \A i \in Keys : Final(i)
<1>0. /\ Base' /\ Turn("Activate", {Step("Complete", HKey, HElem)})
      /\ Kind[HElem] \in {"pass", "end", "terminate"} /\ Len(queue') = Len(queue)
      /\ Now.state = Was.state /\ Now.active = Was.active \cup {HElem} /\ Now.timers = Was.timers
  BY PassEntered
<1> DEFINE s == Step("Complete", HKey, HElem)
<1>1. s.op = "Complete" /\ s.elem = HElem BY <1>0, AtStep DEF Turn
<1>2. Head(queue) \in Queued /\ Head(queue).op = "Activate" BY <1>0 DEF Turn
<1>3. Solo(s) => Len(queue') = 1
  <2>1. Solo(s) => Solo(Head(queue)) BY <1>0, <1>1, <1>2 DEF Solo, HElem
  <2> QED BY <1>0, <1>2, <2>1 DEF Ended, Alone
<1> HIDE DEF s
<1>4. Turn("Activate", {s}) BY <1>0 DEF s
<1>5. \A t \in {s} : t.op # "Activate" /\ (Solo(t) => Len(queue') = 1) BY <1>1, <1>3
<1>6. Now.timers \subseteq Was.timers \cup {HElem} BY <1>0
<1> QED BY <1>0, <1>4, <1>5, <1>6, EndedEnters

LEMMA EndedTask == ASSUME Base, Ended, ActivateTask PROVE Ended' /\ \A i \in Keys : Final(i)
<1>0. /\ Base' /\ Turn("Activate", {})
      /\ Now.state = Was.state /\ Now.active = Was.active \cup {HElem} /\ Now.timers = Was.timers
  BY TaskEntered
<1>1. Now.timers \subseteq Was.timers \cup {HElem} BY <1>0
<1>2. \A t \in {} : t.op # "Activate" /\ (Solo(t) => Len(queue') = 1) OBVIOUS
<1> QED BY <1>0, <1>1, <1>2, EndedEnters

\* A token leaves its element.
LEMMA EndedLeaves ==
    ASSUME Base, Base', Ended, NEW op, Turn(op, Onward(HKey, HElem)), HElem \in Was.active,
           Now.state = Was.state, Now.active = Was.active \ {HElem},
           Now.timers = Was.timers \ {HElem},
           \A f \in ToSet(Flows[HElem]) : Kind[f] = "terminate" => Len(queue') = 1
    PROVE  Ended' /\ \A i \in Keys : Final(i)
<1>0. Alone /\ OverEmpty /\ Targets BY DEF Ended
<1>1. PICK k \in Keys : k = HKey BY DEF Turn
<1>2. PICK g \in Elements : g = HElem BY DEF Turn
<1>3. /\ instance'[k].state = instance[k].state /\ instance'[k].active = instance[k].active \ {g}
      /\ instance'[k].timers = instance[k].timers \ {g} /\ g \in instance[k].active
  BY <1>1, <1>2 DEF Now, Was
<1>4. instance[k].state \notin Over \cup {"None"} BY <1>0, <1>3 DEF OverEmpty
<1>5. Emptied(k) BY <1>0, <1>3, <1>4 DEF Emptied, OverEmpty
<1>6. Final(k) BY <1>4 DEF Final
<1> DEFINE new == Onward(HKey, HElem)
<1>7. \A s \in new : /\ s.op = "Activate" /\ s.key = k
                     /\ \E f \in ToSet(Flows[HElem]) : s.elem = f
  <2>1. ToSet(Flows[HElem]) \subseteq Elements BY <1>2, AllActivated, <1>1
  <2> QED BY <1>1, <2>1, AtStep DEF Onward
<1>8. \A s \in new : Solo(s) => Len(queue') = 1 BY <1>7 DEF Solo
<1>9. \A s \in new : s.op = "Activate" => s.key \in Keys /\ instance'[s.key].state # "Completed"
  BY <1>3, <1>4, <1>7 DEF Over
<1> HIDE DEF new
<1>10. Turn(op, new) BY DEF new
<1> QED BY <1>1, <1>3, <1>5, <1>6, <1>8, <1>9, <1>10, EndedTurn

LEMMA EndedComplete ==
    ASSUME TerminateAlone, Base, Ended, Complete
    PROVE  Ended' /\ \A i \in Keys : Final(i)
<1>0. /\ Base' /\ Turn("Complete", Onward(HKey, HElem))
      /\ Len(queue') = Len(queue) - 1 + Len(Flows[HElem])
      /\ Now.state = Was.state /\ Now.active = Was.active \ {HElem}
      /\ Now.timers = Was.timers \ {HElem}
  BY ElementLeft
<1>1. /\ HElem \in Was.active /\ HElem \in Elements /\ HKey \in Keys
      /\ Head(queue) \in Queued /\ Head(queue).op = "Complete" /\ Len(queue) \in Nat
  BY <1>0 DEF Turn
<1>2. ASSUME NEW f \in ToSet(Flows[HElem]), Kind[f] = "terminate" PROVE Len(queue') = 1
  <2>1. f \in Elements BY <1>1, AllActivated
  <2>2. Kind[HElem] \in {"task", "user"} /\ Len(Flows[HElem]) = 1
    BY <1>1, <1>2, <2>1 DEF TerminateAlone
  <2>3. Solo(Head(queue)) BY <1>1, <2>2 DEF Solo, HElem
  <2>4. Len(queue) = 1 BY <1>1, <2>3 DEF Ended, Alone
  <2> QED BY <1>0, <2>2, <2>4
<1> QED BY <1>0, <1>1, <1>2, EndedLeaves

LEMMA EndedCallLeft ==
    ASSUME TerminateAlone, Base, Ended, CompleteCallActivity
    PROVE  Ended' /\ \A i \in Keys : Final(i)
<1>0. Base' /\ HElem \in Calls BY CallLeft
<1>1. CASE HElem \in Was.active
  <2>1. /\ Turn("CompleteCallActivity", Onward(HKey, HElem))
        /\ Now.state = Was.state /\ Now.active = Was.active \ {HElem}
        /\ Now.timers = Was.timers \ {HElem}
    BY <1>1, CallLeft
  <2>2. \A f \in ToSet(Flows[HElem]) : Kind[f] # "terminate"
    <3>1. HElem \in Elements /\ Kind[HElem] = "call" BY <1>0 DEF Calls
    <3>2. HKey \in Keys BY <2>1 DEF Turn
    <3>3. ToSet(Flows[HElem]) \subseteq Elements BY <3>1, <3>2, AllActivated
    <3> QED BY <3>1, <3>3 DEF TerminateAlone
  <2> QED BY <1>0, <1>1, <2>1, <2>2, EndedLeaves
<1>2. CASE HElem \notin Was.active
  <2>1. Turn("CompleteCallActivity", {}) /\ instance' = instance BY <1>2, CallLeft
  <2>2. PICK k \in Keys : k = HKey BY <2>1 DEF Turn
  <2>3. Emptied(k) /\ Final(k) /\ instance'[k].state = instance[k].state
    BY <2>1 DEF Emptied, Final, Ended, OverEmpty
  <2>4. /\ \A s \in {} : Solo(s) => Len(queue') = 1
        /\ \A s \in {} : s.op = "Activate" => s.key \in Keys /\ instance'[s.key].state # "Completed"
    OBVIOUS
  <2> QED BY <1>0, <2>1, <2>2, <2>3, <2>4, EndedTurn
<1> QED BY <1>1, <1>2

\* What releases the parent is a CompleteCallActivity step.
LEMMA OnlyReleases ==
    ASSUME TypeOK, HKey \in Keys
    PROVE  \A s \in ToSet(call_activity_completion_step(HKey)) : s.op = "CompleteCallActivity"
<1>1. PICK k \in Keys : k = HKey OBVIOUS
<1>2. call_activity_completion_step(HKey) = call_activity_completion_step(k)
  BY <1>1 DEF call_activity_completion_step
<1>3. CASE instance[k].parent # NoKey /\ instance[k].call \in instance[instance[k].parent].active
  <2> DEFINE t == Step("CompleteCallActivity", instance[k].parent, instance[k].call)
  <2>1. /\ call_activity_completion_step(k) = <<t>> /\ t \in Steps
        /\ instance[k].parent \in Keys /\ instance[k].call \in Elements
    BY <1>3, Released
  <2>2. t.op = "CompleteCallActivity" BY <2>1, AtStep
  <2> HIDE DEF t
  <2> QED BY <1>2, <2>1, <2>2, OneStep
<1>4. CASE ~(instance[k].parent # NoKey /\ instance[k].call \in instance[instance[k].parent].active)
  <2>1. call_activity_completion_step(k) = << >> BY <1>4, Released
  <2> QED BY <1>2, <2>1, EmptyQueue
<1> QED BY <1>3, <1>4

LEMMA EndedTerminateEnd ==
    ASSUME Base, Ended, CompleteTerminateEnd
    PROVE  Ended' /\ \A i \in Keys : Final(i)
<1> DEFINE new == ToSet(call_activity_completion_step(HKey))
<1>0. /\ Base' /\ Turn("Complete", new) /\ Kind[HElem] = "terminate"
      /\ Now.state = "Completed" /\ Now.active = {} /\ Now.timers = {}
  BY TerminateEnded
<1>1. PICK k \in Keys : k = HKey BY <1>0 DEF Turn
<1>2. HElem \in Was.active /\ Head(queue).op = "Complete" BY <1>0 DEF Turn
<1>3. Solo(Head(queue)) BY <1>0, <1>2 DEF Solo, HElem
<1>4. Emptied(k) BY <1>0, <1>1 DEF Emptied, Now
<1>5. Final(k) BY <1>1, <1>2 DEF Final, Ended, OverEmpty, Was
<1>6. \A s \in new : s.op = "CompleteCallActivity"
  BY <1>1, OnlyReleases DEF Base
<1> HIDE DEF new
<1>7. /\ \A s \in new : Solo(s) => Len(queue') = 1
      /\ \A s \in new : s.op = "Activate" => s.key \in Keys /\ instance'[s.key].state # "Completed"
  BY <1>6 DEF Solo
<1> QED BY <1>0, <1>1, <1>3, <1>4, <1>5, <1>7, EndedTurn

\* The step at the head spawns a child.
LEMMA EndedBorn ==
    ASSUME TerminateAlone, Base, Base', Ended, NEW op, Born(op),
           op = "Activate" \/ op = "RetryCallActivitySpawn",
           Was.active \subseteq Now.active, Now.timers \subseteq Was.timers \cup Now.active
    PROVE  Ended' /\ \A i \in Keys : Final(i)
<1>0. Alone /\ OverEmpty /\ Targets /\ TypeOK BY DEF Ended, Base
<1>1. PICK k \in Keys : k = HKey BY DEF Born
<1>2. PICK c \in Keys : c = next_key BY DEF Born
<1> DEFINE s == Step("Activate", c, StartEvent[Callee[HElem]])
<1>3. /\ instance'[k].state = instance[k].state /\ instance[k].active \subseteq instance'[k].active
      /\ instance'[k].timers \subseteq instance[k].timers \cup instance'[k].active
  BY <1>1 DEF Now, Was, Born
<1>4. /\ c # k /\ instance[c].state = "None" /\ instance'[c].state = "Active"
      /\ instance'[c].timers = {} /\ instance'[c].active = {}
      /\ \A i \in Keys : i # k /\ i # c => instance'[i] = instance[i]
      /\ due' = {} /\ Queued = {Head(queue)} \cup ToSet(Tail(queue))
      /\ Queued' = ToSet(Tail(queue)) \cup {s} /\ (Len(queue) = 1 => ToSet(Tail(queue)) = {})
  BY <1>1, <1>2 DEF Born
<1>5. instance[k].state \notin Over \cup {"None"}
  <2>1. instance[k].state \notin {"None", "Terminated"} BY <1>1 DEF Born, Was
  <2>2. op = "Activate" => instance[k].state # "Completed"
    BY <1>0, <1>1, <1>4 DEF Born, Targets, HKey
  <2>3. op = "RetryCallActivitySpawn" => instance[k].active # {} BY <1>1 DEF Born, Was
  <2> QED BY <1>0, <2>1, <2>2, <2>3 DEF OverEmpty, Over
<1>6. s.op = "Activate" /\ s.key = c /\ ~Solo(s)
  <2>1. HElem \in Elements BY DEF Born, Calls
  <2>2. Callee[HElem] \in Processes /\ StartEvent[Callee[HElem]] \in Elements
    BY <2>1, TreeAssumption
  <2>3. s.op = "Activate" /\ s.key = c /\ s.elem = StartEvent[Callee[HElem]] BY <2>2, AtStep
  <2>4. Kind[StartEvent[Callee[HElem]]] # "terminate" BY <2>2 DEF TerminateAlone
  <2> QED BY <2>3, <2>4 DEF Solo
<1> HIDE DEF s
<1>7. \A t \in ToSet(Tail(queue)) : ~Solo(t) BY <1>0, <1>4 DEF Alone
<1>8. Alone' BY <1>4, <1>6, <1>7 DEF Alone, Solo
<1>9. OverEmpty' BY <1>0, <1>3, <1>4, <1>5 DEF OverEmpty, Over
<1>10. \A i \in Keys : Final(i) BY <1>0, <1>4, <1>5 DEF OverEmpty, Final, Over
<1>11. Targets'
  <2> SUFFICES ASSUME NEW t \in Queued', t.op = "Activate" PROVE instance'[t.key].state # "Completed"
    BY DEF Targets
  <2>1. CASE t = s BY <1>4, <1>6, <2>1
  <2>2. CASE t \in ToSet(Tail(queue))
    <3>1. t.key \in Keys /\ instance[t.key].state # "Completed"
      BY <1>0, <1>4, <2>2, StepKeys DEF Targets
    <3> QED BY <1>3, <1>4, <3>1
  <2> QED BY <1>4, <2>1, <2>2
<1> QED BY <1>8, <1>9, <1>10, <1>11 DEF Ended

LEMMA EndedCallEntered ==
    ASSUME TerminateAlone, Base, Ended, ActivateCallActivity
    PROVE  Ended' /\ \A i \in Keys : Final(i)
<1>1. /\ Base' /\ Now.active = Was.active \cup {HElem} /\ Now.timers \subseteq Was.timers \cup {HElem}
      /\ \/ Turn("Activate", {}) /\ Now.state = Was.state
         \/ Born("Activate")
  BY CallEntered
<1>2. CASE Turn("Activate", {}) /\ Now.state = Was.state
  <2>1. \A t \in {} : t.op # "Activate" /\ (Solo(t) => Len(queue') = 1) OBVIOUS
  <2> QED BY <1>1, <1>2, <2>1, EndedEnters
<1>3. CASE Born("Activate")
  <2>1. Was.active \subseteq Now.active /\ Now.timers \subseteq Was.timers \cup Now.active BY <1>1
  <2> QED BY <1>1, <1>3, <2>1, EndedBorn
<1> QED BY <1>1, <1>2, <1>3

LEMMA EndedRetried ==
    ASSUME TerminateAlone, Base, Ended, RetryCallActivitySpawn
    PROVE  Ended' /\ \A i \in Keys : Final(i)
<1>1. /\ Base' /\ Now.active = Was.active /\ Now.timers = Was.timers
      /\ \/ Turn("RetryCallActivitySpawn", {}) /\ Now.state = Was.state
         \/ Born("RetryCallActivitySpawn")
  BY SpawnRetried
<1>2. CASE Turn("RetryCallActivitySpawn", {}) /\ Now.state = Was.state
  <2>1. PICK k \in Keys : k = HKey BY <1>2 DEF Turn
  <2>2. /\ instance'[k].state = instance[k].state /\ instance'[k].active = instance[k].active
        /\ instance'[k].timers = instance[k].timers
    BY <1>1, <1>2, <2>1 DEF Now, Was
  <2>3. Emptied(k) /\ Final(k) BY <2>2 DEF Emptied, Final, Ended, OverEmpty
  <2>4. /\ \A s \in {} : Solo(s) => Len(queue') = 1
        /\ \A s \in {} : s.op = "Activate" => s.key \in Keys /\ instance'[s.key].state # "Completed"
    OBVIOUS
  <2> QED BY <1>1, <1>2, <2>1, <2>2, <2>3, <2>4, EndedTurn
<1>3. CASE Born("RetryCallActivitySpawn")
  <2>1. Was.active \subseteq Now.active /\ Now.timers \subseteq Was.timers \cup Now.active BY <1>1
  <2> QED BY <1>1, <1>3, <2>1, EndedBorn
<1> QED BY <1>1, <1>2, <1>3

\* A command to an instance.
LEMMA EndedOrder ==
    ASSUME Base, Base', Ended, NEW k \in Keys, Order(k), Emptied(k), Final(k),
           \A s \in Queued' : s.op # "Activate"
    PROVE  Ended' /\ \A i \in Keys : Final(i)
<1>0. OverEmpty BY DEF Ended
<1>1. /\ due' = {} /\ (Queued' # {} => Len(queue') = 1)
      /\ \A i \in Keys : i # k => instance'[i] = instance[i]
  BY DEF Order
<1>2. Alone' BY <1>1 DEF Alone
<1>3. OverEmpty' BY <1>0, <1>1 DEF OverEmpty, Emptied
<1>4. Targets' BY DEF Targets
<1>5. \A i \in Keys : Final(i) BY <1>0, <1>1 DEF OverEmpty, Final
<1> QED BY <1>2, <1>3, <1>4, <1>5 DEF Ended

LEMMA EndedNext ==
    ASSUME TerminateAlone, Base, Ended, [Next]_vars
    PROVE  Ended' /\ \A i \in Keys : Final(i)
<1> DEFINE Goal == Ended' /\ \A i \in Keys : Final(i)
<1>a. Alone /\ OverEmpty /\ Targets BY DEF Ended
<1>s. ASSUME instance' = instance, queue' = queue, due' = {} \/ queue = << >> \/ due' \subseteq due
      PROVE  Goal
  <2>1. Queued' = Queued BY <1>s DEF Queued
  <2>2. queue = << >> => Queued = {} BY EmptyQueue DEF Queued
  <2>3. Alone' BY <1>a, <1>s, <2>1, <2>2 DEF Alone, Solo
  <2>4. OverEmpty' BY <1>a, <1>s DEF OverEmpty
  <2>5. Targets' BY <1>a, <1>s, <2>1 DEF Targets
  <2>6. \A i \in Keys : Final(i) BY <1>a, <1>s DEF OverEmpty, Final
  <2> QED BY <2>3, <2>4, <2>5, <2>6 DEF Ended
<1>1. CASE DropStep
  <2>1. /\ instance' = instance /\ due' = {} /\ Queued = {Head(queue)} \cup Queued'
        /\ Len(queue) = 1 => Queued' = {}
    BY <1>1, StepDropped
  <2>2. Alone' BY <1>a, <2>1 DEF Alone, Solo
  <2>3. OverEmpty' /\ Targets' BY <1>a, <2>1 DEF OverEmpty, Targets
  <2>4. \A i \in Keys : Final(i) BY <1>a, <2>1 DEF OverEmpty, Final
  <2> QED BY <2>2, <2>3, <2>4 DEF Ended
<1>2. CASE ActivatePass BY <1>2, EndedPass
<1>3. CASE ActivateTask BY <1>3, EndedTask
<1>4. CASE ActivateCallActivity BY <1>4, EndedCallEntered
<1>5. CASE RetryCallActivitySpawn BY <1>5, EndedRetried
<1>6. CASE Complete BY <1>6, EndedComplete
<1>7. CASE CompleteTerminateEnd BY <1>7, EndedTerminateEnd
<1>8. CASE CompleteCallActivity BY <1>8, EndedCallLeft
<1>9. CASE complete_finished_instances
  <2>1. /\ Finished \subseteq Keys
        /\ \A k \in Keys : k \notin Finished => instance'[k] = instance[k]
        /\ \A k \in Finished : RunEmpty(k)
        /\ \A s \in Queued' : s.op = "CompleteCallActivity"
    BY <1>9, EmptyCompleted
  <2>2. Alone' /\ Targets' BY <2>1 DEF Alone, Targets, Solo
  <2>3. OverEmpty'
    <3> SUFFICES ASSUME NEW k \in Keys PROVE Emptied(k) BY DEF OverEmpty, Emptied
    <3>1. CASE k \in Finished BY <1>a, <2>1, <3>1 DEF Emptied, RunEmpty, OverEmpty
    <3>2. CASE k \notin Finished BY <1>a, <2>1, <3>2 DEF Emptied, OverEmpty
    <3> QED BY <3>1, <3>2
  <2>4. \A i \in Keys : Final(i) BY <1>a, <2>1 DEF OverEmpty, Final, RunEmpty, Over
  <2> QED BY <2>2, <2>3, <2>4 DEF Ended
<1>10. CASE cascade_cancel_children
  <2>1. /\ Queued' = {} /\ \A k \in Keys : instance'[k] = instance[k] \/ Reaped(k)
    BY <1>10, ChildrenReaped
  <2>2. Alone' /\ Targets' BY <2>1 DEF Alone, Targets
  <2>3. OverEmpty' BY <1>a, <2>1 DEF OverEmpty, Reaped
  <2>4. \A i \in Keys : Final(i) BY <1>a, <2>1 DEF OverEmpty, Final, Reaped, Over, Reapable
  <2> QED BY <2>2, <2>3, <2>4 DEF Ended
<1>11. CASE Quiesce BY <1>11, <1>s, CommandOver
<1>12. ASSUME NEW k \in Keys, NEW e \in Elements, FireTimer(k, e) PROVE Goal
  <2>0. due # {} /\ due' \subseteq due BY <1>12, TimerFired
  <2>1. CASE instance' = instance /\ queue' = queue BY <1>s, <2>0, <2>1
  <2>2. CASE ~(instance' = instance /\ queue' = queue)
    <3> DEFINE s == Step("Activate", k, Boundary[e])
    <3>1. /\ e \in instance[k].timers /\ e \in Timed /\ instance[k].state # "None"
          /\ Boundary[e] \in Elements /\ Queued' = Queued \cup {s}
          /\ instance'[k].state = instance[k].state
          /\ instance'[k].active = instance[k].active \ {e}
          /\ instance'[k].timers = instance[k].timers \ {e}
          /\ \A i \in Keys : i # k => instance'[i] = instance[i] \/ Reaped(i)
      BY <1>12, <2>2, TimerFired
    <3>2. s.op = "Activate" /\ s.key = k /\ s.elem = Boundary[e] BY <3>1, AtStep
    <3>3. Kind[Boundary[e]] # "terminate" BY <3>1 DEF TerminateAlone
    <3> HIDE DEF s
    <3>4. ~Solo(s) BY <3>2, <3>3 DEF Solo
    <3>5. \A t \in Queued : ~Solo(t) BY <1>a, <2>0 DEF Alone
    <3>6. Alone' BY <3>1, <3>4, <3>5 DEF Alone, Solo
    <3>7. OverEmpty' BY <1>a, <3>1 DEF OverEmpty, Reaped
    <3>8. instance[k].state # "Completed" BY <1>a, <3>1 DEF OverEmpty, Over
    <3>9. Targets'
      <4> SUFFICES ASSUME NEW t \in Queued', t.op = "Activate"
                   PROVE  instance'[t.key].state # "Completed"
        BY DEF Targets
      <4>1. t.key \in Keys /\ instance[t.key].state # "Completed"
        <5>1. TypeOK BY DEF Base
        <5> QED BY <1>a, <3>1, <3>2, <3>8, <5>1, StepKeys DEF Targets
      <4> QED BY <3>1, <4>1 DEF Reaped
    <3>10. \A i \in Keys : Final(i) BY <1>a, <3>1 DEF OverEmpty, Final, Reaped, Over, Reapable
    <3> QED BY <3>6, <3>7, <3>9, <3>10 DEF Ended
  <2> QED BY <2>1, <2>2
<1>13. ASSUME NEW p \in Processes, DeployProcess(p) PROVE Goal BY <1>13, <1>s, Deployed
<1>14. ASSUME NEW p \in Roots, CreateInstance(p) PROVE Goal
  <2>0. p \in Processes BY TreeAssumption
  <2>1. PICK c \in Keys : c = next_key BY <1>14, <2>0, InstanceCreated
  <2> DEFINE s == Step("Activate", c, StartEvent[p])
  <2>2. /\ Len(queue') = 1 /\ due' = {} /\ instance[c].state = "None"
        /\ instance'[c].state = "Active" /\ instance'[c].active = {} /\ instance'[c].timers = {}
        /\ \A i \in Keys : i # c => instance'[i] = instance[i]
        /\ Queued' = {s}
    BY <1>14, <2>0, <2>1, InstanceCreated
  <2>3. s.key = c BY <2>0, TreeAssumption, AtStep
  <2> HIDE DEF s
  <2>4. Alone' /\ Targets' BY <2>2, <2>3 DEF Alone, Targets
  <2>5. OverEmpty' BY <1>a, <2>2 DEF OverEmpty, Over
  <2>6. \A i \in Keys : Final(i) BY <1>a, <2>2 DEF OverEmpty, Final, Over
  <2> QED BY <2>4, <2>5, <2>6 DEF Ended
<1>15. ASSUME NEW k \in Keys, CancelInstance(k) PROVE Goal
  <2>1. /\ Base' /\ Order(k) /\ Queued' = {} /\ instance[k].state = "Active"
        /\ Reaped(k) \/ Awaiting(k)
    BY <1>15, InstanceCanceled
  <2>2. Emptied(k) BY <2>1 DEF Emptied, Reaped, Awaiting, Over
  <2>3. Final(k) BY <2>1 DEF Final, Over
  <2> QED BY <2>1, <2>2, <2>3, EndedOrder
<1>16. ASSUME NEW k \in Keys, SuspendInstance(k) \/ ResumeInstance(k) PROVE Goal
  <2>1. /\ Base' /\ Order(k) /\ Queued' = {} /\ instance[k].state \in {"Active", "Suspended"}
        /\ instance'[k].state \in {"Active", "Suspended"}
        /\ instance'[k].timers = instance[k].timers /\ instance'[k].active = instance[k].active
    BY <1>16, InstanceSuspended, InstanceResumed DEF StateOnly
  <2>2. Emptied(k) BY <1>a, <2>1 DEF Emptied, OverEmpty, Over
  <2>3. Final(k) BY <2>1 DEF Final, Over
  <2> QED BY <2>1, <2>2, <2>3, EndedOrder
<1>w. ASSUME NEW k \in Keys, Base', Order(k), \A s \in Queued' : s.op # "Activate",
             instance'[k].state = instance[k].state, instance'[k].active = instance[k].active,
             instance'[k].timers = instance[k].timers
      PROVE  Goal
  <2>1. Emptied(k) BY <1>a, <1>w DEF Emptied, OverEmpty
  <2>2. Final(k) BY <1>a, <1>w DEF Final, OverEmpty
  <2> QED BY <1>w, <2>1, <2>2, EndedOrder
<1>18. ASSUME NEW k \in Keys, NEW e \in Elements, ActivateJob(k, e) PROVE Goal
  BY <1>18, <1>w, JobTaken DEF WorkOnly
<1>19. ASSUME NEW k \in Keys, NEW e \in Elements, CompleteJob(k, e) \/ CompleteUserTask(k, e)
       PROVE  Goal
  BY <1>19, <1>w, WorkDone, AtStep DEF WorkOnly
<1>20. ASSUME NEW k \in Keys, NEW e \in Elements, CompleteListener(k, e) PROVE Goal
  <2>1. Base' /\ Order(k) /\ Queued' = {} /\ (WorkOnly(k, e, "Canceled") \/ LastAnswer(k, e))
    BY <1>20, ListenerAnswered
  <2>2. CASE WorkOnly(k, e, "Canceled") BY <1>w, <2>1, <2>2 DEF WorkOnly
  <2>3. CASE LastAnswer(k, e)
    <3>1. Emptied(k) BY <2>3 DEF Emptied, LastAnswer
    <3>2. Final(k) BY <2>3 DEF Final, LastAnswer, Over
    <3> QED BY <2>1, <3>1, <3>2, EndedOrder
  <2> QED BY <2>1, <2>2, <2>3
<1>21. ASSUME NEW k \in Keys, NEW e \in Elements, ResolveIncident(k, e) PROVE Goal
  BY <1>21, <1>w, IncidentResolved, AtStep
<1>22. ASSUME NEW fired \in SUBSET {t \in Keys \X Elements : t[2] \in instance[t[1]].timers},
              TriggerTimers(fired)
       PROVE  Goal
  BY <1>22, <1>s, TimersDue
<1>23. CASE UNCHANGED vars BY <1>23, <1>s DEF vars, drain
<1> QED BY <1>1, <1>2, <1>3, <1>4, <1>5, <1>6, <1>7, <1>8, <1>9, <1>10, <1>11, <1>12, <1>13, <1>14,
           <1>15, <1>16, <1>18, <1>19, <1>20, <1>21, <1>22, <1>23 DEF Next, Drain

LEMMA EndedAlways ==
    ASSUME TerminateAlone
    PROVE  Spec => []Ended
<1>1. Init => Ended
  <2> SUFFICES ASSUME Init PROVE Ended OBVIOUS
  <2>1. Base BY BaseInit
  <2>2. \A k \in Keys : instance[k].state = "None" BY DEF Init, ProcessInstanceCreated
  <2>3. Queued = {} BY EmptyQueue DEF Init, Queued
  <2> QED BY <2>1, <2>2, <2>3 DEF Ended, Alone, OverEmpty, Targets, Base, Known
<1>2. Base /\ Ended /\ [Next]_vars => Ended' BY EndedNext
<1> QED BY <1>1, <1>2, BaseAlways, PTL DEF Spec

\* An instance that has completed or been terminated keeps that state and is given no token
\* again, whatever steps were queued for it: for processes whose terminate ends are reached
\* from tasks alone (the README shows what goes wrong beside one).
THEOREM OverForGood ==
    ASSUME TerminateAlone
    PROVE  Spec => EndIsFinal
<1>1. Base /\ Ended /\ [Next]_vars =>
        [\A k \in Keys : instance[k].state \in Over =>
            instance'[k].state = instance[k].state /\ instance'[k].active = {}]_vars
  BY EndedNext DEF Final
<1> QED BY <1>1, BaseAlways, EndedAlways, PTL DEF Spec, EndIsFinal

-----------------------------------------------------------------------------
(* No work without a token.                                                *)

\* Open work has a live instance and a token; a terminating instance waits for its canceling
\* listeners alone.
RecordOK(k, home) ==
    /\ \A e \in Elements : instance[k].work[e] \in Open =>
          instance[k].state \in Live /\ e \in instance[k].active
    /\ instance[k].state = "Terminated" => instance[k].timers = {}
    /\ \A e \in instance[k].active : home[e] = instance[k].process
    /\ instance[k].state = "Terminating" =>
          /\ instance[k].timers = {}
          /\ \A e \in Elements : instance[k].work[e] \notin {"Created", "Activated"}
          /\ \E l \in Listening : home[l] = instance[k].process

\* A Complete step follows the end of the work; steps stay in their process; those of a
\* terminating instance lead to no work.
StepOK(s, home, quiet) ==
    /\ s.op = "Complete" => instance[s.key].work[s.elem] \notin Open
    /\ s.op = "Activate" => home[s.elem] = instance[s.key].process
    /\ s.op \in {"Activate", "Complete"} /\ instance[s.key].state = "Terminating" => s.elem \in quiet

Working(home, quiet) ==
    /\ \A k \in Keys : RecordOK(k, home)
    /\ \A s \in Queued : StepOK(s, home, quiet)

\* An unchanged record stays as it should be.
LEMMA RecordSame ==
    ASSUME NEW k \in Keys, NEW home, RecordOK(k, home), instance'[k] = instance[k]
    PROVE  RecordOK(k, home)'
BY DEF RecordOK

\* A step left in the queue: completing an event or a gateway, it can be of no work.
LEMMA StepStays ==
    ASSUME Base, Base', NEW home, NEW quiet, NEW s \in Queued, StepOK(s, home, quiet), ~Solo(s),
           instance'[s.key].process = instance[s.key].process,
           instance'[s.key].state = "Terminating" => instance[s.key].state = "Terminating"
    PROVE  StepOK(s, home, quiet)'
<1>1. TypeOK /\ TypeOK' /\ Kinded' BY DEF Base
<1>2. s.key \in Keys /\ s.elem \in Elements BY <1>1, StepKeys
<1>3. s.op = "Complete" => instance'[s.key].work[s.elem] = "None"
  <2>1. s.op = "Complete" => Kind[s.elem] \in {"pass", "end"} BY DEF Solo
  <2> QED BY <1>1, <1>2, <2>1 DEF Kinded
<1>4. "None" \notin Open BY DEF Open
<1> QED BY <1>3, <1>4 DEF StepOK

\* The step at the head of the queue changes its instance k and queues the steps new.
LEMMA WorkingTurn ==
    ASSUME NEW home, NEW quiet, Base, Base', Ended, Working(home, quiet),
           NEW op, NEW new, Turn(op, new), NEW k \in Keys, k = HKey,
           RecordOK(k, home)', \A s \in new : StepOK(s, home, quiet)',
           instance'[k].state = "Terminating" => instance[k].state = "Terminating"
    PROVE  Working(home, quiet)'
<1>0. TypeOK /\ Alone BY DEF Base, Ended
<1>1. /\ Queued' = ToSet(Tail(queue)) \cup new
      /\ Queued = {Head(queue)} \cup ToSet(Tail(queue))
      /\ Len(queue) = 1 => ToSet(Tail(queue)) = {}
      /\ \A i \in Keys : i # k => instance'[i] = instance[i]
      /\ instance'[k].process = instance[k].process
  BY DEF Turn, Was, Now
<1>2. \A i \in Keys : RecordOK(i, home)' BY <1>1, RecordSame DEF Working
<1>3. ASSUME NEW s \in ToSet(Tail(queue)) PROVE StepOK(s, home, quiet)'
  <2>1. s \in Queued /\ ~Solo(s) /\ StepOK(s, home, quiet) BY <1>0, <1>1 DEF Alone, Working
  <2>2. s.key \in Keys BY <1>0, <2>1, StepKeys
  <2>3. /\ instance'[s.key].process = instance[s.key].process
        /\ instance'[s.key].state = "Terminating" => instance[s.key].state = "Terminating"
    BY <1>1, <2>2
  <2> QED BY <2>1, <2>3, StepStays
<1>4. \A s \in Queued' : StepOK(s, home, quiet)' BY <1>1, <1>3
<1> QED BY <1>2, <1>4 DEF Working

\* The step at the head, and the record of its instance k.
LEMMA HeadOK ==
    ASSUME NEW home, NEW quiet, Working(home, quiet), NEW k \in Keys, k = HKey,
           NEW g \in Elements, g = HElem, Head(queue) \in Queued
    PROVE  /\ RecordOK(k, home)
           /\ Head(queue).op = "Complete" => instance[k].work[g] \notin Open
           /\ Head(queue).op = "Activate" => home[g] = instance[k].process
           /\ Head(queue).op \in {"Activate", "Complete"} /\ instance[k].state = "Terminating" => g \in quiet
<1>1. StepOK(Head(queue), home, quiet) /\ RecordOK(k, home) BY DEF Working
<1> QED BY <1>1 DEF StepOK, HKey, HElem

LEMMA WorkingPass ==
    ASSUME NEW home, NEW quiet, Base, Ended, Working(home, quiet), ActivatePass
    PROVE  Working(home, quiet)'
<1>0. /\ Base' /\ Turn("Activate", {Step("Complete", HKey, HElem)})
      /\ Kind[HElem] \in {"pass", "end", "terminate"}
      /\ Now.state = Was.state /\ Now.active = Was.active \cup {HElem}
      /\ Now.work = Was.work /\ Now.timers = Was.timers
  BY PassEntered
<1>1. PICK k \in Keys : k = HKey BY <1>0 DEF Turn
<1>2. PICK g \in Elements : g = HElem BY <1>0 DEF Turn
<1>3. /\ instance'[k].state = instance[k].state /\ instance'[k].active = instance[k].active \cup {g}
      /\ instance'[k].work = instance[k].work /\ instance'[k].timers = instance[k].timers
      /\ instance'[k].process = instance[k].process
  BY <1>0, <1>1, <1>2 DEF Now, Was, Turn
<1>4. /\ RecordOK(k, home) /\ home[g] = instance[k].process
      /\ instance[k].state = "Terminating" => g \in quiet
  <2>1. Head(queue) \in Queued /\ Head(queue).op = "Activate" BY <1>0 DEF Turn
  <2> QED BY <1>1, <1>2, <2>1, HeadOK
<1>5. RecordOK(k, home)' BY <1>3, <1>4 DEF RecordOK
<1> DEFINE s == Step("Complete", k, g)
<1>6. s.op = "Complete" /\ s.key = k /\ s.elem = g BY AtStep
<1>7. instance'[k].work[g] = "None" BY <1>0, <1>2 DEF Base, Kinded
<1> HIDE DEF s
<1>8. StepOK(s, home, quiet)' BY <1>3, <1>4, <1>6, <1>7 DEF StepOK, Open
<1>9. Turn("Activate", {s}) BY <1>0, <1>1, <1>2 DEF s
<1>10. \A t \in {s} : StepOK(t, home, quiet)' BY <1>8
<1> QED BY <1>0, <1>1, <1>3, <1>5, <1>9, <1>10, WorkingTurn

\* A task or a call activity is not entered in a terminating instance.
LEMMA NotTerminating ==
    ASSUME NEW home, NEW quiet, QuietAfterCalls(home, quiet), Base, Ended, Working(home, quiet),
           NEW k \in Keys, k = HKey, NEW g \in Elements, g = HElem,
           Head(queue) \in Queued, Head(queue).op = "Activate",
           Kind[g] \notin {"pass", "end"}, instance[k].state \notin {"None", "Terminated"}
    PROVE  /\ RecordOK(k, home) /\ home[g] = instance[k].process
           /\ instance[k].state \in {"Active", "Suspended"}
<1>1. /\ RecordOK(k, home) /\ home[g] = instance[k].process
      /\ instance[k].state = "Terminating" => g \in quiet
  BY HeadOK
<1>2. instance[k].state # "Terminating" BY <1>1 DEF QuietAfterCalls
<1>3. instance[k].state # "Completed" BY DEF Ended, Targets, HKey
<1>4. instance[k].state \in States BY Parts DEF Base
<1> QED BY <1>1, <1>2, <1>3, <1>4 DEF States

LEMMA WorkingTask ==
    ASSUME NEW home, NEW quiet, QuietAfterCalls(home, quiet), Base, Ended, Working(home, quiet),
           ActivateTask
    PROVE  Working(home, quiet)'
<1>0. /\ Base' /\ Turn("Activate", {}) /\ Kind[HElem] \in {"task", "user"}
      /\ Now.state = Was.state /\ Now.active = Was.active \cup {HElem}
      /\ \A f \in Elements : Now.work[f] = IF f = HElem THEN "Created" ELSE Was.work[f]
      /\ Now.timers = Was.timers
  BY TaskEntered
<1>1. PICK k \in Keys : k = HKey BY <1>0 DEF Turn
<1>2. PICK g \in Elements : g = HElem BY <1>0 DEF Turn
<1>3. /\ instance'[k].state = instance[k].state /\ instance'[k].active = instance[k].active \cup {g}
      /\ \A f \in Elements : instance'[k].work[f] = IF f = g THEN "Created" ELSE instance[k].work[f]
      /\ instance'[k].process = instance[k].process
  BY <1>0, <1>1, <1>2 DEF Now, Was, Turn
<1>4. /\ RecordOK(k, home) /\ home[g] = instance[k].process
      /\ instance[k].state \in {"Active", "Suspended"}
  <2>1. Head(queue) \in Queued /\ Head(queue).op = "Activate"
        /\ instance[k].state \notin {"None", "Terminated"}
    BY <1>0, <1>1 DEF Turn, Was
  <2>2. Kind[g] \notin {"pass", "end"} BY <1>0, <1>2
  <2> QED BY <1>1, <1>2, <2>1, <2>2, NotTerminating
<1>5. RecordOK(k, home)' BY <1>3, <1>4 DEF RecordOK, Live
<1>6. \A t \in {} : StepOK(t, home, quiet)' OBVIOUS
<1> QED BY <1>0, <1>1, <1>3, <1>5, <1>6, WorkingTurn

\* A token leaves its element, which has no open work.
LEMMA WorkingLeaves ==
    ASSUME NEW home, NEW quiet, QuietAfterCalls(home, quiet), Base, Base', Ended,
           Working(home, quiet), NEW op, Turn(op, Onward(HKey, HElem)), HElem \in Was.active,
           Now.state = Was.state, Now.active = Was.active \ {HElem},
           Now.work = Was.work, Now.timers = Was.timers \ {HElem},
           Was.work[HElem] \notin Open,
           Was.state = "Terminating" => ToSet(Flows[HElem]) \subseteq quiet
    PROVE  Working(home, quiet)'
<1>1. PICK k \in Keys : k = HKey BY DEF Turn
<1>2. PICK g \in Elements : g = HElem BY DEF Turn
<1>3. /\ instance'[k].state = instance[k].state /\ instance'[k].active = instance[k].active \ {g}
      /\ instance'[k].work = instance[k].work /\ instance'[k].timers = instance[k].timers \ {g}
      /\ instance'[k].process = instance[k].process
      /\ g \in instance[k].active /\ instance[k].work[g] \notin Open
      /\ instance[k].state = "Terminating" => ToSet(Flows[g]) \subseteq quiet
  BY <1>1, <1>2 DEF Now, Was, Turn
<1>4. RecordOK(k, home) BY DEF Working
<1>5. RecordOK(k, home)' BY <1>3, <1>4 DEF RecordOK
<1> DEFINE new == Onward(HKey, HElem)
<1>6. ASSUME NEW s \in new PROVE StepOK(s, home, quiet)'
  <2>1. ToSet(Flows[g]) \subseteq Elements BY AllActivated
  <2>2. PICK f \in ToSet(Flows[g]) : s = Step("Activate", k, f) BY <1>1, <1>2 DEF Onward
  <2>3. s.op = "Activate" /\ s.key = k /\ s.elem = f BY <2>1, <2>2, AtStep
  <2>4. home[g] = instance[k].process BY <1>3, <1>4 DEF RecordOK
  <2>5. home[f] = home[g] BY DEF QuietAfterCalls
  <2>6. instance[k].state = "Terminating" => f \in quiet BY <1>3
  <2> QED BY <1>3, <2>3, <2>4, <2>5, <2>6 DEF StepOK
<1> HIDE DEF new
<1>7. Turn(op, new) BY DEF new
<1> QED BY <1>1, <1>3, <1>5, <1>6, <1>7, WorkingTurn

LEMMA WorkingComplete ==
    ASSUME NEW home, NEW quiet, QuietAfterCalls(home, quiet), Base, Ended, Working(home, quiet),
           Complete
    PROVE  Working(home, quiet)'
<1>0. /\ Base' /\ Turn("Complete", Onward(HKey, HElem))
      /\ Now.state = Was.state /\ Now.active = Was.active \ {HElem}
      /\ Now.work = Was.work /\ Now.timers = Was.timers \ {HElem}
  BY ElementLeft
<1>1. PICK k \in Keys : k = HKey BY <1>0 DEF Turn
<1>2. PICK g \in Elements : g = HElem BY <1>0 DEF Turn
<1>3. /\ instance[k].work[g] \notin Open /\ (instance[k].state = "Terminating" => g \in quiet)
  <2>1. Head(queue) \in Queued /\ Head(queue).op = "Complete" BY <1>0 DEF Turn
  <2> QED BY <1>1, <1>2, <2>1, HeadOK
<1>4. Was.work[HElem] \notin Open BY <1>1, <1>2, <1>3 DEF Was
<1>5. Was.state = "Terminating" => ToSet(Flows[HElem]) \subseteq quiet
  BY <1>1, <1>2, <1>3 DEF Was, QuietAfterCalls
<1>6. HElem \in Was.active BY <1>0 DEF Turn
<1> QED BY <1>0, <1>4, <1>5, <1>6, WorkingLeaves

LEMMA WorkingCallLeft ==
    ASSUME NEW home, NEW quiet, QuietAfterCalls(home, quiet), Base, Ended, Working(home, quiet),
           CompleteCallActivity
    PROVE  Working(home, quiet)'
<1>0. Base' /\ HElem \in Calls BY CallLeft
<1>1. CASE HElem \in Was.active
  <2>1. /\ Turn("CompleteCallActivity", Onward(HKey, HElem))
        /\ Now.state = Was.state /\ Now.active = Was.active \ {HElem}
        /\ Now.work = Was.work /\ Now.timers = Was.timers \ {HElem}
    BY <1>1, CallLeft
  <2>2. PICK k \in Keys : k = HKey BY <2>1 DEF Turn
  <2>3. PICK g \in Calls : g = HElem BY <1>0
  <2>4. instance[k].work[g] = "None" BY <2>3, Kept DEF Calls
  <2>5. Was.work[HElem] \notin Open BY <2>2, <2>3, <2>4 DEF Was, Open
  <2>6. RecordOK(k, home) BY DEF Working
  <2>7. g \in instance[k].active BY <1>1, <2>2, <2>3 DEF Was
  <2>8. instance[k].state = "Terminating" => ToSet(Flows[g]) \subseteq quiet
    BY <2>6, <2>7 DEF RecordOK, QuietAfterCalls, Calls
  <2>9. Was.state = "Terminating" => ToSet(Flows[HElem]) \subseteq quiet BY <2>2, <2>3, <2>8 DEF Was
  <2> QED BY <1>0, <1>1, <2>1, <2>5, <2>9, WorkingLeaves
<1>2. CASE HElem \notin Was.active
  <2>1. Turn("CompleteCallActivity", {}) /\ instance' = instance BY <1>2, CallLeft
  <2>2. PICK k \in Keys : k = HKey BY <2>1 DEF Turn
  <2>3. RecordOK(k, home)' /\ instance'[k].state = instance[k].state BY <2>1, RecordSame DEF Working
  <2>4. \A t \in {} : StepOK(t, home, quiet)' OBVIOUS
  <2> QED BY <1>0, <2>1, <2>2, <2>3, <2>4, WorkingTurn
<1> QED BY <1>1, <1>2

LEMMA WorkingTerminateEnd ==
    ASSUME NEW home, NEW quiet, Base, Ended, Working(home, quiet), CompleteTerminateEnd
    PROVE  Working(home, quiet)'
<1> DEFINE new == ToSet(call_activity_completion_step(HKey))
<1>0. /\ Base' /\ Turn("Complete", new)
      /\ Now.state = "Completed" /\ Now.active = {} /\ \A f \in Elements : Now.work[f] \notin Open
  BY TerminateEnded
<1>1. PICK k \in Keys : k = HKey BY <1>0 DEF Turn
<1>2. /\ instance'[k].state = "Completed" /\ instance'[k].active = {}
      /\ \A f \in Elements : instance'[k].work[f] \notin Open
  BY <1>0, <1>1 DEF Now
<1>3. RecordOK(k, home)' BY <1>2 DEF RecordOK
<1>4. \A s \in new : s.op = "CompleteCallActivity"
  BY <1>1, OnlyReleases DEF Base
<1> HIDE DEF new
<1>5. \A s \in new : StepOK(s, home, quiet)' BY <1>4 DEF StepOK
<1> QED BY <1>0, <1>1, <1>2, <1>3, <1>5, WorkingTurn

\* The step at the head spawns a child.
LEMMA WorkingBorn ==
    ASSUME NEW home, NEW quiet, QuietAfterCalls(home, quiet), Base, Base', Ended,
           Working(home, quiet), NEW op, Born(op),
           NEW k \in Keys, k = HKey, RecordOK(k, home)'
    PROVE  Working(home, quiet)'
<1>0. TypeOK /\ Alone BY DEF Base, Ended
<1>1. PICK c \in Keys : c = next_key BY DEF Born
<1>2. PICK g \in Elements : g = HElem BY DEF Born, Calls
<1> DEFINE s == Step("Activate", c, StartEvent[Callee[g]])
<1>3. /\ Queued' = ToSet(Tail(queue)) \cup {s}
      /\ Queued = {Head(queue)} \cup ToSet(Tail(queue))
      /\ Len(queue) = 1 => ToSet(Tail(queue)) = {}
      /\ c # k /\ instance[c].state = "None" /\ instance'[c].state = "Active"
      /\ instance'[c].active = {} /\ instance'[c].process = Callee[g]
      /\ \A f \in Elements : instance'[c].work[f] = "None"
      /\ \A i \in Keys : i # k /\ i # c => instance'[i] = instance[i]
      /\ instance'[k].process = instance[k].process /\ instance'[k].state = instance[k].state
  BY <1>1, <1>2 DEF Born, Was, Now
<1>4. RecordOK(c, home)' BY <1>3 DEF RecordOK, Open
<1>5. \A i \in Keys : RecordOK(i, home)' BY <1>3, <1>4, RecordSame DEF Working
<1>6. StepOK(s, home, quiet)'
  <2>1. Callee[g] \in Processes /\ StartEvent[Callee[g]] \in Elements BY TreeAssumption
  <2>2. s.op = "Activate" /\ s.key = c /\ s.elem = StartEvent[Callee[g]] BY <2>1, AtStep
  <2>3. home[StartEvent[Callee[g]]] = Callee[g] BY <2>1 DEF QuietAfterCalls
  <2> HIDE DEF s
  <2> QED BY <1>3, <2>2, <2>3 DEF StepOK
<1>7. ASSUME NEW t \in ToSet(Tail(queue)) PROVE StepOK(t, home, quiet)'
  <2>1. t \in Queued /\ ~Solo(t) /\ StepOK(t, home, quiet) BY <1>0, <1>3 DEF Alone, Working
  <2>2. t.key \in Keys BY <1>0, <2>1, StepKeys
  <2>3. instance[t.key].state # "None" BY <2>1 DEF Base, Known
  <2>4. /\ instance'[t.key].process = instance[t.key].process
        /\ instance'[t.key].state = "Terminating" => instance[t.key].state = "Terminating"
    BY <1>3, <2>2, <2>3
  <2> QED BY <2>1, <2>4, StepStays
<1>8. \A t \in Queued' : StepOK(t, home, quiet)' BY <1>3, <1>6, <1>7
<1> QED BY <1>5, <1>8 DEF Working

LEMMA WorkingCallEntered ==
    ASSUME NEW home, NEW quiet, QuietAfterCalls(home, quiet), Base, Ended, Working(home, quiet),
           ActivateCallActivity
    PROVE  Working(home, quiet)'
<1>0. /\ Base' /\ HElem \in Calls /\ Now.active = Was.active \cup {HElem}
      /\ \/ Turn("Activate", {}) /\ Now.state = Was.state /\ Now.work = Was.work
         \/ Born("Activate")
  BY CallEntered
<1>1. PICK k \in Keys : k = HKey BY <1>0 DEF Turn, Born
<1>2. PICK g \in Elements : g = HElem BY <1>0 DEF Calls
<1>3. /\ instance'[k].state = instance[k].state /\ instance'[k].active = instance[k].active \cup {g}
      /\ instance'[k].work = instance[k].work /\ instance'[k].process = instance[k].process
      /\ Head(queue) \in Queued /\ Head(queue).op = "Activate"
      /\ instance[k].state \notin {"None", "Terminated"}
  BY <1>0, <1>1, <1>2 DEF Now, Was, Turn, Born
<1>4. /\ RecordOK(k, home) /\ home[g] = instance[k].process
      /\ instance[k].state \in {"Active", "Suspended"}
  <2>1. Kind[g] \notin {"pass", "end"} BY <1>0, <1>2 DEF Calls
  <2> QED BY <1>1, <1>2, <1>3, <2>1, NotTerminating
<1>5. RecordOK(k, home)' BY <1>3, <1>4 DEF RecordOK
<1>6. CASE Turn("Activate", {})
  <2>1. \A t \in {} : StepOK(t, home, quiet)' OBVIOUS
  <2> QED BY <1>0, <1>1, <1>3, <1>5, <1>6, <2>1, WorkingTurn
<1>7. CASE Born("Activate") BY <1>0, <1>1, <1>5, <1>7, WorkingBorn
<1> QED BY <1>0, <1>6, <1>7

LEMMA WorkingRetried ==
    ASSUME NEW home, NEW quiet, QuietAfterCalls(home, quiet), Base, Ended, Working(home, quiet),
           RetryCallActivitySpawn
    PROVE  Working(home, quiet)'
<1>0. /\ Base' /\ Now.active = Was.active /\ Now.timers = Was.timers
      /\ \/ Turn("RetryCallActivitySpawn", {}) /\ Now.state = Was.state /\ Now.work = Was.work
         \/ Born("RetryCallActivitySpawn")
  BY SpawnRetried
<1>1. PICK k \in Keys : k = HKey BY <1>0 DEF Turn, Born
<1>2. /\ instance'[k].state = instance[k].state /\ instance'[k].active = instance[k].active
      /\ instance'[k].work = instance[k].work /\ instance'[k].process = instance[k].process
      /\ instance'[k].timers = instance[k].timers
  BY <1>0, <1>1 DEF Now, Was, Turn, Born
<1>3. RecordOK(k, home) BY DEF Working
<1>4. RecordOK(k, home)' BY <1>2, <1>3 DEF RecordOK
<1>5. CASE Turn("RetryCallActivitySpawn", {})
  <2>1. \A t \in {} : StepOK(t, home, quiet)' OBVIOUS
  <2> QED BY <1>0, <1>1, <1>2, <1>4, <1>5, <2>1, WorkingTurn
<1>6. CASE Born("RetryCallActivitySpawn") BY <1>0, <1>1, <1>4, <1>6, WorkingBorn
<1> QED BY <1>0, <1>5, <1>6

\* A command to an instance.
LEMMA WorkingOrder ==
    ASSUME NEW home, NEW quiet, Working(home, quiet), NEW k \in Keys, Order(k), RecordOK(k, home)',
           \A s \in Queued' : StepOK(s, home, quiet)'
    PROVE  Working(home, quiet)'
<1>1. \A i \in Keys : i # k => instance'[i] = instance[i] BY DEF Order
<1>2. \A i \in Keys : RecordOK(i, home)' BY <1>1, RecordSame DEF Working
<1> QED BY <1>2 DEF Working

LEMMA WorkingNext ==
    ASSUME NEW home, NEW quiet, QuietAfterCalls(home, quiet),
           Base, Driving, Ended, Working(home, quiet), [Next]_vars
    PROVE  Working(home, quiet)'
<1> DEFINE W == Working(home, quiet)
<1>a. /\ \A k \in Keys : RecordOK(k, home)
      /\ \A s \in Queued : StepOK(s, home, quiet)
  BY DEF Working
<1>b. TypeOK /\ OverEmpty /\ Alone /\ CancelingWaits BY DEF Base, Ended, Driving
<1>r. ASSUME NEW k \in Keys, Reaped(k) PROVE RecordOK(k, home)' BY <1>r DEF RecordOK, Reaped
<1>s. ASSUME instance' = instance, Queued' \subseteq Queued PROVE W'
  <2>1. \A k \in Keys : RecordOK(k, home)' BY <1>a, <1>s, RecordSame
  <2>2. \A s \in Queued' : StepOK(s, home, quiet)' BY <1>a, <1>s DEF StepOK
  <2> QED BY <2>1, <2>2 DEF Working
<1>t. queue' = queue => Queued' \subseteq Queued BY DEF Queued
<1>1. CASE DropStep BY <1>1, <1>s, StepDropped
<1>2. CASE ActivatePass BY <1>2, WorkingPass
<1>3. CASE ActivateTask BY <1>3, WorkingTask
<1>4. CASE ActivateCallActivity BY <1>4, WorkingCallEntered
<1>5. CASE RetryCallActivitySpawn BY <1>5, WorkingRetried
<1>6. CASE Complete BY <1>6, WorkingComplete
<1>7. CASE CompleteTerminateEnd BY <1>7, WorkingTerminateEnd
<1>8. CASE CompleteCallActivity BY <1>8, WorkingCallLeft
<1>9. CASE complete_finished_instances
  <2>1. /\ \A k \in Keys : k \notin Finished => instance'[k] = instance[k]
        /\ \A k \in Finished : RunEmpty(k)
        /\ \A s \in Queued' : s.op = "CompleteCallActivity"
    BY <1>9, EmptyCompleted
  <2>2. ASSUME NEW k \in Keys PROVE RecordOK(k, home)'
    <3>1. CASE k \in Finished BY <1>a, <2>1, <3>1 DEF RecordOK, RunEmpty
    <3>2. CASE k \notin Finished BY <1>a, <2>1, <3>2, RecordSame
    <3> QED BY <3>1, <3>2
  <2>3. \A s \in Queued' : StepOK(s, home, quiet)' BY <2>1 DEF StepOK
  <2> QED BY <2>2, <2>3 DEF Working
<1>10. CASE cascade_cancel_children
  <2>1. /\ Queued' = {} /\ \A k \in Keys : instance'[k] = instance[k] \/ Reaped(k)
    BY <1>10, ChildrenReaped
  <2>2. \A k \in Keys : RecordOK(k, home)' BY <1>a, <1>r, <2>1, RecordSame
  <2> QED BY <2>1, <2>2 DEF Working
<1>11. CASE Quiesce BY <1>11, <1>s, <1>t, CommandOver
<1>12. ASSUME NEW k \in Keys, NEW e \in Elements, FireTimer(k, e) PROVE W'
  <2>1. CASE instance' = instance /\ queue' = queue BY <1>s, <1>t, <2>1
  <2>2. CASE ~(instance' = instance /\ queue' = queue)
    <3> DEFINE s == Step("Activate", k, Boundary[e])
    <3>1. /\ Base' /\ due # {} /\ e \in instance[k].timers /\ e \in Timed
          /\ Boundary[e] \in Elements /\ Queued' = Queued \cup {s}
          /\ instance'[k].state = instance[k].state
          /\ instance'[k].active = instance[k].active \ {e}
          /\ instance'[k].work = instance[k].work
          /\ instance'[k].process = instance[k].process
          /\ \A i \in Keys : i # k => instance'[i] = instance[i] \/ Reaped(i)
      BY <1>12, <2>2, TimerFired
    <3>2. s.op = "Activate" /\ s.key = k /\ s.elem = Boundary[e] BY <3>1, AtStep
    <3> HIDE DEF s
    <3>3. RecordOK(k, home) /\ instance[k].work[e] = "None"
      BY <1>a, <3>1, Kept DEF Timed, Calls
    <3>4. instance[k].state \notin {"Terminating", "Terminated"} BY <3>1, <3>3 DEF RecordOK
    <3>5. e \in instance[k].active BY <1>b, <3>1, <3>4 DEF OverEmpty
    <3>6. RecordOK(k, home)' BY <3>1, <3>3, <3>4 DEF RecordOK, Open
    <3>7. \A i \in Keys : RecordOK(i, home)' BY <1>a, <1>r, <3>1, <3>6, RecordSame
    <3>8. StepOK(s, home, quiet)'
      <4>1. home[Boundary[e]] = home[e] BY <3>1 DEF Timed, QuietAfterCalls
      <4>2. home[e] = instance[k].process BY <3>3, <3>5 DEF RecordOK
      <4> QED BY <3>1, <3>2, <3>4, <4>1, <4>2 DEF StepOK
    <3>9. ASSUME NEW t \in Queued PROVE StepOK(t, home, quiet)'
      <4>1. ~Solo(t) /\ StepOK(t, home, quiet) /\ t.key \in Keys
        BY <1>a, <1>b, <3>1, StepKeys DEF Alone
      <4>2. /\ instance'[t.key].process = instance[t.key].process
            /\ instance'[t.key].state = "Terminating" => instance[t.key].state = "Terminating"
        BY <3>1, <4>1 DEF Reaped
      <4> QED BY <3>1, <4>1, <4>2, StepStays
    <3> QED BY <3>1, <3>7, <3>8, <3>9 DEF Working
  <2> QED BY <2>1, <2>2
<1>13. ASSUME NEW p \in Processes, DeployProcess(p) PROVE W' BY <1>13, <1>s, <1>t, Deployed
<1>14. ASSUME NEW p \in Roots, CreateInstance(p) PROVE W'
  <2>0. p \in Processes /\ StartEvent[p] \in Elements BY TreeAssumption
  <2>1. PICK c \in Keys : c = next_key BY <1>14, <2>0, InstanceCreated
  <2> DEFINE s == Step("Activate", c, StartEvent[p])
  <2>2. /\ instance'[c].state = "Active" /\ instance'[c].active = {} /\ instance'[c].process = p
        /\ \A f \in Elements : instance'[c].work[f] = "None"
        /\ \A i \in Keys : i # c => instance'[i] = instance[i]
        /\ Queued' = {s}
    BY <1>14, <2>0, <2>1, InstanceCreated
  <2>3. s.op = "Activate" /\ s.key = c /\ s.elem = StartEvent[p] BY <2>0, AtStep
  <2> HIDE DEF s
  <2>4. RecordOK(c, home)' BY <2>2 DEF RecordOK, Open
  <2>5. \A i \in Keys : RecordOK(i, home)' BY <1>a, <2>2, <2>4, RecordSame
  <2>6. StepOK(s, home, quiet)' BY <2>0, <2>2, <2>3 DEF StepOK, QuietAfterCalls
  <2> QED BY <2>2, <2>5, <2>6 DEF Working
<1>15. ASSUME NEW k \in Keys, CancelInstance(k) PROVE W'
  <2>1. /\ Order(k) /\ Queued' = {} /\ instance[k].state = "Active"
        /\ instance'[k].process = instance[k].process
        /\ Reaped(k) \/ Awaiting(k)
    BY <1>15, InstanceCanceled DEF Order
  <2>2. RecordOK(k, home) BY <1>a
  <2>3. CASE Reaped(k) BY <1>r, <2>1, <2>3, WorkingOrder
  <2>4. CASE Awaiting(k)
    <3>1. PICK l \in Listening : instance[k].work[l] = "Created" BY <2>4 DEF Awaiting, Deferred
    <3>2. l \in Elements BY TreeAssumption
    <3>3. l \in instance[k].active /\ home[l] = instance[k].process
      BY <2>2, <3>1, <3>2 DEF RecordOK, Open
    <3>4. RecordOK(k, home)' BY <2>1, <2>2, <2>4, <3>3 DEF Awaiting, RecordOK, Open, Live
    <3> QED BY <2>1, <3>4, WorkingOrder
  <2> QED BY <2>1, <2>3, <2>4
<1>16. ASSUME NEW k \in Keys, SuspendInstance(k) \/ ResumeInstance(k) PROVE W'
  <2>1. /\ Order(k) /\ Queued' = {} /\ instance[k].state \in {"Active", "Suspended"}
        /\ instance'[k].state \in {"Active", "Suspended"}
        /\ instance'[k].active = instance[k].active /\ instance'[k].work = instance[k].work
    BY <1>16, InstanceSuspended, InstanceResumed DEF StateOnly
  <2>2. instance'[k].process = instance[k].process BY <2>1 DEF Order
  <2>3. RecordOK(k, home) BY <1>a
  <2>4. RecordOK(k, home)' BY <2>1, <2>2, <2>3 DEF RecordOK, Live
  <2> QED BY <2>1, <2>4, WorkingOrder
<1>18. ASSUME NEW k \in Keys, NEW e \in Elements, ActivateJob(k, e) PROVE W'
  <2>1. /\ Order(k) /\ Queued' = {} /\ WorkOnly(k, e, "Activated") /\ instance[k].work[e] = "Created"
    BY <1>18, JobTaken
  <2>2. instance'[k].process = instance[k].process BY <2>1 DEF Order
  <2>3. RecordOK(k, home) BY <1>a
  <2>4. RecordOK(k, home)' BY <2>1, <2>2, <2>3 DEF RecordOK, WorkOnly, Open
  <2> QED BY <2>1, <2>4, WorkingOrder
<1>19. ASSUME NEW k \in Keys, NEW e \in Elements, CompleteJob(k, e) \/ CompleteUserTask(k, e)
       PROVE  W'
  <2>1. /\ Order(k) /\ Queued' = {Step("Complete", k, e)} /\ WorkOnly(k, e, "Completed")
        /\ instance[k].work[e] \in {"Created", "Activated"}
    BY <1>19, WorkDone
  <2>2. instance'[k].process = instance[k].process BY <2>1 DEF Order
  <2>3. RecordOK(k, home) BY <1>a
  <2>4. RecordOK(k, home)' BY <2>1, <2>2, <2>3 DEF RecordOK, WorkOnly, Open
  <2> DEFINE s == Step("Complete", k, e)
  <2>5. s.op = "Complete" /\ s.key = k /\ s.elem = e BY AtStep
  <2>6. instance'[k].work[e] = "Completed" /\ instance'[k].state # "Terminating"
    BY <2>1, <2>3 DEF RecordOK, WorkOnly
  <2>7. Queued' = {s} BY <2>1
  <2> HIDE DEF s
  <2>8. \A t \in Queued' : StepOK(t, home, quiet)' BY <2>5, <2>6, <2>7 DEF StepOK, Open
  <2> QED BY <2>1, <2>4, <2>8, WorkingOrder
<1>20. ASSUME NEW k \in Keys, NEW e \in Elements, CompleteListener(k, e) PROVE W'
  <2>1. /\ Order(k) /\ Queued' = {} /\ instance[k].work[e] = "Canceling"
        /\ WorkOnly(k, e, "Canceled") \/ LastAnswer(k, e)
    BY <1>20, ListenerAnswered
  <2>2. instance'[k].process = instance[k].process BY <2>1 DEF Order
  <2>3. RecordOK(k, home) /\ instance[k].state = "Terminating" BY <1>a, <1>b, <2>1 DEF CancelingWaits
  <2>4. CASE WorkOnly(k, e, "Canceled")
    <3>1. RecordOK(k, home)' BY <2>2, <2>3, <2>4 DEF RecordOK, WorkOnly, Open
    <3> QED BY <2>1, <3>1, WorkingOrder
  <2>5. CASE LastAnswer(k, e)
    <3>1. RecordOK(k, home)' BY <2>2, <2>3, <2>5 DEF RecordOK, LastAnswer, Open
    <3> QED BY <2>1, <3>1, WorkingOrder
  <2> QED BY <2>1, <2>4, <2>5
<1>21. ASSUME NEW k \in Keys, NEW e \in Elements, ResolveIncident(k, e) PROVE W'
  <2> DEFINE s == Step("RetryCallActivitySpawn", k, e)
  <2>1. /\ Order(k) /\ Queued' = {s}
        /\ instance'[k].state = instance[k].state /\ instance'[k].active = instance[k].active
        /\ instance'[k].work = instance[k].work /\ instance'[k].timers = instance[k].timers
    BY <1>21, IncidentResolved
  <2>2. instance'[k].process = instance[k].process BY <2>1 DEF Order
  <2>3. RecordOK(k, home) BY <1>a
  <2>4. RecordOK(k, home)' BY <2>1, <2>2, <2>3 DEF RecordOK
  <2>5. s.op = "RetryCallActivitySpawn" BY AtStep
  <2> HIDE DEF s
  <2>6. \A t \in Queued' : StepOK(t, home, quiet)' BY <2>1, <2>5 DEF StepOK
  <2> QED BY <2>1, <2>4, <2>6, WorkingOrder
<1>22. ASSUME NEW fired \in SUBSET {t \in Keys \X Elements : t[2] \in instance[t[1]].timers},
              TriggerTimers(fired)
       PROVE  W'
  BY <1>22, <1>s, <1>t, TimersDue
<1>23. CASE UNCHANGED vars BY <1>23, <1>s, <1>t DEF vars, drain
<1> QED BY <1>1, <1>2, <1>3, <1>4, <1>5, <1>6, <1>7, <1>8, <1>9, <1>10, <1>11, <1>12, <1>13, <1>14,
           <1>15, <1>16, <1>18, <1>19, <1>20, <1>21, <1>22, <1>23 DEF Next, Drain

\* Between commands, a job or user task that can be completed and a timer that can fire belong
\* to a live instance that holds the token: for processes whose terminate ends are reached from
\* tasks alone and where no work follows a call activity beside tasks with canceling listeners.
THEOREM NoIdleWork ==
    ASSUME TerminateAlone,
           NEW home, NEW quiet, QuietAfterCalls(home, quiet)
    PROVE  Spec => []WorkHasToken
<1>1. Init => Working(home, quiet)
  <2> SUFFICES ASSUME Init PROVE Working(home, quiet) OBVIOUS
  <2>1. Base BY BaseInit
  <2>2. \A k \in Keys : instance[k].state = "None" BY DEF Init, ProcessInstanceCreated
  <2>3. Queued = {} BY EmptyQueue DEF Init, Queued
  <2>4. \A k \in Keys : instance[k].active = {} /\ \A e \in Elements : instance[k].work[e] = "None"
    BY <2>1, <2>2 DEF Base, Known
  <2> QED BY <2>2, <2>3, <2>4 DEF Working, RecordOK, Open
<1>2. Base /\ Driving /\ Ended /\ Working(home, quiet) /\ [Next]_vars => Working(home, quiet)'
  BY WorkingNext
<1>3. Base /\ Ended /\ Working(home, quiet) => WorkHasToken
  <2> SUFFICES ASSUME Base, Ended, Working(home, quiet), NEW k \in Keys, NEW e \in Elements,
                      instance[k].work[e] \in Open \/ e \in instance[k].timers
               PROVE  instance[k].state \in Live /\ e \in instance[k].active
    BY DEF WorkHasToken
  <2>1. RecordOK(k, home) /\ OverEmpty BY DEF Working, Ended
  <2>2. CASE instance[k].work[e] \in Open BY <2>1, <2>2 DEF RecordOK
  <2>3. CASE e \in instance[k].timers
    <3>1. instance[k].state # "Terminated" BY <2>1, <2>3 DEF RecordOK
    <3>2. e \in instance[k].active BY <2>1, <2>3, <3>1 DEF OverEmpty
    <3>3. instance[k].state \notin Over \cup {"None"} BY <2>1, <3>2 DEF OverEmpty
    <3>4. instance[k].state \in States BY Parts DEF Base
    <3> QED BY <3>2, <3>3, <3>4 DEF States, Over, Live
  <2> QED BY <2>2, <2>3
<1> QED BY <1>1, <1>2, <1>3, BaseAlways, DrivingAlways, EndedAlways, PTL DEF Spec

=============================================================================
