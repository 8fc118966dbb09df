----------------------------- MODULE MailboxProofs -----------------------------
(***************************************************************************)
(* A clean shutdown of the engine thread loses no job, for any number of   *)
(* tasks, handles and jobs.                                                *)
(*                                                                         *)
(* The promise is about the end, the argument about the way there: every   *)
(* job pushed is queued, in the thread's hands, or has run, and there are  *)
(* as many of them as were pushed (so none is there twice); the count of   *)
(* handles is exact, so the thread sees zero only when nobody can push.    *)
(***************************************************************************)
EXTENDS Mailbox, FiniteSetTheorems, SequenceTheorems, TLAPS

\* The job in the thread's hands.
Held == IF thread.pc \in {"run", "dead"} THEN {thread.job} ELSE {}
HeldCount == IF thread.pc \in {"run", "dead"} THEN 1 ELSE 0

Shape ==
    /\ hi \in Seq(Nat) /\ lo \in Seq(Nat) /\ ran \in Seq(Nat) /\ pushed \in Nat
    /\ handles \subseteq Tasks /\ producers = Cardinality(handles)
    /\ thread.pc \in {"pop", "run", "wait", "ended", "dead"} /\ thread.job \in Nat

\* Every job is somewhere,
Accounted == ToSet(ran) \cup ToSet(hi) \cup ToSet(lo) \cup Held = 1 .. pushed

\* and nowhere twice.
Counted == Len(ran) + Len(hi) + Len(lo) + HeldCount = pushed

\* The thread ends when nobody can push any more.
EndedEmpty == thread.pc = "ended" => handles = {} /\ hi = <<>> /\ lo = <<>>

MailboxInv == Shape /\ Accounted /\ Counted /\ EndedEmpty

-----------------------------------------------------------------------------
\* A queue holds what was appended to it.
LEMMA AppendSet ==
    ASSUME NEW s \in Seq(Nat), NEW x \in Nat
    PROVE  /\ Append(s, x) \in Seq(Nat) /\ Len(Append(s, x)) = Len(s) + 1
           /\ ToSet(Append(s, x)) = ToSet(s) \cup {x}
<1>1. /\ Append(s, x) \in Seq(Nat) /\ Len(Append(s, x)) = Len(s) + 1 /\ Len(s) \in Nat
      /\ DOMAIN s = 1 .. Len(s) /\ DOMAIN Append(s, x) = 1 .. Len(s) + 1
      /\ \A i \in 1 .. Len(s) : Append(s, x)[i] = s[i]
      /\ Append(s, x)[Len(s) + 1] = x
  OBVIOUS
<1>2. ToSet(Append(s, x)) \subseteq ToSet(s) \cup {x}
  BY <1>1 DEF ToSet
<1>3. ToSet(s) \cup {x} \subseteq ToSet(Append(s, x))
  BY <1>1 DEF ToSet
<1> QED BY <1>1, <1>2, <1>3

\* Taking the head of a queue takes that one job out of it.
LEMMA TailSet ==
    ASSUME NEW s \in Seq(Nat), s # <<>>
    PROVE  /\ Tail(s) \in Seq(Nat) /\ Len(Tail(s)) = Len(s) - 1 /\ Head(s) \in Nat
           /\ ToSet(s) = {Head(s)} \cup ToSet(Tail(s))
<1>1. /\ Tail(s) \in Seq(Nat) /\ Len(Tail(s)) = Len(s) - 1 /\ Len(s) \in Nat /\ Len(s) >= 1
      /\ Head(s) = s[1] /\ Head(s) \in Nat
      /\ DOMAIN s = 1 .. Len(s) /\ DOMAIN Tail(s) = 1 .. Len(s) - 1
      /\ \A i \in 1 .. Len(s) - 1 : Tail(s)[i] = s[i + 1]
  OBVIOUS
<1>2. ToSet(s) \subseteq {Head(s)} \cup ToSet(Tail(s))
  <2> SUFFICES ASSUME NEW i \in 1 .. Len(s), i # 1
               PROVE  s[i] \in ToSet(Tail(s))
    BY <1>1 DEF ToSet
  <2>1. i - 1 \in 1 .. Len(s) - 1 /\ Tail(s)[i - 1] = s[i] BY <1>1
  <2> QED BY <1>1, <2>1 DEF ToSet
<1>3. {Head(s)} \cup ToSet(Tail(s)) \subseteq ToSet(s)
  <2>1. \A i \in 1 .. Len(s) - 1 : i + 1 \in 1 .. Len(s) BY <1>1
  <2>2. 1 \in 1 .. Len(s) BY <1>1
  <2> QED BY <1>1, <2>1, <2>2 DEF ToSet
<1> QED BY <1>1, <1>2, <1>3

\* An empty queue holds nothing.
LEMMA EmptySet == ToSet(<<>>) = {} /\ Len(<<>>) = 0
BY DEF ToSet

\* The set of handles is finite.
LEMMA HandlesFinite ==
    ASSUME Shape
    PROVE  IsFiniteSet(handles) /\ producers \in Nat /\ (producers = 0 <=> handles = {})
<1>1. IsFiniteSet(handles) BY MailboxAssumption, FS_Subset DEF Shape
<1> QED BY <1>1, FS_CardinalityType, FS_EmptySet DEF Shape

\* Mailbox::new and spawn.
LEMMA MailboxInit == Init => MailboxInv
<1> SUFFICES ASSUME Init PROVE MailboxInv OBVIOUS
<1>1. PICK t \in Tasks : handles = {t} BY DEF Init
<1>2. Cardinality(handles) = 1 BY <1>1, FS_Singleton
<1>3. Shape BY <1>1, <1>2 DEF Init, Shape, At
<1>4. Accounted BY EmptySet DEF Init, Accounted, Held, At
<1>5. Counted BY EmptySet DEF Init, Counted, HeldCount, At
<1>6. EndedEmpty BY DEF Init, EndedEmpty, At
<1> QED BY <1>3, <1>4, <1>5, <1>6 DEF MailboxInv

\* A step that leaves the queues, the handles and the history alone, and does not
\* put a job into the thread's hands or take it out, or end the thread.
LEMMA QuietStep ==
    ASSUME MailboxInv, UNCHANGED <<queues, producers, handles, ran, pushed>>,
           \/ thread' = thread
           \/ thread.pc \in {"pop", "wait"} /\ thread'.pc \in {"pop", "wait"} /\ thread'.job = 0
    PROVE  MailboxInv'
<1>1. Shape' BY DEF MailboxInv, Shape, queues
<1>2. Held' = Held /\ HeldCount' = HeldCount BY DEF Held, HeldCount, MailboxInv, Shape
<1>3. Accounted' /\ Counted' BY <1>2 DEF MailboxInv, Accounted, Counted, queues
<1>4. EndedEmpty' BY DEF MailboxInv, EndedEmpty, queues
<1> QED BY <1>1, <1>3, <1>4 DEF MailboxInv

\* Every step preserves MailboxInv.
LEMMA MailboxNext == MailboxInv /\ [Next]_vars => MailboxInv'
<1> SUFFICES ASSUME MailboxInv, [Next]_vars PROVE MailboxInv' OBVIOUS
<1>0. Shape BY DEF MailboxInv
<1>a. /\ Len(hi) \in Nat /\ Len(lo) \in Nat /\ Len(ran) \in Nat
  BY <1>0 DEF Shape
<1>1. CASE UNCHANGED vars
  BY <1>1, QuietStep DEF vars, queues
<1>2. ASSUME NEW t \in Tasks, NEW u \in Tasks, Clone(t, u) PROVE MailboxInv'
  <2>0. /\ t \in handles /\ u \notin handles /\ handles' = handles \cup {u}
        /\ producers' = producers + 1 /\ UNCHANGED <<queues, thread, ran, pushed>>
    BY <1>2 DEF Clone
  <2>1. producers' = Cardinality(handles')
    BY <1>0, <2>0, HandlesFinite, FS_AddElement DEF Shape
  <2>2. Shape' BY <1>0, <2>0, <2>1 DEF Shape, queues
  <2>3. Accounted' /\ Counted'
    BY <2>0 DEF MailboxInv, Accounted, Counted, queues, Held, HeldCount
  <2>4. EndedEmpty' BY <2>0 DEF MailboxInv, EndedEmpty
  <2> QED BY <2>2, <2>3, <2>4 DEF MailboxInv
<1>3. ASSUME NEW t \in Tasks, NEW high \in BOOLEAN, NEW waits \in BOOLEAN, Push(t, high, waits)
      PROVE  MailboxInv'
  <2>0. /\ t \in handles /\ pushed' = pushed + 1
        /\ \/ hi' = Append(hi, pushed + 1) /\ lo' = lo
           \/ lo' = Append(lo, pushed + 1) /\ hi' = hi
        /\ UNCHANGED <<producers, handles, thread, ran>>
    BY <1>3 DEF Push
  <2>a. pushed \in Nat /\ pushed + 1 \in Nat /\ hi \in Seq(Nat) /\ lo \in Seq(Nat)
    BY <1>0 DEF Shape
  <2>b. /\ hi' \in Seq(Nat) /\ lo' \in Seq(Nat)
        /\ Len(hi') + Len(lo') = Len(hi) + Len(lo) + 1
        /\ ToSet(hi') \cup ToSet(lo') = ToSet(hi) \cup ToSet(lo) \cup {pushed + 1}
    <3>1. CASE hi' = Append(hi, pushed + 1) /\ lo' = lo
      BY <1>a, <2>a, <3>1, AppendSet
    <3>2. CASE lo' = Append(lo, pushed + 1) /\ hi' = hi
      BY <1>a, <2>a, <3>2, AppendSet
    <3> QED BY <2>0, <3>1, <3>2
  <2>1. Shape' BY <1>0, <2>0, <2>a, <2>b DEF Shape
  <2>c. Held' = Held /\ HeldCount' = HeldCount /\ HeldCount \in Nat
    BY <2>0 DEF Held, HeldCount
  <2>2. Accounted'
    <3>1. 1 .. pushed' = (1 .. pushed) \cup {pushed + 1} BY <2>0, <2>a
    <3> QED BY <2>0, <2>b, <2>c, <3>1 DEF MailboxInv, Accounted
  <2>3. Counted'
    <3>1. Len(hi') \in Nat /\ Len(lo') \in Nat BY <2>b
    <3> QED BY <1>a, <2>0, <2>b, <2>c, <3>1 DEF MailboxInv, Counted
  <2>4. EndedEmpty' BY <2>0 DEF MailboxInv, EndedEmpty
  <2> QED BY <2>1, <2>2, <2>3, <2>4 DEF MailboxInv
<1>4. ASSUME NEW t \in Tasks, NotifyOne(t) \/ NotifyAll(t) \/ StopWaiting(t) PROVE MailboxInv'
  <2>1. UNCHANGED <<queues, producers, handles, ran, pushed>>
    BY <1>4 DEF NotifyOne, NotifyAll, StopWaiting
  <2>2. thread' = thread \/ (thread.pc = "wait" /\ thread' = At("pop", 0))
    BY <1>4 DEF NotifyOne, NotifyAll, StopWaiting, Woken
  <2> QED BY <2>1, <2>2, QuietStep DEF At
<1>5. ASSUME NEW t \in Tasks, DropHandle(t) PROVE MailboxInv'
  <2>0. /\ t \in handles /\ handles' = handles \ {t} /\ producers' = producers - 1
        /\ UNCHANGED <<queues, thread, ran, pushed>>
    BY <1>5 DEF DropHandle
  <2>1. producers' = Cardinality(handles')
    BY <1>0, <2>0, HandlesFinite, FS_RemoveElement DEF Shape
  <2>2. Shape' BY <1>0, <2>0, <2>1 DEF Shape, queues
  <2>3. Accounted' /\ Counted'
    BY <2>0 DEF MailboxInv, Accounted, Counted, queues, Held, HeldCount
  <2>4. EndedEmpty' BY <2>0 DEF MailboxInv, EndedEmpty, queues
  <2> QED BY <2>2, <2>3, <2>4 DEF MailboxInv
<1>6. CASE Pop
  <2>0. /\ thread.pc = "pop" /\ UNCHANGED <<producers, handles, ran, pushed>>
        /\ Held = {} /\ HeldCount = 0
    BY <1>6 DEF Pop, Held, HeldCount
  <2>1. ASSUME NEW j \in Nat, thread' = At("run", j), hi' \in Seq(Nat), lo' \in Seq(Nat),
               Len(hi') + Len(lo') + 1 = Len(hi) + Len(lo),
               ToSet(hi') \cup ToSet(lo') \cup {j} = ToSet(hi) \cup ToSet(lo)
        PROVE  MailboxInv'
    <3>1. thread'.pc = "run" /\ Held' = {j} /\ HeldCount' = 1
      BY <2>1 DEF At, Held, HeldCount
    <3>2. Shape' BY <1>0, <2>0, <2>1 DEF Shape, At
    <3>3. Accounted' BY <2>0, <2>1, <3>1 DEF MailboxInv, Accounted
    <3>4. Counted'
      <4>1. Len(hi') \in Nat /\ Len(lo') \in Nat BY <2>1
      <4> QED BY <1>a, <2>0, <2>1, <3>1, <4>1 DEF MailboxInv, Counted
    <3> QED BY <3>1, <3>2, <3>3, <3>4 DEF MailboxInv, EndedEmpty
  <2>2. CASE hi # <<>> /\ thread' = At("run", Head(hi)) /\ hi' = Tail(hi) /\ lo' = lo
    <3>1. /\ Tail(hi) \in Seq(Nat) /\ Len(Tail(hi)) = Len(hi) - 1 /\ Head(hi) \in Nat
          /\ ToSet(hi) = {Head(hi)} \cup ToSet(Tail(hi)) /\ lo \in Seq(Nat)
      BY <1>0, <2>2, TailSet DEF Shape
    <3> QED BY <1>a, <2>1, <2>2, <3>1
  <2>3. CASE hi = <<>> /\ lo # <<>> /\ thread' = At("run", Head(lo)) /\ lo' = Tail(lo) /\ hi' = hi
    <3>1. /\ Tail(lo) \in Seq(Nat) /\ Len(Tail(lo)) = Len(lo) - 1 /\ Head(lo) \in Nat
          /\ ToSet(lo) = {Head(lo)} \cup ToSet(Tail(lo)) /\ hi \in Seq(Nat)
      BY <1>0, <2>3, TailSet DEF Shape
    <3> QED BY <1>a, <2>1, <2>3, <3>1
  <2>4. CASE /\ hi = <<>> /\ lo = <<>> /\ UNCHANGED queues
             /\ thread' = At(IF producers = 0 THEN "ended" ELSE "wait", 0)
    <3>1. CASE producers # 0
      BY <2>0, <2>4, <3>1, QuietStep DEF At
    <3>2. CASE producers = 0
      <4>1. thread'.pc = "ended" /\ thread'.job = 0 BY <2>4, <3>2 DEF At
      <4>2. handles = {} BY <1>0, <3>2, HandlesFinite
      <4>3. Shape' BY <1>0, <2>0, <2>4, <4>1 DEF Shape, queues
      <4>4. Held' = {} /\ HeldCount' = 0 BY <4>1 DEF Held, HeldCount
      <4>5. Accounted' /\ Counted'
        BY <2>0, <2>4, <4>4 DEF MailboxInv, Accounted, Counted, queues
      <4> QED BY <2>0, <2>4, <4>2, <4>3, <4>5 DEF MailboxInv, EndedEmpty, queues
    <3> QED BY <3>1, <3>2
  <2> QED BY <1>6, <2>2, <2>3, <2>4 DEF Pop
<1>7. CASE RunJob
  <2>0. /\ thread.pc = "run" /\ thread'.pc = "pop" /\ thread'.job = 0
        /\ ran' = Append(ran, thread.job)
        /\ UNCHANGED <<queues, producers, handles, pushed>>
    BY <1>7 DEF RunJob, At
  <2>1. /\ Held = {thread.job} /\ HeldCount = 1 /\ Held' = {} /\ HeldCount' = 0
    BY <2>0 DEF Held, HeldCount
  <2>2. /\ ran' \in Seq(Nat) /\ Len(ran') = Len(ran) + 1
        /\ ToSet(ran') = ToSet(ran) \cup {thread.job}
    BY <1>0, <2>0, AppendSet DEF Shape
  <2>3. Shape' BY <1>0, <2>0, <2>2 DEF Shape, queues
  <2>4. Accounted' BY <2>0, <2>1, <2>2 DEF MailboxInv, Accounted, queues
  <2>5. Counted' BY <1>a, <2>0, <2>1, <2>2 DEF MailboxInv, Counted, queues
  <2> QED BY <2>0, <2>3, <2>4, <2>5 DEF MailboxInv, EndedEmpty
<1>8. CASE Panic
  <2>0. /\ thread.pc = "run" /\ thread'.pc = "dead" /\ thread'.job = thread.job
        /\ UNCHANGED <<queues, producers, handles, ran, pushed>>
    BY <1>8 DEF Panic, At
  <2>1. Held' = Held /\ HeldCount' = HeldCount BY <2>0 DEF Held, HeldCount
  <2>2. Shape' BY <1>0, <2>0 DEF Shape, queues
  <2>3. Accounted' /\ Counted' BY <2>0, <2>1 DEF MailboxInv, Accounted, Counted, queues
  <2> QED BY <2>0, <2>2, <2>3 DEF MailboxInv, EndedEmpty
<1>9. CASE WakeSpuriously
  BY <1>9, QuietStep DEF WakeSpuriously, At
<1> QED BY <1>1, <1>2, <1>3, <1>4, <1>5, <1>6, <1>7, <1>8, <1>9 DEF Next, Engine

\* A clean shutdown loses nothing: once the thread has ended no handle is left, both
\* queues are empty, and the jobs pushed have all run, each once, for any number of
\* tasks cloning, pushing and dropping handles.
THEOREM CleanShutdown == Spec => []NothingLost
<1>1. MailboxInv => NothingLost
  <2> SUFFICES ASSUME MailboxInv, thread.pc = "ended"
               PROVE  /\ handles = {} /\ Queued = {}
                      /\ ToSet(ran) = 1 .. pushed /\ Len(ran) = pushed
    BY DEF NothingLost
  <2>1. /\ handles = {} /\ hi = <<>> /\ lo = <<>> BY DEF MailboxInv, EndedEmpty
  <2>2. Held = {} /\ HeldCount = 0 BY DEF Held, HeldCount
  <2>3. Queued = {} BY <2>1, EmptySet DEF Queued
  <2>4. ToSet(ran) = 1 .. pushed BY <2>1, <2>2, EmptySet DEF MailboxInv, Accounted
  <2>5. Len(ran) = pushed
    BY <2>1, <2>2, EmptySet DEF MailboxInv, Counted, Shape
  <2> QED BY <2>1, <2>3, <2>4, <2>5
<1>2. Spec => []MailboxInv
  BY MailboxInit, MailboxNext, PTL DEF Spec
<1> QED BY <1>1, <1>2, PTL
================================================================================
