------------------------------- MODULE Mailbox -------------------------------
(***************************************************************************)
(* The engine actor's mailbox (deepthi.rs): one thread owns the journal,   *)
(* tasks reach it through cloned handles and a queue of two tiers under a  *)
(* mutex, with a condition variable the thread parks on.  A push and the   *)
(* drop of the last handle notify only after they have released the mutex. *)
(* The thread ends when no handle is left and both queues are empty, or    *)
(* dies with the job that panics in it; its jobs stay queued then.         *)
(*                                                                         *)
(* One action is one critical section, one notification, or one job.       *)
(***************************************************************************)
EXTENDS Integers, Sequences, SequencesExt, FiniteSets

CONSTANTS
    Tasks,     \* tasks that may hold a handle
    MaxJobs    \* bound: jobs pushed

ASSUME MailboxAssumption == Tasks # {} /\ IsFiniteSet(Tasks) /\ MaxJobs \in Nat

VARIABLES
    hi, lo,      \* MailboxInner: jobs of the completion and of the creation tier
    producers,   \* MailboxInner: live handles, as counted
    handles,     \* the tasks that do hold one
    task,        \* what each task is doing
    thread,      \* the engine thread
    ran,         \* history: the jobs that ran, in order
    pushed       \* history: how many were pushed

queues == <<hi, lo>>
vars   == <<queues, producers, handles, task, thread, ran, pushed>>

Jobs      == 1 .. MaxJobs
Idle      == [pc |-> "idle", job |-> 0]
At(pc, j) == [pc |-> pc, job |-> j]
Queued    == ToSet(hi) \cup ToSet(lo)

\* Mailbox::new and spawn: one handle, and the thread on its way to pop.
Init ==
    /\ hi = <<>> /\ lo = <<>> /\ producers = 1
    /\ \E t \in Tasks : handles = {t}
    /\ task = [t \in Tasks |-> Idle]
    /\ thread = At("pop", 0)
    /\ ran = <<>> /\ pushed = 0

(***************************************************************************)
(* The tasks                                                               *)
(***************************************************************************)
\* Mutant: the copy is not counted.
CloneUncounted(t, u) ==
    /\ t \in handles /\ task[t] = Idle /\ u \notin handles
    /\ handles' = handles \cup {u}
    /\ UNCHANGED <<queues, producers, task, thread, ran, pushed>>

Clone(t, u) ==
    /\ t \in handles /\ task[t] = Idle /\ u \notin handles
    /\ handles' = handles \cup {u} /\ producers' = producers + 1
    /\ UNCHANGED <<queues, task, thread, ran, pushed>>

\* push, under the mutex.  `waits' tells with and with_low from spawn_job.
Push(t, high, waits) ==
    LET j == pushed + 1 IN
    /\ t \in handles /\ task[t] = Idle /\ j \in Jobs
    /\ high \/ waits
    /\ hi' = IF high THEN Append(hi, j) ELSE hi
    /\ lo' = IF high THEN lo ELSE Append(lo, j)
    /\ task' = [task EXCEPT ![t] = At(IF waits THEN "notifyThenAwait" ELSE "notify", j)]
    /\ pushed' = j
    /\ UNCHANGED <<producers, handles, thread, ran>>

\* A notification reaches the thread if it is parked, else nobody.
Woken == IF thread.pc = "wait" THEN At("pop", 0) ELSE thread

NotifyOne(t) ==
    /\ task[t].pc \in {"notify", "notifyThenAwait"}
    /\ thread' = Woken
    /\ task' = [task EXCEPT ![t] = IF @.pc = "notify" THEN Idle ELSE At("await", @.job)]
    /\ UNCHANGED <<queues, producers, handles, ran, pushed>>

\* The reply arrives, or the caller is cancelled; its job stays where it is.
StopWaiting(t) ==
    /\ task[t].pc = "await"
    /\ task' = [task EXCEPT ![t] = Idle]
    /\ UNCHANGED <<queues, producers, handles, thread, ran, pushed>>

\* Mutant: the last handle goes without a word.
DropSilently(t) ==
    /\ t \in handles /\ task[t] = Idle
    /\ handles' = handles \ {t} /\ producers' = producers - 1
    /\ UNCHANGED <<queues, task, thread, ran, pushed>>

\* Drop, under the mutex; also what an unwinding task does.
DropHandle(t) ==
    /\ t \in handles /\ task[t] = Idle
    /\ handles' = handles \ {t} /\ producers' = producers - 1
    /\ task' = [task EXCEPT ![t] = IF producers' = 0 THEN At("notifyAll", 0) ELSE Idle]
    /\ UNCHANGED <<queues, thread, ran, pushed>>

NotifyAll(t) ==
    /\ task[t].pc = "notifyAll"
    /\ thread' = Woken
    /\ task' = [task EXCEPT ![t] = Idle]
    /\ UNCHANGED <<queues, producers, handles, ran, pushed>>

(***************************************************************************)
(* The engine thread                                                       *)
(***************************************************************************)
\* One turn of pop's loop: the completion tier, the creation tier, the end, or sleep.
Pop ==
    /\ thread.pc = "pop"
    /\ \/ /\ hi # <<>>
          /\ thread' = At("run", Head(hi)) /\ hi' = Tail(hi) /\ UNCHANGED lo
       \/ /\ hi = <<>> /\ lo # <<>>
          /\ thread' = At("run", Head(lo)) /\ lo' = Tail(lo) /\ UNCHANGED hi
       \/ /\ hi = <<>> /\ lo = <<>>
          /\ thread' = At(IF producers = 0 THEN "ended" ELSE "wait", 0)
          /\ UNCHANGED queues
    /\ UNCHANGED <<producers, handles, task, ran, pushed>>

\* A condition variable may wake without a notification.
WakeSpuriously ==
    /\ thread.pc = "wait"
    /\ thread' = At("pop", 0)
    /\ UNCHANGED <<queues, producers, handles, task, ran, pushed>>

RunJob ==
    /\ thread.pc = "run"
    /\ thread' = At("pop", 0)
    /\ ran' = Append(ran, thread.job)
    /\ UNCHANGED <<queues, producers, handles, task, pushed>>

\* The job panics: the thread unwinds (AliveGuard), the journal is dropped.
Panic ==
    /\ thread.pc = "run"
    /\ thread' = At("dead", thread.job)
    /\ UNCHANGED <<queues, producers, handles, task, ran, pushed>>

Engine == Pop \/ RunJob \/ Panic

Next ==
    \/ \E t, u \in Tasks : Clone(t, u)
    \/ \E t \in Tasks : \/ \E high, waits \in BOOLEAN : Push(t, high, waits)
                        \/ NotifyOne(t) \/ NotifyAll(t) \/ StopWaiting(t) \/ DropHandle(t)
    \/ Engine \/ WakeSpuriously

\* The thread is a loop whose jobs return or panic; a task that has left the
\* mutex goes on to its notification.
Spec ==
    /\ Init /\ [][Next]_vars
    /\ WF_vars(Engine)
    /\ \A t \in Tasks : WF_vars(NotifyOne(t) \/ NotifyAll(t))

(***************************************************************************)
(* Properties                                                              *)
(***************************************************************************)
\* The queues hold jobs, and the count of handles is the number of them.
TypeOK ==
    /\ hi \in Seq(Jobs) /\ lo \in Seq(Jobs) /\ ran \in Seq(Jobs)
    /\ producers = Cardinality(handles) /\ handles \subseteq Tasks
    /\ thread.pc \in {"pop", "run", "wait", "ended", "dead"}
    /\ \A t \in Tasks : task[t].pc \in {"idle", "notify", "notifyThenAwait", "await", "notifyAll"}

\* A clean shutdown loses nothing (pop, Clone, Drop): once the thread has ended
\* no one can push any more, no job is left, and every job has run once.
NothingLost ==
    thread.pc = "ended" =>
        /\ handles = {} /\ Queued = {}
        /\ ToSet(ran) = 1 .. pushed /\ Len(ran) = pushed

\* No wake-up is lost although notifications come after the mutex is released:
\* a queued job runs unless the thread dies, and with the last handle gone the
\* thread ends, which flushes the journal.
MailboxDrains ==
    /\ \A j \in Jobs : j \in Queued ~> (j \in ToSet(ran) \/ thread.pc = "dead")
    /\ producers = 0 ~> thread.pc \in {"ended", "dead"}
==============================================================================
