--------------------------------- MODULE Jobs ---------------------------------
(***************************************************************************)
(* The job lifecycle of one engine (engine-core): service-task tokens, the *)
(* jobs they park on, activation locks and lease tokens, retries and       *)
(* incidents, suspension and cancellation of the owning process instance.  *)
(*                                                                         *)
(* The engine is a single writer: a command is decided against the state,  *)
(* its events are applied in order and the token queue is drained before   *)
(* the next command is looked at.  One action is therefore one command     *)
(* with its whole run to quiescence.  A rejected command changes nothing   *)
(* and is not an action: the guards are the conditions for acceptance.     *)
(*                                                                         *)
(* Abstractions.  An element instance is a member of Elems, its process    *)
(* instance is InstanceOf; every element here is a service task.  The key  *)
(* allocator next_local counts the mints that yield lease tokens and       *)
(* incident keys; jobs and element instances draw from their own sets.     *)
(* Variables, job types, workers and messages are left out: no guard of    *)
(* these handlers reads them.                                              *)
(***************************************************************************)
EXTENDS Integers, FiniteSets

CONSTANTS
    Instances,       \* process instances
    Elems,           \* service-task element instances
    NoElem,          \* the element of a job not yet created
    InstanceOf,      \* [Elems -> Instances]
    Jobs,            \* job keys, natural numbers (older job, smaller key)
    Priority,        \* [Jobs -> Int]
    AgentElems,      \* elements that support an agent instance
    Lenient,         \* Engine::lenient_completion
    Timeouts,        \* lock durations a worker asks for
    TimeoutUpdates,  \* signed durations of UpdateJobTimeout
    RetryInputs,     \* retries of FailJob and UpdateJobRetries (signed)
    DigestDeadlines, \* deadlines a lease digest may carry; {} without digest
    MaxJobs,         \* largest max_jobs of a poll
    MaxKey,          \* bound on next_local
    MaxTime          \* bound on the host's clock and on deadlines

ASSUME ConstantsAssumption ==
    /\ NoElem \notin Elems
    /\ InstanceOf \in [Elems -> Instances]
    /\ Jobs \subseteq Nat \ {0} /\ IsFiniteSet(Jobs)
    /\ Priority \in [Jobs -> Int]
    /\ AgentElems \subseteq Elems
    /\ Lenient \in BOOLEAN
    /\ Timeouts \subseteq Nat
    /\ TimeoutUpdates \subseteq Int
    /\ RetryInputs \subseteq Int
    /\ DigestDeadlines \subseteq Nat
    /\ MaxJobs \in Nat /\ MaxKey \in Nat /\ MaxTime \in Nat

VARIABLES
    now,              \* host clock stamped on commands
    instance,         \* ProcessInstanceState per instance; "None" before creation
    active,           \* element instances holding a token (ProcessInstance::active)
    job,              \* State::jobs
    activatable_jobs, \* State::activatable_jobs, the index polls walk
    activated_jobs,   \* State::activated_jobs, the index expiry walks
    incidents,        \* incidents in state Active (a resolved one is only history)
    next_local,       \* key allocator
    issued            \* history: the newest lease token issued for each job

vars == <<now, instance, active, job, activatable_jobs, activated_jobs,
          incidents, next_local, issued>>
indices == <<activatable_jobs, activated_jobs>>

NoJob == 0         \* job_key = None
NoToken == 0       \* lease_token = None; minted keys start at 1
NoDeadline == -1   \* deadline = None

JobStates == {"None", "Created", "Activated", "Completed", "Failed", "Errored", "Canceled"}
InstanceStates == {"None", "Active", "Suspended", "Completed", "Terminated"}
Terminal == {"Completed", "Errored", "Canceled"}
InPlay == {"Created", "Activated", "Failed"}
Live == {"Active", "Suspended"}

JobRecord == [state : JobStates, elem : Elems \cup {NoElem}, deadline : Int,
              token : Nat, durable : BOOLEAN, activated : BOOLEAN, retries : Nat]
IncidentRecord == [key : Nat, elem : Elems, job : Jobs \cup {NoJob},
                   kind : {"JobNoRetries", "UnhandledError"}]

-----------------------------------------------------------------------------
(***************************************************************************)
(* Appliers: what each event does to the job record it names.              *)
(***************************************************************************)
NewRetries == 1    \* resolve_retries of the modelled service tasks

JobCreated(e) ==
    [state |-> "Created", elem |-> e, deadline |-> NoDeadline, token |-> NoToken,
     durable |-> FALSE, activated |-> FALSE, retries |-> NewRetries]

JobActivated(r, deadline, token, durable) ==
    [r EXCEPT !.state = "Activated", !.deadline = deadline, !.token = token,
              !.durable = r.durable \/ durable, !.activated = TRUE]

JobLockExpired(r) ==
    IF r.state = "Activated"
    THEN [r EXCEPT !.state = "Created", !.deadline = NoDeadline]
    ELSE r

JobFailed(r, retries) ==
    [r EXCEPT !.retries = retries, !.deadline = NoDeadline,
              !.state = IF retries > 0 THEN "Created" ELSE "Failed"]

JobErrorThrown(r) ==
    [r EXCEPT !.state = "Errored", !.deadline = NoDeadline, !.token = NoToken]

JobCompleted(r) ==
    [r EXCEPT !.state = "Completed", !.deadline = NoDeadline]

JobCanceled(r) ==
    [r EXCEPT !.state = "Canceled", !.deadline = NoDeadline, !.token = NoToken]

\* The bug the applier's comment warns of: the job is reset whatever its state.
IncidentResolvedUnguarded(r) ==
    [r EXCEPT !.state = "Created", !.deadline = NoDeadline, !.token = NoToken]

IncidentResolved(r) ==
    IF r.state = "Failed"
    THEN [r EXCEPT !.state = "Created", !.deadline = NoDeadline, !.token = NoToken]
    ELSE r

\* resync_job_index after an event of each job of S; the others keep their slots.
Resync(S) ==
    /\ activatable_jobs' = (activatable_jobs \ S) \cup {j \in S : job'[j].state = "Created"}
    /\ activated_jobs' = (activated_jobs \ S) \cup {j \in S : job'[j].state = "Activated"}

-----------------------------------------------------------------------------
(***************************************************************************)
(* Guards shared by the commands.                                          *)
(***************************************************************************)
Suspended(j) == instance[InstanceOf[job[j].elem]] = "Suspended"

job_requires_durable_activation(j) ==
    job[j].durable \/ job[j].token # NoToken \/ job[j].elem \in AgentElems

job_activatable(j) ==
    \/ job[j].state = "Created"
    \/ job[j].state = "Activated" /\ job[j].deadline <= now

validate_job_lease(j, supplied, required) ==
    \/ job[j].token = NoToken
    \/ supplied = NoToken /\ ~required
    \/ supplied = job[j].token

\* Acceptance of CompleteJob, FailJob and ThrowJobError.
WorkerMayResolve(j, supplied) ==
    /\ job[j].state \in {"Created", "Activated"}
    /\ validate_job_lease(j, supplied, TRUE)
    /\ Lenient \/ job[j].activated

\* activation_order: highest priority first, then the oldest key.
Before(a, b) ==
    Priority[a] > Priority[b] \/ (Priority[a] = Priority[b] /\ a < b)

Rank(j, S) == Cardinality({k \in S : k = j \/ Before(k, j)})

ElemsOf(i) == {e \in Elems : InstanceOf[e] = i}

\* active_job_on: the in-play jobs parked on the elements E.
JobsOn(E) == {j \in Jobs : job[j].elem \in E /\ job[j].state \in InPlay}

Unused(j) == job[j].state = "None" /\ \A k \in Jobs : job[k].state = "None" => j <= k
Fresh(e) == \A j \in Jobs : job[j].elem # e

-----------------------------------------------------------------------------
(***************************************************************************)
(* Draining the token queue.                                               *)
(***************************************************************************)
\* complete_finished_instances: an Active instance without tokens completes.
CompleteFinished(i, state) ==
    instance' = [instance EXCEPT ![i] =
        IF state = "Active" /\ ElemsOf(i) \cap active' = {} THEN "Completed" ELSE state]

\* The token that left instance i goes on: to an end event, which consumes it,
\* or to a next service task, which parks it on a new job.  `remaining' and
\* `settled' are the tokens and jobs before the move, S the jobs events named.
Advance(i, remaining, settled, S) ==
    /\ \/ /\ active' = remaining
          /\ job' = settled
          /\ Resync(S)
       \/ \E e \in ElemsOf(i), j \in Jobs :
            /\ Fresh(e) /\ Unused(j)
            /\ active' = remaining \cup {e}
            /\ job' = [settled EXCEPT ![j] = JobCreated(e)]
            /\ Resync(S \cup {j})
    /\ CompleteFinished(i, instance[i])

-----------------------------------------------------------------------------
(***************************************************************************)
(* Commands.                                                               *)
(***************************************************************************)
Init ==
    /\ now = 0
    /\ instance = [i \in Instances |-> "None"]
    /\ active = {}
    /\ job = [j \in Jobs |-> [JobCreated(NoElem) EXCEPT !.state = "None"]]
    /\ activatable_jobs = {}
    /\ activated_jobs = {}
    /\ incidents = {}
    /\ next_local = 0
    /\ issued = [j \in Jobs |-> NoToken]

\* The instance's token reaches its first service task.
CreateInstance(i) ==
    /\ instance[i] = "None"
    /\ \E e \in ElemsOf(i), j \in Jobs :
         /\ Fresh(e) /\ Unused(j)
         /\ active' = active \cup {e}
         /\ job' = [job EXCEPT ![j] = JobCreated(e)]
         /\ Resync({j})
    /\ instance' = [instance EXCEPT ![i] = "Active"]
    /\ UNCHANGED <<now, incidents, next_local, issued>>

\* Without the durable-domain test a plan takes over a lock someone holds.
PlanGrantsAnyLock(j, with_lease) ==
    /\ job[j].state \in {"Created", "Activated"}
    /\ with_lease \/ job[j].token = NoToken
    /\ ~Suspended(j)

\* The tests apply_activation_plan makes on one planned key.
PlanGrants(j, with_lease) ==
    /\ \/ job[j].state = "Created"
       \/ job[j].state = "Activated" /\ ~job_requires_durable_activation(j)
    /\ with_lease \/ job[j].token = NoToken
    /\ ~Suspended(j)

\* One token for the whole batch.
IssueOnce(j, granted) == next_local + 1

\* lease::issue(mint_key()) for the granted keys in plan order; a plan lists its
\* keys in activation order, because select_activatable_job_keys produced it.
Issue(j, granted) == next_local + Rank(j, granted)

apply_activation_plan(keys, timeout, with_lease, durable) ==
    LET granted == {j \in keys : PlanGrants(j, with_lease)}
        token(j) == IF with_lease THEN Issue(j, granted) ELSE NoToken
    IN  /\ granted # {}
        /\ now + timeout <= MaxTime
        /\ next_local' = next_local + (IF with_lease THEN Cardinality(granted) ELSE 0)
        /\ next_local' <= MaxKey
        /\ job' = [j \in Jobs |-> IF j \in granted
                                  THEN JobActivated(job[j], now + timeout, token(j), durable)
                                  ELSE job[j]]
        /\ issued' = [j \in Jobs |-> IF j \in granted /\ with_lease
                                     THEN token(j) ELSE issued[j]]
        /\ Resync(granted)
        /\ UNCHANGED <<now, instance, active, incidents>>

select_activatable_job_keys(max_jobs, with_lease) ==
    LET eligible == {j \in activatable_jobs :
                        /\ job_activatable(j)
                        /\ with_lease \/ job[j].token = NoToken
                        /\ ~Suspended(j)}
    IN  {j \in eligible : Rank(j, eligible) <= max_jobs}

ActivateJobs(max_jobs, timeout, with_lease) ==
    apply_activation_plan(select_activatable_job_keys(max_jobs, with_lease),
                          timeout, with_lease, FALSE)

\* A plan the host selected earlier and replicated: its keys may be out of date.
ActivateJobsByKey(keys, timeout, with_lease) ==
    apply_activation_plan(keys, timeout, with_lease, TRUE)

\* ExpireJobs (both domains) and ExpireJobsByDurability (one of them).
ExpireJobs(domains) ==
    LET expired == {j \in activated_jobs :
                       /\ job[j].state = "Activated"
                       /\ job[j].deadline <= now
                       /\ job_requires_durable_activation(j) \in domains}
    IN  /\ expired # {}
        /\ job' = [j \in Jobs |-> IF j \in expired THEN JobLockExpired(job[j]) ELSE job[j]]
        /\ Resync(expired)
        /\ UNCHANGED <<now, instance, active, incidents, next_local, issued>>

CompleteJob(j, token) ==
    /\ WorkerMayResolve(j, token)
    /\ Advance(InstanceOf[job[j].elem], active \ {job[j].elem},
               [job EXCEPT ![j] = JobCompleted(job[j])], {j})
    /\ UNCHANGED <<now, incidents, next_local, issued>>

\* Takes the worker's number as it comes.
ClampNot(retries) == retries

\* retries.max(0)
Clamp(retries) == IF retries < 0 THEN 0 ELSE retries

\* Forgets the incident of a job that has used up its retries.
FailJobSilently(j, token, retries) ==
    /\ WorkerMayResolve(j, token)
    /\ job' = [job EXCEPT ![j] = JobFailed(job[j], Clamp(retries))]
    /\ Resync({j})
    /\ UNCHANGED <<now, instance, active, incidents, next_local, issued>>

FailJob(j, token, retries) ==
    /\ WorkerMayResolve(j, token)
    /\ job' = [job EXCEPT ![j] = JobFailed(job[j], Clamp(retries))]
    /\ Resync({j})
    /\ IF Clamp(retries) # 0
       THEN UNCHANGED <<incidents, next_local>>
       ELSE /\ next_local < MaxKey
            /\ next_local' = next_local + 1
            /\ incidents' = incidents \cup
                 {[key |-> next_local + 1, elem |-> job[j].elem,
                   job |-> j, kind |-> "JobNoRetries"]}
    /\ UNCHANGED <<now, instance, active, issued>>

\* scope_teardown_events over the active elements E, then the appliers: the job
\* on an element is cancelled before the incident parked on it is resolved.
TornDown(E, jobs) ==
    [k \in Jobs |->
        LET r == IF k \in JobsOn(E) /\ jobs[k].state \in InPlay
                 THEN JobCanceled(jobs[k]) ELSE jobs[k]
        IN  IF \E inc \in incidents : inc.elem \in E /\ inc.job = k
            THEN IncidentResolved(r) ELSE r]

\* A boundary event of the task itself catches the error.
ThrowJobErrorCaught(j, token) ==
    /\ WorkerMayResolve(j, token)
    /\ Advance(InstanceOf[job[j].elem], active \ {job[j].elem},
               [job EXCEPT ![j] = JobErrorThrown(job[j])], {j})
    /\ UNCHANGED <<now, incidents, next_local, issued>>

\* A boundary event of an enclosing sub-process catches it: the whole inner
\* scope (here: the instance's other tokens) is torn down with the task.
ThrowJobErrorCaughtOutside(j, token) ==
    LET i == InstanceOf[job[j].elem]
        scope == ElemsOf(i) \cap active
    IN  /\ WorkerMayResolve(j, token)
        /\ Advance(i, active \ scope,
                   TornDown(scope, [job EXCEPT ![j] = JobErrorThrown(job[j])]),
                   JobsOn(scope))
        /\ incidents' = {inc \in incidents : inc.elem \notin scope}
        /\ UNCHANGED <<now, next_local, issued>>

\* Nothing catches it: the token parks on an incident.
ThrowJobErrorUnhandled(j, token) ==
    /\ WorkerMayResolve(j, token)
    /\ next_local < MaxKey
    /\ next_local' = next_local + 1
    /\ job' = [job EXCEPT ![j] = JobErrorThrown(job[j])]
    /\ Resync({j})
    /\ incidents' = incidents \cup
         {[key |-> next_local + 1, elem |-> job[j].elem,
           job |-> NoJob, kind |-> "UnhandledError"]}
    /\ UNCHANGED <<now, instance, active, issued>>

\* saturating_add_signed of an unsigned instant
Saturating(t) == IF t < 0 THEN 0 ELSE t

\* UpdateJobRetries, UpdateJobTimeout and UpdateJob: `retries' and `timeout' hold
\* the new value, or nothing.
update_job_properties(j, token, retries, timeout) ==
    /\ job[j].state \in JobStates \ {"None", "Completed", "Canceled"}
    /\ validate_job_lease(j, token, FALSE)
    /\ \A r \in retries : r >= 1
    /\ timeout # {} => job[j].state = "Activated" /\ job[j].deadline # NoDeadline
    /\ retries \cup timeout # {}
    /\ \A t \in timeout : now + t <= MaxTime
    /\ LET new_retries == IF retries = {} THEN job[j].retries ELSE CHOOSE r \in retries : TRUE
           deadline == IF timeout = {} THEN job[j].deadline
                       ELSE Saturating(now + CHOOSE t \in timeout : TRUE)
       IN  job' = [job EXCEPT ![j] = [job[j] EXCEPT !.retries = new_retries,
                                                    !.deadline = deadline]]
    /\ UNCHANGED <<now, instance, active, incidents, next_local, issued>>
    /\ UNCHANGED indices

\* Resolving a job's incident returns the parked job to the pool.
ResolveJobIncident(inc) ==
    /\ inc \in incidents /\ inc.kind = "JobNoRetries"
    /\ job[inc.job].retries > 0
    /\ incidents' = incidents \ {inc}
    /\ job' = [job EXCEPT ![inc.job] = IncidentResolved(job[inc.job])]
    /\ IF job[inc.job].state = "Failed" THEN Resync({inc.job}) ELSE UNCHANGED indices
    /\ UNCHANGED <<now, instance, active, next_local, issued>>

\* Leaves the incident open, so that it can be resolved a second time.
ResolveErrorIncidentAgain(inc) ==
    /\ inc \in incidents /\ inc.kind = "UnhandledError" /\ inc.elem \in active
    /\ \E j \in Jobs : /\ Unused(j)
                       /\ job' = [job EXCEPT ![j] = JobCreated(inc.elem)]
                       /\ Resync({j})
    /\ UNCHANGED <<now, instance, active, incidents, next_local, issued>>

\* Resolving an uncaught error re-creates a job for the task, unless its token is
\* gone (step_targets_dead_scope drops the step).
ResolveErrorIncident(inc) ==
    /\ inc \in incidents /\ inc.kind = "UnhandledError"
    /\ incidents' = incidents \ {inc}
    /\ IF inc.elem \in active
       THEN \E j \in Jobs : /\ Unused(j)
                           /\ job' = [job EXCEPT ![j] = JobCreated(inc.elem)]
                           /\ Resync({j})
       ELSE UNCHANGED <<job, activatable_jobs, activated_jobs>>
    /\ UNCHANGED <<now, instance, active, next_local, issued>>

\* TriggerTimers, interrupting boundary: the task's job is cancelled and its
\* token leaves through the boundary event.
InterruptByTimer(e) ==
    LET i == InstanceOf[e]
        interrupted == JobsOn({e})
    IN  /\ e \in active /\ instance[i] # "Suspended"
        /\ Advance(i, active \ {e},
                   [j \in Jobs |-> IF j \in interrupted THEN JobCanceled(job[j]) ELSE job[j]],
                   interrupted)
        /\ UNCHANGED <<now, incidents, next_local, issued>>

\* TriggerTimers, non-interrupting boundary: a second token starts beside the task.
SpawnByTimer(e) ==
    /\ e \in active /\ instance[InstanceOf[e]] # "Suspended"
    /\ Advance(InstanceOf[e], active, job, {})
    /\ UNCHANGED <<now, incidents, next_local, issued>>

CancelInstance(i) ==
    LET cancelled == JobsOn(ElemsOf(i))
    IN  /\ instance[i] = "Active"
        /\ job' = [j \in Jobs |-> IF j \in cancelled THEN JobCanceled(job[j]) ELSE job[j]]
        /\ Resync(cancelled)
        /\ active' = active \ ElemsOf(i)
        /\ incidents' = {inc \in incidents : InstanceOf[inc.elem] # i}
        /\ instance' = [instance EXCEPT ![i] = "Terminated"]
        /\ UNCHANGED <<now, next_local, issued>>

SuspendInstance(i) ==
    /\ instance[i] = "Active"
    /\ instance' = [instance EXCEPT ![i] = "Suspended"]
    /\ UNCHANGED <<now, active, job, indices, incidents, next_local, issued>>

\* The drain after the command completes an instance that lost its last token
\* while it was suspended.
ResumeInstance(i) ==
    /\ instance[i] = "Suspended"
    /\ UNCHANGED <<now, active, job, indices, incidents, next_local, issued>>
    /\ CompleteFinished(i, "Active")

LeaseRecovered(r, deadline) ==
    [r EXCEPT !.state = "Activated", !.deadline = deadline, !.activated = TRUE]

\* Leaves the recovered lock out of the index that expiry walks.
recover_lease_unindexed(j, deadline) ==
    /\ ~job_requires_durable_activation(j)
    /\ job[j].state = "Created" /\ job[j].token = NoToken /\ deadline > now
    /\ job' = [job EXCEPT ![j] = LeaseRecovered(job[j], deadline)]
    /\ UNCHANGED <<now, instance, active, indices, incidents, next_local, issued>>

\* A new leader restores a soft lock from the last digest of the old one.
recover_lease(j, deadline) ==
    /\ ~job_requires_durable_activation(j)
    /\ job[j].state = "Created" /\ job[j].token = NoToken /\ deadline > now
    /\ job' = [job EXCEPT ![j] = LeaseRecovered(job[j], deadline)]
    /\ activated_jobs' = activated_jobs \cup {j}
    /\ UNCHANGED <<now, instance, active, activatable_jobs, incidents, next_local, issued>>

\* The host's clock advances.
Tick ==
    /\ now < MaxTime
    /\ now' = now + 1
    /\ UNCHANGED <<instance, active, job, indices, incidents, next_local, issued>>

-----------------------------------------------------------------------------
Optional(S) == {{}} \cup {{x} : x \in S}

Activate ==
    \E timeout \in Timeouts, with_lease \in BOOLEAN :
        \/ \E max_jobs \in 1..MaxJobs : ActivateJobs(max_jobs, timeout, with_lease)
        \/ \E keys \in SUBSET Jobs : ActivateJobsByKey(keys, timeout, with_lease)

Expire == \E domains \in {{TRUE, FALSE}, {TRUE}, {FALSE}} : ExpireJobs(domains)

\* The lease tokens a worker may send: any issued so far, current or not, or none.
\* What it sends for a job without a lease makes no difference.
Supplied(j) == IF job[j].token = NoToken THEN {NoToken} ELSE 0..next_local

WorkerCommand(j, token) ==
    \/ CompleteJob(j, token)
    \/ \E r \in RetryInputs : FailJob(j, token, r)
    \/ ThrowJobErrorCaught(j, token)
    \/ ThrowJobErrorCaughtOutside(j, token)
    \/ ThrowJobErrorUnhandled(j, token)
    \/ \E r \in Optional(RetryInputs), t \in Optional(TimeoutUpdates) :
          update_job_properties(j, token, r, t)

Next ==
    \/ \E i \in Instances : \/ CreateInstance(i) \/ CancelInstance(i)
                            \/ SuspendInstance(i) \/ ResumeInstance(i)
    \/ Activate
    \/ Expire
    \/ \E j \in Jobs : \E token \in Supplied(j) : WorkerCommand(j, token)
    \/ \E inc \in incidents : ResolveJobIncident(inc) \/ ResolveErrorIncident(inc)
    \/ \E e \in Elems : InterruptByTimer(e) \/ SpawnByTimer(e)
    \/ \E j \in Jobs, d \in DigestDeadlines : recover_lease(j, d)
    \/ Tick

Spec == Init /\ [][Next]_vars

\* The host's timer driver keeps advancing the clock and expiring locks: one tick
\* for all of them, or on a leader a replicated tick for the durable domain and a
\* local one for the soft locks.
FairSpec ==
    /\ Spec /\ WF_vars(Tick)
    /\ IF Lenient THEN WF_vars(ExpireJobs({TRUE})) /\ WF_vars(ExpireJobs({FALSE}))
                  ELSE WF_vars(ExpireJobs({TRUE, FALSE}))

-----------------------------------------------------------------------------
(***************************************************************************)
(* Properties.                                                             *)
(***************************************************************************)
\* Types, and the ranges the bounds give keys, tokens and instants.
TypeOK ==
    /\ now \in 0..MaxTime
    /\ instance \in [Instances -> InstanceStates]
    /\ active \subseteq Elems
    /\ job \in [Jobs -> JobRecord]
    /\ activatable_jobs \subseteq Jobs /\ activated_jobs \subseteq Jobs
    /\ incidents \subseteq IncidentRecord
    /\ next_local \in 0..MaxKey
    /\ issued \in [Jobs -> 0..MaxKey]

Waiting(e) ==
    \/ \E j \in Jobs : job[j].elem = e /\ job[j].state \in {"Created", "Activated"}
    \/ \E inc \in incidents : /\ inc.elem = e
                              /\ inc.job # NoJob => job[inc.job].state = "Failed"

\* No token is lost in a parking place nobody empties: every active service task
\* has a job a worker can take, or an open incident an operator can resolve
\* (FailJob, ThrowJobError and ResolveIncident each swap one for the other).
TokenHasWork == \A e \in active : Waiting(e)

\* No worker is handed work for a token that is gone: an in-play job sits on an
\* active element of an instance that has neither completed nor been terminated
\* (teardown, boundary interruption, cancellation and incident resolution).
JobHasToken ==
    \A j \in Jobs : job[j].state \in InPlay =>
        /\ job[j].elem \in active
        /\ instance[InstanceOf[job[j].elem]] \in Live

\* "At most one such job exists per element instance" (active_job_on): a task
\* re-driven after an incident never has two jobs out at once.
OneJobPerElement ==
    \A j, k \in Jobs :
        /\ job[j].state \in InPlay /\ job[k].state \in InPlay
        /\ job[j].elem = job[k].elem
        => j = k

\* What the scans rely on: every activatable job is seen by a poll, every lock is
\* seen by expiry, and no index names a job that is out of play.
IndexSound ==
    /\ \A j \in Jobs : job[j].state = "Created" => j \in activatable_jobs
    /\ activatable_jobs \subseteq {j \in Jobs : job[j].state \in {"Created", "Activated"}}
    /\ activated_jobs = {j \in Jobs : job[j].state = "Activated"}

\* The fence: the token a job stores is the newest one issued for it, and no other
\* job was ever issued it, whatever sequence of polls, plans, failures and
\* expiries came before.
LeaseFence ==
    \A j \in Jobs : job[j].token # NoToken =>
        /\ job[j].token = issued[j]
        /\ \A k \in Jobs \ {j} : issued[k] # job[j].token

\* A job that was completed, errored or cancelled stays so: the applier of
\* IncidentResolved does not resurrect a job a teardown cancelled.
TerminalFinal ==
    [][\A j \in Jobs : job[j].state \in Terminal => job'[j].state = job[j].state]_vars

\* While a durably activated job is locked nobody else is granted it: neither a
\* poll nor a replicated plan replaces the token of a live lock.
LockNotStolen ==
    [][\A j \in Jobs :
          /\ job[j].state = "Activated" /\ job_requires_durable_activation(j)
          /\ job'[j].state = "Activated"
          => job'[j].token = job[j].token]_vars

\* A worker that dies does not hold a job for ever: every lock ends, by the
\* worker's answer, by a teardown or by expiry.
LockEventuallyReleased ==
    \A j \in Jobs : job[j].state = "Activated" ~> job[j].state # "Activated"

-----------------------------------------------------------------------------
(***************************************************************************)
(* What the repository's comments say and the code does not do.            *)
(***************************************************************************)
\* boundary.rs: interruption leaves no incident for an element that is gone.
IncidentOnToken == \A inc \in incidents : inc.elem \in active

\* types.rs: a job is in the activatable index iff its state is Created.
IndexExact == activatable_jobs = {j \in Jobs : job[j].state = "Created"}

\* types.rs: a lease is kept until a leasing activation replaces it.
LeaseSticky ==
    [][\A j \in Jobs :
          job[j].token # NoToken /\ job'[j].state \in InPlay
          => job'[j].token # NoToken]_vars

=============================================================================
