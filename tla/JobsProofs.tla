------------------------------ MODULE JobsProofs ------------------------------
(***************************************************************************)
(* Proofs about Jobs for every set of instances, elements and jobs: types, *)
(* then tokens and work, then leases, finality and the indices.            *)
(***************************************************************************)
EXTENDS Jobs, FiniteSetTheorems, TLAPS

-----------------------------------------------------------------------------
(***************************************************************************)
(* Appliers and ranks.                                                     *)
(***************************************************************************)
\* The types of the sentinels; the proofs below never need their values.
LEMMA Sentinels == NoDeadline \in Int /\ NoToken \in Nat /\ NewRetries \in Nat /\ NoJob \notin Jobs
BY ConstantsAssumption DEF NoDeadline, NoToken, NewRetries, NoJob

\* Every applier of state/apply/job.rs yields a job record from a job record.
LEMMA ApplierTypes ==
    ASSUME NEW r \in JobRecord
    PROVE  /\ JobLockExpired(r) \in JobRecord
           /\ JobErrorThrown(r) \in JobRecord
           /\ JobCompleted(r) \in JobRecord
           /\ JobCanceled(r) \in JobRecord
           /\ IncidentResolved(r) \in JobRecord
           /\ \A n \in Nat : JobFailed(r, n) \in JobRecord
           /\ \A d \in Int, t \in Nat, b \in BOOLEAN : JobActivated(r, d, t, b) \in JobRecord
<1> USE Sentinels DEF JobRecord, JobStates
<1>1. JobLockExpired(r) \in JobRecord BY DEF JobLockExpired
<1>2. JobErrorThrown(r) \in JobRecord BY DEF JobErrorThrown
<1>3. JobCompleted(r) \in JobRecord BY DEF JobCompleted
<1>4. JobCanceled(r) \in JobRecord BY DEF JobCanceled
<1>5. IncidentResolved(r) \in JobRecord BY DEF IncidentResolved
<1>6. \A n \in Nat : JobFailed(r, n) \in JobRecord BY DEF JobFailed
<1>7. ASSUME NEW d \in Int, NEW t \in Nat, NEW b \in BOOLEAN
      PROVE  JobActivated(r, d, t, b) \in JobRecord
  BY DEF JobActivated
<1> QED BY <1>1, <1>2, <1>3, <1>4, <1>5, <1>6, <1>7

\* What every applier does to the state, the element and the token of its job.
LEMMA ApplierFields ==
    ASSUME NEW r \in JobRecord
    PROVE  /\ JobLockExpired(r).elem = r.elem /\ JobLockExpired(r).token = r.token
           /\ JobLockExpired(r).state = IF r.state = "Activated" THEN "Created" ELSE r.state
           /\ JobErrorThrown(r).elem = r.elem /\ JobErrorThrown(r).token = NoToken
           /\ JobErrorThrown(r).state = "Errored"
           /\ JobCompleted(r).elem = r.elem /\ JobCompleted(r).token = r.token
           /\ JobCompleted(r).state = "Completed"
           /\ JobCanceled(r).elem = r.elem /\ JobCanceled(r).token = NoToken
           /\ JobCanceled(r).state = "Canceled"
           /\ IncidentResolved(r).elem = r.elem
           /\ IncidentResolved(r).state = IF r.state = "Failed" THEN "Created" ELSE r.state
           /\ IncidentResolved(r).token = IF r.state = "Failed" THEN NoToken ELSE r.token
           /\ \A n \in Nat :
                 /\ JobFailed(r, n).elem = r.elem /\ JobFailed(r, n).token = r.token
                 /\ JobFailed(r, n).state = IF n > 0 THEN "Created" ELSE "Failed"
           /\ \A d \in Int, t \in Nat, b \in BOOLEAN :
                 /\ JobActivated(r, d, t, b).elem = r.elem
                 /\ JobActivated(r, d, t, b).state = "Activated"
                 /\ JobActivated(r, d, t, b).token = t
<1> USE Sentinels DEF JobRecord, JobStates
<1>1. /\ JobLockExpired(r).elem = r.elem /\ JobLockExpired(r).token = r.token
      /\ JobLockExpired(r).state = IF r.state = "Activated" THEN "Created" ELSE r.state
  BY DEF JobLockExpired
<1>2. /\ JobErrorThrown(r).elem = r.elem /\ JobErrorThrown(r).token = NoToken
      /\ JobErrorThrown(r).state = "Errored"
  BY DEF JobErrorThrown
<1>3. /\ JobCompleted(r).elem = r.elem /\ JobCompleted(r).token = r.token
      /\ JobCompleted(r).state = "Completed"
  BY DEF JobCompleted
<1>4. /\ JobCanceled(r).elem = r.elem /\ JobCanceled(r).token = NoToken
      /\ JobCanceled(r).state = "Canceled"
  BY DEF JobCanceled
<1>5. /\ IncidentResolved(r).elem = r.elem
      /\ IncidentResolved(r).state = IF r.state = "Failed" THEN "Created" ELSE r.state
      /\ IncidentResolved(r).token = IF r.state = "Failed" THEN NoToken ELSE r.token
  BY DEF IncidentResolved
<1>6. \A n \in Nat :
         /\ JobFailed(r, n).elem = r.elem /\ JobFailed(r, n).token = r.token
         /\ JobFailed(r, n).state = IF n > 0 THEN "Created" ELSE "Failed"
  BY DEF JobFailed
<1>7. \A d \in Int, t \in Nat, b \in BOOLEAN :
         /\ JobActivated(r, d, t, b).elem = r.elem
         /\ JobActivated(r, d, t, b).state = "Activated"
         /\ JobActivated(r, d, t, b).token = t
  BY DEF JobActivated
<1> QED BY <1>1, <1>2, <1>3, <1>4, <1>5, <1>6, <1>7

\* What a new job looks like.
LEMMA JobCreatedFields ==
    \A e : /\ JobCreated(e).elem = e /\ JobCreated(e).state = "Created"
           /\ JobCreated(e).token = NoToken
BY DEF JobCreated

\* create_job_for yields a job record.
LEMMA JobCreatedType ==
    /\ \A e \in Elems : JobCreated(e) \in JobRecord
    /\ [JobCreated(NoElem) EXCEPT !.state = "None"] \in JobRecord
BY Sentinels DEF JobRecord, JobStates, JobCreated

\* The place of a job in a plan lies between 1 and the length of the plan.
LEMMA RankRange ==
    ASSUME NEW S \in SUBSET Jobs, NEW j \in S
    PROVE  Rank(j, S) \in 1..Cardinality(S)
<1> DEFINE T == {k \in S : k = j \/ Before(k, j)}
<1>1. IsFiniteSet(S)
  BY ConstantsAssumption, FS_Subset
<1>2. IsFiniteSet(T) /\ Cardinality(T) <= Cardinality(S)
  BY <1>1, FS_Subset, T \subseteq S
<1>3. T # {}
  BY j \in T
<1>4. Cardinality(T) \in Nat /\ Cardinality(S) \in Nat /\ Cardinality(T) # 0
  BY <1>1, <1>2, <1>3, FS_CardinalityType, FS_EmptySet
<1> QED
  BY <1>2, <1>4 DEF Rank

\* Two jobs of one plan have different places in it.
LEMMA RankInjective ==
    ASSUME NEW S \in SUBSET Jobs, NEW j \in S, NEW k \in S, j # k
    PROVE  Rank(j, S) # Rank(k, S)
<1>1. /\ \A a, b \in S : Before(a, b) => ~Before(b, a) /\ a # b
      /\ \A a, b \in S : Before(a, b) \/ Before(b, a) \/ a = b
      /\ \A a, b, c \in S : Before(a, b) /\ Before(b, c) => Before(a, c)
  <2>1. \A a \in S : a \in Nat /\ Priority[a] \in Int
    BY ConstantsAssumption
  <2> QED BY <2>1 DEF Before
<1>2. ASSUME NEW a \in S, NEW b \in S, Before(a, b)
      PROVE  Rank(a, S) < Rank(b, S)
  <2> DEFINE A == {x \in S : x = a \/ Before(x, a)}
             B == {x \in S : x = b \/ Before(x, b)}
  <2>1. A \subseteq B /\ b \in B /\ b \notin A
    BY <1>1, <1>2
  <2>2. IsFiniteSet(S) /\ IsFiniteSet(A) /\ IsFiniteSet(B)
    BY ConstantsAssumption, FS_Subset, A \subseteq S, B \subseteq S
  <2>3. Cardinality(A) <= Cardinality(B) /\ Cardinality(A) # Cardinality(B)
    BY <2>1, <2>2, FS_Subset, Zenon
  <2>4. Cardinality(A) \in Nat /\ Cardinality(B) \in Nat
    BY <2>2, FS_CardinalityType, Zenon
  <2> QED BY <2>3, <2>4 DEF Rank
<1>3. CASE Before(j, k)
  BY <1>2, <1>3, RankRange
<1>4. CASE Before(k, j)
  BY <1>2, <1>4, RankRange
<1> QED
  BY <1>1, <1>3, <1>4

-----------------------------------------------------------------------------
(***************************************************************************)
(* Type correctness.                                                       *)
(***************************************************************************)
\* resync_job_index keeps the indices sets of jobs.
LEMMA ResyncType ==
    ASSUME TypeOK, NEW S \in SUBSET Jobs, Resync(S)
    PROVE  activatable_jobs' \subseteq Jobs /\ activated_jobs' \subseteq Jobs
BY DEF TypeOK, Resync

\* complete_finished_instances moves an instance between legal states.
LEMMA CompleteFinishedType ==
    ASSUME TypeOK, NEW i, NEW state \in InstanceStates, CompleteFinished(i, state)
    PROVE  instance' \in [Instances -> InstanceStates]
BY DEF TypeOK, CompleteFinished, InstanceStates

\* So does the drain that moves a token on.
LEMMA AdvanceType ==
    ASSUME TypeOK, NEW i \in Instances, NEW remaining \in SUBSET Elems,
           NEW settled \in [Jobs -> JobRecord], NEW S \in SUBSET Jobs,
           Advance(i, remaining, settled, S)
    PROVE  /\ active' \subseteq Elems /\ job' \in [Jobs -> JobRecord]
           /\ activatable_jobs' \subseteq Jobs /\ activated_jobs' \subseteq Jobs
           /\ instance' \in [Instances -> InstanceStates]
<1>1. instance' \in [Instances -> InstanceStates]
  BY CompleteFinishedType DEF Advance, TypeOK
<1>2. CASE active' = remaining /\ job' = settled /\ Resync(S)
  BY <1>1, <1>2, ResyncType
<1>3. ASSUME NEW e \in ElemsOf(i), NEW j \in Jobs,
             active' = remaining \cup {e}, job' = [settled EXCEPT ![j] = JobCreated(e)],
             Resync(S \cup {j})
      PROVE  /\ active' \subseteq Elems /\ job' \in [Jobs -> JobRecord]
             /\ activatable_jobs' \subseteq Jobs /\ activated_jobs' \subseteq Jobs
  <2>1. e \in Elems BY DEF ElemsOf
  <2>2. JobCreated(e) \in JobRecord BY <2>1, JobCreatedType
  <2>3. S \cup {j} \in SUBSET Jobs OBVIOUS
  <2> QED BY <1>3, <2>1, <2>2, <2>3, ResyncType
<1> QED BY <1>1, <1>2, <1>3 DEF Advance

\* A teardown yields job records.
LEMMA TornDownType ==
    ASSUME NEW E, NEW jobs \in [Jobs -> JobRecord]
    PROVE  TornDown(E, jobs) \in [Jobs -> JobRecord]
BY ApplierTypes DEF TornDown

\* A job that was created sits on an element (JobCreated always names one).
JobElem == \A j \in Jobs : job[j].state # "None" => job[j].elem \in Elems

TypeInv == TypeOK /\ JobElem

\* The empty engine satisfies TypeInv.
LEMMA TypeInit == Init => TypeInv
<1> SUFFICES ASSUME Init PROVE TypeInv OBVIOUS
<1>1. TypeOK
  BY ConstantsAssumption, JobCreatedType, Sentinels
     DEF Init, TypeOK, InstanceStates, NoToken
<1>2. JobElem
  BY DEF Init, JobElem, JobCreated
<1> QED BY <1>1, <1>2 DEF TypeInv

\* The longest action: a plan types its tokens, its deadlines and both indices.
LEMMA ActivationType ==
    ASSUME TypeOK, NEW keys \in SUBSET Jobs, NEW timeout \in Timeouts,
           NEW with_lease \in BOOLEAN, NEW durable \in BOOLEAN,
           apply_activation_plan(keys, timeout, with_lease, durable)
    PROVE  TypeOK'
<1> DEFINE granted == {j \in keys : PlanGrants(j, with_lease)}
           token(j) == IF with_lease THEN Issue(j, granted) ELSE NoToken
<1>1. granted \in SUBSET Jobs /\ IsFiniteSet(granted) /\ Cardinality(granted) \in Nat
  BY ConstantsAssumption, FS_Subset, FS_CardinalityType
<1>2. next_local' \in 0..MaxKey /\ now + timeout \in Int
  BY <1>1, ConstantsAssumption DEF apply_activation_plan, TypeOK
<1>3. \A j \in granted : token(j) \in 0..next_local' /\ token(j) \in Nat
  <2> TAKE j \in granted
  <2>1. Rank(j, granted) \in 1..Cardinality(granted)
    BY <1>1, RankRange
  <2>2. CASE with_lease
    BY <1>1, <2>1, <2>2 DEF apply_activation_plan, Issue, TypeOK
  <2>3. CASE ~with_lease
    BY <1>2, <2>3 DEF NoToken
  <2> QED BY <2>2, <2>3
<1>4. job' \in [Jobs -> JobRecord]
  <2>1. job' = [j \in Jobs |-> IF j \in granted
                               THEN JobActivated(job[j], now + timeout, token(j), durable)
                               ELSE job[j]]
    BY DEF apply_activation_plan
  <2>2. \A j \in granted : JobActivated(job[j], now + timeout, token(j), durable) \in JobRecord
    BY <1>1, <1>2, <1>3, ApplierTypes DEF TypeOK
  <2> HIDE DEF token, granted
  <2> QED BY <2>1, <2>2 DEF TypeOK
<1>5. issued' \in [Jobs -> 0..MaxKey]
  <2>1. issued' = [j \in Jobs |-> IF j \in granted /\ with_lease THEN token(j) ELSE issued[j]]
    BY DEF apply_activation_plan
  <2>2. \A j \in granted : token(j) \in 0..MaxKey
    BY <1>2, <1>3, ConstantsAssumption
  <2> HIDE DEF token, granted
  <2> QED BY <2>1, <2>2 DEF TypeOK
<1>6. activatable_jobs' \subseteq Jobs /\ activated_jobs' \subseteq Jobs
  BY <1>1, ResyncType DEF apply_activation_plan
<1>7. UNCHANGED <<now, instance, active, incidents>>
  BY DEF apply_activation_plan
<1> HIDE DEF token, granted
<1> QED BY <1>2, <1>4, <1>5, <1>6, <1>7 DEF TypeOK

\* Every disjunct of Next, in one place: what a step of the engine can be.
LEMMA NextCases ==
    ASSUME TypeOK, Next
    PROVE  \/ \E i \in Instances : CreateInstance(i)
           \/ \E i \in Instances : CancelInstance(i)
           \/ \E i \in Instances : SuspendInstance(i)
           \/ \E i \in Instances : ResumeInstance(i)
           \/ \E keys \in SUBSET Jobs, timeout \in Timeouts, with_lease, durable \in BOOLEAN :
                 apply_activation_plan(keys, timeout, with_lease, durable)
           \/ \E domains : ExpireJobs(domains)
           \/ \E j \in Jobs, token \in 0..next_local : CompleteJob(j, token)
           \/ \E j \in Jobs, token \in 0..next_local, r \in RetryInputs : FailJob(j, token, r)
           \/ \E j \in Jobs, token \in 0..next_local : ThrowJobErrorCaught(j, token)
           \/ \E j \in Jobs, token \in 0..next_local : ThrowJobErrorCaughtOutside(j, token)
           \/ \E j \in Jobs, token \in 0..next_local : ThrowJobErrorUnhandled(j, token)
           \/ \E j \in Jobs, token \in 0..next_local, r \in Optional(RetryInputs),
                 t \in Optional(TimeoutUpdates) : update_job_properties(j, token, r, t)
           \/ \E inc \in incidents : ResolveJobIncident(inc)
           \/ \E inc \in incidents : ResolveErrorIncident(inc)
           \/ \E e \in Elems : InterruptByTimer(e)
           \/ \E e \in Elems : SpawnByTimer(e)
           \/ \E j \in Jobs, d \in DigestDeadlines : recover_lease(j, d)
           \/ Tick
<1>1. ASSUME Activate
      PROVE  \E keys \in SUBSET Jobs, timeout \in Timeouts, with_lease, durable \in BOOLEAN :
                 apply_activation_plan(keys, timeout, with_lease, durable)
  <2>1. PICK timeout \in Timeouts, with_lease \in BOOLEAN :
           \/ \E max_jobs \in 1..MaxJobs : ActivateJobs(max_jobs, timeout, with_lease)
           \/ \E keys \in SUBSET Jobs : ActivateJobsByKey(keys, timeout, with_lease)
    BY <1>1 DEF Activate
  <2>2. CASE \E keys \in SUBSET Jobs : ActivateJobsByKey(keys, timeout, with_lease)
    BY <2>2 DEF ActivateJobsByKey
  <2>3. ASSUME NEW max_jobs \in 1..MaxJobs, ActivateJobs(max_jobs, timeout, with_lease)
        PROVE  \E keys \in SUBSET Jobs :
                  apply_activation_plan(keys, timeout, with_lease, FALSE)
    <3>1. select_activatable_job_keys(max_jobs, with_lease) \in SUBSET Jobs
      BY DEF select_activatable_job_keys, TypeOK
    <3> QED BY <2>3, <3>1 DEF ActivateJobs
  <2> QED BY <2>1, <2>2, <2>3
<1>2. \A j \in Jobs : Supplied(j) \subseteq 0..next_local
  BY ConstantsAssumption DEF Supplied, TypeOK, NoToken
<1> QED BY <1>1, <1>2 DEF Next, Expire, WorkerCommand

\* A drain step after jobs were settled, i.e. changed in place.
Settled(jobs) ==
    /\ jobs \in [Jobs -> JobRecord]
    /\ \A k \in Jobs : /\ jobs[k].elem = job[k].elem
                       /\ jobs[k].state = "None" <=> job[k].state = "None"

\* Moving one job on in place settles it.
LEMMA SettledOne ==
    ASSUME TypeOK, NEW j \in Jobs, NEW r \in JobRecord, r.elem = job[j].elem,
           r.state # "None", job[j].state # "None"
    PROVE  Settled([job EXCEPT ![j] = r])
BY DEF Settled, TypeOK

\* Completing, erroring or cancelling jobs settles them.
LEMMA SettledJobs ==
    ASSUME TypeOK
    PROVE  /\ Settled(job)
           /\ \A j \in Jobs : job[j].state # "None" =>
                 /\ Settled([job EXCEPT ![j] = JobCompleted(job[j])])
                 /\ Settled([job EXCEPT ![j] = JobErrorThrown(job[j])])
           /\ \A E : Settled([j \in Jobs |-> IF j \in JobsOn(E) THEN JobCanceled(job[j])
                                                                ELSE job[j]])
<1>1. Settled(job) BY DEF Settled, TypeOK
<1>2. ASSUME NEW j \in Jobs, job[j].state # "None"
      PROVE  /\ Settled([job EXCEPT ![j] = JobCompleted(job[j])])
             /\ Settled([job EXCEPT ![j] = JobErrorThrown(job[j])])
  <2>1. job[j] \in JobRecord BY DEF TypeOK
  <2>2. /\ JobCompleted(job[j]) \in JobRecord /\ JobCompleted(job[j]).elem = job[j].elem
        /\ JobCompleted(job[j]).state # "None"
    BY <2>1, ApplierTypes, ApplierFields
  <2>3. /\ JobErrorThrown(job[j]) \in JobRecord /\ JobErrorThrown(job[j]).elem = job[j].elem
        /\ JobErrorThrown(job[j]).state # "None"
    BY <2>1, ApplierTypes, ApplierFields
  <2> QED BY <1>2, <2>2, <2>3, SettledOne
<1>3. ASSUME NEW E
      PROVE  Settled([j \in Jobs |-> IF j \in JobsOn(E) THEN JobCanceled(job[j]) ELSE job[j]])
  BY ApplierTypes, ApplierFields DEF JobsOn, InPlay, Settled, TypeOK
<1> QED BY <1>1, <1>2, <1>3

\* So does a teardown after them.
LEMMA SettledTornDown ==
    ASSUME TypeOK, NEW E, NEW jobs, Settled(jobs)
    PROVE  Settled(TornDown(E, jobs))
<1> DEFINE r(k) == IF k \in JobsOn(E) /\ jobs[k].state \in InPlay
                   THEN JobCanceled(jobs[k]) ELSE jobs[k]
<1>1. ASSUME NEW k \in Jobs
      PROVE  /\ r(k) \in JobRecord /\ r(k).elem = job[k].elem
             /\ r(k).state = "None" <=> job[k].state = "None"
  <2>1. /\ jobs[k] \in JobRecord /\ jobs[k].elem = job[k].elem
        /\ jobs[k].state = "None" <=> job[k].state = "None"
    BY DEF Settled
  <2>2. CASE k \in JobsOn(E) /\ jobs[k].state \in InPlay
    <3>1. r(k) = JobCanceled(jobs[k]) BY <2>2
    <3>2. jobs[k].state # "None" BY <2>2 DEF InPlay
    <3>3. JobCanceled(jobs[k]) \in JobRecord BY <2>1, ApplierTypes
    <3>4. /\ JobCanceled(jobs[k]).elem = jobs[k].elem
          /\ JobCanceled(jobs[k]).state = "Canceled"
      BY <2>1, ApplierFields
    <3> QED BY <2>1, <3>1, <3>2, <3>3, <3>4
  <2>3. CASE ~(k \in JobsOn(E) /\ jobs[k].state \in InPlay)
    BY <2>1, <2>3
  <2> QED BY <2>2, <2>3
<1>2. TornDown(E, jobs) = [k \in Jobs |->
          IF \E inc \in incidents : inc.elem \in E /\ inc.job = k
          THEN IncidentResolved(r(k)) ELSE r(k)]
  BY DEF TornDown
<1> HIDE DEF r
<1>3. ASSUME NEW k \in Jobs
      PROVE  LET q == IncidentResolved(r(k))
             IN  /\ q \in JobRecord /\ q.elem = job[k].elem
                 /\ q.state = "None" <=> job[k].state = "None"
  <2>1. r(k) \in JobRecord BY <1>1
  <2>2. IncidentResolved(r(k)) \in JobRecord BY <2>1, ApplierTypes
  <2>3. /\ IncidentResolved(r(k)).elem = r(k).elem
        /\ IncidentResolved(r(k)).state = IF r(k).state = "Failed" THEN "Created"
                                          ELSE r(k).state
    BY <2>1, ApplierFields
  <2> QED BY <1>1, <2>2, <2>3
<1> QED BY <1>1, <1>2, <1>3 DEF Settled

\* The drain keeps the types after any such change.
LEMMA AdvanceTypeInv ==
    ASSUME TypeInv, NEW i \in Instances, NEW remaining \in SUBSET Elems, NEW jobs,
           Settled(jobs), NEW S \in SUBSET Jobs, Advance(i, remaining, jobs, S),
           UNCHANGED <<now, next_local, issued>>, incidents' \subseteq incidents
    PROVE  TypeInv'
<1>1. TypeOK'
  BY AdvanceType DEF TypeInv, TypeOK, Settled
<1>2. ASSUME job' = jobs PROVE JobElem'
  BY <1>2 DEF TypeInv, JobElem, Settled
<1>3. ASSUME NEW e \in ElemsOf(i), NEW j \in Jobs, job' = [jobs EXCEPT ![j] = JobCreated(e)]
      PROVE  JobElem'
  BY <1>3, JobCreatedFields DEF TypeInv, JobElem, Settled, ElemsOf
<1>4. JobElem'
  BY <1>2, <1>3 DEF Advance, TypeInv
<1> QED BY <1>1, <1>4 DEF TypeInv

\* A plan only activates jobs that are created or activated, in place.
LEMMA ActivationFields ==
    ASSUME TypeOK, NEW keys \in SUBSET Jobs, NEW timeout \in Timeouts,
           NEW with_lease \in BOOLEAN, NEW durable \in BOOLEAN,
           apply_activation_plan(keys, timeout, with_lease, durable)
    PROVE  \A k \in Jobs :
              /\ job'[k].elem = job[k].elem
              /\ \/ job'[k] = job[k]
                 \/ /\ job[k].state \in {"Created", "Activated"}
                    /\ job'[k].state = "Activated"
<1> DEFINE granted == {j \in keys : PlanGrants(j, with_lease)}
           token(j) == IF with_lease THEN Issue(j, granted) ELSE NoToken
<1>1. job' = [j \in Jobs |-> IF j \in granted
                             THEN JobActivated(job[j], now + timeout, token(j), durable)
                             ELSE job[j]]
  BY DEF apply_activation_plan
<1>2. \A j \in granted : j \in Jobs /\ job[j].state \in {"Created", "Activated"}
  BY DEF PlanGrants
<1> HIDE DEF granted, token
<1>3. \A j \in granted : LET r == JobActivated(job[j], now + timeout, token(j), durable)
                         IN  r.elem = job[j].elem /\ r.state = "Activated"
  BY <1>2 DEF JobActivated, TypeOK, JobRecord
<1> QED BY <1>1, <1>2, <1>3

\* TypeInv is preserved by every step.
LEMMA TypeNext == TypeInv /\ [Next]_vars => TypeInv'
<1> SUFFICES ASSUME TypeInv, [Next]_vars PROVE TypeInv' OBVIOUS
<1> USE DEF TypeInv
<1>0. CASE UNCHANGED vars
  BY <1>0 DEF vars, TypeOK, JobElem
<1>1. ASSUME NEW i \in Instances, CreateInstance(i) PROVE TypeInv'
  <2>1. PICK e \in ElemsOf(i), j \in Jobs :
           /\ active' = active \cup {e}
           /\ job' = [job EXCEPT ![j] = JobCreated(e)]
           /\ Resync({j})
    BY <1>1 DEF CreateInstance
  <2>2. e \in Elems BY DEF ElemsOf
  <2>3. job' \in [Jobs -> JobRecord] BY <2>1, <2>2, JobCreatedType DEF TypeOK
  <2>4. activatable_jobs' \subseteq Jobs /\ activated_jobs' \subseteq Jobs BY <2>1, ResyncType
  <2>5. TypeOK' BY <1>1, <2>1, <2>2, <2>3, <2>4 DEF CreateInstance, TypeOK, InstanceStates
  <2>6. JobElem' BY <2>1, <2>2, JobCreatedFields DEF JobElem, TypeOK
  <2> QED BY <2>5, <2>6
<1>2. ASSUME NEW i \in Instances, CancelInstance(i) PROVE TypeInv'
  <2> DEFINE cancelled == JobsOn(ElemsOf(i))
  <2>1. cancelled \in SUBSET Jobs BY DEF JobsOn
  <2>2. job' \in [Jobs -> JobRecord] BY <1>2, ApplierTypes DEF CancelInstance, TypeOK
  <2>3. activatable_jobs' \subseteq Jobs /\ activated_jobs' \subseteq Jobs
    BY <1>2, <2>1, ResyncType DEF CancelInstance
  <2>4. TypeOK' BY <1>2, <2>2, <2>3 DEF CancelInstance, TypeOK, InstanceStates
  <2>5. JobElem' BY <1>2, ApplierFields DEF CancelInstance, JobElem, TypeOK, JobsOn, InPlay
  <2> QED BY <2>4, <2>5
<1>3. ASSUME NEW i \in Instances, SuspendInstance(i) PROVE TypeInv'
  BY <1>3 DEF SuspendInstance, TypeOK, InstanceStates, JobElem, indices
<1>4. ASSUME NEW i \in Instances, ResumeInstance(i) PROVE TypeInv'
  <2>1. "Active" \in InstanceStates BY DEF InstanceStates
  <2>2. instance' \in [Instances -> InstanceStates]
    BY <1>4, <2>1, CompleteFinishedType DEF ResumeInstance
  <2> QED BY <1>4, <2>2 DEF ResumeInstance, TypeOK, JobElem, indices
<1>5. ASSUME NEW keys \in SUBSET Jobs, NEW timeout \in Timeouts, NEW with_lease \in BOOLEAN,
             NEW durable \in BOOLEAN, apply_activation_plan(keys, timeout, with_lease, durable)
      PROVE  TypeInv'
  <2>1. TypeOK' BY <1>5, ActivationType
  <2>2. JobElem' BY <1>5, ActivationFields DEF JobElem
  <2> QED BY <2>1, <2>2
<1>6. ASSUME NEW domains, ExpireJobs(domains) PROVE TypeInv'
  <2> DEFINE expired == {j \in activated_jobs :
                           /\ job[j].state = "Activated"
                           /\ job[j].deadline <= now
                           /\ job_requires_durable_activation(j) \in domains}
  <2>1. expired \in SUBSET Jobs BY DEF TypeOK
  <2>2. Resync(expired)
        /\ job' = [j \in Jobs |-> IF j \in expired THEN JobLockExpired(job[j]) ELSE job[j]]
    BY <1>6 DEF ExpireJobs
  <2> HIDE DEF expired
  <2>3. job' \in [Jobs -> JobRecord] BY <2>2, ApplierTypes DEF TypeOK
  <2>4. activatable_jobs' \subseteq Jobs /\ activated_jobs' \subseteq Jobs
    BY <2>1, <2>2, ResyncType
  <2>5. TypeOK' BY <1>6, <2>3, <2>4 DEF ExpireJobs, TypeOK
  <2>6. JobElem' BY <2>2, ApplierFields DEF JobElem, TypeOK
  <2> QED BY <2>5, <2>6
<1>7. ASSUME NEW j \in Jobs, NEW token, CompleteJob(j, token) PROVE TypeInv'
  <2> DEFINE jobs == [job EXCEPT ![j] = JobCompleted(job[j])]
  <2>1. job[j].state # "None" /\ InstanceOf[job[j].elem] \in Instances
    BY <1>7, ConstantsAssumption DEF CompleteJob, WorkerMayResolve, JobElem
  <2>2. Settled(jobs) BY <2>1, SettledJobs
  <2>3. Advance(InstanceOf[job[j].elem], active \ {job[j].elem}, jobs, {j})
    BY <1>7 DEF CompleteJob
  <2>4. active \ {job[j].elem} \in SUBSET Elems /\ {j} \in SUBSET Jobs BY DEF TypeOK
  <2>5. UNCHANGED <<now, next_local, issued>> /\ incidents' \subseteq incidents
    BY <1>7 DEF CompleteJob
  <2> HIDE DEF jobs
  <2> QED BY <2>1, <2>2, <2>3, <2>4, <2>5, AdvanceTypeInv
<1>8. ASSUME NEW j \in Jobs, NEW token, NEW r \in RetryInputs, FailJob(j, token, r)
      PROVE  TypeInv'
  <2>1. Clamp(r) \in Nat BY ConstantsAssumption DEF Clamp
  <2>2. job' = [job EXCEPT ![j] = JobFailed(job[j], Clamp(r))] /\ Resync({j})
    BY <1>8 DEF FailJob
  <2>3. job' \in [Jobs -> JobRecord] BY <2>1, <2>2, ApplierTypes DEF TypeOK
  <2>4. activatable_jobs' \subseteq Jobs /\ activated_jobs' \subseteq Jobs BY <2>2, ResyncType
  <2>5. job[j].elem \in Elems BY <1>8 DEF FailJob, WorkerMayResolve, JobElem
  <2>6. next_local' \in 0..MaxKey BY <1>8, ConstantsAssumption DEF FailJob, TypeOK
  <2>7. incidents' \subseteq IncidentRecord
    BY <1>8, <2>5 DEF FailJob, TypeOK, IncidentRecord
  <2>8. TypeOK' BY <1>8, <2>3, <2>4, <2>6, <2>7 DEF FailJob, TypeOK
  <2>9. JobElem' BY <2>1, <2>2, <2>5, ApplierFields DEF JobElem, TypeOK
  <2> QED BY <2>8, <2>9
<1>9. ASSUME NEW j \in Jobs, NEW token, ThrowJobErrorCaught(j, token) PROVE TypeInv'
  <2> DEFINE jobs == [job EXCEPT ![j] = JobErrorThrown(job[j])]
  <2>1. job[j].state # "None" /\ InstanceOf[job[j].elem] \in Instances
    BY <1>9, ConstantsAssumption DEF ThrowJobErrorCaught, WorkerMayResolve, JobElem
  <2>2. Settled(jobs) BY <2>1, SettledJobs
  <2>3. Advance(InstanceOf[job[j].elem], active \ {job[j].elem}, jobs, {j})
    BY <1>9 DEF ThrowJobErrorCaught
  <2>4. active \ {job[j].elem} \in SUBSET Elems /\ {j} \in SUBSET Jobs BY DEF TypeOK
  <2>5. UNCHANGED <<now, next_local, issued>> /\ incidents' \subseteq incidents
    BY <1>9 DEF ThrowJobErrorCaught
  <2> HIDE DEF jobs
  <2> QED BY <2>1, <2>2, <2>3, <2>4, <2>5, AdvanceTypeInv
<1>10. ASSUME NEW j \in Jobs, NEW token, ThrowJobErrorCaughtOutside(j, token) PROVE TypeInv'
  <2> DEFINE i == InstanceOf[job[j].elem]
             scope == ElemsOf(i) \cap active
             jobs == TornDown(scope, [job EXCEPT ![j] = JobErrorThrown(job[j])])
  <2>1. job[j].state # "None" /\ i \in Instances
    BY <1>10, ConstantsAssumption DEF ThrowJobErrorCaughtOutside, WorkerMayResolve, JobElem
  <2>2. Settled(jobs) BY <2>1, SettledJobs, SettledTornDown
  <2>3. Advance(i, active \ scope, jobs, JobsOn(scope)) /\ incidents' \subseteq incidents
    BY <1>10 DEF ThrowJobErrorCaughtOutside
  <2>4. active \ scope \in SUBSET Elems /\ JobsOn(scope) \in SUBSET Jobs
    BY DEF TypeOK, JobsOn
  <2>5. UNCHANGED <<now, next_local, issued>> BY <1>10 DEF ThrowJobErrorCaughtOutside
  <2> HIDE DEF jobs, scope, i
  <2> QED BY <2>1, <2>2, <2>3, <2>4, <2>5, AdvanceTypeInv
<1>11. ASSUME NEW j \in Jobs, NEW token, ThrowJobErrorUnhandled(j, token) PROVE TypeInv'
  <2>1. job' = [job EXCEPT ![j] = JobErrorThrown(job[j])] /\ Resync({j})
    BY <1>11 DEF ThrowJobErrorUnhandled
  <2>2. job' \in [Jobs -> JobRecord] BY <2>1, ApplierTypes DEF TypeOK
  <2>3. activatable_jobs' \subseteq Jobs /\ activated_jobs' \subseteq Jobs BY <2>1, ResyncType
  <2>4. job[j].elem \in Elems BY <1>11 DEF ThrowJobErrorUnhandled, WorkerMayResolve, JobElem
  <2>5. next_local' \in 0..MaxKey
    BY <1>11, ConstantsAssumption DEF ThrowJobErrorUnhandled, TypeOK
  <2>6. incidents' \subseteq IncidentRecord
    BY <1>11, <2>4 DEF ThrowJobErrorUnhandled, TypeOK, IncidentRecord
  <2>7. TypeOK' BY <1>11, <2>2, <2>3, <2>5, <2>6 DEF ThrowJobErrorUnhandled, TypeOK
  <2>8. JobElem' BY <2>1, <2>4, ApplierFields DEF JobElem, TypeOK
  <2> QED BY <2>7, <2>8
<1>12. ASSUME NEW j \in Jobs, NEW token, NEW r \in Optional(RetryInputs),
              NEW t \in Optional(TimeoutUpdates), update_job_properties(j, token, r, t)
       PROVE  TypeInv'
  <2>1. PICK n \in Nat, d \in Int :
           job' = [job EXCEPT ![j] = [job[j] EXCEPT !.retries = n, !.deadline = d]]
    <3> DEFINE n == IF r = {} THEN job[j].retries ELSE CHOOSE x \in r : TRUE
               d == IF t = {} THEN job[j].deadline
                    ELSE Saturating(now + CHOOSE x \in t : TRUE)
    <3>1. n \in Nat
      BY <1>12, ConstantsAssumption DEF Optional, update_job_properties, TypeOK, JobRecord
    <3>2. d \in Int
      BY ConstantsAssumption DEF Optional, TypeOK, JobRecord, Saturating
    <3>3. job' = [job EXCEPT ![j] = [job[j] EXCEPT !.retries = n, !.deadline = d]]
      BY <1>12 DEF update_job_properties
    <3> QED BY <3>1, <3>2, <3>3
  <2>2. job' \in [Jobs -> JobRecord] /\ JobElem'
    BY <2>1 DEF TypeOK, JobRecord, JobElem
  <2> QED BY <1>12, <2>2 DEF update_job_properties, TypeOK, indices
<1>13. ASSUME NEW inc \in incidents, ResolveJobIncident(inc) PROVE TypeInv'
  <2>1. /\ job' = [job EXCEPT ![inc.job] = IncidentResolved(job[inc.job])]
        /\ Resync({inc.job}) \/ UNCHANGED indices
        /\ incidents' \subseteq incidents
    BY <1>13 DEF ResolveJobIncident
  <2>2. job' \in [Jobs -> JobRecord] /\ JobElem'
    <3>1. CASE inc.job \in Jobs
      <4>1. job[inc.job] \in JobRecord BY <3>1 DEF TypeOK
      <4>2. /\ IncidentResolved(job[inc.job]) \in JobRecord
            /\ IncidentResolved(job[inc.job]).elem = job[inc.job].elem
            /\ job[inc.job].state = "None" => IncidentResolved(job[inc.job]).state = "None"
        BY <4>1, ApplierTypes, ApplierFields
      <4> QED BY <2>1, <3>1, <4>2 DEF TypeOK, JobElem
    <3>2. CASE inc.job \notin Jobs
      BY <2>1, <3>2 DEF TypeOK, JobElem
    <3> QED BY <3>1, <3>2
  <2>3. activatable_jobs' \subseteq Jobs /\ activated_jobs' \subseteq Jobs
    BY <1>13, <2>1, ResyncType DEF TypeOK, IncidentRecord, indices, ResolveJobIncident, Resync
  <2> QED BY <1>13, <2>1, <2>2, <2>3 DEF ResolveJobIncident, TypeOK
<1>14. ASSUME NEW inc \in incidents, ResolveErrorIncident(inc) PROVE TypeInv'
  <2>1. CASE UNCHANGED <<job, activatable_jobs, activated_jobs>>
    BY <1>14, <2>1 DEF ResolveErrorIncident, TypeOK, JobElem
  <2>2. ASSUME NEW j \in Jobs, job' = [job EXCEPT ![j] = JobCreated(inc.elem)], Resync({j})
        PROVE  TypeInv'
    <3>1. inc.elem \in Elems BY DEF TypeOK, IncidentRecord
    <3>2. job' \in [Jobs -> JobRecord] BY <2>2, <3>1, JobCreatedType DEF TypeOK
    <3>3. JobElem' BY <2>2, <3>1, JobCreatedFields DEF TypeOK, JobElem
    <3>4. activatable_jobs' \subseteq Jobs /\ activated_jobs' \subseteq Jobs
      BY <2>2, ResyncType
    <3> QED BY <1>14, <3>2, <3>3, <3>4 DEF ResolveErrorIncident, TypeOK
  <2> QED BY <1>14, <2>1, <2>2 DEF ResolveErrorIncident
<1>15. ASSUME NEW e \in Elems, InterruptByTimer(e) PROVE TypeInv'
  <2> DEFINE jobs == [j \in Jobs |-> IF j \in JobsOn({e}) THEN JobCanceled(job[j]) ELSE job[j]]
  <2>1. Settled(jobs) BY SettledJobs
  <2>2. Advance(InstanceOf[e], active \ {e}, jobs, JobsOn({e}))
    BY <1>15 DEF InterruptByTimer
  <2>3. InstanceOf[e] \in Instances BY ConstantsAssumption
  <2>4. JobsOn({e}) \in SUBSET Jobs BY DEF JobsOn
  <2> HIDE DEF jobs
  <2> QED BY <1>15, <2>1, <2>2, <2>3, <2>4, AdvanceTypeInv DEF InterruptByTimer, TypeOK
<1>16. ASSUME NEW e \in Elems, SpawnByTimer(e) PROVE TypeInv'
  <2>1. Settled(job) BY SettledJobs
  <2>2. InstanceOf[e] \in Instances BY ConstantsAssumption
  <2>3. active \in SUBSET Elems /\ {} \in SUBSET Jobs BY DEF TypeOK
  <2> QED BY <1>16, <2>1, <2>2, <2>3, AdvanceTypeInv DEF SpawnByTimer
<1>17. ASSUME NEW j \in Jobs, NEW d \in DigestDeadlines, recover_lease(j, d) PROVE TypeInv'
  <2>1. d \in Int BY ConstantsAssumption
  <2>2. job' \in [Jobs -> JobRecord] /\ JobElem'
    BY <1>17, <2>1 DEF recover_lease, LeaseRecovered, TypeOK, JobRecord, JobStates, JobElem
  <2> QED BY <1>17, <2>2 DEF recover_lease, TypeOK
<1>18. CASE Tick
  BY <1>18, ConstantsAssumption DEF Tick, TypeOK, JobElem, indices
<1> QED
  BY <1>0, <1>1, <1>2, <1>3, <1>4, <1>5, <1>6, <1>7, <1>8, <1>9, <1>10, <1>11, <1>12, <1>13,
     <1>14, <1>15, <1>16, <1>17, <1>18, NextCases

\* Type correctness for every instance of the constants: whatever commands the
\* engine is sent, the clock, the key allocator, the job records and both indices
\* stay in range (the appliers of state/apply/job.rs never produce a malformed job).
THEOREM TypeCorrect == Spec => []TypeOK
<1>1. TypeInv => TypeOK BY DEF TypeInv
<1> QED BY <1>1, TypeInit, TypeNext, PTL DEF Spec

-----------------------------------------------------------------------------
(***************************************************************************)
(* Tokens and work: every active service task has work pending (a job or   *)
(* an incident), and every job in play has its token.                      *)
(*                                                                         *)
(* Neither invariant is inductive.  A completed job takes its token along, *)
(* so a second job of the same element would lose its token: at most one   *)
(* job per element is in play.  Resolving an uncaught error re-creates the *)
(* job: the element must have none, and no second such incident.  An       *)
(* incident counts as pending work for its element: the job it names must  *)
(* sit on that element.  TokenInv collects these facts.                    *)
(***************************************************************************)
\* A token belongs to an instance that still runs.
ActiveLive == \A e \in active : instance[InstanceOf[e]] \in Live

\* A job in play has its token.
JobActive == \A j \in Jobs : job[j].state \in InPlay => job[j].elem \in active

\* An incident sits on an element that has had a job, its own one if it names one.
IncidentElem ==
    \A inc \in incidents : \E k \in Jobs :
        /\ job[k].elem = inc.elem /\ job[k].state # "None"
        /\ inc.kind = "JobNoRetries" => inc.job = k
        /\ inc.kind = "UnhandledError" => inc.job = NoJob

\* While an uncaught error is open its task has no job in play, and no second
\* uncaught error.
ErrorIncidentAlone ==
    \A inc \in incidents : inc.kind = "UnhandledError" /\ inc.elem \in active =>
        /\ \A j \in Jobs : job[j].elem = inc.elem => job[j].state \notin InPlay
        /\ \A other \in incidents :
              other.kind = "UnhandledError" /\ other.elem = inc.elem => other = inc

TokenInv ==
    /\ TypeInv
    /\ ActiveLive
    /\ JobActive
    /\ OneJobPerElement
    /\ IncidentElem
    /\ ErrorIncidentAlone
    /\ TokenHasWork

-----------------------------------------------------------------------------
(***************************************************************************)
(* The kinds of step.  Each lemma says that a kind preserves TokenInv; the *)
(* actions are then sorted into kinds.                                     *)
(***************************************************************************)
\* A step that moves jobs between Created and Activated at most, and leaves every
\* token with a running instance.
Quiet ==
    /\ active' = active /\ incidents' = incidents
    /\ \A e \in active : instance'[InstanceOf[e]] \in Live
    /\ \A k \in Jobs :
          /\ job'[k].elem = job[k].elem
          /\ \/ job'[k].state = job[k].state
             \/ /\ job[k].state \in {"Created", "Activated"}
                /\ job'[k].state \in {"Created", "Activated"}

\* A step that moves no token and changes no incident preserves TokenInv.
LEMMA QuietStep ==
    ASSUME TokenInv, TypeInv', Quiet
    PROVE  TokenInv'
<1> USE DEF TokenInv, Quiet
<1>1. ActiveLive' BY DEF ActiveLive
<1>2. JobActive' BY DEF JobActive, InPlay
<1>3. OneJobPerElement' BY DEF OneJobPerElement, InPlay
<1>4. IncidentElem' BY DEF IncidentElem
<1>5. ErrorIncidentAlone' BY DEF ErrorIncidentAlone, InPlay
<1>6. TokenHasWork'
  <2> SUFFICES ASSUME NEW e \in active PROVE Waiting(e)' BY DEF TokenHasWork
  <2>1. Waiting(e) BY DEF TokenHasWork
  <2>2. CASE \E j \in Jobs : job[j].elem = e /\ job[j].state \in {"Created", "Activated"}
    BY <2>2 DEF Waiting
  <2>3. ASSUME NEW inc \in incidents, inc.elem = e,
               inc.job # NoJob => job[inc.job].state = "Failed"
        PROVE  Waiting(e)'
    <3>1. inc.job # NoJob => inc.job \in Jobs
      BY DEF TypeInv, TypeOK, IncidentRecord
    <3>2. inc.job # NoJob => job'[inc.job].state = "Failed"
      BY <2>3, <3>1
    <3> QED BY <2>3, <3>2 DEF Waiting
  <2> QED BY <2>1, <2>2, <2>3 DEF Waiting
<1> QED BY <1>1, <1>2, <1>3, <1>4, <1>5, <1>6

\* The tokens E leave instance i, every job in play on them ends, and the drain
\* moves one token on.
Leaving(i, E, jobs) ==
    /\ i \in Instances /\ instance[i] \in Live
    /\ \A k \in Jobs :
          /\ jobs[k].elem = job[k].elem
          /\ \/ jobs[k].state = job[k].state
             \/ job[k].elem \in E /\ job[k].state \in InPlay /\ jobs[k].state \in Terminal
          /\ job[k].elem \in E => jobs[k].state \notin InPlay
    /\ incidents' \subseteq incidents
    /\ \A inc \in incidents : inc.elem \notin E => inc \in incidents'

\* What the drain does to the instances: only i changes, and only when it has no
\* token left.
LEMMA DrainInstances ==
    ASSUME TypeOK, TypeOK', NEW i, NEW remaining, NEW jobs, NEW S, Advance(i, remaining, jobs, S),
           NEW e \in active'
    PROVE  instance'[InstanceOf[e]] = instance[InstanceOf[e]]
<1>1. instance' = [instance EXCEPT ![i] =
          IF instance[i] = "Active" /\ ElemsOf(i) \cap active' = {} THEN "Completed"
          ELSE instance[i]]
  BY DEF Advance, CompleteFinished
<1>2. CASE InstanceOf[e] # i
  BY <1>1, <1>2 DEF TypeOK
<1>3. CASE InstanceOf[e] = i /\ e \in Elems
  BY <1>1, <1>3 DEF TypeOK, ElemsOf
<1>4. e \in Elems
  BY DEF TypeOK
<1> QED BY <1>2, <1>3, <1>4

\* The token left for an end event.
LEMMA LeavingEnd ==
    ASSUME TokenInv, TypeInv', NEW i, NEW E, NEW jobs, NEW S, Leaving(i, E, jobs),
           Advance(i, active \ E, jobs, S), active' = active \ E, job' = jobs
    PROVE  TokenInv'
<1> USE DEF TokenInv, TypeInv
<1>1. ActiveLive'
  BY DrainInstances DEF ActiveLive
<1>2. JobActive'
  BY DEF JobActive, Leaving, InPlay, Terminal
<1>3. OneJobPerElement'
  BY DEF OneJobPerElement, Leaving, InPlay, Terminal
<1>4. IncidentElem'
  BY DEF IncidentElem, Leaving, InPlay, Terminal
<1>5. ErrorIncidentAlone'
  BY DEF ErrorIncidentAlone, Leaving, InPlay, Terminal
<1>6. TokenHasWork'
  <2> SUFFICES ASSUME NEW e \in active' PROVE Waiting(e)' BY DEF TokenHasWork
  <2>1. Waiting(e) /\ e \notin E BY DEF TokenHasWork
  <2>2. CASE \E j \in Jobs : job[j].elem = e /\ job[j].state \in {"Created", "Activated"}
    BY <2>1, <2>2 DEF Waiting, Leaving
  <2>3. ASSUME NEW inc \in incidents, inc.elem = e,
               inc.job # NoJob => job[inc.job].state = "Failed"
        PROVE  Waiting(e)'
    <3>1. inc \in incidents' BY <2>1, <2>3 DEF Leaving
    <3>2. inc.job # NoJob => inc.job \in Jobs /\ job[inc.job].elem = e
      BY <2>3 DEF TypeOK, IncidentRecord, IncidentElem
    <3>3. inc.job # NoJob => job'[inc.job].state = "Failed"
      BY <2>1, <2>3, <3>2 DEF Leaving
    <3> QED BY <2>3, <3>1, <3>3 DEF Waiting
  <2> QED BY <2>1, <2>2, <2>3 DEF Waiting
<1> QED BY <1>1, <1>2, <1>3, <1>4, <1>5, <1>6

\* The token left for another service task and parked on a new job.
LEMMA LeavingPark ==
    ASSUME TokenInv, TypeInv', NEW i, NEW E, NEW jobs \in [Jobs -> JobRecord], NEW S,
           Leaving(i, E, jobs), Advance(i, active \ E, jobs, S),
           NEW e \in ElemsOf(i), NEW j \in Jobs, Fresh(e), Unused(j),
           active' = (active \ E) \cup {e}, job' = [jobs EXCEPT ![j] = JobCreated(e)]
    PROVE  TokenInv'
<1> USE DEF TokenInv, TypeInv
<1>1. /\ job'[j].elem = e /\ job'[j].state = "Created"
      /\ \A k \in Jobs : k # j => job'[k] = jobs[k]
      /\ e \in Elems /\ InstanceOf[e] = i /\ job[j].state = "None"
      /\ \A k \in Jobs : job[k].elem # e
  BY JobCreatedFields DEF ElemsOf, Fresh, Unused
<1>2. ActiveLive'
  BY <1>1, DrainInstances DEF ActiveLive, Leaving
<1>3. JobActive'
  BY <1>1 DEF JobActive, Leaving, InPlay, Terminal
<1>4. OneJobPerElement'
  BY <1>1 DEF OneJobPerElement, Leaving, InPlay, Terminal
<1>5. IncidentElem'
  <2> SUFFICES ASSUME NEW inc \in incidents'
               PROVE  \E k \in Jobs :
                         /\ job'[k].elem = inc.elem /\ job'[k].state # "None"
                         /\ inc.kind = "JobNoRetries" => inc.job = k
                         /\ inc.kind = "UnhandledError" => inc.job = NoJob
    BY DEF IncidentElem
  <2>1. inc \in incidents BY DEF Leaving
  <2>2. PICK k \in Jobs : /\ job[k].elem = inc.elem /\ job[k].state # "None"
                          /\ inc.kind = "JobNoRetries" => inc.job = k
                          /\ inc.kind = "UnhandledError" => inc.job = NoJob
    BY <2>1 DEF IncidentElem
  <2>3. job'[k].elem = inc.elem /\ job'[k].state # "None"
    BY <1>1, <2>2 DEF Leaving, Terminal
  <2> QED BY <2>2, <2>3
<1>6. \A inc \in incidents' : inc \in incidents /\ inc.elem # e
  BY <1>1 DEF Leaving, IncidentElem
<1>7. ErrorIncidentAlone'
  BY <1>1, <1>6 DEF ErrorIncidentAlone, Leaving, InPlay, Terminal
<1>8. TokenHasWork'
  <2> SUFFICES ASSUME NEW f \in active' PROVE Waiting(f)' BY DEF TokenHasWork
  <2>1. CASE f = e BY <1>1, <2>1 DEF Waiting
  <2>2. CASE f # e
    <3>1. Waiting(f) /\ f \notin E BY <2>2 DEF TokenHasWork
    <3>2. CASE \E k \in Jobs : job[k].elem = f /\ job[k].state \in {"Created", "Activated"}
      BY <1>1, <3>1, <3>2 DEF Waiting, Leaving
    <3>3. ASSUME NEW inc \in incidents, inc.elem = f,
                 inc.job # NoJob => job[inc.job].state = "Failed"
          PROVE  Waiting(f)'
      <4>1. inc \in incidents' BY <3>1, <3>3 DEF Leaving
      <4>2. inc.job # NoJob => inc.job \in Jobs /\ job[inc.job].elem = f
        BY <3>3 DEF TypeOK, IncidentRecord, IncidentElem
      <4>3. inc.job # NoJob => job'[inc.job].state = "Failed"
        BY <1>1, <3>1, <3>3, <4>2 DEF Leaving
      <4> QED BY <3>3, <4>1, <4>3 DEF Waiting
    <3> QED BY <3>1, <3>2, <3>3 DEF Waiting
  <2> QED BY <2>1, <2>2
<1> QED BY <1>2, <1>3, <1>4, <1>5, <1>7, <1>8

\* Either way the token that leaves preserves TokenInv.
LEMMA LeavingStep ==
    ASSUME TokenInv, TypeInv', NEW i, NEW E, NEW jobs \in [Jobs -> JobRecord], NEW S,
           Leaving(i, E, jobs), Advance(i, active \ E, jobs, S)
    PROVE  TokenInv'
BY LeavingEnd, LeavingPark DEF Advance

\* An in-play job ends on its own element, whose token leaves.
LEMMA LeavingOne ==
    ASSUME TokenInv, NEW j \in Jobs, job[j].state \in InPlay, NEW r \in JobRecord,
           r.elem = job[j].elem, r.state \in Terminal, incidents' = incidents
    PROVE  Leaving(InstanceOf[job[j].elem], {job[j].elem}, [job EXCEPT ![j] = r])
<1> USE DEF TokenInv, TypeInv
<1>1. job[j].elem \in active /\ job[j].elem \in Elems
  BY DEF JobActive, JobElem, InPlay
<1>2. InstanceOf[job[j].elem] \in Instances /\ instance[InstanceOf[job[j].elem]] \in Live
  BY <1>1, ConstantsAssumption DEF ActiveLive
<1>3. \A k \in Jobs : job[k].elem = job[j].elem /\ job[k].state \in InPlay => k = j
  BY DEF OneJobPerElement
<1> QED BY <1>2, <1>3 DEF Leaving, TypeOK, InPlay, Terminal

\* FailJob without retries left: the job parks and an incident is raised on it.
LEMMA ParkStep ==
    ASSUME TokenInv, TypeInv', NEW j \in Jobs, job[j].state \in {"Created", "Activated"},
           NEW r \in JobRecord, r.elem = job[j].elem, r.state = "Failed",
           job' = [job EXCEPT ![j] = r], NEW inc, inc.elem = job[j].elem, inc.job = j,
           inc.kind = "JobNoRetries", incidents' = incidents \cup {inc},
           active' = active, instance' = instance
    PROVE  TokenInv'
<1> USE DEF TokenInv, TypeInv
<1>1. /\ \A k \in Jobs : job'[k].elem = job[k].elem
      /\ \A k \in Jobs : k # j => job'[k].state = job[k].state
      /\ job'[j].state = "Failed"
  BY DEF TypeOK
<1>2. ActiveLive' BY DEF ActiveLive
<1>3. JobActive' BY <1>1 DEF JobActive, InPlay
<1>4. OneJobPerElement' BY <1>1 DEF OneJobPerElement, InPlay
<1>5. IncidentElem' BY <1>1 DEF IncidentElem
<1>6. ErrorIncidentAlone' BY <1>1 DEF ErrorIncidentAlone, InPlay
<1>7. TokenHasWork'
  <2> SUFFICES ASSUME NEW e \in active PROVE Waiting(e)' BY DEF TokenHasWork
  <2>1. CASE e = job[j].elem BY <1>1, <2>1 DEF Waiting
  <2>2. CASE e # job[j].elem
    <3>1. Waiting(e) BY DEF TokenHasWork
    <3>2. \A other \in incidents : other.job = j => other.elem # e
      BY <2>2, Sentinels DEF IncidentElem, TypeOK, IncidentRecord
    <3>3. \A other \in incidents : other.job # NoJob => other.job \in Jobs
      BY DEF TypeOK, IncidentRecord
    <3> QED BY <1>1, <2>2, <3>1, <3>2, <3>3 DEF Waiting
  <2> QED BY <2>1, <2>2
<1> QED BY <1>2, <1>3, <1>4, <1>5, <1>6, <1>7

\* ThrowJobError that nothing catches: the job ends, its token stays on an incident.
LEMMA UnhandledStep ==
    ASSUME TokenInv, TypeInv', NEW j \in Jobs, job[j].state \in {"Created", "Activated"},
           NEW r \in JobRecord, r.elem = job[j].elem, r.state = "Errored",
           job' = [job EXCEPT ![j] = r], NEW inc, inc.elem = job[j].elem, inc.job = NoJob,
           inc.kind = "UnhandledError", incidents' = incidents \cup {inc},
           active' = active, instance' = instance
    PROVE  TokenInv'
<1> USE DEF TokenInv, TypeInv
<1>1. /\ \A k \in Jobs : job'[k].elem = job[k].elem
      /\ \A k \in Jobs : k # j => job'[k].state = job[k].state
      /\ job'[j].state = "Errored"
  BY DEF TypeOK
<1>2. ActiveLive' BY DEF ActiveLive
<1>3. JobActive' BY <1>1 DEF JobActive, InPlay
<1>4. OneJobPerElement' BY <1>1 DEF OneJobPerElement, InPlay
<1>5. IncidentElem' BY <1>1 DEF IncidentElem
<1>6. ErrorIncidentAlone'
  <2>1. \A other \in incidents : other.kind = "UnhandledError" => other.elem # job[j].elem
    BY DEF ErrorIncidentAlone, JobActive, InPlay
  <2>2. \A k \in Jobs : job[k].elem = job[j].elem /\ k # j => job[k].state \notin InPlay
    BY DEF OneJobPerElement, InPlay
  <2> QED BY <1>1, <2>1, <2>2 DEF ErrorIncidentAlone, InPlay
<1>7. TokenHasWork'
  <2> SUFFICES ASSUME NEW e \in active PROVE Waiting(e)' BY DEF TokenHasWork
  <2>1. CASE e = job[j].elem BY <1>1, <2>1 DEF Waiting
  <2>2. CASE e # job[j].elem
    <3>1. Waiting(e) BY DEF TokenHasWork
    <3>2. \A other \in incidents : other.job = j => other.elem # e
      BY <2>2, Sentinels DEF IncidentElem, TypeOK, IncidentRecord
    <3>3. \A other \in incidents : other.job # NoJob => other.job \in Jobs
      BY DEF TypeOK, IncidentRecord
    <3> QED BY <1>1, <2>2, <3>1, <3>2, <3>3 DEF Waiting
  <2> QED BY <2>1, <2>2
<1> QED BY <1>2, <1>3, <1>4, <1>5, <1>6, <1>7

\* Resolving a job's incident: a parked job returns to the pool, on its token.
LEMMA UnparkStep ==
    ASSUME TokenInv, TypeInv', NEW inc \in incidents, inc.kind = "JobNoRetries",
           incidents' = incidents \ {inc}, active' = active, instance' = instance,
           job' = [job EXCEPT ![inc.job] = IncidentResolved(job[inc.job])]
    PROVE  TokenInv'
<1> USE DEF TokenInv, TypeInv
<1>1. inc.job \in Jobs /\ job[inc.job].elem = inc.elem /\ job[inc.job].state # "None"
  BY DEF IncidentElem
<1>2. /\ \A k \in Jobs : job'[k].elem = job[k].elem
      /\ \A k \in Jobs : k # inc.job => job'[k].state = job[k].state
      /\ job'[inc.job].state = IF job[inc.job].state = "Failed" THEN "Created"
                               ELSE job[inc.job].state
  <2>1. job[inc.job] \in JobRecord BY <1>1 DEF TypeOK
  <2>2. /\ IncidentResolved(job[inc.job]).elem = job[inc.job].elem
        /\ IncidentResolved(job[inc.job]).state =
              IF job[inc.job].state = "Failed" THEN "Created" ELSE job[inc.job].state
    BY <2>1, ApplierFields
  <2> QED BY <1>1, <2>2 DEF TypeOK
<1>3. ActiveLive' BY DEF ActiveLive
<1>4. JobActive' BY <1>1, <1>2 DEF JobActive, InPlay
<1>5. OneJobPerElement' BY <1>1, <1>2 DEF OneJobPerElement, InPlay
<1>6. IncidentElem' BY <1>1, <1>2 DEF IncidentElem
<1>7. ErrorIncidentAlone' BY <1>1, <1>2 DEF ErrorIncidentAlone, InPlay
<1>8. TokenHasWork'
  <2> SUFFICES ASSUME NEW e \in active PROVE Waiting(e)' BY DEF TokenHasWork
  <2>1. Waiting(e) BY DEF TokenHasWork
  <2>2. CASE e = inc.elem /\ job[inc.job].state = "Failed" BY <1>1, <1>2, <2>2 DEF Waiting
  <2>3. CASE \E j \in Jobs : job[j].elem = e /\ job[j].state \in {"Created", "Activated"}
    BY <1>1, <1>2, <2>3 DEF Waiting
  <2>4. ASSUME NEW other \in incidents, other.elem = e,
               other.job # NoJob => job[other.job].state = "Failed",
               ~(e = inc.elem /\ job[inc.job].state = "Failed")
        PROVE  Waiting(e)'
    <3>1. other # inc
      BY <1>1, <2>4, Sentinels
    <3>2. other.job # NoJob => other.job \in Jobs /\ job[other.job].elem = e
      BY <2>4 DEF IncidentElem, TypeOK, IncidentRecord
    <3>3. other.job # NoJob => other.job # inc.job
      BY <1>1, <2>4, <3>2
    <3>4. other.job # NoJob => job'[other.job].state = "Failed"
      BY <1>2, <2>4, <3>2, <3>3
    <3> QED BY <2>4, <3>1, <3>4 DEF Waiting
  <2> QED BY <2>1, <2>2, <2>3, <2>4 DEF Waiting
<1> QED BY <1>3, <1>4, <1>5, <1>6, <1>7, <1>8

\* A new job on an element without one: the first task of a new instance, or a task
\* whose uncaught error was resolved.
LEMMA NewJobStep ==
    ASSUME TokenInv, TypeInv', NEW e \in Elems, NEW j \in Jobs, Unused(j),
           \A k \in Jobs : job[k].elem = e => job[k].state \notin InPlay,
           active' = active \cup {e}, instance'[InstanceOf[e]] \in Live,
           \A f \in active : instance'[InstanceOf[f]] \in Live,
           job' = [job EXCEPT ![j] = JobCreated(e)], incidents' \subseteq incidents,
           \A inc \in incidents' : inc.kind = "UnhandledError" => inc.elem # e,
           \A inc \in incidents : inc.elem # e => inc \in incidents'
    PROVE  TokenInv'
<1> USE DEF TokenInv, TypeInv
<1>1. /\ job'[j].elem = e /\ job'[j].state = "Created" /\ job[j].state = "None"
      /\ \A k \in Jobs : k # j => job'[k] = job[k]
  BY JobCreatedFields DEF TypeOK, Unused
<1>2. ActiveLive' BY DEF ActiveLive
<1>3. JobActive' BY <1>1 DEF JobActive, InPlay
<1>4. OneJobPerElement' BY <1>1 DEF OneJobPerElement, InPlay
<1>5. IncidentElem'
  <2> SUFFICES ASSUME NEW inc \in incidents'
               PROVE  \E k \in Jobs :
                         /\ job'[k].elem = inc.elem /\ job'[k].state # "None"
                         /\ inc.kind = "JobNoRetries" => inc.job = k
                         /\ inc.kind = "UnhandledError" => inc.job = NoJob
    BY DEF IncidentElem
  <2>1. PICK k \in Jobs : /\ job[k].elem = inc.elem /\ job[k].state # "None"
                          /\ inc.kind = "JobNoRetries" => inc.job = k
                          /\ inc.kind = "UnhandledError" => inc.job = NoJob
    BY DEF IncidentElem
  <2>2. job'[k] = job[k] BY <1>1, <2>1
  <2> QED BY <2>1, <2>2
<1>6. ErrorIncidentAlone' BY <1>1 DEF ErrorIncidentAlone, InPlay
<1>7. TokenHasWork'
  <2> SUFFICES ASSUME NEW f \in active' PROVE Waiting(f)' BY DEF TokenHasWork
  <2>1. CASE f = e BY <1>1, <2>1 DEF Waiting
  <2>2. CASE f # e
    <3>1. Waiting(f) BY <2>2 DEF TokenHasWork
    <3>2. CASE \E k \in Jobs : job[k].elem = f /\ job[k].state \in {"Created", "Activated"}
      BY <1>1, <3>2 DEF Waiting
    <3>3. ASSUME NEW inc \in incidents, inc.elem = f,
                 inc.job # NoJob => job[inc.job].state = "Failed"
          PROVE  Waiting(f)'
      <4>1. inc \in incidents' BY <2>2, <3>3
      <4>2. inc.job # NoJob => inc.job \in Jobs /\ inc.job # j
        BY <1>1, <3>3 DEF TypeOK, IncidentRecord
      <4>3. inc.job # NoJob => job'[inc.job].state = "Failed" BY <1>1, <3>3, <4>2
      <4> QED BY <3>3, <4>1, <4>3 DEF Waiting
    <3> QED BY <3>1, <3>2, <3>3 DEF Waiting
  <2> QED BY <2>1, <2>2
<1> QED BY <1>2, <1>3, <1>4, <1>5, <1>6, <1>7

\* CancelInstance: all tokens, jobs in play and incidents of the instance go.
LEMMA CancelStep ==
    ASSUME TokenInv, TypeInv', NEW i \in Instances, CancelInstance(i)
    PROVE  TokenInv'
<1> USE DEF TokenInv, TypeInv
<1>1. /\ active' = active \ ElemsOf(i)
      /\ incidents' = {inc \in incidents : InstanceOf[inc.elem] # i}
      /\ instance' = [instance EXCEPT ![i] = "Terminated"]
  BY DEF CancelInstance
<1>2. \A k \in Jobs :
         IF job[k].elem \in ElemsOf(i) /\ job[k].state \in InPlay
         THEN job'[k].elem = job[k].elem /\ job'[k].state = "Canceled"
         ELSE job'[k] = job[k]
  <2>1. job' = [k \in Jobs |-> IF k \in JobsOn(ElemsOf(i)) THEN JobCanceled(job[k]) ELSE job[k]]
    BY DEF CancelInstance
  <2>2. \A k \in Jobs : /\ JobCanceled(job[k]).elem = job[k].elem
                        /\ JobCanceled(job[k]).state = "Canceled"
    BY ApplierFields DEF TypeOK
  <2> QED BY <2>1, <2>2 DEF JobsOn
<1>3. ActiveLive' BY <1>1 DEF ActiveLive, TypeOK, ElemsOf
<1>4. JobActive' BY <1>1, <1>2 DEF JobActive, InPlay
<1>5. OneJobPerElement' BY <1>2 DEF OneJobPerElement, InPlay
<1>6. IncidentElem' BY <1>1, <1>2 DEF IncidentElem, InPlay
<1>7. ErrorIncidentAlone' BY <1>1, <1>2 DEF ErrorIncidentAlone, InPlay
<1>8. TokenHasWork'
  <2> SUFFICES ASSUME NEW e \in active' PROVE Waiting(e)' BY DEF TokenHasWork
  <2>1. Waiting(e) /\ e \notin ElemsOf(i) /\ e \in Elems
    BY <1>1 DEF TokenHasWork, TypeOK
  <2>2. CASE \E j \in Jobs : job[j].elem = e /\ job[j].state \in {"Created", "Activated"}
    BY <1>2, <2>1, <2>2 DEF Waiting
  <2>3. ASSUME NEW inc \in incidents, inc.elem = e,
               inc.job # NoJob => job[inc.job].state = "Failed"
        PROVE  Waiting(e)'
    <3>1. inc \in incidents' BY <1>1, <2>1, <2>3 DEF ElemsOf
    <3>2. inc.job # NoJob => inc.job \in Jobs /\ job[inc.job].elem = e
      BY <2>3 DEF TypeOK, IncidentRecord, IncidentElem
    <3>3. inc.job # NoJob => job'[inc.job].state = "Failed"
      BY <1>2, <2>1, <2>3, <3>2
    <3> QED BY <2>3, <3>1, <3>3 DEF Waiting
  <2> QED BY <2>1, <2>2, <2>3 DEF Waiting
<1> QED BY <1>3, <1>4, <1>5, <1>6, <1>7, <1>8

\* The teardown of a scope ends every job in play on it, and no other: the incident
\* it resolves afterwards finds the job already cancelled.
LEMMA TornDownFields ==
    ASSUME TokenInv, NEW E, NEW jobs \in [Jobs -> JobRecord],
           \A k \in Jobs : /\ jobs[k].elem = job[k].elem
                           /\ jobs[k].state = job[k].state \/ jobs[k].state \in Terminal,
           NEW k \in Jobs
    PROVE  /\ TornDown(E, jobs)[k].elem = job[k].elem
           /\ IF job[k].elem \in E /\ job[k].state \in InPlay /\ jobs[k].state \in InPlay
              THEN TornDown(E, jobs)[k].state = "Canceled"
              ELSE TornDown(E, jobs)[k].state = jobs[k].state
<1> USE DEF TokenInv, TypeInv
<1> DEFINE r == IF k \in JobsOn(E) /\ jobs[k].state \in InPlay
                THEN JobCanceled(jobs[k]) ELSE jobs[k]
<1>1. TornDown(E, jobs)[k] = IF \E inc \in incidents : inc.elem \in E /\ inc.job = k
                             THEN IncidentResolved(r) ELSE r
  BY DEF TornDown
<1>2. /\ r \in JobRecord /\ r.elem = job[k].elem
      /\ r.state = IF k \in JobsOn(E) /\ jobs[k].state \in InPlay THEN "Canceled"
                   ELSE jobs[k].state
  <2>1. jobs[k] \in JobRecord OBVIOUS
  <2>2. JobCanceled(jobs[k]) \in JobRecord BY <2>1, ApplierTypes
  <2>3. JobCanceled(jobs[k]).elem = jobs[k].elem /\ JobCanceled(jobs[k]).state = "Canceled"
    BY <2>1, ApplierFields
  <2> QED BY <2>1, <2>2, <2>3
<1>3. ASSUME NEW inc \in incidents, inc.elem \in E, inc.job = k PROVE r.state # "Failed"
  <2>1. job[k].elem \in E
    BY <1>3, Sentinels DEF IncidentElem, TypeOK, IncidentRecord
  <2>2. r.state = "Failed" => job[k].state = "Failed" /\ jobs[k].state = "Failed"
    BY <1>2 DEF Terminal
  <2> QED BY <1>2, <2>1, <2>2 DEF JobsOn, InPlay
<1>4. k \in JobsOn(E) <=> job[k].elem \in E /\ job[k].state \in InPlay
  BY DEF JobsOn
<1> HIDE DEF r
<1>5. /\ IncidentResolved(r).elem = r.elem
      /\ r.state # "Failed" => IncidentResolved(r).state = r.state
  BY <1>2, ApplierFields
<1> QED BY <1>1, <1>2, <1>3, <1>4, <1>5

-----------------------------------------------------------------------------
\* The empty engine satisfies TokenInv.
LEMMA TokenInit == Init => TokenInv
<1> SUFFICES ASSUME Init PROVE TokenInv OBVIOUS
<1>1. TypeInv BY TypeInit
<1>2. \A j \in Jobs : job[j].state = "None"
  BY DEF Init, JobCreated
<1> QED BY <1>1, <1>2 DEF Init, TokenInv, ActiveLive, JobActive, OneJobPerElement,
           IncidentElem, ErrorIncidentAlone, TokenHasWork, InPlay

\* Every step preserves TokenInv.
LEMMA TokenNext == TokenInv /\ [Next]_vars => TokenInv'
<1> SUFFICES ASSUME TokenInv, [Next]_vars PROVE TokenInv' OBVIOUS
<1>0. TypeInv /\ TypeOK /\ TypeInv'
  BY TypeNext DEF TokenInv, TypeInv
<1>1. CASE UNCHANGED vars
  BY <1>0, <1>1, QuietStep DEF vars, Quiet, TokenInv, ActiveLive
<1>2. ASSUME NEW i \in Instances, CreateInstance(i) PROVE TokenInv'
  <2>1. PICK e \in ElemsOf(i), j \in Jobs :
           /\ Fresh(e) /\ Unused(j)
           /\ active' = active \cup {e}
           /\ job' = [job EXCEPT ![j] = JobCreated(e)]
    BY <1>2 DEF CreateInstance
  <2>2. e \in Elems /\ InstanceOf[e] = i BY DEF ElemsOf
  <2>3. \A k \in Jobs : job[k].elem # e BY <2>1 DEF Fresh
  <2>4. \A inc \in incidents : inc.elem # e BY <2>3 DEF TokenInv, IncidentElem
  <2>5. instance' = [instance EXCEPT ![i] = "Active"] /\ incidents' = incidents
    BY <1>2 DEF CreateInstance
  <2>6. instance'[i] \in Live /\ \A f \in active : instance'[InstanceOf[f]] \in Live
    BY <1>0, <2>5, ConstantsAssumption DEF TypeOK, TokenInv, ActiveLive, Live
  <2> QED BY <1>0, <2>1, <2>2, <2>3, <2>4, <2>5, <2>6, NewJobStep
<1>3. ASSUME NEW i \in Instances, CancelInstance(i) PROVE TokenInv'
  BY <1>0, <1>3, CancelStep
<1>4. ASSUME NEW i \in Instances, SuspendInstance(i) PROVE TokenInv'
  <2>1. \A e \in active : instance'[InstanceOf[e]] \in Live
    BY <1>0, <1>4, ConstantsAssumption DEF SuspendInstance, TypeOK, TokenInv, ActiveLive, Live
  <2> QED BY <1>0, <1>4, <2>1, QuietStep DEF SuspendInstance, Quiet
<1>5. ASSUME NEW i \in Instances, ResumeInstance(i) PROVE TokenInv'
  <2>1. active' = active /\ job' = job /\ incidents' = incidents
    BY <1>5 DEF ResumeInstance
  <2>2. instance' = [instance EXCEPT ![i] =
            IF "Active" = "Active" /\ ElemsOf(i) \cap active' = {} THEN "Completed"
            ELSE "Active"]
    BY <1>5 DEF ResumeInstance, CompleteFinished
  <2>3. ASSUME NEW e \in active PROVE instance'[InstanceOf[e]] \in Live
    <3>1. e \in Elems /\ InstanceOf[e] \in Instances /\ instance[InstanceOf[e]] \in Live
      BY <1>0, ConstantsAssumption DEF TypeOK, TokenInv, ActiveLive
    <3>2. CASE InstanceOf[e] # i BY <1>0, <2>2, <3>1, <3>2 DEF TypeOK
    <3>3. CASE InstanceOf[e] = i
      <4>1. ElemsOf(i) \cap active' # {} BY <2>1, <3>1, <3>3 DEF ElemsOf
      <4> QED BY <1>0, <2>2, <3>1, <3>3, <4>1 DEF TypeOK, Live
    <3> QED BY <3>2, <3>3
  <2> QED BY <1>0, <2>1, <2>3, QuietStep DEF Quiet
<1>6. ASSUME NEW keys \in SUBSET Jobs, NEW timeout \in Timeouts, NEW with_lease \in BOOLEAN,
             NEW durable \in BOOLEAN, apply_activation_plan(keys, timeout, with_lease, durable)
      PROVE  TokenInv'
  <2>1. UNCHANGED <<active, instance, incidents>> BY <1>6 DEF apply_activation_plan
  <2>2. \A k \in Jobs :
           /\ job'[k].elem = job[k].elem
           /\ \/ job'[k] = job[k]
              \/ /\ job[k].state \in {"Created", "Activated"}
                 /\ job'[k].state = "Activated"
    BY <1>0, <1>6, ActivationFields
  <2> QED BY <1>0, <2>1, <2>2, QuietStep DEF Quiet, TokenInv, ActiveLive
<1>7. ASSUME NEW domains, ExpireJobs(domains) PROVE TokenInv'
  <2>1. \A k \in Jobs : job'[k] = job[k] \/ job'[k] = JobLockExpired(job[k])
    BY <1>7 DEF ExpireJobs
  <2>2. \A k \in Jobs :
           /\ JobLockExpired(job[k]).elem = job[k].elem
           /\ JobLockExpired(job[k]).state = IF job[k].state = "Activated" THEN "Created"
                                             ELSE job[k].state
    BY <1>0, ApplierFields DEF TypeOK
  <2>3. UNCHANGED <<active, instance, incidents>> BY <1>7 DEF ExpireJobs
  <2> QED BY <1>0, <2>1, <2>2, <2>3, QuietStep DEF Quiet, TokenInv, ActiveLive
<1>8. ASSUME NEW j \in Jobs, NEW token, CompleteJob(j, token) PROVE TokenInv'
  <2> DEFINE r == JobCompleted(job[j])
  <2>1. /\ job[j].state \in InPlay /\ incidents' = incidents
        /\ Advance(InstanceOf[job[j].elem], active \ {job[j].elem}, [job EXCEPT ![j] = r], {j})
    BY <1>8 DEF CompleteJob, WorkerMayResolve, InPlay
  <2>2. job[j] \in JobRecord BY <1>0 DEF TypeOK
  <2>3. r \in JobRecord /\ r.elem = job[j].elem /\ r.state \in Terminal
    BY <2>2, ApplierTypes, ApplierFields DEF Terminal
  <2> HIDE DEF r
  <2>4. [job EXCEPT ![j] = r] \in [Jobs -> JobRecord] BY <1>0, <2>3 DEF TypeOK
  <2>5. Leaving(InstanceOf[job[j].elem], {job[j].elem}, [job EXCEPT ![j] = r])
    BY <2>1, <2>3, LeavingOne
  <2> QED BY <1>0, <2>1, <2>4, <2>5, LeavingStep
<1>9. ASSUME NEW j \in Jobs, NEW token, NEW n \in RetryInputs, FailJob(j, token, n)
      PROVE  TokenInv'
  <2> DEFINE r == JobFailed(job[j], Clamp(n))
             inc == [key |-> next_local + 1, elem |-> job[j].elem, job |-> j,
                     kind |-> "JobNoRetries"]
  <2>1. Clamp(n) \in Nat BY ConstantsAssumption DEF Clamp
  <2>2. job[j] \in JobRecord BY <1>0 DEF TypeOK
  <2>3. r \in JobRecord /\ r.elem = job[j].elem
        /\ r.state = IF Clamp(n) > 0 THEN "Created" ELSE "Failed"
    BY <2>1, <2>2, ApplierTypes, ApplierFields
  <2>4. /\ job[j].state \in {"Created", "Activated"} /\ job' = [job EXCEPT ![j] = r]
        /\ UNCHANGED <<active, instance>>
        /\ IF Clamp(n) # 0 THEN incidents' = incidents ELSE incidents' = incidents \cup {inc}
    BY <1>9 DEF FailJob, WorkerMayResolve
  <2>5. inc.elem = job[j].elem /\ inc.job = j /\ inc.kind = "JobNoRetries" OBVIOUS
  <2> HIDE DEF r, inc
  <2>6. CASE Clamp(n) # 0
    <3>1. r.state = "Created" BY <2>1, <2>3, <2>6
    <3>2. Quiet
      BY <1>0, <2>3, <2>4, <2>6, <3>1 DEF Quiet, TypeOK, TokenInv, ActiveLive
    <3> QED BY <1>0, <3>2, QuietStep
  <2>7. CASE Clamp(n) = 0
    <3>1. r.state = "Failed" BY <2>3, <2>7
    <3> QED BY <1>0, <2>3, <2>4, <2>5, <2>7, <3>1, ParkStep
  <2> QED BY <2>6, <2>7
<1>10. ASSUME NEW j \in Jobs, NEW token, ThrowJobErrorCaught(j, token) PROVE TokenInv'
  <2> DEFINE r == JobErrorThrown(job[j])
  <2>1. /\ job[j].state \in InPlay /\ incidents' = incidents
        /\ Advance(InstanceOf[job[j].elem], active \ {job[j].elem}, [job EXCEPT ![j] = r], {j})
    BY <1>10 DEF ThrowJobErrorCaught, WorkerMayResolve, InPlay
  <2>2. job[j] \in JobRecord BY <1>0 DEF TypeOK
  <2>3. r \in JobRecord /\ r.elem = job[j].elem /\ r.state \in Terminal
    BY <2>2, ApplierTypes, ApplierFields DEF Terminal
  <2> HIDE DEF r
  <2>4. [job EXCEPT ![j] = r] \in [Jobs -> JobRecord] BY <1>0, <2>3 DEF TypeOK
  <2>5. Leaving(InstanceOf[job[j].elem], {job[j].elem}, [job EXCEPT ![j] = r])
    BY <2>1, <2>3, LeavingOne
  <2> QED BY <1>0, <2>1, <2>4, <2>5, LeavingStep
<1>11. ASSUME NEW j \in Jobs, NEW token, ThrowJobErrorCaughtOutside(j, token)
       PROVE  TokenInv'
  <2> DEFINE i == InstanceOf[job[j].elem]
             scope == ElemsOf(i) \cap active
             thrown == [job EXCEPT ![j] = JobErrorThrown(job[j])]
             jobs == TornDown(scope, thrown)
  <2>1. /\ job[j].state \in InPlay /\ Advance(i, active \ scope, jobs, JobsOn(scope))
        /\ incidents' = {inc \in incidents : inc.elem \notin scope}
    BY <1>11 DEF ThrowJobErrorCaughtOutside, WorkerMayResolve, InPlay
  <2>2. job[j].elem \in scope /\ i \in Instances /\ instance[i] \in Live
    BY <1>0, <2>1, ConstantsAssumption
       DEF TokenInv, JobActive, ActiveLive, ElemsOf, TypeOK
  <2>3. /\ thrown \in [Jobs -> JobRecord]
        /\ \A k \in Jobs : /\ thrown[k].elem = job[k].elem
                           /\ IF k = j THEN thrown[k].state = "Errored"
                              ELSE thrown[k].state = job[k].state
    <3>1. job[j] \in JobRecord BY <1>0 DEF TypeOK
    <3>2. /\ JobErrorThrown(job[j]) \in JobRecord /\ JobErrorThrown(job[j]).elem = job[j].elem
          /\ JobErrorThrown(job[j]).state = "Errored"
      BY <3>1, ApplierTypes, ApplierFields
    <3> QED BY <1>0, <3>2 DEF TypeOK
  <2> HIDE DEF thrown
  <2>4. \A k \in Jobs :
           /\ jobs[k].elem = job[k].elem
           /\ IF job[k].elem \in scope /\ job[k].state \in InPlay /\ thrown[k].state \in InPlay
              THEN jobs[k].state = "Canceled" ELSE jobs[k].state = thrown[k].state
    BY <2>3, TornDownFields DEF Terminal
  <2>5. jobs \in [Jobs -> JobRecord] BY <2>3, TornDownType
  <2> HIDE DEF jobs, scope, i
  <2>6. Leaving(i, scope, jobs)
    BY <2>1, <2>2, <2>3, <2>4 DEF Leaving, InPlay, Terminal
  <2> QED BY <1>0, <2>1, <2>5, <2>6, LeavingStep
<1>12. ASSUME NEW j \in Jobs, NEW token, ThrowJobErrorUnhandled(j, token) PROVE TokenInv'
  <2> DEFINE r == JobErrorThrown(job[j])
             inc == [key |-> next_local + 1, elem |-> job[j].elem, job |-> NoJob,
                     kind |-> "UnhandledError"]
  <2>1. job[j] \in JobRecord BY <1>0 DEF TypeOK
  <2>2. r \in JobRecord /\ r.elem = job[j].elem /\ r.state = "Errored"
    BY <2>1, ApplierTypes, ApplierFields
  <2>3. /\ job[j].state \in {"Created", "Activated"} /\ job' = [job EXCEPT ![j] = r]
        /\ UNCHANGED <<active, instance>> /\ incidents' = incidents \cup {inc}
    BY <1>12 DEF ThrowJobErrorUnhandled, WorkerMayResolve
  <2>4. inc.elem = job[j].elem /\ inc.job = NoJob /\ inc.kind = "UnhandledError" OBVIOUS
  <2> HIDE DEF r, inc
  <2> QED BY <1>0, <2>2, <2>3, <2>4, UnhandledStep
<1>13. ASSUME NEW j \in Jobs, NEW token, NEW r, NEW t, update_job_properties(j, token, r, t)
       PROVE  TokenInv'
  <2>1. \A k \in Jobs : job'[k].elem = job[k].elem /\ job'[k].state = job[k].state
    BY <1>0, <1>13 DEF update_job_properties, TypeOK, JobRecord
  <2>2. UNCHANGED <<active, instance, incidents>> BY <1>13 DEF update_job_properties
  <2> QED BY <1>0, <2>1, <2>2, QuietStep DEF Quiet, TokenInv, ActiveLive
<1>14. ASSUME NEW inc \in incidents, ResolveJobIncident(inc) PROVE TokenInv'
  BY <1>0, <1>14, UnparkStep DEF ResolveJobIncident
<1>15. ASSUME NEW inc \in incidents, ResolveErrorIncident(inc) PROVE TokenInv'
  <2>1. /\ inc.kind = "UnhandledError" /\ incidents' = incidents \ {inc}
        /\ UNCHANGED <<active, instance>>
    BY <1>15 DEF ResolveErrorIncident
  <2>2. CASE inc.elem \in active
    <3>1. PICK j \in Jobs : Unused(j) /\ job' = [job EXCEPT ![j] = JobCreated(inc.elem)]
      BY <1>15, <2>2 DEF ResolveErrorIncident
    <3>2. /\ \A k \in Jobs : job[k].elem = inc.elem => job[k].state \notin InPlay
          /\ \A other \in incidents' : other.kind = "UnhandledError" => other.elem # inc.elem
      BY <2>1, <2>2 DEF TokenInv, ErrorIncidentAlone
    <3>3. active' = active \cup {inc.elem} /\ inc.elem \in Elems
      BY <1>0, <2>1, <2>2 DEF TypeOK
    <3>4. \A f \in active' : instance'[InstanceOf[f]] \in Live
      BY <2>1 DEF TokenInv, ActiveLive
    <3> QED BY <1>0, <2>1, <3>1, <3>2, <3>3, <3>4, NewJobStep
  <2>3. CASE inc.elem \notin active
    <3>1. job' = job BY <1>15, <2>3 DEF ResolveErrorIncident
    <3>2. TokenHasWork'
      <4> SUFFICES ASSUME NEW e \in active PROVE Waiting(e)' BY <2>1 DEF TokenHasWork
      <4>1. Waiting(e) /\ e # inc.elem BY <2>3 DEF TokenInv, TokenHasWork
      <4> QED BY <2>1, <3>1, <4>1 DEF Waiting
    <3> QED BY <1>0, <2>1, <3>1, <3>2
            DEF TokenInv, ActiveLive, JobActive, OneJobPerElement, IncidentElem,
                ErrorIncidentAlone
  <2> QED BY <2>2, <2>3
<1>16. ASSUME NEW e \in Elems, InterruptByTimer(e) PROVE TokenInv'
  <2> DEFINE jobs == [j \in Jobs |-> IF j \in JobsOn({e}) THEN JobCanceled(job[j]) ELSE job[j]]
  <2>1. /\ e \in active /\ incidents' = incidents
        /\ Advance(InstanceOf[e], active \ {e}, jobs, JobsOn({e}))
    BY <1>16 DEF InterruptByTimer
  <2>2. InstanceOf[e] \in Instances /\ instance[InstanceOf[e]] \in Live
    BY <2>1, ConstantsAssumption DEF TokenInv, ActiveLive
  <2>3. \A k \in Jobs :
           IF job[k].elem = e /\ job[k].state \in InPlay
           THEN jobs[k].elem = job[k].elem /\ jobs[k].state = "Canceled"
           ELSE jobs[k] = job[k]
    BY <1>0, ApplierFields DEF TypeOK, JobsOn
  <2>4. jobs \in [Jobs -> JobRecord] BY <1>0, ApplierTypes DEF TypeOK
  <2> HIDE DEF jobs
  <2>5. Leaving(InstanceOf[e], {e}, jobs)
    BY <2>1, <2>2, <2>3 DEF Leaving, InPlay, Terminal
  <2> QED BY <1>0, <2>1, <2>4, <2>5, LeavingStep
<1>17. ASSUME NEW e \in Elems, SpawnByTimer(e) PROVE TokenInv'
  <2>1. e \in active /\ incidents' = incidents /\ Advance(InstanceOf[e], active \ {}, job, {})
    BY <1>17 DEF SpawnByTimer
  <2>2. InstanceOf[e] \in Instances /\ instance[InstanceOf[e]] \in Live
    BY <2>1, ConstantsAssumption DEF TokenInv, ActiveLive
  <2>3. Leaving(InstanceOf[e], {}, job) BY <2>1, <2>2 DEF Leaving
  <2>4. job \in [Jobs -> JobRecord] BY <1>0 DEF TypeOK
  <2> QED BY <1>0, <2>1, <2>3, <2>4, LeavingStep
<1>18. ASSUME NEW j \in Jobs, NEW d \in DigestDeadlines, recover_lease(j, d) PROVE TokenInv'
  <2>1. UNCHANGED <<active, instance, incidents>> BY <1>18 DEF recover_lease
  <2>2. \A k \in Jobs : /\ job'[k].elem = job[k].elem
                        /\ \/ job'[k].state = job[k].state
                           \/ job[k].state = "Created" /\ job'[k].state = "Activated"
    BY <1>0, <1>18 DEF recover_lease, LeaseRecovered, TypeOK, JobRecord
  <2> QED BY <1>0, <2>1, <2>2, QuietStep DEF Quiet, TokenInv, ActiveLive
<1>19. CASE Tick
  BY <1>0, <1>19, QuietStep DEF Tick, Quiet, TokenInv, ActiveLive
<1> QED
  BY <1>0, <1>1, <1>2, <1>3, <1>4, <1>5, <1>6, <1>7, <1>8, <1>9, <1>10, <1>11, <1>12, <1>13,
     <1>14, <1>15, <1>16, <1>17, <1>18, <1>19, NextCases

\* TokenInv holds in every reachable state.
LEMMA TokenInvariant == Spec => []TokenInv
BY TokenInit, TokenNext, PTL DEF Spec

\* No token is ever stranded: in every reachable state of every engine an active
\* service task has a job to take or an incident to resolve (FailJob,
\* ThrowJobError, ResolveIncident, boundary interruption, cancellation).
THEOREM NoStrandedToken == Spec => []TokenHasWork
<1>1. TokenInv => TokenHasWork BY DEF TokenInv
<1> QED BY <1>1, TokenInvariant, PTL

\* No worker ever holds, or can take, a job whose token is gone or whose instance
\* has ended.
THEOREM NoOrphanJob == Spec => []JobHasToken
<1>1. TokenInv => JobHasToken
  BY DEF TokenInv, JobHasToken, JobActive, ActiveLive
<1> QED BY <1>1, TokenInvariant, PTL

\* At most one job per element instance is in play, as active_job_on assumes.
THEOREM SingleJob == Spec => []OneJobPerElement
<1>1. TokenInv => OneJobPerElement BY DEF TokenInv
<1> QED BY <1>1, TokenInvariant, PTL

-----------------------------------------------------------------------------
(***************************************************************************)
(* Leases and finality: the token a job stores is the newest issued for it *)
(* and nobody else's; a lock in the durable domain keeps its token; a job  *)
(* that ended stays ended; and the indices that polls and expiry walk name *)
(* the jobs they must name.                                                *)
(***************************************************************************)
\* What the fence needs of the history: tokens come from the allocator, and no two
\* jobs were last issued the same one.
IssuedDistinct ==
    /\ \A j \in Jobs : issued[j] <= next_local
    /\ \A j, k \in Jobs : j # k /\ issued[j] # NoToken => issued[j] # issued[k]

\* A stored token is the newest one issued for its job.
StoredIsNewest == \A j \in Jobs : job[j].token # NoToken => job[j].token = issued[j]

LeaseInv == TypeInv /\ IssuedDistinct /\ StoredIsNewest

-----------------------------------------------------------------------------
\* A step that issues no token keeps the invariant, as long as a job's token is
\* kept or dropped.
LEMMA NoIssueStep ==
    ASSUME LeaseInv, TypeInv', issued' = issued, next_local' >= next_local,
           \A k \in Jobs : job'[k].token = job[k].token \/ job'[k].token = NoToken
    PROVE  LeaseInv'
<1> USE DEF LeaseInv
<1>1. IssuedDistinct' BY DEF IssuedDistinct, TypeInv, TypeOK
<1>2. StoredIsNewest' BY DEF StoredIsNewest
<1> QED BY <1>1, <1>2

\* A plan issues tokens above all earlier ones, one per granted job.
LEMMA IssueStep ==
    ASSUME LeaseInv, TypeInv', NEW keys \in SUBSET Jobs, NEW timeout \in Timeouts,
           NEW with_lease \in BOOLEAN, NEW durable \in BOOLEAN,
           apply_activation_plan(keys, timeout, with_lease, durable)
    PROVE  LeaseInv'
<1> USE DEF LeaseInv, TypeInv
<1> DEFINE granted == {j \in keys : PlanGrants(j, with_lease)}
           token(j) == IF with_lease THEN Issue(j, granted) ELSE NoToken
<1>1. granted \in SUBSET Jobs /\ IsFiniteSet(granted) /\ Cardinality(granted) \in Nat
  BY ConstantsAssumption, FS_Subset, FS_CardinalityType
<1>2. /\ job' = [j \in Jobs |-> IF j \in granted
                                THEN JobActivated(job[j], now + timeout, token(j), durable)
                                ELSE job[j]]
      /\ issued' = [j \in Jobs |-> IF j \in granted /\ with_lease THEN token(j) ELSE issued[j]]
      /\ next_local' = next_local + (IF with_lease THEN Cardinality(granted) ELSE 0)
  BY DEF apply_activation_plan
<1>3. \A j \in granted : with_lease =>
         token(j) > next_local /\ token(j) <= next_local + Cardinality(granted)
         /\ token(j) \in Nat
  <2> SUFFICES ASSUME NEW j \in granted, with_lease
               PROVE  /\ Issue(j, granted) > next_local
                      /\ Issue(j, granted) <= next_local + Cardinality(granted)
                      /\ Issue(j, granted) \in Nat
    OBVIOUS
  <2>1. Rank(j, granted) \in 1..Cardinality(granted) BY <1>1, RankRange
  <2> QED BY <1>1, <2>1 DEF Issue, TypeOK
<1>4. \A j, k \in granted : with_lease /\ j # k => token(j) # token(k)
  <2> SUFFICES ASSUME NEW j \in granted, NEW k \in granted, with_lease, j # k
               PROVE  Issue(j, granted) # Issue(k, granted)
    OBVIOUS
  <2>1. Rank(j, granted) # Rank(k, granted) BY <1>1, RankInjective
  <2>2. /\ Rank(j, granted) \in 1..Cardinality(granted)
        /\ Rank(k, granted) \in 1..Cardinality(granted)
    BY <1>1, RankRange
  <2> QED BY <1>1, <2>1, <2>2 DEF Issue, TypeOK
<1>5. \A j \in granted : JobActivated(job[j], now + timeout, token(j), durable).token = token(j)
  BY <1>1 DEF JobActivated, TypeOK, JobRecord
<1>6. ~with_lease => \A j \in granted : token(j) = NoToken
  OBVIOUS
<1> HIDE DEF granted, token
<1>7. IssuedDistinct'
  <2>1. CASE with_lease
    BY <1>1, <1>2, <1>3, <1>4, <2>1 DEF IssuedDistinct, TypeOK
  <2>2. CASE ~with_lease
    BY <1>1, <1>2, <2>2 DEF IssuedDistinct, TypeOK
  <2> QED BY <2>1, <2>2
<1>8. StoredIsNewest'
  BY <1>1, <1>2, <1>5, <1>6 DEF StoredIsNewest, TypeOK
<1> QED BY <1>7, <1>8

\* The drain keeps or drops tokens.
LEMMA AdvanceTokens ==
    ASSUME TypeOK, NEW i, NEW remaining, NEW jobs \in [Jobs -> JobRecord], NEW S,
           Advance(i, remaining, jobs, S),
           \A k \in Jobs : jobs[k].token = job[k].token \/ jobs[k].token = NoToken
    PROVE  \A k \in Jobs : job'[k].token = job[k].token \/ job'[k].token = NoToken
<1>1. ASSUME NEW e \in ElemsOf(i), NEW j \in Jobs, job' = [jobs EXCEPT ![j] = JobCreated(e)]
      PROVE  \A k \in Jobs : job'[k].token = job[k].token \/ job'[k].token = NoToken
  BY <1>1, JobCreatedFields
<1> QED BY <1>1 DEF Advance

\* So does a teardown: a job keeps its token or loses it, and a lock keeps it.
LEMMA TornDownTokens ==
    ASSUME NEW E, NEW jobs \in [Jobs -> JobRecord], NEW k \in Jobs
    PROVE  \/ TornDown(E, jobs)[k].token = jobs[k].token
           \/ /\ TornDown(E, jobs)[k].token = NoToken
              /\ TornDown(E, jobs)[k].state # "Activated"
<1> DEFINE r == IF k \in JobsOn(E) /\ jobs[k].state \in InPlay
                THEN JobCanceled(jobs[k]) ELSE jobs[k]
<1>1. TornDown(E, jobs)[k] = IF \E inc \in incidents : inc.elem \in E /\ inc.job = k
                             THEN IncidentResolved(r) ELSE r
  BY DEF TornDown
<1>2. /\ r \in JobRecord
      /\ r.token = jobs[k].token \/ (r.token = NoToken /\ r.state = "Canceled")
  <2>1. jobs[k] \in JobRecord OBVIOUS
  <2>2. JobCanceled(jobs[k]) \in JobRecord BY <2>1, ApplierTypes
  <2>3. JobCanceled(jobs[k]).token = NoToken /\ JobCanceled(jobs[k]).state = "Canceled"
    BY <2>1, ApplierFields
  <2> QED BY <2>1, <2>2, <2>3
<1> HIDE DEF r
<1>3. /\ IncidentResolved(r).token = IF r.state = "Failed" THEN NoToken ELSE r.token
      /\ IncidentResolved(r).state = IF r.state = "Failed" THEN "Created" ELSE r.state
  BY <1>2, ApplierFields
<1> QED BY <1>1, <1>2, <1>3

\* The empty engine satisfies LeaseInv: no token has been issued.
LEMMA LeaseInit == Init => LeaseInv
<1> SUFFICES ASSUME Init PROVE LeaseInv OBVIOUS
<1>1. \A j \in Jobs : job[j].token = NoToken BY DEF Init, JobCreated
<1> QED BY <1>1, TypeInit, ConstantsAssumption
        DEF Init, LeaseInv, IssuedDistinct, StoredIsNewest, NoToken

\* Every step preserves LeaseInv.
LEMMA LeaseNext == LeaseInv /\ [Next]_vars => LeaseInv'
<1> SUFFICES ASSUME LeaseInv, [Next]_vars PROVE LeaseInv' OBVIOUS
<1>0. TypeInv /\ TypeOK /\ TypeInv' /\ next_local \in Nat
  BY TypeNext DEF LeaseInv, TypeInv, TypeOK
<1>a. \A k \in Jobs : job[k] \in JobRecord
  BY <1>0 DEF TypeOK
<1> DEFINE Kept == \A k \in Jobs : job'[k].token = job[k].token \/ job'[k].token = NoToken
<1>b. Kept /\ issued' = issued /\ next_local' >= next_local => LeaseInv'
  BY <1>0, NoIssueStep
<1> HIDE DEF Kept
<1>c. job' = job => Kept BY DEF Kept
<1>d. next_local' = next_local => next_local' >= next_local BY <1>0
<1>1. CASE UNCHANGED vars
  BY <1>1, <1>b, <1>c, <1>d DEF vars
<1>2. ASSUME NEW i \in Instances, CreateInstance(i) PROVE LeaseInv'
  <2>1. PICK e \in ElemsOf(i), j \in Jobs : job' = [job EXCEPT ![j] = JobCreated(e)]
    BY <1>2 DEF CreateInstance
  <2>2. Kept BY <1>0, <2>1, JobCreatedFields DEF Kept, TypeOK
  <2> QED BY <1>2, <2>2, <1>b, <1>d DEF CreateInstance
<1>3. ASSUME NEW i \in Instances, CancelInstance(i) PROVE LeaseInv'
  <2>1. \A k \in Jobs : job'[k] = job[k] \/ job'[k] = JobCanceled(job[k])
    BY <1>3 DEF CancelInstance
  <2>2. \A k \in Jobs : JobCanceled(job[k]).token = NoToken BY <1>a, ApplierFields
  <2>3. Kept BY <2>1, <2>2 DEF Kept
  <2> QED BY <1>3, <2>3, <1>b, <1>d DEF CancelInstance
<1>4. ASSUME NEW i \in Instances, SuspendInstance(i) \/ ResumeInstance(i) PROVE LeaseInv'
  BY <1>4, <1>b, <1>c, <1>d DEF SuspendInstance, ResumeInstance
<1>5. ASSUME NEW keys \in SUBSET Jobs, NEW timeout \in Timeouts, NEW with_lease \in BOOLEAN,
             NEW durable \in BOOLEAN, apply_activation_plan(keys, timeout, with_lease, durable)
      PROVE  LeaseInv'
  BY <1>0, <1>5, IssueStep
<1>6. ASSUME NEW domains, ExpireJobs(domains) PROVE LeaseInv'
  <2>1. \A k \in Jobs : job'[k] = job[k] \/ job'[k] = JobLockExpired(job[k])
    BY <1>6 DEF ExpireJobs
  <2>2. \A k \in Jobs : JobLockExpired(job[k]).token = job[k].token BY <1>a, ApplierFields
  <2>3. Kept BY <2>1, <2>2 DEF Kept
  <2> QED BY <1>6, <2>3, <1>b, <1>d DEF ExpireJobs
<1>7. ASSUME NEW j \in Jobs, NEW token, CompleteJob(j, token) \/ ThrowJobErrorCaught(j, token)
      PROVE  LeaseInv'
  <2>1. PICK r \in {JobCompleted(job[j]), JobErrorThrown(job[j])} :
           Advance(InstanceOf[job[j].elem], active \ {job[j].elem}, [job EXCEPT ![j] = r], {j})
    BY <1>7 DEF CompleteJob, ThrowJobErrorCaught
  <2>2. r \in JobRecord /\ (r.token = job[j].token \/ r.token = NoToken)
    <3>1. JobCompleted(job[j]) \in JobRecord /\ JobErrorThrown(job[j]) \in JobRecord
      BY <1>a, ApplierTypes
    <3>2. JobCompleted(job[j]).token = job[j].token /\ JobErrorThrown(job[j]).token = NoToken
      BY <1>a, ApplierFields
    <3> QED BY <3>1, <3>2
  <2> DEFINE jobs == [job EXCEPT ![j] = r]
  <2>3. /\ jobs \in [Jobs -> JobRecord]
        /\ \A k \in Jobs : jobs[k].token = job[k].token \/ jobs[k].token = NoToken
    BY <1>0, <2>2 DEF TypeOK
  <2>4. Kept BY <1>0, <2>1, <2>3, AdvanceTokens DEF Kept
  <2> QED BY <1>7, <2>4, <1>b, <1>d DEF CompleteJob, ThrowJobErrorCaught
<1>8. ASSUME NEW j \in Jobs, NEW token, NEW n \in RetryInputs, FailJob(j, token, n)
      PROVE  LeaseInv'
  <2>1. Clamp(n) \in Nat BY ConstantsAssumption DEF Clamp
  <2>2. JobFailed(job[j], Clamp(n)).token = job[j].token BY <1>a, <2>1, ApplierFields
  <2>3. job' = [job EXCEPT ![j] = JobFailed(job[j], Clamp(n))] BY <1>8 DEF FailJob
  <2>4. Kept BY <1>0, <2>2, <2>3 DEF Kept, TypeOK
  <2>5. next_local' >= next_local BY <1>0, <1>8 DEF FailJob
  <2> QED BY <1>8, <2>4, <2>5, <1>b DEF FailJob
<1>9. ASSUME NEW j \in Jobs, NEW token, ThrowJobErrorCaughtOutside(j, token) PROVE LeaseInv'
  <2> DEFINE i == InstanceOf[job[j].elem]
             scope == ElemsOf(i) \cap active
             thrown == [job EXCEPT ![j] = JobErrorThrown(job[j])]
             jobs == TornDown(scope, thrown)
  <2>1. Advance(i, active \ scope, jobs, JobsOn(scope))
    BY <1>9 DEF ThrowJobErrorCaughtOutside
  <2>2. JobErrorThrown(job[j]) \in JobRecord BY <1>a, ApplierTypes
  <2>3. JobErrorThrown(job[j]).token = NoToken BY <1>a, ApplierFields
  <2>4. /\ thrown \in [Jobs -> JobRecord]
        /\ \A k \in Jobs : thrown[k].token = job[k].token \/ thrown[k].token = NoToken
    BY <1>0, <2>2, <2>3 DEF TypeOK
  <2> HIDE DEF thrown
  <2>5. jobs \in [Jobs -> JobRecord] BY <2>4, TornDownType
  <2>6. \A k \in Jobs : jobs[k].token = job[k].token \/ jobs[k].token = NoToken
    BY <2>4, TornDownTokens
  <2> HIDE DEF jobs, scope, i
  <2>7. Kept BY <1>0, <2>1, <2>5, <2>6, AdvanceTokens DEF Kept
  <2> QED BY <1>9, <2>7, <1>b, <1>d DEF ThrowJobErrorCaughtOutside
<1>10. ASSUME NEW j \in Jobs, NEW token, ThrowJobErrorUnhandled(j, token) PROVE LeaseInv'
  <2>1. JobErrorThrown(job[j]).token = NoToken BY <1>a, ApplierFields
  <2>2. job' = [job EXCEPT ![j] = JobErrorThrown(job[j])] BY <1>10 DEF ThrowJobErrorUnhandled
  <2>3. Kept BY <1>0, <2>1, <2>2 DEF Kept, TypeOK
  <2>4. next_local' >= next_local BY <1>0, <1>10 DEF ThrowJobErrorUnhandled
  <2> QED BY <1>10, <2>3, <2>4, <1>b DEF ThrowJobErrorUnhandled
<1>11. ASSUME NEW j \in Jobs, NEW token, NEW r, NEW t, update_job_properties(j, token, r, t)
       PROVE  LeaseInv'
  <2>1. Kept BY <1>0, <1>11 DEF update_job_properties, TypeOK, JobRecord, Kept
  <2> QED BY <1>11, <2>1, <1>b, <1>d DEF update_job_properties
<1>12. ASSUME NEW inc \in incidents, ResolveJobIncident(inc) PROVE LeaseInv'
  <2>1. job' = [job EXCEPT ![inc.job] = IncidentResolved(job[inc.job])]
    BY <1>12 DEF ResolveJobIncident
  <2>2. CASE inc.job \in Jobs
    <3>1. IncidentResolved(job[inc.job]).token =
             IF job[inc.job].state = "Failed" THEN NoToken ELSE job[inc.job].token
      BY <1>a, <2>2, ApplierFields
    <3>2. Kept BY <1>0, <2>1, <2>2, <3>1 DEF Kept, TypeOK
    <3> QED BY <1>12, <3>2, <1>b, <1>d DEF ResolveJobIncident
  <2>3. CASE inc.job \notin Jobs
    <3>1. Kept BY <1>0, <2>1, <2>3 DEF Kept, TypeOK
    <3> QED BY <1>12, <3>1, <1>b, <1>d DEF ResolveJobIncident
  <2> QED BY <2>2, <2>3
<1>13. ASSUME NEW inc \in incidents, ResolveErrorIncident(inc) PROVE LeaseInv'
  <2>1. job' = job \/ \E j \in Jobs : job' = [job EXCEPT ![j] = JobCreated(inc.elem)]
    BY <1>13 DEF ResolveErrorIncident
  <2>2. Kept BY <1>0, <2>1, JobCreatedFields DEF Kept, TypeOK
  <2> QED BY <1>13, <2>2, <1>b, <1>d DEF ResolveErrorIncident
<1>14. ASSUME NEW e \in Elems, InterruptByTimer(e) PROVE LeaseInv'
  <2> DEFINE jobs == [j \in Jobs |-> IF j \in JobsOn({e}) THEN JobCanceled(job[j]) ELSE job[j]]
  <2>1. Advance(InstanceOf[e], active \ {e}, jobs, JobsOn({e})) BY <1>14 DEF InterruptByTimer
  <2>2. jobs \in [Jobs -> JobRecord] BY <1>a, ApplierTypes
  <2>3. \A k \in Jobs : jobs[k].token = job[k].token \/ jobs[k].token = NoToken
    BY <1>a, ApplierFields
  <2> HIDE DEF jobs
  <2>4. Kept BY <1>0, <2>1, <2>2, <2>3, AdvanceTokens DEF Kept
  <2> QED BY <1>14, <2>4, <1>b, <1>d DEF InterruptByTimer
<1>15. ASSUME NEW e \in Elems, SpawnByTimer(e) PROVE LeaseInv'
  <2>1. Advance(InstanceOf[e], active, job, {}) BY <1>15 DEF SpawnByTimer
  <2>2. job \in [Jobs -> JobRecord] BY <1>0 DEF TypeOK
  <2>3. Kept BY <1>0, <2>1, <2>2, AdvanceTokens DEF Kept
  <2> QED BY <1>15, <2>3, <1>b, <1>d DEF SpawnByTimer
<1>16. ASSUME NEW j \in Jobs, NEW d \in DigestDeadlines, recover_lease(j, d) PROVE LeaseInv'
  <2>1. Kept BY <1>0, <1>16 DEF recover_lease, LeaseRecovered, TypeOK, JobRecord, Kept
  <2> QED BY <1>16, <2>1, <1>b, <1>d DEF recover_lease
<1>17. CASE Tick
  BY <1>17, <1>b, <1>c, <1>d DEF Tick
<1> QED
  BY <1>0, <1>1, <1>2, <1>3, <1>4, <1>5, <1>6, <1>7, <1>8, <1>9, <1>10, <1>11, <1>12, <1>13,
     <1>14, <1>15, <1>16, <1>17, NextCases

\* The lease fence holds in every reachable state, whatever the number of jobs,
\* polls and replicated plans: the token apply_activation_plan stores is the
\* newest for its job, and no other job was last issued it.
THEOREM FenceHolds == Spec => []LeaseFence
<1>1. LeaseInv => LeaseFence
  BY DEF LeaseInv, LeaseFence, IssuedDistinct, StoredIsNewest
<1>2. Spec => []LeaseInv
  BY LeaseInit, LeaseNext, PTL DEF Spec
<1> QED BY <1>1, <1>2, PTL
-----------------------------------------------------------------------------
(***************************************************************************)
(* Finality, locks and indices: what one command does to the jobs, and     *)
(* which of them it puts back into the indices.                            *)
(***************************************************************************)
\* A lock of the durable domain is out.
Locked(k) == job[k].state = "Activated" /\ job_requires_durable_activation(k)

\* From job to jobs: what has ended stays ended, a durable lock that stays a lock
\* keeps its token, and only the states of the jobs in S change.
Moved(jobs, S) ==
    \A k \in Jobs :
        /\ job[k].state \in Terminal => jobs[k].state = job[k].state
        /\ Locked(k) /\ jobs[k].state = "Activated" => jobs[k].token = job[k].token
        /\ k \notin S => jobs[k].state = job[k].state

\* A soft lock comes back from a digest; it stays in the index of polls as well.
Recovered ==
    \E j \in Jobs : /\ job[j].state = "Created" /\ job'[j].state = "Activated"
                    /\ \A k \in Jobs \ {j} : job'[k] = job[k]
                    /\ activated_jobs' = activated_jobs \cup {j}
                    /\ activatable_jobs' = activatable_jobs

\* Every command either re-indexes all the jobs whose state it changes, or restores
\* one soft lock.
JobStep == Recovered \/ \E S \in SUBSET Jobs : Moved(job', S) /\ Resync(S)

\* No job moves when none of the engine's job state does.
LEMMA StillStep ==
    ASSUME job' = job, UNCHANGED indices
    PROVE  JobStep
<1>1. Moved(job', {}) BY DEF Moved
<1>2. Resync({}) BY DEF Resync, indices
<1> QED BY <1>1, <1>2 DEF JobStep

\* A new job takes a key nobody used, so creating it disturbs no other.
LEMMA CreatedMove ==
    ASSUME TypeOK, NEW j \in Jobs, Unused(j), NEW e, NEW S, NEW jobs \in [Jobs -> JobRecord],
           Moved(jobs, S)
    PROVE  Moved([jobs EXCEPT ![j] = JobCreated(e)], S \cup {j})
<1>1. job[j].state = "None" BY DEF Unused
<1>2. JobCreated(e).state = "Created" BY JobCreatedFields
<1> QED BY <1>1, <1>2 DEF Moved, Locked, Terminal

\* The drain re-indexes the jobs it was told of and the one it creates.
LEMMA AdvanceMove ==
    ASSUME TypeOK, NEW i, NEW remaining, NEW jobs \in [Jobs -> JobRecord],
           NEW S \in SUBSET Jobs, Advance(i, remaining, jobs, S), Moved(jobs, S)
    PROVE  JobStep
<1>1. CASE job' = jobs /\ Resync(S)
  BY <1>1 DEF JobStep
<1>2. ASSUME NEW e \in ElemsOf(i), NEW j \in Jobs, Unused(j),
             job' = [jobs EXCEPT ![j] = JobCreated(e)], Resync(S \cup {j})
      PROVE  JobStep
  <2>1. Moved(job', S \cup {j}) BY <1>2, CreatedMove
  <2>2. S \cup {j} \in SUBSET Jobs OBVIOUS
  <2> QED BY <1>2, <2>1, <2>2 DEF JobStep
<1> QED BY <1>1, <1>2 DEF Advance

\* A plan grants no durable lock that is out, and re-indexes what it grants.
LEMMA ActivationMove ==
    ASSUME TypeOK, NEW keys \in SUBSET Jobs, NEW timeout \in Timeouts,
           NEW with_lease \in BOOLEAN, NEW durable \in BOOLEAN,
           apply_activation_plan(keys, timeout, with_lease, durable)
    PROVE  JobStep
<1> DEFINE granted == {j \in keys : PlanGrants(j, with_lease)}
           token(j) == IF with_lease THEN Issue(j, granted) ELSE NoToken
<1>1. /\ job' = [j \in Jobs |-> IF j \in granted
                                THEN JobActivated(job[j], now + timeout, token(j), durable)
                                ELSE job[j]]
      /\ Resync(granted)
  BY DEF apply_activation_plan
<1>2. granted \in SUBSET Jobs OBVIOUS
<1>3. \A j \in granted : ~Locked(j) /\ job[j].state \notin Terminal
  BY DEF PlanGrants, Locked, Terminal
<1> HIDE DEF granted, token
<1>4. Moved(job', granted) BY <1>1, <1>3 DEF Moved
<1> QED BY <1>1, <1>2, <1>4 DEF JobStep

\* Every step of the engine is such a step.
LEMMA JobSteps == TokenInv /\ [Next]_vars => JobStep
<1> SUFFICES ASSUME TokenInv, [Next]_vars PROVE JobStep OBVIOUS
<1>0. TypeInv /\ TypeOK /\ job \in [Jobs -> JobRecord] BY DEF TokenInv, TypeInv, TypeOK
<1>a. \A k \in Jobs : job[k] \in JobRecord BY <1>0
<1>b. Moved(job, {}) BY DEF Moved
<1>c. ASSUME NEW j \in Jobs, NEW r \in JobRecord, job[j].state \notin Terminal,
             r.state # "Activated" \/ r.token = job[j].token
      PROVE  Moved([job EXCEPT ![j] = r], {j})
  BY <1>0, <1>c DEF Moved
<1>d. ASSUME NEW j \in Jobs, NEW r \in JobRecord, job[j].state \notin Terminal,
             r.state # "Activated" \/ r.token = job[j].token,
             job' = [job EXCEPT ![j] = r], Resync({j})
      PROVE  JobStep
  BY <1>c, <1>d DEF JobStep
<1>1. CASE UNCHANGED vars
  BY <1>1, StillStep DEF vars, indices
<1>2. ASSUME NEW i \in Instances, CreateInstance(i) PROVE JobStep
  <2>1. PICK e \in ElemsOf(i), j \in Jobs :
           Unused(j) /\ job' = [job EXCEPT ![j] = JobCreated(e)] /\ Resync({j})
    BY <1>2 DEF CreateInstance
  <2>2. Moved([job EXCEPT ![j] = JobCreated(e)], {} \cup {j})
    BY <1>0, <1>b, <2>1, CreatedMove
  <2>3. {} \cup {j} = {j} OBVIOUS
  <2> QED BY <2>1, <2>2, <2>3 DEF JobStep
<1>3. ASSUME NEW i \in Instances, CancelInstance(i) PROVE JobStep
  <2> DEFINE S == JobsOn(ElemsOf(i))
  <2>1. /\ job' = [k \in Jobs |-> IF k \in S THEN JobCanceled(job[k]) ELSE job[k]]
        /\ Resync(S)
    BY <1>3 DEF CancelInstance
  <2>2. S \in SUBSET Jobs /\ \A k \in S : job[k].state \notin Terminal
    BY DEF JobsOn, InPlay, Terminal
  <2>3. \A k \in Jobs : JobCanceled(job[k]).state = "Canceled" BY <1>a, ApplierFields
  <2> HIDE DEF S
  <2>4. Moved(job', S) BY <2>1, <2>2, <2>3 DEF Moved
  <2> QED BY <2>1, <2>2, <2>4 DEF JobStep
<1>4. ASSUME NEW i \in Instances, SuspendInstance(i) \/ ResumeInstance(i) PROVE JobStep
  BY <1>4, StillStep DEF SuspendInstance, ResumeInstance
<1>5. ASSUME NEW keys \in SUBSET Jobs, NEW timeout \in Timeouts, NEW with_lease \in BOOLEAN,
             NEW durable \in BOOLEAN, apply_activation_plan(keys, timeout, with_lease, durable)
      PROVE  JobStep
  BY <1>0, <1>5, ActivationMove
<1>6. ASSUME NEW domains, ExpireJobs(domains) PROVE JobStep
  <2> DEFINE S == {j \in activated_jobs : /\ job[j].state = "Activated"
                                          /\ job[j].deadline <= now
                                          /\ job_requires_durable_activation(j) \in domains}
  <2>1. /\ job' = [k \in Jobs |-> IF k \in S THEN JobLockExpired(job[k]) ELSE job[k]]
        /\ Resync(S)
    BY <1>6 DEF ExpireJobs
  <2>2. S \in SUBSET Jobs /\ \A k \in S : job[k].state = "Activated" BY <1>0 DEF TypeOK
  <2>3. \A k \in S : JobLockExpired(job[k]).state = "Created" BY <1>a, <2>2, ApplierFields
  <2> HIDE DEF S
  <2>4. Moved(job', S) BY <2>1, <2>2, <2>3 DEF Moved, Terminal
  <2> QED BY <2>1, <2>2, <2>4 DEF JobStep
<1>7. ASSUME NEW j \in Jobs, NEW token, CompleteJob(j, token) \/ ThrowJobErrorCaught(j, token)
      PROVE  JobStep
  <2>1. PICK r \in {JobCompleted(job[j]), JobErrorThrown(job[j])} :
           Advance(InstanceOf[job[j].elem], active \ {job[j].elem}, [job EXCEPT ![j] = r], {j})
    BY <1>7 DEF CompleteJob, ThrowJobErrorCaught
  <2>2. r \in JobRecord /\ r.state # "Activated" BY <1>a, ApplierTypes, ApplierFields
  <2>3. job[j].state \notin Terminal
    BY <1>7 DEF CompleteJob, ThrowJobErrorCaught, WorkerMayResolve, Terminal
  <2>4. Moved([job EXCEPT ![j] = r], {j}) BY <1>c, <2>2, <2>3
  <2>5. [job EXCEPT ![j] = r] \in [Jobs -> JobRecord] BY <1>0, <2>2
  <2>6. {j} \in SUBSET Jobs OBVIOUS
  <2> QED BY <1>0, <2>1, <2>4, <2>5, <2>6, AdvanceMove
<1>8. ASSUME NEW j \in Jobs, NEW token, NEW n \in RetryInputs, FailJob(j, token, n)
      PROVE  JobStep
  <2>1. Clamp(n) \in Nat BY ConstantsAssumption DEF Clamp
  <2>2. /\ JobFailed(job[j], Clamp(n)) \in JobRecord
        /\ JobFailed(job[j], Clamp(n)).token = job[j].token
    BY <1>a, <2>1, ApplierTypes, ApplierFields
  <2> QED BY <1>8, <1>d, <2>2 DEF FailJob, WorkerMayResolve, Terminal
<1>9. ASSUME NEW j \in Jobs, NEW token, ThrowJobErrorCaughtOutside(j, token) PROVE JobStep
  <2> DEFINE i == InstanceOf[job[j].elem]
             scope == ElemsOf(i) \cap active
             thrown == [job EXCEPT ![j] = JobErrorThrown(job[j])]
             jobs == TornDown(scope, thrown)
  <2>1. Advance(i, active \ scope, jobs, JobsOn(scope))
    BY <1>9 DEF ThrowJobErrorCaughtOutside
  <2>2. /\ JobErrorThrown(job[j]) \in JobRecord /\ JobErrorThrown(job[j]).state = "Errored"
        /\ JobErrorThrown(job[j]).elem = job[j].elem
    BY <1>a, ApplierTypes, ApplierFields
  <2>3. job[j].state \in {"Created", "Activated"} /\ job[j].elem \in scope
    BY <1>0, <1>9 DEF ThrowJobErrorCaughtOutside, WorkerMayResolve, TokenInv, JobActive,
       InPlay, ElemsOf, TypeOK
  <2>4. /\ thrown \in [Jobs -> JobRecord]
        /\ \A k \in Jobs : /\ thrown[k].elem = job[k].elem
                           /\ k # j => thrown[k] = job[k]
                           /\ k = j => thrown[k].state = "Errored"
    BY <1>0, <2>2
  <2>5. JobsOn(scope) \in SUBSET Jobs /\ j \in JobsOn(scope) BY <2>3 DEF JobsOn, InPlay
  <2>6. jobs \in [Jobs -> JobRecord] BY <2>4, TornDownType
  <2> HIDE DEF thrown
  <2>7. \A k \in Jobs : thrown[k].state = job[k].state \/ thrown[k].state \in Terminal
    BY <2>4 DEF Terminal
  <2>8. ASSUME NEW k \in Jobs
        PROVE  IF job[k].elem \in scope /\ job[k].state \in InPlay /\ thrown[k].state \in InPlay
               THEN jobs[k].state = "Canceled"
               ELSE jobs[k].state = thrown[k].state
    BY <2>4, <2>7, TornDownFields
  <2>9. \A k \in Jobs : jobs[k].state = "Activated" => jobs[k].token = thrown[k].token
    BY <2>4, TornDownTokens
  <2> HIDE DEF jobs
  <2>10. ASSUME NEW k \in Jobs
         PROVE  /\ job[k].state \in Terminal => jobs[k].state = job[k].state
                /\ Locked(k) /\ jobs[k].state = "Activated" => jobs[k].token = job[k].token
                /\ k \notin JobsOn(scope) => jobs[k].state = job[k].state
    <3>1. CASE k = j
      BY <2>3, <2>4, <2>5, <2>8, <3>1 DEF Terminal, InPlay
    <3>2. CASE k # j /\ k \in JobsOn(scope)
      BY <2>4, <2>8, <3>2 DEF JobsOn, InPlay, Terminal
    <3>3. CASE k # j /\ k \notin JobsOn(scope)
      BY <2>4, <2>8, <2>9, <3>3 DEF JobsOn
    <3> QED BY <3>1, <3>2, <3>3
  <2>11. Moved(jobs, JobsOn(scope)) BY <2>10 DEF Moved
  <2> HIDE DEF scope, i
  <2> QED BY <1>0, <2>1, <2>5, <2>6, <2>11, AdvanceMove
<1>10. ASSUME NEW j \in Jobs, NEW token, ThrowJobErrorUnhandled(j, token) PROVE JobStep
  <2>1. JobErrorThrown(job[j]) \in JobRecord /\ JobErrorThrown(job[j]).state = "Errored"
    BY <1>a, ApplierTypes, ApplierFields
  <2> QED BY <1>10, <1>d, <2>1 DEF ThrowJobErrorUnhandled, WorkerMayResolve, Terminal
<1>11. ASSUME NEW j \in Jobs, NEW token, NEW r, NEW t, update_job_properties(j, token, r, t)
       PROVE  JobStep
  <2>1. \A k \in Jobs : job'[k].state = job[k].state /\ job'[k].token = job[k].token
    BY <1>0, <1>11 DEF update_job_properties, JobRecord
  <2>2. Moved(job', {}) BY <2>1 DEF Moved
  <2>3. Resync({}) BY <1>11 DEF update_job_properties, Resync, indices
  <2> QED BY <2>2, <2>3 DEF JobStep
<1>12. ASSUME NEW inc \in incidents, ResolveJobIncident(inc) PROVE JobStep
  <2>1. inc.job \in Jobs
    BY <1>12 DEF ResolveJobIncident, TokenInv, IncidentElem
  <2>2. job' = [job EXCEPT ![inc.job] = IncidentResolved(job[inc.job])]
    BY <1>12 DEF ResolveJobIncident
  <2>3. /\ IncidentResolved(job[inc.job]) \in JobRecord
        /\ job[inc.job].state = "Failed" => IncidentResolved(job[inc.job]).state = "Created"
        /\ job[inc.job].state # "Failed" => IncidentResolved(job[inc.job]) = job[inc.job]
    <3>1. job[inc.job] \in JobRecord BY <1>a, <2>1
    <3>2. /\ IncidentResolved(job[inc.job]) \in JobRecord
          /\ IncidentResolved(job[inc.job]).state =
                IF job[inc.job].state = "Failed" THEN "Created" ELSE job[inc.job].state
      BY <3>1, ApplierTypes, ApplierFields
    <3> QED BY <3>2 DEF IncidentResolved
  <2>4. CASE job[inc.job].state = "Failed"
    BY <1>12, <1>d, <2>1, <2>2, <2>3, <2>4 DEF ResolveJobIncident, Terminal
  <2>5. CASE job[inc.job].state # "Failed"
    <3>1. job' = job BY <1>0, <2>1, <2>2, <2>3, <2>5
    <3> QED BY <1>12, <2>5, <3>1, StillStep DEF ResolveJobIncident
  <2> QED BY <2>4, <2>5
<1>13. ASSUME NEW inc \in incidents, ResolveErrorIncident(inc) PROVE JobStep
  <2>1. CASE UNCHANGED <<job, activatable_jobs, activated_jobs>>
    BY <2>1, StillStep DEF indices
  <2>2. ASSUME NEW j \in Jobs, Unused(j), job' = [job EXCEPT ![j] = JobCreated(inc.elem)],
               Resync({j})
        PROVE  JobStep
    <3>1. Moved([job EXCEPT ![j] = JobCreated(inc.elem)], {} \cup {j})
      BY <1>0, <1>b, <2>2, CreatedMove
    <3>2. {} \cup {j} = {j} OBVIOUS
    <3> QED BY <2>2, <3>1, <3>2 DEF JobStep
  <2> QED BY <1>13, <2>1, <2>2 DEF ResolveErrorIncident
<1>14. ASSUME NEW e \in Elems, InterruptByTimer(e) PROVE JobStep
  <2> DEFINE S == JobsOn({e})
             jobs == [j \in Jobs |-> IF j \in S THEN JobCanceled(job[j]) ELSE job[j]]
  <2>1. Advance(InstanceOf[e], active \ {e}, jobs, S) BY <1>14 DEF InterruptByTimer
  <2>2. S \in SUBSET Jobs /\ \A k \in S : job[k].state \notin Terminal
    BY DEF JobsOn, InPlay, Terminal
  <2> HIDE DEF S
  <2>3. jobs \in [Jobs -> JobRecord] BY <1>a, ApplierTypes
  <2>4. \A k \in Jobs : JobCanceled(job[k]).state = "Canceled" BY <1>a, ApplierFields
  <2>5. Moved(jobs, S) BY <2>2, <2>4 DEF Moved
  <2> HIDE DEF jobs
  <2> QED BY <1>0, <2>1, <2>2, <2>3, <2>5, AdvanceMove
<1>15. ASSUME NEW e \in Elems, SpawnByTimer(e) PROVE JobStep
  <2>1. Advance(InstanceOf[e], active, job, {}) BY <1>15 DEF SpawnByTimer
  <2>2. {} \in SUBSET Jobs OBVIOUS
  <2> QED BY <1>0, <1>b, <2>1, <2>2, AdvanceMove
<1>16. ASSUME NEW j \in Jobs, NEW d \in DigestDeadlines, recover_lease(j, d) PROVE JobStep
  <2>1. /\ job[j].state = "Created" /\ job'[j].state = "Activated"
        /\ \A k \in Jobs \ {j} : job'[k] = job[k]
    BY <1>0, <1>16 DEF recover_lease, LeaseRecovered, JobRecord
  <2> QED BY <1>16, <2>1 DEF recover_lease, JobStep, Recovered
<1>17. CASE Tick
  BY <1>17, StillStep DEF Tick
<1> QED
  BY <1>0, <1>1, <1>2, <1>3, <1>4, <1>5, <1>6, <1>7, <1>8, <1>9, <1>10, <1>11, <1>12, <1>13,
     <1>14, <1>15, <1>16, <1>17, NextCases

\* A job that was completed, errored or cancelled never changes state again, whatever
\* commands, plans, teardowns and incident resolutions follow.
THEOREM EndedForGood == Spec => TerminalFinal
<1>1. TokenInv /\ [Next]_vars
      => [\A j \in Jobs : job[j].state \in Terminal => job'[j].state = job[j].state]_vars
  BY JobSteps DEF JobStep, Recovered, Moved, Terminal
<1> QED BY <1>1, TokenInvariant, PTL DEF Spec, TerminalFinal

\* No step replaces the token of a durable lock that is out: neither a poll nor a
\* stale replicated plan grants it a second time.
THEOREM LocksHold == Spec => LockNotStolen
<1>1. TokenInv /\ [Next]_vars
      => [\A j \in Jobs :
            /\ job[j].state = "Activated" /\ job_requires_durable_activation(j)
            /\ job'[j].state = "Activated"
            => job'[j].token = job[j].token]_vars
  BY JobSteps DEF JobStep, Recovered, Moved, Locked
<1> QED BY <1>1, TokenInvariant, PTL DEF Spec, LockNotStolen

\* The indices are sound in every reachable state: polls see every activatable job,
\* expiry sees exactly the locks, and neither index names a job out of play.
THEOREM IndicesSound == Spec => []IndexSound
<1>1. Init => IndexSound
  BY DEF Init, IndexSound, JobCreated
<1>2. ASSUME TokenInv, IndexSound, [Next]_vars PROVE IndexSound'
  <2>1. JobStep BY <1>2, JobSteps
  <2>2. CASE Recovered BY <1>2, <2>2 DEF Recovered, IndexSound
  <2>3. ASSUME NEW S \in SUBSET Jobs, Moved(job', S), Resync(S) PROVE IndexSound'
    BY <1>2, <2>3 DEF Moved, Resync, IndexSound
  <2> QED BY <2>1, <2>2, <2>3 DEF JobStep
<1> QED BY <1>1, <1>2, TokenInvariant, PTL DEF Spec
===============================================================================
