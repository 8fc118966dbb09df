----------------------------- MODULE TokenScopes -----------------------------
(***************************************************************************)
(* The tokens of one process instance: sequence flows, parallel and        *)
(* inclusive joins, sub-processes nested in one another, multi-instance    *)
(* bodies, and what tears a scope down while its steps are still queued    *)
(* (terminate ends, interrupting timers and escalations, an early          *)
(* completion condition).                                                  *)
(*                                                                         *)
(* A command queues steps; run_with processes them in FIFO order, then     *)
(* completes the sub-processes that have run empty, and repeats.  A flow   *)
(* into a join is counted when it is taken, its activation is processed    *)
(* later: between the two the scope may die, and be entered again.         *)
(*                                                                         *)
(* Jobs are those of module Jobs: a service task waits until its job       *)
(* completes.  Conditions are free choices.  Listeners, incidents, ad-hoc  *)
(* bodies and activations of a join that come over no flow are left out.   *)
(***************************************************************************)
EXTENDS Integers, Sequences, FiniteSets, SequencesExt

CONSTANTS
    Definitions,    \* the deployed process definitions, by process id
    Items,          \* bound: length of a multi-instance input collection
    MaxKey,         \* bound: element instance keys
    NoFlow

\* A definition: the kind of each element, the targets of its outgoing flows
\* in document order, the start event of a sub-process, the host of a boundary
\* event, the multi-instance activities (parallel, sequential), and those
\* among them with a completion condition.
ASSUME DefinitionsAssumption ==
    /\ Items \in Nat /\ MaxKey \in Nat
    /\ \A p \in DOMAIN Definitions :
          LET d == Definitions[p]
          IN  /\ \A e \in DOMAIN d.out : d.out[e] \in Seq(DOMAIN d.kind)
              /\ \A s \in DOMAIN d.kind : d.kind[s] = "sub" => s \in DOMAIN d.inner
              /\ d.parallel \cap d.sequential = {}

VARIABLES
    process,            \* the process id of the instance
    state,              \* its ProcessInstanceState
    active,             \* element instances: element and scope (0: the root)
    join_flow_arrivals, \* per join the tokens counted, each with its flow; its
                        \* scope is history, the code keeps only the flow
    join_instances,     \* the element instance holding a join's waiting tokens
    multi_instances,    \* body key -> items, children activated, children still active
    timers,             \* armed boundary and catch timers
    next_key,
    due,                \* the due timers TriggerTimers has yet to look at
    queue,              \* the step queue of run_with
    torn_down_scopes,   \* scratch of one command
    idle,               \* between commands
    fired               \* history: how often each join fired in each scope

joins == <<join_flow_arrivals, join_instances>>
vars  == <<process, state, active, joins, multi_instances, timers, next_key, due, queue,
           torn_down_scopes, idle, fired>>

Kinds == {"pass", "task", "catch", "xor", "or", "and", "sub", "escalation", "end", "terminate",
          "timer", "timerNI", "cycleNI", "escalated", "escalatedNI"}

\* The structure of each definition, looked up by process id.
FlowsOf(d)  == UNION {{e} \X DOMAIN d.out[e] : e \in DOMAIN d.out}
IncomingOf  == [p \in DOMAIN Definitions |->
                   LET d == Definitions[p]
                   IN  [e \in DOMAIN d.kind |-> {f \in FlowsOf(d) : d.out[f[1]][f[2]] = e}]]

Definition  == Definitions[process]
Elements    == DOMAIN Definition.kind
Kind(e)     == Definition.kind[e]
Out(e)      == IF e \in DOMAIN Definition.out THEN Definition.out[e] ELSE << >>
Target(f)   == Definition.out[f[1]][f[2]]
Incoming(e) == IncomingOf[process][e]
Attached(h) == {b \in DOMAIN Definition.host : Definition.host[b] = h}
Looping     == Definition.parallel \cup Definition.sequential

\* join_kind
IsJoin(e) == Kind(e) \in {"and", "or"} /\ Cardinality(Incoming(e)) > 1
Joins     == {e \in Elements : IsJoin(e)}

Activate(e, s, f) == [op |-> "Activate", el |-> e, scope |-> s, via |-> f]
Complete(k)       == [op |-> "Complete", key |-> k]
ActivateMiChild(b) == [op |-> "ActivateMiChild", key |-> b]
CompleteMiBody(b)  == [op |-> "CompleteMiBody", key |-> b]

ScopeOf(k)   == IF k \in DOMAIN active THEN active[k].scope ELSE 0
IsMiBody(k)  == k \in DOMAIN multi_instances
IsMiChild(k) == IsMiBody(ScopeOf(k)) /\ active[ScopeOf(k)].el = active[k].el

Ancestors ==
    LET above[k \in DOMAIN active] ==
            IF ScopeOf(k) \in DOMAIN active THEN {ScopeOf(k)} \cup above[ScopeOf(k)] ELSE {}
    IN  above

\* scope_descendants
Inside(k) == {c \in DOMAIN active : k \in Ancestors[c]}

Without(f, K) == [k \in DOMAIN f \ K |-> f[k]]
With(f, k, v) == [x \in DOMAIN f \cup {k} |-> IF x = k THEN v ELSE f[x]]
Token(e, s)   == [el |-> e, scope |-> s]
TimersOn(K)   == {t \in timers : t.host \in K}

\* The numbers in S in ascending order.
Ascending(S) == {s \in [1 .. Cardinality(S) -> S] : \A i, j \in DOMAIN s : i < j => s[i] < s[j]}

(***************************************************************************)
(* Taking flows                                                            *)
(***************************************************************************)
Taken(e, chosen, s) == [n \in DOMAIN chosen |-> [flow |-> <<e, chosen[n]>>, scope |-> s]]
TakenAll(e, s)      == Taken(e, [n \in DOMAIN Out(e) |-> n], s)

\* ParallelJoinTokenArrived for the flows that lead into a join.
Counted(arrivals, taken) ==
    [j \in DOMAIN arrivals |-> arrivals[j] \o SelectSeq(taken, LAMBDA t : Target(t.flow) = j)]

Activations(taken) ==
    [n \in DOMAIN taken |-> Activate(Target(taken[n].flow), taken[n].scope, taken[n].flow)]

\* The flows an exclusive or inclusive gateway may select, any other element takes.
Selections(e) ==
    LET all == DOMAIN Out(e)
    IN  CASE Kind(e) = "xor" -> {<<n>> : n \in all}
          [] Kind(e) = "or"  -> UNION {Ascending(S) : S \in (SUBSET all) \ {{}}}
          [] OTHER           -> Ascending(all)

(***************************************************************************)
(* Tearing down                                                            *)
(***************************************************************************)
\* The element instances K go, with their timers, join bookkeeping and
\* multi-instance records.
OpenOn(K) == {j \in DOMAIN join_instances : join_instances[j] \in K}
Reset(K)  == [j \in DOMAIN join_flow_arrivals |->
                 IF j \in OpenOn(K) THEN << >> ELSE join_flow_arrivals[j]]

\* MultiInstanceCompleted, which ElementCompleted does not imply.
RecordsWithout(K) == Without(multi_instances, K)

Discard(K) ==
    /\ active' = Without(active, K)
    /\ join_flow_arrivals' = Reset(K)
    /\ join_instances' = Without(join_instances, OpenOn(K))
    /\ multi_instances' = RecordsWithout(K)

OnlyMarkedDead(s) == s \in torn_down_scopes

DeadScope(s) ==
    /\ s # 0
    /\ s \in torn_down_scopes \/ s \notin DOMAIN active \cup DOMAIN multi_instances

\* step_targets_dead_scope
TargetsDeadScope(step) ==
    \/ state = "Terminated"
    \/ step.op = "Activate" /\ DeadScope(step.scope)
    \/ step.op = "Complete" /\ step.key \notin DOMAIN active
    \/ step.op \in {"ActivateMiChild", "CompleteMiBody"} /\ ~IsMiBody(step.key)

NothingRevoked(step) == {}

\* revoke_dropped_join_arrival
Revoked(step) ==
    {j \in DOMAIN join_flow_arrivals :
                   /\ step.op = "Activate" /\ step.el = j /\ step.via # NoFlow
                   /\ join_flow_arrivals[j] # << >> /\ j \notin DOMAIN join_instances}

(***************************************************************************)
(* The steps.  Each pops the head of the queue.                            *)
(***************************************************************************)
Processing(step) == ~idle /\ due = {} /\ queue # << >> /\ step = Head(queue) /\ UNCHANGED <<process, due, idle>>
Live(step)       == Processing(step) /\ ~TargetsDeadScope(step)
Then(followups)  == queue' = Tail(queue) \o followups

DropStep(step) ==
    /\ Processing(step) /\ TargetsDeadScope(step)
    /\ join_flow_arrivals' = [j \in DOMAIN join_flow_arrivals |-> IF j \in Revoked(step) THEN << >> ELSE join_flow_arrivals[j]]
    /\ Then(<< >>)
    /\ UNCHANGED <<state, active, join_instances, multi_instances, timers, next_key, torn_down_scopes, fired>>

\* arm_boundary_events
Armed(k, e) == {[host |-> k, event |-> b] :
                   b \in {x \in Attached(e) : Kind(x) \in {"timer", "timerNI", "cycleNI"}}}

\* activate: an element that is neither a join nor a multi-instance activity.
ActivateElement(step) ==
    LET e == step.el
        k == next_key
    IN  /\ Live(step) /\ step.op = "Activate" /\ ~IsJoin(e)
        /\ e \notin Looping
        /\ active' = With(active, k, Token(e, step.scope))
        /\ next_key' = k + 1
        /\ timers' = timers \cup (CASE Kind(e) \in {"task", "sub"} -> Armed(k, e)
                                    [] Kind(e) = "catch" -> {[host |-> k, event |-> e]}
                                    [] OTHER -> {})
        /\ Then(CASE Kind(e) \in {"task", "catch"} -> << >>
                  [] Kind(e) = "sub" -> <<Activate(Definition.inner[e], k, NoFlow)>>
                  [] OTHER -> <<Complete(k)>>)
        /\ UNCHANGED <<state, joins, multi_instances, torn_down_scopes, fired>>

Record(total, spawned, running) == [total |-> total, spawned |-> spawned, active |-> running]

\* activate_multi_instance_body, run_mi_body_activation
ActivateBody(step) ==
    LET e == step.el
        k == next_key
    IN  /\ Live(step) /\ step.op = "Activate" /\ e \in Looping
        /\ active' = With(active, k, Token(e, step.scope))
        /\ next_key' = k + 1
        /\ timers' = timers \cup Armed(k, e)
        /\ \E total \in 0 .. Items :
              /\ multi_instances' = With(multi_instances, k, Record(total, 0, {}))
              /\ Then(CASE total = 0 -> <<CompleteMiBody(k)>>
                        [] total > 0 /\ e \in Definition.sequential -> <<ActivateMiChild(k)>>
                        [] OTHER -> [n \in 1 .. total |-> ActivateMiChild(k)])
        /\ UNCHANGED <<state, joins, torn_down_scopes, fired>>

\* activate_mi_child, run_mi_child_behaviour; boundary events sit on the body.
ActivateChild(step) ==
    LET e == active[step.key].el
        k == next_key
        body == multi_instances[step.key]
    IN  /\ Live(step) /\ step.op = "ActivateMiChild"
        /\ active' = With(active, k, Token(e, step.key))
        /\ multi_instances' =
              With(multi_instances, step.key, Record(body.total, body.spawned + 1, body.active \cup {k}))
        /\ next_key' = k + 1
        /\ Then(CASE Kind(e) = "task" -> << >>
                  [] Kind(e) = "sub" -> <<Activate(Definition.inner[e], k, NoFlow)>>
                  [] OTHER -> <<Complete(k)>>)
        /\ UNCHANGED <<state, joins, timers, torn_down_scopes, fired>>

(***************************************************************************)
(* Joins                                                                   *)
(***************************************************************************)
FlowsTaken(j) == {t.flow : t \in ToSet(join_flow_arrivals[j])}

\* FlowArrivals::consume_one_each: the first token of each flow goes.
ConsumeOneEach(tokens) ==
    LET surplus == {i \in DOMAIN tokens : \E h \in 1 .. i - 1 : tokens[h].flow = tokens[i].flow}
        order == SetToSortSeq(surplus, <)
    IN  [n \in DOMAIN order |-> tokens[order[n]]]

\* path_reaches_join: along flows and from an activity to its boundary
\* events, not over the flows in `skipped`.
Reached(source, skipped) ==
    LET next(e) == Attached(e) \cup {Target(f) : f \in ({e} \X DOMAIN Out(e)) \ skipped}
        reached[n \in 0 .. Cardinality(Elements)] ==
            IF n = 0 THEN {source}
            ELSE LET before == reached[n - 1] IN before \cup UNION {next(e) : e \in before}
    IN  reached[Cardinality(Elements)]

Reaches(source, j) == j \in Reached(source, FlowsTaken(j))

OverlooksTransit(j, scope, pending) ==
    \E k \in DOMAIN active : active[k].scope = scope /\ active[k].el # j /\ Reaches(active[k].el, j)

\* has_active_path_to; `pending` is the rest of the queue.
HasActivePathTo(j, scope, pending) ==
    LET waiting == {active[k].el : k \in {c \in DOMAIN active : active[c].scope = scope}}
        transit == {p.el : p \in {q \in ToSet(pending) : /\ q.op = "Activate" /\ q.via # NoFlow
                                                           /\ q.scope = scope}}
    IN  \E e \in (waiting \cup transit) \ {j} : Reaches(e, j)

Accepts(j, scope, pending) ==
    \/ FlowsTaken(j) = Incoming(j)
    \/ /\ Kind(j) = "or" /\ FlowsTaken(j) # {}
       /\ ~HasActivePathTo(j, scope, pending)

OpenJoin(held, j, k, scope) ==
    /\ active' = With(held, k, Token(j, scope))
    /\ join_instances' = With(Without(join_instances, {j}), j, k)

\* activate_join, rejected: counted tokens wait on an open join instance.
WaitAtJoin(step) ==
    LET j == step.el IN
    /\ Live(step) /\ step.op = "Activate" /\ IsJoin(j)
    /\ ~Accepts(j, step.scope, Tail(queue))
    /\ IF FlowsTaken(j) # {} /\ j \notin DOMAIN join_instances
       THEN OpenJoin(active, j, next_key, step.scope) /\ next_key' = next_key + 1
       ELSE UNCHANGED <<active, join_instances, next_key>>
    /\ Then(<< >>)
    /\ UNCHANGED <<state, join_flow_arrivals, multi_instances, timers, torn_down_scopes, fired>>

\* activate_join, accepted; fire_join keeps the surplus on a reopened join.
FireJoin(step) ==
    LET j == step.el
        opened == {join_instances[i] : i \in DOMAIN join_instances \cap {j}}
        surplus == ConsumeOneEach(join_flow_arrivals[j])
        fresh == next_key + (IF opened = {} THEN 1 ELSE 0)
    IN  /\ Live(step) /\ step.op = "Activate" /\ IsJoin(j)
        /\ Accepts(j, step.scope, Tail(queue))
        /\ IF surplus = << >>
           THEN /\ active' = Without(active, opened)
                /\ join_instances' = Without(join_instances, {j})
                /\ next_key' = fresh
           ELSE OpenJoin(Without(active, opened), j, fresh, step.scope) /\ next_key' = fresh + 1
        /\ \E chosen \in Selections(j) :
              LET taken == Taken(j, chosen, step.scope)
              IN  /\ join_flow_arrivals' = Counted([join_flow_arrivals EXCEPT ![j] = surplus], taken)
                  /\ Then(Activations(taken))
        /\ LET f == <<j, step.scope>>
           IN  fired' = With(fired, f, IF f \in DOMAIN fired THEN fired[f] + 1 ELSE 1)
        /\ UNCHANGED <<state, multi_instances, timers, torn_down_scopes>>

(***************************************************************************)
(* Completing                                                              *)
(***************************************************************************)
Completing(step, kinds) ==
    /\ Live(step) /\ step.op = "Complete"
    /\ ~IsMiChild(step.key) /\ Kind(active[step.key].el) \in kinds

\* complete, complete_exclusive_gateway, route_inclusive_gateway
CompleteElement(step) ==
    LET k == step.key IN
    /\ Completing(step, Kinds \ {"terminate", "escalation"})
    /\ active' = Without(active, {k})
    /\ timers' = timers \ TimersOn({k})
    /\ \E chosen \in Selections(active[k].el) :
          LET taken == Taken(active[k].el, chosen, ScopeOf(k))
          IN  /\ join_flow_arrivals' = Counted(join_flow_arrivals, taken)
              /\ Then(Activations(taken))
    /\ UNCHANGED <<state, join_instances, multi_instances, next_key, torn_down_scopes, fired>>

\* complete_terminate_end in a sub-process: the scope is torn down, the
\* sub-process itself completes when the queue has drained.
TerminateScope(step) ==
    LET s == ScopeOf(step.key) IN
    /\ Completing(step, {"terminate"}) /\ s # 0
    /\ Discard(Inside(s))
    /\ timers' = timers \ TimersOn(Inside(s))
    /\ torn_down_scopes' = torn_down_scopes \cup {s}
    /\ Then(<< >>)
    /\ UNCHANGED <<state, next_key, fired>>

\* complete_terminate_end at the root completes the instance.
TerminateInstance(step) ==
    /\ Completing(step, {"terminate"}) /\ ScopeOf(step.key) = 0
    /\ state' = "Completed"
    /\ active' = << >> /\ join_instances' = << >> /\ multi_instances' = << >> /\ timers' = {}
    /\ join_flow_arrivals' = [j \in Joins |-> << >>]
    /\ Then(<< >>)
    /\ UNCHANGED <<next_key, torn_down_scopes, fired>>

\* find_catching_escalation_boundary: the nearest enclosing activity with an
\* escalation boundary (a deeper scope has a larger key).
Catching(k) ==
    LET on == {s \in DOMAIN active \cap Ancestors[k] :
                  \E b \in Attached(active[s].el) : Kind(b) \in {"escalated", "escalatedNI"}}
    IN  {s \in on : \A r \in on : r <= s}

\* raise_escalation_from_throw.  A boundary of a multi-instance child is armed
\* on the body.
RaiseEscalation(step) ==
    LET k == step.key
        host(caught) == IF IsMiChild(caught) THEN ScopeOf(caught) ELSE caught
        taken == TakenAll(active[k].el, ScopeOf(k))
    IN  /\ Completing(step, {"escalation"})
        /\ \/ /\ Catching(k) = {}
              /\ active' = Without(active, {k})
              /\ join_flow_arrivals' = Counted(join_flow_arrivals, taken)
              /\ Then(Activations(taken))
              /\ UNCHANGED <<join_instances, multi_instances, timers, torn_down_scopes>>
           \/ /\ \E caught \in Catching(k) : \E b \in Attached(active[caught].el) :
                    /\ Kind(b) = "escalatedNI"
                    /\ Then(Append(Activations(taken), Activate(b, ScopeOf(host(caught)), NoFlow)))
              /\ active' = Without(active, {k})
              /\ join_flow_arrivals' = Counted(join_flow_arrivals, taken)
              /\ UNCHANGED <<join_instances, multi_instances, timers, torn_down_scopes>>
           \/ \E caught \in Catching(k) : \E b \in Attached(active[caught].el) :
                 LET K == Inside(host(caught)) \cup {host(caught)}
                 IN  /\ Kind(b) = "escalated"
                     /\ Then(<<Activate(b, ScopeOf(host(caught)), NoFlow)>>)
                     /\ Discard(K)
                     /\ timers' = timers \ TimersOn(K)
                     /\ torn_down_scopes' = torn_down_scopes \cup {host(caught)}
        /\ UNCHANGED <<state, next_key, fired>>

\* The completing child is still counted as active.
LoopOver(body) == Cardinality(body.active) <= 1 /\ body.spawned >= body.total

\* complete_mi_child.  `satisfied` is the completion condition.
CompleteChild(step, satisfied) ==
    LET k == step.key
        b == ScopeOf(k)
        e == active[k].el
        body == multi_instances[b]
    IN  /\ Live(step) /\ step.op = "Complete" /\ IsMiChild(k)
        /\ satisfied => e \in Definition.condition
        /\ active' = Without(active, {k})
        /\ multi_instances' = With(multi_instances, b, Record(body.total, body.spawned, body.active \ {k}))
        /\ Then(CASE satisfied -> <<CompleteMiBody(b)>>
                  [] ~satisfied /\ e \in Definition.sequential ->
                        IF body.spawned < body.total THEN <<ActivateMiChild(b)>> ELSE <<CompleteMiBody(b)>>
                  [] OTHER -> IF LoopOver(body) THEN <<CompleteMiBody(b)>> ELSE << >>)
        /\ UNCHANGED <<state, joins, timers, next_key, torn_down_scopes, fired>>

\* complete_multi_instance_body: children still running are torn down.
CompleteBody(step) ==
    LET b == step.key
        children == multi_instances[b].active
        K == {b} \cup children \cup UNION {Inside(c) : c \in children}
        taken == TakenAll(active[b].el, ScopeOf(b))
    IN  /\ Live(step) /\ step.op = "CompleteMiBody"
        /\ active' = Without(active, K)
        /\ join_instances' = Without(join_instances, OpenOn(K))
        /\ join_flow_arrivals' = Counted(Reset(K), taken)
        /\ multi_instances' = RecordsWithout(K)
        /\ timers' = timers \ TimersOn(K)
        /\ torn_down_scopes' = torn_down_scopes \cup children
        /\ Then(Activations(taken))
        /\ UNCHANGED <<state, next_key, fired>>

Drain ==
    \E step \in ToSet(queue) :
        \/ DropStep(step)
        \/ ActivateElement(step) \/ ActivateBody(step) \/ ActivateChild(step)
        \/ WaitAtJoin(step) \/ FireJoin(step)
        \/ CompleteElement(step) \/ RaiseEscalation(step)
        \/ TerminateScope(step) \/ TerminateInstance(step)
        \/ \E satisfied \in BOOLEAN : CompleteChild(step, satisfied)
        \/ CompleteBody(step)

(***************************************************************************)
(* The queue is empty                                                      *)
(***************************************************************************)
OuterDrained == {k \in DOMAIN active : /\ Kind(active[k].el) = "sub" /\ ScopeOf(k) = 0
                                       /\ \A c \in DOMAIN active : ScopeOf(c) # k}

Drained == {k \in DOMAIN active : Kind(active[k].el) = "sub" /\ \A c \in DOMAIN active : ScopeOf(c) # k}

\* complete_drained_subprocesses, in key order.
CompleteDrained ==
    LET leaves(k) == IF IsMiChild(k) THEN << >> ELSE TakenAll(active[k].el, ScopeOf(k))
        follows(k) == IF IsMiChild(k) THEN <<Complete(k)>> ELSE Activations(leaves(k))
    IN  /\ ~idle /\ due = {} /\ queue = << >> /\ state = "Active" /\ Drained # {}
        /\ active' = Without(active, {k \in Drained : ~IsMiChild(k)})
        /\ timers' = timers \ TimersOn(Drained)
        /\ \E order \in Ascending(Drained) :
              /\ join_flow_arrivals' =
                    Counted(join_flow_arrivals, FlattenSeq([n \in DOMAIN order |-> leaves(order[n])]))
              /\ queue' = FlattenSeq([n \in DOMAIN order |-> follows(order[n])])
        /\ UNCHANGED <<process, state, join_instances, multi_instances, next_key, due,
                       torn_down_scopes, idle, fired>>

\* complete_finished_instances, and the end of the command.
Quiesce ==
    /\ ~idle /\ due = {} /\ queue = << >> /\ (state = "Active" => Drained = {})
    /\ state' = IF state = "Active" /\ DOMAIN active = {} THEN "Completed" ELSE state
    /\ idle' = TRUE
    /\ UNCHANGED <<process, active, joins, multi_instances, timers, next_key, due, queue,
                   torn_down_scopes, fired>>

(***************************************************************************)
(* Commands                                                                *)
(***************************************************************************)
\* plan_command_at clears the scratch.
Plan ==
    /\ idle /\ state = "Active" /\ next_key <= MaxKey
    /\ idle' = FALSE /\ torn_down_scopes' = {}
    /\ UNCHANGED <<process, state, active, joins, multi_instances, timers, next_key, fired>>

CompleteJob ==
    \E k \in {c \in DOMAIN active : Kind(active[c].el) = "task" /\ ~IsMiBody(c)} :
        Plan /\ queue' = <<Complete(k)>> /\ due' = {}

TriggerTimers ==
    \E D \in (SUBSET timers) \ {{}} : Plan /\ queue' = << >> /\ due' = D

\* A due timer, in key order: a timer is minted when its host activates, a
\* repeating one again whenever it fires, so its place is anywhere.
Repeats(t) == Kind(t.event) = "cycleNI"
NextDue(t) ==
    /\ ~idle /\ t \in due /\ due' = due \ {t}
    /\ \A u \in due : t.host <= u.host \/ Repeats(t) \/ Repeats(u)

\* Disarmed by an earlier timer of the batch.
SkipTimer(t) ==
    /\ NextDue(t) /\ t \notin timers
    /\ UNCHANGED <<process, state, active, joins, multi_instances, timers, next_key, queue,
                   torn_down_scopes, idle, fired>>

ResumeCatch(t) ==
    /\ NextDue(t) /\ t \in timers /\ Kind(t.event) = "catch"
    /\ timers' = timers \ {t}
    /\ queue' = Append(queue, Complete(t.host))
    /\ UNCHANGED <<process, state, active, joins, multi_instances, next_key, torn_down_scopes, idle, fired>>

SpawnAtBoundary(t) ==
    /\ NextDue(t) /\ t \in timers /\ Kind(t.event) \in {"timerNI", "cycleNI"}
    /\ timers' = IF Repeats(t) THEN timers ELSE timers \ {t}
    /\ queue' = Append(queue, Activate(t.event, ScopeOf(t.host), NoFlow))
    /\ UNCHANGED <<process, state, active, joins, multi_instances, next_key, torn_down_scopes, idle, fired>>

\* interrupt_activity_via_boundary
InterruptAtBoundary(t) ==
    LET h == t.host
        K == Inside(h) \cup {h}
    IN  /\ NextDue(t) /\ t \in timers /\ Kind(t.event) = "timer"
        /\ Discard(K)
        /\ timers' = timers \ TimersOn(K)
        /\ torn_down_scopes' = torn_down_scopes \cup (IF IsMiBody(h) \/ Kind(active[h].el) = "sub" THEN {h} ELSE {})
        /\ queue' = Append(queue, Activate(t.event, ScopeOf(h), NoFlow))
        /\ UNCHANGED <<process, state, next_key, idle, fired>>

FireTimer ==
    \E t \in due : SkipTimer(t) \/ ResumeCatch(t) \/ SpawnAtBoundary(t) \/ InterruptAtBoundary(t)

Init ==
    /\ process \in DOMAIN Definitions
    /\ state = "Active" /\ idle = FALSE /\ next_key = 1
    /\ active = << >> /\ join_instances = << >> /\ multi_instances = << >> /\ fired = << >>
    /\ join_flow_arrivals = [j \in Joins |-> << >>]
    /\ timers = {} /\ due = {} /\ torn_down_scopes = {}
    /\ queue = <<Activate("start", 0, NoFlow)>>

Next == Drain \/ CompleteDrained \/ Quiesce \/ CompleteJob \/ TriggerTimers \/ FireTimer

Spec == Init /\ [][Next]_vars

(***************************************************************************)
(* Properties                                                              *)
(***************************************************************************)
\* The fields of ProcessInstance keep their shape: tokens name elements of the
\* definition, an open join is an active instance of that join, a multi-
\* instance record belongs to an active body and lists active children.
TypeOK ==
    /\ state \in {"Active", "Completed", "Terminated"} /\ idle \in BOOLEAN
    /\ \A k \in DOMAIN active : k \in 1 .. next_key - 1 /\ active[k].el \in Elements
    /\ \A j \in DOMAIN join_instances :
          join_instances[j] \in DOMAIN active /\ active[join_instances[j]].el = j
    /\ \A b \in DOMAIN multi_instances :
          /\ b \in DOMAIN active
          /\ multi_instances[b].active = {k \in DOMAIN active : active[k] = Token(active[b].el, b)}
    /\ \A t \in timers : t.host \in DOMAIN active
    /\ torn_down_scopes \subseteq 1 .. next_key

\* Every token counted onto a join is waiting on the join's open instance in
\* the token's own scope, or its activation in that scope is still queued.  At
\* the end of a command this is what debug_assert_join_bookkeeping_coherent
\* asserts; a token left behind by a dead scope (revoke_dropped_join_arrival,
\* scope_teardown_events) or counted for another scope breaks it.
JoinTokensHeld ==
    \A j \in DOMAIN join_flow_arrivals : \A t \in ToSet(join_flow_arrivals[j]) :
        \/ /\ j \in DOMAIN join_instances
           /\ ScopeOf(join_instances[j]) = t.scope
        \/ \E q \in ToSet(queue) : q.op = "Activate" /\ q.el = j /\ q.scope = t.scope

\* No token lives in a scope that is gone: step_targets_dead_scope drops what
\* was queued behind the teardown, also in nested scopes.
ScopeAlive ==
    \A k \in DOMAIN active :
        ScopeOf(k) = 0 \/ (ScopeOf(k) \in DOMAIN active /\ (Kind(active[ScopeOf(k)].el) = "sub" \/ IsMiBody(ScopeOf(k))))

\* Between commands an active instance waits for something that can happen: a
\* sub-process or body for a token inside it, a join for a token in its scope
\* that can still reach it or a terminate end.  (complete_drained_subprocesses, activate_join;
\* block-structured definitions.)
NeverStuck ==
    idle /\ state = "Active" =>
        /\ DOMAIN active # {}
        /\ \A k \in DOMAIN active :
              LET e == active[k].el
                  inside == {c \in DOMAIN active : ScopeOf(c) = k}
                  beside == {c \in DOMAIN active \ {k} : ScopeOf(c) = ScopeOf(k)}
              IN  CASE IsMiBody(k) -> inside # {}
                    [] ~IsMiBody(k) /\ Kind(e) = "sub" -> inside # {}
                    [] IsJoin(e) -> /\ OpenOn({k}) = {e}
                                    /\ \E c \in beside :
                                          \/ Reaches(active[c].el, e)
                                          \/ \E t \in Reached(active[c].el, {}) : Kind(t) = "terminate"
                    [] OTHER -> Kind(e) \in {"task", "catch"}

\* In a block-structured definition a join fires once in each scope it is
\* reached in: no branch continues twice and none continues early
\* (activate_join counts flows when they are taken, has_active_path_to sees
\* the ones still queued).
JoinFiresOnce == \A f \in DOMAIN fired : fired[f] = 1
==============================================================================
