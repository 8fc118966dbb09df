--------------------------- MODULE MessageRouting ---------------------------
(***************************************************************************)
(* Message subscriptions across partitions (engine-core engine/mod.rs,     *)
(* boundary.rs, state/apply/subscription.rs; server/src/main.rs).  A token *)
(* that waits for a message has a record on its instance's partition; the  *)
(* canonical record lives on the partition its correlation key hashes to.  *)
(* Where the two differ the local record is only `Opening', and the host   *)
(* carries opens, closes and correlations between the partitions in tasks  *)
(* that nothing orders, repeats or remembers.                              *)
(*                                                                         *)
(* Instances run one small process: a job, then an element that waits for  *)
(* the message, by itself (a catch event) or beside a job (an activity     *)
(* with a boundary event).  All messages have one name, so a message is    *)
(* its correlation key; `msgs' remembers the keys in order of publication. *)
(* Only the keys of subscriptions are counted.                             *)
(***************************************************************************)
EXTENDS Integers, Sequences, SequencesExt, FiniteSets, Bags, TLC

CONSTANTS
    Setups,       \* see Setup
    NumPartitions,
    NumNodes,
    Inst,         \* process instances
    CorrKey,      \* correlation keys
    MaxKey,       \* bound: subscriptions per partition
    MaxMsg,       \* bound: messages published
    MaxFaults     \* bound: lost frames and crashes

Partition == 0 .. NumPartitions - 1
Node      == 1 .. NumNodes
Fault     == {"loss", "crash", "early", "suspend"}
Setup == [owner : [Partition -> Node],           \* owner_of
          home : [CorrKey -> Partition],         \* subscription_partition
          at : [Inst -> Partition],              \* partition_of
          ck : [Inst -> CorrKey],
          kind : [Inst -> {"catch", "interrupting", "nonInterrupting"}],
          again : SUBSET Inst,                   \* the flow leads back to the element
          forks : SUBSET Inst,                   \* beside the element, a terminate end
          starts : BOOLEAN,                      \* a message start event is deployed
          inOrder : BOOLEAN,                     \* commands wait for the tasks to end
          faults : SUBSET Fault]

ASSUME RoutingAssumption ==
    /\ {NumPartitions, NumNodes} \subseteq Nat \ {0}
    /\ {MaxKey, MaxMsg, MaxFaults} \subseteq Nat
    /\ Setups \subseteq Setup

VARIABLES
    setup,
    engine,    \* the state of each partition, see Engine
    disk,      \* what its log would be replayed to: start_dispatch_rr is not logged
    tasks,     \* tasks of the hosts, see Task
    msgs,      \* correlation keys of the messages published
    hits,      \* history: token advances, see Hit
    started,   \* history: messages that started an instance, once for each
    faults     \* faults so far

vars == <<setup, engine, disk, tasks, msgs, hits, started, faults>>

Key    == Partition \X (1 .. MaxKey)
NoKey  == <<0, 0>>
Less(k, l) == k[1] < l[1] \/ (k[1] = l[1] /\ k[2] < l[2])
InstAt(p)  == {i \in Inst : setup.at[i] = p}

\* message_subscriptions: records of the partition's own instances, and
\* canonical records of others.  rr is start_dispatch_rr, next is next_local.
SubState == {"Open", "Opening", "Correlated", "Canceled"}
Live     == {"Open", "Opening"}
Sub      == [inst : Inst, state : SubState]
InstRec  == [state : {"Active", "Suspended", "Ended"}, at : {"job", "wait"},
             sub : Key \cup {NoKey}]
Fresh(p) == [subs |-> [k \in {} |-> {}], next |-> 0, rr |-> 0,
             inst |-> [i \in InstAt(p) |->
                          [state |-> "Active", at |-> "job", sub |-> NoKey]]]

\* Routable events and the other work of a task.
Open(k, i)        == [op |-> "open", key |-> k, inst |-> i]
Close(k, i)       == [op |-> "close", key |-> k, inst |-> i]
Correlate(k, i, m) == [op |-> "correlate", key |-> k, inst |-> i, msg |-> m]
Start(m, p)       == [op |-> "start", msg |-> m, to |-> p]
Fanout(m, n)      == [op |-> "fanout", msg |-> m, node |-> n]
Everywhere(m, targets, out) ==
    [op |-> "everywhere", msg |-> m, targets |-> targets, out |-> out]

\* A task is the frames of the requests it is in the middle of, the innermost
\* last: a node forwards an event to a peer and waits for its answer, which
\* the peer gives after driving its own pump to the end.  A frame's work is
\* taken from the end, as work.pop() does.
Frame(n, todo) == [node |-> n, todo |-> todo]
Spawned(n, todo) == IF todo = <<>> THEN {} ELSE {<<Frame(n, todo)>>}
Trim(t) == SelectSeq(t, LAMBDA f : f.todo # <<>>)
Replace(t, t2) == (tasks \ {t}) \cup ({Trim(t2)} \ {<<>>})

Hit(k, owner, i, m) == [key |-> k, owner |-> owner, inst |-> i, msg |-> m]

Init ==
    /\ setup \in Setups
    /\ engine = [p \in Partition |-> Fresh(p)]
    /\ disk = engine
    /\ tasks = {} /\ msgs = <<>> /\ hits = EmptyBag /\ started = EmptyBag
    /\ faults = 0

-----------------------------------------------------------------------------
(***************************************************************************)
(* The engine.  A plan is an engine e with the routable events emitted so  *)
(* far, and the histories.                                                 *)
(***************************************************************************)
Plan(p) == [e |-> engine[p], out |-> <<>>, hits |-> hits, started |-> started]
Emit(s, ev) == [s EXCEPT !.out = Append(@, ev)]
HomeOf(i) == setup.home[setup.ck[i]]
Suspended(e, i) == i \in DOMAIN e.inst /\ e.inst[i].state = "Suspended"

\* arm_boundary_events, and the same for a catch event: the record is
\* canonical here, or a placeholder.
Placement(p, i) == IF HomeOf(i) = p THEN "Open" ELSE "Opening"

\* A token reaches the element and its subscription gets a key.
Park(s, p, i) ==
    LET k   == <<p, s.e.next + 1>>
        st  == Placement(p, i)
        s2  == [s EXCEPT !.e.next = @ + 1,
                         !.e.subs = (k :> [inst |-> i, state |-> st]) @@ @,
                         !.e.inst[i].at = "wait", !.e.inst[i].sub = k]
    IN  IF st = "Opening" THEN Emit(s2, Open(k, i)) ELSE s2

\* Mutant: the host is not told.
DisarmUntold(s, i) ==
    [s EXCEPT !.e.subs = [k \in DOMAIN @ |->
        IF @[k].inst = i /\ @[k].state \in Live THEN [@[k] EXCEPT !.state = "Canceled"] ELSE @[k]]]

\* disarm_subscription_event for every live subscription of an instance.
Disarm(s, i) ==
    LET gone  == {k \in DOMAIN s.e.subs : s.e.subs[k].inst = i /\ s.e.subs[k].state \in Live}
        parks == {k \in gone : s.e.subs[k].state = "Opening"}
        close == [j \in 1 .. Cardinality(parks) |-> Close(SetToSortSeq(parks, Less)[j], i)]
    IN  [s EXCEPT !.e.subs = [k \in DOMAIN @ |->
                                 IF k \in gone THEN [@[k] EXCEPT !.state = "Canceled"] ELSE @[k]],
                  !.out = @ \o close]

\* The token leaves the element: back to it, or to the end of the process.
Leave(s, p, i) ==
    IF i \in setup.again /\ s.e.next < MaxKey
    THEN Park(s, p, i)
    ELSE [s EXCEPT !.e.inst[i].state = "Ended", !.e.inst[i].sub = NoKey]

\* Mutant: only boundaries settle.
SettleBoundary(s, k) ==
    IF setup.kind[s.e.subs[k].inst] # "interrupting" THEN s
    ELSE [s EXCEPT !.e.subs[k].state = "Correlated"]

\* MessageCorrelated and RemoteMessageCorrelation: a non-interrupting
\* boundary keeps its record.
Settle(s, k) ==
    IF setup.kind[s.e.subs[k].inst] = "nonInterrupting" THEN s
    ELSE [s EXCEPT !.e.subs[k].state = "Correlated"]

\* advance_correlated_token.  The continuation names the instance and the
\* element; what it does when these are not what the record k is about is
\* left open, beyond settling the record.
AdvanceToken(s, p, k, i, m) ==
    LET s2 == [Settle(s, k) EXCEPT
                  !.hits = @ (+) SetToBag({Hit(k, s.e.subs[k].inst, i, m)})]
    IN  IF setup.kind[i] = "nonInterrupting" \/ s.e.inst[i].sub # k THEN s2
        ELSE Leave(IF setup.kind[i] = "interrupting" THEN Disarm(s2, i) ELSE s2, p, i)

\* A start event fires: the instance it starts has nothing to wait for.
StartInstance(s, m) == [s EXCEPT !.started = @ (+) SetToBag({m})]

\* start_or_dispatch_instance.
StartOrDispatch(s, p, m) ==
    LET target == s.e.rr % NumPartitions
        s2     == [s EXCEPT !.e.rr = @ + 1]
    IN  IF NumPartitions = 1 THEN StartInstance(s, m)
        ELSE IF target = p THEN StartInstance(s2, m)
        ELSE Emit(s2, Start(m, target))

\* One matching subscription of CorrelateMessage.
CorrelateOne(s, p, k, m) ==
    LET i == s.e.subs[k].inst
    IN  IF s.e.subs[k].state # "Open" THEN s
        ELSE IF setup.at[i] # p THEN Emit(Settle(s, k), Correlate(k, i, m))
        ELSE IF Suspended(s.e, i) THEN s
        ELSE AdvanceToken(s, p, k, i, m)

Matched(e, m) ==
    {k \in DOMAIN e.subs : e.subs[k].state = "Open" /\ setup.ck[e.subs[k].inst] = msgs[m]}
CorrelateAll(p, m) ==
    FoldLeft(LAMBDA acc, k : CorrelateOne(acc, p, k, m), Plan(p),
             SetToSortSeq(Matched(engine[p], m), Less))

\* Command::CorrelateMessage.  Start subscriptions are on partition 0 only.
CorrelateMessage(p, m) ==
    IF Matched(engine[p], m) = {} /\ p = 0 /\ setup.starts THEN StartOrDispatch(Plan(p), p, m)
    ELSE CorrelateAll(p, m)

\* Command::OpenMessageSubscription.
OpenMessageSubscription(p, k, i) ==
    LET s == Plan(p)
    IN  IF k \in DOMAIN s.e.subs THEN s
        ELSE [s EXCEPT !.e.subs = (k :> [inst |-> i, state |-> "Open"]) @@ @]

\* Mutants: the continuation finds no Open record; suspension is not looked at.
CorrelateOnlyOpen(p, k, i, m) ==
    LET s == Plan(p)
    IN  IF k \in DOMAIN s.e.subs /\ s.e.subs[k].state = "Open" /\ ~Suspended(s.e, i)
        THEN AdvanceToken(s, p, k, i, m) ELSE s

CorrelateSuspended(p, k, i, m) ==
    LET s == Plan(p)
    IN  IF k \in DOMAIN s.e.subs /\ s.e.subs[k].state = "Opening"
        THEN AdvanceToken(s, p, k, i, m) ELSE s

\* Command::CorrelateMessageSubscription.
CorrelateMessageSubscription(p, k, i, m) ==
    LET s == Plan(p)
    IN  IF k \in DOMAIN s.e.subs /\ s.e.subs[k].state = "Opening" /\ ~Suspended(s.e, i)
        THEN AdvanceToken(s, p, k, i, m) ELSE s

\* Command::CloseMessageSubscription.
CloseMessageSubscription(p, k) ==
    LET s == Plan(p)
    IN  IF k \in DOMAIN s.e.subs /\ s.e.subs[k].state = "Open"
        THEN [s EXCEPT !.e.subs[k].state = "Canceled"] ELSE s

\* Command::DispatchStartInstance.
DispatchStartInstance(p, m) == StartInstance(Plan(p), m)

-----------------------------------------------------------------------------
(***************************************************************************)
(* The host.  A command's plan becomes the partition's state; before       *)
(* anything outside the partition sees its events they are on disk, except *)
(* for job completions of a stream (`early').                              *)
(***************************************************************************)
Logged(e) == [e EXCEPT !.rr = 0]
Apply(p, s, durable) ==
    /\ engine' = [engine EXCEPT ![p] = s.e]
    /\ disk' = IF durable THEN [disk EXCEPT ![p] = Logged(s.e)] ELSE disk
    /\ hits' = s.hits /\ started' = s.started

\* A client's command on instance i; spawn_routing_if_needed.
Command(i, s, durable) ==
    /\ setup.inOrder => tasks = {}
    /\ Apply(setup.at[i], s, durable)
    /\ tasks' = tasks \cup Spawned(setup.owner[setup.at[i]], s.out)
    /\ UNCHANGED <<setup, msgs, faults>>

InstOf(i) == engine[setup.at[i]].inst[i]
Durability == IF "early" \in setup.faults THEN BOOLEAN ELSE {TRUE}

\* The job before the element completes.
CompleteJob(i) ==
    /\ InstOf(i).at = "job" /\ InstOf(i).state # "Ended"
    /\ engine[setup.at[i]].next < MaxKey
    /\ i \notin setup.forks
    /\ \E durable \in Durability :
          Command(i, Park(Plan(setup.at[i]), setup.at[i], i), durable)

\* The same where a fork leads to the element and to a terminate end.
CompleteFork(i) ==
    LET parked == Disarm(Park(Plan(setup.at[i]), setup.at[i], i), i)
    IN  /\ InstOf(i).at = "job" /\ InstOf(i).state # "Ended"
        /\ engine[setup.at[i]].next < MaxKey
        /\ i \in setup.forks
        /\ \E durable \in Durability :
              Command(i, [parked EXCEPT !.e.inst[i].state = "Ended",
                                        !.e.inst[i].sub = NoKey], durable)

\* The job of the guarded activity completes.
CompleteHost(i) ==
    /\ InstOf(i).at = "wait" /\ InstOf(i).state # "Ended"
    /\ setup.kind[i] # "catch"
    /\ \E durable \in Durability :
          Command(i, Leave(Disarm(Plan(setup.at[i]), i), setup.at[i], i), durable)

CancelInstance(i) ==
    /\ InstOf(i).state = "Active"
    /\ Command(i, [Disarm(Plan(setup.at[i]), i) EXCEPT !.e.inst[i].state = "Ended",
                                                       !.e.inst[i].sub = NoKey], TRUE)

\* SuspendInstance and ResumeInstance.
SuspendResume(i) ==
    /\ "suspend" \in setup.faults
    /\ \E swap \in {<<"Active", "Suspended">>, <<"Suspended", "Active">>} :
          /\ InstOf(i).state = swap[1]
          /\ Command(i, [Plan(setup.at[i]) EXCEPT !.e.inst[i].state = swap[2]], TRUE)

\* correlate_message_cluster at gateway g: its own partitions first, then the
\* other owners in turn.
TargetsAt(n, c) ==
    LET h == setup.home[c]
    IN  SelectSeq(IF h = 0 THEN <<0>> ELSE <<h, 0>>, LAMBDA p : setup.owner[p] = n)

Local(m, n, c) ==
    IF TargetsAt(n, c) = <<>> THEN <<>> ELSE <<Everywhere(m, TargetsAt(n, c), <<>>)>>

PublishMessage(c, g) ==
    LET m     == Len(msgs) + 1
        peers == {setup.owner[setup.home[c]], setup.owner[0]} \ {g}
        calls == [j \in 1 .. Cardinality(peers) |-> Fanout(m, SetToSortSeq(peers, >)[j])]
    IN  /\ Len(msgs) < MaxMsg
        /\ setup.inOrder => tasks = {}
        /\ msgs' = Append(msgs, c)
        /\ tasks' = tasks \cup Spawned(g, calls \o Local(m, g, c))
        /\ UNCHANGED <<setup, engine, disk, hits, started, faults>>

-----------------------------------------------------------------------------
(***************************************************************************)
(* The tasks.                                                              *)
(***************************************************************************)
\* route_event.
Target(ev) ==
    CASE ev.op \in {"open", "close"} -> HomeOf(ev.inst)
      [] ev.op = "correlate"         -> setup.at[ev.inst]
      [] ev.op = "start"             -> ev.to

Routed(ev) ==
    LET p == Target(ev)
    IN  CASE ev.op = "open"      -> OpenMessageSubscription(p, ev.key, ev.inst)
          [] ev.op = "close"     -> CloseMessageSubscription(p, ev.key)
          [] ev.op = "correlate" -> CorrelateMessageSubscription(p, ev.key, ev.inst, ev.msg)
          [] ev.op = "start"     -> DispatchStartInstance(p, ev.msg)

Top(t)   == Last(t)
Event(t) == Last(Top(t).todo)
Pop(t, more) == [t EXCEPT ![Len(t)].todo = Front(@) \o more]
IsRoutable(ev) == ev.op \in {"open", "close", "correlate", "start"}
PeerOf(ev) == IF ev.op = "fanout" THEN ev.node ELSE setup.owner[Target(ev)]

\* drive_subscription_routing, the target is a partition of this node.
RouteLocal(t) ==
    /\ IsRoutable(Event(t)) /\ PeerOf(Event(t)) = Top(t).node
    /\ \E s \in {Routed(Event(t))} :
          /\ Apply(Target(Event(t)), s, TRUE)
          /\ tasks' = Replace(t, Pop(t, s.out))
    /\ UNCHANGED <<setup, msgs, faults>>

\* correlate_message_everywhere: the next target of this node; the events of
\* all of them are pumped when the last one is done.
CorrelateNext(t) ==
    /\ Event(t).op = "everywhere"
    /\ \E ev \in {Event(t)} : \E s \in {CorrelateMessage(Head(ev.targets), ev.msg)} :
          LET out  == ev.out \o s.out
              rest == IF Len(ev.targets) = 1 THEN out
                      ELSE <<Everywhere(ev.msg, Tail(ev.targets), out)>>
          IN  /\ Apply(Head(ev.targets), s, TRUE)
              /\ tasks' = Replace(t, Pop(t, rest))
    /\ UNCHANGED <<setup, msgs, faults>>

\* forward_route_subscription and publish_message on a peer's link.
Forward(t) ==
    /\ Event(t).op # "everywhere" /\ PeerOf(Event(t)) # Top(t).node
    /\ LET ev   == Event(t)
           todo == IF ev.op = "fanout" THEN Local(ev.msg, ev.node, msgs[ev.msg]) ELSE <<ev>>
       IN  tasks' = Replace(t, Append(Pop(t, <<>>), Frame(PeerOf(ev), todo)))
    /\ UNCHANGED <<setup, engine, disk, msgs, hits, started, faults>>

TaskStep == \E t \in tasks : RouteLocal(t) \/ CorrelateNext(t) \/ Forward(t)

\* The peer is not reached: logged and dropped.
Lose(t) ==
    /\ "loss" \in setup.faults /\ faults < MaxFaults
    /\ Event(t).op # "everywhere" /\ PeerOf(Event(t)) # Top(t).node
    /\ tasks' = Replace(t, Pop(t, <<>>))
    /\ faults' = faults + 1
    /\ UNCHANGED <<setup, engine, disk, msgs, hits, started>>

\* The link fails before the answer: the caller goes on, and so does the peer.
Disconnect(t) ==
    /\ "loss" \in setup.faults /\ faults < MaxFaults
    /\ \E j \in 1 .. Len(t) - 1 :
          tasks' = (tasks \ {t}) \cup {SubSeq(t, 1, j), SubSeq(t, j + 1, Len(t))}
    /\ faults' = faults + 1
    /\ UNCHANGED <<setup, engine, disk, msgs, hits, started>>

\* A node goes down and is started again: its partitions are replayed, its
\* tasks are gone, a caller at another node sees the link fail.
Restart(n) ==
    LET down(f) == f.node = n
        pieces(t) == {SubSeq(t, a, b) : <<a, b>> \in
                        {<<a, b>> \in (1 .. Len(t)) \X (1 .. Len(t)) :
                            /\ a <= b /\ \A j \in a .. b : ~down(t[j])
                            /\ a = 1 \/ down(t[a - 1])
                            /\ b = Len(t) \/ down(t[b + 1])}}
    IN  /\ "crash" \in setup.faults /\ faults < MaxFaults
        /\ engine' = [p \in Partition |-> IF setup.owner[p] = n THEN disk[p] ELSE engine[p]]
        /\ tasks' = UNION {pieces(t) : t \in tasks}
        /\ faults' = faults + 1
        /\ UNCHANGED <<setup, disk, msgs, hits, started>>

\* The group commit catches up.
Fsync(p) ==
    /\ disk[p] # Logged(engine[p])
    /\ disk' = [disk EXCEPT ![p] = Logged(engine[p])]
    /\ UNCHANGED <<setup, engine, tasks, msgs, hits, started, faults>>

Next ==
    \/ \E i \in Inst : CompleteJob(i) \/ CompleteFork(i) \/ CompleteHost(i)
                       \/ CancelInstance(i) \/ SuspendResume(i)
    \/ \E c \in CorrKey, g \in Node : PublishMessage(c, g)
    \/ TaskStep
    \/ \E t \in tasks : Lose(t) \/ Disconnect(t)
    \/ \E n \in Node : Restart(n)
    \/ \E p \in Partition : Fsync(p)

\* Tasks are spawned on a live runtime and polled until they end.
Spec == Init /\ [][Next]_vars /\ WF_vars(TaskStep)

-----------------------------------------------------------------------------
(***************************************************************************)
(* Properties.                                                             *)
(***************************************************************************)
Engine(p) == [subs : {engine[p].subs}, next : 0 .. MaxKey, rr : Nat,
              inst : [InstAt(p) -> InstRec]]

\* Keys, records, instances and tasks are of their types.
TypeOK ==
    /\ setup \in Setup /\ msgs \in Seq(CorrKey) /\ faults \in 0 .. MaxFaults
    /\ \A p \in Partition :
          /\ engine[p] \in Engine(p)
          /\ DOMAIN engine[p].subs \subseteq Key
          /\ \A k \in DOMAIN engine[p].subs : engine[p].subs[k] \in Sub
    /\ \A t \in tasks : t # <<>> /\ \A j \in DOMAIN t : t[j].node \in Node /\ t[j].todo # <<>>

LocalOf(k) == engine[k[1]].subs[k]
IsOpening(k) == k \in DOMAIN engine[k[1]].subs /\ LocalOf(k).state = "Opening"
\* The canonical record of the subscription behind an Opening record is armed.
IsArmed(k) ==
    LET canonical == engine[HomeOf(LocalOf(k).inst)].subs
    IN  k \in DOMAIN canonical /\ canonical[k].state = "Open"

\* advance_correlated_token: a message advances the token of the instance whose
\* record it settles, with that instance's correlation key, at most once for
\* each subscription and message; a subscription that settles is used once.
\* Nothing but the Opening check of CorrelateMessageSubscription and the
\* settling of both records stands between a message and a second advance.
DeliveredOnce ==
    \A h \in BagToSet(hits) :
        /\ CopiesIn(h, hits) = 1
        /\ h.owner = h.inst /\ msgs[h.msg] = setup.ck[h.inst]
        /\ setup.kind[h.inst] # "nonInterrupting" =>
              \A g \in BagToSet(hits) : g.key = h.key => g = h

\* A correlation that was under way while the instance was suspended, ended or
\* moved on advances nothing: the token that advances is one that waits, in an
\* active instance, on this very subscription.
AdvancesWaiting ==
    [][\A h \in BagToSet(hits') \ BagToSet(hits) :
          LET i == InstOf(h.inst)
          IN  i.state = "Active" /\ i.at = "wait" /\ i.sub = h.key]_vars

\* An instance that waits has exactly one live record on its partition, the
\* one it waits on, open or opening by where its key hashes to; an ended one
\* has none (CancelInstance, cancel_boundary_message_subscriptions_on).
WaitsOnOne ==
    \A i \in Inst :
        LET p    == setup.at[i]
            live == {k \in DOMAIN engine[p].subs : engine[p].subs[k].inst = i
                                                   /\ engine[p].subs[k].state \in Live}
        IN  IF InstOf(i).state # "Ended" /\ InstOf(i).at = "wait"
            THEN live = {InstOf(i).sub} /\ LocalOf(InstOf(i).sub).state = Placement(p, i)
            ELSE live = {}

\* When no task is under way, every token parked on an Opening record has its
\* canonical record open, so the next message finds it.
ArmedWhenQuiet ==
    tasks = {} => \A k \in Key : IsOpening(k) => IsArmed(k)

\* A parked token whose canonical record is missing or has been claimed is
\* armed or released in the end: opens and correlations arrive.
RoutingSettles ==
    \A k \in Key : (IsOpening(k) /\ ~IsArmed(k)) ~> (IsOpening(k) => IsArmed(k))

\* When no task is under way, every open canonical record stands for a token
\* that waits on it: "so a stale subscription never correlates later".
NoStaleSubscription ==
    tasks = {} =>
        \A p \in Partition : \A k \in DOMAIN engine[p].subs :
            (engine[p].subs[k].state = "Open" /\ k[1] # p) => IsOpening(k)

Undisturbed == setup.faults \subseteq {"early"}

\* RoutingSettles where no node fails, no link breaks and nothing is suspended:
\* the open and the correlation that commands on one partition leave to the
\* host reach the other, however tasks overtake each other (route_event,
\* drive_subscription_routing).
OpensArrive == Undisturbed => RoutingSettles

\* NoStaleSubscription where the routing of each command ends before the next
\* command, and no command both parks and discards a token: every way a token
\* leaves its element closes the canonical record (disarm_subscription_event).
InOrderDisarms ==
    (setup.inOrder /\ Undisturbed /\ setup.forks = {}) => NoStaleSubscription

\* One publish does not both advance a waiting token and start an instance:
\* "the same publish must NOT also start a duplicate instance".
NoDuplicateStart ==
    \A h \in BagToSet(hits) : CopiesIn(h.msg, started) = 0

\* A message starts at most one instance, whichever partition it is put on.
StartsOnce ==
    \A m \in BagToSet(started) : CopiesIn(m, started) = 1
=============================================================================
