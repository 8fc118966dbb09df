----------------------------- MODULE ProcessTree -----------------------------
(***************************************************************************)
(* The life of process instances and of the call-activity children they    *)
(* spawn: creation, completion, cancellation (with `canceling` listeners), *)
(* suspension, interruption by a boundary timer, terminate end events.     *)
(*                                                                         *)
(* A command first changes the state and queues steps (plan_command_at);   *)
(* run_with then processes the steps in FIFO order, completes the          *)
(* instances that have run empty, and repeats; apply_command_at finally    *)
(* cancels the children of every instance that ended.  One writer applies  *)
(* the commands, so the next command starts when the drain is over (Idle). *)
(* The states in between are modelled one step at a time: what is queued   *)
(* behind a step that tears an instance down is the hard part.             *)
(*                                                                         *)
(* A process is a tree of elements, so that an element is entered once in  *)
(* an instance and its id stands for its element instance key.  Sub-       *)
(* processes, joins, multi-instance and ad-hoc bodies are left out.        *)
(***************************************************************************)
EXTENDS Integers, Sequences, FiniteSets, SequencesExt

CONSTANTS
    Processes,      \* process ids
    Initial,        \* the processes deployed at the start
    Roots,          \* the processes a client creates instances of
    Suspendable,    \* the processes an operator suspends instances of
    StartEvent,     \* [Processes -> Elements]
    Elements,
    Kind,           \* [Elements -> Kinds]
    Flows,          \* outgoing flows, [Elements -> Seq(Elements)]
    Callee,         \* [Elements -> Processes], of a call activity
    Boundary,       \* interrupting boundary timer of a call activity, or NoElement
    Listening,      \* the user tasks with a `canceling` listener
    NoElement,
    MaxDepth,       \* MAX_CALL_ACTIVITY_DEPTH
    MaxKey,         \* bound: instance keys
    TreeSize        \* bound: the instances one root may come to

Kinds == {"pass", "task", "user", "call", "end", "terminate"}
Keys  == 1 .. MaxKey
NoKey == 0

ASSUME TreeAssumption ==
    /\ NoElement \notin Elements /\ Processes # {}
    /\ Initial \subseteq Processes /\ Roots \subseteq Processes
    /\ StartEvent \in [Processes -> Elements]
    /\ Kind \in [Elements -> Kinds]
    /\ Flows \in [Elements -> Seq(Elements)]
    /\ Callee \in [Elements -> Processes]
    /\ Boundary \in [Elements -> Elements \cup {NoElement}]
    /\ Listening \subseteq Elements
    /\ MaxDepth \in Nat /\ MaxKey \in Nat /\ TreeSize \in Nat \ {0}

VARIABLES
    deployed,       \* state.processes
    instance,       \* state.instances, with the jobs, user tasks, timers and incidents of each
    next_key,
    due,            \* the due timers TriggerTimers has yet to look at
    queue,          \* the step queue of run_with
    touched,        \* the instances some event of the command's log names
    ended           \* those the log completes or terminates

drain == <<due, queue, touched, ended>>
vars  == <<deployed, instance, next_key, drain>>

States == {"None", "Active", "Suspended", "Terminating", "Completed", "Terminated"}
Over   == {"Completed", "Terminated"}
Live   == {"Active", "Suspended", "Terminating"}

\* A job or user task; Canceling is a created user task whose canceling
\* listener has not answered.
Works  == {"None", "Created", "Activated", "Canceling", "Completed", "Canceled"}
Open   == {"Created", "Activated", "Canceling"}

InstanceRecord ==
    [state : States, process : Processes, parent : Keys \cup {NoKey},
     call : Elements \cup {NoElement}, active : SUBSET Elements,
     work : [Elements -> Works], timers : SUBSET Elements, incidents : SUBSET Elements]

Step(op, k, e) == [op |-> op, key |-> k, elem |-> e]
Steps == [op : {"Activate", "Complete", "CompleteCallActivity", "RetryCallActivitySpawn"},
          key : Keys, elem : Elements]

Idle == queue = << >> /\ due = {} /\ touched = {} /\ ended = {}

-----------------------------------------------------------------------------
(* The appliers                                                            *)

ProcessInstanceCreated(p, parent, call) ==
    [state |-> "Active", process |-> p, parent |-> parent, call |-> call,
     active |-> {}, work |-> [e \in Elements |-> "None"], timers |-> {}, incidents |-> {}]

ElementActivated(r, e) == [r EXCEPT !.active = @ \cup {e}]

\* With the disarming of the element's boundary timer, which every caller adds.
ElementCompleted(r, e) == [r EXCEPT !.active = @ \ {e}, !.timers = @ \ {e}]

ProcessInstanceCompleted(r) == [r EXCEPT !.state = "Completed", !.active = {}]

ProcessInstanceTerminated(r) ==
    [r EXCEPT !.state = "Terminated", !.active = {}, !.incidents = {}]

\* discard_instance_token_events: cancel what the tokens wait on.
DiscardTokens(r) ==
    [r EXCEPT !.work = [e \in Elements |-> IF r.work[e] \in Open THEN "Canceled" ELSE r.work[e]],
              !.timers = {}]

DiscardAndTerminate(r) == ProcessInstanceTerminated(DiscardTokens(r))

-----------------------------------------------------------------------------
(* Call activities                                                         *)

\* The number of ancestors, counted no further than the cap.
call_activity_depth(k) ==
    LET climb[n \in 0 .. MaxDepth] ==
            IF n = 0 THEN k
            ELSE IF climb[n - 1] = NoKey THEN NoKey ELSE instance[climb[n - 1]].parent
    IN  Cardinality({n \in 1 .. MaxDepth : climb[n] # NoKey})

TooDeep(k) == call_activity_depth(k) >= MaxDepth

\* Reaps only a running child.
ReapableRunning == {"Active"}

\* The states in which a cascade or an interruption finds a child.
Reapable == {"Active", "Terminating"}

\* The step that releases the parent of k, if its token is still parked.
call_activity_completion_step(k) ==
    LET p == instance[k].parent
        c == instance[k].call
    IN  IF p # NoKey /\ c \in instance[p].active
        THEN <<Step("CompleteCallActivity", p, c)>> ELSE << >>

call_activity_child_of(k, e) ==
    LET found == {c \in Keys : instance[c].parent = k /\ instance[c].call = e
                                /\ instance[c].state \in Reapable}
    IN  {c \in found : \A d \in found : c <= d}

\* spawn_call_activity_instance for the call activity e of k, whose record
\* has become r: a child, or an incident when the callee is unknown or the
\* chain is too deep.
SpawnChild(k, r, e, rest) ==
    IF TooDeep(k) \/ Callee[e] \notin deployed
    THEN /\ instance' = [instance EXCEPT ![k] = [r EXCEPT !.incidents = @ \cup {e}]]
         /\ queue' = rest
         /\ touched' = touched \cup {k}
         /\ UNCHANGED next_key
    ELSE /\ next_key \in Keys                    \* bound
         /\ instance' = [instance EXCEPT ![k] = r,
                             ![next_key] = ProcessInstanceCreated(Callee[e], k, e)]
         /\ queue' = Append(rest, Step("Activate", next_key, StartEvent[Callee[e]]))
         /\ touched' = touched \cup {k, next_key}
         /\ next_key' = next_key + 1

-----------------------------------------------------------------------------
(* run_with: the steps                                                     *)

step_targets_dead_scope(s) ==
    \/ instance[s.key].state = "Terminated"
    \/ /\ s.op \in {"Complete", "RetryCallActivitySpawn"}
       /\ s.elem \notin instance[s.key].active

ActivateAll(k, e) == [n \in 1 .. Len(Flows[e]) |-> Step("Activate", k, Flows[e][n])]

\* The head of the queue is a step op that process_step does not drop.
Takes(op) ==
    /\ due = {}
    /\ queue # << >>
    /\ Head(queue).op = op
    /\ ~step_targets_dead_scope(Head(queue))
    /\ UNCHANGED <<deployed, due>>

DropStep ==
    /\ due = {}
    /\ queue # << >>
    /\ step_targets_dead_scope(Head(queue))
    /\ queue' = Tail(queue)
    /\ UNCHANGED <<deployed, instance, next_key, due, touched, ended>>

\* Start and boundary events, gateways and end events complete at once.
ActivatePass ==
    /\ Takes("Activate")
    /\ LET k == Head(queue).key
           e == Head(queue).elem
       IN  /\ Kind[e] \in {"pass", "end", "terminate"}
           /\ instance' = [instance EXCEPT ![k] = ElementActivated(@, e)]
           /\ queue' = Append(Tail(queue), Step("Complete", k, e))
           /\ touched' = touched \cup {k}
    /\ UNCHANGED <<next_key, ended>>

\* A service or user task parks its token on a job or on a user task.
ActivateTask ==
    /\ Takes("Activate")
    /\ LET k == Head(queue).key
           e == Head(queue).elem
       IN  /\ Kind[e] \in {"task", "user"}
           /\ instance' = [instance EXCEPT ![k] =
                              [ElementActivated(@, e) EXCEPT !.work[e] = "Created"]]
           /\ touched' = touched \cup {k}
    /\ queue' = Tail(queue)
    /\ UNCHANGED <<next_key, ended>>

\* A call activity arms its boundary timer, then spawns its child.
ActivateCallActivity ==
    /\ Takes("Activate")
    /\ LET k == Head(queue).key
           e == Head(queue).elem
           r == ElementActivated(instance[k], e)
       IN  /\ Kind[e] = "call"
           /\ SpawnChild(k, [r EXCEPT !.timers = IF Boundary[e] = NoElement THEN @ ELSE @ \cup {e}],
                         e, Tail(queue))
    /\ UNCHANGED ended

RetryCallActivitySpawn ==
    /\ Takes("RetryCallActivitySpawn")
    /\ SpawnChild(Head(queue).key, instance[Head(queue).key], Head(queue).elem, Tail(queue))
    /\ UNCHANGED ended

Complete ==
    /\ Takes("Complete")
    /\ LET k == Head(queue).key
           e == Head(queue).elem
       IN  /\ Kind[e] # "terminate"
           /\ instance' = [instance EXCEPT ![k] = ElementCompleted(@, e)]
           /\ queue' = Tail(queue) \o ActivateAll(k, e)
           /\ touched' = touched \cup {k}
    /\ UNCHANGED <<next_key, ended>>

\* Does not release the parent.
CompleteTerminateEndAlone ==
    /\ Takes("Complete")
    /\ LET k == Head(queue).key
           e == Head(queue).elem
           r == DiscardTokens(ElementCompleted(instance[k], e))
       IN  /\ Kind[e] = "terminate"
           /\ instance' = [instance EXCEPT ![k] =
                              ProcessInstanceCompleted([r EXCEPT !.incidents = {}])]
           /\ touched' = touched \cup {k}
           /\ ended' = ended \cup {k}
    /\ queue' = Tail(queue)
    /\ UNCHANGED next_key

\* The step that releases the parent is decided before the events apply.
CompleteTerminateEnd ==
    /\ Takes("Complete")
    /\ LET k == Head(queue).key
           e == Head(queue).elem
           r == DiscardTokens(ElementCompleted(instance[k], e))
       IN  /\ Kind[e] = "terminate"
           /\ instance' = [instance EXCEPT ![k] =
                              ProcessInstanceCompleted([r EXCEPT !.incidents = {}])]
           /\ queue' = Tail(queue) \o call_activity_completion_step(k)
           /\ touched' = touched \cup {k}
           /\ ended' = ended \cup {k}
    /\ UNCHANGED next_key

\* The child has finished; a token that has left in the meantime is left alone.  (An output
\* mapping that fails, which parks the token on an incident, is left out.)
CompleteCallActivity ==
    /\ Takes("CompleteCallActivity")
    /\ LET k == Head(queue).key
           e == Head(queue).elem
       IN  IF e \in instance[k].active
           THEN /\ instance' = [instance EXCEPT ![k] = ElementCompleted(@, e)]
                /\ queue' = Tail(queue) \o ActivateAll(k, e)
                /\ touched' = touched \cup {k}
           ELSE /\ queue' = Tail(queue)
                /\ UNCHANGED <<instance, touched>>
    /\ UNCHANGED <<next_key, ended>>

-----------------------------------------------------------------------------
(* run_with: what follows the steps                                        *)

\* The instances of the log that have run empty, and those of them that release a parent.
Finished == {k \in touched : instance[k].state = "Active" /\ instance[k].active = {}}

Releasing == {k \in Finished : call_activity_completion_step(k) # << >>}

InKeyOrder(S) == [n \in 1 .. Cardinality(S) |-> CHOOSE k \in S : Cardinality({j \in S : j <= k}) = n]

complete_finished_instances ==
    /\ due = {} /\ queue = << >> /\ Finished # {}
    /\ instance' = [k \in Keys |-> IF k \in Finished THEN ProcessInstanceCompleted(instance[k])
                                   ELSE instance[k]]
    /\ queue' = [n \in 1 .. Cardinality(Releasing) |->
                    Head(call_activity_completion_step(InKeyOrder(Releasing)[n]))]
    /\ ended' = ended \cup Finished
    /\ UNCHANGED <<deployed, next_key, due, touched>>

\* Finds children that have ended again.
ChildrenOfEndedAgain == {c \in Keys : instance[c].state # "None" /\ instance[c].parent \in ended}

ChildrenOfEnded == {c \in Keys : instance[c].state \in Reapable /\ instance[c].parent \in ended}

Drained == due = {} /\ queue = << >> /\ Finished = {}

\* One pass of the loop of cascade_cancel_children.
cascade_cancel_children ==
    /\ Drained /\ ChildrenOfEnded # {}
    /\ instance' = [k \in Keys |-> IF k \in ChildrenOfEnded THEN DiscardAndTerminate(instance[k])
                                   ELSE instance[k]]
    /\ ended' = ended \cup ChildrenOfEnded
    /\ touched' = touched \cup ChildrenOfEnded
    /\ UNCHANGED <<deployed, next_key, due, queue>>

\* The end of the command.
Quiesce ==
    /\ Drained /\ ChildrenOfEnded = {} /\ ~Idle
    /\ touched' = {} /\ ended' = {}
    /\ UNCHANGED <<deployed, instance, next_key, due, queue>>

-----------------------------------------------------------------------------
(* The commands: plan_command_at                                           *)

\* A command whose events name k and that queues the steps s.
Command(k, s) ==
    /\ Idle
    /\ touched' = {k}
    /\ queue' = s
    /\ UNCHANGED <<deployed, next_key, due>>

DeployProcess(p) ==
    /\ Idle
    /\ p \notin deployed
    /\ deployed' = deployed \cup {p}
    /\ UNCHANGED <<instance, next_key, drain>>

CreateInstance(p) ==
    /\ Idle
    /\ p \in deployed
    /\ (Cardinality({k \in Keys : instance[k].state # "None" /\ instance[k].parent = NoKey}) + 1)
          * TreeSize <= MaxKey                   \* bound
    /\ next_key \in Keys                         \* bound
    /\ instance' = [instance EXCEPT ![next_key] = ProcessInstanceCreated(p, NoKey, NoElement)]
    /\ next_key' = next_key + 1
    /\ queue' = <<Step("Activate", next_key, StartEvent[p])>>
    /\ touched' = {next_key}
    /\ UNCHANGED <<deployed, due, ended>>

\* A worker polls: the jobs of a suspended instance are withheld.
ActivateJob(k, e) ==
    /\ Idle
    /\ Kind[e] = "task" /\ instance[k].work[e] = "Created"
    /\ instance[k].state # "Suspended"
    /\ instance' = [instance EXCEPT ![k].work[e] = "Activated"]
    /\ UNCHANGED <<deployed, next_key, drain>>

CompleteJob(k, e) ==
    /\ instance[k].work[e] = "Activated"
    /\ Command(k, <<Step("Complete", k, e)>>)
    /\ instance' = [instance EXCEPT ![k].work[e] = "Completed"]
    /\ UNCHANGED ended

CompleteUserTask(k, e) ==
    /\ Kind[e] = "user" /\ instance[k].work[e] = "Created"
    /\ Command(k, <<Step("Complete", k, e)>>)
    /\ instance' = [instance EXCEPT ![k].work[e] = "Completed"]
    /\ UNCHANGED ended

\* The created user tasks of r whose canceling listener must run first.
Deferred(r) == {e \in Listening : r.work[e] = "Created"}

CancelInstance(k) ==
    /\ instance[k].state = "Active"
    /\ Command(k, << >>)
    /\ LET r == instance[k]
       IN  IF Deferred(r) = {}
           THEN /\ instance' = [instance EXCEPT ![k] = DiscardAndTerminate(r)]
                /\ ended' = {k}
           ELSE /\ instance' = [instance EXCEPT ![k] =
                       [DiscardTokens(r) EXCEPT !.state = "Terminating",
                           !.work = [e \in Elements |-> IF e \in Deferred(r) THEN "Canceling"
                                                        ELSE @[e]]]]
                /\ UNCHANGED ended

\* Terminates the instance with the first listener that answers.
OthersCancelingIgnored(r, e) == {}

\* The other user tasks of r whose canceling listener has not answered.
OthersCanceling(r, e) == {f \in Elements \ {e} : r.work[f] = "Canceling"}

\* The listener job completes: the last one ends a terminating instance.
CompleteListener(k, e) ==
    /\ instance[k].work[e] = "Canceling"
    /\ Command(k, << >>)
    /\ LET r == [instance[k] EXCEPT !.work[e] = "Canceled"]
       IN  IF r.state = "Terminating" /\ OthersCanceling(r, e) = {}
           THEN /\ instance' = [instance EXCEPT ![k] = ProcessInstanceTerminated(r)]
                /\ ended' = {k}
           ELSE /\ instance' = [instance EXCEPT ![k] = r]
                /\ UNCHANGED ended

SuspendInstance(k) ==
    /\ instance[k].state = "Active" /\ instance[k].process \in Suspendable
    /\ Command(k, << >>)
    /\ instance' = [instance EXCEPT ![k].state = "Suspended"]
    /\ UNCHANGED ended

\* An event without the instance's key: the drain does not look at the instance.
ResumeInstanceUnseen(k) ==
    /\ Idle
    /\ instance[k].state = "Suspended"
    /\ instance' = [instance EXCEPT ![k].state = "Active"]
    /\ UNCHANGED <<deployed, next_key, drain>>

ResumeInstance(k) ==
    /\ instance[k].state = "Suspended"
    /\ Command(k, << >>)
    /\ instance' = [instance EXCEPT ![k].state = "Active"]
    /\ UNCHANGED ended

ResolveIncident(k, e) ==
    /\ e \in instance[k].incidents
    /\ Command(k, <<Step("RetryCallActivitySpawn", k, e)>>)
    /\ instance' = [instance EXCEPT ![k].incidents = @ \ {e}]
    /\ UNCHANGED ended

\* Any set of armed timers may be due together.
TriggerTimers(fired) ==
    /\ Idle
    /\ fired # {}
    /\ \A t \in fired : t[2] \in instance[t[1]].timers /\ instance[t[1]].state # "Suspended"
    /\ due' = fired
    /\ UNCHANGED <<deployed, instance, next_key, queue, touched, ended>>

\* TriggerTimers re-checks each timer: an earlier one may have canceled it.
StillArmed(k, e) == e \in instance[k].timers

\* interrupt_activity_via_boundary on a call activity: its child, if any is
\* found, is terminated; the token leaves through the boundary event.
FireTimer(k, e) ==
    /\ <<k, e>> \in due
    /\ due' = due \ {<<k, e>>}
    /\ IF StillArmed(k, e)
       THEN LET child == call_activity_child_of(k, e)
            IN  /\ instance' = [i \in Keys |->
                       IF i = k THEN ElementCompleted(instance[k], e)
                       ELSE IF i \in child THEN DiscardAndTerminate(instance[i])
                       ELSE instance[i]]
                /\ queue' = Append(queue, Step("Activate", k, Boundary[e]))
                /\ touched' = touched \cup {k} \cup child
                /\ ended' = ended \cup child
       ELSE UNCHANGED <<instance, queue, touched, ended>>
    /\ UNCHANGED <<deployed, next_key>>

-----------------------------------------------------------------------------
Init ==
    /\ deployed = Initial
    /\ instance = [k \in Keys |-> [ProcessInstanceCreated(CHOOSE p \in Processes : TRUE, NoKey, NoElement)
                                      EXCEPT !.state = "None"]]
    /\ next_key = 1
    /\ due = {} /\ queue = << >> /\ touched = {} /\ ended = {}

Drain ==
    \/ DropStep \/ ActivatePass \/ ActivateTask \/ ActivateCallActivity
    \/ RetryCallActivitySpawn \/ Complete \/ CompleteTerminateEnd \/ CompleteCallActivity
    \/ complete_finished_instances \/ cascade_cancel_children \/ Quiesce
    \/ \E k \in Keys, e \in Elements : FireTimer(k, e)

Next ==
    \/ Drain
    \/ \E p \in Processes : DeployProcess(p)
    \/ \E p \in Roots : CreateInstance(p)
    \/ \E k \in Keys : CancelInstance(k) \/ SuspendInstance(k) \/ ResumeInstance(k)
    \/ \E k \in Keys, e \in Elements :
           \/ ActivateJob(k, e) \/ CompleteJob(k, e) \/ CompleteUserTask(k, e)
           \/ CompleteListener(k, e) \/ ResolveIncident(k, e)
    \/ \E fired \in SUBSET {t \in Keys \X Elements : t[2] \in instance[t[1]].timers} :
           TriggerTimers(fired)

Spec == Init /\ [][Next]_vars

\* run_with and cascade_cancel_children loop until nothing is left to do,
\* before the writer returns to its mailbox.
FairSpec == Spec /\ WF_vars(Drain)

-----------------------------------------------------------------------------
(* Shapes of processes, for the properties that not every shape has (see the README). *)

\* A terminate end is reached from a task alone: when it is taken, no step is queued beside it.
TerminateAlone ==
    \A e \in Elements : Kind[e] = "terminate" =>
        /\ \A p \in Processes : StartEvent[p] # e
        /\ \A f \in Elements : Boundary[f] # e
        /\ \A f \in Elements : e \in ToSet(Flows[f]) =>
              Kind[f] \in {"task", "user"} /\ Len(Flows[f]) = 1

\* Nothing but events and gateways (the elements quiet) follows a call activity of a process
\* that has canceling listeners; home gives each element its process.
QuietAfterCalls(home, quiet) ==
    /\ \A p \in Processes : home[StartEvent[p]] = p
    /\ \A e \in Elements : \A f \in ToSet(Flows[e]) : home[f] = home[e]
    /\ \A e \in Elements : Boundary[e] # NoElement => home[Boundary[e]] = home[e]
    /\ \A e \in quiet : Kind[e] \in {"pass", "end"} /\ ToSet(Flows[e]) \subseteq quiet
    /\ \A c \in Elements : Kind[c] = "call" /\ (\E l \in Listening : home[l] = home[c]) =>
            ToSet(Flows[c]) \subseteq quiet

-----------------------------------------------------------------------------
(* Properties                                                              *)

\* Instances, steps and keys are of their kinds.  (That a root comes to no more
\* instances than its tree has nodes shows in DrainEnds: a spawn beyond MaxKey
\* would leave its step in the queue.)
TypeOK ==
    /\ deployed \subseteq Processes
    /\ instance \in [Keys -> InstanceRecord]
    /\ next_key \in 1 .. MaxKey + 1
    /\ due \subseteq Keys \X Elements
    /\ queue \in Seq(Steps)
    /\ touched \subseteq Keys /\ ended \subseteq Keys

\* No orphan (cascade_cancel_children, interrupt_activity_via_boundary): a live
\* call-activity child has a live parent whose token still waits for it.
ChildHasParent ==
    Idle => \A k \in Keys :
        instance[k].state \in Live /\ instance[k].parent # NoKey =>
            /\ instance[instance[k].parent].state \in Live
            /\ instance[k].call \in instance[instance[k].parent].active

\* No token is stranded: between commands a token of a running instance waits
\* on a job or user task in play, on an incident, or on a child that has not
\* completed.  (A child an operator cancels does not release its parent.)
TokenIsDriven ==
    Idle => \A k \in Keys : instance[k].state \in {"Active", "Suspended"} =>
        \A e \in instance[k].active :
            \/ instance[k].work[e] \in Open
            \/ e \in instance[k].incidents
            \/ \E c \in Keys : /\ instance[c].parent = k /\ instance[c].call = e
                               /\ instance[c].state \in Live \cup {"Terminated"}

\* No work without a token (discard_instance_token_events, step_targets_dead_scope):
\* between commands, a job or user task that can still be completed and a timer
\* that can still fire belong to a live instance that holds the token.  A
\* canceling listener is such work: its instance waits for it.
WorkHasToken ==
    Idle => \A k \in Keys, e \in Elements :
        instance[k].work[e] \in Open \/ e \in instance[k].timers =>
            instance[k].state \in Live /\ e \in instance[k].active

\* An instance that runs out of tokens completes by the end of the command that
\* took the last one, or by that of its resumption if it was suspended then.
EmptyCompletes == Idle => \A k \in Keys : instance[k].state = "Active" => instance[k].active # {}

\* An instance that has ended stays as it ended and gets no token back.
EndIsFinal ==
    [][\A k \in Keys : instance[k].state \in Over =>
          instance'[k].state = instance[k].state /\ instance'[k].active = {}]_vars

\* Every command comes to an end.
DrainEnds == ~Idle ~> Idle
==============================================================================
