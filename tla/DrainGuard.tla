------------------------------ MODULE DrainGuard ------------------------------
(***************************************************************************)
(* The drain-stall admission guard (nano-server-runtime, drain_guard.rs):  *)
(* a token bucket that completions fill and submission-credit grants       *)
(* spend, and the ~1 Hz monitor that switches it on (metering) and closes  *)
(* the hard valve (halted).                                                *)
(*                                                                         *)
(* The bucket is lock free: every atomic access of note_completion,        *)
(* take_credits, publish, set_mint_permille and refill_full is a step of   *)
(* its own.  All accesses of one atomic are totally ordered and no         *)
(* property relates reads of two of them by one thread, so the steps are   *)
(* sequentially consistent although the code asks for Relaxed only.        *)
(*                                                                         *)
(* The loop is closed: credits become instances, instances are the backlog *)
(* the monitor samples.  The admission cap and the liveness of the engine  *)
(* actor come from outside and are arbitrary at every sample.              *)
(***************************************************************************)
EXTENDS Integers, FiniteSets

CONSTANTS
    Completers,       \* threads that apply completions
    Granters,         \* threads that grant submission credits
    Capacity,         \* DrainGuardCfg::burst
    Whole,            \* the 1000 of the permille arithmetic
    MintFloor,        \* drain_mint_floor_permille, out of Whole
    Caps,             \* admission setpoints a sample may carry; 0 is none
    EngageBacklog, ReleaseBacklog, EngagePct, ReleasePct,
    EngageTicks, ReleaseTicks,
    HaltFloor, RecoverRate, HaltMinBacklog, HaltArmPct,
    HaltEngageTicks, HaltReleaseTicks,
    Window,           \* submission window: credits outstanding at a time
    MaxBacklog,       \* bound: instances in flight
    MaxCompletions    \* bound: completions in all

ASSUME GuardAssumption ==
    /\ IsFiniteSet(Completers) /\ Completers \cap Granters = {}
    /\ Capacity \in Nat \ {0} /\ Whole \in Nat \ {0} /\ MintFloor \in 0 .. Whole
    /\ Caps \subseteq Nat
    /\ \A n \in {EngageBacklog, ReleaseBacklog, EngagePct, ReleasePct, EngageTicks, ReleaseTicks,
                 HaltFloor, RecoverRate, HaltMinBacklog, HaltArmPct, HaltEngageTicks,
                 HaltReleaseTicks, Window, MaxBacklog, MaxCompletions} : n \in Nat

VARIABLES
    budget, mint_permille, mint_acc, metering, halted,  \* the atomics of DrainGuard
    sm,               \* DrainStateMachine
    decision,         \* what the monitor is about to publish
    mpc,              \* the monitor's next store
    completions,      \* the completion counter
    sampled,          \* its value at the monitor's last sample
    thread,           \* where each thread is, what it has loaded, what it wants
    backlog,          \* active instances
    credits,          \* submission credits outstanding, per granter's connection
    \* history
    granted,          \* credits taken from the bucket since it was last re-pinned full
    returned,         \* completions that may mint into it since then
    minted            \* mints the fractional path has started

atomics == <<budget, mint_permille, mint_acc, metering, halted>>
monitor == <<sm, decision, mpc, sampled>>
history == <<granted, returned, minted>>
vars    == <<atomics, monitor, completions, thread, backlog, credits, history>>

Rest == [pc |-> "idle", cur |-> 0, want |-> 0]
Goto(t, pc, cur) == thread' = [thread EXCEPT ![t].pc = pc, ![t].cur = cur]
Larger(a, b) == IF a >= b THEN a ELSE b
Smaller(a, b) == IF a <= b THEN a ELSE b
Within(x, lo, hi) == IF x < lo THEN lo ELSE IF x > hi THEN hi ELSE x

-----------------------------------------------------------------------------
(* note_completion and mint_one                                            *)

\* An instance completes; the counter is bumped first.
NoteCompletion(c) ==
    /\ thread[c].pc = "idle"
    /\ backlog > 0 /\ completions < MaxCompletions          \* bound
    /\ completions' = completions + 1
    /\ backlog' = backlog - 1
    /\ returned' = returned + 1
    /\ Goto(c, "noted", 0)
    /\ UNCHANGED <<atomics, monitor, credits, granted, minted>>

\* Load the mint ratio: a whole token, none, or a fraction.
LoadPermille(c) ==
    /\ thread[c].pc = "noted"
    /\ IF mint_permille >= Whole THEN Goto(c, "mint", 0)
       ELSE IF mint_permille <= 0 THEN Goto(c, "idle", 0)
       ELSE Goto(c, "accumulate", mint_permille)
    /\ UNCHANGED <<atomics, monitor, completions, backlog, credits, history>>

\* Sees a boundary only when the sum lands on it.
CrossesExactly(before, permille) == (before + permille) % Whole = 0

Crosses(before, permille) == (before + permille) \div Whole > before \div Whole

\* fetch_add: the interval [before, after) is this caller's own.
Accumulate(c) ==
    /\ thread[c].pc = "accumulate"
    /\ mint_acc' = mint_acc + thread[c].cur
    /\ IF Crosses(mint_acc, thread[c].cur)
       THEN Goto(c, "mint", 0) /\ minted' = minted + 1
       ELSE Goto(c, "idle", 0) /\ UNCHANGED minted
    /\ UNCHANGED <<budget, mint_permille, metering, halted, monitor, completions,
                   backlog, credits, granted, returned>>

\* The first load of mint_one; a full bucket is left alone.
LoadForMint(c) ==
    /\ thread[c].pc = "mint"
    /\ IF budget < Capacity THEN Goto(c, "minting", budget) ELSE Goto(c, "idle", 0)
    /\ UNCHANGED <<atomics, monitor, completions, backlog, credits, history>>

\* compare_exchange_weak: it may fail even when the value matches.
MintOne(c) ==
    /\ thread[c].pc = "minting"
    /\ \/ /\ budget = thread[c].cur
          /\ budget' = budget + 1 /\ Goto(c, "idle", 0)
       \/ /\ IF budget < Capacity THEN Goto(c, "minting", budget) ELSE Goto(c, "idle", 0)
          /\ UNCHANGED budget
    /\ UNCHANGED <<mint_permille, mint_acc, metering, halted, monitor, completions,
                   backlog, credits, history>>

-----------------------------------------------------------------------------
(* grant_submission_credit_if_clear and take_credits                       *)

\* The valve and the servo are looked at once; below the band the whole
\* request, up to the connection's window, is granted.
Grant(g) ==
    /\ thread[g].pc = "idle"
    /\ credits[g] < Window /\ ~halted
    /\ IF metering
       THEN /\ thread' = [thread EXCEPT ![g] = [pc |-> "load", cur |-> 0, want |-> Window - credits[g]]]
            /\ UNCHANGED credits
       ELSE /\ credits' = [credits EXCEPT ![g] = Window]
            /\ UNCHANGED thread
    /\ UNCHANGED <<atomics, monitor, completions, backlog, history>>

LoadForTake(g) ==
    /\ thread[g].pc = "load"
    /\ IF budget <= 0 THEN Goto(g, "idle", 0) ELSE Goto(g, "taking", budget)
    /\ UNCHANGED <<atomics, monitor, completions, backlog, credits, history>>

\* The exchange that succeeds on cur.
Take(g, cur) ==
    LET grant == Smaller(thread[g].want, cur)
    IN  /\ budget' = cur - grant
        /\ credits' = [credits EXCEPT ![g] = @ + grant]
        /\ granted' = granted + grant
        /\ Goto(g, "idle", 0)

\* Stores what it computed from a value that may be old.
TakeCreditsStored(g) ==
    /\ thread[g].pc = "taking"
    /\ Take(g, thread[g].cur)
    /\ UNCHANGED <<mint_permille, mint_acc, metering, halted, monitor, completions,
                   backlog, returned, minted>>

TakeCredits(g) ==
    /\ thread[g].pc = "taking"
    /\ \/ budget = thread[g].cur /\ Take(g, budget)
       \/ /\ IF budget <= 0 THEN Goto(g, "idle", 0) ELSE Goto(g, "taking", budget)
          /\ UNCHANGED <<budget, credits, granted>>
    /\ UNCHANGED <<mint_permille, mint_acc, metering, halted, monitor, completions,
                   backlog, returned, minted>>

\* A client spends a credit on a create, which the valve sheds while halted.
CreateInstance(g) ==
    /\ credits[g] > 0 /\ ~halted
    /\ backlog < MaxBacklog                                 \* bound
    /\ credits' = [credits EXCEPT ![g] = @ - 1]
    /\ backlog' = backlog + 1
    /\ UNCHANGED <<atomics, monitor, completions, thread, history>>

-----------------------------------------------------------------------------
(* DrainStateMachine::observe.  A tick counter is only compared with its   *)
(* threshold and stops there; the code's saturates at 2^32 - 1.            *)

Count(holds, n, threshold) == IF holds THEN Smaller(n + 1, threshold) ELSE 0

EngageLevel(cap)  == IF cap > 0 THEN (cap * EngagePct) \div 100 ELSE EngageBacklog
ReleaseLevel(cap) == IF cap > 0 THEN (cap * ReleasePct) \div 100 ELSE ReleaseBacklog
HaltLevel(cap)    == IF cap > 0 THEN Larger((cap * HaltArmPct) \div 100, HaltMinBacklog)
                     ELSE HaltMinBacklog

\* The servo: engages and releases on the backlog, with a dwell each way.
Servo(m, cap) ==
    LET engage  == Count(backlog >= EngageLevel(cap), m.engage, EngageTicks)
        release == Count(backlog <= ReleaseLevel(cap), m.release, ReleaseTicks)
    IN  IF ~m.metering
        THEN IF engage >= EngageTicks
             THEN [m EXCEPT !.metering = TRUE, !.engage = engage, !.release = 0]
             ELSE [m EXCEPT !.engage = engage]
        ELSE IF release >= ReleaseTicks
             THEN [m EXCEPT !.metering = FALSE, !.engage = 0, !.release = release]
             ELSE [m EXCEPT !.release = release]

\* The hard valve: closes on a sustained stall, opens on a sustained recovery.
Valve(m, rate, cap, alive) ==
    LET stall   == Count(rate <= HaltFloor /\ alive /\ backlog >= HaltLevel(cap),
                         m.stall, HaltEngageTicks)
        recover == Count(rate >= RecoverRate, m.recover, HaltReleaseTicks)
        closed  == IF m.halted THEN recover < HaltReleaseTicks ELSE stall >= HaltEngageTicks
    IN  [m EXCEPT !.stall = stall, !.recover = recover, !.halted = closed,
                  !.metering = @ \/ closed]

MintRatio(m, cap) ==
    IF m.halted THEN 0
    ELSE IF m.metering /\ cap > 0 /\ backlog > cap
    THEN Within((cap * Whole) \div backlog, MintFloor, Whole)
    ELSE Whole

\* The monitor's tick: sample, observe, then store the outcome piece by piece.
Observe(cap, alive) ==
    /\ mpc = "sample"
    /\ LET m == Valve(Servo(sm, cap), completions - sampled, cap, alive)
       IN  /\ sm' = m
           /\ decision' = [metering |-> m.metering, halted |-> m.halted,
                           mint_permille |-> MintRatio(m, cap)]
    /\ sampled' = completions
    /\ mpc' = "metering"
    /\ UNCHANGED <<atomics, completions, thread, backlog, credits, history>>

PublishMetering ==
    /\ mpc = "metering" /\ mpc' = "halted"
    /\ metering' = decision.metering
    /\ UNCHANGED <<budget, mint_permille, mint_acc, halted, sm, decision, sampled,
                   completions, thread, backlog, credits, history>>

PublishHalted ==
    /\ mpc = "halted" /\ mpc' = "permille"
    /\ halted' = decision.halted
    /\ UNCHANGED <<budget, mint_permille, mint_acc, metering, sm, decision, sampled,
                   completions, thread, backlog, credits, history>>

SetMintPermille ==
    /\ mpc = "permille" /\ mpc' = IF decision.metering THEN "sample" ELSE "refill"
    /\ mint_permille' = Within(decision.mint_permille, 0, Whole)
    /\ UNCHANGED <<budget, mint_acc, metering, halted, sm, decision, sampled,
                   completions, thread, backlog, credits, history>>

\* The store may race with a mint or a take whose load came before it.
RefillFull ==
    /\ mpc = "refill" /\ mpc' = "sample"
    /\ budget' = Capacity
    /\ granted' = 0
    /\ returned' = Cardinality({c \in Completers : thread[c].pc # "idle"})
    /\ UNCHANGED <<mint_permille, mint_acc, metering, halted, sm, decision, sampled,
                   completions, thread, backlog, credits, minted>>

-----------------------------------------------------------------------------
Init ==
    /\ budget = Capacity /\ mint_permille = Whole /\ mint_acc = 0
    /\ metering = FALSE /\ halted = FALSE
    /\ sm = [metering |-> FALSE, halted |-> FALSE, engage |-> 0, release |-> 0,
             stall |-> 0, recover |-> 0]
    /\ decision = [metering |-> FALSE, halted |-> FALSE, mint_permille |-> Whole]
    /\ mpc = "sample" /\ completions = 0 /\ sampled = 0
    /\ thread = [t \in Completers \cup Granters |-> Rest]
    /\ backlog = 0 /\ credits = [g \in Granters |-> 0]
    /\ granted = 0 /\ returned = 0 /\ minted = 0

Monitor ==
    \/ \E cap \in Caps, alive \in BOOLEAN : Observe(cap, alive)
    \/ PublishMetering \/ PublishHalted \/ SetMintPermille \/ RefillFull

Completer(c) ==
    NoteCompletion(c) \/ LoadPermille(c) \/ Accumulate(c) \/ LoadForMint(c) \/ MintOne(c)

Granter(g) == Grant(g) \/ LoadForTake(g) \/ TakeCredits(g) \/ CreateInstance(g)

Next ==
    \/ Monitor
    \/ \E c \in Completers : Completer(c)
    \/ \E g \in Granters : Granter(g)

Spec == Init /\ [][Next]_vars

\* The monitor task ticks for ever and workers go on completing what they hold.
FairSpec == Spec /\ WF_vars(Monitor) /\ \A c \in Completers : WF_vars(Completer(c))

-----------------------------------------------------------------------------
(* Properties                                                              *)

\* The shape of the state; the bucket is never overdrawn and never overfull,
\* however mints, takes and the refill of refill_full interleave.
TypeOK ==
    /\ budget \in 0 .. Capacity
    /\ mint_permille \in 0 .. Whole /\ mint_acc \in Nat
    /\ metering \in BOOLEAN /\ halted \in BOOLEAN
    /\ mpc \in {"sample", "metering", "halted", "permille", "refill"}
    /\ sm \in [metering : BOOLEAN, halted : BOOLEAN, engage : 0 .. EngageTicks,
               release : 0 .. ReleaseTicks, stall : 0 .. HaltEngageTicks,
               recover : 0 .. HaltReleaseTicks]
    /\ decision \in [metering : BOOLEAN, halted : BOOLEAN, mint_permille : 0 .. Whole]
    /\ thread \in [Completers \cup Granters ->
           [pc : {"idle", "noted", "accumulate", "mint", "minting", "load", "taking"},
            cur : Nat, want : 0 .. Window]]
    /\ completions \in Nat /\ sampled \in 0 .. completions /\ backlog \in 0 .. MaxBacklog
    /\ credits \in [Granters -> 0 .. Window]
    /\ granted \in Nat /\ returned \in Nat /\ minted \in Nat

\* Paced intake (take_credits, mint_one): since the bucket was last full, no more
\* credits have been taken from it than its capacity and the completions since.
PacedIntake == granted <= Capacity + returned

\* No lost or double mints (note_completion): the fractional path has started as
\* many mints as the accumulator has passed whole tokens, under any ratio changes.
MintExact == minted = mint_acc \div Whole

\* An idle engine is not a wedge: once the backlog is gone the valve opens again.
IdleEngineAdmits == halted /\ backlog = 0 ~> ~halted
===============================================================================
