--------------------------- MODULE DrainGuardProofs ---------------------------
(***************************************************************************)
(* The token bucket under any number of completing and granting threads:   *)
(* it is never overdrawn or overfull, it paces the intake by the           *)
(* completions, and the fractional mint neither loses nor doubles a token. *)
(*                                                                         *)
(* Pacing is not inductive: a mint adds to the bucket long after its       *)
(* completion was counted.  The invariant therefore charges every thread   *)
(* that is still between a completion and its mint (Busy) for the token it *)
(* may yet add, and keeps what the two compare-and-swap loops have loaded  *)
(* within the bucket.                                                      *)
(***************************************************************************)
EXTENDS DrainGuard, FiniteSetTheorems, TLAPS

\* Completions on their way to a mint, or to the decision not to mint.
Busy == {c \in Completers : thread[c].pc # "idle"}

\* What a loop has loaded was in the bucket, with room for the mint or something to
\* take; what a grant asks for still fits its connection's window.
Loaded ==
    /\ \A t \in Completers \cup Granters :
          /\ thread[t].pc = "minting" => thread[t].cur < Capacity
          /\ thread[t].pc = "accumulate" => thread[t].cur \in 1 .. Whole - 1
    /\ \A g \in Granters :
          thread[g].pc \in {"load", "taking"} => credits[g] + thread[g].want <= Window

\* Credits taken, tokens left and mints to come are covered by the capacity and the
\* completions since the bucket was full.
Covered == granted + budget + Cardinality(Busy) <= Capacity + returned

GuardInv == TypeOK /\ Loaded /\ Covered /\ MintExact

-----------------------------------------------------------------------------
\* The thresholds of DrainGuardCfg are unsigned.
LEMMA Bounds ==
    /\ EngageTicks \in Nat /\ ReleaseTicks \in Nat
    /\ HaltEngageTicks \in Nat /\ HaltReleaseTicks \in Nat
    /\ Window \in Nat /\ MaxBacklog \in Nat
    /\ Capacity \in Nat /\ Whole \in Nat \ {0} /\ MintFloor \in 0 .. Whole
BY GuardAssumption

\* Adding a fraction of a token passes at most one whole token.
LEMMA DivStep ==
    ASSUME NEW a \in Nat, NEW w \in Nat \ {0}, NEW p \in 1 .. w - 1
    PROVE  /\ a \div w \in Nat
           /\ \/ (a + p) \div w = a \div w
              \/ (a + p) \div w = a \div w + 1
<1> DEFINE q == a \div w
           s == (a + p) \div w
<1>1. q \in Int /\ s \in Int
  OBVIOUS
<1>2. w * q <= a /\ a < w * q + w
  OBVIOUS
<1>3. w * s <= a + p /\ a + p < w * s + w
  OBVIOUS
<1> HIDE DEF q, s
<1>4. q >= 0
  BY <1>1, <1>2
<1>5. s >= q
  BY <1>1, <1>2, <1>3
<1>6. s <= q + 1
  BY <1>1, <1>2, <1>3
<1> QED BY <1>1, <1>4, <1>5, <1>6 DEF q, s

-----------------------------------------------------------------------------
(***************************************************************************)
(* Where the threads are.                                                  *)
(***************************************************************************)
Places == {"idle", "noted", "accumulate", "mint", "minting", "load", "taking"}

\* What a move of one thread leaves in place.
LEMMA GotoFields ==
    ASSUME TypeOK, NEW t \in Completers \cup Granters, NEW pc \in Places, NEW cur \in Nat,
           Goto(t, pc, cur)
    PROVE  /\ thread' \in [Completers \cup Granters ->
                             [pc : Places, cur : Nat, want : 0 .. Window]]
           /\ thread'[t].pc = pc /\ thread'[t].cur = cur /\ thread'[t].want = thread[t].want
           /\ \A u \in Completers \cup Granters : u # t => thread'[u] = thread[u]
BY DEF TypeOK, Goto, Places

\* Busy is finite, and a granting thread is never in it.
LEMMA BusyFinite == IsFiniteSet(Busy) /\ Cardinality(Busy) \in Nat
<1>1. Busy \subseteq Completers BY DEF Busy
<1>2. IsFiniteSet(Busy) BY <1>1, GuardAssumption, FS_Subset
<1> QED BY <1>2, FS_CardinalityType

LEMMA BusyKept ==
    ASSUME NEW t, \A u \in Completers : u # t => thread'[u] = thread[u],
           t \in Completers => (thread[t].pc = "idle" <=> thread'[t].pc = "idle")
    PROVE  Busy' = Busy
BY DEF Busy

\* A completion enters Busy, and leaves it once.
LEMMA BusyMoves ==
    ASSUME NEW c \in Completers, \A u \in Completers : u # c => thread'[u] = thread[u]
    PROVE  /\ thread[c].pc = "idle" /\ thread'[c].pc # "idle"
              => Cardinality(Busy') = Cardinality(Busy) + 1
           /\ thread[c].pc # "idle" /\ thread'[c].pc = "idle"
              => Cardinality(Busy') = Cardinality(Busy) - 1
<1>1. ASSUME thread[c].pc = "idle", thread'[c].pc # "idle"
      PROVE  Cardinality(Busy') = Cardinality(Busy) + 1
  <2>1. Busy' = Busy \cup {c} /\ c \notin Busy BY <1>1 DEF Busy
  <2> QED BY <2>1, BusyFinite, FS_AddElement
<1>2. ASSUME thread[c].pc # "idle", thread'[c].pc = "idle"
      PROVE  Cardinality(Busy') = Cardinality(Busy) - 1
  <2>1. Busy' = Busy \ {c} /\ c \in Busy BY <1>2 DEF Busy
  <2> QED BY <2>1, BusyFinite, FS_RemoveElement
<1> QED BY <1>1, <1>2

\* A completion under way stays in Busy or leaves it.
LEMMA BusySettles ==
    ASSUME NEW c \in Completers, \A u \in Completers : u # c => thread'[u] = thread[u],
           thread[c].pc # "idle"
    PROVE  Cardinality(Busy') = Cardinality(Busy) \/ Cardinality(Busy') = Cardinality(Busy) - 1
<1>1. CASE thread'[c].pc = "idle"
  BY <1>1, BusyMoves
<1>2. CASE thread'[c].pc # "idle"
  <2>1. Busy' = Busy BY <1>2, BusyKept
  <2> QED BY <2>1
<1> QED BY <1>1, <1>2

\* A full bucket, no thread under way.
LEMMA GuardInit == Init => GuardInv
<1> SUFFICES ASSUME Init PROVE GuardInv OBVIOUS
<1> USE GuardAssumption DEF Init, Rest
<1>1. TypeOK
  <2>1. sm \in [metering : BOOLEAN, halted : BOOLEAN, engage : 0 .. EngageTicks,
                release : 0 .. ReleaseTicks, stall : 0 .. HaltEngageTicks,
                recover : 0 .. HaltReleaseTicks]
    BY Bounds
  <2>2. decision \in [metering : BOOLEAN, halted : BOOLEAN, mint_permille : 0 .. Whole]
    BY Bounds
  <2>3. thread \in [Completers \cup Granters ->
           [pc : {"idle", "noted", "accumulate", "mint", "minting", "load", "taking"},
            cur : Nat, want : 0 .. Window]]
    BY Bounds
  <2>4. credits \in [Granters -> 0 .. Window] /\ backlog \in 0 .. MaxBacklog
    BY Bounds
  <2>5. budget \in 0 .. Capacity /\ mint_permille \in 0 .. Whole
    BY Bounds
  <2>6. metering \in BOOLEAN /\ halted \in BOOLEAN /\ mpc = "sample"
    OBVIOUS
  <2>7. mint_acc = 0 /\ completions = 0 /\ sampled = 0 /\ granted = 0 /\ returned = 0
        /\ minted = 0
    OBVIOUS
  <2> HIDE DEF Init
  <2> QED BY <2>1, <2>2, <2>3, <2>4, <2>5, <2>6, <2>7 DEF TypeOK
<1>2. Loaded BY DEF Loaded
<1>3. Covered
  <2>1. Busy = {} BY DEF Busy
  <2> QED BY <2>1, FS_EmptySet DEF Covered
<1>4. MintExact
  <2>1. 0 \div Whole = 0
    <3> DEFINE q == 0 \div Whole
    <3>1. q \in Int /\ Whole * q <= 0 /\ 0 < Whole * q + Whole OBVIOUS
    <3> HIDE DEF q
    <3>2. q = 0 BY <3>1
    <3> QED BY <3>2 DEF q
  <2> QED BY <2>1 DEF MintExact
<1> QED BY <1>1, <1>2, <1>3, <1>4 DEF GuardInv

\* A completer that moves between places, with its own loads in range, keeps what the
\* loops have loaded.
LEMMA LoadedStep ==
    ASSUME TypeOK, Loaded, NEW t \in Completers \cup Granters,
           NEW pc \in Places, NEW cur \in Nat, Goto(t, pc, cur),
           pc = "minting" => cur < Capacity,
           pc = "accumulate" => cur \in 1 .. Whole - 1,
           pc \in {"load", "taking"} => thread[t].pc \in {"load", "taking"},
           credits' = credits
    PROVE  Loaded'
<1>1. /\ thread'[t].pc = pc /\ thread'[t].cur = cur /\ thread'[t].want = thread[t].want
      /\ \A u \in Completers \cup Granters : u # t => thread'[u] = thread[u]
  BY GotoFields
<1> QED BY <1>1 DEF Loaded

-----------------------------------------------------------------------------
(***************************************************************************)
(* The completing threads.                                                 *)
(***************************************************************************)
LEMMA CompleterStep ==
    ASSUME GuardInv, NEW c \in Completers, Completer(c)
    PROVE  GuardInv'
<1> USE DEF GuardInv
<1>0. /\ budget \in 0 .. Capacity /\ granted \in Nat /\ returned \in Nat /\ Capacity \in Nat
      /\ c \in Completers \cup Granters /\ thread[c].cur \in Nat
  BY GuardAssumption DEF TypeOK
<1>1. CASE NoteCompletion(c)
  <2>0. Goto(c, "noted", 0) /\ credits' = credits BY <1>1 DEF NoteCompletion
  <2>1. /\ thread' \in [Completers \cup Granters -> [pc : Places, cur : Nat, want : 0 .. Window]]
        /\ thread'[c].pc = "noted"
        /\ \A u \in Completers \cup Granters : u # c => thread'[u] = thread[u]
    BY <1>0, <2>0, GotoFields DEF Places
  <2>2. TypeOK' BY <1>1, <2>1, GuardAssumption
    DEF TypeOK, NoteCompletion, Places, atomics, monitor
  <2>3. Loaded' BY <1>0, <2>0, LoadedStep DEF Places
  <2>4. Cardinality(Busy') = Cardinality(Busy) + 1
    BY <1>1, <2>1, BusyMoves DEF NoteCompletion
  <2>5. Covered' BY <1>0, <1>1, <2>4, BusyFinite DEF Covered, NoteCompletion, atomics
  <2>6. MintExact' BY <1>1 DEF MintExact, NoteCompletion, atomics
  <2> QED BY <2>2, <2>3, <2>5, <2>6
<1>2. CASE LoadPermille(c)
  <2>0. PICK pc \in {"mint", "idle", "accumulate"}, cur \in Nat :
           /\ Goto(c, pc, cur)
           /\ pc = "accumulate" => cur \in 1 .. Whole - 1
    BY <1>2, GuardAssumption DEF LoadPermille, TypeOK
  <2>a. UNCHANGED <<atomics, monitor, completions, backlog, credits, history>>
    BY <1>2 DEF LoadPermille
  <2>1. /\ thread' \in [Completers \cup Granters -> [pc : Places, cur : Nat, want : 0 .. Window]]
        /\ thread'[c].pc = pc
        /\ \A u \in Completers \cup Granters : u # c => thread'[u] = thread[u]
    <3>1. pc \in Places BY DEF Places
    <3> QED BY <1>0, <2>0, <3>1, GotoFields
  <2>2. TypeOK' BY <2>a, <2>1 DEF TypeOK, Places, atomics, monitor, history
  <2>3. Loaded' BY <1>0, <2>0, <2>a, LoadedStep DEF Places
  <2>4. Cardinality(Busy') = Cardinality(Busy) \/ Cardinality(Busy') = Cardinality(Busy) - 1
    BY <1>2, <2>1, BusySettles DEF LoadPermille
  <2>5. Covered' BY <1>0, <2>a, <2>4, BusyFinite DEF Covered, atomics, history
  <2>6. MintExact' BY <2>a DEF MintExact, atomics, history
  <2> QED BY <2>2, <2>3, <2>5, <2>6
<1>3. CASE Accumulate(c)
  <2>0. PICK pc \in {"mint", "idle"} : Goto(c, pc, 0)
    BY <1>3 DEF Accumulate
  <2>a. /\ UNCHANGED <<budget, mint_permille, metering, halted, monitor, completions,
                       backlog, credits, granted, returned>>
        /\ mint_acc' = mint_acc + thread[c].cur
        /\ mint_acc \in Nat /\ thread[c].cur \in 1 .. Whole - 1 /\ Whole \in Nat \ {0}
    BY <1>3, GuardAssumption DEF Accumulate, TypeOK, Loaded
  <2>1. /\ thread' \in [Completers \cup Granters -> [pc : Places, cur : Nat, want : 0 .. Window]]
        /\ thread'[c].pc = pc
        /\ \A u \in Completers \cup Granters : u # c => thread'[u] = thread[u]
    <3>1. pc \in Places BY DEF Places
    <3> QED BY <1>0, <2>0, <3>1, GotoFields
  <2>b. \/ minted' = minted + 1 /\ mint_acc' \div Whole > mint_acc \div Whole
        \/ minted' = minted /\ ~(mint_acc' \div Whole > mint_acc \div Whole)
    BY <1>3 DEF Accumulate, Crosses
  <2>c. mint_acc' \in Nat /\ minted' \in Nat BY <2>a, <2>b DEF TypeOK
  <2>2. TypeOK' BY <2>a, <2>c, <2>1 DEF TypeOK, Places, monitor
  <2>3. Loaded' BY <1>0, <2>0, <2>a, LoadedStep DEF Places
  <2>4. Cardinality(Busy') = Cardinality(Busy) \/ Cardinality(Busy') = Cardinality(Busy) - 1
    BY <1>3, <2>1, BusySettles DEF Accumulate
  <2>5. Covered' BY <1>0, <2>a, <2>4, BusyFinite DEF Covered
  <2>6. MintExact'
    <3>1. /\ mint_acc \div Whole \in Nat
          /\ \/ mint_acc' \div Whole = mint_acc \div Whole
             \/ mint_acc' \div Whole = mint_acc \div Whole + 1
      BY <2>a, DivStep
    <3> QED BY <2>b, <3>1 DEF MintExact
  <2> QED BY <2>2, <2>3, <2>5, <2>6
<1>4. CASE LoadForMint(c)
  <2>0. PICK pc \in {"minting", "idle"}, cur \in Nat :
           Goto(c, pc, cur) /\ (pc = "minting" => cur < Capacity)
    BY <1>0, <1>4 DEF LoadForMint
  <2>a. UNCHANGED <<atomics, monitor, completions, backlog, credits, history>>
    BY <1>4 DEF LoadForMint
  <2>1. /\ thread' \in [Completers \cup Granters -> [pc : Places, cur : Nat, want : 0 .. Window]]
        /\ thread'[c].pc = pc
        /\ \A u \in Completers \cup Granters : u # c => thread'[u] = thread[u]
    <3>1. pc \in Places BY DEF Places
    <3> QED BY <1>0, <2>0, <3>1, GotoFields
  <2>2. TypeOK' BY <2>a, <2>1 DEF TypeOK, Places, atomics, monitor, history
  <2>3. Loaded' BY <1>0, <2>0, <2>a, LoadedStep DEF Places
  <2>4. Cardinality(Busy') = Cardinality(Busy) \/ Cardinality(Busy') = Cardinality(Busy) - 1
    BY <1>4, <2>1, BusySettles DEF LoadForMint
  <2>5. Covered' BY <1>0, <2>a, <2>4, BusyFinite DEF Covered, atomics, history
  <2>6. MintExact' BY <2>a DEF MintExact, atomics, history
  <2> QED BY <2>2, <2>3, <2>5, <2>6
<1>5. CASE MintOne(c)
  <2>0. PICK pc \in {"minting", "idle"}, cur \in Nat :
           /\ Goto(c, pc, cur)
           /\ pc = "minting" => cur < Capacity
           /\ \/ budget' = budget
              \/ pc = "idle" /\ budget' = budget + 1 /\ budget = thread[c].cur
    BY <1>0, <1>5 DEF MintOne
  <2>a. UNCHANGED <<mint_permille, mint_acc, metering, halted, monitor, completions,
                    backlog, credits, history>>
    BY <1>5 DEF MintOne
  <2>1. /\ thread' \in [Completers \cup Granters -> [pc : Places, cur : Nat, want : 0 .. Window]]
        /\ thread'[c].pc = pc
        /\ \A u \in Completers \cup Granters : u # c => thread'[u] = thread[u]
    <3>1. pc \in Places BY DEF Places
    <3> QED BY <1>0, <2>0, <3>1, GotoFields
  <2>b. budget' \in 0 .. Capacity
    BY <1>0, <1>5, <2>0 DEF Loaded, MintOne
  <2>2. TypeOK' BY <2>a, <2>b, <2>1 DEF TypeOK, Places, monitor, history
  <2>3. Loaded' BY <1>0, <2>0, <2>a, LoadedStep DEF Places
  <2>4. /\ Cardinality(Busy') = Cardinality(Busy) \/ Cardinality(Busy') = Cardinality(Busy) - 1
        /\ pc = "idle" => Cardinality(Busy') = Cardinality(Busy) - 1
    BY <1>5, <2>1, BusyMoves, BusySettles DEF MintOne
  <2>5. Covered' BY <1>0, <2>0, <2>a, <2>4, BusyFinite DEF Covered, history
  <2>6. MintExact' BY <2>a DEF MintExact, history
  <2> QED BY <2>2, <2>3, <2>5, <2>6
<1> QED BY <1>1, <1>2, <1>3, <1>4, <1>5 DEF Completer

-----------------------------------------------------------------------------
(***************************************************************************)
(* The granting threads.                                                   *)
(***************************************************************************)
\* Taking leaves the bucket and the window within their limits.
LEMMA GranterStep ==
    ASSUME GuardInv, NEW g \in Granters, Granter(g)
    PROVE  GuardInv'
<1> USE DEF GuardInv
<1>0. /\ budget \in 0 .. Capacity /\ granted \in Nat /\ returned \in Nat /\ Capacity \in Nat
      /\ Window \in Nat /\ credits[g] \in 0 .. Window
      /\ g \in Completers \cup Granters /\ g \notin Completers
      /\ thread[g].cur \in Nat /\ thread[g].want \in 0 .. Window
  BY GuardAssumption, Bounds DEF TypeOK
<1>1. CASE Grant(g) /\ metering
  <2>0. /\ thread' = [thread EXCEPT ![g] = [pc |-> "load", cur |-> 0,
                                            want |-> Window - credits[g]]]
        /\ UNCHANGED <<credits, atomics, monitor, completions, backlog, history>>
    BY <1>1 DEF Grant
  <2>1. thread' \in [Completers \cup Granters -> [pc : Places, cur : Nat, want : 0 .. Window]]
    BY <1>0, <2>0 DEF TypeOK, Places
  <2>2. TypeOK' BY <2>0, <2>1 DEF TypeOK, Places, atomics, monitor, history
  <2>3. Loaded' BY <1>0, <2>0 DEF Loaded, TypeOK
  <2>4. Busy' = Busy BY <1>0, <2>0, BusyKept DEF TypeOK
  <2>5. Covered' /\ MintExact' BY <2>0, <2>4 DEF Covered, MintExact, atomics, history
  <2> QED BY <2>2, <2>3, <2>5
<1>2. CASE Grant(g) /\ ~metering
  <2>0. /\ credits' = [credits EXCEPT ![g] = Window] /\ thread[g].pc = "idle"
        /\ UNCHANGED <<thread, atomics, monitor, completions, backlog, history>>
    BY <1>2 DEF Grant
  <2>2. TypeOK' BY <1>0, <2>0 DEF TypeOK, atomics, monitor, history
  <2>3. Loaded' BY <1>0, <2>0 DEF Loaded, TypeOK
  <2>4. Busy' = Busy BY <2>0 DEF Busy
  <2>5. Covered' /\ MintExact' BY <2>0, <2>4 DEF Covered, MintExact, atomics, history
  <2> QED BY <2>2, <2>3, <2>5
<1>3. ASSUME NEW pc \in {"idle", "taking"}, NEW cur \in Nat, Goto(g, pc, cur),
             thread[g].pc \in {"load", "taking"},
             UNCHANGED <<atomics, monitor, completions, backlog, credits, history>>
      PROVE  GuardInv'
  <2>a. pc \in Places BY DEF Places
  <2>1. /\ thread' \in [Completers \cup Granters -> [pc : Places, cur : Nat, want : 0 .. Window]]
        /\ \A u \in Completers \cup Granters : u # g => thread'[u] = thread[u]
    BY <1>0, <1>3, <2>a, GotoFields
  <2>2. TypeOK' BY <1>3, <2>1 DEF TypeOK, Places, atomics, monitor, history
  <2>3. Loaded' BY <1>0, <1>3, <2>a, LoadedStep
  <2>4. Busy' = Busy BY <1>0, <2>1, BusyKept
  <2>5. Covered' /\ MintExact' BY <1>3, <2>4 DEF Covered, MintExact, atomics, history
  <2> QED BY <2>2, <2>3, <2>5
<1>4. CASE LoadForTake(g)
  BY <1>0, <1>3, <1>4 DEF LoadForTake
<1>5. CASE TakeCredits(g) /\ ~(budget = thread[g].cur /\ Take(g, budget))
  BY <1>0, <1>3, <1>5 DEF TakeCredits, atomics, history
<1>6. CASE TakeCredits(g) /\ budget = thread[g].cur /\ Take(g, budget)
  <2> DEFINE grant == Smaller(thread[g].want, budget)
  <2>0. /\ budget' = budget - grant /\ granted' = granted + grant
        /\ credits' = [credits EXCEPT ![g] = @ + grant]
        /\ Goto(g, "idle", 0)
        /\ thread[g].pc = "taking"
        /\ UNCHANGED <<mint_permille, mint_acc, metering, halted, monitor, completions,
                       backlog, returned, minted>>
    BY <1>6 DEF TakeCredits, Take
  <2>a. /\ grant \in Nat /\ grant <= budget /\ grant <= thread[g].want
        /\ credits[g] + thread[g].want <= Window
    BY <1>0, <2>0 DEF Smaller, Loaded
  <2> HIDE DEF grant
  <2>1. /\ thread' \in [Completers \cup Granters -> [pc : Places, cur : Nat, want : 0 .. Window]]
        /\ thread'[g].pc = "idle"
        /\ \A u \in Completers \cup Granters : u # g => thread'[u] = thread[u]
    BY <1>0, <2>0, GotoFields DEF Places
  <2>b. credits' \in [Granters -> 0 .. Window] /\ budget' \in 0 .. Capacity /\ granted' \in Nat
    BY <1>0, <2>0, <2>a DEF TypeOK
  <2>2. TypeOK' BY <2>0, <2>1, <2>b DEF TypeOK, Places, monitor
  <2>3. Loaded' BY <1>0, <2>0, <2>1 DEF Loaded, TypeOK
  <2>4. Busy' = Busy BY <1>0, <2>1, BusyKept
  <2>5. Covered' BY <1>0, <2>0, <2>a, <2>4, BusyFinite DEF Covered
  <2>6. MintExact' BY <2>0 DEF MintExact
  <2> QED BY <2>2, <2>3, <2>5, <2>6
<1>7. CASE CreateInstance(g)
  <2>0. /\ credits' = [credits EXCEPT ![g] = @ - 1] /\ credits[g] > 0
        /\ backlog' = backlog + 1 /\ backlog < MaxBacklog
        /\ UNCHANGED <<atomics, monitor, completions, thread, history>>
    BY <1>7 DEF CreateInstance
  <2>a. backlog' \in 0 .. MaxBacklog BY <2>0, Bounds DEF TypeOK
  <2>2. TypeOK' BY <1>0, <2>0, <2>a DEF TypeOK, atomics, monitor, history
  <2>3. Loaded' BY <1>0, <2>0 DEF Loaded, TypeOK
  <2>4. Busy' = Busy BY <2>0 DEF Busy
  <2>5. Covered' /\ MintExact' BY <2>0, <2>4 DEF Covered, MintExact, atomics, history
  <2> QED BY <2>2, <2>3, <2>5
<1> QED BY <1>1, <1>2, <1>4, <1>5, <1>6, <1>7 DEF Granter

-----------------------------------------------------------------------------
(***************************************************************************)
(* The monitor.                                                            *)
(***************************************************************************)
StateMachine == [metering : BOOLEAN, halted : BOOLEAN, engage : 0 .. EngageTicks,
                 release : 0 .. ReleaseTicks, stall : 0 .. HaltEngageTicks,
                 recover : 0 .. HaltReleaseTicks]

\* A dwell counter stops at its threshold.
LEMMA CountRange ==
    ASSUME NEW holds, NEW threshold \in Nat, NEW n \in 0 .. threshold
    PROVE  Count(holds, n, threshold) \in 0 .. threshold
BY DEF Count, Smaller

\* observe keeps the counters in range, and a mint ratio is a ratio.
LEMMA ObserveType ==
    ASSUME TypeOK, NEW cap \in Nat, NEW alive \in BOOLEAN
    PROVE  LET m == Valve(Servo(sm, cap), completions - sampled, cap, alive)
           IN  /\ m \in StateMachine
               /\ MintRatio(m, cap) \in 0 .. Whole
<1> DEFINE s == Servo(sm, cap)
           m == Valve(s, completions - sampled, cap, alive)
<1>1. sm \in StateMachine BY DEF TypeOK, StateMachine
<1>2. s \in StateMachine
  <2> DEFINE engage  == Count(backlog >= EngageLevel(cap), sm.engage, EngageTicks)
             release == Count(backlog <= ReleaseLevel(cap), sm.release, ReleaseTicks)
  <2>1. engage \in 0 .. EngageTicks BY <1>1, Bounds, CountRange DEF StateMachine
  <2>2. release \in 0 .. ReleaseTicks BY <1>1, Bounds, CountRange DEF StateMachine
  <2>3. s = IF ~sm.metering
            THEN IF engage >= EngageTicks
                 THEN [sm EXCEPT !.metering = TRUE, !.engage = engage, !.release = 0]
                 ELSE [sm EXCEPT !.engage = engage]
            ELSE IF release >= ReleaseTicks
                 THEN [sm EXCEPT !.metering = FALSE, !.engage = 0, !.release = release]
                 ELSE [sm EXCEPT !.release = release]
    BY DEF Servo
  <2> HIDE DEF engage, release, s
  <2>4. [sm EXCEPT !.metering = TRUE, !.engage = engage, !.release = 0] \in StateMachine
    <3>1. 0 \in 0 .. ReleaseTicks BY Bounds
    <3> QED BY <1>1, <2>1, <3>1, Zenon DEF StateMachine
  <2>5. [sm EXCEPT !.engage = engage] \in StateMachine
    BY <1>1, <2>1 DEF StateMachine
  <2>6. [sm EXCEPT !.metering = FALSE, !.engage = 0, !.release = release] \in StateMachine
    <3>1. 0 \in 0 .. EngageTicks BY Bounds
    <3> QED BY <1>1, <2>2, <3>1 DEF StateMachine
  <2>7. [sm EXCEPT !.release = release] \in StateMachine
    BY <1>1, <2>2 DEF StateMachine
  <2> QED BY <2>3, <2>4, <2>5, <2>6, <2>7
<1>3. m \in StateMachine
  <2> DEFINE stall   == Count(completions - sampled <= HaltFloor /\ alive
                                /\ backlog >= HaltLevel(cap), s.stall, HaltEngageTicks)
             recover == Count(completions - sampled >= RecoverRate, s.recover, HaltReleaseTicks)
             closed  == IF s.halted THEN recover < HaltReleaseTicks ELSE stall >= HaltEngageTicks
  <2>1. stall \in 0 .. HaltEngageTicks BY <1>2, Bounds, CountRange DEF StateMachine
  <2>2. recover \in 0 .. HaltReleaseTicks BY <1>2, Bounds, CountRange DEF StateMachine
  <2>3. m = [s EXCEPT !.stall = stall, !.recover = recover, !.halted = closed,
                      !.metering = @ \/ closed]
    BY DEF Valve
  <2> HIDE DEF s, m, stall, recover
  <2>4. closed \in BOOLEAN
    <3>1. CASE s.halted BY <3>1
    <3>2. CASE ~s.halted BY <3>2
    <3> QED BY <3>1, <3>2
  <2> HIDE DEF closed
  <2>5. (s.metering \/ closed) \in BOOLEAN OBVIOUS
  <2> QED BY <1>2, <2>1, <2>2, <2>3, <2>4, <2>5 DEF StateMachine
<1> HIDE DEF m
<1>4. MintRatio(m, cap) \in 0 .. Whole
  <2>1. ASSUME cap > 0, backlog > cap PROVE (cap * Whole) \div backlog \in Int
    <3>1. backlog \in Nat /\ backlog > 0 BY <2>1, Bounds DEF TypeOK
    <3>2. cap * Whole \in Nat BY Bounds
    <3> QED BY <3>1, <3>2
  <2> QED BY <2>1, Bounds DEF MintRatio, Within
<1> QED BY <1>3, <1>4 DEF m

LEMMA MonitorStep ==
    ASSUME GuardInv, Monitor
    PROVE  GuardInv'
<1> USE DEF GuardInv
<1>1. ASSUME NEW cap \in Caps, NEW alive \in BOOLEAN, Observe(cap, alive) PROVE GuardInv'
  <2> DEFINE m == Valve(Servo(sm, cap), completions - sampled, cap, alive)
  <2>0. cap \in Nat BY GuardAssumption
  <2>1. m \in StateMachine /\ MintRatio(m, cap) \in 0 .. Whole BY <2>0, ObserveType
  <2>2. /\ sm' = m
        /\ decision' = [metering |-> m.metering, halted |-> m.halted,
                        mint_permille |-> MintRatio(m, cap)]
        /\ sampled' = completions /\ mpc' = "metering"
        /\ UNCHANGED <<atomics, completions, thread, backlog, credits, history>>
    BY <1>1 DEF Observe
  <2> HIDE DEF m
  <2>3. decision' \in [metering : BOOLEAN, halted : BOOLEAN, mint_permille : 0 .. Whole]
    BY <2>1, <2>2 DEF StateMachine
  <2>4. TypeOK' BY <2>1, <2>2, <2>3 DEF TypeOK, StateMachine, atomics, history
  <2>5. Loaded' /\ Busy' = Busy BY <2>2 DEF Loaded, Busy
  <2>6. Covered' /\ MintExact' BY <2>2, <2>5 DEF Covered, MintExact, atomics, history
  <2> QED BY <2>4, <2>5, <2>6
<1>2. CASE PublishMetering \/ PublishHalted \/ SetMintPermille
  <2>0. UNCHANGED <<budget, mint_acc, sm, decision, sampled, completions, thread, backlog,
                    credits, history>>
    BY <1>2 DEF PublishMetering, PublishHalted, SetMintPermille
  <2>1. /\ metering' \in BOOLEAN /\ halted' \in BOOLEAN /\ mint_permille' \in 0 .. Whole
        /\ mpc' \in {"sample", "metering", "halted", "permille", "refill"}
    BY <1>2, Bounds DEF PublishMetering, PublishHalted, SetMintPermille, TypeOK, Within
  <2>2. TypeOK' BY <2>0, <2>1 DEF TypeOK, history
  <2>3. Loaded' /\ Busy' = Busy BY <2>0 DEF Loaded, Busy
  <2>4. Covered' /\ MintExact' BY <2>0, <2>3 DEF Covered, MintExact, history
  <2> QED BY <2>2, <2>3, <2>4
<1>3. CASE RefillFull
  <2>0. /\ budget' = Capacity /\ granted' = 0 /\ returned' = Cardinality(Busy)
        /\ mpc' = "sample"
        /\ UNCHANGED <<mint_permille, mint_acc, metering, halted, sm, decision, sampled,
                       completions, thread, backlog, credits, minted>>
    BY <1>3 DEF RefillFull, Busy
  <2>1. Cardinality(Busy) \in Nat BY BusyFinite
  <2>2. TypeOK' BY <2>0, <2>1, Bounds DEF TypeOK
  <2>3. Loaded' /\ Busy' = Busy BY <2>0 DEF Loaded, Busy
  <2>4. Covered' BY <2>0, <2>1, <2>3, Bounds DEF Covered
  <2>5. MintExact' BY <2>0 DEF MintExact
  <2> QED BY <2>2, <2>3, <2>4, <2>5
<1> QED BY <1>1, <1>2, <1>3 DEF Monitor

\* GuardInv is inductive.
LEMMA GuardNext == GuardInv /\ [Next]_vars => GuardInv'
<1> SUFFICES ASSUME GuardInv, [Next]_vars PROVE GuardInv' OBVIOUS
<1>1. CASE UNCHANGED vars
  <2>1. UNCHANGED <<atomics, monitor, completions, thread, backlog, credits, history>>
    BY <1>1 DEF vars
  <2>2. TypeOK' BY <2>1 DEF GuardInv, TypeOK, atomics, monitor, history
  <2>3. Loaded' /\ Busy' = Busy BY <2>1 DEF GuardInv, Loaded, Busy
  <2>4. Covered' /\ MintExact'
    BY <2>1, <2>3 DEF GuardInv, Covered, MintExact, atomics, history
  <2> QED BY <2>2, <2>3, <2>4 DEF GuardInv
<1> QED BY <1>1, CompleterStep, GranterStep, MonitorStep DEF Next

LEMMA GuardInvariant == Spec => []GuardInv
BY GuardInit, GuardNext, PTL DEF Spec

\* The bucket stays within 0 .. Capacity and every counter within its range, whatever
\* the number of threads and however their atomic accesses interleave.
THEOREM BucketBounded == Spec => []TypeOK
<1>1. GuardInv => TypeOK BY DEF GuardInv
<1> QED BY <1>1, GuardInvariant, PTL

\* Intake is paced by completions: since the bucket was last full no more credits have
\* been taken from it than its capacity and the completions since.
THEOREM IntakePaced == Spec => []PacedIntake
<1>1. GuardInv => PacedIntake
  BY BusyFinite, Bounds DEF GuardInv, TypeOK, Covered, PacedIntake
<1> QED BY <1>1, GuardInvariant, PTL

\* note_completion starts exactly one fractional mint per whole token accumulated,
\* for every value of the unit and every sequence of ratios.
THEOREM MintsExact == Spec => []MintExact
<1>1. GuardInv => MintExact BY DEF GuardInv
<1> QED BY <1>1, GuardInvariant, PTL
===============================================================================
