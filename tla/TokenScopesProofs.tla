-------------------------- MODULE TokenScopesProofs --------------------------
(***************************************************************************)
(* No token lives in a scope that is gone, for every definition.           *)
(*                                                                         *)
(* The queue is what makes this hard: a step names a scope or an element   *)
(* instance that may be gone when its turn comes.  Keys are never minted   *)
(* twice, so a step of a dead scope stays dead; and what is queued to      *)
(* complete is, and stays, without children.                               *)
(*                                                                         *)
(* The parts of the invariant have the state as parameters, so that each   *)
(* change an action makes (a token comes, tokens leave, steps are queued)  *)
(* is one lemma: `a' are the active tokens, `m' the multi-instance         *)
(* records, `n' is the next key, `Q' the steps in the queue, `T' the armed *)
(* timers, `J' the open joins.                                             *)
(***************************************************************************)
EXTENDS TokenScopes, TLAPS, NaturalsInduction, WellFoundedInduction, SequenceTheorems,
        FiniteSetTheorems

IsSub(a, k) == Kind(a[k].el) = "sub"

\* Every token is in the root, or in the scope of an older one that can host it.
Tokens(a, m, n) ==
    /\ n \in Nat \ {0} /\ DOMAIN a \subseteq 1 .. n - 1 /\ DOMAIN m \subseteq 1 .. n - 1
    /\ \A k \in DOMAIN a :
          \/ a[k].scope = 0
          \/ /\ a[k].scope \in DOMAIN a /\ a[k].scope < k
             /\ IsSub(a, a[k].scope) \/ a[k].scope \in DOMAIN m

\* The scope of a multi-instance body holds the children its record lists, and
\* a child is not a body.
Children(a, m) ==
    /\ \A k \in DOMAIN a : a[k].scope \in DOMAIN m =>
          /\ k \in m[a[k].scope].active /\ k \notin DOMAIN m
          /\ a[k].el = a[a[k].scope].el
    /\ \A b \in DOMAIN m : 0 \notin m[b].active

\* A queued activation is for the root, a sub-process, or a scope that is gone.
Entering(a, m, n, s) ==
    s = 0 \/ (s \in 1 .. n - 1 /\ s \notin DOMAIN m /\ (s \in DOMAIN a => IsSub(a, s)))

\* An element instance queued to complete is no body and, if a sub-process, has run empty.
Leaving(a, m, n, Q, k) ==
    /\ k \in 1 .. n - 1 /\ k \notin DOMAIN m
    /\ k \in DOMAIN a /\ IsSub(a, k) =>
          /\ \A c \in DOMAIN a : a[c].scope # k
          /\ \A q \in Q : q.op = "Activate" => q.scope # k

\* What is queued for a body finds it active, or its record gone.
ForBody(a, m, k) == k \in DOMAIN m => k \in DOMAIN a

Steps(a, m, n, Q) ==
    \A q \in Q :
        /\ q.op = "Activate" => Entering(a, m, n, q.scope)
        /\ q.op = "Complete" => Leaving(a, m, n, Q, q.key)
        /\ q.op \in {"ActivateMiChild", "CompleteMiBody"} => ForBody(a, m, q.key)

\* A timer sits on no multi-instance child; that of a catch event on no scope.
Timed(a, m, n, T) ==
    \A t \in T :
        /\ t.host \in 1 .. n - 1
        /\ t.host \in DOMAIN a => a[t.host].scope \notin DOMAIN m
        /\ Kind(t.event) = "catch" =>
              t.host \notin DOMAIN m /\ (t.host \in DOMAIN a => ~ IsSub(a, t.host))

\* An open join is not a scope.
Gates(a, m, n, J) ==
    \A j \in DOMAIN J :
        /\ J[j] \in 1 .. n - 1 /\ J[j] \notin DOMAIN m
        /\ J[j] \in DOMAIN a => ~ IsSub(a, J[j])

Sound(a, m, n, Q, T, J) ==
    /\ Tokens(a, m, n) /\ Children(a, m) /\ Steps(a, m, n, Q)
    /\ Timed(a, m, n, T) /\ Gates(a, m, n, J)

Inv ==
    /\ process \in DOMAIN Definitions
    /\ queue \in Seq(ToSet(queue))
    /\ idle => queue = << >>
    /\ Sound(active, multi_instances, next_key, ToSet(queue), timers, join_instances)

-----------------------------------------------------------------------------
(* Changes of the state. *)

\* Fewer steps, timers and open joins.
LEMMA Fewer ==
    ASSUME NEW a, NEW m, NEW n, NEW Q, NEW T, NEW J, Sound(a, m, n, Q, T, J),
           NEW Q2 \in SUBSET Q, NEW T2 \in SUBSET T, NEW J2, DOMAIN J2 \subseteq DOMAIN J,
           \A j \in DOMAIN J2 : J2[j] = J[j]
    PROVE  Sound(a, m, n, Q2, T2, J2)
<1>1. Steps(a, m, n, Q2)
  <2>1. \A k : Leaving(a, m, n, Q, k) => Leaving(a, m, n, Q2, k) BY DEF Leaving
  <2> QED BY <2>1 DEF Sound, Steps
<1>2. Timed(a, m, n, T2) BY DEF Sound, Timed
<1>3. Gates(a, m, n, J2) BY DEF Sound, Gates
<1> QED BY <1>1, <1>2, <1>3 DEF Sound

\* A key is passed over.
LEMMA Later ==
    ASSUME NEW a, NEW m, NEW n, NEW Q, NEW T, NEW J, Sound(a, m, n, Q, T, J)
    PROVE  Sound(a, m, n + 1, Q, T, J)
<1>0. n \in Nat /\ 1 .. n - 1 \subseteq 1 .. (n + 1) - 1 BY DEF Sound, Tokens
<1>1. Tokens(a, m, n + 1) BY <1>0 DEF Sound, Tokens
<1>2. Steps(a, m, n + 1, Q)
  <2>1. \A s : Entering(a, m, n, s) => Entering(a, m, n + 1, s) BY <1>0 DEF Entering
  <2>2. \A k : Leaving(a, m, n, Q, k) => Leaving(a, m, n + 1, Q, k) BY <1>0 DEF Leaving
  <2> QED BY <2>1, <2>2 DEF Sound, Steps
<1>3. Timed(a, m, n + 1, T) BY <1>0 DEF Sound, Timed
<1>4. Gates(a, m, n + 1, J) BY <1>0 DEF Sound, Gates
<1> QED BY <1>1, <1>2, <1>3, <1>4 DEF Sound

\* Nothing queued to complete is the scope s, or could become it.
Enterable(a, m, n, Q, s) ==
    /\ Entering(a, m, n, s)
    /\ \A q \in Q : q.op = "Complete" /\ q.key \in DOMAIN a /\ IsSub(a, q.key) => q.key # s

\* A token comes, with the next key, in a scope that is there.
LEMMA Comes ==
    ASSUME NEW a, NEW m, NEW n, NEW Q, NEW T, NEW J, Sound(a, m, n, Q, T, J),
           NEW e, NEW s, Enterable(a, m, n, Q, s), s = 0 \/ s \in DOMAIN a
    PROVE  Sound(With(a, n, Token(e, s)), m, n + 1, Q, T, J)
<1> DEFINE b == With(a, n, Token(e, s))
<1>0. n \in Nat /\ n > 0 /\ n \notin DOMAIN a /\ n \notin DOMAIN m /\ n \notin 1 .. n - 1
  BY DEF Sound, Tokens
<1>1. /\ DOMAIN b = DOMAIN a \cup {n} /\ b[n].scope = s /\ b[n].el = e
      /\ \A k \in DOMAIN a : b[k] = a[k]
  BY <1>0 DEF With, Token
<1>2. \A k \in DOMAIN a : IsSub(b, k) <=> IsSub(a, k) BY <1>1 DEF IsSub
<1>3. s # 0 => s \in DOMAIN a /\ s \notin DOMAIN m /\ IsSub(a, s) /\ s < n /\ s # n
  BY <1>0 DEF Enterable, Entering, Sound, Tokens
<1>4. /\ DOMAIN a \subseteq 1 .. n - 1 /\ DOMAIN m \subseteq 1 .. n - 1
      /\ 1 .. n - 1 \subseteq 1 .. (n + 1) - 1 /\ n \in 1 .. (n + 1) - 1
  BY <1>0 DEF Sound, Tokens
<1>5. \A k \in DOMAIN a : a[k].scope # n BY <1>0 DEF Sound, Tokens
<1> HIDE DEF b
<1>6. Tokens(b, m, n + 1)
  <2>1. ASSUME NEW k \in DOMAIN b
        PROVE  \/ b[k].scope = 0
               \/ /\ b[k].scope \in DOMAIN b /\ b[k].scope < k
                  /\ IsSub(b, b[k].scope) \/ b[k].scope \in DOMAIN m
    <3>1. CASE k = n BY <3>1, <1>1, <1>2, <1>3
    <3>2. CASE k \in DOMAIN a BY <3>2, <1>1, <1>2 DEF Sound, Tokens
    <3> QED BY <1>1, <3>1, <3>2
  <2> QED BY <2>1, <1>0, <1>1, <1>4 DEF Tokens
<1>7. Children(b, m)
  <2>1. ASSUME NEW k \in DOMAIN b, b[k].scope \in DOMAIN m
        PROVE  k \in m[b[k].scope].active /\ k \notin DOMAIN m /\ b[k].el = b[b[k].scope].el
    <3>1. k \in DOMAIN a /\ b[k] = a[k]
      <4>1. 0 \notin DOMAIN m BY <1>4
      <4> QED BY <1>1, <1>3, <2>1, <4>1
    <3>2. a[k].scope \in DOMAIN a
      <4>1. a[k].scope # 0 BY <1>4, <2>1, <3>1
      <4> QED BY <3>1, <4>1 DEF Sound, Tokens
    <3> QED BY <2>1, <3>1, <3>2, <1>1 DEF Sound, Children
  <2> QED BY <2>1 DEF Sound, Children
<1>8. Steps(b, m, n + 1, Q)
  <2>1. \A x : Entering(a, m, n, x) => Entering(b, m, n + 1, x)
    BY <1>0, <1>1, <1>2, <1>4 DEF Entering
  <2>2. ASSUME NEW q \in Q, q.op = "Complete", Leaving(a, m, n, Q, q.key)
        PROVE  Leaving(b, m, n + 1, Q, q.key)
    <3>1. q.key \in 1 .. n - 1 /\ q.key # n /\ q.key \notin DOMAIN m BY <2>2, <1>0 DEF Leaving
    <3>2. ASSUME q.key \in DOMAIN b, IsSub(b, q.key)
          PROVE  /\ \A c \in DOMAIN b : b[c].scope # q.key
                 /\ \A p \in Q : p.op = "Activate" => p.scope # q.key
      <4>1. q.key \in DOMAIN a /\ IsSub(a, q.key) BY <3>1, <3>2, <1>1, <1>2
      <4>2. s # q.key BY <2>2, <4>1 DEF Enterable
      <4> QED BY <2>2, <4>1, <4>2, <1>1 DEF Leaving
    <3> QED BY <3>1, <3>2, <1>4 DEF Leaving
  <2>3. \A x : ForBody(a, m, x) => ForBody(b, m, x) BY <1>1 DEF ForBody
  <2> QED BY <2>1, <2>2, <2>3 DEF Sound, Steps
<1>9. Timed(b, m, n + 1, T)
  <2>1. ASSUME NEW t \in T
        PROVE  /\ t.host \in 1 .. (n + 1) - 1 /\ t.host # n
               /\ t.host \in DOMAIN b => t.host \in DOMAIN a /\ b[t.host] = a[t.host]
    BY <1>0, <1>1, <1>4 DEF Sound, Timed
  <2> QED BY <2>1, <1>2 DEF Sound, Timed
<1>10. Gates(b, m, n + 1, J)
  <2>1. ASSUME NEW j \in DOMAIN J
        PROVE  J[j] \in 1 .. (n + 1) - 1 /\ (J[j] \in DOMAIN b => J[j] \in DOMAIN a)
    BY <1>0, <1>1, <1>4 DEF Sound, Gates
  <2> QED BY <2>1, <1>2 DEF Sound, Gates
<1> QED BY <1>6, <1>7, <1>8, <1>9, <1>10 DEF Sound, b

\* A multi-instance body comes, with its record.
LEMMA BodyComes ==
    ASSUME NEW a, NEW m, NEW n, NEW Q, NEW T, NEW J, Sound(a, m, n, Q, T, J),
           NEW e, NEW s, Enterable(a, m, n, Q, s), s = 0 \/ s \in DOMAIN a, NEW r,
           0 \notin r.active
    PROVE  Sound(With(a, n, Token(e, s)), With(m, n, r), n + 1, Q, T, J)
<1> DEFINE b == With(a, n, Token(e, s))
           w == With(m, n, r)
<1>0. n \in Nat /\ n > 0 /\ n \notin DOMAIN a /\ n \notin DOMAIN m /\ n \notin 1 .. n - 1
  BY DEF Sound, Tokens
<1>1. Sound(b, m, n + 1, Q, T, J) BY Comes
<1>2. DOMAIN w = DOMAIN m \cup {n} /\ \A k \in DOMAIN m : w[k] = m[k] BY <1>0 DEF With
<1>3. DOMAIN b = DOMAIN a \cup {n} /\ b[n].scope = s BY DEF With, Token
<1>4. s # n /\ s \notin DOMAIN m
  <2>1. 0 \notin DOMAIN m BY <1>0 DEF Sound, Tokens
  <2> QED BY <2>1, <1>0 DEF Enterable, Entering
<1>5. \A k \in DOMAIN b : b[k].scope # n
  <2>1. \A k \in DOMAIN a : a[k].scope # n BY <1>0 DEF Sound, Tokens
  <2> QED BY <2>1, <1>3, <1>4, <1>0 DEF With
<1> HIDE DEF b, w
<1>6. Tokens(b, w, n + 1)
  <2>1. n \in 1 .. (n + 1) - 1 BY <1>0
  <2> QED BY <1>1, <1>2, <2>1 DEF Sound, Tokens
<1>7. Children(b, w)
  <2>1. ASSUME NEW k \in DOMAIN b, b[k].scope \in DOMAIN w
        PROVE  k \in w[b[k].scope].active /\ k \notin DOMAIN w /\ b[k].el = b[b[k].scope].el
    <3>1. b[k].scope \in DOMAIN m /\ w[b[k].scope] = m[b[k].scope] BY <2>1, <1>2, <1>5
    <3>2. k # n BY <3>1, <1>3, <1>4
    <3> QED BY <3>1, <3>2, <1>1, <1>2 DEF Sound, Children
  <2>2. \A x \in DOMAIN w : 0 \notin w[x].active BY <1>0, <1>1, <1>2 DEF Sound, Children, With, w
  <2> QED BY <2>1, <2>2 DEF Children
<1>8. Steps(b, w, n + 1, Q)
  <2>1. ASSUME NEW q \in Q, q.op = "Activate" PROVE Entering(b, w, n + 1, q.scope)
    <3>1. Entering(a, m, n, q.scope) BY <2>1 DEF Sound, Steps
    <3>2. Entering(b, m, n + 1, q.scope) BY <2>1, <1>1 DEF Sound, Steps
    <3> QED BY <3>1, <3>2, <1>0, <1>2 DEF Entering
  <2>2. ASSUME NEW q \in Q, q.op = "Complete" PROVE Leaving(b, w, n + 1, Q, q.key)
    <3>1. q.key # n BY <2>2, <1>0 DEF Sound, Steps, Leaving
    <3>2. Leaving(b, m, n + 1, Q, q.key) BY <2>2, <1>1 DEF Sound, Steps
    <3> QED BY <3>1, <3>2, <1>2 DEF Leaving
  <2>3. \A x : ForBody(b, m, x) => ForBody(b, w, x) BY <1>2, <1>3 DEF ForBody
  <2> QED BY <2>1, <2>2, <2>3, <1>1 DEF Sound, Steps
<1>9. Timed(b, w, n + 1, T)
  <2>1. \A t \in T : t.host # n BY <1>0 DEF Sound, Timed
  <2> QED BY <2>1, <1>1, <1>2, <1>5 DEF Sound, Timed
<1>10. Gates(b, w, n + 1, J)
  <2>1. \A j \in DOMAIN J : J[j] # n BY <1>0 DEF Sound, Gates
  <2> QED BY <2>1, <1>1, <1>2 DEF Sound, Gates
<1> QED BY <1>6, <1>7, <1>8, <1>9, <1>10 DEF Sound, b, w

\* A child comes, and its body's record lists it.
LEMMA ChildComes ==
    ASSUME NEW a, NEW m, NEW n, NEW Q, NEW T, NEW J, Sound(a, m, n, Q, T, J),
           NEW b \in DOMAIN m, b \in DOMAIN a, NEW w, DOMAIN w = DOMAIN m,
           w[b].active = m[b].active \cup {n}, \A x \in DOMAIN m \ {b} : w[x] = m[x]
    PROVE  Sound(With(a, n, Token(a[b].el, b)), w, n + 1, Q, T, J)
<1> DEFINE d == With(a, n, Token(a[b].el, b))
<1>0. n \in Nat /\ n > 0 /\ n \notin DOMAIN a /\ n \notin DOMAIN m /\ n \notin 1 .. n - 1
  BY DEF Sound, Tokens
<1>1. /\ DOMAIN d = DOMAIN a \cup {n} /\ d[n].scope = b /\ d[n].el = a[b].el
      /\ \A k \in DOMAIN a : d[k] = a[k]
  BY <1>0 DEF With, Token
<1>2. \A k \in DOMAIN a : IsSub(d, k) <=> IsSub(a, k) BY <1>1 DEF IsSub
<1>3. b # n /\ b < n BY <1>0 DEF Sound, Tokens
<1>4. /\ DOMAIN a \subseteq 1 .. n - 1 /\ DOMAIN m \subseteq 1 .. n - 1
      /\ 1 .. n - 1 \subseteq 1 .. (n + 1) - 1 /\ n \in 1 .. (n + 1) - 1
  BY <1>0 DEF Sound, Tokens
<1> HIDE DEF d
<1>5. Tokens(d, w, n + 1)
  <2>1. ASSUME NEW k \in DOMAIN d
        PROVE  \/ d[k].scope = 0
               \/ /\ d[k].scope \in DOMAIN d /\ d[k].scope < k
                  /\ IsSub(d, d[k].scope) \/ d[k].scope \in DOMAIN w
    <3>1. CASE k = n BY <3>1, <1>1, <1>3
    <3>2. CASE k \in DOMAIN a BY <3>2, <1>1, <1>2 DEF Sound, Tokens
    <3> QED BY <1>1, <3>1, <3>2
  <2> QED BY <2>1, <1>0, <1>1, <1>4 DEF Tokens
<1>6. Children(d, w)
  <2>1. ASSUME NEW k \in DOMAIN d, d[k].scope \in DOMAIN w
        PROVE  k \in w[d[k].scope].active /\ k \notin DOMAIN w /\ d[k].el = d[d[k].scope].el
    <3>1. CASE k = n BY <3>1, <1>0, <1>1
    <3>2. CASE k \in DOMAIN a
      <4>1. d[k] = a[k] /\ a[k].scope \in DOMAIN m BY <2>1, <3>2, <1>1
      <4>2. a[k].scope \in DOMAIN a
        <5>1. a[k].scope # 0 BY <4>1, <1>4
        <5> QED BY <5>1, <3>2 DEF Sound, Tokens
      <4>3. k \in m[a[k].scope].active /\ k \notin DOMAIN m /\ a[k].el = a[a[k].scope].el
        BY <3>2, <4>1 DEF Sound, Children
      <4> QED BY <4>1, <4>2, <4>3, <1>1
    <3> QED BY <1>1, <3>1, <3>2
  <2>2. \A x \in DOMAIN w : 0 \notin w[x].active
    <3>1. n # 0 BY <1>0
    <3> QED BY <3>1 DEF Sound, Children
  <2> QED BY <2>1, <2>2 DEF Children
<1>7. Steps(d, w, n + 1, Q)
  <2>1. \A x : Entering(a, m, n, x) => Entering(d, w, n + 1, x)
    BY <1>0, <1>1, <1>2, <1>4 DEF Entering
  <2>2. ASSUME NEW q \in Q, q.op = "Complete", Leaving(a, m, n, Q, q.key)
        PROVE  Leaving(d, w, n + 1, Q, q.key)
    <3>1. q.key \in 1 .. n - 1 /\ q.key # n /\ q.key # b /\ q.key \notin DOMAIN m
      BY <2>2, <1>0 DEF Leaving
    <3> QED BY <2>2, <3>1, <1>1, <1>2, <1>4 DEF Leaving
  <2>3. \A x : ForBody(a, m, x) => ForBody(d, w, x) BY <1>1 DEF ForBody
  <2> QED BY <2>1, <2>2, <2>3 DEF Sound, Steps
<1>8. Timed(d, w, n + 1, T)
  <2>1. ASSUME NEW t \in T
        PROVE  /\ t.host \in 1 .. (n + 1) - 1 /\ t.host # n
               /\ t.host \in DOMAIN d => t.host \in DOMAIN a /\ d[t.host] = a[t.host]
    BY <1>0, <1>1, <1>4 DEF Sound, Timed
  <2> QED BY <2>1, <1>2 DEF Sound, Timed
<1>9. Gates(d, w, n + 1, J)
  <2>1. ASSUME NEW j \in DOMAIN J
        PROVE  J[j] \in 1 .. (n + 1) - 1 /\ (J[j] \in DOMAIN d => J[j] \in DOMAIN a)
    BY <1>0, <1>1, <1>4 DEF Sound, Gates
  <2> QED BY <2>1, <1>2 DEF Sound, Gates
<1> QED BY <1>5, <1>6, <1>7, <1>8, <1>9 DEF Sound, d

\* Tokens leave, each with all that is in its scope; of the records at most theirs go.
LEMMA Leave ==
    ASSUME NEW a, NEW m, NEW n, NEW Q, NEW T, NEW J, Sound(a, m, n, Q, T, J),
           NEW K, \A c \in DOMAIN a : a[c].scope \in K => c \in K,
           NEW w, DOMAIN w \subseteq DOMAIN m, DOMAIN m \subseteq DOMAIN w \cup K,
           \A x \in DOMAIN w : m[x].active \ K \subseteq w[x].active /\ w[x].active \subseteq m[x].active,
           \A q \in Q : q.op \in {"ActivateMiChild", "CompleteMiBody"} /\ q.key \in K => q.key \notin DOMAIN w
    PROVE  Sound(Without(a, K), w, n, Q, T, J)
<1> DEFINE b == Without(a, K)
<1>1. DOMAIN b = DOMAIN a \ K /\ \A k \in DOMAIN b : b[k] = a[k] BY DEF Without
<1>2. \A k \in DOMAIN b : IsSub(b, k) <=> IsSub(a, k) BY <1>1 DEF IsSub
<1> HIDE DEF b
<1>3. Tokens(b, w, n)
  <2>1. ASSUME NEW k \in DOMAIN b, b[k].scope # 0
        PROVE  /\ b[k].scope \in DOMAIN b /\ b[k].scope < k
               /\ IsSub(b, b[k].scope) \/ b[k].scope \in DOMAIN w
    <3>1. k \in DOMAIN a /\ k \notin K /\ b[k] = a[k] BY <1>1
    <3>2. a[k].scope \notin K BY <3>1
    <3>3. /\ a[k].scope \in DOMAIN a /\ a[k].scope < k
          /\ IsSub(a, a[k].scope) \/ a[k].scope \in DOMAIN m
      BY <2>1, <3>1 DEF Sound, Tokens
    <3> QED BY <3>1, <3>2, <3>3, <1>1, <1>2
  <2> QED BY <2>1, <1>1 DEF Sound, Tokens
<1>4. Children(b, w)
  <2>1. ASSUME NEW k \in DOMAIN b, b[k].scope \in DOMAIN w
        PROVE  k \in w[b[k].scope].active /\ k \notin DOMAIN w /\ b[k].el = b[b[k].scope].el
    <3>1. k \in DOMAIN a /\ k \notin K /\ b[k] = a[k] /\ a[k].scope \in DOMAIN m BY <1>1, <2>1
    <3>2. k \in m[a[k].scope].active /\ k \notin DOMAIN m /\ a[k].el = a[a[k].scope].el
      BY <3>1 DEF Sound, Children
    <3>3. b[k].scope \in DOMAIN b
      <4>1. b[k].scope # 0 BY <2>1 DEF Sound, Tokens
      <4> QED BY <4>1, <1>3 DEF Tokens
    <3> QED BY <2>1, <3>1, <3>2, <3>3, <1>1
  <2>2. \A x \in DOMAIN w : 0 \notin w[x].active BY DEF Sound, Children
  <2> QED BY <2>1, <2>2 DEF Children
<1>5. Steps(b, w, n, Q)
  <2>1. \A x : Entering(a, m, n, x) => Entering(b, w, n, x) BY <1>1, <1>2 DEF Entering
  <2>2. \A k : Leaving(a, m, n, Q, k) => Leaving(b, w, n, Q, k) BY <1>1, <1>2 DEF Leaving
  <2>3. ASSUME NEW q \in Q, q.op \in {"ActivateMiChild", "CompleteMiBody"}
        PROVE  ForBody(b, w, q.key)
    <3>1. ForBody(a, m, q.key) BY <2>3 DEF Sound, Steps
    <3> QED BY <2>3, <3>1, <1>1 DEF ForBody
  <2> QED BY <2>1, <2>2, <2>3 DEF Sound, Steps
<1>6. Timed(b, w, n, T) BY <1>1, <1>2 DEF Sound, Timed
<1>7. Gates(b, w, n, J) BY <1>1, <1>2 DEF Sound, Gates
<1> QED BY <1>3, <1>4, <1>5, <1>6, <1>7 DEF Sound, b

\* Steps are queued.
Queueable(a, m, n, Q, R) ==
    \A p \in R :
        /\ p.op = "Activate" => Enterable(a, m, n, Q \cup R, p.scope)
        /\ p.op = "Complete" => Leaving(a, m, n, Q \cup R, p.key)
        /\ p.op \in {"ActivateMiChild", "CompleteMiBody"} => ForBody(a, m, p.key)

LEMMA Queued ==
    ASSUME NEW a, NEW m, NEW n, NEW Q, NEW T, NEW J, Sound(a, m, n, Q, T, J),
           NEW R, Queueable(a, m, n, Q, R)
    PROVE  Sound(a, m, n, Q \cup R, T, J)
<1>1. ASSUME NEW q \in Q \cup R, q.op = "Activate" PROVE Entering(a, m, n, q.scope)
  BY <1>1 DEF Queueable, Enterable, Sound, Steps
<1>2. ASSUME NEW q \in Q \cup R, q.op = "Complete" PROVE Leaving(a, m, n, Q \cup R, q.key)
  <2>1. CASE q \in R BY <1>2, <2>1 DEF Queueable
  <2>2. CASE q \in Q
    <3>1. Leaving(a, m, n, Q, q.key) BY <1>2, <2>2 DEF Sound, Steps
    <3>2. ASSUME q.key \in DOMAIN a, IsSub(a, q.key), NEW p \in R, p.op = "Activate"
          PROVE  p.scope # q.key
      <4>1. Enterable(a, m, n, Q \cup R, p.scope) BY <3>2 DEF Queueable
      <4> QED BY <4>1, <1>2, <3>2 DEF Enterable
    <3> QED BY <3>1, <3>2 DEF Leaving
  <2> QED BY <2>1, <2>2
<1>3. ASSUME NEW q \in Q \cup R, q.op \in {"ActivateMiChild", "CompleteMiBody"}
      PROVE  ForBody(a, m, q.key)
  BY <1>3 DEF Queueable, Sound, Steps
<1> QED BY <1>1, <1>2, <1>3 DEF Sound, Steps

\* Timers are armed, a join is opened.
LEMMA Arms ==
    ASSUME NEW a, NEW m, NEW n, NEW Q, NEW T, NEW J, Sound(a, m, n, Q, T, J),
           NEW U, Timed(a, m, n, U)
    PROVE  Sound(a, m, n, Q, T \cup U, J)
<1>1. Timed(a, m, n, T \cup U) BY DEF Sound, Timed
<1> QED BY <1>1 DEF Sound

LEMMA Opens ==
    ASSUME NEW a, NEW m, NEW n, NEW Q, NEW T, NEW J, Sound(a, m, n, Q, T, J),
           NEW j, NEW k \in 1 .. n - 1, k \notin DOMAIN m, k \in DOMAIN a => ~ IsSub(a, k)
    PROVE  Sound(a, m, n, Q, T, With(Without(J, {j}), j, k))
<1>1. Gates(a, m, n, With(Without(J, {j}), j, k)) BY DEF Sound, Gates, With, Without
<1> QED BY <1>1 DEF Sound

-----------------------------------------------------------------------------
(* The queue. *)

LEMMA OwnSet ==
    ASSUME NEW S, NEW s \in Seq(S)
    PROVE  s \in Seq(ToSet(s)) /\ ToSet(s) \subseteq S /\ (s = << >> => ToSet(s) = {})
<1>1. \A i \in 1 .. Len(s) : s[i] \in S /\ s[i] \in ToSet(s) BY DEF ToSet
<1>2. s \in Seq(ToSet(s)) BY <1>1
<1> QED BY <1>1, <1>2 DEF ToSet

LEMMA Joined ==
    ASSUME NEW s, s \in Seq(ToSet(s)), NEW t, t \in Seq(ToSet(t))
    PROVE  s \o t \in Seq(ToSet(s \o t)) /\ ToSet(s \o t) \subseteq ToSet(s) \cup ToSet(t)
<1> DEFINE U == ToSet(s) \cup ToSet(t)
<1>1. s \in Seq(U) /\ t \in Seq(U)
  <2>1. \A i \in 1 .. Len(s) : s[i] \in U OBVIOUS
  <2>2. \A i \in 1 .. Len(t) : t[i] \in U OBVIOUS
  <2> QED BY <2>1, <2>2
<1> HIDE DEF U
<1>2. s \o t \in Seq(U) BY <1>1
<1> QED BY <1>2, OwnSet DEF U

LEMMA Popped ==
    ASSUME NEW s, s \in Seq(ToSet(s)), s # << >>
    PROVE  /\ Head(s) \in ToSet(s) /\ Tail(s) \in Seq(ToSet(Tail(s)))
           /\ ToSet(Tail(s)) \subseteq ToSet(s)
<1> DEFINE S == ToSet(s)
<1>1. s \in Seq(S) OBVIOUS
<1> HIDE DEF S
<1>2. Head(s) \in S /\ Tail(s) \in Seq(S) BY <1>1
<1> QED BY <1>2, OwnSet DEF S

LEMMA Nothing == << >> \in Seq(ToSet(<< >>)) /\ ToSet(<< >>) = {}
BY OwnSet DEF ToSet

LEMMA Single == ASSUME NEW x PROVE <<x>> \in Seq(ToSet(<<x>>)) /\ ToSet(<<x>>) = {x}
<1>1. <<x>> \in Seq({x}) OBVIOUS
<1>2. ToSet(<<x>>) = {x}
  <2>1. DOMAIN <<x>> = {1} /\ <<x>>[1] = x OBVIOUS
  <2> QED BY <2>1 DEF ToSet
<1> QED BY <1>1, <1>2


\* Induction up to a number.
LEMMA UpTo ==
    ASSUME NEW N \in Nat, NEW G \in SUBSET (0 .. N), 0 \in G,
           \A n \in 0 .. N : n \in G /\ n < N => n + 1 \in G
    PROVE  G = 0 .. N
<1> DEFINE rest == (0 .. N) \ G
<1>1. SUFFICES ASSUME rest # {} PROVE FALSE OBVIOUS
<1>2. rest \in SUBSET Nat OBVIOUS
<1>3. \E x \in rest : \A y \in rest : ~ (<<y, x>> \in OpToRel(<, Nat))
  <2> HIDE DEF rest
  <2> QED BY <1>1, <1>2, NatLessThanWellFounded, WFMin
<1>4. PICK x \in rest : \A y \in rest : ~ (y < x)
  <2>1. \A y \in rest, x \in rest : y < x => <<y, x>> \in OpToRel(<, Nat)
    BY <1>2 DEF OpToRel
  <2> QED BY <1>3, <2>1
<1>5. x \in Nat /\ x # 0 /\ x - 1 \in 0 .. N /\ x - 1 < N BY <1>2
<1>6. x - 1 \notin rest BY <1>4, <1>5
<1> QED BY <1>5, <1>6

LEMMA SeqSum == ASSUME NEW S, NEW s \in Seq(S), NEW t \in Seq(S) PROVE s \o t \in Seq(S)
OBVIOUS

\* Flattening is the last of the partial sums.
LEMMA Flattens ==
    ASSUME NEW S, NEW ss \in Seq(Seq(S))
    PROVE  FlattenSeq(ss) \in Seq(S)
<1> DEFINE Sums(f, m) == f = [i \in 1 .. m |-> IF i = 1 THEN ss[i] ELSE f[i - 1] \o ss[i]]
           N == Len(ss)
           G == {m \in 0 .. N : \E f : Sums(f, m) /\ \A i \in 1 .. m : f[i] \in Seq(S)}
<1>1. 0 \in G
  <2>1. Sums(<< >>, 0) OBVIOUS
  <2> HIDE DEF Sums
  <2> QED BY <2>1
<1>2. ASSUME NEW m \in 0 .. N, m \in G, m < N PROVE m + 1 \in G
  <2>1. PICK f : Sums(f, m) /\ \A i \in 1 .. m : f[i] \in Seq(S) BY <1>2
  <2> DEFINE g == [i \in 1 .. m + 1 |-> IF i = m + 1 THEN (IF i = 1 THEN ss[i] ELSE f[m] \o ss[i]) ELSE f[i]]
  <2>2. ASSUME NEW i \in 1 .. m + 1
        PROVE  g[i] = (IF i = 1 THEN ss[i] ELSE g[i - 1] \o ss[i]) /\ g[i] \in Seq(S)
    <3>0. ss[i] \in Seq(S) BY <1>2
    <3>1. CASE i = m + 1
      <4>1. i # 1 => i - 1 \in 1 .. m + 1 /\ i - 1 # m + 1 /\ i - 1 = m /\ m \in 1 .. m BY <3>1
      <4>2. i # 1 => g[i - 1] = f[m] /\ f[m] \in Seq(S) BY <4>1, <2>1
      <4>3. g[i] = IF i = 1 THEN ss[i] ELSE f[m] \o ss[i] BY <3>1
      <4>4. CASE i = 1 BY <4>3, <4>4, <3>0
      <4>5. CASE i # 1
        <5>1. g[i] = g[i - 1] \o ss[i] /\ g[i] = f[m] \o ss[i] BY <4>2, <4>3, <4>5
        <5>2. f[m] \in Seq(S) /\ ss[i] \in Seq(S) BY <4>2, <4>5, <3>0
        <5>3. f[m] \o ss[i] \in Seq(S) BY <5>2, SeqSum, Zenon
        <5> QED BY <5>1, <5>3, <4>5
      <4> QED BY <4>4, <4>5
    <3>2. CASE i # m + 1
      <4>1. i \in 1 .. m /\ g[i] = f[i] BY <3>2
      <4>2. f[i] = IF i = 1 THEN ss[i] ELSE f[i - 1] \o ss[i] BY <2>1, <4>1
      <4>3. i # 1 => i - 1 \in 1 .. m + 1 /\ i - 1 # m + 1 BY <4>1
      <4>4. i # 1 => g[i - 1] = f[i - 1] BY <4>3
      <4> QED BY <4>1, <4>2, <4>4, <2>1
    <3> QED BY <3>1, <3>2
  <2>3. Sums(g, m + 1)
    <3>1. g = [i \in 1 .. m + 1 |-> g[i]] OBVIOUS
    <3> HIDE DEF g
    <3> QED BY <2>2, <3>1
  <2>4. \A i \in 1 .. m + 1 : g[i] \in Seq(S) BY <2>2
  <2>5. m + 1 \in 0 .. N BY <1>2
  <2> HIDE DEF Sums, g
  <2> QED BY <2>3, <2>4, <2>5
<1>3. G = 0 .. N
  <2> HIDE DEF G
  <2>1. G \in SUBSET (0 .. N) BY DEF G
  <2> QED BY <1>1, <1>2, <2>1, UpTo
<1>4. PICK f : Sums(f, N)
  <2>1. N \in 0 .. N OBVIOUS
  <2> HIDE DEF Sums
  <2> QED BY <1>3, <2>1
<1> DEFINE h == CHOOSE x : Sums(x, N)
<1>5. Sums(h, N)
  <2> HIDE DEF Sums
  <2> QED BY <1>4
<1>6. ASSUME N # 0 PROVE h[N] \in Seq(S)
  <2> DEFINE H == {i \in 0 .. N : i = 0 \/ h[i] \in Seq(S)}
  <2>1. 0 \in H OBVIOUS
  <2>2. ASSUME NEW i \in 0 .. N, i \in H, i < N PROVE i + 1 \in H
    <3>1. i + 1 \in 1 .. N /\ ss[i + 1] \in Seq(S) BY <2>2
    <3>2. h[i + 1] = IF i + 1 = 1 THEN ss[i + 1] ELSE h[(i + 1) - 1] \o ss[i + 1]
      <4> HIDE DEF h
      <4> QED BY <1>5, <3>1
    <3>3. i # 0 => h[i] \in Seq(S) BY <2>2
    <3> HIDE DEF h
    <3>4. i + 1 \in 0 .. N /\ (i + 1) - 1 = i BY <3>1
    <3>5. CASE i = 0 BY <3>1, <3>2, <3>4, <3>5
    <3>6. CASE i # 0
      <4>1. h[i + 1] = h[i] \o ss[i + 1]
        <5>1. i + 1 # 1 BY <2>2, <3>6
        <5> QED BY <3>2, <3>4, <5>1
      <4>2. h[i] \in Seq(S) /\ ss[i + 1] \in Seq(S) BY <3>1, <3>3, <3>6
      <4>3. h[i] \o ss[i + 1] \in Seq(S) BY <4>2, SeqSum, Zenon
      <4> QED BY <4>1, <4>3, <3>4
    <3> QED BY <3>5, <3>6
  <2>3. H = 0 .. N
    <3> HIDE DEF H
    <3>1. H \in SUBSET (0 .. N) BY DEF H
    <3> QED BY <2>1, <2>2, <3>1, UpTo
  <2> HIDE DEF h
  <2> QED BY <1>6, <2>3
<1>7. N # 0 => FlattenSeq(ss) = h[N] BY DEF FlattenSeq
<1>8. N = 0 => FlattenSeq(ss) = << >> BY DEF FlattenSeq
<1>9. << >> \in Seq(S) OBVIOUS
<1> HIDE DEF h
<1> QED BY <1>6, <1>7, <1>8, <1>9

-----------------------------------------------------------------------------
(* Scopes. *)

LEMMA ScopeIs == \A k \in DOMAIN active : ScopeOf(k) = active[k].scope
BY DEF ScopeOf

\* The ancestors are well defined, because a scope is older than what is in it...
LEMMA AncestorFunction ==
    ASSUME Inv
    PROVE  \E f : f = [k \in DOMAIN active |->
                          IF ScopeOf(k) \in DOMAIN active THEN {ScopeOf(k)} \cup f[ScopeOf(k)] ELSE {}]
<1> DEFINE D == DOMAIN active
           N == next_key - 1
           Below(m) == {k \in D : k <= m}
           Above(f, m) == f = [k \in Below(m) |->
                                  IF ScopeOf(k) \in D THEN {ScopeOf(k)} \cup f[ScopeOf(k)] ELSE {}]
           G == {m \in 0 .. N : \E f : Above(f, m)}
<1>0. /\ N \in Nat /\ N \in 0 .. N
      /\ \A k \in D : k \in Nat /\ 1 <= k /\ k <= N /\ (ScopeOf(k) \in D => ScopeOf(k) < k)
  <2>1. next_key \in Nat \ {0} /\ \A k \in D : k \in 1 .. next_key - 1 BY DEF Inv, Sound, Tokens
  <2>2. \A k \in D : k \in Nat /\ 1 <= k /\ k <= N BY <2>1
  <2>3. \A k \in D : ScopeOf(k) \in D => ScopeOf(k) < k
    <3>1. 0 \notin D BY <2>1
    <3> QED BY <3>1, ScopeIs DEF Inv, Sound, Tokens
  <2> QED BY <2>1, <2>2, <2>3
<1> HIDE DEF D, N
<1>1. 0 \in G
  <2>1. Below(0) = {} BY <1>0
  <2>2. Above(<< >>, 0) BY <2>1
  <2> HIDE DEF Above
  <2> QED BY <1>0, <2>2
<1>2. ASSUME NEW m \in 0 .. N, m \in G, m < N PROVE m + 1 \in G
  <2>1. PICK f : Above(f, m) BY <1>2
  <2> DEFINE At(g, k) == IF ScopeOf(k) \in D THEN {ScopeOf(k)} \cup g[ScopeOf(k)] ELSE {}
             g == [k \in Below(m + 1) |-> IF k \in Below(m) THEN f[k] ELSE At(f, k)]
  <2>2. ASSUME NEW k \in Below(m + 1) PROVE g[k] = At(g, k)
    <3>1. k \in D /\ (ScopeOf(k) \in D => ScopeOf(k) \in Below(m) /\ ScopeOf(k) \in Below(m + 1))
      <4>1. k \in D /\ k \in Nat /\ k <= m + 1 BY <1>0
      <4>2. ASSUME ScopeOf(k) \in D PROVE ScopeOf(k) <= m /\ ScopeOf(k) <= m + 1
        <5> DEFINE s == ScopeOf(k)
        <5>1. s \in Nat /\ s < k BY <1>0, <4>1, <4>2
        <5>2. m \in Nat BY <1>0
        <5> HIDE DEF s
        <5>3. s <= m /\ s <= m + 1 BY <4>1, <5>1, <5>2
        <5> QED BY <5>3 DEF s
      <4> QED BY <4>1, <4>2
    <3>2. ScopeOf(k) \in D => g[ScopeOf(k)] = f[ScopeOf(k)] BY <3>1
    <3>3. g[k] = At(f, k)
      <4>1. k \in Below(m) => f[k] = At(f, k) BY <2>1
      <4> QED BY <4>1
    <3> HIDE DEF g
    <3> QED BY <3>2, <3>3
  <2>3. Above(g, m + 1)
    <3>1. g = [k \in Below(m + 1) |-> g[k]] OBVIOUS
    <3> HIDE DEF g, Below
    <3> QED BY <2>2, <3>1
  <2>4. m + 1 \in 0 .. N BY <1>0, <1>2
  <2> HIDE DEF Above, g
  <2> QED BY <2>3, <2>4
<1>3. G = 0 .. N
  <2> HIDE DEF G
  <2>1. G \in SUBSET (0 .. N) BY DEF G
  <2> QED BY <1>0, <1>1, <1>2, <2>1, UpTo
<1>4. N \in G BY <1>0, <1>3
<1>5. Below(N) = D BY <1>0
<1>6. \E f : Above(f, N) BY <1>4
<1> QED BY <1>5, <1>6 DEF D

\* ...so that Inside(h) has what is in h and what is in its members.
Within(h, K) == \A c \in DOMAIN active : active[c].scope \in K \cup {h} => c \in K

LEMMA InsideWithin ==
    ASSUME Inv, NEW h, h # 0
    PROVE  Inside(h) \subseteq DOMAIN active /\ Within(h, Inside(h))
<1>1. Ancestors = [k \in DOMAIN active |->
                      IF ScopeOf(k) \in DOMAIN active THEN {ScopeOf(k)} \cup Ancestors[ScopeOf(k)] ELSE {}]
  BY AncestorFunction DEF Ancestors
<1>2. ASSUME NEW c \in DOMAIN active, active[c].scope \in Inside(h) \cup {h}
      PROVE  c \in Inside(h)
  <2>1. ScopeOf(c) = active[c].scope /\ ScopeOf(c) \in DOMAIN active
    <3>1. active[c].scope = h => active[c].scope \in DOMAIN active BY DEF Inv, Sound, Tokens
    <3> QED BY <1>2, <3>1, ScopeIs DEF Inside
  <2>2. Ancestors[c] = {ScopeOf(c)} \cup Ancestors[ScopeOf(c)] BY <1>1, <2>1
  <2> QED BY <1>2, <2>1, <2>2 DEF Inside
<1> QED BY <1>2 DEF Within, Inside

-----------------------------------------------------------------------------
(* What the actions have in common. *)

LEMMA Carried ==
    ASSUME process \in DOMAIN Definitions, process' = process,
           queue' \in Seq(ToSet(queue')), idle' => queue' = << >>,
           Sound(active', multi_instances', next_key', ToSet(queue'), timers', join_instances')
    PROVE  Inv'
<1>1. (process \in DOMAIN Definitions)' OBVIOUS
<1>2. Tokens(active, multi_instances, next_key)' BY DEF Sound, Tokens, IsSub, Kind, Definition
<1>3. Children(active, multi_instances)' BY DEF Sound, Children
<1>4. Steps(active, multi_instances, next_key, ToSet(queue))'
  <2> DEFINE R == ToSet(queue')
  <2>1. Steps(active', multi_instances', next_key', R) BY DEF Sound
  <2> HIDE DEF R
  <2>2. ASSUME NEW q \in R
        PROVE  /\ q.op = "Activate" => Entering(active, multi_instances, next_key, q.scope)'
               /\ q.op = "Complete" => Leaving(active', multi_instances', next_key', R, q.key)
               /\ q.op \in {"ActivateMiChild", "CompleteMiBody"} => ForBody(active', multi_instances', q.key)
    BY <2>1 DEF Steps, Entering, IsSub, Kind, Definition
  <2> QED BY <2>2 DEF Steps, Leaving, ForBody, IsSub, Kind, Definition, R, Entering
<1>5. Timed(active, multi_instances, next_key, timers)' BY DEF Sound, Timed, IsSub, Kind, Definition
<1>6. Gates(active, multi_instances, next_key, join_instances)'
  BY DEF Sound, Gates, IsSub, Kind, Definition
<1> QED BY <1>1, <1>2, <1>3, <1>4, <1>5, <1>6 DEF Inv, Sound

\* A step is taken from the queue and its followups are queued.
LEMMA Stepped ==
    ASSUME Inv, NEW step, Processing(step), NEW f, f \in Seq(ToSet(f)), Then(f),
           Sound(active', multi_instances', next_key', ToSet(queue) \cup ToSet(f), timers', join_instances')
    PROVE  Inv'
<1>1. /\ queue \in Seq(ToSet(queue)) /\ queue # << >> /\ ~ idle' /\ process' = process
      /\ process \in DOMAIN Definitions
  BY DEF Inv, Processing
<1>2. Tail(queue) \in Seq(ToSet(Tail(queue))) /\ ToSet(Tail(queue)) \subseteq ToSet(queue)
  BY <1>1, Popped
<1>3. /\ queue' \in Seq(ToSet(queue'))
      /\ ToSet(queue') \subseteq ToSet(Tail(queue)) \cup ToSet(f)
  BY <1>2, Joined DEF Then
<1>4. ToSet(queue') \in SUBSET (ToSet(queue) \cup ToSet(f)) BY <1>2, <1>3
<1>5. Sound(active', multi_instances', next_key', ToSet(queue'), timers', join_instances')
  BY <1>4, Fewer
<1> QED BY <1>1, <1>3, <1>5, Carried

\* The followups that enter scope s.
AllEnter(f, s) == f \in Seq(ToSet(f)) /\ \A p \in ToSet(f) : p.op = "Activate" /\ p.scope = s

LEMMA Enters ==
    ASSUME NEW e, NEW s, NEW chosen \in Seq(Nat)
    PROVE  AllEnter(Activations(Taken(e, chosen, s)), s)
<1> DEFINE f == Activations(Taken(e, chosen, s))
<1>1. DOMAIN chosen = 1 .. Len(chosen) /\ Len(chosen) \in Nat OBVIOUS
<1>2. f = [n \in 1 .. Len(chosen) |-> f[n]] BY <1>1 DEF Activations, Taken
<1>3. \A n \in 1 .. Len(chosen) : f[n].op = "Activate" /\ f[n].scope = s
  BY <1>1 DEF Activations, Taken, Activate
<1> HIDE DEF f
<1>4. DOMAIN f = 1 .. Len(chosen) BY <1>2
<1>5. \A n \in 1 .. Len(chosen) : f[n] \in ToSet(f) BY <1>4 DEF ToSet
<1>6. f \in Seq(ToSet(f)) BY <1>1, <1>2, <1>5
<1>7. \A p \in ToSet(f) : p.op = "Activate" /\ p.scope = s BY <1>3, <1>4 DEF ToSet
<1> QED BY <1>6, <1>7 DEF AllEnter, f

LEMMA OutFlows ==
    ASSUME Inv, NEW e
    PROVE  \E n \in Nat : DOMAIN Out(e) = 1 .. n
<1>1. CASE e \in DOMAIN Definition.out
  <2>1. Definition.out[e] \in Seq(DOMAIN Definition.kind)
    BY <1>1, DefinitionsAssumption DEF Inv, Definition
  <2> QED BY <1>1, <2>1 DEF Out
<1>2. CASE e \notin DOMAIN Definition.out
  <2>1. Out(e) = << >> BY <1>2 DEF Out
  <2> QED BY <2>1
<1> QED BY <1>1, <1>2

LEMMA EntersAll ==
    ASSUME Inv, NEW e, NEW s
    PROVE  AllEnter(Activations(TakenAll(e, s)), s)
<1> DEFINE chosen == [n \in DOMAIN Out(e) |-> n]
<1>1. chosen \in Seq(Nat)
  <2>1. PICK n \in Nat : DOMAIN Out(e) = 1 .. n BY OutFlows
  <2> QED BY <2>1
<1> HIDE DEF chosen
<1>2. AllEnter(Activations(Taken(e, chosen, s)), s) BY <1>1, Enters
<1> QED BY <1>2 DEF TakenAll, chosen

LEMMA AscendingSeq ==
    ASSUME NEW n \in Nat, NEW S \in SUBSET (1 .. n), NEW chosen \in Ascending(S)
    PROVE  chosen \in Seq(Nat)
<1>1. IsFiniteSet(1 .. n) BY FS_Interval
<1>2. Cardinality(S) \in Nat BY <1>1, FS_Subset, FS_CardinalityType
<1> DEFINE N == Cardinality(S)
<1>3. chosen \in [1 .. N -> S] BY DEF Ascending
<1> HIDE DEF N
<1>4. N \in Nat BY <1>2 DEF N
<1>5. \A i \in 1 .. N : chosen[i] \in Nat
  <2>1. \A i \in 1 .. N : chosen[i] \in S BY <1>3
  <2>2. \A x \in S : x \in Nat OBVIOUS
  <2> QED BY <2>1, <2>2
<1>6. chosen = [i \in 1 .. N |-> chosen[i]] BY <1>3
<1> QED BY <1>4, <1>5, <1>6

LEMMA EntersSome ==
    ASSUME Inv, NEW e, NEW s, NEW chosen \in Selections(e)
    PROVE  AllEnter(Activations(Taken(e, chosen, s)), s)
<1>1. PICK n \in Nat : DOMAIN Out(e) = 1 .. n BY OutFlows
<1>2. CASE Kind(e) = "xor"
  <2>1. PICK i \in 1 .. n : chosen = <<i>> BY <1>1, <1>2 DEF Selections
  <2>2. chosen \in Seq(Nat) BY <2>1
  <2> QED BY <2>2, Enters
<1>3. CASE Kind(e) = "or"
  <2>1. PICK S \in SUBSET (1 .. n) : chosen \in Ascending(S) BY <1>1, <1>3 DEF Selections
  <2> QED BY <2>1, AscendingSeq, Enters
<1>4. CASE Kind(e) \notin {"xor", "or"}
  <2>1. chosen \in Ascending(1 .. n) BY <1>1, <1>4 DEF Selections
  <2> QED BY <2>1, AscendingSeq, Enters
<1> QED BY <1>2, <1>3, <1>4

LEMMA EntersQueued ==
    ASSUME NEW a, NEW m, NEW n, NEW Q, NEW T, NEW J, Sound(a, m, n, Q, T, J),
           NEW s, Enterable(a, m, n, Q, s), NEW f, AllEnter(f, s)
    PROVE  Sound(a, m, n, Q \cup ToSet(f), T, J)
<1> DEFINE R == ToSet(f)
<1>1. \A p \in R : p.op = "Activate" /\ p.scope = s BY DEF AllEnter
<1> HIDE DEF R
<1>2. Queueable(a, m, n, Q, R) BY <1>1 DEF Queueable, Enterable
<1> QED BY <1>2, Queued DEF R

Here(s) == Enterable(active, multi_instances, next_key, ToSet(queue), s)

\* The scope of a live activation, and that of an element instance which is no
\* multi-instance child.
LEMMA LiveScope ==
    ASSUME Inv, NEW step, Live(step), step.op = "Activate"
    PROVE  Here(step.scope) /\ (step.scope = 0 \/ step.scope \in DOMAIN active)
<1>1. step \in ToSet(queue) BY Popped DEF Live, Processing, Inv
<1>2. Entering(active, multi_instances, next_key, step.scope) BY <1>1 DEF Inv, Sound, Steps
<1>3. step.scope = 0 \/ step.scope \in DOMAIN active
  BY <1>2 DEF Live, TargetsDeadScope, DeadScope, Entering
<1>4. ASSUME NEW q \in ToSet(queue), q.op = "Complete", q.key \in DOMAIN active, IsSub(active, q.key)
      PROVE  q.key # step.scope
  <2>1. Leaving(active, multi_instances, next_key, ToSet(queue), q.key) BY <1>4 DEF Inv, Sound, Steps
  <2> QED BY <1>1, <1>4, <2>1 DEF Leaving
<1> QED BY <1>2, <1>3, <1>4 DEF Enterable, Here

LEMMA HostScope ==
    ASSUME Inv, NEW k, k \in DOMAIN active => active[k].scope \notin DOMAIN multi_instances
    PROVE  Here(ScopeOf(k))
<1>1. ASSUME NEW q \in ToSet(queue), q.op = "Complete", q.key \in DOMAIN active, IsSub(active, q.key)
      PROVE  q.key # 0 /\ \A c \in DOMAIN active : active[c].scope # q.key
  <2>1. Leaving(active, multi_instances, next_key, ToSet(queue), q.key) BY <1>1 DEF Inv, Sound, Steps
  <2>2. next_key \in Nat /\ q.key \in 1 .. next_key - 1 BY <2>1 DEF Leaving, Inv, Sound, Tokens
  <2> QED BY <1>1, <2>1, <2>2 DEF Leaving
<1>2. CASE k \in DOMAIN active
  <2>1. ScopeOf(k) = active[k].scope BY <1>2, ScopeIs
  <2>2. Entering(active, multi_instances, next_key, active[k].scope)
    BY <1>2 DEF Inv, Sound, Tokens, Entering
  <2> QED BY <1>1, <1>2, <2>1, <2>2 DEF Here, Enterable
<1>3. CASE k \notin DOMAIN active
  <2>1. ScopeOf(k) = 0 BY <1>3 DEF ScopeOf
  <2> QED BY <1>1, <2>1 DEF Here, Enterable, Entering
<1> QED BY <1>2, <1>3

LEMMA NoChild ==
    ASSUME Inv, NEW k \in DOMAIN active, ~ IsMiChild(k)
    PROVE  active[k].scope \notin DOMAIN multi_instances
BY ScopeIs DEF Inv, Sound, Children, IsMiChild, IsMiBody

-----------------------------------------------------------------------------
(* The steps. *)

LEMMA DropStepInv == ASSUME Inv, NEW step, DropStep(step) PROVE Inv'
<1>1. Processing(step) /\ Then(<< >>) BY DEF DropStep
<1>2. Sound(active', multi_instances', next_key', ToSet(queue) \cup ToSet(<< >>), timers', join_instances')
  BY Nothing DEF DropStep, Inv
<1> QED BY <1>1, <1>2, Nothing, Stepped

\* The last part of an activation: one step for the fresh token, if any.
LEMMA Followed ==
    ASSUME NEW a, NEW m, NEW n, NEW Q, NEW T, NEW J, Sound(a, m, n, Q, T, J),
           NEW p, Queueable(a, m, n, Q, {p})
    PROVE  Sound(a, m, n, Q \cup ToSet(<<p>>), T, J)
BY Single, Queued

LEMMA ActivateElementInv == ASSUME Inv, NEW step, ActivateElement(step) PROVE Inv'
<1> DEFINE e == step.el
           s == step.scope
           k == next_key
           m == multi_instances
           Q == ToSet(queue)
           b == With(active, k, Token(e, s))
           U == CASE Kind(e) \in {"task", "sub"} -> Armed(k, e)
                  [] Kind(e) = "catch" -> {[host |-> k, event |-> e]}
                  [] OTHER -> {}
           f == CASE Kind(e) \in {"task", "catch"} -> << >>
                  [] Kind(e) = "sub" -> <<Activate(Definition.inner[e], k, NoFlow)>>
                  [] OTHER -> <<Complete(k)>>
<1>1. /\ Live(step) /\ step.op = "Activate" /\ Processing(step)
      /\ active' = b /\ next_key' = k + 1 /\ timers' = timers \cup U /\ Then(f)
      /\ join_instances' = join_instances /\ multi_instances' = m
  BY DEF ActivateElement, Live, joins
<1>2. Sound(active, m, k, Q, timers, join_instances) BY DEF Inv
<1>3. Here(s) /\ (s = 0 \/ s \in DOMAIN active) BY <1>1, LiveScope
<1>4. Sound(b, m, k + 1, Q, timers, join_instances) BY <1>2, <1>3, Comes DEF Here
<1>5. /\ DOMAIN b = DOMAIN active \cup {k} /\ b[k].scope = s /\ b[k].el = e
      /\ k \notin DOMAIN m /\ k \in 1 .. (k + 1) - 1 /\ k \notin 1 .. k - 1 /\ k # 0 /\ k \in Nat
      /\ s \notin DOMAIN m /\ s # k
  <2>1. k \in Nat \ {0} /\ k \notin 1 .. k - 1 /\ DOMAIN m \subseteq 1 .. k - 1 /\ 0 \notin DOMAIN m
    BY <1>2 DEF Sound, Tokens
  <2>2. s \notin DOMAIN m /\ s # k BY <1>3, <2>1 DEF Here, Enterable, Entering
  <2> QED BY <2>1, <2>2 DEF With, Token
<1>6. IsSub(b, k) <=> Kind(e) = "sub" BY <1>5 DEF IsSub
<1>7. \A q \in Q : (q.op = "Activate" => q.scope # k) /\ (q.op = "Complete" => q.key # k)
  BY <1>2, <1>5 DEF Sound, Steps, Entering, Leaving
<1>8. \A c \in DOMAIN b : b[c].scope # k
  <2>1. \A c \in DOMAIN active : active[c].scope # k
    BY <1>2, <1>5 DEF Sound, Tokens
  <2> QED BY <2>1, <1>5 DEF With
<1>9. Timed(b, m, k + 1, U)
  <2>1. ASSUME NEW t \in U
        PROVE  t.host = k /\ (Kind(t.event) = "catch" => Kind(e) # "sub")
    <3>1. CASE Kind(e) \in {"task", "sub"}
      <4>1. t \in Armed(k, e) BY <3>1
      <4> QED BY <4>1 DEF Armed
    <3>2. CASE Kind(e) = "catch"
      <4>1. t = [host |-> k, event |-> e] BY <3>2
      <4> QED BY <4>1, <3>2
    <3>3. CASE Kind(e) \notin {"task", "sub", "catch"} BY <3>3
    <3> QED BY <3>1, <3>2, <3>3
  <2> HIDE DEF U, b, k
  <2> QED BY <2>1, <1>5, <1>6 DEF Timed
<1>10. Sound(b, m, k + 1, Q, timers \cup U, join_instances)
  <2> HIDE DEF U, b, k, m, Q
  <2> QED BY <1>4, <1>9, Arms
<1>11. f \in Seq(ToSet(f)) /\ Sound(b, m, k + 1, Q \cup ToSet(f), timers \cup U, join_instances)
  <2>1. CASE Kind(e) \in {"task", "catch"}
    <3>1. f = << >> BY <2>1
    <3> HIDE DEF f
    <3>2. Q \cup ToSet(f) = Q BY <3>1, Nothing
    <3> QED BY <3>1, <3>2, <1>10, Nothing
  <2>2. CASE Kind(e) = "sub"
    <3> DEFINE p == Activate(Definition.inner[e], k, NoFlow)
    <3>1. f = <<p>> BY <2>2
    <3>2. p.op = "Activate" /\ p.scope = k BY DEF Activate
    <3> HIDE DEF p, f, b, k, m, Q
    <3>3. Queueable(b, m, k + 1, Q, {p})
      BY <2>2, <3>2, <1>5, <1>6, <1>7 DEF Queueable, Enterable, Entering
    <3> QED BY <3>1, <3>3, <1>10, Followed, Single
  <2>3. CASE Kind(e) \notin {"task", "catch", "sub"}
    <3> DEFINE p == Complete(k)
    <3>1. f = <<p>> BY <2>3
    <3>2. p.op = "Complete" /\ p.key = k BY DEF Complete
    <3> HIDE DEF p, f, b, k, m, Q
    <3>3. Queueable(b, m, k + 1, Q, {p})
      BY <2>3, <3>2, <1>5, <1>6 DEF Queueable, Leaving
    <3> QED BY <3>1, <3>3, <1>10, Followed, Single
  <2> QED BY <2>1, <2>2, <2>3
<1> HIDE DEF b, f, U
<1>12. Sound(active', multi_instances', next_key', Q \cup ToSet(f), timers', join_instances')
  BY <1>1, <1>11
<1> QED BY <1>1, <1>11, <1>12, Stepped

LEMMA ActivateBodyInv == ASSUME Inv, NEW step, ActivateBody(step) PROVE Inv'
<1> DEFINE e == step.el
           s == step.scope
           k == next_key
           Q == ToSet(queue)
           b == With(active, k, Token(e, s))
           U == Armed(k, e)
<1>1. PICK total \in 0 .. Items :
        /\ multi_instances' = With(multi_instances, k, Record(total, 0, {}))
        /\ Then(CASE total = 0 -> <<CompleteMiBody(k)>>
                  [] total > 0 /\ e \in Definition.sequential -> <<ActivateMiChild(k)>>
                  [] OTHER -> [n \in 1 .. total |-> ActivateMiChild(k)])
  BY DEF ActivateBody
<1> DEFINE r == Record(total, 0, {})
           w == With(multi_instances, k, r)
           f == CASE total = 0 -> <<CompleteMiBody(k)>>
                  [] total > 0 /\ e \in Definition.sequential -> <<ActivateMiChild(k)>>
                  [] OTHER -> [n \in 1 .. total |-> ActivateMiChild(k)]
<1>2. /\ Live(step) /\ step.op = "Activate" /\ Processing(step)
      /\ active' = b /\ next_key' = k + 1 /\ timers' = timers \cup U /\ Then(f)
      /\ join_instances' = join_instances /\ multi_instances' = w
  BY <1>1 DEF ActivateBody, Live, joins
<1>3. Sound(active, multi_instances, k, Q, timers, join_instances) BY DEF Inv
<1>4. Here(s) /\ (s = 0 \/ s \in DOMAIN active) BY <1>2, LiveScope
<1>5. Sound(b, w, k + 1, Q, timers, join_instances)
  <2>1. 0 \notin r.active BY DEF Record
  <2> HIDE DEF r
  <2> QED BY <1>3, <1>4, <2>1, BodyComes DEF Here
<1>6. /\ DOMAIN b = DOMAIN active \cup {k} /\ b[k].scope = s /\ k \in 1 .. (k + 1) - 1
      /\ s \notin DOMAIN w /\ k \in DOMAIN w
  <2>1. k \in Nat \ {0} /\ k \notin 1 .. k - 1 /\ 0 \notin DOMAIN multi_instances
    BY <1>3 DEF Sound, Tokens
  <2>2. s \notin DOMAIN multi_instances /\ s # k BY <1>4, <2>1 DEF Here, Enterable, Entering
  <2> QED BY <2>1, <2>2 DEF With, Token
<1>7. Timed(b, w, k + 1, U)
  <2>1. \A t \in U : t.host = k /\ Kind(t.event) # "catch" BY DEF Armed
  <2> HIDE DEF U, b, w, k
  <2> QED BY <2>1, <1>6 DEF Timed
<1>8. Sound(b, w, k + 1, Q, timers \cup U, join_instances)
  <2> HIDE DEF U, b, k, w, Q
  <2> QED BY <1>5, <1>7, Arms
<1>9. f \in Seq(ToSet(f)) /\ \A p \in ToSet(f) : p.op \in {"CompleteMiBody", "ActivateMiChild"} /\ p.key = k
  <2> DEFINE P == {CompleteMiBody(k), ActivateMiChild(k)}
  <2>1. f \in Seq(P)
    <3>0. total \in Nat BY DefinitionsAssumption
    <3>1. CASE total = 0
      <4>1. f = <<CompleteMiBody(k)>> BY <3>1
      <4> HIDE DEF f
      <4>2. CompleteMiBody(k) \in P OBVIOUS
      <4> HIDE DEF P
      <4> QED BY <4>1, <4>2
    <3>2. CASE total # 0 /\ e \in Definition.sequential
      <4>1. f = <<ActivateMiChild(k)>> BY <3>0, <3>2
      <4> HIDE DEF f
      <4>2. ActivateMiChild(k) \in P OBVIOUS
      <4> HIDE DEF P
      <4> QED BY <4>1, <4>2
    <3>3. CASE total # 0 /\ e \notin Definition.sequential
      <4>1. f = [n \in 1 .. total |-> ActivateMiChild(k)] BY <3>0, <3>3
      <4> QED BY <3>0, <4>1
    <3> QED BY <3>1, <3>2, <3>3
  <2>2. \A p \in P : p.op \in {"CompleteMiBody", "ActivateMiChild"} /\ p.key = k
    BY DEF CompleteMiBody, ActivateMiChild
  <2> HIDE DEF f, P
  <2>3. f \in Seq(ToSet(f)) /\ ToSet(f) \subseteq P BY <2>1, OwnSet
  <2> QED BY <2>2, <2>3
<1> HIDE DEF f, b, w, U
<1>10. Sound(b, w, k + 1, Q \cup ToSet(f), timers \cup U, join_instances)
  <2> DEFINE R == ToSet(f)
  <2>1. \A p \in R : p.op \in {"CompleteMiBody", "ActivateMiChild"} /\ p.key = k BY <1>9
  <2> HIDE DEF R, k, Q
  <2>2. Queueable(b, w, k + 1, Q, R) BY <2>1, <1>6 DEF Queueable, ForBody
  <2> QED BY <2>2, <1>8, Queued DEF R
<1>11. Sound(active', multi_instances', next_key', Q \cup ToSet(f), timers', join_instances')
  BY <1>2, <1>10
<1> QED BY <1>2, <1>9, <1>11, Stepped

LEMMA ActivateChildInv == ASSUME Inv, NEW step, ActivateChild(step) PROVE Inv'
<1> DEFINE h == step.key
           e == active[h].el
           k == next_key
           m == multi_instances
           Q == ToSet(queue)
           b == With(active, k, Token(e, h))
           w == With(m, h, Record(m[h].total, m[h].spawned + 1, m[h].active \cup {k}))
           f == CASE Kind(e) = "task" -> << >>
                  [] Kind(e) = "sub" -> <<Activate(Definition.inner[e], k, NoFlow)>>
                  [] OTHER -> <<Complete(k)>>
<1>1. /\ Live(step) /\ step.op = "ActivateMiChild" /\ Processing(step)
      /\ active' = b /\ next_key' = k + 1 /\ timers' = timers /\ Then(f)
      /\ join_instances' = join_instances /\ multi_instances' = w
  BY DEF ActivateChild, Live, joins
<1>2. Sound(active, m, k, Q, timers, join_instances) BY DEF Inv
<1>3. h \in DOMAIN m /\ h \in DOMAIN active
  <2>1. h \in DOMAIN m BY <1>1 DEF Live, TargetsDeadScope, IsMiBody
  <2>2. step \in Q BY <1>1, Popped DEF Live, Processing, Inv
  <2> QED BY <1>1, <1>2, <2>1, <2>2 DEF Sound, Steps, ForBody
<1>4. /\ DOMAIN w = DOMAIN m /\ w[h].active = m[h].active \cup {k}
      /\ \A x \in DOMAIN m \ {h} : w[x] = m[x]
  BY <1>3 DEF With, Record
<1>5. Sound(b, w, k + 1, Q, timers, join_instances)
  <2> HIDE DEF w, m
  <2> QED BY <1>2, <1>3, <1>4, ChildComes
<1>6. /\ DOMAIN b = DOMAIN active \cup {k} /\ b[k].el = e /\ h # k
      /\ k \notin DOMAIN w /\ k \in 1 .. (k + 1) - 1 /\ k \notin 1 .. k - 1
  <2>1. k \in Nat \ {0} /\ k \notin 1 .. k - 1 /\ DOMAIN m \subseteq 1 .. k - 1
    BY <1>2 DEF Sound, Tokens
  <2> QED BY <2>1, <1>3, <1>4 DEF With, Token
<1>7. IsSub(b, k) <=> Kind(e) = "sub" BY <1>6 DEF IsSub
<1>8. \A q \in Q : q.op = "Complete" => q.key # k
  BY <1>2, <1>6 DEF Sound, Steps, Leaving
<1> HIDE DEF w
<1>9. f \in Seq(ToSet(f)) /\ Sound(b, w, k + 1, Q \cup ToSet(f), timers, join_instances)
  <2>1. CASE Kind(e) = "task"
    <3>1. f = << >> BY <2>1
    <3> HIDE DEF f
    <3>2. Q \cup ToSet(f) = Q BY <3>1, Nothing
    <3> QED BY <3>1, <3>2, <1>5, Nothing
  <2>2. CASE Kind(e) = "sub"
    <3> DEFINE p == Activate(Definition.inner[e], k, NoFlow)
    <3>1. f = <<p>> BY <2>2
    <3>2. p.op = "Activate" /\ p.scope = k BY DEF Activate
    <3> HIDE DEF p, f, b, k, Q
    <3>3. Queueable(b, w, k + 1, Q, {p})
      BY <2>2, <3>2, <1>6, <1>7, <1>8 DEF Queueable, Enterable, Entering
    <3> QED BY <3>1, <3>3, <1>5, Followed, Single
  <2>3. CASE Kind(e) \notin {"task", "sub"}
    <3> DEFINE p == Complete(k)
    <3>1. f = <<p>> BY <2>3
    <3>2. p.op = "Complete" /\ p.key = k BY DEF Complete
    <3> HIDE DEF p, f, b, k, Q
    <3>3. Queueable(b, w, k + 1, Q, {p})
      BY <2>3, <3>2, <1>6, <1>7 DEF Queueable, Leaving
    <3> QED BY <3>1, <3>3, <1>5, Followed, Single
  <2> QED BY <2>1, <2>2, <2>3
<1> HIDE DEF b, f
<1>10. Sound(active', multi_instances', next_key', Q \cup ToSet(f), timers', join_instances')
  BY <1>1, <1>9
<1> QED BY <1>1, <1>9, <1>10, Stepped

\* A join that waits: a token comes which is no scope.
LEMMA JoinComes ==
    ASSUME NEW a, NEW m, NEW n, NEW Q, NEW T, NEW J, Sound(a, m, n, Q, T, J),
           NEW j, IsJoin(j), NEW s, Enterable(a, m, n, Q, s), s = 0 \/ s \in DOMAIN a
    PROVE  Sound(With(a, n, Token(j, s)), m, n + 1, Q, T, With(Without(J, {j}), j, n))
<1> DEFINE b == With(a, n, Token(j, s))
<1>1. Sound(b, m, n + 1, Q, T, J) BY Comes
<1>2. n \in 1 .. (n + 1) - 1 /\ n \notin DOMAIN m BY DEF Sound, Tokens
<1>3. b[n].el = j BY DEF With, Token
<1>4. ~ IsSub(b, n)
  <2> HIDE DEF b
  <2> QED BY <1>3 DEF IsSub, IsJoin
<1> HIDE DEF b
<1> QED BY <1>1, <1>2, <1>4, Opens DEF b

LEMMA WaitAtJoinInv == ASSUME Inv, NEW step, WaitAtJoin(step) PROVE Inv'
<1> DEFINE j == step.el
           Q == ToSet(queue)
<1>1. /\ Live(step) /\ step.op = "Activate" /\ Processing(step) /\ Then(<< >>) /\ IsJoin(j)
      /\ timers' = timers /\ multi_instances' = multi_instances
  BY DEF WaitAtJoin, Live
<1>2. Sound(active, multi_instances, next_key, Q, timers, join_instances) BY DEF Inv
<1>3. Sound(active', multi_instances', next_key', Q, timers', join_instances')
  <2>1. CASE FlowsTaken(j) # {} /\ j \notin DOMAIN join_instances
    <3>1. /\ active' = With(active, next_key, Token(j, step.scope)) /\ next_key' = next_key + 1
          /\ join_instances' = With(Without(join_instances, {j}), j, next_key)
      BY <2>1 DEF WaitAtJoin, OpenJoin
    <3>2. Here(step.scope) /\ (step.scope = 0 \/ step.scope \in DOMAIN active) BY <1>1, LiveScope
    <3>3. Sound(With(active, next_key, Token(j, step.scope)), multi_instances, next_key + 1, Q, timers,
                With(Without(join_instances, {j}), j, next_key))
      BY <1>1, <1>2, <3>2, JoinComes DEF Here
    <3> QED BY <1>1, <3>1, <3>3
  <2>2. CASE ~ (FlowsTaken(j) # {} /\ j \notin DOMAIN join_instances)
    <3>1. active' = active /\ join_instances' = join_instances /\ next_key' = next_key
      BY <2>2 DEF WaitAtJoin
    <3> QED BY <1>1, <1>2, <3>1
  <2> QED BY <2>1, <2>2
<1>4. Q \cup ToSet(<< >>) = Q BY Nothing
<1> QED BY <1>1, <1>3, <1>4, Nothing, Stepped

\* A token that is no scope leaves alone.
LEMMA LeavesAlone ==
    ASSUME NEW a, NEW m, NEW n, NEW Q, NEW T, NEW J, Sound(a, m, n, Q, T, J),
           NEW K, K \cap DOMAIN m = {}, \A c \in DOMAIN a : a[c].scope \notin K
    PROVE  Sound(Without(a, K), m, n, Q, T, J)
<1>1. \A q \in Q : q.op \in {"ActivateMiChild", "CompleteMiBody"} /\ q.key \in K => q.key \notin DOMAIN m
  OBVIOUS
<1> QED BY <1>1, Leave

LEMMA FireJoinInv == ASSUME Inv, NEW step, FireJoin(step) PROVE Inv'
<1> DEFINE j == step.el
           s == step.scope
           m == multi_instances
           Q == ToSet(queue)
           opened == {join_instances[i] : i \in DOMAIN join_instances \cap {j}}
           surplus == ConsumeOneEach(join_flow_arrivals[j])
           fresh == next_key + (IF opened = {} THEN 1 ELSE 0)
           a == Without(active, opened)
<1>1. PICK chosen \in Selections(j) : Then(Activations(Taken(j, chosen, s))) BY DEF FireJoin
<1> DEFINE f == Activations(Taken(j, chosen, s))
<1>2. /\ Live(step) /\ step.op = "Activate" /\ Processing(step) /\ Then(f) /\ IsJoin(j)
      /\ timers' = timers /\ multi_instances' = m
  BY <1>1 DEF FireJoin, Live
<1>3. Here(s) /\ (s = 0 \/ s \in DOMAIN active) BY <1>2, LiveScope
<1>4. AllEnter(f, s) BY EntersSome
<1> HIDE DEF f
<1>5. Sound(active, m, next_key, Q \cup ToSet(f), timers, join_instances)
  BY <1>3, <1>4, EntersQueued DEF Here, Inv
<1> DEFINE R == Q \cup ToSet(f)
<1>6. opened \cap DOMAIN m = {} /\ \A c \in DOMAIN active : active[c].scope \notin opened
  <2>1. ASSUME NEW x \in opened PROVE x \notin DOMAIN m /\ (x \in DOMAIN active => ~ IsSub(active, x)) /\ x # 0
    <3>1. j \in DOMAIN join_instances /\ x = join_instances[j] OBVIOUS
    <3> QED BY <3>1, <1>5 DEF Sound, Gates, Tokens
  <2> HIDE DEF opened
  <2> QED BY <2>1, <1>5 DEF Sound, Tokens
<1>7. Sound(a, m, next_key, R, timers, join_instances)
  <2> HIDE DEF opened, R, m
  <2> QED BY <1>5, <1>6, LeavesAlone DEF R
<1>8. fresh \in {next_key, next_key + 1}
  <2>1. next_key \in Nat BY <1>5 DEF Sound, Tokens
  <2> QED BY <2>1
<1> HIDE DEF fresh
<1>9. Sound(a, m, fresh, R, timers, join_instances)
  <2> HIDE DEF opened, R, m, a
  <2> QED BY <1>7, <1>8, Later
<1>10. CASE surplus = << >>
  <2>1. active' = a /\ join_instances' = Without(join_instances, {j}) /\ next_key' = fresh
    BY <1>10 DEF FireJoin, fresh
  <2>2. /\ DOMAIN join_instances' \subseteq DOMAIN join_instances
        /\ \A i \in DOMAIN join_instances' : join_instances'[i] = join_instances[i]
    BY <2>1 DEF Without
  <2> HIDE DEF opened, m, a, R
  <2>3. Sound(a, m, fresh, R, timers, join_instances') BY <1>9, <2>2, Fewer
  <2>4. Sound(active', multi_instances', next_key', R, timers', join_instances') BY <1>2, <2>1, <2>3
  <2> QED BY <1>2, <1>4, <2>4, Stepped DEF AllEnter, R
<1>11. CASE surplus # << >>
  <2>1. /\ active' = With(a, fresh, Token(j, s)) /\ next_key' = fresh + 1
        /\ join_instances' = With(Without(join_instances, {j}), j, fresh)
    BY <1>11 DEF FireJoin, fresh, OpenJoin
  <2>2. Enterable(a, m, fresh, R, s) /\ (s = 0 \/ s \in DOMAIN a)
    <3>1. s \notin opened
      <4>1. s \in opened => s = join_instances[j] /\ j \in DOMAIN join_instances OBVIOUS
      <4> HIDE DEF opened
      <4>2. s \in opened => s # 0 /\ s \in DOMAIN active /\ ~ IsSub(active, s)
        <5>1. 0 \notin 1 .. next_key - 1 BY <1>5 DEF Sound, Tokens
        <5> QED BY <4>1, <1>3, <5>1, <1>5 DEF Sound, Gates
      <4> QED BY <4>2, <1>3 DEF Here, Enterable, Entering
    <3>2. DOMAIN a = DOMAIN active \ opened /\ \A x \in DOMAIN a : a[x] = active[x] BY DEF Without
    <3>3. s # 0 => s \in DOMAIN a /\ s \in 1 .. fresh - 1
      <4>1. s # 0 => s \in DOMAIN a BY <1>3, <3>1, <3>2
      <4> QED BY <4>1, <1>9 DEF Sound, Tokens
    <3>4. \A x \in DOMAIN a : IsSub(a, x) <=> IsSub(active, x) BY <3>2 DEF IsSub
    <3>5. \A p \in ToSet(f) : p.op # "Complete" BY <1>4 DEF AllEnter
    <3> HIDE DEF a, opened, m, f
    <3> QED BY <1>3, <3>2, <3>3, <3>4, <3>5 DEF Here, Enterable, Entering, m
  <2> HIDE DEF opened, m, a, R
  <2>3. Sound(With(a, fresh, Token(j, s)), m, fresh + 1, R, timers,
              With(Without(join_instances, {j}), j, fresh))
    BY <1>2, <1>9, <2>2, JoinComes
  <2>4. Sound(active', multi_instances', next_key', R, timers', join_instances') BY <1>2, <2>1, <2>3
  <2> QED BY <1>2, <1>4, <2>4, Stepped DEF AllEnter, R
<1> QED BY <1>10, <1>11

-----------------------------------------------------------------------------
(* Completions and teardowns. *)

LEMMA CompletesAlone ==
    ASSUME Inv, NEW step, Live(step), step.op = "Complete"
    PROVE  /\ step.key \in DOMAIN active /\ step.key \notin DOMAIN multi_instances
           /\ \A c \in DOMAIN active : active[c].scope # step.key
<1>1. step \in ToSet(queue) BY Popped DEF Live, Processing, Inv
<1>2. Leaving(active, multi_instances, next_key, ToSet(queue), step.key) BY <1>1 DEF Inv, Sound, Steps
<1>3. step.key \in DOMAIN active BY DEF Live, TargetsDeadScope
<1>4. step.key # 0 BY <1>3 DEF Inv, Sound, Tokens
<1> QED BY <1>2, <1>3, <1>4 DEF Leaving, Inv, Sound, Tokens

LEMMA CompleteElementInv == ASSUME Inv, NEW step, CompleteElement(step) PROVE Inv'
<1> DEFINE k == step.key
           Q == ToSet(queue)
           s == ScopeOf(k)
<1>1. PICK chosen \in Selections(active[k].el) : Then(Activations(Taken(active[k].el, chosen, s)))
  BY DEF CompleteElement
<1> DEFINE f == Activations(Taken(active[k].el, chosen, s))
<1>2. /\ Live(step) /\ step.op = "Complete" /\ Processing(step) /\ Then(f) /\ ~ IsMiChild(k)
      /\ active' = Without(active, {k}) /\ timers' \in SUBSET timers
      /\ UNCHANGED <<join_instances, multi_instances, next_key>>
  BY <1>1 DEF CompleteElement, Completing, Live
<1>3. /\ k \in DOMAIN active /\ {k} \cap DOMAIN multi_instances = {}
      /\ \A c \in DOMAIN active : active[c].scope \notin {k}
  BY <1>2, CompletesAlone
<1>4. Here(s) BY <1>2, <1>3, NoChild, HostScope
<1>5. AllEnter(f, s) BY EntersSome
<1> HIDE DEF f, s
<1>6. Sound(active, multi_instances, next_key, Q \cup ToSet(f), timers, join_instances)
  BY <1>4, <1>5, EntersQueued DEF Here, Inv
<1> DEFINE R == Q \cup ToSet(f)
           K == {k}
<1> HIDE DEF R, K
<1>7. Sound(Without(active, K), multi_instances, next_key, R, timers, join_instances)
  BY <1>3, <1>6, LeavesAlone DEF R, K
<1>8. Sound(Without(active, K), multi_instances, next_key, R, timers', join_instances)
  BY <1>2, <1>7, Fewer
<1>9. Sound(active', multi_instances', next_key', R, timers', join_instances') BY <1>2, <1>8 DEF K
<1> QED BY <1>2, <1>5, <1>9, Stepped DEF AllEnter, R

\* A teardown takes whole scopes.
LEMMA Discarded ==
    ASSUME NEW Q, NEW T, NEW n,
           Sound(active, multi_instances, n, Q, T, join_instances),
           NEW K, \A c \in DOMAIN active : active[c].scope \in K => c \in K, NEW U \in SUBSET T
    PROVE  Sound(Without(active, K), Without(multi_instances, K), n, Q, U,
                 Without(join_instances, OpenOn(K)))
<1> DEFINE w == Without(multi_instances, K)
           J == Without(join_instances, OpenOn(K))
<1>1. DOMAIN w = DOMAIN multi_instances \ K /\ \A x \in DOMAIN w : w[x] = multi_instances[x]
  BY DEF Without
<1>2. DOMAIN J \subseteq DOMAIN join_instances /\ \A j \in DOMAIN J : J[j] = join_instances[j]
  BY DEF Without
<1> HIDE DEF w, J
<1>3. Sound(Without(active, K), w, n, Q, T, join_instances) BY <1>1, Leave
<1> QED BY <1>2, <1>3, Fewer DEF w, J

LEMMA TerminateScopeInv == ASSUME Inv, NEW step, TerminateScope(step) PROVE Inv'
<1> DEFINE s == ScopeOf(step.key)
           K == Inside(s)
           Q == ToSet(queue)
<1>1. /\ Processing(step) /\ Then(<< >>) /\ s # 0 /\ Discard(K) /\ timers' \in SUBSET timers
      /\ next_key' = next_key
  BY DEF TerminateScope, Completing, Live
<1>2. \A c \in DOMAIN active : active[c].scope \in K => c \in K BY <1>1, InsideWithin DEF Within
<1> HIDE DEF K
<1>3. Sound(Without(active, K), Without(multi_instances, K), next_key, Q, timers',
            Without(join_instances, OpenOn(K)))
  BY <1>1, <1>2, Discarded DEF Inv
<1>4. Sound(active', multi_instances', next_key', Q, timers', join_instances')
  BY <1>1, <1>3 DEF Discard, RecordsWithout
<1>5. Q \cup ToSet(<< >>) = Q BY Nothing
<1> QED BY <1>1, <1>4, <1>5, Nothing, Stepped

LEMMA TerminateInstanceInv == ASSUME Inv, NEW step, TerminateInstance(step) PROVE Inv'
<1> DEFINE Q == ToSet(queue)
           n == next_key
<1>1. /\ Processing(step) /\ Then(<< >>) /\ next_key' = n
      /\ active' = << >> /\ multi_instances' = << >> /\ timers' = {} /\ join_instances' = << >>
  BY DEF TerminateInstance, Completing, Live
<1>2. DOMAIN << >> = {} OBVIOUS
<1>3. n \in Nat \ {0} BY DEF Inv, Sound, Tokens
<1>4. Tokens(<< >>, << >>, n) BY <1>2, <1>3 DEF Tokens
<1>5. Children(<< >>, << >>) BY <1>2 DEF Children
<1>6. Steps(<< >>, << >>, n, Q)
  <2>1. Steps(active, multi_instances, n, Q) BY DEF Inv, Sound
  <2> HIDE DEF Q
  <2> QED BY <1>2, <2>1 DEF Steps, Entering, Leaving, ForBody
<1>7. Timed(<< >>, << >>, n, {}) BY DEF Timed
<1>8. Gates(<< >>, << >>, n, << >>) BY <1>2 DEF Gates
<1>9. Sound(active', multi_instances', next_key', Q, timers', join_instances')
  BY <1>1, <1>4, <1>5, <1>6, <1>7, <1>8 DEF Sound
<1>10. Q \cup ToSet(<< >>) = Q BY Nothing
<1> QED BY <1>1, <1>9, <1>10, Nothing, Stepped

LEMMA CompleteChildInv ==
    ASSUME Inv, NEW step, NEW satisfied \in BOOLEAN, CompleteChild(step, satisfied) PROVE Inv'
<1> DEFINE k == step.key
           b == ScopeOf(k)
           e == active[k].el
           m == multi_instances
           body == m[b]
           Q == ToSet(queue)
           w == With(m, b, Record(body.total, body.spawned, body.active \ {k}))
           f == CASE satisfied -> <<CompleteMiBody(b)>>
                  [] ~ satisfied /\ e \in Definition.sequential ->
                        IF body.spawned < body.total THEN <<ActivateMiChild(b)>> ELSE <<CompleteMiBody(b)>>
                  [] OTHER -> IF LoopOver(body) THEN <<CompleteMiBody(b)>> ELSE << >>
<1>1. /\ Live(step) /\ step.op = "Complete" /\ Processing(step) /\ Then(f) /\ IsMiChild(k)
      /\ active' = Without(active, {k}) /\ multi_instances' = w
      /\ UNCHANGED <<join_instances, timers, next_key>>
  BY DEF CompleteChild, Live, joins
<1>2. /\ k \in DOMAIN active /\ k \notin DOMAIN m /\ \A c \in DOMAIN active : active[c].scope # k
  BY <1>1, CompletesAlone
<1>3. b \in DOMAIN m /\ b = active[k].scope /\ b \in DOMAIN active
  <2>1. b \in DOMAIN m BY <1>1 DEF IsMiChild, IsMiBody
  <2>2. b = active[k].scope BY <1>2, ScopeIs
  <2>3. b # 0 BY <2>1 DEF Inv, Sound, Tokens
  <2> QED BY <1>2, <2>1, <2>2, <2>3 DEF Inv, Sound, Tokens
<1>4. f \in Seq(ToSet(f)) /\ \A p \in ToSet(f) : p.op \in {"CompleteMiBody", "ActivateMiChild"} /\ p.key = b
  <2> DEFINE P == {CompleteMiBody(b), ActivateMiChild(b)}
  <2>1. f \in {<<CompleteMiBody(b)>>, <<ActivateMiChild(b)>>, << >>}
    <3>1. CASE satisfied BY <3>1
    <3>2. CASE ~ satisfied /\ e \in Definition.sequential BY <3>2
    <3>3. CASE ~ satisfied /\ e \notin Definition.sequential BY <3>3
    <3> QED BY <3>1, <3>2, <3>3
  <2>2. CompleteMiBody(b) \in P /\ ActivateMiChild(b) \in P OBVIOUS
  <2>3. \A p \in P : p.op \in {"CompleteMiBody", "ActivateMiChild"} /\ p.key = b
    BY DEF CompleteMiBody, ActivateMiChild
  <2> HIDE DEF f, P
  <2>4. f \in Seq(P)
    <3> DEFINE x == CompleteMiBody(b)
               y == ActivateMiChild(b)
    <3>1. x \in P /\ y \in P /\ f \in {<<x>>, <<y>>, << >>} BY <2>1, <2>2
    <3> HIDE DEF x, y
    <3>2. <<x>> \in Seq(P) /\ <<y>> \in Seq(P) /\ << >> \in Seq(P) BY <3>1
    <3> QED BY <3>1, <3>2
  <2>5. f \in Seq(ToSet(f)) /\ ToSet(f) \subseteq P BY <2>4, OwnSet
  <2> QED BY <2>3, <2>5
<1> HIDE DEF f
<1> DEFINE R == Q \cup ToSet(f)
           K == {k}
<1>5. Sound(active, m, next_key, R, timers, join_instances)
  <2> DEFINE F == ToSet(f)
  <2>1. \A p \in F : p.op \in {"CompleteMiBody", "ActivateMiChild"} /\ p.key = b BY <1>4
  <2> HIDE DEF F, b, Q
  <2>2. Queueable(active, m, next_key, Q, F) BY <2>1, <1>3 DEF Queueable, ForBody
  <2> QED BY <2>2, Queued DEF F, Inv, Q
<1>6. /\ DOMAIN w = DOMAIN m
      /\ \A x \in DOMAIN w : m[x].active \ K \subseteq w[x].active /\ w[x].active \subseteq m[x].active
  BY <1>3 DEF With, Record
<1>7. \A c \in DOMAIN active : active[c].scope \in K => c \in K BY <1>2
<1>8. K \cap DOMAIN m = {} BY <1>2
<1> HIDE DEF w, R, K
<1>9. Sound(Without(active, K), w, next_key, R, timers, join_instances)
  <2>1. \A q \in R : q.op \in {"ActivateMiChild", "CompleteMiBody"} /\ q.key \in K => q.key \notin DOMAIN w
    BY <1>6, <1>8
  <2> QED BY <1>5, <1>6, <1>7, <2>1, Leave
<1>10. Sound(active', multi_instances', next_key', R, timers', join_instances') BY <1>1, <1>9 DEF K
<1> QED BY <1>1, <1>4, <1>10, Stepped DEF R

\* The scope s is entered, then whole scopes are torn down.
LEMMA EnterAndDiscard ==
    ASSUME Inv, NEW s, Here(s), NEW f, AllEnter(f, s),
           NEW K, \A c \in DOMAIN active : active[c].scope \in K => c \in K, NEW U \in SUBSET timers
    PROVE  Sound(Without(active, K), Without(multi_instances, K), next_key, ToSet(queue) \cup ToSet(f), U,
                 Without(join_instances, OpenOn(K)))
<1> DEFINE R == ToSet(queue) \cup ToSet(f)
<1>1. Sound(active, multi_instances, next_key, R, timers, join_instances)
  BY EntersQueued DEF Here, Inv
<1> HIDE DEF R
<1>2. Sound(Without(active, K), Without(multi_instances, K), next_key, R, U, Without(join_instances, OpenOn(K)))
  BY <1>1, Discarded
<1> QED BY <1>2 DEF R

LEMMA EnterOne ==
    ASSUME NEW e, NEW s, NEW v
    PROVE  AllEnter(<<Activate(e, s, v)>>, s)
<1> DEFINE p == Activate(e, s, v)
<1>1. p.op = "Activate" /\ p.scope = s BY DEF Activate
<1> HIDE DEF p
<1>2. AllEnter(<<p>>, s) BY <1>1, Single DEF AllEnter
<1> QED BY <1>2 DEF p

LEMMA CompleteBodyInv == ASSUME Inv, NEW step, CompleteBody(step) PROVE Inv'
<1> DEFINE b == step.key
           m == multi_instances
           children == m[b].active
           K == {b} \cup children \cup UNION {Inside(c) : c \in children}
           s == ScopeOf(b)
           f == Activations(TakenAll(active[b].el, s))
<1>1. /\ Live(step) /\ step.op = "CompleteMiBody" /\ Processing(step) /\ Then(f)
      /\ active' = Without(active, K) /\ multi_instances' = Without(m, K)
      /\ join_instances' = Without(join_instances, OpenOn(K)) /\ timers' \in SUBSET timers
      /\ next_key' = next_key
  BY DEF CompleteBody, Live, RecordsWithout
<1>2. b \in DOMAIN m /\ b \in DOMAIN active
  <2>1. b \in DOMAIN m BY <1>1 DEF Live, TargetsDeadScope, IsMiBody
  <2>2. step \in ToSet(queue) BY <1>1, Popped DEF Processing, Inv
  <2> QED BY <1>1, <2>1, <2>2 DEF Inv, Sound, Steps, ForBody
<1>3. Here(s)
  <2>1. active[b].scope \notin DOMAIN m BY <1>2 DEF Inv, Sound, Children
  <2> QED BY <2>1, HostScope
<1>4. AllEnter(f, s) BY EntersAll
<1>5. ASSUME NEW c \in DOMAIN active, active[c].scope \in K PROVE c \in K
  <2>1. CASE active[c].scope = b
    <3>1. c \in children BY <1>2, <2>1 DEF Inv, Sound, Children
    <3> QED BY <3>1
  <2>2. ASSUME NEW d \in children, active[c].scope \in Inside(d) \cup {d} PROVE c \in K
    <3>1. d # 0 BY <1>2 DEF Inv, Sound, Children
    <3>2. c \in Inside(d) BY <2>2, <3>1, InsideWithin DEF Within
    <3> QED BY <3>2
  <2> QED BY <1>5, <2>1, <2>2
<1> HIDE DEF f, s, K
<1>6. Sound(active', multi_instances', next_key', ToSet(queue) \cup ToSet(f), timers', join_instances')
  BY <1>1, <1>3, <1>4, <1>5, EnterAndDiscard
<1> QED BY <1>1, <1>4, <1>6, Stepped DEF AllEnter

\* The activity whose boundary catches an escalation, or its body.
HostOf(caught) == IF IsMiChild(caught) THEN ScopeOf(caught) ELSE caught

LEMMA EscalationHost ==
    ASSUME Inv, NEW k, NEW caught \in Catching(k)
    PROVE  Here(ScopeOf(HostOf(caught))) /\ HostOf(caught) # 0
<1> DEFINE m == multi_instances
           host == HostOf(caught)
<1>0. caught \in DOMAIN active /\ 0 \notin DOMAIN active /\ 0 \notin DOMAIN m
  BY DEF Catching, Inv, Sound, Tokens
<1>1. CASE IsMiChild(caught)
  <2>1. host = active[caught].scope /\ host \in DOMAIN m
    BY <1>0, <1>1, ScopeIs DEF IsMiChild, IsMiBody, HostOf
  <2> HIDE DEF host
  <2>2. caught \in DOMAIN active /\ host \in DOMAIN active
    BY <1>0, <2>1 DEF Inv, Sound, Tokens
  <2>3. active[host].scope \notin DOMAIN m BY <2>1, <2>2 DEF Inv, Sound, Children
  <2> QED BY <1>0, <2>1, <2>3, HostScope DEF host
<1>2. CASE ~ IsMiChild(caught)
  <2>1. host = caught BY <1>2 DEF HostOf
  <2> HIDE DEF host
  <2> QED BY <1>0, <1>2, <2>1, NoChild, HostScope DEF host
<1> QED BY <1>1, <1>2

LEMMA RaiseEscalationInv == ASSUME Inv, NEW step, RaiseEscalation(step) PROVE Inv'
<1> DEFINE k == step.key
           Q == ToSet(queue)
           m == multi_instances
           s == ScopeOf(k)
           f == Activations(TakenAll(active[k].el, s))
<1>1. /\ Live(step) /\ step.op = "Complete" /\ Processing(step) /\ ~ IsMiChild(k) /\ next_key' = next_key
  BY DEF RaiseEscalation, Completing, Live
<1>2. /\ k \in DOMAIN active /\ {k} \cap DOMAIN m = {} /\ \A c \in DOMAIN active : active[c].scope \notin {k}
  BY <1>1, CompletesAlone
<1>3. Here(s) BY <1>1, <1>2, NoChild, HostScope
<1>4. AllEnter(f, s) BY EntersAll
<1> HIDE DEF f, s
<1> DEFINE R == Q \cup ToSet(f)
           K == {k}
<1>6. Sound(active, m, next_key, R, timers, join_instances)
  BY <1>3, <1>4, EntersQueued DEF Here, Inv
<1>7. ASSUME active' = Without(active, K), Then(f),
             UNCHANGED <<join_instances, multi_instances, timers>>
      PROVE  Inv'
  <2> HIDE DEF R, K
  <2>1. Sound(Without(active, K), m, next_key, R, timers, join_instances)
    BY <1>2, <1>6, LeavesAlone DEF K
  <2>2. Sound(active', multi_instances', next_key', R, timers', join_instances') BY <1>1, <1>7, <2>1
  <2> QED BY <1>1, <1>4, <1>7, <2>2, Stepped DEF AllEnter, R
<1>8. ASSUME NEW e, NEW caught \in Catching(k),
             active' = Without(active, K),
             Then(Append(f, Activate(e, ScopeOf(HostOf(caught)), NoFlow))),
             UNCHANGED <<join_instances, multi_instances, timers>>
      PROVE  Inv'
  <2> DEFINE h == ScopeOf(HostOf(caught))
  <2>0. Here(h) BY EscalationHost
  <2> DEFINE g == <<Activate(e, h, NoFlow)>>
             F == f \o g
  <2>1. AllEnter(g, h) BY EnterOne
  <2>2. F \in Seq(ToSet(F)) /\ ToSet(F) \subseteq ToSet(f) \cup ToSet(g)
    <3> HIDE DEF g
    <3> QED BY <1>4, <2>1, Joined DEF AllEnter
  <2>3. Append(f, Activate(e, h, NoFlow)) = F BY <1>4 DEF AllEnter
  <2> HIDE DEF g, K, F
  <2>4. Enterable(active, m, next_key, R, h)
    <3>1. \A p \in ToSet(f) : p.op # "Complete" BY <1>4 DEF AllEnter
    <3> QED BY <2>0, <3>1 DEF Here, Enterable
  <2> HIDE DEF R
  <2>5. Sound(active, m, next_key, R \cup ToSet(g), timers, join_instances)
    BY <1>6, <2>1, <2>4, EntersQueued
  <2>6. Q \cup ToSet(F) \in SUBSET (R \cup ToSet(g)) BY <2>2 DEF R
  <2>7. Sound(active, m, next_key, Q \cup ToSet(F), timers, join_instances)
    BY <2>5, <2>6, Fewer
  <2> DEFINE V == Q \cup ToSet(F)
  <2> HIDE DEF V
  <2>8. Sound(Without(active, K), m, next_key, V, timers, join_instances)
    BY <1>2, <2>7, LeavesAlone DEF K, V
  <2>9. Sound(active', multi_instances', next_key', V, timers', join_instances') BY <1>1, <1>8, <2>8
  <2> QED BY <1>1, <1>8, <2>2, <2>3, <2>9, Stepped DEF V
<1>9. ASSUME NEW e, NEW caught \in Catching(k),
             Then(<<Activate(e, ScopeOf(HostOf(caught)), NoFlow)>>),
             Discard(Inside(HostOf(caught)) \cup {HostOf(caught)}), timers' \in SUBSET timers
      PROVE  Inv'
  <2> DEFINE h == ScopeOf(HostOf(caught))
             g == <<Activate(e, h, NoFlow)>>
             L == Inside(HostOf(caught)) \cup {HostOf(caught)}
  <2>1. AllEnter(g, h) BY EnterOne
  <2>2. Here(h) /\ HostOf(caught) # 0 BY EscalationHost
  <2>3. \A c \in DOMAIN active : active[c].scope \in L => c \in L BY <2>2, InsideWithin DEF Within
  <2>4. /\ active' = Without(active, L) /\ multi_instances' = Without(m, L)
        /\ join_instances' = Without(join_instances, OpenOn(L))
    BY <1>9 DEF Discard, RecordsWithout
  <2> HIDE DEF g, L, h
  <2>5. Sound(active', multi_instances', next_key', Q \cup ToSet(g), timers', join_instances')
    BY <1>1, <1>9, <2>1, <2>2, <2>3, <2>4, EnterAndDiscard
  <2> QED BY <1>1, <1>9, <2>1, <2>5, Stepped DEF AllEnter, g, h
<1>10. \/ /\ active' = Without(active, K) /\ Then(f)
          /\ UNCHANGED <<join_instances, multi_instances, timers>>
       \/ \E caught \in Catching(k) : \E e :
             /\ Then(Append(f, Activate(e, ScopeOf(HostOf(caught)), NoFlow)))
             /\ active' = Without(active, K)
             /\ UNCHANGED <<join_instances, multi_instances, timers>>
       \/ \E caught \in Catching(k) : \E e :
             /\ Then(<<Activate(e, ScopeOf(HostOf(caught)), NoFlow)>>)
             /\ Discard(Inside(HostOf(caught)) \cup {HostOf(caught)}) /\ timers' \in SUBSET timers
  BY Zenon DEF RaiseEscalation, f, s, HostOf
<1> QED BY <1>7, <1>8, <1>9, <1>10

-----------------------------------------------------------------------------
(* The queue is empty, and commands. *)

LEMMA CompleteDrainedInv == ASSUME Inv, CompleteDrained PROVE Inv'
<1> DEFINE m == multi_instances
           leaves(k) == IF IsMiChild(k) THEN << >> ELSE TakenAll(active[k].el, ScopeOf(k))
           follows(k) == IF IsMiChild(k) THEN <<Complete(k)>> ELSE Activations(leaves(k))
           K == {k \in Drained : ~ IsMiChild(k)}
           P == UNION {ToSet(follows(k)) : k \in Drained}
<1>1. PICK order \in Ascending(Drained) : queue' = FlattenSeq([n \in DOMAIN order |-> follows(order[n])])
  BY DEF CompleteDrained
<1>2. /\ ~ idle' /\ queue = << >> /\ process' = process /\ process \in DOMAIN Definitions
      /\ active' = Without(active, K) /\ timers' \in SUBSET timers
      /\ UNCHANGED <<join_instances, multi_instances, next_key>>
  BY DEF CompleteDrained, Inv
<1>3. Sound(active, m, next_key, {}, timers, join_instances) BY <1>2, Nothing DEF Inv
<1>4. \A k \in Drained : k \in DOMAIN active /\ \A c \in DOMAIN active : active[c].scope # k
  BY ScopeIs DEF Drained
<1>5. ASSUME NEW k \in Drained
      PROVE  /\ follows(k) \in Seq(ToSet(follows(k)))
             /\ IsMiChild(k) => ToSet(follows(k)) = {Complete(k)}
             /\ ~ IsMiChild(k) => \A p \in ToSet(follows(k)) : p.op = "Activate" /\ p.scope = ScopeOf(k)
  <2>1. CASE IsMiChild(k)
    <3>1. follows(k) = <<Complete(k)>> BY <2>1
    <3> HIDE DEF follows
    <3> QED BY <2>1, <3>1, Single
  <2>2. CASE ~ IsMiChild(k)
    <3>1. follows(k) = Activations(TakenAll(active[k].el, ScopeOf(k))) BY <2>2
    <3> HIDE DEF follows
    <3>2. AllEnter(follows(k), ScopeOf(k)) BY <3>1, EntersAll
    <3> QED BY <2>2, <3>2 DEF AllEnter
  <2> QED BY <2>1, <2>2
<1> HIDE DEF follows
<1>6. ASSUME NEW p \in P
      PROVE  \E k \in Drained : \/ IsMiChild(k) /\ p.op = "Complete" /\ p.key = k
                                \/ ~ IsMiChild(k) /\ p.op = "Activate" /\ p.scope = ScopeOf(k)
  <2>1. PICK k \in Drained : p \in ToSet(follows(k)) OBVIOUS
  <2>2. Complete(k).op = "Complete" /\ Complete(k).key = k BY DEF Complete
  <2> QED BY <2>1, <2>2, <1>5
<1>7. queue' \in Seq(ToSet(queue')) /\ ToSet(queue') \in SUBSET P
  <2> DEFINE N == Cardinality(Drained)
             ss == [n \in 1 .. N |-> follows(order[n])]
  <2>1. N \in Nat
    <3>1. next_key - 1 \in Int /\ \A k \in Drained : k \in 1 .. next_key - 1
      BY <1>3, <1>4 DEF Sound, Tokens
    <3>2. IsFiniteSet(1 .. next_key - 1) /\ Drained \subseteq 1 .. next_key - 1 BY <3>1, FS_Interval
    <3> QED BY <3>2, FS_Subset, FS_CardinalityType
  <2>2. order \in [1 .. N -> Drained] BY DEF Ascending
  <2>3. ss \in Seq(Seq(P))
    <3>1. ASSUME NEW n \in 1 .. N PROVE follows(order[n]) \in Seq(P)
      <4>1. order[n] \in Drained BY <2>2
      <4> DEFINE F == follows(order[n])
      <4>2. F \in Seq(ToSet(F)) /\ ToSet(F) \subseteq P BY <4>1, <1>5
      <4> HIDE DEF F, P
      <4>3. Len(F) \in Nat /\ F = [i \in 1 .. Len(F) |-> F[i]] /\ \A i \in 1 .. Len(F) : F[i] \in P
        BY <4>2
      <4> QED BY <4>3 DEF F
    <3> HIDE DEF N, P
    <3> QED BY <2>1, <3>1
  <2>4. queue' = FlattenSeq(ss)
    <3>1. DOMAIN order = 1 .. N BY <2>2
    <3> QED BY <1>1, <3>1
  <2> HIDE DEF ss, P
  <2>5. queue' \in Seq(P) BY <2>3, <2>4, Flattens
  <2> QED BY <2>5, OwnSet
<1> HIDE DEF P
<1>8. ASSUME NEW k \in DOMAIN active, NEW q \in P, q.op = "Complete"
      PROVE  q.key # ScopeOf(k)
  <2>1. PICK d \in Drained : IsMiChild(d) /\ q.key = d BY <1>6, <1>8
  <2> QED BY <2>1, <1>4, ScopeIs
<1>9. Queueable(active, m, next_key, {}, P)
  <2>1. ASSUME NEW p \in P, p.op = "Activate" PROVE Enterable(active, m, next_key, {} \cup P, p.scope)
    <3>1. PICK k \in Drained : ~ IsMiChild(k) /\ p.scope = ScopeOf(k) BY <1>6, <2>1
    <3>2. Here(p.scope) BY <3>1, <1>4, NoChild, HostScope
    <3> QED BY <3>1, <3>2, <1>4, <1>8 DEF Here, Enterable
  <2>2. ASSUME NEW p \in P, p.op = "Complete" PROVE Leaving(active, m, next_key, {} \cup P, p.key)
    <3>1. PICK k \in Drained : IsMiChild(k) /\ p.key = k BY <1>6, <2>2
    <3>2. k \in 1 .. next_key - 1 BY <3>1, <1>3, <1>4 DEF Sound, Tokens
    <3>3. k \notin DOMAIN m
      <4>1. active[k].scope \in DOMAIN m BY <3>1, <1>4, ScopeIs DEF IsMiChild, IsMiBody
      <4> QED BY <4>1, <3>1, <1>3, <1>4 DEF Sound, Children
    <3>4. ASSUME NEW q \in P, q.op = "Activate" PROVE q.scope # k
      <4>1. PICK d \in Drained : q.scope = ScopeOf(d) BY <1>6, <3>4
      <4> QED BY <4>1, <1>4, ScopeIs
    <3> QED BY <3>1, <3>2, <3>3, <3>4, <1>4 DEF Leaving
  <2>3. ASSUME NEW p \in P PROVE p.op \notin {"ActivateMiChild", "CompleteMiBody"} BY <1>6
  <2> QED BY <2>1, <2>2, <2>3 DEF Queueable
<1>10. Sound(active, m, next_key, P, timers, join_instances)
  <2>1. {} \cup P = P OBVIOUS
  <2>2. Sound(active, m, next_key, {} \cup P, timers, join_instances) BY <1>3, <1>9, Queued
  <2> QED BY <2>1, <2>2
<1>11. Sound(Without(active, K), m, next_key, P, timers, join_instances)
  <2>1. \A q \in P : q.op \notin {"ActivateMiChild", "CompleteMiBody"} BY <1>6
  <2>2. \A c \in DOMAIN active : active[c].scope \in K => c \in K BY <1>4
  <2> HIDE DEF K
  <2> QED BY <1>10, <2>1, <2>2, Leave
<1> HIDE DEF K
<1>12. Sound(Without(active, K), m, next_key, ToSet(queue'), timers', join_instances)
  BY <1>2, <1>7, <1>11, Fewer
<1>13. Sound(active', multi_instances', next_key', ToSet(queue'), timers', join_instances')
  BY <1>2, <1>12
<1> QED BY <1>2, <1>7, <1>13, Carried

LEMMA QuiesceInv == ASSUME Inv, Quiesce PROVE Inv'
<1>1. /\ process' = process /\ queue' = queue /\ queue = << >>
      /\ UNCHANGED <<active, multi_instances, next_key, timers, join_instances>>
  BY DEF Quiesce, joins
<1>2. Sound(active', multi_instances', next_key', ToSet(queue'), timers', join_instances')
  BY <1>1 DEF Inv
<1>3. queue' \in Seq(ToSet(queue')) BY <1>1 DEF Inv
<1> QED BY <1>1, <1>2, <1>3, Carried DEF Inv

LEMMA PlanSound ==
    ASSUME Inv, Plan
    PROVE  /\ process' = process /\ process \in DOMAIN Definitions /\ ~ idle'
           /\ Sound(active', multi_instances', next_key', {}, timers', join_instances')
           /\ UNCHANGED <<active, multi_instances, next_key, timers, join_instances>>
<1>1. ToSet(queue) = {} BY Nothing DEF Inv, Plan
<1> QED BY <1>1 DEF Inv, Plan, joins

LEMMA CompleteJobInv == ASSUME Inv, CompleteJob PROVE Inv'
<1>1. PICK k \in DOMAIN active : /\ Kind(active[k].el) = "task" /\ ~ IsMiBody(k)
                                 /\ Plan /\ queue' = <<Complete(k)>>
  BY DEF CompleteJob
<1> DEFINE p == Complete(k)
<1>2. p.op = "Complete" /\ p.key = k BY DEF Complete
<1>3. k \in 1 .. next_key - 1 /\ k \notin DOMAIN multi_instances /\ ~ IsSub(active, k)
  BY <1>1 DEF Inv, Sound, Tokens, IsMiBody, IsSub
<1> HIDE DEF p
<1>4. Queueable(active, multi_instances, next_key, {}, {p})
  BY <1>1, <1>2, <1>3 DEF Queueable, Leaving
<1>5. Sound(active', multi_instances', next_key', {} \cup ToSet(<<p>>), timers', join_instances')
  BY <1>1, <1>4, PlanSound, Followed
<1>6. queue' = <<p>> /\ {} \cup ToSet(<<p>>) = ToSet(queue') BY <1>1 DEF p
<1> QED BY <1>1, <1>5, <1>6, PlanSound, Single, Carried

LEMMA TriggerTimersInv == ASSUME Inv, TriggerTimers PROVE Inv'
<1>1. Plan /\ queue' = << >> BY DEF TriggerTimers
<1>2. queue' \in Seq(ToSet(queue')) /\ ToSet(queue') = {} BY <1>1, Nothing
<1> QED BY <1>1, <1>2, PlanSound, Carried

LEMMA Appended ==
    ASSUME Inv, NEW t, NextDue(t), idle' = idle, process' = process, NEW p, queue' = Append(queue, p),
           Sound(active', multi_instances', next_key', ToSet(queue) \cup ToSet(<<p>>), timers', join_instances')
    PROVE  Inv'
<1> DEFINE g == <<p>>
<1>1. /\ queue \in Seq(ToSet(queue)) /\ ~ idle' /\ process \in DOMAIN Definitions
      /\ g \in Seq(ToSet(g))
  BY Single DEF Inv, NextDue
<1>2. queue' = queue \o g BY <1>1
<1> HIDE DEF g
<1>3. queue' \in Seq(ToSet(queue')) /\ ToSet(queue') \in SUBSET (ToSet(queue) \cup ToSet(g))
  BY <1>1, <1>2, Joined
<1>4. Sound(active', multi_instances', next_key', ToSet(queue'), timers', join_instances')
  BY <1>3, Fewer DEF g
<1> QED BY <1>1, <1>3, <1>4, Carried

LEMMA FireTimerInv == ASSUME Inv, FireTimer PROVE Inv'
<1> DEFINE a == active
           m == multi_instances
           n == next_key
           Q == ToSet(queue)
           J == join_instances
<1>0. PICK t \in due : SkipTimer(t) \/ ResumeCatch(t) \/ SpawnAtBoundary(t) \/ InterruptAtBoundary(t)
  BY DEF FireTimer
<1>1. Sound(a, m, n, Q, timers, J) BY DEF Inv
<1>2. t \in timers =>
        /\ t.host \in 1 .. n - 1 /\ t.host # 0 /\ Here(ScopeOf(t.host))
        /\ Kind(t.event) = "catch" => t.host \notin DOMAIN m /\ (t.host \in DOMAIN a => ~ IsSub(a, t.host))
  <2>1. n \in Nat BY <1>1 DEF Sound, Tokens
  <2> QED BY <1>1, <2>1, HostScope DEF Sound, Timed
<1>3. CASE SkipTimer(t)
  <2>1. /\ process' = process /\ queue' = queue /\ idle' = idle
        /\ UNCHANGED <<active, multi_instances, next_key, timers, join_instances>>
    BY <1>3 DEF SkipTimer, joins
  <2>2. Sound(active', multi_instances', next_key', ToSet(queue'), timers', join_instances')
    BY <1>1, <2>1
  <2> QED BY <2>1, <2>2, Carried DEF Inv
<1>4. CASE ResumeCatch(t)
  <2> DEFINE p == Complete(t.host)
  <2>1. /\ NextDue(t) /\ t \in timers /\ Kind(t.event) = "catch" /\ timers' \in SUBSET timers
        /\ queue' = Append(queue, p) /\ process' = process /\ idle' = idle
        /\ UNCHANGED <<active, multi_instances, next_key, join_instances>>
    BY <1>4 DEF ResumeCatch, joins
  <2>2. p.op = "Complete" /\ p.key = t.host BY DEF Complete
  <2> HIDE DEF p
  <2>3. Queueable(a, m, n, Q, {p}) BY <1>2, <2>1, <2>2 DEF Queueable, Leaving
  <2>4. Sound(a, m, n, Q \cup ToSet(<<p>>), timers, J) BY <1>1, <2>3, Followed
  <2>5. Sound(a, m, n, Q \cup ToSet(<<p>>), timers', J) BY <2>1, <2>4, Fewer
  <2>6. Sound(active', multi_instances', next_key', Q \cup ToSet(<<p>>), timers', join_instances')
    BY <2>1, <2>5
  <2> QED BY <2>1, <2>6, Appended
<1>5. CASE SpawnAtBoundary(t)
  <2> DEFINE s == ScopeOf(t.host)
             p == Activate(t.event, s, NoFlow)
             g == <<p>>
  <2>1. /\ NextDue(t) /\ t \in timers /\ timers' \in SUBSET timers
        /\ queue' = Append(queue, p) /\ process' = process /\ idle' = idle
        /\ UNCHANGED <<active, multi_instances, next_key, join_instances>>
    BY <1>5 DEF SpawnAtBoundary, joins
  <2>2. AllEnter(g, s) /\ Here(s) BY <1>2, <2>1, EnterOne
  <2> HIDE DEF p, s
  <2>3. Sound(a, m, n, Q \cup ToSet(<<p>>), timers, J) BY <1>1, <2>2, EntersQueued DEF Here
  <2>4. Sound(a, m, n, Q \cup ToSet(<<p>>), timers', J) BY <2>1, <2>3, Fewer
  <2>5. Sound(active', multi_instances', next_key', Q \cup ToSet(<<p>>), timers', join_instances')
    BY <2>1, <2>4
  <2> QED BY <2>1, <2>5, Appended
<1>6. CASE InterruptAtBoundary(t)
  <2> DEFINE h == t.host
             s == ScopeOf(h)
             K == Inside(h) \cup {h}
             p == Activate(t.event, s, NoFlow)
             g == <<p>>
  <2>1. /\ NextDue(t) /\ t \in timers /\ timers' \in SUBSET timers /\ Discard(K)
        /\ queue' = Append(queue, p) /\ process' = process /\ idle' = idle /\ next_key' = next_key
    BY <1>6 DEF InterruptAtBoundary
  <2>2. AllEnter(g, s) /\ Here(s) BY <1>2, <2>1, EnterOne
  <2>3. \A c \in DOMAIN active : active[c].scope \in K => c \in K
    BY <1>2, <2>1, InsideWithin DEF Within
  <2>4. /\ active' = Without(active, K) /\ multi_instances' = Without(m, K)
        /\ join_instances' = Without(join_instances, OpenOn(K))
    BY <2>1 DEF Discard, RecordsWithout
  <2> HIDE DEF p, s, K
  <2>5. Sound(active', multi_instances', next_key', Q \cup ToSet(<<p>>), timers', join_instances')
    BY <2>1, <2>2, <2>3, <2>4, EnterAndDiscard
  <2> QED BY <2>1, <2>5, Appended
<1> QED BY <1>0, <1>3, <1>4, <1>5, <1>6

-----------------------------------------------------------------------------
(* The theorem. *)

LEMMA InitInv == Init => Inv
<1> SUFFICES ASSUME Init PROVE Inv OBVIOUS
<1> DEFINE p == Activate("start", 0, NoFlow)
<1>1. p.op = "Activate" /\ p.scope = 0 BY DEF Activate
<1>2. /\ process \in DOMAIN Definitions /\ queue = <<p>> /\ ~ idle /\ next_key = 1
      /\ active = << >> /\ multi_instances = << >> /\ timers = {} /\ join_instances = << >>
  BY DEF Init
<1> HIDE DEF p
<1>3. queue \in Seq(ToSet(queue)) /\ ToSet(queue) = {p} BY <1>2, Single
<1>4. DOMAIN active = {} /\ DOMAIN multi_instances = {} /\ DOMAIN join_instances = {} BY <1>2
<1>5. Tokens(active, multi_instances, next_key) BY <1>2, <1>4 DEF Tokens
<1>6. Children(active, multi_instances) BY <1>4 DEF Children
<1>7. Steps(active, multi_instances, next_key, {p}) BY <1>1 DEF Steps, Entering
<1>8. Timed(active, multi_instances, next_key, timers) BY <1>2 DEF Timed
<1>9. Gates(active, multi_instances, next_key, join_instances) BY <1>4 DEF Gates
<1> QED BY <1>2, <1>3, <1>5, <1>6, <1>7, <1>8, <1>9 DEF Inv, Sound

LEMMA NextInv == Inv /\ [Next]_vars => Inv'
<1> SUFFICES ASSUME Inv, [Next]_vars PROVE Inv' OBVIOUS
<1>1. ASSUME NEW step, \/ DropStep(step)
                       \/ ActivateElement(step) \/ ActivateBody(step) \/ ActivateChild(step)
                       \/ WaitAtJoin(step) \/ FireJoin(step)
                       \/ CompleteElement(step) \/ RaiseEscalation(step)
                       \/ TerminateScope(step) \/ TerminateInstance(step)
                       \/ \E satisfied \in BOOLEAN : CompleteChild(step, satisfied)
                       \/ CompleteBody(step)
      PROVE  Inv'
  BY <1>1, DropStepInv, ActivateElementInv, ActivateBodyInv, ActivateChildInv, WaitAtJoinInv, FireJoinInv,
     CompleteElementInv, RaiseEscalationInv, TerminateScopeInv, TerminateInstanceInv, CompleteChildInv,
     CompleteBodyInv
<1>2. CASE Drain BY <1>1, <1>2 DEF Drain
<1>3. CASE UNCHANGED vars
  <2>1. /\ process' = process /\ queue' = queue /\ idle' = idle
        /\ UNCHANGED <<active, multi_instances, next_key, timers, join_instances>>
    BY <1>3 DEF vars, joins
  <2>2. Sound(active', multi_instances', next_key', ToSet(queue'), timers', join_instances')
    BY <2>1 DEF Inv
  <2> QED BY <2>1, <2>2, Carried DEF Inv
<1> QED BY <1>2, <1>3, CompleteDrainedInv, QuiesceInv, CompleteJobInv, TriggerTimersInv, FireTimerInv DEF Next

\* For every set of definitions, block-structured or not, with or without multi-instance
\* bodies, boundary timers, escalations and terminate ends: an active element instance is at
\* the root or in the scope of an active sub-process or multi-instance body
\* (step_targets_dead_scope, scope_descendants, complete_drained_subprocesses).
THEOREM ScopesOutlive == Spec => []ScopeAlive
<1>1. Inv => ScopeAlive BY ScopeIs DEF Inv, Sound, Tokens, ScopeAlive, IsMiBody, IsSub
<1> QED BY <1>1, InitInv, NextInv, PTL DEF Spec
==============================================================================
