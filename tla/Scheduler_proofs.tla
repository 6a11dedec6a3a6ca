-------------------------- MODULE Scheduler_proofs --------------------------
(****************************************************************************)
(* Proofs about the scheduler.  Every handler ends in Keep, SwitchTo,       *)
(* Reschedule, Finish, Block or Preempt, so the proofs are about those once *)
(* and about what each handler hands to them.  The lemmas on sequences, on  *)
(* sums over sets and on releases serve the proofs about the objects too.   *)
(****************************************************************************)
EXTENDS Scheduler, SequenceTheorems, FiniteSetTheorems, WellFoundedInduction, TLAPS

-----------------------------------------------------------------------------
(* Sequences: what the run queue and the wait queues contain, and that they *)
(* contain nothing twice.                                                   *)

(* Induction over the natural numbers, as a fact about sets. *)
LEMMA NatSetInduction ==
  ASSUME NEW S, 0 \in S, \A n \in Nat : n \in S => n + 1 \in S
  PROVE  Nat \subseteq S
  <1> DEFINE T == Nat \ S
  <1> SUFFICES ASSUME T # {} PROVE FALSE
    OBVIOUS
  <1>1. IsWellFoundedOn(OpToRel(<, Nat), Nat)
    BY NatLessThanWellFounded
  <1>2. PICK n \in T : \A m \in T : ~(<<m, n>> \in OpToRel(<, Nat))
    <2> HIDE DEF T
    <2>1. T \subseteq Nat
      BY DEF T
    <2> QED BY <1>1, <2>1, WFMin
  <1>3. \A m \in T : ~(m < n)
    BY <1>2 DEF OpToRel
  <1>4. n # 0 /\ n \in Nat
    OBVIOUS
  <1>5. n - 1 \in Nat /\ n - 1 < n /\ (n - 1) + 1 = n
    BY <1>4
  <1>6. n - 1 \in S
    BY <1>3, <1>5
  <1> QED BY <1>5, <1>6

(* The elements of a sequence. *)
LEMMA ToSetFacts ==
  ASSUME NEW X, NEW s \in Seq(X)
  PROVE  /\ ToSet(s) \subseteq X
         /\ \A x : x \in ToSet(s) <=> \E i \in 1..Len(s) : s[i] = x
  BY DEF ToSet

(* Joining two sequences without common elements. *)
LEMMA ConcatFacts ==
  ASSUME NEW X, NEW s \in Seq(X), NEW t \in Seq(X)
  PROVE  /\ s \o t \in Seq(X)
         /\ ToSet(s \o t) = ToSet(s) \cup ToSet(t)
         /\ IsInjective(s) /\ IsInjective(t) /\ ToSet(s) \cap ToSet(t) = {}
              => IsInjective(s \o t)
  <1> DEFINE u == s \o t
  <1>1. /\ u \in Seq(X) /\ Len(u) = Len(s) + Len(t)
        /\ \A i \in 1..Len(s) : u[i] = s[i]
        /\ \A i \in 1..Len(t) : u[Len(s) + i] = t[i]
        /\ \A i \in 1..Len(u) : i <= Len(s) => u[i] = s[i]
        /\ \A i \in 1..Len(u) : ~(i <= Len(s)) =>
              i - Len(s) \in 1..Len(t) /\ u[i] = t[i - Len(s)]
    OBVIOUS
  <1>2. DOMAIN u = 1..Len(u) /\ DOMAIN s = 1..Len(s) /\ DOMAIN t = 1..Len(t)
    OBVIOUS
  <1>2a. Len(s) \in Nat /\ Len(t) \in Nat
    OBVIOUS
  <1> HIDE DEF u
  <1>3. ToSet(u) = ToSet(s) \cup ToSet(t)
    <2>1. ASSUME NEW x, x \in ToSet(u) PROVE x \in ToSet(s) \cup ToSet(t)
      <3>1. PICK i \in 1..Len(u) : u[i] = x
        BY <2>1, <1>2 DEF ToSet
      <3>2. CASE i <= Len(s)
        BY <3>1, <3>2, <1>1, <1>2, <1>2a DEF ToSet
      <3>3. CASE ~(i <= Len(s))
        BY <3>1, <3>3, <1>1, <1>2 DEF ToSet
      <3> QED BY <3>2, <3>3
    <2>2. ASSUME NEW i \in 1..Len(s) PROVE s[i] \in ToSet(u)
      BY <1>1, <1>2, <1>2a DEF ToSet
    <2>3. ASSUME NEW i \in 1..Len(t) PROVE t[i] \in ToSet(u)
      <3>1. Len(s) + i \in 1..Len(u)
        BY <1>1, <1>2a
      <3> QED BY <3>1, <1>1, <1>2 DEF ToSet
    <2> QED BY <2>1, <2>2, <2>3, <1>2 DEF ToSet
  <1>4. ASSUME IsInjective(s), IsInjective(t), ToSet(s) \cap ToSet(t) = {},
               NEW i \in 1..Len(u), NEW j \in 1..Len(u), u[i] = u[j]
        PROVE  i = j
    <2>1. CASE i <= Len(s) /\ j <= Len(s)
      BY <1>4, <2>1, <1>1, <1>2, <1>2a DEF IsInjective
    <2>2. CASE ~(i <= Len(s)) /\ ~(j <= Len(s))
      <3>1. /\ i - Len(s) \in DOMAIN t /\ j - Len(s) \in DOMAIN t
            /\ t[i - Len(s)] = t[j - Len(s)]
        BY <1>4, <2>2, <1>1, <1>2
      <3>2. i - Len(s) = j - Len(s)
        BY <3>1, <1>4 DEF IsInjective
      <3> QED BY <3>2, <1>1, <1>2a
    <2>3. ASSUME NEW k \in 1..Len(u), NEW l \in 1..Len(u),
                 k <= Len(s), ~(l <= Len(s))
          PROVE  u[k] # u[l]
      <3>1. k \in DOMAIN s /\ u[k] = s[k]
        BY <2>3, <1>1, <1>2, <1>2a
      <3>2. l - Len(s) \in DOMAIN t /\ u[l] = t[l - Len(s)]
        BY <2>3, <1>1, <1>2
      <3>3. u[k] \in ToSet(s)
        BY <3>1 DEF ToSet
      <3>4. u[l] \in ToSet(t)
        BY <3>2 DEF ToSet
      <3> QED BY <3>3, <3>4, <1>4
    <2> QED BY <2>1, <2>2, <2>3, <1>4
  <1> QED BY <1>1, <1>2, <1>3, <1>4 DEF u, IsInjective

(* Adding an element at the end. *)
LEMMA AppendFacts ==
  ASSUME NEW X, NEW s \in Seq(X), NEW e \in X
  PROVE  /\ Append(s, e) \in Seq(X)
         /\ ToSet(Append(s, e)) = ToSet(s) \cup {e}
         /\ IsInjective(s) /\ e \notin ToSet(s) => IsInjective(Append(s, e))
  <1>1. /\ Append(s, e) = s \o <<e>> /\ <<e>> \in Seq(X)
        /\ ToSet(<<e>>) = {e} /\ IsInjective(<<e>>)
    BY DEF ToSet, IsInjective
  <1>2. e \notin ToSet(s) => ToSet(s) \cap {e} = {}
    OBVIOUS
  <1> DEFINE t == <<e>>
  <1> HIDE DEF t
  <1>3. /\ s \o t \in Seq(X)
        /\ ToSet(s \o t) = ToSet(s) \cup ToSet(t)
        /\ IsInjective(s) /\ IsInjective(t) /\ ToSet(s) \cap ToSet(t) = {}
              => IsInjective(s \o t)
    BY <1>1, ConcatFacts DEF t
  <1> QED BY <1>1, <1>2, <1>3 DEF t

(* Taking out the element at a position. *)
LEMMA RemoveAtFacts ==
  ASSUME NEW X, NEW s \in Seq(X), NEW i \in 1..Len(s), IsInjective(s)
  PROVE  /\ RemoveAt(s, i) \in Seq(X)
         /\ ToSet(RemoveAt(s, i)) = ToSet(s) \ {s[i]}
         /\ IsInjective(RemoveAt(s, i))
  <1> DEFINE a == SubSeq(s, 1, i - 1)
             b == SubSeq(s, i + 1, Len(s))
  <1>0. i \in Nat /\ Len(s) \in Nat /\ 1 <= i /\ i <= Len(s) /\ DOMAIN s = 1..Len(s)
    OBVIOUS
  <1>1. /\ a \in Seq(X) /\ Len(a) = i - 1 /\ DOMAIN a = 1..i - 1
        /\ \A k \in 1..i - 1 : a[k] = s[k]
    BY <1>0
  <1>2. /\ b \in Seq(X) /\ Len(b) = Len(s) - i /\ DOMAIN b = 1..Len(s) - i
        /\ \A k \in 1..Len(s) - i : b[k] = s[i + k]
    <2>1. b \in Seq(X)
      BY <1>0
    <2>2. Len(b) = Len(s) - i
      <3>1. \A k \in i + 1..Len(s) : s[k] \in X
        BY <1>0
      <3>2. Len(b) = IF i + 1 <= Len(s) THEN Len(s) - (i + 1) + 1 ELSE 0
        BY <3>1, <1>0, SubSeqProperties
      <3>3. ASSUME NEW n \in Nat, NEW m \in Nat, m <= n
            PROVE  (IF m + 1 <= n THEN n - (m + 1) + 1 ELSE 0) = n - m
        BY <3>3
      <3> QED BY <3>2, <3>3, <1>0, Zenon
    <2>3. \A k \in 1..Len(s) - i : b[k] = s[i + k]
      <3> SUFFICES ASSUME NEW k \in 1..Len(s) - i PROVE b[k] = s[i + k]
        OBVIOUS
      <3>1. b[k] = s[(i + 1) + k - 1]
        BY <1>0
      <3>2. (i + 1) + k - 1 = i + k
        BY <1>0
      <3> QED BY <3>1, <3>2
    <2>4. DOMAIN b = 1..Len(b)
      BY <2>1
    <2> QED BY <2>1, <2>2, <2>3, <2>4
  <1> HIDE DEF a, b
  <1>3. IsInjective(a)
    BY <1>0, <1>1 DEF IsInjective
  <1>4. IsInjective(b)
    <2> SUFFICES ASSUME NEW k \in 1..Len(s) - i, NEW l \in 1..Len(s) - i, b[k] = b[l]
                 PROVE  k = l
      BY <1>2 DEF IsInjective
    <2>1. i + k \in DOMAIN s /\ i + l \in DOMAIN s /\ s[i + k] = s[i + l]
      BY <1>0, <1>2
    <2>2. i + k = i + l
      BY <2>1 DEF IsInjective
    <2> QED BY <2>2, <1>0
  <1>5. ToSet(a) \cap ToSet(b) = {}
    <2> SUFFICES ASSUME NEW k \in 1..i - 1, NEW l \in 1..Len(s) - i, a[k] = b[l]
                 PROVE  FALSE
      BY <1>1, <1>2 DEF ToSet
    <2>1. k \in DOMAIN s /\ i + l \in DOMAIN s /\ s[k] = s[i + l]
      BY <1>0, <1>1, <1>2
    <2>2. k = i + l
      BY <2>1 DEF IsInjective
    <2> QED BY <2>2, <1>0
  <1>6. ToSet(a) \cup ToSet(b) = ToSet(s) \ {s[i]}
    <2>1. ASSUME NEW k \in 1..i - 1 PROVE a[k] \in ToSet(s) \ {s[i]}
      BY <1>0, <1>1 DEF ToSet, IsInjective
    <2>2. ASSUME NEW k \in 1..Len(s) - i PROVE b[k] \in ToSet(s) \ {s[i]}
      <3>1. i + k \in DOMAIN s /\ i + k # i /\ b[k] = s[i + k]
        BY <1>0, <1>2
      <3> QED BY <3>1, <1>0 DEF ToSet, IsInjective
    <2>3. ASSUME NEW k \in 1..Len(s), s[k] # s[i] PROVE s[k] \in ToSet(a) \cup ToSet(b)
      <3>1. CASE k < i
        <4>1. k \in 1..i - 1
          BY <3>1, <1>0
        <4> QED BY <4>1, <1>1 DEF ToSet
      <3>2. CASE k > i
        <4>1. k - i \in 1..Len(s) - i /\ i + (k - i) = k
          BY <3>2, <1>0
        <4> QED BY <4>1, <1>2 DEF ToSet
      <3>3. k # i
        BY <2>3
      <3> QED BY <3>1, <3>2, <3>3, <1>0
    <2>4. ToSet(a) = {a[k] : k \in 1..i - 1}
      BY <1>1 DEF ToSet
    <2>5. ToSet(b) = {b[k] : k \in 1..Len(s) - i}
      BY <1>2 DEF ToSet
    <2>6. ToSet(s) = {s[k] : k \in 1..Len(s)}
      BY <1>0 DEF ToSet
    <2> QED BY <2>1, <2>2, <2>3, <2>4, <2>5, <2>6, Zenon
  <1>7. a \o b \in Seq(X) /\ ToSet(a \o b) = ToSet(s) \ {s[i]} /\ IsInjective(a \o b)
    BY <1>1, <1>2, <1>3, <1>4, <1>5, <1>6, ConcatFacts
  <1>8. RemoveAt(s, i) = a \o b
    BY DEF RemoveAt, a, b
  <1> QED BY <1>7, <1>8

(* The sequences of SetToSeqs name every element once. *)
LEMMA SetToSeqsFacts ==
  ASSUME NEW S, IsFiniteSet(S), NEW f \in SetToSeqs(S)
  PROVE  f \in Seq(S) /\ ToSet(f) = S /\ IsInjective(f)
  <1> DEFINE D == 1..Cardinality(S)
  <1>1. Cardinality(S) \in Nat
    BY FS_CardinalityType
  <1>2. f \in [D -> S] /\ \A i, j \in D : i # j => f[i] # f[j]
    BY DEF SetToSeqs
  <1>3. f \in Injection(D, S)
    BY <1>2 DEF Injection, IsInjective
  <1>4. IsFiniteSet(D) /\ Cardinality(D) = Cardinality(S)
    <2>1. IsFiniteSet(D) /\ Cardinality(D) =
            IF 1 > Cardinality(S) THEN 0 ELSE Cardinality(S) - 1 + 1
      BY <1>1, FS_Interval
    <2> QED BY <2>1, <1>1
  <1>5. f \in Surjection(D, S)
    BY <1>3, <1>4, FS_Injection
  <1>6. f \in Seq(S)
    BY <1>1, <1>2
  <1>7. ToSet(f) = S
    BY <1>2, <1>5 DEF ToSet, Surjection
  <1> QED BY <1>3, <1>6, <1>7 DEF Injection
(* f is what the steps G make of c, one for each position of a sequence. *)
Recurs(f, c, G, n) == f[0] = c /\ \A i \in 1..n : f[i] = G[i][f[i - 1]]

(* A recursion along the positions of a sequence has a solution. *)
LEMMA RecursionSolved ==
  ASSUME NEW X, NEW c \in X, NEW n \in Nat, NEW G \in [1..n -> [X -> X]]
  PROVE  \E f \in [0..n -> X] : Recurs(f, c, G, n)
  <1> DEFINE Good == {m \in Nat : m <= n => \E f \in [0..m -> X] : Recurs(f, c, G, m)}
  <1>1. 0 \in Good
    <2> DEFINE f == [i \in 0..0 |-> c]
    <2>1. f \in [0..0 -> X] /\ Recurs(f, c, G, 0)
      BY DEF Recurs
    <2> HIDE DEF f
    <2> QED BY <2>1
  <1>2. ASSUME NEW m \in Nat, m \in Good PROVE m + 1 \in Good
    <2> SUFFICES ASSUME m + 1 <= n
                 PROVE  \E f \in [0..m + 1 -> X] : Recurs(f, c, G, m + 1)
      OBVIOUS
    <2>1. PICK f \in [0..m -> X] : Recurs(f, c, G, m)
      BY <1>2
    <2> DEFINE g == [i \in 0..m + 1 |-> IF i = m + 1 THEN G[m + 1][f[m]] ELSE f[i]]
    <2>2. G[m + 1][f[m]] \in X
      OBVIOUS
    <2>3. g \in [0..m + 1 -> X]
      BY <2>2
    <2>4. \A i \in 0..m : g[i] = f[i]
      OBVIOUS
    <2>5. g[m + 1] = G[m + 1][f[m]]
      OBVIOUS
    <2> HIDE DEF g
    <2>6. ASSUME NEW i \in 1..m + 1 PROVE g[i] = G[i][g[i - 1]]
      <3>1. CASE i = m + 1
        <4>1. i - 1 = m /\ m \in 0..m
          BY <3>1
        <4> QED BY <2>4, <2>5, <3>1, <4>1
      <3>2. CASE i # m + 1
        <4>1. i \in 1..m /\ i \in 0..m /\ i - 1 \in 0..m
          BY <3>2
        <4> QED BY <2>1, <2>4, <4>1 DEF Recurs
      <3> QED BY <3>1, <3>2
    <2>7. g[0] = c
      BY <2>1, <2>4 DEF Recurs
    <2> QED BY <2>3, <2>6, <2>7 DEF Recurs
  <1> HIDE DEF Good
  <1>3. n \in Good
    BY <1>1, <1>2, NatSetInduction
  <1> QED BY <1>3 DEF Good

(* The first k elements of a sequence, and the others. *)
LEMMA SubSeqFacts ==
  ASSUME NEW X, NEW q \in Seq(X), NEW k \in 0..Len(q)
  PROVE  /\ SubSeq(q, 1, k) \in Seq(X) /\ SubSeq(q, k + 1, Len(q)) \in Seq(X)
         /\ Len(SubSeq(q, 1, k)) = k
         /\ \A i \in 1..k : SubSeq(q, 1, k)[i] = q[i]
         /\ ToSet(SubSeq(q, 1, k)) = {q[i] : i \in 1..k}
         /\ IsInjective(q) =>
              /\ IsInjective(SubSeq(q, 1, k))
              /\ IsInjective(SubSeq(q, k + 1, Len(q)))
              /\ ToSet(SubSeq(q, k + 1, Len(q))) = ToSet(q) \ {q[i] : i \in 1..k}
  <1> DEFINE n == Len(q)
             a == SubSeq(q, 1, k)
             b == SubSeq(q, k + 1, n)
  <1>1. n \in Nat /\ k \in Nat /\ k <= n /\ \A i \in 1..n : q[i] \in X
    OBVIOUS
  <1>2. /\ a \in Seq(X) /\ Len(a) = k /\ \A i \in 1..k : a[i] = q[i]
    <2>1. /\ a \in Seq(X) /\ Len(a) = (IF 1 <= k THEN k - 1 + 1 ELSE 0)
          /\ \A i \in 1..k - 1 + 1 : a[i] = q[1 + i - 1]
      BY <1>1, SubSeqProperties
    <2> HIDE DEF a, n
    <2> QED BY <1>1, <2>1
  <1>3. /\ b \in Seq(X) /\ Len(b) = n - k
        /\ \A i \in 1..n - k : b[i] = q[k + i]
    <2>1. /\ b \in Seq(X) /\ Len(b) = (IF k + 1 <= n THEN n - (k + 1) + 1 ELSE 0)
          /\ \A i \in 1..n - (k + 1) + 1 : b[i] = q[k + 1 + i - 1]
      BY <1>1, SubSeqProperties
    <2> HIDE DEF b, n
    <2>2. Len(b) = n - k
      BY <1>1, <2>1
    <2>3. ASSUME NEW i \in 1..n - k PROVE b[i] = q[k + i]
      <3>1. i \in 1..n - (k + 1) + 1 /\ k + 1 + i - 1 = k + i
        BY <1>1
      <3> QED BY <2>1, <3>1
    <2> QED BY <2>1, <2>2, <2>3
  <1> HIDE DEF a, b, n
  <1>4. ToSet(a) = {q[i] : i \in 1..k}
    BY <1>1, <1>2 DEF ToSet
  <1>5. ToSet(q) = {q[i] : i \in 1..n}
    BY DEF ToSet, n
  <1>6. ASSUME IsInjective(q)
        PROVE  /\ IsInjective(a) /\ IsInjective(b)
               /\ ToSet(b) = ToSet(q) \ {q[i] : i \in 1..k}
    <2>1. \A i, j \in 1..n : q[i] = q[j] => i = j
      BY <1>6 DEF IsInjective, n
    <2>2. IsInjective(a)
      <3>1. \A i, j \in 1..k : a[i] = a[j] => i = j
        BY <1>1, <1>2, <2>1
      <3> QED BY <1>2, <3>1 DEF IsInjective
    <2>3. IsInjective(b)
      <3> SUFFICES ASSUME NEW i \in 1..n - k, NEW j \in 1..n - k, b[i] = b[j] PROVE i = j
        BY <1>3 DEF IsInjective
      <3>1. k + i \in 1..n /\ k + j \in 1..n /\ q[k + i] = q[k + j]
        BY <1>1, <1>3
      <3>2. k + i = k + j
        BY <2>1, <3>1
      <3> QED BY <1>1, <3>2
    <2>4. ToSet(b) \subseteq ToSet(q) \ {q[i] : i \in 1..k}
      <3> SUFFICES ASSUME NEW i \in 1..n - k
                   PROVE  b[i] \in ToSet(q) /\ \A j \in 1..k : b[i] # q[j]
        BY <1>3 DEF ToSet
      <3>1. k + i \in 1..n /\ b[i] = q[k + i] /\ \A j \in 1..k : k + i # j /\ j \in 1..n
        BY <1>1, <1>3
      <3> QED BY <1>5, <2>1, <3>1
    <2>5. ToSet(q) \ {q[i] : i \in 1..k} \subseteq ToSet(b)
      <3> SUFFICES ASSUME NEW i \in 1..n, \A j \in 1..k : q[i] # q[j]
                   PROVE  q[i] \in ToSet(b)
        BY <1>5
      <3>1. i - k \in 1..n - k /\ k + (i - k) = i
        <4>1. i \notin 1..k
          OBVIOUS
        <4> QED BY <1>1, <4>1
      <3>2. b[i - k] = q[i]
        BY <1>3, <3>1
      <3>3. i - k \in DOMAIN b
        BY <1>3, <3>1
      <3> QED BY <3>2, <3>3 DEF ToSet
    <2> QED BY <2>2, <2>3, <2>4, <2>5
  <1> QED BY <1>2, <1>3, <1>4, <1>6 DEF a, b, n

(* A sequence without repetitions is no longer than what it is made of. *)
LEMMA InjectiveLength ==
  ASSUME NEW X, IsFiniteSet(X), NEW q \in Seq(X), IsInjective(q)
  PROVE  Len(q) <= Cardinality(X)
  <1>1. q \in Injection(1..Len(q), X)
    BY DEF Injection, IsInjective
  <1>2. IsFiniteSet(1..Len(q)) /\ Cardinality(1..Len(q)) = Len(q)
    <2>1. Len(q) \in Nat
      OBVIOUS
    <2>2. /\ IsFiniteSet(1..Len(q))
          /\ Cardinality(1..Len(q)) = IF 1 > Len(q) THEN 0 ELSE Len(q) - 1 + 1
      BY <2>1, FS_Interval
    <2> QED BY <2>1, <2>2
  <1> QED BY <1>1, <1>2, FS_Injection
-----------------------------------------------------------------------------
(* Sums over finite sets, as MapThenSumSet computes them.                  *)

(* The element that the sum over s takes first. *)
First(s) == CHOOSE x \in s : TRUE
(* What MapThenSumSet recurses through. *)
Sums(f, S, g) ==
  g = [s \in SUBSET S |-> IF s = {} THEN 0 ELSE f[First(s)] + g[s \ {First(s)}]]
SumOver(f, S) ==
  LET iter[s \in SUBSET S] == IF s = {} THEN 0
                              ELSE LET x == CHOOSE x \in s : TRUE
                                   IN f[x] + iter[s \ {x}]
  IN iter[S]

(* A finite set without one of its elements is smaller by one. *)
LEMMA OneLess ==
  ASSUME NEW s, IsFiniteSet(s), NEW x \in s
  PROVE  /\ IsFiniteSet(s \ {x}) /\ Cardinality(s) \in Nat
         /\ Cardinality(s \ {x}) \in Nat
         /\ Cardinality(s) = Cardinality(s \ {x}) + 1
  <1>1. IsFiniteSet(s \ {x}) /\ Cardinality(s) \in Nat /\ Cardinality(s \ {x}) \in Nat
    BY FS_RemoveElement, FS_CardinalityType
  <1>2. Cardinality(s \ {x}) = Cardinality(s) - 1
    BY FS_RemoveElement
  <1> QED BY <1>1, <1>2

(* The recursion has a solution. *)
LEMMA SumsExist ==
  ASSUME NEW S, IsFiniteSet(S), NEW f \in [S -> Int]
  PROVE  \E g \in [SUBSET S -> Int] : Sums(f, S, g)
  <1> DEFINE P(k) == {s \in SUBSET S : Cardinality(s) <= k}
             Rec(g, s) == g[s] = IF s = {} THEN 0 ELSE f[First(s)] + g[s \ {First(s)}]
             Good == {k \in Nat : \E g \in [P(k) -> Int] : \A s \in P(k) : Rec(g, s)}
  <1>1. \A s \in SUBSET S : IsFiniteSet(s) /\ Cardinality(s) \in Nat
    BY FS_Subset, FS_CardinalityType
  <1>2. \A s \in SUBSET S : s # {} => First(s) \in s
    BY DEF First
  <1>3. ASSUME NEW k \in Nat, NEW s \in P(k + 1), s # {}
        PROVE  /\ First(s) \in S /\ s \ {First(s)} \in P(k)
               /\ s \in P(k) => s \ {First(s)} \in P(k)
    <2>1. First(s) \in s /\ IsFiniteSet(s) /\ s \in SUBSET S
      BY <1>1, <1>2, <1>3
    <2>2. /\ Cardinality(s) \in Nat /\ Cardinality(s \ {First(s)}) \in Nat
          /\ Cardinality(s) = Cardinality(s \ {First(s)}) + 1
      BY <2>1, OneLess
    <2>3. Cardinality(s) <= k + 1
      BY <1>3
    <2>4. Cardinality(s \ {First(s)}) <= k
      BY <2>2, <2>3
    <2> QED BY <2>1, <2>4
  <1>4. 0 \in Good
    <2>1. \A s \in P(0) : s = {}
      <3> SUFFICES ASSUME NEW s \in P(0) PROVE s = {}
        OBVIOUS
      <3>1. Cardinality(s) = 0 /\ IsFiniteSet(s)
        <4>1. Cardinality(s) <= 0 /\ Cardinality(s) \in Nat /\ IsFiniteSet(s)
          BY <1>1
        <4> QED BY <4>1
      <3> QED BY <3>1, FS_EmptySet
    <2> DEFINE g == [s \in P(0) |-> 0]
    <2>2. g \in [P(0) -> Int] /\ \A s \in P(0) : Rec(g, s)
      BY <2>1
    <2> HIDE DEF g, P, Rec
    <2> QED BY <2>2
  <1>5. ASSUME NEW k \in Nat, k \in Good PROVE k + 1 \in Good
    <2>1. PICK g \in [P(k) -> Int] : \A s \in P(k) : Rec(g, s)
      BY <1>5
    <2> DEFINE h == [s \in P(k + 1) |->
                       IF s = {} THEN 0 ELSE f[First(s)] + g[s \ {First(s)}]]
    <2>2. h \in [P(k + 1) -> Int]
      <3> SUFFICES ASSUME NEW s \in P(k + 1), s # {}
                   PROVE  f[First(s)] + g[s \ {First(s)}] \in Int
        OBVIOUS
      <3> HIDE DEF P
      <3>1. f[First(s)] \in Int /\ g[s \ {First(s)}] \in Int
        BY <1>3, <2>1
      <3> QED BY <3>1
    <2>3. P(k) \subseteq P(k + 1)
      BY <1>1
    <2>4. ASSUME NEW s \in P(k) PROVE h[s] = g[s]
      <3>1. s \in P(k + 1) /\ Rec(g, s)
        BY <2>1, <2>3
      <3> HIDE DEF P
      <3> QED BY <3>1
    <2>5. ASSUME NEW s \in P(k + 1) PROVE Rec(h, s)
      <3>1. CASE s = {}
        BY <3>1
      <3>2. CASE s # {}
        <4>1. s \ {First(s)} \in P(k)
          BY <1>3, <3>2
        <4>2. h[s \ {First(s)}] = g[s \ {First(s)}]
          BY <2>4, <4>1
        <4>3. h[s] = f[First(s)] + g[s \ {First(s)}]
          BY <3>2
        <4> HIDE DEF h
        <4> QED BY <3>2, <4>2, <4>3
      <3> QED BY <3>1, <3>2
    <2> HIDE DEF h, P, Rec
    <2> QED BY <2>2, <2>5
  <1> HIDE DEF Good
  <1>6. Cardinality(S) \in Good
    BY <1>1, <1>4, <1>5, NatSetInduction
  <1>7. P(Cardinality(S)) = SUBSET S
    <2> SUFFICES ASSUME NEW s \in SUBSET S PROVE Cardinality(s) <= Cardinality(S)
      OBVIOUS
    <2> QED BY FS_Subset
  <1>8. PICK g \in [SUBSET S -> Int] : \A s \in SUBSET S : Rec(g, s)
    <2> HIDE DEF P, Rec
    <2> QED BY <1>6, <1>7 DEF Good
  <1>9. Sums(f, S, g)
    BY <1>8 DEF Sums
  <1> QED BY <1>9

(* The sum is a solution, and no other. *)
LEMMA SumsAgree ==
  ASSUME NEW S, IsFiniteSet(S), NEW f \in [S -> Int], NEW T \in SUBSET S,
         NEW g, Sums(f, S, g), NEW h, Sums(f, T, h)
  PROVE  \A s \in SUBSET T : g[s] = h[s]
  <1> DEFINE Good == {k \in Nat : \A s \in SUBSET T : Cardinality(s) = k => g[s] = h[s]}
  <1>1. \A s \in SUBSET T : IsFiniteSet(s) /\ Cardinality(s) \in Nat
    BY FS_Subset, FS_CardinalityType
  <1>2. ASSUME NEW s \in SUBSET T
        PROVE  /\ g[s] = IF s = {} THEN 0 ELSE f[First(s)] + g[s \ {First(s)}]
               /\ h[s] = IF s = {} THEN 0 ELSE f[First(s)] + h[s \ {First(s)}]
    <2>1. s \in SUBSET S
      OBVIOUS
    <2> QED BY <2>1 DEF Sums
  <1>3. 0 \in Good
    <2> SUFFICES ASSUME NEW s \in SUBSET T, Cardinality(s) = 0 PROVE g[s] = h[s]
      OBVIOUS
    <2>1. s = {}
      BY <1>1, FS_EmptySet
    <2> QED BY <1>2, <2>1
  <1>4. ASSUME NEW k \in Nat, k \in Good PROVE k + 1 \in Good
    <2> SUFFICES ASSUME NEW s \in SUBSET T, Cardinality(s) = k + 1 PROVE g[s] = h[s]
      OBVIOUS
    <2>1. s # {}
      <3>1. Cardinality({}) = 0
        BY FS_EmptySet
      <3> QED BY <3>1
    <2>2. First(s) \in s
      BY <2>1 DEF First
    <2>3. /\ Cardinality(s \ {First(s)}) \in Nat
          /\ Cardinality(s) = Cardinality(s \ {First(s)}) + 1
      BY <1>1, <2>2, OneLess
    <2>4. Cardinality(s \ {First(s)}) = k
      BY <2>3
    <2>5. g[s \ {First(s)}] = h[s \ {First(s)}]
      BY <1>4, <2>4
    <2> QED BY <1>2, <2>1, <2>5
  <1> HIDE DEF Good
  <1>5. Nat \subseteq Good
    BY <1>3, <1>4, NatSetInduction
  <1> QED BY <1>1, <1>5 DEF Good

(* The sum over a set, taken apart. *)
LEMMA SumFacts ==
  ASSUME NEW S, IsFiniteSet(S), NEW f \in [S -> Int]
  PROVE  /\ \A T \in SUBSET S : SumOver(f, T) \in Int
         /\ SumOver(f, {}) = 0
         /\ \A T \in SUBSET S : \A x \in T : SumOver(f, T) = f[x] + SumOver(f, T \ {x})
  <1>1. PICK g \in [SUBSET S -> Int] : Sums(f, S, g)
    BY SumsExist
  <1>2. ASSUME NEW T \in SUBSET S PROVE SumOver(f, T) = g[T]
    <2> DEFINE h == CHOOSE h : Sums(f, T, h)
    <2>1. \E h0 : Sums(f, T, h0)
      <3> DEFINE h0 == [s \in SUBSET T |-> g[s]]
      <3>1. \A s \in SUBSET T : s \ {First(s)} \in SUBSET T
        OBVIOUS
      <3>2. \A s \in SUBSET T : g[s] = IF s = {} THEN 0
                                       ELSE f[First(s)] + g[s \ {First(s)}]
        <4> SUFFICES ASSUME NEW s \in SUBSET T
                     PROVE  g[s] = IF s = {} THEN 0 ELSE f[First(s)] + g[s \ {First(s)}]
          OBVIOUS
        <4>1. s \in SUBSET S
          OBVIOUS
        <4> QED BY <1>1, <4>1 DEF Sums
      <3>3. Sums(f, T, h0)
        BY <3>1, <3>2 DEF Sums
      <3> QED BY <3>3
    <2>2. Sums(f, T, h)
      BY <2>1
    <2>3. SumOver(f, T) = h[T]
      BY DEF SumOver, Sums, First
    <2> HIDE DEF h
    <2>4. g[T] = h[T]
      BY <1>1, <2>2, SumsAgree
    <2> QED BY <2>3, <2>4
  <1>3. ASSUME NEW T \in SUBSET S
        PROVE  g[T] = IF T = {} THEN 0 ELSE f[First(T)] + g[T \ {First(T)}]
    BY <1>1 DEF Sums
  <1> DEFINE Good == {k \in Nat : \A T \in SUBSET S : \A x \in T :
                        Cardinality(T) = k => g[T] = f[x] + g[T \ {x}]}
  <1>4. \A s \in SUBSET S : IsFiniteSet(s) /\ Cardinality(s) \in Nat
    BY FS_Subset, FS_CardinalityType
  <1>5. 0 \in Good
    <2> SUFFICES ASSUME NEW T \in SUBSET S, NEW x \in T, Cardinality(T) = 0 PROVE FALSE
      OBVIOUS
    <2> QED BY <1>4, FS_EmptySet
  <1>6. ASSUME NEW k \in Nat, k \in Good PROVE k + 1 \in Good
    <2> SUFFICES ASSUME NEW T \in SUBSET S, NEW x \in T, Cardinality(T) = k + 1
                 PROVE  g[T] = f[x] + g[T \ {x}]
      OBVIOUS
    <2> DEFINE y == First(T)
    <2>1. y \in T
      BY DEF First
    <2> HIDE DEF y
    <2>2. g[T] = f[y] + g[T \ {y}]
      BY <1>3 DEF y
    <2>3. CASE x = y
      BY <2>2, <2>3
    <2>4. CASE x # y
      <3>1. Cardinality(T \ {x}) = k /\ Cardinality(T \ {y}) = k
        <4>1. ASSUME NEW z \in T PROVE Cardinality(T \ {z}) = k
          <5>1. Cardinality(T \ {z}) \in Nat /\ Cardinality(T) = Cardinality(T \ {z}) + 1
            BY <1>4, OneLess
          <5> QED BY <5>1
        <4> QED BY <2>1, <4>1
      <3>2. g[T \ {y}] = f[x] + g[(T \ {y}) \ {x}]
        BY <1>6, <2>4, <3>1
      <3>3. g[T \ {x}] = f[y] + g[(T \ {x}) \ {y}]
        BY <1>6, <2>1, <2>4, <3>1
      <3>4. (T \ {y}) \ {x} = (T \ {x}) \ {y}
        OBVIOUS
      <3> DEFINE r == g[(T \ {x}) \ {y}]
      <3>5. r \in Int /\ f[x] \in Int /\ f[y] \in Int
        BY <2>1
      <3> HIDE DEF r
      <3>6. g[T] = f[y] + (f[x] + r) /\ g[T \ {x}] = f[y] + r
        BY <2>2, <3>2, <3>3, <3>4 DEF r
      <3> QED BY <3>5, <3>6
    <2> QED BY <2>3, <2>4
  <1> HIDE DEF Good
  <1>7. Nat \subseteq Good
    BY <1>5, <1>6, NatSetInduction
  <1>8. \A T \in SUBSET S : \A x \in T : g[T] = f[x] + g[T \ {x}]
    BY <1>4, <1>7 DEF Good
  <1>9. SumOver(f, {}) = 0
    BY <1>2, <1>3
  <1>10. \A T \in SUBSET S : SumOver(f, T) \in Int
    BY <1>2
  <1>11. ASSUME NEW T \in SUBSET S, NEW x \in T
         PROVE  SumOver(f, T) = f[x] + SumOver(f, T \ {x})
    <2>1. SumOver(f, T) = g[T] /\ SumOver(f, T \ {x}) = g[T \ {x}]
      BY <1>2
    <2> QED BY <1>8, <2>1
  <1> QED BY <1>9, <1>10, <1>11

-----------------------------------------------------------------------------
(* The inductive invariant.                                                *)

Statuses == {"Uncreated", "Dormant", "Ready", "Running", "Waiting", "Deleted"}

(* The threads are consistent: cur alone runs, the run queue is exact, and  *)
(* a wait for a vblank has no deadline of its own.                          *)
ThreadsFit(st, wt, rdy, cur) ==
  /\ st \in [Threads -> Statuses]
  /\ wt \in [Threads -> WaitStates]
  /\ rdy \in Seq(Threads)
  /\ cur \in Threads \cup {NoThread}
  /\ \A t \in Threads : st[t] = "Running" <=> t = cur
  /\ ToSet(rdy) = {t \in Threads : st[t] = "Ready"}
  /\ IsInjective(rdy)
  /\ \A t \in Threads : st[t] = "Waiting" /\ wt[t].type = "VBlank"
                          => wt[t].left = Forever

(* Nobody waits past a deadline. *)
Timely(st, wt) == \A t \in Threads : st[t] = "Waiting" => wt[t].left # 0

(* What a call may set besides the threads. *)
CallsFit ==
  /\ prio \in [Threads -> Priorities]
  /\ wakeups \in [Threads -> Nat]
  /\ waiters \in [Objects -> Seq(Threads \cup {NoThread})]
  /\ dispatch \in BOOLEAN /\ intr \in BOOLEAN /\ stopped \in BOOLEAN

IntrFits == active \in BOOLEAN /\ idleIntr \in BOOLEAN /\ pending \in 0..MaxPending

(* Guest code runs only between a processed vblank and the next one, and a *)
(* vblank is due only while the idle loop may still count it.              *)
ClockFits ==
  /\ vblankLeft \in 0..VBlankPeriod
  /\ idleVBlanks \in 0..IdleVBlankLimit + 1
  /\ Guest => vblankLeft > 0 /\ Timely(status, wait)
  /\ vblankLeft = 0 => idleVBlanks <= IdleVBlankLimit

(* The inductive invariant. *)
SchedInv ==
  /\ ThreadsFit(status, wait, ready, current)
  /\ CallsFit
  /\ IntrFits
  /\ ClockFits

(* What is shown of every step. *)
StepFits == SchedInv' /\ UrgentThreadRuns' /\ LosesCpuByRule

-----------------------------------------------------------------------------
(* Queues.                                                                 *)

(* The recursion that defines Drop: f[i] is what the first i entries leave. *)
Keeps(q, S, f, n) ==
  f = [i \in 0..n |-> IF i = 0 THEN << >>
                      ELSE IF q[i] \in S THEN f[i - 1] ELSE Append(f[i - 1], q[i])]

(* The recursion has a solution for every length. *)
LEMMA KeepsExists ==
  ASSUME NEW q, NEW S, NEW n \in Nat
  PROVE  \E f : Keeps(q, S, f, n)
  <1> DEFINE Good == {m \in Nat : \E f : Keeps(q, S, f, m)}
  <1>1. 0 \in Good
    <2> DEFINE f == [i \in 0..0 |-> << >>]
    <2>1. f = [i \in 0..0 |-> IF i = 0 THEN << >>
                      ELSE IF q[i] \in S THEN f[i - 1] ELSE Append(f[i - 1], q[i])]
      OBVIOUS
    <2> QED BY <2>1 DEF Keeps
  <1>2. ASSUME NEW m \in Nat, m \in Good PROVE m + 1 \in Good
    <2>1. PICK f : Keeps(q, S, f, m)
      BY <1>2
    <2> DEFINE last == IF q[m + 1] \in S THEN f[m] ELSE Append(f[m], q[m + 1])
               g == [i \in 0..m + 1 |-> IF i = m + 1 THEN last ELSE f[i]]
    <2>2. g = [i \in 0..m + 1 |->
                 IF i = 0 THEN << >>
                 ELSE IF q[i] \in S THEN g[i - 1] ELSE Append(g[i - 1], q[i])]
      <3> SUFFICES ASSUME NEW i \in 0..m + 1
                   PROVE g[i] = IF i = 0 THEN << >>
                                ELSE IF q[i] \in S THEN g[i - 1]
                                ELSE Append(g[i - 1], q[i])
        OBVIOUS
      <3>1. CASE i = m + 1
        <4>1. i # 0 /\ i - 1 \in 0..m + 1 /\ i - 1 = m /\ m # m + 1
          BY <3>1
        <4>2. g[i - 1] = f[m] /\ g[i] = last
          BY <3>1, <4>1
        <4> QED BY <3>1, <4>1, <4>2
      <3>2. CASE i # m + 1
        <4>1. i \in 0..m /\ g[i] = f[i]
          BY <3>2
        <4>2. i # 0 => i - 1 \in 0..m + 1 /\ i - 1 # m + 1 /\ g[i - 1] = f[i - 1]
          BY <4>1
        <4>3. f[i] = IF i = 0 THEN << >>
                     ELSE IF q[i] \in S THEN f[i - 1] ELSE Append(f[i - 1], q[i])
          BY <2>1, <4>1 DEF Keeps
        <4> HIDE DEF g
        <4> QED BY <4>1, <4>2, <4>3
      <3> QED BY <3>1, <3>2
    <2> HIDE DEF g
    <2>3. Keeps(q, S, g, m + 1)
      BY <2>2 DEF Keeps
    <2> QED BY <2>3
  <1> HIDE DEF Good
  <1>3. Nat \subseteq Good
    BY <1>1, <1>2, NatSetInduction
  <1> QED BY <1>3 DEF Good

(* What Drop leaves: the elements outside S, each where it stood once. *)
LEMMA DropFacts ==
  ASSUME NEW X, NEW q \in Seq(X), NEW S
  PROVE  /\ Drop(q, S) \in Seq(X)
         /\ ToSet(Drop(q, S)) = ToSet(q) \ S
         /\ IsInjective(q) => IsInjective(Drop(q, S))
  <1> DEFINE n == Len(q)
             k == CHOOSE f : Keeps(q, S, f, n)
             Good == {m \in Nat : m <= n =>
                        /\ k[m] \in Seq(X)
                        /\ ToSet(k[m]) = {q[j] : j \in 1..m} \ S
                        /\ IsInjective(q) => IsInjective(k[m])}
  <1>1. n \in Nat /\ DOMAIN q = 1..n /\ \A i \in 1..n : q[i] \in X
    OBVIOUS
  <1>2. Keeps(q, S, k, n)
    BY <1>1, KeepsExists
  <1>3. Drop(q, S) = k[n]
    BY DEF Drop, Keeps
  <1> HIDE DEF k, n
  <1>4. k[0] = << >>
    BY <1>1, <1>2 DEF Keeps
  <1>5. ASSUME NEW m \in Nat, m + 1 <= n
        PROVE  k[m + 1] = IF q[m + 1] \in S THEN k[m] ELSE Append(k[m], q[m + 1])
    <2>1. m + 1 \in 0..n /\ m + 1 # 0 /\ (m + 1) - 1 = m
      BY <1>1, <1>5
    <2> QED BY <2>1, <1>2 DEF Keeps
  <1>6. 0 \in Good
    <2>1. << >> \in Seq(X) /\ ToSet(<< >>) = {} /\ IsInjective(<< >>)
      BY DEF ToSet, IsInjective
    <2>2. {q[j] : j \in 1..0} = {}
      OBVIOUS
    <2> QED BY <1>4, <2>1, <2>2
  <1>7. ASSUME NEW m \in Nat, m \in Good PROVE m + 1 \in Good
    <2> SUFFICES ASSUME m + 1 <= n
                 PROVE  /\ k[m + 1] \in Seq(X)
                        /\ ToSet(k[m + 1]) = {q[j] : j \in 1..m + 1} \ S
                        /\ IsInjective(q) => IsInjective(k[m + 1])
      OBVIOUS
    <2>1. /\ k[m] \in Seq(X)
          /\ ToSet(k[m]) = {q[j] : j \in 1..m} \ S
          /\ IsInjective(q) => IsInjective(k[m])
      BY <1>1, <1>7
    <2>2. m + 1 \in 1..n /\ q[m + 1] \in X
      BY <1>1
    <2>3. {q[j] : j \in 1..m + 1} = {q[j] : j \in 1..m} \cup {q[m + 1]}
      <3>1. 1..m + 1 = 1..m \cup {m + 1}
        OBVIOUS
      <3> QED BY <3>1
    <2>4. CASE q[m + 1] \in S
      BY <2>1, <2>3, <2>4, <1>5
    <2>5. CASE q[m + 1] \notin S
      <3>1. k[m + 1] = Append(k[m], q[m + 1])
        BY <2>5, <1>5
      <3>2. IsInjective(q) => q[m + 1] \notin {q[j] : j \in 1..m}
        <4> SUFFICES ASSUME IsInjective(q), NEW j \in 1..m, q[m + 1] = q[j]
                     PROVE  FALSE
          OBVIOUS
        <4>1. j \in DOMAIN q /\ m + 1 \in DOMAIN q /\ j # m + 1
          BY <1>1, <2>2
        <4> QED BY <4>1 DEF IsInjective
      <3>3. /\ Append(k[m], q[m + 1]) \in Seq(X)
            /\ ToSet(Append(k[m], q[m + 1])) = ToSet(k[m]) \cup {q[m + 1]}
            /\ IsInjective(k[m]) /\ q[m + 1] \notin ToSet(k[m])
                 => IsInjective(Append(k[m], q[m + 1]))
        BY <2>1, <2>2, AppendFacts
      <3> QED BY <2>1, <2>3, <2>5, <3>1, <3>2, <3>3
    <2> QED BY <2>4, <2>5
  <1> HIDE DEF Good
  <1>8. n \in Good
    BY <1>1, <1>6, <1>7, NatSetInduction
  <1>9. /\ k[n] \in Seq(X)
        /\ ToSet(k[n]) = {q[j] : j \in 1..n} \ S
        /\ IsInjective(q) => IsInjective(k[n])
    BY <1>8, <1>1 DEF Good
  <1> QED BY <1>1, <1>3, <1>9 DEF ToSet

(* The order of a std::map names every thread of the set once. *)
LEMMA UidOrdersFacts ==
  ASSUME NEW S \in SUBSET Threads, NEW s \in UidOrders(S)
  PROVE  s \in Seq(Threads) /\ ToSet(s) = S /\ IsInjective(s)
  <1>1. IsFiniteSet(S)
    BY ThreadsAssumption, FS_Subset DEF ThreadsAssumption
  <1>2. s \in SetToSeqs(S)
    BY DEF UidOrders
  <1>3. s \in Seq(S) /\ ToSet(s) = S /\ IsInjective(s)
    BY <1>1, <1>2, SetToSeqsFacts
  <1> QED BY <1>3, SeqMonotonic

(* on_vblank's threads and the others that time out are different ones. *)
LEMMA WakeOrdersFacts ==
  ASSUME NEW vb, NEW due \in SUBSET Threads, NEW order \in WakeOrders(vb, due),
         VBlankWoken(vb) \cap due = {}
  PROVE  /\ order \in Seq(Threads)
         /\ ToSet(order) = VBlankWoken(vb) \cup due
         /\ IsInjective(order)
  <1>1. PICK a \in UidOrders(VBlankWoken(vb)), b \in UidOrders(due) : order = a \o b
    BY DEF WakeOrders
  <1>2. VBlankWoken(vb) \in SUBSET Threads
    BY DEF VBlankWoken
  <1>3. a \in Seq(Threads) /\ ToSet(a) = VBlankWoken(vb) /\ IsInjective(a)
    BY <1>2, UidOrdersFacts
  <1>4. b \in Seq(Threads) /\ ToSet(b) = due /\ IsInjective(b)
    BY UidOrdersFacts
  <1> QED BY <1>1, <1>3, <1>4, ConcatFacts

-----------------------------------------------------------------------------
(* What wakes and switches do to consistent threads.                       *)

(* The waits the handlers build, and what ageing does to one. *)
LEMMA WaitFacts ==
  /\ NoWait \in WaitStates /\ NoWait.left = Forever /\ NoWait.type = "None"
  /\ \A type \in WaitTypes, left \in Nat \cup {Forever} :
        Wait(type, left) \in WaitStates
  /\ \A w \in WaitStates : w.left \in Nat \cup {Forever}
  /\ \A w \in WaitStates, d \in Nat :
        w.left # Forever /\ d <= w.left =>
          /\ [w EXCEPT !.left = @ - d] \in WaitStates
          /\ [w EXCEPT !.left = @ - d].left = w.left - d
          /\ [w EXCEPT !.left = @ - d].type = w.type
  <1> USE TimeAssumption DEF TimeAssumption, WaitStates, Forever
  <1>1. NoWait \in WaitStates /\ NoWait.left = Forever /\ NoWait.type = "None"
    BY DEF NoWait, Wait, WaitTypes
  <1>2. \A type \in WaitTypes, left \in Nat \cup {Forever} :
          Wait(type, left) \in WaitStates
    BY DEF Wait
  <1>3. \A w \in WaitStates : w.left \in Nat \cup {Forever}
    OBVIOUS
  <1>4. ASSUME NEW w \in WaitStates, NEW d \in Nat, w.left # Forever, d <= w.left
        PROVE  /\ [w EXCEPT !.left = @ - d] \in WaitStates
               /\ [w EXCEPT !.left = @ - d].left = w.left - d
               /\ [w EXCEPT !.left = @ - d].type = w.type
    <2>1. w.left \in Nat
      BY <1>4
    <2>2. w.left - d \in Nat
      BY <1>4, <2>1
    <2> QED BY <2>2
  <1> QED BY <1>1, <1>2, <1>3, <1>4

(* make_ready on threads that neither run nor are ready. *)
LEMMA WokenFit ==
  ASSUME NEW st, NEW wt, NEW rdy, NEW cur, ThreadsFit(st, wt, rdy, cur),
         NEW order \in Seq(Threads), IsInjective(order),
         \A t \in ToSet(order) : st[t] \notin {"Ready", "Running"}
  PROVE  ThreadsFit(MadeReady(st, ToSet(order)), NotWaiting(wt, ToSet(order)),
                    rdy \o order, cur)
  <1> DEFINE W == ToSet(order)
             st2 == MadeReady(st, W)
             wt2 == NotWaiting(wt, W)
  <1>0. W \subseteq Threads
    BY ToSetFacts
  <1>1. ToSet(rdy) \cap W = {}
    BY DEF ThreadsFit
  <1> HIDE DEF W
  <1>2. /\ rdy \o order \in Seq(Threads)
        /\ ToSet(rdy \o order) = ToSet(rdy) \cup W
        /\ IsInjective(rdy \o order)
    BY <1>1, ConcatFacts DEF ThreadsFit, W
  <1>3. st2 \in [Threads -> Statuses]
    BY DEF ThreadsFit, MadeReady, Statuses
  <1>4. wt2 \in [Threads -> WaitStates]
    BY WaitFacts DEF ThreadsFit, NotWaiting
  <1>5. \A t \in Threads : st2[t] = "Running" <=> t = cur
    BY DEF ThreadsFit, MadeReady, W
  <1>6. ToSet(rdy \o order) = {t \in Threads : st2[t] = "Ready"}
    BY <1>0, <1>2 DEF ThreadsFit, MadeReady
  <1>7. \A t \in Threads : st2[t] = "Waiting" /\ wt2[t].type = "VBlank"
                             => wt2[t].left = Forever
    BY DEF ThreadsFit, MadeReady, NotWaiting
  <1>8. cur \in Threads \cup {NoThread}
    BY DEF ThreadsFit
  <1> QED BY <1>2, <1>3, <1>4, <1>5, <1>6, <1>7, <1>8 DEF ThreadsFit, W

(* switch_to, when the previous thread has already given up the CPU. *)
LEMMA SwitchFit ==
  ASSUME NEW st, NEW wt, NEW rdy, ThreadsFit(st, wt, rdy, NoThread),
         NEW i \in DOMAIN rdy, SwitchTo(st, wt, rdy, i)
  PROVE  /\ ThreadsFit(status, wait, ready, current)'
         /\ current' = rdy[i] /\ current' \in Threads
         /\ ToSet(ready') = ToSet(rdy) \ {rdy[i]}
         /\ \A t \in Threads : t # rdy[i] => status'[t] = st[t]
  <1>1. /\ st \in [Threads -> Statuses] /\ wt \in [Threads -> WaitStates]
        /\ rdy \in Seq(Threads) /\ IsInjective(rdy)
    BY DEF ThreadsFit
  <1>2. i \in 1..Len(rdy) /\ rdy[i] \in Threads
    BY <1>1
  <1>3. /\ status' = [st EXCEPT ![rdy[i]] = "Running"]
        /\ wait' = wt /\ ready' = RemoveAt(rdy, i) /\ current' = rdy[i]
    BY DEF SwitchTo
  <1>4. /\ ready' \in Seq(Threads)
        /\ ToSet(ready') = ToSet(rdy) \ {rdy[i]}
        /\ IsInjective(ready')
    BY <1>1, <1>2, <1>3, RemoveAtFacts
  <1>5. status' \in [Threads -> Statuses]
    BY <1>1, <1>2, <1>3 DEF Statuses
  <1>6. \A t \in Threads : st[t] # "Running"
    BY ThreadsAssumption DEF ThreadsFit, ThreadsAssumption
  <1>7. \A t \in Threads : status'[t] = "Running" <=> t = current'
    BY <1>1, <1>2, <1>3, <1>6
  <1>8. ToSet(rdy) = {t \in Threads : st[t] = "Ready"}
    BY DEF ThreadsFit
  <1>9. ToSet(ready') = {t \in Threads : status'[t] = "Ready"}
    BY <1>1, <1>2, <1>3, <1>4, <1>8
  <1>10. \A t \in Threads : status'[t] = "Waiting" /\ wait'[t].type = "VBlank"
                              => wait'[t].left = Forever
    BY <1>1, <1>2, <1>3 DEF ThreadsFit
  <1>11. current' \in Threads /\ current' = rdy[i]
    BY <1>2, <1>3
  <1>12. wait' \in [Threads -> WaitStates]
    BY <1>1, <1>3
  <1>13. ThreadsFit(status, wait, ready, current)'
    BY <1>4, <1>5, <1>7, <1>9, <1>10, <1>11, <1>12 DEF ThreadsFit
  <1>14. \A t \in Threads : t # rdy[i] => status'[t] = st[t]
    BY <1>1, <1>2, <1>3
  <1> QED BY <1>4, <1>11, <1>13, <1>14

(* The current thread goes on. *)
LEMMA KeepFit ==
  ASSUME NEW st, NEW wt, NEW rdy, ThreadsFit(st, wt, rdy, current),
         Keep(st, wt, rdy)
  PROVE  ThreadsFit(status, wait, ready, current)'
  BY DEF Keep, ThreadsFit

(* Whoever is in the run queue after the switch is no more urgent than the *)
(* thread that has the CPU.                                                *)
LEMMA RescheduleFit ==
  ASSUME NEW st, NEW wt, NEW rdy, ThreadsFit(st, wt, rdy, current),
         current \in Threads, prio' \in [Threads -> Priorities],
         NEW tie \in BOOLEAN, Reschedule(st, wt, rdy, tie)
  PROVE  /\ ThreadsFit(status, wait, ready, current)'
         /\ current' \in Threads
         /\ dispatch' => \A t \in ToSet(ready') : prio'[t] >= prio'[current']
         /\ \A t \in Threads : status'[t] = "Waiting" <=> st[t] = "Waiting"
         /\ \A t \in Threads : st[t] = "Waiting" => wait'[t] = wt[t]
         /\ idleVBlanks' \in {0, idleVBlanks}
         /\ LosesCpuByRule
  <1>1. \A t \in Threads : prio'[t] \in Int
    <2>1. \A p \in Priorities : p \in Int
      BY ThreadsAssumption DEF ThreadsAssumption
    <2>2. \A t \in Threads : prio'[t] \in Priorities
      OBVIOUS
    <2> QED BY <2>1, <2>2
  <1> DEFINE beats(t) == prio'[t] < prio'[current] \/ (tie /\ prio'[t] = prio'[current])
  <1>2. rdy \in Seq(Threads) /\ ToSet(rdy) \subseteq Threads
    BY ToSetFacts DEF ThreadsFit
  <1>3. st \in [Threads -> Statuses] /\ wt \in [Threads -> WaitStates]
        /\ st[current] = "Running"
    BY DEF ThreadsFit
  <1>4. CASE /\ dispatch' => \A i \in DOMAIN rdy : ~beats(rdy[i])
             /\ Keep(st, wt, rdy)
    <2>1. ThreadsFit(status, wait, ready, current)'
      BY <1>4, KeepFit
    <2>2. current' = current /\ ready' = rdy /\ status' = st /\ wait' = wt
          /\ idleVBlanks' = idleVBlanks
      BY <1>4 DEF Keep
    <2>3. ASSUME dispatch', NEW t \in ToSet(rdy) PROVE prio'[t] >= prio'[current]
      <3>1. ~beats(t) /\ t \in Threads
        BY <1>2, <1>4, <2>3 DEF ToSet
      <3> QED BY <3>1, <1>1
    <2>4. LosesCpuByRule
      BY <2>2 DEF LosesCpuByRule
    <2> QED BY <2>1, <2>2, <2>3, <2>4
  <1>5. ASSUME NEW i \in DOMAIN rdy, dispatch', IsBest(rdy, i), beats(rdy[i]),
               SwitchTo([st EXCEPT ![current] = "Ready"],
                        [wt EXCEPT ![current] = NoWait], Append(rdy, current), i)
        PROVE  /\ ThreadsFit(status, wait, ready, current)'
               /\ current' \in Threads
               /\ \A t \in ToSet(ready') : prio'[t] >= prio'[current']
               /\ \A t \in Threads : status'[t] = "Waiting" <=> st[t] = "Waiting"
               /\ \A t \in Threads : st[t] = "Waiting" => wait'[t] = wt[t]
               /\ idleVBlanks' = 0 /\ LosesCpuByRule
    <2> DEFINE st2 == [st EXCEPT ![current] = "Ready"]
               wt2 == [wt EXCEPT ![current] = NoWait]
               rdy2 == Append(rdy, current)
    <2>1. ToSet(rdy) = {t \in Threads : st[t] = "Ready"} /\ IsInjective(rdy)
      BY DEF ThreadsFit
    <2>2. current \notin ToSet(rdy)
      BY <2>1, <1>3
    <2>3. /\ rdy2 \in Seq(Threads) /\ ToSet(rdy2) = ToSet(rdy) \cup {current}
          /\ IsInjective(rdy2)
      BY <1>2, <2>1, <2>2, AppendFacts
    <2>4. i \in DOMAIN rdy2 /\ rdy2[i] = rdy[i] /\ rdy[i] \in ToSet(rdy)
      BY <1>2, <1>5 DEF ToSet
    <2> HIDE DEF rdy2
    <2>5. ThreadsFit(st2, wt2, rdy2, NoThread)
      <3>1. st2 \in [Threads -> Statuses]
        BY <1>3 DEF Statuses
      <3>2. wt2 \in [Threads -> WaitStates]
        BY <1>3, WaitFacts
      <3>3. \A t \in Threads : st2[t] = "Running" <=> t = NoThread
        BY <1>3, ThreadsAssumption DEF ThreadsFit, ThreadsAssumption
      <3>4. ToSet(rdy2) = {t \in Threads : st2[t] = "Ready"}
        BY <1>3, <2>1, <2>3
      <3>5. \A t \in Threads : st2[t] = "Waiting" /\ wt2[t].type = "VBlank"
                                 => wt2[t].left = Forever
        BY <1>3 DEF ThreadsFit
      <3> HIDE DEF st2, wt2
      <3> QED BY <2>3, <3>1, <3>2, <3>3, <3>4, <3>5 DEF ThreadsFit
    <2>6. SwitchTo(st2, wt2, rdy2, i)
      BY <1>5 DEF rdy2
    <2>6a. \A t \in Threads : st2[t] = "Waiting" <=> st[t] = "Waiting"
      BY <1>3
    <2>6c. st2[current] = "Ready"
      BY <1>3
    <2>6b. \A t \in Threads : st[t] = "Waiting" => wt2[t] = wt[t]
      BY <1>3
    <2> HIDE DEF st2, wt2
    <2>7. /\ ThreadsFit(status, wait, ready, current)'
          /\ current' = rdy2[i] /\ current' \in Threads
          /\ ToSet(ready') = ToSet(rdy2) \ {rdy2[i]}
          /\ \A t \in Threads : t # rdy2[i] => status'[t] = st2[t]
      BY <2>4, <2>5, <2>6, SwitchFit
    <2>8. ASSUME NEW t \in ToSet(rdy) PROVE prio'[t] >= prio'[rdy[i]]
      <3>1. PICK j \in DOMAIN rdy : t = rdy[j]
        BY <2>8 DEF ToSet
      <3>2. prio'[rdy[i]] < prio'[rdy[j]] \/ prio'[rdy[i]] = prio'[rdy[j]]
        BY <1>5 DEF IsBest
      <3>3. rdy[i] \in Threads /\ rdy[j] \in Threads
        BY <1>2
      <3> QED BY <1>1, <3>1, <3>2, <3>3
    <2>9. prio'[current] >= prio'[rdy[i]]
      <3>1. rdy[i] \in Threads
        BY <1>2, <2>4
      <3> QED BY <1>1, <1>5, <3>1
    <2>10. \A t \in ToSet(ready') : prio'[t] >= prio'[current']
      BY <2>3, <2>4, <2>7, <2>8, <2>9
    <2>11. rdy[i] \in Threads /\ st[rdy[i]] = "Ready" /\ status'[rdy[i]] = "Running"
      <3>1. rdy[i] \in Threads /\ st[rdy[i]] = "Ready"
        BY <2>1, <2>4
      <3>2. status'[rdy[i]] = "Running"
        BY <2>4, <2>7, <3>1 DEF ThreadsFit
      <3> QED BY <3>1, <3>2
    <2>12. \A t \in Threads : status'[t] = "Waiting" <=> st[t] = "Waiting"
      BY <2>4, <2>6a, <2>7, <2>11
    <2>13. wait' = wt2 /\ idleVBlanks' = 0
      BY <2>6 DEF SwitchTo
    <2>14. LosesCpuByRule
      <3>1. rdy2[i] # current
        BY <2>2, <2>4
      <3>2. status'[current] = "Ready"
        BY <2>6c, <2>7, <3>1
      <3>3. current' # NoThread
        BY <2>7, ThreadsAssumption DEF ThreadsAssumption
      <3>4. prio'[current'] <= prio'[current]
        <4>1. rdy[i] \in Threads
          BY <1>2, <2>4
        <4> QED BY <1>1, <2>4, <2>7, <2>9, <4>1
      <3> QED BY <1>5, <3>2, <3>3, <3>4 DEF LosesCpuByRule
    <2> QED BY <2>6b, <2>7, <2>10, <2>12, <2>13, <2>14
  <1> QED BY <1>4, <1>5 DEF Reschedule

-----------------------------------------------------------------------------
(* The endings of the handlers preserve the invariant.                     *)

(* Urgency read off the run queue. *)
LEMMA UrgentFromQueue ==
  ASSUME ThreadsFit(status, wait, ready, current)',
         dispatch' => \A t \in ToSet(ready') : prio'[t] >= prio'[current']
  PROVE  UrgentThreadRuns'
  BY DEF ThreadsFit, UrgentThreadRuns

(* Beginning an interrupt call takes it out of the queue. *)
LEMMA BeginFit ==
  ASSUME NEW pend \in 0..MaxPending, pend > 0, NEW fromIdle \in BOOLEAN,
         BeginInterrupt(pend, fromIdle)
  PROVE  IntrFits' /\ active'
  <1>1. active' = TRUE /\ idleIntr' = fromIdle
    BY DEF BeginInterrupt
  <1>2. active' \in BOOLEAN /\ idleIntr' \in BOOLEAN
    BY <1>1, Zenon
  <1>3. pending' \in 0..MaxPending
    BY TimeAssumption DEF BeginInterrupt, TimeAssumption
  <1> QED BY <1>1, <1>2, <1>3, Zenon DEF IntrFits

(* Kernel::finish. *)
LEMMA FinishFit ==
  ASSUME NEW st, NEW wt, NEW rdy, SchedInv, Guest,
         ThreadsFit(st, wt, rdy, current), Timely(st, wt),
         CallsFit', vblankLeft' = vblankLeft, Finish(st, wt, rdy)
  PROVE  StepFits
  <1>1. vblankLeft' \in 0..VBlankPeriod /\ vblankLeft' > 0
    BY DEF SchedInv, ClockFits
  <1>2. CASE active /\ Keep(st, wt, rdy) /\ UNCHANGED intrVars
    <2>1. ThreadsFit(status, wait, ready, current)'
      BY <1>2, KeepFit
    <2>2. IntrFits' /\ active'
      BY <1>2 DEF SchedInv, IntrFits, intrVars
    <2>3. status' = st /\ wait' = wt /\ idleVBlanks' = idleVBlanks /\ current' = current
      BY <1>2 DEF Keep
    <2>4. ClockFits'
      BY <1>1, <2>3 DEF SchedInv, ClockFits, Timely
    <2> QED BY <2>1, <2>2, <2>3, <2>4
           DEF SchedInv, UrgentThreadRuns, StepFits, LosesCpuByRule
  <1>3. CASE /\ ~active /\ intr' /\ pending > 0
             /\ Keep(st, wt, rdy) /\ BeginInterrupt(pending, FALSE)
    <2>1. ThreadsFit(status, wait, ready, current)'
      BY <1>3, KeepFit
    <2>2. IntrFits' /\ active'
      BY <1>3, BeginFit DEF SchedInv, IntrFits
    <2>3. status' = st /\ wait' = wt /\ idleVBlanks' = idleVBlanks /\ current' = current
      BY <1>3 DEF Keep
    <2>4. ClockFits'
      BY <1>1, <2>3 DEF SchedInv, ClockFits, Timely
    <2> QED BY <2>1, <2>2, <2>3, <2>4
           DEF SchedInv, UrgentThreadRuns, StepFits, LosesCpuByRule
  <1>4. CASE ~active /\ Reschedule(st, wt, rdy, FALSE) /\ UNCHANGED intrVars
    <2>1. current \in Threads
      BY <1>4 DEF SchedInv, ThreadsFit, Guest
    <2>2. prio' \in [Threads -> Priorities]
      BY DEF CallsFit
    <2>3. /\ ThreadsFit(status, wait, ready, current)'
          /\ dispatch' => \A t \in ToSet(ready') : prio'[t] >= prio'[current']
          /\ \A t \in Threads : status'[t] = "Waiting" <=> st[t] = "Waiting"
          /\ \A t \in Threads : st[t] = "Waiting" => wait'[t] = wt[t]
          /\ idleVBlanks' \in {0, idleVBlanks} /\ LosesCpuByRule
      BY <1>4, <2>1, <2>2, RescheduleFit
    <2>4. IntrFits'
      BY <1>4 DEF SchedInv, IntrFits, intrVars
    <2>5. Timely(status, wait)'
      BY <2>3 DEF Timely
    <2>6. idleVBlanks' \in 0..IdleVBlankLimit + 1
      BY <2>3, TimeAssumption DEF SchedInv, ClockFits, TimeAssumption
    <2>7. ClockFits'
      BY <1>1, <2>5, <2>6 DEF ClockFits
    <2>8. UrgentThreadRuns'
      BY <2>3, UrgentFromQueue
    <2> QED BY <2>3, <2>4, <2>7, <2>8 DEF SchedInv, StepFits
  <1> QED BY <1>2, <1>3, <1>4 DEF Finish

(* Kernel::block. *)
LEMMA BlockFit ==
  ASSUME NEW w \in WaitStates, SchedInv, Guest,
         w.type = "VBlank" => w.left = Forever,
         CallsFit', vblankLeft' = vblankLeft, Block(w)
  PROVE  StepFits
  <1>1. vblankLeft' \in 0..VBlankPeriod /\ vblankLeft' > 0
    BY DEF SchedInv, ClockFits
  <1>2. UNCHANGED <<ready, idleVBlanks, intrVars>>
    BY DEF Block
  <1>3. IntrFits'
    BY <1>2 DEF SchedInv, IntrFits, intrVars
  <1>4. CASE active /\ UNCHANGED <<status, wait, current>>
    <2>1. ThreadsFit(status, wait, ready, current)'
      BY <1>2, <1>4 DEF SchedInv, ThreadsFit
    <2>2. ClockFits'
      BY <1>1, <1>2, <1>4 DEF SchedInv, ClockFits, Timely, Guest
    <2>3. active'
      BY <1>2, <1>4 DEF intrVars
    <2> QED BY <1>3, <1>4, <2>1, <2>2, <2>3
           DEF SchedInv, UrgentThreadRuns, StepFits, LosesCpuByRule
  <1>5. CASE /\ ~active
             /\ status' = [status EXCEPT ![current] = "Waiting"]
             /\ wait' = [wait EXCEPT ![current] = w]
             /\ current' = NoThread
    <2>1. current \in Threads
      BY <1>5 DEF SchedInv, ThreadsFit, Guest
    <2>2. ThreadsFit(status, wait, ready, current)
      BY DEF SchedInv
    <2>3. /\ status \in [Threads -> Statuses] /\ wait \in [Threads -> WaitStates]
          /\ status[current] = "Running"
      BY <2>1, <2>2 DEF ThreadsFit
    <2>4. status' \in [Threads -> Statuses] /\ wait' \in [Threads -> WaitStates]
      BY <1>5, <2>3 DEF Statuses
    <2>5. \A t \in Threads : status'[t] = "Running" <=> t = current'
      BY <1>5, <2>1, <2>2, <2>3, ThreadsAssumption DEF ThreadsFit, ThreadsAssumption
    <2>6. ToSet(ready) = {t \in Threads : status'[t] = "Ready"}
      BY <1>5, <2>2, <2>3 DEF ThreadsFit
    <2>7. \A t \in Threads : status'[t] = "Waiting" /\ wait'[t].type = "VBlank"
                               => wait'[t].left = Forever
      BY <1>5, <2>2, <2>3 DEF ThreadsFit
    <2>8. ThreadsFit(status, wait, ready, current)'
      BY <1>2, <1>5, <2>2, <2>4, <2>5, <2>6, <2>7 DEF ThreadsFit
    <2>9. ~Guest' /\ ~active'
      BY <1>2, <1>5 DEF Guest, intrVars
    <2>10. ClockFits'
      BY <1>1, <1>2, <2>9 DEF SchedInv, ClockFits
    <2>11. status'[current] = "Waiting"
      BY <1>5, <2>1, <2>3
    <2> QED BY <1>3, <1>5, <2>8, <2>10, <2>11
           DEF SchedInv, UrgentThreadRuns, StepFits, LosesCpuByRule
  <1> QED BY <1>4, <1>5 DEF Block

-----------------------------------------------------------------------------
(* What the calls hand to finish.                                          *)

(* remove_waiter leaves queues of threads. *)
LEMMA DequeuedFit ==
  ASSUME NEW W, CallsFit
  PROVE  Dequeued(W) \in [Objects -> Seq(Threads \cup {NoThread})]
  <1>1. ASSUME NEW o \in Objects, NEW S
        PROVE  Drop(waiters[o], S) \in Seq(Threads \cup {NoThread})
    <2>1. waiters[o] \in Seq(Threads \cup {NoThread})
      BY DEF CallsFit
    <2> QED BY <2>1, DropFacts
  <1> QED BY <1>1 DEF Dequeued

(* A thread that neither runs nor is ready ends. *)
LEMMA EndedFit ==
  ASSUME NEW st, NEW wt, NEW rdy, NEW cur, ThreadsFit(st, wt, rdy, cur),
         Timely(st, wt), NEW t \in Threads, st[t] \notin {"Ready", "Running"},
         NEW s \in {"Dormant", "Deleted"}
  PROVE  /\ ThreadsFit([st EXCEPT ![t] = s], wt, rdy, cur)
         /\ Timely([st EXCEPT ![t] = s], wt)
  <1> DEFINE st2 == [st EXCEPT ![t] = s]
  <1>1. st \in [Threads -> Statuses]
    BY DEF ThreadsFit
  <1>2. st2 \in [Threads -> Statuses]
    BY <1>1 DEF Statuses
  <1>3. \A u \in Threads : st2[u] = IF u = t THEN s ELSE st[u]
    BY <1>1
  <1> HIDE DEF st2
  <1>4. ToSet(rdy) = {u \in Threads : st2[u] = "Ready"}
    BY <1>3 DEF ThreadsFit
  <1>5. ThreadsFit(st2, wt, rdy, cur)
    BY <1>2, <1>3, <1>4 DEF ThreadsFit
  <1>6. Timely(st2, wt)
    BY <1>3 DEF Timely
  <1> QED BY <1>5, <1>6 DEF st2

(* Another thread leaves the run queue, if it stood there, and ends. *)
LEMMA TerminatedFit ==
  ASSUME NEW st, NEW wt, NEW rdy, NEW cur, ThreadsFit(st, wt, rdy, cur),
         Timely(st, wt), NEW t \in Threads, t # cur,
         NEW s \in {"Dormant", "Deleted"}, NEW rdy2, rdy2 = Drop(rdy, {t}),
         NEW st2, st2 = [st EXCEPT ![t] = s]
  PROVE  ThreadsFit(st2, wt, rdy2, cur) /\ Timely(st2, wt)
  <1>1. /\ st \in [Threads -> Statuses]
        /\ rdy \in Seq(Threads) /\ IsInjective(rdy)
        /\ ToSet(rdy) = {u \in Threads : st[u] = "Ready"}
    BY DEF ThreadsFit
  <1>2. st2 \in [Threads -> Statuses]
    BY <1>1 DEF Statuses
  <1>3. \A u \in Threads : st2[u] = IF u = t THEN s ELSE st[u]
    BY <1>1
  <1>4. /\ rdy2 \in Seq(Threads) /\ IsInjective(rdy2)
        /\ ToSet(rdy2) = ToSet(rdy) \ {t}
    BY <1>1, DropFacts
  <1>5. ToSet(rdy2) = {u \in Threads : st2[u] = "Ready"}
    BY <1>1, <1>3, <1>4
  <1>6. ThreadsFit(st2, wt, rdy2, cur)
    BY <1>2, <1>3, <1>4, <1>5 DEF ThreadsFit
  <1>7. Timely(st2, wt)
    BY <1>3 DEF Timely
  <1> QED BY <1>6, <1>7

(* A ready thread moves to the end of the run queue. *)
LEMMA RequeuedFit ==
  ASSUME NEW st, NEW wt, NEW rdy, NEW cur, ThreadsFit(st, wt, rdy, cur),
         NEW t \in Threads, st[t] = "Ready"
  PROVE  ThreadsFit(st, wt, Append(Drop(rdy, {t}), t), cur)
  <1> DEFINE rdy2 == Drop(rdy, {t})
             rdy3 == Append(rdy2, t)
  <1>1. /\ rdy \in Seq(Threads) /\ IsInjective(rdy)
        /\ ToSet(rdy) = {u \in Threads : st[u] = "Ready"}
    BY DEF ThreadsFit
  <1>2. /\ rdy2 \in Seq(Threads) /\ IsInjective(rdy2)
        /\ ToSet(rdy2) = ToSet(rdy) \ {t}
    BY <1>1, DropFacts
  <1> HIDE DEF rdy2
  <1>3. /\ rdy3 \in Seq(Threads) /\ IsInjective(rdy3)
        /\ ToSet(rdy3) = ToSet(rdy2) \cup {t}
    BY <1>2, AppendFacts
  <1> HIDE DEF rdy3
  <1>4. ToSet(rdy3) = {u \in Threads : st[u] = "Ready"}
    BY <1>1, <1>2, <1>3
  <1>5. ThreadsFit(st, wt, rdy3, cur)
    BY <1>3, <1>4 DEF ThreadsFit
  <1> QED BY <1>5 DEF rdy2, rdy3

(* One thread is woken. *)
LEMMA WokenOneFit ==
  ASSUME SchedInv, Guest, NEW t \in Threads, status[t] \notin {"Ready", "Running"},
         CallsFit', vblankLeft' = vblankLeft, WakeAndFinish(<<t>>)
  PROVE  StepFits
  <1>1. <<t>> \in Seq(Threads) /\ ToSet(<<t>>) = {t} /\ IsInjective(<<t>>)
    BY DEF ToSet, IsInjective
  <1>2. ThreadsFit(status, wait, ready, current) /\ Timely(status, wait)
    BY DEF SchedInv, ClockFits
  <1> DEFINE order == <<t>>
             st2 == MadeReady(status, ToSet(order))
             wt2 == NotWaiting(wait, ToSet(order))
             rdy2 == ready \o order
  <1>3. Finish(st2, wt2, rdy2)
    BY DEF WakeAndFinish
  <1> HIDE DEF order
  <1>4. ThreadsFit(st2, wt2, rdy2, current)
    BY <1>1, <1>2, WokenFit DEF order
  <1>5. Timely(st2, wt2)
    BY <1>2 DEF Timely, MadeReady, NotWaiting
  <1> HIDE DEF st2, wt2, rdy2
  <1> QED BY <1>3, <1>4, <1>5, FinishFit

-----------------------------------------------------------------------------
(* Every call of a guest thread or handler.                                *)

(* A call keeps the invariant, one step for each of the calls. *)
LEMMA CallsStep ==
  ASSUME SchedInv, ThreadCalls
  PROVE  StepFits
  <1>1. ThreadsFit(status, wait, ready, current) /\ CallsFit
    BY DEF SchedInv
  <1>2. Guest => Timely(status, wait)
    BY DEF SchedInv, ClockFits
  <1>3. CASE PlainCall
    <2>1. CallsFit' /\ vblankLeft' = vblankLeft
      BY <1>1, <1>3 DEF PlainCall, CallsFit
    <2> QED BY <1>1, <1>2, <1>3, <2>1, FinishFit DEF PlainCall
  <1>4. ASSUME NEW t \in Threads, CreateThread(t) PROVE StepFits
    <2>1. CallsFit' /\ vblankLeft' = vblankLeft /\ Guest
      BY <1>1, <1>4 DEF CreateThread, CallsFit
    <2>2. status[t] \notin {"Ready", "Running"}
      BY <1>4 DEF CreateThread
    <2>3. /\ ThreadsFit([status EXCEPT ![t] = "Dormant"], wait, ready, current)
          /\ Timely([status EXCEPT ![t] = "Dormant"], wait)
      BY <1>1, <1>2, <2>1, <2>2, EndedFit
    <2> QED BY <1>4, <2>1, <2>3, FinishFit DEF CreateThread
  <1>5. ASSUME NEW t \in Threads, StartThread(t) PROVE StepFits
    <2>1. CallsFit'
      <3>1. prio' \in [Threads -> Priorities]
        BY <1>1, <1>5, ThreadsAssumption DEF StartThread, CallsFit, ThreadsAssumption
      <3>2. wakeups' \in [Threads -> Nat]
        BY <1>1, <1>5 DEF StartThread, CallsFit
      <3>3. UNCHANGED <<waiters, dispatch, intr, stopped>>
        BY <1>5 DEF StartThread
      <3> QED BY <1>1, <3>1, <3>2, <3>3 DEF CallsFit
    <2>2. vblankLeft' = vblankLeft /\ Guest /\ status[t] \notin {"Ready", "Running"}
      BY <1>5 DEF StartThread
    <2> QED BY <1>5, <2>1, <2>2, WokenOneFit DEF StartThread
  <1>6. ASSUME NEW t \in Threads, DeleteThread(t) PROVE StepFits
    <2>1. CallsFit' /\ vblankLeft' = vblankLeft /\ Guest
      BY <1>1, <1>6 DEF DeleteThread, CallsFit
    <2>2. status[t] \notin {"Ready", "Running"}
      BY <1>6 DEF DeleteThread
    <2>3. /\ ThreadsFit([status EXCEPT ![t] = "Deleted"], wait, ready, current)
          /\ Timely([status EXCEPT ![t] = "Deleted"], wait)
      BY <1>1, <1>2, <2>1, <2>2, EndedFit
    <2> QED BY <1>6, <2>1, <2>3, FinishFit DEF DeleteThread
  <1>7. ASSUME NEW delete \in BOOLEAN, ExitThread(delete)
        PROVE  StepFits
    <2> DEFINE g == Gone(delete)
    <2>1. g \in {"Dormant", "Deleted"}
      BY DEF Gone
    <2>2. /\ current # NoThread /\ ~active /\ current' = NoThread
          /\ status' = [status EXCEPT ![current] = g]
          /\ UNCHANGED <<wait, ready, intrVars, vblankLeft, idleVBlanks>>
      BY <1>7 DEF ExitThread
    <2>2a. CallsFit'
      BY <1>1, <1>7 DEF ExitThread, CallsFit
    <2> HIDE DEF g
    <2>3. current \in Threads /\ status \in [Threads -> Statuses]
      BY <1>1, <2>2 DEF ThreadsFit
    <2>4. status' \in [Threads -> Statuses]
      BY <2>1, <2>2, <2>3 DEF Statuses
    <2>5. \A t \in Threads : status'[t] = IF t = current THEN g ELSE status[t]
      BY <2>2, <2>3
    <2>6. status[current] = "Running"
      BY <1>1, <2>3 DEF ThreadsFit
    <2>7. \A t \in Threads : status'[t] = "Running" <=> t = current'
      BY <1>1, <2>1, <2>2, <2>5, ThreadsAssumption DEF ThreadsFit, ThreadsAssumption
    <2>8. ToSet(ready) = {t \in Threads : status'[t] = "Ready"}
      BY <1>1, <2>1, <2>5, <2>6 DEF ThreadsFit
    <2>9. \A t \in Threads : status'[t] = "Waiting" /\ wait[t].type = "VBlank"
                               => wait[t].left = Forever
      BY <1>1, <2>1, <2>5 DEF ThreadsFit
    <2>10. ThreadsFit(status, wait, ready, current)'
      BY <1>1, <2>2, <2>4, <2>7, <2>8, <2>9 DEF ThreadsFit
    <2>11. IntrFits'
      BY <2>2 DEF SchedInv, IntrFits, intrVars
    <2>12. ~Guest' /\ current' = NoThread
      BY <2>2 DEF Guest, intrVars
    <2>13. ClockFits'
      BY <2>2, <2>12 DEF SchedInv, ClockFits
    <2> QED BY <2>1, <2>2a, <2>3, <2>5, <2>10, <2>11, <2>12, <2>13
           DEF SchedInv, UrgentThreadRuns, StepFits, LosesCpuByRule
  <1>8. ASSUME NEW delete \in BOOLEAN, NEW t \in Threads, TerminateThread(t, delete)
        PROVE  StepFits
    <2> DEFINE g == Gone(delete)
               rdy == Drop(ready, {t})
               st == [status EXCEPT ![t] = g]
    <2>1. g \in {"Dormant", "Deleted"}
      BY DEF Gone
    <2>2. CallsFit'
      <3>1. waiters' \in [Objects -> Seq(Threads \cup {NoThread})]
        BY <1>1, <1>8, DequeuedFit DEF TerminateThread
      <3> QED BY <1>1, <1>8, <3>1 DEF TerminateThread, CallsFit
    <2>3. /\ vblankLeft' = vblankLeft /\ Guest /\ t # current
          /\ Finish(st, wait, rdy)
      BY <1>8 DEF TerminateThread
    <2> HIDE DEF g, rdy, st
    <2>4. ThreadsFit(st, wait, rdy, current) /\ Timely(st, wait)
      <3>1. Timely(status, wait)
        BY <1>2, <2>3
      <3>2. t # current
        BY <2>3
      <3> QED BY <1>1, <2>1, <3>1, <3>2, TerminatedFit DEF rdy, st
    <2> QED BY <2>2, <2>3, <2>4, FinishFit
  <1>9. ASSUME NEW t \in Threads, NEW p \in Priorities, ChangePriority(t, p)
        PROVE  StepFits
    <2>1. CallsFit'
      <3>1. prio' \in [Threads -> Priorities]
        BY <1>1, <1>9 DEF ChangePriority, CallsFit
      <3> QED BY <1>1, <1>9, <3>1 DEF ChangePriority, CallsFit
    <2>2. vblankLeft' = vblankLeft /\ Guest
      BY <1>9 DEF ChangePriority
    <2> DEFINE rdy == IF status[t] = "Ready" THEN Append(Drop(ready, {t}), t) ELSE ready
    <2>3. ThreadsFit(status, wait, rdy, current)
      BY <1>1, RequeuedFit
    <2>4. Finish(status, wait, rdy)
      BY <1>9 DEF ChangePriority
    <2> HIDE DEF rdy
    <2> QED BY <1>2, <2>1, <2>2, <2>3, <2>4, FinishFit
  <1>10. CASE SleepThread
    <2>1. vblankLeft' = vblankLeft /\ Guest
      BY <1>10 DEF SleepThread, WaitCaller
    <2>2. CASE /\ current # NoThread /\ wakeups[current] > 0
               /\ wakeups' = [wakeups EXCEPT ![current] = @ - 1]
               /\ Finish(status, wait, ready)
      <3>1. current \in Threads /\ wakeups[current] \in Nat
        BY <1>1, <2>2 DEF ThreadsFit, CallsFit
      <3>2. wakeups' \in [Threads -> Nat]
        BY <1>1, <2>2, <3>1 DEF CallsFit
      <3>3. CallsFit'
        BY <1>1, <1>10, <3>2 DEF SleepThread, CallsFit
      <3> QED BY <1>1, <1>2, <2>1, <2>2, <3>3, FinishFit
    <2>3. CASE UNCHANGED wakeups /\ Block(Wait("Sleep", Forever))
      <3>1. CallsFit'
        BY <1>1, <1>10, <2>3 DEF SleepThread, CallsFit
      <3> DEFINE w == Wait("Sleep", Forever)
      <3>2. w \in WaitStates
        BY WaitFacts DEF WaitTypes
      <3>3. w.left # 0 /\ w.type # "VBlank" /\ Block(w)
        BY <2>3 DEF Wait, Forever
      <3> HIDE DEF w
      <3> QED BY <2>1, <3>1, <3>2, <3>3, BlockFit
    <2> QED BY <1>10, <2>2, <2>3 DEF SleepThread
  <1>11. ASSUME NEW t \in Threads, WakeupThread(t) PROVE StepFits
    <2>1. vblankLeft' = vblankLeft /\ Guest
      BY <1>11 DEF WakeupThread
    <2>2. CASE /\ status[t] = "Waiting" /\ UNCHANGED wakeups
               /\ WakeAndFinish(<<t>>)
      <3>1. CallsFit'
        BY <1>1, <1>11, <2>2 DEF WakeupThread, CallsFit
      <3> QED BY <2>1, <2>2, <3>1, WokenOneFit
    <2>3. CASE /\ wakeups' = [wakeups EXCEPT ![t] = @ + 1]
               /\ Finish(status, wait, ready)
      <3>1. wakeups' \in [Threads -> Nat]
        BY <1>1, <2>3 DEF CallsFit
      <3>2. CallsFit'
        BY <1>1, <1>11, <3>1 DEF WakeupThread, CallsFit
      <3> QED BY <1>1, <1>2, <2>1, <2>3, <3>2, FinishFit
    <2> QED BY <1>11, <2>2, <2>3 DEF WakeupThread
  <1>12. ASSUME NEW d \in Delays, DelayThread(d) PROVE StepFits
    <2>1. CallsFit' /\ vblankLeft' = vblankLeft /\ Guest
      BY <1>1, <1>12 DEF DelayThread, WaitCaller, CallsFit
    <2> DEFINE w == Wait("Delay", d)
    <2>2. d \in Nat /\ d # 0
      BY <1>12, TimeAssumption DEF DelayThread, TimeAssumption
    <2>3. w \in WaitStates
      BY <2>2, WaitFacts DEF WaitTypes
    <2>4. w.left # 0 /\ w.type # "VBlank" /\ Block(w)
      BY <1>12, <2>2 DEF Wait, DelayThread
    <2> HIDE DEF w
    <2> QED BY <2>1, <2>3, <2>4, BlockFit
  <1>13. CASE WaitVBlank
    <2>1. CallsFit' /\ vblankLeft' = vblankLeft /\ Guest
      BY <1>1, <1>13 DEF WaitVBlank, WaitCaller, CallsFit
    <2> DEFINE w == Wait("VBlank", Forever)
    <2>2. w \in WaitStates
      BY WaitFacts DEF WaitTypes
    <2>3. w.left # 0 /\ w.left = Forever /\ Block(w)
      BY <1>13 DEF Wait, Forever, WaitVBlank
    <2> HIDE DEF w
    <2> QED BY <2>1, <2>2, <2>3, BlockFit
  <1>14. ASSUME NEW d \in Delays \cup {Forever}, WaitHost(d)
         PROVE  StepFits
    <2>1. CallsFit' /\ vblankLeft' = vblankLeft /\ Guest
      BY <1>1, <1>14 DEF WaitHost, WaitCaller, CallsFit
    <2>2. CASE Finish(status, wait, ready)
      BY <1>1, <1>2, <2>1, <2>2, FinishFit
    <2>3. CASE d # 0 /\ Block(Wait("Host", d))
      <3> DEFINE w == Wait("Host", d)
      <3>1. d \in Nat \cup {Forever}
        BY TimeAssumption DEF TimeAssumption
      <3>2. w \in WaitStates
        BY <3>1, WaitFacts DEF WaitTypes
      <3>3. w.left # 0 /\ w.type # "VBlank" /\ Block(w)
        BY <2>3 DEF Wait
      <3> HIDE DEF w
      <3> QED BY <2>1, <3>2, <3>3, BlockFit
    <2> QED BY <1>14, <2>2, <2>3 DEF WaitHost
  <1>15. ASSUME NEW enabled \in BOOLEAN, SetDispatch(enabled) \/ SetInterrupts(enabled)
         PROVE  StepFits
    <2>1. CallsFit' /\ vblankLeft' = vblankLeft /\ Guest
      BY <1>1, <1>15 DEF SetDispatch, SetInterrupts, CallsFit
    <2>2. Finish(status, wait, ready)
      BY <1>15 DEF SetDispatch, SetInterrupts
    <2> QED BY <1>1, <1>2, <2>1, <2>2, FinishFit
  <1> QED BY <1>3, <1>4, <1>5, <1>6, <1>7, <1>8, <1>9, <1>10, <1>11, <1>12,
             <1>13, <1>14, <1>15 DEF ThreadCalls

-----------------------------------------------------------------------------
(* Time.                                                                   *)

(* Time passes, and nobody is taken past a deadline. *)
LEMMA AgedFit ==
  ASSUME NEW cur, ThreadsFit(status, wait, ready, cur), NEW d \in Nat,
         \A t \in Threads :
           status[t] = "Waiting" /\ wait[t].left # Forever => d <= wait[t].left
  PROVE  /\ ThreadsFit(status, Aged(d), ready, cur)
         /\ \A t \in Threads : Aged(d)[t].type = wait[t].type
  <1> DEFINE wt == Aged(d)
  <1>1. wait \in [Threads -> WaitStates]
    BY DEF ThreadsFit
  <1>2. ASSUME NEW t \in Threads
        PROVE  /\ wt[t] \in WaitStates /\ wt[t].type = wait[t].type
               /\ wait[t].left = Forever => wt[t] = wait[t]
    <2>1. wait[t] \in WaitStates
      BY <1>1
    <2>2. CASE status[t] = "Waiting" /\ wait[t].left # Forever
      <3>1. wt[t] = [wait[t] EXCEPT !.left = @ - d]
        BY <2>2 DEF Aged
      <3>2. d <= wait[t].left
        BY <2>2
      <3> HIDE DEF wt
      <3> QED BY <2>1, <2>2, <3>1, <3>2, WaitFacts
    <2>3. CASE ~(status[t] = "Waiting" /\ wait[t].left # Forever)
      BY <2>1, <2>3 DEF Aged
    <2> QED BY <2>2, <2>3
  <1>3. wt \in [Threads -> WaitStates]
    BY <1>2 DEF Aged
  <1> HIDE DEF wt
  <1>4. \A t \in Threads : status[t] = "Waiting" /\ wt[t].type = "VBlank"
                             => wt[t].left = Forever
    BY <1>2 DEF ThreadsFit
  <1>5. ThreadsFit(status, wt, ready, cur)
    BY <1>3, <1>4 DEF ThreadsFit
  <1> QED BY <1>2, <1>5 DEF wt

(* process_timers leaves nobody behind a deadline. *)
LEMMA TimersFit ==
  ASSUME NEW wt, NEW cur, ThreadsFit(status, wt, ready, cur),
         \A t \in Threads : wt[t].type = wait[t].type,
         NEW vb, NEW answered \in SUBSET HostWaiters,
         NEW order \in WakeOrders(vb, Overdue(wt) \cup answered)
  PROVE  LET woken == VBlankWoken(vb) \cup (Overdue(wt) \cup answered)
         IN /\ ThreadsFit(MadeReady(status, woken), NotWaiting(wt, woken),
                          ready \o order, cur)
            /\ Timely(MadeReady(status, woken), NotWaiting(wt, woken))
  <1> DEFINE due == Overdue(wt) \cup answered
             woken == VBlankWoken(vb) \cup due
  <1>1. due \in SUBSET Threads /\ \A t \in woken : status[t] = "Waiting"
    BY DEF Overdue, HostWaiters, VBlankWoken
  <1>2. VBlankWoken(vb) \cap due = {}
    <2> SUFFICES ASSUME NEW t \in VBlankWoken(vb), t \in due PROVE FALSE
      OBVIOUS
    <2>1. t \in Threads /\ status[t] = "Waiting" /\ wait[t].type = "VBlank"
      BY DEF VBlankWoken
    <2>2. wt[t].left = Forever
      BY <2>1 DEF ThreadsFit
    <2>3. t \notin Overdue(wt)
      BY <2>2 DEF Overdue, Forever
    <2>4. t \notin answered
      BY <2>1 DEF HostWaiters
    <2> QED BY <2>3, <2>4
  <1>3. Overdue(wt) \subseteq due
    OBVIOUS
  <1> HIDE DEF due
  <1>4. /\ order \in Seq(Threads) /\ IsInjective(order)
        /\ ToSet(order) = woken
    BY <1>1, <1>2, WakeOrdersFacts DEF due
  <1> HIDE DEF woken
  <1>5. \A t \in ToSet(order) : status[t] \notin {"Ready", "Running"}
    BY <1>1, <1>4
  <1>6. ThreadsFit(MadeReady(status, ToSet(order)), NotWaiting(wt, ToSet(order)),
                   ready \o order, cur)
    BY <1>4, <1>5, WokenFit
  <1>7. Timely(MadeReady(status, woken), NotWaiting(wt, woken))
    <2> SUFFICES ASSUME NEW t \in Threads,
                        MadeReady(status, woken)[t] = "Waiting",
                        NotWaiting(wt, woken)[t].left = 0
                 PROVE  FALSE
      BY DEF Timely
    <2>1. t \notin woken /\ status[t] = "Waiting"
      BY DEF MadeReady
    <2>2. wt[t].left = 0
      BY <2>1 DEF NotWaiting
    <2>3. t \in Overdue(wt)
      BY <2>1, <2>2 DEF Overdue
    <2> QED BY <1>3, <2>1, <2>3 DEF woken
  <1> QED BY <1>4, <1>6, <1>7 DEF woken, due

(* on_vblank queues at most one call and respects the bound. *)
LEMMA PendingFit ==
  ASSUME IntrFits, NEW vb
  PROVE  PendingAfter(vb) \in 0..MaxPending
  BY TimeAssumption DEF IntrFits, PendingAfter, TimeAssumption

(* preempt_at_boundary of on_starvation. *)
LEMMA PreemptFit ==
  ASSUME NEW st, NEW wt, NEW rdy, SchedInv, ~active, current \in Threads,
         ThreadsFit(st, wt, rdy, current), Timely(st, wt),
         NEW pend \in 0..MaxPending, CallsFit', vblankLeft' \in 1..VBlankPeriod,
         Preempt(st, wt, rdy, pend)
  PROVE  StepFits
  <1>1. vblankLeft' \in 0..VBlankPeriod /\ vblankLeft' > 0
    BY TimeAssumption DEF TimeAssumption
  <1>2. idleVBlanks \in 0..IdleVBlankLimit + 1
    BY DEF SchedInv, ClockFits
  <1>3. CASE intr /\ pend > 0 /\ Keep(st, wt, rdy) /\ BeginInterrupt(pend, FALSE)
    <2>1. ThreadsFit(status, wait, ready, current)'
      BY <1>3, KeepFit
    <2>2. IntrFits' /\ active'
      BY <1>3, BeginFit
    <2>3. status' = st /\ wait' = wt /\ idleVBlanks' = idleVBlanks /\ current' = current
      BY <1>3 DEF Keep
    <2>4. ClockFits'
      BY <1>1, <1>2, <2>3 DEF ClockFits, Timely
    <2> QED BY <2>1, <2>2, <2>3, <2>4
           DEF SchedInv, UrgentThreadRuns, StepFits, LosesCpuByRule
  <1>4. CASE /\ Reschedule(st, wt, rdy, TRUE)
             /\ pending' = pend /\ UNCHANGED <<active, idleIntr>>
    <2>1. prio' \in [Threads -> Priorities]
      BY DEF CallsFit
    <2>2. /\ ThreadsFit(status, wait, ready, current)'
          /\ dispatch' => \A t \in ToSet(ready') : prio'[t] >= prio'[current']
          /\ \A t \in Threads : status'[t] = "Waiting" <=> st[t] = "Waiting"
          /\ \A t \in Threads : st[t] = "Waiting" => wait'[t] = wt[t]
          /\ idleVBlanks' \in {0, idleVBlanks} /\ LosesCpuByRule
      BY <1>4, <2>1, RescheduleFit
    <2>3. IntrFits'
      <3>1. active' \in BOOLEAN /\ idleIntr' \in BOOLEAN
        BY <1>4, Zenon DEF SchedInv, IntrFits
      <3> QED BY <1>4, <3>1, Zenon DEF IntrFits
    <2>4. Timely(status, wait)'
      BY <2>2 DEF Timely
    <2>5. idleVBlanks' \in 0..IdleVBlankLimit + 1
      BY <1>2, <2>2, TimeAssumption DEF TimeAssumption
    <2>6. ClockFits'
      BY <1>1, <2>4, <2>5 DEF ClockFits
    <2>7. UrgentThreadRuns'
      BY <2>2, UrgentFromQueue
    <2> QED BY <2>2, <2>3, <2>6, <2>7 DEF SchedInv, StepFits
  <1> QED BY <1>3, <1>4 DEF Preempt

(* on_starvation. *)
LEMMA StarvationStep ==
  ASSUME SchedInv, Starvation
  PROVE  StepFits
  <1>1. /\ ~active /\ current \in Threads /\ Guest
        /\ ThreadsFit(status, wait, ready, current)
        /\ Timely(status, wait)
    BY DEF SchedInv, Starvation, ThreadsFit, ClockFits, Guest
  <1>2. vblankLeft \in 1..VBlankPeriod
    BY <1>1, TimeAssumption DEF SchedInv, ClockFits, TimeAssumption
  <1> DEFINE wt == Aged(1)
             vb == vblankLeft - 1
             due(answered) == Overdue(wt) \cup answered
             woken(answered) == VBlankWoken(vb) \cup due(answered)
             pend == PendingAfter(vb)
  <1>3. PICK answered \in SUBSET HostWaiters :
          /\ TimersProcessed(vb, due(answered))
          /\ \E order \in WakeOrders(vb, due(answered)) :
               Preempt(MadeReady(status, woken(answered)),
                       NotWaiting(wt, woken(answered)), ready \o order, pend)
    BY DEF Starvation
  <1>4. PICK order \in WakeOrders(vb, due(answered)) :
          Preempt(MadeReady(status, woken(answered)),
                  NotWaiting(wt, woken(answered)), ready \o order, pend)
    BY <1>3
  <1>5. \A t \in Threads :
          status[t] = "Waiting" /\ wait[t].left # Forever => 1 <= wait[t].left
    <2> SUFFICES ASSUME NEW t \in Threads, status[t] = "Waiting",
                        wait[t].left # Forever
                 PROVE  1 <= wait[t].left
      OBVIOUS
    <2>1. wait[t].left \in Nat \cup {Forever} /\ wait[t].left # 0
      BY <1>1, WaitFacts DEF ThreadsFit, Timely
    <2> QED BY <2>1
  <1>6. /\ ThreadsFit(status, wt, ready, current)
        /\ \A t \in Threads : wt[t].type = wait[t].type
    BY <1>1, <1>5, AgedFit
  <1>7. pend \in 0..MaxPending
    BY PendingFit DEF SchedInv
  <1>8. vblankLeft' \in 1..VBlankPeriod
    BY <1>2, <1>3, TimeAssumption DEF TimersProcessed, TimeAssumption
  <1>9. CallsFit'
    <2>1. waiters' \in [Objects -> Seq(Threads \cup {NoThread})]
      BY <1>3, DequeuedFit DEF TimersProcessed, SchedInv
    <2> QED BY <2>1 DEF Starvation, SchedInv, CallsFit
  <1> HIDE DEF wt, vb, pend
  <1>10. /\ ThreadsFit(MadeReady(status, woken(answered)),
                       NotWaiting(wt, woken(answered)), ready \o order, current)
         /\ Timely(MadeReady(status, woken(answered)), NotWaiting(wt, woken(answered)))
    BY <1>6, TimersFit
  <1> HIDE DEF woken
  <1> QED BY <1>1, <1>4, <1>7, <1>8, <1>9, <1>10, PreemptFit

(* The loop in schedule(), one turn. *)
LEMMA ScheduleStep ==
  ASSUME SchedInv, Schedule
  PROVE  StepFits
  <1>1. /\ ~active /\ current = NoThread
        /\ ThreadsFit(status, wait, ready, NoThread)
        /\ UNCHANGED <<prio, wakeups, dispatch, intr>>
    BY DEF SchedInv, Schedule
  <1>2. vblankLeft \in 0..VBlankPeriod /\ idleVBlanks \in 0..IdleVBlankLimit + 1
        /\ (vblankLeft = 0 => idleVBlanks <= IdleVBlankLimit)
    BY DEF SchedInv, ClockFits
  <1> DEFINE due(answered) == Overdue(wait) \cup answered
             woken(answered) == VBlankWoken(vblankLeft) \cup due(answered)
             pend == PendingAfter(vblankLeft)
             idle == IdleAfter(vblankLeft)
             vb == IF vblankLeft = 0 THEN VBlankPeriod ELSE vblankLeft
             Begins(st, wt, rdy) ==
               /\ intr /\ pend > 0
               /\ BeginInterrupt(pend, TRUE)
               /\ status' = st /\ wait' = wt /\ ready' = rdy
               /\ idleVBlanks' = idle /\ vblankLeft' = vb
               /\ UNCHANGED <<current, stopped>>
             Switches(st, wt, rdy) ==
               /\ ~(intr /\ pend > 0)
               /\ \E i \in DOMAIN rdy : IsBest(rdy, i) /\ SwitchTo(st, wt, rdy, i)
               /\ pending' = pend /\ vblankLeft' = vb
               /\ UNCHANGED <<active, idleIntr, stopped>>
             Idles(st, wt, rdy) ==
               /\ ~(intr /\ pend > 0) /\ rdy = << >>
               /\ pending' = pend /\ idleVBlanks' = idle
               /\ status' = st /\ ready' = rdy
               /\ UNCHANGED <<active, idleIntr, current>>
               /\ \/ /\ idle > IdleVBlankLimit
                     /\ stopped' = TRUE
                     /\ wait' = wt /\ vblankLeft' = vb
                  \/ /\ idle <= IdleVBlankLimit
                     /\ UNCHANGED stopped
                     /\ \E d \in {vb} \cup EventTimes :
                          /\ \A e \in {vb} \cup EventTimes : d <= e
                          /\ wait' = Aged(d)
                          /\ vblankLeft' = vb - d
             Turn(st, wt, rdy) ==
               Begins(st, wt, rdy) \/ Switches(st, wt, rdy) \/ Idles(st, wt, rdy)
  <1>3. PICK answered \in SUBSET HostWaiters :
          /\ waiters' = Dequeued(due(answered))
          /\ \E order \in WakeOrders(vblankLeft, due(answered)) :
               Turn(MadeReady(status, woken(answered)),
                    NotWaiting(wait, woken(answered)), ready \o order)
    BY DEF Schedule
  <1>3a. PICK order \in WakeOrders(vblankLeft, due(answered)) :
           Turn(MadeReady(status, woken(answered)),
                NotWaiting(wait, woken(answered)), ready \o order)
    BY <1>3
  <1> DEFINE W == woken(answered)
             st == MadeReady(status, W)
             wt == NotWaiting(wait, W)
             rdy == ready \o order
  <1>4. Begins(st, wt, rdy) \/ Switches(st, wt, rdy) \/ Idles(st, wt, rdy)
    BY <1>3a
  <1>5. waiters' \in [Objects -> Seq(Threads \cup {NoThread})]
    BY <1>3, DequeuedFit DEF SchedInv
  <1>6. ThreadsFit(st, wt, rdy, NoThread) /\ Timely(st, wt)
    BY <1>1, TimersFit
  <1>7. pend \in 0..MaxPending
    BY PendingFit DEF SchedInv
  <1>8. vb \in 1..VBlankPeriod
    BY <1>2, TimeAssumption DEF TimeAssumption
  <1>9. idle \in 0..IdleVBlankLimit + 1
    BY <1>2, TimeAssumption DEF TimeAssumption, IdleAfter
  <1>10. W \subseteq Threads
    BY DEF VBlankWoken, Overdue, HostWaiters
  <1>11. stopped' \in BOOLEAN => CallsFit'
    BY <1>1, <1>5 DEF SchedInv, CallsFit
  <1>12. stopped \in BOOLEAN /\ idleIntr \in BOOLEAN /\ active \in BOOLEAN
    BY DEF SchedInv, CallsFit, IntrFits
  <1> HIDE DEF W, pend, idle, vb, rdy, st, wt
  <1>13. CASE Begins(st, wt, rdy)
    <2>1. IntrFits' /\ active'
      BY <1>7, <1>13, BeginFit
    <2>2. ThreadsFit(status, wait, ready, current)'
      BY <1>1, <1>6, <1>13
    <2>3. Timely(status, wait)'
      BY <1>6, <1>13 DEF Timely
    <2>4. ClockFits'
      BY <1>8, <1>9, <1>13, <2>3, TimeAssumption DEF ClockFits, TimeAssumption
    <2>5. CallsFit'
      BY <1>11, <1>12, <1>13
    <2> QED BY <1>1, <2>1, <2>2, <2>4, <2>5
           DEF SchedInv, UrgentThreadRuns, StepFits, LosesCpuByRule
  <1>14. CASE Switches(st, wt, rdy)
    <2>1. PICK i \in DOMAIN rdy : IsBest(rdy, i) /\ SwitchTo(st, wt, rdy, i)
      BY <1>14
    <2>2. /\ ThreadsFit(status, wait, ready, current)'
          /\ current' = rdy[i] /\ current' \in Threads
          /\ ToSet(ready') = ToSet(rdy) \ {rdy[i]}
          /\ \A t \in Threads : t # rdy[i] => status'[t] = st[t]
      BY <1>6, <2>1, SwitchFit
    <2>3. wait' = wt /\ idleVBlanks' = 0
      BY <2>1 DEF SwitchTo
    <2>4. Timely(status, wait)'
      <3>1. status'[rdy[i]] = "Running"
        BY <2>2 DEF ThreadsFit
      <3>2. \A t \in Threads : status'[t] = "Waiting" => st[t] = "Waiting"
        BY <2>2, <3>1
      <3> QED BY <1>6, <2>3, <3>2 DEF Timely
    <2>5. ClockFits'
      BY <1>8, <1>14, <2>3, <2>4, TimeAssumption DEF ClockFits, TimeAssumption
    <2>6. IntrFits'
      <3>1. active' \in BOOLEAN /\ idleIntr' \in BOOLEAN
        BY <1>12, <1>14, Zenon
      <3> QED BY <1>7, <1>14, <3>1, Zenon DEF IntrFits
    <2>7. CallsFit'
      BY <1>11, <1>12, <1>14
    <2>8. UrgentThreadRuns'
      <3>1. prio' \in [Threads -> Priorities] /\ rdy \in Seq(Threads)
        BY <1>6, <2>7 DEF CallsFit, ThreadsFit
      <3>2. \A t \in Threads : prio'[t] \in Int
        <4>1. \A p \in Priorities : p \in Int
          BY ThreadsAssumption DEF ThreadsAssumption
        <4> QED BY <3>1, <4>1
      <3>3. ASSUME NEW t \in ToSet(rdy) PROVE prio'[t] >= prio'[rdy[i]]
        <4>1. PICK j \in DOMAIN rdy : t = rdy[j]
          BY <3>3 DEF ToSet
        <4>2. prio'[rdy[i]] < prio'[rdy[j]] \/ prio'[rdy[i]] = prio'[rdy[j]]
          BY <2>1 DEF IsBest
        <4>3. rdy[i] \in Threads /\ rdy[j] \in Threads
          BY <3>1
        <4> QED BY <3>2, <4>1, <4>2, <4>3
      <3> QED BY <2>2, <3>3, UrgentFromQueue
    <2> QED BY <1>1, <2>2, <2>5, <2>6, <2>7, <2>8 DEF SchedInv, StepFits, LosesCpuByRule
  <1>15. CASE Idles(st, wt, rdy)
    <2>1. /\ current' = NoThread /\ active' = active /\ ~Guest'
      BY <1>1, <1>15 DEF Guest
    <2>2. IntrFits'
      <3>1. active' \in BOOLEAN /\ idleIntr' \in BOOLEAN
        BY <1>12, <1>15, Zenon
      <3> QED BY <1>7, <1>15, <3>1, Zenon DEF IntrFits
    <2>3. CASE idle > IdleVBlankLimit /\ stopped' = TRUE /\ wait' = wt /\ vblankLeft' = vb
      <3>1. ThreadsFit(status, wait, ready, current)'
        BY <1>6, <1>15, <2>1, <2>3
      <3>2. ClockFits'
        BY <1>8, <1>9, <1>15, <2>1, <2>3, TimeAssumption DEF ClockFits, TimeAssumption
      <3>3. CallsFit'
        BY <1>11, <2>3
      <3> QED BY <1>1, <2>1, <2>2, <3>1, <3>2, <3>3
           DEF SchedInv, UrgentThreadRuns, StepFits, LosesCpuByRule
    <2>4. ASSUME idle <= IdleVBlankLimit, UNCHANGED stopped,
                 NEW d \in {vb} \cup EventTimes,
                 \A e \in {vb} \cup EventTimes : d <= e,
                 wait' = Aged(d), vblankLeft' = vb - d
          PROVE  StepFits
      <3>1. W = {}
        <4>1. ToSet(rdy) = {t \in Threads : st[t] = "Ready"}
          BY <1>6 DEF ThreadsFit
        <4>2. ToSet(rdy) = {}
          BY <1>15 DEF ToSet
        <4>3. \A t \in W : st[t] = "Ready"
          BY <1>10 DEF st, MadeReady
        <4> QED BY <1>10, <4>1, <4>2, <4>3
      <3>2. status \in [Threads -> Statuses]
        BY <1>1 DEF ThreadsFit
      <3>3. st = status
        BY <3>1, <3>2 DEF st, MadeReady
      <3>4. ready = << >> /\ ready' = ready
        <4>1. ready \in Seq(Threads) /\ ToSet(rdy) = {t \in Threads : st[t] = "Ready"}
              /\ ToSet(ready) = {t \in Threads : status[t] = "Ready"}
          BY <1>1, <1>6 DEF ThreadsFit
        <4>2. ToSet(ready) = {}
          BY <1>15, <3>3, <4>1 DEF ToSet
        <4>3. ready = << >>
          BY <4>1, <4>2, EmptySeq DEF ToSet
        <4> QED BY <1>15, <4>3
      <3>5. ASSUME NEW t \in Threads, status[t] = "Waiting", wait[t].left # Forever
            PROVE  wait[t].left \in EventTimes /\ wait[t].left \in Nat
        <4>1. wait[t].left \in Nat \cup {Forever}
          BY <1>1, WaitFacts DEF ThreadsFit
        <4> QED BY <3>5, <4>1 DEF EventTimes
      <3>6. d \in Nat
        <4>1. \A e \in EventTimes : e \in Nat
          <5> SUFFICES ASSUME NEW e \in EventTimes PROVE e \in Nat
            OBVIOUS
          <5>1. e = 1 \/ \E t \in Threads : /\ status[t] = "Waiting"
                                            /\ wait[t].left # Forever
                                            /\ e = wait[t].left
            BY DEF EventTimes
          <5> QED BY <3>5, <5>1
        <4> QED BY <1>8, <4>1
      <3>7. \A t \in Threads :
              status[t] = "Waiting" /\ wait[t].left # Forever => d <= wait[t].left
        BY <2>4, <3>5
      <3>8. ThreadsFit(status, Aged(d), ready, NoThread)
        BY <1>1, <3>6, <3>7, AgedFit
      <3>9. ThreadsFit(status, wait, ready, current)'
        BY <1>15, <2>1, <2>4, <3>3, <3>4, <3>8
      <3>10. vblankLeft' \in 0..VBlankPeriod
        BY <1>8, <2>4, <3>6, TimeAssumption DEF TimeAssumption
      <3>11. ClockFits'
        BY <1>9, <1>15, <2>1, <2>4, <3>10 DEF ClockFits
      <3>12. CallsFit'
        BY <1>11, <1>12, <2>4
      <3> QED BY <1>1, <2>1, <2>2, <3>9, <3>11, <3>12
           DEF SchedInv, UrgentThreadRuns, StepFits, LosesCpuByRule
    <2> QED BY <1>15, <2>3, <2>4
  <1> QED BY <1>4, <1>13, <1>14, <1>15

(* interrupt_return. *)
LEMMA InterruptReturnStep ==
  ASSUME SchedInv, InterruptReturn
  PROVE  StepFits
  <1>1. /\ ThreadsFit(status, wait, ready, current) /\ CallsFit /\ Guest
        /\ vblankLeft' = vblankLeft /\ vblankLeft \in 0..VBlankPeriod
        /\ vblankLeft > 0 /\ Timely(status, wait)
        /\ idleVBlanks \in 0..IdleVBlankLimit + 1
    BY DEF SchedInv, InterruptReturn, ClockFits, Guest
  <1>2. CallsFit'
    BY <1>1 DEF InterruptReturn, CallsFit
  <1>3. active \in BOOLEAN /\ idleIntr \in BOOLEAN /\ pending \in 0..MaxPending
    BY DEF SchedInv, IntrFits
  <1>4. ASSUME Keep(status, wait, ready)
        PROVE  /\ ThreadsFit(status, wait, ready, current)' /\ ClockFits'
               /\ LosesCpuByRule
    <2>1. ThreadsFit(status, wait, ready, current)'
      BY <1>1, <1>4, KeepFit
    <2>2. /\ status' = status /\ wait' = wait
          /\ idleVBlanks' = idleVBlanks /\ current' = current
      BY <1>4 DEF Keep
    <2>3. ClockFits'
      BY <1>1, <2>2 DEF ClockFits, Timely
    <2> QED BY <2>1, <2>2, <2>3 DEF LosesCpuByRule
  <1>5. CASE pending > 0 /\ BeginInterrupt(pending, idleIntr) /\ Keep(status, wait, ready)
    <2>1. IntrFits' /\ active'
      BY <1>3, <1>5, BeginFit
    <2> QED BY <1>2, <1>4, <1>5, <2>1
           DEF SchedInv, UrgentThreadRuns, StepFits, LosesCpuByRule
  <1>6. CASE /\ current = NoThread /\ active' = FALSE /\ idleIntr' = FALSE
             /\ UNCHANGED pending /\ Keep(status, wait, ready)
    <2>1. IntrFits'
      <3>1. active' \in BOOLEAN /\ idleIntr' \in BOOLEAN
        BY <1>6, Zenon
      <3> QED BY <1>3, <1>6, <3>1, Zenon DEF IntrFits
    <2>2. current' = NoThread
      BY <1>6 DEF Keep
    <2> QED BY <1>2, <1>4, <1>6, <2>1, <2>2
           DEF SchedInv, UrgentThreadRuns, StepFits, LosesCpuByRule
  <1>7. CASE /\ current # NoThread /\ active' = FALSE
             /\ UNCHANGED <<pending, idleIntr>>
             /\ Reschedule(status, wait, ready, FALSE)
    <2>1. IntrFits'
      <3>1. active' \in BOOLEAN /\ idleIntr' \in BOOLEAN
        BY <1>3, <1>7, Zenon
      <3> QED BY <1>3, <1>7, <3>1, Zenon DEF IntrFits
    <2>2. current \in Threads /\ prio' \in [Threads -> Priorities]
      BY <1>1, <1>2, <1>7 DEF ThreadsFit, CallsFit
    <2>3. /\ ThreadsFit(status, wait, ready, current)'
          /\ dispatch' => \A t \in ToSet(ready') : prio'[t] >= prio'[current']
          /\ \A t \in Threads : status'[t] = "Waiting" <=> status[t] = "Waiting"
          /\ \A t \in Threads : status[t] = "Waiting" => wait'[t] = wait[t]
          /\ idleVBlanks' \in {0, idleVBlanks} /\ LosesCpuByRule
      BY <1>1, <1>7, <2>2, RescheduleFit
    <2>4. Timely(status, wait)'
      BY <1>1, <2>3 DEF Timely
    <2>5. idleVBlanks' \in 0..IdleVBlankLimit + 1
      BY <1>1, <2>3, TimeAssumption DEF TimeAssumption
    <2>6. ClockFits'
      BY <1>1, <2>4, <2>5 DEF ClockFits
    <2>7. UrgentThreadRuns'
      BY <2>3, UrgentFromQueue
    <2> QED BY <1>2, <2>1, <2>3, <2>6, <2>7 DEF SchedInv, StepFits
  <1> QED BY <1>5, <1>6, <1>7 DEF InterruptReturn

-----------------------------------------------------------------------------
(* Which waits go on.                                                      *)

(* Threads that are neither ready nor running after a handler is through   *)
(* with them are what it left them, whatever switch follows.               *)
Runnable == {"Ready", "Running"}
Settled(st, wt) ==
  \A t \in Threads :
    IF st[t] \in Runnable THEN status'[t] \in Runnable
    ELSE status'[t] = st[t] /\ wait'[t] = wt[t]

(* A wait for something else than an object begins: only the current thread *)
(* starts one, and no thread goes to sleep on a wakeup.                     *)
FreshWait(t) ==
  /\ t = current
  /\ wait'[t].type # "Object"
  /\ wait'[t].left \in Delays \cup {Forever}
  /\ wait'[t].type = "Sleep" => wakeups'[t] = 0

(* The waits of E end, and the threads of D leave the queues they stood in; *)
(* the others wait on, as wt says.  A wait for an object that has no        *)
(* deadline ends here only with its thread.                                 *)
EndsWaits(E, D, wt) ==
  /\ D \subseteq E /\ E \subseteq Waiting
  /\ \A t \in E :
       /\ status'[t] # "Waiting"
       /\ wait[t].type = "Object" =>
            /\ t \in D
            /\ wait[t].left = Forever => status'[t] \in {"Dormant", "Deleted"}
  /\ \A t \in Waiting \ E :
       /\ status'[t] = "Waiting" /\ wait'[t] = wt[t]
       /\ wait[t].type = "Sleep" => wakeups'[t] = wakeups[t]
  /\ \A t \in Threads \ Waiting : status'[t] = "Waiting" => FreshWait(t)
  /\ waiters' = Dequeued(D) \/ (D = {} /\ waiters' = waiters)

(* The best ready thread gets the CPU. *)
LEMMA SwitchSettles ==
  ASSUME NEW st, NEW wt, NEW rdy, ThreadsFit(st, wt, rdy, NoThread),
         NEW i \in DOMAIN rdy, SwitchTo(st, wt, rdy, i)
  PROVE  Settled(st, wt)
  <1>1. /\ st \in [Threads -> Statuses] /\ rdy \in Seq(Threads)
        /\ ToSet(rdy) = {t \in Threads : st[t] = "Ready"}
    BY DEF ThreadsFit
  <1>2. rdy[i] \in Threads /\ st[rdy[i]] = "Ready"
    BY <1>1 DEF ToSet
  <1>3. status' = [st EXCEPT ![rdy[i]] = "Running"] /\ wait' = wt
    BY DEF SwitchTo
  <1> QED BY <1>1, <1>2, <1>3 DEF Settled, Runnable

(* The current thread goes on or gives way. *)
LEMMA RescheduleSettles ==
  ASSUME NEW st, NEW wt, NEW rdy, ThreadsFit(st, wt, rdy, current),
         current \in Threads, NEW tie \in BOOLEAN, Reschedule(st, wt, rdy, tie)
  PROVE  Settled(st, wt)
  <1>1. /\ st \in [Threads -> Statuses] /\ wt \in [Threads -> WaitStates]
        /\ rdy \in Seq(Threads) /\ st[current] = "Running"
        /\ ToSet(rdy) = {t \in Threads : st[t] = "Ready"}
    BY DEF ThreadsFit
  <1>2. CASE Keep(st, wt, rdy)
    BY <1>2 DEF Keep, Settled
  <1>3. ASSUME NEW i \in DOMAIN rdy,
               SwitchTo([st EXCEPT ![current] = "Ready"],
                        [wt EXCEPT ![current] = NoWait], Append(rdy, current), i)
        PROVE  Settled(st, wt)
    <2>1. Append(rdy, current)[i] = rdy[i] /\ rdy[i] \in Threads /\ st[rdy[i]] = "Ready"
      BY <1>1 DEF ToSet
    <2>2. /\ status' = [[st EXCEPT ![current] = "Ready"] EXCEPT ![rdy[i]] = "Running"]
          /\ wait' = [wt EXCEPT ![current] = NoWait]
      BY <1>3, <2>1 DEF SwitchTo
    <2> QED BY <1>1, <2>1, <2>2 DEF Settled, Runnable
  <1> QED BY <1>2, <1>3 DEF Reschedule

(* Kernel::finish. *)
LEMMA FinishSettles ==
  ASSUME NEW st, NEW wt, NEW rdy, Guest, ThreadsFit(st, wt, rdy, current),
         Finish(st, wt, rdy)
  PROVE  Settled(st, wt)
  <1>1. CASE Keep(st, wt, rdy)
    BY <1>1 DEF Keep, Settled
  <1>2. CASE ~active /\ Reschedule(st, wt, rdy, FALSE)
    <2>1. current \in Threads
      BY <1>2 DEF Guest, ThreadsFit
    <2> QED BY <1>2, <2>1, RescheduleSettles
  <1> QED BY <1>1, <1>2 DEF Finish

(* Nobody's wait ends or begins in a call that leaves the waits alone. *)
LEMMA NoWaitEnds ==
  ASSUME NEW st, Settled(st, wait), waiters' = waiters,
         \A t \in Threads : st[t] = "Waiting" <=> status[t] = "Waiting",
         \A t \in Waiting : wait[t].type = "Sleep" => wakeups'[t] = wakeups[t]
  PROVE  EndsWaits({}, {}, wait)
  <1>1. \A t \in Waiting : status'[t] = "Waiting" /\ wait'[t] = wait[t]
    BY DEF Settled, Runnable, Waiting
  <1>2. \A t \in Threads \ Waiting : status'[t] # "Waiting"
    BY DEF Settled, Runnable, Waiting
  <1> QED BY <1>1, <1>2 DEF EndsWaits

(* The threads of a sequence are woken by a call. *)
LEMMA WokenSettle ==
  ASSUME SchedInv, Guest, NEW order \in Seq(Threads), IsInjective(order),
         ToSet(order) \subseteq Waiting, WakeAndFinish(order)
  PROVE  Settled(MadeReady(status, ToSet(order)), NotWaiting(wait, ToSet(order)))
  <1>1. ThreadsFit(status, wait, ready, current)
    BY DEF SchedInv
  <1>2. \A t \in ToSet(order) : status[t] \notin {"Ready", "Running"}
    BY DEF Waiting
  <1> DEFINE st == MadeReady(status, ToSet(order))
             wt == NotWaiting(wait, ToSet(order))
             rdy == ready \o order
  <1>3. ThreadsFit(st, wt, rdy, current)
    BY <1>1, <1>2, WokenFit
  <1>4. Finish(st, wt, rdy)
    BY DEF WakeAndFinish
  <1> HIDE DEF st, wt, rdy
  <1>5. Settled(st, wt)
    BY <1>3, <1>4, FinishSettles
  <1> QED BY <1>5 DEF st, wt

(* The current thread begins to wait, or a handler is refused. *)
LEMMA BlockWaits ==
  ASSUME SchedInv, Guest, NEW w, w.type # "Object",
         w.left \in Delays \cup {Forever},
         w.type = "Sleep" /\ current # NoThread => wakeups[current] = 0,
         Block(w), wakeups' = wakeups, waiters' = waiters
  PROVE  EndsWaits({}, {}, wait)
  <1>1. CASE active /\ UNCHANGED <<status, wait, current>>
    BY <1>1 DEF EndsWaits, Waiting
  <1>2. CASE /\ ~active
             /\ status' = [status EXCEPT ![current] = "Waiting"]
             /\ wait' = [wait EXCEPT ![current] = w]
    <2>1. /\ current \in Threads /\ current # NoThread
          /\ status \in [Threads -> Statuses]
          /\ wait \in [Threads -> WaitStates] /\ status[current] = "Running"
      BY <1>2 DEF SchedInv, ThreadsFit, Guest
    <2>2. \A t \in Waiting : status'[t] = "Waiting" /\ wait'[t] = wait[t]
      BY <1>2, <2>1 DEF Waiting
    <2>3. \A t \in Threads \ Waiting : status'[t] = "Waiting" => t = current
      BY <1>2, <2>1 DEF Waiting
    <2>4. wait'[current] = w
      BY <1>2, <2>1
    <2>5. FreshWait(current)
      BY <2>1, <2>4 DEF FreshWait
    <2> QED BY <2>2, <2>3, <2>5 DEF EndsWaits
  <1> QED BY <1>1, <1>2 DEF Block

(* Every call of a guest thread or handler, as far as waits go. *)
LEMMA CallsWait ==
  ASSUME SchedInv, ThreadCalls
  PROVE  \E E, D \in SUBSET Threads : EndsWaits(E, D, wait)
  <1> DEFINE Goal == \E E, D \in SUBSET Threads : EndsWaits(E, D, wait)
  <1> SUFFICES Goal
    OBVIOUS
  <1>1. /\ ThreadsFit(status, wait, ready, current)
        /\ status \in [Threads -> Statuses]
    BY DEF SchedInv, ThreadsFit
  <1>2. ASSUME EndsWaits({}, {}, wait) PROVE Goal
    BY <1>2
  <1> HIDE DEF Goal
  <1>3. ASSUME Guest, Finish(status, wait, ready), wakeups' = wakeups, waiters' = waiters
        PROVE  Goal
    <2>1. Settled(status, wait)
      BY <1>1, <1>3, FinishSettles
    <2> QED BY <1>2, <1>3, <2>1, NoWaitEnds
  <1>4. CASE PlainCall
    BY <1>3, <1>4 DEF PlainCall
  <1>5. ASSUME NEW t \in Threads, NEW s \in {"Dormant", "Deleted"}, Guest,
               status[t] \in {"Uncreated", "Dormant"}, wakeups' = wakeups,
               waiters' = waiters, Finish([status EXCEPT ![t] = s], wait, ready)
        PROVE  Goal
    <2> DEFINE st == [status EXCEPT ![t] = s]
    <2>1. \A u \in Threads : st[u] = "Waiting" <=> status[u] = "Waiting"
      BY <1>1, <1>5
    <2>2. ThreadsFit(st, wait, ready, current)
      BY <1>1, <1>5, EndedFit DEF SchedInv, ClockFits
    <2>3. Finish(st, wait, ready)
      BY <1>5
    <2> HIDE DEF st
    <2>4. Settled(st, wait)
      BY <1>5, <2>2, <2>3, FinishSettles
    <2> QED BY <1>2, <1>5, <2>1, <2>4, NoWaitEnds
  <1>6. ASSUME NEW t \in Threads, CreateThread(t) PROVE Goal
    BY <1>5, <1>6 DEF CreateThread
  <1>7. ASSUME NEW t \in Threads, DeleteThread(t) PROVE Goal
    BY <1>5, <1>7 DEF DeleteThread
  <1>8. ASSUME NEW t \in Threads, StartThread(t) PROVE Goal
    <2> DEFINE order == <<t>>
    <2>1. order \in Seq(Threads) /\ ToSet(order) = {t} /\ IsInjective(order)
      BY DEF ToSet, IsInjective
    <2>2. Guest /\ status[t] = "Dormant" /\ WakeAndFinish(order) /\ waiters' = waiters
      BY <1>8 DEF StartThread
    <2> HIDE DEF order
    <2> DEFINE st == MadeReady(status, {t})
               wt == NotWaiting(wait, {t})
               rdy == ready \o order
    <2>3. ThreadsFit(st, wt, rdy, current)
      BY <1>1, <2>1, <2>2, WokenFit
    <2>4. Finish(st, wt, rdy)
      BY <2>1, <2>2 DEF WakeAndFinish
    <2>5. \A u \in Threads : /\ st[u] = IF u = t THEN "Ready" ELSE status[u]
                             /\ u # t => wt[u] = wait[u]
      BY DEF MadeReady, NotWaiting
    <2> HIDE DEF st, wt, rdy
    <2>6. Settled(st, wt)
      BY <2>2, <2>3, <2>4, FinishSettles
    <2>7. Settled(st, wait)
      BY <2>5, <2>6 DEF Settled, Runnable
    <2>8. \A u \in Waiting : wakeups'[u] = wakeups[u]
      BY <1>8, <2>2 DEF StartThread, Waiting, SchedInv, CallsFit
    <2> QED BY <1>2, <2>2, <2>5, <2>7, <2>8, NoWaitEnds
  <1>9. ASSUME NEW delete \in BOOLEAN, ExitThread(delete) PROVE Goal
    <2>1. /\ status' = [status EXCEPT ![current] = Gone(delete)] /\ current \in Threads
          /\ Gone(delete) \in {"Dormant", "Deleted"}
          /\ wait' = wait /\ waiters' = waiters /\ wakeups' = wakeups
          /\ status[current] = "Running"
      BY <1>1, <1>9 DEF ExitThread, Gone, ThreadsFit
    <2>2. Settled([status EXCEPT ![current] = Gone(delete)], wait)
      BY <1>1, <2>1 DEF Settled
    <2>3. \A t \in Threads : [status EXCEPT ![current] = Gone(delete)][t] = "Waiting"
                                <=> status[t] = "Waiting"
      BY <1>1, <2>1
    <2> QED BY <1>2, <2>1, <2>2, <2>3, NoWaitEnds
  <1>10. ASSUME NEW delete \in BOOLEAN, NEW t \in Threads, TerminateThread(t, delete)
         PROVE  Goal
    <2> DEFINE st == [status EXCEPT ![t] = Gone(delete)]
               rdy == Drop(ready, {t})
               E == IF status[t] = "Waiting" THEN {t} ELSE {}
    <2>1. /\ Finish(st, wait, rdy) /\ Guest /\ t # current /\ wakeups' = wakeups
          /\ waiters' = Dequeued(E) /\ Gone(delete) \in {"Dormant", "Deleted"}
      BY <1>10 DEF TerminateThread, Gone
    <2>2. ThreadsFit(st, wait, rdy, current)
      BY <1>1, <2>1, TerminatedFit DEF SchedInv, ClockFits
    <2>3. \A u \in Threads : st[u] = IF u = t THEN Gone(delete) ELSE status[u]
      BY <1>1
    <2> HIDE DEF st, rdy
    <2>4. Settled(st, wait)
      BY <2>1, <2>2, FinishSettles
    <2>5. status'[t] \in {"Dormant", "Deleted"}
      BY <2>1, <2>3, <2>4 DEF Settled, Runnable
    <2>6. \A u \in Waiting \ E : status'[u] = "Waiting" /\ wait'[u] = wait[u]
      BY <2>3, <2>4 DEF Settled, Runnable, Waiting
    <2>7. \A u \in Threads \ Waiting : status'[u] # "Waiting"
      BY <2>1, <2>3, <2>4 DEF Settled, Runnable, Waiting
    <2>8. EndsWaits(E, E, wait)
      BY <2>1, <2>5, <2>6, <2>7 DEF EndsWaits, Waiting
    <2> QED BY <2>8 DEF Goal
  <1>11. ASSUME NEW t \in Threads, NEW p \in Priorities, ChangePriority(t, p)
         PROVE  Goal
    <2> DEFINE rdy == IF status[t] = "Ready" THEN Append(Drop(ready, {t}), t) ELSE ready
    <2>1. ThreadsFit(status, wait, rdy, current)
      BY <1>1, RequeuedFit
    <2>2. Finish(status, wait, rdy) /\ Guest /\ waiters' = waiters /\ wakeups' = wakeups
      BY <1>11 DEF ChangePriority
    <2> HIDE DEF rdy
    <2>3. Settled(status, wait)
      BY <2>1, <2>2, FinishSettles
    <2> QED BY <1>2, <2>2, <2>3, NoWaitEnds
  <1>12. CASE SleepThread
    <2>1. Guest /\ waiters' = waiters
      BY <1>12 DEF SleepThread, WaitCaller
    <2>2. CASE /\ current # NoThread /\ wakeups[current] > 0
               /\ wakeups' = [wakeups EXCEPT ![current] = @ - 1]
               /\ Finish(status, wait, ready)
      <3>1. Settled(status, wait)
        BY <1>1, <2>1, <2>2, FinishSettles
      <3>2. current \in Threads /\ status[current] = "Running"
        BY <2>2, <1>1 DEF ThreadsFit
      <3>3. \A u \in Waiting : wakeups'[u] = wakeups[u]
        BY <2>2, <3>2 DEF Waiting, SchedInv, CallsFit
      <3> QED BY <1>2, <2>1, <3>1, <3>3, NoWaitEnds
    <2>3. CASE /\ current # NoThread => wakeups[current] = 0
               /\ UNCHANGED wakeups /\ Block(Wait("Sleep", Forever))
      <3> DEFINE w == Wait("Sleep", Forever)
      <3>1. w.type # "Object" /\ w.left \in Delays \cup {Forever} /\ Block(w)
        BY <2>3 DEF Wait
      <3> HIDE DEF w
      <3> QED BY <1>2, <2>1, <2>3, <3>1, BlockWaits
    <2> QED BY <1>12, <2>2, <2>3 DEF SleepThread
  <1>13. ASSUME NEW t \in Threads, WakeupThread(t) PROVE Goal
    <2>1. Guest /\ waiters' = waiters
      BY <1>13 DEF WakeupThread
    <2>2. CASE /\ status[t] = "Waiting" /\ wait[t].type = "Sleep"
               /\ UNCHANGED wakeups /\ WakeAndFinish(<<t>>)
      <3> DEFINE order == <<t>>
      <3>1. order \in Seq(Threads) /\ ToSet(order) = {t} /\ IsInjective(order)
        BY DEF ToSet, IsInjective
      <3>1a. WakeAndFinish(order)
        BY <2>2
      <3> HIDE DEF order
      <3>2. Settled(MadeReady(status, {t}), NotWaiting(wait, {t}))
        BY <2>1, <2>2, <3>1, <3>1a, WokenSettle DEF Waiting
      <3>3. /\ status'[t] \in Runnable
            /\ \A u \in Waiting \ {t} : status'[u] = "Waiting" /\ wait'[u] = wait[u]
            /\ \A u \in Threads \ Waiting : status'[u] # "Waiting"
        BY <2>2, <3>2 DEF Settled, Runnable, Waiting, MadeReady, NotWaiting
      <3>4. EndsWaits({t}, {}, wait)
        BY <2>1, <2>2, <3>3 DEF EndsWaits, Waiting, Runnable
      <3> QED BY <3>4 DEF Goal
    <2>3. CASE /\ ~(status[t] = "Waiting" /\ wait[t].type = "Sleep")
               /\ wakeups' = [wakeups EXCEPT ![t] = @ + 1]
               /\ Finish(status, wait, ready)
      <3>1. Settled(status, wait)
        BY <1>1, <2>1, <2>3, FinishSettles
      <3>2. \A u \in Waiting : wait[u].type = "Sleep" => wakeups'[u] = wakeups[u]
        BY <2>3 DEF Waiting, SchedInv, CallsFit
      <3> QED BY <1>2, <2>1, <3>1, <3>2, NoWaitEnds
    <2> QED BY <1>13, <2>2, <2>3 DEF WakeupThread
  <1>14. ASSUME NEW type \in {"Delay", "VBlank", "Host"}, NEW d \in Delays \cup {Forever},
                WaitCaller, Block(Wait(type, d)), wakeups' = wakeups, waiters' = waiters
         PROVE  Goal
    <2> DEFINE w == Wait(type, d)
    <2>1. w.type \notin {"Object", "Sleep"} /\ w.left \in Delays \cup {Forever} /\ Block(w)
      BY <1>14 DEF Wait
    <2> HIDE DEF w
    <2> QED BY <1>2, <1>14, <2>1, BlockWaits DEF WaitCaller
  <1>15. ASSUME NEW d \in Delays, DelayThread(d) PROVE Goal
    BY <1>14, <1>15 DEF DelayThread
  <1>16. CASE WaitVBlank
    BY <1>14, <1>16 DEF WaitVBlank
  <1>17. ASSUME NEW d \in Delays \cup {Forever}, WaitHost(d) PROVE Goal
    BY <1>3, <1>14, <1>17 DEF WaitHost, WaitCaller
  <1>18. ASSUME NEW enabled \in BOOLEAN, SetDispatch(enabled) \/ SetInterrupts(enabled)
         PROVE  Goal
    BY <1>3, <1>18 DEF SetDispatch, SetInterrupts
  <1> QED BY <1>4, <1>6, <1>7, <1>8, <1>9, <1>10, <1>11, <1>12, <1>13, <1>15,
             <1>16, <1>17, <1>18 DEF ThreadCalls

(* Only the time left of a wait changes while it lasts. *)
SameWait(w, v) == w.type = v.type /\ w.object = v.object /\ w.request = v.request
SameWaits(wt) == \A t \in Threads : SameWait(wt[t], wait[t])

(* Ageing changes nothing but the time left of the waits with a deadline. *)
LEMMA AgedSame ==
  ASSUME wait \in [Threads -> WaitStates], NEW d
  PROVE  /\ SameWaits(Aged(d))
         /\ \A t \in Threads :
              Aged(d)[t].left =
                IF status[t] = "Waiting" /\ wait[t].left # Forever
                THEN wait[t].left - d ELSE wait[t].left
  BY DEF Aged, SameWaits, SameWait, WaitStates

(* No time passes. *)
LEMMA AgedNot ==
  ASSUME wait \in [Threads -> WaitStates]
  PROVE  Aged(0) = wait
  <1>1. ASSUME NEW t \in Threads PROVE Aged(0)[t] = wait[t]
    <2>1. wait[t] \in WaitStates /\ wait[t].left \in Nat \cup {Forever}
      BY WaitFacts
    <2>2. CASE status[t] = "Waiting" /\ wait[t].left # Forever
      <3>1. Aged(0)[t] = [wait[t] EXCEPT !.left = @ - 0]
        BY <2>2 DEF Aged
      <3>2. wait[t].left - 0 = wait[t].left
        BY <2>1, <2>2
      <3> QED BY <2>1, <3>1, <3>2 DEF WaitStates
    <2> QED BY <2>2 DEF Aged
  <1>2. DOMAIN Aged(0) = Threads /\ Aged(0) = [t \in Threads |-> Aged(0)[t]]
    BY DEF Aged
  <1> QED BY <1>1, <1>2

(* What a boundary or a turn of the scheduler loop ends: the waits for a    *)
(* vblank, and the waits that are overdue or answered.                      *)
LEMMA TimersWait ==
  ASSUME NEW wt, NEW vb, NEW due \in SUBSET Waiting, NEW W,
         W = VBlankWoken(vb) \cup due,
         \A t \in due : wait[t].type = "Object" => wait[t].left # Forever,
         Settled(MadeReady(status, W), NotWaiting(wt, W)),
         waiters' = Dequeued(due), wakeups' = wakeups
  PROVE  EndsWaits(W, due, wt)
  <1>1. /\ W \subseteq Waiting
        /\ \A t \in W : t \in due \/ wait[t].type = "VBlank"
    BY DEF VBlankWoken, Waiting
  <1>2. \A t \in W : status'[t] \in Runnable
    BY <1>1 DEF Settled, Runnable, MadeReady, Waiting
  <1>3. \A t \in Waiting \ W : status'[t] = "Waiting" /\ wait'[t] = wt[t]
    BY DEF Settled, Runnable, MadeReady, NotWaiting, Waiting
  <1>4. \A t \in Threads \ Waiting : status'[t] # "Waiting"
    BY <1>1 DEF Settled, Runnable, MadeReady, Waiting
  <1> QED BY <1>1, <1>2, <1>3, <1>4 DEF EndsWaits, Runnable

(* A deadline passed or the host answered. *)
LEMMA DueWaits ==
  ASSUME NEW wt, NEW answered \in SUBSET HostWaiters,
         \A t \in Threads : wait[t].left = Forever => wt[t].left = Forever
  PROVE  /\ Overdue(wt) \cup answered \subseteq Waiting
         /\ \A t \in Overdue(wt) \cup answered :
              wait[t].type = "Object" => wait[t].left # Forever
  BY DEF Overdue, HostWaiters, Waiting, Forever

(* on_starvation. *)
LEMMA StarvationWaits ==
  ASSUME SchedInv, Starvation
  PROVE  /\ \E E, D \in SUBSET Threads : EndsWaits(E, D, Aged(1))
         /\ idleVBlanks' \in {0, idleVBlanks} /\ stopped' = stopped
  <1>1. /\ ~active /\ current \in Threads /\ Guest
        /\ ThreadsFit(status, wait, ready, current) /\ Timely(status, wait)
        /\ wait \in [Threads -> WaitStates]
    BY DEF SchedInv, Starvation, ThreadsFit, ClockFits, Guest
  <1> DEFINE wt == Aged(1)
             vb == vblankLeft - 1
             due(answered) == Overdue(wt) \cup answered
             woken(answered) == VBlankWoken(vb) \cup due(answered)
             pend == PendingAfter(vb)
  <1>2. PICK answered \in SUBSET HostWaiters :
          /\ TimersProcessed(vb, due(answered))
          /\ \E order \in WakeOrders(vb, due(answered)) :
               Preempt(MadeReady(status, woken(answered)),
                       NotWaiting(wt, woken(answered)), ready \o order, pend)
    BY DEF Starvation
  <1>3. PICK order \in WakeOrders(vb, due(answered)) :
          Preempt(MadeReady(status, woken(answered)),
                  NotWaiting(wt, woken(answered)), ready \o order, pend)
    BY <1>2
  <1>4. \A t \in Threads :
          status[t] = "Waiting" /\ wait[t].left # Forever => 1 <= wait[t].left
    <2> SUFFICES ASSUME NEW t \in Threads, status[t] = "Waiting",
                        wait[t].left # Forever
                 PROVE  1 <= wait[t].left
      OBVIOUS
    <2>1. wait[t].left \in Nat \cup {Forever} /\ wait[t].left # 0
      BY <1>1, WaitFacts DEF Timely
    <2> QED BY <2>1
  <1>5. /\ ThreadsFit(status, wt, ready, current)
        /\ \A t \in Threads : wt[t].type = wait[t].type
    BY <1>1, <1>4, AgedFit
  <1>6. \A t \in Threads : wait[t].left = Forever => wt[t].left = Forever
    BY <1>1, AgedSame
  <1>7. waiters' = Dequeued(due(answered)) /\ wakeups' = wakeups /\ stopped' = stopped
    BY <1>2 DEF TimersProcessed, Starvation
  <1> HIDE DEF wt, vb, pend
  <1> DEFINE W == woken(answered)
             st2 == MadeReady(status, W)
             wt2 == NotWaiting(wt, W)
             rdy == ready \o order
  <1>8. ThreadsFit(st2, wt2, rdy, current)
    BY <1>5, TimersFit
  <1>9. Preempt(st2, wt2, rdy, pend)
    BY <1>3
  <1> HIDE DEF st2, wt2, rdy
  <1>10. Settled(st2, wt2)
    <2>1. CASE Keep(st2, wt2, rdy)
      BY <2>1 DEF Keep, Settled
    <2>2. CASE Reschedule(st2, wt2, rdy, TRUE)
      BY <1>1, <1>8, <2>2, RescheduleSettles
    <2> QED BY <1>9, <2>1, <2>2 DEF Preempt
  <1>11. idleVBlanks' \in {0, idleVBlanks}
    BY <1>9 DEF Preempt, Keep, Reschedule, SwitchTo
  <1>12. EndsWaits(W, due(answered), wt)
    <2>1. /\ due(answered) \subseteq Waiting
          /\ \A t \in due(answered) : wait[t].type = "Object" => wait[t].left # Forever
      BY <1>6, DueWaits
    <2> HIDE DEF due
    <2>2. W = VBlankWoken(vb) \cup due(answered)
      OBVIOUS
    <2> HIDE DEF W
    <2> QED BY <1>7, <1>10, <2>1, <2>2, TimersWait DEF st2, wt2
  <1>13. W \subseteq Threads /\ due(answered) \subseteq Threads
    BY <1>12 DEF EndsWaits, Waiting
  <1> QED BY <1>7, <1>11, <1>12, <1>13 DEF wt

(* One turn of the scheduler loop wakes W and then begins an interrupt,     *)
(* gives a thread the CPU, reports a deadlock or lets d quanta pass.        *)
LoopTurn(W, d) ==
  /\ VBlankWoken(vblankLeft) \cup Overdue(wait) \subseteq W
  /\ \A t \in Waiting : wait[t].left # Forever => d <= wait[t].left
  /\ \A t \in Threads \ Waiting : status'[t] # "Waiting"
  /\ vblankLeft' = (IF vblankLeft = 0 THEN VBlankPeriod ELSE vblankLeft) - d
  /\ \/ idleVBlanks' = 0 /\ current' # NoThread
     \/ idleVBlanks' = IdleAfter(vblankLeft) /\ current' = NoThread
  /\ \/ stopped' = stopped
     \/ /\ W = {} /\ d = 0 /\ IdleAfter(vblankLeft) > IdleVBlankLimit
        /\ idleVBlanks' = IdleAfter(vblankLeft) /\ UNCHANGED <<current, active>>

(* The loop in schedule(). *)
LEMMA ScheduleWaits ==
  ASSUME SchedInv, Schedule
  PROVE  \E W, D \in SUBSET Threads, d \in Nat :
           EndsWaits(W, D, Aged(d)) /\ LoopTurn(W, d)
  <1>1. /\ ~active /\ current = NoThread
        /\ ThreadsFit(status, wait, ready, NoThread)
        /\ UNCHANGED <<prio, wakeups, dispatch, intr>>
        /\ wait \in [Threads -> WaitStates] /\ status \in [Threads -> Statuses]
    BY DEF SchedInv, Schedule, ThreadsFit
  <1>2. vblankLeft \in 0..VBlankPeriod /\ idleVBlanks \in 0..IdleVBlankLimit + 1
        /\ (vblankLeft = 0 => idleVBlanks <= IdleVBlankLimit)
    BY DEF SchedInv, ClockFits
  <1> DEFINE due(answered) == Overdue(wait) \cup answered
             woken(answered) == VBlankWoken(vblankLeft) \cup due(answered)
             pend == PendingAfter(vblankLeft)
             idle == IdleAfter(vblankLeft)
             vb == IF vblankLeft = 0 THEN VBlankPeriod ELSE vblankLeft
             Begins(st, wt, rdy) ==
               /\ intr /\ pend > 0
               /\ BeginInterrupt(pend, TRUE)
               /\ status' = st /\ wait' = wt /\ ready' = rdy
               /\ idleVBlanks' = idle /\ vblankLeft' = vb
               /\ UNCHANGED <<current, stopped>>
             Switches(st, wt, rdy) ==
               /\ ~(intr /\ pend > 0)
               /\ \E i \in DOMAIN rdy : IsBest(rdy, i) /\ SwitchTo(st, wt, rdy, i)
               /\ pending' = pend /\ vblankLeft' = vb
               /\ UNCHANGED <<active, idleIntr, stopped>>
             Idles(st, wt, rdy) ==
               /\ ~(intr /\ pend > 0) /\ rdy = << >>
               /\ pending' = pend /\ idleVBlanks' = idle
               /\ status' = st /\ ready' = rdy
               /\ UNCHANGED <<active, idleIntr, current>>
               /\ \/ /\ idle > IdleVBlankLimit
                     /\ stopped' = TRUE
                     /\ wait' = wt /\ vblankLeft' = vb
                  \/ /\ idle <= IdleVBlankLimit
                     /\ UNCHANGED stopped
                     /\ \E d \in {vb} \cup EventTimes :
                          /\ \A e \in {vb} \cup EventTimes : d <= e
                          /\ wait' = Aged(d)
                          /\ vblankLeft' = vb - d
             Turn(st, wt, rdy) ==
               Begins(st, wt, rdy) \/ Switches(st, wt, rdy) \/ Idles(st, wt, rdy)
  <1>3. PICK answered \in SUBSET HostWaiters :
          /\ waiters' = Dequeued(due(answered))
          /\ \E order \in WakeOrders(vblankLeft, due(answered)) :
               Turn(MadeReady(status, woken(answered)),
                    NotWaiting(wait, woken(answered)), ready \o order)
    BY DEF Schedule
  <1>4. PICK order \in WakeOrders(vblankLeft, due(answered)) :
           Turn(MadeReady(status, woken(answered)),
                NotWaiting(wait, woken(answered)), ready \o order)
    BY <1>3
  <1> DEFINE W == woken(answered)
             st == MadeReady(status, W)
             wt == NotWaiting(wait, W)
             rdy == ready \o order
  <1>5. ThreadsFit(st, wt, rdy, NoThread)
    BY <1>1, TimersFit
  <1>6. Begins(st, wt, rdy) \/ Switches(st, wt, rdy) \/ Idles(st, wt, rdy)
    BY <1>4
  <1>7. /\ due(answered) \subseteq Waiting
        /\ \A t \in due(answered) : wait[t].type = "Object" => wait[t].left # Forever
    BY DueWaits
  <1>8. W \subseteq Waiting /\ W \subseteq Threads /\ due(answered) \subseteq Threads
    BY <1>7 DEF VBlankWoken, Waiting
  <1>9. W = VBlankWoken(vblankLeft) \cup due(answered) /\ Overdue(wait) \subseteq W
    OBVIOUS
  <1> HIDE DEF W, due
  <1>10. ASSUME NEW v, Settled(st, NotWaiting(v, W))
         PROVE  /\ EndsWaits(W, due(answered), v)
                /\ \A t \in Threads \ Waiting : status'[t] # "Waiting"
    <2>1. EndsWaits(W, due(answered), v)
      BY <1>1, <1>3, <1>7, <1>9, <1>10, TimersWait
    <2>2. \A t \in Threads \ Waiting : status'[t] # "Waiting"
      BY <1>8, <1>10 DEF Settled, Runnable, MadeReady, Waiting
    <2> QED BY <2>1, <2>2
  <1> DEFINE Goal == \E V, D \in SUBSET Threads, d \in Nat :
                       EndsWaits(V, D, Aged(d)) /\ LoopTurn(V, d)
  <1> SUFFICES Goal
    OBVIOUS
  <1>11. ASSUME Settled(st, wt), vblankLeft' = vb,
                \/ idleVBlanks' = 0 /\ current' # NoThread
                \/ idleVBlanks' = idle /\ current' = NoThread,
                \/ stopped' = stopped
                \/ /\ W = {} /\ idle > IdleVBlankLimit
                   /\ idleVBlanks' = idle /\ UNCHANGED <<current, active>>
         PROVE  Goal
    <2>1. Aged(0) = wait
      BY <1>1, AgedNot
    <2>2. /\ EndsWaits(W, due(answered), Aged(0))
          /\ \A t \in Threads \ Waiting : status'[t] # "Waiting"
      BY <1>10, <1>11, <2>1
    <2>3. \A t \in Waiting : wait[t].left # Forever => 0 <= wait[t].left
      <3> SUFFICES ASSUME NEW t \in Waiting, wait[t].left # Forever
                   PROVE  0 <= wait[t].left
        OBVIOUS
      <3>1. wait[t].left \in Nat \cup {Forever}
        BY <1>1, WaitFacts DEF Waiting
      <3> QED BY <3>1
    <2>4. vblankLeft' = vb - 0
      BY <1>2, <1>11, TimeAssumption DEF TimeAssumption
    <2> HIDE DEF st, wt
    <2>5. LoopTurn(W, 0)
      BY <1>9, <1>11, <2>2, <2>3, <2>4 DEF LoopTurn
    <2> QED BY <1>8, <2>2, <2>5
  <1> HIDE DEF Goal
  <1>12. CASE Begins(st, wt, rdy)
    <2>1. Settled(st, wt)
      BY <1>12 DEF Settled
    <2> HIDE DEF st, wt, rdy, pend
    <2> QED BY <1>1, <1>11, <1>12, <2>1
  <1>13. CASE Switches(st, wt, rdy)
    <2>1. PICK i \in DOMAIN rdy : SwitchTo(st, wt, rdy, i)
      BY <1>13
    <2> HIDE DEF st, wt, rdy, pend
    <2>2. Settled(st, wt)
      BY <1>5, <2>1, SwitchSettles
    <2>3. idleVBlanks' = 0 /\ current' # NoThread
      <3>1. rdy[i] \in Threads
        BY <1>5, <2>1 DEF ThreadsFit
      <3> QED BY <2>1, <3>1, ThreadsAssumption DEF SwitchTo, ThreadsAssumption
    <2> QED BY <1>11, <1>13, <2>2, <2>3
  <1>14. CASE Idles(st, wt, rdy)
    <2>1. /\ current' = NoThread /\ idleVBlanks' = idle
          /\ status' = st /\ rdy = << >> /\ UNCHANGED <<current, active>>
      BY <1>1, <1>14
    <2>2. W = {}
      <3>1. ToSet(rdy) = {t \in Threads : st[t] = "Ready"}
        BY <1>5 DEF ThreadsFit
      <3>2. ToSet(rdy) = {}
        BY <2>1 DEF ToSet
      <3>3. \A t \in W : st[t] = "Ready"
        BY <1>8 DEF MadeReady
      <3> QED BY <1>8, <3>1, <3>2, <3>3
    <2>3. CASE /\ idle > IdleVBlankLimit /\ stopped' = TRUE
               /\ wait' = wt /\ vblankLeft' = vb
      <3>1. Settled(st, wt)
        BY <2>1, <2>3 DEF Settled
      <3> HIDE DEF st, wt, rdy, pend
      <3> QED BY <1>11, <2>1, <2>2, <2>3, <3>1
    <2>4. ASSUME UNCHANGED stopped, NEW d \in {vb} \cup EventTimes,
                 \A e \in {vb} \cup EventTimes : d <= e,
                 wait' = Aged(d), vblankLeft' = vb - d
          PROVE  Goal
      <3>1. vb \in 1..VBlankPeriod
        BY <1>2, TimeAssumption DEF TimeAssumption
      <3>2. ASSUME NEW t \in Threads, status[t] = "Waiting", wait[t].left # Forever
            PROVE  wait[t].left \in EventTimes /\ wait[t].left \in Nat
        <4>1. wait[t].left \in Nat \cup {Forever}
          BY <1>1, WaitFacts
        <4> QED BY <3>2, <4>1 DEF EventTimes
      <3>3. d \in Nat
        <4>1. \A e \in EventTimes : e \in Nat
          <5> SUFFICES ASSUME NEW e \in EventTimes PROVE e \in Nat
            OBVIOUS
          <5>1. e = 1 \/ \E t \in Threads : /\ status[t] = "Waiting"
                                            /\ wait[t].left # Forever
                                            /\ e = wait[t].left
            BY DEF EventTimes
          <5> QED BY <3>2, <5>1
        <4> QED BY <3>1, <4>1
      <3>4. \A t \in Waiting : wait[t].left # Forever => d <= wait[t].left
        BY <2>4, <3>2 DEF Waiting
      <3>5. Settled(st, NotWaiting(Aged(d), W))
        BY <2>1, <2>2, <2>4 DEF Settled, NotWaiting
      <3>6. /\ EndsWaits(W, due(answered), Aged(d))
            /\ \A t \in Threads \ Waiting : status'[t] # "Waiting"
        BY <1>10, <3>5
      <3> HIDE DEF st, wt, rdy, pend
      <3>7. LoopTurn(W, d)
        BY <1>9, <2>1, <2>4, <3>4, <3>6 DEF LoopTurn
      <3> QED BY <1>8, <3>3, <3>6, <3>7 DEF Goal
    <2> HIDE DEF st, wt, rdy, pend
    <2> QED BY <1>14, <2>3, <2>4
  <1> QED BY <1>6, <1>12, <1>13, <1>14

(* Every step of the scheduler ends some waits, takes their threads out of  *)
(* the queues, and lets the other waits go on, perhaps closer to their end. *)
LEMMA StepWaits ==
  ASSUME SchedInv, SchedNext
  PROVE  \/ UNCHANGED schedVars
         \/ \E E, D \in SUBSET Threads, d \in Nat : EndsWaits(E, D, Aged(d))
  <1>1. wait \in [Threads -> WaitStates] /\ ThreadsFit(status, wait, ready, current)
    BY DEF SchedInv, ThreadsFit
  <1>2. Aged(0) = wait
    BY <1>1, AgedNot
  <1>3. CASE ThreadCalls
    BY <1>2, <1>3, CallsWait
  <1>4. CASE Starvation
    BY <1>4, StarvationWaits
  <1>5. CASE Schedule
    BY <1>5, ScheduleWaits
  <1>6. CASE InterruptReturn
    <2>1. Settled(status, wait)
      <3>1. CASE Keep(status, wait, ready)
        BY <3>1 DEF Keep, Settled
      <3>2. CASE current # NoThread /\ Reschedule(status, wait, ready, FALSE)
        BY <1>1, <3>2, RescheduleSettles DEF ThreadsFit
      <3> QED BY <1>6, <3>1, <3>2 DEF InterruptReturn
    <2>2. waiters' = waiters /\ wakeups' = wakeups
      BY <1>6 DEF InterruptReturn
    <2>3. EndsWaits({}, {}, wait)
      BY <2>1, <2>2, NoWaitEnds
    <2> QED BY <1>2, <2>3
  <1> QED BY <1>3, <1>4, <1>5, <1>6 DEF SchedNext, Machine, Halted

-----------------------------------------------------------------------------
(* The queues of the objects.                                              *)

(* remove_waiter on exact queues: they stay exact, and every queue loses    *)
(* the threads whose waits on its object end.                               *)
LEMMA QueuesShrink ==
  ASSUME SchedInv, QueuesExact, NEW E, NEW D, NEW d, EndsWaits(E, D, Aged(d))
  PROVE  /\ QueuesExact'
         /\ \A o \in Objects : WaitingOn(o)' = WaitingOn(o) \ E
         /\ \A t \in Waiting \ E : SameWait(wait'[t], wait[t])
  <1>1. wait \in [Threads -> WaitStates] /\ waiters \in [Objects -> Seq(Threads \cup {NoThread})]
    BY DEF SchedInv, ThreadsFit, CallsFit
  <1>2. \A t \in Waiting \ E : SameWait(wait'[t], wait[t])
    BY <1>1, AgedSame DEF EndsWaits, SameWaits, Waiting
  <1>3. ASSUME NEW o \in Objects PROVE WaitingOn(o)' = WaitingOn(o) \ E
    <2>1. ASSUME NEW t \in WaitingOn(o)' PROVE t \in WaitingOn(o) \ E
      <3>1. t \in Threads /\ status'[t] = "Waiting" /\ wait'[t].type = "Object"
            /\ wait'[t].object = o
        BY <2>1 DEF WaitingOn
      <3>2. t \notin E /\ t \in Waiting
        BY <3>1 DEF EndsWaits, FreshWait
      <3> QED BY <1>2, <3>1, <3>2 DEF WaitingOn, Waiting, SameWait
    <2>2. ASSUME NEW t \in WaitingOn(o) \ E PROVE t \in WaitingOn(o)'
      <3>1. t \in Waiting \ E /\ wait[t].type = "Object" /\ wait[t].object = o
        BY <2>2 DEF WaitingOn, Waiting
      <3>2. status'[t] = "Waiting"
        BY <3>1 DEF EndsWaits
      <3> QED BY <1>2, <3>1, <3>2 DEF WaitingOn, Waiting, SameWait
    <2> QED BY <2>1, <2>2
  <1>4. ASSUME NEW o \in Objects
        PROVE  ToSet(waiters'[o]) = WaitingOn(o) \ E /\ IsInjective(waiters'[o])
    <2>1. /\ waiters[o] \in Seq(Threads \cup {NoThread}) /\ IsInjective(waiters[o])
          /\ ToSet(waiters[o]) = WaitingOn(o)
      BY <1>1 DEF QueuesExact, IsInjective
    <2>2. CASE waiters' = Dequeued(D)
      <3> DEFINE S == {t \in D : wait[t].type = "Object" /\ wait[t].object = o}
      <3>1. waiters'[o] = Drop(waiters[o], S)
        BY <2>2 DEF Dequeued
      <3>2. WaitingOn(o) \ S = WaitingOn(o) \ E
        BY DEF EndsWaits, WaitingOn
      <3> HIDE DEF S
      <3> QED BY <2>1, <3>1, <3>2, DropFacts
    <2>3. CASE D = {} /\ waiters' = waiters
      <3>1. WaitingOn(o) \ E = WaitingOn(o)
        BY <2>3 DEF EndsWaits, WaitingOn
      <3> QED BY <2>1, <2>3, <3>1
    <2> QED BY <2>2, <2>3 DEF EndsWaits
  <1>5. QueuesExact'
    BY <1>3, <1>4 DEF QueuesExact, IsInjective
  <1> QED BY <1>2, <1>3, <1>5

-----------------------------------------------------------------------------
(* Idle time.                                                              *)

(* finish counts no vblank, and in interrupt context gives nobody the CPU. *)
LEMMA FinishIdle ==
  ASSUME NEW st, NEW wt, NEW rdy, Guest, Finish(st, wt, rdy),
         current # NoThread => idleVBlanks = 0
  PROVE  /\ idleVBlanks' = idleVBlanks
         /\ current = NoThread => current' = NoThread
  BY DEF Guest, Finish, Reschedule, Keep, SwitchTo

(* Nor does a call: no time passes in it. *)
LEMMA CallsIdle ==
  ASSUME ThreadCalls, current # NoThread => idleVBlanks = 0
  PROVE  /\ Guest /\ UNCHANGED <<idleVBlanks, vblankLeft, stopped>>
         /\ current = NoThread => current' = NoThread
  <1> DEFINE Goal == /\ Guest /\ UNCHANGED <<idleVBlanks, vblankLeft, stopped>>
                     /\ current = NoThread => current' = NoThread
  <1>1. ASSUME NEW st, NEW wt, NEW rdy, Guest, Finish(st, wt, rdy),
               UNCHANGED <<vblankLeft, stopped>>
        PROVE  Goal
    BY <1>1, FinishIdle
  <1>2. ASSUME NEW w, Guest, Block(w), UNCHANGED <<vblankLeft, stopped>>
        PROVE  Goal
    BY <1>2 DEF Block
  <1>3. ASSUME NEW order, Guest, WakeAndFinish(order), UNCHANGED <<vblankLeft, stopped>>
        PROVE  Goal
    BY <1>1, <1>3 DEF WakeAndFinish
  <1>4. ASSUME NEW delete \in BOOLEAN, ExitThread(delete) PROVE Goal
    BY <1>4 DEF ExitThread, Guest
  <1> SUFFICES Goal
    OBVIOUS
  <1> HIDE DEF Goal
  <1>5. CASE PlainCall
    BY <1>1, <1>5 DEF PlainCall
  <1>6. ASSUME NEW t \in Threads, CreateThread(t) \/ StartThread(t) \/ DeleteThread(t)
        PROVE  Goal
    BY <1>1, <1>3, <1>6 DEF CreateThread, StartThread, DeleteThread
  <1>7. ASSUME NEW delete \in BOOLEAN, NEW t \in Threads, TerminateThread(t, delete)
        PROVE  Goal
    BY <1>1, <1>7 DEF TerminateThread
  <1>8. ASSUME NEW t \in Threads, NEW p \in Priorities, ChangePriority(t, p)
        PROVE  Goal
    BY <1>1, <1>8 DEF ChangePriority
  <1>9. CASE SleepThread
    BY <1>1, <1>2, <1>9 DEF SleepThread, WaitCaller
  <1>10. ASSUME NEW t \in Threads, WakeupThread(t) PROVE Goal
    BY <1>1, <1>3, <1>10 DEF WakeupThread
  <1>11. ASSUME NEW d \in Delays \cup {Forever},
                DelayThread(d) \/ WaitVBlank \/ WaitHost(d)
         PROVE  Goal
    BY <1>1, <1>2, <1>11 DEF DelayThread, WaitVBlank, WaitHost, WaitCaller
  <1>12. ASSUME NEW enabled \in BOOLEAN, SetDispatch(enabled) \/ SetInterrupts(enabled)
         PROVE  Goal
    BY <1>1, <1>12 DEF SetDispatch, SetInterrupts
  <1> QED BY <1>4, <1>5, <1>6, <1>7, <1>8, <1>9, <1>10, <1>11, <1>12 DEF ThreadCalls

(* What the deadlock report relies on: no wait is asked for that outlasts   *)
(* the vblanks it is counted in.                                            *)
DelaysFit == \A d \in Delays : d <= IdleVBlankLimit * VBlankPeriod

(* The time that has passed since the first of the idle vblanks. *)
IdleTime ==
  IF idleVBlanks = 0 THEN 0
  ELSE (idleVBlanks - 1) * VBlankPeriod + (VBlankPeriod - vblankLeft)

(* Every deadline passes before the idle vblanks exceed their limit, and    *)
(* the first of them ended the waits for a vblank.                          *)
IdleFits ==
  /\ current # NoThread => idleVBlanks = 0
  /\ \A t \in Waiting :
       /\ idleVBlanks > 0 => wait[t].type # "VBlank"
       /\ wait[t].left # Forever =>
            wait[t].left + IdleTime <= IdleVBlankLimit * VBlankPeriod
  /\ stopped => current = NoThread /\ ~active /\ DeadlockIsReal

(* Guest code runs: a wait that begins has all its time before it, and the  *)
(* others do not move away from their ends.                                 *)
LEMMA IdleCarriesOver ==
  ASSUME SchedInv, IdleFits, DelaysFit, Guest, NEW E, NEW D, NEW d \in Nat,
         EndsWaits(E, D, Aged(d)), idleVBlanks' = idleVBlanks, IdleTime' = IdleTime,
         stopped' = stopped, current = NoThread => current' = NoThread
  PROVE  IdleFits'
  <1>1. /\ wait \in [Threads -> WaitStates] /\ idleVBlanks \in Nat
        /\ vblankLeft \in 0..VBlankPeriod /\ VBlankPeriod \in Nat
        /\ IdleVBlankLimit \in Nat
    BY TimeAssumption DEF SchedInv, ThreadsFit, ClockFits, TimeAssumption
  <1>2. ~stopped /\ ~stopped'
    BY DEF IdleFits, Guest
  <1> DEFINE B == IdleVBlankLimit * VBlankPeriod
  <1>3. B \in Nat /\ IdleTime \in Int /\ (idleVBlanks = 0 => IdleTime = 0)
    <2>1. \A k, p \in Int : k * p \in Int
      OBVIOUS
    <2>2. (idleVBlanks - 1) * VBlankPeriod \in Int /\ B \in Int
      BY <1>1, <2>1
    <2>3. B \in Nat
      BY <1>1
    <2> HIDE DEF B
    <2> QED BY <1>1, <2>2, <2>3 DEF IdleTime
  <1> HIDE DEF B
  <1>4. ASSUME NEW t \in Waiting' PROVE
          /\ idleVBlanks' > 0 => wait'[t].type # "VBlank"
          /\ wait'[t].left # Forever => wait'[t].left + IdleTime' <= B
    <2>1. t \in Threads /\ status'[t] = "Waiting"
      BY <1>4 DEF Waiting
    <2>2. CASE t \in Waiting
      <3>1. wait'[t] = Aged(d)[t] /\ status[t] = "Waiting"
        BY <2>1, <2>2 DEF EndsWaits, Waiting
      <3>2. /\ wait'[t].type = wait[t].type
            /\ wait'[t].left = IF wait[t].left # Forever THEN wait[t].left - d
                               ELSE wait[t].left
        BY <1>1, <2>1, <3>1, AgedSame DEF SameWaits, SameWait
      <3>3. wait[t].left \in Int
        BY <1>1, <2>1, WaitFacts DEF Forever
      <3>4. wait[t].left # Forever => wait[t].left + IdleTime <= B
        BY <2>2 DEF IdleFits, B
      <3>5. wait'[t].left # Forever => wait'[t].left + IdleTime' <= B
        BY <1>3, <3>2, <3>3, <3>4
      <3> QED BY <2>2, <3>2, <3>5 DEF IdleFits
    <2>3. CASE t \notin Waiting
      <3>1. t = current /\ wait'[t].left \in Delays \cup {Forever}
        BY <2>1, <2>3 DEF EndsWaits, FreshWait
      <3>2. idleVBlanks = 0
        BY <2>1, <3>1, ThreadsAssumption DEF IdleFits, ThreadsAssumption
      <3>3. wait'[t].left # Forever => wait'[t].left \in Nat /\ wait'[t].left <= B
        BY <3>1, TimeAssumption DEF DelaysFit, TimeAssumption, B
      <3>4. wait'[t].left # Forever => wait'[t].left + IdleTime' <= B
        BY <1>3, <3>2, <3>3
      <3> QED BY <3>2, <3>4
    <2> QED BY <2>2, <2>3
  <1>5. current' # NoThread => idleVBlanks' = 0
    BY DEF IdleFits
  <1> QED BY <1>2, <1>4, <1>5 DEF IdleFits, B

(* The scheduler loop: the time it lets pass or counts is taken from what   *)
(* every deadline has left, and when it stops none is left.                 *)
LEMMA ScheduleIdle ==
  ASSUME SchedInv, IdleFits, NEW W, NEW D, NEW d \in Nat, ~active, current = NoThread,
         ~stopped, EndsWaits(W, D, Aged(d)), LoopTurn(W, d)
  PROVE  IdleFits'
  <1> DEFINE P == VBlankPeriod
             L == IdleVBlankLimit
             k == idleVBlanks
             v == vblankLeft
             vb == IF v = 0 THEN P ELSE v
  <1>1. /\ wait \in [Threads -> WaitStates] /\ k \in 0..L + 1
        /\ v \in 0..P /\ P \in Nat /\ L \in Nat /\ (v = 0 => k <= L)
    BY TimeAssumption DEF SchedInv, ThreadsFit, ClockFits, TimeAssumption
  <1>2. v' = vb - d /\ v' \in Int /\ vb \in 0..P
    BY <1>1 DEF LoopTurn
  <1>3. k' = 0 \/ k' = IdleAfter(v)
    BY DEF LoopTurn
  <1>4. \A i, j \in Int : i * j \in Int /\ (i + 1) * j = i * j + j
    OBVIOUS
  <1>5. (k - 1) * P \in Int /\ k * P = (k - 1) * P + P /\ L * P \in Nat
    <2>1. ((k - 1) + 1) * P = (k - 1) * P + P /\ (k - 1) * P \in Int
      BY <1>1, <1>4
    <2>2. (k - 1) + 1 = k
      BY <1>1
    <2> QED BY <1>1, <2>1, <2>2
  <1>6. IdleTime' <= IdleTime + d /\ IdleTime \in Int /\ IdleTime' \in Int
    <2>1. CASE k' = 0
      <3>1. IdleTime' = 0
        BY <2>1 DEF IdleTime
      <3>2. IdleTime \in Nat
        <4>1. k > 0 => (k - 1) * P \in Nat
          <5>1. \A i, j \in Nat : i * j \in Nat
            OBVIOUS
          <5>2. k > 0 => k - 1 \in Nat
            BY <1>1
          <5> QED BY <1>1, <5>1, <5>2
        <4> DEFINE m == (k - 1) * P
        <4> HIDE DEF m
        <4> QED BY <1>1, <4>1 DEF IdleTime, m
      <3> QED BY <3>1, <3>2
    <2>2. CASE k' # 0 /\ k = 0
      <3>1. k' = 1 /\ v = 0
        BY <1>1, <1>3, <2>2 DEF IdleAfter
      <3>2. IdleTime' = (1 - 1) * P + (P - v')
        BY <3>1 DEF IdleTime
      <3>3. (1 - 1) * P = 0
        BY <1>1
      <3> QED BY <1>1, <1>2, <2>2, <3>1, <3>2, <3>3 DEF IdleTime
    <2>3. CASE k' # 0 /\ k # 0
      <3> DEFINE m == (k - 1) * P
      <3>1. IdleTime = m + (P - v)
        BY <2>3 DEF IdleTime
      <3>2. IdleTime' = (k' - 1) * P + (P - v')
        BY <2>3 DEF IdleTime
      <3>3. CASE v = 0
        <4>1. k' = k + 1 /\ k' - 1 = k
          BY <1>1, <1>3, <2>3, <3>3 DEF IdleAfter
        <4>2. IdleTime' = k * P + (P - v')
          BY <3>2, <4>1
        <4>3. IdleTime' = m + P + (P - v')
          BY <1>5, <4>2
        <4> HIDE DEF m
        <4> QED BY <1>1, <1>2, <1>5, <3>1, <3>3, <4>3 DEF m
      <3>4. CASE v # 0
        <4>1. k' = k
          BY <1>3, <2>3, <3>4 DEF IdleAfter
        <4>2. IdleTime' = m + (P - v')
          BY <3>2, <4>1
        <4> HIDE DEF m
        <4> QED BY <1>1, <1>2, <1>5, <3>1, <3>4, <4>2 DEF m
      <3> QED BY <3>3, <3>4
    <2> QED BY <2>1, <2>2, <2>3
  <1> DEFINE B == L * P
  <1>7. B \in Int
    BY <1>5
  <1> HIDE DEF B
  <1>8. ASSUME NEW t \in Waiting'
        PROVE  /\ t \in Waiting \ W /\ t \in Threads
               /\ wait'[t].type = wait[t].type
               /\ wait'[t].left = IF wait[t].left # Forever THEN wait[t].left - d
                                  ELSE wait[t].left
               /\ wait[t].left \in Nat \cup {Forever}
               /\ wait'[t].left # Forever => wait'[t].left + IdleTime' <= B
               /\ k' > 0 => wait'[t].type # "VBlank"
    <2>1. t \in Threads /\ status'[t] = "Waiting"
      BY <1>8 DEF Waiting
    <2>2. t \in Waiting \ W
      BY <2>1 DEF EndsWaits, LoopTurn
    <2>3. wait'[t] = Aged(d)[t] /\ status[t] = "Waiting"
      BY <2>2 DEF EndsWaits, Waiting
    <2>4. /\ wait'[t].type = wait[t].type
          /\ wait'[t].left = IF wait[t].left # Forever THEN wait[t].left - d
                             ELSE wait[t].left
      BY <1>1, <2>1, <2>3, AgedSame DEF SameWaits, SameWait
    <2>5. wait[t].left \in Nat \cup {Forever}
      BY <1>1, <2>1, WaitFacts
    <2>6. wait[t].left # Forever => wait[t].left + IdleTime <= B
      BY <2>2 DEF IdleFits, B
    <2>7. wait'[t].left # Forever => wait'[t].left + IdleTime' <= B
      BY <1>6, <1>7, <2>4, <2>5, <2>6 DEF Forever
    <2>8. k' > 0 => wait[t].type # "VBlank"
      <3>1. k' > 0 => k > 0 \/ v = 0
        BY <1>1, <1>3 DEF IdleAfter
      <3>2. v = 0 => wait[t].type # "VBlank"
        BY <2>1, <2>2, <2>3 DEF LoopTurn, VBlankWoken
      <3> QED BY <2>2, <3>1, <3>2 DEF IdleFits
    <2> QED BY <2>1, <2>2, <2>4, <2>5, <2>7, <2>8
  <1>9. ASSUME stopped' PROVE current' = NoThread /\ ~active' /\ DeadlockIsReal'
    <2>1. /\ W = {} /\ d = 0 /\ k' = IdleAfter(v) /\ k' > L
          /\ current' = NoThread /\ ~active'
      <3>1. stopped' # stopped
        BY <1>9, Zenon
      <3>2. /\ W = {} /\ d = 0 /\ k' = IdleAfter(v) /\ k' > L
            /\ UNCHANGED <<current, active>>
        BY <3>1 DEF LoopTurn
      <3> QED BY <3>2
    <2>2. k' = L + 1
      BY <1>1, <2>1 DEF IdleAfter
    <2>3. IdleTime' >= B
      <3>1. k' # 0 /\ k' - 1 = L
        BY <1>1, <2>2
      <3>2. IdleTime' = B + (P - v')
        BY <3>1 DEF IdleTime, B
      <3> QED BY <1>1, <1>2, <1>7, <2>1, <3>2
    <2>4. ASSUME NEW t \in Threads, status'[t] = "Waiting"
          PROVE  wait'[t].left = Forever /\ wait'[t].type # "VBlank"
      <3>1. t \in Waiting'
        BY <2>4 DEF Waiting
      <3>2. wait'[t].type # "VBlank"
        BY <1>1, <1>8, <2>2, <3>1
      <3>3. wait[t].left # 0
        <4>1. status[t] = "Waiting" /\ t \notin W
          BY <1>8, <3>1 DEF Waiting
        <4> QED BY <4>1, <1>8, <3>1 DEF LoopTurn, Overdue
      <3>4. wait[t].left = Forever
        <4> SUFFICES ASSUME wait[t].left # Forever PROVE FALSE
          OBVIOUS
        <4>1. wait[t].left \in Nat /\ wait'[t].left = wait[t].left - d
          BY <1>8, <3>1
        <4>2. wait'[t].left # Forever
          BY <2>1, <4>1 DEF Forever
        <4>3. wait'[t].left + IdleTime' <= B
          BY <1>8, <3>1, <4>2
        <4> QED BY <1>6, <1>7, <2>1, <2>3, <3>3, <4>1, <4>3
      <3> QED BY <1>8, <3>1, <3>2, <3>4
    <2> QED BY <2>1, <2>4 DEF DeadlockIsReal
  <1>10. current' # NoThread => k' = 0
    BY DEF LoopTurn
  <1> QED BY <1>8, <1>9, <1>10 DEF IdleFits, B

(* Every step keeps the idle vblanks within what the waits allow. *)
LEMMA IdleStep ==
  ASSUME SchedInv, IdleFits, DelaysFit, SchedNext
  PROVE  IdleFits' \/ UNCHANGED schedVars
  <1>1. Aged(0) = wait
    BY AgedNot DEF SchedInv, ThreadsFit
  <1>2. CASE ThreadCalls
    <2>1. \E E, D \in SUBSET Threads : EndsWaits(E, D, Aged(0))
      BY <1>1, <1>2, CallsWait
    <2>2. /\ Guest /\ UNCHANGED <<idleVBlanks, vblankLeft, stopped>>
          /\ current = NoThread => current' = NoThread
      BY <1>2, CallsIdle DEF IdleFits
    <2>3. IdleTime' = IdleTime
      BY <2>2 DEF IdleTime
    <2> QED BY <2>1, <2>2, <2>3, IdleCarriesOver
  <1>3. CASE Starvation
    <2>1. /\ \E E, D \in SUBSET Threads : EndsWaits(E, D, Aged(1))
          /\ idleVBlanks' \in {0, idleVBlanks} /\ stopped' = stopped
      BY <1>3, StarvationWaits
    <2>2. current # NoThread /\ Guest /\ idleVBlanks = 0
      BY <1>3 DEF Starvation, Guest, IdleFits
    <2>3. IdleTime' = IdleTime
      BY <2>1, <2>2 DEF IdleTime
    <2> QED BY <2>1, <2>2, <2>3, IdleCarriesOver
  <1>4. CASE Schedule
    <2>1. ~active /\ current = NoThread /\ ~stopped
      BY <1>4 DEF Schedule
    <2> QED BY <1>4, <2>1, ScheduleWaits, ScheduleIdle
  <1>5. CASE InterruptReturn
    <2>1. Guest /\ UNCHANGED <<vblankLeft, stopped, wakeups, waiters>>
      BY <1>5 DEF InterruptReturn, Guest
    <2>2. /\ idleVBlanks' = idleVBlanks
          /\ current = NoThread => current' = NoThread
      BY <1>5 DEF InterruptReturn, Reschedule, Keep, SwitchTo, IdleFits
    <2>3. Settled(status, wait)
      <3>1. CASE Keep(status, wait, ready)
        BY <3>1 DEF Keep, Settled
      <3>2. CASE current # NoThread /\ Reschedule(status, wait, ready, FALSE)
        BY <3>2, RescheduleSettles DEF SchedInv, ThreadsFit
      <3> QED BY <1>5, <3>1, <3>2 DEF InterruptReturn
    <2>4. EndsWaits({}, {}, Aged(0))
      BY <1>1, <2>1, <2>3, NoWaitEnds
    <2>5. IdleTime' = IdleTime
      BY <2>1, <2>2 DEF IdleTime
    <2> QED BY <2>1, <2>2, <2>4, <2>5, IdleCarriesOver
  <1> QED BY <1>2, <1>3, <1>4, <1>5 DEF SchedNext, Machine, Halted

(* No thread waits at the start. *)
LEMMA NobodyWaitsAtFirst ==
  ASSUME SchedInit
  PROVE  IdleFits /\ NoLostWakeup /\ QueuesExact
  <1>1. \A t \in Threads : status[t] # "Waiting"
    BY DEF SchedInit
  <1>2. IdleFits
    BY <1>1, Zenon DEF SchedInit, IdleFits, Waiting
  <1>3. NoLostWakeup
    BY <1>1 DEF NoLostWakeup
  <1>4. ASSUME NEW o \in Objects PROVE waiters[o] = << >> /\ WaitingOn(o) = {}
    BY <1>1 DEF SchedInit, WaitingOn
  <1>5. QueuesExact
    BY <1>4 DEF QueuesExact, ToSet
  <1> QED BY <1>2, <1>3, <1>5

-----------------------------------------------------------------------------
(* Releases: what the calls on an object do to the threads of its queue.   *)

(* The recursion that defines Releasable. *)
Finds(q, f, n) ==
  f = [i \in 0..n |->
         IF i = 0 THEN << >>
         ELSE IF q[i] \in Waiting /\ q[i] \notin ToSet(f[i - 1])
              THEN Append(f[i - 1], q[i]) ELSE f[i - 1]]

(* Releasable finds among the first i entries the threads that wait, once   *)
(* each, and in an exact queue that is all of them.                         *)
LEMMA ReleasableFacts ==
  ASSUME NEW q \in Seq(Threads \cup {NoThread}), NEW i \in 0..Len(q)
  PROVE  /\ Releasable(q)[i] \in Seq(Threads) /\ IsInjective(Releasable(q)[i])
         /\ ToSet(Releasable(q)[i]) = {q[j] : j \in 1..i} \cap Waiting
         /\ IsInjective(q) /\ ToSet(q) \subseteq Waiting =>
              Releasable(q)[i] = SubSeq(q, 1, i)
  <1> DEFINE n == Len(q)
             G == [j \in 1..n |-> [s \in Seq(Threads) |->
                     IF q[j] \in Waiting /\ q[j] \notin ToSet(s)
                     THEN Append(s, q[j]) ELSE s]]
  <1>1. n \in Nat /\ \A j \in 1..n : q[j] \in Threads \cup {NoThread}
    OBVIOUS
  <1>2. \E f : Finds(q, f, n)
    <2>1. << >> \in Seq(Threads)
      OBVIOUS
    <2>2. G \in [1..n -> [Seq(Threads) -> Seq(Threads)]]
      <3> SUFFICES ASSUME NEW s \in Seq(Threads), NEW j \in 1..n
                   PROVE  q[j] \in Waiting => Append(s, q[j]) \in Seq(Threads)
        OBVIOUS
      <3> QED BY DEF Waiting
    <2>3. \A s \in Seq(Threads), j \in 1..n :
            G[j][s] = IF q[j] \in Waiting /\ q[j] \notin ToSet(s)
                          THEN Append(s, q[j]) ELSE s
      OBVIOUS
    <2> HIDE DEF G, n
    <2>4. PICK f \in [0..n -> Seq(Threads)] : Recurs(f, << >>, G, n)
      BY <1>1, <2>1, <2>2, RecursionSolved
    <2>5. ASSUME NEW j \in 0..n
          PROVE  f[j] = IF j = 0 THEN << >>
                        ELSE IF q[j] \in Waiting /\ q[j] \notin ToSet(f[j - 1])
                             THEN Append(f[j - 1], q[j]) ELSE f[j - 1]
      <3>1. CASE j = 0
        BY <2>4, <3>1 DEF Recurs
      <3>2. CASE j # 0
        <4>1. j \in 1..n /\ j - 1 \in 0..n
          BY <1>1, <3>2
        <4>2. f[j - 1] \in Seq(Threads)
          BY <2>4, <4>1
        <4> QED BY <2>3, <2>4, <3>2, <4>1, <4>2 DEF Recurs
      <3> QED BY <3>1, <3>2
    <2> QED BY <2>4, <2>5 DEF Finds
  <1> DEFINE k == CHOOSE f : Finds(q, f, n)
  <1> HIDE DEF G
  <1>3. Finds(q, k, n)
    BY <1>2
  <1>4. Releasable(q) = k
    BY DEF Releasable, Finds
  <1> DEFINE S(m) == {q[j] : j \in 1..m}
             Exact == IsInjective(q) /\ ToSet(q) \subseteq Waiting
             Good == {m \in Nat : m <= n =>
                        /\ k[m] \in Seq(Threads) /\ IsInjective(k[m])
                        /\ ToSet(k[m]) = S(m) \cap Waiting
                        /\ Exact => k[m] = SubSeq(q, 1, m)}
  <1> HIDE DEF n, k
  <1>5. k[0] = << >>
    BY <1>1, <1>3 DEF Finds
  <1>6. ASSUME NEW m \in Nat, m + 1 <= n
        PROVE  k[m + 1] = IF q[m + 1] \in Waiting /\ q[m + 1] \notin ToSet(k[m])
                          THEN Append(k[m], q[m + 1]) ELSE k[m]
    <2>1. m + 1 \in 0..n /\ m + 1 # 0 /\ (m + 1) - 1 = m
      BY <1>1, <1>6
    <2> QED BY <2>1, <1>3 DEF Finds
  <1>7. 0 \in Good
    <2>1. << >> \in Seq(Threads) /\ ToSet(<< >>) = {} /\ IsInjective(<< >>)
      BY DEF ToSet, IsInjective
    <2>2. SubSeq(q, 1, 0) = << >>
      BY SubSeqEmpty
    <2>3. S(0) = {}
      OBVIOUS
    <2> QED BY <1>5, <2>1, <2>2, <2>3
  <1>8. ASSUME NEW m \in Nat, m \in Good PROVE m + 1 \in Good
    <2> SUFFICES ASSUME m + 1 <= n
                 PROVE  /\ k[m + 1] \in Seq(Threads) /\ IsInjective(k[m + 1])
                        /\ ToSet(k[m + 1]) = S(m + 1) \cap Waiting
                        /\ Exact => k[m + 1] = SubSeq(q, 1, m + 1)
      OBVIOUS
    <2>1. /\ k[m] \in Seq(Threads) /\ IsInjective(k[m])
          /\ ToSet(k[m]) = S(m) \cap Waiting
          /\ Exact => k[m] = SubSeq(q, 1, m)
      BY <1>1, <1>8
    <2>2. S(m + 1) = S(m) \cup {q[m + 1]}
      <3>1. 1..m + 1 = 1..m \cup {m + 1}
        OBVIOUS
      <3> QED BY <3>1
    <2>3. m + 1 \in 1..Len(q)
      BY DEF n
    <2> HIDE DEF S
    <2>4. CASE q[m + 1] \in Waiting /\ q[m + 1] \notin ToSet(k[m])
      <3>1. k[m + 1] = Append(k[m], q[m + 1]) /\ q[m + 1] \in Threads
        BY <1>6, <2>4 DEF Waiting
      <3>2. /\ k[m + 1] \in Seq(Threads)
            /\ ToSet(k[m + 1]) = ToSet(k[m]) \cup {q[m + 1]}
            /\ IsInjective(k[m + 1])
        BY <2>1, <2>4, <3>1, AppendFacts
      <3>3. SubSeq(q, 1, m + 1) = Append(SubSeq(q, 1, m), q[m + 1])
        <4> DEFINE s == SubSeq(q, 1, m)
        <4>1. SubSeq(q, 1, m + 1) = SubSeq(q, 1, (m + 1) - 1) \o <<q[m + 1]>>
          BY <2>3, SubSeqRecursiveSecond
        <4>2. (m + 1) - 1 = m
          OBVIOUS
        <4>3. s \in Seq(Threads \cup {NoThread})
          BY <2>3, SubSeqFacts
        <4>4. q[m + 1] \in Threads \cup {NoThread}
          BY <2>3
        <4> HIDE DEF s
        <4>5. s \o <<q[m + 1]>> = Append(s, q[m + 1])
          BY <4>3, <4>4
        <4> QED BY <4>1, <4>2, <4>5 DEF s
      <3> QED BY <2>1, <2>2, <2>4, <3>1, <3>2, <3>3
    <2>5. CASE ~(q[m + 1] \in Waiting /\ q[m + 1] \notin ToSet(k[m]))
      <3>1. k[m + 1] = k[m]
        BY <1>6, <2>5
      <3>2. ASSUME Exact PROVE FALSE
        <4>1. q[m + 1] \in ToSet(q)
          BY <2>3 DEF ToSet
        <4>2. q[m + 1] \in S(m)
          BY <2>1, <2>5, <3>2, <4>1
        <4>3. PICK j \in 1..m : q[m + 1] = q[j]
          BY <4>2 DEF S
        <4>4. j \in DOMAIN q /\ m + 1 \in DOMAIN q /\ j # m + 1
          BY <2>3
        <4> QED BY <3>2, <4>3, <4>4 DEF IsInjective
      <3> QED BY <2>1, <2>2, <2>5, <3>1, <3>2
    <2> QED BY <2>4, <2>5
  <1>9. i \in Nat /\ i <= n
    BY DEF n
  <1> HIDE DEF Good
  <1>10. i \in Good
    BY <1>7, <1>8, <1>9, NatSetInduction
  <1> QED BY <1>4, <1>9, <1>10 DEF Good

(* The waits of E end; the others go on, for the same request. *)
WaitsShrink(E) ==
  /\ \A o \in Objects : WaitingOn(o)' = WaitingOn(o) \ E
  /\ \A t \in Waiting \ E : SameWait(wait'[t], wait[t])

(* A step that changes nothing. *)
LEMMA SchedInvStays == ASSUME SchedInv, UNCHANGED schedVars PROVE SchedInv'
  <1>1. /\ UNCHANGED <<status, wait, prio, wakeups, ready, current>>
        /\ UNCHANGED <<waiters, dispatch, active, idleIntr, pending, intr>>
        /\ UNCHANGED <<vblankLeft, idleVBlanks, stopped>>
    BY DEF schedVars, threadVars, intrVars
  <1>2. ThreadsFit(status, wait, ready, current)'
    BY <1>1 DEF SchedInv, ThreadsFit
  <1>3. CallsFit' /\ IntrFits'
    BY <1>1 DEF SchedInv, CallsFit, IntrFits
  <1>4. ClockFits'
    BY <1>1 DEF SchedInv, ClockFits, Guest, Timely
  <1> QED BY <1>1, <1>2, <1>3, <1>4 DEF SchedInv

(* A step of the scheduler, seen from the queues: the waits of some threads *)
(* end, those without a deadline only with their threads.                   *)
LEMMA SchedulerShrinks ==
  ASSUME SchedInv, QueuesExact, [SchedNext]_schedVars
  PROVE  /\ SchedInv' /\ QueuesExact'
         /\ \E E \in SUBSET Threads :
              /\ WaitsShrink(E)
              /\ \A t \in E : wait[t].type = "Object" /\ wait[t].left = Forever
                                => status'[t] \in {"Dormant", "Deleted"}
  <1>1. CASE UNCHANGED schedVars
    <2>1. SchedInv' /\ QueuesExact'
      BY <1>1, SchedInvStays DEF schedVars, threadVars, QueuesExact, WaitingOn
    <2>2. WaitsShrink({})
      BY <1>1 DEF schedVars, threadVars, WaitsShrink, WaitingOn, SameWait
    <2> QED BY <2>1, <2>2
  <1>2. ASSUME NEW E \in SUBSET Threads, NEW D, NEW d \in Nat,
               EndsWaits(E, D, Aged(d)), SchedNext
        PROVE  /\ SchedInv' /\ QueuesExact' /\ WaitsShrink(E)
               /\ \A t \in E : wait[t].type = "Object" /\ wait[t].left = Forever
                                 => status'[t] \in {"Dormant", "Deleted"}
    <2>1. SchedInv' \/ UNCHANGED schedVars
      BY <1>2, CallsStep, StarvationStep, ScheduleStep, InterruptReturnStep
         DEF SchedNext, Machine, Halted, StepFits
    <2>2. SchedInv'
      BY <2>1, SchedInvStays
    <2>3. QueuesExact' /\ WaitsShrink(E)
      BY <1>2, QueuesShrink DEF WaitsShrink
    <2> QED BY <1>2, <2>2, <2>3 DEF EndsWaits
  <1> QED BY <1>1, <1>2, StepWaits

(* A call on an object that wakes nobody. *)
LEMMA PlainCallShrinks ==
  ASSUME SchedInv, QueuesExact, PlainCall
  PROVE  SchedInv' /\ QueuesExact' /\ WaitsShrink({})
  <1>1. Guest /\ Finish(status, wait, ready) /\ waiters' = waiters /\ wakeups' = wakeups
    BY DEF PlainCall
  <1>2. Settled(status, wait)
    BY <1>1, FinishSettles DEF SchedInv
  <1>3. EndsWaits({}, {}, wait)
    BY <1>1, <1>2, NoWaitEnds
  <1>4. Aged(0) = wait
    BY AgedNot DEF SchedInv, ThreadsFit
  <1>5. QueuesExact' /\ WaitsShrink({})
    BY <1>3, <1>4, QueuesShrink DEF WaitsShrink
  <1>6. SchedInv'
    BY CallsStep DEF ThreadCalls, StepFits
  <1> QED BY <1>5, <1>6

(* The threads of a sequence are woken by a call. *)
LEMMA WakeFit ==
  ASSUME SchedInv, Guest, NEW order \in Seq(Threads), IsInjective(order),
         ToSet(order) \subseteq Waiting, CallsFit', vblankLeft' = vblankLeft,
         WakeAndFinish(order)
  PROVE  SchedInv'
  <1>1. ThreadsFit(status, wait, ready, current) /\ Timely(status, wait)
    BY DEF SchedInv, ClockFits
  <1>2. \A t \in ToSet(order) : status[t] \notin {"Ready", "Running"}
    BY DEF Waiting
  <1> DEFINE st == MadeReady(status, ToSet(order))
             wt == NotWaiting(wait, ToSet(order))
             rdy == ready \o order
  <1>3. ThreadsFit(st, wt, rdy, current)
    BY <1>1, <1>2, WokenFit
  <1>4. Finish(st, wt, rdy)
    BY DEF WakeAndFinish
  <1>5. Timely(st, wt)
    BY <1>1 DEF Timely, MadeReady, NotWaiting
  <1> HIDE DEF st, wt, rdy
  <1> QED BY <1>3, <1>4, <1>5, FinishFit DEF StepFits

(* A call on o wakes threads of its queue, and r is what it leaves of it. *)
LEMMA ReleaseShrinks ==
  ASSUME SchedInv, QueuesExact, Guest, NEW o \in Objects, NEW order \in Seq(Threads),
         IsInjective(order), ToSet(order) \subseteq WaitingOn(o), WakeAndFinish(order),
         NEW r \in Seq(Threads \cup {NoThread}), IsInjective(r),
         ToSet(r) = WaitingOn(o) \ ToSet(order), waiters' = [waiters EXCEPT ![o] = r],
         UNCHANGED <<prio, wakeups, dispatch, intr, vblankLeft, stopped>>
  PROVE  /\ SchedInv' /\ QueuesExact' /\ WaitsShrink(ToSet(order))
         /\ \A t \in ToSet(order) : status'[t] # "Waiting"
  <1> DEFINE E == ToSet(order)
  <1>1. E \subseteq Waiting
    BY DEF WaitingOn, Waiting
  <1>2. waiters \in [Objects -> Seq(Threads \cup {NoThread})]
    BY DEF SchedInv, CallsFit
  <1>3. CallsFit'
    BY <1>2 DEF SchedInv, CallsFit
  <1>4. SchedInv'
    BY <1>1, <1>3, WakeFit
  <1>5. Settled(MadeReady(status, E), NotWaiting(wait, E))
    BY <1>1, WokenSettle
  <1> HIDE DEF E
  <1>6. /\ \A t \in E : status'[t] # "Waiting"
        /\ \A t \in Waiting \ E : status'[t] = "Waiting" /\ wait'[t] = wait[t]
        /\ \A t \in Threads \ Waiting : status'[t] # "Waiting"
    BY <1>1, <1>5 DEF Settled, Runnable, MadeReady, NotWaiting, Waiting
  <1>7. \A p \in Objects : WaitingOn(p)' = WaitingOn(p) \ E
    BY <1>6 DEF WaitingOn, Waiting
  <1>8. WaitsShrink(E)
    BY <1>6, <1>7 DEF WaitsShrink, SameWait
  <1>9. ASSUME NEW p \in Objects
        PROVE  ToSet(waiters'[p]) = WaitingOn(p)' /\ IsInjective(waiters'[p])
    <2>1. CASE p = o
      BY <1>2, <1>7, <2>1 DEF E
    <2>2. CASE p # o
      <3>1. waiters'[p] = waiters[p] /\ ToSet(waiters[p]) = WaitingOn(p)
            /\ IsInjective(waiters[p])
        BY <1>2, <2>2 DEF QueuesExact, IsInjective
      <3>2. WaitingOn(p) \ E = WaitingOn(p)
        BY <2>2 DEF WaitingOn, E
      <3> QED BY <1>7, <3>1, <3>2
    <2> QED BY <2>1, <2>2
  <1>10. QueuesExact'
    BY <1>9 DEF QueuesExact, IsInjective
  <1> QED BY <1>4, <1>6, <1>8, <1>10 DEF E

(* The queue of an object, where queues are exact. *)
LEMMA QueueFacts ==
  ASSUME SchedInv, QueuesExact, NEW o \in Objects
  PROVE  /\ waiters[o] \in Seq(Threads \cup {NoThread}) /\ IsInjective(waiters[o])
         /\ Len(waiters[o]) \in Nat
         /\ ToSet(waiters[o]) = WaitingOn(o) /\ WaitingOn(o) \subseteq Waiting
         /\ \A i \in 1..Len(waiters[o]) : waiters[o][i] \in WaitingOn(o)
         /\ waiters[o] = << >> <=> WaitingOn(o) = {}
  <1>1. waiters[o] \in Seq(Threads \cup {NoThread})
    BY DEF SchedInv, CallsFit
  <1>2. ToSet(waiters[o]) = WaitingOn(o) /\ IsInjective(waiters[o])
    BY DEF QueuesExact, IsInjective
  <1>3. WaitingOn(o) \subseteq Waiting
    BY DEF WaitingOn, Waiting
  <1> DEFINE q == waiters[o]
  <1> HIDE DEF q
  <1>4. q \in Seq(Threads \cup {NoThread}) /\ ToSet(q) = WaitingOn(o)
    BY <1>1, <1>2 DEF q
  <1>5. \A i \in 1..Len(q) : q[i] \in WaitingOn(o)
    BY <1>4, ToSetFacts
  <1>6. q = << >> <=> WaitingOn(o) = {}
    BY <1>4 DEF ToSet
  <1>7. Len(q) \in Nat
    BY <1>4
  <1> QED BY <1>1, <1>2, <1>3, <1>5, <1>6, <1>7 DEF q

(* The first k entries of the queue are let go. *)
LEMMA FirstReleased ==
  ASSUME SchedInv, QueuesExact, Guest, NEW o \in Objects, NEW k \in 0..Len(waiters[o]),
         waiters' = [waiters EXCEPT ![o] = SubSeq(@, k + 1, Len(@))],
         UNCHANGED <<prio, wakeups, dispatch, intr, vblankLeft, stopped>>,
         WakeAndFinish(Releasable(waiters[o])[k])
  PROVE  /\ SchedInv' /\ QueuesExact'
         /\ WaitsShrink({waiters[o][i] : i \in 1..k})
         /\ \A i \in 1..k : status'[waiters[o][i]] # "Waiting"
         /\ {waiters[o][i] : i \in 1..k} \subseteq WaitingOn(o)
         /\ waiters'[o] = SubSeq(waiters[o], k + 1, Len(waiters[o]))
         /\ k = Len(waiters[o]) => {waiters[o][i] : i \in 1..k} = WaitingOn(o)
         /\ k < Len(waiters[o]) =>
              /\ Head(waiters'[o]) = waiters[o][k + 1]
              /\ waiters[o][k + 1] \in WaitingOn(o) \ {waiters[o][i] : i \in 1..k}
  <1> DEFINE q == waiters[o]
             n == Len(q)
             X == Threads \cup {NoThread}
             order == Releasable(q)[k]
             r == SubSeq(q, k + 1, n)
             E == {q[i] : i \in 1..k}
  <1>1. /\ q \in Seq(X) /\ IsInjective(q) /\ n \in Nat /\ DOMAIN q = 1..n
        /\ ToSet(q) = WaitingOn(o) /\ WaitingOn(o) \subseteq Waiting
        /\ \A i \in 1..n : q[i] \in WaitingOn(o)
    BY QueueFacts
  <1>2. k \in 0..n
    OBVIOUS
  <1>3. waiters' = [waiters EXCEPT ![o] = r] /\ waiters'[o] = r
    <2>1. waiters \in [Objects -> Seq(X)]
      BY DEF SchedInv, CallsFit
    <2> QED BY <2>1
  <1> HIDE DEF q, n, X
  <1>4. /\ order \in Seq(Threads) /\ IsInjective(order)
        /\ ToSet(order) = E
    <2>1. /\ order \in Seq(Threads) /\ IsInjective(order)
          /\ ToSet(order) = E \cap Waiting
      BY <1>1, <1>2, ReleasableFacts DEF n, X
    <2>2. E \subseteq WaitingOn(o)
      BY <1>1, <1>2
    <2> QED BY <1>1, <2>1, <2>2
  <1>5. /\ r \in Seq(X) /\ IsInjective(r) /\ ToSet(r) = ToSet(q) \ E
    BY <1>1, <1>2, SubSeqFacts DEF n
  <1>6. E \subseteq WaitingOn(o)
    BY <1>1, <1>2
  <1>7. WakeAndFinish(order)
    BY DEF q
  <1> HIDE DEF order, r, E
  <1>8. ToSet(order) \subseteq WaitingOn(o) /\ ToSet(r) = WaitingOn(o) \ ToSet(order)
    BY <1>1, <1>4, <1>5, <1>6
  <1>9. /\ SchedInv' /\ QueuesExact' /\ WaitsShrink(ToSet(order))
         /\ \A t \in ToSet(order) : status'[t] # "Waiting"
    BY <1>3, <1>4, <1>5, <1>7, <1>8, ReleaseShrinks DEF X
  <1>10. k = n => E = WaitingOn(o)
    <2> SUFFICES ASSUME k = n PROVE WaitingOn(o) \subseteq E
      BY <1>6
    <2>1. ToSet(q) = {q[i] : i \in 1..n}
      BY <1>1 DEF ToSet
    <2> QED BY <1>1, <2>1 DEF E
  <1>11. k < n => Head(r) = q[k + 1] /\ q[k + 1] \in WaitingOn(o) \ E
    <2> SUFFICES ASSUME k < n PROVE Head(r) = q[k + 1] /\ q[k + 1] \in WaitingOn(o) \ E
      OBVIOUS
    <2>1. k + 1 \in 1..n
      BY <1>1, <1>2
    <2>2. q[k + 1] \notin E
      <3> SUFFICES ASSUME NEW i \in 1..k, q[i] = q[k + 1] PROVE FALSE
        BY DEF E
      <3>1. i \in DOMAIN q /\ k + 1 \in DOMAIN q /\ i # k + 1
        BY <1>1, <1>2, <2>1
      <3> QED BY <1>1, <3>1 DEF IsInjective
    <2>3. r[1] = q[k + 1] /\ Head(r) = r[1]
      <3>1. \A i \in (k + 1)..n : q[i] \in X
        <4>1. \A i \in 1..n : q[i] \in X
          BY <1>1 DEF n
        <4> QED BY <1>2, <4>1
      <3>2. \A i \in 1..(n - (k + 1) + 1) : r[i] = q[k + 1 + i - 1]
        BY <1>1, <1>2, <3>1, SubSeqProperties DEF r
      <3>3. 1 \in 1..(n - (k + 1) + 1) /\ k + 1 + 1 - 1 = k + 1
        BY <1>1, <1>2
      <3>4. r[1] = q[k + 1]
        BY <3>2, <3>3
      <3> QED BY <1>5, <3>4
    <2> QED BY <1>1, <2>1, <2>2, <2>3
  <1> QED BY <1>3, <1>4, <1>6, <1>9, <1>10, <1>11 DEF q, n, r, E

(* The current thread queues for an object. *)
LEMMA BlockQueues ==
  ASSUME SchedInv, QueuesExact, Guest, ~active, NEW o \in Objects,
         NEW request \in Requests, NEW left \in Delays \cup {Forever},
         waiters' = [waiters EXCEPT ![o] = Append(@, current)],
         UNCHANGED <<prio, wakeups, dispatch, intr, vblankLeft, stopped>>,
         Block(WaitOn(o, request, left))
  PROVE  /\ SchedInv' /\ QueuesExact'
         /\ current \in Threads /\ status[current] = "Running"
         /\ WaitingOn(o)' = WaitingOn(o) \cup {current}
         /\ \A p \in Objects \ {o} : WaitingOn(p)' = WaitingOn(p)
         /\ wait' = [wait EXCEPT ![current] = WaitOn(o, request, left)]
         /\ wait'[current].request = request
  <1> DEFINE w == WaitOn(o, request, left)
  <1>1. w \in WaitStates
    BY TimeAssumption DEF WaitOn, WaitStates, WaitTypes, TimeAssumption
  <1>2. w.type = "Object" /\ w.object = o /\ w.request = request
    BY DEF WaitOn
  <1>3. Block(w)
    OBVIOUS
  <1> HIDE DEF w
  <1>4. /\ current \in Threads /\ status[current] = "Running"
        /\ status \in [Threads -> Statuses] /\ wait \in [Threads -> WaitStates]
        /\ waiters \in [Objects -> Seq(Threads \cup {NoThread})]
    BY DEF SchedInv, ThreadsFit, CallsFit, Guest
  <1>5. CallsFit'
    <2>1. Append(waiters[o], current) \in Seq(Threads \cup {NoThread})
      BY <1>4
    <2>2. waiters' \in [Objects -> Seq(Threads \cup {NoThread})]
      BY <1>4, <2>1
    <2> QED BY <2>2 DEF SchedInv, CallsFit
  <1>6. SchedInv'
    BY <1>1, <1>2, <1>3, <1>5, BlockFit DEF StepFits
  <1>7. /\ status' = [status EXCEPT ![current] = "Waiting"]
        /\ wait' = [wait EXCEPT ![current] = w]
    BY <1>3 DEF Block
  <1>8. WaitingOn(o)' = WaitingOn(o) \cup {current}
    BY <1>2, <1>4, <1>7 DEF WaitingOn
  <1>9. \A p \in Objects \ {o} : WaitingOn(p)' = WaitingOn(p)
    BY <1>2, <1>4, <1>7 DEF WaitingOn
  <1>10. ASSUME NEW p \in Objects
         PROVE  ToSet(waiters'[p]) = WaitingOn(p)' /\ IsInjective(waiters'[p])
    <2>1. /\ waiters[p] \in Seq(Threads \cup {NoThread}) /\ IsInjective(waiters[p])
          /\ ToSet(waiters[p]) = WaitingOn(p)
      BY <1>4 DEF QueuesExact, IsInjective
    <2>2. current \notin WaitingOn(p)
      BY <1>4 DEF WaitingOn
    <2>3. CASE p = o
      <3>1. waiters'[p] = Append(waiters[p], current)
        BY <1>4, <2>3
      <3>2. current \in Threads \cup {NoThread}
        BY <1>4
      <3>3. current \notin ToSet(waiters[p])
        BY <2>1, <2>2
      <3> DEFINE q == waiters[p]
                 X == Threads \cup {NoThread}
      <3> HIDE DEF q, X
      <3>4. q \in Seq(X) /\ IsInjective(q) /\ current \in X /\ current \notin ToSet(q)
        BY <2>1, <3>2, <3>3 DEF q, X
      <3>5. /\ ToSet(Append(q, current)) = ToSet(q) \cup {current}
            /\ IsInjective(Append(q, current))
        BY <3>4, AppendFacts
      <3>6. ToSet(Append(q, current)) = WaitingOn(p) \cup {current}
        BY <2>1, <3>5 DEF q
      <3>7. WaitingOn(p)' = WaitingOn(p) \cup {current}
        BY <1>8, <2>3
      <3>8. waiters'[p] = Append(q, current)
        BY <3>1 DEF q
      <3> QED BY <3>5, <3>6, <3>7, <3>8
    <2>4. CASE p # o
      BY <1>4, <1>9, <2>1, <2>4
    <2> QED BY <2>3, <2>4
  <1>11. QueuesExact'
    BY <1>10 DEF QueuesExact, IsInjective
  <1> QED BY <1>2, <1>4, <1>6, <1>7, <1>8, <1>9, <1>11 DEF w

-----------------------------------------------------------------------------
(* The theorems.                                                           *)

(* The loader thread runs alone. *)
LEMMA InitFits ==
  ASSUME SchedInit
  PROVE  SchedInv /\ UrgentThreadRuns
  <1> USE ThreadsAssumption DEF ThreadsAssumption
  <1>1. ready = << >> /\ current = Loader /\ status[Loader] = "Running"
        /\ status = [t \in Threads |-> IF t = Loader THEN "Running" ELSE "Uncreated"]
    BY DEF SchedInit
  <1>2. status \in [Threads -> Statuses]
    BY <1>1 DEF Statuses
  <1>3. wait = [t \in Threads |-> NoWait] /\ wait \in [Threads -> WaitStates]
    BY WaitFacts DEF SchedInit
  <1>4. ready \in Seq(Threads) /\ IsInjective(ready) /\ ToSet(ready) = {}
    BY <1>1 DEF ToSet, IsInjective
  <1>5. \A t \in Threads : /\ status[t] # "Waiting" /\ status[t] # "Ready"
                           /\ status[t] = "Running" <=> t = current
    BY <1>1
  <1>6. ThreadsFit(status, wait, ready, current)
    BY <1>1, <1>2, <1>3, <1>4, <1>5 DEF ThreadsFit
  <1>7. CallsFit
    <2>1. prio \in [Threads -> Priorities] /\ wakeups \in [Threads -> Nat]
      BY DEF SchedInit
    <2>2. waiters \in [Objects -> Seq(Threads \cup {NoThread})]
      BY DEF SchedInit
    <2>3. dispatch \in BOOLEAN /\ intr \in BOOLEAN /\ stopped \in BOOLEAN
      BY Zenon DEF SchedInit
    <2> QED BY <2>1, <2>2, <2>3 DEF CallsFit
  <1>8. IntrFits
    <2>1. active \in BOOLEAN /\ idleIntr \in BOOLEAN
      BY Zenon DEF SchedInit
    <2>2. pending \in 0..MaxPending
      BY TimeAssumption DEF SchedInit, TimeAssumption
    <2> QED BY <2>1, <2>2, Zenon DEF IntrFits
  <1>9. ClockFits
    BY <1>5, TimeAssumption DEF SchedInit, ClockFits, Timely, TimeAssumption
  <1>10. UrgentThreadRuns
    BY <1>5 DEF UrgentThreadRuns
  <1> QED BY <1>6, <1>7, <1>8, <1>9, <1>10 DEF SchedInv

(* Every step of the specification. *)
LEMMA StepFitsAll ==
  ASSUME SchedInv, UrgentThreadRuns, [SchedNext]_schedVars
  PROVE  SchedInv' /\ UrgentThreadRuns' /\ (LosesCpuByRule \/ UNCHANGED schedVars)
  <1>1. CASE UNCHANGED schedVars
    BY <1>1 DEF schedVars, threadVars, intrVars, SchedInv, UrgentThreadRuns,
                ThreadsFit, CallsFit, IntrFits, ClockFits, Guest, Timely
  <1>2. CASE SchedNext
    <2>1. StepFits \/ UNCHANGED schedVars
      BY <1>2, CallsStep, StarvationStep, ScheduleStep, InterruptReturnStep
         DEF SchedNext, Machine, Halted
    <2> QED BY <2>1, <1>1 DEF StepFits
  <1> QED BY <1>1, <1>2

(* The inductive invariant, with the property it does not need, holds. *)
LEMMA SchedInvHolds == SchedSpec => [](SchedInv /\ UrgentThreadRuns)
  <1>1. SchedInit => SchedInv /\ UrgentThreadRuns
    BY InitFits
  <1>2. SchedInv /\ UrgentThreadRuns /\ [SchedNext]_schedVars
          => (SchedInv /\ UrgentThreadRuns)'
    BY StepFitsAll
  <1> QED BY <1>1, <1>2, PTL DEF SchedSpec

(* The invariant is stronger than the types. *)
LEMMA TypesFit == ASSUME SchedInv PROVE SchedTypeOK
  <1>1. /\ status \in [Threads -> {"Uncreated", "Dormant", "Ready", "Running",
                                   "Waiting", "Deleted"}]
        /\ wait \in [Threads -> WaitStates] /\ ready \in Seq(Threads)
        /\ current \in Threads \cup {NoThread}
    BY DEF SchedInv, ThreadsFit, Statuses
  <1>2. /\ prio \in [Threads -> Priorities] /\ wakeups \in [Threads -> Nat]
        /\ waiters \in [Objects -> Seq(Threads \cup {NoThread})]
    BY DEF SchedInv, CallsFit
  <1>3. {dispatch, intr, active, idleIntr, stopped} \subseteq BOOLEAN
    BY Zenon DEF SchedInv, CallsFit, IntrFits
  <1>4. pending \in 0..MaxPending /\ vblankLeft \in 0..VBlankPeriod
        /\ idleVBlanks \in 0..IdleVBlankLimit + 1
    BY DEF SchedInv, IntrFits, ClockFits
  <1> QED BY <1>1, <1>2, <1>3, <1>4, Zenon DEF SchedTypeOK

(* Every variable keeps its type: deadlines and the vblank clock never run  *)
(* below zero, the interrupt queue and the idle count keep their bounds.    *)
THEOREM SchedTypes == SchedSpec => []SchedTypeOK
  <1>1. SchedInv => SchedTypeOK
    BY TypesFit
  <1> QED BY <1>1, SchedInvHolds, PTL

(* The run queue is exact for any number of threads, priorities and objects: *)
(* one thread runs, and every other runnable one stands in the queue once.   *)
THEOREM RunQueueIsExact == SchedSpec => []RunQueueExact
  <1>1. SchedInv => RunQueueExact
    <2> SUFFICES ASSUME SchedInv PROVE RunQueueExact
      OBVIOUS
    <2>1. \A i, j \in DOMAIN ready : ready[i] = ready[j] => i = j
      BY DEF SchedInv, ThreadsFit, IsInjective
    <2> QED BY <2>1 DEF SchedInv, ThreadsFit, RunQueueExact
  <1> QED BY <1>1, SchedInvHolds, PTL

(* Guest code never runs past a deadline that somebody still waits for. *)
THEOREM NobodyOverdue == SchedSpec => []NoOverdueWait
  <1>1. SchedInv => NoOverdueWait
    BY DEF SchedInv, ClockFits, Timely, NoOverdueWait
  <1> QED BY <1>1, SchedInvHolds, PTL

(* The running thread is the most urgent one whenever it may be preempted. *)
THEOREM MostUrgentRuns == SchedSpec => []UrgentThreadRuns
  BY SchedInvHolds, PTL

(* Threads lose the CPU only by waiting, ending or being outranked. *)
THEOREM CpuLostByRule == SchedSpec => CpuLostOnlyByRule
  <1>1. SchedInv /\ UrgentThreadRuns /\ [SchedNext]_schedVars
          => [LosesCpuByRule]_schedVars
    BY StepFitsAll
  <1> QED BY <1>1, SchedInvHolds, PTL DEF SchedSpec, CpuLostOnlyByRule

(* A wakeup for a thread that sleeps wakes it, and one that came first is   *)
(* taken before the thread sleeps.                                          *)
THEOREM NoWakeupIsLost == SchedSpec => []NoLostWakeup
  <1>1. ASSUME SchedInv, NoLostWakeup, [SchedNext]_schedVars PROVE NoLostWakeup'
    <2>1. CASE UNCHANGED schedVars
      BY <1>1, <2>1 DEF schedVars, threadVars, NoLostWakeup
    <2>2. ASSUME NEW E, NEW D, NEW d \in Nat, EndsWaits(E, D, Aged(d)) PROVE NoLostWakeup'
      <3> SUFFICES ASSUME NEW t \in Threads, status'[t] = "Waiting", wait'[t].type = "Sleep"
                   PROVE  wakeups'[t] = 0
        BY DEF NoLostWakeup
      <3>1. CASE t \in Waiting
        <4>1. wait'[t] = Aged(d)[t] /\ t \notin E /\ status[t] = "Waiting"
          BY <2>2, <3>1 DEF EndsWaits, Waiting
        <4>2. wait[t].type = "Sleep"
          BY <1>1, <4>1, AgedSame DEF SchedInv, ThreadsFit, SameWaits, SameWait
        <4>3. wakeups'[t] = wakeups[t]
          BY <2>2, <3>1, <4>1, <4>2 DEF EndsWaits
        <4> QED BY <1>1, <4>1, <4>2, <4>3 DEF NoLostWakeup
      <3>2. CASE t \notin Waiting
        BY <2>2, <3>2 DEF EndsWaits, FreshWait
      <3> QED BY <3>1, <3>2
    <2> QED BY <1>1, <2>1, <2>2, StepWaits
  <1>2. SchedInit => NoLostWakeup
    BY NobodyWaitsAtFirst
  <1> QED BY <1>1, <1>2, SchedInvHolds, PTL DEF SchedSpec

(* When the loop reports a deadlock, no deadline and no vblank could still  *)
(* end a wait: provided no wait outlasts the vblanks that are counted.      *)
THEOREM DeadlocksAreReal == DelaysFit => (SchedSpec => []DeadlockIsReal)
  <1> SUFFICES ASSUME DelaysFit PROVE SchedSpec => []DeadlockIsReal
    OBVIOUS
  <1>1. SchedInit => IdleFits
    BY NobodyWaitsAtFirst
  <1>2. ASSUME SchedInv, IdleFits, [SchedNext]_schedVars PROVE IdleFits'
    <2>1. CASE UNCHANGED schedVars
      BY <1>2, <2>1 DEF schedVars, threadVars, intrVars, IdleFits, IdleTime, Waiting,
                        DeadlockIsReal
    <2> QED BY <1>2, <2>1, IdleStep
  <1>3. IdleFits => DeadlockIsReal
    BY DEF IdleFits, DeadlockIsReal
  <1> QED BY <1>1, <1>2, <1>3, SchedInvHolds, PTL DEF SchedSpec
=============================================================================
