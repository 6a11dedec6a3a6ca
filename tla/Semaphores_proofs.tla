-------------------------- MODULE Semaphores_proofs --------------------------
(****************************************************************************)
(* Proofs about the semaphores: queues, counts and the promise of           *)
(* CountingSemaphore.  They hold where interrupt handlers do not call       *)
(* functions that wait: WaitSema in a handler would leave the entry of a    *)
(* thread that does not wait (see the README).                              *)
(****************************************************************************)
EXTENDS Semaphores, Scheduler_proofs

(* What waits on a semaphore is satisfiable while it lives. *)
ClaimsFit ==
  \A o \in Objects : \A t \in WaitingOn(o) :
    Live(o) /\ wait[t].request \in 1..MaxCount[o]

CountsFit ==
  /\ semaState \in [Objects -> {"Uncreated", "Live", "Deleted"}]
  /\ count \in [Objects -> Int]
  /\ \A o \in Objects : count[o] \in -IntLimit..MaxCount[o]

(* The inductive invariant. *)
SemaInv == SchedInv /\ QueuesExact /\ CountsFit /\ ClaimsFit

(* What the threads that wait on o ask for: the claims of Abstract(o). *)
Claims(o) == [t \in Threads |-> IF t \in WaitingOn(o) THEN wait[t].request ELSE 0]

LEMMA LimitFacts ==
  /\ IntLimit \in Nat /\ IntLimit > 0
  /\ \A o \in Objects :
       MaxCount[o] \in Nat /\ MaxCount[o] > 0 /\ MaxCount[o] < IntLimit
  /\ \A n \in Signals : n \in Int
  <1>1. IntLimit \in Nat /\ IntLimit > 0
    BY SemaphoreAssumption DEF SemaphoreAssumption
  <1>2. \A o \in Objects : MaxCount[o] \in 1..IntLimit - 1
    BY SemaphoreAssumption DEF SemaphoreAssumption
  <1>3. Signals \subseteq Int
    BY SemaphoreAssumption DEF SemaphoreAssumption, Ints
  <1> QED BY <1>1, <1>2, <1>3

(* A word holds what fits, and something that fits when nothing does. *)
LEMMA WrapFacts ==
  ASSUME NEW x \in Int
  PROVE  /\ Wrap(x, IntLimit) \in Int
         /\ -IntLimit <= Wrap(x, IntLimit) /\ Wrap(x, IntLimit) < IntLimit
         /\ -IntLimit <= x /\ x < IntLimit => Wrap(x, IntLimit) = x
  <1> DEFINE y == x + IntLimit
             m == 2 * IntLimit
  <1>1. IntLimit \in Nat /\ IntLimit > 0 /\ y \in Int /\ m \in Nat /\ m > 0
    BY LimitFacts
  <1>2. Wrap(x, IntLimit) = (y % m) - IntLimit
    BY DEF Wrap
  <1>3. m = IntLimit + IntLimit /\ x = y - IntLimit
    BY <1>1
  <1> HIDE DEF y, m
  <1>4. y % m \in Int /\ 0 <= y % m /\ y % m < m
    BY <1>1
  <1>5. 0 <= y /\ y < m => y % m = y
    BY <1>1
  <1> QED BY <1>1, <1>2, <1>3, <1>4, <1>5

(* The recursion that defines Remaining. *)
Pays(q, f, c, n) ==
  f = [i \in 0..n |->
         IF i = 0 THEN c
         ELSE IF Releasable(q)[i] = Releasable(q)[i - 1] THEN f[i - 1]
              ELSE f[i - 1] - Requested(q[i])]

(* Where the queue is exact every entry counts. *)
LEMMA EveryEntryCounts ==
  ASSUME SchedInv, QueuesExact, NEW o \in Objects, NEW i \in 1..Len(waiters[o])
  PROVE  Releasable(waiters[o])[i] # Releasable(waiters[o])[i - 1]
  <1> DEFINE q == waiters[o]
  <1>1. q \in Seq(Threads \cup {NoThread}) /\ IsInjective(q) /\ ToSet(q) \subseteq Waiting
        /\ Len(q) \in Nat
    BY QueueFacts
  <1> HIDE DEF q
  <1>2. i \in 0..Len(q) /\ i - 1 \in 0..Len(q) /\ i # i - 1
    BY <1>1 DEF q
  <1>3. Releasable(q)[i] = SubSeq(q, 1, i) /\ Releasable(q)[i - 1] = SubSeq(q, 1, i - 1)
    BY <1>1, <1>2, ReleasableFacts
  <1>4. Len(SubSeq(q, 1, i)) = i /\ Len(SubSeq(q, 1, i - 1)) = i - 1
    BY <1>1, <1>2, SubSeqFacts
  <1> QED BY <1>2, <1>3, <1>4 DEF q

(* Where the queue is exact every entry is paid for. *)
LEMMA RemainingFacts ==
  ASSUME SchedInv, QueuesExact, ClaimsFit, NEW o \in Objects, NEW c \in Int
  PROVE  /\ Remaining(waiters[o], c)[0] = c
         /\ \A i \in 0..Len(waiters[o]) : Remaining(waiters[o], c)[i] \in Int
         /\ \A i \in 1..Len(waiters[o]) :
              Remaining(waiters[o], c)[i] =
                Remaining(waiters[o], c)[i - 1] - Claims(o)[waiters[o][i]]
  <1> DEFINE q == waiters[o]
             n == Len(q)
             pay(i) == Requested(q[i])
             G == [i \in 1..n |-> [x \in Int |-> x - pay(i)]]
  <1>1. /\ q \in Seq(Threads \cup {NoThread}) /\ IsInjective(q) /\ ToSet(q) \subseteq Waiting
        /\ n \in Nat /\ \A i \in 1..n : q[i] \in WaitingOn(o)
    BY QueueFacts
  <1> HIDE DEF q, n
  <1>2. \A i \in 1..n : pay(i) = Claims(o)[q[i]] /\ pay(i) \in Int
    <2> SUFFICES ASSUME NEW i \in 1..n PROVE pay(i) = Claims(o)[q[i]] /\ pay(i) \in Int
      OBVIOUS
    <2>1. q[i] \in WaitingOn(o)
      BY <1>1
    <2>2. /\ q[i] \in Threads /\ wait[q[i]].type = "Object"
          /\ wait[q[i]].request \in 1..MaxCount[o]
      BY <2>1 DEF ClaimsFit, WaitingOn
    <2>3. MaxCount[o] \in Nat
      BY SemaphoreAssumption DEF SemaphoreAssumption
    <2> QED BY <2>1, <2>2, <2>3 DEF Requested, Claims
  <1>3. \A i \in 1..n : Releasable(q)[i] # Releasable(q)[i - 1]
    BY EveryEntryCounts DEF q, n
  <1> HIDE DEF pay
  <1>4. G \in [1..n -> [Int -> Int]]
    BY <1>2
  <1>5. \A i \in 1..n, x \in Int : G[i][x] = x - pay(i)
    OBVIOUS
  <1> HIDE DEF G
  <1>6. PICK f \in [0..n -> Int] : Recurs(f, c, G, n)
    BY <1>1, <1>4, RecursionSolved
  <1>7. ASSUME NEW i \in 0..n, i # 0
        PROVE  /\ f[i] = f[i - 1] - pay(i) /\ i \in 1..n /\ i - 1 \in 0..n
    <2>1. i \in 1..n /\ i - 1 \in 0..n
      BY <1>1, <1>7
    <2> QED BY <1>5, <1>6, <2>1 DEF Recurs
  <1>8. Pays(q, f, c, n)
    <2>1. ASSUME NEW i \in 0..n
          PROVE  f[i] = IF i = 0 THEN c
                        ELSE IF Releasable(q)[i] = Releasable(q)[i - 1] THEN f[i - 1]
                             ELSE f[i - 1] - Requested(q[i])
      <3>1. CASE i = 0
        BY <1>6, <3>1 DEF Recurs
      <3>2. CASE i # 0
        BY <1>3, <1>7, <3>2 DEF pay
      <3> QED BY <3>1, <3>2
    <2> QED BY <1>6, <2>1 DEF Pays
  <1> DEFINE k == CHOOSE g : Pays(q, g, c, n)
  <1>9. Pays(q, k, c, n)
    BY <1>8
  <1>10. Remaining(q, c) = k
    BY DEF Remaining, Pays, n
  <1> HIDE DEF k
  <1>11. k[0] = c
    BY <1>1, <1>9 DEF Pays
  <1>12. \A i \in 1..n : k[i] = k[i - 1] - pay(i)
    <2> SUFFICES ASSUME NEW i \in 1..n PROVE k[i] = k[i - 1] - pay(i)
      OBVIOUS
    <2>1. i \in 0..n /\ i # 0
      BY <1>1
    <2>2. k[i] = IF i = 0 THEN c
                 ELSE IF Releasable(q)[i] = Releasable(q)[i - 1] THEN k[i - 1]
                      ELSE k[i - 1] - Requested(q[i])
      BY <1>9, <2>1 DEF Pays
    <2> QED BY <1>3, <2>1, <2>2 DEF pay
  <1> DEFINE Good == {i \in Nat : i <= n => k[i] \in Int}
  <1>13. 0 \in Good
    BY <1>11
  <1>14. ASSUME NEW i \in Nat, i \in Good PROVE i + 1 \in Good
    <2> SUFFICES ASSUME i + 1 <= n PROVE k[i + 1] \in Int
      OBVIOUS
    <2>1. i + 1 \in 1..n /\ (i + 1) - 1 = i /\ k[i] \in Int
      BY <1>1, <1>14
    <2> QED BY <1>2, <1>12, <2>1
  <1> HIDE DEF Good
  <1>15. Nat \subseteq Good
    BY <1>13, <1>14, NatSetInduction
  <1>16. \A i \in 0..n : k[i] \in Int
    BY <1>1, <1>15 DEF Good
  <1> QED BY <1>2, <1>10, <1>11, <1>12, <1>16 DEF q, n

(* What has been paid is the sum of what the first k threads asked for, at  *)
(* least one unit each.                                                     *)
LEMMA PaidFacts ==
  ASSUME SchedInv, QueuesExact, ClaimsFit, NEW o \in Objects, NEW c \in Int,
         NEW k \in 0..Len(waiters[o])
  PROVE  /\ Remaining(waiters[o], c)[k] =
              c - SumOver(Claims(o), {waiters[o][i] : i \in 1..k})
         /\ SumOver(Claims(o), {waiters[o][i] : i \in 1..k}) \in Int
         /\ Remaining(waiters[o], c)[k] <= c - k
  <1> DEFINE q == waiters[o]
             n == Len(q)
             f == Claims(o)
             S(i) == {q[j] : j \in 1..i}
             R == Remaining(q, c)
             Good == {i \in Nat : i <= n => R[i] = c - SumOver(f, S(i)) /\ R[i] <= c - i}
  <1>1. /\ n \in Nat /\ IsInjective(q) /\ DOMAIN q = 1..n
        /\ \A i \in 1..n : q[i] \in WaitingOn(o)
    BY QueueFacts
  <1>2. /\ R[0] = c /\ \A i \in 0..n : R[i] \in Int
        /\ \A i \in 1..n : R[i] = R[i - 1] - f[q[i]]
    BY RemainingFacts
  <1>3. WaitingOn(o) \in SUBSET Threads /\ IsFiniteSet(WaitingOn(o))
    BY ThreadsAssumption, FS_Subset DEF ThreadsAssumption, WaitingOn
  <1>4. f \in [Threads -> Int] /\ \A t \in WaitingOn(o) : f[t] \in Int /\ f[t] >= 1
    <2>1. \A t \in WaitingOn(o) : wait[t].request \in 1..MaxCount[o] /\ MaxCount[o] \in Nat
      BY SemaphoreAssumption DEF ClaimsFit, SemaphoreAssumption
    <2>2. \A t \in WaitingOn(o) : wait[t].request \in Int /\ wait[t].request >= 1
      BY <2>1
    <2>3. \A t \in WaitingOn(o) : t \in Threads
      BY <1>3
    <2> QED BY <2>2, <2>3 DEF Claims
  <1>5. /\ SumOver(f, {}) = 0
        /\ \A T \in SUBSET Threads : SumOver(f, T) \in Int
        /\ \A T \in SUBSET Threads : \A x \in T : SumOver(f, T) = f[x] + SumOver(f, T \ {x})
    <2>1. IsFiniteSet(Threads)
      BY ThreadsAssumption DEF ThreadsAssumption
    <2> HIDE DEF f
    <2> QED BY <1>4, <2>1, SumFacts
  <1> HIDE DEF q, n, f, R
  <1>6. 0 \in Good
    <2>1. S(0) = {}
      OBVIOUS
    <2> HIDE DEF S
    <2>2. R[0] = c - SumOver(f, S(0))
      BY <1>2, <1>5, <2>1
    <2> QED BY <1>2, <2>2
  <1>7. ASSUME NEW i \in Nat, i \in Good PROVE i + 1 \in Good
    <2> SUFFICES ASSUME i + 1 <= n
                 PROVE  /\ R[i + 1] = c - SumOver(f, S(i + 1)) /\ R[i + 1] <= c - (i + 1)
      OBVIOUS
    <2>1. /\ i + 1 \in 1..n /\ i \in 0..n /\ (i + 1) - 1 = i
          /\ R[i] = c - SumOver(f, S(i)) /\ R[i] <= c - i
      BY <1>1, <1>7
    <2>2. /\ R[i + 1] = R[i] - f[q[i + 1]] /\ R[i] \in Int
          /\ f[q[i + 1]] \in Int /\ f[q[i + 1]] >= 1
      BY <1>1, <1>2, <1>4, <2>1
    <2>3. S(i + 1) = S(i) \cup {q[i + 1]}
      <3>1. 1..i + 1 = 1..i \cup {i + 1}
        OBVIOUS
      <3> QED BY <3>1
    <2>4. q[i + 1] \notin S(i)
      <3> SUFFICES ASSUME NEW j \in 1..i, q[j] = q[i + 1] PROVE FALSE
        OBVIOUS
      <3>1. j \in DOMAIN q /\ i + 1 \in DOMAIN q /\ j # i + 1
        BY <1>1, <2>1
      <3> QED BY <1>1, <3>1 DEF IsInjective
    <2>5. S(i + 1) \in SUBSET Threads
      <3> SUFFICES ASSUME NEW j \in 1..i + 1 PROVE q[j] \in Threads
        OBVIOUS
      <3>1. j \in 1..n
        BY <1>1, <2>1
      <3> QED BY <1>1, <1>3, <3>1
    <2>6. S(i) \in SUBSET Threads
      BY <2>3, <2>5
    <2> HIDE DEF S
    <2>7. S(i + 1) \ {q[i + 1]} = S(i) /\ q[i + 1] \in S(i + 1)
      BY <2>3, <2>4
    <2>8. SumOver(f, S(i + 1)) = f[q[i + 1]] + SumOver(f, S(i))
      BY <1>5, <2>5, <2>7
    <2>9. SumOver(f, S(i)) \in Int
      BY <1>5, <2>6
    <2> QED BY <2>1, <2>2, <2>8, <2>9
  <1> HIDE DEF Good
  <1>8. Nat \subseteq Good
    BY <1>6, <1>7, NatSetInduction
  <1>9. k \in Nat /\ k <= n
    BY <1>1 DEF n, q
  <1>10. R[k] = c - SumOver(f, S(k)) /\ R[k] <= c - k
    BY <1>8, <1>9 DEF Good
  <1>11. S(k) \in SUBSET Threads
    <2> SUFFICES ASSUME NEW i \in 1..k PROVE q[i] \in Threads
      OBVIOUS
    <2>1. i \in 1..n
      BY <1>1, <1>9
    <2> QED BY <1>1, <1>3, <2>1
  <1>12. SumOver(f, S(k)) \in Int
    BY <1>5, <1>11
  <1> QED BY <1>10, <1>12 DEF R, f, q

-----------------------------------------------------------------------------
(* What the promise sees.                                                  *)

(* The claims of Abstract(o) are those of the waiting threads. *)
LEMMA ClaimantsWait ==
  ASSUME ClaimsFit, NEW o \in Objects
  PROVE  /\ Abstract(o)!Claimants = WaitingOn(o)
         /\ \A S : Abstract(o)!Claimed(S) = SumOver(Claims(o), S)
         /\ \A x, limit : Abstract(o)!Wrap(x, limit) = Wrap(x, limit)
  <1>1. \A t \in WaitingOn(o) : t \in Threads /\ wait[t].request > 0
    <2>1. MaxCount[o] \in Nat
      BY SemaphoreAssumption DEF SemaphoreAssumption
    <2> QED BY <2>1 DEF ClaimsFit, WaitingOn
  <1>2. Abstract(o)!Claimants = WaitingOn(o)
    BY <1>1 DEF Abstract!Claimants
  <1>3. \A S : Abstract(o)!Claimed(S) = SumOver(Claims(o), S)
    BY DEF Abstract!Claimed, Abstract!MapThenSumSet, Abstract!MapThenFoldSet,
           SumOver, Claims
  <1>4. \A x, limit : Abstract(o)!Wrap(x, limit) = Wrap(x, limit)
    BY DEF Abstract!Wrap, Wrap
  <1> QED BY <1>2, <1>3, <1>4

(* When the waits of E end, so do their claims and no other. *)
LEMMA ClaimsCleared ==
  ASSUME NEW o \in Objects, NEW E, WaitsShrink(E), NEW S,
         WaitingOn(o) \cap S = WaitingOn(o) \cap E
  PROVE  Claims(o)' = [t \in Threads |-> IF t \in S THEN 0 ELSE Claims(o)[t]]
  <1>1. WaitingOn(o)' = WaitingOn(o) \ S
    BY DEF WaitsShrink
  <1>2. \A t \in WaitingOn(o) \ S : wait'[t].request = wait[t].request
    BY DEF WaitsShrink, SameWait, WaitingOn, Waiting
  <1> QED BY <1>1, <1>2 DEF Claims

(* Claims end without units: the promise allows it at any time. *)
LEMMA Withdrawn ==
  ASSUME ClaimsFit, NEW o \in Objects, NEW E, WaitsShrink(E),
         Live(o)' = Live(o), count'[o] = count[o]
  PROVE  Abstract(o)!AbsNext
  <1> DEFINE S == WaitingOn(o) \cap E
  <1>1. Claims(o)' = [t \in Threads |-> IF t \in S THEN 0 ELSE Claims(o)[t]]
    <2>1. WaitingOn(o) \cap S = WaitingOn(o) \cap E
      OBVIOUS
    <2> HIDE DEF S
    <2> QED BY <2>1, ClaimsCleared
  <1>2. S \in SUBSET Abstract(o)!Claimants
    BY ClaimantsWait
  <1> HIDE DEF S
  <1>3. \E T \in SUBSET Abstract(o)!Claimants : Abstract(o)!Withdraw(T)
    BY <1>1, <1>2 DEF Abstract!Withdraw, Abstract!Cleared, Claims
  <1> QED BY <1>3, Zenon DEF Abstract!AbsNext

(* New units meet the claims of S, and what remains is too little for one   *)
(* of the others.                                                           *)
LEMMA Supplied ==
  ASSUME ClaimsFit, NEW o \in Objects, Live(o), Live(o)',
         NEW n \in Signals, NEW S \in SUBSET WaitingOn(o),
         WaitsShrink(S),
         count'[o] = Signalled(o, n) - SumOver(Claims(o), S),
         count'[o] <= MaxCount[o],
         S # {} => count'[o] >= 0,
         S # WaitingOn(o) => \E t \in WaitingOn(o) \ S : Claims(o)[t] > count'[o]
  PROVE  Supplies(o, n) /\ Abstract(o)!AbsNext
  <1>1. Claims(o)' = [t \in Threads |-> IF t \in S THEN 0 ELSE Claims(o)[t]]
    BY ClaimsCleared
  <1>2. S \in SUBSET Abstract(o)!Claimants /\ Abstract(o)!Claimants = WaitingOn(o)
        /\ Abstract(o)!Claimed(S) = SumOver(Claims(o), S)
        /\ Abstract(o)!Wrap(count[o] + n, IntLimit) = Signalled(o, n)
    BY ClaimantsWait DEF Signalled
  <1>3. Abstract(o)!Supply(n, S)
    BY <1>1, <1>2 DEF Abstract!Supply, Abstract!Cleared, Claims
  <1>4. Supplies(o, n)
    BY <1>3 DEF Supplies
  <1>5. \E m \in Signals, T \in SUBSET Abstract(o)!Claimants : Abstract(o)!Supply(m, T)
    BY <1>2, <1>3
  <1>6. Abstract(o)!AbsNext
    BY <1>5, Zenon DEF Abstract!AbsNext
  <1> QED BY <1>4, <1>6

-----------------------------------------------------------------------------
(* The steps.                                                              *)

(* What is shown of every step. *)
StepKeeps ==
  /\ SemaInv'
  /\ \A o \in Objects : count'[o] # count[o] => HeadIsBlocked(o)'
  /\ \A o \in Objects : UNCHANGED Abstract(o)!absVars \/ Abstract(o)!AbsNext

(* Claims that go on still fit. *)
LEMMA ClaimsStillFit ==
  ASSUME ClaimsFit, NEW E, WaitsShrink(E),
         \A o \in Objects : Live(o) /\ WaitingOn(o) \ E # {} => Live(o)'
  PROVE  ClaimsFit'
  <1> SUFFICES ASSUME NEW o \in Objects, NEW t \in WaitingOn(o) \ E
               PROVE  Live(o)' /\ wait'[t].request \in 1..MaxCount[o]
    BY DEF ClaimsFit, WaitsShrink
  <1>1. Live(o) /\ wait[t].request \in 1..MaxCount[o]
    BY DEF ClaimsFit
  <1>2. t \in Waiting \ E
    BY DEF WaitingOn, Waiting
  <1>3. wait'[t].request = wait[t].request
    BY <1>2 DEF WaitsShrink, SameWait
  <1> QED BY <1>1, <1>3

(* A step of the scheduler. *)
LEMMA SchedulerKeeps ==
  ASSUME SemaInv, [SchedNext]_schedVars, UNCHANGED semaVars
  PROVE  StepKeeps
  <1>1. SchedInv /\ QueuesExact /\ CountsFit /\ ClaimsFit
    BY DEF SemaInv
  <1>2. SchedInv' /\ QueuesExact' /\ \E E \in SUBSET Threads : WaitsShrink(E)
    BY <1>1, SchedulerShrinks
  <1>3. PICK E \in SUBSET Threads : WaitsShrink(E)
    BY <1>2
  <1>4. semaState' = semaState /\ count' = count
    BY DEF semaVars
  <1>5. CountsFit'
    BY <1>1, <1>4 DEF CountsFit
  <1>6. \A o \in Objects : Live(o)' = Live(o)
    BY <1>4 DEF Live
  <1>7. ClaimsFit'
    BY <1>1, <1>3, <1>6, ClaimsStillFit
  <1>8. \A o \in Objects : Abstract(o)!AbsNext
    BY <1>1, <1>3, <1>4, <1>6, Withdrawn
  <1> QED BY <1>2, <1>4, <1>5, <1>7, <1>8 DEF SemaInv, StepKeeps

LEMMA CreateSemaKeeps ==
  ASSUME SemaInv, NEW o \in Objects, NEW initial \in 0..MaxCount[o],
         CreateSema(o, initial)
  PROVE  StepKeeps
  <1>1. SchedInv /\ QueuesExact /\ CountsFit /\ ClaimsFit
    BY DEF SemaInv
  <1>2. PlainCall
    BY DEF CreateSema, PlainCall
  <1>3. SchedInv' /\ QueuesExact' /\ WaitsShrink({})
    BY <1>1, <1>2, PlainCallShrinks
  <1>4. /\ semaState[o] = "Uncreated" /\ waiters' = waiters
        /\ semaState' = [semaState EXCEPT ![o] = "Live"]
        /\ count' = [count EXCEPT ![o] = initial]
    BY DEF CreateSema
  <1>5. MaxCount[o] \in Nat /\ IntLimit \in Nat
    BY LimitFacts
  <1>6. CountsFit'
    <2>1. initial \in -IntLimit..MaxCount[o] /\ initial \in Int
      BY <1>5
    <2> QED BY <1>1, <1>4, <2>1 DEF CountsFit
  <1>7. \A p \in Objects : Live(p) => Live(p)'
    BY <1>1, <1>4 DEF CountsFit, Live
  <1>8. ClaimsFit'
    BY <1>1, <1>3, <1>7, ClaimsStillFit
  <1>9. WaitingOn(o) = {} /\ waiters[o] = << >>
    <2>1. ~Live(o)
      BY <1>4 DEF Live
    <2>2. WaitingOn(o) = {}
      BY <1>1, <2>1 DEF ClaimsFit
    <2> QED BY <1>1, <2>2, QueueFacts
  <1>10. ASSUME NEW p \in Objects PROVE count'[p] # count[p] => HeadIsBlocked(p)'
    BY <1>1, <1>4, <1>9 DEF CountsFit, HeadIsBlocked
  <1>11. ASSUME NEW p \in Objects PROVE Abstract(p)!AbsNext
    <2>1. CASE p # o
      <3>1. count'[p] = count[p] /\ Live(p)' = Live(p)
        BY <1>1, <1>4, <2>1 DEF CountsFit, Live
      <3> QED BY <1>1, <1>3, <3>1, Withdrawn
    <2>2. CASE p = o
      <3>1. Claims(o)' = [t \in Threads |-> IF t \in {} THEN 0 ELSE Claims(o)[t]]
        BY <1>3, ClaimsCleared
      <3>2. Claims(o)' = Claims(o)
        BY <3>1 DEF Claims
      <3>3. ~Live(o) /\ Live(o)' /\ count'[o] = initial
        BY <1>1, <1>4 DEF CountsFit, Live
      <3>4. \E n \in 0..MaxCount[o] : Abstract(o)!Make(n)
        BY <3>2, <3>3 DEF Abstract!Make, Claims
      <3>5. Abstract(o)!AbsNext
        BY <3>4, Zenon DEF Abstract!AbsNext
      <3> QED BY <2>2, <3>5
    <2> QED BY <2>1, <2>2
  <1> QED BY <1>3, <1>6, <1>8, <1>10, <1>11 DEF SemaInv, StepKeeps

LEMMA TakeSemaKeeps ==
  ASSUME SemaInv, NEW o \in Objects, NEW n \in Requests, TakeSema(o, n)
  PROVE  StepKeeps
  <1>1. SchedInv /\ QueuesExact /\ CountsFit /\ ClaimsFit
    BY DEF SemaInv
  <1>2. PlainCall
    BY DEF TakeSema, PlainCall
  <1>3. SchedInv' /\ QueuesExact' /\ WaitsShrink({})
    BY <1>1, <1>2, PlainCallShrinks
  <1>4. /\ waiters[o] = << >> /\ count[o] >= n /\ waiters' = waiters /\ Live(o)
        /\ semaState' = semaState
        /\ count' = [count EXCEPT ![o] = @ - n]
    BY DEF TakeSema
  <1>5. MaxCount[o] \in Nat /\ n \in Nat \ {0}
    BY SemaphoreAssumption DEF SemaphoreAssumption
  <1>6. CountsFit' /\ count'[o] = count[o] - n
    <2>1. count[o] \in Int /\ count[o] - n \in -IntLimit..MaxCount[o]
      <3>1. count[o] \in -IntLimit..MaxCount[o] /\ IntLimit \in Nat
        BY <1>1, LimitFacts DEF CountsFit
      <3> QED BY <1>4, <1>5, <3>1
    <2>2. count'[o] = count[o] - n /\ \A p \in Objects \ {o} : count'[p] = count[p]
      BY <1>1, <1>4 DEF CountsFit
    <2>3. count' \in [Objects -> Int]
      BY <1>1, <1>4, <2>1 DEF CountsFit
    <2>4. \A p \in Objects : count'[p] \in -IntLimit..MaxCount[p]
      BY <1>1, <2>1, <2>2 DEF CountsFit
    <2> QED BY <1>1, <1>4, <2>2, <2>3, <2>4 DEF CountsFit
  <1>7. \A p \in Objects : Live(p)' = Live(p)
    BY <1>4 DEF Live
  <1>8. ClaimsFit'
    BY <1>1, <1>3, <1>7, ClaimsStillFit
  <1>9. WaitingOn(o) = {}
    BY <1>1, <1>4, QueueFacts
  <1>10. ASSUME NEW p \in Objects PROVE count'[p] # count[p] => HeadIsBlocked(p)'
    BY <1>1, <1>4 DEF CountsFit, HeadIsBlocked
  <1>11. ASSUME NEW p \in Objects PROVE Abstract(p)!AbsNext
    <2>1. CASE p # o
      <3>1. count'[p] = count[p] /\ Live(p)' = Live(p)
        BY <1>1, <1>4, <1>7, <2>1 DEF CountsFit
      <3> QED BY <1>1, <1>3, <3>1, Withdrawn
    <2>2. CASE p = o
      <3>1. Claims(o)' = [t \in Threads |-> IF t \in {} THEN 0 ELSE Claims(o)[t]]
        BY <1>3, ClaimsCleared
      <3>2. Claims(o)' = Claims(o)
        BY <3>1 DEF Claims
      <3>3. Abstract(o)!Claimants = {}
        BY <1>1, <1>9, ClaimantsWait
      <3>4. n \in 1..MaxCount[o] /\ n <= count[o]
        <4>1. count[o] \in Int /\ count[o] <= MaxCount[o]
          BY <1>1, <1>5, LimitFacts DEF CountsFit
        <4> QED BY <1>4, <1>5, <4>1
      <3>5. Live(o) /\ Live(o)' = Live(o)
        BY <1>4, <1>7
      <3>6. \E m \in 1..MaxCount[o] : Abstract(o)!Take(m)
        BY <1>6, <3>2, <3>3, <3>4, <3>5 DEF Abstract!Take, Claims
      <3>7. Abstract(o)!AbsNext
        BY <3>6, Zenon DEF Abstract!AbsNext
      <3> QED BY <2>2, <3>7
    <2> QED BY <2>1, <2>2
  <1> QED BY <1>3, <1>6, <1>8, <1>10, <1>11 DEF SemaInv, StepKeeps

LEMMA DeleteSemaKeeps ==
  ASSUME SemaInv, NEW o \in Objects, DeleteSema(o)
  PROVE  StepKeeps
  <1>1. SchedInv /\ QueuesExact /\ CountsFit /\ ClaimsFit
    BY DEF SemaInv
  <1>2. /\ Guest /\ Live(o)
        /\ semaState' = [semaState EXCEPT ![o] = "Deleted"]
        /\ count' = [count EXCEPT ![o] = 0]
        /\ waiters' = [waiters EXCEPT ![o] = << >>]
        /\ UNCHANGED <<prio, wakeups, dispatch, intr, vblankLeft, stopped>>
        /\ WakeAndFinish(Releasable(waiters[o])[Len(waiters[o])])
    BY DEF DeleteSema, Cancelled
  <1> DEFINE k == Len(waiters[o])
  <1>3. k \in 0..Len(waiters[o])
    BY <1>1, QueueFacts
  <1>4. waiters' = [waiters EXCEPT ![o] = SubSeq(@, k + 1, Len(@))]
    <2>1. SubSeq(waiters[o], k + 1, Len(waiters[o])) = << >>
      BY <1>3, SubSeqEmpty
    <2> QED BY <1>2, <2>1
  <1>5. /\ SchedInv' /\ QueuesExact' /\ WaitsShrink(WaitingOn(o))
        /\ waiters'[o] = << >>
    <2>1. waiters[o] \in Seq(Threads \cup {NoThread})
      BY <1>1, QueueFacts
    <2>2. o \in DOMAIN waiters
      BY <1>1 DEF SchedInv, CallsFit
    <2>3. WakeAndFinish(Releasable(waiters[o])[k])
      BY <1>2
    <2>4. k = Len(waiters[o])
      OBVIOUS
    <2> HIDE DEF k
    <2>5. /\ SchedInv' /\ QueuesExact'
          /\ WaitsShrink({waiters[o][i] : i \in 1..k})
          /\ {waiters[o][i] : i \in 1..k} = WaitingOn(o)
      BY <1>1, <1>2, <1>3, <1>4, <2>3, <2>4, FirstReleased
    <2> QED BY <1>2, <2>2, <2>5
  <1>6. 0 \in -IntLimit..MaxCount[o]
    BY LimitFacts
  <1>7. CountsFit' /\ count'[o] = 0
    BY <1>1, <1>2, <1>6 DEF CountsFit
  <1>8. \A p \in Objects \ {o} : Live(p)' = Live(p) /\ count'[p] = count[p]
    BY <1>1, <1>2 DEF CountsFit, Live
  <1>9. ClaimsFit'
    <2>1. \A p \in Objects : Live(p) /\ WaitingOn(p) \ WaitingOn(o) # {} => Live(p)'
      BY <1>8
    <2> QED BY <1>1, <1>5, <2>1, ClaimsStillFit
  <1>10. ASSUME NEW p \in Objects PROVE count'[p] # count[p] => HeadIsBlocked(p)'
    BY <1>5, <1>8 DEF HeadIsBlocked
  <1>11. ASSUME NEW p \in Objects PROVE Abstract(p)!AbsNext
    <2>1. CASE p # o
      BY <1>1, <1>5, <1>8, <2>1, Withdrawn
    <2>2. CASE p = o
      <3> DEFINE S == WaitingOn(o)
      <3>1. Claims(o)' = [t \in Threads |-> IF t \in S THEN 0 ELSE Claims(o)[t]]
        BY <1>5, ClaimsCleared
      <3>2. Abstract(o)!Claimants = S
        BY <1>1, ClaimantsWait
      <3>3. ~Live(o)'
        BY <1>1, <1>2 DEF CountsFit, Live
      <3> HIDE DEF S
      <3>4. Abstract(o)!Destroy
        BY <1>2, <1>7, <3>1, <3>2, <3>3 DEF Abstract!Destroy, Abstract!Cleared, Claims
      <3>5. Abstract(o)!AbsNext
        BY <3>4, Zenon DEF Abstract!AbsNext
      <3> QED BY <2>2, <3>5
    <2> QED BY <2>1, <2>2
  <1> QED BY <1>5, <1>7, <1>9, <1>10, <1>11 DEF SemaInv, StepKeeps

(* A signal releases what it can in the order of the queue. *)
LEMMA SignalSemaKeeps ==
  ASSUME SemaInv, NEW o \in Objects, NEW n \in Signals, SignalSema(o, n)
  PROVE  StepKeeps /\ Supplies(o, n)
  <1>1. SchedInv /\ QueuesExact /\ CountsFit /\ ClaimsFit
    BY DEF SemaInv
  <1> DEFINE q == waiters[o]
             c == Signalled(o, n)
             R == Remaining(q, c)
  <1>2. PICK k \in 0..Len(q) :
          /\ waiters' = [waiters EXCEPT ![o] = SubSeq(q, k + 1, Len(q))]
          /\ count' = [count EXCEPT ![o] = R[k]]
          /\ IsReleased(q, c, k)
          /\ WakeAndFinish(Releasable(q)[k])
    BY DEF SignalSema
  <1>3. /\ Guest /\ Live(o) /\ Fits(o, n)
        /\ UNCHANGED <<prio, wakeups, dispatch, intr, vblankLeft, stopped, semaState>>
    BY DEF SignalSema
  <1> DEFINE E == {q[i] : i \in 1..k}
             m == Len(q)
  <1>4. waiters' = [waiters EXCEPT ![o] = SubSeq(@, k + 1, Len(@))]
    BY <1>2
  <1>5. /\ SchedInv' /\ QueuesExact' /\ WaitsShrink(E) /\ E \subseteq WaitingOn(o)
        /\ waiters'[o] = SubSeq(q, k + 1, Len(q))
        /\ k = Len(q) => E = WaitingOn(o)
        /\ k < Len(q) => /\ Head(waiters'[o]) = q[k + 1]
                         /\ q[k + 1] \in WaitingOn(o) \ E
    <2>1. WakeAndFinish(Releasable(waiters[o])[k]) /\ k \in 0..Len(waiters[o])
      BY <1>2
    <2>2. UNCHANGED <<prio, wakeups, dispatch, intr, vblankLeft, stopped>>
      BY <1>3
    <2> QED BY <1>1, <1>3, <1>4, <2>1, <2>2, FirstReleased
  <1>6. m \in Nat /\ (m = 0 => q = << >>)
    <2>1. q \in Seq(Threads \cup {NoThread})
      BY <1>1, QueueFacts
    <2> HIDE DEF q
    <2> QED BY <2>1
  <1>7. /\ MaxCount[o] \in Nat /\ MaxCount[o] < IntLimit /\ IntLimit \in Nat
        /\ c \in Int /\ -IntLimit <= c /\ c < IntLimit
    <2>1. count[o] + n \in Int
      BY <1>1, LimitFacts DEF CountsFit
    <2> QED BY <2>1, LimitFacts, WrapFacts DEF Signalled
  <1>8. /\ R[0] = c /\ \A i \in 0..m : R[i] \in Int
        /\ \A i \in 1..m : R[i] = R[i - 1] - Claims(o)[q[i]]
    BY <1>1, <1>7, RemainingFacts
  <1>9. /\ R[k] = c - SumOver(Claims(o), E) /\ R[k] <= c - k
        /\ SumOver(Claims(o), E) \in Int
    BY <1>1, <1>2, <1>7, PaidFacts
  <1>10. Wrap(c - m, IntLimit) <= MaxCount[o]
    BY <1>3 DEF Fits
  <1>11. /\ \A i \in 1..k : R[i] >= 0
         /\ k < m => R[k + 1] < 0
    <2>1. \A i \in 1..m : Short(q, c, i) <=> R[i] < 0
      BY <1>1, EveryEntryCounts DEF Short
    <2>2. \A i \in 1..k : i \in 1..m /\ R[i] \in Int
      BY <1>2, <1>6, <1>8
    <2>3. \A i \in 1..k : R[i] >= 0
      BY <1>2, <2>1, <2>2 DEF IsReleased
    <2>4. ASSUME k < m PROVE R[k + 1] < 0
      <3>1. k + 1 \in 1..m
        BY <1>2, <1>6, <2>4
      <3> QED BY <1>2, <2>1, <2>4, <3>1 DEF IsReleased
    <2> QED BY <2>3, <2>4
  <1>12. k < m => Claims(o)[q[k + 1]] \in 1..MaxCount[o]
    <2> SUFFICES ASSUME k < m PROVE Claims(o)[q[k + 1]] \in 1..MaxCount[o]
      OBVIOUS
    <2>1. q[k + 1] \in WaitingOn(o)
      BY <1>5
    <2> QED BY <1>1, <2>1 DEF ClaimsFit, Claims, WaitingOn
  <1>14. k \in Nat /\ k <= m
    BY <1>2, <1>6
  <1>15. /\ R[k] \in -IntLimit..MaxCount[o] /\ R[k] \in Int
         /\ k # 0 => R[k] >= 0
         /\ k < m => Claims(o)[q[k + 1]] > R[k]
    <2> DEFINE x == R[k]
               y == Claims(o)[q[k + 1]]
               mx == MaxCount[o]
    <2>1. x \in Int
      BY <1>8, <1>14
    <2>2. (k = 0 => x = c) /\ (k # 0 => x >= 0)
      <3>1. CASE k = 0
        BY <1>8, <3>1
      <3>2. CASE k # 0
        BY <1>11, <1>14, <3>2
      <3> QED BY <3>1, <3>2
    <2>3. k < m => x - y < 0 /\ y \in Int /\ y <= mx
      <3> SUFFICES ASSUME k < m PROVE x - y < 0 /\ y \in Int /\ y <= mx
        OBVIOUS
      <3>1. k + 1 \in 1..m /\ (k + 1) - 1 = k
        BY <1>6, <1>14
      <3>2. R[k + 1] = x - y
        BY <1>8, <3>1
      <3>3. y \in Int /\ y <= mx
        BY <1>7, <1>12
      <3> QED BY <1>11, <3>2, <3>3
    <2>4. x <= c - k
      BY <1>9
    <2>5. c - m <= mx \/ c - m < 0
      <3>1. c - m \in Int /\ c - m < IntLimit
        BY <1>6, <1>7
      <3>2. CASE c - m >= 0
        <4>1. Wrap(c - m, IntLimit) = c - m
          BY <1>7, <3>1, <3>2, WrapFacts
        <4> QED BY <1>10, <4>1
      <3>3. CASE ~(c - m >= 0)
        BY <3>1, <3>3
      <3> QED BY <3>2, <3>3
    <2> HIDE DEF x, y, mx, m, c, R, q
    <2>6. mx \in Nat /\ m \in Nat /\ c \in Int /\ IntLimit \in Nat
          /\ -IntLimit <= c
      BY <1>6, <1>7 DEF mx
    <2>7. k = m => x <= mx
      <3>1. CASE k = 0
        BY <1>14, <2>1, <2>2, <2>4, <2>5, <2>6, <3>1
      <3>2. CASE k # 0
        BY <1>14, <2>1, <2>2, <2>4, <2>5, <2>6, <3>2
      <3> QED BY <3>1, <3>2
    <2>8. x \in -IntLimit..mx /\ (k < m => y > x)
      BY <1>14, <2>1, <2>2, <2>3, <2>6, <2>7
    <2> QED BY <2>1, <2>2, <2>8 DEF x, y, mx
  <1>16. count'[o] = R[k] /\ \A p \in Objects \ {o} : count'[p] = count[p]
    BY <1>1, <1>2 DEF CountsFit
  <1>17. CountsFit'
    <2>1. count' \in [Objects -> Int] /\ semaState' = semaState
      BY <1>1, <1>2, <1>3, <1>15 DEF CountsFit
    <2>2. ASSUME NEW p \in Objects PROVE count'[p] \in -IntLimit..MaxCount[p]
      BY <1>1, <1>15, <1>16 DEF CountsFit
    <2> QED BY <1>1, <2>1, <2>2 DEF CountsFit
  <1>18. \A p \in Objects : Live(p)' = Live(p)
    BY <1>3 DEF Live
  <1>19. ClaimsFit'
    BY <1>1, <1>5, <1>18, ClaimsStillFit
  <1> HIDE DEF m, c, R, E
  <1>20. ASSUME NEW p \in Objects, count'[p] # count[p] PROVE HeadIsBlocked(p)'
    <2>1. p = o
      BY <1>16, <1>20
    <2>2. CASE k = m
      <3>1. waiters'[o] = << >>
        BY <1>5, <1>6, <2>2, SubSeqEmpty DEF m
      <3> QED BY <2>1, <3>1 DEF HeadIsBlocked
    <2>3. CASE k < m
      <3>1. q[k + 1] \in WaitingOn(o) \ E /\ Head(waiters'[o]) = q[k + 1]
        BY <1>5, <2>3 DEF m
      <3>2. q[k + 1] \in Waiting \ E /\ q[k + 1] \in Threads
        BY <3>1 DEF WaitingOn, Waiting
      <3>3. wait'[q[k + 1]].request = Claims(o)[q[k + 1]]
        BY <1>5, <3>1, <3>2 DEF WaitsShrink, SameWait, Claims
      <3>4. count'[o] < wait'[Head(waiters'[o])].request
        <4>1. R[k] \in Int /\ Claims(o)[q[k + 1]] \in Int
          BY <1>12, <1>15, <2>3
        <4> QED BY <1>15, <1>16, <2>3, <3>1, <3>3, <4>1
      <3> QED BY <2>1, <3>4 DEF HeadIsBlocked
    <2> QED BY <1>6, <1>14, <2>2, <2>3
  <1>21. Supplies(o, n) /\ Abstract(o)!AbsNext
    <2>1. count'[o] = Signalled(o, n) - SumOver(Claims(o), E)
      BY <1>9, <1>16 DEF c
    <2>2. count'[o] <= MaxCount[o] /\ (E # {} => count'[o] >= 0)
      <3>1. count'[o] <= MaxCount[o]
        BY <1>7, <1>15, <1>16
      <3>2. E # {} => k # 0
        BY <1>14 DEF E
      <3> QED BY <1>15, <1>16, <3>1, <3>2
    <2>3. E # WaitingOn(o) => \E t \in WaitingOn(o) \ E : Claims(o)[t] > count'[o]
      <3> SUFFICES ASSUME E # WaitingOn(o)
                   PROVE  \E t \in WaitingOn(o) \ E : Claims(o)[t] > count'[o]
        OBVIOUS
      <3>1. k < m
        BY <1>5, <1>6, <1>14 DEF m
      <3> QED BY <1>5, <1>15, <1>16, <3>1 DEF m
    <2>4. E \in SUBSET WaitingOn(o) /\ Live(o)'
      BY <1>3, <1>5, <1>18
    <2> QED BY <1>1, <1>3, <1>5, <2>1, <2>2, <2>3, <2>4, Supplied
  <1>22. \A p \in Objects \ {o} : Abstract(p)!AbsNext
    BY <1>1, <1>5, <1>16, <1>18, Withdrawn
  <1> QED BY <1>5, <1>17, <1>19, <1>20, <1>21, <1>22 DEF SemaInv, StepKeeps

(* A thread that cannot take its units claims them. *)
LEMMA WaitSemaKeeps ==
  ASSUME SemaInv, ~HandlersWait, NEW o \in Objects, NEW n \in Requests,
         NEW d \in Delays \cup {Forever}, WaitSema(o, n, d)
  PROVE  StepKeeps
  <1>1. SchedInv /\ QueuesExact /\ CountsFit /\ ClaimsFit
    BY DEF SemaInv
  <1>2. /\ Guest /\ ~active /\ Live(o) /\ n <= MaxCount[o]
        /\ ~(waiters[o] = << >> /\ count[o] >= n)
        /\ waiters' = [waiters EXCEPT ![o] = Append(@, current)]
        /\ UNCHANGED <<prio, wakeups, dispatch, intr, vblankLeft, stopped>>
        /\ semaState' = semaState /\ count' = count
        /\ Block(WaitOn(o, n, d))
    BY DEF WaitSema, WaitCaller, semaVars
  <1>3. /\ SchedInv' /\ QueuesExact'
        /\ current \in Threads /\ status[current] = "Running"
        /\ WaitingOn(o)' = WaitingOn(o) \cup {current}
        /\ \A p \in Objects \ {o} : WaitingOn(p)' = WaitingOn(p)
        /\ wait' = [wait EXCEPT ![current] = WaitOn(o, n, d)]
        /\ wait'[current].request = n
    BY <1>1, <1>2, BlockQueues
  <1>4. /\ \A p \in Objects : current \notin WaitingOn(p)
        /\ \A t \in Threads \ {current} : wait'[t] = wait[t]
    <2>1. wait \in [Threads -> WaitStates]
      BY <1>1 DEF SchedInv, ThreadsFit
    <2> QED BY <1>3, <2>1 DEF WaitingOn
  <1>5. MaxCount[o] \in Nat /\ n \in Nat \ {0}
    BY SemaphoreAssumption DEF SemaphoreAssumption
  <1>6. \A p \in Objects : Live(p)' = Live(p)
    BY <1>2 DEF Live
  <1>7. CountsFit'
    BY <1>1, <1>2 DEF CountsFit
  <1>8. ClaimsFit'
    <2> SUFFICES ASSUME NEW p \in Objects, NEW t \in WaitingOn(p)'
                 PROVE  Live(p)' /\ wait'[t].request \in 1..MaxCount[p]
      BY DEF ClaimsFit
    <2>1. CASE p = o /\ t = current
      <3>1. wait'[t].request = n
        BY <1>3, <2>1
      <3>2. n \in 1..MaxCount[p]
        BY <1>2, <1>5, <2>1
      <3> QED BY <1>2, <1>6, <2>1, <3>1, <3>2
    <2>2. CASE ~(p = o /\ t = current)
      <3>1. t \in WaitingOn(p)
        BY <1>3, <2>2
      <3>2. wait'[t] = wait[t]
        BY <1>4, <3>1 DEF WaitingOn
      <3> QED BY <1>1, <1>6, <3>1, <3>2 DEF ClaimsFit
    <2> QED BY <2>1, <2>2
  <1>9. ASSUME NEW p \in Objects
        PROVE  UNCHANGED Abstract(p)!absVars \/ Abstract(p)!AbsNext
    <2>1. CASE p # o
      <3>1. Claims(p)' = Claims(p)
        <4>1. WaitingOn(p)' = WaitingOn(p)
          BY <1>3, <2>1
        <4>2. \A t \in WaitingOn(p) : wait'[t].request = wait[t].request
          BY <1>4 DEF WaitingOn
        <4> QED BY <4>1, <4>2 DEF Claims
      <3>2. UNCHANGED Abstract(p)!absVars
        BY <1>2, <1>6, <3>1 DEF Abstract!absVars, Claims
      <3> QED BY <3>2
    <2>2. CASE p = o
      <3> DEFINE claims == Claims(o)
      <3>1. claims' = [claims EXCEPT ![current] = n]
        <4>1. \A t \in WaitingOn(o) : wait'[t].request = wait[t].request
          BY <1>4 DEF WaitingOn
        <4> QED BY <1>3, <4>1 DEF Claims
      <3>2. claims[current] = 0
        BY <1>3, <1>4 DEF Claims
      <3>3. Abstract(o)!Claimants # {} \/ n > count[o]
        <4>1. CASE waiters[o] # << >>
          BY <1>1, <4>1, QueueFacts, ClaimantsWait
        <4>2. CASE ~(count[o] >= n)
          <5>1. count[o] \in Int
            BY <1>1 DEF CountsFit
          <5> QED BY <1>5, <4>2, <5>1
        <4> QED BY <1>2, <4>1, <4>2
      <3>4. n \in 1..MaxCount[o]
        BY <1>2, <1>5
      <3>5. Live(o) /\ Live(o)' = Live(o) /\ count'[o] = count[o]
        BY <1>2, <1>6
      <3>6. \E m \in 1..MaxCount[o] : \E t \in Threads : Abstract(o)!Claim(t, m)
        BY <1>3, <3>1, <3>2, <3>3, <3>4, <3>5 DEF Abstract!Claim, Claims
      <3>7. Abstract(o)!AbsNext
        BY <3>6, Zenon DEF Abstract!AbsNext
      <3> QED BY <2>2, <3>7
    <2> QED BY <2>1, <2>2
  <1> QED BY <1>2, <1>3, <1>7, <1>8, <1>9 DEF SemaInv, StepKeeps

-----------------------------------------------------------------------------
(* The theorems.                                                           *)

(* No semaphore exists at first, and nobody waits. *)
LEMMA SemaInit == ASSUME Init PROVE SemaInv
  <1>1. SchedInv
    BY InitFits DEF Init
  <1>2. \A o \in Objects : WaitingOn(o) = {} /\ waiters[o] = << >>
    BY DEF Init, SchedInit, WaitingOn
  <1>3. QueuesExact
    BY <1>2 DEF QueuesExact, ToSet
  <1>4. ClaimsFit
    BY <1>2 DEF ClaimsFit
  <1>5. \A o \in Objects : 0 \in -IntLimit..MaxCount[o]
    BY LimitFacts
  <1>6. CountsFit
    BY <1>5 DEF CountsFit, Init
  <1> QED BY <1>1, <1>3, <1>4, <1>6 DEF SemaInv

(* Every step, where handlers do not wait. *)
LEMMA SemaStep ==
  ASSUME ~HandlersWait, SemaInv, [Next]_vars
  PROVE  StepKeeps
  <1>1. CASE SemaCalls
    BY <1>1, CreateSemaKeeps, DeleteSemaKeeps, SignalSemaKeeps, TakeSemaKeeps,
       WaitSemaKeeps DEF SemaCalls
  <1>2. CASE SchedNext /\ UNCHANGED semaVars
    BY <1>2, SchedulerKeeps
  <1>3. CASE UNCHANGED vars
    BY <1>3, SchedulerKeeps DEF vars
  <1> QED BY <1>1, <1>2, <1>3 DEF Next

(* The inductive invariant holds. *)
LEMMA SemaInvHolds == ~HandlersWait => (Spec => []SemaInv)
  <1> SUFFICES ASSUME ~HandlersWait PROVE Spec => []SemaInv
    OBVIOUS
  <1>1. Init => SemaInv
    BY SemaInit
  <1>2. SemaInv /\ [Next]_vars => SemaInv'
    BY SemaStep DEF StepKeeps
  <1> QED BY <1>1, <1>2, PTL DEF Spec

(* The queue of every semaphore holds exactly the threads that wait on it:  *)
(* signals, timeouts, terminations and deletions leave no stale entry and   *)
(* lose nobody.                                                             *)
THEOREM SemaQueuesExact == ~HandlersWait => (Spec => []QueuesExact)
  <1> SUFFICES ASSUME ~HandlersWait PROVE Spec => []QueuesExact
    OBVIOUS
  <1>1. SemaInv => QueuesExact
    BY DEF SemaInv
  <1> QED BY <1>1, SemaInvHolds, PTL

(* The count of a semaphore never passes its maximum, whatever is signalled *)
(* and though a signal is accepted against the length of the queue and not  *)
(* what it asks for.                                                        *)
THEOREM CountsInBounds == ~HandlersWait => (Spec => []CountInBounds)
  <1> SUFFICES ASSUME ~HandlersWait PROVE Spec => []CountInBounds
    OBVIOUS
  <1>1. SemaInv => CountInBounds
    BY TypesFit DEF SemaInv, CountsFit, CountInBounds, TypeOK
  <1> QED BY <1>1, SemaInvHolds, PTL

(* A call that changes the count leaves at the head of the queue a thread   *)
(* that asks for more than is left.                                         *)
THEOREM SignalsReleaseAll == ~HandlersWait => (Spec => SignalReleasesAll)
  <1> SUFFICES ASSUME ~HandlersWait PROVE Spec => SignalReleasesAll
    OBVIOUS
  <1>1. SemaInv /\ [Next]_vars
          => [\A o \in Objects : count'[o] # count[o] => HeadIsBlocked(o)']_vars
    BY SemaStep DEF StepKeeps
  <1> QED BY <1>1, SemaInvHolds, PTL DEF Spec, SignalReleasesAll

(* Every semaphore implements CountingSemaphore: the initial states are its *)
(* initial states, every step is one of its steps or none, and a signal of  *)
(* n units, negative or not, is a supply of n.                              *)
THEOREM SemaphoresKeepPromises == ~HandlersWait => (Spec => KeepsPromises)
  <1> SUFFICES ASSUME ~HandlersWait PROVE Spec => KeepsPromises
    OBVIOUS
  <1>1. Init => \A o \in Objects : Abstract(o)!AbsInit
    <2> SUFFICES ASSUME Init, NEW o \in Objects PROVE Abstract(o)!AbsInit
      OBVIOUS
    <2>1. WaitingOn(o) = {}
      BY DEF Init, SchedInit, WaitingOn
    <2> QED BY <2>1 DEF Init, Live, Abstract!AbsInit
  <1>2. SemaInv /\ [Next]_vars
          => [\A o \in Objects :
                \/ UNCHANGED Abstract(o)!absVars
                \/ /\ Abstract(o)!AbsNext
                   /\ \A n \in Signals : SignalSema(o, n) => Supplies(o, n)]_vars
    BY SemaStep, SignalSemaKeeps DEF StepKeeps
  <1> QED BY <1>1, <1>2, SemaInvHolds, PTL DEF Spec, KeepsPromises
=============================================================================
