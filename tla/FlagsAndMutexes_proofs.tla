----------------------- MODULE FlagsAndMutexes_proofs ------------------------
(****************************************************************************)
(* Proofs about two kinds of kernel objects on the one scheduler: who goes  *)
(* on waiting on an event flag and what a set leaves of it, and who holds   *)
(* and gets a mutex.  They hold where interrupt handlers do not call        *)
(* functions that wait: such a call would act for the thread interrupted    *)
(* and leave a stale entry in a queue.                                      *)
(****************************************************************************)
EXTENDS EventFlags, Mutexes, Scheduler_proofs

-----------------------------------------------------------------------------
(* Event flags.                                                             *)
FlagsTyped ==
  /\ flagState \in [Objects -> {"Uncreated", "Live", "Deleted"}]
  /\ multi \in [Objects -> BOOLEAN]
  /\ pattern \in [Objects -> SUBSET Bits]

(* What NoMatchingWaiter says of one flag, of the threads that wait and not *)
(* of their places in the queue.                                            *)
FlagFits(o) ==
  /\ \A t \in WaitingOn(o) :
       /\ Live(o)
       /\ wait[t].request \in AllRequests
       /\ ~Matches(pattern[o], wait[t].request)
  /\ multi[o] \/ \A t, u \in WaitingOn(o) : t = u

(* The inductive invariant. *)
FlagInv ==
  /\ SchedInv /\ QueuesExact /\ FlagsTyped
  /\ \A o \in Objects : FlagFits(o)

(* A step leaves flag o alone. *)
SameFlag(o) ==
  Live(o)' = Live(o) /\ multi'[o] = multi[o] /\ pattern'[o] = pattern[o]

(* One turn of the loop of release_event_flag_waiters. *)
Turn(a, t) ==
  IF t \notin Waiting \/ t \in ToSet(a.woken) THEN a
  ELSE IF Matches(a.pattern, Wanted(t))
       THEN [a EXCEPT !.pattern = Left(@, Wanted(t)), !.woken = Append(@, t)]
       ELSE [a EXCEPT !.kept = Append(@, t)]

LoopStates == [pattern : SUBSET Bits, woken : Seq(Threads),
               kept : Seq(Threads \cup {NoThread})]

(* The recursion that defines Released. *)
Turns(q, f, p, n) ==
  f = [i \in 0..n |-> IF i = 0 THEN [pattern |-> p, woken |-> << >>, kept |-> << >>]
                      ELSE Turn(f[i - 1], q[i])]

(* What the loop has after its turns over the entries S: each of them is    *)
(* woken or kept, what is kept does not match what is left, and what is     *)
(* left has nothing that a woken thread cleared.                            *)
GoneFor(t, p) ==
  CASE wait[t].request.clear = "none" -> TRUE
    [] wait[t].request.clear = "bits" -> p \cap wait[t].request.bits = {}
    [] wait[t].request.clear = "all"  -> p = {}
Looped(a, S) ==
  /\ a \in LoopStates /\ IsInjective(a.woken) /\ IsInjective(a.kept)
  /\ ToSet(a.woken) \cup ToSet(a.kept) = S
  /\ ToSet(a.woken) \cap ToSet(a.kept) = {}
  /\ \A t \in ToSet(a.kept) : ~Matches(a.pattern, wait[t].request)
  /\ \A t \in ToSet(a.woken) : GoneFor(t, a.pattern)
  /\ \A t, u \in ToSet(a.woken) :
       Clearing(t) /\ Clearing(u) /\ t # u
         => wait[t].request.bits \cap wait[u].request.bits = {}

-----------------------------------------------------------------------------
(* Matching and clearing.                                                  *)

(* What does not match does not match fewer bits. *)
LEMMA FewerBits ==
  ASSUME NEW p, NEW s \in SUBSET p, NEW r \in AllRequests, ~Matches(p, r)
  PROVE  ~Matches(s, r)
  BY DEF Matches, AllRequests

(* What is cleared is a part, and then it is gone. *)
LEMMA ClearFacts ==
  ASSUME NEW p \in SUBSET Bits, NEW t, wait[t].request \in AllRequests
  PROVE  /\ Left(p, wait[t].request) \in SUBSET p
         /\ GoneFor(t, Left(p, wait[t].request))
         /\ \A s \in SUBSET p : GoneFor(t, p) => GoneFor(t, s)
         /\ Clearing(t) /\ GoneFor(t, p) => p \cap wait[t].request.bits = {}
         /\ Clearing(t) /\ Matches(p, wait[t].request) => wait[t].request.bits \subseteq p
  <1> DEFINE r == wait[t].request
  <1>1. r.clear \in {"none", "bits", "all"} /\ r.any \in BOOLEAN
    BY DEF AllRequests
  <1> HIDE DEF r
  <1>2. CASE r.clear = "none"
    BY <1>1, <1>2 DEF Left, GoneFor, Clearing, Matches, r
  <1>3. CASE r.clear = "bits"
    BY <1>1, <1>3 DEF Left, GoneFor, Clearing, Matches, r
  <1>4. CASE r.clear = "all"
    BY <1>1, <1>4 DEF Left, GoneFor, Clearing, Matches, r
  <1> QED BY <1>1, <1>2, <1>3, <1>4

(* A turn of the loop over a thread that waits for the flag. *)
LEMMA TurnFacts ==
  ASSUME NEW a \in LoopStates, NEW t \in Waiting, wait[t].type = "Object",
         t \notin ToSet(a.woken), wait[t].request \in AllRequests
  PROVE  /\ Turn(a, t) \in LoopStates
         /\ Matches(a.pattern, wait[t].request) =>
              /\ Turn(a, t).pattern = Left(a.pattern, wait[t].request)
              /\ Turn(a, t).woken = Append(a.woken, t)
              /\ Turn(a, t).kept = a.kept
         /\ ~Matches(a.pattern, wait[t].request) =>
              /\ Turn(a, t).pattern = a.pattern
              /\ Turn(a, t).woken = a.woken
              /\ Turn(a, t).kept = Append(a.kept, t)
  <1> DEFINE r == wait[t].request
             X == Threads \cup {NoThread}
  <1>1. Wanted(t) = r
    BY DEF Wanted
  <1>2. /\ Append(a.woken, t) \in Seq(Threads) /\ Append(a.kept, t) \in Seq(X)
        /\ Left(a.pattern, r) \in SUBSET Bits
    <2>1. t \in Threads /\ a.woken \in Seq(Threads) /\ a.kept \in Seq(X)
          /\ a.pattern \in SUBSET Bits
      BY DEF Waiting, LoopStates
    <2>2. Left(a.pattern, r) \in SUBSET a.pattern
      BY <2>1, ClearFacts
    <2> HIDE DEF r, X
    <2> QED BY <2>1, <2>2, AppendFacts DEF X
  <1> HIDE DEF r
  <1>3. CASE Matches(a.pattern, r)
    <2>1. Turn(a, t) = [a EXCEPT !.pattern = Left(a.pattern, r),
                                 !.woken = Append(a.woken, t)]
      BY <1>1, <1>3 DEF Turn
    <2> QED BY <1>2, <1>3, <2>1 DEF LoopStates, r
  <1>4. CASE ~Matches(a.pattern, r)
    <2>1. Turn(a, t) = [a EXCEPT !.kept = Append(a.kept, t)]
      BY <1>1, <1>4 DEF Turn
    <2> QED BY <1>2, <1>4, <2>1 DEF LoopStates, r
  <1> QED BY <1>3, <1>4

(* It keeps what the loop has. *)
LEMMA TurnFits ==
  ASSUME NEW S, NEW a, Looped(a, S), NEW t \in Waiting, t \notin S,
         wait[t].type = "Object", \A u \in S \cup {t} : wait[u].request \in AllRequests
  PROVE  Looped(Turn(a, t), S \cup {t})
  <1> DEFINE b == Turn(a, t)
             X == Threads \cup {NoThread}
  <1>1. /\ a \in LoopStates /\ IsInjective(a.woken) /\ IsInjective(a.kept)
        /\ a.woken \in Seq(Threads) /\ a.kept \in Seq(X) /\ a.pattern \in SUBSET Bits
        /\ ToSet(a.woken) \cup ToSet(a.kept) = S
        /\ ToSet(a.woken) \cap ToSet(a.kept) = {}
    BY DEF Looped, LoopStates
  <1>2. /\ t \in Threads /\ t \in X /\ t \notin ToSet(a.woken) /\ t \notin ToSet(a.kept)
        /\ wait[t].request \in AllRequests
    BY <1>1 DEF Waiting
  <1>3. \A u \in S : wait[u].request \in AllRequests
    OBVIOUS
  <1>4. /\ b \in LoopStates
        /\ Matches(a.pattern, wait[t].request) =>
             /\ b.pattern = Left(a.pattern, wait[t].request)
             /\ b.woken = Append(a.woken, t) /\ b.kept = a.kept
        /\ ~Matches(a.pattern, wait[t].request) =>
             /\ b.pattern = a.pattern /\ b.woken = a.woken
             /\ b.kept = Append(a.kept, t)
    BY <1>1, <1>2, TurnFacts
  <1>5. /\ \A u \in ToSet(a.kept) : ~Matches(a.pattern, wait[u].request)
        /\ \A u \in ToSet(a.woken) : GoneFor(u, a.pattern)
        /\ \A u, v \in ToSet(a.woken) :
             Clearing(u) /\ Clearing(v) /\ u # v
               => wait[u].request.bits \cap wait[v].request.bits = {}
    BY DEF Looped
  <1> HIDE DEF b
  <1>6. CASE Matches(a.pattern, wait[t].request)
    <2>1. /\ IsInjective(b.woken) /\ ToSet(b.woken) = ToSet(a.woken) \cup {t}
      <3>1. b.woken = Append(a.woken, t)
        BY <1>4, <1>6
      <3> QED BY <1>1, <1>2, <3>1, AppendFacts
    <2>2. /\ b.kept = a.kept /\ b.pattern = Left(a.pattern, wait[t].request)
          /\ b.pattern \in SUBSET a.pattern
      <3>1. Left(a.pattern, wait[t].request) \in SUBSET a.pattern
        BY <1>1, <1>2, ClearFacts
      <3> QED BY <1>4, <1>6, <3>1
    <2>3. \A u \in ToSet(b.kept) : ~Matches(b.pattern, wait[u].request)
      <3> SUFFICES ASSUME NEW u \in ToSet(a.kept)
                   PROVE  ~Matches(b.pattern, wait[u].request)
        BY <2>2
      <3>1. wait[u].request \in AllRequests /\ ~Matches(a.pattern, wait[u].request)
        BY <1>1, <1>3, <1>5
      <3> QED BY <2>2, <3>1, FewerBits
    <2>4. ASSUME NEW u \in ToSet(b.woken) PROVE GoneFor(u, b.pattern)
      <3>1. CASE u = t
        BY <1>1, <1>2, <2>2, <3>1, ClearFacts
      <3>2. CASE u \in ToSet(a.woken)
        <4>1. wait[u].request \in AllRequests /\ GoneFor(u, a.pattern)
          BY <1>1, <1>3, <1>5, <3>2
        <4> QED BY <1>1, <2>2, <4>1, ClearFacts
      <3> QED BY <2>1, <3>1, <3>2
    <2>5. ASSUME NEW u \in ToSet(a.woken), Clearing(u), Clearing(t)
          PROVE  wait[u].request.bits \cap wait[t].request.bits = {}
      <3>1. wait[u].request \in AllRequests /\ GoneFor(u, a.pattern)
        BY <1>1, <1>3, <1>5
      <3>2. a.pattern \cap wait[u].request.bits = {}
        BY <1>1, <2>5, <3>1, ClearFacts
      <3>3. wait[t].request.bits \subseteq a.pattern
        BY <1>1, <1>2, <1>6, <2>5, ClearFacts
      <3> QED BY <3>2, <3>3
    <2>6. ASSUME NEW u \in ToSet(b.woken), NEW v \in ToSet(b.woken),
                 Clearing(u), Clearing(v), u # v
          PROVE  wait[u].request.bits \cap wait[v].request.bits = {}
      <3>1. CASE u = t
        BY <2>1, <2>5, <2>6, <3>1
      <3>2. CASE v = t
        BY <2>1, <2>5, <2>6, <3>2
      <3>3. CASE u # t /\ v # t
        BY <1>5, <2>1, <2>6, <3>3
      <3> QED BY <3>1, <3>2, <3>3
    <2>7. /\ ToSet(b.woken) \cup ToSet(b.kept) = S \cup {t}
          /\ ToSet(b.woken) \cap ToSet(b.kept) = {}
      BY <1>1, <1>2, <2>1, <2>2
    <2>8. IsInjective(b.kept)
      BY <1>1, <2>2
    <2>9. /\ \A u \in ToSet(b.woken) : GoneFor(u, b.pattern)
          /\ \A u, v \in ToSet(b.woken) :
               Clearing(u) /\ Clearing(v) /\ u # v
                 => wait[u].request.bits \cap wait[v].request.bits = {}
      BY <2>4, <2>6
    <2>10. Looped(b, S \cup {t})
      BY <1>4, <2>1, <2>3, <2>7, <2>8, <2>9 DEF Looped
    <2> QED BY <2>10 DEF b
  <1>7. CASE ~Matches(a.pattern, wait[t].request)
    <2>1. b.woken = a.woken /\ b.pattern = a.pattern
      BY <1>4, <1>7
    <2>2. /\ IsInjective(b.kept) /\ ToSet(b.kept) = ToSet(a.kept) \cup {t}
      <3>1. b.kept = Append(a.kept, t)
        BY <1>4, <1>7
      <3> HIDE DEF X
      <3> QED BY <1>1, <1>2, <3>1, AppendFacts
    <2>3. \A u \in ToSet(b.kept) : ~Matches(b.pattern, wait[u].request)
      BY <1>5, <1>7, <2>1, <2>2
    <2>4. /\ ToSet(b.woken) \cup ToSet(b.kept) = S \cup {t}
          /\ ToSet(b.woken) \cap ToSet(b.kept) = {}
      BY <1>1, <1>2, <2>1, <2>2
    <2>5. /\ IsInjective(b.woken)
          /\ \A u \in ToSet(b.woken) : GoneFor(u, b.pattern)
          /\ \A u, v \in ToSet(b.woken) :
               Clearing(u) /\ Clearing(v) /\ u # v
                 => wait[u].request.bits \cap wait[v].request.bits = {}
      BY <1>1, <1>5, <2>1
    <2> QED BY <1>4, <2>2, <2>3, <2>4, <2>5 DEF Looped, b
  <1> QED BY <1>6, <1>7

(* What a set releases and keeps. *)
LEMMA ReleasedFacts ==
  ASSUME NEW q \in Seq(Threads \cup {NoThread}), IsInjective(q),
         NEW p \in SUBSET Bits,
         \A i \in 1..Len(q) : /\ q[i] \in Waiting /\ wait[q[i]].type = "Object"
                              /\ wait[q[i]].request \in AllRequests
  PROVE  Looped(Released(q, p), ToSet(q))
  <1> DEFINE n == Len(q)
             X == Threads \cup {NoThread}
             start == [pattern |-> p, woken |-> << >>, kept |-> << >>]
             G == [i \in 1..n |-> [a \in LoopStates |->
                     IF q[i] \notin ToSet(a.woken) THEN Turn(a, q[i]) ELSE a]]
  <1>1. n \in Nat /\ DOMAIN q = 1..n
    OBVIOUS
  <1>2. /\ << >> \in Seq(Threads) /\ << >> \in Seq(X)
        /\ ToSet(<< >>) = {} /\ IsInjective(<< >>)
    BY DEF ToSet, IsInjective
  <1>3. start \in LoopStates
    BY <1>2 DEF LoopStates
  <1>4. \A i \in 1..n, a \in LoopStates :
          /\ q[i] \notin ToSet(a.woken) => Turn(a, q[i]) \in LoopStates
          /\ q[i] \in ToSet(a.woken) => Turn(a, q[i]) = a
    <2> SUFFICES ASSUME NEW i \in 1..n, NEW a \in LoopStates
                 PROVE  /\ q[i] \notin ToSet(a.woken) => Turn(a, q[i]) \in LoopStates
                        /\ q[i] \in ToSet(a.woken) => Turn(a, q[i]) = a
      OBVIOUS
    <2>1. q[i] \notin ToSet(a.woken) => Turn(a, q[i]) \in LoopStates
      BY TurnFacts
    <2>2. q[i] \in ToSet(a.woken) => Turn(a, q[i]) = a
      BY DEF Turn
    <2> QED BY <2>1, <2>2
  <1> HIDE DEF start, n
  <1>5. /\ G \in [1..n -> [LoopStates -> LoopStates]]
        /\ \A i \in 1..n, a \in LoopStates : G[i][a] = Turn(a, q[i])
    BY <1>4
  <1> HIDE DEF G
  <1>6. PICK g \in [0..n -> LoopStates] : Recurs(g, start, G, n)
    BY <1>1, <1>3, <1>5, RecursionSolved
  <1>7. Turns(q, g, p, n)
    <2>1. ASSUME NEW i \in 0..n
          PROVE  g[i] = IF i = 0 THEN start ELSE Turn(g[i - 1], q[i])
      <3>1. CASE i = 0
        BY <1>6, <3>1 DEF Recurs
      <3>2. CASE i # 0
        <4>1. i \in 1..n /\ i - 1 \in 0..n
          BY <1>1, <3>2
        <4> QED BY <1>5, <1>6, <3>2, <4>1 DEF Recurs
      <3> QED BY <3>1, <3>2
    <2> QED BY <1>6, <2>1 DEF Turns, start
  <1> DEFINE f == CHOOSE h : Turns(q, h, p, n)
  <1>8. Turns(q, f, p, n)
    BY <1>7
  <1>9. Released(q, p) = f[n]
    BY DEF Released, Turns, Turn, n
  <1> HIDE DEF f
  <1>10. f[0] = start
    BY <1>1, <1>8 DEF Turns, start
  <1>11. \A i \in Nat : i + 1 <= n => f[i + 1] = Turn(f[i], q[i + 1])
    <2> SUFFICES ASSUME NEW i \in Nat, i + 1 <= n
                 PROVE  f[i + 1] = Turn(f[i], q[i + 1])
      OBVIOUS
    <2>1. i + 1 \in 0..n /\ i + 1 # 0 /\ (i + 1) - 1 = i
      BY <1>1
    <2> QED BY <1>8, <2>1 DEF Turns
  <1> DEFINE S(i) == {q[j] : j \in 1..i}
             Good == {i \in Nat : i <= n => Looped(f[i], S(i))}
  <1>12. 0 \in Good
    <2>1. S(0) = {}
      OBVIOUS
    <2>2. start.pattern = p /\ start.woken = << >> /\ start.kept = << >>
      BY DEF start
    <2> HIDE DEF S
    <2>3. Looped(start, S(0))
      BY <1>2, <1>3, <2>1, <2>2 DEF Looped
    <2> QED BY <1>10, <2>3
  <1>13. ASSUME NEW i \in Nat, i \in Good PROVE i + 1 \in Good
    <2> SUFFICES ASSUME i + 1 <= n PROVE Looped(f[i + 1], S(i + 1))
      OBVIOUS
    <2>1. i <= n /\ i + 1 \in 1..n /\ 1..i + 1 \subseteq 1..n
      BY <1>1
    <2>2. Looped(f[i], S(i))
      BY <1>13, <2>1
    <2>3. q[i + 1] \notin S(i)
      <3> SUFFICES ASSUME NEW j \in 1..i, q[j] = q[i + 1] PROVE FALSE
        OBVIOUS
      <3>1. j \in DOMAIN q /\ i + 1 \in DOMAIN q /\ j # i + 1
        BY <1>1, <2>1
      <3> QED BY <3>1 DEF IsInjective
    <2>4. /\ q[i + 1] \in Waiting /\ wait[q[i + 1]].type = "Object"
          /\ \A j \in 1..i + 1 : wait[q[j]].request \in AllRequests
      BY <2>1 DEF n
    <2>5. S(i + 1) = S(i) \cup {q[i + 1]}
      <3>1. 1..i + 1 = 1..i \cup {i + 1}
        OBVIOUS
      <3> QED BY <3>1
    <2>6. \A u \in S(i) \cup {q[i + 1]} : wait[u].request \in AllRequests
      BY <2>4, <2>5
    <2> HIDE DEF S
    <2>7. Looped(Turn(f[i], q[i + 1]), S(i) \cup {q[i + 1]})
      BY <2>2, <2>3, <2>4, <2>6, TurnFits
    <2> QED BY <1>11, <2>5, <2>7
  <1> HIDE DEF Good
  <1>14. n \in Good
    BY <1>1, <1>12, <1>13, NatSetInduction
  <1>15. Looped(f[n], S(n))
    BY <1>1, <1>14 DEF Good
  <1>16. S(n) = ToSet(q)
    BY <1>1 DEF ToSet, S, n
  <1> QED BY <1>9, <1>15, <1>16
-----------------------------------------------------------------------------
(* The calls.                                                              *)

(* Waits may end while the flag stays as it is, or loses bits. *)
LEMMA FlagStillFits ==
  ASSUME NEW o \in Objects, FlagFits(o), NEW E, WaitsShrink(E),
         Live(o)' = Live(o), multi'[o] = multi[o], pattern'[o] \in SUBSET pattern[o]
  PROVE  FlagFits(o)'
  <1>1. WaitingOn(o)' = WaitingOn(o) \ E
    BY DEF WaitsShrink
  <1>2. \A t \in WaitingOn(o) \ E : wait'[t].request = wait[t].request
    BY DEF WaitsShrink, SameWait, WaitingOn, Waiting
  <1>3. ASSUME NEW t \in WaitingOn(o)'
        PROVE  /\ Live(o)' /\ wait'[t].request \in AllRequests
               /\ ~Matches(pattern'[o], wait'[t].request)
    <2>1. /\ Live(o) /\ wait[t].request \in AllRequests
          /\ ~Matches(pattern[o], wait[t].request)
      BY <1>1, <1>3 DEF FlagFits
    <2>2. ~Matches(pattern'[o], wait[t].request)
      BY <2>1, FewerBits
    <2> QED BY <1>1, <1>2, <1>3, <2>1, <2>2
  <1>4. multi'[o] \/ \A t, u \in WaitingOn(o)' : t = u
    BY <1>1 DEF FlagFits
  <1>5. \A t \in WaitingOn(o)' : ~Matches(pattern[o], wait[t].request)'
    BY <1>3 DEF Matches
  <1> QED BY <1>3, <1>4, <1>5 DEF FlagFits

(* A step of the scheduler. *)
LEMMA SchedulerKeeps ==
  ASSUME FlagInv, [SchedNext]_schedVars, UNCHANGED flagVars
  PROVE  FlagInv'
  <1>1. SchedInv /\ QueuesExact /\ FlagsTyped /\ \A o \in Objects : FlagFits(o)
    BY DEF FlagInv
  <1>2. SchedInv' /\ QueuesExact' /\ \E E \in SUBSET Threads : WaitsShrink(E)
    BY <1>1, SchedulerShrinks
  <1>3. PICK E \in SUBSET Threads : WaitsShrink(E)
    BY <1>2
  <1>4. flagState' = flagState /\ multi' = multi /\ pattern' = pattern
    BY DEF flagVars
  <1>5. FlagsTyped'
    BY <1>1, <1>4 DEF FlagsTyped
  <1>6. \A o \in Objects : FlagFits(o)'
    BY <1>1, <1>3, <1>4, FlagStillFits DEF Live
  <1> QED BY <1>2, <1>5, <1>6 DEF FlagInv

(* A call on o leaves the other flags alone. *)
LEMMA CallKeeps ==
  ASSUME FlagInv, SchedInv', QueuesExact', NEW o \in Objects, NEW E, WaitsShrink(E),
         FlagsTyped', \A p \in Objects \ {o} : SameFlag(p), FlagFits(o)'
  PROVE  FlagInv'
  <1>1. \A p \in Objects : FlagFits(p)
    BY DEF FlagInv
  <1>2. \A p \in Objects \ {o} : FlagFits(p)'
    BY <1>1, FlagStillFits DEF SameFlag
  <1> QED BY <1>2 DEF FlagInv

LEMMA CreateEventFlagKeeps ==
  ASSUME FlagInv, NEW o \in Objects, NEW bits \in SUBSET Bits, NEW many \in BOOLEAN,
         CreateEventFlag(o, bits, many)
  PROVE  FlagInv'
  <1>1. SchedInv /\ QueuesExact /\ FlagsTyped /\ FlagFits(o)
    BY DEF FlagInv
  <1>2. PlainCall
    BY DEF CreateEventFlag, PlainCall
  <1>3. SchedInv' /\ QueuesExact' /\ WaitsShrink({})
    BY <1>1, <1>2, PlainCallShrinks
  <1>4. /\ flagState[o] = "Uncreated" /\ flagState' = [flagState EXCEPT ![o] = "Live"]
        /\ multi' = [multi EXCEPT ![o] = many]
        /\ pattern' = [pattern EXCEPT ![o] = bits]
    BY DEF CreateEventFlag
  <1>5. FlagsTyped'
    BY <1>1, <1>4 DEF FlagsTyped
  <1>6. \A p \in Objects \ {o} : SameFlag(p)
    BY <1>1, <1>4 DEF FlagsTyped, SameFlag, Live
  <1>7. WaitingOn(o)' = {}
    BY <1>1, <1>3, <1>4 DEF FlagFits, Live, WaitsShrink
  <1>8. FlagFits(o)'
    BY <1>7 DEF FlagFits
  <1> QED BY <1>3, <1>5, <1>6, <1>8, CallKeeps

LEMMA DeleteEventFlagKeeps ==
  ASSUME FlagInv, NEW o \in Objects, DeleteEventFlag(o)
  PROVE  FlagInv'
  <1>1. SchedInv /\ QueuesExact /\ FlagsTyped
    BY DEF FlagInv
  <1>2. /\ Guest /\ flagState' = [flagState EXCEPT ![o] = "Deleted"]
        /\ multi' = [multi EXCEPT ![o] = FALSE]
        /\ pattern' = [pattern EXCEPT ![o] = {}]
        /\ waiters' = [waiters EXCEPT ![o] = << >>]
        /\ UNCHANGED <<prio, wakeups, dispatch, intr, vblankLeft, stopped>>
        /\ WakeAndFinish(Releasable(waiters[o])[Len(waiters[o])])
    BY DEF DeleteEventFlag, Cancelled
  <1> DEFINE k == Len(waiters[o])
  <1>3. k \in 0..Len(waiters[o])
    BY <1>1, QueueFacts
  <1>4. waiters' = [waiters EXCEPT ![o] = SubSeq(@, k + 1, Len(@))]
    <2>1. SubSeq(waiters[o], k + 1, Len(waiters[o])) = << >>
      BY <1>3, SubSeqEmpty
    <2> QED BY <1>2, <2>1
  <1>5. SchedInv' /\ QueuesExact' /\ WaitsShrink(WaitingOn(o))
    <2>1. WakeAndFinish(Releasable(waiters[o])[k]) /\ k = Len(waiters[o])
      BY <1>2
    <2> HIDE DEF k
    <2>2. /\ SchedInv' /\ QueuesExact'
          /\ WaitsShrink({waiters[o][i] : i \in 1..k})
          /\ {waiters[o][i] : i \in 1..k} = WaitingOn(o)
      BY <1>1, <1>2, <1>3, <1>4, <2>1, FirstReleased
    <2> QED BY <2>2
  <1>6. FlagsTyped'
    BY <1>1, <1>2 DEF FlagsTyped
  <1>7. \A p \in Objects \ {o} : SameFlag(p)
    BY <1>1, <1>2 DEF FlagsTyped, SameFlag, Live
  <1>8. WaitingOn(o)' = {}
    BY <1>5 DEF WaitsShrink
  <1>9. FlagFits(o)'
    BY <1>8 DEF FlagFits
  <1> QED BY <1>5, <1>6, <1>7, <1>9, CallKeeps

(* Bits go, and nobody is woken. *)
LEMMA FewerBitsKeep ==
  ASSUME FlagInv, NEW o \in Objects, PlainCall, NEW p \in SUBSET pattern[o],
         pattern' = [pattern EXCEPT ![o] = p], flagState' = flagState, multi' = multi
  PROVE  FlagInv'
  <1>1. SchedInv /\ QueuesExact /\ FlagsTyped /\ FlagFits(o)
    BY DEF FlagInv
  <1>2. SchedInv' /\ QueuesExact' /\ WaitsShrink({})
    BY <1>1, PlainCallShrinks
  <1>3. FlagsTyped' /\ pattern'[o] = p
    BY <1>1 DEF FlagsTyped
  <1>4. \A r \in Objects \ {o} : SameFlag(r)
    BY <1>1 DEF FlagsTyped, SameFlag, Live
  <1>5. FlagFits(o)'
    BY <1>1, <1>2, <1>3, FlagStillFits DEF Live
  <1> QED BY <1>2, <1>3, <1>4, <1>5, CallKeeps

LEMMA ClearEventFlagKeeps ==
  ASSUME FlagInv, NEW o \in Objects, NEW mask \in SUBSET Bits, ClearEventFlag(o, mask)
  PROVE  FlagInv'
  <1>1. PlainCall /\ flagState' = flagState /\ multi' = multi
    BY DEF ClearEventFlag, PlainCall
  <1>2. pattern' = [pattern EXCEPT ![o] = pattern[o] \cap mask]
    BY DEF ClearEventFlag
  <1> QED BY <1>1, <1>2, FewerBitsKeep

LEMMA MatchEventFlagKeeps ==
  ASSUME FlagInv, NEW o \in Objects, NEW r \in Requests, MatchEventFlag(o, r)
  PROVE  FlagInv'
  <1>1. PlainCall /\ flagState' = flagState /\ multi' = multi
    BY DEF MatchEventFlag, PlainCall
  <1>2. pattern' = [pattern EXCEPT ![o] = Left(pattern[o], r)]
    BY DEF MatchEventFlag
  <1>3. r.clear \in {"none", "bits", "all"}
    BY EventFlagAssumption DEF EventFlagAssumption, AllRequests
  <1>4. Left(pattern[o], r) \in SUBSET pattern[o]
    BY <1>3 DEF Left
  <1> QED BY <1>1, <1>2, <1>4, FewerBitsKeep

(* The current thread queues: the pattern does not match, and without the   *)
(* attribute nobody waits yet.                                              *)
LEMMA WaitEventFlagKeeps ==
  ASSUME FlagInv, ~HandlersWait, NEW o \in Objects, NEW r \in Requests,
         NEW d \in Delays \cup {Forever}, WaitEventFlag(o, r, d)
  PROVE  FlagInv'
  <1>1. SchedInv /\ QueuesExact /\ FlagsTyped /\ \A p \in Objects : FlagFits(p)
    BY DEF FlagInv
  <1>2. /\ Guest /\ ~active /\ Live(o) /\ ~Matches(pattern[o], r) /\ MayQueue(o)
        /\ waiters' = [waiters EXCEPT ![o] = Append(@, current)]
        /\ UNCHANGED <<prio, wakeups, dispatch, intr, vblankLeft, stopped>>
        /\ flagState' = flagState /\ multi' = multi /\ pattern' = pattern
        /\ Block(WaitOn(o, r, d))
    BY DEF WaitEventFlag, WaitCaller, flagVars
  <1>3. /\ SchedInv' /\ QueuesExact'
        /\ current \in Threads /\ status[current] = "Running"
        /\ WaitingOn(o)' = WaitingOn(o) \cup {current}
        /\ \A p \in Objects \ {o} : WaitingOn(p)' = WaitingOn(p)
        /\ wait' = [wait EXCEPT ![current] = WaitOn(o, r, d)]
        /\ wait'[current].request = r
    BY <1>1, <1>2, BlockQueues
  <1>4. \A p \in Objects : \A t \in WaitingOn(p) : t # current /\ wait'[t] = wait[t]
    <2>1. wait \in [Threads -> WaitStates]
      BY <1>1 DEF SchedInv, ThreadsFit
    <2> QED BY <1>3, <2>1 DEF WaitingOn
  <1>5. FlagsTyped'
    BY <1>1, <1>2 DEF FlagsTyped
  <1>6. r \in AllRequests
    BY EventFlagAssumption DEF EventFlagAssumption
  <1>7. ASSUME NEW p \in Objects PROVE FlagFits(p)'
    <2>1. /\ Live(p)' = Live(p) /\ multi'[p] = multi[p] /\ pattern'[p] = pattern[p]
      BY <1>2 DEF Live
    <2>2. \A t \in WaitingOn(p) :
            /\ Live(p)' /\ wait'[t].request \in AllRequests
            /\ ~Matches(pattern'[p], wait'[t].request)
      <3> SUFFICES ASSUME NEW t \in WaitingOn(p)
                   PROVE  /\ Live(p)' /\ wait'[t].request \in AllRequests
                          /\ ~Matches(pattern'[p], wait'[t].request)
        OBVIOUS
      <3>1. /\ Live(p) /\ wait[t].request \in AllRequests
            /\ ~Matches(pattern[p], wait[t].request)
        BY <1>1 DEF FlagFits
      <3> QED BY <1>4, <2>1, <3>1
    <2>3. CASE p = o
      <3>1. \A t \in WaitingOn(o)' :
              /\ Live(o)' /\ wait'[t].request \in AllRequests
              /\ ~Matches(pattern'[o], wait'[t].request)
        BY <1>2, <1>3, <1>6, <2>1, <2>2, <2>3
      <3>2. multi'[o] \/ \A t, u \in WaitingOn(o)' : t = u
        <4>1. multi[o] \/ WaitingOn(o) = {}
          BY <1>1, <1>2, QueueFacts DEF MayQueue
        <4> QED BY <1>3, <2>1, <2>3, <4>1
      <3>3. \A t \in WaitingOn(o)' : ~Matches(pattern[o], wait[t].request)'
        BY <3>1 DEF Matches
      <3> QED BY <2>3, <3>1, <3>2, <3>3 DEF FlagFits
    <2>4. CASE p # o
      <3>1. WaitingOn(p)' = WaitingOn(p)
        BY <1>3, <2>4
      <3>2. multi'[p] \/ \A t, u \in WaitingOn(p)' : t = u
        BY <1>1, <2>1, <3>1 DEF FlagFits
      <3>3. \A t \in WaitingOn(p)' : ~Matches(pattern[p], wait[t].request)'
        BY <2>2, <3>1 DEF Matches
      <3> QED BY <2>2, <3>1, <3>2, <3>3 DEF FlagFits
    <2> QED BY <2>3, <2>4
  <1> QED BY <1>3, <1>5, <1>7 DEF FlagInv

(* What a set does: who is woken had its turn, and the others are kept.     *)
LEMMA SetEventFlagKeeps ==
  ASSUME FlagInv, NEW o \in Objects, NEW bits \in SUBSET Bits, SetEventFlag(o, bits)
  PROVE  /\ FlagInv'
         /\ \A t, u \in {v \in WaitingOn(o) : status'[v] # "Waiting" /\ Clearing(v)} :
              t = u \/ wait[t].request.bits \cap wait[u].request.bits = {}
         /\ \A t \in WaitingOn(o) : status'[t] # "Waiting" => GoneFor(t, pattern'[o])
  <1>1. SchedInv /\ QueuesExact /\ FlagsTyped /\ FlagFits(o)
    BY DEF FlagInv
  <1> DEFINE q == waiters[o]
             p == pattern[o] \cup bits
             a == Released(q, p)
             X == Threads \cup {NoThread}
  <1>2. /\ Guest /\ Live(o)
        /\ pattern' = [pattern EXCEPT ![o] = a.pattern]
        /\ waiters' = [waiters EXCEPT ![o] = a.kept]
        /\ UNCHANGED <<prio, wakeups, dispatch, intr, vblankLeft, stopped>>
        /\ flagState' = flagState /\ multi' = multi
        /\ WakeAndFinish(a.woken)
    BY DEF SetEventFlag
  <1>3. Looped(a, WaitingOn(o))
    <2>1. /\ q \in Seq(X) /\ IsInjective(q) /\ ToSet(q) = WaitingOn(o)
          /\ \A i \in 1..Len(q) : q[i] \in WaitingOn(o)
      BY <1>1, QueueFacts
    <2>2. \A t \in WaitingOn(o) : /\ t \in Waiting /\ wait[t].type = "Object"
                                  /\ wait[t].request \in AllRequests
      BY <1>1 DEF FlagFits, WaitingOn, Waiting
    <2>3. p \in SUBSET Bits
      BY <1>1 DEF FlagsTyped
    <2> HIDE DEF q, p
    <2>4. Looped(a, ToSet(q))
      BY <2>1, <2>2, <2>3, ReleasedFacts
    <2> QED BY <2>1, <2>4
  <1> HIDE DEF a, q, p
  <1>4. /\ a.pattern \in SUBSET Bits /\ a.woken \in Seq(Threads) /\ a.kept \in Seq(X)
        /\ IsInjective(a.woken) /\ IsInjective(a.kept)
        /\ ToSet(a.woken) \subseteq WaitingOn(o)
        /\ ToSet(a.kept) = WaitingOn(o) \ ToSet(a.woken)
    BY <1>3 DEF Looped, LoopStates
  <1>5. /\ SchedInv' /\ QueuesExact' /\ WaitsShrink(ToSet(a.woken))
    BY <1>1, <1>2, <1>4, ReleaseShrinks
  <1>6. pattern'[o] = a.pattern /\ FlagsTyped'
    BY <1>1, <1>2, <1>4 DEF FlagsTyped
  <1>7. \A r \in Objects \ {o} : SameFlag(r)
    BY <1>1, <1>2 DEF FlagsTyped, SameFlag, Live
  <1>8. WaitingOn(o)' = ToSet(a.kept)
    BY <1>4, <1>5 DEF WaitsShrink
  <1>9. FlagFits(o)'
    <2>1. ASSUME NEW t \in ToSet(a.kept)
          PROVE  /\ wait'[t].request \in AllRequests
                 /\ ~Matches(pattern'[o], wait'[t].request)
      <3>1. ~Matches(a.pattern, wait[t].request)
        BY <1>3 DEF Looped
      <3>2. wait[t].request \in AllRequests
        BY <1>1, <1>4 DEF FlagFits
      <3>3. wait'[t].request = wait[t].request
        BY <1>4, <1>5 DEF WaitsShrink, SameWait, WaitingOn, Waiting
      <3> QED BY <1>6, <3>1, <3>2, <3>3
    <2>2. \A t \in WaitingOn(o)' : ~Matches(pattern[o], wait[t].request)'
      BY <1>8, <2>1 DEF Matches
    <2>3. multi'[o] \/ \A t, u \in WaitingOn(o)' : t = u
      BY <1>1, <1>2, <1>4, <1>8 DEF FlagFits
    <2>4. Live(o)'
      BY <1>2 DEF Live
    <2> QED BY <1>8, <2>1, <2>2, <2>3, <2>4 DEF FlagFits
  <1>10. FlagInv'
    BY <1>5, <1>6, <1>7, <1>9, CallKeeps
  <1>11. \A t \in WaitingOn(o) : status'[t] # "Waiting" => t \in ToSet(a.woken)
    BY <1>4, <1>8 DEF WaitingOn
  <1>12. \A t \in WaitingOn(o) : status'[t] # "Waiting" => GoneFor(t, pattern'[o])
    BY <1>3, <1>6, <1>11 DEF Looped
  <1>13. \A t, u \in {v \in WaitingOn(o) : status'[v] # "Waiting" /\ Clearing(v)} :
           t = u \/ wait[t].request.bits \cap wait[u].request.bits = {}
    BY <1>3, <1>11 DEF Looped
  <1> QED BY <1>10, <1>12, <1>13

-----------------------------------------------------------------------------
(* The theorems.                                                           *)

(* No flag exists at first, and nobody waits. *)
LEMMA FlagsInit == ASSUME Init PROVE FlagInv
  <1>1. SchedInv
    BY InitFits DEF Init
  <1>2. \A o \in Objects : WaitingOn(o) = {} /\ waiters[o] = << >>
    BY DEF Init, SchedInit, WaitingOn
  <1>3. QueuesExact
    BY <1>2 DEF QueuesExact, ToSet
  <1>4. FlagsTyped
    BY DEF FlagsTyped, Init
  <1>5. \A o \in Objects : FlagFits(o)
    BY <1>2 DEF FlagFits
  <1> QED BY <1>1, <1>3, <1>4, <1>5 DEF FlagInv

(* Every step, where handlers do not wait. *)
LEMMA FlagStep ==
  ASSUME ~HandlersWait, FlagInv, [Next]_vars
  PROVE  FlagInv'
  <1>1. CASE FlagCalls
    BY <1>1, CreateEventFlagKeeps, DeleteEventFlagKeeps, SetEventFlagKeeps,
       ClearEventFlagKeeps, MatchEventFlagKeeps, WaitEventFlagKeeps DEF FlagCalls
  <1>2. CASE SchedNext /\ UNCHANGED flagVars
    BY <1>2, SchedulerKeeps
  <1>3. CASE UNCHANGED vars
    BY <1>3, SchedulerKeeps DEF vars
  <1> QED BY <1>1, <1>2, <1>3 DEF Next

(* The inductive invariant holds. *)
LEMMA FlagInvHolds == ~HandlersWait => (Spec => []FlagInv)
  <1> SUFFICES ASSUME ~HandlersWait PROVE Spec => []FlagInv
    OBVIOUS
  <1>1. Init => FlagInv
    BY FlagsInit
  <1>2. FlagInv /\ [Next]_vars => FlagInv'
    BY FlagStep
  <1> QED BY <1>1, <1>2, PTL DEF Spec

(* Nobody waits for bits the flag holds, whatever sets, clears, timeouts    *)
(* and other waiters did to it, and no flag without the attribute has two   *)
(* waiters.                                                                 *)
THEOREM NobodyMatches == ~HandlersWait => (Spec => []NoMatchingWaiter)
  <1> SUFFICES ASSUME ~HandlersWait PROVE Spec => []NoMatchingWaiter
    OBVIOUS
  <1>1. FlagInv => NoMatchingWaiter
    <2> SUFFICES ASSUME FlagInv PROVE NoMatchingWaiter
      OBVIOUS
    <2>1. SchedInv /\ QueuesExact /\ FlagsTyped
      BY DEF FlagInv
    <2>2. TypeOK
      BY <2>1, TypesFit DEF TypeOK, FlagsTyped
    <2>3. ASSUME NEW o \in Objects, NEW i \in DOMAIN waiters[o]
          PROVE  /\ Live(o) /\ ~Matches(pattern[o], wait[waiters[o][i]].request)
                 /\ multi[o] \/ i = 1
      <3>1. /\ waiters[o] \in Seq(Threads \cup {NoThread}) /\ IsInjective(waiters[o])
            /\ \A j \in 1..Len(waiters[o]) : waiters[o][j] \in WaitingOn(o)
        BY <2>1, QueueFacts
      <3> DEFINE q == waiters[o]
      <3>2. FlagFits(o)
        BY DEF FlagInv
      <3> HIDE DEF q
      <3>3. /\ i \in 1..Len(q) /\ 1 \in 1..Len(q) /\ DOMAIN q = 1..Len(q)
        BY <2>3, <3>1 DEF q
      <3>4. q[i] \in WaitingOn(o) /\ q[1] \in WaitingOn(o) /\ (q[i] = q[1] => i = 1)
        BY <3>1, <3>3 DEF q, IsInjective
      <3> QED BY <3>2, <3>4 DEF FlagFits, q
    <2> QED BY <2>1, <2>2, <2>3 DEF NoMatchingWaiter
  <1> QED BY <1>1, FlagInvHolds, PTL

(* The threads one set releases that wanted all their bits and cleared them *)
(* wanted different ones.                                                   *)
THEOREM NoBitPaysTwice == ~HandlersWait => (Spec => BitsPayOnce)
  <1> SUFFICES ASSUME ~HandlersWait PROVE Spec => BitsPayOnce
    OBVIOUS
  <1>1. FlagInv /\ [Next]_vars
          => [\A o \in Objects, bits \in SUBSET Bits :
                SetEventFlag(o, bits) =>
                  \A t, u \in {v \in WaitingOn(o) : status'[v] # "Waiting" /\ Clearing(v)} :
                    t = u \/ wait[t].request.bits \cap wait[u].request.bits = {}]_vars
    BY SetEventFlagKeeps
  <1> QED BY <1>1, FlagInvHolds, PTL DEF Spec, BitsPayOnce

(* A set leaves no bit that a thread it released asked to clear. *)
THEOREM ClearedBitsGo == ~HandlersWait => (Spec => ClearedBitsAreGone)
  <1> SUFFICES ASSUME ~HandlersWait PROVE Spec => ClearedBitsAreGone
    OBVIOUS
  <1>1. FlagInv /\ [Next]_vars
          => [\A o \in Objects, bits \in SUBSET Bits :
                SetEventFlag(o, bits) =>
                  \A t \in WaitingOn(o) :
                    status'[t] # "Waiting" =>
                      CASE wait[t].request.clear = "none" -> TRUE
                        [] wait[t].request.clear = "bits" ->
                             pattern'[o] \cap wait[t].request.bits = {}
                        [] wait[t].request.clear = "all" -> pattern'[o] = {}]_vars
    BY SetEventFlagKeeps DEF GoneFor
  <1> QED BY <1>1, FlagInvHolds, PTL DEF Spec, ClearedBitsAreGone

-----------------------------------------------------------------------------
(* Mutexes.                                                                 *)
LocksTyped ==
  /\ mutexState \in [Objects -> {"Uncreated", "Live", "Deleted"}]
  /\ owner \in [Objects -> Threads \cup {NoThread}]
  /\ lockCount \in [Objects -> Ints(IntLimit)]

(* What LockConsistent says of one mutex, and that its waiters ask for a    *)
(* lock count a call may ask for.                                           *)
LockFits(o) ==
  /\ lockCount[o] > 0 <=> owner[o] # NoThread
  /\ WaitingOn(o) # {} => LiveMutex(o) /\ lockCount[o] # 0
  /\ owner[o] \notin WaitingOn(o)
  /\ \A t \in WaitingOn(o) : wait[t].request \in Requests

(* The inductive invariant. *)
MutexInv ==
  /\ SchedInv /\ QueuesExact /\ LocksTyped
  /\ \A o \in Objects : LockFits(o)

(* FifoHandover and WokenWithLock, for one mutex. *)
HandsOver(o) ==
  waiters[o] # << >> /\ owner'[o] # owner[o] /\ LiveMutex(o)' =>
    LET heir == Head(waiters[o])
    IN /\ owner'[o] = heir
       /\ lockCount'[o] = wait[heir].request
       /\ status'[heir] # "Waiting"
WokenByRule(o, t) ==
  /\ t \in ToSet(waiters[o]) /\ t \notin ToSet(waiters'[o])
  /\ wait[t].left = Forever
  => \/ owner'[o] = t
     \/ ~LiveMutex(o)'
     \/ status'[t] \in {"Dormant", "Deleted"}

(* What is shown of every step. *)
StepKeeps ==
  /\ MutexInv'
  /\ \A o \in Objects : HandsOver(o)
  /\ \A o \in Objects, t \in Threads : WokenByRule(o, t)

(* A step leaves mutex o alone. *)
SameLock(o) ==
  LiveMutex(o)' = LiveMutex(o) /\ owner'[o] = owner[o] /\ lockCount'[o] = lockCount[o]

LEMMA RequestsCount ==
  /\ IntLimit \in Nat /\ IntLimit > 0
  /\ \A n \in Requests : n \in Int /\ n > 0 /\ n \in Ints(IntLimit)
  /\ \A n : n \in Ints(IntLimit) <=> n \in Int /\ -IntLimit <= n /\ n < IntLimit
  <1>1. IntLimit \in Nat /\ IntLimit > 0 /\ Requests \subseteq 1..IntLimit - 1
    BY MutexAssumption DEF MutexAssumption
  <1> QED BY <1>1 DEF Ints

(* Waits may end while the lock stays where it is. *)
LEMMA LockStillFits ==
  ASSUME NEW o \in Objects, LockFits(o), SameLock(o), NEW E, WaitsShrink(E)
  PROVE  LockFits(o)'
  <1>1. WaitingOn(o)' = WaitingOn(o) \ E
    BY DEF WaitsShrink
  <1>2. \A t \in WaitingOn(o) \ E : wait'[t].request = wait[t].request
    BY DEF WaitsShrink, SameWait, WaitingOn, Waiting
  <1> QED BY <1>1, <1>2 DEF LockFits, SameLock

(* A step of the scheduler. *)
LEMMA MutexSchedulerKeeps ==
  ASSUME MutexInv, [SchedNext]_schedVars, UNCHANGED mutexVars
  PROVE  StepKeeps
  <1>1. SchedInv /\ QueuesExact /\ LocksTyped /\ \A o \in Objects : LockFits(o)
    BY DEF MutexInv
  <1>2. /\ SchedInv' /\ QueuesExact'
        /\ \E E \in SUBSET Threads :
              /\ WaitsShrink(E)
              /\ \A t \in E : wait[t].type = "Object" /\ wait[t].left = Forever
                                => status'[t] \in {"Dormant", "Deleted"}
    BY <1>1, SchedulerShrinks
  <1>3. PICK E \in SUBSET Threads :
          /\ WaitsShrink(E)
          /\ \A t \in E : wait[t].type = "Object" /\ wait[t].left = Forever
                            => status'[t] \in {"Dormant", "Deleted"}
    BY <1>2
  <1>4. mutexState' = mutexState /\ owner' = owner /\ lockCount' = lockCount
    BY DEF mutexVars
  <1>5. LocksTyped'
    BY <1>1, <1>4 DEF LocksTyped
  <1>6. \A o \in Objects : SameLock(o)
    BY <1>4 DEF SameLock, LiveMutex
  <1>7. \A o \in Objects : LockFits(o)'
    BY <1>1, <1>3, <1>6, LockStillFits
  <1>8. \A o \in Objects : HandsOver(o)
    BY <1>4 DEF HandsOver
  <1>9. ASSUME NEW o \in Objects, NEW t \in Threads PROVE WokenByRule(o, t)
    <2> SUFFICES ASSUME t \in ToSet(waiters[o]), t \notin ToSet(waiters'[o]),
                        wait[t].left = Forever
                 PROVE  status'[t] \in {"Dormant", "Deleted"}
      BY DEF WokenByRule
    <2>1. t \in WaitingOn(o) /\ t \notin WaitingOn(o)'
      BY <1>1, <1>2 DEF QueuesExact
    <2>2. t \in E
      BY <1>3, <2>1 DEF WaitsShrink
    <2>3. wait[t].type = "Object"
      BY <2>1 DEF WaitingOn
    <2> QED BY <1>3, <2>2, <2>3
  <1> QED BY <1>2, <1>5, <1>7, <1>8, <1>9 DEF MutexInv, StepKeeps

(* A call on o ends waits of its queue only and leaves the other mutexes    *)
(* alone.                                                                   *)
LEMMA MutexCallKeeps ==
  ASSUME MutexInv, SchedInv', QueuesExact', NEW o \in Objects,
         NEW E \in SUBSET WaitingOn(o), WaitsShrink(E),
         LocksTyped', \A p \in Objects \ {o} : SameLock(p),
         LockFits(o)', HandsOver(o),
         \A t \in E : owner'[o] = t \/ ~LiveMutex(o)'
  PROVE  StepKeeps
  <1>1. QueuesExact /\ \A p \in Objects : LockFits(p)
    BY DEF MutexInv
  <1>2. \A p \in Objects : LockFits(p)'
    BY <1>1, LockStillFits
  <1>3. \A p \in Objects : HandsOver(p)
    BY DEF HandsOver, SameLock
  <1>4. ASSUME NEW p \in Objects, NEW t \in Threads PROVE WokenByRule(p, t)
    <2> SUFFICES ASSUME t \in ToSet(waiters[p]), t \notin ToSet(waiters'[p])
                 PROVE  owner'[p] = t \/ ~LiveMutex(p)'
      BY DEF WokenByRule
    <2>1. t \in WaitingOn(p) /\ t \notin WaitingOn(p)'
      BY <1>1 DEF QueuesExact
    <2>2. t \in E
      BY <2>1 DEF WaitsShrink
    <2>3. p = o
      BY <2>1, <2>2 DEF WaitingOn
    <2> QED BY <2>2, <2>3
  <1> QED BY <1>2, <1>3, <1>4 DEF MutexInv, StepKeeps

-----------------------------------------------------------------------------
(* The calls.                                                              *)

LEMMA CreateMutexKeeps ==
  ASSUME MutexInv, ~HandlersWait, NEW o \in Objects, NEW n \in Ints(IntLimit),
         CreateMutex(o, n)
  PROVE  StepKeeps
  <1>1. SchedInv /\ QueuesExact /\ LocksTyped /\ LockFits(o)
    BY DEF MutexInv
  <1>2. PlainCall /\ ~active /\ current # NoThread
    BY DEF CreateMutex, PlainCall, WaitCaller, Guest
  <1>3. SchedInv' /\ QueuesExact' /\ WaitsShrink({})
    BY <1>1, <1>2, PlainCallShrinks
  <1> DEFINE t == IF n > 0 THEN current ELSE NoThread
  <1>4. /\ mutexState[o] = "Uncreated" /\ waiters' = waiters
        /\ mutexState' = [mutexState EXCEPT ![o] = "Live"]
        /\ owner' = [owner EXCEPT ![o] = t]
        /\ lockCount' = [lockCount EXCEPT ![o] = n]
    BY DEF CreateMutex, Held
  <1>5. t \in Threads \cup {NoThread} /\ (n > 0 <=> t # NoThread)
    <2>1. current \in Threads \cup {NoThread}
      BY <1>1 DEF SchedInv, ThreadsFit
    <2> QED BY <1>2, <2>1
  <1> HIDE DEF t
  <1>6. LocksTyped'
    BY <1>1, <1>4, <1>5 DEF LocksTyped
  <1>7. \A p \in Objects \ {o} : SameLock(p)
    BY <1>1, <1>4 DEF LocksTyped, SameLock, LiveMutex
  <1>8. WaitingOn(o) = {} /\ waiters[o] = << >>
    <2>1. WaitingOn(o) = {}
      BY <1>1, <1>4 DEF LockFits, LiveMutex
    <2> QED BY <1>1, <2>1, QueueFacts
  <1>9. WaitingOn(o)' = {}
    BY <1>3, <1>8 DEF WaitsShrink
  <1>10. owner'[o] = t /\ lockCount'[o] = n
    BY <1>1, <1>4 DEF LocksTyped
  <1>11. LockFits(o)'
    BY <1>5, <1>9, <1>10 DEF LockFits
  <1>12. HandsOver(o)
    BY <1>8 DEF HandsOver
  <1> QED BY <1>3, <1>6, <1>7, <1>11, <1>12, MutexCallKeeps

LEMMA TakeMutexKeeps ==
  ASSUME MutexInv, ~HandlersWait, NEW o \in Objects, NEW n \in Requests,
         TakeMutex(o, n)
  PROVE  StepKeeps
  <1>1. SchedInv /\ QueuesExact /\ LocksTyped /\ LockFits(o)
    BY DEF MutexInv
  <1>2. PlainCall /\ ~active /\ current # NoThread
    BY DEF TakeMutex, PlainCall, WaitCaller, Guest
  <1>3. SchedInv' /\ QueuesExact' /\ WaitsShrink({})
    BY <1>1, <1>2, PlainCallShrinks
  <1>4. PICK m \in {n, lockCount[o] + n} :
          /\ owner' = [owner EXCEPT ![o] = current]
          /\ lockCount' = [lockCount EXCEPT ![o] = m]
          /\ m < IntLimit
          /\ m = n \/ lockCount[o] # 0
          /\ lockCount[o] = 0 \/ owner[o] = current
    BY RequestsCount DEF TakeMutex, Held
  <1>5. waiters' = waiters /\ mutexState' = mutexState /\ LiveMutex(o)
    BY DEF TakeMutex
  <1>6. m \in Ints(IntLimit) /\ m > 0 /\ current \in Threads
    <2>1. lockCount[o] \in Int
      BY <1>1, RequestsCount DEF LocksTyped
    <2>2. current \in Threads
      BY <1>1, <1>2 DEF SchedInv, ThreadsFit
    <2>3. m = n \/ (m = lockCount[o] + n /\ lockCount[o] > 0)
      BY <1>1, <1>2, <1>4 DEF LockFits
    <2>4. n \in Int /\ n > 0 /\ IntLimit \in Nat
      BY RequestsCount
    <2>5. m \in Int /\ m > 0 /\ -IntLimit <= m
      BY <2>1, <2>3, <2>4
    <2> QED BY <1>4, <2>2, <2>5, RequestsCount
  <1>7. LocksTyped'
    BY <1>1, <1>4, <1>5, <1>6 DEF LocksTyped
  <1>8. \A p \in Objects \ {o} : SameLock(p)
    BY <1>1, <1>4, <1>5 DEF LocksTyped, SameLock, LiveMutex
  <1>9. owner'[o] = current /\ lockCount'[o] = m /\ LiveMutex(o)'
    BY <1>1, <1>4, <1>5 DEF LocksTyped, LiveMutex
  <1>10. current \notin WaitingOn(o)
    <2>1. status[current] = "Running"
      BY <1>1, <1>6 DEF SchedInv, ThreadsFit
    <2> QED BY <2>1 DEF WaitingOn
  <1>11. /\ WaitingOn(o)' = WaitingOn(o)
         /\ \A t \in WaitingOn(o) : wait'[t].request = wait[t].request
    BY <1>3 DEF WaitsShrink, SameWait, WaitingOn, Waiting
  <1>12. LockFits(o)'
    BY <1>1, <1>2, <1>6, <1>9, <1>10, <1>11 DEF LockFits
  <1>13. HandsOver(o)
    <2> SUFFICES ASSUME waiters[o] # << >> PROVE owner'[o] = owner[o]
      BY DEF HandsOver
    <2>1. lockCount[o] # 0
      BY <1>1, QueueFacts DEF LockFits
    <2> QED BY <1>4, <1>9, <2>1
  <1> QED BY <1>3, <1>7, <1>8, <1>12, <1>13, MutexCallKeeps

LEMMA DeleteMutexKeeps ==
  ASSUME MutexInv, NEW o \in Objects, DeleteMutex(o)
  PROVE  StepKeeps
  <1>1. SchedInv /\ QueuesExact /\ LocksTyped /\ LockFits(o)
    BY DEF MutexInv
  <1>2. /\ Guest /\ mutexState' = [mutexState EXCEPT ![o] = "Deleted"]
        /\ owner' = [owner EXCEPT ![o] = NoThread]
        /\ lockCount' = [lockCount EXCEPT ![o] = 0]
        /\ waiters' = [waiters EXCEPT ![o] = << >>]
        /\ UNCHANGED <<prio, wakeups, dispatch, intr, vblankLeft, stopped>>
        /\ WakeAndFinish(Releasable(waiters[o])[Len(waiters[o])])
    BY DEF DeleteMutex, Cancelled, WaitCaller, Held
  <1> DEFINE k == Len(waiters[o])
  <1>3. k \in 0..Len(waiters[o])
    BY <1>1, QueueFacts
  <1>4. waiters' = [waiters EXCEPT ![o] = SubSeq(@, k + 1, Len(@))]
    <2>1. SubSeq(waiters[o], k + 1, Len(waiters[o])) = << >>
      BY <1>3, SubSeqEmpty
    <2> QED BY <1>2, <2>1
  <1>5. SchedInv' /\ QueuesExact' /\ WaitsShrink(WaitingOn(o))
    <2>1. WakeAndFinish(Releasable(waiters[o])[k]) /\ k = Len(waiters[o])
      BY <1>2
    <2> HIDE DEF k
    <2>2. /\ SchedInv' /\ QueuesExact'
          /\ WaitsShrink({waiters[o][i] : i \in 1..k})
          /\ {waiters[o][i] : i \in 1..k} = WaitingOn(o)
      BY <1>1, <1>2, <1>3, <1>4, <2>1, FirstReleased
    <2> QED BY <2>2
  <1>6. 0 \in Ints(IntLimit)
    BY RequestsCount
  <1>7. LocksTyped'
    BY <1>1, <1>2, <1>6 DEF LocksTyped
  <1>8. \A p \in Objects \ {o} : SameLock(p)
    BY <1>1, <1>2 DEF LocksTyped, SameLock, LiveMutex
  <1>9. owner'[o] = NoThread /\ lockCount'[o] = 0 /\ ~LiveMutex(o)'
    BY <1>1, <1>2 DEF LocksTyped, LiveMutex
  <1>10. WaitingOn(o)' = {}
    BY <1>5 DEF WaitsShrink
  <1>11. LockFits(o)'
    BY <1>9, <1>10 DEF LockFits
  <1>12. HandsOver(o)
    BY <1>9 DEF HandsOver
  <1> QED BY <1>5, <1>7, <1>8, <1>9, <1>11, <1>12, MutexCallKeeps

(* The lock is not free and not the current thread's: it queues. *)
LEMMA LockMutexKeeps ==
  ASSUME MutexInv, ~HandlersWait, NEW o \in Objects, NEW n \in Requests,
         NEW d \in Delays \cup {Forever}, LockMutex(o, n, d)
  PROVE  StepKeeps
  <1>1. /\ SchedInv /\ QueuesExact /\ LocksTyped /\ \A p \in Objects : LockFits(p)
    BY DEF MutexInv
  <1>2. /\ Guest /\ ~active /\ LiveMutex(o)
        /\ lockCount[o] # 0 /\ owner[o] # current
        /\ waiters' = [waiters EXCEPT ![o] = Append(@, current)]
        /\ UNCHANGED <<prio, wakeups, dispatch, intr, vblankLeft, stopped>>
        /\ mutexState' = mutexState /\ owner' = owner /\ lockCount' = lockCount
        /\ Block(WaitOn(o, n, d))
    BY DEF LockMutex, WaitCaller, mutexVars
  <1>3. /\ SchedInv' /\ QueuesExact'
        /\ current \in Threads /\ status[current] = "Running"
        /\ WaitingOn(o)' = WaitingOn(o) \cup {current}
        /\ \A p \in Objects \ {o} : WaitingOn(p)' = WaitingOn(p)
        /\ wait' = [wait EXCEPT ![current] = WaitOn(o, n, d)]
        /\ wait'[current].request = n
    BY <1>1, <1>2, BlockQueues
  <1>4. \A t \in Threads \ {current} : wait'[t] = wait[t]
    <2>1. wait \in [Threads -> WaitStates]
      BY <1>1 DEF SchedInv, ThreadsFit
    <2> QED BY <1>3, <2>1
  <1>5. \A p \in Objects : WaitingOn(p) \subseteq Threads \ {current}
    BY <1>3 DEF WaitingOn
  <1>6. LocksTyped' /\ \A p \in Objects : SameLock(p)
    BY <1>1, <1>2 DEF LocksTyped, SameLock, LiveMutex
  <1>7. ASSUME NEW p \in Objects PROVE LockFits(p)'
    <2>1. LockFits(p) /\ SameLock(p)
      BY <1>1, <1>6
    <2>2. \A t \in WaitingOn(p) : wait'[t].request \in Requests
      BY <1>4, <1>5, <2>1 DEF LockFits
    <2>3. CASE p = o
      <3>1. \A t \in WaitingOn(p)' : wait'[t].request \in Requests
        BY <1>3, <2>2, <2>3
      <3> QED BY <1>2, <1>3, <2>1, <2>3, <3>1 DEF LockFits, SameLock
    <2>4. CASE p # o
      <3>1. WaitingOn(p)' = WaitingOn(p)
        BY <1>3, <2>4
      <3> QED BY <2>1, <2>2, <3>1 DEF LockFits, SameLock
    <2> QED BY <2>3, <2>4
  <1>8. \A p \in Objects : HandsOver(p)
    BY <1>2 DEF HandsOver
  <1>9. ASSUME NEW p \in Objects, NEW t \in Threads PROVE WokenByRule(p, t)
    <2>1. WaitingOn(p) \subseteq WaitingOn(p)'
      BY <1>3
    <2>2. ToSet(waiters[p]) \subseteq ToSet(waiters'[p])
      BY <1>1, <1>3, <2>1 DEF QueuesExact
    <2> QED BY <2>2 DEF WokenByRule
  <1> QED BY <1>3, <1>6, <1>7, <1>8, <1>9 DEF MutexInv, StepKeeps

(* The lock goes to the first thread of the queue, or is free again. *)
LEMMA HandOverKeeps ==
  ASSUME MutexInv, Guest, NEW o \in Objects, LiveMutex(o), mutexState' = mutexState,
         UNCHANGED <<prio, wakeups, dispatch, intr, vblankLeft, stopped>>,
         HandOver(o)
  PROVE  StepKeeps
  <1>1. SchedInv /\ QueuesExact /\ LocksTyped /\ LockFits(o)
    BY DEF MutexInv
  <1> DEFINE q == waiters[o]
  <1>2. /\ q \in Seq(Threads \cup {NoThread}) /\ Len(q) \in Nat /\ DOMAIN q = 1..Len(q)
        /\ ToSet(q) = WaitingOn(o) /\ WaitingOn(o) \subseteq Waiting
        /\ \A i \in 1..Len(q) : q[i] \in WaitingOn(o)
        /\ q = << >> <=> WaitingOn(o) = {}
    BY <1>1, QueueFacts
  <1>3. LiveMutex(o)' = LiveMutex(o) /\ 0 \in Ints(IntLimit)
    BY RequestsCount DEF LiveMutex
  <1>4. CASE \E k \in DOMAIN q :
               /\ IsHeir(q, k)
               /\ Held(o, q[k], Requested(q[k]))
               /\ waiters' = [waiters EXCEPT ![o] = SubSeq(q, k + 1, Len(q))]
               /\ WakeAndFinish(<<q[k]>>)
    <2>1. PICK k \in 1..Len(q) :
               /\ IsHeir(q, k)
               /\ Held(o, q[k], Requested(q[k]))
               /\ waiters' = [waiters EXCEPT ![o] = SubSeq(q, k + 1, Len(q))]
               /\ WakeAndFinish(<<q[k]>>)
      BY <1>2, <1>4
    <2> HIDE DEF q
    <2>2. k = 1
      <3> SUFFICES ASSUME k # 1 PROVE FALSE
        OBVIOUS
      <3>1. 1 \in 1..k - 1 /\ 1 \in 1..Len(q)
        BY <1>2
      <3> QED BY <1>2, <2>1, <3>1 DEF IsHeir
    <2> DEFINE heir == q[1]
               n == wait[heir].request
               E == {q[i] : i \in 1..1}
    <2>3. /\ heir \in WaitingOn(o) /\ heir \in Threads /\ heir = Head(q) /\ q # << >>
          /\ 1 \in 0..Len(q)
      BY <1>2, <2>2 DEF WaitingOn
    <2>4. n \in Requests /\ n \in Int /\ n > 0 /\ n \in Ints(IntLimit)
      BY <1>1, <1>3, <2>3, RequestsCount DEF LockFits
    <2>5. Requested(heir) = n
      BY <2>3 DEF Requested, WaitingOn
    <2>6. /\ owner' = [owner EXCEPT ![o] = heir]
          /\ lockCount' = [lockCount EXCEPT ![o] = n]
      BY <2>1, <2>2, <2>5 DEF Held
    <2>7. E = {heir}
      OBVIOUS
    <2>8. /\ SchedInv' /\ QueuesExact' /\ WaitsShrink(E) /\ status'[heir] # "Waiting"
      <3>1. Releasable(q)[1] = <<heir>>
        <4>1. Releasable(q)[1] = SubSeq(q, 1, 1)
          BY <1>1, <1>2, <2>3, QueueFacts, ReleasableFacts DEF q
        <4>2. SubSeq(q, 1, 1) = <<heir>>
          <5> DEFINE s == SubSeq(q, 1, 1)
          <5>1. s \in Seq(Threads \cup {NoThread}) /\ Len(s) = 1 /\ s[1] = q[1]
            BY <1>2, <2>3, SubSeqFacts
          <5> HIDE DEF s
          <5>2. s = <<s[1]>>
            BY <5>1
          <5> QED BY <5>1, <5>2 DEF s
        <4> QED BY <4>1, <4>2
      <3>2. WakeAndFinish(Releasable(waiters[o])[1])
        BY <2>1, <2>2, <3>1 DEF q
      <3>3. waiters' = [waiters EXCEPT ![o] = SubSeq(@, 1 + 1, Len(@))]
        BY <2>1, <2>2 DEF q
      <3>4. 1 \in 0..Len(waiters[o])
        BY <2>3 DEF q
      <3>5. /\ SchedInv' /\ QueuesExact'
            /\ WaitsShrink({waiters[o][i] : i \in 1..1})
            /\ \A i \in 1..1 : status'[waiters[o][i]] # "Waiting"
        BY <1>1, <3>2, <3>3, <3>4, FirstReleased
      <3> QED BY <3>5 DEF q
    <2> HIDE DEF E, heir, n
    <2>9. owner'[o] = heir /\ lockCount'[o] = n
      BY <1>1, <2>6 DEF LocksTyped
    <2>10. LocksTyped'
      BY <1>1, <2>3, <2>4, <2>6 DEF LocksTyped
    <2>11. \A p \in Objects \ {o} : SameLock(p)
      BY <1>1, <2>6 DEF LocksTyped, SameLock, LiveMutex
    <2>12. heir # NoThread
      BY <2>3, ThreadsAssumption DEF ThreadsAssumption
    <2>13. LockFits(o)'
      <3>1. WaitingOn(o)' = WaitingOn(o) \ {heir}
        BY <2>7, <2>8 DEF WaitsShrink
      <3>2. \A t \in WaitingOn(o) \ E : wait'[t].request = wait[t].request
        BY <2>8 DEF WaitsShrink, SameWait, WaitingOn, Waiting
      <3> QED BY <1>1, <1>3, <2>4, <2>7, <2>9, <2>12, <3>1, <3>2 DEF LockFits
    <2>14. HandsOver(o)
      BY <2>3, <2>8, <2>9 DEF HandsOver, q, n
    <2>15. E \in SUBSET WaitingOn(o)
      BY <2>3, <2>7
    <2>16. \A t \in E : owner'[o] = t
      BY <2>7, <2>9
    <2> QED BY <2>8, <2>10, <2>11, <2>13, <2>14, <2>15, <2>16, MutexCallKeeps
  <1>5. CASE /\ \A k \in DOMAIN q : q[k] \notin Waiting
             /\ Held(o, NoThread, 0)
             /\ waiters' = [waiters EXCEPT ![o] = << >>]
             /\ Finish(status, wait, ready)
    <2>1. q = << >>
      <3> SUFFICES ASSUME q # << >> PROVE FALSE
        OBVIOUS
      <3>1. PICK t \in WaitingOn(o) : TRUE
        BY <1>2
      <3>2. PICK i \in 1..Len(q) : q[i] = t
        BY <1>2, <3>1, ToSetFacts
      <3> QED BY <1>2, <1>5, <3>1, <3>2
    <2>2. waiters' = waiters
      <3>1. waiters \in [Objects -> Seq(Threads \cup {NoThread})]
        BY <1>1 DEF SchedInv, CallsFit
      <3> QED BY <1>5, <2>1, <3>1
    <2>3. PlainCall
      BY <1>5, <2>2 DEF PlainCall
    <2>4. SchedInv' /\ QueuesExact' /\ WaitsShrink({})
      BY <1>1, <2>3, PlainCallShrinks
    <2>5. /\ owner' = [owner EXCEPT ![o] = NoThread]
          /\ lockCount' = [lockCount EXCEPT ![o] = 0]
      BY <1>5 DEF Held
    <2>6. owner'[o] = NoThread /\ lockCount'[o] = 0
      BY <1>1, <2>5 DEF LocksTyped
    <2>7. LocksTyped'
      BY <1>1, <1>3, <2>5 DEF LocksTyped
    <2>8. \A p \in Objects \ {o} : SameLock(p)
      BY <1>1, <2>5 DEF LocksTyped, SameLock, LiveMutex
    <2>9. WaitingOn(o)' = {}
      BY <1>2, <2>1, <2>4 DEF WaitsShrink
    <2>10. LockFits(o)'
      BY <2>6, <2>9 DEF LockFits
    <2>11. HandsOver(o)
      BY <2>1 DEF HandsOver
    <2> QED BY <2>4, <2>7, <2>8, <2>10, <2>11, MutexCallKeeps
  <1> QED BY <1>4, <1>5 DEF HandOver

LEMMA UnlockMutexKeeps ==
  ASSUME MutexInv, NEW o \in Objects, NEW n \in Requests, UnlockMutex(o, n)
  PROVE  StepKeeps
  <1>1. SchedInv /\ QueuesExact /\ LocksTyped /\ LockFits(o)
    BY DEF MutexInv
  <1>2. /\ Guest /\ LiveMutex(o) /\ mutexState' = mutexState
        /\ lockCount[o] # 0 /\ owner[o] = current
        /\ UNCHANGED <<prio, wakeups, dispatch, intr, vblankLeft, stopped>>
    BY DEF UnlockMutex, WaitCaller
  <1>3. CASE HandOver(o)
    BY <1>2, <1>3, HandOverKeeps
  <1>4. CASE /\ n < lockCount[o]
             /\ Held(o, current, lockCount[o] - n)
             /\ UNCHANGED waiters
             /\ Finish(status, wait, ready)
    <2>1. PlainCall
      BY <1>2, <1>4 DEF PlainCall
    <2>2. SchedInv' /\ QueuesExact' /\ WaitsShrink({})
      BY <1>1, <2>1, PlainCallShrinks
    <2> DEFINE m == lockCount[o] - n
    <2>3. m \in Ints(IntLimit) /\ m > 0 /\ lockCount[o] > 0
      <3>1. lockCount[o] \in Int /\ lockCount[o] < IntLimit
        BY <1>1, RequestsCount DEF LocksTyped
      <3>2. n \in Int /\ n > 0 /\ IntLimit \in Nat
        BY RequestsCount
      <3>3. m \in Int /\ m > 0 /\ lockCount[o] > 0 /\ -IntLimit <= m /\ m < IntLimit
        BY <1>4, <3>1, <3>2
      <3> QED BY <3>3, RequestsCount
    <2>4. owner' = [owner EXCEPT ![o] = current] /\ lockCount' = [lockCount EXCEPT ![o] = m]
      BY <1>4 DEF Held
    <2> HIDE DEF m
    <2>5. current \in Threads \cup {NoThread}
      BY <1>1 DEF SchedInv, ThreadsFit
    <2>6. LocksTyped'
      BY <1>1, <1>2, <2>3, <2>4, <2>5 DEF LocksTyped
    <2>7. \A p \in Objects \ {o} : SameLock(p)
      BY <1>1, <1>2, <2>4 DEF LocksTyped, SameLock, LiveMutex
    <2>8. owner'[o] = owner[o] /\ lockCount'[o] = m /\ LiveMutex(o)'
      BY <1>1, <1>2, <2>4 DEF LocksTyped, LiveMutex
    <2>9. WaitingOn(o)' = WaitingOn(o)
          /\ \A t \in WaitingOn(o) : wait'[t].request = wait[t].request
      BY <2>2 DEF WaitsShrink, SameWait, WaitingOn, Waiting
    <2>10. LockFits(o)'
      BY <1>1, <1>2, <2>3, <2>8, <2>9 DEF LockFits
    <2>11. HandsOver(o)
      BY <2>8 DEF HandsOver
    <2> QED BY <2>2, <2>6, <2>7, <2>10, <2>11, MutexCallKeeps
  <1> QED BY <1>3, <1>4 DEF UnlockMutex

-----------------------------------------------------------------------------
(* The theorems.                                                           *)

(* No mutex exists at first, and nobody waits. *)
LEMMA MutexStarts == ASSUME MutexInit PROVE MutexInv
  <1>1. SchedInv
    BY InitFits DEF MutexInit
  <1>2. \A o \in Objects : WaitingOn(o) = {} /\ waiters[o] = << >>
    BY DEF MutexInit, SchedInit, WaitingOn
  <1>3. QueuesExact
    BY <1>2 DEF QueuesExact, ToSet
  <1>4. LocksTyped
    <2>1. 0 \in Ints(IntLimit)
      BY RequestsCount
    <2> QED BY <2>1 DEF LocksTyped, MutexInit
  <1>5. \A o \in Objects : LockFits(o)
    BY <1>2 DEF LockFits, MutexInit
  <1> QED BY <1>1, <1>3, <1>4, <1>5 DEF MutexInv

(* Every step, where handlers do not wait. *)
LEMMA MutexStep ==
  ASSUME ~HandlersWait, MutexInv, [MutexNext]_allVars
  PROVE  StepKeeps
  <1>1. CASE MutexCalls
    BY <1>1, CreateMutexKeeps, DeleteMutexKeeps, TakeMutexKeeps, UnlockMutexKeeps,
       LockMutexKeeps DEF MutexCalls
  <1>2. CASE SchedNext /\ UNCHANGED mutexVars
    BY <1>2, MutexSchedulerKeeps
  <1>3. CASE UNCHANGED allVars
    BY <1>3, MutexSchedulerKeeps DEF allVars
  <1> QED BY <1>1, <1>2, <1>3 DEF MutexNext

(* The inductive invariant holds. *)
LEMMA MutexInvHolds == ~HandlersWait => (MutexSpec => []MutexInv)
  <1> SUFFICES ASSUME ~HandlersWait PROVE MutexSpec => []MutexInv
    OBVIOUS
  <1>1. MutexInit => MutexInv
    BY MutexStarts
  <1>2. MutexInv /\ [MutexNext]_allVars => MutexInv'
    BY MutexStep DEF StepKeeps
  <1> QED BY <1>1, <1>2, PTL DEF MutexSpec

(* A lock count is above 0 exactly as long as the mutex has an owner, only  *)
(* a live mutex that is not free has waiters, and the owner is not among    *)
(* them, whatever count the mutex was created with.                         *)
THEOREM LocksConsistent == ~HandlersWait => (MutexSpec => []LockConsistent)
  <1> SUFFICES ASSUME ~HandlersWait PROVE MutexSpec => []LockConsistent
    OBVIOUS
  <1>1. MutexInv => LockConsistent
    <2> SUFFICES ASSUME MutexInv PROVE LockConsistent
      OBVIOUS
    <2>1. MutexTypeOK
      BY TypesFit DEF MutexInv, LocksTyped, MutexTypeOK
    <2>2. ASSUME NEW o \in Objects
          PROVE  /\ lockCount[o] > 0 <=> owner[o] # NoThread
                 /\ waiters[o] # << >> => LiveMutex(o) /\ lockCount[o] # 0
                 /\ owner[o] \notin ToSet(waiters[o])
      <3>1. SchedInv /\ QueuesExact /\ LockFits(o)
        BY DEF MutexInv
      <3>2. ToSet(waiters[o]) = WaitingOn(o) /\ (waiters[o] # << >> => WaitingOn(o) # {})
        BY <3>1, QueueFacts
      <3> QED BY <3>1, <3>2 DEF LockFits
    <2> QED BY <2>1, <2>2 DEF MutexInv, LockConsistent
  <1> QED BY <1>1, MutexInvHolds, PTL

(* The lock changes hands in the order of the queue, and no running thread  *)
(* gets in between.                                                         *)
THEOREM LocksHandedOver == ~HandlersWait => (MutexSpec => FifoHandover)
  <1> SUFFICES ASSUME ~HandlersWait PROVE MutexSpec => FifoHandover
    OBVIOUS
  <1>1. MutexInv /\ [MutexNext]_allVars
          => [\A o \in Objects :
                waiters[o] # << >> /\ owner'[o] # owner[o] /\ LiveMutex(o)' =>
                  LET heir == Head(waiters[o])
                  IN /\ owner'[o] = heir
                     /\ lockCount'[o] = wait[heir].request
                     /\ status'[heir] # "Waiting"]_allVars
    BY MutexStep DEF StepKeeps, HandsOver
  <1> QED BY <1>1, MutexInvHolds, PTL DEF MutexSpec, FifoHandover

(* Without a deadline a thread stops waiting for a lock only by getting it, *)
(* by ending, or with the mutex.                                            *)
THEOREM WokenThreadsOwn == ~HandlersWait => (MutexSpec => WokenWithLock)
  <1> SUFFICES ASSUME ~HandlersWait PROVE MutexSpec => WokenWithLock
    OBVIOUS
  <1>1. MutexInv /\ [MutexNext]_allVars
          => [\A o \in Objects, t \in Threads :
                /\ t \in ToSet(waiters[o]) /\ t \notin ToSet(waiters'[o])
                /\ wait[t].left = Forever
                => \/ owner'[o] = t
                   \/ ~LiveMutex(o)'
                   \/ status'[t] \in {"Dormant", "Deleted"}]_allVars
    BY MutexStep DEF StepKeeps, WokenByRule
  <1> QED BY <1>1, MutexInvHolds, PTL DEF MutexSpec, WokenWithLock
=============================================================================
