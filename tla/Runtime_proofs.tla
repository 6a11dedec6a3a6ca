---------------------------- MODULE Runtime_proofs ----------------------------
(****************************************************************************)
(* Proofs about what the runtime dispatches, guest code and interrupts, and *)
(* about the memory that it hands out.                                      *)
(* DispatchChain, for every interval, depth limit and number of context     *)
(* switches: no frame runs on with a context that is not its own, and the   *)
(* work that is counted does not pile up.  Interrupts, for every set of     *)
(* timers, callbacks and sub-interrupts and every bound: no timer goes      *)
(* silent, and every notification is heard once.  UserMemory, for every     *)
(* partition, granule, set of sizes, alignments and addresses for which no  *)
(* sum wraps: blocks and free ranges tile the partition.                    *)
(****************************************************************************)
EXTENDS DispatchChain, Interrupts, UserMemory, FiniteSetTheorems, WellFoundedInduction, TLAPS

(* The frames are native calls in progress: there are some exactly while a  *)
(* unit runs or returns, and none was called in a generation still to come. *)
FramesFit ==
  /\ phase \in {"outer", "charge"} => frames = << >>
  /\ phase \in {"running", "unwinding"} => Len(frames) >= 1
  /\ \A i \in DOMAIN frames : frames[i].home <= generation

AllHome == \A i \in DOMAIN frames : frames[i].home = generation
AllAway == \A i \in DOMAIN frames : frames[i].home # generation

(* A switch strands all the frames at once, and sets the flag that direct   *)
(* edges look at.  This is what makes looking at the flag enough.           *)
HomeOrAway ==
  /\ phase = "running" => AllHome /\ ~invalidated
  /\ phase = "unwinding" => \/ AllHome /\ ~invalidated
                            \/ AllAway /\ invalidated

(* Work without a boundary is counted only by stranded frames that return,  *)
(* starting from nothing, once each.                                        *)
WorkFits ==
  DepthLimit < Interval =>
    /\ work < Interval
    /\ phase = "unwinding" /\ invalidated => work <= DepthLimit + 1 - Len(frames)

ChainInv == TypeOK /\ FramesFit /\ HomeOrAway /\ WorkFits

(* Before the first dispatch there is no frame. *)
LEMMA ChainInit == Init => ChainInv
  <1> SUFFICES ASSUME Init PROVE ChainInv
    OBVIOUS
  <1>1. frames \in Seq(Frame) /\ Len(frames) = 0 /\ DOMAIN frames = {}
    BY DEF Init
  <1>2. TypeOK
    <2>1. generation \in 0..MaxSwitches BY ChainAssumption DEF Init
    <2>2. Len(frames) <= DepthLimit + 1 BY <1>1, ChainAssumption DEF Init
    <2>3. phase \in Phases BY  DEF Init, Phases
    <2>4. invalidated \in BOOLEAN BY  DEF Init
    <2>5. work \in Nat BY  DEF Init
    <2> QED BY <1>1, <2>1, <2>2, <2>3, <2>4, <2>5 DEF TypeOK
  <1>3. FramesFit /\ HomeOrAway /\ WorkFits
    BY <1>1, ChainAssumption DEF Init, FramesFit, HomeOrAway, WorkFits
  <1> QED BY <1>2, <1>3 DEF ChainInv

(* Charging leaves a boundary's switch, if there was one, in the flag.      *)
LEMMA ChargedFacts ==
  ASSUME TypeOK, Charged
  PROVE  /\ generation' \in 0..MaxSwitches
         /\ work' \in Nat
         /\ invalidated' \in BOOLEAN
         /\ generation' = generation \/ generation' = generation + 1
         /\ generation' = generation => invalidated' = invalidated
         /\ generation' # generation => invalidated'
         /\ work < Interval => work' < Interval
         /\ work < Interval /\ generation' # generation => work' = 0
  <1>1. /\ generation \in Nat /\ generation <= MaxSwitches /\ work \in Nat
        /\ invalidated \in BOOLEAN /\ Interval \in Nat /\ Interval > 0
        /\ MaxSwitches \in Nat
    BY ChainAssumption DEF TypeOK
  <1>2. CASE work + 1 < Interval
    <2>1. work' = work + 1 /\ generation' = generation /\ invalidated' = invalidated
      BY <1>1, <1>2 DEF Charged
    <2> QED BY <1>1, <1>2, <2>1
  <1>3. CASE ~(work + 1 < Interval)
    <2>1. /\ work' = work + 1 - Interval
          /\ generation' \in {generation, generation + 1} /\ generation' <= MaxSwitches
          /\ invalidated' = (invalidated \/ generation' # generation)
      BY <1>1, <1>3 DEF Charged, MaySwitch
    <2>2. work' \in Nat /\ (work < Interval => work' = 0)
      BY <1>1, <1>3, <2>1
    <2>3. generation' \in 0..MaxSwitches
      BY <1>1, <2>1
    <2>4. invalidated' \in BOOLEAN
      BY <2>1
    <2> QED BY <1>1, <2>1, <2>2, <2>3, <2>4
  <1> QED BY <1>2, <1>3

(* A return takes the innermost frame away. *)
LEMMA PopFacts ==
  ASSUME frames \in Seq(Frame), Len(frames) > 1
  PROVE  /\ Pop \in Seq(Frame)
         /\ Len(Pop) = Len(frames) - 1
         /\ \A i \in DOMAIN Pop : i \in DOMAIN frames /\ Pop[i] = frames[i]
  BY DEF Pop

(* A call adds a frame of the current context. *)
LEMMA PushFacts ==
  ASSUME frames \in Seq(Frame), generation \in Nat,
         NEW kind \in {"direct", "dynamic"}
  PROVE  /\ Push(kind) \in Seq(Frame)
         /\ Len(Push(kind)) = Len(frames) + 1
         /\ \A i \in DOMAIN Push(kind) :
              \/ i \in DOMAIN frames /\ Push(kind)[i] = frames[i]
              \/ Push(kind)[i].home = generation
  BY DEF Push, Frame

(* The run loop enters a unit. *)
LEMMA DispatchKeeps == ASSUME ChainInv, Dispatch PROVE ChainInv'
  <1> DEFINE f == [kind |-> "outer", home |-> generation]
  <1>1. f \in Frame /\ f.home = generation
    BY ChainAssumption DEF ChainInv, TypeOK, Frame
  <1>2. frames' = <<f>> /\ phase' = "running" /\ ~invalidated'
        /\ UNCHANGED <<generation, work>>
    BY DEF Dispatch
  <1>3. Len(frames') = 1 /\ DOMAIN frames' = {1} /\ frames'[1] = f
        /\ frames' \in Seq(Frame)
    BY <1>1, <1>2
  <1> HIDE DEF f
  <1>4. TypeOK'
    <2>1. invalidated' = FALSE
      BY DEF Dispatch
    <2>2. Len(frames') <= DepthLimit + 1
      BY <1>3, ChainAssumption
    <2>3. phase' \in Phases
      BY <1>2 DEF Phases
    <2> QED BY <1>2, <1>3, <2>1, <2>2, <2>3 DEF ChainInv, TypeOK
  <1>5. FramesFit' /\ HomeOrAway' /\ WorkFits'
    BY <1>1, <1>2, <1>3, ChainAssumption
    DEF ChainInv, TypeOK, FramesFit, HomeOrAway, WorkFits, AllHome, AllAway
  <1> QED BY <1>4, <1>5 DEF ChainInv

(* The run loop runs an import wrapper, which may switch contexts. *)
LEMMA DispatchImportKeeps == ASSUME ChainInv, DispatchImport PROVE ChainInv'
  <1>1. /\ frames' = << >> /\ phase' = "charge" /\ work' = work
        /\ invalidated' = FALSE
        /\ generation' \in {generation, generation + 1} /\ generation' <= MaxSwitches
    BY DEF DispatchImport, MaySwitch, ChainInv, FramesFit
  <1>2. frames' \in Seq(Frame) /\ Len(frames') = 0 /\ DOMAIN frames' = {}
    BY <1>1
  <1>3. TypeOK'
    <2>1. generation' \in 0..MaxSwitches
      BY <1>1, ChainAssumption DEF ChainInv, TypeOK
    <2>2. Len(frames') <= DepthLimit + 1
      BY <1>2, ChainAssumption
    <2>3. phase' \in Phases
      BY <1>1 DEF Phases
    <2>4. work' \in Nat /\ invalidated' \in BOOLEAN
      BY <1>1 DEF ChainInv, TypeOK
    <2> QED BY <1>2, <2>1, <2>2, <2>3, <2>4 DEF TypeOK
  <1>4. FramesFit' /\ HomeOrAway' /\ WorkFits'
    BY <1>1, <1>2 DEF ChainInv, FramesFit, HomeOrAway, WorkFits
  <1> QED BY <1>3, <1>4 DEF ChainInv

(* A unit calls another one in place. *)
LEMMA CallKeeps ==
  ASSUME ChainInv, NEW kind \in {"direct", "dynamic"}, Call(kind)
  PROVE  ChainInv'
  <1>1. frames \in Seq(Frame) /\ generation \in Nat
    BY ChainAssumption DEF ChainInv, TypeOK
  <1>2. CASE Len(frames) <= DepthLimit
    <2>1. frames' = Push(kind) /\ phase' = "running"
          /\ UNCHANGED <<generation, invalidated, work>>
      BY <1>2 DEF Call
    <2> QED
      BY <1>1, <1>2, <2>1, PushFacts, ChainAssumption
      DEF ChainInv, TypeOK, FramesFit, HomeOrAway, WorkFits, AllHome, AllAway,
          Call, Phases
  <1>3. CASE ~(Len(frames) <= DepthLimit)
    BY <1>1, <1>3, ChainAssumption
    DEF ChainInv, TypeOK, FramesFit, HomeOrAway, WorkFits, AllHome, AllAway,
        Call, Phases
  <1> QED BY <1>2, <1>3

(* Whether a frame was called directly or through the table, it notices the *)
(* loss of the context, and only a loss.                                    *)
LEMMA LossIsNoticed ==
  ASSUME ChainInv, phase \in {"running", "unwinding"}
  PROVE  /\ LostContext(Top) => phase = "unwinding" /\ AllAway /\ invalidated
         /\ ~LostContext(Top) => AllHome /\ ~invalidated
  <1>1. Len(frames) \in DOMAIN frames
    BY DEF ChainInv, TypeOK, FramesFit
  <1> QED
    BY <1>1 DEF ChainInv, HomeOrAway, AllHome, AllAway, LostContext, Top

(* A frame returns into the one that called it. *)
LEMMA ReturnKeeps == ASSUME ChainInv, Return PROVE ChainInv'
  <1>1. /\ phase \in {"running", "unwinding"} /\ Len(frames) > 1
        /\ frames \in Seq(Frame) /\ frames' = Pop
        /\ generation \in Nat /\ work \in Nat /\ Len(frames) \in Nat
        /\ Len(frames) <= DepthLimit + 1
    BY ChainAssumption DEF Return, ChainInv, TypeOK
  <1>2. /\ frames' \in Seq(Frame) /\ Len(frames') = Len(frames) - 1
        /\ \A i \in DOMAIN frames' : i \in DOMAIN frames /\ frames'[i] = frames[i]
    BY <1>1, PopFacts
  <1>3. CASE LostContext(Top)
    <2>1. Counted /\ phase' = "unwinding"
      BY <1>3 DEF Return
    <2>2. phase = "unwinding" /\ AllAway /\ invalidated
      BY <1>1, <1>3, LossIsNoticed
    <2>3. TypeOK'
      BY <1>1, <1>2, <2>1, ChainAssumption DEF ChainInv, TypeOK, Counted, Phases
    <2>4. FramesFit' /\ HomeOrAway'
      BY <1>1, <1>2, <2>1, <2>2
      DEF ChainInv, TypeOK, FramesFit, HomeOrAway, AllHome, AllAway, Counted
    <2>5. WorkFits'
      BY <1>1, <1>2, <2>1, <2>2, ChainAssumption DEF ChainInv, WorkFits, Counted
    <2> QED BY <2>3, <2>4, <2>5 DEF ChainInv
  <1>4. CASE ~LostContext(Top)
    <2>1. /\ Charged /\ phase' \in {"running", "unwinding"}
          /\ generation' # generation => phase' = "unwinding"
      BY <1>4 DEF Return
    <2>2. AllHome /\ ~invalidated
      BY <1>1, <1>4, LossIsNoticed
    <2>3. TypeOK'
      BY <1>1, <1>2, <2>1, ChargedFacts, ChainAssumption DEF ChainInv, TypeOK, Phases
    <2>4. FramesFit' /\ HomeOrAway'
      BY <1>1, <1>2, <2>1, <2>2, ChargedFacts
      DEF ChainInv, TypeOK, FramesFit, HomeOrAway, AllHome, AllAway
    <2>5. WorkFits'
      BY <1>1, <1>2, <2>1, <2>2, ChargedFacts, ChainAssumption
      DEF ChainInv, WorkFits
    <2> QED BY <2>3, <2>4, <2>5 DEF ChainInv
  <1> QED BY <1>3, <1>4

(* The outermost frame returns to the run loop. *)
LEMMA ReturnToLoopKeeps == ASSUME ChainInv, ReturnToLoop PROVE ChainInv'
  BY ChainAssumption
  DEF ChainInv, TypeOK, FramesFit, HomeOrAway, WorkFits, AllHome, AllAway,
      ReturnToLoop, Phases

(* The run loop charges the dispatch. *)
LEMMA ChargeDispatchKeeps == ASSUME ChainInv, ChargeDispatch PROVE ChainInv'
  BY ChargedFacts, ChainAssumption
  DEF ChainInv, TypeOK, FramesFit, HomeOrAway, WorkFits, AllHome, AllAway,
      ChargeDispatch, Phases

(* Every step keeps the invariant. *)
LEMMA ChainNext == ChainInv /\ [Next]_vars => ChainInv'
  <1> SUFFICES ASSUME ChainInv, [Next]_vars PROVE ChainInv'
    OBVIOUS
  <1>1. CASE Dispatch BY <1>1, DispatchKeeps
  <1>2. CASE DispatchImport BY <1>2, DispatchImportKeeps
  <1>3. CASE \E kind \in {"direct", "dynamic"} : Call(kind) BY <1>3, CallKeeps
  <1>4. CASE Return BY <1>4, ReturnKeeps
  <1>5. CASE ReturnToLoop BY <1>5, ReturnToLoopKeeps
  <1>6. CASE ChargeDispatch BY <1>6, ChargeDispatchKeeps
  <1>7. CASE UNCHANGED vars
    BY <1>7 DEF vars, ChainInv, TypeOK, FramesFit, HomeOrAway, WorkFits, AllHome,
       AllAway
  <1> QED BY <1>1, <1>2, <1>3, <1>4, <1>5, <1>6, <1>7 DEF Next

(* The invariant holds in every reachable state. *)
LEMMA ChainInvariant == Spec => []ChainInv
  BY ChainInit, ChainNext, PTL DEF Spec

(* The variables keep their types, and native frames never nest deeper than *)
(* chain_depth_limit_ allows, whatever the constants are.                   *)
THEOREM ChainTypes == Spec => []TypeOK
  <1>1. ChainInv => TypeOK
    BY DEF ChainInv
  <1> QED BY <1>1, ChainInvariant, PTL

(* No native frame resumes over another context, for any interval, depth    *)
(* and number of switches (invoke_chained_call, invoke_chained_direct).     *)
THEOREM NeverStale == Spec => []NoStaleResume
  <1>1. ChainInv => NoStaleResume
    BY DEF ChainInv, HomeOrAway, AllHome, NoStaleResume
  <1> QED BY <1>1, ChainInvariant, PTL

(* Less than one interval of work is left whenever the loop dispatches, if  *)
(* chains are shorter than the interval (account_dispatch_work).            *)
THEOREM NeverBehind == Spec => []NoBacklog
  <1>1. ChainInv => NoBacklog
    BY DEF ChainInv, WorkFits, NoBacklog
  <1> QED BY <1>1, ChainInvariant, PTL
-----------------------------------------------------------------------------
(* Induction over the natural numbers, as a fact about sets. *)
LEMMA CountingUp ==
  ASSUME NEW S, 0 \in S, \A n \in Nat : n \in S => n + 1 \in S
  PROVE  Nat \subseteq S
<1> DEFINE T == Nat \ S
<1> SUFFICES ASSUME T # {} PROVE FALSE
  OBVIOUS
<1>1. IsWellFoundedOn(OpToRel(<, Nat), Nat)
  BY NatLessThanWellFounded
<1>2. PICK n \in T : \A m \in T : ~(<<m, n>> \in OpToRel(<, Nat))
  <2> HIDE DEF T
  <2>1. T \subseteq Nat
    BY DEF T
  <2> QED
    BY <1>1, <2>1, WFMin
<1>3. \A m \in T : ~(m < n)
  BY <1>2 DEF OpToRel
<1>4. n # 0 /\ n \in Nat
  OBVIOUS
<1>5. n - 1 \in Nat /\ n - 1 < n /\ (n - 1) + 1 = n
  BY <1>4
<1>6. n - 1 \in S
  BY <1>3, <1>5
<1> QED
  BY <1>5, <1>6

(* The elements of a finite set of numbers, lowest first: each has its      *)
(* place, the number of those up to it.                                     *)
LEMMA InOrderFacts ==
  ASSUME NEW S \in SUBSET Nat, IsFiniteSet(S)
  PROVE  /\ InOrder(S) \in Seq(S)
         /\ \A i, j \in DOMAIN InOrder(S) : InOrder(S)[i] = InOrder(S)[j] => i = j
         /\ \A x \in S : \E i \in DOMAIN InOrder(S) : InOrder(S)[i] = x
<1> DEFINE n == Cardinality(S)
           Below(x) == {y \in S : y < x}
           place == [x \in S |-> Cardinality(Below(x)) + 1]
           Rising(q) == \A i, j \in DOMAIN q : i < j => q[i] < q[j]
<1>1. n \in Nat
  BY FS_CardinalityType
<1>2. IsFiniteSet(1..n) /\ Cardinality(1..n) = n
  BY <1>1, FS_Interval
<1>3. \A x \in S : IsFiniteSet(Below(x)) /\ Cardinality(Below(x)) \in Nat
  <2> SUFFICES ASSUME NEW x \in S
               PROVE  IsFiniteSet(Below(x)) /\ Cardinality(Below(x)) \in Nat
    OBVIOUS
  <2>1. Below(x) \in SUBSET S
    OBVIOUS
  <2> HIDE DEF Below
  <2> QED
    BY <2>1, FS_Subset, FS_CardinalityType
<1>4. \A x \in S : Cardinality(Below(x)) + 1 \in 1..n
  <2> SUFFICES ASSUME NEW x \in S PROVE Cardinality(Below(x)) + 1 \in 1..n
    OBVIOUS
  <2>1. Below(x) \in SUBSET S /\ x \notin Below(x)
    OBVIOUS
  <2> HIDE DEF Below
  <2>2. Cardinality(Below(x)) <= n /\ Cardinality(Below(x)) # n
    BY <2>1, FS_Subset
  <2> QED
    BY <1>1, <1>3, <2>2
<1>5. \A x, y \in S : x < y => Cardinality(Below(x)) < Cardinality(Below(y))
  <2> SUFFICES ASSUME NEW x \in S, NEW y \in S, x < y
               PROVE  Cardinality(Below(x)) < Cardinality(Below(y))
    OBVIOUS
  <2>0. x \in Nat /\ y \in Nat /\ \A z \in S : z < x => z < y
    OBVIOUS
  <2>1. Below(x) \in SUBSET Below(y) /\ x \in Below(y) /\ x \notin Below(x)
    <3>1. Below(x) \in SUBSET Below(y)
      BY <2>0
    <3>2. x \in Below(y)
      OBVIOUS
    <3>3. x \notin Below(x)
      BY <2>0
    <3> QED
      BY <3>1, <3>2, <3>3
  <2> HIDE DEF Below
  <2>2. /\ Cardinality(Below(x)) <= Cardinality(Below(y))
        /\ Cardinality(Below(x)) # Cardinality(Below(y))
    BY <1>3, <2>1, FS_Subset
  <2> QED
    BY <1>3, <2>2
<1> HIDE DEF Below, n
<1>6. place \in [S -> 1..n] /\ \A x, y \in S : x < y => place[x] < place[y]
  BY <1>3, <1>4, <1>5
<1> HIDE DEF place
<1>7. place \in Injection(S, 1..n)
  <2>1. \A x, y \in S : place[x] = place[y] => x = y
    <3> SUFFICES ASSUME NEW x \in S, NEW y \in S, x # y PROVE place[x] # place[y]
      OBVIOUS
    <3>1. x \in Nat /\ y \in Nat /\ place[x] \in Int /\ place[y] \in Int
      BY <1>1, <1>6
    <3>2. x < y \/ y < x
      BY <3>1
    <3> QED
      BY <1>6, <3>1, <3>2
  <2> QED
    BY <1>6, <2>1 DEF Injection, IsInjective
<1>8. place \in Surjection(S, 1..n)
  BY <1>2, <1>7, FS_Injection DEF n
<1>9. \E q \in [1..n -> S] : Rising(q)
  <2> DEFINE q == [i \in 1..n |-> CHOOSE x \in S : place[x] = i]
  <2>1. \A i \in 1..n : q[i] \in S /\ place[q[i]] = i
    BY <1>8 DEF Surjection
  <2>2. q \in [1..n -> S]
    BY <2>1
  <2> HIDE DEF q
  <2>3. ASSUME NEW i \in 1..n, NEW j \in 1..n, i < j PROVE q[i] < q[j]
    <3>1. q[i] \in Nat /\ q[j] \in Nat /\ place[q[i]] = i /\ place[q[j]] = j
      BY <2>1
    <3>2. q[j] < q[i] => j < i
      BY <1>6, <2>1
    <3>3. q[i] # q[j]
      BY <3>1, <2>3
    <3> QED
      BY <2>3, <3>1, <3>2, <3>3, <1>1
  <2> QED
    BY <2>2, <2>3
<1> DEFINE q == InOrder(S)
<1>10. q \in [1..n -> S] /\ Rising(q)
  BY <1>9 DEF InOrder, n
<1> HIDE DEF q
<1>11. \A i, j \in 1..n : q[i] = q[j] => i = j
  <2> SUFFICES ASSUME NEW i \in 1..n, NEW j \in 1..n, i # j PROVE q[i] # q[j]
    OBVIOUS
  <2>1. q[i] \in S /\ q[j] \in S /\ DOMAIN q = 1..n
    BY <1>10
  <2>2. q[i] \in Nat /\ q[j] \in Nat
    BY <2>1
  <2>3. i < j \/ j < i
    BY <1>1
  <2>4. q[i] < q[j] \/ q[j] < q[i]
    BY <1>10, <2>1, <2>3
  <2> QED
    BY <2>2, <2>4
<1>12. q \in Surjection(1..n, S)
  <2>1. q \in Injection(1..n, S)
    BY <1>10, <1>11 DEF Injection, IsInjective
  <2> QED
    BY <2>1, <1>2, FS_Injection DEF n
<1>13. q \in Seq(S) /\ DOMAIN q = 1..n
  BY <1>1, <1>10
<1> QED
  BY <1>11, <1>12, <1>13 DEF q, Surjection
-----------------------------------------------------------------------------
(* The sum f has the first i calls of q hand to c at i. *)
Adds(f, q, c) ==
  /\ f \in [0..Len(q) -> Int] /\ f[0] = 0
  /\ \A i \in 1..Len(q) : f[i] = f[i - 1] + Hands(q[i], c)

(* Such a sum over the first k calls. *)
SumsTo(f, q, c, k) ==
  f \in [0..k -> Nat] /\ f[0] = 0 /\ \A i \in 1..k : f[i] = f[i - 1] + Hands(q[i], c)

(* Amounts are numbers. *)
LEMMA HandsFacts ==
  ASSUME NEW call \in Calls, NEW c
  PROVE  Hands(call, c) \in Nat
BY DEF Hands, Calls

(* There is one such sum, and its last value is what all of q hands over. *)
LEMMA HandedByFacts ==
  ASSUME NEW q \in Seq(Calls), NEW c
  PROVE  /\ HandedBy(q, c) \in Nat
         /\ \E f : Adds(f, q, c) /\ HandedBy(q, c) = f[Len(q)]
         /\ \A f : Adds(f, q, c) => HandedBy(q, c) = f[Len(q)]
<1> DEFINE n == Len(q)
           Is(f) == f = [k \in 0..n |-> IF k = 0 THEN 0 ELSE f[k - 1] + Hands(q[k], c)]
<1>1. n \in Nat /\ \A i \in 1..n : Hands(q[i], c) \in Nat
  BY HandsFacts
<1> HIDE DEF n
<1> DEFINE Good == {k \in Nat : k <= n => \E f : SumsTo(f, q, c, k)}
<1>2. 0 \in Good
  <2> DEFINE f == [k \in 0..0 |-> 0]
  <2>1. SumsTo(f, q, c, 0)
    BY DEF SumsTo
  <2> QED
    BY <2>1
<1>3. ASSUME NEW k \in Nat, k \in Good PROVE k + 1 \in Good
  <2> SUFFICES ASSUME k + 1 <= n PROVE \E f : SumsTo(f, q, c, k + 1)
    OBVIOUS
  <2>1. k + 1 \in 1..n /\ k <= n
    BY <1>1
  <2>2. PICK f : SumsTo(f, q, c, k)
    BY <1>3, <2>1
  <2> DEFINE h == Hands(q[k + 1], c)
             g == [i \in 0..k + 1 |-> IF i = k + 1 THEN f[k] + h ELSE f[i]]
  <2>3. h \in Nat
    BY <1>1, <2>1
  <2> HIDE DEF h
  <2>4. f[k] + h \in Nat /\ \A i \in 0..k : f[i] \in Nat
    BY <2>2, <2>3 DEF SumsTo
  <2>5. g \in [0..k + 1 -> Nat] /\ g[k + 1] = f[k] + h /\ \A i \in 0..k : g[i] = f[i]
    BY <2>4
  <2> HIDE DEF g
  <2>6. \A i \in 1..k + 1 : g[i] = g[i - 1] + Hands(q[i], c)
    <3> SUFFICES ASSUME NEW i \in 1..k + 1 PROVE g[i] = g[i - 1] + Hands(q[i], c)
      OBVIOUS
    <3>1. CASE i = k + 1
      <4>1. i - 1 = k /\ k \in 0..k
        BY <3>1
      <4> QED
        BY <3>1, <4>1, <2>5 DEF h
    <3>2. CASE i # k + 1
      <4>1. i \in 1..k /\ i - 1 \in 0..k /\ i \in 0..k
        BY <3>2
      <4> QED
        BY <4>1, <2>2, <2>5 DEF SumsTo
    <3> QED
      BY <3>1, <3>2
  <2>7. SumsTo(g, q, c, k + 1)
    BY <2>2, <2>5, <2>6 DEF SumsTo
  <2> QED
    BY <2>7
<1> HIDE DEF Good
<1>4. n \in Good
  BY <1>1, <1>2, <1>3, CountingUp
<1>5. PICK s : SumsTo(s, q, c, n)
  BY <1>1, <1>4 DEF Good
<1> USE DEF SumsTo
<1>6. Adds(s, q, c) /\ s[n] \in Nat
  <2>1. s \in [0..n -> Int] /\ n \in 0..n
    BY <1>1, <1>5
  <2> QED
    BY <2>1, <1>5 DEF Adds, n
<1>7. ASSUME NEW f, Adds(f, q, c) PROVE f = s
  <2> DEFINE Same == {k \in Nat : k <= n => f[k] = s[k]}
  <2>1. f \in [0..n -> Int] /\ f[0] = 0 /\ \A i \in 1..n : f[i] = f[i - 1] + Hands(q[i], c)
    BY <1>7 DEF Adds, n
  <2>2. 0 \in Same
    BY <2>1, <1>5
  <2>3. ASSUME NEW k \in Nat, k \in Same PROVE k + 1 \in Same
    <3> SUFFICES ASSUME k + 1 <= n PROVE f[k + 1] = s[k + 1]
      OBVIOUS
    <3>1. k + 1 \in 1..n /\ k <= n /\ (k + 1) - 1 = k
      BY <1>1
    <3>2. f[k] = s[k]
      BY <2>3, <3>1
    <3>3. f[k + 1] = f[k] + Hands(q[k + 1], c) /\ s[k + 1] = s[k] + Hands(q[k + 1], c)
      BY <2>1, <1>5, <3>1
    <3> QED
      BY <3>2, <3>3
  <2> HIDE DEF Same
  <2>4. Nat \subseteq Same
    BY <2>2, <2>3, CountingUp
  <2>5. \A k \in 0..n : f[k] = s[k]
    BY <2>4, <1>1 DEF Same
  <2>6. s \in [0..n -> Int]
    BY <1>6 DEF Adds, n
  <2>7. f = [k \in 0..n |-> f[k]]
    BY <2>1
  <2>8. s = [k \in 0..n |-> s[k]]
    BY <2>6
  <2>9. [k \in 0..n |-> f[k]] = [k \in 0..n |-> s[k]]
    BY <2>5
  <2> QED
    BY <2>7, <2>8, <2>9
<1>8. HandedBy(q, c) = s[n]
  <2>1. Is(s)
    <3>1. \A k \in 0..n : s[k] = IF k = 0 THEN 0 ELSE s[k - 1] + Hands(q[k], c)
      BY <1>5, <1>1
    <3> QED
      BY <1>5, <3>1
  <2>2. ASSUME NEW f, Is(f) PROVE Adds(f, q, c)
    <3>1. DOMAIN f = 0..n /\ f[0] = 0 /\ \A i \in 1..n : f[i] = f[i - 1] + Hands(q[i], c)
      <4>1. 0 \in 0..n /\ \A i \in 1..n : i \in 0..n /\ i # 0
        BY <1>1
      <4>2. DOMAIN f = 0..n /\ \A k \in 0..n : f[k] = IF k = 0 THEN 0 ELSE f[k - 1] + Hands(q[k], c)
        BY <2>2
      <4> QED
        BY <4>1, <4>2
    <3> DEFINE Typed == {k \in Nat : k <= n => f[k] \in Int}
    <3>2. 0 \in Typed
      BY <3>1
    <3>3. ASSUME NEW k \in Nat, k \in Typed PROVE k + 1 \in Typed
      <4> SUFFICES ASSUME k + 1 <= n PROVE f[k + 1] \in Int
        OBVIOUS
      <4>1. k + 1 \in 1..n /\ k <= n /\ (k + 1) - 1 = k
        BY <1>1
      <4>2. f[k] \in Int /\ Hands(q[k + 1], c) \in Nat
        BY <3>3, <4>1, <1>1
      <4> QED
        BY <3>1, <4>1, <4>2
    <3> HIDE DEF Typed
    <3>4. Nat \subseteq Typed
      BY <3>2, <3>3, CountingUp
    <3>5. \A k \in 0..n : f[k] \in Int
      BY <3>4, <1>1 DEF Typed
    <3>6. f = [k \in 0..n |-> f[k]]
      BY <2>2
    <3>7. f \in [0..n -> Int]
      BY <3>5, <3>6
    <3> QED
      BY <3>1, <3>7 DEF Adds, n
  <2> DEFINE upTo == CHOOSE f : Is(f)
  <2>3. HandedBy(q, c) = upTo[n]
    BY DEF HandedBy, n
  <2>4. Is(upTo)
    BY <2>1
  <2> HIDE DEF upTo, Is
  <2>5. upTo = s
    BY <2>2, <2>4, <1>7
  <2> QED
    BY <2>3, <2>5
<1> QED
  BY <1>6, <1>7, <1>8 DEF n

(* Two queues one behind the other hand over what both do. *)
LEMMA HandedByBoth ==
  ASSUME NEW p \in Seq(Calls), NEW q \in Seq(Calls), NEW c
  PROVE  p \o q \in Seq(Calls) /\ HandedBy(p \o q, c) = HandedBy(p, c) + HandedBy(q, c)
<1> DEFINE u == p \o q
           m == Len(p)
           n == Len(q)
<1>1. /\ u \in Seq(Calls) /\ m \in Nat /\ n \in Nat /\ Len(u) = m + n
      /\ \A i \in 1..m : u[i] = p[i]
      /\ \A i \in 1..n : u[m + i] = q[i]
  OBVIOUS
<1>2. PICK f : Adds(f, p, c) /\ HandedBy(p, c) = f[m]
  BY HandedByFacts
<1>3. PICK g : Adds(g, q, c) /\ HandedBy(q, c) = g[n]
  BY HandedByFacts
<1>4. /\ f \in [0..m -> Int] /\ f[0] = 0 /\ \A i \in 1..m : f[i] = f[i - 1] + Hands(p[i], c)
      /\ g \in [0..n -> Int] /\ g[0] = 0 /\ \A i \in 1..n : g[i] = g[i - 1] + Hands(q[i], c)
  BY <1>2, <1>3 DEF Adds
<1> DEFINE h == [i \in 0..(m + n) |-> IF i <= m THEN f[i] ELSE f[m] + g[i - m]]
<1> HIDE DEF u, m, n
<1>5. \A i \in 0..(m + n) : (IF i <= m THEN f[i] ELSE f[m] + g[i - m]) \in Int
  <2> SUFFICES ASSUME NEW i \in 0..(m + n)
               PROVE  (IF i <= m THEN f[i] ELSE f[m] + g[i - m]) \in Int
    OBVIOUS
  <2>1. CASE i <= m
    <3>1. i \in 0..m
      BY <2>1, <1>1
    <3> QED
      BY <2>1, <3>1, <1>4
  <2>2. CASE ~(i <= m)
    <3>1. i - m \in 0..n /\ m \in 0..m
      BY <2>2, <1>1
    <3> QED
      BY <2>2, <3>1, <1>4
  <2> QED
    BY <2>1, <2>2
<1>6. /\ h \in [0..(m + n) -> Int]
      /\ \A i \in 0..(m + n) : h[i] = IF i <= m THEN f[i] ELSE f[m] + g[i - m]
  BY <1>5
<1> HIDE DEF h
<1>7. ASSUME NEW i \in 1..(m + n) PROVE h[i] = h[i - 1] + Hands(u[i], c)
  <2>0. i \in 0..(m + n) /\ i - 1 \in 0..(m + n)
    BY <1>1
  <2>1. CASE i <= m
    <3>1. i \in 1..m /\ i - 1 <= m /\ i \in 0..m /\ i - 1 \in 0..m
      BY <2>1, <1>1
    <3> QED
      BY <2>0, <2>1, <3>1, <1>1, <1>4, <1>6
  <2>2. CASE ~(i <= m)
    <3>1. i - m \in 1..n /\ m + (i - m) = i /\ (i - m) - 1 = (i - 1) - m
      BY <2>2, <1>1
    <3>2. u[i] = q[i - m] /\ h[i] = f[m] + g[i - m]
      <4>1. u[m + (i - m)] = q[i - m]
        BY <1>1, <3>1
      <4> QED
        BY <2>0, <2>2, <3>1, <4>1, <1>6
    <3>3. h[i - 1] = f[m] + g[(i - 1) - m]
      <4>1. CASE i - 1 <= m
        <5>0. i \in Int /\ m \in Nat
          BY <1>1
        <5>1. i - 1 = m /\ (i - 1) - m = 0 /\ m \in 0..m
          <6>1. i - 1 = m
            BY <5>0, <2>2, <4>1
          <6> QED
            BY <5>0, <6>1
        <5>2. h[m] = f[m] /\ f[m] \in Int
          BY <2>0, <5>1, <1>4, <1>6, <1>1
        <5>3. g[(i - 1) - m] = 0
          BY <5>1, <1>4
        <5>4. h[i - 1] = f[m] /\ f[m] + 0 = f[m]
          BY <5>1, <5>2
        <5> QED
          BY <5>3, <5>4
      <4>2. CASE ~(i - 1 <= m)
        BY <2>0, <4>2, <1>6
      <4> QED
        BY <4>1, <4>2
    <3>4. g[i - m] = g[(i - m) - 1] + Hands(q[i - m], c)
      BY <1>4, <3>1
    <3>5. f[m] \in Int /\ g[(i - m) - 1] \in Int
      <4>1. m \in 0..m /\ (i - m) - 1 \in 0..n
        BY <3>1, <1>1
      <4> QED
        BY <4>1, <1>4
    <3>6. Hands(q[i - m], c) \in Int
      <4>1. q[i - m] \in Calls
        BY <3>1 DEF n
      <4> QED
        BY <4>1, HandsFacts
    <3> DEFINE a == f[m]  b == g[(i - m) - 1]  e == Hands(q[i - m], c)
    <3>7. h[i] = a + (b + e) /\ h[i - 1] = a + b /\ Hands(u[i], c) = e
      BY <3>1, <3>2, <3>3, <3>4
    <3>8. a \in Int /\ b \in Int /\ e \in Int
      BY <3>5, <3>6
    <3> HIDE DEF a, b, e
    <3> QED
      BY <3>7, <3>8
  <2> QED
    BY <2>1, <2>2
<1>8. h[0] = 0 /\ h[m + n] = f[m] + g[n]
  <2>1. 0 \in 0..(m + n) /\ 0 <= m
    BY <1>1
  <2>2. h[0] = 0
    BY <2>1, <1>4, <1>6
  <2>3. CASE n = 0
    <3>1. m + n = m /\ m \in 0..(m + n) /\ m <= m /\ m \in 0..m
      BY <2>3, <1>1
    <3>2. h[m] = f[m] /\ f[m] \in Int /\ g[n] = 0
      BY <2>3, <3>1, <1>4, <1>6
    <3> QED
      BY <2>2, <3>1, <3>2
  <2>4. CASE n # 0
    <3>1. ~(m + n <= m) /\ (m + n) - m = n /\ m + n \in 0..(m + n)
      BY <2>4, <1>1
    <3> QED
      BY <2>2, <3>1, <1>6
  <2> QED
    BY <2>3, <2>4
<1>9. Adds(h, u, c)
  BY <1>1, <1>6, <1>7, <1>8 DEF Adds
<1>10. HandedBy(u, c) = h[m + n]
  <2>1. u \in Seq(Calls) /\ Len(u) = m + n
    BY <1>1
  <2>2. \A k : Adds(k, u, c) => HandedBy(u, c) = k[Len(u)]
    BY <2>1, HandedByFacts
  <2> QED
    BY <1>9, <2>1, <2>2
<1> QED
  BY <1>1, <1>2, <1>3, <1>8, <1>10 DEF u

(* What the first call hands over is not handed over by the others. *)
LEMMA HandedByRest ==
  ASSUME NEW q \in Seq(Calls), q # << >>, NEW c
  PROVE  /\ Head(q) \in Calls /\ Tail(q) \in Seq(Calls)
         /\ HandedBy(q, c) = Hands(Head(q), c) + HandedBy(Tail(q), c)
<1> DEFINE t == Tail(q)
           n == Len(t)
           e == Hands(Head(q), c)
<1>1. /\ t \in Seq(Calls) /\ n \in Nat /\ Len(q) = n + 1 /\ \A i \in 1..n : t[i] = q[i + 1]
      /\ Head(q) = q[1] /\ Head(q) \in Calls
  OBVIOUS
<1>2. e \in Nat
  BY <1>1, HandsFacts
<1>3. PICK f : Adds(f, q, c) /\ HandedBy(q, c) = f[Len(q)]
  BY HandedByFacts
<1>4. /\ f \in [0..(n + 1) -> Int] /\ f[0] = 0
      /\ \A i \in 1..(n + 1) : f[i] = f[i - 1] + Hands(q[i], c)
  BY <1>1, <1>3 DEF Adds
<1> DEFINE g == [i \in 0..n |-> f[i + 1] - e]
<1>5. f[1] = e
  <2>1. 1 \in 1..(n + 1) /\ 1 - 1 = 0
    BY <1>1
  <2> QED
    BY <2>1, <1>1, <1>2, <1>4
<1> HIDE DEF t, n, e
<1>6. g \in [0..n -> Int] /\ \A i \in 0..n : g[i] = f[i + 1] - e /\ f[i + 1] \in Int
  <2>1. \A i \in 0..n : i + 1 \in 0..(n + 1)
    BY <1>1
  <2> QED
    BY <2>1, <1>2, <1>4
<1> HIDE DEF g
<1>7. ASSUME NEW i \in 1..n PROVE g[i] = g[i - 1] + Hands(t[i], c)
  <2>1. /\ i \in 0..n /\ i - 1 \in 0..n /\ i + 1 \in 1..(n + 1)
        /\ (i - 1) + 1 = i /\ (i + 1) - 1 = i
    BY <1>1
  <2>2. f[i + 1] = f[i] + Hands(q[i + 1], c) /\ t[i] = q[i + 1]
    BY <2>1, <1>1, <1>4
  <2>3. g[i] = f[i + 1] - e /\ g[i - 1] = f[i] - e /\ f[i] \in Int
    BY <2>1, <1>6
  <2>4. Hands(t[i], c) \in Int
    BY <1>1, HandsFacts DEF n
  <2> QED
    BY <2>2, <2>3, <2>4, <1>2
<1>8. g[0] = 0 /\ g[n] = f[n + 1] - e
  <2>1. 0 \in 0..n /\ 0 + 1 = 1 /\ n \in 0..n
    BY <1>1
  <2> QED
    BY <2>1, <1>2, <1>5, <1>6
<1>9. Adds(g, t, c)
  BY <1>6, <1>7, <1>8 DEF Adds, n
<1>10. HandedBy(t, c) = g[n]
  BY <1>1, <1>9, HandedByFacts DEF n
<1>11. f[n + 1] \in Int
  BY <1>1, <1>4
<1>12. HandedBy(q, c) = e + HandedBy(t, c)
  BY <1>1, <1>2, <1>3, <1>8, <1>10, <1>11
<1> QED
  BY <1>1, <1>12 DEF t, e

(* Queues of calls that hand the same over. *)
LEMMA HandedBySame ==
  ASSUME NEW p \in Seq(Calls), NEW q \in Seq(Calls), NEW c, Len(p) = Len(q),
         \A i \in 1..Len(p) : Hands(p[i], c) = Hands(q[i], c)
  PROVE  HandedBy(p, c) = HandedBy(q, c)
<1>1. PICK f : Adds(f, p, c) /\ HandedBy(p, c) = f[Len(p)]
  BY HandedByFacts
<1>2. Adds(f, q, c)
  BY <1>1 DEF Adds
<1> QED
  BY <1>1, <1>2, HandedByFacts

(* A queue with one call for c hands over what that does. *)
LEMMA HandedByOne ==
  ASSUME NEW q \in Seq(Calls), NEW c, NEW k \in 1..Len(q) + 1,
         \A i \in 1..Len(q) : i # k => Hands(q[i], c) = 0
  PROVE  HandedBy(q, c) = IF k <= Len(q) THEN Hands(q[k], c) ELSE 0
<1> DEFINE n == Len(q)
           e == IF k <= n THEN Hands(q[k], c) ELSE 0
           f == [i \in 0..n |-> IF i < k THEN 0 ELSE e]
<1>1. n \in Nat /\ e \in Int
  BY HandsFacts
<1> HIDE DEF e
<1>2. f \in [0..n -> Int] /\ f[0] = 0 /\ f[n] = e
  <2>1. 0 \in 0..n /\ n \in 0..n /\ 0 < k
    BY <1>1
  <2>2. n < k => e = 0
    BY <1>1 DEF e
  <2> HIDE DEF n
  <2> QED
    BY <1>1, <2>1, <2>2
<1>3. ASSUME NEW i \in 1..n PROVE f[i] = f[i - 1] + Hands(q[i], c)
  <2>1. i \in 0..n /\ i - 1 \in 0..n
    BY <1>1
  <2>2. f[i] = (IF i < k THEN 0 ELSE e) /\ f[i - 1] = (IF i - 1 < k THEN 0 ELSE e)
    BY <2>1
  <2> HIDE DEF f
  <2>3. CASE i = k
    <3>1. Hands(q[i], c) = e
      BY <2>3, <1>1 DEF e
    <3>2. ~(i < k) /\ i - 1 < k
      BY <2>3, <1>1
    <3> QED
      BY <2>2, <3>1, <3>2, <1>1
  <2>4. CASE i # k
    <3>1. Hands(q[i], c) = 0
      BY <2>4
    <3>2. i < k <=> i - 1 < k
      BY <2>4, <1>1
    <3> QED
      BY <2>2, <3>1, <3>2, <1>1
  <2> QED
    BY <2>3, <2>4
<1>4. Adds(f, q, c)
  BY <1>2, <1>3 DEF Adds
<1> HIDE DEF f
<1> QED
  BY <1>2, <1>4, HandedByFacts DEF e

(* A call for each element of S, lowest first, with the amounts of f. *)
CallsFor(kind, S, f) ==
  [i \in DOMAIN InOrder(S) |-> InterruptCall(kind, InOrder(S)[i], f[InOrder(S)[i]])]

(* A timer's call, and a queue that has one. *)
IsCall(call, t) == call.kind = "timer" /\ call.id = t
CallIn(q, t) == \E i \in DOMAIN q : IsCall(q[i], t)

(* What is queued for a set is one call each, with its amount. *)
LEMMA QueuedFacts ==
  ASSUME NEW kind \in {"vblank", "timer", "callback"},
         NEW S \in SUBSET Nat, IsFiniteSet(S),
         S \subseteq Timers \cup Callbacks \cup SubIntrs,
         NEW f, \A x \in S : f[x] \in Nat
  PROVE  /\ CallsFor(kind, S, f) \in Seq(Calls)
         /\ kind = "timer" => \A t \in S : CallIn(CallsFor(kind, S, f), t)
         /\ \A c : HandedBy(CallsFor(kind, S, f), c) =
                     IF kind = "callback" /\ c \in S THEN f[c] ELSE 0
<1> DEFINE ids == InOrder(S)
           q == CallsFor(kind, S, f)
           n == Len(ids)
<1>1. /\ ids \in Seq(S) /\ DOMAIN ids = 1..n /\ n \in Nat
      /\ \A i, j \in 1..n : ids[i] = ids[j] => i = j
      /\ \A x \in S : \E i \in 1..n : ids[i] = x
  BY InOrderFacts
<1>2. \A i \in 1..n : ids[i] \in S
  BY <1>1
<1> HIDE DEF ids, n
<1>3. /\ DOMAIN q = 1..n
      /\ \A i \in 1..n : q[i] = InterruptCall(kind, ids[i], f[ids[i]])
  BY <1>1 DEF q, CallsFor, ids
<1> HIDE DEF q
<1>4. ASSUME NEW i \in 1..n PROVE q[i] \in Calls
  <2>1. ids[i] \in Timers \cup Callbacks \cup SubIntrs /\ f[ids[i]] \in Nat
    BY <1>2
  <2>2. q[i] = [kind |-> kind, id |-> ids[i], amount |-> f[ids[i]]]
    BY <1>3 DEF InterruptCall
  <2> QED
    BY <2>1, <2>2 DEF Calls
<1>5. q \in Seq(Calls) /\ Len(q) = n
  <2>1. q = [i \in 1..n |-> q[i]]
    BY <1>1 DEF q, CallsFor, ids
  <2>2. q \in [1..n -> Calls]
    BY <2>1, <1>4
  <2> QED
    BY <2>2, <1>1
<1>6. ASSUME kind = "timer", NEW t \in S PROVE CallIn(q, t)
  <2>1. PICK i \in 1..n : ids[i] = t
    BY <1>1
  <2>2. q[i] = [kind |-> "timer", id |-> t, amount |-> f[t]]
    BY <2>1, <1>3, <1>6 DEF InterruptCall
  <2>3. IsCall(q[i], t) /\ i \in DOMAIN q
    BY <2>2, <1>3 DEF IsCall
  <2> QED
    BY <2>3 DEF CallIn
<1>7. \A i \in 1..n : \A c :
        Hands(q[i], c) = IF kind = "callback" /\ ids[i] = c THEN f[c] ELSE 0
  BY <1>3 DEF Hands, InterruptCall
<1>8. ASSUME NEW c PROVE HandedBy(q, c) = IF kind = "callback" /\ c \in S THEN f[c] ELSE 0
  <2>1. CASE kind = "callback" /\ c \in S
    <3>1. PICK k \in 1..n : ids[k] = c
      BY <1>1, <2>1
    <3>2. \A i \in 1..n : i # k => Hands(q[i], c) = 0
      BY <1>1, <1>7, <3>1
    <3>3. Hands(q[k], c) = f[c]
      BY <1>7, <2>1, <3>1
    <3>4. k \in 1..Len(q) + 1 /\ k <= Len(q)
      BY <1>1, <1>5
    <3>5. \A i \in 1..Len(q) : i # k => Hands(q[i], c) = 0
      BY <1>5, <3>2
    <3>6. HandedBy(q, c) = Hands(q[k], c)
      BY <1>5, <3>4, <3>5, HandedByOne
    <3> QED
      BY <2>1, <3>3, <3>6
  <2>2. CASE ~(kind = "callback" /\ c \in S)
    <3>1. \A i \in 1..Len(q) : Hands(q[i], c) = 0
      BY <1>2, <1>5, <1>7, <2>2
    <3>2. n + 1 \in 1..Len(q) + 1 /\ ~(n + 1 <= Len(q))
      BY <1>1, <1>5
    <3>3. \A i \in 1..Len(q) : i # n + 1 => Hands(q[i], c) = 0
      BY <3>1
    <3>4. HandedBy(q, c) = 0
      BY <1>5, <3>2, <3>3, HandedByOne
    <3> QED
      BY <2>2, <3>4
  <2> QED
    BY <2>1, <2>2
<1> QED
  BY <1>5, <1>6, <1>8 DEF q

(* An empty queue hands nothing over. *)
LEMMA HandedByNone ==
  ASSUME NEW c
  PROVE  << >> \in Seq(Calls) /\ HandedBy(<< >>, c) = 0
<1>1. << >> \in Seq(Calls) /\ Len(<< >>) = 0
  OBVIOUS
<1>2. 1 \in 1..Len(<< >>) + 1 /\ ~(1 <= Len(<< >>))
  OBVIOUS
<1>3. \A i \in 1..Len(<< >>) : i # 1 => Hands(<< >>[i], c) = 0
  OBVIOUS
<1> QED
  BY <1>1, <1>2, <1>3, HandedByOne
-----------------------------------------------------------------------------
(* The inductive invariant: types, that a timer with a handler is armed or  *)
(* has a call, and that a callback was handed no more than it was told of,  *)
(* and all of it while it exists.                                           *)
Typed ==
  /\ current \in Threads \cup {NoThread}
  /\ intr \in BOOLEAN
  /\ pending \in Seq(Calls)
  /\ running \in Calls
  /\ sub \in [SubIntrs -> {"none", "registered", "enabled"}]
  /\ started \in [Timers -> BOOLEAN]
  /\ handler \in [Timers -> BOOLEAN]
  /\ left \in [Timers -> Int]
  /\ owner \in [Callbacks -> Threads \cup {NoThread, NoOwner}]
  /\ notified \in [Callbacks -> Nat]
  /\ told \in [Callbacks -> 0..MaxNotify]
  /\ heard \in [Callbacks -> Nat]

Waiting(t) == CallIn(pending, t) \/ IsCall(running, t)

TimersFit ==
  \A t \in Timers :
    /\ left[t] <= Never
    /\ handler[t] /\ left[t] = Never => Waiting(t)

HeardFits ==
  \A c \in Callbacks :
    /\ notified[c] + HandedBy(pending, c) + heard[c] <= told[c]
    /\ owner[c] # NoOwner => notified[c] + HandedBy(pending, c) + heard[c] = told[c]

IntrInv == Typed /\ TimersFit /\ HeardFits

(* The queue q came to be: its calls wait or run, and what they hand over   *)
(* is queued or heard.                                                      *)
Moved(q) ==
  /\ pending' \in Seq(Calls) /\ running' \in Calls /\ heard' \in [Callbacks -> Nat]
  /\ \A c \in Callbacks : HandedBy(pending', c) + heard'[c] = HandedBy(q, c) + heard[c]
  /\ \A t : CallIn(q, t) => CallIn(pending', t) \/ IsCall(running', t)

(* The schedule of a timer that is not armed is a number too. *)
LEMMA NeverIsNat == Never \in Nat
BY SMT DEF Never

(* Delays are shorter than Never. *)
LEMMA DelaysAreShort ==
  ASSUME NEW a \in Schedules \cup Returns
  PROVE  a \in Nat /\ a < Never
<1>1. a \in 0..Never - 1
  BY InterruptsAssumption
<1> QED
  BY <1>1, NeverIsNat

(* Outside interrupt context a call of no kind runs. *)
LEMMA NoCallIsCall == NoCall \in Calls
BY DEF NoCall, InterruptCall, Calls

(* Beginning the first call of a queue, or holding it, moves the queue. *)
LEMMA BeginOrHoldMoves ==
  ASSUME NEW q \in Seq(Calls), heard \in [Callbacks -> Nat], BeginOrHold(q)
  PROVE  Moved(q)
<1>1. CASE intr' /\ q # << >>
  <2>1. running' = Head(q) /\ pending' = Tail(q)
        /\ heard' = [c \in Callbacks |-> heard[c] + Hands(Head(q), c)]
    BY <1>1 DEF BeginOrHold, Begin
  <2>2. Head(q) \in Calls /\ Tail(q) \in Seq(Calls)
    BY <1>1
  <2>3. \A c \in Callbacks : Hands(Head(q), c) \in Nat
    BY <2>2, HandsFacts
  <2>4. heard' \in [Callbacks -> Nat]
    BY <2>1, <2>3
  <2>5. ASSUME NEW c \in Callbacks
        PROVE  HandedBy(pending', c) + heard'[c] = HandedBy(q, c) + heard[c]
    <3> DEFINE a == HandedBy(Tail(q), c)  h == Hands(Head(q), c)
    <3>1. HandedBy(q, c) = h + a
      BY <1>1, HandedByRest
    <3>2. heard'[c] = heard[c] + h /\ HandedBy(pending', c) = a
      BY <2>1
    <3>3. a \in Nat /\ h \in Nat /\ heard[c] \in Nat
      BY <2>2, <2>3, HandedByFacts
    <3> HIDE DEF a, h
    <3> QED
      BY <3>1, <3>2, <3>3
  <2>6. ASSUME NEW t, CallIn(q, t) PROVE CallIn(pending', t) \/ IsCall(running', t)
    <3>1. PICK i \in DOMAIN q : IsCall(q[i], t)
      BY <2>6 DEF CallIn
    <3>2. CASE i = 1
      BY <1>1, <2>1, <3>1, <3>2
    <3>3. CASE i # 1
      <4>1. i - 1 \in DOMAIN Tail(q) /\ Tail(q)[i - 1] = q[i]
        BY <1>1, <3>3
      <4> QED
        BY <2>1, <3>1, <4>1 DEF CallIn
    <3> QED
      BY <3>2, <3>3
  <2> QED
    BY <2>1, <2>2, <2>4, <2>5, <2>6 DEF Moved
<1>2. CASE ~(intr' /\ q # << >>)
  <2>1. running' = NoCall /\ pending' = q /\ heard' = heard
    BY <1>2 DEF BeginOrHold, Hold
  <2> QED
    BY <2>1, NoCallIsCall DEF Moved
<1> QED
  BY <1>1, <1>2

(* The end of a guest's call does so too, and a running call runs on. *)
LEMMA FinishMoves ==
  ASSUME Typed, Finish(pending)
  PROVE  Moved(pending) /\ \A t : Waiting(t) => Waiting(t)'
<1>1. CASE running = NoCall
  <2>1. Moved(pending)
    BY <1>1, BeginOrHoldMoves DEF Finish, Typed
  <2>2. \A t : ~IsCall(running, t)
    BY <1>1 DEF IsCall, NoCall, InterruptCall
  <2> QED
    BY <2>1, <2>2 DEF Moved, Waiting
<1>2. CASE running # NoCall
  <2>1. pending' = pending /\ running' = running /\ heard' = heard
    BY <1>2 DEF Finish
  <2> QED
    BY <2>1 DEF Moved, Waiting, Typed, CallIn
<1> QED
  BY <1>1, <1>2

(* Where handlers and schedules stay, so does what the timers need.         *)
LEMMA TimersKept ==
  ASSUME TimersFit, \A t : Waiting(t) => Waiting(t)', handler' = handler, left' = left
  PROVE  TimersFit'
BY DEF TimersFit

(* What is queued for a callback and what it heard are numbers. *)
LEMMA QueuedNumbers ==
  ASSUME Typed, NEW c \in Callbacks
  PROVE  /\ HandedBy(pending, c) \in Nat /\ heard[c] \in Nat
         /\ notified[c] \in Nat /\ told[c] \in 0..MaxNotify
BY HandedByFacts DEF Typed

(* Where the callbacks stay and the queue only moves, so does their count. *)
LEMMA CallbacksKept ==
  ASSUME Typed, HeardFits, Moved(pending), owner' = owner, notified' = notified, told' = told
  PROVE  HeardFits'
<1> SUFFICES ASSUME NEW c \in Callbacks
             PROVE  /\ notified'[c] + HandedBy(pending', c) + heard'[c] <= told'[c]
                    /\ owner'[c] # NoOwner =>
                         notified'[c] + HandedBy(pending', c) + heard'[c] = told'[c]
  BY DEF HeardFits
<1>1. HandedBy(pending', c) + heard'[c] = HandedBy(pending, c) + heard[c]
  BY DEF Moved
<1>2. HandedBy(pending', c) \in Nat /\ heard'[c] \in Nat
  BY HandedByFacts DEF Moved
<1>3. HandedBy(pending, c) \in Nat /\ heard[c] \in Nat /\ notified[c] \in Nat /\ told[c] \in Int
  BY QueuedNumbers, InterruptsAssumption
<1>4. /\ notified[c] + HandedBy(pending, c) + heard[c] <= told[c]
      /\ owner[c] # NoOwner => notified[c] + HandedBy(pending, c) + heard[c] = told[c]
  BY DEF HeardFits
<1> QED
  BY <1>1, <1>2, <1>3, <1>4

(* Guest calls that leave timers and callbacks alone. *)
LEMMA PlainCallsKeepInv ==
  ASSUME IntrInv, Finish(pending), current' = current, intr' \in BOOLEAN,
         sub' \in [SubIntrs -> {"none", "registered", "enabled"}],
         started' \in [Timers -> BOOLEAN], handler' = handler, left' = left,
         UNCHANGED callbackVars
  PROVE  IntrInv'
<1>1. Moved(pending) /\ \A t : Waiting(t) => Waiting(t)'
  BY FinishMoves DEF IntrInv
<1>2. Typed'
  BY <1>1 DEF IntrInv, Typed, Moved, callbackVars
<1>3. TimersFit'
  BY <1>1, TimersKept DEF IntrInv
<1>4. HeardFits'
  BY <1>1, CallbacksKept DEF IntrInv, callbackVars
<1> QED
  BY <1>2, <1>3, <1>4 DEF IntrInv

(* Turning interrupts on or off. *)
LEMMA SetInterruptsKeepsInv ==
  ASSUME IntrInv, NEW enabled \in BOOLEAN, SetInterrupts(enabled) PROVE IntrInv'
<1>1. /\ Finish(pending) /\ current' = current /\ intr' \in BOOLEAN /\ sub' = sub
      /\ started' = started /\ handler' = handler /\ left' = left /\ UNCHANGED callbackVars
  BY DEF SetInterrupts, timerVars
<1> QED
  BY <1>1, PlainCallsKeepInv DEF IntrInv, Typed

(* Registering, enabling and releasing a sub-interrupt. *)
LEMMA SetSubIntrKeepsInv ==
  ASSUME IntrInv, NEW s \in SubIntrs, SetSubIntr(s) PROVE IntrInv'
<1>1. /\ Finish(pending) /\ current' = current /\ intr' = intr
      /\ started' = started /\ handler' = handler /\ left' = left /\ UNCHANGED callbackVars
  BY DEF SetSubIntr, timerVars
<1>2. sub' \in [SubIntrs -> {"none", "registered", "enabled"}]
  BY DEF SetSubIntr, IntrInv, Typed
<1> QED
  BY <1>1, <1>2, PlainCallsKeepInv DEF IntrInv, Typed

(* Starting a timer. *)
LEMMA StartVTimerKeepsInv ==
  ASSUME IntrInv, NEW t \in Timers, StartVTimer(t) PROVE IntrInv'
<1>1. /\ Finish(pending) /\ current' = current /\ intr' = intr /\ sub' = sub
      /\ handler' = handler /\ left' = left /\ UNCHANGED callbackVars
  BY DEF StartVTimer
<1>2. started' \in [Timers -> BOOLEAN]
  BY DEF StartVTimer, IntrInv, Typed
<1> QED
  BY <1>1, <1>2, PlainCallsKeepInv DEF IntrInv, Typed

(* A new handler arms its timer; without handler it needs no schedule. *)
LEMMA SetVTimerHandlerKeepsInv ==
  ASSUME IntrInv, NEW t \in Timers, NEW ahead \in Schedules, NEW on \in BOOLEAN,
         SetVTimerHandler(t, ahead, on)
  PROVE  IntrInv'
<1>1. Moved(pending) /\ \A u : Waiting(u) => Waiting(u)'
  BY FinishMoves DEF IntrInv, SetVTimerHandler
<1>2. ahead \in Int /\ ahead < Never
  BY DelaysAreShort
<1>3. (IF on THEN ahead ELSE Never) \in Int
  BY <1>2, NeverIsNat
<1>4. /\ handler' = [handler EXCEPT ![t] = on] /\ handler' \in [Timers -> BOOLEAN]
      /\ left' = [left EXCEPT ![t] = IF on THEN ahead ELSE Never] /\ left' \in [Timers -> Int]
  BY <1>3 DEF SetVTimerHandler, IntrInv, Typed
<1>5. Typed'
  BY <1>1, <1>4 DEF SetVTimerHandler, IntrInv, Typed, Moved, callbackVars
<1>6. ASSUME NEW u \in Timers
      PROVE  left'[u] <= Never /\ (handler'[u] /\ left'[u] = Never => Waiting(u)')
  <2>1. CASE u = t
    <3>1. handler'[u] = on /\ left'[u] = IF on THEN ahead ELSE Never
      BY <1>4, <2>1 DEF IntrInv, Typed
    <3>2. CASE on
      BY <3>1, <3>2, <1>2, NeverIsNat
    <3>3. CASE ~on
      BY <3>1, <3>3, NeverIsNat
    <3> QED
      BY <3>2, <3>3
  <2>2. CASE u # t
    <3>1. handler'[u] = handler[u] /\ left'[u] = left[u]
      BY <1>4, <2>2 DEF IntrInv, Typed
    <3> QED
      BY <3>1, <1>1 DEF IntrInv, TimersFit
  <2> QED
    BY <2>1, <2>2
<1>7. TimersFit'
  BY <1>6 DEF TimersFit
<1>8. HeardFits'
  BY <1>1, CallbacksKept DEF SetVTimerHandler, IntrInv, callbackVars
<1> QED
  BY <1>5, <1>7, <1>8 DEF IntrInv

(* Creating, deleting and notifying: what a callback is told of.            *)
LEMMA CallbackCallsKeepInv ==
  ASSUME IntrInv, NEW c \in Callbacks,
         CreateCallback(c) \/ DeleteCallback(c) \/ NotifyCallback(c)
  PROVE  IntrInv'
<1>1. /\ Finish(pending) /\ current' = current /\ intr' = intr /\ sub' = sub
      /\ started' = started /\ handler' = handler /\ left' = left
  BY DEF CreateCallback, DeleteCallback, NotifyCallback, timerVars
<1>2. Moved(pending) /\ \A t : Waiting(t) => Waiting(t)'
  BY <1>1, FinishMoves DEF IntrInv
<1>3. /\ HandedBy(pending, c) \in Nat /\ heard[c] \in Nat
      /\ notified[c] \in Nat /\ told[c] \in 0..MaxNotify
  BY QueuedNumbers DEF IntrInv
<1>4. /\ notified[c] + HandedBy(pending, c) + heard[c] <= told[c]
      /\ owner[c] # NoOwner => notified[c] + HandedBy(pending, c) + heard[c] = told[c]
  BY DEF IntrInv, HeardFits
<1>5. /\ HandedBy(pending', c) + heard'[c] = HandedBy(pending, c) + heard[c]
      /\ HandedBy(pending', c) \in Nat /\ heard'[c] \in Nat
  BY <1>2, HandedByFacts DEF Moved
<1>6. /\ owner' \in [Callbacks -> Threads \cup {NoThread, NoOwner}]
      /\ notified' \in [Callbacks -> Nat] /\ told' \in [Callbacks -> 0..MaxNotify]
      /\ \A b \in Callbacks : b # c =>
           owner'[b] = owner[b] /\ notified'[b] = notified[b] /\ told'[b] = told[b]
      /\ notified'[c] + HandedBy(pending', c) + heard'[c] <= told'[c]
      /\ owner'[c] # NoOwner =>
           notified'[c] + HandedBy(pending', c) + heard'[c] = told'[c]
  <2>0. /\ owner \in [Callbacks -> Threads \cup {NoThread, NoOwner}]
        /\ notified \in [Callbacks -> Nat] /\ told \in [Callbacks -> 0..MaxNotify]
        /\ current \in Threads \cup {NoThread} /\ MaxNotify \in Nat
    BY InterruptsAssumption DEF IntrInv, Typed
  <2>1. CASE CreateCallback(c)
    <3>1. owner' = [owner EXCEPT ![c] = current] /\ notified' = notified /\ told' = told
          /\ told[c] = 0
      BY <2>1 DEF CreateCallback
    <3>2. notified[c] + HandedBy(pending', c) + heard'[c] = told[c]
      BY <3>1, <1>3, <1>4, <1>5
    <3> QED
      BY <2>0, <3>1, <3>2
  <2>2. CASE DeleteCallback(c)
    <3>1. owner' = [owner EXCEPT ![c] = NoOwner] /\ notified' = [notified EXCEPT ![c] = 0]
          /\ told' = told
      BY <2>2 DEF DeleteCallback
    <3>2. 0 + HandedBy(pending', c) + heard'[c] <= told[c]
      BY <1>3, <1>4, <1>5
    <3>3. owner'[c] = NoOwner /\ notified'[c] = 0 /\ told'[c] = told[c]
      BY <2>0, <3>1
    <3> QED
      BY <2>0, <3>1, <3>2, <3>3
  <2>3. CASE NotifyCallback(c)
    <3>1. owner' = owner /\ notified' = [notified EXCEPT ![c] = @ + 1]
          /\ told' = [told EXCEPT ![c] = @ + 1] /\ told[c] < MaxNotify /\ owner[c] # NoOwner
      BY <2>3 DEF NotifyCallback
    <3>2. notified[c] + 1 + HandedBy(pending', c) + heard'[c] = told[c] + 1
      BY <3>1, <1>3, <1>4, <1>5
    <3>3. told[c] + 1 \in 0..MaxNotify /\ notified[c] + 1 \in Nat
      BY <2>0, <3>1, <1>3
    <3>4. notified'[c] = notified[c] + 1 /\ told'[c] = told[c] + 1
      BY <2>0, <3>1
    <3>5. notified'[c] + HandedBy(pending', c) + heard'[c] = told'[c] /\ told'[c] \in Int
      BY <3>2, <3>3, <3>4, <1>3, <1>5
    <3>6. notified' \in [Callbacks -> Nat] /\ told' \in [Callbacks -> 0..MaxNotify]
      BY <2>0, <3>1, <3>3
    <3>7. \A b \in Callbacks : b # c => notified'[b] = notified[b] /\ told'[b] = told[b]
      BY <2>0, <3>1
    <3>8. notified'[c] + HandedBy(pending', c) + heard'[c] <= told'[c]
      BY <3>5
    <3> QED
      BY <2>0, <3>1, <3>5, <3>6, <3>7, <3>8
  <2> QED
    BY <2>1, <2>2, <2>3
<1>7. Typed'
  BY <1>1, <1>2, <1>6 DEF IntrInv, Typed, Moved
<1>8. TimersFit'
  BY <1>1, <1>2, TimersKept DEF IntrInv
<1>9. ASSUME NEW b \in Callbacks
      PROVE  /\ notified'[b] + HandedBy(pending', b) + heard'[b] <= told'[b]
             /\ owner'[b] # NoOwner =>
                  notified'[b] + HandedBy(pending', b) + heard'[b] = told'[b]
  <2>1. CASE b = c
    BY <2>1, <1>6
  <2>2. CASE b # c
    <3>1. owner'[b] = owner[b] /\ notified'[b] = notified[b] /\ told'[b] = told[b]
      BY <2>2, <1>6
    <3>2. /\ HandedBy(pending, b) \in Nat /\ heard[b] \in Nat
          /\ notified[b] \in Nat /\ told[b] \in 0..MaxNotify
      BY QueuedNumbers DEF IntrInv
    <3>3. /\ HandedBy(pending', b) + heard'[b] = HandedBy(pending, b) + heard[b]
          /\ HandedBy(pending', b) \in Nat /\ heard'[b] \in Nat
      BY <1>2, HandedByFacts DEF Moved
    <3>4. /\ notified[b] + HandedBy(pending, b) + heard[b] <= told[b]
          /\ owner[b] # NoOwner => notified[b] + HandedBy(pending, b) + heard[b] = told[b]
      BY DEF IntrInv, HeardFits
    <3>5. told[b] \in Int
      BY <3>2, InterruptsAssumption
    <3> QED
      BY <3>1, <3>2, <3>3, <3>4, <3>5
  <2> QED
    BY <2>1, <2>2
<1>10. HeardFits'
  BY <1>9 DEF HeardFits
<1> QED
  BY <1>7, <1>8, <1>10 DEF IntrInv

(* A call in one of two queues is in both together. *)
LEMMA CallInBoth ==
  ASSUME NEW p \in Seq(Calls), NEW q \in Seq(Calls), NEW t, CallIn(p, t) \/ CallIn(q, t)
  PROVE  CallIn(p \o q, t)
<1>1. CASE CallIn(p, t)
  <2>1. PICK i \in DOMAIN p : IsCall(p[i], t)
    BY <1>1 DEF CallIn
  <2>2. i \in DOMAIN (p \o q) /\ (p \o q)[i] = p[i]
    OBVIOUS
  <2> QED
    BY <2>1, <2>2 DEF CallIn
<1>2. CASE CallIn(q, t)
  <2>1. PICK i \in DOMAIN q : IsCall(q[i], t)
    BY <1>2 DEF CallIn
  <2>2. Len(p) + i \in DOMAIN (p \o q) /\ (p \o q)[Len(p) + i] = q[i]
    OBVIOUS
  <2> QED
    BY <2>1, <2>2 DEF CallIn
<1> QED
  BY <1>1, <1>2

(* So does holding it while another thread is found. *)
LEMMA HoldMoves ==
  ASSUME NEW q \in Seq(Calls), heard \in [Callbacks -> Nat], Hold(q)
  PROVE  Moved(q)
BY NoCallIsCall DEF Hold, Moved

(* Delivering moves a callback's notifications from its count to its call. *)
LEMMA WaitCBKeepsInv ==
  ASSUME IntrInv, NEW waits \in BOOLEAN, WaitCB(waits)
  PROVE  IntrInv'
<1> DEFINE N == CallsFor("callback", Deliverable, notified)
<1>1. /\ Deliverable \in SUBSET Nat /\ IsFiniteSet(Deliverable)
      /\ Deliverable \subseteq Timers \cup Callbacks \cup SubIntrs
      /\ \A c \in Deliverable : notified[c] \in Nat
  <2>1. Deliverable \subseteq Callbacks
    BY DEF Deliverable
  <2>2. IsFiniteSet(Callbacks) /\ Callbacks \subseteq Nat
    BY InterruptsAssumption
  <2> QED
    BY <2>1, <2>2, FS_Subset DEF IntrInv, Typed
<1>2. Delivered = pending \o N
  BY DEF Delivered, Queued, CallsFor
<1>3. /\ N \in Seq(Calls)
      /\ \A c : HandedBy(N, c) = IF c \in Deliverable THEN notified[c] ELSE 0
  BY <1>1, QueuedFacts
<1> HIDE DEF N
<1>4. pending \in Seq(Calls) /\ heard \in [Callbacks -> Nat]
  BY DEF IntrInv, Typed
<1>5. Delivered \in Seq(Calls)
  BY <1>2, <1>3, <1>4, HandedByBoth
<1>6. ASSUME NEW c
      PROVE  HandedBy(Delivered, c)
               = HandedBy(pending, c) + IF c \in Deliverable THEN notified[c] ELSE 0
  BY <1>2, <1>3, <1>4, HandedByBoth
<1>7. Moved(Delivered)
  BY <1>4, <1>5, BeginOrHoldMoves, HoldMoves DEF WaitCB
<1>8. /\ current' \in Threads \cup {NoThread}
      /\ notified' = [c \in Callbacks |-> IF c \in Deliverable THEN 0 ELSE notified[c]]
      /\ UNCHANGED <<intr, sub, started, handler, left, owner, told>> /\ running = NoCall
  BY DEF WaitCB, timerVars, IntrInv, Typed
<1>9. Typed'
  <2>1. notified' \in [Callbacks -> Nat]
    BY <1>8 DEF IntrInv, Typed
  <2> QED
    BY <1>7, <1>8, <2>1 DEF IntrInv, Typed, Moved
<1>10. TimersFit'
  <2>1. ASSUME NEW t, Waiting(t) PROVE Waiting(t)'
    <3>1. CallIn(pending, t)
      BY <1>8, <2>1 DEF Waiting, IsCall, NoCall, InterruptCall
    <3>2. CallIn(Delivered, t)
      BY <1>2, <1>3, <1>4, <3>1, CallInBoth
    <3> QED
      BY <1>7, <3>2 DEF Moved, Waiting
  <2> QED
    BY <1>8, <2>1, TimersKept DEF IntrInv
<1>11. ASSUME NEW c \in Callbacks
       PROVE  /\ notified'[c] + HandedBy(pending', c) + heard'[c] <= told'[c]
              /\ owner'[c] # NoOwner =>
                   notified'[c] + HandedBy(pending', c) + heard'[c] = told'[c]
  <2>1. /\ HandedBy(pending, c) \in Nat /\ heard[c] \in Nat
        /\ notified[c] \in Nat /\ told[c] \in 0..MaxNotify
    BY QueuedNumbers DEF IntrInv
  <2>2. told[c] \in Int
    BY <2>1, InterruptsAssumption
  <2>3. /\ HandedBy(pending', c) + heard'[c] = HandedBy(Delivered, c) + heard[c]
        /\ HandedBy(pending', c) \in Nat /\ heard'[c] \in Nat
    BY <1>7, HandedByFacts DEF Moved
  <2>4. /\ notified[c] + HandedBy(pending, c) + heard[c] <= told[c]
        /\ owner[c] # NoOwner => notified[c] + HandedBy(pending, c) + heard[c] = told[c]
    BY DEF IntrInv, HeardFits
  <2>5. /\ notified'[c] = IF c \in Deliverable THEN 0 ELSE notified[c]
        /\ owner'[c] = owner[c] /\ told'[c] = told[c]
    BY <1>8
  <2>6. HandedBy(Delivered, c)
          = HandedBy(pending, c) + IF c \in Deliverable THEN notified[c] ELSE 0
    BY <1>6
  <2>7. notified'[c] + HandedBy(pending', c) + heard'[c]
          = notified[c] + HandedBy(pending, c) + heard[c]
    BY <2>1, <2>3, <2>5, <2>6
  <2> QED
    BY <2>4, <2>5, <2>7
<1>12. HeardFits'
  BY <1>11 DEF HeardFits
<1> QED
  BY <1>9, <1>10, <1>12 DEF IntrInv

(* Waiting moves nothing. *)
LEMMA BlockThreadKeepsInv ==
  ASSUME IntrInv, BlockThread PROVE IntrInv'
<1>1. Typed'
  BY DEF BlockThread, IntrInv, Typed, timerVars, callbackVars
<1>2. pending' = pending /\ running' = running /\ heard' = heard
      /\ handler' = handler /\ left' = left /\ UNCHANGED callbackVars
  BY DEF BlockThread, timerVars
<1>3. TimersFit'
  BY <1>2 DEF IntrInv, TimersFit, Waiting, CallIn, IsCall
<1>4. HeardFits'
  BY <1>2 DEF IntrInv, HeardFits, callbackVars
<1> QED
  BY <1>1, <1>3, <1>4 DEF IntrInv

(* Calls that are late are the same calls. *)
LEMMA AgedFacts ==
  ASSUME NEW q \in Seq(Calls), NEW d \in Nat
  PROVE  /\ Aged(q, d) \in Seq(Calls)
         /\ \A c : HandedBy(Aged(q, d), c) = HandedBy(q, c)
         /\ \A t : CallIn(q, t) => CallIn(Aged(q, d), t)
<1> DEFINE a == Aged(q, d)
           n == Len(q)
<1>1. n \in Nat /\ DOMAIN q = 1..n
  OBVIOUS
<1>2. /\ a = [i \in 1..n |-> a[i]]
      /\ \A i \in 1..n : a[i] = IF q[i].kind = "timer" THEN [q[i] EXCEPT !.amount = @ + d]
                                ELSE q[i]
  BY <1>1 DEF Aged
<1> HIDE DEF a, n
<1>3. ASSUME NEW i \in 1..n
      PROVE  /\ a[i] \in Calls /\ a[i].kind = q[i].kind /\ a[i].id = q[i].id
             /\ q[i].kind # "timer" => a[i] = q[i]
  <2>1. q[i] \in Calls
    BY <1>1
  <2>2. PICK k \in {"none", "vblank", "timer", "callback"},
             x \in Timers \cup Callbacks \cup SubIntrs \cup {0}, m \in Nat :
          q[i] = [kind |-> k, id |-> x, amount |-> m]
    BY <2>1 DEF Calls
  <2>3. CASE k = "timer"
    <3>1. a[i] = [kind |-> k, id |-> x, amount |-> m + d]
      BY <1>2, <2>2, <2>3
    <3>2. m + d \in Nat
      OBVIOUS
    <3> QED
      BY <2>2, <2>3, <3>1, <3>2 DEF Calls
  <2>4. CASE k # "timer"
    <3>1. a[i] = q[i]
      BY <1>2, <2>2, <2>4
    <3> QED
      BY <2>1, <3>1
  <2> QED
    BY <2>3, <2>4
<1>4. a \in Seq(Calls) /\ Len(a) = n
  <2>1. a \in [1..n -> Calls]
    BY <1>2, <1>3
  <2> QED
    BY <2>1, <1>1
<1>5. ASSUME NEW c PROVE HandedBy(a, c) = HandedBy(q, c)
  <2>1. \A i \in 1..Len(a) : Hands(a[i], c) = Hands(q[i], c)
    <3> SUFFICES ASSUME NEW i \in 1..n PROVE Hands(a[i], c) = Hands(q[i], c)
      BY <1>4
    <3>1. CASE q[i].kind = "timer"
      BY <3>1, <1>3 DEF Hands
    <3>2. CASE q[i].kind # "timer"
      BY <3>2, <1>3
    <3> QED
      BY <3>1, <3>2
  <2>2. Len(a) = Len(q)
    BY <1>4 DEF n
  <2> QED
    BY <1>4, <2>1, <2>2, HandedBySame
<1>6. ASSUME NEW t, CallIn(q, t) PROVE CallIn(a, t)
  <2>1. PICK i \in 1..n : IsCall(q[i], t)
    BY <1>1, <1>6 DEF CallIn
  <2>2. IsCall(a[i], t) /\ i \in DOMAIN a
    BY <1>3, <1>4, <2>1 DEF IsCall
  <2> QED
    BY <2>2 DEF CallIn
<1> QED
  BY <1>4, <1>5, <1>6 DEF a

(* The queue after time passed: all calls that waited, no more for the      *)
(* callbacks, and a call for every timer that is due.                       *)
LEMMA QueueAfterFacts ==
  ASSUME Typed, NEW d \in 0..1, NEW vblank \in BOOLEAN
  PROVE  /\ QueueAfter(d, vblank) \in Seq(Calls)
         /\ \A c : HandedBy(QueueAfter(d, vblank), c) = HandedBy(pending, c)
         /\ \A t : CallIn(pending, t) => CallIn(QueueAfter(d, vblank), t)
         /\ \A t \in Due(d) : CallIn(QueueAfter(d, vblank), t)
<1> DEFINE E == {s \in SubIntrs : vblank /\ sub[s] = "enabled"}
           f == [s \in E |-> 0]
           g == [t \in Due(d) |-> d - left[t]]
           A == Aged(pending, d)
           V == CallsFor("vblank", E, f)
           T == CallsFor("timer", Due(d), g)
<1>0. /\ IsFiniteSet(SubIntrs) /\ SubIntrs \subseteq Nat
      /\ IsFiniteSet(Timers) /\ Timers \subseteq Nat
  BY InterruptsAssumption
<1>1. /\ A \in Seq(Calls) /\ \A c : HandedBy(A, c) = HandedBy(pending, c)
      /\ \A t : CallIn(pending, t) => CallIn(A, t)
  <2>1. pending \in Seq(Calls) /\ d \in Nat
    BY DEF Typed
  <2> QED
    BY <2>1, AgedFacts
<1>2. /\ E \in SUBSET Nat /\ IsFiniteSet(E) /\ E \subseteq Timers \cup Callbacks \cup SubIntrs
      /\ \A x \in E : f[x] \in Nat
  <2>1. E \subseteq SubIntrs
    OBVIOUS
  <2>2. IsFiniteSet(E)
    BY <1>0, <2>1, FS_Subset
  <2> QED
    BY <1>0, <2>1, <2>2
<1>3. /\ Due(d) \in SUBSET Nat /\ IsFiniteSet(Due(d))
      /\ Due(d) \subseteq Timers \cup Callbacks \cup SubIntrs
      /\ \A x \in Due(d) : g[x] \in Nat
  <2>1. Due(d) \subseteq Timers
    BY DEF Due
  <2>2. IsFiniteSet(Due(d))
    BY <1>0, <2>1, FS_Subset
  <2>3. ASSUME NEW x \in Due(d) PROVE g[x] \in Nat
    <3>1. left[x] \in Int /\ left[x] <= d /\ g[x] = d - left[x]
      BY DEF Due, Typed
    <3> QED
      BY <3>1
  <2> QED
    BY <1>0, <2>1, <2>2, <2>3
<1>4. QueueAfter(d, vblank) = (A \o V) \o T
  <2>1. \A i \in DOMAIN InOrder(E) : InOrder(E)[i] \in E
    <3> HIDE DEF E
    <3>1. InOrder(E) \in Seq(E)
      BY <1>2, InOrderFacts
    <3> QED
      BY <3>1
  <2>2. \A i \in DOMAIN InOrder(Due(d)) : InOrder(Due(d))[i] \in Due(d)
    BY <1>3, InOrderFacts
  <2>3. Queued("vblank", E, LAMBDA s : 0) = V
    BY <2>1 DEF Queued, CallsFor
  <2>4. Queued("timer", Due(d), LAMBDA t : d - left[t]) = T
    BY <2>2 DEF Queued, CallsFor
  <2> QED
    BY <2>3, <2>4 DEF QueueAfter
<1> HIDE DEF E, f, g
<1>5. V \in Seq(Calls) /\ \A c : HandedBy(V, c) = 0
  BY <1>2, QueuedFacts
<1>6. T \in Seq(Calls) /\ (\A c : HandedBy(T, c) = 0) /\ \A t \in Due(d) : CallIn(T, t)
  BY <1>3, QueuedFacts
<1> HIDE DEF A, V, T
<1>7. /\ A \o V \in Seq(Calls) /\ (A \o V) \o T \in Seq(Calls)
      /\ \A c : HandedBy(A \o V, c) = HandedBy(A, c) + HandedBy(V, c)
      /\ \A c : HandedBy((A \o V) \o T, c) = HandedBy(A \o V, c) + HandedBy(T, c)
  <2>1. A \o V \in Seq(Calls) /\ \A c : HandedBy(A \o V, c) = HandedBy(A, c) + HandedBy(V, c)
    BY <1>1, <1>5, HandedByBoth
  <2> QED
    BY <2>1, <1>6, HandedByBoth
<1>8. \A c : HandedBy(pending, c) \in Nat
  BY HandedByFacts DEF Typed
<1>9. \A c : HandedBy((A \o V) \o T, c) = HandedBy(pending, c)
  BY <1>1, <1>5, <1>6, <1>7, <1>8
<1>10. \A t : CallIn(pending, t) => CallIn((A \o V) \o T, t)
  <2>1. \A t : CallIn(A, t) => CallIn(A \o V, t)
    BY <1>1, <1>5, CallInBoth
  <2>2. \A t : CallIn(A \o V, t) => CallIn((A \o V) \o T, t)
    BY <1>6, <1>7, CallInBoth
  <2> QED
    BY <1>1, <2>1, <2>2
<1>11. \A t \in Due(d) : CallIn((A \o V) \o T, t)
  BY <1>6, <1>7, CallInBoth
<1> QED
  BY <1>4, <1>7, <1>9, <1>10, <1>11

(* Time passing disarms only the timers that it gives a call. *)
LEMMA ProcessedKeepsInv ==
  ASSUME IntrInv, NEW d \in 0..1, NEW vblank \in BOOLEAN, running = NoCall,
         Processed(d, vblank), current' \in Threads \cup {NoThread}
  PROVE  IntrInv'
<1> DEFINE Q == QueueAfter(d, vblank)
<1>1. /\ Q \in Seq(Calls) /\ \A c : HandedBy(Q, c) = HandedBy(pending, c)
      /\ \A t : CallIn(pending, t) => CallIn(Q, t)
      /\ \A t \in Due(d) : CallIn(Q, t)
  BY QueueAfterFacts DEF IntrInv
<1> HIDE DEF Q
<1>2. /\ left' = LeftAfter(d) /\ UNCHANGED <<intr, sub, started, handler, callbackVars>>
      /\ BeginOrHold(Q)
  BY DEF Processed, Q
<1>3. Moved(Q)
  BY <1>1, <1>2, BeginOrHoldMoves DEF IntrInv, Typed
<1>4. Moved(pending)
  BY <1>1, <1>3 DEF Moved
<1>5. ASSUME NEW t \in Timers
      PROVE  /\ left'[t] = IF t \in Due(d) THEN Never
                           ELSE IF started[t] /\ left[t] # Never THEN left[t] - d ELSE left[t]
             /\ left[t] \in Int /\ left[t] <= Never /\ left'[t] \in Int
  <2>1. left[t] \in Int /\ left[t] <= Never /\ Never \in Int
    BY NeverIsNat DEF IntrInv, Typed, TimersFit
  <2>2. left'[t] = IF t \in Due(d) THEN Never
                   ELSE IF started[t] /\ left[t] # Never THEN left[t] - d ELSE left[t]
    BY <1>2 DEF LeftAfter
  <2> QED
    BY <2>1, <2>2
<1>6. Typed'
  <2>1. left' \in [Timers -> Int]
    BY <1>2, <1>5 DEF LeftAfter
  <2> QED
    BY <1>2, <1>3, <2>1 DEF IntrInv, Typed, Moved, callbackVars
<1>7. ASSUME NEW t \in Timers
      PROVE  left'[t] <= Never /\ (handler'[t] /\ left'[t] = Never => Waiting(t)')
  <2>1. CASE t \in Due(d)
    <3>1. CallIn(pending', t) \/ IsCall(running', t)
      BY <1>1, <1>3, <2>1 DEF Moved
    <3> QED
      BY <1>5, <2>1, <3>1, NeverIsNat DEF Waiting
  <2>2. CASE t \notin Due(d)
    <3>1. left'[t] <= Never /\ (left'[t] = Never => left[t] = Never)
      BY <1>5, <2>2, NeverIsNat
    <3>2. ASSUME handler[t], left[t] = Never PROVE Waiting(t)'
      <4>1. CallIn(pending, t)
        BY <3>2 DEF IntrInv, TimersFit, Waiting, IsCall, NoCall, InterruptCall
      <4> QED
        BY <1>1, <1>3, <4>1 DEF Moved, Waiting
    <3> QED
      BY <1>2, <3>1, <3>2
  <2> QED
    BY <2>1, <2>2
<1>8. TimersFit'
  BY <1>7 DEF TimersFit
<1>9. HeardFits'
  BY <1>2, <1>4, CallbacksKept DEF IntrInv, callbackVars
<1> QED
  BY <1>6, <1>8, <1>9 DEF IntrInv

(* A timer whose call is over is armed again or has no handler any more. *)
LEMMA InterruptReturnKeepsInv ==
  ASSUME IntrInv, NEW next \in Returns, InterruptReturn(next)
  PROVE  IntrInv'
<1>1. /\ OnReturn(next) /\ UNCHANGED <<current, intr, sub, started, callbackVars>>
      /\ BeginOrHold(pending)
  BY DEF InterruptReturn
<1>2. Moved(pending)
  BY <1>1, BeginOrHoldMoves DEF IntrInv, Typed
<1>3. next \in Nat /\ next < Never /\ running.amount \in Nat
  BY DelaysAreShort DEF IntrInv, Typed, Calls
<1>4. ASSUME NEW t \in Timers
      PROVE  /\ handler'[t] \in BOOLEAN /\ left'[t] \in Int
             /\ left'[t] <= Never /\ (handler'[t] /\ left'[t] = Never => Waiting(t)')
  <2>0. left[t] \in Int /\ left[t] <= Never /\ handler[t] \in BOOLEAN
    BY DEF IntrInv, Typed, TimersFit
  <2>1. CASE IsCall(running, t)
    <3>1. /\ handler' = [handler EXCEPT ![t] = @ /\ next # 0]
          /\ left' = [left EXCEPT ![t] =
                        IF handler[t] /\ next # 0 THEN next - running.amount ELSE Never]
      BY <1>1, <2>1 DEF OnReturn, IsCall
    <3>2. /\ handler'[t] = (handler[t] /\ next # 0)
          /\ left'[t] = IF handler[t] /\ next # 0 THEN next - running.amount ELSE Never
      BY <3>1 DEF IntrInv, Typed
    <3>3. CASE handler[t] /\ next # 0
      <4>1. left'[t] = next - running.amount /\ next - running.amount \in Int
            /\ next - running.amount < Never
        BY <1>3, <3>2, <3>3, NeverIsNat
      <4>2. left'[t] \in Int /\ left'[t] <= Never /\ left'[t] # Never
        BY <4>1, NeverIsNat
      <4> QED
        BY <3>2, <4>2
    <3>4. CASE ~(handler[t] /\ next # 0)
      <4>1. left'[t] = Never /\ handler'[t] = FALSE
        BY <3>2, <3>4
      <4>2. left'[t] \in Int /\ left'[t] <= Never
        BY <4>1, NeverIsNat
      <4>3. handler'[t] \in BOOLEAN /\ ~handler'[t]
        BY <4>1
      <4> QED
        BY <4>2, <4>3
    <3> QED
      BY <3>3, <3>4
  <2>2. CASE ~IsCall(running, t)
    <3>1. handler'[t] = handler[t] /\ left'[t] = left[t]
      BY <1>1, <2>2 DEF OnReturn, IsCall, IntrInv, Typed
    <3>2. Waiting(t) => Waiting(t)'
      BY <1>2, <2>2 DEF Moved, Waiting
    <3> QED
      BY <2>0, <3>1, <3>2 DEF IntrInv, TimersFit
  <2> QED
    BY <2>1, <2>2
<1>5. Typed'
  <2>1. handler' = [t \in Timers |-> handler'[t]] /\ left' = [t \in Timers |-> left'[t]]
    BY <1>1 DEF OnReturn, IntrInv, Typed
  <2>2. handler' \in [Timers -> BOOLEAN] /\ left' \in [Timers -> Int]
    BY <1>4, <2>1
  <2> QED
    BY <1>1, <1>2, <2>2 DEF IntrInv, Typed, Moved, callbackVars
<1>6. TimersFit'
  BY <1>4 DEF TimersFit
<1>7. HeardFits'
  BY <1>1, <1>2, CallbacksKept DEF IntrInv, callbackVars
<1> QED
  BY <1>5, <1>6, <1>7 DEF IntrInv

(* At first nothing is armed, queued or told. *)
LEMMA IntrInitInv == IntrInit => IntrInv
<1> SUFFICES ASSUME IntrInit PROVE IntrInv
  OBVIOUS
<1>1. Typed
  BY HandedByNone, NoCallIsCall, NeverIsNat, InterruptsAssumption DEF IntrInit, Typed
<1>2. TimersFit
  BY NeverIsNat DEF IntrInit, TimersFit
<1>3. HeardFits
  BY HandedByNone DEF IntrInit, HeardFits
<1> QED
  BY <1>1, <1>2, <1>3 DEF IntrInv

(* Every step keeps the invariant. *)
LEMMA IntrNextInv == IntrInv /\ [IntrNext]_intrVars => IntrInv'
<1> SUFFICES ASSUME IntrInv, [IntrNext]_intrVars PROVE IntrInv'
  OBVIOUS
<1>1. CASE GuestCalls
  <2>1. CASE \E enabled \in BOOLEAN : SetInterrupts(enabled)
    BY <2>1, SetInterruptsKeepsInv
  <2>2. CASE \E s \in SubIntrs : SetSubIntr(s)
    BY <2>2, SetSubIntrKeepsInv
  <2>3. CASE \E t \in Timers : StartVTimer(t)
    BY <2>3, StartVTimerKeepsInv
  <2>4. CASE \E t \in Timers, ahead \in Schedules, on \in BOOLEAN : SetVTimerHandler(t, ahead, on)
    BY <2>4, SetVTimerHandlerKeepsInv
  <2>5. CASE \E c \in Callbacks : CreateCallback(c) \/ DeleteCallback(c) \/ NotifyCallback(c)
    BY <2>5, CallbackCallsKeepInv
  <2>6. CASE \E waits \in BOOLEAN : WaitCB(waits)
    BY <2>6, WaitCBKeepsInv
  <2>7. CASE BlockThread
    BY <2>7, BlockThreadKeepsInv
  <2> QED
    BY <1>1, <2>1, <2>2, <2>3, <2>4, <2>5, <2>6, <2>7 DEF GuestCalls
<1>2. CASE \E vblank \in BOOLEAN : Starvation(vblank)
  <2>1. PICK vblank \in BOOLEAN : Starvation(vblank)
    BY <1>2
  <2>2. 1 \in 0..1 /\ running = NoCall /\ Processed(1, vblank)
        /\ current' \in Threads \cup {NoThread}
    BY <2>1 DEF Starvation
  <2> QED
    BY <2>2, ProcessedKeepsInv
<1>3. CASE \E d \in 0..1, vblank \in BOOLEAN : Schedule(d, vblank)
  <2>1. PICK d \in 0..1, vblank \in BOOLEAN : Schedule(d, vblank)
    BY <1>3
  <2>2. running = NoCall /\ Processed(d, vblank) /\ current' \in Threads \cup {NoThread}
    BY <2>1 DEF Schedule
  <2> QED
    BY <2>2, ProcessedKeepsInv
<1>4. CASE \E next \in Returns : InterruptReturn(next)
  BY <1>4, InterruptReturnKeepsInv
<1>5. CASE UNCHANGED intrVars
  <2>1. Typed' /\ HeardFits'
    BY <1>5 DEF intrVars, timerVars, callbackVars, IntrInv, Typed, HeardFits
  <2>2. TimersFit'
    BY <1>5 DEF intrVars, timerVars, IntrInv, TimersFit, Waiting, CallIn, IsCall
  <2> QED
    BY <2>1, <2>2 DEF IntrInv
<1> QED
  BY <1>1, <1>2, <1>3, <1>4, <1>5 DEF IntrNext

(* So it always holds. *)
LEMMA IntrAlwaysInv == IntrSpec => []IntrInv
BY IntrInitInv, IntrNextInv, PTL DEF IntrSpec

(* No timer goes silent by itself, for any number of timers and callbacks,  *)
(* whatever the guest schedules and its handlers return.                    *)
THEOREM TimersGoOn == IntrSpec => []NoSilentTimer
<1>1. IntrInv => NoSilentTimer
  <2> SUFFICES ASSUME IntrInv PROVE NoSilentTimer
    OBVIOUS
  <2>1. \A c \in Callbacks : notified[c] \in 0..MaxNotify /\ heard[c] \in 0..MaxNotify
    <3> SUFFICES ASSUME NEW c \in Callbacks
                 PROVE  notified[c] \in 0..MaxNotify /\ heard[c] \in 0..MaxNotify
      OBVIOUS
    <3>1. /\ HandedBy(pending, c) \in Nat /\ heard[c] \in Nat
          /\ notified[c] \in Nat /\ told[c] \in 0..MaxNotify
      BY QueuedNumbers DEF IntrInv
    <3>2. notified[c] + HandedBy(pending, c) + heard[c] <= told[c]
      BY DEF IntrInv, HeardFits
    <3> QED
      BY <3>1, <3>2, InterruptsAssumption
  <2>2. {notified, told, heard} \subseteq [Callbacks -> 0..MaxNotify]
    BY <2>1 DEF IntrInv, Typed
  <2>3. IntrTypeOK
    BY <2>2 DEF IntrInv, Typed, IntrTypeOK
  <2>4. ASSUME NEW t \in Timers, handler[t], left[t] = Never PROVE Outstanding(t) # {}
    <3>1. Waiting(t)
      BY <2>4 DEF IntrInv, TimersFit
    <3> QED
      BY <3>1 DEF Waiting, CallIn, IsCall, Outstanding
  <2> QED
    BY <2>3, <2>4 DEF NoSilentTimer
<1> QED
  BY <1>1, IntrAlwaysInv, PTL

(* Every notification of a callback that exists is counted, queued or was   *)
(* heard, and only one of these, however notifications, deliveries and      *)
(* interrupts interleave.                                                   *)
THEOREM CallbacksHearAll == IntrSpec => []NotificationsHeardOnce
<1>1. IntrInv => NotificationsHeardOnce
  BY DEF IntrInv, HeardFits, NotificationsHeardOnce, InQueue
<1> QED
  BY <1>1, IntrAlwaysInv, PTL

-----------------------------------------------------------------------------
(* A number less its remainder, and what is left of multiples. *)
LEMMA Divides ==
  ASSUME NEW x \in Nat, NEW a \in Nat \ {0}
  PROVE  \E q \in Nat : x = a * q + (x % a) /\ x % a \in 0..a - 1
<1>1. x = a * (x \div a) + (x % a) /\ x % a \in 0..a - 1 /\ x \div a \in Nat
  OBVIOUS
<1> QED
  BY <1>1

(* What leaves no remainder is a multiple ... *)
LEMMA IsMultiple ==
  ASSUME NEW x \in Nat, NEW a \in Nat \ {0}, x % a = 0
  PROVE  \E q \in Nat : x = a * q
<1>1. x = a * (x \div a) + (x % a) /\ x \div a \in Nat
  OBVIOUS
<1>2. x = a * (x \div a)
  BY <1>1
<1> QED
  BY <1>1, <1>2

(* ... and the other way round. *)
LEMMA MultipleOf ==
  ASSUME NEW q \in Nat, NEW a \in Nat \ {0}
  PROVE  (a * q) % a = 0
OBVIOUS

(* Sums and differences of multiples are multiples. *)
LEMMA MultiplePlus ==
  ASSUME NEW x \in Nat, NEW y \in Nat, NEW a \in Nat \ {0}, x % a = 0, y % a = 0
  PROVE  (x + y) % a = 0
<1>1. PICK p \in Nat : x = a * p
  BY IsMultiple
<1>2. PICK q \in Nat : y = a * q
  BY IsMultiple
<1>3. x + y = a * (p + q)
  BY <1>1, <1>2
<1>4. p + q \in Nat
  OBVIOUS
<1> QED
  BY <1>3, <1>4, MultipleOf

(* The difference, where it is no less than nothing. *)
LEMMA MultipleMinus ==
  ASSUME NEW x \in Nat, NEW y \in Nat, NEW a \in Nat \ {0}, x % a = 0, y % a = 0, y <= x
  PROVE  (x - y) % a = 0
<1>1. PICK p \in Nat : x = a * p
  BY IsMultiple
<1>2. PICK q \in Nat : y = a * q
  BY IsMultiple
<1>3. q <= p
  BY <1>1, <1>2
<1>4. x - y = a * (p - q) /\ p - q \in Nat
  BY <1>1, <1>2, <1>3
<1> QED
  BY <1>4, MultipleOf

(* A multiple of a multiple. *)
LEMMA MultipleOfMultiple ==
  ASSUME NEW x \in Nat, NEW a \in Nat \ {0}, NEW g \in Nat \ {0}, x % a = 0, a % g = 0
  PROVE  x % g = 0
<1>1. PICK p \in Nat : x = a * p
  BY IsMultiple
<1>2. PICK q \in Nat : a = g * q
  BY IsMultiple
<1>3. x = g * (q * p) /\ q * p \in Nat
  BY <1>1, <1>2
<1> QED
  BY <1>3, MultipleOf

(* Rounding down. *)
LEMMA RoundedDown ==
  ASSUME NEW x \in Nat, NEW a \in Nat \ {0}, NEW g \in Nat \ {0}, a % g = 0
  PROVE  /\ x - (x % a) \in Nat /\ x - (x % a) <= x /\ x - (x % a) > x - a
         /\ (x - (x % a)) % g = 0
<1>1. PICK q \in Nat : x = a * q + (x % a) /\ x % a \in 0..a - 1
  BY Divides
<1>2. x - (x % a) = a * q /\ a * q \in Nat
  BY <1>1
<1>3. (x - (x % a)) % a = 0
  BY <1>2, MultipleOf
<1>4. (x - (x % a)) % g = 0
  BY <1>2, <1>3, MultipleOfMultiple
<1> QED
  BY <1>1, <1>2, <1>4

(* What fits does not wrap. *)
LEMMA NoWrap ==
  ASSUME NEW x \in Nat, NEW a \in Nat, x < a
  PROVE  x % a = x
OBVIOUS

-----------------------------------------------------------------------------
(* The byte behind a range, and the bytes of ranges. *)
Beyond(r) == r.address + r.size
Within(b, r) == r.address <= b /\ b < Beyond(r)
InAny(b, s) == \E k \in 1..Len(s) : Within(b, s[k])

(* Ranges that lie in the partition and are not empty. *)
Proper ==
  {r \in Ranges : r.size > 0 /\ UserStart <= r.address /\ Beyond(r) <= UserEnd}

(* The ranges are in order, and only one at a place in gs may be followed   *)
(* by the next without a gap.                                               *)
Follows(r, q, joint) ==
  /\ Beyond(r) <= q.address
  /\ Beyond(r) = q.address => joint
Ordered(s, gs) ==
  \A k, l \in 1..Len(s) : k < l => Follows(s[k], s[l], l = k + 1 /\ k \in gs)

(* What is a range. *)
LEMMA RangeFacts ==
  ASSUME NEW r \in Proper
  PROVE  /\ r.address \in Nat /\ r.size \in Nat /\ r.size > 0 /\ Beyond(r) \in Nat
         /\ r.address % Granule = 0 /\ r.size % Granule = 0
         /\ UserStart <= r.address /\ Beyond(r) <= UserEnd /\ Beyond(r) > r.address
         /\ EndOf(r) = Beyond(r)
         /\ r = [address |-> r.address, size |-> r.size]
<1>1. /\ r \in Ranges /\ r.size > 0 /\ UserStart <= r.address /\ Beyond(r) <= UserEnd
      /\ Space \in Nat /\ UserEnd \in Nat /\ UserEnd < Space
  BY MemoryAssumption DEF Proper
<1>2. /\ r.address \in 0..Space - 1 /\ r.size \in 0..Space - 1
      /\ r.address % Granule = 0 /\ r.size % Granule = 0
      /\ r = [address |-> r.address, size |-> r.size]
  BY <1>1 DEF Ranges, Granules
<1>3. r.address \in Nat /\ r.size \in Nat /\ Beyond(r) \in Nat /\ Beyond(r) < Space
      /\ Beyond(r) > r.address
  BY <1>1, <1>2 DEF Beyond
<1>4. EndOf(r) = Beyond(r)
  BY <1>1, <1>3, NoWrap DEF EndOf, Beyond
<1> QED
  BY <1>1, <1>2, <1>3, <1>4

(* A whole number of granules inside the partition is a proper range. *)
LEMMA MakeRange ==
  ASSUME NEW a \in Nat, NEW n \in Nat, n > 0, a % Granule = 0, n % Granule = 0,
         UserStart <= a, a + n <= UserEnd
  PROVE  [address |-> a, size |-> n] \in Proper
<1>1. a \in 0..Space - 1 /\ n \in 0..Space - 1
  BY MemoryAssumption
<1>2. [address |-> a, size |-> n] \in Ranges
  BY <1>1 DEF Ranges, Granules
<1> QED
  BY <1>2 DEF Proper, Beyond

(* What is at which place when one sequence follows another. *)
LEMMA Together ==
  ASSUME NEW S, NEW a \in Seq(S), NEW b \in Seq(S)
  PROVE  /\ a \o b \in Seq(S) /\ Len(a \o b) = Len(a) + Len(b)
         /\ \A i \in 1..Len(a) : (a \o b)[i] = a[i]
         /\ \A i \in 1..Len(b) : (a \o b)[Len(a) + i] = b[i]
OBVIOUS

(* What is at which place after ranges were put in place of others. *)
SplicedFrom(t, s, i, p, j) ==
  /\ Len(t) = i + Len(p) + (Len(s) + 1 - j)
  /\ \A k \in 1..i : t[k] = s[k]
  /\ \A k \in 1..Len(p) : t[i + k] = p[k]
  /\ \A k \in j..Len(s) : t[i + Len(p) + (k + 1 - j)] = s[k]

(* Spliced is what SplicedFrom says. *)
LEMMA SplicedFacts ==
  ASSUME NEW S, NEW s \in Seq(S), NEW p \in Seq(S), NEW i \in Nat, NEW j \in Nat,
         i < j, j <= Len(s) + 1
  PROVE  Spliced(s, i, p, j) \in Seq(S) /\ SplicedFrom(Spliced(s, i, p, j), s, i, p, j)
<1> DEFINE a == SubSeq(s, 1, i)
           c == SubSeq(s, j, Len(s))
           n == Len(s)
           m == Len(p)
           x == a \o p
           y == x \o c
<1>1. n \in Nat /\ m \in Nat
  OBVIOUS
<1>2. a \in Seq(S) /\ Len(a) = i /\ \A k \in 1..i : a[k] = s[k]
  <2>1. i <= n
    BY <1>1
  <2>2. \A k \in 1..i : s[k] \in S
    BY <1>1, <2>1
  <2> QED
    BY <1>1, <2>1, <2>2
<1>3. c \in Seq(S) /\ Len(c) = n + 1 - j /\ \A k \in 1..n + 1 - j : c[k] = s[j + k - 1]
  <2>1. \A k \in j..n : s[k] \in S
    BY <1>1
  <2> QED
    BY <1>1, <2>1
<1>4. Spliced(s, i, p, j) = y
  BY DEF Spliced
<1> HIDE DEF a, c, n
<1>5. /\ x \in Seq(S) /\ Len(x) = i + m
      /\ \A k \in 1..i : x[k] = a[k]
      /\ \A k \in 1..m : x[i + k] = p[k]
  <2>1. /\ x \in Seq(S) /\ Len(x) = Len(a) + Len(p)
        /\ \A k \in 1..Len(a) : x[k] = a[k]
        /\ \A k \in 1..Len(p) : x[Len(a) + k] = p[k]
    <3>1. a \in Seq(S) /\ p \in Seq(S)
      BY <1>2
    <3> QED
      BY <3>1, Together
  <2> HIDE DEF x
  <2> QED
    BY <1>1, <1>2, <2>1
<1> HIDE DEF x, m
<1>6. /\ y \in Seq(S) /\ Len(y) = (i + m) + (n + 1 - j)
      /\ \A k \in 1..i + m : y[k] = x[k]
      /\ \A k \in 1..n + 1 - j : y[(i + m) + k] = c[k]
  <2>1. /\ y \in Seq(S) /\ Len(y) = Len(x) + Len(c)
        /\ \A k \in 1..Len(x) : y[k] = x[k]
        /\ \A k \in 1..Len(c) : y[Len(x) + k] = c[k]
    <3>1. x \in Seq(S) /\ c \in Seq(S)
      BY <1>3, <1>5
    <3> QED
      BY <3>1, Together
  <2> HIDE DEF y
  <2> QED
    BY <1>1, <1>3, <1>5, <2>1
<1> HIDE DEF y
<1>7. \A k \in 1..i : y[k] = s[k]
  <2> SUFFICES ASSUME NEW k \in 1..i PROVE y[k] = s[k]
    OBVIOUS
  <2>1. k \in 1..i + m
    BY <1>1
  <2> QED
    BY <2>1, <1>2, <1>5, <1>6
<1>8. \A k \in 1..m : y[i + k] = p[k]
  <2> SUFFICES ASSUME NEW k \in 1..m PROVE y[i + k] = p[k]
    OBVIOUS
  <2>1. i + k \in 1..i + m
    BY <1>1
  <2> QED
    BY <2>1, <1>5, <1>6
<1>9. \A k \in j..n : y[i + m + (k + 1 - j)] = s[k]
  <2> SUFFICES ASSUME NEW k \in j..n PROVE y[i + m + (k + 1 - j)] = s[k]
    OBVIOUS
  <2>1. k + 1 - j \in 1..n + 1 - j /\ j + (k + 1 - j) - 1 = k
    BY <1>1
  <2> QED
    BY <2>1, <1>3, <1>6
<1>10. SplicedFrom(y, s, i, p, j)
  BY <1>6, <1>7, <1>8, <1>9 DEF m, n, SplicedFrom
<1> QED
  BY <1>4, <1>6, <1>10
(* Where an entry of the new sequence comes from. *)
LEMMA SplicedOrigins ==
  ASSUME NEW S, NEW s \in Seq(S), NEW p \in Seq(S), NEW i \in Nat, NEW j \in Nat,
         i < j, j <= Len(s) + 1, NEW x \in 1..Len(Spliced(s, i, p, j))
  PROVE  \/ x \in 1..i /\ Spliced(s, i, p, j)[x] = s[x]
         \/ \E m \in 1..Len(p) : x = i + m /\ Spliced(s, i, p, j)[x] = p[m]
         \/ \E k \in j..Len(s) : /\ x = i + Len(p) + (k + 1 - j)
                                /\ Spliced(s, i, p, j)[x] = s[k]
<1> DEFINE t == Spliced(s, i, p, j)
<1>0. SplicedFrom(Spliced(s, i, p, j), s, i, p, j)
  BY SplicedFacts
<1>1. /\ Len(t) = i + Len(p) + (Len(s) + 1 - j)
      /\ \A k \in 1..i : t[k] = s[k]
      /\ \A k \in 1..Len(p) : t[i + k] = p[k]
      /\ \A k \in j..Len(s) : t[i + Len(p) + (k + 1 - j)] = s[k]
  BY <1>0 DEF SplicedFrom
<1>2. Len(p) \in Nat /\ Len(s) \in Nat
  OBVIOUS
<1>3. x \in 1..Len(t)
  OBVIOUS
<1> HIDE DEF t
<1>4. CASE x <= i
  BY <1>1, <1>2, <1>3, <1>4 DEF t
<1>5. CASE i < x /\ x <= i + Len(p)
  <2>1. x - i \in 1..Len(p) /\ x = i + (x - i)
    BY <1>2, <1>3, <1>5
  <2>2. t[x] = p[x - i]
    BY <2>1, <1>1
  <2> QED
    BY <2>1, <2>2 DEF t
<1>6. CASE i + Len(p) < x
  <2>1. x - i - Len(p) - 1 + j \in j..Len(s)
    BY <1>1, <1>2, <1>3, <1>6
  <2>2. x = i + Len(p) + ((x - i - Len(p) - 1 + j) + 1 - j)
    BY <1>2, <2>1
  <2>3. t[x] = s[x - i - Len(p) - 1 + j]
    BY <2>1, <2>2, <1>1
  <2> QED
    BY <2>1, <2>2, <2>3 DEF t
<1> QED
  BY <1>1, <1>2, <1>3, <1>4, <1>5, <1>6

(* The bytes of the new sequence are those of its parts. *)
LEMMA SplicedBytes ==
  ASSUME NEW S, NEW s \in Seq(S), NEW p \in Seq(S), NEW i \in Nat, NEW j \in Nat,
         i < j, j <= Len(s) + 1, NEW b
  PROVE  InAny(b, Spliced(s, i, p, j)) <=>
           \/ \E k \in 1..i : Within(b, s[k])
           \/ InAny(b, p)
           \/ \E k \in j..Len(s) : Within(b, s[k])
<1> DEFINE t == Spliced(s, i, p, j)
<1>0. SplicedFrom(Spliced(s, i, p, j), s, i, p, j)
  BY SplicedFacts
<1>1. /\ Len(t) = i + Len(p) + (Len(s) + 1 - j)
      /\ \A k \in 1..i : t[k] = s[k]
      /\ \A k \in 1..Len(p) : t[i + k] = p[k]
      /\ \A k \in j..Len(s) : t[i + Len(p) + (k + 1 - j)] = s[k]
  BY <1>0 DEF SplicedFrom
<1>2. Len(p) \in Nat /\ Len(s) \in Nat
  OBVIOUS
<1>3. ASSUME NEW x \in 1..Len(t)
      PROVE  \/ x \in 1..i /\ t[x] = s[x]
             \/ \E m \in 1..Len(p) : t[x] = p[m]
             \/ \E k \in j..Len(s) : t[x] = s[k]
  BY SplicedOrigins
<1> HIDE DEF t
<1>4. ASSUME InAny(b, t)
      PROVE  \/ \E k \in 1..i : Within(b, s[k])
             \/ InAny(b, p)
             \/ \E k \in j..Len(s) : Within(b, s[k])
  <2>1. PICK x \in 1..Len(t) : Within(b, t[x])
    BY <1>4 DEF InAny
  <2> QED
    BY <2>1, <1>3 DEF InAny
<1>5. ASSUME NEW k \in 1..i, Within(b, s[k]) PROVE InAny(b, t)
  <2>1. k \in 1..Len(t)
    BY <1>1, <1>2
  <2> QED
    BY <2>1, <1>1, <1>5 DEF InAny
<1>6. ASSUME InAny(b, p) PROVE InAny(b, t)
  <2>1. PICK m \in 1..Len(p) : Within(b, p[m])
    BY <1>6 DEF InAny
  <2>2. i + m \in 1..Len(t)
    BY <1>1, <1>2
  <2> QED
    BY <2>1, <2>2, <1>1 DEF InAny
<1>7. ASSUME NEW k \in j..Len(s), Within(b, s[k]) PROVE InAny(b, t)
  <2>1. i + Len(p) + (k + 1 - j) \in 1..Len(t)
    BY <1>1, <1>2
  <2> QED
    BY <2>1, <1>1, <1>7 DEF InAny
<1>8. InAny(b, t) <=>
           \/ \E k \in 1..i : Within(b, s[k])
           \/ InAny(b, p)
           \/ \E k \in j..Len(s) : Within(b, s[k])
  BY <1>4, <1>5, <1>6, <1>7
<1> QED
  BY <1>8 DEF t

(* It is in order if its parts are, and one part follows the other. *)
LEMMA SplicedOrdered ==
  ASSUME NEW s \in Seq(Proper), NEW p \in Seq(Proper), NEW i \in Nat, NEW j \in Nat,
         i < j, j <= Len(s) + 1, NEW D,
         \A k, l \in 1..i : k < l => Follows(s[k], s[l], l = k + 1 /\ k \in D),
         \A k \in 1..i : \A m \in 1..Len(p) :
           Follows(s[k], p[m], k = i /\ m = 1 /\ i \in D),
         \A k \in 1..i : \A l \in j..Len(s) : Follows(s[k], s[l], FALSE),
         \A m, o \in 1..Len(p) : m < o => Follows(p[m], p[o], FALSE),
         \A m \in 1..Len(p) : \A l \in j..Len(s) :
           Follows(p[m], s[l], m = Len(p) /\ l = j /\ i + Len(p) \in D),
         \A k, l \in j..Len(s) : k < l => Follows(s[k], s[l], FALSE)
  PROVE  Ordered(Spliced(s, i, p, j), D)
<1> DEFINE t == Spliced(s, i, p, j)
<1>1. Len(p) \in Nat /\ Len(s) \in Nat
  OBVIOUS
<1> SUFFICES ASSUME NEW x \in 1..Len(t), NEW y \in 1..Len(t), x < y
             PROVE  Follows(t[x], t[y], y = x + 1 /\ x \in D)
  BY DEF Ordered
<1>2. \/ x \in 1..i /\ t[x] = s[x]
      \/ \E m \in 1..Len(p) : x = i + m /\ t[x] = p[m]
      \/ \E k \in j..Len(s) : x = i + Len(p) + (k + 1 - j) /\ t[x] = s[k]
  BY SplicedOrigins
<1>3. \/ y \in 1..i /\ t[y] = s[y]
      \/ \E m \in 1..Len(p) : y = i + m /\ t[y] = p[m]
      \/ \E k \in j..Len(s) : y = i + Len(p) + (k + 1 - j) /\ t[y] = s[k]
  BY SplicedOrigins
<1>4. x \in Nat /\ y \in Nat
  OBVIOUS
<1> HIDE DEF t
<1>5. CASE x \in 1..i /\ t[x] = s[x]
  <2>1. CASE y \in 1..i /\ t[y] = s[y]
    BY <1>5, <2>1
  <2>2. CASE \E m \in 1..Len(p) : y = i + m /\ t[y] = p[m]
    <3>1. PICK m \in 1..Len(p) : y = i + m /\ t[y] = p[m]
      BY <2>2
    <3>2. Follows(s[x], p[m], x = i /\ m = 1 /\ i \in D)
      BY <1>5
    <3> QED
      BY <3>1, <3>2, <1>5 DEF Follows
  <2>3. CASE \E k \in j..Len(s) : y = i + Len(p) + (k + 1 - j) /\ t[y] = s[k]
    BY <1>5, <2>3 DEF Follows
  <2> QED
    BY <1>3, <2>1, <2>2, <2>3
<1>6. CASE \E m \in 1..Len(p) : x = i + m /\ t[x] = p[m]
  <2>0. PICK m \in 1..Len(p) : x = i + m /\ t[x] = p[m]
    BY <1>6
  <2>1. CASE y \in 1..i /\ t[y] = s[y]
    BY <2>0, <2>1, <1>1
  <2>2. CASE \E o \in 1..Len(p) : y = i + o /\ t[y] = p[o]
    <3>1. PICK o \in 1..Len(p) : y = i + o /\ t[y] = p[o]
      BY <2>2
    <3>2. m < o
      BY <3>1, <2>0, <1>1
    <3>3. Follows(p[m], p[o], FALSE)
      BY <3>2
    <3> QED
      BY <3>1, <3>3, <2>0 DEF Follows
  <2>3. CASE \E k \in j..Len(s) : y = i + Len(p) + (k + 1 - j) /\ t[y] = s[k]
    <3>1. PICK k \in j..Len(s) : y = i + Len(p) + (k + 1 - j) /\ t[y] = s[k]
      BY <2>3
    <3>2. Follows(p[m], s[k], m = Len(p) /\ k = j /\ i + Len(p) \in D)
      OBVIOUS
    <3>3. m = Len(p) /\ k = j => y = x + 1 /\ x = i + Len(p)
      BY <3>1, <2>0, <1>1
    <3> QED
      BY <3>1, <3>2, <3>3, <2>0 DEF Follows
  <2> QED
    BY <1>3, <2>1, <2>2, <2>3
<1>7. CASE \E k \in j..Len(s) : x = i + Len(p) + (k + 1 - j) /\ t[x] = s[k]
  <2>0. PICK k \in j..Len(s) : x = i + Len(p) + (k + 1 - j) /\ t[x] = s[k]
    BY <1>7
  <2>1. x > i + Len(p)
    BY <2>0, <1>1
  <2>2. PICK l \in j..Len(s) : y = i + Len(p) + (l + 1 - j) /\ t[y] = s[l]
    BY <2>1, <1>1, <1>3
  <2>3. k < l
    BY <2>0, <2>2, <1>1
  <2>4. Follows(s[k], s[l], FALSE)
    BY <2>3
  <2> QED
    BY <2>0, <2>2, <2>4 DEF Follows
<1> QED
  BY <1>2, <1>5, <1>6, <1>7

-----------------------------------------------------------------------------
(* Ranges that follow each other are joined: they are in order without that *)
(* joint, and hold the same bytes.                                          *)
LEMMA JoinedFacts ==
  ASSUME NEW s \in Seq(Proper), NEW i \in Nat, NEW D, D \subseteq 0..i - 1,
         Ordered(s, {i} \cup D)
  PROVE  /\ Joined(s, i) \in Seq(Proper) /\ Ordered(Joined(s, i), D)
         /\ \A b \in Nat : InAny(b, Joined(s, i)) <=> InAny(b, s)
<1> DEFINE n == Len(s)
<1>0. n \in Nat /\ \A k \in 1..n : s[k] \in Proper
  OBVIOUS
<1>1. \A k, l \in 1..n : k < l => Follows(s[k], s[l], l = k + 1 /\ k \in {i} \cup D)
  BY DEF Ordered
<1>2. CASE ~(i \in 1..n - 1 /\ EndOf(s[i]) = s[i + 1].address)
  <2>1. Joined(s, i) = s
    BY <1>2 DEF Joined
  <2>2. ASSUME NEW k \in 1..n, NEW l \in 1..n, k < l
        PROVE  Follows(s[k], s[l], l = k + 1 /\ k \in D)
    <3>1. Follows(s[k], s[l], l = k + 1 /\ k \in {i} \cup D)
      BY <1>1, <2>2
    <3>2. CASE Beyond(s[k]) = s[l].address /\ k = i
      <4>1. l = i + 1 /\ i \in 1..n - 1
        BY <1>0, <3>1, <3>2, <2>2 DEF Follows
      <4>2. EndOf(s[i]) = Beyond(s[i])
        BY <1>0, <3>2, RangeFacts
      <4> QED
        BY <4>1, <4>2, <3>2, <1>2
    <3> QED
      BY <3>1, <3>2 DEF Follows
  <2>3. Ordered(s, D)
    BY <2>2 DEF Ordered
  <2> QED
    BY <2>1, <2>3
<1>3. CASE i \in 1..n - 1 /\ EndOf(s[i]) = s[i + 1].address
  <2> DEFINE r == s[i]
             q == s[i + 1]
             both == [address |-> r.address, size |-> r.size + q.size]
             t == Spliced(s, i - 1, <<both>>, i + 2)
  <2>0. i \in 1..n /\ i + 1 \in 1..n /\ i - 1 \in Nat /\ i - 1 < i + 2 /\ i + 2 <= n + 1
        /\ i + 2 \in Nat
    BY <1>0, <1>3
  <2>1. r \in Proper /\ q \in Proper
    BY <2>0, <1>0
  <2>2. /\ r.address \in Nat /\ r.size \in Nat /\ r.size > 0 /\ Beyond(r) \in Nat
        /\ r.address % Granule = 0 /\ r.size % Granule = 0
        /\ UserStart <= r.address /\ EndOf(r) = Beyond(r) /\ Beyond(r) > r.address
        /\ r = [address |-> r.address, size |-> r.size]
    BY <2>1, RangeFacts
  <2>3. /\ q.address \in Nat /\ q.size \in Nat /\ q.size > 0 /\ Beyond(q) \in Nat
        /\ q.size % Granule = 0 /\ Beyond(q) <= UserEnd /\ Beyond(q) > q.address
    BY <2>1, RangeFacts
  <2>4. Beyond(r) = q.address
    BY <1>3, <2>2
  <2>5. r.address + (r.size + q.size) = Beyond(q)
    BY <2>2, <2>3, <2>4 DEF Beyond
  <2>6. (r.size + q.size) % Space = r.size + q.size
    <3>1. r.size + q.size < Space /\ Space \in Nat
      BY <2>2, <2>3, <2>5, MemoryAssumption
    <3>2. r.size + q.size \in Nat
      BY <2>2, <2>3
    <3> HIDE DEF r, q
    <3> QED
      BY <3>1, <3>2, NoWrap
  <2>7. both \in Proper
    <3>1. (r.size + q.size) % Granule = 0
      BY <2>2, <2>3, MemoryAssumption, MultiplePlus
    <3>2. r.size + q.size \in Nat /\ r.size + q.size > 0 /\ r.address + (r.size + q.size) <= UserEnd
      BY <2>2, <2>3, <2>5
    <3> QED
      BY <2>2, <3>1, <3>2, MakeRange
  <2>8. Joined(s, i) = t
    <3>1. [r EXCEPT !.size = (r.size + q.size) % Space] = both
      BY <2>2, <2>6
    <3> QED
      BY <1>3, <3>1 DEF Joined
  <2>9. /\ both.address = r.address /\ Beyond(both) = Beyond(q)
    BY <2>5 DEF Beyond
  <2> HIDE DEF both
  <2>10. <<both>> \in Seq(Proper) /\ Len(<<both>>) = 1 /\ <<both>>[1] = both
    BY <2>7
  <2>11. Ordered(t, D)
    <3>1. \A k, l \in 1..i - 1 : k < l => Follows(s[k], s[l], l = k + 1 /\ k \in D)
      <4> SUFFICES ASSUME NEW k \in 1..i - 1, NEW l \in 1..i - 1, k < l
                   PROVE  Follows(s[k], s[l], l = k + 1 /\ k \in D)
        OBVIOUS
      <4>1. k \in 1..n /\ l \in 1..n /\ k # i
        BY <2>0, <1>0
      <4>2. Follows(s[k], s[l], l = k + 1 /\ k \in {i} \cup D)
        BY <4>1, <1>1
      <4> QED
        BY <4>1, <4>2 DEF Follows
    <3>2. \A k \in 1..i - 1 : \A m \in 1..Len(<<both>>) :
            Follows(s[k], <<both>>[m], k = i - 1 /\ m = 1 /\ i - 1 \in D)
      <4> SUFFICES ASSUME NEW k \in 1..i - 1
                   PROVE  Follows(s[k], both, k = i - 1 /\ i - 1 \in D)
        BY <2>10
      <4>1. k \in 1..n /\ k < i /\ k # i /\ (i = k + 1 => k = i - 1)
        BY <2>0, <1>0
      <4>2. Follows(s[k], r, i = k + 1 /\ k \in {i} \cup D)
        BY <4>1, <2>0, <1>1
      <4> QED
        BY <4>1, <4>2, <2>9 DEF Follows
    <3>3. \A k \in 1..i - 1 : \A l \in i + 2..Len(s) : Follows(s[k], s[l], FALSE)
      <4> SUFFICES ASSUME NEW k \in 1..i - 1, NEW l \in i + 2..n
                   PROVE  Follows(s[k], s[l], FALSE)
        OBVIOUS
      <4>1. k \in 1..n /\ l \in 1..n /\ k < l /\ l # k + 1
        BY <2>0, <1>0
      <4>2. Follows(s[k], s[l], l = k + 1 /\ k \in {i} \cup D)
        BY <4>1, <1>1
      <4> QED
        BY <4>1, <4>2 DEF Follows
    <3>4. \A m, o \in 1..Len(<<both>>) : m < o => Follows(<<both>>[m], <<both>>[o], FALSE)
      BY <2>10
    <3>5. \A m \in 1..Len(<<both>>) : \A l \in i + 2..Len(s) :
            Follows(<<both>>[m], s[l], m = Len(<<both>>) /\ l = i + 2 /\ i - 1 + Len(<<both>>) \in D)
      <4> SUFFICES ASSUME NEW l \in i + 2..n
                   PROVE  Follows(both, s[l], FALSE)
        BY <2>10 DEF Follows
      <4>1. l \in 1..n /\ i + 1 < l /\ i + 1 \notin {i} \cup D
        BY <2>0, <1>0
      <4>2. Follows(q, s[l], l = i + 1 + 1 /\ i + 1 \in {i} \cup D)
        BY <4>1, <2>0, <1>1
      <4> QED
        BY <4>1, <4>2, <2>9 DEF Follows
    <3>6. \A k, l \in i + 2..Len(s) : k < l => Follows(s[k], s[l], FALSE)
      <4> SUFFICES ASSUME NEW k \in i + 2..n, NEW l \in i + 2..n, k < l
                   PROVE  Follows(s[k], s[l], FALSE)
        OBVIOUS
      <4>1. k \in 1..n /\ l \in 1..n /\ k \notin {i} \cup D
        BY <2>0, <1>0
      <4>2. Follows(s[k], s[l], l = k + 1 /\ k \in {i} \cup D)
        BY <4>1, <1>1
      <4> QED
        BY <4>1, <4>2 DEF Follows
    <3> QED
      BY <2>0, <2>10, <3>1, <3>2, <3>3, <3>4, <3>5, <3>6, SplicedOrdered
  <2>12. ASSUME NEW b \in Nat PROVE InAny(b, t) <=> InAny(b, s)
    <3>1. Within(b, both) <=> Within(b, r) \/ Within(b, q)
      BY <2>2, <2>3, <2>4, <2>9 DEF Within
    <3>2. InAny(b, <<both>>) <=> Within(b, both)
      BY <2>10 DEF InAny
    <3>3. InAny(b, t) <=> \/ \E k \in 1..i - 1 : Within(b, s[k])
                          \/ InAny(b, <<both>>)
                          \/ \E k \in i + 2..Len(s) : Within(b, s[k])
      BY <2>0, <2>10, SplicedBytes
    <3>4. \A k \in 1..n : k \in 1..i - 1 \/ k = i \/ k = i + 1 \/ k \in i + 2..n
      BY <2>0, <1>0
    <3>5. (\A k \in 1..i - 1 : k \in 1..n) /\ (\A k \in i + 2..n : k \in 1..n)
      BY <2>0, <1>0
    <3>6. InAny(b, s) <=> \/ \E k \in 1..i - 1 : Within(b, s[k])
                          \/ Within(b, r) \/ Within(b, q)
                          \/ \E k \in i + 2..n : Within(b, s[k])
      BY <3>4, <3>5, <2>0 DEF InAny
    <3> QED
      BY <3>1, <3>2, <3>3, <3>6
  <2>13. t \in Seq(Proper)
    BY <2>0, <2>10, SplicedFacts
  <2> QED
    BY <2>8, <2>11, <2>12, <2>13
<1> QED
  BY <1>2, <1>3

(* Some number of a set is the least. *)
LEMMA HasLeast ==
  ASSUME NEW T, T \subseteq Nat, NEW y \in T
  PROVE  \E x \in T : \A z \in T : x <= z
<1>1. IsWellFoundedOn(OpToRel(<, Nat), Nat)
  BY NatLessThanWellFounded
<1>2. PICK x \in T : \A z \in T : ~(<<z, x>> \in OpToRel(<, Nat))
  BY <1>1, WFMin
<1>3. \A z \in T : ~(z < x)
  BY <1>2 DEF OpToRel
<1> QED
  BY <1>3

(* The first place of a range not below r is the one Position finds. *)
LEMMA PositionFacts ==
  ASSUME free \in Seq(Proper), Ordered(free, {}), NEW r \in Proper
  PROVE  /\ Position(r) \in 1..Len(free) + 1
         /\ \A k \in 1..Len(free) : free[k].address < r.address <=> k < Position(r)
<1> DEFINE n == Len(free)
           T == {k \in 1..n + 1 : k = n + 1 \/ ~(free[k].address < r.address)}
           H == {i \in DOMAIN free : free[i].address < r.address}
<1>1. n \in Nat /\ DOMAIN free = 1..n /\ \A k \in 1..n : free[k] \in Proper
  OBVIOUS
<1>2. n + 1 \in T /\ T \subseteq Nat
  BY <1>1
<1>3. PICK x \in T : \A y \in T : x <= y
  <2> HIDE DEF T
  <2> QED
    BY <1>2, HasLeast
<1>4. x \in 1..n + 1 /\ \A y \in T : x <= y
  BY <1>3
<1>5. ASSUME NEW k \in 1..n PROVE free[k].address < r.address <=> k < x
  <2>1. /\ free[k].address \in Nat /\ r.address \in Nat /\ Beyond(free[k]) \in Nat
        /\ Beyond(free[k]) > free[k].address
    BY <1>1, RangeFacts
  <2>2. CASE k < x
    BY <2>1, <2>2, <1>1, <1>4
  <2>3. CASE k = x
    BY <2>1, <2>3, <1>1
  <2>4. CASE k > x
    <3>1. x \in 1..n /\ ~(free[x].address < r.address)
      BY <2>4, <1>1, <1>4
    <3>2. /\ free[x].address \in Nat /\ Beyond(free[x]) \in Nat
          /\ Beyond(free[x]) > free[x].address
      BY <3>1, <1>1, RangeFacts
    <3>3. Beyond(free[x]) <= free[k].address
      BY <3>1, <2>4, <1>4 DEF Ordered, Follows
    <3> QED
      BY <3>1, <3>2, <3>3, <2>1, <2>4, <1>1, <1>4
  <2> QED
    BY <2>2, <2>3, <2>4, <1>1, <1>4
<1>6. H = 1..x - 1
  BY <1>1, <1>4, <1>5
<1>7. Cardinality(H) = x - 1
  <2>1. Cardinality(1..x - 1) = IF 1 > x - 1 THEN 0 ELSE x - 1 - 1 + 1
    BY <1>1, <1>4, FS_Interval
  <2> HIDE DEF H
  <2> QED
    BY <2>1, <1>1, <1>4, <1>6
<1>8. Position(r) = x
  BY <1>1, <1>4, <1>7 DEF Position
<1> QED
  BY <1>4, <1>5, <1>8

(* A range apart from the free ones is put among them in order; it may      *)
(* follow the one before, and be followed by the next, without a gap.       *)
LEMMA InsertedFacts ==
  ASSUME free \in Seq(Proper), Ordered(free, {}), NEW r \in Proper,
         \A b \in Nat : Within(b, r) => ~InAny(b, free)
  PROVE  /\ Inserted(r) \in Seq(Proper)
         /\ Ordered(Inserted(r), {Position(r), Position(r) - 1})
         /\ \A b \in Nat : InAny(b, Inserted(r)) <=> InAny(b, free) \/ Within(b, r)
<1> DEFINE n == Len(free)
           x == Position(r)
           D == {x, x - 1}
           t == Spliced(free, x - 1, <<r>>, x)
<1>1. n \in Nat /\ \A k \in 1..n : free[k] \in Proper
  OBVIOUS
<1>2. x \in 1..n + 1 /\ \A k \in 1..n : free[k].address < r.address <=> k < x
  BY PositionFacts
<1> HIDE DEF x
<1>3. x \in Nat /\ x - 1 \in Nat /\ x - 1 < x /\ x <= n + 1
  BY <1>1, <1>2
<1>4. <<r>> \in Seq(Proper) /\ Len(<<r>>) = 1 /\ <<r>>[1] = r
  OBVIOUS
<1>5. /\ r.address \in Nat /\ Beyond(r) \in Nat /\ Beyond(r) > r.address
  BY RangeFacts
<1>6. ASSUME NEW k \in 1..n
      PROVE  /\ free[k].address \in Nat /\ Beyond(free[k]) \in Nat
             /\ Beyond(free[k]) > free[k].address
  BY <1>1, RangeFacts
<1>7. \A k, l \in 1..n : k < l => Follows(free[k], free[l], FALSE)
  BY DEF Ordered, Follows
<1>8. ASSUME NEW k \in 1..x - 1
      PROVE  Beyond(free[k]) <= r.address /\ k \in 1..n
  <2>1. k \in 1..n /\ free[k].address < r.address
    BY <1>1, <1>2, <1>3
  <2>2. Within(r.address, r)
    BY <1>5 DEF Within
  <2>3. ~Within(r.address, free[k])
    BY <2>1, <2>2, <1>5 DEF InAny
  <2> QED
    BY <2>1, <2>3, <1>5, <1>6 DEF Within
<1>9. ASSUME NEW k \in x..n
      PROVE  Beyond(r) <= free[k].address /\ k \in 1..n
  <2>1. k \in 1..n /\ ~(free[k].address < r.address)
    BY <1>1, <1>2, <1>3
  <2>2. /\ free[k].address \in Nat /\ Beyond(free[k]) \in Nat
        /\ Beyond(free[k]) > free[k].address
    BY <2>1, <1>6
  <2>3. InAny(free[k].address, free)
    BY <2>1, <2>2 DEF InAny, Within
  <2>4. ~Within(free[k].address, r)
    BY <2>2, <2>3
  <2> QED
    BY <2>1, <2>2, <2>4, <1>5 DEF Within
<1>10. Ordered(t, D)
  <2>1. \A k, l \in 1..x - 1 : k < l => Follows(free[k], free[l], l = k + 1 /\ k \in D)
    BY <1>7, <1>8 DEF Follows
  <2>2. \A k \in 1..x - 1 : \A m \in 1..Len(<<r>>) :
          Follows(free[k], <<r>>[m], k = x - 1 /\ m = 1 /\ x - 1 \in D)
    <3> SUFFICES ASSUME NEW k \in 1..x - 1
                 PROVE  Follows(free[k], r, k = x - 1)
      BY <1>4
    <3>1. Beyond(free[k]) <= r.address /\ k \in 1..n
      BY <1>8
    <3>2. CASE k # x - 1
      <4>1. x - 1 \in 1..x - 1 /\ k < x - 1 /\ x - 1 \in 1..n
        BY <3>2, <1>1, <1>3, <1>2
      <4>2. Beyond(free[k]) <= free[x - 1].address
        BY <4>1, <3>1, <1>7 DEF Follows
      <4>3. free[x - 1].address < r.address
        BY <4>1, <1>2, <1>3
      <4> QED
        BY <4>1, <4>2, <4>3, <3>1, <1>5, <1>6 DEF Follows
    <3> QED
      BY <3>1, <3>2 DEF Follows
  <2>3. \A k \in 1..x - 1 : \A l \in x..Len(free) : Follows(free[k], free[l], FALSE)
    <3> SUFFICES ASSUME NEW k \in 1..x - 1, NEW l \in x..n
                 PROVE  Follows(free[k], free[l], FALSE)
      OBVIOUS
    <3>1. k \in 1..n /\ l \in 1..n /\ k < l
      BY <1>8, <1>9, <1>3
    <3> QED
      BY <3>1, <1>7
  <2>4. \A m, o \in 1..Len(<<r>>) : m < o => Follows(<<r>>[m], <<r>>[o], FALSE)
    BY <1>4
  <2>5. \A m \in 1..Len(<<r>>) : \A l \in x..Len(free) :
          Follows(<<r>>[m], free[l], m = Len(<<r>>) /\ l = x /\ x - 1 + Len(<<r>>) \in D)
    <3> SUFFICES ASSUME NEW l \in x..n
                 PROVE  Follows(r, free[l], l = x /\ x - 1 + 1 \in D)
      BY <1>4
    <3>0. x - 1 + 1 \in D
      BY <1>3
    <3>1. Beyond(r) <= free[l].address /\ l \in 1..n
      BY <1>9
    <3>2. CASE l # x
      <4>1. x \in x..n /\ x < l /\ x \in 1..n
        BY <3>2, <1>1, <1>3
      <4>2. Beyond(free[x]) <= free[l].address
        BY <4>1, <3>1, <1>7 DEF Follows
      <4>3. Beyond(r) <= free[x].address
        BY <4>1, <1>9
      <4> QED
        BY <4>1, <4>2, <4>3, <3>1, <1>5, <1>6 DEF Follows
    <3> HIDE DEF D
    <3> QED
      BY <3>0, <3>1, <3>2 DEF Follows
  <2>6. \A k, l \in x..Len(free) : k < l => Follows(free[k], free[l], FALSE)
    BY <1>7, <1>9
  <2> HIDE DEF D
  <2> QED
    BY <1>3, <1>4, <2>1, <2>2, <2>3, <2>4, <2>5, <2>6, SplicedOrdered
<1>11. ASSUME NEW b \in Nat PROVE InAny(b, t) <=> InAny(b, free) \/ Within(b, r)
  <2>1. InAny(b, <<r>>) <=> Within(b, r)
    BY <1>4 DEF InAny
  <2>2. InAny(b, t) <=> \/ \E k \in 1..x - 1 : Within(b, free[k])
                        \/ InAny(b, <<r>>)
                        \/ \E k \in x..Len(free) : Within(b, free[k])
    BY <1>3, <1>4, SplicedBytes
  <2>3. /\ \A k \in 1..n : k \in 1..x - 1 \/ k \in x..n
        /\ (\A k \in 1..x - 1 : k \in 1..n) /\ (\A k \in x..n : k \in 1..n)
    BY <1>1, <1>3
  <2>4. InAny(b, free) <=> \/ \E k \in 1..x - 1 : Within(b, free[k])
                           \/ \E k \in x..n : Within(b, free[k])
    BY <2>3 DEF InAny
  <2> QED
    BY <2>1, <2>2, <2>4
<1>12. t \in Seq(Proper)
  BY <1>3, <1>4, SplicedFacts
<1>13. Inserted(r) = t
  BY DEF Inserted, x
<1> QED
  BY <1>10, <1>11, <1>12, <1>13 DEF x

(* What is left of a range in order, without the bytes taken. *)
LEMMA PiecesFacts ==
  ASSUME NEW r \in Proper, NEW a \in Nat, NEW n \in Nat, n > 0,
         a % Granule = 0, n % Granule = 0, r.address <= a, a + n <= Beyond(r)
  PROVE  /\ Pieces(r, a, n) \in Seq(Proper)
         /\ \A m, o \in 1..Len(Pieces(r, a, n)) : m < o =>
              Follows(Pieces(r, a, n)[m], Pieces(r, a, n)[o], FALSE)
         /\ \A m \in 1..Len(Pieces(r, a, n)) :
              r.address <= Pieces(r, a, n)[m].address /\ Beyond(Pieces(r, a, n)[m]) <= Beyond(r)
         /\ \A b \in Nat : InAny(b, Pieces(r, a, n)) <=> Within(b, r) /\ ~(a <= b /\ b < a + n)
<1> DEFINE before == [address |-> r.address, size |-> a - r.address]
           after == [address |-> a + n, size |-> Beyond(r) - (a + n)]
           p == Pieces(r, a, n)
<1>1. /\ r.address \in Nat /\ r.size \in Nat /\ Beyond(r) \in Nat
      /\ r.address % Granule = 0 /\ r.size % Granule = 0
      /\ UserStart <= r.address /\ Beyond(r) <= UserEnd /\ EndOf(r) = Beyond(r)
      /\ UserStart \in Nat /\ UserEnd \in Nat /\ UserEnd < Space /\ Space \in Nat
      /\ Granule \in Nat \ {0}
  BY RangeFacts, MemoryAssumption
<1>2. a + n \in Nat /\ a + n < Space /\ Beyond(r) - (a + n) \in Nat /\ Beyond(r) - (a + n) < Space
      /\ a - r.address \in Nat
  BY <1>1
<1>3. (a + n) % Space = a + n
  BY <1>1, <1>2, NoWrap
<1>4. (Beyond(r) - (a + n)) % Space = Beyond(r) - (a + n)
  <2> DEFINE rest == Beyond(r) - (a + n)
  <2>1. rest \in Nat /\ rest < Space
    BY <1>2
  <2> HIDE DEF rest
  <2>2. rest % Space = rest
    BY <1>1, <2>1, NoWrap
  <2> QED
    BY <2>2 DEF rest
<1>5. p = NonEmpty(before) \o NonEmpty(after)
  BY <1>1, <1>3, <1>4 DEF Pieces
<1>6. (a + n) % Granule = 0
  BY <1>1, MultiplePlus
<1>7. Beyond(r) % Granule = 0
  BY <1>1, MultiplePlus DEF Beyond
<1>8. (a - r.address) % Granule = 0
  BY <1>1, MultipleMinus
<1>9. (Beyond(r) - (a + n)) % Granule = 0
  BY <1>1, <1>2, <1>6, <1>7, MultipleMinus
<1>10. before.size > 0 => before \in Proper
  <2> SUFFICES ASSUME a - r.address > 0 PROVE before \in Proper
    OBVIOUS
  <2>1. r.address + (a - r.address) <= UserEnd
    BY <1>1, <1>2
  <2> QED
    BY <2>1, <1>1, <1>2, <1>8, MakeRange
<1>11. after.size > 0 => after \in Proper
  <2> SUFFICES ASSUME Beyond(r) - (a + n) > 0 PROVE after \in Proper
    OBVIOUS
  <2>1. (a + n) + (Beyond(r) - (a + n)) <= UserEnd /\ UserStart <= a + n
    BY <1>1, <1>2
  <2> QED
    BY <2>1, <1>1, <1>2, <1>6, <1>9, MakeRange
<1>12. /\ before.address = r.address /\ before.size = a - r.address /\ Beyond(before) = a
       /\ after.address = a + n /\ after.size = Beyond(r) - (a + n) /\ Beyond(after) = Beyond(r)
  BY <1>1, <1>2 DEF Beyond
<1> HIDE DEF before, after, p
<1>13. CASE before.size = 0 /\ after.size = 0
  <2>1. p = << >>
    BY <1>5, <1>13 DEF NonEmpty
  <2>2. p \in Seq(Proper) /\ Len(p) = 0
    BY <2>1
  <2>3. ASSUME NEW b \in Nat PROVE InAny(b, p) <=> Within(b, r) /\ ~(a <= b /\ b < a + n)
    BY <2>2, <1>1, <1>2, <1>12, <1>13 DEF InAny, Within
  <2> QED
    BY <2>2, <2>3 DEF p
<1>14. CASE before.size = 0 /\ after.size # 0
  <2>0. after \in Proper
    BY <1>2, <1>11, <1>12, <1>14
  <2>1. p = <<after>>
    BY <1>5, <1>14 DEF NonEmpty
  <2>2. p \in Seq(Proper) /\ Len(p) = 1 /\ p[1] = after
    BY <2>0, <2>1
  <2>3. ASSUME NEW b \in Nat PROVE InAny(b, p) <=> Within(b, r) /\ ~(a <= b /\ b < a + n)
    <3>1. InAny(b, p) <=> Within(b, after)
      BY <2>2 DEF InAny
    <3> QED
      BY <3>1, <1>1, <1>2, <1>12, <1>14 DEF Within
  <2>4. r.address <= after.address /\ Beyond(after) <= Beyond(r)
    BY <1>1, <1>2, <1>12
  <2> QED
    BY <2>2, <2>3, <2>4 DEF p
<1>15. CASE before.size # 0 /\ after.size = 0
  <2>0. before \in Proper
    BY <1>2, <1>10, <1>12, <1>15
  <2>1. p = <<before>>
    BY <1>5, <1>15 DEF NonEmpty
  <2>2. p \in Seq(Proper) /\ Len(p) = 1 /\ p[1] = before
    BY <2>0, <2>1
  <2>3. ASSUME NEW b \in Nat PROVE InAny(b, p) <=> Within(b, r) /\ ~(a <= b /\ b < a + n)
    <3>1. InAny(b, p) <=> Within(b, before)
      BY <2>2 DEF InAny
    <3> QED
      BY <3>1, <1>1, <1>2, <1>12, <1>15 DEF Within
  <2>4. r.address <= before.address /\ Beyond(before) <= Beyond(r)
    BY <1>1, <1>2, <1>12
  <2> QED
    BY <2>2, <2>3, <2>4 DEF p
<1>16. CASE before.size # 0 /\ after.size # 0
  <2>0. before \in Proper /\ after \in Proper
    BY <1>2, <1>10, <1>11, <1>12, <1>16
  <2> DEFINE x == <<before>>
             y == <<after>>
  <2>1. p = x \o y
    BY <1>5, <1>16 DEF NonEmpty
  <2>2. p \in Seq(Proper) /\ Len(p) = 2 /\ p[1] = before /\ p[2] = after
    <3>1. /\ x \in Seq(Proper) /\ Len(x) = 1 /\ x[1] = before
          /\ y \in Seq(Proper) /\ Len(y) = 1 /\ y[1] = after
      BY <2>0
    <3> HIDE DEF x, y
    <3>2. x \in Seq(Proper) /\ y \in Seq(Proper)
      BY <3>1
    <3>3. /\ x \o y \in Seq(Proper) /\ Len(x \o y) = Len(x) + Len(y)
          /\ \A k \in 1..Len(x) : (x \o y)[k] = x[k]
          /\ \A k \in 1..Len(y) : (x \o y)[Len(x) + k] = y[k]
      BY <3>2, Together
    <3>4. /\ p \in Seq(Proper) /\ Len(p) = Len(x) + Len(y)
          /\ \A k \in 1..Len(x) : p[k] = x[k]
          /\ \A k \in 1..Len(y) : p[Len(x) + k] = y[k]
      BY <2>1, <3>3, Zenon
    <3> QED
      BY <3>1, <3>4
  <2>3. ASSUME NEW b \in Nat PROVE InAny(b, p) <=> Within(b, r) /\ ~(a <= b /\ b < a + n)
    <3>1. InAny(b, p) <=> Within(b, before) \/ Within(b, after)
      BY <2>2 DEF InAny
    <3> QED
      BY <3>1, <1>1, <1>2, <1>12 DEF Within
  <2>4. /\ r.address <= before.address /\ Beyond(before) <= Beyond(r)
        /\ r.address <= after.address /\ Beyond(after) <= Beyond(r)
        /\ Follows(before, after, FALSE)
    BY <1>1, <1>2, <1>12 DEF Follows
  <2>5. \A m, o \in 1..Len(p) : m < o => Follows(p[m], p[o], FALSE)
    <3> SUFFICES ASSUME NEW m \in 1..2, NEW o \in 1..2, m < o PROVE Follows(p[m], p[o], FALSE)
      BY <2>2
    <3>1. m = 1 /\ o = 2
      OBVIOUS
    <3> QED
      BY <3>1, <2>2, <2>4
  <2>6. \A m \in 1..Len(p) : r.address <= p[m].address /\ Beyond(p[m]) <= Beyond(r)
    BY <2>2, <2>4
  <2> QED
    BY <2>2, <2>3, <2>5, <2>6 DEF p
<1> QED
  BY <1>13, <1>14, <1>15, <1>16

(* Bytes of one free range are cut out, and of no other. *)
LEMMA CarvedFacts ==
  ASSUME free \in Seq(Proper), Ordered(free, {}), NEW h \in 1..Len(free),
         NEW a \in Nat, NEW n \in Nat, n > 0, a % Granule = 0, n % Granule = 0,
         free[h].address <= a, a + n <= Beyond(free[h])
  PROVE  /\ Carved(a, n) \in Seq(Proper) /\ Ordered(Carved(a, n), {})
         /\ \A b \in Nat : InAny(b, Carved(a, n)) <=> InAny(b, free) /\ ~(a <= b /\ b < a + n)
<1> DEFINE N == Len(free)
           H == {k \in DOMAIN free : Holds(free[k], a, n)}
           i == Min(H)
           r == free[i]
           p == Pieces(r, a, n)
           t == Spliced(free, i - 1, p, i + 1)
<1>1. N \in Nat /\ DOMAIN free = 1..N /\ \A k \in 1..N : free[k] \in Proper
  OBVIOUS
<1>2. ASSUME NEW k \in 1..N
      PROVE  /\ free[k].address \in Nat /\ Beyond(free[k]) \in Nat
             /\ Beyond(free[k]) > free[k].address /\ Beyond(free[k]) <= UserEnd
             /\ EndOf(free[k]) = Beyond(free[k])
  BY <1>1, RangeFacts
<1>3. (a + n) % Space = a + n
  <2>1. /\ Beyond(free[h]) \in Nat /\ Beyond(free[h]) <= UserEnd
        /\ UserEnd \in Nat /\ UserEnd < Space /\ Space \in Nat
    BY <1>2, MemoryAssumption
  <2>2. a + n \in Nat /\ a + n < Space
    BY <2>1
  <2> QED
    BY <2>1, <2>2, NoWrap
<1>4. ASSUME NEW k \in 1..N
      PROVE  k \in H <=> free[k].address <= a /\ a + n <= Beyond(free[k])
  BY <1>1, <1>2, <1>3 DEF Holds
<1>5. i \in H
  <2>1. h \in H /\ H \subseteq Nat
    BY <1>1, <1>4
  <2> HIDE DEF H
  <2>2. \E x \in H : \A y \in H : x <= y
    BY <2>1, HasLeast
  <2> QED
    BY <2>2 DEF Min
<1>6. i \in 1..N /\ r.address <= a /\ a + n <= Beyond(r) /\ r \in Proper
  <2>1. i \in 1..N
    BY <1>1, <1>5
  <2> HIDE DEF i
  <2> QED
    BY <2>1, <1>1, <1>4, <1>5
<1>7. Carved(a, n) = t
  <2>1. H # {}
    BY <1>5
  <2> QED
    BY <2>1 DEF Carved
<1> HIDE DEF i, H
<1>8. /\ p \in Seq(Proper)
      /\ \A m, o \in 1..Len(p) : m < o => Follows(p[m], p[o], FALSE)
      /\ \A m \in 1..Len(p) : r.address <= p[m].address /\ Beyond(p[m]) <= Beyond(r)
      /\ \A b \in Nat : InAny(b, p) <=> Within(b, r) /\ ~(a <= b /\ b < a + n)
  <2> HIDE DEF r
  <2> QED
    BY <1>6, PiecesFacts
<1>9. \A k, l \in 1..N : k < l => Follows(free[k], free[l], FALSE)
  BY DEF Ordered, Follows
<1>10. i - 1 \in Nat /\ i + 1 \in Nat /\ i - 1 < i + 1 /\ i + 1 <= N + 1
  BY <1>1, <1>6
<1>11. ASSUME NEW k \in 1..i - 1 PROVE k \in 1..N /\ k < i /\ Follows(free[k], r, FALSE)
  <2>1. k \in 1..N /\ k < i
    BY <1>1, <1>6
  <2> QED
    BY <2>1, <1>6, <1>9
<1>12. ASSUME NEW k \in i + 1..N PROVE k \in 1..N /\ i < k /\ Follows(r, free[k], FALSE)
  <2>1. k \in 1..N /\ i < k
    BY <1>1, <1>6
  <2> QED
    BY <2>1, <1>6, <1>9
<1>13. r.address \in Nat /\ Beyond(r) \in Nat
  BY <1>2, <1>6
<1>14. ASSUME NEW m \in 1..Len(p) PROVE p[m].address \in Nat /\ Beyond(p[m]) \in Nat
  <2>1. p[m] \in Proper
    BY <1>8
  <2> QED
    BY <2>1, RangeFacts
<1>15. t \in Seq(Proper)
  BY <1>8, <1>10, SplicedFacts
<1> HIDE DEF p, r
<1>16. Ordered(t, {})
  <2> DEFINE D == {}
  <2>1. \A k, l \in 1..i - 1 : k < l => Follows(free[k], free[l], l = k + 1 /\ k \in D)
    BY <1>9, <1>11 DEF Follows
  <2>2. \A k \in 1..i - 1 : \A m \in 1..Len(p) :
          Follows(free[k], p[m], k = i - 1 /\ m = 1 /\ i - 1 \in D)
    <3> SUFFICES ASSUME NEW k \in 1..i - 1, NEW m \in 1..Len(p)
                 PROVE  Follows(free[k], p[m], FALSE)
      BY DEF Follows
    <3>1. Follows(free[k], r, FALSE) /\ Beyond(free[k]) \in Nat
      BY <1>2, <1>11
    <3>2. r.address <= p[m].address /\ p[m].address \in Nat
      BY <1>8, <1>14
    <3> QED
      BY <3>1, <3>2, <1>13 DEF Follows
  <2>3. \A k \in 1..i - 1 : \A l \in i + 1..Len(free) : Follows(free[k], free[l], FALSE)
    <3> SUFFICES ASSUME NEW k \in 1..i - 1, NEW l \in i + 1..N
                 PROVE  Follows(free[k], free[l], FALSE)
      OBVIOUS
    <3>1. k \in 1..N /\ l \in 1..N /\ k < l
      BY <1>11, <1>12, <1>10
    <3> QED
      BY <3>1, <1>9
  <2>4. \A m \in 1..Len(p) : \A l \in i + 1..Len(free) :
          Follows(p[m], free[l], m = Len(p) /\ l = i + 1 /\ i - 1 + Len(p) \in D)
    <3> SUFFICES ASSUME NEW m \in 1..Len(p), NEW l \in i + 1..N
                 PROVE  Follows(p[m], free[l], FALSE)
      BY DEF Follows
    <3>1. Follows(r, free[l], FALSE) /\ free[l].address \in Nat
      BY <1>2, <1>12
    <3>2. Beyond(p[m]) <= Beyond(r) /\ Beyond(p[m]) \in Nat
      BY <1>8, <1>14
    <3> QED
      BY <3>1, <3>2, <1>13 DEF Follows
  <2>5. \A k, l \in i + 1..Len(free) : k < l => Follows(free[k], free[l], FALSE)
    BY <1>9, <1>12
  <2>6. \A m, o \in 1..Len(p) : m < o => Follows(p[m], p[o], FALSE)
    BY <1>8
  <2>7. p \in Seq(Proper) /\ i + 1 <= Len(free) + 1
    BY <1>8, <1>10
  <2> HIDE DEF D
  <2>8. Ordered(t, D)
    BY <1>10, <2>1, <2>2, <2>3, <2>4, <2>5, <2>6, <2>7, SplicedOrdered
  <2> QED
    BY <2>8 DEF D
<1>17. ASSUME NEW b \in Nat PROVE InAny(b, t) <=> InAny(b, free) /\ ~(a <= b /\ b < a + n)
  <2>1. InAny(b, t) <=> \/ \E k \in 1..i - 1 : Within(b, free[k])
                        \/ InAny(b, p)
                        \/ \E k \in i + 1..Len(free) : Within(b, free[k])
    BY <1>8, <1>10, SplicedBytes
  <2>2. \A k \in 1..N : k \in 1..i - 1 \/ k = i \/ k \in i + 1..N
    BY <1>1, <1>10, <1>6
  <2>3. InAny(b, free) <=> \/ \E k \in 1..i - 1 : Within(b, free[k])
                           \/ Within(b, r)
                           \/ \E k \in i + 1..N : Within(b, free[k])
    BY <2>2, <1>6, <1>11, <1>12 DEF InAny, r
  <2>4. ASSUME NEW k \in 1..i - 1, Within(b, free[k]) PROVE ~(a <= b /\ b < a + n)
    <3>1. Follows(free[k], r, FALSE) /\ Beyond(free[k]) \in Nat
      BY <1>2, <1>11
    <3> QED
      BY <3>1, <2>4, <1>6, <1>13 DEF Follows, Within
  <2>5. ASSUME NEW k \in i + 1..N, Within(b, free[k]) PROVE ~(a <= b /\ b < a + n)
    <3>1. Follows(r, free[k], FALSE) /\ free[k].address \in Nat
      BY <1>2, <1>12
    <3> QED
      BY <3>1, <2>5, <1>6, <1>13 DEF Follows, Within
  <2>6. InAny(b, p) <=> Within(b, r) /\ ~(a <= b /\ b < a + n)
    BY <1>8
  <2> HIDE DEF t, N
  <2> QED
    BY <2>1, <2>3, <2>4, <2>5, <2>6 DEF N
<1> QED
  BY <1>7, <1>15, <1>16, <1>17

-----------------------------------------------------------------------------
(* The free ranges are in order with allocated bytes between them.          *)
FreeApart == free \in Seq(Proper) /\ Ordered(free, {})

(* Blocks share no byte with a free range or with each other ... *)
BlocksApart ==
  /\ \A b \in Nat : \A uid \in DOMAIN blocks : Within(b, blocks[uid]) => ~InAny(b, free)
  /\ \A b \in Nat : \A u, v \in DOMAIN blocks :
       Within(b, blocks[u]) /\ Within(b, blocks[v]) => u = v

(* ... and no byte of the partition is lost. *)
NoByteLost ==
  \A b \in UserStart..UserEnd - 1 :
    InAny(b, free) \/ \E uid \in DOMAIN blocks : Within(b, blocks[uid])

MemoryInv ==
  /\ FreeApart
  /\ DOMAIN blocks \subseteq Uids /\ \A uid \in DOMAIN blocks : blocks[uid] \in Proper
  /\ BlocksApart
  /\ NoByteLost

(* At first one free range is the partition. *)
LEMMA MemoryInitInv == MemoryInit => MemoryInv
<1> SUFFICES ASSUME MemoryInit PROVE MemoryInv
  OBVIOUS
<1> DEFINE r == [address |-> UserStart, size |-> UserEnd - UserStart]
<1>1. /\ UserStart \in Nat /\ UserEnd \in Nat /\ UserEnd - UserStart \in Nat
      /\ UserEnd - UserStart > 0 /\ UserStart + (UserEnd - UserStart) = UserEnd
      /\ UserStart % Granule = 0 /\ UserEnd % Granule = 0 /\ Granule \in Nat \ {0}
      /\ UserStart <= UserEnd
  BY MemoryAssumption
<1>2. (UserEnd - UserStart) % Granule = 0
  BY <1>1, MultipleMinus
<1>3. r \in Proper
  BY <1>1, <1>2, MakeRange
<1>4. r.address = UserStart /\ Beyond(r) = UserEnd
  BY <1>1 DEF Beyond
<1> HIDE DEF r
<1>5. free \in Seq(Proper) /\ Len(free) = 1 /\ free[1] = r
  <2>1. free = <<r>>
    BY DEF MemoryInit, r
  <2> QED
    BY <1>3, <2>1
<1>6. blocks = << >> /\ DOMAIN blocks = {}
  BY DEF MemoryInit
<1>7. FreeApart
  BY <1>5 DEF FreeApart, Ordered
<1>8. NoByteLost
  <2> SUFFICES ASSUME NEW b \in UserStart..UserEnd - 1 PROVE InAny(b, free)
    BY DEF NoByteLost
  <2>1. Within(b, r)
    BY <1>1, <1>4 DEF Within
  <2> QED
    BY <2>1, <1>5 DEF InAny
<1> QED
  BY <1>6, <1>7, <1>8 DEF MemoryInv, BlocksApart

(* A block taken from one free range. *)
LEMMA PlaceKeeps ==
  ASSUME MemoryInv, NEW uid \in Uids \ DOMAIN blocks, NEW h \in 1..Len(free),
         NEW a \in Nat, NEW n \in Nat, n > 0, a % Granule = 0, n % Granule = 0,
         free[h].address <= a, a + n <= Beyond(free[h]), Place(uid, a, n)
  PROVE  MemoryInv'
<1> DEFINE r == [address |-> a, size |-> n]
<1>1. free \in Seq(Proper) /\ Ordered(free, {})
  BY DEF MemoryInv, FreeApart
<1>2. /\ Carved(a, n) \in Seq(Proper) /\ Ordered(Carved(a, n), {})
      /\ \A b \in Nat : InAny(b, Carved(a, n)) <=> InAny(b, free) /\ ~(a <= b /\ b < a + n)
  BY <1>1, CarvedFacts
<1>3. free[h] \in Proper
  BY <1>1
<1>4. r \in Proper
  <2>1. /\ free[h].address \in Nat /\ UserStart <= free[h].address
        /\ Beyond(free[h]) \in Nat /\ Beyond(free[h]) <= UserEnd
        /\ UserStart \in Nat /\ UserEnd \in Nat
    BY <1>3, RangeFacts, MemoryAssumption
  <2>2. UserStart <= a /\ a + n <= UserEnd
    BY <2>1
  <2> QED
    BY <2>2, MakeRange
<1>5. \A b \in Nat : Within(b, r) <=> a <= b /\ b < a + n
  BY DEF Within, Beyond
<1>6. \A b \in Nat : Within(b, r) => Within(b, free[h])
  <2>1. free[h].address \in Nat /\ Beyond(free[h]) \in Nat
    BY <1>3, RangeFacts
  <2> QED
    BY <2>1, <1>5 DEF Within
<1> HIDE DEF r
<1>7. \A b \in Nat : InAny(b, free') <=> InAny(b, free) /\ ~Within(b, r)
  BY <1>2, <1>5 DEF Place
<1>8. \A b \in Nat : Within(b, r) => InAny(b, free)
  BY <1>6 DEF InAny
<1>9. /\ DOMAIN blocks' = DOMAIN blocks \cup {uid}
      /\ blocks'[uid] = r /\ \A u \in DOMAIN blocks : blocks'[u] = blocks[u]
  BY DEF Place, r
<1>10. FreeApart'
  BY <1>2 DEF FreeApart, Place
<1>11. /\ DOMAIN blocks \subseteq Uids /\ \A u \in DOMAIN blocks : blocks[u] \in Proper
       /\ BlocksApart /\ NoByteLost
  BY DEF MemoryInv
<1>12. DOMAIN blocks' \subseteq Uids /\ \A u \in DOMAIN blocks' : blocks'[u] \in Proper
  BY <1>4, <1>9, <1>11
<1>13. BlocksApart'
  <2>1. ASSUME NEW b \in Nat, NEW u \in DOMAIN blocks', Within(b, blocks'[u])
        PROVE  ~InAny(b, free')
    BY <2>1, <1>7, <1>9, <1>11 DEF BlocksApart
  <2>2. ASSUME NEW b \in Nat, NEW u \in DOMAIN blocks', NEW v \in DOMAIN blocks',
               Within(b, blocks'[u]), Within(b, blocks'[v])
        PROVE  u = v
    <3>1. ASSUME NEW w \in DOMAIN blocks, Within(b, blocks[w]) PROVE ~Within(b, r)
      BY <3>1, <1>8, <1>11 DEF BlocksApart
    <3> QED
      BY <2>2, <3>1, <1>9, <1>11 DEF BlocksApart
  <2> QED
    BY <2>1, <2>2 DEF BlocksApart
<1>14. NoByteLost'
  <2> SUFFICES ASSUME NEW b \in UserStart..UserEnd - 1
               PROVE  InAny(b, free') \/ \E u \in DOMAIN blocks' : Within(b, blocks'[u])
    BY DEF NoByteLost
  <2>1. b \in Nat
    BY MemoryAssumption
  <2>2. InAny(b, free) \/ \E u \in DOMAIN blocks : Within(b, blocks[u])
    BY <1>11 DEF NoByteLost
  <2> QED
    BY <2>1, <2>2, <1>7, <1>9
<1> QED
  BY <1>10, <1>12, <1>13, <1>14 DEF MemoryInv

(* A block given back. *)
LEMMA FreeBlockKeeps ==
  ASSUME MemoryInv, NEW uid \in DOMAIN blocks, FreeBlock(uid)
  PROVE  MemoryInv'
<1> DEFINE r == blocks[uid]
           i == Position(r)
           s == Inserted(r)
           t == Joined(s, i)
           z == Joined(t, i - 1)
<1>1. /\ free \in Seq(Proper) /\ Ordered(free, {}) /\ r \in Proper
      /\ DOMAIN blocks \subseteq Uids /\ \A u \in DOMAIN blocks : blocks[u] \in Proper
      /\ BlocksApart /\ NoByteLost
  BY DEF MemoryInv, FreeApart
<1>2. \A b \in Nat : Within(b, r) => ~InAny(b, free)
  BY <1>1 DEF BlocksApart
<1>3. free' = z /\ blocks' = [u \in DOMAIN blocks \ {uid} |-> blocks[u]]
  BY DEF FreeBlock
<1> HIDE DEF r
<1>4. i \in 1..Len(free) + 1
  BY <1>1, PositionFacts
<1>5. /\ s \in Seq(Proper) /\ Ordered(s, {i, i - 1})
      /\ \A b \in Nat : InAny(b, s) <=> InAny(b, free) \/ Within(b, r)
  BY <1>1, <1>2, InsertedFacts
<1> HIDE DEF i, s
<1>6. i \in Nat /\ i - 1 \in Nat /\ {i - 1} \subseteq 0..i - 1
  BY <1>4
<1>7. {i} \cup {i - 1} = {i, i - 1} /\ {i - 1} \cup {} = {i - 1} /\ {} \subseteq 0..i - 1 - 1
  OBVIOUS
<1>8. Ordered(s, {i} \cup {i - 1})
  BY <1>5, <1>7
<1>9. /\ t \in Seq(Proper) /\ Ordered(t, {i - 1})
      /\ \A b \in Nat : InAny(b, t) <=> InAny(b, s)
  BY <1>5, <1>6, <1>8, JoinedFacts
<1> HIDE DEF t
<1>10. Ordered(t, {i - 1} \cup {})
  BY <1>7, <1>9
<1>11. /\ z \in Seq(Proper) /\ Ordered(z, {})
       /\ \A b \in Nat : InAny(b, z) <=> InAny(b, t)
  BY <1>6, <1>7, <1>9, <1>10, JoinedFacts
<1> HIDE DEF z
<1>12. \A b \in Nat : InAny(b, free') <=> InAny(b, free) \/ Within(b, r)
  BY <1>3, <1>5, <1>9, <1>11
<1>13. /\ DOMAIN blocks' = DOMAIN blocks \ {uid}
       /\ \A u \in DOMAIN blocks' : u \in DOMAIN blocks /\ u # uid /\ blocks'[u] = blocks[u]
  BY <1>3
<1>14. FreeApart'
  BY <1>3, <1>11 DEF FreeApart
<1>15. DOMAIN blocks' \subseteq Uids /\ \A u \in DOMAIN blocks' : blocks'[u] \in Proper
  BY <1>1, <1>13
<1>16. BlocksApart'
  <2>1. ASSUME NEW b \in Nat, NEW u \in DOMAIN blocks', Within(b, blocks'[u])
        PROVE  ~InAny(b, free')
    <3>1. u \in DOMAIN blocks /\ u # uid /\ Within(b, blocks[u])
      BY <2>1, <1>13
    <3>2. ~InAny(b, free) /\ ~Within(b, r)
      BY <3>1, <1>1 DEF BlocksApart, r
    <3> QED
      BY <3>2, <1>12
  <2>2. ASSUME NEW b \in Nat, NEW u \in DOMAIN blocks', NEW v \in DOMAIN blocks',
               Within(b, blocks'[u]), Within(b, blocks'[v])
        PROVE  u = v
    BY <2>2, <1>1, <1>13 DEF BlocksApart
  <2> QED
    BY <2>1, <2>2 DEF BlocksApart
<1>17. NoByteLost'
  <2> SUFFICES ASSUME NEW b \in UserStart..UserEnd - 1
               PROVE  InAny(b, free') \/ \E u \in DOMAIN blocks' : Within(b, blocks'[u])
    BY DEF NoByteLost
  <2>1. b \in Nat
    BY MemoryAssumption
  <2>2. InAny(b, free) \/ \E u \in DOMAIN blocks : Within(b, blocks[u])
    BY <1>1 DEF NoByteLost
  <2> QED
    BY <2>1, <2>2, <1>12, <1>13 DEF r
<1> QED
  BY <1>14, <1>15, <1>16, <1>17 DEF MemoryInv

-----------------------------------------------------------------------------
(* Rounding up, where no sum wraps. *)
LEMMA AlignUpFacts ==
  ASSUME NEW v \in Nat, NEW a \in Nat \ {0}, a % Granule = 0, v + a <= Space
  PROVE  /\ AlignUp(v, a) \in Nat /\ AlignUp(v, a) % Granule = 0
         /\ v <= AlignUp(v, a) /\ AlignUp(v, a) < v + a
<1> DEFINE top == v + a - 1
<1>1. top \in Nat /\ top < Space /\ Space \in Nat /\ Granule \in Nat \ {0}
  BY MemoryAssumption
<1>2. top % Space = top
  <2> HIDE DEF top
  <2> QED
    BY <1>1, NoWrap
<1>3. AlignUp(v, a) = top - (top % a)
  BY <1>2 DEF AlignUp
<1>4. /\ top - (top % a) \in Nat /\ top - (top % a) <= top /\ top - (top % a) > top - a
      /\ (top - (top % a)) % Granule = 0
  <2> HIDE DEF top
  <2> QED
    BY <1>1, RoundedDown
<1> QED
  BY <1>3, <1>4

(* The bytes of a request. *)
LEMMA RequestFacts ==
  ASSUME RequestsFit, NEW size \in Sizes, size + Granule <= Space
  PROVE  /\ AlignUp(size, Granule) \in Nat /\ AlignUp(size, Granule) % Granule = 0
         /\ AlignUp(size, Granule) > 0 /\ AlignUp(size, Granule) < size + Granule
<1>1. size \in Nat /\ size > 0 /\ Granule \in Nat \ {0}
  BY MemoryAssumption
<1>2. Granule % Granule = 0
  <2>1. Granule * 1 = Granule
    BY <1>1
  <2> QED
    BY <2>1, <1>1, MultipleOf
<1> QED
  BY <1>1, <1>2, AlignUpFacts

(* The bytes that an allocation found room for lie in one free range. *)
Room(r, s, n) ==
  /\ s \in Nat /\ s % Granule = 0 /\ n \in Nat /\ n % Granule = 0 /\ n > 0
  /\ r.address <= s /\ s + n <= Beyond(r)

(* The low types ... *)
LEMMA LowFacts ==
  ASSUME RequestsFit, NEW size \in Sizes, NEW a \in Alignments, NEW r \in Proper,
         NEW s \in LowStart(r, AlignUp(size, Granule), a)
  PROVE  Room(r, s, AlignUp(size, Granule))
<1> DEFINE n == AlignUp(size, Granule)
<1>1. /\ size \in Nat /\ a \in Nat \ {0} /\ a % Granule = 0 /\ Granule \in Nat \ {0}
      /\ Space \in Nat /\ UserEnd \in Nat /\ UserEnd + a + size + Granule <= Space
  BY MemoryAssumption DEF RequestsFit
<1>2. n \in Nat /\ n % Granule = 0 /\ n > 0 /\ n < size + Granule
  BY <1>1, RequestFacts
<1>3. /\ r.address \in Nat /\ Beyond(r) \in Nat /\ Beyond(r) <= UserEnd
      /\ r.address < Beyond(r) /\ EndOf(r) = Beyond(r)
  BY RangeFacts
<1>4. s = AlignUp(r.address, a) /\ (s + n) % Space <= Beyond(r)
  BY <1>3 DEF LowStart
<1>5. s \in Nat /\ s % Granule = 0 /\ r.address <= s /\ s < r.address + a
  <2>1. r.address + a <= Space
    BY <1>1, <1>3
  <2> QED
    BY <2>1, <1>1, <1>3, <1>4, AlignUpFacts
<1> HIDE DEF n
<1>6. s + n \in Nat /\ s + n < Space
  BY <1>1, <1>2, <1>3, <1>5
<1>7. (s + n) % Space = s + n
  BY <1>1, <1>6, NoWrap
<1>8. Room(r, s, n)
  BY <1>2, <1>4, <1>5, <1>7 DEF Room
<1> QED
  BY <1>8 DEF n

(* ... the high ones ... *)
LEMMA HighFacts ==
  ASSUME RequestsFit, NEW size \in Sizes, NEW a \in Alignments, NEW r \in Proper,
         NEW s \in HighStart(r, AlignUp(size, Granule), a)
  PROVE  Room(r, s, AlignUp(size, Granule))
<1> DEFINE n == AlignUp(size, Granule)
           low == Beyond(r) - n
<1>1. /\ size \in Nat /\ a \in Nat \ {0} /\ a % Granule = 0 /\ Granule \in Nat \ {0}
      /\ Space \in Nat /\ UserEnd \in Nat /\ UserEnd + a + size + Granule <= Space
  BY MemoryAssumption DEF RequestsFit
<1>2. n \in Nat /\ n % Granule = 0 /\ n > 0
  BY <1>1, RequestFacts
<1>3. r.address \in Nat /\ Beyond(r) \in Nat
  BY RangeFacts
<1>4. s = low - (low % a) /\ Beyond(r) >= n /\ s >= r.address
  BY DEF HighStart, Beyond
<1> HIDE DEF n
<1>5. low \in Nat /\ low + n = Beyond(r)
  BY <1>2, <1>3, <1>4
<1> HIDE DEF low
<1>6. s \in Nat /\ s <= low /\ s % Granule = 0
  BY <1>1, <1>4, <1>5, RoundedDown
<1>7. Room(r, s, n)
  BY <1>2, <1>3, <1>4, <1>5, <1>6 DEF Room
<1> QED
  BY <1>7 DEF n

(* ... and the one with its address given. *)
LEMMA FixedFacts ==
  ASSUME RequestsFit, NEW size \in Sizes, NEW at \in Addresses, NEW r \in Proper,
         NEW s \in FixedStart(r, AlignUp(size, Granule), at)
  PROVE  Room(r, s, AlignUp(size, Granule))
<1> DEFINE n == AlignUp(size, Granule)
<1>1. /\ size \in Nat /\ at \in Nat /\ Granule \in Nat \ {0}
      /\ Space \in Nat /\ at + size + Granule <= Space
  BY MemoryAssumption DEF RequestsFit
<1>2. n \in Nat /\ n % Granule = 0 /\ n > 0 /\ n < size + Granule
  BY <1>1, RequestFacts
<1>3. r.address \in Nat /\ Beyond(r) \in Nat /\ EndOf(r) = Beyond(r)
  BY RangeFacts
<1>4. s = at - (at % Granule) /\ (s + n) % Space <= Beyond(r) /\ s >= r.address
  BY <1>3 DEF FixedStart
<1>5. Granule % Granule = 0
  <2>1. Granule * 1 = Granule
    BY <1>1
  <2> QED
    BY <2>1, <1>1, MultipleOf
<1>6. s \in Nat /\ s <= at /\ s % Granule = 0
  BY <1>1, <1>4, <1>5, RoundedDown
<1> HIDE DEF n
<1>7. s + n \in Nat /\ s + n < Space
  BY <1>1, <1>2, <1>6
<1>8. (s + n) % Space = s + n
  BY <1>1, <1>7, NoWrap
<1>9. Room(r, s, n)
  BY <1>2, <1>3, <1>4, <1>6, <1>8 DEF Room
<1> QED
  BY <1>9 DEF n

(* A range with room is cut, a request without room changes nothing. *)
LEMMA MemoryNextInv ==
  ASSUME RequestsFit, MemoryInv, [MemoryNext]_memoryVars
  PROVE  MemoryInv'
<1>1. /\ DOMAIN free = 1..Len(free) /\ \A h \in 1..Len(free) : free[h] \in Proper
  BY DEF MemoryInv, FreeApart
<1>2. ASSUME NEW uid \in Uids \ DOMAIN blocks, NEW h \in 1..Len(free), NEW s, NEW n,
             Room(free[h], s, n), Place(uid, s, n)
      PROVE  MemoryInv'
  BY <1>2, PlaceKeeps DEF Room
<1>3. ASSUME NEW uid \in Uids \ DOMAIN blocks, NEW size \in Sizes, NEW a \in Alignments,
             AllocateLow(uid, size, a)
      PROVE  MemoryInv'
  <2>1. PICK h \in 1..Len(free) : \E s \in LowStart(free[h], AlignUp(size, Granule), a) :
          Place(uid, s, AlignUp(size, Granule))
    BY <1>1, <1>3 DEF AllocateLow
  <2> QED
    BY <2>1, <1>1, <1>2, LowFacts
<1>4. ASSUME NEW uid \in Uids \ DOMAIN blocks, NEW size \in Sizes, NEW a \in Alignments,
             AllocateHigh(uid, size, a)
      PROVE  MemoryInv'
  <2>1. PICK h \in 1..Len(free) : \E s \in HighStart(free[h], AlignUp(size, Granule), a) :
          Place(uid, s, AlignUp(size, Granule))
    BY <1>1, <1>4 DEF AllocateHigh
  <2> QED
    BY <2>1, <1>1, <1>2, HighFacts
<1>5. ASSUME NEW uid \in Uids \ DOMAIN blocks, NEW size \in Sizes, NEW at \in Addresses,
             AllocateAt(uid, size, at)
      PROVE  MemoryInv'
  <2>1. PICK h \in 1..Len(free) : \E s \in FixedStart(free[h], AlignUp(size, Granule), at) :
          Place(uid, s, AlignUp(size, Granule))
    BY <1>1, <1>5 DEF AllocateAt
  <2> QED
    BY <2>1, <1>1, <1>2, FixedFacts
<1>6. ASSUME NEW uid \in DOMAIN blocks, FreeBlock(uid)
      PROVE  MemoryInv'
  BY <1>6, FreeBlockKeeps
<1>7. CASE UNCHANGED memoryVars
  BY <1>7 DEF memoryVars, MemoryInv, FreeApart, BlocksApart, NoByteLost, InAny
<1> QED
  BY <1>3, <1>4, <1>5, <1>6, <1>7 DEF MemoryNext

(* The blocks and free ranges tile the partition. *)
LEMMA MemoryInvTiles == MemoryInv => ExactTiling
<1> SUFFICES ASSUME MemoryInv PROVE ExactTiling
  OBVIOUS
<1>1. /\ free \in Seq(Proper) /\ Ordered(free, {}) /\ DOMAIN blocks \subseteq Uids
      /\ \A uid \in DOMAIN blocks : blocks[uid] \in Proper
      /\ BlocksApart /\ NoByteLost
  BY DEF MemoryInv, FreeApart
<1>2. DOMAIN free = 1..Len(free) /\ Len(free) \in Nat /\ \A k \in 1..Len(free) : free[k] \in Proper
  BY <1>1
<1>3. MemoryTypeOK
  <2>1. Proper \subseteq Ranges
    BY DEF Proper
  <2>2. free \in Seq(Ranges)
    BY <2>1, <1>1
  <2> QED
    BY <2>1, <2>2, <1>1 DEF MemoryTypeOK
<1>4. FreeCoalesced
  <2> SUFFICES ASSUME NEW i \in 1..Len(free) - 1
               PROVE  free[i].address + free[i].size < free[i + 1].address
    BY DEF FreeCoalesced
  <2>1. i \in 1..Len(free) /\ i + 1 \in 1..Len(free) /\ i < i + 1
    BY <1>2
  <2>2. Follows(free[i], free[i + 1], FALSE)
    BY <2>1, <1>1 DEF Ordered, Follows
  <2>3. Beyond(free[i]) \in Nat /\ free[i + 1].address \in Nat
    BY <2>1, <1>2, RangeFacts
  <2> QED
    BY <2>2, <2>3 DEF Follows, Beyond
<1>5. EveryByteOnce
  <2> SUFFICES ASSUME NEW b \in 0..Space - 1
               PROVE  Cardinality({i \in DOMAIN free : b \in Bytes(free[i])})
                        + Cardinality({uid \in DOMAIN blocks : b \in Bytes(blocks[uid])})
                      = IF b \in UserStart..UserEnd - 1 THEN 1 ELSE 0
    BY DEF EveryByteOnce
  <2> DEFINE F == {i \in DOMAIN free : b \in Bytes(free[i])}
             B == {uid \in DOMAIN blocks : b \in Bytes(blocks[uid])}
  <2>1. b \in Nat /\ UserStart \in Nat /\ UserEnd \in Nat
    BY MemoryAssumption
  <2>2. ASSUME NEW r \in Proper
        PROVE  /\ b \in Bytes(r) <=> Within(b, r)
               /\ Within(b, r) => b \in UserStart..UserEnd - 1
    <3>1. /\ r.address \in Nat /\ r.size \in Nat /\ Beyond(r) \in Nat
          /\ UserStart <= r.address /\ Beyond(r) <= UserEnd
      BY RangeFacts
    <3> QED
      BY <3>1, <2>1 DEF Bytes, Within, Beyond
  <2>3. F = {i \in 1..Len(free) : Within(b, free[i])}
    BY <2>2, <1>2
  <2>4. B = {uid \in DOMAIN blocks : Within(b, blocks[uid])}
    BY <2>2, <1>1
  <2>5. ASSUME NEW k \in 1..Len(free), NEW l \in 1..Len(free),
               Within(b, free[k]), Within(b, free[l])
        PROVE  ~(k < l)
    <3> SUFFICES ASSUME k < l PROVE FALSE
      OBVIOUS
    <3>1. Beyond(free[k]) <= free[l].address
      BY <1>1 DEF Ordered, Follows
    <3>2. Beyond(free[k]) \in Nat /\ free[l].address \in Nat
      BY <1>2, RangeFacts
    <3> QED
      BY <3>1, <3>2, <2>1, <2>5 DEF Within
  <2>6. Cardinality({}) = 0
    BY FS_EmptySet
  <2>7. CASE InAny(b, free)
    <3>1. PICK k \in 1..Len(free) : Within(b, free[k])
      BY <2>7 DEF InAny
    <3>2. \A l \in 1..Len(free) : Within(b, free[l]) => l = k
      BY <3>1, <2>5, <1>2
    <3>3. F = {k}
      BY <3>1, <3>2, <2>3
    <3>4. B = {}
      BY <2>1, <2>4, <2>7, <1>1 DEF BlocksApart
    <3>5. b \in UserStart..UserEnd - 1
      BY <3>1, <2>2, <1>2
    <3>6. Cardinality({k}) = 1
      BY FS_Singleton
    <3> HIDE DEF F, B
    <3>7. Cardinality(F) + Cardinality(B) = 1
      BY <3>3, <3>4, <3>6, <2>6
    <3> QED
      BY <3>5, <3>7 DEF F, B
  <2>8. CASE ~InAny(b, free) /\ \E uid \in DOMAIN blocks : Within(b, blocks[uid])
    <3>1. PICK uid \in DOMAIN blocks : Within(b, blocks[uid])
      BY <2>8
    <3>2. \A u \in DOMAIN blocks : Within(b, blocks[u]) => u = uid
      BY <3>1, <2>1, <1>1 DEF BlocksApart
    <3>3. B = {uid}
      BY <3>1, <3>2, <2>4
    <3>4. F = {}
      BY <2>3, <2>8 DEF InAny
    <3>5. b \in UserStart..UserEnd - 1
      BY <3>1, <2>2, <1>1
    <3>6. Cardinality({uid}) = 1
      BY FS_Singleton
    <3> HIDE DEF F, B
    <3>7. Cardinality(F) + Cardinality(B) = 1
      BY <3>3, <3>4, <3>6, <2>6
    <3> QED
      BY <3>5, <3>7 DEF F, B
  <2>9. CASE ~InAny(b, free) /\ ~\E uid \in DOMAIN blocks : Within(b, blocks[uid])
    <3>1. F = {} /\ B = {}
      BY <2>3, <2>4, <2>9 DEF InAny
    <3>2. b \notin UserStart..UserEnd - 1
      BY <2>9, <1>1 DEF NoByteLost
    <3> HIDE DEF F, B
    <3>3. Cardinality(F) + Cardinality(B) = 0
      BY <3>1, <2>6
    <3> QED
      BY <3>2, <3>3 DEF F, B
  <2> QED
    BY <2>7, <2>8, <2>9
<1> QED
  BY <1>3, <1>4, <1>5 DEF ExactTiling

(* If no request wraps, the partition stays tiled: every byte is in one     *)
(* block or one free range, and the free ranges are joined and in order,    *)
(* whatever is allocated and freed (allocate_block and free_block).         *)
THEOREM NoByteIsLost == RequestsFit => (MemorySpec => []ExactTiling)
<1> SUFFICES ASSUME RequestsFit PROVE MemorySpec => []ExactTiling
  OBVIOUS
<1>1. MemoryInit => MemoryInv
  BY MemoryInitInv
<1>2. MemoryInv /\ [MemoryNext]_memoryVars => MemoryInv'
  BY MemoryNextInv
<1>3. MemoryInv => ExactTiling
  BY MemoryInvTiles
<1> QED
  BY <1>1, <1>2, <1>3, PTL DEF MemorySpec
=============================================================================
