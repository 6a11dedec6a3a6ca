--------------------------- MODULE Frames_proofs ---------------------------
(****************************************************************************)
(* Frames, for any textures, framebuffers and cache limits: no fence is     *)
(* forgotten, nothing the GPU may still read is destroyed, no interpolated  *)
(* frame is written over what is still read, and the pictures that go back  *)
(* to guest memory go there finished and in order.                          *)
(****************************************************************************)
EXTENDS Frames, SequenceTheorems, FiniteSetTheorems, WellFoundedInduction, TLAPS

PresentFences == {PresentFence(p) : p \in PresentSlots}
AnyRegion == Regions \cup {NoRegion}
Entries ==
  [fence : Fences, textures : SUBSET Textures, reads : SUBSET AnyRegion, noted : SUBSET AnyRegion]
Records ==
  [recorded : BOOLEAN, textures : SUBSET Textures, regions : SUBSET AnyRegion,
   since : SUBSET Textures, gone : BOOLEAN]
FrameRecords == [interpolating : BOOLEAN, region : AnyRegion, drawn : SUBSET Textures]

TypesFit ==
  /\ queue \in Seq(Entries)
  /\ slot \in Slots /\ frame \in FrameRecords /\ (recording => frame.region \in Regions)
  /\ flipping \in BOOLEAN /\ cycle \in BOOLEAN
  /\ cached \subseteq Textures /\ IsFiniteSet(cached) /\ Cardinality(cached) <= CacheLimit
  /\ retired \in [Slots -> SUBSET Textures]
  /\ nextRegion \in Regions /\ presentSlot \in PresentSlots
  /\ current \in Records /\ newer \in Records /\ older \in Records

(* The fence of the frame being recorded. *)
OwnFence == IF recording THEN {FrameFence(slot)} ELSE {}

FencesFit ==
  /\ unsignalled = PendingFences(queue) \cup OwnFence
  /\ OwnFence \cap PendingFences(queue) = {}

-----------------------------------------------------------------------------
(* Waits. *)

SuffixOf(w, q) ==
  /\ w \in Seq(Entries)
  /\ \E n \in 0..Len(q) : Len(w) = Len(q) - n /\ \A i \in 1..Len(w) : w[i] = q[n + i]

(* A set of numbers up to n that is not empty has a greatest element: the   *)
(* least of its bounds.                                                     *)
LEMMA GreatestExists ==
  ASSUME NEW n \in Nat, NEW S, S \subseteq 1..n, S # {}
  PROVE  \E i \in S : \A j \in S : j <= i
<1> DEFINE U == {m \in Nat : \A j \in S : j <= m}
<1>1. U \subseteq Nat /\ n \in U
  OBVIOUS
<1>2. IsWellFoundedOn(OpToRel(<, Nat), Nat)
  BY NatLessThanWellFounded
<1> HIDE DEF U
<1>3. PICK m \in U : \A l \in U : ~(<<l, m>> \in OpToRel(<, Nat))
  BY <1>1, <1>2, WFMin
<1>4. \A l \in U : ~(l < m)
  BY <1>1, <1>3 DEF OpToRel
<1>5. m \in Nat /\ \A j \in S : j <= m /\ j \in Nat /\ 1 <= j
  BY DEF U
<1>6. m \in S
  <2> SUFFICES ASSUME m \notin S PROVE FALSE
    OBVIOUS
  <2>1. m > 0
    <3>1. PICK j \in S : TRUE
      OBVIOUS
    <3>2. j <= m /\ j \in Nat /\ 1 <= j /\ m \in Nat
      BY <1>5
    <3> QED
      BY <3>2
  <2>2. m - 1 \in Nat /\ m - 1 < m
    BY <1>5, <2>1
  <2>3. \A j \in S : j <= m - 1
    <3> SUFFICES ASSUME NEW j \in S PROVE j <= m - 1
      OBVIOUS
    <3>1. j <= m /\ j \in Nat /\ j # m
      BY <1>5
    <3> QED
      BY <1>5, <3>1
  <2>4. m - 1 \in U
    BY <2>2, <2>3 DEF U
  <2> QED
    BY <1>4, <2>2, <2>4
<1> QED
  BY <1>5, <1>6

(* The entries of a queue from some place on. *)
LEMMA RestFacts ==
  ASSUME NEW q \in Seq(Entries), NEW n \in 0..Len(q)
  PROVE  /\ SubSeq(q, n + 1, Len(q)) \in Seq(Entries)
         /\ Len(SubSeq(q, n + 1, Len(q))) = Len(q) - n
         /\ \A i \in 1..(Len(q) - n) : SubSeq(q, n + 1, Len(q))[i] = q[n + i]
<1> DEFINE l == Len(q)  m == n + 1
<1>1. l \in Nat /\ m \in Int /\ l \in Int /\ \A i \in m..l : q[i] \in Entries
  OBVIOUS
<1>2. /\ SubSeq(q, m, l) \in Seq(Entries)
      /\ Len(SubSeq(q, m, l)) = IF m <= l THEN l - m + 1 ELSE 0
      /\ \A i \in 1..(l - m + 1) : SubSeq(q, m, l)[i] = q[m + i - 1]
  <2> HIDE DEF l, m
  <2> QED
    BY <1>1, SubSeqProperties
<1>3. (IF m <= l THEN l - m + 1 ELSE 0) = l - n /\ l - m + 1 = l - n /\ \A i \in 1..(l - n) : m + i - 1 = n + i
  BY <1>1
<1> QED
  BY <1>2, <1>3

(* What a wait leaves of the queue: the entries after the last one of the   *)
(* fences waited for.                                                       *)
LEMMA WaitedFits ==
  ASSUME NEW q \in Seq(Entries), NEW F
  PROVE  /\ SuffixOf(Waited(q, F), q)
         /\ \A i \in DOMAIN Waited(q, F) : Waited(q, F)[i].fence \notin F
<1> DEFINE last == {i \in DOMAIN q : q[i].fence \in F}
           n == IF last = {} THEN 0 ELSE CHOOSE i \in last : \A j \in last : j <= i
           w == SubSeq(q, n + 1, Len(q))
<1>1. DOMAIN q = 1..Len(q) /\ Len(q) \in Nat
  OBVIOUS
<1>2. n \in 0..Len(q) /\ \A j \in last : j <= n
  <2>1. CASE last = {}
    BY <2>1, <1>1
  <2>2. CASE last # {}
    <3>1. last \subseteq 1..Len(q)
      BY <1>1
    <3>2. \E i \in last : \A j \in last : j <= i
      <4> HIDE DEF last
      <4> QED
        BY <3>1, <2>2, <1>1, GreatestExists
    <3>3. n \in last /\ \A j \in last : j <= n
      <4> HIDE DEF last
      <4> QED
        BY <3>2, <2>2
    <3> HIDE DEF n, last
    <3> QED
      BY <3>3, <3>1, <1>1
  <2> QED
    BY <2>1, <2>2
<1>3. Waited(q, F) = w
  BY DEF Waited
<1> HIDE DEF n
<1>4. w \in Seq(Entries) /\ Len(w) = Len(q) - n /\ \A i \in 1..Len(w) : w[i] = q[n + i]
  <2> HIDE DEF last
  <2> QED
    BY <1>2, RestFacts
<1>5. DOMAIN w = 1..Len(w)
  BY <1>4
<1>6. ASSUME NEW i \in DOMAIN w PROVE w[i].fence \notin F
  <2>1. i \in 1..Len(w) /\ w[i] = q[n + i] /\ n + i \in DOMAIN q /\ n + i > n
    <3> HIDE DEF last, w
    <3>1. i \in 1..Len(w) /\ w[i] = q[n + i]
      BY <1>4, <1>5
    <3> QED
      BY <3>1, <1>1, <1>2, <1>4
  <2>2. n + i \notin last
    BY <2>1, <1>1, <1>2
  <2> QED
    BY <2>1, <2>2
<1> QED
  BY <1>2, <1>3, <1>4, <1>6 DEF SuffixOf

(* What is left of a queue. *)
LEMMA SuffixFacts ==
  ASSUME NEW q \in Seq(Entries), NEW w, SuffixOf(w, q)
  PROVE  /\ PendingFences(w) \subseteq PendingFences(q)
         /\ \A i \in DOMAIN w : \E j \in DOMAIN q : w[i] = q[j]
<1>1. PICK n \in 0..Len(q) : Len(w) = Len(q) - n /\ \A i \in 1..Len(w) : w[i] = q[n + i]
  BY DEF SuffixOf
<1>2. w \in Seq(Entries) /\ DOMAIN w = 1..Len(w) /\ DOMAIN q = 1..Len(q)
  BY DEF SuffixOf
<1>3. ASSUME NEW i \in DOMAIN w PROVE n + i \in DOMAIN q /\ w[i] = q[n + i]
  BY <1>1, <1>2
<1> QED
  BY <1>3 DEF PendingFences

(* The whole queue, nothing of it, and a part of a part. *)
LEMMA SuffixSteps ==
  ASSUME NEW q \in Seq(Entries)
  PROVE  /\ SuffixOf(q, q) /\ SuffixOf(<< >>, q)
         /\ \A w, v : SuffixOf(w, q) /\ SuffixOf(v, w) => SuffixOf(v, q)
<1>1. SuffixOf(q, q)
  <2>1. 0 \in 0..Len(q) /\ Len(q) = Len(q) - 0 /\ \A i \in 1..Len(q) : q[i] = q[0 + i]
    OBVIOUS
  <2> QED
    BY <2>1 DEF SuffixOf
<1>2. SuffixOf(<< >>, q)
  <2>1. Len(q) \in 0..Len(q) /\ 0 = Len(q) - Len(q) /\ Len(<< >>) = 0 /\ 1..0 = {} /\ << >> \in Seq(Entries)
    OBVIOUS
  <2> QED
    BY <2>1 DEF SuffixOf
<1>3. ASSUME NEW w, NEW v, SuffixOf(w, q), SuffixOf(v, w) PROVE SuffixOf(v, q)
  <2>1. PICK n \in 0..Len(q) : Len(w) = Len(q) - n /\ \A i \in 1..Len(w) : w[i] = q[n + i]
    BY <1>3 DEF SuffixOf
  <2>2. PICK m \in 0..Len(w) : Len(v) = Len(w) - m /\ \A i \in 1..Len(v) : v[i] = w[m + i]
    BY <1>3 DEF SuffixOf
  <2>3. v \in Seq(Entries) /\ Len(v) \in Nat /\ Len(w) \in Nat /\ Len(q) \in Nat
    BY <1>3 DEF SuffixOf
  <2>4. n + m \in 0..Len(q) /\ Len(v) = Len(q) - (n + m)
    BY <2>1, <2>2, <2>3
  <2>5. ASSUME NEW i \in 1..Len(v) PROVE v[i] = q[(n + m) + i]
    <3>1. m + i \in 1..Len(w) /\ n + (m + i) = (n + m) + i
      BY <2>1, <2>2, <2>3
    <3> QED
      BY <3>1, <2>1, <2>2
  <2> QED
    BY <2>3, <2>4, <2>5 DEF SuffixOf
<1> QED
  BY <1>1, <1>2, <1>3

(* A submission at the end of a queue. *)
LEMMA SubmittedFacts ==
  ASSUME NEW q \in Seq(Entries), NEW e \in Entries
  PROVE  /\ Append(q, e) \in Seq(Entries)
         /\ DOMAIN Append(q, e) = DOMAIN q \cup {Len(q) + 1}
         /\ \A i \in DOMAIN q : i \in 1..Len(q) /\ Append(q, e)[i] = q[i]
         /\ Append(q, e)[Len(q) + 1] = e
         /\ PendingFences(Append(q, e)) = PendingFences(q) \cup {e.fence}
<1>1. Append(q, e) \in Seq(Entries) /\ Len(Append(q, e)) = Len(q) + 1 /\ Len(q) \in Nat
  OBVIOUS
<1>2. DOMAIN Append(q, e) = 1..(Len(q) + 1) /\ DOMAIN q = 1..Len(q)
  BY <1>1
<1>3. /\ \A i \in DOMAIN q : i \in 1..Len(q) /\ Append(q, e)[i] = q[i]
      /\ Append(q, e)[Len(q) + 1] = e
  BY <1>2
<1>4. 1..(Len(q) + 1) = 1..Len(q) \cup {Len(q) + 1}
  BY <1>1
<1> QED
  BY <1>1, <1>2, <1>3, <1>4 DEF PendingFences

-----------------------------------------------------------------------------
(* Types and fences. *)

(* Constants, and how fences differ. *)
LEMMA ConstantFacts ==
  /\ SlotCount \in {1, 2} /\ Slots \subseteq Regions /\ Regions \subseteq AnyRegion
  /\ \A s \in Slots : (s + 1) % SlotCount \in Slots
  /\ \A r \in Regions : (r + 1) % FrameRegions \in Regions
  /\ NoRegion \notin Regions /\ 0 \in Slots /\ 0 \in Regions
  /\ \A s \in Slots : FrameFence(s) \in Fences /\ FrameFence(s) \notin PresentFences
  /\ \A p \in PresentSlots : PresentFence(p) \in Fences
  /\ \A s, o \in Slots : FrameFence(s) = FrameFence(o) => s = o
  /\ \A f \in Fences : f \in PresentFences \/ \E s \in Slots : f = FrameFence(s)
<1>1. SlotCount \in {1, 2}
  BY FramesAssumption
<1>2. \A s \in Slots : (s + 1) % SlotCount \in Slots
  <2>1. CASE SlotCount = 1
    BY <2>1 DEF Slots
  <2>2. CASE SlotCount = 2
    BY <2>2 DEF Slots
  <2> QED
    BY <1>1, <2>1, <2>2
<1>3. \A r \in Regions : (r + 1) % FrameRegions \in Regions
  BY DEF Regions, FrameRegions
<1>4. Slots \subseteq Regions /\ NoRegion \notin Regions /\ 0 \in Slots /\ 0 \in Regions
  BY <1>1 DEF Slots, Regions, NoRegion, FrameRegions
<1> QED
  BY <1>1, <1>2, <1>3, <1>4 DEF AnyRegion, Fences, PresentFences, FrameFence, PresentFence

(* What the handlers make of records. *)
LEMMA RecordFacts ==
  /\ NoRecord \in Records /\ [NoRecord EXCEPT !.recorded = TRUE] \in Records
  /\ NoFrame \in FrameRecords
  /\ \A r \in Records : \A e : Evicted(r, e) \in Records
  /\ \A r \in Records, t \in Textures : Drawn(r, t) \in Records
<1>1. NoRecord \in Records /\ [NoRecord EXCEPT !.recorded = TRUE] \in Records
      /\ [NoRecord EXCEPT !.recorded = TRUE, !.gone = TRUE] \in Records
  BY DEF NoRecord, Records
<1>2. NoFrame \in FrameRecords
  BY DEF NoFrame, FrameRecords, AnyRegion
<1>3. \A r \in Records, t \in Textures : Drawn(r, t) \in Records
  BY DEF Drawn, Records
<1> QED
  BY <1>1, <1>2, <1>3 DEF Evicted

(* What goes to the queue is an entry of it. *)
LEMMA SubmissionFacts ==
  ASSUME NEW f \in Fences, NEW T \in SUBSET Textures, NEW R \in SUBSET AnyRegion, NEW N \in SUBSET AnyRegion
  PROVE  /\ Submission(f, T, R, N) \in Entries
         /\ Submission(f, T, R, N).fence = f /\ Submission(f, T, R, N).textures = T
         /\ Submission(f, T, R, N).reads = R /\ Submission(f, T, R, N).noted = N
BY DEF Submission, Entries

(* The fences not signalled while w is left of the queue. *)
LEMMA UnsignalledFacts ==
  ASSUME TypesFit, FencesFit, NEW w, SuffixOf(w, queue)
  PROVE  Unsignalled(w) = PendingFences(w) \cup OwnFence
<1>1. PendingFences(w) \subseteq PendingFences(queue)
  BY SuffixFacts DEF TypesFit
<1> QED
  BY <1>1 DEF FencesFit, Unsignalled

(* Whether a frame is being recorded shows by its region. *)
LEMMA RecordingFacts ==
  /\ frame.region \in Regions => recording
  /\ frame = NoFrame => ~recording
BY ConstantFacts DEF recording, NoFrame

(* At first nothing is under way. *)
LEMMA InitFits == Init => TypesFit /\ FencesFit
<1> SUFFICES ASSUME Init PROVE TypesFit /\ FencesFit
  OBVIOUS
<1>1. queue = << >> /\ << >> \in Seq(Entries) /\ PendingFences(<< >>) = {} /\ ~recording
  BY DEF Init, PendingFences, recording
<1>2. IsFiniteSet({}) /\ Cardinality({}) = 0 /\ 0 <= CacheLimit
  BY FS_EmptySet, FramesAssumption
<1> QED
  BY <1>1, <1>2, ConstantFacts, RecordFacts DEF Init, TypesFit, FencesFit, OwnFence

(* The GPU gets through the presents. *)
LEMMA CatchUpFits == TypesFit /\ FencesFit /\ GpuCatchesUp => TypesFit' /\ FencesFit'
<1> SUFFICES ASSUME TypesFit, FencesFit, GpuCatchesUp PROVE TypesFit' /\ FencesFit'
  OBVIOUS
<1> DEFINE q == Waited(queue, PresentFences)
<1>1. queue' = q /\ unsignalled' = Unsignalled(q) /\ ~recording
      /\ UNCHANGED <<frameVars, flipping, textureVars, ringVars, recordVars>>
  BY DEF GpuCatchesUp, PresentFences
<1>2. SuffixOf(q, queue)
  BY WaitedFits DEF TypesFit
<1>3. queue' \in Seq(Entries)
  BY <1>1, <1>2 DEF SuffixOf
<1>4. unsignalled' = PendingFences(queue') \cup OwnFence /\ OwnFence = {}
  BY <1>1, <1>2, UnsignalledFacts DEF OwnFence
<1>5. OwnFence' = {}
  BY <1>1 DEF OwnFence, recording, frameVars
<1> QED
  BY <1>1, <1>3, <1>4, <1>5
  DEF TypesFit, FencesFit, frameVars, textureVars, ringVars, recordVars, recording

(* What a frame starts from: slot s, region r, and what two waits leave of   *)
(* the queue, for the slot's fence and for the readers of the region.       *)
BeginsAs(repack, wanted, s, r, q1, q3) ==
  /\ s \in Slots /\ r \in Regions
  /\ s = (slot + 1) % SlotCount /\ r = (IF wanted THEN nextRegion ELSE s)
  /\ ~recording /\ recording' /\ slot' = s /\ queue' = q3
  /\ frame' = [interpolating |-> wanted, region |-> r, drawn |-> {}]
  /\ q1 = Waited(queue, {FrameFence(s)}) /\ SuffixOf(q1, queue)
  /\ SuffixOf(q3, queue) /\ SuffixOf(q3, q1) /\ FrameFence(s) \notin PendingFences(q3)
  /\ \A i \in DOMAIN q3 : r \notin q3[i].noted
  /\ repack => q3 = << >>
  /\ unsignalled' = Unsignalled(q3) \cup {FrameFence(s)}

(* A frame starts from that. *)
LEMMA BeginFacts ==
  ASSUME TypesFit, FencesFit, NEW repack \in BOOLEAN, NEW wanted \in BOOLEAN, BeginFrame(repack, wanted)
  PROVE  \E s, r, q1, q3 : BeginsAs(repack, wanted, s, r, q1, q3)
<1> DEFINE s == (slot + 1) % SlotCount
           q1 == Waited(queue, {FrameFence(s)})
           q2 == IF repack THEN << >> ELSE q1
           r == IF wanted THEN nextRegion ELSE s
           users == {queue[i].fence : i \in {i \in DOMAIN queue : r \in queue[i].noted}}
           q3 == Waited(q2, users)
<1>1. /\ ~recording /\ slot' = s /\ queue' = q3
      /\ frame' = [interpolating |-> wanted, region |-> r, drawn |-> {}]
      /\ unsignalled' = Unsignalled(q3) \cup {FrameFence(s)}
  BY DEF BeginFrame
<1>2. s \in Slots /\ r \in Regions
  BY ConstantFacts DEF TypesFit
<1> HIDE DEF s, r
<1>3. SuffixOf(q1, queue) /\ \A i \in DOMAIN q1 : q1[i].fence \notin {FrameFence(s)}
  BY WaitedFits DEF TypesFit
<1> HIDE DEF q1
<1>4. q1 \in Seq(Entries) /\ queue \in Seq(Entries) /\ << >> \in Seq(Entries)
  BY <1>3 DEF SuffixOf, TypesFit
<1>5. SuffixOf(q2, q1) /\ SuffixOf(q2, queue) /\ q2 \in Seq(Entries)
  <2>1. CASE repack
    BY <2>1, <1>4, SuffixSteps
  <2>2. CASE ~repack
    BY <2>2, <1>3, <1>4, SuffixSteps
  <2> QED
    BY <2>1, <2>2
<1>6. repack => q2 = << >>
  OBVIOUS
<1> HIDE DEF q2, users
<1>7. SuffixOf(q3, q2) /\ \A i \in DOMAIN q3 : q3[i].fence \notin users
  BY <1>5, WaitedFits
<1> HIDE DEF q3
<1>8. SuffixOf(q3, queue) /\ SuffixOf(q3, q1)
  BY <1>4, <1>5, <1>7, SuffixSteps
<1>9. FrameFence(s) \notin PendingFences(q3)
  BY <1>3, <1>4, <1>8, SuffixFacts DEF PendingFences
<1>10. \A i \in DOMAIN q3 : r \notin q3[i].noted
  BY <1>4, <1>7, <1>8, SuffixFacts DEF users
<1>11. repack => q3 = << >>
  <2>1. q2 = << >> => Len(q3) = 0 /\ q3 \in Seq(Entries)
    BY <1>7 DEF SuffixOf
  <2> QED
    BY <2>1, <1>6
<1>12. recording'
  BY <1>1, <1>2, ConstantFacts DEF recording, NoFrame
<1>13. q1 = Waited(queue, {FrameFence(s)}) /\ s = (slot + 1) % SlotCount /\ r = (IF wanted THEN nextRegion ELSE s)
  BY DEF q1, s, r
<1> HIDE DEF q3
<1> QED
  BY <1>1, <1>2, <1>3, <1>8, <1>9, <1>10, <1>11, <1>12, <1>13 DEF BeginsAs

(* A frame begins. *)
LEMMA BeginFits ==
  ASSUME TypesFit, FencesFit, NEW repack \in BOOLEAN, NEW wanted \in BOOLEAN, BeginFrame(repack, wanted)
  PROVE  TypesFit' /\ FencesFit'
<1>1. PICK s, r, q1, q3 : BeginsAs(repack, wanted, s, r, q1, q3)
  BY BeginFacts
<1> s \in Slots /\ r \in Regions
  BY <1>1 DEF BeginsAs
<1>2. unsignalled' = PendingFences(queue') \cup OwnFence' /\ OwnFence' \cap PendingFences(queue') = {}
  <2>1. Unsignalled(q3) = PendingFences(q3) \cup OwnFence /\ OwnFence = {}
    BY <1>1, UnsignalledFacts DEF OwnFence, BeginsAs
  <2>2. OwnFence' = {FrameFence(s)}
    BY <1>1 DEF OwnFence, BeginsAs
  <2>3. PendingFences(queue') = PendingFences(q3)
    BY <1>1 DEF BeginsAs
  <2> QED
    BY <2>1, <2>2, <2>3, <1>1 DEF BeginsAs
<1>3. queue' \in Seq(Entries) /\ slot' \in Slots /\ frame' \in FrameRecords /\ frame'.region \in Regions
  BY <1>1, ConstantFacts DEF SuffixOf, FrameRecords, BeginsAs
<1>4. cached' \subseteq cached /\ retired' \in [Slots -> SUBSET Textures]
  <2>1. cached' = cached \/ cached' = {}
    BY DEF BeginFrame
  <2>2. \/ retired' = retired \/ retired' = [o \in Slots |-> {}]
        \/ \E o \in Slots : retired' = [retired EXCEPT ![o] = {}]
    <3>1. (slot + 1) % SlotCount \in Slots
      BY ConstantFacts DEF TypesFit
    <3> QED
      BY <3>1 DEF BeginFrame, Released, TypesFit
  <2>3. retired \in [Slots -> SUBSET Textures]
    BY DEF TypesFit
  <2> QED
    BY <2>1, <2>2, <2>3
<1>5. IsFiniteSet(cached') /\ Cardinality(cached') <= CacheLimit
  <2>1. cached' = cached \/ cached' = {}
    BY DEF BeginFrame
  <2>2. CASE cached' = cached
    BY <2>2 DEF TypesFit
  <2>3. CASE cached' = {}
    <3>1. IsFiniteSet({}) /\ Cardinality({}) = 0 /\ 0 <= CacheLimit
      BY FS_EmptySet, FramesAssumption
    <3> QED
      BY <2>3, <3>1
  <2> QED
    BY <2>1, <2>2, <2>3
<1>6. current' \in Records /\ newer' \in Records /\ older' \in Records
  BY RecordFacts DEF BeginFrame, TypesFit
<1>7. UNCHANGED <<flipping, cycle, ringVars>>
  BY DEF BeginFrame
<1> QED
  BY <1>2, <1>3, <1>4, <1>5, <1>6, <1>7 DEF TypesFit, FencesFit, ringVars

(* A draw takes room in the cache for a texture, and knows it from then on. *)
LEMMA DrawTypes ==
  ASSUME TypesFit, FencesFit, NEW t \in Textures, NEW e \in SUBSET Textures, Draw(t, e)
  PROVE  TypesFit' /\ FencesFit'
<1>1. /\ recording /\ frame' = [frame EXCEPT !.drawn = @ \cup {t}]
      /\ UNCHANGED <<queue, unsignalled, slot, flipping, ringVars, newerValid, cycle>>
  BY DEF Draw, gpuVars
<1>2. frame' \in FrameRecords /\ frame'.region = frame.region /\ frame'.region \in Regions
  BY <1>1 DEF TypesFit, FrameRecords
<1>3. recording'
  BY <1>2, ConstantFacts DEF recording, NoFrame
<1>4. /\ cached' \subseteq Textures /\ IsFiniteSet(cached') /\ Cardinality(cached') <= CacheLimit
      /\ retired' \in [Slots -> SUBSET Textures]
  <2>1. CASE UNCHANGED textureVars
    BY <2>1 DEF textureVars, TypesFit
  <2>2. CASE /\ t \notin cached
             /\ IF Cardinality(cached) < CacheLimit THEN e = {} ELSE \E x \in cached : e = {x}
             /\ cached' = (cached \ e) \cup {t}
             /\ retired' = [retired EXCEPT ![slot] = @ \cup e]
    <3>1. cached' \subseteq Textures /\ retired' \in [Slots -> SUBSET Textures]
      BY <2>2 DEF TypesFit
    <3>2. IsFiniteSet(cached) /\ Cardinality(cached) \in Nat /\ Cardinality(cached) <= CacheLimit /\ CacheLimit \in Nat
      BY FS_CardinalityType, FramesAssumption DEF TypesFit
    <3>3. CASE Cardinality(cached) < CacheLimit
      <4>1. cached' = cached \cup {t}
        BY <2>2, <3>3
      <4>2. IsFiniteSet(cached') /\ Cardinality(cached') = Cardinality(cached) + 1
        BY <4>1, <2>2, <3>2, FS_AddElement
      <4> QED
        BY <3>1, <3>2, <3>3, <4>2
    <3>4. CASE ~(Cardinality(cached) < CacheLimit)
      <4>1. PICK x \in cached : e = {x}
        BY <2>2, <3>4
      <4> DEFINE kept == cached \ {x}
      <4>2. IsFiniteSet(kept) /\ Cardinality(kept) = Cardinality(cached) - 1
        BY <3>2, <4>1, FS_RemoveElement
      <4>3. cached' = kept \cup {t} /\ t \notin kept
        BY <2>2, <4>1
      <4> HIDE DEF kept
      <4>4. IsFiniteSet(cached') /\ Cardinality(cached') = Cardinality(kept) + 1
        BY <4>2, <4>3, FS_AddElement
      <4> QED
        BY <3>1, <3>2, <4>2, <4>4
    <3> QED
      BY <3>3, <3>4
  <2> QED
    BY <2>1, <2>2 DEF Draw, Fetched
<1>5. current' \in Records /\ newer' \in Records /\ older' \in Records
  <2>1. newer' \in Records /\ older' \in Records
    BY RecordFacts DEF Draw, TypesFit
  <2> DEFINE c == Drawn(Evicted(current, e), t)
  <2>2. c \in Records
    BY RecordFacts DEF TypesFit
  <2>3. \/ current' = c
        \/ current' = [c EXCEPT !.textures = @ \cup {t}, !.regions = @ \cup {frame.region}]
    BY DEF Draw
  <2>4. frame.region \in AnyRegion
    BY DEF TypesFit, FrameRecords
  <2> HIDE DEF c
  <2>5. [c EXCEPT !.textures = @ \cup {t}, !.regions = @ \cup {frame.region}] \in Records
    BY <2>2, <2>4 DEF Records
  <2> QED
    BY <2>1, <2>2, <2>3, <2>5
<1>6. OwnFence' = OwnFence
  BY <1>1, <1>3 DEF OwnFence
<1> QED
  BY <1>1, <1>2, <1>4, <1>5, <1>6 DEF TypesFit, FencesFit, ringVars

(* What submitting the frame puts in the queue. *)
LEMMA SubmitFacts ==
  ASSUME TypesFit, FencesFit, recording, SubmitFrame
  PROVE  /\ \E e \in Entries :
              /\ queue' = Append(queue, e) /\ e.fence = FrameFence(slot) /\ e.textures = frame.drawn
              /\ e.reads \subseteq e.noted
         /\ queue' \in Seq(Entries) /\ slot' = slot /\ frame' = NoFrame /\ ~recording'
         /\ frame' \in FrameRecords /\ FencesFit'
<1> DEFINE reads == IF frame.drawn = {} THEN {} ELSE {frame.region}
           e == Submission(FrameFence(slot), frame.drawn, reads, {frame.region})
<1>1. frame.drawn \in SUBSET Textures /\ frame.region \in AnyRegion /\ FrameFence(slot) \in Fences
  BY ConstantFacts DEF TypesFit, FrameRecords
<1>2. reads \in SUBSET AnyRegion /\ {frame.region} \in SUBSET AnyRegion /\ reads \subseteq {frame.region}
  BY <1>1
<1>3. queue' = Append(queue, e) /\ frame' = NoFrame /\ UNCHANGED <<unsignalled, slot>>
  BY DEF SubmitFrame
<1> HIDE DEF reads
<1>4. /\ e \in Entries /\ e.fence = FrameFence(slot) /\ e.textures = frame.drawn
      /\ e.reads \subseteq e.noted
  BY <1>1, <1>2, SubmissionFacts
<1> HIDE DEF e
<1>5. queue' \in Seq(Entries) /\ PendingFences(queue') = PendingFences(queue) \cup {FrameFence(slot)}
  BY <1>3, <1>4, SubmittedFacts DEF TypesFit
<1>6. ~recording'
  BY <1>3 DEF recording
<1>7. OwnFence' = {} /\ OwnFence = {FrameFence(slot)}
  BY <1>6 DEF OwnFence
<1> QED
  BY <1>3, <1>4, <1>5, <1>6, <1>7, RecordFacts DEF FencesFit

(* What is recorded is shown without a flip. *)
LEMMA PresentUiFits == TypesFit /\ FencesFit /\ PresentUi => TypesFit' /\ FencesFit'
<1> SUFFICES ASSUME TypesFit, FencesFit, PresentUi PROVE TypesFit' /\ FencesFit'
  OBVIOUS
<1>1. recording /\ SubmitFrame /\ UNCHANGED <<flipping, textureVars, ringVars, recordVars>>
  BY DEF PresentUi
<1>2. /\ queue' \in Seq(Entries) /\ slot' = slot /\ ~recording'
      /\ frame' \in FrameRecords /\ FencesFit'
  BY <1>1, SubmitFacts
<1> QED
  BY <1>1, <1>2 DEF TypesFit, textureVars, ringVars, recordVars

(* A read-back lets the GPU finish. *)
LEMMA ReadBackFits ==
  ASSUME TypesFit, FencesFit, NEW b \in Buffers, ReadBack(b)
  PROVE  TypesFit' /\ FencesFit' /\ recording /\ recording' /\ queue' = << >>
<1>1. /\ recording /\ queue' = << >> /\ unsignalled' = Unsignalled(<< >>) \cup {FrameFence(slot)}
      /\ frame' = [frame EXCEPT !.drawn = {}]
      /\ retired' = Released(slot, << >>)
      /\ UNCHANGED <<slot, flipping, cached, ringVars, recordVars>>
  BY DEF ReadBack
<1>2. frame' \in FrameRecords /\ frame'.region = frame.region /\ frame'.region \in Regions
  BY <1>1 DEF TypesFit, FrameRecords
<1>3. recording'
  BY <1>2, ConstantFacts DEF recording, NoFrame
<1>4. retired' \in [Slots -> SUBSET Textures]
  <2>1. retired \in [Slots -> SUBSET Textures]
    BY DEF TypesFit
  <2> QED
    BY <1>1, <2>1 DEF Released
<1>5. PendingFences(<< >>) = {} /\ << >> \in Seq(Entries)
  BY DEF PendingFences
<1>6. Unsignalled(<< >>) = OwnFence /\ OwnFence = {FrameFence(slot)}
  <2>1. SuffixOf(<< >>, queue)
    BY SuffixSteps DEF TypesFit
  <2> QED
    BY <1>1, <1>5, <2>1, UnsignalledFacts DEF OwnFence
<1>7. OwnFence' = OwnFence
  BY <1>1, <1>3 DEF OwnFence
<1> QED
  BY <1>1, <1>2, <1>3, <1>4, <1>5, <1>6, <1>7 DEF TypesFit, FencesFit, ringVars, recordVars

(* A picture is collected for guest memory. *)
LEMMA WriteBackFits ==
  ASSUME TypesFit, FencesFit, WriteBackFrame
  PROVE  TypesFit' /\ FencesFit' /\ SuffixOf(queue', queue) /\ recording' = recording
<1>1. \E F : queue' = Waited(queue, F) \/ queue' = queue
  BY DEF WriteBackFrame
<1>2. SuffixOf(queue', queue)
  BY <1>1, WaitedFits, SuffixSteps DEF TypesFit
<1>3. unsignalled' = Unsignalled(queue') /\ flipping' = TRUE
      /\ UNCHANGED <<frameVars, textureVars, ringVars, recordVars>>
  BY DEF WriteBackFrame
<1>4. unsignalled' = PendingFences(queue') \cup OwnFence /\ PendingFences(queue') \subseteq PendingFences(queue)
  BY <1>2, <1>3, UnsignalledFacts, SuffixFacts DEF TypesFit
<1>5. OwnFence' = OwnFence /\ recording' = recording
  BY <1>3 DEF OwnFence, recording, frameVars
<1>6. queue' \in Seq(Entries)
  BY <1>2 DEF SuffixOf
<1> QED
  BY <1>2, <1>3, <1>4, <1>5, <1>6
  DEF TypesFit, FencesFit, frameVars, textureVars, ringVars, recordVars

(* A flip. *)
LEMMA PresentFits ==
  ASSUME TypesFit, FencesFit, NEW b \in Buffers, NEW interpolates \in BOOLEAN, Present(b, interpolates)
  PROVE  TypesFit' /\ FencesFit'
<1>1. recording /\ SubmitFrame /\ flipping' = FALSE /\ UNCHANGED <<textureVars, presentSlot>>
  BY DEF Present
<1>2. /\ queue' \in Seq(Entries) /\ slot' = slot /\ ~recording'
      /\ frame' \in FrameRecords /\ FencesFit'
  BY <1>1, SubmitFacts
<1>3. /\ current' \in Records /\ newer' \in Records /\ older' \in Records
      /\ cycle' \in BOOLEAN /\ nextRegion' \in Regions
  <2>1. CASE FinishInterpolated
    <3>1. frame.region \in Regions
      BY <1>1 DEF TypesFit
    <3> QED
      BY <2>1, <3>1, RecordFacts, ConstantFacts DEF FinishInterpolated, TypesFit
  <2>2. CASE UNCHANGED nextRegion /\ ResetInterpolation
    BY <2>2, RecordFacts DEF ResetInterpolation, TypesFit
  <2>3. CASE UNCHANGED nextRegion /\ UNCHANGED recordVars
    BY <2>3 DEF recordVars, TypesFit
  <2> QED
    BY <2>1, <2>2, <2>3 DEF Present
<1> QED
  BY <1>1, <1>2, <1>3 DEF TypesFit, textureVars

(* A present between flips, when there is an image to present to. *)
Between(blends, q, e) ==
  /\ SuffixOf(q, queue) /\ e \in Entries /\ queue' = Append(q, e)
  /\ e.fence = PresentFence(presentSlot) /\ e.reads \subseteq e.noted
  /\ IF blends THEN Paired /\ TexturesKept /\ e.textures = older.textures /\ e.reads = older.regions
     ELSE e.textures = {} /\ e.reads = {}

(* What it puts in the queue, or that it leaves it alone but for the wait. *)
LEMMA BetweenFits ==
  ASSUME TypesFit, FencesFit, NEW acquired \in BOOLEAN, NEW blends \in BOOLEAN, PresentBetween(acquired, blends)
  PROVE  /\ TypesFit' /\ FencesFit' /\ recording' = recording
         /\ SuffixOf(queue', queue) \/ \E q, e : Between(blends, q, e)
<1> DEFINE p == presentSlot
           q == Waited(queue, {PresentFence(p)})
           e == IF blends THEN Submission(PresentFence(p), older.textures, older.regions, older.regions)
                ELSE Submission(PresentFence(p), {}, {}, {})
<1>1. /\ presentSlot' \in PresentSlots
      /\ UNCHANGED <<frameVars, flipping, textureVars, nextRegion, recordVars>>
      /\ \/ queue' = q /\ unsignalled' = Unsignalled(q)
         \/ /\ blends => Paired /\ TexturesKept
            /\ queue' = Append(q, e) /\ unsignalled' = Unsignalled(q) \cup {PresentFence(p)}
  BY DEF PresentBetween
<1>2. PresentFence(p) \in Fences /\ PresentFence(p) \in PresentFences
  BY ConstantFacts DEF TypesFit, PresentFences
<1>3. /\ e \in Entries /\ e.fence = PresentFence(p) /\ e.reads \subseteq e.noted
      /\ IF blends THEN e.textures = older.textures /\ e.reads = older.regions
         ELSE e.textures = {} /\ e.reads = {}
  <2>1. older.textures \in SUBSET Textures /\ older.regions \in SUBSET AnyRegion
    BY DEF TypesFit, Records
  <2> QED
    BY <1>2, <2>1, SubmissionFacts
<1>4. SuffixOf(q, queue)
  BY WaitedFits DEF TypesFit
<1> HIDE DEF q, e
<1>5. q \in Seq(Entries) /\ PendingFences(q) \subseteq PendingFences(queue)
      /\ Unsignalled(q) = PendingFences(q) \cup OwnFence
  BY <1>4, UnsignalledFacts, SuffixFacts DEF SuffixOf, TypesFit
<1>6. OwnFence' = OwnFence /\ recording' = recording
  BY <1>1 DEF OwnFence, recording, frameVars
<1>7. PresentFence(p) \notin OwnFence
  BY <1>2, ConstantFacts DEF OwnFence, TypesFit
<1>8. queue' \in Seq(Entries) /\ FencesFit'
  <2>1. CASE queue' = q /\ unsignalled' = Unsignalled(q)
    BY <2>1, <1>5, <1>6 DEF FencesFit
  <2>2. CASE queue' = Append(q, e) /\ unsignalled' = Unsignalled(q) \cup {PresentFence(p)}
    <3>1. queue' \in Seq(Entries) /\ PendingFences(queue') = PendingFences(q) \cup {PresentFence(p)}
      BY <2>2, <1>3, <1>5, SubmittedFacts
    <3> QED
      BY <2>2, <3>1, <1>5, <1>6, <1>7 DEF FencesFit
  <2> QED
    BY <1>1, <2>1, <2>2
<1>9. TypesFit'
  BY <1>1, <1>6, <1>8 DEF TypesFit, frameVars, textureVars, recordVars
<1>10. SuffixOf(queue', queue) \/ Between(blends, q, e)
  BY <1>1, <1>3, <1>4 DEF Between
<1> QED
  BY <1>6, <1>8, <1>9, <1>10

(* Every step. *)
LEMMA StepFits == TypesFit /\ FencesFit /\ [Next]_vars => TypesFit' /\ FencesFit'
<1> SUFFICES ASSUME TypesFit, FencesFit, [Next]_vars PROVE TypesFit' /\ FencesFit'
  OBVIOUS
<1>1. CASE GpuCatchesUp
  BY <1>1, CatchUpFits
<1>2. ASSUME NEW repack \in BOOLEAN, NEW wanted \in BOOLEAN, BeginFrame(repack, wanted)
      PROVE  TypesFit' /\ FencesFit'
  BY <1>2, BeginFits
<1>3. ASSUME NEW t \in Textures, NEW e \in SUBSET Textures, Draw(t, e) PROVE TypesFit' /\ FencesFit'
  BY <1>3, DrawTypes
<1>4. CASE PresentUi
  BY <1>4, PresentUiFits
<1>5. ASSUME NEW b \in Buffers, ReadBack(b) PROVE TypesFit' /\ FencesFit'
  BY <1>5, ReadBackFits
<1>6. CASE WriteBackFrame
  BY <1>6, WriteBackFits
<1>7. ASSUME NEW b \in Buffers, NEW interpolates \in BOOLEAN, Present(b, interpolates)
      PROVE  TypesFit' /\ FencesFit'
  BY <1>7, PresentFits
<1>8. ASSUME NEW acquired \in BOOLEAN, NEW blends \in BOOLEAN, PresentBetween(acquired, blends)
      PROVE  TypesFit' /\ FencesFit'
  BY <1>8, BetweenFits
<1>9. CASE PauseInterpolation
  BY <1>9 DEF PauseInterpolation, TypesFit, FencesFit, OwnFence, recording,
              gpuVars, frameVars, textureVars, ringVars
<1>10. CASE SetFrameRate
  <2>1. cycle' \in BOOLEAN /\ current' \in Records /\ newer' \in Records /\ older' \in Records
    BY <1>10, RecordFacts DEF SetFrameRate, ResetInterpolation
  <2> QED
    BY <1>10, <2>1 DEF SetFrameRate, TypesFit, FencesFit, OwnFence, recording,
                       gpuVars, frameVars, textureVars, ringVars
<1>11. CASE UNCHANGED vars
  BY <1>11 DEF vars, TypesFit, FencesFit, OwnFence, recording,
               gpuVars, frameVars, textureVars, ringVars, recordVars
<1> QED
  BY <1>1, <1>2, <1>3, <1>4, <1>5, <1>6, <1>7, <1>8, <1>9, <1>10, <1>11 DEF Next

(* What the invariant says of fences and types. *)
LEMMA FencesFollow == TypesFit /\ FencesFit => NoFenceForgotten
<1> SUFFICES ASSUME TypesFit, FencesFit PROVE NoFenceForgotten
  OBVIOUS
<1>1. PendingFences(queue) \subseteq Fences
  <2>1. \A i \in DOMAIN queue : queue[i] \in Entries
    BY DEF TypesFit
  <2> QED
    BY <2>1 DEF PendingFences, Entries
<1>2. OwnFence \subseteq Fences
  BY ConstantFacts DEF OwnFence, TypesFit
<1>3. unsignalled \subseteq Fences /\ PendingFences(queue) \subseteq unsignalled
  BY <1>1, <1>2 DEF FencesFit
<1>4. frame.interpolating \in BOOLEAN /\ frame.region \in Regions \cup {NoRegion} /\ frame.drawn \subseteq Textures
  BY DEF TypesFit, FrameRecords, AnyRegion
<1>5. TypeOK
  BY <1>3, <1>4 DEF TypesFit, TypeOK
<1> QED
  BY <1>5 DEF FencesFit, OwnFence, NoFenceForgotten

(* A wait of the renderer is never for a fence that nothing will signal,    *)
(* whatever began a frame, was read back, presented between flips or found  *)
(* no image to present to (vulkan_renderer.cpp, wait_fence).                *)
THEOREM FencesAreSignalled == Spec => []NoFenceForgotten
<1>1. Init => TypesFit /\ FencesFit
  BY InitFits
<1>2. TypesFit /\ FencesFit /\ [Next]_vars => TypesFit' /\ FencesFit'
  BY StepFits
<1>3. TypesFit /\ FencesFit => NoFenceForgotten
  BY FencesFollow
<1> QED
  BY <1>1, <1>2, <1>3, PTL DEF Spec

-----------------------------------------------------------------------------
(* Textures. *)

(* What the GPU draws is there, and of the textures that wait in the list   *)
(* of a slot for their end, what a frame draws is drawn before that slot's  *)
(* next frame: its fence is in the queue no earlier.  Nothing is said of    *)
(* the slot being recorded.                                                 *)
QueueFits(q, alive, lists, busy) ==
  \A i \in DOMAIN q :
    /\ q[i].textures \subseteq alive
    /\ \A s \in Slots \ busy : q[i].fence \notin PresentFences /\ q[i].textures \cap lists[s] # {} =>
         \E j \in DOMAIN q : j >= i /\ q[j].fence = FrameFence(s)

Busy == IF recording THEN {slot} ELSE {}

(* A record that can be drawn from names textures that are there. *)
RecordFits(r, there) ==
  /\ r.recorded /\ ~r.gone => r.textures \subseteq r.since /\ r.textures \subseteq there
  /\ ~r.recorded => r.since = {}

TexturesFit ==
  /\ \A s \in Slots : cached \cap retired[s] = {}
  /\ QueueFits(queue, Alive, retired, Busy)
  /\ recording => /\ frame.drawn \subseteq Alive
                  /\ \A s \in Slots \ {slot} : frame.drawn \cap retired[s] = {}
  /\ RecordFits(current, cached) /\ RecordFits(newer, cached) /\ RecordFits(older, cached)

(* What the GPU has finished is of no account. *)
LEMMA QueueRest ==
  ASSUME NEW q \in Seq(Entries), NEW w, SuffixOf(w, q), NEW alive, NEW lists, NEW busy,
         QueueFits(q, alive, lists, busy)
  PROVE  QueueFits(w, alive, lists, busy)
<1>1. PICK n \in 0..Len(q) : Len(w) = Len(q) - n /\ \A i \in 1..Len(w) : w[i] = q[n + i]
  BY DEF SuffixOf
<1>2. w \in Seq(Entries) /\ DOMAIN w = 1..Len(w) /\ DOMAIN q = 1..Len(q) /\ Len(w) \in Nat /\ Len(q) \in Nat
  BY DEF SuffixOf
<1>3. ASSUME NEW i \in DOMAIN w PROVE n + i \in DOMAIN q /\ w[i] = q[n + i]
  BY <1>1, <1>2
<1>4. ASSUME NEW i \in DOMAIN w, NEW s \in Slots \ busy,
             w[i].fence \notin PresentFences, w[i].textures \cap lists[s] # {}
      PROVE  \E j \in DOMAIN w : j >= i /\ w[j].fence = FrameFence(s)
  <2>1. PICK k \in DOMAIN q : k >= n + i /\ q[k].fence = FrameFence(s)
    BY <1>3, <1>4 DEF QueueFits
  <2>2. k - n \in DOMAIN w /\ k - n >= i /\ n + (k - n) = k
    BY <2>1, <1>1, <1>2
  <2> QED
    BY <2>1, <2>2, <1>3
<1>5. ASSUME NEW i \in DOMAIN w PROVE w[i].textures \subseteq alive
  BY <1>3, <1>5 DEF QueueFits
<1> QED
  BY <1>4, <1>5 DEF QueueFits

(* More is alive, and the lists grow only by the slot being recorded. *)
LEMMA QueueGrows ==
  ASSUME NEW q, NEW alive, NEW more, alive \subseteq more, NEW lists, NEW others, NEW busy,
         \A s \in Slots \ busy : others[s] = lists[s],
         QueueFits(q, alive, lists, busy)
  PROVE  QueueFits(q, more, others, busy)
BY DEF QueueFits

(* A submission at the end. *)
LEMMA QueueSubmits ==
  ASSUME NEW q \in Seq(Entries), NEW e \in Entries, NEW alive, NEW lists, NEW busy, NEW after,
         QueueFits(q, alive, lists, busy), e.textures \subseteq alive,
         \/ e.fence \in PresentFences /\ after = busy
         \/ /\ \A s \in Slots : e.textures \cap lists[s] # {} => e.fence = FrameFence(s)
            /\ \A s \in busy : e.fence = FrameFence(s)
  PROVE  QueueFits(Append(q, e), alive, lists, after)
<1> DEFINE w == Append(q, e)
<1>1. /\ DOMAIN w = DOMAIN q \cup {Len(q) + 1} /\ w[Len(q) + 1] = e
      /\ \A i \in DOMAIN q : i \in 1..Len(q) /\ w[i] = q[i]
  BY SubmittedFacts
<1> HIDE DEF w
<1>2. Len(q) \in Nat /\ \A i \in DOMAIN q : i <= Len(q) + 1
  BY <1>1
<1>3. ASSUME NEW i \in DOMAIN w PROVE w[i].textures \subseteq alive
  BY <1>1, <1>3 DEF QueueFits
<1>4. ASSUME NEW i \in DOMAIN w, NEW s \in Slots \ after,
             w[i].fence \notin PresentFences, w[i].textures \cap lists[s] # {}
      PROVE  \E j \in DOMAIN w : j >= i /\ w[j].fence = FrameFence(s)
  <2>1. CASE i = Len(q) + 1
    <3>1. e.fence = FrameFence(s)
      BY <2>1, <1>1, <1>4
    <3> QED
      BY <2>1, <3>1, <1>1, <1>2
  <2>2. CASE i \in DOMAIN q /\ s \in busy
    <3>1. e.fence = FrameFence(s)
      BY <2>2, <1>4
    <3> QED
      BY <2>2, <3>1, <1>1, <1>2
  <2>3. CASE i \in DOMAIN q /\ s \notin busy
    <3>1. PICK j \in DOMAIN q : j >= i /\ q[j].fence = FrameFence(s)
      BY <2>3, <1>1, <1>4 DEF QueueFits
    <3> QED
      BY <3>1, <1>1
  <2> QED
    BY <1>1, <2>1, <2>2, <2>3
<1>5. QueueFits(w, alive, lists, after)
  BY <1>3, <1>4 DEF QueueFits
<1> QED
  BY <1>5 DEF w

(* What a draw makes of a record. *)
LEMMA DrawnFits ==
  ASSUME NEW r \in Records, NEW t \in Textures, NEW e, NEW c, NEW d, NEW R,
         RecordFits(r, c), t \in d, c \ e \subseteq d
  PROVE  /\ RecordFits(Drawn(Evicted(r, e), t), d)
         /\ LET n == Drawn(Evicted(r, e), t)
            IN n.recorded /\ ~n.gone => RecordFits([n EXCEPT !.textures = @ \cup {t}, !.regions = R], d)
<1> DEFINE v == Evicted(r, e)
           n == Drawn(v, t)
<1>1. v \in Records /\ n \in Records
  BY RecordFacts
<1>2. /\ v.recorded /\ ~v.gone => v.textures \subseteq v.since /\ v.textures \subseteq d
      /\ ~v.recorded => v.since = {}
  <2>1. CASE e \cap r.since = {}
    BY <2>1 DEF Evicted, RecordFits
  <2>2. CASE e \cap r.since # {}
    BY <2>2 DEF Evicted, RecordFits, NoRecord
  <2> QED
    BY <2>1, <2>2
<1> HIDE DEF v
<1>3. CASE v.recorded /\ ~v.gone
  <2>1. /\ n.textures = v.textures /\ n.since = v.since \cup {t}
        /\ n.recorded = v.recorded /\ n.gone = v.gone
    BY <1>1, <1>3 DEF Drawn, Records
  <2> HIDE DEF n
  <2>2. LET x == [n EXCEPT !.textures = @ \cup {t}, !.regions = R]
        IN /\ x.textures = n.textures \cup {t} /\ x.since = n.since
           /\ x.recorded = n.recorded /\ x.gone = n.gone
    BY <1>1 DEF Records
  <2>3. RecordFits(n, d)
    BY <1>2, <1>3, <2>1 DEF RecordFits
  <2>4. RecordFits([n EXCEPT !.textures = @ \cup {t}, !.regions = R], d)
    BY <1>2, <1>3, <2>1, <2>2 DEF RecordFits
  <2> QED
    BY <2>3, <2>4 DEF n, v
<1>4. CASE ~(v.recorded /\ ~v.gone)
  <2>1. n = v
    BY <1>4 DEF Drawn
  <2>2. RecordFits(n, d) /\ ~(n.recorded /\ ~n.gone)
    BY <1>2, <1>4, <2>1 DEF RecordFits
  <2> QED
    BY <2>2 DEF n, v
<1> QED
  BY <1>3, <1>4

(* A texture that is drawn is there, and one that makes room still is. *)
LEMMA FetchedFacts ==
  ASSUME TypesFit, TexturesFit, NEW t \in Textures, NEW e \in SUBSET Textures, Fetched(t, e)
  PROVE  /\ t \in cached' /\ cached \ e \subseteq cached' /\ Alive \subseteq Alive'
         /\ \A s \in Slots : cached' \cap retired'[s] = {}
         /\ \A s \in Slots \ {slot} : retired'[s] = retired[s] /\ t \notin retired[s]
<1>1. CASE t \in cached /\ e = {} /\ UNCHANGED textureVars
  BY <1>1 DEF textureVars, Alive, TexturesFit
<1>2. CASE /\ t \notin cached /\ \A s \in Slots : t \notin retired[s]
           /\ e \subseteq cached
           /\ cached' = (cached \ e) \cup {t}
           /\ retired' = [retired EXCEPT ![slot] = @ \cup e]
  <2>1. retired \in [Slots -> SUBSET Textures] /\ slot \in Slots
    BY DEF TypesFit
  <2>2. /\ retired'[slot] = retired[slot] \cup e
        /\ \A s \in Slots \ {slot} : retired'[s] = retired[s]
    BY <1>2, <2>1
  <2>3. \A s \in Slots : cached' \cap retired'[s] = {}
    BY <1>2, <2>2 DEF TexturesFit
  <2>4. \A s \in Slots : retired[s] \subseteq retired'[s]
    BY <2>2
  <2>5. e \subseteq Alive'
    BY <2>1, <2>2 DEF Alive
  <2>6. Alive \subseteq Alive'
    BY <1>2, <2>4, <2>5 DEF Alive
  <2> QED
    BY <1>2, <2>2, <2>3, <2>6
<1>3. t \notin cached => e \subseteq cached
  BY DEF Fetched
<1> QED
  BY <1>1, <1>2, <1>3 DEF Fetched

(* A draw. *)
LEMMA DrawTextures ==
  ASSUME TypesFit, FencesFit, TexturesFit, NEW t \in Textures, NEW e \in SUBSET Textures, Draw(t, e)
  PROVE  TexturesFit'
<1>1. /\ recording /\ Fetched(t, e)
      /\ frame' = [frame EXCEPT !.drawn = @ \cup {t}]
      /\ queue' = queue /\ slot' = slot
      /\ newer' = Drawn(Evicted(newer, e), t) /\ older' = Drawn(Evicted(older, e), t)
      /\ LET c == Drawn(Evicted(current, e), t)
         IN \/ current' = c
            \/ /\ c.recorded /\ ~c.gone
               /\ current' = [c EXCEPT !.textures = @ \cup {t}, !.regions = @ \cup {frame.region}]
  BY DEF Draw, gpuVars
<1>2. /\ t \in cached' /\ cached \ e \subseteq cached' /\ Alive \subseteq Alive'
      /\ \A s \in Slots : cached' \cap retired'[s] = {}
      /\ \A s \in Slots \ {slot} : retired'[s] = retired[s] /\ t \notin retired[s]
  BY <1>1, FetchedFacts
<1>3. frame'.drawn = frame.drawn \cup {t} /\ frame'.region = frame.region /\ recording'
  <2>1. frame'.drawn = frame.drawn \cup {t} /\ frame'.region = frame.region
    BY <1>1 DEF TypesFit, FrameRecords
  <2> QED
    BY <2>1, <1>1, ConstantFacts DEF recording, NoFrame, TypesFit
<1>4. QueueFits(queue', Alive', retired', Busy')
  <2>1. Busy = {slot} /\ Busy' = {slot}
    BY <1>1, <1>3 DEF Busy
  <2>2. QueueFits(queue, Alive, retired, Busy)
    BY DEF TexturesFit
  <2>3. QueueFits(queue, Alive', retired', Busy)
    BY <1>2, <2>1, <2>2, QueueGrows
  <2> QED
    BY <1>1, <2>1, <2>3
<1>5. frame'.drawn \subseteq Alive' /\ \A s \in Slots \ {slot} : frame'.drawn \cap retired'[s] = {}
  <2>1. t \in Alive'
    BY <1>2 DEF Alive
  <2> QED
    BY <1>1, <1>2, <1>3, <2>1 DEF TexturesFit
<1>6. RecordFits(newer', cached') /\ RecordFits(older', cached')
  BY <1>1, <1>2, DrawnFits DEF TypesFit, TexturesFit
<1>7. RecordFits(current', cached')
  <2> DEFINE c == Drawn(Evicted(current, e), t)
  <2>1. current \in Records /\ RecordFits(current, cached)
    BY DEF TypesFit, TexturesFit
  <2>2. RecordFits(c, cached')
    BY <1>2, <2>1, DrawnFits
  <2>3. c.recorded /\ ~c.gone =>
          RecordFits([c EXCEPT !.textures = @ \cup {t}, !.regions = c.regions \cup {frame.region}], cached')
    BY <1>2, <2>1, DrawnFits
  <2> HIDE DEF c
  <2>4. \/ current' = c
        \/ /\ c.recorded /\ ~c.gone
           /\ current' = [c EXCEPT !.textures = @ \cup {t}, !.regions = @ \cup {frame.region}]
    BY <1>1 DEF c
  <2> QED
    BY <2>2, <2>3, <2>4
<1> QED
  BY <1>1, <1>2, <1>3, <1>4, <1>5, <1>6, <1>7 DEF TexturesFit

(* A frame begins: what its slot's list held was drawn before a fence that  *)
(* has signalled, or stays while presents are under way.                    *)
LEMMA BeginTextures ==
  ASSUME TypesFit, FencesFit, TexturesFit, NEW repack \in BOOLEAN, NEW wanted \in BOOLEAN,
         BeginFrame(repack, wanted)
  PROVE  TexturesFit'
<1>1. PICK s, r, q1, q3 : BeginsAs(repack, wanted, s, r, q1, q3)
  BY BeginFacts
<1> s \in Slots /\ r \in Regions
  BY <1>1 DEF BeginsAs
<1>2. Busy = {} /\ Busy' = {s} /\ slot' = s /\ queue' = q3 /\ frame'.drawn = {}
  BY <1>1 DEF BeginsAs, Busy
<1>3. retired' = (IF repack THEN [o \in Slots |-> {}] ELSE Released(s, q1))
      /\ cached' = (IF repack THEN {} ELSE cached)
  BY <1>1 DEF BeginFrame, BeginsAs
<1>4. RecordFits([NoRecord EXCEPT !.recorded = TRUE], cached')
  BY DEF NoRecord, RecordFits
<1>5. CASE repack
  <2>1. queue' = << >> /\ cached' = {} /\ retired' = [o \in Slots |-> {}]
    BY <1>1, <1>3, <1>5 DEF BeginsAs
  <2>2. QueueFits(queue', Alive', retired', Busy')
    BY <2>1 DEF QueueFits
  <2>3. ASSUME NEW c \in Records, RecordFits(c, cached) PROVE RecordFits(Evicted(c, Textures), {})
    <3>1. CASE Textures \cap c.since = {}
      <4>1. c.since = {}
        BY <3>1 DEF Records
      <4> QED
        BY <2>3, <3>1, <4>1 DEF Evicted, RecordFits
    <3>2. CASE Textures \cap c.since # {}
      BY <3>2 DEF Evicted, RecordFits, NoRecord
    <3> QED
      BY <3>1, <3>2
  <2>4. RecordFits(newer', cached') /\ RecordFits(older', cached') /\ RecordFits(current', cached')
    BY <1>4, <1>5, <2>1, <2>3 DEF BeginFrame, TypesFit, TexturesFit
  <2> QED
    BY <1>2, <2>1, <2>2, <2>4 DEF TexturesFit
<1>6. CASE ~repack
  <2>1. cached' = cached /\ retired' = Released(s, q1)
    BY <1>3, <1>6
  <2>2. /\ RecordFits(newer', cached') /\ RecordFits(older', cached') /\ RecordFits(current', cached')
    BY <1>4, <1>6, <2>1 DEF BeginFrame, TexturesFit
  <2>3. /\ queue \in Seq(Entries) /\ q1 \in Seq(Entries) /\ SuffixOf(q1, queue) /\ SuffixOf(q3, q1)
        /\ q1 = Waited(queue, {FrameFence(s)})
    BY <1>1 DEF BeginsAs, TypesFit, SuffixOf
  <2>4. QueueFits(q1, Alive, retired, {})
    BY <1>2, <2>3, QueueRest DEF TexturesFit
  <2>5. CASE \E p \in PresentSlots : PresentFence(p) \in Unsignalled(q1)
    <3>1. retired' = retired
      BY <2>1, <2>5 DEF Released
    <3>2. Alive' = Alive
      BY <2>1, <3>1 DEF Alive
    <3>3. QueueFits(q3, Alive, retired, {})
      BY <2>3, <2>4, QueueRest
    <3>4. QueueFits(q3, Alive, retired, {s})
      BY <3>3 DEF QueueFits
    <3> QED
      BY <1>2, <2>1, <2>2, <3>1, <3>2, <3>4 DEF TexturesFit
  <2>6. CASE ~(\E p \in PresentSlots : PresentFence(p) \in Unsignalled(q1))
    <3>1. retired' = [retired EXCEPT ![s] = {}]
      BY <2>1, <2>6 DEF Released
    <3>2. retired'[s] = {} /\ \A o \in Slots \ {s} : retired'[o] = retired[o]
      BY <3>1 DEF TypesFit
    <3>3. PendingFences(q1) \cap PresentFences = {}
      <4>1. PendingFences(q1) \subseteq Unsignalled(q1)
        BY <2>3, UnsignalledFacts
      <4> QED
        BY <4>1, <2>6 DEF PresentFences
    <3>4. \A i \in DOMAIN q1 : q1[i].textures \cap retired[s] = {}
      <4>1. \A i \in DOMAIN q1 : q1[i].fence # FrameFence(s)
        BY <2>3, WaitedFits
      <4>2. \A i \in DOMAIN q1 : q1[i].fence \notin PresentFences
        BY <3>3 DEF PendingFences
      <4> QED
        BY <2>4, <4>1, <4>2 DEF QueueFits
    <3>5. \A x \in Alive : x \notin retired[s] => x \in Alive'
      BY <2>1, <3>2 DEF Alive
    <3>6. QueueFits(q1, Alive', retired', {s})
      BY <2>4, <3>2, <3>4, <3>5 DEF QueueFits
    <3>7. QueueFits(q3, Alive', retired', {s})
      BY <2>3, <3>6, QueueRest
    <3>8. \A o \in Slots : cached' \cap retired'[o] = {}
      BY <2>1, <3>2 DEF TexturesFit
    <3> QED
      BY <1>2, <2>2, <3>7, <3>8 DEF TexturesFit
  <2> QED
    BY <2>5, <2>6
<1> QED
  BY <1>5, <1>6

(* The frame is submitted. *)
LEMMA SubmitTextures ==
  ASSUME TypesFit, FencesFit, TexturesFit, recording, SubmitFrame, UNCHANGED textureVars
  PROVE  /\ QueueFits(queue', Alive', retired', Busy') /\ ~recording'
         /\ \A s \in Slots : cached' \cap retired'[s] = {}
<1>1. PICK e \in Entries :
        queue' = Append(queue, e) /\ e.fence = FrameFence(slot) /\ e.textures = frame.drawn
  BY SubmitFacts
<1>2. slot' = slot /\ ~recording' /\ Busy = {slot} /\ Busy' = {}
  BY SubmitFacts DEF Busy
<1>3. cached' = cached /\ retired' = retired /\ Alive' = Alive
  BY DEF textureVars, Alive
<1>4. /\ e.textures \subseteq Alive
      /\ \A s \in Slots : e.textures \cap retired[s] # {} => e.fence = FrameFence(s)
  BY <1>1 DEF TexturesFit
<1>5. queue \in Seq(Entries) /\ QueueFits(queue, Alive, retired, {slot})
  BY <1>2 DEF TypesFit, TexturesFit
<1>6. QueueFits(Append(queue, e), Alive, retired, {})
  <2>1. \A s \in {slot} : e.fence = FrameFence(s)
    BY <1>1
  <2> QED
    BY <1>4, <1>5, <2>1, QueueSubmits
<1>7. \A s \in Slots : cached' \cap retired'[s] = {}
  BY <1>3 DEF TexturesFit
<1> QED
  BY <1>1, <1>2, <1>3, <1>6, <1>7

(* The GPU finishes some of its queue, and no texture moves. *)
LEMMA RestTextures ==
  ASSUME TypesFit, TexturesFit, SuffixOf(queue', queue), UNCHANGED <<frameVars, textureVars>>
  PROVE  /\ QueueFits(queue', Alive', retired', Busy')
         /\ \A s \in Slots : cached' \cap retired'[s] = {}
         /\ recording' => /\ frame'.drawn \subseteq Alive'
                          /\ \A s \in Slots \ {slot'} : frame'.drawn \cap retired'[s] = {}
<1>1. /\ cached' = cached /\ retired' = retired /\ Alive' = Alive
      /\ frame' = frame /\ slot' = slot /\ Busy' = Busy /\ recording' = recording
  BY DEF textureVars, frameVars, Alive, Busy, recording
<1>2. QueueFits(queue', Alive, retired, Busy)
  BY QueueRest DEF TypesFit, TexturesFit
<1> QED
  BY <1>1, <1>2 DEF TexturesFit

(* A record given up. *)
LEMMA NoRecordFits == \A c : RecordFits(NoRecord, c)
BY DEF NoRecord, RecordFits

(* A flip moves the records on. *)
LEMMA PresentTextures ==
  ASSUME TypesFit, FencesFit, TexturesFit, NEW b \in Buffers, NEW interpolates \in BOOLEAN,
         Present(b, interpolates)
  PROVE  TexturesFit'
<1>1. recording /\ SubmitFrame /\ UNCHANGED textureVars
  BY DEF Present
<1>2. /\ QueueFits(queue', Alive', retired', Busy') /\ ~recording'
      /\ \A s \in Slots : cached' \cap retired'[s] = {}
  BY <1>1, SubmitTextures
<1>3. cached' = cached
  BY <1>1 DEF textureVars
<1>4. RecordFits(current', cached) /\ RecordFits(newer', cached) /\ RecordFits(older', cached)
  <2>1. CASE FinishInterpolated
    BY <2>1, NoRecordFits DEF FinishInterpolated, TexturesFit
  <2>2. CASE ResetInterpolation
    BY <2>2, NoRecordFits DEF ResetInterpolation
  <2>3. CASE UNCHANGED recordVars
    BY <2>3 DEF recordVars, TexturesFit
  <2> QED
    BY <2>1, <2>2, <2>3 DEF Present
<1> QED
  BY <1>2, <1>3, <1>4 DEF TexturesFit

(* A present between flips draws an older frame only from textures that are *)
(* in the cache.                                                            *)
LEMMA BetweenTextures ==
  ASSUME TypesFit, FencesFit, TexturesFit, NEW acquired \in BOOLEAN, NEW blends \in BOOLEAN,
         PresentBetween(acquired, blends)
  PROVE  TexturesFit'
<1>1. UNCHANGED <<frameVars, textureVars, recordVars>>
  BY DEF PresentBetween
<1>2. /\ cached' = cached /\ retired' = retired /\ Alive' = Alive /\ Busy' = Busy
      /\ frame' = frame /\ slot' = slot /\ recording' = recording
      /\ current' = current /\ newer' = newer /\ older' = older
  BY <1>1 DEF frameVars, textureVars, recordVars, Alive, Busy, recording
<1>3. QueueFits(queue', Alive, retired, Busy)
  <2>1. CASE SuffixOf(queue', queue)
    BY <2>1, QueueRest DEF TypesFit, TexturesFit
  <2>2. ASSUME NEW q, NEW e, Between(blends, q, e) PROVE QueueFits(queue', Alive, retired, Busy)
    <3>1. /\ q \in Seq(Entries) /\ SuffixOf(q, queue) /\ e \in Entries /\ queue' = Append(q, e)
          /\ e.fence \in PresentFences
      BY <2>2 DEF Between, SuffixOf, PresentFences, TypesFit
    <3>2. e.textures \subseteq Alive
      BY <2>2 DEF Between, Paired, TexturesKept, TexturesFit, RecordFits, Alive
    <3>3. QueueFits(q, Alive, retired, Busy)
      BY <3>1, QueueRest DEF TypesFit, TexturesFit
    <3> QED
      BY <3>1, <3>2, <3>3, QueueSubmits
  <2> QED
    BY <2>1, <2>2, BetweenFits
<1> QED
  BY <1>2, <1>3 DEF TexturesFit

(* A read-back leaves nothing to draw, of the queue and of the frame. *)
LEMMA ReadBackTextures ==
  ASSUME TypesFit, FencesFit, TexturesFit, NEW b \in Buffers, ReadBack(b)
  PROVE  TexturesFit'
<1>1. /\ queue' = << >> /\ frame' = [frame EXCEPT !.drawn = {}]
      /\ retired' = Released(slot, << >>)
      /\ UNCHANGED <<cached, recordVars>>
  BY DEF ReadBack
<1>2. frame'.drawn = {}
  BY <1>1 DEF TypesFit, FrameRecords
<1>3. \A s \in Slots : retired'[s] \subseteq retired[s]
  BY <1>1 DEF Released, TypesFit
<1>4. QueueFits(queue', Alive', retired', Busy')
  BY <1>1 DEF QueueFits
<1> QED
  BY <1>1, <1>2, <1>3, <1>4 DEF TexturesFit, recordVars

(* Every step. *)
LEMMA StepTextures == TypesFit /\ FencesFit /\ TexturesFit /\ [Next]_vars => TexturesFit'
<1> SUFFICES ASSUME TypesFit, FencesFit, TexturesFit, [Next]_vars PROVE TexturesFit'
  OBVIOUS
<1>1. ASSUME SuffixOf(queue', queue), UNCHANGED <<frameVars, textureVars>>,
             RecordFits(current', cached), RecordFits(newer', cached), RecordFits(older', cached)
      PROVE  TexturesFit'
  <2>1. cached' = cached
    BY <1>1 DEF textureVars
  <2>2. /\ QueueFits(queue', Alive', retired', Busy')
        /\ \A s \in Slots : cached' \cap retired'[s] = {}
        /\ recording' => /\ frame'.drawn \subseteq Alive'
                         /\ \A s \in Slots \ {slot'} : frame'.drawn \cap retired'[s] = {}
    BY <1>1, RestTextures
  <2> QED
    BY <1>1, <2>1, <2>2 DEF TexturesFit
<1>2. RecordFits(current, cached) /\ RecordFits(newer, cached) /\ RecordFits(older, cached)
  BY DEF TexturesFit
<1>3. SuffixOf(queue, queue)
  BY SuffixSteps DEF TypesFit
<1>4. CASE GpuCatchesUp
  <2>1. /\ queue' = Waited(queue, {PresentFence(p) : p \in PresentSlots})
        /\ UNCHANGED <<frameVars, textureVars, recordVars>>
    BY <1>4 DEF GpuCatchesUp
  <2>2. SuffixOf(queue', queue)
    BY <2>1, WaitedFits DEF TypesFit
  <2> QED
    BY <1>1, <1>2, <2>1, <2>2 DEF recordVars
<1>5. ASSUME NEW repack \in BOOLEAN, NEW wanted \in BOOLEAN, BeginFrame(repack, wanted)
      PROVE  TexturesFit'
  BY <1>5, BeginTextures
<1>6. ASSUME NEW t \in Textures, NEW e \in SUBSET Textures, Draw(t, e) PROVE TexturesFit'
  BY <1>6, DrawTextures
<1>7. CASE PresentUi
  <2>1. recording /\ SubmitFrame /\ UNCHANGED <<textureVars, recordVars>>
    BY <1>7 DEF PresentUi
  <2>2. /\ QueueFits(queue', Alive', retired', Busy') /\ ~recording'
        /\ \A s \in Slots : cached' \cap retired'[s] = {}
    BY <2>1, SubmitTextures
  <2> QED
    BY <1>2, <2>1, <2>2 DEF TexturesFit, textureVars, recordVars
<1>8. ASSUME NEW b \in Buffers, ReadBack(b) PROVE TexturesFit'
  BY <1>8, ReadBackTextures
<1>9. CASE WriteBackFrame
  <2>1. SuffixOf(queue', queue) /\ UNCHANGED <<frameVars, textureVars, recordVars>>
    BY <1>9, WriteBackFits DEF WriteBackFrame
  <2> QED
    BY <1>1, <1>2, <2>1 DEF recordVars
<1>10. ASSUME NEW b \in Buffers, NEW interpolates \in BOOLEAN, Present(b, interpolates) PROVE TexturesFit'
  BY <1>10, PresentTextures
<1>11. ASSUME NEW acquired \in BOOLEAN, NEW blends \in BOOLEAN, PresentBetween(acquired, blends)
       PROVE  TexturesFit'
  BY <1>11, BetweenTextures
<1>12. CASE PauseInterpolation
  BY <1>1, <1>2, <1>3, <1>12 DEF PauseInterpolation, gpuVars
<1>13. CASE SetFrameRate
  BY <1>1, <1>3, <1>13, NoRecordFits DEF SetFrameRate, ResetInterpolation, gpuVars
<1>14. CASE UNCHANGED vars
  BY <1>1, <1>2, <1>3, <1>14 DEF vars, gpuVars, recordVars
<1> QED
  BY <1>4, <1>5, <1>6, <1>7, <1>8, <1>9, <1>10, <1>11, <1>12, <1>13, <1>14 DEF Next

(* At first there are none. *)
LEMMA InitTextures == Init => TexturesFit
<1> SUFFICES ASSUME Init PROVE TexturesFit
  OBVIOUS
<1>1. queue = << >> /\ cached = {} /\ ~recording
      /\ current = NoRecord /\ newer = NoRecord /\ older = NoRecord
  BY DEF Init, recording
<1>2. QueueFits(queue, Alive, retired, Busy)
  BY <1>1 DEF QueueFits
<1> QED
  BY <1>1, <1>2, NoRecordFits DEF TexturesFit

(* Nothing that the GPU may still draw, for a frame or a present, is        *)
(* destroyed when it leaves the texture cache (vulkan_renderer.cpp,         *)
(* release_frame_uploads, textures_kept).                                   *)
THEOREM DrawnTexturesLive == Spec => []NothingInUseIsDestroyed
<1> DEFINE Inv == TypesFit /\ FencesFit /\ TexturesFit
<1>1. Init => Inv
  BY InitFits, InitTextures
<1>2. Inv /\ [Next]_vars => Inv'
  BY StepFits, StepTextures
<1>3. Inv => NothingInUseIsDestroyed
  BY DEF NothingInUseIsDestroyed, QueueFits, TexturesFit, FencesFit, OwnFence
<1> QED
  BY <1>1, <1>2, <1>3, PTL DEF Spec

-----------------------------------------------------------------------------
(* Regions. *)

Ring(n) == (nextRegion + n) % FrameRegions

(* The region of an interpolated frame is the next of the ring; the record  *)
(* being made has been drawn from that, the newer from the one before and   *)
(* the older, while there are both, from the one before that.               *)
RegionsFit ==
  /\ \A i \in DOMAIN queue : queue[i].reads \subseteq queue[i].noted
  /\ recording /\ frame.interpolating =>
       /\ frame.region = nextRegion
       /\ \A i \in DOMAIN queue : nextRegion \notin queue[i].reads
  /\ current.recorded => current.regions \subseteq {nextRegion}
  /\ newer.recorded => newer.regions \subseteq {Ring(2)}
  /\ older.recorded /\ newer.recorded => older.regions \subseteq {Ring(1)}

(* Three regions: one frame on, the next is the one before last. *)
LEMMA RingFacts ==
  \A n \in Regions : LET m == (n + 1) % FrameRegions
                     IN /\ (m + 2) % FrameRegions = n
                        /\ (m + 1) % FrameRegions = (n + 2) % FrameRegions
                        /\ (n + 1) % FrameRegions # n
BY DEF Regions, FrameRegions

(* Evicting textures makes no record read more. *)
LEMMA EvictedReads ==
  ASSUME NEW r \in Records, NEW e, NEW c, RecordFits(r, c)
  PROVE  Evicted(r, e).regions \subseteq r.regions /\ Evicted(r, e).recorded = r.recorded
<1>1. CASE e \cap r.since = {}
  BY <1>1 DEF Evicted
<1>2. CASE e \cap r.since # {}
  <2>1. r.recorded
    BY <1>2 DEF RecordFits, Records
  <2>2. Evicted(r, e) = [NoRecord EXCEPT !.recorded = TRUE, !.gone = TRUE]
    BY <1>2 DEF Evicted
  <2>3. Evicted(r, e).recorded = TRUE /\ Evicted(r, e).regions = {}
    BY <2>2 DEF NoRecord
  <2> QED
    BY <2>1, <2>3 DEF Records
<1> QED
  BY <1>1, <1>2

(* Nor does drawing them. *)
LEMMA DrawnReads ==
  ASSUME NEW r \in Records, NEW t \in Textures, NEW e, NEW c, RecordFits(r, c)
  PROVE  /\ Drawn(Evicted(r, e), t).regions \subseteq r.regions
         /\ Drawn(Evicted(r, e), t).recorded = r.recorded
<1> DEFINE v == Evicted(r, e)
<1>1. v \in Records /\ v.regions \subseteq r.regions /\ v.recorded = r.recorded
  BY RecordFacts, EvictedReads
<1> HIDE DEF v
<1>2. Drawn(v, t).regions = v.regions /\ Drawn(v, t).recorded = v.recorded
  BY <1>1 DEF Drawn, Records
<1> QED
  BY <1>1, <1>2 DEF v

(* Steps after which the newer records read no more than before and the     *)
(* queue holds no more.                                                     *)
LEMMA SameRing ==
  ASSUME TypesFit, RegionsFit, SuffixOf(queue', queue), nextRegion' = nextRegion,
         current'.recorded => current.recorded /\ current'.regions \subseteq current.regions,
         newer'.recorded => newer.recorded /\ newer'.regions \subseteq newer.regions,
         older'.recorded => older.recorded /\ older'.regions \subseteq older.regions,
         recording' /\ frame'.interpolating => recording /\ frame.interpolating /\ frame'.region = frame.region
  PROVE  RegionsFit'
<1>1. \A i \in DOMAIN queue' : \E j \in DOMAIN queue : queue'[i] = queue[j]
  BY SuffixFacts DEF TypesFit
<1>2. Ring(1)' = Ring(1) /\ Ring(2)' = Ring(2)
  BY DEF Ring
<1>3. \A i \in DOMAIN queue' : queue'[i].reads \subseteq queue'[i].noted
  BY <1>1 DEF RegionsFit
<1>4. recording' /\ frame'.interpolating =>
       /\ frame'.region = nextRegion'
       /\ \A i \in DOMAIN queue' : nextRegion' \notin queue'[i].reads
  BY <1>1 DEF RegionsFit
<1> QED
  BY <1>2, <1>3, <1>4 DEF RegionsFit

(* The queue grows by a submission that reads only what it notes, and the   *)
(* region of an interpolated frame is not among it.                         *)
LEMMA RegionsSubmit ==
  ASSUME TypesFit, RegionsFit, NEW q, SuffixOf(q, queue), NEW e \in Entries, queue' = Append(q, e),
         e.reads \subseteq e.noted
  PROVE  /\ \A i \in DOMAIN queue' : queue'[i].reads \subseteq queue'[i].noted
         /\ \A r : (\A i \in DOMAIN queue : r \notin queue[i].reads) /\ r \notin e.reads =>
                     \A i \in DOMAIN queue' : r \notin queue'[i].reads
<1>1. q \in Seq(Entries) /\ \A i \in DOMAIN q : \E j \in DOMAIN queue : q[i] = queue[j]
  <2>1. queue \in Seq(Entries)
    BY DEF TypesFit
  <2>2. q \in Seq(Entries)
    BY DEF SuffixOf
  <2> QED
    BY <2>1, <2>2, SuffixFacts
<1>2. /\ DOMAIN queue' = DOMAIN q \cup {Len(q) + 1} /\ queue'[Len(q) + 1] = e
      /\ \A i \in DOMAIN q : queue'[i] = q[i]
  BY <1>1, SubmittedFacts
<1>3. \A i \in DOMAIN queue' : queue'[i] = e \/ \E j \in DOMAIN queue : queue'[i] = queue[j]
  BY <1>1, <1>2
<1> QED
  BY <1>3 DEF RegionsFit

(* A frame begins when nobody reads its region. *)
LEMMA BeginRegions ==
  ASSUME TypesFit, FencesFit, TexturesFit, RegionsFit, NEW repack \in BOOLEAN, NEW wanted \in BOOLEAN,
         BeginFrame(repack, wanted)
  PROVE  RegionsFit'
<1>1. PICK s, r, q1, q3 : BeginsAs(repack, wanted, s, r, q1, q3)
  BY BeginFacts
<1> s \in Slots /\ r \in Regions
  BY <1>1 DEF BeginsAs
<1>2. /\ SuffixOf(queue', queue) /\ r = (IF wanted THEN nextRegion ELSE s)
      /\ frame' = [interpolating |-> wanted, region |-> r, drawn |-> {}]
      /\ \A i \in DOMAIN queue' : r \notin queue'[i].noted
  BY <1>1 DEF BeginsAs
<1>3. \A i \in DOMAIN queue' : queue'[i].reads \subseteq queue'[i].noted
  <2>1. \A i \in DOMAIN queue' : \E j \in DOMAIN queue : queue'[i] = queue[j]
    BY <1>2, SuffixFacts DEF TypesFit
  <2> QED
    BY <2>1 DEF RegionsFit
<1>4. nextRegion' = nextRegion /\ Ring(1)' = Ring(1) /\ Ring(2)' = Ring(2)
  BY DEF BeginFrame, ringVars, Ring
<1>5. /\ newer' = newer \/ newer' = Evicted(newer, Textures)
      /\ older' = older \/ older' = Evicted(older, Textures)
      /\ \/ current' = current \/ current' = Evicted(current, Textures)
         \/ current' = [NoRecord EXCEPT !.recorded = TRUE]
  BY DEF BeginFrame
<1>6. /\ newer'.regions \subseteq newer.regions /\ newer'.recorded = newer.recorded
      /\ older'.regions \subseteq older.regions /\ older'.recorded = older.recorded
  <2>1. newer \in Records /\ RecordFits(newer, cached) /\ older \in Records /\ RecordFits(older, cached)
    BY DEF TypesFit, TexturesFit
  <2>2. /\ Evicted(newer, Textures).regions \subseteq newer.regions
        /\ Evicted(newer, Textures).recorded = newer.recorded
        /\ Evicted(older, Textures).regions \subseteq older.regions
        /\ Evicted(older, Textures).recorded = older.recorded
    BY <2>1, EvictedReads
  <2> QED
    BY <1>5, <2>2
<1>7. \/ current'.recorded = current.recorded /\ current'.regions \subseteq current.regions
      \/ current'.regions = {}
  <2>1. [NoRecord EXCEPT !.recorded = TRUE].regions = {}
    BY DEF NoRecord
  <2> QED
    <3>1. current \in Records /\ RecordFits(current, cached)
      BY DEF TypesFit, TexturesFit
    <3>2. /\ Evicted(current, Textures).regions \subseteq current.regions
          /\ Evicted(current, Textures).recorded = current.recorded
      BY <3>1, EvictedReads
    <3> QED
      BY <1>5, <2>1, <3>2
<1>8. recording' /\ frame'.interpolating =>
       /\ frame'.region = nextRegion'
       /\ \A i \in DOMAIN queue' : nextRegion' \notin queue'[i].reads
  BY <1>2, <1>3, <1>4
<1>9. current'.recorded => current'.regions \subseteq {nextRegion'}
  BY <1>4, <1>7 DEF RegionsFit
<1>10. /\ newer'.recorded => newer'.regions \subseteq {Ring(2)'}
       /\ older'.recorded /\ newer'.recorded => older'.regions \subseteq {Ring(1)'}
  BY <1>4, <1>6 DEF RegionsFit
<1> QED
  BY <1>3, <1>8, <1>9, <1>10 DEF RegionsFit

(* A draw adds the region of an interpolated frame to its record. *)
LEMMA DrawRegions ==
  ASSUME TypesFit, FencesFit, TexturesFit, RegionsFit, NEW t \in Textures, NEW e \in SUBSET Textures,
         Draw(t, e)
  PROVE  RegionsFit'
<1> DEFINE c == Drawn(Evicted(current, e), t)
<1>1. /\ recording /\ queue' = queue /\ nextRegion' = nextRegion
      /\ frame' = [frame EXCEPT !.drawn = @ \cup {t}]
      /\ newer' = Drawn(Evicted(newer, e), t) /\ older' = Drawn(Evicted(older, e), t)
      /\ \/ current' = c
         \/ /\ frame.interpolating
            /\ current' = [c EXCEPT !.textures = @ \cup {t}, !.regions = @ \cup {frame.region}]
  BY DEF Draw, gpuVars, ringVars
<1>2. frame'.interpolating = frame.interpolating /\ frame'.region = frame.region
  BY <1>1 DEF TypesFit, FrameRecords
<1>3. /\ newer \in Records /\ RecordFits(newer, cached)
      /\ older \in Records /\ RecordFits(older, cached)
      /\ current \in Records /\ RecordFits(current, cached)
  BY DEF TypesFit, TexturesFit
<1>4. /\ newer'.regions \subseteq newer.regions /\ newer'.recorded = newer.recorded
      /\ older'.regions \subseteq older.regions /\ older'.recorded = older.recorded
      /\ c.regions \subseteq current.regions /\ c.recorded = current.recorded
  BY <1>1, <1>3, DrawnReads
<1>5. c \in Records
  BY <1>3, RecordFacts
<1> HIDE DEF c
<1>6. [c EXCEPT !.textures = @ \cup {t}, !.regions = @ \cup {frame.region}].regions = c.regions \cup {frame.region}
      /\ [c EXCEPT !.textures = @ \cup {t}, !.regions = @ \cup {frame.region}].recorded = c.recorded
  BY <1>5 DEF Records
<1>7. current'.recorded => current'.regions \subseteq {nextRegion}
  <2>1. current.recorded => current.regions \subseteq {nextRegion}
    BY DEF RegionsFit
  <2>2. frame.interpolating => frame.region = nextRegion
    BY <1>1 DEF RegionsFit
  <2> QED
    BY <1>1, <1>4, <1>6, <2>1, <2>2
<1>8. Ring(1)' = Ring(1) /\ Ring(2)' = Ring(2)
  BY <1>1 DEF Ring
<1>9. /\ newer'.recorded => newer'.regions \subseteq {Ring(2)'}
      /\ older'.recorded /\ newer'.recorded => older'.regions \subseteq {Ring(1)'}
  BY <1>4, <1>8 DEF RegionsFit
<1>10. /\ \A i \in DOMAIN queue' : queue'[i].reads \subseteq queue'[i].noted
       /\ recording' /\ frame'.interpolating =>
            /\ frame'.region = nextRegion'
            /\ \A i \in DOMAIN queue' : nextRegion' \notin queue'[i].reads
  BY <1>1, <1>2 DEF RegionsFit
<1> QED
  BY <1>1, <1>7, <1>9, <1>10 DEF RegionsFit

(* A flip moves the records on, and the ring with them when the frame has   *)
(* been interpolated.                                                       *)
LEMMA PresentRegions ==
  ASSUME TypesFit, FencesFit, RegionsFit, NEW b \in Buffers, NEW interpolates \in BOOLEAN,
         Present(b, interpolates)
  PROVE  RegionsFit'
<1>1. recording /\ SubmitFrame
  BY DEF Present
<1>2. ~recording'
  BY <1>1, SubmitFacts
<1>3. \A i \in DOMAIN queue' : queue'[i].reads \subseteq queue'[i].noted
  <2>1. PICK e \in Entries : queue' = Append(queue, e) /\ e.reads \subseteq e.noted
    BY <1>1, SubmitFacts
  <2>2. SuffixOf(queue, queue)
    BY SuffixSteps DEF TypesFit
  <2> QED
    BY <2>1, <2>2, RegionsSubmit
<1>4. /\ current'.recorded => current'.regions \subseteq {nextRegion'}
      /\ newer'.recorded => newer'.regions \subseteq {Ring(2)'}
      /\ older'.recorded /\ newer'.recorded => older'.regions \subseteq {Ring(1)'}
  <2>1. NoRecord.recorded = FALSE
    BY DEF NoRecord
  <2>2. CASE FinishInterpolated /\ frame.interpolating
    <3>1. /\ older' = newer /\ newer' = current /\ current' = NoRecord
          /\ nextRegion' = (nextRegion + 1) % FrameRegions /\ nextRegion \in Regions
      BY <1>1, <2>2 DEF FinishInterpolated, RegionsFit, TypesFit
    <3>2. Ring(2)' = nextRegion /\ Ring(1)' = Ring(2)
      BY <3>1, RingFacts DEF Ring
    <3> QED
      BY <2>1, <3>1, <3>2 DEF RegionsFit
  <2>3. CASE FinishInterpolated /\ ~frame.interpolating
    BY <2>1, <2>3 DEF FinishInterpolated
  <2>4. CASE nextRegion' = nextRegion /\ ResetInterpolation
    BY <2>1, <2>4 DEF ResetInterpolation
  <2>5. CASE nextRegion' = nextRegion /\ UNCHANGED recordVars
    BY <2>5 DEF recordVars, RegionsFit, Ring
  <2> QED
    BY <2>2, <2>3, <2>4, <2>5 DEF Present
<1> QED
  BY <1>2, <1>3, <1>4 DEF RegionsFit

(* A present between flips reads a region the frame does not write. *)
LEMMA BetweenRegions ==
  ASSUME TypesFit, FencesFit, RegionsFit, NEW acquired \in BOOLEAN, NEW blends \in BOOLEAN,
         PresentBetween(acquired, blends)
  PROVE  RegionsFit'
<1>1. UNCHANGED <<frameVars, nextRegion, recordVars>>
  BY DEF PresentBetween
<1>2. /\ frame' = frame /\ recording' = recording /\ nextRegion' = nextRegion
      /\ current' = current /\ newer' = newer /\ older' = older
      /\ Ring(1)' = Ring(1) /\ Ring(2)' = Ring(2)
  BY <1>1 DEF frameVars, recordVars, recording, Ring
<1>3. CASE SuffixOf(queue', queue)
  BY <1>2, <1>3, SameRing
<1>4. ASSUME NEW q, NEW e, Between(blends, q, e) PROVE RegionsFit'
  <2>1. /\ SuffixOf(q, queue) /\ e \in Entries /\ queue' = Append(q, e) /\ e.reads \subseteq e.noted
        /\ e.reads = {} \/ (e.reads = older.regions /\ older.recorded /\ newer.recorded)
    BY <1>4 DEF Between, Paired
  <2>2. nextRegion \notin e.reads
    <3>1. nextRegion # Ring(1)
      BY RingFacts DEF Ring, TypesFit
    <3> QED
      BY <2>1, <3>1 DEF RegionsFit
  <2>3. /\ \A i \in DOMAIN queue' : queue'[i].reads \subseteq queue'[i].noted
        /\ \A r : (\A i \in DOMAIN queue : r \notin queue[i].reads) /\ r \notin e.reads =>
                    \A i \in DOMAIN queue' : r \notin queue'[i].reads
    BY <2>1, RegionsSubmit
  <2>4. recording /\ frame.interpolating => \A i \in DOMAIN queue' : nextRegion \notin queue'[i].reads
    BY <2>2, <2>3 DEF RegionsFit
  <2> QED
    BY <1>2, <2>3, <2>4 DEF RegionsFit
<1> QED
  BY <1>3, <1>4, BetweenFits

(* Every step. *)
LEMMA StepRegions == TypesFit /\ FencesFit /\ TexturesFit /\ RegionsFit /\ [Next]_vars => RegionsFit'
<1> SUFFICES ASSUME TypesFit, FencesFit, TexturesFit, RegionsFit, [Next]_vars PROVE RegionsFit'
  OBVIOUS
<1>1. ASSUME SuffixOf(queue', queue), UNCHANGED <<frameVars, nextRegion, recordVars>> PROVE RegionsFit'
  BY <1>1, SameRing DEF frameVars, recordVars, recording
<1>2. SuffixOf(queue, queue)
  BY SuffixSteps DEF TypesFit
<1>3. NoRecord.recorded = FALSE
  BY DEF NoRecord
<1>4. CASE GpuCatchesUp
  <2>1. /\ queue' = Waited(queue, {PresentFence(p) : p \in PresentSlots})
        /\ UNCHANGED <<frameVars, nextRegion, recordVars>>
    BY <1>4 DEF GpuCatchesUp, ringVars
  <2>2. SuffixOf(queue', queue)
    BY <2>1, WaitedFits DEF TypesFit
  <2> QED
    BY <1>1, <2>1, <2>2
<1>5. ASSUME NEW repack \in BOOLEAN, NEW wanted \in BOOLEAN, BeginFrame(repack, wanted)
      PROVE  RegionsFit'
  BY <1>5, BeginRegions
<1>6. ASSUME NEW t \in Textures, NEW e \in SUBSET Textures, Draw(t, e) PROVE RegionsFit'
  BY <1>6, DrawRegions
<1>7. CASE PresentUi
  <2>1. recording /\ SubmitFrame /\ UNCHANGED <<nextRegion, recordVars>>
    BY <1>7 DEF PresentUi, ringVars
  <2>2. PICK e \in Entries : queue' = Append(queue, e) /\ e.reads \subseteq e.noted
    BY <2>1, SubmitFacts
  <2>3. \A i \in DOMAIN queue' : queue'[i].reads \subseteq queue'[i].noted
    BY <1>2, <2>2, RegionsSubmit
  <2>4. ~recording'
    BY <2>1, SubmitFacts
  <2> QED
    BY <2>1, <2>3, <2>4 DEF RegionsFit, recordVars, Ring
<1>8. ASSUME NEW b \in Buffers, ReadBack(b) PROVE RegionsFit'
  <2>1. /\ recording /\ frame' = [frame EXCEPT !.drawn = {}]
        /\ nextRegion' = nextRegion /\ current' = current /\ newer' = newer /\ older' = older
    BY <1>8 DEF ReadBack, ringVars, recordVars
  <2>2. frame'.interpolating = frame.interpolating /\ frame'.region = frame.region
    BY <2>1 DEF TypesFit, FrameRecords
  <2>3. SuffixOf(queue', queue)
    BY <1>8, ReadBackFits, SuffixSteps DEF TypesFit
  <2> QED
    BY <2>1, <2>2, <2>3, SameRing
<1>9. CASE WriteBackFrame
  <2>1. SuffixOf(queue', queue) /\ UNCHANGED <<frameVars, nextRegion, recordVars>>
    BY <1>9, WriteBackFits DEF WriteBackFrame, ringVars
  <2> QED
    BY <1>1, <2>1
<1>10. ASSUME NEW b \in Buffers, NEW interpolates \in BOOLEAN, Present(b, interpolates) PROVE RegionsFit'
  BY <1>10, PresentRegions
<1>11. ASSUME NEW acquired \in BOOLEAN, NEW blends \in BOOLEAN, PresentBetween(acquired, blends)
       PROVE  RegionsFit'
  BY <1>11, BetweenRegions
<1>12. CASE PauseInterpolation
  <2>1. /\ queue' = queue /\ frame' = frame /\ nextRegion' = nextRegion
        /\ current' = current /\ newer' = newer /\ older' = older
    BY <1>12 DEF PauseInterpolation, gpuVars, frameVars, ringVars
  <2> QED
    BY <1>2, <2>1, SameRing DEF recording
<1>13. CASE SetFrameRate
  <2>1. /\ queue' = queue /\ frame' = frame /\ nextRegion' = nextRegion
        /\ current' = NoRecord /\ newer' = NoRecord /\ older' = NoRecord
    BY <1>13 DEF SetFrameRate, ResetInterpolation, gpuVars, frameVars, ringVars
  <2> QED
    BY <1>2, <1>3, <2>1, SameRing DEF recording
<1>14. CASE UNCHANGED vars
  BY <1>1, <1>2, <1>14 DEF vars, gpuVars, ringVars
<1> QED
  BY <1>4, <1>5, <1>6, <1>7, <1>8, <1>9, <1>10, <1>11, <1>12, <1>13, <1>14 DEF Next

(* At first nothing is read. *)
LEMMA InitRegions == Init => RegionsFit
<1> SUFFICES ASSUME Init PROVE RegionsFit
  OBVIOUS
<1>1. queue = << >> /\ ~recording
      /\ current = NoRecord /\ newer = NoRecord /\ older = NoRecord /\ NoRecord.recorded = FALSE
  BY DEF Init, recording, NoRecord
<1> QED
  BY <1>1 DEF RegionsFit

(* While frames are interpolated, no frame is written over vertices that a  *)
(* frame in flight or a present between flips draws from                    *)
(* (vulkan_renderer.cpp, begin_frame, present_between).                     *)
THEOREM RegionsStayApart == Spec => []RegionsApart
<1> DEFINE Inv == TypesFit /\ FencesFit /\ TexturesFit /\ RegionsFit
<1>1. Init => Inv
  BY InitFits, InitTextures, InitRegions
<1>2. Inv /\ [Next]_vars => Inv'
  BY StepFits, StepTextures, StepRegions
<1>3. Inv => RegionsApart
  BY DEF RegionsApart, RegionsFit
<1> QED
  BY <1>1, <1>2, <1>3, PTL DEF Spec
-----------------------------------------------------------------------------
(* Pictures for guest memory.                                               *)

Pictures == [age : 0..MaxAge, buffer : Buffers] \cup {NoWriteback}

(* A picture under way is no older than the one its buffer has stored, nor  *)
(* than the one collected; the current slot's is the youngest, and gone     *)
(* once the slot is recorded again.                                         *)
AgesFit ==
  /\ stored \in [Buffers -> 0..MaxAge]
  /\ inFlight \in [Slots -> Pictures] /\ ready \in Pictures
  /\ recording => inFlight[slot] = NoWriteback
  /\ \A s \in Slots : inFlight[s] # NoWriteback =>
       inFlight[s].age <= stored[inFlight[s].buffer] /\ inFlight[s].age <= ready.age
  /\ ready # NoWriteback => ready.age <= stored[ready.buffer]
  /\ inFlight[slot] # NoWriteback => \A s \in Slots : inFlight[slot].age <= inFlight[s].age

(* What WriteBacksInOrder asks of a step. *)
StoresInOrder ==
  \A b \in Buffers : stored'[b] <= IF recording' /\ ~recording THEN Older(stored[b]) ELSE stored[b]
TakesFinished ==
  \A s \in Slots : inFlight[s] # NoWriteback /\ inFlight'[s] = NoWriteback =>
    FrameFence(s) \notin PendingFences(queue')

(* Growing older keeps the order. *)
LEMMA OlderFacts ==
  /\ \A a \in 0..MaxAge : Older(a) \in 0..MaxAge /\ a <= Older(a)
  /\ \A a, c \in 0..MaxAge : a <= c => Older(a) <= Older(c)
  /\ MaxAge \in Nat /\ 0 \in 0..MaxAge /\ MaxAge \in 0..MaxAge
<1>1. MaxAge \in Nat
  BY FramesAssumption
<1> QED
  BY <1>1 DEF Older

(* Pictures, and pictures grown older. *)
LEMMA PictureFacts ==
  /\ NoWriteback \in Pictures /\ NoWriteback.age = MaxAge
  /\ \A b \in Buffers : [age |-> 0, buffer |-> b] \in Pictures
  /\ \A w \in Pictures :
       /\ w.age \in 0..MaxAge /\ (w # NoWriteback => w.buffer \in Buffers)
       /\ OlderPicture(w) \in Pictures /\ OlderPicture(w).age = Older(w.age)
       /\ OlderPicture(w).buffer = w.buffer
       /\ OlderPicture(w) = NoWriteback <=> w = NoWriteback
<1>1. NoWriteback \in Pictures /\ NoWriteback.age = MaxAge /\ NoWriteback.buffer = "none"
  BY DEF Pictures, NoWriteback
<1>2. "none" \notin Buffers
  BY FramesAssumption
<1>3. \A b \in Buffers : [age |-> 0, buffer |-> b] \in Pictures
  BY OlderFacts DEF Pictures
<1>4. ASSUME NEW w \in Pictures
      PROVE  /\ w.age \in 0..MaxAge /\ (w # NoWriteback => w.buffer \in Buffers)
             /\ OlderPicture(w) \in Pictures /\ OlderPicture(w).age = Older(w.age)
             /\ OlderPicture(w).buffer = w.buffer
             /\ OlderPicture(w) = NoWriteback <=> w = NoWriteback
  <2>1. CASE w = NoWriteback
    <3>1. Older(MaxAge) = MaxAge
      BY OlderFacts DEF Older
    <3>2. OlderPicture(w) = NoWriteback
      BY <2>1, <3>1, <1>1 DEF OlderPicture, NoWriteback
    <3> QED
      BY <2>1, <3>1, <3>2, <1>1, OlderFacts
  <2>2. CASE w # NoWriteback
    <3>1. w \in [age : 0..MaxAge, buffer : Buffers]
      BY <2>2, <1>4 DEF Pictures
    <3>2. OlderPicture(w) = [w EXCEPT !.age = Older(w.age)] /\ Older(w.age) \in 0..MaxAge
      BY <3>1, OlderFacts DEF OlderPicture
    <3>3. /\ OlderPicture(w) \in [age : 0..MaxAge, buffer : Buffers]
          /\ OlderPicture(w).age = Older(w.age) /\ OlderPicture(w).buffer = w.buffer
      <4> HIDE DEF OlderPicture
      <4> QED
        BY <3>1, <3>2
    <3>4. OlderPicture(w) # NoWriteback
      BY <3>3, <1>1, <1>2
    <3> QED
      BY <2>2, <3>1, <3>3, <3>4 DEF Pictures
  <2> QED
    BY <2>1, <2>2
<1> QED
  BY <1>1, <1>3, <1>4

(* With two slots the one before the current is the one after it, and there *)
(* is no other.                                                             *)
LEMMA OtherSlot ==
  ASSUME slot \in Slots
  PROVE  /\ (slot + 1) % SlotCount \in Slots /\ (slot + SlotCount - 1) % SlotCount \in Slots
         /\ \A s \in Slots : s # slot => s = (slot + 1) % SlotCount
         /\ \A s, o \in Slots : s # slot /\ o # s => o = slot
<1>1. SlotCount \in {1, 2}
  BY FramesAssumption
<1>2. CASE SlotCount = 1
  BY <1>2 DEF Slots
<1>3. CASE SlotCount = 2
  BY <1>3 DEF Slots
<1> QED
  BY <1>1, <1>2, <1>3

(* Steps that leave the pictures alone, and record or not as before. *)
LEMMA SamePictures ==
  ASSUME AgesFit, slot' = slot, recording' => recording, UNCHANGED writebackVars
  PROVE  AgesFit' /\ StoresInOrder /\ TakesFinished
<1>1. inFlight' = inFlight /\ ready' = ready /\ stored' = stored
  BY DEF writebackVars
<1>2. AgesFit'
  BY <1>1 DEF AgesFit
<1>3. StoresInOrder
  <2> SUFFICES ASSUME NEW b \in Buffers
               PROVE  stored'[b] <= IF recording' /\ ~recording THEN Older(stored[b]) ELSE stored[b]
    BY DEF StoresInOrder
  <2>1. stored[b] \in 0..MaxAge
    BY DEF AgesFit
  <2>2. stored[b] <= stored[b]
    BY <2>1
  <2> QED
    BY <1>1, <2>2
<1>4. TakesFinished
  BY <1>1 DEF TakesFinished
<1> QED
  BY <1>2, <1>3, <1>4

(* When a frame begins its slot's picture is collected, and all grow older. *)
LEMMA BeginAges ==
  ASSUME TypesFit, FencesFit, AgesFit, NEW repack \in BOOLEAN, NEW wanted \in BOOLEAN,
         BeginFrame(repack, wanted)
  PROVE  AgesFit' /\ StoresInOrder /\ TakesFinished
<1> DEFINE s == (slot + 1) % SlotCount
<1>1. /\ ~recording /\ slot' = s
      /\ ready' = OlderPicture(CollectedReady(s))
      /\ inFlight' = [o \in Slots |-> OlderPicture(CollectedIn(s)[o])]
      /\ stored' = [b \in Buffers |-> Older(stored[b])]
  BY DEF BeginFrame
<1>2. PICK r, q1, q3 : BeginsAs(repack, wanted, s, r, q1, q3)
  <2>1. PICK t, r, q1, q3 : BeginsAs(repack, wanted, t, r, q1, q3)
    BY BeginFacts
  <2>2. t = s
    BY <2>1, <1>1 DEF BeginsAs
  <2> QED
    BY <2>1, <2>2
<1>3. s \in Slots /\ slot \in Slots /\ \A o \in Slots : o # s => o = slot
  BY OtherSlot DEF TypesFit
<1> HIDE DEF s
<1>4. /\ inFlight'[s] = NoWriteback
      /\ \A o \in Slots : o # s => inFlight'[o] = OlderPicture(inFlight[o])
  <2>1. CollectedIn(s)[s] = NoWriteback /\ \A o \in Slots : o # s => CollectedIn(s)[o] = inFlight[o]
    BY <1>3 DEF CollectedIn, AgesFit
  <2>2. OlderPicture(NoWriteback) = NoWriteback
    BY PictureFacts
  <2> QED
    BY <1>1, <1>3, <2>1, <2>2
<1>5. stored' \in [Buffers -> 0..MaxAge] /\ \A b \in Buffers : stored'[b] = Older(stored[b])
  BY <1>1, OlderFacts DEF AgesFit
<1> DEFINE c == CollectedReady(s)
<1>6. /\ c \in Pictures /\ (c # NoWriteback => c.age <= stored[c.buffer])
      /\ \A o \in Slots : o # s /\ inFlight[o] # NoWriteback => inFlight[o].age <= c.age
  <2>1. CASE inFlight[s] = NoWriteback
    BY <2>1 DEF CollectedReady, AgesFit
  <2>2. CASE inFlight[s] # NoWriteback
    BY <2>2, <1>3 DEF CollectedReady, AgesFit
  <2> QED
    BY <2>1, <2>2
<1>7. ready' = OlderPicture(c)
  BY <1>1
<1> HIDE DEF c
<1>8. inFlight' \in [Slots -> Pictures]
  <2>1. inFlight' = [o \in Slots |-> inFlight'[o]]
    BY <1>1
  <2>2. \A o \in Slots : inFlight'[o] \in Pictures
    BY <1>4, PictureFacts DEF AgesFit
  <2> QED
    BY <2>1, <2>2
<1>9. ASSUME NEW o \in Slots, inFlight'[o] # NoWriteback
      PROVE  inFlight'[o].age <= stored'[inFlight'[o].buffer] /\ inFlight'[o].age <= ready'.age
  <2>1. o # s /\ inFlight'[o] = OlderPicture(inFlight[o]) /\ inFlight[o] \in Pictures
    BY <1>4, <1>9 DEF AgesFit
  <2>2. inFlight[o] # NoWriteback
    BY <2>1, <1>9, PictureFacts
  <2>3. /\ inFlight[o].age \in 0..MaxAge /\ inFlight[o].buffer \in Buffers
        /\ inFlight'[o].age = Older(inFlight[o].age) /\ inFlight'[o].buffer = inFlight[o].buffer
    BY <2>1, <2>2, PictureFacts
  <2>4. inFlight[o].age <= stored[inFlight[o].buffer] /\ inFlight[o].age <= c.age
    BY <2>1, <2>2, <1>6 DEF AgesFit
  <2>5. stored[inFlight[o].buffer] \in 0..MaxAge /\ c.age \in 0..MaxAge
    BY <2>3, <1>6, PictureFacts DEF AgesFit
  <2>6. ready'.age = Older(c.age)
    BY <1>6, <1>7, PictureFacts
  <2> QED
    BY <2>3, <2>4, <2>5, <2>6, <1>5, OlderFacts
<1>10. ready' \in Pictures /\ (ready' # NoWriteback => ready'.age <= stored'[ready'.buffer])
  <2>1. ready' \in Pictures
    BY <1>6, <1>7, PictureFacts
  <2>2. ASSUME ready' # NoWriteback PROVE ready'.age <= stored'[ready'.buffer]
    <3>1. c # NoWriteback
      BY <2>2, <1>6, <1>7, PictureFacts
    <3>2. c.age \in 0..MaxAge /\ c.buffer \in Buffers /\ ready'.age = Older(c.age) /\ ready'.buffer = c.buffer
      BY <3>1, <1>6, <1>7, PictureFacts
    <3>3. c.age <= stored[c.buffer] /\ stored[c.buffer] \in 0..MaxAge
      BY <3>1, <3>2, <1>6 DEF AgesFit
    <3> QED
      BY <3>2, <3>3, <1>5, OlderFacts
  <2> QED
    BY <2>1, <2>2
<1>11. AgesFit'
  BY <1>1, <1>4, <1>5, <1>8, <1>9, <1>10 DEF AgesFit
<1>12. StoresInOrder
  <2>1. recording'
    BY <1>2 DEF BeginsAs
  <2>2. \A b \in Buffers : Older(stored[b]) <= Older(stored[b])
    <3>1. \A b \in Buffers : Older(stored[b]) \in 0..MaxAge
      BY OlderFacts DEF AgesFit
    <3> QED
      BY <3>1
  <2> QED
    BY <1>1, <1>5, <2>1, <2>2 DEF StoresInOrder
<1>13. TakesFinished
  <2> SUFFICES ASSUME NEW o \in Slots, inFlight[o] # NoWriteback, inFlight'[o] = NoWriteback
               PROVE  FrameFence(o) \notin PendingFences(queue')
    BY DEF TakesFinished
  <2>1. o = s
    <3>1. inFlight[o] \in Pictures
      BY DEF AgesFit
    <3> QED
      BY <3>1, <1>4, PictureFacts
  <2> QED
    BY <2>1, <1>2 DEF BeginsAs
<1> QED
  BY <1>11, <1>12, <1>13

(* A read-back stores the newest picture and drops the older one of its     *)
(* buffer.                                                                  *)
LEMMA ReadBackAges ==
  ASSUME TypesFit, FencesFit, AgesFit, NEW b \in Buffers, ReadBack(b)
  PROVE  AgesFit' /\ StoresInOrder /\ TakesFinished
<1> DEFINE others == {o \in Slots \ {slot} : inFlight[o] # NoWriteback}
           r == IF others = {} THEN ready ELSE inFlight[CHOOSE o \in others : TRUE]
<1>1. /\ inFlight' = [o \in Slots |-> NoWriteback]
      /\ stored' = [stored EXCEPT ![b] = 0]
      /\ ready' = IF r.buffer = b THEN NoWriteback ELSE r
      /\ slot' = slot
  BY DEF ReadBack
<1>2. r \in Pictures /\ (r # NoWriteback => r.age <= stored[r.buffer])
  <2>1. CASE others = {}
    BY <2>1 DEF AgesFit
  <2>2. CASE others # {}
    <3>1. PICK o \in Slots : r = inFlight[o]
      BY <2>2
    <3> HIDE DEF r
    <3> QED
      BY <3>1 DEF AgesFit
  <2> QED
    BY <2>1, <2>2
<1> HIDE DEF r
<1>3. recording /\ queue' = << >>
  BY ReadBackFits
<1>4. /\ stored \in [Buffers -> 0..MaxAge] /\ stored' \in [Buffers -> 0..MaxAge]
      /\ stored'[b] = 0 /\ \A c \in Buffers : c # b => stored'[c] = stored[c]
  BY <1>1, OlderFacts DEF AgesFit
<1>5. ready' \in Pictures /\ (ready' # NoWriteback => ready'.age <= stored'[ready'.buffer])
  <2>1. CASE r.buffer = b
    BY <2>1, <1>1, PictureFacts
  <2>2. CASE r.buffer # b
    BY <2>2, <1>1, <1>2, <1>4, PictureFacts
  <2> QED
    BY <2>1, <2>2
<1>6. AgesFit'
  <2>1. \A o \in Slots : inFlight'[o] = NoWriteback
    BY <1>1
  <2>2. inFlight' \in [Slots -> Pictures]
    BY <1>1, PictureFacts
  <2>3. slot' \in Slots
    BY <1>1 DEF TypesFit
  <2> QED
    BY <1>4, <1>5, <2>1, <2>2, <2>3 DEF AgesFit
<1>7. StoresInOrder
  <2> SUFFICES ASSUME NEW c \in Buffers PROVE stored'[c] <= stored[c]
    BY <1>3 DEF StoresInOrder
  <2>1. stored[c] \in 0..MaxAge
    BY <1>4
  <2> QED
    BY <1>4, <2>1
<1>8. TakesFinished
  BY <1>3 DEF TakesFinished, PendingFences
<1> QED
  BY <1>6, <1>7, <1>8

(* A flip stores the oldest picture under way. *)
LEMMA WriteBackAges ==
  ASSUME TypesFit, FencesFit, AgesFit, WriteBackFrame
  PROVE  AgesFit' /\ StoresInOrder /\ TakesFinished
<1> DEFINE p == (slot + SlotCount - 1) % SlotCount
           collects == p # slot /\ inFlight[p] # NoWriteback
           r == IF collects THEN inFlight[p] ELSE ready
<1>1. /\ queue' = IF collects THEN Waited(queue, {FrameFence(p)}) ELSE queue
      /\ inFlight' = IF collects THEN CollectedIn(p) ELSE inFlight
      /\ ready' = NoWriteback
      /\ stored' = IF r = NoWriteback THEN stored ELSE [stored EXCEPT ![r.buffer] = r.age]
      /\ slot' = slot
  BY DEF WriteBackFrame, frameVars
<1>2. recording' = recording
  BY WriteBackFits
<1>3. p \in Slots /\ slot \in Slots /\ (p # slot => \A o \in Slots : o # p => o = slot)
  BY OtherSlot DEF TypesFit
<1> HIDE DEF p
<1>4. /\ r \in Pictures /\ (r # NoWriteback => r.age <= stored[r.buffer])
      /\ \A o \in Slots : inFlight'[o] # NoWriteback =>
           inFlight'[o] = inFlight[o] /\ inFlight[o].age <= r.age
      /\ inFlight' \in [Slots -> Pictures]
  <2>1. CASE collects
    <3>1. /\ inFlight'[p] = NoWriteback /\ inFlight' \in [Slots -> Pictures]
          /\ \A o \in Slots : o # p => inFlight'[o] = inFlight[o] /\ o = slot
      BY <2>1, <1>1, <1>3, PictureFacts DEF CollectedIn, AgesFit
    <3>2. r = inFlight[p]
      BY <2>1
    <3> QED
      BY <3>1, <3>2, <2>1, <1>3 DEF AgesFit
  <2>2. CASE ~collects
    BY <2>2, <1>1 DEF AgesFit
  <2> QED
    BY <2>1, <2>2
<1>5. TakesFinished
  <2> SUFFICES ASSUME NEW o \in Slots, inFlight[o] # NoWriteback, inFlight'[o] = NoWriteback
               PROVE  FrameFence(o) \notin PendingFences(queue')
    BY DEF TakesFinished
  <2>1. collects
    BY <1>1
  <2>2. o = p
    BY <2>1, <1>1, <1>3 DEF CollectedIn, AgesFit
  <2>3. queue' = Waited(queue, {FrameFence(p)})
    BY <2>1, <1>1
  <2> QED
    BY <2>2, <2>3, WaitedFits DEF TypesFit, PendingFences
<1> HIDE DEF r, collects
<1>6. /\ stored \in [Buffers -> 0..MaxAge] /\ stored' \in [Buffers -> 0..MaxAge]
      /\ \A b \in Buffers : stored'[b] = IF r # NoWriteback /\ b = r.buffer THEN r.age ELSE stored[b]
  <2>1. r # NoWriteback => r.buffer \in Buffers /\ r.age \in 0..MaxAge
    BY <1>4, PictureFacts
  <2>2. stored \in [Buffers -> 0..MaxAge]
    BY DEF AgesFit
  <2> QED
    BY <1>1, <2>1, <2>2
<1>7. StoresInOrder
  <2> SUFFICES ASSUME NEW b \in Buffers PROVE stored'[b] <= stored[b]
    BY <1>2 DEF StoresInOrder
  <2>1. stored[b] \in 0..MaxAge
    BY <1>6
  <2> QED
    BY <1>4, <1>6, <2>1
<1>8. ASSUME NEW o \in Slots, inFlight'[o] # NoWriteback
      PROVE  inFlight'[o].age <= stored'[inFlight'[o].buffer] /\ inFlight'[o].age <= ready'.age
  <2>1. /\ inFlight'[o] = inFlight[o] /\ inFlight[o].age <= r.age
        /\ inFlight[o].age \in 0..MaxAge /\ inFlight[o].buffer \in Buffers
    BY <1>4, <1>8, PictureFacts
  <2>2. inFlight[o].age <= stored[inFlight[o].buffer]
    BY <2>1, <1>8 DEF AgesFit
  <2>3. ready'.age = MaxAge
    BY <1>1, PictureFacts
  <2>4. MaxAge \in Nat
    BY OlderFacts
  <2> QED
    BY <2>1, <2>2, <2>3, <2>4, <1>6
<1>9. inFlight'[slot] # NoWriteback => \A o \in Slots : inFlight'[slot].age <= inFlight'[o].age
  <2> SUFFICES ASSUME inFlight'[slot] # NoWriteback, NEW o \in Slots
               PROVE  inFlight'[slot].age <= inFlight'[o].age
    OBVIOUS
  <2>1. inFlight'[slot] = inFlight[slot] /\ inFlight[slot] \in Pictures
    BY <1>3, <1>4 DEF AgesFit
  <2>2. CASE inFlight'[o] = NoWriteback
    BY <2>1, <2>2, PictureFacts, OlderFacts
  <2>3. CASE inFlight'[o] # NoWriteback
    <3>1. inFlight'[o] = inFlight[o]
      BY <2>3, <1>4
    <3> QED
      BY <2>1, <3>1 DEF AgesFit
  <2> QED
    BY <2>2, <2>3
<1>10. recording' => inFlight'[slot] = NoWriteback
  BY <1>2, <1>3, <1>4 DEF AgesFit
<1>11. AgesFit'
  BY <1>1, <1>4, <1>6, <1>8, <1>9, <1>10, PictureFacts DEF AgesFit
<1> QED
  BY <1>5, <1>7, <1>11

(* A flip takes the picture of the buffer it shows. *)
LEMMA PresentAges ==
  ASSUME TypesFit, FencesFit, AgesFit, NEW b \in Buffers, NEW interpolates \in BOOLEAN,
         Present(b, interpolates)
  PROVE  AgesFit' /\ StoresInOrder /\ TakesFinished
<1> DEFINE w == [age |-> 0, buffer |-> b]
<1>1. /\ recording /\ SubmitFrame /\ ready' = ready /\ stored' = stored
      /\ inFlight' = [inFlight EXCEPT ![slot] = w]
  BY DEF Present
<1>2. slot' = slot /\ ~recording'
  BY <1>1, SubmitFacts
<1>3. w \in Pictures /\ w.age = 0 /\ w.buffer = b /\ w # NoWriteback
  <2>1. w \in Pictures /\ w.age = 0 /\ w.buffer = b
    BY PictureFacts
  <2>2. b # "none" /\ NoWriteback.buffer = "none"
    BY FramesAssumption DEF NoWriteback
  <2> QED
    BY <2>1, <2>2
<1> HIDE DEF w
<1>4. /\ slot \in Slots /\ inFlight' \in [Slots -> Pictures] /\ inFlight'[slot] = w
      /\ \A o \in Slots : o # slot => inFlight'[o] = inFlight[o]
  BY <1>1, <1>3 DEF AgesFit, TypesFit
<1>5. \A o \in Slots : inFlight'[o].age \in 0..MaxAge
  BY <1>4, PictureFacts
<1>6. stored[b] \in 0..MaxAge /\ ready.age \in 0..MaxAge
  BY PictureFacts DEF AgesFit
<1>7. ASSUME NEW o \in Slots, inFlight'[o] # NoWriteback
      PROVE  inFlight'[o].age <= stored'[inFlight'[o].buffer] /\ inFlight'[o].age <= ready'.age
  <2>1. CASE o = slot
    BY <2>1, <1>1, <1>3, <1>4, <1>6
  <2>2. CASE o # slot
    BY <2>2, <1>1, <1>4, <1>7 DEF AgesFit
  <2> QED
    BY <2>1, <2>2
<1>8. \A o \in Slots : inFlight'[slot].age <= inFlight'[o].age
  BY <1>3, <1>4, <1>5
<1>9. AgesFit'
  BY <1>1, <1>2, <1>4, <1>7, <1>8 DEF AgesFit
<1>10. StoresInOrder
  <2>1. \A c \in Buffers : stored[c] \in 0..MaxAge
    BY DEF AgesFit
  <2>2. \A c \in Buffers : stored[c] <= stored[c]
    BY <2>1
  <2> QED
    BY <1>1, <2>2 DEF StoresInOrder
<1>11. TakesFinished
  BY <1>3, <1>4 DEF TakesFinished
<1> QED
  BY <1>9, <1>10, <1>11

(* Every step. *)
LEMMA StepAges ==
  ASSUME TypesFit, FencesFit, AgesFit, [Next]_vars
  PROVE  AgesFit' /\ StoresInOrder /\ TakesFinished
<1>1. ASSUME UNCHANGED <<frameVars, writebackVars>> PROVE AgesFit' /\ StoresInOrder /\ TakesFinished
  <2>1. slot' = slot /\ recording' = recording
    BY <1>1 DEF frameVars, recording
  <2> QED
    BY <1>1, <2>1, SamePictures
<1>2. CASE GpuCatchesUp
  BY <1>1, <1>2 DEF GpuCatchesUp
<1>3. ASSUME NEW repack \in BOOLEAN, NEW wanted \in BOOLEAN, BeginFrame(repack, wanted)
      PROVE  AgesFit' /\ StoresInOrder /\ TakesFinished
  BY <1>3, BeginAges
<1>4. ASSUME NEW t \in Textures, NEW e \in SUBSET Textures, Draw(t, e)
      PROVE  AgesFit' /\ StoresInOrder /\ TakesFinished
  <2>1. recording /\ slot' = slot /\ UNCHANGED writebackVars
    BY <1>4 DEF Draw
  <2> QED
    BY <2>1, SamePictures
<1>5. CASE PresentUi
  <2>1. recording /\ SubmitFrame /\ UNCHANGED writebackVars
    BY <1>5 DEF PresentUi
  <2>2. slot' = slot /\ ~recording'
    BY <2>1, SubmitFacts
  <2> QED
    BY <2>1, <2>2, SamePictures
<1>6. ASSUME NEW b \in Buffers, ReadBack(b) PROVE AgesFit' /\ StoresInOrder /\ TakesFinished
  BY <1>6, ReadBackAges
<1>7. CASE WriteBackFrame
  BY <1>7, WriteBackAges
<1>8. ASSUME NEW b \in Buffers, NEW interpolates \in BOOLEAN, Present(b, interpolates)
      PROVE  AgesFit' /\ StoresInOrder /\ TakesFinished
  BY <1>8, PresentAges
<1>9. ASSUME NEW acquired \in BOOLEAN, NEW blends \in BOOLEAN, PresentBetween(acquired, blends)
      PROVE  AgesFit' /\ StoresInOrder /\ TakesFinished
  BY <1>1, <1>9 DEF PresentBetween
<1>10. CASE PauseInterpolation
  BY <1>1, <1>10 DEF PauseInterpolation
<1>11. CASE SetFrameRate
  BY <1>1, <1>11 DEF SetFrameRate
<1>12. CASE UNCHANGED vars
  BY <1>1, <1>12 DEF vars
<1> QED
  BY <1>2, <1>3, <1>4, <1>5, <1>6, <1>7, <1>8, <1>9, <1>10, <1>11, <1>12 DEF Next

(* At first no picture is under way. *)
LEMMA InitAges == Init => AgesFit
<1> SUFFICES ASSUME Init PROVE AgesFit
  OBVIOUS
<1>1. /\ inFlight = [s \in Slots |-> NoWriteback] /\ ready = NoWriteback
      /\ stored = [b \in Buffers |-> MaxAge] /\ slot \in Slots
  BY ConstantFacts DEF Init
<1> QED
  BY <1>1, PictureFacts, OlderFacts DEF AgesFit

(* Guest memory never goes back to an older picture of a buffer, and a      *)
(* picture is only taken when its frame has finished (vulkan_renderer.cpp,  *)
(* collect_writeback, write_back_frame, read_back_framebuffer).             *)
THEOREM PicturesStayInOrder == Spec => WriteBacksInOrder
<1> DEFINE Inv == TypesFit /\ FencesFit /\ AgesFit
<1>1. Init => Inv
  BY InitFits, InitAges
<1>2. Inv /\ [Next]_vars => Inv'
  BY StepFits, StepAges
<1>3. Inv /\ [Next]_vars =>
        [/\ \A b \in Buffers : stored'[b] <= IF recording' /\ ~recording THEN Older(stored[b]) ELSE stored[b]
         /\ \A s \in Slots : inFlight[s] # NoWriteback /\ inFlight'[s] = NoWriteback =>
              FrameFence(s) \notin PendingFences(queue')]_vars
  BY StepAges DEF StoresInOrder, TakesFinished
<1> QED
  BY <1>1, <1>2, <1>3, PTL DEF Spec, WriteBacksInOrder
=============================================================================
