------------------------- MODULE AdhocStreams_proofs -------------------------
(****************************************************************************)
(* Proofs about AdhocStreams for every number of sockets and all bounds:    *)
(* sessions are paired two and two and a game finds a stream open only when *)
(* it was paired, and a socket receives what one peer sent, from its first  *)
(* block on, in order and without a gap.                                    *)
(****************************************************************************)
EXTENDS AdhocStreams, WellFoundedInduction, TLAPS

Blocks == Streams \X Nat
Messages == Blocks \cup {Notice}
Records == {"Connect", "Accept", "Listen"}

(* The first blocks of what p sent. *)
IsStream(q, p) == q = [i \in 1..Len(q) |-> <<p, i>>]

(* q is the beginning of what one of us sent. *)
From(q, us, sentBy) ==
  /\ q \in Seq(Blocks)
  /\ \E p \in us : IsStream(q, p) /\ Len(q) <= sentBy[p]

(* q is the beginning of what one of us sent, and all of it if connection k *)
(* still has a socket: then that one sent it.                               *)
FromEnd(q, k, us, sentBy, linked) ==
  /\ q \in Seq(Blocks)
  /\ \E p \in us :
       /\ IsStream(q, p) /\ Len(q) <= sentBy[p]
       /\ \A t \in Streams : linked[t] = k => t = p /\ Len(q) = sentBy[p]

(* What is on its way to a socket less the notice that comes first. *)
Data(q) == IF q # << >> /\ q[1] = Notice THEN Tail(q) ELSE q

-----------------------------------------------------------------------------
(* A block is no notice. *)
LEMMA BlocksAreBlocks ==
  ASSUME NEW b \in Blocks
  PROVE  b # Notice
<1>1. PICK p \in Streams, n \in Nat : b = <<p, n>>
  BY DEF Blocks
<1>2. Len(b) = 2 /\ Len(<< >>) = 0
  BY <1>1
<1> QED
  BY <1>2 DEF Notice

(* The beginning of a stream, and one block more. *)
LEMMA StreamBegins ==
  ASSUME NEW p
  PROVE  << >> \in Seq(Blocks) /\ IsStream(<< >>, p) /\ Len(<< >>) = 0
<1>1. << >> \in Seq(Blocks) /\ Len(<< >>) = 0
  OBVIOUS
<1>2. << >> = [i \in 1..0 |-> <<p, i>>]
  OBVIOUS
<1> QED
  BY <1>1, <1>2 DEF IsStream

LEMMA StreamGrows ==
  ASSUME NEW q \in Seq(Blocks), NEW p \in Streams, IsStream(q, p)
  PROVE  /\ Append(q, <<p, Len(q) + 1>>) \in Seq(Blocks)
         /\ IsStream(Append(q, <<p, Len(q) + 1>>), p)
         /\ Len(Append(q, <<p, Len(q) + 1>>)) = Len(q) + 1
<1> DEFINE b == <<p, Len(q) + 1>>
           a == Append(q, b)
           n == Len(q)
<1>1. b \in Blocks /\ n \in Nat
  BY DEF Blocks
<1>2. a \in Seq(Blocks) /\ Len(a) = n + 1 /\ a[n + 1] = b /\ \A i \in 1..n : a[i] = q[i]
  BY <1>1
<1>3. \A i \in 1..n : q[i] = <<p, i>>
  BY DEF IsStream
<1>4. b = <<p, n + 1>>
  OBVIOUS
<1> HIDE DEF a, b, n
<1>5. \A i \in 1..n + 1 : a[i] = <<p, i>>
  <2> SUFFICES ASSUME NEW i \in 1..n + 1 PROVE a[i] = <<p, i>>
    OBVIOUS
  <2>1. CASE i = n + 1
    BY <1>2, <1>4, <2>1
  <2>2. CASE i # n + 1
    <3>1. i \in 1..n
      BY <1>1, <2>2
    <3> QED
      BY <1>2, <1>3, <3>1
  <2> QED
    BY <2>1, <2>2
<1>6. a = [i \in 1..n + 1 |-> a[i]]
  BY <1>1, <1>2
<1>7. a = [i \in 1..n + 1 |-> <<p, i>>]
  BY <1>5, <1>6
<1>8. IsStream(a, p)
  BY <1>2, <1>7 DEF IsStream
<1> QED
  BY <1>2, <1>8 DEF a, b, n

(* What comes first of a stream is the beginning of it. *)
LEMMA StreamPrefix ==
  ASSUME NEW a \in Seq(Blocks), NEW b \in Seq(Blocks), NEW p, IsStream(a \o b, p)
  PROVE  IsStream(a, p) /\ Len(a) <= Len(a \o b) /\ a \o b \in Seq(Blocks)
<1> DEFINE c == a \o b
           m == Len(a)
           n == Len(b)
<1>1. /\ c \in Seq(Blocks) /\ m \in Nat /\ n \in Nat /\ Len(c) = m + n
      /\ \A i \in 1..m : c[i] = a[i]
  OBVIOUS
<1>2. \A i \in 1..Len(c) : c[i] = <<p, i>>
  BY DEF IsStream
<1>3. a = [i \in 1..m |-> a[i]]
  OBVIOUS
<1> HIDE DEF c, m, n
<1>4. \A i \in 1..m : a[i] = <<p, i>>
  <2> SUFFICES ASSUME NEW i \in 1..m PROVE a[i] = <<p, i>>
    OBVIOUS
  <2>1. i \in 1..Len(c)
    BY <1>1
  <2> QED
    BY <2>1, <1>1, <1>2
<1>5. a = [i \in 1..m |-> <<p, i>>]
  BY <1>3, <1>4
<1>6. IsStream(a, p)
  BY <1>5 DEF IsStream, m
<1> QED
  BY <1>1, <1>6 DEF c, m

(* Sequences that say the same are the same. *)
LEMMA SameSeq ==
  ASSUME NEW S, NEW a \in Seq(S), NEW b \in Seq(S), Len(a) = Len(b),
         \A i \in 1..Len(a) : a[i] = b[i]
  PROVE  a = b
<1>1. a = [i \in 1..Len(a) |-> a[i]] /\ b = [i \in 1..Len(a) |-> b[i]]
  OBVIOUS
<1> QED
  BY <1>1

(* Two sequences, one behind the other. *)
LEMMA Together ==
  ASSUME NEW S, NEW a \in Seq(S), NEW b \in Seq(S)
  PROVE  /\ a \o b \in Seq(S) /\ Len(a \o b) = Len(a) + Len(b)
         /\ \A i \in 1..Len(a) : (a \o b)[i] = a[i]
         /\ \A i \in 1..Len(b) : (a \o b)[Len(a) + i] = b[i]
OBVIOUS

(* A block that moves on stays in its place. *)
LEMMA MoveOn ==
  ASSUME NEW S, NEW a \in Seq(S), NEW b \in Seq(S), b # << >>
  PROVE  /\ Append(a, Head(b)) \in Seq(S) /\ Tail(b) \in Seq(S)
         /\ a \o b = Append(a, Head(b)) \o Tail(b)
<1> DEFINE m == Len(a)
           n == Len(b)
           c == Append(a, Head(b))
           d == Tail(b)
           x == a \o b
           y == c \o d
<1>1. /\ m \in Nat /\ n \in Nat /\ n > 0 /\ Head(b) = b[1] /\ b[1] \in S
      /\ x \in Seq(S) /\ Len(x) = m + n
      /\ \A i \in 1..m : x[i] = a[i]
      /\ \A i \in 1..n : x[m + i] = b[i]
  OBVIOUS
<1>2. /\ c \in Seq(S) /\ Len(c) = m + 1 /\ c[m + 1] = b[1] /\ \A i \in 1..m : c[i] = a[i]
  BY <1>1
<1>3. d \in Seq(S) /\ Len(d) = n - 1 /\ \A i \in 1..n - 1 : d[i] = b[i + 1]
  BY <1>1
<1> HIDE DEF m, n, c, d, x
<1>4. /\ y \in Seq(S) /\ Len(y) = (m + 1) + (n - 1)
      /\ \A i \in 1..m + 1 : y[i] = c[i]
      /\ \A i \in 1..n - 1 : y[(m + 1) + i] = d[i]
  <2>1. /\ y \in Seq(S) /\ Len(y) = Len(c) + Len(d)
        /\ \A i \in 1..Len(c) : y[i] = c[i]
        /\ \A i \in 1..Len(d) : y[Len(c) + i] = d[i]
    <3>1. c \in Seq(S) /\ d \in Seq(S)
      BY <1>2, <1>3
    <3> QED
      BY <3>1, Together
  <2> HIDE DEF y
  <2> QED
    BY <1>2, <1>3, <2>1
<1> HIDE DEF y
<1>5. ASSUME NEW i \in 1..Len(x) PROVE x[i] = y[i]
  <2>0. i \in Int /\ 1 <= i /\ i <= m + n
    BY <1>1
  <2>1. CASE i <= m
    <3>1. i \in 1..m /\ i \in 1..m + 1
      BY <2>0, <2>1, <1>1
    <3> QED
      BY <3>1, <1>1, <1>2, <1>4
  <2>2. CASE i = m + 1
    <3>1. m + 1 \in 1..m + 1 /\ 1 \in 1..n
      BY <1>1
    <3>2. x[m + 1] = b[1]
      BY <3>1, <1>1
    <3> QED
      BY <2>2, <3>1, <3>2, <1>2, <1>4
  <2>3. CASE i > m + 1
    <3> DEFINE j == i - (m + 1)
    <3>1. j \in 1..n - 1 /\ j + 1 \in 1..n /\ i = (m + 1) + j /\ i = m + (j + 1)
      BY <2>0, <2>3, <1>1
    <3> HIDE DEF j
    <3>2. x[m + (j + 1)] = b[j + 1]
      BY <3>1, <1>1
    <3>3. y[(m + 1) + j] = d[j] /\ d[j] = b[j + 1]
      BY <3>1, <1>3, <1>4
    <3> QED
      BY <3>1, <3>2, <3>3
  <2> QED
    BY <2>0, <2>1, <2>2, <2>3, <1>1
<1>6. Len(x) = Len(y)
  BY <1>1, <1>4
<1>7. x = y
  BY <1>1, <1>4, <1>5, <1>6, SameSeq
<1> QED
  BY <1>2, <1>3, <1>7 DEF c, d, x, y

(* Another block at the end. *)
LEMMA OneMore ==
  ASSUME NEW S, NEW a \in Seq(S), NEW b \in Seq(S), NEW e \in S
  PROVE  Append(b, e) \in Seq(S) /\ a \o Append(b, e) = Append(a \o b, e)
<1> DEFINE m == Len(a)
           n == Len(b)
           c == Append(b, e)
           x == a \o b
           y == a \o c
           z == Append(x, e)
<1>1. /\ m \in Nat /\ n \in Nat
      /\ x \in Seq(S) /\ Len(x) = m + n
      /\ \A i \in 1..m : x[i] = a[i]
      /\ \A i \in 1..n : x[m + i] = b[i]
  OBVIOUS
<1>2. c \in Seq(S) /\ Len(c) = n + 1 /\ c[n + 1] = e /\ \A i \in 1..n : c[i] = b[i]
  OBVIOUS
<1> HIDE DEF m, n, c, x
<1>3. /\ y \in Seq(S) /\ Len(y) = m + (n + 1)
      /\ \A i \in 1..m : y[i] = a[i]
      /\ \A i \in 1..n + 1 : y[m + i] = c[i]
  BY <1>2 DEF m
<1>4. /\ z \in Seq(S) /\ Len(z) = (m + n) + 1
      /\ \A i \in 1..m + n : z[i] = x[i]
      /\ z[(m + n) + 1] = e
  BY <1>1
<1> HIDE DEF y, z
<1>5. ASSUME NEW i \in 1..Len(y) PROVE y[i] = z[i]
  <2>0. i \in Int /\ 1 <= i /\ i <= m + (n + 1)
    BY <1>1, <1>3
  <2>1. CASE i <= m
    <3>1. i \in 1..m /\ i \in 1..m + n
      BY <2>0, <2>1, <1>1
    <3> QED
      BY <3>1, <1>1, <1>3, <1>4
  <2>2. CASE i > m
    <3> DEFINE j == i - m
    <3>1. j \in 1..n + 1 /\ i = m + j
      BY <2>0, <2>2, <1>1
    <3> HIDE DEF j
    <3>2. y[m + j] = c[j]
      BY <3>1, <1>3
    <3>3. CASE j = n + 1
      <4>1. m + j = (m + n) + 1
        BY <3>3, <1>1
      <4> QED
        BY <3>1, <3>2, <3>3, <4>1, <1>2, <1>4
    <3>4. CASE j # n + 1
      <4>1. j \in 1..n /\ m + j \in 1..m + n
        BY <3>1, <3>4, <1>1
      <4>2. z[m + j] = x[m + j] /\ x[m + j] = b[j] /\ c[j] = b[j]
        BY <4>1, <1>1, <1>2, <1>4
      <4> QED
        BY <3>1, <3>2, <4>2
    <3> QED
      BY <3>3, <3>4
  <2> QED
    BY <2>0, <2>1, <2>2, <1>1
<1>6. Len(y) = Len(z)
  BY <1>1, <1>3, <1>4
<1>7. y = z
  BY <1>3, <1>4, <1>5, <1>6, SameSeq
<1> QED
  BY <1>2, <1>7 DEF c, x, y, z

-----------------------------------------------------------------------------
(* Who has sent more has sent at least that. *)
LEMMA FromKept ==
  ASSUME NEW q, NEW us \in SUBSET Streams, NEW s1 \in [Streams -> Nat], NEW s2 \in [Streams -> Nat],
         \A p \in Streams : s1[p] <= s2[p], From(q, us, s1)
  PROVE  From(q, us, s2)
<1>1. q \in Seq(Blocks) /\ Len(q) \in Nat
  BY DEF From
<1>2. PICK p \in us : IsStream(q, p) /\ Len(q) <= s1[p]
  BY DEF From
<1>3. Len(q) <= s2[p]
  <2>1. p \in Streams
    OBVIOUS
  <2>2. s1[p] \in Nat /\ s2[p] \in Nat /\ s1[p] <= s2[p]
    BY <2>1
  <2> QED
    BY <1>1, <1>2, <2>2
<1> QED
  BY <1>1, <1>2, <1>3 DEF From

(* As long as a connection's own socket sends nothing, nor another gets it. *)
LEMMA FromEndKept ==
  ASSUME NEW q, NEW k, NEW us \in SUBSET Streams,
         NEW s1 \in [Streams -> Nat], NEW s2 \in [Streams -> Nat], NEW l1, NEW l2,
         \A p \in Streams : s1[p] <= s2[p],
         \A t \in Streams : l2[t] = k => l1[t] = k /\ s2[t] = s1[t],
         FromEnd(q, k, us, s1, l1)
  PROVE  FromEnd(q, k, us, s2, l2)
<1>1. q \in Seq(Blocks) /\ Len(q) \in Nat
  BY DEF FromEnd
<1>2. PICK p \in us :
        /\ IsStream(q, p) /\ Len(q) <= s1[p]
        /\ \A t \in Streams : l1[t] = k => t = p /\ Len(q) = s1[p]
  BY DEF FromEnd
<1>3. Len(q) <= s2[p]
  <2>1. p \in Streams
    OBVIOUS
  <2>2. s1[p] \in Nat /\ s2[p] \in Nat /\ s1[p] <= s2[p]
    BY <2>1
  <2> QED
    BY <1>1, <1>2, <2>2
<1>4. \A t \in Streams : l2[t] = k => t = p /\ Len(q) = s2[p]
  BY <1>2
<1> QED
  BY <1>1, <1>2, <1>3, <1>4 DEF FromEnd

(* What the socket of a connection sends continues what it sent. *)
LEMMA FromEndSent ==
  ASSUME NEW q, NEW k, NEW us \in SUBSET Streams, NEW s \in Streams,
         NEW s1 \in [Streams -> Nat], NEW l, l[s] = k, FromEnd(q, k, us, s1, l)
  PROVE  /\ <<s, s1[s] + 1>> \in Blocks
         /\ FromEnd(Append(q, <<s, s1[s] + 1>>), k, us, [s1 EXCEPT ![s] = @ + 1], l)
<1> DEFINE s2 == [s1 EXCEPT ![s] = @ + 1]
           b == <<s, s1[s] + 1>>
<1>1. q \in Seq(Blocks) /\ Len(q) \in Nat /\ s1[s] \in Nat
  BY DEF FromEnd
<1>2. PICK p \in us :
        /\ IsStream(q, p) /\ Len(q) <= s1[p]
        /\ \A t \in Streams : l[t] = k => t = p /\ Len(q) = s1[p]
  BY DEF FromEnd
<1>3. p = s /\ Len(q) = s1[s]
  BY <1>2
<1>4. /\ Append(q, b) \in Seq(Blocks) /\ IsStream(Append(q, b), s)
      /\ Len(Append(q, b)) = s1[s] + 1
  BY <1>1, <1>2, <1>3, StreamGrows
<1>5. s2[s] = s1[s] + 1 /\ b \in Blocks
  BY <1>1 DEF Blocks
<1> HIDE DEF b, s2
<1>6. Len(Append(q, b)) <= s2[s]
  BY <1>1, <1>4, <1>5
<1>7. FromEnd(Append(q, b), k, us, s2, l)
  BY <1>2, <1>3, <1>4, <1>5, <1>6 DEF FromEnd
<1> QED
  BY <1>5, <1>7 DEF b, s2

(* A new connection has the beginning of what its socket will send. *)
LEMMA FromEndBegins ==
  ASSUME NEW k, NEW us \in SUBSET Streams, NEW s \in us, NEW sentBy, sentBy[s] = 0, NEW l,
         \A t \in Streams : l[t] = k => t = s
  PROVE  FromEnd(<< >>, k, us, sentBy, l)
BY StreamBegins DEF FromEnd

(* Nothing is the beginning of anything. *)
LEMMA FromNothing ==
  ASSUME NEW us \in SUBSET Streams, us # {}, NEW sentBy \in [Streams -> Nat]
  PROVE  From(<< >>, us, sentBy)
<1>1. PICK p \in us : TRUE
  OBVIOUS
<1>2. p \in Streams
  OBVIOUS
<1>3. sentBy[p] \in Nat
  BY <1>2
<1>4. 0 <= sentBy[p]
  BY <1>3
<1> QED
  BY <1>4, StreamBegins DEF From

(* The first part of what somebody sent. *)
LEMMA FromFirst ==
  ASSUME NEW us \in SUBSET Streams, NEW sentBy \in [Streams -> Nat],
         NEW a \in Seq(Blocks), NEW b \in Seq(Blocks), From(a \o b, us, sentBy)
  PROVE  From(a, us, sentBy)
<1>1. PICK p \in us : IsStream(a \o b, p) /\ Len(a \o b) <= sentBy[p]
  BY DEF From
<1>2. IsStream(a, p) /\ Len(a) <= Len(a \o b) /\ a \o b \in Seq(Blocks)
  BY <1>1, StreamPrefix
<1>3. Len(a) \in Nat /\ Len(a \o b) \in Nat /\ sentBy[p] \in Nat
  <2>1. p \in Streams
    OBVIOUS
  <2> QED
    BY <1>2, <2>1
<1>4. Len(a) <= sentBy[p]
  BY <1>1, <1>2, <1>3
<1> QED
  BY <1>2, <1>4 DEF From

LEMMA FromEndFrom ==
  ASSUME NEW q, NEW k, NEW us, NEW sentBy, NEW l, FromEnd(q, k, us, sentBy, l)
  PROVE  From(q, us, sentBy)
BY DEF From, FromEnd

-----------------------------------------------------------------------------
(* Before the notice nothing is under way, and the notice is no data. *)
LEMMA NoData ==
  /\ Data(<< >>) = << >>
  /\ Append(<< >>, Notice) # << >> /\ Append(<< >>, Notice)[1] = Notice
  /\ Data(Append(<< >>, Notice)) = << >>
<1>1. Data(<< >>) = << >>
  BY DEF Data
<1>2. /\ Append(<< >>, Notice) # << >> /\ Append(<< >>, Notice)[1] = Notice
      /\ Tail(Append(<< >>, Notice)) = << >>
  <2>1. Append(<< >>, Notice) = <<Notice>>
    OBVIOUS
  <2> HIDE DEF Notice
  <2>2. Len(<<Notice>>) = 1 /\ <<Notice>>[1] = Notice /\ Tail(<<Notice>>) = << >> /\ <<Notice>> # << >>
    OBVIOUS
  <2> QED
    BY <2>1, <2>2
<1> QED
  BY <1>1, <1>2 DEF Data

(* A block passed on comes after what is under way. *)
LEMMA DataGrows ==
  ASSUME NEW q \in Seq(Messages), Data(q) \in Seq(Blocks), NEW b \in Blocks
  PROVE  /\ Append(q, b) \in Seq(Messages) /\ Append(q, b) # << >>
         /\ Data(Append(q, b)) = Append(Data(q), b)
         /\ q # << >> => Append(q, b)[1] = q[1]
<1>1. b \in Messages /\ b # Notice
  BY BlocksAreBlocks DEF Messages
<1>2. /\ Append(q, b) \in Seq(Messages) /\ Append(q, b) # << >>
      /\ q # << >> => Append(q, b)[1] = q[1] /\ Tail(Append(q, b)) = Append(Tail(q), b)
      /\ q = << >> => Append(q, b)[1] = b
  <2>1. Append(q, b) \in Seq(Messages) /\ Append(q, b) # << >>
    BY <1>1
  <2>2. ASSUME q # << >> PROVE Append(q, b)[1] = q[1]
    BY <1>1, <2>2
  <2>3. ASSUME q # << >> PROVE Tail(Append(q, b)) = Append(Tail(q), b)
    <3> DEFINE x == Tail(Append(q, b))
               y == Append(Tail(q), b)
               n == Len(q)
    <3>1. /\ x \in Seq(Messages) /\ Len(x) = n /\ n \in Nat /\ n > 0
          /\ \A i \in 1..n : x[i] = Append(q, b)[i + 1]
      BY <1>1, <2>3
    <3>2. Tail(q) \in Seq(Messages) /\ Len(Tail(q)) = n - 1 /\ \A i \in 1..n - 1 : Tail(q)[i] = q[i + 1]
      BY <2>3
    <3>3. /\ y \in Seq(Messages) /\ Len(y) = n /\ y[n] = b
          /\ \A i \in 1..n - 1 : y[i] = Tail(q)[i]
      BY <1>1, <3>2
    <3>4. Append(q, b)[n + 1] = b /\ \A i \in 1..n : Append(q, b)[i] = q[i]
      BY <1>1
    <3> HIDE DEF x, y, n
    <3>5. ASSUME NEW i \in 1..Len(x) PROVE x[i] = y[i]
      <4>1. CASE i = n
        BY <4>1, <3>1, <3>3, <3>4
      <4>2. CASE i # n
        <5>1. i \in 1..n - 1 /\ i + 1 \in 1..n /\ i \in 1..n
          BY <4>2, <3>1
        <5> QED
          BY <5>1, <3>1, <3>2, <3>3, <3>4
      <4> QED
        BY <4>1, <4>2
    <3>6. x = y
      BY <3>1, <3>3, <3>5, SameSeq
    <3> QED
      BY <3>6 DEF x, y
  <2>4. ASSUME q = << >> PROVE Append(q, b)[1] = b
    BY <2>4
  <2> QED
    BY <2>1, <2>2, <2>3, <2>4
<1>3. Data(Append(q, b)) = Append(Data(q), b)
  <2>1. CASE q = << >>
    BY <1>1, <1>2, <2>1 DEF Data
  <2>2. CASE q # << >>
    BY <1>2, <2>2 DEF Data
  <2> QED
    BY <2>1, <2>2
<1> QED
  BY <1>2, <1>3

(* The notice or a block is heard; blocks follow. *)
LEMMA DataHeard ==
  ASSUME NEW q \in Seq(Messages), q # << >>, Data(q) \in Seq(Blocks)
  PROVE  /\ Tail(q) \in Seq(Messages) /\ Data(Tail(q)) = Tail(q) /\ Tail(q) \in Seq(Blocks)
         /\ Head(q) = q[1]
         /\ Head(q) = Notice => Data(q) = Tail(q)
         /\ Head(q) # Notice => Data(q) = q /\ Head(q) \in Blocks /\ q \in Seq(Blocks)
<1>1. Head(q) = q[1] /\ Tail(q) \in Seq(Messages)
  OBVIOUS
<1>2. Head(q) = Notice => Data(q) = Tail(q)
  BY <1>1 DEF Data
<1>3. Head(q) # Notice => Data(q) = q /\ Head(q) \in Blocks /\ q \in Seq(Blocks)
  <2>1. ASSUME Head(q) # Notice PROVE Data(q) = q
    BY <1>1, <2>1 DEF Data
  <2> QED
    BY <1>1, <2>1
<1>4. Tail(q) \in Seq(Blocks)
  <2>1. CASE Head(q) = Notice
    BY <1>2, <2>1
  <2>2. CASE Head(q) # Notice
    BY <1>3, <2>2
  <2> QED
    BY <2>1, <2>2
<1>5. Data(Tail(q)) = Tail(q)
  <2>1. CASE Tail(q) = << >>
    BY <2>1 DEF Data
  <2>2. CASE Tail(q) # << >>
    <3>1. Tail(q)[1] \in Blocks
      BY <1>4, <2>2
    <3> QED
      BY <3>1, BlocksAreBlocks DEF Data
  <2> QED
    BY <2>1, <2>2
<1> QED
  BY <1>1, <1>2, <1>3, <1>4, <1>5

-----------------------------------------------------------------------------
(* The inductive invariant.                                                 *)
Others(s) == IF s \in Openers THEN Accepts ELSE Openers
Record(s) == IF s \in Openers THEN "Connect" ELSE "Accept"
Makers(record) == IF record = "Connect" THEN Openers ELSE Accepts

Typed ==
  /\ state \in [Streams -> States] /\ link \in [Sockets -> 0..used]
  /\ pending \subseteq Accepts
  /\ retries \in [Openers -> 0..Retries] /\ backlog \in 0..Backlog
  /\ sent \in [Streams -> Nat] /\ received \in [Streams -> Seq(Blocks)]
  /\ used \in 0..MaxSessions
  /\ kind \in [Keys -> Kinds] /\ partner \in [Keys -> 0..used]
  /\ announced \subseteq Keys
  /\ toServer \in [Keys -> Seq(Records \cup Blocks)]
  /\ toClient \in [Keys -> Seq(Messages)]

(* A connection that is still to be made has no session. *)
Fresh == \A k \in Keys : k > used => kind[k] = "none" /\ toClient[k] = << >>

LinksApart == \A s, t \in Sockets : link[s] # 0 /\ link[s] = link[t] => s = t

(* The session of a socket is of its kind, or will be. *)
KindFit(s) ==
  link[s] # 0 =>
    \/ kind[link[s]] \in {Record(s), "gone"}
    \/ kind[link[s]] = "Pending" /\ Head(toServer[link[s]]) = Record(s)

PairFit(k) ==
  /\ partner[k] # 0 =>
       /\ partner[partner[k]] = k
       /\ \/ kind[k] = "Connect" /\ kind[partner[k]] = "Accept"
          \/ kind[k] = "Accept" /\ kind[partner[k]] = "Connect"
  /\ kind[k] = "Accept" => partner[k] # 0

(* A socket that may get a connection has sent and received nothing. *)
UnsentFit(s) ==
  /\ \/ s \in Openers /\ state[s] \in {"none", "Opening"}
     \/ s \in Accepts /\ (state[s] = "none" \/ s \in pending)
     => sent[s] = 0 /\ received[s] = << >>
  /\ state[s] = "none" \/ s \in pending => link[s] = 0
  /\ s \in pending => state[s] # "none"

(* An opening stream hears the notice before any block. *)
OpenFit(o) ==
  /\ state[o] = "Established" =>
       link[o] # 0 /\ (partner[link[o]] # 0 \/ kind[link[o]] = "gone")
  /\ state[o] = "Opening" /\ link[o] # 0 =>
       /\ toClient[link[o]] = << >> \/ toClient[link[o]][1] = Notice
       /\ partner[link[o]] # 0 => toClient[link[o]] # << >>

Unpaired1(k) == kind[k] = "Connect" /\ partner[k] = 0

(* What a session that is not paired yet holds is all its socket sent. *)
OutFit(k) ==
  /\ kind[k] = "Pending" =>
       /\ toServer[k] # << >>
       /\ \A r \in {"Connect", "Accept"} :
            Head(toServer[k]) = r => FromEnd(Tail(toServer[k]), k, Makers(r), sent, link)
  /\ Unpaired1(k) => FromEnd(toServer[k], k, Openers, sent, link)
  /\ partner[k] # 0 => toServer[k] \in Seq(Blocks)

(* What a socket received, what is under way to it and, while its session   *)
(* has a partner, what that holds, are one after the other what one peer    *)
(* sent.                                                                    *)
Unheard(s) == received[s] \o Data(toClient[link[s]])
SocketFit(s) ==
  /\ link[s] = 0 => From(received[s], Others(s), sent)
  /\ link[s] # 0 =>
       /\ Data(toClient[link[s]]) \in Seq(Blocks)
       /\ kind[link[s]] = "Pending" \/ Unpaired1(link[s]) =>
            toClient[link[s]] = << >> /\ received[s] = << >>
       /\ partner[link[s]] # 0 =>
            FromEnd(Unheard(s) \o toServer[partner[link[s]]], partner[link[s]],
                    Others(s), sent, link)
       /\ kind[link[s]] = "gone" => From(Unheard(s), Others(s), sent)

StreamsInv ==
  /\ Typed /\ Fresh /\ LinksApart
  /\ \A k \in Keys : PairFit(k) /\ OutFit(k)
  /\ \A s \in Streams : KindFit(s) /\ UnsentFit(s) /\ SocketFit(s)
  /\ \A o \in Openers : OpenFit(o)

SentGrows == \A p \in Streams : sent[p] <= sent'[p]

(* No stream socket gets connection k, and one that has it sends nothing. *)
Steady(k) == \A t \in Streams : link'[t] = k => link[t] = k /\ sent'[t] = sent[t]

LEMMA OthersFacts ==
  ASSUME NEW s \in Streams
  PROVE  Others(s) \in SUBSET Streams /\ Others(s) # {}
BY StreamsAssumption DEF Others, Streams

LEMMA KeysFacts ==
  ASSUME Typed
  PROVE  /\ \A k \in Keys : k \in Nat /\ k # 0 /\ (partner[k] # 0 => partner[k] \in Keys)
         /\ \A s \in Sockets : link[s] # 0 => link[s] \in Keys
         /\ Streams \subseteq Sockets /\ Openers \subseteq Streams /\ Accepts \subseteq Streams
         /\ used \in Nat /\ MaxSessions \in Nat
<1>1. MaxSessions \in Nat /\ used \in 0..MaxSessions
  BY StreamsAssumption DEF Typed
<1>2. \A k \in Keys : partner[k] \in 0..used
  BY DEF Typed
<1>3. \A s \in Sockets : link[s] \in 0..used
  BY DEF Typed
<1>4. \A i \in 0..used : i # 0 => i \in Keys
  BY <1>1 DEF Keys
<1>5. \A k \in Keys : k \in Nat /\ k # 0
  BY <1>1 DEF Keys
<1> QED
  BY <1>1, <1>2, <1>3, <1>4, <1>5 DEF Streams, Sockets

(* What a socket with a connection received and what is under way to it. *)
LEMMA UnheardFits ==
  ASSUME StreamsInv, NEW s \in Streams, link[s] # 0
  PROVE  /\ link[s] \in Keys /\ received[s] \in Seq(Blocks)
         /\ Data(toClient[link[s]]) \in Seq(Blocks) /\ Unheard(s) \in Seq(Blocks)
         /\ From(Unheard(s), Others(s), sent)
<1> DEFINE k == link[s]
           a == received[s]
           b == Data(toClient[k])
<1>1. k \in Keys /\ a \in Seq(Blocks) /\ sent \in [Streams -> Nat]
  BY KeysFacts DEF StreamsInv, Typed
<1>2. b \in Seq(Blocks)
  BY DEF StreamsInv, SocketFit
<1>3. Others(s) \in SUBSET Streams /\ Others(s) # {}
  BY OthersFacts
<1>4. Unheard(s) = a \o b
  BY DEF Unheard
<1> HIDE DEF a, b
<1>5. a \o b \in Seq(Blocks)
  BY <1>1, <1>2
<1>6. From(a \o b, Others(s), sent)
  <2>0. KindFit(s) /\ PairFit(k) /\ OutFit(k) /\ SocketFit(s)
    BY <1>1 DEF StreamsInv
  <2>1. CASE kind[k] = "gone"
    BY <1>4, <2>0, <2>1 DEF SocketFit
  <2>2. CASE kind[k] = "Pending" \/ Unpaired1(k)
    <3>1. a = << >> /\ b = << >>
      BY <2>0, <2>2, NoData DEF SocketFit, a, b
    <3>2. a \o b = << >>
      BY <3>1
    <3> QED
      BY <3>2, <1>1, <1>3, FromNothing
  <2>3. CASE partner[k] # 0
    <3>1. FromEnd((a \o b) \o toServer[partner[k]], partner[k], Others(s), sent, link)
      BY <1>4, <2>0, <2>3 DEF SocketFit
    <3>2. partner[k] \in Keys
      BY <1>1, <2>3, KeysFacts DEF StreamsInv
    <3>3. PairFit(partner[k]) /\ OutFit(partner[k])
      BY <3>2 DEF StreamsInv
    <3>4. partner[partner[k]] = k /\ k # 0
      BY <2>0, <2>3 DEF PairFit
    <3>5. toServer[partner[k]] \in Seq(Blocks)
      BY <3>3, <3>4 DEF OutFit
    <3>6. From((a \o b) \o toServer[partner[k]], Others(s), sent)
      BY <3>1, FromEndFrom
    <3> QED
      BY <1>1, <1>3, <1>5, <3>5, <3>6, FromFirst
  <2> QED
    BY <2>0, <2>1, <2>2, <2>3 DEF KindFit, Record, PairFit, Unpaired1
<1> QED
  BY <1>1, <1>2, <1>4, <1>5, <1>6 DEF a, b

LEMMA ReceivedFits ==
  ASSUME StreamsInv, NEW s \in Streams
  PROVE  From(received[s], Others(s), sent)
<1>1. CASE link[s] = 0
  BY <1>1 DEF StreamsInv, SocketFit
<1>2. CASE link[s] # 0
  <2>1. /\ received[s] \in Seq(Blocks) /\ Data(toClient[link[s]]) \in Seq(Blocks)
        /\ From(received[s] \o Data(toClient[link[s]]), Others(s), sent)
    BY <1>2, UnheardFits DEF Unheard
  <2>2. sent \in [Streams -> Nat] /\ Others(s) \in SUBSET Streams
    BY OthersFacts DEF StreamsInv, Typed
  <2> QED
    BY <2>1, <2>2, FromFirst
<1> QED
  BY <1>1, <1>2

(* A socket whose connection, session and partner are left alone. *)
LEMMA SocketKept ==
  ASSUME Typed, Typed', SentGrows, NEW s \in Streams, SocketFit(s),
         link'[s] = link[s], received'[s] = received[s],
         link[s] # 0 =>
           /\ kind'[link[s]] = kind[link[s]] /\ partner'[link[s]] = partner[link[s]]
           /\ toClient'[link[s]] = toClient[link[s]],
         link[s] # 0 /\ partner[link[s]] # 0 =>
           /\ toServer'[partner[link[s]]] = toServer[partner[link[s]]]
           /\ Steady(partner[link[s]])
  PROVE  SocketFit(s)'
<1>1. /\ sent \in [Streams -> Nat] /\ sent' \in [Streams -> Nat]
      /\ \A p \in Streams : sent[p] <= sent'[p]
      /\ Others(s) \in SUBSET Streams
  BY OthersFacts DEF Typed, SentGrows
<1>2. CASE link[s] = 0
  <2>1. From(received'[s], Others(s), sent')
    BY <1>1, <1>2, FromKept DEF SocketFit
  <2> QED
    BY <1>2, <2>1 DEF SocketFit
<1>3. CASE link[s] # 0
  <2>1. Unheard(s)' = Unheard(s)
    BY <1>3 DEF Unheard
  <2>2. ASSUME partner[link[s]] # 0
        PROVE  FromEnd(Unheard(s) \o toServer[partner[link[s]]], partner[link[s]],
                       Others(s), sent', link')
    <3>1. FromEnd(Unheard(s) \o toServer[partner[link[s]]], partner[link[s]],
                  Others(s), sent, link)
      BY <1>3, <2>2 DEF SocketFit
    <3>2. \A t \in Streams : link'[t] = partner[link[s]] =>
             link[t] = partner[link[s]] /\ sent'[t] = sent[t]
      BY <1>3, <2>2 DEF Steady
    <3> QED
      BY <1>1, <3>1, <3>2, FromEndKept
  <2>3. ASSUME kind[link[s]] = "gone" PROVE From(Unheard(s), Others(s), sent')
    BY <1>1, <1>3, <2>3, FromKept DEF SocketFit
  <2> QED
    BY <1>3, <2>1, <2>2, <2>3 DEF SocketFit, Unpaired1
<1> QED
  BY <1>2, <1>3

(* A socket whose connection ends. *)
LEMMA SocketUnlinked ==
  ASSUME StreamsInv, Typed', SentGrows, NEW s \in Streams,
         link'[s] = 0, received'[s] = received[s]
  PROVE  SocketFit(s)'
<1>1. /\ sent \in [Streams -> Nat] /\ sent' \in [Streams -> Nat]
      /\ \A p \in Streams : sent[p] <= sent'[p]
      /\ Others(s) \in SUBSET Streams
  BY OthersFacts DEF Typed, SentGrows, StreamsInv
<1>2. From(received[s], Others(s), sent')
  BY <1>1, ReceivedFits, FromKept
<1> QED
  BY <1>2 DEF SocketFit

(* A session that is left alone. *)
LEMMA OutKept ==
  ASSUME Typed, Typed', SentGrows, NEW k \in Keys, OutFit(k), Steady(k),
         kind'[k] = kind[k], partner'[k] = partner[k], toServer'[k] = toServer[k]
  PROVE  OutFit(k)'
<1>1. /\ sent \in [Streams -> Nat] /\ sent' \in [Streams -> Nat]
      /\ \A p \in Streams : sent[p] <= sent'[p]
      /\ Openers \in SUBSET Streams
      /\ \A t \in Streams : link'[t] = k => link[t] = k /\ sent'[t] = sent[t]
  BY DEF Typed, SentGrows, Streams, Steady
<1>2. ASSUME kind[k] = "Pending", NEW r \in {"Connect", "Accept"}, Head(toServer[k]) = r
      PROVE  FromEnd(Tail(toServer[k]), k, Makers(r), sent', link')
  <2>1. Makers(r) \in SUBSET Streams
    BY DEF Makers, Streams
  <2>2. FromEnd(Tail(toServer[k]), k, Makers(r), sent, link)
    BY <1>2 DEF OutFit
  <2> QED
    BY <1>1, <2>1, <2>2, FromEndKept
<1>3. ASSUME Unpaired1(k) PROVE FromEnd(toServer[k], k, Openers, sent', link')
  <2>1. FromEnd(toServer[k], k, Openers, sent, link)
    BY <1>3 DEF OutFit
  <2> QED
    BY <1>1, <2>1, FromEndKept
<1> QED
  BY <1>2, <1>3 DEF OutFit, Unpaired1

-----------------------------------------------------------------------------
(* Steps that leave connections, sessions and what is on its way alone. *)
LEMMA ClientOnlyKeepsInv ==
  ASSUME StreamsInv, Typed',
         UNCHANGED <<link, sent, received, kind, partner, toServer, toClient, used>>,
         \A s \in Streams : UnsentFit(s)', \A o \in Openers : OpenFit(o)'
  PROVE  StreamsInv'
<1>1. Fresh' /\ LinksApart'
  BY DEF StreamsInv, Fresh, LinksApart
<1>2. \A k \in Keys : PairFit(k)' /\ OutFit(k)'
  BY DEF StreamsInv, PairFit, OutFit, Unpaired1
<1>3. \A s \in Streams : KindFit(s)' /\ SocketFit(s)'
  BY DEF StreamsInv, KindFit, SocketFit, Unheard, Unpaired1
<1> QED
  BY <1>1, <1>2, <1>3 DEF StreamsInv

(* A socket is opened. *)
LEMMA OpenKeepsInv ==
  ASSUME StreamsInv, NEW o \in Openers, Open(o)
  PROVE  StreamsInv'
<1>1. /\ state[o] = "none" /\ state' = [state EXCEPT ![o] = "Opening"]
      /\ UNCHANGED <<link, pending, retries, backlog, sent, received, kind, partner, announced,
                     toServer, toClient, used>>
  BY DEF Open, NextHandle, Unused, serverVars, queueVars, countVars
<1>2. o \in Streams /\ o \notin pending
  BY StreamsAssumption DEF StreamsInv, Typed, Streams
<1>3. /\ state \in [Streams -> States] /\ state' \in [Streams -> States]
      /\ \A t \in Streams : state'[t] = IF t = o THEN "Opening" ELSE state[t]
  BY <1>1, <1>2 DEF StreamsInv, Typed, States
<1>4. Typed'
  BY <1>1, <1>3 DEF StreamsInv, Typed
<1>5. UnsentFit(o) /\ link[o] = 0
  BY <1>1, <1>2 DEF StreamsInv, UnsentFit
<1>6. \A s \in Streams : UnsentFit(s)'
  <2> SUFFICES ASSUME NEW s \in Streams PROVE UnsentFit(s)'
    OBVIOUS
  <2>1. UnsentFit(s)
    BY DEF StreamsInv
  <2>2. CASE s = o
    BY <1>1, <1>2, <1>3, <1>5, <2>2 DEF UnsentFit
  <2>3. CASE s # o
    BY <1>1, <1>3, <2>1, <2>3 DEF UnsentFit
  <2> QED
    BY <2>2, <2>3
<1>7. \A p \in Openers : OpenFit(p)'
  <2> SUFFICES ASSUME NEW p \in Openers PROVE OpenFit(p)'
    OBVIOUS
  <2>1. OpenFit(p) /\ p \in Streams
    BY DEF StreamsInv, Streams
  <2>2. CASE p = o
    BY <1>1, <1>3, <1>5, <2>1, <2>2 DEF OpenFit
  <2>3. CASE p # o
    BY <1>1, <1>3, <2>1, <2>3 DEF OpenFit
  <2> QED
    BY <2>2, <2>3
<1> QED
  BY <1>1, <1>4, <1>6, <1>7, ClientOnlyKeepsInv

(* A request is taken from the backlog. *)
LEMMA AcceptKeepsInv ==
  ASSUME StreamsInv, NEW a \in Accepts, Accept(a)
  PROVE  StreamsInv'
<1>1. /\ state[a] = "none" /\ state' = [state EXCEPT ![a] = "Established"]
      /\ pending' = pending \cup {a} /\ backlog > 0 /\ backlog' = backlog - 1
      /\ UNCHANGED <<link, retries, sent, received, kind, partner, announced,
                     toServer, toClient, used>>
  BY DEF Accept, NextHandle, Unused, serverVars, queueVars, countVars
<1>2. a \in Streams /\ a \notin Openers
  BY StreamsAssumption DEF Streams
<1>3. /\ state' \in [Streams -> States]
      /\ \A t \in Streams : state'[t] = IF t = a THEN "Established" ELSE state[t]
  BY <1>1, <1>2 DEF StreamsInv, Typed, States
<1>4. Typed'
  <2>1. backlog' \in 0..Backlog
    BY <1>1, StreamsAssumption DEF StreamsInv, Typed
  <2>2. pending' \subseteq Accepts
    BY <1>1 DEF StreamsInv, Typed
  <2> QED
    BY <1>1, <1>3, <2>1, <2>2 DEF StreamsInv, Typed
<1>5. \A s \in Streams : UnsentFit(s)'
  <2> SUFFICES ASSUME NEW s \in Streams PROVE UnsentFit(s)'
    OBVIOUS
  <2>1. UnsentFit(s)
    BY DEF StreamsInv
  <2>2. CASE s = a
    BY <1>1, <1>2, <1>3, <2>1, <2>2 DEF UnsentFit
  <2>3. CASE s # a
    BY <1>1, <1>3, <2>1, <2>3 DEF UnsentFit
  <2> QED
    BY <2>2, <2>3
<1>6. \A o \in Openers : OpenFit(o)'
  BY <1>1, <1>2, <1>3 DEF StreamsInv, OpenFit, Streams
<1> QED
  BY <1>1, <1>4, <1>5, <1>6, ClientOnlyKeepsInv

(* Requests expire, and players come back into the group. *)
LEMMA WaitingKeepsInv ==
  ASSUME StreamsInv, BacklogExpires \/ \E p \in {"caller", "callee"} : RegainGroup(p)
  PROVE  StreamsInv'
<1>1. /\ UNCHANGED <<state, link, pending, retries, sent, received, kind, partner, announced,
                     toServer, toClient, used>>
      /\ backlog' = backlog \/ (backlog > 0 /\ backlog' = backlog - 1)
  <2>1. CASE BacklogExpires
    BY <2>1 DEF BacklogExpires, serverVars, queueVars, countVars
  <2>2. ASSUME NEW p \in {"caller", "callee"}, RegainGroup(p)
        PROVE  UNCHANGED <<state, link, pending, retries, backlog, sent, received, kind, partner,
                           announced, toServer, toClient, used>>
    BY <2>2 DEF RegainGroup, clientVars, serverVars, queueVars, countVars
  <2> QED
    BY <2>1, <2>2
<1>2. Typed'
  <2>1. backlog' \in 0..Backlog
    BY <1>1, StreamsAssumption DEF StreamsInv, Typed
  <2> QED
    BY <1>1, <2>1 DEF StreamsInv, Typed
<1>3. \A s \in Streams : UnsentFit(s)'
  BY <1>1 DEF StreamsInv, UnsentFit
<1>4. \A o \in Openers : OpenFit(o)'
  BY <1>1 DEF StreamsInv, OpenFit
<1> QED
  BY <1>1, <1>2, <1>3, <1>4, ClientOnlyKeepsInv

(* The connection of an accepted socket cannot be made. *)
LEMMA StartFailsKeepsInv ==
  ASSUME StreamsInv, NEW a \in pending, pending' = pending \ {a},
         state' = [state EXCEPT ![a] = "Ended"],
         UNCHANGED <<link, retries, backlog, sent, received, kind, partner, announced,
                     toServer, toClient, used>>
  PROVE  StreamsInv'
<1>1. a \in Streams /\ a \notin Openers
  BY StreamsAssumption DEF StreamsInv, Typed, Streams
<1>2. /\ state' \in [Streams -> States]
      /\ \A t \in Streams : state'[t] = IF t = a THEN "Ended" ELSE state[t]
  BY <1>1 DEF StreamsInv, Typed, States
<1>3. Typed'
  BY <1>2 DEF StreamsInv, Typed
<1>4. \A s \in Streams : UnsentFit(s)'
  <2> SUFFICES ASSUME NEW s \in Streams PROVE UnsentFit(s)'
    OBVIOUS
  <2>1. UnsentFit(s)
    BY DEF StreamsInv
  <2>2. CASE s = a
    BY <1>1, <1>2, <2>1, <2>2 DEF UnsentFit
  <2>3. CASE s # a
    BY <1>2, <2>1, <2>3 DEF UnsentFit
  <2> QED
    BY <2>2, <2>3
<1>5. \A o \in Openers : OpenFit(o)'
  BY <1>1, <1>2 DEF StreamsInv, OpenFit, Streams
<1> QED
  BY <1>3, <1>4, <1>5, ClientOnlyKeepsInv

-----------------------------------------------------------------------------
(* Connections that end take what is on its way with them. *)
LEMMA UnlinkKeepsInv ==
  ASSUME StreamsInv, NEW ss \in SUBSET Sockets, Unlinked(ss),
         state' \in [Streams -> States], retries' \in [Openers -> 0..Retries],
         backlog' \in 0..Backlog, pending' \subseteq pending,
         \A t \in Streams : state'[t] = state[t] \/ state'[t] = "Ended",
         \A o \in ss \cap Openers : state'[o] # "Established",
         UNCHANGED <<sent, received, kind, partner, announced, toServer, used>>
  PROVE  StreamsInv'
<1>0. Typed
  BY DEF StreamsInv
<1>1. /\ link' = [s \in Sockets |-> IF s \in ss THEN 0 ELSE link[s]]
      /\ toClient' = [k \in Keys |->
                        IF \E s \in ss : link[s] = k THEN << >> ELSE toClient[k]]
  BY DEF Unlinked
<1>2. Typed'
  <2>1. link' \in [Sockets -> 0..used]
    <3>1. 0 \in 0..used
      BY KeysFacts, <1>0
    <3> QED
      BY <1>0, <1>1, <3>1 DEF Typed
  <2>2. toClient' \in [Keys -> Seq(Messages)]
    BY <1>0, <1>1 DEF Typed
  <2> QED
    BY <1>0, <2>1, <2>2 DEF Typed
<1>3. \A s \in Sockets : link'[s] = IF s \in ss THEN 0 ELSE link[s]
  BY <1>1
<1>4. SentGrows
  BY <1>0 DEF SentGrows, Typed
<1>5. \A k \in Keys : Steady(k)
  BY <1>0, <1>3, KeysFacts DEF Steady
<1>6. ASSUME NEW s \in Sockets, s \notin ss, link[s] # 0
      PROVE  link'[s] = link[s] /\ toClient'[link[s]] = toClient[link[s]]
  <2>1. link[s] \in Keys
    BY <1>0, <1>6, KeysFacts
  <2>2. ~\E t \in ss : link[t] = link[s]
    BY <1>6 DEF StreamsInv, LinksApart
  <2> QED
    BY <1>1, <1>3, <1>6, <2>1, <2>2
<1>7. Fresh' /\ LinksApart'
  BY <1>1, <1>3 DEF StreamsInv, Fresh, LinksApart
<1>8. \A k \in Keys : PairFit(k)' /\ OutFit(k)'
  <2> SUFFICES ASSUME NEW k \in Keys PROVE PairFit(k)' /\ OutFit(k)'
    OBVIOUS
  <2>1. PairFit(k)'
    BY DEF StreamsInv, PairFit
  <2>2. OutFit(k)'
    BY <1>0, <1>2, <1>4, <1>5, OutKept DEF StreamsInv
  <2> QED
    BY <2>1, <2>2
<1>9. ASSUME NEW s \in Streams PROVE KindFit(s)' /\ UnsentFit(s)' /\ SocketFit(s)'
  <2>0. s \in Sockets /\ KindFit(s) /\ UnsentFit(s) /\ SocketFit(s)
    BY <1>0, KeysFacts DEF StreamsInv
  <2>1. KindFit(s)'
    BY <1>3, <2>0 DEF KindFit, Record
  <2>2. UnsentFit(s)'
    BY <1>3, <2>0 DEF UnsentFit
  <2>3. SocketFit(s)'
    <3>1. CASE s \in ss
      BY <1>2, <1>3, <1>4, <2>0, <3>1, SocketUnlinked
    <3>2. CASE s \notin ss
      <4>1. link'[s] = link[s]
        BY <1>3, <2>0, <3>2
      <4>2. link[s] # 0 => toClient'[link[s]] = toClient[link[s]]
        BY <1>6, <2>0, <3>2
      <4>3. link[s] # 0 /\ partner[link[s]] # 0 => Steady(partner[link[s]])
        BY <1>0, <1>5, <2>0, KeysFacts
      <4> QED
        BY <1>0, <1>2, <1>4, <2>0, <4>1, <4>2, <4>3, SocketKept
    <3> QED
      BY <3>1, <3>2
  <2> QED
    BY <2>1, <2>2, <2>3
<1>10. ASSUME NEW o \in Openers PROVE OpenFit(o)'
  <2>0. o \in Sockets /\ o \in Streams /\ OpenFit(o)
    BY <1>0, KeysFacts DEF StreamsInv
  <2>1. CASE o \in ss
    BY <1>3, <2>0, <2>1 DEF OpenFit
  <2>2. CASE o \notin ss
    <3>1. link'[o] = link[o] /\ (link[o] # 0 => toClient'[link[o]] = toClient[link[o]])
      BY <1>3, <1>6, <2>0, <2>2
    <3>2. state'[o] = state[o] \/ state'[o] = "Ended"
      BY <2>0
    <3> QED
      BY <2>0, <3>1, <3>2 DEF OpenFit
  <2> QED
    BY <2>1, <2>2
<1> QED
  BY <1>2, <1>7, <1>8, <1>9, <1>10 DEF StreamsInv

(* The game closes a socket. *)
LEMMA CloseKeepsInv ==
  ASSUME StreamsInv, NEW s \in Streams, Close(s)
  PROVE  StreamsInv'
<1>1. /\ state' = [state EXCEPT ![s] = "Ended"] /\ pending' = pending \ {s} /\ Unlinked({s})
      /\ UNCHANGED <<retries, backlog, sent, received, kind, partner, announced, toServer, used>>
  BY DEF Close, serverVars, countVars
<1>2. state \in [Streams -> States] /\ retries \in [Openers -> 0..Retries] /\ backlog \in 0..Backlog
  BY DEF StreamsInv, Typed
<1>3. /\ state' \in [Streams -> States]
      /\ \A t \in Streams : state'[t] = state[t] \/ state'[t] = "Ended"
      /\ state'[s] = "Ended"
  BY <1>1, <1>2 DEF States
<1>4. {s} \in SUBSET Sockets
  BY DEF Sockets
<1> QED
  BY <1>1, <1>2, <1>3, <1>4, UnlinkKeepsInv

(* A connection breaks, or its end is seen. *)
LEMMA LinkFailsKeepsInv ==
  ASSUME StreamsInv, NEW s \in Sockets, LinkFails(s)
  PROVE  StreamsInv'
<1> DEFINE again == s \in Openers /\ state[s] = "Opening" /\ retries[s] > 0
<1>1. /\ state' = [t \in Streams |-> IF t = s /\ ~again THEN "Ended" ELSE state[t]]
      /\ retries' = [o \in Openers |-> IF o = s /\ again THEN retries[o] - 1 ELSE retries[o]]
      /\ Unlinked({s})
      /\ UNCHANGED <<pending, backlog, sent, received, kind, partner, announced, toServer, used>>
  BY DEF LinkFails, LinkEnds, serverVars, countVars
<1>2. /\ state \in [Streams -> States] /\ retries \in [Openers -> 0..Retries]
      /\ backlog \in 0..Backlog /\ Retries \in Nat
  BY StreamsAssumption DEF StreamsInv, Typed
<1>3. /\ state' \in [Streams -> States]
      /\ \A t \in Streams : state'[t] = state[t] \/ state'[t] = "Ended"
  BY <1>1, <1>2 DEF States
<1>4. retries' \in [Openers -> 0..Retries]
  <2>1. \A o \in Openers : again /\ o = s => retries[o] - 1 \in 0..Retries
    BY <1>2
  <2> QED
    BY <1>1, <1>2, <2>1
<1>5. \A o \in {s} \cap Openers : state'[o] # "Established"
  <2> SUFFICES ASSUME s \in Openers PROVE state'[s] # "Established"
    OBVIOUS
  <2>1. s \in Streams
    BY DEF Streams
  <2> QED
    BY <1>1, <2>1
<1>6. {s} \in SUBSET Sockets
  OBVIOUS
<1> QED
  BY <1>1, <1>2, <1>3, <1>4, <1>5, <1>6, UnlinkKeepsInv

(* A player is out of the group. *)
LEMMA LoseGroupKeepsInv ==
  ASSUME StreamsInv, NEW p \in {"caller", "callee"}, LoseGroup(p)
  PROVE  StreamsInv'
<1> DEFINE ss == {s \in Sockets : Player(s) = p}
<1>1. /\ state' = [s \in Streams |->
                     IF Player(s) = p /\ state[s] # "none" THEN "Ended" ELSE state[s]]
      /\ backlog' = IF p = "callee" THEN 0 ELSE backlog
      /\ Unlinked(ss)
      /\ UNCHANGED <<pending, retries, sent, received, kind, partner, announced, toServer, used>>
  BY DEF LoseGroup, serverVars, countVars
<1>2. /\ state \in [Streams -> States] /\ retries \in [Openers -> 0..Retries]
      /\ backlog \in 0..Backlog /\ Backlog \in Nat
  BY StreamsAssumption DEF StreamsInv, Typed
<1>3. /\ state' \in [Streams -> States]
      /\ \A t \in Streams : state'[t] = state[t] \/ state'[t] = "Ended"
      /\ backlog' \in 0..Backlog
  <2>1. "Ended" \in States
    BY DEF States
  <2> QED
    BY <1>1, <1>2, <2>1
<1>4. \A o \in ss \cap Openers : state'[o] # "Established"
  <2> SUFFICES ASSUME NEW o \in Openers, Player(o) = p PROVE state'[o] # "Established"
    OBVIOUS
  <2>1. o \in Streams
    BY DEF Streams
  <2> QED
    BY <1>1, <2>1
<1>5. ss \in SUBSET Sockets
  OBVIOUS
<1> QED
  BY <1>1, <1>2, <1>3, <1>4, <1>5, UnlinkKeepsInv

-----------------------------------------------------------------------------
(* A connection that is made: its socket has sent and received nothing, and *)
(* the record of its kind is the first the session gets.                    *)
LEMMA StartRelayKeepsInv ==
  ASSUME StreamsInv, NEW s \in Sockets, NEW type \in Records, StartRelay(s, type), link[s] = 0,
         s \in Streams => type = Record(s) /\ sent[s] = 0 /\ received[s] = << >> /\ state[s] # "none",
         s \in Openers => state[s] = "Opening",
         s \notin Streams => type = "Listen",
         pending' \subseteq pending, s \notin pending',
         UNCHANGED <<state, retries, backlog, sent, received>>
  PROVE  StreamsInv'
<1> DEFINE k == used + 1
<1>0. Typed
  BY DEF StreamsInv
<1>1. /\ used < MaxSessions /\ used' = k
      /\ link' = [link EXCEPT ![s] = k]
      /\ kind' = [kind EXCEPT ![k] = "Pending"]
      /\ toServer' = [toServer EXCEPT ![k] = <<type>>]
      /\ UNCHANGED <<partner, announced, toClient>>
  BY DEF StartRelay
<1>2. /\ k \in Keys /\ k \in Nat /\ used \in Nat /\ MaxSessions \in Nat /\ k # 0
      /\ k \in 0..MaxSessions
  BY <1>0, <1>1, KeysFacts DEF Keys
<1>3. /\ \A t \in Sockets : link[t] \in 0..used
      /\ \A j \in Keys : partner[j] \in 0..used
  BY <1>0 DEF Typed
<1>4. (\A t \in Sockets : link[t] # k) /\ \A j \in Keys : partner[j] # k
  BY <1>2, <1>3
<1>5. kind[k] = "none" /\ toClient[k] = << >>
  BY <1>2 DEF StreamsInv, Fresh
<1>6. partner[k] = 0
  BY <1>2, <1>5 DEF StreamsInv, PairFit
<1>7. /\ Len(<<type>>) = 1 /\ <<type>> # << >> /\ Head(<<type>>) = type /\ Tail(<<type>>) = << >>
      /\ <<type>> \in Seq(Records \cup Blocks)
  OBVIOUS
<1>8. /\ \A t \in Sockets : link'[t] = IF t = s THEN k ELSE link[t]
      /\ \A j \in Keys : kind'[j] = IF j = k THEN "Pending" ELSE kind[j]
      /\ \A j \in Keys : toServer'[j] = IF j = k THEN <<type>> ELSE toServer[j]
  <2>1. /\ link \in [Sockets -> 0..used] /\ kind \in [Keys -> Kinds]
        /\ toServer \in [Keys -> Seq(Records \cup Blocks)]
    BY <1>0 DEF Typed
  <2> QED
    BY <1>1, <1>2, <2>1
<1> HIDE DEF k
<1>9. Typed'
  <2>1. /\ \A i \in 0..used : i \in 0..k
        /\ k \in 0..k
    <3>1. k = used + 1
      BY DEF k
    <3> QED
      BY <1>2, <3>1
  <2>2. link' \in [Sockets -> 0..k] /\ partner' \in [Keys -> 0..k]
    BY <1>0, <1>1, <2>1 DEF Typed
  <2>3. kind' \in [Keys -> Kinds] /\ toServer' \in [Keys -> Seq(Records \cup Blocks)]
    BY <1>0, <1>1, <1>7 DEF Typed, Kinds
  <2>4. pending' \subseteq Accepts
    BY <1>0 DEF Typed
  <2> QED
    BY <1>0, <1>1, <1>2, <2>2, <2>3, <2>4 DEF Typed
<1>10. SentGrows
  BY <1>0 DEF SentGrows, Typed
<1>11. ASSUME NEW j \in Keys, j # k PROVE Steady(j)
  BY <1>0, <1>8, <1>11, KeysFacts DEF Steady
<1>12. Fresh'
  <2> SUFFICES ASSUME NEW j \in Keys, j > used' PROVE kind'[j] = "none" /\ toClient'[j] = << >>
    BY DEF Fresh
  <2>1. j > used /\ j # k
    <3>1. k = used + 1 /\ j \in Nat
      BY <1>0, KeysFacts DEF k
    <3> QED
      BY <1>1, <1>2, <3>1
  <2> QED
    BY <1>1, <1>8, <2>1 DEF StreamsInv, Fresh
<1>13. LinksApart'
  BY <1>4, <1>8 DEF StreamsInv, LinksApart
<1>14. ASSUME NEW j \in Keys PROVE PairFit(j)' /\ OutFit(j)'
  <2>0. PairFit(j) /\ OutFit(j)
    BY DEF StreamsInv
  <2>1. CASE j = k
    <3>1. PairFit(j)'
      BY <1>1, <1>6, <1>8, <2>1 DEF PairFit
    <3>2. ASSUME NEW r \in {"Connect", "Accept"}, Head(toServer'[k]) = r
          PROVE  FromEnd(Tail(toServer'[k]), k, Makers(r), sent', link')
      <4>1. type = r /\ s \in Streams
        BY <1>2, <1>7, <1>8, <3>2
      <4>2. type = Record(s) /\ sent'[s] = 0
        BY <4>1
      <4>3. s \in Makers(r) /\ Makers(r) \in SUBSET Streams
        BY <4>1, <4>2 DEF Makers, Record, Streams
      <4>4. \A t \in Streams : link'[t] = k => t = s
        BY <1>0, <1>4, <1>8, KeysFacts
      <4>5. FromEnd(<< >>, k, Makers(r), sent', link')
        BY <4>2, <4>3, <4>4, FromEndBegins
      <4> QED
        BY <1>2, <1>7, <1>8, <4>5
    <3>3. kind'[k] = "Pending" /\ partner'[k] = 0 /\ toServer'[k] # << >>
      BY <1>1, <1>2, <1>6, <1>7, <1>8
    <3> QED
      BY <2>1, <3>1, <3>2, <3>3 DEF OutFit, Unpaired1
  <2>2. CASE j # k
    <3>1. kind'[j] = kind[j] /\ partner'[j] = partner[j] /\ toServer'[j] = toServer[j]
      BY <1>1, <1>8, <2>2
    <3>2. OutFit(j)'
      BY <1>0, <1>9, <1>10, <1>11, <2>0, <2>2, <3>1, OutKept
    <3>3. PairFit(j)'
      BY <1>0, <1>1, <1>4, <1>8, <2>0, <2>2, KeysFacts DEF PairFit
    <3> QED
      BY <3>2, <3>3
  <2> QED
    BY <2>1, <2>2
<1>15. ASSUME NEW t \in Streams PROVE KindFit(t)' /\ UnsentFit(t)' /\ SocketFit(t)'
  <2>0. t \in Sockets /\ KindFit(t) /\ UnsentFit(t) /\ SocketFit(t) /\ (link[t] # 0 => link[t] \in Keys)
    BY <1>0, KeysFacts DEF StreamsInv
  <2>1. CASE t = s
    <3>1. link'[t] = k /\ kind'[k] = "Pending" /\ toServer'[k] = <<type>> /\ partner'[k] = 0
          /\ toClient'[k] = << >>
      BY <1>1, <1>2, <1>5, <1>6, <1>8, <2>0, <2>1
    <3>2. KindFit(t)'
      BY <1>7, <2>1, <3>1 DEF KindFit
    <3>3. UnsentFit(t)'
      BY <2>1 DEF UnsentFit
    <3>4. SocketFit(t)'
      BY <1>2, <2>1, <3>1, NoData, StreamBegins DEF SocketFit, Unpaired1
    <3> QED
      BY <3>2, <3>3, <3>4
  <2>2. CASE t # s
    <3>1. link'[t] = link[t] /\ link[t] # k
      BY <1>4, <1>8, <2>0, <2>2
    <3>2. link[t] # 0 => /\ kind'[link[t]] = kind[link[t]] /\ toServer'[link[t]] = toServer[link[t]]
                         /\ partner[link[t]] # k
      BY <1>4, <1>8, <2>0, <3>1
    <3>3. KindFit(t)'
      BY <2>0, <3>1, <3>2 DEF KindFit
    <3>4. UnsentFit(t)'
      BY <2>0, <2>2, <3>1 DEF UnsentFit
    <3>5. link[t] # 0 /\ partner[link[t]] # 0 =>
            /\ toServer'[partner[link[t]]] = toServer[partner[link[t]]]
            /\ Steady(partner[link[t]])
      BY <1>0, <1>8, <1>11, <2>0, <3>2, KeysFacts
    <3>6. SocketFit(t)'
      BY <1>0, <1>1, <1>9, <1>10, <2>0, <3>1, <3>2, <3>5, SocketKept
    <3> QED
      BY <3>3, <3>4, <3>6
  <2> QED
    BY <2>1, <2>2
<1>16. ASSUME NEW o \in Openers PROVE OpenFit(o)'
  <2>0. o \in Sockets /\ o \in Streams /\ OpenFit(o) /\ (link[o] # 0 => link[o] \in Keys)
    BY <1>0, KeysFacts DEF StreamsInv
  <2>1. CASE o = s
    <3>1. link'[o] = k /\ toClient'[k] = << >> /\ partner'[k] = 0 /\ state'[o] = "Opening"
      BY <1>1, <1>5, <1>6, <1>8, <2>0, <2>1
    <3> QED
      BY <3>1 DEF OpenFit
  <2>2. CASE o # s
    <3>1. link'[o] = link[o] /\ link[o] # k
      BY <1>4, <1>8, <2>0, <2>2
    <3>2. link[o] # 0 => kind'[link[o]] = kind[link[o]]
      BY <1>8, <2>0, <3>1
    <3> QED
      BY <1>1, <2>0, <3>1, <3>2 DEF OpenFit
  <2> QED
    BY <2>1, <2>2
<1> QED
  BY <1>9, <1>12, <1>13, <1>14, <1>15, <1>16 DEF StreamsInv

LEMMA StartsKeepInv ==
  ASSUME StreamsInv,
         \/ \E o \in Openers : StartConnect(o)
         \/ \E a \in Accepts : StartAccept(a)
         \/ StartListen
  PROVE  StreamsInv'
<1>0. Listener \in Sockets /\ Listener \notin Streams /\ Openers \subseteq Streams
      /\ Accepts \subseteq Streams /\ Streams \subseteq Sockets
      /\ Openers \cap Accepts = {} /\ pending \subseteq Accepts
  BY StreamsAssumption DEF StreamsInv, Typed, Streams, Sockets
<1>1. ASSUME NEW o \in Openers, StartConnect(o) PROVE StreamsInv'
  <2>1. /\ state[o] = "Opening" /\ link[o] = 0 /\ StartRelay(o, "Connect")
        /\ UNCHANGED <<state, pending, retries, backlog, sent, received>>
    BY <1>1 DEF StartConnect
  <2>2. UnsentFit(o) /\ o \in Streams /\ o \notin pending
    BY <1>0 DEF StreamsInv
  <2>3. sent[o] = 0 /\ received[o] = << >> /\ Record(o) = "Connect" /\ "Connect" \in Records
    BY <2>1, <2>2 DEF UnsentFit, Record, Records
  <2> QED
    BY <1>0, <2>1, <2>2, <2>3, StartRelayKeepsInv
<1>2. ASSUME NEW a \in Accepts, StartAccept(a) PROVE StreamsInv'
  <2>1. /\ a \in pending /\ pending' = pending \ {a}
        /\ UNCHANGED <<retries, backlog, sent, received>>
    BY <1>2 DEF StartAccept
  <2>2. UnsentFit(a) /\ a \in Streams /\ a \notin Openers
    BY <1>0 DEF StreamsInv
  <2>3. /\ sent[a] = 0 /\ received[a] = << >> /\ Record(a) = "Accept" /\ "Accept" \in Records
        /\ link[a] = 0 /\ state[a] # "none"
    BY <2>1, <2>2 DEF UnsentFit, Record, Records
  <2>4. CASE StartRelay(a, "Accept") /\ UNCHANGED state
    BY <1>0, <2>1, <2>2, <2>3, <2>4, StartRelayKeepsInv
  <2>5. CASE state' = [state EXCEPT ![a] = "Ended"] /\ UNCHANGED <<used, link, serverVars, queueVars>>
    BY <2>1, <2>5, StartFailsKeepsInv DEF serverVars, queueVars
  <2> QED
    BY <1>2, <2>4, <2>5 DEF StartAccept
<1>3. ASSUME StartListen PROVE StreamsInv'
  <2>1. /\ link[Listener] = 0 /\ StartRelay(Listener, "Listen") /\ "Listen" \in Records
        /\ UNCHANGED <<state, pending, retries, backlog, sent, received>>
    BY <1>3 DEF StartListen, Records
  <2>2. Listener \notin pending /\ Listener \notin Openers
    BY <1>0
  <2> QED
    BY <1>0, <2>1, <2>2, StartRelayKeepsInv
<1> QED
  BY <1>1, <1>2, <1>3

-----------------------------------------------------------------------------
(* What lies behind the first of a queue grows with it. *)
LEMMA TailGrows ==
  ASSUME NEW S, NEW q \in Seq(S), q # << >>, NEW b \in S
  PROVE  /\ Append(q, b) \in Seq(S) /\ Append(q, b) # << >>
         /\ Head(Append(q, b)) = Head(q) /\ Tail(Append(q, b)) = Append(Tail(q), b)
<1> DEFINE a == Append(q, b)
           x == Tail(a)
           y == Append(Tail(q), b)
           n == Len(q)
<1>1. /\ a \in Seq(S) /\ Len(a) = n + 1 /\ n \in Nat /\ n > 0
      /\ a[n + 1] = b /\ \A i \in 1..n : a[i] = q[i]
  OBVIOUS
<1>2. Tail(q) \in Seq(S) /\ Len(Tail(q)) = n - 1 /\ \A i \in 1..n - 1 : Tail(q)[i] = q[i + 1]
  OBVIOUS
<1>3. a # << >> /\ Head(a) = Head(q)
  OBVIOUS
<1> HIDE DEF a, n
<1>4. x \in Seq(S) /\ Len(x) = n /\ \A i \in 1..n : x[i] = a[i + 1]
  BY <1>1, <1>3
<1>5. y \in Seq(S) /\ Len(y) = n /\ y[n] = b /\ \A i \in 1..n - 1 : y[i] = Tail(q)[i]
  BY <1>1, <1>2
<1> HIDE DEF x, y
<1>6. ASSUME NEW i \in 1..Len(x) PROVE x[i] = y[i]
  <2>1. CASE i = n
    BY <2>1, <1>1, <1>4, <1>5
  <2>2. CASE i # n
    <3>1. i \in 1..n - 1 /\ i + 1 \in 1..n /\ i \in 1..n
      BY <2>2, <1>1, <1>4
    <3> QED
      BY <3>1, <1>1, <1>2, <1>4, <1>5
  <2> QED
    BY <2>1, <2>2
<1>7. x = y
  BY <1>4, <1>5, <1>6, SameSeq
<1> QED
  BY <1>1, <1>3, <1>7 DEF a, x, y

(* A block is sent on a connection that has a session. *)
LEMMA SendKeepsInv ==
  ASSUME StreamsInv, NEW s \in Streams, Send(s)
  PROVE  StreamsInv'
<1> DEFINE k == link[s]
           b == <<s, sent[s] + 1>>
<1>0. Typed
  BY DEF StreamsInv
<1>1. /\ state[s] = "Established" /\ k # 0
      /\ sent' = [sent EXCEPT ![s] = @ + 1]
      /\ toServer' = IF kind[k] = "gone" THEN toServer
                     ELSE [toServer EXCEPT ![k] = Append(@, b)]
      /\ UNCHANGED <<state, link, pending, retries, backlog, received, kind, partner, announced,
                     toClient, used>>
  BY DEF Send, serverVars, countVars
<1>2. k \in Keys /\ s \in Sockets
  BY <1>0, <1>1, KeysFacts
<1>3. /\ sent \in [Streams -> Nat] /\ b \in Blocks /\ b \in Records \cup Blocks
      /\ toServer[k] \in Seq(Records \cup Blocks)
      /\ toServer \in [Keys -> Seq(Records \cup Blocks)]
  BY <1>0, <1>2 DEF Typed, Blocks
<1>4. /\ sent' \in [Streams -> Nat]
      /\ \A t \in Streams : sent'[t] = IF t = s THEN sent[t] + 1 ELSE sent[t]
  BY <1>1, <1>3
<1>5. \A j \in Keys : toServer'[j] = IF j = k /\ kind[k] # "gone" THEN Append(toServer[j], b)
                                                                ELSE toServer[j]
  BY <1>1, <1>2, <1>3
<1>6. Typed'
  <2>1. Append(toServer[k], b) \in Seq(Records \cup Blocks)
    BY <1>3
  <2>2. toServer' \in [Keys -> Seq(Records \cup Blocks)]
    BY <1>1, <1>3, <2>1
  <2> QED
    BY <1>0, <1>1, <1>4, <2>2 DEF Typed
<1>7. SentGrows
  <2> SUFFICES ASSUME NEW t \in Streams PROVE sent[t] <= sent'[t]
    BY DEF SentGrows
  <2>1. sent[t] \in Nat
    BY <1>3
  <2> QED
    BY <1>4, <2>1
<1>8. ASSUME NEW us \in SUBSET Streams, NEW q, FromEnd(q, k, us, sent, link)
      PROVE  FromEnd(Append(q, b), k, us, sent', link')
  BY <1>1, <1>3, <1>8, FromEndSent
<1> HIDE DEF k, b
<1>9. ASSUME NEW j \in Keys, j # k PROVE Steady(j)
  BY <1>1, <1>4, <1>9 DEF Steady, k
<1>10. Fresh' /\ LinksApart'
  BY <1>1 DEF StreamsInv, Fresh, LinksApart
<1>11. ASSUME NEW j \in Keys PROVE PairFit(j)' /\ OutFit(j)'
  <2>0. PairFit(j) /\ OutFit(j)
    BY DEF StreamsInv
  <2>1. PairFit(j)'
    BY <1>1, <2>0 DEF PairFit
  <2>2. CASE j # k
    <3>1. toServer'[j] = toServer[j]
      BY <1>5, <2>2
    <3> QED
      BY <1>0, <1>1, <1>6, <1>7, <1>9, <2>0, <2>1, <2>2, <3>1, OutKept
  <2>3. CASE j = k /\ kind[k] = "gone"
    <3>1. kind'[j] = "gone" /\ partner'[j] = 0
      BY <1>1, <2>0, <2>3 DEF PairFit
    <3> QED
      BY <2>1, <3>1 DEF OutFit, Unpaired1
  <2>4. CASE j = k /\ kind[k] # "gone"
    <3>1. toServer'[j] = Append(toServer[j], b)
      BY <1>5, <2>4
    <3>2. ASSUME kind'[j] = "Pending"
          PROVE  /\ toServer'[j] # << >>
                 /\ \A r \in {"Connect", "Accept"} :
                      Head(toServer'[j]) = r => FromEnd(Tail(toServer'[j]), j, Makers(r), sent', link')
      <4>1. kind[j] = "Pending" /\ toServer[j] # << >>
        BY <1>1, <2>0, <2>4, <3>2 DEF OutFit
      <4>2. /\ toServer'[j] # << >> /\ Head(toServer'[j]) = Head(toServer[j])
            /\ Tail(toServer'[j]) = Append(Tail(toServer[j]), b)
        BY <1>3, <3>1, <4>1, TailGrows
      <4>3. ASSUME NEW r \in {"Connect", "Accept"}, Head(toServer[j]) = r
            PROVE  FromEnd(Append(Tail(toServer[j]), b), j, Makers(r), sent', link')
        <5>1. FromEnd(Tail(toServer[j]), j, Makers(r), sent, link)
          BY <2>0, <2>4, <4>1, <4>3 DEF OutFit
        <5>2. Makers(r) \in SUBSET Streams
          BY DEF Makers, Streams
        <5> QED
          BY <1>8, <2>4, <5>1, <5>2
      <4> QED
        BY <4>2, <4>3
    <3>3. ASSUME Unpaired1(j)' PROVE FromEnd(toServer'[j], j, Openers, sent', link')
      <4>1. Unpaired1(j)
        BY <1>1, <3>3 DEF Unpaired1
      <4>2. FromEnd(toServer[j], j, Openers, sent, link) /\ Openers \in SUBSET Streams
        BY <2>0, <2>4, <4>1 DEF OutFit, Streams
      <4> QED
        BY <1>8, <2>4, <3>1, <4>2
    <3>4. ASSUME partner'[j] # 0 PROVE toServer'[j] \in Seq(Blocks)
      <4>1. toServer[j] \in Seq(Blocks)
        BY <1>1, <2>0, <2>4, <3>4 DEF OutFit
      <4> QED
        BY <1>3, <3>1, <4>1
    <3>5. OutFit(j)'
      BY <3>2, <3>3, <3>4 DEF OutFit
    <3> QED
      BY <2>1, <2>4, <3>5
  <2> QED
    BY <2>2, <2>3, <2>4
<1>12. ASSUME NEW t \in Streams PROVE KindFit(t)' /\ UnsentFit(t)' /\ SocketFit(t)'
  <2>0. /\ KindFit(t) /\ UnsentFit(t) /\ SocketFit(t) /\ t \in Sockets
        /\ (link[t] # 0 => link[t] \in Keys)
    BY <1>0, KeysFacts DEF StreamsInv
  <2>1. KindFit(t)'
    <3>1. CASE link[t] # 0 /\ kind[link[t]] = "Pending"
      <4>1. toServer[link[t]] \in Seq(Records \cup Blocks) /\ toServer[link[t]] # << >>
        BY <1>0, <2>0, <3>1 DEF StreamsInv, OutFit, Typed
      <4>2. toServer'[link[t]] = toServer[link[t]] \/ toServer'[link[t]] = Append(toServer[link[t]], b)
        BY <1>5, <2>0, <3>1
      <4>3. Head(toServer'[link[t]]) = Head(toServer[link[t]])
        BY <1>3, <4>1, <4>2, TailGrows
      <4> QED
        BY <1>1, <2>0, <3>1, <4>3 DEF KindFit
    <3>2. CASE ~(link[t] # 0 /\ kind[link[t]] = "Pending")
      BY <1>1, <2>0, <3>2 DEF KindFit
    <3> QED
      BY <3>1, <3>2
  <2>2. UnsentFit(t)'
    <3>1. CASE t = s
      BY <1>1, <2>0, <3>1 DEF UnsentFit, k
    <3>2. CASE t # s
      BY <1>1, <1>4, <2>0, <3>2 DEF UnsentFit
    <3> QED
      BY <3>1, <3>2
  <2>3. SocketFit(t)'
    <3>1. CASE link[t] # 0 /\ partner[link[t]] = k
      <4>1. PairFit(link[t]) /\ k # 0 /\ partner[k] = link[t] /\ kind[k] # "gone"
            /\ ~(kind[link[t]] = "Pending" \/ Unpaired1(link[t])) /\ kind[link[t]] # "gone"
        BY <1>1, <1>2, <2>0, <3>1 DEF StreamsInv, PairFit, Unpaired1, k
      <4>2. FromEnd(Unheard(t) \o toServer[k], k, Others(t), sent, link)
        BY <2>0, <3>1, <4>1 DEF SocketFit
      <4>3. /\ Unheard(t) \in Seq(Blocks) /\ toServer[k] \in Seq(Blocks)
            /\ Data(toClient[link[t]]) \in Seq(Blocks)
        BY <1>2, <2>0, <3>1, <4>1, UnheardFits DEF StreamsInv, OutFit
      <4>4. Unheard(t) \o Append(toServer[k], b) = Append(Unheard(t) \o toServer[k], b)
        BY <1>3, <4>3, OneMore
      <4>5. Others(t) \in SUBSET Streams
        BY OthersFacts
      <4>6. FromEnd(Append(Unheard(t) \o toServer[k], b), k, Others(t), sent', link')
        BY <1>8, <4>2, <4>5
      <4>7. Unheard(t)' = Unheard(t) /\ toServer'[k] = Append(toServer[k], b)
        BY <1>1, <1>2, <1>5, <4>1 DEF Unheard
      <4>8. FromEnd(Unheard(t)' \o toServer'[k], k, Others(t), sent', link')
        BY <4>4, <4>6, <4>7
      <4>9. partner'[link'[t]] = k /\ link'[t] = link[t] /\ kind' = kind /\ toClient' = toClient
            /\ Unpaired1(link[t])' = Unpaired1(link[t])
        BY <1>1, <3>1 DEF Unpaired1
      <4> QED
        BY <3>1, <4>1, <4>3, <4>8, <4>9 DEF SocketFit, Unpaired1
    <3>2. CASE ~(link[t] # 0 /\ partner[link[t]] = k)
      <4>1. link[t] # 0 /\ partner[link[t]] # 0 =>
              /\ toServer'[partner[link[t]]] = toServer[partner[link[t]]]
              /\ Steady(partner[link[t]])
        BY <1>0, <1>5, <1>9, <2>0, <3>2, KeysFacts
      <4> QED
        BY <1>0, <1>1, <1>6, <1>7, <2>0, <4>1, SocketKept
    <3> QED
      BY <3>1, <3>2
  <2> QED
    BY <2>1, <2>2, <2>3
<1>13. \A o \in Openers : OpenFit(o)'
  BY <1>1 DEF StreamsInv, OpenFit
<1> QED
  BY <1>6, <1>10, <1>11, <1>12, <1>13 DEF StreamsInv

-----------------------------------------------------------------------------
(* A socket that hears something has the same before it and behind it.      *)
LEMMA HearKeepsInv ==
  ASSUME StreamsInv, NEW s \in Sockets, Hear(s)
  PROVE  StreamsInv'
<1> DEFINE k == link[s]
           q == toClient[k]
<1>0. Typed
  BY DEF StreamsInv
<1>1. /\ k # 0 /\ q # << >>
      /\ HearNotice(s, Head(q)) \/ HearBlock(s, Head(q)) \/ HearRequest(s, Head(q))
      /\ toClient' = [toClient EXCEPT ![k] = Tail(@)]
      /\ UNCHANGED <<link, pending, retries, sent, kind, partner, announced, toServer, used>>
  BY DEF Hear, serverVars, countVars
<1>2. k \in Keys /\ q \in Seq(Messages) /\ toClient \in [Keys -> Seq(Messages)]
  BY <1>0, <1>1, KeysFacts DEF Typed
<1>3. \A j \in Keys : toClient'[j] = IF j = k THEN Tail(q) ELSE toClient[j]
  BY <1>1, <1>2
<1>4. s \in Streams =>
        /\ KindFit(s) /\ UnsentFit(s) /\ SocketFit(s) /\ PairFit(k)
        /\ Data(q) \in Seq(Blocks)
        /\ ~(kind[k] = "Pending" \/ Unpaired1(k))
        /\ received[s] \in Seq(Blocks)
  BY <1>0, <1>1, <1>2 DEF StreamsInv, SocketFit, Typed
<1>5. s \in Streams =>
        /\ Tail(q) \in Seq(Messages) /\ Data(Tail(q)) = Tail(q) /\ Tail(q) \in Seq(Blocks)
        /\ Head(q) = q[1]
        /\ Head(q) = Notice => Data(q) = Tail(q)
        /\ Head(q) # Notice => Data(q) = q /\ Head(q) \in Blocks /\ q \in Seq(Blocks)
  BY <1>1, <1>2, <1>4, DataHeard
<1>6. \A t \in Sockets : t # s /\ link[t] # 0 => toClient'[link[t]] = toClient[link[t]]
  BY <1>0, <1>1, <1>3, KeysFacts DEF StreamsInv, LinksApart
<1>7. state' \in [Streams -> States] /\ received' \in [Streams -> Seq(Blocks)] /\ backlog' \in 0..Backlog
  <2>1. state \in [Streams -> States] /\ received \in [Streams -> Seq(Blocks)] /\ backlog \in 0..Backlog
    BY <1>0 DEF Typed
  <2>2. CASE HearNotice(s, Head(q))
    BY <2>1, <2>2 DEF HearNotice, States
  <2>3. CASE HearBlock(s, Head(q))
    <3>1. Append(received[s], Head(q)) \in Seq(Blocks)
      BY <1>4, <1>5, <2>3 DEF HearBlock
    <3> QED
      BY <2>1, <2>3, <3>1 DEF HearBlock
  <2>4. CASE HearRequest(s, Head(q))
    <3>1. backlog' \in 0..Backlog
      BY <2>1, <2>4, StreamsAssumption DEF HearRequest
    <3> QED
      BY <2>1, <2>4, <3>1 DEF HearRequest
  <2> QED
    BY <1>1, <2>2, <2>3, <2>4
<1>8. Typed'
  <2>1. Tail(q) \in Seq(Messages)
    BY <1>1, <1>2
  <2>2. toClient' \in [Keys -> Seq(Messages)]
    BY <1>1, <1>2, <2>1
  <2> QED
    BY <1>0, <1>1, <1>7, <2>2 DEF Typed
<1>9. SentGrows
  BY <1>0, <1>1 DEF SentGrows, Typed
<1>10. \A j \in Keys : Steady(j)
  BY <1>1 DEF Steady
<1>11. ASSUME NEW t \in Streams, t # s PROVE state'[t] = state[t] /\ received'[t] = received[t]
  <2>1. state \in [Streams -> States] /\ received \in [Streams -> Seq(Blocks)]
    BY <1>0 DEF Typed
  <2> QED
    BY <1>1, <1>11, <2>1 DEF HearNotice, HearBlock, HearRequest
<1>12. Fresh' /\ LinksApart'
  <2>1. Fresh'
    <3> SUFFICES ASSUME NEW j \in Keys, j > used' PROVE kind'[j] = "none" /\ toClient'[j] = << >>
      BY DEF Fresh
    <3>1. kind[j] = "none" /\ toClient[j] = << >>
      BY <1>1 DEF StreamsInv, Fresh
    <3>2. j # k
      BY <1>1, <3>1
    <3> QED
      BY <1>1, <1>3, <3>1, <3>2
  <2>2. LinksApart'
    BY <1>1 DEF StreamsInv, LinksApart
  <2> QED
    BY <2>1, <2>2
<1>13. \A j \in Keys : PairFit(j)' /\ OutFit(j)'
  <2> SUFFICES ASSUME NEW j \in Keys PROVE PairFit(j)' /\ OutFit(j)'
    OBVIOUS
  <2>1. PairFit(j)'
    BY <1>1 DEF StreamsInv, PairFit
  <2>2. OutFit(j)'
    BY <1>1 DEF StreamsInv, OutFit, Unpaired1
  <2> QED
    BY <2>1, <2>2
<1>14. s \in Openers => q[1] = Notice \/ state[s] # "Opening"
  BY <1>1 DEF StreamsInv, OpenFit
<1>15. ASSUME s \in Streams
       PROVE  /\ KindFit(s)' /\ UnsentFit(s)' /\ SocketFit(s)'
              /\ s \in Openers => OpenFit(s)'
  <2>0. s \in Streams
    BY <1>15
  <2>1. KindFit(s)'
    BY <1>1, <1>4, <2>0 DEF KindFit
  <2>2. ~(HearRequest(s, Head(q)))
    BY <2>0, StreamsAssumption DEF HearRequest, Streams
  <2>3. state \in [Streams -> States] /\ received \in [Streams -> Seq(Blocks)]
    BY <1>0 DEF Typed
  <2>4. state[s] # "none" /\ s \notin pending
    BY <1>1, <1>4, <2>0 DEF UnsentFit
  <2>5. /\ Unheard(s)' = Unheard(s)
        /\ state'[s] # "none" /\ (s \in Openers => state'[s] # "Opening")
    <3>1. CASE HearNotice(s, Head(q))
      <4>1. Data(Tail(q)) = Data(q)
        BY <1>5, <2>0, <3>1 DEF HearNotice
      <4> QED
        BY <1>1, <1>2, <1>3, <2>0, <2>3, <2>4, <3>1, <4>1 DEF HearNotice, Unheard
    <3>2. CASE HearBlock(s, Head(q))
      <4>1. Data(q) = q /\ Data(Tail(q)) = Tail(q) /\ q \in Seq(Blocks) /\ q[1] # Notice
        BY <1>5, <2>0, <3>2 DEF HearBlock
      <4>2. received[s] \o q = Append(received[s], Head(q)) \o Tail(q)
        BY <1>1, <1>4, <2>0, <4>1, MoveOn
      <4>3. received'[s] = Append(received[s], Head(q)) /\ state' = state
        BY <2>0, <2>3, <3>2 DEF HearBlock
      <4>4. Unheard(s)' = Unheard(s)
        BY <1>1, <1>2, <1>3, <4>1, <4>2, <4>3 DEF Unheard
      <4> QED
        BY <1>14, <2>4, <4>1, <4>3, <4>4
    <3> QED
      BY <1>1, <2>2, <3>1, <3>2
  <2>6. UnsentFit(s)'
    BY <1>1, <2>4, <2>5 DEF UnsentFit
  <2>7. toClient'[k] = Tail(q) /\ Data(Tail(q)) \in Seq(Blocks)
    BY <1>2, <1>3, <1>5, <2>0
  <2>8. SocketFit(s)'
    <3>1. partner[k] # 0 => FromEnd(Unheard(s) \o toServer[partner[k]], partner[k], Others(s), sent, link)
      BY <1>1, <1>4, <2>0 DEF SocketFit
    <3>2. kind[k] = "gone" => From(Unheard(s), Others(s), sent)
      BY <1>1, <1>4, <2>0 DEF SocketFit
    <3>3. ~(kind'[k] = "Pending" \/ Unpaired1(link[s])')
      BY <1>1, <1>4, <2>0 DEF Unpaired1
    <3> QED
      BY <1>1, <2>5, <2>7, <3>1, <3>2, <3>3 DEF SocketFit
  <2>9. ASSUME s \in Openers PROVE OpenFit(s)'
    <3>1. state'[s] # "Opening"
      BY <2>5, <2>9
    <3>2. kind[k] # "gone" => partner[k] # 0
      BY <1>1, <1>4, <2>0, <2>9 DEF KindFit, Record, Unpaired1
    <3> QED
      BY <1>1, <3>1, <3>2 DEF OpenFit
  <2> QED
    BY <2>1, <2>6, <2>8, <2>9
<1>16. ASSUME NEW t \in Streams, t # s
       PROVE  /\ KindFit(t)' /\ UnsentFit(t)' /\ SocketFit(t)'
              /\ t \in Openers => OpenFit(t)'
  <2>0. /\ KindFit(t) /\ UnsentFit(t) /\ SocketFit(t) /\ t \in Sockets
        /\ (link[t] # 0 => link[t] \in Keys /\ toClient'[link[t]] = toClient[link[t]])
        /\ state'[t] = state[t] /\ received'[t] = received[t]
    BY <1>0, <1>6, <1>11, <1>16, KeysFacts DEF StreamsInv
  <2>1. KindFit(t)'
    BY <1>1, <2>0 DEF KindFit
  <2>2. UnsentFit(t)'
    BY <1>1, <2>0 DEF UnsentFit
  <2>3. link[t] # 0 /\ partner[link[t]] # 0 => Steady(partner[link[t]])
    BY <1>0, <1>10, <2>0, KeysFacts
  <2>4. SocketFit(t)'
    BY <1>0, <1>1, <1>8, <1>9, <2>0, <2>3, SocketKept
  <2>5. ASSUME t \in Openers PROVE OpenFit(t)'
    <3>1. OpenFit(t)
      BY <2>5 DEF StreamsInv
    <3> QED
      BY <1>1, <2>0, <3>1 DEF OpenFit
  <2> QED
    BY <2>1, <2>2, <2>4, <2>5
<1>17. \A t \in Streams : KindFit(t)' /\ UnsentFit(t)' /\ SocketFit(t)' /\ (t \in Openers => OpenFit(t)')
  BY <1>15, <1>16
<1>18. Openers \subseteq Streams
  BY DEF Streams
<1> QED
  BY <1>8, <1>12, <1>13, <1>17, <1>18 DEF StreamsInv

-----------------------------------------------------------------------------
(* A step of the relay that touches some sessions, with their partners.     *)
LEMMA RelayKeepsInv ==
  ASSUME StreamsInv, Typed', NEW ks \in SUBSET Keys,
         UNCHANGED <<state, link, pending, retries, backlog, sent, received, used>>,
         \A k \in ks : kind[k] # "none" /\ PairFit(k)' /\ OutFit(k)',
         \A k \in Keys : k \notin ks =>
           /\ kind'[k] = kind[k] /\ partner'[k] = partner[k] /\ partner[k] \notin ks
           /\ toServer'[k] = toServer[k] /\ toClient'[k] = toClient[k],
         \A s \in Streams : link[s] \in ks => KindFit(s)' /\ SocketFit(s)',
         \A o \in Openers : link[o] \in ks => OpenFit(o)'
  PROVE  StreamsInv'
<1>0. Typed
  BY DEF StreamsInv
<1>1. SentGrows
  BY <1>0 DEF SentGrows, Typed
<1>2. \A k \in Keys : Steady(k)
  BY DEF Steady
<1>3. Fresh' /\ LinksApart'
  <2>1. Fresh'
    <3> SUFFICES ASSUME NEW k \in Keys, k > used' PROVE kind'[k] = "none" /\ toClient'[k] = << >>
      BY DEF Fresh
    <3>1. kind[k] = "none" /\ toClient[k] = << >>
      BY DEF StreamsInv, Fresh
    <3> QED
      BY <3>1
  <2>2. LinksApart'
    BY DEF StreamsInv, LinksApart
  <2> QED
    BY <2>1, <2>2
<1>4. ASSUME NEW k \in Keys PROVE PairFit(k)' /\ OutFit(k)'
  <2>1. CASE k \notin ks
    <3>0. PairFit(k) /\ OutFit(k) /\ (partner[k] # 0 => partner[k] \in Keys)
      BY <1>0, KeysFacts DEF StreamsInv
    <3>1. OutFit(k)'
      BY <1>0, <1>1, <1>2, <2>1, <3>0, OutKept
    <3>2. partner[k] # 0 => /\ kind'[partner[k]] = kind[partner[k]]
                            /\ partner'[partner[k]] = partner[partner[k]]
      BY <2>1, <3>0
    <3>3. PairFit(k)'
      BY <2>1, <3>0, <3>2 DEF PairFit
    <3> QED
      BY <3>1, <3>3
  <2> QED
    BY <2>1
<1>5. ASSUME NEW s \in Streams PROVE KindFit(s)' /\ UnsentFit(s)' /\ SocketFit(s)'
  <2>0. KindFit(s) /\ UnsentFit(s) /\ SocketFit(s) /\ (link[s] # 0 => link[s] \in Keys)
    BY <1>0, KeysFacts DEF StreamsInv
  <2>1. UnsentFit(s)'
    BY <2>0 DEF UnsentFit
  <2>2. CASE link[s] \notin ks
    <3>1. KindFit(s)'
      BY <2>0, <2>2 DEF KindFit
    <3>2. link[s] # 0 /\ partner[link[s]] # 0 =>
            /\ toServer'[partner[link[s]]] = toServer[partner[link[s]]]
            /\ Steady(partner[link[s]])
      BY <1>0, <1>2, <2>0, <2>2, KeysFacts
    <3>3. SocketFit(s)'
      BY <1>0, <1>1, <2>0, <2>2, <3>2, SocketKept
    <3> QED
      BY <2>1, <3>1, <3>3
  <2> QED
    BY <2>1, <2>2
<1>6. ASSUME NEW o \in Openers PROVE OpenFit(o)'
  <2>0. OpenFit(o) /\ (link[o] # 0 => link[o] \in Keys)
    BY <1>0, KeysFacts DEF StreamsInv
  <2>1. CASE link[o] \notin ks
    BY <2>0, <2>1 DEF OpenFit
  <2> QED
    BY <2>1
<1> QED
  BY <1>3, <1>4, <1>5, <1>6 DEF StreamsInv

(* A stream's session listens for nobody. *)
LEMMA StreamsDoNotListen ==
  ASSUME StreamsInv, NEW s \in Streams, link[s] # 0
  PROVE  /\ link[s] \in Keys /\ kind[link[s]] \notin {"Listen", "none"}
         /\ kind[link[s]] = "Pending" => Head(toServer[link[s]]) = Record(s)
BY KeysFacts DEF StreamsInv, KindFit, Record

(* What an offer sends, listening connections get. *)
LEMMA OfferedFacts ==
  ASSUME StreamsInv, NEW k \in Keys, Offered(k)
  PROVE  /\ announced' \subseteq Keys /\ toClient' \in [Keys -> Seq(Messages)]
         /\ \A j \in Keys : j \notin Listening => toClient'[j] = toClient[j]
<1>1. announced \subseteq Keys /\ toClient \in [Keys -> Seq(Messages)]
  BY DEF StreamsInv, Typed
<1>2. CASE Listening = {}
  BY <1>1, <1>2 DEF Offered
<1>3. CASE Listening # {}
  <2>1. /\ announced' = announced \cup {k}
        /\ toClient' = [j \in Keys |->
                          toClient[j] \o IF j \in Listening THEN <<Notice>> ELSE << >>]
    BY <1>3 DEF Offered
  <2>2. ASSUME NEW j \in Keys
        PROVE  /\ toClient'[j] \in Seq(Messages)
               /\ j \notin Listening => toClient'[j] = toClient[j]
    <3>1. toClient[j] \in Seq(Messages) /\ Notice \in Messages
      BY <1>1 DEF Messages
    <3> HIDE DEF Notice
    <3>2. <<Notice>> \in Seq(Messages) /\ << >> \in Seq(Messages)
      BY <3>1
    <3>3. toClient[j] \o << >> = toClient[j]
      BY <3>1
    <3>4. toClient[j] \o <<Notice>> \in Seq(Messages)
      BY <3>1, <3>2
    <3>5. toClient'[j] = toClient[j] \o IF j \in Listening THEN <<Notice>> ELSE << >>
      BY <2>1
    <3>6. CASE j \in Listening
      BY <3>4, <3>5, <3>6
    <3>7. CASE j \notin Listening
      BY <3>1, <3>3, <3>5, <3>7
    <3> QED
      BY <3>6, <3>7
  <2>3. toClient' = [j \in Keys |-> toClient'[j]]
    BY <2>1
  <2>4. toClient' \in [Keys -> Seq(Messages)]
    BY <2>2, <2>3
  <2> QED
    BY <1>1, <2>1, <2>2, <2>4
<1> QED
  BY <1>2, <1>3

(* A waiting stream is offered again. *)
LEMMA OfferKeepsInv ==
  ASSUME StreamsInv, NEW k \in Keys, Offer(k)
  PROVE  StreamsInv'
<1>0. Typed
  BY DEF StreamsInv
<1>1. /\ Offered(k)
      /\ UNCHANGED <<state, link, pending, retries, backlog, sent, received, kind, partner,
                     toServer, used>>
  BY DEF Offer, clientVars, countVars
<1>2. /\ announced' \subseteq Keys /\ toClient' \in [Keys -> Seq(Messages)]
      /\ \A j \in Keys : j \notin Listening => toClient'[j] = toClient[j]
  BY <1>1, OfferedFacts
<1>3. Typed'
  BY <1>0, <1>1, <1>2 DEF Typed
<1>4. ASSUME NEW j \in Listening PROVE kind[j] = "Listen" /\ j \in Keys /\ PairFit(j)' /\ OutFit(j)'
  BY <1>1 DEF Listening, StreamsInv, PairFit, OutFit, Unpaired1
<1>5. ASSUME NEW j \in Keys PROVE partner[j] \notin Listening
  <2>1. PairFit(j)
    BY DEF StreamsInv
  <2>2. 0 \notin Keys
    BY <1>0, KeysFacts
  <2> QED
    BY <2>1, <2>2 DEF PairFit, Listening
<1>6. ASSUME NEW s \in Streams PROVE link[s] \notin Listening
  <2>1. 0 \notin Keys
    BY <1>0, KeysFacts
  <2> QED
    BY <2>1, StreamsDoNotListen DEF Listening
<1>7. Openers \subseteq Streams /\ Listening \in SUBSET Keys
  BY DEF Streams, Listening
<1> QED
  BY <1>1, <1>2, <1>3, <1>4, <1>5, <1>6, <1>7, RelayKeepsInv

-----------------------------------------------------------------------------
(* Before a session is paired, its socket heard nothing.                    *)
LEMMA LoneSession ==
  ASSUME StreamsInv, NEW k \in Keys, kind[k] = "Pending" \/ Unpaired1(k)
  PROVE  /\ k # 0 /\ partner[k] = 0 /\ (\A j \in Keys : partner[j] # k)
         /\ toServer[k] \in Seq(Records \cup Blocks) /\ toClient[k] \in Seq(Messages)
         /\ \A s \in Streams : link[s] = k =>
              /\ toClient[k] = << >> /\ received[s] = << >>
              /\ kind[k] = "Pending" => Head(toServer[k]) = Record(s)
              /\ kind[k] = "Connect" => s \in Openers
         /\ \A o \in Openers : link[o] = k => state[o] # "Established"
<1>0. Typed
  BY DEF StreamsInv
<1>1. k # 0 /\ toServer[k] \in Seq(Records \cup Blocks) /\ toClient[k] \in Seq(Messages)
  BY <1>0, KeysFacts DEF Typed
<1>2. partner[k] = 0
  BY DEF StreamsInv, PairFit, Unpaired1
<1>3. ASSUME NEW j \in Keys PROVE partner[j] # k
  <2>1. PairFit(j) /\ j # 0
    BY <1>0, KeysFacts DEF StreamsInv
  <2> QED
    BY <1>1, <1>2, <2>1 DEF PairFit
<1>4. ASSUME NEW s \in Streams, link[s] = k
      PROVE  /\ toClient[k] = << >> /\ received[s] = << >>
             /\ kind[k] = "Pending" => Head(toServer[k]) = Record(s)
             /\ kind[k] = "Connect" => s \in Openers
  <2>1. KindFit(s) /\ SocketFit(s)
    BY DEF StreamsInv
  <2> QED
    BY <1>1, <1>4, <2>1 DEF KindFit, SocketFit, Record
<1>5. ASSUME NEW o \in Openers, link[o] = k PROVE state[o] # "Established"
  BY <1>2, <1>5 DEF StreamsInv, OpenFit, Unpaired1
<1> QED
  BY <1>1, <1>2, <1>3, <1>4, <1>5

(* The init record of a connecting stream. *)
LEMMA InitConnectKeepsInv ==
  ASSUME StreamsInv, NEW k \in Keys, kind[k] = "Pending", toServer[k] # << >>, InitConnect(k),
         UNCHANGED <<clientVars, countVars>>
  PROVE  StreamsInv'
<1> DEFINE ks == {k} \cup Listening
<1>0. Typed
  BY DEF StreamsInv
<1>1. /\ Head(toServer[k]) = "Connect"
      /\ kind' = [kind EXCEPT ![k] = "Connect"]
      /\ toServer' = [toServer EXCEPT ![k] = Tail(@)]
      /\ Offered(k)
      /\ UNCHANGED <<state, link, pending, retries, backlog, sent, received, partner, used>>
  BY DEF InitConnect, clientVars, countVars
<1>2. /\ announced' \subseteq Keys /\ toClient' \in [Keys -> Seq(Messages)]
      /\ \A j \in Keys : j \notin Listening => toClient'[j] = toClient[j]
  BY <1>1, OfferedFacts
<1>3. /\ k # 0 /\ partner[k] = 0 /\ (\A j \in Keys : partner[j] # k)
      /\ toServer[k] \in Seq(Records \cup Blocks) /\ k \notin Listening
      /\ FromEnd(Tail(toServer[k]), k, Openers, sent, link)
      /\ toClient'[k] = toClient[k]
  <2>1. FromEnd(Tail(toServer[k]), k, Makers("Connect"), sent, link)
    BY <1>1 DEF StreamsInv, OutFit
  <2>2. k \notin Listening
    BY DEF Listening
  <2> QED
    BY <1>2, <2>1, <2>2, LoneSession DEF Makers
<1>4. /\ \A j \in Keys : kind'[j] = IF j = k THEN "Connect" ELSE kind[j]
      /\ \A j \in Keys : toServer'[j] = IF j = k THEN Tail(toServer[k]) ELSE toServer[j]
  BY <1>0, <1>1 DEF Typed
<1>5. Typed'
  <2>1. Tail(toServer[k]) \in Seq(Records \cup Blocks)
    BY <1>3
  <2>2. kind' \in [Keys -> Kinds] /\ toServer' \in [Keys -> Seq(Records \cup Blocks)]
    BY <1>0, <1>1, <2>1 DEF Typed, Kinds
  <2> QED
    BY <1>0, <1>1, <1>2, <2>2 DEF Typed
<1>6. ASSUME NEW j \in Listening
      PROVE  /\ j \in Keys /\ kind[j] = "Listen" /\ j # k /\ (\A i \in Keys : partner[i] # j)
             /\ PairFit(j)' /\ OutFit(j)'
  <2>1. j \in Keys /\ kind[j] = "Listen" /\ j # k /\ PairFit(j) /\ j # 0
    BY <1>0, KeysFacts DEF Listening, StreamsInv
  <2>2. partner[j] = 0
    BY <2>1 DEF PairFit
  <2>3. ASSUME NEW i \in Keys PROVE partner[i] # j
    BY <2>1, <2>2, <2>3 DEF StreamsInv, PairFit
  <2>4. PairFit(j)' /\ OutFit(j)'
    BY <1>1, <1>4, <2>1, <2>2 DEF PairFit, OutFit, Unpaired1
  <2> QED
    BY <2>1, <2>3, <2>4
<1>7. PairFit(k)' /\ OutFit(k)'
  <2>1. kind'[k] = "Connect" /\ partner'[k] = 0 /\ toServer'[k] = Tail(toServer[k])
    BY <1>1, <1>3, <1>4
  <2>2. PairFit(k)'
    BY <2>1 DEF PairFit
  <2>3. OutFit(k)'
    BY <1>1, <1>3, <2>1 DEF OutFit, Unpaired1
  <2> QED
    BY <2>2, <2>3
<1>8. ASSUME NEW s \in Streams, link[s] \in ks
      PROVE  link[s] = k /\ KindFit(s)' /\ SocketFit(s)'
  <2>1. link[s] = k
    <3>1. link[s] \in Listening => link[s] # 0
      BY <1>0, <1>6, KeysFacts
    <3> QED
      BY <1>8, <3>1, StreamsDoNotListen DEF Listening
  <2>2. toClient[k] = << >> /\ received[s] = << >> /\ Record(s) = "Connect"
    BY <1>1, <2>1, LoneSession
  <2>3. link'[s] = k /\ kind'[k] = "Connect" /\ partner'[k] = 0 /\ toClient'[k] = << >>
        /\ received'[s] = << >>
    BY <1>1, <1>3, <1>4, <2>1, <2>2
  <2>4. KindFit(s)'
    BY <2>2, <2>3 DEF KindFit
  <2>5. SocketFit(s)'
    BY <1>3, <2>3, NoData, StreamBegins DEF SocketFit, Unpaired1
  <2> QED
    BY <2>1, <2>4, <2>5
<1>9. ASSUME NEW o \in Openers, link[o] \in ks PROVE OpenFit(o)'
  <2>1. o \in Streams
    BY DEF Streams
  <2>2. link[o] = k
    BY <1>8, <1>9, <2>1
  <2>3. state[o] # "Established" /\ toClient[k] = << >>
    BY <2>1, <2>2, LoneSession
  <2> QED
    BY <1>1, <1>3, <2>2, <2>3 DEF OpenFit
<1>10. \A j \in Keys : j \notin ks =>
         /\ kind'[j] = kind[j] /\ partner'[j] = partner[j] /\ partner[j] \notin ks
         /\ toServer'[j] = toServer[j] /\ toClient'[j] = toClient[j]
  BY <1>1, <1>2, <1>3, <1>4, <1>6
<1>11. ks \in SUBSET Keys
  BY DEF Listening
<1>12. \A j \in ks : kind[j] # "none" /\ PairFit(j)' /\ OutFit(j)'
  BY <1>6, <1>7
<1> HIDE DEF ks
<1> QED
  BY <1>1, <1>5, <1>8, <1>9, <1>10, <1>11, <1>12, RelayKeepsInv

(* The init record of a listening connection: older ones end. *)
LEMMA InitListenKeepsInv ==
  ASSUME StreamsInv, NEW k \in Keys, kind[k] = "Pending", toServer[k] # << >>, InitListen(k),
         UNCHANGED <<clientVars, countVars>>
  PROVE  StreamsInv'
<1> DEFINE ks == {k} \cup Listening
<1>0. Typed
  BY DEF StreamsInv
<1>1. /\ Head(toServer[k]) = "Listen"
      /\ kind' = [j \in Keys |-> CASE j = k -> "Listen" [] j \in Listening -> "gone"
                                   [] OTHER -> kind[j]]
      /\ toServer' = [toServer EXCEPT ![k] = Tail(@)]
      /\ UNCHANGED <<state, link, pending, retries, backlog, sent, received, partner, announced,
                     toClient, used>>
  BY DEF InitListen, clientVars, countVars
<1>2. /\ k # 0 /\ partner[k] = 0 /\ (\A j \in Keys : partner[j] # k)
      /\ toServer[k] \in Seq(Records \cup Blocks) /\ k \notin Listening
  BY LoneSession DEF Listening
<1>3. /\ kind'[k] = "Listen"
      /\ \A j \in Listening : kind'[j] = "gone"
      /\ \A j \in Keys : j \notin ks => kind'[j] = kind[j]
      /\ \A j \in Keys : toServer'[j] = IF j = k THEN Tail(toServer[k]) ELSE toServer[j]
  <2>1. kind'[k] = "Listen"
    BY <1>1, <1>2
  <2>2. \A j \in Listening : kind'[j] = "gone"
    BY <1>1, <1>2 DEF Listening
  <2>3. \A j \in Keys : j \notin ks => kind'[j] = kind[j]
    BY <1>1
  <2>4. \A j \in Keys : toServer'[j] = IF j = k THEN Tail(toServer[k]) ELSE toServer[j]
    BY <1>0, <1>1 DEF Typed
  <2> QED
    BY <2>1, <2>2, <2>3, <2>4
<1>4. Typed'
  <2>1. kind' \in [Keys -> Kinds]
    <3>1. \A j \in Keys : kind'[j] \in Kinds
      BY <1>0, <1>3 DEF Typed, Kinds
    <3> QED
      BY <1>1, <3>1
  <2>2. toServer' \in [Keys -> Seq(Records \cup Blocks)]
    <3>1. Tail(toServer[k]) \in Seq(Records \cup Blocks)
      BY <1>2
    <3> QED
      BY <1>0, <1>1, <3>1 DEF Typed
  <2> QED
    BY <1>0, <1>1, <2>1, <2>2 DEF Typed
<1>5. ASSUME NEW j \in Listening
      PROVE  /\ j \in Keys /\ kind[j] = "Listen" /\ (\A i \in Keys : partner[i] # j)
             /\ PairFit(j)' /\ OutFit(j)'
  <2>1. j \in Keys /\ kind[j] = "Listen" /\ PairFit(j) /\ j # 0
    BY <1>0, KeysFacts DEF Listening, StreamsInv
  <2>2. partner[j] = 0
    BY <2>1 DEF PairFit
  <2>3. ASSUME NEW i \in Keys PROVE partner[i] # j
    BY <2>1, <2>2, <2>3 DEF StreamsInv, PairFit
  <2>4. PairFit(j)' /\ OutFit(j)'
    BY <1>1, <1>3, <2>1, <2>2 DEF PairFit, OutFit, Unpaired1
  <2> QED
    BY <2>1, <2>3, <2>4
<1>6. PairFit(k)' /\ OutFit(k)'
  BY <1>1, <1>2, <1>3 DEF PairFit, OutFit, Unpaired1
<1>7. ASSUME NEW s \in Streams PROVE link[s] \notin ks
  <2>1. link[s] # k
    <3>1. Record(s) # "Listen"
      BY DEF Record
    <3> QED
      BY <1>1, <3>1, LoneSession
  <2>2. link[s] \notin Listening
    BY <1>0, <1>5, KeysFacts, StreamsDoNotListen
  <2> QED
    BY <2>1, <2>2
<1>8. \A j \in Keys : j \notin ks =>
        /\ kind'[j] = kind[j] /\ partner'[j] = partner[j] /\ partner[j] \notin ks
        /\ toServer'[j] = toServer[j] /\ toClient'[j] = toClient[j]
  BY <1>1, <1>2, <1>3, <1>5
<1>9. ks \in SUBSET Keys
  BY DEF Listening
<1>10. \A j \in ks : kind[j] # "none" /\ PairFit(j)' /\ OutFit(j)'
  BY <1>5, <1>6
<1>11. Openers \subseteq Streams
  BY DEF Streams
<1> HIDE DEF ks
<1> QED
  BY <1>1, <1>4, <1>7, <1>8, <1>9, <1>10, <1>11, RelayKeepsInv

-----------------------------------------------------------------------------
(* One in front of nothing. *)
LEMMA NothingBefore ==
  ASSUME NEW S, NEW q \in Seq(S)
  PROVE  << >> \o q = q
OBVIOUS

(* The oldest of the waiting streams is one. *)
LEMMA OldestWaits ==
  ASSUME StreamsInv, Unpaired # {},
         NEW c, c = CHOOSE c1 \in Unpaired : \A d \in Unpaired : c1 <= d
  PROVE  c \in Keys /\ Unpaired1(c)
<1>1. Unpaired \in SUBSET Nat
  BY KeysFacts DEF StreamsInv, Unpaired
<1>2. \E c1 \in Unpaired : \A d \in Unpaired : c1 <= d
  <2>1. IsWellFoundedOn(OpToRel(<, Nat), Nat)
    BY NatLessThanWellFounded
  <2>2. PICK c1 \in Unpaired : \A d \in Unpaired : ~(<<d, c1>> \in OpToRel(<, Nat))
    BY <1>1, <2>1, WFMin
  <2>3. ASSUME NEW d \in Unpaired PROVE c1 <= d
    <3>1. d \in Nat /\ c1 \in Nat
      BY <1>1
    <3>2. ~(d < c1)
      BY <2>2, <3>1 DEF OpToRel
    <3> QED
      BY <3>1, <3>2
  <2> QED
    BY <2>3
<1>3. c \in Unpaired
  BY <1>2
<1> QED
  BY <1>3 DEF Unpaired, Unpaired1

(* Two entries of a table that are changed at once. *)
LEMMA TwoChanged ==
  ASSUME NEW K, NEW S, NEW f \in [K -> S], NEW x \in K, NEW y \in K, x # y, NEW u, NEW v, NEW g,
         g = [f EXCEPT ![x] = u, ![y] = v]
  PROVE  /\ g = [j \in K |-> g[j]]
         /\ \A j \in K : g[j] = IF j = x THEN u ELSE IF j = y THEN v ELSE f[j]
OBVIOUS

LEMMA TwoAppended ==
  ASSUME NEW K, NEW S, NEW f \in [K -> S], NEW x \in K, NEW y \in K, x # y, NEW m, NEW g,
         g = [f EXCEPT ![x] = Append(@, m), ![y] = Append(@, m)]
  PROVE  /\ g = [j \in K |-> g[j]]
         /\ \A j \in K : g[j] = IF j \in {x, y} THEN Append(f[j], m) ELSE f[j]
OBVIOUS

(* An accepting session is paired with the oldest waiting stream. *)
LEMMA PairKeepsInv ==
  ASSUME StreamsInv, NEW k \in Keys, kind[k] = "Pending", toServer[k] # << >>, Pair(k),
         UNCHANGED <<clientVars, countVars>>
  PROVE  StreamsInv'
<1>0. Typed
  BY DEF StreamsInv
<1>1. PICK c : /\ c = CHOOSE c1 \in Unpaired : \A d \in Unpaired : c1 <= d
               /\ Unpaired # {} /\ Head(toServer[k]) = "Accept"
               /\ kind' = [kind EXCEPT ![k] = "Accept"]
               /\ partner' = [partner EXCEPT ![k] = c, ![c] = k]
               /\ toClient' = [toClient EXCEPT ![k] = Append(@, Notice), ![c] = Append(@, Notice)]
               /\ toServer' = [toServer EXCEPT ![k] = Tail(@)]
               /\ UNCHANGED <<state, link, pending, retries, backlog, sent, received, announced, used>>
  BY DEF Pair, clientVars, countVars
<1>2. c \in Keys /\ Unpaired1(c)
  BY <1>1, OldestWaits
<1>3. /\ c # k /\ c # 0 /\ k # 0 /\ kind[c] = "Connect" /\ partner[c] = 0 /\ partner[k] = 0
      /\ \A j \in Keys : partner[j] # k /\ partner[j] # c
  BY <1>2, LoneSession DEF Unpaired1
<1>4. /\ toServer[k] \in Seq(Records \cup Blocks) /\ Tail(toServer[k]) \in Seq(Records \cup Blocks)
      /\ toClient[k] \in Seq(Messages) /\ toClient[c] \in Seq(Messages)
  BY <1>2, LoneSession
<1>5. /\ FromEnd(Tail(toServer[k]), k, Accepts, sent, link) /\ Tail(toServer[k]) \in Seq(Blocks)
      /\ FromEnd(toServer[c], c, Openers, sent, link) /\ toServer[c] \in Seq(Blocks)
  <2>1. FromEnd(Tail(toServer[k]), k, Makers("Accept"), sent, link)
    BY <1>1 DEF StreamsInv, OutFit
  <2>2. FromEnd(toServer[c], c, Openers, sent, link)
    BY <1>2 DEF StreamsInv, OutFit
  <2>3. FromEnd(Tail(toServer[k]), k, Accepts, sent, link)
    BY <2>1 DEF Makers
  <2> QED
    BY <2>2, <2>3 DEF FromEnd
<1>6. /\ \A j \in Keys : kind'[j] = IF j = k THEN "Accept" ELSE kind[j]
      /\ \A j \in Keys : partner'[j] = IF j = k THEN c ELSE IF j = c THEN k ELSE partner[j]
      /\ \A j \in Keys : toServer'[j] = IF j = k THEN Tail(toServer[k]) ELSE toServer[j]
      /\ \A j \in Keys : toClient'[j] = IF j \in {k, c} THEN Append(toClient[j], Notice)
                                                      ELSE toClient[j]
      /\ toClient' = [j \in Keys |-> toClient'[j]]
  <2>1. /\ \A j \in Keys : kind'[j] = IF j = k THEN "Accept" ELSE kind[j]
        /\ \A j \in Keys : toServer'[j] = IF j = k THEN Tail(toServer[k]) ELSE toServer[j]
    BY <1>0, <1>1 DEF Typed
  <2>2. \A j \in Keys : partner'[j] = IF j = k THEN c ELSE IF j = c THEN k ELSE partner[j]
    <3>1. partner \in [Keys -> 0..used]
      BY <1>0 DEF Typed
    <3> QED
      <4>1. partner' = [partner EXCEPT ![k] = c, ![c] = k]
        BY <1>1
      <4>2. k \in Keys /\ c \in Keys /\ k # c
        BY <1>2, <1>3
      <4> QED
        BY <3>1, <4>1, <4>2, TwoChanged
  <2>3. /\ toClient' = [j \in Keys |-> toClient'[j]]
        /\ \A j \in Keys : toClient'[j] = IF j \in {k, c} THEN Append(toClient[j], Notice)
                                                       ELSE toClient[j]
    <3>1. toClient \in [Keys -> Seq(Messages)]
      BY <1>0 DEF Typed
    <3> HIDE DEF Notice
    <3> QED
      <4>1. toClient' = [toClient EXCEPT ![k] = Append(@, Notice), ![c] = Append(@, Notice)]
        BY <1>1
      <4>2. k \in Keys /\ c \in Keys /\ k # c
        BY <1>2, <1>3
      <4> QED
        BY <3>1, <4>1, <4>2, TwoAppended
  <2> QED
    BY <2>1, <2>2, <2>3
<1>7. Typed'
  <2>1. kind' \in [Keys -> Kinds] /\ toServer' \in [Keys -> Seq(Records \cup Blocks)]
    BY <1>0, <1>1, <1>4 DEF Typed, Kinds
  <2>2. partner' \in [Keys -> 0..used]
    <3>1. k \in 0..used /\ c \in 0..used
      <4>1. used \in Nat /\ k \in Nat /\ c \in Nat /\ kind[k] # "none" /\ kind[c] # "none"
        BY <1>0, <1>2, <1>3, KeysFacts
      <4>2. ~(k > used) /\ ~(c > used)
        BY <1>2, <4>1 DEF StreamsInv, Fresh
      <4> QED
        BY <4>1, <4>2
    <3> QED
      BY <1>0, <1>1, <3>1 DEF Typed
  <2>3. toClient' \in [Keys -> Seq(Messages)]
    <3>1. Notice \in Messages
      BY DEF Messages
    <3> HIDE DEF Notice
    <3>2. ASSUME NEW j \in Keys PROVE toClient'[j] \in Seq(Messages)
      <4>1. toClient[j] \in Seq(Messages)
        BY <1>0 DEF Typed
      <4>2. Append(toClient[j], Notice) \in Seq(Messages)
        BY <3>1, <4>1
      <4> QED
        BY <1>6, <4>1, <4>2
    <3> QED
      BY <1>6, <3>2
  <2> QED
    BY <1>0, <1>1, <2>1, <2>2, <2>3 DEF Typed
<1>8. /\ kind'[k] = "Accept" /\ partner'[k] = c /\ toServer'[k] = Tail(toServer[k])
      /\ kind'[c] = "Connect" /\ partner'[c] = k /\ toServer'[c] = toServer[c]
      /\ toClient'[k] = Append(toClient[k], Notice) /\ toClient'[c] = Append(toClient[c], Notice)
  BY <1>2, <1>3, <1>6
<1>9. PairFit(k)' /\ OutFit(k)' /\ PairFit(c)' /\ OutFit(c)'
  <2>1. PairFit(k)' /\ PairFit(c)'
    BY <1>3, <1>8 DEF PairFit
  <2>2. OutFit(k)' /\ OutFit(c)'
    BY <1>3, <1>5, <1>8 DEF OutFit, Unpaired1
  <2> QED
    BY <2>1, <2>2
<1>10. ASSUME NEW s \in Streams, NEW j \in {k, c}, link[s] = j
       PROVE  /\ toClient'[j] # << >> /\ toClient'[j][1] = Notice
              /\ Unheard(s)' = << >> /\ Data(toClient'[j]) = << >>
  <2>1. toClient[j] = << >> /\ received[s] = << >>
    BY <1>2, <1>10, LoneSession
  <2>2. toClient'[j] = Append(<< >>, Notice) /\ link'[s] = j /\ received'[s] = << >>
    BY <1>1, <1>8, <1>10, <2>1
  <2>3. Unheard(s)' = << >> \o << >>
    BY <2>2, NoData DEF Unheard
  <2> HIDE DEF Notice
  <2>4. << >> \o << >> = << >>
    BY StreamBegins, NothingBefore
  <2> QED
    BY <2>2, <2>3, <2>4, NoData
<1>11. ASSUME NEW s \in Streams, link[s] = k PROVE KindFit(s)' /\ SocketFit(s)'
  <2>1. Record(s) = "Accept"
    BY <1>1, <1>11, LoneSession
  <2>2. Others(s) = Openers
    BY <2>1 DEF Record, Others
  <2>3. KindFit(s)'
    BY <1>1, <1>8, <1>11, <2>1 DEF KindFit
  <2>4. Data(toClient'[k]) = << >> /\ Unheard(s)' = << >>
    BY <1>10, <1>11
  <2>5. FromEnd(Unheard(s)' \o toServer'[c], c, Others(s), sent', link')
    BY <1>1, <1>5, <1>8, <2>2, <2>4, NothingBefore
  <2>6. link'[s] = k /\ ~(kind'[k] = "Pending" \/ Unpaired1(k)') /\ kind'[k] # "gone"
    BY <1>1, <1>8, <1>11 DEF Unpaired1
  <2>7. Data(toClient'[k]) \in Seq(Blocks)
    BY <2>4, StreamBegins
  <2> QED
    BY <1>3, <1>8, <2>3, <2>5, <2>6, <2>7 DEF SocketFit, Unpaired1
<1>12. ASSUME NEW s \in Streams, link[s] = c PROVE KindFit(s)' /\ SocketFit(s)'
  <2>1. s \in Openers
    BY <1>2, <1>3, <1>12, LoneSession
  <2>2. Others(s) = Accepts /\ Record(s) = "Connect"
    BY <2>1 DEF Record, Others
  <2>3. KindFit(s)'
    BY <1>1, <1>8, <1>12, <2>2 DEF KindFit
  <2>4. Data(toClient'[c]) = << >> /\ Unheard(s)' = << >>
    BY <1>10, <1>12
  <2>5. FromEnd(Unheard(s)' \o toServer'[k], k, Others(s), sent', link')
    BY <1>1, <1>5, <1>8, <2>2, <2>4, NothingBefore
  <2>6. link'[s] = c /\ kind'[c] = "Connect" /\ partner'[c] = k
    BY <1>1, <1>8, <1>12
  <2>7. Data(toClient'[c]) \in Seq(Blocks)
    BY <2>4, StreamBegins
  <2> QED
    BY <1>3, <2>3, <2>5, <2>6, <2>7 DEF SocketFit, Unpaired1
<1>13. ASSUME NEW o \in Openers, link[o] \in {k, c} PROVE OpenFit(o)'
  <2>1. o \in Streams
    BY DEF Streams
  <2>2. state[o] # "Established"
    BY <1>2, <1>13, LoneSession
  <2>3. toClient'[link[o]] # << >> /\ toClient'[link[o]][1] = Notice
    BY <1>10, <1>13, <2>1
  <2> QED
    BY <1>1, <2>2, <2>3 DEF OpenFit
<1>14. \A j \in Keys : j \notin {k, c} =>
         /\ kind'[j] = kind[j] /\ partner'[j] = partner[j] /\ partner[j] \notin {k, c}
         /\ toServer'[j] = toServer[j] /\ toClient'[j] = toClient[j]
  BY <1>3, <1>6
<1>15. {k, c} \in SUBSET Keys
  BY <1>2
<1>16. \A j \in {k, c} : kind[j] # "none" /\ PairFit(j)' /\ OutFit(j)'
  BY <1>3, <1>9
<1>17. \A s \in Streams : link[s] \in {k, c} => KindFit(s)' /\ SocketFit(s)'
  BY <1>11, <1>12
<1> QED
  BY <1>1, <1>7, <1>13, <1>14, <1>15, <1>16, <1>17, RelayKeepsInv

(* A session that ends, and its partner's pairing with it. *)
LEMMA GoneKeepsInv ==
  ASSUME StreamsInv, NEW k \in Keys, kind[k] # "none", Gone({k}),
         UNCHANGED <<clientVars, countVars, toClient>>
  PROVE  StreamsInv'
<1> DEFINE ks == {k, partner[k]} \ {0}
<1>0. Typed
  BY DEF StreamsInv
<1>1. /\ kind' = [j \in Keys |-> IF j \in {k, partner[k]} THEN "gone" ELSE kind[j]]
      /\ partner' = [j \in Keys |-> IF j \in {k, partner[k]} THEN 0 ELSE partner[j]]
      /\ announced' = announced \ {k, partner[k]}
      /\ toServer' = [j \in Keys |-> IF j \in {k, partner[k]} THEN << >> ELSE toServer[j]]
      /\ UNCHANGED <<state, link, pending, retries, backlog, sent, received, toClient, used>>
  <2>1. {k} \cup {partner[j] : j \in {k}} = {k, partner[k]}
    OBVIOUS
  <2> QED
    BY <2>1 DEF Gone, clientVars, countVars
<1>2. k # 0 /\ 0 \notin Keys /\ (partner[k] # 0 => partner[k] \in Keys) /\ PairFit(k)
  BY <1>0, KeysFacts DEF StreamsInv
<1>3. /\ ks \in SUBSET Keys /\ k \in ks /\ (partner[k] # 0 => partner[k] \in ks)
      /\ \A j \in Keys : j \in {k, partner[k]} <=> j \in ks
      /\ \A j \in ks : kind[j] # "none"
  <2>1. partner[k] # 0 => kind[partner[k]] # "none"
    BY <1>2 DEF PairFit
  <2> QED
    BY <1>2, <2>1
<1>4. ASSUME NEW j \in Keys, j \notin ks PROVE partner[j] \notin ks
  <2>1. PairFit(j) /\ j # 0
    BY <1>2 DEF StreamsInv
  <2>2. partner[j] # k
    BY <1>2, <1>3, <1>4, <2>1 DEF PairFit
  <2>3. ASSUME partner[j] = partner[k], partner[k] # 0 PROVE FALSE
    <3>1. j = k
      BY <1>2, <2>1, <2>3 DEF PairFit
    <3> QED
      BY <1>3, <1>4, <3>1
  <2> QED
    BY <2>2, <2>3
<1> HIDE DEF ks
<1>5. /\ \A j \in ks : kind'[j] = "gone" /\ partner'[j] = 0 /\ toServer'[j] = << >>
      /\ \A j \in Keys : j \notin ks =>
           kind'[j] = kind[j] /\ partner'[j] = partner[j] /\ toServer'[j] = toServer[j]
  BY <1>1, <1>3
<1>6. Typed'
  <2>1. 0 \in 0..used
    BY <1>0, KeysFacts
  <2>2. << >> \in Seq(Records \cup Blocks) /\ "gone" \in Kinds
    BY DEF Kinds
  <2>3. kind' \in [Keys -> Kinds] /\ partner' \in [Keys -> 0..used]
    BY <1>0, <1>1, <2>1, <2>2 DEF Typed
  <2>4. toServer' \in [Keys -> Seq(Records \cup Blocks)]
    BY <1>0, <1>1, <2>2 DEF Typed
  <2>5. announced' \subseteq Keys
    BY <1>0, <1>1 DEF Typed
  <2> QED
    BY <1>0, <1>1, <2>3, <2>4, <2>5 DEF Typed
<1>7. ASSUME NEW j \in ks PROVE PairFit(j)' /\ OutFit(j)'
  BY <1>5 DEF PairFit, OutFit, Unpaired1
<1>8. ASSUME NEW s \in Streams, link[s] \in ks PROVE KindFit(s)' /\ SocketFit(s)'
  <2>1. link[s] # 0
    BY <1>2, <1>3, <1>8
  <2>2. From(Unheard(s), Others(s), sent) /\ Data(toClient[link[s]]) \in Seq(Blocks)
    BY <2>1, UnheardFits
  <2>3. Unheard(s)' = Unheard(s)
    BY <1>1 DEF Unheard
  <2>4. kind'[link[s]] = "gone" /\ partner'[link[s]] = 0
    BY <1>5, <1>8
  <2> QED
    BY <1>1, <2>1, <2>2, <2>3, <2>4 DEF KindFit, SocketFit, Unpaired1
<1>9. ASSUME NEW o \in Openers, link[o] \in ks PROVE OpenFit(o)'
  <2>1. OpenFit(o)
    BY DEF StreamsInv
  <2>2. kind'[link[o]] = "gone" /\ partner'[link[o]] = 0
    BY <1>5, <1>9
  <2> QED
    BY <1>1, <2>1, <2>2 DEF OpenFit
<1> QED
  BY <1>1, <1>3, <1>4, <1>5, <1>6, <1>7, <1>8, <1>9, RelayKeepsInv

(* A block is passed on to the partner. *)
LEMMA ForwardKeepsInv ==
  ASSUME StreamsInv, NEW k \in Keys, Forward(k)
  PROVE  StreamsInv'
<1> DEFINE p == partner[k]
           q == toServer[k]
           b == Head(q)
           r == toClient[p]
<1>0. Typed
  BY DEF StreamsInv
<1>1. /\ p # 0 /\ q # << >>
      /\ toClient' = [toClient EXCEPT ![p] = Append(@, b)]
      /\ toServer' = [toServer EXCEPT ![k] = Tail(@)]
      /\ UNCHANGED <<state, link, pending, retries, backlog, sent, received, kind, partner,
                     announced, used>>
  BY DEF Forward, Pass, clientVars, serverVars, countVars
<1>2. /\ p \in Keys /\ PairFit(k) /\ OutFit(k) /\ k # 0 /\ PairFit(p) /\ OutFit(p)
      /\ r \in Seq(Messages)
  BY <1>0, <1>1, KeysFacts DEF StreamsInv, Typed
<1>3. /\ partner[p] = k /\ kind[k] \in {"Connect", "Accept"} /\ kind[p] \in {"Connect", "Accept"}
      /\ kind[k] # kind[p] /\ p # k
  BY <1>1, <1>2 DEF PairFit
<1>4. q \in Seq(Blocks) /\ b \in Blocks /\ Tail(q) \in Seq(Blocks)
  <2>1. q \in Seq(Blocks)
    BY <1>1, <1>2 DEF OutFit
  <2> QED
    BY <1>1, <2>1
<1>5. b \in Messages /\ Append(r, b) \in Seq(Messages)
  <2>1. b \in Messages
    BY <1>4 DEF Messages
  <2> QED
    BY <1>2, <2>1
<1>6. /\ \A j \in Keys : toClient'[j] = IF j = p THEN Append(r, b) ELSE toClient[j]
      /\ \A j \in Keys : toServer'[j] = IF j = k THEN Tail(q) ELSE toServer[j]
  <2>1. toClient \in [Keys -> Seq(Messages)] /\ toServer \in [Keys -> Seq(Records \cup Blocks)]
    BY <1>0 DEF Typed
  <2> QED
    BY <1>1, <1>2, <2>1
<1>7. Typed'
  <2>1. Tail(q) \in Seq(Records \cup Blocks)
    <3>1. q \in Seq(Records \cup Blocks)
      BY <1>0 DEF Typed
    <3> QED
      BY <1>1, <3>1
  <2>2. toClient' \in [Keys -> Seq(Messages)] /\ toServer' \in [Keys -> Seq(Records \cup Blocks)]
    BY <1>0, <1>1, <1>5, <2>1 DEF Typed
  <2> QED
    BY <1>0, <1>1, <2>2 DEF Typed
<1>8. ASSUME NEW j \in {k, p} PROVE kind[j] # "none" /\ PairFit(j)' /\ OutFit(j)'
  <2>1. PairFit(j)'
    BY <1>1, <1>2 DEF PairFit
  <2>2. toServer'[j] \in Seq(Blocks)
    BY <1>1, <1>2, <1>3, <1>4, <1>6 DEF OutFit
  <2>3. OutFit(j)'
    BY <1>1, <1>2, <1>3, <2>2 DEF OutFit, Unpaired1
  <2> QED
    BY <1>3, <2>1, <2>3
<1> HIDE DEF p, q, b, r
<1>9. ASSUME NEW s \in Streams, link[s] = p PROVE KindFit(s)' /\ SocketFit(s)'
  <2>0. KindFit(s) /\ SocketFit(s)
    BY DEF StreamsInv
  <2>1. KindFit(s)'
    BY <1>1, <1>3, <1>9, <2>0 DEF KindFit
  <2>2. /\ Unheard(s) \in Seq(Blocks) /\ Data(r) \in Seq(Blocks) /\ received[s] \in Seq(Blocks)
        /\ Unheard(s) = received[s] \o Data(r)
    BY <1>1, <1>9, UnheardFits DEF Unheard, r
  <2>3. Data(Append(r, b)) = Append(Data(r), b)
    BY <1>2, <1>4, <2>2, DataGrows
  <2> DEFINE a == received[s]
             d == Data(r)
             u == Unheard(s)
  <2> HIDE DEF a, d, u
  <2>a. a \in Seq(Blocks) /\ d \in Seq(Blocks) /\ u \in Seq(Blocks) /\ u = a \o d
    BY <2>2 DEF a, d, u
  <2>4. Append(d, b) \in Seq(Blocks) /\ a \o Append(d, b) = Append(u, b)
    BY <1>4, <2>a, OneMore
  <2>5. u \o q = Append(u, b) \o Tail(q)
    BY <1>1, <1>4, <2>a, MoveOn DEF b
  <2>6. FromEnd(Unheard(s) \o q, k, Others(s), sent, link)
    BY <1>1, <1>2, <1>3, <1>9, <2>0 DEF SocketFit, q
  <2>7. /\ link'[s] = p /\ partner'[p] = k /\ kind'[p] \in {"Connect", "Accept"}
        /\ toClient'[p] = Append(r, b) /\ toServer'[k] = Tail(q) /\ received'[s] = received[s]
    BY <1>1, <1>2, <1>3, <1>6, <1>9
  <2>8. Unheard(s)' = Append(Unheard(s), b)
    BY <2>3, <2>4, <2>7 DEF Unheard, a, d, u
  <2>9. FromEnd(Unheard(s)' \o toServer'[k], k, Others(s), sent', link')
    BY <1>1, <2>5, <2>6, <2>7, <2>8 DEF u
  <2>10. Data(toClient'[p]) \in Seq(Blocks)
    BY <2>3, <2>4, <2>7 DEF d
  <2> QED
    BY <1>1, <1>2, <2>1, <2>7, <2>9, <2>10 DEF SocketFit, Unpaired1
<1>10. ASSUME NEW s \in Streams, link[s] = k PROVE KindFit(s)' /\ SocketFit(s)'
  <2>0. KindFit(s) /\ SocketFit(s)
    BY DEF StreamsInv
  <2>1. KindFit(s)'
    BY <1>1, <1>3, <1>10, <2>0 DEF KindFit
  <2>2. toClient'[k] = toClient[k] /\ toServer'[p] = toServer[p] /\ partner[k] = p
    BY <1>2, <1>3, <1>6 DEF p
  <2>3. SentGrows /\ Steady(p)
    BY <1>0, <1>1 DEF SentGrows, Typed, Steady
  <2> QED
    BY <1>0, <1>1, <1>7, <1>10, <2>0, <2>1, <2>2, <2>3, SocketKept
<1>11. ASSUME NEW o \in Openers, link[o] \in {k, p} PROVE OpenFit(o)'
  <2>0. OpenFit(o) /\ o \in Streams
    BY DEF StreamsInv, Streams
  <2>1. CASE link[o] = k
    <3>1. toClient'[k] = toClient[k]
      BY <1>3, <1>6
    <3> QED
      BY <1>1, <2>0, <2>1, <3>1 DEF OpenFit
  <2>2. CASE link[o] = p
    <3>1. toClient'[p] = Append(r, b) /\ toClient[p] = r
      BY <1>2, <1>6 DEF r
    <3>2. ASSUME state[o] = "Opening" PROVE r # << >> /\ r[1] = Notice
      BY <1>1, <1>2, <1>3, <2>0, <2>2, <3>1, <3>2 DEF OpenFit
    <3>3. Append(r, b) # << >> /\ (r # << >> => Append(r, b)[1] = r[1])
      <4>1. Append(r, b) # << >>
        <5>1. Len(Append(r, b)) = Len(r) + 1 /\ Len(r) \in Nat
          BY <1>2, <1>5
        <5>2. Len(Append(r, b)) # 0 /\ Len(<< >>) = 0
          BY <5>1
        <5> QED
          BY <5>2
      <4>2. ASSUME r # << >> PROVE Append(r, b)[1] = r[1]
        BY <1>2, <1>5, <4>2
      <4> QED
        BY <4>1, <4>2
    <3> QED
      BY <1>1, <2>0, <2>2, <3>1, <3>2, <3>3 DEF OpenFit
  <2> QED
    BY <1>11, <2>1, <2>2
<1>12. \A j \in Keys : j \notin {k, p} =>
         /\ kind'[j] = kind[j] /\ partner'[j] = partner[j] /\ partner[j] \notin {k, p}
         /\ toServer'[j] = toServer[j] /\ toClient'[j] = toClient[j]
  <2> SUFFICES ASSUME NEW j \in Keys, j \notin {k, p} PROVE partner[j] \notin {k, p}
    BY <1>1, <1>6
  <2>1. PairFit(j)
    BY DEF StreamsInv
  <2>2. partner[k] = p
    BY DEF p
  <2> QED
    BY <1>1, <1>2, <1>3, <2>1, <2>2 DEF PairFit
<1>13. {k, p} \in SUBSET Keys
  BY <1>2
<1>14. \A s \in Streams : link[s] \in {k, p} => KindFit(s)' /\ SocketFit(s)'
  BY <1>9, <1>10
<1> QED
  BY <1>1, <1>7, <1>8, <1>11, <1>12, <1>13, <1>14, RelayKeepsInv

-----------------------------------------------------------------------------
(* What the server does with a connection keeps the invariant. *)
LEMMA RelayStepKeepsInv ==
  ASSUME StreamsInv, NEW k \in Keys, HandleInit(k) \/ Offer(k) \/ Expire(k) \/ Forward(k) \/ Eof(k)
  PROVE  StreamsInv'
<1>1. CASE HandleInit(k)
  <2>1. /\ kind[k] = "Pending" /\ toServer[k] # << >> /\ UNCHANGED <<clientVars, countVars>>
        /\ InitConnect(k) \/ InitListen(k) \/ Pair(k) \/ Refuse(k)
    BY <1>1 DEF HandleInit
  <2>2. CASE Refuse(k)
    BY <2>1, <2>2, GoneKeepsInv DEF Refuse
  <2> QED
    BY <2>1, <2>2, InitConnectKeepsInv, InitListenKeepsInv, PairKeepsInv
<1>2. CASE Expire(k)
  <2>1. kind[k] # "none" /\ Gone({k}) /\ UNCHANGED <<clientVars, countVars, toClient>>
    BY <1>2 DEF Expire, Unpaired
  <2> QED
    BY <2>1, GoneKeepsInv
<1>3. CASE Eof(k)
  <2>1. kind[k] # "none" /\ Gone({k}) /\ UNCHANGED <<clientVars, countVars, toClient>>
    BY <1>3 DEF Eof, HangUp
  <2> QED
    BY <2>1, GoneKeepsInv
<1> QED
  BY <1>1, <1>2, <1>3, OfferKeepsInv, ForwardKeepsInv

(* At first there are no connections and no blocks. *)
LEMMA InitGivesInv ==
  ASSUME Init
  PROVE  StreamsInv
<1>1. /\ 0 \in 0..0 /\ 0 \in 0..MaxSessions /\ 0 \in 0..Backlog /\ Retries \in 0..Retries
      /\ \A k \in Keys : k # 0
  BY StreamsAssumption DEF Keys
<1>2. Typed
  <2>1. /\ state \in [Streams -> States] /\ kind \in [Keys -> Kinds]
        /\ link \in [Sockets -> 0..used] /\ partner \in [Keys -> 0..used]
        /\ retries \in [Openers -> 0..Retries] /\ sent \in [Streams -> Nat]
    BY <1>1 DEF Init, States, Kinds
  <2>2. /\ received \in [Streams -> Seq(Blocks)] /\ toClient \in [Keys -> Seq(Messages)]
        /\ toServer \in [Keys -> Seq(Records \cup Blocks)]
    BY DEF Init
  <2> QED
    BY <1>1, <2>1, <2>2 DEF Typed, Init
<1>3. Fresh /\ LinksApart
  BY DEF Init, Fresh, LinksApart
<1>4. \A k \in Keys : PairFit(k) /\ OutFit(k)
  BY DEF Init, PairFit, OutFit, Unpaired1
<1>5. ASSUME NEW s \in Streams PROVE KindFit(s) /\ UnsentFit(s) /\ SocketFit(s)
  <2>1. link[s] = 0 /\ sent[s] = 0 /\ received[s] = << >> /\ pending = {}
    BY DEF Init, Sockets
  <2>2. sent \in [Streams -> Nat]
    BY <1>2 DEF Typed
  <2>3. From(<< >>, Others(s), sent)
    BY <2>2, OthersFacts, FromNothing
  <2> QED
    BY <2>1, <2>3 DEF KindFit, UnsentFit, SocketFit
<1>6. \A o \in Openers : OpenFit(o)
  BY DEF Init, OpenFit, Streams, Sockets
<1> QED
  BY <1>2, <1>3, <1>4, <1>5, <1>6 DEF StreamsInv

LEMMA NextKeepsInv ==
  ASSUME StreamsInv, [Next]_vars
  PROVE  StreamsInv'
<1>1. CASE Game
  BY <1>1, OpenKeepsInv, AcceptKeepsInv, SendKeepsInv, CloseKeepsInv DEF Game
<1>2. CASE Network
  <2>1. ASSUME NEW s \in Sockets, Hear(s) \/ SeesClose(s) \/ Breaks(s) PROVE StreamsInv'
    <3>1. CASE SeesClose(s) \/ Breaks(s)
      <4>1. LinkFails(s)
        BY <3>1 DEF SeesClose, Breaks
      <4> QED
        BY <4>1, LinkFailsKeepsInv
    <3> QED
      BY <2>1, <3>1, HearKeepsInv
  <2>2. ASSUME NEW p \in {"caller", "callee"}, LoseGroup(p) \/ RegainGroup(p) PROVE StreamsInv'
    BY <2>2, LoseGroupKeepsInv, WaitingKeepsInv
  <2>3. CASE StartListen \/ (\E o \in Openers : StartConnect(o)) \/ \E a \in Accepts : StartAccept(a)
    BY <2>3, StartsKeepInv
  <2>4. CASE BacklogExpires
    BY <2>4, WaitingKeepsInv
  <2> QED
    BY <1>2, <2>1, <2>2, <2>3, <2>4 DEF Network
<1>3. CASE Relay
  BY <1>3, RelayStepKeepsInv DEF Relay
<1>4. CASE UNCHANGED vars
  <2>1. UNCHANGED <<state, link, pending, retries, backlog, sent, received, kind, partner, announced,
                    toServer, toClient, used>>
    BY <1>4 DEF vars, clientVars, serverVars, queueVars, countVars
  <2>2. Typed'
    BY <2>1 DEF StreamsInv, Typed
  <2>3. \A s \in Streams : UnsentFit(s)'
    BY <2>1 DEF StreamsInv, UnsentFit
  <2>4. \A o \in Openers : OpenFit(o)'
    BY <2>1 DEF StreamsInv, OpenFit
  <2> QED
    BY <2>1, <2>2, <2>3, <2>4, ClientOnlyKeepsInv
<1> QED
  BY <1>1, <1>2, <1>3, <1>4 DEF Next

(* The invariant holds throughout. *)
LEMMA StreamsStayFit == Spec => []StreamsInv
<1>1. Init => StreamsInv
  BY InitGivesInv
<1>2. StreamsInv /\ [Next]_vars => StreamsInv'
  BY NextKeepsInv
<1> QED
  BY <1>1, <1>2, PTL DEF Spec

-----------------------------------------------------------------------------
(* Sessions are paired two and two, a connecting one with an accepting one, *)
(* and the connecting game finds a stream open only when it was paired:     *)
(* accept_stream, handle_stream and remove_closed of the server against     *)
(* maintain_streams of the client, for any number of streams and sessions.  *)
THEOREM StreamsPairUp == Spec => []PairsAgree
<1>1. StreamsInv => PairsAgree
  <2> SUFFICES ASSUME StreamsInv PROVE PairsAgree
    OBVIOUS
  <2>1. TypeOK
    BY DEF StreamsInv, Typed, TypeOK
  <2>2. ASSUME NEW k \in Keys, partner[k] # 0
        PROVE  partner[partner[k]] = k /\ {kind[k], kind[partner[k]]} = {"Connect", "Accept"}
    BY <2>2 DEF StreamsInv, PairFit
  <2>3. \A o \in Openers : state[o] = "Established" =>
          link[o] # 0 /\ (partner[link[o]] # 0 \/ kind[link[o]] = "gone")
    BY DEF StreamsInv, OpenFit
  <2> QED
    BY <2>1, <2>2, <2>3 DEF PairsAgree
<1> QED
  BY <1>1, StreamsStayFit, PTL

(* Whatever was tried before on the same ports, a socket receives what one  *)
(* peer sent, from its first block on, in order and without a gap:          *)
(* handle_stream of the server and parse_stream of the client.              *)
THEOREM StreamsInOrder == Spec => []InOrderFromOne
<1>1. StreamsInv => InOrderFromOne
  <2> SUFFICES ASSUME StreamsInv, NEW s \in Streams
               PROVE  \E p \in Streams :
                        /\ Player(p) # Player(s)
                        /\ Len(received[s]) <= sent[p]
                        /\ received[s] = [i \in 1..Len(received[s]) |-> <<p, i>>]
    BY DEF InOrderFromOne
  <2>1. PICK p \in Others(s) : IsStream(received[s], p) /\ Len(received[s]) <= sent[p]
    BY ReceivedFits DEF From
  <2>2. p \in Streams /\ Player(p) # Player(s)
    BY StreamsAssumption DEF Others, Streams, Player
  <2> QED
    BY <2>1, <2>2 DEF IsStream
<1> QED
  BY <1>1, StreamsStayFit, PTL
=============================================================================
