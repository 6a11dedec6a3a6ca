---------------------------- MODULE Adhoc_proofs ----------------------------
(****************************************************************************)
(* Adhoc: the server has a client once, and client and server agree on who  *)
(* is in which group, for any number of logins, groups and other players.   *)
(* A connection is logged in only by login, which closes the other          *)
(* connections of the address; that there are no others it misses is that   *)
(* sessions are known of all connections.  What makes membership inductive  *)
(* is about what is under way: the last request of the connection in use is *)
(* for the group the client wants, or none is left and the server has it    *)
(* there; and a player is a peer, or will be when the notices under way     *)
(* have been heard.                                                         *)
(****************************************************************************)
EXTENDS Adhoc, FiniteSetTheorems, TLAPS

SessionsFit ==
  /\ logins \in Nat
  /\ session \in [Conns -> Sessions]
  /\ OneLoginPerMac

(* At first nobody is logged in. *)
LEMMA InitSessions == Init => SessionsFit
BY AdhocAssumption DEF Init, SessionsFit, Sessions, Conns, OneLoginPerMac

(* A connection that is made, or closed, logs nobody in. *)
LEMMA NotLoggedIn ==
  ASSUME SessionsFit, NEW k, NEW what \in {"accepted", "closed"},
         session' = [session EXCEPT ![k] = what], logins' \in Nat
  PROVE  SessionsFit'
<1>1. session' \in [Conns -> Sessions]
  BY DEF SessionsFit, Sessions
<1>2. ASSUME NEW j \in Conns, session'[j] = "in" PROVE session[j] = "in"
  BY <1>2 DEF SessionsFit
<1>3. OneLoginPerMac'
  BY <1>2 DEF SessionsFit, OneLoginPerMac, Conns
<1> QED
  BY <1>1, <1>3 DEF SessionsFit, Conns

(* A login closes the older logins of its address. *)
LEMMA LoginAlone ==
  ASSUME SessionsFit, NEW k \in Conns, HandleLogin(k), logins' = logins
  PROVE  SessionsFit'
<1>1. session' = [o \in Conns |-> CASE o = k -> "in" [] o \in Older(k) -> "closed" [] OTHER -> session[o]]
  BY DEF HandleLogin
<1>2. ASSUME NEW o \in Conns, o # k, session'[o] = "in" PROVE FALSE
  <2>1. CASE o \in Older(k)
    BY <1>1, <1>2, <2>1
  <2>2. CASE o \notin Older(k)
    <3>1. session'[o] = session[o]
      BY <1>1, <1>2, <2>2
    <3> QED
      BY <1>2, <2>2, <3>1 DEF Older
  <2> QED
    BY <2>1, <2>2
<1>3. session' \in [Conns -> Sessions]
  <2>1. ASSUME NEW o \in Conns PROVE session'[o] \in Sessions
    BY <1>1, <2>1 DEF SessionsFit, Sessions
  <2> QED
    BY <1>1, <2>1
<1>4. OneLoginPerMac'
  BY <1>2 DEF OneLoginPerMac, Conns
<1> QED
  BY <1>3, <1>4 DEF SessionsFit, Conns

(* Every step of the client, the game and the server. *)
LEMMA StepSessions == SessionsFit /\ [Next]_vars => SessionsFit'
<1> SUFFICES ASSUME SessionsFit, [Next]_vars PROVE SessionsFit'
  OBVIOUS
<1>1. ASSUME UNCHANGED <<session, logins>> PROVE SessionsFit'
  BY <1>1 DEF SessionsFit, OneLoginPerMac, Conns
<1>2. CASE NetworkThread
  <2>1. CASE LogIn
    <3>1. session' = [session EXCEPT ![logins + 1] = "accepted"] /\ logins' \in Nat
      BY <2>1 DEF LogIn, SessionsFit
    <3> QED
      BY <3>1, NotLoggedIn
  <2>2. CASE CloseCtl \/ LoseCtl \/ JoinTimesOut \/ GraceEnds \/ Hear
    BY <1>1, <2>2 DEF CloseCtl, LoseCtl, JoinTimesOut, GraceEnds, Hear, serverVars, ctlVars
  <2> QED
    BY <1>2, <2>1, <2>2 DEF NetworkThread
<1>3. CASE GameCalls
  <2>1. CASE DisconnectNow \/ Start \/ Stop \/ PumpEvents
    BY <1>1, <2>1 DEF DisconnectNow, Start, Stop, PumpEvents, serverVars, ctlVars
  <2>2. CASE \E g \in Groups : NetconfInitStart(g)
    BY <1>1, <2>2 DEF NetconfInitStart, serverVars, ctlVars
  <2>3. CASE \E cancels \in BOOLEAN : Leave(cancels)
    BY <1>1, <2>3 DEF Leave, serverVars, ctlVars
  <2> QED
    BY <1>3, <2>1, <2>2, <2>3 DEF GameCalls
<1>4. CASE Server
  <2>1. ASSUME NEW k \in Conns, Serve(k) PROVE SessionsFit'
    <3>1. logins' = logins
      BY <2>1 DEF Serve, ctlVars
    <3>2. CASE HandleLogin(k)
      BY <3>1, <3>2, LoginAlone
    <3>3. CASE HandleRequest(k)
      BY <1>1, <3>1, <3>3 DEF HandleRequest
    <3> QED
      BY <2>1, <3>2, <3>3 DEF Serve
  <2>2. ASSUME NEW k \in Conns, ServerDrops(k) \/ WriteFails(k) PROVE SessionsFit'
    <3>1. session' = [session EXCEPT ![k] = "closed"] /\ logins' = logins
      BY <2>2 DEF ServerDrops, WriteFails, Closed, ctlVars
    <3> QED
      BY <3>1, NotLoggedIn DEF SessionsFit
  <2>3. CASE \E p \in Others : OtherActs(p)
    BY <1>1, <2>3 DEF OtherActs, ctlVars
  <2> QED
    BY <1>4, <2>1, <2>2, <2>3 DEF Server
<1>5. CASE UNCHANGED vars
  BY <1>1, <1>5 DEF vars, serverVars, ctlVars
<1> QED
  BY <1>2, <1>3, <1>4, <1>5 DEF Next

(* However often the client reconnects before the server has noticed that   *)
(* its older connections are gone, the server has it once.                  *)
THEOREM LoggedInOnce == Spec => []OneLoginPerMac
<1>1. SessionsFit => OneLoginPerMac
  BY DEF SessionsFit
<1> QED
  BY <1>1, InitSessions, StepSessions, PTL DEF Spec

-----------------------------------------------------------------------------
(* Membership.  Messages and the server's state have their types. *)
Requests == {Login, Disconnect} \cup {Connect(g) : g \in Groups}
Notices ==
  {PeerJoined(p) : p \in Players} \cup {PeerLeft(p) : p \in Players}
    \cup {Confirmed(h) : h \in SUBSET Macs}
EventNames == {"Connected", "Disconnected", "Error"}
ServerStates ==
  [group : [Players -> Groups \cup {NoGroup}], host : [Groups -> SUBSET Macs], down : Seq(Notices)]

(* A group has at most one host, and one while somebody is in it. *)
Listed(s) ==
  \A g \in Groups :
    /\ s.host[g] = {} \/ \E m \in Macs : s.host[g] = {m}
    /\ (\E q \in Players : s.group[q] = g) => s.host[g] # {}

(* After the notices d, a player who is a peer or not before them is one. *)
ToBe(d, p, here) ==
  \/ here /\ \A j \in DOMAIN d : d[j] # PeerLeft(p)
  \/ \E i \in DOMAIN d : d[i] = PeerJoined(p) /\ \A j \in DOMAIN d : j > i => d[j] # PeerLeft(p)

(* Notices are of three kinds. *)
LEMMA NoticeFacts ==
  /\ \A p, q : PeerJoined(p) # PeerLeft(q)
  /\ \A p, h : Confirmed(h) # PeerLeft(p)
  /\ \A p, q : PeerJoined(p) = PeerJoined(q) => p = q
  /\ \A p, q : PeerLeft(p) = PeerLeft(q) => p = q
<1>1. /\ \A p : PeerJoined(p).op = "peer joined" /\ PeerJoined(p).player = p
      /\ \A p : PeerLeft(p).op = "peer left" /\ PeerLeft(p).player = p
      /\ \A h : Confirmed(h).op = "joined"
  BY DEF PeerJoined, PeerLeft, Confirmed
<1>2. "peer joined" # "peer left" /\ "joined" # "peer left"
  OBVIOUS
<1>3. ASSUME NEW p, NEW q, PeerJoined(p) = PeerLeft(q) PROVE FALSE
  BY <1>1, <1>2, <1>3, Zenon
<1>4. ASSUME NEW p, NEW h, Confirmed(h) = PeerLeft(p) PROVE FALSE
  BY <1>1, <1>2, <1>4, Zenon
<1>5. ASSUME NEW p, NEW q, PeerJoined(p) = PeerJoined(q) PROVE p = q
  <2>1. PeerJoined(p).player = p /\ PeerJoined(q).player = q
    BY <1>1, Zenon
  <2> QED
    BY <1>5, <2>1, Zenon
<1>6. ASSUME NEW p, NEW q, PeerLeft(p) = PeerLeft(q) PROVE p = q
  <2>1. PeerLeft(p).player = p /\ PeerLeft(q).player = q
    BY <1>1, Zenon
  <2> QED
    BY <1>6, <2>1, Zenon
<1> QED
  BY <1>3, <1>4, <1>5, <1>6, Zenon

(* One more notice. *)
LEMMA ToBeAppend ==
  ASSUME NEW d \in Seq(Notices), NEW m \in Notices, NEW p, NEW here \in BOOLEAN
  PROVE  ToBe(Append(d, m), p, here) <=> m # PeerLeft(p) /\ (m = PeerJoined(p) \/ ToBe(d, p, here))
<1> DEFINE e == Append(d, m)
           n == Len(d)
<1>1. /\ n \in Nat /\ DOMAIN d = 1..n /\ DOMAIN e = 1..(n + 1)
      /\ e[n + 1] = m /\ \A i \in 1..n : e[i] = d[i]
  OBVIOUS
<1> HIDE DEF e, n
<1>2. \A i \in DOMAIN e : i \in DOMAIN d \/ i = n + 1
  BY <1>1
<1>3. \A i \in DOMAIN d : i \in DOMAIN e /\ e[i] = d[i] /\ n + 1 > i
  BY <1>1
<1>4. n + 1 \in DOMAIN e /\ e[n + 1] = m /\ ~(n + 1 > n + 1) /\ \A i \in DOMAIN d : ~(i > n + 1)
  BY <1>1
<1>5. ASSUME ToBe(e, p, here) PROVE m # PeerLeft(p) /\ (m = PeerJoined(p) \/ ToBe(d, p, here))
  <2>1. CASE here /\ \A j \in DOMAIN e : e[j] # PeerLeft(p)
    BY <1>3, <1>4, <2>1 DEF ToBe
  <2>2. ASSUME NEW i \in DOMAIN e, e[i] = PeerJoined(p), \A j \in DOMAIN e : j > i => e[j] # PeerLeft(p)
        PROVE  m # PeerLeft(p) /\ (m = PeerJoined(p) \/ ToBe(d, p, here))
    <3>1. CASE i = n + 1
      BY <1>4, <2>2, <3>1, NoticeFacts
    <3>2. CASE i \in DOMAIN d
      <4>1. m # PeerLeft(p)
        BY <1>3, <1>4, <2>2, <3>2
      <4>2. ToBe(d, p, here)
        BY <1>3, <2>2, <3>2 DEF ToBe
      <4> QED
        BY <4>1, <4>2
    <3> QED
      BY <1>2, <2>2, <3>1, <3>2
  <2> QED
    BY <1>5, <2>1, <2>2 DEF ToBe
<1>6. ASSUME m = PeerJoined(p) PROVE ToBe(e, p, here)
  <2>1. \A j \in DOMAIN e : ~(j > n + 1)
    BY <1>1
  <2> QED
    BY <1>4, <1>6, <2>1 DEF ToBe
<1>7. ASSUME m # PeerLeft(p), ToBe(d, p, here) PROVE ToBe(e, p, here)
  <2>1. CASE here /\ \A j \in DOMAIN d : d[j] # PeerLeft(p)
    BY <1>2, <1>3, <1>4, <1>7, <2>1 DEF ToBe
  <2>2. ASSUME NEW i \in DOMAIN d, d[i] = PeerJoined(p), \A j \in DOMAIN d : j > i => d[j] # PeerLeft(p)
        PROVE  ToBe(e, p, here)
    BY <1>2, <1>3, <1>4, <1>7, <2>2 DEF ToBe
  <2> QED
    BY <1>7, <2>1, <2>2 DEF ToBe
<1>8. ToBe(e, p, here) <=> m # PeerLeft(p) /\ (m = PeerJoined(p) \/ ToBe(d, p, here))
  BY <1>5, <1>6, <1>7, NoticeFacts
<1> QED
  BY <1>8 DEF e

(* Notices that are heard of nobody's leaving. *)
LEMMA ToBeConcat ==
  ASSUME NEW d \in Seq(Notices), NEW c \in Seq(Notices), NEW p, NEW here \in BOOLEAN,
         \A j \in DOMAIN c : c[j] # PeerLeft(p),
         ToBe(d, p, here) \/ \E j \in DOMAIN c : c[j] = PeerJoined(p)
  PROVE  ToBe(d \o c, p, here)
<1> DEFINE e == d \o c
           n == Len(d)
           k == Len(c)
<1>1. /\ n \in Nat /\ k \in Nat /\ DOMAIN d = 1..n /\ DOMAIN c = 1..k /\ DOMAIN e = 1..(n + k)
      /\ \A i \in 1..n : e[i] = d[i]
      /\ \A i \in 1..(n + k) : i > n => e[i] = c[i - n]
  OBVIOUS
<1> HIDE DEF e, n, k
<1>2. \A i \in DOMAIN e : i > n => e[i] # PeerLeft(p)
  <2>1. \A i \in 1..(n + k) : i > n => i - n \in 1..k
    BY <1>1
  <2> QED
    BY <1>1, <2>1
<1>3. \A i \in DOMAIN e : i \in DOMAIN d \/ i > n
  BY <1>1
<1>4. \A i \in DOMAIN d : i \in DOMAIN e /\ e[i] = d[i]
  BY <1>1
<1>5. CASE here /\ \A j \in DOMAIN d : d[j] # PeerLeft(p)
  BY <1>2, <1>3, <1>4, <1>5 DEF e, ToBe
<1>6. ASSUME NEW i \in DOMAIN d, d[i] = PeerJoined(p), \A j \in DOMAIN d : j > i => d[j] # PeerLeft(p)
      PROVE  ToBe(e, p, here)
  BY <1>2, <1>3, <1>4, <1>6 DEF ToBe
<1>7. ASSUME NEW j \in DOMAIN c, c[j] = PeerJoined(p)
      PROVE  ToBe(e, p, here)
  <2>1. j + n \in DOMAIN e /\ e[j + n] = c[j] /\ \A i \in DOMAIN e : i > j + n => i > n
    <3>1. j \in 1..k /\ j + n \in 1..(n + k) /\ j + n > n /\ (j + n) - n = j
      BY <1>1
    <3> QED
      BY <1>1, <3>1
  <2> QED
    BY <1>2, <1>7, <2>1 DEF ToBe
<1> QED
  BY <1>5, <1>6, <1>7 DEF e, ToBe

(* One notice is heard. *)
LEMMA ToBeHeard ==
  ASSUME NEW d \in Seq(Notices), d # << >>, NEW p, NEW here \in BOOLEAN, ToBe(d, p, here)
  PROVE  ToBe(Tail(d), p, Head(d) = PeerJoined(p) \/ (here /\ Head(d) # PeerLeft(p)))
<1> DEFINE e == Tail(d)
           n == Len(d)
<1>1. /\ n \in Nat /\ n > 0 /\ DOMAIN d = 1..n /\ DOMAIN e = 1..(n - 1) /\ Head(d) = d[1]
      /\ \A i \in 1..(n - 1) : e[i] = d[i + 1]
  OBVIOUS
<1> HIDE DEF e, n
<1>2. 1 \in DOMAIN d /\ \A i \in DOMAIN e : i + 1 \in DOMAIN d /\ e[i] = d[i + 1] /\ i + 1 > 1
  BY <1>1
<1>3. CASE here /\ \A j \in DOMAIN d : d[j] # PeerLeft(p)
  BY <1>1, <1>2, <1>3 DEF e, ToBe
<1>4. ASSUME NEW i \in DOMAIN d, d[i] = PeerJoined(p), \A j \in DOMAIN d : j > i => d[j] # PeerLeft(p)
      PROVE  ToBe(e, p, Head(d) = PeerJoined(p) \/ (here /\ Head(d) # PeerLeft(p)))
  <2>1. CASE i = 1
    BY <1>1, <1>2, <1>4, <2>1 DEF ToBe
  <2>2. CASE i # 1
    <3>1. i - 1 \in DOMAIN e /\ (i - 1) + 1 = i
      BY <1>1, <2>2
    <3>2. \A j \in DOMAIN e : j > i - 1 => j + 1 > i
      BY <1>1
    <3>3. e[i - 1] = PeerJoined(p) /\ \A j \in DOMAIN e : j > i - 1 => e[j] # PeerLeft(p)
      BY <1>2, <1>4, <3>1, <3>2
    <3> QED
      BY <3>1, <3>3 DEF ToBe
  <2> QED
    BY <2>1, <2>2
<1> QED
  BY <1>3, <1>4 DEF e, ToBe

-----------------------------------------------------------------------------
(* What is told is one notice more, or nothing. *)
LEMMA TellFacts ==
  ASSUME NEW s \in ServerStates, NEW players, NEW m \in Notices
  PROVE  /\ Tell(s, players, m) \in ServerStates
         /\ Tell(s, players, m).group = s.group /\ Tell(s, players, m).host = s.host
         /\ Tell(s, players, m).down = IF link \in players THEN Append(s.down, m) ELSE s.down
<1> DEFINE d == s.down \o If(link \in players, <<m>>)
<1>0. s.down \in Seq(Notices)
  BY DEF ServerStates
<1>1. d = IF link \in players THEN Append(s.down, m) ELSE s.down
  <2>1. s.down \o <<m>> = Append(s.down, m) /\ s.down \o << >> = s.down
    BY <1>0
  <2> QED
    BY <2>1 DEF If
<1>2. Tell(s, players, m) = [s EXCEPT !.down = d]
  BY DEF Tell
<1> HIDE DEF d
<1>3. d \in Seq(Notices)
  BY <1>0, <1>1
<1> QED
  BY <1>1, <1>2, <1>3 DEF ServerStates

(* leave_group: the player is in no group, a group nobody is left in has no *)
(* host, and only that he left is told. *)
LEMMA LeftFacts ==
  ASSUME NEW s \in ServerStates, Listed(s), NEW p \in Players
  PROVE  /\ Left(s, p) \in ServerStates /\ Listed(Left(s, p))
         /\ Left(s, p).group = [s.group EXCEPT ![p] = NoGroup]
         /\ Left(s, p).down \in {s.down, Append(s.down, PeerLeft(p))}
<1> DEFINE g == s.group[p]
           rest == Members(s, g, p)
           h == IF rest = {} THEN {} ELSE s.host[g]
           t == [s EXCEPT !.group = [s.group EXCEPT ![p] = NoGroup], !.host = [s.host EXCEPT ![g] = h]]
<1>1. /\ s.group \in [Players -> Groups \cup {NoGroup}] /\ s.host \in [Groups -> SUBSET Macs]
      /\ s.down \in Seq(Notices) /\ g \in Groups \cup {NoGroup}
  BY DEF ServerStates
<1>2. CASE g = NoGroup
  <2>1. Left(s, p) = s
    BY <1>2 DEF Left
  <2>2. s.group = [s.group EXCEPT ![p] = NoGroup]
    BY <1>1, <1>2
  <2> QED
    BY <2>1, <2>2
<1>3. CASE g # NoGroup
  <2>1. g \in Groups /\ PeerLeft(p) \in Notices
    BY <1>1, <1>3 DEF Notices
  <2>2. Left(s, p) = Tell(t, rest, PeerLeft(p))
    BY <1>3 DEF Left
  <2>3. /\ t.group = [s.group EXCEPT ![p] = NoGroup] /\ t.host = [s.host EXCEPT ![g] = h]
        /\ t.down = s.down /\ t \in ServerStates
    <3>1. /\ [s.group EXCEPT ![p] = NoGroup] \in [Players -> Groups \cup {NoGroup}]
          /\ [s.host EXCEPT ![g] = h] \in [Groups -> SUBSET Macs]
      BY <1>1, <2>1
    <3> QED
      BY <1>1, <3>1 DEF ServerStates
  <2>4. Listed(t)
    <3> SUFFICES ASSUME NEW f \in Groups
                 PROVE  /\ t.host[f] = {} \/ \E m \in Macs : t.host[f] = {m}
                        /\ (\E q \in Players : t.group[q] = f) => t.host[f] # {}
      BY DEF Listed
    <3>1. \A q \in Players : t.group[q] = f => q # p /\ s.group[q] = f
      BY <1>1, <2>3, AdhocAssumption
    <3>2. CASE f = g
      <4>1. t.host[f] = h
        BY <1>1, <2>1, <2>3, <3>2
      <4>2. \A q \in Players : t.group[q] = f => q \in rest
        BY <3>1, <3>2 DEF Members
      <4>3. rest # {} => s.host[g] # {}
        BY <2>1 DEF Members, Listed
      <4>4. s.host[g] = {} \/ \E m \in Macs : s.host[g] = {m}
        BY <2>1 DEF Listed
      <4> QED
        BY <4>1, <4>2, <4>3, <4>4, <3>2
    <3>3. CASE f # g
      <4>1. t.host[f] = s.host[f]
        BY <1>1, <2>1, <2>3, <3>3
      <4> QED
        BY <3>1, <4>1 DEF Listed
    <3> QED
      BY <3>2, <3>3
  <2> HIDE DEF t, rest, h
  <2>5. /\ Left(s, p) \in ServerStates /\ Left(s, p).group = t.group /\ Left(s, p).host = t.host
        /\ Left(s, p).down = IF link \in rest THEN Append(t.down, PeerLeft(p)) ELSE t.down
    BY <2>1, <2>2, <2>3, TellFacts
  <2>6. Listed(Left(s, p))
    BY <2>4, <2>5 DEF Listed
  <2> QED
    BY <2>3, <2>5, <2>6
<1> QED
  BY <1>2, <1>3

(* A finite set as a sequence. *)
LEMMA SetToSeqFacts ==
  ASSUME NEW S, IsFiniteSet(S)
  PROVE  SetToSeq(S) \in Seq(S) /\ \A x \in S : \E i \in DOMAIN SetToSeq(S) : SetToSeq(S)[i] = x
<1> DEFINE n == Cardinality(S)
           q == SetToSeq(S)
<1>1. PICK k \in Nat : ExistsBijection(1..k, S)
  BY FS_NatBijection
<1>2. IsFiniteSet(1..k) /\ Cardinality(1..k) = k
  BY FS_Interval
<1>3. n = k
  BY <1>1, <1>2, FS_Bijection
<1>4. \E f \in [1..n -> S] : IsInjective(f)
  BY <1>1, <1>3 DEF ExistsBijection, Bijection, Injection
<1>5. q \in [1..n -> S] /\ IsInjective(q)
  BY <1>4 DEF SetToSeq
<1> HIDE DEF q, n
<1>6. q \in Injection(1..n, S)
  BY <1>5 DEF Injection
<1>7. Cardinality(1..n) = Cardinality(S)
  BY <1>2, <1>3 DEF n
<1>8. q \in Surjection(1..n, S)
  BY <1>6, <1>7, FS_Injection
<1>9. q \in Seq(S) /\ DOMAIN q = 1..n
  BY <1>1, <1>3, <1>5
<1>10. \A x \in S : \E i \in DOMAIN q : q[i] = x
  BY <1>8, <1>9 DEF Surjection
<1> QED
  BY <1>9, <1>10 DEF q

(* What a new member is told of those who are there. *)
Newcomer(S, h) == SetToSeq({PeerJoined(m) : m \in S}) \o <<Confirmed(h)>>

LEMMA NewcomerFacts ==
  ASSUME NEW S \in SUBSET Players, NEW h \in SUBSET Macs
  PROVE  /\ Newcomer(S, h) \in Seq(Notices)
         /\ \A m \in S : \E i \in DOMAIN Newcomer(S, h) : Newcomer(S, h)[i] = PeerJoined(m)
         /\ \A p : \A i \in DOMAIN Newcomer(S, h) : Newcomer(S, h)[i] # PeerLeft(p)
<1> DEFINE T == {PeerJoined(m) : m \in S}
           q == SetToSeq(T)
           f == [m \in S |-> PeerJoined(m)]
           c == Confirmed(h)
<1>1. IsFiniteSet(T)
  <2>1. IsFiniteSet(Players)
    <3>1. MaxLogins \in Int /\ 1 \in Int /\ IsFiniteSet(Others)
      BY AdhocAssumption
    <3>2. IsFiniteSet(1..MaxLogins)
      BY <3>1, FS_Interval
    <3> QED
      BY <3>1, <3>2, FS_Union DEF Players, Conns
  <2>2. IsFiniteSet(S)
    BY <2>1, FS_Subset
  <2>3. f \in Surjection(S, T)
    BY DEF Surjection
  <2> HIDE DEF f, T
  <2> QED
    BY <2>2, <2>3, FS_Surjection
<1>2. T \subseteq Notices /\ c \in Notices
  BY DEF Notices
<1>3. (\A m \in S : PeerJoined(m) \in T) /\ \A x \in T : \E m \in S : x = PeerJoined(m)
  OBVIOUS
<1> HIDE DEF T
<1>4. q \in Seq(T) /\ \A x \in T : \E i \in DOMAIN q : q[i] = x
  BY <1>1, SetToSeqFacts
<1>5. Newcomer(S, h) = q \o <<c>>
  BY DEF Newcomer, T
<1> HIDE DEF q, c
<1> DEFINE e == q \o <<c>>
           n == Len(q)
<1>6. /\ n \in Nat /\ DOMAIN q = 1..n /\ DOMAIN e = 1..(n + 1) /\ e[n + 1] = c
      /\ \A i \in 1..n : e[i] = q[i] /\ q[i] \in T
  BY <1>4
<1>7. e \in Seq(Notices)
  BY <1>2, <1>4
<1> HIDE DEF e, n
<1>8. /\ \A i \in DOMAIN e : e[i] \in T \/ e[i] = c
      /\ \A i \in DOMAIN q : i \in DOMAIN e /\ e[i] = q[i]
  <2>1. \A i \in 1..(n + 1) : i \in 1..n \/ i = n + 1
    BY <1>6
  <2>2. \A i \in 1..n : i \in 1..(n + 1)
    BY <1>6
  <2> QED
    BY <1>6, <2>1, <2>2
<1>9. \A p : \A i \in DOMAIN e : e[i] # PeerLeft(p)
  <2> SUFFICES ASSUME NEW p, NEW i \in DOMAIN e PROVE e[i] # PeerLeft(p)
    OBVIOUS
  <2>1. c # PeerLeft(p)
    BY NoticeFacts, Zenon DEF c
  <2>2. CASE e[i] \in T
    BY <1>3, <2>2, NoticeFacts
  <2> QED
    BY <1>8, <2>1, <2>2
<1>10. \A m \in S : \E i \in DOMAIN e : e[i] = PeerJoined(m)
  BY <1>3, <1>4, <1>8, Zenon
<1> QED
  BY <1>5, <1>7, <1>9, <1>10 DEF e

(* Who leaves changes nothing about the others. *)
LEMMA LeftTells ==
  ASSUME NEW s \in ServerStates, Listed(s), NEW p \in Players,
         NEW q, q # p, NEW here \in BOOLEAN, ToBe(s.down, q, here)
  PROVE  ToBe(Left(s, p).down, q, here)
<1>1. s.down \in Seq(Notices) /\ PeerLeft(p) \in Notices
  BY DEF ServerStates, Notices
<1>2. PeerLeft(p) # PeerLeft(q)
  BY NoticeFacts
<1>3. ToBe(Append(s.down, PeerLeft(p)), q, here)
  BY <1>1, <1>2, ToBeAppend
<1> QED
  BY <1>3, LeftFacts

(* join_group: the player is in the group, which has a host; its members    *)
(* are told of the player and the player of its members. *)
LEMMA JoinedFacts ==
  ASSUME NEW s \in ServerStates, Listed(s), NEW p \in Players, NEW g \in Groups
  PROVE  /\ Joined(s, p, g) \in ServerStates /\ Listed(Joined(s, p, g))
         /\ Joined(s, p, g).group = [s.group EXCEPT ![p] = g]
         /\ \A here \in BOOLEAN :
              /\ \A q : q # p /\ ToBe(s.down, q, here) => ToBe(Joined(s, p, g).down, q, here)
              /\ p # link /\ link \in Players /\ s.group[link] = g => ToBe(Joined(s, p, g).down, p, here)
              /\ p = link => \A q \in Players \ {p} : s.group[q] = g => ToBe(Joined(s, p, g).down, q, here)
<1> DEFINE t == Left(s, p)
           rest == Members(t, g, p)
           h == IF t.host[g] = {} THEN {Mac(p)} ELSE t.host[g]
           u == Tell(t, rest, PeerJoined(p))
           c == Newcomer(rest, h)
           d == u.down \o If(p = link, c)
           G == [u.group EXCEPT ![p] = g]
           H == [u.host EXCEPT ![g] = h]
           J == [u EXCEPT !.group = G, !.host = H, !.down = d]
<1>1. Joined(s, p, g) = J
  BY DEF Joined, Newcomer
<1>2. t \in ServerStates /\ Listed(t) /\ t.group = [s.group EXCEPT ![p] = NoGroup]
  BY LeftFacts
<1>3. PeerJoined(p) \in Notices
  BY DEF Notices
<1>4. /\ rest \subseteq Players
      /\ \A q : q \in rest <=> q \in Players /\ q # p /\ s.group[q] = g
  <2>1. s.group \in [Players -> Groups \cup {NoGroup}]
    BY DEF ServerStates
  <2> QED
    BY <1>2, <2>1 DEF Members
<1>5. h \in SUBSET Macs /\ \E m \in Macs : h = {m}
  <2>1. t.host[g] \in SUBSET Macs
    BY <1>2 DEF ServerStates
  <2>2. Mac(p) \in Macs
    BY DEF Mac, Macs, Players
  <2>3. t.host[g] = {} \/ \E m \in Macs : t.host[g] = {m}
    BY <1>2 DEF Listed
  <2> QED
    BY <2>1, <2>2, <2>3
<1>6. /\ c \in Seq(Notices) /\ \A q : \A i \in DOMAIN c : c[i] # PeerLeft(q)
      /\ \A m \in rest : \E i \in DOMAIN c : c[i] = PeerJoined(m)
  <2> HIDE DEF h, rest
  <2> QED
    BY <1>4, <1>5, NewcomerFacts
<1> HIDE DEF t, rest, h, c
<1>7. /\ u \in ServerStates /\ u.group = t.group /\ u.host = t.host
      /\ u.down = IF link \in rest THEN Append(t.down, PeerJoined(p)) ELSE t.down
  BY <1>2, <1>3, TellFacts
<1> HIDE DEF u
<1>8. /\ u.group \in [Players -> Groups \cup {NoGroup}] /\ u.host \in [Groups -> SUBSET Macs]
      /\ u.down \in Seq(Notices)
  BY <1>7 DEF ServerStates
<1>9. /\ d \in Seq(Notices)
      /\ d = IF p = link THEN u.down \o c ELSE u.down
  <2> HIDE DEF G, H, J
  <2>1. u.down \o << >> = u.down /\ u.down \o c \in Seq(Notices)
    BY <1>6, <1>8
  <2>2. d = IF p = link THEN u.down \o c ELSE u.down
    BY <2>1 DEF If
  <2> QED
    BY <1>8, <2>1, <2>2
<1>10. G \in [Players -> Groups \cup {NoGroup}] /\ H \in [Groups -> SUBSET Macs]
  BY <1>5, <1>8
<1> HIDE DEF d
<1>11. J \in ServerStates /\ J.group = G /\ J.host = H /\ J.down = d
  <2> HIDE DEF G, H
  <2> QED
    BY <1>7, <1>9, <1>10 DEF ServerStates
<1>12. G = [s.group EXCEPT ![p] = g]
  <2>1. s.group \in [Players -> Groups \cup {NoGroup}]
    BY DEF ServerStates
  <2> QED
    BY <1>2, <1>7, <2>1
<1>13. Listed(J)
  <2> SUFFICES ASSUME NEW f \in Groups
               PROVE  /\ H[f] = {} \/ \E m \in Macs : H[f] = {m}
                      /\ (\E q \in Players : G[q] = f) => H[f] # {}
    BY <1>11 DEF Listed
  <2>1. CASE f = g
    BY <1>5, <1>8, <2>1
  <2>2. CASE f # g
    <3>1. H[f] = t.host[f]
      BY <1>7, <1>8, <2>2
    <3>2. \A q \in Players : G[q] = f => t.group[q] = f
      BY <1>7, <1>8, <2>2
    <3>3. /\ t.host[f] = {} \/ \E m \in Macs : t.host[f] = {m}
          /\ (\E q \in Players : t.group[q] = f) => t.host[f] # {}
      BY <1>2 DEF Listed
    <3> QED
      BY <3>1, <3>2, <3>3
  <2> QED
    BY <2>1, <2>2
<1> HIDE DEF G, H, J
<1>14. ASSUME NEW here \in BOOLEAN, NEW q, q # p, ToBe(s.down, q, here)
       PROVE  ToBe(d, q, here)
  <2>1. ToBe(t.down, q, here)
    BY <1>14, LeftTells DEF t
  <2>2. t.down \in Seq(Notices) /\ PeerJoined(p) # PeerLeft(q)
    BY <1>2, NoticeFacts DEF ServerStates
  <2>3. ToBe(Append(t.down, PeerJoined(p)), q, here)
    BY <1>3, <2>1, <2>2, ToBeAppend
  <2>4. ToBe(u.down, q, here)
    BY <1>7, <2>1, <2>3
  <2>5. ToBe(u.down \o c, q, here)
    BY <1>6, <1>8, <2>4, ToBeConcat
  <2> QED
    BY <1>9, <2>4, <2>5
<1>15. ASSUME NEW here \in BOOLEAN, p # link, link \in Players, s.group[link] = g
       PROVE  ToBe(d, p, here)
  <2>1. link \in rest
    BY <1>4, <1>15
  <2>2. t.down \in Seq(Notices) /\ PeerJoined(p) # PeerLeft(p)
    BY <1>2, NoticeFacts DEF ServerStates
  <2>3. ToBe(Append(t.down, PeerJoined(p)), p, here)
    BY <1>3, <2>2, ToBeAppend
  <2> QED
    BY <1>7, <1>9, <1>15, <2>1, <2>3
<1>16. ASSUME NEW here \in BOOLEAN, p = link, NEW q \in Players \ {p}, s.group[q] = g
       PROVE  ToBe(d, q, here)
  <2>1. q \in rest
    BY <1>4, <1>16
  <2>2. ToBe(u.down \o c, q, here)
    BY <1>6, <1>8, <2>1, ToBeConcat
  <2> QED
    BY <1>9, <1>16, <2>2
<1>17. /\ J \in ServerStates /\ Listed(J) /\ J.group = [s.group EXCEPT ![p] = g]
       /\ \A here \in BOOLEAN :
            /\ \A q : q # p /\ ToBe(s.down, q, here) => ToBe(J.down, q, here)
            /\ p # link /\ link \in Players /\ s.group[link] = g => ToBe(J.down, p, here)
            /\ p = link => \A q \in Players \ {p} : s.group[q] = g => ToBe(J.down, q, here)
  BY <1>11, <1>12, <1>13, <1>14, <1>15, <1>16
<1> QED
  BY <1>1, <1>17

(* The recursion that closes the logins O, as FoldSet defines it. *)
Leaving(i, O) ==
  i = [S \in SUBSET O |-> IF S = {} THEN Now
                          ELSE LET x == CHOOSE x \in S : TRUE IN Left(i[S \ {x}], x)]

(* It ends with the one login there is, if there is one. *)
LEMMA FoldNone == FoldSet(LAMBDA x, s : Left(s, x), Now, {}) = Now
<1>1. FoldSet(LAMBDA x, s : Left(s, x), Now, {}) = (CHOOSE i : Leaving(i, {}))[{}]
  BY DEF FoldSet, MapThenFoldSet, Leaving
<1>2. LET i == CHOOSE i : Leaving(i, {}) IN Leaving(i, {})
  <2>1. Leaving([S \in SUBSET {} |-> Now], {})
    BY DEF Leaving
  <2> QED
    BY <2>1
<1>3. ASSUME NEW i, Leaving(i, {}) PROVE i[{}] = Now
  BY <1>3 DEF Leaving
<1> QED
  BY <1>1, <1>2, <1>3

LEMMA FoldOne ==
  ASSUME NEW o
  PROVE  FoldSet(LAMBDA x, s : Left(s, x), Now, {o}) = Left(Now, o)
<1>1. FoldSet(LAMBDA x, s : Left(s, x), Now, {o}) = (CHOOSE i : Leaving(i, {o}))[{o}]
  BY DEF FoldSet, MapThenFoldSet, Leaving
<1>2. \E i : Leaving(i, {o})
  <2> DEFINE i == [S \in SUBSET {o} |-> IF S = {} THEN Now ELSE Left(Now, o)]
  <2>1. \A S \in SUBSET {o} : S = {} \/ S = {o}
    OBVIOUS
  <2>2. (CHOOSE x \in {o} : TRUE) = o /\ {o} \ {o} = {} /\ {} \in SUBSET {o}
    OBVIOUS
  <2>3. ASSUME NEW S \in SUBSET {o}
        PROVE  i[S] = IF S = {} THEN Now
                       ELSE LET x == CHOOSE x \in S : TRUE IN Left(i[S \ {x}], x)
    <3>1. i[{}] = Now
      BY <2>2
    <3>2. CASE S = {}
      BY <3>1, <3>2
    <3>3. CASE S = {o}
      <4>1. i[S] = Left(Now, o)
        BY <3>3
      <4>2. {o} # {}
        OBVIOUS
      <4> HIDE DEF i
      <4> QED
        BY <2>2, <3>1, <3>3, <4>1, <4>2
    <3> QED
      BY <2>1, <3>2, <3>3
  <2>4. Leaving(i, {o})
    <3>1. i = [S \in SUBSET {o} |-> i[S]]
      OBVIOUS
    <3> HIDE DEF i
    <3> QED
      BY <2>3, <3>1 DEF Leaving
  <2> QED
    BY <2>4
<1>3. ASSUME NEW i, Leaving(i, {o}) PROVE i[{o}] = Left(Now, o)
  <2>1. (CHOOSE x \in {o} : TRUE) = o /\ {o} \ {o} = {} /\ {} \in SUBSET {o} /\ {o} # {} /\ {o} \in SUBSET {o}
    OBVIOUS
  <2>2. \A S \in SUBSET {o} : i[S] = IF S = {} THEN Now
                                    ELSE LET x == CHOOSE x \in S : TRUE IN Left(i[S \ {x}], x)
    BY <1>3 DEF Leaving
  <2>3. i[{}] = Now
    BY <2>1, <2>2
  <2>4. i[{o}] = LET x == CHOOSE x \in {o} : TRUE IN Left(i[{o} \ {x}], x)
    BY <2>1, <2>2
  <2> QED
    BY <2>1, <2>3, <2>4
<1> QED
  BY <1>1, <1>2, <1>3

(* Requests under way: a login comes first, and only there; what the client *)
(* asked last is at the end. *)
LoginFirst(q) == q # << >> /\ q[1] = Login /\ \A i \in DOMAIN q : i > 1 => q[i] # Login
NoLogin(q) == \A i \in DOMAIN q : q[i] # Login
LastIs(q, m) == q # << >> /\ q[Len(q)] = m

(* Requests are of three kinds. *)
LEMMA RequestFacts ==
  /\ Disconnect # Login /\ \A g : Connect(g) # Login /\ Connect(g) # Disconnect
  /\ Login.op = "login" /\ Disconnect.op = "disconnect"
  /\ \A g : Connect(g).op = "connect" /\ Connect(g).group = g
<1>1. Login.op = "login" /\ Disconnect.op = "disconnect" /\ \A g : Connect(g).op = "connect" /\ Connect(g).group = g
  BY DEF Login, Disconnect, Connect
<1>2. Disconnect # Login
  BY <1>1
<1>3. ASSUME NEW g PROVE Connect(g) # Login /\ Connect(g) # Disconnect
  <2>1. Connect(g).op = "connect"
    BY <1>1
  <2> QED
    BY <1>1, <2>1
<1> QED
  BY <1>1, <1>2, <1>3, Zenon

(* Requests that follow others. *)
LEMMA RequestsFollow ==
  ASSUME NEW q \in Seq(Requests), NEW c \in Seq(Requests), NoLogin(c)
  PROVE  /\ LoginFirst(q) => LoginFirst(q \o c)
         /\ NoLogin(q) => NoLogin(q \o c)
         /\ c # << >> => LastIs(q \o c, c[Len(c)])
<1> DEFINE e == q \o c
           n == Len(q)
           k == Len(c)
<1>1. /\ n \in Nat /\ k \in Nat /\ DOMAIN q = 1..n /\ DOMAIN c = 1..k /\ DOMAIN e = 1..(n + k)
      /\ \A i \in 1..n : e[i] = q[i]
      /\ \A i \in 1..(n + k) : i > n => e[i] = c[i - n]
      /\ Len(e) = n + k /\ (q # << >> => n > 0) /\ (c # << >> => k > 0) /\ (n + k > 0 => e # << >>)
  OBVIOUS
<1> HIDE DEF e, n, k
<1>2. \A i \in DOMAIN e : i > n => e[i] # Login
  <2>1. \A i \in 1..(n + k) : i > n => i - n \in 1..k
    BY <1>1
  <2> QED
    BY <1>1, <2>1 DEF NoLogin
<1>3. \A i \in DOMAIN e : i > n \/ (i \in DOMAIN q /\ e[i] = q[i])
  BY <1>1
<1>4. ASSUME LoginFirst(q) PROVE LoginFirst(e)
  <2>1. n > 0 /\ q[1] = Login
    BY <1>1, <1>4 DEF LoginFirst
  <2>2. e # << >> /\ e[1] = Login
    BY <1>1, <2>1
  <2> QED
    BY <1>2, <1>3, <1>4, <2>2 DEF LoginFirst
<1>5. ASSUME NoLogin(q) PROVE NoLogin(e)
  BY <1>2, <1>3, <1>5 DEF NoLogin
<1>6. ASSUME c # << >> PROVE LastIs(e, c[Len(c)])
  <2>1. n + k \in 1..(n + k) /\ n + k > n /\ (n + k) - n = k /\ n + k > 0
    BY <1>1, <1>6
  <2> QED
    BY <1>1, <2>1 DEF LastIs, k
<1> QED
  BY <1>4, <1>5, <1>6 DEF e

(* One request is served. *)
LEMMA RequestServed ==
  ASSUME NEW q \in Seq(Requests), q # << >>
  PROVE  /\ LoginFirst(q) \/ NoLogin(q) => NoLogin(Tail(q))
         /\ \A m : LastIs(q, m) /\ Tail(q) # << >> => LastIs(Tail(q), m)
         /\ \A m : LastIs(q, m) /\ Tail(q) = << >> => Head(q) = m
         /\ LoginFirst(q) => Head(q) = Login
         /\ NoLogin(q) => Head(q) # Login
         /\ Head(q) \in Requests /\ Tail(q) \in Seq(Requests)
<1> DEFINE e == Tail(q)
           n == Len(q)
<1>1. /\ n \in Nat /\ n > 0 /\ DOMAIN q = 1..n /\ DOMAIN e = 1..(n - 1) /\ Head(q) = q[1]
      /\ \A i \in 1..(n - 1) : e[i] = q[i + 1]
      /\ Len(e) = n - 1 /\ (e # << >> => n - 1 > 0) /\ (e = << >> => n = 1)
      /\ e \in Seq(Requests) /\ Head(q) \in Requests
  <2>1. n \in Nat /\ n > 0 /\ DOMAIN q = 1..n /\ Head(q) = q[1] /\ Head(q) \in Requests
    OBVIOUS
  <2>2. e \in Seq(Requests) /\ Len(e) = n - 1 /\ \A i \in 1..(n - 1) : e[i] = q[i + 1]
    OBVIOUS
  <2> HIDE DEF e, n
  <2>3. n - 1 \in Nat /\ DOMAIN e = 1..(n - 1)
    BY <2>1, <2>2
  <2>4. (e # << >> => n - 1 > 0) /\ (e = << >> => n = 1)
    <3>1. e # << >> => Len(e) > 0
      BY <2>2
    <3>2. e = << >> => Len(e) = 0
      OBVIOUS
    <3> QED
      BY <2>1, <2>2, <3>1, <3>2
  <2> QED
    BY <2>1, <2>2, <2>3, <2>4
<1> HIDE DEF e, n
<1>2. \A i \in DOMAIN e : i + 1 \in DOMAIN q /\ i + 1 > 1 /\ e[i] = q[i + 1]
  BY <1>1
<1>3. LoginFirst(q) \/ NoLogin(q) => NoLogin(e)
  BY <1>2 DEF LoginFirst, NoLogin
<1>4. ASSUME NEW m, LastIs(q, m), e # << >> PROVE LastIs(e, m)
  <2>1. n - 1 \in 1..(n - 1) /\ (n - 1) + 1 = n
    BY <1>1, <1>4
  <2> QED
    BY <1>1, <1>4, <2>1 DEF LastIs, n
<1>5. ASSUME NEW m, LastIs(q, m), e = << >> PROVE Head(q) = m
  BY <1>1, <1>5 DEF LastIs, n
<1>6. NoLogin(q) => Head(q) # Login
  <2>1. 1 \in DOMAIN q
    BY <1>1
  <2> QED
    BY <1>1, <2>1 DEF NoLogin
<1>7. LoginFirst(q) => Head(q) = Login
  <2>1. Head(q) = q[1]
    BY <1>1
  <2> QED
    BY <2>1 DEF LoginFirst
<1> QED
  BY <1>1, <1>3, <1>4, <1>5, <1>6, <1>7 DEF e

-----------------------------------------------------------------------------
(* What is under way has its types. *)
MessagesFit ==
  /\ up \in [Conns -> Seq(Requests)]
  /\ events \in Seq(EventNames)
  /\ Now \in ServerStates

(* A connection logs in once, first of all, and its player is in a group    *)
(* only afterwards, until it is closed. *)
SessionsKnown ==
  \A k \in Conns :
    /\ k > logins => session[k] = "none"
    /\ session[k] = "accepted" => LoginFirst(up[k])
    /\ session[k] = "in" => NoLogin(up[k])
    /\ session[k] # "in" => group[k] = NoGroup

(* What the client knows of itself. *)
ClientFit ==
  /\ stopCtl => ~loggedIn
  /\ loggedIn => link # 0
  /\ joined => wanted # NoGroup

(* The last thing the client has asked the server for is the group it wants. *)
Asked ==
  wanted # NoGroup /\ loggedIn /\ session[link] \in {"accepted", "in"} =>
    IF up[link] = << >> THEN group[link] = wanted ELSE LastIs(up[link], Connect(wanted))

(* The members of the client's group are its peers, or will be. *)
PeersFit ==
  Settled /\ wanted # NoGroup =>
    \A p \in Players \ {link} : group[p] = wanted => p \in Others /\ ToBe(down, p, p \in peers)

MemberInv ==
  /\ TypeOK /\ MessagesFit /\ SessionsFit /\ Listed(Now)
  /\ SessionsKnown /\ ClientFit /\ Asked /\ PeersFit

(* A connection in use is one of those made. *)
LEMMA LinkFacts ==
  ASSUME TypeOK
  PROVE  /\ link # 0 => link \in Conns
         /\ logins \in Nat /\ logins <= MaxLogins
         /\ MaxLogins \in Nat /\ Conns \cap Others = {} /\ 0 \notin Players
<1>1. MaxLogins \in Nat /\ Others \cap (0..MaxLogins) = {}
  BY AdhocAssumption
<1>2. logins \in 0..MaxLogins /\ link \in 0..logins
  BY DEF TypeOK
<1>3. logins \in Nat /\ logins <= MaxLogins /\ (link # 0 => link \in 1..MaxLogins)
  BY <1>1, <1>2
<1>4. (1..MaxLogins) \subseteq 0..MaxLogins /\ 0 \in 0..MaxLogins /\ 0 \notin 1..MaxLogins
  BY <1>1
<1> QED
  BY <1>1, <1>3, <1>4 DEF Conns, Players

(* The invariant says what MembershipAgrees does. *)
LEMMA MemberInvImplies == MemberInv => MembershipAgrees
<1> SUFFICES ASSUME MemberInv PROVE MembershipAgrees
  OBVIOUS
<1>0. TypeOK /\ 0 \notin Players
  BY LinkFacts DEF MemberInv
<1>1. MembersAreListed
  <2> SUFFICES ASSUME NEW g \in Groups, Members(Now, g, 0) # {} PROVE \E m \in Macs : host[g] = {m}
    BY DEF MembersAreListed
  <2>1. \E q \in Players : group[q] = g
    BY DEF Members, Now
  <2> QED
    BY <2>1 DEF MemberInv, Listed, Now
<1>2. ASSUME Settled, wanted # NoGroup
      PROVE  group[link] = wanted /\ Members(Now, wanted, link) \subseteq PeersToBe
  <2>1. group[link] = wanted
    BY <1>2 DEF MemberInv, Asked, Settled
  <2>2. ASSUME NEW p \in Members(Now, wanted, link) PROVE p \in PeersToBe
    <3>1. p \in Others /\ ToBe(down, p, p \in peers)
      BY <1>2, <2>2 DEF MemberInv, PeersFit, Members, Now
    <3>2. \A j \in DOMAIN down : j > 0
      BY DEF MemberInv, MessagesFit, ServerStates, Now
    <3>3. CASE p \in peers /\ \A j \in DOMAIN down : down[j] # PeerLeft(p)
      BY <3>1, <3>3 DEF PeersToBe, GoneAfter
    <3>4. CASE \E i \in DOMAIN down : down[i] = PeerJoined(p) /\ \A j \in DOMAIN down : j > i => down[j] # PeerLeft(p)
      BY <3>1, <3>4 DEF PeersToBe, GoneAfter
    <3> QED
      BY <3>1, <3>3, <3>4 DEF ToBe
  <2> QED
    BY <2>1, <2>2
<1> QED
  BY <1>0, <1>1, <1>2 DEF MembershipAgrees, MemberInv, ClientFit

(* At first nothing is known and nobody is anywhere. *)
LEMMA InitMemberInv == Init => MemberInv
<1> SUFFICES ASSUME Init PROVE MemberInv
  OBVIOUS
<1>1. TypeOK
  <2>1. {active, stopCtl, loggedIn, joining, joined, connected, lost, dialog} \subseteq BOOLEAN
    BY DEF Init
  <2>2. link \in 0..logins /\ logins \in 0..MaxLogins /\ Len(events) <= MaxEvents
    <3>1. MaxLogins \in Nat /\ MaxEvents \in Nat
      BY AdhocAssumption
    <3>2. logins = 0 /\ link = 0 /\ Len(events) = 0
      BY DEF Init
    <3> QED
      BY <3>1, <3>2
  <2>3. /\ wanted \in Groups \cup {NoGroup} /\ peers \subseteq Others
        /\ session \in [Conns -> Sessions] /\ group \in [Players -> Groups \cup {NoGroup}]
        /\ host \in [Groups -> SUBSET Macs]
    BY DEF Init, Sessions
  <2> QED
    BY <2>1, <2>2, <2>3 DEF TypeOK
<1>2. MessagesFit
  BY <1>1 DEF Init, MessagesFit, ServerStates, Now, TypeOK
<1>3. Listed(Now)
  BY AdhocAssumption DEF Init, Listed, Now
<1>4. SessionsKnown
  BY DEF Init, SessionsKnown, Players
<1>5. ClientFit /\ Asked /\ PeersFit
  BY DEF Init, ClientFit, Asked, PeersFit, Settled
<1> QED
  BY <1>1, <1>2, <1>3, <1>4, <1>5, InitSessions DEF MemberInv

-----------------------------------------------------------------------------
(* The client's steps.  What it sends follows what is under way. *)
LEMMA SendsFacts ==
  ASSUME MemberInv, NEW msgs \in Seq(Requests), NoLogin(msgs), Sends(msgs)
  PROVE  /\ up' \in [Conns -> Seq(Requests)]
         /\ \A k \in Conns : LoginFirst(up[k]) => LoginFirst(up'[k])
         /\ \A k \in Conns : NoLogin(up[k]) => NoLogin(up'[k])
         /\ loggedIn /\ session[link] # "closed" /\ msgs # << >> => LastIs(up'[link], msgs[Len(msgs)])
<1>1. up \in [Conns -> Seq(Requests)] /\ (link # 0 => link \in Conns) /\ (loggedIn => link # 0)
  BY LinkFacts DEF MemberInv, MessagesFit, ClientFit
<1>2. CASE loggedIn /\ link # 0 /\ session[link] # "closed"
  <2>1. up' = [up EXCEPT ![link] = up[link] \o msgs]
    BY <1>2 DEF Sends
  <2>2. /\ link \in Conns /\ up[link] \in Seq(Requests) /\ up[link] \o msgs \in Seq(Requests)
        /\ up'[link] = up[link] \o msgs
        /\ \A k \in Conns : k # link => up'[k] = up[k]
    BY <1>1, <1>2, <2>1
  <2>3. up' \in [Conns -> Seq(Requests)]
    BY <1>1, <2>1, <2>2
  <2>4. /\ LoginFirst(up[link]) => LoginFirst(up'[link])
        /\ NoLogin(up[link]) => NoLogin(up'[link])
        /\ msgs # << >> => LastIs(up'[link], msgs[Len(msgs)])
    BY <2>2, RequestsFollow
  <2>5. \A k \in Conns : (LoginFirst(up[k]) => LoginFirst(up'[k])) /\ (NoLogin(up[k]) => NoLogin(up'[k]))
    BY <2>2, <2>4
  <2> QED
    BY <2>3, <2>4, <2>5
<1>3. CASE ~(loggedIn /\ link # 0 /\ session[link] # "closed")
  <2>1. up' = up
    BY <1>3 DEF Sends
  <2> QED
    BY <1>1, <1>3, <2>1
<1> QED
  BY <1>2, <1>3

(* A step that leaves the server alone, and after which the client wants no *)
(* group or is not logged in. *)
LEMMA Unasking ==
  ASSUME MemberInv, UNCHANGED <<serverVars, logins>>,
         TypeOK', events' \in Seq(EventNames), down' \in Seq(Notices), ClientFit',
         wanted' = NoGroup \/ ~loggedIn',
         up' \in [Conns -> Seq(Requests)],
         \A k \in Conns : LoginFirst(up[k]) => LoginFirst(up'[k]),
         \A k \in Conns : NoLogin(up[k]) => NoLogin(up'[k])
  PROVE  MemberInv'
<1>1. session' = session /\ group' = group /\ host' = host /\ logins' = logins
  BY DEF serverVars
<1>2. MessagesFit'
  BY DEF MessagesFit, ServerStates, Now, TypeOK
<1>3. Listed(Now)'
  BY <1>1 DEF MemberInv, Listed, Now
<1>4. SessionsKnown'
  BY <1>1 DEF MemberInv, SessionsKnown
<1>5. Asked' /\ PeersFit'
  BY DEF Asked, PeersFit, Settled
<1>6. SessionsFit'
  BY <1>1 DEF MemberInv, SessionsFit, OneLoginPerMac
<1> QED
  BY <1>2, <1>3, <1>4, <1>5, <1>6 DEF MemberInv

(* What events there are after one more. *)
LEMMA OneMoreEvent ==
  ASSUME MemberInv, Len(events) < MaxEvents, NEW e \in EventNames, NEW c
  PROVE  /\ Append(events, e) \in Seq(EventNames) /\ Len(Append(events, e)) <= MaxEvents
         /\ events \o If(c, <<e>>) \in Seq(EventNames) /\ Len(events \o If(c, <<e>>)) <= MaxEvents
         /\ <<e>> \in Seq(EventNames) /\ Len(<<e>>) <= MaxEvents
         /\ << >> \in Seq(EventNames) /\ Len(<< >>) <= MaxEvents
<1>1. events \in Seq(EventNames) /\ Len(events) \in Nat /\ MaxEvents \in Nat
  <2>1. events \in Seq(EventNames)
    BY DEF MemberInv, MessagesFit
  <2> QED
    BY <2>1, AdhocAssumption
<1>2. events \o <<e>> = Append(events, e) /\ events \o << >> = events
  BY <1>1
<1>3. If(c, <<e>>) = <<e>> \/ If(c, <<e>>) = << >>
  BY DEF If
<1>4. /\ Append(events, e) \in Seq(EventNames) /\ Len(Append(events, e)) = Len(events) + 1
      /\ <<e>> \in Seq(EventNames) /\ Len(<<e>>) = 1
      /\ << >> \in Seq(EventNames) /\ Len(<< >>) = 0
  BY <1>1
<1>5. Len(events) + 1 <= MaxEvents /\ Len(events) <= MaxEvents /\ 1 <= MaxEvents /\ 0 <= MaxEvents
  BY <1>1
<1>6. events \o If(c, <<e>>) = Append(events, e) \/ events \o If(c, <<e>>) = events
  BY <1>2, <1>3
<1> QED
  BY <1>1, <1>4, <1>5, <1>6

(* Disconnect and Connect are requests, with which nobody logs in. *)
LEMMA Asks ==
  ASSUME NEW c, NEW g \in Groups
  PROVE  /\ If(c, <<Disconnect>>) \in Seq(Requests) /\ NoLogin(If(c, <<Disconnect>>))
         /\ <<Disconnect>> \in Seq(Requests) /\ NoLogin(<<Disconnect>>)
         /\ If(c, <<Disconnect>>) \o <<Connect(g)>> \in Seq(Requests)
         /\ NoLogin(If(c, <<Disconnect>>) \o <<Connect(g)>>)
         /\ LastIs(If(c, <<Disconnect>>) \o <<Connect(g)>>, Connect(g))
<1> DEFINE x == If(c, <<Disconnect>>)
<1>1. Disconnect \in Requests /\ Connect(g) \in Requests
  BY DEF Requests
<1>2. x \in Seq(Requests) /\ <<Disconnect>> \in Seq(Requests) /\ <<Connect(g)>> \in Seq(Requests)
  BY <1>1 DEF If
<1>3. NoLogin(<<Disconnect>>) /\ NoLogin(<< >>) /\ NoLogin(<<Connect(g)>>)
  BY RequestFacts DEF NoLogin
<1>4. NoLogin(x)
  BY <1>3 DEF If
<1> HIDE DEF x
<1>5. <<Connect(g)>> # << >> /\ <<Connect(g)>>[Len(<<Connect(g)>>)] = Connect(g)
  OBVIOUS
<1>6. x \o <<Connect(g)>> \in Seq(Requests)
  BY <1>2
<1>7. NoLogin(x \o <<Connect(g)>>) /\ LastIs(x \o <<Connect(g)>>, Connect(g))
  <2> DEFINE y == <<Connect(g)>>
  <2>1. y \in Seq(Requests) /\ NoLogin(y) /\ y # << >> /\ y[Len(y)] = Connect(g)
    BY <1>2, <1>3, <1>5
  <2> HIDE DEF y
  <2>2. NoLogin(x \o y) /\ LastIs(x \o y, Connect(g))
    BY <1>2, <1>4, <2>1, RequestsFollow
  <2> QED
    BY <2>2 DEF y
<1> QED
  BY <1>2, <1>3, <1>4, <1>6, <1>7 DEF x

(* Losing a group for good. *)
LEMMA LosesForGood ==
  ASSUME MemberInv, LoseForGood, Len(events) < MaxEvents
  PROVE  /\ wanted' = NoGroup /\ joining' = FALSE /\ lost' = FALSE /\ connected' = FALSE /\ joined' = FALSE
         /\ peers' = {} /\ events' \in Seq(EventNames) /\ Len(events') <= MaxEvents
<1>1. /\ wanted' = NoGroup /\ joining' = FALSE /\ lost' = FALSE /\ connected' = FALSE /\ joined' = FALSE
      /\ peers' = {} /\ events' = events \o If(connected, <<"Disconnected">>)
  BY DEF LoseForGood, Reset
<1>2. "Disconnected" \in EventNames
  BY DEF EventNames
<1> QED
  BY <1>1, <1>2, OneMoreEvent

(* The steps after which no group is wanted. *)
LEMMA WantingNothing ==
  ASSUME MemberInv, JoinTimesOut \/ GraceEnds \/ DisconnectNow \/ (\E cancels \in BOOLEAN : Leave(cancels))
  PROVE  MemberInv'
<1> USE DEF ctlVars, netVars
<1>0. /\ TypeOK /\ ClientFit /\ up \in [Conns -> Seq(Requests)]
      /\ down \in Seq(Notices) /\ events \in Seq(EventNames)
  BY DEF MemberInv, MessagesFit, Now, ServerStates
<1>1. ASSUME UNCHANGED <<serverVars, ctlVars, down>>, wanted' = NoGroup, joined' = FALSE,
             events' \in Seq(EventNames), Len(events') <= MaxEvents, peers' = {},
             joining' = FALSE, connected' \in BOOLEAN, lost' \in BOOLEAN, dialog' \in BOOLEAN,
             \/ up' = up
             \/ \E msgs \in Seq(Requests) : NoLogin(msgs) /\ Sends(msgs)
      PROVE  MemberInv'
  <2>1. TypeOK'
    BY <1>0, <1>1 DEF TypeOK, serverVars
  <2>2. ClientFit'
    BY <1>0, <1>1 DEF ClientFit
  <2>3. /\ up' \in [Conns -> Seq(Requests)]
        /\ \A k \in Conns : LoginFirst(up[k]) => LoginFirst(up'[k])
        /\ \A k \in Conns : NoLogin(up[k]) => NoLogin(up'[k])
    BY <1>0, <1>1, SendsFacts
  <2> QED
    BY <1>0, <1>1, <2>1, <2>2, <2>3, Unasking
<1>2. connected \in BOOLEAN /\ lost \in BOOLEAN /\ dialog \in BOOLEAN
  BY <1>0 DEF TypeOK
<1>3. \A c : If(c, <<Disconnect>>) \in Seq(Requests) /\ NoLogin(If(c, <<Disconnect>>))
  <2>1. Disconnect \in Requests /\ NoLogin(<<Disconnect>>) /\ NoLogin(<< >>)
    BY RequestFacts DEF NoLogin, Requests
  <2> QED
    BY <2>1 DEF If
<1>4. CASE JoinTimesOut
  <2>1. /\ events' = Append(events, "Error") /\ Len(events) < MaxEvents
        /\ UNCHANGED <<serverVars, ctlVars, down, connected, lost, dialog>>
        /\ wanted' = NoGroup /\ joined' = FALSE /\ joining' = FALSE /\ peers' = {}
        /\ Sends(If(wanted # NoGroup, <<Disconnect>>))
    BY <1>4 DEF JoinTimesOut
  <2>2. "Error" \in EventNames
    BY DEF EventNames
  <2>3. events' \in Seq(EventNames) /\ Len(events') <= MaxEvents
    BY <2>1, <2>2, OneMoreEvent
  <2> QED
    BY <1>1, <1>2, <1>3, <2>1, <2>3
<1>5. CASE GraceEnds
  <2>1. LoseForGood /\ Len(events) < MaxEvents /\ UNCHANGED <<serverVars, ctlVars, down, dialog, up>>
    BY <1>5 DEF GraceEnds
  <2> QED
    BY <1>1, <1>2, <2>1, LosesForGood
<1>6. CASE DisconnectNow
  <2>1. /\ LoseForGood /\ Len(events) < MaxEvents /\ UNCHANGED <<serverVars, ctlVars, down, dialog>>
        /\ Sends(<<Disconnect>>)
    BY <1>6 DEF DisconnectNow, Room
  <2>2. <<Disconnect>> \in Seq(Requests) /\ NoLogin(<<Disconnect>>)
    BY RequestFacts DEF NoLogin, Requests
  <2> QED
    BY <1>1, <1>2, <2>1, <2>2, LosesForGood
<1>7. ASSUME NEW cancels \in BOOLEAN, Leave(cancels)
      PROVE  MemberInv'
  <2>1. /\ UNCHANGED <<serverVars, ctlVars, down>> /\ Sends(If(wanted # NoGroup, <<Disconnect>>))
        /\ wanted' = NoGroup /\ joined' = FALSE /\ joining' = FALSE /\ peers' = {}
        /\ connected' = FALSE /\ lost' = FALSE
        /\ events' = events \/ events' = << >>
    BY <1>7 DEF Leave, Reset
  <2>2. dialog' \in BOOLEAN
    <3>1. dialog' = (dialog /\ ~cancels /\ ~(\E i \in DOMAIN events : events[i] # "Disconnected"))
      BY <1>7 DEF Leave
    <3> QED
      BY <3>1
  <2>3. events' \in Seq(EventNames) /\ Len(events') <= MaxEvents
    <3>1. << >> \in Seq(EventNames) /\ Len(<< >>) = 0
      OBVIOUS
    <3>2. Len(events) <= MaxEvents
      BY <1>0 DEF TypeOK
    <3>3. 0 <= MaxEvents
      BY AdhocAssumption
    <3> QED
      BY <1>0, <2>1, <3>1, <3>2, <3>3
  <2> QED
    BY <1>1, <1>2, <1>3, <2>1, <2>2, <2>3
<1> QED
  BY <1>4, <1>5, <1>6, <1>7

(* The steps after which the client is not logged in. *)
LEMMA LoggingOut ==
  ASSUME MemberInv, CloseCtl \/ LoseCtl \/ Start \/ Stop
  PROVE  MemberInv'
<1> USE DEF ctlVars, netVars, requestVars, gameVars
<1>0. /\ TypeOK /\ ClientFit /\ up \in [Conns -> Seq(Requests)]
      /\ down \in Seq(Notices) /\ events \in Seq(EventNames) /\ << >> \in Seq(Notices)
      /\ Len(events) <= MaxEvents /\ logins \in Nat /\ link \in 0..logins /\ 0 \in 0..logins
  <2>1. logins \in Nat
    BY LinkFacts DEF MemberInv
  <2> QED
    BY <2>1 DEF MemberInv, MessagesFit, Now, ServerStates, TypeOK
<1>1. /\ \A k \in Conns : LoginFirst(up[k]) => LoginFirst(up[k])
      /\ \A k \in Conns : NoLogin(up[k]) => NoLogin(up[k])
  OBVIOUS
<1>2. ASSUME up' = up, logins' = logins, UNCHANGED serverVars, ~loggedIn',
             TypeOK', events' \in Seq(EventNames), down' \in Seq(Notices), ClientFit'
      PROVE  MemberInv'
  BY <1>0, <1>1, <1>2, Unasking
<1>3. CASE CloseCtl
  <2>1. /\ UNCHANGED <<serverVars, up, logins, loggedIn, active, requestVars, gameVars>>
        /\ stopCtl /\ stopCtl' = FALSE /\ link' = 0 /\ down' = << >>
    BY <1>3 DEF CloseCtl
  <2>2. ~loggedIn /\ ~loggedIn'
    BY <1>0, <2>1 DEF ClientFit
  <2>3. TypeOK'
    BY <1>0, <2>1 DEF TypeOK, serverVars
  <2>4. ClientFit'
    BY <1>0, <2>1, <2>2 DEF ClientFit
  <2> QED
    BY <1>0, <1>2, <2>1, <2>2, <2>3, <2>4
<1>4. CASE LoseCtl
  <2>1. /\ UNCHANGED <<serverVars, up, logins, active, stopCtl, wanted, joining, connected, peers, gameVars>>
        /\ loggedIn' = FALSE /\ link' = 0 /\ down' = << >> /\ joined' = FALSE
        /\ lost' = (lost \/ joined \/ connected)
    BY <1>4 DEF LoseCtl
  <2>2. lost' \in BOOLEAN
    BY <2>1
  <2>3. TypeOK'
    BY <1>0, <2>1, <2>2 DEF TypeOK, serverVars
  <2>4. ClientFit'
    BY <2>1 DEF ClientFit
  <2> QED
    BY <1>0, <1>2, <2>1, <2>3, <2>4
<1>5. CASE Start
  <2>1. /\ UNCHANGED <<serverVars, up, down, logins, link, dialog>> /\ LoseForGood /\ Len(events) < MaxEvents
        /\ active' = TRUE /\ stopCtl' = TRUE /\ loggedIn' = FALSE
    BY <1>5 DEF Start, Room
  <2>2. /\ wanted' = NoGroup /\ joining' = FALSE /\ lost' = FALSE /\ connected' = FALSE /\ joined' = FALSE
        /\ peers' = {} /\ events' \in Seq(EventNames) /\ Len(events') <= MaxEvents
    BY <2>1, LosesForGood
  <2>3. TypeOK'
    BY <1>0, <2>1, <2>2 DEF TypeOK, serverVars
  <2>4. ClientFit'
    BY <2>1, <2>2 DEF ClientFit
  <2> QED
    BY <1>0, <1>2, <2>1, <2>2, <2>3, <2>4
<1>6. CASE Stop
  <2>1. /\ UNCHANGED <<serverVars, up, down, logins, link, dialog>>
        /\ active' = FALSE /\ stopCtl' = TRUE /\ loggedIn' = FALSE
        /\ wanted' = NoGroup /\ joining' = FALSE /\ lost' = FALSE /\ connected' = FALSE /\ joined' = FALSE
        /\ peers' = {} /\ events' = << >>
    BY <1>6 DEF Stop, Reset
  <2>2. events' \in Seq(EventNames) /\ Len(events') <= MaxEvents
    BY <2>1, AdhocAssumption
  <2>3. TypeOK'
    BY <1>0, <2>1, <2>2 DEF TypeOK, serverVars
  <2>4. ClientFit'
    BY <2>1 DEF ClientFit
  <2> QED
    BY <1>0, <1>2, <2>1, <2>2, <2>3, <2>4
<1> QED
  BY <1>3, <1>4, <1>5, <1>6

(* The dialog asks for its group, or finds the game in it. *)
LEMMA DialogAsks ==
  ASSUME MemberInv, NEW g \in Groups, NetconfInitStart(g)
  PROVE  MemberInv'
<1> USE DEF ctlVars, netVars, requestVars
<1>0. /\ TypeOK /\ ClientFit /\ up \in [Conns -> Seq(Requests)] /\ g # NoGroup
      /\ down \in Seq(Notices) /\ events \in Seq(EventNames)
  BY AdhocAssumption DEF MemberInv, MessagesFit, Now, ServerStates
<1>1. dialog' = TRUE /\ Len(events) < MaxEvents /\ UNCHANGED <<down, serverVars>>
  BY DEF NetconfInitStart, Room
<1>2. session' = session /\ group' = group /\ host' = host /\ down' = down
  BY <1>1 DEF serverVars
<1>3. /\ <<"Connected">> \in Seq(EventNames) /\ Len(<<"Connected">>) <= MaxEvents
      /\ << >> \in Seq(EventNames) /\ Len(<< >>) <= MaxEvents
  <2>1. "Connected" \in EventNames
    BY DEF EventNames
  <2> QED
    BY <1>1, <2>1, OneMoreEvent
<1>4. Listed(Now)'
  BY <1>2 DEF MemberInv, Listed, Now
<1>5. CASE events' = <<"Connected">> /\ UNCHANGED <<requestVars, ctlVars, up>>
  <2>1. TypeOK' /\ MessagesFit'
    BY <1>0, <1>1, <1>2, <1>3, <1>5 DEF TypeOK, MessagesFit, Now, ServerStates
  <2>2. SessionsFit' /\ SessionsKnown' /\ ClientFit' /\ Asked' /\ PeersFit'
    BY <1>2, <1>5 DEF MemberInv, SessionsFit, OneLoginPerMac, SessionsKnown, ClientFit, Asked, PeersFit, Settled
  <2> QED
    BY <1>4, <2>1, <2>2 DEF MemberInv
<1>6. CASE /\ Sends(If(connected, <<Disconnect>>) \o <<Connect(g)>>)
           /\ Request(g) /\ events' = << >> /\ UNCHANGED ctlVars
  <2> DEFINE msgs == If(connected, <<Disconnect>>) \o <<Connect(g)>>
  <2>1. msgs \in Seq(Requests) /\ NoLogin(msgs) /\ LastIs(msgs, Connect(g)) /\ Sends(msgs)
    BY <1>6, Asks
  <2> HIDE DEF msgs
  <2>2. msgs # << >> /\ msgs[Len(msgs)] = Connect(g)
    BY <2>1 DEF LastIs
  <2>3. /\ up' \in [Conns -> Seq(Requests)]
        /\ \A k \in Conns : LoginFirst(up[k]) => LoginFirst(up'[k])
        /\ \A k \in Conns : NoLogin(up[k]) => NoLogin(up'[k])
        /\ loggedIn /\ session[link] # "closed" => LastIs(up'[link], Connect(g))
    BY <2>1, <2>2, SendsFacts
  <2>4. /\ wanted' = g /\ joining' = TRUE /\ lost' = FALSE /\ connected' = FALSE /\ joined' = FALSE
        /\ peers' = {}
    BY <1>6 DEF Request
  <2>5. TypeOK'
    BY <1>0, <1>1, <1>2, <1>3, <1>6, <2>4 DEF TypeOK
  <2>6. MessagesFit'
    BY <1>0, <1>2, <1>3, <1>6, <2>3, <2>5 DEF MessagesFit, Now, ServerStates, TypeOK
  <2>7. ClientFit' /\ SessionsFit'
    BY <1>0, <1>2, <1>6, <2>4 DEF MemberInv, ClientFit, SessionsFit, OneLoginPerMac
  <2>8. SessionsKnown'
    BY <1>2, <1>6, <2>3 DEF MemberInv, SessionsKnown
  <2>9. loggedIn' /\ session'[link'] # "closed" => up'[link'] # << >> /\ LastIs(up'[link'], Connect(wanted'))
    BY <1>2, <1>6, <2>3, <2>4 DEF LastIs
  <2>10. Asked' /\ PeersFit'
    BY <2>9 DEF Asked, PeersFit, Settled
  <2> QED
    BY <1>4, <2>5, <2>6, <2>7, <2>8, <2>10 DEF MemberInv
<1>7. CASE /\ active' = TRUE /\ stopCtl' = TRUE /\ loggedIn' = FALSE
           /\ Request(g) /\ events' = << >> /\ UNCHANGED <<link, logins, up>>
  <2>1. /\ wanted' = g /\ joining' = TRUE /\ lost' = FALSE /\ connected' = FALSE /\ joined' = FALSE
        /\ peers' = {}
    BY <1>7 DEF Request
  <2>2. TypeOK'
    BY <1>0, <1>1, <1>2, <1>3, <1>7, <2>1 DEF TypeOK
  <2>3. ClientFit'
    BY <1>7, <2>1 DEF ClientFit
  <2> QED
    BY <1>0, <1>1, <1>2, <1>3, <1>7, <2>2, <2>3, Unasking
<1> QED
  BY <1>5, <1>6, <1>7 DEF NetconfInitStart

(* Events are taken. *)
LEMMA EventsTaken ==
  ASSUME MemberInv, PumpEvents
  PROVE  MemberInv'
<1> USE DEF ctlVars, netVars, requestVars, serverVars
<1>1. UNCHANGED <<requestVars, ctlVars, netVars, serverVars>> /\ events' = << >>
  BY DEF PumpEvents
<1>2. dialog' \in BOOLEAN
  <2>1. dialog' = (dialog /\ ~(\E i \in DOMAIN events : events[i] # "Disconnected"))
    BY DEF PumpEvents
  <2> QED
    BY <2>1
<1>3. events' \in Seq(EventNames) /\ Len(events') <= MaxEvents
  <2>1. 0 <= MaxEvents /\ Len(<< >>) = 0 /\ << >> \in Seq(EventNames)
    BY AdhocAssumption
  <2> QED
    BY <1>1, <2>1
<1>4. TypeOK'
  BY <1>1, <1>2, <1>3 DEF MemberInv, TypeOK
<1>5. MessagesFit' /\ Listed(Now)'
  BY <1>1, <1>3 DEF MemberInv, MessagesFit, Listed, Now, ServerStates
<1>6. SessionsFit' /\ SessionsKnown' /\ ClientFit' /\ Asked' /\ PeersFit'
  BY <1>1 DEF MemberInv, SessionsFit, OneLoginPerMac, SessionsKnown, ClientFit, Asked, PeersFit, Settled
<1> QED
  BY <1>4, <1>5, <1>6 DEF MemberInv

(* What a notice says of the peers. *)
LEMMA NotedFacts ==
  ASSUME TypeOK, NEW m \in Notices
  PROVE  /\ Noted(peers, m) \subseteq Others
         /\ \A p \in Others : p \in Noted(peers, m) <=> m = PeerJoined(p) \/ (p \in peers /\ m # PeerLeft(p))
<1>0. peers \subseteq Others /\ Self \notin Others /\ Conns \cap Others = {}
  BY AdhocAssumption, LinkFacts DEF TypeOK
<1>1. \A p \in Others : Mac(p) = p /\ Mac(p) # Self
  BY <1>0 DEF Mac
<1>2. CASE \E p \in Players : m = PeerJoined(p)
  <2>1. PICK p \in Players : m = PeerJoined(p)
    BY <1>2
  <2>2. m.op = "peer joined" /\ m.player = p
    BY <2>1 DEF PeerJoined
  <2>3. \A q : m # PeerLeft(q) /\ (m = PeerJoined(q) <=> q = p)
    BY <2>1, NoticeFacts
  <2>4. CASE p \in Others
    <3>1. Noted(peers, m) = {q \in peers : Mac(q) # Mac(p)} \cup {p}
      BY <1>1, <2>2, <2>4 DEF Noted
    <3>2. \A q \in peers : Mac(q) # Mac(p) <=> q # p
      BY <1>0, <1>1, <2>4
    <3> QED
      BY <1>0, <2>3, <2>4, <3>1, <3>2
  <2>5. CASE p \in Conns
    <3>1. Noted(peers, m) = peers
      BY <2>2, <2>5 DEF Noted, Mac
    <3> QED
      BY <1>0, <2>3, <2>5, <3>1
  <2> QED
    BY <2>1, <2>4, <2>5 DEF Players
<1>3. CASE \E p \in Players : m = PeerLeft(p)
  <2>1. PICK p \in Players : m = PeerLeft(p)
    BY <1>3
  <2>2. m.op = "peer left" /\ m.player = p
    BY <2>1 DEF PeerLeft
  <2>3. \A q : m # PeerJoined(q) /\ (m = PeerLeft(q) <=> q = p)
    BY <2>1, NoticeFacts
  <2>4. Noted(peers, m) = peers \ {p}
    BY <2>2 DEF Noted
  <2> QED
    BY <1>0, <2>3, <2>4
<1>4. CASE \E h \in SUBSET Macs : m = Confirmed(h)
  <2>1. m.op = "joined" /\ \A q : m # PeerLeft(q)
    BY <1>4, NoticeFacts DEF Confirmed
  <2>2. \A q : m # PeerJoined(q)
    <3>1. \A q : PeerJoined(q).op = "peer joined"
      BY DEF PeerJoined
    <3> QED
      BY <2>1, <3>1
  <2>3. Noted(peers, m) = peers
    BY <2>1 DEF Noted
  <2> QED
    BY <1>0, <2>1, <2>2, <2>3
<1> QED
  BY <1>2, <1>3, <1>4 DEF Notices

(* A notice is heard. *)
LEMMA NoticeHeard ==
  ASSUME MemberInv, Hear
  PROVE  MemberInv'
<1> USE DEF ctlVars, serverVars
<1> DEFINE m == Head(down)
<1>0. /\ TypeOK /\ down \in Seq(Notices) /\ down # << >> /\ m \in Notices /\ Tail(down) \in Seq(Notices)
      /\ events \in Seq(EventNames) /\ Len(events) < MaxEvents /\ down' = Tail(down)
      /\ UNCHANGED <<ctlVars, dialog, up, serverVars>>
  <2>1. down \in Seq(Notices) /\ events \in Seq(EventNames)
    BY DEF MemberInv, MessagesFit, ServerStates, Now
  <2>2. down # << >> /\ Len(events) < MaxEvents /\ down' = Tail(down)
        /\ UNCHANGED <<ctlVars, dialog, up, serverVars>>
    BY DEF Hear
  <2>3. m \in Notices /\ Tail(down) \in Seq(Notices)
    BY <2>1, <2>2
  <2> QED
    BY <2>1, <2>2, <2>3 DEF MemberInv
<1>1. HearJoined(m) \/ HearOther(m)
  BY DEF Hear
<1> HIDE DEF m
<1>2. peers' = Noted(peers, m) /\ wanted' = wanted
  <2>1. CASE HearJoined(m)
    BY <2>1 DEF HearJoined, Noted
  <2>2. CASE HearOther(m)
    BY <2>2 DEF HearOther
  <2> QED
    BY <1>1, <2>1, <2>2
<1>3. /\ {joining', joined', connected', lost'} \subseteq BOOLEAN /\ (joined' => wanted # NoGroup)
      /\ events' \in Seq(EventNames) /\ Len(events') <= MaxEvents
  <2>1. CASE HearJoined(m)
    <3>1. "Connected" \in EventNames
      BY DEF EventNames
    <3>2. events' = events \o If(~connected, <<"Connected">>)
      BY <2>1 DEF HearJoined
    <3>3. events' \in Seq(EventNames) /\ Len(events') <= MaxEvents
      BY <1>0, <3>1, <3>2, OneMoreEvent
    <3> QED
      BY <2>1, <3>3 DEF HearJoined
  <2>2. CASE HearOther(m)
    <3>1. UNCHANGED <<joining, joined, connected, lost, events>>
      BY <2>2 DEF HearOther
    <3>2. joined => wanted # NoGroup
      BY DEF MemberInv, ClientFit
    <3> QED
      BY <1>0, <3>1, <3>2 DEF TypeOK
  <2> QED
    BY <1>1, <2>1, <2>2
<1>4. TypeOK'
  BY <1>0, <1>2, <1>3, NotedFacts DEF TypeOK
<1>5. MessagesFit' /\ Listed(Now)'
  BY <1>0, <1>3, <1>4 DEF MemberInv, MessagesFit, Now, ServerStates, TypeOK, Listed
<1>6. SessionsFit' /\ SessionsKnown'
  BY <1>0 DEF MemberInv, SessionsFit, OneLoginPerMac, SessionsKnown
<1>7. ClientFit' /\ Asked'
  BY <1>0, <1>2, <1>3 DEF MemberInv, ClientFit, Asked
<1>8. PeersFit'
  <2> SUFFICES ASSUME Settled', wanted' # NoGroup, NEW p \in Players \ {link'}, group'[p] = wanted'
               PROVE  p \in Others /\ ToBe(down', p, p \in peers')
    BY DEF PeersFit
  <2>1. Settled /\ wanted # NoGroup /\ p \in Players \ {link} /\ group[p] = wanted
    BY <1>0, <1>2 DEF Settled
  <2>2. p \in Others /\ ToBe(down, p, p \in peers)
    BY <2>1 DEF MemberInv, PeersFit
  <2> DEFINE here == p \in peers
  <2>3. here \in BOOLEAN /\ ToBe(down, p, here)
    BY <2>2
  <2>4. (p \in peers') = (m = PeerJoined(p) \/ (here /\ m # PeerLeft(p)))
    BY <1>0, <1>2, <2>2, NotedFacts
  <2> HIDE DEF here
  <2>5. ToBe(Tail(down), p, m = PeerJoined(p) \/ (here /\ m # PeerLeft(p)))
    BY <1>0, <2>3, ToBeHeard DEF m
  <2>6. ToBe(Tail(down), p, p \in peers')
    BY <2>4, <2>5
  <2> QED
    BY <1>0, <2>2, <2>6
<1> QED
  BY <1>4, <1>5, <1>6, <1>7, <1>8 DEF MemberInv

(* A new connection. *)
LEMMA LoggingIn ==
  ASSUME MemberInv, LogIn
  PROVE  MemberInv'
<1> USE DEF ctlVars, serverVars, gameVars
<1> DEFINE k == logins + 1
           q == <<Login>> \o If(wanted # NoGroup, <<Connect(wanted)>>)
<1>0. /\ TypeOK /\ up \in [Conns -> Seq(Requests)] /\ down \in Seq(Notices) /\ events \in Seq(EventNames)
      /\ ~stopCtl /\ logins < MaxLogins /\ logins' = k /\ link' = k /\ loggedIn' = TRUE
      /\ up' = [up EXCEPT ![k] = q] /\ session' = [session EXCEPT ![k] = "accepted"]
      /\ joined' = (joined /\ wanted = NoGroup)
      /\ peers' = IF wanted = NoGroup THEN peers ELSE {}
      /\ UNCHANGED <<active, stopCtl, wanted, joining, connected, lost, gameVars, down, group, host>>
  BY DEF MemberInv, MessagesFit, ServerStates, Now, LogIn
<1>1. logins \in Nat /\ MaxLogins \in Nat /\ k \in Conns /\ k \in Nat /\ k # 0 /\ k <= MaxLogins /\ k > logins
  <2>1. logins \in Nat /\ MaxLogins \in Nat
    BY <1>0, LinkFacts
  <2> QED
    BY <1>0, <2>1 DEF Conns
<1>2. q \in Seq(Requests) /\ LoginFirst(q) /\ (wanted # NoGroup => LastIs(q, Connect(wanted)))
  <2>1. wanted # NoGroup => wanted \in Groups
    BY <1>0 DEF TypeOK
  <2>2. CASE wanted = NoGroup
    <3>1. q = <<Login>>
      BY <2>2 DEF If
    <3>2. Login \in Requests
      BY DEF Requests
    <3> HIDE DEF q
    <3>3. q \in Seq(Requests) /\ q # << >> /\ q[1] = Login /\ DOMAIN q = 1..1
      BY <3>1, <3>2
    <3>4. \A i \in DOMAIN q : ~(i > 1)
      BY <3>3
    <3> QED
      BY <2>2, <3>3, <3>4 DEF LoginFirst
  <2>3. CASE wanted # NoGroup
    <3> DEFINE c == Connect(wanted)
    <3>1. If(wanted # NoGroup, <<c>>) = <<c>>
      BY <2>3 DEF If
    <3>2. Login \in Requests /\ c \in Requests /\ c # Login
      BY <2>1, <2>3, RequestFacts DEF Requests
    <3> DEFINE a == <<Login>>
               b == <<c>>
    <3>a. /\ a \in Seq(Requests) /\ Len(a) = 1 /\ a[1] = Login
          /\ b \in Seq(Requests) /\ Len(b) = 1 /\ b[1] = c
      BY <3>2
    <3>b. q = a \o b
      BY <3>1
    <3> HIDE DEF q, c, a, b
    <3>3. LoginFirst(a) /\ NoLogin(b) /\ b # << >>
      <4>1. DOMAIN a = 1..1 /\ DOMAIN b = 1..1 /\ a # << >> /\ b # << >>
        BY <3>a
      <4>2. (\A i \in DOMAIN a : ~(i > 1)) /\ (\A i \in DOMAIN b : i = 1)
        BY <4>1
      <4> QED
        BY <3>2, <3>a, <4>1, <4>2 DEF LoginFirst, NoLogin
    <3>4. LoginFirst(a \o b) /\ LastIs(a \o b, b[Len(b)])
      BY <3>a, <3>3, RequestsFollow
    <3>5. a \o b \in Seq(Requests) /\ b[Len(b)] = c
      BY <3>a
    <3> QED
      BY <3>b, <3>4, <3>5 DEF c
  <2> QED
    BY <2>2, <2>3
<1> HIDE DEF q
<1>3. /\ up' \in [Conns -> Seq(Requests)] /\ up'[k] = q /\ \A o \in Conns : o # k => up'[o] = up[o]
  BY <1>0, <1>1, <1>2
<1>4. /\ session' \in [Conns -> Sessions] /\ session'[k] = "accepted"
      /\ \A o \in Conns : o # k => session'[o] = session[o]
  BY <1>0, <1>1 DEF TypeOK, Sessions
<1>5. session[k] = "none" /\ group[k] = NoGroup
  BY <1>1 DEF MemberInv, SessionsKnown
<1>6. TypeOK'
  <2>1. link' \in 0..logins' /\ logins' \in 0..MaxLogins
    BY <1>0, <1>1
  <2>2. joined' \in BOOLEAN
    BY <1>0
  <2> HIDE DEF k
  <2>3. {active', stopCtl', loggedIn', joining', joined', connected', lost', dialog'} \subseteq BOOLEAN
    BY <1>0, <2>2 DEF TypeOK
  <2> QED
    BY <1>0, <1>4, <2>1, <2>3 DEF TypeOK
<1>7. MessagesFit' /\ Listed(Now)'
  BY <1>0, <1>3, <1>6 DEF MemberInv, MessagesFit, Now, ServerStates, TypeOK, Listed
<1>8. SessionsFit'
  BY <1>0, <1>1, NotLoggedIn DEF MemberInv
<1>9. SessionsKnown'
  <2> SUFFICES ASSUME NEW o \in Conns
               PROVE  /\ o > logins' => session'[o] = "none"
                      /\ session'[o] = "accepted" => LoginFirst(up'[o])
                      /\ session'[o] = "in" => NoLogin(up'[o])
                      /\ session'[o] # "in" => group'[o] = NoGroup
    BY DEF SessionsKnown
  <2>1. CASE o = k
    BY <1>0, <1>1, <1>2, <1>3, <1>4, <1>5, <2>1
  <2>2. CASE o # k
    <3>1. o > logins' => o > logins
      BY <1>0, <1>1 DEF Conns
    <3>2. session'[o] = session[o] /\ up'[o] = up[o] /\ group'[o] = group[o]
      BY <1>0, <1>3, <1>4, <2>2
    <3> QED
      BY <3>1, <3>2 DEF MemberInv, SessionsKnown
  <2> QED
    BY <2>1, <2>2
<1>10. ClientFit'
  BY <1>0, <1>1 DEF MemberInv, ClientFit
<1>11. Asked'
  BY <1>0, <1>2, <1>3 DEF Asked, LastIs
<1>12. PeersFit'
  BY <1>0, <1>4 DEF PeersFit, Settled
<1> QED
  BY <1>6, <1>7, <1>8, <1>9, <1>10, <1>11, <1>12 DEF MemberInv

-----------------------------------------------------------------------------
(* The server's steps.  What it becomes. *)
LEMMA Becomes ==
  ASSUME NEW s \in ServerStates, Listed(s), Become(s)
  PROVE  /\ Now' = s /\ group' = s.group /\ host' = s.host /\ down' = s.down
         /\ Now' \in ServerStates /\ Listed(Now)'
<1>1. group' = s.group /\ host' = s.host /\ down' = s.down
  BY DEF Become
<1>2. Now' = s
  BY <1>1 DEF Now, ServerStates
<1>3. Listed(Now)'
  BY <1>1 DEF Listed, Now
<1> QED
  BY <1>1, <1>2, <1>3

(* Joined, left and erased are what the server may become. *)
LEMMA BecomesJoined ==
  ASSUME MemberInv, NEW p \in Players, NEW g \in Groups, Become(Joined(Now, p, g))
  PROVE  /\ Now' \in ServerStates /\ Listed(Now)' /\ group' = [group EXCEPT ![p] = g]
         /\ \A here \in BOOLEAN :
              /\ \A q : q # p /\ ToBe(down, q, here) => ToBe(down', q, here)
              /\ p # link /\ link \in Players /\ group[link] = g => ToBe(down', p, here)
              /\ p = link => \A q \in Players \ {p} : group[q] = g => ToBe(down', q, here)
<1> DEFINE s == Joined(Now, p, g)
<1>1. Now \in ServerStates /\ Listed(Now) /\ Now.group = group /\ Now.down = down
  BY DEF MemberInv, MessagesFit, Now
<1>2. /\ s \in ServerStates /\ Listed(s) /\ s.group = [group EXCEPT ![p] = g]
      /\ \A here \in BOOLEAN :
           /\ \A q : q # p /\ ToBe(down, q, here) => ToBe(s.down, q, here)
           /\ p # link /\ link \in Players /\ group[link] = g => ToBe(s.down, p, here)
           /\ p = link => \A q \in Players \ {p} : group[q] = g => ToBe(s.down, q, here)
  <2> HIDE DEF s
  <2>1. s = Joined(Now, p, g)
    BY DEF s
  <2> QED
    BY <1>1, <2>1, JoinedFacts
<1> HIDE DEF s
<1>3. Become(s)
  BY DEF s
<1>4. group' = s.group /\ down' = s.down /\ Now' \in ServerStates /\ Listed(Now)'
  BY <1>2, <1>3, Becomes
<1> QED
  BY <1>2, <1>4

LEMMA BecomesLeft ==
  ASSUME MemberInv, NEW p \in Players, Become(Left(Now, p)) \/ Become(Erased(Now, p))
  PROVE  /\ Now' \in ServerStates /\ Listed(Now)' /\ group' = [group EXCEPT ![p] = NoGroup]
         /\ \A here \in BOOLEAN : \A q : q # p /\ ToBe(down, q, here) => ToBe(down', q, here)
<1>1. /\ Now \in ServerStates /\ Listed(Now) /\ Now.group = group /\ Now.down = down
      /\ group \in [Players -> Groups \cup {NoGroup}]
  BY DEF MemberInv, MessagesFit, Now, TypeOK
<1>2. CASE Become(Left(Now, p))
  <2> DEFINE s == Left(Now, p)
  <2>1. s \in ServerStates /\ Listed(s) /\ s.group = [group EXCEPT ![p] = NoGroup]
    <3>1. Now.group = group
      BY <1>1
    <3> QED
      BY <1>1, LeftFacts
  <2>2. \A here \in BOOLEAN : \A q : q # p /\ ToBe(down, q, here) => ToBe(s.down, q, here)
    <3> SUFFICES ASSUME NEW here \in BOOLEAN, NEW q, q # p, ToBe(down, q, here)
                 PROVE  ToBe(s.down, q, here)
      OBVIOUS
    <3>1. ToBe(Now.down, q, here)
      BY <1>1
    <3> QED
      BY <1>1, <3>1, LeftTells
  <2>3. Become(s)
    BY <1>2
  <2> HIDE DEF s
  <2>4. group' = s.group /\ down' = s.down /\ Now' \in ServerStates /\ Listed(Now)'
    BY <2>1, <2>3, Becomes
  <2> QED
    BY <2>1, <2>2, <2>4
<1>3. CASE Become(Erased(Now, p))
  <2> DEFINE s == Erased(Now, p)
             G == [group EXCEPT ![p] = NoGroup]
  <2>1. G \in [Players -> Groups \cup {NoGroup}] /\ \A q \in Players, g \in Groups : G[q] = g => group[q] = g
    BY <1>1, AdhocAssumption
  <2>2. s = [Now EXCEPT !.group = G]
    BY DEF Erased, Now
  <2> HIDE DEF G, s
  <2>3. s \in ServerStates /\ s.group = G /\ s.down = down /\ s.host = Now.host
    BY <1>1, <2>1, <2>2 DEF ServerStates
  <2>4. Listed(s)
    BY <1>1, <2>1, <2>3 DEF Listed
  <2>5. Become(s)
    BY <1>3 DEF s
  <2>6. group' = s.group /\ down' = s.down /\ Now' \in ServerStates /\ Listed(Now)'
    BY <2>3, <2>4, <2>5, Becomes
  <2> QED
    BY <2>3, <2>6 DEF G
<1> QED
  BY <1>2, <1>3

(* Of our connections, the one in use and logged in is the only one in a    *)
(* group. *)
LEMMA OthersAreOthers ==
  ASSUME MemberInv, Settled
  PROVE  /\ link \in Conns
         /\ \A p \in Players \ {link} : group[p] # NoGroup => p \in Others
<1>1. link \in Conns /\ session[link] = "in"
  BY LinkFacts DEF MemberInv, Settled
<1>2. ASSUME NEW p \in Conns, p # link PROVE group[p] = NoGroup
  <2>1. session[p] # "in"
    BY <1>1, <1>2 DEF MemberInv, SessionsFit, OneLoginPerMac
  <2> QED
    BY <2>1 DEF MemberInv, SessionsKnown
<1> QED
  BY <1>1, <1>2 DEF Players

(* Another player acts. *)
LEMMA OtherKeeps ==
  ASSUME MemberInv, NEW p \in Others, OtherActs(p)
  PROVE  MemberInv'
<1> USE DEF requestVars, ctlVars, gameVars
<1>0. UNCHANGED <<requestVars, ctlVars, gameVars, up, session>> /\ TypeOK /\ p \in Players
  BY DEF OtherActs, MemberInv, Players
<1>1. PICK g \in Groups \cup {NoGroup} :
        /\ Now' \in ServerStates /\ Listed(Now)' /\ group' = [group EXCEPT ![p] = g]
        /\ \A here \in BOOLEAN : \A q : q # p /\ ToBe(down, q, here) => ToBe(down', q, here)
        /\ \A here \in BOOLEAN : p # link /\ link \in Players /\ group[link] = g /\ g # NoGroup => ToBe(down', p, here)
  <2>1. CASE \E g \in Groups : Become(Joined(Now, p, g))
    <3>1. PICK g \in Groups : Become(Joined(Now, p, g))
      BY <2>1
    <3> QED
      BY <1>0, <3>1, BecomesJoined
  <2>2. CASE Become(Left(Now, p)) \/ Become(Erased(Now, p))
    BY <1>0, <2>2, BecomesLeft
  <2> QED
    BY <2>1, <2>2 DEF OtherActs
<1>2. /\ group' \in [Players -> Groups \cup {NoGroup}] /\ host' \in [Groups -> SUBSET Macs]
      /\ down' \in Seq(Notices)
  BY <1>1 DEF ServerStates, Now
<1>3. group'[p] = g /\ \A q \in Players : q # p => group'[q] = group[q]
  BY <1>0, <1>1 DEF TypeOK
<1>4. p \notin Conns /\ (link # 0 => link \in Conns)
  BY <1>0, LinkFacts
<1>5. TypeOK'
  BY <1>0, <1>2 DEF TypeOK
<1>6. MessagesFit'
  BY <1>0, <1>1 DEF MemberInv, MessagesFit
<1>7. SessionsFit'
  BY <1>0 DEF MemberInv, SessionsFit, OneLoginPerMac
<1>8. SessionsKnown'
  BY <1>0, <1>3, <1>4 DEF MemberInv, SessionsKnown, Players
<1>9. ClientFit'
  BY <1>0 DEF MemberInv, ClientFit
<1>10. loggedIn => link \in Conns /\ group'[link] = group[link]
  BY <1>3, <1>4 DEF MemberInv, ClientFit, Players
<1>11. Asked'
  BY <1>0, <1>10 DEF MemberInv, Asked
<1>12. PeersFit'
  <2> SUFFICES ASSUME Settled', wanted' # NoGroup, NEW q \in Players \ {link'}, group'[q] = wanted'
               PROVE  q \in Others /\ ToBe(down', q, q \in peers')
    BY DEF PeersFit
  <2>1. Settled /\ wanted # NoGroup /\ q \in Players \ {link} /\ wanted' = wanted /\ peers' = peers
    BY <1>0 DEF Settled
  <2>2. link \in Conns /\ group[link] = wanted
    BY <2>1, OthersAreOthers DEF MemberInv, Asked, Settled
  <2>3. CASE q # p
    <3>1. group[q] = wanted
      BY <1>3, <2>1, <2>3
    <3>2. q \in Others /\ ToBe(down, q, q \in peers)
      BY <2>1, <3>1 DEF MemberInv, PeersFit
    <3>3. (q \in peers) \in BOOLEAN
      OBVIOUS
    <3> QED
      BY <1>1, <2>1, <2>3, <3>2, <3>3
  <2>4. CASE q = p
    <3>1. p # link /\ link \in Players /\ group[link] = g /\ g # NoGroup
      BY <1>3, <1>4, <2>1, <2>2, <2>4 DEF Players
    <3>2. (q \in peers) \in BOOLEAN
      OBVIOUS
    <3> QED
      BY <1>1, <2>1, <2>4, <3>1, <3>2
  <2> QED
    BY <2>3, <2>4
<1> QED
  BY <1>1, <1>5, <1>6, <1>7, <1>8, <1>9, <1>11, <1>12 DEF MemberInv

(* A connection is closed by the server. *)
LEMMA ClosingKeeps ==
  ASSUME MemberInv, NEW k \in Conns, ServerDrops(k) \/ WriteFails(k)
  PROVE  MemberInv'
<1> USE DEF requestVars, ctlVars, gameVars
<1>0. /\ UNCHANGED <<requestVars, ctlVars, gameVars>> /\ TypeOK /\ k \in Players
      /\ session' = [session EXCEPT ![k] = "closed"] /\ up' = [up EXCEPT ![k] = << >>]
      /\ session \in [Conns -> Sessions] /\ up \in [Conns -> Seq(Requests)]
      /\ Become(Left(Now, k)) \/ Become(Erased(Now, k))
  BY DEF ServerDrops, WriteFails, Closed, MemberInv, Players, TypeOK, MessagesFit
<1>1. /\ Now' \in ServerStates /\ Listed(Now)' /\ group' = [group EXCEPT ![k] = NoGroup]
      /\ \A here \in BOOLEAN : \A q : q # k /\ ToBe(down, q, here) => ToBe(down', q, here)
  BY <1>0, BecomesLeft
<1>2. /\ group' \in [Players -> Groups \cup {NoGroup}] /\ host' \in [Groups -> SUBSET Macs]
      /\ down' \in Seq(Notices)
  BY <1>1 DEF ServerStates, Now
<1>3. group'[k] = NoGroup /\ \A q \in Players : q # k => group'[q] = group[q]
  BY <1>0, <1>1 DEF TypeOK
<1>4. /\ session' \in [Conns -> Sessions] /\ session'[k] = "closed"
      /\ \A o \in Conns : o # k => session'[o] = session[o]
      /\ up' \in [Conns -> Seq(Requests)] /\ \A o \in Conns : o # k => up'[o] = up[o]
  BY <1>0 DEF Sessions
<1>5. TypeOK'
  BY <1>0, <1>2, <1>4 DEF TypeOK
<1>6. MessagesFit'
  BY <1>0, <1>1, <1>4 DEF MemberInv, MessagesFit
<1>7. SessionsFit'
  BY <1>0, NotLoggedIn DEF MemberInv, SessionsFit
<1>8. SessionsKnown'
  <2> SUFFICES ASSUME NEW o \in Conns
               PROVE  /\ o > logins' => session'[o] = "none"
                      /\ session'[o] = "accepted" => LoginFirst(up'[o])
                      /\ session'[o] = "in" => NoLogin(up'[o])
                      /\ session'[o] # "in" => group'[o] = NoGroup
    BY DEF SessionsKnown
  <2>1. CASE o = k
    <3>1. session[k] # "none"
      BY DEF ServerDrops, WriteFails, Closed
    <3> QED
      BY <1>0, <1>3, <1>4, <2>1, <3>1 DEF MemberInv, SessionsKnown
  <2>2. CASE o # k
    BY <1>0, <1>3, <1>4, <2>2 DEF MemberInv, SessionsKnown, Players
  <2> QED
    BY <2>1, <2>2
<1>9. ClientFit' /\ (loggedIn => link \in Conns)
  BY <1>0, LinkFacts DEF MemberInv, ClientFit
<1>10. loggedIn /\ link # k => session'[link] = session[link] /\ up'[link] = up[link] /\ group'[link] = group[link]
  BY <1>3, <1>4, <1>9 DEF Players
<1>11. Asked'
  <2>1. CASE link = k
    BY <1>0, <1>4, <2>1 DEF Asked
  <2>2. CASE link # k
    BY <1>0, <1>10, <2>2 DEF MemberInv, Asked
  <2> QED
    BY <2>1, <2>2
<1>12. PeersFit'
  <2> SUFFICES ASSUME Settled', wanted' # NoGroup, NEW q \in Players \ {link'}, group'[q] = wanted'
               PROVE  q \in Others /\ ToBe(down', q, q \in peers')
    BY DEF PeersFit
  <2>1. link # k /\ loggedIn
    BY <1>0, <1>4 DEF Settled
  <2>2. Settled /\ wanted # NoGroup /\ q \in Players \ {link} /\ wanted' = wanted /\ peers' = peers
    BY <1>0, <1>10, <2>1 DEF Settled
  <2>3. q # k /\ group[q] = wanted
    BY <1>3, <2>2
  <2>4. q \in Others /\ ToBe(down, q, q \in peers) /\ (q \in peers) \in BOOLEAN
    BY <2>2, <2>3 DEF MemberInv, PeersFit
  <2> QED
    BY <1>1, <2>2, <2>3, <2>4
<1> QED
  BY <1>1, <1>5, <1>6, <1>7, <1>8, <1>9, <1>11, <1>12 DEF MemberInv

(* A login closes the one login of its address that is left, if any. *)
LEMMA LoginCloses ==
  ASSUME MemberInv, NEW k \in Conns, session[k] = "accepted", HandleLogin(k)
  PROVE  /\ Now' \in ServerStates /\ Listed(Now)'
         /\ \A q \in Players : group'[q] = IF q \in Older(k) THEN NoGroup ELSE group[q]
<1>0. /\ Become(FoldSet(LAMBDA x, s : Left(s, x), Now, Older(k)))
      /\ group \in [Players -> Groups \cup {NoGroup}]
      /\ Now \in ServerStates /\ Listed(Now)
  BY DEF HandleLogin, MemberInv, MessagesFit, TypeOK
<1>1. CASE Older(k) = {}
  <2>1. Become(Now)
    BY <1>0, <1>1, FoldNone
  <2>2. group' = Now.group /\ Now' \in ServerStates /\ Listed(Now)'
    BY <1>0, <2>1, Becomes
  <2>3. Now.group = group
    BY DEF Now
  <2> QED
    BY <1>1, <2>2, <2>3
<1>2. CASE Older(k) # {}
  <2>1. PICK o : o \in Older(k)
    BY <1>2
  <2>2. Older(k) = {o} /\ o \in Players
    <3>1. \A p \in Older(k) : p \in Conns /\ session[p] = "in"
      BY DEF Older
    <3> QED
      BY <2>1, <3>1 DEF MemberInv, SessionsFit, OneLoginPerMac, Players
  <2>3. Become(Left(Now, o))
    BY <1>0, <2>2, FoldOne
  <2>4. Now' \in ServerStates /\ Listed(Now)' /\ group' = [group EXCEPT ![o] = NoGroup]
    BY <2>2, <2>3, BecomesLeft
  <2> QED
    BY <1>0, <2>2, <2>4
<1> QED
  BY <1>1, <1>2

(* The queues of requests once one of k's has been served. *)
LEMMA Served ==
  ASSUME MemberInv, NEW k \in Conns, up[k] # << >>,
         up' = [o \in Conns |-> IF o = k THEN Tail(up[k]) ELSE If(session'[o] # "closed", up[o])]
  PROVE  /\ up' \in [Conns -> Seq(Requests)] /\ up'[k] = Tail(up[k])
         /\ \A o \in Conns : o # k /\ session'[o] # "closed" => up'[o] = up[o]
         /\ up[k] \in Seq(Requests) /\ Head(up[k]) \in Requests
         /\ LoginFirst(up[k]) \/ NoLogin(up[k]) => NoLogin(Tail(up[k]))
         /\ \A m : LastIs(up[k], m) /\ Tail(up[k]) # << >> => LastIs(Tail(up[k]), m)
         /\ \A m : LastIs(up[k], m) /\ Tail(up[k]) = << >> => Head(up[k]) = m
         /\ LoginFirst(up[k]) => Head(up[k]) = Login
         /\ NoLogin(up[k]) => Head(up[k]) # Login
<1> DEFINE q == up[k]
<1>1. up \in [Conns -> Seq(Requests)] /\ q \in Seq(Requests) /\ q # << >>
  BY DEF MemberInv, MessagesFit
<1> HIDE DEF q
<1>2. /\ LoginFirst(q) \/ NoLogin(q) => NoLogin(Tail(q))
      /\ \A m : LastIs(q, m) /\ Tail(q) # << >> => LastIs(Tail(q), m)
      /\ \A m : LastIs(q, m) /\ Tail(q) = << >> => Head(q) = m
      /\ LoginFirst(q) => Head(q) = Login
      /\ NoLogin(q) => Head(q) # Login
      /\ Head(q) \in Requests /\ Tail(q) \in Seq(Requests)
  BY <1>1, RequestServed
<1>3. up'[k] = Tail(q) /\ \A o \in Conns : o # k /\ session'[o] # "closed" => up'[o] = up[o]
  BY DEF If, q
<1>4. up' \in [Conns -> Seq(Requests)]
  <2>1. \A o \in Conns : If(session'[o] # "closed", up[o]) \in Seq(Requests)
    BY <1>1 DEF If
  <2> QED
    BY <1>2, <2>1 DEF q
<1> QED
  BY <1>1, <1>2, <1>3, <1>4 DEF q

(* A login is served. *)
LEMMA LoginServed ==
  ASSUME MemberInv, NEW k \in Conns, Serve(k), HandleLogin(k)
  PROVE  MemberInv'
<1> USE DEF requestVars, ctlVars, gameVars
<1>0. /\ UNCHANGED <<requestVars, ctlVars, gameVars>> /\ TypeOK /\ k \in Players
      /\ session[k] \in {"accepted", "in"} /\ up[k] # << >> /\ Head(up[k]) = Login
      /\ up' = [o \in Conns |-> IF o = k THEN Tail(up[k]) ELSE If(session'[o] # "closed", up[o])]
      /\ session' = [o \in Conns |-> CASE o = k -> "in" [] o \in Older(k) -> "closed" [] OTHER -> session[o]]
      /\ session \in [Conns -> Sessions]
  BY DEF Serve, HandleLogin, MemberInv, Players, TypeOK
<1>1. session[k] = "accepted" /\ LoginFirst(up[k]) /\ k <= logins
  BY <1>0, Served, LinkFacts DEF MemberInv, SessionsKnown, Conns
<1>2. /\ Now' \in ServerStates /\ Listed(Now)'
      /\ \A q \in Players : group'[q] = IF q \in Older(k) THEN NoGroup ELSE group[q]
  BY <1>1, LoginCloses
<1>3. /\ group' \in [Players -> Groups \cup {NoGroup}] /\ host' \in [Groups -> SUBSET Macs]
      /\ down' \in Seq(Notices)
  BY <1>2 DEF ServerStates, Now
<1>4. SessionsFit'
  <2>1. logins' = logins
    BY <1>0
  <2> QED
    BY <2>1, LoginAlone DEF MemberInv
<1>5. session' \in [Conns -> Sessions]
  BY <1>4 DEF SessionsFit
<1>6. TypeOK'
  BY <1>0, <1>3, <1>5 DEF TypeOK
<1>7. /\ up' \in [Conns -> Seq(Requests)] /\ up'[k] = Tail(up[k]) /\ NoLogin(up'[k])
      /\ \A o \in Conns : o # k /\ session'[o] # "closed" => up'[o] = up[o]
      /\ \A m : LastIs(up[k], m) /\ Tail(up[k]) # << >> => LastIs(Tail(up[k]), m)
      /\ \A m : LastIs(up[k], m) /\ Tail(up[k]) = << >> => Head(up[k]) = m
  BY <1>0, <1>1, Served
<1>8. MessagesFit'
  BY <1>0, <1>2, <1>7 DEF MemberInv, MessagesFit
<1>9. ASSUME NEW o \in Conns, o # k
      PROVE  \/ session[o] = "in" /\ session'[o] = "closed" /\ group'[o] = NoGroup
             \/ session[o] # "in" /\ session'[o] = session[o] /\ group'[o] = group[o]
  <2>1. CASE session[o] = "in"
    <3>1. o \in Older(k)
      BY <1>9, <2>1 DEF Older
    <3> QED
      BY <1>0, <1>2, <1>9, <2>1, <3>1 DEF Players
  <2>2. CASE session[o] # "in"
    <3>1. o \notin Older(k)
      BY <2>2 DEF Older
    <3>2. session'[o] = session[o]
      BY <1>0, <1>9, <3>1
    <3> QED
      BY <1>2, <2>2, <3>1, <3>2 DEF Players
  <2> QED
    BY <2>1, <2>2
<1>10. session'[k] = "in" /\ group'[k] = NoGroup
  <2>1. k \notin Older(k)
    BY DEF Older
  <2>2. group[k] = NoGroup
    BY <1>1 DEF MemberInv, SessionsKnown
  <2> QED
    BY <1>0, <1>2, <2>1, <2>2
<1>11. SessionsKnown'
  <2> SUFFICES ASSUME NEW o \in Conns
               PROVE  /\ o > logins' => session'[o] = "none"
                      /\ session'[o] = "accepted" => LoginFirst(up'[o])
                      /\ session'[o] = "in" => NoLogin(up'[o])
                      /\ session'[o] # "in" => group'[o] = NoGroup
    BY DEF SessionsKnown
  <2>0. logins' = logins /\ (o > logins => session[o] = "none")
    BY <1>0 DEF MemberInv, SessionsKnown
  <2>1. CASE o = k
    <3>1. ~(o > logins)
      BY <1>1, <2>0, <2>1
    <3> QED
      BY <1>7, <1>10, <2>0, <2>1, <3>1
  <2>2. CASE o # k
    BY <1>7, <1>9, <2>0, <2>2 DEF MemberInv, SessionsKnown
  <2> QED
    BY <2>1, <2>2
<1>12. ClientFit' /\ (loggedIn => link \in Conns)
  BY <1>0, LinkFacts DEF MemberInv, ClientFit
<1>13. wanted # NoGroup /\ loggedIn /\ link = k => up'[k] # << >> /\ LastIs(up'[k], Connect(wanted))
  <2> SUFFICES ASSUME wanted # NoGroup, loggedIn, link = k
               PROVE  up'[k] # << >> /\ LastIs(up'[k], Connect(wanted))
    OBVIOUS
  <2>1. LastIs(up[k], Connect(wanted))
    BY <1>0 DEF MemberInv, Asked
  <2>2. Connect(wanted) # Login
    BY RequestFacts
  <2> QED
    BY <1>0, <1>7, <2>1, <2>2
<1>14. Asked'
  <2>1. CASE link = k
    BY <1>0, <1>13, <2>1 DEF Asked
  <2>2. CASE link # k
    BY <1>0, <1>7, <1>9, <1>12, <2>2 DEF MemberInv, Asked
  <2> QED
    BY <2>1, <2>2
<1>15. PeersFit'
  <2>1. CASE link = k
    BY <1>0, <1>13, <2>1 DEF PeersFit, Settled
  <2>2. CASE link # k
    BY <1>0, <1>9, <1>12, <2>2 DEF PeersFit, Settled
  <2> QED
    BY <2>1, <2>2
<1> QED
  BY <1>2, <1>4, <1>6, <1>8, <1>11, <1>12, <1>14, <1>15 DEF MemberInv

(* Joining or leaving a group is served. *)
LEMMA RequestKeeps ==
  ASSUME MemberInv, NEW k \in Conns, Serve(k), HandleRequest(k)
  PROVE  MemberInv'
<1> USE DEF requestVars, ctlVars, gameVars
<1> DEFINE r == Head(up[k])
<1>0. /\ UNCHANGED <<requestVars, ctlVars, gameVars, session>> /\ TypeOK /\ k \in Players
      /\ session[k] \in {"accepted", "in"} /\ up[k] # << >>
      /\ up' = [o \in Conns |-> IF o = k THEN Tail(up[k]) ELSE If(session'[o] # "closed", up[o])]
      /\ \/ r.op = "connect" /\ Become(Joined(Now, k, r.group))
         \/ r.op = "disconnect" /\ Become(Left(Now, k))
  BY DEF Serve, HandleRequest, MemberInv, Players
<1>1. /\ up' \in [Conns -> Seq(Requests)] /\ up'[k] = Tail(up[k])
      /\ \A o \in Conns : o # k /\ session'[o] # "closed" => up'[o] = up[o]
      /\ r \in Requests
      /\ LoginFirst(up[k]) \/ NoLogin(up[k]) => NoLogin(Tail(up[k]))
      /\ \A m : LastIs(up[k], m) /\ Tail(up[k]) # << >> => LastIs(Tail(up[k]), m)
      /\ \A m : LastIs(up[k], m) /\ Tail(up[k]) = << >> => r = m
      /\ LoginFirst(up[k]) => r = Login
  BY <1>0, Served
<1> HIDE DEF r
<1>2. session[k] = "in" /\ NoLogin(up'[k])
  <2>1. r # Login
    BY <1>0, RequestFacts
  <2> QED
    BY <1>0, <1>1, <2>1 DEF MemberInv, SessionsKnown
<1>3. PICK g \in Groups \cup {NoGroup} :
        /\ Now' \in ServerStates /\ Listed(Now)' /\ group' = [group EXCEPT ![k] = g]
        /\ \A f \in Groups : r = Connect(f) => g = f
        /\ \A here \in BOOLEAN : k = link /\ g # NoGroup =>
             \A q \in Players \ {k} : group[q] = g => ToBe(down', q, here)
  <2>1. CASE r.op = "connect" /\ Become(Joined(Now, k, r.group))
    <3>1. PICK f \in Groups : r = Connect(f)
      BY <1>1, <2>1, RequestFacts DEF Requests
    <3>2. r.group = f /\ \A e : r = Connect(e) => e = f
      <4>1. \A e : Connect(e).group = e
        BY RequestFacts
      <4> QED
        BY <3>1, <4>1
    <3> QED
      BY <1>0, <2>1, <3>2, BecomesJoined
  <2>2. CASE r.op = "disconnect" /\ Become(Left(Now, k))
    <3>1. \A f : r # Connect(f)
      <4>1. \A f : Connect(f).op = "connect"
        BY RequestFacts
      <4> QED
        BY <2>2, <4>1
    <3> QED
      BY <1>0, <2>2, <3>1, BecomesLeft
  <2> QED
    BY <1>0, <2>1, <2>2
<1>4. /\ group' \in [Players -> Groups \cup {NoGroup}] /\ host' \in [Groups -> SUBSET Macs]
      /\ down' \in Seq(Notices)
  BY <1>3 DEF ServerStates, Now
<1>5. group'[k] = g /\ \A q \in Players : q # k => group'[q] = group[q]
  BY <1>0, <1>3 DEF TypeOK
<1>6. TypeOK'
  BY <1>0, <1>4 DEF TypeOK
<1>7. MessagesFit'
  BY <1>0, <1>1, <1>3 DEF MemberInv, MessagesFit
<1>8. SessionsFit'
  BY <1>0 DEF MemberInv, SessionsFit, OneLoginPerMac
<1>9. SessionsKnown'
  BY <1>0, <1>1, <1>2, <1>5 DEF MemberInv, SessionsKnown, Players
<1>10. ClientFit' /\ (loggedIn => link \in Conns)
  BY <1>0, LinkFacts DEF MemberInv, ClientFit
<1>11. wanted # NoGroup /\ loggedIn /\ link = k =>
         IF up'[k] = << >> THEN g = wanted ELSE LastIs(up'[k], Connect(wanted))
  <2> SUFFICES ASSUME wanted # NoGroup, loggedIn, link = k
               PROVE  IF up'[k] = << >> THEN g = wanted ELSE LastIs(up'[k], Connect(wanted))
    OBVIOUS
  <2>1. LastIs(up[k], Connect(wanted)) /\ wanted \in Groups
    BY <1>0 DEF MemberInv, Asked, TypeOK
  <2> QED
    BY <1>1, <1>3, <2>1
<1>12. Asked'
  <2>1. CASE link = k
    BY <1>0, <1>5, <1>11, <2>1 DEF Asked
  <2>2. CASE link # k
    BY <1>0, <1>1, <1>5, <1>10, <2>2 DEF MemberInv, Asked, Players
  <2> QED
    BY <2>1, <2>2
<1>13. PeersFit'
  <2> SUFFICES ASSUME Settled', wanted' # NoGroup, NEW q \in Players \ {link'}, group'[q] = wanted'
               PROVE  q \in Others /\ ToBe(down', q, q \in peers')
    BY DEF PeersFit
  <2>1. loggedIn /\ link = k /\ wanted # NoGroup /\ up'[k] = << >> /\ wanted' = wanted /\ peers' = peers /\ q # k
    BY <1>0, <1>2, <1>10 DEF MemberInv, SessionsFit, OneLoginPerMac, Settled
  <2>2. g = wanted /\ group[q] = wanted
    BY <1>5, <1>11, <2>1
  <2> DEFINE here == q \in peers
  <2>3. ToBe(down', q, q \in peers)
    <3>1. here \in BOOLEAN
      OBVIOUS
    <3>2. k = link /\ g # NoGroup /\ q \in Players \ {k} /\ group[q] = g
      BY <2>1, <2>2
    <3> HIDE DEF here
    <3>3. ToBe(down', q, here)
      BY <1>3, <3>1, <3>2
    <3> QED
      BY <3>3 DEF here
  <2>4. q \in Others
    <3>1. q \in Conns => session[q] # "in"
      BY <1>2, <2>1 DEF MemberInv, SessionsFit, OneLoginPerMac
    <3>2. q \in Conns => group[q] = NoGroup
      BY <3>1 DEF MemberInv, SessionsKnown
    <3> QED
      BY <2>1, <2>2, <3>2 DEF Players
  <2> QED
    BY <2>1, <2>3, <2>4
<1> QED
  BY <1>3, <1>6, <1>7, <1>8, <1>9, <1>10, <1>12, <1>13 DEF MemberInv

(* Every step of the client, the game and the server. *)
LEMMA StepMemberInv == MemberInv /\ [Next]_vars => MemberInv'
<1> SUFFICES ASSUME MemberInv, [Next]_vars PROVE MemberInv'
  OBVIOUS
<1>1. CASE NetworkThread
  BY <1>1, LoggingIn, LoggingOut, WantingNothing, NoticeHeard DEF NetworkThread
<1>2. CASE GameCalls
  BY <1>2, WantingNothing, LoggingOut, EventsTaken, DialogAsks DEF GameCalls
<1>3. CASE Server
  <2>1. ASSUME NEW k \in Conns, Serve(k) PROVE MemberInv'
    BY <2>1, LoginServed, RequestKeeps DEF Serve
  <2> QED
    BY <1>3, <2>1, ClosingKeeps, OtherKeeps DEF Server
<1>4. CASE UNCHANGED vars
  <2>1. TypeOK' /\ MessagesFit' /\ Listed(Now)'
    BY <1>4 DEF vars, requestVars, ctlVars, gameVars, netVars, serverVars,
         MemberInv, TypeOK, MessagesFit, Listed, Now, ServerStates
  <2>2. SessionsFit' /\ SessionsKnown' /\ ClientFit' /\ Asked' /\ PeersFit'
    BY <1>4 DEF vars, requestVars, ctlVars, gameVars, netVars, serverVars, MemberInv, SessionsFit,
         OneLoginPerMac, SessionsKnown, ClientFit, Asked, PeersFit, Settled
  <2> QED
    BY <2>1, <2>2 DEF MemberInv
<1> QED
  BY <1>1, <1>2, <1>3, <1>4 DEF Next

(* However the connection breaks, requests cross with notices and other     *)
(* players come and go: once the server has served what the client asked,   *)
(* both agree on the group the client is in and who else is in it           *)
(* (client.cpp, on_logged_in and handle_ctl_packet; server.cpp, join_group  *)
(* and leave_group).                                                        *)
THEOREM MembershipIsAgreed == Spec => []MembershipAgrees
<1> QED
  BY InitMemberInv, StepMemberInv, MemberInvImplies, PTL DEF Spec
=============================================================================
