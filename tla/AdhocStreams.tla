---------------------------- MODULE AdhocStreams ----------------------------
(****************************************************************************)
(* Streams between two players (host/adhoc/client.cpp, server.cpp): one     *)
(* player's connecting sockets, the other's listening socket with those it  *)
(* accepts, and the relay that pairs their connections and passes data on.  *)
(* All connecting sockets share one pair of addresses and ports, as when a  *)
(* game gives up and tries again: that is where streams could be mixed up.  *)
(* A connection is two queues, what is buffered at either end and on its    *)
(* way together; it may break at any time, and each end finds out alone.    *)
(* Timeouts are steps that may be taken whenever what they time is pending. *)
(****************************************************************************)
EXTENDS Integers, SequencesExt

CONSTANTS
  Openers,      \* connecting sockets of one player
  Accepts,      \* sockets the other may accept
  Listener,     \* its listening socket
  Retries,      \* retries of a refused connection
  Backlog,      \* limit of the listening socket's backlog
  QueueLimit,   \* blocks a connection may hold and still be given another
  MaxSessions,  \* bound on relay connections
  MaxListens,   \* bound on relay connections of the listening socket
  MaxFaults,    \* bound on connections that break and groups that are lost
  MaxBlocks     \* bound on blocks sent in all

ASSUME StreamsAssumption ==
  /\ Openers # {} /\ Accepts # {} /\ Openers \cap Accepts = {}
  /\ Listener \notin Openers \cup Accepts
  /\ Backlog \in Nat \ {0}
  /\ {Retries, QueueLimit, MaxSessions, MaxListens, MaxFaults, MaxBlocks} \subseteq Nat

Streams == Openers \cup Accepts
Sockets == Streams \cup {Listener}
Keys == 1..MaxSessions

VARIABLES
  state,      \* of each stream socket, see States
  link,       \* the relay connection of each socket, 0 for none
  pending,    \* accepted sockets whose connection is still to be made
  retries,    \* retries_left of each connecting socket
  backlog,    \* connection requests the listening socket holds
  sent,       \* blocks each socket has sent
  received,   \* blocks each socket has received
  joined,     \* which players the server has in the group
  faults,     \* connections that broke and groups that were lost
  listens,    \* connections the listening socket has made
  used,       \* connections made in all
  kind,       \* of each of the server's sessions, see Kinds
  partner,    \* the session each is paired with, 0 for none
  announced,  \* connecting sessions the listening socket was told of
  toServer, toClient

clientVars == <<state, link, pending, retries, backlog, sent, received>>
groupVars == <<joined, faults>>
serverVars == <<kind, partner, announced>>
queueVars == <<toServer, toClient>>
countVars == <<listens, used>>
vars == <<clientVars, groupVars, serverVars, queueVars, countVars>>

(* Disconnected, Failed and closed by the game make no difference here. *)
States == {"none", "Opening", "Established", "Ended"}
Kinds == {"none", "Pending", "Listen", "Connect", "Accept", "gone"}
Notice == << >>    \* of no block
Player(s) == IF s \in Openers THEN "caller" ELSE "callee"

Init ==
  /\ state = [s \in Streams |-> "none"]
  /\ link = [s \in Sockets |-> 0]
  /\ pending = {} /\ backlog = 0
  /\ retries = [o \in Openers |-> Retries]
  /\ sent = [s \in Streams |-> 0]
  /\ received = [s \in Streams |-> << >>]
  /\ joined = {"caller", "callee"} /\ faults = 0
  /\ listens = 0 /\ used = 0
  /\ kind = [k \in Keys |-> "none"]
  /\ partner = [k \in Keys |-> 0]
  /\ announced = {}
  /\ toServer = [k \in Keys |-> << >>]
  /\ toClient = [k \in Keys |-> << >>]

-----------------------------------------------------------------------------
(* The clients: the game's calls. *)

(* Handles are given out in order. *)
Unused(ss) == {s \in ss : state[s] = "none"}
NextHandle(s, ss) == s \in Unused(ss) /\ s = CHOOSE t \in Unused(ss) : TRUE

Open(o) ==
  /\ NextHandle(o, Openers)
  /\ state' = [state EXCEPT ![o] = "Opening"]
  /\ UNCHANGED <<link, pending, retries, backlog, sent, received,
                 groupVars, serverVars, queueVars, countVars>>

(* To the game an accepted stream is open at once. *)
Accept(a) ==
  /\ NextHandle(a, Accepts) /\ backlog > 0
  /\ backlog' = backlog - 1
  /\ state' = [state EXCEPT ![a] = "Established"]
  /\ pending' = pending \cup {a}
  /\ UNCHANGED <<link, retries, sent, received, groupVars, serverVars, queueVars, countVars>>

SentInAll == FoldFunction(+, 0, sent)
Send(s) ==
  /\ state[s] = "Established" /\ link[s] # 0 /\ SentInAll < MaxBlocks
  /\ sent' = [sent EXCEPT ![s] = @ + 1]
  /\ toServer' = IF kind[link[s]] = "gone" THEN toServer
                 ELSE [toServer EXCEPT ![link[s]] = Append(@, <<s, sent[s] + 1>>)]
  /\ UNCHANGED <<state, link, pending, retries, backlog, received,
                 groupVars, serverVars, toClient, countVars>>

(* A socket whose connection ends no longer reads what is still coming. *)
Unlinked(ss) ==
  /\ link' = [s \in Sockets |-> IF s \in ss THEN 0 ELSE link[s]]
  /\ toClient' = [k \in Keys |-> IF \E s \in ss : link[s] = k THEN << >> ELSE toClient[k]]

(* ptp_close, and the network thread closing the connection.  Closing a     *)
(* socket that has ended and has no connection would change nothing.        *)
Close(s) ==
  /\ state[s] \in {"Opening", "Established"} \/ link[s] # 0 \/ s \in pending
  /\ state' = [state EXCEPT ![s] = "Ended"]
  /\ pending' = pending \ {s}
  /\ Unlinked({s})
  /\ UNCHANGED <<retries, backlog, sent, received, groupVars, serverVars, toServer, countVars>>

-----------------------------------------------------------------------------
(* The clients' network threads: maintain_streams, parse_stream. *)

(* start_relay: a connection that opens with an init record. *)
StartRelay(s, type) ==
  /\ used < MaxSessions
  /\ used' = used + 1
  /\ link' = [link EXCEPT ![s] = used + 1]
  /\ kind' = [kind EXCEPT ![used + 1] = "Pending"]
  /\ toServer' = [toServer EXCEPT ![used + 1] = <<type>>]
  /\ UNCHANGED <<partner, announced, toClient>>

StartConnect(o) ==
  /\ state[o] = "Opening" /\ link[o] = 0 /\ "caller" \in joined
  /\ StartRelay(o, "Connect")
  /\ UNCHANGED <<state, pending, retries, backlog, sent, received, groupVars, listens>>

StartListen ==
  /\ link[Listener] = 0 /\ "callee" \in joined /\ listens < MaxListens
  /\ StartRelay(Listener, "Listen")
  /\ listens' = listens + 1
  /\ UNCHANGED <<state, pending, retries, backlog, sent, received, groupVars>>

(* An accepted socket gets its connection even when the group was lost in   *)
(* between, or fails to.                                                    *)
StartAccept(a) ==
  /\ a \in pending
  /\ pending' = pending \ {a}
  /\ \/ StartRelay(a, "Accept") /\ UNCHANGED state
     \/ /\ state' = [state EXCEPT ![a] = "Ended"]
        /\ UNCHANGED <<used, link, serverVars, queueVars>>
  /\ UNCHANGED <<retries, backlog, sent, received, groupVars, listens>>

HearNotice(s, m) ==
  /\ s \in Streams /\ m = Notice
  /\ state' = [state EXCEPT ![s] = IF @ = "Opening" THEN "Established" ELSE @]
  /\ UNCHANGED <<backlog, received>>

HearBlock(s, m) ==
  /\ s \in Streams /\ m # Notice
  /\ received' = [received EXCEPT ![s] = Append(@, m)]
  /\ UNCHANGED <<state, backlog>>

(* A request that finds the backlog full is dropped. *)
HearRequest(s, m) ==
  /\ s = Listener
  /\ backlog' = IF backlog < Backlog THEN backlog + 1 ELSE backlog
  /\ UNCHANGED <<state, received>>

Hear(s) ==
  /\ link[s] # 0 /\ toClient[link[s]] # << >>
  /\ LET m == Head(toClient[link[s]]) IN HearNotice(s, m) \/ HearBlock(s, m) \/ HearRequest(s, m)
  /\ toClient' = [toClient EXCEPT ![link[s]] = Tail(@)]
  /\ UNCHANGED <<link, pending, retries, sent, groupVars, serverVars, toServer, countVars>>

(* Mutant: a refused connection is tried again for ever. *)
LinkEndsRetrying(s) ==
  /\ state' = [t \in Streams |-> IF t = s /\ state[t] = "Established" THEN "Ended" ELSE state[t]]
  /\ retries' = retries

LinkEnds(s) ==
  LET again == s \in Openers /\ state[s] = "Opening" /\ retries[s] > 0
  IN /\ state' = [t \in Streams |-> IF t = s /\ ~again THEN "Ended" ELSE state[t]]
     /\ retries' = [o \in Openers |-> IF o = s /\ again THEN retries[o] - 1 ELSE retries[o]]

LinkFails(s) ==
  /\ link[s] # 0
  /\ LinkEnds(s)
  /\ Unlinked({s})
  /\ UNCHANGED <<pending, backlog, sent, received, joined, serverVars, toServer, countVars>>

(* The server has closed the connection: seen once all it sent is read. *)
SeesClose(s) ==
  /\ LinkFails(s)
  /\ kind[link[s]] = "gone" /\ toClient[link[s]] = << >>
  /\ UNCHANGED faults

Breaks(s) ==
  /\ LinkFails(s)
  /\ faults < MaxFaults /\ faults' = faults + 1

BacklogExpires ==
  /\ backlog > 0
  /\ backlog' = backlog - 1
  /\ UNCHANGED <<state, link, pending, retries, sent, received,
                 groupVars, serverVars, queueVars, countVars>>

(* close_relay_links: a player loses the group, leaves it or joins another. *)
LoseGroup(p) ==
  /\ p \in joined /\ faults < MaxFaults
  /\ faults' = faults + 1 /\ joined' = joined \ {p}
  /\ state' = [s \in Streams |-> IF Player(s) = p /\ state[s] # "none" THEN "Ended" ELSE state[s]]
  /\ Unlinked({s \in Sockets : Player(s) = p})
  /\ backlog' = IF p = "callee" THEN 0 ELSE backlog
  /\ UNCHANGED <<pending, retries, sent, received, serverVars, toServer, countVars>>

RegainGroup(p) ==
  /\ p \notin joined
  /\ joined' = joined \cup {p}
  /\ UNCHANGED <<clientVars, faults, serverVars, queueVars, countVars>>

-----------------------------------------------------------------------------
(* The relay. *)

Listening == {k \in Keys : kind[k] = "Listen"}
Unpaired == {k \in Keys : kind[k] = "Connect" /\ partner[k] = 0}

(* remove_closed: a session that ends takes its pairing with it; its        *)
(* partner still delivers what it holds and then closes.                    *)
Gone(ks) ==
  LET all == ks \cup {partner[k] : k \in ks} IN
  /\ kind' = [k \in Keys |-> IF k \in all THEN "gone" ELSE kind[k]]
  /\ partner' = [k \in Keys |-> IF k \in all THEN 0 ELSE partner[k]]
  /\ announced' = announced \ all
  /\ toServer' = [k \in Keys |-> IF k \in all THEN << >> ELSE toServer[k]]

(* offer_stream *)
Offered(k) ==
  IF Listening = {} THEN UNCHANGED <<announced, toClient>>
  ELSE /\ announced' = announced \cup {k}
       /\ toClient' = [j \in Keys |-> toClient[j] \o IF j \in Listening THEN <<Notice>> ELSE << >>]

InitConnect(k) ==
  /\ Head(toServer[k]) = "Connect"
  /\ kind' = [kind EXCEPT ![k] = "Connect"]
  /\ toServer' = [toServer EXCEPT ![k] = Tail(@)]
  /\ Offered(k)
  /\ UNCHANGED partner

(* A new listening connection of an address replaces the older. *)
InitListen(k) ==
  /\ Head(toServer[k]) = "Listen"
  /\ kind' = [j \in Keys |-> CASE j = k -> "Listen" [] j \in Listening -> "gone" [] OTHER -> kind[j]]
  /\ toServer' = [toServer EXCEPT ![k] = Tail(@)]
  /\ UNCHANGED <<partner, announced, toClient>>

(* Mutant: accept_stream pairs a session that has a partner already. *)
PairAnew(k) ==
  /\ Head(toServer[k]) = "Accept"
  /\ \E c \in Keys :
       /\ kind[c] = "Connect" /\ \A d \in 1..(c - 1) : kind[d] # "Connect"
       /\ kind' = [kind EXCEPT ![k] = "Accept"]
       /\ partner' = [partner EXCEPT ![k] = c, ![c] = k]
       /\ toClient' = [toClient EXCEPT ![k] = Append(@, Notice), ![c] = Append(@, Notice)]
  /\ toServer' = [toServer EXCEPT ![k] = Tail(@)]
  /\ UNCHANGED announced

(* accept_stream pairs the oldest connecting session. *)
Pair(k) ==
  /\ Head(toServer[k]) = "Accept" /\ Unpaired # {}
  /\ LET c == CHOOSE c \in Unpaired : \A d \in Unpaired : c <= d IN
       /\ kind' = [kind EXCEPT ![k] = "Accept"]
       /\ partner' = [partner EXCEPT ![k] = c, ![c] = k]
       /\ toClient' = [toClient EXCEPT ![k] = Append(@, Notice), ![c] = Append(@, Notice)]
  /\ toServer' = [toServer EXCEPT ![k] = Tail(@)]
  /\ UNCHANGED announced

Refuse(k) ==
  /\ Head(toServer[k]) = "Accept" /\ Unpaired = {}
  /\ Gone({k})
  /\ UNCHANGED toClient

HandleInit(k) ==
  /\ kind[k] = "Pending" /\ toServer[k] # << >>
  /\ InitConnect(k) \/ InitListen(k) \/ Pair(k) \/ Refuse(k)
  /\ UNCHANGED <<clientVars, groupVars, countVars>>

(* expire offers a waiting stream again until the listening socket is told. *)
Offer(k) ==
  /\ k \in Unpaired \ announced /\ Listening # {}
  /\ Offered(k)
  /\ UNCHANGED <<clientVars, groupVars, kind, partner, toServer, countVars>>

Expire(k) ==
  /\ k \in Unpaired \/ kind[k] = "Pending"
  /\ Gone({k})
  /\ UNCHANGED <<clientVars, groupVars, toClient, countVars>>

(* Mutant: handle_stream passes a block on and keeps it. *)
PassKeeping(k) == toServer' = toServer

Pass(k) == toServer' = [toServer EXCEPT ![k] = Tail(@)]

(* handle_stream: one block *)
Forward(k) ==
  /\ partner[k] # 0 /\ toServer[k] # << >> /\ Len(toClient[partner[k]]) <= QueueLimit
  /\ toClient' = [toClient EXCEPT ![partner[k]] = Append(@, Head(toServer[k]))]
  /\ Pass(k)
  /\ UNCHANGED <<clientVars, groupVars, serverVars, countVars>>

(* Mutant: a session that ends leaves its partner open. *)
HangUpAlone(k) ==
  /\ kind' = [kind EXCEPT ![k] = "gone"]
  /\ partner' = [j \in Keys |-> IF j = k \/ partner[j] = k THEN 0 ELSE partner[j]]
  /\ announced' = announced \ {k}
  /\ toServer' = [toServer EXCEPT ![k] = << >>]

(* remove_closed *)
HangUp(k) == Gone({k})

(* The client's end is closed.  Blocks it still had sent may be passed on   *)
(* before or may be lost.                                                   *)
Eof(k) ==
  /\ kind[k] \notin {"none", "gone"} /\ \A s \in Sockets : link[s] # k
  /\ HangUp(k)
  /\ UNCHANGED <<clientVars, groupVars, toClient, countVars>>

-----------------------------------------------------------------------------
Game ==
  \/ \E o \in Openers : Open(o)
  \/ \E a \in Accepts : Accept(a)
  \/ \E s \in Streams : Send(s) \/ Close(s)
Network ==
  \/ \E o \in Openers : StartConnect(o)
  \/ \E a \in Accepts : StartAccept(a)
  \/ \E s \in Sockets : Hear(s) \/ SeesClose(s) \/ Breaks(s)
  \/ StartListen \/ BacklogExpires
  \/ \E p \in {"caller", "callee"} : LoseGroup(p) \/ RegainGroup(p)
Relay == \E k \in Keys : HandleInit(k) \/ Offer(k) \/ Expire(k) \/ Forward(k) \/ Eof(k)
Next == Game \/ Network \/ Relay

(* The network threads and the server loop run on, and time passes for the  *)
(* timeouts: of what such a thread could do, something gets done.  Nothing  *)
(* is promised of the games, and of the network only that a connection      *)
(* which is up delivers.                                                    *)
ThreadStep ==
  \/ \E o \in Openers : StartConnect(o)
  \/ \E a \in Accepts : StartAccept(a)
  \/ \E s \in Sockets : Hear(s) \/ SeesClose(s)
LoopStep == \E k \in Keys : HandleInit(k) \/ Expire(k) \/ Forward(k) \/ Eof(k)
Fairness == WF_vars(ThreadStep) /\ WF_vars(LoopStep)
Spec == Init /\ [][Next]_vars /\ Fairness

-----------------------------------------------------------------------------
TypeOK ==
  /\ state \in [Streams -> States] /\ link \in [Sockets -> 0..used]
  /\ pending \subseteq Accepts
  /\ retries \in [Openers -> 0..Retries] /\ backlog \in 0..Backlog
  /\ kind \in [Keys -> Kinds] /\ partner \in [Keys -> 0..used]
  /\ announced \subseteq Keys

(* Sessions are paired two and two, a connecting one with an accepting one, *)
(* and the connecting game finds a stream open only when it was paired.     *)
PairsAgree ==
  /\ TypeOK
  /\ \A k \in Keys : partner[k] # 0 =>
       /\ partner[partner[k]] = k
       /\ {kind[k], kind[partner[k]]} = {"Connect", "Accept"}
  /\ \A o \in Openers : state[o] = "Established" =>
       link[o] # 0 /\ (partner[link[o]] # 0 \/ kind[link[o]] = "gone")

(* Whatever was tried before on the same ports, a socket receives what one  *)
(* peer sent, from its first block on, in order and without a gap.          *)
InOrderFromOne ==
  \A s \in Streams : \E p \in Streams :
    /\ Player(p) # Player(s)
    /\ Len(received[s]) <= sent[p]
    /\ received[s] = [i \in 1..Len(received[s]) |-> <<p, i>>]

(* Connection attempts end: they are open, refused, or given up. *)
Attempts == {o \in Openers : state[o] = "Opening"}
OpeningEnds == Attempts # {} ~> (Attempts = {} \/ "caller" \notin joined)

(* An open stream whose other end is gone closes. *)
Present(s) == link[s] # 0 \/ s \in pending
HalfOpen ==
  \E s \in Streams : state[s] = "Established" /\ \A p \in Streams : Player(p) # Player(s) => ~Present(p)
CloseReachesPeer == HalfOpen ~> ~HalfOpen
=============================================================================
