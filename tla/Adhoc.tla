-------------------------------- MODULE Adhoc --------------------------------
(****************************************************************************)
(* Ad hoc matchmaking (host/adhoc/client.cpp, server.cpp, hle_adhoc.cpp):   *)
(* one client with the game in front of it, its TCP connections to the      *)
(* adhocctl server, and the server with its other players.  The client's    *)
(* network thread and the game's calls interleave at the client's mutex;    *)
(* a connection may break at any time on either side, each side finds out   *)
(* on its own, and what was sent before may or may not still arrive.        *)
(* Timeouts are steps that may be taken whenever what they time is pending. *)
(****************************************************************************)
EXTENDS Integers, SequencesExt

CONSTANTS
  Groups,      \* group names
  NoGroup,     \* no group wanted or joined
  Self,        \* the client's MAC address
  Others,      \* the server's other players
  MaxLogins,   \* bound on the connections the client makes
  MaxUp,       \* bound on requests under way
  MaxDown,     \* bound on notices under way before others act again
  MaxEvents    \* bound on events the game has not taken

ASSUME AdhocAssumption ==
  /\ NoGroup \notin Groups
  /\ Self \notin Others /\ IsFiniteSet(Others)
  /\ Others \cap (0..MaxLogins) = {}
  /\ {MaxLogins, MaxUp, MaxDown, MaxEvents} \subseteq Nat

Conns == 1..MaxLogins
Players == Conns \cup Others

VARIABLES
  active,      \* start() without stop()
  stopCtl,     \* the network thread is to close the connection
  link,        \* the connection in use, 0 for none
  logins,      \* connections made so far
  loggedIn,
  wanted,      \* wanted_group
  joining,     \* join_started is set
  joined,      \* the server confirmed the join in this login
  connected,   \* game_connected
  lost,        \* lost_since is set
  peers,       \* peer entries: their players, by which the server names them
  events,      \* CtlEvents the game has not taken
  dialog,      \* netconf.joining: the dialog waits for the join
  up,          \* requests under way, per connection
  down,        \* notices under way on the connection in use
  session,     \* the server's end of a connection, see Sessions
  group,       \* the server's idea of each player's group
  host         \* group_hosts

requestVars == <<wanted, joining, joined, connected, lost, peers>>
ctlVars == <<active, stopCtl, link, logins, loggedIn>>
gameVars == <<events, dialog>>
netVars == <<up, down>>
serverVars == <<session, group, host>>
vars == <<requestVars, ctlVars, gameVars, netVars, serverVars>>

Sessions == {"none", "accepted", "in", "closed"}
Mac(p) == IF p \in Conns THEN Self ELSE p
Macs == {Self} \cup Others

Init ==
  /\ active = FALSE /\ stopCtl = FALSE /\ link = 0 /\ logins = 0 /\ loggedIn = FALSE
  /\ wanted = NoGroup /\ joining = FALSE /\ joined = FALSE
  /\ connected = FALSE /\ lost = FALSE /\ peers = {}
  /\ events = << >> /\ dialog = FALSE
  /\ up = [k \in Conns |-> << >>] /\ down = << >>
  /\ session = [k \in Conns |-> "none"]
  /\ group = [p \in Players |-> NoGroup]
  /\ host = [g \in Groups |-> {}]

-----------------------------------------------------------------------------
(* Messages. *)
Login == [op |-> "login"]
Connect(g) == [op |-> "connect", group |-> g]
Disconnect == [op |-> "disconnect"]
PeerJoined(p) == [op |-> "peer joined", player |-> p]
PeerLeft(p) == [op |-> "peer left", player |-> p]
Confirmed(h) == [op |-> "joined", host |-> h]

(* send_ctl while logged in.  What is sent on a connection the server has   *)
(* closed is never read and not kept.                                       *)
Sends(msgs) ==
  up' = IF loggedIn /\ link # 0 /\ session[link] # "closed"
        THEN [up EXCEPT ![link] = @ \o msgs]
        ELSE up
If(c, msgs) == IF c THEN msgs ELSE << >>
Room ==
  /\ link # 0 => Len(up[link]) + 2 <= MaxUp
  /\ Len(events) < MaxEvents

(* Mutant: leaving a group does not forget that the server confirmed it. *)
ResetButJoined ==
  joining' = FALSE /\ lost' = FALSE /\ connected' = FALSE /\ joined' = joined /\ peers' = {}

(* What leaving a group or losing one resets, clear_group_state included. *)
Reset == joining' = FALSE /\ lost' = FALSE /\ connected' = FALSE /\ joined' = FALSE /\ peers' = {}

(* lose_group_for_good *)
LoseForGood ==
  /\ wanted' = NoGroup
  /\ Reset
  /\ events' = events \o If(connected, <<"Disconnected">>)

-----------------------------------------------------------------------------
(* The client's network thread. *)

(* Mutant: logged in again, the client stops timing the group it lost. *)
LogInForgetsLoss ==
  /\ active /\ ~stopCtl /\ link = 0 /\ logins < MaxLogins
  /\ logins' = logins + 1 /\ link' = logins + 1 /\ loggedIn' = TRUE /\ lost' = FALSE
  /\ up' = [up EXCEPT ![logins + 1] = <<Login>> \o If(wanted # NoGroup, <<Connect(wanted)>>)]
  /\ session' = [session EXCEPT ![logins + 1] = "accepted"]
  /\ UNCHANGED <<joined, peers, active, stopCtl, wanted, joining, connected, gameVars, down, group, host>>

(* maintain_ctl connects, the connection opens, it logs in (on_logged_in)   *)
(* and asks for the wanted group again.  An attempt that fails only delays  *)
(* the next one.                                                            *)
LogIn ==
  /\ active /\ ~stopCtl /\ link = 0 /\ logins < MaxLogins
  /\ logins' = logins + 1 /\ link' = logins + 1 /\ loggedIn' = TRUE
  /\ up' = [up EXCEPT ![logins + 1] = <<Login>> \o If(wanted # NoGroup, <<Connect(wanted)>>)]
  /\ joined' = (joined /\ wanted = NoGroup)
  /\ peers' = IF wanted = NoGroup THEN peers ELSE {}
  /\ session' = [session EXCEPT ![logins + 1] = "accepted"]
  /\ UNCHANGED <<active, stopCtl, wanted, joining, connected, lost, gameVars, down, group, host>>

(* maintain_ctl closes the connection start() or stop() has given up. *)
CloseCtl ==
  /\ stopCtl
  /\ stopCtl' = FALSE /\ link' = 0 /\ down' = << >>
  /\ UNCHANGED <<active, logins, loggedIn, requestVars, gameVars, up, serverVars>>

(* Mutant: a lost connection also forgets that a join is being timed. *)
LoseCtlForgetsJoin ==
  /\ active /\ ~stopCtl /\ link # 0
  /\ link' = 0 /\ loggedIn' = FALSE /\ down' = << >>
  /\ lost' = (lost \/ joined \/ connected)
  /\ joined' = FALSE /\ joining' = FALSE
  /\ UNCHANGED <<active, stopCtl, logins, wanted, connected, peers, gameVars, up, serverVars>>

(* The connection breaks, or the player asks to reconnect (reconnect_now):  *)
(* on_ctl_lost.  The group is kept for a grace period.                      *)
LoseCtl ==
  /\ active /\ ~stopCtl /\ link # 0
  /\ link' = 0 /\ loggedIn' = FALSE /\ down' = << >>
  /\ lost' = (lost \/ joined \/ connected)
  /\ joined' = FALSE
  /\ UNCHANGED <<active, stopCtl, logins, wanted, joining, connected, peers, gameVars, up, serverVars>>

(* The server has not confirmed a join in time. *)
JoinTimesOut ==
  /\ active /\ ~stopCtl /\ joining /\ ~connected /\ Len(events) < MaxEvents
  /\ events' = Append(events, "Error")
  /\ Sends(If(wanted # NoGroup, <<Disconnect>>))
  /\ wanted' = NoGroup /\ joining' = FALSE /\ joined' = FALSE /\ peers' = {}
  /\ UNCHANGED <<connected, lost, ctlVars, dialog, down, serverVars>>

(* The group is not regained in time. *)
GraceEnds ==
  /\ active /\ ~stopCtl /\ lost /\ Len(events) < MaxEvents
  /\ LoseForGood
  /\ UNCHANGED <<ctlVars, dialog, netVars, serverVars>>

(* The peer entries after a notice: a player who comes back replaces the    *)
(* entry of the same address.                                               *)
Noted(entries, m) ==
  CASE m.op = "peer joined" /\ Mac(m.player) # Self ->
         {p \in entries : Mac(p) # Mac(m.player)} \cup {m.player}
    [] m.op = "peer left" -> entries \ {m.player}
    [] OTHER -> entries

HearJoined(m) ==
  /\ m.op = "joined" /\ wanted # NoGroup
  /\ joined' = TRUE /\ joining' = FALSE /\ lost' = FALSE /\ connected' = TRUE
  /\ events' = events \o If(~connected, <<"Connected">>)
  /\ UNCHANGED <<wanted, peers>>

HearOther(m) ==
  /\ m.op = "joined" => wanted = NoGroup
  /\ peers' = Noted(peers, m)
  /\ UNCHANGED <<wanted, joining, joined, connected, lost, events>>

(* handle_ctl_packet *)
Hear ==
  /\ link # 0 /\ down # << >> /\ Len(events) < MaxEvents
  /\ HearJoined(Head(down)) \/ HearOther(Head(down))
  /\ down' = Tail(down)
  /\ UNCHANGED <<ctlVars, dialog, up, serverVars>>

-----------------------------------------------------------------------------
(* The game's calls and the player's, each under the client's mutex. *)

(* Client::start with a new identity: sceNetAdhocctlInit, or the menu       *)
(* changes the server.                                                      *)
Start ==
  /\ Room
  /\ active' = TRUE /\ stopCtl' = TRUE /\ loggedIn' = FALSE
  /\ LoseForGood
  /\ UNCHANGED <<link, logins, dialog, netVars, serverVars>>

(* Client::stop: sceNetAdhocctlTerm. *)
Stop ==
  /\ active
  /\ active' = FALSE /\ stopCtl' = TRUE /\ loggedIn' = FALSE
  /\ wanted' = NoGroup /\ Reset /\ events' = << >>
  /\ UNCHANGED <<link, logins, dialog, netVars, serverVars>>

(* Client::join of a group the game is not in *)
Request(g) ==
  /\ wanted' = g /\ joining' = TRUE /\ lost' = FALSE
  /\ connected' = FALSE /\ joined' = FALSE /\ peers' = {}

(* sceUtilityNetconfInitStart starts the client, which restarts it when its *)
(* identity has changed, discards the events and joins.                     *)
NetconfInitStart(g) ==
  /\ ~dialog /\ Room
  /\ dialog' = TRUE
  /\ \/ /\ active /\ connected /\ wanted = g
        /\ events' = <<"Connected">>
        /\ UNCHANGED <<requestVars, ctlVars, up>>
     \/ /\ active /\ ~(connected /\ wanted = g)
        /\ Sends(If(connected, <<Disconnect>>) \o <<Connect(g)>>)
        /\ Request(g) /\ events' = << >>
        /\ UNCHANGED ctlVars
     \/ /\ active' = TRUE /\ stopCtl' = TRUE /\ loggedIn' = FALSE
        /\ Request(g) /\ events' = << >>
        /\ UNCHANGED <<link, logins, up>>
  /\ UNCHANGED <<down, serverVars>>

(* Client::leave, by sceNetAdhocctlDisconnect, which then pumps the events, *)
(* or by sceUtilityNetconfShutdownStart, which cancels a join.              *)
Leave(cancels) ==
  /\ Room
  /\ cancels => dialog
  /\ Sends(If(wanted # NoGroup, <<Disconnect>>))
  /\ wanted' = NoGroup /\ Reset
  /\ IF cancels THEN UNCHANGED events ELSE events' = << >>
  /\ dialog' = (dialog /\ ~cancels /\ ~(\E i \in DOMAIN events : events[i] # "Disconnected"))
  /\ UNCHANGED <<ctlVars, down, serverVars>>

(* The player disconnects in the network menu. *)
DisconnectNow ==
  /\ Room /\ (connected \/ wanted # NoGroup)
  /\ Sends(<<Disconnect>>)
  /\ LoseForGood
  /\ UNCHANGED <<ctlVars, dialog, down, serverVars>>

(* pump_events: handlers are called and the dialog ends. *)
PumpEvents ==
  /\ events # << >>
  /\ events' = << >>
  /\ dialog' = (dialog /\ ~(\E i \in DOMAIN events : events[i] # "Disconnected"))
  /\ UNCHANGED <<requestVars, ctlVars, netVars, serverVars>>

-----------------------------------------------------------------------------
(* The server.  Its handlers change the groups, their hosts and the queue   *)
(* towards our client: s is a record of these.  What is sent on connections *)
(* the client has dropped is never read and not kept.  A queue that grows   *)
(* past the limit, which drops its player, is not modelled.                 *)
Now == [group |-> group, host |-> host, down |-> down]
Become(s) == group' = s.group /\ host' = s.host /\ down' = s.down

Members(s, g, except) == {p \in Players \ {except} : s.group[p] = g}
Tell(s, players, m) ==
  [s EXCEPT !.down = @ \o If(link \in players, <<m>>)]

(* leave_group *)
Left(s, p) ==
  LET g == s.group[p]
      rest == Members(s, g, p)
  IN IF g = NoGroup THEN s
     ELSE Tell([s EXCEPT !.group[p] = NoGroup, !.host[g] = IF rest = {} THEN {} ELSE @],
               rest, PeerLeft(p))

(* join_group; a group's host is the one who made it. *)
Joined(s, p, g) ==
  LET t == Left(s, p)
      rest == Members(t, g, p)
      h == IF t.host[g] = {} THEN {Mac(p)} ELSE t.host[g]
      notices == SetToSeq({PeerJoined(m) : m \in rest}) \o <<Confirmed(h)>>
  IN [Tell(t, rest, PeerJoined(p)) EXCEPT !.group[p] = g, !.host[g] = h,
                                          !.down = @ \o If(p = link, notices)]

(* The logins of the same address that are still there. *)
Older(k) == {o \in Conns \ {k} : session[o] = "in"}

(* Mutant: a second login leaves the first alone. *)
LoginBeside(k) ==
  /\ Head(up[k]) = Login
  /\ session' = [session EXCEPT ![k] = "in"]
  /\ UNCHANGED <<group, host, down>>

(* login: the same address again is the same player, whose older connection *)
(* is closed.                                                               *)
HandleLogin(k) ==
  /\ Head(up[k]) = Login
  /\ session' = [o \in Conns |-> CASE o = k -> "in" [] o \in Older(k) -> "closed" [] OTHER -> session[o]]
  /\ Become(FoldSet(LAMBDA o, s : Left(s, o), Now, Older(k)))

HandleRequest(k) ==
  /\ \/ Head(up[k]).op = "connect" /\ Become(Joined(Now, k, Head(up[k]).group))
     \/ Head(up[k]).op = "disconnect" /\ Become(Left(Now, k))
  /\ UNCHANGED session

(* handle_adhocctl, one packet of one of our connections *)
Serve(k) ==
  /\ session[k] \in {"accepted", "in"} /\ up[k] # << >> /\ Len(down) < MaxDown
  /\ HandleLogin(k) \/ HandleRequest(k)
  /\ up' = [o \in Conns |-> IF o = k THEN Tail(up[k]) ELSE If(session'[o] # "closed", up[o])]
  /\ UNCHANGED <<requestVars, ctlVars, gameVars>>

Closed(k) ==
  /\ session[k] \in {"accepted", "in"}
  /\ session' = [session EXCEPT ![k] = "closed"]
  /\ up' = [up EXCEPT ![k] = << >>]

(* The server finds the connection closed or silent: expire, remove_closed. *)
ServerDrops(k) ==
  /\ Closed(k)
  /\ Become(Left(Now, k))
  /\ UNCHANGED <<requestVars, ctlVars, gameVars>>

(* Connection::write fails: the player is erased, not dropped. *)
Erased(s, p) == [s EXCEPT !.group[p] = NoGroup]

WriteFails(k) ==
  /\ Closed(k)
  /\ Become(Erased(Now, k))
  /\ UNCHANGED <<requestVars, ctlVars, gameVars>>

(* Another player joins, leaves or is dropped, or is erased. *)
OtherActs(p) ==
  /\ Len(down) < MaxDown
  /\ \/ \E g \in Groups : Become(Joined(Now, p, g))
     \/ Become(Left(Now, p))
     \/ Become(Erased(Now, p))
  /\ UNCHANGED <<requestVars, ctlVars, gameVars, up, session>>

-----------------------------------------------------------------------------
NetworkThread == LogIn \/ CloseCtl \/ LoseCtl \/ JoinTimesOut \/ GraceEnds \/ Hear
GameCalls ==
  \/ DisconnectNow \/ Start \/ Stop \/ PumpEvents
  \/ \E g \in Groups : NetconfInitStart(g)
  \/ \E cancels \in BOOLEAN : Leave(cancels)
Server ==
  \/ \E k \in Conns : Serve(k) \/ ServerDrops(k) \/ WriteFails(k)
  \/ \E p \in Others : OtherActs(p)
Next == NetworkThread \/ GameCalls \/ Server

(* The network thread loops, time passes for its timeouts, the game's       *)
(* vblank hook pumps events.  Nothing is promised of the network.           *)
Spec ==
  /\ Init /\ [][Next]_vars
  /\ WF_vars(CloseCtl) /\ WF_vars(JoinTimesOut) /\ WF_vars(GraceEnds) /\ WF_vars(Hear)
  /\ WF_vars(PumpEvents)

-----------------------------------------------------------------------------
TypeOK ==
  /\ {active, stopCtl, loggedIn, joining, joined, connected, lost, dialog} \subseteq BOOLEAN
  /\ link \in 0..logins /\ logins \in 0..MaxLogins
  /\ wanted \in Groups \cup {NoGroup}
  /\ peers \subseteq Others
  /\ Len(events) <= MaxEvents
  /\ session \in [Conns -> Sessions]
  /\ group \in [Players -> Groups \cup {NoGroup}]
  /\ host \in [Groups -> SUBSET Macs]

(* A group somebody is in has one host and is listed by a scan, however its *)
(* members came, left and came back.                                        *)
MembersAreListed ==
  \A g \in Groups : Members(Now, g, 0) # {} => \E m \in Macs : host[g] = {m}

(* server.hpp: "Leaving, or losing the connection, tells the others."       *)
LossIsTold ==
  [][\A p \in Others :
       LET g == group[p] IN
       g # NoGroup /\ group'[p] # g /\ link # 0 /\ group[link] = g /\ UNCHANGED group[link]
         => PeerLeft(p) \in Range(down')]_vars

(* However often the client reconnects, the server has it once. *)
OneLoginPerMac ==
  \A j, k \in Conns : session[j] = "in" /\ session[k] = "in" => j = k

(* What our peers will be when the notices under way have arrived: those    *)
(* here or announced whom no later notice takes away.                       *)
GoneAfter(i, p) == \E j \in DOMAIN down : j > i /\ down[j] = PeerLeft(p)
PeersToBe ==
  {p \in Others :
     \/ p \in peers /\ ~GoneAfter(0, p)
     \/ \E i \in DOMAIN down : down[i] = PeerJoined(p) /\ ~GoneAfter(i, p)}
Settled == loggedIn /\ link # 0 /\ session[link] = "in" /\ up[link] = << >>

(* Once our requests have been served, the server has us in the group we    *)
(* want, and every other member of it is on our list of peers or announced  *)
(* to us; we take a group for joined only while we want one; the groups of  *)
(* all members are listed.                                                  *)
MembershipAgrees ==
  /\ TypeOK /\ MembersAreListed
  /\ Settled /\ wanted # NoGroup =>
       group[link] = wanted /\ Members(Now, wanted, link) \subseteq PeersToBe
  /\ joined => wanted # NoGroup

(* A join does not hang in the client, whatever happens to the connection.  *)
JoinIsSettled == (wanted # NoGroup /\ ~connected) ~> (wanted = NoGroup \/ connected)

(* A group lost with its connection is regained, or the game hears that it  *)
(* is gone, however often the client logs in meanwhile.                     *)
LossIsSettled == (connected /\ lost) ~> (joined \/ ~connected)
=============================================================================
