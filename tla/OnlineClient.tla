--------------------------- MODULE OnlineClient ---------------------------
(***************************************************************************)
(* One console and its game connection: the send queue, onlineConnect ..   *)
(* onlineDisconnect, parseOnlineLine and onlineUpdate of                   *)
(* gpsp-runtime/source/main.cpp, the WebSocket bridge of                   *)
(* web/install-server.mjs, and what server/src/server.mjs does with the    *)
(* lines of the connection.                                                *)
(*                                                                         *)
(* The console is one thread: after each frame it runs onlineUpdate, which *)
(* drains, connects, sends and receives in that order ("pc").  A buffer    *)
(* holds bytes in the code and whole lines here.  Of a connection the      *)
(* console has dropped only the entry in connectionsByIp is kept: what the *)
(* server does with it is the subject of PresenceSessions and LinkRooms.   *)
(***************************************************************************)
EXTENDS Integers, Sequences, Functions

CONSTANTS
  Place,          \* positions of the trainer; a state line is its position
  NoPlace,        \* presence.valid is false
  OutMax,         \* OUTGOING_BUFFER_SIZE, in lines
  PendMax,        \* the 8192 bytes the bridge keeps pending, in lines
  PerIp,          \* MAX_CONNECTIONS_PER_IP of the bridge
  LinkConfigured, \* online.cfg names a link room
  Faults          \* bound: what owner, network, server and partner may do

Request == {"hello", "locations", "lists", "ask", "warp", "join", "leave", "packet"}

ASSUME LineAssumption == NoPlace \notin Place /\ Place \cap Request = {}
ASSUME BufferAssumption ==
  /\ OutMax \in Nat \ {0} /\ PendMax \in Nat \ {0}
  /\ PerIp \in Nat \ {0} /\ Faults \in Nat
  /\ LinkConfigured \in BOOLEAN

VARIABLES
  me,        \* the fields of the client, see Client
  enabled,   \* onlineEnabled
  presence,  \* what readPresence last found
  known,     \* teleportDestinationCount > 0
  pc,        \* what the main loop does next; "crashed": the process died
  held,      \* lines in a TLS record the socket has not taken yet
  spoiled,   \* raw bytes went out ahead of the TLS handshake
  socket,    \* lines written to the socket, not yet read by the bridge
  bridge,    \* the bridge's upstream: "none", "pending", "open"
  upstream,  \* lines the bridge keeps or has passed on, not yet read
  srv,       \* the server's end: "none", "new", "in", "ended"
  seat,      \* its link seat: "none", "waiting", "host", "guest"
  at,        \* its client.state
  inbox,     \* lines on their way to the client
  over,      \* nothing will follow the inbox
  linger,    \* dropped connections that connectionsByIp still counts
  lost,      \* history: a line of this connection left the buffer unsent
  faults     \* what is left of Faults

clientVars == <<me, enabled, presence, known, pc, held, spoiled, socket, bridge,
                upstream, srv, seat, at, inbox, over, linger, lost, faults>>
server == <<bridge, upstream, srv, seat, at, over>>
link   == <<held, spoiled, socket, lost, linger>>
owner  == <<enabled, presence, known>>

Line == Place \cup Request
Incoming == {"welcome", "locations", "answer", "waiting", "started", "peer_gone",
           "ended", "left", "link_error"}

Client == [mode    : {"offline", "connecting", "active"},
           out     : Seq(Line),             \* outgoingBuffer
           auth    : BOOLEAN,               \* onlineAuthenticated
           joined  : BOOLEAN,               \* linkJoined
           started : BOOLEAN,               \* linkStarted
           sent    : Place \cup {NoPlace},  \* lastSentPresence
           resting : BOOLEAN]               \* nextReconnect is still ahead

ClientTypeOK ==
  /\ me \in Client /\ Len(me.out) <= OutMax
  /\ enabled \in BOOLEAN /\ known \in BOOLEAN /\ presence \in Place \cup {NoPlace}
  /\ pc \in {"frame", "connect", "send", "receive", "crashed"}
  /\ held \in 0..OutMax /\ spoiled \in BOOLEAN /\ lost \in BOOLEAN
  /\ socket \in Seq(Line) /\ upstream \in Seq(Line) /\ inbox \in Seq(Incoming)
  /\ bridge \in {"none", "pending", "open"} /\ over \in BOOLEAN
  /\ srv \in {"none", "new", "in", "ended"}
  /\ seat \in {"none", "waiting", "host", "guest"} /\ at \in Place \cup {NoPlace}
  /\ linger \in Nat /\ faults \in 0..Faults

Idle == [mode |-> "offline", out |-> <<>>, auth |-> FALSE, joined |-> FALSE,
         started |-> FALSE, sent |-> NoPlace, resting |-> FALSE]

ClientInit ==
  /\ me = Idle /\ enabled = TRUE /\ presence = NoPlace /\ known = FALSE
  /\ pc = "frame" /\ held = 0 /\ spoiled = FALSE /\ lost = FALSE
  /\ socket = <<>> /\ upstream = <<>> /\ inbox = <<>>
  /\ bridge = "none" /\ over = FALSE
  /\ srv = "none" /\ seat = "none" /\ at = NoPlace
  /\ linger = 0 /\ faults = Faults

Fault == faults > 0 /\ faults' = faults - 1
-----------------------------------------------------------------------------
(* What the handlers of the client call.                                   *)

\* (bug: lastSentPresence survives the disconnect)
Disconnect_PresenceKept(m, on) == [Idle EXCEPT !.resting = on \/ m.resting, !.sent = m.sent]

\* onlineDisconnect: only with onlineEnabled does it arm the timer.
Disconnect(m, on) == [Idle EXCEPT !.resting = on \/ m.resting]

\* onlineSend: a full buffer is onlineFail, whatever handler is running.
Send(m, line) ==
  IF Len(m.out) < OutMax THEN [m EXCEPT !.out = Append(@, line)]
  ELSE Disconnect(m, enabled)

\* The bridge counts a dropped socket until its 'close' handler has run.
Forget ==
  /\ held' = 0 /\ spoiled' = FALSE /\ lost' = FALSE
  /\ socket' = <<>> /\ upstream' = <<>> /\ inbox' = <<>>
  /\ bridge' = "none" /\ over' = FALSE
  /\ srv' = "none" /\ seat' = "none" /\ at' = NoPlace
  /\ linger' = IF bridge = "none" THEN linger ELSE linger + 1

\* The handler leaves the client with the fields m.
Becomes(m) ==
  /\ me' = m
  /\ IF me.mode # "offline" /\ m.mode = "offline" THEN Forget
     ELSE UNCHANGED <<server, link, inbox>>
-----------------------------------------------------------------------------
(* The owner and the game, between two updates.                            *)

Move(p) ==
  /\ pc = "frame" /\ p # presence /\ Fault
  /\ presence' = p
  /\ UNCHANGED <<me, enabled, known, pc, server, link, inbox>>

\* The warp button of the teleport page looks at the list, which outlives
\* the connection it came from, and not at onlineMode.
Warp ==
  /\ pc = "frame" /\ known /\ Fault
  /\ Becomes(Send(me, "warp"))
  /\ UNCHANGED <<owner, pc>>

\* Chat, emotes, pings, page requests and uploads.
Ask ==
  /\ pc = "frame" /\ me.mode = "active" /\ Fault
  /\ Becomes(Send(me, "ask"))
  /\ UNCHANGED <<owner, pc>>

\* frontendNetpacketSend
CorePacket ==
  /\ pc = "frame" /\ me.started /\ Fault
  /\ Becomes(Send(me, "packet"))
  /\ UNCHANGED <<owner, pc>>

\* onlineToggle: onlineConnect leaves a socket that is connecting.
Toggle ==
  /\ pc = "frame" /\ Fault
  /\ enabled' = ~enabled
  /\ Becomes(IF enabled THEN Disconnect(me, FALSE)
             ELSE IF me.mode = "offline"
                  THEN [me EXCEPT !.mode = "connecting", !.resting = FALSE]
                  ELSE me)
  /\ UNCHANGED <<presence, known, pc>>

\* systemAsleep, and updateTrainerNameFromSave which also clears the timer.
Interrupt ==
  /\ pc = "frame" /\ me.mode # "offline" /\ Fault
  /\ \E m \in {Disconnect(me, enabled), Idle} : Becomes(m)
  /\ UNCHANGED <<owner, pc>>

TimerPasses ==
  /\ me.resting
  /\ me' = [me EXCEPT !.resting = FALSE]
  /\ UNCHANGED <<owner, pc, server, link, inbox, faults>>

Restart ==
  /\ pc = "crashed" /\ pc' = "frame"
  /\ me' = Idle /\ enabled' = TRUE /\ presence' = NoPlace /\ known' = FALSE
  /\ UNCHANGED <<server, link, inbox, faults>>
-----------------------------------------------------------------------------
(* onlineUpdate: drainOutgoingBuffer.                                      *)

\* mbedtls_ssl_write wants the same arguments again after WANT_WRITE: the
\* next call flushes the record it holds and returns the length asked for
\* then, and drainOutgoingBuffer asks for all that is in the buffer by then.
DrainSecure ==
  \/ /\ me.out # <<>> /\ Fault
     /\ held' = IF held = 0 THEN Len(me.out) ELSE held
     /\ UNCHANGED <<me, socket, lost>>
  \/ /\ LET taken == IF held = 0 THEN Len(me.out) ELSE held
        IN  /\ socket' = socket \o SubSeq(me.out, 1, taken)
            /\ lost' = (lost \/ taken < Len(me.out))
     /\ me' = [me EXCEPT !.out = <<>>]
     /\ held' = 0
     /\ UNCHANGED faults

\* Until the handshake is done the same loop calls send() on the socket.
DrainRaw ==
  \E n \in 0..Len(me.out) :
    /\ me' = [me EXCEPT !.out = SubSeq(@, n + 1, Len(@))]
    /\ spoiled' = (spoiled \/ n > 0)
    /\ UNCHANGED faults

Drain ==
  /\ pc = "frame" /\ pc' = "connect"
  /\ \/ /\ me.mode = "offline"
        /\ UNCHANGED <<me, link, faults>>
     \/ /\ me.mode = "connecting" /\ DrainRaw
        /\ UNCHANGED <<held, socket, lost, linger>>
     \/ /\ me.mode = "active" /\ DrainSecure
        /\ UNCHANGED <<spoiled, linger>>
  /\ UNCHANGED <<owner, server, inbox>>
-----------------------------------------------------------------------------
(* onlineUpdate: onlineConnect and the poll of a connecting socket.        *)

Open ==
  /\ pc = "connect" /\ me.mode = "offline" /\ enabled /\ ~me.resting
  /\ \/ me' = [me EXCEPT !.mode = "connecting"] /\ UNCHANGED faults
     \/ Fault /\ me' = Disconnect(me, enabled)
  /\ UNCHANGED <<owner, pc, server, link, inbox>>

\* onlineConnected: the handshake, the upgrade and the hello.  The upgrade
\* is refused when connectionsByIp has reached its limit.
Connected ==
  /\ pc = "connect" /\ me.mode = "connecting"
  /\ ~spoiled /\ linger < PerIp
  /\ me' = Send([me EXCEPT !.mode = "active"], "hello")
  /\ IF me'.mode = "active"
     THEN pc' = "send" /\ bridge' = "pending" /\ UNCHANGED linger
     ELSE pc' = "frame" /\ linger' = linger + 1 /\ UNCHANGED bridge
  /\ UNCHANGED <<owner, held, spoiled, socket, upstream, srv, seat, at, inbox,
                 over, lost, faults>>

ConnectFails ==
  /\ pc = "connect" /\ me.mode = "connecting" /\ pc' = "frame"
  /\ \/ (spoiled \/ linger >= PerIp) /\ UNCHANGED faults
     \/ Fault
  /\ Becomes(Disconnect(me, enabled))
  /\ UNCHANGED owner

\* Not due, not enabled, or the peer has not answered yet.
ConnectLater ==
  /\ pc = "connect"
  /\ \/ me.mode = "active" /\ pc' = "send" /\ UNCHANGED faults
     \/ /\ me.mode = "offline" /\ (~enabled \/ me.resting)
        /\ pc' = "frame" /\ UNCHANGED faults
     \/ me.mode = "connecting" /\ pc' = "frame" /\ Fault
  /\ UNCHANGED <<me, owner, server, link, inbox>>
-----------------------------------------------------------------------------
(* onlineUpdate: the state line.                                           *)

SendState ==
  /\ pc = "send"
  /\ LET due == presence # NoPlace /\ me.sent # presence
         n   == IF due THEN Send(me, presence) ELSE me
     IN  /\ Becomes(IF due /\ n.mode = "active"
                    THEN [n EXCEPT !.sent = presence] ELSE n)
         /\ pc' = IF n.mode = "active" THEN "receive" ELSE "frame"
  /\ UNCHANGED <<owner, faults>>
-----------------------------------------------------------------------------
(* onlineUpdate: receiveOnlineTraffic, processWebSocketFrames,             *)
(* consumeProtocolPayload and parseOnlineLine, one line at a time.  gpSP   *)
(* also receives while it waits for its peer (frontendNetpacketPollReceive).*)

\* A handler queues its lines and leaves the client as m.  When the buffer
\* is full onlineSend disconnects under the parser, which then subtracts the
\* line from a receiveLength of 0 and moves that many bytes.
Reply(lines, m) ==
  IF Len(me.out) + Len(lines) <= OutMax
  THEN /\ me' = [m EXCEPT !.out = @ \o lines]
       /\ inbox' = Tail(inbox) /\ UNCHANGED <<server, link, pc>>
  ELSE /\ pc' = "crashed" /\ me' = Idle /\ Forget

\* syncStatsAfterAuthentication
SyncLines == <<"locations", "lists">> \o (IF LinkConfigured THEN <<"join">> ELSE <<>>)

\* link_started: the save is backed up and the core accepts, or the client
\* leaves.
LinkStarts ==
  \/ Reply(<<>>, [me EXCEPT !.started = TRUE])
  \/ Reply(<<"leave">>, [me EXCEPT !.joined = FALSE])

\* (bug: link_ended and link_left clear linkJoined and leave the core linked)
Parse_CoreKeepsLink(line) ==
  CASE line = "welcome" -> Reply(SyncLines, [me EXCEPT !.auth = TRUE,
                                                       !.joined = LinkConfigured])
    [] line = "started" -> LinkStarts
    [] line \in {"waiting", "peer_gone"} -> Reply(<<>>, [me EXCEPT !.started = FALSE])
    [] line \in {"ended", "left", "link_error"} -> Reply(<<>>, [me EXCEPT !.joined = FALSE])
    [] OTHER -> Reply(<<>>, me)

Parse(line) ==
  CASE line = "welcome" -> Reply(SyncLines, [me EXCEPT !.auth = TRUE,
                                                       !.joined = LinkConfigured])
    [] line = "started" -> LinkStarts
    [] line \in {"waiting", "peer_gone"} -> Reply(<<>>, [me EXCEPT !.started = FALSE])
    [] line \in {"ended", "left", "link_error"} ->
         Reply(<<>>, [me EXCEPT !.started = FALSE, !.joined = FALSE])
    [] OTHER -> Reply(<<>>, me)

ReceiveLine ==
  /\ pc = "receive" \/ (pc = "frame" /\ me.started)
  /\ inbox # <<>>
  /\ Parse(Head(inbox))
  /\ known' = (known \/ Head(inbox) = "locations")
  /\ UNCHANGED <<enabled, presence, faults>>

\* The socket has nothing to read, or the connection is found closed.
ReceiveEnds ==
  /\ pc = "receive" /\ pc' = "frame"
  /\ Becomes(IF over /\ inbox = <<>> THEN Disconnect(me, enabled) ELSE me)
  /\ UNCHANGED <<owner, faults>>
-----------------------------------------------------------------------------
(* The bridge.                                                             *)

UpstreamOpens ==
  /\ bridge = "pending" /\ ~over
  /\ bridge' = "open" /\ srv' = "new"
  /\ UNCHANGED <<me, owner, pc, link, upstream, seat, at, inbox, over, faults>>

\* ws.on('message'): kept until the upstream connects, and 1009 beyond that.
BridgeTakes ==
  /\ bridge # "none" /\ ~over /\ socket # <<>>
  /\ socket' = Tail(socket)
  /\ IF bridge = "open" \/ Len(upstream) < PendMax
     THEN upstream' = Append(upstream, Head(socket)) /\ UNCHANGED over
     ELSE over' = TRUE /\ UNCHANGED upstream
  /\ UNCHANGED <<me, owner, pc, held, spoiled, lost, linger, bridge, srv, seat, at,
                 inbox, faults>>

\* (bug: release() is reached only while the server keeps the connection)
Released_OnlyWhileOpen ==
  /\ linger > 0 /\ srv = "in"
  /\ linger' = linger - 1
  /\ UNCHANGED <<me, owner, pc, held, spoiled, socket, lost, server, inbox, faults>>

\* ws.on('close'): release() runs once for each connection.
Released ==
  /\ linger > 0
  /\ linger' = linger - 1
  /\ UNCHANGED <<me, owner, pc, held, spoiled, socket, lost, server, inbox, faults>>
-----------------------------------------------------------------------------
(* The presence server.                                                    *)

Say(notices) == inbox' = inbox \o notices

\* The first line has to authenticate; fail() ends the connection.
FirstLine(line) ==
  /\ srv = "new"
  /\ IF line = "hello" THEN srv' = "in" /\ Say(<<"welcome">>) /\ UNCHANGED over
     ELSE srv' = "ended" /\ Say(<<"answer">>) /\ over' = TRUE
  /\ UNCHANGED <<seat, at>>

LinkLine(line) ==
  \/ /\ line = "join" /\ seat = "none"
     /\ \/ seat' = "waiting" /\ Say(<<"waiting">>)
        \/ seat' = "guest" /\ Say(<<"started">>)
  \/ line = "join" /\ Say(<<"link_error">>) /\ UNCHANGED seat  \* no room, or seated
  \/ line = "leave" /\ Say(<<"left">>) /\ seat' = "none"
  \/ /\ line = "packet"
     /\ Say(IF seat \in {"host", "guest"} THEN <<>> ELSE <<"link_error">>)
     /\ UNCHANGED seat

LaterLine(line) ==
  /\ srv = "in"
  /\ \/ LinkLine(line) /\ UNCHANGED at
     \/ line \in Place /\ at' = line /\ Say(<<>>) /\ UNCHANGED seat
     \/ /\ line \in {"locations", "lists", "ask", "warp", "hello"}
        /\ Say(IF line = "locations" THEN <<"locations">> ELSE <<"answer">>)
        /\ UNCHANGED <<seat, at>>
  /\ UNCHANGED <<srv, over>>

ServerReads ==
  /\ bridge = "open" /\ ~over /\ upstream # <<>>
  /\ upstream' = Tail(upstream)
  /\ FirstLine(Head(upstream)) \/ LaterLine(Head(upstream))
  /\ UNCHANGED <<me, owner, pc, link, bridge, faults>>

PartnerJoins ==
  /\ seat = "waiting" /\ ~over /\ Fault
  /\ seat' = "host" /\ Say(<<"started">>)
  /\ UNCHANGED <<me, owner, pc, link, bridge, upstream, srv, at, over>>

PartnerLeaves ==
  /\ ~over /\ Fault
  /\ \/ seat = "host" /\ seat' = "waiting" /\ Say(<<"peer_gone", "waiting">>)
     \/ seat = "guest" /\ seat' = "none" /\ Say(<<"ended">>)
  /\ UNCHANGED <<me, owner, pc, link, bridge, upstream, srv, at, over>>

\* A refused login, a restart, an idle timeout, or the network is gone with
\* what it carried; upstream 'close' closes the WebSocket.
ConnectionEnds ==
  /\ bridge # "none" /\ ~over /\ Fault
  /\ over' = TRUE /\ srv' = "ended" /\ seat' = "none"
  /\ \E n \in 0..Len(inbox) : inbox' = SubSeq(inbox, 1, n)
  /\ UNCHANGED <<me, owner, pc, link, bridge, upstream, at>>
-----------------------------------------------------------------------------
Update == Drain \/ Open \/ Connected \/ ConnectFails \/ ConnectLater \/ SendState
            \/ ReceiveLine \/ ReceiveEnds

Owner == Warp \/ Ask \/ CorePacket \/ Toggle \/ Interrupt
            \/ \E p \in Place \cup {NoPlace} : Move(p)

Environment == UpstreamOpens \/ BridgeTakes \/ Released \/ ServerReads

ClientNext ==
  \/ Update \/ Owner \/ Environment
  \/ TimerPasses \/ Restart
  \/ PartnerJoins \/ PartnerLeaves \/ ConnectionEnds

\* The main loop runs every frame and reads until the socket is empty; the
\* bridge and the server are event loops.
Fairness ==
  /\ WF_clientVars(Drain) /\ WF_clientVars(Open \/ Connected \/ ConnectFails \/ ConnectLater)
  /\ WF_clientVars(SendState) /\ SF_clientVars(ReceiveLine) /\ WF_clientVars(ReceiveEnds)
  /\ WF_clientVars(UpstreamOpens) /\ WF_clientVars(BridgeTakes) /\ WF_clientVars(Released)
  /\ WF_clientVars(ServerReads) /\ WF_clientVars(TimerPasses) /\ WF_clientVars(Restart)

ClientSpec == ClientInit /\ [][ClientNext]_clientVars
FairClientSpec == ClientSpec /\ Fairness
-----------------------------------------------------------------------------
\* What the server has yet to read of this connection.
Queue == upstream \o socket \o me.out

\* v is the last element of the sequence s that is in S
LastIs(s, S, v) ==
  \E k \in DOMAIN s : s[k] = v /\ v \in S /\ \A j \in DOMAIN s : j > k => s[j] \notin S

\* lastSentPresence keeps a position from being sent twice: the last one the
\* server has, or is about to read on this connection, is that one, as long
\* as no write was refused with more queued behind it.
PositionIsCurrent ==
  me.sent # NoPlace /\ ~over /\ ~lost =>
    \/ LastIs(Queue, Place, me.sent)
    \/ at = me.sent /\ Range(Queue) \cap Place = {}

Refusal == {"ended", "left", "link_error"}
LinkNotice == {"waiting", "started", "peer_gone"} \cup Refusal
WillBeStarted == \/ LastIs(inbox, LinkNotice, "started")
                 \/ me.started /\ Range(inbox) \cap LinkNotice = {}
Paired == seat \in {"host", "guest"}

\* linkStarted and linkJoined of the client against the server's room: once
\* the notices on their way are read, the core runs a link session exactly
\* when the server pairs the connection, unless the client is leaving; and a
\* client that counts itself as joined has a seat, a join on its way or a
\* notice that will tell it otherwise.
LinkAgrees ==
  ~over =>
    /\ WillBeStarted => Paired
    /\ Paired => WillBeStarted \/ lost \/ "leave" \in Range(Queue)
    /\ me.joined => seat # "none" \/ lost \/ "join" \in Range(Queue) \/ Range(inbox) \cap Refusal # {}

\* Whatever the owner, the network and the server did, a client left enabled
\* is logged in again and shown where it stands: nothing it kept of a failed
\* connection, and no entry of the bridge, is in the way for ever.
Settles ==
  <>[](enabled => me.auth /\ (presence # NoPlace => at = presence \/ lost))
=============================================================================
