----------------------------- MODULE LinkRooms -----------------------------
(***************************************************************************)
(* The link rooms of the presence server (server/src/server.mjs): joinLink,*)
(* leaveLink and relayLinkPacket, under the connection life cycle that     *)
(* decides when they run.  Every line a socket delivers is appended to the *)
(* connection's promise chain (client.processing); handlers of one         *)
(* connection run one after another, those of different connections        *)
(* interleave wherever a handler awaits a store.  The chain belongs to the *)
(* client object, not to the socket: it goes on running after 'close'.     *)
(***************************************************************************)
EXTENDS Integers, Sequences, FiniteSets

CONSTANTS
  Conn,         \* connections, each accepted and closed once
  Room,         \* link room codes
  Core,         \* netpacket core names a join may advertise
  NoConn, NoRoom, NoCore,
  Requests,     \* the lines clients send, a subset of Message
  MaxQueue,     \* bound: messages waiting on one promise chain
  PacketLimit   \* 240 in the code: packets a sender may relay per window

ASSUME NullAssumption ==
  /\ NoConn \notin Conn
  /\ NoRoom \notin Room
  /\ NoCore \notin Core

ASSUME BoundAssumption == MaxQueue \in Nat /\ PacketLimit \in Nat

VARIABLES
  sock,             \* the socket: "new", "open", "ended" (socket.end() was
                    \*   called, the peer may still send), "destroyed", "closed"
  mode,             \* client.name / protocolVersion: "anon", "v1" or "v2"
  busy,             \* the handler in flight awaits: "idle", "hello", "store"
  queue,            \* lines on client.processing not yet handled
  linkRoom, linkClientId,        \* the fields of the client object
  linkRooms,        \* the Map: room code -> core and members
  windowOpen,       \* Date.now() - client.linkPacketsAt < 1000
  linkPacketCount,  \* packets counted in that window
  told,             \* the last link notice written to a socket still open
  wire,             \* link_packet lines written by the step just taken
  late              \* history: the chain was not empty at 'close'

vars == <<sock, mode, busy, queue, linkRoom, linkClientId, linkRooms,
          windowOpen, linkPacketCount, told, wire, late>>

Slot == {0, 1}
Broadcast == 65535
Target == Slot \cup {Broadcast}

JoinMsg   == [type : {"join"}, room : Room, core : Core]
PacketMsg == [type : {"packet"}, to : Target]
PlainMsg  == [type : {"hello", "legacy_hello", "leave", "store"}]
Message   == JoinMsg \cup PacketMsg \cup PlainMsg

ASSUME RequestAssumption == Requests \subseteq Message

Notice == [type : {"none", "waiting", "started", "ended", "left"}, id : {-1, 0, 1}]
NoNotice    == [type |-> "none", id |-> -1]
Waiting     == [type |-> "waiting", id |-> 0]
Started(i)  == [type |-> "started", id |-> i]
Ended       == [type |-> "ended", id |-> -1]
Left        == [type |-> "left", id |-> -1]

Vacant  == [i \in Slot |-> NoConn]
NoEntry == [core |-> NoCore, members |-> Vacant]

\* linkRooms.get(r) is undefined
Absent(r) == linkRooms[r].core = NoCore
\* room.members.size === 2
Full(members) == \A i \in Slot : members[i] # NoConn

TypeOK ==
  /\ sock \in [Conn -> {"new", "open", "ended", "destroyed", "closed"}]
  /\ mode \in [Conn -> {"anon", "v1", "v2"}]
  /\ busy \in [Conn -> {"idle", "hello", "store"}]
  /\ queue \in [Conn -> Seq(Requests)]
  /\ linkRoom \in [Conn -> Room \cup {NoRoom}]
  /\ linkClientId \in [Conn -> {-1, 0, 1}]
  /\ linkRooms \in [Room -> [core : Core \cup {NoCore},
                             members : [Slot -> Conn \cup {NoConn}]]]
  /\ windowOpen \in [Conn -> BOOLEAN]
  /\ linkPacketCount \in [Conn -> 0..(PacketLimit + 2)]
  /\ told \in [Conn -> Notice]
  /\ wire \in SUBSET (Slot \X Conn)
  /\ late \in [Conn -> BOOLEAN]

Init ==
  /\ sock = [c \in Conn |-> "new"]
  /\ mode = [c \in Conn |-> "anon"]
  /\ busy = [c \in Conn |-> "idle"]
  /\ queue = [c \in Conn |-> <<>>]
  /\ linkRoom = [c \in Conn |-> NoRoom]
  /\ linkClientId = [c \in Conn |-> -1]
  /\ linkRooms = [r \in Room |-> NoEntry]
  /\ windowOpen = [c \in Conn |-> FALSE]
  /\ linkPacketCount = [c \in Conn |-> 0]
  /\ told = [c \in Conn |-> NoNotice]
  /\ wire = {}
  /\ late = [c \in Conn |-> FALSE]

-----------------------------------------------------------------------------
(* Sockets.  Node destroys a socket that is written to after end().        *)

\* send() to every connection of S
Written(S) == [d \in Conn |-> IF d \in S /\ sock[d] = "ended" THEN "destroyed" ELSE sock[d]]

\* send() and then socket.end()
EndedAfterWrite(c) ==
  [sock EXCEPT ![c] = IF @ = "open" THEN "ended"
                      ELSE IF @ = "ended" THEN "destroyed" ELSE @]

\* A notice reaches the peer only while our side of the socket is open.
Heard(c, notice) == IF sock[c] = "open" THEN notice ELSE told[c]

ConnVars == <<sock, mode, busy, queue, late>>
RoomVars == <<linkRoom, linkClientId, linkRooms>>
RateVars == <<windowOpen, linkPacketCount>>

\* The server accepts the connection (the caps are in PresenceSessions).
Accept(c) ==
  /\ sock[c] = "new"
  /\ sock' = [sock EXCEPT ![c] = "open"]
  /\ wire' = {}
  /\ UNCHANGED <<mode, busy, queue, late, RoomVars, RateVars, told>>

\* A line arrives and is put on the promise chain; a half-closed socket
\* still delivers data.
Receive(c, m) ==
  /\ sock[c] \in {"open", "ended"}
  /\ Len(queue[c]) < MaxQueue
  /\ queue' = [queue EXCEPT ![c] = Append(@, m)]
  /\ wire' = {}
  /\ UNCHANGED <<sock, mode, busy, late, RoomVars, RateVars, told>>

\* fail() or socket.end() by something other than c's own handlers: another
\* connection of the same credential, hello_timeout, a line that does not
\* parse, shutdown.
End(c) ==
  /\ sock[c] \in {"open", "ended"}
  /\ sock' = EndedAfterWrite(c)
  /\ wire' = {}
  /\ UNCHANGED <<mode, busy, queue, late, RoomVars, RateVars, told>>

-----------------------------------------------------------------------------
(* leaveLink(client, reason).                                              *)

\* mutant: the room outlives its host while a guest is in it
RoomOutlivesHost(c, r) ==
  LET members == [linkRooms[r].members EXCEPT ![linkClientId[c]] = NoConn]
  IN  IF members = Vacant THEN NoEntry ELSE [linkRooms[r] EXCEPT !.members = members]

\* room.members.delete(leavingId), or linkRooms.delete when the host goes
RoomAfterLeave(c, r) ==
  LET members == [linkRooms[r].members EXCEPT ![linkClientId[c]] = NoConn]
  IN  IF linkClientId[c] = 0 \/ members[0] = NoConn
      THEN NoEntry
      ELSE [linkRooms[r] EXCEPT !.members = members]

\* those who are still in c's room when c leaves it
Remaining(c) ==
  IF linkRoom[c] = NoRoom THEN {}
  ELSE {linkRooms[linkRoom[c]].members[i] : i \in Slot \ {linkClientId[c]}} \ {NoConn}

\* mutant: they keep them
NoOrphans(c) == {}

\* peers lose their fields when the host leaves
Orphans(c) == IF linkClientId[c] = 0 THEN Remaining(c) ELSE {}

LeaveLink(c) ==
  IF linkRoom[c] = NoRoom
  THEN UNCHANGED <<RoomVars, RateVars>>
  ELSE /\ linkRooms' = [linkRooms EXCEPT ![linkRoom[c]] = RoomAfterLeave(c, linkRoom[c])]
       /\ linkRoom' = [d \in Conn |-> IF d = c \/ d \in Orphans(c) THEN NoRoom ELSE linkRoom[d]]
       /\ linkClientId' = [d \in Conn |-> IF d = c \/ d \in Orphans(c) THEN -1 ELSE linkClientId[d]]
       /\ windowOpen' = [windowOpen EXCEPT ![c] = FALSE]
       /\ linkPacketCount' = [linkPacketCount EXCEPT ![c] = 0]

\* mutants: only the peers of a host, only the host of a guest is told
LeaveNoticeToGuests(c) ==
  [d \in Conn |-> IF d \in Orphans(c) THEN Heard(d, Ended) ELSE told[d]]
LeaveNoticeToHost(c) ==
  [d \in Conn |-> IF d \in Remaining(c) \ Orphans(c) THEN Heard(d, Waiting) ELSE told[d]]

\* link_ended to the peers of a host, link_peer_disconnected and
\* link_waiting to the host of a guest
LeaveNotice(c) ==
  [d \in Conn |->
     IF d \in Remaining(c)
     THEN Heard(d, IF linkClientId[c] = 0 THEN Ended ELSE Waiting)
     ELSE told[d]]

\* The socket's 'close' event: leaveLink, then clients.delete.  The promise
\* chain is left as it is.
Close(c) ==
  /\ sock[c] \in {"open", "ended", "destroyed"}
  /\ LeaveLink(c)
  /\ sock' = [Written(Remaining(c)) EXCEPT ![c] = "closed"]
  /\ told' = LeaveNotice(c)
  /\ late' = [late EXCEPT ![c] = queue[c] # <<>> \/ busy[c] # "idle"]
  /\ wire' = {}
  /\ UNCHANGED <<mode, busy, queue>>

-----------------------------------------------------------------------------
(* The promise chain: handleMessage runs on the next line once the handler *)
(* before it has finished, whatever has become of the socket.              *)

Take(c, type) ==
  /\ busy[c] = "idle"
  /\ queue[c] # <<>>
  /\ Head(queue[c]).type = type
  /\ queue' = [queue EXCEPT ![c] = Tail(@)]

\* v2 hello, enroll or recover_identity: awaits the identity store
BeginHello(c) ==
  /\ Take(c, "hello")
  /\ mode[c] = "anon"
  /\ busy' = [busy EXCEPT ![c] = "hello"]
  /\ wire' = {}
  /\ UNCHANGED <<sock, mode, late, RoomVars, RateVars, told>>

\* the store answers: welcome, or fail('authentication_failed')
FinishHello(c) ==
  /\ busy[c] = "hello"
  /\ busy' = [busy EXCEPT ![c] = "idle"]
  /\ \/ mode' = [mode EXCEPT ![c] = "v2"] /\ sock' = Written({c})
     \/ mode' = mode /\ sock' = EndedAfterWrite(c)
  /\ wire' = {}
  /\ UNCHANGED <<queue, late, RoomVars, RateVars, told>>

\* v1 hello: no identity, nothing awaited from a store
LegacyHello(c) ==
  /\ Take(c, "legacy_hello")
  /\ mode[c] = "anon"
  /\ mode' = [mode EXCEPT ![c] = "v1"]
  /\ sock' = Written({c})
  /\ wire' = {}
  /\ UNCHANGED <<busy, late, RoomVars, RateVars, told>>

\* before hello anything else is fail('invalid_hello')
InvalidHello(c) ==
  /\ mode[c] = "anon"
  /\ \E type \in {"join", "packet", "leave", "store"} : Take(c, type)
  /\ sock' = EndedAfterWrite(c)
  /\ wire' = {}
  /\ UNCHANGED <<mode, busy, late, RoomVars, RateVars, told>>

\* a second hello is answered with the error unknown_type
RepeatedHello(c) ==
  /\ mode[c] # "anon"
  /\ \E type \in {"hello", "legacy_hello"} : Take(c, type)
  /\ sock' = Written({c})
  /\ wire' = {}
  /\ UNCHANGED <<mode, busy, late, RoomVars, RateVars, told>>

\* any request whose handler awaits a store: quests, guilds, friends, stats
BeginStore(c) ==
  /\ mode[c] # "anon"
  /\ Take(c, "store")
  /\ busy' = [busy EXCEPT ![c] = "store"]
  /\ wire' = {}
  /\ UNCHANGED <<sock, mode, late, RoomVars, RateVars, told>>

\* it answers, or closes the connection (revoke_session, delete_identity,
\* internal_error)
FinishStore(c) ==
  /\ busy[c] = "store"
  /\ busy' = [busy EXCEPT ![c] = "idle"]
  /\ sock' \in {Written({c}), EndedAfterWrite(c)}
  /\ wire' = {}
  /\ UNCHANGED <<mode, queue, late, RoomVars, RateVars, told>>

-----------------------------------------------------------------------------
(* joinLink(client, msg).                                                  *)

\* room.core !== msg.core || room.members.size >= 2
Unavailable(m) ==
  ~Absent(m.room) /\ (linkRooms[m.room].core # m.core \/ Full(linkRooms[m.room].members))

\* identity_required, already_in_link_room or link_room_unavailable
JoinRefused(c, m) == mode[c] # "v2" \/ linkRoom[c] # NoRoom \/ Unavailable(m)

RefuseJoin(c) ==
  /\ mode[c] # "anon"
  /\ Take(c, "join")
  /\ JoinRefused(c, Head(queue[c]))
  /\ sock' = Written({c})
  /\ wire' = {}
  /\ UNCHANGED <<mode, busy, late, RoomVars, RateVars, told>>

\* room.members.has(0) ? 1 : 0
FreeSlot(r) == IF linkRooms[r].members[0] # NoConn THEN 1 ELSE 0

Join(c) ==
  /\ mode[c] # "anon"
  /\ Take(c, "join")
  /\ LET m == Head(queue[c])
         i == FreeSlot(m.room)
         members == [linkRooms[m.room].members EXCEPT ![i] = c]
     IN  /\ ~JoinRefused(c, m)
         /\ linkRooms' = [linkRooms EXCEPT ![m.room] =
                            [core |-> IF Absent(m.room) THEN m.core ELSE linkRooms[m.room].core,
                             members |-> members]]
         /\ linkRoom' = [linkRoom EXCEPT ![c] = m.room]
         /\ linkClientId' = [linkClientId EXCEPT ![c] = i]
         /\ told' = [d \in Conn |->
                       IF Full(members)
                       THEN IF d = members[0] THEN Heard(d, Started(0))
                            ELSE IF d = members[1] THEN Heard(d, Started(1)) ELSE told[d]
                       ELSE IF d = c THEN Heard(d, Waiting) ELSE told[d]]
         /\ sock' = Written({members[j] : j \in Slot} \ {NoConn})
  /\ windowOpen' = [windowOpen EXCEPT ![c] = TRUE]
  /\ linkPacketCount' = [linkPacketCount EXCEPT ![c] = 0]
  /\ wire' = {}
  /\ UNCHANGED <<mode, busy, late>>

\* link_leave: leaveLink(client, 'left'), then link_left
Leave(c) ==
  /\ mode[c] # "anon"
  /\ Take(c, "leave")
  /\ LeaveLink(c)
  /\ sock' = Written({c} \cup Remaining(c))
  /\ told' = [LeaveNotice(c) EXCEPT ![c] = Heard(c, Left)]
  /\ wire' = {}
  /\ UNCHANGED <<mode, busy, late>>

-----------------------------------------------------------------------------
(* relayLinkPacket(client, msg).                                           *)

\* invalid_link_packet or link_not_ready
NotInSession(c) == linkRoom[c] # NoRoom => ~Full(linkRooms[linkRoom[c]].members)

RefusePacket(c) ==
  /\ mode[c] # "anon"
  /\ Take(c, "packet")
  /\ NotInSession(c)
  /\ sock' = Written({c})
  /\ wire' = {}
  /\ UNCHANGED <<mode, busy, late, RoomVars, RateVars, told>>

\* ++client.linkPacketCount, from 1 again when the window has passed; the
\* code tells apart only what lies beyond the limit, so the count stops there
Counted(c) ==
  IF ~windowOpen[c] THEN 1
  ELSE IF linkPacketCount[c] < PacketLimit + 2 THEN linkPacketCount[c] + 1
  ELSE PacketLimit + 2

\* mutant: the sender is not skipped
AddressedWithEcho(c, to) ==
  {linkRooms[linkRoom[c]].members[i] : i \in IF to = Broadcast THEN Slot ELSE {to}}

\* peer === client || (msg.to !== 0xffff && msg.to !== peerId) is skipped
Addressed(c, to) ==
  {d \in {linkRooms[linkRoom[c]].members[i] : i \in IF to = Broadcast THEN Slot ELSE {to}} :
     d # c}

Relay(c) ==
  /\ mode[c] # "anon"
  /\ Take(c, "packet")
  /\ ~NotInSession(c)
  /\ linkPacketCount' = [linkPacketCount EXCEPT ![c] = Counted(c)]
  /\ windowOpen' = [windowOpen EXCEPT ![c] = TRUE]
  /\ LET peers == Addressed(c, Head(queue[c]).to)
     IN  IF Counted(c) > PacketLimit
         THEN /\ wire' = {}
              /\ sock' = Written(IF Counted(c) = PacketLimit + 1 THEN {c} ELSE {})
         ELSE /\ wire' = {linkClientId[c]} \X peers
              /\ sock' = Written(IF peers = {} THEN {c} ELSE peers)
  /\ UNCHANGED <<mode, busy, late, RoomVars, told>>

\* a second has passed since linkPacketsAt; with no packet counted yet it
\* makes no difference to the next one
WindowPasses(c) ==
  /\ windowOpen[c]
  /\ linkPacketCount[c] > 0
  /\ windowOpen' = [windowOpen EXCEPT ![c] = FALSE]
  /\ wire' = {}
  /\ UNCHANGED <<ConnVars, RoomVars, linkPacketCount, told>>

-----------------------------------------------------------------------------
Handle(c) ==
  \/ BeginHello(c) \/ FinishHello(c) \/ LegacyHello(c) \/ InvalidHello(c)
  \/ RepeatedHello(c) \/ BeginStore(c) \/ FinishStore(c)
  \/ RefuseJoin(c) \/ Join(c) \/ Leave(c) \/ RefusePacket(c) \/ Relay(c)

Step(c) ==
  \/ Accept(c)
  \/ \E m \in Requests : Receive(c, m)
  \/ End(c) \/ Close(c)
  \/ Handle(c)
  \/ WindowPasses(c)

Next == \E c \in Conn : Step(c)

Spec == Init /\ [][Next]_vars

(***************************************************************************)
(* Fairness.  The event loop runs every queued continuation and a store    *)
(* call settles, so the chain of a connection keeps moving; Node emits     *)
(* 'close' for every destroyed socket.  Nothing makes a peer send, or      *)
(* closes a socket that is merely open or ended.                           *)
(***************************************************************************)
FairSpec ==
  /\ Spec
  /\ \A c \in Conn : WF_vars(Handle(c))
  /\ \A c \in Conn : WF_vars(sock[c] = "destroyed" /\ Close(c))

-----------------------------------------------------------------------------
(* Properties.                                                             *)

\* joinLink and leaveLink change the Map and the fields of two clients
\* separately: the two sides always name each other, so no packet is relayed
\* for, and no departure announced to, somebody of another room.
RoomsAgree ==
  /\ \A c \in Conn : linkRoom[c] # NoRoom =>
       /\ linkClientId[c] \in Slot
       /\ linkRooms[linkRoom[c]].members[linkClientId[c]] = c
  /\ \A r \in Room, i \in Slot : linkRooms[r].members[i] # NoConn =>
       /\ linkRoom[linkRooms[r].members[i]] = r
       /\ linkClientId[linkRooms[r].members[i]] = i

\* A room exists exactly as long as it has a host: the Map leaks no empty
\* room, and no guest is left in a room whose client 0 has gone.
HostPresent ==
  \A r \in Room : /\ Absent(r) <=> linkRooms[r].members[0] = NoConn
                  /\ Absent(r) => linkRooms[r] = NoEntry

\* The last notice an open connection was sent is what the server holds of
\* it: it believes it is paired, as the client it is, if and only if it is.
ToldTheTruth ==
  \A c \in Conn : sock[c] = "open" =>
    IF linkRoom[c] = NoRoom THEN told[c] \in {NoNotice, Ended, Left}
    ELSE told[c] = IF Full(linkRooms[linkRoom[c]].members)
                   THEN Started(linkClientId[c]) ELSE Waiting

\* A link_packet reaches a trainer only between its link_started and the end
\* of that session, never in the same room's next session, and is said to
\* come from the one other client number there is.
PacketsWithinSession ==
  \A p \in wire : sock[p[2]] = "open" => told[p[2]] = Started(1 - p[1])

\* A closed connection sits in a room only if its promise chain still held
\* work when the socket closed: the 'close' handler misses nothing else.
GhostsHadBacklog ==
  \A c \in Conn : sock[c] = "closed" /\ linkRoom[c] # NoRoom => late[c]

\* The rooms are the sessions LinkSession promises.
Session == INSTANCE LinkSession WITH seats <- [r \in Room |-> linkRooms[r].members]
SessionSpec == Session!Spec

\* A guest that keeps its connection is told, or has left, once the socket of
\* its host has been destroyed: it does not stay in a session without a host.
HostLossReachesGuest ==
  \A h, g \in Conn :
    (/\ sock[h] = "destroyed" /\ linkRoom[h] # NoRoom /\ linkClientId[h] = 0
     /\ sock[g] = "open" /\ linkRoom[g] = linkRoom[h] /\ g # h)
    ~> (sock[g] # "open" \/ told[g] # Started(1))
=============================================================================
