--------------------------- MODULE Links_proofs ---------------------------
(***************************************************************************)
(* Proofs about link rooms and the client's view of them: LinkRooms for    *)
(* every set of connections, rooms and cores, every queue bound and every  *)
(* packet limit, OnlineClient for every buffer size and number of          *)
(* failures.                                                               *)
(***************************************************************************)
EXTENDS LinkRooms, OnlineClient, SequenceTheorems, TLAPS

-----------------------------------------------------------------------------
(***************************************************************************)
(* LinkRooms. RoomsAgree is not inductive alone: a room without a host     *)
(* could take a guest as client 0 over the guest it already holds. With    *)
(* HostPresent and the types it is.                                        *)
(***************************************************************************)

RoomInv == TypeOK /\ RoomsAgree /\ HostPresent

\* A closed connection whose chain was empty has nothing left that could act.
GhostInv ==
  \A c \in Conn : sock[c] = "closed" /\ ~late[c] =>
    queue[c] = <<>> /\ busy[c] = "idle" /\ linkRoom[c] = NoRoom

-----------------------------------------------------------------------------
(* Lemmas about the operators of LinkRooms.                                *)

\* What a non-empty chain holds are lines that clients send.
LEMMA HeadTail ==
  ASSUME NEW S, NEW s \in Seq(S), s # <<>>
  PROVE  Head(s) \in S /\ Tail(s) \in Seq(S)
  OBVIOUS

\* Writing to sockets, and ending one, leaves every socket in a state.
LEMMA WrittenType ==
  ASSUME TypeOK, NEW S, NEW c \in Conn
  PROVE  /\ Written(S) \in [Conn -> {"new", "open", "ended", "destroyed", "closed"}]
         /\ EndedAfterWrite(c) \in [Conn -> {"new", "open", "ended", "destroyed", "closed"}]
         /\ [Written(S) EXCEPT ![c] = "closed"]
              \in [Conn -> {"new", "open", "ended", "destroyed", "closed"}]
  BY DEF TypeOK, Written, EndedAfterWrite

\* Neither closes a socket, nor opens one that is closed.
LEMMA WrittenClosed ==
  ASSUME TypeOK, NEW S, NEW c \in Conn, NEW d \in Conn
  PROVE  /\ Written(S)[d] = "closed" <=> sock[d] = "closed"
         /\ EndedAfterWrite(c)[d] = "closed" <=> sock[d] = "closed"
  BY DEF TypeOK, Written, EndedAfterWrite

\* The members of a room are connections.
LEMMA MembersType ==
  ASSUME TypeOK, NEW r \in Room, NEW i \in Slot
  PROVE  linkRooms[r].members[i] \in Conn \cup {NoConn}
  BY DEF TypeOK

\* Those who stay behind are connections in the room that c leaves.
LEMMA RemainingInRoom ==
  ASSUME RoomInv, NEW c \in Conn, NEW d \in Remaining(c)
  PROVE  d \in Conn /\ d # c /\ linkRoom[c] \in Room /\ linkRoom[d] = linkRoom[c]
  <1>1. /\ linkRoom[c] \in Room
        /\ \E i \in Slot \ {linkClientId[c]} : d = linkRooms[linkRoom[c]].members[i]
        /\ d # NoConn
    BY DEF RoomInv, TypeOK, Remaining
  <1>2. PICK i \in Slot \ {linkClientId[c]} : d = linkRooms[linkRoom[c]].members[i]
    BY <1>1
  <1>3. d \in Conn
    BY <1>1, <1>2, MembersType DEF RoomInv
  <1>4. linkRoom[d] = linkRoom[c] /\ linkClientId[d] = i
    BY <1>1, <1>2 DEF RoomInv, RoomsAgree
  <1> QED BY <1>1, <1>2, <1>3, <1>4

\* leaveLink keeps the Map and the clients' fields in agreement.
LEMMA LeaveLinkKeepsRooms ==
  ASSUME RoomInv, NEW c \in Conn, LeaveLink(c)
  PROVE  /\ linkRoom' \in [Conn -> Room \cup {NoRoom}]
         /\ linkClientId' \in [Conn -> {-1, 0, 1}]
         /\ linkRooms' \in [Room -> [core : Core \cup {NoCore},
                                     members : [Slot -> Conn \cup {NoConn}]]]
         /\ windowOpen' \in [Conn -> BOOLEAN]
         /\ linkPacketCount' \in [Conn -> 0..(PacketLimit + 2)]
         /\ RoomsAgree' /\ HostPresent'
         /\ linkRoom'[c] = NoRoom
         /\ \A d \in Conn : linkRoom[d] = NoRoom => linkRoom'[d] = NoRoom
  <1>1. CASE linkRoom[c] = NoRoom
    BY <1>1 DEF LeaveLink, RoomVars, RateVars, RoomInv, TypeOK, RoomsAgree, HostPresent,
                Absent, NoEntry
  <1>2. CASE linkRoom[c] # NoRoom
    <2> DEFINE r == linkRoom[c]
               k == linkClientId[c]
    <2>1. /\ r \in Room /\ k \in Slot /\ linkRooms[r].members[k] = c
          /\ linkRooms[r] \in [core : Core \cup {NoCore}, members : [Slot -> Conn \cup {NoConn}]]
      BY <1>2 DEF RoomInv, TypeOK, RoomsAgree
    <2>2. linkRooms[r].members[0] # NoConn /\ ~Absent(r)
      BY <2>1, NullAssumption DEF RoomInv, HostPresent, NoEntry, Vacant, Slot
    <2>5. windowOpen' \in [Conn -> BOOLEAN] /\ linkPacketCount' \in [Conn -> 0..(PacketLimit + 2)]
      <3>1. /\ windowOpen' = [windowOpen EXCEPT ![c] = FALSE]
            /\ linkPacketCount' = [linkPacketCount EXCEPT ![c] = 0]
        BY <1>2 DEF LeaveLink
      <3>2. 0 \in 0..(PacketLimit + 2)
        BY BoundAssumption
      <3> QED BY <3>1, <3>2 DEF RoomInv, TypeOK
    <2>3. CASE k = 0
      <3>1. /\ linkRooms' = [linkRooms EXCEPT ![r] = NoEntry]
            /\ linkRoom' = [d \in Conn |-> IF d = c \/ d \in Remaining(c) THEN NoRoom ELSE linkRoom[d]]
            /\ linkClientId' = [d \in Conn |-> IF d = c \/ d \in Remaining(c) THEN -1 ELSE linkClientId[d]]
        BY <1>2, <2>3 DEF LeaveLink, RoomAfterLeave, Orphans
      <3>2. Remaining(c) = {linkRooms[r].members[1]} \ {NoConn}
        BY <1>2, <2>3 DEF Remaining, Slot
      <3>3. \A d \in Conn : linkRoom[d] = r => d = c \/ d \in Remaining(c)
        BY <2>1, <2>3, <3>2, NullAssumption DEF RoomInv, RoomsAgree, Slot
      <3>4. RoomsAgree' /\ HostPresent'
        BY <2>1, <3>1, <3>3, RemainingInRoom, NullAssumption
        DEF RoomInv, TypeOK, RoomsAgree, HostPresent, Absent, NoEntry, Vacant, Slot
      <3>5. linkRooms' \in [Room -> [core : Core \cup {NoCore},
                                     members : [Slot -> Conn \cup {NoConn}]]]
        BY <3>1 DEF RoomInv, TypeOK, NoEntry, Vacant
      <3> QED BY <2>1, <2>5, <3>1, <3>4, <3>5 DEF RoomInv, TypeOK
    <2>4. CASE k = 1
      <3>1. /\ linkRooms' = [linkRooms EXCEPT ![r] =
                              [core |-> linkRooms[r].core,
                               members |-> [linkRooms[r].members EXCEPT ![1] = NoConn]]]
            /\ linkRoom' = [linkRoom EXCEPT ![c] = NoRoom]
            /\ linkClientId' = [linkClientId EXCEPT ![c] = -1]
        BY <1>2, <2>1, <2>2, <2>4 DEF LeaveLink, RoomAfterLeave, Orphans, RoomInv, TypeOK, Slot
      <3>2. /\ linkRooms'[r].core = linkRooms[r].core
            /\ linkRooms'[r].members = [linkRooms[r].members EXCEPT ![1] = NoConn]
            /\ \A q \in Room : q # r => linkRooms'[q] = linkRooms[q]
            /\ linkRooms' \in [Room -> [core : Core \cup {NoCore},
                                        members : [Slot -> Conn \cup {NoConn}]]]
        BY <2>1, <3>1 DEF RoomInv, TypeOK
      <3>3. /\ linkRooms'[r].members[0] = linkRooms[r].members[0]
            /\ linkRooms'[r].members[1] = NoConn
            /\ linkRooms'[r].members[0] # c
        BY <2>1, <2>2, <2>4, <3>2 DEF RoomInv, RoomsAgree, Slot
      <3>4. RoomsAgree'
        <4>0. \A d \in Conn : d # c => linkRoom'[d] = linkRoom[d] /\ linkClientId'[d] = linkClientId[d]
          BY <3>1 DEF RoomInv, TypeOK
        <4>1. ASSUME NEW d \in Conn, linkRoom'[d] # NoRoom
              PROVE  /\ linkClientId'[d] \in Slot
                     /\ linkRooms'[linkRoom'[d]].members[linkClientId'[d]] = d
          <5>1. d # c
            BY <3>1, <4>1 DEF RoomInv, TypeOK
          <5>2. /\ linkRoom'[d] = linkRoom[d] /\ linkClientId'[d] = linkClientId[d]
                /\ linkRoom[d] \in Room /\ linkClientId[d] \in Slot
                /\ linkRooms[linkRoom[d]].members[linkClientId[d]] = d
            BY <4>0, <4>1, <5>1 DEF RoomInv, TypeOK, RoomsAgree
          <5>3. CASE linkRoom[d] # r
            BY <3>2, <5>2, <5>3
          <5>4. CASE linkRoom[d] = r
            <6>1. linkClientId[d] = 0
              BY <2>1, <2>4, <5>1, <5>2, <5>4 DEF Slot
            <6> QED BY <3>3, <5>2, <5>4, <6>1
          <5> QED BY <5>3, <5>4
        <4>2. ASSUME NEW q \in Room, NEW i \in Slot, linkRooms'[q].members[i] # NoConn
              PROVE  /\ linkRoom'[linkRooms'[q].members[i]] = q
                     /\ linkClientId'[linkRooms'[q].members[i]] = i
          <5>1. linkRooms'[q].members[i] = linkRooms[q].members[i] /\ ~(q = r /\ i = 1)
            BY <3>2, <3>3, <4>2 DEF Slot
          <5> DEFINE d == linkRooms[q].members[i]
          <5>2. d \in Conn /\ linkRoom[d] = q /\ linkClientId[d] = i
            BY <4>2, <5>1, MembersType DEF RoomInv, RoomsAgree
          <5>3. d # c
            BY <2>4, <5>1, <5>2
          <5> QED BY <4>0, <5>1, <5>2, <5>3
        <4> QED BY <4>1, <4>2 DEF RoomsAgree
      <3>5. HostPresent'
        <4> SUFFICES ASSUME NEW q \in Room
                     PROVE  /\ Absent(q)' <=> linkRooms'[q].members[0] = NoConn
                            /\ Absent(q)' => linkRooms'[q] = NoEntry
          BY DEF HostPresent
        <4>1. CASE q = r
          BY <2>2, <3>2, <3>3, <4>1 DEF Absent
        <4>2. CASE q # r
          <5>1. linkRooms'[q] = linkRooms[q]
            BY <3>2, <4>2
          <5> QED BY <5>1 DEF RoomInv, HostPresent, Absent
        <4> QED BY <4>1, <4>2
      <3> QED BY <2>1, <2>5, <3>1, <3>2, <3>4, <3>5 DEF RoomInv, TypeOK
    <2> QED BY <2>1, <2>3, <2>4 DEF Slot
  <1> QED BY <1>1, <1>2

\* joinLink keeps them in agreement too: it seats a connection that sits
\* nowhere in a slot that is free.
LEMMA JoinKeepsRooms ==
  ASSUME RoomInv, NEW c \in Conn, Join(c)
  PROVE  /\ linkRoom' \in [Conn -> Room \cup {NoRoom}]
         /\ linkClientId' \in [Conn -> {-1, 0, 1}]
         /\ linkRooms' \in [Room -> [core : Core \cup {NoCore},
                                     members : [Slot -> Conn \cup {NoConn}]]]
         /\ told' \in [Conn -> Notice]
         /\ RoomsAgree' /\ HostPresent'
         /\ \A d \in Conn : d # c => linkRoom'[d] = linkRoom[d]
  <1> DEFINE m == Head(queue[c])
             r == m.room
             i == FreeSlot(r)
             members == [linkRooms[r].members EXCEPT ![i] = c]
             k == IF Absent(r) THEN m.core ELSE linkRooms[r].core
  <1>1. m \in Message /\ m.type = "join"
    BY HeadTail, RequestAssumption DEF RoomInv, TypeOK, Join, Take
  <1>2. r \in Room /\ m.core \in Core
    BY <1>1 DEF Message, JoinMsg, PacketMsg, PlainMsg
  <1>3. linkRoom[c] = NoRoom /\ ~Unavailable(m)
    BY DEF Join, JoinRefused
  <1>4. /\ linkRooms' = [linkRooms EXCEPT ![r] = [core |-> k, members |-> members]]
        /\ linkRoom' = [linkRoom EXCEPT ![c] = r]
        /\ linkClientId' = [linkClientId EXCEPT ![c] = i]
    BY DEF Join
  <1>5. i \in Slot /\ linkRooms[r].members[i] = NoConn
    BY <1>2, <1>3, NullAssumption
    DEF FreeSlot, Slot, Unavailable, Full, RoomInv, HostPresent, NoEntry, Vacant, Absent
  <1>6. members \in [Slot -> Conn \cup {NoConn}] /\ members[i] = c
    BY <1>2, <1>5 DEF RoomInv, TypeOK
  <1> HIDE DEF members
  <1>13. k \in Core
    BY <1>2 DEF RoomInv, TypeOK, Absent
  <1>7. members[0] # NoConn
    BY <1>2, <1>5, NullAssumption DEF members, FreeSlot, Slot, RoomInv, TypeOK
  <1>8. \A j \in Slot : j # i => members[j] = linkRooms[r].members[j]
    BY <1>2, <1>5 DEF members, RoomInv, TypeOK
  <1>9. RoomsAgree'
    <2>1. /\ linkRooms'[r].members = members
          /\ \A q \in Room : q # r => linkRooms'[q] = linkRooms[q]
          /\ linkRoom'[c] = r /\ linkClientId'[c] = i
          /\ \A d \in Conn : d # c => linkRoom'[d] = linkRoom[d] /\ linkClientId'[d] = linkClientId[d]
      BY <1>2, <1>4 DEF RoomInv, TypeOK
    <2>2. ASSUME NEW d \in Conn, linkRoom'[d] # NoRoom
          PROVE  linkClientId'[d] \in Slot /\ linkRooms'[linkRoom'[d]].members[linkClientId'[d]] = d
      <3>1. CASE d = c
        BY <1>5, <1>6, <2>1, <3>1
      <3>2. CASE d # c
        <4>1. /\ linkRoom[d] \in Room /\ linkClientId[d] \in Slot
              /\ linkRooms[linkRoom[d]].members[linkClientId[d]] = d
          BY <2>1, <2>2, <3>2 DEF RoomInv, TypeOK, RoomsAgree
        <4>2. linkRoom[d] = r => linkClientId[d] # i
          BY <1>5, <4>1, NullAssumption
        <4>3. /\ linkRoom'[d] = linkRoom[d] /\ linkClientId'[d] = linkClientId[d]
          BY <2>1, <3>2
        <4>4. CASE linkRoom[d] = r
          <5>1. members[linkClientId[d]] = linkRooms[r].members[linkClientId[d]]
            BY <1>8, <4>1, <4>2, <4>4
          <5> QED BY <2>1, <4>1, <4>3, <4>4, <5>1
        <4>5. CASE linkRoom[d] # r
          BY <2>1, <4>1, <4>3, <4>5
        <4> QED BY <4>4, <4>5
      <3> QED BY <3>1, <3>2
    <2>3. ASSUME NEW q \in Room, NEW j \in Slot, linkRooms'[q].members[j] # NoConn
          PROVE  /\ linkRoom'[linkRooms'[q].members[j]] = q
                 /\ linkClientId'[linkRooms'[q].members[j]] = j
      <3>1. CASE q = r /\ j = i
        BY <1>6, <2>1, <3>1
      <3>2. CASE ~(q = r /\ j = i)
        <4>1. linkRooms'[q].members[j] = linkRooms[q].members[j]
          <5>1. CASE q = r
            BY <1>8, <2>1, <3>2, <5>1
          <5>2. CASE q # r
            BY <2>1, <5>2
          <5> QED BY <5>1, <5>2
        <4>2. /\ linkRooms[q].members[j] \in Conn
              /\ linkRoom[linkRooms[q].members[j]] = q
              /\ linkClientId[linkRooms[q].members[j]] = j
          BY <2>3, <4>1, MembersType DEF RoomInv, RoomsAgree
        <4>3. linkRooms[q].members[j] # c
          BY <1>3, <4>2, NullAssumption
        <4> QED BY <2>1, <4>1, <4>2, <4>3
      <3> QED BY <3>1, <3>2
    <2> QED BY <2>2, <2>3 DEF RoomsAgree
  <1>10. HostPresent'
    BY <1>2, <1>4, <1>7, <1>13, NullAssumption DEF RoomInv, TypeOK, HostPresent, Absent
  <1>11. told' \in [Conn -> Notice]
    BY DEF Join, RoomInv, TypeOK, Heard, Notice, Started, Waiting, Slot
  <1>12. linkRooms' \in [Room -> [core : Core \cup {NoCore},
                                  members : [Slot -> Conn \cup {NoConn}]]]
    BY <1>2, <1>4, <1>6, <1>13 DEF RoomInv, TypeOK
  <1> QED BY <1>2, <1>4, <1>5, <1>9, <1>10, <1>11, <1>12 DEF RoomInv, TypeOK, Slot

-----------------------------------------------------------------------------
(* The inductive invariant.                                                *)

\* It holds when no connection has been accepted.
LEMMA InitRoomInv == Init => RoomInv
  <1> SUFFICES ASSUME Init PROVE RoomInv
    OBVIOUS
  <1>1. TypeOK
    BY BoundAssumption DEF Init, TypeOK, NoEntry, Vacant, Slot, Notice, NoNotice
  <1>2. RoomsAgree /\ HostPresent
    BY NullAssumption DEF Init, RoomsAgree, HostPresent, NoEntry, Vacant, Absent, Slot
  <1> QED BY <1>1, <1>2 DEF RoomInv

\* A step that touches no room leaves the rooms as they were.
LEMMA QuietStep ==
  ASSUME RoomInv, UNCHANGED RoomVars
  PROVE  RoomsAgree' /\ HostPresent'
  BY DEF RoomInv, RoomVars, RoomsAgree, HostPresent, Absent, NoEntry

\* Notices sent when somebody leaves are notices.
LEMMA NoticeType ==
  ASSUME TypeOK, NEW c \in Conn
  PROVE  /\ LeaveNotice(c) \in [Conn -> Notice]
         /\ [LeaveNotice(c) EXCEPT ![c] = Heard(c, Left)] \in [Conn -> Notice]
  BY DEF TypeOK, LeaveNotice, Heard, Notice, Ended, Waiting, Left

\* A taken line leaves a chain of lines.
LEMMA TakeType ==
  ASSUME TypeOK, NEW c \in Conn, NEW type, Take(c, type)
  PROVE  /\ queue' \in [Conn -> Seq(Requests)]
         /\ Head(queue[c]) \in Message /\ Head(queue[c]).type = type
  <1>1. queue[c] \in Seq(Requests) /\ queue[c] # <<>>
    BY DEF TypeOK, Take
  <1>2. Head(queue[c]) \in Requests /\ Tail(queue[c]) \in Seq(Requests)
    BY <1>1, HeadTail
  <1> QED BY <1>2, RequestAssumption DEF TypeOK, Take

\* The packets of one relay are addressed by a client number to connections.
LEMMA RelayType ==
  ASSUME RoomInv, NEW c \in Conn, Relay(c)
  PROVE  TypeOK'
  <1> DEFINE m == Head(queue[c])
             peers == Addressed(c, m.to)
  <1>1. queue' \in [Conn -> Seq(Requests)] /\ m \in PacketMsg
    BY TakeType DEF Relay, RoomInv, Message, JoinMsg, PacketMsg, PlainMsg
  <1>2. linkRoom[c] \in Room /\ linkClientId[c] \in Slot /\ Full(linkRooms[linkRoom[c]].members)
    BY DEF Relay, NotInSession, RoomInv, TypeOK, RoomsAgree
  <1>3. peers \subseteq Conn
    BY <1>1, <1>2, MembersType DEF Addressed, Full, PacketMsg, Target, RoomInv, Slot
  <1>4. wire' \in SUBSET (Slot \X Conn)
    BY <1>2, <1>3 DEF Relay
  <1>5. linkPacketCount' \in [Conn -> 0..(PacketLimit + 2)] /\ windowOpen' \in [Conn -> BOOLEAN]
    <2>1. Counted(c) \in 0..(PacketLimit + 2)
      BY BoundAssumption DEF Counted, RoomInv, TypeOK
    <2>2. linkPacketCount' = [linkPacketCount EXCEPT ![c] = Counted(c)]
          /\ windowOpen' = [windowOpen EXCEPT ![c] = TRUE]
      BY DEF Relay
    <2> HIDE DEF Counted
    <2> QED BY <2>1, <2>2 DEF RoomInv, TypeOK
  <1>6. sock' \in [Conn -> {"new", "open", "ended", "destroyed", "closed"}]
    BY WrittenType DEF Relay, RoomInv
  <1>7. UNCHANGED <<mode, busy, late, RoomVars, told>>
    BY DEF Relay
  <1> QED BY <1>1, <1>4, <1>5, <1>6, <1>7 DEF RoomInv, TypeOK, RoomVars

\* Every action keeps the types and the agreement of the rooms.
LEMMA NextRoomInv == RoomInv /\ [Next]_vars => RoomInv'
  <1> SUFFICES ASSUME RoomInv, [Next]_vars PROVE RoomInv'
    OBVIOUS
  <1> USE DEF RoomInv
  <1>1. CASE UNCHANGED vars
    BY <1>1 DEF vars, TypeOK, RoomsAgree, HostPresent, Absent
  <1>2. ASSUME NEW c \in Conn, Step(c) PROVE RoomInv'
    <2>1. CASE Accept(c)
      BY <2>1, QuietStep DEF Accept, TypeOK, RoomVars, RateVars
    <2>2. ASSUME NEW m \in Requests, Receive(c, m) PROVE RoomInv'
      <3>1. queue' \in [Conn -> Seq(Requests)]
        BY <2>2 DEF Receive, TypeOK
      <3> QED BY <2>2, <3>1, QuietStep DEF Receive, TypeOK, RoomVars, RateVars
    <2>3. CASE End(c)
      BY <2>3, QuietStep, WrittenType DEF End, TypeOK, RoomVars, RateVars
    <2>4. CASE Close(c)
      BY <2>4, LeaveLinkKeepsRooms, NoticeType, WrittenType DEF Close, TypeOK
    <2>5. CASE BeginHello(c)
      BY <2>5, QuietStep, TakeType DEF BeginHello, TypeOK, RoomVars, RateVars
    <2>6. CASE FinishHello(c)
      <3>1. sock' \in [Conn -> {"new", "open", "ended", "destroyed", "closed"}]
        BY <2>6, WrittenType DEF FinishHello
      <3>2. busy' \in [Conn -> {"idle", "hello", "store"}] /\ mode' \in [Conn -> {"anon", "v1", "v2"}]
        BY <2>6 DEF FinishHello, TypeOK
      <3> QED BY <2>6, <3>1, <3>2, QuietStep DEF FinishHello, TypeOK, RoomVars, RateVars
    <2>7. CASE LegacyHello(c)
      BY <2>7, QuietStep, TakeType, WrittenType DEF LegacyHello, TypeOK, RoomVars, RateVars
    <2>8. CASE InvalidHello(c)
      BY <2>8, QuietStep, TakeType, WrittenType DEF InvalidHello, TypeOK, RoomVars, RateVars
    <2>9. CASE RepeatedHello(c)
      BY <2>9, QuietStep, TakeType, WrittenType DEF RepeatedHello, TypeOK, RoomVars, RateVars
    <2>10. CASE BeginStore(c)
      BY <2>10, QuietStep, TakeType DEF BeginStore, TypeOK, RoomVars, RateVars
    <2>11. CASE FinishStore(c)
      <3>1. sock' \in [Conn -> {"new", "open", "ended", "destroyed", "closed"}]
        BY <2>11, WrittenType DEF FinishStore
      <3>2. busy' \in [Conn -> {"idle", "hello", "store"}]
        BY <2>11 DEF FinishStore, TypeOK
      <3> QED BY <2>11, <3>1, <3>2, QuietStep DEF FinishStore, TypeOK, RoomVars, RateVars
    <2>12. CASE RefuseJoin(c)
      BY <2>12, QuietStep, TakeType, WrittenType DEF RefuseJoin, TypeOK, RoomVars, RateVars
    <2>13. CASE Join(c)
      <3>1. queue' \in [Conn -> Seq(Requests)]
        BY <2>13, TakeType DEF Join
      <3>2. sock' \in [Conn -> {"new", "open", "ended", "destroyed", "closed"}]
        BY <2>13, WrittenType DEF Join
      <3>3. linkPacketCount' \in [Conn -> 0..(PacketLimit + 2)] /\ windowOpen' \in [Conn -> BOOLEAN]
        <4>1. /\ linkPacketCount' = [linkPacketCount EXCEPT ![c] = 0]
              /\ windowOpen' = [windowOpen EXCEPT ![c] = TRUE]
          BY <2>13 DEF Join
        <4>2. /\ linkPacketCount \in [Conn -> 0..(PacketLimit + 2)] /\ windowOpen \in [Conn -> BOOLEAN]
              /\ 0 \in 0..(PacketLimit + 2)
          BY BoundAssumption DEF TypeOK
        <4> QED BY <4>1, <4>2
      <3>4. UNCHANGED <<mode, busy, late>> /\ wire' = {}
        BY <2>13 DEF Join
      <3> QED BY <2>13, <3>1, <3>2, <3>3, <3>4, JoinKeepsRooms DEF TypeOK
    <2>14. CASE Leave(c)
      <3>1. queue' \in [Conn -> Seq(Requests)]
        BY <2>14, TakeType DEF Leave
      <3>2. sock' \in [Conn -> {"new", "open", "ended", "destroyed", "closed"}]
        BY <2>14, WrittenType DEF Leave
      <3>3. LeaveLink(c) /\ told' \in [Conn -> Notice] /\ UNCHANGED <<mode, busy, late>> /\ wire' = {}
        BY <2>14, NoticeType DEF Leave
      <3> QED BY <3>1, <3>2, <3>3, LeaveLinkKeepsRooms DEF TypeOK
    <2>15. CASE RefusePacket(c)
      BY <2>15, QuietStep, TakeType, WrittenType DEF RefusePacket, TypeOK, RoomVars, RateVars
    <2>16. CASE Relay(c)
      BY <2>16, QuietStep, RelayType DEF Relay
    <2>17. CASE WindowPasses(c)
      BY <2>17, QuietStep DEF WindowPasses, ConnVars, TypeOK, RoomVars
    <2> QED BY <1>2, <2>1, <2>2, <2>3, <2>4, <2>5, <2>6, <2>7, <2>8, <2>9, <2>10, <2>11,
               <2>12, <2>13, <2>14, <2>15, <2>16, <2>17 DEF Step, Handle
  <1> QED BY <1>1, <1>2 DEF Next

\* The inductive invariant holds in every reachable state.
THEOREM RoomInvariant == Spec => []RoomInv
  BY InitRoomInv, NextRoomInv, PTL DEF Spec

\* Type correctness.
THEOREM TypeCorrect == Spec => []TypeOK
  BY RoomInvariant, PTL DEF RoomInv

\* The Map and the clients' fields agree, in every reachable state.
THEOREM RoomsAlwaysAgree == Spec => []RoomsAgree
  BY RoomInvariant, PTL DEF RoomInv

\* A room exists exactly as long as it has a host.
THEOREM HostAlwaysPresent == Spec => []HostPresent
  BY RoomInvariant, PTL DEF RoomInv

-----------------------------------------------------------------------------
(* Connections that stay in a room after they have closed.                 *)

\* A taken line was there, and its handler was the only one running.
LEMMA TakeBusy ==
  ASSUME TypeOK, NEW c \in Conn, NEW type, Take(c, type)
  PROVE  queue[c] # <<>> /\ \A d \in Conn : d # c => queue'[d] = queue[d]
  BY DEF Take, TypeOK

\* A handler runs for a connection whose chain holds work, and what it does to
\* others never makes a closed connection anything but less of a ghost.
LEMMA HandleGhost ==
  ASSUME RoomInv, GhostInv, NEW c \in Conn, Handle(c)
  PROVE  GhostInv'
  <1> USE DEF RoomInv
  <1>1. \A d \in Conn : sock'[d] = "closed" => sock[d] = "closed"
    <2>1. \A S : sock' = Written(S) => \A d \in Conn : sock'[d] = "closed" => sock[d] = "closed"
      BY WrittenClosed
    <2>2. sock' = EndedAfterWrite(c) => \A d \in Conn : sock'[d] = "closed" => sock[d] = "closed"
      BY WrittenClosed
    <2>3. \/ sock' = sock \/ sock' = EndedAfterWrite(c)
          \/ \E S : sock' = Written(S)
      <3>1. CASE Join(c)
        BY <3>1 DEF Join
      <3>2. CASE Leave(c)
        BY <3>2 DEF Leave
      <3>3. CASE Relay(c)
        BY <3>3 DEF Relay
      <3>4. CASE FinishHello(c) \/ FinishStore(c)
        BY <3>4 DEF FinishHello, FinishStore
      <3>5. CASE BeginHello(c) \/ BeginStore(c) \/ LegacyHello(c) \/ InvalidHello(c)
        BY <3>5 DEF BeginHello, BeginStore, LegacyHello, InvalidHello
      <3>6. CASE RepeatedHello(c) \/ RefuseJoin(c) \/ RefusePacket(c)
        BY <3>6 DEF RepeatedHello, RefuseJoin, RefusePacket
      <3> QED BY <3>1, <3>2, <3>3, <3>4, <3>5, <3>6 DEF Handle
    <2> QED BY <2>1, <2>2, <2>3
  <1>2. late' = late
    BY DEF Handle, BeginHello, FinishHello, LegacyHello, InvalidHello, RepeatedHello, BeginStore,
        FinishStore, RefuseJoin, Join, Leave, RefusePacket, Relay
  <1>3. queue[c] # <<>> \/ busy[c] # "idle"
    BY TakeBusy
    DEF Handle, BeginHello, FinishHello, LegacyHello, InvalidHello, RepeatedHello, BeginStore,
        FinishStore, RefuseJoin, Join, Leave, RefusePacket, Relay
  <1>4. \A d \in Conn : d # c => queue'[d] = queue[d] /\ busy'[d] = busy[d]
    BY TakeBusy
    DEF Handle, BeginHello, FinishHello, LegacyHello, InvalidHello, RepeatedHello, BeginStore,
        FinishStore, RefuseJoin, Join, Leave, RefusePacket, Relay, TypeOK
  <1>5. \A d \in Conn : d # c /\ linkRoom[d] = NoRoom => linkRoom'[d] = NoRoom
    <2>1. CASE Join(c)
      BY <2>1, JoinKeepsRooms
    <2>2. CASE Leave(c)
      BY <2>2, LeaveLinkKeepsRooms DEF Leave
    <2>3. CASE linkRoom' = linkRoom
      BY <2>3
    <2> QED BY <2>1, <2>2, <2>3
            DEF Handle, BeginHello, FinishHello, LegacyHello, InvalidHello, RepeatedHello,
                BeginStore, FinishStore, RefuseJoin, RefusePacket, Relay, RoomVars
  <1> QED BY <1>1, <1>2, <1>3, <1>4, <1>5 DEF GhostInv

\* Every step keeps it: the 'close' handler leaves no closed connection of an
\* empty chain in a room, and nothing revives such a connection.
LEMMA NextGhostInv == RoomInv /\ GhostInv /\ [Next]_vars => GhostInv'
  <1> SUFFICES ASSUME RoomInv, GhostInv, [Next]_vars PROVE GhostInv'
    OBVIOUS
  <1> USE DEF RoomInv
  <1>1. CASE UNCHANGED vars
    BY <1>1 DEF vars, GhostInv
  <1>2. ASSUME NEW c \in Conn, Step(c) PROVE GhostInv'
    <2>1. CASE Accept(c)
      BY <2>1 DEF Accept, GhostInv, RoomVars, TypeOK
    <2>2. ASSUME NEW m \in Requests, Receive(c, m) PROVE GhostInv'
      <3>1. sock[c] # "closed" /\ UNCHANGED <<sock, busy, late, linkRoom>>
        BY <2>2 DEF Receive, RoomVars
      <3>2. \A d \in Conn : d # c => queue'[d] = queue[d]
        BY <2>2 DEF Receive, TypeOK
      <3> QED BY <3>1, <3>2 DEF GhostInv
    <2>3. CASE End(c)
      BY <2>3, WrittenClosed DEF End, GhostInv, RoomVars
    <2>4. CASE Close(c)
      <3>1. \A d \in Conn : d # c /\ sock'[d] = "closed" => sock[d] = "closed"
        BY <2>4, WrittenClosed DEF Close, Written, TypeOK
      <3>2. /\ UNCHANGED <<busy, queue>>
            /\ late'[c] = (queue[c] # <<>> \/ busy[c] # "idle")
            /\ \A d \in Conn : d # c => late'[d] = late[d]
        BY <2>4 DEF Close, TypeOK
      <3>3. linkRoom'[c] = NoRoom /\ \A d \in Conn : linkRoom[d] = NoRoom => linkRoom'[d] = NoRoom
        BY <2>4, LeaveLinkKeepsRooms DEF Close
      <3> QED BY <3>1, <3>2, <3>3 DEF GhostInv
    <2>5. CASE Handle(c)
      BY <2>5, HandleGhost
    <2>6. CASE WindowPasses(c)
      BY <2>6 DEF WindowPasses, ConnVars, RoomVars, GhostInv
    <2> QED BY <1>2, <2>1, <2>2, <2>3, <2>4, <2>5, <2>6 DEF Step
  <1> QED BY <1>1, <1>2 DEF Next

\* A closed connection sits in a room only if its promise chain still held
\* work when its socket closed.
THEOREM GhostsAlwaysHadBacklog == Spec => []GhostsHadBacklog
  <1>1. Init => GhostInv
    BY DEF Init, GhostInv
  <1>2. RoomInv /\ GhostInv => GhostsHadBacklog
    BY DEF RoomInv, TypeOK, GhostInv, GhostsHadBacklog
  <1> QED BY <1>1, <1>2, InitRoomInv, NextRoomInv, NextGhostInv, PTL DEF Spec

-----------------------------------------------------------------------------
(* LinkRooms implements LinkSession.                                       *)

seats == [r \in Room |-> linkRooms[r].members]

\* Whoever has no link room is seated nowhere.
LEMMA UnseatedOutside ==
  ASSUME RoomInv, NEW c \in Conn, linkRoom[c] = NoRoom
  PROVE  ~Session!Seated(c)
  <1>1. \A r \in Room, i \in {0, 1} : linkRooms[r].members[i] # c
    BY NullAssumption DEF RoomInv, RoomsAgree, Slot
  <1> QED BY <1>1 DEF Session!Seated

\* A join that is admitted seats its connection first or second in its room.
LEMMA JoinSeats ==
  ASSUME RoomInv, NEW c \in Conn, Join(c)
  PROVE  Session!Next
  <1> DEFINE m == Head(queue[c])
             r == m.room
             i == FreeSlot(r)
             members == [linkRooms[r].members EXCEPT ![i] = c]
             k == IF Absent(r) THEN m.core ELSE linkRooms[r].core
  <1>1. r \in Room
    <2>1. m \in Message /\ m.type = "join"
      BY TakeType DEF Join, RoomInv
    <2> QED BY <2>1 DEF Message, JoinMsg, PacketMsg, PlainMsg
  <1>2. linkRoom[c] = NoRoom /\ ~Unavailable(m)
    BY DEF Join, JoinRefused
  <1>3. linkRooms' = [linkRooms EXCEPT ![r] = [core |-> k, members |-> members]]
    BY DEF Join
  <1>4. ~Session!Seated(c)
    BY <1>2, UnseatedOutside
  <1>5. linkRooms[r].members \in [Slot -> Conn \cup {NoConn}]
    BY <1>1 DEF RoomInv, TypeOK
  <1>6. seats' = [seats EXCEPT ![r] = members]
    BY <1>1, <1>3 DEF seats, RoomInv, TypeOK
  <1>7. CASE linkRooms[r].members[0] = NoConn
    <2>1. linkRooms[r] = NoEntry /\ i = 0
      BY <1>1, <1>7 DEF RoomInv, HostPresent, FreeSlot
    <2>2. linkRooms[r].members = [j \in {0, 1} |-> NoConn]
      BY <2>1 DEF NoEntry, Vacant, Slot
    <2>3. members = [j \in {0, 1} |-> IF j = 0 THEN c ELSE NoConn]
      BY <2>1, <2>2
    <2>4. Session!Wait(c, r)
      BY <1>1, <1>4, <1>6, <2>2, <2>3 DEF Session!Wait, Session!Empty, seats
    <2> QED BY <1>1, <2>4 DEF Session!Next, Session!Wait
  <1>8. CASE linkRooms[r].members[0] # NoConn
    <2>1. i = 1 /\ linkRooms[r].members[1] = NoConn
      BY <1>1, <1>2, <1>8 DEF FreeSlot, Unavailable, Full, RoomInv, HostPresent, Slot
    <2>2. members = [j \in {0, 1} |-> IF j = 1 THEN c ELSE linkRooms[r].members[0]]
      BY <1>5, <2>1 DEF Slot
    <2>3. Session!Pair(c, r)
      BY <1>1, <1>4, <1>6, <1>8, <2>1, <2>2 DEF Session!Pair, seats
    <2> QED BY <1>1, <2>3 DEF Session!Next, Session!Pair
  <1> QED BY <1>7, <1>8

\* Leaving empties the room of a host, and one seat of the room of a guest.
LEMMA LeaveUnseats ==
  ASSUME RoomInv, NEW c \in Conn, LeaveLink(c)
  PROVE  Session!Next \/ seats' = seats
  <1>1. CASE linkRoom[c] = NoRoom
    BY <1>1 DEF LeaveLink, RoomVars, seats
  <1>2. CASE linkRoom[c] # NoRoom
    <2> DEFINE r == linkRoom[c]
               k == linkClientId[c]
    <2>1. r \in Room /\ k \in Slot /\ linkRooms[r].members[k] = c /\ c # NoConn
      BY <1>2, NullAssumption DEF RoomInv, TypeOK, RoomsAgree
    <2>2. linkRooms[r].members \in [Slot -> Conn \cup {NoConn}]
      BY <2>1 DEF RoomInv, TypeOK
    <2>3. linkRooms[r].members[0] # NoConn
      BY <2>1, NullAssumption DEF RoomInv, HostPresent, NoEntry, Vacant, Slot
    <2>4. linkRooms' = [linkRooms EXCEPT ![r] = RoomAfterLeave(c, r)]
      BY <1>2 DEF LeaveLink
    <2>5. seats' = [seats EXCEPT ![r] = RoomAfterLeave(c, r).members]
      BY <2>1, <2>4 DEF seats, RoomInv, TypeOK
    <2>6. CASE k = 0
      <3>1. RoomAfterLeave(c, r).members = [j \in {0, 1} |-> NoConn]
        BY <2>6 DEF RoomAfterLeave, NoEntry, Vacant, Slot
      <3>2. Session!HostGoes(r)
        BY <2>1, <2>3, <2>5, <3>1 DEF Session!HostGoes, Session!Empty, seats
      <3> QED BY <2>1, <3>2 DEF Session!Next, Session!HostGoes
    <2>7. CASE k = 1
      <3>1. RoomAfterLeave(c, r).members = [linkRooms[r].members EXCEPT ![1] = NoConn]
        <4>1. ~(k = 0 \/ [linkRooms[r].members EXCEPT ![k] = NoConn][0] = NoConn)
          BY <2>2, <2>3, <2>7 DEF Slot
        <4>2. RoomAfterLeave(c, r) =
                [core |-> linkRooms[r].core, members |-> [linkRooms[r].members EXCEPT ![k] = NoConn]]
          <5>1. linkRooms[r] \in [core : Core \cup {NoCore}, members : [Slot -> Conn \cup {NoConn}]]
            BY <2>1 DEF RoomInv, TypeOK
          <5>2. RoomAfterLeave(c, r) = [linkRooms[r] EXCEPT !.members = [linkRooms[r].members EXCEPT ![k] = NoConn]]
            BY <4>1 DEF RoomAfterLeave
          <5> QED BY <5>1, <5>2
        <4> QED BY <2>7, <4>2
      <3>2. [linkRooms[r].members EXCEPT ![1] = NoConn]
              = [j \in {0, 1} |-> IF j = 1 THEN NoConn ELSE linkRooms[r].members[0]]
        BY <2>2 DEF Slot
      <3>3. Session!GuestGoes(r)
        BY <2>1, <2>5, <2>7, <3>1, <3>2 DEF Session!GuestGoes, seats
      <3> QED BY <2>1, <3>3 DEF Session!Next, Session!GuestGoes
    <2> QED BY <2>1, <2>6, <2>7 DEF Slot
  <1> QED BY <1>1, <1>2

\* The rooms of the server are link sessions: one trainer waits or two are
\* paired, each is in one room at most, and a room goes with its host.
THEOREM ImplementsSession == Spec => SessionSpec
  <1>1. Init => Session!Init
    BY DEF Init, Session!Init, Session!Empty, NoEntry, Vacant, Slot
  <1>2. RoomInv /\ [Next]_vars => [Session!Next]_(seats)
    <2> SUFFICES ASSUME RoomInv, [Next]_vars PROVE Session!Next \/ seats' = seats
      OBVIOUS
    <2>1. CASE UNCHANGED linkRooms
      BY <2>1 DEF seats
    <2>2. ASSUME NEW c \in Conn, Join(c) PROVE Session!Next
      BY <2>2, JoinSeats
    <2>3. ASSUME NEW c \in Conn, LeaveLink(c) PROVE Session!Next \/ seats' = seats
      BY <2>3, LeaveUnseats
    <2> QED
      BY <2>1, <2>2, <2>3
      DEF Next, Step, Handle, vars, RoomVars, ConnVars, Accept, Receive, End, Close, BeginHello,
          FinishHello, LegacyHello, InvalidHello, RepeatedHello, BeginStore, FinishStore,
          RefuseJoin, Leave, RefusePacket, Relay, WindowPasses
  <1> QED BY <1>1, <1>2, RoomInvariant, PTL DEF Spec, SessionSpec, Session!Spec, seats

-----------------------------------------------------------------------------
(* What a trainer was told last is what the server holds of it.            *)

Truth(c) ==
  sock[c] = "open" =>
    IF linkRoom[c] = NoRoom THEN told[c] \in {NoNotice, Ended, Left}
    ELSE told[c] = IF Full(linkRooms[linkRoom[c]].members)
                   THEN Started(linkClientId[c]) ELSE Waiting

\* A connection that is yet to be accepted has not been heard of.
Unheard(c) ==
  sock[c] = "new" =>
    queue[c] = <<>> /\ busy[c] = "idle" /\ linkRoom[c] = NoRoom /\ told[c] = NoNotice

TruthInv == \A c \in Conn : Truth(c) /\ Unheard(c)

\* Writing to sockets, and ending one, neither opens nor accepts a socket.
LEMMA WrittenOpen ==
  ASSUME TypeOK, NEW S, NEW c \in Conn, NEW d \in Conn
  PROVE  /\ Written(S)[d] = "open" => sock[d] = "open"
         /\ Written(S)[d] = "new" => sock[d] = "new"
         /\ EndedAfterWrite(c)[d] = "open" => sock[d] = "open"
         /\ EndedAfterWrite(c)[d] = "new" => sock[d] = "new"
  BY DEF TypeOK, Written, EndedAfterWrite

\* A step that touches neither rooms nor notices keeps the truth of whoever
\* was open before.
LEMMA QuietTruth ==
  ASSUME NEW d \in Conn, Truth(d), UNCHANGED <<RoomVars, told>>,
         sock'[d] = "open" => sock[d] = "open"
  PROVE  Truth(d)'
  BY DEF Truth, RoomVars, Full

\* leaveLink tells those who stay what has become of their room.
LEMMA LeaveTruth ==
  ASSUME RoomInv, NEW c \in Conn, LeaveLink(c), NEW d \in Conn, d # c, Truth(d),
         sock[d] = "open", told'[d] = LeaveNotice(c)[d]
  PROVE  Truth(d)'
  <1> USE DEF RoomInv
  <1>1. CASE linkRoom[c] = NoRoom
    <2>1. UNCHANGED RoomVars /\ told'[d] = told[d]
      BY <1>1 DEF LeaveLink, LeaveNotice, Remaining
    <2> QED BY <2>1 DEF Truth, RoomVars, Full
  <1>2. CASE linkRoom[c] # NoRoom
    <2> DEFINE r == linkRoom[c]
               k == linkClientId[c]
    <2>1. /\ r \in Room /\ k \in Slot /\ linkRooms[r].members[k] = c
          /\ linkRooms[r] \in [core : Core \cup {NoCore}, members : [Slot -> Conn \cup {NoConn}]]
      BY <1>2 DEF TypeOK, RoomsAgree
    <2>2. linkRooms' = [linkRooms EXCEPT ![r] = RoomAfterLeave(c, r)]
      BY <1>2 DEF LeaveLink
    <2>3. /\ linkRoom'[d] = IF d \in Orphans(c) THEN NoRoom ELSE linkRoom[d]
          /\ linkClientId'[d] = IF d \in Orphans(c) THEN -1 ELSE linkClientId[d]
      BY <1>2 DEF LeaveLink
    <2>4. d \in Remaining(c) <=> linkRoom[d] = r
      <3>1. d \in Remaining(c) => linkRoom[d] = r
        BY RemainingInRoom
      <3>2. ASSUME linkRoom[d] = r PROVE d \in Remaining(c)
        <4>1. linkClientId[d] \in Slot /\ linkRooms[r].members[linkClientId[d]] = d
          BY <1>2, <3>2 DEF RoomsAgree
        <4>2. linkClientId[d] # k /\ d # NoConn
          BY <2>1, <4>1, NullAssumption
        <4> QED BY <1>2, <4>1, <4>2 DEF Remaining
      <3> QED BY <3>1, <3>2
    <2>5. CASE linkRoom[d] # r
      <3>1. d \notin Orphans(c) /\ told'[d] = told[d]
        BY <2>4, <2>5 DEF Orphans, LeaveNotice
      <3>2. linkRoom'[d] = linkRoom[d] /\ linkClientId'[d] = linkClientId[d]
        BY <2>3, <3>1
      <3>3. linkRoom[d] # NoRoom => linkRooms'[linkRoom[d]] = linkRooms[linkRoom[d]]
        BY <2>2, <2>5 DEF TypeOK
      <3> QED BY <3>1, <3>2, <3>3 DEF Truth, Full
    <2>6. CASE linkRoom[d] = r /\ k = 0
      <3>1. d \in Orphans(c) /\ told'[d] = Ended
        BY <2>4, <2>6 DEF Orphans, LeaveNotice, Heard
      <3> QED BY <2>3, <3>1 DEF Truth
    <2>7. CASE linkRoom[d] = r /\ k = 1
      <3>1. d \notin Orphans(c) /\ told'[d] = Waiting
        BY <2>4, <2>7 DEF Orphans, LeaveNotice, Heard
      <3>2. linkRooms'[r] = RoomAfterLeave(c, r)
        BY <2>1, <2>2 DEF TypeOK
      <3>3. RoomAfterLeave(c, r).members[1] = NoConn
        BY <2>1, <2>7 DEF RoomAfterLeave, NoEntry, Vacant, Slot
      <3>4. linkRoom'[d] = r /\ r # NoRoom
        BY <1>2, <2>3, <2>7, <3>1
      <3>5. ~Full(linkRooms'[r].members)
        BY <3>2, <3>3 DEF Full, Slot
      <3>6. Full(linkRooms[linkRoom[d]].members)' = Full(linkRooms'[r].members)
        BY <3>4 DEF Full
      <3> QED BY <3>1, <3>4, <3>5, <3>6 DEF Truth
    <2> QED BY <2>1, <2>5, <2>6, <2>7 DEF Slot
  <1> QED BY <1>1, <1>2

\* joinLink tells both when the room is full, and the host that it waits.
LEMMA JoinTruth ==
  ASSUME RoomInv, NEW c \in Conn, Join(c), NEW d \in Conn, Truth(d)
  PROVE  Truth(d)'
  <1> USE DEF RoomInv
  <1> DEFINE m == Head(queue[c])
             r == m.room
             i == FreeSlot(r)
             members == [linkRooms[r].members EXCEPT ![i] = c]
  <1>1. m \in Message /\ m.type = "join"
    BY TakeType DEF Join
  <1>2. r \in Room
    BY <1>1 DEF Message, JoinMsg, PacketMsg, PlainMsg
  <1>3. linkRoom[c] = NoRoom /\ ~Unavailable(m)
    BY DEF Join, JoinRefused
  <1>4. /\ linkRooms' = [linkRooms EXCEPT ![r] =
                           [core |-> IF Absent(r) THEN m.core ELSE linkRooms[r].core,
                            members |-> members]]
        /\ linkRoom' = [linkRoom EXCEPT ![c] = r]
        /\ linkClientId' = [linkClientId EXCEPT ![c] = i]
        /\ told'[d] = IF Full(members)
                      THEN IF d = members[0] THEN Heard(d, Started(0))
                           ELSE IF d = members[1] THEN Heard(d, Started(1)) ELSE told[d]
                      ELSE IF d = c THEN Heard(d, Waiting) ELSE told[d]
        /\ \E S : sock' = Written(S)
    BY DEF Join
  <1>5. i \in Slot /\ linkRooms[r].members \in [Slot -> Conn \cup {NoConn}]
    BY <1>2 DEF FreeSlot, Slot, TypeOK
  <1>6. /\ members[i] = c
        /\ \A j \in Slot : j # i => members[j] = linkRooms[r].members[j]
    BY <1>5
  <1>7. linkRooms'[r].members = members /\ \A q \in Room : q # r => linkRooms'[q] = linkRooms[q]
    BY <1>2, <1>4 DEF TypeOK
  <1>8. SUFFICES ASSUME sock'[d] = "open" PROVE Truth(d)'
    BY DEF Truth
  <1>9. sock[d] = "open"
    BY <1>4, <1>8, WrittenOpen
  <1>10. r # NoRoom
    BY <1>2, NullAssumption
  <1> HIDE DEF members, m, i
  <1>11. ASSUME linkRoom'[d] = r, told'[d] = IF Full(members) THEN Started(linkClientId'[d]) ELSE Waiting
         PROVE  Truth(d)'
    BY <1>7, <1>10, <1>11 DEF Truth, Full
  <1>12. CASE d = c
    <2>1. linkRoom'[d] = r /\ linkClientId'[d] = i
      BY <1>4, <1>12 DEF TypeOK
    <2>2. i = 1 => members[0] # c
      <3>1. \A j \in Slot : linkRooms[r].members[j] # c
        BY <1>2, <1>3, NullAssumption DEF RoomsAgree
      <3> QED BY <1>6, <3>1 DEF Slot
    <2>3. told'[d] = IF Full(members) THEN Started(i) ELSE Waiting
      BY <1>4, <1>5, <1>6, <1>9, <1>12, <2>2 DEF Heard, Slot
    <2> QED BY <1>11, <2>1, <2>3
  <1>13. CASE d # c
    <2>1. linkRoom'[d] = linkRoom[d] /\ linkClientId'[d] = linkClientId[d]
      BY <1>4, <1>13 DEF TypeOK
    <2>2. CASE linkRoom[d] = r
      <3>1. linkClientId[d] \in Slot /\ linkRooms[r].members[linkClientId[d]] = d
        BY <1>10, <2>2 DEF RoomsAgree
      <3>2. linkRooms[r].members[0] # NoConn /\ ~Absent(r)
        BY <1>2, <3>1, NullAssumption DEF HostPresent, NoEntry, Vacant
      <3>3. i = 1
        BY <3>2 DEF FreeSlot, i
      <3>4. linkRooms[r].members[1] = NoConn
        BY <1>3, <3>2 DEF Unavailable, Full, Slot
      <3>5. linkClientId[d] = 0
        BY <3>1, <3>4, NullAssumption DEF Slot
      <3>6. members[0] = d /\ members[1] = c
        BY <1>6, <3>1, <3>3, <3>5 DEF Slot
      <3>7. Full(members)
        BY <3>6, NullAssumption DEF Full, Slot
      <3> QED BY <1>4, <1>9, <1>11, <2>1, <2>2, <3>5, <3>6, <3>7 DEF Heard
    <2>3. CASE linkRoom[d] # r
      <3>1. d # members[0] /\ d # members[1]
        <4>1. \A j \in Slot : linkRooms[r].members[j] # d
          BY <1>2, <2>3, NullAssumption DEF RoomsAgree
        <4>2. \A j \in Slot : members[j] # d
          BY <1>6, <1>13, <4>1
        <4> QED BY <4>2 DEF Slot
      <3>2. told'[d] = told[d]
        BY <1>4, <1>13, <3>1
      <3>3. linkRoom[d] # NoRoom => linkRooms'[linkRoom[d]] = linkRooms[linkRoom[d]]
        BY <1>7, <2>3 DEF TypeOK
      <3> QED BY <1>9, <2>1, <3>2, <3>3 DEF Truth, Full
    <2> QED BY <2>2, <2>3
  <1> QED BY <1>12, <1>13

\* A step is that of a connection that was accepted before, or its accept.
LEMMA StepTruth ==
  ASSUME RoomInv, TruthInv, NEW c \in Conn, Step(c), NEW d \in Conn
  PROVE  Truth(d)'
  <1> USE DEF RoomInv
  <1>1. Truth(d) /\ Unheard(d) /\ Unheard(c)
    BY DEF TruthInv
  <1>2. \A S : sock' = Written(S) => (sock'[d] = "open" => sock[d] = "open")
    BY WrittenOpen
  <1>3. sock' = EndedAfterWrite(c) => (sock'[d] = "open" => sock[d] = "open")
    BY WrittenOpen
  <1>4. CASE Accept(c)
    <2>1. UNCHANGED <<RoomVars, told>> /\ (sock'[d] = "open" => sock[d] = "open" \/ (d = c /\ sock[d] = "new"))
      BY <1>4 DEF Accept, TypeOK
    <2>2. CASE d = c
      BY <1>1, <1>4, <2>1, <2>2 DEF Accept, Unheard, Truth, RoomVars
    <2>3. CASE d # c
      BY <1>1, <2>1, <2>3, QuietTruth
    <2> QED BY <2>2, <2>3
  <1>5. CASE Join(c)
    BY <1>1, <1>5, JoinTruth
  <1>6. CASE Leave(c)
    <2>1. LeaveLink(c) /\ (\E S : sock' = Written(S)) /\ told' = [LeaveNotice(c) EXCEPT ![c] = Heard(c, Left)]
      BY <1>6 DEF Leave
    <2>2. SUFFICES ASSUME sock'[d] = "open" PROVE Truth(d)'
      BY DEF Truth
    <2>3. sock[d] = "open"
      BY <1>2, <2>1, <2>2
    <2>4. CASE d = c
      <3>1. linkRoom'[d] = NoRoom
        BY <2>1, <2>4, LeaveLinkKeepsRooms
      <3>2. told'[d] = Left
        BY <2>1, <2>3, <2>4 DEF LeaveNotice, Heard
      <3> QED BY <3>1, <3>2 DEF Truth
    <2>5. CASE d # c
      <3>1. told'[d] = LeaveNotice(c)[d]
        BY <2>1, <2>5 DEF LeaveNotice
      <3> QED BY <1>1, <2>1, <2>3, <2>5, <3>1, LeaveTruth
    <2> QED BY <2>4, <2>5
  <1>7. CASE Close(c)
    <2>1. LeaveLink(c) /\ sock' = [Written(Remaining(c)) EXCEPT ![c] = "closed"] /\ told' = LeaveNotice(c)
      BY <1>7 DEF Close
    <2>2. SUFFICES ASSUME sock'[d] = "open" PROVE Truth(d)'
      BY DEF Truth
    <2>3. d # c /\ sock[d] = "open"
      <3>1. d # c
        BY <2>1, <2>2 DEF Written
      <3>2. Written(Remaining(c))[d] = "open"
        BY <2>1, <2>2, <3>1 DEF Written
      <3> QED BY <3>1, <3>2, WrittenOpen
    <2> QED BY <1>1, <2>1, <2>3, LeaveTruth
  <1>8. CASE Relay(c)
    <2>1. UNCHANGED <<RoomVars, told>> /\ \E S : sock' = Written(S)
      BY <1>8 DEF Relay
    <2> QED BY <1>1, <1>2, <2>1, QuietTruth
  <1>9. CASE (\E m \in Requests : Receive(c, m)) \/ End(c) \/ WindowPasses(c)
    <2>1. UNCHANGED <<RoomVars, told>> /\ (sock' = sock \/ sock' = EndedAfterWrite(c))
      BY <1>9 DEF Receive, End, WindowPasses, ConnVars
    <2> QED BY <1>1, <1>3, <2>1, QuietTruth
  <1>10. CASE \/ BeginHello(c) \/ FinishHello(c) \/ LegacyHello(c) \/ InvalidHello(c)
              \/ RepeatedHello(c) \/ BeginStore(c) \/ FinishStore(c) \/ RefuseJoin(c) \/ RefusePacket(c)
    <2>1. UNCHANGED <<RoomVars, told>>
      BY <1>10 DEF BeginHello, FinishHello, LegacyHello, InvalidHello, RepeatedHello, BeginStore,
                   FinishStore, RefuseJoin, RefusePacket
    <2>2. sock' = sock \/ sock' = EndedAfterWrite(c) \/ \E S : sock' = Written(S)
      BY <1>10 DEF BeginHello, FinishHello, LegacyHello, InvalidHello, RepeatedHello, BeginStore,
                   FinishStore, RefuseJoin, RefusePacket
    <2> QED BY <1>1, <1>2, <1>3, <2>1, <2>2, QuietTruth
  <1> QED BY <1>4, <1>5, <1>6, <1>7, <1>8, <1>9, <1>10 DEF Step, Handle

\* Nobody acts for, seats or writes to a connection that is yet to be accepted.
LEMMA StepUnheard ==
  ASSUME RoomInv, TruthInv, NEW c \in Conn, Step(c), NEW d \in Conn
  PROVE  Unheard(d)'
  <1> USE DEF RoomInv
  <1>1. Unheard(d) /\ Unheard(c)
    BY DEF TruthInv
  <1>2. SUFFICES ASSUME sock'[d] = "new" PROVE Unheard(d)'
    BY DEF Unheard
  <1>3. /\ \A S : Written(S)[d] = "new" => sock[d] = "new"
        /\ EndedAfterWrite(c)[d] = "new" => sock[d] = "new"
    BY WrittenOpen
  <1>4. CASE Handle(c)
    <2>1. sock[c] # "new"
      <3>1. queue[c] # <<>> \/ busy[c] # "idle"
        BY <1>4, TakeBusy
        DEF Handle, BeginHello, FinishHello, LegacyHello, InvalidHello, RepeatedHello, BeginStore,
            FinishStore, RefuseJoin, Join, Leave, RefusePacket, Relay
      <3> QED BY <1>1, <3>1 DEF Unheard
    <2>2. sock' = sock \/ sock' = EndedAfterWrite(c) \/ \E S : sock' = Written(S)
      BY <1>4
      DEF Handle, BeginHello, FinishHello, LegacyHello, InvalidHello, RepeatedHello, BeginStore,
          FinishStore, RefuseJoin, Join, Leave, RefusePacket, Relay
    <2>3. sock[d] = "new" /\ d # c
      BY <1>2, <1>3, <2>1, <2>2
    <2>4. queue'[d] = queue[d] /\ busy'[d] = busy[d]
      BY <1>4, <2>3, TakeBusy
      DEF Handle, BeginHello, FinishHello, LegacyHello, InvalidHello, RepeatedHello, BeginStore,
          FinishStore, RefuseJoin, Join, Leave, RefusePacket, Relay, TypeOK
    <2>5. linkRoom'[d] = NoRoom
      <3>1. CASE Join(c)
        BY <1>1, <2>3, <3>1, JoinKeepsRooms DEF Unheard
      <3>2. CASE Leave(c)
        BY <1>1, <2>3, <3>2, LeaveLinkKeepsRooms DEF Leave, Unheard
      <3>3. CASE linkRoom' = linkRoom
        BY <1>1, <2>3, <3>3 DEF Unheard
      <3> QED BY <1>4, <3>1, <3>2, <3>3
              DEF Handle, BeginHello, FinishHello, LegacyHello, InvalidHello, RepeatedHello,
                  BeginStore, FinishStore, RefuseJoin, RefusePacket, Relay, RoomVars
    <2>6. told'[d] = told[d]
      <3>1. CASE Join(c)
        BY <2>3, <3>1 DEF Join, Heard
      <3>2. CASE Leave(c)
        BY <2>3, <3>2 DEF Leave, LeaveNotice, Heard
      <3>3. CASE told' = told
        BY <3>3
      <3> QED BY <1>4, <3>1, <3>2, <3>3
              DEF Handle, BeginHello, FinishHello, LegacyHello, InvalidHello, RepeatedHello,
                  BeginStore, FinishStore, RefuseJoin, RefusePacket, Relay
    <2> QED BY <1>1, <2>3, <2>4, <2>5, <2>6 DEF Unheard
  <1>5. CASE Accept(c)
    <2>1. d # c
      BY <1>2, <1>5 DEF Accept, TypeOK
    <2> QED BY <1>1, <1>5, <2>1 DEF Accept, Unheard, RoomVars
  <1>6. ASSUME NEW m \in Requests, Receive(c, m) PROVE Unheard(d)'
    <2>1. UNCHANGED <<sock, busy, linkRoom, told>> /\ d # c
      BY <1>2, <1>6 DEF Receive, RoomVars
    <2>2. queue'[d] = queue[d]
      BY <1>6, <2>1 DEF Receive, TypeOK
    <2> QED BY <1>1, <2>1, <2>2 DEF Unheard
  <1>7. CASE End(c)
    BY <1>1, <1>3, <1>7 DEF End, Unheard, RoomVars
  <1>8. CASE WindowPasses(c)
    BY <1>1, <1>8 DEF WindowPasses, ConnVars, RoomVars, Unheard
  <1>9. CASE Close(c)
    <2>1. d # c
      BY <1>2, <1>9 DEF Close, Written
    <2>2. sock[d] = "new"
      <3>1. Written(Remaining(c))[d] = "new"
        BY <1>2, <1>9, <2>1 DEF Close, Written
      <3> QED BY <1>3, <3>1
    <2>3. linkRoom'[d] = NoRoom
      BY <1>1, <1>9, <2>2, LeaveLinkKeepsRooms DEF Close, Unheard
    <2>4. told'[d] = told[d] /\ UNCHANGED <<queue, busy>>
      BY <1>9, <2>2 DEF Close, LeaveNotice, Heard
    <2> QED BY <1>1, <2>2, <2>3, <2>4 DEF Unheard
  <1> QED BY <1>4, <1>5, <1>6, <1>7, <1>8, <1>9 DEF Step

\* Every step keeps it.
LEMMA NextTruthInv == RoomInv /\ TruthInv /\ [Next]_vars => TruthInv'
  <1> SUFFICES ASSUME RoomInv, TruthInv, [Next]_vars, NEW d \in Conn PROVE Truth(d)' /\ Unheard(d)'
    BY DEF TruthInv
  <1>1. CASE UNCHANGED vars
    BY <1>1 DEF vars, TruthInv, Truth, Unheard, Full
  <1>2. ASSUME NEW c \in Conn, Step(c) PROVE Truth(d)' /\ Unheard(d)'
    BY <1>2, StepTruth, StepUnheard
  <1> QED BY <1>1, <1>2 DEF Next

\* The last notice that reached an open connection is what the server holds
\* of it: it is told Started, Waiting or that the session is over, and that
\* stays true until the next notice.
THEOREM TruthfulNotices == Spec => []ToldTheTruth
  <1>1. Init => TruthInv
    BY DEF Init, TruthInv, Truth, Unheard
  <1>2. TruthInv => ToldTheTruth
    BY DEF TruthInv, Truth, ToldTheTruth
  <1> QED BY <1>1, <1>2, InitRoomInv, NextRoomInv, NextTruthInv, PTL DEF Spec

\* A relay writes to the other client of a session that was told it started.
LEMMA RelayWithinSession ==
  ASSUME RoomInv, TruthInv, NEW c \in Conn, Relay(c)
  PROVE  PacketsWithinSession'
  <1> USE DEF RoomInv
  <1> DEFINE r == linkRoom[c]
             k == linkClientId[c]
             peers == Addressed(c, Head(queue[c]).to)
  <1>1. Head(queue[c]) \in PacketMsg
    BY TakeType DEF Relay, Message, JoinMsg, PacketMsg, PlainMsg
  <1>2. /\ r \in Room /\ r # NoRoom /\ k \in Slot /\ linkRooms[r].members[k] = c
        /\ Full(linkRooms[r].members)
    BY DEF Relay, NotInSession, TypeOK, RoomsAgree
  <1>3. SUFFICES ASSUME NEW p \in wire', sock'[p[2]] = "open" PROVE told'[p[2]] = Started(1 - p[1])
    BY DEF PacketsWithinSession
  <1>4. p[1] = k /\ p[2] \in peers
    BY <1>3 DEF Relay
  <1> DEFINE d == p[2]
  <1>5. d # c /\ \E j \in Slot : d = linkRooms[r].members[j]
    BY <1>1, <1>4 DEF Addressed, PacketMsg, Target, Slot
  <1>6. PICK j \in Slot : d = linkRooms[r].members[j]
    BY <1>5
  <1>7. j = 1 - k
    BY <1>2, <1>5, <1>6 DEF Slot
  <1>8. d \in Conn /\ linkRoom[d] = r /\ linkClientId[d] = j
    BY <1>2, <1>6, MembersType DEF Full, RoomsAgree
  <1>9. sock[d] = "open"
    <2>1. \E S : sock' = Written(S)
      BY DEF Relay
    <2> QED BY <1>3, <1>8, <2>1, WrittenOpen
  <1>10. told[d] = Started(j)
    BY <1>2, <1>8, <1>9 DEF TruthInv, Truth
  <1> QED BY <1>4, <1>7, <1>10 DEF Relay

\* A link_packet reaches an open connection only within its session, and
\* names the one other client of it.
THEOREM PacketsStayWithinSession == Spec => []PacketsWithinSession
  <1>1. Init => TruthInv /\ PacketsWithinSession
    BY DEF Init, TruthInv, Truth, Unheard, PacketsWithinSession
  <1>2. RoomInv /\ TruthInv /\ PacketsWithinSession /\ [Next]_vars => PacketsWithinSession'
    <2> SUFFICES ASSUME RoomInv, TruthInv, PacketsWithinSession, [Next]_vars PROVE PacketsWithinSession'
      OBVIOUS
    <2>1. CASE UNCHANGED vars
      BY <2>1 DEF vars, PacketsWithinSession
    <2>2. CASE wire' = {}
      BY <2>2 DEF PacketsWithinSession
    <2>3. ASSUME NEW c \in Conn, Relay(c) PROVE PacketsWithinSession'
      BY <2>3, RelayWithinSession
    <2> QED BY <2>1, <2>2, <2>3
            DEF Next, Step, Handle, Accept, Receive, End, Close, BeginHello, FinishHello, LegacyHello,
                InvalidHello, RepeatedHello, BeginStore, FinishStore, RefuseJoin, Join, Leave,
                RefusePacket, WindowPasses
  <1> QED BY <1>1, <1>2, InitRoomInv, NextRoomInv, NextTruthInv, PTL DEF Spec
-----------------------------------------------------------------------------
(***************************************************************************)
(* OnlineClient. The two properties compare the client with a server whose *)
(* lines are still on their way, so the invariant is about the queue of    *)
(* lines and the queue of notices as a whole: nothing about a link is in   *)
(* either before the welcome (UnknownInv, WelcomeInv), and a join is       *)
(* queued once, for a connection without a seat (JoinInv). Steps are       *)
(* sorted into kinds by what they do to the two queues (ClientKinds); that *)
(* each kind keeps the invariant is proved from lemmas about sequences     *)
(* alone.                                                                  *)
(***************************************************************************)

\* x is in the sequence s once at most
Once(s, x) == \A i, j \in DOMAIN s : s[i] = x /\ s[j] = x => i = j

LinkLines == {"join", "leave", "packet"}
Greeting == {"welcome", "locations", "answer"}

\* A record that is held was in the buffer, and is still there.
HeldInv == held <= Len(me.out) /\ (held # 0 => me.mode = "active")

\* Only a client with a connection gets to send its state.
TurnInv == pc = "send" => me.mode = "active"

\* A client without a connection has forgotten the last one.
OfflineInv ==
  /\ me.mode # "active" =>
       /\ socket = <<>> /\ upstream = <<>> /\ inbox = <<>>
       /\ bridge = "none" /\ srv = "none" /\ seat = "none" /\ ~over
       /\ me.sent = NoPlace /\ ~me.auth /\ ~me.joined /\ ~me.started
  /\ pc = "crashed" => me.mode # "active"

\* The server has heard of no link from a client that was not welcomed, and
\* welcomes it once.
UnknownInv ==
  ~me.auth =>
    /\ seat = "none" /\ ~me.joined /\ ~me.started
    /\ Range(Queue) \cap LinkLines = {} /\ Range(inbox) \subseteq Greeting
    /\ Once(inbox, "welcome")
WelcomeInv ==
  /\ bridge = "pending" /\ ~over => srv = "none"
  /\ srv \in {"none", "new"} => ~me.auth /\ "welcome" \notin Range(inbox)
  /\ me.auth => "welcome" \notin Range(inbox)

\* A client joins once, before it has a seat.
JoinInv == ~over => Once(Queue, "join") /\ ("join" \in Range(Queue) => seat = "none")

ClientInv ==
  /\ ClientTypeOK /\ HeldInv /\ TurnInv /\ OfflineInv /\ UnknownInv /\ WelcomeInv /\ JoinInv
  /\ PositionIsCurrent /\ LinkAgrees
-----------------------------------------------------------------------------
(* Lemmas about the operators on lines and notices.                        *)

\* The elements of short sequences.
LEMMA RangeShort ==
  /\ Range(<<>>) = {}
  /\ \A a : Range(<<a>>) = {a}
  /\ \A a, b : Range(<<a, b>>) = {a, b}
  BY DEF Range

\* A sequence is its head before its tail.
LEMMA HeadBefore ==
  ASSUME NEW S, NEW s \in Seq(S), s # <<>>
  PROVE  /\ s = <<Head(s)>> \o Tail(s) /\ <<Head(s)>> \in Seq(S)
         /\ Head(s) \in S /\ Tail(s) \in Seq(S)
  <1>1. Len(s) \in Nat \ {0} /\ Tail(s) = SubSeq(s, 2, Len(s)) /\ Head(s) = s[1] /\ Head(s) \in S /\ Tail(s) \in Seq(S)
    BY LenProperties, HeadTailProperties, TailIsSubSeq
  <1>2. SubSeq(s, 1, Len(s)) = <<s[1]>> \o SubSeq(s, 2, Len(s))
    BY <1>1, SubSeqRecursiveFirst
  <1> QED BY <1>1, <1>2, SubSeqFull

\* What is put before a sequence is its head.
LEMMA HeadTailOfConcat ==
  ASSUME NEW S, NEW a \in S, NEW s \in Seq(S)
  PROVE  <<a>> \o s # <<>> /\ Head(<<a>> \o s) = a /\ Tail(<<a>> \o s) = s
  <1> DEFINE t == <<a>> \o s
  <1>1. <<a>> \in Seq(S) /\ Len(<<a>>) = 1 /\ <<a>>[1] = a /\ Len(s) \in Nat
    BY LenProperties
  <1>2. /\ t \in Seq(S) /\ Len(t) = 1 + Len(s)
        /\ \A i \in 1..(1 + Len(s)) : t[i] = IF i <= 1 THEN <<a>>[i] ELSE s[i - 1]
    BY <1>1, ConcatProperties
  <1> HIDE DEF t
  <1>3. t # <<>> /\ t[1] = a
    <2>1. t[1] = <<a>>[1]
      BY <1>1, <1>2
    <2>2. Len(t) # 0
      BY <1>1, <1>2
    <2> QED BY <1>1, <1>2, <2>1, <2>2, EmptySeq
  <1>4. /\ Tail(t) \in Seq(S) /\ Len(Tail(t)) = Len(s) /\ Head(t) = a
        /\ \A i \in 1..Len(Tail(t)) : Tail(t)[i] = t[i + 1]
    BY <1>1, <1>2, <1>3, HeadTailProperties
  <1>5. ASSUME NEW i \in 1..Len(s) PROVE Tail(t)[i] = s[i]
    <2>1. i + 1 \in 1..(1 + Len(s)) /\ ~(i + 1 <= 1) /\ (i + 1) - 1 = i
      BY <1>1
    <2>2. t[i + 1] = s[i]
      BY <1>2, <2>1
    <2> QED BY <1>4, <2>2
  <1>6. Tail(t) = s
    BY <1>4, <1>5, SeqEqual
  <1> QED BY <1>3, <1>4, <1>6 DEF t

\* The elements of a sequence are its head and those of its tail.
LEMMA RangeTail ==
  ASSUME NEW S, NEW s \in Seq(S), s # <<>>
  PROVE  /\ Head(s) \in Range(s) /\ Head(s) \in S /\ Tail(s) \in Seq(S)
         /\ Range(s) = {Head(s)} \cup Range(Tail(s))
  <1>1. s = <<Head(s)>> \o Tail(s) /\ <<Head(s)>> \in Seq(S) /\ Tail(s) \in Seq(S) /\ Head(s) \in S
    BY HeadBefore
  <1>2. Range(<<Head(s)>> \o Tail(s)) = Range(<<Head(s)>>) \cup Range(Tail(s))
    BY <1>1, RangeConcatenation
  <1> QED BY <1>1, <1>2, RangeShort

\* What is left of a sequence has no new elements.
LEMMA RangePrefix ==
  ASSUME NEW S, NEW s \in Seq(S), NEW n \in 0..Len(s)
  PROVE  /\ SubSeq(s, 1, n) \in Seq(S) /\ SubSeq(s, n + 1, Len(s)) \in Seq(S)
         /\ Len(SubSeq(s, 1, n)) = n /\ Len(SubSeq(s, n + 1, Len(s))) = Len(s) - n
         /\ s = SubSeq(s, 1, n) \o SubSeq(s, n + 1, Len(s))
         /\ Range(SubSeq(s, 1, n)) \subseteq Range(s)
         /\ Range(SubSeq(s, n + 1, Len(s))) \subseteq Range(s)
  <1>1. Len(s) \in Nat /\ \A i \in 1..Len(s) : s[i] \in S
    BY LenProperties, ElementOfSeq
  <1>2. SubSeq(s, 1, n) \in Seq(S) /\ Len(SubSeq(s, 1, n)) = n
    BY <1>1, SubSeqProperties
  <1>3. SubSeq(s, n + 1, Len(s)) \in Seq(S) /\ Len(SubSeq(s, n + 1, Len(s))) = Len(s) - n
    BY <1>1, SubSeqProperties
  <1>4. s = SubSeq(s, 1, n) \o SubSeq(s, n + 1, Len(s))
    <2>1. 1 \in 1..Len(s) + 1 /\ n \in (1 - 1)..Len(s) /\ Len(s) \in n..Len(s)
      BY <1>1
    <2>2. SubSeq(s, 1, n) \o SubSeq(s, n + 1, Len(s)) = SubSeq(s, 1, Len(s))
      BY <2>1, ConcatAdjacentSubSeq
    <2> QED BY <2>2, SubSeqFull
  <1>5. Range(s) = Range(SubSeq(s, 1, n)) \cup Range(SubSeq(s, n + 1, Len(s)))
    BY <1>2, <1>3, <1>4, RangeConcatenation
  <1> QED BY <1>2, <1>3, <1>4, <1>5

\* Where the elements of a concatenation are.
LEMMA ConcatPlaces ==
  ASSUME NEW S, NEW s \in Seq(S), NEW t \in Seq(S)
  PROVE  /\ Len(s) \in Nat /\ Len(t) \in Nat /\ s \o t \in Seq(S)
         /\ DOMAIN s = 1..Len(s) /\ DOMAIN t = 1..Len(t) /\ DOMAIN (s \o t) = 1..(Len(s) + Len(t))
         /\ \A i \in 1..Len(s) : (s \o t)[i] = s[i] /\ i \in 1..(Len(s) + Len(t))
         /\ \A i \in 1..Len(t) : (s \o t)[Len(s) + i] = t[i] /\ Len(s) + i \in 1..(Len(s) + Len(t))
         /\ \A i \in 1..(Len(s) + Len(t)) :
              i \in 1..Len(s) \/ (i - Len(s) \in 1..Len(t) /\ (s \o t)[i] = t[i - Len(s)])
  <1>1. /\ Len(s) \in Nat /\ Len(t) \in Nat /\ s \o t \in Seq(S)
        /\ DOMAIN s = 1..Len(s) /\ DOMAIN t = 1..Len(t) /\ DOMAIN (s \o t) = 1..(Len(s) + Len(t))
        /\ \A i \in 1..(Len(s) + Len(t)) : (s \o t)[i] = IF i <= Len(s) THEN s[i] ELSE t[i - Len(s)]
    BY ConcatProperties, LenProperties
  <1>2. ASSUME NEW i \in 1..Len(t) PROVE (s \o t)[Len(s) + i] = t[i] /\ Len(s) + i \in 1..(Len(s) + Len(t))
    <2>1. Len(s) + i \in 1..(Len(s) + Len(t)) /\ ~(Len(s) + i <= Len(s)) /\ (Len(s) + i) - Len(s) = i
      BY <1>1
    <2> QED BY <1>1, <2>1
  <1>3. ASSUME NEW i \in 1..(Len(s) + Len(t))
        PROVE  i \in 1..Len(s) \/ (i - Len(s) \in 1..Len(t) /\ (s \o t)[i] = t[i - Len(s)])
    <2>1. (s \o t)[i] = IF i <= Len(s) THEN s[i] ELSE t[i - Len(s)]
      BY <1>1
    <2>2. CASE i <= Len(s)
      BY <1>1, <2>2
    <2>3. CASE ~(i <= Len(s))
      <3>1. (s \o t)[i] = t[i - Len(s)]
        BY <2>1, <2>3
      <3>2. i - Len(s) \in 1..Len(t)
        BY <1>1, <2>3
      <3> QED BY <3>1, <3>2
    <2> QED BY <2>2, <2>3
  <1>4. ASSUME NEW i \in 1..Len(s) PROVE (s \o t)[i] = s[i] /\ i \in 1..(Len(s) + Len(t))
    BY <1>1
  <1> QED BY <1>1, <1>2, <1>3, <1>4

\* The head and the tail of a concatenation are those of its first part.
LEMMA TailOfConcat ==
  ASSUME NEW S, NEW s \in Seq(S), NEW t \in Seq(S), s # <<>>
  PROVE  s \o t # <<>> /\ Head(s \o t) = Head(s) /\ Tail(s \o t) = Tail(s) \o t
  <1> DEFINE h == Head(s)
             r == Tail(s)
  <1>1. s = <<h>> \o r /\ <<h>> \in Seq(S) /\ h \in S /\ r \in Seq(S)
    BY HeadBefore
  <1> HIDE DEF h, r
  <1>2. (<<h>> \o r) \o t = <<h>> \o (r \o t)
    BY <1>1, ConcatAssociative
  <1>3. ASSUME NEW q \in Seq(S)
        PROVE  <<h>> \o q # <<>> /\ Head(<<h>> \o q) = h /\ Tail(<<h>> \o q) = q
    BY <1>1, HeadTailOfConcat
  <1>4. r \o t \in Seq(S)
    BY <1>1, ConcatProperties
  <1>5. s \o t # <<>> /\ Head(s \o t) = h /\ Tail(s \o t) = r \o t
    BY <1>1, <1>2, <1>3, <1>4
  <1> QED BY <1>5 DEF h, r

\* The last element of a concatenation is the last of the second part that has one.
LEMMA LastConcat ==
  ASSUME NEW S, NEW s \in Seq(S), NEW t \in Seq(S), NEW P, NEW v
  PROVE  LastIs(s \o t, P, v) <=> LastIs(t, P, v) \/ (LastIs(s, P, v) /\ Range(t) \cap P = {})
  <1> DEFINE st == s \o t
  <1>1. /\ Len(s) \in Nat /\ Len(t) \in Nat /\ Len(st) = Len(s) + Len(t)
        /\ DOMAIN s = 1..Len(s) /\ DOMAIN t = 1..Len(t) /\ DOMAIN st = 1..(Len(s) + Len(t))
        /\ \A i \in 1..Len(s) : st[i] = s[i]
        /\ \A i \in 1..Len(t) : st[Len(s) + i] = t[i]
        /\ \A i \in 1..(Len(s) + Len(t)) : i \in 1..Len(s) \/ (i - Len(s) \in 1..Len(t) /\ st[i] = t[i - Len(s)])
    BY ConcatPlaces
  <1> HIDE DEF st
  <1>2. ASSUME LastIs(t, P, v) PROVE LastIs(st, P, v)
    <2>1. PICK k \in 1..Len(t) : t[k] = v /\ v \in P /\ \A j \in 1..Len(t) : j > k => t[j] \notin P
      BY <1>1, <1>2 DEF LastIs
    <2>2. Len(s) + k \in DOMAIN st /\ st[Len(s) + k] = v
      BY <1>1, <2>1
    <2>3. ASSUME NEW j \in DOMAIN st, j > Len(s) + k PROVE st[j] \notin P
      <3>1. j - Len(s) \in 1..Len(t) /\ st[j] = t[j - Len(s)] /\ j - Len(s) > k
        BY <1>1, <2>1, <2>3
      <3> QED BY <2>1, <3>1
    <2> QED BY <2>1, <2>2, <2>3 DEF LastIs
  <1>3. ASSUME LastIs(s, P, v), Range(t) \cap P = {} PROVE LastIs(st, P, v)
    <2>1. PICK k \in 1..Len(s) : s[k] = v /\ v \in P /\ \A j \in 1..Len(s) : j > k => s[j] \notin P
      BY <1>1, <1>3 DEF LastIs
    <2>2. \A j \in 1..Len(t) : t[j] \notin P
      BY <1>1, <1>3 DEF Range
    <2>3. k \in DOMAIN st /\ st[k] = v
      BY <1>1, <2>1
    <2>4. \A j \in DOMAIN st : j > k => st[j] \notin P
      BY <1>1, <2>1, <2>2
    <2> QED BY <2>1, <2>3, <2>4 DEF LastIs
  <1>4. ASSUME LastIs(st, P, v) PROVE LastIs(t, P, v) \/ (LastIs(s, P, v) /\ Range(t) \cap P = {})
    <2>1. PICK k \in DOMAIN st : st[k] = v /\ v \in P /\ \A j \in DOMAIN st : j > k => st[j] \notin P
      BY <1>4 DEF LastIs
    <2>2. CASE k \in 1..Len(s)
      <3>1. \A j \in 1..Len(t) : t[j] \notin P
        BY <1>1, <2>1, <2>2
      <3>2. Range(t) \cap P = {}
        BY <1>1, <3>1 DEF Range
      <3>3. s[k] = v /\ \A j \in 1..Len(s) : j > k => s[j] \notin P
        BY <1>1, <2>1, <2>2
      <3> QED BY <1>1, <2>1, <2>2, <3>2, <3>3 DEF LastIs
    <2>3. CASE k \notin 1..Len(s)
      <3>1. k - Len(s) \in 1..Len(t) /\ t[k - Len(s)] = v
        BY <1>1, <2>1, <2>3
      <3>2. \A j \in 1..Len(t) : j > k - Len(s) => t[j] \notin P
        BY <1>1, <2>1, <3>1
      <3> QED BY <1>1, <2>1, <3>1, <3>2 DEF LastIs
    <2> QED BY <2>2, <2>3
  <1> QED BY <1>2, <1>3, <1>4 DEF st

\* The last element of one.
LEMMA LastOfOne == \A a, P, v : LastIs(<<a>>, P, v) <=> a = v /\ v \in P
  BY DEF LastIs

\* The last element is in the tail, or it is the head.
LEMMA LastTail ==
  ASSUME NEW S, NEW s \in Seq(S), s # <<>>, NEW P, NEW v
  PROVE  LastIs(s, P, v) <=> LastIs(Tail(s), P, v) \/ (Head(s) = v /\ v \in P /\ Range(Tail(s)) \cap P = {})
  <1>1. s = <<Head(s)>> \o Tail(s) /\ <<Head(s)>> \in Seq(S) /\ Tail(s) \in Seq(S)
    BY HeadBefore
  <1>2. LastIs(<<Head(s)>> \o Tail(s), P, v)
          <=> LastIs(Tail(s), P, v) \/ (LastIs(<<Head(s)>>, P, v) /\ Range(Tail(s)) \cap P = {})
    BY <1>1, LastConcat
  <1> QED BY <1>1, <1>2, LastOfOne

\* What occurs once still does when a part is taken away.
LEMMA OnceParts ==
  ASSUME NEW S, NEW s \in Seq(S), NEW t \in Seq(S), NEW x
  PROVE  Once(s \o t, x) <=> Once(s, x) /\ Once(t, x) /\ (x \notin Range(s) \/ x \notin Range(t))
  <1> DEFINE st == s \o t
  <1>1. /\ Len(s) \in Nat /\ Len(t) \in Nat
        /\ DOMAIN s = 1..Len(s) /\ DOMAIN t = 1..Len(t) /\ DOMAIN st = 1..(Len(s) + Len(t))
        /\ \A i \in 1..Len(s) : st[i] = s[i] /\ i \in 1..(Len(s) + Len(t))
        /\ \A i \in 1..Len(t) : st[Len(s) + i] = t[i] /\ Len(s) + i \in 1..(Len(s) + Len(t))
        /\ \A i \in 1..(Len(s) + Len(t)) : i \in 1..Len(s) \/ (i - Len(s) \in 1..Len(t) /\ st[i] = t[i - Len(s)])
    BY ConcatPlaces
  <1> HIDE DEF st
  <1>2. ASSUME Once(st, x) PROVE Once(s, x) /\ Once(t, x) /\ (x \notin Range(s) \/ x \notin Range(t))
    <2>1. Once(s, x)
      BY <1>1, <1>2 DEF Once
    <2>2. Once(t, x)
      <3>1. ASSUME NEW i \in 1..Len(t), NEW j \in 1..Len(t), t[i] = x, t[j] = x PROVE i = j
        <4>1. Len(s) + i = Len(s) + j
          BY <1>1, <1>2, <3>1 DEF Once
        <4> QED BY <1>1, <4>1
      <3> QED BY <1>1, <3>1 DEF Once
    <2>3. ASSUME NEW i \in 1..Len(s), NEW j \in 1..Len(t), s[i] = x, t[j] = x PROVE FALSE
      <3>1. i = Len(s) + j
        BY <1>1, <1>2, <2>3 DEF Once
      <3> QED BY <1>1, <3>1
    <2> QED BY <1>1, <2>1, <2>2, <2>3 DEF Range
  <1>3. ASSUME Once(s, x), Once(t, x), x \notin Range(s) \/ x \notin Range(t) PROVE Once(st, x)
    <2> SUFFICES ASSUME NEW i \in DOMAIN st, NEW j \in DOMAIN st, st[i] = x, st[j] = x PROVE i = j
      BY DEF Once
    <2>1. CASE i \in 1..Len(s) /\ j \in 1..Len(s)
      BY <1>1, <1>3, <2>1 DEF Once
    <2>2. CASE i \notin 1..Len(s) /\ j \notin 1..Len(s)
      <3>1. i - Len(s) = j - Len(s)
        BY <1>1, <1>3, <2>2 DEF Once
      <3> QED BY <1>1, <3>1
    <2>3. CASE i \in 1..Len(s) /\ j \notin 1..Len(s)
      BY <1>1, <1>3, <2>3 DEF Range
    <2>4. CASE i \notin 1..Len(s) /\ j \in 1..Len(s)
      BY <1>1, <1>3, <2>4 DEF Range
    <2> QED BY <2>1, <2>2, <2>3, <2>4
  <1> QED BY <1>2, <1>3 DEF st

\* It is the head, or once in the tail.
LEMMA OnceTail ==
  ASSUME NEW S, NEW s \in Seq(S), s # <<>>, NEW x, Once(s, x)
  PROVE  Once(Tail(s), x) /\ (Head(s) = x => x \notin Range(Tail(s)))
  <1>1. s = <<Head(s)>> \o Tail(s) /\ <<Head(s)>> \in Seq(S) /\ Tail(s) \in Seq(S)
    BY HeadBefore
  <1>2. Once(<<Head(s)>> \o Tail(s), x)
    BY <1>1
  <1>3. Once(Tail(s), x) /\ (x \notin Range(<<Head(s)>>) \/ x \notin Range(Tail(s)))
    BY <1>1, <1>2, OnceParts
  <1> QED BY <1>3, RangeShort

\* What is not in a sequence is in it once at most.
LEMMA NotInOnce ==
  ASSUME NEW s, NEW x, x \notin Range(s)
  PROVE  Once(s, x)
  BY DEF Once, Range
-----------------------------------------------------------------------------
(* Types.                                                                  *)

\* A disconnected client.
LEMMA DisconnectKinds ==
  ASSUME NEW m \in Client, NEW on \in BOOLEAN, NEW d, d = Disconnect(m, on) \/ d = Idle
  PROVE  /\ d \in Client /\ d.out = <<>> /\ Len(d.out) = 0
         /\ d.mode = "offline" /\ d.sent = NoPlace /\ ~d.auth /\ ~d.joined /\ ~d.started
  <1>1. /\ Idle \in Client /\ Idle.out = <<>> /\ Idle.mode = "offline" /\ Idle.sent = NoPlace
        /\ ~Idle.auth /\ ~Idle.joined /\ ~Idle.started
    <2>1. <<>> \in Seq(Line) /\ NoPlace \in Place \cup {NoPlace}
      OBVIOUS
    <2>2. Idle \in Client
      BY <2>1 DEF Client, Idle
    <2> QED BY <2>2 DEF Idle
  <1> DEFINE Rested(b) == [Idle EXCEPT !.resting = b]
  <1>2. ASSUME NEW b \in BOOLEAN
        PROVE  /\ Rested(b) \in Client /\ Rested(b).out = <<>> /\ Rested(b).mode = "offline" /\ Rested(b).sent = NoPlace
               /\ ~Rested(b).auth /\ ~Rested(b).joined /\ ~Rested(b).started
    BY <1>1 DEF Client
  <1>3. (on \/ m.resting) \in BOOLEAN
    BY DEF Client
  <1>4. Disconnect(m, on) = Rested(on \/ m.resting)
    BY DEF Disconnect
  <1> HIDE DEF Rested
  <1>5. d = Idle \/ \E b \in BOOLEAN : d = Rested(b)
    BY <1>3, <1>4
  <1>6. Len(<<>>) = 0
    OBVIOUS
  <1> QED BY <1>1, <1>2, <1>5, <1>6

\* A handler that sends a line leaves a client with the line in its buffer,
\* or one that has disconnected.
LEMMA SendKinds ==
  ASSUME NEW m \in Client, Len(m.out) <= OutMax, NEW l \in Line, enabled \in BOOLEAN
  PROVE  /\ Send(m, l) \in Client /\ Len(Send(m, l).out) <= OutMax
         /\ \/ Send(m, l) = [m EXCEPT !.out = m.out \o <<l>>] /\ Len(Send(m, l).out) = Len(m.out) + 1
            \/ Send(m, l) = Disconnect(m, enabled) /\ Len(m.out) >= OutMax
  <1>1. m.out \in Seq(Line) /\ Append(m.out, l) = m.out \o <<l>>
    BY AppendIsConcat DEF Client
  <1>2. Append(m.out, l) \in Seq(Line) /\ Len(Append(m.out, l)) = Len(m.out) + 1 /\ Len(m.out) \in Nat
    BY <1>1, AppendProperties, LenProperties
  <1>3. CASE Len(m.out) < OutMax
    <2>1. Send(m, l) = [m EXCEPT !.out = Append(m.out, l)]
      BY <1>3 DEF Send
    <2>2. Send(m, l) \in Client /\ Send(m, l).out = Append(m.out, l)
      BY <1>2, <2>1 DEF Client
    <2> QED BY <1>1, <1>2, <1>3, <2>1, <2>2, BufferAssumption
  <1>4. CASE ~(Len(m.out) < OutMax)
    <2>1. Send(m, l) = Disconnect(m, enabled)
      BY <1>4 DEF Send
    <2>2. Disconnect(m, enabled) \in Client /\ Len(Disconnect(m, enabled).out) = 0
      BY DisconnectKinds
    <2>3. Len(Disconnect(m, enabled).out) <= OutMax
      BY <2>2, BufferAssumption
    <2> QED BY <1>2, <1>4, <2>1, <2>2, <2>3, BufferAssumption
  <1> QED BY <1>3, <1>4


\* The types of what the owner sets, and of the connection.
OwnTypes == /\ enabled \in BOOLEAN /\ known \in BOOLEAN /\ presence \in Place \cup {NoPlace}
            /\ pc \in {"frame", "connect", "send", "receive", "crashed"} /\ faults \in 0..Faults
LineTypes == /\ held \in 0..OutMax /\ spoiled \in BOOLEAN /\ lost \in BOOLEAN
             /\ socket \in Seq(Line) /\ upstream \in Seq(Line) /\ inbox \in Seq(Incoming) /\ linger \in Nat
EndTypes == /\ bridge \in {"none", "pending", "open"} /\ over \in BOOLEAN
            /\ srv \in {"none", "new", "in", "ended"}
            /\ seat \in {"none", "waiting", "host", "guest"} /\ at \in Place \cup {NoPlace}
MeTypes == me \in Client /\ Len(me.out) <= OutMax /\ HeldInv /\ OfflineInv

\* The state of a connection that is not there.
Silent == /\ socket = <<>> /\ upstream = <<>> /\ inbox = <<>>
          /\ bridge = "none" /\ srv = "none" /\ seat = "none" /\ ~over
Reset(m) == m.mode # "active" /\ m.sent = NoPlace /\ ~m.auth /\ ~m.joined /\ ~m.started

\* A client that disconnects forgets its connection.
LEMMA DropsAll ==
  ASSUME LineTypes, EndTypes, MeTypes, enabled \in BOOLEAN, NEW m \in Client, Becomes(m),
         m.mode = "offline", m.out = <<>>, Reset(m)
  PROVE  /\ LineTypes' /\ EndTypes' /\ me' \in Client /\ Len(me'.out) <= OutMax /\ HeldInv'
         /\ Silent' /\ Reset(me') /\ me'.out = <<>>
  <1>1. me' = m /\ Len(me'.out) = 0 /\ me'.out = <<>>
    BY DEF Becomes
  <1>2. CASE me.mode # "offline"
    <2>1. Forget
      BY <1>2 DEF Becomes
    <2>4. LineTypes'
      <3>1. held' \in 0..OutMax /\ linger' \in Nat
        BY <2>1, BufferAssumption DEF Forget, LineTypes
      <3>2. socket' \in Seq(Line) /\ upstream' \in Seq(Line) /\ inbox' \in Seq(Incoming)
        BY <2>1 DEF Forget
      <3>3. spoiled' \in BOOLEAN
        BY <2>1 DEF Forget
      <3>4. lost' \in BOOLEAN
        BY <2>1 DEF Forget
      <3> QED BY <3>1, <3>2, <3>3, <3>4 DEF LineTypes
    <2>5. EndTypes'
      BY <2>1 DEF Forget, EndTypes
    <2>3. HeldInv' /\ Silent'
      BY <1>1, <2>1 DEF Forget, HeldInv, Silent
    <2> QED BY <1>1, <2>3, <2>4, <2>5, BufferAssumption
  <1>3. CASE me.mode = "offline"
    <2>1. UNCHANGED <<server, link, inbox>>
      BY <1>3 DEF Becomes
    <2>2. LineTypes' /\ EndTypes'
      BY <2>1 DEF server, link, LineTypes, EndTypes
    <2>3. HeldInv' /\ Silent'
      BY <1>1, <1>3, <2>1 DEF server, link, HeldInv, Silent, MeTypes, OfflineInv, LineTypes
    <2> QED BY <1>1, <2>2, <2>3, BufferAssumption
  <1> QED BY <1>2, <1>3

\* A client that stays where it is, with a buffer that is no shorter.
LEMMA StaysThere ==
  ASSUME LineTypes, EndTypes, MeTypes, NEW m \in Client, Len(m.out) <= OutMax, Len(m.out) >= Len(me.out),
         me' = m, UNCHANGED <<server, link, inbox>>, m.mode = "active" <=> me.mode = "active", me.mode # "active" => Reset(m),
         pc' = "crashed" => pc = "crashed"
  PROVE  LineTypes' /\ EndTypes' /\ MeTypes'
  <1>1. LineTypes' /\ EndTypes'
    BY DEF server, link, LineTypes, EndTypes
  <1>2. HeldInv'
    BY DEF link, MeTypes, HeldInv, LineTypes
  <1>3. OfflineInv'
    BY DEF server, link, MeTypes, OfflineInv, Reset
  <1> QED BY <1>1, <1>2, <1>3 DEF MeTypes

\* A handler that sends a line.
LEMMA SendStays ==
  ASSUME LineTypes, EndTypes, MeTypes, OwnTypes, NEW l \in Line, Becomes(Send(me, l)), pc' # "crashed"
  PROVE  /\ LineTypes' /\ EndTypes' /\ MeTypes'
         /\ \/ Silent' /\ Reset(me') /\ me'.out = <<>>
            \/ /\ me' = [me EXCEPT !.out = me.out \o <<l>>]
               /\ UNCHANGED <<server, link, inbox>>
  <1> DEFINE m == Send(me, l)
  <1>1. /\ m \in Client /\ Len(m.out) <= OutMax
        /\ \/ m = [me EXCEPT !.out = me.out \o <<l>>] /\ Len(m.out) = Len(me.out) + 1
           \/ m = Disconnect(me, enabled)
    BY SendKinds DEF MeTypes, OwnTypes
  <1> HIDE DEF m
  <1>2. CASE m = [me EXCEPT !.out = me.out \o <<l>>] /\ Len(m.out) = Len(me.out) + 1
    <2>1. m.mode = me.mode /\ (me.mode # "active" => Reset(m))
      BY <1>1, <1>2 DEF MeTypes, OfflineInv, Reset, Client
    <2>2. me' = m /\ UNCHANGED <<server, link, inbox>>
      BY <2>1 DEF Becomes, m
    <2>3. Len(m.out) >= Len(me.out)
      BY <1>2, LenProperties DEF MeTypes, Client
    <2>4. LineTypes' /\ EndTypes' /\ MeTypes'
      BY <1>1, <2>1, <2>2, <2>3, StaysThere
    <2> QED BY <1>2, <2>2, <2>4
  <1>3. CASE m = Disconnect(me, enabled)
    <2>1. m.mode = "offline" /\ m.out = <<>> /\ Reset(m)
      BY <1>3, DisconnectKinds DEF MeTypes, OwnTypes, Reset
    <2>2. Becomes(m)
      BY DEF m
    <2>3. /\ LineTypes' /\ EndTypes' /\ me' \in Client /\ Len(me'.out) <= OutMax /\ HeldInv'
          /\ Silent' /\ Reset(me') /\ me'.out = <<>>
      BY <1>1, <2>1, <2>2, DropsAll DEF OwnTypes
    <2> QED BY <2>3 DEF MeTypes, OfflineInv, Silent, Reset
  <1> QED BY <1>1, <1>2, <1>3
-----------------------------------------------------------------------------
(* The kinds of steps the invariants tell apart.                           *)

ClientTypes == OwnTypes /\ LineTypes /\ EndTypes /\ MeTypes

Fields(m) == m.auth = me.auth /\ m.joined = me.joined /\ m.started = me.started
Conversation == <<inbox, seat, at, srv, over>>

\* The client has no connection, and has forgotten the one it had.
Drops == Silent' /\ Reset(me') /\ me'.out = <<>>
\* Nothing is said; or a line is moved on; or the upstream opens.
Stays == Queue' = Queue /\ Fields(me') /\ me'.sent = me.sent /\ UNCHANGED <<Conversation, bridge, lost>>
Opens == UpstreamOpens /\ Queue' = Queue
\* The client queues a line; only a linked one sends a packet.
Sends == \E l \in Line :
  /\ Queue' = Queue \o <<l>> /\ Fields(me') /\ UNCHANGED <<Conversation, lost>>
  /\ me'.sent = IF l \in Place THEN l ELSE me.sent
  /\ l \in LinkLines => l = "packet" /\ me.started
  /\ bridge' = bridge \/ srv = "none"
\* Lines leave the buffer unsent: the last ones, or those of a client without a connection.
Loses == /\ Fields(me') /\ me'.sent = me.sent /\ UNCHANGED <<Conversation, bridge>>
         /\ \/ lost' /\ \E r \in Seq(Line) : Queue' \in Seq(Line) /\ Queue = Queue' \o r
            \/ Reset(me) /\ Range(Queue') \subseteq Range(Queue)
\* The connection breaks.
Breaks == /\ Fields(me') /\ me'.sent = me.sent /\ over' /\ Range(Queue') \subseteq Range(Queue)
          /\ \E n \in 0..Len(inbox) : inbox' = SubSeq(inbox, 1, n)
          /\ seat' \in {seat, "none"} /\ srv' \in {srv, "ended"}
\* The server reads the next line, or the partner comes and goes.
Reads == /\ Queue # <<>> /\ Queue' = Tail(Queue) /\ me' = me /\ ~over /\ UNCHANGED <<bridge, lost>>
         /\ FirstLine(Head(Queue)) \/ LaterLine(Head(Queue))
Partners == (PartnerJoins \/ PartnerLeaves) /\ Queue' = Queue
\* The client reads the next notice.
HearsAs(auth, joined, started, lines) ==
  /\ me'.auth = auth /\ me'.joined = joined /\ me'.started = started /\ Queue' = Queue \o lines
Hears ==
  /\ inbox # <<>> /\ inbox' = Tail(inbox) /\ UNCHANGED <<seat, at, srv, over, bridge, lost>> /\ me'.sent = me.sent
  /\ \/ Head(inbox) = "welcome" /\ HearsAs(TRUE, LinkConfigured, me.started, SyncLines)
     \/ Head(inbox) = "started" /\ \/ HearsAs(me.auth, me.joined, TRUE, <<>>)
                                   \/ HearsAs(me.auth, FALSE, me.started, <<"leave">>)
     \/ Head(inbox) \in {"waiting", "peer_gone"} /\ HearsAs(me.auth, me.joined, FALSE, <<>>)
     \/ Head(inbox) \in Refusal /\ HearsAs(me.auth, FALSE, FALSE, <<>>)
     \/ Head(inbox) \notin LinkNotice \cup {"welcome"} /\ HearsAs(me.auth, me.joined, me.started, <<>>)
ClientKinds == Drops \/ Stays \/ Opens \/ Sends \/ Loses \/ Breaks \/ Reads \/ Partners \/ Hears

\* What is queued are lines.
LEMMA QueueType ==
  ASSUME LineTypes, MeTypes
  PROVE  /\ upstream \o socket \in Seq(Line) /\ Queue \in Seq(Line) /\ me.out \in Seq(Line)
         /\ Range(me.out) \subseteq Range(Queue)
  <1>1. upstream \in Seq(Line) /\ socket \in Seq(Line) /\ me.out \in Seq(Line)
    BY DEF LineTypes, MeTypes, Client
  <1>2. upstream \o socket \in Seq(Line)
    BY <1>1, ConcatProperties
  <1>3. (upstream \o socket) \o me.out \in Seq(Line)
    BY <1>1, <1>2, ConcatProperties
  <1>4. Range((upstream \o socket) \o me.out) = Range(upstream \o socket) \cup Range(me.out)
    BY <1>1, <1>2, RangeConcatenation
  <1> QED BY <1>1, <1>2, <1>3, <1>4 DEF Queue

\* A line that is appended to the buffer is appended to the queue.
LEMMA QueueGrows ==
  ASSUME LineTypes, MeTypes, NEW t \in Seq(Line), me'.out = me.out \o t, UNCHANGED <<upstream, socket>>
  PROVE  Queue' = Queue \o t
  <1>1. upstream \o socket \in Seq(Line) /\ me.out \in Seq(Line)
    BY QueueType
  <1> DEFINE u == upstream \o socket
             b == me.out
  <1>2. u \in Seq(Line) /\ b \in Seq(Line) /\ Queue = u \o b /\ Queue' = u \o (b \o t)
    BY <1>1 DEF Queue
  <1> HIDE DEF u, b
  <1>3. (u \o b) \o t = u \o (b \o t)
    BY <1>2, ConcatAssociative
  <1> QED BY <1>2, <1>3

\* A step that changes nothing of the connection.
LEMMA StaysSame ==
  ASSUME OwnTypes', LineTypes, EndTypes, MeTypes, me' = me, UNCHANGED <<server, link, inbox>>, pc' = "crashed" => pc = "crashed"
  PROVE  ClientTypes' /\ Stays
  <1>1. me \in Client /\ Len(me.out) <= OutMax /\ (me.mode # "active" => Reset(me)) /\ Len(me.out) \in Nat
    BY LenProperties DEF MeTypes, OfflineInv, Reset, Client
  <1>2. LineTypes' /\ EndTypes' /\ MeTypes'
    BY <1>1, StaysThere
  <1>3. Stays
    BY DEF Stays, server, link, Queue, Fields, Conversation
  <1> QED BY <1>2, <1>3 DEF ClientTypes

\* A handler that sends a line keeps the types.
LEMMA SendsLine ==
  ASSUME OwnTypes, OwnTypes', LineTypes, EndTypes, MeTypes, NEW l \in Line \ Place, Becomes(Send(me, l)), pc' # "crashed",
         l \in LinkLines => l = "packet" /\ me.started
  PROVE  ClientTypes' /\ (Drops \/ Sends)
  <1>1. /\ LineTypes' /\ EndTypes' /\ MeTypes'
        /\ \/ Silent' /\ Reset(me') /\ me'.out = <<>>
           \/ /\ me' = [me EXCEPT !.out = me.out \o <<l>>]
              /\ UNCHANGED <<server, link, inbox>>
    BY SendStays
  <1>2. CASE Silent' /\ Reset(me') /\ me'.out = <<>>
    BY <1>1, <1>2 DEF Drops, ClientTypes
  <1>3. CASE me' = [me EXCEPT !.out = me.out \o <<l>>] /\ UNCHANGED <<server, link, inbox>>
    <2>1. me'.out = me.out \o <<l>> /\ <<l>> \in Seq(Line) /\ Fields(me') /\ me'.sent = me.sent
      BY <1>3 DEF MeTypes, Client, Fields
    <2>2. Queue' = Queue \o <<l>>
      BY <1>3, <2>1, QueueGrows DEF server, link
    <2>3. Sends
      BY <1>3, <2>1, <2>2 DEF Sends, server, link, Conversation
    <2> QED BY <1>1, <2>3 DEF ClientTypes
  <1> QED BY <1>1, <1>2, <1>3

\* A client that disconnects.
LEMMA Disconnects ==
  ASSUME OwnTypes, OwnTypes', LineTypes, EndTypes, MeTypes, NEW m, NEW on \in BOOLEAN,
         m = Disconnect(me, on) \/ m = Idle, Becomes(m)
  PROVE  ClientTypes' /\ Drops
  <1>1. m \in Client /\ m.mode = "offline" /\ m.out = <<>> /\ Reset(m)
    BY DisconnectKinds DEF MeTypes, Reset
  <1>2. /\ LineTypes' /\ EndTypes' /\ me' \in Client /\ Len(me'.out) <= OutMax /\ HeldInv'
        /\ Silent' /\ Reset(me') /\ me'.out = <<>>
    BY <1>1, DropsAll DEF OwnTypes
  <1>3. OfflineInv'
    BY <1>2 DEF Silent, Reset, OfflineInv
  <1> QED BY <1>2, <1>3 DEF Drops, ClientTypes, MeTypes

\* A client without a connection stays without one.
LEMMA RestsAgain ==
  ASSUME OwnTypes', LineTypes, EndTypes, MeTypes, me.mode # "active", me' \in Client, me'.out = <<>>, Reset(me'),
         UNCHANGED <<server, held, spoiled, socket, lost, inbox>>, linger' \in Nat
  PROVE  ClientTypes' /\ Drops
  <1>1. LineTypes' /\ EndTypes'
    BY DEF LineTypes, EndTypes, server
  <1>2. Len(me'.out) = 0 /\ held' = 0 /\ Silent'
    BY DEF MeTypes, HeldInv, OfflineInv, Silent, server
  <1>3. Len(me'.out) <= OutMax /\ HeldInv' /\ OfflineInv'
    BY <1>2, BufferAssumption DEF HeldInv, OfflineInv, Silent, Reset
  <1> QED BY <1>1, <1>2, <1>3 DEF ClientTypes, MeTypes, Drops

\* What the owner sets, and the main loop's place.
LEMMA OwnStep ==
  ASSUME ClientTypes, [ClientNext]_clientVars
  PROVE  OwnTypes'
  <1> USE DEF owner, OwnTypes, ClientTypes
  <1>f. ASSUME Fault PROVE faults' \in 0..Faults
    BY <1>f, BufferAssumption DEF Fault
  <1>1. CASE Owner
    <2>1. CASE Toggle
      BY <2>1, <1>f DEF Toggle
    <2>2. CASE ~Toggle
      BY <1>1, <2>2, <1>f DEF Owner, Warp, Ask, CorePacket, Interrupt, Move
    <2> QED BY <2>1, <2>2
  <1>2. CASE Drain \/ Open \/ Connected \/ ConnectFails \/ ConnectLater
    BY <1>2, <1>f DEF Drain, DrainRaw, DrainSecure, Open, Connected, ConnectFails, ConnectLater
  <1>3. CASE SendState \/ ReceiveEnds
    BY <1>3 DEF SendState, ReceiveEnds
  <1>4. CASE ReceiveLine
    <2>1. pc' \in {pc, "crashed"}
      BY <1>4 DEF ReceiveLine, Parse, LinkStarts, Reply
    <2>2. known' \in BOOLEAN
      BY <1>4 DEF ReceiveLine
    <2>3. UNCHANGED <<enabled, presence, faults>>
      BY <1>4 DEF ReceiveLine
    <2> QED BY <2>1, <2>2, <2>3
  <1>5. CASE Environment
    BY <1>5 DEF Environment, UpstreamOpens, BridgeTakes, Released, ServerReads
  <1>6. CASE TimerPasses \/ PartnerJoins \/ PartnerLeaves \/ ConnectionEnds
    BY <1>6, <1>f DEF TimerPasses, PartnerJoins, PartnerLeaves, ConnectionEnds
  <1>7. CASE Restart
    <2>1. enabled' \in BOOLEAN
      BY <1>7 DEF Restart
    <2>2. known' \in BOOLEAN
      BY <1>7 DEF Restart
    <2> QED BY <1>7, <2>1, <2>2 DEF Restart
  <1>8. CASE UNCHANGED clientVars
    BY <1>8 DEF clientVars
  <1> QED BY <1>1, <1>2, <1>3, <1>4, <1>5, <1>6, <1>7, <1>8 DEF ClientNext, Update

\* The owner's steps.
LEMMA OwnerSteps ==
  ASSUME ClientTypes, OwnTypes', Owner \/ TimerPasses \/ Restart
  PROVE  ClientTypes' /\ (Drops \/ Stays \/ Sends)
  <1> USE DEF ClientTypes
  <1>1. ASSUME NEW p \in Place \cup {NoPlace}, Move(p)
        PROVE  ClientTypes' /\ Stays
    BY <1>1, StaysSame DEF Move
  <1>2. CASE Warp
    BY <1>2, SendsLine, LineAssumption DEF Warp, Line, Request, LinkLines
  <1>3. CASE Ask
    BY <1>3, SendsLine, LineAssumption DEF Ask, Line, Request, LinkLines
  <1>4. CASE CorePacket
    BY <1>4, SendsLine, LineAssumption DEF CorePacket, Line, Request, LinkLines
  <1>5. ASSUME NEW m \in Client, m.out = me.out, m.sent = me.sent, Fields(m), me' = m, UNCHANGED <<server, link, inbox>>,
               m.mode = "active" <=> me.mode = "active", pc' = "crashed" => pc = "crashed"
        PROVE  ClientTypes' /\ Stays
    <2>1. /\ Len(m.out) <= OutMax /\ Len(m.out) >= Len(me.out) /\ (me.mode # "active" => Reset(m))
      BY <1>5, LenProperties DEF MeTypes, Client, OfflineInv, Reset, Fields
    <2>2. LineTypes' /\ EndTypes' /\ MeTypes'
      BY <1>5, <2>1, StaysThere
    <2>3. Stays
      BY <1>5 DEF Stays, server, link, Queue, Fields, Conversation
    <2> QED BY <2>2, <2>3
  <1>6. CASE Toggle
    <2>1. CASE enabled
      <3>1. Becomes(Disconnect(me, FALSE))
        BY <1>6, <2>1 DEF Toggle
      <3> QED BY <3>1, Disconnects
    <2>2. CASE ~enabled /\ me.mode = "offline"
      <3> DEFINE m == [me EXCEPT !.mode = "connecting", !.resting = FALSE]
      <3>1. m \in Client /\ m.out = me.out /\ m.sent = me.sent /\ Fields(m) /\ m.mode = "connecting"
        BY DEF MeTypes, Client, Fields
      <3>2. Becomes(m) /\ pc' = pc
        BY <1>6, <2>2 DEF Toggle, owner
      <3> HIDE DEF m
      <3>3. me' = m /\ UNCHANGED <<server, link, inbox>>
        BY <3>1, <3>2 DEF Becomes
      <3> QED BY <1>5, <2>2, <3>1, <3>2, <3>3
    <2>3. CASE ~enabled /\ me.mode # "offline"
      <3>1. Becomes(me) /\ pc' = pc
        BY <1>6, <2>3 DEF Toggle, owner
      <3> QED BY <3>1, StaysSame DEF Becomes
    <2> QED BY <2>1, <2>2, <2>3
  <1>7. CASE Interrupt
    <2>1. PICK m \in {Disconnect(me, enabled), Idle} : Becomes(m)
      BY <1>7 DEF Interrupt
    <2> QED BY <2>1, Disconnects DEF OwnTypes
  <1>8. CASE TimerPasses
    <2> DEFINE m == [me EXCEPT !.resting = FALSE]
    <2>1. m \in Client /\ m.out = me.out /\ m.sent = me.sent /\ Fields(m) /\ m.mode = me.mode
      BY DEF MeTypes, Client, Fields
    <2>2. me' = m /\ pc' = pc /\ UNCHANGED <<server, link, inbox>>
      BY <1>8 DEF TimerPasses, owner
    <2> HIDE DEF m
    <2> QED BY <1>5, <2>1, <2>2
  <1>9. CASE Restart
    <2>1. Idle \in Client /\ Idle.out = <<>> /\ Reset(Idle)
      BY DisconnectKinds DEF Reset, MeTypes
    <2>2. me.mode # "active"
      BY <1>9 DEF Restart, MeTypes, OfflineInv
    <2>3. me' = Idle /\ UNCHANGED <<server, link, inbox>>
      BY <1>9 DEF Restart
    <2>4. linger' \in Nat
      BY <2>3 DEF link, LineTypes
    <2> QED BY <2>1, <2>2, <2>3, <2>4, RestsAgain DEF link
  <1> QED BY <1>1, <1>2, <1>3, <1>4, <1>6, <1>7, <1>8, <1>9 DEF Owner

\* drainOutgoingBuffer.
LEMMA DrainSteps ==
  ASSUME ClientTypes, OwnTypes', Drain
  PROVE  ClientTypes' /\ (Stays \/ Loses)
  <1> USE DEF ClientTypes
  <1>0. me.out \in Seq(Line) /\ Len(me.out) \in Nat /\ upstream \in Seq(Line) /\ socket \in Seq(Line) /\ pc' = "connect"
        /\ UNCHANGED <<owner, server, inbox>>
    BY LenProperties DEF MeTypes, Client, LineTypes, Drain
  <1>1. CASE me.mode = "offline"
    <2>1. me' = me /\ UNCHANGED <<server, link, inbox>>
      BY <1>1 DEF Drain
    <2> QED BY <1>0, <2>1, StaysSame
  <1>2. CASE me.mode = "connecting"
    <2>1. DrainRaw /\ UNCHANGED <<held, socket, lost, linger>>
      BY <1>2 DEF Drain
    <2>2. PICK n \in 0..Len(me.out) : /\ me' = [me EXCEPT !.out = SubSeq(me.out, n + 1, Len(me.out))]
                                      /\ spoiled' = (spoiled \/ n > 0)
      BY <2>1 DEF DrainRaw
    <2> DEFINE rest == SubSeq(me.out, n + 1, Len(me.out))
    <2>3. rest \in Seq(Line) /\ Range(rest) \subseteq Range(me.out) /\ Len(rest) = Len(me.out) - n
      BY <1>0, RangePrefix
    <2>10. me' = [me EXCEPT !.out = rest]
      BY <2>2
    <2> HIDE DEF rest
    <2>4. /\ me' \in Client /\ me'.out = rest /\ Fields(me') /\ me'.sent = me.sent /\ me'.mode = "connecting"
          /\ Len(me'.out) <= OutMax
      <3>1. me' \in Client
        BY <2>3, <2>10 DEF MeTypes, Client
      <3>2. me'.out = rest /\ Fields(me') /\ me'.sent = me.sent /\ me'.mode = "connecting"
        BY <1>2, <2>10 DEF MeTypes, Client, Fields
      <3>3. Len(rest) <= OutMax
        BY <1>0, <2>3, BufferAssumption DEF MeTypes
      <3> QED BY <3>1, <3>2, <3>3
    <2>5. spoiled' \in BOOLEAN
      BY <2>2
    <2>6. LineTypes' /\ EndTypes'
      BY <1>0, <2>1, <2>5 DEF LineTypes, EndTypes, server
    <2>7. MeTypes'
      BY <1>0, <1>2, <2>1, <2>4, <2>3 DEF MeTypes, HeldInv, OfflineInv, Fields, server
    <2>8. Range(Queue') \subseteq Range(Queue)
      <3> DEFINE u == upstream \o socket
      <3>1. u \in Seq(Line) /\ Queue = u \o me.out /\ Queue' = u \o rest
        BY <1>0, <2>1, <2>4, QueueType DEF Queue, server
      <3> HIDE DEF u
      <3>2. Range(u \o me.out) = Range(u) \cup Range(me.out) /\ Range(u \o rest) = Range(u) \cup Range(rest)
        BY <1>0, <2>3, <3>1, RangeConcatenation
      <3> QED BY <2>3, <3>1, <3>2
    <2>9. Loses
      BY <1>0, <1>2, <2>1, <2>4, <2>8 DEF Loses, Conversation, server, Reset, MeTypes, OfflineInv
    <2> QED BY <2>6, <2>7, <2>9
  <1>3. CASE me.mode = "active"
    <2>1. DrainSecure /\ UNCHANGED <<spoiled, linger>>
      BY <1>3 DEF Drain
    <2>2. CASE me' = me /\ held' = (IF held = 0 THEN Len(me.out) ELSE held) /\ UNCHANGED <<socket, lost>>
      <3>1. held' \in 0..Len(me.out)
        BY <1>0, <2>2 DEF MeTypes, HeldInv, LineTypes
      <3>2. LineTypes' /\ EndTypes'
        BY <1>0, <2>1, <2>2, <3>1, BufferAssumption DEF LineTypes, EndTypes, server, MeTypes
      <3>3. MeTypes'
        BY <1>0, <1>3, <2>2, <3>1 DEF MeTypes, HeldInv, OfflineInv
      <3>4. Stays
        BY <1>0, <2>2 DEF Stays, Queue, Fields, Conversation, server
      <3> QED BY <3>2, <3>3, <3>4
    <2> DEFINE taken == IF held = 0 THEN Len(me.out) ELSE held
               first == SubSeq(me.out, 1, taken)
               rest == SubSeq(me.out, taken + 1, Len(me.out))
    <2>3. CASE /\ socket' = socket \o first /\ lost' = (lost \/ taken < Len(me.out))
               /\ me' = [me EXCEPT !.out = <<>>] /\ held' = 0
      <3>1. taken \in 0..Len(me.out)
        BY <1>0 DEF MeTypes, HeldInv, LineTypes
      <3>2. /\ first \in Seq(Line) /\ rest \in Seq(Line) /\ me.out = first \o rest
            /\ Len(rest) = Len(me.out) - taken
        BY <1>0, <3>1, RangePrefix
      <3>9. lost' \in BOOLEAN
        BY <2>3
      <3>10. taken < Len(me.out) => lost'
        BY <2>3
      <3>11. taken = Len(me.out) => lost' = lost
        BY <1>0, <2>3, <3>1 DEF LineTypes
      <3> HIDE DEF first, rest, taken
      <3>3. socket' \in Seq(Line)
        BY <1>0, <2>3, <3>2, ConcatProperties
      <3>4. me' \in Client /\ me'.out = <<>> /\ Len(me'.out) = 0 /\ Fields(me') /\ me'.sent = me.sent /\ me'.mode = "active"
        <4>1. <<>> \in Seq(Line) /\ Len(<<>>) = 0
          OBVIOUS
        <4>2. me' \in Client /\ me'.out = <<>>
          BY <2>3, <4>1 DEF MeTypes, Client
        <4> QED BY <1>3, <2>3, <4>1, <4>2 DEF MeTypes, Client, Fields
      <3>5. LineTypes' /\ EndTypes'
        BY <1>0, <2>1, <2>3, <3>3, <3>9, BufferAssumption DEF LineTypes, EndTypes, server
      <3>6. MeTypes'
        BY <1>0, <2>3, <3>4, BufferAssumption DEF MeTypes, HeldInv, OfflineInv
      <3>7. Queue = Queue' \o rest /\ Queue' \in Seq(Line)
        <4>1. Queue' = (upstream \o (socket \o first)) \o <<>>
          BY <1>0, <2>3, <3>4 DEF Queue, server
        <4>2. upstream \o (socket \o first) \in Seq(Line) /\ socket \o first \in Seq(Line) /\ upstream \o socket \in Seq(Line)
          BY <1>0, <3>2, ConcatProperties
        <4>3. Queue' = upstream \o (socket \o first)
          BY <4>1, <4>2, ConcatEmptySeq
        <4>4. (upstream \o socket) \o first = upstream \o (socket \o first)
          BY <1>0, <3>2, ConcatAssociative
        <4> DEFINE u == upstream \o socket
        <4>5. u \in Seq(Line) /\ u \o first = Queue' /\ Queue = u \o (first \o rest)
          BY <3>2, <4>2, <4>3, <4>4 DEF Queue
        <4> HIDE DEF u
        <4>6. (u \o first) \o rest = u \o (first \o rest)
          <5>1. u \in Seq(Line) /\ first \in Seq(Line) /\ rest \in Seq(Line)
            BY <3>2, <4>5
          <5> QED BY ONLY <5>1, ConcatAssociative
        <4> QED BY <4>2, <4>3, <4>5, <4>6
      <3>8. CASE taken < Len(me.out)
        BY <1>0, <3>2, <3>4, <3>5, <3>6, <3>7, <3>8, <3>10 DEF Loses, Conversation, server
      <3>12. CASE taken = Len(me.out)
        <4>1. Len(rest) = 0
          BY <1>0, <3>2, <3>12
        <4>2. rest = <<>>
          BY <3>2, <4>1, EmptySeq
        <4>3. Queue' = Queue
          BY <3>7, <4>2, ConcatEmptySeq
        <4> QED BY <1>0, <3>4, <3>5, <3>6, <3>11, <3>12, <4>3 DEF Stays, Conversation, server
      <3> QED BY <1>0, <3>1, <3>8, <3>12
    <2> QED BY <2>1, <2>2, <2>3 DEF DrainSecure
  <1> QED BY <1>1, <1>2, <1>3 DEF MeTypes, Client

\* onlineConnect and onlineConnected.
LEMMA ConnectSteps ==
  ASSUME ClientTypes, OwnTypes', Open \/ Connected \/ ConnectFails \/ ConnectLater
  PROVE  ClientTypes' /\ (Drops \/ Stays \/ Sends)
  <1> USE DEF ClientTypes
  <1>0. me.out \in Seq(Line) /\ Len(me.out) \in Nat /\ me \in Client /\ enabled \in BOOLEAN
    BY LenProperties DEF MeTypes, Client, OwnTypes
  <1>1. CASE Open
    <2>1. CASE me' = [me EXCEPT !.mode = "connecting"]
      <3> DEFINE m == [me EXCEPT !.mode = "connecting"]
      <3>1. m \in Client /\ m.out = me.out /\ m.sent = me.sent /\ Fields(m) /\ m.mode = "connecting"
        BY <1>0 DEF Client, Fields
      <3>2. me' = m /\ UNCHANGED <<server, link, inbox>> /\ me.mode = "offline" /\ pc' = pc
        BY <1>1, <2>1 DEF Open
      <3> HIDE DEF m
      <3>3. /\ Len(m.out) <= OutMax /\ Len(m.out) >= Len(me.out) /\ Reset(m)
        BY <1>0, <3>1, <3>2 DEF MeTypes, OfflineInv, Reset, Fields
      <3>4. LineTypes' /\ EndTypes' /\ MeTypes'
        BY <3>1, <3>2, <3>3, StaysThere
      <3>5. Stays
        BY <3>1, <3>2 DEF Stays, server, link, Queue, Fields, Conversation
      <3> QED BY <3>4, <3>5
    <2>2. CASE me' = Disconnect(me, enabled)
      <3>1. me' \in Client /\ me'.out = <<>> /\ Reset(me')
        BY <1>0, <2>2, DisconnectKinds DEF Reset
      <3>2. me.mode = "offline" /\ UNCHANGED <<server, link, inbox>>
        BY <1>1 DEF Open
      <3>3. linger' \in Nat
        BY <3>2 DEF link, LineTypes
      <3> QED BY <3>1, <3>2, <3>3, RestsAgain DEF link
    <2> QED BY <1>1, <2>1, <2>2 DEF Open
  <1>2. CASE Connected
    <2> DEFINE up == [me EXCEPT !.mode = "active"]
    <2>1. /\ up \in Client /\ up.out = me.out /\ up.sent = me.sent /\ Fields(up) /\ up.mode = "active"
      BY <1>0 DEF Client, Fields
    <2>2. /\ me' = Send(up, "hello") /\ me.mode = "connecting"
          /\ UNCHANGED <<held, spoiled, socket, upstream, srv, seat, at, inbox, over, lost>>
          /\ IF me'.mode = "active" THEN bridge' = "pending" /\ linger' = linger ELSE linger' = linger + 1 /\ bridge' = bridge
          /\ pc' # "crashed"
      BY <1>2 DEF Connected, up
    <2> HIDE DEF up
    <2>3. "hello" \in Line \ (Place \cup LinkLines) /\ Len(up.out) <= OutMax
      BY <2>1, LineAssumption DEF Line, Request, LinkLines, MeTypes
    <2>4. /\ me' \in Client /\ Len(me'.out) <= OutMax
          /\ \/ me' = [up EXCEPT !.out = up.out \o <<"hello">>] /\ Len(me'.out) = Len(up.out) + 1
             \/ me' = Disconnect(up, enabled)
      BY <1>0, <2>1, <2>2, <2>3, SendKinds
    <2>5. CASE me' = [up EXCEPT !.out = up.out \o <<"hello">>] /\ Len(me'.out) = Len(up.out) + 1
      <3>1. /\ me'.mode = "active" /\ me'.out = me.out \o <<"hello">> /\ me'.sent = me.sent /\ Fields(me')
        BY <2>1, <2>5 DEF Client, Fields
      <3>2. <<"hello">> \in Seq(Line)
        BY <2>3
      <3>3. Queue' = Queue \o <<"hello">>
        BY <2>2, <3>1, <3>2, QueueGrows
      <3>4. LineTypes' /\ EndTypes'
        BY <2>2, <3>1 DEF LineTypes, EndTypes
      <3>5. MeTypes'
        BY <1>0, <2>1, <2>2, <2>4, <2>5, <3>1 DEF MeTypes, HeldInv, OfflineInv, LineTypes
      <3>6. srv = "none"
        BY <2>2 DEF MeTypes, OfflineInv
      <3>7. Sends
        BY <2>2, <2>3, <3>1, <3>3, <3>6 DEF Sends, Conversation
      <3> QED BY <3>4, <3>5, <3>7
    <2>6. CASE me' = Disconnect(up, enabled)
      <3>1. me' \in Client /\ me'.out = <<>> /\ Reset(me') /\ me'.mode = "offline"
        BY <1>0, <2>1, <2>6, DisconnectKinds DEF Reset
      <3>2. linger' \in Nat /\ bridge' = bridge
        BY <2>2, <3>1 DEF LineTypes
      <3> QED BY <2>2, <3>1, <3>2, RestsAgain DEF server
    <2> QED BY <2>4, <2>5, <2>6
  <1>3. CASE ConnectFails
    BY <1>0, <1>3, Disconnects DEF ConnectFails
  <1>4. CASE ConnectLater
    <2>1. me' = me /\ UNCHANGED <<server, link, inbox>> /\ pc' # "crashed"
      BY <1>4 DEF ConnectLater
    <2> QED BY <2>1, StaysSame
  <1> QED BY <1>1, <1>2, <1>3, <1>4

\* The state line.
LEMMA StateSteps ==
  ASSUME ClientTypes, TurnInv, OwnTypes', SendState
  PROVE  ClientTypes' /\ (Drops \/ Stays \/ Sends)
  <1> USE DEF ClientTypes
  <1>0. me.out \in Seq(Line) /\ Len(me.out) \in Nat /\ me \in Client /\ Len(me.out) <= OutMax
    BY LenProperties DEF MeTypes, Client
  <1> DEFINE n == Send(me, presence)
  <1>1. CASE ~(presence # NoPlace /\ me.sent # presence)
    <2>1. Becomes(me) /\ pc' # "crashed"
      BY <1>1 DEF SendState
    <2> QED BY <2>1, StaysSame DEF Becomes
  <1>2. CASE presence # NoPlace /\ me.sent # presence
    <2>1. presence \in Place /\ presence \in Line
      BY <1>2 DEF OwnTypes, Line
    <2>2. /\ n \in Client /\ Len(n.out) <= OutMax
          /\ \/ n = [me EXCEPT !.out = me.out \o <<presence>>] /\ Len(n.out) = Len(me.out) + 1
             \/ n = Disconnect(me, enabled)
      BY <1>0, <2>1, SendKinds DEF OwnTypes
    <2>3. Becomes(IF n.mode = "active" THEN [n EXCEPT !.sent = presence] ELSE n) /\ pc' # "crashed"
      BY <1>2 DEF SendState
    <2> HIDE DEF n
    <2>4. CASE n.mode # "active"
      <3>1. Becomes(n)
        BY <2>3, <2>4
      <3>2. n = Send(me, presence)
        BY DEF n
      <3>3. CASE n = Disconnect(me, enabled)
        BY <3>1, <3>3, Disconnects DEF OwnTypes
      <3>4. CASE n = [me EXCEPT !.out = me.out \o <<presence>>] /\ Len(n.out) = Len(me.out) + 1
        <4>1. n.mode = me.mode /\ n.out = me.out \o <<presence>> /\ n.sent = me.sent /\ Fields(n)
          BY <1>0, <3>4 DEF Client, Fields
        <4>2. FALSE
          BY <2>4, <4>1 DEF SendState, TurnInv
        <4> QED BY <4>2
      <3> QED BY <2>2, <3>3, <3>4
    <2>5. CASE n.mode = "active"
      <3>1. n = [me EXCEPT !.out = me.out \o <<presence>>] /\ Len(n.out) = Len(me.out) + 1
        BY <1>0, <2>2, <2>5, DisconnectKinds DEF OwnTypes
      <3> DEFINE m == [n EXCEPT !.sent = presence]
      <3>2. /\ m \in Client /\ m.out = me.out \o <<presence>> /\ Len(m.out) = Len(me.out) + 1 /\ m.sent = presence
            /\ Fields(m) /\ m.mode = "active" /\ me.mode = "active"
        BY <1>0, <2>1, <2>2, <2>5, <3>1 DEF Client, Fields
      <3>3. Becomes(m)
        BY <2>3, <2>5
      <3> HIDE DEF m
      <3>4. me' = m /\ UNCHANGED <<server, link, inbox>>
        BY <3>2, <3>3 DEF Becomes
      <3>5. LineTypes' /\ EndTypes' /\ MeTypes'
        BY <1>0, <2>2, <2>3, <3>1, <3>2, <3>4, StaysThere
      <3>6. <<presence>> \in Seq(Line)
        BY <2>1
      <3>7. Queue' = Queue \o <<presence>>
        BY <3>2, <3>4, <3>6, QueueGrows DEF server, link
      <3>8. presence \notin LinkLines
        BY <2>1, LineAssumption DEF LinkLines, Request
      <3>9. Sends
        BY <2>1, <3>2, <3>4, <3>7, <3>8 DEF Sends, server, link, Conversation, Fields
      <3> QED BY <3>5, <3>9
    <2> QED BY <2>4, <2>5
  <1> QED BY <1>1, <1>2

\* The place of the main loop.
LEMMA TurnStep ==
  ASSUME ClientTypes, TurnInv, [ClientNext]_clientVars
  PROVE  TurnInv'
  <1> USE DEF TurnInv, owner
  <1>1. CASE Owner \/ Restart
    BY <1>1 DEF Owner, Warp, Ask, CorePacket, Toggle, Interrupt, Move, Restart
  <1>2. CASE TimerPasses
    BY <1>2 DEF TimerPasses, ClientTypes, MeTypes, Client
  <1>3. CASE Drain \/ Open \/ ConnectFails \/ ConnectLater \/ SendState \/ ReceiveEnds
    BY <1>3 DEF Drain, Open, ConnectFails, ConnectLater, SendState, ReceiveEnds
  <1>4. CASE Connected
    BY <1>4 DEF Connected
  <1>5. CASE ReceiveLine
    BY <1>5 DEF ReceiveLine, Parse, LinkStarts, Reply
  <1>6. CASE Environment \/ PartnerJoins \/ PartnerLeaves \/ ConnectionEnds
    BY <1>6 DEF Environment, UpstreamOpens, BridgeTakes, Released, ServerReads, PartnerJoins, PartnerLeaves, ConnectionEnds
  <1>7. CASE UNCHANGED clientVars
    BY <1>7 DEF clientVars
  <1> QED BY <1>1, <1>2, <1>3, <1>4, <1>5, <1>6, <1>7 DEF ClientNext, Update

\* The client reads a notice, or finds that there is none.
LEMMA ReceiveSteps ==
  ASSUME ClientTypes, OwnTypes', ReceiveLine \/ ReceiveEnds
  PROVE  ClientTypes' /\ (Drops \/ Stays \/ Hears)
  <1> USE DEF ClientTypes
  <1>0. /\ me.out \in Seq(Line) /\ Len(me.out) \in Nat /\ me \in Client /\ Len(me.out) <= OutMax
        /\ LinkConfigured \in BOOLEAN
    BY LenProperties, BufferAssumption DEF MeTypes, Client
  <1>1. CASE ReceiveEnds
    <2>1. pc' # "crashed"
      BY <1>1 DEF ReceiveEnds
    <2>2. CASE over /\ inbox = <<>>
      BY <1>1, <2>2, Disconnects DEF ReceiveEnds, OwnTypes
    <2>3. CASE ~(over /\ inbox = <<>>)
      BY <1>1, <2>1, <2>3, StaysSame DEF ReceiveEnds, Becomes
    <2> QED BY <2>2, <2>3
  <1>2. ASSUME NEW lines \in Seq(Line), NEW m \in Client, Reply(lines, m), inbox # <<>>,
               m.out = me.out, m.sent = me.sent, m.mode = me.mode
        PROVE  /\ ClientTypes'
               /\ \/ Drops
                  \/ /\ inbox' = Tail(inbox) /\ UNCHANGED <<seat, at, srv, over, bridge, lost>> /\ me'.sent = me.sent
                     /\ HearsAs(m.auth, m.joined, m.started, lines)
    <2>1. CASE Len(me.out) + Len(lines) <= OutMax
      <3>1. me' = [m EXCEPT !.out = m.out \o lines] /\ inbox' = Tail(inbox) /\ UNCHANGED <<server, link, pc>>
        BY <1>2, <2>1 DEF Reply
      <3>2. me.out \o lines \in Seq(Line) /\ Len(me.out \o lines) = Len(me.out) + Len(lines) /\ Len(lines) \in Nat
        BY <1>0, <1>2, ConcatProperties, LenProperties
      <3>3. /\ me' \in Client /\ me'.out = me.out \o lines /\ me'.sent = me.sent /\ me'.mode = me.mode
            /\ me'.auth = m.auth /\ me'.joined = m.joined /\ me'.started = m.started
        BY <1>2, <3>1, <3>2 DEF Client
      <3>4. Queue' = Queue \o lines
        BY <1>2, <3>1, <3>3, QueueGrows DEF server, link
      <3>5. Tail(inbox) \in Seq(Incoming)
        BY <1>2, RangeTail DEF LineTypes
      <3>6. LineTypes' /\ EndTypes'
        BY <3>1, <3>5 DEF LineTypes, EndTypes, server, link
      <3>7. me.mode = "active"
        BY <1>2 DEF MeTypes, OfflineInv
      <3>8. MeTypes'
        BY <1>0, <2>1, <3>1, <3>2, <3>3, <3>7 DEF MeTypes, HeldInv, OfflineInv, LineTypes, link
      <3> QED BY <3>1, <3>3, <3>4, <3>6, <3>8 DEF HearsAs, server, link
    <2>2. CASE ~(Len(me.out) + Len(lines) <= OutMax)
      <3>1. me' = Idle /\ Forget
        BY <1>2, <2>2 DEF Reply
      <3>2. me.mode # "offline" /\ Idle \in Client /\ Idle.mode = "offline" /\ Idle.out = <<>> /\ Reset(Idle)
        BY <1>0, <1>2, DisconnectKinds DEF MeTypes, OfflineInv, Reset
      <3>3. Becomes(Idle)
        BY <3>1, <3>2 DEF Becomes
      <3> QED BY <3>2, <3>3, Disconnects
    <2> QED BY <2>1, <2>2
  <1>3. CASE ReceiveLine
    <2>1. inbox # <<>> /\ Parse(Head(inbox))
      BY <1>3 DEF ReceiveLine
    <2>2. <<>> \in Seq(Line) /\ <<"leave">> \in Seq(Line) /\ SyncLines \in Seq(Line)
      <3>1. {"leave", "locations", "lists", "join"} \subseteq Line
        BY DEF Line, Request
      <3>2. <<"leave">> \in Seq(Line) /\ <<"locations", "lists">> \in Seq(Line) /\ <<"join">> \in Seq(Line) /\ <<>> \in Seq(Line)
        BY <3>1
      <3>3. (IF LinkConfigured THEN <<"join">> ELSE <<>>) \in Seq(Line)
        BY <3>2
      <3>4. SyncLines \in Seq(Line)
        BY <3>2, <3>3, ConcatProperties DEF SyncLines
      <3> QED BY <3>2, <3>4
    <2>3. CASE Head(inbox) = "welcome"
      <3> DEFINE m == [me EXCEPT !.auth = TRUE, !.joined = LinkConfigured]
      <3>1. Reply(SyncLines, m)
        BY <2>1, <2>3 DEF Parse
      <3>2. /\ m \in Client /\ m.out = me.out /\ m.sent = me.sent /\ m.mode = me.mode
            /\ m.auth = TRUE /\ m.joined = LinkConfigured /\ m.started = me.started
        BY <1>0 DEF Client
      <3> HIDE DEF m
      <3> QED BY <1>2, <2>1, <2>2, <2>3, <3>1, <3>2 DEF Hears
    <2>4. CASE Head(inbox) = "started"
      <3> DEFINE m == [me EXCEPT !.started = TRUE]
                 n == [me EXCEPT !.joined = FALSE]
      <3>1. Reply(<<>>, m) \/ Reply(<<"leave">>, n)
        BY <2>1, <2>4 DEF Parse, LinkStarts
      <3>2. /\ m \in Client /\ m.out = me.out /\ m.sent = me.sent /\ m.mode = me.mode
            /\ m.auth = me.auth /\ m.joined = me.joined /\ m.started = TRUE
        BY <1>0 DEF Client
      <3>3. /\ n \in Client /\ n.out = me.out /\ n.sent = me.sent /\ n.mode = me.mode
            /\ n.auth = me.auth /\ n.joined = FALSE /\ n.started = me.started
        BY <1>0 DEF Client
      <3> HIDE DEF m, n
      <3> QED BY <1>2, <2>1, <2>2, <2>4, <3>1, <3>2, <3>3 DEF Hears
    <2>5. CASE Head(inbox) \in {"waiting", "peer_gone"}
      <3> DEFINE m == [me EXCEPT !.started = FALSE]
      <3>1. Reply(<<>>, m)
        BY <2>1, <2>5 DEF Parse
      <3>2. /\ m \in Client /\ m.out = me.out /\ m.sent = me.sent /\ m.mode = me.mode
            /\ m.auth = me.auth /\ m.joined = me.joined /\ m.started = FALSE
        BY <1>0 DEF Client
      <3> HIDE DEF m
      <3> QED BY <1>2, <2>1, <2>2, <2>5, <3>1, <3>2 DEF Hears
    <2>6. CASE Head(inbox) \in Refusal
      <3> DEFINE m == [me EXCEPT !.started = FALSE, !.joined = FALSE]
      <3>1. Reply(<<>>, m)
        BY <2>1, <2>6 DEF Parse, Refusal
      <3>2. /\ m \in Client /\ m.out = me.out /\ m.sent = me.sent /\ m.mode = me.mode
            /\ m.auth = me.auth /\ m.joined = FALSE /\ m.started = FALSE
        BY <1>0 DEF Client
      <3> HIDE DEF m
      <3> QED BY <1>2, <2>1, <2>2, <2>6, <3>1, <3>2 DEF Hears
    <2>7. CASE Head(inbox) \notin LinkNotice \cup {"welcome"}
      <3>1. Reply(<<>>, me)
        BY <2>1, <2>7 DEF Parse, LinkNotice, Refusal
      <3> QED BY <1>0, <1>2, <2>1, <2>2, <2>7, <3>1 DEF Hears
    <2> QED BY <2>3, <2>4, <2>5, <2>6, <2>7 DEF LinkNotice
  <1> QED BY <1>1, <1>3

\* A step of the bridge or the server leaves the client as it is.
LEMMA RemoteStays ==
  ASSUME OwnTypes', LineTypes', EndTypes', MeTypes, me' = me, held' = held, pc' = pc, me.mode = "active"
  PROVE  ClientTypes'
  BY DEF ClientTypes, MeTypes, HeldInv, OfflineInv

\* The bridge and the server.
LEMMA RemoteSteps ==
  ASSUME ClientTypes, OwnTypes', Environment
  PROVE  ClientTypes' /\ (Stays \/ Opens \/ Breaks \/ Reads)
  <1> USE DEF ClientTypes
  <1>0. /\ upstream \in Seq(Line) /\ socket \in Seq(Line) /\ inbox \in Seq(Incoming) /\ me.out \in Seq(Line)
        /\ bridge # "none" => me.mode = "active"
    BY DEF LineTypes, MeTypes, Client, OfflineInv
  <1>1. CASE UpstreamOpens
    <2>1. LineTypes' /\ EndTypes'
      BY <1>1 DEF UpstreamOpens, LineTypes, EndTypes, link
    <2>2. me' = me /\ held' = held /\ pc' = pc /\ me.mode = "active" /\ Queue' = Queue
      BY <1>0, <1>1 DEF UpstreamOpens, link, Queue
    <2> QED BY <1>1, <2>1, <2>2, RemoteStays DEF Opens
  <1>2. CASE Released
    <2>1. /\ UNCHANGED <<me, owner, pc, held, spoiled, socket, lost, server, inbox, faults>> /\ linger' \in Nat
      BY <1>2 DEF Released, LineTypes
    <2>2. LineTypes' /\ EndTypes' /\ MeTypes'
      BY <2>1 DEF LineTypes, EndTypes, MeTypes, HeldInv, OfflineInv, server
    <2>3. Stays
      BY <2>1 DEF Stays, server, Queue, Fields, Conversation
    <2> QED BY <2>2, <2>3
  <1>3. CASE BridgeTakes
    <2> DEFINE h == <<Head(socket)>>
               r == Tail(socket)
               b == me.out
    <2>1. /\ socket = h \o r /\ h \in Seq(Line) /\ r \in Seq(Line) /\ Head(socket) \in Line /\ socket # <<>>
      BY <1>0, <1>3, HeadBefore DEF BridgeTakes
    <2>2. /\ me' = me /\ held' = held /\ pc' = pc /\ me.mode = "active" /\ socket' = r /\ ~over
          /\ UNCHANGED <<owner, spoiled, lost, linger, bridge, srv, seat, at, inbox, faults>>
      BY <1>0, <1>3 DEF BridgeTakes
    <2> HIDE DEF h, r
    <2>3. CASE upstream' = Append(upstream, Head(socket)) /\ over' = over
      <3>1. upstream' = upstream \o h /\ upstream' \in Seq(Line)
        BY <1>0, <2>1, <2>3, AppendIsConcat, AppendProperties DEF h
      <3>2. LineTypes' /\ EndTypes'
        BY <2>1, <2>2, <2>3, <3>1 DEF LineTypes, EndTypes
      <3>3. (upstream \o h) \o r = upstream \o (h \o r)
        <4>1. upstream \in Seq(Line) /\ h \in Seq(Line) /\ r \in Seq(Line)
          BY <1>0, <2>1
        <4> QED BY ONLY <4>1, ConcatAssociative
      <3>4. Queue' = Queue
        BY <2>1, <2>2, <3>1, <3>3 DEF Queue
      <3>5. Stays
        BY <2>2, <2>3, <3>4 DEF Stays, Fields, Conversation
      <3> QED BY <2>2, <3>2, <3>5, RemoteStays
    <2>4. CASE over' = TRUE /\ upstream' = upstream
      <3>1. LineTypes' /\ EndTypes'
        BY <1>0, <2>1, <2>2, <2>4 DEF LineTypes, EndTypes
      <3>2. Range(Queue') \subseteq Range(Queue)
        <4> DEFINE P(w) == Range(upstream) \cup Range(w) \cup Range(me.out)
        <4>1. ASSUME NEW w \in Seq(Line)
              PROVE  Range((upstream \o w) \o me.out) = P(w)
          <5>1. upstream \in Seq(Line) /\ me.out \in Seq(Line)
            BY <1>0
          <5>2. upstream \o w \in Seq(Line)
            BY ONLY <4>1, <5>1, ConcatProperties
          <5>3. Range(upstream \o w) = Range(upstream) \cup Range(w)
            BY ONLY <4>1, <5>1, RangeConcatenation
          <5> DEFINE v == upstream \o w
          <5> HIDE DEF v
          <5>4. v \in Seq(Line) /\ Range(v) = Range(upstream) \cup Range(w)
            BY <5>2, <5>3 DEF v
          <5>5. Range(v \o me.out) = Range(v) \cup Range(me.out)
            BY ONLY <5>1, <5>4, RangeConcatenation
          <5>6. Range(v \o me.out) = P(w)
            BY <5>4, <5>5
          <5> QED BY <5>6 DEF v
        <4>2. Range(h \o r) = Range(h) \cup Range(r)
          BY ONLY <2>1, RangeConcatenation
        <4>3. Range(Queue) = P(socket) /\ Range(Queue') = P(r)
          BY <1>0, <2>1, <2>2, <2>4, <4>1 DEF Queue
        <4> QED BY <2>1, <4>2, <4>3
      <3>3. \E n \in 0..Len(inbox) : inbox' = SubSeq(inbox, 1, n)
        BY <1>0, <2>2, SubSeqFull, LenProperties
      <3>4. Breaks
        BY <2>2, <2>4, <3>2, <3>3 DEF Breaks, Fields
      <3> QED BY <2>2, <3>1, <3>4, RemoteStays
    <2> QED BY <1>3, <2>3, <2>4 DEF BridgeTakes
  <1>4. CASE ServerReads
    <2> DEFINE h == <<Head(upstream)>>
               r == Tail(upstream)
    <2>1. /\ upstream = h \o r /\ h \in Seq(Line) /\ r \in Seq(Line) /\ Head(upstream) \in Line /\ upstream # <<>>
      BY <1>0, <1>4, HeadBefore DEF ServerReads
    <2>2. /\ me' = me /\ held' = held /\ pc' = pc /\ me.mode = "active" /\ upstream' = r /\ ~over
          /\ UNCHANGED <<owner, link, bridge, faults>>
          /\ (FirstLine(Head(upstream)) \/ LaterLine(Head(upstream)))
      <3>1. me' = me /\ pc' = pc /\ me.mode = "active" /\ ~over /\ UNCHANGED <<owner, link, bridge, faults>>
        BY <1>0, <1>4 DEF ServerReads
      <3>2. upstream' = r /\ (FirstLine(Head(upstream)) \/ LaterLine(Head(upstream)))
        BY <1>4 DEF ServerReads
      <3>3. held' = held
        BY <3>1 DEF link
      <3> QED BY <3>1, <3>2, <3>3
    <2> HIDE DEF h, r
    <2>3. Head(Queue) = Head(upstream) /\ Queue # <<>> /\ Queue' = Tail(Queue)
      <3>1. /\ upstream \o socket # <<>> /\ Head(upstream \o socket) = Head(upstream)
            /\ Tail(upstream \o socket) = r \o socket
        BY <1>0, <2>1, TailOfConcat DEF r
      <3> DEFINE v == upstream \o socket
      <3>2. v \in Seq(Line) /\ v # <<>>
        BY <1>0, <3>1, ConcatProperties
      <3> HIDE DEF v
      <3>3. v \o me.out # <<>> /\ Head(v \o me.out) = Head(v) /\ Tail(v \o me.out) = Tail(v) \o me.out
        BY <1>0, <3>2, TailOfConcat
      <3>4. Queue = v \o me.out /\ Queue' = (r \o socket) \o me.out
        BY <2>2 DEF Queue, link, v
      <3> QED BY <3>1, <3>3, <3>4 DEF v
    <2>4. /\ inbox' \in Seq(Incoming) /\ over' \in BOOLEAN
          /\ seat' \in {"none", "waiting", "host", "guest"} /\ srv' \in {"none", "new", "in", "ended"}
          /\ at' \in Place \cup {NoPlace}
      <3>1. ASSUME NEW notices \in Seq(Incoming), Say(notices) PROVE inbox' \in Seq(Incoming)
        BY <1>0, <3>1, ConcatProperties DEF Say
      <3>2. \A a \in Incoming : <<a>> \in Seq(Incoming)
        OBVIOUS
      <3>3. <<>> \in Seq(Incoming)
        OBVIOUS
      <3>4. CASE FirstLine(Head(upstream))
        <4>1. inbox' \in Seq(Incoming)
          BY <3>1, <3>2, <3>4 DEF FirstLine, Incoming
        <4>2. over' \in BOOLEAN
          BY <3>4 DEF FirstLine, EndTypes
        <4> QED BY <3>4, <4>1, <4>2 DEF FirstLine, EndTypes
      <3>5. CASE LaterLine(Head(upstream))
        <4>1. inbox' \in Seq(Incoming)
          BY <3>1, <3>2, <3>3, <3>5 DEF LaterLine, LinkLine, Incoming
        <4> QED BY <3>5, <4>1 DEF LaterLine, LinkLine, EndTypes
      <3> QED BY <2>2, <3>4, <3>5
    <2>5. LineTypes' /\ EndTypes'
      BY <2>1, <2>2, <2>4 DEF LineTypes, EndTypes, link
    <2>6. Reads
      BY <2>2, <2>3 DEF Reads, link
    <2> QED BY <2>2, <2>5, <2>6, RemoteStays DEF link
  <1> QED BY <1>1, <1>2, <1>3, <1>4 DEF Environment

\* The partner, and what ends a connection.
LEMMA PartnerSteps ==
  ASSUME ClientTypes, OwnTypes', PartnerJoins \/ PartnerLeaves \/ ConnectionEnds
  PROVE  ClientTypes' /\ (Breaks \/ Partners)
  <1> USE DEF ClientTypes
  <1>0. /\ inbox \in Seq(Incoming) /\ (bridge # "none" \/ seat # "none" => me.mode = "active")
    BY DEF LineTypes, MeTypes, OfflineInv
  <1>1. CASE PartnerJoins \/ PartnerLeaves
    <2>1. /\ UNCHANGED <<me, owner, pc, link, bridge, upstream, srv, at, over>> /\ seat # "none"
          /\ seat' \in {"none", "waiting", "host", "guest"}
      BY <1>1 DEF PartnerJoins, PartnerLeaves
    <2>2. inbox' \in Seq(Incoming)
      <3>1. \E notices \in Seq(Incoming) : inbox' = inbox \o notices
        <4>1. <<"started">> \in Seq(Incoming) /\ <<"peer_gone", "waiting">> \in Seq(Incoming) /\ <<"ended">> \in Seq(Incoming)
          BY DEF Incoming
        <4> QED BY <1>1, <4>1 DEF PartnerJoins, PartnerLeaves, Say
      <3> QED BY <1>0, <3>1, ConcatProperties
    <2>3. LineTypes' /\ EndTypes'
      BY <2>1, <2>2 DEF LineTypes, EndTypes, link
    <2>4. Partners
      BY <1>1, <2>1 DEF Partners, Queue, link
    <2> QED BY <1>0, <2>1, <2>3, <2>4, RemoteStays DEF link
  <1>2. CASE ConnectionEnds
    <2>1. /\ UNCHANGED <<me, owner, pc, link, bridge, upstream, at>> /\ bridge # "none"
          /\ over' = TRUE /\ srv' = "ended" /\ seat' = "none"
          /\ \E n \in 0..Len(inbox) : inbox' = SubSeq(inbox, 1, n)
      BY <1>2 DEF ConnectionEnds
    <2>2. inbox' \in Seq(Incoming)
      BY <1>0, <2>1, RangePrefix
    <2>3. LineTypes' /\ EndTypes'
      BY <2>1, <2>2 DEF LineTypes, EndTypes, link
    <2>4. Breaks
      BY <2>1 DEF Breaks, Fields, Queue, link
    <2> QED BY <1>0, <2>1, <2>3, <2>4, RemoteStays DEF link
  <1> QED BY <1>1, <1>2

\* Every step is of one of the kinds, and keeps the types.
LEMMA ClientStep ==
  ASSUME ClientTypes, TurnInv, [ClientNext]_clientVars
  PROVE  ClientTypes' /\ ClientKinds
  <1>1. OwnTypes'
    BY OwnStep
  <1>2. CASE Owner \/ TimerPasses \/ Restart
    BY <1>1, <1>2, OwnerSteps DEF ClientKinds
  <1>3. CASE Drain
    BY <1>1, <1>3, DrainSteps DEF ClientKinds
  <1>4. CASE Open \/ Connected \/ ConnectFails \/ ConnectLater
    BY <1>1, <1>4, ConnectSteps DEF ClientKinds
  <1>5. CASE SendState
    BY <1>1, <1>5, StateSteps DEF ClientKinds
  <1>6. CASE ReceiveLine \/ ReceiveEnds
    BY <1>1, <1>6, ReceiveSteps DEF ClientKinds
  <1>7. CASE Environment
    BY <1>1, <1>7, RemoteSteps DEF ClientKinds
  <1>8. CASE PartnerJoins \/ PartnerLeaves \/ ConnectionEnds
    BY <1>1, <1>8, PartnerSteps DEF ClientKinds
  <1>9. CASE UNCHANGED clientVars
    <2>1. me' = me /\ UNCHANGED <<server, link, inbox>> /\ pc' = pc
      BY <1>9 DEF clientVars, server, link
    <2> QED BY <1>1, <2>1, StaysSame DEF ClientKinds, ClientTypes
  <1> QED BY <1>2, <1>3, <1>4, <1>5, <1>6, <1>7, <1>8, <1>9 DEF ClientNext, Update
-----------------------------------------------------------------------------
(* What each kind of step does to the queue and the notices.               *)

ClientCore == UnknownInv /\ WelcomeInv /\ JoinInv /\ PositionIsCurrent /\ LinkAgrees

\* The types that the arguments below use.
LEMMA CoreTypes ==
  ASSUME ClientTypes
  PROVE  /\ Queue \in Seq(Line) /\ inbox \in Seq(Incoming) /\ (me.mode # "active" => Silent /\ Reset(me))
         /\ me.auth \in BOOLEAN /\ me.joined \in BOOLEAN /\ me.started \in BOOLEAN
         /\ lost \in BOOLEAN /\ over \in BOOLEAN
  <1>1. Queue \in Seq(Line)
    BY QueueType DEF ClientTypes
  <1>2. me.mode # "active" => Silent /\ Reset(me)
    BY DEF ClientTypes, MeTypes, OfflineInv, Silent, Reset
  <1>3. /\ inbox \in Seq(Incoming) /\ me \in Client /\ lost \in BOOLEAN /\ over \in BOOLEAN
    BY DEF ClientTypes, LineTypes, EndTypes, MeTypes
  <1> QED BY <1>1, <1>2, <1>3 DEF Client

\* What a sequence ends with is in it.
LEMMA LastIn == \A s, P, v : LastIs(s, P, v) => v \in Range(s) \cap P
  BY DEF LastIs, Range

\* Nothing is the last of an empty sequence, or twice in it.
LEMMA NothingInEmpty == \A P, v, x : ~LastIs(<<>>, P, v) /\ Once(<<>>, x)
  BY DEF LastIs, Once

\* What a step appends is the first thing to look at.
LEMMA Appended ==
  ASSUME NEW S, NEW s \in Seq(S), NEW t \in Seq(S)
  PROVE  /\ Range(s \o t) = Range(s) \cup Range(t)
         /\ \A P, v : LastIs(s \o t, P, v) <=> LastIs(t, P, v) \/ (LastIs(s, P, v) /\ Range(t) \cap P = {})
         /\ \A x : Once(s \o t, x) <=> Once(s, x) /\ Once(t, x) /\ (x \notin Range(s) \/ x \notin Range(t))
  <1>1. Range(s \o t) = Range(s) \cup Range(t)
    BY RangeConcatenation
  <1>2. \A P, v : LastIs(s \o t, P, v) <=> LastIs(t, P, v) \/ (LastIs(s, P, v) /\ Range(t) \cap P = {})
    BY LastConcat
  <1>3. \A x : Once(s \o t, x) <=> Once(s, x) /\ Once(t, x) /\ (x \notin Range(s) \/ x \notin Range(t))
    BY OnceParts
  <1> QED BY <1>1, <1>2, <1>3

\* A client that dropped its connection has nothing to be wrong about.
LEMMA CoreDrops ==
  ASSUME ClientTypes', Drops
  PROVE  ClientCore'
  <1>1. Queue' = <<>> \o <<>> \o <<>> /\ inbox' = <<>> /\ seat' = "none" /\ srv' = "none" /\ bridge' = "none"
    BY DEF Drops, Silent, Queue
  <1>2. Queue' = <<>>
    BY <1>1, ConcatEmptySeq
  <1>3. ~me'.auth /\ ~me'.joined /\ ~me'.started /\ me'.sent = NoPlace
    BY DEF Drops, Reset
  <1>4. Range(Queue') = {} /\ Range(inbox') = {}
    BY <1>1, <1>2, RangeShort
  <1>5. Once(Queue', "join") /\ Once(inbox', "welcome") /\ ~LastIs(inbox', LinkNotice, "started")
    BY <1>1, <1>2, NothingInEmpty
  <1>6. UnknownInv' /\ WelcomeInv' /\ JoinInv' /\ PositionIsCurrent'
    BY <1>1, <1>3, <1>4, <1>5 DEF UnknownInv, WelcomeInv, JoinInv, PositionIsCurrent
  <1>7. LinkAgrees'
    BY <1>1, <1>3, <1>4, <1>5 DEF LinkAgrees, WillBeStarted, Paired
  <1> QED BY <1>6, <1>7 DEF ClientCore

\* A line that is moved on is still to be read.
LEMMA CoreStays ==
  ASSUME ClientCore, Stays
  PROVE  ClientCore'
  BY DEF ClientCore, Stays, Fields, Conversation, UnknownInv, WelcomeInv, JoinInv, PositionIsCurrent,
         LinkAgrees, WillBeStarted, Paired

\* The server waits for the first line: the client was not welcomed yet.
LEMMA CoreOpens ==
  ASSUME ClientCore, Opens
  PROVE  ClientCore'
  <1>1. /\ bridge = "pending" /\ ~over /\ bridge' = "open" /\ srv' = "new" /\ Queue' = Queue
        /\ me' = me /\ UNCHANGED <<inbox, seat, at, over, lost>>
    BY DEF Opens, UpstreamOpens, link
  <1>2. WelcomeInv'
    BY <1>1 DEF ClientCore, WelcomeInv
  <1> QED BY <1>1, <1>2 DEF ClientCore, UnknownInv, JoinInv, PositionIsCurrent, LinkAgrees, WillBeStarted, Paired

\* A position that is sent is the last one that the server will hear of.
LEMMA CoreSends ==
  ASSUME ClientTypes, ClientCore, Sends
  PROVE  ClientCore'
  <1>1. PICK l \in Line :
          /\ Queue' = Queue \o <<l>> /\ Fields(me') /\ UNCHANGED <<Conversation, lost>>
          /\ me'.sent = IF l \in Place THEN l ELSE me.sent
          /\ l \in LinkLines => l = "packet" /\ me.started
          /\ bridge' = bridge \/ srv = "none"
    BY DEF Sends
  <1>2. /\ me'.auth = me.auth /\ me'.joined = me.joined /\ me'.started = me.started
        /\ UNCHANGED <<inbox, seat, at, srv, over, lost>>
    BY <1>1 DEF Fields, Conversation
  <1>3. Queue \in Seq(Line) /\ <<l>> \in Seq(Line)
    BY CoreTypes
  <1>4. /\ Range(Queue') = Range(Queue) \cup {l}
        /\ \A v : LastIs(Queue', Place, v) <=> (l = v /\ v \in Place) \/ (LastIs(Queue, Place, v) /\ {l} \cap Place = {})
        /\ Once(Queue, "join") /\ l # "join" => Once(Queue', "join")
    <2>1. Range(<<l>>) = {l} /\ \A v : LastIs(<<l>>, Place, v) <=> l = v /\ v \in Place
      BY RangeShort, LastOfOne
    <2>2. l # "join" => Once(<<l>>, "join") /\ "join" \notin Range(<<l>>)
      BY <2>1, NotInOnce
    <2> QED BY <1>1, <1>3, <2>1, <2>2, Appended
  <1>5. UnknownInv'
    BY <1>1, <1>2, <1>4 DEF ClientCore, UnknownInv
  <1>6. WelcomeInv'
    BY <1>1, <1>2 DEF ClientCore, WelcomeInv
  <1>7. JoinInv'
    BY <1>1, <1>2, <1>4 DEF ClientCore, JoinInv, LinkLines
  <1>8. PositionIsCurrent'
    <2>1. CASE l \in Place
      BY <1>1, <1>4, <2>1 DEF PositionIsCurrent
    <2>2. CASE l \notin Place
      BY <1>1, <1>2, <1>4, <2>2 DEF ClientCore, PositionIsCurrent
    <2> QED BY <2>1, <2>2
  <1>9. LinkAgrees'
    BY <1>2, <1>4 DEF ClientCore, LinkAgrees, WillBeStarted, Paired
  <1> QED BY <1>5, <1>6, <1>7, <1>8, <1>9 DEF ClientCore

\* Lines that leave the buffer unsent.
LEMMA CoreLoses ==
  ASSUME ClientTypes, ClientCore, Loses
  PROVE  ClientCore'
  <1>1. /\ me'.auth = me.auth /\ me'.joined = me.joined /\ me'.started = me.started /\ me'.sent = me.sent
        /\ UNCHANGED <<inbox, seat, at, srv, over, bridge>>
    BY DEF Loses, Fields, Conversation
  <1>2. /\ Range(Queue') \subseteq Range(Queue) /\ (Once(Queue, "join") => Once(Queue', "join"))
        /\ (lost' \/ Reset(me))
    <2>1. CASE lost' /\ \E r \in Seq(Line) : Queue' \in Seq(Line) /\ Queue = Queue' \o r
      <3>1. PICK r \in Seq(Line) : Queue' \in Seq(Line) /\ Queue = Queue' \o r
        BY <2>1
      <3> QED BY <2>1, <3>1, Appended
    <2>2. CASE Reset(me) /\ Range(Queue') \subseteq Range(Queue)
      <3>1. "join" \notin Range(Queue)
        BY <2>2 DEF Reset, ClientCore, UnknownInv, LinkLines
      <3> QED BY <2>2, <3>1, NotInOnce
    <2> QED BY <2>1, <2>2 DEF Loses
  <1>3. UnknownInv' /\ WelcomeInv' /\ JoinInv'
    BY <1>1, <1>2 DEF ClientCore, UnknownInv, WelcomeInv, JoinInv
  <1>4. CASE lost'
    BY <1>1, <1>2, <1>3, <1>4 DEF ClientCore, PositionIsCurrent, LinkAgrees, WillBeStarted, Paired
  <1>5. CASE Reset(me)
    <2>1. seat = "none" /\ ~me.joined /\ me.sent = NoPlace
      BY <1>5 DEF Reset, ClientCore, UnknownInv
    <2> QED BY <1>1, <1>3, <2>1 DEF ClientCore, PositionIsCurrent, LinkAgrees, WillBeStarted, Paired
  <1> QED BY <1>2, <1>4, <1>5

\* A connection that breaks takes its promises with it.
LEMMA CoreBreaks ==
  ASSUME ClientTypes, ClientCore, Breaks
  PROVE  ClientCore'
  <1>1. /\ me'.auth = me.auth /\ me'.joined = me.joined /\ me'.started = me.started /\ me'.sent = me.sent
        /\ over' /\ Range(Queue') \subseteq Range(Queue)
        /\ seat' \in {seat, "none"} /\ srv' \in {srv, "ended"}
    BY DEF Breaks, Fields
  <1>2. Range(inbox') \subseteq Range(inbox) /\ (Once(inbox, "welcome") => Once(inbox', "welcome"))
    <2>1. PICK n \in 0..Len(inbox) : inbox' = SubSeq(inbox, 1, n)
      BY DEF Breaks
    <2>2. /\ inbox' \in Seq(Incoming) /\ SubSeq(inbox, n + 1, Len(inbox)) \in Seq(Incoming)
          /\ inbox = inbox' \o SubSeq(inbox, n + 1, Len(inbox))
      BY <2>1, CoreTypes, RangePrefix
    <2> DEFINE p == inbox'
               r == SubSeq(inbox, n + 1, Len(inbox))
    <2>3. p \in Seq(Incoming) /\ r \in Seq(Incoming) /\ inbox = p \o r
      BY <2>2
    <2> HIDE DEF p, r
    <2>4. Range(p \o r) = Range(p) \cup Range(r) /\ (Once(p \o r, "welcome") => Once(p, "welcome"))
      BY <2>3, Appended
    <2>5. Range(p) \subseteq Range(inbox) /\ (Once(inbox, "welcome") => Once(p, "welcome"))
      BY <2>3, <2>4
    <2> QED BY <2>5 DEF p
  <1>3. UnknownInv' /\ WelcomeInv'
    BY <1>1, <1>2 DEF ClientCore, UnknownInv, WelcomeInv
  <1>4. JoinInv' /\ PositionIsCurrent' /\ LinkAgrees'
    BY <1>1 DEF JoinInv, PositionIsCurrent, LinkAgrees
  <1> QED BY <1>3, <1>4 DEF ClientCore

\* The notices that the server appends, and what they make of the link.
LEMMA Notified ==
  ASSUME ClientTypes, NEW ns \in Seq(Incoming), inbox' = inbox \o ns, me'.started = me.started
  PROVE  /\ Range(inbox') = Range(inbox) \cup Range(ns)
         /\ WillBeStarted' <=> LastIs(ns, LinkNotice, "started") \/ (WillBeStarted /\ Range(ns) \cap LinkNotice = {})
         /\ Once(inbox, "welcome") /\ "welcome" \notin Range(ns) => Once(inbox', "welcome")
  <1>1. /\ Range(inbox') = Range(inbox) \cup Range(ns)
        /\ \A P, v : LastIs(inbox', P, v) <=> LastIs(ns, P, v) \/ (LastIs(inbox, P, v) /\ Range(ns) \cap P = {})
        /\ \A x : Once(inbox', x) <=> Once(inbox, x) /\ Once(ns, x) /\ (x \notin Range(inbox) \/ x \notin Range(ns))
    BY CoreTypes, Appended
  <1>2. "welcome" \notin Range(ns) => Once(ns, "welcome")
    BY NotInOnce
  <1>3. WillBeStarted' <=> LastIs(inbox', LinkNotice, "started") \/ (me'.started /\ Range(inbox') \cap LinkNotice = {})
    BY DEF WillBeStarted
  <1> QED BY <1>1, <1>2, <1>3 DEF WillBeStarted

\* The notices that one step of the server sends.
LEMMA OneNotice ==
  /\ \A n \in Incoming : <<n>> \in Seq(Incoming) /\ Range(<<n>>) = {n} /\ (LastIs(<<n>>, LinkNotice, "started") <=> n = "started")
  /\ <<>> \in Seq(Incoming) /\ Range(<<>>) = {} /\ ~LastIs(<<>>, LinkNotice, "started")
  <1>1. "started" \in LinkNotice
    BY DEF LinkNotice
  <1>2. ASSUME NEW n \in Incoming
        PROVE  <<n>> \in Seq(Incoming) /\ Range(<<n>>) = {n} /\ (LastIs(<<n>>, LinkNotice, "started") <=> n = "started")
    BY <1>1, RangeShort, LastOfOne
  <1> QED BY <1>2, RangeShort, NothingInEmpty

\* What the queue is after its first line was read.
LEMMA Dequeued ==
  ASSUME ClientTypes, Queue # <<>>, Queue' = Tail(Queue)
  PROVE  /\ Head(Queue) \in Line /\ Range(Queue) = {Head(Queue)} \cup Range(Queue')
         /\ \A v : LastIs(Queue, Place, v) <=> LastIs(Queue', Place, v) \/ (Head(Queue) = v /\ v \in Place /\ Range(Queue') \cap Place = {})
         /\ Once(Queue, "join") => Once(Queue', "join") /\ (Head(Queue) = "join" => "join" \notin Range(Queue'))
  <1>1. Queue \in Seq(Line)
    BY CoreTypes
  <1>2. Head(Queue) \in Line /\ Range(Queue) = {Head(Queue)} \cup Range(Tail(Queue))
    BY <1>1, RangeTail
  <1>3. \A v : LastIs(Queue, Place, v) <=> LastIs(Tail(Queue), Place, v) \/ (Head(Queue) = v /\ v \in Place /\ Range(Tail(Queue)) \cap Place = {})
    BY <1>1, LastTail
  <1>4. Once(Queue, "join") => Once(Tail(Queue), "join") /\ (Head(Queue) = "join" => "join" \notin Range(Tail(Queue)))
    BY <1>1, OnceTail
  <1> QED BY <1>2, <1>3, <1>4

\* The server welcomes the client once, before it hears of a link.
LEMMA CoreWelcomes ==
  ASSUME ClientTypes, ClientCore, NEW h, h = Head(Queue), Queue # <<>>, Queue' = Tail(Queue), me' = me, ~over,
         UNCHANGED <<bridge, lost>>, FirstLine(h)
  PROVE  ClientCore'
  <1>1. /\ Range(Queue) = {h} \cup Range(Queue')
        /\ \A v : LastIs(Queue, Place, v) <=> LastIs(Queue', Place, v) \/ (h = v /\ v \in Place /\ Range(Queue') \cap Place = {})
        /\ Once(Queue, "join") => Once(Queue', "join")
    BY Dequeued
  <1>2. /\ srv = "new" /\ UNCHANGED <<seat, at>> /\ ~me.auth /\ "welcome" \notin Range(inbox)
        /\ seat = "none" /\ ~me.joined /\ ~me.started /\ Range(inbox) \subseteq Greeting /\ Once(inbox, "welcome")
    BY DEF FirstLine, ClientCore, WelcomeInv, UnknownInv
  <1>3. CASE h = "hello"
    <2>1. srv' = "in" /\ inbox' = inbox \o <<"welcome">> /\ UNCHANGED over
      BY <1>3 DEF FirstLine, Say
    <2>2. /\ Range(inbox') = Range(inbox) \cup {"welcome"} /\ Range(inbox') \subseteq Greeting
          /\ Once(inbox', "welcome")
      <3>1. "welcome" \in Incoming /\ <<"welcome">> \in Seq(Incoming) /\ Range(<<"welcome">>) = {"welcome"} /\ Once(<<"welcome">>, "welcome")
        BY OneNotice DEF Incoming, Once
      <3> DEFINE w == <<"welcome">>
      <3>2. inbox \in Seq(Incoming) /\ w \in Seq(Incoming) /\ Range(w) = {"welcome"} /\ Once(w, "welcome") /\ inbox' = inbox \o w
        BY <2>1, <3>1, CoreTypes
      <3> HIDE DEF w
      <3>3. Range(inbox') = Range(inbox) \cup Range(w) /\ Once(inbox', "welcome")
        BY <1>2, <3>2, Appended
      <3> QED BY <1>2, <3>2, <3>3 DEF Greeting
    <2>3. UnknownInv' /\ WelcomeInv' /\ JoinInv'
      BY <1>1, <1>2, <2>1, <2>2 DEF UnknownInv, WelcomeInv, JoinInv, ClientCore
    <2>4. "hello" \notin Place
      BY LineAssumption DEF Request
    <2>5. PositionIsCurrent'
      BY <1>1, <1>2, <1>3, <2>1, <2>4 DEF PositionIsCurrent, ClientCore
    <2>6. ~LastIs(inbox', LinkNotice, "started")
      BY <2>2, LastIn DEF Greeting
    <2>7. LinkAgrees'
      BY <1>2, <2>6 DEF LinkAgrees, WillBeStarted, Paired
    <2> QED BY <2>3, <2>5, <2>7 DEF ClientCore
  <1>4. CASE h # "hello"
    <2>1. srv' = "ended" /\ inbox' = inbox \o <<"answer">> /\ over'
      BY <1>4 DEF FirstLine, Say
    <2>2. Range(inbox') = Range(inbox) \cup {"answer"} /\ Range(inbox') \subseteq Greeting /\ Once(inbox', "welcome")
      <3>1. <<"answer">> \in Seq(Incoming) /\ Range(<<"answer">>) = {"answer"}
        BY OneNotice DEF Incoming
      <3> QED BY <1>2, <2>1, <3>1, Notified DEF Greeting
    <2>3. UnknownInv' /\ WelcomeInv'
      BY <1>1, <1>2, <2>1, <2>2 DEF UnknownInv, WelcomeInv, ClientCore
    <2>4. JoinInv' /\ PositionIsCurrent' /\ LinkAgrees'
      BY <2>1 DEF JoinInv, PositionIsCurrent, LinkAgrees
    <2> QED BY <2>3, <2>4 DEF ClientCore
  <1> QED BY <1>3, <1>4

\* What the server does with a later line.
LEMMA LaterKinds ==
  ASSUME ClientTypes, NEW h, LaterLine(h), me' = me
  PROVE  \E ns \in Seq(Incoming) :
           /\ inbox' = inbox \o ns /\ "welcome" \notin Range(ns)
           /\ srv = "in" /\ srv' = "in" /\ over' = over
           /\ \/ h = "join" /\ seat = "none" /\ seat' = "waiting" /\ at' = at
                 /\ Range(ns) = {"waiting"} /\ ~LastIs(ns, LinkNotice, "started")
              \/ h = "join" /\ seat = "none" /\ seat' = "guest" /\ at' = at
                 /\ Range(ns) = {"started"} /\ LastIs(ns, LinkNotice, "started")
              \/ h = "join" /\ seat' = seat /\ at' = at /\ Range(ns) = {"link_error"} /\ ~LastIs(ns, LinkNotice, "started")
              \/ h = "leave" /\ seat' = "none" /\ at' = at /\ Range(ns) = {"left"} /\ ~LastIs(ns, LinkNotice, "started")
              \/ h = "packet" /\ seat' = seat /\ at' = at /\ Paired /\ Range(ns) = {} /\ ~LastIs(ns, LinkNotice, "started")
              \/ h = "packet" /\ seat' = seat /\ at' = at /\ ~Paired /\ Range(ns) = {"link_error"} /\ ~LastIs(ns, LinkNotice, "started")
              \/ h \in Place /\ at' = h /\ seat' = seat /\ Range(ns) = {} /\ ~LastIs(ns, LinkNotice, "started")
              \/ h \in {"locations", "lists", "ask", "warp", "hello"} /\ at' = at /\ seat' = seat
                 /\ Range(ns) \subseteq {"locations", "answer"} /\ ~LastIs(ns, LinkNotice, "started")
  <1>1. srv = "in" /\ srv' = "in" /\ over' = over
    BY DEF LaterLine
  <1>2. {"waiting", "started", "link_error", "left", "locations", "answer"} \subseteq Incoming
    BY DEF Incoming
  <1>3. CASE LinkLine(h) /\ at' = at
    <2>1. CASE h = "join" /\ seat = "none" /\ seat' = "waiting" /\ Say(<<"waiting">>)
      BY <1>1, <1>2, <1>3, <2>1, OneNotice DEF Say
    <2>2. CASE h = "join" /\ seat = "none" /\ seat' = "guest" /\ Say(<<"started">>)
      BY <1>1, <1>2, <1>3, <2>2, OneNotice DEF Say
    <2>3. CASE h = "join" /\ Say(<<"link_error">>) /\ UNCHANGED seat
      BY <1>1, <1>2, <1>3, <2>3, OneNotice DEF Say
    <2>4. CASE h = "leave" /\ Say(<<"left">>) /\ seat' = "none"
      BY <1>1, <1>2, <1>3, <2>4, OneNotice DEF Say
    <2>5. CASE h = "packet" /\ Say(IF seat \in {"host", "guest"} THEN <<>> ELSE <<"link_error">>) /\ UNCHANGED seat
      <3>1. CASE Paired
        BY <1>1, <1>3, <2>5, <3>1, OneNotice DEF Say, Paired
      <3>2. CASE ~Paired
        BY <1>1, <1>2, <1>3, <2>5, <3>2, OneNotice DEF Say, Paired
      <3> QED BY <3>1, <3>2
    <2> QED BY <1>3, <2>1, <2>2, <2>3, <2>4, <2>5 DEF LinkLine
  <1>4. CASE h \in Place /\ at' = h /\ Say(<<>>) /\ UNCHANGED seat
    BY <1>1, <1>4, OneNotice DEF Say
  <1>5. CASE h \in {"locations", "lists", "ask", "warp", "hello"} /\ UNCHANGED <<seat, at>>
             /\ Say(IF h = "locations" THEN <<"locations">> ELSE <<"answer">>)
    <2>1. PICK n \in {"locations", "answer"} : Say(<<n>>)
      BY <1>5
    <2>2. n \in Incoming
      BY <1>2
    <2> QED BY <1>1, <1>5, <2>1, <2>2, OneNotice DEF Say
  <1> QED BY <1>3, <1>4, <1>5 DEF LaterLine

\* The server's room and the client's idea of it, after a later line.
LEMMA CoreReads ==
  ASSUME ClientTypes, ClientCore, Reads
  PROVE  ClientCore'
  <1> DEFINE h == Head(Queue)
  <1>1. /\ Queue # <<>> /\ Queue' = Tail(Queue) /\ me' = me /\ ~over /\ bridge' = bridge /\ lost' = lost
        /\ (FirstLine(h) \/ LaterLine(h))
    BY DEF Reads
  <1>2. /\ h \in Line /\ Range(Queue) = {h} \cup Range(Queue')
        /\ \A v : LastIs(Queue, Place, v) <=> LastIs(Queue', Place, v) \/ (h = v /\ v \in Place /\ Range(Queue') \cap Place = {})
        /\ Once(Queue, "join") => Once(Queue', "join") /\ (h = "join" => "join" \notin Range(Queue'))
    BY <1>1, Dequeued
  <1> HIDE DEF h
  <1>3. CASE FirstLine(h)
    BY <1>1, <1>3, CoreWelcomes DEF h
  <1>4. CASE LaterLine(h)
    <2>1. PICK ns \in Seq(Incoming) :
           /\ inbox' = inbox \o ns /\ "welcome" \notin Range(ns)
           /\ srv = "in" /\ srv' = "in" /\ over' = over
           /\ \/ h = "join" /\ seat = "none" /\ seat' = "waiting" /\ at' = at
                 /\ Range(ns) = {"waiting"} /\ ~LastIs(ns, LinkNotice, "started")
              \/ h = "join" /\ seat = "none" /\ seat' = "guest" /\ at' = at
                 /\ Range(ns) = {"started"} /\ LastIs(ns, LinkNotice, "started")
              \/ h = "join" /\ seat' = seat /\ at' = at /\ Range(ns) = {"link_error"} /\ ~LastIs(ns, LinkNotice, "started")
              \/ h = "leave" /\ seat' = "none" /\ at' = at /\ Range(ns) = {"left"} /\ ~LastIs(ns, LinkNotice, "started")
              \/ h = "packet" /\ seat' = seat /\ at' = at /\ Paired /\ Range(ns) = {} /\ ~LastIs(ns, LinkNotice, "started")
              \/ h = "packet" /\ seat' = seat /\ at' = at /\ ~Paired /\ Range(ns) = {"link_error"} /\ ~LastIs(ns, LinkNotice, "started")
              \/ h \in Place /\ at' = h /\ seat' = seat /\ Range(ns) = {} /\ ~LastIs(ns, LinkNotice, "started")
              \/ h \in {"locations", "lists", "ask", "warp", "hello"} /\ at' = at /\ seat' = seat
                 /\ Range(ns) \subseteq {"locations", "answer"} /\ ~LastIs(ns, LinkNotice, "started")
      BY <1>1, <1>4, LaterKinds
    <2>2. /\ Range(inbox') = Range(inbox) \cup Range(ns)
          /\ WillBeStarted' <=> LastIs(ns, LinkNotice, "started") \/ (WillBeStarted /\ Range(ns) \cap LinkNotice = {})
          /\ Once(inbox, "welcome") => Once(inbox', "welcome")
      BY <1>1, <2>1, Notified
    <2>3. h \in Place => h \notin Request
      BY LineAssumption
    <2>4. UnknownInv'
      <3>1. ASSUME ~me.auth
            PROVE  /\ seat = "none" /\ ~me.joined /\ ~me.started /\ Range(Queue) \cap LinkLines = {}
                   /\ Range(inbox) \subseteq Greeting /\ Once(inbox, "welcome") /\ h \notin LinkLines
        BY <1>2, <3>1 DEF ClientCore, UnknownInv
      <3>2. ASSUME ~me.auth PROVE seat' = "none" /\ Range(ns) \subseteq Greeting
        BY <2>1, <3>1, <3>2 DEF LinkLines, Greeting
      <3> QED BY <1>1, <1>2, <2>2, <3>1, <3>2 DEF UnknownInv
    <2>5. WelcomeInv'
      BY <1>1, <2>1, <2>2 DEF ClientCore, WelcomeInv
    <2>6. JoinInv'
      <3>1. Once(Queue, "join") /\ ("join" \in Range(Queue) => seat = "none")
        BY <1>1 DEF ClientCore, JoinInv
      <3>2. h = "join" \/ seat' \in {seat, "none"}
        BY <2>1
      <3> QED BY <1>2, <3>1, <3>2 DEF JoinInv
    <2>7. PositionIsCurrent'
      <3>1. h \in Place => at' = h
        BY <2>1, <2>3 DEF Request
      <3>2. h \notin Place => at' = at
        BY <2>1
      <3>3. ASSUME me.sent # NoPlace, ~over, ~lost
            PROVE  LastIs(Queue', Place, me.sent) \/ (at' = me.sent /\ Range(Queue') \cap Place = {})
        BY <1>2, <3>1, <3>2, <3>3 DEF ClientCore, PositionIsCurrent
      <3> QED BY <1>1, <2>1, <3>3 DEF PositionIsCurrent
    <2>8. LinkAgrees'
      <3>1. /\ WillBeStarted => Paired
            /\ Paired => WillBeStarted \/ lost \/ "leave" \in Range(Queue)
            /\ me.joined => seat # "none" \/ lost \/ "join" \in Range(Queue) \/ Range(inbox) \cap Refusal # {}
            /\ "join" \in Range(Queue) => seat = "none"
        BY <1>1 DEF ClientCore, LinkAgrees, JoinInv
      <3>2. WillBeStarted' => Paired'
        BY <2>1, <2>2, <3>1 DEF Paired, LinkNotice, Refusal
      <3>3. Paired' => WillBeStarted' \/ lost \/ "leave" \in Range(Queue')
        BY <1>2, <2>1, <2>2, <2>3, <3>1 DEF Paired, LinkNotice, Refusal, Request
      <3>4. me.joined => seat' # "none" \/ lost \/ "join" \in Range(Queue') \/ Range(inbox') \cap Refusal # {}
        BY <1>2, <2>1, <2>2, <2>3, <3>1 DEF Refusal, Request
      <3> QED BY <1>1, <3>2, <3>3, <3>4 DEF LinkAgrees
    <2> QED BY <2>4, <2>5, <2>6, <2>7, <2>8 DEF ClientCore
  <1> QED BY <1>1, <1>3, <1>4

\* A partner is told of before the room changes again.
LEMMA CorePartners ==
  ASSUME ClientTypes, ClientCore, Partners
  PROVE  ClientCore'
  <1>1. \E ns \in Seq(Incoming) :
          /\ inbox' = inbox \o ns /\ "welcome" \notin Range(ns) /\ UNCHANGED <<me, bridge, srv, at, over, lost>>
          /\ Queue' = Queue /\ ~over
          /\ \/ seat = "waiting" /\ seat' = "host" /\ LastIs(ns, LinkNotice, "started")
             \/ seat = "host" /\ seat' = "waiting" /\ Range(ns) \cap LinkNotice # {} /\ ~LastIs(ns, LinkNotice, "started")
             \/ seat = "guest" /\ seat' = "none" /\ Range(ns) = {"ended"} /\ ~LastIs(ns, LinkNotice, "started")
    <2>1. UNCHANGED <<me, bridge, srv, at, over, lost>> /\ ~over /\ Queue' = Queue
      BY DEF Partners, PartnerJoins, PartnerLeaves, link
    <2>2. CASE seat = "waiting" /\ seat' = "host" /\ Say(<<"started">>)
      <3>1. "started" \in Incoming
        BY DEF Incoming
      <3> QED BY <2>1, <2>2, <3>1, OneNotice DEF Say
    <2>3. CASE seat = "host" /\ seat' = "waiting" /\ Say(<<"peer_gone", "waiting">>)
      <3> DEFINE ns == <<"peer_gone", "waiting">>
      <3>1. ns \in Seq(Incoming) /\ Range(ns) = {"peer_gone", "waiting"}
        BY RangeShort DEF Incoming
      <3>2. "peer_gone" \in LinkNotice /\ ~LastIs(ns, LinkNotice, "started")
        BY <3>1, LastIn DEF LinkNotice
      <3>3. inbox' = inbox \o ns
        BY <2>3 DEF Say
      <3> HIDE DEF ns
      <3> QED BY <2>1, <2>3, <3>1, <3>2, <3>3
    <2>4. CASE seat = "guest" /\ seat' = "none" /\ Say(<<"ended">>)
      <3>1. "ended" \in Incoming
        BY DEF Incoming
      <3> QED BY <2>1, <2>4, <3>1, OneNotice DEF Say
    <2> QED BY <2>2, <2>3, <2>4 DEF Partners, PartnerJoins, PartnerLeaves
  <1>2. PICK ns \in Seq(Incoming) :
          /\ inbox' = inbox \o ns /\ "welcome" \notin Range(ns) /\ UNCHANGED <<me, bridge, srv, at, over, lost>>
          /\ Queue' = Queue /\ ~over
          /\ \/ seat = "waiting" /\ seat' = "host" /\ LastIs(ns, LinkNotice, "started")
             \/ seat = "host" /\ seat' = "waiting" /\ Range(ns) \cap LinkNotice # {} /\ ~LastIs(ns, LinkNotice, "started")
             \/ seat = "guest" /\ seat' = "none" /\ Range(ns) = {"ended"} /\ ~LastIs(ns, LinkNotice, "started")
    BY <1>1
  <1>3. /\ Range(inbox') = Range(inbox) \cup Range(ns)
        /\ WillBeStarted' <=> LastIs(ns, LinkNotice, "started") \/ (WillBeStarted /\ Range(ns) \cap LinkNotice = {})
    BY <1>2, Notified
  <1>4. me.auth /\ seat # "none" /\ "join" \notin Range(Queue)
    BY <1>2 DEF ClientCore, UnknownInv, JoinInv
  <1>5. UnknownInv' /\ WelcomeInv' /\ JoinInv' /\ PositionIsCurrent'
    BY <1>2, <1>3, <1>4 DEF ClientCore, UnknownInv, WelcomeInv, JoinInv, PositionIsCurrent
  <1>6. LinkAgrees'
    <2>1. WillBeStarted' <=> LastIs(ns, LinkNotice, "started")
      <3>1. Range(ns) = {"ended"} => Range(ns) \cap LinkNotice # {}
        BY DEF LinkNotice, Refusal
      <3> QED BY <1>2, <1>3, <3>1
    <2>2. seat' = "none" => Range(inbox') \cap Refusal # {}
      BY <1>2, <1>3 DEF Refusal
    <2> QED BY <1>2, <2>1, <2>2 DEF LinkAgrees, Paired
  <1> QED BY <1>5, <1>6 DEF ClientCore

\* What the notices promise, by the next one and those behind it.
LEMMA Noticed ==
  ASSUME ClientTypes, inbox # <<>>, inbox' = Tail(inbox)
  PROVE  /\ Range(inbox) = {Head(inbox)} \cup Range(inbox')
         /\ Once(inbox, "welcome") => Once(inbox', "welcome") /\ (Head(inbox) = "welcome" => "welcome" \notin Range(inbox'))
         /\ WillBeStarted <=> \/ LastIs(inbox', LinkNotice, "started")
                              \/ /\ Range(inbox') \cap LinkNotice = {}
                                 /\ Head(inbox) = "started" \/ (Head(inbox) \notin LinkNotice /\ me.started)
         /\ WillBeStarted' <=> LastIs(inbox', LinkNotice, "started") \/ (me'.started /\ Range(inbox') \cap LinkNotice = {})
  <1>1. inbox \in Seq(Incoming)
    BY CoreTypes
  <1>2. Range(inbox) = {Head(inbox)} \cup Range(Tail(inbox))
    BY <1>1, RangeTail
  <1>3. LastIs(inbox, LinkNotice, "started")
          <=> LastIs(Tail(inbox), LinkNotice, "started")
              \/ (Head(inbox) = "started" /\ "started" \in LinkNotice /\ Range(Tail(inbox)) \cap LinkNotice = {})
    BY <1>1, LastTail
  <1>4. Once(inbox, "welcome") => Once(Tail(inbox), "welcome") /\ (Head(inbox) = "welcome" => "welcome" \notin Range(Tail(inbox)))
    BY <1>1, OnceTail
  <1>5. "started" \in LinkNotice
    BY DEF LinkNotice
  <1>6. WillBeStarted <=> LastIs(inbox, LinkNotice, "started") \/ (me.started /\ Range(inbox) \cap LinkNotice = {})
    BY DEF WillBeStarted
  <1>7. WillBeStarted' <=> LastIs(inbox', LinkNotice, "started") \/ (me'.started /\ Range(inbox') \cap LinkNotice = {})
    BY DEF WillBeStarted
  <1> QED BY <1>2, <1>3, <1>4, <1>5, <1>6, <1>7

\* The lines of syncStatsAfterAuthentication.
LEMMA SyncParts ==
  /\ SyncLines \in Seq(Line) /\ Range(SyncLines) \subseteq {"locations", "lists", "join"}
  /\ Once(SyncLines, "join") /\ ("join" \in Range(SyncLines) <=> LinkConfigured)
  <1> DEFINE s == <<"locations", "lists">>
             t == IF LinkConfigured THEN <<"join">> ELSE <<>>
  <1>1. s \in Seq(Line) /\ Range(s) = {"locations", "lists"} /\ "join" \notin Range(s)
    BY RangeShort DEF Line, Request
  <1>2. /\ t \in Seq(Line) /\ Range(t) = IF LinkConfigured THEN {"join"} ELSE {}
        /\ Once(t, "join")
    <2>1. CASE LinkConfigured
      <3>1. <<"join">> \in Seq(Line) /\ Once(<<"join">>, "join")
        BY DEF Line, Request, Once
      <3> QED BY <2>1, <3>1, RangeShort
    <2>2. CASE ~LinkConfigured
      BY <2>2, RangeShort, NothingInEmpty
    <2> QED BY <2>1, <2>2
  <1>3. SyncLines = s \o t
    BY DEF SyncLines
  <1> HIDE DEF s, t
  <1>4. Once(s, "join")
    BY <1>1, NotInOnce
  <1>5. s \o t \in Seq(Line)
    BY <1>1, <1>2, ConcatProperties
  <1>6. Range(s \o t) = Range(s) \cup Range(t) /\ Once(s \o t, "join")
    BY <1>1, <1>2, <1>4, Appended
  <1> QED BY <1>1, <1>2, <1>3, <1>5, <1>6

\* What is asked behind the queue leaves its last position alone.
LEMMA Asked ==
  ASSUME ClientTypes, NEW ls \in Seq(Line), Queue' = Queue \o ls, Range(ls) \subseteq Request
  PROVE  /\ Range(Queue') = Range(Queue) \cup Range(ls)
         /\ \A v : LastIs(Queue, Place, v) => LastIs(Queue', Place, v)
         /\ Range(Queue) \cap Place = {} => Range(Queue') \cap Place = {}
         /\ Once(Queue, "join") /\ Once(ls, "join") /\ ("join" \notin Range(Queue) \/ "join" \notin Range(ls)) => Once(Queue', "join")
  <1>1. /\ Range(Queue \o ls) = Range(Queue) \cup Range(ls)
        /\ \A P, v : LastIs(Queue \o ls, P, v) <=> LastIs(ls, P, v) \/ (LastIs(Queue, P, v) /\ Range(ls) \cap P = {})
        /\ \A x : Once(Queue \o ls, x) <=> Once(Queue, x) /\ Once(ls, x) /\ (x \notin Range(Queue) \/ x \notin Range(ls))
    BY CoreTypes, Appended
  <1>2. Range(ls) \cap Place = {}
    BY LineAssumption
  <1> QED BY <1>1, <1>2

\* The notice that the client reads.
LEMMA CoreHears ==
  ASSUME ClientTypes, ClientTypes', ClientCore, Hears
  PROVE  ClientCore'
  <1> DEFINE h == Head(inbox)
  <1>1. inbox # <<>> /\ inbox' = Tail(inbox) /\ UNCHANGED <<seat, at, srv, over, bridge, lost>> /\ me'.sent = me.sent
    BY DEF Hears
  <1>2. /\ Range(inbox) = {h} \cup Range(inbox')
        /\ Once(inbox, "welcome") => Once(inbox', "welcome") /\ (h = "welcome" => "welcome" \notin Range(inbox'))
        /\ WillBeStarted <=> \/ LastIs(inbox', LinkNotice, "started")
                             \/ /\ Range(inbox') \cap LinkNotice = {}
                                /\ h = "started" \/ (h \notin LinkNotice /\ me.started)
        /\ WillBeStarted' <=> LastIs(inbox', LinkNotice, "started") \/ (me'.started /\ Range(inbox') \cap LinkNotice = {})
    BY <1>1, Noticed
  <1>3. /\ h = "welcome" => ~me.auth /\ srv \notin {"none", "new"}
        /\ h \in LinkNotice => me.auth
    BY <1>2 DEF ClientCore, WelcomeInv, UnknownInv, Greeting, LinkNotice, Refusal
  <1>4. /\ ~over => /\ WillBeStarted => Paired
                    /\ Paired => WillBeStarted \/ lost \/ "leave" \in Range(Queue)
                    /\ me.joined => seat # "none" \/ lost \/ "join" \in Range(Queue) \/ Range(inbox) \cap Refusal # {}
                    /\ Once(Queue, "join") /\ ("join" \in Range(Queue) => seat = "none")
    BY DEF ClientCore, LinkAgrees, JoinInv
  <1>5. Paired' <=> Paired
    BY <1>1 DEF Paired
  <1>6. ASSUME NEW ls \in Seq(Line), Queue' = Queue \o ls, Range(ls) \subseteq Request
        PROVE  /\ Range(Queue') = Range(Queue) \cup Range(ls)
               /\ Once(Queue, "join") /\ Once(ls, "join") /\ ("join" \notin Range(Queue) \/ "join" \notin Range(ls)) => Once(Queue', "join")
               /\ PositionIsCurrent'
    <2>1. /\ Range(Queue') = Range(Queue) \cup Range(ls)
          /\ \A v : LastIs(Queue, Place, v) => LastIs(Queue', Place, v)
          /\ Range(Queue) \cap Place = {} => Range(Queue') \cap Place = {}
          /\ Once(Queue, "join") /\ Once(ls, "join") /\ ("join" \notin Range(Queue) \/ "join" \notin Range(ls)) => Once(Queue', "join")
      BY <1>6, Asked
    <2>2. PositionIsCurrent'
      BY <1>1, <2>1 DEF ClientCore, PositionIsCurrent
    <2> QED BY <2>1, <2>2
  <1>7. /\ Range(<<>>) = {} /\ Once(<<>>, "join") /\ <<>> \in Seq(Line)
    BY RangeShort, NothingInEmpty
  <1>8. CASE h = "welcome" /\ HearsAs(TRUE, LinkConfigured, me.started, SyncLines)
    <2>1. me'.auth /\ (me'.joined <=> LinkConfigured) /\ me'.started = me.started /\ Queue' = Queue \o SyncLines
      BY <1>8 DEF HearsAs
    <2>2. /\ ~me.auth /\ srv \notin {"none", "new"} /\ seat = "none" /\ ~me.started
          /\ Range(Queue) \cap LinkLines = {} /\ Range(inbox) \subseteq Greeting /\ Once(inbox, "welcome")
      BY <1>3, <1>8 DEF ClientCore, UnknownInv
    <2>3. /\ Range(Queue') = Range(Queue) \cup Range(SyncLines) /\ Once(Queue, "join") /\ Once(Queue', "join")
          /\ PositionIsCurrent'
      <3>1. Range(SyncLines) \subseteq Request
        BY SyncParts DEF Request
      <3>2. "join" \notin Range(Queue) /\ Once(Queue, "join")
        BY <2>2, NotInOnce DEF LinkLines
      <3> QED BY <1>6, <2>1, <3>1, <3>2, SyncParts
    <2>4. UnknownInv' /\ WelcomeInv' /\ JoinInv'
      BY <1>1, <1>2, <1>8, <2>1, <2>2, <2>3 DEF ClientCore, UnknownInv, WelcomeInv, JoinInv
    <2>5. ~WillBeStarted' /\ ~Paired'
      BY <1>1, <1>2, <2>1, <2>2, LastIn DEF Greeting, Paired
    <2>6. me'.joined => "join" \in Range(Queue')
      BY <2>1, <2>3, SyncParts
    <2> QED BY <2>3, <2>4, <2>5, <2>6 DEF ClientCore, LinkAgrees
  <1>9. CASE h = "started" /\ HearsAs(me.auth, FALSE, me.started, <<"leave">>)
    <2>1. me'.auth = me.auth /\ ~me'.joined /\ me'.started = me.started /\ Queue' = Queue \o <<"leave">> /\ me.auth
      BY <1>3, <1>9 DEF HearsAs, LinkNotice
    <2>2. <<"leave">> \in Seq(Line) /\ Range(<<"leave">>) = {"leave"} /\ Once(<<"leave">>, "join")
      BY RangeShort, NotInOnce DEF Line, Request
    <2>3. /\ Range(Queue') = Range(Queue) \cup {"leave"} /\ (Once(Queue, "join") => Once(Queue', "join"))
          /\ PositionIsCurrent'
      BY <1>6, <2>1, <2>2 DEF Request
    <2>4. UnknownInv' /\ WelcomeInv' /\ JoinInv'
      BY <1>1, <1>2, <1>4, <2>1, <2>3 DEF ClientCore, UnknownInv, WelcomeInv, JoinInv
    <2>5. WillBeStarted' => WillBeStarted
      BY <1>2, <1>9, <2>1
    <2> QED BY <1>1, <1>4, <1>5, <2>1, <2>3, <2>4, <2>5 DEF ClientCore, LinkAgrees
  <1>10. ASSUME NEW j \in BOOLEAN, NEW s \in BOOLEAN, HearsAs(me.auth, j, s, <<>>), h # "welcome",
                j => me.joined /\ h \notin Refusal, s => me.started \/ h = "started",
                s <=> (h = "started" \/ (h \notin LinkNotice /\ me.started)),
                h \notin LinkNotice => j = me.joined
         PROVE  ClientCore'
    <2>1. me'.auth = me.auth /\ me'.joined = j /\ me'.started = s /\ Queue' = Queue \o <<>>
      BY <1>10 DEF HearsAs
    <2>2. /\ Range(Queue') = Range(Queue) /\ (Once(Queue, "join") => Once(Queue', "join"))
          /\ PositionIsCurrent'
      BY <1>6, <1>7, <2>1
    <2>3. WillBeStarted' <=> WillBeStarted
      BY <1>2, <1>10, <2>1
    <2>4. UnknownInv'
      BY <1>1, <1>2, <1>3, <1>10, <2>1, <2>2 DEF ClientCore, UnknownInv, LinkNotice
    <2>5. WelcomeInv' /\ JoinInv'
      BY <1>1, <1>2, <1>4, <2>1, <2>2 DEF ClientCore, WelcomeInv, JoinInv
    <2>6. LinkAgrees'
      BY <1>1, <1>2, <1>4, <1>5, <1>10, <2>1, <2>2, <2>3 DEF LinkAgrees
    <2> QED BY <2>2, <2>4, <2>5, <2>6 DEF ClientCore
  <1>11. me.auth \in BOOLEAN /\ me.joined \in BOOLEAN /\ me.started \in BOOLEAN
    BY CoreTypes
  <1>12. "started" \in LinkNotice \ Refusal /\ {"waiting", "peer_gone"} \subseteq LinkNotice \ (Refusal \cup {"started"}) /\ Refusal \subseteq LinkNotice \ {"started"}
         /\ "welcome" \notin LinkNotice
    BY DEF LinkNotice, Refusal
  <1>13. CASE h = "started" /\ HearsAs(me.auth, me.joined, TRUE, <<>>)
    BY <1>10, <1>11, <1>12, <1>13
  <1>14. CASE h \in {"waiting", "peer_gone"} /\ HearsAs(me.auth, me.joined, FALSE, <<>>)
    BY <1>10, <1>11, <1>12, <1>14
  <1>15. CASE h \in Refusal /\ HearsAs(me.auth, FALSE, FALSE, <<>>)
    BY <1>10, <1>11, <1>12, <1>15
  <1>16. CASE h \notin LinkNotice \cup {"welcome"} /\ HearsAs(me.auth, me.joined, me.started, <<>>)
    BY <1>10, <1>11, <1>12, <1>16
  <1> QED BY <1>8, <1>9, <1>13, <1>14, <1>15, <1>16 DEF Hears
-----------------------------------------------------------------------------
(* The invariant.                                                          *)

\* ClientInv holds in every reachable state.
THEOREM ClientInvariant == ClientSpec => []ClientInv
  <1>1. ClientInv <=> ClientTypes /\ TurnInv /\ ClientCore
    BY DEF ClientInv, ClientTypes, ClientCore, ClientTypeOK, OwnTypes, LineTypes, EndTypes, MeTypes
  <1>2. ClientInit => ClientInv
    <2> SUFFICES ASSUME ClientInit PROVE ClientTypes /\ TurnInv /\ ClientCore
      BY <1>1
    <2>1. Idle \in Client /\ Idle.out = <<>> /\ Len(Idle.out) = 0 /\ Reset(Idle) /\ Idle.mode = "offline"
      <3>1. Idle \in Client
        BY DEF Client, Idle
      <3> QED BY <3>1, DisconnectKinds DEF Reset
    <2>2. me = Idle /\ Silent /\ held = 0 /\ pc = "frame"
      BY DEF ClientInit, Silent
    <2>3. MeTypes /\ TurnInv
      BY <2>1, <2>2, BufferAssumption DEF MeTypes, HeldInv, OfflineInv, TurnInv, Silent, Reset
    <2>4. OwnTypes
      <3>1. enabled \in BOOLEAN
        BY DEF ClientInit
      <3>2. known \in BOOLEAN
        BY DEF ClientInit
      <3>3. presence \in Place \cup {NoPlace} /\ pc \in {"frame", "connect", "send", "receive", "crashed"} /\ faults \in 0..Faults
        BY BufferAssumption DEF ClientInit
      <3> QED BY <3>1, <3>2, <3>3 DEF OwnTypes
    <2>5. LineTypes
      <3>1. spoiled \in BOOLEAN
        BY DEF ClientInit
      <3>2. lost \in BOOLEAN
        BY DEF ClientInit
      <3>3. held \in 0..OutMax /\ linger \in Nat
        BY BufferAssumption DEF ClientInit
      <3>4. socket \in Seq(Line) /\ upstream \in Seq(Line) /\ inbox \in Seq(Incoming)
        BY DEF ClientInit
      <3> QED BY <3>1, <3>2, <3>3, <3>4 DEF LineTypes
    <2>6. EndTypes
      BY DEF ClientInit, EndTypes
    <2>7. Queue = <<>> /\ inbox = <<>>
      <3>1. Queue = <<>> \o <<>> \o <<>>
        BY <2>1, <2>2 DEF Silent, Queue
      <3> QED BY <2>2, <3>1, ConcatEmptySeq DEF Silent
    <2>8. Range(Queue) = {} /\ Range(inbox) = {} /\ Once(Queue, "join") /\ Once(inbox, "welcome") /\ ~LastIs(inbox, LinkNotice, "started")
      BY <2>7, RangeShort, NothingInEmpty
    <2>9. ClientCore
      BY <2>1, <2>2, <2>8 DEF ClientCore, UnknownInv, WelcomeInv, JoinInv, PositionIsCurrent, LinkAgrees,
                              WillBeStarted, Paired, Silent, Reset
    <2> QED BY <2>3, <2>4, <2>5, <2>6, <2>9 DEF ClientTypes
  <1>3. ClientInv /\ [ClientNext]_clientVars => ClientInv'
    <2> SUFFICES ASSUME ClientTypes, TurnInv, ClientCore, [ClientNext]_clientVars
                 PROVE  ClientTypes' /\ TurnInv' /\ ClientCore'
      <3>1. ClientTypes' /\ TurnInv' /\ ClientCore' => ClientInv'
        BY DEF ClientInv, ClientTypes, ClientCore, ClientTypeOK, OwnTypes, LineTypes, EndTypes, MeTypes
      <3> QED BY <1>1, <3>1
    <2>1. ClientTypes' /\ ClientKinds
      BY ClientStep
    <2>2. TurnInv'
      BY TurnStep
    <2>3. ClientCore'
      BY <2>1, CoreDrops, CoreStays, CoreOpens, CoreSends, CoreLoses, CoreBreaks, CoreReads, CorePartners, CoreHears
         DEF ClientKinds
    <2> QED BY <2>1, <2>2, <2>3
  <1> QED BY <1>2, <1>3, PTL DEF ClientSpec

\* The client, the bridge and the server hold what their fields can hold.
THEOREM ClientTyping == ClientSpec => []ClientTypeOK
  <1>1. ClientInv => ClientTypeOK
    BY DEF ClientInv
  <1> QED BY <1>1, ClientInvariant, PTL

\* The server has, or is about to read, the position the client counts as sent.
THEOREM PositionAlwaysCurrent == ClientSpec => []PositionIsCurrent
  <1>1. ClientInv => PositionIsCurrent
    BY DEF ClientInv
  <1> QED BY <1>1, ClientInvariant, PTL

\* The client's link flags follow the server's room.
THEOREM LinkAlwaysAgrees == ClientSpec => []LinkAgrees
  <1>1. ClientInv => LinkAgrees
    BY DEF ClientInv
  <1> QED BY <1>1, ClientInvariant, PTL
=============================================================================
