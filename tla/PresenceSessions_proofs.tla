----------------------- MODULE PresenceSessions_proofs -----------------------
(***************************************************************************)
(* Proofs about PresenceSessions, for every set of connections, addresses, *)
(* v1 sessions, identities and credentials.                                *)
(***************************************************************************)
EXTENDS PresenceSessions, TLAPS

\* Ending or writing to a socket leaves every socket in a state, and opens none.
LEMMA AfterTypes ==
  ASSUME TypeOK, NEW c \in Conn
  PROVE  /\ [sock EXCEPT ![c] = AfterEnd(@)]
              \in [Conn -> {"new", "rejected", "open", "ended", "destroyed", "closed"}]
         /\ AfterEnd(sock[c]) # "open"
         /\ [sock EXCEPT ![c] = AfterWrite(@)]
              \in [Conn -> {"new", "rejected", "open", "ended", "destroyed", "closed"}]
         /\ AfterWrite(sock[c]) = "open" => sock[c] = "open"
  BY DEF TypeOK, AfterEnd, AfterWrite

\* A login ends every rival: of the others, who is still open has another key
\* and was open before.
LEMMA RivalsEnd ==
  ASSUME TypeOK, NEW c \in Conn, NEW k \in Key \cup {NoKey}
  PROVE  /\ Replaced(c, k) \in [Conn -> {"new", "rejected", "open", "ended", "destroyed", "closed"}]
         /\ \A d \in Conn : Replaced(c, k)[d] = "open" => sock[d] = "open"
         /\ \A d \in Conn \ {c} : Replaced(c, k)[d] = "open" => k = NoKey \/ key[d] # k
  BY DEF TypeOK, Replaced, Rivals, AfterEnd, AfterWrite, clients

\* A handler runs, and a timer is armed, only for a connection that was
\* accepted.
Accepted ==
  \A c \in Conn : sock[c] \in {"new", "rejected"} =>
    at[c] = "idle" /\ pending[c] = NoMessage /\ ~named[c]

\* What the handler in flight may be doing, and for whom.
HandlerOK ==
  \A c \in Conn :
    /\ at[c] # "idle" => doing[c] \in Requests
    /\ at[c] \in {"asking", "answered"} /\ ~LoggingIn(c) => key[c] \in Cred
    /\ at[c] = "asking" => \/ doing[c].type = "hello" /\ doing[c].cred \in Cred
                           \/ doing[c].type = "recover" /\ doing[c].identity \in Identity
                           \/ doing[c].type \in {"enroll", "revoke", "delete"}

\* A login is named before it waits on the title and guild stores.
Deadlines == DeadlineStands /\ \A c \in Conn : at[c] = "enriching" => named[c]

Inv == TypeOK /\ Accepted /\ HandlerOK /\ OneLivePerKey /\ Deadlines

\* A server without connections.
LEMMA InitInv == Init => Inv
  BY DataAssumption DEF Init, Inv, TypeOK, Accepted, HandlerOK, OneLivePerKey, Authenticated,
                       Deadlines, DeadlineStands

\* The messages of each kind carry what their handlers read.
LEMMA MessageShape ==
  ASSUME NEW m \in Requests
  PROVE  /\ m.type = "hello" => m.cred \in Cred
         /\ m.type = "recover" => m.identity \in Identity
         /\ m.type = "legacy" => m.session \in Session \cup {NoKey}
         /\ m # NoMessage
  BY DataAssumption DEF Message, Login, Legacy, Other

-----------------------------------------------------------------------------
(* Types: one step per action.                                             *)

\* Every step of the server keeps the state well typed.
LEMMA TypeStep ==
  ASSUME Inv, Next
  PROVE  TypeOK'
  <1> USE DEF Inv, TypeOK, connVars, handler, clientVars, database
  <1>1. ASSUME NEW c \in Conn, Reject(c) \/ Accept(c) \/ HelloTimeout(c) \/ PeerLeaves(c)
                               \/ FallsSilent(c) \/ IdleDestroy(c) \/ Close(c)
        PROVE  TypeOK'
    <2>1. CASE HelloTimeout(c)
      BY <2>1, AfterTypes DEF HelloTimeout
    <2> QED BY <1>1, <2>1 DEF Reject, Accept, PeerLeaves, FallsSilent, IdleDestroy, Close
  <1>2. ASSUME NEW c \in Conn, NEW m \in Requests, Receive(c, m) \/ ReceiveGarbage(c, m)
        PROVE  TypeOK'
    BY <1>2, AfterTypes DEF Receive, ReceiveGarbage
  <1>3. ASSUME NEW c \in Conn, Ask(c)
        PROVE  TypeOK'
    BY <1>3 DEF Ask, Dequeue
  <1>4. ASSUME NEW c \in Conn, LegacyHello(c)
        PROVE  TypeOK'
    <2>1. pending[c].session \in Key \cup {NoKey} /\ pending[c].session \in Session \cup {NoKey}
      BY <1>4, MessageShape DEF LegacyHello, Key
    <2> QED BY <1>4, <2>1, RivalsEnd DEF LegacyHello, Dequeue, Key
  <1>5. ASSUME NEW c \in Conn, Refuse(c) \/ RepeatedHello(c) \/ RefuseDelete(c)
        PROVE  TypeOK'
    BY <1>5, AfterTypes DEF Refuse, RepeatedHello, RefuseDelete, Dequeue, Fail, AfterWrite
  <1>6. ASSUME NEW c \in Conn, Commit(c)
        PROVE  TypeOK'
    <2>3. \A i \in Identity : RevokedAll(i) \in [Cred -> {"unissued", "active", "revoked"}]
      BY DEF RevokedAll
    <2>4. doing[c] \in Requests
      BY <1>6 DEF Commit, HandlerOK
    <2>5. CASE doing[c].type = "hello" /\ StoreAuthenticate(c, doing[c].cred)
      BY <1>6, <2>4, <2>5, MessageShape DEF Commit, StoreAuthenticate, Answer
    <2>6. CASE StoreEnroll(c)
      <3>1. PICK k \in Cred : /\ Answer(c, k)
                              /\ cred' = [cred EXCEPT ![k] = "active"]
                              /\ code' = [code EXCEPT ![Owner[k]] = "unused"]
        BY <2>6 DEF StoreEnroll
      <3>2. result' \in [Conn -> Cred \cup {NoKey}] /\ at' \in [Conn -> {"idle", "asking", "answered", "enriching"}]
        BY <3>1 DEF Answer
      <3> QED BY <1>6, <3>1, <3>2 DEF Commit
    <2>7. CASE RecoveryFails(c, doing[c].identity)
      BY <1>6, <2>7 DEF Commit, RecoveryFails, Answer
    <2>8. CASE doing[c].type = "recover" /\ StoreRecover(c, doing[c].identity)
      <3> DEFINE i == doing[c].identity
      <3>1. i \in Identity
        BY <2>4, <2>8, MessageShape
      <3>2. PICK k \in Unissued(i) : /\ Answer(c, k)
                                     /\ cred' = [RevokedAll(i) EXCEPT ![k] = "active"]
        BY <2>8 DEF StoreRecover
      <3>3. k \in Cred
        BY DEF Unissued
      <3>4. result' \in [Conn -> Cred \cup {NoKey}] /\ at' \in [Conn -> {"idle", "asking", "answered", "enriching"}]
        BY <3>2, <3>3 DEF Answer
      <3>5. cred' \in [Cred -> {"unissued", "active", "revoked"}]
        BY <3>1, <3>2, <2>3
      <3>6. code' \in [Identity -> {"none", "unused", "used", "deleted"}]
        BY <3>1, <2>8 DEF StoreRecover
      <3> QED BY <1>6, <3>4, <3>5, <3>6 DEF Commit
    <2>9. CASE StoreRevoke(c, key[c])
      BY <1>6, <2>9 DEF Commit, StoreRevoke, Answer
    <2>10. CASE StoreDelete(c, Owner[key[c]])
      <3>1. cred' \in [Cred -> {"unissued", "active", "revoked"}]
        BY <2>10 DEF StoreDelete, RevokedAll
      <3>2. code' \in [Identity -> {"none", "unused", "used", "deleted"}]
        BY <2>10 DEF StoreDelete
      <3>3. result' \in [Conn -> Cred \cup {NoKey}] /\ at' \in [Conn -> {"idle", "asking", "answered", "enriching"}]
        BY <2>10 DEF StoreDelete, Answer
      <3> QED BY <1>6, <3>1, <3>2, <3>3 DEF Commit
    <2> QED BY <1>6, <2>5, <2>6, <2>7, <2>8, <2>9, <2>10 DEF Commit
  <1>7. ASSUME NEW c \in Conn, StoreThrows(c) \/ AuthenticationFails(c) \/ FinishRevoke(c)
        PROVE  TypeOK'
    <2>1. Done(c) /\ Fail(c)
      BY <1>7 DEF StoreThrows, AuthenticationFails, FinishRevoke
    <2>2. UNCHANGED <<pending, clientVars, database>>
      BY <1>7 DEF StoreThrows, AuthenticationFails, FinishRevoke
    <2>4. /\ at' \in [Conn -> {"idle", "asking", "answered", "enriching"}]
          /\ doing' \in [Conn -> Requests \cup {NoMessage}]
          /\ result' \in [Conn -> Cred \cup {NoKey}]
      BY <2>1 DEF Done
    <2>5. /\ sock' \in [Conn -> {"new", "rejected", "open", "ended", "destroyed", "closed"}]
          /\ UNCHANGED <<addr, peer, timer>>
      BY <2>1, AfterTypes DEF Fail
    <2> QED BY <2>2, <2>4, <2>5
  <1>8. ASSUME NEW c \in Conn, BeginFinish(c)
        PROVE  TypeOK'
    <2>1. result[c] \in Cred
      BY <1>8 DEF BeginFinish
    <2>2. key' \in [Conn -> Key \cup {NoKey}]
      BY <1>8, <2>1 DEF BeginFinish, CredentialOf, Key
    <2> QED BY <1>8, <2>2 DEF BeginFinish
  <1>9. ASSUME NEW c \in Conn, Finish(c)
        PROVE  TypeOK'
    <2>1. sock' \in [Conn -> {"new", "rejected", "open", "ended", "destroyed", "closed"}]
      BY <1>9, RivalsEnd DEF Finish
    <2> QED BY <1>9, <2>1 DEF Finish, Done
  <1> QED BY <1>1, <1>2, <1>3, <1>4, <1>5, <1>6, <1>7, <1>8, <1>9 DEF Next

-----------------------------------------------------------------------------
(* What handlers rely on.                                                  *)

\* No line is delivered and no handler runs before the connection is accepted.
LEMMA AcceptedStep ==
  ASSUME Inv, Next
  PROVE  Accepted'
  <1> USE DEF Inv, TypeOK, Accepted, connVars, handler, clientVars
  <1>1. ASSUME NEW c \in Conn, Reject(c) \/ Accept(c) \/ HelloTimeout(c) \/ PeerLeaves(c)
                               \/ FallsSilent(c) \/ IdleDestroy(c) \/ Close(c)
        PROVE  Accepted'
    BY <1>1 DEF Reject, Accept, HelloTimeout, PeerLeaves, FallsSilent, IdleDestroy, Close, AfterEnd
  <1>2. ASSUME NEW c \in Conn, NEW m \in Requests, Receive(c, m) \/ ReceiveGarbage(c, m)
        PROVE  Accepted'
    BY <1>2 DEF Receive, ReceiveGarbage, AfterEnd
  <1>3. ASSUME NEW c \in Conn, Ask(c) \/ Refuse(c) \/ RepeatedHello(c) \/ RefuseDelete(c)
        PROVE  Accepted'
    BY <1>3 DEF Ask, Refuse, RepeatedHello, RefuseDelete, Dequeue, Fail, AfterEnd, AfterWrite
  <1>4. ASSUME NEW c \in Conn, LegacyHello(c) \/ Finish(c)
        PROVE  Accepted'
    BY <1>4 DEF LegacyHello, Finish, Dequeue, Done, Replaced, Rivals, AfterEnd, AfterWrite
  <1>5. ASSUME NEW c \in Conn, Commit(c)
        PROVE  Accepted'
    <2>1. at' = [at EXCEPT ![c] = "answered"] /\ UNCHANGED <<sock, pending, named>> /\ at[c] = "asking"
      BY <1>5 DEF Commit, StoreAuthenticate, StoreEnroll, RecoveryFails, StoreRecover,
                  StoreRevoke, StoreDelete, Answer
    <2> QED BY <2>1
  <1>6. ASSUME NEW c \in Conn, StoreThrows(c) \/ AuthenticationFails(c) \/ FinishRevoke(c)
        PROVE  Accepted'
    BY <1>6 DEF StoreThrows, AuthenticationFails, FinishRevoke, Done, Fail, AfterEnd
  <1>7. ASSUME NEW c \in Conn, BeginFinish(c)
        PROVE  Accepted'
    BY <1>7 DEF BeginFinish
  <1> QED BY <1>1, <1>2, <1>3, <1>4, <1>5, <1>6, <1>7 DEF Next

\* A handler in flight handles a line that was delivered, and only a
\* connection with a credential revokes or deletes.
LEMMA HandlerStep ==
  ASSUME Inv, Next
  PROVE  HandlerOK'
  <1> USE DEF Inv, TypeOK, HandlerOK, LoggingIn, connVars, handler, clientVars
  <1>1. ASSUME NEW c \in Conn, UNCHANGED <<at, doing, key>>
        PROVE  HandlerOK'
    BY <1>1
  <1>2. ASSUME NEW c \in Conn, \/ Reject(c) \/ Accept(c) \/ HelloTimeout(c) \/ PeerLeaves(c)
                               \/ FallsSilent(c) \/ IdleDestroy(c) \/ Close(c)
                               \/ Refuse(c) \/ RepeatedHello(c) \/ RefuseDelete(c)
        PROVE  HandlerOK'
    BY <1>1, <1>2 DEF Reject, Accept, HelloTimeout, PeerLeaves, FallsSilent, IdleDestroy, Close,
                      Refuse, RepeatedHello, RefuseDelete
  <1>3. ASSUME NEW c \in Conn, NEW m \in Requests, Receive(c, m) \/ ReceiveGarbage(c, m)
        PROVE  HandlerOK'
    BY <1>1, <1>3 DEF Receive, ReceiveGarbage
  <1>4. ASSUME NEW c \in Conn, Ask(c)
        PROVE  HandlerOK'
    <2>1. pending[c] \in Requests
      BY <1>4 DEF Ask
    <2>2. /\ pending[c].type = "hello" => pending[c].cred \in Cred
          /\ pending[c].type = "recover" => pending[c].identity \in Identity
      BY <2>1, MessageShape
    <2> QED BY <1>4, <2>1, <2>2 DEF Ask
  <1>5. ASSUME NEW c \in Conn, LegacyHello(c)
        PROVE  HandlerOK'
    BY <1>5 DEF LegacyHello
  <1>6. ASSUME NEW c \in Conn, Commit(c)
        PROVE  HandlerOK'
    <2>1. at' = [at EXCEPT ![c] = "answered"] /\ UNCHANGED <<doing, key>> /\ at[c] = "asking"
      BY <1>6 DEF Commit, StoreAuthenticate, StoreEnroll, RecoveryFails, StoreRecover,
                  StoreRevoke, StoreDelete, Answer
    <2> QED BY <2>1
  <1>7. ASSUME NEW c \in Conn, StoreThrows(c) \/ AuthenticationFails(c) \/ FinishRevoke(c) \/ Finish(c)
        PROVE  HandlerOK'
    <2>1. at' = [at EXCEPT ![c] = "idle"] /\ doing' = [doing EXCEPT ![c] = NoMessage] /\ key' = key
      BY <1>7 DEF StoreThrows, AuthenticationFails, FinishRevoke, Finish, Done
    <2> QED BY <2>1
  <1>8. ASSUME NEW c \in Conn, BeginFinish(c)
        PROVE  HandlerOK'
    <2>1. result[c] \in Cred
      BY <1>8 DEF BeginFinish
    <2> QED BY <1>8, <2>1 DEF BeginFinish, CredentialOf
  <1> QED BY <1>2, <1>3, <1>4, <1>5, <1>6, <1>7, <1>8 DEF Next

-----------------------------------------------------------------------------
(* One live connection per key.                                            *)

\* A step that opens no authenticated socket and gives none a key keeps it.
LEMMA FewerLive ==
  ASSUME Inv,
         \A c \in Conn : sock'[c] = "open" /\ Authenticated(c)' =>
           sock[c] = "open" /\ Authenticated(c) /\ key'[c] = key[c]
  PROVE  OneLivePerKey'
  BY DEF Inv, OneLivePerKey

\* A login that completes ends whoever held its key.
LEMMA LoginEndsRivals ==
  ASSUME Inv, NEW c \in Conn, NEW k \in Key \cup {NoKey},
         sock' = Replaced(c, k), key' = [key EXCEPT ![c] = k],
         \A d \in Conn \ {c} : Authenticated(d)' => Authenticated(d)
  PROVE  OneLivePerKey'
  <1> SUFFICES ASSUME NEW d \in Conn, NEW e \in Conn, d # e,
                      sock'[d] = "open", sock'[e] = "open",
                      Authenticated(d)', Authenticated(e)', key'[d] # NoKey
               PROVE  key'[d] # key'[e]
    BY DEF OneLivePerKey
  <1>1. /\ \A x \in Conn : sock'[x] = "open" => sock[x] = "open"
        /\ \A x \in Conn \ {c} : sock'[x] = "open" => k = NoKey \/ key[x] # k
    BY RivalsEnd DEF Inv
  <1>2. CASE d = c
    BY <1>1, <1>2 DEF Inv, TypeOK
  <1>3. CASE e = c
    BY <1>1, <1>3 DEF Inv, TypeOK
  <1>4. CASE d # c /\ e # c
    BY <1>1, <1>4 DEF Inv, TypeOK, OneLivePerKey
  <1> QED BY <1>2, <1>3, <1>4

\* Every step of the server keeps at most one live connection per key.
LEMMA OneLiveStep ==
  ASSUME Inv, Next
  PROVE  OneLivePerKey'
  <1> USE DEF Authenticated, connVars, handler, clientVars
  <1>1. ASSUME NEW c \in Conn, Reject(c) \/ HelloTimeout(c) \/ PeerLeaves(c) \/ Accept(c)
                               \/ FallsSilent(c) \/ IdleDestroy(c) \/ Close(c)
                               \/ Refuse(c) \/ RepeatedHello(c) \/ RefuseDelete(c)
        PROVE  OneLivePerKey'
    <2>1. UNCHANGED <<at, named, key>>
      BY <1>1 DEF Reject, Accept, HelloTimeout, PeerLeaves, FallsSilent, IdleDestroy, Close,
                  Refuse, RepeatedHello, RefuseDelete
    <2>2. CASE Accept(c)
      BY <2>1, <2>2 DEF Inv, Accept, Accepted, TypeOK, OneLivePerKey
    <2>3. CASE ~Accept(c)
      <3>1. \A d \in Conn : sock'[d] = "open" => sock[d] = "open"
        BY <1>1, <2>3 DEF Inv, TypeOK, Reject, HelloTimeout, PeerLeaves, FallsSilent, IdleDestroy, Close,
                    Refuse, RepeatedHello, RefuseDelete, Fail, AfterEnd, AfterWrite
      <3> QED BY <2>1, <3>1, FewerLive
    <2> QED BY <2>2, <2>3
  <1>2. ASSUME NEW c \in Conn, NEW m \in Requests, Receive(c, m) \/ ReceiveGarbage(c, m)
        PROVE  OneLivePerKey'
    <2>1. \A d \in Conn : sock'[d] = "open" => sock[d] = "open"
      BY <1>2 DEF Inv, TypeOK, Receive, ReceiveGarbage, AfterEnd
    <2> QED BY <1>2, <2>1, FewerLive DEF Receive, ReceiveGarbage
  <1>3. ASSUME NEW c \in Conn, Ask(c)
        PROVE  OneLivePerKey'
    BY <1>3, FewerLive DEF Inv, TypeOK, Ask
  <1>4. ASSUME NEW c \in Conn, LegacyHello(c)
        PROVE  OneLivePerKey'
    <2>1. pending[c].session \in Key \cup {NoKey}
      BY <1>4, MessageShape DEF Inv, TypeOK, LegacyHello, Key
    <2> QED BY <1>4, <2>1, LoginEndsRivals DEF Inv, TypeOK, LegacyHello
  <1>5. ASSUME NEW c \in Conn, Commit(c)
        PROVE  OneLivePerKey'
    <2>1. at' = [at EXCEPT ![c] = "answered"] /\ UNCHANGED <<sock, named, key>> /\ at[c] = "asking"
      BY <1>5 DEF Commit, StoreAuthenticate, StoreEnroll, RecoveryFails, StoreRecover,
                  StoreRevoke, StoreDelete, Answer
    <2> QED BY <2>1, FewerLive DEF Inv, TypeOK
  <1>6. ASSUME NEW c \in Conn, StoreThrows(c) \/ AuthenticationFails(c) \/ FinishRevoke(c)
        PROVE  OneLivePerKey'
    <2>1. /\ at' = [at EXCEPT ![c] = "idle"] /\ UNCHANGED <<named, key>> /\ at[c] # "enriching"
          /\ sock' = [sock EXCEPT ![c] = AfterEnd(@)]
      BY <1>6 DEF StoreThrows, AuthenticationFails, FinishRevoke, Done, Fail
    <2>2. \A d \in Conn : sock'[d] = "open" => sock[d] = "open"
      BY <2>1 DEF Inv, TypeOK, AfterEnd
    <2> QED BY <2>1, <2>2, FewerLive DEF Inv, TypeOK
  <1>7. ASSUME NEW c \in Conn, BeginFinish(c)
        PROVE  OneLivePerKey'
    BY <1>7, FewerLive DEF Inv, TypeOK, BeginFinish
  <1>8. ASSUME NEW c \in Conn, Finish(c)
        PROVE  OneLivePerKey'
    <2>1. key' = [key EXCEPT ![c] = key[c]] /\ key[c] \in Key \cup {NoKey}
      BY <1>8 DEF Finish, Inv, TypeOK
    <2> QED BY <1>8, <2>1, LoginEndsRivals DEF Inv, TypeOK, Finish, Done
  <1> QED BY <1>1, <1>2, <1>3, <1>4, <1>5, <1>6, <1>7, <1>8 DEF Next

-----------------------------------------------------------------------------
(* The hello deadline.                                                     *)

\* A step that opens no socket, takes away no name and no timer, and leaves
\* the Map alone keeps the deadlines.
LEMMA TimersAlone ==
  ASSUME Inv,
         timer' = timer,
         \A c \in Conn : /\ sock'[c] = "open" => sock[c] = "open"
                         /\ timer[c] /\ c \in clients => c \in clients'
                         /\ named[c] => named'[c]
                         /\ at'[c] = "enriching" => at[c] = "enriching" \/ named'[c]
  PROVE  Deadlines'
  <1>1. \A c \in Conn : /\ sock[c] = "open" /\ ~named[c] => timer[c]
                        /\ timer[c] => c \in clients
                        /\ at[c] = "enriching" => named[c]
    BY DEF Inv, Deadlines, DeadlineStands
  <1>2. \A c \in Conn : sock'[c] = "open" /\ ~named'[c] => timer'[c]
    BY <1>1
  <1>3. \A c \in Conn : timer'[c] => c \in clients'
    BY <1>1
  <1>4. \A c \in Conn : at'[c] = "enriching" => named'[c]
    BY <1>1
  <1> QED BY <1>2, <1>3, <1>4 DEF Deadlines, DeadlineStands

\* A connection whose timer is cleared, and no other, has a name or leaves.
LEMMA TimerCleared ==
  ASSUME Inv, NEW c \in Conn,
         timer' = [timer EXCEPT ![c] = FALSE],
         named'[c] \/ sock'[c] # "open",
         at'[c] = "enriching" => named'[c],
         \A d \in Conn \ {c} : /\ sock'[d] = "open" => sock[d] = "open"
                               /\ d \in clients => d \in clients'
                               /\ named'[d] = named[d] /\ at'[d] = at[d]
  PROVE  Deadlines'
  BY DEF Inv, TypeOK, Deadlines, DeadlineStands

\* Every step of the server leaves the deadline over the anonymous.
LEMMA DeadlineStep ==
  ASSUME Inv, Next
  PROVE  Deadlines'
  <1> USE DEF Inv, TypeOK, clients, connVars, handler, clientVars
  <1>1. ASSUME NEW c \in Conn, Reject(c) \/ PeerLeaves(c) \/ FallsSilent(c) \/ IdleDestroy(c) \/ Ask(c)
        PROVE  Deadlines'
    <2>1. CASE Reject(c)
      BY <2>1, TimersAlone DEF Reject
    <2>2. CASE PeerLeaves(c) \/ FallsSilent(c)
      BY <2>2, TimersAlone DEF PeerLeaves, FallsSilent
    <2>3. CASE IdleDestroy(c)
      BY <2>3, TimersAlone DEF IdleDestroy, Watched
    <2>4. CASE Ask(c)
      BY <2>4, TimersAlone DEF Ask
    <2> QED BY <1>1, <2>1, <2>2, <2>3, <2>4
  <1>2. ASSUME NEW c \in Conn, Accept(c)
        PROVE  Deadlines'
    BY <1>2 DEF Accept, Accepted, Deadlines, DeadlineStands
  <1>3. ASSUME NEW c \in Conn, HelloTimeout(c) \/ Close(c)
        PROVE  Deadlines'
    BY <1>3, TimerCleared DEF HelloTimeout, Close, AfterEnd, Deadlines
  <1>4. ASSUME NEW c \in Conn, NEW m \in Requests, Receive(c, m) \/ ReceiveGarbage(c, m)
        PROVE  Deadlines'
    BY <1>4, TimersAlone DEF Receive, ReceiveGarbage, AfterEnd
  <1>5. ASSUME NEW c \in Conn, Refuse(c) \/ RepeatedHello(c) \/ RefuseDelete(c)
        PROVE  Deadlines'
    BY <1>5, TimersAlone DEF Refuse, RepeatedHello, RefuseDelete, Fail, AfterEnd, AfterWrite
  <1>6. ASSUME NEW c \in Conn, Commit(c)
        PROVE  Deadlines'
    <2>1. at' = [at EXCEPT ![c] = "answered"] /\ UNCHANGED <<sock, timer, named>>
      BY <1>6 DEF Commit, StoreAuthenticate, StoreEnroll, RecoveryFails, StoreRecover,
                  StoreRevoke, StoreDelete, Answer
    <2> QED BY <2>1, TimersAlone
  <1>7. ASSUME NEW c \in Conn, StoreThrows(c) \/ AuthenticationFails(c) \/ FinishRevoke(c)
        PROVE  Deadlines'
    BY <1>7, TimersAlone DEF StoreThrows, AuthenticationFails, FinishRevoke, Done, Fail, AfterEnd
  <1>8. ASSUME NEW c \in Conn, BeginFinish(c)
        PROVE  Deadlines'
    BY <1>8, TimersAlone DEF BeginFinish
  <1>9. ASSUME NEW c \in Conn, LegacyHello(c)
        PROVE  Deadlines'
    <2>1. \A d \in Conn : /\ Replaced(c, pending[c].session)[d] = "open" => sock[d] = "open"
                          /\ d \in clients => Replaced(c, pending[c].session)[d] \in {"open", "ended", "destroyed"}
      BY DEF Replaced, AfterEnd, AfterWrite
    <2> QED BY <1>9, <2>1, TimerCleared DEF LegacyHello
  <1>10. ASSUME NEW c \in Conn, Finish(c)
        PROVE  Deadlines'
    <2>1. \A d \in Conn : /\ Replaced(c, key[c])[d] = "open" => sock[d] = "open"
                          /\ d \in clients => Replaced(c, key[c])[d] \in {"open", "ended", "destroyed"}
      BY DEF Replaced, AfterEnd, AfterWrite
    <2> QED BY <1>10, <2>1, TimerCleared DEF Finish, Done, Deadlines
  <1> QED BY <1>1, <1>2, <1>3, <1>4, <1>5, <1>6, <1>7, <1>8, <1>9, <1>10 DEF Next

-----------------------------------------------------------------------------
\* Inv is an inductive invariant of the sessions.
THEOREM SessionInvariant == Spec => []Inv
  <1>1. Inv /\ UNCHANGED vars => Inv'
    BY DEF Inv, TypeOK, Accepted, HandlerOK, LoggingIn, OneLivePerKey, Authenticated,
           Deadlines, DeadlineStands, clients, vars, connVars, handler, clientVars, database
  <1>2. Inv /\ Next => Inv'
    BY TypeStep, AcceptedStep, HandlerStep, OneLiveStep, DeadlineStep DEF Inv
  <1> QED BY InitInv, <1>1, <1>2, PTL DEF Spec

\* Every reachable state of the sessions is well typed (server.mjs, clients).
THEOREM SessionTypes == Spec => []TypeOK
  BY SessionInvariant, PTL DEF Inv

\* At most one open connection has completed a login for a credential or v1
\* session, for any number of connections (replaceCredentialConnection).
THEOREM AtMostOneLive == Spec => []OneLivePerKey
  BY SessionInvariant, PTL DEF Inv

\* Whoever is let in without a name has the hello deadline over it, for any
\* number of connections and however long the stores take
\* (client.helloTimer, finishAuthentication).
THEOREM DeadlineAlwaysStands == Spec => []DeadlineStands
  BY SessionInvariant, PTL DEF Inv, Deadlines
=============================================================================
