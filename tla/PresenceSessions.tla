-------------------------- MODULE PresenceSessions --------------------------
(***************************************************************************)
(* Connections of the presence server and the identities they speak for    *)
(* (server/src/server.mjs): admission, the hello deadline, the handlers    *)
(* that authenticate, replacement of an earlier connection of the same     *)
(* credential or v1 session, revocation, the idle timer and 'close'.       *)
(* A handler awaits the identity store and then the title and guild        *)
(* stores; timers, other handlers and the socket's events run meanwhile,   *)
(* and a handler outlives its socket.                                      *)
(***************************************************************************)
EXTENDS Integers, FiniteSets

CONSTANTS
  Conn,       \* connections, each made once
  IP,         \* remote addresses
  Session,    \* v1 session tokens
  Identity,
  Cred,       \* device credentials the store may issue
  Owner,      \* the identity a credential belongs to
  NoKey,      \* null for client.session and client.credentialId
  NoMessage,
  Requests,   \* the lines clients send, a subset of Message
  maxConnections, maxConnectionsPerIp

Key == Cred \cup Session

Login   == [type : {"hello"}, cred : Cred] \cup [type : {"recover"}, identity : Identity]
              \cup [type : {"enroll"}]
Legacy  == [type : {"legacy"}, session : Session \cup {NoKey}]
\* "bad" parses and fails its validator, as a hello or as a state line;
\* "garbage" does not parse or is too long
Other   == [type : {"revoke", "delete", "bad", "garbage"}]
Message == Login \cup Legacy \cup Other

ASSUME DataAssumption ==
  /\ NoKey \notin Key
  /\ NoMessage \notin Message
  /\ Requests \subseteq Message
  /\ Owner \in [Cred -> Identity]
ASSUME CapAssumption == maxConnections \in Nat /\ maxConnectionsPerIp \in Nat

VARIABLES
  sock,       \* "new", "rejected", "open", "ended", "destroyed", "closed"
  addr,       \* socket.remoteAddress
  peer,       \* "talking", or "silent": nothing arrives any more
  timer,      \* client.helloTimer is armed
  pending,    \* a line waiting on client.processing
  at,         \* the handler in flight: "idle", "asking" the identity store,
              \*   "answered" by it, "enriching" from the title and guild stores
  doing,      \* the message it handles
  result,     \* the credential the identity store answered with
  named,      \* client.name is set
  key,        \* client.credentialId or client.session
  cred,       \* device_credentials: "unissued", "active", "revoked"
  code        \* identity_recovery: "none" before the identity is enrolled,
              \*   "unused", "used", "deleted" with the identity

connVars   == <<sock, addr, peer, timer>>
handler    == <<pending, at, doing, result>>
clientVars == <<named, key>>
database   == <<cred, code>>
vars == <<connVars, handler, clientVars, database>>

\* the clients Map
clients == {c \in Conn : sock[c] \in {"open", "ended", "destroyed"}}
Authenticated(c) == named[c] /\ at[c] # "enriching"

TypeOK ==
  /\ sock \in [Conn -> {"new", "rejected", "open", "ended", "destroyed", "closed"}]
  /\ addr \in [Conn -> IP]
  /\ peer \in [Conn -> {"talking", "silent"}]
  /\ timer \in [Conn -> BOOLEAN]
  /\ pending \in [Conn -> Requests \cup {NoMessage}]
  /\ at \in [Conn -> {"idle", "asking", "answered", "enriching"}]
  /\ doing \in [Conn -> Requests \cup {NoMessage}]
  /\ result \in [Conn -> Cred \cup {NoKey}]
  /\ named \in [Conn -> BOOLEAN]
  /\ key \in [Conn -> Key \cup {NoKey}]
  /\ cred \in [Cred -> {"unissued", "active", "revoked"}]
  /\ code \in [Identity -> {"none", "unused", "used", "deleted"}]

Init ==
  /\ sock = [c \in Conn |-> "new"]
  /\ addr \in [Conn -> IP]
  /\ peer = [c \in Conn |-> "talking"]
  /\ timer = [c \in Conn |-> FALSE]
  /\ pending = [c \in Conn |-> NoMessage]
  /\ at = [c \in Conn |-> "idle"]
  /\ doing = [c \in Conn |-> NoMessage]
  /\ result = [c \in Conn |-> NoKey]
  /\ named = [c \in Conn |-> FALSE]
  /\ key = [c \in Conn |-> NoKey]
  /\ cred = [k \in Cred |-> "unissued"]
  /\ code = [i \in Identity |-> "none"]

-----------------------------------------------------------------------------
(* Sockets and timers                                                      *)

\* send() and socket.end(); Node destroys a socket written to after end()
AfterEnd(s)   == IF s = "open" THEN "ended" ELSE IF s = "ended" THEN "destroyed" ELSE s
AfterWrite(s) == IF s = "ended" THEN "destroyed" ELSE s

\* the two caps of the accept callback, counted over the clients Map
ServerFull == Cardinality(clients) >= maxConnections
AddressFull(c) == Cardinality({d \in clients : addr[d] = addr[c]}) >= maxConnectionsPerIp

Reject(c) ==
  /\ sock[c] = "new"
  /\ ServerFull \/ AddressFull(c)
  /\ sock' = [sock EXCEPT ![c] = "rejected"]
  /\ UNCHANGED <<addr, peer, timer, handler, clientVars, database>>

Accept(c) ==
  /\ sock[c] = "new"
  /\ ~ServerFull
  /\ ~AddressFull(c)
  /\ sock' = [sock EXCEPT ![c] = "open"]
  /\ timer' = [timer EXCEPT ![c] = TRUE]
  /\ UNCHANGED <<addr, peer, handler, clientVars, database>>

\* the hello deadline passes
HelloTimeout(c) ==
  /\ timer[c]
  /\ timer' = [timer EXCEPT ![c] = FALSE]
  /\ sock' = IF named[c] THEN sock ELSE [sock EXCEPT ![c] = AfterEnd(@)]
  /\ UNCHANGED <<addr, peer, handler, clientVars, database>>

\* a half-closed socket still delivers lines
Receive(c, m) ==
  /\ m.type # "garbage"
  /\ sock[c] \in {"open", "ended"}
  /\ peer[c] = "talking"
  /\ pending[c] = NoMessage
  /\ pending' = [pending EXCEPT ![c] = m]
  /\ UNCHANGED <<connVars, at, doing, result, clientVars, database>>

\* line_too_long and invalid_json end the socket from the data handler
ReceiveGarbage(c, m) ==
  /\ m.type = "garbage"
  /\ sock[c] \in {"open", "ended"}
  /\ peer[c] = "talking"
  /\ sock' = [sock EXCEPT ![c] = AfterEnd(@)]
  /\ UNCHANGED <<addr, peer, timer, handler, clientVars, database>>

\* The peer disconnects: 'close' will follow.
PeerLeaves(c) ==
  /\ sock[c] \in {"open", "ended"}
  /\ sock' = [sock EXCEPT ![c] = "destroyed"]
  /\ peer' = [peer EXCEPT ![c] = "silent"]
  /\ UNCHANGED <<addr, timer, handler, clientVars, database>>

\* The peer vanishes, or sends nothing for idleMs.
FallsSilent(c) ==
  /\ sock[c] \in {"open", "ended"}
  /\ peer[c] = "talking"
  /\ peer' = [peer EXCEPT ![c] = "silent"]
  /\ UNCHANGED <<sock, addr, timer, handler, clientVars, database>>

\* (bug: the idle timer skips connections that never said hello)
WatchedOnceNamed == {c \in clients : peer[c] = "silent" /\ named[c]}
\* whom the idle timer looks at
Watched == {c \in clients : peer[c] = "silent"}

IdleDestroy(c) ==
  /\ c \in Watched
  /\ sock[c] # "destroyed"
  /\ sock' = [sock EXCEPT ![c] = "destroyed"]
  /\ UNCHANGED <<addr, peer, timer, handler, clientVars, database>>

\* 'close': the client leaves the Map, its promise chain goes on
Close(c) ==
  /\ sock[c] = "destroyed"
  /\ sock' = [sock EXCEPT ![c] = "closed"]
  /\ timer' = [timer EXCEPT ![c] = FALSE]
  /\ UNCHANGED <<addr, peer, handler, clientVars, database>>

-----------------------------------------------------------------------------
(* Handlers                                                                *)

\* (bug: only v1 sessions are compared)
RivalsOfSession(c, k) == {d \in clients \ {c} : k \in Session /\ key[d] = k}
\* replaceCredentialConnection: the connections c's authentication ends
Rivals(c, k) == {d \in clients \ {c} : k # NoKey /\ key[d] = k}

\* c, speaking for k, ends its rivals and writes its own reply
Replaced(c, k) ==
  [d \in Conn |-> IF d \in Rivals(c, k) THEN AfterEnd(sock[d])
                  ELSE IF d = c THEN AfterWrite(sock[d]) ELSE sock[d]]

Fail(c) ==
  /\ sock' = [sock EXCEPT ![c] = AfterEnd(@)]
  /\ UNCHANGED <<addr, peer, timer>>

Dequeue(c) == pending' = [pending EXCEPT ![c] = NoMessage]
Done(c) ==
  /\ at' = [at EXCEPT ![c] = "idle"]
  /\ doing' = [doing EXCEPT ![c] = NoMessage]
  /\ result' = [result EXCEPT ![c] = NoKey]

\* (bug: a hello turns the deadline off before it asks the store)
AskDisarms(c) ==
  LET m == pending[c] IN
  /\ at[c] = "idle"
  /\ m # NoMessage
  /\ IF named[c] THEN m.type \in {"revoke", "delete"} /\ key[c] \in Cred
                 ELSE m.type \in {"hello", "enroll", "recover"}
  /\ Dequeue(c)
  /\ at' = [at EXCEPT ![c] = "asking"]
  /\ doing' = [doing EXCEPT ![c] = m]
  /\ timer' = [timer EXCEPT ![c] = FALSE]
  /\ UNCHANGED <<sock, addr, peer, result, clientVars, database>>

\* The next line is one whose handler asks the identity store.
Ask(c) ==
  LET m == pending[c] IN
  /\ at[c] = "idle"
  /\ m # NoMessage
  /\ IF named[c] THEN m.type \in {"revoke", "delete"} /\ key[c] \in Cred
                 ELSE m.type \in {"hello", "enroll", "recover"}
  /\ Dequeue(c)
  /\ at' = [at EXCEPT ![c] = "asking"]
  /\ doing' = [doing EXCEPT ![c] = m]
  /\ UNCHANGED <<connVars, result, clientVars, database>>

\* hello of protocol v1: no await, so one step
LegacyHello(c) ==
  LET m == pending[c] IN
  /\ at[c] = "idle"
  /\ m # NoMessage
  /\ ~named[c]
  /\ m.type = "legacy"
  /\ Dequeue(c)
  /\ named' = [named EXCEPT ![c] = TRUE]
  /\ key' = [key EXCEPT ![c] = m.session]
  /\ timer' = [timer EXCEPT ![c] = FALSE]
  /\ sock' = Replaced(c, m.session)
  /\ UNCHANGED <<addr, peer, at, doing, result, database>>

\* invalid_hello, an invalid state line (invalid_state), identity_required
Refuse(c) ==
  LET m == pending[c] IN
  /\ at[c] = "idle"
  /\ m # NoMessage
  /\ IF named[c] THEN m.type = "bad" \/ (m.type = "revoke" /\ key[c] \notin Cred)
                 ELSE m.type \in {"bad", "revoke", "delete"}
  /\ Dequeue(c)
  /\ Fail(c)
  /\ UNCHANGED <<at, doing, result, clientVars, database>>

\* a second hello of any kind: unknown_type, the socket stays
RepeatedHello(c) ==
  LET m == pending[c] IN
  /\ at[c] = "idle"
  /\ m # NoMessage
  /\ named[c] /\ m.type \in {"hello", "enroll", "recover", "legacy"}
  /\ Dequeue(c)
  /\ sock' = [sock EXCEPT ![c] = AfterWrite(@)]
  /\ UNCHANGED <<addr, peer, timer, at, doing, result, clientVars, database>>

\* deletion_confirmation_required to a v1 client: an error, the socket stays
RefuseDelete(c) ==
  LET m == pending[c] IN
  /\ at[c] = "idle"
  /\ m # NoMessage
  /\ named[c] /\ m.type = "delete" /\ key[c] \notin Cred
  /\ Dequeue(c)
  /\ sock' = [sock EXCEPT ![c] = AfterWrite(@)]
  /\ UNCHANGED <<addr, peer, timer, at, doing, result, clientVars, database>>

-----------------------------------------------------------------------------
(* The identity store: one transaction each (IdentityStore splits them)    *)

Unissued(i) == {k \in Cred : Owner[k] = i /\ cred[k] = "unissued"}
Exists(i) == code[i] \in {"unused", "used"}
RevokedAll(i) == [k \in Cred |-> IF Owner[k] = i /\ cred[k] = "active" THEN "revoked" ELSE cred[k]]

Answer(c, answer) ==
  /\ at' = [at EXCEPT ![c] = "answered"]
  /\ result' = [result EXCEPT ![c] = answer]

StoreAuthenticate(c, k) ==
  /\ Answer(c, IF cred[k] = "active" THEN k ELSE NoKey)
  /\ UNCHANGED database

\* every enrollment asks for a recovery code
StoreEnroll(c) ==
  \E k \in Cred :
    /\ cred[k] = "unissued" /\ code[Owner[k]] = "none"
    /\ Answer(c, k)
    /\ cred' = [cred EXCEPT ![k] = "active"]
    /\ code' = [code EXCEPT ![Owner[k]] = "unused"]
  
RecoveryFails(c, i) ==
  /\ code[i] # "unused"
  /\ Answer(c, NoKey)
  /\ UNCHANGED database

StoreRecover(c, i) ==
  /\ code[i] = "unused"
  /\ \E k \in Unissued(i) :
       /\ Answer(c, k)
       /\ cred' = [RevokedAll(i) EXCEPT ![k] = "active"]
  /\ code' = [code EXCEPT ![i] = "used"]

StoreRevoke(c, k) ==
  /\ Answer(c, NoKey)
  /\ cred' = [cred EXCEPT ![k] = IF @ = "active" THEN "revoked" ELSE @]
  /\ UNCHANGED code

\* DELETE FROM identities cascades
StoreDelete(c, i) ==
  /\ Answer(c, NoKey)
  /\ cred' = RevokedAll(i)
  /\ code' = [code EXCEPT ![i] = "deleted"]

Commit(c) ==
  LET m == doing[c] IN
  /\ at[c] = "asking"
  /\ \/ m.type = "hello" /\ StoreAuthenticate(c, m.cred)
     \/ m.type = "enroll" /\ StoreEnroll(c)
     \/ m.type = "recover" /\ (StoreRecover(c, m.identity) \/ RecoveryFails(c, m.identity))
     \/ m.type = "revoke" /\ StoreRevoke(c, key[c])
     \/ m.type = "delete" /\ StoreDelete(c, Owner[key[c]])
  /\ UNCHANGED <<connVars, pending, doing, clientVars>>

\* the query throws: internal_error
StoreThrows(c) ==
  /\ at[c] = "asking"
  /\ Done(c)
  /\ Fail(c)
  /\ UNCHANGED <<pending, clientVars, database>>

-----------------------------------------------------------------------------
(* The handler goes on                                                     *)

LoggingIn(c) == doing[c].type \in {"hello", "enroll", "recover"}

AuthenticationFails(c) ==
  /\ at[c] = "answered"
  /\ LoggingIn(c) /\ result[c] = NoKey
  /\ Done(c)
  /\ Fail(c)
  /\ UNCHANGED <<pending, clientVars, database>>

\* the credential finishAuthentication is called with
CredentialOf(c) == result[c]

\* (bug: finishAuthentication clears the timer first and names the client last)
BeginFinishDisarms(c) ==
  /\ at[c] = "answered"
  /\ LoggingIn(c) /\ result[c] # NoKey
  /\ at' = [at EXCEPT ![c] = "enriching"]
  /\ timer' = [timer EXCEPT ![c] = FALSE]
  /\ key' = [key EXCEPT ![c] = CredentialOf(c)]
  /\ UNCHANGED <<sock, addr, peer, pending, doing, result, named, database>>

\* finishAuthentication up to its first await
BeginFinish(c) ==
  /\ at[c] = "answered"
  /\ LoggingIn(c) /\ result[c] # NoKey
  /\ at' = [at EXCEPT ![c] = "enriching"]
  /\ named' = [named EXCEPT ![c] = TRUE]
  /\ key' = [key EXCEPT ![c] = CredentialOf(c)]
  /\ UNCHANGED <<connVars, pending, doing, result, database>>

\* the rest of finishAuthentication, and the reply
Finish(c) ==
  /\ at[c] = "enriching"
  /\ timer' = [timer EXCEPT ![c] = FALSE]
  /\ sock' = Replaced(c, key[c])
  /\ Done(c)
  /\ UNCHANGED <<addr, peer, pending, named, key, database>>

\* session_revoked, identity_deleted
FinishRevoke(c) ==
  /\ at[c] = "answered"
  /\ ~LoggingIn(c)
  /\ Done(c)
  /\ Fail(c)
  /\ UNCHANGED <<pending, clientVars, database>>

Next ==
  \E c \in Conn :
    \/ Reject(c) \/ Accept(c) \/ HelloTimeout(c)
    \/ \E m \in Requests : Receive(c, m) \/ ReceiveGarbage(c, m)
    \/ PeerLeaves(c) \/ FallsSilent(c) \/ IdleDestroy(c) \/ Close(c)
    \/ Ask(c) \/ LegacyHello(c) \/ Refuse(c) \/ RepeatedHello(c) \/ RefuseDelete(c)
    \/ Commit(c) \/ StoreThrows(c) \/ AuthenticationFails(c)
    \/ BeginFinish(c) \/ Finish(c) \/ FinishRevoke(c)

Spec == Init /\ [][Next]_vars

(* Fairness of Node's timers and of the 'close' event; nothing is assumed  *)
(* of peers or of the database.                                            *)
TimerFairness ==
  \A c \in Conn : /\ WF_vars(HelloTimeout(c))
                  /\ WF_vars(IdleDestroy(c))
                  /\ WF_vars(Close(c))
FairSpec == Spec /\ TimerFairness

-----------------------------------------------------------------------------
(* Properties                                                              *)

\* Once authentication is complete, at most one open connection speaks for a
\* credential or v1 session, however the logins that contend for it overlap
\* (replaceCredentialConnection).
OneLivePerKey ==
  \A c, d \in Conn :
    (/\ c # d
     /\ sock[c] = "open" /\ sock[d] = "open"
     /\ Authenticated(c) /\ Authenticated(d)
     /\ key[c] # NoKey) => key[c] # key[d]

\* Whoever is let in without a name has the deadline over it, however far its
\* login has come in the stores, and no deadline outlives its place in the Map:
\* the name is set before finishAuthentication first waits, the timer is
\* cleared after it last waits.
DeadlineStands ==
  \A c \in Conn : /\ sock[c] = "open" /\ ~named[c] => timer[c]
                  /\ timer[c] => c \in clients

\* A socket does not stay open without a name: the hello deadline ends it, also
\* when its login waits for an answer of the store that never comes.
AnonymousAreEnded ==
  \A c \in Conn : (sock[c] = "open" /\ ~named[c]) ~> (sock[c] # "open" \/ named[c])

\* A peer that vanished without closing gives its place back (idle timer,
\* 'close'), also when its socket was already ended or it never said hello.
VanishedPeersFreeTheirSlot ==
  \A c \in Conn : (c \in clients /\ peer[c] = "silent") ~> c \notin clients
=============================================================================
