---------------------------- MODULE FriendStore ----------------------------
(***************************************************************************)
(* Friendships: PostgresFriendStore (server/src/friend-store.mjs) over the *)
(* table of migrations/011_friends.sql.  requestFriend reads the pair's    *)
(* rows FOR UPDATE and then accepts or inserts; between the two statements *)
(* it holds the rows it found, and nothing when it found none.             *)
(***************************************************************************)
EXTENDS Integers, FiniteSets

CONSTANTS
  Conn,       \* authenticated connections, one handler at a time each
  Identity,
  Who         \* the identity of a connection

ASSUME FriendAssumption == Who \in [Conn -> Identity]

VARIABLES
  friendships,  \* requester, addressee -> "none", "pending", "accepted"
  identities,   \* identities not deleted
  op,           \* the handler of a connection between two statements
  told,         \* the status of its last friend_result, and about whom
  consent       \* history: who asked for or accepted whom since the pair was
                \*   last removed

vars == <<friendships, identities, op, told, consent>>

Pair == {p \in Identity \X Identity : p[1] # p[2]}
Status == {"none", "pending", "accepted"}
Idle == [type |-> "idle"]
Handler == {Idle} \cup [type : {"accept", "insert"}, peer : Identity]

TypeOK ==
  /\ friendships \in [Pair -> Status]
  /\ identities \in SUBSET Identity
  /\ op \in [Conn -> Handler]
  /\ \A c \in Conn : op[c] # Idle => op[c].peer # Who[c]
  /\ told \in [Conn -> {Idle} \cup [type : {"pending", "accepted"}, peer : Identity]]
  /\ consent \in SUBSET Pair

Init ==
  /\ friendships = [p \in Pair |-> "none"]
  /\ identities = Identity
  /\ op = [c \in Conn |-> Idle]
  /\ told = [c \in Conn |-> Idle]
  /\ consent = {}

\* (bug: FOR UPDATE is forgotten)
Unlocked(i, j) == FALSE
\* a transaction that found rows of the pair holds them until it commits
Locked(i, j) == \E c \in Conn : op[c].type = "accept" /\ {Who[c], op[c].peer} = {i, j}

Both(i, j) == {<<i, j>>, <<j, i>>}
\* DELETE FROM friendships
Without(P) == [p \in Pair |-> IF p \in P THEN "none" ELSE friendships[p]]
Tell(c, status, j) == told' = [told EXCEPT ![c] = [type |-> status, peer |-> j]]

-----------------------------------------------------------------------------
(* requestFriend                                                           *)

\* SELECT ... FOR UPDATE finds nothing
RequestNew(c, j) ==
  /\ op[c] = Idle
  /\ j \in identities /\ j # Who[c]
  /\ \A p \in Both(Who[c], j) : friendships[p] = "none"
  /\ op' = [op EXCEPT ![c] = [type |-> "insert", peer |-> j]]
  /\ UNCHANGED <<friendships, identities, told, consent>>

\* rows[0] is an accepted friendship
RequestAccepted(c, j) ==
  /\ op[c] = Idle
  /\ j # Who[c] /\ ~Locked(Who[c], j)
  /\ \E p \in Both(Who[c], j) : friendships[p] = "accepted"
  /\ Tell(c, "accepted", j)
  /\ UNCHANGED <<friendships, identities, op, consent>>

\* rows[0] is the other's pending request
RequestReciprocal(c, j) ==
  /\ op[c] = Idle
  /\ j # Who[c] /\ ~Locked(Who[c], j)
  /\ friendships[<<j, Who[c]>>] = "pending"
  /\ op' = [op EXCEPT ![c] = [type |-> "accept", peer |-> j]]
  /\ UNCHANGED <<friendships, identities, told, consent>>

\* UPDATE ... SET status = 'accepted'; COMMIT
AcceptReciprocal(c) ==
  LET p == <<op[c].peer, Who[c]>> IN
  /\ op[c].type = "accept"
  /\ friendships' = [friendships EXCEPT ![p] = IF @ = "none" THEN @ ELSE "accepted"]
  /\ consent' = consent \cup {<<Who[c], op[c].peer>>}
  /\ Tell(c, "accepted", op[c].peer)
  /\ op' = [op EXCEPT ![c] = Idle]
  /\ UNCHANGED identities

\* (bug: the request is stored as accepted when the addressee is online)
AcceptedAtOnce == "accepted"
\* the status of a new row
NewStatus == "pending"

\* INSERT; COMMIT.  UNIQUE (requester_id, addressee_id)
InsertRequest(c) ==
  LET p == <<Who[c], op[c].peer>> IN
  /\ op[c].type = "insert"
  /\ friendships[p] = "none" /\ {Who[c], op[c].peer} \subseteq identities
  /\ friendships' = [friendships EXCEPT ![p] = NewStatus]
  /\ consent' = consent \cup {p}
  /\ Tell(c, "pending", op[c].peer)
  /\ op' = [op EXCEPT ![c] = Idle]
  /\ UNCHANGED identities

InsertThrows(c) ==
  /\ op[c].type = "insert"
  /\ friendships[<<Who[c], op[c].peer>>] # "none" \/ ~({Who[c], op[c].peer} \subseteq identities)
  /\ op' = [op EXCEPT ![c] = Idle]
  /\ UNCHANGED <<friendships, identities, told, consent>>

-----------------------------------------------------------------------------
(* acceptFriend, removeFriend: one statement                               *)

Accept(c, j) ==
  /\ op[c] = Idle
  /\ j # Who[c] /\ ~Locked(Who[c], j)
  /\ friendships[<<j, Who[c]>>] = "pending"
  /\ friendships' = [friendships EXCEPT ![<<j, Who[c]>>] = "accepted"]
  /\ consent' = consent \cup {<<Who[c], j>>}
  /\ Tell(c, "accepted", j)
  /\ UNCHANGED <<identities, op>>

\* (bug: only the caller's own request is deleted)
RemovedByRequester(i, j) == {<<i, j>>}
\* what removeFriend deletes
Removed(i, j) == Both(i, j)

Remove(c, j) ==
  /\ op[c] = Idle
  /\ j \in Identity /\ j # Who[c] /\ ~Locked(Who[c], j)
  /\ friendships' = Without(Removed(Who[c], j))
  /\ consent' = consent \ Both(Who[c], j)
  /\ UNCHANGED <<identities, op, told>>

\* delete_identity: both columns cascade, and wait for locked rows
DeleteIdentity(i) ==
  LET rows == {p \in Pair : i \in {p[1], p[2]}} IN
  /\ i \in identities
  /\ \A j \in Identity : ~Locked(i, j)
  /\ identities' = identities \ {i}
  /\ friendships' = Without(rows)
  /\ consent' = consent \ rows
  /\ UNCHANGED <<op, told>>

Next ==
  \/ \E c \in Conn :
       \/ \E j \in Identity :
            \/ RequestNew(c, j) \/ RequestAccepted(c, j) \/ RequestReciprocal(c, j)
            \/ Accept(c, j) \/ Remove(c, j)
       \/ AcceptReciprocal(c) \/ InsertRequest(c) \/ InsertThrows(c)
  \/ \E i \in Identity : DeleteIdentity(i)

Spec == Init /\ [][Next]_vars

-----------------------------------------------------------------------------
(* Properties                                                              *)

\* Two trainers are friends only if each asked for or accepted the other
\* since either last removed the friendship, however their requests, accepts
\* and removals overlap.
FriendsConsented ==
  \A p \in Pair : friendships[p] = "accepted" => Both(p[1], p[2]) \subseteq consent

\* A trainer is told of an accepted friendship only in a step that leaves one
\* in the table: the removal of the request cannot slip between the SELECT
\* that found it and the UPDATE (FOR UPDATE).
ToldWhatIsStored ==
  [][\A c \in Conn :
       told'[c] # told[c] /\ told'[c].type = "accepted" =>
         \E p \in Both(Who[c], told'[c].peer) : friendships'[p] = "accepted"]_vars
=============================================================================
