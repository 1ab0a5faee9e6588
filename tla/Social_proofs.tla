-------------------------- MODULE Social_proofs --------------------------
(***************************************************************************)
(* Proofs about what trainers do with each other on the server:            *)
(* FriendStore for any number of trainers and connections, CommunityStore  *)
(* for any number of trainers, forum rows and requests.                    *)
(***************************************************************************)
EXTENDS FriendStore, CommunityStore, TLAPS

-----------------------------------------------------------------------------
(***************************************************************************)
(* FriendStore. FriendsConsented is not inductive alone: that a pending    *)
(* row carries its requester's consent, and that a row found FOR UPDATE    *)
(* stays, make it so.                                                      *)
(***************************************************************************)

\* Whoever has a request in the table asked since the pair was last removed.
RequesterConsents == \A p \in Pair : friendships[p] # "none" => p \in consent

\* The row a transaction found is there until it commits.
HeldRowsStay ==
  \A c \in Conn : op[c].type = "accept" =>
    <<op[c].peer, Who[c]>> \in Pair /\ friendships[<<op[c].peer, Who[c]>>] # "none"

FriendInv == TypeOK /\ RequesterConsents /\ FriendsConsented /\ HeldRowsStay

\* The members of a pair.
LEMMA PairOf ==
  ASSUME NEW i \in Identity, NEW j \in Identity, i # j
  PROVE  /\ <<i, j>> \in Pair /\ <<j, i>> \in Pair
         /\ Both(i, j) \subseteq Pair /\ Both(i, j) = Both(j, i)
  BY DEF Pair, Both

\* Initially nobody has asked.
LEMMA FriendInit == Init => FriendInv
  BY FriendAssumption DEF Init, FriendInv, TypeOK, RequesterConsents, FriendsConsented, HeldRowsStay,
     Handler, Idle, Status

\* Every statement keeps the invariant.
LEMMA FriendStep ==
  ASSUME FriendInv, Next
  PROVE  FriendInv'
  <1> USE FriendAssumption DEF FriendInv
  <1>1. ASSUME NEW c \in Conn, NEW j \in Identity, RequestNew(c, j)
        PROVE  FriendInv'
    <2>1. [type |-> "insert", peer |-> j] \in Handler
      BY DEF Handler
    <2> QED BY <1>1, <2>1 DEF RequestNew, TypeOK, RequesterConsents, FriendsConsented, HeldRowsStay, Idle
  <1>2. ASSUME NEW c \in Conn, NEW j \in Identity, RequestAccepted(c, j)
        PROVE  FriendInv'
    BY <1>2 DEF RequestAccepted, Tell, TypeOK, RequesterConsents, FriendsConsented, HeldRowsStay
  <1>3. ASSUME NEW c \in Conn, NEW j \in Identity, RequestReciprocal(c, j)
        PROVE  FriendInv'
    <2>1. [type |-> "accept", peer |-> j] \in Handler
      BY DEF Handler
    <2>2. <<j, Who[c]>> \in Pair /\ friendships[<<j, Who[c]>>] # "none"
      BY <1>3, PairOf DEF RequestReciprocal
    <2> QED BY <1>3, <2>1, <2>2 DEF RequestReciprocal, TypeOK, RequesterConsents, FriendsConsented, HeldRowsStay, Idle
  <1>4. ASSUME NEW c \in Conn, AcceptReciprocal(c)
        PROVE  FriendInv'
    <2> DEFINE i == Who[c]
               j == op[c].peer
    <2>1. i \in Identity /\ j \in Identity /\ i # j
      BY <1>4 DEF AcceptReciprocal, TypeOK, Handler, Idle
    <2>2. <<j, i>> \in Pair /\ <<i, j>> \in Pair /\ friendships[<<j, i>>] # "none"
      BY <1>4, <2>1, PairOf DEF AcceptReciprocal, HeldRowsStay
    <2>3. /\ friendships' = [friendships EXCEPT ![<<j, i>>] = "accepted"]
          /\ consent' = consent \cup {<<i, j>>}
          /\ op' = [op EXCEPT ![c] = Idle]
          /\ told' = [told EXCEPT ![c] = [type |-> "accepted", peer |-> j]]
          /\ identities' = identities
      BY <1>4, <2>2 DEF AcceptReciprocal, Tell
    <2>4. TypeOK'
      BY <2>1, <2>2, <2>3 DEF TypeOK, Handler, Status, Idle
    <2>5. <<j, i>> \in consent
      BY <2>2 DEF RequesterConsents
    <2>6. RequesterConsents'
      BY <2>2, <2>3, <2>5 DEF RequesterConsents, TypeOK
    <2>7. FriendsConsented'
      <3> SUFFICES ASSUME NEW p \in Pair, friendships'[p] = "accepted"
                   PROVE  Both(p[1], p[2]) \subseteq consent'
        BY DEF FriendsConsented
      <3>1. CASE p = <<j, i>>
        BY <2>3, <2>5, <3>1 DEF Both
      <3>2. CASE p # <<j, i>>
        BY <2>2, <2>3, <3>2 DEF FriendsConsented, TypeOK
      <3> QED BY <3>1, <3>2
    <2>8. HeldRowsStay'
      BY <2>2, <2>3 DEF HeldRowsStay, TypeOK, Idle
    <2> QED BY <2>4, <2>6, <2>7, <2>8
  <1>5. ASSUME NEW c \in Conn, InsertRequest(c)
        PROVE  FriendInv'
    <2> DEFINE p == <<Who[c], op[c].peer>>
    <2>1. Who[c] \in Identity /\ op[c].peer \in Identity /\ Who[c] # op[c].peer
      BY <1>5 DEF InsertRequest, TypeOK, Handler, Idle
    <2>2. p \in Pair
      BY <2>1, PairOf
    <2>3. /\ friendships' = [friendships EXCEPT ![p] = "pending"]
          /\ consent' = consent \cup {p}
          /\ op' = [op EXCEPT ![c] = Idle]
          /\ told' = [told EXCEPT ![c] = [type |-> "pending", peer |-> op[c].peer]]
          /\ identities' = identities
      BY <1>5 DEF InsertRequest, Tell, NewStatus
    <2> QED BY <2>1, <2>2, <2>3 DEF TypeOK, Handler, Status, Idle, RequesterConsents, FriendsConsented, HeldRowsStay
  <1>6. ASSUME NEW c \in Conn, InsertThrows(c)
        PROVE  FriendInv'
    BY <1>6 DEF InsertThrows, TypeOK, Handler, RequesterConsents, FriendsConsented, HeldRowsStay, Idle
  <1>7. ASSUME NEW c \in Conn, NEW j \in Identity, Accept(c, j)
        PROVE  FriendInv'
    <2> DEFINE i == Who[c]
    <2>1. <<j, i>> \in Pair /\ <<i, j>> \in Pair
      BY <1>7, PairOf DEF Accept
    <2>2. <<j, i>> \in consent
      BY <1>7, <2>1 DEF Accept, RequesterConsents
    <2>3. /\ friendships' = [friendships EXCEPT ![<<j, i>>] = "accepted"]
          /\ consent' = consent \cup {<<i, j>>}
          /\ told' = [told EXCEPT ![c] = [type |-> "accepted", peer |-> j]]
          /\ UNCHANGED <<identities, op>>
      BY <1>7 DEF Accept, Tell
    <2>4. FriendsConsented'
      <3> SUFFICES ASSUME NEW p \in Pair, friendships'[p] = "accepted"
                   PROVE  Both(p[1], p[2]) \subseteq consent'
        BY DEF FriendsConsented
      <3>1. CASE p = <<j, i>>
        BY <2>2, <2>3, <3>1 DEF Both
      <3>2. CASE p # <<j, i>>
        BY <2>1, <2>3, <3>2 DEF FriendsConsented, TypeOK
      <3> QED BY <3>1, <3>2
    <2> QED BY <2>1, <2>2, <2>3, <2>4 DEF TypeOK, Status, RequesterConsents, HeldRowsStay
  <1>8. ASSUME NEW c \in Conn, NEW j \in Identity, Remove(c, j)
        PROVE  FriendInv'
    <2> DEFINE i == Who[c]
               gone == Both(i, j)
    <2>1. gone \subseteq Pair /\ i \in Identity /\ i # j
      BY <1>8, PairOf DEF Remove
    <2>2. /\ friendships' = [p \in Pair |-> IF p \in gone THEN "none" ELSE friendships[p]]
          /\ consent' = consent \ gone
          /\ UNCHANGED <<identities, op, told>>
      BY <1>8 DEF Remove, Without, Removed
    <2>3. TypeOK' /\ RequesterConsents'
      BY <2>1, <2>2 DEF TypeOK, Status, RequesterConsents
    <2>4. FriendsConsented'
      <3> SUFFICES ASSUME NEW p \in Pair, friendships'[p] = "accepted"
                   PROVE  Both(p[1], p[2]) \subseteq consent'
        BY DEF FriendsConsented
      <3>1. p \notin gone /\ Both(p[1], p[2]) \subseteq consent
        BY <2>2 DEF FriendsConsented
      <3>2. Both(p[1], p[2]) \cap gone = {}
        BY <3>1 DEF Both, Pair
      <3> QED BY <2>2, <3>1, <3>2
    <2>5. HeldRowsStay'
      <3> SUFFICES ASSUME NEW d \in Conn, op[d].type = "accept"
                   PROVE  <<op[d].peer, Who[d]>> \in Pair /\ friendships'[<<op[d].peer, Who[d]>>] # "none"
        BY <2>2 DEF HeldRowsStay
      <3>1. {Who[d], op[d].peer} # {i, j}
        BY <1>8 DEF Remove, Locked
      <3>2. <<op[d].peer, Who[d]>> \notin gone
        BY <3>1 DEF Both
      <3> QED BY <2>2, <3>2 DEF HeldRowsStay
    <2> QED BY <2>3, <2>4, <2>5
  <1>9. ASSUME NEW i \in Identity, DeleteIdentity(i)
        PROVE  FriendInv'
    <2> DEFINE gone == {p \in Pair : i \in {p[1], p[2]}}
    <2>1. /\ friendships' = [p \in Pair |-> IF p \in gone THEN "none" ELSE friendships[p]]
          /\ consent' = consent \ gone
          /\ identities' = identities \ {i}
          /\ UNCHANGED <<op, told>>
      BY <1>9 DEF DeleteIdentity, Without
    <2>2. TypeOK' /\ RequesterConsents'
      BY <2>1 DEF TypeOK, Status, RequesterConsents
    <2>3. FriendsConsented'
      <3> SUFFICES ASSUME NEW p \in Pair, friendships'[p] = "accepted"
                   PROVE  Both(p[1], p[2]) \subseteq consent'
        BY DEF FriendsConsented
      <3>1. p \notin gone /\ Both(p[1], p[2]) \subseteq consent
        BY <2>1 DEF FriendsConsented
      <3>2. Both(p[1], p[2]) \cap gone = {}
        BY <3>1 DEF Both, Pair
      <3> QED BY <2>1, <3>1, <3>2
    <2>4. HeldRowsStay'
      <3> SUFFICES ASSUME NEW d \in Conn, op[d].type = "accept"
                   PROVE  <<op[d].peer, Who[d]>> \in Pair /\ friendships'[<<op[d].peer, Who[d]>>] # "none"
        BY <2>1 DEF HeldRowsStay
      <3>1. Who[d] \in Identity /\ op[d].peer \in Identity
        BY DEF TypeOK, Handler, Idle
      <3>2. i # Who[d] /\ i # op[d].peer
        BY <1>9, <3>1 DEF DeleteIdentity, Locked
      <3> QED BY <2>1, <3>2 DEF HeldRowsStay
    <2> QED BY <2>2, <2>3, <2>4
  <1> QED BY <1>1, <1>2, <1>3, <1>4, <1>5, <1>6, <1>7, <1>8, <1>9 DEF Next

\* FriendInv is an inductive invariant of the friendships.
THEOREM FriendInvariant == Spec => []FriendInv
  <1>1. FriendInv /\ UNCHANGED vars => FriendInv'
    BY DEF FriendInv, TypeOK, RequesterConsents, FriendsConsented, HeldRowsStay, vars
  <1> QED BY FriendInit, FriendStep, <1>1, PTL DEF Spec

\* The rows of friendships and the transactions keep their types.
THEOREM FriendTyping == Spec => []TypeOK
  <1>1. FriendInv => TypeOK
    BY DEF FriendInv
  <1> QED BY <1>1, FriendInvariant, PTL

\* Nobody becomes a friend without having asked for or accepted it since the
\* last removal (requestFriend, acceptFriend, removeFriend).
THEOREM FriendsAlwaysConsented == Spec => []FriendsConsented
  BY FriendInvariant, PTL DEF FriendInv

\* Every friend_result with status accepted is true when it is computed.
THEOREM ToldIsStored == Spec => ToldWhatIsStored
  <1> DEFINE A == \A c \in Conn :
                     told'[c] # told[c] /\ told'[c].type = "accepted" =>
                       \E p \in Both(Who[c], told'[c].peer) : friendships'[p] = "accepted"
  <1>1. FriendInv /\ [Next]_vars => A
    <2> SUFFICES ASSUME FriendInv, [Next]_vars, NEW c \in Conn,
                        told'[c] # told[c], told'[c].type = "accepted"
                 PROVE  \E p \in Both(Who[c], told'[c].peer) : friendships'[p] = "accepted"
      OBVIOUS
    <2> USE FriendAssumption DEF FriendInv
    <2>1. CASE \E d \in Conn, j \in Identity : RequestAccepted(d, j)
      BY <2>1 DEF RequestAccepted, Tell, TypeOK
    <2>2. CASE \E d \in Conn, j \in Identity : Accept(d, j)
      <3>1. PICK d \in Conn, j \in Identity : Accept(d, j)
        BY <2>2
      <3>2. d = c /\ told'[c].peer = j
        BY <3>1 DEF Accept, Tell, TypeOK
      <3>3. <<j, Who[c]>> \in Pair /\ <<j, Who[c]>> \in Both(Who[c], j)
        BY <3>1, <3>2, PairOf DEF Accept, Both
      <3> QED BY <3>1, <3>2, <3>3 DEF Accept, TypeOK
    <2>3. CASE \E d \in Conn : AcceptReciprocal(d)
      <3>1. PICK d \in Conn : AcceptReciprocal(d)
        BY <2>3
      <3>2. d = c /\ told'[c].peer = op[c].peer
        BY <3>1 DEF AcceptReciprocal, Tell, TypeOK
      <3>3. <<op[c].peer, Who[c]>> \in Pair /\ friendships[<<op[c].peer, Who[c]>>] # "none"
        BY <3>1, <3>2 DEF AcceptReciprocal, HeldRowsStay
      <3> QED BY <3>1, <3>2, <3>3 DEF AcceptReciprocal, TypeOK, Both
    <2>4. CASE \E d \in Conn : InsertRequest(d)
      BY <2>4 DEF InsertRequest, Tell, TypeOK
    <2>5. CASE UNCHANGED told
      BY <2>5
    <2> QED BY <2>1, <2>2, <2>3, <2>4, <2>5
            DEF Next, vars, RequestNew, RequestReciprocal, InsertThrows, Remove, DeleteIdentity
  <1> QED BY <1>1, FriendInvariant, PTL DEF Spec, ToldWhatIsStored
-----------------------------------------------------------------------------
(***************************************************************************)
(* CommunityStore. Three parts of ForumInv are there for one property      *)
(* each. OfficialStands needs PublishedExist: a key refers to a topic that *)
(* is there, and a publisher holds the row it found. RecoveryWindow needs  *)
(* TakenHaveExpired and PurgesAreDeleted: what the retention job has taken *)
(* had expired, and stays so while the job holds it. ModerationIsObeyed    *)
(* needs BarredWait: a request that was forbidden has sent nothing yet.    *)
(***************************************************************************)

\* A request aims at what its operation is about; a sanction that was found stays.
AimsAreRight ==
  \A r \in Req : req[r].pc \in Waiting =>
    /\ req[r].at \in Target(req[r].op)
    /\ req[r].op = "revoke" => sanction[req[r].at] # NoRow

\* What has a day to be purged on is deleted, and nothing else is.
PurgesAreDeleted == \A w \in Row : Exists(w) => (table[w].deleted <=> table[w].purge # "never")

\* The retention job holds the rows it has deleted, and they expired.
TakenHaveExpired == \A w \in sweep.taken : w \in Row /\ Expired(w)

\* release_publications refers to topics that are there, and its publisher holds the row it found.
PublishedExist ==
  /\ \A k \in Key : official[k] # NoRow => Exists(official[k])
  /\ \A k \in Key : Held(k) => publishing = <<k, official[k]>>

\* Who is barred has sent nothing.
BarredWait == \A r \in barred : req[r].pc = "asked" /\ Forbidden(req[r])

ForumInv == /\ ForumTypeOK /\ AimsAreRight /\ PurgesAreDeleted /\ TakenHaveExpired
            /\ PublishedExist /\ OfficialStands /\ BarredWait

-----------------------------------------------------------------------------
\* Initially nothing is stored and nobody has asked.
LEMMA ForumInitial == ForumInit => ForumInv
  BY CommunityAssumption DEF ForumInit, ForumInv, ForumTypeOK, AimsAreRight, PurgesAreDeleted, TakenHaveExpired,
     PublishedExist, OfficialStands, BarredWait, Exists, Held, Quiet, Over, Ended, Waiting

\* What forbids a request refuses it when its statement begins.
LEMMA ForbiddenAreRefused ==
  ASSUME NEW q, Forbidden(q)
  PROVE  ~May(q)
  BY DEF Forbidden, May, MayWrite, MayReply, MayEdit, Open

\* Only a statement that was allowed has begun.
LEMMA OnlyAllowedBegin ==
  ASSUME ForumTypeOK, Jobs \/ \E r \in Req : Step(r)
  PROVE  \A r \in Req : req'[r].pc = "begun" =>
           req[r].pc = "begun" \/ (req[r].pc = "asked" /\ May(req[r]))
  <1>1. CASE Jobs
    BY <1>1 DEF Jobs, PublishBegin, UpdateOfficial, InsertOfficial, Publish, PublishFails, SweepBegin, SweepCommit,
       SweepFails, SweepRow, Lapse, Expire, ChangeRole
  <1>2. ASSUME NEW r \in Req, Step(r)
        PROVE  /\ \A x \in Req : x # r => req'[x] = req[x]
               /\ req'[r].pc = "begun" => req[r].pc = "asked" /\ May(req[r])
    <2>1. ASSUME NEW who \in Trainer, NEW o \in Op, NEW at \in Target(o), Ask(r, who, o, at)
          PROVE  (\A x \in Req : x # r => req'[x] = req[x]) /\ req'[r].pc = "asked"
      BY <2>1 DEF Ask, ForumTypeOK
    <2>2. ASSUME NEW answer \in Ended, Answers(r, answer)
          PROVE  (\A x \in Req : x # r => req'[x] = req[x]) /\ req'[r].pc # "begun"
      BY <2>2 DEF Answers, Over, Ended, ForumTypeOK
    <2>3. CASE Begin(r)
      BY <2>2, <2>3 DEF Begin, ForumTypeOK, Ended
    <2>4. CASE Missed(r) \/ Create(r) \/ Edit(r) \/ Delete(r) \/ Moderate(r) \/ Restore(r)
                 \/ Sentenced(r) \/ Revoke(r) \/ Throws(r)
      BY <2>2, <2>4 DEF Missed, Create, Edit, Delete, Moderate, Restore, Sentenced, Revoke, Throws, Ended
    <2> QED BY <1>2, <2>1, <2>3, <2>4 DEF Step
  <1> QED BY <1>1, <1>2

\* A request that is barred goes on being asked until it is refused.
LEMMA BarredStep ==
  ASSUME ForumTypeOK, BarredWait, ForumNext
  PROVE  BarredWait'
  <1>1. ASSUME NEW r \in barred'
        PROVE  r \in Req /\ Forbidden(req[r])' /\ (req[r].pc \in Waiting => r \in barred)
    BY <1>1 DEF ForumNext, StillBarred
  <1>2. ASSUME NEW r \in barred'
        PROVE  req'[r].pc # "begun"
    <2> SUFFICES ASSUME req'[r].pc = "begun" PROVE FALSE
      OBVIOUS
    <2>1. req[r].pc = "begun" \/ (req[r].pc = "asked" /\ May(req[r]))
      BY <1>1, <1>2, OnlyAllowedBegin DEF ForumNext
    <2>2. req[r].pc = "asked" /\ Forbidden(req[r])
      BY <1>1, <1>2, <2>1 DEF BarredWait, Waiting
    <2> QED BY <2>1, <2>2, ForbiddenAreRefused
  <1>3. ASSUME NEW r \in barred'
        PROVE  req'[r].pc \in {"asked", "begun"}
    BY <1>1, <1>3 DEF Forbidden
  <1> QED BY <1>1, <1>2, <1>3 DEF BarredWait

\* What the tables, the publisher and the retention job have to do with each other.
Tables == PurgesAreDeleted /\ TakenHaveExpired /\ PublishedExist /\ OfficialStands

\* It is about the rows, not about requests or sanctions.
LEMMA TablesStay ==
  ASSUME Tables, UNCHANGED <<table, official, publishing, sweep, up>>
  PROVE  Tables'
  BY DEF Tables, PurgesAreDeleted, TakenHaveExpired, PublishedExist, OfficialStands, Exists, Expired, Held, Stands

\* The types and aims of requests that are answered, and of the others.
RequestsOK == req \in [Req -> {Over(answer) : answer \in Ended} \cup Request] /\ AimsAreRight

\* No sanction is removed: a revoked one keeps its row.
SanctionsStay == \A s \in Sanction : sanction[s] # NoRow => sanction'[s] # NoRow

\* A request that is answered aims at nothing any more.
LEMMA AnsweredOK ==
  ASSUME RequestsOK, NEW r \in Req, NEW answer \in Ended, Answers(r, answer), SanctionsStay
  PROVE  RequestsOK'
  BY DEF RequestsOK, AimsAreRight, Answers, Over, Ended, Waiting, SanctionsStay, Target

\* A request that waits.
LEMMA WaitingOK ==
  ASSUME RequestsOK, NEW r \in Req, req[r].pc \in Waiting
  PROVE  /\ req[r] \in Request
         /\ req[r].at \in Target(req[r].op)
         /\ req[r].op = "revoke" => sanction[req[r].at] # NoRow
  BY DEF RequestsOK, AimsAreRight, Over, Ended, Waiting

\* Only the commit of the retention job makes rows vanish.
NothingIsPurged == \A w \in Row : table'[w] = Purged => table[w] = Purged

\* A row nobody holds is written: it keeps its place among the others, unless it
\* is official, up, and written as deleted.
LEMMA WritesOK ==
  ASSUME ForumTypeOK, Tables, NEW w \in Row, NEW content \in Content, Writes(w, content),
         Free(w), content.deleted <=> content.purge # "never",
         UNCHANGED <<official, publishing, sweep>>,
         up' \subseteq up, \A k \in up' : official[k] = w => ~content.deleted
  PROVE  Tables' /\ table' \in [Row -> {NoRow, Purged} \cup Content] /\ NothingIsPurged
  BY CommunityAssumption DEF ForumTypeOK, Tables, PurgesAreDeleted, TakenHaveExpired, PublishedExist, OfficialStands,
     Exists, Expired, Held, Stands, Writes, Free, NothingIsPurged

\* Every step of a request keeps the invariant.
LEMMA RequestStep ==
  ASSUME ForumTypeOK, RequestsOK, Tables, NEW r \in Req, Step(r), barred' \subseteq Req
  PROVE  ForumTypeOK' /\ RequestsOK' /\ Tables' /\ NothingIsPurged
  <1> USE CommunityAssumption DEF ForumTypeOK, SanctionsStay
  <1>1. ASSUME NEW who \in Trainer, NEW o \in Op, NEW at \in Target(o), Ask(r, who, o, at)
        PROVE  ForumTypeOK' /\ RequestsOK' /\ Tables' /\ NothingIsPurged
    <2>1. [pc |-> "asked", op |-> o, who |-> who, moderator |-> who \in moderators, at |-> at] \in Request
      BY DEF Request, Target, Waiting, Row
    <2>2. RequestsOK'
      BY <1>1, <2>1 DEF Ask, RequestsOK, AimsAreRight, Known, law, Target, Row
    <2> QED BY <1>1, <2>2, TablesStay DEF NothingIsPurged, Ask, forum, law, jobs, RequestsOK
  <1>2. CASE Begin(r)
    <2>1. CASE ~May(req[r])
      BY <1>2, <2>1, AnsweredOK, TablesStay DEF NothingIsPurged, Begin, Ended, forum, law, jobs, RequestsOK
    <2>2. CASE May(req[r])
      <3>1. req[r] \in Request /\ req[r].at \in Target(req[r].op)
        BY <1>2, WaitingOK DEF Begin, Waiting
      <3>2. /\ [req[r] EXCEPT !.pc = "begun"] \in Request
            /\ [req[r] EXCEPT !.pc = "begun"].op = req[r].op
            /\ [req[r] EXCEPT !.pc = "begun"].at = req[r].at
        BY <3>1 DEF Request, Waiting
      <3>3. req' = [req EXCEPT ![r] = [req[r] EXCEPT !.pc = "begun"]]
        BY <1>2, <2>2 DEF Begin
      <3>4. RequestsOK'
        BY <1>2, <3>1, <3>2, <3>3, WaitingOK DEF Begin, Waiting, RequestsOK, AimsAreRight, law
      <3> QED BY <1>2, <3>4, TablesStay DEF NothingIsPurged, Begin, forum, law, jobs, RequestsOK
    <2> QED BY <2>1, <2>2
  <1>3. CASE Missed(r) \/ Edit(r) \/ Throws(r)
    BY <1>3, AnsweredOK, TablesStay DEF NothingIsPurged, Missed, Edit, Throws, Ended, forum, law, jobs, RequestsOK
  <1> DEFINE q == req[r]
  <1>4. CASE Create(r)
    <2>1. q \in Request /\ q.at \in Target(q.op) /\ q.op \in {"topic", "reply"}
      BY <1>4, WaitingOK DEF Create, Reaches, Waiting
    <2>2. NewContent(q.who, q.at) \in Content
      BY <2>1 DEF NewContent, Content, Request, Target
    <2>3. PICK w \in Row : table[w] = NoRow /\ Writes(w, NewContent(q.who, q.at))
      BY <1>4 DEF Create, Row
    <2>4. Free(w)
      BY <2>3 DEF Free, Tables, TakenHaveExpired, Expired, Exists
    <2>5. Tables' /\ table' \in [Row -> {NoRow, Purged} \cup Content] /\ NothingIsPurged
      BY <1>4, <2>2, <2>3, <2>4, WritesOK DEF Create, jobs, NewContent
    <2> QED BY <1>4, <2>5, AnsweredOK DEF Create, Ended, law, jobs, RequestsOK
  <1>5. CASE Delete(r)
    <2>1. q \in Request /\ q.at \in Row /\ Stands(q.at) /\ Free(q.at)
      BY <1>5, WaitingOK DEF Delete, Reaches, Waiting, Target, Still
    <2>2. table[q.at] \in Content
      BY <2>1 DEF Stands, Exists
    <2>3. [table[q.at] EXCEPT !.deleted = TRUE, !.purge = "later"] \in Content
      BY <2>2 DEF Content
    <2>4. Tables' /\ table' \in [Row -> {NoRow, Purged} \cup Content] /\ NothingIsPurged
      BY <1>5, <2>1, <2>2, <2>3, WritesOK DEF Delete, jobs, Content
    <2> QED BY <1>5, <2>4, AnsweredOK DEF Delete, Ended, law, jobs, RequestsOK
  <1>6. CASE Moderate(r)
    <2>1. q \in Request /\ q.at \in Row /\ Exists(q.at) /\ Free(q.at)
      BY <1>6, WaitingOK DEF Moderate, Reaches, Waiting, Target, Still, Row
    <2>2. table[q.at] \in Content
      BY <2>1 DEF Exists
    <2>3. [table[q.at] EXCEPT !.locked = (q.op = "lock")] \in Content
      BY <2>2 DEF Content
    <2>4. \A k \in up : official[k] = q.at => ~table[q.at].deleted
      BY DEF Tables, OfficialStands, Stands
    <2>5. Tables' /\ table' \in [Row -> {NoRow, Purged} \cup Content] /\ NothingIsPurged
      BY <1>6, <2>1, <2>2, <2>3, <2>4, WritesOK DEF Moderate, jobs, Content, Tables, PurgesAreDeleted
    <2> QED BY <1>6, <2>5, AnsweredOK DEF Moderate, Ended, law, jobs, RequestsOK
  <1>7. CASE Restore(r)
    <2>1. q \in Request /\ q.at \in Row /\ Exists(q.at) /\ Free(q.at)
      BY <1>7, WaitingOK DEF Restore, Reaches, Waiting, Target, Still, Row
    <2>2. table[q.at] \in Content
      BY <2>1 DEF Exists
    <2>3. Restored(table[q.at]) \in Content /\ ~Restored(table[q.at]).deleted /\ Restored(table[q.at]).purge = "never"
      BY <2>2 DEF Content, Restored
    <2>4. Tables' /\ table' \in [Row -> {NoRow, Purged} \cup Content] /\ NothingIsPurged
      BY <1>7, <2>1, <2>2, <2>3, WritesOK DEF Restore, jobs
    <2> QED BY <1>7, <2>4, AnsweredOK DEF Restore, Ended, law, jobs, RequestsOK
  <1>8. CASE Sentenced(r)
    <2>1. q \in Request /\ q.at \in Topic /\ MaySanction(q)
      BY <1>8, WaitingOK DEF Sentenced, Reaches, Waiting, Target, Still
    <2>2. table[q.at].author \in Trainer
      BY <2>1 DEF MaySanction, Exists, Row, Content
    <2>3. sanction' \in [Sanction -> {NoRow} \cup Sentence]
      BY <1>8, <2>2 DEF Sentenced, Sentence
    <2>4. SanctionsStay
      BY <1>8, <2>2 DEF Sentenced, Sentence
    <2> QED BY <1>8, <2>3, <2>4, AnsweredOK, TablesStay DEF NothingIsPurged, Sentenced, Ended, forum, jobs, RequestsOK
  <1>9. CASE Revoke(r)
    <2>1. q.at \in Sanction /\ sanction[q.at] \in Sentence
      BY <1>9, WaitingOK DEF Revoke, Reaches, Waiting, Target
    <2>2. [sanction[q.at] EXCEPT !.revoked = TRUE] \in Sentence
      BY <2>1 DEF Sentence
    <2>3. sanction' = [sanction EXCEPT ![q.at] = [sanction[q.at] EXCEPT !.revoked = TRUE]]
      BY <1>9 DEF Revoke
    <2>4. SanctionsStay /\ sanction' \in [Sanction -> {NoRow} \cup Sentence]
      BY <2>1, <2>2, <2>3
    <2> QED BY <1>9, <2>4, AnsweredOK, TablesStay DEF NothingIsPurged, Revoke, Ended, forum, jobs, RequestsOK
  <1> QED BY <1>1, <1>2, <1>3, <1>4, <1>5, <1>6, <1>7, <1>8, <1>9 DEF Step

\* Every step of the jobs, of time and of roles keeps the invariant.
LEMMA JobStep ==
  ASSUME ForumTypeOK, RequestsOK, Tables, Jobs, barred' \subseteq Req
  PROVE  ForumTypeOK' /\ RequestsOK' /\ Tables' /\ (SweepCommit \/ NothingIsPurged)
  <1> USE CommunityAssumption DEF ForumTypeOK, NothingIsPurged
  <1>r. ASSUME UNCHANGED req, SanctionsStay
        PROVE  RequestsOK'
    BY <1>r DEF RequestsOK, AimsAreRight, SanctionsStay, Target, Request
  <1>1. ASSUME NEW k \in Key, PublishBegin(k)
        PROVE  ForumTypeOK' /\ RequestsOK' /\ Tables' /\ (SweepCommit \/ NothingIsPurged)
    BY <1>1, <1>r DEF PublishBegin, forum, law, SanctionsStay, RequestsOK, Tables, PurgesAreDeleted, TakenHaveExpired,
       PublishedExist, OfficialStands, Exists, Expired, Held, Stands
  <1>2. CASE UpdateOfficial
    <2>1. PICK k \in Key, t \in Topic : /\ publishing = <<k, t>> /\ Free(t)
                                        /\ Writes(t, Republished(table[t])) /\ Publish(k, t)
      BY <1>2 DEF UpdateOfficial
    <2>2. official[k] = t /\ Exists(t) /\ t \in Row
      BY <2>1 DEF Tables, PublishedExist, Held, Row
    <2>a. table[t] \in Content
      BY <2>2 DEF Exists
    <2>3. Republished(table[t]) \in Content /\ ~Republished(table[t]).deleted /\ Republished(table[t]).purge = "never"
      BY <2>a DEF Republished, Restored, Content
    <2>4. /\ table' \in [Row -> {NoRow, Purged} \cup Content]
          /\ table'[t] = Republished(table[t])
          /\ \A w \in Row : w # t => table'[w] = table[w]
          /\ official' = official
      BY <2>1, <2>2, <2>3 DEF Writes, Publish
    <2>5. PurgesAreDeleted' /\ TakenHaveExpired'
      BY <2>1, <2>2, <2>3, <2>4 DEF Tables, PurgesAreDeleted, TakenHaveExpired, Exists, Expired, Free, Publish
    <2>6. PublishedExist' /\ OfficialStands'
      BY <2>1, <2>2, <2>3, <2>4 DEF Tables, PublishedExist, OfficialStands, Exists, Stands, Held, Publish, Row
    <2> QED BY <1>r, <2>1, <2>2, <2>3, <2>4, <2>5, <2>6 DEF Publish, law, SanctionsStay, RequestsOK, Tables
  <1>3. CASE InsertOfficial
    <2>1. PICK k \in Key, t \in Topic : /\ publishing = <<k, NoRow>> /\ table[t] = NoRow
                                        /\ Writes(t, NewContent(Nobody, NoRow)) /\ Publish(k, t)
      BY <1>3 DEF InsertOfficial
    <2>2. NewContent(Nobody, NoRow) \in Content /\ t \in Row
      BY DEF NewContent, Content, Row
    <2>3. /\ table' \in [Row -> {NoRow, Purged} \cup Content]
          /\ table'[t] = NewContent(Nobody, NoRow)
          /\ \A w \in Row : w # t => table'[w] = table[w]
          /\ official' \in [Key -> {NoRow} \cup Topic] /\ official'[k] = t
          /\ \A l \in Key : l # k => official'[l] = official[l]
      BY <2>1, <2>2 DEF Writes, Publish
    <2>4. ~Exists(t)
      BY <2>1 DEF Exists
    <2>5. PurgesAreDeleted' /\ TakenHaveExpired'
      BY <2>1, <2>2, <2>3, <2>4 DEF Tables, PurgesAreDeleted, TakenHaveExpired, Exists, Expired, Publish, NewContent
    <2>a. table'[t] \notin {NoRow, Purged}
      BY <2>2, <2>3
    <2>b. ~table'[t].deleted
      BY <2>3 DEF NewContent
    <2>c. \A l \in Key : l # k /\ official[l] # NoRow => official'[l] # t
      BY <2>3, <2>4 DEF Tables, PublishedExist
    <2>6. /\ table'[t] \notin {NoRow, Purged} /\ ~table'[t].deleted
          /\ \A l \in Key : l # k /\ official[l] # NoRow => official'[l] # t
      BY <2>a, <2>b, <2>c
    <2>7. PublishedExist'
      BY <2>1, <2>3, <2>6 DEF Tables, PublishedExist, Exists, Held, Publish, Row
    <2>8. OfficialStands'
      BY <2>1, <2>3, <2>6 DEF Tables, OfficialStands, Exists, Stands, Publish, Row
    <2> QED BY <1>r, <2>1, <2>2, <2>3, <2>5, <2>7, <2>8 DEF Publish, law, SanctionsStay, RequestsOK, Tables
  <1>4. CASE PublishFails
    BY <1>4, <1>r DEF PublishFails, forum, law, SanctionsStay, RequestsOK, Tables, PurgesAreDeleted, TakenHaveExpired,
       PublishedExist, OfficialStands, Exists, Expired, Held, Stands
  <1>5. CASE SweepBegin
    <2>1. sweep' = [sweeping |-> TRUE, due |-> {w \in Row : Expired(w)}, taken |-> {}]
      BY <1>5 DEF SweepBegin, Quiet
    <2>2. UNCHANGED <<table, official, publishing, up, req, sanction, moderators>>
      BY <1>5 DEF SweepBegin, forum, law
    <2>3. ForumTypeOK'
      BY <2>1, <2>2
    <2>4. Tables'
      BY <2>1, <2>2 DEF Tables, PurgesAreDeleted, TakenHaveExpired, PublishedExist, OfficialStands, Exists, Held, Stands
    <2> QED BY <1>r, <2>2, <2>3, <2>4 DEF SanctionsStay, RequestsOK
  <1>6. ASSUME NEW w \in Row, SweepRow(w)
        PROVE  ForumTypeOK' /\ RequestsOK' /\ Tables' /\ (SweepCommit \/ NothingIsPurged)
    <2>1. /\ sweep' \in [sweeping : BOOLEAN, due : SUBSET Row, taken : SUBSET Row]
          /\ \A v \in sweep'.taken : v \in sweep.taken \/ (v = w /\ Expired(w))
      BY <1>6 DEF SweepRow, Deletable
    <2> QED BY <1>6, <1>r, <2>1 DEF SweepRow, forum, law, SanctionsStay, RequestsOK, Tables, PurgesAreDeleted, TakenHaveExpired,
               PublishedExist, OfficialStands, Exists, Expired, Held, Stands
  <1>7. CASE SweepCommit
    <2>1. /\ table' \in [Row -> {NoRow, Purged} \cup Content]
          /\ official' \in [Key -> {NoRow} \cup Topic]
          /\ sweep' = Quiet
      BY <1>7 DEF SweepCommit
    <2>2. \A w \in Row : Exists(w)' => table'[w] = table[w]
      BY <1>7 DEF SweepCommit, Exists
    <2>3. \A k \in Key : official'[k] # NoRow => official'[k] = official[k] /\ table'[official[k]] = table[official[k]]
      BY <1>7 DEF SweepCommit, Cascades, Row
    <2>4. \A k \in up : official[k] \notin sweep.taken
      BY DEF Tables, OfficialStands, Stands, TakenHaveExpired, PurgesAreDeleted, Expired
    <2>5. \A k \in up : official'[k] = official[k]
      BY <1>7, <2>4 DEF SweepCommit
    <2>a. UNCHANGED <<publishing, up>>
      BY <1>7 DEF SweepCommit
    <2>b. \A k \in Key : Held(k) => official'[k] = official[k]
      BY <1>7 DEF SweepCommit
    <2>c. \A k \in Key : official[k] # NoRow => official[k] \in Row
      BY DEF Row
    <2>6. PublishedExist' /\ OfficialStands'
      BY <2>1, <2>3, <2>5, <2>a, <2>b, <2>c DEF Tables, PublishedExist, OfficialStands, Exists, Stands, Held
    <2>7. PurgesAreDeleted' /\ TakenHaveExpired'
      BY <2>1, <2>2 DEF Tables, PurgesAreDeleted, TakenHaveExpired, Exists, Quiet
    <2> QED BY <1>7, <1>r, <2>1, <2>6, <2>7 DEF SweepCommit, Quiet, law, SanctionsStay, RequestsOK, Tables
  <1>8. CASE SweepFails
    BY <1>8, <1>r DEF SweepFails, Quiet, forum, law, SanctionsStay, RequestsOK, Tables, PurgesAreDeleted, TakenHaveExpired,
       PublishedExist, OfficialStands, Exists, Expired, Held, Stands
  <1>9. ASSUME NEW w \in Row, Lapse(w)
        PROVE  ForumTypeOK' /\ RequestsOK' /\ Tables' /\ (SweepCommit \/ NothingIsPurged)
    <2>1. table[w] \in Content /\ table[w].deleted /\ Free(w)
      BY <1>9 DEF Lapse, Exists, Tables, PurgesAreDeleted, TakenHaveExpired, Expired, Free
    <2>2. [table[w] EXCEPT !.purge = "due"] \in Content
      BY <2>1 DEF Content
    <2>3. \A k \in up : official[k] # w
      BY <2>1 DEF Tables, OfficialStands, Stands
    <2>4. Tables' /\ table' \in [Row -> {NoRow, Purged} \cup Content] /\ NothingIsPurged
      BY <1>9, <2>1, <2>2, <2>3, WritesOK DEF Lapse, jobs, Content
    <2> QED BY <1>9, <1>r, <2>4 DEF Lapse, law, jobs, SanctionsStay, RequestsOK
  <1>10. ASSUME NEW s \in Sanction, Expire(s)
         PROVE  ForumTypeOK' /\ RequestsOK' /\ Tables' /\ (SweepCommit \/ NothingIsPurged)
    <2>a. sanction[s] \in Sentence
      BY <1>10 DEF Expire, Active
    <2>1. [sanction[s] EXCEPT !.expired = TRUE] \in Sentence
      BY <2>a DEF Sentence
    <2>2. sanction' = [sanction EXCEPT ![s] = [sanction[s] EXCEPT !.expired = TRUE]]
      BY <1>10 DEF Expire
    <2>3. SanctionsStay /\ sanction' \in [Sanction -> {NoRow} \cup Sentence]
      BY <2>1, <2>2 DEF SanctionsStay
    <2> QED BY <1>10, <1>r, <2>3, TablesStay DEF Expire, forum, jobs, RequestsOK
  <1>11. ASSUME NEW who \in Trainer, ChangeRole(who)
         PROVE  ForumTypeOK' /\ RequestsOK' /\ Tables' /\ (SweepCommit \/ NothingIsPurged)
    BY <1>11, <1>r, TablesStay DEF ChangeRole, forum, jobs, SanctionsStay, RequestsOK
  <1> QED BY <1>1, <1>2, <1>3, <1>4, <1>5, <1>6, <1>7, <1>8, <1>9, <1>10, <1>11 DEF Jobs

\* The invariant is inductive.
LEMMA ForumStep ==
  ASSUME ForumInv, [ForumNext]_forumVars
  PROVE  ForumInv'
  <1>1. RequestsOK /\ Tables
    BY DEF ForumInv, RequestsOK, Tables, ForumTypeOK
  <1>2. CASE ForumNext
    <2>1. barred' \subseteq Req
      BY <1>2 DEF ForumNext, StillBarred
    <2>2. BarredWait'
      BY <1>2, BarredStep DEF ForumInv
    <2>3. ForumTypeOK' /\ RequestsOK' /\ Tables'
      BY <1>1, <1>2, <2>1, JobStep, RequestStep DEF ForumNext, ForumInv
    <2> QED BY <2>2, <2>3 DEF ForumInv, RequestsOK, Tables
  <1>3. CASE UNCHANGED forumVars
    <2>1. Tables'
      BY <1>1, <1>3, TablesStay DEF forumVars
    <2> QED BY <1>3, <2>1 DEF forumVars, ForumInv, Tables, ForumTypeOK, AimsAreRight, BarredWait, Forbidden, Silenced, Active,
               Stands, Exists
  <1> QED BY <1>2, <1>3

-----------------------------------------------------------------------------
\* What is proved of the forum, each for any number of requests, topics,
\* replies, sanctions and official keys.
LEMMA ForumInvariant == ForumSpec => []ForumInv
  <1>1. ForumInit => ForumInv
    BY ForumInitial
  <1>2. ForumInv /\ [ForumNext]_forumVars => ForumInv'
    BY ForumStep
  <1> QED BY <1>1, <1>2, PTL DEF ForumSpec

\* The tables hold what the schema lets them.
THEOREM ForumTyping == ForumSpec => []ForumTypeOK
  <1>1. ForumInv => ForumTypeOK
    BY DEF ForumInv
  <1> QED BY <1>1, ForumInvariant, PTL

\* An official topic stays up until a moderator deletes it, whatever the
\* retention job and other publishers do at the time.
THEOREM OfficialAlwaysStands == ForumSpec => []OfficialStands
  <1>1. ForumInv => OfficialStands
    BY DEF ForumInv
  <1> QED BY <1>1, ForumInvariant, PTL

\* A request forbidden since it was asked is never answered with success.
THEOREM ModerationAlwaysObeyed == ForumSpec => ModerationIsObeyed
  <1>1. ASSUME ForumInv, [ForumNext]_forumVars
        PROVE  [\A r \in barred : req'[r].pc # "ok"]_forumVars
    <2> SUFFICES ASSUME ForumNext, NEW r \in barred
                 PROVE  req'[r].pc # "ok"
      BY <1>1
    <2>1. r \in Req /\ req[r].pc = "asked" /\ ~May(req[r])
      BY <1>1, ForbiddenAreRefused DEF ForumInv, BarredWait, ForumTypeOK
    <2>2. CASE Jobs
      BY <2>1, <2>2 DEF Jobs, PublishBegin, UpdateOfficial, InsertOfficial, Publish, PublishFails, SweepBegin, SweepCommit,
         SweepFails, SweepRow, Lapse, Expire, ChangeRole
    <2>3. ASSUME NEW x \in Req, Step(x), x # r
          PROVE  req'[r] = req[r]
      BY <1>1, <2>1, <2>3 DEF Step, Ask, Begin, Missed, Create, Edit, Delete, Moderate, Restore, Sentenced, Revoke, Throws,
         Answers, ForumInv, ForumTypeOK
    <2>4. CASE Step(r)
      BY <1>1, <2>1, <2>4 DEF Step, Ask, Begin, Missed, Create, Edit, Delete, Moderate, Restore, Sentenced, Revoke, Throws,
         Reaches, Answers, Over, Ended, ForumInv, ForumTypeOK
    <2> QED BY <2>1, <2>2, <2>3, <2>4 DEF ForumNext
  <1> QED BY <1>1, ForumInvariant, PTL DEF ForumSpec, ModerationIsObeyed

\* Only what was deleted thirty days ago vanishes, alone or with its topic.
THEOREM OnlyExpiredVanish == ForumSpec => RecoveryWindow
  <1> DEFINE Lost(w) == Exists(w) /\ table'[w] = Purged
             Due(w) == ~Recoverable(w) \/ (w \in Post /\ ~Recoverable(table[w].topic))
  <1>1. ASSUME ForumInv, [ForumNext]_forumVars
        PROVE  [\A w \in Row : Lost(w) => Due(w)]_forumVars
    <2> SUFFICES ASSUME ForumNext, NEW w \in Row, Lost(w)
                 PROVE  Due(w)
      BY <1>1
    <2>1. table'[w] # table[w]
      BY DEF Exists
    <2>2. RequestsOK /\ Tables /\ barred' \subseteq Req
      BY <1>1 DEF ForumInv, RequestsOK, Tables, ForumTypeOK, ForumNext, StillBarred
    <2>3. CASE SweepCommit
      BY <1>1, <2>1, <2>3 DEF SweepCommit, Cascades, Recoverable, ForumInv, TakenHaveExpired, PurgesAreDeleted, Expired
    <2>4. CASE ~SweepCommit
      <3>1. NothingIsPurged
        BY <1>1, <2>2, <2>4, JobStep, RequestStep DEF ForumNext, ForumInv
      <3> QED BY <3>1 DEF NothingIsPurged, Exists
    <2> QED BY <2>3, <2>4
  <1> QED BY <1>1, ForumInvariant, PTL DEF ForumSpec, RecoveryWindow
=============================================================================
