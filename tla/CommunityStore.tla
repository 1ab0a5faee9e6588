--------------------------- MODULE CommunityStore ---------------------------
(***************************************************************************)
(* The forum: PostgresCommunityStore (server/src/community-store.mjs) as   *)
(* web/community-app.mjs calls it, the publisher of official topics        *)
(* (server/tools/publish-releases.mjs) and the retention job               *)
(* (server/tools/retention.mjs), over migrations/002_community.sql and     *)
(* 004_release_publications.sql.                                           *)
(*                                                                         *)
(* A request reads its viewer, awaits its body, and sends its statement.   *)
(* The statement sees the tables as they are when it begins; when it       *)
(* reaches the row it writes, which another transaction may have held, it  *)
(* looks again at that row and at nothing else.  Boards are those every    *)
(* paired trainer reads; text, pins, defects, reports, subscriptions and   *)
(* the audit are left out.                                                 *)
(***************************************************************************)
EXTENDS Naturals

CONSTANTS
  Req,         \* requests to the web application
  Trainer,     \* identities with a browser session
  Moderators,  \* who is a moderator at the start
  Nobody,      \* the author of an official topic
  Topic, Post, \* ids, each used once
  Sanction,    \* ids, each used once
  Key,         \* keys of official topics
  NoRow, Purged,
  Op           \* what the requests of an instance may ask for

VARIABLES
  table,       \* forum_topics and forum_posts
  sanction,    \* identity_sanctions
  moderators,  \* identity_roles
  official,    \* topic of a key: release_publications
  publishing,  \* the publisher that has the advisory lock, and what it found
  sweep,       \* the DELETE of the retention job: rows to reach, rows deleted
  req,
  barred,      \* history: requests forbidden since they were asked
  up           \* history: keys published and not deleted since

forumVars == <<table, sanction, moderators, official, publishing, sweep, req, barred, up>>
forum == <<table, official, up>>
law == <<sanction, moderators>>
jobs == <<publishing, sweep>>

Row == Topic \cup Post
\* purge is purge_after: not set, later than now, or past; topic is of a post
Content == [author : Trainer \cup {Nobody}, topic : Topic \cup {NoRow}, locked : BOOLEAN,
            deleted : BOOLEAN, purge : {"never", "later", "due"}]
\* 'suspended' forbids what 'read-only' does
Sentence == [who : Trainer, kind : {"warning", "read-only"}, expired : BOOLEAN, revoked : BOOLEAN]

ASSUME CommunityAssumption ==
  /\ Topic \cap Post = {} /\ Sanction \cap (Topic \cup Post) = {}
  /\ Moderators \subseteq Trainer /\ Nobody \notin Trainer
  /\ {NoRow, Purged} \cap (Topic \cup Content \cup Sentence) = {}
  /\ NoRow \notin Key \X ({NoRow} \cup Topic)
  /\ Op \subseteq {"topic", "reply", "edit", "delete", "lock", "unlock", "restore", "sanction", "revoke"}

Ended == {"ok", "refused"}
Waiting == {"asked", "begun"}
Quiet == [sweeping |-> FALSE, due |-> {}, taken |-> {}]

\* who, moderator and at are only looked at while the request waits
Over(answer) == [pc |-> answer, op |-> "none", who |-> Nobody, moderator |-> FALSE, at |-> NoRow]

Request == [pc : Waiting, op : Op, who : Trainer, moderator : BOOLEAN,
            at : Row \cup Sanction \cup {NoRow}]

ForumTypeOK ==
  /\ table \in [Row -> {NoRow, Purged} \cup Content]
  /\ sanction \in [Sanction -> {NoRow} \cup Sentence]
  /\ moderators \subseteq Trainer
  /\ official \in [Key -> {NoRow} \cup Topic]
  /\ publishing \in {NoRow} \cup (Key \X ({NoRow} \cup Topic))
  /\ sweep \in [sweeping : BOOLEAN, due : SUBSET Row, taken : SUBSET Row]
  /\ req \in [Req -> {Over(answer) : answer \in Ended} \cup Request]
  /\ barred \subseteq Req /\ up \subseteq Key

ForumInit ==
  /\ table = [w \in Row |-> NoRow]
  /\ sanction = [s \in Sanction |-> NoRow]
  /\ moderators = Moderators
  /\ official = [k \in Key |-> NoRow]
  /\ publishing = NoRow
  /\ sweep = Quiet
  /\ req = [r \in Req |-> Over("ok")]
  /\ barred = {}
  /\ up = {}

-----------------------------------------------------------------------------
(* What a statement finds                                                  *)

Exists(w) == table[w] \notin {NoRow, Purged}
Stands(w) == Exists(w) /\ ~table[w].deleted
Free(w) == w \notin sweep.taken

Active(s) == sanction[s] # NoRow /\ ~sanction[s].expired /\ ~sanction[s].revoked
Silenced(who) == \E s \in Sanction : Active(s) /\ sanction[s].who = who /\ sanction[s].kind = "read-only"
Owns(q) == q.moderator \/ table[q.at].author = q.who
MayWrite(q) == q.moderator \/ ~Silenced(q.who)
Open(q, t) == q.moderator \/ ~table[t].locked

MayReply(q) == Stands(q.at) /\ Open(q, q.at) /\ MayWrite(q)

\* (bug: a sanction stops what is new, not what is changed)
MayEditOwn(q) == Stands(q.at) /\ Owns(q) /\ (q.at \in Post => Open(q, table[q.at].topic))
\* updateTopic does not ask for the lock, updateReply not whether the topic is deleted
MayEdit(q) == /\ Stands(q.at) /\ Owns(q) /\ MayWrite(q)
              /\ q.at \in Post => Open(q, table[q.at].topic)

MayRestore(q) == q.moderator /\ Exists(q.at) /\ table[q.at].deleted /\ table[q.at].purge = "later"

MaySanction(q) == Exists(q.at) /\ table[q.at].author \notin {Nobody, q.who}

May(q) ==
  \/ q.op = "topic" /\ MayWrite(q)
  \/ q.op = "reply" /\ MayReply(q)
  \/ q.op = "edit" /\ MayEdit(q)
  \/ q.op = "delete" /\ Stands(q.at) /\ Owns(q)
  \/ q.op \in {"lock", "unlock"} /\ q.moderator /\ Exists(q.at)
  \/ q.op = "restore" /\ MayRestore(q)
  \/ q.op = "sanction" /\ q.moderator
  \/ q.op = "revoke" /\ q.moderator /\ sanction[q.at] # NoRow /\ ~sanction[q.at].revoked

\* the row as the statement reaches it: the WHERE clause again, or the foreign key
Still(q) ==
  CASE q.op \in {"edit", "delete"} -> Stands(q.at)
    [] q.op \in {"reply", "lock", "unlock"} -> Exists(q.at)
    [] q.op = "restore" -> Exists(q.at) /\ table[q.at].deleted
    [] q.op = "sanction" -> MaySanction(q)
    [] q.op = "revoke" -> ~sanction[q.at].revoked
    [] OTHER -> TRUE

-----------------------------------------------------------------------------
(* Requests                                                                *)

Target(op) == CASE op = "topic" -> {NoRow}
                [] op \in {"reply", "lock", "unlock", "sanction"} -> Topic
                [] op = "revoke" -> Sanction
                [] OTHER -> Row
Known(w) == IF w \in Row THEN Exists(w) ELSE w \in Sanction => sanction[w] # NoRow

\* viewer(): the session and its roles, before the body is awaited
Ask(r, who, op, at) ==
  /\ req[r].pc \in Ended /\ Known(at)
  /\ req' = [req EXCEPT ![r] = [pc |-> "asked", op |-> op, who |-> who,
                                moderator |-> who \in moderators, at |-> at]]
  /\ UNCHANGED <<forum, law, jobs>>

Answers(r, answer) == req' = [req EXCEPT ![r] = Over(answer)]

Begin(r) ==
  /\ req[r].pc = "asked"
  /\ IF May(req[r]) THEN req' = [req EXCEPT ![r].pc = "begun"] ELSE Answers(r, "refused")
  /\ UNCHANGED <<forum, law, jobs>>

Writes(w, content) == table' = [table EXCEPT ![w] = content]
Reaches(r, ops) == req[r].pc = "begun" /\ req[r].op \in ops /\ Still(req[r])

Missed(r) ==
  /\ req[r].pc = "begun" /\ ~Still(req[r])
  /\ Answers(r, "refused")
  /\ UNCHANGED <<forum, law, jobs>>

NewContent(who, topic) ==
  [author |-> who, topic |-> topic, locked |-> FALSE, deleted |-> FALSE, purge |-> "never"]

\* createTopic, its transaction ends; createReply, with its foreign key on the topic
Create(r) ==
  /\ Reaches(r, {"topic", "reply"})
  /\ req[r].at \in Topic => Free(req[r].at)
  /\ \E w \in IF req[r].op = "topic" THEN Topic ELSE Post :
       table[w] = NoRow /\ Writes(w, NewContent(req[r].who, req[r].at))
  /\ Answers(r, "ok")
  /\ UNCHANGED <<official, up, law, jobs>>

Edit(r) ==
  /\ Reaches(r, {"edit"}) /\ Free(req[r].at)
  /\ Answers(r, "ok")
  /\ UNCHANGED <<forum, law, jobs>>

\* deleteTopic, deleteReply
Delete(r) ==
  /\ Reaches(r, {"delete"}) /\ Free(req[r].at)
  /\ Writes(req[r].at, [table[req[r].at] EXCEPT !.deleted = TRUE, !.purge = "later"])
  /\ up' = {k \in up : official[k] # req[r].at}
  /\ Answers(r, "ok")
  /\ UNCHANGED <<official, law, jobs>>

\* moderateTopic, with its audit row
Moderate(r) ==
  /\ Reaches(r, {"lock", "unlock"}) /\ Free(req[r].at)
  /\ Writes(req[r].at, [table[req[r].at] EXCEPT !.locked = (req[r].op = "lock")])
  /\ Answers(r, "ok")
  /\ UNCHANGED <<official, up, law, jobs>>

Restored(row) == [row EXCEPT !.deleted = FALSE, !.purge = "never"]

\* restoreTopic, restoreReply: the audit row is a transaction of its own, and
\* when that fails the answer is an error
Restore(r) ==
  /\ Reaches(r, {"restore"}) /\ Free(req[r].at)
  /\ Writes(req[r].at, Restored(table[req[r].at]))
  /\ \E answer \in Ended : Answers(r, answer)
  /\ UNCHANGED <<official, up, law, jobs>>

\* sanctionTopicAuthor, with its audit row
Sentenced(r) ==
  /\ Reaches(r, {"sanction"})
  /\ \E s \in Sanction, kind \in {"warning", "read-only"} :
       /\ sanction[s] = NoRow
       /\ sanction' = [sanction EXCEPT ![s] = [who |-> table[req[r].at].author, kind |-> kind,
                                               expired |-> FALSE, revoked |-> FALSE]]
  /\ Answers(r, "ok")
  /\ UNCHANGED <<forum, moderators, jobs>>

\* revokeSanction, audited like restoreTopic
Revoke(r) ==
  /\ Reaches(r, {"revoke"})
  /\ sanction' = [sanction EXCEPT ![req[r].at].revoked = TRUE]
  /\ \E answer \in Ended : Answers(r, answer)
  /\ UNCHANGED <<forum, moderators, jobs>>

\* a statement throws: internal_error
Throws(r) ==
  /\ req[r].pc = "begun"
  /\ Answers(r, "refused")
  /\ UNCHANGED <<forum, law, jobs>>

-----------------------------------------------------------------------------
(* The publisher: upsertOfficialRelease.  The advisory lock lets one in at *)
(* a time; the others have read nothing yet.                               *)

PublishBegin(k) ==
  /\ publishing = NoRow
  /\ publishing' = <<k, official[k]>>
  /\ UNCHANGED <<forum, law, sweep, req>>

Publish(k, t) ==
  /\ official' = [official EXCEPT ![k] = t]
  /\ up' = up \cup {k}
  /\ publishing' = NoRow
  /\ UNCHANGED <<law, sweep, req>>

\* (bug: an official topic that is there is only given its text)
SameState(row) == row
Republished(row) == Restored(row)

UpdateOfficial ==
  \E k \in Key, t \in Topic :
    /\ publishing = <<k, t>> /\ Free(t)
    /\ Writes(t, Republished(table[t]))
    /\ Publish(k, t)

InsertOfficial ==
  \E k \in Key, t \in Topic :
    /\ publishing = <<k, NoRow>> /\ table[t] = NoRow
    /\ Writes(t, NewContent(Nobody, NoRow))
    /\ Publish(k, t)

\* a statement throws, or PostgreSQL ends a deadlock with the retention job
PublishFails ==
  /\ publishing # NoRow
  /\ publishing' = NoRow
  /\ UNCHANGED <<forum, law, sweep, req>>

-----------------------------------------------------------------------------
(* The retention job: one statement, which reaches its rows one by one     *)

Expired(w) == Exists(w) /\ table[w].purge = "due"

SweepBegin ==
  /\ ~sweep.sweeping
  /\ sweep' = [Quiet EXCEPT !.sweeping = TRUE, !.due = {w \in Row : Expired(w)}]
  /\ UNCHANGED <<forum, law, publishing, req>>

\* (bug: the ids are selected first and deleted afterwards)
AsSelected(w) == Exists(w)
Deletable(w) == Expired(w)

SweepRow(w) ==
  /\ w \in sweep.due
  /\ sweep' = [sweep EXCEPT !.due = @ \ {w}, !.taken = IF Deletable(w) THEN @ \cup {w} ELSE @]
  /\ UNCHANGED <<forum, law, publishing, req>>

Held(k) == publishing # NoRow /\ publishing[1] = k
Cascades(w) == w \in Post /\ Exists(w) /\ table[w].topic \in sweep.taken

\* ON DELETE CASCADE takes the posts of a topic, and its publication unless a
\* publisher holds that row
SweepCommit ==
  /\ sweep.sweeping /\ sweep.due = {}
  /\ \A k \in Key : official[k] \in sweep.taken => ~Held(k)
  /\ table' = [w \in Row |-> IF w \in sweep.taken \/ Cascades(w) THEN Purged ELSE table[w]]
  /\ official' = [k \in Key |-> IF official[k] \in sweep.taken THEN NoRow ELSE official[k]]
  /\ sweep' = Quiet
  /\ UNCHANGED <<law, publishing, req, up>>

SweepFails ==
  /\ sweep.sweeping
  /\ sweep' = Quiet
  /\ UNCHANGED <<forum, law, publishing, req>>

-----------------------------------------------------------------------------
(* Time and roles                                                          *)

\* thirty days pass since a deletion; the moment may fall between any two steps
Lapse(w) ==
  /\ Exists(w) /\ table[w].purge = "later"
  /\ Writes(w, [table[w] EXCEPT !.purge = "due"])
  /\ UNCHANGED <<official, up, law, jobs, req>>

Expire(s) ==
  /\ Active(s)
  /\ sanction' = [sanction EXCEPT ![s].expired = TRUE]
  /\ UNCHANGED <<forum, moderators, jobs, req>>

\* assignRole, revokeRole
ChangeRole(who) ==
  /\ moderators' = IF who \in moderators THEN moderators \ {who} ELSE moderators \cup {who}
  /\ UNCHANGED <<forum, sanction, jobs, req>>

-----------------------------------------------------------------------------
\* a sanction, a lock or a deletion stands against what the request would write
Forbidden(q) ==
  /\ q.pc \in {"asked", "begun"} /\ ~q.moderator
  /\ \/ q.op \in {"topic", "reply", "edit"} /\ Silenced(q.who)
     \/ q.op = "reply" /\ (~Stands(q.at) \/ table[q.at].locked)
     \/ q.op = "edit" /\ ~Stands(q.at)
     \/ q.op = "edit" /\ q.at \in Post /\ Exists(q.at) /\ table[table[q.at].topic].locked

\* history: forbidden when asked, and ever since
StillBarred ==
  barred' = {r \in Req : Forbidden(req[r])' /\ (req[r].pc \in Waiting => r \in barred)}

Step(r) ==
  \/ \E who \in Trainer, op \in Op : \E at \in Target(op) : Ask(r, who, op, at)
  \/ Begin(r) \/ Missed(r) \/ Create(r) \/ Edit(r) \/ Delete(r) \/ Moderate(r)
  \/ Restore(r) \/ Sentenced(r) \/ Revoke(r) \/ Throws(r)

Jobs ==
  \/ \E k \in Key : PublishBegin(k)
  \/ UpdateOfficial \/ InsertOfficial \/ PublishFails
  \/ SweepBegin \/ SweepCommit \/ SweepFails
  \/ \E w \in Row : SweepRow(w) \/ Lapse(w)
  \/ \E s \in Sanction : Expire(s)
  \/ \E who \in Trainer : ChangeRole(who)

ForumNext == (Jobs \/ \E r \in Req : Step(r)) /\ StillBarred
ForumSpec == ForumInit /\ [][ForumNext]_forumVars

-----------------------------------------------------------------------------
(* A sanction, a lock or a deletion that was there when a request was      *)
(* asked, and stays, is obeyed: only requests already on their way write   *)
(* once more (lines 106-107, 266-267, 291-294, 311-313).                   *)
ModerationIsObeyed == [][\A r \in barred : req'[r].pc # "ok"]_forumVars

(* What vanishes was deleted thirty days ago, or its topic was, and is     *)
(* deleted still: a restore or a new publication that overlaps the         *)
(* retention job loses nothing (lines 425-449, retention.mjs:27-31).       *)
Recoverable(w) == ~(table[w].deleted /\ table[w].purge = "due")
RecoveryWindow ==
  [][\A w \in Row : Exists(w) /\ table'[w] = Purged =>
       ~Recoverable(w) \/ (w \in Post /\ ~Recoverable(table[w].topic))]_forumVars

(* What the publisher has put up stays up until a moderator deletes it:    *)
(* also when it was deleted before, and about to be purged (lines 135-142).*)
OfficialStands == \A k \in up : official[k] # NoRow /\ Stands(official[k])
=============================================================================
