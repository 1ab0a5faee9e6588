----------------------------- MODULE StatsStore -----------------------------
(***************************************************************************)
(* Statistics a device shares: PostgresStatsStore (server/src/             *)
(* stats-store.mjs) over device_stat_consent and leaderboard_entries of    *)
(* migrations/003_leaderboards.sql, for one identity, its credentials and  *)
(* one release.  A board is named by the field it comes from.  Credentials *)
(* are not revoked here, so the owner check of each operation succeeds:    *)
(* revocation is the subject of IdentityStore.                             *)
(*                                                                         *)
(* Every statement of a transaction is a step of its own under READ        *)
(* COMMITTED: it sees the rows committed when it begins, waits for the     *)
(* rows another transaction holds, and passes over those deleted           *)
(* meanwhile.  FOR UPDATE locks a row that is there, and nothing if none   *)
(* is.                                                                     *)
(***************************************************************************)
EXTENDS Integers, FiniteSets

CONSTANTS
  Req,         \* connections of the pool, one transaction each at a time
  Nobody,
  Cred,        \* device credentials of the identity
  Field,       \* what a device may share
  Watched,     \* the fields anomaly() has a limit for
  Consent,     \* not a field: <<c, Consent>> is the consent row of c
  NoRow,
  MaxScore,    \* the largest score normalizeSnapshot() lets in, by field
  Limit        \* the gain anomaly() lets pass within six hours

VARIABLES
  table,   \* the committed rows
  lock,    \* the transaction that holds a row
  draft,   \* what that transaction will commit for it
  pc,      \* the statement a transaction is at
  job,     \* its arguments
  todo,    \* rows that statement has still to reach
  late,    \* history: credentials with a snapshot stored behind a running delete
  stray    \* history: credentials such a delete has left entries for

vars == <<table, lock, draft, pc, job, todo, late, stray>>

NoScore == -1
EntryRow == Cred \X Field
ConsentRow == Cred \X {Consent}
Row == EntryRow \cup ConsentRow

\* pending_score is set exactly while review_status is 'under-review'; aged:
\* six hours have passed since updated_at
Entry == [score : Nat, pending : Nat \cup {NoScore}, aged : BOOLEAN]
\* the fields a consent row allows, none when it is not enabled
Consents == SUBSET Field

ASSUME StatsAssumption ==
  /\ Nobody \notin Req
  /\ Watched \subseteq Field
  /\ Consent \notin Field
  /\ \A fields \in SUBSET Field : fields # NoRow
  /\ MaxScore \in [Field -> Nat] /\ Limit \in Nat

Statement == {"idle", "upsert", "withdraw", "withdrawing", "purge", "purging",
              "purging_consents", "check", "store", "insert"}
NoJob == [creds |-> {}, fields |-> {}, claim |-> [f \in Field |-> 0]]
Job == [creds : SUBSET Cred, fields : SUBSET Field, claim : [Field -> Nat]]

Typed(rows) ==
  /\ rows = [w \in Row |-> rows[w]]
  /\ \A w \in EntryRow : rows[w] = NoRow \/ rows[w] \in Entry
  /\ \A w \in ConsentRow : rows[w] = NoRow \/ rows[w] \in Consents

TypeOK ==
  /\ Typed(table) /\ Typed(draft)
  /\ lock \in [Row -> Req \cup {Nobody}]
  /\ pc \in [Req -> Statement]
  /\ job \in [Req -> Job]
  /\ todo \in [Req -> SUBSET Row]
  /\ late \in [Req -> SUBSET Cred]
  /\ stray \in SUBSET Cred

Init ==
  /\ table = [w \in Row |-> NoRow]
  /\ lock = [w \in Row |-> Nobody]
  /\ draft = [w \in Row |-> NoRow]
  /\ pc = [r \in Req |-> "idle"]
  /\ job = [r \in Req |-> NoJob]
  /\ todo = [r \in Req |-> {}]
  /\ late = [r \in Req |-> {}]
  /\ stray = {}

history == <<late, stray>>

-----------------------------------------------------------------------------
(* PostgreSQL                                                              *)

Visible(w) == table[w] # NoRow
Free(r, w) == lock[w] \in {Nobody, r}
Busy(r) == pc[r] # "idle"

\* the statement leaves the row w locked, with this value to be committed
Writes(r, w, value) ==
  /\ lock' = [lock EXCEPT ![w] = r]
  /\ draft' = [draft EXCEPT ![w] = value]
  /\ UNCHANGED table

Ends(r) ==
  /\ lock' = [w \in Row |-> IF lock[w] = r THEN Nobody ELSE lock[w]]
  /\ draft' = [w \in Row |-> IF lock[w] = r THEN NoRow ELSE draft[w]]
  /\ pc' = [pc EXCEPT ![r] = "idle"]
  /\ job' = [job EXCEPT ![r] = NoJob]

Rollback(r) ==
  /\ Ends(r)
  /\ todo' = [todo EXCEPT ![r] = {}]
  /\ late' = [late EXCEPT ![r] = {}]
  /\ UNCHANGED <<table, stray>>

Deletes(q) == pc[q] \in {"withdrawing", "purging", "purging_consents"}
Dropped(r) == {w \in Row : lock[w] = r /\ draft[w] = NoRow}

\* COMMIT: a DELETE that waits for a row now gone passes over it
Commit(r) ==
  /\ Ends(r)
  /\ table' = [w \in Row |-> IF lock[w] = r THEN draft[w] ELSE table[w]]
  /\ todo' = [q \in Req |-> CASE q = r -> {}
                              [] q # r /\ Deletes(q) -> todo[q] \ Dropped(r)
                              [] OTHER -> todo[q]]

Begin(r, statement, arguments) ==
  /\ ~Busy(r)
  /\ pc' = [pc EXCEPT ![r] = statement]
  /\ job' = [job EXCEPT ![r] = arguments]
  /\ UNCHANGED <<table, lock, draft, todo, history>>

\* a DELETE sees the rows it will remove, and reaches them one at a time
StartsDelete(r, from, to, rows) ==
  /\ pc[r] = from
  /\ pc' = [pc EXCEPT ![r] = to]
  /\ todo' = [todo EXCEPT ![r] = {w \in rows : Visible(w)}]
  /\ UNCHANGED <<table, lock, draft, job, history>>

DeleteRow(r) ==
  /\ Deletes(r)
  /\ \E w \in todo[r] : /\ Free(r, w)
                        /\ Writes(r, w, NoRow)
                        /\ todo' = [todo EXCEPT ![r] = @ \ {w}]
  /\ UNCHANGED <<pc, job, history>>

-----------------------------------------------------------------------------
(* setConsent without deleteHistory                                        *)

SetConsent(r, c, fields) ==
  Begin(r, "upsert", [NoJob EXCEPT !.creds = {c}, !.fields = fields])

\* INSERT .. ON CONFLICT DO UPDATE waits for whoever holds or inserts the row
UpsertConsent(r) ==
  /\ pc[r] = "upsert"
  /\ \E c \in job[r].creds : /\ Free(r, <<c, Consent>>)
                             /\ Writes(r, <<c, Consent>>, job[r].fields)
  /\ pc' = [pc EXCEPT ![r] = "withdraw"]
  /\ UNCHANGED <<job, todo, history>>

\* (bug: the entries of a withdrawn field stay when another is still allowed)
WithdrawnWhenDisabled(r) == IF job[r].fields = {} THEN job[r].creds \X Field ELSE {}
\* one DELETE for every field not allowed; they are one statement here, for no
\* snapshot stores an entry while the consent row is locked
Withdrawn(r) == job[r].creds \X (Field \ job[r].fields)

Withdraw(r) == StartsDelete(r, "withdraw", "withdrawing", Withdrawn(r))

CommitConsent(r) ==
  /\ pc[r] = "withdrawing" /\ todo[r] = {}
  /\ Commit(r)
  /\ late' = [late EXCEPT ![r] = {}]
  /\ stray' = stray \ job[r].creds

-----------------------------------------------------------------------------
(* setConsent with deleteHistory, for one credential; deleteIdentityStats, *)
(* for all of them                                                         *)

Delete(r, creds) == Begin(r, "purge", [NoJob EXCEPT !.creds = creds])

PurgeEntries(r) == StartsDelete(r, "purge", "purging", job[r].creds \X Field)

PurgeConsents(r) ==
  /\ todo[r] = {}
  /\ StartsDelete(r, "purging", "purging_consents", job[r].creds \X {Consent})

CommitDelete(r) ==
  /\ pc[r] = "purging_consents" /\ todo[r] = {}
  /\ Commit(r)
  /\ late' = [late EXCEPT ![r] = {}]
  /\ stray' = (stray \ job[r].creds) \cup late[r]

-----------------------------------------------------------------------------
(* submitSnapshot                                                          *)

\* scores some snapshot of these fields may claim
Scores(fields) == UNION {0..MaxScore[f] : f \in fields}
Claims(fields) ==
  {s \in [Field -> Scores(fields)] : \A f \in Field : s[f] <= (IF f \in fields THEN MaxScore[f] ELSE 0)}

Submit(r, c, fields, claim) ==
  Begin(r, "check", [creds |-> {c}, fields |-> fields, claim |-> claim])

\* (bug: the consent row is read without FOR UPDATE)
ReadsConsent(r, c) == UNCHANGED <<table, lock, draft>>
LocksConsent(r, c) == /\ Free(r, <<c, Consent>>)
                      /\ Writes(r, <<c, Consent>>, table[<<c, Consent>>])

CheckConsent(r) ==
  /\ pc[r] = "check"
  /\ \E c \in job[r].creds : /\ Visible(<<c, Consent>>)
                             /\ job[r].fields \subseteq table[<<c, Consent>>]
                             /\ LocksConsent(r, c)
  /\ pc' = [pc EXCEPT ![r] = "store"]
  /\ UNCHANGED <<job, todo, history>>

Unconsented(r, c) ==
  Visible(<<c, Consent>>) =>
    Free(r, <<c, Consent>>) /\ ~(job[r].fields \subseteq table[<<c, Consent>>])

\* (bug: the early return forgets the ROLLBACK; the connection goes back to
\* the pool with its transaction open)
LeftOpen(r) ==
  /\ \E c \in job[r].creds : IF Visible(<<c, Consent>>) THEN LocksConsent(r, c)
                             ELSE UNCHANGED <<table, lock, draft>>
  /\ pc' = [pc EXCEPT ![r] = "idle"]
  /\ job' = [job EXCEPT ![r] = NoJob]
  /\ UNCHANGED <<todo, history>>
\* stats_consent_required, stats_field_not_consented
Refuses(r) == Rollback(r)

RefuseSnapshot(r) ==
  /\ pc[r] = "check"
  /\ \E c \in job[r].creds : Unconsented(r, c)
  /\ Refuses(r)

Larger(a, b) == IF a > b THEN a ELSE b

\* anomaly(): more than the limit within six hours
Suspicious(f, prior, score) == f \in Watched /\ ~prior.aged /\ score - prior.score > Limit

\* ON CONFLICT DO UPDATE, of a row the handler has read
Upserted(f, prior, score) ==
  IF Suspicious(f, prior, score)
  THEN [score |-> prior.score, pending |-> Larger(prior.pending, score), aged |-> FALSE]
  ELSE [score |-> Larger(prior.score, score), pending |-> prior.pending, aged |-> FALSE]

\* SELECT .. FOR UPDATE finds the entry and locks it; nothing waits for the upsert
StoreKnown(r) ==
  /\ pc[r] = "store"
  /\ \E c \in job[r].creds, f \in job[r].fields :
       /\ Visible(<<c, f>>) /\ Free(r, <<c, f>>)
       /\ Writes(r, <<c, f>>, Upserted(f, table[<<c, f>>], job[r].claim[f]))
       /\ job' = [job EXCEPT ![r].fields = @ \ {f}]
  /\ UNCHANGED <<pc, todo, history>>

\* it finds none and locks nothing; anomaly() has no prior score to compare
FindNone(r) ==
  /\ pc[r] = "store"
  /\ \E c \in job[r].creds, f \in job[r].fields :
       /\ ~Visible(<<c, f>>)
       /\ todo' = [todo EXCEPT ![r] = {<<c, f>>}]
       /\ job' = [job EXCEPT ![r].fields = @ \ {f}]
  /\ pc' = [pc EXCEPT ![r] = "insert"]
  /\ UNCHANGED <<table, lock, draft, history>>

\* the row may be there by now: ON CONFLICT
Accepted(w, score) ==
  IF Visible(w)
  THEN [score |-> Larger(table[w].score, score), pending |-> table[w].pending, aged |-> FALSE]
  ELSE [score |-> score, pending |-> NoScore, aged |-> FALSE]

InsertEntry(r) ==
  /\ pc[r] = "insert"
  /\ \E w \in todo[r] : Free(r, w) /\ Writes(r, w, Accepted(w, job[r].claim[w[2]]))
  /\ pc' = [pc EXCEPT ![r] = "store"]
  /\ todo' = [todo EXCEPT ![r] = {}]
  /\ UNCHANGED <<job, history>>

\* q has begun to delete the history of c and has not committed
Purging(q, c) == pc[q] \in {"purging", "purging_consents"} /\ c \in job[q].creds

CommitSnapshot(r) ==
  /\ pc[r] = "store" /\ job[r].fields = {}
  /\ Commit(r)
  /\ late' = [q \in Req |-> late[q] \cup {c \in job[r].creds : Purging(q, c)}]
  /\ UNCHANGED stray

-----------------------------------------------------------------------------
(* resolveReview by another identity: it locks one row, writes it and      *)
(* commits, and holds nothing another waits for meanwhile                  *)

AcceptedClaim(e) == [score |-> Larger(e.score, e.pending), pending |-> NoScore, aged |-> FALSE]
DismissedClaim(e) == [score |-> e.score, pending |-> NoScore, aged |-> FALSE]

UnderReview(w) == Visible(w) /\ table[w].pending # NoScore

Resolve(w) ==
  /\ lock[w] = Nobody /\ UnderReview(w)
  /\ \E row \in {AcceptedClaim(table[w]), DismissedClaim(table[w])} :
       table' = [table EXCEPT ![w] = row]
  /\ UNCHANGED <<lock, draft, pc, job, todo, history>>

\* six hours pass on a board with a limit; a transaction does not take that long
Age(w) ==
  /\ lock[w] = Nobody /\ Visible(w) /\ ~table[w].aged
  /\ table' = [table EXCEPT ![w].aged = TRUE]
  /\ UNCHANGED <<lock, draft, pc, job, todo, history>>

-----------------------------------------------------------------------------
(* Faults                                                                  *)

\* a statement throws and the handler rolls back
Fails(r) == Busy(r) /\ Rollback(r)

Needs(r) ==
  CASE pc[r] \in {"upsert", "check"} -> job[r].creds \X {Consent}
    [] pc[r] = "store" -> job[r].creds \X job[r].fields
    [] OTHER -> todo[r]

CanTake(r, w) == Free(r, w) \/ (pc[r] \in {"check", "store"} /\ ~Visible(w))

\* every transaction of S waits for another of S
DeadlockedSet(S) ==
  \A q \in S : /\ Needs(q) # {}
               /\ \A w \in Needs(q) : ~CanTake(q, w) /\ lock[w] \in S

\* PostgreSQL breaks the cycle by an error in one of them
BreakDeadlock(r) == (\E S \in SUBSET Req : r \in S /\ DeadlockedSet(S)) /\ Rollback(r)

-----------------------------------------------------------------------------
Step(r) ==
  \/ UpsertConsent(r) \/ Withdraw(r) \/ CommitConsent(r)
  \/ PurgeEntries(r) \/ PurgeConsents(r) \/ CommitDelete(r)
  \/ DeleteRow(r)
  \/ CheckConsent(r) \/ RefuseSnapshot(r)
  \/ StoreKnown(r) \/ FindNone(r) \/ InsertEntry(r) \/ CommitSnapshot(r)

Request(r) ==
  \/ \E c \in Cred, fields \in SUBSET Field : SetConsent(r, c, fields)
  \/ \E creds \in {Cred} \cup {{c} : c \in Cred} : Delete(r, creds)
  \/ \E c \in Cred, fields \in SUBSET Field \ {{}} :
       \E claim \in Claims(fields) : Submit(r, c, fields, claim)

Next ==
  \/ \E r \in Req : Request(r) \/ Step(r) \/ Fails(r) \/ BreakDeadlock(r)
  \/ \E w \in EntryRow : Resolve(w)
  \/ \E w \in Cred \X Watched : Age(w)

Spec == Init /\ [][Next]_vars

\* PostgreSQL queues those who wait for a row, and looks for deadlocks
Fairness == \A r \in Req : SF_vars(Step(r)) /\ WF_vars(BreakDeadlock(r))
FairSpec == Spec /\ Fairness

-----------------------------------------------------------------------------
(* A published entry is covered by what its device now consents to, in     *)
(* whatever order snapshots, withdrawals and deletes overlap.  The one     *)
(* exception: a delete in two statements misses the entries of a snapshot  *)
(* that commits behind it (lines 88-89, 167-169).                          *)
Covered(w) == Visible(<<w[1], Consent>>) /\ w[2] \in table[<<w[1], Consent>>]
EntriesAreConsented == \A w \in EntryRow : Visible(w) => Covered(w) \/ w[1] \in stray

(* No score rises by more than the limit within six hours but by the       *)
(* accept of a moderator, however snapshots of one device overlap: the     *)
(* lock on its consent is what keeps anomaly() from comparing with a row   *)
(* it has not seen (lines 108-120).                                        *)
JumpsAreReviewed ==
  [][\A w \in Cred \X Watched :
       Visible(w) /\ Visible(w)' /\ table'[w].score > table[w].score + Limit
         => table[w].aged \/ table[w].pending >= table'[w].score]_vars

(* What is published of an entry never falls while the entry exists: not   *)
(* by a claim under review, and not by the moderator's accept of one that  *)
(* later scores have passed (lines 120-126, 191-194).                      *)
ScoresNeverFall ==
  [][\A w \in EntryRow : Visible(w) /\ Visible(w)' => table'[w].score >= table[w].score]_vars

(* A snapshot, a consent or a delete always ends, whoever holds the rows   *)
(* it needs and in whatever order: no transaction keeps its locks.         *)
RequestsFinish == \A r \in Req : Busy(r) ~> ~Busy(r)
=============================================================================
