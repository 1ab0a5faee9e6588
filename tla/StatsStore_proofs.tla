-------------------------- MODULE StatsStore_proofs --------------------------
(***************************************************************************)
(* Proofs about StatsStore for any number of devices, boards and           *)
(* transactions: what is published is consented to, large gains are        *)
(* reviewed, and scores do not fall.  The invariant says what each         *)
(* transaction holds at each of its statements.                            *)
(***************************************************************************)
EXTENDS StatsStore, TLAPS

\* A transaction holds rows of its own credentials only, and none before its
\* first write; what it has still to reach is its own too.
OwnRows(r) ==
  /\ \A w \in Row : lock[w] = r =>
        w[1] \in job[r].creds /\ pc[r] \notin {"idle", "upsert", "check", "purge"}
  /\ \A w \in todo[r] : w[1] \in job[r].creds
  /\ pc[r] \in {"idle", "upsert", "withdraw", "purge", "check", "store"} => todo[r] = {}
  /\ pc[r] \in {"upsert", "withdraw", "withdrawing", "check", "store", "insert"}
       => \E c \in Cred : job[r].creds = {c}

\* A draft of a snapshot is consented to, and within the limit of what it
\* will replace.
StoredWell(c, f) ==
  /\ f \in table[<<c, Consent>>]
  /\ draft[<<c, f>>] \in Entry
  /\ Visible(<<c, f>>) =>
       /\ draft[<<c, f>>].score >= table[<<c, f>>].score
       /\ f \in Watched /\ draft[<<c, f>>].score > table[<<c, f>>].score + Limit
            => table[<<c, f>>].aged

\* A snapshot holds the consent that covers what it stores.
SnapshotInv(r) ==
  pc[r] \in {"store", "insert"} =>
    \A c \in job[r].creds :
      /\ lock[<<c, Consent>>] = r
      /\ table[<<c, Consent>>] \in Consents
      /\ draft[<<c, Consent>>] = table[<<c, Consent>>]
      /\ job[r].fields \subseteq table[<<c, Consent>>]
      /\ \A f \in Field : lock[<<c, f>>] = r => StoredWell(c, f)
      /\ pc[r] = "insert" =>
           \A w \in todo[r] : \E f \in table[<<c, Consent>>] : w = <<c, f>> /\ ~Visible(w)

\* A withdrawal holds the consent it has written, and has removed or will
\* remove every entry it no longer allows.
WithdrawInv(r) ==
  pc[r] \in {"withdraw", "withdrawing"} =>
    \A c \in job[r].creds :
      /\ lock[<<c, Consent>>] = r /\ draft[<<c, Consent>>] = job[r].fields
      /\ \A f \in Field : lock[<<c, f>>] = r => draft[<<c, f>>] = NoRow
      /\ pc[r] = "withdrawing" =>
           /\ todo[r] \subseteq EntryRow
           /\ \A f \in Field \ job[r].fields :
                Visible(<<c, f>>) => <<c, f>> \in todo[r] \/ lock[<<c, f>>] = r

\* A delete has removed or will remove every entry but those of a snapshot
\* that committed behind it.
DeleteInv(r) ==
  pc[r] \in {"purging", "purging_consents"} =>
    /\ \A w \in Row : lock[w] = r => draft[w] = NoRow
    /\ \A c \in job[r].creds, f \in Field :
         Visible(<<c, f>>) => \/ pc[r] = "purging" /\ <<c, f>> \in todo[r]
                              \/ lock[<<c, f>>] = r
                              \/ c \in late[r]

Phase(r) == OwnRows(r) /\ SnapshotInv(r) /\ WithdrawInv(r) /\ DeleteInv(r)

StatsInv == TypeOK /\ EntriesAreConsented /\ \A r \in Req : Phase(r)

-----------------------------------------------------------------------------
\* Rows are pairs, and the consent row of a credential is not an entry.
LEMMA Rows ==
  /\ \A c \in Cred, f \in Field : <<c, f>> \in Row /\ <<c, f>> \in EntryRow /\ <<c, f>> \notin ConsentRow
  /\ \A c \in Cred : <<c, Consent>> \in Row /\ <<c, Consent>> \in ConsentRow /\ <<c, Consent>> \notin EntryRow
  /\ \A w \in EntryRow : w[1] \in Cred /\ w[2] \in Field /\ w = <<w[1], w[2]>> /\ w \in Row
  /\ \A w \in ConsentRow : w[1] \in Cred /\ w[2] = Consent /\ w = <<w[1], Consent>> /\ w \in Row
  /\ \A w \in Row : w \in EntryRow \/ w \in ConsentRow
  BY StatsAssumption DEF EntryRow, ConsentRow, Row

\* An entry that a transaction holds and will not remove is a snapshot's.
LEMMA DraftOfSnapshot ==
  ASSUME TypeOK, NEW r \in Req, Phase(r), NEW c \in Cred, NEW f \in Field,
         lock[<<c, f>>] = r, draft[<<c, f>>] # NoRow
  PROVE  pc[r] \in {"store", "insert"} /\ job[r].creds = {c} /\ lock[<<c, Consent>>] = r
  <1>1. c \in job[r].creds /\ pc[r] \notin {"idle", "upsert", "check", "purge"}
    BY Rows DEF Phase, OwnRows
  <1>2. pc[r] \notin {"purging", "purging_consents"}
    BY Rows DEF Phase, DeleteInv
  <1>3. pc[r] \notin {"withdraw", "withdrawing"}
    BY <1>1 DEF Phase, WithdrawInv
  <1>4. pc[r] \in {"store", "insert"}
    BY <1>1, <1>2, <1>3 DEF TypeOK, Statement
  <1> QED BY <1>1, <1>4 DEF Phase, SnapshotInv, OwnRows

\* A step of another transaction that commits nothing and takes none of q's
\* rows leaves q where it is.
LEMMA OthersKeep ==
  ASSUME TypeOK, NEW q \in Req, Phase(q), UNCHANGED table,
         pc'[q] = pc[q], job'[q] = job[q], todo'[q] = todo[q], late'[q] = late[q],
         \A w \in Row : /\ lock'[w] = q <=> lock[w] = q
                        /\ lock[w] = q => draft'[w] = draft[w]
  PROVE  Phase(q)'
  <1>1. OwnRows(q)'
    BY DEF Phase, OwnRows
  <1>2. SnapshotInv(q)'
    <2> SUFFICES ASSUME pc[q] \in {"store", "insert"}, NEW c \in job[q].creds
                 PROVE  /\ lock'[<<c, Consent>>] = q
                        /\ table[<<c, Consent>>] \in Consents
                        /\ draft'[<<c, Consent>>] = table[<<c, Consent>>]
                        /\ job[q].fields \subseteq table[<<c, Consent>>]
                        /\ \A f \in Field : lock'[<<c, f>>] = q => StoredWell(c, f)'
                        /\ pc[q] = "insert" =>
                             \A w \in todo[q] : \E f \in table[<<c, Consent>>] : w = <<c, f>> /\ ~Visible(w)
      BY DEF SnapshotInv, Visible
    <2>1. c \in Cred
      BY DEF TypeOK, Job
    <2>2. /\ lock[<<c, Consent>>] = q
          /\ table[<<c, Consent>>] \in Consents
          /\ draft[<<c, Consent>>] = table[<<c, Consent>>]
          /\ job[q].fields \subseteq table[<<c, Consent>>]
          /\ \A f \in Field : lock[<<c, f>>] = q => StoredWell(c, f)
          /\ pc[q] = "insert" =>
               \A w \in todo[q] : \E f \in table[<<c, Consent>>] : w = <<c, f>> /\ ~Visible(w)
      BY DEF Phase, SnapshotInv
    <2>3. lock'[<<c, Consent>>] = q /\ draft'[<<c, Consent>>] = table[<<c, Consent>>]
      BY <2>1, <2>2, Rows
    <2>4. ASSUME NEW f \in Field, lock'[<<c, f>>] = q PROVE StoredWell(c, f)'
      <3>1. lock[<<c, f>>] = q /\ draft'[<<c, f>>] = draft[<<c, f>>]
        BY <2>1, <2>4, Rows
      <3> QED BY <2>2, <3>1 DEF StoredWell, Visible
    <2> QED BY <2>2, <2>3, <2>4
  <1>3. WithdrawInv(q)'
    BY Rows DEF Phase, WithdrawInv, Visible, TypeOK, Job
  <1>4. DeleteInv(q)'
    BY Rows DEF Phase, DeleteInv, Visible, TypeOK, Job
  <1> QED BY <1>1, <1>2, <1>3, <1>4 DEF Phase

-----------------------------------------------------------------------------
\* Type correctness of what the actions are made of.

Fits(w, value) ==
  \/ value = NoRow
  \/ w \in EntryRow /\ value \in Entry
  \/ w \in ConsentRow /\ value \in Consents

\* A statement that locks a row and drafts a fitting value keeps the types of the rows.
LEMMA WritesType ==
  ASSUME TypeOK, NEW r \in Req, NEW w \in Row, NEW value, Fits(w, value), Writes(r, w, value)
  PROVE  Typed(table)' /\ Typed(draft)' /\ lock' \in [Row -> Req \cup {Nobody}]
  <1>1. w \in EntryRow => w \notin ConsentRow
    BY Rows
  <1> QED BY <1>1, Rows DEF TypeOK, Typed, Writes, Fits

\* The arguments of a connection that runs nothing are arguments.
LEMMA NoJobType == NoJob \in Job
  BY DEF NoJob, Job

\* The end of a transaction keeps the types of locks, drafts, statements and arguments.
LEMMA EndsType ==
  ASSUME TypeOK, NEW r \in Req, Ends(r)
  PROVE  /\ Typed(draft)' /\ lock' \in [Row -> Req \cup {Nobody}]
         /\ pc' \in [Req -> Statement] /\ job' \in [Req -> Job]
  <1>1. Typed(draft)'
    BY Rows DEF TypeOK, Typed, Ends
  <1>2. lock' \in [Row -> Req \cup {Nobody}]
    BY DEF TypeOK, Ends
  <1>3. pc' \in [Req -> Statement] /\ job' \in [Req -> Job]
    BY NoJobType DEF TypeOK, Ends, Statement
  <1> QED BY <1>1, <1>2, <1>3

\* A rollback keeps every type.
LEMMA RollbackType ==
  ASSUME TypeOK, NEW r \in Req, Rollback(r)
  PROVE  TypeOK'
  <1>1. todo' \in [Req -> SUBSET Row] /\ late' \in [Req -> SUBSET Cred]
    BY DEF TypeOK, Rollback
  <1>2. Typed(table)' /\ stray' \in SUBSET Cred
    BY DEF TypeOK, Rollback, Typed
  <1> QED BY <1>1, <1>2, EndsType DEF Rollback, TypeOK

\* A commit keeps every type: what it publishes are typed drafts.
LEMMA CommitType ==
  ASSUME TypeOK, NEW r \in Req, Commit(r),
         late' \in [Req -> SUBSET Cred], stray' \in SUBSET Cred
  PROVE  TypeOK'
  <1>1. Typed(table)'
    BY Rows DEF TypeOK, Typed, Commit
  <1>2. todo' \in [Req -> SUBSET Row]
    BY DEF TypeOK, Commit
  <1> QED BY <1>1, <1>2, EndsType DEF Commit, TypeOK

\* The first statement of a transaction keeps every type.
LEMMA BeginType ==
  ASSUME TypeOK, NEW r \in Req, NEW s \in Statement, NEW j \in Job, Begin(r, s, j)
  PROVE  TypeOK'
  BY DEF TypeOK, Typed, Begin, history

\* A DELETE that has found its rows keeps every type.
LEMMA StartsDeleteType ==
  ASSUME TypeOK, NEW r \in Req, NEW s \in Statement, NEW u \in Statement, NEW R \in SUBSET Row,
         StartsDelete(r, s, u, R)
  PROVE  TypeOK'
  BY DEF TypeOK, Typed, StartsDelete, history

\* A score that a snapshot stores, over a row or not, is an entry.
LEMMA StoredType ==
  ASSUME StatsAssumption, NEW f \in Field, NEW e \in Entry, NEW s \in Nat
  PROVE  /\ Upserted(f, e, s) \in Entry
         /\ Upserted(f, e, s).score >= e.score
         /\ f \in Watched /\ Upserted(f, e, s).score > e.score + Limit => e.aged
  <1>1. Larger(e.score, s) \in Nat /\ Larger(e.score, s) >= e.score
        /\ Larger(e.pending, s) \in Nat /\ (Larger(e.score, s) = e.score \/ Larger(e.score, s) = s)
    BY DEF Larger, Entry, NoScore
  <1>2. CASE Suspicious(f, e, s)
    BY <1>1, <1>2 DEF Upserted, Entry, StatsAssumption
  <1>3. CASE ~Suspicious(f, e, s)
    BY <1>1, <1>3 DEF Upserted, Entry, Suspicious, StatsAssumption
  <1> QED BY <1>2, <1>3

\* What the INSERT stores, over a row that appeared meanwhile or not, is an entry.
LEMMA AcceptedType ==
  ASSUME TypeOK, NEW w \in EntryRow, NEW s \in Nat
  PROVE  Accepted(w, s) \in Entry
  <1>1. CASE Visible(w)
    <2>1. table[w] \in Entry
      BY <1>1 DEF TypeOK, Typed, Visible
    <2> QED BY <1>1, <2>1 DEF Accepted, Entry, Larger
  <1>2. CASE ~Visible(w)
    BY <1>2 DEF Accepted, Entry
  <1> QED BY <1>1, <1>2

\* What a moderator leaves: an entry, whose score has not fallen and has risen
\* to the pending score if at all.
LEMMA ResolvedType ==
  ASSUME NEW e \in Entry, e.pending # NoScore,
         NEW row \in {AcceptedClaim(e), DismissedClaim(e)}
  PROVE  /\ row \in Entry
         /\ row.score >= e.score
         /\ row.score = e.score \/ row.score = e.pending
  <1>1. e.pending \in Nat /\ e.score \in Nat
    BY DEF Entry
  <1>2. CASE row = AcceptedClaim(e)
    BY <1>1, <1>2 DEF AcceptedClaim, Entry, Larger, NoScore
  <1>3. CASE row = DismissedClaim(e)
    BY <1>1, <1>3 DEF DismissedClaim, Entry, NoScore
  <1> QED BY <1>2, <1>3

-----------------------------------------------------------------------------
\* Steps that commit nothing: the tables stay, and it is enough to show the
\* phase of the transaction that moves.

OthersStay(r) ==
  \A q \in Req \ {r} : /\ pc'[q] = pc[q] /\ job'[q] = job[q]
                       /\ todo'[q] = todo[q] /\ late'[q] = late[q]

\* A step that commits nothing keeps the consent of what is published.
LEMMA SameTables ==
  ASSUME EntriesAreConsented, UNCHANGED <<table, stray>>
  PROVE  EntriesAreConsented'
  BY DEF EntriesAreConsented, Covered, Visible

\* A statement that takes a free row keeps the invariant if its own transaction
\* is in phase afterwards: the row was nobody else's.
LEMMA WritesInv ==
  ASSUME StatsInv, NEW r \in Req, NEW w \in Row, NEW value, Free(r, w), Writes(r, w, value),
         OthersStay(r), stray' = stray, TypeOK', Phase(r)'
  PROVE  StatsInv'
  <1>1. EntriesAreConsented'
    BY SameTables DEF StatsInv, Writes
  <1>2. ASSUME NEW q \in Req \ {r} PROVE Phase(q)'
    <2>1. \A v \in Row : /\ lock'[v] = q <=> lock[v] = q
                         /\ lock[v] = q => draft'[v] = draft[v]
      BY StatsAssumption DEF Writes, Free, StatsInv, TypeOK, Typed
    <2>2. UNCHANGED table
      BY DEF Writes
    <2> QED BY <2>1, <2>2, OthersKeep DEF StatsInv, OthersStay
  <1> QED BY <1>1, <1>2 DEF StatsInv

\* A step that touches no row keeps the invariant on the same condition.
LEMMA QuietInv ==
  ASSUME StatsInv, NEW r \in Req, UNCHANGED <<table, lock, draft, stray>>,
         OthersStay(r), TypeOK', Phase(r)'
  PROVE  StatsInv'
  <1>1. EntriesAreConsented'
    BY SameTables DEF StatsInv
  <1>2. ASSUME NEW q \in Req \ {r} PROVE Phase(q)'
    BY OthersKeep DEF StatsInv, OthersStay
  <1> QED BY <1>1, <1>2 DEF StatsInv

\* A transaction that is idle holds nothing and asks for nothing.
LEMMA IdlePhase ==
  ASSUME NEW r \in Req, pc[r] = "idle", todo[r] = {}, \A w \in Row : lock[w] # r
  PROVE  Phase(r)
  BY DEF Phase, OwnRows, SnapshotInv, WithdrawInv, DeleteInv

\* The end of a transaction leaves the statements, locks and drafts of the others.
LEMMA EndsOthers ==
  ASSUME TypeOK, NEW r \in Req, Ends(r), NEW q \in Req \ {r}
  PROVE  /\ pc'[q] = pc[q] /\ job'[q] = job[q]
         /\ \A w \in Row : /\ lock'[w] = q <=> lock[w] = q
                           /\ lock[w] = q => draft'[w] = draft[w]
  BY StatsAssumption DEF Ends, TypeOK

\* A transaction that has ended holds nothing, which is the phase of an idle one.
LEMMA EndsIdle ==
  ASSUME TypeOK, NEW r \in Req, Ends(r), todo'[r] = {}
  PROVE  Phase(r)'
  <1>1. pc'[r] = "idle" /\ \A w \in Row : lock'[w] # r
    BY StatsAssumption DEF Ends, TypeOK
  <1> QED BY <1>1 DEF Phase, OwnRows, SnapshotInv, WithdrawInv, DeleteInv

\* A rollback keeps the invariant, whichever statement failed.
LEMMA RollbackInv ==
  ASSUME StatsInv, NEW r \in Req, Rollback(r)
  PROVE  StatsInv'
  <1> USE DEF StatsInv
  <1>1. TypeOK'
    BY RollbackType
  <1>2. EntriesAreConsented'
    BY SameTables DEF Rollback
  <1>3. Phase(r)'
    BY EndsIdle DEF Rollback, TypeOK
  <1>4. ASSUME NEW q \in Req \ {r} PROVE Phase(q)'
    <2>1. todo'[q] = todo[q] /\ late'[q] = late[q] /\ UNCHANGED table
      BY DEF Rollback, TypeOK
    <2> QED BY <2>1, EndsOthers, OthersKeep DEF Rollback
  <1> QED BY <1>1, <1>2, <1>3, <1>4

\* A transaction that begins keeps the invariant: it holds nothing yet.
LEMMA BeginInv ==
  ASSUME StatsInv, NEW r \in Req, NEW s \in Statement, NEW j \in Job, Begin(r, s, j),
         s \in {"upsert", "purge", "check"},
         s # "purge" => \E c \in Cred : j.creds = {c}
  PROVE  StatsInv'
  <1> USE DEF StatsInv
  <1>1. TypeOK'
    BY BeginType
  <1>2. OthersStay(r)
    BY DEF OthersStay, Begin, history, TypeOK
  <1>3. pc'[r] = s /\ job'[r] = j /\ todo'[r] = todo[r] /\ UNCHANGED lock /\ pc[r] = "idle"
    BY DEF Begin, TypeOK, Busy
  <1>4. todo[r] = {}
    BY <1>3 DEF Phase, OwnRows
  <1>5. \A w \in Row : lock[w] # r
    BY <1>3 DEF Phase, OwnRows
  <1>6. Phase(r)'
    BY <1>3, <1>4, <1>5 DEF Phase, OwnRows, SnapshotInv, WithdrawInv, DeleteInv
  <1> QED BY <1>1, <1>2, <1>6, QuietInv DEF Begin, history

-----------------------------------------------------------------------------
\* The statements of a withdrawal and of a delete.

\* setConsent locks the consent row and drafts the new consent.
LEMMA UpsertInv ==
  ASSUME StatsInv, NEW r \in Req, UpsertConsent(r)
  PROVE  StatsInv'
  <1> USE DEF StatsInv
  <1>1. pc[r] = "upsert" /\ pc'[r] = "withdraw" /\ todo[r] = {} /\ todo'[r] = {} /\ job' = job
    BY DEF UpsertConsent, Phase, OwnRows, TypeOK
  <1>2. PICK c \in Cred : job[r].creds = {c}
    BY <1>1 DEF Phase, OwnRows
  <1>3. Free(r, <<c, Consent>>) /\ Writes(r, <<c, Consent>>, job[r].fields)
    BY <1>2 DEF UpsertConsent
  <1>4. Fits(<<c, Consent>>, job[r].fields)
    BY Rows DEF Fits, Consents, TypeOK, Job
  <1>5. TypeOK'
    <2>1. pc' \in [Req -> Statement] /\ UNCHANGED <<job, todo, late, stray>>
      BY DEF UpsertConsent, history, TypeOK, Statement
    <2> QED BY <1>3, <1>4, <2>1, Rows, WritesType DEF TypeOK
  <1>6. \A w \in Row : lock'[w] = r <=> w = <<c, Consent>>
    BY <1>1, <1>3, Rows DEF Phase, OwnRows, Writes, TypeOK
  <1>7. draft'[<<c, Consent>>] = job[r].fields
    BY <1>3, Rows DEF Writes, TypeOK, Typed
  <1>8. Phase(r)'
    <2>1. OwnRows(r)'
      BY <1>1, <1>2, <1>6 DEF OwnRows
    <2>2. WithdrawInv(r)'
      BY <1>1, <1>2, <1>6, <1>7, Rows DEF WithdrawInv
    <2> QED BY <1>1, <2>1, <2>2 DEF Phase, SnapshotInv, DeleteInv
  <1>9. OthersStay(r) /\ stray' = stray
    BY DEF OthersStay, UpsertConsent, history, TypeOK
  <1> QED BY <1>3, <1>5, <1>8, <1>9, Rows, WritesInv

\* Its DELETE sees every entry of a withdrawn field, for no snapshot of the device
\* can commit one while the consent row is locked.
LEMMA WithdrawStep ==
  ASSUME StatsInv, NEW r \in Req, Withdraw(r)
  PROVE  StatsInv'
  <1> USE DEF StatsInv
  <1>1. /\ pc[r] = "withdraw" /\ pc'[r] = "withdrawing" /\ UNCHANGED <<table, lock, draft, job>>
        /\ todo'[r] = {w \in Withdrawn(r) : Visible(w)}
    BY DEF Withdraw, StartsDelete, TypeOK
  <1>2. PICK c \in Cred : job[r].creds = {c}
    BY <1>1 DEF Phase, OwnRows
  <1>3. Withdrawn(r) \subseteq EntryRow /\ \A w \in Withdrawn(r) : w[1] = c
    BY <1>2 DEF Withdrawn, EntryRow
  <1>4. TypeOK'
    BY <1>3, StartsDeleteType DEF Withdraw, Statement, Row
  <1>5. \A f \in Field \ job[r].fields : Visible(<<c, f>>) => <<c, f>> \in todo'[r]
    BY <1>1, <1>2 DEF Withdrawn
  <1>6. OwnRows(r)'
    BY <1>1, <1>2, <1>3 DEF Phase, OwnRows
  <1>7. WithdrawInv(r)'
    <2>1. /\ lock[<<c, Consent>>] = r /\ draft[<<c, Consent>>] = job[r].fields
          /\ \A f \in Field : lock[<<c, f>>] = r => draft[<<c, f>>] = NoRow
      BY <1>1, <1>2 DEF Phase, WithdrawInv
    <2>2. todo'[r] \subseteq EntryRow
      BY <1>1, <1>3
    <2> QED BY <1>1, <1>2, <1>5, <2>1, <2>2 DEF WithdrawInv, Visible
  <1>8. Phase(r)'
    BY <1>1, <1>6, <1>7 DEF Phase, SnapshotInv, DeleteInv
  <1>9. OthersStay(r) /\ UNCHANGED <<table, lock, draft, stray>>
    BY DEF OthersStay, Withdraw, StartsDelete, history, TypeOK
  <1> QED BY <1>4, <1>8, <1>9, QuietInv

\* A delete of the history sees the entries there are when it begins.
LEMMA PurgeEntriesStep ==
  ASSUME StatsInv, NEW r \in Req, PurgeEntries(r)
  PROVE  StatsInv'
  <1> USE DEF StatsInv
  <1>1. /\ pc[r] = "purge" /\ pc'[r] = "purging" /\ UNCHANGED <<table, lock, draft, job>>
        /\ todo'[r] = {w \in job[r].creds \X Field : Visible(w)}
    BY DEF PurgeEntries, StartsDelete, TypeOK
  <1>2. job[r].creds \subseteq Cred
    BY DEF TypeOK, Job
  <1>3. TypeOK'
    <2>1. job[r].creds \X Field \subseteq Row
      BY <1>2 DEF Row, EntryRow
    <2> QED BY <2>1, StartsDeleteType DEF PurgeEntries, Statement
  <1>4. \A w \in Row : lock[w] # r
    BY <1>1 DEF Phase, OwnRows
  <1>5. OwnRows(r)'
    BY <1>1, <1>4 DEF OwnRows
  <1>6. DeleteInv(r)'
    BY <1>1, <1>4 DEF DeleteInv, Visible
  <1>7. Phase(r)'
    BY <1>1, <1>5, <1>6 DEF Phase, SnapshotInv, WithdrawInv
  <1>8. OthersStay(r) /\ UNCHANGED <<table, lock, draft, stray>>
    BY DEF OthersStay, PurgeEntries, StartsDelete, history, TypeOK
  <1> QED BY <1>3, <1>7, <1>8, QuietInv

\* When it has locked all of those it turns to the consent rows.
LEMMA PurgeConsentsStep ==
  ASSUME StatsInv, NEW r \in Req, PurgeConsents(r)
  PROVE  StatsInv'
  <1> USE DEF StatsInv
  <1>1. /\ pc[r] = "purging" /\ pc'[r] = "purging_consents" /\ todo[r] = {}
        /\ UNCHANGED <<table, lock, draft, job, late>>
        /\ todo'[r] = {w \in job[r].creds \X {Consent} : Visible(w)}
    BY DEF PurgeConsents, StartsDelete, TypeOK, history
  <1>2. job[r].creds \subseteq Cred
    BY DEF TypeOK, Job
  <1>3. TypeOK'
    <2>1. job[r].creds \X {Consent} \subseteq Row
      BY <1>2 DEF Row, ConsentRow
    <2> QED BY <2>1, StartsDeleteType DEF PurgeConsents, Statement
  <1>4. OwnRows(r)'
    BY <1>1 DEF Phase, OwnRows
  <1>5. DeleteInv(r)'
    BY <1>1 DEF Phase, DeleteInv, Visible
  <1>6. Phase(r)'
    BY <1>1, <1>4, <1>5 DEF Phase, SnapshotInv, WithdrawInv
  <1>7. OthersStay(r) /\ UNCHANGED <<table, lock, draft, stray>>
    BY DEF OthersStay, PurgeConsents, StartsDelete, history, TypeOK
  <1> QED BY <1>3, <1>6, <1>7, QuietInv

\* A DELETE that reaches a row locks it and drafts its removal.
LEMMA DeleteRowStep ==
  ASSUME StatsInv, NEW r \in Req, DeleteRow(r)
  PROVE  StatsInv'
  <1> USE DEF StatsInv
  <1>1. PICK w \in todo[r] : /\ Free(r, w) /\ Writes(r, w, NoRow)
                             /\ todo' = [todo EXCEPT ![r] = @ \ {w}]
    BY DEF DeleteRow
  <1>2. /\ pc[r] \in {"withdrawing", "purging", "purging_consents"} /\ w \in Row
        /\ UNCHANGED <<pc, job, late, stray, table>> /\ todo'[r] = todo[r] \ {w}
    BY <1>1 DEF DeleteRow, Deletes, history, TypeOK, Writes
  <1>3. TypeOK'
    <2>1. todo' \in [Req -> SUBSET Row]
      BY <1>1 DEF TypeOK
    <2> QED BY <1>1, <1>2, <2>1, WritesType DEF TypeOK, Fits
  <1>4. \A v \in Row : /\ lock'[v] = r <=> (lock[v] = r \/ v = w)
                       /\ draft'[v] = IF v = w THEN NoRow ELSE draft[v]
    BY <1>1, <1>2 DEF Writes, TypeOK, Typed
  <1>5. OwnRows(r)'
    BY <1>2, <1>4 DEF Phase, OwnRows
  <1>6. WithdrawInv(r)'
    <2> SUFFICES ASSUME pc[r] = "withdrawing", NEW c \in job[r].creds
                 PROVE  WithdrawInv(r)'
      BY <1>2 DEF WithdrawInv
    <2>1. c \in Cred /\ job[r].creds = {c}
      BY DEF Phase, OwnRows
    <2>2. w \in EntryRow
      BY <2>1 DEF Phase, WithdrawInv
    <2>3. w # <<c, Consent>>
      BY <2>1, <2>2, Rows
    <2>4. lock'[<<c, Consent>>] = r /\ draft'[<<c, Consent>>] = job[r].fields
      BY <1>4, <2>1, <2>3, Rows DEF Phase, WithdrawInv
    <2>c. \A f \in Field : <<c, f>> \in Row
      BY <2>1, Rows
    <2>a. \A f \in Field : lock[<<c, f>>] = r => draft[<<c, f>>] = NoRow
      BY <2>1 DEF Phase, WithdrawInv
    <2>b. \A f \in Field \ job[r].fields :
            Visible(<<c, f>>) => <<c, f>> \in todo[r] \/ lock[<<c, f>>] = r
      BY <2>1 DEF Phase, WithdrawInv
    <2>5. \A f \in Field : lock'[<<c, f>>] = r => draft'[<<c, f>>] = NoRow
      BY <1>4, <2>a, <2>c
    <2>6. todo'[r] \subseteq EntryRow
      BY <1>2, <2>1 DEF Phase, WithdrawInv
    <2>7. \A f \in Field \ job[r].fields :
             Visible(<<c, f>>)' => <<c, f>> \in todo'[r] \/ lock'[<<c, f>>] = r
      BY <1>2, <1>4, <2>c, <2>b DEF Visible
    <2> QED BY <1>2, <2>1, <2>4, <2>5, <2>6, <2>7 DEF WithdrawInv
  <1>7. DeleteInv(r)'
    <2> SUFFICES ASSUME pc[r] \in {"purging", "purging_consents"}
                 PROVE  DeleteInv(r)'
      BY <1>2 DEF DeleteInv
    <2>1. \A v \in Row : lock'[v] = r => draft'[v] = NoRow
      BY <1>4 DEF Phase, DeleteInv
    <2>2. \A c \in job[r].creds, f \in Field :
            Visible(<<c, f>>)' => \/ pc[r] = "purging" /\ <<c, f>> \in todo'[r]
                                  \/ lock'[<<c, f>>] = r
                                  \/ c \in late[r]
      BY <1>2, <1>4, Rows DEF Phase, DeleteInv, Visible, TypeOK, Job
    <2> QED BY <1>2, <2>1, <2>2 DEF DeleteInv
  <1>8. Phase(r)'
    BY <1>2, <1>5, <1>6, <1>7 DEF Phase, SnapshotInv
  <1>9. OthersStay(r) /\ stray' = stray
    BY <1>1, <1>2 DEF OthersStay, TypeOK
  <1> QED BY <1>1, <1>2, <1>3, <1>8, <1>9, WritesInv

-----------------------------------------------------------------------------
\* The statements of a snapshot.

\* submitSnapshot locks the consent row it has found and drafts it unchanged.
LEMMA CheckStep ==
  ASSUME StatsInv, NEW r \in Req, CheckConsent(r)
  PROVE  StatsInv'
  <1> USE DEF StatsInv
  <1>1. /\ pc[r] = "check" /\ pc'[r] = "store" /\ UNCHANGED <<job, todo, late, stray>>
        /\ todo[r] = {}
    BY DEF CheckConsent, history, TypeOK, Phase, OwnRows
  <1>2. PICK c \in Cred : job[r].creds = {c}
    BY <1>1 DEF Phase, OwnRows
  <1>3. /\ Visible(<<c, Consent>>) /\ job[r].fields \subseteq table[<<c, Consent>>]
        /\ Free(r, <<c, Consent>>) /\ Writes(r, <<c, Consent>>, table[<<c, Consent>>])
    BY <1>2 DEF CheckConsent, LocksConsent
  <1>4. table[<<c, Consent>>] \in Consents
    BY <1>3, Rows DEF TypeOK, Typed, Visible
  <1>5. TypeOK'
    <2>1. pc' \in [Req -> Statement]
      BY DEF CheckConsent, TypeOK, Statement
    <2> QED BY <1>1, <1>3, <1>4, <2>1, Rows, WritesType DEF TypeOK, Fits
  <1>6. \A w \in Row : lock'[w] = r <=> w = <<c, Consent>>
    BY <1>1, <1>3, Rows DEF Phase, OwnRows, Writes, TypeOK
  <1>7. draft'[<<c, Consent>>] = table[<<c, Consent>>] /\ UNCHANGED table
    BY <1>3, Rows DEF Writes, TypeOK, Typed
  <1>8. OwnRows(r)'
    BY <1>1, <1>2, <1>6 DEF OwnRows
  <1>9. SnapshotInv(r)'
    BY <1>1, <1>2, <1>3, <1>4, <1>6, <1>7, Rows DEF SnapshotInv
  <1>10. Phase(r)'
    BY <1>1, <1>8, <1>9 DEF Phase, WithdrawInv, DeleteInv
  <1>11. OthersStay(r)
    BY <1>1 DEF OthersStay, CheckConsent, TypeOK
  <1> QED BY <1>1, <1>3, <1>5, <1>10, <1>11, Rows, WritesInv

\* A snapshot that writes an entry it is consented to, well.
LEMMA StoreInv ==
  ASSUME StatsInv, NEW r \in Req, NEW c \in Cred, NEW f \in Field, NEW e \in Entry,
         pc[r] \in {"store", "insert"}, pc'[r] = "store", job[r].creds = {c},
         f \in table[<<c, Consent>>], Free(r, <<c, f>>), Writes(r, <<c, f>>, e),
         Visible(<<c, f>>) =>
           /\ e.score >= table[<<c, f>>].score
           /\ f \in Watched /\ e.score > table[<<c, f>>].score + Limit => table[<<c, f>>].aged,
         job'[r].creds = {c}, job'[r].fields \subseteq job[r].fields, todo'[r] = {},
         OthersStay(r), stray' = stray, TypeOK'
  PROVE  StatsInv'
  <1> USE DEF StatsInv
  <1>1. <<c, f>> \in Row /\ <<c, f>> # <<c, Consent>> /\ <<c, Consent>> \in Row
    BY Rows
  <1>2. \A v \in Row : /\ lock'[v] = r <=> (lock[v] = r \/ v = <<c, f>>)
                       /\ draft'[v] = IF v = <<c, f>> THEN e ELSE draft[v]
    BY <1>1 DEF Writes, TypeOK, Typed
  <1>3. OwnRows(r)'
    BY <1>2 DEF Phase, OwnRows
  <1>4. SnapshotInv(r)'
    <2>1. /\ lock[<<c, Consent>>] = r /\ table[<<c, Consent>>] \in Consents
          /\ draft[<<c, Consent>>] = table[<<c, Consent>>]
          /\ job[r].fields \subseteq table[<<c, Consent>>]
      BY DEF Phase, SnapshotInv
    <2>2. \A g \in Field : lock[<<c, g>>] = r => StoredWell(c, g)
      BY DEF Phase, SnapshotInv
    <2>3. UNCHANGED table
      BY DEF Writes
    <2>4. ASSUME NEW g \in Field, lock'[<<c, g>>] = r
          PROVE  StoredWell(c, g)'
      <3>1. CASE g = f
        BY <1>1, <1>2, <2>3, <3>1 DEF StoredWell, Visible
      <3>2. CASE g # f
        <4>1. <<c, g>> # <<c, f>> /\ <<c, g>> \in Row
          BY <3>2, Rows
        <4>2. lock[<<c, g>>] = r /\ draft'[<<c, g>>] = draft[<<c, g>>]
          BY <1>2, <2>4, <4>1
        <4> QED BY <2>2, <2>3, <4>2 DEF StoredWell, Visible
      <3> QED BY <3>1, <3>2
    <2>5. lock'[<<c, Consent>>] = r /\ draft'[<<c, Consent>>] = draft[<<c, Consent>>]
      BY <1>1, <1>2, <2>1
    <2> QED BY <2>1, <2>3, <2>4, <2>5 DEF SnapshotInv
  <1>5. Phase(r)'
    BY <1>3, <1>4 DEF Phase, WithdrawInv, DeleteInv
  <1> QED BY <1>1, <1>5, WritesInv

\* An entry that was there is locked, and drafted by the comparison with what is there.
LEMMA StoreKnownStep ==
  ASSUME StatsInv, NEW r \in Req, StoreKnown(r)
  PROVE  StatsInv'
  <1> USE DEF StatsInv
  <1>1. /\ pc[r] = "store" /\ pc'[r] = "store" /\ UNCHANGED <<pc, todo, late, stray>>
        /\ todo'[r] = {}
    BY DEF StoreKnown, history, TypeOK, Phase, OwnRows
  <1>2. PICK c \in Cred : job[r].creds = {c}
    BY <1>1 DEF Phase, OwnRows
  <1>3. PICK f \in job[r].fields :
          /\ Visible(<<c, f>>) /\ Free(r, <<c, f>>)
          /\ Writes(r, <<c, f>>, Upserted(f, table[<<c, f>>], job[r].claim[f]))
          /\ job' = [job EXCEPT ![r].fields = @ \ {f}]
    BY <1>2 DEF StoreKnown
  <1>4. f \in Field /\ job[r].claim[f] \in Nat /\ job[r] \in Job
    BY DEF TypeOK, Job
  <1>5. f \in table[<<c, Consent>>]
    BY <1>1, <1>2 DEF Phase, SnapshotInv
  <1>6. table[<<c, f>>] \in Entry
    BY <1>3, <1>4, Rows DEF TypeOK, Typed, Visible
  <1> DEFINE e == Upserted(f, table[<<c, f>>], job[r].claim[f])
  <1>7. /\ e \in Entry /\ e.score >= table[<<c, f>>].score
        /\ f \in Watched /\ e.score > table[<<c, f>>].score + Limit => table[<<c, f>>].aged
    BY <1>4, <1>6, StoredType, StatsAssumption
  <1>8. job' \in [Req -> Job] /\ job'[r].creds = {c} /\ job'[r].fields \subseteq job[r].fields
        /\ \A q \in Req \ {r} : job'[q] = job[q]
    BY <1>2, <1>3, <1>4 DEF TypeOK, Job
  <1>9. TypeOK'
    <2>1. Fits(<<c, f>>, e) /\ <<c, f>> \in Row
      BY <1>4, <1>7, Rows DEF Fits
    <2>2. Writes(r, <<c, f>>, e)
      BY <1>3
    <2> HIDE DEF e
    <2> QED BY <1>1, <1>8, <2>1, <2>2, WritesType DEF TypeOK
  <1>10. OthersStay(r)
    BY <1>1, <1>8 DEF OthersStay
  <1>11. Writes(r, <<c, f>>, e)
    BY <1>3
  <1> HIDE DEF e
  <1> QED BY <1>1, <1>2, <1>3, <1>4, <1>5, <1>7, <1>8, <1>9, <1>10, <1>11, StoreInv

\* An entry that was not there locks nothing; the consent row is still held.
LEMMA FindNoneStep ==
  ASSUME StatsInv, NEW r \in Req, FindNone(r)
  PROVE  StatsInv'
  <1> USE DEF StatsInv
  <1>1. pc[r] = "store" /\ pc'[r] = "insert" /\ UNCHANGED <<table, lock, draft, late, stray>>
    BY DEF FindNone, history, TypeOK
  <1>2. PICK c \in Cred : job[r].creds = {c}
    BY <1>1 DEF Phase, OwnRows
  <1>3. PICK f \in job[r].fields :
          /\ ~Visible(<<c, f>>) /\ todo' = [todo EXCEPT ![r] = {<<c, f>>}]
          /\ job' = [job EXCEPT ![r].fields = @ \ {f}]
    BY <1>2 DEF FindNone
  <1>4. f \in Field /\ job[r] \in Job /\ <<c, f>> \in Row
    BY Rows DEF TypeOK, Job
  <1>5. job' \in [Req -> Job] /\ job'[r].creds = {c} /\ job'[r].fields \subseteq job[r].fields
        /\ \A q \in Req \ {r} : job'[q] = job[q]
    BY <1>2, <1>3, <1>4 DEF TypeOK, Job
  <1>6. todo' \in [Req -> SUBSET Row] /\ todo'[r] = {<<c, f>>}
        /\ \A q \in Req \ {r} : todo'[q] = todo[q]
    BY <1>3, <1>4 DEF TypeOK
  <1>7. pc' \in [Req -> Statement] /\ \A q \in Req \ {r} : pc'[q] = pc[q]
    BY DEF FindNone, TypeOK, Statement
  <1>8. TypeOK'
    BY <1>1, <1>5, <1>6, <1>7 DEF TypeOK, Typed
  <1>9. OwnRows(r)'
    BY <1>1, <1>2, <1>5, <1>6 DEF Phase, OwnRows
  <1>10. SnapshotInv(r)'
    <2>1. /\ lock[<<c, Consent>>] = r /\ table[<<c, Consent>>] \in Consents
          /\ draft[<<c, Consent>>] = table[<<c, Consent>>]
          /\ job[r].fields \subseteq table[<<c, Consent>>]
          /\ \A g \in Field : lock[<<c, g>>] = r => StoredWell(c, g)
      BY <1>1, <1>2 DEF Phase, SnapshotInv
    <2>2. \A g \in Field : lock'[<<c, g>>] = r => StoredWell(c, g)'
      BY <1>1, <2>1 DEF StoredWell, Visible
    <2>3. \A w \in todo'[r] : \E g \in table[<<c, Consent>>] : w = <<c, g>> /\ ~Visible(w)'
      BY <1>1, <1>3, <1>6, <2>1 DEF Visible
    <2> QED BY <1>1, <1>5, <2>1, <2>2, <2>3 DEF SnapshotInv
  <1>11. Phase(r)'
    BY <1>1, <1>9, <1>10 DEF Phase, WithdrawInv, DeleteInv
  <1>12. OthersStay(r)
    BY <1>1, <1>5, <1>6, <1>7 DEF OthersStay
  <1> QED BY <1>1, <1>8, <1>11, <1>12, QuietInv

\* The INSERT finds the row still absent, or compares with nothing: the lock on the
\* consent row has kept every other snapshot of the device away.
LEMMA InsertStep ==
  ASSUME StatsInv, NEW r \in Req, InsertEntry(r)
  PROVE  StatsInv'
  <1> USE DEF StatsInv
  <1>1. /\ pc[r] = "insert" /\ pc'[r] = "store" /\ UNCHANGED <<job, late, stray>> /\ todo'[r] = {}
        /\ pc' \in [Req -> Statement] /\ todo' \in [Req -> SUBSET Row]
        /\ \A q \in Req \ {r} : pc'[q] = pc[q] /\ todo'[q] = todo[q]
    BY DEF InsertEntry, history, TypeOK, Statement
  <1>2. PICK c \in Cred : job[r].creds = {c}
    BY <1>1 DEF Phase, OwnRows
  <1>3. PICK w \in todo[r] : Free(r, w) /\ Writes(r, w, Accepted(w, job[r].claim[w[2]]))
    BY DEF InsertEntry
  <1>4. PICK f \in table[<<c, Consent>>] : w = <<c, f>> /\ ~Visible(w)
    BY <1>1, <1>2, <1>3 DEF Phase, SnapshotInv
  <1>5. f \in Field
    BY <1>1, <1>2, <1>4 DEF Phase, SnapshotInv, Consents
  <1>6. w \in EntryRow /\ w[2] = f /\ w \in Row
    BY <1>4, <1>5, Rows
  <1>7. job[r].claim[f] \in Nat
    BY <1>5 DEF TypeOK, Job
  <1> DEFINE e == Accepted(w, job[r].claim[w[2]])
  <1>8. e \in Entry /\ Writes(r, <<c, f>>, e)
    BY <1>3, <1>4, <1>6, <1>7, AcceptedType
  <1> HIDE DEF e
  <1>9. TypeOK'
    <2>1. Fits(<<c, f>>, e)
      BY <1>4, <1>6, <1>8 DEF Fits
    <2> QED BY <1>1, <1>4, <1>6, <1>8, <2>1, WritesType DEF TypeOK
  <1>10. OthersStay(r)
    BY <1>1 DEF OthersStay
  <1> QED BY <1>1, <1>2, <1>3, <1>4, <1>5, <1>8, <1>9, <1>10, StoreInv

-----------------------------------------------------------------------------
\* COMMIT.

\* What a commit leaves in the tables.
LEMMA Committed ==
  ASSUME TypeOK, NEW r \in Req, Commit(r)
  PROVE  \A w \in Row : table'[w] = IF lock[w] = r THEN draft[w] ELSE table[w]
  BY DEF Commit

\* A commit leaves every other transaction where it is, if deletes that are
\* under way take note of the entries of a snapshot.
LEMMA CommitOthers ==
  ASSUME StatsInv, NEW r \in Req, Commit(r), NEW q \in Req \ {r},
         late[q] \subseteq late'[q],
         pc[r] \in {"store", "insert"} =>
           \A c \in job[r].creds : Purging(q, c) => c \in late'[q]
  PROVE  Phase(q)'
  <1> USE DEF StatsInv
  <1>1. /\ pc'[q] = pc[q] /\ job'[q] = job[q]
        /\ \A w \in Row : /\ lock'[w] = q <=> lock[w] = q
                          /\ lock[w] = q => draft'[w] = draft[w]
    BY EndsOthers DEF Commit
  <1>2. \A w \in Row : table'[w] = IF lock[w] = r THEN draft[w] ELSE table[w]
    BY Committed
  <1>3. todo'[q] = IF Deletes(q) THEN todo[q] \ Dropped(r) ELSE todo[q]
    BY DEF Commit
  <1>4. ASSUME NEW c \in Cred, NEW f \in Field, Visible(<<c, f>>)', ~Visible(<<c, f>>)
        PROVE  /\ pc[r] \in {"store", "insert"} /\ c \in job[r].creds
               /\ lock[<<c, Consent>>] = r
    <2>1. lock[<<c, f>>] = r /\ draft[<<c, f>>] # NoRow
      BY <1>2, <1>4, Rows DEF Visible
    <2> QED BY <2>1, DraftOfSnapshot
  <1>5. OwnRows(q)'
    BY <1>1, <1>3 DEF Phase, OwnRows
  <1>6. SnapshotInv(q)'
    <2> SUFFICES ASSUME pc[q] \in {"store", "insert"}, NEW c \in job[q].creds
                 PROVE  SnapshotInv(q)'
      BY <1>1 DEF SnapshotInv
    <2>1. c \in Cred /\ job[q].creds = {c}
      BY DEF Phase, OwnRows
    <2>2. /\ lock[<<c, Consent>>] = q /\ table[<<c, Consent>>] \in Consents
          /\ draft[<<c, Consent>>] = table[<<c, Consent>>]
          /\ job[q].fields \subseteq table[<<c, Consent>>]
      BY DEF Phase, SnapshotInv
    <2>3. \A f \in Field : lock[<<c, f>>] = q => StoredWell(c, f)
      BY DEF Phase, SnapshotInv
    <2>4. <<c, Consent>> \in Row /\ table'[<<c, Consent>>] = table[<<c, Consent>>]
      BY <1>2, <2>1, <2>2, Rows
    <2>5. ASSUME NEW f \in Field, lock'[<<c, f>>] = q
          PROVE  StoredWell(c, f)'
      <3>1. <<c, f>> \in Row
        BY <2>1, Rows
      <3>2. lock[<<c, f>>] = q /\ draft'[<<c, f>>] = draft[<<c, f>>]
            /\ table'[<<c, f>>] = table[<<c, f>>]
        BY <1>1, <1>2, <2>5, <3>1
      <3> QED BY <2>3, <2>4, <3>2 DEF StoredWell, Visible
    <2>6. todo'[q] = todo[q]
      BY <1>3 DEF Deletes
    <2>7. ASSUME pc[q] = "insert", NEW w \in todo[q]
          PROVE  \E f \in table'[<<c, Consent>>] : w = <<c, f>> /\ ~Visible(w)'
      <3>1. PICK f \in table[<<c, Consent>>] : w = <<c, f>> /\ ~Visible(w)
        BY <2>7 DEF Phase, SnapshotInv
      <3>2. f \in Field
        BY <2>2 DEF Consents
      <3>3. ~Visible(<<c, f>>)'
        BY <1>4, <2>1, <2>2, <3>1, <3>2
      <3> QED BY <2>4, <3>1, <3>3
    <2>8. lock'[<<c, Consent>>] = q /\ draft'[<<c, Consent>>] = table'[<<c, Consent>>]
      BY <1>1, <2>2, <2>4
    <2> QED BY <1>1, <2>1, <2>2, <2>4, <2>5, <2>6, <2>7, <2>8 DEF SnapshotInv
  <1>7. WithdrawInv(q)'
    <2> SUFFICES ASSUME pc[q] \in {"withdraw", "withdrawing"}, NEW c \in job[q].creds
                 PROVE  WithdrawInv(q)'
      BY <1>1 DEF WithdrawInv
    <2>1. c \in Cred /\ job[q].creds = {c}
      BY DEF Phase, OwnRows
    <2>2. lock[<<c, Consent>>] = q /\ draft[<<c, Consent>>] = job[q].fields
      BY DEF Phase, WithdrawInv
    <2>3. \A f \in Field : lock[<<c, f>>] = q => draft[<<c, f>>] = NoRow
      BY DEF Phase, WithdrawInv
    <2>4. lock'[<<c, Consent>>] = q /\ draft'[<<c, Consent>>] = job[q].fields
      BY <1>1, <2>1, <2>2, Rows
    <2>5. ASSUME NEW f \in Field PROVE lock'[<<c, f>>] = q => draft'[<<c, f>>] = NoRow
      <3>1. <<c, f>> \in Row
        BY <2>1, Rows
      <3> QED BY <1>1, <2>3, <3>1
    <2>6. ASSUME pc[q] = "withdrawing"
          PROVE  /\ todo'[q] \subseteq EntryRow
                 /\ \A f \in Field \ job[q].fields :
                      Visible(<<c, f>>)' => <<c, f>> \in todo'[q] \/ lock'[<<c, f>>] = q
      <3>1. todo'[q] = todo[q] \ Dropped(r)
        BY <1>3, <2>6 DEF Deletes
      <3>2. todo[q] \subseteq EntryRow
        BY <2>6 DEF Phase, WithdrawInv
      <3>3. ASSUME NEW f \in Field \ job[q].fields, Visible(<<c, f>>)'
            PROVE  <<c, f>> \in todo'[q] \/ lock'[<<c, f>>] = q
        <4>1. Visible(<<c, f>>)
          BY <1>4, <2>1, <2>2, <3>3
        <4>2. <<c, f>> \in todo[q] \/ lock[<<c, f>>] = q
          <5>1. \A g \in Field \ job[q].fields : Visible(<<c, g>>) => <<c, g>> \in todo[q] \/ lock[<<c, g>>] = q
            BY <2>6 DEF Phase, WithdrawInv
          <5> QED BY <3>3, <4>1, <5>1
        <4>3. <<c, f>> \notin Dropped(r)
          BY <1>2, <3>3 DEF Dropped, Visible
        <4> QED BY <1>1, <2>1, <3>1, <4>2, <4>3, Rows
      <3> QED BY <3>1, <3>2, <3>3
    <2> QED BY <1>1, <2>1, <2>4, <2>5, <2>6 DEF WithdrawInv
  <1>8. DeleteInv(q)'
    <2> SUFFICES ASSUME pc[q] \in {"purging", "purging_consents"}
                 PROVE  DeleteInv(q)'
      BY <1>1 DEF DeleteInv
    <2>1. \A w \in Row : lock'[w] = q => draft'[w] = NoRow
      BY <1>1 DEF Phase, DeleteInv
    <2>2. todo'[q] = todo[q] \ Dropped(r)
      BY <1>3 DEF Deletes
    <2>3. ASSUME NEW c \in job[q].creds, NEW f \in Field, Visible(<<c, f>>)'
          PROVE  \/ pc[q] = "purging" /\ <<c, f>> \in todo'[q]
                 \/ lock'[<<c, f>>] = q
                 \/ c \in late'[q]
      <3>1. c \in Cred
        BY DEF TypeOK, Job
      <3>2. CASE ~Visible(<<c, f>>)
        BY <1>4, <2>3, <3>1, <3>2 DEF Purging
      <3>3. CASE Visible(<<c, f>>)
        <4>1. \/ pc[q] = "purging" /\ <<c, f>> \in todo[q]
              \/ lock[<<c, f>>] = q
              \/ c \in late[q]
          BY <3>3 DEF Phase, DeleteInv
        <4>2. <<c, f>> \notin Dropped(r)
          BY <1>2, <2>3 DEF Dropped, Visible
        <4> QED BY <1>1, <2>2, <3>1, <4>1, <4>2, Rows
      <3> QED BY <3>2, <3>3
    <2> QED BY <1>1, <2>1, <2>3 DEF DeleteInv
  <1> QED BY <1>5, <1>6, <1>7, <1>8 DEF Phase

\* A commit keeps the invariant if the published entries stay covered.
LEMMA CommitInv ==
  ASSUME StatsInv, NEW r \in Req, Commit(r),
         late' \in [Req -> SUBSET Cred], stray' \in SUBSET Cred,
         \A q \in Req \ {r} :
           /\ late[q] \subseteq late'[q]
           /\ pc[r] \in {"store", "insert"} =>
                \A c \in job[r].creds : Purging(q, c) => c \in late'[q],
         EntriesAreConsented'
  PROVE  StatsInv'
  <1> USE DEF StatsInv
  <1>1. TypeOK'
    BY CommitType
  <1>2. todo'[r] = {}
    BY DEF Commit
  <1>3. Phase(r)'
    BY <1>2, EndsIdle DEF Commit
  <1>4. ASSUME NEW q \in Req \ {r} PROVE Phase(q)'
    BY CommitOthers
  <1> QED BY <1>1, <1>3, <1>4

\* An entry a commit leaves, of a row it did not hold, was there before.
LEMMA KeptEntry ==
  ASSUME TypeOK, NEW r \in Req, Commit(r), NEW w \in Row, lock[w] # r
  PROVE  table'[w] = table[w]
  BY Committed

\* After a consent is committed no entry of a withdrawn field is left.
LEMMA CommitConsentStep ==
  ASSUME StatsInv, NEW r \in Req, CommitConsent(r)
  PROVE  StatsInv'
  <1> USE DEF StatsInv
  <1>1. pc[r] = "withdrawing" /\ todo[r] = {} /\ Commit(r) /\ stray' = stray \ job[r].creds
    BY DEF CommitConsent
  <1>2. PICK c \in Cred : job[r].creds = {c}
    BY <1>1 DEF Phase, OwnRows
  <1>3. /\ lock[<<c, Consent>>] = r /\ draft[<<c, Consent>>] = job[r].fields
        /\ \A f \in Field : lock[<<c, f>>] = r => draft[<<c, f>>] = NoRow
        /\ \A f \in Field \ job[r].fields : Visible(<<c, f>>) => lock[<<c, f>>] = r
    BY <1>1, <1>2 DEF Phase, WithdrawInv
  <1>4. table'[<<c, Consent>>] = job[r].fields /\ job[r].fields \in SUBSET Field
    BY <1>1, <1>3, Committed, Rows DEF TypeOK, Job
  <1>5. EntriesAreConsented'
    <2> SUFFICES ASSUME NEW w \in EntryRow, Visible(w)'
                 PROVE  Covered(w)' \/ w[1] \in stray'
      BY DEF EntriesAreConsented
    <2>1. w[1] \in Cred /\ w[2] \in Field /\ w = <<w[1], w[2]>> /\ w \in Row
      BY Rows
    <2>2. CASE w[1] = c
      <3>1. lock[w] # r
        BY <1>1, <1>3, <2>1, <2>2, Committed DEF Visible
      <3>2. Visible(w)
        BY <1>1, <2>1, <3>1, KeptEntry DEF Visible
      <3>3. w[2] \in job[r].fields
        BY <1>3, <2>1, <2>2, <3>1, <3>2
      <3> QED BY <1>4, <2>2, <3>3, StatsAssumption DEF Covered, Visible
    <2>3. CASE w[1] # c
      <3>1. lock[w] # r /\ lock[<<w[1], Consent>>] # r /\ <<w[1], Consent>> \in Row
        BY <1>2, <2>1, <2>3, Rows DEF Phase, OwnRows
      <3>2. table'[w] = table[w] /\ table'[<<w[1], Consent>>] = table[<<w[1], Consent>>]
        BY <1>1, <2>1, <3>1, KeptEntry
      <3>3. Covered(w) \/ w[1] \in stray
        BY <3>2 DEF EntriesAreConsented, Visible
      <3> QED BY <1>1, <1>2, <2>3, <3>2, <3>3 DEF Covered, Visible
    <2> QED BY <2>2, <2>3
  <1>6. late' \in [Req -> SUBSET Cred] /\ stray' \in SUBSET Cred
        /\ \A q \in Req \ {r} : late'[q] = late[q]
    BY <1>1 DEF CommitConsent, TypeOK
  <1> QED BY <1>1, <1>5, <1>6, CommitInv

\* After a delete is committed the entries left are those a snapshot stored behind it.
LEMMA CommitDeleteStep ==
  ASSUME StatsInv, NEW r \in Req, CommitDelete(r)
  PROVE  StatsInv'
  <1> USE DEF StatsInv
  <1>1. /\ pc[r] = "purging_consents" /\ todo[r] = {} /\ Commit(r)
        /\ stray' = (stray \ job[r].creds) \cup late[r]
    BY DEF CommitDelete
  <1>2. \A w \in Row : lock[w] = r => draft[w] = NoRow
    BY <1>1 DEF Phase, DeleteInv
  <1>3. EntriesAreConsented'
    <2> SUFFICES ASSUME NEW w \in EntryRow, Visible(w)'
                 PROVE  Covered(w)' \/ w[1] \in stray'
      BY DEF EntriesAreConsented
    <2>1. w[1] \in Cred /\ w[2] \in Field /\ w = <<w[1], w[2]>> /\ w \in Row
      BY Rows
    <2>2. lock[w] # r
      BY <1>1, <1>2, <2>1, Committed DEF Visible
    <2>3. Visible(w) /\ table'[w] = table[w]
      BY <1>1, <2>1, <2>2, KeptEntry DEF Visible
    <2>4. CASE w[1] \in job[r].creds
      <3>1. w[1] \in late[r]
        BY <1>1, <2>1, <2>2, <2>3, <2>4 DEF Phase, DeleteInv
      <3> QED BY <1>1, <3>1
    <2>5. CASE w[1] \notin job[r].creds
      <3>1. lock[<<w[1], Consent>>] # r /\ <<w[1], Consent>> \in Row
        BY <2>1, <2>5, Rows DEF Phase, OwnRows
      <3>2. table'[<<w[1], Consent>>] = table[<<w[1], Consent>>]
        BY <1>1, <3>1, KeptEntry
      <3> QED BY <1>1, <2>3, <2>5, <3>2 DEF EntriesAreConsented, Covered, Visible
    <2> QED BY <2>4, <2>5
  <1>4. late' \in [Req -> SUBSET Cred] /\ stray' \in SUBSET Cred
        /\ \A q \in Req \ {r} : late'[q] = late[q]
    BY <1>1 DEF CommitDelete, TypeOK
  <1> QED BY <1>1, <1>3, <1>4, CommitInv

\* The entries of a snapshot are covered by the consent it still holds.
LEMMA CommitSnapshotStep ==
  ASSUME StatsInv, NEW r \in Req, CommitSnapshot(r)
  PROVE  StatsInv'
  <1> USE DEF StatsInv
  <1>1. pc[r] = "store" /\ Commit(r) /\ stray' = stray
    BY DEF CommitSnapshot
  <1>2. PICK c \in Cred : job[r].creds = {c}
    BY <1>1 DEF Phase, OwnRows
  <1>3. /\ lock[<<c, Consent>>] = r /\ table[<<c, Consent>>] \in Consents
        /\ draft[<<c, Consent>>] = table[<<c, Consent>>]
        /\ \A f \in Field : lock[<<c, f>>] = r => f \in table[<<c, Consent>>]
    BY <1>1, <1>2 DEF Phase, SnapshotInv, StoredWell
  <1>4. \A d \in Cred : table'[<<d, Consent>>] = table[<<d, Consent>>]
    BY <1>1, <1>2, <1>3, Committed, Rows DEF Phase, OwnRows
  <1>5. EntriesAreConsented'
    <2> SUFFICES ASSUME NEW w \in EntryRow, Visible(w)'
                 PROVE  Covered(w)' \/ w[1] \in stray'
      BY DEF EntriesAreConsented
    <2>1. w[1] \in Cred /\ w[2] \in Field /\ w = <<w[1], w[2]>> /\ w \in Row
      BY Rows
    <2>2. CASE lock[w] = r
      <3>1. w[1] = c
        BY <1>2, <2>1, <2>2 DEF Phase, OwnRows
      <3>2. w[2] \in table[<<c, Consent>>]
        BY <1>3, <2>1, <2>2, <3>1
      <3> QED BY <1>3, <1>4, <3>1, <3>2, StatsAssumption DEF Covered, Visible, Consents
    <2>3. CASE lock[w] # r
      <3>1. table'[w] = table[w]
        BY <1>1, <2>1, <2>3, KeptEntry
      <3> QED BY <1>1, <1>4, <2>1, <3>1 DEF EntriesAreConsented, Covered, Visible
    <2> QED BY <2>2, <2>3
  <1>6. /\ late' \in [Req -> SUBSET Cred] /\ stray' \in SUBSET Cred
        /\ \A q \in Req \ {r} : /\ late[q] \subseteq late'[q]
                                /\ \A d \in job[r].creds : Purging(q, d) => d \in late'[q]
    BY <1>1, <1>2 DEF CommitSnapshot, TypeOK
  <1> QED BY <1>1, <1>5, <1>6, CommitInv

-----------------------------------------------------------------------------
\* Steps outside the transactions: reviews, and time.

\* A step that rewrites one unlocked entry and nothing else keeps the invariant.
LEMMA RowInv ==
  ASSUME StatsInv, NEW w \in EntryRow, lock[w] = Nobody, Visible(w), NEW e \in Entry,
         table' = [table EXCEPT ![w] = e],
         UNCHANGED <<lock, draft, pc, job, todo, history>>
  PROVE  StatsInv'
  <1> USE DEF StatsInv
  <1>1. w \in Row /\ w \notin ConsentRow
    BY Rows
  <1>2. \A v \in Row : /\ table'[v] = IF v = w THEN e ELSE table[v]
                       /\ Visible(v)' => Visible(v)
    BY <1>1 DEF TypeOK, Typed, Visible
  <1>3. TypeOK'
    BY <1>1, Rows DEF TypeOK, Typed, history
  <1>4. \A c \in Cred : table'[<<c, Consent>>] = table[<<c, Consent>>]
    BY <1>1, <1>2, Rows
  <1>5. EntriesAreConsented'
    BY <1>2, <1>4, Rows DEF EntriesAreConsented, Covered, Visible, history
  <1>6. ASSUME NEW r \in Req PROVE Phase(r)'
    <2>1. \A v \in Row : lock[v] = r => table'[v] = table[v]
      BY <1>2, StatsAssumption
    <2>2. job[r].creds \subseteq Cred /\ job[r].fields \subseteq Field
      BY DEF TypeOK, Job
    <2>3. OwnRows(r)'
      BY DEF Phase, OwnRows
    <2>4. SnapshotInv(r)'
      <3> SUFFICES ASSUME pc[r] \in {"store", "insert"}, NEW c \in job[r].creds
                   PROVE  SnapshotInv(r)'
        BY DEF SnapshotInv
      <3>1. c \in Cred /\ job[r].creds = {c}
        BY DEF Phase, OwnRows
      <3>2. /\ lock[<<c, Consent>>] = r /\ table[<<c, Consent>>] \in Consents
            /\ draft[<<c, Consent>>] = table[<<c, Consent>>]
            /\ job[r].fields \subseteq table[<<c, Consent>>]
        BY DEF Phase, SnapshotInv
      <3>3. ASSUME NEW f \in Field, lock[<<c, f>>] = r
            PROVE  StoredWell(c, f)'
        <4>1. table'[<<c, f>>] = table[<<c, f>>]
          BY <2>1, <3>1, <3>3, Rows
        <4>2. StoredWell(c, f)
          BY <3>3 DEF Phase, SnapshotInv
        <4> QED BY <1>4, <3>1, <4>1, <4>2 DEF StoredWell, Visible
      <3>4. ASSUME pc[r] = "insert", NEW v \in todo[r]
            PROVE  \E f \in table'[<<c, Consent>>] : v = <<c, f>> /\ ~Visible(v)'
        <4>1. PICK f \in table[<<c, Consent>>] : v = <<c, f>> /\ ~Visible(v)
          BY <3>4 DEF Phase, SnapshotInv
        <4>2. v \in Row
          BY DEF TypeOK
        <4> QED BY <1>2, <1>4, <3>1, <4>1, <4>2
      <3> QED BY <1>4, <3>1, <3>2, <3>3, <3>4 DEF SnapshotInv
    <2>5. WithdrawInv(r)'
      BY <1>2, <2>2, Rows DEF Phase, WithdrawInv
    <2>6. DeleteInv(r)'
      BY <1>2, <2>2, Rows DEF Phase, DeleteInv, history
    <2> QED BY <2>3, <2>4, <2>5, <2>6 DEF Phase
  <1> QED BY <1>3, <1>5, <1>6

\* The decision of a moderator is such a step.
LEMMA ResolveStep ==
  ASSUME StatsInv, NEW w \in EntryRow, Resolve(w)
  PROVE  StatsInv'
  <1>1. table[w] \in Entry /\ table[w].pending # NoScore /\ Visible(w)
    BY DEF Resolve, UnderReview, Visible, StatsInv, TypeOK, Typed
  <1>2. PICK e \in {AcceptedClaim(table[w]), DismissedClaim(table[w])} :
          table' = [table EXCEPT ![w] = e]
    BY DEF Resolve
  <1>3. e \in Entry
    BY <1>1, <1>2, ResolvedType
  <1> QED BY <1>1, <1>2, <1>3, RowInv DEF Resolve

\* The passing of six hours on a board is such a step.
LEMMA AgeStep ==
  ASSUME StatsInv, NEW w \in EntryRow, Age(w)
  PROVE  StatsInv'
  <1>1. table[w] \in Entry /\ Visible(w)
    BY DEF Age, Visible, StatsInv, TypeOK, Typed
  <1> DEFINE e == [table[w] EXCEPT !.aged = TRUE]
  <1>2. e \in Entry
    BY <1>1 DEF Entry
  <1>3. table' = [table EXCEPT ![w] = e]
    BY DEF Age
  <1> HIDE DEF e
  <1> QED BY <1>1, <1>2, <1>3, RowInv DEF Age

-----------------------------------------------------------------------------
\* Initially nothing is stored and nobody is busy.
LEMMA StatsInit == Init => StatsInv
  <1> SUFFICES ASSUME Init PROVE StatsInv
    OBVIOUS
  <1>1. TypeOK
    BY NoJobType, Rows DEF Init, TypeOK, Typed, Statement
  <1>2. EntriesAreConsented
    BY Rows DEF Init, EntriesAreConsented, Visible
  <1>3. \A r \in Req : Phase(r)
    BY StatsAssumption, IdlePhase DEF Init
  <1> QED BY <1>1, <1>2, <1>3 DEF StatsInv

\* Each of the three requests begins a transaction with arguments it may have.
LEMMA RequestStep ==
  ASSUME StatsInv, NEW r \in Req, Request(r)
  PROVE  StatsInv'
  <1>1. CASE \E c \in Cred, fields \in SUBSET Field : SetConsent(r, c, fields)
    <2> PICK c \in Cred, fields \in SUBSET Field : SetConsent(r, c, fields)
      BY <1>1
    <2> DEFINE j == [NoJob EXCEPT !.creds = {c}, !.fields = fields]
    <2>1. j \in Job /\ j.creds = {c}
      BY DEF NoJob, Job
    <2>2. Begin(r, "upsert", j)
      BY DEF SetConsent
    <2> HIDE DEF j
    <2> QED BY <2>1, <2>2, BeginInv DEF Statement
  <1>2. CASE \E creds \in {Cred} \cup {{c} : c \in Cred} : Delete(r, creds)
    <2> PICK creds \in {Cred} \cup {{c} : c \in Cred} : Delete(r, creds)
      BY <1>2
    <2> DEFINE j == [NoJob EXCEPT !.creds = creds]
    <2>1. j \in Job
      BY DEF NoJob, Job
    <2>2. Begin(r, "purge", j)
      BY DEF Delete
    <2> HIDE DEF j
    <2> QED BY <2>1, <2>2, BeginInv DEF Statement
  <1>3. CASE \E c \in Cred, fields \in SUBSET Field \ {{}} :
               \E claim \in Claims(fields) : Submit(r, c, fields, claim)
    <2> PICK c \in Cred, fields \in SUBSET Field \ {{}} :
             \E claim \in Claims(fields) : Submit(r, c, fields, claim)
      BY <1>3
    <2> PICK claim \in Claims(fields) : Submit(r, c, fields, claim)
      OBVIOUS
    <2> DEFINE j == [creds |-> {c}, fields |-> fields, claim |-> claim]
    <2>1. claim \in [Field -> Nat]
      BY StatsAssumption DEF Claims, Scores
    <2>2. j \in Job /\ j.creds = {c}
      BY <2>1 DEF Job
    <2>3. Begin(r, "check", j)
      BY DEF Submit
    <2> HIDE DEF j
    <2> QED BY <2>2, <2>3, BeginInv DEF Statement
  <1> QED BY <1>1, <1>2, <1>3 DEF Request

\* Every step of the store keeps the invariant, one case per action.
LEMMA StatsNext == StatsInv /\ [Next]_vars => StatsInv'
  <1> SUFFICES ASSUME StatsInv, [Next]_vars PROVE StatsInv'
    OBVIOUS
  <1>1. ASSUME NEW r \in Req, Step(r) PROVE StatsInv'
    <2>1. CASE UpsertConsent(r) \/ Withdraw(r) \/ CommitConsent(r)
      BY <2>1, UpsertInv, WithdrawStep, CommitConsentStep
    <2>2. CASE PurgeEntries(r) \/ PurgeConsents(r) \/ CommitDelete(r) \/ DeleteRow(r)
      BY <2>2, PurgeEntriesStep, PurgeConsentsStep, CommitDeleteStep, DeleteRowStep
    <2>3. CASE CheckConsent(r) \/ RefuseSnapshot(r)
      BY <2>3, CheckStep, RollbackInv DEF RefuseSnapshot, Refuses
    <2>4. CASE StoreKnown(r) \/ FindNone(r) \/ InsertEntry(r) \/ CommitSnapshot(r)
      BY <2>4, StoreKnownStep, FindNoneStep, InsertStep, CommitSnapshotStep
    <2> QED BY <1>1, <2>1, <2>2, <2>3, <2>4 DEF Step
  <1>2. ASSUME NEW r \in Req, Request(r) \/ Fails(r) \/ BreakDeadlock(r) PROVE StatsInv'
    BY <1>2, RequestStep, RollbackInv DEF Fails, BreakDeadlock
  <1>3. ASSUME NEW w \in EntryRow, Resolve(w) PROVE StatsInv'
    BY <1>3, ResolveStep
  <1>4. ASSUME NEW w \in Cred \X Watched, Age(w) PROVE StatsInv'
    BY <1>4, AgeStep, StatsAssumption DEF EntryRow
  <1>5. CASE UNCHANGED vars
    <2>1. UNCHANGED <<table, lock, draft, pc, job, todo, late, stray>>
      BY <1>5 DEF vars
    <2>2. TypeOK'
      BY <2>1 DEF StatsInv, TypeOK, Typed
    <2>3. EntriesAreConsented'
      BY <2>1, SameTables DEF StatsInv
    <2>4. ASSUME NEW r \in Req PROVE Phase(r)'
      BY <2>1, OthersKeep DEF StatsInv
    <2> QED BY <2>2, <2>3, <2>4 DEF StatsInv
  <1> QED BY <1>1, <1>2, <1>3, <1>4, <1>5 DEF Next

\* The inductive invariant holds of every behaviour of the store.
THEOREM StatsInvariant == Spec => []StatsInv
  BY StatsInit, StatsNext, PTL DEF Spec

\* The types of the rows and of the transactions (the whole store).
THEOREM StatsTypes == Spec => []TypeOK
  <1>1. StatsInv => TypeOK
    BY DEF StatsInv
  <1> QED BY <1>1, StatsInvariant, PTL

\* Whatever overlaps, a published entry is covered by the consent of its
\* device, but for a delete overtaken by a snapshot.
THEOREM ConsentHolds == Spec => []EntriesAreConsented
  <1>1. StatsInv => EntriesAreConsented
    BY DEF StatsInv
  <1> QED BY <1>1, StatsInvariant, PTL

-----------------------------------------------------------------------------
\* What a commit leaves of an entry: what was there, or a well-stored draft.
LEMMA CommitEntry ==
  ASSUME TypeOK, NEW r \in Req, Phase(r), Commit(r), NEW c \in Cred, NEW f \in Field,
         Visible(<<c, f>>)'
  PROVE  \/ table'[<<c, f>>] = table[<<c, f>>]
         \/ StoredWell(c, f) /\ table'[<<c, f>>] = draft[<<c, f>>]
  <1>1. <<c, f>> \in Row
    BY Rows
  <1>2. CASE lock[<<c, f>>] = r
    <2>1. table'[<<c, f>>] = draft[<<c, f>>] /\ draft[<<c, f>>] # NoRow
      BY <1>1, <1>2, Committed DEF Visible
    <2>a. draft[<<c, f>>] # NoRow
      BY <2>1
    <2>2. pc[r] \in {"store", "insert"} /\ job[r].creds = {c} /\ lock[<<c, Consent>>] = r
      BY <1>2, <2>a, DraftOfSnapshot
    <2>3. StoredWell(c, f)
      BY <1>2, <2>2 DEF Phase, SnapshotInv
    <2> QED BY <2>1, <2>3
  <1>3. CASE lock[<<c, f>>] # r
    BY <1>1, <1>3, KeptEntry
  <1> QED BY <1>2, <1>3

\* What a step does to an entry that stays.
LEMMA EntryStep ==
  ASSUME StatsInv, [Next]_vars, NEW w \in EntryRow, Visible(w), Visible(w)'
  PROVE  /\ table'[w].score >= table[w].score
         /\ w[2] \in Watched /\ table'[w].score > table[w].score + Limit
              => table[w].aged \/ table[w].pending >= table'[w].score
  <1> DEFINE Same == table'[w] = table[w]
  <1> USE DEF StatsInv
  <1>0. table[w] \in Entry /\ w \in Row /\ w[1] \in Cred /\ w[2] \in Field /\ w = <<w[1], w[2]>>
    BY Rows DEF TypeOK, Typed, Visible
  <1>1. table[w].score \in Nat /\ table[w].pending \in Nat \cup {NoScore}
    BY <1>0 DEF Entry
  <1>2. ASSUME NEW r \in Req, Commit(r) PROVE Same \/ (StoredWell(w[1], w[2]) /\ table'[w] = draft[w])
    <2>1. \A c \in Cred, f \in Field : Visible(<<c, f>>)' =>
            \/ table'[<<c, f>>] = table[<<c, f>>]
            \/ StoredWell(c, f) /\ table'[<<c, f>>] = draft[<<c, f>>]
      BY <1>2, CommitEntry
    <2> QED BY <1>0, <2>1
  <1>3. CASE Same
    BY <1>1, <1>3, StatsAssumption
  <1>4. ASSUME NEW r \in Req, Commit(r) PROVE Same \/
            (/\ table'[w].score >= table[w].score
             /\ w[2] \in Watched /\ table'[w].score > table[w].score + Limit => table[w].aged)
    BY <1>0, <1>2, <1>4 DEF StoredWell
  <1>5. ASSUME NEW r \in Req, Step(r) PROVE Same \/ Commit(r)
    BY <1>5 DEF Step, UpsertConsent, Withdraw, CommitConsent, PurgeEntries, PurgeConsents, CommitDelete,
                DeleteRow, CheckConsent, RefuseSnapshot, StoreKnown, FindNone, InsertEntry, CommitSnapshot,
                StartsDelete, Writes, LocksConsent, Refuses, Rollback
  <1>6. ASSUME NEW r \in Req, Request(r) \/ Fails(r) \/ BreakDeadlock(r) PROVE Same
    BY <1>6 DEF Request, SetConsent, Delete, Submit, Begin, Fails, BreakDeadlock, Rollback
  <1>7. ASSUME NEW v \in EntryRow, Resolve(v) PROVE Same \/
            (/\ table'[w].score >= table[w].score
             /\ table'[w].score = table[w].score \/ table'[w].score = table[w].pending)
    <2>1. CASE v = w
      <3>1. table[w].pending # NoScore
        BY <1>7, <2>1 DEF Resolve, UnderReview
      <3>2. PICK e \in {AcceptedClaim(table[w]), DismissedClaim(table[w])} :
              table' = [table EXCEPT ![w] = e]
        BY <1>7, <2>1 DEF Resolve
      <3>3. table'[w] = e
        BY <1>0, <3>2 DEF TypeOK, Typed
      <3> QED BY <1>0, <3>1, <3>2, <3>3, ResolvedType
    <2>2. CASE v # w
      BY <1>0, <1>7, <2>2 DEF Resolve, TypeOK, Typed
    <2> QED BY <2>1, <2>2
  <1>8. ASSUME NEW v \in Cred \X Watched, Age(v) PROVE table'[w].score = table[w].score
    <2>1. v \in Row /\ v \in EntryRow /\ table' = [table EXCEPT ![v] = [table[v] EXCEPT !.aged = TRUE]] /\ Visible(v)
      BY <1>8, StatsAssumption DEF Age, EntryRow, Row
    <2>2. CASE v = w
      <3>1. table'[w] = [table[w] EXCEPT !.aged = TRUE]
        BY <1>0, <2>1, <2>2 DEF TypeOK, Typed
      <3> QED BY <1>0, <3>1 DEF Entry
    <2>3. CASE v # w
      BY <1>0, <2>1, <2>3 DEF TypeOK, Typed
    <2> QED BY <2>2, <2>3
  <1>9. CASE UNCHANGED vars
    BY <1>3, <1>9 DEF vars
  <1>10. CASE \E v \in Cred \X Watched : Age(v)
    BY <1>1, <1>8, <1>10, StatsAssumption
  <1>11. CASE \E v \in EntryRow : Resolve(v)
    <2>1. PICK v \in EntryRow : Resolve(v)
      BY <1>11
    <2>2. CASE /\ table'[w].score >= table[w].score
               /\ table'[w].score = table[w].score \/ table'[w].score = table[w].pending
      <3>1. CASE table'[w].score = table[w].score
        BY <1>1, <3>1, StatsAssumption
      <3>2. CASE table'[w].score = table[w].pending
        <4>1. table[w].pending \in Int
          BY <1>1 DEF NoScore
        <4> QED BY <2>2, <3>2, <4>1
      <3> QED BY <2>2, <3>1, <3>2
    <2> QED BY <1>3, <1>7, <2>1, <2>2
  <1>12. CASE \E r \in Req : Request(r) \/ Step(r) \/ Fails(r) \/ BreakDeadlock(r)
    BY <1>3, <1>4, <1>5, <1>6, <1>12
  <1> QED BY <1>9, <1>10, <1>11, <1>12 DEF Next

\* No board jumps within six hours without a moderator.
THEOREM GainsAreReviewed == Spec => JumpsAreReviewed
  <1>1. ASSUME StatsInv, [Next]_vars, NEW w \in Cred \X Watched, Visible(w), Visible(w)',
               table'[w].score > table[w].score + Limit
        PROVE  table[w].aged \/ table[w].pending >= table'[w].score
    <2>1. w \in EntryRow /\ w[2] \in Watched
      BY StatsAssumption DEF EntryRow
    <2> QED BY <1>1, <2>1, EntryStep
  <1>2. StatsInv /\ [Next]_vars =>
          [\A w \in Cred \X Watched :
             Visible(w) /\ Visible(w)' /\ table'[w].score > table[w].score + Limit
               => table[w].aged \/ table[w].pending >= table'[w].score]_vars
    BY <1>1
  <1> QED BY <1>2, StatsInvariant, PTL DEF Spec, JumpsAreReviewed

\* A published score never falls while its entry stays.
THEOREM ScoresStay == Spec => ScoresNeverFall
  <1>1. StatsInv /\ [Next]_vars =>
          [\A w \in EntryRow : Visible(w) /\ Visible(w)' => table'[w].score >= table[w].score]_vars
    BY EntryStep
  <1> QED BY <1>1, StatsInvariant, PTL DEF Spec, ScoresNeverFall
=============================================================================
