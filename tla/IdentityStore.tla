---------------------------- MODULE IdentityStore ----------------------------
(***************************************************************************)
(* Identities, device credentials, the recovery code and browser pairing:  *)
(* PostgresIdentityStore (server/src/identity-store.mjs) over the tables   *)
(* of migrations/001_identity.sql and 002_community.sql, at READ COMMITTED.*)
(* recover and consumePairing read FOR UPDATE and write later, and the     *)
(* UPDATE of approvePairing evaluates its EXISTS before its foreign key    *)
(* waits for the identity: those are two steps, between which the          *)
(* transaction holds its rows.  Every other operation is one statement, or *)
(* inserts new rows that nothing sees before COMMIT: one step.             *)
(***************************************************************************)
EXTENDS Integers, FiniteSets

CONSTANTS
  Call,        \* handlers and web requests that may overlap
  Identity,    \* ids randomUUID() may return, each at most once
  Credential, Session, Code,  \* likewise, device_credentials, browser_sessions, pairing_codes
  Nobody

ASSUME IdentityAssumption == Nobody \notin Identity

VARIABLES
  identity,    \* identities: "unused", "live", or "deleted" for a deleted row
  recovery,    \* identity_recovery: "none", "unused", "used"
  credential,  \* device_credentials, and how each was issued
  pairing,     \* pairing_codes
  session,     \* browser_sessions, the code each was paired with, and whether
               \*   its identity had been recovered when consumePairing began
  op,          \* a call between its two steps
  approvals    \* history: identities told that they approved a code

vars == <<identity, recovery, credential, pairing, session, op, approvals>>

Unissued == [status |-> "unissued", identity |-> Nobody]
Gone == [status |-> "gone", identity |-> Nobody]
Void == {Unissued, Gone}

CredentialRow == [status : {"active", "revoked"}, identity : Identity, by : {"enroll", "recover"}]
PairingRow == [status : {"waiting"}, identity : {Nobody}, expired : BOOLEAN]
                \cup [status : {"approved", "consumed"}, identity : Identity, expired : BOOLEAN]
SessionRow == [status : {"fresh", "aging", "expired", "revoked"}, identity : Identity,
               code : Code, recovered : BOOLEAN]

Idle == [type |-> "idle"]
InFlight == {Idle} \cup [type : {"recover"}, identity : Identity]
              \cup [type : {"approve"}, identity : Identity, code : Code]
              \cup [type : {"consume"}, identity : Identity, code : Code, recovered : BOOLEAN]

\* every row of an identity: its identity_id references a row of identities
Owned(row) == row.identity = Nobody \/ identity[row.identity] = "live"

TypeOK ==
  /\ identity \in [Identity -> {"unused", "live", "deleted"}]
  /\ recovery \in [Identity -> {"none", "unused", "used"}]
  /\ credential \in [Credential -> Void \cup CredentialRow]
  /\ pairing \in [Code -> Void \cup PairingRow]
  /\ session \in [Session -> Void \cup SessionRow]
  /\ op \in [Call -> InFlight]
  /\ approvals \in SUBSET (Identity \X Code)
  /\ \A i \in Identity : recovery[i] # "none" => identity[i] = "live"
  /\ \A k \in Credential : Owned(credential[k])
  /\ \A p \in Code : Owned(pairing[p])
  /\ \A s \in Session : Owned(session[s])

Init ==
  /\ identity = [i \in Identity |-> "unused"]
  /\ recovery = [i \in Identity |-> "none"]
  /\ credential = [k \in Credential |-> Unissued]
  /\ pairing = [p \in Code |-> Unissued]
  /\ session = [s \in Session |-> Unissued]
  /\ op = [x \in Call |-> Idle]
  /\ approvals = {}

\* (bug: FOR UPDATE OF p)
IdentityLockedByRecovery(i) == \E x \in Call : op[x].type = "recover" /\ op[x].identity = i
\* both SELECTs are FOR UPDATE of every table they join, identities included
IdentityLocked(i) == \E x \in Call : op[x].type \in {"recover", "consume"} /\ op[x].identity = i
\* the pairing row, by an UPDATE under way or a FOR UPDATE
CodeLocked(p) == \E x \in Call : op[x].type \in {"approve", "consume"} /\ op[x].code = p

tables == <<identity, recovery, credential, pairing, session>>

\* a statement that takes its locks and finds what the call goes on with
Takes(x, next) ==
  /\ op[x] = Idle
  /\ op' = [op EXCEPT ![x] = next]
  /\ UNCHANGED <<tables, approvals>>

Done(x) == op' = [op EXCEPT ![x] = Idle]

\* ROLLBACK: a wrong recovery code, a missing identity, a failed query
Rollback(x) ==
  /\ op[x] # Idle
  /\ Done(x)
  /\ UNCHANGED <<tables, approvals>>

-----------------------------------------------------------------------------
(* Device credentials and recovery                                         *)

Enroll(i, k, withRecovery) ==
  /\ identity[i] = "unused" /\ credential[k] = Unissued
  /\ identity' = [identity EXCEPT ![i] = "live"]
  /\ recovery' = [recovery EXCEPT ![i] = IF withRecovery THEN "unused" ELSE "none"]
  /\ credential' = [credential EXCEPT ![k] = [status |-> "active", identity |-> i, by |-> "enroll"]]
  /\ UNCHANGED <<pairing, session, op, approvals>>

Revoke(k) ==
  /\ credential[k].status = "active"
  /\ credential' = [credential EXCEPT ![k].status = "revoked"]
  /\ UNCHANGED <<identity, recovery, pairing, session, op, approvals>>

\* SELECT ... FOR UPDATE, before scrypt
RecoverSelect(x, i) ==
  /\ recovery[i] = "unused" /\ ~IdentityLocked(i)
  /\ Takes(x, [type |-> "recover", identity |-> i])

\* WHERE identity_id = $1 AND revoked_at IS NULL
RevokedCredentials(i) ==
  [k \in Credential |->
     IF credential[k].identity = i THEN [credential[k] EXCEPT !.status = "revoked"] ELSE credential[k]]
RevokedSessions(i) ==
  [s \in Session |->
     IF session[s].identity = i THEN [session[s] EXCEPT !.status = "revoked"] ELSE session[s]]
\* (bug: the code is not consumed)
CodeAfterFailedUpdate == "unused"
\* used_at = now()
CodeAfterRecovery == "used"

\* the UPDATEs, the INSERT and COMMIT
RecoverCommit(x, k) ==
  LET i == op[x].identity IN
  /\ op[x].type = "recover"
  /\ credential[k] = Unissued
  /\ credential' = [RevokedCredentials(i) EXCEPT
                      ![k] = [status |-> "active", identity |-> i, by |-> "recover"]]
  /\ session' = RevokedSessions(i)
  /\ recovery' = [recovery EXCEPT ![i] = CodeAfterRecovery]
  /\ Done(x)
  /\ UNCHANGED <<identity, pairing, approvals>>

\* ON DELETE CASCADE
Cascade(rows, i) == [r \in DOMAIN rows |-> IF rows[r].identity = i THEN Gone ELSE rows[r]]

\* waits for the locked rows it deletes
DeleteIdentity(i) ==
  /\ identity[i] = "live" /\ ~IdentityLocked(i)
  /\ \A p \in Code : pairing[p].identity = i => ~CodeLocked(p)
  /\ identity' = [identity EXCEPT ![i] = "deleted"]
  /\ recovery' = [recovery EXCEPT ![i] = "none"]
  /\ credential' = Cascade(credential, i)
  /\ pairing' = Cascade(pairing, i)
  /\ session' = Cascade(session, i)
  /\ UNCHANGED <<op, approvals>>

-----------------------------------------------------------------------------
(* Browser pairing and browser sessions                                    *)

StartPairing(p) ==
  /\ pairing[p] = Unissued
  /\ pairing' = [pairing EXCEPT ![p] = [status |-> "waiting", identity |-> Nobody, expired |-> FALSE]]
  /\ UNCHANGED <<identity, recovery, credential, session, op, approvals>>

\* (bug: a code that was approved can be approved again)
NotConsumed(p) == pairing[p].status \in {"waiting", "approved"} /\ ~pairing[p].expired
\* identity_id IS NULL AND approved_at IS NULL AND consumed_at IS NULL AND expires_at > now()
MayApprove(p) == pairing[p].status = "waiting" /\ ~pairing[p].expired

\* the UPDATE locks the code, and its EXISTS finds the credential unrevoked
ApproveCheck(x, k, p) ==
  /\ MayApprove(p) /\ ~CodeLocked(p)
  /\ credential[k].status = "active"
  /\ Takes(x, [type |-> "approve", identity |-> credential[k].identity, code |-> p])

\* its foreign key waits for a locked identity, and fails on a deleted one
ApproveCommit(x) ==
  LET i == op[x].identity IN
  /\ op[x].type = "approve"
  /\ identity[i] = "live" /\ ~IdentityLocked(i)
  /\ pairing' = [pairing EXCEPT ![op[x].code] = [@ EXCEPT !.status = "approved", !.identity = i]]
  /\ approvals' = approvals \cup {<<i, op[x].code>>}
  /\ Done(x)
  /\ UNCHANGED <<identity, recovery, credential, session>>

\* SELECT ... FOR UPDATE
ConsumeSelect(x, p) ==
  LET i == pairing[p].identity IN
  /\ pairing[p].status = "approved" /\ ~pairing[p].expired
  /\ ~CodeLocked(p) /\ ~IdentityLocked(i)
  /\ Takes(x, [type |-> "consume", identity |-> i, code |-> p, recovered |-> recovery[i] = "used"])

\* INSERT INTO browser_sessions, whose foreign key wants the identity; UPDATE
\* pairing_codes; COMMIT
ConsumeCommit(x, s) ==
  /\ op[x].type = "consume"
  /\ identity[op[x].identity] = "live"
  /\ session[s] = Unissued
  /\ session' = [session EXCEPT ![s] = [status |-> "fresh", identity |-> op[x].identity,
                                        code |-> op[x].code, recovered |-> op[x].recovered]]
  /\ pairing' = [pairing EXCEPT ![op[x].code].status = "consumed"]
  /\ Done(x)
  /\ UNCHANGED <<identity, recovery, credential, approvals>>

\* five minutes pass
CodeExpires(p) ==
  /\ pairing[p] \notin Void /\ ~pairing[p].expired
  /\ pairing' = [pairing EXCEPT ![p].expired = TRUE]
  /\ UNCHANGED <<identity, recovery, credential, session, op, approvals>>

SessionBecomes(s, status) ==
  /\ session' = [session EXCEPT ![s].status = status]
  /\ UNCHANGED <<identity, recovery, credential, pairing, op, approvals>>

\* the thirty days run down
SessionAges(s) ==
  \/ session[s].status = "fresh" /\ SessionBecomes(s, "aging")
  \/ session[s].status = "aging" /\ SessionBecomes(s, "expired")

\* (bug: the UPDATE does not compare expires_at)
NotRevoked(s) == session[s].status \in {"aging", "expired"}
\* revoked_at IS NULL AND expires_at > now()
MayRenew(s) == session[s].status = "aging"
\* authenticateBrowserSession gives the session another thirty days
Renew(s) == MayRenew(s) /\ SessionBecomes(s, "fresh")

RevokeBrowserSession(s) ==
  session[s].status \in {"fresh", "aging", "expired"} /\ SessionBecomes(s, "revoked")

\* tools/retention.mjs deletes expired codes, waiting for a locked one, and
\* sessions past their thirty days, revoked or not
PurgeCode(p) ==
  /\ pairing[p] \notin Void /\ pairing[p].expired /\ ~CodeLocked(p)
  /\ pairing' = [pairing EXCEPT ![p] = Gone]
  /\ UNCHANGED <<identity, recovery, credential, session, op, approvals>>

PurgeSession(s) ==
  /\ session[s].status \in {"expired", "revoked"}
  /\ session' = [session EXCEPT ![s] = Gone]
  /\ UNCHANGED <<identity, recovery, credential, pairing, op, approvals>>

Next ==
  \/ \E i \in Identity, k \in Credential, withRecovery \in BOOLEAN : Enroll(i, k, withRecovery)
  \/ \E k \in Credential : Revoke(k)
  \/ \E i \in Identity : DeleteIdentity(i)
  \/ \E p \in Code : StartPairing(p) \/ CodeExpires(p) \/ PurgeCode(p)
  \/ \E s \in Session : SessionAges(s) \/ Renew(s) \/ RevokeBrowserSession(s) \/ PurgeSession(s)
  \/ \E x \in Call :
       \/ \E i \in Identity : RecoverSelect(x, i)
       \/ \E k \in Credential : RecoverCommit(x, k) \/ \E p \in Code : ApproveCheck(x, k, p)
       \/ ApproveCommit(x)
       \/ \E p \in Code : ConsumeSelect(x, p)
       \/ \E s \in Session : ConsumeCommit(x, s)
       \/ Rollback(x)

Spec == Init /\ [][Next]_vars

-----------------------------------------------------------------------------
(* Properties                                                              *)

Active(s) == session[s].status \in {"fresh", "aging"}

\* A recovery code issues one replacement credential, however many requests
\* present it at once.
RecoveredOnce ==
  \A k, l \in Credential :
    /\ credential[k] \notin Void /\ credential[k].by = "recover"
    /\ credential[l] \notin Void /\ credential[l].by = "recover"
    /\ credential[k].identity = credential[l].identity
    => k = l

\* Once an identity is recovered no credential issued before works, and neither
\* does a browser session whose pairing was found approved before: a pairing
\* under way finishes either before the recovery, which then revokes its
\* session, or starts after it.
LockedOut ==
  \A i \in Identity : recovery[i] = "used" =>
    /\ \A k \in Credential :
         credential[k].identity = i /\ credential[k].status = "active" => credential[k].by = "recover"
    /\ \A s \in Session : session[s].identity = i /\ Active(s) => session[s].recovered

\* A code pairs one browser session, of the one identity that was told it had
\* approved the code.
PairedOnce ==
  \A s \in Session : session[s] \notin Void =>
    /\ {j \in Identity : <<j, session[s].code>> \in approvals} = {session[s].identity}
    /\ \A t \in Session : session[t] \notin Void /\ session[t].code = session[s].code => t = s

\* A revoked or expired session is never accepted again: authenticating renews
\* only a session that still is.
DeadStaysDead ==
  [][/\ \A s \in Session : session[s].status \in {"expired", "revoked", "gone"} => ~Active(s)'
     /\ \A k \in Credential :
          credential[k].status \in {"revoked", "gone"} => credential'[k].status # "active"]_vars
=============================================================================
