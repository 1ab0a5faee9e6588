------------------------ MODULE IdentityStore_proofs ------------------------
(***************************************************************************)
(* Proofs about IdentityStore for any number of identities, codes and      *)
(* overlapping calls.  What a call found under its locks still holds when  *)
(* it writes (FoundHolds), because two calls never hold the same row       *)
(* (HoldersDiffer); the properties follow from that one step at a time.    *)
(***************************************************************************)
EXTENDS IdentityStore, TLAPS

OnIdentity(x) == op[x].type \in {"recover", "consume"}
OnCode(x) == op[x].type \in {"approve", "consume"}

\* A row lock has one holder.
HoldersDiffer ==
  \A x, y \in Call : x # y =>
    /\ OnIdentity(x) /\ OnIdentity(y) => op[x].identity # op[y].identity
    /\ OnCode(x) /\ OnCode(y) => op[x].code # op[y].code

\* What the first step of a call found is so until its second.
FoundHolds ==
  \A x \in Call :
    /\ op[x].type = "recover" => recovery[op[x].identity] = "unused"
    /\ op[x].type = "approve" => pairing[op[x].code].status = "waiting"
    /\ op[x].type = "consume" =>
         /\ pairing[op[x].code].status = "approved"
         /\ pairing[op[x].code].identity = op[x].identity
         /\ op[x].recovered <=> recovery[op[x].identity] = "used"

\* Who was told of an approval: nobody before it, then one identity.
ToldOnce ==
  \A p \in Code, j \in Identity :
    /\ pairing[p].status \in {"unissued", "waiting"} => <<j, p>> \notin approvals
    /\ pairing[p].status \in {"approved", "consumed"} =>
         (<<j, p>> \in approvals <=> j = pairing[p].identity)

\* A session comes of a code that is spent.
CodesAreSpent ==
  \A s \in Session : session[s] \notin Void =>
    /\ session[s].code \in Code
    /\ pairing[session[s].code].status \in {"consumed", "gone"}
    /\ \A j \in Identity : <<j, session[s].code>> \in approvals <=> j = session[s].identity
    /\ \A t \in Session : session[t] \notin Void /\ session[t].code = session[s].code => t = s

\* A recovered credential shows that the code is used.
RecoveryIsUsed ==
  \A k \in Credential : credential[k] \notin Void /\ credential[k].by = "recover" =>
    recovery[credential[k].identity] = "used"

Locks == TypeOK /\ HoldersDiffer /\ FoundHolds
IdentityInv == Locks /\ ToldOnce /\ CodesAreSpent /\ RecoveryIsUsed /\ RecoveredOnce /\ LockedOut

\* The tables start empty and no call is under way.
LEMMA IdentityInit == Init => IdentityInv
  <1> SUFFICES ASSUME Init PROVE IdentityInv
    OBVIOUS
  <1>1. TypeOK
    BY DEF Init, TypeOK, Void, Unissued, Gone, Owned, InFlight, Idle
  <1>2. HoldersDiffer /\ FoundHolds
    BY DEF Init, HoldersDiffer, FoundHolds, OnIdentity, OnCode, Idle
  <1>3. ToldOnce /\ CodesAreSpent /\ RecoveryIsUsed /\ RecoveredOnce /\ LockedOut
    BY DEF Init, ToldOnce, CodesAreSpent, RecoveryIsUsed, RecoveredOnce, LockedOut, Void, Unissued, Active
  <1> QED BY <1>1, <1>2, <1>3 DEF IdentityInv, Locks

\* The shape of a call between its steps.
LEMMA OpShape ==
  ASSUME TypeOK, NEW x \in Call
  PROVE  /\ OnIdentity(x) => op[x].identity \in Identity
         /\ OnCode(x) => op[x].identity \in Identity /\ op[x].code \in Code
         /\ op[x].type = "consume" => op[x].recovered \in BOOLEAN
         /\ op[x] # Idle => OnIdentity(x) \/ OnCode(x)
  BY DEF TypeOK, InFlight, Idle, OnIdentity, OnCode

\* The shape of a row.
LEMMA RowShape ==
  ASSUME TypeOK
  PROVE  /\ \A k \in Credential : credential[k] \in Void \cup CredentialRow
         /\ \A p \in Code : pairing[p] \in Void \cup PairingRow
         /\ \A s \in Session : session[s] \in Void \cup SessionRow
  BY DEF TypeOK

\* A step that leaves every call but x alone, and ends x.
LEMMA DoneKeepsHolders ==
  ASSUME TypeOK, HoldersDiffer, NEW x \in Call, Done(x)
  PROVE  /\ HoldersDiffer' /\ op' \in [Call -> InFlight]
         /\ \A y \in Call : y # x => op'[y] = op[y]
         /\ op'[x] = Idle
  <1>1. /\ op' \in [Call -> InFlight]
        /\ \A y \in Call : y # x => op'[y] = op[y]
        /\ op'[x] = Idle
    BY DEF Done, TypeOK, InFlight
  <1>2. HoldersDiffer'
    BY <1>1 DEF HoldersDiffer, OnIdentity, OnCode, Idle
  <1> QED BY <1>1, <1>2

-----------------------------------------------------------------------------
(* The actions, one lemma each for Locks and one for the rest.             *)

\* A step that changes no table takes or drops locks.
LEMMA TakesStep ==
  ASSUME Locks, NEW x \in Call, NEW next \in InFlight, Takes(x, next),
         next.type \in {"recover", "consume"} => ~IdentityLocked(next.identity),
         next.type \in {"approve", "consume"} => ~CodeLocked(next.code),
         next.type = "recover" => recovery[next.identity] = "unused",
         next.type = "approve" => pairing[next.code].status = "waiting",
         next.type = "consume" => /\ pairing[next.code].status = "approved"
                                  /\ pairing[next.code].identity = next.identity
                                  /\ next.recovered <=> recovery[next.identity] = "used"
  PROVE  Locks'
  <1>1. /\ op' \in [Call -> InFlight]
        /\ \A y \in Call : y # x => op'[y] = op[y]
        /\ op'[x] = next
        /\ UNCHANGED <<tables, approvals>>
    BY DEF Takes, Locks, TypeOK
  <1>2. TypeOK'
    BY <1>1 DEF Locks, TypeOK, tables, Owned
  <1>3. HoldersDiffer'
    BY <1>1 DEF Locks, HoldersDiffer, OnIdentity, OnCode, IdentityLocked, CodeLocked
  <1>4. FoundHolds'
    BY <1>1 DEF Locks, FoundHolds, tables
  <1> QED BY <1>2, <1>3, <1>4 DEF Locks

\* Every step of a call, and of the rest of the system, respects the locks.
LEMMA LocksStep ==
  ASSUME Locks, Next
  PROVE  Locks'
  <1> USE IdentityAssumption
  <1>types. TypeOK /\ HoldersDiffer /\ FoundHolds
    BY DEF Locks
  <1>1. ASSUME NEW i \in Identity, NEW k \in Credential, NEW w \in BOOLEAN, Enroll(i, k, w)
        PROVE  Locks'
    <2>1. TypeOK'
      BY <1>1, <1>types DEF Enroll, TypeOK, Owned, Void, Unissued, Gone, CredentialRow
    <2>2. HoldersDiffer'
      BY <1>1, <1>types DEF Enroll, HoldersDiffer, OnIdentity, OnCode
    <2>3. \A x \in Call : op[x].type \in {"recover", "consume"} => op[x].identity # i
      BY <1>1, <1>types, OpShape, RowShape
         DEF Enroll, TypeOK, FoundHolds, Owned, OnIdentity, OnCode, Void, Unissued, Gone, PairingRow
    <2>4. FoundHolds'
      BY <1>1, <1>types, <2>3, OpShape DEF Enroll, TypeOK, FoundHolds, OnIdentity, OnCode
    <2> QED BY <2>1, <2>2, <2>4 DEF Locks
  <1>2. ASSUME NEW k \in Credential, Revoke(k)
        PROVE  Locks'
    <2>1. TypeOK'
      BY <1>2, <1>types DEF Revoke, TypeOK, Owned, Void, Unissued, Gone, CredentialRow
    <2> QED BY <1>2, <1>types, <2>1 DEF Revoke, Locks, HoldersDiffer, FoundHolds, OnIdentity, OnCode
  <1>3. ASSUME NEW i \in Identity, DeleteIdentity(i)
        PROVE  Locks'
    <2>1. \A x \in Call : op[x].type \in {"recover", "consume"} => op[x].identity # i
      BY <1>3 DEF DeleteIdentity, IdentityLocked
    <2>2. \A p \in Code : pairing'[p] = (IF pairing[p].identity = i THEN Gone ELSE pairing[p])
      BY <1>3, <1>types DEF DeleteIdentity, Cascade, TypeOK
    <2>3. /\ credential' \in [Credential -> Void \cup CredentialRow]
          /\ pairing' \in [Code -> Void \cup PairingRow]
          /\ session' \in [Session -> Void \cup SessionRow]
      BY <1>3, <1>types DEF DeleteIdentity, Cascade, TypeOK, Void
    <2>4. /\ \A k \in Credential : Owned(credential[k])'
          /\ \A p \in Code : Owned(pairing[p])'
          /\ \A s \in Session : Owned(session[s])'
      BY <1>3, <1>types, RowShape
         DEF DeleteIdentity, Cascade, TypeOK, Owned, Void, Unissued, Gone, CredentialRow, PairingRow, SessionRow
    <2>5. TypeOK'
      BY <1>3, <1>types, <2>3, <2>4 DEF DeleteIdentity, TypeOK
    <2>6. HoldersDiffer'
      BY <1>3, <1>types DEF DeleteIdentity, HoldersDiffer, OnIdentity, OnCode
    <2>7. \A p \in Code : pairing[p].status = "waiting" => pairing[p].identity # i
      BY <1>types, RowShape DEF Void, Unissued, Gone, PairingRow
    <2>8. FoundHolds'
      BY <1>3, <1>types, <2>1, <2>2, <2>7, OpShape DEF DeleteIdentity, TypeOK, FoundHolds, OnIdentity, OnCode
    <2> QED BY <2>5, <2>6, <2>8 DEF Locks
  <1>4. ASSUME NEW p \in Code, StartPairing(p)
        PROVE  Locks'
    <2>1. TypeOK'
      BY <1>4, <1>types DEF StartPairing, TypeOK, Owned, Void, Unissued, Gone, PairingRow
    <2>2. HoldersDiffer'
      BY <1>4, <1>types DEF StartPairing, HoldersDiffer, OnIdentity, OnCode
    <2>3. FoundHolds'
      BY <1>4, <1>types, OpShape DEF StartPairing, TypeOK, FoundHolds, Unissued, OnCode
    <2> QED BY <2>1, <2>2, <2>3 DEF Locks
  <1>5. ASSUME NEW p \in Code, CodeExpires(p)
        PROVE  Locks'
    <2> DEFINE row == [pairing[p] EXCEPT !.expired = TRUE]
    <2>0. /\ pairing[p] \in PairingRow
          /\ row \in PairingRow /\ row.identity = pairing[p].identity
      <3>1. pairing[p] \in PairingRow
        BY <1>5, <1>types, RowShape DEF CodeExpires
      <3> QED BY <3>1 DEF PairingRow
    <2>5. pairing' = [pairing EXCEPT ![p] = row]
      BY <1>5 DEF CodeExpires
    <2>1. TypeOK'
      BY <1>5, <1>types, <2>0, <2>5 DEF CodeExpires, TypeOK, Owned
    <2>2. HoldersDiffer'
      BY <1>5, <1>types DEF CodeExpires, HoldersDiffer, OnIdentity, OnCode
    <2>3. \A q \in Code : pairing'[q].status = pairing[q].status /\ pairing'[q].identity = pairing[q].identity
      BY <1>5, <1>types, RowShape DEF CodeExpires, TypeOK, PairingRow
    <2>4. FoundHolds'
      BY <1>5, <1>types, <2>3, OpShape DEF CodeExpires, TypeOK, FoundHolds, OnCode
    <2> QED BY <2>1, <2>2, <2>4 DEF Locks
  <1>6. ASSUME NEW p \in Code, PurgeCode(p)
        PROVE  Locks'
    <2>1. TypeOK'
      BY <1>6, <1>types DEF PurgeCode, TypeOK, Owned, Void, Gone
    <2>2. HoldersDiffer'
      BY <1>6, <1>types DEF PurgeCode, HoldersDiffer, OnIdentity, OnCode
    <2>3. \A x \in Call : OnCode(x) => op[x].code # p
      BY <1>6 DEF PurgeCode, CodeLocked, OnCode
    <2>4. FoundHolds'
      BY <1>6, <1>types, <2>3, OpShape DEF PurgeCode, TypeOK, FoundHolds, OnCode
    <2> QED BY <2>1, <2>2, <2>4 DEF Locks
  <1>7. ASSUME NEW s \in Session,
               SessionAges(s) \/ Renew(s) \/ RevokeBrowserSession(s) \/ PurgeSession(s)
        PROVE  Locks'
    <2>1. session[s] \in SessionRow
      BY <1>7, <1>types, RowShape
         DEF SessionAges, Renew, MayRenew, RevokeBrowserSession, PurgeSession, Void, Unissued, Gone
    <2>2. TypeOK'
      BY <1>7, <1>types, <2>1
         DEF SessionAges, Renew, RevokeBrowserSession, PurgeSession, SessionBecomes, TypeOK, Owned, SessionRow, Void, Gone
    <2> QED BY <1>7, <1>types, <2>2
         DEF SessionAges, Renew, RevokeBrowserSession, PurgeSession, SessionBecomes, Locks, HoldersDiffer,
             FoundHolds, OnIdentity, OnCode
  <1>8. ASSUME NEW x \in Call, NEW i \in Identity, RecoverSelect(x, i)
        PROVE  Locks'
    <2>1. [type |-> "recover", identity |-> i] \in InFlight
      BY DEF InFlight
    <2> QED BY <1>8, <2>1, TakesStep DEF RecoverSelect
  <1>9. ASSUME NEW x \in Call, NEW k \in Credential, RecoverCommit(x, k)
        PROVE  Locks'
    <2> DEFINE i == op[x].identity
    <2>1. i \in Identity /\ recovery[i] = "unused" /\ identity[i] = "live"
      BY <1>9, <1>types, OpShape DEF RecoverCommit, FoundHolds, OnIdentity, TypeOK
    <2>2. /\ credential' \in [Credential -> Void \cup CredentialRow]
          /\ \A l \in Credential : Owned(credential[l])'
      BY <1>9, <1>types, <2>1, RowShape
         DEF RecoverCommit, RevokedCredentials, TypeOK, Owned, Void, Unissued, Gone, CredentialRow
    <2>3. /\ session' \in [Session -> Void \cup SessionRow]
          /\ \A s \in Session : Owned(session[s])'
      BY <1>9, <1>types, <2>1, RowShape
         DEF RecoverCommit, RevokedSessions, TypeOK, Owned, Void, Unissued, Gone, SessionRow
    <2>5. TypeOK'
      BY <1>9, <1>types, <2>1, <2>2, <2>3, DoneKeepsHolders
         DEF RecoverCommit, CodeAfterRecovery, TypeOK, Owned
    <2>6. \A y \in Call : y # x /\ OnIdentity(y) => op[y].identity # i
      BY <1>9, <1>types DEF RecoverCommit, HoldersDiffer, OnIdentity
    <2>7. FoundHolds'
      BY <1>9, <1>types, <2>1, <2>6, DoneKeepsHolders, OpShape
         DEF RecoverCommit, FoundHolds, TypeOK, OnIdentity, OnCode, Idle
    <2> QED BY <1>9, <1>types, <2>5, <2>7, DoneKeepsHolders DEF RecoverCommit, Locks
  <1>10. ASSUME NEW x \in Call, NEW k \in Credential, NEW p \in Code, ApproveCheck(x, k, p)
         PROVE  Locks'
    <2>1. credential[k].identity \in Identity
      BY <1>10, <1>types, RowShape DEF ApproveCheck, CredentialRow, Void, Unissued, Gone
    <2>2. [type |-> "approve", identity |-> credential[k].identity, code |-> p] \in InFlight
      BY <2>1 DEF InFlight
    <2> QED BY <1>10, <2>2, TakesStep DEF ApproveCheck, MayApprove
  <1>11. ASSUME NEW x \in Call, ApproveCommit(x)
         PROVE  Locks'
    <2> DEFINE i == op[x].identity
               p == op[x].code
    <2>1. i \in Identity /\ p \in Code /\ pairing[p].status = "waiting" /\ identity[i] = "live"
      BY <1>11, <1>types, OpShape DEF ApproveCommit, FoundHolds, OnCode
    <2> DEFINE row == [pairing[p] EXCEPT !.status = "approved", !.identity = i]
    <2>2. /\ \A q \in Code : q # p => pairing'[q] = pairing[q]
          /\ pairing'[p] \in PairingRow /\ pairing'[p].identity = i /\ pairing'[p].status = "approved"
          /\ pairing' \in [Code -> Void \cup PairingRow]
      <3>1. pairing[p] \in PairingRow
        BY <1>types, <2>1, RowShape DEF Void, Unissued, Gone
      <3>2. row \in PairingRow /\ row.identity = i /\ row.status = "approved"
        BY <2>1, <3>1 DEF PairingRow
      <3>3. pairing' = [pairing EXCEPT ![p] = row]
        BY <1>11 DEF ApproveCommit
      <3> QED BY <1>types, <2>1, <3>2, <3>3 DEF TypeOK
    <2>3. TypeOK'
      BY <1>11, <1>types, <2>1, <2>2, DoneKeepsHolders DEF ApproveCommit, TypeOK, Owned
    <2>4. \A y \in Call : y # x /\ OnCode(y) => op[y].code # p
      BY <1>11, <1>types DEF ApproveCommit, HoldersDiffer, OnCode
    <2>5. FoundHolds'
      BY <1>11, <1>types, <2>1, <2>2, <2>4, DoneKeepsHolders, OpShape
         DEF ApproveCommit, FoundHolds, OnCode, Idle
    <2> QED BY <1>11, <1>types, <2>3, <2>5, DoneKeepsHolders DEF ApproveCommit, Locks
  <1>12. ASSUME NEW x \in Call, NEW p \in Code, ConsumeSelect(x, p)
         PROVE  Locks'
    <2> DEFINE i == pairing[p].identity
               next == [type |-> "consume", identity |-> i, code |-> p, recovered |-> recovery[i] = "used"]
    <2>1. i \in Identity
      BY <1>12, <1>types, RowShape DEF ConsumeSelect, PairingRow, Void, Unissued, Gone
    <2>2. next \in InFlight
      BY <2>1 DEF InFlight
    <2>3. Takes(x, next)
      BY <1>12 DEF ConsumeSelect
    <2> QED BY <1>12, <2>2, <2>3, TakesStep DEF ConsumeSelect
  <1>13. ASSUME NEW x \in Call, NEW s \in Session, ConsumeCommit(x, s)
         PROVE  Locks'
    <2> DEFINE i == op[x].identity
               p == op[x].code
    <2>1. /\ i \in Identity /\ p \in Code /\ op[x].recovered \in BOOLEAN
          /\ pairing[p].status = "approved" /\ pairing[p].identity = i
      BY <1>13, <1>types, OpShape DEF ConsumeCommit, FoundHolds, OnCode
    <2>2. /\ \A q \in Code : q # p => pairing'[q] = pairing[q]
          /\ pairing'[p] \in PairingRow /\ pairing'[p].identity = i
          /\ pairing' \in [Code -> Void \cup PairingRow]
      BY <1>13, <1>types, <2>1, RowShape DEF ConsumeCommit, TypeOK, PairingRow, Void, Unissued, Gone
    <2>3. identity[i] = "live"
      BY <1>types, <2>1 DEF TypeOK, Owned
    <2>4. /\ session' \in [Session -> Void \cup SessionRow]
          /\ \A t \in Session : Owned(session[t])'
      BY <1>13, <1>types, <2>1, <2>3 DEF ConsumeCommit, TypeOK, Owned, SessionRow
    <2>5. TypeOK'
      BY <1>13, <1>types, <2>2, <2>3, <2>4, DoneKeepsHolders DEF ConsumeCommit, TypeOK, Owned
    <2>6. \A y \in Call : y # x /\ OnCode(y) => op[y].code # p
      BY <1>13, <1>types DEF ConsumeCommit, HoldersDiffer, OnCode
    <2>7. FoundHolds'
      BY <1>13, <1>types, <2>1, <2>2, <2>6, DoneKeepsHolders, OpShape
         DEF ConsumeCommit, FoundHolds, OnCode, Idle
    <2> QED BY <1>13, <1>types, <2>5, <2>7, DoneKeepsHolders DEF ConsumeCommit, Locks
  <1>14. ASSUME NEW x \in Call, Rollback(x)
         PROVE  Locks'
    <2>1. FoundHolds'
      BY <1>14, <1>types, DoneKeepsHolders DEF Rollback, FoundHolds, tables, Idle
    <2> QED BY <1>14, <1>types, <2>1, DoneKeepsHolders DEF Rollback, Locks, tables, TypeOK, Owned
  <1> QED BY <1>1, <1>2, <1>3, <1>4, <1>5, <1>6, <1>7, <1>8, <1>9, <1>10, <1>11, <1>12, <1>13, <1>14 DEF Next

\* The invariants about approvals, sessions and recoveries, from the locks.
LEMMA IdentityStep ==
  ASSUME IdentityInv, Next
  PROVE  (ToldOnce /\ CodesAreSpent /\ RecoveryIsUsed /\ RecoveredOnce /\ LockedOut)'
  <1> USE IdentityAssumption
  <1> DEFINE Facts == ToldOnce /\ CodesAreSpent /\ RecoveryIsUsed /\ RecoveredOnce /\ LockedOut
  <1>types. TypeOK /\ HoldersDiffer /\ FoundHolds
    BY DEF IdentityInv, Locks
  <1>facts. Facts
    BY DEF IdentityInv
  <1>rows. /\ \A k \in Credential : credential[k] \in Void \cup CredentialRow
           /\ \A p \in Code : pairing[p] \in Void \cup PairingRow
           /\ \A s \in Session : session[s] \in Void \cup SessionRow
    BY <1>types, RowShape
  <1>1. ASSUME NEW i \in Identity, NEW k \in Credential, NEW w \in BOOLEAN, Enroll(i, k, w)
        PROVE  Facts'
    <2>1. \A l \in Credential : credential[l].identity # i
      BY <1>1, <1>types, <1>rows DEF Enroll, TypeOK, Owned, Void, Unissued, Gone, CredentialRow
    <2>2. \A l \in Credential : l # k => credential'[l] = credential[l]
      BY <1>1, <1>types DEF Enroll, TypeOK
    <2>3. credential'[k] = [status |-> "active", identity |-> i, by |-> "enroll"] /\ credential'[k] \notin Void
      BY <1>1, <1>types DEF Enroll, TypeOK, Void, Unissued, Gone
    <2>4. \A j \in Identity : recovery'[j] = "used" => recovery[j] = "used" /\ j # i
      BY <1>1, <1>types DEF Enroll, TypeOK
    <2>5. (RecoveryIsUsed /\ RecoveredOnce)'
      BY <1>1, <1>facts, <1>types, <1>rows, <2>1, <2>2, <2>3
         DEF Enroll, RecoveryIsUsed, RecoveredOnce, TypeOK, Void, Unissued, Gone, CredentialRow
    <2>6. LockedOut'
      BY <1>1, <1>facts, <2>2, <2>3, <2>4 DEF Enroll, LockedOut, Active
    <2> QED BY <1>1, <1>facts, <2>5, <2>6 DEF Enroll, ToldOnce, CodesAreSpent
  <1>2. ASSUME NEW k \in Credential, Revoke(k)
        PROVE  Facts'
    <2>1. /\ credential[k] \in CredentialRow
          /\ credential'[k].status = "revoked" /\ credential'[k].identity = credential[k].identity
          /\ credential'[k].by = credential[k].by /\ credential'[k] \notin Void
          /\ \A l \in Credential : l # k => credential'[l] = credential[l]
      BY <1>2, <1>types, <1>rows DEF Revoke, TypeOK, Void, Unissued, Gone, CredentialRow
    <2>2. credential[k] \notin Void
      BY <1>2 DEF Revoke, Void, Unissued, Gone
    <2>3. (RecoveryIsUsed /\ RecoveredOnce)'
      BY <1>2, <1>facts, <2>1, <2>2 DEF Revoke, RecoveryIsUsed, RecoveredOnce, Void, Unissued, Gone
    <2>4. LockedOut'
      BY <1>2, <1>facts, <2>1 DEF Revoke, LockedOut, Active
    <2> QED BY <1>2, <1>facts, <2>3, <2>4 DEF Revoke, ToldOnce, CodesAreSpent
  <1>3. ASSUME NEW i \in Identity, DeleteIdentity(i)
        PROVE  Facts'
    <2>1. /\ \A k \in Credential : credential'[k] = IF credential[k].identity = i THEN Gone ELSE credential[k]
          /\ \A p \in Code : pairing'[p] = IF pairing[p].identity = i THEN Gone ELSE pairing[p]
          /\ \A s \in Session : session'[s] = IF session[s].identity = i THEN Gone ELSE session[s]
          /\ \A j \in Identity : j # i => recovery'[j] = recovery[j]
          /\ recovery'[i] = "none" /\ UNCHANGED approvals
      BY <1>3, <1>types DEF DeleteIdentity, Cascade, TypeOK
    <2>2. ToldOnce'
      <3> SUFFICES ASSUME NEW p \in Code, NEW j \in Identity
                   PROVE  /\ pairing'[p].status \in {"unissued", "waiting"} => <<j, p>> \notin approvals'
                          /\ pairing'[p].status \in {"approved", "consumed"} =>
                               (<<j, p>> \in approvals' <=> j = pairing'[p].identity)
        BY DEF ToldOnce
      <3>1. CASE pairing[p].identity = i
        BY <2>1, <3>1 DEF Gone
      <3>2. CASE pairing[p].identity # i
        BY <1>facts, <2>1, <3>2 DEF ToldOnce
      <3> QED BY <3>1, <3>2
    <2>3. CodesAreSpent'
      BY <1>facts, <2>1 DEF CodesAreSpent, Void, Gone, Unissued
    <2>4. (RecoveryIsUsed /\ RecoveredOnce)'
      BY <1>facts, <1>rows, <2>1 DEF RecoveryIsUsed, RecoveredOnce, Void, Gone, Unissued, CredentialRow
    <2>5. LockedOut'
      BY <1>facts, <2>1 DEF LockedOut, Active, Gone
    <2> QED BY <2>2, <2>3, <2>4, <2>5
  <1>4. ASSUME NEW p \in Code, StartPairing(p) \/ CodeExpires(p) \/ PurgeCode(p)
        PROVE  Facts'
    <2>1. /\ \A q \in Code : q # p => pairing'[q] = pairing[q]
          /\ \/ pairing[p].status = "unissued" /\ pairing'[p].status = "waiting"
             \/ pairing'[p].status = pairing[p].status /\ pairing'[p].identity = pairing[p].identity
             \/ pairing'[p].status = "gone"
      <3>1. CASE StartPairing(p)
        BY <3>1, <1>types DEF StartPairing, TypeOK, Unissued
      <3>2. CASE CodeExpires(p)
        <4>1. pairing[p] \in PairingRow
          BY <3>2, <1>rows DEF CodeExpires
        <4> QED BY <3>2, <4>1, <1>types DEF CodeExpires, TypeOK, PairingRow
      <3>3. CASE PurgeCode(p)
        BY <3>3, <1>types DEF PurgeCode, TypeOK, Gone
      <3> QED BY <1>4, <3>1, <3>2, <3>3
    <2>2. UNCHANGED <<identity, recovery, credential, session, approvals>>
      BY <1>4 DEF StartPairing, CodeExpires, PurgeCode
    <2>3. ToldOnce'
      BY <1>facts, <2>1, <2>2 DEF ToldOnce
    <2>4. CodesAreSpent'
      BY <1>facts, <2>1, <2>2 DEF CodesAreSpent
    <2> QED BY <1>facts, <2>2, <2>3, <2>4 DEF RecoveryIsUsed, RecoveredOnce, LockedOut, Active
  <1>5. ASSUME NEW s \in Session,
               SessionAges(s) \/ Renew(s) \/ RevokeBrowserSession(s) \/ PurgeSession(s)
        PROVE  Facts'
    <2>0. session[s] \in SessionRow /\ session[s] \notin Void
      BY <1>5, <1>rows
         DEF SessionAges, Renew, MayRenew, RevokeBrowserSession, PurgeSession, Void, Unissued, Gone
    <2>1. /\ \A t \in Session : t # s => session'[t] = session[t]
          /\ \/ session'[s] = Gone
             \/ /\ session'[s].identity = session[s].identity /\ session'[s].code = session[s].code
                /\ session'[s].recovered = session[s].recovered
          /\ Active(s)' => Active(s)
      BY <1>5, <1>types, <2>0
         DEF SessionAges, Renew, MayRenew, RevokeBrowserSession, PurgeSession, SessionBecomes, TypeOK,
             SessionRow, Active, Gone
    <2>2. UNCHANGED <<identity, recovery, credential, pairing, approvals>>
      BY <1>5 DEF SessionAges, Renew, RevokeBrowserSession, PurgeSession, SessionBecomes
    <2>3. CodesAreSpent'
      BY <1>facts, <2>0, <2>1, <2>2 DEF CodesAreSpent, Void, Gone
    <2>4. LockedOut'
      <3>1. \A t \in Session : Active(t)' =>
               Active(t) /\ session'[t].identity = session[t].identity /\ session'[t].recovered = session[t].recovered
        BY <2>1 DEF Active, Gone
      <3> QED BY <1>facts, <2>2, <3>1 DEF LockedOut
    <2> QED BY <1>facts, <2>2, <2>3, <2>4 DEF ToldOnce, RecoveryIsUsed, RecoveredOnce
  <1>6. ASSUME NEW x \in Call, NEW k \in Credential, RecoverCommit(x, k)
        PROVE  Facts'
    <2> DEFINE i == op[x].identity
    <2>1. i \in Identity /\ recovery[i] = "unused"
      BY <1>6, <1>types, OpShape DEF RecoverCommit, FoundHolds, OnIdentity
    <2>2. /\ credential[k] = Unissued
          /\ credential'[k] = [status |-> "active", identity |-> i, by |-> "recover"]
          /\ \A l \in Credential : l # k =>
               credential'[l] = IF credential[l].identity = i
                                THEN [credential[l] EXCEPT !.status = "revoked"] ELSE credential[l]
      BY <1>6, <1>types DEF RecoverCommit, RevokedCredentials, TypeOK
    <2>3. \A l \in Credential : l # k =>
            /\ credential'[l] \in Void <=> credential[l] \in Void
            /\ credential'[l].identity = credential[l].identity
            /\ credential[l] \notin Void => credential'[l].by = credential[l].by
            /\ credential[l].identity = i => credential'[l].status = "revoked"
            /\ credential[l].identity # i => credential'[l] = credential[l]
      <3> SUFFICES ASSUME NEW l \in Credential, l # k
                   PROVE  /\ credential'[l] \in Void <=> credential[l] \in Void
                          /\ credential'[l].identity = credential[l].identity
                          /\ credential[l] \notin Void => credential'[l].by = credential[l].by
                          /\ credential[l].identity = i => credential'[l].status = "revoked"
                          /\ credential[l].identity # i => credential'[l] = credential[l]
        OBVIOUS
      <3>1. CASE credential[l] \in Void
        <4>1. credential[l].identity # i
          BY <2>1, <3>1 DEF Void, Unissued, Gone
        <4>2. credential'[l] = credential[l]
          BY <2>2, <4>1
        <4> QED BY <3>1, <4>1, <4>2
      <3>2. CASE credential[l] \in CredentialRow /\ credential[l].identity = i
        <4> DEFINE row == [credential[l] EXCEPT !.status = "revoked"]
        <4>1. credential'[l] = row
          BY <2>2, <3>2
        <4>2. row \in CredentialRow /\ row.identity = i /\ row.by = credential[l].by /\ row.status = "revoked"
          BY <3>2 DEF CredentialRow
        <4>3. \A r \in CredentialRow : r \notin Void
          BY DEF CredentialRow, Void, Unissued, Gone
        <4> HIDE DEF row
        <4> QED BY <3>2, <4>1, <4>2, <4>3
      <3>3. CASE credential[l] \in CredentialRow /\ credential[l].identity # i
        <4>1. credential'[l] = credential[l]
          BY <2>2, <3>3
        <4> QED BY <3>3, <4>1
      <3> QED BY <1>rows, <3>1, <3>2, <3>3
    <2>4. \A l \in Credential : l # k /\ credential[l] \notin Void /\ credential[l].by = "recover" =>
            credential[l].identity # i
      BY <1>facts, <2>1 DEF RecoveryIsUsed
    <2>5. /\ recovery'[i] = "used"
          /\ \A j \in Identity : j # i => recovery'[j] = recovery[j]
          /\ UNCHANGED <<pairing, approvals>>
      BY <1>6, <1>types, <2>1 DEF RecoverCommit, CodeAfterRecovery, TypeOK
    <2>6. \A s \in Session :
            /\ session'[s] \in Void <=> session[s] \in Void
            /\ session'[s].identity = session[s].identity
            /\ session[s] \notin Void => session'[s].code = session[s].code
            /\ session[s].identity = i => session'[s].status = "revoked"
            /\ session[s].identity # i => session'[s] = session[s]
      BY <1>6, <1>types, <1>rows, <2>1 DEF RecoverCommit, RevokedSessions, TypeOK, Void, Unissued, Gone, SessionRow
    <2>7. RecoveryIsUsed'
      BY <1>facts, <1>rows, <2>2, <2>3, <2>5 DEF RecoveryIsUsed, CredentialRow
    <2>8. RecoveredOnce'
      BY <1>facts, <2>2, <2>3, <2>4 DEF RecoveredOnce
    <2>9. LockedOut'
      BY <1>facts, <2>2, <2>3, <2>5, <2>6 DEF LockedOut, Active
    <2>10. (ToldOnce /\ CodesAreSpent)'
      BY <1>facts, <2>5, <2>6 DEF ToldOnce, CodesAreSpent
    <2> QED BY <2>7, <2>8, <2>9, <2>10
  <1>7. ASSUME NEW x \in Call, ApproveCommit(x)
        PROVE  Facts'
    <2> DEFINE i == op[x].identity
               p == op[x].code
    <2>1. i \in Identity /\ p \in Code /\ pairing[p].status = "waiting"
      BY <1>7, <1>types, OpShape DEF ApproveCommit, FoundHolds, OnCode
    <2>2. pairing[p] \in PairingRow
      BY <1>rows, <2>1 DEF Void, Unissued, Gone
    <2>3. /\ \A q \in Code : q # p => pairing'[q] = pairing[q]
          /\ pairing'[p].status = "approved" /\ pairing'[p].identity = i
          /\ approvals' = approvals \cup {<<i, p>>}
          /\ UNCHANGED <<identity, recovery, credential, session>>
      BY <1>7, <1>types, <2>1, <2>2 DEF ApproveCommit, TypeOK, PairingRow
    <2>4. ToldOnce'
      BY <1>facts, <2>1, <2>3 DEF ToldOnce
    <2>5. \A s \in Session : session[s] \notin Void => session[s].code # p
      BY <1>facts, <2>1 DEF CodesAreSpent
    <2>6. CodesAreSpent'
      BY <1>facts, <2>3, <2>5 DEF CodesAreSpent
    <2> QED BY <1>facts, <2>3, <2>4, <2>6 DEF RecoveryIsUsed, RecoveredOnce, LockedOut, Active
  <1>8. ASSUME NEW x \in Call, NEW s \in Session, ConsumeCommit(x, s)
        PROVE  Facts'
    <2> DEFINE i == op[x].identity
               p == op[x].code
    <2>1. /\ i \in Identity /\ p \in Code /\ pairing[p].status = "approved" /\ pairing[p].identity = i
          /\ op[x].recovered <=> recovery[i] = "used"
      BY <1>8, <1>types, OpShape DEF ConsumeCommit, FoundHolds, OnCode
    <2>2. pairing[p] \in PairingRow
      BY <1>rows, <2>1 DEF Void, Unissued, Gone
    <2>3. /\ \A q \in Code : q # p => pairing'[q] = pairing[q]
          /\ pairing'[p].status = "consumed" /\ pairing'[p].identity = i
          /\ \A t \in Session : t # s => session'[t] = session[t]
          /\ session[s] = Unissued
          /\ session'[s] = [status |-> "fresh", identity |-> i, code |-> p, recovered |-> op[x].recovered]
          /\ UNCHANGED <<identity, recovery, credential, approvals>>
      BY <1>8, <1>types, <2>1, <2>2 DEF ConsumeCommit, TypeOK, PairingRow
    <2>4. ToldOnce'
      <3> SUFFICES ASSUME NEW q \in Code, NEW j \in Identity
                   PROVE  /\ pairing'[q].status \in {"unissued", "waiting"} => <<j, q>> \notin approvals'
                          /\ pairing'[q].status \in {"approved", "consumed"} =>
                               (<<j, q>> \in approvals' <=> j = pairing'[q].identity)
        BY DEF ToldOnce
      <3>1. CASE q = p
        <4>1. <<j, p>> \in approvals <=> j = i
          BY <1>facts, <2>1 DEF ToldOnce
        <4> QED BY <2>3, <3>1, <4>1
      <3>2. CASE q # p
        BY <1>facts, <2>3, <3>2 DEF ToldOnce
      <3> QED BY <3>1, <3>2
    <2>5. \A t \in Session : session[t] \notin Void => session[t].code # p
      BY <1>facts, <2>1 DEF CodesAreSpent
    <2>6. \A j \in Identity : <<j, p>> \in approvals <=> j = i
      BY <1>facts, <2>1 DEF ToldOnce
    <2>7. session'[s] \notin Void /\ session[s] \in Void
      BY <2>3 DEF Void, Unissued, Gone
    <2>8. CodesAreSpent'
      BY <1>facts, <2>1, <2>3, <2>5, <2>6, <2>7 DEF CodesAreSpent
    <2>9. LockedOut'
      BY <1>facts, <2>1, <2>3 DEF LockedOut, Active
    <2> QED BY <1>facts, <2>3, <2>4, <2>8, <2>9 DEF RecoveryIsUsed, RecoveredOnce
  <1>9. ASSUME UNCHANGED <<tables, approvals>>
        PROVE  Facts'
    BY <1>9, <1>facts DEF tables, ToldOnce, CodesAreSpent, RecoveryIsUsed, RecoveredOnce, LockedOut, Active
  <1>10. ASSUME NEW x \in Call,
                \/ \E i \in Identity : RecoverSelect(x, i)
                \/ \E k \in Credential, p \in Code : ApproveCheck(x, k, p)
                \/ \E p \in Code : ConsumeSelect(x, p)
                \/ Rollback(x)
         PROVE  Facts'
    BY <1>9, <1>10 DEF RecoverSelect, ApproveCheck, ConsumeSelect, Rollback, Takes
  <1> QED BY <1>1, <1>2, <1>3, <1>4, <1>5, <1>6, <1>7, <1>8, <1>10 DEF Next

\* The invariant holds initially and every step keeps it.
THEOREM IdentityInvariant == Spec => []IdentityInv
  <1>1. IdentityInv /\ [Next]_vars => IdentityInv'
    <2> SUFFICES ASSUME IdentityInv, [Next]_vars PROVE IdentityInv'
      OBVIOUS
    <2>1. CASE Next
      BY <2>1, LocksStep, IdentityStep DEF IdentityInv
    <2>2. CASE UNCHANGED vars
      BY <2>2 DEF vars, IdentityInv, Locks, TypeOK, Owned, HoldersDiffer, FoundHolds, OnIdentity, OnCode,
                  ToldOnce, CodesAreSpent, RecoveryIsUsed, RecoveredOnce, LockedOut, Active
    <2> QED BY <2>1, <2>2
  <1> QED BY <1>1, IdentityInit, PTL DEF Spec

\* The types of the tables and of every call, and that no row outlives its
\* identity.
THEOREM IdentityTyping == Spec => []TypeOK
  <1>1. IdentityInv => TypeOK
    BY DEF IdentityInv, Locks
  <1> QED BY <1>1, IdentityInvariant, PTL

\* A recovery code issues one replacement credential.
THEOREM OneRecovery == Spec => []RecoveredOnce
  <1>1. IdentityInv => RecoveredOnce
    BY DEF IdentityInv
  <1> QED BY <1>1, IdentityInvariant, PTL

\* A recovery ends every credential, and every session whose pairing began,
\* before it.
THEOREM RecoveryLocksOut == Spec => []LockedOut
  <1>1. IdentityInv => LockedOut
    BY DEF IdentityInv
  <1> QED BY <1>1, IdentityInvariant, PTL

\* A code pairs one session, of the identity told that it approved the code.
THEOREM OnePairing == Spec => []PairedOnce
  <1>1. IdentityInv => PairedOnce
    <2> SUFFICES ASSUME IdentityInv, NEW s \in Session, session[s] \notin Void
                 PROVE  /\ {j \in Identity : <<j, session[s].code>> \in approvals} = {session[s].identity}
                        /\ \A t \in Session :
                             session[t] \notin Void /\ session[t].code = session[s].code => t = s
      BY DEF PairedOnce
    <2>1. session[s].identity \in Identity
      BY RowShape DEF IdentityInv, Locks, SessionRow
    <2> QED BY <2>1 DEF IdentityInv, CodesAreSpent
  <1> QED BY <1>1, IdentityInvariant, PTL

\* What is revoked, expired or gone stays so.
THEOREM DeadRowsStayDead == Spec => DeadStaysDead
  <1> DEFINE Dead(s) == session[s].status \in {"expired", "revoked", "gone"}
             Kept == /\ \A s \in Session : Dead(s) => ~Active(s)'
                     /\ \A k \in Credential :
                          credential[k].status \in {"revoked", "gone"} => credential'[k].status # "active"
  <1>1. TypeOK /\ [Next]_vars => Kept
    <2> SUFFICES ASSUME TypeOK, [Next]_vars PROVE Kept
      OBVIOUS
    <2>same. ASSUME UNCHANGED <<credential, session>> PROVE Kept
      BY <2>same DEF Active
    <2>1. ASSUME NEW i \in Identity, NEW k \in Credential, NEW w \in BOOLEAN, Enroll(i, k, w)
          PROVE  Kept
      BY <2>1 DEF Enroll, TypeOK, Active, Unissued
    <2>2. ASSUME NEW k \in Credential, Revoke(k)
          PROVE  Kept
      BY <2>2 DEF Revoke, TypeOK, Active
    <2>3. ASSUME NEW i \in Identity, DeleteIdentity(i)
          PROVE  Kept
      BY <2>3 DEF DeleteIdentity, Cascade, TypeOK, Active, Gone
    <2>4. ASSUME NEW s \in Session,
                 SessionAges(s) \/ Renew(s) \/ RevokeBrowserSession(s) \/ PurgeSession(s)
          PROVE  Kept
      <3>1. /\ \A t \in Session : t # s => session'[t] = session[t]
            /\ Dead(s) => session'[s] = Gone \/ session'[s].status \in {"revoked", "expired"}
            /\ UNCHANGED credential
        BY <2>4, RowShape
           DEF SessionAges, Renew, MayRenew, RevokeBrowserSession, PurgeSession, SessionBecomes, TypeOK,
               SessionRow, Void, Unissued, Gone
      <3> QED BY <3>1 DEF Active, Gone
    <2>5. ASSUME NEW x \in Call, NEW k \in Credential, RecoverCommit(x, k)
          PROVE  Kept
      <3>1. \A l \in Credential : credential[l].status \in {"revoked", "gone"} => l # k
        BY <2>5 DEF RecoverCommit, Unissued
      <3>2. \A l \in Credential : l # k =>
              credential'[l].status = "revoked" \/ credential'[l] = credential[l]
        BY <2>5, RowShape, IdentityAssumption
           DEF RecoverCommit, RevokedCredentials, TypeOK, CredentialRow, Void, Unissued, Gone
      <3>3. \A s \in Session : session'[s].status = "revoked" \/ session'[s] = session[s]
        BY <2>5, RowShape, OpShape, IdentityAssumption
           DEF RecoverCommit, RevokedSessions, TypeOK, SessionRow, Void, Unissued, Gone, OnIdentity
      <3> QED BY <3>1, <3>2, <3>3 DEF Active
    <2>6. ASSUME NEW x \in Call, NEW s \in Session, ConsumeCommit(x, s)
          PROVE  Kept
      BY <2>6 DEF ConsumeCommit, TypeOK, Active, Unissued
    <2>7. CASE UNCHANGED vars
      BY <2>7, <2>same DEF vars
    <2> QED BY <2>same, <2>1, <2>2, <2>3, <2>4, <2>5, <2>6, <2>7
            DEF Next, StartPairing, CodeExpires, PurgeCode, RecoverSelect, ApproveCheck, ApproveCommit,
                ConsumeSelect, Rollback, Takes, tables
  <1>2. TypeOK /\ [Next]_vars =>
          [/\ \A s \in Session : session[s].status \in {"expired", "revoked", "gone"} => ~Active(s)'
           /\ \A k \in Credential :
                credential[k].status \in {"revoked", "gone"} => credential'[k].status # "active"]_vars
    BY <1>1
  <1> HIDE DEF Dead, Kept
  <1> QED BY <1>2, IdentityTyping, PTL DEF Spec, DeadStaysDead
=============================================================================
