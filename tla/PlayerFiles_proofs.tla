------------------------ MODULE PlayerFiles_proofs ------------------------
(***************************************************************************)
(* Proofs about the files of a player: RuntimeFiles on the card of the     *)
(* console, DesktopLauncher on the disk of a computer, for any number of   *)
(* failures, power cuts, games and saves.                                  *)
(***************************************************************************)
EXTENDS RuntimeFiles, DesktopLauncher, FiniteSetTheorems, TLAPS

-----------------------------------------------------------------------------
(***************************************************************************)
(* RuntimeFiles. Each property has an invariant of its own over the shape  *)
(* of the files (Shape), which says what the temporary files hold at each  *)
(* operation.                                                              *)
(***************************************************************************)

\* The save on the card while a backup is made of it, and each temporary file
\* when it is about to be renamed.
Ready ==
  /\ pc \in {"openBackup", "copyBackup", "list", "prune"} => Whole(file["save"])
  /\ pc \in {"remove", "rename"} => file["save.tmp"] = saveRam
  /\ pc = "moveUpdate" => file["app.tmp"] = Release
  /\ pc \in {"writeIdentity", "moveIdentity"} => Whole(identityId)
  /\ pc = "moveIdentity" => file["identity.tmp"] = identityId

Programs == \A p \in {"app", "app.bak"} : file[p] \in {Old, Release, Absent}

Shape == TypeOK /\ Ready /\ Programs

\* The save is the last one written, or was just removed for a newer one; memory
\* and its hash are not older.
SaveInv ==
  kept # Absent /\ "saveGone" \notin mishaps =>
    /\ \/ file["save"] = kept
       \/ file["save"] = Absent /\ pc \in {"rename", "off"} /\ Whole(file["save.tmp"]) /\ file["save.tmp"] >= kept
    /\ pc # "off" => saveHash = kept /\ saveRam >= kept

\* Nothing is numbered above the saves that were made.
Numbered ==
  /\ saveRam <= saves
  /\ kept # Absent => kept <= saves
  /\ Whole(file["save"]) => file["save"] <= saves

\* Backups are named in order while the clock is; the newest is the one that was
\* just made, and it is not removed.
LinkInv ==
  /\ pc \in {"openBackup", "copyBackup", "list", "prune"} \/ (pc \in {"write", "remove", "rename"} /\ task = "link")
       => link = Absent
  /\ "setBack" \notin mishaps => \A s \in Stamp : backup[s] # Absent => s <= stamp
  /\ pc \in {"list", "prune"} => backup[stamp] = file["save"] \/ (pc = "prune" /\ "setBack" \in mishaps)
  /\ "setBack" \notin mishaps /\ pc = "prune" => stamp \notin victims
  /\ LinkIsBackedUp

\* The program is in its place except while it is replaced.
ProgramInv ==
  /\ ProgramSurvives
  /\ pc \notin {"off", "openUpdate", "copyUpdate", "moveUpdate", "putBack"}
       => Whole(file["app"]) \/ "notPutBack" \in mishaps

\* A runtime without an identity found none on the card.
IdentityInv ==
  "identityUnread" \notin mishaps =>
    /\ pc # "off" /\ identityId = Absent => file["identity"] = Absent
    /\ pc \in {"writeIdentity", "moveIdentity"} => file["identity"] = Absent

\* The card as the runtime first finds it satisfies every part of the invariant.
LEMMA InitHolds == Init => Shape /\ SaveInv /\ Numbered /\ LinkInv /\ ProgramInv /\ IdentityInv
  BY RuntimeAssumption DEF Init, Shape, TypeOK, Ready, Programs, SaveInv, Numbered, LinkInv, LinkIsBackedUp,
    ProgramInv, ProgramSurvives, IdentityInv, Image, Path, Whole, Old, Release, Blank, Mishap

\* Only names that were listed are removed.
LEMMA OldestAreListed == \A listed \in SUBSET Stamp : Oldest(listed) \in SUBSET listed
  BY DEF Oldest

\* The last of the names is not among those to remove.
LEMMA LastIsKept ==
  ASSUME NEW listed \in SUBSET Stamp, NEW s \in Stamp, \A t \in listed : t <= s
  PROVE  s \notin Oldest(listed)
  <1>0. ASSUME NEW t \in listed PROVE ~(t > s)
    BY RuntimeAssumption
  <1>1. NewerThan(s, listed) = {}
    BY <1>0 DEF NewerThan
  <1>2. Cardinality(NewerThan(s, listed)) = 0
    BY <1>1, FS_EmptySet
  <1>3. ~(Cardinality(NewerThan(s, listed)) >= LINK_BACKUP_RETENTION)
    BY <1>2, RuntimeAssumption
  <1> QED BY <1>3 DEF Oldest

\* Every action keeps the types, and the temporary files as the next operation expects them.
LEMMA ShapeStep ==
  ASSUME Shape, [Next]_vars
  PROVE  Shape'
  <1> USE RuntimeAssumption DEF Shape, TypeOK, Ready, Programs, Image, Path, Mishap, Old, Release, Put, Fine, Fault, GoTo, files, game, identities, backingUp, updating, history, Whole, Blank
  <1>1. CASE Start
    <2>1. file["save"] \in Nat \cup {Absent} /\ file["identity"] \in Nat \cup {Absent}
      OBVIOUS
    <2>2. PICK saved \in {Absent, file["save"]}, identity \in {Absent, file["identity"]} :
            Load(saved, identity) /\ (Fine \/ Fault)
      BY <1>1 DEF Start
    <2>3. saved \in Nat \cup {Absent} /\ identity \in Nat \cup {Absent}
      BY <2>1, <2>2
    <2>4. saveRam' \in Nat /\ saveHash' \in Nat /\ identityId' \in Nat \cup {Absent}
      BY <2>2, <2>3 DEF Load
    <2>5. version' \in {Old, Release} /\ pc' = "run" /\ mishaps' \in SUBSET Mishap
      BY <2>2 DEF Load
    <2>6. faults' \in 0..Faults /\ UNCHANGED <<files, task, backingUp, saves, enrolled, update, link, kept>>
      BY <2>2 DEF Load
    <2> QED BY <2>2, <2>4, <2>5, <2>6 DEF Load
  <1>2. CASE SaveInGame
    BY <1>2 DEF SaveInGame
  <1>3. CASE \E for \in {"check", "exit", "link"} : WriteSave(for)
    BY <1>3 DEF WriteSave, Unchanged, Return, Forget
  <1>4. CASE Write
    BY <1>4 DEF Write
  <1>5. CASE WriteFails
    BY <1>5 DEF WriteFails, Discard, KeepHash, Return, Forget
  <1>6. CASE RemoveSave
    BY <1>6 DEF RemoveSave
  <1>7. CASE RenameSave
    BY <1>7 DEF RenameSave, Return, Forget, MayMove, Move, Verified
  <1>8. CASE RenameFails
    BY <1>8 DEF RenameFails, Discard, KeepHash, Return, Forget, MayRefuse
  <1>9. CASE \E now \in Stamp : OpenBackup(now)
    BY <1>9 DEF OpenBackup, Backup
  <1>10. CASE CopyBackup
    BY <1>10 DEF CopyBackup, Backup
  <1>11. CASE ListBackups
    <2>1. victims' \in SUBSET Stamp
      <3>1. Backups \in SUBSET Stamp
        BY DEF Backups
      <3>2. \/ UNCHANGED victims
            \/ \E listed \in SUBSET Backups : victims' = Oldest(listed)
        BY <1>11 DEF ListBackups
      <3> HIDE DEF Shape, TypeOK
      <3>3. \A listed \in SUBSET Backups : Oldest(listed) \in SUBSET Stamp
        BY <3>1, OldestAreListed
      <3>4. victims \in SUBSET Stamp
        BY DEF Shape, TypeOK
      <3> QED BY <3>2, <3>3, <3>4
    <2>2. UNCHANGED <<files, task, stamp, game, identities, updating, link, history>>
      BY <1>11 DEF ListBackups
    <2>3. pc = "list" /\ pc' \in {"prune", "run"} /\ faults' \in 0..Faults
      BY <1>11 DEF ListBackups
    <2> QED BY <2>1, <2>2, <2>3
  <1>12. CASE Prune
    BY <1>12 DEF Prune
  <1>13. CASE StartLink
    BY <1>13 DEF StartLink
  <1>14. CASE StopLink
    BY <1>14 DEF StopLink
  <1>15. CASE Enroll
    BY <1>15 DEF Enroll, MustEnroll
  <1>16. CASE WriteIdentity
    BY <1>16 DEF WriteIdentity
  <1>17. CASE MoveIdentity
    BY <1>17 DEF MoveIdentity, MayMove, MayRefuse, Move
  <1>18. CASE CheckForUpdate
    BY <1>18 DEF CheckForUpdate
  <1>19. CASE DownloadUpdate
    BY <1>19 DEF DownloadUpdate
  <1>20. CASE InstallUpdate
    BY <1>20 DEF InstallUpdate
  <1>21. CASE SetAside
    BY <1>21 DEF SetAside, MayMove, MayRefuse, BackUpProgram, Move
  <1>22. CASE OpenUpdate
    BY <1>22 DEF OpenUpdate
  <1>23. CASE CopyUpdate
    BY <1>23 DEF CopyUpdate
  <1>24. CASE MoveUpdate
    BY <1>24 DEF MoveUpdate, MayMove, Move
  <1>25. CASE MoveUpdateFails
    BY <1>25 DEF MoveUpdateFails, MayRefuse
  <1>26. CASE PutBack
    <2>1. file["app.bak"] \in {Old, Release, Absent}
      OBVIOUS
    <2>2. /\ file' \in [Path -> Image]
          /\ \A p \in Path \ {"app", "app.bak"} : file'[p] = file[p]
          /\ file'["app"] \in {Old, Release, Absent} /\ file'["app.bak"] \in {Old, Release, Absent}
      BY <1>26, <2>1 DEF PutBack, MayMove, Move
    <2>3. /\ pc = "putBack" /\ pc' = "run" /\ update' = "error"
          /\ UNCHANGED <<backup, task, backingUp, game, identities, version, link, kept>>
      BY <1>26 DEF PutBack
    <2>4. faults' = faults \/ (faults < Faults /\ faults' = faults + 1)
      BY <1>26 DEF PutBack
    <2>5. mishaps' = mishaps \/ mishaps' = mishaps \cup {"notPutBack"} \/ mishaps' = mishaps \cup {}
      BY <1>26 DEF PutBack
    <2>6. faults' \in 0..Faults
      BY <2>4
    <2>7. mishaps' \in SUBSET Mishap
      BY <2>5
    <2> QED BY <2>2, <2>3, <2>6, <2>7
  <1>27. CASE PowerCut
    BY <1>27 DEF PowerCut, Forget
  <1>28. CASE UNCHANGED vars
    BY <1>28 DEF vars, history
  <1> QED BY <1>1, <1>2, <1>3, <1>4, <1>5, <1>6, <1>7, <1>8, <1>9, <1>10, <1>11, <1>12, <1>13, <1>14, <1>15, <1>16, <1>17, <1>18, <1>19, <1>20, <1>21, <1>22, <1>23, <1>24, <1>25, <1>26, <1>27, <1>28 DEF Next

\* Only saving in the game raises the numbers, by one.
LEMMA NumberedStep ==
  ASSUME Shape, Numbered, [Next]_vars
  PROVE  Numbered'
  <1> USE RuntimeAssumption DEF Shape, TypeOK, Ready, Numbered, Image, Path, Put, Fine, Fault, GoTo, files, game, identities, backingUp, updating, history, Whole, Blank
  <1>1. CASE Start
    BY <1>1 DEF Start, Load
  <1>2. CASE SaveInGame
    BY <1>2 DEF SaveInGame
  <1>3. CASE \E for \in {"check", "exit", "link"} : WriteSave(for)
    BY <1>3 DEF WriteSave, Unchanged, Return, Forget
  <1>4. CASE Write
    BY <1>4 DEF Write
  <1>5. CASE WriteFails
    BY <1>5 DEF WriteFails, Discard, KeepHash, Return, Forget
  <1>6. CASE RemoveSave
    BY <1>6 DEF RemoveSave
  <1>7. CASE RenameSave
    BY <1>7 DEF RenameSave, Return, Forget, MayMove, Move, Verified
  <1>8. CASE RenameFails
    BY <1>8 DEF RenameFails, Discard, KeepHash, Return, Forget, MayRefuse
  <1>9. CASE \E now \in Stamp : OpenBackup(now)
    BY <1>9 DEF OpenBackup, Backup
  <1>10. CASE CopyBackup
    BY <1>10 DEF CopyBackup, Backup
  <1>11. CASE ListBackups
    BY <1>11, OldestAreListed DEF ListBackups, Backups
  <1>12. CASE Prune
    BY <1>12 DEF Prune
  <1>13. CASE StartLink
    BY <1>13 DEF StartLink
  <1>14. CASE StopLink
    BY <1>14 DEF StopLink
  <1>15. CASE Enroll
    BY <1>15 DEF Enroll, MustEnroll
  <1>16. CASE WriteIdentity
    BY <1>16 DEF WriteIdentity
  <1>17. CASE MoveIdentity
    BY <1>17 DEF MoveIdentity, MayMove, MayRefuse, Move
  <1>18. CASE CheckForUpdate
    BY <1>18 DEF CheckForUpdate
  <1>19. CASE DownloadUpdate
    BY <1>19 DEF DownloadUpdate
  <1>20. CASE InstallUpdate
    BY <1>20 DEF InstallUpdate
  <1>21. CASE SetAside
    BY <1>21 DEF SetAside, MayMove, MayRefuse, BackUpProgram, Move
  <1>22. CASE OpenUpdate
    BY <1>22 DEF OpenUpdate
  <1>23. CASE CopyUpdate
    BY <1>23 DEF CopyUpdate
  <1>24. CASE MoveUpdate
    BY <1>24 DEF MoveUpdate, MayMove, Move
  <1>25. CASE MoveUpdateFails
    BY <1>25 DEF MoveUpdateFails, MayRefuse
  <1>26. CASE PutBack
    BY <1>26 DEF PutBack, MayMove, MayRefuse, Move
  <1>27. CASE PowerCut
    BY <1>27 DEF PowerCut, Forget
  <1>28. CASE UNCHANGED vars
    BY <1>28 DEF vars, history
  <1> QED BY <1>1, <1>2, <1>3, <1>4, <1>5, <1>6, <1>7, <1>8, <1>9, <1>10, <1>11, <1>12, <1>13, <1>14, <1>15, <1>16, <1>17, <1>18, <1>19, <1>20, <1>21, <1>22, <1>23, <1>24, <1>25, <1>26, <1>27, <1>28 DEF Next

\* The save changes by remove and rename, when the temporary file is whole.
LEMMA SaveStep ==
  ASSUME Shape, Numbered, SaveInv, [Next]_vars
  PROVE  SaveInv'
  <1> USE RuntimeAssumption DEF Shape, TypeOK, Ready, Numbered, SaveInv, Image, Path, Mishap, Put, Fine, Fault, GoTo, files, game, identities, backingUp, updating, history, Whole, Blank
  <1>1. CASE Start
    BY <1>1 DEF Start, Load
  <1>2. CASE SaveInGame
    BY <1>2 DEF SaveInGame
  <1>3. CASE \E for \in {"check", "exit", "link"} : WriteSave(for)
    BY <1>3 DEF WriteSave, Unchanged, Return, Forget
  <1>4. CASE Write
    BY <1>4 DEF Write
  <1>5. CASE WriteFails
    BY <1>5 DEF WriteFails, Discard, KeepHash, Return, Forget
  <1>6. CASE RemoveSave
    BY <1>6 DEF RemoveSave
  <1>7. CASE RenameSave
    BY <1>7 DEF RenameSave, Return, Forget, MayMove, Move, Verified
  <1>8. CASE RenameFails
    BY <1>8 DEF RenameFails, Discard, KeepHash, Return, Forget, MayRefuse
  <1>9. CASE \E now \in Stamp : OpenBackup(now)
    BY <1>9 DEF OpenBackup, Backup
  <1>10. CASE CopyBackup
    BY <1>10 DEF CopyBackup, Backup
  <1>11. CASE ListBackups
    BY <1>11, OldestAreListed DEF ListBackups, Backups
  <1>12. CASE Prune
    BY <1>12 DEF Prune
  <1>13. CASE StartLink
    BY <1>13 DEF StartLink
  <1>14. CASE StopLink
    BY <1>14 DEF StopLink
  <1>15. CASE Enroll
    BY <1>15 DEF Enroll, MustEnroll
  <1>16. CASE WriteIdentity
    BY <1>16 DEF WriteIdentity
  <1>17. CASE MoveIdentity
    BY <1>17 DEF MoveIdentity, MayMove, MayRefuse, Move
  <1>18. CASE CheckForUpdate
    BY <1>18 DEF CheckForUpdate
  <1>19. CASE DownloadUpdate
    BY <1>19 DEF DownloadUpdate
  <1>20. CASE InstallUpdate
    BY <1>20 DEF InstallUpdate
  <1>21. CASE SetAside
    BY <1>21 DEF SetAside, MayMove, MayRefuse, BackUpProgram, Move
  <1>22. CASE OpenUpdate
    BY <1>22 DEF OpenUpdate
  <1>23. CASE CopyUpdate
    BY <1>23 DEF CopyUpdate
  <1>24. CASE MoveUpdate
    BY <1>24 DEF MoveUpdate, MayMove, Move
  <1>25. CASE MoveUpdateFails
    BY <1>25 DEF MoveUpdateFails, MayRefuse
  <1>26. CASE PutBack
    BY <1>26 DEF PutBack, MayMove, MayRefuse, Move
  <1>27. CASE PowerCut
    BY <1>27 DEF PowerCut, Forget
  <1>28. CASE UNCHANGED vars
    BY <1>28 DEF vars, history
  <1> QED BY <1>1, <1>2, <1>3, <1>4, <1>5, <1>6, <1>7, <1>8, <1>9, <1>10, <1>11, <1>12, <1>13, <1>14, <1>15, <1>16, <1>17, <1>18, <1>19, <1>20, <1>21, <1>22, <1>23, <1>24, <1>25, <1>26, <1>27, <1>28 DEF Next

\* Backups change in backupSaveForLink alone.
LEMMA LinkStep ==
  ASSUME Shape, LinkInv, [Next]_vars
  PROVE  LinkInv'
  <1> USE RuntimeAssumption DEF Shape, TypeOK, Ready, LinkInv, LinkIsBackedUp, Image, Path, Mishap, Put, Fine, Fault, GoTo, files, game, identities, backingUp, updating, history, Whole, Blank
  <1>1. CASE Start
    BY <1>1 DEF Start, Load
  <1>2. CASE SaveInGame
    BY <1>2 DEF SaveInGame
  <1>3. CASE \E for \in {"check", "exit", "link"} : WriteSave(for)
    BY <1>3 DEF WriteSave, Unchanged, Return, Forget
  <1>4. CASE Write
    BY <1>4 DEF Write
  <1>5. CASE WriteFails
    BY <1>5 DEF WriteFails, Discard, KeepHash, Return, Forget
  <1>6. CASE RemoveSave
    BY <1>6 DEF RemoveSave
  <1>7. CASE RenameSave
    BY <1>7 DEF RenameSave, Return, Forget, MayMove, Move, Verified
  <1>8. CASE RenameFails
    BY <1>8 DEF RenameFails, Discard, KeepHash, Return, Forget, MayRefuse
  <1>9. CASE \E now \in Stamp : OpenBackup(now)
    BY <1>9 DEF OpenBackup, Backup
  <1>10. CASE CopyBackup
    <2>1. stamp \in Stamp /\ link = Absent /\ link' = Absent
      BY <1>10 DEF CopyBackup
    <2>2. backup'[stamp] = file["save"] \/ pc' = "run"
      BY <1>10 DEF CopyBackup, Backup
    <2>3. \A s \in Stamp : s # stamp => backup'[s] = backup[s]
      BY <1>10 DEF CopyBackup, Backup
    <2>4. "setBack" \notin mishaps => \A s \in Stamp : backup'[s] # Absent => s <= stamp
      BY <2>1, <2>3
    <2>5. pc = "copyBackup" /\ pc' \in {"list", "run"} /\ UNCHANGED <<file, stamp, mishaps, task>>
      BY <1>10 DEF CopyBackup
    <2>6. LinkIsBackedUp'
      BY <2>1
    <2> HIDE DEF Shape, TypeOK, Ready, LinkIsBackedUp
    <2> QED BY <2>1, <2>2, <2>4, <2>5, <2>6
  <1>11. CASE ListBackups
    BY <1>11, OldestAreListed, LastIsKept DEF ListBackups, Backups
  <1>12. CASE Prune
    BY <1>12 DEF Prune
  <1>13. CASE StartLink
    BY <1>13 DEF StartLink
  <1>14. CASE StopLink
    BY <1>14 DEF StopLink
  <1>15. CASE Enroll
    BY <1>15 DEF Enroll, MustEnroll
  <1>16. CASE WriteIdentity
    BY <1>16 DEF WriteIdentity
  <1>17. CASE MoveIdentity
    BY <1>17 DEF MoveIdentity, MayMove, MayRefuse, Move
  <1>18. CASE CheckForUpdate
    BY <1>18 DEF CheckForUpdate
  <1>19. CASE DownloadUpdate
    BY <1>19 DEF DownloadUpdate
  <1>20. CASE InstallUpdate
    BY <1>20 DEF InstallUpdate
  <1>21. CASE SetAside
    BY <1>21 DEF SetAside, MayMove, MayRefuse, BackUpProgram, Move
  <1>22. CASE OpenUpdate
    BY <1>22 DEF OpenUpdate
  <1>23. CASE CopyUpdate
    BY <1>23 DEF CopyUpdate
  <1>24. CASE MoveUpdate
    BY <1>24 DEF MoveUpdate, MayMove, Move
  <1>25. CASE MoveUpdateFails
    BY <1>25 DEF MoveUpdateFails, MayRefuse
  <1>26. CASE PutBack
    BY <1>26 DEF PutBack, MayMove, MayRefuse, Move
  <1>27. CASE PowerCut
    BY <1>27 DEF PowerCut, Forget
  <1>28. CASE UNCHANGED vars
    BY <1>28 DEF vars, history
  <1> QED BY <1>1, <1>2, <1>3, <1>4, <1>5, <1>6, <1>7, <1>8, <1>9, <1>10, <1>11, <1>12, <1>13, <1>14, <1>15, <1>16, <1>17, <1>18, <1>19, <1>20, <1>21, <1>22, <1>23, <1>24, <1>25, <1>26, <1>27, <1>28 DEF Next

\* Programs change in replace3dsx alone.
LEMMA ProgramStep ==
  ASSUME Shape, ProgramInv, [Next]_vars
  PROVE  ProgramInv'
  <1> USE RuntimeAssumption DEF Shape, TypeOK, Ready, Programs, ProgramInv, ProgramSurvives, Path, Mishap, Old, Release, Put, Fine, Fault, GoTo, files, game, identities, backingUp, updating, history, Whole, Blank
  <1>1. CASE Start
    BY <1>1 DEF Start, Load
  <1>2. CASE SaveInGame
    BY <1>2 DEF SaveInGame
  <1>3. CASE \E for \in {"check", "exit", "link"} : WriteSave(for)
    BY <1>3 DEF WriteSave, Unchanged, Return, Forget
  <1>4. CASE Write
    BY <1>4 DEF Write
  <1>5. CASE WriteFails
    BY <1>5 DEF WriteFails, Discard, KeepHash, Return, Forget
  <1>6. CASE RemoveSave
    BY <1>6 DEF RemoveSave
  <1>7. CASE RenameSave
    BY <1>7 DEF RenameSave, Return, Forget, MayMove, Move, Verified
  <1>8. CASE RenameFails
    BY <1>8 DEF RenameFails, Discard, KeepHash, Return, Forget, MayRefuse
  <1>9. CASE \E now \in Stamp : OpenBackup(now)
    BY <1>9 DEF OpenBackup, Backup
  <1>10. CASE CopyBackup
    BY <1>10 DEF CopyBackup, Backup
  <1>11. CASE ListBackups
    BY <1>11, OldestAreListed DEF ListBackups, Backups
  <1>12. CASE Prune
    BY <1>12 DEF Prune
  <1>13. CASE StartLink
    BY <1>13 DEF StartLink
  <1>14. CASE StopLink
    BY <1>14 DEF StopLink
  <1>15. CASE Enroll
    BY <1>15 DEF Enroll, MustEnroll
  <1>16. CASE WriteIdentity
    BY <1>16 DEF WriteIdentity
  <1>17. CASE MoveIdentity
    BY <1>17 DEF MoveIdentity, MayMove, MayRefuse, Move
  <1>18. CASE CheckForUpdate
    BY <1>18 DEF CheckForUpdate
  <1>19. CASE DownloadUpdate
    BY <1>19 DEF DownloadUpdate
  <1>20. CASE InstallUpdate
    BY <1>20 DEF InstallUpdate
  <1>21. CASE SetAside
    BY <1>21 DEF SetAside, MayMove, MayRefuse, BackUpProgram, Move
  <1>22. CASE OpenUpdate
    BY <1>22 DEF OpenUpdate
  <1>23. CASE CopyUpdate
    BY <1>23 DEF CopyUpdate
  <1>24. CASE MoveUpdate
    BY <1>24 DEF MoveUpdate, MayMove, Move
  <1>25. CASE MoveUpdateFails
    BY <1>25 DEF MoveUpdateFails, MayRefuse
  <1>26. CASE PutBack
    BY <1>26 DEF PutBack, MayMove, MayRefuse, Move
  <1>27. CASE PowerCut
    BY <1>27 DEF PowerCut, Forget
  <1>28. CASE UNCHANGED vars
    BY <1>28 DEF vars, history
  <1> QED BY <1>1, <1>2, <1>3, <1>4, <1>5, <1>6, <1>7, <1>8, <1>9, <1>10, <1>11, <1>12, <1>13, <1>14, <1>15, <1>16, <1>17, <1>18, <1>19, <1>20, <1>21, <1>22, <1>23, <1>24, <1>25, <1>26, <1>27, <1>28 DEF Next

\* The identity is stored by the runtime that found none.
LEMMA IdentityStep ==
  ASSUME Shape, IdentityInv, [Next]_vars
  PROVE  IdentityInv'
  <1> USE RuntimeAssumption DEF Shape, TypeOK, Ready, IdentityInv, Path, Mishap, Image, Put, Fine, Fault, GoTo, files, game, identities, backingUp, updating, history, Whole, Blank
  <1>1. CASE Start
    BY <1>1 DEF Start, Load
  <1>2. CASE SaveInGame
    BY <1>2 DEF SaveInGame
  <1>3. CASE \E for \in {"check", "exit", "link"} : WriteSave(for)
    BY <1>3 DEF WriteSave, Unchanged, Return, Forget
  <1>4. CASE Write
    BY <1>4 DEF Write
  <1>5. CASE WriteFails
    BY <1>5 DEF WriteFails, Discard, KeepHash, Return, Forget
  <1>6. CASE RemoveSave
    BY <1>6 DEF RemoveSave
  <1>7. CASE RenameSave
    BY <1>7 DEF RenameSave, Return, Forget, MayMove, Move, Verified
  <1>8. CASE RenameFails
    BY <1>8 DEF RenameFails, Discard, KeepHash, Return, Forget, MayRefuse
  <1>9. CASE \E now \in Stamp : OpenBackup(now)
    BY <1>9 DEF OpenBackup, Backup
  <1>10. CASE CopyBackup
    BY <1>10 DEF CopyBackup, Backup
  <1>11. CASE ListBackups
    BY <1>11, OldestAreListed DEF ListBackups, Backups
  <1>12. CASE Prune
    BY <1>12 DEF Prune
  <1>13. CASE StartLink
    BY <1>13 DEF StartLink
  <1>14. CASE StopLink
    BY <1>14 DEF StopLink
  <1>15. CASE Enroll
    BY <1>15 DEF Enroll, MustEnroll
  <1>16. CASE WriteIdentity
    BY <1>16 DEF WriteIdentity
  <1>17. CASE MoveIdentity
    BY <1>17 DEF MoveIdentity, MayMove, MayRefuse, Move
  <1>18. CASE CheckForUpdate
    BY <1>18 DEF CheckForUpdate
  <1>19. CASE DownloadUpdate
    BY <1>19 DEF DownloadUpdate
  <1>20. CASE InstallUpdate
    BY <1>20 DEF InstallUpdate
  <1>21. CASE SetAside
    BY <1>21 DEF SetAside, MayMove, MayRefuse, BackUpProgram, Move
  <1>22. CASE OpenUpdate
    BY <1>22 DEF OpenUpdate
  <1>23. CASE CopyUpdate
    BY <1>23 DEF CopyUpdate
  <1>24. CASE MoveUpdate
    BY <1>24 DEF MoveUpdate, MayMove, Move
  <1>25. CASE MoveUpdateFails
    BY <1>25 DEF MoveUpdateFails, MayRefuse
  <1>26. CASE PutBack
    BY <1>26 DEF PutBack, MayMove, MayRefuse, Move
  <1>27. CASE PowerCut
    BY <1>27 DEF PowerCut, Forget
  <1>28. CASE UNCHANGED vars
    BY <1>28 DEF vars, history
  <1> QED BY <1>1, <1>2, <1>3, <1>4, <1>5, <1>6, <1>7, <1>8, <1>9, <1>10, <1>11, <1>12, <1>13, <1>14, <1>15, <1>16, <1>17, <1>18, <1>19, <1>20, <1>21, <1>22, <1>23, <1>24, <1>25, <1>26, <1>27, <1>28 DEF Next

\* The only rename over the identity is that one.
LEMMA IdentityStays ==
  ASSUME Shape, IdentityInv, Whole(file["identity"]), "identityUnread" \notin mishaps, [Next]_vars
  PROVE  file'["identity"] = file["identity"]
  <1> USE RuntimeAssumption DEF Shape, TypeOK, Ready, IdentityInv, Path, Image, Put, Fine, Fault, GoTo, files, game, identities, backingUp, updating, history, Whole, Blank
  <1>1. CASE Start
    BY <1>1 DEF Start, Load
  <1>2. CASE SaveInGame
    BY <1>2 DEF SaveInGame
  <1>3. CASE \E for \in {"check", "exit", "link"} : WriteSave(for)
    BY <1>3 DEF WriteSave, Unchanged, Return, Forget
  <1>4. CASE Write
    BY <1>4 DEF Write
  <1>5. CASE WriteFails
    BY <1>5 DEF WriteFails, Discard, KeepHash, Return, Forget
  <1>6. CASE RemoveSave
    BY <1>6 DEF RemoveSave
  <1>7. CASE RenameSave
    BY <1>7 DEF RenameSave, Return, Forget, MayMove, Move, Verified
  <1>8. CASE RenameFails
    BY <1>8 DEF RenameFails, Discard, KeepHash, Return, Forget, MayRefuse
  <1>9. CASE \E now \in Stamp : OpenBackup(now)
    BY <1>9 DEF OpenBackup, Backup
  <1>10. CASE CopyBackup
    BY <1>10 DEF CopyBackup, Backup
  <1>11. CASE ListBackups
    BY <1>11, OldestAreListed DEF ListBackups, Backups
  <1>12. CASE Prune
    BY <1>12 DEF Prune
  <1>13. CASE StartLink
    BY <1>13 DEF StartLink
  <1>14. CASE StopLink
    BY <1>14 DEF StopLink
  <1>15. CASE Enroll
    BY <1>15 DEF Enroll, MustEnroll
  <1>16. CASE WriteIdentity
    BY <1>16 DEF WriteIdentity
  <1>17. CASE MoveIdentity
    BY <1>17 DEF MoveIdentity, MayMove, MayRefuse, Move
  <1>18. CASE CheckForUpdate
    BY <1>18 DEF CheckForUpdate
  <1>19. CASE DownloadUpdate
    BY <1>19 DEF DownloadUpdate
  <1>20. CASE InstallUpdate
    BY <1>20 DEF InstallUpdate
  <1>21. CASE SetAside
    BY <1>21 DEF SetAside, MayMove, MayRefuse, BackUpProgram, Move
  <1>22. CASE OpenUpdate
    BY <1>22 DEF OpenUpdate
  <1>23. CASE CopyUpdate
    BY <1>23 DEF CopyUpdate
  <1>24. CASE MoveUpdate
    BY <1>24 DEF MoveUpdate, MayMove, Move
  <1>25. CASE MoveUpdateFails
    BY <1>25 DEF MoveUpdateFails, MayRefuse
  <1>26. CASE PutBack
    BY <1>26 DEF PutBack, MayMove, MayRefuse, Move
  <1>27. CASE PowerCut
    BY <1>27 DEF PowerCut, Forget
  <1>28. CASE UNCHANGED vars
    BY <1>28 DEF vars, history
  <1> QED BY <1>1, <1>2, <1>3, <1>4, <1>5, <1>6, <1>7, <1>8, <1>9, <1>10, <1>11, <1>12, <1>13, <1>14, <1>15, <1>16, <1>17, <1>18, <1>19, <1>20, <1>21, <1>22, <1>23, <1>24, <1>25, <1>26, <1>27, <1>28 DEF Next

FilesInv == Shape /\ SaveInv /\ Numbered /\ LinkInv /\ ProgramInv /\ IdentityInv

\* The invariant that carries every property of the module.
LEMMA FilesInvariant == Spec => []FilesInv
  <1>1. Init => FilesInv
    BY InitHolds DEF FilesInv
  <1>2. FilesInv /\ [Next]_vars => FilesInv'
    BY ShapeStep, NumberedStep, SaveStep, LinkStep, ProgramStep, IdentityStep DEF FilesInv
  <1> QED BY <1>1, <1>2, PTL DEF Spec

\* The runtime's files keep their types: nothing torn is ever in the place of the
\* save, the identity or the program.
THEOREM NothingTorn == Spec => []TypeOK
  <1>1. FilesInv => TypeOK
    BY DEF FilesInv, Shape
  <1> QED BY <1>1, FilesInvariant, PTL

\* writeSave: what it reported written survives until a rename fails or a start
\* finds no save.
THEOREM SaveAlwaysSurvives == Spec => []SaveSurvives
  <1>1. FilesInv => SaveSurvives
    BY RuntimeAssumption DEF FilesInv, Shape, TypeOK, SaveInv, SaveSurvives, Whole
  <1> QED BY <1>1, FilesInvariant, PTL

\* writeSave: the hash never runs ahead of the file.
THEOREM HashIsHonest == Spec => []UnchangedMeansWritten
  <1>1. FilesInv => UnchangedMeansWritten
    BY DEF FilesInv, SaveInv, UnchangedMeansWritten
  <1> QED BY <1>1, FilesInvariant, PTL

\* backupSaveForLink: a session is backed up while the clock is not set back.
THEOREM LinksAreBackedUp == Spec => []LinkIsBackedUp
  <1>1. FilesInv => LinkIsBackedUp
    BY DEF FilesInv, LinkInv
  <1> QED BY <1>1, FilesInvariant, PTL

\* replace3dsx: a program that can be started, or the one it was made from.
THEOREM ProgramAlwaysSurvives == Spec => []ProgramSurvives
  <1>1. FilesInv => ProgramSurvives
    BY DEF FilesInv, ProgramInv
  <1> QED BY <1>1, FilesInvariant, PTL

\* saveIdentity: never over an identity that the start could read.
THEOREM IdentityStaysKept == Spec => IdentityIsKept
  <1>1. FilesInv /\ [Next]_vars =>
          [Whole(file["identity"]) /\ "identityUnread" \notin mishaps => file'["identity"] = file["identity"]]_vars
    BY IdentityStays DEF FilesInv
  <1> QED BY <1>1, FilesInvariant, PTL DEF Spec, IdentityIsKept
-----------------------------------------------------------------------------
(***************************************************************************)
(* DesktopLauncher. SaveKept is about the moments between operations; its  *)
(* invariant KeptInv also counts the interruptions so far, and RestoreInv  *)
(* says what lies beside each file while a restore replaces it. MarkInv    *)
(* and UpdateInv carry the two action properties: what the marker and the  *)
(* noted program say while a session lasts.                                *)
(***************************************************************************)

Restoring == {"restore", "clear", "move"}

\* The mark of a crash is there while the launcher runs, and after a session
\* that did not end by itself.
MarkInv ==
  /\ step # "off" => crashState = (IF deleted THEN None ELSE "dirty")
  /\ step = "off" => (crashState = "dirty" <=> ended = "crash")
  /\ CrashIsNoticed

\* A program that is noted for the installed package is of that package.
NoteInv ==
  /\ program # None => program.pkg <= package
  /\ runtimeState \in Nat => runtimeState <= package
  /\ program # None /\ (runtimeState = package \/ step = "note") => program.pkg = package

\* On Windows an emulator does not outlive the launcher that noted its program.
Noted == runtimeState \in {package, None, Cut}
UpdateInv ==
  Windows => /\ step = "off" => alive = {}
             /\ alive # {} => Noted
             /\ program # None /\ program.updated /\ program.pkg = package => Noted

\* What is restored is in the archive, and beside the file before that goes.
RestoreInv ==
  /\ todo # <<>> <=> step \in Restoring
  /\ step \in Restoring => archive # None /\ \A i \in 1..Len(todo) : archive[todo[i]] \in Content
  /\ step \in {"clear", "move"} => /\ restoreTmp[Head(todo)] = archive[Head(todo)]
                                   /\ restoreTmp[Head(todo)] \in owed[Head(todo)]

\* What is owed is on the card, or, after an interruption and before a file is
\* moved in, beside it.
KeptInv ==
  /\ interrupted <= troubles
  /\ interrupted = 0 => \A f \in File : owed[f] # {} => sd[f] \in owed[f] \/ (step \in {"clear", "move"} /\ f = Head(todo))
  /\ interrupted <= 1 => \A f \in File : owed[f] # {} => sd[f] \in owed[f] \/ restoreTmp[f] \in owed[f]

LauncherInv == LauncherTypeOK /\ MarkInv /\ NoteInv /\ UpdateInv /\ RestoreInv /\ KeptInv

\* The types of the flags, of what is on the disk, and of the processes.
Flags == /\ Windows \in BOOLEAN /\ rom \in BOOLEAN /\ playEnabled \in BOOLEAN
         /\ previousUncleanExit \in BOOLEAN /\ killed \in BOOLEAN /\ deleted \in BOOLEAN
Disk == /\ sd \in [File -> Content \cup {None}]
        /\ restoreTmp \in [File -> Content \cup {None, Cut}]
        /\ archive \in [File -> Content \cup {None}] \cup {None}
        /\ program \in [pkg : 0..MaxPackage, updated : BOOLEAN] \cup {None}
        /\ runtimeState \in (1..MaxPackage) \cup {None, Cut, Policy1}
        /\ crashState \in {None, "dirty", "clean"} /\ package \in 1..MaxPackage
        /\ packed \in [File -> Content \cup {None}]
        /\ writes \in 0..MaxWrites /\ owed \in [File -> SUBSET Content]
Screen == /\ step \in {"off", "idle"} \cup Operation
          /\ todo \in Seq(File) /\ doomed \subseteq File \cup {"program", "rom"}
          /\ dialog \in {None, "rom", "backup", "restore", "confirm", "delete"}
          /\ emulator \in Game \cup {None} /\ waits \subseteq {"launch", "close"} \X Game
          /\ window \in {"closed", "shown", "hidden"}
          /\ alive \subseteq Game /\ exits \subseteq Game
          /\ troubles \in 0..Troubles /\ interrupted \in 0..Troubles
          /\ ended \in {"never", "clean", "crash", "unmarked"}

\* Initially there is nothing to keep, and nothing noted.
LEMMA LauncherInitial == LauncherInit => LauncherInv
  <1> SUFFICES ASSUME LauncherInit PROVE LauncherInv
    OBVIOUS
  <1> USE LauncherAssumption DEF LauncherInit
  <1>1. Flags
    BY DEF Flags
  <1>2. Disk
    <2>1. program \in [pkg : 0..MaxPackage, updated : BOOLEAN] \cup {None}
      <3>1. 0 \in 0..MaxPackage
        OBVIOUS
      <3>2. Staged(0) \in [pkg : 0..MaxPackage, updated : BOOLEAN]
        BY <3>1, Zenon DEF Staged
      <3> QED BY <3>2
    <2>2. owed \in [File -> SUBSET Content] /\ writes \in 0..MaxWrites /\ package \in 1..MaxPackage
      OBVIOUS
    <2> QED BY <2>1, <2>2 DEF Disk, Nothing
  <1>3. Screen
    BY DEF Screen
  <1>4. MarkInv
    BY DEF MarkInv, CrashIsNoticed
  <1>8. NoteInv
    <2>1. CASE program = None /\ runtimeState = None
      BY <2>1 DEF NoteInv
    <2>2. CASE program = Staged(0) /\ runtimeState = Policy1
      BY <2>2 DEF NoteInv, Staged
    <2> QED BY <2>1, <2>2
  <1>5. UpdateInv
    BY DEF UpdateInv, Staged, Noted
  <1>6. RestoreInv /\ KeptInv
    BY DEF RestoreInv, KeptInv, Restoring
  <1>7. LauncherTypeOK
    BY <1>1, <1>2, <1>3 DEF LauncherTypeOK, Flags, Disk, Screen
  <1> QED BY <1>4, <1>5, <1>6, <1>7, <1>8 DEF LauncherInv

\* The files to restore are in the archive.
LEMMA PackedAreThere ==
  ASSUME archive \in [File -> Content \cup {None}]
  PROVE  /\ Packed \in Seq(File)
         /\ \A i \in 1..Len(Packed) : archive[Packed[i]] \in Content
  <1>1. CASE Has("save") /\ Has("identity")
    BY <1>1 DEF Packed, Has, File
  <1>2. CASE Has("save") /\ ~Has("identity")
    BY <1>2 DEF Packed, Has, File
  <1>3. CASE ~Has("save") /\ Has("identity")
    BY <1>3 DEF Packed, Has, File
  <1>4. CASE ~Has("save") /\ ~Has("identity")
    BY <1>4 DEF Packed, Has, File
  <1> QED BY <1>1, <1>2, <1>3, <1>4

\* Types, given what a restore moves.
LEMMA LauncherTypes ==
  ASSUME LauncherTypeOK, RestoreInv, KeptInv, [LauncherNext]_launcherVars
  PROVE  LauncherTypeOK'
  <1> USE LauncherAssumption DEF stored, card, work, screen, processes, bounds, past, session
  <1>t. Flags /\ Disk /\ Screen
    BY DEF LauncherTypeOK, Flags, Disk, Screen
  <1> SUFFICES Flags' /\ Disk' /\ Screen'
    BY DEF LauncherTypeOK, Flags, Disk, Screen
  <1>h. todo # <<>> => Head(todo) \in File /\ Tail(todo) \in Seq(File)
    BY <1>t DEF Screen
  <1>1. CASE StartUp
    <2>1. Flags'
      BY <1>t, <1>1 DEF Flags, StartUp
    <2>2. Disk'
      BY <1>t, <1>1 DEF Disk, StartUp
    <2>3. Screen'
      BY <1>t, <1>1 DEF Screen, StartUp
    <2> QED BY <2>1, <2>2, <2>3
  <1>2. ASSUME NEW left \in SUBSET Game, CleanExit(left)
        PROVE  Flags' /\ Disk' /\ Screen'
    <2>1. Flags'
      BY <1>t, <1>2 DEF Flags, CleanExit, Gone, Nothing
    <2>2. Disk'
      BY <1>t, <1>2 DEF Disk, CleanExit, Gone, Nothing
    <2>3. Screen'
      BY <1>t, <1>2 DEF Screen, CleanExit, Gone, Nothing
    <2> QED BY <2>1, <2>2, <2>3
  <1>3. CASE CloseWindow
    <2>1. CASE ~Running
      BY <1>2, <1>3, <1>t, <2>1 DEF CloseWindow, Screen
    <2>2. CASE Running
      <3>1. Flags'
        BY <1>t, <1>3, <2>2 DEF Flags, CloseWindow, Signal
      <3>2. Disk'
        BY <1>t, <1>3, <2>2 DEF Disk, CloseWindow, Signal
      <3>3. Screen'
        BY <1>t, <1>3, <2>2 DEF Screen, CloseWindow, Signal, Running
      <3> QED BY <3>1, <3>2, <3>3
    <2> QED BY <2>1, <2>2
  <1>4. CASE SecondInstance
    <2>1. Flags'
      BY <1>t, <1>4 DEF Flags, SecondInstance
    <2>2. Disk'
      BY <1>t, <1>4 DEF Disk, SecondInstance
    <2>3. Screen'
      BY <1>t, <1>4 DEF Screen, SecondInstance
    <2> QED BY <2>1, <2>2, <2>3
  <1>5. ASSUME PartlyWritten, Trouble
        PROVE  /\ restoreTmp' \in [File -> Content \cup {None, Cut}]
               /\ runtimeState' \in (1..MaxPackage) \cup {None, Cut, Policy1}
               /\ interrupted' \in 0..Troubles /\ troubles' \in 0..Troubles
    <2>1. restoreTmp' \in [File -> Content \cup {None, Cut}]
      BY <1>5, <1>h, <1>t DEF PartlyWritten, RestoreInv, Restoring, Disk
    <2>2. runtimeState' \in (1..MaxPackage) \cup {None, Cut, Policy1}
      BY <1>5, <1>t DEF PartlyWritten, Disk
    <2>3. interrupted' \in 0..Troubles /\ troubles' \in 0..Troubles
      BY <1>5, <1>t DEF PartlyWritten, Trouble, Screen, KeptInv
    <2> QED BY <2>1, <2>2, <2>3
  <1>6. CASE Crash
    <2>1. Flags'
      BY <1>t, <1>6 DEF Flags, Crash, Gone, Nothing, LeavesMark
    <2>2. Disk'
      BY <1>t, <1>6, <1>5 DEF Disk, Crash, Gone, Nothing, LeavesMark
    <2>3. Screen'
      BY <1>t, <1>6, <1>5 DEF Screen, Crash, Gone, Nothing, LeavesMark
    <2> QED BY <2>1, <2>2, <2>3
  <1>7. CASE Fail
    <2>1. Flags'
      BY <1>t, <1>7 DEF Flags, Fail, Nothing
    <2>2. Disk'
      BY <1>t, <1>7, <1>5 DEF Disk, Fail, Nothing
    <2>3. Screen'
      BY <1>t, <1>7, <1>5 DEF Screen, Fail, Nothing
    <2> QED BY <2>1, <2>2, <2>3
  <1>8. CASE InstallPackage
    <2>1. Flags'
      BY <1>t, <1>8 DEF Flags, InstallPackage
    <2>2. Disk'
      BY <1>t, <1>8 DEF Disk, InstallPackage
    <2>3. Screen'
      BY <1>t, <1>8 DEF Screen, InstallPackage
    <2> QED BY <2>1, <2>2, <2>3
  <1>9. ASSUME NEW g \in Game, GameUpdates(g) \/ GameEnds(g)
        PROVE  Flags' /\ Disk' /\ Screen'
    <2>1. Flags'
      BY <1>t, <1>9 DEF Flags, GameUpdates, GameEnds
    <2>2. Disk'
      BY <1>t, <1>9 DEF Disk, GameUpdates, GameEnds
    <2>3. Screen'
      BY <1>t, <1>9 DEF Screen, GameUpdates, GameEnds
    <2> QED BY <2>1, <2>2, <2>3
  <1>10. ASSUME NEW g \in Game, NEW f \in File, GameWrites(g, f)
        PROVE  Flags' /\ Disk' /\ Screen'
    <2>1. Flags'
      BY <1>t, <1>10 DEF Flags, GameWrites, Content
    <2>2. Disk'
      BY <1>t, <1>10 DEF Disk, GameWrites, Content
    <2>3. Screen'
      BY <1>t, <1>10 DEF Screen, GameWrites, Content
    <2> QED BY <2>1, <2>2, <2>3
  <1>11. ASSUME NEW g \in Game, Exit(g) \/ Spawn(g)
        PROVE  Flags' /\ Disk' /\ Screen'
    <2>1. Flags'
      BY <1>t, <1>11 DEF Flags, Exit, Spawn, Clears
    <2>2. Disk'
      BY <1>t, <1>11 DEF Disk, Exit, Spawn, Clears
    <2>3. Screen'
      BY <1>t, <1>11 DEF Screen, Exit, Spawn, Clears
    <2> QED BY <2>1, <2>2, <2>3
  <1>12. ASSUME NEW g \in Game, NEW who \in {"launch", "close"}, Wake(who, g)
         PROVE  Flags' /\ Disk' /\ Screen'
    <2>1. CASE who = "close"
      BY <1>2, <1>12, <1>t, <2>1 DEF Wake, Screen
    <2>2. CASE who = "launch"
      <3>1. Flags'
        BY <1>t, <1>12, <2>2 DEF Flags, Wake, Clears
      <3>2. Disk'
        BY <1>t, <1>12, <2>2 DEF Disk, Wake
      <3>3. Screen'
        BY <1>t, <1>12, <2>2 DEF Screen, Wake, Clears, Operation
      <3> QED BY <3>1, <3>2, <3>3
    <2> QED BY <2>1, <2>2
  <1>13. CASE Play
    <2>0. CASE Running
      <3>1. Flags'
        <4>1. killed' \in BOOLEAN
          <5>1. Signal
            BY <1>13, <2>0 DEF Play
          <5> QED BY <5>1 DEF Signal
        <4> QED BY <1>t, <1>13, <4>1 DEF Flags, Play
      <3>2. Disk'
        BY <1>t, <1>13 DEF Disk, Play
      <3>3. Screen'
        BY <1>t, <1>13, <2>0 DEF Screen, Play, Signal, Running
      <3> QED BY <3>1, <3>2, <3>3
    <2>1. CASE ~Running
      <3>1. Flags'
        BY <1>t, <1>13, <2>1 DEF Flags, Play
      <3>2. Disk'
        BY <1>t, <1>13 DEF Disk, Play
      <3>3. Screen'
        BY <1>t, <1>13, <2>1 DEF Screen, Play, Operation
      <3> QED BY <3>1, <3>2, <3>3
    <2> QED BY <2>0, <2>1
  <1>14. CASE Stage
    <2>1. Flags'
      BY <1>t, <1>14 DEF Flags, Stage, Staged, Operation
    <2>2. Disk'
      BY <1>t, <1>14 DEF Disk, Stage, Staged, Operation
    <2>3. Screen'
      BY <1>t, <1>14 DEF Screen, Stage, Staged, Operation
    <2> QED BY <2>1, <2>2, <2>3
  <1>15. ASSUME NEW d \in {"rom", "backup", "restore", "delete"}, Open(d)
        PROVE  Flags' /\ Disk' /\ Screen'
    <2>1. Flags'
      BY <1>t, <1>15 DEF Flags, Open
    <2>2. Disk'
      BY <1>t, <1>15 DEF Disk, Open
    <2>3. Screen'
      BY <1>t, <1>15 DEF Screen, Open
    <2> QED BY <2>1, <2>2, <2>3
  <1>16. CASE Cancel \/ SelectRom \/ Inspect \/ ConfirmDelete
    <2>1. Flags'
      BY <1>t, <1>16 DEF Flags, Cancel, SelectRom, Inspect, ConfirmDelete, Answer, Operation
    <2>2. Disk'
      BY <1>t, <1>16 DEF Disk, Cancel, SelectRom, Inspect, ConfirmDelete, Answer, Operation
    <2>3. Screen'
      BY <1>t, <1>16 DEF Screen, Cancel, SelectRom, Inspect, ConfirmDelete, Answer, Operation
    <2> QED BY <2>1, <2>2, <2>3
  <1>17. CASE Collect \/ RemoveOld \/ Publish
    <2>1. Flags'
      BY <1>t, <1>17 DEF Flags, Collect, RemoveOld, Publish, PublishStep, Answer, Nothing, Operation
    <2>2. Disk'
      BY <1>t, <1>17 DEF Disk, Collect, RemoveOld, Publish, PublishStep, Answer, Nothing, Operation
    <2>3. Screen'
      BY <1>t, <1>17 DEF Screen, Collect, RemoveOld, Publish, PublishStep, Answer, Nothing, Operation
    <2> QED BY <2>1, <2>2, <2>3
  <1>18. CASE Confirm
    <2>1. Flags'
      BY <1>t, <1>18 DEF Flags, Confirm, Answer
    <2>2. Disk'
      BY <1>t, <1>18 DEF Disk, Confirm, Answer
    <2>3. step' \in {"off", "idle"} \cup Operation /\ todo' \in Seq(File)
      <3>1. CASE archive = None \/ Packed = <<>>
        BY <1>t, <1>18, <3>1 DEF Confirm, Screen
      <3>2. CASE ~(archive = None \/ Packed = <<>>)
        BY <1>t, <1>18, <3>2, PackedAreThere DEF Confirm, Disk, Operation
      <3> QED BY <3>1, <3>2
    <2>4. Screen'
      BY <1>t, <1>18, <2>3 DEF Screen, Confirm, Answer
    <2> QED BY <2>1, <2>2, <2>4
  <1>19. CASE WriteBeside \/ RemoveTarget
    <2>1. Flags'
      BY <1>t, <1>19 DEF Flags, WriteBeside, RemoveTarget, RestoreStep, RestoreInv, Restoring, Operation
    <2>2. Disk'
      BY <1>t, <1>19, <1>h DEF Disk, WriteBeside, RemoveTarget, RestoreStep, RestoreInv, Restoring, Operation
    <2>3. Screen'
      BY <1>t, <1>19, <1>h DEF Screen, WriteBeside, RemoveTarget, RestoreStep, RestoreInv, Restoring, Operation
    <2> QED BY <2>1, <2>2, <2>3
  <1>20. CASE MoveIn
    <2>1. Flags'
      BY <1>t, <1>20 DEF Flags, MoveIn, RestoreStep, RestoreInv, Restoring, Operation
    <2>2. Disk'
      BY <1>t, <1>20, <1>h DEF Disk, MoveIn, RestoreStep, RestoreInv, Restoring, Operation
    <2>3. Screen'
      BY <1>t, <1>20, <1>h DEF Screen, MoveIn, RestoreStep, RestoreInv, Restoring, Operation
    <2> QED BY <2>1, <2>2, <2>3
  <1>21. ASSUME NEW x \in File \cup {"program", "rom"}, Wipe(x)
        PROVE  Flags' /\ Disk' /\ Screen'
    <2>1. Flags'
      BY <1>t, <1>21 DEF Flags, Wipe, Operation
    <2>2. Disk'
      BY <1>t, <1>21 DEF Disk, Wipe, Operation
    <2>3. Screen'
      BY <1>t, <1>21 DEF Screen, Wipe, Operation
    <2> QED BY <2>1, <2>2, <2>3
  <1>22. CASE WipeState \/ WipeCrash
    <2>1. Flags'
      BY <1>t, <1>22 DEF Flags, WipeState, WipeCrash, Operation
    <2>2. Disk'
      BY <1>t, <1>22 DEF Disk, WipeState, WipeCrash, Operation
    <2>3. Screen'
      BY <1>t, <1>22 DEF Screen, WipeState, WipeCrash, Operation
    <2> QED BY <2>1, <2>2, <2>3
  <1>23. CASE UNCHANGED launcherVars
    <2>1. Flags'
      BY <1>t, <1>23 DEF Flags, launcherVars
    <2>2. Disk'
      BY <1>t, <1>23 DEF Disk, launcherVars
    <2>3. Screen'
      BY <1>t, <1>23 DEF Screen, launcherVars
    <2> QED BY <2>1, <2>2, <2>3
  <1> QED BY <1>1, <1>3, <1>4, <1>6, <1>7, <1>8, <1>9, <1>10, <1>11, <1>12, <1>13, <1>14, <1>15, <1>16, <1>17, <1>18, <1>19,
             <1>20, <1>21, <1>22, <1>23 DEF LauncherNext

\* What a step of a window, a dialog or the end of an emulator leaves alone.
held == <<sd, restoreTmp, program, archive, runtimeState, crashState, todo, owed, interrupted, troubles, ended, deleted,
          package, Windows, previousUncleanExit>>
Quiet == UNCHANGED held /\ step' = step /\ alive' \subseteq alive
\* A handler turns to its first file operation.
Turns == UNCHANGED held /\ step = "idle" /\ step' \in {"stage", "publish", "wipe"} /\ alive' \subseteq alive
Ends == step = "idle" /\ \E left \in SUBSET alive : CleanExit(left)
Restores == Confirm /\ archive # None /\ Packed # <<>>

\* The kinds of steps the invariants tell apart.
LEMMA LauncherSteps ==
  ASSUME LauncherTypeOK, [LauncherNext]_launcherVars
  PROVE  \/ Quiet \/ Turns \/ StartUp \/ Ends \/ Crash \/ Fail \/ InstallPackage
         \/ \E g \in Game : GameUpdates(g) \/ Spawn(g)
         \/ \E g \in Game, f \in File : GameWrites(g, f)
         \/ Stage \/ RemoveOld \/ Publish \/ Restores \/ WriteBeside \/ RemoveTarget \/ MoveIn
         \/ \E x \in File \cup {"program", "rom"} : Wipe(x)
         \/ WipeState \/ WipeCrash
  <1> USE DEF held, stored, card, work, screen, processes, bounds, past, session
  <1>1. CASE CloseWindow
    <2>1. CASE Running
      BY <1>1, <2>1 DEF CloseWindow, Signal, Quiet
    <2>2. CASE ~Running
      BY <1>1, <2>2 DEF CloseWindow, Ends
    <2> QED BY <2>1, <2>2
  <1>2. CASE Play
    <2>1. CASE Running
      BY <1>2, <2>1 DEF Play, Signal, Quiet
    <2>2. CASE ~Running
      BY <1>2, <2>2 DEF Play, Click, Turns
    <2> QED BY <2>1, <2>2
  <1>3. ASSUME NEW g \in Game, NEW who \in {"launch", "close"}, Wake(who, g)
        PROVE  Turns \/ Ends
    BY <1>3 DEF Wake, Turns, Ends
  <1>4. CASE SecondInstance \/ \E g \in Game : GameEnds(g) \/ Exit(g)
    BY <1>4 DEF SecondInstance, GameEnds, Exit, Quiet
  <1>5. CASE \E d \in {"rom", "backup", "restore", "delete"} : Open(d)
    BY <1>5 DEF Open, Quiet
  <1>6. CASE Cancel \/ SelectRom \/ Inspect
    BY <1>6 DEF Cancel, SelectRom, Inspect, Answer, Quiet
  <1>7. CASE Collect
    BY <1>7 DEF Collect, Answer, Quiet, Turns
  <1>8. CASE Confirm
    BY <1>8 DEF Confirm, Answer, Quiet, Restores
  <1>9. CASE ConfirmDelete
    BY <1>9 DEF ConfirmDelete, Answer, Turns
  <1>10. CASE UNCHANGED launcherVars
    BY <1>10 DEF launcherVars, Quiet
  <1> QED BY <1>1, <1>2, <1>3, <1>4, <1>5, <1>6, <1>7, <1>8, <1>9, <1>10 DEF LauncherNext

\* The mark of a crash is written at the start and replaced by an ordinary end.
LEMMA MarkStep ==
  ASSUME LauncherInv, [LauncherNext]_launcherVars
  PROVE  MarkInv'
  <1> USE LauncherAssumption DEF stored, card, work, screen, processes, bounds, past, session
  <1>t. LauncherTypeOK /\ MarkInv
    BY DEF LauncherInv
  <1>1. CASE Quiet \/ Turns
    BY <1>1, <1>t DEF LauncherTypeOK, MarkInv, CrashIsNoticed, Operation, Quiet, Turns, held
  <1>2. CASE StartUp
    BY <1>2, <1>t DEF LauncherTypeOK, MarkInv, CrashIsNoticed, Operation, StartUp
  <1>3. CASE Ends
    BY <1>3, <1>t DEF LauncherTypeOK, MarkInv, CrashIsNoticed, Operation, Ends, CleanExit, Gone
  <1>4. CASE Crash
    BY <1>4, <1>t DEF LauncherTypeOK, MarkInv, CrashIsNoticed, Operation, Crash, Gone, PartlyWritten, LeavesMark
  <1>5. CASE Fail
    BY <1>5, <1>t DEF LauncherTypeOK, MarkInv, CrashIsNoticed, Operation, Fail, PartlyWritten
  <1>6. CASE InstallPackage
    BY <1>6, <1>t DEF LauncherTypeOK, MarkInv, CrashIsNoticed, Operation, InstallPackage
  <1>7. ASSUME NEW g \in Game, GameUpdates(g)
        PROVE  MarkInv'
    BY <1>7, <1>t DEF LauncherTypeOK, MarkInv, CrashIsNoticed, Operation, GameUpdates
  <1>8. ASSUME NEW g \in Game, Spawn(g)
        PROVE  MarkInv'
    BY <1>8, <1>t DEF LauncherTypeOK, MarkInv, CrashIsNoticed, Operation, Spawn
  <1>9. ASSUME NEW g \in Game, NEW f \in File, GameWrites(g, f)
        PROVE  MarkInv'
    BY <1>9, <1>t DEF LauncherTypeOK, MarkInv, CrashIsNoticed, Operation, GameWrites
  <1>10. CASE Stage
    BY <1>10, <1>t DEF LauncherTypeOK, MarkInv, CrashIsNoticed, Operation, Stage
  <1>11. CASE RemoveOld \/ Publish
    BY <1>11, <1>t DEF LauncherTypeOK, MarkInv, CrashIsNoticed, Operation, RemoveOld, Publish, PublishStep
  <1>12. CASE Restores
    BY <1>12, <1>t DEF LauncherTypeOK, MarkInv, CrashIsNoticed, Operation, Restores, Confirm, Answer
  <1>13. CASE WriteBeside
    BY <1>13, <1>t DEF LauncherTypeOK, MarkInv, CrashIsNoticed, Operation, WriteBeside, RestoreStep
  <1>14. CASE RemoveTarget
    BY <1>14, <1>t DEF LauncherTypeOK, MarkInv, CrashIsNoticed, Operation, RemoveTarget, RestoreStep
  <1>15. CASE MoveIn
    BY <1>15, <1>t DEF LauncherTypeOK, MarkInv, CrashIsNoticed, Operation, MoveIn, RestoreStep
  <1>16. ASSUME NEW x \in File \cup {"program", "rom"}, Wipe(x)
        PROVE  MarkInv'
    BY <1>16, <1>t DEF LauncherTypeOK, MarkInv, CrashIsNoticed, Operation, Wipe
  <1>17. CASE WipeState
    BY <1>17, <1>t DEF LauncherTypeOK, MarkInv, CrashIsNoticed, Operation, WipeState
  <1>18. CASE WipeCrash
    BY <1>18, <1>t DEF LauncherTypeOK, MarkInv, CrashIsNoticed, Operation, WipeCrash
  <1> QED BY LauncherSteps, <1>t, <1>1, <1>2, <1>3, <1>4, <1>5, <1>6, <1>7, <1>8, <1>9, <1>10, <1>11, <1>12, <1>13, <1>14, <1>15, <1>16, <1>17, <1>18

\* Only the installed package is noted, and after its program is on the card.
LEMMA NoteStep ==
  ASSUME LauncherInv, [LauncherNext]_launcherVars
  PROVE  NoteInv'
  <1> USE LauncherAssumption DEF stored, card, work, screen, processes, bounds, past, session
  <1>t. LauncherTypeOK /\ NoteInv
    BY DEF LauncherInv
  <1>1. CASE Quiet \/ Turns
    BY <1>1, <1>t DEF LauncherTypeOK, NoteInv, Quiet, Turns, held
  <1>2. CASE StartUp
    BY <1>2, <1>t DEF LauncherTypeOK, NoteInv, StartUp
  <1>3. CASE Ends
    BY <1>3, <1>t DEF LauncherTypeOK, NoteInv, Ends, CleanExit, Gone
  <1>4. CASE Crash
    BY <1>4, <1>t DEF LauncherTypeOK, NoteInv, Crash, Gone, PartlyWritten
  <1>5. CASE Fail
    BY <1>5, <1>t DEF LauncherTypeOK, NoteInv, Fail, PartlyWritten
  <1>6. CASE InstallPackage
    BY <1>6, <1>t DEF LauncherTypeOK, NoteInv, InstallPackage
  <1>7. ASSUME NEW g \in Game, GameUpdates(g)
        PROVE  NoteInv'
    BY <1>7, <1>t DEF LauncherTypeOK, NoteInv, GameUpdates
  <1>8. ASSUME NEW g \in Game, Spawn(g)
        PROVE  NoteInv'
    BY <1>8, <1>t DEF LauncherTypeOK, NoteInv, Spawn
  <1>9. ASSUME NEW g \in Game, NEW f \in File, GameWrites(g, f)
        PROVE  NoteInv'
    BY <1>9, <1>t DEF LauncherTypeOK, NoteInv, GameWrites
  <1>10. CASE Stage
    BY <1>10, <1>t DEF LauncherTypeOK, NoteInv, Stage, ShouldInstall, Staged
  <1>11. CASE RemoveOld \/ Publish
    BY <1>11, <1>t DEF LauncherTypeOK, NoteInv, RemoveOld, Publish, PublishStep
  <1>12. CASE Restores
    BY <1>12, <1>t DEF LauncherTypeOK, NoteInv, Restores, Confirm, Answer
  <1>13. CASE WriteBeside
    BY <1>13, <1>t DEF LauncherTypeOK, NoteInv, WriteBeside, RestoreStep
  <1>14. CASE RemoveTarget
    BY <1>14, <1>t DEF LauncherTypeOK, NoteInv, RemoveTarget, RestoreStep
  <1>15. CASE MoveIn
    BY <1>15, <1>t DEF LauncherTypeOK, NoteInv, MoveIn, RestoreStep
  <1>16. ASSUME NEW x \in File \cup {"program", "rom"}, Wipe(x)
        PROVE  NoteInv'
    BY <1>16, <1>t DEF LauncherTypeOK, NoteInv, Wipe
  <1>17. CASE WipeState
    BY <1>17, <1>t DEF LauncherTypeOK, NoteInv, WipeState
  <1>18. CASE WipeCrash
    BY <1>18, <1>t DEF LauncherTypeOK, NoteInv, WipeCrash
  <1> QED BY LauncherSteps, <1>t, <1>1, <1>2, <1>3, <1>4, <1>5, <1>6, <1>7, <1>8, <1>9, <1>10, <1>11, <1>12, <1>13, <1>14, <1>15, <1>16, <1>17, <1>18

\* An emulator runs a program that was noted.
LEMMA UpdateStep ==
  ASSUME LauncherInv, [LauncherNext]_launcherVars
  PROVE  UpdateInv'
  <1> USE LauncherAssumption DEF stored, card, work, screen, processes, bounds, past, session
  <1>t. LauncherTypeOK /\ NoteInv /\ UpdateInv
    BY DEF LauncherInv
  <1>1. CASE Quiet \/ Turns
    BY <1>1, <1>t DEF LauncherTypeOK, NoteInv, UpdateInv, Noted, Quiet, Turns, held
  <1>2. CASE StartUp
    BY <1>2, <1>t DEF LauncherTypeOK, NoteInv, UpdateInv, Noted, StartUp
  <1>3. CASE Ends
    BY <1>3, <1>t DEF LauncherTypeOK, NoteInv, UpdateInv, Noted, Ends, CleanExit, Gone
  <1>4. CASE Crash
    BY <1>4, <1>t DEF LauncherTypeOK, NoteInv, UpdateInv, Noted, Crash, Gone, PartlyWritten
  <1>5. CASE Fail
    BY <1>5, <1>t DEF LauncherTypeOK, NoteInv, UpdateInv, Noted, Fail, PartlyWritten
  <1>6. CASE InstallPackage
    BY <1>6, <1>t DEF LauncherTypeOK, NoteInv, UpdateInv, Noted, InstallPackage
  <1>7. ASSUME NEW g \in Game, GameUpdates(g)
        PROVE  UpdateInv'
    BY <1>7, <1>t DEF LauncherTypeOK, NoteInv, UpdateInv, Noted, GameUpdates
  <1>8. ASSUME NEW g \in Game, Spawn(g)
        PROVE  UpdateInv'
    BY <1>8, <1>t DEF LauncherTypeOK, NoteInv, UpdateInv, Noted, Spawn
  <1>9. ASSUME NEW g \in Game, NEW f \in File, GameWrites(g, f)
        PROVE  UpdateInv'
    BY <1>9, <1>t DEF LauncherTypeOK, NoteInv, UpdateInv, Noted, GameWrites
  <1>10. CASE Stage
    BY <1>10, <1>t DEF LauncherTypeOK, NoteInv, UpdateInv, Noted, Stage, ShouldInstall, Staged
  <1>11. CASE RemoveOld \/ Publish
    BY <1>11, <1>t DEF LauncherTypeOK, NoteInv, UpdateInv, Noted, RemoveOld, Publish, PublishStep
  <1>12. CASE Restores
    BY <1>12, <1>t DEF LauncherTypeOK, NoteInv, UpdateInv, Noted, Restores, Confirm, Answer
  <1>13. CASE WriteBeside
    BY <1>13, <1>t DEF LauncherTypeOK, NoteInv, UpdateInv, Noted, WriteBeside, RestoreStep
  <1>14. CASE RemoveTarget
    BY <1>14, <1>t DEF LauncherTypeOK, NoteInv, UpdateInv, Noted, RemoveTarget, RestoreStep
  <1>15. CASE MoveIn
    BY <1>15, <1>t DEF LauncherTypeOK, NoteInv, UpdateInv, Noted, MoveIn, RestoreStep
  <1>16. ASSUME NEW x \in File \cup {"program", "rom"}, Wipe(x)
        PROVE  UpdateInv'
    BY <1>16, <1>t DEF LauncherTypeOK, NoteInv, UpdateInv, Noted, Wipe
  <1>17. CASE WipeState
    BY <1>17, <1>t DEF LauncherTypeOK, NoteInv, UpdateInv, Noted, WipeState
  <1>18. CASE WipeCrash
    BY <1>18, <1>t DEF LauncherTypeOK, NoteInv, UpdateInv, Noted, WipeCrash
  <1> QED BY LauncherSteps, <1>t, <1>1, <1>2, <1>3, <1>4, <1>5, <1>6, <1>7, <1>8, <1>9, <1>10, <1>11, <1>12, <1>13, <1>14, <1>15, <1>16, <1>17, <1>18

\* A restore moves what the archive has, from beside the file.
LEMMA RestoreStepHolds ==
  ASSUME LauncherInv, [LauncherNext]_launcherVars
  PROVE  RestoreInv'
  <1> USE LauncherAssumption DEF stored, card, work, screen, processes, bounds, past, session
  <1>t. LauncherTypeOK /\ RestoreInv
    BY DEF LauncherInv
  <1>1. CASE Quiet \/ Turns
    BY <1>1, <1>t DEF LauncherTypeOK, RestoreInv, Restoring, Quiet, Turns, held
  <1>2. CASE StartUp
    BY <1>2, <1>t DEF LauncherTypeOK, RestoreInv, Restoring, StartUp
  <1>3. CASE Ends
    BY <1>3, <1>t DEF LauncherTypeOK, RestoreInv, Restoring, Ends, CleanExit, Gone
  <1>4. CASE Crash
    BY <1>4, <1>t DEF LauncherTypeOK, RestoreInv, Restoring, Crash, Gone, PartlyWritten
  <1>5. CASE Fail
    BY <1>5, <1>t DEF LauncherTypeOK, RestoreInv, Restoring, Fail, PartlyWritten
  <1>6. CASE InstallPackage
    BY <1>6, <1>t DEF LauncherTypeOK, RestoreInv, Restoring, InstallPackage
  <1>7. ASSUME NEW g \in Game, GameUpdates(g)
        PROVE  RestoreInv'
    BY <1>7, <1>t DEF LauncherTypeOK, RestoreInv, Restoring, GameUpdates
  <1>8. ASSUME NEW g \in Game, Spawn(g)
        PROVE  RestoreInv'
    BY <1>8, <1>t DEF LauncherTypeOK, RestoreInv, Restoring, Spawn
  <1>9. ASSUME NEW g \in Game, NEW f \in File, GameWrites(g, f)
        PROVE  RestoreInv'
    <2>1. CASE step \in {"clear", "move"}
      <3>1. todo # <<>> /\ Head(todo) = todo[1] /\ 1 \in DOMAIN todo /\ Head(todo) \in File
        BY <1>t, <2>1 DEF LauncherTypeOK, RestoreInv, Restoring
      <3>2. Head(todo) \in Range(todo)
        BY <3>1 DEF Range
      <3>3. owed[Head(todo)] \subseteq owed'[Head(todo)]
        BY <1>9, <1>t, <3>1, <3>2 DEF LauncherTypeOK, GameWrites
      <3> QED BY <1>9, <1>t, <2>1, <3>3 DEF RestoreInv, GameWrites
    <2>2. CASE step \notin {"clear", "move"}
      BY <1>9, <1>t, <2>2 DEF RestoreInv, GameWrites
    <2> QED BY <2>1, <2>2
  <1>10. CASE Stage
    BY <1>10, <1>t DEF LauncherTypeOK, RestoreInv, Restoring, Stage
  <1>11. CASE RemoveOld \/ Publish
    BY <1>11, <1>t DEF LauncherTypeOK, RestoreInv, Restoring, RemoveOld, Publish, PublishStep
  <1>12. CASE Restores
    <2>1. archive \in [File -> Content \cup {None}]
      BY <1>12, <1>t DEF Restores, LauncherTypeOK
    <2>2. todo' = Packed /\ step' = "restore" /\ archive' = archive
      BY <1>12 DEF Restores, Confirm
    <2> QED BY <1>12, <2>1, <2>2, PackedAreThere DEF RestoreInv, Restoring, Restores
  <1>13. CASE WriteBeside
    BY <1>13, <1>t DEF LauncherTypeOK, RestoreInv, Restoring, WriteBeside, RestoreStep
  <1>14. CASE RemoveTarget
    BY <1>14, <1>t DEF LauncherTypeOK, RestoreInv, Restoring, RemoveTarget, RestoreStep
  <1>15. CASE MoveIn
    BY <1>15, <1>t DEF LauncherTypeOK, RestoreInv, Restoring, MoveIn, RestoreStep
  <1>16. ASSUME NEW x \in File \cup {"program", "rom"}, Wipe(x)
        PROVE  RestoreInv'
    BY <1>16, <1>t DEF LauncherTypeOK, RestoreInv, Restoring, Wipe
  <1>17. CASE WipeState
    BY <1>17, <1>t DEF LauncherTypeOK, RestoreInv, Restoring, WipeState
  <1>18. CASE WipeCrash
    BY <1>18, <1>t DEF LauncherTypeOK, RestoreInv, Restoring, WipeCrash
  <1> QED BY LauncherSteps, <1>t, <1>1, <1>2, <1>3, <1>4, <1>5, <1>6, <1>7, <1>8, <1>9, <1>10, <1>11, <1>12, <1>13, <1>14, <1>15, <1>16, <1>17, <1>18

\* What is owed stays on the card or beside it.
LEMMA KeptStep ==
  ASSUME LauncherInv, [LauncherNext]_launcherVars
  PROVE  KeptInv'
  <1> USE LauncherAssumption DEF stored, card, work, screen, processes, bounds, past, session
  <1>t. LauncherTypeOK /\ RestoreInv /\ KeptInv
    BY DEF LauncherInv
  <1>1. CASE Quiet \/ Turns
    BY <1>1, <1>t DEF LauncherTypeOK, RestoreInv, KeptInv, Restoring, Quiet, Turns, held
  <1>2. CASE StartUp
    BY <1>2, <1>t DEF LauncherTypeOK, RestoreInv, KeptInv, Restoring, StartUp
  <1>3. CASE Ends
    BY <1>3, <1>t DEF LauncherTypeOK, RestoreInv, KeptInv, Restoring, Ends, CleanExit, Gone
  <1>4. CASE Crash
    <2>1. CASE step \in Restoring
      <3>1. interrupted' = interrupted + 1 /\ troubles' = troubles + 1 /\ sd' = sd /\ owed' = owed
        BY <1>4, <2>1 DEF Crash, Gone, PartlyWritten, Trouble, Restoring
      <3>2. ASSUME NEW f \in File, owed[f] # {}, interrupted = 0
            PROVE  sd[f] \in owed[f] \/ restoreTmp'[f] \in owed[f]
        <4>1. CASE step = "restore"
          BY <1>t, <3>2, <4>1 DEF KeptInv
        <4>2. CASE step \in {"clear", "move"}
          <5>1. restoreTmp' = restoreTmp
            BY <1>4, <4>2 DEF Crash, Gone, PartlyWritten
          <5> QED BY <1>t, <3>2, <4>2, <5>1 DEF KeptInv, RestoreInv
        <4> QED BY <2>1, <4>1, <4>2 DEF Restoring
      <3> QED BY <1>t, <3>1, <3>2 DEF KeptInv, LauncherTypeOK
    <2>2. CASE step \notin Restoring
      <3>1. interrupted' = interrupted /\ troubles' = troubles + 1 /\ sd' = sd /\ owed' = owed /\ restoreTmp' = restoreTmp
        BY <1>4, <1>t, <2>2 DEF Crash, Gone, PartlyWritten, Trouble, Restoring, LauncherTypeOK
      <3> QED BY <1>t, <2>2, <3>1 DEF KeptInv, LauncherTypeOK, Restoring
    <2> QED BY <2>1, <2>2
  <1>5. CASE Fail
    <2>1. CASE step \in Restoring
      <3>1. interrupted' = interrupted + 1 /\ troubles' = troubles + 1 /\ sd' = sd /\ owed' = owed
        BY <1>5, <2>1 DEF Fail, PartlyWritten, Trouble, Restoring
      <3>2. ASSUME NEW f \in File, owed[f] # {}, interrupted = 0
            PROVE  sd[f] \in owed[f] \/ restoreTmp'[f] \in owed[f]
        <4>1. CASE step = "restore"
          BY <1>t, <3>2, <4>1 DEF KeptInv
        <4>2. CASE step \in {"clear", "move"}
          <5>1. restoreTmp' = restoreTmp
            BY <1>5, <4>2 DEF Fail, PartlyWritten
          <5> QED BY <1>t, <3>2, <4>2, <5>1 DEF KeptInv, RestoreInv
        <4> QED BY <2>1, <4>1, <4>2 DEF Restoring
      <3> QED BY <1>t, <3>1, <3>2 DEF KeptInv, LauncherTypeOK
    <2>2. CASE step \notin Restoring
      <3>1. interrupted' = interrupted /\ troubles' = troubles + 1 /\ sd' = sd /\ owed' = owed /\ restoreTmp' = restoreTmp
        BY <1>5, <1>t, <2>2 DEF Fail, PartlyWritten, Trouble, Restoring, LauncherTypeOK
      <3> QED BY <1>t, <2>2, <3>1 DEF KeptInv, LauncherTypeOK, Restoring
    <2> QED BY <2>1, <2>2
  <1>6. CASE InstallPackage
    BY <1>6, <1>t DEF LauncherTypeOK, RestoreInv, KeptInv, Restoring, InstallPackage
  <1>7. ASSUME NEW g \in Game, GameUpdates(g)
        PROVE  KeptInv'
    BY <1>7, <1>t DEF LauncherTypeOK, RestoreInv, KeptInv, Restoring, GameUpdates
  <1>8. ASSUME NEW g \in Game, Spawn(g)
        PROVE  KeptInv'
    BY <1>8, <1>t DEF LauncherTypeOK, RestoreInv, KeptInv, Restoring, Spawn
  <1>9. ASSUME NEW g \in Game, NEW f \in File, GameWrites(g, f)
        PROVE  KeptInv'
    BY <1>9, <1>t DEF LauncherTypeOK, RestoreInv, KeptInv, Restoring, GameWrites
  <1>10. CASE Stage
    BY <1>10, <1>t DEF LauncherTypeOK, RestoreInv, KeptInv, Restoring, Stage
  <1>11. CASE RemoveOld \/ Publish
    BY <1>11, <1>t DEF LauncherTypeOK, RestoreInv, KeptInv, Restoring, RemoveOld, Publish, PublishStep
  <1>12. CASE Restores
    BY <1>12, <1>t DEF LauncherTypeOK, RestoreInv, KeptInv, Restoring, Restores, Confirm, Answer
  <1>13. CASE WriteBeside
    BY <1>13, <1>t DEF LauncherTypeOK, RestoreInv, KeptInv, Restoring, WriteBeside, RestoreStep
  <1>14. CASE RemoveTarget
    BY <1>14, <1>t DEF LauncherTypeOK, RestoreInv, KeptInv, Restoring, RemoveTarget, RestoreStep
  <1>15. CASE MoveIn
    BY <1>15, <1>t DEF LauncherTypeOK, RestoreInv, KeptInv, Restoring, MoveIn, RestoreStep
  <1>16. ASSUME NEW x \in File \cup {"program", "rom"}, Wipe(x)
        PROVE  KeptInv'
    BY <1>16, <1>t DEF LauncherTypeOK, RestoreInv, KeptInv, Restoring, Wipe
  <1>17. CASE WipeState
    BY <1>17, <1>t DEF LauncherTypeOK, RestoreInv, KeptInv, Restoring, WipeState
  <1>18. CASE WipeCrash
    BY <1>18, <1>t DEF LauncherTypeOK, RestoreInv, KeptInv, Restoring, WipeCrash
  <1> QED BY LauncherSteps, <1>t, <1>1, <1>2, <1>3, <1>4, <1>5, <1>6, <1>7, <1>8, <1>9, <1>10, <1>11, <1>12, <1>13, <1>14, <1>15, <1>16, <1>17, <1>18

\* The launcher's invariant holds in every state.
LEMMA LauncherInvariant == LauncherSpec => []LauncherInv
  <1>1. LauncherInit => LauncherInv
    BY LauncherInitial
  <1>2. LauncherInv /\ [LauncherNext]_launcherVars => LauncherInv'
    <2> SUFFICES ASSUME LauncherInv, [LauncherNext]_launcherVars PROVE LauncherInv'
      OBVIOUS
    <2>1. LauncherTypeOK'
      BY LauncherTypes DEF LauncherInv
    <2> QED BY <2>1, MarkStep, NoteStep, UpdateStep, RestoreStepHolds, KeptStep DEF LauncherInv
  <1> QED BY <1>1, <1>2, PTL DEF LauncherSpec

\* After whatever was interrupted, the game's files and the archive are whole
\* or absent, and a handler is where it can be.
THEOREM LauncherTyping == LauncherSpec => []LauncherTypeOK
  <1>1. LauncherInv => LauncherTypeOK
    BY DEF LauncherInv
  <1> QED BY <1>1, LauncherInvariant, PTL

\* As long as at most one restore was interrupted, the user has a content of
\* each file that is owed to them.
THEOREM RestoreLosesNothing == LauncherSpec => []SaveKept
  <1>1. LauncherInv => SaveKept
    <2> SUFFICES ASSUME LauncherInv, interrupted <= 1, NEW f \in File, owed[f] # {}
                 PROVE  (owed[f] \cap Copies(f)) \ {None} # {}
      BY DEF SaveKept
    <2>1. sd[f] \in owed[f] \/ restoreTmp[f] \in owed[f]
      BY DEF LauncherInv, KeptInv
    <2>2. None \notin owed[f]
      BY LauncherAssumption DEF LauncherInv, LauncherTypeOK, Content
    <2> QED BY <2>1, <2>2 DEF Copies
  <1> QED BY <1>1, LauncherInvariant, PTL

\* A start tells of a crash exactly when the session before it had one.
THEOREM CrashAlwaysNoticed == LauncherSpec => []CrashIsNoticed
  <1>1. LauncherInv => CrashIsNoticed
    BY DEF LauncherInv, MarkInv
  <1> QED BY <1>1, LauncherInvariant, PTL

\* Only ensureRuntimeInstalled turns from the program to its note.
LEMMA ReturnsStages ==
  ASSUME LauncherInv, [LauncherNext]_launcherVars, Returns
  PROVE  Stage
  <1>1. LauncherTypeOK
    BY DEF LauncherInv
  <1> QED BY <1>1, LauncherSteps
      DEF Returns, Quiet, Turns, StartUp, Ends, Crash, Fail, Gone, InstallPackage, GameUpdates, Spawn, GameWrites, stored, card,
          held, RemoveOld, Publish, PublishStep, Restores, Confirm, Answer, WriteBeside, RemoveTarget, MoveIn, RestoreStep,
          Wipe, WipeState, WipeCrash

\* The emulator gets a program of the installed package.
THEOREM PackageAlwaysRules == LauncherSpec => PackageRules
  <1>1. LauncherInv /\ [LauncherNext]_launcherVars => [Returns => program' # None /\ program'.pkg = package]_launcherVars
    <2> SUFFICES ASSUME LauncherInv, [LauncherNext]_launcherVars, Returns
                 PROVE  program' # None /\ program'.pkg = package
      OBVIOUS
    <2>1. Stage
      BY ReturnsStages
    <2>2. CASE ShouldInstall
      <3>1. program' = Staged(package)
        BY <2>1, <2>2 DEF Stage
      <3>2. package \in 0..MaxPackage
        BY LauncherAssumption DEF LauncherInv, LauncherTypeOK
      <3>3. Staged(package) \in [pkg : 0..MaxPackage, updated : BOOLEAN]
        BY <3>2 DEF Staged
      <3>4. Staged(package) # None
        BY <3>3, LauncherAssumption
      <3> QED BY <3>1, <3>4 DEF Staged
    <2>3. CASE ~ShouldInstall
      BY <2>1, <2>3 DEF Stage, ShouldInstall, LauncherInv, LauncherTypeOK, NoteInv
    <2> QED BY <2>2, <2>3
  <1> QED BY <1>1, LauncherInvariant, PTL DEF LauncherSpec, PackageRules

\* On Windows an update of the runtime is undone only for another package, or
\* when the note was lost.
THEOREM UpdatesAlwaysPersist == LauncherSpec => UpdatesPersist
  <1>1. LauncherInv /\ [LauncherNext]_launcherVars
        => [Windows /\ Returns /\ program # None /\ program.updated /\ ~program'.updated
              => package # program.pkg \/ runtimeState \in {None, Cut}]_launcherVars
    <2> SUFFICES ASSUME LauncherInv, [LauncherNext]_launcherVars,
                        Windows, Returns, program # None, program.updated, ~program'.updated, package = program.pkg
                 PROVE  runtimeState \in {None, Cut}
      OBVIOUS
    <2>1. Stage
      BY ReturnsStages
    <2>2. ShouldInstall
      BY <2>1 DEF Stage
    <2>3. Noted
      BY DEF LauncherInv, UpdateInv
    <2> QED BY <2>2, <2>3, LauncherAssumption DEF ShouldInstall, Noted, LauncherInv, LauncherTypeOK
  <1> QED BY <1>1, LauncherInvariant, PTL DEF LauncherSpec, UpdatesPersist
=============================================================================
