---------------------------- MODULE RuntimeFiles ----------------------------
(***************************************************************************)
(* The files of the 3DS runtime (gpsp-runtime/source/main.cpp): the save,  *)
(* its backups before a link session, the identity, and the program itself *)
(* when an update replaces it.  The runtime is one thread, so one sequence *)
(* of file operations runs at a time (pc), but any operation may fail and  *)
(* the power may go between any two of them; the next start reads what is  *)
(* on the card.  A file operation is durable when it returns: the code     *)
(* calls fsync before every rename.  Images are numbered in the order the  *)
(* game or a release produced them; Blank is the RAM of a new game.        *)
(***************************************************************************)
EXTENDS Integers, FiniteSets

CONSTANTS
  MaxSaves,        \* bound: how often the player saves in the game
  MaxIdentities,   \* bound: enrollments
  Faults,          \* bound: operations that fail, and power cuts
  Stamp,           \* clock readings in names of backups, a set of numbers
  LINK_BACKUP_RETENTION,
  MaxEntries,      \* directory entries backupSaveForLink lists (64)
  Absent, Torn     \* no file; a file whose writing was interrupted

ASSUME RuntimeAssumption ==
  /\ Absent \notin Nat /\ Torn \notin Nat /\ Absent # Torn
  /\ MaxSaves \in Nat /\ MaxIdentities \in Nat /\ Faults \in Nat /\ MaxEntries \in Nat
  /\ Stamp \subseteq Nat
  /\ LINK_BACKUP_RETENTION \in Nat \ {0}

VARIABLES
  file,        \* what each path holds
  backup,      \* link-backups/, by the stamp in the name
  pc,          \* the file operation that comes next; "run" between sequences
  task,        \* what writeSave runs for
  stamp,       \* the console's clock when the last backup was named
  victims,     \* the backups that are to be removed
  saveRam, saveHash,  \* the game's save memory; what it was when last read or written
  saves,       \* how often the game saved
  identityId,  \* the identity in memory
  enrolled,    \* identities the server gave out
  version,     \* APP_VERSION of the program that runs
  update,      \* updateState
  link,        \* the image saved for the link session that runs, or Absent
  faults,
  kept,        \* history: the last image writeSave reported written
  mishaps      \* history: what went wrong so far, see Mishap

files == <<file, backup>>
game == <<saveRam, saveHash, saves>>
identities == <<identityId, enrolled>>
backingUp == <<stamp, victims>>
history == <<kept, mishaps>>
updating == <<version, update>>
vars == <<files, pc, task, backingUp, game, identities, updating, link, faults, history>>

Path == {"save", "save.tmp", "app", "app.bak", "app.tmp", "identity", "identity.tmp"}
Blank == 0
Old == 1
Release == 2
Image == Nat \cup {Absent, Torn}
Whole(image) == image \in Nat

Mishap == {"saveGone",     \* a rename of the save failed, or a start found no save
           "setBack",      \* the clock was set to an earlier time
           "identityUnread",  \* a start could not open the identity that was there
           "notPutBack"}   \* the program was moved away and could not be moved back

\* What is on the card in every state, interrupted or not: only temporary
\* files and copies of the save are ever torn.
TypeOK ==
  /\ file \in [Path -> Image]
  /\ \A p \in {"save", "app", "app.bak", "identity"} : file[p] # Torn
  /\ backup \in [Stamp -> Image]
  /\ pc \in {"off", "run", "write", "remove", "rename", "openBackup", "copyBackup", "list", "prune",
             "setAside", "openUpdate", "copyUpdate", "moveUpdate", "putBack",
             "writeIdentity", "moveIdentity"}
  /\ task \in {"check", "exit", "link"}
  /\ stamp \in Stamp /\ victims \in SUBSET Stamp
  /\ saveRam \in Nat /\ saveHash \in Nat /\ saves \in 0..MaxSaves
  /\ identityId \in Nat \cup {Absent} /\ enrolled \in 0..MaxIdentities
  /\ version \in {Old, Release}
  /\ update \in {"idle", "available", "ready", "done", "error"}
  /\ link \in Nat \cup {Absent}
  /\ faults \in 0..Faults
  /\ kept \in Nat \cup {Absent} /\ mishaps \in SUBSET Mishap

Init ==
  /\ file = [p \in Path |-> IF p = "app" THEN Old ELSE Absent]
  /\ backup = [s \in Stamp |-> Absent]
  /\ pc = "off" /\ task = "check" /\ victims = {}
  /\ saveRam = Blank /\ saveHash = Blank /\ saves = 0
  /\ identityId = Absent /\ enrolled = 0
  /\ version = Old /\ update = "idle" /\ link = Absent
  /\ stamp \in Stamp /\ (\A s \in Stamp : stamp <= s) /\ faults = 0
  /\ kept = Absent /\ mishaps = {}

(***************************************************************************)
(* File operations.                                                        *)
(***************************************************************************)
Put(p, image) == file' = [file EXCEPT ![p] = image]
Move(p, q) == file' = [file EXCEPT ![q] = file[p], ![p] = Absent]
\* rename() over a file that is there may replace it or fail: writeSave does
\* without, saveIdentity relies on it
MayMove(p, q) == file[p] # Absent
MayRefuse(p, q) == file[p] = Absent \/ file[q] # Absent

Fine == UNCHANGED faults
Fault == faults < Faults /\ faults' = faults + 1
GoTo(label) == pc' = label

\* what the runtime has in memory is gone when it ends, however it ends
Forget ==
  /\ saveRam' = Blank /\ saveHash' = Blank /\ identityId' = Absent
  /\ version' = Old /\ update' = "idle" /\ link' = Absent

(***************************************************************************)
(* main(): loadIdentity and loadSave at the start.  A file that cannot be  *)
(* opened is treated as one that is not there.                             *)
(***************************************************************************)
Load(saved, identity) ==
  /\ pc = "off" /\ Whole(file["app"])
  /\ saveRam' = IF saved = Absent THEN Blank ELSE saved
  /\ saveHash' = saveRam'
  /\ identityId' = identity
  /\ mishaps' = mishaps \cup (IF saved = Absent /\ kept # Absent THEN {"saveGone"} ELSE {})
                         \cup (IF identity # file["identity"] THEN {"identityUnread"} ELSE {})
  /\ version' = file["app"]
  /\ GoTo("run")
  /\ UNCHANGED <<files, task, backingUp, saves, enrolled, update, link, kept>>

Start ==
  \/ Load(file["save"], file["identity"]) /\ Fine
  \/ file["save"] # Absent /\ Load(Absent, file["identity"]) /\ Fault
  \/ file["identity"] # Absent /\ Load(file["save"], Absent) /\ Fault

\* The player saves in the game.  While the game writes the sectors the older
\* of its two slots is intact, so an image taken then still counts as the older.
SaveInGame ==
  /\ pc = "run" /\ saves < MaxSaves
  /\ saves' = saves + 1 /\ saveRam' = saves'
  /\ UNCHANGED <<files, pc, task, backingUp, saveHash, identities, updating, link, faults, history>>

(***************************************************************************)
(* writeSave, called every five seconds, before a link session, and at the *)
(* end of main(): write a temporary file, remove the save, rename.         *)
(***************************************************************************)
Unchanged(for) == for = "check" /\ saveRam = saveHash

\* what the callers do next: the main loop and link_started go on, main() ends
Return(label) ==
  IF task' = "exit" THEN GoTo("off") /\ Forget
  ELSE GoTo(label) /\ UNCHANGED <<saveRam, identityId, updating, link>>

WriteSave(for) ==
  /\ pc = "run" /\ ~Unchanged(for)
  /\ for = "link" => link = Absent  \* the server starts no session in a session
  /\ task' = for
  /\ \/ /\ Put("save.tmp", Torn) /\ Fine
        /\ GoTo("write") /\ UNCHANGED <<saveRam, saveHash, identityId, updating, link>>
     \/ /\ UNCHANGED file /\ Fault
        /\ Return("run") /\ (for # "exit" => UNCHANGED saveHash)
  /\ UNCHANGED <<backup, backingUp, saves, enrolled, history>>

\* (bug: remove(SAVE_PATH) whether or not the write was good)
DiscardBoth == file' = [file EXCEPT !["save"] = Absent, !["save.tmp"] = Absent]
\* if (!good) remove(SAVE_PATH ".tmp")
Discard == Put("save.tmp", Absent)

\* (bug: the hash is set whether or not the write was good)
TakeHash == task # "exit" => saveHash' = saveRam
\* saveHash is set only when the rename was good
KeepHash == task # "exit" => UNCHANGED saveHash

WriteFails ==
  /\ pc = "write" /\ Fault
  /\ Discard /\ KeepHash
  /\ UNCHANGED task /\ Return("run")
  /\ UNCHANGED <<backup, backingUp, saves, enrolled, history>>

Write ==
  /\ pc = "write"
  /\ Put("save.tmp", saveRam) /\ GoTo("remove")
  /\ UNCHANGED <<backup, task, backingUp, game, identities, updating, link, faults, history>>

RemoveSave ==
  /\ pc = "remove" /\ GoTo("rename")
  /\ \/ Put("save", Absent) /\ Fine
     \/ UNCHANGED file /\ Fault
  /\ UNCHANGED <<backup, task, backingUp, game, identities, updating, link, history>>

\* verifyEmeraldSaveFile: a slot of fourteen sectors that are valid
Verified(image) == Whole(image) /\ image # Blank

RenameSave ==
  /\ pc = "rename" /\ MayMove("save.tmp", "save")
  /\ Move("save.tmp", "save") /\ Fine
  /\ kept' = saveRam /\ mishaps' = mishaps \ {"saveGone"}
  /\ UNCHANGED task
  /\ Return(IF task = "link" /\ Verified(saveRam) THEN "openBackup" ELSE "run")
  /\ (task # "exit" => saveHash' = saveRam)
  /\ UNCHANGED <<backup, backingUp, saves, enrolled>>

RenameFails ==
  /\ pc = "rename"
  /\ \/ Fault
     \/ MayRefuse("save.tmp", "save") /\ Fine
  /\ Discard /\ KeepHash
  /\ mishaps' = mishaps \cup (IF file["save"] = Absent /\ kept # Absent THEN {"saveGone"} ELSE {})
  /\ UNCHANGED task /\ Return("run")
  /\ UNCHANGED <<backup, backingUp, saves, enrolled, kept>>

(***************************************************************************)
(* backupSaveForLink, after its writeSave(true).                           *)
(***************************************************************************)
Backup(image) == backup' = [backup EXCEPT ![stamp'] = image]

\* The name is the time.  A millisecond passes between two backups, and the
\* owner of the console may have set its clock.
OpenBackup(now) ==
  /\ pc = "openBackup" /\ now # stamp
  /\ stamp' = now
  /\ mishaps' = IF now < stamp THEN mishaps \cup {"setBack"} ELSE mishaps
  /\ \/ Backup(Torn) /\ GoTo("copyBackup") /\ Fine
     \/ UNCHANGED backup /\ GoTo("run") /\ Fault
  /\ UNCHANGED <<file, task, victims, game, identities, updating, link, kept>>

CopyBackup ==
  /\ pc = "copyBackup" /\ UNCHANGED stamp
  /\ \/ Backup(file["save"]) /\ GoTo("list") /\ Fine
     \/ Backup(Absent) /\ GoTo("run") /\ Fault
  /\ UNCHANGED <<file, task, victims, game, identities, updating, link, history>>

Backups == {s \in Stamp : backup[s] # Absent}

NewerThan(s, listed) == {t \in listed : t > s}
OlderThan(s, listed) == {t \in listed : t < s}

\* (bug: the names are sorted the other way)
Newest(listed) == {s \in listed : Cardinality(OlderThan(s, listed)) >= LINK_BACKUP_RETENTION}
\* all but the last LINK_BACKUP_RETENTION of the names that were listed
Oldest(listed) == {s \in listed : Cardinality(NewerThan(s, listed)) >= LINK_BACKUP_RETENTION}

ListBackups ==
  /\ pc = "list"
  /\ \/ /\ \E listed \in SUBSET Backups :
             /\ listed = Backups \/ Cardinality(listed) = MaxEntries
             /\ Cardinality(listed) <= MaxEntries
             /\ victims' = Oldest(listed)
        /\ GoTo("prune") /\ Fine
     \/ UNCHANGED victims /\ GoTo("run") /\ Fault
  /\ UNCHANGED <<files, task, stamp, game, identities, updating, link, history>>

\* a remove that fails is ignored
Prune ==
  /\ pc = "prune"
  /\ \E s \in victims :
       /\ \A t \in victims : s <= t
       /\ victims' = victims \ {s}
       /\ \/ backup' = [backup EXCEPT ![s] = Absent] /\ Fine
          \/ UNCHANGED backup /\ Fault
  /\ UNCHANGED <<file, pc, task, stamp, game, identities, updating, link, history>>

\* the rest of link_started: the emulator core takes the session or blocks it
StartLink ==
  /\ pc = "prune" /\ victims = {}
  /\ GoTo("run") /\ link' \in {file["save"], Absent}
  /\ UNCHANGED <<files, task, backingUp, game, identities, updating, faults, history>>

StopLink ==
  /\ pc = "run" /\ link # Absent /\ link' = Absent
  /\ UNCHANGED <<files, pc, task, backingUp, game, identities, updating, faults, history>>

(***************************************************************************)
(* parseOnlineLine("enrolled") and saveIdentity.                           *)
(***************************************************************************)
\* (bug: every connection enrolls)
AnyConnection == TRUE
\* onlineConnected says hello with the identity when there is one
MustEnroll == identityId = Absent

Enroll ==
  /\ pc = "run" /\ MustEnroll /\ enrolled < MaxIdentities
  /\ enrolled' = enrolled + 1 /\ identityId' = enrolled'
  /\ \/ Put("identity.tmp", Torn) /\ GoTo("writeIdentity") /\ Fine
     \/ UNCHANGED <<file, pc>> /\ Fault
  /\ UNCHANGED <<backup, task, backingUp, game, updating, link, history>>

WriteIdentity ==
  /\ pc = "writeIdentity"
  /\ \/ Put("identity.tmp", identityId) /\ GoTo("moveIdentity") /\ Fine
     \/ Put("identity.tmp", Absent) /\ GoTo("run") /\ Fault
  /\ UNCHANGED <<backup, task, backingUp, game, identities, updating, link, history>>

MoveIdentity ==
  /\ pc = "moveIdentity" /\ GoTo("run")
  /\ \/ MayMove("identity.tmp", "identity") /\ Move("identity.tmp", "identity") /\ Fine
     \/ MayRefuse("identity.tmp", "identity") /\ Put("identity.tmp", Absent) /\ Fine
     \/ Put("identity.tmp", Absent) /\ Fault
  /\ UNCHANGED <<backup, task, backingUp, game, identities, updating, link, history>>

(***************************************************************************)
(* checkForUpdate, startUpdateDownload (whose file is verified by its hash *)
(* before the state is "ready"), and replace3dsx.                          *)
(***************************************************************************)
CheckForUpdate ==
  /\ pc = "run" /\ update \in {"idle", "available", "error"}
  /\ update' \in {"error", IF Release > version THEN "available" ELSE "idle"}
  /\ UNCHANGED <<files, pc, task, backingUp, game, identities, version, link, faults, history>>

DownloadUpdate ==
  /\ pc = "run" /\ update = "available"
  /\ update' \in {"ready", "error"}
  /\ UNCHANGED <<files, pc, task, backingUp, game, identities, version, link, faults, history>>

InstallUpdate ==
  /\ pc = "run" /\ update = "ready" /\ GoTo("setAside")
  /\ \/ Put("app.bak", Absent) /\ Fine
     \/ UNCHANGED file /\ Fault
  /\ UNCHANGED <<backup, task, backingUp, game, identities, updating, link, history>>

\* (bug: the program is removed first)
RemoveProgram == Put("app", Absent)
\* rename(INSTALLED_3DSX_PATH, backupPath)
BackUpProgram == Move("app", "app.bak")

\* the result of this rename is not looked at
SetAside ==
  /\ pc = "setAside" /\ GoTo("openUpdate")
  /\ \/ MayMove("app", "app.bak") /\ BackUpProgram /\ Fine
     \/ MayRefuse("app", "app.bak") /\ UNCHANGED file /\ Fine
     \/ UNCHANGED file /\ Fault
  /\ UNCHANGED <<backup, task, backingUp, game, identities, updating, link, history>>

OpenUpdate ==
  /\ pc = "openUpdate"
  /\ \/ Put("app.tmp", Torn) /\ GoTo("copyUpdate") /\ Fine
     \/ UNCHANGED file /\ GoTo("putBack") /\ Fault
  /\ UNCHANGED <<backup, task, backingUp, game, identities, updating, link, history>>

CopyUpdate ==
  /\ pc = "copyUpdate"
  /\ \/ Put("app.tmp", Release) /\ GoTo("moveUpdate") /\ Fine
     \/ Put("app.tmp", Absent) /\ GoTo("putBack") /\ Fault
  /\ UNCHANGED <<backup, task, backingUp, game, identities, updating, link, history>>

MoveUpdate ==
  /\ pc = "moveUpdate" /\ MayMove("app.tmp", "app")
  /\ Move("app.tmp", "app") /\ Fine
  /\ update' = "done" /\ GoTo("run")
  /\ UNCHANGED <<backup, task, backingUp, game, identities, version, link, history>>

MoveUpdateFails ==
  /\ pc = "moveUpdate"
  /\ \/ Fault
     \/ MayRefuse("app.tmp", "app") /\ Fine
  /\ Put("app.tmp", Absent) /\ GoTo("putBack")
  /\ UNCHANGED <<backup, task, backingUp, game, identities, updating, link, history>>

PutBack ==
  /\ pc = "putBack" /\ GoTo("run") /\ update' = "error"
  /\ \/ MayMove("app.bak", "app") /\ Move("app.bak", "app") /\ Fine /\ UNCHANGED mishaps
     \/ /\ \/ Fault
           \/ MayRefuse("app.bak", "app") /\ Fine
        /\ UNCHANGED file
        /\ mishaps' = mishaps \cup (IF file["app"] = Absent THEN {"notPutBack"} ELSE {})
  /\ UNCHANGED <<backup, task, backingUp, game, identities, version, link, kept>>

PowerCut ==
  /\ pc # "off" /\ Fault
  /\ GoTo("off") /\ Forget
  /\ UNCHANGED <<files, task, backingUp, saves, enrolled, history>>

Next ==
  \/ Start \/ SaveInGame
  \/ \E for \in {"check", "exit", "link"} : WriteSave(for)
  \/ Write \/ WriteFails \/ RemoveSave \/ RenameSave \/ RenameFails
  \/ \E now \in Stamp : OpenBackup(now)
  \/ CopyBackup \/ ListBackups \/ Prune \/ StartLink \/ StopLink
  \/ Enroll \/ WriteIdentity \/ MoveIdentity
  \/ CheckForUpdate \/ DownloadUpdate \/ InstallUpdate \/ SetAside \/ OpenUpdate \/ CopyUpdate
  \/ MoveUpdate \/ MoveUpdateFails \/ PutBack
  \/ PowerCut

Spec == Init /\ [][Next]_vars

(***************************************************************************)
(* Properties.                                                             *)
(***************************************************************************)

\* What writeSave reported written, or something newer of the same game, is in
\* the save or in the temporary file through every failure and power cut:
\* until a rename fails after its remove, or a start does not find the save.
SaveSurvives ==
  kept # Absent /\ "saveGone" \notin mishaps =>
    \E p \in {"save", "save.tmp"} : Whole(file[p]) /\ file[p] >= kept

\* When the periodic check finds the memory unchanged, the save on the card is
\* that memory: the hash never runs ahead of the file.
UnchangedMeansWritten ==
  pc = "run" /\ kept # Absent /\ "saveGone" \notin mishaps => file["save"] = saveHash

\* While a link session runs, the save it began with is among the backups,
\* whatever interrupted earlier backups, unless the clock was set back: the new
\* name is then not the newest, and the same call may remove it.
LinkIsBackedUp ==
  link # Absent /\ "setBack" \notin mishaps => \E s \in Stamp : backup[s] = link

\* An update leaves the program, or the program it was moved from, whole; only
\* one that could not be moved back is lost, by the next attempt.
ProgramSurvives ==
  Whole(file["app"]) \/ Whole(file["app.bak"]) \/ "notPutBack" \in mishaps

\* A stored identity is never replaced or lost, unless a start could not open it.
IdentityIsKept ==
  [][Whole(file["identity"]) /\ "identityUnread" \notin mishaps
       => file'["identity"] = file["identity"]]_vars
=============================================================================
