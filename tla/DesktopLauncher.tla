-------------------------- MODULE DesktopLauncher --------------------------
(***************************************************************************)
(* The desktop launcher (desktop/src): an Electron main process that       *)
(* starts the runtime in the Azahar emulator and backs up, restores and    *)
(* deletes the files they share.  One thread runs the handlers; a handler  *)
(* gives way only at a dialog and for the half second terminateEmulator    *)
(* waits, so the steps between two file operations (step) are seen by the  *)
(* emulator, a process of its own, and by a failure or a crash, never by   *)
(* another handler.  Dialogs are modal to the window.  The contents of a   *)
(* file are numbered in the order the game wrote them.                     *)
(***************************************************************************)
EXTENDS Integers, Sequences, Functions

CONSTANTS
  Game,            \* emulator processes
  None, Cut,      \* no file, process or dialog; a file whose writing was interrupted
  Policy1,         \* a runtime-state.json of the first policy
  MaxWrites,       \* bound: how often the game writes a file
  MaxPackage,      \* bound: desktop packages released
  Troubles           \* bound: operations that fail, and crashes

File == {"save", "identity"}
Content == 1..MaxWrites
ASSUME LauncherAssumption ==
  /\ MaxWrites \in Nat /\ MaxPackage \in Nat \ {0} /\ Troubles \in Nat
  /\ None \notin Game \cup {Cut, "dirty", "clean"}
  /\ {None, Cut, Policy1} \cap Nat = {}
  /\ None \notin [pkg : 0..MaxPackage, updated : BOOLEAN] \cup [File -> Content \cup {None}]

Operation == {"stage", "note", "publish", "rename", "restore", "clear", "move", "wipe", "wipeState", "wipeCrash"}

VARIABLES
  Windows,     \* the platform: a signal ends a process at once, and a process its children
  sd,          \* the game's files on the virtual card
  restoreTmp,  \* the .restore-tmp file next to each
  archive,     \* the backup the user keeps: what it has of each file, or None
  program,     \* emerald-online-3ds.3dsx on the card
  runtimeState, \* runtime-state.json: the package whose program was staged
  rom,         \* a supported ROM is on the card
  crashState,  \* crash-state.json
  package,     \* the desktop package that is installed
  step,          \* "off", "idle", or the file operation of a handler that comes next
  todo,        \* the files that are still to be restored
  doomed,      \* what is still to be deleted
  packed,      \* what createLocalBackup collected
  dialog,      \* the dialog a handler waits for
  emulator,    \* emulatorProcess
  waits,       \* timers of terminateEmulator: who waits for which process
  window, playEnabled, previousUncleanExit,
  alive,       \* emulator processes that run
  killed,      \* emulatorProcess.killed: it was sent a signal
  exits,       \* exit events that have not been handled
  writes, troubles,
  owed,        \* history: contents of a file one of which the user must still have
  interrupted, \* history: restores that did not run to their end
  ended,       \* history: how the session before this one ended
  deleted      \* history: this session deleted the mark of its start

card == <<sd, restoreTmp, program, rom>>
stored == <<card, archive, runtimeState, crashState>>
work == <<todo, doomed, packed>>
screen == <<dialog, window, playEnabled, previousUncleanExit>>
processes == <<emulator, waits, alive, killed, exits>>
bounds == <<Windows, package, writes, troubles>>
session == <<ended, deleted>>
past == <<owed, interrupted, session>>
launcherVars == <<stored, step, work, screen, processes, bounds, past>>

\* The game's files and the archive are whole or absent, whatever was interrupted.
LauncherTypeOK ==
  /\ sd \in [File -> Content \cup {None}]
  /\ restoreTmp \in [File -> Content \cup {None, Cut}]
  /\ archive \in [File -> Content \cup {None}] \cup {None}
  /\ program \in [pkg : 0..MaxPackage, updated : BOOLEAN] \cup {None}
  /\ runtimeState \in (1..MaxPackage) \cup {None, Cut, Policy1}
  /\ Windows \in BOOLEAN
  /\ rom \in BOOLEAN /\ crashState \in {None, "dirty", "clean"} /\ package \in 1..MaxPackage
  /\ step \in {"off", "idle"} \cup Operation
  /\ todo \in Seq(File) /\ doomed \subseteq File \cup {"program", "rom"}
  /\ packed \in [File -> Content \cup {None}]
  /\ dialog \in {None, "rom", "backup", "restore", "confirm", "delete"}
  /\ emulator \in Game \cup {None} /\ waits \subseteq {"launch", "close"} \X Game
  /\ window \in {"closed", "shown", "hidden"}
  /\ playEnabled \in BOOLEAN /\ previousUncleanExit \in BOOLEAN
  /\ alive \subseteq Game /\ killed \in BOOLEAN /\ exits \subseteq Game
  /\ writes \in 0..MaxWrites /\ troubles \in 0..Troubles
  /\ owed \in [File -> SUBSET Content] /\ interrupted \in 0..Troubles
  /\ ended \in {"never", "clean", "crash", "unmarked"} /\ deleted \in BOOLEAN

Nothing == [f \in File |-> None]
Staged(p) == [pkg |-> p, updated |-> FALSE]

\* A first start, or a card left by a launcher of the first policy, which kept
\* an older program and noted the new package.
LauncherInit ==
  /\ sd = Nothing /\ restoreTmp = Nothing /\ archive = None
  /\ \/ program = None /\ runtimeState = None
     \/ program = Staged(0) /\ runtimeState = Policy1
  /\ Windows \in BOOLEAN
  /\ rom = FALSE /\ crashState = None /\ package = 1
  /\ step = "off" /\ todo = <<>> /\ doomed = {} /\ packed = Nothing
  /\ dialog = None /\ window = "closed" /\ playEnabled = FALSE /\ previousUncleanExit = FALSE
  /\ emulator = None /\ waits = {} /\ alive = {} /\ killed = FALSE /\ exits = {}
  /\ writes = 0 /\ troubles = 0
  /\ owed = [f \in File |-> {}] /\ interrupted = 0
  /\ ended = "never" /\ deleted = FALSE

(***************************************************************************)
(* The session: start, quit, crash.                                        *)
(***************************************************************************)
\* whenReady: markLauncherStarted, which replaces crash-state.json in one rename
StartUp ==
  /\ step = "off"
  /\ previousUncleanExit' = (crashState = "dirty")
  /\ crashState' = "dirty"
  /\ step' = "idle" /\ window' = "shown" /\ playEnabled' = TRUE
  /\ deleted' = FALSE
  /\ UNCHANGED <<card, archive, runtimeState, work, dialog, processes, bounds, owed, interrupted, ended>>

\* what the main process holds in memory
Gone ==
  /\ step' = "off" /\ todo' = <<>> /\ doomed' = {} /\ packed' = Nothing
  /\ dialog' = None /\ window' = "closed" /\ playEnabled' = FALSE /\ previousUncleanExit' = FALSE
  /\ emulator' = None /\ killed' = FALSE /\ waits' = {} /\ exits' = {}

Running == emulator # None /\ ~killed
\* child.kill(): a process that has ended cannot be signalled
Signal ==
  /\ killed' = (emulator \in alive)
  /\ alive' = IF Windows THEN alive \ {emulator} ELSE alive
  /\ exits' = exits \cup (alive \ alive')

\* before-quit, after an ordinary close
CleanExit(left) ==
  /\ Gone /\ crashState' = "clean" /\ ended' = "clean"
  /\ alive' = IF Windows THEN {} ELSE left
  /\ UNCHANGED <<card, archive, runtimeState, bounds, owed, interrupted, deleted>>

\* window-all-closed
CloseWindow ==
  /\ step = "idle" /\ window = "shown" /\ dialog = None
  /\ IF Running
     THEN /\ window' = "closed" /\ Signal /\ waits' = waits \cup {<<"close", emulator>>}
          /\ UNCHANGED <<stored, step, work, dialog, playEnabled, previousUncleanExit, emulator, bounds, past>>
     ELSE CleanExit(alive)

\* the user opens the launcher again while it runs: second-instance
SecondInstance ==
  /\ step = "idle" /\ window = "hidden" /\ window' = "shown"
  /\ UNCHANGED <<stored, step, work, dialog, playEnabled, previousUncleanExit, processes, bounds, past>>

\* A write that does not finish leaves its file short.
PartlyWritten ==
  /\ restoreTmp' \in {restoreTmp} \cup
       (IF step = "restore" THEN {[restoreTmp EXCEPT ![Head(todo)] = Cut]} ELSE {})
  /\ runtimeState' \in {runtimeState} \cup (IF step = "note" THEN {Cut} ELSE {})
  /\ interrupted' = interrupted + (IF step \in {"restore", "clear", "move"} THEN 1 ELSE 0)

Trouble == troubles < Troubles /\ troubles' = troubles + 1

\* (bug: before-quit marks a clean exit after an exception, too)
MarkedClean == "clean"

LeavesMark == crashState

\* The launcher ends without before-quit: after an uncaught exception it
\* signals the emulator and leaves the mark of the start; ended from outside it
\* leaves the emulator behind, except on Windows; a power cut ends both.
Crash ==
  /\ step # "off" /\ Trouble
  /\ PartlyWritten
  /\ \/ /\ step = "idle" /\ crashState' = LeavesMark
        /\ alive' = IF Windows THEN {} ELSE alive
     \/ ~Windows /\ UNCHANGED <<alive, crashState>>
     \/ alive' = {} /\ UNCHANGED crashState
  /\ Gone
  /\ ended' = IF deleted THEN "unmarked" ELSE "crash"
  /\ UNCHANGED <<sd, program, rom, archive, Windows, package, writes, owed, deleted>>

\* A file operation throws: the handler ends, and the button works again.
Fail ==
  /\ step \in Operation /\ Trouble
  /\ PartlyWritten
  /\ step' = "idle" /\ todo' = <<>> /\ doomed' = {} /\ packed' = Nothing
  /\ playEnabled' = (playEnabled \/ step \in {"stage", "note"})
  /\ UNCHANGED <<sd, program, rom, archive, crashState, dialog, window, previousUncleanExit, processes,
                 Windows, package, writes, owed, session>>

\* A newer desktop package is installed while the launcher is closed.
InstallPackage ==
  /\ step = "off" /\ package < MaxPackage /\ package' = package + 1
  /\ UNCHANGED <<stored, step, work, screen, processes, Windows, writes, troubles, past>>

(***************************************************************************)
(* The emulator and the game in it.                                        *)
(***************************************************************************)
\* the game's folder on the card is there as long as anything is in it
Folder == rom \/ program # None \/ \E f \in File : sd[f] # None

\* The game stores its save or identity.  What it stores descends from the
\* file it finds; after a loss it starts anew and what was lost stays owed.  A
\* restore that runs may replace it.
GameWrites(g, f) ==
  /\ g \in alive /\ Folder /\ writes < MaxWrites
  /\ writes' = writes + 1
  /\ sd' = [sd EXCEPT ![f] = writes']
  /\ owed' = [owed EXCEPT ![f] = IF f \in Range(todo) THEN @ \cup {writes'}
                                 ELSE IF @ = {} \/ sd[f] \in @ THEN {writes'} ELSE @]
  /\ UNCHANGED <<restoreTmp, program, rom, archive, runtimeState, crashState, step, work, screen, processes,
                 Windows, package, troubles, interrupted, session>>

\* The runtime updates itself; replace3dsx may be interrupted with no file
\* under its name.
GameUpdates(g) ==
  /\ g \in alive /\ program # None /\ ~program.updated
  /\ program' \in {[program EXCEPT !.updated = TRUE], None}
  /\ UNCHANGED <<sd, restoreTmp, rom, archive, runtimeState, crashState, step, work, screen, processes, bounds, past>>

GameEnds(g) ==
  /\ g \in alive /\ alive' = alive \ {g}
  /\ exits' = IF step = "off" THEN exits ELSE exits \cup {g}
  /\ UNCHANGED <<stored, step, work, screen, emulator, waits, killed, bounds, past>>

\* if (emulatorProcess === child) emulatorProcess = null
Clears(g) ==
  /\ emulator' = IF emulator = g THEN None ELSE emulator
  /\ killed' = (killed /\ emulator # g)

\* the exit handler of launch-emulator
Exit(g) ==
  /\ step = "idle" /\ g \in exits /\ exits' = exits \ {g}
  /\ Clears(g)
  /\ window' = IF window = "hidden" THEN "shown" ELSE window
  /\ UNCHANGED <<stored, step, work, dialog, playEnabled, previousUncleanExit, waits, alive, bounds, past>>

(***************************************************************************)
(* launch-emulator.                                                        *)
(***************************************************************************)
Click == step = "idle" /\ window = "shown" /\ dialog = None

\* Play: the ROM is validated, then terminateEmulator
Play ==
  /\ Click /\ playEnabled /\ rom
  /\ playEnabled' = FALSE
  /\ IF Running
     THEN Signal /\ waits' = waits \cup {<<"launch", emulator>>} /\ UNCHANGED step
     ELSE step' = "stage" /\ UNCHANGED <<killed, waits, alive, exits>>
  /\ UNCHANGED <<stored, work, dialog, window, previousUncleanExit, emulator, bounds, past>>

\* terminateEmulator after its half second
Wake(who, g) ==
  /\ step = "idle" /\ <<who, g>> \in waits
  /\ \/ /\ who = "launch" /\ step' = "stage"
        /\ alive' = alive \ {g}
        /\ waits' = waits \ {<<who, g>>}
        /\ Clears(g)
        /\ exits' = exits \cup ({g} \cap alive)
        /\ UNCHANGED <<stored, work, screen, bounds, past>>
     \/ who = "close" /\ CleanExit(alive \ {g})

\* (bug: a note of the first policy, or none, is taken for the installed package)
OnlyOnChange ==
  program = None \/ (runtimeState \in Nat /\ runtimeState # package)
\* (bug: any program that is not the packaged one is replaced)
WheneverDifferent == program # Staged(package)

\* ensureRuntimeInstalled: which program the emulator gets
ShouldInstall ==
  \/ program = None
  \/ runtimeState \in Nat /\ runtimeState # package
  \/ runtimeState \in {None, Cut, Policy1}

Stage ==
  /\ step = "stage" /\ step' = "note"
  /\ program' = IF ShouldInstall THEN Staged(package) ELSE program
  /\ UNCHANGED <<sd, restoreTmp, rom, archive, runtimeState, crashState, work, screen, processes, bounds, past>>

\* runtime-state.json is written, then the emulator is started
Spawn(g) ==
  /\ step = "note" /\ step' = "idle"
  /\ runtimeState' = package
  /\ g \notin alive \cup exits /\ g # emulator /\ (\A w \in waits : w[2] # g)
  /\ emulator' = g /\ alive' = alive \cup {g} /\ killed' = FALSE
  /\ window' = IF window = "shown" THEN "hidden" ELSE window
  /\ playEnabled' = TRUE
  /\ UNCHANGED <<card, archive, crashState, work, dialog, previousUncleanExit, waits, exits, bounds, past>>

(***************************************************************************)
(* Dialogs.                                                                *)
(***************************************************************************)
\* select-rom is not refused while the emulator runs; the others ask first.
Open(d) ==
  /\ Click /\ d \in {"rom", "backup", "restore", "delete"}
  /\ d = "rom" \/ ~Running
  /\ dialog' = d
  /\ playEnabled' = (playEnabled /\ d # "rom")
  /\ UNCHANGED <<stored, step, work, window, previousUncleanExit, processes, bounds, past>>

Cancel ==
  /\ step = "idle" /\ dialog # None /\ dialog' = None
  /\ playEnabled' = (playEnabled \/ dialog = "rom")
  /\ UNCHANGED <<stored, step, work, window, previousUncleanExit, processes, bounds, past>>

Answer(d) == step = "idle" /\ dialog = d /\ dialog' = None

\* select-rom: setupVirtualSd puts a validated ROM in place with one rename
SelectRom ==
  /\ Answer("rom")
  /\ rom' = TRUE /\ playEnabled' = TRUE
  /\ UNCHANGED <<sd, restoreTmp, program, archive, runtimeState, crashState, step, work, window, previousUncleanExit,
                 processes, bounds, past>>

(***************************************************************************)
(* backup-local-data: createLocalBackup over the user's earlier backup.    *)
(***************************************************************************)
\* without any file, the settings included, there is nothing to back up
Collect ==
  /\ Answer("backup")
  /\ \/ step' = "publish" /\ packed' = sd
     \/ sd = Nothing /\ UNCHANGED <<step, packed>>
  /\ UNCHANGED <<stored, todo, doomed, window, playEnabled, previousUncleanExit, processes, bounds, past>>

PublishStep(a, next) ==
  /\ archive' = a /\ step' = next
  /\ packed' = IF next = "idle" THEN Nothing ELSE packed
  /\ UNCHANGED <<card, runtimeState, crashState, todo, doomed, screen, processes, bounds, past>>
RemoveOld == step = "publish" /\ PublishStep(None, "rename")
Publish == step = "rename" /\ PublishStep(packed, "idle")

(***************************************************************************)
(* restore-local-data: inspected before the second dialog and again after. *)
(***************************************************************************)
Inspect ==
  /\ step = "idle" /\ dialog = "restore"
  /\ dialog' = IF archive = None THEN None ELSE "confirm"
  /\ UNCHANGED <<stored, step, work, window, playEnabled, previousUncleanExit, processes, bounds, past>>

\* (bug: files the backup does not have are cleared)
AnyFile(f) == TRUE

Has(f) == archive[f] # None
\* in the order in which an archive lists them
Packed == (IF Has("save") THEN <<"save">> ELSE <<>>) \o (IF Has("identity") THEN <<"identity">> ELSE <<>>)
Confirm ==
  /\ Answer("confirm")
  /\ IF archive = None \/ Packed = <<>>
     THEN UNCHANGED <<step, todo>>
     ELSE step' = "restore" /\ todo' = Packed
  /\ UNCHANGED <<stored, doomed, packed, window, playEnabled, previousUncleanExit, processes, bounds, past>>

\* restoreLocalBackup: each file is written beside, the old one removed, the new one moved
RestoreStep(next) ==
  /\ step' = next
  /\ UNCHANGED <<program, rom, archive, runtimeState, crashState, doomed, packed, dialog, window, previousUncleanExit,
                 processes, bounds, interrupted, ended, deleted>>
WriteBeside ==
  /\ step = "restore" /\ RestoreStep("clear")
  /\ restoreTmp' = [restoreTmp EXCEPT ![Head(todo)] = archive[Head(todo)]]
  /\ owed' = [owed EXCEPT ![Head(todo)] = @ \cup {archive[Head(todo)]}]
  /\ UNCHANGED <<sd, todo, playEnabled>>
RemoveTarget ==
  /\ step = "clear" /\ RestoreStep("move")
  /\ sd' = [sd EXCEPT ![Head(todo)] = None]
  /\ UNCHANGED <<restoreTmp, todo, playEnabled, owed>>
MoveIn ==
  LET f == Head(todo) IN
  /\ step = "move" /\ RestoreStep(IF Tail(todo) = <<>> THEN "idle" ELSE "restore")
  /\ todo' = Tail(todo)
  /\ sd' = [sd EXCEPT ![f] = restoreTmp[f]]
  /\ restoreTmp' = [restoreTmp EXCEPT ![f] = None]
  /\ owed' = [owed EXCEPT ![f] = {sd'[f]}]
  /\ playEnabled' = (playEnabled \/ Tail(todo) = <<>>)

(***************************************************************************)
(* delete-local-data: deleteLocalData.  The card goes first, in the order  *)
(* its directories are read, then the files beside it.                     *)
(***************************************************************************)
ConfirmDelete ==
  /\ Answer("delete")
  /\ step' = "wipe" /\ doomed' = File \cup {"program", "rom"}
  /\ UNCHANGED <<stored, todo, packed, window, playEnabled, previousUncleanExit, processes, bounds, past>>

Wipe(x) ==
  /\ step = "wipe" /\ x \in doomed /\ doomed' = doomed \ {x}
  /\ step' = IF doomed' = {} THEN "wipeState" ELSE "wipe"
  /\ sd' = [f \in File |-> IF f = x THEN None ELSE sd[f]]
  /\ restoreTmp' = [f \in File |-> IF f = x THEN None ELSE restoreTmp[f]]
  /\ program' = IF x = "program" THEN None ELSE program
  /\ rom' = (rom /\ x # "rom")
  /\ owed' = [f \in File |-> IF f = x THEN {} ELSE owed[f]]
  /\ UNCHANGED <<archive, runtimeState, crashState, todo, packed, screen, processes, bounds, interrupted, session>>

WipeState ==
  /\ step = "wipeState" /\ step' = "wipeCrash" /\ runtimeState' = None
  /\ UNCHANGED <<card, archive, crashState, work, screen, processes, bounds, past>>

\* the mark of the start goes too, and the notice
WipeCrash ==
  /\ step = "wipeCrash" /\ step' = "idle" /\ crashState' = None
  /\ previousUncleanExit' = FALSE /\ playEnabled' = TRUE /\ deleted' = TRUE
  /\ UNCHANGED <<card, archive, runtimeState, work, dialog, window, processes, bounds, owed, interrupted,
                 ended>>

LauncherNext ==
  \/ StartUp \/ CloseWindow \/ SecondInstance \/ Crash \/ Fail \/ InstallPackage
  \/ \E g \in Game : GameUpdates(g) \/ GameEnds(g) \/ Exit(g) \/ Spawn(g)
  \/ \E g \in Game, f \in File : GameWrites(g, f)
  \/ \E g \in Game, who \in {"launch", "close"} : Wake(who, g)
  \/ Play \/ Stage
  \/ \E d \in {"rom", "backup", "restore", "delete"} : Open(d)
  \/ Cancel \/ SelectRom
  \/ Collect \/ RemoveOld \/ Publish
  \/ Inspect \/ Confirm \/ WriteBeside \/ RemoveTarget \/ MoveIn
  \/ ConfirmDelete \/ (\E x \in File \cup {"program", "rom"} : Wipe(x)) \/ WipeState \/ WipeCrash

LauncherSpec == LauncherInit /\ [][LauncherNext]_launcherVars

(***************************************************************************)
(* Properties.                                                             *)
(***************************************************************************)
\* One interrupted restore loses nothing, whatever backups, launches and
\* crashes follow: of each file the user has the old content, or the one of the
\* backup, on the card or beside it, whatever has become of the backup.  (A
\* second interrupted restore may: it cuts short the file beside it.)
Copies(f) == {sd[f], restoreTmp[f]}
SaveKept ==
  interrupted <= 1 => \A f \in File : owed[f] # {} => (owed[f] \cap Copies(f)) \ {None} # {}

\* ensureRuntimeInstalled returns with a program the installed package staged,
\* or one that updated itself from there, whatever crashes, deletions, older
\* policies and updates that failed have left on the card.
Returns == step = "stage" /\ step' = "note"
PackageRules == [][Returns => program' # None /\ program'.pkg = package]_launcherVars

\* A program that updated itself is replaced only for another package, or when
\* a crash or a deletion took runtime-state.json.  (On Windows: elsewhere an
\* emulator that a crash left behind may update a program not yet noted.)
UpdatesPersist ==
  [][Windows /\ Returns /\ program # None /\ program.updated /\ ~program'.updated
       => package # program.pkg \/ runtimeState \in {None, Cut}]_launcherVars

\* The notice of the start is there exactly when the session before did not end
\* by itself, unless the user deleted the data in that session or in this one.
CrashIsNoticed ==
  step # "off" /\ ~deleted => (previousUncleanExit <=> ended = "crash")
=============================================================================
