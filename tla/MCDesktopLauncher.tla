------------------------- MODULE MCDesktopLauncher -------------------------
(* Small instances of DesktopLauncher for TLC. *)
EXTENDS DesktopLauncher, FiniteSets

\* bound: all copies of the identity are of one writing
Backed == IF archive = None THEN {} ELSE {archive["identity"]}
OneIdentity == Cardinality((Copies("identity") \cup Backed \cup owed["identity"]) \ {None, Cut}) <= 1
\* bound: either the program changes, by a second package or by its own update,
\* or the game writes a second time or there is a second trouble
NewProgram == package = 2 \/ (program # None /\ program.updated)
ProgramOrFiles == NewProgram => writes <= 1 /\ troubles <= 1
=============================================================================
