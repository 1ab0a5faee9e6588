---------------------------- MODULE MCQuestStore ----------------------------
(***************************************************************************)
(* A small instance of QuestStore for TLC: a quest of two interactions, a  *)
(* quest that follows it, and one that requires nothing.                   *)
(***************************************************************************)
EXTENDS QuestStore

CONSTANTS c1, c2, may, research, report, gift, scientist, tree

\* the replaced connection of a trainer may still have a handler in flight
WhoIsWho == [c \in Conn |-> may]

NeedsOf == [q \in Quest |-> CASE q = research -> {scientist, tree}
                              [] q = report   -> {scientist}
                              [] q = gift     -> {}]
PrerequisiteOf == [q \in Quest |-> IF q = report THEN {research} ELSE {}]
TitleOf == [q \in Quest |-> CASE q = research -> "Beta Pioneer II"
                              [] q = report   -> "Research Assistant"
                              [] q = gift     -> "Beta Pioneer"]
=============================================================================
