--------------------------- MODULE MCGuildStore ---------------------------
(* Small instances of GuildStore for TLC. *)
EXTENDS GuildStore, TLC

CONSTANTS c1, c2, c3, may, brendan, heroes, rockets, HH, hh

\* every trainer has one connection, but Brendan's old one may still have a
\* handler in flight
WhoIsWho == [c \in Conn |-> IF c = c1 THEN may ELSE brendan]
LowerCase == [n \in Name |-> n]
UpperCase == [t \in Tag |-> IF t = hh THEN HH ELSE t]

Symmetry == Permutations(Guild)
===========================================================================
