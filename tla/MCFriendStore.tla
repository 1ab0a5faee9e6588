--------------------------- MODULE MCFriendStore ---------------------------
(* A small instance of FriendStore for TLC. *)
EXTENDS FriendStore

CONSTANTS c1, c2, c3, may, brendan

\* Brendan's replaced connection may still have a handler in flight
WhoIsWho == [c \in Conn |-> IF c = c1 THEN may ELSE brendan]
============================================================================
