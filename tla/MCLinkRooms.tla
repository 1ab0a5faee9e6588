---------------------------- MODULE MCLinkRooms ----------------------------
(* Small instances of LinkRooms for TLC. *)
EXTENDS LinkRooms

\* what moves connections in and out of rooms, packets, and handlers that keep
\* a chain waiting
Lines == JoinMsg \cup {m \in PacketMsg : m.to = Broadcast} \cup PlainMsg

\* bound: one connection at a time is about to call, or awaits, a store other
\* than the identity store
OneStoreCall ==
  Cardinality({c \in Conn : busy[c] = "store" \/ \E i \in DOMAIN queue[c] : queue[c][i].type = "store"}) <= 1
=============================================================================
