---------------------------- MODULE LinkSession ----------------------------
(***************************************************************************)
(* What the experimental link transport promises the two trainers of a     *)
(* room: a room is empty, or one trainer waits in it as netpacket client   *)
(* 0, or two trainers are paired in it as clients 0 and 1.  A trainer is   *)
(* in one room at most, keeps its client number while it stays, and the    *)
(* room is emptied when client 0 goes.  How connections, queued messages   *)
(* and closing sockets bring these changes about is left to LinkRooms.     *)
(***************************************************************************)
CONSTANTS Conn,    \* the trainers' connections
          Room,    \* the room codes
          NoConn   \* nobody

VARIABLE seats     \* seats[r][i]: who is netpacket client i of room r

Empty == [i \in {0, 1} |-> NoConn]

Seated(c) == \E r \in Room, i \in {0, 1} : seats[r][i] = c

Init == seats = [r \in Room |-> Empty]

\* The first trainer of a room becomes client 0 and waits.
Wait(c, r) ==
  /\ ~Seated(c)
  /\ seats[r] = Empty
  /\ seats' = [seats EXCEPT ![r] = [i \in {0, 1} |-> IF i = 0 THEN c ELSE NoConn]]

\* A second trainer becomes client 1 of the trainer that waits.
Pair(c, r) ==
  /\ ~Seated(c)
  /\ seats[r][0] # NoConn
  /\ seats[r][1] = NoConn
  /\ seats' = [seats EXCEPT ![r] = [i \in {0, 1} |-> IF i = 1 THEN c ELSE seats[r][0]]]

\* Client 1 goes: client 0 waits again.
GuestGoes(r) ==
  /\ seats[r][1] # NoConn
  /\ seats' = [seats EXCEPT ![r] = [i \in {0, 1} |-> IF i = 1 THEN NoConn ELSE seats[r][0]]]

\* Client 0 goes: the room is destroyed, whoever else was in it.
HostGoes(r) ==
  /\ seats[r][0] # NoConn
  /\ seats' = [seats EXCEPT ![r] = Empty]

Next == \/ \E c \in Conn, r \in Room : Wait(c, r) \/ Pair(c, r)
        \/ \E r \in Room : GuestGoes(r) \/ HostGoes(r)

Spec == Init /\ [][Next]_seats
=============================================================================
