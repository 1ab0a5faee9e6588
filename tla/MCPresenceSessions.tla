------------------------ MODULE MCPresenceSessions ------------------------
(* Small instances of PresenceSessions for TLC. *)
EXTENDS PresenceSessions, TLC

CONSTANTS i1, k1, k2, s1

ConnSymmetry == Permutations(Conn)
OwnerIsFirst == [k \in Cred |-> i1]

\* every line a trainer's devices and a v1 session send
DeviceRequests == Message
\* a trainer's console that enrolls, logs in and revokes its session
ConsoleRequests == {m \in Message : m.type \in {"hello", "enroll", "revoke"}}
===========================================================================
