-------------------------- MODULE MCIdentityStore --------------------------
(* A small instance of IdentityStore for TLC. *)
EXTENDS IdentityStore, TLC

CONSTANTS x1, x2, x3, may, brendan, k1, k2, k3, s1, s2, s3, p1, p2

\* Ids are fresh and interchangeable, and so are calls.
Fresh == Permutations(Call) \cup Permutations(Identity) \cup Permutations(Credential)
           \cup Permutations(Session) \cup Permutations(Code)
=============================================================================
