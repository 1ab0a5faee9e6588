-------------------------- MODULE MCCommunityStore --------------------------
(* Instances of CommunityStore: requests, topics and replies are alike.    *)
EXTENDS CommunityStore, TLC

Symmetry == Permutations(Req) \cup Permutations(Topic) \cup Permutations(Post)

\* bound: a moderator may be demoted and restored, nobody else is promoted
NoPromotions == moderators \subseteq Moderators
\* bound: a reply is only deleted with its topic
WholeTopics == \A p \in Post : Exists(p) => ~table[p].deleted
\* bound: a sanction ends in one way, and a warning, which forbids nothing, does not end
OneEnd == \A s \in Sanction : sanction[s] # NoRow =>
            /\ ~(sanction[s].expired /\ sanction[s].revoked)
            /\ sanction[s].kind = "warning" => Active(s)
=============================================================================
