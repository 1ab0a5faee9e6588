----------------------------- MODULE GuildStore -----------------------------
(***************************************************************************)
(* Player guilds: PostgresGuildStore (server/src/guild-store.mjs) over the *)
(* tables of migrations/012_guilds.sql.  PostgreSQL runs at READ COMMITTED *)
(* and the store takes no lock, so every statement of a handler is a step  *)
(* of its own; inserts and the COMMIT that ends their transaction are one  *)
(* step, for no other statement reads in between.                          *)
(***************************************************************************)
EXTENDS Integers, FiniteSets

CONSTANTS
  Conn,          \* authenticated connections, one handler at a time each
  Identity,
  Who,           \* the identity of a connection
  Guild,         \* ids gen_random_uuid() may return, each at most once
  Name, Lower,   \* names as typed, and LOWER()
  Tag, Upper,    \* tags as typed, and toUpperCase()
  NoGuild,
  MAX_GUILD_MEMBERS

ASSUME GuildAssumption ==
  /\ Who \in [Conn -> Identity]
  /\ Lower \in [Name -> Name]
  /\ Upper \in [Tag -> Tag] /\ \A t \in Tag : Upper[Upper[t]] = Upper[t]
  /\ NoGuild \notin Guild
  /\ MAX_GUILD_MEMBERS \in Nat

VARIABLES
  guilds,      \* the rows of guilds, by id
  everUsed,    \* ids of guilds ever inserted
  member,      \* guild_members: identity -> guild and role
  identities,  \* identities not deleted
  op           \* the handler a connection is in, between two statements

vars == <<guilds, everUsed, member, identities, op>>

Row == [name : Name, tag : Tag, leader : Identity]
Membership == [guild : Guild, role : {"leader", "member"}]
NoMembership == [guild |-> NoGuild, role |-> "none"]

Idle == [type |-> "idle"]
Creating == [type : {"create_name", "create_tag", "create_insert"}, name : Name, tag : Tag]
Joining  == [type : {"join_guild"}, name : Name] \cup [type : {"join_count", "join_insert"}, guild : Guild]
Leaving  == [type : {"leave"}] \cup [type : {"disband"}, guild : Guild]
Kicking  == [type : {"kick_target"}, guild : Guild, target : Identity]
              \cup [type : {"kick"}, target : Identity]
Handler == {Idle} \cup Creating \cup Joining \cup Leaving \cup Kicking

live == DOMAIN guilds
MembersOf(g) == {i \in Identity : member[i].guild = g}

TypeOK ==
  /\ everUsed \in SUBSET Guild
  /\ live \subseteq everUsed
  /\ guilds \in [live -> Row]
  /\ member \in [Identity -> Membership \cup {NoMembership}]
  /\ identities \in SUBSET Identity
  /\ op \in [Conn -> Handler]

Init ==
  /\ guilds = [g \in {} |-> 0]
  /\ everUsed = {}
  /\ member = [i \in Identity |-> NoMembership]
  /\ identities = Identity
  /\ op = [c \in Conn |-> Idle]

rows == <<guilds, everUsed, member, identities>>

\* a statement that only reads; the handler goes on, or replies an error
Reads(c, next) ==
  /\ op' = [op EXCEPT ![c] = next]
  /\ UNCHANGED rows

-----------------------------------------------------------------------------
(* createGuild                                                             *)

Create(c, n, t) ==
  /\ op[c] = Idle
  /\ member[Who[c]] = NoMembership
  /\ Reads(c, [type |-> "create_name", name |-> n, tag |-> t])

NameTaken(n) == \E g \in live : Lower[guilds[g].name] = Lower[n]
TagTaken(t)  == \E g \in live : Upper[guilds[g].tag] = Upper[t]

CheckName(c) ==
  /\ op[c].type = "create_name"
  /\ Reads(c, IF NameTaken(op[c].name) THEN Idle
              ELSE [type |-> "create_tag", name |-> op[c].name, tag |-> op[c].tag])

CheckTag(c) ==
  /\ op[c].type = "create_tag"
  /\ Reads(c, IF TagTaken(op[c].tag) THEN Idle
              ELSE [type |-> "create_insert", name |-> op[c].name, tag |-> op[c].tag])

\* (bug: the tag is stored as typed)
TagAsTyped(t) == t
\* what createGuild stores of a tag
StoredTag(t) == Upper[t]

\* UNIQUE (name), UNIQUE (tag), and the keys of both tables
MayInsertGuild(i, n, t) ==
  /\ \A g \in live : guilds[g].name # n /\ guilds[g].tag # StoredTag(t)
  /\ i \in identities
  /\ member[i] = NoMembership

InsertGuild(c) ==
  LET i == Who[c]
      new == [name |-> op[c].name, tag |-> StoredTag(op[c].tag), leader |-> i] IN
  /\ op[c].type = "create_insert"
  /\ MayInsertGuild(i, op[c].name, op[c].tag)
  /\ \E g \in Guild \ everUsed :
       /\ guilds' = [h \in live \cup {g} |-> IF h = g THEN new ELSE guilds[h]]
       /\ everUsed' = everUsed \cup {g}
       /\ member' = [member EXCEPT ![i] = [guild |-> g, role |-> "leader"]]
  /\ op' = [op EXCEPT ![c] = Idle]
  /\ UNCHANGED identities

\* a constraint fails: ROLLBACK, internal_error
InsertGuildThrows(c) ==
  /\ op[c].type = "create_insert"
  /\ ~MayInsertGuild(Who[c], op[c].name, op[c].tag)
  /\ Reads(c, Idle)

-----------------------------------------------------------------------------
(* joinGuild                                                               *)

Join(c, n) ==
  /\ op[c] = Idle
  /\ member[Who[c]] = NoMembership
  /\ Reads(c, [type |-> "join_guild", name |-> n])

FindGuild(c) ==
  /\ op[c].type = "join_guild"
  /\ IF NameTaken(op[c].name)
     THEN \E g \in live : /\ Lower[guilds[g].name] = Lower[op[c].name]
                          /\ Reads(c, [type |-> "join_count", guild |-> g])
     ELSE Reads(c, Idle)

CountMembers(c) ==
  /\ op[c].type = "join_count"
  /\ Reads(c, IF Cardinality(MembersOf(op[c].guild)) >= MAX_GUILD_MEMBERS THEN Idle
              ELSE [type |-> "join_insert", guild |-> op[c].guild])

\* (bug: the foreign key of guild_members is not declared)
MayInsertMemberNoKey(i, g) == i \in identities /\ member[i] = NoMembership
\* the keys of guild_members; the guild is locked while its key is checked
MayInsertMember(i, g) == i \in identities /\ member[i] = NoMembership /\ g \in live

InsertMember(c) ==
  LET g == op[c].guild IN
  /\ op[c].type = "join_insert"
  /\ MayInsertMember(Who[c], g)
  /\ member' = [member EXCEPT ![Who[c]] = [guild |-> g, role |-> "member"]]
  /\ op' = [op EXCEPT ![c] = Idle]
  /\ UNCHANGED <<guilds, everUsed, identities>>

InsertMemberThrows(c) ==
  /\ op[c].type = "join_insert"
  /\ ~MayInsertMember(Who[c], op[c].guild)
  /\ Reads(c, Idle)

-----------------------------------------------------------------------------
(* leaveGuild, disbandGuild, kickMember: _getMembership, then a DELETE     *)
(* that trusts what it returned                                            *)

Leave(c) ==
  /\ op[c] = Idle
  /\ member[Who[c]].role = "member"
  /\ Reads(c, [type |-> "leave"])

Without(i) == [member EXCEPT ![i] = NoMembership]

DeleteOwnMembership(c) ==
  /\ op[c].type = "leave"
  /\ member' = Without(Who[c])
  /\ op' = [op EXCEPT ![c] = Idle]
  /\ UNCHANGED <<guilds, everUsed, identities>>

Disband(c) ==
  /\ op[c] = Idle
  /\ member[Who[c]].role = "leader"
  /\ Reads(c, [type |-> "disband", guild |-> member[Who[c]].guild])

Keep(S) == [g \in live \ S |-> guilds[g]]
\* ON DELETE CASCADE of guild_members
Cascade(S) == [i \in Identity |-> IF member[i].guild \in S THEN NoMembership ELSE member[i]]

DeleteGuild(c) ==
  /\ op[c].type = "disband"
  /\ guilds' = Keep({op[c].guild})
  /\ member' = Cascade({op[c].guild})
  /\ op' = [op EXCEPT ![c] = Idle]
  /\ UNCHANGED <<everUsed, identities>>

Kick(c, j) ==
  /\ op[c] = Idle
  /\ member[Who[c]].role = "leader"
  /\ j # Who[c]
  /\ Reads(c, [type |-> "kick_target", guild |-> member[Who[c]].guild, target |-> j])

CheckTarget(c) ==
  /\ op[c].type = "kick_target"
  /\ Reads(c, IF member[op[c].target].guild = op[c].guild
              THEN [type |-> "kick", target |-> op[c].target] ELSE Idle)

DeleteMember(c) ==
  /\ op[c].type = "kick"
  /\ member' = Without(op[c].target)
  /\ op' = [op EXCEPT ![c] = Idle]
  /\ UNCHANGED <<guilds, everUsed, identities>>

-----------------------------------------------------------------------------
\* delete_identity: guilds by leader_id and memberships cascade
DeleteIdentity(i) ==
  LET led == {g \in live : guilds[g].leader = i} IN
  /\ i \in identities
  /\ \E c \in Conn : Who[c] = i /\ op[c] = Idle
  /\ identities' = identities \ {i}
  /\ guilds' = Keep(led)
  /\ member' = [Cascade(led) EXCEPT ![i] = NoMembership]
  /\ UNCHANGED <<everUsed, op>>

Next ==
  \/ \E c \in Conn :
       \/ \E n \in Name : (\E t \in Tag : Create(c, n, t)) \/ Join(c, n)
       \/ CheckName(c) \/ CheckTag(c) \/ InsertGuild(c) \/ InsertGuildThrows(c)
       \/ FindGuild(c) \/ CountMembers(c) \/ InsertMember(c) \/ InsertMemberThrows(c)
       \/ Leave(c) \/ DeleteOwnMembership(c)
       \/ Disband(c) \/ DeleteGuild(c)
       \/ \E j \in Identity : Kick(c, j)
       \/ CheckTarget(c) \/ DeleteMember(c)
  \/ \E i \in Identity : DeleteIdentity(i)

Spec == Init /\ [][Next]_vars

-----------------------------------------------------------------------------
(* Properties                                                              *)

\* guild_members and guilds agree: a member's guild exists, however joins,
\* disbands and deletions overlap, and who holds the role of leader is the
\* leader_id of that guild.
MembershipsAgree ==
  \A i \in Identity : member[i] # NoMembership =>
    /\ i \in identities
    /\ member[i].guild \in live
    /\ member[i].role = "leader" => guilds[member[i].guild].leader = i

\* No two guilds have tags that differ only in case, although createGuild
\* checks and inserts in separate statements (ROADMAP.md, unique tags).
TagsAreUnique ==
  \A g, h \in live : g # h => Upper[guilds[g].tag] # Upper[guilds[h].tag]
=============================================================================
