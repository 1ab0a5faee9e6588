-------------------------- MODULE GuildStore_proofs --------------------------
(***************************************************************************)
(* Proofs about GuildStore for any number of connections, trainers, guilds *)
(* and any cap: the two tables agree, and tags are unique.  Neither needs  *)
(* anything of the handlers in flight beyond their types, so both hold     *)
(* however handlers overlap.                                               *)
(***************************************************************************)
EXTENDS GuildStore, TLAPS

\* Stored tags are upper case, which makes UNIQUE (tag) ignore case.
TagsStored ==
  \A g \in live : /\ Upper[guilds[g].tag] = guilds[g].tag
                  /\ \A h \in live : g # h => guilds[g].tag # guilds[h].tag

GuildInv == TypeOK /\ MembershipsAgree /\ TagsStored

\* The function that InsertGuild builds.
LEMMA NewRow ==
  ASSUME TypeOK, NEW g \in Guild \ everUsed, NEW r \in Row,
         guilds' = [h \in live \cup {g} |-> IF h = g THEN r ELSE guilds[h]]
  PROVE  /\ live' = live \cup {g} /\ g \notin live
         /\ guilds' \in [live' -> Row]
         /\ guilds'[g] = r /\ \A h \in live : guilds'[h] = guilds[h]
  <1>1. live' = live \cup {g} /\ g \notin live
    BY DEF live, TypeOK
  <1> QED BY <1>1 DEF TypeOK

\* The rows that a deletion keeps are unchanged.
LEMMA KeptRows ==
  ASSUME TypeOK, NEW S, guilds' = Keep(S)
  PROVE  /\ live' = live \ S
         /\ guilds' \in [live' -> Row]
         /\ \A h \in live' : guilds'[h] = guilds[h]
  <1>1. live' = live \ S
    BY DEF Keep, live
  <1> QED BY <1>1 DEF Keep, TypeOK

\* Initially there are no guilds and no memberships.
LEMMA GuildInit == Init => GuildInv
  <1> SUFFICES ASSUME Init PROVE GuildInv
    OBVIOUS
  <1>1. live = {}
    BY DEF Init, live
  <1>2. TypeOK
    BY <1>1, GuildAssumption DEF Init, TypeOK, Handler
  <1> QED BY <1>1, <1>2 DEF Init, GuildInv, MembershipsAgree, TagsStored

\* A statement that only reads changes no table.
LEMMA ReadStep ==
  ASSUME GuildInv, NEW c \in Conn, NEW next \in Handler, Reads(c, next)
  PROVE  GuildInv'
  BY DEF GuildInv, TypeOK, MembershipsAgree, TagsStored, Reads, rows, live

\* Removing one membership keeps the tables in agreement.
LEMMA WithoutStep ==
  ASSUME GuildInv, NEW i \in Identity, member' = Without(i), op' \in [Conn -> Handler],
         UNCHANGED <<guilds, everUsed, identities>>
  PROVE  GuildInv'
  BY DEF GuildInv, TypeOK, MembershipsAgree, TagsStored, Without, live

\* Which messages a handler carries from one statement to the next.
LEMMA OpShape ==
  ASSUME TypeOK, NEW c \in Conn
  PROVE  /\ op[c].type \in {"create_name", "create_tag", "create_insert"} =>
              op[c].name \in Name /\ op[c].tag \in Tag
         /\ op[c].type = "join_guild" => op[c].name \in Name
         /\ op[c].type \in {"join_count", "join_insert"} => op[c].guild \in Guild
         /\ op[c].type \in {"kick_target", "kick"} => op[c].target \in Identity
         /\ op[c].type = "kick_target" => op[c].guild \in Guild
  BY DEF TypeOK, Handler, Creating, Joining, Leaving, Kicking, Idle

\* Every statement keeps the tables in agreement.
LEMMA GuildStep ==
  ASSUME GuildInv, Next
  PROVE  GuildInv'
  <1> USE GuildAssumption
  <1>types. TypeOK
    BY DEF GuildInv
  <1>idle. Idle \in Handler
    BY DEF Handler
  <1>1. ASSUME NEW c \in Conn, NEW n \in Name, NEW t \in Tag, Create(c, n, t)
        PROVE  GuildInv'
    <2>1. [type |-> "create_name", name |-> n, tag |-> t] \in Handler
      BY DEF Handler, Creating
    <2> QED BY <1>1, <2>1, ReadStep DEF Create
  <1>2. ASSUME NEW c \in Conn, NEW n \in Name, Join(c, n)
        PROVE  GuildInv'
    <2>1. [type |-> "join_guild", name |-> n] \in Handler
      BY DEF Handler, Joining
    <2> QED BY <1>2, <2>1, ReadStep DEF Join
  <1>3. ASSUME NEW c \in Conn, CheckName(c) \/ CheckTag(c)
        PROVE  GuildInv'
    <2>1. op[c].name \in Name /\ op[c].tag \in Tag
      BY <1>3, <1>types, OpShape DEF CheckName, CheckTag
    <2>2. /\ [type |-> "create_tag", name |-> op[c].name, tag |-> op[c].tag] \in Handler
          /\ [type |-> "create_insert", name |-> op[c].name, tag |-> op[c].tag] \in Handler
      BY <2>1 DEF Handler, Creating
    <2> QED BY <1>3, <1>idle, <2>2, ReadStep DEF CheckName, CheckTag
  <1>4. ASSUME NEW c \in Conn, InsertGuildThrows(c) \/ InsertMemberThrows(c)
        PROVE  GuildInv'
    BY <1>4, <1>idle, ReadStep DEF InsertGuildThrows, InsertMemberThrows
  <1>5. ASSUME NEW c \in Conn, InsertGuild(c)
        PROVE  GuildInv'
    <2> DEFINE i == Who[c]
               t == StoredTag(op[c].tag)
               new == [name |-> op[c].name, tag |-> t, leader |-> i]
    <2>1. op[c].name \in Name /\ op[c].tag \in Tag /\ i \in Identity
      BY <1>5, <1>types, OpShape DEF InsertGuild
    <2>2. t \in Tag /\ Upper[t] = t /\ new \in Row
      BY <2>1 DEF StoredTag, Row
    <2>3. /\ \A g \in live : guilds[g].tag # t
          /\ i \in identities /\ member[i] = NoMembership
      BY <1>5 DEF InsertGuild, MayInsertGuild
    <2>4. PICK g \in Guild \ everUsed :
            /\ guilds' = [h \in live \cup {g} |-> IF h = g THEN new ELSE guilds[h]]
            /\ everUsed' = everUsed \cup {g}
            /\ member' = [member EXCEPT ![i] = [guild |-> g, role |-> "leader"]]
      BY <1>5 DEF InsertGuild
    <2>5. /\ live' = live \cup {g} /\ g \notin live
          /\ guilds' \in [live' -> Row]
          /\ guilds'[g] = new /\ \A h \in live : guilds'[h] = guilds[h]
      BY <1>types, <2>2, <2>4, NewRow
    <2>6. op' \in [Conn -> Handler] /\ UNCHANGED identities
      BY <1>5, <1>types, <1>idle DEF InsertGuild, TypeOK
    <2>7. TypeOK'
      BY <1>types, <2>1, <2>4, <2>5, <2>6 DEF TypeOK, Membership
    <2>8. TagsStored'
      BY <2>2, <2>3, <2>5 DEF GuildInv, TagsStored
    <2>9. MembershipsAgree'
      <3> SUFFICES ASSUME NEW j \in Identity, member'[j] # NoMembership
                   PROVE  /\ j \in identities /\ member'[j].guild \in live'
                          /\ member'[j].role = "leader" => guilds'[member'[j].guild].leader = j
        BY <2>6 DEF MembershipsAgree
      <3>1. CASE j = i
        BY <3>1, <1>types, <2>3, <2>4, <2>5 DEF TypeOK
      <3>2. CASE j # i
        BY <3>2, <1>types, <2>4, <2>5 DEF TypeOK, GuildInv, MembershipsAgree
      <3> QED BY <3>1, <3>2
    <2> QED BY <2>7, <2>8, <2>9 DEF GuildInv
  <1>6. ASSUME NEW c \in Conn, FindGuild(c)
        PROVE  GuildInv'
    <2>1. \A g \in live : [type |-> "join_count", guild |-> g] \in Handler
      BY <1>types DEF Handler, Joining, TypeOK
    <2> QED BY <1>6, <1>idle, <2>1, ReadStep DEF FindGuild
  <1>7. ASSUME NEW c \in Conn, CountMembers(c)
        PROVE  GuildInv'
    <2>1. op[c].guild \in Guild
      BY <1>7, <1>types, OpShape DEF CountMembers
    <2>2. [type |-> "join_insert", guild |-> op[c].guild] \in Handler
      BY <2>1 DEF Handler, Joining
    <2> QED BY <1>7, <1>idle, <2>2, ReadStep DEF CountMembers
  <1>8. ASSUME NEW c \in Conn, InsertMember(c)
        PROVE  GuildInv'
    <2> DEFINE g == op[c].guild
               i == Who[c]
    <2>1. g \in live /\ i \in identities /\ i \in Identity /\ g \in Guild
      BY <1>8, <1>types DEF InsertMember, MayInsertMember, TypeOK
    <2>2. op' \in [Conn -> Handler] /\ UNCHANGED <<guilds, everUsed, identities>>
      BY <1>8, <1>types, <1>idle DEF InsertMember, TypeOK
    <2>3. member' = [member EXCEPT ![i] = [guild |-> g, role |-> "member"]]
      BY <1>8 DEF InsertMember
    <2> QED BY <1>types, <2>1, <2>2, <2>3 DEF GuildInv, TypeOK, Membership, MembershipsAgree, TagsStored, live
  <1>9. ASSUME NEW c \in Conn, Leave(c)
        PROVE  GuildInv'
    <2>1. [type |-> "leave"] \in Handler
      BY DEF Handler, Leaving
    <2> QED BY <1>9, <2>1, ReadStep DEF Leave
  <1>10. ASSUME NEW c \in Conn, DeleteOwnMembership(c)
         PROVE  GuildInv'
    <2>1. op' \in [Conn -> Handler]
      BY <1>10, <1>types, <1>idle DEF DeleteOwnMembership, TypeOK
    <2> QED BY <1>10, <2>1, WithoutStep DEF DeleteOwnMembership
  <1>11. ASSUME NEW c \in Conn, Disband(c)
         PROVE  GuildInv'
    <2>1. member[Who[c]] \in Membership
      BY <1>11, <1>types DEF Disband, TypeOK, NoMembership
    <2>2. [type |-> "disband", guild |-> member[Who[c]].guild] \in Handler
      BY <2>1 DEF Handler, Leaving, Membership
    <2> QED BY <1>11, <2>2, ReadStep DEF Disband
  <1>12. ASSUME NEW c \in Conn, DeleteGuild(c)
         PROVE  GuildInv'
    <2> DEFINE S == {op[c].guild}
    <2>1. /\ live' = live \ S
          /\ guilds' \in [live' -> Row]
          /\ \A h \in live' : guilds'[h] = guilds[h]
      BY <1>12, <1>types, KeptRows DEF DeleteGuild
    <2>2. op' \in [Conn -> Handler]
      BY <1>12, <1>types, <1>idle DEF DeleteGuild, TypeOK
    <2>3. member' = Cascade(S) /\ UNCHANGED <<everUsed, identities>>
      BY <1>12 DEF DeleteGuild
    <2>4. TypeOK'
      BY <1>types, <2>1, <2>2, <2>3 DEF TypeOK, Cascade
    <2>5. MembershipsAgree'
      BY <1>types, <2>1, <2>3 DEF TypeOK, GuildInv, MembershipsAgree, Cascade
    <2>6. TagsStored'
      BY <2>1 DEF GuildInv, TagsStored
    <2> QED BY <2>4, <2>5, <2>6 DEF GuildInv
  <1>13. ASSUME NEW c \in Conn, NEW j \in Identity, Kick(c, j)
         PROVE  GuildInv'
    <2>1. member[Who[c]] \in Membership
      BY <1>13, <1>types DEF Kick, TypeOK, NoMembership
    <2>2. [type |-> "kick_target", guild |-> member[Who[c]].guild, target |-> j] \in Handler
      BY <2>1 DEF Handler, Kicking, Membership
    <2> QED BY <1>13, <2>2, ReadStep DEF Kick
  <1>14. ASSUME NEW c \in Conn, CheckTarget(c)
         PROVE  GuildInv'
    <2>1. op[c].target \in Identity
      BY <1>14, <1>types, OpShape DEF CheckTarget
    <2>2. [type |-> "kick", target |-> op[c].target] \in Handler
      BY <2>1 DEF Handler, Kicking
    <2> QED BY <1>14, <1>idle, <2>2, ReadStep DEF CheckTarget
  <1>15. ASSUME NEW c \in Conn, DeleteMember(c)
         PROVE  GuildInv'
    <2>1. op[c].target \in Identity
      BY <1>15, <1>types, OpShape DEF DeleteMember
    <2>2. op' \in [Conn -> Handler]
      BY <1>15, <1>types, <1>idle DEF DeleteMember, TypeOK
    <2> QED BY <1>15, <2>1, <2>2, WithoutStep DEF DeleteMember
  <1>16. ASSUME NEW i \in Identity, DeleteIdentity(i)
         PROVE  GuildInv'
    <2> DEFINE led == {g \in live : guilds[g].leader = i}
    <2>1. guilds' = Keep(led)
      BY <1>16 DEF DeleteIdentity
    <2>2. /\ live' = live \ led
          /\ guilds' \in [live' -> Row]
          /\ \A h \in live' : guilds'[h] = guilds[h]
      BY <2>1, <1>types, KeptRows
    <2>3. /\ member' = [Cascade(led) EXCEPT ![i] = NoMembership]
          /\ identities' = identities \ {i}
          /\ UNCHANGED <<everUsed, op>>
      BY <1>16 DEF DeleteIdentity
    <2>4. \A j \in Identity : member'[j] = IF j = i \/ member[j].guild \in led THEN NoMembership ELSE member[j]
      BY <2>3 DEF Cascade
    <2>5. TypeOK'
      BY <1>types, <2>2, <2>3, <2>4 DEF TypeOK, Cascade
    <2>6. MembershipsAgree'
      BY <1>types, <2>2, <2>3, <2>4 DEF TypeOK, GuildInv, MembershipsAgree
    <2>7. TagsStored'
      BY <2>2 DEF GuildInv, TagsStored
    <2> QED BY <2>5, <2>6, <2>7 DEF GuildInv
  <1> QED BY <1>1, <1>2, <1>3, <1>4, <1>5, <1>6, <1>7, <1>8, <1>9, <1>10, <1>11, <1>12, <1>13,
             <1>14, <1>15, <1>16 DEF Next

\* GuildInv is an inductive invariant of the guild tables.
THEOREM GuildInvariant == Spec => []GuildInv
  <1>1. GuildInv /\ UNCHANGED vars => GuildInv'
    BY DEF GuildInv, TypeOK, MembershipsAgree, TagsStored, vars, live
  <1> QED BY GuildInit, GuildStep, <1>1, PTL DEF Spec

\* The rows of guilds and guild_members and the handlers keep their types.
THEOREM GuildTyping == Spec => []TypeOK
  <1>1. GuildInv => TypeOK
    BY DEF GuildInv
  <1> QED BY <1>1, GuildInvariant, PTL

\* Every member's guild exists, and who is leader is the leader_id of the
\* guild (guild_members, ON DELETE CASCADE).
THEOREM MembershipsAlwaysAgree == Spec => []MembershipsAgree
  BY GuildInvariant, PTL DEF GuildInv

\* Guild tags are unique up to case (createGuild, UNIQUE (tag)).
THEOREM TagsAlwaysUnique == Spec => []TagsAreUnique
  <1>1. GuildInv => TagsAreUnique
    BY DEF GuildInv, TagsStored, TagsAreUnique
  <1> QED BY <1>1, GuildInvariant, PTL
=============================================================================
