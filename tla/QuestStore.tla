----------------------------- MODULE QuestStore -----------------------------
(***************************************************************************)
(* Quests and what they touch: PostgresQuestStore, PostgresTitleStore,     *)
(* PostgresResourceNodeStore and PostgresSkillStore (server/src), driven   *)
(* by the handlers npc_interact, quest_accept, quest_claim, title_equip    *)
(* and resource_interact of server.mjs.  Every await of a statement is a   *)
(* step, for the handlers of other connections, of the same identity too,  *)
(* run in between; a transaction whose first write is its last wait is one *)
(* step, and what a longer one wrote appears at its COMMIT.                *)
(* Quests, NPCs and nodes are rows that nothing changes at run time.       *)
(***************************************************************************)
EXTENDS Integers, FiniteSets

CONSTANTS
  Conn,        \* authenticated connections, one handler at a time each
  Identity,
  Who,         \* the identity of a connection
  Quest,
  Npc, Node,   \* slugs, the targets of requirements
  Needs,       \* the talk_to_npc and interact_resource requirements of a quest
  Prerequisite,\* its quest_completed requirements
  Title,       \* reward_data.title
  HARVEST_XP,  \* the xp of one harvest
  MAX_XP,      \* bound: no harvest starts at or above it
  Columns      \* columns the database has of those that claimReward and
               \*   harvestNode write but migrations/ never creates

Target == Npc \cup Node

ASSUME QuestAssumption ==
  /\ Who \in [Conn -> Identity]
  /\ Needs \in [Quest -> SUBSET Target]
  /\ Prerequisite \in [Quest -> SUBSET Quest]
  /\ DOMAIN Title = Quest
  /\ HARVEST_XP \in Nat \ {0} /\ MAX_XP \in Nat
  /\ Columns \subseteq {"reward_claimed_at", "updated_at"}

VARIABLES
  identities,  \* identities not deleted
  status,      \* player_quest_progress.status, "none" for no row
  progress,    \* player_quest_progress.progress: the targets met
  titles,      \* player_titles
  equipped,    \* identity_titles: a set of at most one title
  skill,       \* player_skills: xp and level
  unrepaired,  \* history: trainers whose last repair of the level failed or
               \*   raced with another gain
  available,   \* nodes whose respawn_seconds have passed
  op,          \* the handler of a connection between two statements
  paid         \* history: rewards sent for a quest

vars == <<identities, status, progress, titles, equipped, skill, unrepaired, available, op, paid>>

\* xpForLevel and levelForXp
XpForLevel(level) == IF level <= 1 THEN 0 ELSE 25 * level * level - 25 * level
LevelForXp(xp) ==
  CHOOSE level \in 1..99 :
    /\ level = 1 \/ xp >= XpForLevel(level)
    /\ level = 99 \/ xp < XpForLevel(level + 1)

Finished == {"completed", "claimed"}
Level == 1..99

Idle == [type |-> "idle"]
Handler ==
  {Idle}
    \cup [type : {"accept_check", "accept_insert", "claim_check", "claim", "unlock", "equip"},
          quest : Quest]
    \cup [type : {"harvest", "xp", "select"}, target : Target]
    \cup [type : {"level"}, target : Target, level : Level]
    \cup [type : {"record"}, target : Target, todo : SUBSET Quest, seen : [Quest -> SUBSET Target]]

TypeOK ==
  /\ identities \in SUBSET Identity
  /\ status \in [Identity -> [Quest -> {"none", "accepted"} \cup Finished]]
  /\ progress \in [Identity -> [Quest -> SUBSET Target]]
  /\ titles \in [Identity -> SUBSET {Title[q] : q \in Quest}]
  /\ equipped \in [Identity -> SUBSET {Title[q] : q \in Quest}]
  /\ skill \in [Identity -> [xp : Nat, level : Level]]
  /\ unrepaired \in SUBSET Identity
  /\ available \in SUBSET Node
  /\ op \in [Conn -> Handler]
  /\ paid \in [Identity -> [Quest -> Nat]]

NoSkill == [xp |-> 0, level |-> 1]

Init ==
  /\ identities = Identity
  /\ status = [i \in Identity |-> [q \in Quest |-> "none"]]
  /\ progress = [i \in Identity |-> [q \in Quest |-> {}]]
  /\ titles = [i \in Identity |-> {}]
  /\ equipped = [i \in Identity |-> {}]
  /\ skill = [i \in Identity |-> NoSkill]
  /\ unrepaired = {}
  /\ available = Node
  /\ op = [c \in Conn |-> Idle]
  /\ paid = [i \in Identity |-> [q \in Quest |-> 0]]

quests == <<status, progress>>
wardrobe == <<titles, equipped>>
skills == <<skill, unrepaired>>

Goes(c, next) == op' = [op EXCEPT ![c] = next]

\* a statement fails, or finds no row, and the handler replies an error; a
\* transaction rolls back
Throws(c) ==
  /\ op[c] # Idle
  /\ Goes(c, Idle)
  /\ unrepaired' = IF op[c].type = "level" THEN unrepaired \cup {Who[c]} ELSE unrepaired
  /\ UNCHANGED <<identities, quests, wardrobe, skill, available, paid>>

\* a statement that only reads
Reads(c, next) ==
  /\ Goes(c, next)
  /\ UNCHANGED <<identities, quests, wardrobe, skills, available, paid>>

-----------------------------------------------------------------------------
(* acceptQuest                                                             *)

Meets(i, q) == \A r \in Prerequisite[q] : status[i][r] \in Finished

\* SELECT ... FOR UPDATE finds no row, and so locks nothing
AcceptQuest(c, q) ==
  /\ op[c] = Idle
  /\ status[Who[c]][q] = "none"
  /\ Reads(c, [type |-> "accept_check", quest |-> q])

\* (bug: requirements of kind quest_completed are not prerequisites)
MeetsNothing(i, q) == TRUE
\* meetsRequirements of the prerequisites
MayAccept(i, q) == Meets(i, q)

AcceptCheck(c) ==
  /\ op[c].type = "accept_check"
  /\ Reads(c, IF MayAccept(Who[c], op[c].quest)
              THEN [type |-> "accept_insert", quest |-> op[c].quest] ELSE Idle)

\* INSERT, UNIQUE (identity_id, quest_id), COMMIT; a quest that requires
\* nothing is completed, and claimReward follows
AcceptInsert(c) ==
  LET i == Who[c]  q == op[c].quest
      autoComplete == Needs[q] = {} /\ Prerequisite[q] = {} IN
  /\ op[c].type = "accept_insert"
  /\ status[i][q] = "none" /\ i \in identities
  /\ status' = [status EXCEPT ![i][q] = IF autoComplete THEN "completed" ELSE "accepted"]
  /\ progress' = [progress EXCEPT ![i][q] = {}]
  /\ Goes(c, IF autoComplete THEN [type |-> "claim_check", quest |-> q] ELSE Idle)
  /\ UNCHANGED <<identities, wardrobe, skills, available, paid>>

-----------------------------------------------------------------------------
(* claimReward and equipTitle                                              *)

ClaimReward(c, q) ==
  /\ op[c] = Idle
  /\ Reads(c, [type |-> "claim_check", quest |-> q])

ClaimCheck(c) ==
  /\ op[c].type = "claim_check"
  /\ Reads(c, IF status[Who[c]][op[c].quest] = "completed"
              THEN [type |-> "claim", quest |-> op[c].quest] ELSE Idle)

\* (bug: the UPDATE trusts what getProgress read)
ClaimAsRead(i, q) == status[i][q] # "none"
\* WHERE status = 'completed'
MayClaim(i, q) == status[i][q] = "completed"

\* d's transaction has marked the quest claimed and holds its row
Holding(d, i, q) == op[d].type \in {"unlock", "equip"} /\ Who[d] = i /\ op[d].quest = q

\* BEGIN and the UPDATE, which waits for the row
MarkClaimed(c) ==
  LET i == Who[c]  q == op[c].quest IN
  /\ op[c].type = "claim"
  /\ "reward_claimed_at" \in Columns
  /\ \A d \in Conn : ~Holding(d, i, q)
  /\ MayClaim(i, q)
  /\ Reads(c, [type |-> "unlock", quest |-> q])

\* (bug: unlockTitle takes a connection of its own)
SeenAtOnce(i, q) == titles[i] \cup {Title[q]}
\* what the other connections see of the unlocked title: db = client ?? pool
SeenByOthers(i, q) == titles[i]

UnlockTitle(c) ==
  LET i == Who[c]  q == op[c].quest IN
  /\ op[c].type = "unlock"
  /\ titles' = [titles EXCEPT ![i] = SeenByOthers(i, q)]
  /\ Goes(c, [type |-> "equip", quest |-> q])
  /\ UNCHANGED <<identities, quests, equipped, skills, available, paid>>

\* equipTitle and COMMIT
ClaimCommit(c) ==
  LET i == Who[c]  q == op[c].quest IN
  /\ op[c].type = "equip"
  /\ status' = [status EXCEPT ![i][q] = "claimed"]
  /\ titles' = [titles EXCEPT ![i] = @ \cup {Title[q]}]
  /\ equipped' = [equipped EXCEPT ![i] = {Title[q]}]
  /\ paid' = [paid EXCEPT ![i][q] = @ + 1]
  /\ Goes(c, Idle)
  /\ UNCHANGED <<identities, progress, skills, available>>

EquipTitle(c, t) ==
  /\ op[c] = Idle
  /\ t \in titles[Who[c]]
  /\ equipped' = [equipped EXCEPT ![Who[c]] = {t}]
  /\ UNCHANGED <<identities, quests, titles, skills, available, op, paid>>

-----------------------------------------------------------------------------
(* resource_interact: findNodeBySlug, harvestNode, addXp                   *)

FindNode(c, n) ==
  /\ op[c] = Idle
  /\ n \in available
  /\ skill[Who[c]].xp < MAX_XP
  /\ Reads(c, [type |-> "harvest", target |-> n])

\* the UPDATE does not ask again whether the node is available
HarvestNode(c) ==
  /\ op[c].type = "harvest"
  /\ "updated_at" \in Columns
  /\ available' = available \ {op[c].target}
  /\ Goes(c, [type |-> "xp", target |-> op[c].target])
  /\ UNCHANGED <<identities, quests, wardrobe, skills, paid>>

Respawn(n) ==
  /\ n \in Node \ available
  /\ available' = available \cup {n}
  /\ UNCHANGED <<identities, quests, wardrobe, skills, op, paid>>

\* (bug: the level is that of the xp before the gain)
LevelBeforeGain(xp) == LevelForXp(xp - HARVEST_XP)
\* levelForXp(row.xp)
NewLevel(xp) == LevelForXp(xp)

\* another gain of i is about to write the level it computed
Repairing(d, i) == op[d].type = "level" /\ Who[d] = i

\* INSERT ... ON CONFLICT DO UPDATE sets the level of the gain alone, and a
\* second UPDATE follows when the xp of the row says otherwise
AddXp(c) ==
  LET i == Who[c]
      xp == skill[i].xp + HARVEST_XP
      level == LevelForXp(HARVEST_XP) IN
  /\ op[c].type = "xp"
  /\ i \in identities
  /\ skill' = [skill EXCEPT ![i] = [xp |-> xp, level |-> level]]
  /\ Goes(c, IF NewLevel(xp) # level
             THEN [type |-> "level", target |-> op[c].target, level |-> NewLevel(xp)]
             ELSE [type |-> "select", target |-> op[c].target])
  /\ unrepaired' = IF \E d \in Conn : Repairing(d, i) THEN unrepaired \cup {i}
                                                     ELSE unrepaired \ {i}
  /\ UNCHANGED <<identities, quests, wardrobe, available, paid>>

SetLevel(c) ==
  /\ op[c].type = "level"
  /\ skill' = [skill EXCEPT ![Who[c]].level = IF Who[c] \in identities THEN op[c].level ELSE @]
  /\ Goes(c, [type |-> "select", target |-> op[c].target])
  /\ UNCHANGED <<identities, quests, wardrobe, unrepaired, available, paid>>

-----------------------------------------------------------------------------
(* recordNpcInteraction and recordResourceInteraction                      *)

Concerned(i, t) == {q \in Quest : status[i][q] = "accepted" /\ t \in Needs[q]}

\* SELECT ... WHERE status = 'accepted'; the rows that need the target
SelectAccepted(c, t) ==
  LET todo == Concerned(Who[c], t) IN
  Reads(c, IF todo = {} THEN Idle
           ELSE [type |-> "record", target |-> t, todo |-> todo, seen |-> progress[Who[c]]])

NpcInteract(c, n) == op[c] = Idle /\ n \in Npc /\ SelectAccepted(c, n)
AfterHarvest(c) == op[c].type = "select" /\ SelectAccepted(c, op[c].target)

\* meetsRequirements of the whole quest
Done(i, q, met) == Needs[q] \subseteq met /\ Meets(i, q)

\* (bug: the UPDATE does not name the status)
RowExists(i, q) == status[i][q] # "none"
\* WHERE identity_id = $3 AND quest_id = $4 AND status = 'accepted'
MayRecord(i, q) == status[i][q] = "accepted"

\* one turn of the loop: progress as the SELECT saw it, with the target added
RecordRow(c, q) ==
  LET i == Who[c]
      met == op[c].seen[q] \cup {op[c].target}
      rest == op[c].todo \ {q} IN
  /\ op[c].type = "record" /\ q \in op[c].todo
  /\ IF MayRecord(i, q)
     THEN /\ progress' = [progress EXCEPT ![i][q] = met]
          /\ status' = [status EXCEPT ![i][q] = IF Done(i, q, met) THEN "completed" ELSE "accepted"]
     ELSE UNCHANGED quests
  /\ Goes(c, IF rest = {} THEN Idle ELSE [op[c] EXCEPT !.todo = rest])
  /\ UNCHANGED <<identities, wardrobe, skills, available, paid>>

\* DELETE FROM identities: every table cascades, and waits for the rows of a
\* transaction that has written
DeleteIdentity(i) ==
  /\ i \in identities
  /\ \A d \in Conn, q \in Quest : ~Holding(d, i, q)
  /\ identities' = identities \ {i}
  /\ status' = [status EXCEPT ![i] = [q \in Quest |-> "none"]]
  /\ progress' = [progress EXCEPT ![i] = [q \in Quest |-> {}]]
  /\ titles' = [titles EXCEPT ![i] = {}]
  /\ equipped' = [equipped EXCEPT ![i] = {}]
  /\ skill' = [skill EXCEPT ![i] = NoSkill]
  /\ UNCHANGED <<unrepaired, available, op, paid>>

Next ==
  \/ \E c \in Conn :
       \/ \E q \in Quest : AcceptQuest(c, q) \/ ClaimReward(c, q) \/ RecordRow(c, q)
       \/ AcceptCheck(c) \/ AcceptInsert(c) \/ ClaimCheck(c)
       \/ MarkClaimed(c) \/ UnlockTitle(c) \/ ClaimCommit(c)
       \/ \E q \in Quest : EquipTitle(c, Title[q])
       \/ \E n \in Node : FindNode(c, n)
       \/ HarvestNode(c) \/ AddXp(c) \/ SetLevel(c) \/ AfterHarvest(c)
       \/ \E n \in Npc : NpcInteract(c, n)
       \/ Throws(c)
  \/ \E n \in Node : Respawn(n)
  \/ \E i \in Identity : DeleteIdentity(i)

Spec == Init /\ [][Next]_vars

-----------------------------------------------------------------------------
(* Properties                                                              *)

\* The reward of a quest is paid once, however many claims and accepts of it
\* overlap.
RewardOnce == \A i \in Identity, q \in Quest : paid[i][q] <= 1

\* A trainer owns the titles of the quests it claimed and no other, and wears
\* one it owns, though a claim may fail, or its trainer be deleted, after the
\* quest is marked or the title unlocked.
TitlesAreEarned ==
  \A i \in Identity :
    /\ titles[i] = {Title[q] : q \in {r \in Quest : status[i][r] = "claimed"}}
    /\ equipped[i] \subseteq titles[i]

\* A finished quest has every interaction it requires in its progress, though
\* handlers write back progress they read earlier and overwrite each other's.
CompletedMeansDone ==
  \A i \in Identity, q \in Quest : status[i][q] \in Finished => Needs[q] \subseteq progress[i][q]

\* A quest is under way only if the quests it requires are finished.
PrerequisiteHeld ==
  \A i \in Identity, q \in Quest : status[i][q] # "none" => Meets(i, q)

\* A skill level is never above what its xp pays for, whichever of two
\* overlapping gains writes its level last.
LevelIsBacked == \A i \in Identity : skill[i].level <= LevelForXp(skill[i].xp)

\* A gain that no other gain of its trainer overtakes leaves the level its xp
\* pays for, also after earlier repairs came in the wrong order or failed;
\* whatever the order, the level is never above it.
LevelMatchesXp ==
  /\ LevelIsBacked
  /\ \A i \in identities \ unrepaired :
       (\A d \in Conn : ~Repairing(d, i)) => skill[i].level = LevelForXp(skill[i].xp)

Rank == [none |-> 0, accepted |-> 1, completed |-> 2, claimed |-> 3]

\* A quest never goes back, short of the deletion of its trainer: a handler
\* that read it as accepted cannot undo its completion or its claim.
QuestsOnlyAdvance ==
  [][\A i \in identities', q \in Quest : Rank[status[i][q]] <= Rank[status'[i][q]]]_vars
=============================================================================
