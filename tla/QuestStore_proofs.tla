------------------------- MODULE QuestStore_proofs --------------------------
(***************************************************************************)
(* Proofs about QuestStore for any set of quests, connections and trainers *)
(* and any requirements.  The statements that write name the status they   *)
(* expect, so what matters is what a handler still knows between two       *)
(* statements: the quests it found finished stay finished (AcceptInv), the *)
(* row it marked is still its own (ClaimInv), the level it computed is     *)
(* still paid for (LevelInv) and, if no other gain came between, is the    *)
(* right one (RepairInv).                                                  *)
(***************************************************************************)
EXTENDS QuestStore, WellFoundedInduction, TLAPS

\* An identity that is gone has no quest.
GoneHaveNothing == \A i \in Identity \ identities : \A q \in Quest : status[i][q] = "none"

\* A quest that was paid is claimed, or its trainer is gone.
PaidInv ==
  \A i \in Identity, q \in Quest :
    paid[i][q] = 0 \/ (paid[i][q] = 1 /\ (status[i][q] = "claimed" \/ i \notin identities))

\* The prerequisites an accept found are still finished at its INSERT.
AcceptInv ==
  \A c \in Conn : op[c].type = "accept_insert" /\ Who[c] \in identities => Meets(Who[c], op[c].quest)

\* The level a gain computed is still paid for when it is written.
LevelInv ==
  \A c \in Conn : op[c].type = "level" /\ Who[c] \in identities =>
    op[c].level <= LevelForXp(skill[Who[c]].xp)

\* A claim that has marked its quest is alone with the row until it commits.
ClaimInv ==
  \A c \in Conn : op[c].type \in {"unlock", "equip"} =>
    /\ status[Who[c]][op[c].quest] = "completed"
    /\ \A d \in Conn \ {c} : ~Holding(d, Who[c], op[c].quest)

\* Unless gains raced or a repair failed, every level about to be written is
\* what the xp pays for, and the row is right when none is.
RepairInv ==
  \A i \in identities \ unrepaired :
    /\ \A c \in Conn : Repairing(c, i) => op[c].level = LevelForXp(skill[i].xp)
    /\ (\A c \in Conn : ~Repairing(c, i)) => skill[i].level = LevelForXp(skill[i].xp)

Rows == TypeOK /\ GoneHaveNothing
QuestInv ==
  /\ Rows /\ PaidInv /\ TitlesAreEarned /\ CompletedMeansDone
  /\ AcceptInv /\ PrerequisiteHeld /\ LevelInv /\ LevelIsBacked
  /\ ClaimInv /\ RepairInv

-----------------------------------------------------------------------------
(* Levels                                                                  *)

\* A nonempty set of natural numbers has a least element.
LEMMA Smallest ==
  ASSUME NEW T, T \subseteq Nat, T # {}
  PROVE  \E x \in T : \A y \in T : x <= y
  <1> DEFINE R == {ss \in Nat \X Nat : ss[1] < ss[2]}
  <1>1. IsWellFoundedOn(R, Nat)
    BY NatLessThanWellFounded DEF OpToRel
  <1>2. \E x \in T : \A y \in T : ~(<<y, x>> \in R)
    <2> HIDE DEF R
    <2> QED BY <1>1, WFMin
  <1>3. PICK x \in T : \A y \in T : ~(<<y, x>> \in R)
    BY <1>2
  <1>4. \A y \in T : ~(y < x)
    BY <1>3
  <1> QED BY <1>4

\* What levelForXp returns: the level whose threshold is reached and whose
\* successor's is not.
LEMMA LevelForXpIs ==
  ASSUME NEW xp \in Nat
  PROVE  /\ LevelForXp(xp) \in Level
         /\ LevelForXp(xp) = 1 \/ xp >= XpForLevel(LevelForXp(xp))
         /\ LevelForXp(xp) = 99 \/ xp < XpForLevel(LevelForXp(xp) + 1)
  <1> DEFINE T == {level \in 1..99 : level = 99 \/ xp < XpForLevel(level + 1)}
  <1>1. T \subseteq Nat /\ 99 \in T
    OBVIOUS
  <1>2. PICK l \in T : \A y \in T : l <= y
    <2> HIDE DEF T
    <2>1. T \subseteq Nat /\ T # {}
      BY <1>1
    <2> QED BY <2>1, Smallest
  <1>3. l = 1 \/ xp >= XpForLevel(l)
    <2> SUFFICES ASSUME l # 1 PROVE xp >= XpForLevel(l)
      OBVIOUS
    <2>1. l - 1 \in 1..99 /\ l - 1 \notin T /\ (l - 1) + 1 = l
      BY <1>2
    <2> QED BY <2>1 DEF XpForLevel
  <1>4. \E level \in 1..99 :
          /\ level = 1 \/ xp >= XpForLevel(level)
          /\ level = 99 \/ xp < XpForLevel(level + 1)
    BY <1>2, <1>3
  <1> QED BY <1>4 DEF LevelForXp, Level

\* xpForLevel grows with the level.
LEMMA Thresholds ==
  ASSUME NEW a \in Level, NEW b \in Level, a <= b
  PROVE  XpForLevel(a) <= XpForLevel(b)
  <1> DEFINE d == b - a
  <1>1. d \in Nat /\ b = a + d /\ a >= 1
    BY DEF Level
  <1>2. 25 * b * b - 25 * b = 25 * a * a - 25 * a + 25 * (d * (2 * a + d - 1))
    BY <1>1 DEF Level
  <1>3. d * (2 * a + d - 1) >= 0
    <2>1. 2 * a + d - 1 \in Nat
      BY <1>1 DEF Level
    <2> QED BY <1>1, <2>1
  <1>4. 25 * a * a - 25 * a = 25 * (a * (a - 1)) /\ a * (a - 1) >= 0
    <2>1. a \in Nat /\ a - 1 \in Nat
      BY DEF Level
    <2> QED BY <2>1
  <1> QED BY <1>1, <1>2, <1>3, <1>4 DEF XpForLevel, Level

\* More xp is never a lower level.
LEMMA LevelsRise ==
  ASSUME NEW x \in Nat, NEW y \in Nat, x <= y
  PROVE  LevelForXp(x) <= LevelForXp(y)
  <1> DEFINE a == LevelForXp(x)  b == LevelForXp(y)
  <1> SUFFICES ASSUME b < a PROVE FALSE
    BY LevelForXpIs DEF Level
  <1>1. a \in Level /\ b \in Level /\ b + 1 \in Level
    BY LevelForXpIs DEF Level
  <1>2. x >= XpForLevel(a)
    BY <1>1, LevelForXpIs DEF Level
  <1>3. y < XpForLevel(b + 1)
    BY <1>1, LevelForXpIs DEF Level
  <1>4. XpForLevel(b + 1) <= XpForLevel(a)
    BY <1>1, Thresholds DEF Level
  <1>5. XpForLevel(a) \in Int /\ XpForLevel(b + 1) \in Int
    BY <1>1 DEF XpForLevel, Level
  <1> HIDE DEF a, b
  <1> QED BY <1>2, <1>3, <1>4, <1>5

-----------------------------------------------------------------------------
(* The handlers                                                            *)

\* What a handler keeps, by the statement it waits for.
LEMMA HandlerShape ==
  ASSUME TypeOK, NEW c \in Conn
  PROVE  /\ op[c].type \in {"accept_check", "accept_insert", "claim_check", "claim", "unlock", "equip"} =>
              op[c] \in [type : {"accept_check", "accept_insert", "claim_check", "claim", "unlock", "equip"},
                         quest : Quest]
         /\ op[c].type \in {"harvest", "xp", "select"} =>
              op[c] \in [type : {"harvest", "xp", "select"}, target : Target]
         /\ op[c].type = "level" => op[c] \in [type : {"level"}, target : Target, level : Level]
         /\ op[c].type = "record" =>
              op[c] \in [type : {"record"}, target : Target, todo : SUBSET Quest, seen : [Quest -> SUBSET Target]]
  BY DEF TypeOK, Handler, Idle

\* A handler that moves on to a statement of its own leaves the others alone.
LEMMA MovesOn ==
  ASSUME TypeOK, NEW c \in Conn, NEW next, next \in Handler, Goes(c, next)
  PROVE  /\ op' \in [Conn -> Handler]
         /\ op'[c] = next
         /\ \A d \in Conn : d # c => op'[d] = op[d]
  BY DEF TypeOK, Goes

\* A step of c that keeps the rows other claims have marked, and takes a row
\* only as its single holder, keeps ClaimInv.
LEMMA ClaimsStay ==
  ASSUME TypeOK, ClaimInv, NEW c \in Conn, NEW next, next \in Handler, Goes(c, next),
         next.type \in {"unlock", "equip"} =>
           /\ status'[Who[c]][next.quest] = "completed"
           /\ \A d \in Conn \ {c} : ~Holding(d, Who[c], next.quest),
         \A d \in Conn \ {c} : op[d].type \in {"unlock", "equip"} =>
           status'[Who[d]][op[d].quest] = "completed"
  PROVE  ClaimInv'
  <1> USE DEF Holding
  <1> SUFFICES ASSUME NEW d \in Conn, op'[d].type \in {"unlock", "equip"}
               PROVE  /\ status'[Who[d]][op'[d].quest] = "completed"
                      /\ \A e \in Conn \ {d} : ~Holding(e, Who[d], op[d].quest)'
    BY DEF ClaimInv
  <1>1. op'[c] = next /\ \A e \in Conn \ {c} : op'[e] = op[e]
    BY MovesOn
  <1>2. CASE d = c
    BY <1>1, <1>2
  <1>3. CASE d # c
    <2>1. op'[d] = op[d] /\ status'[Who[d]][op'[d].quest] = "completed"
      BY <1>1, <1>3
    <2>2. ASSUME NEW e \in Conn \ {d} PROVE ~Holding(e, Who[d], op[d].quest)'
      <3>1. CASE e = c
        BY <1>1, <1>3, <2>1, <3>1
      <3>2. CASE e # c
        BY <1>1, <1>3, <2>1, <3>2 DEF ClaimInv
      <3> QED BY <3>1, <3>2
    <2> QED BY <2>1, <2>2
  <1> QED BY <1>2, <1>3

\* A step of c that computes no level, and gives none up unnoticed, keeps
\* RepairInv.
LEMMA RepairsStay ==
  ASSUME TypeOK, RepairInv, NEW c \in Conn, NEW next, next \in Handler, Goes(c, next),
         next.type # "level",
         op[c].type = "level" => Who[c] \in unrepaired',
         unrepaired \subseteq unrepaired',
         UNCHANGED <<identities, skill>>
  PROVE  RepairInv'
  <1> SUFFICES ASSUME NEW i \in identities \ unrepaired'
               PROVE  /\ \A d \in Conn : Repairing(d, i)' => op'[d].level = LevelForXp(skill[i].xp)
                      /\ (\A d \in Conn : ~Repairing(d, i)') => skill[i].level = LevelForXp(skill[i].xp)
    BY DEF RepairInv
  <1>1. op'[c] = next /\ \A d \in Conn \ {c} : op'[d] = op[d]
    BY MovesOn
  <1>2. \A d \in Conn : Repairing(d, i)' <=> Repairing(d, i)
    BY <1>1 DEF Repairing
  <1>3. \A d \in Conn : Repairing(d, i) => op'[d].level = op[d].level
    BY <1>1, <1>2 DEF Repairing
  <1> QED BY <1>2, <1>3 DEF RepairInv

\* A database without progress, titles or skills.
LEMMA QuestInit == Init => QuestInv
  <1> SUFFICES ASSUME Init PROVE QuestInv
    OBVIOUS
  <1>1. 1 \in Level /\ LevelForXp(0) \in Level
    BY LevelForXpIs DEF Level
  <1>2. TypeOK
    BY <1>1 DEF Init, TypeOK, Handler, NoSkill
  <1>3. GoneHaveNothing /\ PaidInv /\ CompletedMeansDone /\ PrerequisiteHeld
    BY DEF Init, GoneHaveNothing, PaidInv, CompletedMeansDone, PrerequisiteHeld, Finished
  <1>4. TitlesAreEarned
    BY DEF Init, TitlesAreEarned
  <1>5. AcceptInv /\ LevelInv
    BY DEF Init, AcceptInv, LevelInv, Idle
  <1>6. LevelIsBacked
    BY <1>1 DEF Init, LevelIsBacked, NoSkill, Level
  <1>7. LevelForXp(0) = 1
    <2>1. \A level \in Level : level # 1 => 0 < XpForLevel(level)
      <3> SUFFICES ASSUME NEW level \in Level, level # 1 PROVE 0 < XpForLevel(level)
        OBVIOUS
      <3>1. 2 \in Level /\ 2 <= level /\ XpForLevel(2) = 50
        BY DEF Level, XpForLevel
      <3>2. XpForLevel(2) <= XpForLevel(level)
        BY <3>1, Thresholds
      <3>3. XpForLevel(level) \in Int
        BY DEF XpForLevel, Level
      <3> QED BY <3>1, <3>2, <3>3
    <2>2. LevelForXp(0) \in Level /\ (LevelForXp(0) = 1 \/ 0 >= XpForLevel(LevelForXp(0)))
      BY LevelForXpIs
    <2>3. XpForLevel(LevelForXp(0)) \in Int
      BY <2>2 DEF XpForLevel, Level
    <2> QED BY <2>1, <2>2, <2>3
  <1>8. ClaimInv /\ RepairInv
    BY <1>7 DEF Init, ClaimInv, RepairInv, Repairing, Idle, NoSkill
  <1> QED BY <1>2, <1>3, <1>4, <1>5, <1>6, <1>8 DEF QuestInv, Rows

\* A statement that changes no row of quests, titles, skills or trainers keeps
\* the invariant if what the handler takes from it is right.
LEMMA NothingWritten ==
  ASSUME QuestInv, NEW c \in Conn, NEW next, next \in Handler, Goes(c, next),
         next.type = "accept_insert" => Meets(Who[c], next.quest),
         next.type # "level",
         next.type \in {"unlock", "equip"} =>
           /\ status[Who[c]][next.quest] = "completed"
           /\ \A d \in Conn \ {c} : ~Holding(d, Who[c], next.quest),
         op[c].type = "level" => Who[c] \in unrepaired',
         unrepaired \subseteq unrepaired', unrepaired' \in SUBSET Identity,
         available' \in SUBSET Node,
         UNCHANGED <<identities, quests, wardrobe, skill, paid>>
  PROVE  QuestInv'
  <1> USE DEF QuestInv, Rows, quests, wardrobe
  <1>1. TypeOK'
    BY MovesOn DEF TypeOK
  <1>2. GoneHaveNothing' /\ PaidInv' /\ CompletedMeansDone'
    BY DEF GoneHaveNothing, PaidInv, CompletedMeansDone
  <1>3. TitlesAreEarned'
    BY DEF TitlesAreEarned
  <1>4. \A i, q : Meets(i, q)' <=> Meets(i, q)
    BY DEF Meets
  <1>5. PrerequisiteHeld'
    BY <1>4 DEF PrerequisiteHeld
  <1>6. LevelIsBacked'
    BY DEF LevelIsBacked
  <1>7. AcceptInv'
    BY <1>4, MovesOn DEF AcceptInv
  <1>8. LevelInv'
    BY MovesOn DEF LevelInv
  <1>9. ClaimInv'
    <2>1. \A d \in Conn : op[d].type \in {"unlock", "equip"} => status[Who[d]][op[d].quest] = "completed"
      BY DEF ClaimInv
    <2> QED BY <2>1, ClaimsStay
  <1>10. RepairInv'
    BY RepairsStay
  <1> QED BY <1>1, <1>2, <1>3, <1>5, <1>6, <1>7, <1>8, <1>9, <1>10

\* A connection without a handler.
LEMMA IdleIsQuiet == Idle \in Handler /\ Idle.type = "idle"
  BY DEF Idle, Handler

\* The SELECTs of acceptQuest and claimReward.
LEMMA KeepsRead ==
  ASSUME QuestInv, NEW c \in Conn, NEW q \in Quest,
         AcceptQuest(c, q) \/ ClaimReward(c, q) \/ AcceptCheck(c) \/ ClaimCheck(c)
  PROVE  QuestInv'
  <1> USE IdleIsQuiet DEF QuestInv, Rows, Reads, skills
  <1>0. available \in SUBSET Node /\ unrepaired \in SUBSET Identity
    BY DEF TypeOK
  <1>1. CASE AcceptQuest(c, q)
    <2> DEFINE next == [type |-> "accept_check", quest |-> q]
    <2>1. next \in Handler
      BY DEF Handler
    <2> QED BY <1>0, <1>1, <2>1, NothingWritten DEF AcceptQuest
  <1>2. CASE ClaimReward(c, q)
    <2> DEFINE next == [type |-> "claim_check", quest |-> q]
    <2>1. next \in Handler
      BY DEF Handler
    <2> QED BY <1>0, <1>2, <2>1, NothingWritten DEF ClaimReward
  <1>3. CASE AcceptCheck(c)
    <2> DEFINE next == [type |-> "accept_insert", quest |-> op[c].quest]
    <2>1. next \in Handler
      BY <1>3, HandlerShape DEF Handler, AcceptCheck
    <2>2. CASE MayAccept(Who[c], op[c].quest)
      BY <1>0, <1>3, <2>1, <2>2, NothingWritten DEF AcceptCheck, MayAccept
    <2>3. CASE ~MayAccept(Who[c], op[c].quest)
      BY <1>0, <1>3, <2>3, IdleIsQuiet, NothingWritten DEF AcceptCheck
    <2> QED BY <2>2, <2>3
  <1>4. CASE ClaimCheck(c)
    <2> DEFINE next == [type |-> "claim", quest |-> op[c].quest]
    <2>1. next \in Handler
      BY <1>4, HandlerShape DEF Handler, ClaimCheck
    <2>2. CASE status[Who[c]][op[c].quest] = "completed"
      BY <1>0, <1>4, <2>1, <2>2, NothingWritten DEF ClaimCheck
    <2>3. CASE status[Who[c]][op[c].quest] # "completed"
      BY <1>0, <1>4, <2>3, IdleIsQuiet, NothingWritten DEF ClaimCheck
    <2> QED BY <2>2, <2>3
  <1> QED BY <1>1, <1>2, <1>3, <1>4

\* A statement that fails, and what it rolls back; a level that is not
\* repaired is remembered.
LEMMA KeepsThrow == ASSUME QuestInv, NEW c \in Conn, Throws(c) PROVE QuestInv'
  <1> USE QuestAssumption DEF QuestInv, Rows
  <1>1. /\ Goes(c, Idle) /\ unrepaired' \in SUBSET Identity /\ unrepaired \subseteq unrepaired'
        /\ op[c].type = "level" => Who[c] \in unrepaired'
        /\ available' \in SUBSET Node
        /\ UNCHANGED <<identities, quests, wardrobe, skill, paid>>
    BY DEF Throws, TypeOK
  <1> HIDE DEF QuestInv
  <1> QED BY <1>1, IdleIsQuiet, NothingWritten

\* The UPDATE and the first INSERT of claimReward: others see nothing of them.
LEMMA KeepsUncommitted == ASSUME QuestInv, NEW c \in Conn, MarkClaimed(c) \/ UnlockTitle(c) PROVE QuestInv'
  <1> USE QuestAssumption DEF QuestInv, Rows
  <1> DEFINE next(t) == [type |-> t, quest |-> op[c].quest]
  <1>1. op[c].type \in {"claim", "unlock"} /\ op[c].quest \in Quest /\ Who[c] \in Identity
    BY HandlerShape DEF MarkClaimed, UnlockTitle
  <1>2. \A t \in {"unlock", "equip"} : next(t) \in Handler
    BY <1>1 DEF Handler
  <1>3. available \in SUBSET Node /\ unrepaired \in SUBSET Identity
    BY DEF TypeOK
  <1>4. CASE MarkClaimed(c)
    <2>1. /\ Goes(c, next("unlock"))
          /\ status[Who[c]][op[c].quest] = "completed"
          /\ \A d \in Conn : ~Holding(d, Who[c], op[c].quest)
          /\ UNCHANGED <<identities, quests, wardrobe, skill, unrepaired, available, paid>>
      BY <1>4 DEF MarkClaimed, MayClaim, Reads, skills
    <2> QED BY <1>1, <1>2, <1>3, <2>1, NothingWritten
  <1>5. CASE UnlockTitle(c)
    <2>1. titles' = titles
      BY <1>1, <1>5 DEF UnlockTitle, SeenByOthers, TypeOK
    <2>2. /\ Goes(c, next("equip")) /\ op[c].type = "unlock"
          /\ UNCHANGED <<identities, quests, wardrobe, skill, unrepaired, available, paid>>
      BY <1>5, <2>1 DEF UnlockTitle, skills, wardrobe
    <2>3. /\ status[Who[c]][op[c].quest] = "completed"
          /\ \A d \in Conn \ {c} : ~Holding(d, Who[c], op[c].quest)
      BY <2>2 DEF ClaimInv
    <2> QED BY <1>1, <1>2, <1>3, <2>2, <2>3, NothingWritten
  <1> QED BY <1>4, <1>5

\* The SELECT of recordNpcInteraction and recordResourceInteraction.
LEMMA KeepsSelect ==
  ASSUME QuestInv, NEW c \in Conn, NEW t \in Target, SelectAccepted(c, t),
         op[c].type # "level"
  PROVE  QuestInv'
  <1> USE IdleIsQuiet DEF QuestInv, Rows, Reads, skills
  <1>0. available \in SUBSET Node /\ unrepaired \in SUBSET Identity
    BY DEF TypeOK
  <1> DEFINE todo == Concerned(Who[c], t)
             next == [type |-> "record", target |-> t, todo |-> todo, seen |-> progress[Who[c]]]
  <1>1. next \in Handler /\ next.type = "record"
    <2>1. todo \subseteq Quest /\ progress[Who[c]] \in [Quest -> SUBSET Target]
      BY QuestAssumption DEF TypeOK, Concerned
    <2> HIDE DEF todo
    <2> QED BY <2>1 DEF Handler
  <1> HIDE DEF next
  <1>2. CASE todo = {}
    BY <1>0, <1>2, IdleIsQuiet, NothingWritten DEF SelectAccepted
  <1>3. CASE todo # {}
    <2>1. Goes(c, next) /\ UNCHANGED <<identities, quests, wardrobe, skills, available, paid>>
      BY <1>3 DEF SelectAccepted, next
    <2> QED BY <1>0, <1>1, <2>1, NothingWritten
  <1> QED BY <1>2, <1>3

\* findNodeBySlug.
LEMMA KeepsFind == ASSUME QuestInv, NEW c \in Conn, NEW n \in Node, FindNode(c, n) PROVE QuestInv'
  <1> USE IdleIsQuiet DEF QuestInv, Rows, Reads, skills
  <1> DEFINE next == [type |-> "harvest", target |-> n]
  <1>1. next \in Handler /\ available \in SUBSET Node /\ unrepaired \in SUBSET Identity
    BY DEF Handler, Target, TypeOK
  <1> QED BY <1>1, NothingWritten DEF FindNode

\* harvestNode.
LEMMA KeepsHarvest == ASSUME QuestInv, NEW c \in Conn, HarvestNode(c) PROVE QuestInv'
  <1> USE DEF QuestInv, Rows, skills
  <1> DEFINE next == [type |-> "xp", target |-> op[c].target]
  <1>1. next \in Handler
    BY HandlerShape DEF Handler, HarvestNode
  <1>2. available' \in SUBSET Node /\ unrepaired \in SUBSET Identity
    BY DEF HarvestNode, TypeOK
  <1> QED BY <1>1, <1>2, NothingWritten DEF HarvestNode

-----------------------------------------------------------------------------
(* Skills                                                                  *)

\* A step that writes skills alone keeps what is said of quests and titles.
LEMMA QuestsUntouched ==
  ASSUME QuestInv, UNCHANGED <<identities, quests, wardrobe, paid>>
  PROVE  /\ GoneHaveNothing' /\ PaidInv' /\ CompletedMeansDone' /\ TitlesAreEarned' /\ PrerequisiteHeld'
         /\ \A i, q : Meets(i, q)' <=> Meets(i, q)
  <1> USE DEF QuestInv, Rows, quests, wardrobe
  <1>1. GoneHaveNothing' /\ PaidInv' /\ CompletedMeansDone'
    BY DEF GoneHaveNothing, PaidInv, CompletedMeansDone
  <1>2. TitlesAreEarned'
    BY DEF TitlesAreEarned
  <1>3. \A i, q : Meets(i, q)' <=> Meets(i, q)
    BY DEF Meets
  <1>4. PrerequisiteHeld'
    BY <1>3 DEF PrerequisiteHeld
  <1> QED BY <1>1, <1>2, <1>3, <1>4

\* addXp: the level of the gain alone is below the level of the sum.
LEMMA KeepsAddXp == ASSUME QuestInv, NEW c \in Conn, AddXp(c) PROVE QuestInv'
  <1> USE QuestAssumption DEF QuestInv, Rows
  <1> DEFINE i == Who[c]
             x == skill[i].xp
             xp == x + HARVEST_XP
             level == LevelForXp(HARVEST_XP)
             new == LevelForXp(xp)
             t == op[c].target
  <1>0. op[c].type = "xp" /\ i \in identities /\ i \in Identity /\ t \in Target
    BY HandlerShape DEF AddXp
  <1>1. skill \in [Identity -> [xp : Nat, level : Level]] /\ x \in Nat
    BY <1>0 DEF TypeOK
  <1>2. xp \in Nat /\ level \in Level /\ new \in Level /\ level <= new /\ x <= xp /\ HARVEST_XP <= xp
    <2>1. xp \in Nat /\ HARVEST_XP \in Nat /\ HARVEST_XP <= xp /\ x <= xp
      BY <1>1
    <2> QED BY <2>1, LevelForXpIs, LevelsRise
  <1>3. LevelForXp(x) <= new
    BY <1>1, <1>2, LevelsRise
  <1>4. skill' = [skill EXCEPT ![i] = [xp |-> xp, level |-> level]]
    BY DEF AddXp
  <1>5. UNCHANGED <<identities, quests, wardrobe, available, paid>>
    BY DEF AddXp
  <1> DEFINE toLevel == [type |-> "level", target |-> t, level |-> new]
             toSelect == [type |-> "select", target |-> t]
             next == IF new # level THEN toLevel ELSE toSelect
  <1>6. Goes(c, next)
    BY DEF AddXp, NewLevel
  <1>6a. unrepaired' = IF \E d \in Conn : Repairing(d, i) THEN unrepaired \cup {i} ELSE unrepaired \ {i}
    BY DEF AddXp
  <1>7. toLevel \in Handler /\ toSelect \in Handler /\ next \in Handler
    BY <1>0, <1>2 DEF Handler
  <1>8. /\ next.type \notin {"accept_insert", "unlock", "equip"}
        /\ next.type = "level" => next.level = new
        /\ next.type # "level" => new = level
    OBVIOUS
  <1> HIDE DEF next, toLevel, toSelect, xp, level, new, x
  <1>9. /\ skill' \in [Identity -> [xp : Nat, level : Level]]
        /\ skill'[i].xp = xp /\ skill'[i].level = level
        /\ \A j \in Identity : j # i => skill'[j] = skill[j]
    BY <1>0, <1>1, <1>2, <1>4
  <1>10. TypeOK'
    BY <1>0, <1>5, <1>6, <1>6a, <1>7, <1>9, MovesOn DEF TypeOK, quests, wardrobe
  <1>11. GoneHaveNothing' /\ PaidInv' /\ CompletedMeansDone' /\ TitlesAreEarned' /\ PrerequisiteHeld'
    BY <1>5, QuestsUntouched
  <1>12. AcceptInv'
    BY <1>5, <1>6, <1>7, <1>8, MovesOn, QuestsUntouched DEF AcceptInv
  <1>13. LevelIsBacked'
    <2> SUFFICES ASSUME NEW j \in Identity PROVE skill'[j].level <= LevelForXp(skill'[j].xp)
      BY DEF LevelIsBacked
    <2>1. CASE j = i
      BY <2>1, <1>2, <1>9 DEF new
    <2>2. CASE j # i
      BY <2>2, <1>9 DEF LevelIsBacked
    <2> QED BY <2>1, <2>2
  <1>14. LevelInv'
    <2> SUFFICES ASSUME NEW d \in Conn, op'[d].type = "level", Who[d] \in identities
                 PROVE  op'[d].level <= LevelForXp(skill'[Who[d]].xp)
      BY <1>5 DEF LevelInv
    <2>1. CASE d = c
      <3>1. op'[d].level = new
        BY <2>1, <1>6, <1>7, <1>8, MovesOn
      <3> QED BY <3>1, <2>1, <1>2, <1>9 DEF new, Level
    <2>2. CASE d # c
      <3>1. op'[d] = op[d] /\ Who[d] \in Identity
        BY <2>2, <1>6, <1>7, MovesOn
      <3>2. op[d].level <= LevelForXp(skill[Who[d]].xp) /\ op[d].level \in Level
        BY <3>1, HandlerShape DEF LevelInv
      <3>3. CASE Who[d] = i
        <4>1. LevelForXp(x) \in Level /\ op[d].level <= LevelForXp(x)
          BY <3>2, <3>3, <1>1, LevelForXpIs DEF x
        <4>2. LevelForXp(skill'[Who[d]].xp) = new
          BY <3>3, <1>9 DEF new
        <4> HIDE DEF i
        <4> QED BY <4>1, <4>2, <3>1, <3>2, <1>2, <1>3 DEF Level
      <3>4. CASE Who[d] # i
        BY <3>1, <3>2, <3>4, <1>9
      <3> QED BY <3>3, <3>4
    <2> QED BY <2>1, <2>2
  <1>15. ClaimInv'
    <2>1. \A d \in Conn : op[d].type \in {"unlock", "equip"} => status'[Who[d]][op[d].quest] = "completed"
      BY <1>5 DEF ClaimInv, quests
    <2> QED BY <2>1, <1>6, <1>7, <1>8, ClaimsStay
  <1>16. RepairInv'
    <2> SUFFICES ASSUME NEW j \in identities \ unrepaired'
                 PROVE  /\ \A d \in Conn : Repairing(d, j)' => op'[d].level = LevelForXp(skill'[j].xp)
                        /\ (\A d \in Conn : ~Repairing(d, j)') => skill'[j].level = LevelForXp(skill'[j].xp)
      BY <1>5 DEF RepairInv
    <2>1. op'[c] = next /\ \A d \in Conn \ {c} : op'[d] = op[d]
      BY <1>6, <1>7, MovesOn
    <2>2. CASE j = i
      <3>1. \A d \in Conn : ~Repairing(d, i)
        BY <1>6a, <2>2
      <3>2. LevelForXp(skill'[j].xp) = new /\ skill'[j].level = level
        BY <1>9, <2>2 DEF new
      <3>3. \A d \in Conn : Repairing(d, j)' => d = c /\ next.type = "level"
        BY <2>1, <2>2, <3>1 DEF Repairing
      <3>4. Repairing(c, j)' <=> next.type = "level"
        BY <2>1, <2>2 DEF Repairing
      <3> QED BY <1>8, <2>1, <3>2, <3>3, <3>4
    <2>3. CASE j # i
      <3>1. j \in identities \ unrepaired /\ skill'[j] = skill[j]
        BY <1>6a, <1>9, <2>3 DEF TypeOK
      <3>2. \A d \in Conn : /\ Repairing(d, j)' <=> Repairing(d, j)
                            /\ Repairing(d, j) => op'[d] = op[d]
        BY <2>1, <2>3 DEF Repairing
      <3> QED BY <3>1, <3>2 DEF RepairInv
    <2> QED BY <2>2, <2>3
  <1> QED BY <1>10, <1>11, <1>12, <1>13, <1>14, <1>15, <1>16

\* The second UPDATE of addXp: the xp has only grown since.
LEMMA KeepsSetLevel == ASSUME QuestInv, NEW c \in Conn, SetLevel(c) PROVE QuestInv'
  <1> USE QuestAssumption DEF QuestInv, Rows
  <1> DEFINE i == Who[c]
             l == IF i \in identities THEN op[c].level ELSE skill[i].level
             next == [type |-> "select", target |-> op[c].target]
  <1>0. op[c].type = "level" /\ i \in Identity /\ op[c].target \in Target /\ op[c].level \in Level
    BY HandlerShape DEF SetLevel
  <1>1. skill \in [Identity -> [xp : Nat, level : Level]]
    BY DEF TypeOK
  <1>2. l \in Level /\ l <= LevelForXp(skill[i].xp)
    <2>1. skill[i].level \in Level /\ skill[i].level <= LevelForXp(skill[i].xp)
      BY <1>0, <1>1 DEF LevelIsBacked
    <2>2. i \in identities => op[c].level <= LevelForXp(skill[i].xp)
      BY <1>0 DEF LevelInv
    <2> QED BY <1>0, <2>1, <2>2
  <1>3. skill' = [skill EXCEPT ![i].level = l]
    BY DEF SetLevel
  <1>4. Goes(c, next) /\ UNCHANGED <<identities, quests, wardrobe, unrepaired, available, paid>>
    BY DEF SetLevel
  <1>5. next \in Handler /\ next.type \notin {"accept_insert", "level", "unlock", "equip"}
    BY <1>0 DEF Handler
  <1> HIDE DEF next, l
  <1>6. /\ skill' \in [Identity -> [xp : Nat, level : Level]]
        /\ skill'[i].xp = skill[i].xp /\ skill'[i].level = l
        /\ \A j \in Identity : j # i => skill'[j] = skill[j]
    BY <1>0, <1>1, <1>2, <1>3
  <1>7. TypeOK'
    BY <1>4, <1>5, <1>6, MovesOn DEF TypeOK, quests, wardrobe
  <1>8. GoneHaveNothing' /\ PaidInv' /\ CompletedMeansDone' /\ TitlesAreEarned' /\ PrerequisiteHeld'
    BY <1>4, QuestsUntouched
  <1>9. AcceptInv'
    BY <1>4, <1>5, MovesOn, QuestsUntouched DEF AcceptInv
  <1>10. \A j \in Identity : skill'[j].xp = skill[j].xp
    BY <1>0, <1>6
  <1>11. LevelInv'
    BY <1>4, <1>5, <1>10, MovesOn DEF LevelInv
  <1>12. LevelIsBacked'
    <2> SUFFICES ASSUME NEW j \in Identity PROVE skill'[j].level <= LevelForXp(skill'[j].xp)
      BY DEF LevelIsBacked
    <2> QED BY <1>2, <1>6 DEF LevelIsBacked
  <1>13. ClaimInv'
    <2>1. \A d \in Conn : op[d].type \in {"unlock", "equip"} => status'[Who[d]][op[d].quest] = "completed"
      BY <1>4 DEF ClaimInv, quests
    <2> QED BY <2>1, <1>4, <1>5, ClaimsStay
  <1>14. RepairInv'
    <2> SUFFICES ASSUME NEW j \in identities \ unrepaired
                 PROVE  /\ \A d \in Conn : Repairing(d, j)' => op'[d].level = LevelForXp(skill[j].xp)
                        /\ (\A d \in Conn : ~Repairing(d, j)') => skill'[j].level = LevelForXp(skill[j].xp)
      BY <1>4, <1>10 DEF RepairInv, TypeOK
    <2>1. op'[c] = next /\ \A d \in Conn \ {c} : op'[d] = op[d]
      BY <1>4, <1>5, MovesOn
    <2>2. \A d \in Conn : Repairing(d, j)' => Repairing(d, j) /\ op'[d] = op[d]
      BY <1>5, <2>1 DEF Repairing
    <2>3. CASE j = i
      <3>1. Repairing(c, j) /\ op[c].level = LevelForXp(skill[j].xp) /\ skill'[j].level = op[c].level
        BY <1>0, <1>6, <2>3 DEF RepairInv, Repairing, l
      <3> QED BY <2>2, <3>1 DEF RepairInv
    <2>4. CASE j # i
      <3>1. skill'[j] = skill[j]
        BY <1>6, <2>4 DEF TypeOK
      <3>2. \A d \in Conn : Repairing(d, j) => Repairing(d, j)'
        BY <1>0, <2>1, <2>4 DEF Repairing
      <3> QED BY <2>2, <3>1, <3>2 DEF RepairInv
    <2> QED BY <2>3, <2>4
  <1> QED BY <1>7, <1>8, <1>9, <1>11, <1>12, <1>13, <1>14

-----------------------------------------------------------------------------
(* The row of one quest                                                    *)

\* A write of one quest row that never takes a finished quest back, finishes
\* only what is done and creates only what may be accepted.
WritesRow(c, i, q, s, p, next) ==
  /\ i = Who[c] /\ i \in identities
  /\ s \in {"accepted", "completed", "claimed"} /\ p \in SUBSET Target
  /\ status' = [status EXCEPT ![i][q] = s]
  /\ progress' = [progress EXCEPT ![i][q] = p]
  /\ status[i][q] \in Finished => s \in Finished
  /\ status[i][q] = "none" => Meets(i, q)
  /\ s \in Finished => Needs[q] \subseteq p
  /\ next \in Handler /\ next.type \notin {"accept_insert", "level", "unlock", "equip"} /\ Goes(c, next)
  /\ op[c].type # "level" /\ \A d \in Conn \ {c} : ~Holding(d, i, q)
  /\ UNCHANGED <<identities, skill, unrepaired>>

\* What such a write keeps.
RowKept(i, q, s) ==
  /\ status' \in [Identity -> [Quest -> {"none", "accepted"} \cup Finished]]
  /\ progress' \in [Identity -> [Quest -> SUBSET Target]]
  /\ status'[i][q] = s
  /\ \A j \in Identity, r \in Quest : <<j, r>> # <<i, q>> => status'[j][r] = status[j][r]
  /\ GoneHaveNothing' /\ CompletedMeansDone' /\ PrerequisiteHeld' /\ AcceptInv'
  /\ LevelInv' /\ LevelIsBacked' /\ ClaimInv' /\ RepairInv'

\* Every statement that writes the row of a quest keeps the invariant's parts about rows.
LEMMA RowWritten ==
  ASSUME QuestInv, NEW c \in Conn, NEW i, NEW q \in Quest, NEW s, NEW p, NEW next,
         WritesRow(c, i, q, s, p, next)
  PROVE  RowKept(i, q, s)
  <1> SUFFICES ASSUME i = Who[c], i \in identities,
                      s \in {"accepted", "completed", "claimed"}, p \in SUBSET Target,
                      status' = [status EXCEPT ![i][q] = s],
                      progress' = [progress EXCEPT ![i][q] = p],
                      status[i][q] \in Finished => s \in Finished,
                      status[i][q] = "none" => Meets(i, q),
                      s \in Finished => Needs[q] \subseteq p,
                      next \in Handler, next.type \notin {"accept_insert", "level", "unlock", "equip"},
                      Goes(c, next),
                      op[c].type # "level", \A d \in Conn \ {c} : ~Holding(d, i, q),
                      UNCHANGED <<identities, skill, unrepaired>>
               PROVE  RowKept(i, q, s)
    BY DEF WritesRow
  <1> USE QuestAssumption DEF QuestInv, Rows
  <1>0. i \in Identity
    OBVIOUS
  <1>1. /\ status \in [Identity -> [Quest -> {"none", "accepted"} \cup Finished]]
        /\ progress \in [Identity -> [Quest -> SUBSET Target]]
    BY DEF TypeOK
  <1>2. /\ status' \in [Identity -> [Quest -> {"none", "accepted"} \cup Finished]]
        /\ status'[i][q] = s
        /\ \A j \in Identity, r \in Quest : <<j, r>> # <<i, q>> => status'[j][r] = status[j][r]
    BY <1>0, <1>1 DEF Finished
  <1>3. /\ progress' \in [Identity -> [Quest -> SUBSET Target]]
        /\ progress'[i][q] = p
        /\ \A j \in Identity, r \in Quest : <<j, r>> # <<i, q>> => progress'[j][r] = progress[j][r]
    BY <1>0, <1>1
  <1>4. \A j \in Identity, r \in Quest : status[j][r] \in Finished => status'[j][r] \in Finished
    BY <1>2
  <1>5. \A j \in Identity, r \in Quest : Meets(j, r) => Meets(j, r)'
    BY <1>4 DEF Meets
  <1>6. GoneHaveNothing'
    BY <1>2 DEF GoneHaveNothing
  <1>7. CompletedMeansDone'
    <2> SUFFICES ASSUME NEW j \in Identity, NEW r \in Quest, status'[j][r] \in Finished
                 PROVE  Needs[r] \subseteq progress'[j][r]
      BY DEF CompletedMeansDone
    <2>1. CASE <<j, r>> = <<i, q>>
      BY <2>1, <1>2, <1>3
    <2>2. CASE <<j, r>> # <<i, q>>
      BY <2>2, <1>2, <1>3 DEF CompletedMeansDone
    <2> QED BY <2>1, <2>2
  <1>8. PrerequisiteHeld'
    <2> SUFFICES ASSUME NEW j \in Identity, NEW r \in Quest, status'[j][r] # "none"
                 PROVE  Meets(j, r)'
      BY DEF PrerequisiteHeld
    <2>1. CASE <<j, r>> = <<i, q>>
      <3>1. Meets(i, q)
        BY <1>0 DEF PrerequisiteHeld
      <3> QED BY <2>1, <3>1, <1>5
    <2>2. CASE <<j, r>> # <<i, q>>
      BY <2>2, <1>2, <1>5 DEF PrerequisiteHeld
    <2> QED BY <2>1, <2>2
  <1>9. AcceptInv'
    <2> SUFFICES ASSUME NEW d \in Conn, op'[d].type = "accept_insert", Who[d] \in identities
                 PROVE  Meets(Who[d], op[d].quest)'
      BY DEF AcceptInv
    <2>1. d # c /\ op'[d] = op[d]
      BY MovesOn
    <2>2. op[d].quest \in Quest /\ Who[d] \in Identity
      BY <2>1, HandlerShape
    <2> QED BY <2>1, <2>2, <1>5 DEF AcceptInv
  <1>10. LevelInv'
    BY MovesOn DEF LevelInv
  <1>11. LevelIsBacked'
    BY DEF LevelIsBacked
  <1>12. ClaimInv'
    <2>1. ASSUME NEW d \in Conn \ {c}, op[d].type \in {"unlock", "equip"}
          PROVE  status'[Who[d]][op[d].quest] = "completed"
      <3>1. op[d].quest \in Quest /\ Who[d] \in Identity
        BY <2>1, HandlerShape
      <3>2. <<Who[d], op[d].quest>> # <<i, q>>
        BY <2>1 DEF Holding
      <3> QED BY <1>2, <2>1, <3>1, <3>2 DEF ClaimInv
    <2> QED BY <2>1, ClaimsStay
  <1>13. RepairInv'
    BY RepairsStay
  <1> QED BY <1>2, <1>3, <1>6, <1>7, <1>8, <1>9, <1>10, <1>11, <1>12, <1>13 DEF RowKept

\* The INSERT of acceptQuest.
LEMMA KeepsAcceptInsert == ASSUME QuestInv, NEW c \in Conn, AcceptInsert(c) PROVE QuestInv'
  <1> USE QuestAssumption DEF QuestInv, Rows
  <1> DEFINE i == Who[c]
             q == op[c].quest
             autoComplete == Needs[q] = {} /\ Prerequisite[q] = {}
             s == IF autoComplete THEN "completed" ELSE "accepted"
             next == IF autoComplete THEN [type |-> "claim_check", quest |-> q] ELSE Idle
  <1>1. /\ op[c].type = "accept_insert" /\ q \in Quest /\ i \in identities /\ i \in Identity
        /\ status[i][q] = "none" /\ Meets(i, q)
    BY HandlerShape DEF AcceptInsert, AcceptInv
  <1>1a. \A d \in Conn \ {c} : ~Holding(d, i, q)
    BY <1>1 DEF Holding, ClaimInv
  <1>2. /\ status' = [status EXCEPT ![i][q] = s]
        /\ progress' = [progress EXCEPT ![i][q] = {}]
        /\ Goes(c, next)
        /\ UNCHANGED <<identities, wardrobe, skills, available, paid>>
    BY DEF AcceptInsert
  <1>3. next \in Handler /\ next.type \notin {"accept_insert", "level", "unlock", "equip"}
    BY <1>1, IdleIsQuiet DEF Handler
  <1>4. s \in {"accepted", "completed", "claimed"} /\ (s \in Finished => Needs[q] \subseteq {})
    BY DEF Finished
  <1>4a. s # "claimed" /\ status[i][q] \notin Finished
    BY <1>1 DEF Finished
  <1> HIDE DEF s, next, i, q
  <1>5. RowKept(i, q, s)
    <2>1. WritesRow(c, i, q, s, {}, next)
      <3>1. {} \in SUBSET Target /\ UNCHANGED <<identities, skill, unrepaired>> /\ i = Who[c]
        BY <1>2 DEF i, skills
      <3> HIDE DEF QuestInv
      <3> QED BY <1>1, <1>1a, <1>2, <1>3, <1>4, <1>4a, <3>1 DEF WritesRow
    <2> HIDE DEF QuestInv
    <2> QED BY <1>1, <2>1, RowWritten
  <1>6. TypeOK'
    BY <1>2, <1>3, <1>5, MovesOn DEF TypeOK, wardrobe, skills, RowKept
  <1>7. PaidInv'
    BY <1>1, <1>2, <1>5 DEF PaidInv, RowKept
  <1>8. \A j \in Identity, r \in Quest : status'[j][r] = "claimed" <=> status[j][r] = "claimed"
    BY <1>1, <1>4a, <1>5 DEF RowKept
  <1>9. TitlesAreEarned'
    BY <1>2, <1>8 DEF TitlesAreEarned, wardrobe
  <1> QED BY <1>5, <1>6, <1>7, <1>9 DEF RowKept

\* One UPDATE of the loop of recordNpcInteraction.
LEMMA KeepsRecord == ASSUME QuestInv, NEW c \in Conn, NEW q \in Quest, RecordRow(c, q) PROVE QuestInv'
  <1> USE QuestAssumption DEF QuestInv, Rows
  <1> DEFINE i == Who[c]
             met == op[c].seen[q] \cup {op[c].target}
             rest == op[c].todo \ {q}
             s == IF Done(i, q, met) THEN "completed" ELSE "accepted"
             next == IF rest = {} THEN Idle ELSE [op[c] EXCEPT !.todo = rest]
  <1>0. /\ op[c].type = "record" /\ i \in Identity
        /\ op[c] \in [type : {"record"}, target : Target, todo : SUBSET Quest, seen : [Quest -> SUBSET Target]]
    BY HandlerShape DEF RecordRow
  <1>1. met \in SUBSET Target /\ rest \in SUBSET Quest
    BY <1>0
  <1>2. Goes(c, next) /\ UNCHANGED <<identities, wardrobe, skills, available, paid>>
    BY DEF RecordRow
  <1>3. next \in Handler /\ next.type \notin {"accept_insert", "level", "unlock", "equip"}
    <2>1. CASE rest = {}
      BY <2>1, IdleIsQuiet
    <2>2. CASE rest # {}
      <3>1. next \in [type : {"record"}, target : Target, todo : SUBSET Quest, seen : [Quest -> SUBSET Target]]
        BY <1>0, <1>1, <2>2
      <3> HIDE DEF next
      <3> QED BY <3>1 DEF Handler
    <2> QED BY <2>1, <2>2
  <1>4. CASE MayRecord(i, q)
    <2>1. /\ status' = [status EXCEPT ![i][q] = s]
          /\ progress' = [progress EXCEPT ![i][q] = met]
          /\ status[i][q] = "accepted"
      BY <1>4 DEF RecordRow, MayRecord
    <2>2. i \in identities
      BY <1>0, <2>1 DEF GoneHaveNothing
    <2>3. s \in {"accepted", "completed", "claimed"} /\ (s \in Finished => Needs[q] \subseteq met)
      BY DEF Finished, Done
    <2>4. s # "claimed" /\ status[i][q] \notin Finished /\ status[i][q] # "none"
      BY <2>1 DEF Finished
    <2> HIDE DEF s, next, i, met, rest
    <2>5. RowKept(i, q, s)
      <3>1. WritesRow(c, i, q, s, met, next)
        <4>1. i = Who[c] /\ UNCHANGED <<identities, skill, unrepaired>> /\ op[c].type # "level"
          BY <1>0, <1>2 DEF i, skills
        <4>2. \A d \in Conn \ {c} : ~Holding(d, i, q)
          BY <2>1 DEF Holding, ClaimInv
        <4> HIDE DEF QuestInv
        <4> QED BY <1>1, <1>2, <1>3, <2>1, <2>2, <2>3, <2>4, <4>1, <4>2 DEF WritesRow
      <3> HIDE DEF QuestInv
      <3> QED BY <3>1, RowWritten
    <2>6. TypeOK'
      BY <1>2, <1>3, <2>5, MovesOn DEF TypeOK, wardrobe, skills, RowKept
    <2>7. PaidInv'
      BY <1>2, <2>1, <2>2, <2>5 DEF PaidInv, RowKept
    <2>8. \A j \in Identity, r \in Quest : status'[j][r] = "claimed" <=> status[j][r] = "claimed"
      BY <2>1, <2>4, <2>5 DEF RowKept
    <2>9. TitlesAreEarned'
      BY <1>2, <2>8 DEF TitlesAreEarned, wardrobe
    <2> QED BY <2>5, <2>6, <2>7, <2>9 DEF RowKept
  <1>5. CASE ~MayRecord(i, q)
    <2>1. UNCHANGED quests
      BY <1>5 DEF RecordRow
    <2>2. available \in SUBSET Node /\ unrepaired \in SUBSET Identity
      BY DEF TypeOK
    <2>3. UNCHANGED <<skill, unrepaired>>
      BY <1>2 DEF skills
    <2> HIDE DEF next
    <2> QED BY <1>0, <1>2, <2>3, <1>3, <2>1, <2>2, NothingWritten
  <1> QED BY <1>4, <1>5

\* equipTitle and the COMMIT of claimReward: the row is still as it was marked.
LEMMA KeepsClaim == ASSUME QuestInv, NEW c \in Conn, ClaimCommit(c) PROVE QuestInv'
  <1> USE QuestAssumption DEF QuestInv, Rows
  <1> DEFINE i == Who[c]
             q == op[c].quest
             p == progress[i][q]
  <1>1. op[c].type = "equip" /\ q \in Quest /\ i \in Identity
    BY HandlerShape DEF ClaimCommit
  <1>1a. status[i][q] = "completed" /\ \A d \in Conn \ {c} : ~Holding(d, i, q)
    BY <1>1 DEF ClaimInv
  <1>2. i \in identities
    BY <1>1, <1>1a DEF GoneHaveNothing
  <1>3. /\ status' = [status EXCEPT ![i][q] = "claimed"]
        /\ titles' = [titles EXCEPT ![i] = titles[i] \cup {Title[q]}]
        /\ equipped' = [equipped EXCEPT ![i] = {Title[q]}]
        /\ paid' = [paid EXCEPT ![i][q] = @ + 1]
        /\ Goes(c, Idle)
        /\ UNCHANGED <<identities, progress, skill, unrepaired, available>>
    BY DEF ClaimCommit, skills
  <1> HIDE DEF i, q
  <1>4. p \in SUBSET Target /\ progress' = [progress EXCEPT ![i][q] = p]
    BY <1>1, <1>3 DEF TypeOK
  <1>5. Needs[q] \subseteq p
    BY <1>1, <1>1a DEF CompletedMeansDone, Finished
  <1> HIDE DEF p
  <1>6. RowKept(i, q, "claimed")
    <2>1. WritesRow(c, i, q, "claimed", p, Idle)
      <3>1. "claimed" \in Finished /\ status[i][q] # "none"
        BY <1>1a DEF Finished
      <3>2. UNCHANGED <<identities, skill, unrepaired>> /\ i = Who[c]
        BY <1>3 DEF i
      <3> HIDE DEF QuestInv
      <3> QED BY <1>1, <1>1a, <1>2, <1>3, <1>4, <1>5, <3>1, <3>2, IdleIsQuiet DEF WritesRow
    <2> HIDE DEF QuestInv
    <2> QED BY <1>1, <2>1, RowWritten
  <1>7. /\ titles' \in [Identity -> SUBSET {Title[r] : r \in Quest}]
        /\ equipped' \in [Identity -> SUBSET {Title[r] : r \in Quest}]
    BY <1>1, <1>3 DEF TypeOK
  <1>8. /\ paid' \in [Identity -> [Quest -> Nat]]
        /\ paid'[i][q] = paid[i][q] + 1
        /\ \A j \in Identity, r \in Quest : <<j, r>> # <<i, q>> => paid'[j][r] = paid[j][r]
    <2>1. paid \in [Identity -> [Quest -> Nat]]
      BY DEF TypeOK
    <2> QED BY <2>1, <1>1, <1>3
  <1>9. TypeOK'
    BY <1>3, <1>6, <1>7, <1>8, IdleIsQuiet, MovesOn DEF TypeOK, RowKept
  <1>10. PaidInv'
    <2> SUFFICES ASSUME NEW j \in Identity, NEW r \in Quest
                 PROVE  paid'[j][r] = 0 \/ (paid'[j][r] = 1 /\ (status'[j][r] = "claimed" \/ j \notin identities))
      BY <1>3 DEF PaidInv
    <2>1. CASE <<j, r>> = <<i, q>>
      BY <2>1, <1>1, <1>1a, <1>2, <1>6, <1>8 DEF PaidInv, RowKept
    <2>2. CASE <<j, r>> # <<i, q>>
      <3>1. paid'[j][r] = paid[j][r] /\ status'[j][r] = status[j][r]
        BY <2>2, <1>6, <1>8 DEF RowKept
      <3>2. paid[j][r] = 0 \/ (paid[j][r] = 1 /\ (status[j][r] = "claimed" \/ j \notin identities))
        BY DEF PaidInv
      <3> QED BY <3>1, <3>2
    <2> QED BY <2>1, <2>2
  <1>11. TitlesAreEarned'
    <2> SUFFICES ASSUME NEW j \in Identity
                 PROVE  /\ titles'[j] = {Title[r] : r \in {x \in Quest : status'[j][x] = "claimed"}}
                        /\ equipped'[j] \subseteq titles'[j]
      BY DEF TitlesAreEarned
    <2>0. titles[j] = {Title[r] : r \in {x \in Quest : status[j][x] = "claimed"}} /\ equipped[j] \subseteq titles[j]
      BY DEF TitlesAreEarned
    <2>0a. titles \in [Identity -> SUBSET {Title[r] : r \in Quest}] /\ equipped \in [Identity -> SUBSET {Title[r] : r \in Quest}]
      BY DEF TypeOK
    <2>1. CASE j = i
      <3>1. {x \in Quest : status'[j][x] = "claimed"} = {x \in Quest : status[j][x] = "claimed"} \cup {q}
        BY <2>1, <1>1, <1>6 DEF RowKept
      <3>2. titles'[j] = titles[j] \cup {Title[q]} /\ equipped'[j] = {Title[q]}
        BY <2>1, <2>0a, <1>3
      <3> QED BY <2>0, <3>1, <3>2
    <2>2. CASE j # i
      <3>1. titles'[j] = titles[j] /\ equipped'[j] = equipped[j]
        BY <2>2, <2>0a, <1>3
      <3>2. \A x \in Quest : status'[j][x] = status[j][x]
        BY <2>2, <1>6 DEF RowKept
      <3> QED BY <2>0, <3>1, <3>2
    <2> QED BY <2>1, <2>2
  <1> QED BY <1>6, <1>9, <1>10, <1>11 DEF RowKept

\* equipTitle.
LEMMA KeepsEquip == ASSUME QuestInv, NEW c \in Conn, NEW q \in Quest, EquipTitle(c, Title[q]) PROVE QuestInv'
  <1> USE QuestAssumption DEF QuestInv, Rows, quests, skills
  <1> DEFINE i == Who[c]
             t == Title[q]
  <1>1. i \in Identity /\ t \in titles[i]
    BY DEF EquipTitle
  <1>2. /\ equipped' = [equipped EXCEPT ![i] = {t}]
        /\ UNCHANGED <<identities, quests, titles, skill, unrepaired, available, op, paid>>
    BY DEF EquipTitle
  <1> HIDE DEF i, t
  <1>3. titles[i] \subseteq {Title[r] : r \in Quest} /\ equipped \in [Identity -> SUBSET {Title[r] : r \in Quest}]
    BY <1>1 DEF TypeOK
  <1>4. equipped' \in [Identity -> SUBSET {Title[r] : r \in Quest}]
    BY <1>1, <1>2, <1>3
  <1>5. TypeOK'
    BY <1>2, <1>4 DEF TypeOK
  <1>6. TitlesAreEarned'
    <2> SUFFICES ASSUME NEW j \in Identity PROVE equipped'[j] \subseteq titles[j]
      BY <1>2 DEF TitlesAreEarned
    <2>1. equipped[j] \subseteq titles[j]
      BY DEF TitlesAreEarned
    <2> QED BY <2>1, <1>1, <1>2, <1>3
  <1>7. GoneHaveNothing' /\ PaidInv' /\ CompletedMeansDone' /\ LevelInv' /\ LevelIsBacked'
    BY <1>2 DEF GoneHaveNothing, PaidInv, CompletedMeansDone, LevelInv, LevelIsBacked
  <1>7a. ClaimInv' /\ RepairInv'
    BY <1>2 DEF ClaimInv, Holding, RepairInv, Repairing
  <1>8. \A j, r : Meets(j, r)' <=> Meets(j, r)
    BY <1>2 DEF Meets
  <1>9. PrerequisiteHeld' /\ AcceptInv'
    BY <1>2, <1>8 DEF PrerequisiteHeld, AcceptInv
  <1> QED BY <1>5, <1>6, <1>7, <1>7a, <1>9

\* A node that is available again, and stuttering.
LEMMA KeepsQuiet ==
  ASSUME QuestInv,
         \/ UNCHANGED vars
         \/ \E n \in Node : Respawn(n)
  PROVE  QuestInv'
  <1> USE DEF QuestInv, Rows, quests, wardrobe, skills
  <1>1. /\ UNCHANGED <<identities, status, progress, titles, equipped, skill, unrepaired, op, paid>>
        /\ available' \in SUBSET Node
    BY DEF vars, Respawn, TypeOK
  <1>2. TypeOK'
    BY <1>1 DEF TypeOK
  <1>3. GoneHaveNothing' /\ PaidInv' /\ CompletedMeansDone' /\ LevelInv' /\ LevelIsBacked' /\ TitlesAreEarned'
    BY <1>1 DEF GoneHaveNothing, PaidInv, CompletedMeansDone, LevelInv, LevelIsBacked, TitlesAreEarned
  <1>3a. ClaimInv' /\ RepairInv'
    BY <1>1 DEF ClaimInv, Holding, RepairInv, Repairing
  <1>4. \A j, r : Meets(j, r)' <=> Meets(j, r)
    BY <1>1 DEF Meets
  <1>5. PrerequisiteHeld' /\ AcceptInv'
    BY <1>1, <1>4 DEF PrerequisiteHeld, AcceptInv
  <1> QED BY <1>2, <1>3, <1>3a, <1>5

\* deleteIdentity: every table cascades; no claim holds a row of
\* the trainer.
LEMMA KeepsDelete == ASSUME QuestInv, NEW i \in Identity, DeleteIdentity(i) PROVE QuestInv'
  <1> USE QuestAssumption DEF QuestInv, Rows
  <1>1. /\ identities' = identities \ {i}
        /\ status' = [status EXCEPT ![i] = [q \in Quest |-> "none"]]
        /\ progress' = [progress EXCEPT ![i] = [q \in Quest |-> {}]]
        /\ titles' = [titles EXCEPT ![i] = {}]
        /\ equipped' = [equipped EXCEPT ![i] = {}]
        /\ skill' = [skill EXCEPT ![i] = NoSkill]
        /\ UNCHANGED <<unrepaired, available, op, paid>>
    BY DEF DeleteIdentity
  <1>2. /\ status' \in [Identity -> [Quest -> {"none", "accepted"} \cup Finished]]
        /\ \A q \in Quest : status'[i][q] = "none"
        /\ \A j \in Identity : j # i => status'[j] = status[j]
    BY <1>1 DEF TypeOK
  <1>3. /\ progress' \in [Identity -> [Quest -> SUBSET Target]]
        /\ \A j \in Identity : j # i => progress'[j] = progress[j]
    BY <1>1 DEF TypeOK
  <1>4. /\ titles' \in [Identity -> SUBSET {Title[q] : q \in Quest}]
        /\ titles'[i] = {}
        /\ \A j \in Identity : j # i => titles'[j] = titles[j]
    BY <1>1 DEF TypeOK
  <1>5. /\ equipped' \in [Identity -> SUBSET {Title[q] : q \in Quest}]
        /\ equipped'[i] = {}
        /\ \A j \in Identity : j # i => equipped'[j] = equipped[j]
    BY <1>1 DEF TypeOK
  <1>6. NoSkill \in [xp : Nat, level : Level] /\ NoSkill.xp = 0 /\ NoSkill.level = 1
    BY DEF NoSkill, Level
  <1>7. /\ skill' \in [Identity -> [xp : Nat, level : Level]]
        /\ skill'[i] = NoSkill
        /\ \A j \in Identity : j # i => skill'[j] = skill[j]
    BY <1>1, <1>6 DEF TypeOK
  <1>8. TypeOK'
    BY <1>1, <1>2, <1>3, <1>4, <1>5, <1>7 DEF TypeOK
  <1>9. GoneHaveNothing' /\ CompletedMeansDone'
    BY <1>1, <1>2, <1>3 DEF GoneHaveNothing, CompletedMeansDone, Finished
  <1>10. PaidInv'
    BY <1>1, <1>2 DEF PaidInv
  <1>11. \A j \in Identity, q \in Quest : j # i => (Meets(j, q)' <=> Meets(j, q))
    BY <1>2 DEF Meets
  <1>12. PrerequisiteHeld'
    BY <1>2, <1>11 DEF PrerequisiteHeld
  <1>13. AcceptInv'
    <2> SUFFICES ASSUME NEW d \in Conn, op[d].type = "accept_insert", Who[d] \in identities \ {i}
                 PROVE  \A r \in Prerequisite[op[d].quest] : status'[Who[d]][r] \in Finished
      BY <1>1 DEF AcceptInv, Meets
    <2>1. op[d].quest \in Quest /\ Who[d] \in Identity
      BY HandlerShape
    <2> QED BY <2>1, <1>2 DEF AcceptInv, Meets
  <1>14. TitlesAreEarned'
    <2> SUFFICES ASSUME NEW j \in Identity
                 PROVE  /\ titles'[j] = {Title[r] : r \in {x \in Quest : status'[j][x] = "claimed"}}
                        /\ equipped'[j] \subseteq titles'[j]
      BY DEF TitlesAreEarned
    <2>1. CASE j = i
      BY <2>1, <1>2, <1>4, <1>5
    <2>2. CASE j # i
      BY <2>2, <1>2, <1>4, <1>5 DEF TitlesAreEarned
    <2> QED BY <2>1, <2>2
  <1>15. LevelIsBacked'
    <2>1. LevelForXp(0) \in Level
      BY LevelForXpIs
    <2> QED BY <2>1, <1>6, <1>7 DEF LevelIsBacked, Level
  <1>16. LevelInv'
    BY <1>1, <1>7 DEF LevelInv
  <1>17. ClaimInv'
    <2>1. ASSUME NEW d \in Conn, op[d].type \in {"unlock", "equip"}
          PROVE  Who[d] # i /\ Who[d] \in Identity
      <3>1. op[d].quest \in Quest
        BY <2>1, HandlerShape
      <3>2. ~Holding(d, i, op[d].quest)
        BY <3>1 DEF DeleteIdentity
      <3> QED BY <2>1, <3>2 DEF Holding
    <2> QED BY <2>1, <1>1, <1>2 DEF ClaimInv, Holding
  <1>18. RepairInv'
    BY <1>1, <1>7 DEF RepairInv, Repairing, TypeOK
  <1> QED BY <1>8, <1>9, <1>10, <1>12, <1>13, <1>14, <1>15, <1>16, <1>17, <1>18

\* Every step of Next keeps the invariant.
LEMMA QuestStep == QuestInv /\ [Next]_vars => QuestInv'
  <1> SUFFICES ASSUME QuestInv, [Next]_vars PROVE QuestInv'
    OBVIOUS
  <1>1. ASSUME NEW c \in Conn, NEW q \in Quest,
               \/ AcceptQuest(c, q) \/ ClaimReward(c, q) \/ RecordRow(c, q) \/ EquipTitle(c, Title[q])
        PROVE  QuestInv'
    BY <1>1, KeepsRead, KeepsRecord, KeepsEquip
  <1>2. ASSUME NEW c \in Conn, AcceptCheck(c) \/ ClaimCheck(c) PROVE QuestInv'
    <2>1. op[c].quest \in Quest
      BY <1>2, HandlerShape DEF AcceptCheck, ClaimCheck, QuestInv, Rows
    <2> QED BY <1>2, <2>1, KeepsRead
  <1>3. ASSUME NEW c \in Conn, AcceptInsert(c) \/ MarkClaimed(c) \/ UnlockTitle(c) \/ ClaimCommit(c)
        PROVE  QuestInv'
    BY <1>3, KeepsAcceptInsert, KeepsUncommitted, KeepsClaim
  <1>4. ASSUME NEW c \in Conn, NEW n \in Node, FindNode(c, n) PROVE QuestInv'
    BY <1>4, KeepsFind
  <1>5. ASSUME NEW c \in Conn, HarvestNode(c) PROVE QuestInv'
    BY <1>5, KeepsHarvest
  <1>6. ASSUME NEW c \in Conn, AddXp(c) \/ SetLevel(c) PROVE QuestInv'
    BY <1>6, KeepsAddXp, KeepsSetLevel
  <1>7. ASSUME NEW c \in Conn, AfterHarvest(c) PROVE QuestInv'
    <2>1. op[c].target \in Target /\ op[c].type # "level"
      BY <1>7, HandlerShape DEF AfterHarvest, QuestInv, Rows
    <2> QED BY <1>7, <2>1, KeepsSelect DEF AfterHarvest
  <1>8. ASSUME NEW c \in Conn, NEW n \in Npc, NpcInteract(c, n) PROVE QuestInv'
    BY <1>8, KeepsSelect, IdleIsQuiet DEF NpcInteract, Target
  <1>9. ASSUME NEW c \in Conn, Throws(c) PROVE QuestInv'
    BY <1>9, KeepsThrow
  <1>10. ASSUME NEW i \in Identity, DeleteIdentity(i) PROVE QuestInv'
    BY <1>10, KeepsDelete
  <1>11. (\E n \in Node : Respawn(n)) \/ UNCHANGED vars => QuestInv'
    BY KeepsQuiet
  <1> QED BY <1>1, <1>2, <1>3, <1>4, <1>5, <1>6, <1>7, <1>8, <1>9, <1>10, <1>11 DEF Next

-----------------------------------------------------------------------------
(* Theorems                                                                *)

\* The inductive invariant, for every instance.
THEOREM QuestInvariant == Spec => []QuestInv
  BY QuestInit, QuestStep, PTL DEF Spec

\* Every row and handler keeps its type; the level of a skill is one of the
\* 99 that levelForXp returns, whatever the xp.
THEOREM QuestTyping == Spec => []TypeOK
  <1>1. QuestInv => TypeOK
    BY DEF QuestInv, Rows
  <1> QED BY <1>1, QuestInvariant, PTL

\* claimReward: however many claims of a quest overlap, from however many
\* connections, its reward is paid once.
THEOREM OneReward == Spec => []RewardOnce
  <1>1. QuestInv => RewardOnce
    BY DEF QuestInv, PaidInv, RewardOnce
  <1> QED BY <1>1, QuestInvariant, PTL

\* claimReward and equipTitle: a trainer owns the titles of the quests it
\* claimed and wears one of them.
THEOREM EarnedTitles == Spec => []TitlesAreEarned
  <1>1. QuestInv => TitlesAreEarned
    BY DEF QuestInv
  <1> QED BY <1>1, QuestInvariant, PTL

\* recordNpcInteraction and recordResourceInteraction: a finished quest has
\* every interaction it requires, though handlers overwrite each other's
\* progress.
THEOREM FinishedIsDone == Spec => []CompletedMeansDone
  <1>1. QuestInv => CompletedMeansDone
    BY DEF QuestInv
  <1> QED BY <1>1, QuestInvariant, PTL

\* acceptQuest starts no quest whose prerequisites are unfinished, although it
\* checks them before it inserts.
THEOREM PrerequisitesFinished == Spec => []PrerequisiteHeld
  <1>1. QuestInv => PrerequisiteHeld
    BY DEF QuestInv
  <1> QED BY <1>1, QuestInvariant, PTL

\* addXp: the level that the last of two overlapping gains writes is not above
\* what the xp pays for, and a gain that runs alone leaves exactly that.
THEOREM LevelsArePaidFor == Spec => []LevelMatchesXp
  <1>1. QuestInv => LevelMatchesXp
    BY DEF QuestInv, RepairInv, LevelMatchesXp
  <1> QED BY <1>1, QuestInvariant, PTL

\* The WHERE clauses of the UPDATEs: a handler that read a quest as accepted
\* cannot undo its completion or its claim.
THEOREM QuestsAdvance == Spec => QuestsOnlyAdvance
  <1>1. QuestInv /\ [Next]_vars
          => [\A i \in identities', q \in Quest : Rank[status[i][q]] <= Rank[status'[i][q]]]_vars
    <2> USE QuestAssumption DEF quests
    <2> SUFFICES ASSUME QuestInv, Next, NEW i \in identities', NEW q \in Quest
                 PROVE  Rank[status[i][q]] <= Rank[status'[i][q]]
      OBVIOUS
    <2>1. status \in [Identity -> [Quest -> {"none", "accepted"} \cup Finished]] /\ identities \subseteq Identity
      BY DEF QuestInv, Rows, TypeOK
    <2>2. \A s \in {"none", "accepted", "completed", "claimed"} :
            /\ Rank[s] <= Rank[s] /\ Rank["none"] <= Rank[s]
            /\ Rank["accepted"] <= Rank["completed"] /\ Rank["completed"] <= Rank["claimed"]
      BY DEF Rank
    <2>3. i \in Identity => status[i][q] \in {"none", "accepted", "completed", "claimed"}
      BY <2>1 DEF Finished
    <2>4. ASSUME UNCHANGED <<identities, status>> PROVE Rank[status[i][q]] <= Rank[status'[i][q]]
      BY <2>4, <2>1, <2>2, <2>3
    <2>5. ASSUME NEW c \in Conn, NEW r \in Quest, NEW s \in {"completed", "claimed", "accepted"},
                 identities' = identities,
                 status' = [status EXCEPT ![Who[c]][r] = s],
                 Rank[status[Who[c]][r]] <= Rank[s]
          PROVE  Rank[status[i][q]] <= Rank[status'[i][q]]
      <3>1. CASE <<i, q>> = <<Who[c], r>>
        BY <2>5, <3>1, <2>1
      <3>2. CASE <<i, q>> # <<Who[c], r>>
        <4>1. status'[i][q] = status[i][q]
          BY <2>5, <3>2, <2>1
        <4> QED BY <4>1, <2>1, <2>2, <2>3, <2>5
      <3> QED BY <3>1, <3>2
    <2>6. ASSUME NEW c \in Conn, AcceptInsert(c) PROVE Rank[status[i][q]] <= Rank[status'[i][q]]
      <3> DEFINE r == op[c].quest
                 s == IF Needs[r] = {} /\ Prerequisite[r] = {} THEN "completed" ELSE "accepted"
      <3>1. /\ r \in Quest /\ status[Who[c]][r] = "none" /\ identities' = identities
            /\ status' = [status EXCEPT ![Who[c]][r] = s]
        BY <2>6, HandlerShape DEF AcceptInsert, QuestInv, Rows
      <3>2. s \in {"completed", "claimed", "accepted"}
        OBVIOUS
      <3> HIDE DEF s, r
      <3> QED BY <2>2, <2>5, <3>1, <3>2
    <2>7. ASSUME NEW c \in Conn, ClaimCommit(c) PROVE Rank[status[i][q]] <= Rank[status'[i][q]]
      <3>1. /\ op[c].quest \in Quest /\ status[Who[c]][op[c].quest] = "completed" /\ identities' = identities
            /\ status' = [status EXCEPT ![Who[c]][op[c].quest] = "claimed"]
        BY <2>7, HandlerShape DEF ClaimCommit, ClaimInv, QuestInv, Rows
      <3> QED BY <2>2, <2>5, <3>1
    <2>8. ASSUME NEW c \in Conn, NEW r \in Quest, RecordRow(c, r) PROVE Rank[status[i][q]] <= Rank[status'[i][q]]
      <3> DEFINE s == IF Done(Who[c], r, op[c].seen[r] \cup {op[c].target}) THEN "completed" ELSE "accepted"
      <3>1. CASE MayRecord(Who[c], r)
        <4>1. /\ status[Who[c]][r] = "accepted" /\ identities' = identities
              /\ status' = [status EXCEPT ![Who[c]][r] = s]
          BY <2>8, <3>1 DEF RecordRow, MayRecord
        <4>2. s \in {"completed", "claimed", "accepted"}
          OBVIOUS
        <4>3. Rank["accepted"] <= Rank[s]
          BY DEF Rank
        <4> HIDE DEF s
        <4> QED BY <2>5, <4>1, <4>2, <4>3
      <3>2. CASE ~MayRecord(Who[c], r)
        BY <2>4, <2>8, <3>2 DEF RecordRow
      <3> QED BY <3>1, <3>2
    <2>9. ASSUME NEW j \in Identity, DeleteIdentity(j) PROVE Rank[status[i][q]] <= Rank[status'[i][q]]
      <3>1. i # j /\ i \in Identity /\ status' = [status EXCEPT ![j] = [r \in Quest |-> "none"]]
        BY <2>9, <2>1 DEF DeleteIdentity
      <3>2. status'[i] = status[i]
        BY <3>1, <2>1
      <3> QED BY <3>1, <3>2, <2>2, <2>3
    <2>11. ASSUME NEW c \in Conn,
                  \/ AcceptCheck(c) \/ ClaimCheck(c) \/ HarvestNode(c) \/ AddXp(c) \/ SetLevel(c)
                  \/ AfterHarvest(c) \/ Throws(c) \/ MarkClaimed(c) \/ UnlockTitle(c)
           PROVE  Rank[status[i][q]] <= Rank[status'[i][q]]
      BY <2>4, <2>11 DEF AcceptCheck, ClaimCheck, HarvestNode, AddXp, SetLevel, AfterHarvest, Throws,
           MarkClaimed, UnlockTitle,
           Reads, SelectAccepted
    <2>12. ASSUME NEW n \in Node \cup Npc, NEW c \in Conn, FindNode(c, n) \/ NpcInteract(c, n)
           PROVE  Rank[status[i][q]] <= Rank[status'[i][q]]
      BY <2>4, <2>12 DEF FindNode, NpcInteract, Reads, SelectAccepted
    <2>13. ASSUME NEW n \in Node, Respawn(n) PROVE Rank[status[i][q]] <= Rank[status'[i][q]]
      BY <2>4, <2>13 DEF Respawn
    <2>14. ASSUME NEW c \in Conn, NEW r \in Quest, AcceptQuest(c, r) \/ ClaimReward(c, r) \/ EquipTitle(c, Title[r])
           PROVE  Rank[status[i][q]] <= Rank[status'[i][q]]
      BY <2>4, <2>14 DEF AcceptQuest, ClaimReward, EquipTitle, Reads
    <2> QED BY <2>6, <2>7, <2>8, <2>9, <2>11, <2>12, <2>13, <2>14 DEF Next
  <1> QED BY <1>1, QuestInvariant, PTL DEF Spec, QuestsOnlyAdvance

=============================================================================
