SPECIFICATION Spec
CONSTANTS
  Conn = {c1, c2}
  Identity = {may}
  Who <- WhoIsWho
  Quest = {research, report, gift}
  Npc = {scientist}
  Node = {tree}
  Needs <- NeedsOf
  Prerequisite <- PrerequisiteOf
  Title <- TitleOf
  HARVEST_XP = 50
  MAX_XP = 150
  Columns = {"reward_claimed_at", "updated_at"}
  c1 = c1
  c2 = c2
  may = may
  research = research
  report = report
  gift = gift
  scientist = scientist
  tree = tree
INVARIANTS RewardOnce TitlesAreEarned PrerequisiteHeld LevelMatchesXp
PROPERTIES QuestsOnlyAdvance
