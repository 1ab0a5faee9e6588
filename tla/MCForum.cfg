\* Sanctions, locks and deletions against writes in flight, and the retention
\* job and a publisher against both
SPECIFICATION ForumSpec
CONSTANTS
  Req = {r1, r2}
  Trainer = {ann, may}
  Moderators = {may}
  Nobody = Nobody
  Topic = {t1}
  Post = {p1}
  Sanction = {s1}
  Key = {k1}
  NoRow = NoRow
  Purged = Purged
  Op = {"topic", "reply", "edit", "delete", "lock", "restore", "sanction", "revoke"}
SYMMETRY Symmetry
INVARIANTS OfficialStands
PROPERTIES ModerationIsObeyed RecoveryWindow
CONSTRAINTS NoPromotions WholeTopics OneEnd
CHECK_DEADLOCK FALSE
