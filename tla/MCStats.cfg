SPECIFICATION FairSpec
CONSTANTS
  Req = {r1, r2}
  Nobody = Nobody
  Cred = {c}
  dex = dex
  badges = badges
  Field = {dex, badges}
  Watched = {dex}
  Consent = Consent
  NoRow = NoRow
  MaxScore <- Highest
  Limit = 0
INVARIANTS EntriesAreConsented
PROPERTIES JumpsAreReviewed RequestsFinish
