SPECIFICATION Spec
CONSTANTS
  Conn = {c1, c2, c3}
  Identity = {may, brendan}
  Who <- WhoIsWho
  Guild = {g1, g2}
  Name = {heroes, rockets}
  Lower <- LowerCase
  Tag = {HH, hh, RR}
  Upper <- UpperCase
  NoGuild = NoGuild
  MAX_GUILD_MEMBERS = 2
  c1 = c1
  c2 = c2
  c3 = c3
  may = may
  brendan = brendan
  heroes = heroes
  rockets = rockets
  HH = HH
  hh = hh
SYMMETRY Symmetry
INVARIANTS MembershipsAgree TagsAreUnique
CHECK_DEADLOCK FALSE
