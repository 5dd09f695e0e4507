SPECIFICATION FairSpec
CONSTANTS
  s1 = s1
  s2 = s2
  p1 = p1
  p2 = p2
  http = http
  Subs = {s1, s2}
  Providers = {p1, p2, http}
  Deaf = {http}
  First = p1
  MaxIds <- TwoAtFirst
  MaxChanges = 2
  MaxFailures = 1
INVARIANTS EntriesCanBeRemoved
PROPERTIES EndedAtNode
CHECK_DEADLOCK FALSE
