SPECIFICATION FairSpec
CONSTANTS
  s1 = s1
  docs = docs
  groups = groups
  a1 = a1
  a2 = a2
  r1 = r1
  r2 = r2
  Processes = {s1}
  Collections = {docs, groups}
  Anchors = {a1, a2}
  Requests = {r1, r2}
INVARIANTS TypeOK LoopEndsIndexed AckedIsStored
PROPERTIES ServesEventually IndexesEventually
