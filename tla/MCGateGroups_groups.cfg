SPECIFICATION FairSpec
CONSTANTS
  h1 = h1
  h2 = h2
  c1 = c1
  c2 = c2
  p1 = p1
  p2 = p2
  r1 = r1
  r2 = r2
  NoCommitment = NoCommitment
  NoPortal = NoPortal
  IdHashes = {h1, h2}
  Commitments = {c1, c2}
  Portals = {p1, p2}
  Requests = {r1, r2}
  MaxAttempts = 2
  Kinds = {"enroll", "revoke", "reinstate", "delete"}
  Operations <- MCOperations
INVARIANTS TypeOK RowConsistent
PROPERTIES RevokeEvicts MissMeansInterference TrespassMeansReplaced ImplementsGroupPolicy EveryRequestAnswered
