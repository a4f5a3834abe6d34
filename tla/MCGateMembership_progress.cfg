SPECIFICATION FairSpec
CONSTANTS
  h1 = h1
  c1 = c1
  c2 = c2
  r1 = r1
  r2 = r2
  NoCommitment = NoCommitment
  IdHashes = {h1}
  Commitments = {c1, c2}
  Requests = {r1, r2}
  MaxAttempts = 5
  Roles = {"view", "edit"}
  Epochs = {1}
  Kinds = {"enroll", "revoke", "reinstate"}
  Operations <- MCOperations

PROPERTY EveryRequestAnswered
