SPECIFICATION Spec
CONSTANTS
  h1 = h1
  h2 = h2
  c1 = c1
  c2 = c2
  r1 = r1
  r2 = r2
  NoCommitment = NoCommitment
  IdHashes = {h1, h2}
  Commitments = {c1, c2}
  Requests = {r1, r2}
  MaxAttempts = 2
  Roles = {"view", "edit"}
  Epochs = {1, 2}
  Kinds = {"enroll", "revoke", "relabel", "relabelBulk", "reinstate"}
  Operations <- MCOperations
SYMMETRY Symmetry
INVARIANTS TypeOK DenylistedNotBound OneBindingPerIdHash MembersMatchBindings
PROPERTIES EpochForwardOnly RevokeEvicts MissMeansInterference ReportedAreOffEdit CapHoldsUnlessOvertaken DemotionReported ImplementsPolicy
