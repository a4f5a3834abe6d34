SPECIFICATION Spec
CONSTANTS
  r1 = r1
  r2 = r2
  d1 = d1
  d2 = d2
  g1 = g1
  c1 = c1
  c2 = c2
  n1 = n1
  n2 = n2
  Own = Own
  NoRow = NoRow
  NoGroup = NoGroup
  NoDoc = NoDoc
  Requests = {r1, r2}
  Docs = {d1, d2}
  Groups = {}
  Commitments = {c1}
  Nonces = {n1}
  Updates = {"expire", "register", "reanchor", "enroll"}
  Roles = {"edit"}
  Epochs = {1}
  Kinds = {"challenge", "proof", "signature"}
  Verdicts = {TRUE, FALSE}
  MaxHeld = 8
  Operations <- MCOperations
SYMMETRY Symmetry
INVARIANTS TypeOK NonceSingleUse
PROPERTIES PassedWhileLive FailureBurnsNonce
