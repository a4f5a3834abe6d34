SPECIFICATION Spec
CONSTANTS
  r1 = r1
  r2 = r2
  g1 = g1
  g2 = g2
  p1 = p1
  p2 = p2
  f1 = f1
  NoAnchor = NoAnchor
  NoPortal = NoPortal
  Requests = {r1, r2}
  Groups = {g1, g2}
  Portals = {p1, p2}
  Files = {f1}
  MaxRoots = 2
  Roles = {"view", "edit"}
  Kinds = {"register", "attach", "detach", "groupRegister", "groupDelete"}
  Operations <- MCOperations
SYMMETRY Symmetry
INVARIANTS TypeOK SamePortal
PROPERTIES AnchorPinned OnlyNamedGroupsMove AttachMovesRole DetachFromEditReported
