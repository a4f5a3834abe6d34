SPECIFICATION Spec
CONSTANTS
  d = d
  x = x
  g = g
  f = f
  a1 = a1
  a2 = a2
  k1 = k1
  k2 = k2
  i1 = i1
  i2 = i2
  s1 = s1
  r1 = r1
  r2 = r2
  Resources = {d}
  Portals = {x}
  Files = {f, g}
  Addresses = {a1, a2}
  Dids = {k1, k2}
  Identities = {i1, i2}
  Signers = {s1}
  Requests = {r1, r2}
  MaxChanges = 1
INVARIANTS TypeOK PassedWasLive
PROPERTIES BindingIsWinnersProof WritesAreAuthorized
SYMMETRY Symmetry
