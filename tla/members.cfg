\* Two requests at a time, three users, two projects and two slugs.
SPECIFICATION Spec
CONSTANTS
  Users = {u1, u2, u3}
  Projects = {p1, p2}
  Slugs = {s1, s2}
  Passwords = {w1, w2}
  Plain = {"member"}
  Requests = {r1, r2}
  Mixes <- MCMixes
  None = None
SYMMETRY MCSymmetry
CHECK_DEADLOCK FALSE
INVARIANTS TypeOK FounderOwns ConfiguredPasswordHolds
PROPERTIES OwnershipWithOwners RowsAsRequested
