\* An admin removes a member whom an owner makes an owner.
SPECIFICATION Spec
CONSTANTS
  Users = {u1, u2, u3}
  Projects = {p1}
  Slugs = {s1}
  Passwords = {w1}
  Plain = {"member"}
  Requests = {r1, r2}
  Mixes <- MCMembersOnly
  None = None
SYMMETRY MCSymmetry
CHECK_DEADLOCK FALSE
PROPERTIES OwnersNotTouched
