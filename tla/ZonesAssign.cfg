SPECIFICATION Spec
CONSTANTS
  Zone = {z1, z2, z3}
  Workspace = {w1}
  Rule = {r1}
  SeedRule = {r1}
  Session = {s1, s2}
  FirstZone = z1
  NoZone = NoZone
SYMMETRY Symmetry
INVARIANTS DefaultMembersImplicit
