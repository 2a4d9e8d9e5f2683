SPECIFICATION Spec
CONSTANTS
  owner = owner
  d1 = d1
  d2 = d2
  a1 = a1
  a2 = a2
  None = None
  Owners = {owner}
  Derived = {d1}
  AuxUsers = {a1}
INVARIANTS
  LastReleaseCleans
