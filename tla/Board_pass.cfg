\* One person of each kind, two of whom may be assigned, two sites, and an archive
\* that shows one ticket.
SPECIFICATION Spec
CONSTANTS
  s1 = s1  s2 = s2
  None = None
  Admins = {a}
  Owners = {o}
  Managers = {m}
  Professionals = {p}
  Sites <- TwoSites
  Recipients = {m, p}
  MaxWriters = 2
  ArchiveLimit = 1
  MaxOthers = 2
SYMMETRY Symmetry
INVARIANTS BoardMirrors QuestionInSight
CHECK_DEADLOCK FALSE
