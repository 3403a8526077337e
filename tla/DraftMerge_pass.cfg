SPECIFICATION Spec
CONSTANTS
  s1 = s1 s2 = s2 b1 = b1 b2 = b2 b3 = b3 a1 = a1 a2 = a2 a3 = a3
  r1 = r1 r2 = r2 d1 = d1 d2 = d2 p1 = p1 p2 = p2 m1 = m1 m2 = m2 m3 = m3
  Sites = {s1, s2}
  Buildings = {b1, b2, b3}
  Apartments = {a1, a2, a3}
  Rooms = {r1, r2}
  Domains = {d1, d2}
  Texts = {t1}
  People = {p1, p2}
  SiteOf <- MCSiteOf
  BuildingOf <- MCBuildingOf
  Messages = {m1, m2, m3}
  None = None
  Subjects <- MCSubjects
  MaxTime = 1
  MaxEdits = 3
  MaxParagraphs = 2
SYMMETRY Symmetry
INVARIANTS SettlingSettles SenderLastWord
PROPERTIES MailRespectsDecisions NoUnseenLoss
CHECK_DEADLOCK FALSE
