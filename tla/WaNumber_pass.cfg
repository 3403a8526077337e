\* One administrator connects, another one may disconnect; two numbers.
SPECIFICATION NumberSpec
CONSTANTS
  Numbers = {n1, n2}
  Admins = {a1}
  NoNumber = NoNumber
  MaxConnects = 2
  MaxTrouble = 1
PROPERTIES LateNewsUndoesNothing SilenceIsFound
CHECK_DEADLOCK FALSE
