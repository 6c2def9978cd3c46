SPECIFICATION Spec
CONSTANTS
  r1 = r1
  r2 = r2
  p1 = p1
  p2 = p2
  NoAccount = NoAccount
  Blank = Blank
  Requests = {r1, r2}
  Passwords = {p1, p2}
  MaxChanges = 3
  MaxStops = 1
SYMMETRY Symmetry
INVARIANTS
  TypeOK
  LoginWasValid
  EntriesFitAnswers
PROPERTIES
  KeepsPromise
CHECK_DEADLOCK FALSE
