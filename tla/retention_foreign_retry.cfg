\* A denying guard answers a foreign retry before the stored owner does.
SPECIFICATION Spec
CONSTANTS
  Slots = {s1, s2}
  Callers = {admin, peer}
  RetentionCallers = {admin, peer}
  Actions = {a1}
  Intents = {i1}
  Guards = {g1}
  Participants = {p1, p2}
  Compositions <- GuardedPair
  Receipts = {r1}
  MaxLate = 0
  BadReceipt = BadReceipt
  NoReceipt = NoReceipt
  NoRow = NoRow
  NoIntent = NoIntent
  NoRequest = NoRequest
  NoPlan = NoPlan
  admin = admin
  peer = peer
  outsider = outsider
  p1 = p1
  p2 = p2
  g1 = g1
  g2 = g2
SYMMETRY Sym
INVARIANTS ForeignRetryConflicts
