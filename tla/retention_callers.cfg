\* An owner, an allowlisted peer and an outsider use one action_id with two intents.
SPECIFICATION Spec
CONSTANTS
  Slots = {s1, s2}
  Callers = {admin, peer, outsider}
  RetentionCallers = {admin, peer}
  Actions = {a1}
  Intents = {i1, i2}
  Guards = {g1, g2}
  Participants = {p1}
  Compositions <- GuardPlans
  Receipts = {r1}
  MaxLate = 1
  BadReceipt = BadReceipt
  NoReceipt = NoReceipt
  NoRow = NoRow
  NoIntent = NoIntent
  NoRequest = NoRequest
  NoPlan = NoPlan
  admin = admin
  peer = peer
  outsider = outsider
  p1 = p1
  p2 = p2
  g1 = g1
  g2 = g2
SYMMETRY Sym
INVARIANTS UnanimousPreflight OwnerOnly ActionNeverDisappears
PROPERTIES RefusalsCallNobody ImplementsLedger
