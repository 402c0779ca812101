\* The App is recomposed, with participants dropped and reordered, during and between invocations.
SPECIFICATION Spec
CONSTANTS
  Slots = {s1, s2}
  Callers = {admin}
  RetentionCallers = {admin}
  Actions = {a1}
  Intents = {i1}
  Guards = {g1}
  Participants = {p1, p2}
  Compositions <- SwappedPlans
  Receipts = {r1}
  MaxLate = 2
  BadReceipt = BadReceipt
  NoReceipt = NoReceipt
  NoRow = NoRow
  NoIntent = NoIntent
  NoRequest = NoRequest
  NoPlan = NoPlan
  admin = admin
  peer = peer
  outsider = outsider
  p1 = p1
  p2 = p2
  g1 = g1
  g2 = g2
SYMMETRY Sym
INVARIANTS ApplyMatchesFrozenAction ResultsOfFrozenParticipants CompletedMeansApplied
PROPERTIES PendingMeansUnbound
