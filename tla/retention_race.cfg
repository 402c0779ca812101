\* Two concurrent invocations of one owner's action under one guarded Plan.
SPECIFICATION Spec
CONSTANTS
  Slots = {s1, s2}
  Callers = {admin}
  RetentionCallers = {admin}
  Actions = {a1}
  Intents = {i1}
  Guards = {g1}
  Participants = {p1, p2}
  Compositions <- GuardedPair
  Receipts = {r1, r2}
  MaxLate = 1
  BadReceipt = BadReceipt
  NoReceipt = NoReceipt
  NoRow = NoRow
  NoIntent = NoIntent
  NoRequest = NoRequest
  NoPlan = NoPlan
  admin = admin
  peer = peer
  outsider = outsider
  p1 = p1
  p2 = p2
  g1 = g1
  g2 = g2
SYMMETRY Sym
INVARIANTS TypeOK ReceiptsAreGenuine NoRepeatedDelivery ReportedCompletionIsFinal
PROPERTIES CompletionIsSticky ImplementsLedger
