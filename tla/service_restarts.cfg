\* Retention invocations run while their Plugin is activated, deactivated and restarted.
SPECIFICATION ServiceSpec
CONSTANTS
  Slots = {s1, s2}
  Callers = {admin}
  RetentionCallers = {admin}
  Actions = {a1}
  Intents = {i1}
  Guards = {g1}
  Participants = {p1, p2}
  Compositions <- SomeCompositions
  Receipts = {r1}
  MaxLate = 0
  BadReceipt = BadReceipt
  NoReceipt = NoReceipt
  NoRow = NoRow
  NoIntent = NoIntent
  NoRequest = NoRequest
  NoPlan = NoPlan
  Instances = {src, g1, p1, p2}
  ValidNames = {src, g1, p1, p2}
  Configs <- SomeConfigs
  BindingPlans <- SomePlans
  PortLimit = 2
  MaxIncarnations = 2
  admin = admin
  src = src
  g1 = g1
  p1 = p1
  p2 = p2
SYMMETRY Sym
INVARIANTS NoVacuousExecution OneCallAfterClose
PROPERTIES DatabaseNeedsItsPool
