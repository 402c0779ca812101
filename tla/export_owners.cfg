\* An owner, an allowlisted peer and an outsider use one export_id with two targets.
SPECIFICATION Spec
CONSTANTS
  Slots = {s1, s2}
  Callers = {privacy, peer, outsider}
  ExportCallers = {privacy, peer}
  Exports = {e1}
  Targets = {t1, t2}
  Sources = {src1}
  Plans <- OneSource
  Items <- FewItems
  Offers <- OneOffer
  MaxItems = 2
  MaxItemBytes = 2
  MaxTotalBytes = 9
  MaxLate = 1
  NoExport = NoExport
  NoTarget = NoTarget
  NoRequest = NoRequest
  NoPlan = NoPlan
  privacy = privacy
  peer = peer
  outsider = outsider
  src1 = src1
  src2 = src2
  n1 = n1
  n2 = n2
SYMMETRY Sym
INVARIANTS TypeOK AnswersToOwnerOnly
PROPERTIES ArtifactStaysAsStored ImplementsRegistry
