\* Two sources send everything the limits tell apart.
SPECIFICATION Spec
CONSTANTS
  Slots = {s1}
  Callers = {privacy}
  ExportCallers = {privacy}
  Exports = {e1}
  Targets = {t1}
  Sources = {src1, src2}
  Plans <- SwappedSources
  Items <- AllItems
  Offers <- AllOffers
  MaxItems = 3
  MaxItemBytes = 7
  MaxTotalBytes = 12
  MaxLate = 1
  NoExport = NoExport
  NoTarget = NoTarget
  NoRequest = NoRequest
  NoPlan = NoPlan
  privacy = privacy
  peer = peer
  outsider = outsider
  src1 = src1
  src2 = src2
  n1 = n1
  n2 = n2
SYMMETRY Sym
INVARIANTS StoredArtifactsFit NoPartialArtifact
PROPERTIES TooLargeIsTrue
