\* Creates, reads and purges of one export by its owner race, die and end.
SPECIFICATION FairSpec
CONSTANTS
  Slots = {s1, s2}
  Callers = {privacy}
  ExportCallers = {privacy}
  Exports = {e1}
  Targets = {t1}
  Sources = {src1, src2}
  Plans <- SwappedSources
  Items <- FewItems
  Offers <- OneOffer
  MaxItems = 2
  MaxItemBytes = 2
  MaxTotalBytes = 9
  MaxLate = 2
  NoExport = NoExport
  NoTarget = NoTarget
  NoRequest = NoRequest
  NoPlan = NoPlan
  privacy = privacy
  peer = peer
  outsider = outsider
  src1 = src1
  src2 = src2
  n1 = n1
  n2 = n2
INVARIANTS SettledUntilPurged PurgeIsFinal
PROPERTIES ImplementsRegistry InvocationEnds
