------------------------------ MODULE MCExport ------------------------------
(* Instances of ExportCoordinator for TLC. *)
EXTENDS ExportCoordinator, TLC

CONSTANTS privacy, peer, outsider, src1, src2, n1, n2

Item(name, bytes, wire) == [name |-> name, bytes |-> bytes, wire |-> wire, valid |-> TRUE]

Empty == Item(n1, 0, 1)
Small == Item(n1, 1, 2)
Other == Item(n2, 1, 2)
Large == Item(n2, 7, 8)
TooBig == Item(n2, 8, 9)
Escaped == Item(n1, 2, 6)
Malformed == [Small EXCEPT !.valid = FALSE]

(* Sources that answer nothing or one small item. *)
FewItems == {Small}
FewOffers == {<< >>, <<Small>>}
OneOffer == {<<Small>>}

(* Everything the limits tell apart. *)
AllItems == {Empty, Small, Other, Large, TooBig, Escaped, Malformed}
AllOffers == {<< >>, <<Small>>, <<Other>>, <<Small, Other>>, <<Small, Small>>, <<Large>>, <<TooBig>>,
              <<Escaped>>, <<Malformed>>, <<Empty, Other>>}

OneSource == {<<src1>>}
TwoSources == {<<src1, src2>>}
SwappedSources == {<<src1>>, <<src2, src1>>}

Sym == Permutations(Slots) \cup Permutations(Targets)
=============================================================================
