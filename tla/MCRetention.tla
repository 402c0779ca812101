---------------------------- MODULE MCRetention ----------------------------
(* Instances of RetentionCoordinator for TLC. *)
EXTENDS RetentionCoordinator, TLC

CONSTANTS admin, peer, outsider, p1, p2, g1, g2

(* One Plan: one guard, two participants. *)
GuardedPair == {[guards |-> <<g1>>, participants |-> <<p1, p2>>]}

(* A Plan of two participants, and a guarded one that lacks the first. *)
PairOrRest == {[guards |-> << >>, participants |-> <<p1, p2>>],
               [guards |-> <<g1>>, participants |-> <<p2>>]}

(* Unguarded Plans that drop and reorder participants. *)
SwappedPlans == {[guards |-> << >>, participants |-> <<p1>>],
                 [guards |-> << >>, participants |-> <<p2, p1>>]}

(* One participant behind no, one or two guards. *)
GuardPlans == {[guards |-> << >>, participants |-> <<p1>>],
               [guards |-> <<g1, g2>>, participants |-> <<p1>>]}

Sym == Permutations(Slots) \cup Permutations(Receipts) \cup Permutations(Intents)
=============================================================================
