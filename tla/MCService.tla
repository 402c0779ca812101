------------------------------ MODULE MCService ------------------------------
(* RetentionService under the Plans and configurations an App may be       *)
(* resolved with, the refused ones included.                               *)
EXTENDS RetentionService, TLC

CONSTANTS admin, src, g1, p1, p2

Roomy ==
  [schema_valid |-> TRUE, secret_valid |-> TRUE,
   export_callers |-> <<src>>, retention_callers |-> <<src>>,
   max_sources |-> 1, max_guards |-> 1, max_participants |-> 2,
   max_items |-> 1, max_item_bytes |-> 1, max_total_bytes |-> 1]

SomeConfigs == {Roomy, [Roomy EXCEPT !.schema_valid = FALSE]}

Binding(capability, i) == [capability |-> capability, instance |-> i, connected |-> TRUE]

Source == Binding("source", src)
Guard == Binding("guard", g1)
First == Binding("participant", p1)
Second == Binding("participant", p2)

(* Two Plans that are accepted; then without a source, without a           *)
(* participant, and unconnected.                                           *)
SomePlans ==
  {<<Source, First, Second>>, <<Source, Guard, Second>>,
   <<First>>, <<Source, Guard>>, <<Source, [First EXCEPT !.connected = FALSE]>>}

SomeCompositions ==
  {[guards |-> << >>, participants |-> <<p1, p2>>], [guards |-> <<g1>>, participants |-> <<p2>>],
   [guards |-> << >>, participants |-> <<p1>>]}

Sym == Permutations(Slots)
=============================================================================
