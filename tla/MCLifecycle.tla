------------------------------ MODULE MCLifecycle ------------------------------
(* PluginLifecycle with configurations and Plans at the edges of what      *)
(* validation accepts.                                                     *)
EXTENDS PluginLifecycle

CONSTANTS a, b, d, misnamed

MCInstances == {a, b, d, misnamed}
MCValidNames == {a, b, d}

MCConfig(sources, items, itemBytes, totalBytes, callers) ==
  [schema_valid |-> TRUE, secret_valid |-> TRUE,
   export_callers |-> <<a>>, retention_callers |-> callers,
   max_sources |-> sources, max_guards |-> sources - 1, max_participants |-> 2,
   max_items |-> items, max_item_bytes |-> itemBytes, max_total_bytes |-> totalBytes]

MCConfigs ==
  {MCConfig(1, 512, 1048576, 16777216, <<a, b>>), MCConfig(2, 1, 1, 1, <<a>>),
   MCConfig(3, 1, 1, 1, <<a>>), MCConfig(1, 1, 2, 1, <<a>>), MCConfig(1, 1, 1, 1, << >>)}

MCBinding(capability, i, connected) ==
  [capability |-> capability, instance |-> i, connected |-> connected]

(* a and b each provide what they like; one Plan binds nothing, one an     *)
(* unconnected guard, some more than the limits.                           *)
MCPlans ==
  LET source(i) == MCBinding("source", i, TRUE)
      guard(i, c) == MCBinding("guard", i, c)
      participant(i) == MCBinding("participant", i, TRUE)
  IN {<< >>,
      <<source(a), participant(a)>>,
      <<source(a), participant(b)>>,
      <<participant(b), source(a), participant(a)>>,
      <<source(a), source(b), participant(b)>>,
      <<source(a), participant(a), participant(a)>>,
      <<source(misnamed), participant(b)>>,
      <<source(a), guard(b, TRUE), participant(b)>>,
      <<source(a), guard(b, FALSE), participant(b)>>,
      <<source(a), participant(b), participant(a), participant(d)>>,
      <<source(a), source(b), source(d), participant(b)>>,
      <<source(b), participant(b), guard(d, TRUE), guard(a, TRUE)>>,
      <<participant(a)>>}
=============================================================================
