\* A Plugin is configured, activated, deactivated, crashed and resolved again under running invocations.
CONSTANTS
  a = a
  b = b
  d = d
  misnamed = misnamed
  Instances <- MCInstances
  ValidNames <- MCValidNames
  Configs <- MCConfigs
  Plans <- MCPlans
  Slots = {s1, s2}
  s1 = s1
  s2 = s2
  PortLimit = 2
  MaxIncarnations = 2
SPECIFICATION FairSpec
INVARIANTS TypeOK SoundPlanServes QuiescentWhenDown
PROPERTIES DeactivationEnds
