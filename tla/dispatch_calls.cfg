\* One call of every operation of every contract, by every way it can take.
CONSTANTS
  NewCode = "novel_code"
  Details <- MCDetails
SPECIFICATION Spec
INVARIANTS AnswersAreFaithful OnlyTheNamedHandlerRuns
CHECK_DEADLOCK FALSE
