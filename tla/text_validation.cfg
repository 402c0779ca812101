\* Every text of up to six characters of each class, against limits it can exceed.
SPECIFICATION Spec
CONSTANTS
  NameLimit = 5
  ReasonLimit = 4
  ReceiptLimit = 5
  MaxLength = 6
INVARIANTS PathsAreCanonical KeptTextIsAcceptedAgain
