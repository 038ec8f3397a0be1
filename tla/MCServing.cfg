\* One request more than there are connections.
CONSTANTS
  Slots = {1}
  Requests = {"r1", "r2", "r3"}
  KindsOf <- MCKindsOf
  Nobody = "nobody"
  Connections = 2
  MaxAsks = 4
SPECIFICATION Spec
INVARIANTS
  TypeOK
  AnswersAreFresh
PROPERTIES
  PartsNeverGoBack
  RequestsAnswered
