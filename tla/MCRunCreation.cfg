\* Two clients that send up to twice, every kind of request.
SPECIFICATION Spec
CONSTANTS
  Clients = {c1, c2}
  Requests <- MixedRequests
  MaxAttempts = 2
INVARIANTS
  TypeOK
  OneRunPerKey
  AnswersAgree
PROPERTIES
  ErrorsAreTransient
  ImplementsRegister
CHECK_DEADLOCK FALSE
