CONSTANTS
  RequestIds = {"7", "1", "42"}
  Bodies = {"19", "[]", "null"}
  ErrorCodes = {"-32601"}
  ErrorMessages = {"Method not found"}
SPECIFICATION Spec
INVARIANTS EnvelopeExact ReturnedIsLength
