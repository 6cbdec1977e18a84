SPECIFICATION Spec
CHECK_DEADLOCK FALSE
CONSTANTS
  a = a
  b = b
  NUL = NUL
  None = None
  Byte = {a, b, NUL}
  Function = {"get", "get2", "delete", "post", "post_file", "send_data"}
  Payload <- MCPayload
  MaxLen = 4
  HeaderLine <- MCHeaderLine
INVARIANTS TypeOK SentInOrder ReceivedInOrder ProgressTrue
PROPERTY ContractSpec
