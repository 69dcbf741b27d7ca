SPECIFICATION Spec
CONSTANTS
  h1 = h1
  h2 = h2
  Handlers = {h1, h2}
  RequestsTo <- MCRequestsTo
  NumberOf <- MCNumberOf
INVARIANTS
  ChecksPass
  OwnRequest
  NegotiatedTypeAccepted
