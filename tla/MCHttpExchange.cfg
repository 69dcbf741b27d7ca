SPECIFICATION FairSpec
CONSTANTS
  Messages <- MCMessages
  Roots <- MCRoots
  Answers <- MCAnswers
  BUFFERSIZE = 8
  NumberOf <- MCNumberOf
INVARIANTS
  RequestIntact
  ParsersAccept
  ResponseIntact
PROPERTIES
  ExchangeEnds
  ImplementsRequestResponse
