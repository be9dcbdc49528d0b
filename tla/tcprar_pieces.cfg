SPECIFICATION FairSpec
CONSTANTS
  Datagrams <- Good
  Streams <- AllOrNothing
  Chunks <- TwoPieces
  Unsolicited = FALSE
PROPERTY RunReturns
