SPECIFICATION FairSpec
CONSTANTS
  Datagrams <- AllDatagrams
  Streams <- AllStreams
  Chunks <- SomeChunks
  Unsolicited = TRUE
INVARIANTS
  TypeOK
  BuffersHold
  ResponseIsComplete
PROPERTIES
  KeepsPromise
  SilenceEnds
