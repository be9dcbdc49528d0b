SPECIFICATION ClientSpec
CONSTANTS
  IdModulus = 4
  MaxMeter = 3
  MaxInFlight = 3
  Faults <- SomeFaults
  CountChannels = 3
  SizeModulus = 6
  Args <- AllArgs
INVARIANTS
  ClientTypeOK
  CallsAllowed
  PrintedIsRead
  ExitZeroIsComplete
  ChannelsAsAsked
PROPERTY PrintingEnds
CHECK_DEADLOCK FALSE
