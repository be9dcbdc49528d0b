SPECIFICATION Spec
CONSTANTS
  Buffers <- AllBuffers
  Sizes <- SomeSizes
  Words <- SomeWords
  Units <- SomeUnits
INVARIANTS
  ParsesAsSpecified
  AnswersRecognised
  ErrorsRecognised
  StaysWhole
  FieldsAsGiven
  ValuesAsSent
CHECK_DEADLOCK FALSE
