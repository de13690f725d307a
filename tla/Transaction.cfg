SPECIFICATION Spec
CONSTANTS
  Sent <- AllInstructions
  U64Values <- SomeU64
  Padding = 1
INVARIANTS
  DecodesTheRequest
  WrapperDoesWhatWasAsked
  PdaSignsForTheAdmin
  CallsAreSigned
  DocumentedCallsRun
CHECK_DEADLOCK FALSE
