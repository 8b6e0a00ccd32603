SPECIFICATION FairSpec
CONSTANTS
  Streams <- SomeStreams
  BadSizes <- UnreadableSizes
  is_request = TRUE
INVARIANTS TypeOK HeadersAsSent NothingLeftBehind KilledOnlyForCause
PROPERTIES ImplementsFraming ParsingEnds
CHECK_DEADLOCK FALSE
