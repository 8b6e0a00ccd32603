SPECIFICATION FairSpec
CONSTANTS
  Streams <- SomeStreams
  BadSizes <- UnreadableSizes
  is_request = TRUE
PROPERTY IncompleteWaits
CHECK_DEADLOCK FALSE
