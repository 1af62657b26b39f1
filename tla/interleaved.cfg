SPECIFICATION Spec
CONSTANTS
  Streams <- AllStreams
  HeaderSize = 2
  MinAnswer = 3
  MaxMessages = 3
INVARIANTS
  PacketsAreWhole
  MessagesAreWhole
  NothingIsLost
CHECK_DEADLOCK FALSE
