SPECIFICATION FairSpec
CONSTANTS
  NumTasks = 4
  NumBlocks = 6
INVARIANTS
  StreamsExclusive
PROPERTIES
  NothingAfterTorn
  Terminates
  Implements
