SPECIFICATION FairSpec
CONSTANTS
  ConfirmationBlocks = 2
  MaxHead = 3
  MaxAsks = 2
  BlockTimeout = 2
  Hangs = {"send"}
INVARIANTS ConfirmationsExist BlockTimeoutHonest
PROPERTIES Settles WatchersEnd Confirmed
CHECK_DEADLOCK FALSE
