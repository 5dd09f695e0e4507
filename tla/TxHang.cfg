SPECIFICATION FairSpec
CONSTANTS
  ConfirmationBlocks = 2
  MaxHead = 4
  MaxAsks = 1
  BlockTimeout = 2
  Hangs = {"blockNumber"}
PROPERTIES Settles
CHECK_DEADLOCK FALSE
