SPECIFICATION FairSpec
CONSTANTS
  MaxSent = 3
  MaxSaid = 2

PROPERTY DisposalCompletes
CHECK_DEADLOCK FALSE
