CONSTANTS
  n1 = n1
  n2 = n2
  Nodes = {n1}
  MaxGeneration = 4
  LastJob = 4
SPECIFICATION TranscodeSpec
INVARIANTS AdvancedBeyondFence
CHECK_DEADLOCK FALSE
