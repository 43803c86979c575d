\* One submitter and the cleaner, a task that outlasts clearTimePass.
SPECIFICATION FairSpec
CONSTANTS
  anna = anna bob = bob carl = carl main = main
  Uids = {anna}
  KeyOf <- KeyPerUid
  Submitters = {main}
  QueueSize = 1
  Cleaning = TRUE
  Quick = FALSE
  MaxTasks = 3
PROPERTY StopReturns
CHECK_DEADLOCK FALSE
