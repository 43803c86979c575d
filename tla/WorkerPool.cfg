\* One submitter, three players of whom two share a queue, the cleaner on and every
\* task quick.
SPECIFICATION FairSpec
CONSTANTS
  anna = anna bob = bob carl = carl main = main
  Uids = {anna, bob, carl}
  KeyOf <- TwoKeys
  Submitters = {main}
  QueueSize = 1
  Cleaning = TRUE
  Quick = TRUE
  MaxTasks = 3
INVARIANT WaitGroupCounts
PROPERTIES  QueuesDrain
CHECK_DEADLOCK FALSE
