\* Two failures, after which etcd answers.
SPECIFICATION FairLeaseSpec
CONSTANTS
  MaxRetries = 2
  MaxLeases = 4
  MaxFailures = 2
CHECK_DEADLOCK FALSE
INVARIANT LookedAfter
PROPERTIES StaysListed 
