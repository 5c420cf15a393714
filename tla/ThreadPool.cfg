SPECIFICATION FairSpec
CONSTANTS
  Workers = {w1, w2, w3}
  Owner = Owner
  MaxTasks = 4
  None = None
INVARIANT NoLostWakeup
PROPERTY ImplementsTaskPool
