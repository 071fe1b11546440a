\* Two accounts, three writes, a pipeline of two, two disturbances.
CONSTANTS
  ann = ann  bob = bob
  Users <- TwoAccounts
  MaxPending = 2
  MaxWrites = 3
  MaxWaits = 1
  MaxFaults = 2
SPECIFICATION FairSpec
INVARIANTS TypeOK PipelineIsFront ResultsInStep NeededIsStarted TokenIsComing SentAsTheirUser IdsName ToldOnceAndTruly DoneStaysDone AppliedInOrder NothingLost
PROPERTIES WaitsForThoseBefore ImplementsPromise QueueDrains WaitsEnd
\* Everything may be answered, and nobody writes again.
CHECK_DEADLOCK FALSE
