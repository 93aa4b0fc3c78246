\* Init and deinit, twice, next to another task that takes an entry of the
\* registry, a task that makes a call and a receive thread with late answers.
SPECIFICATION FairSpec
CONSTANTS
  NUM_RESP = 2
  NUM_IDS = 2
  DeinitIds <- SmallDeinitIds
  OtherIds = {8}
  MAX_CUSTOM_CALLBACKS = 2
  MaxInit = 2
  MaxOther = 2
  MaxCalls = 1
CHECK_DEADLOCK FALSE
INVARIANTS
  RegistryKept
  DeadUseOnlyByHarm
PROPERTIES
  FailsOnlyForRoom
  RxReturnsToBus
