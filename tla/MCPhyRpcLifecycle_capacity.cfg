\* The numbers of the source, with the largest registry that can be built.
SPECIFICATION Spec
CONSTANTS
  NUM_RESP = 47
  NUM_IDS = 54
  DeinitIds <- SourceDeinitIds
  OtherIds = {}
  MAX_CUSTOM_CALLBACKS = 32
  MaxInit = 1
  MaxOther = 0
  MaxCalls = 0
CHECK_DEADLOCK FALSE
INVARIANT
  InitSucceeds
