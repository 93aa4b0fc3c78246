\* The registry of sdkconfig.defaults, the largest Kconfig allows, and one with
\* room for all the handlers; four chips.
SPECIFICATION OverlaySpec
CONSTANTS
  Parts <- AllParts
  Rooms = {16, 32, 47}
  LinkSets <- Chips
  OVERLAY_CHANNEL = 180
  Channels = {176, 184}
  Dbm <- Powers
  Frames <- SomeFrames
  RAW_QUEUE_LEN = 2
  MaxRequest = 3
  MaxReady = 1
  MaxFrame = 3
CHECK_DEADLOCK FALSE
INVARIANTS
  StateTrue
  AnswersHonest
  FramesIntact
  UpcallMatches
