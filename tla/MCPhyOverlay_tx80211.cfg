\* Raw 802.11, ESP-NOW and IEEE 802.15.4 frames, each on chips with and without:
\* the slave does not send the first as it was given.
SPECIFICATION OverlaySpec
CONSTANTS
  Parts = {"frames"}
  Rooms = {47}
  LinkSets <- Chips
  OVERLAY_CHANNEL = 180
  Channels = {176, 184}
  Dbm <- Powers
  Frames <- SomeFrames
  RAW_QUEUE_LEN = 2
  MaxRequest = 3
  MaxReady = 1
  MaxFrame = 3
CHECK_DEADLOCK FALSE
INVARIANT FrameVerbatim
