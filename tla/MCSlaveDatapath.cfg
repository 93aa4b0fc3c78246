\* Two builds, two senders, a host that sleeps, wakes, reboots, in any order
\* with the tasks of the slave.
SPECIFICATION DatapathSpec
CONSTANTS
  Senders = {wifi, pserial}
  Frames <- StationFrames
  Reserved <- ReservedPorts
  Builds <- TwoBuilds
  MaxAllowed = 10
  DefaultBridge = "slave"
  MaxHost = 3
  MaxSend = 2
SYMMETRY SenderSymmetry
CHECK_DEADLOCK FALSE
INVARIANTS
  SleepTrue
  PathServes
  LostOnlyByRace
  RoutedRight
