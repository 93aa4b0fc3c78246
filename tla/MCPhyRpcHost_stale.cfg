\* A completion left behind by a call that gave up wakes the next call on its
\* slot before that call's answer has arrived.
SPECIFICATION Spec
CONSTANTS
  Caller = {c1}
  MAX_INFLIGHT = 2
  MsgId = {m1}
  AnswerKind <- MainKinds
  MaxCalls = 3
  Rx = Rx
  NoOne = NoOne
CHECK_DEADLOCK FALSE
INVARIANT
  AnswerReachesWaiter
