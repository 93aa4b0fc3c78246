\* Two tasks on one slot: every interleaving of their calls with the receive
\* thread, with two messages, complete and short answers, losses, late answers,
\* send errors and timeouts; fair scheduling.  A call that finds no slot, and one
\* whose slot is still being written to for another, are the ordinary case.
SPECIFICATION FairSpec
CONSTANTS
  Caller = {c1, c2}
  MAX_INFLIGHT = 1
  MsgId = {m1, m2}
  AnswerKind <- KindsOfEach
  MaxCalls = 2
  Rx = Rx
  NoOne = NoOne
CHECK_DEADLOCK FALSE
INVARIANTS
  TypeOK
  SlotOwnership
  RxTargetStable
  NoFalseAnswer
  CompleteUnlessAbandoned
  BodyGoesToLiveCall
PROPERTIES
  ImplementsService
  CallReturns
