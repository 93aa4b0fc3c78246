SPECIFICATION ReqSpec
CONSTANTS
  Families <- AllFamilies
  MaxRequest = 6
  MaxRecords = 2
CHECK_DEADLOCK FALSE
INVARIANTS
  HonestAnswers
  BootsGoodImage
  LeftAsAsked
  BluetoothGoesOn
