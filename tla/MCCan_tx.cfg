CONSTANTS
  TxMsgs = {"m"}
  Reply = "m"
  RxKinds = {"critical"}
  EvSize = 2
  FifoSize = 2
  Mailboxes = {1}
  HwRxSize = 1
  OtherMax = 2
  FaultMax = 1
SPECIFICATION Spec
INVARIANTS RxEventsCovered TxBacklogCovered
PROPERTY TxNeverStalls
