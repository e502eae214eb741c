\* FPDUs of one or two PPDUs, one of them lost, and one SDU buffer at the receiver.
CONSTANTS
  MaxPdu = 20
  MaxPpduPl = 15
  LenMod = 16
  TotalMod = 32
  SeqMod = 2
  CounterMod = 1
  BytesMod = 1
  FragIds = {0}
  TxSdus <- MCFpSdus
  TxConfs <- MCFpConfs
  Bursts = {10, 17}
  MaxSdus = 2
  MaxRestarts = 0
  TxResets = {}
  RxFragIds = {0}
  RxConfs <- MCFpConfs
  RxPpdus <- MCNoPpdus
  MaxRxRestarts = 0
  RxResets = {}
  FpduSize = 20
  LabelSize = 3
  SdusMax = 1
  FlightMax = 1
  MaxLostFpdus = 1
SPECIFICATION FpFairSpec
INVARIANT NothingLostInFpdus
PROPERTIES ParsedAsPacked FpduImplementsService EventuallyDecapsulated
