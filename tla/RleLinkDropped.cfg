\* Finding: one SDU whose START PPDU is lost is dropped several times.
CONSTANTS
  MaxPdu = 20
  MaxPpduPl = 15
  LenMod = 16
  TotalMod = 32
  SeqMod = 2
  CounterMod = 64
  BytesMod = 1
  FragIds = {0}
  TxSdus <- MCOneSdu
  TxConfs <- MCCrcConfs
  Bursts = {8}
  MaxSdus = 2
  MaxRestarts = 0
  TxResets = {}
  RxFragIds = {0}
  RxConfs <- MCCrcConfs
  RxPpdus <- MCNoPpdus
  MaxRxRestarts = 0
  RxResets = {}
  ChanMax = 1
  MaxLoss = 1
SPECIFICATION LinkSpec
INVARIANT DroppedCountsSdus
