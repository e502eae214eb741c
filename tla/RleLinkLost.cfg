\* Finding: the counter of lost SDUs goes down when sequence numbers wrap.
CONSTANTS
  MaxPdu = 20
  MaxPpduPl = 15
  LenMod = 16
  TotalMod = 32
  SeqMod = 4
  CounterMod = 1024
  BytesMod = 1
  FragIds = {0}
  TxSdus <- MCOneSdu
  TxConfs <- MCSeqConfs
  Bursts = {9}
  MaxSdus = 6
  MaxRestarts = 0
  TxResets = {}
  RxFragIds = {0}
  RxConfs <- MCSeqConfs
  RxPpdus <- MCNoPpdus
  MaxRxRestarts = 0
  RxResets = {}
  ChanMax = 1
  MaxLoss = 2
SPECIFICATION LinkSpec
INVARIANT LostCountsMissing
