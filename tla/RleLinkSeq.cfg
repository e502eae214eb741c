\* Sequence numbers, a link that loses PPDUs, terminals that restart.
CONSTANTS
  MaxPdu = 20
  MaxPpduPl = 15
  LenMod = 16
  TotalMod = 32
  SeqMod = 3
  CounterMod = 1
  BytesMod = 1
  FragIds = {0}
  TxSdus <- MCSameSdus
  TxConfs <- MCSeqConfs
  Bursts = {8, 9}
  MaxSdus = 5
  MaxRestarts = 1
  TxResets = {}
  RxFragIds = {0}
  RxConfs <- MCSeqConfs
  RxPpdus <- MCNoPpdus
  MaxRxRestarts = 1
  RxResets = {}
  ChanMax = 1
  MaxLoss = 3
SPECIFICATION LinkSpec
PROPERTIES SeqNoProtects Recovers
