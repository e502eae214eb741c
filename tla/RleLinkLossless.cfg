\* Two fragment ids, nothing lost, a transmitter that may log off and on again.
CONSTANTS
  MaxPdu = 20
  MaxPpduPl = 15
  LenMod = 16
  TotalMod = 32
  SeqMod = 2
  CounterMod = 1
  BytesMod = 1
  FragIds = {0, 1}
  TxSdus <- MCVariedSdus
  TxConfs <- MCManyConfs
  Bursts = {9, 17}
  MaxSdus = 2
  MaxRestarts = 1
  TxResets = {}
  RxFragIds = {0, 1}
  RxConfs <- MCManyConfs
  RxPpdus <- MCNoPpdus
  MaxRxRestarts = 0
  RxResets = {}
  ChanMax = 1
  MaxLoss = 0
SPECIFICATION LinkFairSpec
INVARIANT NothingLostUndisturbed
PROPERTY EventuallyHandedOver
