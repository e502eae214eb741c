\* CRC trailers, a link that loses PPDUs, terminals that restart.
CONSTANTS
  MaxPdu = 20
  MaxPpduPl = 15
  LenMod = 16
  TotalMod = 32
  SeqMod = 4
  CounterMod = 1
  BytesMod = 1
  FragIds = {0}
  TxSdus <- MCSameSdus
  TxConfs <- MCCrcConfs
  Bursts = {8, 9}
  MaxSdus = 3
  MaxRestarts = 1
  TxResets = {}
  RxFragIds = {0}
  RxConfs <- MCCrcConfs
  RxPpdus <- MCNoPpdus
  MaxRxRestarts = 1
  RxResets = {}
  ChanMax = 1
  MaxLoss = 3
SPECIFICATION LinkSpec
PROPERTIES ImplementsService Recovers
