\* Bursts from 2 to 26 bytes at every point of the fragmentation, on limits
\* scaled down to 20 bytes per SDU and 15 bytes per PPDU payload.
CONSTANTS
  MaxPdu = 20
  MaxPpduPl = 15
  LenMod = 16
  TotalMod = 32
  SeqMod = 2
  CounterMod = 1
  BytesMod = 1
  FragIds = {0}
  TxSdus <- MCTxSdus
  TxConfs <- MCTxConfs
  Bursts = {2, 4, 5, 6, 7, 8, 9, 11, 16, 17, 18, 26}
  MaxSdus = 2
  MaxRestarts = 1
  TxResets = {0}
SPECIFICATION TxFairSpec
INVARIANTS
  TxTypeOK TxBufOK TxAssertsHold TotalHonest PpduFits QueueSizeTellsBusy MinBurstSuffices
PROPERTY TxDrains
