\* Finding: a refused SDU makes the transmitter forget one it had accepted.
CONSTANTS
  MaxPdu = 20
  MaxPpduPl = 15
  LenMod = 16
  TotalMod = 32
  SeqMod = 2
  CounterMod = 64
  BytesMod = 1
  FragIds = {0}
  TxSdus <- MCPairSdus
  TxConfs <- MCPairConfs
  Bursts = {5, 8, 13}
  MaxSdus = 2
  MaxRestarts = 0
  TxResets = {}
SPECIFICATION TxSpec
INVARIANT TxSdusAccounted
