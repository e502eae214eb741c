\* The PPDUs of four ALPDUs in any order, with CRC trailers or sequence numbers.
CONSTANTS
  MaxPdu = 20
  MaxPpduPl = 31
  LenMod = 32
  TotalMod = 32
  SeqMod = 4
  CounterMod = 1
  BytesMod = 1
  RxFragIds = {0, 1}
  RxConfs <- MCRxConfs
  RxPpdus <- MCRxPpdus
  MaxRxRestarts = 1
  RxResets = {0}
SPECIFICATION RxSpec
INVARIANTS
  RxTypeOK RxBufOK RxAssertsHold HandedOverComplete CrcProtects
