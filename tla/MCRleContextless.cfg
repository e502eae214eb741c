\* A buffer used by hand, in any order of calls that rle.h allows.
CONSTANTS
  MaxPdu = 24
  MaxPpduPl = 20
  LenMod = 32
  TotalMod = 32
  SeqMod = 2
  CounterMod = 1
  BytesMod = 1
  ClSdus <- MCClSdus
  ClConfs <- MCClConfs
  ClBursts = {1, 2, 7, 8, 20, 22, 40}
  MaxClSdus = 3
SPECIFICATION ClSpec
\* A failed assertion ends the program.
CHECK_DEADLOCK FALSE
INVARIANTS ClBufOK ClDelivers ClAbortsOnlyAskedAgain
