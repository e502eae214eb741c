\* Round trip of every SDU and configuration of the bounded sets.
CONSTANTS
  CodecSdus <- MCCodecSdus
  CodecConfs <- MCCodecConfs
SPECIFICATION CodecSpec
INVARIANT PtypeRoundTrip
\* One SDU goes through and the exchange ends.
CHECK_DEADLOCK FALSE
