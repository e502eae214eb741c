\* Finding: the implicit type 0x31 is used for frames of other protocol types.
CONSTANTS
  CodecSdus <- MCCodecSdus
  CodecConfs <- MCCodecConfs
SPECIFICATION CodecSpec
INVARIANT OmissionIsRecoverable
\* One SDU goes through and the exchange ends.
CHECK_DEADLOCK FALSE
