------------------------------ MODULE RleDefs ------------------------------
(***************************************************************************)
(* Sizes, counters and on-the-wire length fields shared by the RLE         *)
(* transmitter and receiver (constants.h, header.h, trailer.h, rle.h).     *)
(* The header and trailer sizes are those of the packed C structures; the  *)
(* limits of the standard are parameters so that TLC can use small ones.   *)
(***************************************************************************)
EXTENDS Integers

CONSTANTS
  MaxPdu,      \* RLE_MAX_PDU_SIZE: largest SDU accepted (4088)
  MaxPpduPl,   \* RLE_MAX_PPDU_PL_SIZE: largest PPDU payload (2047)
  LenMod,      \* 2 ^ (bits of the PPDU length field) (2 ^ 11)
  TotalMod,    \* 2 ^ (bits of the START total length field) (2 ^ 12)
  SeqMod,      \* RLE_MAX_SEQ_NO: sequence numbers are modulo this (256)
  CounterMod,  \* 2 ^ (bits of an SDU counter) (2 ^ 64)
  BytesMod     \* 2 ^ (bits of an octet counter) (2 ^ 64)

CompHdr     == 2  \* sizeof(rle_ppdu_hdr_comp_t)
StartHdr    == 4  \* sizeof(rle_ppdu_hdr_start_t), also sizeof(rle_ppdu_hdr_t)
ContEndHdr  == 2  \* sizeof(rle_ppdu_hdr_cont_end_t)
BaseHdr     == 2  \* the bytes common to every PPDU header
MaxAlpduHdr == 3  \* sizeof(rle_alpdu_hdr_t)
CrcSize     == 4  \* sizeof(rle_alpdu_crc_trailer_t), also sizeof(rle_alpdu_trailer_t)
SeqSize     == 1  \* sizeof(rle_alpdu_seqno_trailer_t)

\* Every limit fits the field that carries it: with the values of the standard,
\* 2047 < 2 ^ 11 and 3 + 4088 + 4 = 4095 < 2 ^ 12.
ASSUME LimitsAssumption ==
  /\ MaxPdu \in Nat \ {0}
  /\ MaxPpduPl \in Nat /\ MaxPpduPl >= 8
  /\ LenMod \in Nat /\ MaxPpduPl < LenMod
  /\ TotalMod \in Nat /\ MaxAlpduHdr + MaxPdu + CrcSize < TotalMod
  /\ SeqMod \in Nat \ {0}
  /\ CounterMod \in Nat \ {0}
  /\ BytesMod \in Nat \ {0}

\* Position of the SDU in a fragmentation buffer, and the size of that buffer.
SduPos     == StartHdr + MaxAlpduHdr
FragBufLen == SduPos + MaxPdu + CrcSize

alpdu_trailer_len(crc) == IF crc THEN CrcSize ELSE SeqSize

\* Mutant: the total length loses its most significant bit.
short_start_set_total_len(len) == len % (TotalMod \div 2)

\* The length fields are stored on 11 and 12 bits in two bit-fields each.
rle_ppdu_hdr_set_ppdu_len(len)        == len % LenMod
rle_ppdu_hdr_start_set_total_len(len) == len % TotalMod

\* Sizes of a whole PPDU from its length field: the common header comes on top.
get_fragment_length(len_field) == len_field + BaseHdr

\* Mutant: no wrap around.
unwrapped_incr_seq_nb(seq) == seq + 1

rle_ctx_incr_seq_nb(seq) == (seq + 1) % SeqMod

\* Unsigned additions on the statistics counters; a negative val stands for its
\* unsigned image.
incr_counter(counter, val) == (counter + val) % CounterMod
incr_bytes(counter, val)   == (counter + val) % BytesMod

AtMost(a, b) == IF a <= b THEN a ELSE b

PpduHdrLen(type) == IF type = "START" THEN StartHdr ELSE BaseHdr

\* Bytes of ALPDU that the length field of a PPDU announces.
carried(ppdu) == get_fragment_length(ppdu.len) - PpduHdrLen(ppdu.type)
=============================================================================
