----------------------------- MODULE RleFragBuf -----------------------------
(***************************************************************************)
(* Fragmentation buffers, and the PPDUs that are cut out of them           *)
(* (fragmentation_buffer.[ch], header.c, trailer.c).  A buffer holds one   *)
(* SDU, the ALPDU built around it and the PPDU cut out of it last; its     *)
(* pointers are offsets from its first byte.  Buffers are used by the      *)
(* contexts of a transmitter and by callers that do without contexts.      *)
(***************************************************************************)
EXTENDS RleDefs, RleProtoType

use_alpdu_crc(conf) ==
  ~conf.allow_alpdu_sequence_number /\ conf.allow_alpdu_crc

-----------------------------------------------------------------------------
(* Fragmentation buffers *)

NoTrailer == [kind |-> "none", val |-> 0]

rle_frag_buf_init ==
  [sdu_start |-> SduPos, sdu_end |-> SduPos, alpdu_start |-> SduPos,
   alpdu_end |-> SduPos, ppdu_start |-> SduPos, ppdu_end |-> SduPos,
   cur_pos |-> SduPos, id |-> 0, sdu_info |-> NoSdu,
   hdr |-> [len |-> 0, comp |-> 0, cut |-> 0], trailer |-> NoTrailer]

\* The SDU has been copied where the pointers stand, after room for the headers.
rle_frag_buf_cpy_sdu(b, sdu, id) ==
  [b EXCEPT !.sdu_end = @ + sdu.size, !.alpdu_end = @ + sdu.size,
            !.id = id, !.sdu_info = sdu]

\* An SDU of no byte does not count.
frag_buf_in_use(b) == b.sdu_start # b.sdu_end

\* rle_encap_contextless: the VLAN protocol field is cut by moving the start of the
\* SDU, the ALPDU header goes before it, and the first PPDU will start with the
\* ALPDU.
alpdu_hdr_pushed(b, conf) ==
  LET h == push_alpdu_hdr(b.sdu_info, conf)
      alpdu == b.alpdu_start + h.cut - h.len
  IN [b EXCEPT !.sdu_start = @ + h.cut, !.alpdu_start = alpdu,
               !.ppdu_start = alpdu, !.ppdu_end = alpdu, !.cur_pos = alpdu,
               !.hdr = h]

\* What rle_encapsulate makes of the buffer of a context.
encapsulated(sdu, id, conf) ==
  alpdu_hdr_pushed(rle_frag_buf_cpy_sdu(rle_frag_buf_init, sdu, id), conf)

\* The assertions of those functions: each move stays inside the buffer, and the
\* SDU is not empty.
encap_asserts(b) ==
  /\ b.sdu_end <= FragBufLen
  /\ 0 <= b.alpdu_start /\ b.alpdu_start < FragBufLen
  /\ frag_buf_in_use(b)

frag_buf_get_remaining_alpdu_length(b) == b.alpdu_end - b.cur_pos

\* frag_buf_ppdu_init makes the PPDU start at the current position; the header
\* of a PPDU that has been sent before is then behind it.
frag_buf_ppdu_init(b) == [b EXCEPT !.ppdu_start = b.cur_pos, !.ppdu_end = b.cur_pos]

frag_buf_is_fragmented(b) == b.alpdu_start < b.cur_pos

\* frag_buf_alpdu_put in push_alpdu_trailer: CRC of the SDU, or sequence number.
push_alpdu_trailer(b, conf, seq) ==
  [b EXCEPT !.alpdu_end = @ + alpdu_trailer_len(use_alpdu_crc(conf)),
            !.trailer = IF use_alpdu_crc(conf)
                          THEN [kind |-> "crc", val |-> b.id]
                          ELSE [kind |-> "seq", val |-> seq]]

\* frag_buf_ppdu_put of size bytes of ALPDU, frag_buf_ppdu_push of a header of
\* hdr bytes, frag_buf_set_cur_pos.
ppdu_put_push(b, size, hdr) ==
  LET put == AtMost(size, frag_buf_get_remaining_alpdu_length(b))
  IN [b EXCEPT !.ppdu_start = b.cur_pos - hdr,
               !.ppdu_end = b.cur_pos + put,
               !.cur_pos = b.cur_pos + put]

\* Mutant: only ALPDUs with a trailer are found to be sent.
trailed_alpdu_sent(b) ==
  frag_buf_get_remaining_alpdu_length(b) = 0 /\ b.trailer.kind # "none"

\* The last byte of the ALPDU is in a PPDU.
alpdu_sent(b) == frag_buf_get_remaining_alpdu_length(b) = 0

frag_buf_get_current_ppdu_len(b) == b.ppdu_end - b.ppdu_start

\* The assertions met while size bytes of b are put in a PPDU that makes it nb.
ppdu_asserts(b, size, nb) ==
  /\ frag_buf_in_use(b)
  /\ 0 <= b.cur_pos /\ b.cur_pos < FragBufLen
  /\ b.cur_pos <= b.alpdu_end /\ b.alpdu_end <= FragBufLen
  /\ 0 <= size /\ size <= MaxPpduPl + BaseHdr
  /\ nb.ppdu_end <= FragBufLen
  /\ 0 <= nb.ppdu_start
  /\ frag_buf_get_current_ppdu_len(nb) > BaseHdr

-----------------------------------------------------------------------------
(* PPDUs *)

\* What the bytes of an ALPDU are: everything that a receiver could tell from
\* them.  A PPDU carries the bytes lo .. hi - 1 of its ALPDU.
alpdu_of(b, frag) == [id |-> b.id, frag |-> frag, sdu |-> b.sdu_info,
                      hdr |-> b.hdr, trailer |-> b.trailer]

NoPpdu == [type |-> "none"]

total_len(b) == rle_ppdu_hdr_start_set_total_len(b.alpdu_end - b.alpdu_start)

\* push_comp_, push_start_, push_cont_ and push_end_ppdu_hdr on a buffer whose
\* PPDU is complete.  Fields that a header does not have are zero.
push_ppdu_hdr(type, b, frag, conf) ==
  LET supp == b.hdr.len = 0
      first == type \in {"COMP", "START"}
      start == b.ppdu_start + PpduHdrLen(type)
  IN [type    |-> type,
      frag    |-> IF type = "COMP" THEN 0 ELSE frag,
      len     |-> rle_ppdu_hdr_set_ppdu_len(frag_buf_get_current_ppdu_len(b) - BaseHdr),
      total   |-> IF type = "START" THEN total_len(b) ELSE 0,
      use_crc |-> type = "START" /\ use_alpdu_crc(conf),
      supp    |-> first /\ supp,
      label   |-> IF first
                    THEN get_alpdu_label_type(b.sdu_info.ptype, supp, conf) ELSE 0,
      al      |-> alpdu_of(b, frag),
      lo      |-> start - b.alpdu_start,
      hi      |-> b.ppdu_end - b.alpdu_start]

-----------------------------------------------------------------------------
(* push_ppdu_hdr: which PPDU fits a burst *)

\* Mutant: the whole burst is used.
uncapped_max_ppdu_len(burst) == burst

\* The offer is limited to the largest PPDU of the standard.
max_ppdu_len(burst) == AtMost(burst, MaxPpduPl + BaseHdr)

\* Room for ALPDU bytes in a CONT or END PPDU.
cont_end_room(burst) == max_ppdu_len(burst) - ContEndHdr

\* Mutant: the header is forgotten.
headless_CompPossible(b, burst) ==
  frag_buf_get_remaining_alpdu_length(b) <= max_ppdu_len(burst)

\* An unfragmented ALPDU fits a COMP PPDU.
CompPossible(b, burst) ==
  frag_buf_get_remaining_alpdu_length(b) + CompHdr <= max_ppdu_len(burst)

\* Mutant: room for a trailer is asked for as well.
greedy_StartPossible(b, burst) ==
  max_ppdu_len(burst) >= StartHdr + (b.sdu_start - b.alpdu_start) + CrcSize + 1

\* A START PPDU must hold the whole ALPDU header and a byte of SDU.
StartPossible(b, burst) ==
  max_ppdu_len(burst) >= StartHdr + (b.sdu_start - b.alpdu_start) + 1

\* What is left of the ALPDU fits an END PPDU.
EndPossible(b, burst) ==
  frag_buf_get_remaining_alpdu_length(b) <= cont_end_room(burst)

\* Mutant: a CONT PPDU takes bytes of the CRC.
split_trailer_frag_len(b, conf, burst) == cont_end_room(burst)

\* Bytes of ALPDU in a CONT PPDU: the room, but no byte of a CRC, which the
\* receiver wants whole in the END PPDU.
cont_alpdu_frag_len(b, conf, burst) ==
  LET overflow == frag_buf_get_remaining_alpdu_length(b) - cont_end_room(burst)
      trailer  == IF use_alpdu_crc(conf) THEN CrcSize ELSE 0
  IN IF overflow < trailer THEN cont_end_room(burst) - (trailer - overflow)
                           ELSE cont_end_room(burst)

\* Mutant: nothing is left for a CONT PPDU, which is built all the same.
lax_BurstTooSmall(b, conf, burst) ==
  \/ frag_buf_is_fragmented(b) /\ burst <= ContEndHdr
  \/ ~frag_buf_is_fragmented(b) /\ ~CompPossible(b, burst) /\ ~StartPossible(b, burst)

\* push_ppdu_hdr finds no PPDU to build in the burst.  The PPDU pointers of the
\* buffer have been moved by then.
BurstTooSmall(b, conf, burst) ==
  \/ frag_buf_is_fragmented(b) /\ burst <= ContEndHdr
  \/ /\ frag_buf_is_fragmented(b) /\ burst > ContEndHdr
     /\ ~EndPossible(b, burst)
     /\ cont_alpdu_frag_len(b, conf, burst) = 0
  \/ ~frag_buf_is_fragmented(b) /\ ~CompPossible(b, burst) /\ ~StartPossible(b, burst)

-----------------------------------------------------------------------------
(* States of a buffer *)

Offset == 0 .. FragBufLen

FragBuf ==
  [sdu_start : Offset, sdu_end : Offset, alpdu_start : Offset, alpdu_end : Offset,
   ppdu_start : Offset, ppdu_end : Offset, cur_pos : Offset, id : Nat,
   sdu_info : SduRecord, hdr : AlpduHdr,
   trailer : [kind : {"none", "crc", "seq"}, val : Nat]]

\* Layout of the buffer of a context in use: header, SDU and trailer are adjacent
\* where the SDU was copied.
Adjacent(b) ==
  /\ b.sdu_start = SduPos + b.hdr.cut
  /\ b.alpdu_start = b.sdu_start - b.hdr.len
  /\ b.sdu_end = SduPos + b.sdu_info.size
  /\ b.sdu_start < b.sdu_end
  /\ b.sdu_info.size <= MaxPdu

\* Nothing sent: no trailer yet.
Unsent(b) ==
  /\ b.cur_pos = b.alpdu_start
  /\ b.alpdu_end = b.sdu_end
  /\ b.trailer = NoTrailer

\* The START PPDU took the whole ALPDU header and some SDU, and no PPDU has taken
\* a byte of the trailer yet: the receiver reassembles neither a cut ALPDU
\* header nor a cut trailer.
PartlySent(b, conf) ==
  /\ b.sdu_start < b.cur_pos /\ b.cur_pos <= b.sdu_end
  /\ b.alpdu_end = b.sdu_end + alpdu_trailer_len(use_alpdu_crc(conf))
  /\ b.trailer.kind = IF use_alpdu_crc(conf) THEN "crc" ELSE "seq"
=============================================================================
