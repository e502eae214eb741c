---------------------------- MODULE RleReceiver ----------------------------
(***************************************************************************)
(* The RLE receiver: one reassembly context per fragment id, driven by the *)
(* PPDUs that rle_decapsulate finds in FPDUs (rle_receiver.c,              *)
(* reassembly.c, reassembly_buffer.[ch], trailer.c, header.c, rle_ctx.h).  *)
(*                                                                         *)
(* A PPDU is a record with the fields of its header (type, frag, len,      *)
(* total, use_crc, supp, label) and what it carries: the bytes             *)
(* lo .. hi - 1 of the ALPDU al = [id, frag, sdu, hdr, trailer].  The      *)
(* bytes of an SDU being reassembled are abstracted to one question: are   *)
(* they, in order, those of the ALPDU that the START PPDU belongs to?      *)
(***************************************************************************)
EXTENDS RleDefs, RleProtoType

CONSTANTS
  RxFragIds,     \* fragment ids (0 .. 7)
  RxConfs,       \* configurations given to rle_receiver_new
  RxPpdus(_),    \* PPDUs that may reach a receiver with the given configuration
  MaxRxRestarts, \* bound: times the receiver is destroyed and created again
  RxResets       \* fragment ids whose counters the caller may reset

VARIABLES
  rx_conf,       \* receiver->conf
  rx_free,       \* receiver->free_ctx, TRUE for a free context
  rx_seq,        \* rle_ctx_man[].next_seq_nb
  rx_seq_init,   \* receiver->is_ctx_seqnum_init
  rx_use_crc,    \* rle_ctx_man[].use_crc
  rx_rasm,       \* rle_ctx_man[].buff
  rx_current,    \* rle_ctx_man[].current_counter
  rx_stats,      \* rle_ctx_man[].lk_status
  rx_restarts,   \* restarts so far
  rx_ret,        \* status of the last rle_receiver_deencap_data, and its context
  rx_sdu,        \* SDU that it handed over, if any
  rx_abort       \* an assertion has failed

rx_vars == <<rx_conf, rx_free, rx_seq, rx_seq_init, rx_use_crc, rx_rasm, rx_current,
             rx_stats, rx_restarts, rx_ret, rx_sdu, rx_abort>>

PpduTypes == {"COMP", "START", "CONT", "END"}

Alpdu == [id : Nat, frag : Nat, sdu : SduRecord, hdr : AlpduHdr,
          trailer : [kind : {"none", "crc", "seq"}, val : Nat]]

Ppdu == [type : PpduTypes, frag : 0 .. 7, len : 0 .. MaxPpduPl, total : 0 .. TotalMod - 1,
         use_crc : BOOLEAN, supp : BOOLEAN, label : 0 .. 3, al : Alpdu, lo : Nat, hi : Nat]

\* What a receiver with the configuration conf finds in the ALPDU header of a COMP
\* or START PPDU.
extracted(ppdu, conf) ==
  alpdu_extract_sdu_frag(ppdu.supp, ppdu.label, ppdu.al.hdr, ppdu.al.sdu.ptype,
                         ppdu.al.sdu.nib0, carried(ppdu), conf)

\* PPDUs are those of a transmitter that follows the standard: at most as long as
\* it allows, as long as they announce, with a total length that leaves at least
\* one byte of SDU after the ALPDU header that the receiver finds.  Nothing is
\* assumed on which PPDUs arrive, in which order and how often.
WellFormed(ppdu, conf) ==
  /\ ppdu \in Ppdu
  /\ carried(ppdu) = ppdu.hi - ppdu.lo /\ ppdu.lo < ppdu.hi
  /\ ppdu.type \in {"COMP", "START"} => ppdu.lo = 0
  /\ ppdu.type = "START" =>
       ppdu.total > extracted(ppdu, conf).len + alpdu_trailer_len(ppdu.use_crc)

ASSUME RxAssumption ==
  /\ RxFragIds \subseteq 0 .. 7
  /\ RxConfs \subseteq ConfRecord
  /\ \A conf \in RxConfs : \A ppdu \in RxPpdus(conf) :
       /\ WellFormed(ppdu, conf)
       /\ ppdu.type # "COMP" => ppdu.frag \in RxFragIds
  /\ MaxRxRestarts \in Nat
  /\ RxResets \subseteq RxFragIds

\* Size of a reassembly buffer: any total length fits.
RasmBufLen == 2 * TotalMod - 1

-----------------------------------------------------------------------------
(* Reassembly buffers *)

NoStart == [type |-> "none"]

\* size and got: rasm_buf_get_sdu_len and rasm_buf_get_reassembled_sdu_len;
\* start: the START PPDU that opened the buffer; whole: the bytes received so far
\* are the first bytes of its SDU.
rasm_buf_init == [size |-> 0, got |-> 0, ptype |-> 0, comp |-> 0, hdr_len |-> 0,
                  start |-> NoStart, whole |-> FALSE]

\* rasm_buf_init_sdu_frag, rasm_buf_sdu_frag_put and rasm_buf_cpy_sdu_frag of the
\* first n bytes, from lo on, that the PPDU carries.
rasm_buf_add(b, ppdu, n) ==
  [b EXCEPT !.got = b.got + n,
            !.whole = /\ b.whole
                      /\ n = 0 \/ (ppdu.al = b.start.al /\ ppdu.lo = b.hdr_len + b.got)]

\* Mutant: the limit is one byte too far.
late_sdu_frag_fits(b, n) == b.got + n <= b.size + 1

\* n more bytes are not more than the SDU has.
sdu_frag_fits(b, n) == b.got + n <= b.size

\* Mutant: the last byte may be missing.
early_sdu_complete(b) == b.got + 1 >= b.size

sdu_complete(b) == b.got >= b.size

\* The assertions of rasm_buf_sdu_put, rasm_buf_sdu_frag_put and
\* rasm_buf_cpy_sdu_frag on a buffer to which a fragment was added.
rasm_asserts(b) == 0 < b.size /\ b.size <= RasmBufLen /\ b.got <= b.size

\* What a call hands over: the SDU, the ALPDU whose START PPDU (or COMP PPDU) it
\* comes from, and whether it is made of the bytes of that ALPDU only.
NoRxSdu == [some |-> FALSE]
HandOver(sdu, ppdu, whole) ==
  [some |-> TRUE, frag |-> ppdu.frag, comp |-> ppdu.type = "COMP",
   use_crc |-> ppdu.use_crc, total |-> ppdu.total, sdu |-> sdu, al |-> ppdu.al,
   whole |-> whole]

\* The SDUs that the bytes of a complete buffer may stand for, as sets of at most
\* one SDU, empty when reassembly_insert_vlan_ptype fails.  The bytes at the place
\* of the VLAN header of a mixture may be anything.
rebuilt_choices(b) ==
  LET al    == b.start.al
      whole == b.whole /\ b.size = al.sdu.size - al.hdr.cut
      x     == [ptype |-> b.ptype, comp |-> b.comp, len |-> b.hdr_len]
      Mixed(size) == HandOver([NoSdu EXCEPT !.ptype = b.ptype, !.size = size],
                              b.start, FALSE)
  IN IF whole
       THEN {{HandOver(sdu, b.start, TRUE) : sdu \in rebuilt_sdus(al.sdu, al.hdr, x)}}
     ELSE IF b.comp # RLE_PROTO_TYPE_VLAN_COMP_WO_PTYPE_FIELD
       THEN {{Mixed(b.size)}}
     ELSE {{}} \union (IF b.size >= EthVlanHdr - PtypeSize + 1
                         THEN {{Mixed(b.size + PtypeSize)}} ELSE {})

-----------------------------------------------------------------------------
(* check_alpdu_trailer *)

\* The CRC of the SDU is taken as perfect: it matches only the SDU for which the
\* transmitter computed it, protocol type included.
crc_matches(out, trailer) ==
  out.whole /\ out.sdu = out.al.sdu /\ trailer = out.al.trailer

\* Mutant: a later number is accepted too.
later_seq_no_accepted(f, received) ==
  ~rx_seq_init[f] \/ received >= rx_seq[f] \/ received = 0

\* Mutant: a transmitter that logs on again is not recognised.
strict_seq_no_accepted(f, received) == ~rx_seq_init[f] \/ received = rx_seq[f]

\* The first sequence number is accepted whatever it is, and zero always is: the
\* transmitter has logged on again.
seq_no_accepted(f, received) ==
  ~rx_seq_init[f] \/ received = rx_seq[f] \/ received = 0

\* (received_seq_no - next_seq_no) % RLE_MAX_SEQ_NO on C ints keeps the sign of
\* the difference, whose absolute value is below the modulus.
seq_no_lost(f, received) == IF seq_no_accepted(f, received) THEN 0 ELSE received - rx_seq[f]

\* Mutant: the result of the CRC comparison is not used.
lenient_trailer_accepted(f, out, trailer) ==
  rx_use_crc[f] \/ seq_no_accepted(f, trailer.val)

trailer_accepted(f, out, trailer) ==
  IF rx_use_crc[f] THEN crc_matches(out, trailer) ELSE seq_no_accepted(f, trailer.val)

trailer_lost(f, out, trailer) ==
  IF rx_use_crc[f] THEN (IF crc_matches(out, trailer) THEN 0 ELSE 1)
                   ELSE seq_no_lost(f, trailer.val)

-----------------------------------------------------------------------------
(* Statistics *)

NoRxStats == [in |-> 0, ok |-> 0, dropped |-> 0, lost |-> 0,
              bytes_in |-> 0, bytes_ok |-> 0, bytes_dropped |-> 0]

received(s, sdus, bytes) == [s EXCEPT !.in = incr_counter(@, sdus),
                                      !.bytes_in = incr_bytes(@, bytes)]

\* Counters of an error: times how often the error path adds to the SDUs and the
\* octets dropped, current the octets of the context's SDU.
dropped(s, times, lost, current) ==
  [s EXCEPT !.dropped = incr_counter(@, times),
            !.lost = incr_counter(@, lost),
            !.bytes_dropped = incr_bytes(@, times * current)]

delivered(s, size) == [s EXCEPT !.ok = incr_counter(@, 1),
                                !.bytes_ok = incr_bytes(@, size)]

-----------------------------------------------------------------------------
(* Actions: rle_receiver_deencap_data, one per type of PPDU and outcome.  On an *)
(* error rle_decapsulate frees the context once more.                           *)

\* rle_receiver_new
RxInit ==
  /\ rx_conf \in {c \in RxConfs : rle_config_check(c)}
  /\ rx_free = [f \in RxFragIds |-> TRUE]
  /\ rx_seq = [f \in RxFragIds |-> 0]
  /\ rx_seq_init = [f \in RxFragIds |-> FALSE]
  /\ rx_use_crc = [f \in RxFragIds |-> FALSE]
  /\ rx_rasm = [f \in RxFragIds |-> rasm_buf_init]
  /\ rx_current = [f \in RxFragIds |-> 0]
  /\ rx_stats = [f \in RxFragIds |-> NoRxStats]
  /\ rx_restarts = 0
  /\ rx_ret = [status |-> "none", frag |-> -1]
  /\ rx_sdu = NoRxSdu
  /\ rx_abort = FALSE

RxReturns(st, f, out) ==
  /\ ~rx_abort
  /\ rx_ret' = [status |-> st, frag |-> f]
  /\ rx_sdu' = out
  /\ UNCHANGED <<rx_conf, rx_restarts>>

\* Mutant: the context stays in use.
kept_context(f) == UNCHANGED rx_free

rle_receiver_free_context(f) == rx_free' = [rx_free EXCEPT ![f] = TRUE]

\* reassembly_comp_ppdu: no context is used.
RxComp(ppdu) ==
  /\ ppdu.type = "COMP"
  /\ LET out == rebuilt_sdus(ppdu.al.sdu, ppdu.al.hdr, extracted(ppdu, rx_conf))
     IN \/ out = {} /\ RxReturns("C_ERROR", -1, NoRxSdu)
        \/ \E sdu \in out : RxReturns("C_REASSEMBLY_OK", -1, HandOver(sdu, ppdu, TRUE))
  /\ UNCHANGED <<rx_free, rx_seq, rx_seq_init, rx_use_crc, rx_rasm, rx_current,
                 rx_stats, rx_abort>>

\* The error path of reassembly_start_ppdu and reassembly_cont_ppdu.
DropOne(f, s, current) ==
  /\ rx_stats' = [rx_stats EXCEPT ![f] = dropped(s, 1, 1, current)]
  /\ rle_receiver_free_context(f)
  /\ RxReturns("C_ERROR", f, NoRxSdu)

\* The checks of reassembly_start_ppdu: the length of the SDU is what remains of
\* the announced total, and the fragment is not longer.
start_trailer_fits(ppdu, x) ==
  /\ x.ptype # NoPtype
  /\ carried(ppdu) - x.len <= ppdu.total
  /\ alpdu_trailer_len(ppdu.use_crc) <= ppdu.total - x.len

\* Mutant: the ALPDU header is counted as SDU.
headed_start_sdu_len(ppdu, x) == ppdu.total - alpdu_trailer_len(ppdu.use_crc)

start_sdu_len(ppdu, x) == ppdu.total - x.len - alpdu_trailer_len(ppdu.use_crc)

\* reassembly_start_ppdu on a context in use, or with lengths that do not agree:
\* the SDU in the context and the new one are both gone.
RxStartError(ppdu) ==
  LET f == ppdu.frag
      x == extracted(ppdu, rx_conf)
      length == get_fragment_length(ppdu.len)
      busy == ~rx_free[f]
  IN /\ ppdu.type = "START"
     /\ \/ busy
        \/ ~start_trailer_fits(ppdu, x)
        \/ carried(ppdu) - x.len > start_sdu_len(ppdu, x)
     /\ rx_current' = [rx_current EXCEPT ![f] = length % BytesMod]
     /\ DropOne(f, received(rx_stats[f], 1, length), length)
     /\ rx_use_crc' = IF ~busy /\ start_trailer_fits(ppdu, x)
                        THEN [rx_use_crc EXCEPT ![f] = ppdu.use_crc] ELSE rx_use_crc
     /\ UNCHANGED <<rx_seq, rx_seq_init, rx_rasm, rx_abort>>

RxStart(ppdu) ==
  LET f == ppdu.frag
      x == extracted(ppdu, rx_conf)
      length == get_fragment_length(ppdu.len)
      size == start_sdu_len(ppdu, x)
      n == carried(ppdu) - x.len
      opened == [size |-> size, got |-> 0, ptype |-> x.ptype, comp |-> x.comp,
                 hdr_len |-> x.len, start |-> ppdu,
                 whole |-> x.len = ppdu.al.hdr.len]
  IN /\ ppdu.type = "START"
     /\ rx_free[f]
     /\ start_trailer_fits(ppdu, x)
     /\ n <= size
     /\ rx_current' = [rx_current EXCEPT ![f] = length % BytesMod]
     /\ rx_stats' = [rx_stats EXCEPT ![f] = received(@, 1, length)]
     /\ rx_free' = [rx_free EXCEPT ![f] = FALSE]
     /\ rx_use_crc' = [rx_use_crc EXCEPT ![f] = ppdu.use_crc]
     /\ rx_rasm' = [rx_rasm EXCEPT ![f] = rasm_buf_add(opened, [ppdu EXCEPT !.lo = x.len], n)]
     /\ rx_abort' = ~rasm_asserts(rx_rasm'[f])
     /\ RxReturns("C_OK", f, NoRxSdu)
     /\ UNCHANGED <<rx_seq, rx_seq_init>>

\* reassembly_cont_ppdu on a free context, or with more bytes than expected.
RxContError(ppdu) ==
  LET f == ppdu.frag
      length == get_fragment_length(ppdu.len)
      current == incr_bytes(rx_current[f], length)
  IN /\ ppdu.type = "CONT"
     /\ rx_free[f] \/ ~sdu_frag_fits(rx_rasm[f], carried(ppdu))
     /\ rx_current' = [rx_current EXCEPT ![f] = current]
     /\ DropOne(f, received(rx_stats[f], 0, length), current)
     /\ UNCHANGED <<rx_seq, rx_seq_init, rx_use_crc, rx_rasm, rx_abort>>

RxCont(ppdu) ==
  LET f == ppdu.frag
      length == get_fragment_length(ppdu.len)
      b == rasm_buf_add(rx_rasm[f], ppdu, carried(ppdu))
  IN /\ ppdu.type = "CONT"
     /\ ~rx_free[f]
     /\ sdu_frag_fits(rx_rasm[f], carried(ppdu))
     /\ rx_current' = [rx_current EXCEPT ![f] = incr_bytes(@, length)]
     /\ rx_stats' = [rx_stats EXCEPT ![f] = received(@, 0, length)]
     /\ rx_rasm' = [rx_rasm EXCEPT ![f] = b]
     /\ rx_abort' = ~rasm_asserts(b)
     /\ RxReturns("C_OK", f, NoRxSdu)
     /\ UNCHANGED <<rx_free, rx_seq, rx_seq_init, rx_use_crc>>

\* Every end of reassembly_end_ppdu frees the context; on an error the counters of
\* dropped SDUs and octets grow by times.
EndsWith(ppdu, st, out, times, lost) ==
  LET f == ppdu.frag
      length == get_fragment_length(ppdu.len)
      current == incr_bytes(rx_current[f], length)
      s == received(rx_stats[f], 0, length)
  IN /\ rx_current' = [rx_current EXCEPT ![f] = current]
     /\ rx_stats' = [rx_stats EXCEPT
          ![f] = IF st = "C_REASSEMBLY_OK" THEN delivered(s, out.sdu.size)
                                           ELSE dropped(s, times, lost, current)]
     /\ rle_receiver_free_context(f)
     /\ RxReturns(st, f, out)
     /\ UNCHANGED rx_use_crc

\* reassembly_end_ppdu on a free context: its own error handling, then the common one.
RxEndFree(ppdu) ==
  /\ ppdu.type = "END"
  /\ rx_free[ppdu.frag]
  /\ EndsWith(ppdu, "C_ERROR", NoRxSdu, 2, 1)
  /\ UNCHANGED <<rx_seq, rx_seq_init, rx_rasm, rx_abort>>

\* SDU bytes of an END PPDU.
end_sdu_len(ppdu) == carried(ppdu) - alpdu_trailer_len(rx_use_crc[ppdu.frag])

\* Too few bytes for the trailer, or more than expected.
RxEndRefused(ppdu) ==
  LET f == ppdu.frag
  IN /\ ppdu.type = "END"
     /\ ~rx_free[f]
     /\ end_sdu_len(ppdu) < 0 \/ ~sdu_frag_fits(rx_rasm[f], end_sdu_len(ppdu))
     /\ EndsWith(ppdu, "C_ERROR", NoRxSdu, 1, 0)
     /\ UNCHANGED <<rx_seq, rx_seq_init, rx_rasm, rx_abort>>

\* The buffer with the bytes of an END PPDU that is not refused.
end_buf(ppdu) == rasm_buf_add(rx_rasm[ppdu.frag], ppdu, end_sdu_len(ppdu))

EndAdds(ppdu) ==
  LET f == ppdu.frag
      b == end_buf(ppdu)
  IN /\ ppdu.type = "END"
     /\ ~rx_free[f]
     /\ end_sdu_len(ppdu) >= 0
     /\ sdu_frag_fits(rx_rasm[f], end_sdu_len(ppdu))
     /\ rx_rasm' = [rx_rasm EXCEPT ![f] = b]
     /\ rx_abort' = ~rasm_asserts(b)

RxEndShort(ppdu) ==
  /\ EndAdds(ppdu)
  /\ ~sdu_complete(end_buf(ppdu))
  /\ EndsWith(ppdu, "C_ERROR", NoRxSdu, 1, 0)
  /\ UNCHANGED <<rx_seq, rx_seq_init>>

\* The SDU is complete: the VLAN protocol field is put back if need be, then the
\* trailer is checked.  A sequence number synchronises the context, accepted or not.
RxEndComplete(ppdu) ==
  /\ EndAdds(ppdu)
  /\ sdu_complete(end_buf(ppdu))
  /\ \E outs \in rebuilt_choices(end_buf(ppdu)) :
       \/ /\ outs = {}
          /\ EndsWith(ppdu, "C_ERROR", NoRxSdu, 1, 0)
          /\ UNCHANGED <<rx_seq, rx_seq_init>>
       \/ \E out \in outs :
            LET f == ppdu.frag
                trailer == ppdu.al.trailer
                accepted == trailer_accepted(f, out, trailer)
            IN /\ EndsWith(ppdu, IF accepted THEN "C_REASSEMBLY_OK" ELSE "C_ERROR",
                           IF accepted THEN out ELSE NoRxSdu,
                           1, trailer_lost(f, out, trailer))
               /\ rx_seq_init' = [rx_seq_init EXCEPT ![f] = @ \/ ~rx_use_crc[f]]
               /\ rx_seq' = IF rx_use_crc[f] THEN rx_seq
                              ELSE [rx_seq EXCEPT ![f] = rle_ctx_incr_seq_nb(trailer.val)]

rle_receiver_deencap_data(ppdu) ==
  \/ RxComp(ppdu)
  \/ RxStart(ppdu) \/ RxStartError(ppdu)
  \/ RxCont(ppdu) \/ RxContError(ppdu)
  \/ RxEndFree(ppdu) \/ RxEndRefused(ppdu) \/ RxEndShort(ppdu) \/ RxEndComplete(ppdu)

\* rle_receiver_stats_reset_counters
RxResetCounters(f) ==
  /\ f \in RxResets
  /\ rx_stats' = [rx_stats EXCEPT ![f] = NoRxStats]
  /\ RxReturns("reset", f, NoRxSdu)
  /\ UNCHANGED <<rx_free, rx_seq, rx_seq_init, rx_use_crc, rx_rasm, rx_current, rx_abort>>

\* rle_receiver_destroy, then rle_receiver_new with the same configuration.
RxRestart ==
  /\ ~rx_abort
  /\ rx_restarts < MaxRxRestarts
  /\ rx_restarts' = rx_restarts + 1
  /\ rx_free' = [f \in RxFragIds |-> TRUE]
  /\ rx_seq' = [f \in RxFragIds |-> 0]
  /\ rx_seq_init' = [f \in RxFragIds |-> FALSE]
  /\ rx_use_crc' = [f \in RxFragIds |-> FALSE]
  /\ rx_rasm' = [f \in RxFragIds |-> rasm_buf_init]
  /\ rx_current' = [f \in RxFragIds |-> 0]
  /\ rx_stats' = [f \in RxFragIds |-> NoRxStats]
  /\ rx_ret' = [status |-> "new", frag |-> -1]
  /\ rx_sdu' = NoRxSdu
  /\ UNCHANGED <<rx_conf, rx_abort>>

RxNext ==
  \/ \E ppdu \in RxPpdus(rx_conf) : rle_receiver_deencap_data(ppdu)
  \/ \E f \in RxFragIds : RxResetCounters(f)
  \/ RxRestart

RxSpec == RxInit /\ [][RxNext]_rx_vars

-----------------------------------------------------------------------------
(* Properties *)

RxStats == [in : Nat, ok : Nat, dropped : Nat, lost : Nat,
            bytes_in : Nat, bytes_ok : Nat, bytes_dropped : Nat]

RasmBuf == [size : 0 .. RasmBufLen, got : 0 .. RasmBufLen, ptype : Nat, comp : 0 .. 255,
            hdr_len : 0 .. 3, start : Ppdu \union {NoStart}, whole : BOOLEAN]

\* Types of the state of a receiver.
RxTypeOK ==
  /\ rx_conf \in ConfRecord
  /\ rx_free \in [RxFragIds -> BOOLEAN]
  /\ rx_seq \in [RxFragIds -> 0 .. SeqMod - 1]
  /\ rx_seq_init \in [RxFragIds -> BOOLEAN]
  /\ rx_use_crc \in [RxFragIds -> BOOLEAN]
  /\ rx_rasm \in [RxFragIds -> RasmBuf]
  /\ rx_current \in [RxFragIds -> 0 .. BytesMod - 1]
  /\ rx_stats \in [RxFragIds -> RxStats]
  /\ rx_restarts \in Nat
  /\ rx_abort \in BOOLEAN

\* The buffer of a context in use belongs to the last START PPDU accepted on that
\* fragment id: it expects the SDU bytes which that PPDU announced, holds no more
\* than those, and will look for the trailer which that PPDU announced, whatever
\* CONT and END PPDUs came in between (reassembly_start_ppdu, reassembly_cont_ppdu).
RxBufOK ==
  \A f \in RxFragIds :
    ~rx_free[f] =>
      LET b == rx_rasm[f]
      IN /\ b.start.type = "START" /\ b.start.frag = f
         /\ b.size = b.start.total - b.hdr_len - alpdu_trailer_len(rx_use_crc[f])
         /\ rx_use_crc[f] = b.start.use_crc
         /\ 0 < b.size /\ b.got <= b.size

\* No assertion of the receiver can fail, in whatever order PPDUs arrive: no
\* fragment is copied past the end of the SDU or of the buffer, and an SDU of no
\* byte is never being reassembled (rasm_buf_sdu_frag_put, rasm_buf_cpy_sdu_frag).
RxAssertsHold == ~rx_abort

\* An SDU handed over at an END PPDU has been received to its last byte and has
\* the size that its START PPDU announced, with the two bytes of the VLAN
\* protocol field when it was put back (reassembly_end_ppdu).
HandedOverComplete ==
  rx_sdu.some /\ ~rx_sdu.comp =>
    LET b == rx_rasm[rx_sdu.frag]
        vlan == b.comp = RLE_PROTO_TYPE_VLAN_COMP_WO_PTYPE_FIELD
    IN /\ b.got = b.size
       /\ b.start.total = rx_sdu.total
       /\ rx_sdu.sdu.size = rx_sdu.total - b.hdr_len - alpdu_trailer_len(rx_sdu.use_crc)
                              + (IF vlan THEN PtypeSize ELSE 0)

\* With a CRC, the SDU handed over is the one that was sent, protocol type and VLAN
\* header included, however the PPDUs of several SDUs were lost, duplicated or
\* reordered (check_alpdu_trailer).
CrcProtects ==
  rx_sdu.some /\ ~rx_sdu.comp /\ rx_sdu.use_crc =>
    rx_sdu.whole /\ rx_sdu.sdu = rx_sdu.al.sdu
=============================================================================
