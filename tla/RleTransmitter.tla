--------------------------- MODULE RleTransmitter ---------------------------
(***************************************************************************)
(* The RLE transmitter: one fragmentation context per fragment id, each    *)
(* with its fragmentation buffer (encap.c, fragmentation.c, rle_ctx.[ch],  *)
(* rle_transmitter.c).  A failing assert() stops the program: tx_abort.    *)
(***************************************************************************)
EXTENDS RleFragBuf

CONSTANTS
  FragIds,      \* fragment ids (0 .. 7)
  TxSdus,       \* SDUs that the caller may encapsulate
  TxConfs,      \* configurations given to rle_transmitter_new
  Bursts,       \* burst sizes that the caller may ask PPDUs for
  MaxSdus,      \* bound: SDUs accepted in a behaviour
  MaxRestarts,  \* bound: times the transmitter is destroyed and created again
  TxResets      \* fragment ids whose counters the caller may reset

VARIABLES
  tx_conf,      \* transmitter->conf
  tx_free,      \* transmitter->free_ctx, TRUE for a free context
  tx_seq,       \* rle_ctx_man[].next_seq_nb
  tx_buf,       \* rle_ctx_man[].buff
  tx_stats,     \* rle_ctx_man[].lk_status
  tx_count,     \* SDUs accepted so far, which gives every SDU its identity
  tx_restarts,  \* restarts so far
  tx_ret,       \* status returned by the last call, and the burst it offered
  tx_ppdu,      \* PPDU returned by the last call, if any
  tx_sum,       \* per context, what the PPDUs of the current ALPDU say of it
  tx_abort      \* an assertion has failed

tx_vars == <<tx_conf, tx_free, tx_seq, tx_buf, tx_stats, tx_count, tx_restarts,
             tx_ret, tx_ppdu, tx_sum, tx_abort>>

ASSUME TxAssumption ==
  /\ FragIds \subseteq 0 .. 7
  /\ TxSdus \subseteq SduRecord
  /\ TxConfs \subseteq ConfRecord
  /\ Bursts \subseteq Nat
  /\ MaxSdus \in Nat
  /\ MaxRestarts \in Nat
  /\ TxResets \subseteq FragIds

-----------------------------------------------------------------------------
(* Actions: one per call of the API and outcome *)

NoStats == [in |-> 0, ok |-> 0, dropped |-> 0,
            bytes_in |-> 0, bytes_ok |-> 0, bytes_dropped |-> 0]

\* announced: the total length in the START PPDU of the current ALPDU, zero
\* before it; carried: the bytes of ALPDU that its PPDUs announced so far.
NoSum == [announced |-> 0, carried |-> 0]

\* rle_transmitter_new
TxInit ==
  /\ tx_conf \in {c \in TxConfs : rle_config_check(c)}
  /\ tx_free = [f \in FragIds |-> TRUE]
  /\ tx_seq = [f \in FragIds |-> 0]
  /\ tx_buf = [f \in FragIds |-> rle_frag_buf_init]
  /\ tx_stats = [f \in FragIds |-> NoStats]
  /\ tx_count = 0
  /\ tx_restarts = 0
  /\ tx_ret = [status |-> "none", burst |-> 0]
  /\ tx_ppdu = NoPpdu
  /\ tx_sum = [f \in FragIds |-> NoSum]
  /\ tx_abort = FALSE

\* A call that returns the status st after the offer of burst bytes, without PPDU.
Returns(st, burst) ==
  /\ ~tx_abort
  /\ tx_ret' = [status |-> st, burst |-> burst]
  /\ tx_ppdu' = NoPpdu
  /\ UNCHANGED <<tx_conf, tx_restarts>>

\* rle_transmitter_free_context
rle_transmitter_free_context(f) == tx_free' = [tx_free EXCEPT ![f] = TRUE]

\* rle_encapsulate of an empty or too long SDU: the context is freed, whatever
\* it was used for.
EncapTooBig(f, sdu) ==
  /\ sdu.size <= 0 \/ sdu.size > MaxPdu
  /\ rle_transmitter_free_context(f)
  /\ Returns("ENCAP_ERR_SDU_TOO_BIG", 0)
  /\ UNCHANGED <<tx_seq, tx_buf, tx_stats, tx_count, tx_sum, tx_abort>>

\* rle_encapsulate on a context that is in use.
EncapBusy(f, sdu) ==
  /\ 0 < sdu.size /\ sdu.size <= MaxPdu
  /\ ~tx_free[f]
  /\ Returns("ENCAP_ERR", 0)
  /\ UNCHANGED <<tx_free, tx_seq, tx_buf, tx_stats, tx_count, tx_sum, tx_abort>>

\* rle_encapsulate on a free context.
EncapOk(f, sdu) ==
  /\ 0 < sdu.size /\ sdu.size <= MaxPdu
  /\ tx_free[f]
  /\ tx_count < MaxSdus
  /\ LET b == encapsulated(sdu, tx_count + 1, tx_conf)
     IN /\ tx_buf' = [tx_buf EXCEPT ![f] = b]
        /\ tx_abort' = ~encap_asserts(b)
  /\ tx_free' = [tx_free EXCEPT ![f] = FALSE]
  /\ tx_count' = tx_count + 1
  /\ tx_stats' = [tx_stats EXCEPT ![f].in = incr_counter(@, 1),
                                  ![f].bytes_in = incr_bytes(@, sdu.size)]
  /\ tx_sum' = [tx_sum EXCEPT ![f] = NoSum]
  /\ Returns("ENCAP_OK", 0)
  /\ UNCHANGED tx_seq

rle_encapsulate(f, sdu) == EncapTooBig(f, sdu) \/ EncapBusy(f, sdu) \/ EncapOk(f, sdu)

\* rle_fragment on a free context.
FragFree(f, burst) ==
  /\ tx_free[f]
  /\ rle_transmitter_free_context(f)
  /\ Returns("FRAG_ERR_CONTEXT_IS_NULL", burst)
  /\ UNCHANGED <<tx_seq, tx_buf, tx_stats, tx_count, tx_sum, tx_abort>>

FragTooSmall(f, burst) ==
  /\ ~tx_free[f]
  /\ BurstTooSmall(tx_buf[f], tx_conf, burst)
  /\ tx_buf' = [tx_buf EXCEPT ![f] = frag_buf_ppdu_init(@)]
  /\ Returns("FRAG_ERR_BURST_TOO_SMALL", burst)
  /\ UNCHANGED <<tx_free, tx_seq, tx_stats, tx_count, tx_sum, tx_abort>>

\* rle_fragment returns a PPDU of the given type with size bytes, or what is left,
\* of the ALPDU in b; the context is freed with the last byte.
FragOk(f, burst, type, b, size) ==
  LET nb   == ppdu_put_push(b, size, PpduHdrLen(type))
      ppdu == push_ppdu_hdr(type, nb, f, tx_conf)
      done == alpdu_sent(nb)
  IN /\ ~tx_abort
     /\ ~tx_free[f]
     /\ ~BurstTooSmall(tx_buf[f], tx_conf, burst)
     /\ tx_buf' = [tx_buf EXCEPT ![f] = nb]
     /\ tx_free' = [tx_free EXCEPT ![f] = done]
     /\ tx_stats' = [tx_stats EXCEPT
                       ![f].ok = incr_counter(@, IF done THEN 1 ELSE 0),
                       ![f].bytes_ok = incr_bytes(@, frag_buf_get_current_ppdu_len(nb))]
     /\ tx_abort' = ~ppdu_asserts(b, size, nb)
     /\ tx_ret' = [status |-> "FRAG_OK", burst |-> burst]
     /\ tx_ppdu' = ppdu
     /\ tx_sum' = [tx_sum EXCEPT
                     ![f] = [announced |-> IF type = "START" THEN ppdu.total ELSE @.announced,
                             carried |-> @.carried + carried(ppdu)]]
     /\ UNCHANGED <<tx_conf, tx_count, tx_restarts>>

FragComp(f, burst) ==
  /\ ~frag_buf_is_fragmented(tx_buf[f])
  /\ CompPossible(tx_buf[f], burst)
  /\ FragOk(f, burst, "COMP", tx_buf[f], max_ppdu_len(burst) - CompHdr)
  /\ UNCHANGED tx_seq

\* The trailer is pushed with the START PPDU; a sequence number is used up.
FragStart(f, burst) ==
  /\ ~frag_buf_is_fragmented(tx_buf[f])
  /\ ~CompPossible(tx_buf[f], burst)
  /\ FragOk(f, burst, "START", push_alpdu_trailer(tx_buf[f], tx_conf, tx_seq[f]),
            max_ppdu_len(burst) - StartHdr)
  /\ tx_seq' = IF use_alpdu_crc(tx_conf) THEN tx_seq
                 ELSE [tx_seq EXCEPT ![f] = rle_ctx_incr_seq_nb(@)]

FragCont(f, burst) ==
  /\ frag_buf_is_fragmented(tx_buf[f])
  /\ ~EndPossible(tx_buf[f], burst)
  /\ FragOk(f, burst, "CONT", tx_buf[f], cont_alpdu_frag_len(tx_buf[f], tx_conf, burst))
  /\ UNCHANGED tx_seq

FragEnd(f, burst) ==
  /\ frag_buf_is_fragmented(tx_buf[f])
  /\ EndPossible(tx_buf[f], burst)
  /\ FragOk(f, burst, "END", tx_buf[f], frag_buf_get_remaining_alpdu_length(tx_buf[f]))
  /\ UNCHANGED tx_seq

rle_fragment(f, burst) ==
  \/ FragFree(f, burst) \/ FragTooSmall(f, burst)
  \/ FragComp(f, burst) \/ FragStart(f, burst)
  \/ FragCont(f, burst) \/ FragEnd(f, burst)

\* rle_transmitter_stats_reset_counters
TxResetCounters(f) ==
  /\ f \in TxResets
  /\ tx_stats' = [tx_stats EXCEPT ![f] = NoStats]
  /\ Returns("reset", 0)
  /\ UNCHANGED <<tx_free, tx_seq, tx_buf, tx_count, tx_sum, tx_abort>>

\* rle_transmitter_destroy, then rle_transmitter_new with the same configuration:
\* the terminal logs off and on again.
TxRestart ==
  /\ ~tx_abort
  /\ tx_restarts < MaxRestarts
  /\ tx_restarts' = tx_restarts + 1
  /\ tx_free' = [f \in FragIds |-> TRUE]
  /\ tx_seq' = [f \in FragIds |-> 0]
  /\ tx_buf' = [f \in FragIds |-> rle_frag_buf_init]
  /\ tx_stats' = [f \in FragIds |-> NoStats]
  /\ tx_sum' = [f \in FragIds |-> NoSum]
  /\ tx_ret' = [status |-> "new", burst |-> 0]
  /\ tx_ppdu' = NoPpdu
  /\ UNCHANGED <<tx_conf, tx_count, tx_abort>>

TxNext ==
  \/ \E f \in FragIds, sdu \in TxSdus : rle_encapsulate(f, sdu)
  \/ \E f \in FragIds, burst \in Bursts : rle_fragment(f, burst)
  \/ \E f \in FragIds : TxResetCounters(f)
  \/ TxRestart

TxSpec == TxInit /\ [][TxNext]_tx_vars

\* A burst that is never too small: START header, longest ALPDU header, one byte.
MinBurst == StartHdr + MaxAlpduHdr + 1

\* The library does nothing by itself: its caller keeps asking for PPDUs of every
\* context, and offers MinBurst bytes or more again and again.
TxFairness ==
  \A f \in FragIds :
    WF_tx_vars(\E burst \in {n \in Bursts : n >= MinBurst} : rle_fragment(f, burst))

TxFairSpec == TxSpec /\ TxFairness

-----------------------------------------------------------------------------
(* Properties *)

TxStats == [in : Nat, ok : Nat, dropped : Nat,
            bytes_in : Nat, bytes_ok : Nat, bytes_dropped : Nat]

\* Types of the state of a transmitter; every pointer of every fragmentation
\* buffer stays inside the buffer (frag_buf_ptrs_set, _push and _put).
TxTypeOK ==
  /\ tx_conf \in ConfRecord
  /\ tx_free \in [FragIds -> BOOLEAN]
  /\ tx_seq \in [FragIds -> 0 .. SeqMod - 1]
  /\ tx_buf \in [FragIds -> FragBuf]
  /\ tx_stats \in [FragIds -> TxStats]
  /\ tx_count \in Nat
  /\ tx_restarts \in Nat
  /\ tx_sum \in [FragIds -> [announced : Nat, carried : Int]]
  /\ tx_abort \in BOOLEAN

\* The buffer of every context in use is in one of those two states: whatever
\* bursts were offered, rle_fragment never leaves an ALPDU header or a CRC split
\* over two PPDUs (push_ppdu_hdr).
TxBufOK ==
  \A f \in FragIds :
    ~tx_free[f] => /\ Adjacent(tx_buf[f])
                   /\ Unsent(tx_buf[f]) \/ PartlySent(tx_buf[f], tx_conf)

\* No assertion of the transmitter can fail: pointers stay inside the buffer, no
\* PPDU without payload, no PPDU longer than the standard allows.
TxAssertsHold == ~tx_abort

\* The length fields tell the truth about the ALPDU: at any time the total length
\* announced in the START PPDU is what the PPDUs sent so far announced plus what
\* is left, so that it is their sum when the END PPDU is sent
\* (push_start_ppdu_hdr, rle_ppdu_hdr_set_ppdu_len).
TotalHonest ==
  /\ \A f \in FragIds :
       ~tx_free[f] /\ tx_sum[f].announced # 0 =>
         tx_sum[f].announced =
           tx_sum[f].carried + frag_buf_get_remaining_alpdu_length(tx_buf[f])
  /\ tx_ppdu.type = "END" =>
       tx_sum[tx_ppdu.frag].announced = tx_sum[tx_ppdu.frag].carried

\* A PPDU fits the burst it was asked for and the standard, announces exactly the
\* bytes it has, and has payload, so that its first two bytes are not taken for
\* padding by rle_decapsulate (rle_fragment).
PpduFits ==
  tx_ppdu # NoPpdu =>
    LET length == get_fragment_length(tx_ppdu.len)
    IN /\ length = PpduHdrLen(tx_ppdu.type) + tx_ppdu.hi - tx_ppdu.lo
       /\ length <= tx_ret.burst
       /\ length <= MaxPpduPl + BaseHdr
       /\ tx_ppdu.hi > tx_ppdu.lo

\* rle_transmitter_stats_get_queue_size
queue_size(f) == IF tx_free[f] THEN 0 ELSE frag_buf_get_remaining_alpdu_length(tx_buf[f])

\* rle.h: the queue size tells whether there is ALPDU data to fragment; a context
\* in use always has some (rle_fragment frees the context with the last byte).
QueueSizeTellsBusy == \A f \in FragIds : ~tx_free[f] => queue_size(f) > 0

\* A caller that offers MinBurst bytes or more is never told that the burst is too
\* small, wherever the fragmentation stands (push_ppdu_hdr).
MinBurstSuffices ==
  tx_ret.status = "FRAG_ERR_BURST_TOO_SMALL" => tx_ret.burst < MinBurst

\* Under that fairness every SDU accepted by rle_encapsulate leaves its context,
\* whatever too small bursts and refused SDUs come in between.
TxDrains == \A f \in FragIds : ~tx_free[f] ~> tx_free[f]

\* rle.h: sdus_in counts the SDUs received for sending, sdus_sent those sent and
\* sdus_dropped those dropped, for instance during encapsulation: every SDU taken
\* in is sent, dropped or still in its context.
TxSdusAccounted ==
  \A f \in FragIds :
    tx_stats[f].in = tx_stats[f].ok + tx_stats[f].dropped + (IF tx_free[f] THEN 0 ELSE 1)
=============================================================================
