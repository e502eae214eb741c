------------------------ MODULE RleTransmitterProofs ------------------------
(***************************************************************************)
(* Proofs about the transmitter, for every size of SDU, PPDU, burst and    *)
(* counter that LimitsAssumption and TxAssumption allow.                   *)
(*                                                                         *)
(* What the operations make of a buffer (RleFragBufProofs) makes TxInv     *)
(* inductive (InitInv, NextInv).  The second part is about the length      *)
(* fields of PPDUs: each one announces what it carries (PpduFits), and     *)
(* together they carry what their START PPDU announced (TotalHonest).      *)
(***************************************************************************)
EXTENDS RleTransmitter, RleFragBufProofs

USE DEF CompHdr, StartHdr, ContEndHdr, BaseHdr, MaxAlpduHdr, CrcSize, SeqSize

\* The inductive invariant: no part of it is inductive alone, since the pointers
\* stay inside the buffer only because of its layout, and the layout is kept only
\* because no PPDU is built that an assertion would refuse.
TxInv == TxTypeOK /\ TxBufOK /\ TxAssertsHold

\* The unsigned additions on counters stay unsigned.
LEMMA Counters ==
  ASSUME NEW counter \in Nat, NEW val \in Int
  PROVE  incr_counter(counter, val) \in Nat /\ incr_bytes(counter, val) \in Nat
  BY LimitsAssumption DEF incr_counter, incr_bytes

\* rle_transmitter_new establishes the invariant.
LEMMA InitInv == TxInit => TxInv
<1> SUFFICES ASSUME TxInit PROVE TxInv
  OBVIOUS
<1>1. SeqMod \in Nat \ {0}
  BY LimitsAssumption
<1>2. TxConfs \subseteq ConfRecord
  BY TxAssumption
<1>3. NoStats \in TxStats /\ NoSum \in [announced : Nat, carried : Int]
  BY DEF NoStats, TxStats, NoSum
<1>4. TxTypeOK
  <2>1. tx_conf \in ConfRecord
    BY <1>2 DEF TxInit
  <2>2. tx_free \in [FragIds -> BOOLEAN] /\ tx_abort \in BOOLEAN
    BY DEF TxInit
  <2>3. tx_seq \in [FragIds -> 0 .. SeqMod - 1]
    BY <1>1 DEF TxInit
  <2>4. tx_buf \in [FragIds -> FragBuf]
    BY InitialBuf DEF TxInit
  <2>5. tx_stats \in [FragIds -> TxStats]
    BY <1>3 DEF TxInit
  <2>6. tx_sum \in [FragIds -> [announced : Nat, carried : Int]]
    BY <1>3 DEF TxInit
  <2>7. tx_count \in Nat /\ tx_restarts \in Nat
    BY DEF TxInit
  <2> QED
    BY <2>1, <2>2, <2>3, <2>4, <2>5, <2>6, <2>7 DEF TxTypeOK
<1>5. TxBufOK /\ TxAssertsHold
  BY DEF TxInit, TxBufOK, TxAssertsHold
<1> QED
  BY <1>4, <1>5 DEF TxInv

\* A context in use is either not fragmented and unsent, or partly sent.
LEMMA Fragmented ==
  ASSUME TxInv, NEW f \in FragIds, ~tx_free[f]
  PROVE  /\ tx_buf[f] \in FragBuf /\ Adjacent(tx_buf[f])
         /\ frag_buf_is_fragmented(tx_buf[f]) => PartlySent(tx_buf[f], tx_conf)
         /\ ~frag_buf_is_fragmented(tx_buf[f]) => Unsent(tx_buf[f])
<1>1. tx_buf[f] \in FragBuf /\ Adjacent(tx_buf[f])
  BY DEF TxInv, TxTypeOK, TxBufOK
<1>2. Unsent(tx_buf[f]) \/ PartlySent(tx_buf[f], tx_conf)
  BY DEF TxInv, TxBufOK
<1>3. Unsent(tx_buf[f]) => ~frag_buf_is_fragmented(tx_buf[f])
  BY <1>1, BufBounds DEF Unsent, frag_buf_is_fragmented
<1>4. PartlySent(tx_buf[f], tx_conf) => frag_buf_is_fragmented(tx_buf[f])
  BY <1>1, BufBounds DEF PartlySent, frag_buf_is_fragmented
<1> QED
  BY <1>1, <1>2, <1>3, <1>4

\* What a PPDU says of its lengths is a number.
LEMMA PpduNumbers ==
  ASSUME NEW type \in {"COMP", "START", "CONT", "END"}, NEW b \in FragBuf,
         NEW f, NEW conf
  PROVE  LET ppdu == push_ppdu_hdr(type, b, f, conf)
         IN ppdu.total \in Nat /\ carried(ppdu) \in Int
<1>1. /\ b.ppdu_end - b.ppdu_start - 2 \in Int
      /\ b.alpdu_end - b.alpdu_start \in Int
  BY DEF FragBuf, Offset
<1>2. LenMod \in Nat \ {0} /\ TotalMod \in Nat \ {0}
  BY LimitsAssumption
<1>3. /\ (b.ppdu_end - b.ppdu_start - 2) % LenMod \in Nat
      /\ (b.alpdu_end - b.alpdu_start) % TotalMod \in Nat
  BY <1>1, <1>2
<1> QED
  BY <1>3 DEF push_ppdu_hdr, carried, get_fragment_length, rle_ppdu_hdr_set_ppdu_len,
              frag_buf_get_current_ppdu_len, total_len, PpduHdrLen,
              rle_ppdu_hdr_start_set_total_len

\* rle_fragment returns a PPDU of the given type: it takes size bytes of the buffer b
\* of the context f, for which FragmentOk holds.
Builds(f, burst, type, b, size) ==
  /\ FragOk(f, burst, type, b, size)
  /\ b \in FragBuf /\ burst \in Nat
  /\ FragmentOk(b, tx_conf, size, PpduHdrLen(type), burst)

\* A COMP PPDU takes a whole unsent ALPDU.
LEMMA CompBuilds ==
  ASSUME TxInv, NEW f \in FragIds, NEW burst \in Bursts, FragComp(f, burst)
  PROVE  LET size == max_ppdu_len(burst) - CompHdr
         IN /\ Builds(f, burst, "COMP", tx_buf[f], size)
            /\ alpdu_sent(ppdu_put_push(tx_buf[f], size, 2))
<1> DEFINE size == max_ppdu_len(burst) - CompHdr
<1>1. burst \in Nat
  BY TxAssumption
<1>2. /\ ~tx_free[f] /\ FragOk(f, burst, "COMP", tx_buf[f], size)
      /\ ~frag_buf_is_fragmented(tx_buf[f]) /\ CompPossible(tx_buf[f], burst)
  BY DEF FragComp, FragOk
<1>3. tx_buf[f] \in FragBuf /\ Adjacent(tx_buf[f]) /\ Unsent(tx_buf[f])
  BY <1>2, Fragmented
<1>4. /\ FragmentOk(tx_buf[f], tx_conf, size, 2, burst)
      /\ alpdu_sent(ppdu_put_push(tx_buf[f], size, 2))
  BY <1>1, <1>2, <1>3, CompFragment
<1>5. PpduHdrLen("COMP") = 2
  BY DEF PpduHdrLen
<1> HIDE DEF size
<1> QED
  BY <1>1, <1>2, <1>3, <1>4, <1>5 DEF Builds, size

\* A START PPDU begins an unsent ALPDU, whose trailer has just been pushed.
LEMMA StartBuilds ==
  ASSUME TxInv, NEW f \in FragIds, NEW burst \in Bursts, FragStart(f, burst)
  PROVE  LET bt   == push_alpdu_trailer(tx_buf[f], tx_conf, tx_seq[f])
             size == max_ppdu_len(burst) - StartHdr
             nb   == ppdu_put_push(bt, size, 4)
         IN /\ Builds(f, burst, "START", bt, size)
            /\ Adjacent(tx_buf[f]) /\ Unsent(tx_buf[f])
            /\ PartlySent(nb, tx_conf) /\ ~alpdu_sent(nb)
<1> DEFINE bt == push_alpdu_trailer(tx_buf[f], tx_conf, tx_seq[f])
           size == max_ppdu_len(burst) - StartHdr
<1>1. burst \in Nat /\ tx_seq[f] \in Nat
  BY TxAssumption, LimitsAssumption DEF TxInv, TxTypeOK
<1>2. /\ ~tx_free[f] /\ FragOk(f, burst, "START", bt, size)
      /\ ~frag_buf_is_fragmented(tx_buf[f])
      /\ ~CompPossible(tx_buf[f], burst) /\ StartPossible(tx_buf[f], burst)
  BY DEF FragStart, FragOk, BurstTooSmall
<1>3. tx_buf[f] \in FragBuf /\ Adjacent(tx_buf[f]) /\ Unsent(tx_buf[f])
  BY <1>2, Fragmented
<1>4. /\ bt \in FragBuf /\ FragmentOk(bt, tx_conf, size, 4, burst)
      /\ PartlySent(ppdu_put_push(bt, size, 4), tx_conf)
      /\ ~alpdu_sent(ppdu_put_push(bt, size, 4))
  BY <1>1, <1>2, <1>3, StartFragment
<1>5. PpduHdrLen("START") = 4
  BY DEF PpduHdrLen
<1> HIDE DEF bt, size
<1> QED
  BY <1>1, <1>2, <1>3, <1>4, <1>5 DEF Builds, bt, size

\* A CONT PPDU continues a partly sent ALPDU.
LEMMA ContBuilds ==
  ASSUME TxInv, NEW f \in FragIds, NEW burst \in Bursts, FragCont(f, burst)
  PROVE  LET size == cont_alpdu_frag_len(tx_buf[f], tx_conf, burst)
             nb   == ppdu_put_push(tx_buf[f], size, 2)
         IN /\ Builds(f, burst, "CONT", tx_buf[f], size)
            /\ frag_buf_is_fragmented(tx_buf[f])
            /\ PartlySent(nb, tx_conf) /\ ~alpdu_sent(nb)
<1> DEFINE size == cont_alpdu_frag_len(tx_buf[f], tx_conf, burst)
<1>1. burst \in Nat
  BY TxAssumption
<1>2. /\ ~tx_free[f] /\ FragOk(f, burst, "CONT", tx_buf[f], size)
      /\ frag_buf_is_fragmented(tx_buf[f]) /\ ~EndPossible(tx_buf[f], burst)
      /\ ~(burst <= 2) /\ (burst > 2 => size # 0)
  BY DEF FragCont, FragOk, BurstTooSmall
<1>3. tx_buf[f] \in FragBuf /\ Adjacent(tx_buf[f]) /\ PartlySent(tx_buf[f], tx_conf)
  BY <1>2, Fragmented
<1>4. /\ FragmentOk(tx_buf[f], tx_conf, size, 2, burst)
      /\ PartlySent(ppdu_put_push(tx_buf[f], size, 2), tx_conf)
      /\ ~alpdu_sent(ppdu_put_push(tx_buf[f], size, 2))
  BY <1>1, <1>2, <1>3, ContFragment
<1>5. PpduHdrLen("CONT") = 2
  BY DEF PpduHdrLen
<1> HIDE DEF size
<1> QED
  BY <1>1, <1>2, <1>3, <1>4, <1>5 DEF Builds, size

\* An END PPDU takes what is left of a partly sent ALPDU.
LEMMA EndBuilds ==
  ASSUME TxInv, NEW f \in FragIds, NEW burst \in Bursts, FragEnd(f, burst)
  PROVE  LET size == frag_buf_get_remaining_alpdu_length(tx_buf[f])
         IN /\ Builds(f, burst, "END", tx_buf[f], size)
            /\ alpdu_sent(ppdu_put_push(tx_buf[f], size, 2))
            /\ frag_buf_is_fragmented(tx_buf[f])
<1> DEFINE size == frag_buf_get_remaining_alpdu_length(tx_buf[f])
<1>1. burst \in Nat
  BY TxAssumption
<1>2. /\ ~tx_free[f] /\ FragOk(f, burst, "END", tx_buf[f], size)
      /\ frag_buf_is_fragmented(tx_buf[f]) /\ EndPossible(tx_buf[f], burst)
  BY DEF FragEnd, FragOk
<1>3. tx_buf[f] \in FragBuf /\ Adjacent(tx_buf[f]) /\ PartlySent(tx_buf[f], tx_conf)
  BY <1>2, Fragmented
<1>4. /\ FragmentOk(tx_buf[f], tx_conf, size, 2, burst)
      /\ alpdu_sent(ppdu_put_push(tx_buf[f], size, 2))
  BY <1>1, <1>2, <1>3, EndFragment
<1>5. PpduHdrLen("END") = 2
  BY DEF PpduHdrLen
<1> HIDE DEF size
<1> QED
  BY <1>1, <1>2, <1>3, <1>4, <1>5 DEF Builds, size

\* Every PPDU that rle_fragment builds keeps the invariant.
LEMMA FragOkInv ==
  ASSUME TxInv, NEW f \in FragIds, NEW burst, NEW b, NEW size,
         NEW type \in {"COMP", "START", "CONT", "END"},
         Builds(f, burst, type, b, size),
         tx_seq' \in [FragIds -> 0 .. SeqMod - 1]
  PROVE  TxInv'
<1> DEFINE nb == ppdu_put_push(b, size, PpduHdrLen(type))
           ppdu == push_ppdu_hdr(type, nb, f, tx_conf)
           len == frag_buf_get_current_ppdu_len(nb)
           one == IF alpdu_sent(nb) THEN 1 ELSE 0
           ann == IF type = "START" THEN ppdu.total ELSE tx_sum[f].announced
           sum == tx_sum[f].carried + carried(ppdu)
<1>1. /\ nb \in FragBuf
      /\ alpdu_sent(nb) \/ (Adjacent(nb) /\ PartlySent(nb, tx_conf))
      /\ ppdu_asserts(b, size, nb)
  BY DEF Builds, FragmentOk
<1>2. /\ tx_buf' = [tx_buf EXCEPT ![f] = nb]
      /\ tx_free' = [tx_free EXCEPT ![f] = alpdu_sent(nb)]
      /\ tx_conf' = tx_conf /\ tx_count' = tx_count /\ tx_restarts' = tx_restarts
      /\ tx_abort' = ~ppdu_asserts(b, size, nb)
      /\ tx_stats' = [tx_stats EXCEPT ![f].ok = incr_counter(@, one),
                                      ![f].bytes_ok = incr_bytes(@, len)]
      /\ tx_sum' = [tx_sum EXCEPT ![f] = [announced |-> ann, carried |-> sum]]
  BY DEF Builds, FragOk
<1>3. ppdu.total \in Nat /\ carried(ppdu) \in Int
  BY <1>1, PpduNumbers
<1>4. len \in Int /\ one \in Int
  BY <1>1 DEF frag_buf_get_current_ppdu_len, FragBuf, Offset
<1>5. alpdu_sent(nb) \in BOOLEAN
  BY DEF alpdu_sent
<1> HIDE DEF nb, ppdu, len, one, ann, sum
<1>6. tx_stats' \in [FragIds -> TxStats]
  <2>1. tx_stats \in [FragIds -> TxStats]
    BY DEF TxInv, TxTypeOK
  <2>2. tx_stats[f].ok \in Nat /\ tx_stats[f].bytes_ok \in Nat
    BY <2>1 DEF TxStats
  <2>3. incr_counter(tx_stats[f].ok, one) \in Nat
    BY <1>4, <2>2, Counters
  <2>4. incr_bytes(tx_stats[f].bytes_ok, len) \in Nat
    BY <1>4, <2>2, Counters
  <2> QED
    BY <1>2, <2>1, <2>3, <2>4 DEF TxStats
<1>7. tx_sum' \in [FragIds -> [announced : Nat, carried : Int]]
  <2>1. tx_sum \in [FragIds -> [announced : Nat, carried : Int]]
    BY DEF TxInv, TxTypeOK
  <2>2. ann \in Nat /\ sum \in Int
    BY <1>3, <2>1 DEF ann, sum
  <2> QED
    BY <1>2, <2>1, <2>2
<1>8. TxTypeOK'
  BY <1>1, <1>2, <1>5, <1>6, <1>7 DEF TxInv, TxTypeOK
<1>9. TxBufOK'
  BY <1>1, <1>2, <1>5 DEF TxInv, TxTypeOK, TxBufOK
<1>10. TxAssertsHold'
  BY <1>1, <1>2 DEF TxAssertsHold
<1> QED
  BY <1>8, <1>9, <1>10 DEF TxInv

\* Refused SDUs leave the invariant alone: freeing a context asks nothing of it.
LEMMA FreedInv ==
  ASSUME TxInv, NEW f \in FragIds,
         tx_free' = [tx_free EXCEPT ![f] = TRUE],
         UNCHANGED <<tx_conf, tx_seq, tx_buf, tx_stats, tx_count, tx_restarts,
                     tx_sum, tx_abort>>
  PROVE  TxInv'
<1>1. TxTypeOK'
  BY DEF TxInv, TxTypeOK
<1>2. TxBufOK'
  BY DEF TxInv, TxTypeOK, TxBufOK
<1>3. TxAssertsHold'
  BY DEF TxInv, TxAssertsHold
<1> QED
  BY <1>1, <1>2, <1>3 DEF TxInv

\* An accepted SDU: rle_encapsulate makes an unsent buffer of it.
LEMMA EncapOkInv ==
  ASSUME TxInv, NEW f \in FragIds, NEW sdu \in TxSdus, EncapOk(f, sdu)
  PROVE  TxInv'
<1> DEFINE b == encapsulated(sdu, tx_count + 1, tx_conf)
<1>1. /\ sdu \in SduRecord /\ tx_conf \in ConfRecord /\ tx_count + 1 \in Nat
      /\ sdu.size \in Int
  BY TxAssumption DEF TxInv, TxTypeOK, SduRecord
<1>2. b \in FragBuf /\ Adjacent(b) /\ Unsent(b) /\ encap_asserts(b)
  BY <1>1, EncapsulatedBuf DEF EncapOk
<1>3. /\ tx_buf' = [tx_buf EXCEPT ![f] = b]
      /\ tx_free' = [tx_free EXCEPT ![f] = FALSE]
      /\ tx_abort' = ~encap_asserts(b)
      /\ tx_count' = tx_count + 1
      /\ tx_stats' = [tx_stats EXCEPT ![f].in = incr_counter(@, 1),
                                      ![f].bytes_in = incr_bytes(@, sdu.size)]
      /\ tx_sum' = [tx_sum EXCEPT ![f] = NoSum]
      /\ tx_seq' = tx_seq /\ tx_conf' = tx_conf /\ tx_restarts' = tx_restarts
  BY DEF EncapOk, Returns
<1> HIDE DEF b
<1>4. tx_stats' \in [FragIds -> TxStats]
  <2>1. tx_stats \in [FragIds -> TxStats]
    BY DEF TxInv, TxTypeOK
  <2>2. tx_stats[f].in \in Nat /\ tx_stats[f].bytes_in \in Nat
    BY <2>1 DEF TxStats
  <2>3. incr_counter(tx_stats[f].in, 1) \in Nat
    BY <2>2, 1 \in Int, Counters
  <2>4. incr_bytes(tx_stats[f].bytes_in, sdu.size) \in Nat
    BY <1>1, <2>2, Counters
  <2> QED
    BY <1>3, <2>1, <2>3, <2>4 DEF TxStats
<1>5. tx_sum' \in [FragIds -> [announced : Nat, carried : Int]]
  BY <1>3 DEF TxInv, TxTypeOK, NoSum
<1>6. TxTypeOK'
  BY <1>1, <1>2, <1>3, <1>4, <1>5 DEF TxInv, TxTypeOK
<1>7. TxBufOK'
  BY <1>2, <1>3 DEF TxInv, TxTypeOK, TxBufOK
<1>8. TxAssertsHold'
  BY <1>2, <1>3 DEF TxAssertsHold
<1> QED
  BY <1>6, <1>7, <1>8 DEF TxInv

\* A burst that is too small only moves the PPDU pointers, which the layout of the
\* buffer does not depend on.
LEMMA FragTooSmallInv ==
  ASSUME TxInv, NEW f \in FragIds, NEW burst, FragTooSmall(f, burst)
  PROVE  TxInv'
<1> DEFINE b  == tx_buf[f]
           nb == frag_buf_ppdu_init(b)
<1>1. b \in FragBuf
  BY DEF TxInv, TxTypeOK
<1>2. /\ nb \in FragBuf
      /\ nb.cur_pos = b.cur_pos /\ nb.sdu_start = b.sdu_start /\ nb.sdu_end = b.sdu_end
      /\ nb.alpdu_start = b.alpdu_start /\ nb.alpdu_end = b.alpdu_end
      /\ nb.sdu_info = b.sdu_info /\ nb.hdr = b.hdr /\ nb.trailer = b.trailer
  BY <1>1 DEF frag_buf_ppdu_init, FragBuf
<1>3. /\ tx_buf' = [tx_buf EXCEPT ![f] = nb]
      /\ ~tx_free[f]
      /\ UNCHANGED <<tx_conf, tx_free, tx_seq, tx_stats, tx_count, tx_restarts,
                     tx_sum, tx_abort>>
  BY DEF FragTooSmall, Returns
<1>4. /\ Adjacent(nb)
      /\ Unsent(nb) \/ PartlySent(nb, tx_conf)
  BY <1>2, <1>3 DEF TxInv, TxBufOK, Adjacent, Unsent, PartlySent
<1> HIDE DEF b, nb
<1>5. TxTypeOK'
  BY <1>2, <1>3 DEF TxInv, TxTypeOK
<1>6. TxBufOK'
  BY <1>3, <1>4 DEF TxInv, TxTypeOK, TxBufOK
<1>7. TxAssertsHold'
  BY <1>3 DEF TxInv, TxAssertsHold
<1> QED
  BY <1>5, <1>6, <1>7 DEF TxInv

\* Every step of the transmitter keeps the invariant.
LEMMA NextInv == TxInv /\ [TxNext]_tx_vars => TxInv'
<1> SUFFICES ASSUME TxInv, [TxNext]_tx_vars PROVE TxInv'
  OBVIOUS
<1>1. ASSUME NEW f \in FragIds, NEW sdu \in TxSdus, EncapTooBig(f, sdu) PROVE TxInv'
  BY <1>1, FreedInv DEF EncapTooBig, Returns, rle_transmitter_free_context
<1>2. ASSUME NEW f \in FragIds, NEW sdu \in TxSdus, EncapBusy(f, sdu) PROVE TxInv'
  BY <1>2 DEF EncapBusy, Returns, TxInv, TxTypeOK, TxBufOK, TxAssertsHold
<1>3. ASSUME NEW f \in FragIds, NEW sdu \in TxSdus, EncapOk(f, sdu) PROVE TxInv'
  BY <1>3, EncapOkInv
<1>4. ASSUME NEW f \in FragIds, NEW burst \in Bursts, FragFree(f, burst) PROVE TxInv'
  BY <1>4, FreedInv DEF FragFree, Returns, rle_transmitter_free_context
<1>5. ASSUME NEW f \in FragIds, NEW burst \in Bursts, FragTooSmall(f, burst) PROVE TxInv'
  BY <1>5, FragTooSmallInv
<1>6. tx_seq \in [FragIds -> 0 .. SeqMod - 1]
  BY DEF TxInv, TxTypeOK
<1>7. ASSUME NEW f \in FragIds, NEW burst \in Bursts, FragComp(f, burst) PROVE TxInv'
  BY <1>6, <1>7, CompBuilds, FragOkInv DEF FragComp
<1>8. ASSUME NEW f \in FragIds, NEW burst \in Bursts, FragStart(f, burst) PROVE TxInv'
  <2>1. tx_seq[f] \in Nat /\ SeqMod \in Nat \ {0}
    BY <1>6, LimitsAssumption
  <2>2. rle_ctx_incr_seq_nb(tx_seq[f]) \in 0 .. SeqMod - 1
    BY <2>1 DEF rle_ctx_incr_seq_nb
  <2>3. tx_seq' \in [FragIds -> 0 .. SeqMod - 1]
    BY <1>6, <1>8, <2>2 DEF FragStart
  <2> QED
    BY <1>8, <2>3, StartBuilds, FragOkInv
<1>9. ASSUME NEW f \in FragIds, NEW burst \in Bursts, FragCont(f, burst) PROVE TxInv'
  BY <1>6, <1>9, ContBuilds, FragOkInv DEF FragCont
<1>10. ASSUME NEW f \in FragIds, NEW burst \in Bursts, FragEnd(f, burst) PROVE TxInv'
  BY <1>6, <1>10, EndBuilds, FragOkInv DEF FragEnd
<1>11. ASSUME NEW f \in FragIds, TxResetCounters(f) PROVE TxInv'
  BY <1>11 DEF TxResetCounters, Returns, TxInv, TxTypeOK, TxBufOK, TxAssertsHold,
               NoStats, TxStats
<1>12. CASE TxRestart
  <2>1. NoStats \in TxStats /\ NoSum \in [announced : Nat, carried : Int]
    BY DEF NoStats, TxStats, NoSum
  <2>2. SeqMod \in Nat \ {0}
    BY LimitsAssumption
  <2>3. tx_buf' \in [FragIds -> FragBuf]
    BY <1>12, InitialBuf DEF TxRestart
  <2>4. tx_seq' \in [FragIds -> 0 .. SeqMod - 1]
    BY <1>12, <2>2 DEF TxRestart
  <2>5. /\ tx_free' = [f \in FragIds |-> TRUE]
        /\ tx_stats' \in [FragIds -> TxStats]
        /\ tx_sum' \in [FragIds -> [announced : Nat, carried : Int]]
        /\ tx_restarts' \in Nat
        /\ UNCHANGED <<tx_conf, tx_count, tx_abort>>
    BY <1>12, <2>1 DEF TxRestart, TxInv, TxTypeOK
  <2> QED
    BY <2>3, <2>4, <2>5 DEF TxInv, TxTypeOK, TxBufOK, TxAssertsHold
<1>13. CASE UNCHANGED tx_vars
  BY <1>13 DEF tx_vars, TxInv, TxTypeOK, TxBufOK, TxAssertsHold
<1> QED
  BY <1>1, <1>2, <1>3, <1>4, <1>5, <1>7, <1>8, <1>9, <1>10, <1>11, <1>12, <1>13
     DEF TxNext, rle_encapsulate, rle_fragment

\* The invariant holds in every state of every transmitter.
LEMMA AlwaysInv == TxSpec => []TxInv
  BY InitInv, NextInv, PTL DEF TxSpec

\* A transmitter, whatever is asked of it in whatever order, keeps every pointer of
\* every fragmentation buffer inside the buffer (frag_buf_ptrs_set, _push, _put)
\* and its sequence numbers below RLE_MAX_SEQ_NO (rle_ctx_incr_seq_nb).
THEOREM TxTypeCorrect == TxSpec => []TxTypeOK
  BY AlwaysInv, PTL DEF TxInv

\* No sequence of bursts makes rle_fragment leave an ALPDU header or a trailer
\* split over two PPDUs (push_ppdu_hdr).
THEOREM TxBufCorrect == TxSpec => []TxBufOK
  BY AlwaysInv, PTL DEF TxInv

\* No assertion of rle_encapsulate and rle_fragment can fail.
THEOREM TxNeverAborts == TxSpec => []TxAssertsHold
  BY AlwaysInv, PTL DEF TxInv

\* A context in use has bytes left, so that the queue size that
\* rle_transmitter_stats_get_queue_size returns tells it from a free one.
THEOREM TxQueueSize == TxSpec => []QueueSizeTellsBusy
<1>1. TxInv => QueueSizeTellsBusy
  <2> SUFFICES ASSUME TxInv, NEW f \in FragIds, ~tx_free[f] PROVE queue_size(f) > 0
    BY DEF QueueSizeTellsBusy
  <2> DEFINE b == tx_buf[f]
  <2>1. b \in FragBuf /\ Adjacent(b) /\ (Unsent(b) \/ PartlySent(b, tx_conf))
    BY Fragmented
  <2>2. alpdu_trailer_len(use_alpdu_crc(tx_conf)) \in 1 .. 4
    BY TrailerLen
  <2>3. b.alpdu_end - b.cur_pos > 0
    BY <2>1, <2>2, BufBounds DEF Unsent, PartlySent
  <2> QED
    BY <2>3 DEF queue_size, frag_buf_get_remaining_alpdu_length
<1> QED
  BY <1>1, AlwaysInv, PTL

\* A burst of MinBurst bytes or more always has room for some PPDU.
LEMMA MinBurstRoom ==
  ASSUME TxInv, NEW f \in FragIds, ~tx_free[f], NEW burst \in Nat, burst >= MinBurst
  PROVE  ~BurstTooSmall(tx_buf[f], tx_conf, burst)
<1> DEFINE b == tx_buf[f]
           left == b.alpdu_end - b.cur_pos
           room == cont_end_room(burst)
<1>1. b \in FragBuf /\ Adjacent(b)
  BY Fragmented
<1>2. max_ppdu_len(burst) \in Nat /\ max_ppdu_len(burst) >= 8 /\ burst > 2
  BY MaxPpduLen, LimitsAssumption DEF MinBurst
<1>3. room \in Nat /\ room >= 6 /\ left \in Int
  BY <1>1, <1>2, BufBounds DEF cont_end_room
<1>4. StartPossible(b, burst)
  BY <1>1, <1>2, BufBounds DEF StartPossible
<1> HIDE DEF room
<1>5. ~EndPossible(b, burst) => cont_alpdu_frag_len(b, tx_conf, burst) # 0
  <2>1. EndPossible(b, burst) <=> left <= room
    BY DEF EndPossible, frag_buf_get_remaining_alpdu_length, room
  <2>2. CASE use_alpdu_crc(tx_conf)
    BY <1>3, <2>1, <2>2
       DEF cont_alpdu_frag_len, frag_buf_get_remaining_alpdu_length, room
  <2>3. CASE ~use_alpdu_crc(tx_conf)
    BY <1>3, <2>1, <2>3
       DEF cont_alpdu_frag_len, frag_buf_get_remaining_alpdu_length, room
  <2> QED
    BY <2>2, <2>3
<1> QED
  BY <1>2, <1>4, <1>5 DEF BurstTooSmall

\* The caller that offers START header, longest ALPDU header and one byte is never
\* told that its burst is too small (push_ppdu_hdr), whatever was sent before.
THEOREM TxMinBurst == TxSpec => []MinBurstSuffices
<1>1. TxInit => MinBurstSuffices
  BY DEF TxInit, MinBurstSuffices
<1>2. TxInv /\ MinBurstSuffices /\ [TxNext]_tx_vars => MinBurstSuffices'
  <2> SUFFICES ASSUME TxInv, MinBurstSuffices, [TxNext]_tx_vars PROVE MinBurstSuffices'
    OBVIOUS
  <2>1. ASSUME NEW f \in FragIds, NEW burst \in Bursts, FragTooSmall(f, burst)
        PROVE MinBurstSuffices'
    <3>1. burst \in Nat /\ MinBurst \in Nat
      BY TxAssumption DEF MinBurst
    <3>2. ~(burst >= MinBurst)
      BY <2>1, <3>1, MinBurstRoom DEF FragTooSmall
    <3> QED
      BY <2>1, <3>1, <3>2 DEF FragTooSmall, Returns, MinBurstSuffices
  <2>2. ASSUME NEW f \in FragIds, NEW sdu \in TxSdus, rle_encapsulate(f, sdu)
        PROVE MinBurstSuffices'
    BY <2>2 DEF rle_encapsulate, EncapTooBig, EncapBusy, EncapOk, Returns, MinBurstSuffices
  <2>3. ASSUME NEW f \in FragIds, NEW burst \in Bursts, rle_fragment(f, burst)
        PROVE MinBurstSuffices'
    BY <2>1, <2>3 DEF rle_fragment, FragFree, FragComp, FragStart, FragCont, FragEnd,
                      FragOk, Returns, MinBurstSuffices
  <2>4. ASSUME NEW f \in FragIds, TxResetCounters(f) PROVE MinBurstSuffices'
    BY <2>4 DEF TxResetCounters, Returns, MinBurstSuffices
  <2>5. CASE TxRestart
    BY <2>5 DEF TxRestart, MinBurstSuffices
  <2>6. CASE UNCHANGED tx_vars
    BY <2>6 DEF tx_vars, MinBurstSuffices
  <2> QED
    BY <2>2, <2>3, <2>4, <2>5, <2>6 DEF TxNext
<1> QED
  BY <1>1, <1>2, AlwaysInv, PTL DEF TxSpec

-----------------------------------------------------------------------------
(* Length fields of PPDUs *)

\* Every PPDU that rle_fragment builds fits.
LEMMA FitsInv ==
  ASSUME NEW f \in FragIds, NEW burst, NEW b, NEW size,
         NEW type \in {"COMP", "START", "CONT", "END"}, Builds(f, burst, type, b, size)
  PROVE  PpduFits'
<1> DEFINE nb   == ppdu_put_push(b, size, PpduHdrLen(type))
           ppdu == push_ppdu_hdr(type, nb, f, tx_conf)
<1>1. tx_ppdu' = ppdu /\ tx_ret' = [status |-> "FRAG_OK", burst |-> burst]
  BY DEF Builds, FragOk
<1>2. /\ ppdu.type = type
      /\ get_fragment_length(ppdu.len) = PpduHdrLen(type) + nb.cur_pos - b.cur_pos
      /\ get_fragment_length(ppdu.len) <= max_ppdu_len(burst)
      /\ ppdu.lo = b.cur_pos - b.alpdu_start
      /\ ppdu.hi = nb.cur_pos - b.alpdu_start
      /\ b.cur_pos \in Nat /\ nb.cur_pos \in Nat /\ b.alpdu_start \in Nat
      /\ b.cur_pos < nb.cur_pos
  BY PpduOfFragment DEF Builds
<1>3. PpduHdrLen(type) \in Nat
  BY DEF PpduHdrLen
<1>4. /\ max_ppdu_len(burst) <= burst /\ max_ppdu_len(burst) <= MaxPpduPl + 2
      /\ max_ppdu_len(burst) \in Nat /\ MaxPpduPl \in Nat /\ burst \in Nat
  BY MaxPpduLen DEF Builds
<1> HIDE DEF nb, ppdu
<1> QED
  BY <1>1, <1>2, <1>3, <1>4 DEF PpduFits

\* Every PPDU that rle_fragment returns announces exactly the bytes it has, has
\* payload, and fits both the burst and the largest PPDU of the standard
\* (push_ppdu_hdr, rle_ppdu_hdr_set_ppdu_len).
THEOREM TxPpduFits == TxSpec => []PpduFits
<1>1. TxInit => PpduFits
  BY DEF TxInit, PpduFits
<1>2. TxInv /\ PpduFits /\ [TxNext]_tx_vars => PpduFits'
  <2> SUFFICES ASSUME TxInv, PpduFits, [TxNext]_tx_vars PROVE PpduFits'
    OBVIOUS
  <2>1. ASSUME NEW f \in FragIds, NEW sdu \in TxSdus, rle_encapsulate(f, sdu)
        PROVE PpduFits'
    BY <2>1 DEF rle_encapsulate, EncapTooBig, EncapBusy, EncapOk, Returns, PpduFits
  <2>2. ASSUME NEW f \in FragIds, NEW burst \in Bursts, rle_fragment(f, burst)
        PROVE PpduFits'
    <3>1. CASE FragFree(f, burst) \/ FragTooSmall(f, burst)
      BY <3>1 DEF FragFree, FragTooSmall, Returns, PpduFits
    <3>2. CASE FragComp(f, burst)
      BY <3>2, CompBuilds, FitsInv
    <3>3. CASE FragStart(f, burst)
      BY <3>3, StartBuilds, FitsInv
    <3>4. CASE FragCont(f, burst)
      BY <3>4, ContBuilds, FitsInv
    <3>5. CASE FragEnd(f, burst)
      BY <3>5, EndBuilds, FitsInv
    <3> QED
      BY <2>2, <3>1, <3>2, <3>3, <3>4, <3>5 DEF rle_fragment
  <2>3. ASSUME NEW f \in FragIds, TxResetCounters(f) PROVE PpduFits'
    BY <2>3 DEF TxResetCounters, Returns, PpduFits
  <2>4. CASE TxRestart
    BY <2>4 DEF TxRestart, PpduFits
  <2>5. CASE UNCHANGED tx_vars
    BY <2>5 DEF tx_vars, PpduFits
  <2> QED
    BY <2>1, <2>2, <2>3, <2>4, <2>5 DEF TxNext
<1> QED
  BY <1>1, <1>2, AlwaysInv, PTL DEF TxSpec

-----------------------------------------------------------------------------
\* What the length fields of the PPDUs sent so far add up to: the START PPDU
\* announced the whole ALPDU, and what the PPDUs carried ends at the current
\* position.  TotalHonest alone is not inductive, since it does not tell an ALPDU
\* of which nothing was sent from one whose START PPDU announced nothing.
SumOK ==
  /\ \A f \in FragIds :
       ~tx_free[f] =>
         IF frag_buf_is_fragmented(tx_buf[f])
           THEN /\ tx_sum[f].announced = tx_buf[f].alpdu_end - tx_buf[f].alpdu_start
                /\ tx_sum[f].carried = tx_buf[f].cur_pos - tx_buf[f].alpdu_start
           ELSE tx_sum[f] = NoSum
  /\ tx_ppdu.type = "END" =>
       tx_sum[tx_ppdu.frag].announced = tx_sum[tx_ppdu.frag].carried

\* What a step that builds a PPDU makes of the state that SumOK is about.
LEMMA BuildsSum ==
  ASSUME TxInv, NEW f \in FragIds, NEW burst, NEW b, NEW size,
         NEW type \in {"COMP", "START", "CONT", "END"}, Builds(f, burst, type, b, size)
  PROVE  LET nb == ppdu_put_push(b, size, PpduHdrLen(type))
         IN /\ tx_buf' = [tx_buf EXCEPT ![f] = nb]
            /\ tx_free' = [tx_free EXCEPT ![f] = alpdu_sent(nb)]
            /\ tx_sum'[f].carried = tx_sum[f].carried + (nb.cur_pos - b.cur_pos)
            /\ type # "START" => tx_sum'[f].announced = tx_sum[f].announced
            /\ type = "START" => tx_sum'[f].announced = total_len(nb)
            /\ \A g \in FragIds \ {f} : tx_sum'[g] = tx_sum[g]
            /\ tx_ppdu'.type = type
            /\ type # "COMP" => tx_ppdu'.frag = f
            /\ tx_sum[f].carried \in Int
<1> DEFINE nb   == ppdu_put_push(b, size, PpduHdrLen(type))
           ppdu == push_ppdu_hdr(type, nb, f, tx_conf)
           ann  == IF type = "START" THEN ppdu.total ELSE tx_sum[f].announced
           sum  == tx_sum[f].carried + carried(ppdu)
<1>1. /\ tx_buf' = [tx_buf EXCEPT ![f] = nb]
      /\ tx_free' = [tx_free EXCEPT ![f] = alpdu_sent(nb)]
      /\ tx_ppdu' = ppdu
      /\ tx_sum' = [tx_sum EXCEPT ![f] = [announced |-> ann, carried |-> sum]]
  BY DEF Builds, FragOk
<1>2. /\ ppdu.type = type
      /\ type # "COMP" => ppdu.frag = f
      /\ carried(ppdu) = nb.cur_pos - b.cur_pos
  BY PpduOfFragment DEF Builds
<1>3. type = "START" => ppdu.total = total_len(nb)
  BY DEF push_ppdu_hdr
<1>4. tx_sum \in [FragIds -> [announced : Nat, carried : Int]]
  BY DEF TxInv, TxTypeOK
<1> HIDE DEF nb, ppdu
<1>5. /\ tx_sum'[f].announced = ann /\ tx_sum'[f].carried = sum
      /\ \A g \in FragIds \ {f} : tx_sum'[g] = tx_sum[g]
      /\ tx_sum[f].carried \in Int
  BY <1>1, <1>4
<1> QED
  BY <1>1, <1>2, <1>3, <1>5 DEF nb

\* SumOK through a COMP PPDU: the context is free afterwards.
LEMMA CompSum ==
  ASSUME TxInv, SumOK, NEW f \in FragIds, NEW burst \in Bursts, FragComp(f, burst)
  PROVE  SumOK'
<1> DEFINE size == max_ppdu_len(burst) - CompHdr
           nb   == ppdu_put_push(tx_buf[f], size, PpduHdrLen("COMP"))
<1>1. Builds(f, burst, "COMP", tx_buf[f], size) /\ alpdu_sent(nb)
  BY CompBuilds DEF PpduHdrLen
<1> HIDE DEF size
<1>2. /\ tx_buf' = [tx_buf EXCEPT ![f] = nb]
      /\ tx_free' = [tx_free EXCEPT ![f] = alpdu_sent(nb)]
      /\ \A g \in FragIds \ {f} : tx_sum'[g] = tx_sum[g]
      /\ tx_ppdu'.type = "COMP"
  BY <1>1, BuildsSum
<1> HIDE DEF nb
<1> QED
  BY <1>1, <1>2 DEF SumOK, TxInv, TxTypeOK

\* SumOK through a START PPDU, which announces the length of the whole ALPDU.
LEMMA StartSum ==
  ASSUME TxInv, SumOK, NEW f \in FragIds, NEW burst \in Bursts, FragStart(f, burst)
  PROVE  SumOK'
<1> DEFINE b    == tx_buf[f]
           bt   == push_alpdu_trailer(b, tx_conf, tx_seq[f])
           tl   == alpdu_trailer_len(use_alpdu_crc(tx_conf))
           size == max_ppdu_len(burst) - StartHdr
           nb   == ppdu_put_push(bt, size, PpduHdrLen("START"))
<1>1. /\ Builds(f, burst, "START", bt, size) /\ Adjacent(b) /\ Unsent(b)
      /\ b \in FragBuf /\ ~tx_free[f]
  BY StartBuilds DEF TxInv, TxTypeOK, Builds, FragOk
<1>2. tx_sum[f] = NoSum
  <2>1. ~frag_buf_is_fragmented(b)
    BY DEF FragStart
  <2> QED
    BY <1>1, <2>1 DEF SumOK
<1>3. /\ bt.alpdu_start = b.alpdu_start /\ bt.cur_pos = b.alpdu_start
      /\ bt.alpdu_end = b.sdu_end + tl
  BY <1>1 DEF push_alpdu_trailer, FragBuf, Unsent
<1>4. tl \in 1 .. 4
  BY TrailerLen
<1> HIDE DEF bt, size, tl
<1>5. /\ nb \in FragBuf /\ nb.alpdu_start = bt.alpdu_start /\ nb.alpdu_end = bt.alpdu_end
      /\ bt.cur_pos < nb.cur_pos
  BY <1>1 DEF Builds, FragmentOk
<1>6. /\ tx_buf' = [tx_buf EXCEPT ![f] = nb]
      /\ tx_free' = [tx_free EXCEPT ![f] = alpdu_sent(nb)]
      /\ tx_sum'[f].carried = tx_sum[f].carried + (nb.cur_pos - bt.cur_pos)
      /\ tx_sum'[f].announced = total_len(nb)
      /\ \A g \in FragIds \ {f} : tx_sum'[g] = tx_sum[g]
      /\ tx_ppdu'.type = "START"
  BY <1>1, BuildsSum
<1> HIDE DEF nb, b
<1>7. /\ b.sdu_end + tl - b.alpdu_start \in Nat
      /\ b.sdu_end + tl - b.alpdu_start < TotalMod
      /\ TotalMod \in Nat
  <2>1. b.sdu_end + 4 - b.alpdu_start <= MaxPdu + 7
    BY <1>1, LimitsAssumption DEF Adjacent, FragBuf, SduRecord, SduPos, AlpduHdr
  <2> QED
    BY <1>1, <1>4, <2>1, BufBounds, LimitsAssumption
<1>8. total_len(nb) = nb.alpdu_end - nb.alpdu_start
  <2> DEFINE len == b.sdu_end + tl - b.alpdu_start
  <2>1. len % TotalMod = len
    BY <1>7, FitsField
  <2>2. nb.alpdu_end - nb.alpdu_start = len
    BY <1>1, <1>3, <1>4, <1>5, BufBounds
  <2> QED
    BY <2>1, <2>2 DEF total_len, rle_ppdu_hdr_start_set_total_len
<1>9. tx_sum'[f].carried = nb.cur_pos - nb.alpdu_start
  BY <1>1, <1>2, <1>3, <1>5, <1>6, BufBounds DEF NoSum, FragBuf, Offset
<1>10. frag_buf_is_fragmented(nb)
  BY <1>3, <1>5 DEF frag_buf_is_fragmented
<1> QED
  BY <1>6, <1>8, <1>9, <1>10 DEF SumOK, TxInv, TxTypeOK

\* SumOK through a CONT PPDU, which carries a part.
LEMMA ContSum ==
  ASSUME TxInv, SumOK, NEW f \in FragIds, NEW burst \in Bursts, FragCont(f, burst)
  PROVE  SumOK'
<1> DEFINE b    == tx_buf[f]
           size == cont_alpdu_frag_len(b, tx_conf, burst)
           nb   == ppdu_put_push(b, size, PpduHdrLen("CONT"))
<1>1. /\ Builds(f, burst, "CONT", b, size) /\ frag_buf_is_fragmented(b)
      /\ b \in FragBuf /\ ~tx_free[f]
  BY ContBuilds DEF TxInv, TxTypeOK, Builds, FragOk
<1>2. /\ tx_sum[f].announced = b.alpdu_end - b.alpdu_start
      /\ tx_sum[f].carried = b.cur_pos - b.alpdu_start
  BY <1>1 DEF SumOK
<1> HIDE DEF size
<1>3. /\ nb \in FragBuf /\ nb.alpdu_start = b.alpdu_start /\ nb.alpdu_end = b.alpdu_end
      /\ b.cur_pos < nb.cur_pos
  BY <1>1 DEF Builds, FragmentOk
<1>4. /\ tx_buf' = [tx_buf EXCEPT ![f] = nb]
      /\ tx_free' = [tx_free EXCEPT ![f] = alpdu_sent(nb)]
      /\ tx_sum'[f].carried = tx_sum[f].carried + (nb.cur_pos - b.cur_pos)
      /\ tx_sum'[f].announced = tx_sum[f].announced
      /\ \A g \in FragIds \ {f} : tx_sum'[g] = tx_sum[g]
      /\ tx_ppdu'.type = "CONT"
  BY <1>1, BuildsSum
<1> HIDE DEF nb, b
<1>5. /\ tx_sum'[f].announced = nb.alpdu_end - nb.alpdu_start
      /\ tx_sum'[f].carried = nb.cur_pos - nb.alpdu_start
  BY <1>1, <1>2, <1>3, <1>4 DEF FragBuf, Offset
<1>6. frag_buf_is_fragmented(nb)
  BY <1>1, <1>3 DEF frag_buf_is_fragmented, FragBuf, Offset
<1> QED
  BY <1>4, <1>5, <1>6 DEF SumOK, TxInv, TxTypeOK

\* SumOK through an END PPDU, which carries the rest.
LEMMA EndSum ==
  ASSUME TxInv, SumOK, NEW f \in FragIds, NEW burst \in Bursts, FragEnd(f, burst)
  PROVE  SumOK'
<1> DEFINE b    == tx_buf[f]
           size == frag_buf_get_remaining_alpdu_length(b)
           nb   == ppdu_put_push(b, size, PpduHdrLen("END"))
<1>1. /\ Builds(f, burst, "END", b, size) /\ frag_buf_is_fragmented(b)
      /\ alpdu_sent(nb) /\ b \in FragBuf /\ ~tx_free[f]
  BY EndBuilds DEF TxInv, TxTypeOK, Builds, FragOk, PpduHdrLen
<1>2. /\ tx_sum[f].announced = b.alpdu_end - b.alpdu_start
      /\ tx_sum[f].carried = b.cur_pos - b.alpdu_start
  BY <1>1 DEF SumOK
<1> HIDE DEF size
<1>3. nb \in FragBuf /\ nb.alpdu_end = b.alpdu_end
  BY <1>1 DEF Builds, FragmentOk
<1>4. /\ tx_buf' = [tx_buf EXCEPT ![f] = nb]
      /\ tx_free' = [tx_free EXCEPT ![f] = alpdu_sent(nb)]
      /\ tx_sum'[f].carried = tx_sum[f].carried + (nb.cur_pos - b.cur_pos)
      /\ tx_sum'[f].announced = tx_sum[f].announced
      /\ \A g \in FragIds \ {f} : tx_sum'[g] = tx_sum[g]
      /\ tx_ppdu'.type = "END" /\ tx_ppdu'.frag = f
  BY <1>1, BuildsSum
<1> HIDE DEF nb, b
<1>5. tx_sum'[f].announced = tx_sum'[f].carried
  BY <1>1, <1>2, <1>3, <1>4
     DEF FragBuf, Offset, alpdu_sent, frag_buf_get_remaining_alpdu_length
<1> QED
  BY <1>1, <1>4, <1>5 DEF SumOK, TxInv, TxTypeOK

\* At any time the total length announced in the START PPDU of an ALPDU is what its
\* PPDUs announced so far plus what is left, and their exact sum after the END PPDU
\* (push_start_ppdu_hdr, rle_ppdu_hdr_start_set_total_len).
THEOREM TxTotalHonest == TxSpec => []TotalHonest
<1>1. TxInit => SumOK
  BY DEF TxInit, SumOK, NoPpdu
<1>2. TxInv /\ SumOK /\ [TxNext]_tx_vars => SumOK'
  <2> SUFFICES ASSUME TxInv, SumOK, [TxNext]_tx_vars PROVE SumOK'
    OBVIOUS
  <2>1. ASSUME NEW f \in FragIds, NEW sdu \in TxSdus, rle_encapsulate(f, sdu)
        PROVE SumOK'
    <3>1. CASE EncapTooBig(f, sdu)
      BY <3>1 DEF EncapTooBig, rle_transmitter_free_context, Returns, SumOK, NoPpdu,
                  TxInv, TxTypeOK
    <3>2. CASE EncapBusy(f, sdu)
      BY <3>2 DEF EncapBusy, Returns, SumOK, NoPpdu
    <3>3. CASE EncapOk(f, sdu)
      <4> DEFINE b == encapsulated(sdu, tx_count + 1, tx_conf)
      <4>1. /\ tx_buf' = [tx_buf EXCEPT ![f] = b]
            /\ tx_free' = [tx_free EXCEPT ![f] = FALSE]
            /\ tx_sum' = [tx_sum EXCEPT ![f] = NoSum]
            /\ tx_ppdu' = NoPpdu
        BY <3>3 DEF EncapOk, Returns
      <4>2. b.alpdu_start = b.cur_pos /\ b \in FragBuf
        <5>1. sdu \in SduRecord /\ tx_conf \in ConfRecord /\ tx_count + 1 \in Nat
          BY TxAssumption DEF TxInv, TxTypeOK
        <5> QED
          BY <3>3, <5>1, EncapsulatedBuf DEF EncapOk, Unsent
      <4> HIDE DEF b
      <4>3. ~frag_buf_is_fragmented(b)
        BY <4>2 DEF frag_buf_is_fragmented, FragBuf, Offset
      <4> QED
        BY <4>1, <4>3 DEF SumOK, NoPpdu, TxInv, TxTypeOK
    <3> QED
      BY <2>1, <3>1, <3>2, <3>3 DEF rle_encapsulate
  <2>2. ASSUME NEW f \in FragIds, NEW burst \in Bursts, rle_fragment(f, burst)
        PROVE SumOK'
    <3>1. CASE FragFree(f, burst)
      BY <3>1 DEF FragFree, rle_transmitter_free_context, Returns, SumOK, NoPpdu,
                  TxInv, TxTypeOK
    <3>2. CASE FragTooSmall(f, burst)
      <4> DEFINE nb == frag_buf_ppdu_init(tx_buf[f])
      <4>1. /\ nb.cur_pos = tx_buf[f].cur_pos /\ nb.alpdu_start = tx_buf[f].alpdu_start
            /\ nb.alpdu_end = tx_buf[f].alpdu_end
        BY DEF frag_buf_ppdu_init, FragBuf, TxInv, TxTypeOK
      <4>2. /\ tx_buf' = [tx_buf EXCEPT ![f] = nb] /\ tx_ppdu' = NoPpdu
            /\ UNCHANGED <<tx_free, tx_sum>>
        BY <3>2 DEF FragTooSmall, Returns
      <4> HIDE DEF nb
      <4> QED
        BY <4>1, <4>2 DEF SumOK, NoPpdu, frag_buf_is_fragmented, TxInv, TxTypeOK
    <3> QED
      BY <2>2, <3>1, <3>2, CompSum, StartSum, ContSum, EndSum DEF rle_fragment
  <2>3. ASSUME NEW f \in FragIds, TxResetCounters(f) PROVE SumOK'
    BY <2>3 DEF TxResetCounters, Returns, SumOK, NoPpdu
  <2>4. CASE TxRestart
    BY <2>4 DEF TxRestart, SumOK, NoPpdu
  <2>5. CASE UNCHANGED tx_vars
    BY <2>5 DEF tx_vars, SumOK
  <2> QED
    BY <2>1, <2>2, <2>3, <2>4, <2>5 DEF TxNext
<1>3. TxInv /\ SumOK => TotalHonest
  <2> SUFFICES ASSUME TxInv, SumOK, NEW f \in FragIds, ~tx_free[f],
                      tx_sum[f].announced # 0
               PROVE  tx_sum[f].announced =
                        tx_sum[f].carried + frag_buf_get_remaining_alpdu_length(tx_buf[f])
    BY DEF SumOK, TotalHonest
  <2>1. tx_buf[f] \in FragBuf
    BY DEF TxInv, TxTypeOK
  <2> QED
    BY <2>1 DEF SumOK, NoSum, frag_buf_get_remaining_alpdu_length, FragBuf, Offset
<1> QED
  BY <1>1, <1>2, <1>3, AlwaysInv, PTL DEF TxSpec
=============================================================================
