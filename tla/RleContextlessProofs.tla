------------------------ MODULE RleContextlessProofs ------------------------
(***************************************************************************)
(* A fragmentation buffer used without context, whatever the caller does   *)
(* with it in the order that rle.h allows, for every SDU, configuration    *)
(* and burst.                                                              *)
(***************************************************************************)
EXTENDS RleContextless, RleFragBufProofs

USE DEF CompHdr, StartHdr, ContEndHdr, BaseHdr, MaxAlpduHdr, CrcSize, SeqSize

\* A buffer after rle_frag_buf_init; SDUs of no byte may have been copied there since.
EmptyBuf(b) ==
  \/ b = rle_frag_buf_init
  \/ \E sdu \in SduRecord, id \in Nat :
       sdu.size = 0 /\ b = rle_frag_buf_cpy_sdu(rle_frag_buf_init, sdu, id)

\* The buffer holds the ALPDU of the SDU copied last.
HoldsAlpdu ==
  /\ cl_buf \in FragBuf /\ Adjacent(cl_buf)
  /\ cl_buf.sdu_info = cl_sdu /\ cl_buf.hdr = push_alpdu_hdr(cl_sdu, cl_conf)

\* The buffer at each stage.  A buffer that has not been initialised holds anything.
StageOK ==
  /\ cl_holds = "empty" => EmptyBuf(cl_buf)
  /\ cl_holds = "SDU" =>
       /\ cl_buf = rle_frag_buf_cpy_sdu(rle_frag_buf_init, cl_sdu, cl_count)
       /\ 0 < cl_sdu.size /\ cl_sdu.size <= MaxPdu
  /\ cl_holds = "ALPDU" => HoldsAlpdu /\ Unsent(cl_buf)
  /\ cl_holds = "sent" => HoldsAlpdu /\ alpdu_sent(cl_buf) /\ frag_buf_is_fragmented(cl_buf)

ClTypeOK ==
  /\ cl_conf \in ConfRecord /\ cl_sdu \in SduRecord /\ cl_count \in Nat
  /\ cl_abort \in BOOLEAN /\ cl_holds \in Stages

\* The inductive invariant.
ClInv ==
  /\ ClTypeOK /\ StageOK
  /\ ClAbortsOnlyAskedAgain /\ ClDelivers

\* The fields of the buffer into which an SDU has been copied.
LEMMA CopiedBuf ==
  ASSUME NEW sdu, NEW id
  PROVE  LET b == rle_frag_buf_cpy_sdu(rle_frag_buf_init, sdu, id)
         IN /\ b.sdu_start = SduPos /\ b.sdu_end = SduPos + sdu.size
            /\ b.alpdu_start = SduPos /\ b.alpdu_end = SduPos + sdu.size
            /\ b.cur_pos = SduPos /\ b.trailer = NoTrailer
            /\ b.id = id /\ b.sdu_info = sdu
<1> DEFINE i == rle_frag_buf_init
           b == rle_frag_buf_cpy_sdu(i, sdu, id)
           e == SduPos + sdu.size
<1>1. i.sdu_end = SduPos /\ i.alpdu_end = SduPos
  BY DEF rle_frag_buf_init
<1>2. b = [i EXCEPT !.sdu_end = e, !.alpdu_end = e, !.id = id, !.sdu_info = sdu]
  BY <1>1 DEF rle_frag_buf_cpy_sdu
<1> HIDE DEF b, e
<1>3. /\ b.sdu_start = SduPos /\ b.sdu_end = e /\ b.alpdu_start = SduPos /\ b.alpdu_end = e
      /\ b.cur_pos = SduPos /\ b.trailer = NoTrailer /\ b.id = id /\ b.sdu_info = sdu
  BY <1>2 DEF rle_frag_buf_init
<1> QED
  BY <1>3 DEF b, e

\* The pointers of an empty buffer all stand where the SDU will be.
LEMMA EmptyBufPointers ==
  ASSUME NEW b, EmptyBuf(b)
  PROVE  /\ b.sdu_start = SduPos /\ b.sdu_end = SduPos
         /\ b.alpdu_start = SduPos /\ b.alpdu_end = SduPos
<1>1. CASE b = rle_frag_buf_init
  BY <1>1 DEF rle_frag_buf_init
<1>2. ASSUME NEW sdu \in SduRecord, NEW id \in Nat, sdu.size = 0,
             b = rle_frag_buf_cpy_sdu(rle_frag_buf_init, sdu, id)
      PROVE  /\ b.sdu_start = SduPos /\ b.sdu_end = SduPos
             /\ b.alpdu_start = SduPos /\ b.alpdu_end = SduPos
  <2>1. SduPos + sdu.size = SduPos
    BY <1>2 DEF SduPos
  <2> QED
    BY <1>2, <2>1, CopiedBuf
<1> QED
  BY <1>1, <1>2 DEF EmptyBuf

\* Copying into an empty buffer gives what copying into a new one gives.
LEMMA CopiedOnEmpty ==
  ASSUME NEW b, EmptyBuf(b), NEW sdu, NEW id
  PROVE  rle_frag_buf_cpy_sdu(b, sdu, id) = rle_frag_buf_cpy_sdu(rle_frag_buf_init, sdu, id)
<1> DEFINE i == rle_frag_buf_init
           Set(c, e, n, s) == [c EXCEPT !.sdu_end = e, !.alpdu_end = e, !.id = n, !.sdu_info = s]
<1>1. ASSUME NEW c, c.sdu_end = SduPos, c.alpdu_end = SduPos, NEW s, NEW n
      PROVE  rle_frag_buf_cpy_sdu(c, s, n) = Set(c, SduPos + s.size, n, s)
  BY <1>1 DEF rle_frag_buf_cpy_sdu
<1>2. i.sdu_end = SduPos /\ i.alpdu_end = SduPos
  BY DEF rle_frag_buf_init
<1>3. ASSUME NEW s1, NEW n1, NEW e1, NEW e
      PROVE  Set(Set(i, e1, n1, s1), e, id, sdu) = Set(i, e, id, sdu)
  BY DEF rle_frag_buf_init
<1>4. rle_frag_buf_cpy_sdu(b, sdu, id) = Set(b, SduPos + sdu.size, id, sdu)
  BY <1>1, EmptyBufPointers
<1>5. rle_frag_buf_cpy_sdu(i, sdu, id) = Set(i, SduPos + sdu.size, id, sdu)
  BY <1>1, <1>2
<1>6. CASE b = i
  BY <1>6
<1>7. ASSUME NEW s1, NEW n1, b = rle_frag_buf_cpy_sdu(i, s1, n1)
      PROVE  rle_frag_buf_cpy_sdu(b, sdu, id) = rle_frag_buf_cpy_sdu(i, sdu, id)
  <2>1. b = Set(i, SduPos + s1.size, n1, s1)
    BY <1>1, <1>2, <1>7
  <2> HIDE DEF Set, i
  <2> QED
    BY <1>3, <1>4, <1>5, <2>1
<1> QED
  BY <1>6, <1>7 DEF EmptyBuf

LEMMA ClInitInv == ClInit => ClInv
<1> SUFFICES ASSUME ClInit PROVE ClInv
  OBVIOUS
<1>0. NoSdu \in SduRecord
  BY DEF NoSdu, SduRecord
<1>9. cl_conf \in ConfRecord
  BY ClAssumption DEF ClInit
<1>1. ClTypeOK
  BY <1>0, <1>9 DEF ClInit, ClTypeOK, Stages
<1>2. StageOK /\ ClAbortsOnlyAskedAgain /\ ClDelivers
  BY DEF ClInit, StageOK, ClAbortsOnlyAskedAgain, ClDelivers
<1> QED
  BY <1>1, <1>2 DEF ClInv

\* A call that returns without PPDU breaks no property of PPDUs, and none of those
\* about failed assertions unless one fails.
LEMMA ReturnsInv ==
  ASSUME ClInv, NEW st, ClReturns(st)
  PROVE  /\ ClDelivers'
         /\ cl_conf' = cl_conf
         /\ ~cl_abort
         /\ ~cl_abort' => ClAbortsOnlyAskedAgain'
  BY DEF ClReturns, ClDelivers, ClAbortsOnlyAskedAgain

\* An empty buffer is not in use; one that holds an SDU or an ALPDU is.
LEMMA InUse ==
  ASSUME ClInv
  PROVE  /\ cl_holds = "empty" => ~frag_buf_in_use(cl_buf)
         /\ cl_holds \in {"SDU", "ALPDU", "sent"} => frag_buf_in_use(cl_buf)
<1>1. ASSUME cl_holds = "empty" PROVE ~frag_buf_in_use(cl_buf)
  <2>1. cl_buf.sdu_start = SduPos /\ cl_buf.sdu_end = SduPos
    BY <1>1, EmptyBufPointers DEF ClInv, StageOK
  <2> QED
    BY <2>1 DEF frag_buf_in_use
<1>2. ASSUME cl_holds = "SDU" PROVE frag_buf_in_use(cl_buf)
  <2>1. cl_sdu.size \in Nat /\ 0 < cl_sdu.size
    BY <1>2 DEF ClInv, StageOK, ClTypeOK, SduRecord
  <2>2. cl_buf.sdu_start = SduPos /\ cl_buf.sdu_end = SduPos + cl_sdu.size
    BY <1>2, CopiedBuf DEF ClInv, StageOK
  <2> QED
    BY <2>1, <2>2 DEF frag_buf_in_use, SduPos
<1>3. ASSUME cl_holds \in {"ALPDU", "sent"} PROVE frag_buf_in_use(cl_buf)
  <2>1. cl_buf \in FragBuf /\ Adjacent(cl_buf)
    BY <1>3 DEF ClInv, StageOK, HoldsAlpdu
  <2> QED
    BY <2>1, BufBounds DEF frag_buf_in_use
<1> QED
  BY <1>1, <1>2, <1>3

LEMMA ClLifecycleInv ==
  ASSUME ClInv, ClNew \/ ClDel \/ ClBufInit
  PROVE  ClInv'
<1>1. CASE ClNew \/ ClDel
  <2>1. PICK st : ClReturns(st)
    BY <1>1 DEF ClNew, ClDel
  <2>2. /\ cl_holds' \in {"none", "raw"} /\ UNCHANGED <<cl_buf, cl_sdu, cl_count, cl_abort>>
    BY <1>1 DEF ClNew, ClDel
  <2> QED
    BY <2>1, <2>2, ReturnsInv DEF ClInv, ClTypeOK, StageOK, Stages
<1>2. CASE ClBufInit
  <2>1. PICK st : ClReturns(st)
    BY <1>2 DEF ClBufInit
  <2>2. /\ cl_holds' = "empty" /\ cl_buf' = rle_frag_buf_init
        /\ UNCHANGED <<cl_sdu, cl_count, cl_abort>>
    BY <1>2 DEF ClBufInit
  <2>3. EmptyBuf(rle_frag_buf_init)
    BY DEF EmptyBuf
  <2>4. StageOK'
    BY <2>2, <2>3 DEF StageOK
  <2>5. ClTypeOK'
    BY <2>1, <2>2, ReturnsInv DEF ClInv, ClTypeOK, Stages
  <2> QED
    BY <2>1, <2>2, <2>4, <2>5, ReturnsInv DEF ClInv
<1> QED
  BY <1>1, <1>2

\* Calls that are refused, or that find no SDU or too small a burst.
LEMMA ClRefusedInv ==
  ASSUME ClInv,
         \/ \E sdu \in ClSdus : ClCpyRefused(sdu)
         \/ ClEncapUnused
         \/ \E burst \in ClBursts : ClFragUnused(burst) \/ ClFragTooSmall(burst)
  PROVE  ClInv'
<1>1. PICK st : ClReturns(st)
  BY DEF ClCpyRefused, ClEncapUnused, ClFragUnused, ClFragTooSmall
<1>2. UNCHANGED <<cl_buf, cl_holds, cl_sdu, cl_count, cl_abort>>
  BY DEF ClCpyRefused, ClEncapUnused, ClFragUnused, ClFragTooSmall
<1>3. cl_conf' = cl_conf
  BY <1>1, ReturnsInv
<1>4. ClTypeOK' /\ StageOK'
  BY <1>2, <1>3 DEF ClInv, ClTypeOK, StageOK, HoldsAlpdu
<1> QED
  BY <1>1, <1>2, <1>4, ReturnsInv DEF ClInv

\* rle_frag_buf_cpy_sdu accepts an SDU only for an empty buffer.
LEMMA ClCpyInv ==
  ASSUME ClInv, NEW sdu \in ClSdus, ClCpySdu(sdu)
  PROVE  ClInv'
<1> DEFINE b == rle_frag_buf_cpy_sdu(cl_buf, sdu, cl_count + 1)
<1>1. /\ cl_holds \in Initialised /\ ~cpy_refused(cl_buf, sdu)
      /\ cl_count' = cl_count + 1 /\ cl_buf' = b
      /\ cl_holds' = (IF frag_buf_in_use(b) THEN "SDU" ELSE "empty")
      /\ cl_sdu' = sdu
      /\ cl_abort' = (b.sdu_end > FragBufLen) /\ ClReturns("cpy")
  BY DEF ClCpySdu
<1>2. cl_holds = "empty" /\ EmptyBuf(cl_buf)
  BY <1>1, InUse DEF cpy_refused, Initialised, ClInv, StageOK
<1>3. b = rle_frag_buf_cpy_sdu(rle_frag_buf_init, sdu, cl_count + 1)
  BY <1>2, CopiedOnEmpty
<1> HIDE DEF b
<1>4. /\ b.sdu_start = SduPos /\ b.sdu_end = SduPos + sdu.size
      /\ b.id = cl_count + 1 /\ b.sdu_info = sdu
  BY <1>3, CopiedBuf
<1>5. /\ sdu \in SduRecord /\ sdu.size \in Nat /\ ~(sdu.size > MaxPdu)
      /\ cl_count \in Nat /\ MaxPdu \in Nat
  BY <1>1, ClAssumption, LimitsAssumption
     DEF cpy_refused, ClInv, ClTypeOK, SduRecord
<1>6. b.sdu_end <= FragBufLen /\ (frag_buf_in_use(b) <=> 0 < sdu.size)
  BY <1>4, <1>5 DEF FragBufLen, frag_buf_in_use, SduPos
<1>7. ~cl_abort'
  <2>1. ~(b.sdu_end > FragBufLen)
    BY <1>4, <1>5, <1>6 DEF FragBufLen, SduPos
  <2> QED
    BY <1>1, <2>1, Zenon
<1>8. ClTypeOK'
  BY <1>1, <1>5, <1>7, ReturnsInv DEF ClInv, ClTypeOK, Stages
<1>9. StageOK'
  <2>1. CASE frag_buf_in_use(b)
    <3>1. cl_holds' = "SDU" /\ cl_buf' = rle_frag_buf_cpy_sdu(rle_frag_buf_init, cl_sdu', cl_count')
      BY <1>1, <1>3, <2>1
    <3>2. 0 < cl_sdu'.size /\ cl_sdu'.size <= MaxPdu
      BY <1>1, <1>5, <1>6, <2>1
    <3> QED
      BY <3>1, <3>2 DEF StageOK
  <2>2. CASE ~frag_buf_in_use(b)
    <3>1. sdu.size = 0
      BY <1>5, <1>6, <2>2
    <3>2. cl_count + 1 \in Nat
      BY <1>5
    <3>3. EmptyBuf(b)
      BY <1>3, <1>5, <3>1, <3>2, Zenon DEF EmptyBuf
    <3> QED
      BY <1>1, <2>2, <3>3 DEF StageOK
  <2> QED
    BY <2>1, <2>2
<1> QED
  BY <1>1, <1>7, <1>8, <1>9, ReturnsInv DEF ClInv

\* rle_encap_contextless on an SDU.
LEMMA ClEncapInv ==
  ASSUME ClInv, ClEncap
  PROVE  ClInv'
<1> DEFINE b == alpdu_hdr_pushed(cl_buf, cl_conf)
<1>1. /\ cl_holds \in {"empty", "SDU"} /\ frag_buf_in_use(cl_buf)
      /\ cl_buf' = b /\ cl_holds' = "ALPDU" /\ cl_abort' = ~encap_asserts(b)
      /\ ClReturns("ENCAP_OK") /\ UNCHANGED <<cl_sdu, cl_count>>
  BY DEF ClEncap
<1>2. cl_holds = "SDU"
  BY <1>1, InUse
<1>3. /\ cl_buf = rle_frag_buf_cpy_sdu(rle_frag_buf_init, cl_sdu, cl_count)
      /\ 0 < cl_sdu.size /\ cl_sdu.size <= MaxPdu
      /\ cl_sdu \in SduRecord /\ cl_conf \in ConfRecord /\ cl_count \in Nat
  BY <1>2 DEF ClInv, StageOK, ClTypeOK
<1>4. b = encapsulated(cl_sdu, cl_count, cl_conf)
  BY <1>3 DEF encapsulated
<1> HIDE DEF b
<1>5. /\ b \in FragBuf /\ Adjacent(b) /\ Unsent(b) /\ encap_asserts(b)
      /\ b.sdu_info = cl_sdu /\ b.hdr = push_alpdu_hdr(cl_sdu, cl_conf)
  BY <1>3, <1>4, EncapsulatedBuf
<1>6. ~cl_abort' /\ cl_conf' = cl_conf
  BY <1>1, <1>5, ReturnsInv
<1>7. StageOK'
  BY <1>1, <1>5, <1>6 DEF StageOK, HoldsAlpdu
<1>8. ClTypeOK'
  BY <1>1, <1>3, <1>6 DEF ClTypeOK, Stages
<1> QED
  BY <1>1, <1>6, <1>7, <1>8, ReturnsInv DEF ClInv

\* Requests that push_ppdu_hdr does not satisfy leave the ALPDU alone.
LEMMA ClFragFailsInv ==
  ASSUME ClInv, NEW burst, ClFragAgain(burst) \/ ClFragNeedsContext(burst)
  PROVE  ClInv'
<1> DEFINE nb == frag_buf_ppdu_init(cl_buf)
<1>1. /\ cl_holds \in {"ALPDU", "sent"} /\ cl_buf' = nb
      /\ UNCHANGED <<cl_holds, cl_sdu, cl_count>>
  BY DEF ClFragAgain, ClFragNeedsContext, ClFragAsks
<1>2. cl_conf' = cl_conf /\ ClDelivers'
  BY ReturnsInv DEF ClFragAgain, ClFragNeedsContext
<1>3. HoldsAlpdu
  BY <1>1 DEF ClInv, StageOK
<1>4. /\ nb \in FragBuf /\ nb.sdu_info = cl_buf.sdu_info /\ nb.hdr = cl_buf.hdr
      /\ nb.trailer = cl_buf.trailer
      /\ nb.sdu_start = cl_buf.sdu_start /\ nb.sdu_end = cl_buf.sdu_end
      /\ nb.alpdu_start = cl_buf.alpdu_start /\ nb.alpdu_end = cl_buf.alpdu_end
      /\ nb.cur_pos = cl_buf.cur_pos
  BY <1>3, PpduInitKeeps DEF HoldsAlpdu
<1> HIDE DEF nb
<1>5. HoldsAlpdu'
  BY <1>1, <1>2, <1>3, <1>4 DEF HoldsAlpdu, Adjacent
<1>6. /\ Unsent(cl_buf) => Unsent(nb)
      /\ alpdu_sent(cl_buf) => alpdu_sent(nb)
      /\ frag_buf_is_fragmented(cl_buf) => frag_buf_is_fragmented(nb)
  BY <1>4 DEF Unsent, alpdu_sent, frag_buf_is_fragmented, frag_buf_get_remaining_alpdu_length
<1>7. StageOK'
  BY <1>1, <1>5, <1>6 DEF StageOK, ClInv
<1>8. ClAbortsOnlyAskedAgain' /\ cl_abort' \in BOOLEAN
  <2>1. CASE ClFragAgain(burst)
    <3>1. cl_holds # "ALPDU"
      <4>1. SUFFICES ASSUME Unsent(cl_buf) PROVE ~frag_buf_is_fragmented(cl_buf)
        BY <2>1 DEF ClFragAgain, ClInv, StageOK
      <4>2. cl_buf.alpdu_start \in Nat
        BY <1>3 DEF HoldsAlpdu, FragBuf, Offset
      <4> QED
        BY <4>1, <4>2 DEF Unsent, frag_buf_is_fragmented
    <3> QED
      BY <1>1, <2>1, <3>1 DEF ClFragAgain, ClReturns, ClAbortsOnlyAskedAgain
  <2>2. CASE ClFragNeedsContext(burst)
    BY <2>2, ReturnsInv DEF ClFragNeedsContext, ClInv, ClTypeOK
  <2> QED
    BY <2>1, <2>2
<1>9. ClTypeOK'
  BY <1>1, <1>2, <1>8 DEF ClTypeOK, ClInv
<1> QED
  BY <1>2, <1>7, <1>8, <1>9 DEF ClInv

\* What a receiver finds in a COMP PPDU cut out of a buffer.
LEMMA CompFields ==
  ASSUME NEW nb, NEW conf
  PROVE  LET p == push_ppdu_hdr("COMP", nb, 0, conf)
         IN /\ p.al.sdu = nb.sdu_info /\ p.al.hdr = nb.hdr
            /\ p.supp = (nb.hdr.len = 0)
            /\ p.label = get_alpdu_label_type(nb.sdu_info.ptype, nb.hdr.len = 0, conf)
  BY DEF push_ppdu_hdr, alpdu_of

\* The COMP PPDU takes the whole ALPDU, from which the receiver rebuilds the SDU.
LEMMA ClFragCompInv ==
  ASSUME ClInv, NEW burst \in Nat, ClFragComp(burst)
  PROVE  ClInv'
<1> DEFINE size == max_ppdu_len(burst) - 2
           nb   == ppdu_put_push(cl_buf, size, 2)
           p    == push_ppdu_hdr("COMP", nb, 0, cl_conf)
           h    == push_alpdu_hdr(cl_sdu, cl_conf)
           n    == h.len + cl_sdu.size - h.cut
           x    == alpdu_extract_sdu_frag(p.supp, p.label, p.al.hdr, p.al.sdu.ptype,
                                          p.al.sdu.nib0, carried(p), cl_conf)
<1>1. /\ cl_holds \in {"ALPDU", "sent"} /\ ~frag_buf_is_fragmented(cl_buf)
      /\ CompPossible(cl_buf, burst)
      /\ cl_buf' = nb /\ cl_holds' = "sent"
      /\ cl_abort' = ~ppdu_asserts(cl_buf, size, nb)
      /\ cl_ppdu' = p
      /\ UNCHANGED <<cl_conf, cl_sdu, cl_count>>
  BY DEF ClFragComp, ClFragAsks
<1>2. /\ cl_buf \in FragBuf /\ Adjacent(cl_buf) /\ Unsent(cl_buf)
      /\ cl_buf.sdu_info = cl_sdu /\ cl_buf.hdr = h
  BY <1>1 DEF ClInv, StageOK, HoldsAlpdu
<1>3. /\ FragmentOk(cl_buf, cl_conf, size, 2, burst) /\ alpdu_sent(nb)
  BY <1>1, <1>2, CompFragment
<1>4. /\ nb \in FragBuf /\ ppdu_asserts(cl_buf, size, nb) /\ cl_buf.cur_pos < nb.cur_pos
  BY <1>3, Zenon DEF FragmentOk
<1>5. /\ nb.sdu_info = cl_sdu /\ nb.hdr = h
      /\ nb.sdu_start = cl_buf.sdu_start /\ nb.sdu_end = cl_buf.sdu_end
      /\ nb.alpdu_start = cl_buf.alpdu_start /\ nb.alpdu_end = cl_buf.alpdu_end
  BY <1>2, PutPushKeeps
<1>6. /\ p.type = "COMP" /\ p.lo = cl_buf.cur_pos - cl_buf.alpdu_start
      /\ p.hi = nb.cur_pos - cl_buf.alpdu_start /\ carried(p) = nb.cur_pos - cl_buf.cur_pos
      /\ get_fragment_length(p.len) = 2 + nb.cur_pos - cl_buf.cur_pos
  <2>1. PpduHdrLen("COMP") = 2
    BY DEF PpduHdrLen
  <2> QED
    BY <1>2, <1>3, <2>1, PpduOfFragment
<1>7. /\ p.al.sdu = cl_sdu /\ p.al.hdr = h /\ p.supp = (h.len = 0)
      /\ p.label = get_alpdu_label_type(cl_sdu.ptype, h.len = 0, cl_conf)
  BY <1>5, CompFields
<1>8. cl_sdu \in SduRecord /\ cl_conf \in ConfRecord /\ h \in AlpduHdr
  BY PushedHdr DEF ClInv, ClTypeOK
<1>9. /\ cl_sdu.size \in Nat /\ h.len \in 0 .. 3 /\ h.cut \in {0, 2}
      /\ nb.cur_pos \in Nat /\ nb.alpdu_end \in Nat
      /\ cl_buf.cur_pos \in Nat /\ cl_buf.alpdu_start \in Nat
  BY <1>2, <1>4, <1>8 DEF FragBuf, Offset, SduRecord, AlpduHdr
<1> HIDE DEF nb, p, h
<1>10. /\ cl_buf.alpdu_start = SduPos + h.cut - h.len /\ nb.cur_pos = SduPos + cl_sdu.size
       /\ cl_buf.cur_pos = cl_buf.alpdu_start /\ h.cut < cl_sdu.size
  <2>1. /\ cl_buf.sdu_start = SduPos + h.cut /\ cl_buf.alpdu_start = cl_buf.sdu_start - h.len
        /\ cl_buf.sdu_end = SduPos + cl_sdu.size /\ cl_buf.sdu_start < cl_buf.sdu_end
        /\ cl_buf.cur_pos = cl_buf.alpdu_start /\ cl_buf.alpdu_end = cl_buf.sdu_end
    BY <1>2 DEF Adjacent, Unsent
  <2>2. nb.alpdu_end - nb.cur_pos = 0
    BY <1>3 DEF alpdu_sent, frag_buf_get_remaining_alpdu_length
  <2>3. nb.cur_pos = cl_buf.alpdu_end
    BY <1>5, <1>9, <2>2
  <2> QED
    BY <1>9, <2>1, <2>3 DEF SduPos
<1>11. /\ p.lo = 0 /\ p.hi = n /\ carried(p) = n /\ get_fragment_length(p.len) = 2 + n
  BY <1>6, <1>9, <1>10 DEF SduPos
<1>12. ClDelivers'
  <2>1. ~OmittedAsVlan(cl_sdu, cl_conf) => rebuilt_sdus(p.al.sdu, p.al.hdr, x) = {cl_sdu}
    <3>1. SUFFICES ASSUME ~OmittedAsVlan(cl_sdu, cl_conf)
                   PROVE  rebuilt_sdus(p.al.sdu, p.al.hdr, x) = {cl_sdu}
      OBVIOUS
    <3>2. cl_sdu.size > 0
      BY <1>9, <1>10
    <3>3. rebuilt_sdus(cl_sdu, h,
            alpdu_extract_sdu_frag(h.len = 0,
                                   get_alpdu_label_type(cl_sdu.ptype, h.len = 0, cl_conf),
                                   h, cl_sdu.ptype, cl_sdu.nib0, n, cl_conf)) = {cl_sdu}
      BY <1>8, <3>1, <3>2, RoundTrip DEF h
    <3> QED
      BY <1>7, <1>11, <3>3
  <2>2. /\ p.type = "COMP" /\ p.lo = 0 /\ p.hi = carried(p)
        /\ p.hi = p.al.hdr.len + p.al.sdu.size - p.al.hdr.cut
    BY <1>6, <1>7, <1>11
  <2> QED
    BY <1>1, <2>1, <2>2 DEF ClDelivers
<1>13. ClTypeOK' /\ ClAbortsOnlyAskedAgain'
  BY <1>1, <1>4 DEF ClInv, ClTypeOK, ClAbortsOnlyAskedAgain, Stages
<1>14. StageOK'
  <2>1. HoldsAlpdu'
    BY <1>1, <1>2, <1>4, <1>5 DEF HoldsAlpdu, Adjacent, h
  <2>2. frag_buf_is_fragmented(nb)
    BY <1>4, <1>5, <1>10 DEF frag_buf_is_fragmented
  <2> QED
    BY <1>1, <1>3, <2>1, <2>2 DEF StageOK
<1> QED
  BY <1>12, <1>13, <1>14 DEF ClInv

LEMMA ClNextInv == ClInv /\ [ClNext]_cl_vars => ClInv'
<1> SUFFICES ASSUME ClInv, [ClNext]_cl_vars PROVE ClInv'
  OBVIOUS
<1>1. CASE UNCHANGED cl_vars
  BY <1>1 DEF cl_vars, ClInv, ClTypeOK, StageOK, HoldsAlpdu, ClAbortsOnlyAskedAgain,
              ClDelivers
<1>2. CASE ClNew \/ ClDel \/ ClBufInit
  BY <1>2, ClLifecycleInv
<1>3. CASE \E sdu \in ClSdus : ClCpyRefused(sdu) \/ ClCpySdu(sdu)
  BY <1>3, ClRefusedInv, ClCpyInv
<1>4. CASE ClEncapUnused \/ ClEncap
  BY <1>4, ClRefusedInv, ClEncapInv
<1>5. ASSUME NEW burst \in ClBursts, rle_frag_contextless(burst)
      PROVE  ClInv'
  <2>1. burst \in Nat
    BY ClAssumption
  <2> QED
    BY <1>5, <2>1, ClRefusedInv, ClFragFailsInv, ClFragCompInv DEF rle_frag_contextless
<1> QED
  BY <1>1, <1>2, <1>3, <1>4, <1>5 DEF ClNext

LEMMA ClAlwaysInv == ClSpec => []ClInv
  BY ClInitInv, ClNextInv, PTL DEF ClSpec

LEMMA ClInvBufOK == ClInv => ClBufOK
<1> SUFFICES ASSUME ClInv PROVE ClBufOK
  OBVIOUS
<1>1. cl_holds = "empty" => ~frag_buf_in_use(cl_buf) /\ cl_buf.alpdu_end = SduPos
  BY InUse, EmptyBufPointers DEF ClInv, StageOK
<1>2. ASSUME cl_holds = "SDU"
      PROVE  /\ cl_buf.sdu_start = SduPos /\ cl_buf.sdu_end = SduPos + cl_sdu.size
             /\ cl_buf.alpdu_start = SduPos
             /\ cl_sdu.size <= MaxPdu /\ Unsent(cl_buf)
  BY <1>2, CopiedBuf DEF ClInv, StageOK, Unsent
<1>3. /\ cl_holds = "ALPDU" => Adjacent(cl_buf) /\ Unsent(cl_buf)
      /\ cl_holds = "sent" => Adjacent(cl_buf) /\ alpdu_sent(cl_buf)
  BY DEF ClInv, StageOK, HoldsAlpdu
<1> QED
  BY <1>1, <1>2, <1>3 DEF ClBufOK

-----------------------------------------------------------------------------
\* After any sequence of calls the buffer holds what the caller thinks it holds
\* (rle_frag_buf_init, rle_frag_buf_cpy_sdu, rle_frag_contextless).
THEOREM ClBufCorrect == ClSpec => []ClBufOK
  BY ClAlwaysInv, ClInvBufOK, PTL

\* Every PPDU made without context is a COMP PPDU from which a receiver with the same
\* configuration rebuilds the SDU (rle_frag_contextless, reassembly_comp_ppdu).
THEOREM ClDeliversSdu == ClSpec => []ClDelivers
<1>1. ClInv => ClDelivers
  BY DEF ClInv
<1> QED
  BY <1>1, ClAlwaysInv, PTL

\* No assertion fails but for a second PPDU of the same buffer (push_ppdu_hdr).
THEOREM ClAborts == ClSpec => []ClAbortsOnlyAskedAgain
<1>1. ClInv => ClAbortsOnlyAskedAgain
  BY DEF ClInv
<1> QED
  BY <1>1, ClAlwaysInv, PTL

=============================================================================
