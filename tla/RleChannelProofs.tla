-------------------------- MODULE RleChannelProofs --------------------------
(***************************************************************************)
(* What a transmitter puts on a channel and what a receiver with the same  *)
(* configuration makes of it, whatever the channel does with the PPDUs.    *)
(***************************************************************************)
EXTENDS RleTransmitterProofs, RleReceiverProofs, Sequences

USE DEF CompHdr, StartHdr, ContEndHdr, BaseHdr, MaxAlpduHdr, CrcSize, SeqSize

-----------------------------------------------------------------------------
(* ALPDUs and PPDUs of a transmitter with the configuration conf *)

TrailerSize(conf) == alpdu_trailer_len(use_alpdu_crc(conf))

\* The bytes of an ALPDU before its trailer.
AlpduLen(al) == al.hdr.len + al.sdu.size - al.hdr.cut

AlpduOK(al, conf) ==
  /\ al \in Alpdu /\ al.frag \in FragIds
  /\ al.hdr = push_alpdu_hdr(al.sdu, conf)
  /\ al.hdr.cut < al.sdu.size

TrailerOK(al, conf) ==
  IF use_alpdu_crc(conf) THEN al.trailer = [kind |-> "crc", val |-> al.id]
                         ELSE al.trailer.kind = "seq" /\ al.trailer.val \in 0 .. SeqMod - 1

\* A COMP PPDU carries an ALPDU, without trailer; the other ones the ALPDU header and
\* bytes of SDU, bytes of SDU, and the rest with the whole trailer.
PpduOK(p, conf) ==
  /\ p \in Ppdu /\ p.lo < p.hi /\ carried(p) = p.hi - p.lo
  /\ AlpduOK(p.al, conf)
  /\ p.type \in {"COMP", "START"} =>
       /\ p.lo = 0
       /\ p.supp = (p.al.hdr.len = 0)
       /\ p.label = get_alpdu_label_type(p.al.sdu.ptype, p.al.hdr.len = 0, conf)
  /\ p.type = "COMP" => p.hi = AlpduLen(p.al)
  /\ p.type # "COMP" => p.frag = p.al.frag /\ TrailerOK(p.al, conf)
  /\ p.type = "START" =>
       /\ p.use_crc = use_alpdu_crc(conf)
       /\ p.total = AlpduLen(p.al) + TrailerSize(conf)
       /\ p.al.hdr.len < p.hi
  /\ p.type \in {"START", "CONT"} => p.hi <= AlpduLen(p.al)
  /\ p.type \in {"CONT", "END"} => p.al.hdr.len < p.lo
  /\ p.type = "END" =>
       /\ p.hi = AlpduLen(p.al) + TrailerSize(conf)
       /\ p.lo <= AlpduLen(p.al)

\* Such a PPDU is one of those that the receiver is proved correct for.
LEMMA PpduWellFormed ==
  ASSUME NEW conf \in ConfRecord, NEW p, PpduOK(p, conf)
  PROVE  WellFormed(p, conf) /\ (p.type # "COMP" => p.frag \in FragIds)
<1>1. p \in Ppdu /\ p.lo < p.hi /\ carried(p) = p.hi - p.lo /\ AlpduOK(p.al, conf)
  BY DEF PpduOK
<1>2. p.lo \in Nat /\ p.hi \in Nat /\ p.al \in Alpdu /\ p.al.sdu \in SduRecord
  BY <1>1 DEF Ppdu, Alpdu
<1>3. ASSUME p.type = "START"
      PROVE  p.total > extracted(p, conf).len + alpdu_trailer_len(p.use_crc)
  <2>1. extracted(p, conf).len = p.al.hdr.len
    <3>1. carried(p) \in Nat /\ 0 < carried(p)
      BY <1>1, <1>2
    <3>2. p.supp = (p.al.hdr.len = 0) /\ p.al.hdr = push_alpdu_hdr(p.al.sdu, conf)
      BY <1>1, <1>3 DEF PpduOK, AlpduOK
    <3> QED
      BY <1>2, <3>1, <3>2, ExtractedLen DEF extracted
  <2>2. /\ p.al.hdr.len \in 0 .. 3 /\ p.al.hdr.cut \in {0, 2} /\ p.al.sdu.size \in Nat
        /\ p.al.hdr.cut < p.al.sdu.size /\ TrailerSize(conf) \in 1 .. 4
    BY <1>1, PpduFields, TrailerLen DEF AlpduOK, TrailerSize
  <2>3. p.total = AlpduLen(p.al) + TrailerSize(conf)
        /\ alpdu_trailer_len(p.use_crc) = TrailerSize(conf)
    BY <1>3 DEF PpduOK, TrailerSize
  <2> QED
    BY <2>1, <2>2, <2>3 DEF AlpduLen
<1>4. p.type \in {"COMP", "START"} => p.lo = 0
  BY DEF PpduOK
<1>5. p.type # "COMP" => p.frag \in FragIds
  BY DEF PpduOK, AlpduOK
<1> QED
  BY <1>1, <1>3, <1>4, <1>5 DEF WellFormed

-----------------------------------------------------------------------------
(* The transmitter *)

\* The ALPDU in the buffer of a context is that of an SDU accepted before, with the
\* header that push_alpdu_hdr made and, once a START PPDU was cut, its trailer.
TxAlpdus ==
  \A f \in FragIds :
    ~tx_free[f] =>
      /\ tx_buf[f].hdr = push_alpdu_hdr(tx_buf[f].sdu_info, tx_conf)
      /\ tx_buf[f].id \in 1 .. tx_count
      /\ frag_buf_is_fragmented(tx_buf[f]) => TrailerOK(alpdu_of(tx_buf[f], f), tx_conf)

\* Bytes of the ALPDU in a buffer that PPDUs have taken.
pos_of(b) == b.cur_pos - b.alpdu_start

\* rle_fragment cuts the PPDU p out of context f.
Sends(f, p) ==
  /\ ~tx_free[f]
  /\ PpduOK(p, tx_conf)
  /\ p.al = alpdu_of(tx_buf'[f], f)
  /\ p.al.id = tx_buf[f].id /\ p.al.sdu = tx_buf[f].sdu_info
  /\ p.lo = pos_of(tx_buf[f]) /\ p.hi = pos_of(tx_buf'[f])
  /\ p.type \in {"COMP", "START"} <=> ~frag_buf_is_fragmented(tx_buf[f])
  /\ p.type \in {"CONT", "END"} => p.al = alpdu_of(tx_buf[f], f)
  /\ tx_free' = [tx_free EXCEPT ![f] = p.type \in {"COMP", "END"}]
  /\ \A g \in FragIds \ {f} : tx_buf'[g] = tx_buf[g]
  /\ IF p.type = "START" /\ ~use_alpdu_crc(tx_conf)
       THEN /\ p.al.trailer.val = tx_seq[f]
            /\ tx_seq' = [tx_seq EXCEPT ![f] = rle_ctx_incr_seq_nb(@)]
       ELSE tx_seq' = tx_seq

\* rle_fragment returns no PPDU and leaves every ALPDU alone.
SendsNothing ==
  /\ tx_ppdu' = NoPpdu
  /\ UNCHANGED <<tx_free, tx_seq>>
  /\ \A g \in FragIds : /\ alpdu_of(tx_buf'[g], g) = alpdu_of(tx_buf[g], g)
                        /\ pos_of(tx_buf'[g]) = pos_of(tx_buf[g])
                        /\ tx_buf'[g].id = tx_buf[g].id
                        /\ tx_buf'[g].hdr = tx_buf[g].hdr
                        /\ tx_buf'[g].sdu_info = tx_buf[g].sdu_info
                        /\ frag_buf_is_fragmented(tx_buf'[g])
                             <=> frag_buf_is_fragmented(tx_buf[g])

\* The ALPDU that a buffer holds.
LEMMA AlpduOfBuf ==
  ASSUME NEW f \in FragIds, NEW b \in FragBuf, NEW conf, Adjacent(b),
         b.hdr = push_alpdu_hdr(b.sdu_info, conf)
  PROVE  LET al == alpdu_of(b, f)
         IN /\ AlpduOK(al, conf)
            /\ AlpduLen(al) = b.sdu_end - b.alpdu_start
            /\ al.hdr.len = b.sdu_start - b.alpdu_start
<1> DEFINE al == alpdu_of(b, f)
<1>1. /\ al.id = b.id /\ al.frag = f /\ al.sdu = b.sdu_info /\ al.hdr = b.hdr
      /\ al.trailer = b.trailer
      /\ al = [id |-> b.id, frag |-> f, sdu |-> b.sdu_info, hdr |-> b.hdr, trailer |-> b.trailer]
  BY DEF alpdu_of
<1> HIDE DEF al
<1>2. f \in Nat
  BY TxAssumption
<1>3. al \in Alpdu
  BY <1>1, <1>2 DEF FragBuf, Alpdu
<1>4. /\ b.hdr.len \in 0 .. 3 /\ b.hdr.cut \in {0, 2} /\ b.sdu_info.size \in Nat
  BY DEF FragBuf, AlpduHdr, SduRecord
<1>5. /\ b.sdu_start = SduPos + b.hdr.cut /\ b.alpdu_start = b.sdu_start - b.hdr.len
      /\ b.sdu_end = SduPos + b.sdu_info.size /\ b.sdu_start < b.sdu_end
  BY DEF Adjacent
<1>6. /\ b.hdr.cut < b.sdu_info.size
      /\ b.hdr.len + b.sdu_info.size - b.hdr.cut = b.sdu_end - b.alpdu_start
      /\ b.hdr.len = b.sdu_start - b.alpdu_start
  BY <1>4, <1>5 DEF SduPos
<1>7. AlpduOK(al, conf)
  BY <1>1, <1>3, <1>6 DEF AlpduOK
<1>8. AlpduLen(al) = b.sdu_end - b.alpdu_start /\ al.hdr.len = b.sdu_start - b.alpdu_start
  BY <1>1, <1>6 DEF AlpduLen
<1> QED
  BY <1>7, <1>8 DEF al

\* Every PPDU header has its fields.
LEMMA PushedPpdu ==
  ASSUME NEW f \in FragIds, NEW b \in FragBuf, NEW size, NEW burst \in Nat,
         NEW conf \in ConfRecord, NEW type \in PpduTypes, Adjacent(b),
         b.hdr = push_alpdu_hdr(b.sdu_info, conf), b.alpdu_start <= b.cur_pos,
         FragmentOk(b, conf, size, PpduHdrLen(type), burst)
  PROVE  LET nb == ppdu_put_push(b, size, PpduHdrLen(type))
             p  == push_ppdu_hdr(type, nb, f, conf)
         IN /\ p \in Ppdu /\ p.type = type /\ p.al = alpdu_of(b, f)
            /\ p.lo = pos_of(b) /\ p.hi = pos_of(nb) /\ p.lo < p.hi
            /\ carried(p) = p.hi - p.lo
            /\ p.frag = (IF type = "COMP" THEN 0 ELSE f)
            /\ type = "START" => /\ p.use_crc = use_alpdu_crc(conf)
                                 /\ p.total = total_len(nb)
            /\ type \in {"COMP", "START"} =>
                 /\ p.supp = (b.hdr.len = 0)
                 /\ p.label = get_alpdu_label_type(b.sdu_info.ptype, b.hdr.len = 0, conf)
<1> DEFINE nb == ppdu_put_push(b, size, PpduHdrLen(type))
           p  == push_ppdu_hdr(type, nb, f, conf)
           len == rle_ppdu_hdr_set_ppdu_len(frag_buf_get_current_ppdu_len(nb) - BaseHdr)
           total == IF type = "START" THEN total_len(nb) ELSE 0
           crc == type = "START" /\ use_alpdu_crc(conf)
           supp == type \in {"COMP", "START"} /\ nb.hdr.len = 0
           label == IF type \in {"COMP", "START"}
                      THEN get_alpdu_label_type(nb.sdu_info.ptype, nb.hdr.len = 0, conf) ELSE 0
           fid == IF type = "COMP" THEN 0 ELSE f
           lo == (nb.ppdu_start + PpduHdrLen(type)) - nb.alpdu_start
           hi == nb.ppdu_end - nb.alpdu_start
<1>1. /\ p.frag = fid /\ p.len = len /\ p.total = total /\ p.label = label
      /\ p.al = alpdu_of(nb, f) /\ p.lo = lo /\ p.hi = hi
      /\ p.use_crc = crc /\ p.supp = supp
  <2> HIDE DEF nb
  <2> QED
    BY DEF push_ppdu_hdr, get_alpdu_label_type
<1>2. type \in {"COMP", "START", "CONT", "END"}
  BY DEF PpduTypes
<1>3. /\ p.type = type
      /\ get_fragment_length(p.len) <= max_ppdu_len(burst)
      /\ p.lo = b.cur_pos - b.alpdu_start /\ p.hi = nb.cur_pos - b.alpdu_start
      /\ carried(p) = nb.cur_pos - b.cur_pos
      /\ b.cur_pos \in Nat /\ nb.cur_pos \in Nat /\ b.alpdu_start \in Nat
      /\ b.cur_pos < nb.cur_pos
  BY <1>2, PpduOfFragment
<1>4. nb \in FragBuf
  BY DEF FragmentOk
<1>5. /\ nb.id = b.id /\ nb.sdu_info = b.sdu_info /\ nb.hdr = b.hdr
      /\ nb.trailer = b.trailer /\ nb.alpdu_start = b.alpdu_start
  BY PutPushKeeps
<1>6. alpdu_of(nb, f) = alpdu_of(b, f) /\ alpdu_of(b, f) \in Alpdu
  <2>1. AlpduOK(alpdu_of(b, f), conf)
    BY AlpduOfBuf
  <2> QED
    BY <1>5, <2>1 DEF alpdu_of, AlpduOK
<1>7. len \in Nat /\ total \in 0 .. TotalMod - 1
  <2>1. /\ nb.ppdu_end - nb.ppdu_start - 2 \in Int
        /\ nb.alpdu_end - nb.alpdu_start \in Int
    BY <1>4 DEF FragBuf, Offset
  <2>2. LenMod \in Nat \ {0} /\ TotalMod \in Nat \ {0}
    BY LimitsAssumption
  <2>3. /\ (nb.ppdu_end - nb.ppdu_start - 2) % LenMod \in Nat
        /\ (nb.alpdu_end - nb.alpdu_start) % TotalMod \in 0 .. TotalMod - 1
    BY <2>1, <2>2
  <2> QED
    BY <2>2, <2>3 DEF rle_ppdu_hdr_set_ppdu_len, frag_buf_get_current_ppdu_len,
                      total_len, rle_ppdu_hdr_start_set_total_len
<1>8. label \in 0 .. 3 /\ supp \in BOOLEAN /\ crc \in BOOLEAN /\ fid \in 0 .. 7
  BY TxAssumption DEF get_alpdu_label_type, RLE_LT_PROTO_SIGNAL, RLE_LT_IMPLICIT_PROTO_TYPE,
                      use_alpdu_crc, ConfRecord
<1> HIDE DEF p, len, total, supp, crc, label, lo, hi, fid
<1>9. /\ p.frag = fid /\ p.len = len /\ p.total = total /\ p.use_crc = crc /\ p.supp = supp
      /\ p.label = label /\ p.al = alpdu_of(nb, f) /\ p.lo = lo /\ p.hi = hi
  BY <1>1
<1>10. len \in 0 .. MaxPpduPl
  BY <1>3, <1>7, <1>9, MaxPpduLen DEF get_fragment_length
<1> HIDE DEF nb
<1>11. lo \in Nat /\ hi \in Nat /\ lo < hi
  BY <1>3, <1>9
<1>12. p \in Ppdu
  <2>1. p = [type |-> p.type, frag |-> p.frag, len |-> p.len, total |-> p.total,
             use_crc |-> p.use_crc, supp |-> p.supp, label |-> p.label, al |-> p.al,
             lo |-> p.lo, hi |-> p.hi]
    BY DEF p, push_ppdu_hdr
  <2> QED
    BY <1>3, <1>6, <1>7, <1>8, <1>9, <1>10, <1>11, <2>1 DEF Ppdu
<1>13. p.lo = pos_of(b) /\ p.hi = pos_of(nb) /\ carried(p) = p.hi - p.lo /\ p.lo < p.hi
  BY <1>3, <1>5 DEF pos_of
<1>14. type = "START" => p.use_crc = use_alpdu_crc(conf) /\ p.total = total_len(nb)
  BY <1>9 DEF crc, total, use_alpdu_crc
<1>15. ASSUME type \in {"COMP", "START"}
       PROVE  /\ p.supp = (b.hdr.len = 0)
              /\ p.label = get_alpdu_label_type(b.sdu_info.ptype, b.hdr.len = 0, conf)
  BY <1>5, <1>9, <1>15 DEF supp, label, get_alpdu_label_type
<1> QED
  BY <1>3, <1>6, <1>9, <1>12, <1>13, <1>14, <1>15 DEF p, nb, fid

\* The PPDU that rle_fragment builds from a buffer b is well formed, whatever its type.
LEMMA BuiltPpdu ==
  ASSUME TxInv, NEW f \in FragIds, NEW burst, NEW b, NEW size, NEW type \in PpduTypes,
         Builds(f, burst, type, b, size), Adjacent(b),
         b.hdr = push_alpdu_hdr(b.sdu_info, tx_conf),
         type \in {"COMP", "START"} => b.cur_pos = b.alpdu_start,
         type = "COMP" => b.alpdu_end = b.sdu_end,
         type # "COMP" => /\ TrailerOK(alpdu_of(b, f), tx_conf)
                          /\ b.alpdu_end = b.sdu_end + TrailerSize(tx_conf),
         type \in {"CONT", "END"} => b.sdu_start < b.cur_pos /\ b.cur_pos <= b.sdu_end,
         LET nb == ppdu_put_push(b, size, PpduHdrLen(type))
         IN IF type \in {"START", "CONT"} THEN PartlySent(nb, tx_conf) /\ ~alpdu_sent(nb)
                                          ELSE alpdu_sent(nb)
  PROVE  LET nb == ppdu_put_push(b, size, PpduHdrLen(type))
         IN /\ PpduOK(tx_ppdu', tx_conf) /\ tx_ppdu'.type = type
            /\ tx_ppdu'.al = alpdu_of(b, f) /\ tx_ppdu'.al = alpdu_of(nb, f)
            /\ tx_ppdu'.lo = pos_of(b) /\ tx_ppdu'.hi = pos_of(nb)
            /\ tx_buf' = [tx_buf EXCEPT ![f] = nb]
            /\ tx_free' = [tx_free EXCEPT ![f] = type \in {"COMP", "END"}]
            /\ UNCHANGED <<tx_conf, tx_count>>
<1> DEFINE nb == ppdu_put_push(b, size, PpduHdrLen(type))
           p  == push_ppdu_hdr(type, nb, f, tx_conf)
           al == alpdu_of(b, f)
           tl == TrailerSize(tx_conf)
<1>1. /\ b \in FragBuf /\ burst \in Nat /\ tx_conf \in ConfRecord
      /\ FragmentOk(b, tx_conf, size, PpduHdrLen(type), burst)
      /\ tx_ppdu' = p /\ tx_buf' = [tx_buf EXCEPT ![f] = nb]
      /\ tx_free' = [tx_free EXCEPT ![f] = alpdu_sent(nb)]
      /\ UNCHANGED <<tx_conf, tx_count>>
  BY DEF Builds, FragOk, TxInv, TxTypeOK
<1>2. /\ b.alpdu_start \in Nat /\ b.sdu_start \in Nat /\ b.sdu_end \in Nat
      /\ b.alpdu_end \in Nat /\ b.cur_pos \in Nat
      /\ b.alpdu_start <= b.sdu_start /\ b.sdu_start < b.sdu_end
      /\ b.sdu_end + 4 - b.alpdu_start <= MaxPdu + 7
  <2>1. b.sdu_end + 4 - b.alpdu_start <= MaxPdu + 7
    BY <1>1, LimitsAssumption DEF Adjacent, FragBuf, SduRecord, SduPos, AlpduHdr
  <2> QED
    BY <1>1, <2>1, BufBounds
<1>3. b.alpdu_start <= b.cur_pos
  BY <1>2 DEF PpduTypes
<1>4. /\ nb \in FragBuf /\ nb.alpdu_start = b.alpdu_start /\ nb.alpdu_end = b.alpdu_end
      /\ nb.sdu_start = b.sdu_start /\ nb.sdu_end = b.sdu_end
      /\ alpdu_of(nb, f) = al /\ nb.cur_pos \in Nat
  <2>1. /\ nb.id = b.id /\ nb.sdu_info = b.sdu_info /\ nb.hdr = b.hdr
        /\ nb.trailer = b.trailer
        /\ nb.sdu_start = b.sdu_start /\ nb.sdu_end = b.sdu_end
        /\ nb.alpdu_start = b.alpdu_start /\ nb.alpdu_end = b.alpdu_end
    BY <1>1, PutPushKeeps
  <2>2. nb \in FragBuf
    BY <1>1 DEF FragmentOk
  <2> HIDE DEF nb
  <2> QED
    BY <2>1, <2>2 DEF alpdu_of, FragBuf, Offset
<1>5. /\ p \in Ppdu /\ p.type = type /\ p.al = al
      /\ p.lo = pos_of(b) /\ p.hi = pos_of(nb) /\ p.lo < p.hi
      /\ carried(p) = p.hi - p.lo
      /\ p.frag = (IF type = "COMP" THEN 0 ELSE f)
      /\ type = "START" => /\ p.use_crc = use_alpdu_crc(tx_conf)
                           /\ p.total = total_len(nb)
      /\ type \in {"COMP", "START"} =>
           /\ p.supp = (b.hdr.len = 0)
           /\ p.label = get_alpdu_label_type(b.sdu_info.ptype, b.hdr.len = 0, tx_conf)
  BY <1>1, <1>3, PushedPpdu
<1>6. /\ AlpduOK(al, tx_conf) /\ AlpduLen(al) = b.sdu_end - b.alpdu_start
      /\ al.hdr.len = b.sdu_start - b.alpdu_start
  BY <1>1, AlpduOfBuf
<1>7. /\ al.hdr = b.hdr /\ al.sdu = b.sdu_info /\ al.frag = f
  BY DEF alpdu_of
<1>8. tl \in 1 .. 4
  BY TrailerLen DEF TrailerSize
<1> HIDE DEF nb, p, al, tl
<1>9. type = "START" => p.total = AlpduLen(al) + tl
  <2> HAVE type = "START"
  <2> DEFINE len == b.sdu_end + tl - b.alpdu_start
  <2>1. len \in Nat /\ len < TotalMod /\ TotalMod \in Nat
    BY <1>2, <1>8, LimitsAssumption
  <2>2. nb.alpdu_end - nb.alpdu_start = len /\ len = AlpduLen(al) + tl
    BY <1>2, <1>4, <1>6, <1>8 DEF tl
  <2>3. len % TotalMod = len
    BY <2>1, FitsField
  <2> QED
    BY <1>5, <2>2, <2>3 DEF total_len, rle_ppdu_hdr_start_set_total_len
<1>10. type \in {"COMP", "START"} => p.lo = 0
  BY <1>2, <1>5 DEF pos_of
<1>11. type = "COMP" => p.hi = AlpduLen(al)
  BY <1>2, <1>4, <1>5, <1>6
     DEF pos_of, alpdu_sent, frag_buf_get_remaining_alpdu_length, nb
<1>12. type = "END" => p.hi = AlpduLen(al) + tl /\ p.lo <= AlpduLen(al)
  <2> HAVE type = "END"
  <2>1. nb.alpdu_end - nb.cur_pos = 0
    BY DEF alpdu_sent, frag_buf_get_remaining_alpdu_length, nb
  <2> QED
    BY <1>2, <1>4, <1>5, <1>6, <1>8, <2>1 DEF pos_of, tl
<1>13. type \in {"START", "CONT"} => p.hi <= AlpduLen(al) /\ al.hdr.len < p.hi
  <2> HAVE type \in {"START", "CONT"}
  <2>1. nb.sdu_start < nb.cur_pos /\ nb.cur_pos <= nb.sdu_end
    BY DEF PartlySent, nb
  <2> QED
    BY <1>2, <1>4, <1>5, <1>6, <2>1 DEF pos_of
<1>14. type \in {"CONT", "END"} => al.hdr.len < p.lo
  BY <1>2, <1>5, <1>6 DEF pos_of
<1>15. type # "COMP" => TrailerOK(al, tx_conf)
  BY DEF al
<1>16. PpduOK(p, tx_conf)
  BY <1>5, <1>6, <1>7, <1>9, <1>10, <1>11, <1>12, <1>13, <1>14, <1>15 DEF PpduOK, tl
<1>17. tx_free' = [tx_free EXCEPT ![f] = type \in {"COMP", "END"}]
  <2>1. alpdu_sent(nb) = (type \in {"COMP", "END"})
    BY DEF nb, PpduTypes, alpdu_sent
  <2> QED
    BY <1>1, <2>1
<1> QED
  BY <1>1, <1>4, <1>5, <1>16, <1>17 DEF nb, al

\* What a PPDU that was cut means for the context it was cut from.
LEMMA BuiltSends ==
  ASSUME TxInv, TxAlpdus, NEW f \in FragIds, ~tx_free[f], NEW b \in FragBuf, NEW nb \in FragBuf,
         NEW p, PpduOK(p, tx_conf),
         b.id = tx_buf[f].id, b.sdu_info = tx_buf[f].sdu_info, pos_of(b) = pos_of(tx_buf[f]),
         p.al = alpdu_of(b, f), p.al = alpdu_of(nb, f), p.lo = pos_of(b), p.hi = pos_of(nb),
         p.type \in {"COMP", "START"} <=> ~frag_buf_is_fragmented(tx_buf[f]),
         p.type \in {"CONT", "END"} => b = tx_buf[f],
         tx_buf' = [tx_buf EXCEPT ![f] = nb],
         tx_free' = [tx_free EXCEPT ![f] = p.type \in {"COMP", "END"}],
         UNCHANGED <<tx_conf, tx_count>>,
         IF p.type = "START" /\ ~use_alpdu_crc(tx_conf)
           THEN /\ p.al.trailer.val = tx_seq[f]
                /\ tx_seq' = [tx_seq EXCEPT ![f] = rle_ctx_incr_seq_nb(@)]
           ELSE tx_seq' = tx_seq
  PROVE  Sends(f, p) /\ TxAlpdus'
<1>1. tx_buf \in [FragIds -> FragBuf] /\ tx_free \in [FragIds -> BOOLEAN]
  BY DEF TxInv, TxTypeOK
<1>2. tx_buf'[f] = nb /\ \A g \in FragIds \ {f} : tx_buf'[g] = tx_buf[g]
  BY <1>1
<1>3. /\ p.al.id = b.id /\ p.al.sdu = b.sdu_info
      /\ p.al.id = nb.id /\ p.al.sdu = nb.sdu_info /\ p.al.hdr = nb.hdr
  <2>1. /\ alpdu_of(b, f).id = b.id /\ alpdu_of(b, f).sdu = b.sdu_info
        /\ alpdu_of(nb, f).id = nb.id /\ alpdu_of(nb, f).sdu = nb.sdu_info
        /\ alpdu_of(nb, f).hdr = nb.hdr
    BY DEF alpdu_of
  <2> QED
    BY <2>1
<1>4. Sends(f, p)
  BY <1>2, <1>3 DEF Sends
<1>5. p.al.hdr = push_alpdu_hdr(p.al.sdu, tx_conf) /\ (p.type # "COMP" => TrailerOK(p.al, tx_conf))
  BY DEF PpduOK, AlpduOK
<1>6. ASSUME NEW g \in FragIds, ~tx_free'[g]
      PROVE  /\ tx_buf'[g].hdr = push_alpdu_hdr(tx_buf'[g].sdu_info, tx_conf')
             /\ tx_buf'[g].id \in 1 .. tx_count'
             /\ frag_buf_is_fragmented(tx_buf'[g]) => TrailerOK(alpdu_of(tx_buf'[g], g), tx_conf')
  <2>1. CASE g = f
    <3>1. p.type # "COMP"
      BY <1>1, <1>6, <2>1
    <3>2. tx_buf[f].id \in 1 .. tx_count
      BY DEF TxAlpdus
    <3> QED
      BY <1>2, <1>3, <1>5, <2>1, <3>1, <3>2
  <2>2. CASE g # f
    <3>1. ~tx_free[g] /\ tx_buf'[g] = tx_buf[g]
      BY <1>1, <1>2, <1>6, <2>2
    <3> QED
      BY <3>1 DEF TxAlpdus
  <2> QED
    BY <2>1, <2>2
<1>7. TxAlpdus'
  BY <1>6 DEF TxAlpdus
<1> QED
  BY <1>4, <1>7

LEMMA CompSends ==
  ASSUME TxInv, TxAlpdus, NEW f \in FragIds, NEW burst \in Bursts, FragComp(f, burst)
  PROVE  Sends(f, tx_ppdu') /\ TxAlpdus'
<1> DEFINE b == tx_buf[f]
           size == max_ppdu_len(burst) - CompHdr
           nb == ppdu_put_push(b, size, PpduHdrLen("COMP"))
<1>1. /\ ~tx_free[f] /\ ~frag_buf_is_fragmented(b) /\ tx_seq' = tx_seq
  BY DEF FragComp, FragOk
<1>2. b \in FragBuf /\ Adjacent(b) /\ Unsent(b)
  BY <1>1, Fragmented
<1>3. Builds(f, burst, "COMP", b, size) /\ alpdu_sent(nb) /\ nb \in FragBuf
  BY CompBuilds DEF PpduHdrLen, Builds, FragmentOk
<1>4. b.hdr = push_alpdu_hdr(b.sdu_info, tx_conf)
  BY <1>1 DEF TxAlpdus
<1> HIDE DEF size, b
<1>5. "COMP" \in PpduTypes /\ "COMP" \notin {"START", "CONT"} /\ "COMP" \notin {"CONT", "END"}
  BY DEF PpduTypes
<1>6. /\ PpduOK(tx_ppdu', tx_conf) /\ tx_ppdu'.type = "COMP"
      /\ tx_ppdu'.al = alpdu_of(b, f) /\ tx_ppdu'.al = alpdu_of(nb, f)
      /\ tx_ppdu'.lo = pos_of(b) /\ tx_ppdu'.hi = pos_of(nb)
      /\ tx_buf' = [tx_buf EXCEPT ![f] = nb]
      /\ tx_free' = [tx_free EXCEPT ![f] = "COMP" \in {"COMP", "END"}]
      /\ UNCHANGED <<tx_conf, tx_count>>
  BY <1>2, <1>3, <1>4, <1>5, BuiltPpdu DEF Unsent
<1> HIDE DEF nb
<1> QED
  BY <1>1, <1>2, <1>3, <1>6, BuiltSends DEF b

LEMMA StartSends ==
  ASSUME TxInv, TxAlpdus, NEW f \in FragIds, NEW burst \in Bursts, FragStart(f, burst)
  PROVE  Sends(f, tx_ppdu') /\ TxAlpdus'
<1> DEFINE b == tx_buf[f]
           bt == push_alpdu_trailer(b, tx_conf, tx_seq[f])
           size == max_ppdu_len(burst) - StartHdr
           nb == ppdu_put_push(bt, size, PpduHdrLen("START"))
<1>1. /\ ~tx_free[f] /\ ~frag_buf_is_fragmented(b)
      /\ tx_seq' = IF use_alpdu_crc(tx_conf) THEN tx_seq
                     ELSE [tx_seq EXCEPT ![f] = rle_ctx_incr_seq_nb(@)]
  BY DEF FragStart, FragOk
<1>2. /\ Builds(f, burst, "START", bt, size) /\ PartlySent(nb, tx_conf) /\ ~alpdu_sent(nb)
      /\ Adjacent(b) /\ Unsent(b) /\ nb \in FragBuf /\ bt \in FragBuf
  BY StartBuilds DEF PpduHdrLen, Builds, FragmentOk
<1>3. b \in FragBuf /\ b.hdr = push_alpdu_hdr(b.sdu_info, tx_conf)
      /\ tx_seq[f] \in 0 .. SeqMod - 1
  BY <1>1 DEF TxAlpdus, TxInv, TxTypeOK
<1>4. /\ bt.id = b.id /\ bt.sdu_info = b.sdu_info /\ bt.hdr = b.hdr
      /\ bt.sdu_start = b.sdu_start /\ bt.sdu_end = b.sdu_end
      /\ bt.alpdu_start = b.alpdu_start /\ bt.cur_pos = b.cur_pos
      /\ bt.alpdu_end = b.alpdu_end + alpdu_trailer_len(use_alpdu_crc(tx_conf))
      /\ bt.trailer = IF use_alpdu_crc(tx_conf) THEN [kind |-> "crc", val |-> b.id]
                                                ELSE [kind |-> "seq", val |-> tx_seq[f]]
  BY <1>3, TrailerPushed
<1> HIDE DEF size, bt, b
<1>5. Adjacent(bt)
  BY <1>2, <1>4 DEF Adjacent
<1>6. /\ bt.hdr = push_alpdu_hdr(bt.sdu_info, tx_conf) /\ bt.cur_pos = bt.alpdu_start
      /\ bt.alpdu_end = bt.sdu_end + TrailerSize(tx_conf)
  BY <1>2, <1>3, <1>4 DEF Unsent, TrailerSize
<1>7. /\ TrailerOK(alpdu_of(bt, f), tx_conf)
      /\ ~use_alpdu_crc(tx_conf) => alpdu_of(bt, f).trailer.val = tx_seq[f]
  BY <1>3, <1>4 DEF TrailerOK, alpdu_of
<1>8. "START" \in PpduTypes /\ "START" \in {"START", "CONT"} /\ "START" \notin {"CONT", "END"}
  BY DEF PpduTypes
<1>9. /\ PpduOK(tx_ppdu', tx_conf) /\ tx_ppdu'.type = "START"
      /\ tx_ppdu'.al = alpdu_of(bt, f) /\ tx_ppdu'.al = alpdu_of(nb, f)
      /\ tx_ppdu'.lo = pos_of(bt) /\ tx_ppdu'.hi = pos_of(nb)
      /\ tx_buf' = [tx_buf EXCEPT ![f] = nb]
      /\ tx_free' = [tx_free EXCEPT ![f] = "START" \in {"COMP", "END"}]
      /\ UNCHANGED <<tx_conf, tx_count>>
  BY <1>2, <1>5, <1>6, <1>7, <1>8, BuiltPpdu
<1> HIDE DEF nb
<1>10. pos_of(bt) = pos_of(b)
  BY <1>4 DEF pos_of
<1> QED
  BY <1>1, <1>2, <1>4, <1>7, <1>9, <1>10, BuiltSends DEF b

LEMMA ContSends ==
  ASSUME TxInv, TxAlpdus, NEW f \in FragIds, NEW burst \in Bursts, FragCont(f, burst)
  PROVE  Sends(f, tx_ppdu') /\ TxAlpdus'
<1> DEFINE b == tx_buf[f]
           size == cont_alpdu_frag_len(b, tx_conf, burst)
           nb == ppdu_put_push(b, size, PpduHdrLen("CONT"))
<1>1. /\ ~tx_free[f] /\ frag_buf_is_fragmented(b) /\ tx_seq' = tx_seq
  BY DEF FragCont, FragOk
<1>2. b \in FragBuf /\ Adjacent(b) /\ PartlySent(b, tx_conf)
  BY <1>1, Fragmented
<1>3. /\ Builds(f, burst, "CONT", b, size) /\ nb \in FragBuf
      /\ PartlySent(nb, tx_conf) /\ ~alpdu_sent(nb)
  BY ContBuilds DEF PpduHdrLen, Builds, FragmentOk
<1>4. b.hdr = push_alpdu_hdr(b.sdu_info, tx_conf) /\ TrailerOK(alpdu_of(b, f), tx_conf)
  BY <1>1 DEF TxAlpdus
<1> HIDE DEF size, b
<1>5. "CONT" \in PpduTypes /\ "CONT" \in {"START", "CONT"} /\ "CONT" \in {"CONT", "END"}
  BY DEF PpduTypes
<1>6. /\ PpduOK(tx_ppdu', tx_conf) /\ tx_ppdu'.type = "CONT"
      /\ tx_ppdu'.al = alpdu_of(b, f) /\ tx_ppdu'.al = alpdu_of(nb, f)
      /\ tx_ppdu'.lo = pos_of(b) /\ tx_ppdu'.hi = pos_of(nb)
      /\ tx_buf' = [tx_buf EXCEPT ![f] = nb]
      /\ tx_free' = [tx_free EXCEPT ![f] = "CONT" \in {"COMP", "END"}]
      /\ UNCHANGED <<tx_conf, tx_count>>
  BY <1>2, <1>3, <1>4, <1>5, BuiltPpdu DEF PartlySent, TrailerSize
<1> HIDE DEF nb
<1> QED
  BY <1>1, <1>2, <1>3, <1>6, BuiltSends DEF b

LEMMA EndSends ==
  ASSUME TxInv, TxAlpdus, NEW f \in FragIds, NEW burst \in Bursts, FragEnd(f, burst)
  PROVE  Sends(f, tx_ppdu') /\ TxAlpdus'
<1> DEFINE b == tx_buf[f]
           size == frag_buf_get_remaining_alpdu_length(b)
           nb == ppdu_put_push(b, size, PpduHdrLen("END"))
<1>1. /\ ~tx_free[f] /\ frag_buf_is_fragmented(b) /\ tx_seq' = tx_seq
  BY DEF FragEnd, FragOk
<1>2. b \in FragBuf /\ Adjacent(b) /\ PartlySent(b, tx_conf)
  BY <1>1, Fragmented
<1>3. Builds(f, burst, "END", b, size) /\ alpdu_sent(nb) /\ nb \in FragBuf
  BY EndBuilds DEF PpduHdrLen, Builds, FragmentOk
<1>4. b.hdr = push_alpdu_hdr(b.sdu_info, tx_conf) /\ TrailerOK(alpdu_of(b, f), tx_conf)
  BY <1>1 DEF TxAlpdus
<1> HIDE DEF size, b
<1>5. "END" \in PpduTypes /\ "END" \notin {"START", "CONT"} /\ "END" \in {"CONT", "END"}
  BY DEF PpduTypes
<1>6. /\ PpduOK(tx_ppdu', tx_conf) /\ tx_ppdu'.type = "END"
      /\ tx_ppdu'.al = alpdu_of(b, f) /\ tx_ppdu'.al = alpdu_of(nb, f)
      /\ tx_ppdu'.lo = pos_of(b) /\ tx_ppdu'.hi = pos_of(nb)
      /\ tx_buf' = [tx_buf EXCEPT ![f] = nb]
      /\ tx_free' = [tx_free EXCEPT ![f] = "END" \in {"COMP", "END"}]
      /\ UNCHANGED <<tx_conf, tx_count>>
  BY <1>2, <1>3, <1>4, <1>5, BuiltPpdu DEF PartlySent, TrailerSize
<1> HIDE DEF nb
<1> QED
  BY <1>1, <1>2, <1>3, <1>6, BuiltSends DEF b

\* rle_fragment cuts a PPDU out of the context it was asked for, or none.
LEMMA FragmentSends ==
  ASSUME TxInv, TxAlpdus, NEW f \in FragIds, NEW burst \in Bursts, rle_fragment(f, burst)
  PROVE  /\ TxInv' /\ TxAlpdus' /\ UNCHANGED <<tx_conf, tx_count>>
         /\ SendsNothing \/ (Sends(f, tx_ppdu') /\ tx_ppdu' # NoPpdu)
<1>1. TxInv'
  BY NextInv DEF TxNext
<1>2. UNCHANGED <<tx_conf, tx_count>>
  BY DEF rle_fragment, FragFree, FragTooSmall, FragComp, FragStart, FragCont, FragEnd,
         FragOk, Returns
<1>3. CASE FragFree(f, burst)
  <2>1. /\ tx_free' = [tx_free EXCEPT ![f] = TRUE] /\ tx_free[f] /\ tx_ppdu' = NoPpdu
        /\ UNCHANGED <<tx_buf, tx_seq>>
    BY <1>3 DEF FragFree, rle_transmitter_free_context, Returns
  <2>2. tx_free' = tx_free
    BY <2>1 DEF TxInv, TxTypeOK
  <2>3. SendsNothing
    BY <2>1, <2>2 DEF SendsNothing
  <2>4. TxAlpdus'
    BY <1>2, <2>1, <2>2 DEF TxAlpdus
  <2> QED
    BY <1>1, <1>2, <2>3, <2>4
<1>4. CASE FragTooSmall(f, burst)
  <2> DEFINE nb == frag_buf_ppdu_init(tx_buf[f])
  <2>0. tx_buf \in [FragIds -> FragBuf] /\ tx_buf[f] \in FragBuf
    BY DEF TxInv, TxTypeOK
  <2>1. /\ tx_buf' = [tx_buf EXCEPT ![f] = nb] /\ tx_ppdu' = NoPpdu
        /\ UNCHANGED <<tx_free, tx_seq>>
    BY <1>4 DEF FragTooSmall, Returns
  <2>2. /\ nb.id = tx_buf[f].id /\ nb.sdu_info = tx_buf[f].sdu_info /\ nb.hdr = tx_buf[f].hdr
        /\ nb.trailer = tx_buf[f].trailer
        /\ nb.cur_pos = tx_buf[f].cur_pos /\ nb.alpdu_start = tx_buf[f].alpdu_start
    BY <2>0 DEF frag_buf_ppdu_init, FragBuf
  <2> HIDE DEF nb
  <2>3. ASSUME NEW g \in FragIds
        PROVE  /\ alpdu_of(tx_buf'[g], g) = alpdu_of(tx_buf[g], g)
               /\ pos_of(tx_buf'[g]) = pos_of(tx_buf[g])
               /\ tx_buf'[g].id = tx_buf[g].id /\ tx_buf'[g].hdr = tx_buf[g].hdr
               /\ tx_buf'[g].sdu_info = tx_buf[g].sdu_info
               /\ frag_buf_is_fragmented(tx_buf'[g]) <=> frag_buf_is_fragmented(tx_buf[g])
    <3>1. tx_buf'[g] = IF g = f THEN nb ELSE tx_buf[g]
      BY <2>0, <2>1
    <3> QED
      BY <2>2, <3>1 DEF alpdu_of, pos_of, frag_buf_is_fragmented
  <2>4. SendsNothing
    BY <2>1, <2>3 DEF SendsNothing
  <2>5. TxAlpdus'
    BY <1>2, <2>1, <2>3 DEF TxAlpdus
  <2> QED
    BY <1>1, <1>2, <2>4, <2>5
<1>5. ASSUME Sends(f, tx_ppdu') PROVE tx_ppdu' # NoPpdu
  BY <1>5 DEF Sends, PpduOK, Ppdu, PpduTypes, NoPpdu
<1> QED
  BY <1>1, <1>2, <1>3, <1>4, <1>5, CompSends, StartSends, ContSends, EndSends
     DEF rle_fragment

\* rle_encapsulate takes an SDU in: it is the ALPDU of a context that was free.
Accepts(f, sdu) ==
  /\ tx_ret'.status = "ENCAP_OK" /\ tx_free[f]
  /\ tx_count < MaxSdus /\ tx_count' = tx_count + 1
  /\ tx_free' = [tx_free EXCEPT ![f] = FALSE]
  /\ tx_buf'[f].id = tx_count' /\ tx_buf'[f].sdu_info = sdu
  /\ ~frag_buf_is_fragmented(tx_buf'[f]) /\ pos_of(tx_buf'[f]) = 0
  /\ \A g \in FragIds \ {f} : tx_buf'[g] = tx_buf[g]

\* rle_encapsulate refuses an SDU; one that is too long frees the context.
Refuses(f) ==
  /\ tx_ret'.status # "ENCAP_OK"
  /\ tx_free' = tx_free \/ tx_free' = [tx_free EXCEPT ![f] = TRUE]
  /\ UNCHANGED <<tx_count, tx_buf>>

LEMMA EncapsulateOutcome ==
  ASSUME TxInv, TxAlpdus, NEW f \in FragIds, NEW sdu \in TxSdus, rle_encapsulate(f, sdu)
  PROVE  /\ TxInv' /\ TxAlpdus' /\ UNCHANGED <<tx_conf, tx_seq>>
         /\ Accepts(f, sdu) \/ Refuses(f)
<1>1. TxInv'
  BY NextInv DEF TxNext
<1>2. UNCHANGED <<tx_conf, tx_seq>>
  BY DEF rle_encapsulate, EncapTooBig, EncapBusy, EncapOk, Returns
<1>3. tx_free \in [FragIds -> BOOLEAN] /\ tx_buf \in [FragIds -> FragBuf]
      /\ tx_conf \in ConfRecord /\ tx_count \in Nat
  BY DEF TxInv, TxTypeOK
<1>4. CASE EncapTooBig(f, sdu) \/ EncapBusy(f, sdu)
  <2>1. Refuses(f)
    BY <1>4 DEF EncapTooBig, EncapBusy, Returns, rle_transmitter_free_context, Refuses
  <2>2. TxAlpdus'
    BY <1>2, <1>3, <2>1 DEF TxAlpdus, Refuses
  <2> QED
    BY <1>1, <1>2, <2>1, <2>2
<1>5. CASE EncapOk(f, sdu)
  <2> DEFINE b == encapsulated(sdu, tx_count + 1, tx_conf)
  <2>1. /\ tx_free[f] /\ tx_count < MaxSdus /\ tx_buf' = [tx_buf EXCEPT ![f] = b]
        /\ tx_free' = [tx_free EXCEPT ![f] = FALSE] /\ tx_count' = tx_count + 1
        /\ tx_ret'.status = "ENCAP_OK"
    BY <1>5 DEF EncapOk, Returns
  <2>2. /\ b \in FragBuf /\ Adjacent(b) /\ Unsent(b) /\ b.id = tx_count + 1
        /\ b.sdu_info = sdu /\ b.hdr = push_alpdu_hdr(sdu, tx_conf)
    <3>1. sdu \in SduRecord /\ tx_count + 1 \in Nat /\ 0 < sdu.size /\ sdu.size <= MaxPdu
      BY <1>3, <1>5, TxAssumption DEF EncapOk
    <3> DEFINE id == tx_count + 1
    <3> HIDE DEF id
    <3>2. LET e == encapsulated(sdu, id, tx_conf)
          IN /\ e \in FragBuf /\ Adjacent(e) /\ Unsent(e) /\ encap_asserts(e)
             /\ e.id = id /\ e.sdu_info = sdu /\ e.hdr = push_alpdu_hdr(sdu, tx_conf)
      BY <1>3, <3>1, EncapsulatedBuf DEF id
    <3> QED
      BY <3>2 DEF id
  <2> HIDE DEF b
  <2>3. ~frag_buf_is_fragmented(b) /\ pos_of(b) = 0
    BY <2>2, BufBounds DEF Unsent, frag_buf_is_fragmented, pos_of
  <2>4. tx_buf'[f] = b /\ \A g \in FragIds \ {f} : tx_buf'[g] = tx_buf[g]
    BY <1>3, <2>1
  <2>5. Accepts(f, sdu)
    BY <2>1, <2>2, <2>3, <2>4 DEF Accepts
  <2>6. ASSUME NEW g \in FragIds, ~tx_free'[g]
        PROVE  /\ tx_buf'[g].hdr = push_alpdu_hdr(tx_buf'[g].sdu_info, tx_conf')
               /\ tx_buf'[g].id \in 1 .. tx_count'
               /\ frag_buf_is_fragmented(tx_buf'[g])
                    => TrailerOK(alpdu_of(tx_buf'[g], g), tx_conf')
    <3>1. CASE g = f
      <4>1. b.id \in 1 .. tx_count'
        BY <1>3, <2>1, <2>2
      <4> QED
        BY <1>2, <2>2, <2>3, <2>4, <3>1, <4>1
    <3>2. CASE g # f
      <4>1. ~tx_free[g] /\ tx_buf'[g] = tx_buf[g]
        BY <1>3, <2>1, <2>4, <2>6, <3>2
      <4>2. /\ tx_buf[g].hdr = push_alpdu_hdr(tx_buf[g].sdu_info, tx_conf)
            /\ tx_buf[g].id \in 1 .. tx_count
            /\ frag_buf_is_fragmented(tx_buf[g]) => TrailerOK(alpdu_of(tx_buf[g], g), tx_conf)
        BY <4>1 DEF TxAlpdus
      <4>3. tx_buf[g].id \in 1 .. tx_count'
        BY <1>3, <2>1, <4>2
      <4> QED
        BY <1>2, <4>1, <4>2, <4>3
    <3> QED
      BY <3>1, <3>2
  <2>7. TxAlpdus'
    BY <2>6 DEF TxAlpdus
  <2> QED
    BY <1>1, <1>2, <2>5, <2>7
<1> QED
  BY <1>4, <1>5 DEF rle_encapsulate

\* A transmitter that logs on again has forgotten its SDUs.
LEMMA TxRestartOutcome ==
  ASSUME TxInv, TxRestart
  PROVE  TxInv' /\ TxAlpdus' /\ UNCHANGED <<tx_conf, tx_count>>
<1>1. TxInv'
  BY NextInv DEF TxNext
<1> QED
  BY <1>1 DEF TxRestart, TxAlpdus

-----------------------------------------------------------------------------
(* The receiver *)

\* The contexts in use have been opened by PPDUs of the transmitter.
RxStarts == \A f \in RxFragIds : ~rx_free[f] => PpduOK(rx_rasm[f].start, rx_conf)

\* What the receiver finds in the first PPDU of an ALPDU rebuilds its SDU.
LEMMA FirstRebuilt ==
  ASSUME NEW conf \in ConfRecord, NEW p, PpduOK(p, conf), p.type \in {"COMP", "START"},
         ~OmittedAsVlan(p.al.sdu, conf)
  PROVE  /\ rebuilt_sdus(p.al.sdu, p.al.hdr, extracted(p, conf)) = {p.al.sdu}
         /\ extracted(p, conf).len = p.al.hdr.len
<1> DEFINE sdu == p.al.sdu
           h == push_alpdu_hdr(sdu, conf)
           label == get_alpdu_label_type(sdu.ptype, h.len = 0, conf)
           n == carried(p)
<1>1. /\ p \in Ppdu /\ sdu \in SduRecord /\ p.al.hdr = h /\ h.cut < sdu.size
      /\ p.supp = (h.len = 0) /\ p.label = label
      /\ p.lo = 0 /\ n = p.hi - p.lo
      /\ p.type = "COMP" => p.hi = AlpduLen(p.al)
      /\ p.type = "START" => h.len < p.hi
  BY DEF PpduOK, AlpduOK, Alpdu
<1>2. n \in Nat /\ h.len < n /\ 0 < n
  <2>1. h.len \in 0 .. 3 /\ h.cut \in {0, 2} /\ sdu.size \in Nat /\ p.hi \in Nat
    BY <1>1, PpduFields DEF Ppdu
  <2>2. AlpduLen(p.al) = h.len + sdu.size - h.cut
    BY <1>1 DEF AlpduLen
  <2> HIDE DEF h, sdu, n
  <2> QED
    BY <1>1, <2>1, <2>2
<1>3. extracted(p, conf) = alpdu_extract_sdu_frag(h.len = 0, label, h, sdu.ptype, sdu.nib0, n, conf)
  <2> HIDE DEF h, n, label
  <2> QED
    BY <1>1, Zenon DEF extracted, n
<1>4. LET x == alpdu_extract_sdu_frag(h.len = 0, label, h, sdu.ptype, sdu.nib0, n, conf)
      IN rebuilt_sdus(sdu, h, x) = {sdu} /\ x.len = h.len
  <2> HIDE DEF n
  <2>1. LET x == alpdu_extract_sdu_frag(h.len = 0, label, h, sdu.ptype, sdu.nib0, n, conf)
        IN rebuilt_sdus(sdu, h, x) = {sdu}
    <3>1. sdu \in SduRecord /\ n \in Nat /\ push_alpdu_hdr(sdu, conf).len < n
          /\ ~OmittedAsVlan(sdu, conf)
      BY <1>1, <1>2
    <3> HIDE DEF sdu
    <3> QED
      BY <3>1, FragmentRoundTrip, Zenon
  <2>2. alpdu_extract_sdu_frag(h.len = 0, label, h, sdu.ptype, sdu.nib0, n, conf).len = h.len
    <3> HIDE DEF label
    <3> QED
      BY <1>1, <1>2, ExtractedLen
  <2> QED
    BY <2>1, <2>2, Zenon
<1> QED
  BY <1>1, <1>3, <1>4, Zenon

\* What the END PPDU p makes the receiver hand over has the START PPDU of its context,
\* and with a CRC it is the SDU of that one, which has the trailer of p.
EndHandsOver(p) ==
  /\ p.type = "END" /\ ~rx_free[p.frag]
  /\ rx_sdu'.al = rx_rasm[p.frag].start.al
  /\ use_alpdu_crc(rx_conf) =>
       rx_sdu'.sdu = rx_sdu'.al.sdu /\ rx_sdu'.al.id = p.al.id

CompHandsOver(p) ==
  /\ p.type = "COMP" /\ rx_sdu'.al = p.al
  /\ ~OmittedAsVlan(p.al.sdu, rx_conf) => rx_sdu'.sdu = p.al.sdu

\* What is rebuilt from a complete buffer: of the START PPDU of the buffer, and whole
\* when the buffer is.
LEMMA BufRebuilt ==
  ASSUME NEW b, NEW outs \in rebuilt_choices(b), NEW out \in outs
  PROVE  \E sdu : out = HandOver(sdu, b.start,
                       b.whole /\ b.size = b.start.al.sdu.size - b.start.al.hdr.cut)
<1> DEFINE al == b.start.al
           whole == b.whole /\ b.size = al.sdu.size - al.hdr.cut
           x == [ptype |-> b.ptype, comp |-> b.comp, len |-> b.hdr_len]
           part == [NoSdu EXCEPT !.ptype = b.ptype, !.size = b.size]
           more == [NoSdu EXCEPT !.ptype = b.ptype, !.size = b.size + PtypeSize]
<1>1. CASE whole
  <2>1. outs = {HandOver(sdu, b.start, TRUE) : sdu \in rebuilt_sdus(al.sdu, al.hdr, x)}
    BY <1>1, Zenon DEF rebuilt_choices
  <2>2. whole = TRUE
    BY <1>1
  <2> HIDE DEF whole
  <2>3. PICK sdu : out = HandOver(sdu, b.start, TRUE)
    BY <2>1, Zenon
  <2>4. out = HandOver(sdu, b.start, whole)
    BY <2>2, <2>3, Zenon
  <2> QED
    BY <2>4, Zenon DEF whole
<1>2. CASE ~whole
  <2>1. \/ outs = {HandOver(part, b.start, FALSE)}
        \/ outs = {}
        \/ outs = {HandOver(more, b.start, FALSE)}
    <3>1. CASE b.comp # RLE_PROTO_TYPE_VLAN_COMP_WO_PTYPE_FIELD
      BY <1>2, <3>1, Zenon DEF rebuilt_choices
    <3>2. CASE b.comp = RLE_PROTO_TYPE_VLAN_COMP_WO_PTYPE_FIELD
      BY <1>2, <3>2 DEF rebuilt_choices
    <3> QED
      BY <3>1, <3>2
  <2>2. out = HandOver(part, b.start, FALSE) \/ out = HandOver(more, b.start, FALSE)
    BY <2>1, Zenon
  <2>3. whole = FALSE
    BY <1>2
  <2> HIDE DEF whole, part, more
  <2>4. PICK sdu : out = HandOver(sdu, b.start, FALSE)
    BY <2>2, Zenon
  <2>5. out = HandOver(sdu, b.start, whole)
    BY <2>3, <2>4, Zenon
  <2> QED
    BY <2>5, Zenon DEF whole
<1> QED
  BY <1>1, <1>2

LEMMA EndOutcome ==
  ASSUME RxInv, RxStarts, NEW p, PpduOK(p, rx_conf), Arrives(p), RxEndComplete(p), rx_sdu'.some
  PROVE  EndHandsOver(p)
<1> DEFINE f == p.frag
           b == end_buf(p)
           s == rx_rasm[f].start
<1>1. EndAdds(p) /\ p.type = "END" /\ ~rx_free[f] /\ p.type # "COMP"
  BY DEF RxEndComplete, EndAdds
<1>2. /\ f \in RxFragIds /\ rx_rasm[f] \in RasmBuf /\ rx_use_crc[f] = s.use_crc
      /\ s.type = "START"
  BY <1>1 DEF Arrives, RxInv, RxTypeOK, RxBufs, BufOK
<1>3. PpduOK(s, rx_conf)
  BY <1>1, <1>2 DEF RxStarts
<1>4. b.start = s
  <2> DEFINE n == end_sdu_len(p)
             w == /\ rx_rasm[f].whole
                  /\ n = 0 \/ (p.al = s.al /\ p.lo = rx_rasm[f].hdr_len + rx_rasm[f].got)
  <2>1. b = [rx_rasm[f] EXCEPT !.got = rx_rasm[f].got + n, !.whole = w]
    BY DEF end_buf, rasm_buf_add
  <2> HIDE DEF n, w
  <2> QED
    BY <1>2, <2>1 DEF RasmBuf
<1>5. PICK outs \in rebuilt_choices(b) : \E out \in outs :
        rx_sdu' = IF trailer_accepted(f, out, p.al.trailer) THEN out ELSE NoRxSdu
  <2>1. ASSUME EndsWith(p, "C_ERROR", NoRxSdu, 1, 0) PROVE FALSE
    BY <2>1 DEF EndsWith, RxReturns, NoRxSdu
  <2> QED
    BY <2>1 DEF RxEndComplete, EndsWith, RxReturns
<1>6. PICK out \in outs : trailer_accepted(f, out, p.al.trailer) /\ rx_sdu' = out
  BY <1>5 DEF NoRxSdu
<1>7. out.al = s.al
  <2> HIDE DEF b
  <2> QED
    BY <1>4, <1>5, <1>6, BufRebuilt DEF HandOver
<1>8. ASSUME use_alpdu_crc(rx_conf)
      PROVE  rx_sdu'.sdu = rx_sdu'.al.sdu /\ rx_sdu'.al.id = p.al.id
  <2>1. rx_use_crc[f]
    BY <1>2, <1>3, <1>8 DEF PpduOK
  <2>2. out.sdu = out.al.sdu /\ p.al.trailer = out.al.trailer
    BY <1>6, <2>1 DEF trailer_accepted, crc_matches
  <2>3. p.al.trailer.val = p.al.id /\ s.al.trailer.val = s.al.id
    <3>1. TrailerOK(p.al, rx_conf) /\ TrailerOK(s.al, rx_conf)
      BY <1>1, <1>2, <1>3 DEF PpduOK
    <3> QED
      BY <1>8, <3>1 DEF TrailerOK
  <2> QED
    BY <1>6, <1>7, <2>2, <2>3
<1> QED
  BY <1>1, <1>6, <1>7, <1>8 DEF EndHandsOver

\* Contexts in use after a call were in use with the same START PPDU, or were opened
\* by the PPDU of the call.
Reopens(p) ==
  \A g \in RxFragIds :
    ~rx_free'[g] => \/ ~rx_free[g] /\ rx_rasm'[g].start = rx_rasm[g].start
                    \/ p.type = "START" /\ p.frag = g /\ rx_rasm'[g].start = p

LEMMA DeencapOutcome ==
  ASSUME RxInv, RxStarts, NEW p, PpduOK(p, rx_conf), Arrives(p), rle_receiver_deencap_data(p)
  PROVE  /\ RxInv' /\ rx_conf' = rx_conf /\ RxStarts' /\ Reopens(p)
         /\ rx_sdu'.some => CompHandsOver(p) \/ EndHandsOver(p)
<1>1. RxInv' /\ rx_conf' = rx_conf
  BY DeencapInv
<1>2. /\ rx_free \in [RxFragIds -> BOOLEAN] /\ rx_rasm \in [RxFragIds -> RasmBuf]
      /\ rx_conf \in ConfRecord
  BY DEF RxInv, RxTypeOK
<1>3. p.type # "COMP" => p.frag \in RxFragIds
  BY DEF Arrives
<1>4. Reopens(p)
  <2>1. ASSUME UNCHANGED <<rx_free, rx_rasm>> PROVE Reopens(p)
    BY <2>1 DEF Reopens
  <2>2. ASSUME rle_receiver_free_context(p.frag), p.type # "COMP",
               NEW b, rx_rasm' = [rx_rasm EXCEPT ![p.frag] = b]
        PROVE  Reopens(p)
    BY <1>2, <1>3, <2>2 DEF Reopens, rle_receiver_free_context
  <2>3. ASSUME rle_receiver_free_context(p.frag), p.type # "COMP", rx_rasm' = rx_rasm
        PROVE  Reopens(p)
    BY <1>2, <1>3, <2>3 DEF Reopens, rle_receiver_free_context
  <2>4. CASE RxComp(p)
    BY <2>1, <2>4 DEF RxComp
  <2>5. CASE RxStart(p)
    <3> DEFINE x == extracted(p, rx_conf)
               n == carried(p) - x.len
               opened == [size |-> start_sdu_len(p, x), got |-> 0, ptype |-> x.ptype,
                          comp |-> x.comp, hdr_len |-> x.len, start |-> p,
                          whole |-> x.len = p.al.hdr.len]
               b == rasm_buf_add(opened, [p EXCEPT !.lo = x.len], n)
    <3>1. /\ p.type = "START" /\ rx_free' = [rx_free EXCEPT ![p.frag] = FALSE]
          /\ rx_rasm' = [rx_rasm EXCEPT ![p.frag] = b]
      BY <2>5 DEF RxStart
    <3>2. b.start = p
      <4> HIDE DEF x, n
      <4> QED
        BY DEF rasm_buf_add
    <3> HIDE DEF b
    <3> QED
      BY <1>2, <1>3, <3>1, <3>2 DEF Reopens
  <2>6. CASE RxCont(p)
    <3> DEFINE b == rasm_buf_add(rx_rasm[p.frag], p, carried(p))
    <3>1. /\ p.type = "CONT" /\ ~rx_free[p.frag] /\ rx_free' = rx_free
          /\ rx_rasm' = [rx_rasm EXCEPT ![p.frag] = b]
      BY <2>6 DEF RxCont
    <3>2. b.start = rx_rasm[p.frag].start
      <4>1. rx_rasm[p.frag] \in RasmBuf
        BY <1>2, <1>3, <3>1
      <4> QED
        BY <4>1 DEF rasm_buf_add, RasmBuf
    <3> HIDE DEF b
    <3> QED
      BY <1>2, <1>3, <3>1, <3>2 DEF Reopens
  <2>7. CASE RxStartError(p) \/ RxContError(p) \/ RxEndFree(p) \/ RxEndRefused(p)
    BY <2>3, <2>7 DEF RxStartError, RxContError, DropOne, RxEndFree, RxEndRefused, EndsWith
  <2>8. CASE RxEndShort(p) \/ RxEndComplete(p)
    BY <2>2, <2>8 DEF RxEndShort, RxEndComplete, EndAdds, EndsWith
  <2> QED
    BY <2>4, <2>5, <2>6, <2>7, <2>8 DEF rle_receiver_deencap_data
<1>5. RxStarts'
  BY <1>1, <1>4 DEF RxStarts, Reopens
<1>6. rx_sdu'.some => CompHandsOver(p) \/ EndHandsOver(p)
  <2> HAVE rx_sdu'.some
  <2>1. CASE RxComp(p)
    <3>1. PICK sdu \in rebuilt_sdus(p.al.sdu, p.al.hdr, extracted(p, rx_conf)) :
            rx_sdu' = HandOver(sdu, p, TRUE)
      <4>1. rx_sdu' # NoRxSdu
        BY DEF NoRxSdu
      <4> QED
        BY <2>1, <4>1, Zenon DEF RxComp, RxReturns
    <3>2. p.type = "COMP"
      BY <2>1 DEF RxComp
    <3> QED
      BY <1>2, <3>1, <3>2, FirstRebuilt DEF CompHandsOver, HandOver
  <2>2. CASE RxEndComplete(p)
    BY <2>2, EndOutcome
  <2>3. CASE ~RxComp(p) /\ ~RxEndComplete(p)
    <3>1. rx_sdu' = NoRxSdu
      BY <2>3 DEF rle_receiver_deencap_data, RxStart, RxStartError, RxCont, RxContError,
                  RxEndFree, RxEndRefused, RxEndShort, EndsWith, DropOne, RxReturns
    <3> QED
      BY <3>1 DEF NoRxSdu
  <2> QED
    BY <2>1, <2>2, <2>3
<1> QED
  BY <1>1, <1>4, <1>5, <1>6

-----------------------------------------------------------------------------
(* Both ends *)

LEMMA Appended ==
  ASSUME NEW S, NEW s \in Seq(S), NEW e \in S
  PROVE  /\ Append(s, e) \in Seq(S) /\ Len(Append(s, e)) = Len(s) + 1 /\ Len(s) \in Nat
         /\ Append(s, e)[Len(s) + 1] = e
         /\ \A i \in 1 .. Len(s) : Append(s, e)[i] = s[i] /\ s[i] \in S
  OBVIOUS

LEMMA Received ==
  ASSUME NEW S, NEW s \in Seq(S), s # << >>
  PROVE  /\ Tail(s) \in Seq(S) /\ Len(Tail(s)) = Len(s) - 1 /\ Len(s) \in Nat \ {0}
         /\ Head(s) = s[1] /\ Head(s) \in S
         /\ \A i \in 1 .. Len(s) - 1 : Tail(s)[i] = s[i + 1]
  OBVIOUS

LEMMA Elements ==
  ASSUME NEW S, NEW s \in Seq(S)
  PROVE  DOMAIN s = 1 .. Len(s) /\ Len(s) \in Nat /\ \A i \in 1 .. Len(s) : s[i] \in S
  OBVIOUS

\* What the user sees of an ALPDU, and what he gave to the transmitter so far.
Item(al) == [id |-> al.id, sdu |-> al.sdu]

SduItems == [id : Nat, sdu : TxSdus]

NewItem(n, sdu) == [id |-> n, sdu |-> sdu]

Took(sent, f, item) == [sent EXCEPT ![f] = Append(@, item)]

Known(al, sent) == \E k \in 1 .. Len(sent[al.frag]) : sent[al.frag][k] = Item(al)

\* SDUs are numbered in the order they are accepted.
SentOK(sent, count) ==
  /\ sent \in [FragIds -> Seq(SduItems)]
  /\ \A f \in FragIds : \A i \in 1 .. Len(sent[f]) :
       /\ sent[f][i].id \in 1 .. count /\ count <= MaxSdus
       /\ \A j \in 1 .. Len(sent[f]) : i < j => sent[f][i].id < sent[f][j].id

\* A transmitter and a receiver of one configuration, and the SDUs that the
\* transmitter was given: all they know of is one of these.
Ends(sent) ==
  /\ RxFragIds = FragIds
  /\ TxInv /\ TxAlpdus /\ RxInv /\ RxStarts
  /\ rx_conf = tx_conf /\ tx_conf \in TxConfs
  /\ SentOK(sent, tx_count)
  /\ \A f \in FragIds : /\ ~tx_free[f] => Known(alpdu_of(tx_buf[f], f), sent)
                        /\ ~rx_free[f] => Known(rx_rasm[f].start.al, sent)

\* A PPDU of an SDU that the transmitter was given.
Sent(p, sent) == PpduOK(p, tx_conf) /\ Known(p.al, sent)

\* The last PPDU of an ALPDU.
Final(p) == p.type \in {"COMP", "END"}

LEMMA EndsInit ==
  ASSUME RxFragIds = FragIds, TxInit, RxInit, rx_conf = tx_conf,
         NEW sent, sent = [f \in FragIds |-> << >>]
  PROVE  Ends(sent)
<1>1. TxInv /\ RxInv
  BY InitInv, RxInitInv
<1>2. \A f \in FragIds : tx_free[f] /\ rx_free[f]
  BY DEF TxInit, RxInit
<1>3. TxAlpdus /\ RxStarts
  BY <1>2 DEF TxAlpdus, RxStarts
<1>4. SentOK(sent, tx_count)
  BY DEF SentOK
<1>5. rx_conf = tx_conf /\ tx_conf \in TxConfs
  BY DEF TxInit
<1> QED
  BY <1>1, <1>2, <1>3, <1>4, <1>5 DEF Ends

\* SDUs that were accepted remain known when another one is.
LEMMA KnownKept ==
  ASSUME NEW sent \in [FragIds -> Seq(SduItems)], NEW f \in FragIds,
         NEW item \in SduItems, NEW al, al.frag \in FragIds, Known(al, sent)
  PROVE  Known(al, [sent EXCEPT ![f] = Append(@, item)])
<1> DEFINE more == [sent EXCEPT ![f] = Append(@, item)]
           g == al.frag
<1>1. PICK k \in 1 .. Len(sent[g]) : sent[g][k] = Item(al)
  BY DEF Known
<1>2. CASE g = f
  <2>1. more[g] = Append(sent[g], item)
    BY <1>2
  <2>2. sent[g] \in Seq(SduItems)
    BY <1>2
  <2>3. Len(more[g]) = Len(sent[g]) + 1 /\ Len(sent[g]) \in Nat /\ more[g][k] = sent[g][k]
    BY <1>1, <2>1, <2>2, Appended
  <2>4. k \in 1 .. Len(more[g])
    BY <1>1, <2>3
  <2> QED
    BY <1>1, <2>3, <2>4 DEF Known
<1>3. CASE g # f
  BY <1>1, <1>3 DEF Known
<1> QED
  BY <1>2, <1>3

LEMMA SameKnown ==
  ASSUME NEW sent, NEW al, NEW al2, al.frag = al2.frag, al.id = al2.id, al.sdu = al2.sdu,
         Known(al, sent)
  PROVE  Known(al2, sent)
  BY DEF Known, Item

\* The numbering goes on with an SDU that is accepted.
LEMMA SentMore ==
  ASSUME NEW sent, NEW count \in Nat, SentOK(sent, count), count < MaxSdus,
         NEW f \in FragIds, NEW sdu \in TxSdus,
         NEW n, n = count + 1
  PROVE  LET more == Took(sent, f, NewItem(n, sdu))
         IN /\ SentOK(more, n)
            /\ Len(more[f]) = Len(sent[f]) + 1 /\ Len(sent[f]) \in Nat
            /\ more[f][Len(sent[f]) + 1] = NewItem(n, sdu)
            /\ \A i \in 1 .. Len(sent[f]) : more[f][i] = sent[f][i]
            /\ \A g \in FragIds \ {f} : more[g] = sent[g]
            /\ \A al : al.frag \in FragIds /\ Known(al, sent) => Known(al, more)
<1> DEFINE item == NewItem(count + 1, sdu)
           more == [sent EXCEPT ![f] = Append(@, item)]
           len == Len(sent[f])
<1>1. item \in SduItems /\ item.id = count + 1
  BY DEF SduItems, NewItem
<1>2. /\ sent \in [FragIds -> Seq(SduItems)] /\ sent[f] \in Seq(SduItems) /\ MaxSdus \in Nat
      /\ \A g \in FragIds : \A i \in 1 .. Len(sent[g]) :
           /\ sent[g][i].id \in 1 .. count
           /\ \A j \in 1 .. Len(sent[g]) : i < j => sent[g][i].id < sent[g][j].id
  BY TxAssumption DEF SentOK
<1> HIDE DEF item
<1>3. /\ more[f] = Append(sent[f], item) /\ \A g \in FragIds \ {f} : more[g] = sent[g]
      /\ Len(more[f]) = len + 1 /\ len \in Nat /\ more[f][len + 1] = item
      /\ \A i \in 1 .. len : more[f][i] = sent[f][i]
      /\ more \in [FragIds -> Seq(SduItems)]
  <2>1. /\ Append(sent[f], item) \in Seq(SduItems) /\ Len(Append(sent[f], item)) = len + 1
        /\ len \in Nat /\ Append(sent[f], item)[len + 1] = item
        /\ \A i \in 1 .. len : Append(sent[f], item)[i] = sent[f][i]
    BY <1>1, <1>2, Appended
  <2> QED
    BY <1>2, <2>1
<1>4. ASSUME NEW al, al.frag \in FragIds, Known(al, sent) PROVE Known(al, more)
  BY <1>1, <1>2, <1>4, KnownKept
<1> HIDE DEF more
<1>5. count + 1 <= MaxSdus /\ count + 1 \in 1 .. count + 1
      /\ \A m \in 1 .. count : m \in 1 .. count + 1 /\ m < count + 1
  BY <1>2
<1>6. ASSUME NEW g \in FragIds, NEW i \in 1 .. Len(more[g])
      PROVE  /\ more[g][i].id \in 1 .. count + 1
             /\ \A j \in 1 .. Len(more[g]) : i < j => more[g][i].id < more[g][j].id
  <2>1. CASE g # f
    BY <1>2, <1>3, <1>5, <2>1
  <2>2. CASE g = f
    <3>1. \A k \in 1 .. Len(more[f]) : k \in 1 .. len \/ k = len + 1
      <4>1. Len(more[f]) = len + 1 /\ len \in Nat
        BY <1>3
      <4> HIDE DEF len, more
      <4> QED
        BY <4>1
    <3>2. \A k \in 1 .. len : more[f][k].id \in 1 .. count
      BY <1>2, <1>3
    <3>3. more[g][i].id \in 1 .. count + 1
      BY <1>1, <1>3, <1>5, <2>2, <3>1, <3>2
    <3>4. ASSUME NEW j \in 1 .. Len(more[g]), i < j PROVE more[g][i].id < more[g][j].id
      <4>1. i \in 1 .. len
        BY <1>3, <2>2, <3>4
      <4>2. CASE j \in 1 .. len
        BY <1>2, <1>3, <2>2, <3>4, <4>1, <4>2
      <4>3. CASE j = len + 1
        BY <1>1, <1>3, <1>5, <2>2, <3>2, <4>1, <4>3
      <4> QED
        BY <2>2, <3>1, <4>2, <4>3
    <3> QED
      BY <3>3, <3>4
  <2> QED
    BY <2>1, <2>2
<1>7. SentOK(more, count + 1)
  BY <1>3, <1>5, <1>6 DEF SentOK
<1> QED
  BY <1>3, <1>4, <1>7 DEF item, more, Took

\* rle_encapsulate
LEMMA EndsEncap ==
  ASSUME NEW sent, NEW more, Ends(sent), NEW f \in FragIds, NEW sdu \in TxSdus,
         rle_encapsulate(f, sdu), UNCHANGED rx_vars,
         more = IF tx_ret'.status = "ENCAP_OK"
                  THEN [sent EXCEPT ![f] = Append(@, [id |-> tx_count', sdu |-> sdu])] ELSE sent
  PROVE  /\ Accepts(f, sdu) \/ Refuses(f)
         /\ TxInv' /\ TxAlpdus' /\ RxInv' /\ RxStarts' /\ SentOK(more, tx_count')
         /\ UNCHANGED <<tx_conf, tx_seq, rx_conf, rx_sdu>>
         /\ \A g \in FragIds : /\ ~tx_free'[g] => Known(alpdu_of(tx_buf'[g], g), more)
                               /\ ~rx_free'[g] => Known(rx_rasm'[g].start.al, more)
         /\ \A al : al.frag \in FragIds /\ Known(al, sent) => Known(al, more)
<1>1. /\ TxInv' /\ TxAlpdus' /\ UNCHANGED <<tx_conf, tx_seq>>
      /\ Accepts(f, sdu) \/ Refuses(f)
  BY EncapsulateOutcome DEF Ends
<1>2. RxInv' /\ RxStarts' /\ UNCHANGED <<rx_conf, rx_free, rx_rasm, rx_sdu>>
  BY RxStutters DEF Ends, RxStarts, rx_vars
<1>3. tx_free \in [FragIds -> BOOLEAN] /\ tx_count \in Nat /\ SentOK(sent, tx_count)
  BY DEF Ends, TxInv, TxTypeOK
<1>4. \A g \in FragIds : /\ ~tx_free[g] => Known(alpdu_of(tx_buf[g], g), sent)
                         /\ ~rx_free[g] => /\ Known(rx_rasm[g].start.al, sent)
                                           /\ rx_rasm[g].start.al.frag \in FragIds
  BY DEF Ends, RxStarts, PpduOK, AlpduOK
<1>5. CASE Accepts(f, sdu)
  <2> DEFINE item == NewItem(tx_count', sdu)
  <2>1. more = Took(sent, f, item) /\ tx_count' = tx_count + 1 /\ tx_count < MaxSdus
    BY <1>5 DEF Accepts, Took, NewItem
  <2>2. /\ SentOK(more, tx_count') /\ Len(more[f]) = Len(sent[f]) + 1 /\ Len(sent[f]) \in Nat
        /\ more[f][Len(sent[f]) + 1] = item
        /\ \A al : al.frag \in FragIds /\ Known(al, sent) => Known(al, more)
    <3> HIDE DEF item
    <3>1. LET m == Took(sent, f, NewItem(tx_count', sdu))
          IN /\ SentOK(m, tx_count') /\ Len(m[f]) = Len(sent[f]) + 1 /\ Len(sent[f]) \in Nat
             /\ m[f][Len(sent[f]) + 1] = NewItem(tx_count', sdu)
             /\ \A al : al.frag \in FragIds /\ Known(al, sent) => Known(al, m)
      BY <1>3, <2>1, SentMore
    <3> QED
      BY <2>1, <3>1 DEF item
  <2>3. ASSUME NEW g \in FragIds, ~tx_free'[g] PROVE Known(alpdu_of(tx_buf'[g], g), more)
    <3>1. CASE g = f
      <4>1. Item(alpdu_of(tx_buf'[f], f)) = item /\ alpdu_of(tx_buf'[f], f).frag = f
        BY <1>5 DEF Accepts, alpdu_of, Item, NewItem
      <4>2. Len(sent[f]) + 1 \in 1 .. Len(more[f])
        BY <2>2
      <4> QED
        BY <2>2, <3>1, <4>1, <4>2 DEF Known
    <3>2. CASE g # f
      <4>1. ~tx_free[g] /\ tx_buf'[g] = tx_buf[g]
        BY <1>3, <1>5, <2>3, <3>2 DEF Accepts
      <4>2. alpdu_of(tx_buf[g], g).frag = g
        BY DEF alpdu_of
      <4> QED
        BY <1>4, <2>2, <4>1, <4>2
    <3> QED
      BY <3>1, <3>2
  <2>4. ASSUME NEW g \in FragIds, ~rx_free'[g] PROVE Known(rx_rasm'[g].start.al, more)
    BY <1>2, <1>4, <2>2, <2>4
  <2> QED
    BY <1>1, <1>2, <1>5, <2>2, <2>3, <2>4
<1>6. CASE Refuses(f)
  <2>1. more = sent /\ tx_count' = tx_count /\ tx_buf' = tx_buf
        /\ \A g \in FragIds : ~tx_free'[g] => ~tx_free[g]
    BY <1>3, <1>6 DEF Refuses
  <2> QED
    BY <1>1, <1>2, <1>3, <1>4, <1>6, <2>1
<1> QED
  BY <1>1, <1>5, <1>6

\* A step of one end, or of none.
LEMMA EndsTx ==
  ASSUME NEW sent, Ends(sent), UNCHANGED rx_vars, TxInv', TxAlpdus',
         UNCHANGED <<tx_conf, tx_count>>,
         \A f \in FragIds : ~tx_free'[f] => Known(alpdu_of(tx_buf'[f], f), sent)
  PROVE  Ends(sent)' /\ UNCHANGED <<rx_conf, rx_sdu>>
<1>1. RxInv' /\ UNCHANGED <<rx_conf, rx_free, rx_rasm, rx_sdu>>
  BY RxStutters DEF Ends, rx_vars
<1>2. RxStarts'
  BY <1>1 DEF Ends, RxStarts
<1> QED
  BY <1>1, <1>2 DEF Ends

LEMMA EndsRx ==
  ASSUME NEW sent, Ends(sent), UNCHANGED tx_vars, RxInv', RxStarts', rx_conf' = rx_conf,
         \A f \in FragIds : ~rx_free'[f] => Known(rx_rasm'[f].start.al, sent)
  PROVE  Ends(sent)' /\ UNCHANGED <<tx_conf, tx_free, tx_buf, tx_count, tx_seq>>
<1>1. TxInv' /\ UNCHANGED <<tx_conf, tx_free, tx_buf, tx_count, tx_seq>>
  BY NextInv DEF Ends, tx_vars
<1>2. TxAlpdus'
  BY <1>1 DEF Ends, TxAlpdus
<1> QED
  BY <1>1, <1>2 DEF Ends

LEMMA EndsSame ==
  ASSUME NEW sent, Ends(sent), UNCHANGED tx_vars, UNCHANGED rx_vars
  PROVE  Ends(sent)' /\ UNCHANGED <<tx_conf, tx_free, tx_buf, tx_count, tx_seq>>
<1>1. RxInv' /\ UNCHANGED <<rx_conf, rx_free, rx_rasm>>
  BY RxStutters DEF Ends, rx_vars
<1>2. RxStarts' /\ \A f \in FragIds : ~rx_free'[f] => Known(rx_rasm'[f].start.al, sent)
  BY <1>1 DEF Ends, RxStarts
<1> QED
  BY <1>1, <1>2, EndsRx

\* rle_fragment
LEMMA EndsSend ==
  ASSUME NEW sent, Ends(sent), NEW f \in FragIds, NEW burst \in Bursts,
         rle_fragment(f, burst), UNCHANGED rx_vars
  PROVE  /\ Ends(sent)' /\ UNCHANGED <<tx_conf, tx_count, rx_conf, rx_sdu>>
         /\ \/ SendsNothing
            \/ Sends(f, tx_ppdu') /\ tx_ppdu' # NoPpdu /\ tx_ppdu' \in Ppdu /\ Sent(tx_ppdu', sent)
<1>1. /\ TxInv' /\ TxAlpdus' /\ UNCHANGED <<tx_conf, tx_count>>
      /\ SendsNothing \/ (Sends(f, tx_ppdu') /\ tx_ppdu' # NoPpdu)
  BY FragmentSends DEF Ends
<1>2. tx_free \in [FragIds -> BOOLEAN]
      /\ \A g \in FragIds : ~tx_free[g] => Known(alpdu_of(tx_buf[g], g), sent)
  BY DEF Ends, TxInv, TxTypeOK
<1>3. CASE SendsNothing
  <2>1. \A g \in FragIds : ~tx_free'[g] => Known(alpdu_of(tx_buf'[g], g), sent)
    <3> TAKE g \in FragIds
    <3>1. tx_free' = tx_free /\ alpdu_of(tx_buf'[g], g) = alpdu_of(tx_buf[g], g)
      BY <1>3 DEF SendsNothing
    <3> QED
      BY <1>2, <3>1
  <2> QED
    BY <1>1, <1>3, <2>1, EndsTx
<1>4. CASE Sends(f, tx_ppdu') /\ tx_ppdu' # NoPpdu
  <2> DEFINE p == tx_ppdu'
  <2>1. /\ p \in Ppdu /\ PpduOK(p, tx_conf) /\ ~tx_free[f]
        /\ p.al = alpdu_of(tx_buf'[f], f) /\ p.al.id = tx_buf[f].id
        /\ p.al.sdu = tx_buf[f].sdu_info
        /\ tx_free' = [tx_free EXCEPT ![f] = p.type \in {"COMP", "END"}]
        /\ \A g \in FragIds \ {f} : tx_buf'[g] = tx_buf[g]
    BY <1>4 DEF Sends, PpduOK
  <2> HIDE DEF p
  <2>2. Known(p.al, sent)
    <3>1. /\ alpdu_of(tx_buf[f], f).frag = f /\ alpdu_of(tx_buf[f], f).id = p.al.id
          /\ alpdu_of(tx_buf[f], f).sdu = p.al.sdu /\ p.al.frag = f
      BY <2>1 DEF alpdu_of
    <3> QED
      BY <1>2, <2>1, <3>1, SameKnown
  <2>3. \A g \in FragIds : ~tx_free'[g] => Known(alpdu_of(tx_buf'[g], g), sent)
    <3> TAKE g \in FragIds
    <3>1. CASE g = f
      BY <2>1, <2>2, <3>1
    <3>2. CASE g # f
      BY <1>2, <2>1, <3>2
    <3> QED
      BY <3>1, <3>2
  <2>4. Sent(p, sent)
    BY <2>1, <2>2 DEF Sent
  <2>5. Ends(sent)' /\ UNCHANGED <<rx_conf, rx_sdu>>
    BY <1>1, <2>3, EndsTx
  <2> QED
    BY <1>1, <1>4, <2>1, <2>4, <2>5 DEF p
<1> QED
  BY <1>1, <1>3, <1>4

LEMMA EndsTxRestart ==
  ASSUME NEW sent, Ends(sent), TxRestart, UNCHANGED rx_vars
  PROVE  /\ Ends(sent)' /\ UNCHANGED <<tx_conf, tx_count, rx_conf>>
         /\ \A f \in FragIds : tx_free'[f] /\ tx_seq'[f] = 0
<1>1. TxInv' /\ TxAlpdus' /\ UNCHANGED <<tx_conf, tx_count>>
  BY TxRestartOutcome DEF Ends
<1>2. \A f \in FragIds : tx_free'[f] /\ tx_seq'[f] = 0
  BY DEF TxRestart
<1> QED
  BY <1>1, <1>2, EndsTx

LEMMA EndsRxRestart ==
  ASSUME NEW sent, Ends(sent), RxRestart, UNCHANGED tx_vars
  PROVE  /\ Ends(sent)' /\ UNCHANGED <<tx_conf, tx_free, tx_buf, tx_count, tx_seq, rx_conf>>
         /\ \A f \in FragIds : rx_free'[f] /\ ~rx_seq_init'[f]
<1>1. RxInv' /\ rx_conf' = rx_conf
  BY RestartInv DEF Ends
<1>2. \A f \in FragIds : rx_free'[f] /\ ~rx_seq_init'[f]
  BY DEF RxRestart, Ends
<1>3. RxStarts'
  BY <1>2 DEF RxStarts, Ends
<1> QED
  BY <1>1, <1>2, <1>3, EndsRx

\* What is known of an SDU that was accepted.
LEMMA KnownItem ==
  ASSUME NEW sent, Ends(sent), NEW al, al.frag \in FragIds, Known(al, sent)
  PROVE  /\ al.id \in 1 .. tx_count /\ al.sdu \in TxSdus /\ tx_count \in Nat
         /\ \E k \in 1 .. Len(sent[al.frag]) :
              /\ sent[al.frag][k] = Item(al)
              /\ \A j \in k .. Len(sent[al.frag]) : sent[al.frag][j].id >= al.id
<1> DEFINE f == al.frag
           s == sent[f]
<1>1. PICK k \in 1 .. Len(s) : s[k] = Item(al)
  BY DEF Known
<1>2. /\ s \in Seq(SduItems) /\ Len(s) \in Nat
      /\ \A i \in 1 .. Len(s) : /\ s[i].id \in 1 .. tx_count
                                /\ \A j \in 1 .. Len(s) : i < j => s[i].id < s[j].id
  <2>1. SentOK(sent, tx_count)
    BY DEF Ends
  <2>2. s \in Seq(SduItems)
    BY <2>1 DEF SentOK
  <2>3. Len(s) \in Nat
    BY <2>2
  <2> QED
    BY <2>1, <2>2, <2>3 DEF SentOK
<1> HIDE DEF s
<1>3. s[k] \in SduItems /\ s[k].id = al.id /\ s[k].sdu = al.sdu
  BY <1>1, <1>2, Elements DEF Item
<1>4. ASSUME NEW j \in k .. Len(s) PROVE s[j].id >= al.id
  <2>1. j \in 1 .. Len(s) /\ (k = j \/ k < j)
    BY <1>2
  <2>2. s[j].id \in Int /\ s[k].id \in Int
    BY <1>2, <2>1
  <2> QED
    BY <1>2, <1>3, <2>1, <2>2
<1>5. tx_count \in Nat
  BY DEF Ends, TxInv, TxTypeOK
<1> QED
  BY <1>1, <1>2, <1>3, <1>4, <1>5 DEF s, SduItems

LEMMA SentPpdu ==
  ASSUME NEW sent, Ends(sent), NEW p, Sent(p, sent)
  PROVE  /\ p \in Ppdu /\ p.al.frag \in FragIds /\ p.al.id \in 1 .. tx_count
         /\ p.al.sdu \in TxSdus /\ PpduOK(p, rx_conf) /\ Arrives(p)
<1>1. PpduOK(p, tx_conf) /\ Known(p.al, sent) /\ p \in Ppdu /\ p.al.frag \in FragIds
  BY DEF Sent, PpduOK, AlpduOK
<1>2. rx_conf = tx_conf /\ tx_conf \in ConfRecord /\ RxFragIds = FragIds
  BY DEF Ends, TxInv, TxTypeOK
<1>3. WellFormed(p, tx_conf) /\ (p.type # "COMP" => p.frag \in FragIds)
  BY <1>1, <1>2, PpduWellFormed
<1>4. Arrives(p)
  BY <1>2, <1>3 DEF Arrives
<1> QED
  BY <1>1, <1>2, <1>4, KnownItem

\* rle_receiver_deencap_data of a PPDU of the transmitter.
LEMMA EndsReceive ==
  ASSUME NEW sent, Ends(sent), NEW p, Sent(p, sent), rle_receiver_deencap_data(p),
         UNCHANGED tx_vars
  PROVE  /\ Ends(sent)' /\ UNCHANGED <<tx_conf, tx_free, tx_buf, tx_count, tx_seq, rx_conf>>
         /\ rx_sdu'.some => CompHandsOver(p) \/ EndHandsOver(p)
<1>1. /\ p.al.frag \in FragIds /\ PpduOK(p, rx_conf) /\ Arrives(p) /\ Known(p.al, sent)
  BY SentPpdu DEF Sent
<1>2. /\ RxInv' /\ rx_conf' = rx_conf /\ RxStarts' /\ Reopens(p)
      /\ rx_sdu'.some => CompHandsOver(p) \/ EndHandsOver(p)
  BY <1>1, DeencapOutcome DEF Ends
<1>3. ASSUME NEW f \in FragIds, ~rx_free'[f] PROVE Known(rx_rasm'[f].start.al, sent)
  BY <1>1, <1>2, <1>3 DEF Reopens, Ends
<1> QED
  BY <1>2, <1>3, EndsRx

-----------------------------------------------------------------------------
(* With CRC trailers *)

\* Every trailer is a CRC, and no SDU loses its protocol type to be taken for a VLAN
\* frame (README, findings).
CrcProtected ==
  \A c \in TxConfs : use_alpdu_crc(c) /\ \A sdu \in TxSdus : ~OmittedAsVlan(sdu, c)

\* What a call hands over is an SDU that was accepted, and the PPDU of the call is its
\* last one.
LEMMA HandsOverItem ==
  ASSUME NEW sent, Ends(sent), CrcProtected, NEW p, Sent(p, sent),
         CompHandsOver(p) \/ EndHandsOver(p)
  PROVE  LET al == rx_sdu'.al
         IN /\ al.frag \in FragIds /\ Known(al, sent) /\ rx_sdu'.sdu = al.sdu
            /\ Final(p) /\ al.frag = p.al.frag /\ al.id = p.al.id
<1> DEFINE al == rx_sdu'.al
<1>1. /\ PpduOK(p, rx_conf) /\ Known(p.al, sent) /\ p.al.frag \in FragIds
      /\ p.al.sdu \in TxSdus
  BY SentPpdu DEF Sent
<1>2. use_alpdu_crc(rx_conf) /\ rx_conf = tx_conf /\ tx_conf \in TxConfs
  BY DEF Ends, CrcProtected
<1>3. CASE CompHandsOver(p)
  <2>1. ~OmittedAsVlan(p.al.sdu, rx_conf)
    BY <1>1, <1>2 DEF CrcProtected
  <2> QED
    BY <1>1, <1>3, <2>1 DEF CompHandsOver, Final
<1>4. CASE EndHandsOver(p)
  <2> DEFINE s == rx_rasm[p.frag].start
  <2>1. /\ p.type = "END" /\ ~rx_free[p.frag] /\ al = s.al /\ p.frag = p.al.frag
        /\ rx_sdu'.sdu = al.sdu /\ al.id = p.al.id
    BY <1>1, <1>2, <1>4 DEF EndHandsOver, PpduOK
  <2>2. s.al.frag = p.frag /\ Known(s.al, sent)
    <3>1. PpduOK(s, rx_conf) /\ s.type = "START" /\ s.frag = p.frag
      BY <1>1, <2>1 DEF Ends, RxStarts, RxInv, RxBufs, BufOK
    <3>2. Known(s.al, sent)
      BY <1>1, <2>1 DEF Ends
    <3> QED
      BY <3>1, <3>2 DEF PpduOK
  <2> QED
    BY <1>1, <2>1, <2>2 DEF Final
<1> QED
  BY <1>3, <1>4

-----------------------------------------------------------------------------
(* While nothing is lost *)

\* No SDU loses its protocol type to be taken for a VLAN frame (README, findings).
NoneAsVlan == \A c \in TxConfs : \A sdu \in TxSdus : ~OmittedAsVlan(sdu, c)

\* A cursor is how far the PPDUs of one fragment id have got: n SDUs are complete, pos
\* bytes of the ALPDU al have gone by, and seq is the next sequence number.
After(p, c) ==
  [n   |-> IF Final(p) THEN c.n + 1 ELSE c.n,
   pos |-> IF Final(p) THEN 0 ELSE p.hi,
   al  |-> p.al,
   seq |-> IF p.type = "START" /\ p.al.trailer.kind = "seq"
             THEN rle_ctx_incr_seq_nb(p.al.trailer.val) ELSE c.seq]

\* p is the PPDU that comes next at the cursor c, among those of the SDUs s.
Follows(p, c, s) ==
  /\ p.lo = c.pos
  /\ c.n \in Nat /\ c.n + 1 \in 1 .. Len(s) /\ s[c.n + 1] = Item(p.al)
  /\ p.type \in {"CONT", "END"} => p.al = c.al
  /\ p.type = "START" /\ p.al.trailer.kind = "seq" => p.al.trailer.val \in {c.seq, 0}

Moves(f, p, c, d, s) == IF p.al.frag = f THEN Follows(p, c, s) /\ d = After(p, c) ELSE d = c

\* The PPDUs ps take the cursor of f from a to b.
Stream(f, ps, a, b, s) ==
  \E c : /\ c[0] = a /\ c[Len(ps)] = b
         /\ \A i \in 1 .. Len(ps) : Moves(f, ps[i], c[i - 1], c[i], s)

\* A context of the transmitter with the cursor c: what it sends next follows.
TxAt(f, c, s, free, buf, seq) ==
  /\ c.n \in Nat /\ seq \in {c.seq, 0}
  /\ IF free THEN c.pos = 0 /\ c.n = Len(s)
     ELSE /\ c.n + 1 = Len(s) /\ s[c.n + 1] = Item(alpdu_of(buf, f))
          /\ c.pos = pos_of(buf)
          /\ frag_buf_is_fragmented(buf) => c.al = alpdu_of(buf, f)

\* A context of the receiver with the cursor c has all that has gone by of the ALPDU.
BufHolds(c, free, buf, conf) ==
  IF free THEN c.pos = 0
  ELSE /\ 0 < c.pos /\ c.pos = buf.hdr_len + buf.got
       /\ buf.whole /\ buf.start.al = c.al
       /\ LET x == extracted(buf.start, conf)
          IN buf.ptype = x.ptype /\ buf.comp = x.comp /\ buf.hdr_len = x.len

\* The trailer that will come is one that it accepts.
SeqFits(c, free, seq, init) ==
  IF ~free /\ c.al.trailer.kind = "seq"
    THEN LET val == c.al.trailer.val
         IN c.seq = rle_ctx_incr_seq_nb(val) /\ (~init \/ val = seq \/ val = 0)
    ELSE init => c.seq = seq

RxAt(c, free, buf, seq, init, conf) ==
  BufHolds(c, free, buf, conf) /\ SeqFits(c, free, seq, init)

\* The SDUs got are the first c.n of s.
GotAt(c, s, got) ==
  /\ got \in Seq(SduItems) /\ c.n = Len(got) /\ Len(got) <= Len(s)
  /\ \A i \in 1 .. Len(got) : got[i] = s[i]

LEMMA StreamEmpty ==
  ASSUME NEW f, NEW a, NEW s
  PROVE  Stream(f, << >>, a, a, s)
<1> DEFINE c == [i \in {0} |-> a]
<1>1. c[0] = a /\ Len(<< >>) = 0
  OBVIOUS
<1> HIDE DEF c
<1> QED
  BY <1>1 DEF Stream

LEMMA StreamDone ==
  ASSUME NEW f, NEW a, NEW b, NEW s, Stream(f, << >>, a, b, s)
  PROVE  a = b
<1>1. Len(<< >>) = 0
  OBVIOUS
<1> QED
  BY <1>1 DEF Stream

LEMMA StreamAppend ==
  ASSUME NEW f, NEW ps \in Seq(Ppdu), NEW a, NEW b, NEW s, Stream(f, ps, a, b, s),
         NEW p \in Ppdu, NEW d, Moves(f, p, b, d, s)
  PROVE  Stream(f, Append(ps, p), a, d, s)
<1>1. PICK c : /\ c[0] = a /\ c[Len(ps)] = b
               /\ \A i \in 1 .. Len(ps) : Moves(f, ps[i], c[i - 1], c[i], s)
  BY DEF Stream
<1> DEFINE n == Len(ps)
           e == [i \in 0 .. n + 1 |-> IF i = n + 1 THEN d ELSE c[i]]
           qs == Append(ps, p)
<1>2. /\ n \in Nat /\ Len(qs) = n + 1 /\ qs[n + 1] = p
      /\ \A i \in 1 .. n : qs[i] = ps[i]
  BY Appended
<1>3. /\ e[n + 1] = d /\ e[0] = a /\ e[n] = b
      /\ \A i \in 1 .. n : e[i - 1] = c[i - 1] /\ e[i] = c[i]
  BY <1>1, <1>2
<1> HIDE DEF e, qs, n
<1>4. ASSUME NEW i \in 1 .. Len(qs) PROVE Moves(f, qs[i], e[i - 1], e[i], s)
  <2>1. CASE i = n + 1
    <3>1. i - 1 = n
      BY <1>2, <2>1
    <3> QED
      BY <1>2, <1>3, <2>1, <3>1
  <2>2. CASE i \in 1 .. n
    BY <1>1, <1>2, <1>3, <2>2 DEF n
  <2> QED
    BY <1>2, <2>1, <2>2
<1>5. e[0] = a /\ e[Len(qs)] = d
  BY <1>2, <1>3
<1> QED
  BY <1>4, <1>5 DEF Stream, qs

LEMMA StreamTail ==
  ASSUME NEW f, NEW ps \in Seq(Ppdu), ps # << >>, NEW a, NEW b, NEW s, Stream(f, ps, a, b, s)
  PROVE  \E m : Moves(f, Head(ps), a, m, s) /\ Stream(f, Tail(ps), m, b, s)
<1>1. PICK c : /\ c[0] = a /\ c[Len(ps)] = b
               /\ \A i \in 1 .. Len(ps) : Moves(f, ps[i], c[i - 1], c[i], s)
  BY DEF Stream
<1> DEFINE n == Len(ps)
           qs == Tail(ps)
           e == [i \in 0 .. n - 1 |-> c[i + 1]]
<1>2. /\ n \in Nat \ {0} /\ Len(qs) = n - 1 /\ Head(ps) = ps[1]
      /\ \A i \in 1 .. n - 1 : qs[i] = ps[i + 1]
  BY Received
<1>3. /\ e[0] = c[1] /\ e[n - 1] = c[n]
      /\ \A i \in 1 .. n - 1 : e[i - 1] = c[i] /\ e[i] = c[i + 1]
  <2>1. 0 \in 0 .. n - 1 /\ n - 1 \in 0 .. n - 1 /\ (n - 1) + 1 = n /\ 0 + 1 = 1
    BY <1>2
  <2>2. \A i \in 1 .. n - 1 : i - 1 \in 0 .. n - 1 /\ i \in 0 .. n - 1 /\ (i - 1) + 1 = i
    BY <1>2
  <2> QED
    BY <2>1, <2>2
<1>4. Moves(f, Head(ps), a, c[1], s)
  <2>1. 1 \in 1 .. Len(ps) /\ 1 - 1 = 0
    BY <1>2
  <2> QED
    BY <1>1, <1>2, <2>1
<1> HIDE DEF e, qs, n
<1>5. ASSUME NEW i \in 1 .. Len(qs) PROVE Moves(f, qs[i], e[i - 1], e[i], s)
  <2>1. i \in 1 .. n - 1 /\ i + 1 \in 1 .. Len(ps) /\ (i + 1) - 1 = i
    BY <1>2 DEF n
  <2> QED
    BY <1>1, <1>2, <1>3, <2>1
<1>6. Stream(f, qs, c[1], b, s)
  <2>1. e[0] = c[1] /\ e[Len(qs)] = b
    BY <1>1, <1>2, <1>3 DEF n
  <2> QED
    BY <1>5, <2>1 DEF Stream
<1> QED
  BY <1>4, <1>6 DEF qs

\* A stream remains one when another SDU is accepted.
LEMMA StreamMore ==
  ASSUME NEW f, NEW ps, NEW a, NEW b, NEW s, NEW t, Stream(f, ps, a, b, s),
         Len(s) \in Nat, Len(t) \in Nat, Len(s) <= Len(t),
         \A i \in 1 .. Len(s) : t[i] = s[i]
  PROVE  Stream(f, ps, a, b, t)
<1>1. ASSUME NEW p, NEW c, NEW d, Moves(f, p, c, d, s) PROVE Moves(f, p, c, d, t)
  <2>1. ASSUME Follows(p, c, s) PROVE Follows(p, c, t)
    BY <2>1 DEF Follows
  <2> QED
    BY <1>1, <2>1 DEF Moves
<1> QED
  BY <1>1 DEF Stream

\* What rle_fragment cuts comes next.
LEMMA SendFollows ==
  ASSUME NEW f \in FragIds, NEW p, Sends(f, p), tx_seq \in [FragIds -> Nat],
         tx_free \in [FragIds -> BOOLEAN],
         NEW c, NEW s, Len(s) \in Nat, TxAt(f, c, s, tx_free[f], tx_buf[f], tx_seq[f])
  PROVE  /\ Follows(p, c, s) /\ p.al.frag = f
         /\ TxAt(f, After(p, c), s, tx_free'[f], tx_buf'[f], tx_seq'[f])
         /\ \A g \in FragIds \ {f} : /\ tx_free'[g] = tx_free[g] /\ tx_buf'[g] = tx_buf[g]
                                     /\ tx_seq'[g] = tx_seq[g]
<1> DEFINE d == After(p, c)
<1>1. /\ ~tx_free[f] /\ PpduOK(p, tx_conf)
      /\ p.al = alpdu_of(tx_buf'[f], f)
      /\ p.al.id = tx_buf[f].id /\ p.al.sdu = tx_buf[f].sdu_info
      /\ p.lo = pos_of(tx_buf[f]) /\ p.hi = pos_of(tx_buf'[f])
      /\ p.type \in {"COMP", "START"} <=> ~frag_buf_is_fragmented(tx_buf[f])
      /\ p.type \in {"CONT", "END"} => p.al = alpdu_of(tx_buf[f], f)
      /\ tx_free' = [tx_free EXCEPT ![f] = p.type \in {"COMP", "END"}]
      /\ \A g \in FragIds \ {f} : tx_buf'[g] = tx_buf[g]
  BY DEF Sends
<1>2. IF p.type = "START" /\ ~use_alpdu_crc(tx_conf)
        THEN /\ p.al.trailer.val = tx_seq[f]
             /\ tx_seq' = [tx_seq EXCEPT ![f] = rle_ctx_incr_seq_nb(@)]
        ELSE tx_seq' = tx_seq
  BY DEF Sends
<1>3. p.type = "START" => (p.al.trailer.kind = "seq" <=> ~use_alpdu_crc(tx_conf))
  <2> HAVE p.type = "START"
  <2>1. TrailerOK(p.al, tx_conf)
    BY <1>1 DEF PpduOK
  <2> QED
    BY <2>1 DEF TrailerOK
<1>4. /\ c.n \in Nat /\ tx_seq[f] \in {c.seq, 0} /\ c.n + 1 = Len(s)
      /\ s[c.n + 1] = Item(alpdu_of(tx_buf[f], f)) /\ c.pos = pos_of(tx_buf[f])
      /\ frag_buf_is_fragmented(tx_buf[f]) => c.al = alpdu_of(tx_buf[f], f)
  BY <1>1 DEF TxAt
<1>5. s[c.n + 1] = Item(p.al)
  <2>1. Item(alpdu_of(tx_buf[f], f)) = [id |-> tx_buf[f].id, sdu |-> tx_buf[f].sdu_info]
    BY DEF Item, alpdu_of
  <2> QED
    BY <1>1, <1>4, <2>1 DEF Item
<1>6. p.type \in {"CONT", "END"} => p.al = c.al
  BY <1>1, <1>4
<1>7. Follows(p, c, s)
  <2>1. c.n + 1 \in 1 .. Len(s)
    BY <1>4
  <2> QED
    BY <1>1, <1>2, <1>3, <1>4, <1>5, <1>6, <2>1 DEF Follows
<1>8. /\ d.n = (IF Final(p) THEN c.n + 1 ELSE c.n) /\ d.pos = (IF Final(p) THEN 0 ELSE p.hi)
      /\ d.al = p.al
      /\ d.seq = (IF p.type = "START" /\ p.al.trailer.kind = "seq"
                    THEN rle_ctx_incr_seq_nb(p.al.trailer.val) ELSE c.seq)
  BY DEF After
<1> HIDE DEF d
<1>9. tx_seq'[f] \in {d.seq, 0}
  <2>1. CASE p.type = "START" /\ ~use_alpdu_crc(tx_conf)
    <3>1. tx_seq'[f] = rle_ctx_incr_seq_nb(tx_seq[f])
      BY <1>2, <2>1
    <3> QED
      BY <1>2, <1>3, <1>8, <2>1, <3>1
  <2>2. CASE ~(p.type = "START" /\ ~use_alpdu_crc(tx_conf))
    BY <1>2, <1>3, <1>4, <1>8, <2>2
  <2> QED
    BY <2>1, <2>2
<1>10. tx_free'[f] = Final(p)
  BY <1>1 DEF Final
<1>11. d.n \in Nat
  BY <1>4, <1>8
<1>12. IF tx_free'[f] THEN d.pos = 0 /\ d.n = Len(s)
       ELSE /\ d.n + 1 = Len(s) /\ s[d.n + 1] = Item(alpdu_of(tx_buf'[f], f))
            /\ d.pos = pos_of(tx_buf'[f])
            /\ frag_buf_is_fragmented(tx_buf'[f]) => d.al = alpdu_of(tx_buf'[f], f)
  BY <1>1, <1>4, <1>5, <1>8, <1>10
<1>13. TxAt(f, d, s, tx_free'[f], tx_buf'[f], tx_seq'[f])
  BY <1>9, <1>11, <1>12 DEF TxAt
<1>14. \A g \in FragIds \ {f} : tx_free'[g] = tx_free[g] /\ tx_seq'[g] = tx_seq[g]
  BY <1>1, <1>2
<1>15. p.al.frag = f
  BY <1>1 DEF alpdu_of
<1> QED
  BY <1>1, <1>7, <1>13, <1>14, <1>15 DEF d

LEMMA SendNothingAt ==
  ASSUME SendsNothing, NEW f \in FragIds, NEW c, NEW s,
         TxAt(f, c, s, tx_free[f], tx_buf[f], tx_seq[f])
  PROVE  TxAt(f, c, s, tx_free'[f], tx_buf'[f], tx_seq'[f])
<1>1. /\ tx_free'[f] = tx_free[f] /\ tx_seq'[f] = tx_seq[f]
      /\ alpdu_of(tx_buf'[f], f) = alpdu_of(tx_buf[f], f)
      /\ pos_of(tx_buf'[f]) = pos_of(tx_buf[f])
      /\ frag_buf_is_fragmented(tx_buf'[f]) <=> frag_buf_is_fragmented(tx_buf[f])
  BY DEF SendsNothing
<1> QED
  BY <1>1 DEF TxAt

\* An SDU that is accepted comes after all the others.
LEMMA AcceptAt ==
  ASSUME NEW f \in FragIds, NEW sdu, Accepts(f, sdu), tx_seq' = tx_seq,
         NEW c, NEW s, NEW t, Len(s) \in Nat, Len(t) = Len(s) + 1,
         t[Len(s) + 1] = NewItem(tx_count', sdu),
         tx_free \in [FragIds -> BOOLEAN],
         TxAt(f, c, s, tx_free[f], tx_buf[f], tx_seq[f])
  PROVE  TxAt(f, c, t, tx_free'[f], tx_buf'[f], tx_seq'[f])
<1>1. /\ tx_free[f] /\ tx_free' = [tx_free EXCEPT ![f] = FALSE]
      /\ tx_buf'[f].id = tx_count' /\ tx_buf'[f].sdu_info = sdu
      /\ ~frag_buf_is_fragmented(tx_buf'[f]) /\ pos_of(tx_buf'[f]) = 0
  BY DEF Accepts
<1>2. Item(alpdu_of(tx_buf'[f], f)) = NewItem(tx_count', sdu)
  BY <1>1 DEF Item, alpdu_of, NewItem
<1>3. ~tx_free'[f]
  BY <1>1
<1> QED
  BY <1>1, <1>2, <1>3 DEF TxAt

\* What rle_encapsulate accepts is added to the SDUs sent.
TakesIn(sent, more, f, sdu) ==
  more = IF tx_ret'.status = "ENCAP_OK"
           THEN [sent EXCEPT ![f] = Append(@, [id |-> tx_count', sdu |-> sdu])] ELSE sent

\* The SDU in a context is given up.
DrivesOut(f) == ~tx_free[f] /\ tx_free'[f]

\* The contexts of the transmitter stand where they stood when the SDUs sent grow to more.
StaysAt(sent, more) ==
  \A g \in FragIds : \A c :
    TxAt(g, c, sent[g], tx_free[g], tx_buf[g], tx_seq[g]) =>
      /\ TxAt(g, c, more[g], tx_free'[g], tx_buf'[g], tx_seq'[g])
      /\ Len(sent[g]) \in Nat /\ Len(more[g]) \in Nat /\ Len(sent[g]) <= Len(more[g])
      /\ \A i \in 1 .. Len(sent[g]) : more[g][i] = sent[g][i]

\* rle_encapsulate, when it drives no SDU out.
LEMMA EncapAt ==
  ASSUME NEW sent, NEW more, Ends(sent), NEW f \in FragIds, NEW sdu \in TxSdus,
         rle_encapsulate(f, sdu), UNCHANGED rx_vars, TakesIn(sent, more, f, sdu), ~DrivesOut(f)
  PROVE  StaysAt(sent, more)
<1> SUFFICES ASSUME NEW g \in FragIds, NEW c,
                    TxAt(g, c, sent[g], tx_free[g], tx_buf[g], tx_seq[g])
             PROVE  /\ TxAt(g, c, more[g], tx_free'[g], tx_buf'[g], tx_seq'[g])
                    /\ Len(sent[g]) \in Nat /\ Len(more[g]) \in Nat
                    /\ Len(sent[g]) <= Len(more[g])
                    /\ \A i \in 1 .. Len(sent[g]) : more[g][i] = sent[g][i]
  BY DEF StaysAt
<1>1. /\ Accepts(f, sdu) \/ Refuses(f)
      /\ UNCHANGED tx_seq
  BY EndsEncap DEF TakesIn
<1>2. /\ tx_free \in [FragIds -> BOOLEAN] /\ tx_count \in Nat /\ SentOK(sent, tx_count)
      /\ Len(sent[g]) \in Nat
  <2>1. tx_free \in [FragIds -> BOOLEAN] /\ tx_count \in Nat /\ SentOK(sent, tx_count)
    BY DEF Ends, TxInv, TxTypeOK
  <2>2. sent[g] \in Seq(SduItems)
    BY <2>1 DEF SentOK
  <2> QED
    BY <2>1, <2>2
<1>3. CASE Accepts(f, sdu)
  <2>1. more = Took(sent, f, NewItem(tx_count', sdu)) /\ tx_count' = tx_count + 1
        /\ tx_count < MaxSdus
    BY <1>3 DEF Accepts, Took, NewItem, TakesIn
  <2>2. LET m == Took(sent, f, NewItem(tx_count', sdu))
        IN /\ Len(m[f]) = Len(sent[f]) + 1 /\ Len(sent[f]) \in Nat
           /\ m[f][Len(sent[f]) + 1] = NewItem(tx_count', sdu)
           /\ \A i \in 1 .. Len(sent[f]) : m[f][i] = sent[f][i]
           /\ \A h \in FragIds \ {f} : m[h] = sent[h]
    BY <1>2, <2>1, SentMore
  <2>3. CASE g = f
    <3>1. TxAt(f, c, sent[f], tx_free[f], tx_buf[f], tx_seq[f])
      BY <2>3
    <3> DEFINE s == sent[f]
               t == more[f]
    <3>2. /\ Len(s) \in Nat /\ Len(t) = Len(s) + 1 /\ t[Len(s) + 1] = NewItem(tx_count', sdu)
          /\ \A i \in 1 .. Len(s) : t[i] = s[i]
      BY <2>1, <2>2
    <3> HIDE DEF s, t
    <3>3. TxAt(f, c, t, tx_free'[f], tx_buf'[f], tx_seq'[f])
      BY <1>1, <1>2, <1>3, <3>1, <3>2, AcceptAt DEF s
    <3> QED
      BY <2>3, <3>2, <3>3 DEF s, t
  <2>4. CASE g # f
    <3>1. tx_free'[g] = tx_free[g] /\ tx_buf'[g] = tx_buf[g] /\ tx_seq'[g] = tx_seq[g]
          /\ more[g] = sent[g]
      BY <1>1, <1>2, <1>3, <2>1, <2>2, <2>4 DEF Accepts
    <3> QED
      BY <1>2, <3>1
  <2> QED
    BY <2>3, <2>4
<1>4. CASE Refuses(f)
  <2>1. more = sent /\ tx_buf' = tx_buf /\ tx_free' = tx_free
    BY <1>2, <1>4 DEF Refuses, TakesIn, DrivesOut
  <2> QED
    BY <1>1, <1>2, <2>1
<1> QED
  BY <1>1, <1>3, <1>4

\* Lengths of a PPDU of a transmitter.
LEMMA PpduLengths ==
  ASSUME NEW conf \in ConfRecord, NEW p, PpduOK(p, conf)
  PROVE  /\ p.lo \in Nat /\ p.hi \in Nat /\ p.lo < p.hi /\ carried(p) = p.hi - p.lo
         /\ p.al.hdr.len \in 0 .. 3 /\ AlpduLen(p.al) \in Nat /\ p.al.hdr.len < AlpduLen(p.al)
         /\ TrailerSize(conf) \in 1 .. 4
         /\ p.al.sdu.size - p.al.hdr.cut = AlpduLen(p.al) - p.al.hdr.len
         /\ p.al.trailer.val \in Nat
<1>1. p \in Ppdu /\ p.lo < p.hi /\ carried(p) = p.hi - p.lo /\ AlpduOK(p.al, conf)
  BY DEF PpduOK
<1>2. /\ p.lo \in Nat /\ p.hi \in Nat /\ p.al.hdr.len \in 0 .. 3 /\ p.al.hdr.cut \in {0, 2}
      /\ p.al.sdu.size \in Nat /\ p.al.trailer.val \in Nat
  BY <1>1, PpduFields
<1>3. p.al.hdr.cut < p.al.sdu.size
  BY <1>1 DEF AlpduOK
<1>4. TrailerSize(conf) \in 1 .. 4
  BY TrailerLen DEF TrailerSize
<1> QED
  BY <1>1, <1>2, <1>3, <1>4 DEF AlpduLen

\* The receiver is given the PPDU p.
Taken(p) ==
  /\ PpduOK(p, rx_conf) /\ Arrives(p) /\ p.al.frag \in RxFragIds
  /\ ~OmittedAsVlan(p.al.sdu, rx_conf)
  /\ rle_receiver_deencap_data(p)

\* The other contexts stay as they are.
OthersKept(f) ==
  \A g \in RxFragIds \ {f} : /\ rx_free'[g] = rx_free[g] /\ rx_rasm'[g] = rx_rasm[g]
                             /\ rx_seq'[g] = rx_seq[g] /\ rx_seq_init'[g] = rx_seq_init[g]

\* p is part of the ALPDU in context f, which then has what goes by with p.
Added(p, d) ==
  LET f == p.al.frag
  IN /\ rx_ret'.status = "C_OK" /\ ~rx_sdu'.some
     /\ rx_free'[f] = FALSE /\ BufHolds(d, FALSE, rx_rasm'[f], rx_conf)
     /\ rx_seq'[f] = rx_seq[f] /\ rx_seq_init'[f] = rx_seq_init[f]
     /\ OthersKept(f)

\* A START PPDU on a free context.
LEMMA StartOpens ==
  ASSUME RxInv, NEW p, p.type = "START", Taken(p), rx_free[p.al.frag], NEW c
  PROVE  Added(p, After(p, c))
<1> DEFINE f == p.al.frag
           x == extracted(p, rx_conf)
           n == carried(p) - x.len
           size == start_sdu_len(p, x)
           opened == [size |-> size, got |-> 0, ptype |-> x.ptype,
                      comp |-> x.comp, hdr_len |-> x.len, start |-> p,
                      whole |-> x.len = p.al.hdr.len]
           b == rasm_buf_add(opened, [p EXCEPT !.lo = x.len], n)
           d == After(p, c)
<1>0. /\ PpduOK(p, rx_conf) /\ Arrives(p) /\ f \in RxFragIds
      /\ ~OmittedAsVlan(p.al.sdu, rx_conf) /\ rle_receiver_deencap_data(p)
  BY DEF Taken
<1>1. /\ p.frag = f /\ p.lo = 0 /\ p \in Ppdu
      /\ p.use_crc = use_alpdu_crc(rx_conf) /\ p.total = AlpduLen(p.al) + TrailerSize(rx_conf)
      /\ p.al.hdr.len < p.hi /\ p.hi <= AlpduLen(p.al)
  BY <1>0 DEF PpduOK
<1>2. /\ p.lo \in Nat /\ p.hi \in Nat /\ p.lo < p.hi /\ carried(p) = p.hi - p.lo
      /\ p.al.hdr.len \in 0 .. 3 /\ AlpduLen(p.al) \in Nat
      /\ TrailerSize(rx_conf) \in 1 .. 4
  BY <1>0, PpduLengths DEF RxInv, RxTypeOK
<1>3. x.len = p.al.hdr.len /\ x.ptype # NoPtype
  <2>1. rebuilt_sdus(p.al.sdu, p.al.hdr, x) = {p.al.sdu} /\ x.len = p.al.hdr.len
    BY <1>0, FirstRebuilt DEF RxInv, RxTypeOK
  <2> HIDE DEF x
  <2>2. rebuilt_sdus(p.al.sdu, p.al.hdr, x) # {}
    BY <2>1
  <2> QED
    BY <2>1, <2>2 DEF rebuilt_sdus
<1>4. rx_free[f]
  OBVIOUS
<1>5. alpdu_trailer_len(p.use_crc) = TrailerSize(rx_conf)
  BY <1>1 DEF TrailerSize
<1>6. start_trailer_fits(p, x) /\ n <= size
  <2> HIDE DEF x
  <2> QED
    BY <1>1, <1>2, <1>3, <1>5 DEF start_trailer_fits, start_sdu_len
<1>7. RxStart(p)
  <2>1. ~RxStartError(p)
    <3>1. ~(carried(p) - x.len > start_sdu_len(p, x))
      <4> HIDE DEF x
      <4> QED
        BY <1>1, <1>2, <1>3, <1>5 DEF start_sdu_len
    <3> QED
      BY <1>1, <1>4, <1>6, <3>1 DEF RxStartError
  <2> QED
    BY <1>0, <2>1 DEF rle_receiver_deencap_data, RxComp, RxCont, RxContError, RxEndFree,
                      RxEndRefused, RxEndShort, RxEndComplete, EndAdds
<1>8. /\ rx_free' = [rx_free EXCEPT ![f] = FALSE]
      /\ rx_rasm' = [rx_rasm EXCEPT ![f] = b]
      /\ rx_ret'.status = "C_OK" /\ rx_sdu' = NoRxSdu
      /\ UNCHANGED <<rx_seq, rx_seq_init>>
  BY <1>1, <1>7 DEF RxStart, RxReturns
<1>9. rx_free \in [RxFragIds -> BOOLEAN] /\ rx_rasm \in [RxFragIds -> RasmBuf]
  BY DEF RxInv, RxTypeOK
<1>10. /\ b.start = p /\ b.whole /\ b.hdr_len = x.len /\ b.got = n /\ b.ptype = x.ptype
       /\ b.comp = x.comp
  <2>1. [p EXCEPT !.lo = x.len].al = p.al /\ [p EXCEPT !.lo = x.len].lo = x.len
    <3> HIDE DEF x
    <3> QED
      BY <1>1 DEF Ppdu
  <2> DEFINE q == [p EXCEPT !.lo = x.len]
  <2> HIDE DEF q
  <2>2. x.len = x.len + 0
    <3> HIDE DEF x
    <3> QED
      BY <1>2, <1>3
  <2> HIDE DEF x, n, size
  <2>3. LET e == rasm_buf_add(opened, q, n)
        IN /\ e.start = p /\ e.whole /\ e.hdr_len = x.len /\ e.got = 0 + n /\ e.ptype = x.ptype
           /\ e.comp = x.comp
    BY <1>3, <2>1, <2>2 DEF rasm_buf_add, q
  <2>4. 0 + n = n
    BY <1>2, <1>3 DEF n
  <2> QED
    BY <2>3, <2>4 DEF q
<1>11. d.pos = p.hi /\ d.al = p.al
  BY DEF After, Final
<1> HIDE DEF b, d
<1>12. d.pos = b.hdr_len + b.got /\ 0 < d.pos
  <2> HIDE DEF x
  <2> QED
    BY <1>1, <1>2, <1>3, <1>10, <1>11 DEF n
<1>13. rx_free'[f] = FALSE /\ rx_rasm'[f] = b
  BY <1>0, <1>8, <1>9
<1>14. BufHolds(d, FALSE, b, rx_conf)
  <2> HIDE DEF x, f
  <2> QED
    BY <1>10, <1>11, <1>12 DEF BufHolds, x
<1>15. OthersKept(f)
  BY <1>0, <1>8, <1>9 DEF OthersKept
<1> QED
  BY <1>8, <1>13, <1>14, <1>15 DEF d, Added, NoRxSdu

\* The buffer of a context in use, when its cursor is c.
LEMMA BufAt ==
  ASSUME RxInv, RxStarts, NEW f \in RxFragIds, ~rx_free[f], NEW c,
         BufHolds(c, rx_free[f], rx_rasm[f], rx_conf)
  PROVE  LET b == rx_rasm[f]
         IN /\ b \in RasmBuf /\ b.whole /\ b.start.al = c.al /\ c.pos = b.hdr_len + b.got
            /\ b.got \in Nat /\ b.hdr_len \in 0 .. 3 /\ b.hdr_len = c.al.hdr.len
            /\ b.size = AlpduLen(c.al) - b.hdr_len
            /\ b.size = c.al.sdu.size - c.al.hdr.cut
            /\ rx_use_crc[f] = use_alpdu_crc(rx_conf)
            /\ alpdu_trailer_len(rx_use_crc[f]) = TrailerSize(rx_conf)
            /\ b.start.frag = f /\ b.start.type = "START" /\ PpduOK(b.start, rx_conf)
<1> DEFINE b == rx_rasm[f]
<1>1. /\ b.whole /\ b.start.al = c.al /\ c.pos = b.hdr_len + b.got
  BY DEF BufHolds
<1>2. b \in RasmBuf /\ BufOK(b, rx_use_crc[f], f) /\ rx_conf \in ConfRecord
  BY DEF RxInv, RxTypeOK, RxBufs
<1>3. PpduOK(b.start, rx_conf)
  BY DEF RxStarts
<1> HIDE DEF b
<1>4. b.got \in Nat /\ b.hdr_len \in 0 .. 3
  BY <1>2 DEF RasmBuf
<1>5. /\ b.start.type = "START" /\ b.start.frag = f
      /\ b.size = b.start.total - b.hdr_len - alpdu_trailer_len(rx_use_crc[f])
      /\ rx_use_crc[f] = b.start.use_crc /\ b.hdr_len = b.start.al.hdr.len
  BY <1>1, <1>2 DEF BufOK
<1>6. /\ b.start.use_crc = use_alpdu_crc(rx_conf)
      /\ b.start.total = AlpduLen(b.start.al) + TrailerSize(rx_conf)
  BY <1>3, <1>5 DEF PpduOK
<1>7. alpdu_trailer_len(rx_use_crc[f]) = TrailerSize(rx_conf)
  BY <1>5, <1>6 DEF TrailerSize
<1>8. /\ AlpduLen(b.start.al) \in Nat /\ TrailerSize(rx_conf) \in 1 .. 4
      /\ b.start.al.sdu.size - b.start.al.hdr.cut
           = AlpduLen(b.start.al) - b.start.al.hdr.len
  BY <1>2, <1>3, PpduLengths
<1>9. b.size = AlpduLen(c.al) - b.hdr_len /\ b.size = c.al.sdu.size - c.al.hdr.cut
  BY <1>1, <1>4, <1>5, <1>6, <1>7, <1>8
<1> QED
  BY <1>1, <1>2, <1>3, <1>4, <1>5, <1>6, <1>7, <1>9 DEF b

\* p continues the ALPDU that its context has been receiving, at the cursor c.
Continues(p, c) ==
  /\ p.lo = c.pos /\ p.al = c.al
  /\ BufHolds(c, rx_free[p.al.frag], rx_rasm[p.al.frag], rx_conf)

LEMMA ContAdds ==
  ASSUME RxInv, RxStarts, NEW p, p.type = "CONT", Taken(p), NEW c, Continues(p, c)
  PROVE  Added(p, After(p, c))
<1> DEFINE f == p.al.frag
           b == rx_rasm[f]
           n == carried(p)
           e == rasm_buf_add(b, p, n)
           d == After(p, c)
<1>1. PpduOK(p, rx_conf) /\ f \in RxFragIds /\ rle_receiver_deencap_data(p)
  BY DEF Taken
<1>2. BufHolds(c, rx_free[f], rx_rasm[f], rx_conf)
  BY DEF Continues
<1>3. p.lo = c.pos /\ p.al = c.al
  BY DEF Continues
<1>4. p.frag = f /\ p.hi <= AlpduLen(p.al) /\ p.al.hdr.len < p.lo
  BY <1>1 DEF PpduOK
<1>5. /\ p.lo \in Nat /\ p.hi \in Nat /\ p.lo < p.hi /\ n = p.hi - p.lo
      /\ p.al.hdr.len \in 0 .. 3 /\ AlpduLen(p.al) \in Nat
  BY <1>1, PpduLengths DEF RxInv, RxTypeOK
<1>6. ~rx_free[f]
  BY <1>2, <1>3, <1>4, <1>5 DEF BufHolds
<1>7. /\ b \in RasmBuf /\ b.whole /\ b.start.al = c.al /\ c.pos = b.hdr_len + b.got
      /\ b.got \in Nat /\ b.hdr_len \in 0 .. 3 /\ b.size = AlpduLen(c.al) - b.hdr_len
  BY <1>1, <1>2, <1>6, BufAt
<1> HIDE DEF n
<1>8. sdu_frag_fits(b, n)
  BY <1>3, <1>4, <1>5, <1>7 DEF sdu_frag_fits
<1>9. RxCont(p)
  <2>1. ~RxContError(p)
    BY <1>4, <1>6, <1>8 DEF RxContError, n
  <2> QED
    BY <1>1, <2>1 DEF rle_receiver_deencap_data, RxComp, RxStart, RxStartError, RxEndFree,
                      RxEndRefused, RxEndShort, RxEndComplete, EndAdds
<1>10. /\ rx_free' = rx_free /\ rx_rasm' = [rx_rasm EXCEPT ![f] = e]
       /\ rx_ret'.status = "C_OK" /\ rx_sdu' = NoRxSdu
       /\ UNCHANGED <<rx_seq, rx_seq_init>>
  BY <1>4, <1>9 DEF RxCont, RxReturns, n
<1>11. rx_rasm \in [RxFragIds -> RasmBuf]
  BY DEF RxInv, RxTypeOK
<1>12. /\ e.start = b.start /\ e.whole /\ e.hdr_len = b.hdr_len /\ e.got = b.got + n
       /\ e.ptype = b.ptype /\ e.comp = b.comp
  <2> DEFINE w == b.whole /\ (n = 0 \/ (p.al = b.start.al /\ p.lo = b.hdr_len + b.got))
             k == b.got + n
  <2>1. w
    BY <1>3, <1>7
  <2>2. e = [b EXCEPT !.got = k, !.whole = w]
    BY DEF rasm_buf_add
  <2> HIDE DEF w, k, b, e
  <2> QED
    BY <1>7, <2>1, <2>2 DEF RasmBuf, k
<1>13. d.pos = p.hi /\ d.al = c.al
  BY <1>3 DEF After, Final
<1> HIDE DEF e, d, b
<1>14. d.pos = e.hdr_len + e.got /\ 0 < d.pos
  BY <1>3, <1>5, <1>7, <1>12, <1>13
<1>15. BufHolds(d, FALSE, e, rx_conf)
  <2>1. BufHolds(c, FALSE, b, rx_conf)
    BY <1>2, <1>6 DEF b, BufHolds
  <2> HIDE DEF f
  <2> QED
    BY <1>12, <1>13, <1>14, <2>1 DEF BufHolds
<1>16. /\ rx_rasm'[f] = e /\ OthersKept(f)
  BY <1>1, <1>10, <1>11 DEF OthersKept
<1>17. rx_free'[f] = FALSE
  BY <1>1, <1>6, <1>10 DEF RxInv, RxTypeOK
<1> QED
  BY <1>10, <1>15, <1>16, <1>17 DEF d, Added, NoRxSdu

\* What rebuilds an SDU is the protocol type, the compression and the header length.
LEMMA RebuiltFrom ==
  ASSUME NEW sdu, NEW h, NEW x, NEW y, x.ptype = y.ptype, x.comp = y.comp, x.len = y.len
  PROVE  rebuilt_sdus(sdu, h, x) = rebuilt_sdus(sdu, h, y)
BY Zenon DEF rebuilt_sdus

\* The bytes of a complete buffer stand for the SDU of its START PPDU.
LEMMA RebuiltAt ==
  ASSUME NEW conf \in ConfRecord, NEW e, PpduOK(e.start, conf), e.start.type = "START",
         ~OmittedAsVlan(e.start.al.sdu, conf), e.whole,
         e.size = e.start.al.sdu.size - e.start.al.hdr.cut,
         LET x == extracted(e.start, conf)
         IN e.ptype = x.ptype /\ e.comp = x.comp /\ e.hdr_len = x.len
  PROVE  rebuilt_choices(e) = {{HandOver(e.start.al.sdu, e.start, TRUE)}}
<1> DEFINE al == e.start.al
           x == extracted(e.start, conf)
           y == [ptype |-> e.ptype, comp |-> e.comp, len |-> e.hdr_len]
<1>1. rebuilt_sdus(al.sdu, al.hdr, x) = {al.sdu}
  BY FirstRebuilt
<1>2. y.ptype = x.ptype /\ y.comp = x.comp /\ y.len = x.len
  <2> HIDE DEF x
  <2> QED
    BY DEF x
<1> HIDE DEF x
<1>3. rebuilt_sdus(al.sdu, al.hdr, y) = {al.sdu}
  <2> HIDE DEF y
  <2> QED
    BY <1>1, <1>2, RebuiltFrom
<1>4. rebuilt_choices(e)
        = {{HandOver(sdu, e.start, TRUE) : sdu \in rebuilt_sdus(al.sdu, al.hdr, y)}}
  BY Zenon DEF rebuilt_choices
<1>5. {HandOver(sdu, e.start, TRUE) : sdu \in {al.sdu}} = {HandOver(al.sdu, e.start, TRUE)}
  BY Zenon
<1> QED
  BY <1>3, <1>4, <1>5, Zenon

\* The trailer of p is one that check_alpdu_trailer accepts with the SDU it belongs to.
TrailerFits(p) ==
  LET f == p.al.frag
  IN use_alpdu_crc(rx_conf) \/ ~rx_seq_init[f] \/ p.al.trailer.val \in {rx_seq[f], 0}

\* p has completed the ALPDU in its context, which is free again; the SDU is handed over
\* if the trailer fits, and a sequence number is the one before the next in any case.
Completed(p) ==
  LET f == p.al.frag
  IN /\ rx_free'[f] = TRUE
     /\ TrailerFits(p) => /\ rx_ret'.status = "C_REASSEMBLY_OK"
                          /\ rx_sdu'.some /\ rx_sdu'.whole
                          /\ rx_sdu'.sdu = p.al.sdu /\ rx_sdu'.al = p.al
     /\ IF use_alpdu_crc(rx_conf)
          THEN rx_seq'[f] = rx_seq[f] /\ rx_seq_init'[f] = rx_seq_init[f]
          ELSE rx_seq'[f] = rle_ctx_incr_seq_nb(p.al.trailer.val) /\ rx_seq_init'[f]
     /\ OthersKept(f)

LEMMA EndCompletes ==
  ASSUME RxInv, RxStarts, NEW p, p.type = "END", Taken(p), NEW c, Continues(p, c)
  PROVE  Completed(p)
<1> DEFINE f == p.al.frag
           b == rx_rasm[f]
           n == end_sdu_len(p)
           e == end_buf(p)
           out == HandOver(p.al.sdu, b.start, TRUE)
<1>1. /\ PpduOK(p, rx_conf) /\ f \in RxFragIds /\ ~OmittedAsVlan(p.al.sdu, rx_conf)
      /\ rle_receiver_deencap_data(p)
  BY DEF Taken
<1>2. BufHolds(c, rx_free[f], rx_rasm[f], rx_conf)
  BY DEF Continues
<1>3. p.lo = c.pos /\ p.al = c.al
  BY DEF Continues
<1>4. /\ p.frag = f /\ p.hi = AlpduLen(p.al) + TrailerSize(rx_conf) /\ p.lo <= AlpduLen(p.al)
      /\ p.al.hdr.len < p.lo /\ TrailerOK(p.al, rx_conf)
  BY <1>1 DEF PpduOK
<1>5. /\ p.lo \in Nat /\ p.hi \in Nat /\ carried(p) = p.hi - p.lo
      /\ p.al.hdr.len \in 0 .. 3 /\ AlpduLen(p.al) \in Nat /\ TrailerSize(rx_conf) \in 1 .. 4
  BY <1>1, PpduLengths DEF RxInv, RxTypeOK
<1>6. ~rx_free[f]
  BY <1>2, <1>3, <1>4, <1>5 DEF BufHolds
<1>7. /\ b \in RasmBuf /\ b.whole /\ b.start.al = c.al /\ c.pos = b.hdr_len + b.got
      /\ b.got \in Nat /\ b.hdr_len \in 0 .. 3 /\ b.size = AlpduLen(c.al) - b.hdr_len
      /\ b.size = c.al.sdu.size - c.al.hdr.cut
      /\ rx_use_crc[f] = use_alpdu_crc(rx_conf)
      /\ alpdu_trailer_len(rx_use_crc[f]) = TrailerSize(rx_conf)
      /\ b.start.frag = f /\ b.start.type = "START" /\ PpduOK(b.start, rx_conf)
  BY <1>1, <1>2, <1>6, BufAt
<1>8. n = AlpduLen(p.al) - p.lo
  <2>1. n = carried(p) - TrailerSize(rx_conf)
    BY <1>4, <1>7 DEF end_sdu_len
  <2> HIDE DEF n
  <2> QED
    BY <1>4, <1>5, <2>1
<1>9. e.start = b.start /\ e.whole /\ e.hdr_len = b.hdr_len /\ e.got = b.got + n
      /\ e.ptype = b.ptype /\ e.comp = b.comp /\ e.size = b.size
  <2> DEFINE w == b.whole /\ (n = 0 \/ (p.al = b.start.al /\ p.lo = b.hdr_len + b.got))
             k == b.got + n
  <2>1. w
    BY <1>3, <1>7
  <2>2. e = [b EXCEPT !.got = k, !.whole = w]
    BY <1>4 DEF rasm_buf_add, end_buf
  <2> HIDE DEF w, k, b, e
  <2> QED
    BY <1>7, <2>1, <2>2 DEF RasmBuf, k
<1>10. n >= 0 /\ b.got + n = b.size
  <2> HIDE DEF n, b
  <2> QED
    BY <1>3, <1>4, <1>5, <1>7, <1>8
<1>11. rebuilt_choices(e) = {{out}}
  <2>1. rx_conf \in ConfRecord
    BY DEF RxInv, RxTypeOK
  <2>2. LET x == extracted(b.start, rx_conf)
        IN b.ptype = x.ptype /\ b.comp = x.comp /\ b.hdr_len = x.len
    BY <1>2, <1>6 DEF BufHolds
  <2> HIDE DEF e, b
  <2>3. /\ e.start.al = p.al
        /\ LET x == extracted(e.start, rx_conf)
           IN e.ptype = x.ptype /\ e.comp = x.comp /\ e.hdr_len = x.len
    BY <1>3, <1>7, <1>9, <2>2
  <2>4. /\ PpduOK(e.start, rx_conf) /\ e.start.type = "START"
        /\ ~OmittedAsVlan(e.start.al.sdu, rx_conf) /\ e.whole
        /\ e.size = e.start.al.sdu.size - e.start.al.hdr.cut
    BY <1>1, <1>3, <1>7, <1>9, <2>3
  <2>5. rebuilt_choices(e) = {{HandOver(e.start.al.sdu, e.start, TRUE)}}
    BY <2>1, <2>3, <2>4, RebuiltAt
  <2> QED
    BY <1>9, <2>3, <2>5
<1>12. /\ out.whole /\ out.sdu = p.al.sdu /\ out.al = p.al /\ out.some
  <2> HIDE DEF b
  <2> QED
    BY <1>3, <1>7 DEF HandOver
<1>13. use_alpdu_crc(rx_conf) <=> rx_use_crc[f]
  BY <1>7
<1> HIDE DEF out, b, e, n
<1>14. TrailerFits(p) => trailer_accepted(f, out, p.al.trailer)
  BY <1>7, <1>12 DEF TrailerFits, trailer_accepted, crc_matches, seq_no_accepted
<1>16. RxEndComplete(p)
  <2>1. end_sdu_len(p) = n /\ end_buf(p) = e /\ rx_rasm[p.frag] = b
    BY <1>4 DEF n, e, b
  <2>2. ~RxEndRefused(p) /\ ~RxEndFree(p)
    BY <1>4, <1>6, <1>8, <1>10, <1>7, <2>1 DEF RxEndRefused, RxEndFree, sdu_frag_fits
  <2>3. ~RxEndShort(p)
    <3>1. e.got = e.size /\ e.size \in Int
      BY <1>7, <1>9, <1>10 DEF RasmBuf
    <3>2. sdu_complete(e)
      BY <3>1 DEF sdu_complete
    <3> QED
      BY <2>1, <3>2 DEF RxEndShort
  <2> QED
    BY <1>1, <2>2, <2>3 DEF rle_receiver_deencap_data, RxComp, RxStart, RxStartError,
                            RxCont, RxContError
<1> DEFINE ok == trailer_accepted(f, out, p.al.trailer)
<1>17. /\ rle_receiver_free_context(f) /\ rx_rasm' = [rx_rasm EXCEPT ![f] = e]
       /\ ok => rx_ret'.status = "C_REASSEMBLY_OK" /\ rx_sdu' = out
       /\ rx_seq_init' = [rx_seq_init EXCEPT ![f] = @ \/ ~rx_use_crc[f]]
       /\ rx_seq' = IF rx_use_crc[f] THEN rx_seq
                      ELSE [rx_seq EXCEPT ![f] = rle_ctx_incr_seq_nb(p.al.trailer.val)]
  <2>1. PICK outs \in rebuilt_choices(end_buf(p)) :
       \/ /\ outs = {}
          /\ EndsWith(p, "C_ERROR", NoRxSdu, 1, 0)
          /\ UNCHANGED <<rx_seq, rx_seq_init>>
       \/ \E o \in outs :
            LET g == p.frag
                trailer == p.al.trailer
                accepted == trailer_accepted(g, o, trailer)
            IN /\ EndsWith(p, IF accepted THEN "C_REASSEMBLY_OK" ELSE "C_ERROR",
                           IF accepted THEN o ELSE NoRxSdu,
                           1, trailer_lost(g, o, trailer))
               /\ rx_seq_init' = [rx_seq_init EXCEPT ![g] = @ \/ ~rx_use_crc[g]]
               /\ rx_seq' = IF rx_use_crc[g] THEN rx_seq
                              ELSE [rx_seq EXCEPT ![g] = rle_ctx_incr_seq_nb(trailer.val)]
    BY <1>16, Zenon DEF RxEndComplete
  <2>2. outs = {out}
    BY <1>11, <2>1 DEF e
  <2> DEFINE lost == trailer_lost(f, out, p.al.trailer)
             status == IF ok THEN "C_REASSEMBLY_OK" ELSE "C_ERROR"
             sdu == IF ok THEN out ELSE NoRxSdu
  <2>3. /\ EndsWith(p, status, sdu, 1, lost)
        /\ rx_seq_init' = [rx_seq_init EXCEPT ![f] = @ \/ ~rx_use_crc[f]]
        /\ rx_seq' = IF rx_use_crc[f] THEN rx_seq
                       ELSE [rx_seq EXCEPT ![f] = rle_ctx_incr_seq_nb(p.al.trailer.val)]
    BY <1>4, <2>1, <2>2, Zenon
  <2>4. ok => status = "C_REASSEMBLY_OK" /\ sdu = out
    OBVIOUS
  <2> HIDE DEF lost, status, sdu, ok
  <2>5. rle_receiver_free_context(f) /\ rx_ret'.status = status /\ rx_sdu' = sdu
    BY <1>4, <2>3 DEF EndsWith, RxReturns
  <2>6. rx_rasm' = [rx_rasm EXCEPT ![f] = e]
    BY <1>4, <1>16 DEF RxEndComplete, EndAdds, e
  <2> QED
    BY <2>3, <2>4, <2>5, <2>6
<1> HIDE DEF ok, f
<1>18. /\ rx_free \in [RxFragIds -> BOOLEAN] /\ rx_rasm \in [RxFragIds -> RasmBuf]
       /\ rx_seq \in [RxFragIds -> 0 .. SeqMod - 1] /\ rx_seq_init \in [RxFragIds -> BOOLEAN]
  BY DEF RxInv, RxTypeOK
<1>19. rx_free'[f] = TRUE
  BY <1>1, <1>17, <1>18 DEF rle_receiver_free_context
<1>20. IF use_alpdu_crc(rx_conf)
         THEN rx_seq'[f] = rx_seq[f] /\ rx_seq_init'[f] = rx_seq_init[f]
         ELSE rx_seq'[f] = rle_ctx_incr_seq_nb(p.al.trailer.val) /\ rx_seq_init'[f]
  BY <1>1, <1>13, <1>17, <1>18
<1>21. OthersKept(f)
  BY <1>17, <1>18 DEF rle_receiver_free_context, OthersKept
<1> QED
  BY <1>12, <1>14, <1>17, <1>19, <1>20, <1>21 DEF ok, f, Completed

\* The receiver, which stands at the cursor c, is given the PPDU p that comes next: it
\* reports no error, hands the SDU over with its last PPDU, and moves on.
ComesNext(p, c) ==
  /\ PpduOK(p, rx_conf) /\ Arrives(p) /\ p.al.frag \in RxFragIds
  /\ ~OmittedAsVlan(p.al.sdu, rx_conf)
  /\ \E s : Follows(p, c, s)
  /\ LET f == p.al.frag
     IN RxAt(c, rx_free[f], rx_rasm[f], rx_seq[f], rx_seq_init[f], rx_conf)

Advances(p, c) ==
  LET f == p.al.frag
  IN /\ rx_ret'.status # "C_ERROR"
     /\ IF Final(p) THEN /\ rx_sdu'.some /\ rx_sdu'.al.frag = f
                         /\ rx_sdu'.al.id = p.al.id /\ rx_sdu'.sdu = p.al.sdu
        ELSE ~rx_sdu'.some
     /\ RxAt(After(p, c), rx_free'[f], rx_rasm'[f], rx_seq'[f], rx_seq_init'[f], rx_conf)
     /\ OthersKept(f)

LEMMA StartAdvances ==
  ASSUME RxInv, NEW p, p.type = "START", NEW c, ComesNext(p, c), rle_receiver_deencap_data(p)
  PROVE  Advances(p, c)
<1> DEFINE f == p.al.frag
           d == After(p, c)
<1>1. /\ Taken(p) /\ PpduOK(p, rx_conf) /\ f \in RxFragIds
      /\ BufHolds(c, rx_free[f], rx_rasm[f], rx_conf)
      /\ SeqFits(c, rx_free[f], rx_seq[f], rx_seq_init[f])
  BY DEF ComesNext, RxAt, Taken
<1>2. PICK s : Follows(p, c, s)
  BY DEF ComesNext
<1>3. rx_free[f]
  BY <1>1, <1>2 DEF BufHolds, Follows, PpduOK
<1>4. Added(p, d)
  BY <1>1, <1>3, StartOpens
<1>5. rx_seq_init[f] => c.seq = rx_seq[f]
  BY <1>1, <1>3 DEF SeqFits
<1>6. p.al.trailer.kind = "seq" => p.al.trailer.val \in {c.seq, 0}
  BY <1>2 DEF Follows
<1>7. d.al = p.al /\ d.seq = (IF p.al.trailer.kind = "seq"
                                THEN rle_ctx_incr_seq_nb(p.al.trailer.val) ELSE c.seq)
  BY DEF After
<1> HIDE DEF d
<1>8. SeqFits(d, FALSE, rx_seq[f], rx_seq_init[f])
  BY <1>5, <1>6, <1>7 DEF SeqFits
<1>9. /\ rx_ret'.status = "C_OK" /\ ~rx_sdu'.some /\ OthersKept(f)
      /\ rx_free'[f] = FALSE /\ BufHolds(d, FALSE, rx_rasm'[f], rx_conf)
      /\ rx_seq'[f] = rx_seq[f] /\ rx_seq_init'[f] = rx_seq_init[f]
  BY <1>4 DEF Added
<1>10. RxAt(d, rx_free'[f], rx_rasm'[f], rx_seq'[f], rx_seq_init'[f], rx_conf)
  BY <1>8, <1>9 DEF RxAt
<1> QED
  BY <1>9, <1>10 DEF d, Advances, Final

LEMMA ContAdvances ==
  ASSUME RxInv, RxStarts, NEW p, p.type = "CONT", NEW c, ComesNext(p, c),
         rle_receiver_deencap_data(p)
  PROVE  Advances(p, c)
<1> DEFINE f == p.al.frag
           d == After(p, c)
<1>1. /\ Taken(p) /\ PpduOK(p, rx_conf) /\ f \in RxFragIds
      /\ BufHolds(c, rx_free[f], rx_rasm[f], rx_conf)
      /\ SeqFits(c, rx_free[f], rx_seq[f], rx_seq_init[f])
  BY DEF ComesNext, RxAt, Taken
<1>2. PICK s : Follows(p, c, s)
  BY DEF ComesNext
<1>3. p.lo = c.pos /\ p.al = c.al
  BY <1>2 DEF Follows
<1>4. Added(p, d)
  BY <1>1, <1>3, ContAdds DEF Continues
<1>5. ~rx_free[f]
  <2>1. p.al.hdr.len < p.lo /\ p.al.hdr.len \in 0 .. 3 /\ p.lo \in Nat
    BY <1>1, PpduLengths DEF PpduOK, RxInv, RxTypeOK
  <2> QED
    BY <1>1, <1>3, <2>1 DEF BufHolds
<1>6. d.al = c.al /\ d.seq = c.seq
  BY <1>3 DEF After
<1> HIDE DEF d
<1>7. SeqFits(d, FALSE, rx_seq[f], rx_seq_init[f])
  BY <1>1, <1>5, <1>6 DEF SeqFits
<1>8. /\ rx_ret'.status = "C_OK" /\ ~rx_sdu'.some /\ OthersKept(f)
      /\ rx_free'[f] = FALSE /\ BufHolds(d, FALSE, rx_rasm'[f], rx_conf)
      /\ rx_seq'[f] = rx_seq[f] /\ rx_seq_init'[f] = rx_seq_init[f]
  BY <1>4 DEF Added
<1>9. RxAt(d, rx_free'[f], rx_rasm'[f], rx_seq'[f], rx_seq_init'[f], rx_conf)
  BY <1>7, <1>8 DEF RxAt
<1> QED
  BY <1>8, <1>9 DEF d, Advances, Final

LEMMA EndAdvances ==
  ASSUME RxInv, RxStarts, NEW p, p.type = "END", NEW c, ComesNext(p, c),
         rle_receiver_deencap_data(p)
  PROVE  Advances(p, c)
<1> DEFINE f == p.al.frag
           d == After(p, c)
<1>1. /\ Taken(p) /\ PpduOK(p, rx_conf) /\ f \in RxFragIds
      /\ BufHolds(c, rx_free[f], rx_rasm[f], rx_conf)
      /\ SeqFits(c, rx_free[f], rx_seq[f], rx_seq_init[f])
  BY DEF ComesNext, RxAt, Taken
<1>2. PICK s : Follows(p, c, s)
  BY DEF ComesNext
<1>3. p.lo = c.pos /\ p.al = c.al
  BY <1>2 DEF Follows
<1>4. Completed(p)
  BY <1>1, <1>3, EndCompletes DEF Continues
<1>5. ~rx_free[f]
  <2>1. p.al.hdr.len < p.lo /\ p.al.hdr.len \in 0 .. 3 /\ p.lo \in Nat
    BY <1>1, PpduLengths DEF PpduOK, RxInv, RxTypeOK
  <2> QED
    BY <1>1, <1>3, <2>1 DEF BufHolds
<1>6. /\ (use_alpdu_crc(rx_conf) => p.al.trailer.kind # "seq")
      /\ (~use_alpdu_crc(rx_conf) => p.al.trailer.kind = "seq")
  BY <1>1 DEF PpduOK, TrailerOK
<1>7. /\ p.al.trailer.kind = "seq" =>
           /\ c.seq = rle_ctx_incr_seq_nb(p.al.trailer.val)
           /\ ~rx_seq_init[f] \/ p.al.trailer.val = rx_seq[f] \/ p.al.trailer.val = 0
      /\ p.al.trailer.kind # "seq" => (rx_seq_init[f] => c.seq = rx_seq[f])
  BY <1>1, <1>3, <1>5 DEF SeqFits
<1>8. TrailerFits(p)
  BY <1>6, <1>7 DEF TrailerFits
<1>9. /\ rx_free'[f] = TRUE /\ OthersKept(f)
      /\ rx_ret'.status = "C_REASSEMBLY_OK" /\ rx_sdu'.some
      /\ rx_sdu'.sdu = p.al.sdu /\ rx_sdu'.al = p.al
      /\ rx_seq_init'[f] => rx_seq'[f] = c.seq
  BY <1>4, <1>6, <1>7, <1>8 DEF Completed
<1>10. d.pos = 0 /\ d.seq = c.seq
  BY DEF After, Final
<1> HIDE DEF d
<1>11. RxAt(d, rx_free'[f], rx_rasm'[f], rx_seq'[f], rx_seq_init'[f], rx_conf)
  BY <1>9, <1>10 DEF RxAt, BufHolds, SeqFits
<1> QED
  BY <1>9, <1>11 DEF d, Advances, Final

LEMMA CompAdvances ==
  ASSUME RxInv, NEW p, p.type = "COMP", NEW c, ComesNext(p, c), rle_receiver_deencap_data(p)
  PROVE  Advances(p, c)
<1> DEFINE f == p.al.frag
           d == After(p, c)
<1>1. /\ PpduOK(p, rx_conf) /\ f \in RxFragIds /\ ~OmittedAsVlan(p.al.sdu, rx_conf)
      /\ RxAt(c, rx_free[f], rx_rasm[f], rx_seq[f], rx_seq_init[f], rx_conf)
  BY DEF ComesNext
<1>2. PICK s : Follows(p, c, s)
  BY DEF ComesNext
<1>3. c.pos = 0
  BY <1>1, <1>2 DEF Follows, PpduOK
<1>4. rebuilt_sdus(p.al.sdu, p.al.hdr, extracted(p, rx_conf)) = {p.al.sdu}
  BY <1>1, FirstRebuilt DEF RxInv, RxTypeOK
<1>5. RxComp(p)
  BY DEF rle_receiver_deencap_data, RxStart, RxStartError, RxCont, RxContError, RxEndFree,
         RxEndRefused, RxEndShort, RxEndComplete, EndAdds
<1>6. /\ RxReturns("C_REASSEMBLY_OK", -1, HandOver(p.al.sdu, p, TRUE))
      /\ UNCHANGED <<rx_free, rx_seq, rx_seq_init, rx_rasm>>
  BY <1>4, <1>5 DEF RxComp
<1>7. /\ rx_ret'.status = "C_REASSEMBLY_OK" /\ rx_sdu'.some /\ rx_sdu'.al = p.al
      /\ rx_sdu'.sdu = p.al.sdu
  BY <1>6 DEF RxReturns, HandOver
<1>8. d.pos = 0 /\ d.seq = c.seq
  BY DEF After, Final
<1>9. rx_free[f] /\ (rx_seq_init[f] => c.seq = rx_seq[f])
  BY <1>1, <1>3 DEF RxAt, BufHolds, SeqFits
<1> HIDE DEF d
<1>10. RxAt(d, rx_free'[f], rx_rasm'[f], rx_seq'[f], rx_seq_init'[f], rx_conf)
  BY <1>6, <1>8, <1>9 DEF RxAt, BufHolds, SeqFits
<1> QED
  BY <1>6, <1>7, <1>10 DEF d, Advances, Final, OthersKept

LEMMA ReceiveAt ==
  ASSUME NEW sent, Ends(sent), NoneAsVlan, NEW p, Sent(p, sent), rle_receiver_deencap_data(p),
         NEW c, NEW s, Follows(p, c, s),
         LET f == p.al.frag
         IN RxAt(c, rx_free[f], rx_rasm[f], rx_seq[f], rx_seq_init[f], rx_conf)
  PROVE  Advances(p, c)
<1>1. /\ p \in Ppdu /\ p.al.frag \in FragIds /\ p.al.sdu \in TxSdus
      /\ PpduOK(p, rx_conf) /\ Arrives(p)
  BY SentPpdu
<1>2. /\ RxInv /\ RxStarts /\ rx_conf = tx_conf /\ tx_conf \in TxConfs /\ RxFragIds = FragIds
  BY DEF Ends
<1>3. ~OmittedAsVlan(p.al.sdu, rx_conf)
  BY <1>1, <1>2 DEF NoneAsVlan
<1>4. ComesNext(p, c)
  BY <1>1, <1>2, <1>3 DEF ComesNext
<1>5. p.type \in {"COMP", "START", "CONT", "END"}
  BY <1>1 DEF Ppdu, PpduTypes
<1> QED
  BY <1>2, <1>4, <1>5, CompAdvances, StartAdvances, ContAdvances, EndAdvances

\* The SDUs got, before and after a PPDU.
LEMMA GotMoves ==
  ASSUME NEW p, NEW c, NEW s, NEW got, Follows(p, c, s), GotAt(c, s, got), Len(s) \in Nat,
         Item(p.al) \in SduItems
  PROVE  GotAt(After(p, c), s, IF Final(p) THEN Append(got, Item(p.al)) ELSE got)
<1> DEFINE item == Item(p.al)
           d == After(p, c)
           n == Len(got)
<1>1. /\ got \in Seq(SduItems) /\ c.n = n /\ n <= Len(s) /\ n \in Nat
      /\ \A i \in 1 .. n : got[i] = s[i]
  BY DEF GotAt
<1>2. c.n + 1 \in 1 .. Len(s) /\ s[c.n + 1] = item
  BY DEF Follows
<1>3. d.n = IF Final(p) THEN c.n + 1 ELSE c.n
  BY DEF After
<1> HIDE DEF item, d
<1>4. CASE Final(p)
  <2> DEFINE more == Append(got, item)
  <2>1. /\ more \in Seq(SduItems) /\ Len(more) = n + 1 /\ more[n + 1] = item
        /\ \A i \in 1 .. n : more[i] = got[i]
    BY <1>1, Appended DEF item
  <2> HIDE DEF more, n
  <2>2. ASSUME NEW i \in 1 .. Len(more) PROVE more[i] = s[i]
    <3>1. i \in 1 .. n \/ i = n + 1
      BY <1>1, <2>1
    <3> QED
      BY <1>1, <1>2, <2>1, <3>1
  <2>3. d.n = Len(more) /\ Len(more) <= Len(s)
    BY <1>1, <1>2, <1>3, <1>4, <2>1
  <2> QED
    BY <1>4, <2>1, <2>2, <2>3 DEF GotAt, more, item, d
<1>5. CASE ~Final(p)
  BY <1>1, <1>3, <1>5 DEF GotAt, d
<1> QED
  BY <1>4, <1>5

\* rle_receiver_deencap_data of the PPDU that comes next.
LEMMA ReceiveMoves ==
  ASSUME NEW sent, Ends(sent), NoneAsVlan, NEW p, Sent(p, sent), rle_receiver_deencap_data(p),
         NEW got, NEW more, got \in [FragIds -> Seq(SduItems)],
         more = IF rx_sdu'.some
                  THEN [got EXCEPT ![rx_sdu'.al.frag] =
                          Append(@, [id |-> rx_sdu'.al.id, sdu |-> rx_sdu'.sdu])]
                  ELSE got,
         \A f \in FragIds : \E c, d :
           /\ Moves(f, p, c, d, sent[f])
           /\ RxAt(c, rx_free[f], rx_rasm[f], rx_seq[f], rx_seq_init[f], rx_conf)
  PROVE  /\ rx_ret'.status # "C_ERROR"
         /\ \A f \in FragIds : \A c, d :
              /\ Moves(f, p, c, d, sent[f])
              /\ RxAt(c, rx_free[f], rx_rasm[f], rx_seq[f], rx_seq_init[f], rx_conf)
              /\ GotAt(c, sent[f], got[f])
              => /\ RxAt(d, rx_free'[f], rx_rasm'[f], rx_seq'[f], rx_seq_init'[f], rx_conf)
                 /\ GotAt(d, sent[f], more[f])
<1> DEFINE h == p.al.frag
           item == Item(p.al)
<1>1. /\ h \in FragIds /\ p.al.sdu \in TxSdus /\ p.al.id \in 1 .. tx_count
  BY SentPpdu
<1>2. RxFragIds = FragIds /\ SentOK(sent, tx_count) /\ tx_count \in Nat
  BY DEF Ends, TxInv, TxTypeOK
<1>3. item \in SduItems
  BY <1>1, <1>2 DEF Item, SduItems
<1>4. ASSUME NEW c, NEW d, Moves(h, p, c, d, sent[h]),
             RxAt(c, rx_free[h], rx_rasm[h], rx_seq[h], rx_seq_init[h], rx_conf)
      PROVE  Follows(p, c, sent[h]) /\ d = After(p, c) /\ Advances(p, c)
  BY <1>4, ReceiveAt DEF Moves
<1>5. PICK e : Advances(p, e)
  BY <1>1, <1>4
<1>6. rx_ret'.status # "C_ERROR"
  BY <1>5 DEF Advances
<1>7. /\ more[h] = IF Final(p) THEN Append(got[h], item) ELSE got[h]
      /\ \A f \in FragIds \ {h} : more[f] = got[f]
  <2>1. CASE Final(p)
    <3>1. rx_sdu'.some /\ rx_sdu'.al.frag = h
          /\ [id |-> rx_sdu'.al.id, sdu |-> rx_sdu'.sdu] = item
      BY <1>5, <2>1 DEF Advances, Item
    <3>2. more = [got EXCEPT ![h] = Append(@, item)]
      BY <3>1
    <3> HIDE DEF item
    <3> QED
      BY <1>1, <2>1, <3>2
  <2>2. CASE ~Final(p)
    <3>1. ~rx_sdu'.some
      BY <1>5, <2>2 DEF Advances
    <3> QED
      BY <2>2, <3>1
  <2> QED
    BY <2>1, <2>2
<1>8. ASSUME NEW f \in FragIds, NEW c, NEW d, Moves(f, p, c, d, sent[f]),
             RxAt(c, rx_free[f], rx_rasm[f], rx_seq[f], rx_seq_init[f], rx_conf),
             GotAt(c, sent[f], got[f])
      PROVE  /\ RxAt(d, rx_free'[f], rx_rasm'[f], rx_seq'[f], rx_seq_init'[f], rx_conf)
             /\ GotAt(d, sent[f], more[f])
  <2>1. CASE f = h
    <3>1. Follows(p, c, sent[h]) /\ d = After(p, c) /\ Advances(p, c)
      BY <1>4, <1>8, <2>1
    <3>2. RxAt(d, rx_free'[h], rx_rasm'[h], rx_seq'[h], rx_seq_init'[h], rx_conf)
      BY <3>1 DEF Advances
    <3>3. sent[h] \in Seq(SduItems)
      BY <1>1, <1>2 DEF SentOK
    <3>4. Len(sent[h]) \in Nat
      BY <3>3
    <3>5. GotAt(d, sent[h], IF Final(p) THEN Append(got[h], item) ELSE got[h])
      <4> DEFINE s == sent[h]
                 g == got[h]
      <4>1. Follows(p, c, s) /\ GotAt(c, s, g) /\ Len(s) \in Nat /\ d = After(p, c)
        BY <1>8, <2>1, <3>1, <3>4
      <4> HIDE DEF s, g
      <4>2. GotAt(After(p, c), s, IF Final(p) THEN Append(g, item) ELSE g)
        BY <1>3, <4>1, GotMoves
      <4> QED
        BY <4>1, <4>2 DEF s, g
    <3> QED
      BY <1>7, <2>1, <3>2, <3>5
  <2>2. CASE f # h
    <3>1. d = c /\ more[f] = got[f]
      BY <1>7, <1>8, <2>2 DEF Moves
    <3>2. /\ rx_free'[f] = rx_free[f] /\ rx_rasm'[f] = rx_rasm[f]
          /\ rx_seq'[f] = rx_seq[f] /\ rx_seq_init'[f] = rx_seq_init[f]
      BY <1>2, <1>5, <2>2 DEF Advances, OthersKept
    <3> QED
      BY <1>8, <3>1, <3>2
  <2> QED
    BY <2>1, <2>2
<1> QED
  BY <1>6, <1>8

=============================================================================
