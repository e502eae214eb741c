------------------------- MODULE RleReceiverProofs -------------------------
(***************************************************************************)
(* Proofs about the receiver, for every set of fragment ids, every         *)
(* configuration and every set of well-formed PPDUs, in whatever order     *)
(* they arrive and however often.                                          *)
(***************************************************************************)
EXTENDS RleReceiver, RleFragBufProofs

USE DEF CompHdr, StartHdr, ContEndHdr, BaseHdr, MaxAlpduHdr, CrcSize, SeqSize

\* The fields of a PPDU that the receiver computes with.
LEMMA PpduFields ==
  ASSUME NEW ppdu \in Ppdu
  PROVE  /\ carried(ppdu) \in Int /\ get_fragment_length(ppdu.len) \in Nat
         /\ ppdu.total \in 0 .. TotalMod - 1 /\ ppdu.lo \in Nat /\ ppdu.hi \in Nat
         /\ ppdu.use_crc \in BOOLEAN /\ ppdu.al \in Alpdu
         /\ ppdu.al.trailer.val \in Nat /\ ppdu.al.sdu.size \in Nat
         /\ ppdu.al.hdr.len \in 0 .. 3 /\ ppdu.al.hdr.cut \in {0, 2}
  BY LimitsAssumption DEF Ppdu, Alpdu, AlpduHdr, SduRecord, carried, get_fragment_length, PpduHdrLen

\* What the receiver finds in the ALPDU header of a well-formed PPDU.
LEMMA ExtractedHdr ==
  ASSUME NEW conf \in ConfRecord, NEW ppdu, WellFormed(ppdu, conf)
  PROVE  LET x == extracted(ppdu, conf)
         IN /\ carried(ppdu) \in Nat /\ 0 < carried(ppdu)
            /\ x.len \in 0 .. 3 /\ x.comp \in 0 .. 255
            /\ x.ptype \in Nat \union {NoPtype}
            /\ x.ptype # NoPtype => x.len <= carried(ppdu)
<1>1. ppdu \in Ppdu /\ carried(ppdu) = ppdu.hi - ppdu.lo /\ ppdu.lo < ppdu.hi
  BY DEF WellFormed
<1>2. carried(ppdu) \in Nat /\ 0 < carried(ppdu)
  BY <1>1, PpduFields
<1>3. /\ ppdu.supp \in BOOLEAN /\ ppdu.al.hdr \in AlpduHdr /\ ppdu.al.sdu.ptype \in Nat
  BY <1>1 DEF Ppdu, Alpdu, SduRecord
<1> QED
  BY <1>2, <1>3, Extraction DEF extracted

\* The unsigned additions on the counters of a context stay unsigned.
LEMMA RxCounters ==
  ASSUME NEW s \in RxStats, NEW a \in Int, NEW b \in Int, NEW c \in Int
  PROVE  /\ received(s, a, b) \in RxStats
         /\ dropped(s, a, b, c) \in RxStats
         /\ delivered(s, a) \in RxStats
<1>1. \A x \in Nat, y \in Int : incr_counter(x, y) \in Nat /\ incr_bytes(x, y) \in Nat
  BY LimitsAssumption DEF incr_counter, incr_bytes
<1>2. a * c \in Int
  OBVIOUS
<1>3. received(s, a, b) \in RxStats
  <2> DEFINE i == incr_counter(s.in, a)
             j == incr_bytes(s.bytes_in, b)
  <2>1. i \in Nat /\ j \in Nat
    BY <1>1 DEF RxStats
  <2>2. received(s, a, b) = [s EXCEPT !.in = i, !.bytes_in = j]
    BY DEF received
  <2> HIDE DEF i, j
  <2> QED
    BY <2>1, <2>2 DEF RxStats
<1>4. dropped(s, a, b, c) \in RxStats
  <2> DEFINE i == incr_counter(s.dropped, a)
             j == incr_counter(s.lost, b)
             k == incr_bytes(s.bytes_dropped, a * c)
  <2>1. s.dropped \in Nat /\ s.lost \in Nat /\ s.bytes_dropped \in Nat
    BY DEF RxStats
  <2>2. i \in Nat /\ j \in Nat /\ k \in Nat
    BY <1>1, <1>2, <2>1, Zenon
  <2>3. dropped(s, a, b, c) = [s EXCEPT !.dropped = i, !.lost = j, !.bytes_dropped = k]
    BY DEF dropped
  <2> HIDE DEF i, j, k
  <2> QED
    BY <2>2, <2>3 DEF RxStats
<1>5. delivered(s, a) \in RxStats
  <2> DEFINE i == incr_counter(s.ok, 1)
             j == incr_bytes(s.bytes_ok, a)
  <2>1. i \in Nat /\ j \in Nat
    <3>1. s.ok \in Nat /\ s.bytes_ok \in Nat /\ 1 \in Int
      BY DEF RxStats
    <3> QED
      BY <1>1, <3>1, Zenon
  <2>2. delivered(s, a) = [s EXCEPT !.ok = i, !.bytes_ok = j]
    BY DEF delivered
  <2> HIDE DEF i, j
  <2> QED
    BY <2>1, <2>2 DEF RxStats
<1> QED
  BY <1>3, <1>4, <1>5

-----------------------------------------------------------------------------
(* Reassembly buffers *)

\* Bytes that fit a buffer leave it a buffer, of the same SDU.
LEMMA RasmBufAdd ==
  ASSUME NEW b \in RasmBuf, NEW ppdu, NEW n \in Nat, sdu_frag_fits(b, n)
  PROVE  LET nb == rasm_buf_add(b, ppdu, n)
         IN /\ nb \in RasmBuf
            /\ nb.got = b.got + n /\ nb.size = b.size /\ nb.start = b.start
            /\ nb.hdr_len = b.hdr_len /\ nb.comp = b.comp /\ nb.ptype = b.ptype
            /\ nb.whole => b.whole
<1> DEFINE w == /\ b.whole
                /\ n = 0 \/ (ppdu.al = b.start.al /\ ppdu.lo = b.hdr_len + b.got)
           nb == rasm_buf_add(b, ppdu, n)
<1>1. b.got + n \in 0 .. RasmBufLen /\ w \in BOOLEAN /\ (w => b.whole)
  BY LimitsAssumption DEF RasmBuf, RasmBufLen, sdu_frag_fits
<1>2. nb = [b EXCEPT !.got = b.got + n, !.whole = w]
  BY DEF rasm_buf_add
<1> HIDE DEF w, nb
<1>3. nb \in RasmBuf
  BY <1>1, <1>2, Zenon DEF RasmBuf
<1>4. /\ nb.got = b.got + n /\ nb.size = b.size /\ nb.start = b.start
      /\ nb.hdr_len = b.hdr_len /\ nb.comp = b.comp /\ nb.ptype = b.ptype
      /\ nb.whole = w
  BY <1>2, Zenon DEF RasmBuf
<1> QED
  BY <1>1, <1>3, <1>4 DEF nb

\* What the receiver hands over for a complete buffer comes from the START PPDU of
\* that buffer and has its size, with the VLAN protocol field if it was cut.
LEMMA RebuiltSdu ==
  ASSUME NEW b \in RasmBuf, b.start \in Ppdu, b.whole => b.hdr_len = b.start.al.hdr.len,
         NEW outs \in rebuilt_choices(b), NEW out \in outs
  PROVE  /\ out.some /\ out.comp = (b.start.type = "COMP") /\ out.frag = b.start.frag
         /\ out.use_crc = b.start.use_crc /\ out.total = b.start.total
         /\ out.sdu.size = b.size
              + (IF b.comp = RLE_PROTO_TYPE_VLAN_COMP_WO_PTYPE_FIELD THEN PtypeSize ELSE 0)
<1> DEFINE al == b.start.al
           whole == b.whole /\ b.size = al.sdu.size - al.hdr.cut
           x     == [ptype |-> b.ptype, comp |-> b.comp, len |-> b.hdr_len]
           vlan == b.comp = RLE_PROTO_TYPE_VLAN_COMP_WO_PTYPE_FIELD
<1>0. /\ b.size \in Nat /\ b.hdr_len \in 0 .. 3 /\ al.sdu.size \in Nat
      /\ al.hdr.len \in 0 .. 3 /\ al.hdr.cut \in {0, 2} /\ al.sdu \in SduRecord
  BY PpduFields, LimitsAssumption DEF RasmBuf, RasmBufLen, Alpdu
<1> SUFFICES \E sdu : \E w : /\ out = HandOver(sdu, b.start, w)
                            /\ sdu.size = b.size + (IF vlan THEN PtypeSize ELSE 0)
  BY DEF HandOver
<1>1. CASE whole
  <2>1. PICK sdu \in rebuilt_sdus(al.sdu, al.hdr, x) : out = HandOver(sdu, b.start, TRUE)
    BY <1>1 DEF rebuilt_choices
  <2>2. CASE ~vlan
    <3> DEFINE n == al.hdr.len + al.sdu.size - al.hdr.cut - b.hdr_len
    <3>1. sdu = [al.sdu EXCEPT !.ptype = b.ptype, !.size = n]
      BY <2>1, <2>2 DEF rebuilt_sdus
    <3>2. n = b.size
      BY <1>0, <1>1
    <3>3. sdu.size = n
      <4> HIDE DEF n
      <4> QED
        BY <1>0, <3>1 DEF SduRecord
    <3>4. sdu.size = b.size + (IF vlan THEN PtypeSize ELSE 0)
      BY <1>0, <2>2, <3>2, <3>3
    <3> QED
      BY <2>1, <3>4
  <2>3. CASE vlan
    <3> DEFINE n == al.sdu.size - al.hdr.cut + PtypeSize
               t == get_uncomp_ptype_from_sdu(vlan_ip_version(al.sdu, al.hdr.cut), 1)
    <3>1. sdu = reassembly_insert_vlan_ptype(al.sdu, al.hdr.cut)
      BY <2>1, <2>3 DEF rebuilt_sdus
    <3>2. sdu = [al.sdu EXCEPT !.ptype = RLE_PROTO_TYPE_VLAN_UNCOMP, !.size = n, !.tpid = t]
      BY <3>1 DEF reassembly_insert_vlan_ptype
    <3>3. n = b.size + PtypeSize
      BY <1>1
    <3>4. sdu.size = n
      <4> HIDE DEF n, t
      <4> QED
        BY <1>0, <3>2 DEF SduRecord
    <3> QED
      BY <2>1, <2>3, <3>3, <3>4
  <2> QED
    BY <2>2, <2>3
<1>2. CASE ~whole
  <2> DEFINE n == b.size + (IF vlan THEN PtypeSize ELSE 0)
             m == [NoSdu EXCEPT !.ptype = b.ptype, !.size = n]
  <2>1. out = HandOver(m, b.start, FALSE)
    <3>1. CASE vlan
      BY <1>2, <3>1 DEF rebuilt_choices
    <3>2. CASE ~vlan
      <4>1. out = HandOver([NoSdu EXCEPT !.ptype = b.ptype, !.size = b.size], b.start, FALSE)
        BY <1>2, <3>2 DEF rebuilt_choices
      <4>2. n = b.size
        BY <1>0, <3>2
      <4> HIDE DEF n
      <4> QED
        BY <4>1, <4>2
    <3> QED
      BY <3>1, <3>2
  <2>2. m.size = n
    <3> HIDE DEF n
    <3> QED
      BY DEF NoSdu
  <2> HIDE DEF m
  <2> QED
    BY <2>1, <2>2
<1> QED
  BY <1>1, <1>2

-----------------------------------------------------------------------------
(* The inductive invariant *)

\* The buffer b of a context f in use whose trailer is announced as crc: what RxBufOK
\* says of it, and that bytes taken for SDU are SDU when its ALPDU header was found
\* as it was sent.
BufOK(b, crc, f) ==
  /\ b.start.type = "START" /\ b.start.frag = f
  /\ b.size = b.start.total - b.hdr_len - alpdu_trailer_len(crc)
  /\ crc = b.start.use_crc
  /\ 0 < b.size /\ b.got <= b.size
  /\ b.whole => b.hdr_len = b.start.al.hdr.len

RxBufs == \A f \in RxFragIds : ~rx_free[f] => BufOK(rx_rasm[f], rx_use_crc[f], f)

\* RxBufOK is not inductive without the types, since sizes are bounded only by the
\* field that announces them; what a call hands over is right because of what
\* the buffer was before the call.
RxInv == /\ RxTypeOK /\ RxBufs /\ RxAssertsHold
         /\ HandedOverComplete /\ CrcProtects

\* PPDUs that reach a receiver in the state that RxInv describes.
Arrives(ppdu) ==
  WellFormed(ppdu, rx_conf) /\ (ppdu.type # "COMP" => ppdu.frag \in RxFragIds)

\* A START PPDU opened the buffer of a context in use.
LEMMA OpenedBuf ==
  ASSUME NEW b \in RasmBuf, NEW crc, NEW f, BufOK(b, crc, f)
  PROVE  b.start \in Ppdu /\ crc \in BOOLEAN
<1>1. b.start \in Ppdu
  BY DEF BufOK, RasmBuf, NoStart
<1> QED
  BY <1>1, PpduFields DEF BufOK

\* The contexts of a new receiver have the types of the state.
LEMMA NewContexts ==
  /\ [f \in RxFragIds |-> TRUE] \in [RxFragIds -> BOOLEAN]
  /\ [f \in RxFragIds |-> FALSE] \in [RxFragIds -> BOOLEAN]
  /\ [f \in RxFragIds |-> 0] \in [RxFragIds -> 0 .. SeqMod - 1]
  /\ [f \in RxFragIds |-> 0] \in [RxFragIds -> 0 .. BytesMod - 1]
  /\ [f \in RxFragIds |-> rasm_buf_init] \in [RxFragIds -> RasmBuf]
  /\ [f \in RxFragIds |-> NoRxStats] \in [RxFragIds -> RxStats]
<1>1. SeqMod \in Nat \ {0} /\ BytesMod \in Nat \ {0} /\ TotalMod \in Nat /\ TotalMod > 7
  BY LimitsAssumption
<1>2. rasm_buf_init \in RasmBuf
  BY <1>1 DEF rasm_buf_init, RasmBuf, RasmBufLen
<1>3. NoRxStats \in RxStats
  BY DEF NoRxStats, RxStats
<1>4. 0 \in 0 .. SeqMod - 1 /\ 0 \in 0 .. BytesMod - 1
  BY <1>1
<1> QED
  BY <1>2, <1>3, <1>4, Zenon

\* rle_receiver_new establishes the invariant.
LEMMA RxInitInv == RxInit => RxInv
<1> SUFFICES ASSUME RxInit PROVE RxInv
  OBVIOUS
<1>1. rx_conf \in ConfRecord /\ rx_restarts \in Nat /\ rx_abort \in BOOLEAN
  BY RxAssumption DEF RxInit
<1>2. RxTypeOK
  BY <1>1, NewContexts, Zenon DEF RxInit, RxTypeOK
<1>3. RxBufs /\ RxAssertsHold
  BY DEF RxInit, RxBufs, RxAssertsHold
<1>4. HandedOverComplete /\ CrcProtects
  BY DEF RxInit, HandedOverComplete, CrcProtects, NoRxSdu
<1> QED
  BY <1>2, <1>3, <1>4 DEF RxInv

\* Calls that hand nothing over.
LEMMA NothingHandedOver ==
  ASSUME rx_sdu' = NoRxSdu
  PROVE  HandedOverComplete' /\ CrcProtects'
  BY DEF HandedOverComplete, CrcProtects, NoRxSdu

\* The counters of one context change.
LEMMA CountersStep ==
  ASSUME RxTypeOK, NEW f \in RxFragIds, NEW s \in RxStats, NEW n \in Int,
         rx_stats' = [rx_stats EXCEPT ![f] = s],
         rx_current' = [rx_current EXCEPT ![f] = n % BytesMod]
  PROVE  /\ rx_stats' \in [RxFragIds -> RxStats]
         /\ rx_current' \in [RxFragIds -> 0 .. BytesMod - 1]
<1>1. n % BytesMod \in 0 .. BytesMod - 1
  BY LimitsAssumption
<1>2. /\ rx_stats \in [RxFragIds -> RxStats]
      /\ rx_current \in [RxFragIds -> 0 .. BytesMod - 1]
  BY DEF RxTypeOK
<1> QED
  BY <1>1, <1>2, Zenon

\* Buffers of contexts that are freed or left alone stay as they were.
LEMMA FreedStep ==
  ASSUME RxTypeOK, RxBufs, NEW f \in RxFragIds, rle_receiver_free_context(f),
         NEW b \in RasmBuf, rx_rasm' = [rx_rasm EXCEPT ![f] = b],
         \A g \in RxFragIds \ {f} : rx_use_crc'[g] = rx_use_crc[g]
  PROVE  /\ RxBufs'
         /\ rx_free' \in [RxFragIds -> BOOLEAN] /\ rx_rasm' \in [RxFragIds -> RasmBuf]
<1>1. /\ rx_free' = [rx_free EXCEPT ![f] = TRUE]
      /\ rx_free \in [RxFragIds -> BOOLEAN] /\ rx_rasm \in [RxFragIds -> RasmBuf]
  BY DEF rle_receiver_free_context, RxTypeOK
<1>2. rx_free' \in [RxFragIds -> BOOLEAN] /\ rx_rasm' \in [RxFragIds -> RasmBuf]
  BY <1>1, Zenon
<1>3. ASSUME NEW g \in RxFragIds, ~rx_free'[g]
      PROVE  BufOK(rx_rasm'[g], rx_use_crc'[g], g)
  <2>1. g # f /\ ~rx_free[g] /\ rx_rasm'[g] = rx_rasm[g] /\ rx_use_crc'[g] = rx_use_crc[g]
    BY <1>1, <1>3
  <2> QED
    BY <2>1, Zenon DEF RxBufs
<1> QED
  BY <1>2, <1>3, Zenon DEF RxBufs


\* reassembly_comp_ppdu uses no context.
LEMMA CompInv ==
  ASSUME RxInv, NEW ppdu, Arrives(ppdu), RxComp(ppdu)
  PROVE  RxInv'
<1>1. /\ UNCHANGED <<rx_conf, rx_restarts>> /\ ~rx_abort
      /\ rx_sdu' = NoRxSdu \/ \E sdu : rx_sdu' = HandOver(sdu, ppdu, TRUE)
      /\ ppdu.type = "COMP"
  BY DEF RxComp, RxReturns
<1>2. HandedOverComplete' /\ CrcProtects'
  <2>1. CASE rx_sdu' = NoRxSdu
    BY <2>1, NothingHandedOver
  <2>2. CASE \E sdu : rx_sdu' = HandOver(sdu, ppdu, TRUE)
    <3>1. rx_sdu'.comp = (ppdu.type = "COMP")
      BY <2>2 DEF HandOver
    <3> QED
      BY <1>1, <3>1 DEF HandedOverComplete, CrcProtects
  <2> QED
    BY <1>1, <2>1, <2>2
<1>3. RxTypeOK' /\ RxBufs' /\ RxAssertsHold'
  BY <1>1 DEF RxInv, RxTypeOK, RxBufs, RxAssertsHold, RxComp
<1> QED
  BY <1>2, <1>3 DEF RxInv

\* The error paths of reassembly_start_ppdu and reassembly_cont_ppdu.
LEMMA DropOneInv ==
  ASSUME RxInv, NEW f \in RxFragIds, NEW n \in Int, NEW bytes \in Int, NEW sdus \in Int,
         DropOne(f, received(rx_stats[f], sdus, bytes), n),
         NEW m \in Int, rx_current' = [rx_current EXCEPT ![f] = m % BytesMod],
         rx_use_crc' \in [RxFragIds -> BOOLEAN],
         \A g \in RxFragIds \ {f} : rx_use_crc'[g] = rx_use_crc[g],
         UNCHANGED <<rx_seq, rx_seq_init, rx_rasm, rx_abort>>
  PROVE  RxInv'
<1> DEFINE s == dropped(received(rx_stats[f], sdus, bytes), 1, 1, n)
<1>0. RxTypeOK /\ RxBufs
  BY DEF RxInv
<1>1. /\ rx_stats' = [rx_stats EXCEPT ![f] = s] /\ rle_receiver_free_context(f)
      /\ ~rx_abort /\ rx_sdu' = NoRxSdu /\ UNCHANGED <<rx_conf, rx_restarts>>
  BY DEF DropOne, RxReturns
<1>2. s \in RxStats
  <2>1. rx_stats[f] \in RxStats
    BY <1>0 DEF RxTypeOK
  <2>2. received(rx_stats[f], sdus, bytes) \in RxStats
    BY <2>1, RxCounters
  <2> DEFINE r == received(rx_stats[f], sdus, bytes)
  <2>3. r \in RxStats /\ 1 \in Int
    BY <2>2
  <2> HIDE DEF r
  <2>4. dropped(r, 1, 1, n) \in RxStats
    BY <2>3, RxCounters
  <2> QED
    BY <2>4 DEF r
<1> HIDE DEF s
<1>3. /\ rx_stats' \in [RxFragIds -> RxStats]
      /\ rx_current' \in [RxFragIds -> 0 .. BytesMod - 1]
  BY <1>0, <1>1, <1>2, CountersStep
<1>4. /\ RxBufs'
      /\ rx_free' \in [RxFragIds -> BOOLEAN] /\ rx_rasm' \in [RxFragIds -> RasmBuf]
  <2>1. /\ rx_rasm[f] \in RasmBuf
        /\ rx_rasm' = [rx_rasm EXCEPT ![f] = rx_rasm[f]]
    BY <1>0 DEF RxTypeOK
  <2> QED
    BY <1>0, <1>1, <2>1, FreedStep
<1>5. RxTypeOK'
  BY <1>0, <1>1, <1>3, <1>4 DEF RxTypeOK
<1>6. HandedOverComplete' /\ CrcProtects'
  BY <1>1, NothingHandedOver
<1> QED
  BY <1>1, <1>4, <1>5, <1>6 DEF RxInv, RxAssertsHold

LEMMA StartErrorInv ==
  ASSUME RxInv, NEW ppdu, Arrives(ppdu), RxStartError(ppdu)
  PROVE  RxInv'
<1> DEFINE f == ppdu.frag
           length == get_fragment_length(ppdu.len)
<1>1. ppdu \in Ppdu /\ f \in RxFragIds
  BY DEF Arrives, WellFormed, RxStartError
<1>2. length \in Int /\ ppdu.use_crc \in BOOLEAN /\ 1 \in Int
  BY <1>1, PpduFields
<1>3. /\ rx_current' = [rx_current EXCEPT ![f] = length % BytesMod]
      /\ DropOne(f, received(rx_stats[f], 1, length), length)
      /\ rx_use_crc' = [rx_use_crc EXCEPT ![f] = ppdu.use_crc] \/ rx_use_crc' = rx_use_crc
      /\ UNCHANGED <<rx_seq, rx_seq_init, rx_rasm, rx_abort>>
  BY DEF RxStartError
<1>4. rx_use_crc \in [RxFragIds -> BOOLEAN]
  BY DEF RxInv, RxTypeOK
<1> HIDE DEF length, f
<1>5. /\ rx_use_crc' \in [RxFragIds -> BOOLEAN]
      /\ \A g \in RxFragIds \ {f} : rx_use_crc'[g] = rx_use_crc[g]
  BY <1>1, <1>2, <1>3, <1>4
<1> QED
  BY <1>1, <1>2, <1>3, <1>5, DropOneInv, Zenon

LEMMA ContErrorInv ==
  ASSUME RxInv, NEW ppdu, Arrives(ppdu), RxContError(ppdu)
  PROVE  RxInv'
<1> DEFINE f == ppdu.frag
           length == get_fragment_length(ppdu.len)
           current == (rx_current[f] + length) % BytesMod
<1>1. ppdu \in Ppdu /\ f \in RxFragIds
  BY DEF Arrives, WellFormed, RxContError
<1>2. length \in Int /\ 0 \in Int
  BY <1>1, PpduFields
<1>3. rx_current[f] + length \in Int /\ current \in Int
  BY <1>1, <1>2, LimitsAssumption DEF RxInv, RxTypeOK
<1>4. /\ rx_current' = [rx_current EXCEPT ![f] = current]
      /\ DropOne(f, received(rx_stats[f], 0, length), current)
      /\ UNCHANGED <<rx_seq, rx_seq_init, rx_use_crc, rx_rasm, rx_abort>>
  BY DEF RxContError, incr_bytes
<1>5. /\ rx_use_crc' \in [RxFragIds -> BOOLEAN]
      /\ \A g \in RxFragIds \ {f} : rx_use_crc'[g] = rx_use_crc[g]
  BY <1>4 DEF RxInv, RxTypeOK
<1> HIDE DEF length, f
<1> QED
  BY <1>1, <1>2, <1>3, <1>4, <1>5, DropOneInv, Zenon


\* reassembly_start_ppdu opens the buffer of a free context.
LEMMA StartInv ==
  ASSUME RxInv, NEW ppdu, Arrives(ppdu), RxStart(ppdu)
  PROVE  RxInv'
<1> DEFINE f == ppdu.frag
           x == extracted(ppdu, rx_conf)
           length == get_fragment_length(ppdu.len)
           size == start_sdu_len(ppdu, x)
           n == carried(ppdu) - x.len
           opened == [size |-> size, got |-> 0, ptype |-> x.ptype, comp |-> x.comp,
                      hdr_len |-> x.len, start |-> ppdu,
                      whole |-> x.len = ppdu.al.hdr.len]
           b == rasm_buf_add(opened, [ppdu EXCEPT !.lo = x.len], n)
           s == received(rx_stats[f], 1, length)
<1>0. RxTypeOK /\ RxBufs
  BY DEF RxInv
<1>1. /\ ppdu \in Ppdu /\ f \in RxFragIds
      /\ ppdu.total > x.len + alpdu_trailer_len(ppdu.use_crc)
  BY DEF Arrives, WellFormed, RxStart
<1>2. /\ length \in Int /\ ppdu.use_crc \in BOOLEAN /\ 1 \in Int
      /\ ppdu.total \in 0 .. TotalMod - 1
      /\ alpdu_trailer_len(ppdu.use_crc) \in 1 .. 4
  BY <1>1, PpduFields, TrailerLen
<1>3. /\ start_trailer_fits(ppdu, x) /\ n <= size /\ rx_free[f] /\ ppdu.type = "START"
      /\ rx_current' = [rx_current EXCEPT ![f] = length % BytesMod]
      /\ rx_stats' = [rx_stats EXCEPT ![f] = s]
      /\ rx_free' = [rx_free EXCEPT ![f] = FALSE]
      /\ rx_use_crc' = [rx_use_crc EXCEPT ![f] = ppdu.use_crc]
      /\ rx_rasm' = [rx_rasm EXCEPT ![f] = b]
      /\ rx_abort' = ~rasm_asserts(rx_rasm'[f])
      /\ rx_sdu' = NoRxSdu /\ UNCHANGED <<rx_conf, rx_restarts, rx_seq, rx_seq_init>>
  BY DEF RxStart, RxReturns
<1>4. /\ carried(ppdu) \in Nat /\ x.len \in 0 .. 3 /\ x.comp \in 0 .. 255
      /\ x.ptype \in Nat /\ x.len <= carried(ppdu)
  <2>1. rx_conf \in ConfRecord /\ WellFormed(ppdu, rx_conf) /\ x.ptype # NoPtype
    BY <1>0, <1>3 DEF Arrives, RxTypeOK, start_trailer_fits
  <2> QED
    BY <2>1, ExtractedHdr
<1> HIDE DEF x, length, f
<1>5. /\ n \in Nat /\ size = ppdu.total - x.len - alpdu_trailer_len(ppdu.use_crc)
      /\ size \in 0 .. RasmBufLen /\ 0 < size /\ size <= RasmBufLen
  BY <1>1, <1>2, <1>4, LimitsAssumption DEF start_sdu_len, RasmBufLen
<1> HIDE DEF n, size
<1>6. opened \in RasmBuf /\ sdu_frag_fits(opened, n)
  <2>1. opened \in RasmBuf
    <3>1. 0 \in 0 .. RasmBufLen /\ (x.len = ppdu.al.hdr.len) \in BOOLEAN
      BY LimitsAssumption DEF RasmBufLen
    <3> QED
      BY <1>1, <1>4, <1>5, <3>1, Zenon DEF RasmBuf
  <2> QED
    BY <1>3, <1>5, <2>1 DEF sdu_frag_fits
<1>7. /\ opened.size = size /\ opened.got = 0 /\ opened.hdr_len = x.len
      /\ opened.start = ppdu /\ opened.whole = (x.len = ppdu.al.hdr.len)
  BY Zenon
<1> HIDE DEF opened
<1>8. /\ b \in RasmBuf /\ b.got = opened.got + n /\ b.size = size /\ b.start = ppdu
      /\ b.hdr_len = x.len /\ (b.whole => x.len = ppdu.al.hdr.len)
  <2>1. /\ b \in RasmBuf /\ b.got = opened.got + n /\ b.size = opened.size
        /\ b.start = opened.start /\ b.hdr_len = opened.hdr_len
        /\ b.whole => opened.whole
    BY <1>5, <1>6, RasmBufAdd
  <2> HIDE DEF b
  <2> QED
    BY <1>7, <2>1, Zenon
<1> HIDE DEF b
<1>9. BufOK(b, ppdu.use_crc, f) /\ rasm_asserts(b)
  BY <1>1, <1>3, <1>5, <1>7, <1>8 DEF BufOK, rasm_asserts, f
<1>10. rx_rasm'[f] = b /\ rx_use_crc'[f] = ppdu.use_crc
  BY <1>0, <1>1, <1>3 DEF RxTypeOK
<1>11. /\ rx_stats' \in [RxFragIds -> RxStats]
       /\ rx_current' \in [RxFragIds -> 0 .. BytesMod - 1]
  <2>1. s \in RxStats
    BY <1>0, <1>1, <1>2, RxCounters DEF RxTypeOK
  <2> QED
    BY <1>0, <1>1, <1>2, <1>3, <2>1, CountersStep
<1>12. RxTypeOK'
  <2>1. /\ rx_free' \in [RxFragIds -> BOOLEAN] /\ rx_use_crc' \in [RxFragIds -> BOOLEAN]
        /\ rx_rasm' \in [RxFragIds -> RasmBuf]
    BY <1>0, <1>1, <1>2, <1>3, <1>8, Zenon DEF RxTypeOK
  <2>2. rx_abort' \in BOOLEAN
    BY <1>3, <1>9, <1>10
  <2> QED
    BY <1>0, <1>3, <1>11, <2>1, <2>2, Zenon DEF RxTypeOK
<1>13. RxBufs'
  <2> SUFFICES ASSUME NEW g \in RxFragIds, ~rx_free'[g]
               PROVE  BufOK(rx_rasm'[g], rx_use_crc'[g], g)
    BY Zenon DEF RxBufs
  <2>1. CASE g = f
    BY <1>9, <1>10, <2>1, Zenon
  <2>2. CASE g # f
    <3>1. ~rx_free[g] /\ rx_rasm'[g] = rx_rasm[g] /\ rx_use_crc'[g] = rx_use_crc[g]
      BY <1>0, <1>3, <2>2, Zenon DEF RxTypeOK
    <3> QED
      BY <1>0, <3>1, Zenon DEF RxBufs
  <2> QED
    BY <2>1, <2>2
<1>14. RxAssertsHold' /\ HandedOverComplete' /\ CrcProtects'
  BY <1>3, <1>9, <1>10, NothingHandedOver DEF RxAssertsHold
<1> QED
  BY <1>12, <1>13, <1>14 DEF RxInv


\* reassembly_cont_ppdu adds the bytes of a PPDU that fit.
LEMMA ContInv ==
  ASSUME RxInv, NEW ppdu, Arrives(ppdu), RxCont(ppdu)
  PROVE  RxInv'
<1> DEFINE f == ppdu.frag
           length == get_fragment_length(ppdu.len)
           b == rasm_buf_add(rx_rasm[f], ppdu, carried(ppdu))
           s == received(rx_stats[f], 0, length)
<1>0. RxTypeOK /\ RxBufs
  BY DEF RxInv
<1>1. ppdu \in Ppdu /\ f \in RxFragIds
  BY DEF Arrives, WellFormed, RxCont
<1>2. length \in Int /\ carried(ppdu) \in Nat /\ 0 \in Int
  BY <1>0, <1>1, PpduFields, ExtractedHdr DEF Arrives, RxTypeOK
<1>3. /\ ~rx_free[f] /\ sdu_frag_fits(rx_rasm[f], carried(ppdu))
      /\ rx_current' = [rx_current EXCEPT ![f] = (rx_current[f] + length) % BytesMod]
      /\ rx_stats' = [rx_stats EXCEPT ![f] = s]
      /\ rx_rasm' = [rx_rasm EXCEPT ![f] = b]
      /\ rx_abort' = ~rasm_asserts(b)
      /\ rx_sdu' = NoRxSdu
      /\ UNCHANGED <<rx_conf, rx_restarts, rx_free, rx_seq, rx_seq_init, rx_use_crc>>
  BY DEF RxCont, RxReturns, incr_bytes
<1> HIDE DEF f, length
<1>4. rx_rasm[f] \in RasmBuf /\ BufOK(rx_rasm[f], rx_use_crc[f], f)
  BY <1>0, <1>1, <1>3 DEF RxTypeOK, RxBufs
<1>5. /\ b \in RasmBuf /\ b.got = rx_rasm[f].got + carried(ppdu)
      /\ b.size = rx_rasm[f].size /\ b.start = rx_rasm[f].start
      /\ b.hdr_len = rx_rasm[f].hdr_len /\ (b.whole => rx_rasm[f].whole)
  BY <1>2, <1>3, <1>4, RasmBufAdd
<1> HIDE DEF b
<1>6. BufOK(b, rx_use_crc[f], f) /\ rasm_asserts(b)
  <2>1. b.size <= RasmBufLen /\ b.got <= b.size
    BY <1>3, <1>5, LimitsAssumption DEF RasmBuf, RasmBufLen, sdu_frag_fits
  <2> QED
    BY <1>4, <1>5, <2>1 DEF BufOK, rasm_asserts
<1>7. /\ rx_stats' \in [RxFragIds -> RxStats]
      /\ rx_current' \in [RxFragIds -> 0 .. BytesMod - 1]
  <2>1. rx_stats[f] \in RxStats /\ rx_current[f] + length \in Int
    BY <1>0, <1>1, <1>2, LimitsAssumption DEF RxTypeOK
  <2>2. s \in RxStats
    BY <1>2, <2>1, RxCounters
  <2> QED
    BY <1>0, <1>1, <1>3, <2>1, <2>2, CountersStep
<1>8. RxTypeOK'
  <2>1. rx_rasm' \in [RxFragIds -> RasmBuf]
    BY <1>0, <1>1, <1>3, <1>5, Zenon DEF RxTypeOK
  <2>2. rx_abort' \in BOOLEAN
    BY <1>3, <1>6
  <2> QED
    BY <1>0, <1>3, <1>7, <2>1, <2>2, Zenon DEF RxTypeOK
<1>9. RxBufs'
  <2> SUFFICES ASSUME NEW g \in RxFragIds, ~rx_free'[g]
               PROVE  BufOK(rx_rasm'[g], rx_use_crc'[g], g)
    BY Zenon DEF RxBufs
  <2>1. rx_rasm'[g] = IF g = f THEN b ELSE rx_rasm[g]
    BY <1>0, <1>3 DEF RxTypeOK
  <2>2. rx_use_crc'[g] = rx_use_crc[g] /\ ~rx_free[g]
    BY <1>3
  <2>3. CASE g = f
    BY <1>6, <2>1, <2>2, <2>3, Zenon
  <2>4. CASE g # f
    BY <1>0, <2>1, <2>2, <2>4, Zenon DEF RxBufs
  <2> QED
    BY <2>3, <2>4
<1>10. RxAssertsHold' /\ HandedOverComplete' /\ CrcProtects'
  BY <1>3, <1>6, NothingHandedOver DEF RxAssertsHold
<1> QED
  BY <1>8, <1>9, <1>10 DEF RxInv

\* Every end of reassembly_end_ppdu: the counters and the context that is freed.
LEMMA EndsWithInv ==
  ASSUME RxTypeOK, RxBufs, NEW ppdu \in Ppdu, ppdu.frag \in RxFragIds,
         NEW st, NEW out, NEW times \in Int, NEW lost \in Int,
         EndsWith(ppdu, st, out, times, lost), st = "C_REASSEMBLY_OK" => out.sdu.size \in Int,
         NEW b \in RasmBuf, rx_rasm' = [rx_rasm EXCEPT ![ppdu.frag] = b],
         rx_seq' \in [RxFragIds -> 0 .. SeqMod - 1],
         rx_seq_init' \in [RxFragIds -> BOOLEAN], rx_abort' \in BOOLEAN
  PROVE  RxTypeOK' /\ RxBufs' /\ rx_sdu' = out
<1> DEFINE f == ppdu.frag
           length == get_fragment_length(ppdu.len)
           current == (rx_current[f] + length) % BytesMod
           r == received(rx_stats[f], 0, length)
           s == IF st = "C_REASSEMBLY_OK" THEN delivered(r, out.sdu.size)
                                          ELSE dropped(r, times, lost, current)
<1>1. length \in Int /\ 0 \in Int
  BY PpduFields
<1>2. /\ rx_current' = [rx_current EXCEPT ![f] = current]
      /\ rx_stats' = [rx_stats EXCEPT ![f] = s]
      /\ rle_receiver_free_context(f)
      /\ rx_sdu' = out /\ UNCHANGED <<rx_conf, rx_restarts, rx_use_crc>>
  BY DEF EndsWith, RxReturns, incr_bytes
<1>3. rx_current[f] + length \in Int /\ current \in Int /\ rx_stats[f] \in RxStats
  BY <1>1, LimitsAssumption DEF RxTypeOK
<1> HIDE DEF f, length, current
<1>4. r \in RxStats
  BY <1>1, <1>3, RxCounters
<1> HIDE DEF r
<1>5. s \in RxStats
  BY <1>3, <1>4, RxCounters
<1> HIDE DEF s
<1>6. f \in RxFragIds
  BY DEF f
<1>7. /\ rx_stats' \in [RxFragIds -> RxStats]
      /\ rx_current' \in [RxFragIds -> 0 .. BytesMod - 1]
  BY <1>2, <1>3, <1>5, <1>6, CountersStep DEF current
<1>8. /\ RxBufs'
      /\ rx_free' \in [RxFragIds -> BOOLEAN] /\ rx_rasm' \in [RxFragIds -> RasmBuf]
  BY <1>2, <1>6, FreedStep DEF f
<1> QED
  BY <1>2, <1>7, <1>8 DEF RxTypeOK


\* reassembly_end_ppdu with an error before any byte of the PPDU is used.
LEMMA EndErrorInv ==
  ASSUME RxInv, NEW ppdu, Arrives(ppdu), RxEndFree(ppdu) \/ RxEndRefused(ppdu)
  PROVE  RxInv'
<1>0. RxTypeOK /\ RxBufs /\ ~rx_abort
  BY DEF RxInv, RxAssertsHold
<1>1. ppdu \in Ppdu /\ ppdu.frag \in RxFragIds
  BY DEF Arrives, WellFormed, RxEndFree, RxEndRefused
<1>2. PICK times \in {1, 2}, lost \in {0, 1} :
        EndsWith(ppdu, "C_ERROR", NoRxSdu, times, lost)
  BY DEF RxEndFree, RxEndRefused
<1>3. UNCHANGED <<rx_seq, rx_seq_init, rx_rasm, rx_abort>>
  BY DEF RxEndFree, RxEndRefused
<1>4. /\ rx_rasm[ppdu.frag] \in RasmBuf
      /\ rx_rasm' = [rx_rasm EXCEPT ![ppdu.frag] = rx_rasm[ppdu.frag]]
      /\ rx_seq' \in [RxFragIds -> 0 .. SeqMod - 1]
      /\ rx_seq_init' \in [RxFragIds -> BOOLEAN] /\ rx_abort' \in BOOLEAN
  BY <1>0, <1>1, <1>3 DEF RxTypeOK
<1>5. times \in Int /\ lost \in Int /\ "C_ERROR" # "C_REASSEMBLY_OK"
  OBVIOUS
<1>6. RxTypeOK' /\ RxBufs' /\ rx_sdu' = NoRxSdu
  BY <1>0, <1>1, <1>2, <1>4, <1>5, EndsWithInv, Zenon
<1> QED
  BY <1>0, <1>3, <1>6, NothingHandedOver DEF RxInv, RxAssertsHold

\* An END PPDU whose bytes fit keeps the buffer that of its SDU, and no assertion fails.
LEMMA EndBuf ==
  ASSUME RxInv, NEW ppdu, Arrives(ppdu), EndAdds(ppdu)
  PROVE  LET f == ppdu.frag
             b == end_buf(ppdu)
         IN /\ ppdu \in Ppdu /\ f \in RxFragIds
            /\ b \in RasmBuf /\ BufOK(b, rx_use_crc[f], f) /\ ~rx_abort'
            /\ rx_rasm' = [rx_rasm EXCEPT ![f] = b]
<1> DEFINE f == ppdu.frag
           n == end_sdu_len(ppdu)
           b == rasm_buf_add(rx_rasm[f], ppdu, n)
<1>0. RxTypeOK /\ RxBufs
  BY DEF RxInv
<1>1. ppdu \in Ppdu /\ f \in RxFragIds
  BY DEF Arrives, WellFormed, EndAdds
<1>2. /\ ~rx_free[f] /\ n >= 0 /\ sdu_frag_fits(rx_rasm[f], n)
      /\ rx_rasm' = [rx_rasm EXCEPT ![f] = b]
      /\ rx_abort' = ~rasm_asserts(b) /\ b = end_buf(ppdu)
  BY DEF EndAdds, end_buf
<1>3. n \in Nat
  BY <1>1, <1>2, PpduFields, TrailerLen DEF end_sdu_len
<1> HIDE DEF f, n
<1>4. rx_rasm[f] \in RasmBuf /\ BufOK(rx_rasm[f], rx_use_crc[f], f)
  BY <1>0, <1>1, <1>2 DEF RxTypeOK, RxBufs
<1>5. /\ b \in RasmBuf /\ b.got = rx_rasm[f].got + n
      /\ b.size = rx_rasm[f].size /\ b.start = rx_rasm[f].start
      /\ b.hdr_len = rx_rasm[f].hdr_len /\ (b.whole => rx_rasm[f].whole)
  BY <1>2, <1>3, <1>4, RasmBufAdd
<1> HIDE DEF b
<1>6. b.size <= RasmBufLen /\ b.got <= b.size
  BY <1>2, <1>5, LimitsAssumption DEF RasmBuf, RasmBufLen, sdu_frag_fits
<1>7. BufOK(b, rx_use_crc[f], f) /\ rasm_asserts(b)
  BY <1>4, <1>5, <1>6 DEF BufOK, rasm_asserts
<1> QED
  BY <1>1, <1>2, <1>5, <1>7 DEF f

\* reassembly_end_ppdu that finds bytes missing.
LEMMA EndShortInv ==
  ASSUME RxInv, NEW ppdu, Arrives(ppdu), RxEndShort(ppdu)
  PROVE  RxInv'
<1>0. RxTypeOK /\ RxBufs
  BY DEF RxInv
<1>1. /\ EndAdds(ppdu) /\ EndsWith(ppdu, "C_ERROR", NoRxSdu, 1, 0)
      /\ UNCHANGED <<rx_seq, rx_seq_init>>
  BY DEF RxEndShort
<1>2. /\ ppdu \in Ppdu /\ ppdu.frag \in RxFragIds
      /\ end_buf(ppdu) \in RasmBuf /\ ~rx_abort'
      /\ rx_rasm' = [rx_rasm EXCEPT ![ppdu.frag] = end_buf(ppdu)]
  BY <1>1, EndBuf
<1>3. /\ rx_seq' \in [RxFragIds -> 0 .. SeqMod - 1]
      /\ rx_seq_init' \in [RxFragIds -> BOOLEAN]
  BY <1>0, <1>1 DEF RxTypeOK
<1>4. 1 \in Int /\ 0 \in Int /\ "C_ERROR" # "C_REASSEMBLY_OK" /\ rx_abort' \in BOOLEAN
  BY <1>1 DEF EndAdds
<1>5. RxTypeOK' /\ RxBufs' /\ rx_sdu' = NoRxSdu
  BY <1>0, <1>1, <1>2, <1>3, <1>4, EndsWithInv, Zenon
<1> QED
  BY <1>2, <1>5, NothingHandedOver DEF RxInv, RxAssertsHold


\* reassembly_end_ppdu that hands over what a complete buffer stands for, if
\* check_alpdu_trailer agrees.
LEMMA EndCheckedInv ==
  ASSUME RxInv, NEW ppdu, Arrives(ppdu), EndAdds(ppdu), sdu_complete(end_buf(ppdu)),
         NEW outs \in rebuilt_choices(end_buf(ppdu)), NEW out \in outs,
         LET f == ppdu.frag
             trailer == ppdu.al.trailer
             accepted == trailer_accepted(f, out, trailer)
         IN /\ EndsWith(ppdu, IF accepted THEN "C_REASSEMBLY_OK" ELSE "C_ERROR",
                        IF accepted THEN out ELSE NoRxSdu,
                        1, trailer_lost(f, out, trailer))
            /\ rx_seq_init' = [rx_seq_init EXCEPT ![f] = @ \/ ~rx_use_crc[f]]
            /\ rx_seq' = IF rx_use_crc[f] THEN rx_seq
                           ELSE [rx_seq EXCEPT ![f] = rle_ctx_incr_seq_nb(trailer.val)]
  PROVE  RxInv'
<1> DEFINE f == ppdu.frag
           b == end_buf(ppdu)
           trailer == ppdu.al.trailer
           accepted == trailer_accepted(f, out, trailer)
           lost == trailer_lost(f, out, trailer)
           st == IF accepted THEN "C_REASSEMBLY_OK" ELSE "C_ERROR"
           handed == IF accepted THEN out ELSE NoRxSdu
<1>0. RxTypeOK /\ RxBufs
  BY DEF RxInv
<1>1. /\ ppdu \in Ppdu /\ f \in RxFragIds
      /\ b \in RasmBuf /\ BufOK(b, rx_use_crc[f], f) /\ ~rx_abort'
      /\ rx_rasm' = [rx_rasm EXCEPT ![f] = b]
  BY EndBuf
<1>2. trailer.val \in Nat
  BY <1>1, PpduFields
<1>3. b.start \in Ppdu /\ rx_use_crc[f] \in BOOLEAN /\ b.got = b.size
  <2>1. b.start \in Ppdu /\ rx_use_crc[f] \in BOOLEAN
    BY <1>1, OpenedBuf
  <2>2. b.got \in Nat /\ b.size \in Nat
    BY <1>1, LimitsAssumption DEF RasmBuf, RasmBufLen
  <2> QED
    BY <1>1, <2>1, <2>2 DEF BufOK, sdu_complete
<1>4. /\ out.some /\ out.frag = f
      /\ out.use_crc = rx_use_crc[f] /\ out.total = b.start.total
      /\ out.sdu.size = b.size
           + (IF b.comp = RLE_PROTO_TYPE_VLAN_COMP_WO_PTYPE_FIELD THEN PtypeSize ELSE 0)
  <2>1. b.start.frag = f /\ b.start.use_crc = rx_use_crc[f]
        /\ (b.whole => b.hdr_len = b.start.al.hdr.len)
    BY <1>1 DEF BufOK
  <2>2. outs \in rebuilt_choices(b)
    OBVIOUS
  <2> HIDE DEF b
  <2> QED
    BY <1>1, <1>3, <2>1, <2>2, RebuiltSdu
<1>5. /\ EndsWith(ppdu, st, handed, 1, lost)
      /\ rx_seq_init' = [rx_seq_init EXCEPT ![f] = rx_seq_init[f] \/ ~rx_use_crc[f]]
      /\ rx_seq' = IF rx_use_crc[f] THEN rx_seq
                     ELSE [rx_seq EXCEPT ![f] = rle_ctx_incr_seq_nb(trailer.val)]
  OBVIOUS
<1>6. lost \in Int
  BY <1>0, <1>1, <1>2, LimitsAssumption DEF trailer_lost, seq_no_lost, RxTypeOK
<1> HIDE DEF b, f, trailer, lost
<1>7. rx_seq' \in [RxFragIds -> 0 .. SeqMod - 1]
  <2>1. rle_ctx_incr_seq_nb(trailer.val) \in 0 .. SeqMod - 1
    BY <1>2, LimitsAssumption DEF rle_ctx_incr_seq_nb
  <2> QED
    BY <1>0, <1>1, <1>5, <2>1 DEF RxTypeOK
<1>8. rx_seq_init' \in [RxFragIds -> BOOLEAN]
  BY <1>0, <1>1, <1>5, Zenon DEF RxTypeOK
<1>9. out.sdu.size \in Int
  BY <1>1, <1>4, LimitsAssumption DEF RasmBuf, RasmBufLen, PtypeSize
<1>10. RxTypeOK' /\ RxBufs' /\ rx_sdu' = handed
  <2>1. st = "C_REASSEMBLY_OK" => handed.sdu.size \in Int
    BY <1>9
  <2>2. 1 \in Int /\ rx_abort' \in BOOLEAN
    BY DEF EndAdds
  <2> HIDE DEF st, handed
  <2> QED
    BY <1>0, <1>1, <1>5, <1>6, <1>7, <1>8, <2>1, <2>2, EndsWithInv, Zenon DEF f
<1>11. CASE ~accepted
  BY <1>1, <1>10, <1>11, NothingHandedOver DEF RxInv, RxAssertsHold
<1>12. CASE accepted
  <2>1. rx_sdu' = out /\ rx_rasm'[f] = b
    BY <1>0, <1>1, <1>10, <1>12 DEF RxTypeOK
  <2>2. out.sdu.size = out.total - b.hdr_len - alpdu_trailer_len(out.use_crc)
           + (IF b.comp = RLE_PROTO_TYPE_VLAN_COMP_WO_PTYPE_FIELD THEN PtypeSize ELSE 0)
    BY <1>1, <1>4 DEF BufOK
  <2>3. HandedOverComplete'
    BY <1>3, <1>4, <2>1, <2>2 DEF HandedOverComplete
  <2>4. out.use_crc => out.whole /\ out.sdu = out.al.sdu
    BY <1>4, <1>12 DEF trailer_accepted, crc_matches
  <2>5. CrcProtects'
    BY <2>1, <2>4 DEF CrcProtects
  <2> QED
    BY <1>1, <1>10, <2>3, <2>5 DEF RxInv, RxAssertsHold
<1> QED
  BY <1>11, <1>12


LEMMA EndCompleteInv ==
  ASSUME RxInv, NEW ppdu, Arrives(ppdu), RxEndComplete(ppdu)
  PROVE  RxInv'
<1>0. RxTypeOK /\ RxBufs /\ EndAdds(ppdu) /\ sdu_complete(end_buf(ppdu))
  BY DEF RxInv, RxEndComplete
<1>1. ASSUME EndsWith(ppdu, "C_ERROR", NoRxSdu, 1, 0), UNCHANGED <<rx_seq, rx_seq_init>>
      PROVE  RxInv'
  <2>1. /\ ppdu \in Ppdu /\ ppdu.frag \in RxFragIds
        /\ end_buf(ppdu) \in RasmBuf /\ ~rx_abort'
        /\ rx_rasm' = [rx_rasm EXCEPT ![ppdu.frag] = end_buf(ppdu)]
    BY <1>0, EndBuf
  <2>2. /\ rx_seq' \in [RxFragIds -> 0 .. SeqMod - 1]
        /\ rx_seq_init' \in [RxFragIds -> BOOLEAN]
    BY <1>0, <1>1 DEF RxTypeOK
  <2>3. 1 \in Int /\ 0 \in Int /\ "C_ERROR" # "C_REASSEMBLY_OK" /\ rx_abort' \in BOOLEAN
    BY <1>0 DEF EndAdds
  <2>4. RxTypeOK' /\ RxBufs' /\ rx_sdu' = NoRxSdu
    BY <1>0, <1>1, <2>1, <2>2, <2>3, EndsWithInv, Zenon
  <2> QED
    BY <2>1, <2>4, NothingHandedOver DEF RxInv, RxAssertsHold
<1> QED
  BY <1>0, <1>1, EndCheckedInv, Zenon DEF RxEndComplete

\* The invariant is kept by every PPDU that reaches the receiver, from wherever.
LEMMA DeencapInv ==
  ASSUME RxInv, NEW ppdu, Arrives(ppdu), rle_receiver_deencap_data(ppdu)
  PROVE  RxInv' /\ UNCHANGED rx_conf
<1>1. RxInv'
  BY CompInv, StartInv, StartErrorInv, ContInv, ContErrorInv, EndErrorInv, EndShortInv,
     EndCompleteInv DEF rle_receiver_deencap_data
<1>2. UNCHANGED rx_conf
  BY DEF rle_receiver_deencap_data, RxComp, RxStart, RxStartError, RxCont, RxContError,
         RxEndFree, RxEndRefused, RxEndShort, RxEndComplete, EndsWith, DropOne, RxReturns
<1> QED
  BY <1>1, <1>2

\* A restart forgets every SDU under way.
LEMMA RestartInv ==
  ASSUME RxInv, RxRestart
  PROVE  RxInv' /\ UNCHANGED rx_conf
<1>1. RxTypeOK'
  <2>1. rx_restarts' \in Nat
    BY DEF RxInv, RxTypeOK, RxRestart
  <2> QED
    BY <2>1, NewContexts, Zenon DEF RxInv, RxTypeOK, RxRestart
<1>2. RxBufs' /\ RxAssertsHold'
  BY DEF RxInv, RxRestart, RxBufs, RxAssertsHold
<1>3. HandedOverComplete' /\ CrcProtects'
  BY NothingHandedOver DEF RxRestart
<1> QED
  BY <1>1, <1>2, <1>3 DEF RxInv, RxRestart

\* Resetting the counters touches nothing else.
LEMMA ResetInv ==
  ASSUME RxInv, NEW f \in RxFragIds, RxResetCounters(f)
  PROVE  RxInv' /\ UNCHANGED rx_conf
<1>1. NoRxStats \in RxStats
  BY DEF NoRxStats, RxStats
<1>2. /\ rx_stats' = [rx_stats EXCEPT ![f] = NoRxStats] /\ rx_sdu' = NoRxSdu
      /\ UNCHANGED <<rx_conf, rx_restarts, rx_free, rx_seq, rx_seq_init, rx_use_crc,
                     rx_rasm, rx_current, rx_abort>>
  BY DEF RxResetCounters, RxReturns
<1>3. rx_stats' \in [RxFragIds -> RxStats]
  BY <1>1, <1>2, Zenon DEF RxInv, RxTypeOK
<1>4. RxTypeOK'
  BY <1>2, <1>3, Zenon DEF RxInv, RxTypeOK
<1>5. RxBufs' /\ RxAssertsHold'
  BY <1>2 DEF RxInv, RxBufs, RxAssertsHold
<1>6. HandedOverComplete' /\ CrcProtects'
  BY <1>2, NothingHandedOver
<1> QED
  BY <1>2, <1>4, <1>5, <1>6 DEF RxInv

LEMMA RxStutters ==
  ASSUME RxInv, UNCHANGED rx_vars
  PROVE  RxInv' /\ rx_conf' = rx_conf
<1>1. RxTypeOK' /\ RxBufs' /\ RxAssertsHold' /\ rx_conf' = rx_conf
  BY DEF RxInv, RxTypeOK, RxBufs, RxAssertsHold, rx_vars
<1>2. HandedOverComplete' /\ CrcProtects'
  BY DEF RxInv, HandedOverComplete, CrcProtects, rx_vars
<1> QED
  BY <1>1, <1>2 DEF RxInv

RxConfOK == rx_conf \in RxConfs

\* Every step of the receiver keeps the invariant.
LEMMA RxNextInv == RxInv /\ RxConfOK /\ [RxNext]_rx_vars => RxInv' /\ RxConfOK'
<1> SUFFICES ASSUME RxInv, rx_conf \in RxConfs, [RxNext]_rx_vars
             PROVE  RxInv' /\ rx_conf' = rx_conf
  BY DEF RxConfOK
<1>1. ASSUME NEW ppdu \in RxPpdus(rx_conf), rle_receiver_deencap_data(ppdu)
      PROVE  RxInv' /\ rx_conf' = rx_conf
  <2>1. Arrives(ppdu)
    BY RxAssumption DEF Arrives
  <2> QED
    BY <1>1, <2>1, DeencapInv
<1>2. ASSUME NEW f \in RxFragIds, RxResetCounters(f)
      PROVE  RxInv' /\ rx_conf' = rx_conf
  BY <1>2, ResetInv
<1>3. CASE RxRestart
  BY <1>3, RestartInv
<1>4. CASE UNCHANGED rx_vars
  BY <1>4, RxStutters
<1> QED
  BY <1>1, <1>2, <1>3, <1>4 DEF RxNext

LEMMA RxAlwaysInv == RxSpec => []RxInv
<1>1. RxInit => RxInv /\ RxConfOK
  BY RxInitInv DEF RxInit, RxConfOK
<1> QED
  BY <1>1, RxNextInv, PTL DEF RxSpec

-----------------------------------------------------------------------------
(* Theorems *)

\* The state of the receiver has its types: sizes stay inside the reassembly
\* buffer, sequence numbers and octet counters inside their modulus, and a buffer
\* always has a START PPDU or is new (rle_receiver_deencap_data).
THEOREM RxTypeCorrect == RxSpec => []RxTypeOK
<1>1. RxInv => RxTypeOK
  BY DEF RxInv
<1> QED
  BY <1>1, RxAlwaysInv, PTL

\* Whatever PPDUs arrive, the buffer of a context in use is that of the last START
\* PPDU accepted there (reassembly_start_ppdu, reassembly_cont_ppdu).
THEOREM RxBufCorrect == RxSpec => []RxBufOK
<1>1. RxInv => RxBufOK
  BY DEF RxInv, RxBufs, BufOK, RxBufOK
<1> QED
  BY <1>1, RxAlwaysInv, PTL

\* No assertion of the receiver fails: no fragment is copied past the end of its
\* SDU or of the buffer (rasm_buf_sdu_frag_put, rasm_buf_cpy_sdu_frag).
THEOREM RxNeverAborts == RxSpec => []RxAssertsHold
<1>1. RxInv => RxAssertsHold
  BY DEF RxInv
<1> QED
  BY <1>1, RxAlwaysInv, PTL

\* No SDU is handed over before its last byte has come, and none has another size
\* than its START PPDU announced (reassembly_end_ppdu).
THEOREM RxHandsOverComplete == RxSpec => []HandedOverComplete
<1>1. RxInv => HandedOverComplete
  BY DEF RxInv
<1> QED
  BY <1>1, RxAlwaysInv, PTL

\* With a perfect CRC no SDU is handed over altered, however PPDUs were lost,
\* duplicated, reordered or mixed (check_alpdu_trailer).
THEOREM RxCrcProtects == RxSpec => []CrcProtects
<1>1. RxInv => CrcProtects
  BY DEF RxInv
<1> QED
  BY <1>1, RxAlwaysInv, PTL

=============================================================================
