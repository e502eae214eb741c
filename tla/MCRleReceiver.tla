--------------------------- MODULE MCRleReceiver ---------------------------
(* Small instances of RleReceiver: every PPDU that can be cut out of a few  *)
(* ALPDUs may arrive at any time, any number of times.                      *)
EXTENDS RleReceiver

Conf(crc, comp, implicit) ==
  [allow_alpdu_crc |-> crc, allow_alpdu_sequence_number |-> ~crc,
   allow_ptype_omission |-> TRUE, use_compressed_ptype |-> comp,
   implicit_protocol_type |-> implicit, type_0_alpdu_label_size |-> 0]

Sdu(ptype, size) == [ptype |-> ptype, size |-> size, nib0 |-> 4,
                     ether_type |-> \h8100, tpid |-> \h0800, nib18 |-> 4]

NewAlpdu(id, frag, sdu, conf) ==
  [id |-> id, frag |-> frag, sdu |-> sdu, hdr |-> push_alpdu_hdr(sdu, conf),
   trailer |-> IF conf.allow_alpdu_crc THEN [kind |-> "crc", val |-> id]
                                       ELSE [kind |-> "seq", val |-> id % SeqMod]]

AlpduSduEnd(al)    == al.hdr.len + al.sdu.size - al.hdr.cut
AlpduLen(al, conf) == AlpduSduEnd(al) + alpdu_trailer_len(conf.allow_alpdu_crc)

\* total may differ from the length of the ALPDU: the receiver must refuse it.
NewPpdu(type, al, conf, lo, hi, total) ==
  [type |-> type, frag |-> IF type = "COMP" THEN 0 ELSE al.frag,
   len |-> PpduHdrLen(type) - BaseHdr + hi - lo,
   total |-> total, use_crc |-> type = "START" /\ conf.allow_alpdu_crc,
   supp |-> type \in {"COMP", "START"} /\ al.hdr.len = 0, label |-> 0,
   al |-> al, lo |-> lo, hi |-> hi]

\* The PPDUs of an ALPDU cut at the given SDU offsets; an END PPDU that lacks a
\* part of the trailer.
PpdusOf(al, conf, cuts) ==
  LET At(c) == al.hdr.len + c
      total == AlpduLen(al, conf)
  IN {NewPpdu("COMP", al, conf, 0, AlpduSduEnd(al), 0)}
     \union {NewPpdu("START", al, conf, 0, At(c), t) : c \in cuts, t \in {total, total - 3}}
     \union UNION {{NewPpdu("CONT", al, conf, At(c), At(d), 0) : d \in {e \in cuts : e > c}}
                     : c \in cuts}
     \union {NewPpdu("END", al, conf, At(c), total, 0) : c \in cuts}
     \union {NewPpdu("END", al, conf, total - 1, total, 0)}

MCRxConfs == {Conf(crc, TRUE, \h0d) : crc \in BOOLEAN}

\* Three ALPDUs on one fragment id (protocol type omitted, VLAN protocol field cut,
\* three-byte header), one on another.
MCAlpdus(conf) == {<<NewAlpdu(1, 0, Sdu(\h0800, 6), conf), {2, 4, 6}>>,
                   <<NewAlpdu(2, 0, Sdu(\h1234, 6), conf), {2, 4}>>,
                   <<NewAlpdu(3, 0, Sdu(\h8100, 19), conf), {4, 13, 17}>>,
                   <<NewAlpdu(4, 1, Sdu(\h0800, 6), conf), {4}>>}

MCRxPpdus(conf) == UNION {PpdusOf(p[1], conf, p[2]) : p \in MCAlpdus(conf)}
============================================================================
