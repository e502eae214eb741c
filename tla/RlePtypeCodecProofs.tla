------------------------ MODULE RlePtypeCodecProofs ------------------------
(***************************************************************************)
(* The protocol type survives the transmitter and the receiver, for every  *)
(* SDU and every configuration that both ends share.                       *)
(***************************************************************************)
EXTENDS RlePtypeCodec, RleFragBufProofs

\* What the receiver rebuilds from the ALPDU of the SDU.
Rebuilt ==
  LET h     == push_alpdu_hdr(codec_sdu, codec_conf)
      supp  == h.len = 0
      label == get_alpdu_label_type(codec_sdu.ptype, supp, codec_conf)
      n     == h.len + codec_sdu.size - h.cut
      x     == alpdu_extract_sdu_frag(supp, label, h, codec_sdu.ptype, codec_sdu.nib0, n,
                                      codec_conf)
  IN rebuilt_sdus(codec_sdu, h, x)

\* The inductive invariant: the header on the wire is the one that push_alpdu_hdr made,
\* and what is handed over at the end was rebuilt from it.
CodecInv ==
  /\ codec_sdu \in SduRecord /\ codec_sdu.size > 0
  /\ codec_conf \in ConfRecord
  /\ codec_step # "encap" => codec_hdr = push_alpdu_hdr(codec_sdu, codec_conf)
  /\ codec_step = "done" => codec_out = Rebuilt

LEMMA CodecInvInit == CodecInit => CodecInv
  BY CodecAssumption DEF CodecInit, CodecInv

LEMMA CodecInvNext == CodecInv /\ [CodecNext]_codec_vars => CodecInv'
<1> SUFFICES ASSUME CodecInv, [CodecNext]_codec_vars
             PROVE  CodecInv'
  OBVIOUS
<1>1. CASE Push
  BY <1>1 DEF Push, CodecInv
<1>2. CASE Extract
  <2>1. /\ codec_hdr = push_alpdu_hdr(codec_sdu, codec_conf)
        /\ UNCHANGED <<codec_conf, codec_sdu, codec_hdr>>
    BY <1>2 DEF Extract, CodecInv
  <2>2. codec_out' = Rebuilt
    BY <1>2, <2>1 DEF Extract, Rebuilt
  <2>3. Rebuilt' = Rebuilt
    BY <2>1 DEF Rebuilt
  <2> QED
    BY <2>1, <2>2, <2>3 DEF CodecInv
<1>3. CASE UNCHANGED codec_vars
  BY <1>3 DEF codec_vars, CodecInv, Rebuilt
<1> QED
  BY <1>1, <1>2, <1>3 DEF CodecNext

\* The SDU that the receiver rebuilds is the one that was encapsulated.
LEMMA CodecInvRoundTrip == CodecInv => PtypeRoundTrip
  BY RoundTrip DEF CodecInv, PtypeRoundTrip, Rebuilt

\* The protocol type, the size and the VLAN header of every SDU survive omission and
\* compression, for every configuration that both ends share (push_alpdu_hdr against the
\* extraction functions and reassembly_insert_vlan_ptype).
THEOREM CodecRoundTrip == CodecSpec => []PtypeRoundTrip
  BY CodecInvInit, CodecInvNext, CodecInvRoundTrip, PTL DEF CodecSpec

=============================================================================
