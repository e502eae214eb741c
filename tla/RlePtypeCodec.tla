--------------------------- MODULE RlePtypeCodec ---------------------------
(***************************************************************************)
(* One SDU through the two halves of the protocol type handling: the       *)
(* transmitter builds the ALPDU header, the ALPDU travels unharmed in one  *)
(* PPDU, the receiver (same configuration) rebuilds the SDU.               *)
(***************************************************************************)
EXTENDS RleProtoType

CONSTANTS
  CodecSdus,   \* SDUs handed to the transmitter
  CodecConfs   \* configurations shared by both ends

VARIABLES
  codec_conf,  \* struct rle_config of both ends
  codec_sdu,   \* the SDU given to rle_encapsulate
  codec_step,  \* "encap", then "wire", then "done"
  codec_hdr,   \* the ALPDU header, once built
  codec_out    \* the SDUs handed over by the receiver: none or one

ASSUME CodecAssumption ==
  /\ CodecSdus \subseteq {sdu \in SduRecord : sdu.size > 0}
  /\ CodecConfs \subseteq ConfRecord

codec_vars == <<codec_conf, codec_sdu, codec_step, codec_hdr, codec_out>>

NoHdr == [len |-> -1]

CodecInit ==
  /\ codec_conf \in CodecConfs
  /\ codec_sdu \in CodecSdus
  /\ codec_step = "encap"
  /\ codec_hdr = NoHdr
  /\ codec_out = {}

\* rle_encap_contextless
Push ==
  /\ codec_step = "encap" /\ codec_step' = "wire"
  /\ codec_hdr' = push_alpdu_hdr(codec_sdu, codec_conf)
  /\ UNCHANGED <<codec_conf, codec_sdu, codec_out>>

\* reassembly_comp_ppdu
Extract ==
  /\ codec_step = "wire" /\ codec_step' = "done"
  /\ LET supp  == codec_hdr.len = 0
         label == get_alpdu_label_type(codec_sdu.ptype, supp, codec_conf)
         n     == codec_hdr.len + codec_sdu.size - codec_hdr.cut
         x     == alpdu_extract_sdu_frag(supp, label, codec_hdr, codec_sdu.ptype,
                                         codec_sdu.nib0, n, codec_conf)
     IN codec_out' = rebuilt_sdus(codec_sdu, codec_hdr, x)
  /\ UNCHANGED <<codec_conf, codec_sdu, codec_hdr>>

CodecNext == Push \/ Extract

CodecSpec == CodecInit /\ [][CodecNext]_codec_vars

-----------------------------------------------------------------------------
\* Whatever the configuration, the receiver rebuilds exactly the SDU that was
\* encapsulated: protocol type, size and VLAN header (push_alpdu_hdr against
\* the four extraction functions and reassembly_insert_vlan_ptype), except for
\* the frames of OmittedAsVlan.
PtypeRoundTrip ==
  codec_step = "done" /\ ~OmittedAsVlan(codec_sdu, codec_conf) => codec_out = {codec_sdu}

\* rle.h: the protocol type is omitted for ALPDUs whose protocol type matches
\* the implicit protocol type; the receiver that puts the implicit type back
\* then always rebuilds the SDU (ptype_is_omissible).
OmissionIsRecoverable ==
  codec_step = "done" /\ codec_hdr.len = 0 => codec_out = {codec_sdu}
=============================================================================
