----------------------------- MODULE MCRleFpdu -----------------------------
(* Small instances of RleFpdu. *)
EXTENDS RleFpdu

Conf(crc, omit, comp, implicit) ==
  [allow_alpdu_crc |-> crc, allow_alpdu_sequence_number |-> ~crc,
   allow_ptype_omission |-> omit, use_compressed_ptype |-> comp,
   implicit_protocol_type |-> implicit, type_0_alpdu_label_size |-> 0]

Sdu(ptype, size) == [ptype |-> ptype, size |-> size, nib0 |-> 4,
                     ether_type |-> \h8100, tpid |-> \h0800, nib18 |-> 4]

MCFpConfs == {Conf(TRUE, TRUE, TRUE, \h30)}

\* An SDU of one or several PPDUs, whose COMP PPDU fills an FPDU, and one that
\* rle_encapsulate refuses.
MCFpSdus == {Sdu(\h0800, 15), Sdu(\h0800, 21)}

\* The receiver gets its PPDUs from FPDUs.
MCNoPpdus(conf) == {}
============================================================================
