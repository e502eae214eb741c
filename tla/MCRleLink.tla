----------------------------- MODULE MCRleLink -----------------------------
(* Small instances of RleLink. *)
EXTENDS RleLink

Conf(crc, omit, comp, implicit) ==
  [allow_alpdu_crc |-> crc, allow_alpdu_sequence_number |-> ~crc,
   allow_ptype_omission |-> omit, use_compressed_ptype |-> comp,
   implicit_protocol_type |-> implicit, type_0_alpdu_label_size |-> 0]

Sdu(ptype, size) == [ptype |-> ptype, size |-> size, nib0 |-> 4,
                     ether_type |-> \h8100, tpid |-> \h0800, nib18 |-> 4]

MCCrcConfs  == {Conf(TRUE, FALSE, TRUE, \h0d)}
MCSeqConfs  == {Conf(FALSE, FALSE, TRUE, \h0d)}
MCBothConfs == MCCrcConfs \union MCSeqConfs
MCManyConfs == {Conf(TRUE, TRUE, TRUE, \h30), Conf(FALSE, FALSE, FALSE, \h30)}

\* SDUs of one size, so that the PPDUs of two of them fit together, and one that
\* rle_encapsulate refuses.
MCSameSdus == {Sdu(\h0800, 9), Sdu(\h0800, 21)}
MCOneSdu   == {Sdu(\h0800, 9)}

\* IPv4 packet, VLAN frame.
MCVariedSdus == {Sdu(\h0800, 9), Sdu(\h8100, 19)}

\* The receiver gets its PPDUs from the link.
MCNoPpdus(conf) == {}
============================================================================
