-------------------------- MODULE MCRleTransmitter --------------------------
(* Small instances of RleTransmitter. *)
EXTENDS RleTransmitter

Conf(crc, seq, omit, comp, implicit) ==
  [allow_alpdu_crc |-> crc, allow_alpdu_sequence_number |-> seq,
   allow_ptype_omission |-> omit, use_compressed_ptype |-> comp,
   implicit_protocol_type |-> implicit, type_0_alpdu_label_size |-> 0]

\* ALPDU headers of 0, 1, 2 and 3 bytes, CRC and sequence number trailers;
\* those without protection are refused by rle_config_check.
MCTxConfs ==
  {Conf(crc, seq, omit, ~omit, \h30) : crc \in BOOLEAN, seq \in BOOLEAN, omit \in BOOLEAN}

Sdu(ptype, size) == [ptype |-> ptype, size |-> size, nib0 |-> 4,
                     ether_type |-> \h8100, tpid |-> \h0800, nib18 |-> 4]

\* IPv4 packets (omissible, compressible), another protocol (3-byte header), an
\* empty SDU and one that is too long.
MCTxSdus == {Sdu(\h0800, 1), Sdu(\h0800, 9), Sdu(\h1234, 14), Sdu(\h0800, 0),
             Sdu(\h0800, 21)}

\* A context that is in use when an SDU is refused.
MCPairSdus == {Sdu(\h0800, 9), Sdu(\h1234, 14), Sdu(\h0800, 21)}
MCPairConfs == {Conf(crc, ~crc, FALSE, TRUE, \h30) : crc \in BOOLEAN}
============================================================================
