-------------------------- MODULE MCRleContextless --------------------------
(* Small instance of RleContextless. *)
EXTENDS RleContextless

Conf(omit, comp, implicit, label) ==
  [allow_alpdu_crc |-> TRUE, allow_alpdu_sequence_number |-> FALSE,
   allow_ptype_omission |-> omit, use_compressed_ptype |-> comp,
   implicit_protocol_type |-> implicit, type_0_alpdu_label_size |-> label]

MCClConfs == {Conf(omit, comp, implicit, 0) :
                omit \in BOOLEAN, comp \in BOOLEAN, implicit \in {\h30, \h0d}}

Sdu(ptype, size) == [ptype |-> ptype, size |-> size, nib0 |-> 4,
                     ether_type |-> \h8100, tpid |-> \h0800, nib18 |-> 4]

\* Signalling, IPv4, VLAN (whose protocol field is cut), another protocol; an empty
\* SDU, the longest one, which no PPDU holds, and one that is too long.
MCClSdus == {Sdu(\h0082, 5), Sdu(\h0800, 5), Sdu(\h8100, 19), Sdu(\h1234, 12),
             Sdu(\h0800, 0), Sdu(\h0082, 24), Sdu(\h0800, 25)}
============================================================================
