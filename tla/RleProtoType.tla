---------------------------- MODULE RleProtoType ----------------------------
(***************************************************************************)
(* Protocol types: how the transmitter omits, compresses or writes the     *)
(* protocol type of an SDU in the ALPDU header (push_alpdu_hdr), and how   *)
(* the receiver finds it again (alpdu_extract_sdu_frag,                    *)
(* reassembly_insert_vlan_ptype).                                          *)
(*                                                                         *)
(* Of the bytes of an SDU only those that the code looks at are kept:      *)
(*   ptype       the protocol type given by the caller                     *)
(*   size        the number of bytes                                       *)
(*   nib0        the first four bits (IP version of an IP packet)          *)
(*   ether_type  bytes 12-13 (meaningful when size > 18)                   *)
(*   tpid        bytes 16-17, the protocol field of a VLAN header          *)
(*   nib18       the first four bits of byte 18, the VLAN payload          *)
(***************************************************************************)
EXTENDS Integers

SduRecord == [ptype : Nat, size : Nat, nib0 : 0 .. 15, ether_type : Nat,
              tpid : Nat, nib18 : 0 .. 15]

ConfRecord == [allow_alpdu_crc : BOOLEAN, allow_alpdu_sequence_number : BOOLEAN,
               allow_ptype_omission : BOOLEAN, use_compressed_ptype : BOOLEAN,
               implicit_protocol_type : 0 .. 255, type_0_alpdu_label_size : 0 .. 15]

\* ALPDU headers: length, compressed protocol type (0xff when there is none) and
\* bytes cut from the VLAN header of the SDU.
AlpduHdr == [len : 0 .. 3, comp : 0 .. 255, cut : {0, 2}]

NoSdu == [ptype |-> 0, size |-> 0, nib0 |-> 0, ether_type |-> 0, tpid |-> 0, nib18 |-> 0]

\* The part of the checks of rle_config_check that ConfRecord does not make.
rle_config_check(conf) ==
  conf.allow_alpdu_crc \/ conf.allow_alpdu_sequence_number

RLE_PROTO_TYPE_SIGNAL_UNCOMP   == \h0082
RLE_PROTO_TYPE_IPV4_UNCOMP     == \h0800
RLE_PROTO_TYPE_ARP_UNCOMP      == \h0806
RLE_PROTO_TYPE_VLAN_UNCOMP     == \h8100
RLE_PROTO_TYPE_IPV6_UNCOMP     == \h86dd
RLE_PROTO_TYPE_VLAN_QINQ_UNCOMP        == \h88a8
RLE_PROTO_TYPE_VLAN_QINQ_LEGACY_UNCOMP == \h9100
RLE_PROTO_TYPE_RESERVED              == \h0b04
RLE_PROTO_TYPE_USER_DEFINED          == \h0b05
RLE_PROTO_TYPE_ADJACENT_2BYTES_PTYPE == \h0b07

RLE_PROTO_TYPE_IPV4_COMP   == \h0d
RLE_PROTO_TYPE_ARP_COMP    == \h0e
RLE_PROTO_TYPE_VLAN_COMP   == \h0f
RLE_PROTO_TYPE_IPV6_COMP   == \h11
RLE_PROTO_TYPE_VLAN_QINQ_COMP          == \h19
RLE_PROTO_TYPE_VLAN_QINQ_LEGACY_COMP   == \h1a
RLE_PROTO_TYPE_IP_COMP     == \h30
RLE_PROTO_TYPE_VLAN_COMP_WO_PTYPE_FIELD == \h31
RLE_PROTO_TYPE_SIGNAL_COMP == \h42
RLE_PROTO_TYPE_FALLBACK    == \hff

RLE_LT_IMPLICIT_PROTO_TYPE == 2
RLE_LT_PROTO_SIGNAL        == 3

EthVlanHdr == 18   \* sizeof(struct ether_header) + sizeof(struct vlan_hdr)
PtypeSize  == 2    \* sizeof(ptype): the bytes removed from the VLAN header

\* A protocol type and the four bits that start a packet of that protocol.
IpVersions == {<<RLE_PROTO_TYPE_IPV4_UNCOMP, 4>>, <<RLE_PROTO_TYPE_IPV6_UNCOMP, 6>>}

-----------------------------------------------------------------------------
\* The entries of rle_header_ptype_decomp[0 .. 0x1a].
DecompStart ==
  << \h0000, \h0001, \h0002, \h0003, \h00c8, \h0100, \h0200, \h0300, \h0301,
     \h03c3, \h0400, \h04c2, \h0500, \h0800, \h0806, \h8100, \h22f1, \h86dd,
     \h8809, \h8847, \h8848, \h8863, \h8864, \h888e, \h8906, \h88a8, \h9100 >>

\* rle_header_ptype_decomp[c]: the initialiser lists 255 values, one less than
\* the array has elements, so that the entries after 0x46 come one index before
\* the one their comment announces and the last element is zero.
rle_header_ptype_decompression(c) ==
  CASE c \in 0 .. \h1a    -> DecompStart[c + 1]
    [] c = \h30           -> 0
    [] c = \h31           -> RLE_PROTO_TYPE_VLAN_UNCOMP
    [] c = \h42           -> RLE_PROTO_TYPE_SIGNAL_UNCOMP
    [] c = \h45           -> \h0085
    [] c = \h46           -> \h0083
    [] c \in \h7f .. \hfd -> RLE_PROTO_TYPE_USER_DEFINED
    [] c = \hfe           -> RLE_PROTO_TYPE_ADJACENT_2BYTES_PTYPE
    [] c = \hff           -> 0
    [] OTHER              -> RLE_PROTO_TYPE_RESERVED

\* Mutant: frames recognised before there is a byte of VLAN payload to look at.
short_is_eth_vlan_ip_frame(sdu) ==
  IF sdu.size < EthVlanHdr \/ sdu.ether_type # RLE_PROTO_TYPE_VLAN_UNCOMP
    THEN RLE_PROTO_TYPE_FALLBACK
  ELSE IF <<sdu.tpid, sdu.nib18>> \in IpVersions
    THEN RLE_PROTO_TYPE_VLAN_COMP_WO_PTYPE_FIELD
    ELSE RLE_PROTO_TYPE_VLAN_COMP

\* The compressed protocol type of an Ethernet/VLAN frame: without the protocol
\* field of the VLAN header when the receiver can deduce it from the payload.
is_eth_vlan_ip_frame(sdu) ==
  IF sdu.size <= EthVlanHdr \/ sdu.ether_type # RLE_PROTO_TYPE_VLAN_UNCOMP
    THEN RLE_PROTO_TYPE_FALLBACK
  ELSE IF <<sdu.tpid, sdu.nib18>> \in IpVersions
    THEN RLE_PROTO_TYPE_VLAN_COMP_WO_PTYPE_FIELD
    ELSE RLE_PROTO_TYPE_VLAN_COMP

\* rle_header_ptype_is_compressible and rle_header_ptype_compression.
rle_header_ptype_compression(sdu) ==
  CASE sdu.ptype = RLE_PROTO_TYPE_SIGNAL_UNCOMP    -> RLE_PROTO_TYPE_SIGNAL_COMP
    [] sdu.ptype = RLE_PROTO_TYPE_VLAN_UNCOMP      -> is_eth_vlan_ip_frame(sdu)
    [] sdu.ptype = RLE_PROTO_TYPE_VLAN_QINQ_UNCOMP -> RLE_PROTO_TYPE_VLAN_QINQ_COMP
    [] sdu.ptype = RLE_PROTO_TYPE_VLAN_QINQ_LEGACY_UNCOMP
                                                   -> RLE_PROTO_TYPE_VLAN_QINQ_LEGACY_COMP
    [] sdu.ptype = RLE_PROTO_TYPE_IPV4_UNCOMP      -> RLE_PROTO_TYPE_IPV4_COMP
    [] sdu.ptype = RLE_PROTO_TYPE_IPV6_UNCOMP      -> RLE_PROTO_TYPE_IPV6_COMP
    [] sdu.ptype = RLE_PROTO_TYPE_ARP_UNCOMP       -> RLE_PROTO_TYPE_ARP_COMP
    [] OTHER                                       -> RLE_PROTO_TYPE_FALLBACK

\* May the transmitter leave the protocol type out?
ptype_is_omissible(sdu, conf) ==
  /\ conf.allow_ptype_omission
  /\ \/ sdu.ptype = RLE_PROTO_TYPE_SIGNAL_UNCOMP
     \/ /\ conf.implicit_protocol_type = RLE_PROTO_TYPE_IP_COMP
        /\ <<sdu.ptype, sdu.nib0>> \in IpVersions
     \/ /\ conf.implicit_protocol_type = RLE_PROTO_TYPE_VLAN_COMP_WO_PTYPE_FIELD
        /\ is_eth_vlan_ip_frame(sdu) = RLE_PROTO_TYPE_VLAN_COMP_WO_PTYPE_FIELD
     \/ /\ conf.implicit_protocol_type \notin
             {RLE_PROTO_TYPE_IP_COMP, RLE_PROTO_TYPE_VLAN_COMP_WO_PTYPE_FIELD}
        /\ sdu.ptype = rle_header_ptype_decompression(conf.implicit_protocol_type)

\* The ALPDU header pushed before the SDU: its length, the compressed type in
\* its first byte (when it has one), and the bytes cut from the VLAN header.
push_alpdu_hdr(sdu, conf) ==
  LET comp == rle_header_ptype_compression(sdu)
      Cut(c) == IF /\ sdu.ptype = RLE_PROTO_TYPE_VLAN_UNCOMP
                   /\ c = RLE_PROTO_TYPE_VLAN_COMP_WO_PTYPE_FIELD
                  THEN PtypeSize ELSE 0
  IN IF ptype_is_omissible(sdu, conf)
       THEN [len |-> 0, comp |-> RLE_PROTO_TYPE_FALLBACK,
             cut |-> Cut(conf.implicit_protocol_type)]
     ELSE IF ~conf.use_compressed_ptype
       THEN [len |-> 2, comp |-> RLE_PROTO_TYPE_FALLBACK, cut |-> 0]
     ELSE IF comp = RLE_PROTO_TYPE_FALLBACK
       THEN [len |-> 3, comp |-> comp, cut |-> 0]
       ELSE [len |-> 1, comp |-> comp, cut |-> Cut(comp)]

\* The label type field of COMP and START headers.
get_alpdu_label_type(ptype, suppressed, conf) ==
  IF ptype = RLE_PROTO_TYPE_SIGNAL_UNCOMP THEN RLE_LT_PROTO_SIGNAL
  ELSE IF suppressed /\ conf.type_0_alpdu_label_size # 0
    THEN RLE_LT_IMPLICIT_PROTO_TYPE ELSE 0

-----------------------------------------------------------------------------
\* The receiver.  NoPtype stands for a failed extraction.
NoPtype == -1

\* IP version in the first four bits of the first SDU fragment, which has n bytes.
get_uncomp_ptype_from_sdu(nib0, n) ==
  CASE n >= 1 /\ nib0 = 4 -> RLE_PROTO_TYPE_IPV4_UNCOMP
    [] n >= 1 /\ nib0 = 6 -> RLE_PROTO_TYPE_IPV6_UNCOMP
    [] OTHER              -> NoPtype

\* signal_, suppr_, comp_ and uncomp_alpdu_extract_sdu_frag on the first n bytes
\* of an ALPDU whose header is h and whose SDU has the protocol type ptype and
\* starts with nib0: what the receiver takes for the protocol type, for the
\* compressed one and for the length of the ALPDU header.
alpdu_extract_sdu_frag(supp, label, h, ptype, nib0, n, conf) ==
  LET Typed(comp, len) ==
        [comp |-> comp, len |-> len,
         ptype |-> IF comp = RLE_PROTO_TYPE_IP_COMP
                     THEN get_uncomp_ptype_from_sdu(nib0, n - len)
                     ELSE rle_header_ptype_decompression(comp)]
      Carried(len) ==
        [comp |-> RLE_PROTO_TYPE_FALLBACK, len |-> len,
         ptype |-> IF n < len THEN NoPtype ELSE ptype]
  IN IF supp /\ label = RLE_LT_PROTO_SIGNAL
       THEN [comp |-> RLE_PROTO_TYPE_SIGNAL_COMP, len |-> 0,
             ptype |-> RLE_PROTO_TYPE_SIGNAL_UNCOMP]
     ELSE IF supp
       THEN Typed(conf.implicit_protocol_type, 0)
     ELSE IF ~conf.use_compressed_ptype
       THEN Carried(2)
     ELSE IF n < 1 \/ h.comp = RLE_PROTO_TYPE_FALLBACK
       THEN Carried(3)
       ELSE Typed(h.comp, 1)

\* The four bits that the receiver reads as the IP version of a VLAN payload:
\* byte 16 of what it received, the VLAN payload if the protocol field was cut
\* and the protocol field itself if it was not.
vlan_ip_version(sdu, cut) == IF cut = PtypeSize THEN sdu.nib18 ELSE sdu.tpid \div 4096

\* reassembly_insert_vlan_ptype on an SDU that arrived without cut bytes: can the
\* protocol field be deduced, and what becomes of it.
vlan_ptype_deducible(sdu, cut) ==
  /\ sdu.size - cut >= EthVlanHdr - PtypeSize + 1
  /\ sdu.ether_type = RLE_PROTO_TYPE_VLAN_UNCOMP
  /\ vlan_ip_version(sdu, cut) \in {4, 6}

reassembly_insert_vlan_ptype(sdu, cut) ==
  [sdu EXCEPT !.ptype = RLE_PROTO_TYPE_VLAN_UNCOMP,
              !.size  = sdu.size - cut + PtypeSize,
              !.tpid  = get_uncomp_ptype_from_sdu(vlan_ip_version(sdu, cut), 1)]

\* The SDU that the receiver hands over for one whose ALPDU arrived intact with
\* the extraction result x, or the empty set.
rebuilt_sdus(sdu, h, x) ==
  IF x.ptype = NoPtype
    THEN {}
  ELSE IF x.comp # RLE_PROTO_TYPE_VLAN_COMP_WO_PTYPE_FIELD
    THEN {[sdu EXCEPT !.ptype = x.ptype, !.size = h.len + sdu.size - h.cut - x.len]}
  ELSE IF vlan_ptype_deducible(sdu, h.cut)
    THEN {reassembly_insert_vlan_ptype(sdu, h.cut)}
    ELSE {}

\* The transmitter omits the type of frames that look like Ethernet/VLAN/IP
\* whatever their protocol type when the implicit type is 0x31.
OmittedAsVlan(sdu, conf) ==
  /\ conf.allow_ptype_omission
  /\ conf.implicit_protocol_type = RLE_PROTO_TYPE_VLAN_COMP_WO_PTYPE_FIELD
  /\ sdu.ptype \notin {RLE_PROTO_TYPE_VLAN_UNCOMP, RLE_PROTO_TYPE_SIGNAL_UNCOMP}
  /\ is_eth_vlan_ip_frame(sdu) = RLE_PROTO_TYPE_VLAN_COMP_WO_PTYPE_FIELD
=============================================================================
