-------------------------- MODULE RleFragBufProofs --------------------------
(***************************************************************************)
(* What the operations on protocol types and on fragmentation buffers      *)
(* compute, for every SDU, configuration and burst, and for every limit    *)
(* that LimitsAssumption allows.                                           *)
(*                                                                         *)
(* A receiver with the same configuration undoes what push_alpdu_hdr did   *)
(* (RoundTrip).  push_alpdu_hdr lays out ALPDU header and SDU next to each *)
(* other (PushedHdr, EncapsulatedBuf); each kind of PPDU that              *)
(* push_ppdu_hdr builds takes at least a byte, never a part of the ALPDU   *)
(* header or of the trailer, and leaves the buffer in the same layout      *)
(* (CompFragment, StartFragment, ContFragment, EndFragment).               *)
(***************************************************************************)
EXTENDS RleFragBuf, TLAPS

\* is_eth_vlan_ip_frame returns a byte, and finds an IP packet only in a frame longer
\* than its Ethernet and VLAN headers.
LEMMA VlanFrame ==
  ASSUME NEW sdu \in SduRecord
  PROVE  /\ is_eth_vlan_ip_frame(sdu) \in 0 .. 255
         /\ is_eth_vlan_ip_frame(sdu) = RLE_PROTO_TYPE_VLAN_COMP_WO_PTYPE_FIELD
              => sdu.size > EthVlanHdr
  BY DEF SduRecord, is_eth_vlan_ip_frame, RLE_PROTO_TYPE_FALLBACK, EthVlanHdr,
         RLE_PROTO_TYPE_VLAN_COMP_WO_PTYPE_FIELD, RLE_PROTO_TYPE_VLAN_COMP

\* rle_header_ptype_compression returns a byte, and lets the protocol field of a VLAN
\* frame be cut only where there is one.
LEMMA Compression ==
  ASSUME NEW sdu \in SduRecord
  PROVE  /\ rle_header_ptype_compression(sdu) \in 0 .. 255
         /\ /\ rle_header_ptype_compression(sdu) = RLE_PROTO_TYPE_VLAN_COMP_WO_PTYPE_FIELD
            /\ sdu.ptype = RLE_PROTO_TYPE_VLAN_UNCOMP
            => sdu.size > EthVlanHdr
  BY VlanFrame
     DEF rle_header_ptype_compression,
         RLE_PROTO_TYPE_SIGNAL_UNCOMP, RLE_PROTO_TYPE_SIGNAL_COMP,
         RLE_PROTO_TYPE_VLAN_UNCOMP, RLE_PROTO_TYPE_VLAN_QINQ_UNCOMP,
         RLE_PROTO_TYPE_VLAN_QINQ_COMP, RLE_PROTO_TYPE_VLAN_QINQ_LEGACY_UNCOMP,
         RLE_PROTO_TYPE_VLAN_QINQ_LEGACY_COMP, RLE_PROTO_TYPE_IPV4_UNCOMP,
         RLE_PROTO_TYPE_IPV4_COMP, RLE_PROTO_TYPE_IPV6_UNCOMP, RLE_PROTO_TYPE_IPV6_COMP,
         RLE_PROTO_TYPE_ARP_UNCOMP, RLE_PROTO_TYPE_ARP_COMP, RLE_PROTO_TYPE_FALLBACK,
         RLE_PROTO_TYPE_VLAN_COMP_WO_PTYPE_FIELD

\* push_alpdu_hdr pushes at most three bytes, and cuts two bytes out of the SDU only
\* when it is longer than that.
LEMMA PushedHdr ==
  ASSUME NEW sdu \in SduRecord, NEW conf \in ConfRecord
  PROVE  /\ push_alpdu_hdr(sdu, conf) \in AlpduHdr
         /\ push_alpdu_hdr(sdu, conf).cut = 2 => sdu.size > EthVlanHdr
<1> DEFINE comp == rle_header_ptype_compression(sdu)
<1>1. comp \in 0 .. 255
  BY Compression
<1>2. CASE ptype_is_omissible(sdu, conf)
  <2>1. /\ sdu.ptype = RLE_PROTO_TYPE_VLAN_UNCOMP
        /\ conf.implicit_protocol_type = RLE_PROTO_TYPE_VLAN_COMP_WO_PTYPE_FIELD
        => sdu.size > EthVlanHdr
    BY <1>2, VlanFrame
       DEF ptype_is_omissible, RLE_PROTO_TYPE_VLAN_UNCOMP, RLE_PROTO_TYPE_SIGNAL_UNCOMP,
           RLE_PROTO_TYPE_VLAN_COMP_WO_PTYPE_FIELD, RLE_PROTO_TYPE_IP_COMP
  <2> QED
    BY <1>2, <2>1 DEF push_alpdu_hdr, AlpduHdr, PtypeSize, RLE_PROTO_TYPE_FALLBACK
<1>3. CASE ~ptype_is_omissible(sdu, conf)
  BY <1>1, <1>3, Compression DEF push_alpdu_hdr, AlpduHdr, PtypeSize, RLE_PROTO_TYPE_FALLBACK
<1> QED
  BY <1>2, <1>3

\* The table of rle_header_ptype_decompression holds protocol types.
LEMMA Decompressed ==
  ASSUME NEW c \in 0 .. 255
  PROVE  rle_header_ptype_decompression(c) \in Nat
<1>1. \A i \in 1 .. 27 : DecompStart[i] \in Nat
  BY DEF DecompStart
<1>2. c \in 0 .. 26 => DecompStart[c + 1] \in Nat
  BY <1>1
<1> QED
  BY <1>2 DEF rle_header_ptype_decompression, RLE_PROTO_TYPE_VLAN_UNCOMP,
     RLE_PROTO_TYPE_SIGNAL_UNCOMP, RLE_PROTO_TYPE_USER_DEFINED,
     RLE_PROTO_TYPE_ADJACENT_2BYTES_PTYPE, RLE_PROTO_TYPE_RESERVED

\* alpdu_extract_sdu_frag finds an ALPDU header of at most three bytes, and never a
\* protocol type in a fragment that does not hold all of that header.
LEMMA Extraction ==
  ASSUME NEW supp \in BOOLEAN, NEW label, NEW h \in AlpduHdr, NEW ptype \in Nat,
         NEW nib0, NEW n \in Nat, NEW conf \in ConfRecord
  PROVE  LET x == alpdu_extract_sdu_frag(supp, label, h, ptype, nib0, n, conf)
         IN /\ x.len \in 0 .. 3 /\ x.comp \in 0 .. 255
            /\ x.ptype \in Nat \union {NoPtype}
            /\ x.ptype # NoPtype => x.len <= n
<1> DEFINE implicit == conf.implicit_protocol_type
<1>1. implicit \in 0 .. 255 /\ h.comp \in 0 .. 255
  BY DEF ConfRecord, AlpduHdr
<1>2. /\ rle_header_ptype_decompression(implicit) \in Nat
      /\ rle_header_ptype_decompression(h.comp) \in Nat
  BY <1>1, Decompressed
<1>3. \A m : get_uncomp_ptype_from_sdu(nib0, m) \in Nat \union {NoPtype}
  BY DEF get_uncomp_ptype_from_sdu, RLE_PROTO_TYPE_IPV4_UNCOMP, RLE_PROTO_TYPE_IPV6_UNCOMP
<1> HIDE DEF implicit
<1> QED
  BY <1>1, <1>2, <1>3 DEF alpdu_extract_sdu_frag, implicit, RLE_PROTO_TYPE_FALLBACK,
     RLE_PROTO_TYPE_SIGNAL_COMP, RLE_PROTO_TYPE_SIGNAL_UNCOMP, NoPtype

-----------------------------------------------------------------------------
(* The receiver undoes what the transmitter did *)

\* reassembly_insert_vlan_ptype puts back the protocol field that was cut from a VLAN
\* frame.
LEMMA VlanPutBack ==
  ASSUME NEW sdu \in SduRecord, sdu.ptype = RLE_PROTO_TYPE_VLAN_UNCOMP,
         is_eth_vlan_ip_frame(sdu) = RLE_PROTO_TYPE_VLAN_COMP_WO_PTYPE_FIELD
  PROVE  /\ vlan_ptype_deducible(sdu, PtypeSize)
         /\ reassembly_insert_vlan_ptype(sdu, PtypeSize) = sdu
<1>1. /\ sdu.size \in Nat /\ sdu.size > 18 /\ sdu.ether_type = RLE_PROTO_TYPE_VLAN_UNCOMP
      /\ <<sdu.tpid, sdu.nib18>> \in IpVersions
  BY DEF is_eth_vlan_ip_frame, SduRecord, EthVlanHdr, RLE_PROTO_TYPE_FALLBACK,
         RLE_PROTO_TYPE_VLAN_COMP_WO_PTYPE_FIELD, RLE_PROTO_TYPE_VLAN_COMP
<1>2. \/ sdu.tpid = RLE_PROTO_TYPE_IPV4_UNCOMP /\ sdu.nib18 = 4
      \/ sdu.tpid = RLE_PROTO_TYPE_IPV6_UNCOMP /\ sdu.nib18 = 6
  BY <1>1 DEF IpVersions
<1>3. vlan_ip_version(sdu, PtypeSize) = sdu.nib18
  BY DEF vlan_ip_version
<1>4. get_uncomp_ptype_from_sdu(sdu.nib18, 1) = sdu.tpid
  BY <1>2 DEF get_uncomp_ptype_from_sdu
<1>5. sdu.size - PtypeSize + PtypeSize = sdu.size
  BY <1>1 DEF PtypeSize
<1>6. reassembly_insert_vlan_ptype(sdu, PtypeSize) =
        [sdu EXCEPT !.ptype = sdu.ptype, !.size = sdu.size, !.tpid = sdu.tpid]
  BY <1>3, <1>4, <1>5 DEF reassembly_insert_vlan_ptype
<1>7. reassembly_insert_vlan_ptype(sdu, PtypeSize) = sdu
  BY <1>6 DEF SduRecord
<1> QED
  BY <1>1, <1>2, <1>3, <1>7 DEF vlan_ptype_deducible, EthVlanHdr, PtypeSize

\* rle_header_ptype_decompression undoes rle_header_ptype_compression.
LEMMA Decompresses ==
  ASSUME NEW sdu \in SduRecord,
         rle_header_ptype_compression(sdu) # RLE_PROTO_TYPE_FALLBACK
  PROVE  LET c == rle_header_ptype_compression(sdu)
         IN /\ c # RLE_PROTO_TYPE_IP_COMP
            /\ rle_header_ptype_decompression(c) = sdu.ptype
            /\ c = RLE_PROTO_TYPE_VLAN_COMP_WO_PTYPE_FIELD =>
                 /\ sdu.ptype = RLE_PROTO_TYPE_VLAN_UNCOMP
                 /\ is_eth_vlan_ip_frame(sdu) = RLE_PROTO_TYPE_VLAN_COMP_WO_PTYPE_FIELD
<1> DEFINE c == rle_header_ptype_compression(sdu)
<1>1. \/ c = \h42 /\ sdu.ptype = \h0082
      \/ c = \h0f /\ sdu.ptype = \h8100
      \/ c = \h31 /\ sdu.ptype = \h8100 /\ is_eth_vlan_ip_frame(sdu) = \h31
      \/ c = \h19 /\ sdu.ptype = \h88a8
      \/ c = \h1a /\ sdu.ptype = \h9100
      \/ c = \h0d /\ sdu.ptype = \h0800
      \/ c = \h11 /\ sdu.ptype = \h86dd
      \/ c = \h0e /\ sdu.ptype = \h0806
  BY DEF rle_header_ptype_compression, is_eth_vlan_ip_frame,
         RLE_PROTO_TYPE_SIGNAL_UNCOMP, RLE_PROTO_TYPE_SIGNAL_COMP,
         RLE_PROTO_TYPE_VLAN_UNCOMP, RLE_PROTO_TYPE_VLAN_COMP,
         RLE_PROTO_TYPE_VLAN_QINQ_UNCOMP,
         RLE_PROTO_TYPE_VLAN_QINQ_COMP, RLE_PROTO_TYPE_VLAN_QINQ_LEGACY_UNCOMP,
         RLE_PROTO_TYPE_VLAN_QINQ_LEGACY_COMP, RLE_PROTO_TYPE_IPV4_UNCOMP,
         RLE_PROTO_TYPE_IPV4_COMP, RLE_PROTO_TYPE_IPV6_UNCOMP, RLE_PROTO_TYPE_IPV6_COMP,
         RLE_PROTO_TYPE_ARP_UNCOMP, RLE_PROTO_TYPE_ARP_COMP, RLE_PROTO_TYPE_FALLBACK,
         RLE_PROTO_TYPE_VLAN_COMP_WO_PTYPE_FIELD
<1> HIDE DEF c
<1>2. rle_header_ptype_decompression(c) = sdu.ptype
  BY <1>1 DEF rle_header_ptype_decompression, DecompStart,
              RLE_PROTO_TYPE_VLAN_UNCOMP, RLE_PROTO_TYPE_SIGNAL_UNCOMP
<1>3. /\ c # RLE_PROTO_TYPE_IP_COMP
      /\ c = RLE_PROTO_TYPE_VLAN_COMP_WO_PTYPE_FIELD =>
           /\ sdu.ptype = RLE_PROTO_TYPE_VLAN_UNCOMP
           /\ is_eth_vlan_ip_frame(sdu) = RLE_PROTO_TYPE_VLAN_COMP_WO_PTYPE_FIELD
  BY <1>1 DEF RLE_PROTO_TYPE_IP_COMP, RLE_PROTO_TYPE_VLAN_COMP_WO_PTYPE_FIELD,
              RLE_PROTO_TYPE_VLAN_UNCOMP
<1> QED
  BY <1>2, <1>3 DEF c

\* A receiver with the same configuration takes as many bytes for the ALPDU header as
\* push_alpdu_hdr made it long, in any fragment that has a byte.
LEMMA ExtractedLen ==
  ASSUME NEW sdu \in SduRecord, NEW conf \in ConfRecord, NEW label, NEW n \in Nat, 0 < n
  PROVE  LET h == push_alpdu_hdr(sdu, conf)
         IN alpdu_extract_sdu_frag(h.len = 0, label, h, sdu.ptype, sdu.nib0, n, conf).len = h.len
<1> DEFINE h == push_alpdu_hdr(sdu, conf)
           comp == rle_header_ptype_compression(sdu)
<1>1. \/ h.len = 0
      \/ h.len = 2 /\ ~conf.use_compressed_ptype
      \/ h.len = 3 /\ conf.use_compressed_ptype /\ h.comp = RLE_PROTO_TYPE_FALLBACK
      \/ h.len = 1 /\ conf.use_compressed_ptype /\ h.comp # RLE_PROTO_TYPE_FALLBACK
  BY DEF push_alpdu_hdr
<1> HIDE DEF h
<1>2. ~(n < 1)
  OBVIOUS
<1>3. alpdu_extract_sdu_frag(h.len = 0, label, h, sdu.ptype, sdu.nib0, n, conf).len = h.len
  BY <1>1, <1>2 DEF alpdu_extract_sdu_frag
<1> QED
  BY <1>3 DEF h

\* What rebuilt_sdus gives back when the receiver finds the right protocol type and
\* the right header length, and need not look into a VLAN header.
LEMMA RebuiltAsIs ==
  ASSUME NEW sdu \in SduRecord, NEW h, NEW x,
         x.ptype = sdu.ptype, x.comp # RLE_PROTO_TYPE_VLAN_COMP_WO_PTYPE_FIELD,
         h.len \in 0 .. 3, h.cut = 0, x.len = h.len
  PROVE  rebuilt_sdus(sdu, h, x) = {sdu}
<1>1. sdu.ptype # NoPtype /\ sdu.size \in Nat
  BY DEF SduRecord, NoPtype
<1>2. h.len + sdu.size - h.cut - x.len = sdu.size
  BY <1>1
<1>3. [sdu EXCEPT !.ptype = x.ptype, !.size = h.len + sdu.size - h.cut - x.len] = sdu
  BY <1>2 DEF SduRecord
<1> QED
  BY <1>1, <1>3 DEF rebuilt_sdus

\* The same when the VLAN header has lost its protocol field.
LEMMA RebuiltVlan ==
  ASSUME NEW sdu \in SduRecord, NEW h, NEW x,
         sdu.ptype = RLE_PROTO_TYPE_VLAN_UNCOMP,
         is_eth_vlan_ip_frame(sdu) = RLE_PROTO_TYPE_VLAN_COMP_WO_PTYPE_FIELD,
         x.ptype = sdu.ptype, x.comp = RLE_PROTO_TYPE_VLAN_COMP_WO_PTYPE_FIELD,
         h.cut = PtypeSize
  PROVE  rebuilt_sdus(sdu, h, x) = {sdu}
<1>1. sdu.ptype # NoPtype
  BY DEF SduRecord, NoPtype
<1>2. vlan_ptype_deducible(sdu, PtypeSize) /\ reassembly_insert_vlan_ptype(sdu, PtypeSize) = sdu
  BY VlanPutBack
<1> QED
  BY <1>1, <1>2 DEF rebuilt_sdus

\* A receiver with the same configuration finds in any fragment that holds the ALPDU
\* header and a byte of SDU what rebuilds the SDU, for every SDU that is not omitted as
\* a VLAN frame by mistake.
LEMMA FragmentRoundTrip ==
  ASSUME NEW sdu \in SduRecord, NEW conf \in ConfRecord, NEW n \in Nat,
         push_alpdu_hdr(sdu, conf).len < n, ~OmittedAsVlan(sdu, conf)
  PROVE  LET h     == push_alpdu_hdr(sdu, conf)
             supp  == h.len = 0
             label == get_alpdu_label_type(sdu.ptype, supp, conf)
             x     == alpdu_extract_sdu_frag(supp, label, h, sdu.ptype, sdu.nib0, n, conf)
         IN rebuilt_sdus(sdu, h, x) = {sdu}
<1> DEFINE h     == push_alpdu_hdr(sdu, conf)
           supp  == h.len = 0
           label == get_alpdu_label_type(sdu.ptype, supp, conf)
           x     == alpdu_extract_sdu_frag(supp, label, h, sdu.ptype, sdu.nib0, n, conf)
           implicit == conf.implicit_protocol_type
           comp  == rle_header_ptype_compression(sdu)
<1>0. h.len < n
  OBVIOUS
<1>1. sdu.size \in Nat /\ implicit \in 0 .. 255
  BY DEF SduRecord, ConfRecord
<1>2. CASE ptype_is_omissible(sdu, conf)
  <2>1. /\ h.len = 0
        /\ h.cut = IF /\ sdu.ptype = RLE_PROTO_TYPE_VLAN_UNCOMP
                      /\ implicit = RLE_PROTO_TYPE_VLAN_COMP_WO_PTYPE_FIELD
                     THEN PtypeSize ELSE 0
    BY <1>2 DEF push_alpdu_hdr
  <2> HIDE DEF h
  <2>2. CASE sdu.ptype = RLE_PROTO_TYPE_SIGNAL_UNCOMP
    <3>1. label = RLE_LT_PROTO_SIGNAL /\ h.cut = 0
      BY <2>1, <2>2 DEF get_alpdu_label_type, RLE_PROTO_TYPE_SIGNAL_UNCOMP,
                        RLE_PROTO_TYPE_VLAN_UNCOMP
    <3> HIDE DEF label
    <3>2. /\ x.comp # RLE_PROTO_TYPE_VLAN_COMP_WO_PTYPE_FIELD /\ x.len = 0
          /\ x.ptype = sdu.ptype
      BY <2>1, <2>2, <3>1 DEF alpdu_extract_sdu_frag, RLE_PROTO_TYPE_SIGNAL_COMP,
         RLE_PROTO_TYPE_VLAN_COMP_WO_PTYPE_FIELD
    <3> HIDE DEF x
    <3> QED
      BY <2>1, <3>1, <3>2, RebuiltAsIs DEF x, label, h
  <2>3. CASE sdu.ptype # RLE_PROTO_TYPE_SIGNAL_UNCOMP
    <3>1. label # RLE_LT_PROTO_SIGNAL
      BY <2>3 DEF get_alpdu_label_type, RLE_LT_IMPLICIT_PROTO_TYPE, RLE_LT_PROTO_SIGNAL
    <3> HIDE DEF label
    <3>2. /\ x.comp = implicit /\ x.len = 0
          /\ x.ptype = IF implicit = RLE_PROTO_TYPE_IP_COMP
                         THEN get_uncomp_ptype_from_sdu(sdu.nib0, n - 0)
                         ELSE rle_header_ptype_decompression(implicit)
      BY <2>1, <3>1 DEF alpdu_extract_sdu_frag
    <3> HIDE DEF x
    <3>3. CASE /\ implicit = RLE_PROTO_TYPE_IP_COMP
               /\ <<sdu.ptype, sdu.nib0>> \in IpVersions
      <4>1. h.cut = 0 /\ implicit # RLE_PROTO_TYPE_VLAN_COMP_WO_PTYPE_FIELD
        BY <2>1, <3>3 DEF RLE_PROTO_TYPE_IP_COMP, RLE_PROTO_TYPE_VLAN_COMP_WO_PTYPE_FIELD
      <4>2. n - 0 >= 1
        BY <1>0, <2>1
      <4>3. get_uncomp_ptype_from_sdu(sdu.nib0, n - 0) = sdu.ptype
        BY <3>3, <4>2 DEF get_uncomp_ptype_from_sdu, IpVersions
      <4> QED
        BY <2>1, <3>2, <3>3, <4>1, <4>3, RebuiltAsIs DEF x, label, h
    <3>4. CASE /\ implicit = RLE_PROTO_TYPE_VLAN_COMP_WO_PTYPE_FIELD
               /\ is_eth_vlan_ip_frame(sdu) = RLE_PROTO_TYPE_VLAN_COMP_WO_PTYPE_FIELD
      <4>1. sdu.ptype = RLE_PROTO_TYPE_VLAN_UNCOMP
        BY <1>2, <2>3, <3>4 DEF OmittedAsVlan, ptype_is_omissible
      <4>2. rle_header_ptype_decompression(implicit) = RLE_PROTO_TYPE_VLAN_UNCOMP
        BY <3>4 DEF rle_header_ptype_decompression, RLE_PROTO_TYPE_VLAN_COMP_WO_PTYPE_FIELD
      <4>3. implicit # RLE_PROTO_TYPE_IP_COMP
        BY <3>4 DEF RLE_PROTO_TYPE_IP_COMP, RLE_PROTO_TYPE_VLAN_COMP_WO_PTYPE_FIELD
      <4> QED
        BY <2>1, <3>2, <3>4, <4>1, <4>2, <4>3, RebuiltVlan DEF x, label, h
    <3>5. CASE /\ implicit \notin
                    {RLE_PROTO_TYPE_IP_COMP, RLE_PROTO_TYPE_VLAN_COMP_WO_PTYPE_FIELD}
               /\ sdu.ptype = rle_header_ptype_decompression(implicit)
      BY <2>1, <3>2, <3>5, RebuiltAsIs DEF x, label, h
    <3> QED
      BY <1>2, <2>3, <3>3, <3>4, <3>5 DEF ptype_is_omissible
  <2> QED
    BY <2>2, <2>3
<1>3. CASE ~ptype_is_omissible(sdu, conf) /\ ~conf.use_compressed_ptype
  <2>1. h.len = 2 /\ h.cut = 0
    BY <1>3 DEF push_alpdu_hdr
  <2> HIDE DEF h, label
  <2>3. ~(n < 2)
    BY <1>0, <2>1
  <2>4. /\ x.comp = RLE_PROTO_TYPE_FALLBACK /\ x.len = 2 /\ x.ptype = sdu.ptype
    BY <1>3, <2>1, <2>3 DEF alpdu_extract_sdu_frag
  <2>5. x.comp # RLE_PROTO_TYPE_VLAN_COMP_WO_PTYPE_FIELD
    BY <2>4 DEF RLE_PROTO_TYPE_FALLBACK, RLE_PROTO_TYPE_VLAN_COMP_WO_PTYPE_FIELD
  <2> HIDE DEF x
  <2> QED
    BY <2>1, <2>4, <2>5, RebuiltAsIs DEF x, label, h
<1>4. CASE /\ ~ptype_is_omissible(sdu, conf) /\ conf.use_compressed_ptype
           /\ comp = RLE_PROTO_TYPE_FALLBACK
  <2>1. h.len = 3 /\ h.cut = 0 /\ h.comp = RLE_PROTO_TYPE_FALLBACK
    BY <1>4 DEF push_alpdu_hdr
  <2> HIDE DEF h, label
  <2>3. ~(n < 3)
    BY <1>0, <2>1
  <2>4. /\ x.comp = RLE_PROTO_TYPE_FALLBACK /\ x.len = 3 /\ x.ptype = sdu.ptype
    BY <1>4, <2>1, <2>3 DEF alpdu_extract_sdu_frag
  <2>5. x.comp # RLE_PROTO_TYPE_VLAN_COMP_WO_PTYPE_FIELD
    BY <2>4 DEF RLE_PROTO_TYPE_FALLBACK, RLE_PROTO_TYPE_VLAN_COMP_WO_PTYPE_FIELD
  <2> HIDE DEF x
  <2> QED
    BY <2>1, <2>4, <2>5, RebuiltAsIs DEF x, label, h
<1>5. CASE /\ ~ptype_is_omissible(sdu, conf) /\ conf.use_compressed_ptype
           /\ comp # RLE_PROTO_TYPE_FALLBACK
  <2>1. /\ comp # RLE_PROTO_TYPE_IP_COMP /\ rle_header_ptype_decompression(comp) = sdu.ptype
        /\ comp = RLE_PROTO_TYPE_VLAN_COMP_WO_PTYPE_FIELD =>
             /\ sdu.ptype = RLE_PROTO_TYPE_VLAN_UNCOMP
             /\ is_eth_vlan_ip_frame(sdu) = RLE_PROTO_TYPE_VLAN_COMP_WO_PTYPE_FIELD
    BY <1>5, Decompresses
  <2>2. /\ h.len = 1 /\ h.comp = comp
        /\ h.cut = IF /\ sdu.ptype = RLE_PROTO_TYPE_VLAN_UNCOMP
                      /\ comp = RLE_PROTO_TYPE_VLAN_COMP_WO_PTYPE_FIELD
                     THEN PtypeSize ELSE 0
    BY <1>5 DEF push_alpdu_hdr
  <2> HIDE DEF comp
  <2> HIDE DEF h, label
  <2>4. ~(n < 1)
    BY <1>0, <2>2
  <2>5. /\ x.comp = comp /\ x.len = 1 /\ x.ptype = sdu.ptype
    BY <1>5, <2>1, <2>2, <2>4 DEF alpdu_extract_sdu_frag
  <2> HIDE DEF x
  <2>6. CASE comp = RLE_PROTO_TYPE_VLAN_COMP_WO_PTYPE_FIELD
    BY <2>1, <2>2, <2>5, <2>6, RebuiltVlan DEF x, label, h
  <2>7. CASE comp # RLE_PROTO_TYPE_VLAN_COMP_WO_PTYPE_FIELD
    BY <2>1, <2>2, <2>5, <2>7, RebuiltAsIs DEF x, label, h
  <2> QED
    BY <2>6, <2>7
<1> QED
  BY <1>2, <1>3, <1>4, <1>5

\* So it does in the whole ALPDU.
LEMMA RoundTrip ==
  ASSUME NEW sdu \in SduRecord, NEW conf \in ConfRecord, sdu.size > 0,
         ~OmittedAsVlan(sdu, conf)
  PROVE  LET h     == push_alpdu_hdr(sdu, conf)
             supp  == h.len = 0
             label == get_alpdu_label_type(sdu.ptype, supp, conf)
             n     == h.len + sdu.size - h.cut
             x     == alpdu_extract_sdu_frag(supp, label, h, sdu.ptype, sdu.nib0, n, conf)
         IN rebuilt_sdus(sdu, h, x) = {sdu}
<1> DEFINE h == push_alpdu_hdr(sdu, conf)
           n == h.len + sdu.size - h.cut
<1>1. /\ sdu.size \in Nat /\ h.len \in 0 .. 3 /\ h.cut \in {0, 2}
      /\ h.cut = 2 => sdu.size > 18
  BY PushedHdr DEF SduRecord, AlpduHdr, EthVlanHdr
<1> HIDE DEF h
<1>2. n \in Nat /\ h.len < n
  BY <1>1
<1> HIDE DEF n
<1> QED
  BY <1>2, FragmentRoundTrip DEF h, n

-----------------------------------------------------------------------------
(* Fragmentation buffers *)

USE DEF CompHdr, StartHdr, ContEndHdr, BaseHdr, MaxAlpduHdr, CrcSize, SeqSize

\* A trailer is a CRC or a sequence number.
LEMMA TrailerLen == \A crc : alpdu_trailer_len(crc) \in 1 .. 4
  BY DEF alpdu_trailer_len

\* rle_encapsulate lays out an accepted SDU and its ALPDU header next to each other,
\* inside the buffer, and none of its assertions fails.
LEMMA EncapsulatedBuf ==
  ASSUME NEW sdu \in SduRecord, 0 < sdu.size, sdu.size <= MaxPdu,
         NEW id \in Nat, NEW conf \in ConfRecord
  PROVE  LET b == encapsulated(sdu, id, conf)
         IN /\ b \in FragBuf /\ Adjacent(b) /\ Unsent(b) /\ encap_asserts(b)
            /\ b.id = id /\ b.sdu_info = sdu /\ b.hdr = push_alpdu_hdr(sdu, conf)
<1> DEFINE h == push_alpdu_hdr(sdu, conf)
<1>1. /\ h \in AlpduHdr
      /\ h.cut = 2 => sdu.size > EthVlanHdr
  BY PushedHdr
<1>2. sdu.size \in Nat /\ h.len \in 0 .. 3 /\ h.cut \in {0, 2} /\ h.cut < sdu.size
  BY <1>1 DEF AlpduHdr, SduRecord, EthVlanHdr
<1> HIDE DEF h
<1> DEFINE b == encapsulated(sdu, id, conf)
<1>3. b = [sdu_start |-> SduPos + h.cut, sdu_end |-> SduPos + sdu.size,
           alpdu_start |-> SduPos + h.cut - h.len, alpdu_end |-> SduPos + sdu.size,
           ppdu_start |-> SduPos + h.cut - h.len, ppdu_end |-> SduPos + h.cut - h.len,
           cur_pos |-> SduPos + h.cut - h.len,
           id |-> id, sdu_info |-> sdu, hdr |-> h, trailer |-> NoTrailer]
  <2> DEFINE c == rle_frag_buf_cpy_sdu(rle_frag_buf_init, sdu, id)
  <2>1. c = [sdu_start |-> SduPos, sdu_end |-> SduPos + sdu.size,
             alpdu_start |-> SduPos, alpdu_end |-> SduPos + sdu.size,
             ppdu_start |-> SduPos, ppdu_end |-> SduPos, cur_pos |-> SduPos,
             id |-> id, sdu_info |-> sdu,
             hdr |-> [len |-> 0, comp |-> 0, cut |-> 0], trailer |-> NoTrailer]
    <3> DEFINE i == rle_frag_buf_init
    <3>1. i.sdu_end = SduPos /\ i.alpdu_end = SduPos
      BY DEF rle_frag_buf_init
    <3>2. c = [i EXCEPT !.sdu_end = SduPos + sdu.size, !.alpdu_end = SduPos + sdu.size,
                        !.id = id, !.sdu_info = sdu]
      BY <3>1 DEF rle_frag_buf_cpy_sdu
    <3> HIDE DEF c
    <3> QED
      BY <3>2, Zenon DEF rle_frag_buf_init
  <2>2. b = alpdu_hdr_pushed(c, conf)
    BY DEF encapsulated
  <2>3. h = push_alpdu_hdr(c.sdu_info, conf)
    BY <2>1 DEF h
  <2> HIDE DEF c, b
  <2> DEFINE a == SduPos + h.cut - h.len
  <2>4. c.sdu_start = SduPos /\ c.alpdu_start = SduPos
    BY <2>1
  <2>5. b = [c EXCEPT !.sdu_start = SduPos + h.cut, !.alpdu_start = a, !.ppdu_start = a,
                      !.ppdu_end = a, !.cur_pos = a, !.hdr = h]
    BY <2>2, <2>3, <2>4, Zenon DEF alpdu_hdr_pushed
  <2> HIDE DEF a
  <2>6. b = [sdu_start |-> SduPos + h.cut, sdu_end |-> SduPos + sdu.size,
             alpdu_start |-> a, alpdu_end |-> SduPos + sdu.size, ppdu_start |-> a,
             ppdu_end |-> a, cur_pos |-> a,
             id |-> id, sdu_info |-> sdu, hdr |-> h, trailer |-> NoTrailer]
    BY <2>1, <2>5, Zenon
  <2> QED
    BY <2>6, Zenon DEF a
<1> HIDE DEF b
<1>4. b \in FragBuf
  BY <1>1, <1>2, <1>3, LimitsAssumption
     DEF FragBuf, Offset, FragBufLen, SduPos, NoTrailer, AlpduHdr
<1>5. Adjacent(b) /\ Unsent(b) /\ encap_asserts(b)
  BY <1>2, <1>3, LimitsAssumption
     DEF Adjacent, Unsent, encap_asserts, frag_buf_in_use, FragBufLen, SduPos
<1>6. b.id = id /\ b.sdu_info = sdu /\ b.hdr = h
  BY <1>3
<1> QED
  BY <1>4, <1>5, <1>6 DEF b, h

\* What the pointers of a buffer in use are, in numbers.
LEMMA BufBounds ==
  ASSUME NEW b \in FragBuf, Adjacent(b)
  PROVE  /\ b.alpdu_start \in Nat /\ b.sdu_start \in Nat /\ b.sdu_end \in Nat
         /\ b.alpdu_end \in Nat /\ b.cur_pos \in Nat
         /\ 4 <= b.alpdu_start /\ b.alpdu_start <= b.sdu_start
         /\ b.sdu_start <= b.alpdu_start + 3
         /\ b.sdu_start < b.sdu_end /\ b.sdu_end + 4 <= FragBufLen
         /\ b.alpdu_end <= FragBufLen /\ FragBufLen \in Nat
<1>1. /\ b.hdr.len \in 0 .. 3 /\ b.hdr.cut \in {0, 2} /\ b.sdu_info.size \in Nat
      /\ b.alpdu_end \in 0 .. FragBufLen /\ b.cur_pos \in Nat
  BY DEF FragBuf, Offset, SduRecord, AlpduHdr
<1>2. MaxPdu \in Nat
  BY LimitsAssumption
<1> QED
  BY <1>1, <1>2 DEF Adjacent, FragBufLen, SduPos

\* A PPDU with size bytes, or what is left, of the ALPDU of b.
LEMMA PutPush ==
  ASSUME NEW b \in FragBuf, NEW size \in Int, NEW hdr \in {2, 4},
         hdr <= b.cur_pos, 0 < size, b.cur_pos < b.alpdu_end
  PROVE  LET nb  == ppdu_put_push(b, size, hdr)
             put == AtMost(size, b.alpdu_end - b.cur_pos)
         IN /\ nb \in FragBuf
            /\ put \in Nat /\ 0 < put /\ put <= b.alpdu_end - b.cur_pos
            /\ nb.cur_pos = b.cur_pos + put
            /\ nb.ppdu_start = b.cur_pos - hdr /\ nb.ppdu_end = b.cur_pos + put
            /\ nb.sdu_start = b.sdu_start /\ nb.sdu_end = b.sdu_end
            /\ nb.alpdu_start = b.alpdu_start /\ nb.alpdu_end = b.alpdu_end
            /\ nb.sdu_info = b.sdu_info /\ nb.hdr = b.hdr /\ nb.trailer = b.trailer
<1> DEFINE put == AtMost(size, b.alpdu_end - b.cur_pos)
           nb  == ppdu_put_push(b, size, hdr)
<1>1. b.cur_pos \in Nat /\ b.alpdu_end \in Nat /\ b.alpdu_end <= FragBufLen /\ FragBufLen \in Nat
  BY LimitsAssumption DEF FragBuf, Offset, FragBufLen, SduPos
<1>2. put \in Nat /\ 0 < put /\ put <= b.alpdu_end - b.cur_pos
  BY <1>1 DEF AtMost
<1>3. nb = [b EXCEPT !.ppdu_start = b.cur_pos - hdr, !.ppdu_end = b.cur_pos + put,
                     !.cur_pos = b.cur_pos + put]
  BY DEF ppdu_put_push, frag_buf_get_remaining_alpdu_length
<1> HIDE DEF nb, put
<1>4. b.cur_pos - hdr \in Offset /\ b.cur_pos + put \in Offset
  BY <1>1, <1>2 DEF Offset
<1>5. nb \in FragBuf
  BY <1>3, <1>4 DEF FragBuf
<1>6. /\ nb.cur_pos = b.cur_pos + put
      /\ nb.ppdu_start = b.cur_pos - hdr /\ nb.ppdu_end = b.cur_pos + put
      /\ nb.sdu_start = b.sdu_start /\ nb.sdu_end = b.sdu_end
      /\ nb.alpdu_start = b.alpdu_start /\ nb.alpdu_end = b.alpdu_end
      /\ nb.sdu_info = b.sdu_info /\ nb.hdr = b.hdr /\ nb.trailer = b.trailer
  BY <1>3 DEF FragBuf
<1> QED
  BY <1>2, <1>5, <1>6 DEF nb, put

\* What a successful rle_fragment makes of a buffer b to which size bytes of a
\* PPDU with a header of hdr bytes are asked for: either nothing is left or the
\* buffer is partly sent, no assertion fails, and the PPDU has payload and fits.
FragmentOk(b, conf, size, hdr, burst) ==
  LET nb == ppdu_put_push(b, size, hdr)
  IN /\ nb \in FragBuf
     /\ alpdu_sent(nb) \/ (Adjacent(nb) /\ PartlySent(nb, conf))
     /\ ppdu_asserts(b, size, nb)
     /\ nb.alpdu_start = b.alpdu_start /\ nb.alpdu_end = b.alpdu_end
     /\ nb.ppdu_start = b.cur_pos - hdr /\ nb.ppdu_end = nb.cur_pos
     /\ b.cur_pos < nb.cur_pos
     /\ nb.cur_pos - nb.ppdu_start <= max_ppdu_len(burst)

\* Cutting a PPDU leaves alone the ALPDU of which it is cut.
LEMMA PutPushKeeps ==
  ASSUME NEW b \in FragBuf, NEW size, NEW hdr
  PROVE  LET nb == ppdu_put_push(b, size, hdr)
         IN /\ nb.id = b.id /\ nb.sdu_info = b.sdu_info /\ nb.hdr = b.hdr
            /\ nb.trailer = b.trailer
            /\ nb.sdu_start = b.sdu_start /\ nb.sdu_end = b.sdu_end
            /\ nb.alpdu_start = b.alpdu_start /\ nb.alpdu_end = b.alpdu_end
<1> DEFINE put == AtMost(size, frag_buf_get_remaining_alpdu_length(b))
           ps == b.cur_pos - hdr
           pe == b.cur_pos + put
<1>1. ppdu_put_push(b, size, hdr) = [b EXCEPT !.ppdu_start = ps, !.ppdu_end = pe, !.cur_pos = pe]
  BY DEF ppdu_put_push
<1> HIDE DEF put, ps, pe
<1> QED
  BY <1>1 DEF FragBuf

\* frag_buf_ppdu_init moves only the PPDU pointers.
LEMMA PpduInitKeeps ==
  ASSUME NEW b \in FragBuf
  PROVE  LET nb == frag_buf_ppdu_init(b)
         IN /\ nb \in FragBuf
            /\ nb.sdu_info = b.sdu_info /\ nb.hdr = b.hdr /\ nb.trailer = b.trailer
            /\ nb.sdu_start = b.sdu_start /\ nb.sdu_end = b.sdu_end
            /\ nb.alpdu_start = b.alpdu_start /\ nb.alpdu_end = b.alpdu_end
            /\ nb.cur_pos = b.cur_pos
<1> DEFINE c == b.cur_pos
<1>1. frag_buf_ppdu_init(b) = [b EXCEPT !.ppdu_start = c, !.ppdu_end = c] /\ c \in Offset
  BY DEF frag_buf_ppdu_init, FragBuf
<1> HIDE DEF c
<1> QED
  BY <1>1 DEF FragBuf, c

\* push_alpdu_trailer only adds a trailer.
LEMMA TrailerPushed ==
  ASSUME NEW b \in FragBuf, NEW conf, NEW seq
  PROVE  LET bt == push_alpdu_trailer(b, conf, seq)
         IN /\ bt.id = b.id /\ bt.sdu_info = b.sdu_info /\ bt.hdr = b.hdr
            /\ bt.sdu_start = b.sdu_start /\ bt.sdu_end = b.sdu_end
            /\ bt.alpdu_start = b.alpdu_start /\ bt.cur_pos = b.cur_pos
            /\ bt.alpdu_end = b.alpdu_end + alpdu_trailer_len(use_alpdu_crc(conf))
            /\ bt.trailer = IF use_alpdu_crc(conf) THEN [kind |-> "crc", val |-> b.id]
                                                   ELSE [kind |-> "seq", val |-> seq]
<1> DEFINE e == b.alpdu_end + alpdu_trailer_len(use_alpdu_crc(conf))
           t == IF use_alpdu_crc(conf) THEN [kind |-> "crc", val |-> b.id]
                                       ELSE [kind |-> "seq", val |-> seq]
<1>1. push_alpdu_trailer(b, conf, seq) = [b EXCEPT !.alpdu_end = e, !.trailer = t]
  BY DEF push_alpdu_trailer
<1> HIDE DEF e, t
<1>2. LET bt == push_alpdu_trailer(b, conf, seq)
      IN /\ bt.id = b.id /\ bt.sdu_info = b.sdu_info /\ bt.hdr = b.hdr
         /\ bt.sdu_start = b.sdu_start /\ bt.sdu_end = b.sdu_end
         /\ bt.alpdu_start = b.alpdu_start /\ bt.cur_pos = b.cur_pos
         /\ bt.alpdu_end = e /\ bt.trailer = t
  BY <1>1 DEF FragBuf
<1> QED
  BY <1>2 DEF e, t

\* The room that rle_fragment uses is limited by the burst and by the standard.
LEMMA MaxPpduLen ==
  ASSUME NEW burst \in Nat
  PROVE  /\ max_ppdu_len(burst) \in Nat /\ MaxPpduPl \in Nat
         /\ max_ppdu_len(burst) <= burst /\ max_ppdu_len(burst) <= MaxPpduPl + 2
         /\ max_ppdu_len(burst) = burst \/ max_ppdu_len(burst) = MaxPpduPl + 2
  BY LimitsAssumption DEF max_ppdu_len, AtMost

\* push_comp_ppdu_hdr on an unsent ALPDU that fits: all of it is sent.
LEMMA CompFragment ==
  ASSUME NEW b \in FragBuf, NEW conf, NEW burst \in Nat, Adjacent(b), Unsent(b),
         CompPossible(b, burst)
  PROVE  /\ FragmentOk(b, conf, max_ppdu_len(burst) - CompHdr, 2, burst)
         /\ alpdu_sent(ppdu_put_push(b, max_ppdu_len(burst) - CompHdr, 2))
<1> DEFINE size == max_ppdu_len(burst) - CompHdr
           nb == ppdu_put_push(b, size, 2)
<1>1. /\ b.cur_pos = b.alpdu_start /\ b.alpdu_end = b.sdu_end
      /\ b.alpdu_end - b.cur_pos <= size
  BY BufBounds, MaxPpduLen
     DEF Unsent, CompPossible, frag_buf_get_remaining_alpdu_length
<1>2. size \in Int /\ 0 < size /\ size <= MaxPpduPl /\ b.cur_pos < b.alpdu_end /\ 4 <= b.cur_pos
  BY <1>1, BufBounds, MaxPpduLen, LimitsAssumption
<1> HIDE DEF size
<1>3. /\ nb \in FragBuf /\ nb.cur_pos = b.alpdu_end /\ nb.alpdu_end = b.alpdu_end
      /\ nb.ppdu_start = b.cur_pos - 2 /\ nb.ppdu_end = b.alpdu_end
      /\ nb.alpdu_start = b.alpdu_start
  <2>1. AtMost(size, b.alpdu_end - b.cur_pos) = b.alpdu_end - b.cur_pos
    BY <1>1, <1>2, BufBounds DEF AtMost
  <2>2. 2 <= b.cur_pos
    BY <1>2, BufBounds
  <2>3. /\ nb \in FragBuf /\ nb.cur_pos = b.cur_pos + (b.alpdu_end - b.cur_pos)
        /\ nb.ppdu_start = b.cur_pos - 2 /\ nb.ppdu_end = b.cur_pos + (b.alpdu_end - b.cur_pos)
        /\ nb.alpdu_start = b.alpdu_start /\ nb.alpdu_end = b.alpdu_end
    BY <1>2, <2>1, <2>2, PutPush
  <2> QED
    BY <2>3, BufBounds
<1> HIDE DEF nb
<1>4. alpdu_sent(nb)
  BY <1>3, BufBounds DEF alpdu_sent, frag_buf_get_remaining_alpdu_length
<1>5. ppdu_asserts(b, size, nb)
  BY <1>1, <1>2, <1>3, BufBounds, MaxPpduLen
     DEF ppdu_asserts, frag_buf_in_use, frag_buf_get_current_ppdu_len
<1>6. b.cur_pos < nb.cur_pos /\ nb.cur_pos - nb.ppdu_start <= max_ppdu_len(burst)
  BY <1>1, <1>2, <1>3, BufBounds, MaxPpduLen DEF size
<1> QED
  BY <1>3, <1>4, <1>5, <1>6 DEF FragmentOk, nb, size

\* push_start_ppdu_hdr on an unsent ALPDU that does not fit: the PPDU takes the whole
\* ALPDU header and a part of the SDU, and leaves the trailer.
LEMMA StartFragment ==
  ASSUME NEW b \in FragBuf, NEW conf, NEW seq \in Nat, NEW burst \in Nat,
         Adjacent(b), Unsent(b), ~CompPossible(b, burst), StartPossible(b, burst)
  PROVE  /\ push_alpdu_trailer(b, conf, seq) \in FragBuf
         /\ FragmentOk(push_alpdu_trailer(b, conf, seq), conf,
                       max_ppdu_len(burst) - StartHdr, 4, burst)
         /\ LET nb == ppdu_put_push(push_alpdu_trailer(b, conf, seq),
                                    max_ppdu_len(burst) - StartHdr, 4)
            IN PartlySent(nb, conf) /\ ~alpdu_sent(nb)
<1> DEFINE size == max_ppdu_len(burst) - StartHdr
           bt == push_alpdu_trailer(b, conf, seq)
           tl == alpdu_trailer_len(use_alpdu_crc(conf))
           tr == IF use_alpdu_crc(conf) THEN [kind |-> "crc", val |-> b.id]
                                        ELSE [kind |-> "seq", val |-> seq]
           nb == ppdu_put_push(bt, size, 4)
<1>1. tl \in 1 .. 4
  BY TrailerLen
<1>2. /\ b.cur_pos = b.alpdu_start /\ b.alpdu_end = b.sdu_end
      /\ b.sdu_end - b.alpdu_start > size + 2
      /\ size >= b.sdu_start - b.alpdu_start + 1
      /\ size \in Nat /\ size <= MaxPpduPl
  BY BufBounds, MaxPpduLen
     DEF Unsent, CompPossible, StartPossible, frag_buf_get_remaining_alpdu_length
<1>3. bt = [b EXCEPT !.alpdu_end = b.alpdu_end + tl, !.trailer = tr]
  BY DEF push_alpdu_trailer
<1>4. /\ b.alpdu_end + tl \in Offset
      /\ tr \in [kind : {"none", "crc", "seq"}, val : Nat]
      /\ tr.kind = IF use_alpdu_crc(conf) THEN "crc" ELSE "seq"
  BY <1>1, <1>2, BufBounds DEF Offset, FragBuf
<1> HIDE DEF size, bt, tl, tr
<1>5. bt \in FragBuf
  BY <1>3, <1>4 DEF FragBuf
<1>6. /\ bt.sdu_start = b.sdu_start /\ bt.sdu_end = b.sdu_end
      /\ bt.alpdu_start = b.alpdu_start /\ bt.alpdu_end = b.sdu_end + tl
      /\ bt.cur_pos = b.alpdu_start /\ bt.hdr = b.hdr /\ bt.sdu_info = b.sdu_info
      /\ bt.trailer.kind = IF use_alpdu_crc(conf) THEN "crc" ELSE "seq"
  BY <1>2, <1>3, <1>4 DEF FragBuf
<1>7. 4 <= bt.cur_pos /\ 0 < size /\ bt.cur_pos < bt.alpdu_end
  BY <1>1, <1>2, <1>6, BufBounds
<1>8. AtMost(size, bt.alpdu_end - bt.cur_pos) = size
  BY <1>1, <1>2, <1>6, BufBounds DEF AtMost
<1>9. /\ nb \in FragBuf /\ nb.cur_pos = b.alpdu_start + size
      /\ nb.ppdu_start = b.alpdu_start - 4 /\ nb.ppdu_end = b.alpdu_start + size
      /\ nb.sdu_start = b.sdu_start /\ nb.sdu_end = b.sdu_end
      /\ nb.alpdu_start = b.alpdu_start /\ nb.alpdu_end = b.sdu_end + tl
      /\ nb.sdu_info = b.sdu_info /\ nb.hdr = b.hdr /\ nb.trailer = bt.trailer
  BY <1>2, <1>5, <1>6, <1>7, <1>8, PutPush
<1> HIDE DEF nb
<1>10. Adjacent(nb)
  BY <1>9 DEF Adjacent
<1>11. PartlySent(nb, conf)
  BY <1>2, <1>6, <1>9, BufBounds DEF PartlySent, tl
<1>12. ppdu_asserts(bt, size, nb)
  BY <1>1, <1>2, <1>6, <1>7, <1>9, BufBounds, MaxPpduLen
     DEF ppdu_asserts, frag_buf_in_use, frag_buf_get_current_ppdu_len
<1>13. /\ bt.cur_pos < nb.cur_pos /\ nb.cur_pos - nb.ppdu_start <= max_ppdu_len(burst)
       /\ nb.ppdu_start = bt.cur_pos - 4 /\ nb.ppdu_end = nb.cur_pos
       /\ nb.alpdu_start = bt.alpdu_start /\ nb.alpdu_end = bt.alpdu_end
  BY <1>2, <1>6, <1>7, <1>9, BufBounds, MaxPpduLen DEF size
<1>14. ~alpdu_sent(nb)
  BY <1>1, <1>2, <1>9, BufBounds DEF alpdu_sent, frag_buf_get_remaining_alpdu_length
<1> QED
  BY <1>5, <1>9, <1>10, <1>11, <1>12, <1>13, <1>14 DEF FragmentOk, nb, bt, size

\* push_cont_ppdu_hdr on a partly sent ALPDU: whatever room the burst has, the PPDU
\* takes bytes of SDU only.
LEMMA ContFragment ==
  ASSUME NEW b \in FragBuf, NEW conf, NEW burst \in Nat,
         Adjacent(b), PartlySent(b, conf), ~EndPossible(b, burst), burst > 2,
         cont_alpdu_frag_len(b, conf, burst) # 0
  PROVE  /\ FragmentOk(b, conf, cont_alpdu_frag_len(b, conf, burst), 2, burst)
         /\ LET nb == ppdu_put_push(b, cont_alpdu_frag_len(b, conf, burst), 2)
            IN PartlySent(nb, conf) /\ ~alpdu_sent(nb)
<1> DEFINE size == cont_alpdu_frag_len(b, conf, burst)
           room == cont_end_room(burst)
           tl   == alpdu_trailer_len(use_alpdu_crc(conf))
           nb   == ppdu_put_push(b, size, 2)
<1>1. /\ b.sdu_start < b.cur_pos /\ b.cur_pos <= b.sdu_end
      /\ b.alpdu_end = b.sdu_end + tl
  BY DEF PartlySent
<1>2. /\ room \in Int /\ 0 < room /\ room <= MaxPpduPl
      /\ b.alpdu_end - b.cur_pos > room
  BY <1>1, BufBounds, MaxPpduLen, LimitsAssumption
     DEF cont_end_room, EndPossible, frag_buf_get_remaining_alpdu_length
<1>3. tl = IF use_alpdu_crc(conf) THEN 4 ELSE 1
  BY DEF alpdu_trailer_len
<1> HIDE DEF room, tl
<1>4. /\ size \in Int /\ 0 < size /\ size <= room
      /\ b.cur_pos + size <= b.sdu_end
  <2>1. CASE use_alpdu_crc(conf)
    BY <2>1, <1>1, <1>2, <1>3, BufBounds
       DEF cont_alpdu_frag_len, frag_buf_get_remaining_alpdu_length, room
  <2>2. CASE ~use_alpdu_crc(conf)
    BY <2>2, <1>1, <1>2, <1>3, BufBounds
       DEF cont_alpdu_frag_len, frag_buf_get_remaining_alpdu_length, room
  <2> QED
    BY <2>1, <2>2
<1> HIDE DEF size
<1>5. 4 <= b.cur_pos /\ b.cur_pos < b.alpdu_end
  BY <1>1, <1>2, BufBounds
<1>6. AtMost(size, b.alpdu_end - b.cur_pos) = size
  BY <1>2, <1>4, BufBounds DEF AtMost
<1>7. /\ nb \in FragBuf /\ nb.cur_pos = b.cur_pos + size
      /\ nb.ppdu_start = b.cur_pos - 2 /\ nb.ppdu_end = b.cur_pos + size
      /\ nb.sdu_start = b.sdu_start /\ nb.sdu_end = b.sdu_end
      /\ nb.alpdu_start = b.alpdu_start /\ nb.alpdu_end = b.alpdu_end
      /\ nb.sdu_info = b.sdu_info /\ nb.hdr = b.hdr /\ nb.trailer = b.trailer
  BY <1>4, <1>5, <1>6, PutPush, BufBounds
<1> HIDE DEF nb
<1>8. Adjacent(nb)
  BY <1>7 DEF Adjacent
<1>9. PartlySent(nb, conf)
  BY <1>1, <1>4, <1>7, BufBounds DEF PartlySent, tl
<1>10. ppdu_asserts(b, size, nb)
  BY <1>1, <1>2, <1>4, <1>5, <1>7, BufBounds, MaxPpduLen
     DEF ppdu_asserts, frag_buf_in_use, frag_buf_get_current_ppdu_len
<1>11. b.cur_pos < nb.cur_pos /\ nb.cur_pos - nb.ppdu_start <= max_ppdu_len(burst)
  BY <1>1, <1>2, <1>4, <1>7, BufBounds, MaxPpduLen DEF room, cont_end_room
<1>12. ~alpdu_sent(nb)
  BY <1>1, <1>3, <1>4, <1>7, BufBounds DEF alpdu_sent, frag_buf_get_remaining_alpdu_length
<1> QED
  BY <1>7, <1>8, <1>9, <1>10, <1>11, <1>12 DEF FragmentOk, nb, size

\* push_end_ppdu_hdr on a partly sent ALPDU whose rest fits: all of it is sent.
LEMMA EndFragment ==
  ASSUME NEW b \in FragBuf, NEW conf, NEW burst \in Nat,
         Adjacent(b), PartlySent(b, conf), EndPossible(b, burst)
  PROVE  /\ FragmentOk(b, conf, frag_buf_get_remaining_alpdu_length(b), 2, burst)
         /\ alpdu_sent(ppdu_put_push(b, frag_buf_get_remaining_alpdu_length(b), 2))
<1> DEFINE size == frag_buf_get_remaining_alpdu_length(b)
           tl   == alpdu_trailer_len(use_alpdu_crc(conf))
           nb   == ppdu_put_push(b, size, 2)
<1>1. tl \in 1 .. 4
  BY TrailerLen
<1>2. /\ b.sdu_start < b.cur_pos /\ b.cur_pos <= b.sdu_end
      /\ b.alpdu_end = b.sdu_end + tl
  BY DEF PartlySent
<1> HIDE DEF tl
<1>3. /\ size = b.alpdu_end - b.cur_pos /\ size \in Nat /\ 0 < size /\ size <= MaxPpduPl
      /\ 4 <= b.cur_pos /\ b.cur_pos < b.alpdu_end
  BY <1>1, <1>2, BufBounds, MaxPpduLen
     DEF cont_end_room, EndPossible, frag_buf_get_remaining_alpdu_length
<1> HIDE DEF size
<1>4. /\ nb \in FragBuf /\ nb.cur_pos = b.alpdu_end /\ nb.alpdu_end = b.alpdu_end
      /\ nb.ppdu_start = b.cur_pos - 2 /\ nb.ppdu_end = b.alpdu_end
      /\ nb.alpdu_start = b.alpdu_start
  BY <1>3, PutPush, BufBounds DEF AtMost
<1> HIDE DEF nb
<1>5. alpdu_sent(nb)
  BY <1>4, BufBounds DEF alpdu_sent, frag_buf_get_remaining_alpdu_length
<1>6. ppdu_asserts(b, size, nb)
  BY <1>2, <1>3, <1>4, BufBounds, MaxPpduLen
     DEF ppdu_asserts, frag_buf_in_use, frag_buf_get_current_ppdu_len
<1>7. b.cur_pos < nb.cur_pos /\ nb.cur_pos - nb.ppdu_start <= max_ppdu_len(burst)
  <2>1. size <= max_ppdu_len(burst) - 2
    BY DEF EndPossible, cont_end_room, size
  <2> QED
    BY <2>1, <1>3, <1>4, BufBounds, MaxPpduLen
<1> QED
  BY <1>4, <1>5, <1>6, <1>7 DEF FragmentOk, nb, size

\* rle_frag_buf_init makes a buffer.
LEMMA InitialBuf == rle_frag_buf_init \in FragBuf
<1>1. SduPos \in Offset
  BY LimitsAssumption DEF Offset, SduPos, FragBufLen
<1>2. NoSdu \in SduRecord
  BY DEF NoSdu, SduRecord
<1> QED
  BY <1>1, <1>2 DEF rle_frag_buf_init, FragBuf, NoTrailer, AlpduHdr

\* A value that fits its bit-field is stored as it is.
LEMMA FitsField ==
  ASSUME NEW n \in Nat, NEW m \in Nat, n < m
  PROVE  n % m = n
  OBVIOUS

\* The header of a PPDU tells what push_ppdu_hdr cut out of the buffer b.
LEMMA PpduOfFragment ==
  ASSUME NEW b \in FragBuf, NEW conf, NEW size, NEW burst \in Nat, NEW f,
         NEW type \in {"COMP", "START", "CONT", "END"},
         FragmentOk(b, conf, size, PpduHdrLen(type), burst)
  PROVE  LET nb   == ppdu_put_push(b, size, PpduHdrLen(type))
             ppdu == push_ppdu_hdr(type, nb, f, conf)
         IN /\ ppdu.type = type
            /\ type # "COMP" => ppdu.frag = f
            /\ get_fragment_length(ppdu.len) = PpduHdrLen(type) + nb.cur_pos - b.cur_pos
            /\ get_fragment_length(ppdu.len) <= max_ppdu_len(burst)
            /\ ppdu.lo = b.cur_pos - b.alpdu_start
            /\ ppdu.hi = nb.cur_pos - b.alpdu_start
            /\ carried(ppdu) = nb.cur_pos - b.cur_pos
            /\ b.cur_pos \in Nat /\ nb.cur_pos \in Nat /\ b.alpdu_start \in Nat
            /\ b.cur_pos < nb.cur_pos
<1> DEFINE nb   == ppdu_put_push(b, size, PpduHdrLen(type))
           ppdu == push_ppdu_hdr(type, nb, f, conf)
           hl   == PpduHdrLen(type)
<1>1. /\ nb \in FragBuf
      /\ nb.alpdu_start = b.alpdu_start
      /\ nb.ppdu_start = b.cur_pos - hl /\ nb.ppdu_end = nb.cur_pos
      /\ b.cur_pos < nb.cur_pos
      /\ nb.cur_pos - nb.ppdu_start <= max_ppdu_len(burst)
  BY DEF FragmentOk
<1>2. hl \in {2, 4}
  BY DEF PpduHdrLen
<1>3. /\ b.cur_pos \in Nat /\ b.alpdu_start \in Nat /\ nb.cur_pos \in Nat
      /\ nb.ppdu_start \in Nat
  BY <1>1 DEF FragBuf, Offset
<1> HIDE DEF nb
<1>4. /\ ppdu.type = type
      /\ type # "COMP" => ppdu.frag = f
      /\ ppdu.len = (nb.ppdu_end - nb.ppdu_start - 2) % LenMod
      /\ ppdu.lo = nb.ppdu_start + hl - nb.alpdu_start
      /\ ppdu.hi = nb.ppdu_end - nb.alpdu_start
  <2>1. ppdu.type = type /\ (type # "COMP" => ppdu.frag = f)
    BY DEF push_ppdu_hdr
  <2>2. ppdu.len = (nb.ppdu_end - nb.ppdu_start - 2) % LenMod
    BY DEF push_ppdu_hdr, frag_buf_get_current_ppdu_len, rle_ppdu_hdr_set_ppdu_len
  <2>3. /\ ppdu.lo = nb.ppdu_start + hl - nb.alpdu_start
        /\ ppdu.hi = nb.ppdu_end - nb.alpdu_start
    BY <1>1, <1>2, <1>3 DEF push_ppdu_hdr
  <2> QED
    BY <2>1, <2>2, <2>3
<1> HIDE DEF ppdu, hl
<1>5. /\ nb.ppdu_end - nb.ppdu_start - 2 \in Nat
      /\ nb.ppdu_end - nb.ppdu_start - 2 < LenMod
      /\ LenMod \in Nat
  BY <1>1, <1>2, <1>3, MaxPpduLen, LimitsAssumption
<1>6. ppdu.len = nb.ppdu_end - nb.ppdu_start - 2
  BY <1>4, <1>5, FitsField
<1>7. get_fragment_length(ppdu.len) = nb.cur_pos - nb.ppdu_start
  BY <1>1, <1>3, <1>6 DEF get_fragment_length
<1>8. carried(ppdu) = nb.cur_pos - b.cur_pos
  BY <1>1, <1>2, <1>3, <1>4, <1>7 DEF carried, hl
<1>9. /\ get_fragment_length(ppdu.len) = hl + nb.cur_pos - b.cur_pos
      /\ get_fragment_length(ppdu.len) <= max_ppdu_len(burst)
      /\ ppdu.lo = b.cur_pos - b.alpdu_start
      /\ ppdu.hi = nb.cur_pos - b.alpdu_start
  BY <1>1, <1>2, <1>3, <1>4, <1>7
<1> QED
  BY <1>1, <1>3, <1>4, <1>8, <1>9 DEF nb, ppdu, hl
=============================================================================
