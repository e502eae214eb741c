-------------------------- MODULE MCRlePtypeCodec --------------------------
(* Bounded inputs for RlePtypeCodec: every compressible protocol type, some  *)
(* that are not, sizes around the 18 bytes of Ethernet and VLAN headers, and  *)
(* implicit types from every region of the decompression table.              *)
EXTENDS RlePtypeCodec

MCPtypes == {\h0000, \h0082, \h0800, \h0806, \h8100, \h86dd, \h88a8, \h9100,
             \h0b04, \h0b05, \h1234}

MCImplicit == {\h00, \h0d, \h0e, \h0f, \h11, \h19, \h1a, \h2f, \h30, \h31, \h42,
               \h46, \h47, \h7e, \h7f, \h80, \hfd, \hfe, \hff}

MCCodecSdus ==
  [ptype : MCPtypes, size : {1, 18}, nib0 : {4, 5, 6},
   ether_type : {\h8100}, tpid : {\h0800}, nib18 : {4}]
  \cup
  [ptype : MCPtypes, size : {19, 20}, nib0 : {4, 5, 6},
   ether_type : {\h8100, \h0800}, tpid : {\h0800, \h0806, \h86dd}, nib18 : {4, 5, 6}]

MCCodecConfs ==
  [allow_alpdu_crc : {TRUE}, allow_alpdu_sequence_number : {FALSE},
   allow_ptype_omission : BOOLEAN, use_compressed_ptype : BOOLEAN,
   implicit_protocol_type : MCImplicit, type_0_alpdu_label_size : {0, 1}]
=============================================================================
