--------------------------- MODULE RleContextless ---------------------------
(***************************************************************************)
(* SDUs sent without a context: the caller owns a fragmentation buffer,    *)
(* copies an SDU into it, has it encapsulated and asks for one COMPLETE    *)
(* PPDU (fragmentation_buffer.c, rle_encap_contextless in encap.c,         *)
(* rle_frag_contextless in fragmentation.c).  Of the transmitter only the  *)
(* configuration is used.                                                  *)
(*                                                                         *)
(* Calls come in any order that rle.h allows: nothing but rle_frag_buf_init *)
(* and rle_frag_buf_del on a buffer that is not initialised, encapsulation *)
(* of a buffer that does not contain an ALPDU yet, PPDUs of one that does  *)
(* or that is not in use.  A failing assert() stops the program: cl_abort. *)
(***************************************************************************)
EXTENDS RleFragBuf

CONSTANTS
  ClSdus,     \* SDUs that the caller may copy into the buffer
  ClConfs,    \* configurations of the transmitter
  ClBursts,   \* sizes of PPDU that the caller may ask for
  MaxClSdus   \* bound: SDUs copied in a behaviour

VARIABLES
  cl_conf,    \* transmitter->conf
  cl_buf,     \* the fragmentation buffer
  cl_holds,   \* what the caller has put there, see Stages
  cl_sdu,     \* the SDU copied last
  cl_count,   \* SDUs copied so far, which gives every SDU its identity
  cl_ret,     \* status returned by the last call
  cl_ppdu,    \* PPDU returned by the last call, if any
  cl_abort    \* an assertion has failed

cl_vars == <<cl_conf, cl_buf, cl_holds, cl_sdu, cl_count, cl_ret, cl_ppdu, cl_abort>>

ASSUME ClAssumption ==
  /\ ClSdus \subseteq SduRecord
  /\ ClConfs \subseteq ConfRecord
  /\ ClBursts \subseteq Nat
  /\ MaxClSdus \in Nat

\* No buffer, a buffer as malloc left it, an initialised one, then what it contains.
Stages == {"none", "raw", "empty", "SDU", "ALPDU", "sent"}

Initialised == {"empty", "SDU", "ALPDU", "sent"}

ClInit ==
  /\ cl_conf \in {c \in ClConfs : rle_config_check(c)}
  /\ cl_buf = rle_frag_buf_init
  /\ cl_holds = "none"
  /\ cl_sdu = NoSdu
  /\ cl_count = 0
  /\ cl_ret = "none"
  /\ cl_ppdu = NoPpdu
  /\ cl_abort = FALSE

\* A call that returns the status st, without PPDU.
ClReturns(st) ==
  /\ ~cl_abort
  /\ cl_ret' = st
  /\ cl_ppdu' = NoPpdu
  /\ UNCHANGED cl_conf

\* rle_frag_buf_new: the pointers are not set.
ClNew ==
  /\ cl_holds = "none" /\ cl_holds' = "raw"
  /\ ClReturns("new")
  /\ UNCHANGED <<cl_buf, cl_sdu, cl_count, cl_abort>>

\* rle_frag_buf_del
ClDel ==
  /\ cl_holds # "none" /\ cl_holds' = "none"
  /\ ClReturns("del")
  /\ UNCHANGED <<cl_buf, cl_sdu, cl_count, cl_abort>>

\* rle_frag_buf_init, whatever the buffer contains.
ClBufInit ==
  /\ cl_holds # "none" /\ cl_holds' = "empty"
  /\ cl_buf' = rle_frag_buf_init
  /\ ClReturns("init")
  /\ UNCHANGED <<cl_sdu, cl_count, cl_abort>>

\* Mutant: an SDU may come on top of another one.
appending_cpy_refused(b, sdu) == sdu.size > MaxPdu

cpy_refused(b, sdu) == sdu.size > MaxPdu \/ frag_buf_in_use(b)

\* rle_frag_buf_cpy_sdu of an SDU that is refused.
ClCpyRefused(sdu) ==
  /\ cl_holds \in Initialised
  /\ cpy_refused(cl_buf, sdu)
  /\ ClReturns("cpy refused")
  /\ UNCHANGED <<cl_buf, cl_holds, cl_sdu, cl_count, cl_abort>>

\* An SDU of no byte is accepted, but leaves the buffer unused.
ClCpySdu(sdu) ==
  LET b == rle_frag_buf_cpy_sdu(cl_buf, sdu, cl_count + 1)
  IN /\ cl_holds \in Initialised
     /\ ~cpy_refused(cl_buf, sdu)
     /\ cl_count < MaxClSdus
     /\ cl_count' = cl_count + 1
     /\ cl_buf' = b
     /\ cl_holds' = IF frag_buf_in_use(b) THEN "SDU" ELSE "empty"
     /\ cl_sdu' = sdu
     /\ cl_abort' = (b.sdu_end > FragBufLen)
     /\ ClReturns("cpy")

\* rle_encap_contextless
ClEncapUnused ==
  /\ cl_holds \in {"empty", "SDU"}
  /\ ~frag_buf_in_use(cl_buf)
  /\ ClReturns("ENCAP_ERR_N_INIT_F_BUFF")
  /\ UNCHANGED <<cl_buf, cl_holds, cl_sdu, cl_count, cl_abort>>

ClEncap ==
  LET b == alpdu_hdr_pushed(cl_buf, cl_conf)
  IN /\ cl_holds \in {"empty", "SDU"}
     /\ frag_buf_in_use(cl_buf)
     /\ cl_buf' = b
     /\ cl_holds' = "ALPDU"
     /\ cl_abort' = ~encap_asserts(b)
     /\ ClReturns("ENCAP_OK")
     /\ UNCHANGED <<cl_sdu, cl_count>>

\* rle_frag_contextless on a buffer that is not in use.
ClFragUnused(burst) ==
  /\ cl_holds \in {"empty", "ALPDU", "sent"}
  /\ ~frag_buf_in_use(cl_buf)
  /\ ClReturns("FRAG_ERR_N_INIT_F_BUFF")
  /\ UNCHANGED <<cl_buf, cl_holds, cl_sdu, cl_count, cl_abort>>

\* The burst does not hold the header of a COMP PPDU; nothing has been touched.
ClFragTooSmall(burst) ==
  /\ cl_holds \in {"ALPDU", "sent"}
  /\ frag_buf_in_use(cl_buf)
  /\ burst < CompHdr
  /\ ClReturns("FRAG_ERR_BURST_TOO_SMALL")
  /\ UNCHANGED <<cl_buf, cl_holds, cl_sdu, cl_count, cl_abort>>

\* Requests that reach push_ppdu_hdr, without a context.
ClFragAsks(burst) ==
  /\ cl_holds \in {"ALPDU", "sent"}
  /\ frag_buf_in_use(cl_buf)
  /\ burst >= CompHdr

\* push_ppdu_hdr on an ALPDU of which a PPDU has been cut: the assertion that there
\* is a context fails.
ClFragAgain(burst) ==
  /\ ClFragAsks(burst)
  /\ frag_buf_is_fragmented(cl_buf)
  /\ cl_buf' = frag_buf_ppdu_init(cl_buf)
  /\ cl_abort' = TRUE
  /\ ClReturns("abort")
  /\ UNCHANGED <<cl_holds, cl_sdu, cl_count>>

\* The ALPDU does not fit one PPDU and there is no context for a START PPDU.
ClFragNeedsContext(burst) ==
  /\ ClFragAsks(burst)
  /\ ~frag_buf_is_fragmented(cl_buf)
  /\ ~CompPossible(cl_buf, burst)
  /\ cl_buf' = frag_buf_ppdu_init(cl_buf)
  /\ ClReturns("FRAG_ERR")
  /\ UNCHANGED <<cl_holds, cl_sdu, cl_count, cl_abort>>

ClFragComp(burst) ==
  LET size == max_ppdu_len(burst) - CompHdr
      nb   == ppdu_put_push(cl_buf, size, CompHdr)
  IN /\ ClFragAsks(burst)
     /\ ~frag_buf_is_fragmented(cl_buf)
     /\ CompPossible(cl_buf, burst)
     /\ ~cl_abort
     /\ cl_buf' = nb
     /\ cl_holds' = "sent"
     /\ cl_abort' = ~ppdu_asserts(cl_buf, size, nb)
     /\ cl_ret' = "FRAG_OK"
     /\ cl_ppdu' = push_ppdu_hdr("COMP", nb, 0, cl_conf)
     /\ UNCHANGED <<cl_conf, cl_sdu, cl_count>>

rle_frag_contextless(burst) ==
  \/ ClFragUnused(burst) \/ ClFragTooSmall(burst) \/ ClFragAgain(burst)
  \/ ClFragNeedsContext(burst) \/ ClFragComp(burst)

ClNext ==
  \/ ClNew \/ ClDel \/ ClBufInit
  \/ \E sdu \in ClSdus : ClCpyRefused(sdu) \/ ClCpySdu(sdu)
  \/ ClEncapUnused \/ ClEncap
  \/ \E burst \in ClBursts : rle_frag_contextless(burst)

ClSpec == ClInit /\ [][ClNext]_cl_vars

-----------------------------------------------------------------------------
(* Properties *)

\* What the caller knows of the buffer is true of its pointers, after any sequence
\* of calls: an initialised buffer is empty whatever it contained, and requests
\* that failed for lack of room leave the whole ALPDU there for a larger burst
\* (rle_frag_buf_init, rle_frag_buf_cpy_sdu, rle_frag_contextless).
ClBufOK ==
  /\ cl_holds = "empty" => ~frag_buf_in_use(cl_buf) /\ cl_buf.alpdu_end = SduPos
  /\ cl_holds = "SDU" =>
       /\ cl_buf.sdu_start = SduPos /\ cl_buf.sdu_end = SduPos + cl_sdu.size
       /\ cl_buf.alpdu_start = SduPos
       /\ cl_sdu.size <= MaxPdu /\ Unsent(cl_buf)
  /\ cl_holds = "ALPDU" => Adjacent(cl_buf) /\ Unsent(cl_buf)
  /\ cl_holds = "sent" => Adjacent(cl_buf) /\ alpdu_sent(cl_buf)

\* A PPDU made without context is a COMP PPDU with the whole ALPDU, from which a
\* receiver with the same configuration rebuilds the SDU that was copied
\* last, unless its type is omitted as OmittedAsVlan says (rle_frag_contextless
\* against reassembly_comp_ppdu).
ClDelivers ==
  cl_ppdu # NoPpdu =>
    LET p == cl_ppdu
        x == alpdu_extract_sdu_frag(p.supp, p.label, p.al.hdr, p.al.sdu.ptype,
                                    p.al.sdu.nib0, carried(p), cl_conf)
    IN /\ p.type = "COMP"
       /\ p.lo = 0 /\ p.hi = carried(p)
       /\ p.hi = p.al.hdr.len + p.al.sdu.size - p.al.hdr.cut
       /\ OmittedAsVlan(cl_sdu, cl_conf) \/ rebuilt_sdus(p.al.sdu, p.al.hdr, x) = {cl_sdu}

\* The only call that fails an assertion is one that asks for a PPDU of a buffer
\* which has given its PPDU already (push_ppdu_hdr without context): SDUs of any
\* size, refused copies and failed requests do not.
ClAbortsOnlyAskedAgain == cl_abort => cl_holds = "sent" /\ cl_ret = "abort"
=============================================================================
