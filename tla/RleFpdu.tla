------------------------------ MODULE RleFpdu ------------------------------
(***************************************************************************)
(* A transmitter and a receiver with the same configuration, joined by     *)
(* FPDUs: the sender packs PPDUs side by side behind a payload label, pads *)
(* and sends (pack.c); the receiver's rle_decapsulate finds the PPDUs in   *)
(* the octets again and stops when the caller's SDU buffers are full       *)
(* (deencap.c).  The link keeps the order of FPDUs and may lose some;      *)
(* restarts of the terminals are in RleLink.                               *)
(*                                                                         *)
(* The sender works on one FPDU buffer that it uses again for every FPDU,  *)
(* so that the octets of an earlier FPDU are there until rle_pack or       *)
(* rle_pad write over them.  PPDUs are not copied: the sender holds a      *)
(* pointer into the fragmentation buffer until it packs the PPDU, or until *)
(* it has another SDU encapsulated there.                                  *)
(***************************************************************************)
EXTENDS RleTransmitter, RleReceiver, Sequences, Functions

CONSTANTS
  FpduSize,      \* octets of an FPDU
  LabelSize,     \* octets of the payload label: 0, 3 or 6
  SdusMax,       \* SDU buffers that the receiver's caller gives to rle_decapsulate
  FlightMax,     \* bound: FPDUs on their way
  MaxLostFpdus   \* bound: FPDUs lost in a behaviour

VARIABLES
  held,          \* per fragment id, the PPDU returned by rle_fragment and not packed yet
  fpdu,          \* the FPDU being filled: fpdu_current_pos, fpdu_remaining_size, octets
  flight,        \* FPDUs on their way, oldest first
  decap,         \* the call of rle_decapsulate under way, or the last one
  fp_lost,       \* FPDUs lost so far
  fp_sent,       \* per fragment id, SDUs accepted by rle_encapsulate
  fp_got,        \* per fragment id, SDUs handed over by the receiver
  fp_disturbed   \* an SDU could not be sent or received in full

fp_vars  == <<held, fpdu, flight, decap, fp_lost, fp_sent, fp_got, fp_disturbed>>
fpdu_all == <<tx_vars, rx_vars, fp_vars>>

ASSUME FpduAssumption ==
  /\ RxFragIds = FragIds /\ 0 \in FragIds
  /\ LabelSize \in {0, 3, 6}
  /\ FpduSize \in Nat /\ \A burst \in Bursts : burst <= FpduSize - LabelSize
  /\ SdusMax \in Nat \ {0} /\ FlightMax \in Nat \ {0} /\ MaxLostFpdus \in Nat

-----------------------------------------------------------------------------
(* FPDUs: what each octet is.  The first octet of a PPDU stands for the PPDU. *)

Zero  == [type |-> "zero"]
Label == [type |-> "label"]
Body  == [type |-> "body"]

\* memcpy of n octets to position pos, of which the first one is first.
octets_put(octets, pos, n, first, rest) ==
  [i \in DOMAIN octets |-> IF i = pos /\ n > 0 THEN first
                           ELSE IF pos < i /\ i < pos + n THEN rest
                           ELSE octets[i]]

\* An FPDU buffer before the first use; packed: the PPDUs packed since it was empty.
NewFpdu == [pos |-> 0, rem |-> FpduSize, packed |-> << >>,
            octets |-> [i \in 0 .. FpduSize - 1 |-> Zero]]

label_put(fp) ==
  [fp EXCEPT !.octets = octets_put(@, fp.pos, LabelSize, Label, Label),
             !.pos = @ + LabelSize, !.rem = @ - LabelSize]

\* Error returns of rle_pack_init and rle_pack leave the FPDU as it is.
rle_pack_init(fp) ==
  IF fp.pos # 0 \/ fp.rem < LabelSize THEN fp ELSE label_put(fp)

ppdu_length(ppdu) == get_fragment_length(ppdu.len)

\* Mutant: an FPDU may not be filled to its last octet.
tight_pack_refused(fp, ppdu) ==
  \/ fp.pos = 0 /\ fp.rem <= LabelSize + ppdu_length(ppdu)
  \/ fp.pos # 0 /\ fp.rem <= ppdu_length(ppdu)

\* RLE_PACK_ERR_FPDU_TOO_SMALL: an empty FPDU takes the label as well.
pack_refused(fp, ppdu) ==
  \/ fp.pos = 0 /\ fp.rem < LabelSize + ppdu_length(ppdu)
  \/ fp.pos # 0 /\ fp.rem < ppdu_length(ppdu)

rle_pack(fp, ppdu) ==
  LET l == IF fp.pos = 0 THEN label_put(fp) ELSE fp
      n == ppdu_length(ppdu)
  IN IF pack_refused(fp, ppdu) THEN fp
     ELSE [l EXCEPT !.octets = octets_put(@, l.pos, n, ppdu, Body),
                    !.pos = @ + n, !.rem = @ - n,
                    !.packed = Append(@, ppdu)]

\* Mutant: the octets of earlier FPDUs are left there.
unpadded(fp) == fp

rle_pad(fp) == [fp EXCEPT !.octets = octets_put(@, fp.pos, fp.rem, Zero, Zero)]

-----------------------------------------------------------------------------
(* The sender *)

FpInit ==
  /\ TxInit /\ RxInit /\ rx_conf = tx_conf
  /\ held = [f \in FragIds |-> NoPpdu]
  /\ fpdu = NewFpdu
  /\ flight = << >>
  /\ decap = [on |-> FALSE, octets |-> NewFpdu.octets, todo |-> << >>,
              offset |-> 0, nr |-> 0, status |-> "none"]
  /\ fp_lost = 0
  /\ fp_sent = [f \in FragIds |-> << >>]
  /\ fp_got = [f \in FragIds |-> << >>]
  /\ fp_disturbed = FALSE

\* rle_encapsulate, whenever the sender likes.  A context that takes in an SDU is
\* free and its buffer is cleared: a PPDU of the SDU before that the sender still
\* holds is overwritten, and the sender gives it up.
FpEncap(f, sdu) ==
  /\ rle_encapsulate(f, sdu)
  /\ held' = IF tx_ret'.status = "ENCAP_OK" THEN [held EXCEPT ![f] = NoPpdu] ELSE held
  /\ fp_sent' = IF tx_ret'.status = "ENCAP_OK"
                  THEN [fp_sent EXCEPT ![f] = Append(@, [id |-> tx_count', sdu |-> sdu])]
                  ELSE fp_sent
  /\ fp_disturbed' = (fp_disturbed \/ (~tx_free[f] /\ tx_free'[f]) \/ held' # held)
  /\ UNCHANGED <<rx_vars, fpdu, flight, decap, fp_lost, fp_got>>

\* rle_fragment.  The sender does not ask a context for another PPDU while it holds one.
FpAsk(f, burst) ==
  /\ held[f] = NoPpdu
  /\ rle_fragment(f, burst)
  /\ held' = [held EXCEPT ![f] = tx_ppdu']
  /\ UNCHANGED <<rx_vars, fpdu, flight, decap, fp_lost, fp_sent, fp_got, fp_disturbed>>

FpPackInit ==
  /\ fpdu' = rle_pack_init(fpdu)
  /\ UNCHANGED <<tx_vars, rx_vars, held, flight, decap, fp_lost, fp_sent, fp_got,
                 fp_disturbed>>

\* rle_pack of the PPDU held; when the FPDU has no room for it the sender keeps it.
FpPack(f) ==
  /\ held[f] # NoPpdu
  /\ fpdu' = rle_pack(fpdu, held[f])
  /\ held' = IF pack_refused(fpdu, held[f]) THEN held ELSE [held EXCEPT ![f] = NoPpdu]
  /\ UNCHANGED <<tx_vars, rx_vars, flight, decap, fp_lost, fp_sent, fp_got,
                 fp_disturbed>>

\* rle_pad; the FPDU goes on the link and the sender starts another one in the
\* same buffer.
FpFlush ==
  LET fp == rle_pad(fpdu)
  IN /\ fpdu.pos > 0
     /\ Len(flight) < FlightMax
     /\ flight' = Append(flight, [octets |-> fp.octets, packed |-> fp.packed])
     /\ fpdu' = [fp EXCEPT !.pos = 0, !.rem = FpduSize, !.packed = << >>]
     /\ UNCHANGED <<tx_vars, rx_vars, held, decap, fp_lost, fp_sent, fp_got,
                    fp_disturbed>>

FpLose ==
  /\ flight # << >> /\ fp_lost < MaxLostFpdus
  /\ flight' = Tail(flight)
  /\ fp_lost' = fp_lost + 1
  /\ fp_disturbed' = TRUE
  /\ UNCHANGED <<tx_vars, rx_vars, held, fpdu, decap, fp_sent, fp_got>>

-----------------------------------------------------------------------------
(* rle_decapsulate *)

\* A call: the label is copied to the caller.  todo: the PPDUs that the sender
\* packed and the call has not met yet.
FpDecapsulate ==
  /\ ~decap.on /\ flight # << >>
  /\ decap' = [on |-> TRUE, octets |-> Head(flight).octets, todo |-> Head(flight).packed,
               offset |-> LabelSize, nr |-> 0, status |-> "DECAP_OK"]
  /\ flight' = Tail(flight)
  /\ UNCHANGED <<tx_vars, rx_vars, held, fpdu, fp_lost, fp_sent, fp_got, fp_disturbed>>

\* Less than two octets are left, or two octets that are zero.
parsed ==
  \/ decap.offset + 1 >= FpduSize
  \/ decap.octets[decap.offset] = Zero /\ decap.octets[decap.offset + 1] = Zero

\* The octets met are not a PPDU, or the length of the PPDU goes past the FPDU.
unreadable ==
  LET first == decap.octets[decap.offset]
  IN first.type \in PpduTypes => ppdu_length(first) > FpduSize - decap.offset

sdus_full == decap.nr = SdusMax

\* Mutant: full SDU buffers are noticed before the end of the FPDU.
hasty_round ==
  IF sdus_full THEN "DECAP_ERR_SOME_DROP"
  ELSE IF parsed THEN decap.status
  ELSE IF unreadable THEN "DECAP_ERR"
  ELSE "goes on"

\* The checks at the head of the loop, in their order: the status that ends the
\* call, or a PPDU to parse.
decap_round ==
  IF parsed THEN decap.status
  ELSE IF unreadable THEN "DECAP_ERR"
  ELSE IF sdus_full THEN "DECAP_ERR_SOME_DROP"
  ELSE "goes on"

\* One round of the loop.
FpDecapPpdu ==
  /\ decap.on
  /\ decap_round = "goes on"
  /\ LET ppdu == decap.octets[decap.offset]
     IN /\ rle_receiver_deencap_data(ppdu)
        /\ decap' = [decap EXCEPT
             !.offset = @ + ppdu_length(ppdu),
             !.nr = IF rx_ret'.status = "C_REASSEMBLY_OK" THEN @ + 1 ELSE @,
             !.status = IF rx_ret'.status = "C_ERROR" THEN "DECAP_ERR" ELSE @,
             !.todo = IF @ = << >> THEN @ ELSE Tail(@)]
  /\ fp_got' = IF rx_sdu'.some
                 THEN [fp_got EXCEPT ![rx_sdu'.al.frag] =
                         Append(@, [id |-> rx_sdu'.al.id, sdu |-> rx_sdu'.sdu])]
                 ELSE fp_got
  /\ UNCHANGED <<tx_vars, held, fpdu, flight, fp_lost, fp_sent, fp_disturbed>>

\* The end of the call: FPDU parsed, unreadable, or no SDU buffer left for the PPDU.
FpDecapReturn ==
  /\ decap.on
  /\ decap_round # "goes on"
  /\ decap' = [decap EXCEPT !.on = FALSE, !.status = decap_round,
                            !.octets = NewFpdu.octets, !.offset = 0]
  /\ fp_disturbed' = (fp_disturbed \/ decap_round = "DECAP_ERR_SOME_DROP")
  /\ UNCHANGED <<tx_vars, rx_vars, held, fpdu, flight, fp_lost, fp_sent, fp_got>>

FpNext ==
  \/ \E f \in FragIds, sdu \in TxSdus : FpEncap(f, sdu)
  \/ \E f \in FragIds, burst \in Bursts : FpAsk(f, burst)
  \/ FpPackInit
  \/ \E f \in FragIds : FpPack(f)
  \/ FpFlush
  \/ FpLose
  \/ FpDecapsulate \/ FpDecapPpdu \/ FpDecapReturn

FpSpec == FpInit /\ [][FpNext]_fpdu_all

\* The sender asks for PPDUs again and again, offers MinBurst octets or more, packs
\* what it holds and sends what it packed; rle_decapsulate is called for every
\* FPDU that arrives, and ends.
FpFairSpec ==
  /\ FpSpec
  /\ WF_fpdu_all(FpFlush)
  /\ WF_fpdu_all(FpDecapsulate \/ FpDecapPpdu \/ FpDecapReturn)
  /\ \A f \in FragIds :
       /\ WF_fpdu_all(\E burst \in {n \in Bursts : n >= MinBurst} : FpAsk(f, burst))
       /\ WF_fpdu_all(FpPack(f))

-----------------------------------------------------------------------------
(* Properties *)

\* rle_decapsulate finds the PPDUs that were packed, all of them and in their order,
\* and nothing else, whatever an earlier FPDU left in the sender's buffer: each
\* round of its loop meets the next one, behind a label that is where the caller
\* expects it; it returns with PPDUs left only to say RLE_DECAP_ERR_SOME_DROP, and
\* never says so when none is left (rle_pack, rle_pad, rle_decapsulate).
ParsedAsPacked ==
  [][/\ decap.on /\ decap'.on /\ decap' # decap =>
          decap.todo # << >> /\ decap.octets[decap.offset] = Head(decap.todo)
     /\ ~decap.on /\ decap'.on =>
          \A i \in 0 .. LabelSize - 1 : decap'.octets[i] = Label
     /\ decap.on /\ ~decap'.on =>
          (decap'.status = "DECAP_ERR_SOME_DROP" <=> decap.todo # << >>)]_fpdu_all

Service == INSTANCE RleService WITH
  Flows <- FragIds, Items <- [id : 1 .. MaxSdus, sdu : TxSdus],
  sent <- fp_sent, got <- fp_got

\* With CRC trailers RleService is implemented when whole FPDUs get lost, when the
\* receiver's caller has too few SDU buffers and PPDUs are dropped with contexts
\* left in use (rle_pack, rle_decapsulate).
FpduImplementsService == Service!ServiceSpec

AllReceived ==
  /\ \A f \in FragIds : tx_free[f] /\ held[f] = NoPpdu
  /\ fpdu.pos = 0 /\ flight = << >> /\ ~decap.on

\* While nothing is lost or driven out of its context and the caller has SDU
\* buffers enough, every call of rle_decapsulate says RLE_DECAP_OK, and all that
\* was accepted has been handed over, in order, once nothing is under way.
NothingLostInFpdus ==
  ~fp_disturbed =>
    /\ decap.status \in {"none", "DECAP_OK"}
    /\ AllReceived => fp_got = fp_sent

\* On a link that loses no FPDU every SDU accepted is handed over in the end, by
\* whatever PPDUs and FPDUs it goes, unless a refused SDU or a lack of SDU buffers
\* cut one short (rle_fragment, rle_pack, rle_decapsulate).
EventuallyDecapsulated ==
  \A i \in 1 .. MaxSdus :
    tx_count >= i ~>
      fp_disturbed \/ \E f \in FragIds : \E item \in Range(fp_got[f]) : item.id = i
=============================================================================
