------------------------------ MODULE RleLink ------------------------------
(***************************************************************************)
(* A transmitter and a receiver with the same configuration, joined by a   *)
(* satellite link that keeps the order of PPDUs and may lose some.  FPDUs, *)
(* which carry PPDUs side by side, are left out: a lost FPDU is the loss   *)
(* of its PPDUs one after the other.  The link is external to the code.    *)
(***************************************************************************)
EXTENDS RleTransmitter, RleReceiver, Sequences, Functions

CONSTANTS
  ChanMax,    \* bound: PPDUs on their way
  MaxLoss     \* bound: PPDUs lost in a behaviour

VARIABLES
  chan,       \* PPDUs on their way, oldest first
  losses,     \* PPDUs lost so far
  link_sent,  \* per fragment id, SDUs accepted by rle_encapsulate
  link_got,   \* per fragment id, SDUs handed over by the receiver
  link_run,   \* per fragment id, ALPDUs received in full one after the other
  link_open,  \* per fragment id, START received and nothing missing since
  link_nums,  \* per fragment id, the sequence numbers given to SDUs
  link_sync,  \* per fragment id, the last SDU after whose END PPDU the receiver
              \* expected the number that follows its own
  disturbed   \* an SDU could not be sent or received in full

link_vars == <<chan, losses, link_sent, link_got, link_run, link_open, link_nums,
               link_sync, disturbed>>
all_vars  == <<tx_vars, rx_vars, link_vars>>

ASSUME LinkAssumption ==
  /\ RxFragIds = FragIds /\ 0 \in FragIds
  /\ ChanMax \in Nat \ {0} /\ MaxLoss \in Nat

LinkInit ==
  /\ TxInit /\ RxInit /\ rx_conf = tx_conf
  /\ chan = << >> /\ losses = 0
  /\ link_sent = [f \in FragIds |-> << >>]
  /\ link_got = [f \in FragIds |-> << >>]
  /\ link_run = [f \in FragIds |-> 0]
  /\ link_open = [f \in FragIds |-> FALSE]
  /\ link_nums = [f \in FragIds |-> {}]
  /\ link_sync = [f \in FragIds |-> 0]
  /\ disturbed = FALSE

-----------------------------------------------------------------------------
\* rle_encapsulate.  The SDU that a too long one drives out of its context will
\* not be received.
LinkEncap(f, sdu) ==
  /\ rle_encapsulate(f, sdu)
  /\ link_sent' = IF tx_ret'.status = "ENCAP_OK"
                    THEN [link_sent EXCEPT ![f] = Append(@, [id |-> tx_count', sdu |-> sdu])]
                    ELSE link_sent
  /\ disturbed' = (disturbed \/ (~tx_free[f] /\ tx_free'[f]))
  /\ UNCHANGED <<rx_vars, chan, losses, link_got, link_run, link_open, link_nums,
                 link_sync>>

\* The sequence number of an ALPDU.
num_of(al) == [id |-> al.id, val |-> al.trailer.val]

\* rle_fragment; a PPDU goes on the link.
LinkSend(f, burst) ==
  /\ Len(chan) < ChanMax
  /\ rle_fragment(f, burst)
  /\ chan' = IF tx_ppdu' = NoPpdu THEN chan ELSE Append(chan, tx_ppdu')
  /\ link_nums' = IF tx_ppdu'.type = "START" /\ ~use_alpdu_crc(tx_conf)
                    THEN [link_nums EXCEPT ![f] = @ \union {num_of(tx_ppdu'.al)}]
                    ELSE link_nums
  /\ UNCHANGED <<rx_vars, losses, link_sent, link_got, link_run, link_open, link_sync,
                 disturbed>>

\* ALPDUs received in full so far when ppdu arrives: an ALPDU left unfinished by
\* the transmitter ends the run.
run_after(ppdu) ==
  LET f == ppdu.frag
  IN CASE ppdu.type = "START" /\ link_open[f] -> [link_run EXCEPT ![f] = 0]
       [] ppdu.type = "END" /\ link_open[f]   -> [link_run EXCEPT ![f] = @ + 1]
       [] OTHER                               -> link_run

open_after(ppdu) ==
  IF ppdu.type \in {"START", "END"}
    THEN [link_open EXCEPT ![ppdu.frag] = ppdu.type = "START"] ELSE link_open

\* The receiver, in its next state, expects the number that follows that of ppdu.
follows(ppdu) ==
  /\ ppdu.type = "END"
  /\ rx_seq_init'[ppdu.frag]
  /\ rx_seq'[ppdu.frag] = rle_ctx_incr_seq_nb(ppdu.al.trailer.val)

\* rle_decapsulate of the oldest PPDU.
LinkReceive ==
  /\ chan # << >>
  /\ rle_receiver_deencap_data(Head(chan))
  /\ chan' = Tail(chan)
  /\ link_got' = IF rx_sdu'.some
                   THEN [link_got EXCEPT ![rx_sdu'.al.frag] =
                           Append(@, [id |-> rx_sdu'.al.id, sdu |-> rx_sdu'.sdu])]
                   ELSE link_got
  /\ link_run' = run_after(Head(chan))
  /\ link_open' = open_after(Head(chan))
  /\ link_sync' = IF follows(Head(chan))
                    THEN [link_sync EXCEPT ![Head(chan).frag] = Head(chan).al.id]
                    ELSE link_sync
  /\ UNCHANGED <<tx_vars, losses, link_sent, link_nums, disturbed>>

LinkLose ==
  /\ chan # << >> /\ losses < MaxLoss
  /\ chan' = Tail(chan)
  /\ losses' = losses + 1
  /\ disturbed' = TRUE
  /\ LET f == Head(chan).frag
     IN IF Head(chan).type = "COMP" THEN UNCHANGED <<link_run, link_open>>
        ELSE /\ link_run' = [link_run EXCEPT ![f] = 0]
             /\ link_open' = [link_open EXCEPT ![f] = FALSE]
  /\ UNCHANGED <<tx_vars, rx_vars, link_sent, link_got, link_nums, link_sync>>

\* The transmitting terminal logs off and on again; SDUs in its contexts are gone.
LinkTxRestart ==
  /\ TxRestart
  /\ disturbed' = (disturbed \/ \E f \in FragIds : ~tx_free[f])
  /\ UNCHANGED <<rx_vars, chan, losses, link_sent, link_got, link_run, link_open,
                 link_nums, link_sync>>

LinkRxRestart ==
  /\ RxRestart
  /\ disturbed' = (disturbed \/ \E f \in FragIds : ~rx_free[f])
  /\ link_run' = [f \in FragIds |-> 0]
  /\ link_open' = [f \in FragIds |-> FALSE]
  /\ link_sync' = [f \in FragIds |-> 0]
  /\ UNCHANGED <<tx_vars, chan, losses, link_sent, link_got, link_nums>>

LinkNext ==
  \/ \E f \in FragIds, sdu \in TxSdus : LinkEncap(f, sdu)
  \/ \E f \in FragIds, burst \in Bursts : LinkSend(f, burst)
  \/ LinkReceive
  \/ LinkLose
  \/ LinkTxRestart
  \/ LinkRxRestart

LinkSpec == LinkInit /\ [][LinkNext]_all_vars

\* The transmitter's caller asks for PPDUs again and again and offers MinBurst
\* bytes or more; what is on the link reaches the receiver.
LinkFairSpec ==
  /\ LinkSpec
  /\ WF_all_vars(LinkReceive)
  /\ \A f \in FragIds :
       WF_all_vars(\E burst \in {n \in Bursts : n >= MinBurst} : LinkSend(f, burst))

-----------------------------------------------------------------------------
(* Properties *)

Service == INSTANCE RleService WITH
  Flows <- FragIds, Items <- [id : 1 .. MaxSdus, sdu : TxSdus],
  sent <- link_sent, got <- link_got

\* With CRC trailers, transmitter and receiver implement RleService whatever the
\* link loses and whenever a terminal restarts (rle_encapsulate, rle_fragment,
\* rle_receiver_deencap_data).
ImplementsService == Service!ServiceSpec

\* With sequence numbers an SDU handed over is made of one SDU's PPDUs too, whatever
\* the link loses, with two exceptions.  The first number of a context is accepted
\* whatever it is.  And since the receiver got in step the transmitter has given the
\* number zero again, to the SDU of the END PPDU or to one before it, because its
\* numbers wrapped around or because it logged on again: zero itself is accepted, and
\* the number expected may come round again (check_alpdu_trailer).
SeqNoProtects ==
  [][LET f == rx_sdu'.frag
     IN rx_sdu' # rx_sdu /\ rx_sdu'.some =>
          \/ rx_sdu'.whole
          \/ ~rx_seq_init[f]
          \/ \E num \in link_nums[f] :
               num.val = 0 /\ link_sync[f] < num.id /\ num.id <= Head(chan).al.id]_all_vars

\* While nothing is lost and nobody restarts with SDUs under way, the receiver
\* reports no error and what it hands over is what was sent; once the link and the
\* contexts are empty, all that was accepted has been handed over, in order.  In
\* particular a transmitter that logs on again between two SDUs, whose numbers
\* start from zero again, loses none (check_alpdu_trailer).
NothingLostUndisturbed ==
  ~disturbed =>
    /\ rx_ret.status # "C_ERROR"
    /\ \A f \in FragIds : /\ tx_free[f] /\ chan = << >> => link_got[f] = link_sent[f]
                          /\ \A i \in DOMAIN link_got[f] : link_got[f][i] = link_sent[f][i]

\* Bound on the damage: after the link has lost PPDUs, or an SDU has been cut
\* short, the second of two ALPDUs received in full is handed over unaltered with
\* CRC trailers, the third of three with sequence numbers (the first may find the
\* context in use, which drops it before its trailer is seen, and the second then
\* has a number that is not expected).
Recovers ==
  [][\A f \in FragIds :
       /\ link_run'[f] > link_run[f]
       /\ link_run'[f] >= (IF use_alpdu_crc(tx_conf) THEN 2 ELSE 3)
       => rx_sdu'.some /\ rx_sdu'.whole /\ rx_sdu'.sdu = rx_sdu'.al.sdu]_all_vars

\* On a link that loses nothing every SDU accepted is handed over in the end, unless
\* a refused SDU or a restart cut one short (rle_encapsulate, rle_transmitter_destroy,
\* rle_receiver_destroy).
EventuallyHandedOver ==
  \A i \in 1 .. MaxSdus :
    tx_count >= i ~>
      disturbed \/ \E f \in FragIds : \E item \in Range(link_got[f]) : item.id = i

\* rle.h: sdus_dropped is the "Number of SDUs dropped": no more than were sent.
DroppedCountsSdus == \A f \in FragIds : rx_stats[f].dropped <= Len(link_sent[f])

\* rle.h: the counter of lost SDUs increases by "the number of missing SeqNos" and
\* by one for other losses: with MaxSdus SDUs on a context, of at most SeqMod PPDUs
\* each, it stays below MaxSdus * SeqMod.
LostCountsMissing == \A f \in FragIds : rx_stats[f].lost <= MaxSdus * SeqMod
=============================================================================
