--------------------------- MODULE RleLinkProofs ---------------------------
(***************************************************************************)
(* Proofs about a transmitter and a receiver joined by a link that loses   *)
(* PPDUs, for every number of PPDUs under way, lost or restarted over.     *)
(***************************************************************************)
EXTENDS RleLink, RleChannelProofs

-----------------------------------------------------------------------------
(* Every PPDU is one of an SDU that was accepted *)

LinkBase ==
  /\ Ends(link_sent)
  /\ chan \in Seq(Ppdu)
  /\ \A i \in 1 .. Len(chan) : Sent(chan[i], link_sent)

LEMMA BaseInit == LinkInit => LinkBase
<1> SUFFICES ASSUME LinkInit PROVE LinkBase
  OBVIOUS
<1>1. Ends(link_sent)
  BY EndsInit, LinkAssumption DEF LinkInit
<1>2. chan \in Seq(Ppdu) /\ Len(chan) = 0
  BY DEF LinkInit
<1> QED
  BY <1>1, <1>2 DEF LinkBase

LEMMA EncapBase ==
  ASSUME LinkBase, NEW f \in FragIds, NEW sdu \in TxSdus, LinkEncap(f, sdu)
  PROVE  LinkBase' /\ (Accepts(f, sdu) \/ Refuses(f)) /\ UNCHANGED <<chan, link_got, tx_seq>>
<1>1. /\ Ends(link_sent)' /\ (Accepts(f, sdu) \/ Refuses(f))
      /\ UNCHANGED <<tx_conf, tx_seq>>
      /\ \A al : al.frag \in FragIds /\ Known(al, link_sent) => Known(al, link_sent')
  <2> DEFINE more == link_sent'
  <2>1. /\ rle_encapsulate(f, sdu) /\ UNCHANGED rx_vars /\ Ends(link_sent)
        /\ more = IF tx_ret'.status = "ENCAP_OK"
                    THEN [link_sent EXCEPT ![f] = Append(@, [id |-> tx_count', sdu |-> sdu])]
                    ELSE link_sent
    BY DEF LinkBase, LinkEncap
  <2> HIDE DEF more
  <2>2. /\ Accepts(f, sdu) \/ Refuses(f)
        /\ TxInv' /\ TxAlpdus' /\ RxInv' /\ RxStarts' /\ SentOK(more, tx_count')
        /\ UNCHANGED <<tx_conf, tx_seq, rx_conf, rx_sdu>>
        /\ \A g \in FragIds : /\ ~tx_free'[g] => Known(alpdu_of(tx_buf'[g], g), more)
                              /\ ~rx_free'[g] => Known(rx_rasm'[g].start.al, more)
        /\ \A al : al.frag \in FragIds /\ Known(al, link_sent) => Known(al, more)
    BY <2>1, EndsEncap
  <2> QED
    BY <2>1, <2>2 DEF Ends, more
<1>2. UNCHANGED <<chan, link_got>>
  BY DEF LinkEncap
<1>3. ASSUME NEW i \in 1 .. Len(chan) PROVE Sent(chan[i], link_sent)'
  <2>1. Sent(chan[i], link_sent) /\ chan[i].al.frag \in FragIds
    BY SentPpdu DEF LinkBase
  <2> QED
    BY <1>1, <1>2, <2>1 DEF Sent
<1> QED
  BY <1>1, <1>2, <1>3 DEF LinkBase

LEMMA SendBase ==
  ASSUME LinkBase, NEW f \in FragIds, NEW burst \in Bursts, LinkSend(f, burst)
  PROVE  /\ LinkBase' /\ UNCHANGED <<tx_count, link_sent, link_got, disturbed>>
         /\ UNCHANGED rx_vars
         /\ \/ SendsNothing /\ chan' = chan
            \/ Sends(f, tx_ppdu') /\ tx_ppdu' \in Ppdu /\ chan' = Append(chan, tx_ppdu')
<1>1. /\ UNCHANGED <<link_sent, link_got, disturbed>> /\ UNCHANGED rx_vars
      /\ chan' = IF tx_ppdu' = NoPpdu THEN chan ELSE Append(chan, tx_ppdu')
  BY DEF LinkSend
<1>2. /\ Ends(link_sent)' /\ UNCHANGED <<tx_conf, tx_count>>
      /\ \/ SendsNothing
         \/ /\ Sends(f, tx_ppdu') /\ tx_ppdu' # NoPpdu /\ tx_ppdu' \in Ppdu
            /\ Sent(tx_ppdu', link_sent)
  BY <1>1, EndsSend DEF LinkBase, LinkSend
<1>3. chan \in Seq(Ppdu) /\ \A i \in 1 .. Len(chan) : Sent(chan[i], link_sent)
  BY DEF LinkBase
<1>4. CASE SendsNothing
  <2>1. chan' = chan
    BY <1>1, <1>4 DEF SendsNothing
  <2> QED
    BY <1>1, <1>2, <1>3, <1>4, <2>1 DEF LinkBase, Sent
<1>5. CASE /\ Sends(f, tx_ppdu') /\ tx_ppdu' # NoPpdu /\ tx_ppdu' \in Ppdu
           /\ Sent(tx_ppdu', link_sent)
  <2>1. /\ chan' \in Seq(Ppdu) /\ Len(chan') = Len(chan) + 1 /\ Len(chan) \in Nat
        /\ chan'[Len(chan) + 1] = tx_ppdu' /\ \A i \in 1 .. Len(chan) : chan'[i] = chan[i]
    BY <1>1, <1>3, <1>5, Appended
  <2>2. \A i \in 1 .. Len(chan') : i \in 1 .. Len(chan) \/ i = Len(chan) + 1
    BY <2>1
  <2>3. \A i \in 1 .. Len(chan') : PpduOK(chan'[i], tx_conf) /\ Known(chan'[i].al, link_sent)
    BY <1>3, <1>5, <2>1, <2>2 DEF Sent
  <2> QED
    BY <1>1, <1>2, <1>5, <2>1, <2>3 DEF LinkBase, Sent
<1> QED
  BY <1>2, <1>4, <1>5

\* The oldest PPDU.
LEMMA HeadSent ==
  ASSUME LinkBase, chan # << >>
  PROVE  /\ Sent(Head(chan), link_sent) /\ Head(chan) = chan[1] /\ 1 \in 1 .. Len(chan)
         /\ Head(chan).al.frag \in FragIds
<1>1. Head(chan) = chan[1] /\ 1 \in 1 .. Len(chan)
  BY Received DEF LinkBase
<1> QED
  BY <1>1, SentPpdu DEF LinkBase

\* What follows when the oldest PPDU leaves the link.
LEMMA TailBase ==
  ASSUME LinkBase, chan # << >>, chan' = Tail(chan), UNCHANGED <<tx_conf, link_sent>>
  PROVE  /\ chan' \in Seq(Ppdu) /\ Len(chan) \in Nat /\ Len(chan') = Len(chan) - 1
         /\ \A i \in 1 .. Len(chan') : i + 1 \in 1 .. Len(chan) /\ chan'[i] = chan[i + 1]
         /\ \A i \in 1 .. Len(chan') : Sent(chan[i], link_sent)'
<1>1. /\ chan' \in Seq(Ppdu) /\ Len(chan') = Len(chan) - 1 /\ Len(chan) \in Nat
      /\ \A i \in 1 .. Len(chan) - 1 : chan'[i] = chan[i + 1]
  BY Received DEF LinkBase
<1>2. \A i \in 1 .. Len(chan') : i + 1 \in 1 .. Len(chan) /\ chan'[i] = chan[i + 1]
  BY <1>1
<1> QED
  BY <1>1, <1>2 DEF LinkBase, Sent

LEMMA ReceiveBase ==
  ASSUME LinkBase, LinkReceive
  PROVE  /\ LinkBase' /\ UNCHANGED <<tx_conf, tx_free, tx_buf, tx_count, tx_seq, link_sent>>
         /\ rx_sdu'.some => CompHandsOver(Head(chan)) \/ EndHandsOver(Head(chan))
<1> DEFINE p == Head(chan)
<1>1. /\ chan # << >> /\ chan' = Tail(chan) /\ UNCHANGED link_sent /\ UNCHANGED tx_vars
      /\ rle_receiver_deencap_data(p)
  BY DEF LinkReceive
<1>2. Sent(p, link_sent)
  BY <1>1, HeadSent
<1>3. /\ Ends(link_sent)' /\ UNCHANGED <<tx_conf, tx_free, tx_buf, tx_count, tx_seq>>
      /\ rx_sdu'.some => CompHandsOver(p) \/ EndHandsOver(p)
  <2> HIDE DEF p
  <2> QED
    BY <1>1, <1>2, EndsReceive DEF LinkBase
<1>4. chan' \in Seq(Ppdu) /\ \A i \in 1 .. Len(chan') : Sent(chan[i], link_sent)'
  BY <1>1, <1>3, TailBase
<1> QED
  BY <1>1, <1>3, <1>4 DEF LinkBase

LEMMA LoseBase ==
  ASSUME LinkBase, LinkLose
  PROVE  LinkBase'
<1>1. /\ chan # << >> /\ chan' = Tail(chan) /\ UNCHANGED link_sent
      /\ UNCHANGED tx_vars /\ UNCHANGED rx_vars
  BY DEF LinkLose
<1>2. Ends(link_sent)' /\ tx_conf' = tx_conf
  BY <1>1, EndsSame DEF LinkBase
<1>3. chan' \in Seq(Ppdu) /\ \A i \in 1 .. Len(chan') : Sent(chan[i], link_sent)'
  BY <1>1, <1>2, TailBase
<1> QED
  BY <1>1, <1>2, <1>3 DEF LinkBase

\* Restarts leave the link alone.
LEMMA RestartBase ==
  ASSUME LinkBase, LinkTxRestart \/ LinkRxRestart \/ UNCHANGED all_vars
  PROVE  /\ LinkBase' /\ UNCHANGED <<link_sent, link_got, chan, tx_conf, tx_count>>
         /\ LinkTxRestart => \A f \in FragIds : tx_free'[f] /\ tx_seq'[f] = 0
         /\ ~LinkTxRestart => UNCHANGED <<tx_free, tx_buf, tx_seq>>
         /\ LinkRxRestart => \A f \in FragIds : rx_free'[f] /\ ~rx_seq_init'[f]
<1>1. UNCHANGED <<link_sent, link_got, chan>>
  BY DEF LinkTxRestart, LinkRxRestart, all_vars, link_vars
<1>2. CASE LinkTxRestart
  <2>1. /\ Ends(link_sent)' /\ UNCHANGED <<tx_conf, tx_count>>
        /\ \A f \in FragIds : tx_free'[f] /\ tx_seq'[f] = 0
    BY <1>2, EndsTxRestart DEF LinkTxRestart, LinkBase
  <2>2. ASSUME LinkRxRestart PROVE FALSE
    BY <1>2, <2>2
       DEF LinkTxRestart, TxRestart, LinkRxRestart, tx_vars, LinkBase, Ends, TxInv, TxTypeOK
  <2> QED
    BY <1>1, <1>2, <2>1, <2>2 DEF LinkBase, Sent
<1>3. CASE LinkRxRestart
  <2>1. /\ Ends(link_sent)' /\ UNCHANGED <<tx_conf, tx_free, tx_buf, tx_count, tx_seq>>
        /\ \A f \in FragIds : rx_free'[f] /\ ~rx_seq_init'[f]
    BY <1>3, EndsRxRestart DEF LinkRxRestart, LinkBase
  <2>2. ASSUME LinkTxRestart PROVE FALSE
    BY <1>3, <2>2
       DEF LinkTxRestart, TxRestart, LinkRxRestart, tx_vars, LinkBase, Ends, TxInv, TxTypeOK
  <2> QED
    BY <1>1, <1>3, <2>1, <2>2 DEF LinkBase, Sent
<1>4. CASE ~LinkTxRestart /\ ~LinkRxRestart /\ UNCHANGED all_vars
  <2>1. /\ Ends(link_sent)' /\ UNCHANGED <<tx_conf, tx_free, tx_buf, tx_count, tx_seq>>
    <3>1. UNCHANGED tx_vars /\ UNCHANGED rx_vars
      BY <1>4 DEF all_vars
    <3> QED
      BY <1>1, <3>1, EndsSame DEF LinkBase
  <2> QED
    BY <1>1, <1>4, <2>1 DEF LinkBase, Sent
<1> QED
  BY <1>2, <1>3, <1>4

\* Every step keeps it.
LEMMA BaseNext == LinkBase /\ [LinkNext]_all_vars => LinkBase'
  BY EncapBase, SendBase, ReceiveBase, LoseBase, RestartBase DEF LinkNext

-----------------------------------------------------------------------------
(* Order, with CRC trailers *)

\* The SDU with the number n comes after the PPDU p, or p is one of its PPDUs and not
\* the last one.
Before(p, n) == p.al.id <= n /\ (Final(p) => p.al.id < n)

\* SDUs handed over come before those whose PPDUs are on the link, and these before
\* the one that the transmitter works on.
OrderInv ==
  /\ link_got \in [FragIds -> Seq(SduItems)]
  /\ \A f \in FragIds : \A i \in 1 .. Len(link_got[f]) :
       /\ link_got[f][i].id <= tx_count
       /\ ~tx_free[f] => link_got[f][i].id < tx_buf[f].id
       /\ \A k \in 1 .. Len(chan) : chan[k].al.frag = f => link_got[f][i].id < chan[k].al.id
  /\ \A k \in 1 .. Len(chan) :
       /\ ~tx_free[chan[k].al.frag] => Before(chan[k], tx_buf[chan[k].al.frag].id)
       /\ \A j \in 1 .. Len(chan) :
            k < j /\ chan[k].al.frag = chan[j].al.frag => Before(chan[k], chan[j].al.id)

LEMMA OrderInit == LinkInit => OrderInv
  BY DEF LinkInit, OrderInv

\* The PPDUs on the link, and the ALPDUs in the transmitter, have numbers.
LEMMA Numbers ==
  ASSUME LinkBase
  PROVE  /\ tx_count \in Nat /\ tx_free \in [FragIds -> BOOLEAN]
         /\ \A k \in 1 .. Len(chan) : chan[k].al.frag \in FragIds /\ chan[k].al.id \in 1 .. tx_count
         /\ \A f \in FragIds : ~tx_free[f] => tx_buf[f].id \in 1 .. tx_count
<1>1. tx_count \in Nat /\ tx_free \in [FragIds -> BOOLEAN]
  BY DEF LinkBase, Ends, TxInv, TxTypeOK
<1>2. \A f \in FragIds : ~tx_free[f] => tx_buf[f].id \in 1 .. tx_count
  BY DEF LinkBase, Ends, TxAlpdus
<1> QED
  BY <1>1, <1>2, SentPpdu DEF LinkBase

LEMMA GotItems ==
  ASSUME OrderInv
  PROVE  \A f \in FragIds : \A i \in 1 .. Len(link_got[f]) : link_got[f][i].id \in Nat
<1> TAKE f \in FragIds
<1>1. link_got[f] \in Seq(SduItems)
  BY DEF OrderInv
<1> TAKE i \in 1 .. Len(link_got[f])
<1>2. link_got[f][i] \in SduItems
  BY <1>1, Elements
<1> QED
  BY <1>2 DEF SduItems

LEMMA EncapOrder ==
  ASSUME LinkBase, OrderInv, NEW f \in FragIds, NEW sdu \in TxSdus, LinkEncap(f, sdu)
  PROVE  OrderInv'
<1>1. UNCHANGED <<chan, link_got>> /\ (Accepts(f, sdu) \/ Refuses(f))
  BY EncapBase
<1>2. /\ tx_count \in Nat /\ tx_free \in [FragIds -> BOOLEAN]
      /\ \A k \in 1 .. Len(chan) : chan[k].al.frag \in FragIds /\ chan[k].al.id \in 1 .. tx_count
  BY Numbers
<1>3. \A g \in FragIds : \A i \in 1 .. Len(link_got[g]) : link_got[g][i].id \in Nat
  BY GotItems
<1>4. CASE Accepts(f, sdu)
  <2>1. /\ tx_count' = tx_count + 1 /\ ~tx_free'[f] /\ tx_buf'[f].id = tx_count + 1
        /\ \A g \in FragIds \ {f} : tx_buf'[g] = tx_buf[g] /\ tx_free'[g] = tx_free[g]
    BY <1>2, <1>4 DEF Accepts
  <2>2. ASSUME NEW g \in FragIds, NEW i \in 1 .. Len(link_got[g])
        PROVE  /\ link_got[g][i].id <= tx_count'
               /\ ~tx_free'[g] => link_got[g][i].id < tx_buf'[g].id
    <3>1. /\ link_got[g][i].id <= tx_count /\ link_got[g][i].id \in Nat
          /\ ~tx_free[g] => link_got[g][i].id < tx_buf[g].id
      BY <1>3 DEF OrderInv
    <3>2. link_got[g][i].id <= tx_count + 1 /\ link_got[g][i].id < tx_count + 1
      BY <1>2, <3>1
    <3> QED
      BY <2>1, <3>1, <3>2
  <2>3. ASSUME NEW k \in 1 .. Len(chan), ~tx_free'[chan[k].al.frag]
        PROVE  Before(chan[k], tx_buf'[chan[k].al.frag].id)
    <3>1. CASE chan[k].al.frag = f
      BY <1>2, <2>1, <3>1 DEF Before
    <3>2. CASE chan[k].al.frag # f
      BY <1>2, <2>1, <2>3, <3>2 DEF OrderInv
    <3> QED
      BY <3>1, <3>2
  <2> QED
    BY <1>1, <2>2, <2>3 DEF OrderInv
<1>5. CASE Refuses(f)
  <2>1. /\ tx_count' = tx_count /\ tx_buf' = tx_buf
        /\ \A g \in FragIds : ~tx_free'[g] => ~tx_free[g]
    BY <1>2, <1>5 DEF Refuses
  <2> QED
    BY <1>1, <1>2, <2>1 DEF OrderInv
<1> QED
  BY <1>1, <1>4, <1>5

LEMMA SendOrder ==
  ASSUME LinkBase, OrderInv, NEW f \in FragIds, NEW burst \in Bursts, LinkSend(f, burst)
  PROVE  OrderInv'
<1>1. /\ LinkBase' /\ UNCHANGED <<tx_count, link_got>>
      /\ \/ SendsNothing /\ chan' = chan
         \/ Sends(f, tx_ppdu') /\ tx_ppdu' \in Ppdu /\ chan' = Append(chan, tx_ppdu')
  BY SendBase
<1>2. /\ tx_count \in Nat /\ tx_free \in [FragIds -> BOOLEAN] /\ chan \in Seq(Ppdu)
      /\ \A k \in 1 .. Len(chan) : chan[k].al.frag \in FragIds /\ chan[k].al.id \in 1 .. tx_count
      /\ \A g \in FragIds : ~tx_free[g] => tx_buf[g].id \in 1 .. tx_count
  BY Numbers DEF LinkBase
<1>3. CASE SendsNothing /\ chan' = chan
  <2>1. tx_free' = tx_free /\ \A g \in FragIds : tx_buf'[g].id = tx_buf[g].id
    BY <1>3 DEF SendsNothing
  <2> QED
    BY <1>1, <1>2, <1>3, <2>1 DEF OrderInv
<1>4. CASE Sends(f, tx_ppdu') /\ tx_ppdu' \in Ppdu /\ chan' = Append(chan, tx_ppdu')
  <2> DEFINE p == tx_ppdu'
             n == Len(chan) + 1
  <2>1. /\ ~tx_free[f] /\ p.al = alpdu_of(tx_buf'[f], f) /\ p.al.id = tx_buf[f].id
        /\ tx_free' = [tx_free EXCEPT ![f] = Final(p)]
        /\ \A g \in FragIds \ {f} : tx_buf'[g] = tx_buf[g]
    BY <1>4 DEF Sends, Final
  <2>2. /\ p.al.frag = f /\ tx_buf'[f].id = p.al.id /\ p.al.id \in Int
        /\ tx_free'[f] = Final(p)
        /\ \A g \in FragIds \ {f} : tx_free'[g] = tx_free[g]
    <3>1. p.al.frag = f /\ tx_buf'[f].id = p.al.id
      BY <2>1 DEF alpdu_of
    <3> HIDE DEF p
    <3> QED
      BY <1>2, <2>1, <3>1
  <2> HIDE DEF p
  <2>3. /\ Len(chan') = n /\ Len(chan) \in Nat /\ chan'[n] = p
        /\ \A k \in 1 .. Len(chan) : chan'[k] = chan[k]
        /\ \A k \in 1 .. Len(chan') : k \in 1 .. Len(chan) \/ k = n
    <3>1. /\ Len(chan') = n /\ Len(chan) \in Nat /\ chan'[n] = p
          /\ \A k \in 1 .. Len(chan) : chan'[k] = chan[k]
      BY <1>2, <1>4, Appended DEF p
    <3> QED
      BY <3>1
  <2>4. \A g \in FragIds : ~tx_free'[g] => ~tx_free[g] /\ tx_buf'[g].id = tx_buf[g].id
    BY <2>1, <2>2
  <2>5. ASSUME NEW g \in FragIds, NEW i \in 1 .. Len(link_got[g])
        PROVE  /\ link_got[g][i].id <= tx_count'
               /\ ~tx_free'[g] => link_got[g][i].id < tx_buf'[g].id
               /\ \A k \in 1 .. Len(chan') :
                    chan'[k].al.frag = g => link_got[g][i].id < chan'[k].al.id
    <3>1. /\ link_got[g][i].id <= tx_count
          /\ ~tx_free[g] => link_got[g][i].id < tx_buf[g].id
          /\ \A k \in 1 .. Len(chan) : chan[k].al.frag = g => link_got[g][i].id < chan[k].al.id
      BY DEF OrderInv
    <3>2. p.al.frag = g => link_got[g][i].id < p.al.id
      BY <2>1, <2>2, <3>1
    <3> QED
      BY <1>1, <2>3, <2>4, <3>1, <3>2
  <2>6. ASSUME NEW k \in 1 .. Len(chan'), ~tx_free'[chan'[k].al.frag]
        PROVE  Before(chan'[k], tx_buf'[chan'[k].al.frag].id)
    <3>1. CASE k = n
      BY <2>2, <2>3, <2>6, <3>1 DEF Before
    <3>2. CASE k \in 1 .. Len(chan)
      BY <1>2, <2>3, <2>4, <2>6, <3>2 DEF OrderInv
    <3> QED
      BY <2>3, <3>1, <3>2
  <2>7. ASSUME NEW k \in 1 .. Len(chan'), NEW j \in 1 .. Len(chan'), k < j,
               chan'[k].al.frag = chan'[j].al.frag
        PROVE  Before(chan'[k], chan'[j].al.id)
    <3>1. k \in 1 .. Len(chan)
      BY <2>3, <2>7
    <3>2. CASE j = n
      BY <2>1, <2>2, <2>3, <2>7, <3>1, <3>2 DEF OrderInv
    <3>3. CASE j \in 1 .. Len(chan)
      BY <2>3, <2>7, <3>1, <3>3 DEF OrderInv
    <3> QED
      BY <2>3, <3>2, <3>3
  <2> QED
    BY <1>1, <2>5, <2>6, <2>7 DEF OrderInv
<1> QED
  BY <1>1, <1>3, <1>4

\* Order among what remains when the oldest PPDU is gone.
LEMMA TailOrder ==
  ASSUME LinkBase, OrderInv, chan # << >>, chan' = Tail(chan),
         UNCHANGED <<tx_conf, tx_count, tx_free, tx_buf, link_sent>>
  PROVE  \A k \in 1 .. Len(chan') :
           /\ Before(Head(chan), chan'[k].al.id) \/ chan'[k].al.frag # Head(chan).al.frag
           /\ ~tx_free'[chan'[k].al.frag] => Before(chan'[k], tx_buf'[chan'[k].al.frag].id)
           /\ \A j \in 1 .. Len(chan') :
                k < j /\ chan'[k].al.frag = chan'[j].al.frag => Before(chan'[k], chan'[j].al.id)
           /\ \E m \in 1 .. Len(chan) : chan'[k] = chan[m]
<1>1. /\ Len(chan) \in Nat /\ Len(chan') = Len(chan) - 1
      /\ \A i \in 1 .. Len(chan') : i + 1 \in 1 .. Len(chan) /\ chan'[i] = chan[i + 1]
  BY TailBase
<1>2. Head(chan) = chan[1] /\ 1 \in 1 .. Len(chan)
  BY Received DEF LinkBase
<1> TAKE k \in 1 .. Len(chan')
<1>3. 1 < k + 1 /\ \A j \in 1 .. Len(chan') : k < j => k + 1 < j + 1
  BY <1>1
<1> QED
  BY <1>1, <1>2, <1>3 DEF OrderInv

LEMMA ReceiveOrder ==
  ASSUME LinkBase, OrderInv, CrcProtected, LinkReceive
  PROVE  OrderInv'
<1> DEFINE p == Head(chan)
           Items == SduItems
<1>1. /\ chan # << >> /\ chan' = Tail(chan) /\ UNCHANGED link_sent
      /\ UNCHANGED <<tx_conf, tx_count, tx_free, tx_buf>>
      /\ link_got' = IF rx_sdu'.some
                       THEN [link_got EXCEPT ![rx_sdu'.al.frag] =
                               Append(@, [id |-> rx_sdu'.al.id, sdu |-> rx_sdu'.sdu])]
                       ELSE link_got
  BY DEF LinkReceive, tx_vars
<1>2. \A k \in 1 .. Len(chan') :
        /\ Before(p, chan'[k].al.id) \/ chan'[k].al.frag # p.al.frag
        /\ ~tx_free'[chan'[k].al.frag] => Before(chan'[k], tx_buf'[chan'[k].al.frag].id)
        /\ \A j \in 1 .. Len(chan') :
             k < j /\ chan'[k].al.frag = chan'[j].al.frag => Before(chan'[k], chan'[j].al.id)
        /\ \E m \in 1 .. Len(chan) : chan'[k] = chan[m]
  BY <1>1, TailOrder
<1>3. ASSUME NEW f \in FragIds, NEW i \in 1 .. Len(link_got[f])
      PROVE  /\ link_got[f][i].id <= tx_count'
             /\ ~tx_free'[f] => link_got[f][i].id < tx_buf'[f].id
             /\ \A k \in 1 .. Len(chan') :
                  chan'[k].al.frag = f => link_got[f][i].id < chan'[k].al.id
  BY <1>1, <1>2 DEF OrderInv
<1>4. CASE ~rx_sdu'.some
  <2>1. link_got' = link_got
    BY <1>1, <1>4
  <2> QED
    BY <1>2, <1>3, <2>1 DEF OrderInv
<1>5. CASE rx_sdu'.some
  <2> DEFINE al == rx_sdu'.al
             f == al.frag
             item == [id |-> al.id, sdu |-> rx_sdu'.sdu]
             n == Len(link_got[f]) + 1
  <2>1. /\ f \in FragIds /\ Known(al, link_sent) /\ rx_sdu'.sdu = al.sdu
        /\ Final(p) /\ f = p.al.frag /\ al.id = p.al.id
    BY <1>1, <1>5, HeadSent, ReceiveBase, HandsOverItem DEF LinkBase
  <2>2. al.id \in 1 .. tx_count /\ tx_count \in Nat /\ al.sdu \in TxSdus
    BY <2>1, KnownItem DEF LinkBase
  <2>3. item \in Items /\ item.id = al.id
    BY <2>1, <2>2 DEF SduItems
  <2>4. link_got \in [FragIds -> Seq(Items)] /\ link_got[f] \in Seq(Items)
    BY <2>1 DEF OrderInv
  <2>5. link_got' = [link_got EXCEPT ![f] = Append(@, item)]
    BY <1>1, <1>5
  <2> HIDE DEF item, Items, f, p
  <2>6. /\ Append(link_got[f], item) \in Seq(Items) /\ n = Len(Append(link_got[f], item))
        /\ Len(link_got[f]) \in Nat /\ Append(link_got[f], item)[n] = item
        /\ \A i \in 1 .. Len(link_got[f]) : Append(link_got[f], item)[i] = link_got[f][i]
    BY <2>3, <2>4, Appended
  <2>7. /\ link_got'[f] = Append(link_got[f], item)
        /\ \A g \in FragIds \ {f} : link_got'[g] = link_got[g]
        /\ link_got' \in [FragIds -> Seq(Items)]
    BY <2>1, <2>4, <2>5, <2>6
  <2>8. /\ al.id <= tx_count'
        /\ ~tx_free'[f] => al.id < tx_buf'[f].id
        /\ \A k \in 1 .. Len(chan') : chan'[k].al.frag = f => al.id < chan'[k].al.id
    <3>1. al.id <= tx_count'
      BY <1>1, <2>2
    <3>2. p = chan[1] /\ 1 \in 1 .. Len(chan)
      BY <1>1, Received DEF LinkBase, p
    <3>3. ~tx_free[f] => Before(p, tx_buf[f].id)
      BY <2>1, <3>2 DEF OrderInv
    <3> QED
      BY <1>1, <1>2, <2>1, <3>1, <3>3 DEF Before
  <2>9. ASSUME NEW g \in FragIds, NEW i \in 1 .. Len(link_got'[g])
        PROVE  /\ link_got'[g][i].id <= tx_count'
               /\ ~tx_free'[g] => link_got'[g][i].id < tx_buf'[g].id
               /\ \A k \in 1 .. Len(chan') :
                    chan'[k].al.frag = g => link_got'[g][i].id < chan'[k].al.id
    <3>1. CASE g # f
      BY <1>3, <2>7, <3>1
    <3>2. CASE g = f
      <4>1. i \in 1 .. Len(link_got[f]) \/ i = n
        BY <2>6, <2>7, <3>2
      <4>2. CASE i = n
        BY <2>3, <2>6, <2>7, <2>8, <3>2, <4>2
      <4>3. CASE i \in 1 .. Len(link_got[f])
        BY <1>3, <2>6, <2>7, <3>2, <4>3
      <4> QED
        BY <4>1, <4>2, <4>3
    <3> QED
      BY <3>1, <3>2
  <2> QED
    BY <1>2, <2>7, <2>9 DEF OrderInv, Items
<1> QED
  BY <1>4, <1>5

\* Every step keeps the order.
LEMMA OrderNext ==
  ASSUME CrcProtected, LinkBase, OrderInv, [LinkNext]_all_vars
  PROVE  OrderInv'
<1>1. CASE LinkLose
  <2>1. /\ chan # << >> /\ chan' = Tail(chan)
        /\ UNCHANGED <<tx_conf, tx_count, tx_free, tx_buf, link_sent, link_got>>
    BY <1>1 DEF LinkLose, tx_vars
  <2>2. \A k \in 1 .. Len(chan') :
          /\ ~tx_free'[chan'[k].al.frag] => Before(chan'[k], tx_buf'[chan'[k].al.frag].id)
          /\ \A j \in 1 .. Len(chan') :
               k < j /\ chan'[k].al.frag = chan'[j].al.frag => Before(chan'[k], chan'[j].al.id)
          /\ \E m \in 1 .. Len(chan) : chan'[k] = chan[m]
    BY <2>1, TailOrder
  <2>3. ASSUME NEW f \in FragIds, NEW i \in 1 .. Len(link_got[f])
        PROVE  /\ link_got[f][i].id <= tx_count
               /\ ~tx_free[f] => link_got[f][i].id < tx_buf[f].id
               /\ \A k \in 1 .. Len(chan') :
                    chan'[k].al.frag = f => link_got[f][i].id < chan'[k].al.id
    BY <2>2 DEF OrderInv
  <2> QED
    BY <2>1, <2>2, <2>3 DEF OrderInv
<1>2. CASE LinkTxRestart \/ LinkRxRestart \/ UNCHANGED all_vars
  <2>1. UNCHANGED <<chan, link_got, tx_count>>
        /\ \A f \in FragIds : ~tx_free'[f] => ~tx_free[f] /\ tx_buf'[f] = tx_buf[f]
    BY <1>2, RestartBase
  <2>2. \A k \in 1 .. Len(chan) : chan[k].al.frag \in FragIds
    BY Numbers
  <2> QED
    BY <2>1, <2>2 DEF OrderInv
<1> QED
  BY <1>1, <1>2, EncapOrder, SendOrder, ReceiveOrder DEF LinkNext

-----------------------------------------------------------------------------
(* Refinement *)

LEMMA ServiceStep ==
  ASSUME CrcProtected, LinkBase, OrderInv, [LinkNext]_all_vars
  PROVE  [Service!ServiceNext]_(Service!service_vars)
<1>1. ASSUME NEW f \in FragIds, NEW sdu \in TxSdus, LinkEncap(f, sdu)
      PROVE  [Service!ServiceNext]_(Service!service_vars)
  <2> DEFINE item == [id |-> tx_count', sdu |-> sdu]
  <2>1. /\ link_got' = link_got
        /\ link_sent' = IF tx_ret'.status = "ENCAP_OK"
                          THEN [link_sent EXCEPT ![f] = Append(@, item)] ELSE link_sent
        /\ Accepts(f, sdu) \/ Refuses(f)
    BY <1>1, EncapBase DEF LinkEncap
  <2>2. CASE Accepts(f, sdu)
    <3>1. tx_count' \in 1 .. MaxSdus /\ tx_ret'.status = "ENCAP_OK"
      BY <2>2, Numbers, TxAssumption DEF Accepts
    <3>2. Service!TakeIn(f, item)
      BY <2>1, <3>1 DEF Service!TakeIn
    <3>3. item \in [id : 1 .. MaxSdus, sdu : TxSdus]
      BY <3>1
    <3> QED
      BY <3>2, <3>3 DEF Service!ServiceNext
  <2>3. CASE Refuses(f)
    BY <2>1, <2>3 DEF Refuses, Service!service_vars
  <2> QED
    BY <2>1, <2>2, <2>3
<1>2. ASSUME LinkReceive
      PROVE  [Service!ServiceNext]_(Service!service_vars)
  <2> DEFINE al == rx_sdu'.al
             f == al.frag
             p == Head(chan)
  <2>1. /\ UNCHANGED link_sent /\ chan # << >>
        /\ link_got' = IF rx_sdu'.some
                         THEN [link_got EXCEPT ![f] =
                                 Append(@, [id |-> al.id, sdu |-> rx_sdu'.sdu])]
                         ELSE link_got
    BY <1>2 DEF LinkReceive
  <2>2. CASE ~rx_sdu'.some
    BY <2>1, <2>2 DEF Service!service_vars
  <2>3. CASE rx_sdu'.some
    <3>1. /\ f \in FragIds /\ Known(al, link_sent) /\ rx_sdu'.sdu = al.sdu
          /\ f = p.al.frag /\ al.id = p.al.id
      BY <1>2, <2>1, <2>3, HeadSent, ReceiveBase, HandsOverItem DEF LinkBase
    <3>2. PICK k \in 1 .. Len(link_sent[f]) :
            /\ link_sent[f][k] = Item(al)
            /\ \A j \in k .. Len(link_sent[f]) : link_sent[f][j].id >= al.id
      BY <3>1, KnownItem DEF LinkBase
    <3>3. p = chan[1] /\ 1 \in 1 .. Len(chan)
      BY <2>1, Received DEF LinkBase
    <3>4. \A i \in 1 .. Len(link_got[f]) : link_got[f][i].id \in Nat /\ link_got[f][i].id < al.id
      BY <3>1, <3>3, GotItems DEF OrderInv
    <3>5. /\ link_sent[f] \in Seq(SduItems) /\ Len(link_sent[f]) \in Nat
          /\ DOMAIN link_sent[f] = 1 .. Len(link_sent[f])
      <4>1. link_sent[f] \in Seq(SduItems)
        BY <3>1 DEF LinkBase, Ends, SentOK
      <4> QED
        BY <4>1
    <3>6. DOMAIN link_got[f] = 1 .. Len(link_got[f])
      <4>1. link_got[f] \in Seq(SduItems)
        BY <3>1 DEF OrderInv
      <4> QED
        BY <4>1
    <3>7. al.id \in Int
      BY <3>1, KnownItem DEF LinkBase
    <3> HIDE DEF f, al, p
    <3>8. ASSUME NEW j \in k .. Len(link_sent[f])
          PROVE  link_sent[f][j] \notin Service!Range(link_got[f])
      <4>1. link_sent[f][j].id >= al.id /\ link_sent[f][j].id \in Nat
        <5>1. j \in 1 .. Len(link_sent[f])
          BY <3>5
        <5>2. link_sent[f][j] \in SduItems
          BY <3>5, <5>1, Elements
        <5> QED
          BY <3>2, <5>2 DEF SduItems
      <4>2. \A i \in 1 .. Len(link_got[f]) : link_got[f][i].id # link_sent[f][j].id
        BY <3>4, <3>7, <4>1
      <4> QED
        BY <3>6, <4>2 DEF Service!Range
    <3>9. link_got' = [link_got EXCEPT ![f] = Append(@, link_sent[f][k])]
      BY <2>1, <2>3, <3>1, <3>2 DEF Item, f, al
    <3>10. Service!GiveOut(f)
      BY <2>1, <3>5, <3>8, <3>9 DEF Service!GiveOut
    <3> QED
      BY <3>1, <3>10 DEF Service!ServiceNext
  <2> QED
    BY <2>2, <2>3
<1>3. ASSUME UNCHANGED <<link_sent, link_got>>
      PROVE  [Service!ServiceNext]_(Service!service_vars)
  BY <1>3 DEF Service!service_vars
<1> QED
  BY <1>1, <1>2, <1>3 DEF LinkNext, LinkSend, LinkLose, LinkTxRestart, LinkRxRestart,
                          all_vars, link_vars

-----------------------------------------------------------------------------
(* While nothing is lost *)

\* The receiver stands at the cursor a of f, the transmitter at b, and the PPDUs on the
\* link lead from a to b.
Carries(f, a, b) ==
  /\ RxAt(a, rx_free[f], rx_rasm[f], rx_seq[f], rx_seq_init[f], rx_conf)
  /\ GotAt(a, link_sent[f], link_got[f])
  /\ Stream(f, chan, a, b, link_sent[f])
  /\ TxAt(f, b, link_sent[f], tx_free[f], tx_buf[f], tx_seq[f])

LosslessInv ==
  ~disturbed =>
    /\ rx_ret.status # "C_ERROR" /\ link_got \in [FragIds -> Seq(SduItems)]
    /\ \A f \in FragIds : \E a, b : Carries(f, a, b)

LEMMA LosslessInit ==
  ASSUME LinkInit
  PROVE  LosslessInv
<1> DEFINE c == [n |-> 0, pos |-> 0, al |-> 0, seq |-> 0]
<1>1. rx_ret.status = "none"
  BY DEF LinkInit, RxInit
<1>2. link_got \in [FragIds -> Seq(SduItems)]
  BY DEF LinkInit
<1>3. ASSUME NEW f \in FragIds PROVE Carries(f, c, c)
  <2>1. /\ tx_free[f] /\ tx_seq[f] = 0 /\ rx_free[f] /\ ~rx_seq_init[f]
        /\ link_sent[f] = << >> /\ link_got[f] = << >> /\ chan = << >>
    BY LinkAssumption DEF LinkInit, TxInit, RxInit
  <2>2. c.n = 0 /\ c.pos = 0 /\ c.seq = 0
    OBVIOUS
  <2> HIDE DEF c
  <2>3. RxAt(c, rx_free[f], rx_rasm[f], rx_seq[f], rx_seq_init[f], rx_conf)
    BY <2>1, <2>2 DEF RxAt, BufHolds, SeqFits
  <2>4. GotAt(c, << >>, << >>) /\ Len(<< >>) = 0
    BY <2>2 DEF GotAt
  <2>5. TxAt(f, c, << >>, tx_free[f], tx_buf[f], tx_seq[f])
    BY <2>1, <2>2, <2>4 DEF TxAt
  <2>6. Stream(f, << >>, c, c, << >>)
    BY StreamEmpty
  <2> QED
    BY <2>1, <2>3, <2>4, <2>5, <2>6 DEF Carries
<1> HIDE DEF c
<1> QED
  BY <1>1, <1>2, <1>3 DEF LosslessInv

LEMMA EncapLossless ==
  ASSUME LinkBase, LosslessInv, NEW f \in FragIds, NEW sdu \in TxSdus, LinkEncap(f, sdu)
  PROVE  LosslessInv'
<1> SUFFICES ASSUME ~disturbed' PROVE LosslessInv'
  BY DEF LosslessInv
<1>1. /\ ~disturbed /\ ~(~tx_free[f] /\ tx_free'[f])
      /\ UNCHANGED rx_vars /\ UNCHANGED <<chan, link_got>>
  BY DEF LinkEncap
<1>2. UNCHANGED <<rx_ret, rx_conf, rx_free, rx_rasm, rx_seq, rx_seq_init>>
  BY <1>1 DEF rx_vars
<1>3. ASSUME NEW g \in FragIds PROVE \E a, b : Carries(g, a, b)'
  <2>1. PICK a, b : Carries(g, a, b)
    BY <1>1 DEF LosslessInv
  <2>2. /\ RxAt(a, rx_free[g], rx_rasm[g], rx_seq[g], rx_seq_init[g], rx_conf)
        /\ GotAt(a, link_sent[g], link_got[g]) /\ Stream(g, chan, a, b, link_sent[g])
        /\ TxAt(g, b, link_sent[g], tx_free[g], tx_buf[g], tx_seq[g])
    BY <2>1 DEF Carries
  <2> DEFINE more == link_sent'
  <2>3. StaysAt(link_sent, more)
    <3>1. /\ rle_encapsulate(f, sdu) /\ UNCHANGED rx_vars /\ Ends(link_sent)
          /\ TakesIn(link_sent, more, f, sdu) /\ ~DrivesOut(f)
      BY <1>1 DEF LinkBase, LinkEncap, TakesIn, DrivesOut
    <3> HIDE DEF more
    <3> QED
      BY <3>1, EncapAt
  <2> HIDE DEF more
  <2>4. /\ TxAt(g, b, more[g], tx_free'[g], tx_buf'[g], tx_seq'[g])
        /\ Len(link_sent[g]) \in Nat /\ Len(more[g]) \in Nat
        /\ Len(link_sent[g]) <= Len(more[g])
        /\ \A i \in 1 .. Len(link_sent[g]) : more[g][i] = link_sent[g][i]
    BY <2>2, <2>3 DEF StaysAt
  <2>5. Stream(g, chan, a, b, more[g])
    <3> DEFINE s == link_sent[g]
               t == more[g]
    <3>1. /\ Stream(g, chan, a, b, s) /\ Len(s) \in Nat /\ Len(t) \in Nat /\ Len(s) <= Len(t)
          /\ \A i \in 1 .. Len(s) : t[i] = s[i]
      BY <2>2, <2>4
    <3> HIDE DEF s, t
    <3> QED
      BY <3>1, StreamMore DEF t
  <2>6. GotAt(a, more[g], link_got[g])
    BY <2>2, <2>4 DEF GotAt
  <2> QED
    BY <1>1, <1>2, <2>2, <2>4, <2>5, <2>6 DEF Carries, more
<1> QED
  BY <1>1, <1>2, <1>3 DEF LosslessInv

LEMMA SendLossless ==
  ASSUME LinkBase, LosslessInv, NEW f \in FragIds, NEW burst \in Bursts, LinkSend(f, burst)
  PROVE  LosslessInv'
<1> SUFFICES ASSUME ~disturbed' PROVE LosslessInv'
  BY DEF LosslessInv
<1>1. /\ ~disturbed /\ UNCHANGED rx_vars /\ UNCHANGED <<link_sent, link_got>>
      /\ \/ SendsNothing /\ chan' = chan
         \/ Sends(f, tx_ppdu') /\ tx_ppdu' \in Ppdu /\ chan' = Append(chan, tx_ppdu')
  BY SendBase
<1>2. UNCHANGED <<rx_ret, rx_conf, rx_free, rx_rasm, rx_seq, rx_seq_init>>
  BY <1>1 DEF rx_vars
<1>3. ASSUME NEW g \in FragIds PROVE \E a, b : Carries(g, a, b)'
  <2>1. PICK a, b : Carries(g, a, b)
    BY <1>1 DEF LosslessInv
  <2> DEFINE s == link_sent[g]
  <2>2. /\ RxAt(a, rx_free[g], rx_rasm[g], rx_seq[g], rx_seq_init[g], rx_conf)
        /\ GotAt(a, s, link_got[g]) /\ Stream(g, chan, a, b, s)
        /\ TxAt(g, b, s, tx_free[g], tx_buf[g], tx_seq[g])
    BY <2>1 DEF Carries
  <2>3. \E d : Stream(g, chan', a, d, s) /\ TxAt(g, d, s, tx_free'[g], tx_buf'[g], tx_seq'[g])
    <3> HIDE DEF s
    <3>1. CASE SendsNothing /\ chan' = chan
      BY <2>2, <3>1, SendNothingAt
    <3>2. CASE Sends(f, tx_ppdu') /\ tx_ppdu' \in Ppdu /\ chan' = Append(chan, tx_ppdu')
      <4> DEFINE p == tx_ppdu'
      <4>1. /\ tx_seq \in [FragIds -> Nat] /\ tx_free \in [FragIds -> BOOLEAN]
            /\ chan \in Seq(Ppdu) /\ Len(s) \in Nat
        <5>1. s \in Seq(SduItems)
          BY DEF s, LinkBase, Ends, SentOK
        <5>2. tx_seq \in [FragIds -> Nat]
          BY LimitsAssumption DEF LinkBase, Ends, TxInv, TxTypeOK
        <5> QED
          BY <5>1, <5>2 DEF LinkBase, Ends, TxInv, TxTypeOK
      <4>2. Sends(f, p) /\ p \in Ppdu /\ chan' = Append(chan, p)
        BY <3>2
      <4> HIDE DEF p
      <4>3. CASE g = f
        <5>1. /\ Follows(p, b, s) /\ p.al.frag = g
              /\ TxAt(g, After(p, b), s, tx_free'[g], tx_buf'[g], tx_seq'[g])
          BY <2>2, <4>1, <4>2, <4>3, SendFollows
        <5>2. Moves(g, p, b, After(p, b), s)
          BY <5>1 DEF Moves
        <5> DEFINE d == After(p, b)
        <5> HIDE DEF d
        <5>3. Stream(g, Append(chan, p), a, d, s)
          BY <2>2, <4>1, <4>2, <5>2, StreamAppend DEF d
        <5> QED
          BY <4>2, <5>1, <5>3 DEF d
      <4>4. CASE g # f
        <5>1. tx_free'[g] = tx_free[g] /\ tx_buf'[g] = tx_buf[g] /\ tx_seq'[g] = tx_seq[g]
              /\ p.al.frag = f
          BY <4>1, <4>2, <4>4 DEF Sends, alpdu_of
        <5>2. Moves(g, p, b, b, s)
          BY <4>4, <5>1 DEF Moves
        <5>3. Stream(g, Append(chan, p), a, b, s)
          BY <2>2, <4>1, <4>2, <5>2, StreamAppend
        <5> QED
          BY <2>2, <4>2, <5>1, <5>3
      <4> QED
        BY <4>3, <4>4
    <3> QED
      BY <1>1, <3>1, <3>2
  <2> QED
    BY <1>1, <1>2, <2>2, <2>3 DEF Carries
<1> QED
  BY <1>1, <1>2, <1>3 DEF LosslessInv

LEMMA ReceiveLossless ==
  ASSUME NoneAsVlan, LinkBase, LosslessInv, LinkReceive
  PROVE  LosslessInv'
<1> SUFFICES ASSUME ~disturbed' PROVE LosslessInv'
  BY DEF LosslessInv
<1> DEFINE p == Head(chan)
           more == link_got'
<1>1. /\ ~disturbed /\ chan # << >> /\ chan' = Tail(chan) /\ rle_receiver_deencap_data(p)
      /\ more = IF rx_sdu'.some
                  THEN [link_got EXCEPT ![rx_sdu'.al.frag] =
                          Append(@, [id |-> rx_sdu'.al.id, sdu |-> rx_sdu'.sdu])]
                  ELSE link_got
  BY DEF LinkReceive
<1>2. /\ Ends(link_sent) /\ Sent(p, link_sent) /\ chan \in Seq(Ppdu)
      /\ link_got \in [FragIds -> Seq(SduItems)]
  BY <1>1, HeadSent DEF LinkBase, LosslessInv
<1>3. /\ UNCHANGED <<tx_free, tx_buf, tx_seq, link_sent>> /\ rx_conf' = rx_conf
  BY ReceiveBase DEF LinkBase, Ends
<1>4. ASSUME NEW f \in FragIds
      PROVE  \E a, m, b : /\ Carries(f, a, b) /\ Moves(f, p, a, m, link_sent[f])
                          /\ Stream(f, Tail(chan), m, b, link_sent[f])
  <2>1. PICK a, b : Carries(f, a, b)
    BY <1>1 DEF LosslessInv
  <2> DEFINE s == link_sent[f]
  <2>2. Stream(f, chan, a, b, s)
    BY <2>1 DEF Carries
  <2> HIDE DEF s
  <2>3. \E m : Moves(f, p, a, m, s) /\ Stream(f, Tail(chan), m, b, s)
    BY <1>1, <1>2, <2>2, StreamTail
  <2> QED
    BY <2>1, <2>3 DEF s
<1> HIDE DEF p, more
<1>5. /\ rx_ret'.status # "C_ERROR"
      /\ \A f \in FragIds : \A c, d :
           /\ Moves(f, p, c, d, link_sent[f])
           /\ RxAt(c, rx_free[f], rx_rasm[f], rx_seq[f], rx_seq_init[f], rx_conf)
           /\ GotAt(c, link_sent[f], link_got[f])
           => /\ RxAt(d, rx_free'[f], rx_rasm'[f], rx_seq'[f], rx_seq_init'[f], rx_conf)
              /\ GotAt(d, link_sent[f], more[f])
  <2>1. \A f \in FragIds : \E c, d :
          /\ Moves(f, p, c, d, link_sent[f])
          /\ RxAt(c, rx_free[f], rx_rasm[f], rx_seq[f], rx_seq_init[f], rx_conf)
    BY <1>4 DEF Carries
  <2> QED
    BY <1>1, <1>2, <2>1, ReceiveMoves
<1>6. ASSUME NEW f \in FragIds PROVE more[f] \in Seq(SduItems) /\ \E a, b : Carries(f, a, b)'
  <2>1. PICK a, m, b : /\ Carries(f, a, b) /\ Moves(f, p, a, m, link_sent[f])
                       /\ Stream(f, Tail(chan), m, b, link_sent[f])
    BY <1>4
  <2>2. /\ RxAt(m, rx_free'[f], rx_rasm'[f], rx_seq'[f], rx_seq_init'[f], rx_conf)
        /\ GotAt(m, link_sent[f], more[f])
        /\ TxAt(f, b, link_sent[f], tx_free[f], tx_buf[f], tx_seq[f])
    BY <1>5, <2>1 DEF Carries
  <2>3. Carries(f, m, b)'
    BY <1>1, <1>3, <2>1, <2>2 DEF Carries, more
  <2> QED
    BY <2>2, <2>3 DEF GotAt
<1>7. link_got' \in [FragIds -> Seq(SduItems)]
  <2>1. DOMAIN more = FragIds /\ more = [f \in FragIds |-> more[f]]
    BY <1>1, <1>2
  <2> QED
    BY <1>6, <2>1 DEF more
<1> QED
  BY <1>5, <1>6, <1>7 DEF LosslessInv

LEMMA RestartLossless ==
  ASSUME LinkBase, LosslessInv, LinkTxRestart \/ LinkRxRestart
  PROVE  LosslessInv'
<1> SUFFICES ASSUME ~disturbed' PROVE LosslessInv'
  BY DEF LosslessInv
<1>1. /\ ~disturbed /\ UNCHANGED <<link_sent, link_got, chan>>
      /\ LinkTxRestart => \A f \in FragIds : tx_free[f]
      /\ LinkRxRestart => \A f \in FragIds : rx_free[f]
  BY RestartBase DEF LinkTxRestart, LinkRxRestart
<1>2. /\ LinkTxRestart => \A f \in FragIds : tx_free'[f] /\ tx_seq'[f] = 0
      /\ ~LinkTxRestart => UNCHANGED <<tx_free, tx_buf, tx_seq>>
      /\ LinkRxRestart => \A f \in FragIds : rx_free'[f] /\ ~rx_seq_init'[f]
  BY RestartBase
<1>3. /\ LinkTxRestart => UNCHANGED <<rx_free, rx_rasm, rx_seq, rx_seq_init, rx_conf, rx_ret>>
      /\ LinkRxRestart => rx_ret'.status = "new" /\ rx_conf' = rx_conf
  BY DEF LinkTxRestart, LinkRxRestart, RxRestart, rx_vars
<1>4. rx_ret'.status # "C_ERROR"
  BY <1>1, <1>3 DEF LosslessInv
<1>5. ASSUME NEW f \in FragIds PROVE \E a, b : Carries(f, a, b)'
  <2>1. PICK a, b : Carries(f, a, b)
    BY <1>1 DEF LosslessInv
  <2>2. /\ RxAt(a, rx_free[f], rx_rasm[f], rx_seq[f], rx_seq_init[f], rx_conf)
        /\ TxAt(f, b, link_sent[f], tx_free[f], tx_buf[f], tx_seq[f])
    BY <2>1 DEF Carries
  <2>3. TxAt(f, b, link_sent[f], tx_free'[f], tx_buf'[f], tx_seq'[f])
    BY <1>1, <1>2, <2>2 DEF TxAt
  <2>4. RxAt(a, rx_free'[f], rx_rasm'[f], rx_seq'[f], rx_seq_init'[f], rx_conf')
    <3>1. CASE LinkTxRestart
      BY <1>3, <2>2, <3>1
    <3>2. CASE LinkRxRestart
      <4>1. a.pos = 0 /\ rx_free'[f] /\ ~rx_seq_init'[f]
        BY <1>1, <1>2, <2>2, <3>2 DEF RxAt, BufHolds, SeqFits
      <4> QED
        BY <4>1 DEF RxAt, BufHolds, SeqFits
    <3> QED
      BY <3>1, <3>2
  <2> QED
    BY <1>1, <2>1, <2>3, <2>4 DEF Carries
<1> QED
  BY <1>1, <1>4, <1>5 DEF LosslessInv

LEMMA LosslessNext ==
  ASSUME NoneAsVlan, LinkBase, LosslessInv, [LinkNext]_all_vars
  PROVE  LosslessInv'
<1>1. CASE LinkLose
  BY <1>1 DEF LinkLose, LosslessInv
<1>2. CASE UNCHANGED all_vars
  BY <1>2 DEF all_vars, tx_vars, rx_vars, link_vars, LosslessInv, Carries
<1> QED
  BY <1>1, <1>2, EncapLossless, SendLossless, ReceiveLossless, RestartLossless DEF LinkNext

LEMMA LosslessHolds ==
  ASSUME LinkBase, LosslessInv
  PROVE  NothingLostUndisturbed
<1> SUFFICES ASSUME ~disturbed PROVE NothingLostUndisturbed
  BY DEF NothingLostUndisturbed
<1>1. rx_ret.status # "C_ERROR"
  BY DEF LosslessInv
<1>2. ASSUME NEW f \in FragIds
      PROVE  /\ tx_free[f] /\ chan = << >> => link_got[f] = link_sent[f]
             /\ \A i \in DOMAIN link_got[f] : link_got[f][i] = link_sent[f][i]
  <2> DEFINE s == link_sent[f]
             g == link_got[f]
  <2>1. PICK a, b : Carries(f, a, b)
    BY DEF LosslessInv
  <2>2. /\ g \in Seq(SduItems) /\ s \in Seq(SduItems) /\ a.n = Len(g)
        /\ \A i \in 1 .. Len(g) : g[i] = s[i]
        /\ Stream(f, chan, a, b, s) /\ TxAt(f, b, s, tx_free[f], tx_buf[f], tx_seq[f])
    BY <2>1 DEF Carries, GotAt, LinkBase, Ends, SentOK
  <2> HIDE DEF s, g
  <2>3. DOMAIN g = 1 .. Len(g) /\ DOMAIN s = 1 .. Len(s) /\ Len(g) \in Nat
    BY <2>2
  <2>4. ASSUME tx_free[f], chan = << >> PROVE g = s
    <3>1. a = b
      BY <2>2, <2>4, StreamDone
    <3>2. Len(g) = Len(s)
      BY <2>2, <2>4, <3>1 DEF TxAt
    <3> QED
      BY <2>2, <2>3, <3>2
  <2> QED
    BY <2>2, <2>3, <2>4 DEF s, g
<1> QED
  BY <1>1, <1>2 DEF NothingLostUndisturbed

-----------------------------------------------------------------------------
(* After losses *)

\* p may come after the cursor c when SDUs may be cut short, but PPDUs keep their order.
Joins(p, c) ==
  IF p.type = "START" THEN p.al.trailer.kind = "seq" => p.al.trailer.val \in {c.seq, 0}
                      ELSE p.lo = c.pos /\ p.al = c.al

Goes(f, p, c, d) ==
  IF p.type # "COMP" /\ p.al.frag = f THEN Joins(p, c) /\ d = After(p, c) ELSE d = c

\* The fragments among the PPDUs ps take the cursor of f from a to b.
Line(f, ps, a, b) ==
  \E c : /\ c[0] = a /\ c[Len(ps)] = b
         /\ \A i \in 1 .. Len(ps) : Goes(f, ps[i], c[i - 1], c[i])

\* A context of the transmitter with the cursor b: a fragment that it sends next joins.
TxLine(f, b, free, buf, seq) ==
  /\ seq \in {b.seq, 0}
  /\ ~free /\ frag_buf_is_fragmented(buf) => b.al = alpdu_of(buf, f) /\ b.pos = pos_of(buf)

\* A context of the receiver with the cursor a.  After one ALPDU in full it is free
\* between ALPDUs, and has all that has gone by of the one it works on; after two, the
\* sequence number that it expects is the next one.
RxLine(a, run, open, free, buf, seq, init, conf) ==
  run >= 1 =>
    /\ IF open THEN ~free /\ BufHolds(a, FALSE, buf, conf) ELSE free /\ a.pos = 0
    /\ ~use_alpdu_crc(conf) =>
         /\ open => a.seq = rle_ctx_incr_seq_nb(a.al.trailer.val)
         /\ run >= 2 => init /\ IF open THEN a.al.trailer.val \in {seq, 0} ELSE a.seq = seq

InLine(f, a, b) ==
  /\ Line(f, chan, a, b)
  /\ TxLine(f, b, tx_free[f], tx_buf[f], tx_seq[f])
  /\ RxLine(a, link_run[f], link_open[f], rx_free[f], rx_rasm[f], rx_seq[f], rx_seq_init[f],
            rx_conf)

RunInv ==
  /\ link_run \in [FragIds -> Nat] /\ link_open \in [FragIds -> BOOLEAN]
  /\ \A f \in FragIds : \E a, b : InLine(f, a, b)

LEMMA LineEmpty ==
  ASSUME NEW f, NEW a
  PROVE  Line(f, << >>, a, a)
<1> DEFINE c == [i \in {0} |-> a]
<1>1. c[0] = a /\ Len(<< >>) = 0
  OBVIOUS
<1> HIDE DEF c
<1> QED
  BY <1>1 DEF Line

LEMMA LineAppend ==
  ASSUME NEW f, NEW ps \in Seq(Ppdu), NEW a, NEW b, Line(f, ps, a, b),
         NEW p \in Ppdu, NEW d, Goes(f, p, b, d)
  PROVE  Line(f, Append(ps, p), a, d)
<1>1. PICK c : /\ c[0] = a /\ c[Len(ps)] = b
               /\ \A i \in 1 .. Len(ps) : Goes(f, ps[i], c[i - 1], c[i])
  BY DEF Line
<1> DEFINE n == Len(ps)
           e == [i \in 0 .. n + 1 |-> IF i = n + 1 THEN d ELSE c[i]]
           qs == Append(ps, p)
<1>2. /\ n \in Nat /\ Len(qs) = n + 1 /\ qs[n + 1] = p
      /\ \A i \in 1 .. n : qs[i] = ps[i]
  BY Appended
<1>3. /\ e[n + 1] = d /\ e[0] = a /\ e[n] = b
      /\ \A i \in 1 .. n : e[i - 1] = c[i - 1] /\ e[i] = c[i]
  BY <1>1, <1>2
<1> HIDE DEF e, qs, n
<1>4. ASSUME NEW i \in 1 .. Len(qs) PROVE Goes(f, qs[i], e[i - 1], e[i])
  <2>1. CASE i = n + 1
    <3>1. i - 1 = n
      BY <1>2, <2>1
    <3> QED
      BY <1>2, <1>3, <2>1, <3>1
  <2>2. CASE i \in 1 .. n
    BY <1>1, <1>2, <1>3, <2>2 DEF n
  <2> QED
    BY <1>2, <2>1, <2>2
<1>5. e[0] = a /\ e[Len(qs)] = d
  BY <1>2, <1>3
<1> QED
  BY <1>4, <1>5 DEF Line, qs

LEMMA LineTail ==
  ASSUME NEW f, NEW ps \in Seq(Ppdu), ps # << >>, NEW a, NEW b, Line(f, ps, a, b)
  PROVE  \E m : Goes(f, Head(ps), a, m) /\ Line(f, Tail(ps), m, b)
<1>1. PICK c : /\ c[0] = a /\ c[Len(ps)] = b
               /\ \A i \in 1 .. Len(ps) : Goes(f, ps[i], c[i - 1], c[i])
  BY DEF Line
<1> DEFINE n == Len(ps)
           qs == Tail(ps)
           e == [i \in 0 .. n - 1 |-> c[i + 1]]
<1>2. /\ n \in Nat \ {0} /\ Len(qs) = n - 1 /\ Head(ps) = ps[1]
      /\ \A i \in 1 .. n - 1 : qs[i] = ps[i + 1]
  BY Received
<1>3. /\ e[0] = c[1] /\ e[n - 1] = c[n]
      /\ \A i \in 1 .. n - 1 : e[i - 1] = c[i] /\ e[i] = c[i + 1]
  <2>1. 0 \in 0 .. n - 1 /\ n - 1 \in 0 .. n - 1 /\ (n - 1) + 1 = n /\ 0 + 1 = 1
    BY <1>2
  <2>2. \A i \in 1 .. n - 1 : i - 1 \in 0 .. n - 1 /\ i \in 0 .. n - 1 /\ (i - 1) + 1 = i
    BY <1>2
  <2> QED
    BY <2>1, <2>2
<1>4. Goes(f, Head(ps), a, c[1])
  <2>1. 1 \in 1 .. Len(ps) /\ 1 - 1 = 0
    BY <1>2
  <2> QED
    BY <1>1, <1>2, <2>1
<1> HIDE DEF e, qs, n
<1>5. ASSUME NEW i \in 1 .. Len(qs) PROVE Goes(f, qs[i], e[i - 1], e[i])
  <2>1. i \in 1 .. n - 1 /\ i + 1 \in 1 .. Len(ps) /\ (i + 1) - 1 = i
    BY <1>2 DEF n
  <2> QED
    BY <1>1, <1>2, <1>3, <2>1
<1>6. Line(f, qs, c[1], b)
  <2>1. e[0] = c[1] /\ e[Len(qs)] = b
    BY <1>1, <1>2, <1>3 DEF n
  <2> QED
    BY <1>5, <2>1 DEF Line
<1> QED
  BY <1>4, <1>6 DEF qs

LEMMA RunInit == LinkInit => RunInv
<1> SUFFICES ASSUME LinkInit PROVE RunInv
  OBVIOUS
<1> DEFINE c == [n |-> 0, pos |-> 0, al |-> 0, seq |-> 0]
<1>1. ASSUME NEW f \in FragIds PROVE InLine(f, c, c)
  <2>1. /\ tx_free[f] /\ tx_seq[f] = 0 /\ link_run[f] = 0 /\ chan = << >> /\ c.seq = 0
    BY DEF LinkInit, TxInit
  <2> HIDE DEF c
  <2>2. RxLine(c, 0, link_open[f], rx_free[f], rx_rasm[f], rx_seq[f], rx_seq_init[f], rx_conf)
    BY DEF RxLine
  <2>3. TxLine(f, c, tx_free[f], tx_buf[f], tx_seq[f])
    BY <2>1 DEF TxLine
  <2> QED
    BY <2>1, <2>2, <2>3, LineEmpty DEF InLine
<1> HIDE DEF c
<1> QED
  BY <1>1 DEF RunInv, LinkInit

\* What a step of the transmitter, which leaves the receiver alone, must keep.
LEMMA TxRun ==
  ASSUME RunInv, UNCHANGED <<rx_conf, rx_free, rx_rasm, rx_seq, rx_seq_init>>,
         UNCHANGED <<link_run, link_open>>,
         \A f \in FragIds : \A a, b :
           Line(f, chan, a, b) /\ TxLine(f, b, tx_free[f], tx_buf[f], tx_seq[f])
             => \E d : Line(f, chan', a, d) /\ TxLine(f, d, tx_free'[f], tx_buf'[f], tx_seq'[f])
  PROVE  RunInv'
<1>1. ASSUME NEW f \in FragIds PROVE \E a, b : InLine(f, a, b)'
  <2>1. PICK a, b : InLine(f, a, b)
    BY DEF RunInv
  <2>2. PICK d : Line(f, chan', a, d) /\ TxLine(f, d, tx_free'[f], tx_buf'[f], tx_seq'[f])
    BY <2>1 DEF InLine
  <2>3. InLine(f, a, d)'
    BY <2>1, <2>2 DEF InLine
  <2> QED
    BY <2>3
<1> QED
  BY <1>1 DEF RunInv

LEMMA EncapRun ==
  ASSUME LinkBase, RunInv, NEW f \in FragIds, NEW sdu \in TxSdus, LinkEncap(f, sdu)
  PROVE  RunInv'
<1>1. /\ UNCHANGED <<rx_conf, rx_free, rx_rasm, rx_seq, rx_seq_init>>
      /\ UNCHANGED <<link_run, link_open>>
  BY DEF LinkEncap, rx_vars
<1>2. UNCHANGED <<chan, tx_seq>> /\ (Accepts(f, sdu) \/ Refuses(f))
  BY EncapBase
<1>3. tx_free \in [FragIds -> BOOLEAN]
  BY DEF LinkBase, Ends, TxInv, TxTypeOK
<1>4. ASSUME NEW g \in FragIds, NEW b, TxLine(g, b, tx_free[g], tx_buf[g], tx_seq[g])
      PROVE  TxLine(g, b, tx_free'[g], tx_buf'[g], tx_seq'[g])
  <2>1. CASE Accepts(f, sdu)
    <3>1. /\ ~frag_buf_is_fragmented(tx_buf'[f])
          /\ g # f => tx_free'[g] = tx_free[g] /\ tx_buf'[g] = tx_buf[g]
      BY <1>3, <2>1 DEF Accepts
    <3> QED
      BY <1>2, <1>4, <3>1 DEF TxLine
  <2>2. CASE Refuses(f)
    <3>1. tx_buf' = tx_buf /\ (~tx_free'[g] => ~tx_free[g])
      BY <1>3, <2>2 DEF Refuses
    <3> QED
      BY <1>2, <1>4, <3>1 DEF TxLine
  <2> QED
    BY <1>2, <2>1, <2>2
<1> QED
  BY <1>1, <1>2, <1>4, TxRun

\* What rle_fragment cuts joins the line.
LEMMA SendJoins ==
  ASSUME NEW f \in FragIds, NEW p, Sends(f, p), p \in Ppdu, tx_seq \in [FragIds -> Nat],
         tx_free \in [FragIds -> BOOLEAN], NEW g \in FragIds,
         NEW b, TxLine(g, b, tx_free[g], tx_buf[g], tx_seq[g])
  PROVE  \E d : Goes(g, p, b, d) /\ TxLine(g, d, tx_free'[g], tx_buf'[g], tx_seq'[g])
<1>1. /\ ~tx_free[f] /\ PpduOK(p, tx_conf)
      /\ p.al = alpdu_of(tx_buf'[f], f) /\ p.lo = pos_of(tx_buf[f])
      /\ p.hi = pos_of(tx_buf'[f])
      /\ p.type \in {"COMP", "START"} <=> ~frag_buf_is_fragmented(tx_buf[f])
      /\ p.type \in {"CONT", "END"} => p.al = alpdu_of(tx_buf[f], f)
      /\ tx_free' = [tx_free EXCEPT ![f] = p.type \in {"COMP", "END"}]
      /\ \A h \in FragIds \ {f} : tx_buf'[h] = tx_buf[h]
  BY DEF Sends
<1>2. IF p.type = "START" /\ ~use_alpdu_crc(tx_conf)
        THEN /\ p.al.trailer.val = tx_seq[f]
             /\ tx_seq' = [tx_seq EXCEPT ![f] = rle_ctx_incr_seq_nb(@)]
        ELSE tx_seq' = tx_seq
  BY DEF Sends
<1>3. p.type \in {"COMP", "START", "CONT", "END"} /\ p.al.frag = f
  BY <1>1 DEF Ppdu, PpduTypes, alpdu_of
<1>4. CASE g # f
  <2>1. tx_free'[g] = tx_free[g] /\ tx_buf'[g] = tx_buf[g] /\ tx_seq'[g] = tx_seq[g]
    BY <1>1, <1>2, <1>4
  <2> QED
    BY <1>3, <1>4, <2>1 DEF Goes
<1>5. CASE g = f /\ p.type = "COMP"
  <2>1. tx_free'[g] /\ tx_seq' = tx_seq
    BY <1>1, <1>2, <1>5
  <2>2. TxLine(g, b, tx_free'[g], tx_buf'[g], tx_seq'[g])
    BY <2>1 DEF TxLine
  <2> QED
    BY <1>5, <2>2 DEF Goes
<1>6. CASE g = f /\ p.type # "COMP"
  <2> DEFINE d == After(p, b)
  <2>1. /\ d.al = p.al /\ d.pos = (IF Final(p) THEN 0 ELSE p.hi)
        /\ d.seq = (IF p.type = "START" /\ p.al.trailer.kind = "seq"
                      THEN rle_ctx_incr_seq_nb(p.al.trailer.val) ELSE b.seq)
    BY DEF After
  <2> HIDE DEF d
  <2>2. p.al.trailer.kind = "seq" <=> ~use_alpdu_crc(tx_conf)
    BY <1>1, <1>6 DEF PpduOK, TrailerOK
  <2>3. /\ tx_seq[f] \in {b.seq, 0}
        /\ frag_buf_is_fragmented(tx_buf[f]) =>
             b.al = alpdu_of(tx_buf[f], f) /\ b.pos = pos_of(tx_buf[f])
    BY <1>1, <1>6 DEF TxLine
  <2>4. Joins(p, b)
    BY <1>1, <1>2, <1>3, <1>6, <2>2, <2>3 DEF Joins
  <2>5. tx_seq'[f] \in {d.seq, 0}
    <3>1. CASE p.type = "START" /\ ~use_alpdu_crc(tx_conf)
      BY <1>2, <2>1, <2>2, <3>1
    <3>2. CASE ~(p.type = "START" /\ ~use_alpdu_crc(tx_conf))
      BY <1>2, <2>1, <2>2, <2>3, <3>2
    <3> QED
      BY <3>1, <3>2
  <2>6. ~tx_free'[f] => d.al = alpdu_of(tx_buf'[f], f) /\ d.pos = pos_of(tx_buf'[f])
    BY <1>1, <2>1 DEF Final
  <2> QED
    BY <1>3, <1>6, <2>4, <2>5, <2>6 DEF Goes, TxLine, d
<1> QED
  BY <1>4, <1>5, <1>6

LEMMA SendRun ==
  ASSUME LinkBase, RunInv, NEW f \in FragIds, NEW burst \in Bursts, LinkSend(f, burst)
  PROVE  RunInv'
<1>1. /\ UNCHANGED <<rx_conf, rx_free, rx_rasm, rx_seq, rx_seq_init>>
      /\ UNCHANGED <<link_run, link_open>>
  BY DEF LinkSend, rx_vars
<1>2. \/ SendsNothing /\ chan' = chan
      \/ Sends(f, tx_ppdu') /\ tx_ppdu' \in Ppdu /\ chan' = Append(chan, tx_ppdu')
  BY SendBase
<1>3. /\ tx_free \in [FragIds -> BOOLEAN] /\ tx_seq \in [FragIds -> Nat] /\ chan \in Seq(Ppdu)
  BY LimitsAssumption DEF LinkBase, Ends, TxInv, TxTypeOK
<1>4. ASSUME NEW g \in FragIds, NEW a, NEW b, Line(g, chan, a, b),
             TxLine(g, b, tx_free[g], tx_buf[g], tx_seq[g])
      PROVE  \E d : Line(g, chan', a, d) /\ TxLine(g, d, tx_free'[g], tx_buf'[g], tx_seq'[g])
  <2>1. CASE SendsNothing /\ chan' = chan
    <3>1. /\ tx_free'[g] = tx_free[g] /\ tx_seq'[g] = tx_seq[g]
          /\ alpdu_of(tx_buf'[g], g) = alpdu_of(tx_buf[g], g)
          /\ pos_of(tx_buf'[g]) = pos_of(tx_buf[g])
          /\ frag_buf_is_fragmented(tx_buf'[g]) <=> frag_buf_is_fragmented(tx_buf[g])
      BY <2>1 DEF SendsNothing
    <3>2. TxLine(g, b, tx_free'[g], tx_buf'[g], tx_seq'[g])
      BY <1>4, <3>1 DEF TxLine
    <3> QED
      BY <1>4, <2>1, <3>2
  <2>2. CASE Sends(f, tx_ppdu') /\ tx_ppdu' \in Ppdu /\ chan' = Append(chan, tx_ppdu')
    <3> DEFINE p == tx_ppdu'
    <3>1. Sends(f, p) /\ p \in Ppdu /\ chan' = Append(chan, p)
      BY <2>2
    <3> HIDE DEF p
    <3>2. PICK d : Goes(g, p, b, d) /\ TxLine(g, d, tx_free'[g], tx_buf'[g], tx_seq'[g])
      BY <1>3, <1>4, <3>1, SendJoins
    <3>3. Line(g, Append(chan, p), a, d)
      BY <1>3, <1>4, <3>1, <3>2, LineAppend
    <3> QED
      BY <3>1, <3>2, <3>3
  <2> QED
    BY <1>2, <2>1, <2>2
<1> QED
  BY <1>1, <1>4, TxRun

\* A PPDU touches no context but its own, a COMP PPDU none; an END PPDU frees it.
LEMMA OwnContext ==
  ASSUME RxInv, NEW p, p.type = "COMP" \/ p.frag \in RxFragIds, rle_receiver_deencap_data(p)
  PROVE  /\ p.type = "COMP" => UNCHANGED <<rx_free, rx_rasm, rx_seq, rx_seq_init>>
         /\ OthersKept(p.frag)
         /\ p.type = "END" => rx_free'[p.frag]
<1>1. /\ rx_free \in [RxFragIds -> BOOLEAN] /\ rx_rasm \in [RxFragIds -> RasmBuf]
      /\ rx_seq \in [RxFragIds -> 0 .. SeqMod - 1] /\ rx_seq_init \in [RxFragIds -> BOOLEAN]
  BY DEF RxInv, RxTypeOK
<1>2. CASE RxComp(p)
  BY <1>2 DEF RxComp, OthersKept
<1>3. CASE RxStart(p)
  <2>1. PICK b : rx_rasm' = [rx_rasm EXCEPT ![p.frag] = b]
    BY <1>3 DEF RxStart
  <2>2. /\ rx_free' = [rx_free EXCEPT ![p.frag] = FALSE] /\ UNCHANGED <<rx_seq, rx_seq_init>>
        /\ p.type = "START"
    BY <1>3 DEF RxStart
  <2> QED
    BY <1>1, <2>1, <2>2 DEF OthersKept
<1>4. CASE RxStartError(p)
  BY <1>1, <1>4 DEF RxStartError, DropOne, rle_receiver_free_context, OthersKept
<1>5. CASE RxCont(p)
  <2>1. PICK b : rx_rasm' = [rx_rasm EXCEPT ![p.frag] = b]
    BY <1>5 DEF RxCont
  <2>2. UNCHANGED <<rx_free, rx_seq, rx_seq_init>> /\ p.type = "CONT"
    BY <1>5 DEF RxCont
  <2> QED
    BY <1>1, <2>1, <2>2 DEF OthersKept
<1>6. CASE RxContError(p)
  BY <1>1, <1>6 DEF RxContError, DropOne, rle_receiver_free_context, OthersKept
<1>7. CASE RxEndFree(p)
  BY <1>1, <1>7 DEF RxEndFree, EndsWith, rle_receiver_free_context, OthersKept
<1>8. CASE RxEndRefused(p)
  BY <1>1, <1>8 DEF RxEndRefused, EndsWith, rle_receiver_free_context, OthersKept
<1>9. CASE RxEndShort(p)
  <2>1. /\ p.type = "END" /\ UNCHANGED <<rx_seq, rx_seq_init>>
        /\ rx_free' = [rx_free EXCEPT ![p.frag] = TRUE]
    BY <1>9 DEF RxEndShort, EndsWith, rle_receiver_free_context, EndAdds
  <2>2. PICK b : rx_rasm' = [rx_rasm EXCEPT ![p.frag] = b]
    BY <1>9 DEF RxEndShort, EndAdds
  <2> QED
    BY <1>1, <2>1, <2>2 DEF OthersKept
<1>10. CASE RxEndComplete(p)
  <2>1. /\ p.type = "END" /\ rx_free' = [rx_free EXCEPT ![p.frag] = TRUE]
    BY <1>10 DEF RxEndComplete, EndsWith, rle_receiver_free_context, EndAdds
  <2>2. PICK b : rx_rasm' = [rx_rasm EXCEPT ![p.frag] = b]
    BY <1>10 DEF RxEndComplete, EndAdds
  <2>3. /\ UNCHANGED rx_seq \/ \E n : rx_seq' = [rx_seq EXCEPT ![p.frag] = n]
        /\ UNCHANGED rx_seq_init \/ \E n : rx_seq_init' = [rx_seq_init EXCEPT ![p.frag] = n]
    BY <1>10 DEF RxEndComplete
  <2> QED
    BY <1>1, <2>1, <2>2, <2>3 DEF OthersKept
<1> QED
  BY <1>2, <1>3, <1>4, <1>5, <1>6, <1>7, <1>8, <1>9, <1>10 DEF rle_receiver_deencap_data

\* ALPDUs received in full, and whether one is under way, after the fragment p.
RunWith(p, run, open) ==
  IF ~open THEN run
  ELSE CASE p.type = "START" -> 0 [] p.type = "END" -> run + 1 [] OTHER -> run

OpenWith(p, open) == IF p.type \in {"START", "END"} THEN p.type = "START" ELSE open

\* The fragment p arrives where run ALPDUs have been received in full.
Joined(p, a, run, open) ==
  LET f == p.al.frag
  IN /\ RxInv /\ RxStarts /\ Taken(p) /\ p.type # "COMP" /\ Joins(p, a)
     /\ RxLine(a, run, open, rx_free[f], rx_rasm[f], rx_seq[f], rx_seq_init[f], rx_conf)

StillInLine(p, a, run, open) ==
  LET f == p.al.frag
  IN RxLine(After(p, a), RunWith(p, run, open), OpenWith(p, open),
            rx_free'[f], rx_rasm'[f], rx_seq'[f], rx_seq_init'[f], rx_conf)

LEMMA StartRun ==
  ASSUME NEW p, p.type = "START", NEW a, NEW run \in Nat, NEW open \in BOOLEAN,
         Joined(p, a, run, open)
  PROVE  StillInLine(p, a, run, open)
<1> DEFINE f == p.al.frag
           d == After(p, a)
<1>1. RunWith(p, run, open) = (IF open THEN 0 ELSE run) /\ OpenWith(p, open) = TRUE
  BY DEF RunWith, OpenWith
<1>2. CASE open \/ run = 0
  <2>1. RunWith(p, run, open) = 0
    BY <1>1, <1>2
  <2> QED
    BY <2>1 DEF StillInLine, RxLine
<1>3. CASE ~open /\ run >= 1
  <2>1. /\ rx_free[f] /\ (~use_alpdu_crc(rx_conf) /\ run >= 2 =>
                            rx_seq_init[f] /\ a.seq = rx_seq[f])
    BY <1>3 DEF Joined, RxLine
  <2>2. Added(p, d)
    BY <2>1, StartOpens DEF Joined
  <2>3. /\ rx_free'[f] = FALSE /\ BufHolds(d, FALSE, rx_rasm'[f], rx_conf)
        /\ rx_seq'[f] = rx_seq[f] /\ rx_seq_init'[f] = rx_seq_init[f]
    BY <2>2 DEF Added
  <2>4. d.al = p.al /\ (p.al.trailer.kind = "seq" =>
                          d.seq = rle_ctx_incr_seq_nb(p.al.trailer.val))
    BY DEF After
  <2>5. ~use_alpdu_crc(rx_conf) => p.al.trailer.kind = "seq"
    BY DEF Joined, Taken, PpduOK, TrailerOK
  <2>6. p.al.trailer.kind = "seq" => p.al.trailer.val \in {a.seq, 0}
    BY DEF Joined, Joins
  <2> HIDE DEF d
  <2>7. RxLine(d, run, TRUE, rx_free'[f], rx_rasm'[f], rx_seq'[f], rx_seq_init'[f], rx_conf)
    BY <2>1, <2>3, <2>4, <2>5, <2>6 DEF RxLine
  <2> QED
    BY <1>1, <1>3, <2>7 DEF StillInLine, d
<1> QED
  BY <1>2, <1>3

\* A CONT or an END PPDU never starts an ALPDU.
LEMMA NotFirst ==
  ASSUME NEW p, p.type \in {"CONT", "END"}, NEW a, NEW run \in Nat, NEW open \in BOOLEAN,
         Joined(p, a, run, open), run >= 1
  PROVE  open /\ Continues(p, a) /\ ~rx_free[p.al.frag]
<1>1. p.lo = a.pos /\ p.al = a.al
  BY DEF Joined, Joins
<1>2. p.al.hdr.len < p.lo /\ p.al.hdr.len \in 0 .. 3 /\ p.lo \in Nat
  BY PpduLengths DEF Joined, Taken, PpduOK, RxInv, RxTypeOK
<1>3. open
  <2>1. ~open => a.pos = 0
    BY DEF Joined, RxLine
  <2> QED
    BY <1>1, <1>2, <2>1
<1>4. ~rx_free[p.al.frag] /\ BufHolds(a, FALSE, rx_rasm[p.al.frag], rx_conf)
  BY <1>3 DEF Joined, RxLine
<1>5. rx_free[p.al.frag] = FALSE
  BY <1>4 DEF Joined, Taken, RxInv, RxTypeOK
<1> QED
  BY <1>1, <1>3, <1>4, <1>5 DEF Continues

LEMMA ContRun ==
  ASSUME NEW p, p.type = "CONT", NEW a, NEW run \in Nat, NEW open \in BOOLEAN,
         Joined(p, a, run, open)
  PROVE  StillInLine(p, a, run, open)
<1> DEFINE f == p.al.frag
           d == After(p, a)
<1>1. RunWith(p, run, open) = run /\ OpenWith(p, open) = open
  BY DEF RunWith, OpenWith
<1>2. CASE run = 0
  BY <1>1, <1>2 DEF StillInLine, RxLine
<1>3. CASE run >= 1
  <2>1. open /\ Continues(p, a)
    BY <1>3, NotFirst
  <2>2. Added(p, d)
    BY <2>1, ContAdds DEF Joined
  <2>3. /\ rx_free'[f] = FALSE /\ BufHolds(d, FALSE, rx_rasm'[f], rx_conf)
        /\ rx_seq'[f] = rx_seq[f] /\ rx_seq_init'[f] = rx_seq_init[f]
    BY <2>2 DEF Added
  <2>4. d.al = a.al /\ d.seq = a.seq
    BY <2>1 DEF After, Continues
  <2>5. ~use_alpdu_crc(rx_conf) =>
          /\ a.seq = rle_ctx_incr_seq_nb(a.al.trailer.val)
          /\ run >= 2 => rx_seq_init[f] /\ a.al.trailer.val \in {rx_seq[f], 0}
    BY <1>3, <2>1 DEF Joined, RxLine
  <2> HIDE DEF d
  <2>6. RxLine(d, run, TRUE, rx_free'[f], rx_rasm'[f], rx_seq'[f], rx_seq_init'[f], rx_conf)
    BY <2>3, <2>4, <2>5 DEF RxLine
  <2> QED
    BY <1>1, <2>1, <2>6 DEF StillInLine, d
<1> QED
  BY <1>2, <1>3

\* The last PPDU of an ALPDU; the SDU is handed over from the second one on with a CRC,
\* from the third one on with a sequence number.
LEMMA EndRun ==
  ASSUME NEW p, p.type = "END", NEW a, NEW run \in Nat, NEW open \in BOOLEAN,
         Joined(p, a, run, open)
  PROVE  /\ StillInLine(p, a, run, open)
         /\ open /\ run >= (IF use_alpdu_crc(rx_conf) THEN 1 ELSE 2) =>
              rx_sdu'.some /\ rx_sdu'.whole /\ rx_sdu'.sdu = rx_sdu'.al.sdu
<1> DEFINE f == p.al.frag
           d == After(p, a)
<1>1. RunWith(p, run, open) = (IF open THEN run + 1 ELSE run) /\ OpenWith(p, open) = FALSE
  BY DEF RunWith, OpenWith
<1>2. d.pos = 0 /\ d.seq = a.seq
  BY DEF After, Final
<1>3. rx_free'[f]
  <2>1. p.frag = f /\ f \in RxFragIds /\ RxInv /\ rle_receiver_deencap_data(p)
    BY DEF Joined, Taken, PpduOK
  <2> QED
    BY <2>1, OwnContext
<1> HIDE DEF d
<1>4. CASE run = 0
  <2>1. RxLine(d, 0, FALSE, rx_free'[f], rx_rasm'[f], rx_seq'[f], rx_seq_init'[f], rx_conf)
    BY DEF RxLine
  <2>2. RxLine(d, 1, FALSE, rx_free'[f], rx_rasm'[f], rx_seq'[f], rx_seq_init'[f], rx_conf)
    BY <1>2, <1>3 DEF RxLine
  <2>3. RunWith(p, run, open) \in {0, 1}
    BY <1>1, <1>4
  <2>4. StillInLine(p, a, run, open)
    BY <1>1, <2>1, <2>2, <2>3 DEF StillInLine, d
  <2>5. ~(run >= (IF use_alpdu_crc(rx_conf) THEN 1 ELSE 2))
    BY <1>4
  <2> QED
    BY <2>4, <2>5
<1>5. CASE run >= 1
  <2>1. open /\ Continues(p, a)
    BY <1>5, NotFirst
  <2>2. Completed(p)
    BY <2>1, EndCompletes DEF Joined
  <2>3. ~use_alpdu_crc(rx_conf) =>
          /\ a.seq = rle_ctx_incr_seq_nb(a.al.trailer.val)
          /\ run >= 2 => rx_seq_init[f] /\ a.al.trailer.val \in {rx_seq[f], 0}
    BY <1>5, <2>1 DEF Joined, RxLine
  <2>4. p.al = a.al
    BY <2>1 DEF Continues
  <2>5. ~use_alpdu_crc(rx_conf) => rx_seq_init'[f] /\ rx_seq'[f] = d.seq
    BY <1>2, <2>2, <2>3, <2>4 DEF Completed
  <2>6. RxLine(d, run + 1, FALSE, rx_free'[f], rx_rasm'[f], rx_seq'[f], rx_seq_init'[f], rx_conf)
    BY <1>2, <1>3, <2>5 DEF RxLine
  <2>7. ASSUME run >= (IF use_alpdu_crc(rx_conf) THEN 1 ELSE 2)
        PROVE  rx_sdu'.some /\ rx_sdu'.whole /\ rx_sdu'.sdu = rx_sdu'.al.sdu
    <3>1. TrailerFits(p)
      BY <2>3, <2>4, <2>7 DEF TrailerFits
    <3> QED
      BY <2>2, <3>1 DEF Completed
  <2> QED
    BY <1>1, <2>1, <2>6, <2>7 DEF StillInLine, d
<1> QED
  BY <1>4, <1>5

\* A step that completes the second ALPDU in a row, the third with sequence numbers, or a
\* later one hands its SDU over.
HandsOverRun ==
  \A f \in FragIds :
    /\ link_run'[f] > link_run[f]
    /\ link_run'[f] >= (IF use_alpdu_crc(tx_conf) THEN 2 ELSE 3)
    => rx_sdu'.some /\ rx_sdu'.whole /\ rx_sdu'.sdu = rx_sdu'.al.sdu

\* The oldest PPDU leaves the link.
LEMMA LeavesLine ==
  ASSUME LinkBase, RunInv, chan # << >>, chan' = Tail(chan), NEW f \in FragIds
  PROVE  \E a, m, b : /\ InLine(f, a, b) /\ Goes(f, Head(chan), a, m) /\ Line(f, chan', m, b)
<1>1. PICK a, b : InLine(f, a, b)
  BY DEF RunInv
<1>2. Line(f, chan, a, b) /\ chan \in Seq(Ppdu)
  BY <1>1 DEF InLine, LinkBase
<1>3. \E m : Goes(f, Head(chan), a, m) /\ Line(f, Tail(chan), m, b)
  BY <1>2, LineTail
<1> QED
  BY <1>1, <1>3

LEMMA ReceiveRun ==
  ASSUME NoneAsVlan, LinkBase, RunInv, LinkReceive
  PROVE  RunInv' /\ HandsOverRun
<1> DEFINE p == Head(chan)
           h == p.al.frag
<1>1. /\ chan # << >> /\ chan' = Tail(chan) /\ rle_receiver_deencap_data(p)
      /\ link_run' = run_after(p) /\ link_open' = open_after(p)
  BY DEF LinkReceive
<1>2. /\ p \in Ppdu /\ h \in FragIds /\ p.al.sdu \in TxSdus /\ PpduOK(p, rx_conf) /\ Arrives(p)
  BY <1>1, HeadSent, SentPpdu DEF LinkBase
<1>3. /\ RxInv /\ RxStarts /\ rx_conf = tx_conf /\ tx_conf \in TxConfs /\ RxFragIds = FragIds
  BY DEF LinkBase, Ends
<1>4. /\ UNCHANGED <<tx_free, tx_buf, tx_seq>> /\ rx_conf' = rx_conf
  BY ReceiveBase DEF LinkBase, Ends
<1>5. link_run \in [FragIds -> Nat] /\ link_open \in [FragIds -> BOOLEAN]
  BY DEF RunInv
<1>6. ASSUME NEW f \in FragIds
      PROVE  \E a, m, b : /\ InLine(f, a, b) /\ Goes(f, p, a, m) /\ Line(f, chan', m, b)
  BY <1>1, LeavesLine
<1>7. p.type \in {"COMP", "START", "CONT", "END"}
  BY <1>2 DEF Ppdu, PpduTypes
<1>8. p.type # "COMP" => p.frag = h
  BY <1>2 DEF PpduOK
<1> HIDE DEF p
<1>9. CASE p.type = "COMP"
  <2>1. /\ UNCHANGED <<link_run, link_open>>
        /\ UNCHANGED <<rx_free, rx_rasm, rx_seq, rx_seq_init>>
    BY <1>1, <1>3, <1>9, OwnContext DEF run_after, open_after
  <2>2. ASSUME NEW f \in FragIds PROVE \E a, b : InLine(f, a, b)'
    <3>1. PICK a, m, b : InLine(f, a, b) /\ Goes(f, p, a, m) /\ Line(f, chan', m, b)
      BY <1>6
    <3>2. m = a
      BY <1>9, <3>1 DEF Goes
    <3>3. InLine(f, a, b)'
      BY <1>4, <2>1, <3>1, <3>2 DEF InLine
    <3> QED
      BY <3>3
  <2>3. HandsOverRun
    BY <1>5, <2>1 DEF HandsOverRun
  <2> QED
    BY <1>5, <2>1, <2>2, <2>3 DEF RunInv
<1>10. CASE p.type # "COMP"
  <2> DEFINE run == link_run[h]
             open == link_open[h]
  <2>1. Taken(p) /\ OthersKept(h)
    <3>1. ~OmittedAsVlan(p.al.sdu, rx_conf)
      BY <1>2, <1>3 DEF NoneAsVlan
    <3> QED
      BY <1>1, <1>2, <1>3, <1>8, <1>10, <3>1, OwnContext DEF Taken
  <2>2. run \in Nat /\ open \in BOOLEAN
    BY <1>2, <1>5
  <2>3. /\ link_run'[h] = RunWith(p, run, open) /\ link_open'[h] = OpenWith(p, open)
        /\ \A g \in FragIds \ {h} : link_run'[g] = link_run[g] /\ link_open'[g] = link_open[g]
        /\ link_run' \in [FragIds -> Nat] /\ link_open' \in [FragIds -> BOOLEAN]
    <3>1. CASE p.type = "START"
      <4>1. /\ RunWith(p, run, open) = (IF open THEN 0 ELSE run) /\ OpenWith(p, open) = TRUE
        BY <3>1 DEF RunWith, OpenWith
      <4>2. /\ link_run' = IF open THEN [link_run EXCEPT ![h] = 0] ELSE link_run
            /\ link_open' = [link_open EXCEPT ![h] = TRUE]
        BY <1>1, <1>8, <3>1 DEF run_after, open_after
      <4> QED
        BY <1>2, <1>5, <2>2, <4>1, <4>2
    <3>2. CASE p.type = "CONT"
      <4>1. /\ RunWith(p, run, open) = run /\ OpenWith(p, open) = open
        BY <3>2 DEF RunWith, OpenWith
      <4>2. /\ link_run' = link_run /\ link_open' = link_open
        BY <1>1, <1>8, <3>2 DEF run_after, open_after
      <4> QED
        BY <1>2, <1>5, <2>2, <4>1, <4>2
    <3>3. CASE p.type = "END"
      <4>1. /\ RunWith(p, run, open) = (IF open THEN run + 1 ELSE run)
            /\ OpenWith(p, open) = FALSE
        BY <3>3 DEF RunWith, OpenWith
      <4>2. /\ link_run' = IF open THEN [link_run EXCEPT ![h] = run + 1] ELSE link_run
            /\ link_open' = [link_open EXCEPT ![h] = FALSE]
        BY <1>1, <1>8, <3>3 DEF run_after, open_after
      <4>3. /\ link_open'[h] = FALSE /\ link_open' \in [FragIds -> BOOLEAN]
            /\ \A g \in FragIds \ {h} : link_open'[g] = link_open[g]
        BY <1>2, <1>5, <4>2
      <4>4. run + 1 \in Nat /\ run = link_run[h]
        BY <2>2
      <4> DEFINE n == run + 1
      <4> HIDE DEF run, n
      <4>5. /\ link_run'[h] = (IF open THEN n ELSE run) /\ link_run' \in [FragIds -> Nat]
            /\ \A g \in FragIds \ {h} : link_run'[g] = link_run[g]
        BY <1>2, <1>5, <4>2, <4>4 DEF n
      <4> QED
        BY <4>1, <4>3, <4>5 DEF n
    <3> QED
      BY <1>7, <1>10, <3>1, <3>2, <3>3
  <2>4. ASSUME NEW a, NEW m, NEW b, InLine(h, a, b), Goes(h, p, a, m)
        PROVE  Joined(p, a, run, open) /\ m = After(p, a)
    BY <1>3, <1>10, <2>1, <2>4 DEF Goes, InLine, Joined
  <2> HIDE DEF run, open
  <2>5. ASSUME NEW a, Joined(p, a, run, open)
        PROVE  /\ StillInLine(p, a, run, open)
               /\ p.type = "END" /\ open /\ run >= (IF use_alpdu_crc(rx_conf) THEN 1 ELSE 2) =>
                    rx_sdu'.some /\ rx_sdu'.whole /\ rx_sdu'.sdu = rx_sdu'.al.sdu
    BY <1>7, <1>10, <2>2, <2>5, StartRun, ContRun, EndRun
  <2>6. PICK e : Joined(p, e, run, open)
    BY <1>2, <1>6, <2>4
  <2> HIDE DEF h
  <2>7. ASSUME NEW f \in FragIds PROVE \E a, b : InLine(f, a, b)'
    <3>1. PICK a, m, b : InLine(f, a, b) /\ Goes(f, p, a, m) /\ Line(f, chan', m, b)
      BY <1>6
    <3>2. TxLine(f, b, tx_free'[f], tx_buf'[f], tx_seq'[f])
      BY <1>4, <3>1 DEF InLine
    <3>3. CASE f = h
      <4>1. StillInLine(p, a, run, open) /\ m = After(p, a)
        BY <2>4, <2>5, <3>1, <3>3
      <4>2. RxLine(m, link_run'[f], link_open'[f], rx_free'[f], rx_rasm'[f], rx_seq'[f],
                   rx_seq_init'[f], rx_conf')
        BY <1>4, <2>3, <3>3, <4>1 DEF StillInLine, h
      <4>3. InLine(f, m, b)'
        BY <3>1, <3>2, <4>2 DEF InLine
      <4> QED
        BY <4>3
    <3>4. CASE f # h
      <4>1. m = a
        BY <3>1, <3>4 DEF Goes, h
      <4>2. link_run'[f] = link_run[f] /\ link_open'[f] = link_open[f]
        BY <2>3, <3>4
      <4>3. /\ rx_free'[f] = rx_free[f] /\ rx_rasm'[f] = rx_rasm[f]
            /\ rx_seq'[f] = rx_seq[f] /\ rx_seq_init'[f] = rx_seq_init[f]
        BY <1>3, <2>1, <3>4 DEF OthersKept
      <4>4. InLine(f, m, b)'
        BY <1>4, <3>1, <3>2, <4>1, <4>2, <4>3 DEF InLine
      <4> QED
        BY <4>4
    <3> QED
      BY <3>3, <3>4
  <2>8. HandsOverRun
    <3> SUFFICES ASSUME NEW f \in FragIds, link_run'[f] > link_run[f],
                        link_run'[f] >= (IF use_alpdu_crc(tx_conf) THEN 2 ELSE 3)
                 PROVE  rx_sdu'.some /\ rx_sdu'.whole /\ rx_sdu'.sdu = rx_sdu'.al.sdu
      BY DEF HandsOverRun
    <3>1. f = h
      BY <1>5, <2>3
    <3>2. link_run'[f] = RunWith(p, run, open) /\ link_run[f] = run
      BY <1>2, <1>5, <2>3, <3>1 DEF run
    <3>3. p.type = "END" /\ open /\ RunWith(p, run, open) = run + 1
      BY <2>2, <3>2 DEF RunWith
    <3>4. run >= (IF use_alpdu_crc(rx_conf) THEN 1 ELSE 2)
      <4>1. CASE use_alpdu_crc(rx_conf)
        <5>1. run + 1 >= 2
          BY <1>3, <3>2, <3>3, <4>1
        <5> QED
          BY <2>2, <4>1, <5>1
      <4>2. CASE ~use_alpdu_crc(rx_conf)
        <5>1. run + 1 >= 3
          BY <1>3, <3>2, <3>3, <4>2
        <5> QED
          BY <2>2, <4>2, <5>1
      <4> QED
        BY <4>1, <4>2
    <3> QED
      BY <2>5, <2>6, <3>3, <3>4
  <2> QED
    BY <2>3, <2>7, <2>8 DEF RunInv
<1> QED
  BY <1>9, <1>10

LEMMA LoseRun ==
  ASSUME LinkBase, RunInv, LinkLose
  PROVE  RunInv' /\ HandsOverRun
<1> DEFINE p == Head(chan)
<1>1. /\ chan # << >> /\ chan' = Tail(chan) /\ UNCHANGED tx_vars /\ UNCHANGED rx_vars
      /\ IF p.type = "COMP" THEN UNCHANGED <<link_run, link_open>>
         ELSE /\ link_run' = [link_run EXCEPT ![p.frag] = 0]
              /\ link_open' = [link_open EXCEPT ![p.frag] = FALSE]
  BY DEF LinkLose
<1>2. p.type # "COMP" => p.frag = p.al.frag
  BY <1>1, HeadSent DEF Sent, PpduOK
<1>3. link_run \in [FragIds -> Nat] /\ link_open \in [FragIds -> BOOLEAN]
  BY DEF RunInv
<1>4. ASSUME NEW f \in FragIds
      PROVE  \E a, m, b : /\ InLine(f, a, b) /\ Goes(f, p, a, m) /\ Line(f, chan', m, b)
  BY <1>1, LeavesLine
<1> HIDE DEF p
<1>5. /\ UNCHANGED <<tx_free, tx_buf, tx_seq>>
      /\ UNCHANGED <<rx_conf, rx_free, rx_rasm, rx_seq, rx_seq_init>>
  BY <1>1 DEF tx_vars, rx_vars
<1>6. ASSUME NEW f \in FragIds PROVE \E a, b : InLine(f, a, b)'
  <2>1. PICK a, m, b : InLine(f, a, b) /\ Goes(f, p, a, m) /\ Line(f, chan', m, b)
    BY <1>4
  <2>2. RxLine(m, link_run'[f], link_open'[f], rx_free[f], rx_rasm[f], rx_seq[f],
               rx_seq_init[f], rx_conf)
    <3>1. CASE p.type # "COMP" /\ p.al.frag = f
      <4>1. link_run'[f] = 0
        BY <1>1, <1>2, <1>3, <3>1
      <4> QED
        BY <4>1 DEF RxLine
    <3>2. CASE ~(p.type # "COMP" /\ p.al.frag = f)
      <4>1. m = a
        BY <2>1, <3>2 DEF Goes
      <4>2. link_run'[f] = link_run[f] /\ link_open'[f] = link_open[f]
        BY <1>1, <1>2, <1>3, <3>2
      <4> QED
        BY <2>1, <4>1, <4>2 DEF InLine
    <3> QED
      BY <3>1, <3>2
  <2>3. InLine(f, m, b)'
    BY <1>5, <2>1, <2>2 DEF InLine
  <2> QED
    BY <2>3
<1>7. /\ link_run' \in [FragIds -> Nat] /\ link_open' \in [FragIds -> BOOLEAN]
      /\ \A f \in FragIds : link_run'[f] = link_run[f] \/ link_run'[f] = 0
  <2>1. CASE p.type = "COMP"
    BY <1>1, <1>3, <2>1
  <2>2. CASE p.type # "COMP"
    <3>1. /\ link_run' = [link_run EXCEPT ![p.frag] = 0]
          /\ link_open' = [link_open EXCEPT ![p.frag] = FALSE]
      BY <1>1, <2>2
    <3> QED
      BY <1>3, <3>1
  <2> QED
    BY <2>1, <2>2
<1>8. HandsOverRun
  <2>1. \A f \in FragIds : ~(link_run'[f] > link_run[f])
    BY <1>3, <1>7
  <2> QED
    BY <2>1 DEF HandsOverRun
<1> QED
  BY <1>6, <1>7, <1>8 DEF RunInv

LEMMA RestartRun ==
  ASSUME LinkBase, RunInv, LinkTxRestart \/ LinkRxRestart
  PROVE  RunInv'
<1>1. CASE LinkTxRestart
  <2>1. /\ UNCHANGED <<rx_conf, rx_free, rx_rasm, rx_seq, rx_seq_init>>
        /\ UNCHANGED <<link_run, link_open>>
    BY <1>1 DEF LinkTxRestart, rx_vars
  <2>2. chan' = chan /\ \A f \in FragIds : tx_free'[f] /\ tx_seq'[f] = 0
    BY <1>1, RestartBase
  <2>3. ASSUME NEW f \in FragIds, NEW b PROVE TxLine(f, b, tx_free'[f], tx_buf'[f], tx_seq'[f])
    BY <2>2 DEF TxLine
  <2> QED
    BY <2>1, <2>2, <2>3, TxRun
<1>2. CASE LinkRxRestart
  <2>1. /\ UNCHANGED <<tx_free, tx_buf, tx_seq, chan>>
        /\ link_run' = [f \in FragIds |-> 0] /\ link_open' = [f \in FragIds |-> FALSE]
    BY <1>2 DEF LinkRxRestart, tx_vars
  <2>2. ASSUME NEW f \in FragIds PROVE \E a, b : InLine(f, a, b)'
    <3>1. PICK a, b : InLine(f, a, b)
      BY DEF RunInv
    <3>2. RxLine(a, link_run'[f], link_open'[f], rx_free'[f], rx_rasm'[f], rx_seq'[f],
                 rx_seq_init'[f], rx_conf')
      BY <2>1 DEF RxLine
    <3>3. InLine(f, a, b)'
      BY <2>1, <3>1, <3>2 DEF InLine
    <3> QED
      BY <3>3
  <2> QED
    BY <2>1, <2>2 DEF RunInv
<1> QED
  BY <1>1, <1>2

LEMMA RunNext ==
  ASSUME NoneAsVlan, LinkBase, RunInv, [LinkNext]_all_vars
  PROVE  RunInv' /\ HandsOverRun
<1>1. link_run \in [FragIds -> Nat]
  BY DEF RunInv
<1>2. ASSUME \A f \in FragIds : link_run'[f] = link_run[f] \/ link_run'[f] = 0
      PROVE  HandsOverRun
  <2>1. \A f \in FragIds : ~(link_run'[f] > link_run[f])
    BY <1>1, <1>2
  <2> QED
    BY <2>1 DEF HandsOverRun
<1>3. CASE LinkReceive \/ LinkLose
  BY <1>3, ReceiveRun, LoseRun
<1>4. CASE UNCHANGED all_vars
  <2>1. RunInv'
    BY <1>4 DEF all_vars, tx_vars, rx_vars, link_vars, RunInv, InLine
  <2> QED
    BY <1>2, <1>4, <2>1 DEF all_vars, link_vars
<1>5. CASE LinkTxRestart \/ LinkRxRestart
  BY <1>2, <1>5, RestartRun DEF LinkTxRestart, LinkRxRestart
<1>6. CASE \E f \in FragIds, sdu \in TxSdus : LinkEncap(f, sdu)
  BY <1>2, <1>6, EncapRun DEF LinkEncap
<1>7. CASE \E f \in FragIds, burst \in Bursts : LinkSend(f, burst)
  BY <1>2, <1>7, SendRun DEF LinkSend
<1> QED
  BY <1>3, <1>4, <1>5, <1>6, <1>7 DEF LinkNext

-----------------------------------------------------------------------------
(* With sequence numbers *)

\* The PPDU p is of an ALPDU before al, or of al and goes to the byte pos at most.
Behind(p, al, pos) ==
  /\ p.al.id <= al.id
  /\ p.al.id = al.id => ~Final(p) /\ p.al = al /\ p.hi <= pos

\* Bytes of an ALPDU that the buffer of a context has.
rasm_pos(b) == b.hdr_len + b.got

\* The buffer b is of an ALPDU before al, or of al with no more bytes than come before
\* pos, and these are the first ones of al if they are as many.
NotPast(b, al, pos) ==
  /\ b.start.al.id <= al.id
  /\ b.start.al.id = al.id =>
       /\ b.start.al = al /\ 0 < rasm_pos(b) /\ rasm_pos(b) <= pos
       /\ rasm_pos(b) = pos => b.whole

\* The receiver has not got to the byte pos of al yet.
Awaits(f, al, pos) ==
  link_sync[f] < al.id /\ (~rx_free[f] => NotPast(rx_rasm[f], al, pos))

\* Where the transmitter stands in a context.
TxAwaited(f) ==
  ~tx_free[f] => Awaits(f, alpdu_of(tx_buf[f], f), pos_of(tx_buf[f]))

TxAfter(p) ==
  LET f == p.al.frag
  IN ~tx_free[f] => Behind(p, alpdu_of(tx_buf[f], f), pos_of(tx_buf[f]))

\* The PPDUs of a context, then the transmitter, come one after the other, and after
\* what the receiver has seen.
PosInv ==
  /\ link_sync \in [FragIds -> Nat]
  /\ \A f \in FragIds : /\ link_sync[f] <= tx_count /\ TxAwaited(f)
                        /\ ~rx_free[f] => link_sync[f] < rx_rasm[f].start.al.id
  /\ \A k \in 1 .. Len(chan) :
       /\ Awaits(chan[k].al.frag, chan[k].al, chan[k].lo) /\ TxAfter(chan[k])
       /\ \A j \in 1 .. Len(chan) :
            k < j /\ chan[k].al.frag = chan[j].al.frag => Behind(chan[k], chan[j].al, chan[j].lo)

\* The number zero was given after the ALPDU a and up to the ALPDU b.
ZeroIn(nums, a, b) == \E n \in nums : n.val = 0 /\ a < n.id /\ n.id <= b

\* Numbers rise from one zero to the next, the next number to be given included.
Rising(nums, seq, count) ==
  /\ nums \subseteq [id : 1 .. count, val : 0 .. SeqMod - 1]
  /\ \A m, n \in nums : m.id < n.id => m.val < n.val \/ ZeroIn(nums, m.id, n.id)
  /\ \A m \in nums : seq = 0 \/ m.val < seq \/ ZeroIn(nums, m.id, count)

\* The numbers of f are those given to the ALPDUs that are on their way, and the receiver
\* expects the one that follows that of the last ALPDU that it has followed.
Numbered(f) ==
  /\ Rising(link_nums[f], tx_seq[f], tx_count)
  /\ ~tx_free[f] =>
       IF frag_buf_is_fragmented(tx_buf[f])
         THEN num_of(alpdu_of(tx_buf[f], f)) \in link_nums[f]
         ELSE \A m \in link_nums[f] : m.id < tx_buf[f].id
  /\ ~rx_free[f] => num_of(rx_rasm[f].start.al) \in link_nums[f]
  /\ rx_seq_init[f] =>
       \E m \in link_nums[f] : m.id = link_sync[f] /\ rx_seq[f] = rle_ctx_incr_seq_nb(m.val)

NumInv ==
  /\ link_nums \in [FragIds -> SUBSET [id : Nat, val : Nat]]
  /\ ~use_alpdu_crc(tx_conf) =>
       /\ \A f \in FragIds : Numbered(f)
       /\ \A k \in 1 .. Len(chan) :
            chan[k].type # "COMP" => num_of(chan[k].al) \in link_nums[chan[k].al.frag]

\* A START PPDU opens its context with its own bytes, a CONT PPDU adds its bytes to those
\* of a context in use, or the context is free.
Opened(p, b) == p.type = "START" /\ b.start = p /\ rasm_pos(b) = p.hi /\ b.whole

Grown(p, b, nb) ==
  /\ p.type = "CONT" /\ nb.start = b.start
  /\ rasm_pos(nb) = rasm_pos(b) + (p.hi - p.lo)
  /\ b.whole /\ p.al = b.start.al /\ p.lo = rasm_pos(b) => nb.whole

\* The receiver finds the ALPDU header as it was sent.
LEMMA HeaderFound ==
  ASSUME NEW conf \in ConfRecord, NEW p, PpduOK(p, conf), p.type = "START"
  PROVE  extracted(p, conf).len = p.al.hdr.len
<1>1. carried(p) \in Nat /\ 0 < carried(p) /\ p \in Ppdu
  BY PpduLengths DEF PpduOK
<1>2. p.al.sdu \in SduRecord
  BY <1>1 DEF Ppdu, Alpdu
<1>3. p.supp = (p.al.hdr.len = 0) /\ p.al.hdr = push_alpdu_hdr(p.al.sdu, conf)
  BY DEF PpduOK, AlpduOK
<1> QED
  BY <1>1, <1>2, <1>3, ExtractedLen DEF extracted

LEMMA StartOpened ==
  ASSUME RxInv, NEW p, PpduOK(p, rx_conf), Arrives(p), RxStart(p)
  PROVE  Opened(p, rx_rasm'[p.frag])
<1> DEFINE f == p.frag
           x == extracted(p, rx_conf)
           n == carried(p) - x.len
           size == start_sdu_len(p, x)
           opened == [size |-> size, got |-> 0, ptype |-> x.ptype,
                      comp |-> x.comp, hdr_len |-> x.len, start |-> p,
                      whole |-> x.len = p.al.hdr.len]
           b == rasm_buf_add(opened, [p EXCEPT !.lo = x.len], n)
<1>1. /\ p.type = "START" /\ p.lo = 0 /\ p \in Ppdu /\ f \in RxFragIds
  BY DEF RxStart, PpduOK, Arrives
<1>2. /\ p.lo \in Nat /\ p.hi \in Nat /\ p.lo < p.hi /\ carried(p) = p.hi - p.lo
      /\ p.al.hdr.len \in 0 .. 3 /\ rx_conf \in ConfRecord /\ p.al.sdu \in SduRecord
  <2>1. rx_conf \in ConfRecord
    BY DEF RxInv, RxTypeOK
  <2>2. p.al.sdu \in SduRecord
    BY <1>1 DEF Ppdu, Alpdu
  <2> QED
    BY <2>1, <2>2, PpduLengths
<1>3. x.len = p.al.hdr.len
  BY <1>1, <1>2, HeaderFound
<1>4. rx_rasm \in [RxFragIds -> RasmBuf] /\ rx_rasm' = [rx_rasm EXCEPT ![f] = b]
  BY DEF RxInv, RxTypeOK, RxStart
<1>5. b.start = p /\ b.whole /\ b.hdr_len = x.len /\ b.got = n
  <2>1. [p EXCEPT !.lo = x.len].al = p.al /\ [p EXCEPT !.lo = x.len].lo = x.len
    <3> HIDE DEF x
    <3> QED
      BY <1>1 DEF Ppdu
  <2> DEFINE q == [p EXCEPT !.lo = x.len]
  <2> HIDE DEF q
  <2>2. x.len = x.len + 0
    <3> HIDE DEF x
    <3> QED
      BY <1>2, <1>3
  <2> HIDE DEF x, n, size
  <2>3. LET e == rasm_buf_add(opened, q, n)
        IN e.start = p /\ e.whole /\ e.hdr_len = x.len /\ e.got = 0 + n
    BY <1>3, <2>1, <2>2 DEF rasm_buf_add, q
  <2>4. 0 + n = n
    BY <1>2, <1>3 DEF n
  <2> QED
    BY <2>3, <2>4 DEF q
<1> HIDE DEF b
<1>6. rasm_pos(b) = p.hi
  <2> HIDE DEF x
  <2> QED
    BY <1>1, <1>2, <1>3, <1>5 DEF rasm_pos
<1>7. rx_rasm'[f] = b
  BY <1>1, <1>4
<1> QED
  BY <1>1, <1>5, <1>6, <1>7 DEF Opened

\* What rasm_buf_add does to a buffer.
LEMMA BufGrows ==
  ASSUME NEW b \in RasmBuf, NEW p, NEW n \in Nat
  PROVE  LET e == rasm_buf_add(b, p, n)
         IN /\ e.start = b.start /\ e.hdr_len = b.hdr_len /\ e.got = b.got + n
            /\ e.size = b.size
            /\ rasm_pos(e) = rasm_pos(b) + n
            /\ b.whole /\ p.al = b.start.al /\ p.lo = rasm_pos(b) => e.whole
<1> DEFINE e == rasm_buf_add(b, p, n)
           w == b.whole /\ (n = 0 \/ (p.al = b.start.al /\ p.lo = b.hdr_len + b.got))
           k == b.got + n
<1>1. e = [b EXCEPT !.got = k, !.whole = w]
  BY DEF rasm_buf_add
<1>2. b.whole /\ p.al = b.start.al /\ p.lo = rasm_pos(b) => w
  BY DEF rasm_pos
<1>3. b.got \in Nat /\ b.hdr_len \in Nat
  BY DEF RasmBuf
<1> HIDE DEF w, k, e
<1>4. /\ e.start = b.start /\ e.hdr_len = b.hdr_len /\ e.got = k /\ e.size = b.size
      /\ e.whole = w
  BY <1>1 DEF RasmBuf
<1>5. rasm_pos(e) = rasm_pos(b) + n
  BY <1>3, <1>4 DEF rasm_pos, k
<1> QED
  BY <1>2, <1>4, <1>5 DEF e, k

\* A sequence number is followed, or nothing is learnt of the numbers of the context.
SeqFollowed(p) ==
  /\ p.type = "END" /\ rx_seq_init'[p.frag]
  /\ rx_seq'[p.frag] = rle_ctx_incr_seq_nb(p.al.trailer.val)

SeqKept(f) == rx_seq'[f] = rx_seq[f] /\ rx_seq_init'[f] = rx_seq_init[f]

LEMMA FragmentReceived ==
  ASSUME RxInv, RxStarts, NEW p, PpduOK(p, rx_conf), Arrives(p), p.type # "COMP",
         rle_receiver_deencap_data(p)
  PROVE  LET f == p.frag
         IN /\ \/ rx_free'[f]
               \/ Opened(p, rx_rasm'[f])
               \/ ~rx_free[f] /\ Grown(p, rx_rasm[f], rx_rasm'[f])
            /\ SeqFollowed(p) \/ use_alpdu_crc(rx_conf) \/ SeqKept(f)
<1> DEFINE f == p.frag
<1>1. /\ rx_free \in [RxFragIds -> BOOLEAN] /\ rx_rasm \in [RxFragIds -> RasmBuf]
      /\ rx_seq \in [RxFragIds -> 0 .. SeqMod - 1] /\ rx_seq_init \in [RxFragIds -> BOOLEAN]
      /\ f \in RxFragIds /\ rx_conf \in ConfRecord
  BY DEF RxInv, RxTypeOK, Arrives
<1>2. CASE RxStart(p)
  BY <1>2, StartOpened DEF RxStart, SeqKept
<1>3. CASE RxStartError(p) \/ RxContError(p)
  BY <1>1, <1>3 DEF RxStartError, RxContError, DropOne, rle_receiver_free_context, SeqKept
<1>4. CASE RxCont(p)
  <2> DEFINE n == carried(p)
             e == rasm_buf_add(rx_rasm[f], p, n)
  <2>1. /\ p.type = "CONT" /\ ~rx_free[f] /\ UNCHANGED <<rx_seq, rx_seq_init>>
        /\ rx_rasm' = [rx_rasm EXCEPT ![f] = e]
    BY <1>4 DEF RxCont
  <2>2. n \in Nat /\ n = p.hi - p.lo
    <3>1. p.lo \in Nat /\ p.hi \in Nat /\ p.lo < p.hi /\ carried(p) = p.hi - p.lo
      BY <1>1, PpduLengths
    <3> QED
      BY <3>1
  <2> HIDE DEF n
  <2>3. /\ e.start = rx_rasm[f].start /\ rasm_pos(e) = rasm_pos(rx_rasm[f]) + n
        /\ rx_rasm[f].whole /\ p.al = rx_rasm[f].start.al /\ p.lo = rasm_pos(rx_rasm[f])
             => e.whole
    BY <1>1, <2>2, BufGrows
  <2>4. rx_rasm'[f] = e
    BY <1>1, <2>1
  <2> HIDE DEF e
  <2>5. Grown(p, rx_rasm[f], rx_rasm'[f])
    BY <2>1, <2>2, <2>3, <2>4 DEF Grown
  <2> QED
    BY <2>1, <2>5 DEF SeqKept
<1>5. CASE RxEndFree(p) \/ RxEndRefused(p)
  BY <1>1, <1>5 DEF RxEndFree, RxEndRefused, EndsWith, rle_receiver_free_context, SeqKept
<1>6. CASE RxEndShort(p)
  BY <1>1, <1>6 DEF RxEndShort, EndAdds, EndsWith, rle_receiver_free_context, SeqKept
<1>7. CASE RxEndComplete(p)
  <2>1. /\ p.type = "END" /\ ~rx_free[f] /\ rx_free' = [rx_free EXCEPT ![f] = TRUE]
    BY <1>7 DEF RxEndComplete, EndsWith, rle_receiver_free_context, EndAdds
  <2>2. rx_use_crc[f] = use_alpdu_crc(rx_conf)
    <3>1. BufOK(rx_rasm[f], rx_use_crc[f], f) /\ PpduOK(rx_rasm[f].start, rx_conf)
      BY <1>1, <2>1 DEF RxInv, RxBufs, RxStarts
    <3> QED
      BY <3>1 DEF BufOK, PpduOK
  <2>3. \/ UNCHANGED <<rx_seq, rx_seq_init>>
        \/ /\ rx_seq_init' = [rx_seq_init EXCEPT ![f] = @ \/ ~rx_use_crc[f]]
           /\ rx_seq' = IF rx_use_crc[f] THEN rx_seq
                          ELSE [rx_seq EXCEPT ![f] = rle_ctx_incr_seq_nb(p.al.trailer.val)]
    BY <1>7 DEF RxEndComplete
  <2>4. SeqFollowed(p) \/ use_alpdu_crc(rx_conf) \/ SeqKept(f)
    <3>1. CASE UNCHANGED <<rx_seq, rx_seq_init>>
      BY <3>1 DEF SeqKept
    <3>2. CASE use_alpdu_crc(rx_conf)
      BY <3>2
    <3>3. ASSUME ~use_alpdu_crc(rx_conf),
                 rx_seq_init' = [rx_seq_init EXCEPT ![f] = @ \/ ~rx_use_crc[f]],
                 rx_seq' = IF rx_use_crc[f] THEN rx_seq
                           ELSE [rx_seq EXCEPT ![f] = rle_ctx_incr_seq_nb(p.al.trailer.val)]
          PROVE  SeqFollowed(p)
      <4>1. ~rx_use_crc[f]
        BY <2>2, <3>3
      <4>2. rx_seq' = [rx_seq EXCEPT ![f] = rle_ctx_incr_seq_nb(p.al.trailer.val)]
        BY <3>3, <4>1, Zenon
      <4>3. rx_seq'[f] = rle_ctx_incr_seq_nb(p.al.trailer.val)
        BY <1>1, <4>2, Zenon
      <4>4. rx_seq_init'[f]
        BY <1>1, <3>3, <4>1
      <4> QED
        BY <2>1, <4>3, <4>4 DEF SeqFollowed
    <3> QED
      BY <2>3, <3>1, <3>2, <3>3
  <2> QED
    BY <1>1, <2>1, <2>4
<1> QED
  BY <1>2, <1>3, <1>4, <1>5, <1>6, <1>7 DEF rle_receiver_deencap_data, RxComp

\* What comes after p is still awaited when p has been received.
LEMMA StillAwaited ==
  ASSUME NEW p, NEW b, NEW nb, NEW al, NEW pos \in Int,
         p.lo \in Nat, p.hi \in Nat, p.lo < p.hi,
         rasm_pos(b) \in Int, rasm_pos(nb) \in Int,
         p.al.id \in Nat, al.id \in Nat, b.start.al.id \in Nat,
         Behind(p, al, pos), NotPast(b, p.al, p.lo), NotPast(b, al, pos), Grown(p, b, nb)
  PROVE  NotPast(nb, al, pos)
<1>1. CASE b.start.al.id # al.id
  BY <1>1 DEF NotPast, Grown
<1>2. CASE b.start.al.id = al.id
  <2>1. b.start.al.id = p.al.id /\ p.al = al /\ p.hi <= pos
    BY <1>2 DEF NotPast, Behind
  <2>2. /\ b.start.al = al /\ 0 < rasm_pos(b) /\ rasm_pos(b) <= p.lo
        /\ rasm_pos(b) = p.lo => b.whole
    BY <1>2, <2>1 DEF NotPast
  <2>3. /\ nb.start = b.start /\ rasm_pos(nb) = rasm_pos(b) + (p.hi - p.lo)
        /\ b.whole /\ p.al = b.start.al /\ p.lo = rasm_pos(b) => nb.whole
    BY DEF Grown
  <2>4. 0 < rasm_pos(nb) /\ rasm_pos(nb) <= pos /\ (rasm_pos(nb) = pos => rasm_pos(b) = p.lo)
    BY <2>1, <2>2, <2>3
  <2> QED
    BY <1>2, <2>1, <2>2, <2>3, <2>4 DEF NotPast
<1> QED
  BY <1>1, <1>2

\* A START PPDU that opens a context, for what comes after it.
LEMMA OpenAwaited ==
  ASSUME NEW p, NEW nb, NEW al, NEW pos \in Int, p.hi \in Nat, 0 < p.hi,
         Behind(p, al, pos), Opened(p, nb)
  PROVE  NotPast(nb, al, pos)
BY DEF NotPast, Behind, Opened

\* The lengths that the receiver has of a context in use.
LEMMA RasmLengths ==
  ASSUME LinkBase, NEW f \in FragIds
  PROVE  /\ rasm_pos(rx_rasm[f]) \in Int
         /\ ~rx_free[f] => /\ rx_rasm[f].start.al.id \in 1 .. tx_count
                           /\ rx_rasm[f].start.al.frag = f /\ rx_rasm[f].start.frag = f
<1>1. Ends(link_sent) /\ RxInv /\ RxStarts /\ rx_rasm[f] \in RasmBuf /\ RxFragIds = FragIds
  BY DEF LinkBase, Ends, RxInv, RxTypeOK
<1>2. rx_rasm[f].got \in Int /\ rx_rasm[f].hdr_len \in Int
  BY <1>1 DEF RasmBuf
<1>3. ASSUME ~rx_free[f]
      PROVE  /\ rx_rasm[f].start.al.id \in 1 .. tx_count
             /\ rx_rasm[f].start.al.frag = f /\ rx_rasm[f].start.frag = f
  <2>1. /\ Known(rx_rasm[f].start.al, link_sent) /\ PpduOK(rx_rasm[f].start, rx_conf)
        /\ BufOK(rx_rasm[f], rx_use_crc[f], f)
    BY <1>1, <1>3 DEF Ends, RxStarts, RxInv, RxBufs
  <2>2. rx_rasm[f].start.frag = f /\ rx_rasm[f].start.al.frag = f
    BY <2>1 DEF BufOK, PpduOK
  <2> QED
    BY <1>1, <2>1, <2>2, KnownItem
<1> QED
  BY <1>2, <1>3 DEF rasm_pos

LEMMA BufPos ==
  ASSUME NEW b \in FragBuf, NEW f
  PROVE  pos_of(b) \in Int /\ alpdu_of(b, f).id = b.id
<1>1. b.cur_pos \in Int /\ b.alpdu_start \in Int
  BY DEF FragBuf, Offset
<1> QED
  BY <1>1 DEF pos_of, alpdu_of

\* The lengths of the PPDUs on the link and of the ALPDUs in the transmitter.
LEMMA LinkLengths ==
  ASSUME LinkBase
  PROVE  /\ tx_count \in Nat /\ tx_free \in [FragIds -> BOOLEAN] /\ chan \in Seq(Ppdu)
         /\ Len(chan) \in Nat
         /\ \A k \in 1 .. Len(chan) :
              /\ chan[k].al.frag \in FragIds /\ chan[k].al.id \in 1 .. tx_count
              /\ chan[k].lo \in Nat /\ chan[k].hi \in Nat /\ chan[k].lo < chan[k].hi
              /\ chan[k].type # "COMP" => chan[k].frag = chan[k].al.frag
         /\ \A f \in FragIds :
              /\ pos_of(tx_buf[f]) \in Int /\ alpdu_of(tx_buf[f], f).id = tx_buf[f].id
              /\ ~tx_free[f] => tx_buf[f].id \in 1 .. tx_count
<1>1. /\ tx_count \in Nat /\ tx_free \in [FragIds -> BOOLEAN] /\ chan \in Seq(Ppdu)
      /\ \A k \in 1 .. Len(chan) : chan[k].al.frag \in FragIds /\ chan[k].al.id \in 1 .. tx_count
      /\ \A f \in FragIds : ~tx_free[f] => tx_buf[f].id \in 1 .. tx_count
  BY Numbers DEF LinkBase
<1>2. Len(chan) \in Nat
  BY <1>1, Elements
<1>3. ASSUME NEW k \in 1 .. Len(chan)
      PROVE  /\ chan[k].lo \in Nat /\ chan[k].hi \in Nat /\ chan[k].lo < chan[k].hi
             /\ chan[k].type # "COMP" => chan[k].frag = chan[k].al.frag
  <2>1. PpduOK(chan[k], tx_conf) /\ tx_conf \in ConfRecord
    BY DEF LinkBase, Sent, Ends, TxInv, TxTypeOK
  <2> QED
    BY <2>1, PpduLengths DEF PpduOK
<1>4. ASSUME NEW f \in FragIds
      PROVE  pos_of(tx_buf[f]) \in Int /\ alpdu_of(tx_buf[f], f).id = tx_buf[f].id
  <2>1. tx_buf[f] \in FragBuf
    BY DEF LinkBase, Ends, TxInv, TxTypeOK
  <2> QED
    BY <2>1, BufPos
<1> QED
  BY <1>1, <1>2, <1>3, <1>4

LEMMA PosInit == LinkInit => PosInv
<1> SUFFICES ASSUME LinkInit PROVE PosInv
  OBVIOUS
<1>1. /\ chan = << >> /\ link_sync = [f \in FragIds |-> 0] /\ tx_count = 0
      /\ \A f \in FragIds : tx_free[f] /\ rx_free[f]
  BY LinkAssumption DEF LinkInit, TxInit, RxInit
<1> QED
  BY <1>1 DEF PosInv, TxAwaited

\* rle_encapsulate: an SDU taken in comes after all the others.
LEMMA EncapPos ==
  ASSUME LinkBase, PosInv, NEW f \in FragIds, NEW sdu \in TxSdus, LinkEncap(f, sdu)
  PROVE  PosInv'
<1>1. /\ LinkBase' /\ (Accepts(f, sdu) \/ Refuses(f)) /\ UNCHANGED chan
  BY EncapBase
<1>2. UNCHANGED <<link_sync, rx_free, rx_rasm>>
  BY DEF LinkEncap, rx_vars
<1>3. /\ tx_count \in Nat /\ tx_free \in [FragIds -> BOOLEAN]
      /\ \A k \in 1 .. Len(chan) :
           /\ chan[k].al.frag \in FragIds /\ chan[k].al.id \in 1 .. tx_count
      /\ \A g \in FragIds : pos_of(tx_buf'[g]) \in Int /\ alpdu_of(tx_buf'[g], g).id = tx_buf'[g].id
  <2>1. \A g \in FragIds : tx_buf'[g] \in FragBuf
    BY <1>1 DEF LinkBase, Ends, TxInv, TxTypeOK
  <2> QED
    BY <2>1, BufPos, LinkLengths
<1>4. CASE Refuses(f)
  <2>1. /\ UNCHANGED <<tx_count, tx_buf>>
        /\ \A g \in FragIds : ~tx_free'[g] => ~tx_free[g]
    BY <1>3, <1>4 DEF Refuses
  <2>2. \A g \in FragIds : TxAwaited(g)'
    BY <1>2, <2>1 DEF PosInv, TxAwaited, Awaits
  <2>3. \A k \in 1 .. Len(chan) : TxAfter(chan[k])'
    BY <1>1, <1>3, <2>1 DEF PosInv, TxAfter
  <2> QED
    BY <1>1, <1>2, <2>1, <2>2, <2>3 DEF PosInv, Awaits
<1>5. CASE Accepts(f, sdu)
  <2>1. /\ tx_count' = tx_count + 1 /\ tx_buf'[f].id = tx_count'
        /\ \A g \in FragIds \ {f} : tx_buf'[g] = tx_buf[g] /\ tx_free'[g] = tx_free[g]
    BY <1>3, <1>5 DEF Accepts
  <2>2. ASSUME NEW g \in FragIds PROVE TxAwaited(g)'
    <3>1. CASE g = f
      <4>1. link_sync[f] <= tx_count /\ link_sync[f] \in Nat
        BY DEF PosInv
      <4>2. ~rx_free[f] => rx_rasm[f].start.al.id \in 1 .. tx_count
        BY RasmLengths
      <4>3. link_sync[f] < tx_buf'[f].id /\ alpdu_of(tx_buf'[f], f).id = tx_buf'[f].id
        BY <1>3, <2>1, <4>1
      <4>4. ~rx_free[f] => NotPast(rx_rasm[f], alpdu_of(tx_buf'[f], f), pos_of(tx_buf'[f]))
        BY <1>3, <2>1, <4>2, <4>3 DEF NotPast
      <4> QED
        BY <1>2, <3>1, <4>3, <4>4 DEF TxAwaited, Awaits
    <3>2. CASE g # f
      BY <1>2, <2>1, <3>2 DEF PosInv, TxAwaited, Awaits
    <3> QED
      BY <3>1, <3>2
  <2>3. ASSUME NEW k \in 1 .. Len(chan) PROVE TxAfter(chan[k])'
    <3>1. CASE chan[k].al.frag = f
      <4>1. /\ chan[k].al.id < tx_buf'[f].id /\ chan[k].al.id \in Nat
            /\ alpdu_of(tx_buf'[f], f).id = tx_buf'[f].id /\ tx_buf'[f].id \in Nat
        BY <1>3, <2>1
      <4> QED
        BY <1>1, <3>1, <4>1 DEF TxAfter, Behind
    <3>2. CASE chan[k].al.frag # f
      BY <1>1, <1>3, <2>1, <3>2 DEF PosInv, TxAfter
    <3> QED
      BY <3>1, <3>2
  <2>4. \A g \in FragIds : link_sync[g] <= tx_count'
    BY <1>3, <2>1 DEF PosInv
  <2> QED
    BY <1>1, <1>2, <2>2, <2>3, <2>4 DEF PosInv, Awaits
<1> QED
  BY <1>1, <1>4, <1>5

\* rle_fragment: what it cuts comes after all that has been cut before, and the
\* transmitter then stands after it.
LEMMA SendPos ==
  ASSUME LinkBase, PosInv, NEW f \in FragIds, NEW burst \in Bursts, LinkSend(f, burst)
  PROVE  PosInv'
<1>1. /\ LinkBase' /\ UNCHANGED <<tx_count, tx_conf>> /\ UNCHANGED <<link_sync, rx_free, rx_rasm>>
      /\ \/ SendsNothing /\ chan' = chan
         \/ Sends(f, tx_ppdu') /\ tx_ppdu' \in Ppdu /\ chan' = Append(chan, tx_ppdu')
  <2>1. tx_conf' = tx_conf
    BY FragmentSends DEF LinkSend, LinkBase, Ends
  <2> QED
    BY <2>1, SendBase DEF LinkSend, rx_vars
<1>2. /\ tx_count \in Nat /\ tx_free \in [FragIds -> BOOLEAN] /\ chan \in Seq(Ppdu)
      /\ Len(chan) \in Nat
      /\ \A k \in 1 .. Len(chan) :
           /\ chan[k].al.frag \in FragIds /\ chan[k].al.id \in 1 .. tx_count
           /\ chan[k].lo \in Nat /\ chan[k].hi \in Nat /\ chan[k].lo < chan[k].hi
      /\ \A g \in FragIds :
           /\ pos_of(tx_buf[g]) \in Int /\ alpdu_of(tx_buf[g], g).id = tx_buf[g].id
           /\ ~tx_free[g] => tx_buf[g].id \in 1 .. tx_count
  BY LinkLengths
<1>3. CASE SendsNothing /\ chan' = chan
  <2>1. tx_free' = tx_free /\ \A g \in FragIds : /\ alpdu_of(tx_buf'[g], g) = alpdu_of(tx_buf[g], g)
                                                /\ pos_of(tx_buf'[g]) = pos_of(tx_buf[g])
    BY <1>3 DEF SendsNothing
  <2>2. \A g \in FragIds : TxAwaited(g)'
    BY <1>1, <2>1 DEF PosInv, TxAwaited, Awaits
  <2>3. \A k \in 1 .. Len(chan) : TxAfter(chan[k])'
    BY <1>2, <1>3, <2>1 DEF PosInv, TxAfter
  <2> QED
    BY <1>1, <1>3, <2>2, <2>3 DEF PosInv, Awaits
<1>4. CASE Sends(f, tx_ppdu') /\ tx_ppdu' \in Ppdu /\ chan' = Append(chan, tx_ppdu')
  <2> DEFINE p == tx_ppdu'
             n == Len(chan) + 1
             a == alpdu_of(tx_buf[f], f)
  <2>1. /\ ~tx_free[f] /\ PpduOK(p, tx_conf) /\ p.al = alpdu_of(tx_buf'[f], f)
        /\ p.al.id = tx_buf[f].id /\ p.lo = pos_of(tx_buf[f]) /\ p.hi = pos_of(tx_buf'[f])
        /\ p.type \in {"CONT", "END"} => p.al = a
        /\ tx_free' = [tx_free EXCEPT ![f] = Final(p)]
        /\ \A g \in FragIds \ {f} : tx_buf'[g] = tx_buf[g]
    BY <1>4 DEF Sends, Final
  <2>2. p.al.frag = f
    BY <2>1 DEF alpdu_of
  <2> HIDE DEF p, a
  <2>3. /\ p.lo \in Nat /\ p.hi \in Nat /\ p.lo < p.hi
        /\ p.al = a \/ p.lo = 0
    <3>1. p.lo \in Nat /\ p.hi \in Nat /\ p.lo < p.hi
      BY <2>1, PpduLengths DEF LinkBase, Ends, TxInv, TxTypeOK
    <3>2. p.type \in {"COMP", "START"} => p.lo = 0
      BY <2>1 DEF PpduOK
    <3>3. p.type \in {"COMP", "START", "CONT", "END"}
      BY <1>4 DEF p, Ppdu, PpduTypes
    <3> QED
      BY <2>1, <3>1, <3>2, <3>3
  <2>4. /\ Len(chan') = n /\ chan'[n] = p
        /\ \A k \in 1 .. Len(chan) : chan'[k] = chan[k]
        /\ \A k \in 1 .. Len(chan') : k \in 1 .. Len(chan) \/ k = n
    <3>1. /\ Len(chan') = n /\ chan'[n] = p
          /\ \A k \in 1 .. Len(chan) : chan'[k] = chan[k]
      BY <1>2, <1>4, Appended DEF p
    <3> QED
      BY <1>2, <3>1
  <2>5. p.al.id = a.id /\ p.al.id \in Nat
    BY <1>2, <2>1 DEF a
  \* What the receiver has not got to yet.
  <2>6. Awaits(f, p.al, p.lo) /\ Awaits(f, p.al, p.hi)
    <3>1. Awaits(f, a, p.lo)
      BY <2>1 DEF PosInv, TxAwaited, a
    <3>2. ~rx_free[f] => NotPast(rx_rasm[f], p.al, p.lo) /\ NotPast(rx_rasm[f], p.al, p.hi)
      BY <2>3, <2>5, <3>1, RasmLengths DEF Awaits, NotPast
    <3> QED
      BY <2>5, <3>1, <3>2 DEF Awaits
  \* The PPDUs before it.
  <2>7. ASSUME NEW k \in 1 .. Len(chan), chan[k].al.frag = f
        PROVE  Behind(chan[k], p.al, p.lo) /\ Behind(chan[k], p.al, p.hi)
    <3>1. Behind(chan[k], a, p.lo)
      BY <2>1, <2>7 DEF PosInv, TxAfter, a
    <3> QED
      BY <1>2, <2>3, <2>5, <3>1 DEF Behind
  <2>8. ASSUME NEW g \in FragIds PROVE TxAwaited(g)'
    <3>1. CASE g = f
      BY <1>1, <2>1, <2>6, <3>1 DEF TxAwaited, Awaits
    <3>2. CASE g # f
      BY <1>1, <1>2, <2>1, <3>2 DEF PosInv, TxAwaited, Awaits
    <3> QED
      BY <3>1, <3>2
  <2>9. ASSUME NEW k \in 1 .. Len(chan') PROVE TxAfter(chan[k])'
    <3>1. CASE k = n
      <4>1. tx_free'[f] = Final(p)
        BY <1>2, <2>1
      <4>2. ~tx_free'[f] => Behind(p, alpdu_of(tx_buf'[f], f), pos_of(tx_buf'[f]))
        BY <2>1, <2>3, <2>5, <4>1 DEF Behind
      <4> QED
        BY <2>2, <2>4, <3>1, <4>2 DEF TxAfter
    <3>2. CASE k \in 1 .. Len(chan) /\ chan[k].al.frag = f
      BY <2>1, <2>4, <2>7, <3>2 DEF TxAfter
    <3>3. CASE k \in 1 .. Len(chan) /\ chan[k].al.frag # f
      BY <1>2, <2>1, <2>4, <3>3 DEF PosInv, TxAfter
    <3> QED
      BY <2>4, <3>1, <3>2, <3>3
  <2>10. ASSUME NEW k \in 1 .. Len(chan')
         PROVE  Awaits(chan[k].al.frag, chan[k].al, chan[k].lo)'
    <3>1. CASE k = n
      BY <1>1, <2>2, <2>4, <2>6, <3>1 DEF Awaits
    <3>2. CASE k \in 1 .. Len(chan)
      BY <1>1, <2>4, <3>2 DEF PosInv, Awaits
    <3> QED
      BY <2>4, <3>1, <3>2
  <2>11. ASSUME NEW k \in 1 .. Len(chan'), NEW j \in 1 .. Len(chan'), k < j,
                chan'[k].al.frag = chan'[j].al.frag
         PROVE  Behind(chan'[k], chan'[j].al, chan'[j].lo)
    <3>1. k \in 1 .. Len(chan)
      BY <1>2, <2>4, <2>11
    <3>2. CASE j = n
      BY <2>2, <2>4, <2>7, <2>11, <3>1, <3>2
    <3>3. CASE j \in 1 .. Len(chan)
      BY <2>4, <2>11, <3>1, <3>3 DEF PosInv
    <3> QED
      BY <2>4, <3>2, <3>3
  <2> QED
    BY <1>1, <2>8, <2>9, <2>10, <2>11 DEF PosInv
<1> QED
  BY <1>1, <1>3, <1>4

\* What is awaited after the PPDU p, which has been received.
LEMMA AwaitedAfter ==
  ASSUME LinkBase, PosInv, chan # << >>, LinkReceive, NEW f \in FragIds,
         NEW al, al.id \in Nat, NEW pos \in Int, Awaits(f, al, pos),
         Head(chan).al.frag = f => Behind(Head(chan), al, pos)
  PROVE  link_sync'[f] < al.id /\ (~rx_free'[f] => NotPast(rx_rasm'[f], al, pos))
<1> DEFINE p == Head(chan)
<1>1. /\ Sent(p, link_sent) /\ p = chan[1] /\ 1 \in 1 .. Len(chan) /\ p.al.frag \in FragIds
  BY HeadSent
<1>2. /\ p.lo \in Nat /\ p.hi \in Nat /\ p.lo < p.hi /\ p.al.id \in Nat
      /\ p.type # "COMP" => p.frag = p.al.frag
  BY <1>1, LinkLengths
<1>3. /\ PpduOK(p, rx_conf) /\ Arrives(p) /\ RxInv /\ RxStarts /\ RxFragIds = FragIds
      /\ rle_receiver_deencap_data(p)
  BY <1>1, SentPpdu DEF LinkBase, Ends, LinkReceive
<1>4. /\ p.type = "COMP" => UNCHANGED <<rx_free, rx_rasm, rx_seq, rx_seq_init>>
      /\ OthersKept(p.frag) /\ (p.type = "END" => rx_free'[p.frag])
  <2>1. p.type = "COMP" \/ p.frag \in RxFragIds
    BY <1>1, <1>2, <1>3
  <2> QED
    BY <1>3, <2>1, OwnContext
<1>5. /\ link_sync \in [FragIds -> Nat]
      /\ \/ link_sync' = link_sync
         \/ p.type = "END" /\ link_sync' = [link_sync EXCEPT ![p.frag] = p.al.id]
  BY DEF PosInv, LinkReceive, follows
<1> HIDE DEF p
<1>6. CASE p.type = "COMP" \/ p.frag # f
  <2>1. link_sync'[f] = link_sync[f]
    BY <1>5, <1>6
  <2>2. rx_free'[f] = rx_free[f] /\ rx_rasm'[f] = rx_rasm[f]
    BY <1>3, <1>4, <1>6 DEF OthersKept
  <2> QED
    BY <2>1, <2>2 DEF Awaits
<1>7. CASE p.type # "COMP" /\ p.frag = f
  <2>1. Behind(p, al, pos) /\ p.al.frag = f
    BY <1>2, <1>7 DEF p
  <2>2. Awaits(f, p.al, p.lo)
    BY <1>1, <2>1 DEF PosInv
  <2>3. link_sync'[f] < al.id
    <3>1. p.type = "END" => p.al.id < al.id
      BY <1>2, <2>1 DEF Behind, Final
    <3> QED
      BY <1>5, <1>7, <3>1 DEF Awaits
  <2>4. \/ rx_free'[f]
        \/ Opened(p, rx_rasm'[f])
        \/ ~rx_free[f] /\ Grown(p, rx_rasm[f], rx_rasm'[f])
    BY <1>3, <1>7, FragmentReceived
  <2>5. ASSUME Opened(p, rx_rasm'[f]) PROVE NotPast(rx_rasm'[f], al, pos)
    BY <1>2, <2>1, <2>5, OpenAwaited
  <2>6. ASSUME ~rx_free[f], Grown(p, rx_rasm[f], rx_rasm'[f])
        PROVE  NotPast(rx_rasm'[f], al, pos)
    <3>1. rasm_pos(rx_rasm[f]) \in Int /\ rx_rasm[f].start.al.id \in Nat
      BY <2>6, RasmLengths, LinkLengths
    <3>2. rasm_pos(rx_rasm'[f]) \in Int
      BY <1>2, <2>6, <3>1 DEF Grown
    <3>3. NotPast(rx_rasm[f], p.al, p.lo) /\ NotPast(rx_rasm[f], al, pos)
      BY <2>2, <2>6 DEF Awaits
    <3> QED
      BY <1>2, <2>1, <2>6, <3>1, <3>2, <3>3, StillAwaited
  <2> QED
    BY <2>3, <2>4, <2>5, <2>6
<1> QED
  BY <1>6, <1>7

\* The oldest PPDU leaves the link; what comes after it is in order.
LEMMA TailPos ==
  ASSUME LinkBase, PosInv, chan # << >>, chan' = Tail(chan),
         UNCHANGED <<tx_conf, tx_free, tx_buf, link_sent>>
  PROVE  \A k \in 1 .. Len(chan') :
           /\ k + 1 \in 1 .. Len(chan) /\ chan'[k] = chan[k + 1]
           /\ TxAfter(chan[k])'
           /\ chan'[k].al.frag = Head(chan).al.frag
                => Behind(Head(chan), chan'[k].al, chan'[k].lo)
           /\ \A j \in 1 .. Len(chan') :
                k < j /\ chan'[k].al.frag = chan'[j].al.frag
                  => Behind(chan'[k], chan'[j].al, chan'[j].lo)
<1>1. /\ Len(chan) \in Nat /\ Len(chan') = Len(chan) - 1
      /\ \A i \in 1 .. Len(chan') : i + 1 \in 1 .. Len(chan) /\ chan'[i] = chan[i + 1]
  BY TailBase
<1>2. Head(chan) = chan[1] /\ 1 \in 1 .. Len(chan)
  BY HeadSent
<1>3. ASSUME NEW k \in 1 .. Len(chan') PROVE TxAfter(chan[k])'
  <2>1. TxAfter(chan[k + 1])
    BY <1>1 DEF PosInv
  <2> QED
    BY <1>1, <2>1 DEF TxAfter
<1>4. ASSUME NEW k \in 1 .. Len(chan'), chan'[k].al.frag = Head(chan).al.frag
      PROVE  Behind(Head(chan), chan'[k].al, chan'[k].lo)
  <2>1. 1 < k + 1
    BY <1>1
  <2> QED
    BY <1>1, <1>2, <1>4, <2>1 DEF PosInv
<1>5. ASSUME NEW k \in 1 .. Len(chan'), NEW j \in 1 .. Len(chan'), k < j,
             chan'[k].al.frag = chan'[j].al.frag
      PROVE  Behind(chan'[k], chan'[j].al, chan'[j].lo)
  <2>1. k + 1 < j + 1
    BY <1>1, <1>5
  <2> QED
    BY <1>1, <1>5, <2>1 DEF PosInv
<1> QED
  BY <1>1, <1>3, <1>4, <1>5

LEMMA ReceivePos ==
  ASSUME LinkBase, PosInv, LinkReceive
  PROVE  PosInv'
<1> DEFINE p == Head(chan)
<1>1. /\ chan # << >> /\ chan' = Tail(chan)
      /\ UNCHANGED <<tx_conf, tx_free, tx_buf, tx_count, link_sent>>
  BY ReceiveBase DEF LinkReceive
<1>2. /\ p = chan[1] /\ 1 \in 1 .. Len(chan) /\ p.al.frag \in FragIds /\ Sent(p, link_sent)
  BY <1>1, HeadSent
<1>3. \A k \in 1 .. Len(chan') :
        /\ k + 1 \in 1 .. Len(chan) /\ chan'[k] = chan[k + 1]
        /\ TxAfter(chan[k])'
        /\ chan'[k].al.frag = p.al.frag => Behind(p, chan'[k].al, chan'[k].lo)
        /\ \A j \in 1 .. Len(chan') :
             k < j /\ chan'[k].al.frag = chan'[j].al.frag
               => Behind(chan'[k], chan'[j].al, chan'[j].lo)
  BY <1>1, TailPos
<1>4. /\ tx_count \in Nat
      /\ \A k \in 1 .. Len(chan) :
           /\ chan[k].al.frag \in FragIds /\ chan[k].al.id \in 1 .. tx_count
           /\ chan[k].lo \in Nat
           /\ chan[k].type # "COMP" => chan[k].frag = chan[k].al.frag
      /\ \A g \in FragIds :
           /\ pos_of(tx_buf[g]) \in Int /\ alpdu_of(tx_buf[g], g).id = tx_buf[g].id
           /\ ~tx_free[g] => tx_buf[g].id \in 1 .. tx_count
  BY LinkLengths
<1>5. /\ link_sync \in [FragIds -> Nat]
      /\ \/ link_sync' = link_sync
         \/ p.type = "END" /\ link_sync' = [link_sync EXCEPT ![p.frag] = p.al.id]
  BY DEF PosInv, LinkReceive, follows
<1>6. /\ p.al.id \in 1 .. tx_count /\ p.al.id \in Nat
      /\ p.type = "END" => p.frag = p.al.frag /\ p.frag \in FragIds
  BY <1>2, <1>4
<1>7. link_sync' \in [FragIds -> Nat] /\ \A g \in FragIds : link_sync'[g] <= tx_count
  <2> HIDE DEF p
  <2>1. \A g \in FragIds : link_sync[g] <= tx_count
    BY DEF PosInv
  <2>2. CASE link_sync' = link_sync
    BY <1>5, <2>1, <2>2
  <2>3. CASE p.type = "END" /\ link_sync' = [link_sync EXCEPT ![p.frag] = p.al.id]
    BY <1>4, <1>5, <1>6, <2>1, <2>3
  <2> QED
    BY <1>5, <2>2, <2>3
<1>8. ASSUME NEW g \in FragIds PROVE TxAwaited(g)'
  <2>1. ASSUME ~tx_free[g]
        PROVE  Awaits(g, alpdu_of(tx_buf[g], g), pos_of(tx_buf[g]))'
    <3>1. Awaits(g, alpdu_of(tx_buf[g], g), pos_of(tx_buf[g]))
      BY <2>1 DEF PosInv, TxAwaited
    <3>2. p.al.frag = g => Behind(p, alpdu_of(tx_buf[g], g), pos_of(tx_buf[g]))
      BY <1>2, <2>1 DEF PosInv, TxAfter
    <3>3. alpdu_of(tx_buf[g], g).id \in Nat /\ pos_of(tx_buf[g]) \in Int
      BY <1>4, <2>1
    <3>4. /\ link_sync'[g] < alpdu_of(tx_buf[g], g).id
          /\ ~rx_free'[g] => NotPast(rx_rasm'[g], alpdu_of(tx_buf[g], g), pos_of(tx_buf[g]))
      BY <1>1, <3>1, <3>2, <3>3, AwaitedAfter
    <3> QED
      BY <1>1, <3>4 DEF Awaits
  <2> QED
    BY <1>1, <2>1 DEF TxAwaited
<1>9. ASSUME NEW k \in 1 .. Len(chan')
      PROVE  Awaits(chan[k].al.frag, chan[k].al, chan[k].lo)'
  <2> DEFINE q == chan'[k]
  <2>1. Awaits(q.al.frag, q.al, q.lo)
    BY <1>3 DEF PosInv
  <2>2. q.al.frag \in FragIds /\ q.al.id \in Nat /\ q.lo \in Int
    BY <1>3, <1>4
  <2>3. p.al.frag = q.al.frag => Behind(p, q.al, q.lo)
    BY <1>3
  <2>4. /\ link_sync'[q.al.frag] < q.al.id
        /\ ~rx_free'[q.al.frag] => NotPast(rx_rasm'[q.al.frag], q.al, q.lo)
    BY <1>1, <2>1, <2>2, <2>3, AwaitedAfter
  <2> QED
    BY <2>4 DEF Awaits
<1>10. ASSUME NEW g \in FragIds, ~rx_free'[g]
       PROVE  link_sync'[g] < rx_rasm'[g].start.al.id
  <2>1. /\ Reopens(p) /\ RxFragIds = FragIds
        /\ (p.type = "END" => rx_free'[p.frag])
    <3>1. /\ PpduOK(p, rx_conf) /\ Arrives(p) /\ RxInv /\ RxStarts /\ RxFragIds = FragIds
          /\ rle_receiver_deencap_data(p)
      BY <1>2, SentPpdu DEF LinkBase, Ends, LinkReceive
    <3>2. p.type = "COMP" \/ p.frag \in RxFragIds
      BY <1>2, <1>4, <3>1
    <3> QED
      BY <3>1, <3>2, DeencapOutcome, OwnContext
  <2>2. link_sync'[g] = link_sync[g]
    BY <1>5, <1>10, <2>1
  <2>3. CASE ~rx_free[g] /\ rx_rasm'[g].start = rx_rasm[g].start
    BY <2>2, <2>3 DEF PosInv
  <2>4. CASE p.type = "START" /\ p.frag = g /\ rx_rasm'[g].start = p
    <3>1. p.al.frag = g
      BY <1>2, <1>4, <2>4
    <3>2. Awaits(g, p.al, p.lo)
      BY <1>2, <3>1 DEF PosInv
    <3> QED
      BY <2>2, <2>4, <3>2 DEF Awaits
  <2> QED
    BY <1>10, <2>1, <2>3, <2>4 DEF Reopens
<1> QED
  BY <1>1, <1>3, <1>7, <1>8, <1>9, <1>10 DEF PosInv

LEMMA LosePos ==
  ASSUME LinkBase, PosInv, LinkLose
  PROVE  PosInv'
<1>1. /\ chan # << >> /\ chan' = Tail(chan)
      /\ UNCHANGED <<tx_conf, tx_free, tx_buf, tx_count, link_sent>>
      /\ UNCHANGED <<link_sync, rx_free, rx_rasm>>
  BY DEF LinkLose, tx_vars, rx_vars
<1>2. \A k \in 1 .. Len(chan') :
        /\ k + 1 \in 1 .. Len(chan) /\ chan'[k] = chan[k + 1]
        /\ TxAfter(chan[k])'
        /\ \A j \in 1 .. Len(chan') :
             k < j /\ chan'[k].al.frag = chan'[j].al.frag
               => Behind(chan'[k], chan'[j].al, chan'[j].lo)
  BY <1>1, TailPos
<1>3. \A g \in FragIds : TxAwaited(g)'
  BY <1>1 DEF PosInv, TxAwaited, Awaits
<1>4. ASSUME NEW k \in 1 .. Len(chan')
      PROVE  Awaits(chan[k].al.frag, chan[k].al, chan[k].lo)'
  <2>1. Awaits(chan[k + 1].al.frag, chan[k + 1].al, chan[k + 1].lo)
    BY <1>2 DEF PosInv
  <2> QED
    BY <1>1, <1>2, <2>1 DEF Awaits
<1> QED
  BY <1>1, <1>2, <1>3, <1>4 DEF PosInv

LEMMA RestartPos ==
  ASSUME LinkBase, PosInv, LinkTxRestart \/ LinkRxRestart \/ UNCHANGED all_vars
  PROVE  PosInv'
<1>1. /\ UNCHANGED <<chan, tx_count>>
      /\ LinkTxRestart => \A f \in FragIds : tx_free'[f]
      /\ ~LinkTxRestart => UNCHANGED <<tx_free, tx_buf>>
      /\ LinkRxRestart => \A f \in FragIds : rx_free'[f]
  BY RestartBase
<1>2. /\ tx_count \in Nat
      /\ \A k \in 1 .. Len(chan) :
           chan[k].al.frag \in FragIds /\ chan[k].al.id \in 1 .. tx_count
      /\ \A g \in FragIds :
           /\ alpdu_of(tx_buf[g], g).id = tx_buf[g].id
           /\ ~tx_free[g] => tx_buf[g].id \in 1 .. tx_count
  BY LinkLengths
<1>3. CASE LinkRxRestart
  <2>1. link_sync' = [f \in FragIds |-> 0] /\ UNCHANGED <<tx_free, tx_buf>>
    BY <1>3 DEF LinkRxRestart, tx_vars
  <2>2. \A g \in FragIds : TxAwaited(g)'
    BY <1>1, <1>2, <1>3, <2>1 DEF TxAwaited, Awaits
  <2>3. \A k \in 1 .. Len(chan) : Awaits(chan[k].al.frag, chan[k].al, chan[k].lo)'
    BY <1>1, <1>2, <1>3, <2>1 DEF Awaits
  <2>4. \A k \in 1 .. Len(chan) : TxAfter(chan[k])'
    BY <1>1, <2>1 DEF PosInv, TxAfter
  <2>5. /\ link_sync' \in [FragIds -> Nat]
        /\ \A f \in FragIds : link_sync'[f] <= tx_count' /\ rx_free'[f]
    BY <1>1, <1>2, <1>3, <2>1
  <2>6. \A k \in 1 .. Len(chan) : \A j \in 1 .. Len(chan) :
          k < j /\ chan[k].al.frag = chan[j].al.frag => Behind(chan[k], chan[j].al, chan[j].lo)
    BY DEF PosInv
  <2> QED
    BY <1>1, <2>2, <2>3, <2>4, <2>5, <2>6 DEF PosInv, Behind
<1>4. CASE ~LinkRxRestart
  <2>1. UNCHANGED <<link_sync, rx_free, rx_rasm>>
    BY <1>4 DEF LinkTxRestart, rx_vars, all_vars, link_vars
  <2>2. \A g \in FragIds : ~tx_free'[g] => ~tx_free[g] /\ tx_buf'[g] = tx_buf[g]
    BY <1>1
  <2>3. \A g \in FragIds : TxAwaited(g)'
    BY <2>1, <2>2 DEF PosInv, TxAwaited, Awaits
  <2>4. \A k \in 1 .. Len(chan) : TxAfter(chan[k])'
    BY <1>1, <1>2, <2>2 DEF PosInv, TxAfter
  <2> QED
    BY <1>1, <2>1, <2>3, <2>4 DEF PosInv, Awaits
<1> QED
  BY <1>3, <1>4

\* Every step keeps the order.
LEMMA PosNext ==
  ASSUME LinkBase, PosInv, [LinkNext]_all_vars
  PROVE  PosInv'
BY EncapPos, SendPos, ReceivePos, LosePos, RestartPos DEF LinkNext

\* Numbers that rise still do when SDUs are taken in, and when the transmitter starts
\* again from zero.
LEMMA RisingKept ==
  ASSUME NEW nums, NEW seq, NEW count \in Nat, NEW more \in Nat, count <= more,
         Rising(nums, seq, count)
  PROVE  Rising(nums, seq, more) /\ Rising(nums, 0, count)
<1>1. \A n \in nums : n.id \in 1 .. count /\ n \in [id : 1 .. more, val : 0 .. SeqMod - 1]
  BY DEF Rising
<1>2. ASSUME NEW m \in nums, ZeroIn(nums, m.id, count) PROVE ZeroIn(nums, m.id, more)
  BY <1>1, <1>2 DEF ZeroIn
<1> QED
  BY <1>1, <1>2 DEF Rising

\* The number given to the ALPDU id, after all the others.
LEMMA RisingAdd ==
  ASSUME NEW nums, NEW seq \in 0 .. SeqMod - 1, NEW count \in Nat, NEW id \in 1 .. count,
         Rising(nums, seq, count), \A m \in nums : m.id < id
  PROVE  Rising(nums \union {[id |-> id, val |-> seq]}, rle_ctx_incr_seq_nb(seq), count)
<1> DEFINE new == [id |-> id, val |-> seq]
           all == nums \union {new}
           next == rle_ctx_incr_seq_nb(seq)
<1>1. /\ next = 0 \/ next = seq + 1
      /\ SeqMod \in Nat \ {0}
  BY LimitsAssumption DEF rle_ctx_incr_seq_nb
<1>2. /\ new.id = id /\ new.val = seq /\ new \in [id : 1 .. count, val : 0 .. SeqMod - 1]
  OBVIOUS
<1> HIDE DEF new, next
<1>3. /\ all \subseteq [id : 1 .. count, val : 0 .. SeqMod - 1]
      /\ \A m \in nums : m.id \in 1 .. count /\ m.val \in 0 .. SeqMod - 1
  BY <1>2 DEF Rising
<1>4. ASSUME NEW m \in nums
      PROVE  /\ m.val < seq \/ ZeroIn(all, m.id, id)
             /\ ZeroIn(nums, m.id, count) => ZeroIn(all, m.id, count)
             /\ ZeroIn(all, m.id, id) => ZeroIn(all, m.id, count)
  <2>1. seq = 0 \/ m.val < seq \/ ZeroIn(nums, m.id, count)
    BY DEF Rising
  <2>2. CASE seq = 0
    BY <1>2, <1>3, <2>2 DEF ZeroIn
  <2>3. CASE ZeroIn(nums, m.id, count)
    BY <1>3, <2>3 DEF ZeroIn
  <2>4. ZeroIn(nums, m.id, count) => ZeroIn(all, m.id, count)
    BY DEF ZeroIn
  <2>5. ZeroIn(all, m.id, id) => ZeroIn(all, m.id, count)
    <3>1. \A n \in all : n.id \in Int
      BY <1>2, <1>3
    <3> QED
      BY <3>1 DEF ZeroIn
  <2> QED
    BY <2>1, <2>2, <2>3, <2>4, <2>5
<1>5. ASSUME NEW m \in all, NEW n \in all, m.id < n.id
      PROVE  m.val < n.val \/ ZeroIn(all, m.id, n.id)
  <2>1. m \in nums
    BY <1>2, <1>3, <1>5
  <2>2. CASE n \in nums
    BY <1>5, <2>1, <2>2 DEF Rising, ZeroIn
  <2>3. CASE n = new
    BY <1>2, <1>4, <2>1, <2>3
  <2> QED
    BY <2>2, <2>3
<1>6. ASSUME NEW m \in all PROVE next = 0 \/ m.val < next \/ ZeroIn(all, m.id, count)
  <2>1. CASE m \in nums
    <3>1. m.val < seq \/ ZeroIn(all, m.id, count)
      BY <1>4, <2>1
    <3>2. m.val \in Int /\ seq \in Int
      BY <1>1, <1>3, <2>1
    <3>3. m.val < seq => next = 0 \/ m.val < next
      BY <1>1, <3>2
    <3> QED
      BY <3>1, <3>3
  <2>2. CASE m = new
    BY <1>1, <1>2, <2>2
  <2> QED
    BY <2>1, <2>2
<1> QED
  BY <1>3, <1>5, <1>6 DEF Rising, new, next

LEMMA NumInit == LinkInit => NumInv
<1> SUFFICES ASSUME LinkInit PROVE NumInv
  OBVIOUS
<1>1. /\ chan = << >> /\ link_nums = [f \in FragIds |-> {}] /\ tx_count = 0
      /\ \A f \in FragIds : tx_free[f] /\ rx_free[f] /\ ~rx_seq_init[f]
  BY LinkAssumption DEF LinkInit, TxInit, RxInit
<1> QED
  BY <1>1 DEF NumInv, Numbered, Rising

\* rle_encapsulate: no number is given yet.
LEMMA EncapNum ==
  ASSUME LinkBase, NumInv, NEW f \in FragIds, NEW sdu \in TxSdus, LinkEncap(f, sdu)
  PROVE  NumInv'
<1>1. /\ LinkBase' /\ (Accepts(f, sdu) \/ Refuses(f)) /\ UNCHANGED <<chan, tx_seq>>
  BY EncapBase
<1>2. /\ UNCHANGED <<link_nums, link_sync, rx_free, rx_rasm, rx_seq, rx_seq_init, rx_conf>>
  BY DEF LinkEncap, rx_vars
<1>3. tx_conf' = tx_conf
  BY <1>1, <1>2 DEF LinkBase, Ends
<1>4. tx_count \in Nat /\ tx_free \in [FragIds -> BOOLEAN]
  BY LinkLengths
<1>5. ASSUME NEW g \in FragIds, Numbered(g) PROVE Numbered(g)'
  <2>1. Rising(link_nums[g], tx_seq[g], tx_count')
    <3>1. tx_count' \in Nat /\ tx_count <= tx_count'
      BY <1>1, <1>4 DEF Accepts, Refuses
    <3> QED
      BY <1>4, <1>5, <3>1, RisingKept DEF Numbered
  <2>2. CASE tx_free'[g] \/ (tx_free'[g] = tx_free[g] /\ tx_buf'[g] = tx_buf[g])
    BY <1>1, <1>2, <1>5, <2>1, <2>2 DEF Numbered
  <2>3. CASE Accepts(f, sdu) /\ g = f
    <3>1. /\ ~frag_buf_is_fragmented(tx_buf'[g]) /\ tx_buf'[g].id = tx_count + 1
      BY <2>3 DEF Accepts
    <3>2. \A m \in link_nums[g] : m.id \in 1 .. tx_count
      BY <1>5 DEF Numbered, Rising
    <3>3. \A m \in link_nums[g] : m.id < tx_buf'[g].id
      BY <1>4, <3>1, <3>2
    <3> QED
      BY <1>1, <1>2, <1>5, <2>1, <3>1, <3>3 DEF Numbered
  <2> QED
    BY <1>1, <1>4, <2>2, <2>3 DEF Accepts, Refuses
<1> QED
  BY <1>1, <1>2, <1>3, <1>5 DEF NumInv

\* rle_fragment: a START PPDU has the number that comes next in its context.
LEMMA SendNum ==
  ASSUME LinkBase, NumInv, NEW f \in FragIds, NEW burst \in Bursts, LinkSend(f, burst)
  PROVE  NumInv'
<1>1. /\ UNCHANGED <<tx_count, tx_conf>>
      /\ UNCHANGED <<link_sync, rx_free, rx_rasm, rx_seq, rx_seq_init>>
      /\ \/ SendsNothing /\ chan' = chan
         \/ Sends(f, tx_ppdu') /\ tx_ppdu' \in Ppdu /\ chan' = Append(chan, tx_ppdu')
      /\ link_nums' = IF tx_ppdu'.type = "START" /\ ~use_alpdu_crc(tx_conf)
                        THEN [link_nums EXCEPT ![f] = @ \union {num_of(tx_ppdu'.al)}]
                        ELSE link_nums
  <2>1. tx_conf' = tx_conf
    BY FragmentSends DEF LinkSend, LinkBase, Ends
  <2> QED
    BY <2>1, SendBase DEF LinkSend, rx_vars
<1>2. /\ tx_count \in Nat /\ tx_free \in [FragIds -> BOOLEAN] /\ chan \in Seq(Ppdu)
      /\ \A k \in 1 .. Len(chan) : chan[k].al.frag \in FragIds
      /\ \A g \in FragIds : ~tx_free[g] => tx_buf[g].id \in 1 .. tx_count
      /\ tx_seq \in [FragIds -> 0 .. SeqMod - 1] /\ Len(chan) \in Nat
  BY LinkLengths DEF LinkBase, Ends, TxInv, TxTypeOK
<1>3. link_nums \in [FragIds -> SUBSET [id : Nat, val : Nat]] /\ SeqMod \in Nat \ {0}
  BY LimitsAssumption DEF NumInv
<1>4. CASE use_alpdu_crc(tx_conf)
  BY <1>1, <1>3, <1>4 DEF NumInv
<1>5. CASE SendsNothing /\ chan' = chan /\ ~use_alpdu_crc(tx_conf)
  <2>1. /\ UNCHANGED <<tx_free, tx_seq>> /\ link_nums' = link_nums
        /\ \A g \in FragIds : /\ alpdu_of(tx_buf'[g], g) = alpdu_of(tx_buf[g], g)
                              /\ tx_buf'[g].id = tx_buf[g].id
                              /\ frag_buf_is_fragmented(tx_buf'[g])
                                   <=> frag_buf_is_fragmented(tx_buf[g])
    BY <1>1, <1>5 DEF SendsNothing, NoPpdu
  <2>2. \A g \in FragIds : Numbered(g)'
    BY <1>1, <1>5, <2>1 DEF NumInv, Numbered
  <2> QED
    BY <1>1, <1>5, <2>1, <2>2 DEF NumInv
<1>6. CASE /\ ~use_alpdu_crc(tx_conf)
           /\ Sends(f, tx_ppdu') /\ tx_ppdu' \in Ppdu /\ chan' = Append(chan, tx_ppdu')
  <2> DEFINE p == tx_ppdu'
             n == Len(chan) + 1
             num == [id |-> tx_buf[f].id, val |-> tx_seq[f]]
  <2>1. /\ ~tx_free[f] /\ p.al = alpdu_of(tx_buf'[f], f) /\ p.al.id = tx_buf[f].id
        /\ p.type \in {"COMP", "START"} <=> ~frag_buf_is_fragmented(tx_buf[f])
        /\ p.type \in {"CONT", "END"} => p.al = alpdu_of(tx_buf[f], f)
        /\ tx_free' = [tx_free EXCEPT ![f] = p.type \in {"COMP", "END"}]
        /\ \A g \in FragIds \ {f} : tx_buf'[g] = tx_buf[g]
        /\ IF p.type = "START"
             THEN p.al.trailer.val = tx_seq[f]
                  /\ tx_seq' = [tx_seq EXCEPT ![f] = rle_ctx_incr_seq_nb(@)]
             ELSE tx_seq' = tx_seq
    BY <1>6 DEF Sends
  <2>2. /\ p.type \in {"COMP", "START", "CONT", "END"} /\ p.al.frag = f
        /\ p.type \in {"START", "CONT"} => frag_buf_is_fragmented(tx_buf'[f])
    <3>1. p.al.frag = f /\ p.type \in {"COMP", "START", "CONT", "END"}
      BY <1>6, <2>1 DEF alpdu_of, Ppdu, PpduTypes
    <3>2. p.hi = pos_of(tx_buf'[f]) /\ 0 < p.hi
      <4>1. p.hi = pos_of(tx_buf'[f]) /\ PpduOK(p, tx_conf) /\ tx_conf \in ConfRecord
        BY <1>6 DEF Sends, LinkBase, Ends, TxInv, TxTypeOK
      <4>2. p.lo \in Nat /\ p.hi \in Nat /\ p.lo < p.hi
        BY <4>1, PpduLengths
      <4> QED
        BY <4>1, <4>2
    <3>3. tx_buf'[f].cur_pos \in Int /\ tx_buf'[f].alpdu_start \in Int
      <4>1. tx_buf'[f] \in FragBuf
        BY SendBase DEF LinkBase, Ends, TxInv, TxTypeOK
      <4> QED
        BY <4>1 DEF FragBuf, Offset
    <3> QED
      BY <3>1, <3>2, <3>3 DEF pos_of, frag_buf_is_fragmented
  <2>3. num_of(p.al) = [id |-> tx_buf[f].id, val |-> p.al.trailer.val]
    BY <2>1 DEF num_of
  <2>4. /\ Len(chan') = n /\ chan'[n] = p
        /\ \A k \in 1 .. Len(chan) : chan'[k] = chan[k]
    BY <1>2, <1>6, Appended
  <2> HIDE DEF p
  <2>5. /\ link_nums' \in [FragIds -> SUBSET [id : Nat, val : Nat]]
        /\ \A g \in FragIds \ {f} : link_nums'[g] = link_nums[g]
        /\ link_nums[f] \subseteq link_nums'[f]
        /\ IF p.type = "START" THEN link_nums'[f] = link_nums[f] \union {num}
                               ELSE link_nums'[f] = link_nums[f]
    <3>1. CASE p.type = "START"
      <4>1. num_of(p.al) = num /\ num \in [id : Nat, val : Nat]
        BY <1>2, <1>3, <2>1, <2>3, <3>1
      <4>2. link_nums' = [link_nums EXCEPT ![f] = @ \union {num}]
        BY <1>1, <1>6, <3>1, <4>1 DEF p
      <4> HIDE DEF num
      <4>3. link_nums'[f] = link_nums[f] \union {num}
        BY <1>3, <4>2
      <4>4. \A g \in FragIds \ {f} : link_nums'[g] = link_nums[g]
        BY <1>3, <4>2
      <4>5. link_nums' \in [FragIds -> SUBSET [id : Nat, val : Nat]]
        BY <1>3, <4>1, <4>2
      <4> QED
        BY <3>1, <4>3, <4>4, <4>5
    <3>2. CASE p.type # "START"
      BY <1>1, <1>3, <3>2 DEF p
    <3> QED
      BY <3>1, <3>2
  <2>6. \A g \in FragIds : Numbered(g)
    BY <1>6 DEF NumInv
  <2>7. num_of(p.al) \in link_nums'[f] \/ p.type = "COMP"
    <3>1. CASE p.type = "START"
      BY <2>1, <2>3, <2>5, <3>1
    <3>2. CASE p.type \in {"CONT", "END"}
      BY <2>1, <2>5, <2>6, <3>2 DEF Numbered
    <3> QED
      BY <2>2, <3>1, <3>2
  <2>8. Rising(link_nums'[f], tx_seq'[f], tx_count)
    <3>1. CASE p.type = "START"
      <4>1. \A m \in link_nums[f] : m.id < tx_buf[f].id
        BY <2>1, <2>6, <3>1 DEF Numbered
      <4>2. Rising(link_nums[f], tx_seq[f], tx_count)
        BY <2>6 DEF Numbered
      <4>3. tx_seq[f] \in 0 .. SeqMod - 1 /\ tx_buf[f].id \in 1 .. tx_count
        BY <1>2, <2>1
      <4>4. Rising(link_nums[f] \union {num}, rle_ctx_incr_seq_nb(tx_seq[f]), tx_count)
        BY <1>2, <4>1, <4>2, <4>3, RisingAdd
      <4>5. tx_seq'[f] = rle_ctx_incr_seq_nb(tx_seq[f])
        BY <1>2, <2>1, <3>1
      <4> QED
        BY <2>5, <3>1, <4>4, <4>5
    <3>2. CASE p.type # "START"
      BY <2>1, <2>5, <2>6, <3>2 DEF Numbered
    <3> QED
      BY <3>1, <3>2
  <2>9. ASSUME NEW g \in FragIds PROVE Numbered(g)'
    <3>1. CASE g = f
      <4>1. ~tx_free'[f] => /\ frag_buf_is_fragmented(tx_buf'[f])
                            /\ num_of(alpdu_of(tx_buf'[f], f)) \in link_nums'[f]
        BY <1>2, <2>1, <2>2, <2>7
      <4>2. ~rx_free[f] => num_of(rx_rasm[f].start.al) \in link_nums'[f]
        BY <2>5, <2>6 DEF Numbered
      <4>3. rx_seq_init[f] => \E m \in link_nums'[f] :
              m.id = link_sync[f] /\ rx_seq[f] = rle_ctx_incr_seq_nb(m.val)
        BY <2>5, <2>6 DEF Numbered
      <4> QED
        BY <1>1, <2>8, <3>1, <4>1, <4>2, <4>3 DEF Numbered
    <3>2. CASE g # f
      <4>1. tx_free'[g] = tx_free[g] /\ tx_buf'[g] = tx_buf[g] /\ tx_seq'[g] = tx_seq[g]
        BY <1>2, <2>1, <3>2
      <4> QED
        BY <1>1, <2>5, <2>6, <3>2, <4>1 DEF Numbered
    <3> QED
      BY <3>1, <3>2
  <2>10. ASSUME NEW k \in 1 .. Len(chan'), chan'[k].type # "COMP"
         PROVE  num_of(chan'[k].al) \in link_nums'[chan'[k].al.frag]
    <3>1. CASE k = n
      BY <2>2, <2>4, <2>7, <2>10, <3>1
    <3>2. CASE k # n
      <4>1. k \in 1 .. Len(chan)
        BY <1>2, <2>4, <3>2
      <4>2. num_of(chan[k].al) \in link_nums[chan[k].al.frag] /\ chan[k].al.frag \in FragIds
        BY <1>2, <1>6, <2>4, <2>10, <4>1 DEF NumInv
      <4> QED
        BY <2>4, <2>5, <4>1, <4>2
    <3> QED
      BY <3>1, <3>2
  <2> QED
    BY <1>1, <2>5, <2>9, <2>10 DEF NumInv
<1> QED
  BY <1>1, <1>4, <1>5, <1>6

\* rle_receiver_deencap_data: the ALPDUs that the receiver works on have their numbers, and
\* the one that it expects next follows that of the END PPDU, or is the same as before.
LEMMA ReceiveNum ==
  ASSUME LinkBase, PosInv, NumInv, LinkReceive
  PROVE  NumInv'
<1> DEFINE p == Head(chan)
<1>1. /\ chan # << >> /\ chan' = Tail(chan) /\ link_nums' = link_nums
      /\ link_sync' = IF SeqFollowed(p) THEN [link_sync EXCEPT ![p.frag] = p.al.id]
                                         ELSE link_sync
  BY DEF LinkReceive, follows, SeqFollowed
<1>2. UNCHANGED <<tx_conf, tx_free, tx_buf, tx_count, tx_seq, link_sent>>
  BY ReceiveBase
<1>3. /\ Sent(p, link_sent) /\ p = chan[1] /\ 1 \in 1 .. Len(chan) /\ p.al.frag \in FragIds
  BY <1>1, HeadSent
<1>4. /\ p.type # "COMP" => p.frag = p.al.frag
  BY <1>3, LinkLengths
<1>5. /\ PpduOK(p, rx_conf) /\ Arrives(p) /\ RxInv /\ RxStarts /\ RxFragIds = FragIds
      /\ rle_receiver_deencap_data(p) /\ rx_conf = tx_conf
  BY <1>3, SentPpdu DEF LinkBase, Ends, LinkReceive
<1>6. /\ p.type = "COMP" => UNCHANGED <<rx_free, rx_rasm, rx_seq, rx_seq_init>>
      /\ OthersKept(p.frag) /\ Reopens(p)
  <2>1. p.type = "COMP" \/ p.frag \in RxFragIds
    BY <1>3, <1>4, <1>5
  <2> QED
    BY <1>5, <2>1, OwnContext, DeencapOutcome
<1>7. p.type # "COMP" => SeqFollowed(p) \/ use_alpdu_crc(rx_conf) \/ SeqKept(p.frag)
  BY <1>5, FragmentReceived
<1>8. link_sync \in [FragIds -> Nat] /\ link_nums \in [FragIds -> SUBSET [id : Nat, val : Nat]]
  BY DEF PosInv, NumInv
<1>9. /\ ~use_alpdu_crc(tx_conf) /\ p.type # "COMP" => num_of(p.al) \in link_nums[p.frag]
      /\ num_of(p.al).id = p.al.id /\ num_of(p.al).val = p.al.trailer.val
  BY <1>3, <1>4 DEF NumInv, num_of
<1>10. ASSUME NEW k \in 1 .. Len(chan') PROVE k + 1 \in 1 .. Len(chan) /\ chan'[k] = chan[k + 1]
  BY <1>1, <1>2, TailBase
<1> HIDE DEF p
<1>11. ASSUME ~use_alpdu_crc(tx_conf), NEW f \in FragIds PROVE Numbered(f)'
  <2>1. Numbered(f)
    BY <1>11 DEF NumInv
  <2>2. ~rx_free'[f] => num_of(rx_rasm'[f].start.al) \in link_nums[f]
    <3>1. ASSUME ~rx_free[f], rx_rasm'[f].start = rx_rasm[f].start
          PROVE  num_of(rx_rasm'[f].start.al) \in link_nums[f]
      BY <2>1, <3>1 DEF Numbered
    <3>2. ASSUME p.type = "START", p.frag = f, rx_rasm'[f].start = p
          PROVE  num_of(rx_rasm'[f].start.al) \in link_nums[f]
      BY <1>9, <1>11, <3>2
    <3> QED
      BY <1>5, <1>6, <3>1, <3>2 DEF Reopens
  <2>3. rx_seq_init'[f] => \E m \in link_nums[f] :
          m.id = link_sync'[f] /\ rx_seq'[f] = rle_ctx_incr_seq_nb(m.val)
    <3>1. CASE SeqFollowed(p) /\ p.frag = f
      <4>1. /\ p.type = "END" /\ rx_seq'[f] = rle_ctx_incr_seq_nb(p.al.trailer.val)
        BY <3>1 DEF SeqFollowed
      <4>2. link_sync'[f] = p.al.id /\ num_of(p.al) \in link_nums[f]
        BY <1>1, <1>8, <1>9, <1>11, <3>1, <4>1
      <4> QED
        BY <1>9, <4>1, <4>2
    <3>2. CASE ~(SeqFollowed(p) /\ p.frag = f)
      <4>1. link_sync'[f] = link_sync[f]
        BY <1>1, <1>8, <3>2
      <4>2. rx_seq'[f] = rx_seq[f] /\ rx_seq_init'[f] = rx_seq_init[f]
        <5>1. CASE p.type = "COMP"
          BY <1>6, <5>1
        <5>2. CASE p.frag # f
          BY <1>5, <1>6, <5>2 DEF OthersKept
        <5>3. CASE p.type # "COMP" /\ p.frag = f
          BY <1>5, <1>7, <1>11, <3>2, <5>3 DEF SeqKept
        <5> QED
          BY <5>1, <5>2, <5>3
      <4> QED
        BY <2>1, <4>1, <4>2 DEF Numbered
    <3> QED
      BY <3>1, <3>2
  <2> QED
    BY <1>1, <1>2, <2>1, <2>2, <2>3 DEF Numbered
<1>12. ASSUME ~use_alpdu_crc(tx_conf), NEW k \in 1 .. Len(chan'), chan'[k].type # "COMP"
       PROVE  num_of(chan'[k].al) \in link_nums[chan'[k].al.frag]
  BY <1>10, <1>12 DEF NumInv
<1> QED
  BY <1>1, <1>2, <1>8, <1>11, <1>12 DEF NumInv

LEMMA LoseNum ==
  ASSUME LinkBase, NumInv, LinkLose
  PROVE  NumInv'
<1>1. /\ chan # << >> /\ chan' = Tail(chan) /\ UNCHANGED <<link_nums, link_sync, link_sent>>
      /\ UNCHANGED <<tx_conf, tx_free, tx_buf, tx_count, tx_seq>>
      /\ UNCHANGED <<rx_free, rx_rasm, rx_seq, rx_seq_init>>
  BY DEF LinkLose, tx_vars, rx_vars
<1>2. \A k \in 1 .. Len(chan') : k + 1 \in 1 .. Len(chan) /\ chan'[k] = chan[k + 1]
  BY <1>1, TailBase
<1>3. \A f \in FragIds : Numbered(f) => Numbered(f)'
  BY <1>1 DEF Numbered
<1> QED
  BY <1>1, <1>2, <1>3 DEF NumInv

LEMMA RestartNum ==
  ASSUME LinkBase, NumInv, LinkTxRestart \/ LinkRxRestart \/ UNCHANGED all_vars
  PROVE  NumInv'
<1>1. /\ UNCHANGED <<chan, tx_count, tx_conf>>
      /\ LinkTxRestart => \A f \in FragIds : tx_free'[f] /\ tx_seq'[f] = 0
      /\ ~LinkTxRestart => UNCHANGED <<tx_free, tx_buf, tx_seq>>
      /\ LinkRxRestart => \A f \in FragIds : rx_free'[f] /\ ~rx_seq_init'[f]
  BY RestartBase
<1>2. /\ link_nums' = link_nums
      /\ ~LinkRxRestart => UNCHANGED <<link_sync, rx_free, rx_rasm, rx_seq, rx_seq_init>>
  BY DEF LinkTxRestart, LinkRxRestart, rx_vars, all_vars, link_vars
<1>3. ASSUME NEW f \in FragIds, Numbered(f) PROVE Numbered(f)'
  <2>1. /\ Rising(link_nums'[f], tx_seq'[f], tx_count')
        /\ ~tx_free'[f] =>
             IF frag_buf_is_fragmented(tx_buf'[f])
               THEN num_of(alpdu_of(tx_buf'[f], f)) \in link_nums'[f]
               ELSE \A m \in link_nums'[f] : m.id < tx_buf'[f].id
    <3>1. CASE LinkTxRestart
      <4>1. Rising(link_nums[f], 0, tx_count)
        <5>1. tx_count \in Nat /\ tx_count <= tx_count /\ Rising(link_nums[f], tx_seq[f], tx_count)
          BY <1>3, LinkLengths DEF Numbered
        <5> QED
          BY <5>1, RisingKept
      <4> QED
        BY <1>1, <1>2, <3>1, <4>1
    <3>2. CASE ~LinkTxRestart
      BY <1>1, <1>2, <1>3, <3>2 DEF Numbered
    <3> QED
      BY <3>1, <3>2
  <2>2. /\ ~rx_free'[f] => num_of(rx_rasm'[f].start.al) \in link_nums'[f]
        /\ rx_seq_init'[f] => \E m \in link_nums'[f] :
             m.id = link_sync'[f] /\ rx_seq'[f] = rle_ctx_incr_seq_nb(m.val)
    BY <1>1, <1>2, <1>3 DEF Numbered
  <2> QED
    BY <2>1, <2>2 DEF Numbered
<1> QED
  BY <1>1, <1>2, <1>3 DEF NumInv

\* Every step keeps the numbers.
LEMMA NumNext ==
  ASSUME LinkBase, PosInv, NumInv, [LinkNext]_all_vars
  PROVE  NumInv'
BY EncapNum, SendNum, ReceiveNum, LoseNum, RestartNum DEF LinkNext

\* What an END PPDU makes the receiver hand over: its trailer is accepted, and it is whole
\* when the END PPDU is of the ALPDU of its context, of which no byte is missing before it.
EndAccepted(p) ==
  LET f == p.frag
      b == rx_rasm[f]
  IN /\ p.type = "END" /\ ~rx_free[f] /\ rx_sdu'.frag = f
     /\ use_alpdu_crc(rx_conf) => rx_sdu'.whole
     /\ ~use_alpdu_crc(rx_conf) => seq_no_accepted(f, p.al.trailer.val)
     /\ p.al = b.start.al /\ (rasm_pos(b) = p.lo => b.whole) => rx_sdu'.whole

LEMMA EndTrailer ==
  ASSUME RxInv, RxStarts, NEW p, PpduOK(p, rx_conf), Arrives(p), RxEndComplete(p), rx_sdu'.some
  PROVE  EndAccepted(p)
<1> DEFINE f == p.frag
           r == rx_rasm[f]
           b == end_buf(p)
           s == r.start
           n == end_sdu_len(p)
<1>1. EndAdds(p) /\ p.type = "END" /\ ~rx_free[f] /\ sdu_complete(b)
  BY DEF RxEndComplete, EndAdds
<1>2. /\ f \in RxFragIds /\ r \in RasmBuf /\ BufOK(r, rx_use_crc[f], f) /\ rx_conf \in ConfRecord
      /\ PpduOK(s, rx_conf) /\ s.type = "START" /\ s.frag = f /\ rx_use_crc[f] = s.use_crc
  BY <1>1 DEF Arrives, RxInv, RxTypeOK, RxBufs, RxStarts, BufOK
<1>3. rx_use_crc[f] = use_alpdu_crc(rx_conf)
  BY <1>2 DEF PpduOK
<1>4. /\ n \in Nat /\ n = (p.hi - p.lo) - TrailerSize(rx_conf)
      /\ TrailerSize(rx_conf) \in Nat
  <2>1. carried(p) = p.hi - p.lo /\ p.hi \in Nat /\ p.lo \in Nat /\ TrailerSize(rx_conf) \in 1 .. 4
    BY <1>2, PpduLengths
  <2>2. alpdu_trailer_len(rx_use_crc[f]) = TrailerSize(rx_conf)
    BY <1>3 DEF TrailerSize
  <2>3. n >= 0 /\ n = carried(p) - alpdu_trailer_len(rx_use_crc[f])
    BY <1>1 DEF EndAdds, end_sdu_len
  <2> HIDE DEF n
  <2> QED
    BY <2>1, <2>2, <2>3
<1>5. b = rasm_buf_add(r, p, n)
  BY DEF end_buf
<1> HIDE DEF n, b
<1>6. /\ b.start = s /\ b.hdr_len = r.hdr_len /\ b.got = r.got + n /\ b.size = r.size
      /\ r.whole /\ p.al = s.al /\ p.lo = rasm_pos(r) => b.whole
  BY <1>2, <1>4, <1>5, BufGrows
<1>7. PICK outs \in rebuilt_choices(b) : \E out \in outs :
        rx_sdu' = IF trailer_accepted(f, out, p.al.trailer) THEN out ELSE NoRxSdu
  <2>1. ASSUME EndsWith(p, "C_ERROR", NoRxSdu, 1, 0) PROVE FALSE
    BY <2>1 DEF EndsWith, RxReturns, NoRxSdu
  <2> QED
    BY <2>1 DEF RxEndComplete, EndsWith, RxReturns, b
<1>8. PICK out \in outs : trailer_accepted(f, out, p.al.trailer) /\ rx_sdu' = out
  BY <1>7 DEF NoRxSdu
<1>9. /\ rx_sdu'.frag = f
      /\ rx_sdu'.whole = (b.whole /\ b.size = s.al.sdu.size - s.al.hdr.cut)
  <2>1. PICK sdu : out = HandOver(sdu, b.start,
                            b.whole /\ b.size = b.start.al.sdu.size - b.start.al.hdr.cut)
    BY <1>7, <1>8, BufRebuilt
  <2> QED
    BY <1>2, <1>6, <1>8, <2>1 DEF HandOver
<1>10. /\ use_alpdu_crc(rx_conf) => rx_sdu'.whole
       /\ ~use_alpdu_crc(rx_conf) => seq_no_accepted(f, p.al.trailer.val)
  BY <1>3, <1>8 DEF trailer_accepted, crc_matches
<1>11. ASSUME p.al = s.al, rasm_pos(r) = p.lo => r.whole PROVE rx_sdu'.whole
  <2>1. /\ s.total = AlpduLen(s.al) + TrailerSize(rx_conf)
        /\ p.hi = AlpduLen(p.al) + TrailerSize(rx_conf)
    BY <1>1, <1>2 DEF PpduOK
  <2>2. /\ r.size = (s.total - r.hdr_len) - TrailerSize(rx_conf)
        /\ r.whole => r.hdr_len = s.al.hdr.len
    BY <1>2, <1>3 DEF BufOK, TrailerSize
  <2>3. r.got + n = r.size
    <3>1. b.got >= b.size /\ r.got + n <= r.size /\ r.size \in Int /\ r.got \in Int
      BY <1>1, <1>2 DEF sdu_complete, sdu_frag_fits, EndAdds, RasmBuf, n
    <3> QED
      BY <1>4, <1>6, <3>1
  <2>4. /\ AlpduLen(s.al) \in Nat /\ p.lo \in Nat /\ p.hi \in Nat
        /\ s.al.sdu.size - s.al.hdr.cut = AlpduLen(s.al) - s.al.hdr.len
    BY <1>2, PpduLengths
  <2>5. r.hdr_len \in Int /\ r.got \in Int
    BY <1>2 DEF RasmBuf
  <2>6. rasm_pos(r) = p.lo
    <3>1. p.hi = AlpduLen(s.al) + TrailerSize(rx_conf)
      BY <1>11, <2>1
    <3>2. r.size = AlpduLen(s.al) - r.hdr_len
      BY <1>4, <2>1, <2>2, <2>4, <2>5
    <3>3. n = AlpduLen(s.al) - p.lo
      BY <1>4, <2>4, <3>1
    <3>4. r.hdr_len + r.got = p.lo
      BY <2>3, <2>4, <2>5, <3>2, <3>3
    <3> QED
      BY <3>4 DEF rasm_pos
  <2>7. b.whole /\ r.hdr_len = s.al.hdr.len
    BY <1>6, <1>11, <2>2, <2>6
  <2>8. b.size = s.al.sdu.size - s.al.hdr.cut
    BY <1>4, <1>6, <2>1, <2>2, <2>4, <2>5, <2>7
  <2> QED
    BY <1>9, <2>7, <2>8
<1> QED
  BY <1>1, <1>9, <1>10, <1>11 DEF EndAccepted

\* What is handed over came in a COMP PPDU, or with an END PPDU that is accepted.
LEMMA HandedOver ==
  ASSUME RxInv, RxStarts, NEW p, PpduOK(p, rx_conf), Arrives(p),
         rle_receiver_deencap_data(p), rx_sdu'.some
  PROVE  rx_sdu'.whole \/ EndAccepted(p)
<1>1. CASE RxComp(p)
  BY <1>1 DEF RxComp, RxReturns, NoRxSdu, HandOver
<1>2. CASE RxEndComplete(p)
  BY <1>2, EndTrailer
<1>3. CASE \/ RxStart(p) \/ RxStartError(p) \/ RxCont(p) \/ RxContError(p)
           \/ RxEndFree(p) \/ RxEndRefused(p) \/ RxEndShort(p)
  BY <1>3 DEF RxStart, RxStartError, RxCont, RxContError, RxEndFree, RxEndRefused, RxEndShort,
              DropOne, EndsWith, RxReturns, NoRxSdu
<1> QED
  BY <1>1, <1>2, <1>3 DEF rle_receiver_deencap_data

\* The number that follows that of the ALPDU k is not that of an ALPDU j two numbers or
\* more later, unless zero was given in between.
LEMMA NumbersTell ==
  ASSUME NEW nums, NEW seq, NEW count \in Nat, Rising(nums, seq, count),
         NEW k \in nums, NEW i \in nums, NEW j \in nums, k.id < i.id, i.id < j.id,
         j.val = rle_ctx_incr_seq_nb(k.val)
  PROVE  ZeroIn(nums, k.id, j.id)
<1>1. \A n \in nums : n.id \in 1 .. count /\ n.val \in 0 .. SeqMod - 1
  BY DEF Rising
<1>2. SeqMod \in Nat \ {0}
  BY LimitsAssumption
<1>3. j.val = 0 \/ j.val = k.val + 1
  BY <1>1, <1>2 DEF rle_ctx_incr_seq_nb
<1>4. k.val < i.val \/ ZeroIn(nums, k.id, i.id)
  BY DEF Rising
<1>5. i.val < j.val \/ ZeroIn(nums, i.id, j.id)
  BY DEF Rising
<1>6. CASE ZeroIn(nums, k.id, i.id)
  BY <1>1, <1>6 DEF ZeroIn
<1>7. CASE ZeroIn(nums, i.id, j.id)
  BY <1>1, <1>7 DEF ZeroIn
<1>8. CASE k.val < i.val /\ i.val < j.val
  BY <1>1, <1>2, <1>3, <1>8
<1> QED
  BY <1>4, <1>5, <1>6, <1>7, <1>8

\* What SeqNoProtects says of a step.
NumberProtects ==
  LET f == rx_sdu'.frag
  IN rx_sdu' # rx_sdu /\ rx_sdu'.some =>
       \/ rx_sdu'.whole
       \/ ~rx_seq_init[f]
       \/ \E num \in link_nums[f] :
            num.val = 0 /\ link_sync[f] < num.id /\ num.id <= Head(chan).al.id

LEMMA ReceiveProtects ==
  ASSUME LinkBase, PosInv, NumInv, LinkReceive
  PROVE  NumberProtects
<1> DEFINE p == Head(chan)
           f == p.frag
           s == rx_rasm[f].start
<1> SUFFICES ASSUME rx_sdu'.some, ~rx_sdu'.whole, rx_seq_init[rx_sdu'.frag]
             PROVE  ZeroIn(link_nums[rx_sdu'.frag], link_sync[rx_sdu'.frag], p.al.id)
  BY DEF NumberProtects, ZeroIn
<1>1. /\ Sent(p, link_sent) /\ p = chan[1] /\ 1 \in 1 .. Len(chan) /\ p.al.frag \in FragIds
  BY HeadSent DEF LinkReceive
<1>2. /\ p.type # "COMP" => f = p.al.frag
      /\ p.al.id \in Nat /\ tx_count \in Nat
  BY <1>1, LinkLengths
<1>3. EndAccepted(p)
  <2>1. /\ PpduOK(p, rx_conf) /\ Arrives(p) /\ RxInv /\ RxStarts
        /\ rle_receiver_deencap_data(p)
    BY <1>1, SentPpdu DEF LinkBase, Ends, LinkReceive
  <2> QED
    BY <2>1, HandedOver
<1>4. /\ p.type = "END" /\ ~rx_free[f] /\ rx_sdu'.frag = f /\ f = p.al.frag /\ f \in FragIds
      /\ ~use_alpdu_crc(tx_conf) /\ seq_no_accepted(f, p.al.trailer.val)
      /\ p.al = s.al => rasm_pos(rx_rasm[f]) = p.lo /\ ~rx_rasm[f].whole
  <2>1. rx_conf = tx_conf
    BY DEF LinkBase, Ends
  <2> QED
    BY <1>1, <1>2, <1>3, <2>1 DEF EndAccepted
<1>5. /\ link_sync[f] < p.al.id /\ NotPast(rx_rasm[f], p.al, p.lo)
      /\ link_sync[f] < s.al.id /\ s.al.id \in Nat /\ link_sync[f] \in Nat
  BY <1>1, <1>4, RasmLengths DEF PosInv, Awaits
<1>6. /\ Numbered(f) /\ num_of(p.al) \in link_nums[f] /\ num_of(s.al) \in link_nums[f]
      /\ num_of(p.al).id = p.al.id /\ num_of(p.al).val = p.al.trailer.val
      /\ num_of(s.al).id = s.al.id
  <2>1. Numbered(f) /\ num_of(p.al) \in link_nums[f]
    BY <1>1, <1>4 DEF NumInv
  <2>2. num_of(s.al) \in link_nums[f]
    BY <1>4, <2>1 DEF Numbered
  <2> QED
    BY <2>1, <2>2 DEF num_of
<1>7. CASE p.al.trailer.val = 0
  BY <1>2, <1>4, <1>5, <1>6, <1>7 DEF ZeroIn
<1>8. CASE p.al.trailer.val = rx_seq[f]
  <2>1. PICK m \in link_nums[f] :
          m.id = link_sync[f] /\ rx_seq[f] = rle_ctx_incr_seq_nb(m.val)
    BY <1>4, <1>6 DEF Numbered
  <2>2. s.al.id < p.al.id
    BY <1>2, <1>4, <1>5 DEF NotPast
  <2>3. Rising(link_nums[f], tx_seq[f], tx_count)
    BY <1>6 DEF Numbered
  <2>4. ZeroIn(link_nums[f], m.id, num_of(p.al).id)
    BY <1>2, <1>5, <1>6, <1>8, <2>1, <2>2, <2>3, NumbersTell
  <2> QED
    BY <1>4, <1>6, <2>1, <2>4
<1> QED
  BY <1>4, <1>7, <1>8 DEF seq_no_accepted

LEMMA StepProtects ==
  ASSUME LinkBase, PosInv, NumInv, [LinkNext]_all_vars
  PROVE  NumberProtects
<1>1. CASE LinkReceive
  BY <1>1, ReceiveProtects
<1>2. CASE LinkRxRestart
  BY <1>2 DEF LinkRxRestart, RxRestart, NoRxSdu, NumberProtects
<1>3. CASE rx_sdu' = rx_sdu
  BY <1>3 DEF NumberProtects
<1> QED
  BY <1>1, <1>2, <1>3 DEF LinkNext, LinkEncap, LinkSend, LinkLose, LinkTxRestart, rx_vars, all_vars

-----------------------------------------------------------------------------
(* Theorems *)

LinkAsserts == TxAssertsHold /\ RxAssertsHold

\* A receiver fed by a transmitter of the same configuration over a link that loses
\* PPDUs aborts no more than the transmitter does: what rle_fragment cuts is what
\* rle_receiver_deencap_data can take, whatever is lost and whoever restarts.
THEOREM LinkNeverAborts == LinkSpec => []LinkAsserts
<1>1. LinkBase => LinkAsserts
  BY DEF LinkBase, Ends, TxInv, RxInv, LinkAsserts
<1> QED
  BY <1>1, BaseInit, BaseNext, PTL DEF LinkSpec

\* With CRC trailers, transmitter, link and receiver implement RleService: SDUs are
\* handed over unaltered, in the order in which rle_encapsulate took them in, each at
\* most once, for any number of PPDUs under way or lost, restarts, configurations and
\* SDUs (none of which the receiver takes for a VLAN frame).
THEOREM LinkRefinesService == CrcProtected => (LinkSpec => ImplementsService)
<1> SUFFICES ASSUME CrcProtected PROVE LinkSpec => ImplementsService
  OBVIOUS
<1>1. LinkInit => Service!ServiceInit
  BY DEF LinkInit, Service!ServiceInit
<1>2. LinkBase /\ OrderInv /\ [LinkNext]_all_vars => OrderInv'
  BY OrderNext
<1>3. LinkBase /\ OrderInv /\ [LinkNext]_all_vars => [Service!ServiceNext]_(Service!service_vars)
  BY ServiceStep
<1> QED
  BY <1>1, <1>2, <1>3, BaseInit, BaseNext, OrderInit, PTL
     DEF LinkSpec, ImplementsService, Service!ServiceSpec

\* While nothing is lost and nobody restarts with SDUs under way, with CRC trailers or
\* sequence numbers, the receiver reports no error, hands over what rle_encapsulate took
\* in and in that order, and misses nothing once the link is empty.  No SDU is one that
\* the receiver takes for a VLAN frame.
THEOREM LinkLosesNothing == NoneAsVlan => (LinkSpec => []NothingLostUndisturbed)
<1> SUFFICES ASSUME NoneAsVlan PROVE LinkSpec => []NothingLostUndisturbed
  OBVIOUS
<1>1. LinkInit => LosslessInv
  BY LosslessInit
<1>2. LinkBase /\ LosslessInv /\ [LinkNext]_all_vars => LosslessInv'
  BY LosslessNext
<1>3. LinkBase /\ LosslessInv => NothingLostUndisturbed
  BY LosslessHolds
<1> QED
  BY <1>1, <1>2, <1>3, BaseInit, BaseNext, PTL DEF LinkSpec

\* The damage that losses do is bounded, for any number of PPDUs under way or lost and
\* whoever restarts: of ALPDUs received in full one after the other, the second and all
\* later ones are handed over unaltered with CRC trailers, the third and all later ones
\* with sequence numbers.  An END PPDU frees its context whatever reassembly_end_ppdu makes
\* of it, and a complete ALPDU synchronises the sequence number, accepted or not.
THEOREM LinkRecovers == NoneAsVlan => (LinkSpec => Recovers)
<1> SUFFICES ASSUME NoneAsVlan PROVE LinkSpec => Recovers
  OBVIOUS
<1>1. LinkBase /\ RunInv /\ [LinkNext]_all_vars => RunInv'
  BY RunNext
<1>2. LinkBase /\ RunInv /\ [LinkNext]_all_vars => [HandsOverRun]_all_vars
  BY RunNext
<1>3. [][HandsOverRun]_all_vars => Recovers
  BY DEF HandsOverRun, Recovers
<1> QED
  BY <1>1, <1>2, <1>3, RunInit, BaseInit, BaseNext, PTL DEF LinkSpec

\* With sequence numbers a mixture of SDUs is handed over only where check_alpdu_trailer
\* cannot tell: when its number is the first one that the context receives, or when zero
\* was given again since the receiver got in step.  For any number of PPDUs under way or
\* lost, whoever restarts, and for any modulus of the numbers: a number that comes round
\* again has zero before it, since numbers rise from one zero to the next.
THEOREM LinkSeqNoProtects == LinkSpec => SeqNoProtects
<1>1. LinkBase /\ PosInv /\ [LinkNext]_all_vars => PosInv'
  BY PosNext
<1>2. LinkBase /\ PosInv /\ NumInv /\ [LinkNext]_all_vars => NumInv'
  BY NumNext
<1>3. LinkBase /\ PosInv /\ NumInv /\ [LinkNext]_all_vars => [NumberProtects]_all_vars
  BY StepProtects
<1>4. [][NumberProtects]_all_vars => SeqNoProtects
  BY DEF NumberProtects, SeqNoProtects
<1> QED
  BY <1>1, <1>2, <1>3, <1>4, PosInit, NumInit, BaseInit, BaseNext, PTL DEF LinkSpec

=============================================================================
