--------------------------- MODULE RleFpduProofs ---------------------------
(***************************************************************************)
(* Proofs about FPDUs: rle_decapsulate finds the PPDUs that were packed,   *)
(* for FPDUs and labels of every size, whatever the FPDU buffer held       *)
(* before; what goes through FPDUs is what was sent.                       *)
(***************************************************************************)
EXTENDS RleFpdu, RleChannelProofs

-----------------------------------------------------------------------------
(* The octets of an FPDU *)

Octet  == Ppdu \union {Zero, Label, Body}
Octets == [0 .. FpduSize - 1 -> Octet]

\* The PPDUs ps lie side by side from position a to position b.
Lies(octets, ps, a, b) ==
  \E c : /\ c[0] = a /\ c[Len(ps)] = b
         /\ \A i \in 0 .. Len(ps) : c[i] \in Nat /\ \A j \in i .. Len(ps) : c[i] <= c[j]
         /\ \A i \in 1 .. Len(ps) : /\ octets[c[i - 1]] = ps[i]
                                    /\ c[i] = c[i - 1] + ppdu_length(ps[i])

Labelled(octets) == \A i \in 0 .. LabelSize - 1 : octets[i] = Label

\* The PPDUs ps are what is to be read from position a on: zeros follow them.
Readable(octets, ps, a) ==
  \E e \in a .. FpduSize : /\ Lies(octets, ps, a, e)
                           /\ \A i \in e .. FpduSize - 1 : octets[i] = Zero

\* The FPDU being filled.
FillOK(fp) ==
  /\ fp \in [pos : Nat, rem : Nat, packed : Seq(Ppdu), octets : Octets]
  /\ fp.pos + fp.rem = FpduSize
  /\ IF fp.pos = 0 THEN fp.packed = << >>
     ELSE /\ LabelSize <= fp.pos /\ Labelled(fp.octets)
          /\ Lies(fp.octets, fp.packed, LabelSize, fp.pos)

\* An FPDU on its way.
Fpdus == [octets : Octets, packed : Seq(Ppdu)]
FpduOK(x) == Labelled(x.octets) /\ Readable(x.octets, x.packed, LabelSize)

LEMMA PpduLength == \A p \in Ppdu : ppdu_length(p) \in Nat /\ 2 <= ppdu_length(p)
  BY LimitsAssumption DEF Ppdu, ppdu_length, get_fragment_length, BaseHdr

LEMMA Sizes == FpduSize \in Nat /\ LabelSize \in Nat
  BY FpduAssumption

\* memcpy and memset inside an FPDU.
LEMMA PutOctets ==
  ASSUME NEW o \in Octets, NEW pos \in Nat, NEW n \in Nat, pos + n <= FpduSize,
         NEW first \in Octet, NEW rest \in Octet
  PROVE  LET q == octets_put(o, pos, n, first, rest)
         IN /\ q \in Octets
            /\ \A i \in 0 .. FpduSize - 1 : i < pos => q[i] = o[i]
            /\ n > 0 => q[pos] = first
            /\ \A i \in pos + 1 .. (pos + n) - 1 : q[i] = rest
<1> DEFINE q == octets_put(o, pos, n, first, rest)
<1>1. DOMAIN o = 0 .. FpduSize - 1 /\ \A i \in 0 .. FpduSize - 1 : o[i] \in Octet
  BY DEF Octets
<1>2. /\ q = [i \in 0 .. FpduSize - 1 |-> IF i = pos /\ n > 0 THEN first
                                          ELSE IF pos < i /\ i < pos + n THEN rest
                                          ELSE o[i]]
  BY <1>1 DEF octets_put
<1>3. q \in Octets
  BY <1>1, <1>2 DEF Octets
<1> QED
  BY <1>2, <1>3, Sizes

LEMMA LiesEmpty ==
  ASSUME NEW o, NEW a \in Nat
  PROVE  Lies(o, << >>, a, a)
<1> DEFINE c == [i \in {0} |-> a]
<1>1. c[0] = a /\ Len(<< >>) = 0
  OBVIOUS
<1> HIDE DEF c
<1> QED
  BY <1>1 DEF Lies

LEMMA LiesDone ==
  ASSUME NEW o, NEW a, NEW b, Lies(o, << >>, a, b)
  PROVE  a = b
<1>1. Len(<< >>) = 0
  OBVIOUS
<1> QED
  BY <1>1 DEF Lies

\* Writing behind the PPDUs leaves them alone.
LEMMA LiesKept ==
  ASSUME NEW ps \in Seq(Ppdu), NEW o, NEW q, NEW a, NEW b, Lies(o, ps, a, b),
         \A i \in a .. b - 1 : q[i] = o[i]
  PROVE  Lies(q, ps, a, b) /\ a \in Nat /\ b \in Nat /\ a <= b
<1>1. PICK c : /\ c[0] = a /\ c[Len(ps)] = b
               /\ \A i \in 0 .. Len(ps) : c[i] \in Nat /\ \A j \in i .. Len(ps) : c[i] <= c[j]
               /\ \A i \in 1 .. Len(ps) : /\ o[c[i - 1]] = ps[i]
                                          /\ c[i] = c[i - 1] + ppdu_length(ps[i])
  BY DEF Lies
<1>2. Len(ps) \in Nat /\ \A i \in 1 .. Len(ps) : ps[i] \in Ppdu
  BY Elements
<1>3. a \in Nat /\ b \in Nat /\ a <= b
  BY <1>1, <1>2
<1>4. ASSUME NEW i \in 1 .. Len(ps) PROVE q[c[i - 1]] = ps[i]
  <2>1. i - 1 \in 0 .. Len(ps) /\ i \in 0 .. Len(ps) /\ 0 \in 0 .. Len(ps)
        /\ i - 1 \in 0 .. Len(ps) /\ Len(ps) \in i .. Len(ps)
    BY <1>2
  <2>2. c[i - 1] \in Nat /\ c[i] \in Nat /\ a <= c[i - 1] /\ c[i] <= b
    BY <1>1, <2>1
  <2>3. c[i] = c[i - 1] + ppdu_length(ps[i]) /\ ppdu_length(ps[i]) \in Nat
        /\ 2 <= ppdu_length(ps[i])
    BY <1>1, <1>2, PpduLength
  <2>4. c[i - 1] \in a .. b - 1
    BY <1>3, <2>2, <2>3
  <2> QED
    BY <1>1, <2>4
<1>5. Lies(q, ps, a, b)
  BY <1>1, <1>4 DEF Lies
<1> QED
  BY <1>3, <1>5

LEMMA LiesAppend ==
  ASSUME NEW ps \in Seq(Ppdu), NEW p \in Ppdu, NEW o, NEW a, NEW b, Lies(o, ps, a, b), o[b] = p
  PROVE  Lies(o, Append(ps, p), a, b + ppdu_length(p))
<1>1. PICK c : /\ c[0] = a /\ c[Len(ps)] = b
               /\ \A i \in 0 .. Len(ps) : c[i] \in Nat /\ \A j \in i .. Len(ps) : c[i] <= c[j]
               /\ \A i \in 1 .. Len(ps) : /\ o[c[i - 1]] = ps[i]
                                          /\ c[i] = c[i - 1] + ppdu_length(ps[i])
  BY DEF Lies
<1> DEFINE n == Len(ps)
           d == b + ppdu_length(p)
           e == [i \in 0 .. n + 1 |-> IF i = n + 1 THEN d ELSE c[i]]
           qs == Append(ps, p)
<1>2. /\ n \in Nat /\ Len(qs) = n + 1 /\ qs[n + 1] = p /\ \A i \in 1 .. n : qs[i] = ps[i]
  BY Appended
<1>3. /\ e[n + 1] = d /\ e[0] = a /\ e[n] = b /\ \A i \in 0 .. n : e[i] = c[i]
  BY <1>1, <1>2
<1>4. d \in Nat /\ b \in Nat /\ b <= d
  BY <1>1, <1>2, PpduLength
<1> HIDE DEF e, qs, n
<1>5. ASSUME NEW i \in 1 .. Len(qs)
      PROVE  o[e[i - 1]] = qs[i] /\ e[i] = e[i - 1] + ppdu_length(qs[i])
  <2>1. CASE i = n + 1
    <3>1. i - 1 = n
      BY <1>2, <2>1
    <3> QED
      BY <1>2, <1>3, <2>1, <3>1
  <2>2. CASE i \in 1 .. n
    <3>1. i \in 0 .. n /\ i - 1 \in 0 .. n
      BY <1>2, <2>2
    <3> QED
      BY <1>1, <1>2, <1>3, <2>2, <3>1 DEF n
  <2> QED
    BY <1>2, <2>1, <2>2
<1>6. ASSUME NEW i \in 0 .. Len(qs)
      PROVE  e[i] \in Nat /\ \A j \in i .. Len(qs) : e[i] <= e[j]
  <2>1. CASE i = n + 1
    BY <1>2, <1>3, <1>4, <2>1
  <2>2. CASE i \in 0 .. n
    <3>1. c[i] \in Nat /\ c[i] <= b /\ \A j \in i .. n : c[i] <= c[j]
      BY <1>1, <1>2, <2>2 DEF n
    <3>2. ASSUME NEW j \in i .. Len(qs) PROVE e[i] <= e[j]
      <4>1. CASE j = n + 1
        BY <1>3, <1>4, <2>2, <3>1, <4>1
      <4>2. CASE j \in i .. n
        <5>1. j \in 0 .. n
          BY <1>2, <2>2, <4>2
        <5> QED
          BY <1>3, <2>2, <3>1, <4>2, <5>1
      <4> QED
        BY <1>2, <2>2, <4>1, <4>2
    <3> QED
      BY <1>3, <2>2, <3>1, <3>2
  <2> QED
    BY <1>2, <2>1, <2>2
<1> QED
  BY <1>2, <1>3, <1>5, <1>6 DEF Lies, qs

\* The first of the PPDUs.
LEMMA LiesTail ==
  ASSUME NEW ps \in Seq(Ppdu), ps # << >>, NEW o, NEW a, NEW b, Lies(o, ps, a, b)
  PROVE  /\ o[a] = Head(ps) /\ a \in Nat /\ b \in Nat /\ a + ppdu_length(Head(ps)) <= b
         /\ Lies(o, Tail(ps), a + ppdu_length(Head(ps)), b)
<1>1. PICK c : /\ c[0] = a /\ c[Len(ps)] = b
               /\ \A i \in 0 .. Len(ps) : c[i] \in Nat /\ \A j \in i .. Len(ps) : c[i] <= c[j]
               /\ \A i \in 1 .. Len(ps) : /\ o[c[i - 1]] = ps[i]
                                          /\ c[i] = c[i - 1] + ppdu_length(ps[i])
  BY DEF Lies
<1> DEFINE n == Len(ps)
           qs == Tail(ps)
           e == [i \in 0 .. n - 1 |-> c[i + 1]]
<1>2. /\ n \in Nat \ {0} /\ Len(qs) = n - 1 /\ Head(ps) = ps[1]
      /\ \A i \in 1 .. n - 1 : qs[i] = ps[i + 1]
  BY Received
<1>3. e[0] = c[1] /\ e[n - 1] = c[n] /\ \A i \in 0 .. n - 1 : e[i] = c[i + 1]
  <2>1. 0 \in 0 .. n - 1 /\ n - 1 \in 0 .. n - 1 /\ (n - 1) + 1 = n /\ 0 + 1 = 1
    BY <1>2
  <2> QED
    BY <2>1
<1>4. /\ o[a] = Head(ps) /\ c[1] = a + ppdu_length(Head(ps)) /\ a \in Nat /\ b \in Nat
      /\ c[1] <= b
  <2>1. /\ 1 \in 1 .. Len(ps) /\ 1 - 1 = 0 /\ 0 \in 0 .. Len(ps) /\ 1 \in 0 .. Len(ps)
        /\ Len(ps) \in 0 .. Len(ps) /\ Len(ps) \in 1 .. Len(ps)
    BY <1>2
  <2> QED
    BY <1>1, <1>2, <2>1
<1> HIDE DEF e, qs, n
<1>5. ASSUME NEW i \in 1 .. Len(qs)
      PROVE  o[e[i - 1]] = qs[i] /\ e[i] = e[i - 1] + ppdu_length(qs[i])
  <2>1. /\ i \in 1 .. n - 1 /\ i + 1 \in 1 .. Len(ps) /\ (i + 1) - 1 = i /\ (i - 1) + 1 = i
        /\ i \in 0 .. n - 1 /\ i - 1 \in 0 .. n - 1
    BY <1>2 DEF n
  <2> QED
    BY <1>1, <1>2, <1>3, <2>1
<1>6. ASSUME NEW i \in 0 .. Len(qs)
      PROVE  e[i] \in Nat /\ \A j \in i .. Len(qs) : e[i] <= e[j]
  <2>1. i \in 0 .. n - 1 /\ i + 1 \in 0 .. Len(ps)
    BY <1>2 DEF n
  <2>2. \A j \in i .. Len(qs) : j \in 0 .. n - 1 /\ j + 1 \in i + 1 .. Len(ps)
    BY <1>2 DEF n
  <2> QED
    BY <1>1, <1>3, <2>1, <2>2
<1>7. Lies(o, qs, c[1], b)
  <2>1. e[0] = c[1] /\ e[Len(qs)] = b
    BY <1>1, <1>2, <1>3 DEF n
  <2> QED
    BY <1>5, <1>6, <2>1 DEF Lies
<1> QED
  BY <1>4, <1>7 DEF qs

-----------------------------------------------------------------------------
(* rle_pack_init, rle_pack, rle_pad *)

LEMMA SpecialOctets ==
  /\ Zero \in Octet /\ Label \in Octet /\ Body \in Octet
  /\ \A p \in Ppdu : p \in Octet /\ p # Zero /\ p.type \in PpduTypes
  BY DEF Octet, Ppdu, PpduTypes, Zero

\* The label of an FPDU that has room for it.
LEMMA LabelPut ==
  ASSUME NEW fp, FillOK(fp), fp.pos = 0, LabelSize <= fp.rem
  PROVE  LET l == label_put(fp)
         IN /\ l \in [pos : Nat, rem : Nat, packed : Seq(Ppdu), octets : Octets]
            /\ l.pos = LabelSize /\ l.rem = fp.rem - LabelSize /\ l.packed = << >>
            /\ Labelled(l.octets)
<1> DEFINE q == octets_put(fp.octets, fp.pos, LabelSize, Label, Label)
           l == label_put(fp)
<1>1. /\ fp \in [pos : Nat, rem : Nat, packed : Seq(Ppdu), octets : Octets]
      /\ fp.pos + fp.rem = FpduSize /\ fp.packed = << >>
      /\ fp.octets \in Octets /\ fp.rem \in Nat
  BY DEF FillOK
<1>2. /\ q \in Octets /\ (LabelSize > 0 => q[0] = Label)
      /\ \A i \in 1 .. LabelSize - 1 : q[i] = Label
  <2>1. 0 + LabelSize <= FpduSize /\ fp.pos = 0 /\ 0 \in Nat /\ 0 + LabelSize = LabelSize
        /\ 0 + 1 = 1
    BY <1>1, Sizes
  <2> HIDE DEF q
  <2>2. LET r == octets_put(fp.octets, 0, LabelSize, Label, Label)
        IN /\ r \in Octets /\ (LabelSize > 0 => r[0] = Label)
           /\ \A i \in 0 + 1 .. (0 + LabelSize) - 1 : r[i] = Label
    BY <1>1, <2>1, PutOctets, SpecialOctets, Sizes
  <2> QED
    BY <2>1, <2>2 DEF q
<1>3. l = [fp EXCEPT !.octets = q, !.pos = fp.pos + LabelSize, !.rem = fp.rem - LabelSize]
  BY DEF label_put
<1> HIDE DEF q, l
<1>4. fp.pos + LabelSize = LabelSize /\ fp.rem - LabelSize \in Nat
  BY <1>1, Sizes
<1>5. /\ l \in [pos : Nat, rem : Nat, packed : Seq(Ppdu), octets : Octets]
      /\ l.pos = LabelSize /\ l.rem = fp.rem - LabelSize /\ l.packed = << >> /\ l.octets = q
  BY <1>1, <1>2, <1>3, <1>4, Sizes
<1>6. Labelled(q)
  <2>1. \A i \in 0 .. LabelSize - 1 : (i = 0 /\ LabelSize > 0) \/ i \in 1 .. LabelSize - 1
    BY Sizes
  <2> QED
    BY <1>2, <2>1 DEF Labelled
<1> QED
  BY <1>5, <1>6 DEF l

LEMMA PackInitOK ==
  ASSUME NEW fp, FillOK(fp)
  PROVE  FillOK(rle_pack_init(fp)) /\ rle_pack_init(fp).packed = fp.packed
<1>1. CASE fp.pos # 0 \/ fp.rem < LabelSize
  BY <1>1 DEF rle_pack_init
<1>2. CASE ~(fp.pos # 0 \/ fp.rem < LabelSize)
  <2> DEFINE l == label_put(fp)
  <2>1. fp.pos = 0 /\ LabelSize <= fp.rem /\ fp.packed = << >> /\ fp.rem = FpduSize
    BY <1>2, Sizes DEF FillOK
  <2>2. /\ l \in [pos : Nat, rem : Nat, packed : Seq(Ppdu), octets : Octets]
        /\ l.pos = LabelSize /\ l.rem = fp.rem - LabelSize /\ l.packed = << >>
        /\ Labelled(l.octets)
    BY <2>1, LabelPut
  <2> HIDE DEF l
  <2>3. Lies(l.octets, << >>, LabelSize, LabelSize)
    BY LiesEmpty, Sizes
  <2>4. FillOK(l)
    BY <2>1, <2>2, <2>3, Sizes DEF FillOK
  <2> QED
    BY <1>2, <2>1, <2>2, <2>4 DEF l, rle_pack_init
<1> QED
  BY <1>1, <1>2

\* The octets of a PPDU behind those that are there already.
Behind(l, p) ==
  [l EXCEPT !.octets = octets_put(@, l.pos, ppdu_length(p), p, Body),
            !.pos = @ + ppdu_length(p), !.rem = @ - ppdu_length(p),
            !.packed = Append(@, p)]

LEMMA PackBehind ==
  ASSUME NEW l \in [pos : Nat, rem : Nat, packed : Seq(Ppdu), octets : Octets],
         l.pos + l.rem = FpduSize, Labelled(l.octets), LabelSize <= l.pos,
         Lies(l.octets, l.packed, LabelSize, l.pos),
         NEW p \in Ppdu, ppdu_length(p) <= l.rem
  PROVE  FillOK(Behind(l, p)) /\ Behind(l, p).packed = Append(l.packed, p)
<1> DEFINE nb == Behind(l, p)
           n == ppdu_length(p)
           q == octets_put(l.octets, l.pos, n, p, Body)
           pos == l.pos + n
           rem == l.rem - n
           ps == Append(l.packed, p)
<1>1. l.pos \in Nat /\ l.rem \in Nat /\ l.octets \in Octets /\ l.packed \in Seq(Ppdu)
  OBVIOUS
<1>2. n \in Nat /\ 2 <= n
  BY PpduLength
<1>3. nb = [l EXCEPT !.octets = q, !.pos = pos, !.rem = rem, !.packed = ps]
  BY DEF Behind
<1> HIDE DEF n, nb
<1>4. /\ q \in Octets /\ q[l.pos] = p
      /\ \A i \in 0 .. FpduSize - 1 : i < l.pos => q[i] = l.octets[i]
  <2> DEFINE b == l.pos
             o == l.octets
  <2>1. b + n <= FpduSize /\ n > 0 /\ b \in Nat /\ o \in Octets /\ p \in Octet /\ Body \in Octet
    BY <1>1, <1>2, Sizes DEF n, Octet
  <2>2. q = octets_put(o, b, n, p, Body)
    OBVIOUS
  <2> HIDE DEF b, o, q
  <2>3. /\ q \in Octets /\ q[b] = p /\ \A i \in 0 .. FpduSize - 1 : i < b => q[i] = o[i]
    BY <1>2, <2>1, <2>2, PutOctets
  <2> QED
    BY <2>3 DEF b, o
<1>5. pos \in Nat /\ rem \in Nat /\ pos + rem = FpduSize /\ LabelSize <= pos /\ pos # 0
  BY <1>1, <1>2, Sizes DEF n
<1>6. ps \in Seq(Ppdu)
  BY <1>1
<1> HIDE DEF q
<1>7. Lies(q, ps, LabelSize, pos)
  <2> DEFINE b == l.pos
             o == l.octets
             ls == l.packed
  <2>1. Lies(o, ls, LabelSize, b) /\ ls \in Seq(Ppdu) /\ q[b] = p
    BY <1>1, <1>4
  <2>2. \A i \in LabelSize .. b - 1 : q[i] = o[i]
    <3>1. \A i \in LabelSize .. b - 1 : i \in 0 .. FpduSize - 1 /\ i < b
      BY <1>1, Sizes
    <3> QED
      BY <1>4, <3>1
  <2> HIDE DEF b, o, ls
  <2>3. Lies(q, ls, LabelSize, b)
    BY <2>1, <2>2, LiesKept
  <2>4. Lies(q, Append(ls, p), LabelSize, b + ppdu_length(p))
    BY <2>1, <2>3, LiesAppend
  <2> QED
    BY <2>4 DEF b, ls, n
<1>8. Labelled(q)
  <2>1. \A i \in 0 .. LabelSize - 1 : i \in 0 .. FpduSize - 1 /\ i < l.pos
    BY <1>1, Sizes
  <2> QED
    BY <1>4, <2>1 DEF Labelled
<1> HIDE DEF pos, rem, ps
<1>9. /\ nb \in [pos : Nat, rem : Nat, packed : Seq(Ppdu), octets : Octets]
      /\ nb.pos = pos /\ nb.rem = rem /\ nb.packed = ps /\ nb.octets = q
  BY <1>3, <1>4, <1>5, <1>6
<1> QED
  <2>1. FillOK(nb) /\ nb.packed = ps
    BY <1>5, <1>7, <1>8, <1>9 DEF FillOK
  <2> QED
    BY <2>1 DEF nb, ps

LEMMA PackOK ==
  ASSUME NEW fp, FillOK(fp), NEW p \in Ppdu
  PROVE  /\ FillOK(rle_pack(fp, p))
         /\ rle_pack(fp, p).packed = IF pack_refused(fp, p) THEN fp.packed
                                                            ELSE Append(fp.packed, p)
<1>1. CASE pack_refused(fp, p)
  BY <1>1 DEF rle_pack
<1>2. CASE ~pack_refused(fp, p)
  <2> DEFINE l == IF fp.pos = 0 THEN label_put(fp) ELSE fp
             nb == Behind(l, p)
  <2>1. rle_pack(fp, p) = nb
    BY <1>2 DEF rle_pack, Behind
  <2>2. /\ fp.pos \in Nat /\ fp.rem \in Nat /\ fp.pos + fp.rem = FpduSize
        /\ ppdu_length(p) \in Nat
    BY PpduLength DEF FillOK
  <2>3. /\ l \in [pos : Nat, rem : Nat, packed : Seq(Ppdu), octets : Octets]
        /\ l.pos + l.rem = FpduSize /\ Labelled(l.octets) /\ LabelSize <= l.pos
        /\ Lies(l.octets, l.packed, LabelSize, l.pos) /\ ppdu_length(p) <= l.rem
        /\ l.packed = fp.packed
    <3>1. CASE fp.pos = 0
      <4>1. LabelSize + ppdu_length(p) <= fp.rem /\ LabelSize <= fp.rem
        BY <1>2, <2>2, <3>1, Sizes DEF pack_refused
      <4>2. /\ l \in [pos : Nat, rem : Nat, packed : Seq(Ppdu), octets : Octets]
            /\ l.pos = LabelSize /\ l.rem = fp.rem - LabelSize /\ l.packed = << >>
            /\ Labelled(l.octets)
        BY <3>1, <4>1, LabelPut
      <4>3. Lies(l.octets, << >>, LabelSize, LabelSize)
        BY LiesEmpty, Sizes
      <4>4. fp.packed = << >>
        BY <3>1 DEF FillOK
      <4> HIDE DEF l
      <4> QED
        BY <2>2, <3>1, <4>1, <4>2, <4>3, <4>4, Sizes
    <3>2. CASE fp.pos # 0
      BY <1>2, <2>2, <3>2 DEF FillOK, pack_refused
    <3> QED
      BY <3>1, <3>2
  <2>4. FillOK(nb) /\ nb.packed = Append(l.packed, p)
    <3> HIDE DEF l
    <3> QED
      BY <2>3, PackBehind
  <2> QED
    BY <1>2, <2>1, <2>3, <2>4
<1> QED
  BY <1>1, <1>2

\* rle_pad makes an FPDU that can be read; its buffer is used again.
LEMMA FlushOK ==
  ASSUME NEW fp, FillOK(fp), fp.pos > 0
  PROVE  LET pad == rle_pad(fp)
             x == [octets |-> pad.octets, packed |-> pad.packed]
             next == [pad EXCEPT !.pos = 0, !.rem = FpduSize, !.packed = << >>]
         IN /\ x \in Fpdus /\ FpduOK(x) /\ x.packed = fp.packed
            /\ FillOK(next) /\ next.packed = << >>
<1> DEFINE q == octets_put(fp.octets, fp.pos, fp.rem, Zero, Zero)
           pad == rle_pad(fp)
           x == [octets |-> pad.octets, packed |-> pad.packed]
           next == [pad EXCEPT !.pos = 0, !.rem = FpduSize, !.packed = << >>]
<1>1. /\ fp \in [pos : Nat, rem : Nat, packed : Seq(Ppdu), octets : Octets]
      /\ fp.pos \in Nat /\ fp.rem \in Nat /\ fp.pos + fp.rem = FpduSize
      /\ fp.octets \in Octets /\ fp.packed \in Seq(Ppdu)
      /\ LabelSize <= fp.pos /\ Labelled(fp.octets)
      /\ Lies(fp.octets, fp.packed, LabelSize, fp.pos)
  BY DEF FillOK
<1>2. /\ q \in Octets /\ \A i \in 0 .. FpduSize - 1 : i < fp.pos => q[i] = fp.octets[i]
      /\ (fp.rem > 0 => q[fp.pos] = Zero)
      /\ \A i \in fp.pos + 1 .. (fp.pos + fp.rem) - 1 : q[i] = Zero
  <2> DEFINE b == fp.pos
             n == fp.rem
             o == fp.octets
  <2>1. b \in Nat /\ n \in Nat /\ b + n <= FpduSize /\ o \in Octets /\ Zero \in Octet
    BY <1>1, Sizes DEF Octet
  <2>2. q = octets_put(o, b, n, Zero, Zero)
    OBVIOUS
  <2> HIDE DEF b, n, o, q
  <2>3. /\ q \in Octets /\ \A i \in 0 .. FpduSize - 1 : i < b => q[i] = o[i]
        /\ (n > 0 => q[b] = Zero) /\ \A i \in b + 1 .. (b + n) - 1 : q[i] = Zero
    BY <2>1, <2>2, PutOctets
  <2> QED
    BY <2>3 DEF b, n, o
<1>3. pad = [fp EXCEPT !.octets = q]
  BY DEF rle_pad
<1> HIDE DEF q, pad
<1>4. pad.octets = q /\ pad.packed = fp.packed
      /\ pad \in [pos : Nat, rem : Nat, packed : Seq(Ppdu), octets : Octets]
  BY <1>1, <1>2, <1>3
<1>5. x \in Fpdus /\ x.packed = fp.packed /\ x.octets = q
  BY <1>1, <1>2, <1>4 DEF Fpdus
<1>6. Labelled(q)
  <2>1. \A i \in 0 .. LabelSize - 1 : i \in 0 .. FpduSize - 1 /\ i < fp.pos
    BY <1>1, Sizes
  <2> QED
    BY <1>1, <1>2, <2>1 DEF Labelled
<1>7. Readable(q, fp.packed, LabelSize)
  <2> DEFINE b == fp.pos
             o == fp.octets
             ls == fp.packed
  <2>1. Lies(o, ls, LabelSize, b) /\ ls \in Seq(Ppdu)
    BY <1>1
  <2>2. \A i \in LabelSize .. b - 1 : q[i] = o[i]
    <3>1. \A i \in LabelSize .. b - 1 : i \in 0 .. FpduSize - 1 /\ i < b
      BY <1>1, Sizes
    <3> QED
      BY <1>2, <3>1
  <2>3. \A i \in b .. FpduSize - 1 : q[i] = Zero
    <3>1. \A i \in b .. FpduSize - 1 :
            (i = fp.pos /\ fp.rem > 0) \/ i \in fp.pos + 1 .. (fp.pos + fp.rem) - 1
      BY <1>1, Sizes
    <3> QED
      BY <1>2, <3>1
  <2>4. b \in LabelSize .. FpduSize
    BY <1>1, Sizes
  <2> HIDE DEF b, o, ls
  <2>5. Lies(q, ls, LabelSize, b)
    BY <2>1, <2>2, LiesKept
  <2> QED
    BY <2>3, <2>4, <2>5 DEF Readable, ls
<1> HIDE DEF x
<1>8. /\ next \in [pos : Nat, rem : Nat, packed : Seq(Ppdu), octets : Octets]
      /\ next.pos = 0 /\ next.rem = FpduSize /\ next.packed = << >>
  <2>1. << >> \in Seq(Ppdu) /\ 0 \in Nat /\ FpduSize \in Nat
    BY Sizes
  <2> QED
    BY <1>4, <2>1
<1> HIDE DEF next
<1>9. FillOK(next)
  BY <1>8, Sizes DEF FillOK
<1> QED
  BY <1>5, <1>6, <1>7, <1>8, <1>9 DEF FpduOK, x, next, pad

-----------------------------------------------------------------------------
(* rle_decapsulate *)

\* What is read at position a.
LEMMA Reading ==
  ASSUME NEW o, NEW ps \in Seq(Ppdu), NEW a \in Nat, Readable(o, ps, a)
  PROVE  /\ ps = << >> => a + 1 >= FpduSize \/ (o[a] = Zero /\ o[a + 1] = Zero)
         /\ ps # << >> =>
              /\ o[a] = Head(ps) /\ Head(ps) \in Ppdu /\ Head(ps) # Zero
              /\ Head(ps).type \in PpduTypes
              /\ ppdu_length(Head(ps)) \in Nat /\ ppdu_length(Head(ps)) <= FpduSize - a
              /\ ~(a + 1 >= FpduSize)
              /\ Readable(o, Tail(ps), a + ppdu_length(Head(ps)))
<1>1. PICK e \in a .. FpduSize : /\ Lies(o, ps, a, e)
                                 /\ \A i \in e .. FpduSize - 1 : o[i] = Zero
  BY DEF Readable
<1>2. e \in Nat /\ a <= e /\ e <= FpduSize /\ FpduSize \in Nat
  BY Sizes
<1>3. CASE ps = << >>
  <2>1. e = a
    BY <1>1, <1>3, LiesDone
  <2>2. a + 1 >= FpduSize \/ (a \in e .. FpduSize - 1 /\ a + 1 \in e .. FpduSize - 1)
    BY <1>2, <2>1
  <2> QED
    BY <1>1, <1>3, <2>2
<1>4. CASE ps # << >>
  <2> DEFINE p == Head(ps)
             n == ppdu_length(p)
  <2>1. p \in Ppdu
    BY <1>4, Received
  <2>2. n \in Nat /\ 2 <= n /\ p # Zero /\ p.type \in PpduTypes
    BY <2>1, PpduLength, SpecialOctets
  <2>3. o[a] = p /\ a + n <= e /\ Lies(o, Tail(ps), a + n, e)
    BY <1>1, <1>4, LiesTail
  <2> HIDE DEF p, n
  <2>4. ~(a + 1 >= FpduSize) /\ n <= FpduSize - a /\ e \in a + n .. FpduSize
    BY <1>2, <2>2, <2>3
  <2>5. Readable(o, Tail(ps), a + n)
    BY <1>1, <2>3, <2>4 DEF Readable
  <2> QED
    BY <1>4, <2>1, <2>2, <2>3, <2>4, <2>5 DEF p, n
<1> QED
  BY <1>3, <1>4

\* A round of rle_decapsulate, when the PPDUs todo are what is to be read.
LEMMA RoundOK ==
  ASSUME decap.todo \in Seq(Ppdu), Readable(decap.octets, decap.todo, decap.offset),
         decap.offset \in Nat
  PROVE  /\ decap.todo = << >> => decap_round = decap.status
         /\ decap.todo # << >> =>
              /\ decap_round = IF sdus_full THEN "DECAP_ERR_SOME_DROP" ELSE "goes on"
              /\ decap.octets[decap.offset] = Head(decap.todo) /\ Head(decap.todo) \in Ppdu
              /\ Readable(decap.octets, Tail(decap.todo),
                          decap.offset + ppdu_length(Head(decap.todo)))
              /\ ppdu_length(Head(decap.todo)) \in Nat
<1> DEFINE o == decap.octets
           ps == decap.todo
           a == decap.offset
<1>1. parsed <=> (a + 1 >= FpduSize \/ (o[a] = Zero /\ o[a + 1] = Zero))
  BY DEF parsed
<1>2. unreadable <=> (o[a].type \in PpduTypes => ppdu_length(o[a]) > FpduSize - a)
  BY DEF unreadable
<1>3. ps \in Seq(Ppdu) /\ a \in Nat /\ Readable(o, ps, a)
  OBVIOUS
<1>4. ps = << >> => decap_round = decap.status
  <2> HIDE DEF o, ps, a
  <2>1. ps = << >> => parsed
    BY <1>1, <1>3, Reading
  <2> QED
    BY Zenon, <2>1 DEF decap_round
<1>5. ASSUME ps # << >>
      PROVE  /\ decap_round = IF sdus_full THEN "DECAP_ERR_SOME_DROP" ELSE "goes on"
             /\ o[a] = Head(ps) /\ Head(ps) \in Ppdu /\ ppdu_length(Head(ps)) \in Nat
             /\ Readable(o, Tail(ps), a + ppdu_length(Head(ps)))
  <2> HIDE DEF o, ps, a
  <2>1. /\ o[a] = Head(ps) /\ Head(ps) \in Ppdu /\ Head(ps) # Zero
        /\ Head(ps).type \in PpduTypes
        /\ ppdu_length(Head(ps)) \in Nat /\ ppdu_length(Head(ps)) <= FpduSize - a
        /\ ~(a + 1 >= FpduSize)
        /\ Readable(o, Tail(ps), a + ppdu_length(Head(ps)))
    BY <1>3, <1>5, Reading
  <2>2. ~parsed
    BY <1>1, <2>1
  <2>3. ~unreadable
    BY <1>2, <1>3, <2>1, Sizes
  <2>4. decap_round = IF sdus_full THEN "DECAP_ERR_SOME_DROP" ELSE "goes on"
    BY Zenon, <2>2, <2>3 DEF decap_round
  <2> QED
    BY <2>1, <2>4
<1> QED
  BY <1>4, <1>5

-----------------------------------------------------------------------------
(* Every PPDU is one of an SDU that was accepted *)

\* PPDUs of SDUs that the transmitter, of configuration conf, was given.
AllKnown(ps, conf, sent) ==
  /\ ps \in Seq(Ppdu)
  /\ \A i \in 1 .. Len(ps) : PpduOK(ps[i], conf) /\ Known(ps[i].al, sent)

LEMMA AllEmpty == \A conf, sent : AllKnown(<< >>, conf, sent)
<1>1. << >> \in Seq(Ppdu) /\ Len(<< >>) = 0
  OBVIOUS
<1> QED
  BY <1>1 DEF AllKnown

LEMMA AllAppend ==
  ASSUME NEW ps, NEW conf, NEW sent, AllKnown(ps, conf, sent),
         NEW p \in Ppdu, PpduOK(p, conf), Known(p.al, sent)
  PROVE  AllKnown(Append(ps, p), conf, sent)
<1>1. ps \in Seq(Ppdu)
  BY DEF AllKnown
<1>2. /\ Append(ps, p) \in Seq(Ppdu) /\ Len(Append(ps, p)) = Len(ps) + 1 /\ Len(ps) \in Nat
      /\ Append(ps, p)[Len(ps) + 1] = p /\ \A i \in 1 .. Len(ps) : Append(ps, p)[i] = ps[i]
  BY <1>1, Appended
<1>3. \A i \in 1 .. Len(ps) + 1 : i \in 1 .. Len(ps) \/ i = Len(ps) + 1
  BY <1>2
<1> QED
  BY <1>2, <1>3 DEF AllKnown

LEMMA AllTail ==
  ASSUME NEW ps, NEW conf, NEW sent, AllKnown(ps, conf, sent), ps # << >>
  PROVE  /\ AllKnown(Tail(ps), conf, sent)
         /\ Head(ps) \in Ppdu /\ PpduOK(Head(ps), conf) /\ Known(Head(ps).al, sent)
<1>1. /\ Tail(ps) \in Seq(Ppdu) /\ Len(Tail(ps)) = Len(ps) - 1 /\ Len(ps) \in Nat \ {0}
      /\ Head(ps) = ps[1] /\ Head(ps) \in Ppdu
      /\ \A i \in 1 .. Len(ps) - 1 : Tail(ps)[i] = ps[i + 1]
  BY Received DEF AllKnown
<1>2. 1 \in 1 .. Len(ps) /\ \A i \in 1 .. Len(ps) - 1 : i + 1 \in 1 .. Len(ps)
  BY <1>1
<1> QED
  BY <1>1, <1>2 DEF AllKnown

LEMMA AllMore ==
  ASSUME NEW ps, NEW conf, NEW sent, NEW more, AllKnown(ps, conf, sent),
         \A al : al.frag \in FragIds /\ Known(al, sent) => Known(al, more)
  PROVE  AllKnown(ps, conf, more)
<1>1. \A i \in 1 .. Len(ps) : ps[i].al.frag \in FragIds
  BY DEF AllKnown, PpduOK, AlpduOK
<1> QED
  BY <1>1 DEF AllKnown

HeldRecord  == Ppdu \union {NoPpdu}
DecapRecord == [on : BOOLEAN, octets : Octets, todo : Seq(Ppdu), offset : Nat, nr : Nat,
                status : {"none", "DECAP_OK", "DECAP_ERR", "DECAP_ERR_SOME_DROP"}]

\* The PPDU that the sender holds of each context.
HeldOK(h, conf, sent) ==
  /\ h \in [FragIds -> HeldRecord]
  /\ \A f \in FragIds :
       h[f] # NoPpdu => /\ PpduOK(h[f], conf) /\ Known(h[f].al, sent)
                        /\ h[f].al.frag = f

FlightOK(fl, conf, sent) ==
  /\ fl \in Seq(Fpdus)
  /\ \A i \in 1 .. Len(fl) : FpduOK(fl[i]) /\ AllKnown(fl[i].packed, conf, sent)

\* What a call of rle_decapsulate has not parsed yet is what the sender packed.
DecapOK(d, conf, sent) ==
  /\ d \in DecapRecord /\ AllKnown(d.todo, conf, sent)
  /\ d.on => /\ Readable(d.octets, d.todo, d.offset)
             /\ d.status \in {"DECAP_OK", "DECAP_ERR"}

FpBase ==
  /\ Ends(fp_sent)
  /\ HeldOK(held, tx_conf, fp_sent)
  /\ FillOK(fpdu) /\ AllKnown(fpdu.packed, tx_conf, fp_sent)
  /\ FlightOK(flight, tx_conf, fp_sent)
  /\ DecapOK(decap, tx_conf, fp_sent)

LEMMA BaseInit == FpInit => FpBase
<1> SUFFICES ASSUME FpInit PROVE FpBase
  OBVIOUS
<1>1. Ends(fp_sent)
  BY EndsInit, FpduAssumption DEF FpInit
<1>2. HeldOK(held, tx_conf, fp_sent)
  BY DEF FpInit, HeldOK, HeldRecord
<1> DEFINE z == [i \in 0 .. FpduSize - 1 |-> Zero]
<1>3. z \in Octets /\ << >> \in Seq(Ppdu) /\ 0 \in Nat /\ FpduSize \in Nat
  BY SpecialOctets, Sizes DEF Octets
<1>4. /\ fpdu = [pos |-> 0, rem |-> FpduSize, packed |-> << >>, octets |-> z]
      /\ decap = [on |-> FALSE, octets |-> z, todo |-> << >>, offset |-> 0, nr |-> 0,
                  status |-> "none"]
      /\ flight = << >>
  BY DEF FpInit, NewFpdu
<1> HIDE DEF z
<1>5. FillOK(fpdu) /\ fpdu.packed = << >>
  BY <1>3, <1>4 DEF FillOK
<1>6. DecapOK(decap, tx_conf, fp_sent)
  BY <1>3, <1>4, AllEmpty DEF DecapOK, DecapRecord
<1>7. FlightOK(flight, tx_conf, fp_sent)
  <2>1. << >> \in Seq(Fpdus) /\ Len(<< >>) = 0
    OBVIOUS
  <2> QED
    BY <1>4, <2>1 DEF FlightOK
<1> QED
  BY <1>1, <1>2, <1>5, <1>6, <1>7, AllEmpty DEF FpBase

\* A PPDU held is given up when its context takes in an SDU.
LEMMA EncapBase ==
  ASSUME FpBase, NEW f \in FragIds, NEW sdu \in TxSdus, FpEncap(f, sdu)
  PROVE  /\ FpBase' /\ (Accepts(f, sdu) \/ Refuses(f))
         /\ UNCHANGED <<fpdu, flight, decap, fp_got, tx_seq, tx_conf>>
         /\ \A g \in FragIds : held'[g] = held[g] \/ held'[g] = NoPpdu
<1>1. /\ Ends(fp_sent)' /\ (Accepts(f, sdu) \/ Refuses(f))
      /\ UNCHANGED <<tx_conf, tx_seq>>
      /\ \A al : al.frag \in FragIds /\ Known(al, fp_sent) => Known(al, fp_sent')
  <2> DEFINE more == fp_sent'
  <2>1. /\ rle_encapsulate(f, sdu) /\ UNCHANGED rx_vars /\ Ends(fp_sent)
        /\ more = IF tx_ret'.status = "ENCAP_OK"
                    THEN [fp_sent EXCEPT ![f] = Append(@, [id |-> tx_count', sdu |-> sdu])]
                    ELSE fp_sent
    BY DEF FpBase, FpEncap
  <2> HIDE DEF more
  <2>2. /\ Accepts(f, sdu) \/ Refuses(f)
        /\ TxInv' /\ TxAlpdus' /\ RxInv' /\ RxStarts' /\ SentOK(more, tx_count')
        /\ UNCHANGED <<tx_conf, tx_seq, rx_conf, rx_sdu>>
        /\ \A g \in FragIds : /\ ~tx_free'[g] => Known(alpdu_of(tx_buf'[g], g), more)
                              /\ ~rx_free'[g] => Known(rx_rasm'[g].start.al, more)
        /\ \A al : al.frag \in FragIds /\ Known(al, fp_sent) => Known(al, more)
    BY <2>1, EndsEncap
  <2> QED
    BY <2>1, <2>2 DEF Ends, more
<1>2. UNCHANGED <<fpdu, flight, decap, fp_got>>
  BY DEF FpEncap
<1>3. /\ held' \in [FragIds -> HeldRecord]
      /\ \A g \in FragIds : held'[g] = held[g] \/ held'[g] = NoPpdu
  BY DEF FpEncap, FpBase, HeldOK, HeldRecord
<1>4. HeldOK(held', tx_conf, fp_sent')
  BY <1>1, <1>3 DEF FpBase, HeldOK
<1>5. AllKnown(fpdu.packed, tx_conf, fp_sent') /\ AllKnown(decap.todo, tx_conf, fp_sent')
  BY <1>1, AllMore DEF FpBase, DecapOK
<1>6. FlightOK(flight, tx_conf, fp_sent')
  BY <1>1, AllMore DEF FpBase, FlightOK
<1> QED
  BY <1>1, <1>2, <1>3, <1>4, <1>5, <1>6 DEF FpBase, DecapOK

LEMMA AskBase ==
  ASSUME FpBase, NEW f \in FragIds, NEW burst \in Bursts, FpAsk(f, burst)
  PROVE  /\ FpBase' /\ UNCHANGED <<fpdu, flight, decap, fp_sent, fp_got, tx_count, fp_disturbed>>
         /\ UNCHANGED rx_vars
         /\ held[f] = NoPpdu
         /\ \/ SendsNothing /\ held' = held
            \/ /\ Sends(f, tx_ppdu') /\ tx_ppdu' # NoPpdu /\ held'[f] = tx_ppdu'
               /\ \A g \in FragIds \ {f} : held'[g] = held[g]
<1>1. /\ UNCHANGED <<fpdu, flight, decap, fp_sent, fp_got, fp_disturbed>> /\ UNCHANGED rx_vars
      /\ held[f] = NoPpdu /\ held' = [held EXCEPT ![f] = tx_ppdu']
      /\ held \in [FragIds -> HeldRecord]
  BY DEF FpAsk, FpBase, HeldOK
<1>2. /\ Ends(fp_sent)' /\ UNCHANGED <<tx_conf, tx_count>>
      /\ \/ SendsNothing
         \/ /\ Sends(f, tx_ppdu') /\ tx_ppdu' # NoPpdu /\ tx_ppdu' \in Ppdu
            /\ Sent(tx_ppdu', fp_sent)
  BY <1>1, EndsSend DEF FpBase, FpAsk
<1>3. held[f] = NoPpdu
  BY <1>1
<1>4. CASE SendsNothing
  <2>1. tx_ppdu' = NoPpdu
    BY <1>4 DEF SendsNothing
  <2>2. held' = held
    BY <1>1, <1>3, <2>1 DEF HeldRecord
  <2> QED
    BY <1>1, <1>2, <1>3, <1>4, <2>2 DEF FpBase
<1>5. CASE /\ Sends(f, tx_ppdu') /\ tx_ppdu' # NoPpdu /\ tx_ppdu' \in Ppdu
           /\ Sent(tx_ppdu', fp_sent)
  <2> DEFINE p == tx_ppdu'
  <2>1. /\ p \in Ppdu /\ PpduOK(p, tx_conf) /\ Known(p.al, fp_sent)
    BY <1>5 DEF Sent
  <2>2. p.al.frag = f
    BY <1>5 DEF Sends, alpdu_of
  <2> HIDE DEF p
  <2>3. /\ held' \in [FragIds -> HeldRecord] /\ held'[f] = p
        /\ \A g \in FragIds \ {f} : held'[g] = held[g]
    BY <1>1, <2>1 DEF HeldRecord, p
  <2>4. HeldOK(held', tx_conf, fp_sent)
    <3>1. ASSUME NEW g \in FragIds, held'[g] # NoPpdu
          PROVE  /\ PpduOK(held'[g], tx_conf) /\ Known(held'[g].al, fp_sent)
                 /\ held'[g].al.frag = g
      <4>1. CASE g = f
        BY <2>1, <2>2, <2>3, <4>1
      <4>2. CASE g # f
        BY <2>3, <3>1, <4>2 DEF FpBase, HeldOK
      <4> QED
        BY <4>1, <4>2
    <3> QED
      BY <2>3, <3>1 DEF HeldOK
  <2> QED
    BY <1>1, <1>2, <1>3, <1>5, <2>3, <2>4 DEF FpBase, p
<1> QED
  BY <1>2, <1>4, <1>5

\* Steps of neither end.
LEMMA EndsIdle ==
  ASSUME FpBase, UNCHANGED tx_vars, UNCHANGED rx_vars, fp_sent' = fp_sent
  PROVE  Ends(fp_sent)' /\ UNCHANGED <<tx_conf, tx_free, tx_buf, tx_count, tx_seq>>
  BY EndsSame DEF FpBase

LEMMA PackInitBase ==
  ASSUME FpBase, FpPackInit
  PROVE  FpBase' /\ fpdu'.packed = fpdu.packed
<1>1. /\ UNCHANGED <<held, flight, decap, fp_sent>> /\ UNCHANGED tx_vars /\ UNCHANGED rx_vars
      /\ fpdu' = rle_pack_init(fpdu) /\ FillOK(fpdu)
  BY DEF FpPackInit, FpBase
<1>2. Ends(fp_sent)' /\ tx_conf' = tx_conf
  BY <1>1, EndsIdle
<1>3. FillOK(fpdu') /\ fpdu'.packed = fpdu.packed
  BY <1>1, PackInitOK
<1> QED
  BY <1>1, <1>2, <1>3 DEF FpBase

LEMMA PackBase ==
  ASSUME FpBase, NEW f \in FragIds, FpPack(f)
  PROVE  /\ FpBase' /\ held[f] # NoPpdu /\ held[f] \in Ppdu /\ held[f].al.frag = f
         /\ \/ held' = held /\ fpdu'.packed = fpdu.packed
            \/ /\ held' = [held EXCEPT ![f] = NoPpdu]
               /\ fpdu'.packed = Append(fpdu.packed, held[f])
<1> DEFINE p == held[f]
<1>1. /\ UNCHANGED <<flight, decap, fp_sent>> /\ UNCHANGED tx_vars /\ UNCHANGED rx_vars
      /\ held[f] # NoPpdu /\ fpdu' = rle_pack(fpdu, p)
      /\ held' = IF pack_refused(fpdu, p) THEN held ELSE [held EXCEPT ![f] = NoPpdu]
      /\ FillOK(fpdu) /\ AllKnown(fpdu.packed, tx_conf, fp_sent)
      /\ HeldOK(held, tx_conf, fp_sent) /\ held \in [FragIds -> HeldRecord]
  BY DEF FpPack, FpBase, HeldOK
<1>2. Ends(fp_sent)' /\ tx_conf' = tx_conf
  BY <1>1, EndsIdle
<1>3. p # NoPpdu
  BY <1>1
<1>4. p \in Ppdu /\ PpduOK(p, tx_conf) /\ Known(p.al, fp_sent) /\ p.al.frag = f
  BY <1>1, <1>3 DEF HeldOK, HeldRecord
<1> HIDE DEF p
<1>5. /\ FillOK(fpdu')
      /\ fpdu'.packed = IF pack_refused(fpdu, p) THEN fpdu.packed ELSE Append(fpdu.packed, p)
  BY <1>1, <1>4, PackOK
<1>6. AllKnown(fpdu'.packed, tx_conf, fp_sent)
  <2> DEFINE ps == fpdu.packed
  <2>1. AllKnown(ps, tx_conf, fp_sent)
    BY <1>1
  <2> HIDE DEF ps
  <2>2. AllKnown(Append(ps, p), tx_conf, fp_sent)
    BY <1>4, <2>1, AllAppend
  <2> QED
    BY <1>5, <2>1, <2>2 DEF ps
<1>7. HeldOK([held EXCEPT ![f] = NoPpdu], tx_conf, fp_sent)
  <2> DEFINE h == [held EXCEPT ![f] = NoPpdu]
  <2>1. /\ h \in [FragIds -> HeldRecord] /\ h[f] = NoPpdu
        /\ \A g \in FragIds \ {f} : h[g] = held[g]
    BY <1>1 DEF HeldRecord
  <2> HIDE DEF h
  <2>2. HeldOK(h, tx_conf, fp_sent)
    BY <1>1, <2>1 DEF HeldOK
  <2> QED
    BY <2>2 DEF h
<1>8. HeldOK(held', tx_conf, fp_sent)
  BY <1>1, <1>7
<1>9. FpBase'
  BY <1>1, <1>2, <1>5, <1>6, <1>8 DEF FpBase
<1> QED
  BY <1>1, <1>3, <1>4, <1>5, <1>9 DEF p

LEMMA FlushBase ==
  ASSUME FpBase, FpFlush
  PROVE  /\ FpBase' /\ fpdu'.packed = << >>
         /\ \E x \in Fpdus : flight' = Append(flight, x) /\ x.packed = fpdu.packed
<1> DEFINE pad == rle_pad(fpdu)
           x == [octets |-> pad.octets, packed |-> pad.packed]
           next == [pad EXCEPT !.pos = 0, !.rem = FpduSize, !.packed = << >>]
<1>1. /\ UNCHANGED <<held, decap, fp_sent>> /\ UNCHANGED tx_vars /\ UNCHANGED rx_vars
      /\ fpdu.pos > 0 /\ FillOK(fpdu) /\ AllKnown(fpdu.packed, tx_conf, fp_sent)
      /\ flight' = Append(flight, x) /\ fpdu' = next
      /\ flight \in Seq(Fpdus)
  BY DEF FpFlush, FpBase, FlightOK
<1>2. Ends(fp_sent)' /\ tx_conf' = tx_conf
  BY <1>1, EndsIdle
<1>3. /\ x \in Fpdus /\ FpduOK(x) /\ x.packed = fpdu.packed
      /\ FillOK(next) /\ next.packed = << >>
  BY <1>1, FlushOK
<1> HIDE DEF x, next
<1>4. /\ flight' \in Seq(Fpdus) /\ Len(flight') = Len(flight) + 1 /\ Len(flight) \in Nat
      /\ flight'[Len(flight) + 1] = x /\ \A i \in 1 .. Len(flight) : flight'[i] = flight[i]
  BY <1>1, <1>3, Appended
<1>5. \A i \in 1 .. Len(flight') : i \in 1 .. Len(flight) \/ i = Len(flight) + 1
  BY <1>4
<1>6. FlightOK(flight', tx_conf, fp_sent)
  BY <1>1, <1>3, <1>4, <1>5 DEF FlightOK, FpBase
<1>7. FpBase'
  BY <1>1, <1>2, <1>3, <1>6, AllEmpty DEF FpBase
<1> QED
  BY <1>1, <1>3, <1>7

\* The oldest FPDU leaves the link.
LEMMA FlightTail ==
  ASSUME FpBase, flight # << >>
  PROVE  /\ FlightOK(Tail(flight), tx_conf, fp_sent)
         /\ Head(flight) \in Fpdus /\ FpduOK(Head(flight))
         /\ AllKnown(Head(flight).packed, tx_conf, fp_sent)
<1>1. /\ Tail(flight) \in Seq(Fpdus) /\ Len(Tail(flight)) = Len(flight) - 1
      /\ Len(flight) \in Nat \ {0} /\ Head(flight) = flight[1] /\ Head(flight) \in Fpdus
      /\ \A i \in 1 .. Len(flight) - 1 : Tail(flight)[i] = flight[i + 1]
  BY Received DEF FpBase, FlightOK
<1>2. 1 \in 1 .. Len(flight) /\ \A i \in 1 .. Len(flight) - 1 : i + 1 \in 1 .. Len(flight)
  BY <1>1
<1> QED
  BY <1>1, <1>2 DEF FpBase, FlightOK

LEMMA LoseBase ==
  ASSUME FpBase, FpLose
  PROVE  FpBase'
<1>1. /\ UNCHANGED <<held, fpdu, decap, fp_sent>> /\ UNCHANGED tx_vars /\ UNCHANGED rx_vars
      /\ flight # << >> /\ flight' = Tail(flight)
  BY DEF FpLose
<1>2. Ends(fp_sent)' /\ tx_conf' = tx_conf
  BY <1>1, EndsIdle
<1>3. FlightOK(flight', tx_conf, fp_sent)
  BY <1>1, FlightTail
<1> QED
  BY <1>1, <1>2, <1>3 DEF FpBase

LEMMA DecapsulateBase ==
  ASSUME FpBase, FpDecapsulate
  PROVE  /\ FpBase' /\ ~decap.on /\ flight # << >> /\ flight' = Tail(flight)
         /\ Head(flight) \in Fpdus
         /\ decap'.on /\ decap'.todo = Head(flight).packed /\ decap'.status = "DECAP_OK"
         /\ Labelled(decap'.octets)
<1> DEFINE o == Head(flight).octets
           ps == Head(flight).packed
<1>1. /\ UNCHANGED <<held, fpdu, fp_sent>> /\ UNCHANGED tx_vars /\ UNCHANGED rx_vars
      /\ flight # << >> /\ flight' = Tail(flight) /\ ~decap.on
      /\ decap' = [on |-> TRUE, octets |-> o, todo |-> ps, offset |-> LabelSize, nr |-> 0,
                   status |-> "DECAP_OK"]
  BY DEF FpDecapsulate
<1>2. Ends(fp_sent)' /\ tx_conf' = tx_conf
  BY <1>1, EndsIdle
<1>3. /\ FlightOK(flight', tx_conf, fp_sent)
      /\ Head(flight) \in Fpdus /\ FpduOK(Head(flight))
      /\ AllKnown(ps, tx_conf, fp_sent)
  BY <1>1, FlightTail
<1>4. /\ o \in Octets /\ ps \in Seq(Ppdu) /\ Labelled(o) /\ Readable(o, ps, LabelSize)
      /\ LabelSize \in Nat /\ 0 \in Nat
  BY <1>3, Sizes DEF Fpdus, FpduOK
<1> HIDE DEF o, ps
<1>5. DecapOK(decap', tx_conf, fp_sent) /\ decap'.octets = o /\ decap'.todo = ps
      /\ decap'.on /\ decap'.status = "DECAP_OK"
  BY <1>1, <1>3, <1>4 DEF DecapOK, DecapRecord
<1>6. FpBase'
  BY <1>1, <1>2, <1>3, <1>5 DEF FpBase
<1> QED
  BY <1>1, <1>3, <1>4, <1>5, <1>6 DEF ps

\* What the call under way finds.
LEMMA DecapRound ==
  ASSUME FpBase, decap.on
  PROVE  /\ decap \in DecapRecord /\ decap.status \in {"DECAP_OK", "DECAP_ERR"}
         /\ AllKnown(decap.todo, tx_conf, fp_sent)
         /\ decap.todo = << >> => decap_round = decap.status
         /\ decap.todo # << >> =>
              /\ decap_round = IF sdus_full THEN "DECAP_ERR_SOME_DROP" ELSE "goes on"
              /\ decap.octets[decap.offset] = Head(decap.todo)
              /\ Sent(Head(decap.todo), fp_sent)
              /\ Readable(decap.octets, Tail(decap.todo),
                          decap.offset + ppdu_length(Head(decap.todo)))
              /\ ppdu_length(Head(decap.todo)) \in Nat
<1>1. /\ decap \in DecapRecord /\ decap.status \in {"DECAP_OK", "DECAP_ERR"}
      /\ AllKnown(decap.todo, tx_conf, fp_sent)
      /\ Readable(decap.octets, decap.todo, decap.offset)
  BY DEF FpBase, DecapOK
<1>2. decap.todo \in Seq(Ppdu) /\ decap.offset \in Nat
  BY <1>1 DEF DecapRecord
<1>3. decap.todo # << >> => Sent(Head(decap.todo), fp_sent)
  BY <1>1, AllTail DEF Sent
<1> QED
  BY <1>1, <1>2, <1>3, RoundOK

LEMMA DecapPpduBase ==
  ASSUME FpBase, FpDecapPpdu
  PROVE  /\ FpBase' /\ decap.on /\ decap.todo # << >> /\ decap'.todo = Tail(decap.todo)
         /\ decap.octets[decap.offset] = Head(decap.todo)
         /\ Sent(Head(decap.todo), fp_sent) /\ rle_receiver_deencap_data(Head(decap.todo))
         /\ decap'.on
         /\ decap'.status = IF rx_ret'.status = "C_ERROR" THEN "DECAP_ERR" ELSE decap.status
         /\ rx_sdu'.some => CompHandsOver(Head(decap.todo)) \/ EndHandsOver(Head(decap.todo))
<1> DEFINE p == Head(decap.todo)
<1>1. decap.on /\ decap_round = "goes on"
  BY DEF FpDecapPpdu
<1>2. decap.todo # << >>
  BY <1>1, DecapRound
<1>3. /\ decap \in DecapRecord /\ decap.status \in {"DECAP_OK", "DECAP_ERR"}
      /\ AllKnown(decap.todo, tx_conf, fp_sent)
      /\ decap.octets[decap.offset] = p /\ Sent(p, fp_sent)
      /\ Readable(decap.octets, Tail(decap.todo), decap.offset + ppdu_length(p))
      /\ ppdu_length(p) \in Nat
  BY <1>1, <1>2, DecapRound
<1> DEFINE off == decap.offset + ppdu_length(p)
           ps == Tail(decap.todo)
           n == IF rx_ret'.status = "C_REASSEMBLY_OK" THEN decap.nr + 1 ELSE decap.nr
           st == IF rx_ret'.status = "C_ERROR" THEN "DECAP_ERR" ELSE decap.status
<1>4. /\ rle_receiver_deencap_data(p) /\ UNCHANGED <<held, fpdu, flight, fp_sent>>
      /\ UNCHANGED tx_vars
      /\ decap' = [decap EXCEPT !.offset = off, !.nr = n, !.status = st, !.todo = ps]
  BY <1>2, <1>3 DEF FpDecapPpdu
<1>5. AllKnown(ps, tx_conf, fp_sent)
  BY <1>2, <1>3, AllTail
<1>6. off \in Nat /\ n \in Nat /\ st \in {"DECAP_OK", "DECAP_ERR"} /\ ps \in Seq(Ppdu)
  BY <1>3, <1>5 DEF DecapRecord, AllKnown
<1> HIDE DEF off, n, st, ps, p
<1>7. /\ Ends(fp_sent)' /\ tx_conf' = tx_conf
      /\ rx_sdu'.some => CompHandsOver(p) \/ EndHandsOver(p)
  BY <1>3, <1>4, EndsReceive DEF FpBase
<1>8. /\ decap' \in DecapRecord /\ decap'.todo = ps /\ decap'.offset = off
      /\ decap'.octets = decap.octets /\ decap'.status = st /\ decap'.on = decap.on
  BY <1>3, <1>4, <1>6 DEF DecapRecord
<1>9. DecapOK(decap', tx_conf, fp_sent)
  BY <1>3, <1>5, <1>6, <1>8 DEF DecapOK, off, ps
<1>10. FpBase'
  BY <1>4, <1>7, <1>9 DEF FpBase
<1> QED
  BY <1>1, <1>2, <1>3, <1>4, <1>7, <1>8, <1>10 DEF ps, st, p

LEMMA DecapReturnBase ==
  ASSUME FpBase, FpDecapReturn
  PROVE  /\ FpBase' /\ decap.on /\ ~decap'.on /\ decap'.todo = decap.todo
         /\ decap'.status = decap_round
         /\ IF decap.todo = << >> THEN decap_round = decap.status
                                  ELSE decap_round = "DECAP_ERR_SOME_DROP"
         /\ decap.status \in {"DECAP_OK", "DECAP_ERR"}
<1> DEFINE z == NewFpdu.octets
           r == decap_round
<1>1. /\ UNCHANGED <<held, fpdu, flight, fp_sent>> /\ UNCHANGED tx_vars /\ UNCHANGED rx_vars
      /\ decap.on /\ r # "goes on"
      /\ decap' = [decap EXCEPT !.on = FALSE, !.status = r, !.octets = z, !.offset = 0]
  BY DEF FpDecapReturn
<1>2. Ends(fp_sent)' /\ tx_conf' = tx_conf
  BY <1>1, EndsIdle
<1>3. /\ decap \in DecapRecord /\ decap.status \in {"DECAP_OK", "DECAP_ERR"}
      /\ AllKnown(decap.todo, tx_conf, fp_sent)
      /\ IF decap.todo = << >> THEN r = decap.status ELSE r = "DECAP_ERR_SOME_DROP"
  BY <1>1, DecapRound
<1>4. z \in Octets
  BY SpecialOctets DEF NewFpdu, Octets
<1> HIDE DEF z, r
<1>5. r \in {"DECAP_OK", "DECAP_ERR", "DECAP_ERR_SOME_DROP"}
  BY <1>3
<1>6. decap' \in DecapRecord /\ ~decap'.on /\ decap'.todo = decap.todo /\ decap'.status = r
  BY <1>1, <1>3, <1>4, <1>5 DEF DecapRecord
<1>7. DecapOK(decap', tx_conf, fp_sent)
  BY <1>3, <1>6 DEF DecapOK
<1>8. FpBase'
  BY <1>1, <1>2, <1>7 DEF FpBase
<1> QED
  BY <1>1, <1>3, <1>6, <1>8 DEF r

LEMMA BaseNext == FpBase /\ [FpNext]_fpdu_all => FpBase'
<1> SUFFICES ASSUME FpBase, [FpNext]_fpdu_all PROVE FpBase'
  OBVIOUS
<1>1. CASE UNCHANGED fpdu_all
  <2>1. /\ UNCHANGED tx_vars /\ UNCHANGED rx_vars
        /\ UNCHANGED <<held, fpdu, flight, decap, fp_sent>>
    BY <1>1 DEF fpdu_all, fp_vars
  <2>2. Ends(fp_sent)' /\ tx_conf' = tx_conf
    BY <2>1, EndsIdle
  <2> QED
    BY <2>1, <2>2 DEF FpBase
<1> QED
  BY <1>1, EncapBase, AskBase, PackInitBase, PackBase, FlushBase, LoseBase,
     DecapsulateBase, DecapPpduBase, DecapReturnBase DEF FpNext

-----------------------------------------------------------------------------
(* While nothing is lost *)

\* The FPDUs fl take the cursor of f from a to b.
Flow(f, fl, a, b, s) ==
  \E c : /\ c[0] = a /\ c[Len(fl)] = b
         /\ \A i \in 1 .. Len(fl) : Stream(f, fl[i].packed, c[i - 1], c[i], s)

\* The PPDU held, if any, takes it from b to d.
Holds(f, h, b, d, s) == IF h = NoPpdu THEN d = b ELSE Moves(f, h, b, d, s)

\* What is left of the FPDU being parsed, the FPDUs on their way, the FPDU being filled
\* and the PPDU held lead from the cursor a of the receiver to d of the transmitter.
Between(f, a, d, todo, fl, ps, h, s) ==
  \E m, n, b : /\ Stream(f, todo, a, m, s)
               /\ Flow(f, fl, m, n, s)
               /\ Stream(f, ps, n, b, s)
               /\ Holds(f, h, b, d, s)

LEMMA FlowAppend ==
  ASSUME NEW f, NEW fl \in Seq(Fpdus), NEW a, NEW b, NEW s, Flow(f, fl, a, b, s),
         NEW x \in Fpdus, NEW d, Stream(f, x.packed, b, d, s)
  PROVE  Flow(f, Append(fl, x), a, d, s)
<1>1. PICK c : /\ c[0] = a /\ c[Len(fl)] = b
               /\ \A i \in 1 .. Len(fl) : Stream(f, fl[i].packed, c[i - 1], c[i], s)
  BY DEF Flow
<1> DEFINE n == Len(fl)
           e == [i \in 0 .. n + 1 |-> IF i = n + 1 THEN d ELSE c[i]]
           gl == Append(fl, x)
<1>2. /\ n \in Nat /\ Len(gl) = n + 1 /\ gl[n + 1] = x
      /\ \A i \in 1 .. n : gl[i] = fl[i]
  BY Appended
<1>3. /\ e[n + 1] = d /\ e[0] = a /\ e[n] = b
      /\ \A i \in 1 .. n : e[i - 1] = c[i - 1] /\ e[i] = c[i]
  BY <1>1, <1>2
<1> HIDE DEF e, gl, n
<1>4. ASSUME NEW i \in 1 .. Len(gl) PROVE Stream(f, gl[i].packed, e[i - 1], e[i], s)
  <2>1. CASE i = n + 1
    <3>1. i - 1 = n
      BY <1>2, <2>1
    <3> QED
      BY <1>2, <1>3, <2>1, <3>1
  <2>2. CASE i \in 1 .. n
    BY <1>1, <1>2, <1>3, <2>2 DEF n
  <2> QED
    BY <1>2, <2>1, <2>2
<1>5. e[0] = a /\ e[Len(gl)] = d
  BY <1>2, <1>3
<1> QED
  BY <1>4, <1>5 DEF Flow, gl

LEMMA FlowTail ==
  ASSUME NEW f, NEW fl \in Seq(Fpdus), fl # << >>, NEW a, NEW b, NEW s, Flow(f, fl, a, b, s)
  PROVE  \E m : Stream(f, Head(fl).packed, a, m, s) /\ Flow(f, Tail(fl), m, b, s)
<1>1. PICK c : /\ c[0] = a /\ c[Len(fl)] = b
               /\ \A i \in 1 .. Len(fl) : Stream(f, fl[i].packed, c[i - 1], c[i], s)
  BY DEF Flow
<1> DEFINE n == Len(fl)
           gl == Tail(fl)
           e == [i \in 0 .. n - 1 |-> c[i + 1]]
<1>2. /\ n \in Nat \ {0} /\ Len(gl) = n - 1 /\ Head(fl) = fl[1]
      /\ \A i \in 1 .. n - 1 : gl[i] = fl[i + 1]
  BY Received
<1>3. /\ e[0] = c[1] /\ e[n - 1] = c[n]
      /\ \A i \in 1 .. n - 1 : e[i - 1] = c[i] /\ e[i] = c[i + 1]
  <2>1. 0 \in 0 .. n - 1 /\ n - 1 \in 0 .. n - 1 /\ (n - 1) + 1 = n /\ 0 + 1 = 1
    BY <1>2
  <2>2. \A i \in 1 .. n - 1 : i - 1 \in 0 .. n - 1 /\ i \in 0 .. n - 1 /\ (i - 1) + 1 = i
    BY <1>2
  <2> QED
    BY <2>1, <2>2
<1>4. Stream(f, Head(fl).packed, a, c[1], s)
  <2>1. 1 \in 1 .. Len(fl) /\ 1 - 1 = 0
    BY <1>2
  <2> QED
    BY <1>1, <1>2, <2>1
<1> HIDE DEF e, gl, n
<1>5. ASSUME NEW i \in 1 .. Len(gl) PROVE Stream(f, gl[i].packed, e[i - 1], e[i], s)
  <2>1. i \in 1 .. n - 1 /\ i + 1 \in 1 .. Len(fl) /\ (i + 1) - 1 = i
    BY <1>2 DEF n
  <2> QED
    BY <1>1, <1>2, <1>3, <2>1
<1>6. Flow(f, gl, c[1], b, s)
  <2>1. e[0] = c[1] /\ e[Len(gl)] = b
    BY <1>1, <1>2, <1>3 DEF n
  <2> QED
    BY <1>5, <2>1 DEF Flow
<1> QED
  BY <1>4, <1>6 DEF gl

LEMMA BetweenNone ==
  /\ \A f, a, s : Between(f, a, a, << >>, << >>, << >>, NoPpdu, s)
  /\ \A f, a, d, s : Between(f, a, d, << >>, << >>, << >>, NoPpdu, s) => a = d
<1>1. ASSUME NEW f, NEW a, NEW s PROVE Between(f, a, a, << >>, << >>, << >>, NoPpdu, s)
  <2>1. Stream(f, << >>, a, a, s)
    BY StreamEmpty
  <2>2. Flow(f, << >>, a, a, s)
    <3> DEFINE c == [i \in {0} |-> a]
    <3>1. c[0] = a /\ Len(<< >>) = 0
      OBVIOUS
    <3> HIDE DEF c
    <3> QED
      BY <3>1 DEF Flow
  <2> QED
    BY <2>1, <2>2 DEF Between, Holds
<1>2. ASSUME NEW f, NEW a, NEW d, NEW s, Between(f, a, d, << >>, << >>, << >>, NoPpdu, s)
      PROVE  a = d
  <2>1. PICK m, n, b : /\ Stream(f, << >>, a, m, s) /\ Flow(f, << >>, m, n, s)
                       /\ Stream(f, << >>, n, b, s) /\ Holds(f, NoPpdu, b, d, s)
    BY <1>2 DEF Between
  <2>2. a = m /\ n = b
    BY <2>1, StreamDone
  <2>3. m = n
    <3>1. Len(<< >>) = 0
      OBVIOUS
    <3> QED
      BY <2>1, <3>1 DEF Flow
  <2> QED
    BY <2>1, <2>2, <2>3 DEF Holds
<1> QED
  BY <1>1, <1>2

\* Another SDU is accepted.
LEMMA BetweenMore ==
  ASSUME NEW f, NEW a, NEW d, NEW todo, NEW fl, NEW ps, NEW h, NEW s, NEW t,
         Between(f, a, d, todo, fl, ps, h, s),
         Len(s) \in Nat, Len(t) \in Nat, Len(s) <= Len(t),
         \A i \in 1 .. Len(s) : t[i] = s[i]
  PROVE  Between(f, a, d, todo, fl, ps, h, t)
<1>1. PICK m, n, b : /\ Stream(f, todo, a, m, s) /\ Flow(f, fl, m, n, s)
                     /\ Stream(f, ps, n, b, s) /\ Holds(f, h, b, d, s)
  BY DEF Between
<1>2. Stream(f, todo, a, m, t) /\ Stream(f, ps, n, b, t)
  BY <1>1, StreamMore
<1>3. Flow(f, fl, m, n, t)
  BY <1>1, StreamMore DEF Flow
<1>4. Holds(f, h, b, d, t)
  <2>1. ASSUME Follows(h, b, s) PROVE Follows(h, b, t)
    BY <2>1 DEF Follows
  <2> QED
    BY <1>1, <2>1 DEF Holds, Moves
<1> QED
  BY <1>2, <1>3, <1>4 DEF Between

\* The sender holds a PPDU that comes next.
LEMMA BetweenHold ==
  ASSUME NEW f, NEW a, NEW d, NEW todo, NEW fl, NEW ps, NEW s,
         Between(f, a, d, todo, fl, ps, NoPpdu, s),
         NEW p, p # NoPpdu, NEW e, Moves(f, p, d, e, s)
  PROVE  Between(f, a, e, todo, fl, ps, p, s)
  BY DEF Between, Holds

\* The PPDU held is packed: one of this fragment id, or of another.
LEMMA BetweenPack ==
  ASSUME NEW f, NEW a, NEW d, NEW todo, NEW fl, NEW ps \in Seq(Ppdu), NEW p \in Ppdu, NEW s,
         p # NoPpdu
  PROVE  /\ Between(f, a, d, todo, fl, ps, p, s) =>
              Between(f, a, d, todo, fl, Append(ps, p), NoPpdu, s)
         /\ \A h : p.al.frag # f /\ Between(f, a, d, todo, fl, ps, h, s) =>
                     Between(f, a, d, todo, fl, Append(ps, p), h, s)
<1>1. ASSUME Between(f, a, d, todo, fl, ps, p, s)
      PROVE  Between(f, a, d, todo, fl, Append(ps, p), NoPpdu, s)
  <2>1. PICK m, n, b : /\ Stream(f, todo, a, m, s) /\ Flow(f, fl, m, n, s)
                       /\ Stream(f, ps, n, b, s) /\ Holds(f, p, b, d, s)
    BY <1>1 DEF Between
  <2>2. Stream(f, Append(ps, p), n, d, s)
    BY <2>1, StreamAppend DEF Holds
  <2> QED
    BY <2>1, <2>2 DEF Between, Holds
<1>2. ASSUME NEW h, p.al.frag # f, Between(f, a, d, todo, fl, ps, h, s)
      PROVE  Between(f, a, d, todo, fl, Append(ps, p), h, s)
  <2>1. PICK m, n, b : /\ Stream(f, todo, a, m, s) /\ Flow(f, fl, m, n, s)
                       /\ Stream(f, ps, n, b, s) /\ Holds(f, h, b, d, s)
    BY <1>2 DEF Between
  <2>2. Stream(f, Append(ps, p), n, b, s)
    <3>1. Moves(f, p, b, b, s)
      BY <1>2 DEF Moves
    <3> QED
      BY <2>1, <3>1, StreamAppend
  <2> QED
    BY <2>1, <2>2 DEF Between
<1> QED
  BY <1>1, <1>2

\* The FPDU that was filled goes on its way.
LEMMA BetweenFlush ==
  ASSUME NEW f, NEW a, NEW d, NEW todo, NEW fl \in Seq(Fpdus), NEW h, NEW s, NEW x \in Fpdus,
         Between(f, a, d, todo, fl, x.packed, h, s)
  PROVE  Between(f, a, d, todo, Append(fl, x), << >>, h, s)
<1>1. PICK m, n, b : /\ Stream(f, todo, a, m, s) /\ Flow(f, fl, m, n, s)
                     /\ Stream(f, x.packed, n, b, s) /\ Holds(f, h, b, d, s)
  BY DEF Between
<1>2. Flow(f, Append(fl, x), m, b, s)
  BY <1>1, FlowAppend
<1>3. Stream(f, << >>, b, b, s)
  BY StreamEmpty
<1> QED
  BY <1>1, <1>2, <1>3 DEF Between

\* The oldest FPDU arrives.
LEMMA BetweenArrive ==
  ASSUME NEW f, NEW a, NEW d, NEW fl \in Seq(Fpdus), fl # << >>, NEW ps, NEW h, NEW s,
         Between(f, a, d, << >>, fl, ps, h, s)
  PROVE  Between(f, a, d, Head(fl).packed, Tail(fl), ps, h, s)
<1>1. PICK m, n, b : /\ Stream(f, << >>, a, m, s) /\ Flow(f, fl, m, n, s)
                     /\ Stream(f, ps, n, b, s) /\ Holds(f, h, b, d, s)
  BY DEF Between
<1>2. a = m
  BY <1>1, StreamDone
<1>3. PICK k : Stream(f, Head(fl).packed, m, k, s) /\ Flow(f, Tail(fl), k, n, s)
  BY <1>1, FlowTail
<1> QED
  BY <1>1, <1>2, <1>3 DEF Between

\* The next PPDU of the FPDU being parsed.
LEMMA BetweenNext ==
  ASSUME NEW f, NEW a, NEW d, NEW todo \in Seq(Ppdu), todo # << >>, NEW fl, NEW ps, NEW h,
         NEW s, Between(f, a, d, todo, fl, ps, h, s)
  PROVE  \E m : Moves(f, Head(todo), a, m, s) /\ Between(f, m, d, Tail(todo), fl, ps, h, s)
<1>1. PICK k, n, b : /\ Stream(f, todo, a, k, s) /\ Flow(f, fl, k, n, s)
                     /\ Stream(f, ps, n, b, s) /\ Holds(f, h, b, d, s)
  BY DEF Between
<1>2. PICK m : Moves(f, Head(todo), a, m, s) /\ Stream(f, Tail(todo), m, k, s)
  BY <1>1, StreamTail
<1> QED
  BY <1>1, <1>2 DEF Between

\* The receiver stands at the cursor a of f and the transmitter at d.
Carries(f, a, d) ==
  /\ RxAt(a, rx_free[f], rx_rasm[f], rx_seq[f], rx_seq_init[f], rx_conf)
  /\ GotAt(a, fp_sent[f], fp_got[f])
  /\ Between(f, a, d, decap.todo, flight, fpdu.packed, held[f], fp_sent[f])
  /\ TxAt(f, d, fp_sent[f], tx_free[f], tx_buf[f], tx_seq[f])

LosslessInv ==
  ~fp_disturbed =>
    /\ decap.status \in {"none", "DECAP_OK"} /\ (~decap.on => decap.todo = << >>)
    /\ fp_got \in [FragIds -> Seq(SduItems)]
    /\ \A f \in FragIds : \E a, d : Carries(f, a, d)

LEMMA LosslessInit ==
  ASSUME FpInit
  PROVE  LosslessInv
<1> DEFINE c == [n |-> 0, pos |-> 0, al |-> 0, seq |-> 0]
<1>1. decap.status = "none" /\ decap.todo = << >> /\ fp_got \in [FragIds -> Seq(SduItems)]
  BY DEF FpInit
<1>2. ASSUME NEW f \in FragIds PROVE Carries(f, c, c)
  <2>1. /\ tx_free[f] /\ tx_seq[f] = 0 /\ rx_free[f] /\ ~rx_seq_init[f]
        /\ fp_sent[f] = << >> /\ fp_got[f] = << >> /\ flight = << >>
        /\ held[f] = NoPpdu /\ fpdu.packed = << >>
    BY FpduAssumption DEF FpInit, TxInit, RxInit, NewFpdu
  <2>2. c.n = 0 /\ c.pos = 0 /\ c.seq = 0
    OBVIOUS
  <2> HIDE DEF c
  <2>3. RxAt(c, rx_free[f], rx_rasm[f], rx_seq[f], rx_seq_init[f], rx_conf)
    BY <2>1, <2>2 DEF RxAt, BufHolds, SeqFits
  <2>4. GotAt(c, << >>, << >>) /\ Len(<< >>) = 0
    BY <2>2 DEF GotAt
  <2>5. TxAt(f, c, << >>, tx_free[f], tx_buf[f], tx_seq[f])
    BY <2>1, <2>2, <2>4 DEF TxAt
  <2>6. Between(f, c, c, << >>, << >>, << >>, NoPpdu, << >>)
    BY BetweenNone
  <2> QED
    BY <1>1, <2>1, <2>3, <2>4, <2>5, <2>6 DEF Carries
<1> HIDE DEF c
<1> QED
  BY <1>1, <1>2 DEF LosslessInv

LEMMA EncapLossless ==
  ASSUME FpBase, LosslessInv, NEW f \in FragIds, NEW sdu \in TxSdus, FpEncap(f, sdu)
  PROVE  LosslessInv'
<1> SUFFICES ASSUME ~fp_disturbed' PROVE LosslessInv'
  BY DEF LosslessInv
<1>1. /\ ~fp_disturbed /\ ~(~tx_free[f] /\ tx_free'[f])
      /\ UNCHANGED rx_vars /\ UNCHANGED <<held, fpdu, flight, decap, fp_got>>
  BY EncapBase DEF FpEncap
<1>2. UNCHANGED <<rx_conf, rx_free, rx_rasm, rx_seq, rx_seq_init>>
  BY <1>1 DEF rx_vars
<1>3. ASSUME NEW g \in FragIds PROVE \E a, d : Carries(g, a, d)'
  <2>1. PICK a, d : Carries(g, a, d)
    BY <1>1 DEF LosslessInv
  <2> DEFINE more == fp_sent'
             s == fp_sent[g]
             t == more[g]
  <2>2. /\ RxAt(a, rx_free[g], rx_rasm[g], rx_seq[g], rx_seq_init[g], rx_conf)
        /\ GotAt(a, s, fp_got[g])
        /\ Between(g, a, d, decap.todo, flight, fpdu.packed, held[g], s)
        /\ TxAt(g, d, s, tx_free[g], tx_buf[g], tx_seq[g])
    BY <2>1 DEF Carries
  <2>3. StaysAt(fp_sent, more)
    <3>1. /\ rle_encapsulate(f, sdu) /\ UNCHANGED rx_vars /\ Ends(fp_sent)
          /\ TakesIn(fp_sent, more, f, sdu) /\ ~DrivesOut(f)
      BY <1>1 DEF FpBase, FpEncap, TakesIn, DrivesOut
    <3> HIDE DEF more
    <3> QED
      BY <3>1, EncapAt
  <2> HIDE DEF more
  <2>4. /\ TxAt(g, d, t, tx_free'[g], tx_buf'[g], tx_seq'[g])
        /\ Len(s) \in Nat /\ Len(t) \in Nat /\ Len(s) <= Len(t)
        /\ \A i \in 1 .. Len(s) : t[i] = s[i]
    BY <2>2, <2>3 DEF StaysAt
  <2> HIDE DEF s, t
  <2>5. Between(g, a, d, decap.todo, flight, fpdu.packed, held[g], t)
    BY <2>2, <2>4, BetweenMore
  <2>6. GotAt(a, t, fp_got[g])
    BY <2>2, <2>4 DEF GotAt
  <2> QED
    BY <1>1, <1>2, <2>2, <2>4, <2>5, <2>6 DEF Carries, more, t
<1> QED
  BY <1>1, <1>3 DEF LosslessInv

LEMMA AskLossless ==
  ASSUME FpBase, LosslessInv, NEW f \in FragIds, NEW burst \in Bursts, FpAsk(f, burst)
  PROVE  LosslessInv'
<1> SUFFICES ASSUME ~fp_disturbed' PROVE LosslessInv'
  BY DEF LosslessInv
<1>1. /\ ~fp_disturbed /\ UNCHANGED rx_vars
      /\ UNCHANGED <<fpdu, flight, decap, fp_sent, fp_got>> /\ held[f] = NoPpdu
      /\ \/ SendsNothing /\ held' = held
         \/ /\ Sends(f, tx_ppdu') /\ tx_ppdu' # NoPpdu /\ held'[f] = tx_ppdu'
            /\ \A g \in FragIds \ {f} : held'[g] = held[g]
  BY AskBase
<1>2. UNCHANGED <<rx_conf, rx_free, rx_rasm, rx_seq, rx_seq_init>>
  BY <1>1 DEF rx_vars
<1>3. ASSUME NEW g \in FragIds PROVE \E a, d : Carries(g, a, d)'
  <2>1. PICK a, d : Carries(g, a, d)
    BY <1>1 DEF LosslessInv
  <2> DEFINE s == fp_sent[g]
  <2>2. /\ RxAt(a, rx_free[g], rx_rasm[g], rx_seq[g], rx_seq_init[g], rx_conf)
        /\ GotAt(a, s, fp_got[g])
        /\ Between(g, a, d, decap.todo, flight, fpdu.packed, held[g], s)
        /\ TxAt(g, d, s, tx_free[g], tx_buf[g], tx_seq[g])
    BY <2>1 DEF Carries
  <2>3. \E e : /\ Between(g, a, e, decap.todo, flight, fpdu.packed, held'[g], s)
               /\ TxAt(g, e, s, tx_free'[g], tx_buf'[g], tx_seq'[g])
    <3> HIDE DEF s
    <3>1. CASE SendsNothing /\ held' = held
      BY <2>2, <3>1, SendNothingAt
    <3>2. CASE /\ Sends(f, tx_ppdu') /\ tx_ppdu' # NoPpdu /\ held'[f] = tx_ppdu'
               /\ \A h \in FragIds \ {f} : held'[h] = held[h]
      <4> DEFINE p == tx_ppdu'
      <4>1. /\ tx_seq \in [FragIds -> Nat] /\ tx_free \in [FragIds -> BOOLEAN]
            /\ Len(s) \in Nat
        <5>1. s \in Seq(SduItems)
          BY DEF s, FpBase, Ends, SentOK
        <5>2. tx_seq \in [FragIds -> Nat]
          BY LimitsAssumption DEF FpBase, Ends, TxInv, TxTypeOK
        <5> QED
          BY <5>1, <5>2 DEF FpBase, Ends, TxInv, TxTypeOK
      <4>2. Sends(f, p) /\ p # NoPpdu /\ held'[f] = p
        BY <3>2
      <4> HIDE DEF p
      <4>3. CASE g = f
        <5>1. /\ Follows(p, d, s) /\ p.al.frag = g
              /\ TxAt(g, After(p, d), s, tx_free'[g], tx_buf'[g], tx_seq'[g])
          BY <2>2, <4>1, <4>2, <4>3, SendFollows
        <5>2. Moves(g, p, d, After(p, d), s)
          BY <5>1 DEF Moves
        <5> DEFINE e == After(p, d)
        <5> HIDE DEF e
        <5>3. Between(g, a, e, decap.todo, flight, fpdu.packed, p, s)
          BY <1>1, <2>2, <4>2, <4>3, <5>2, BetweenHold DEF e
        <5> QED
          BY <4>2, <4>3, <5>1, <5>3 DEF e
      <4>4. CASE g # f
        <5>1. tx_free'[g] = tx_free[g] /\ tx_buf'[g] = tx_buf[g] /\ tx_seq'[g] = tx_seq[g]
          BY <4>1, <4>2, <4>4 DEF Sends
        <5> QED
          BY <2>2, <3>2, <4>4, <5>1
      <4> QED
        BY <4>3, <4>4
    <3> QED
      BY <1>1, <3>1, <3>2
  <2> QED
    BY <1>1, <1>2, <2>2, <2>3 DEF Carries
<1> QED
  BY <1>1, <1>3 DEF LosslessInv

\* Steps of the sender on FPDUs, and the arrival of one.
LEMMA RepackLossless ==
  ASSUME FpBase, LosslessInv, UNCHANGED tx_vars, UNCHANGED rx_vars,
         UNCHANGED <<fp_sent, fp_got, fp_disturbed>>,
         decap'.status \in {"none", "DECAP_OK"} \/ decap'.status = decap.status,
         ~decap'.on => decap' = decap,
         ~fp_disturbed => \A f \in FragIds : \A a, d :
           Between(f, a, d, decap.todo, flight, fpdu.packed, held[f], fp_sent[f]) =>
             Between(f, a, d, decap'.todo, flight', fpdu'.packed, held'[f], fp_sent[f])
  PROVE  LosslessInv'
<1> SUFFICES ASSUME ~fp_disturbed' PROVE LosslessInv'
  BY DEF LosslessInv
<1>1. /\ UNCHANGED <<tx_free, tx_buf, tx_seq>>
      /\ UNCHANGED <<rx_conf, rx_free, rx_rasm, rx_seq, rx_seq_init>>
  BY DEF tx_vars, rx_vars
<1>2. ASSUME NEW f \in FragIds PROVE \E a, d : Carries(f, a, d)'
  <2>1. PICK a, d : Carries(f, a, d)
    BY DEF LosslessInv
  <2>2. Between(f, a, d, decap'.todo, flight', fpdu'.packed, held'[f], fp_sent[f])
    BY <2>1 DEF Carries
  <2>3. Carries(f, a, d)'
    BY <1>1, <2>1, <2>2 DEF Carries
  <2> QED
    BY <2>3
<1> QED
  BY <1>2 DEF LosslessInv

LEMMA PackLossless ==
  ASSUME FpBase, LosslessInv, NEW f \in FragIds, FpPack(f)
  PROVE  LosslessInv'
<1> DEFINE p == held[f]
           ps == fpdu.packed
<1>1. /\ UNCHANGED <<flight, decap, fp_sent, fp_got, fp_disturbed>>
      /\ UNCHANGED tx_vars /\ UNCHANGED rx_vars
  BY DEF FpPack
<1>2. /\ p # NoPpdu /\ p \in Ppdu /\ p.al.frag = f
      /\ \/ held' = held /\ fpdu'.packed = ps
         \/ held' = [held EXCEPT ![f] = NoPpdu] /\ fpdu'.packed = Append(ps, p)
  BY PackBase
<1>3. ps \in Seq(Ppdu) /\ DOMAIN held = FragIds
  BY DEF FpBase, FillOK, HeldOK
<1> HIDE DEF ps
<1>4. ASSUME NEW g \in FragIds, NEW a, NEW d, NEW s,
             Between(g, a, d, decap.todo, flight, ps, held[g], s)
      PROVE  Between(g, a, d, decap.todo, flight, fpdu'.packed, held'[g], s)
  <2>1. CASE held' = held /\ fpdu'.packed = ps
    BY <1>4, <2>1
  <2>2. CASE held' = [held EXCEPT ![f] = NoPpdu] /\ fpdu'.packed = Append(ps, p)
    <3>1. CASE g = f
      <4>1. held'[g] = NoPpdu
        BY <1>3, <2>2, <3>1
      <4>2. Between(g, a, d, decap.todo, flight, ps, p, s)
        BY <1>4, <3>1
      <4> HIDE DEF p
      <4>3. Between(g, a, d, decap.todo, flight, Append(ps, p), NoPpdu, s)
        BY <1>2, <1>3, <4>2, BetweenPack
      <4> QED
        BY <2>2, <4>1, <4>3
    <3>2. CASE g # f
      <4>1. held'[g] = held[g]
        BY <1>3, <2>2, <3>2
      <4> HIDE DEF p
      <4>2. Between(g, a, d, decap.todo, flight, Append(ps, p), held[g], s)
        BY <1>2, <1>3, <1>4, <3>2, BetweenPack
      <4> QED
        BY <2>2, <4>1, <4>2
    <3> QED
      BY <3>1, <3>2
  <2> QED
    BY <1>2, <2>1, <2>2
<1> QED
  BY <1>1, <1>4, RepackLossless DEF ps

LEMMA FlushLossless ==
  ASSUME FpBase, LosslessInv, FpFlush
  PROVE  LosslessInv'
<1>1. /\ UNCHANGED <<held, decap, fp_sent, fp_got, fp_disturbed>>
      /\ UNCHANGED tx_vars /\ UNCHANGED rx_vars /\ flight \in Seq(Fpdus)
  BY DEF FpFlush, FpBase, FlightOK
<1>2. PICK x \in Fpdus : flight' = Append(flight, x) /\ x.packed = fpdu.packed
  BY FlushBase
<1>3. fpdu'.packed = << >>
  BY FlushBase
<1>4. ASSUME NEW g \in FragIds, NEW a, NEW d, NEW s,
             Between(g, a, d, decap.todo, flight, fpdu.packed, held[g], s)
      PROVE  Between(g, a, d, decap.todo, flight', fpdu'.packed, held[g], s)
  <2>1. Between(g, a, d, decap.todo, Append(flight, x), << >>, held[g], s)
    BY <1>1, <1>2, <1>4, BetweenFlush
  <2> QED
    BY <1>2, <1>3, <2>1
<1> QED
  BY <1>1, <1>4, RepackLossless

LEMMA DecapsulateLossless ==
  ASSUME FpBase, LosslessInv, FpDecapsulate
  PROVE  LosslessInv'
<1>1. /\ UNCHANGED <<held, fpdu, fp_sent, fp_got, fp_disturbed>>
      /\ UNCHANGED tx_vars /\ UNCHANGED rx_vars /\ flight \in Seq(Fpdus)
  BY DEF FpDecapsulate, FpBase, FlightOK
<1>2. /\ ~decap.on /\ flight # << >> /\ flight' = Tail(flight)
      /\ decap'.on /\ decap'.todo = Head(flight).packed /\ decap'.status = "DECAP_OK"
  BY DecapsulateBase
<1>3. ASSUME ~fp_disturbed, NEW g \in FragIds, NEW a, NEW d, NEW s,
             Between(g, a, d, decap.todo, flight, fpdu.packed, held[g], s)
      PROVE  Between(g, a, d, decap'.todo, flight', fpdu.packed, held[g], s)
  <2>1. decap.todo = << >>
    BY <1>2, <1>3 DEF LosslessInv
  <2>2. Between(g, a, d, Head(flight).packed, Tail(flight), fpdu.packed, held[g], s)
    BY <1>1, <1>2, <1>3, <2>1, BetweenArrive
  <2> QED
    BY <1>2, <2>2
<1> QED
  BY <1>1, <1>2, <1>3, RepackLossless

LEMMA DecapPpduLossless ==
  ASSUME NoneAsVlan, FpBase, LosslessInv, FpDecapPpdu
  PROVE  LosslessInv'
<1> SUFFICES ASSUME ~fp_disturbed' PROVE LosslessInv'
  BY DEF LosslessInv
<1> DEFINE p == Head(decap.todo)
           more == fp_got'
<1>1. /\ ~fp_disturbed /\ UNCHANGED <<held, fpdu, flight, fp_sent>> /\ UNCHANGED tx_vars
      /\ more = IF rx_sdu'.some
                  THEN [fp_got EXCEPT ![rx_sdu'.al.frag] =
                          Append(@, [id |-> rx_sdu'.al.id, sdu |-> rx_sdu'.sdu])]
                  ELSE fp_got
  BY DEF FpDecapPpdu
<1>2. /\ Ends(fp_sent) /\ Sent(p, fp_sent) /\ decap.todo \in Seq(Ppdu)
      /\ fp_got \in [FragIds -> Seq(SduItems)] /\ rle_receiver_deencap_data(p)
      /\ decap.todo # << >> /\ decap'.todo = Tail(decap.todo) /\ decap'.on
      /\ decap'.status = IF rx_ret'.status = "C_ERROR" THEN "DECAP_ERR" ELSE decap.status
  BY <1>1, DecapPpduBase DEF FpBase, LosslessInv, DecapOK, DecapRecord
<1>3. UNCHANGED <<tx_free, tx_buf, tx_seq>> /\ rx_conf' = rx_conf
  <2>1. FpBase' /\ tx_conf' = tx_conf
    BY <1>1, DecapPpduBase DEF tx_vars
  <2> QED
    BY <1>1, <2>1 DEF tx_vars, FpBase, Ends
<1>4. ASSUME NEW f \in FragIds
      PROVE  \E a, m, d :
               /\ Carries(f, a, d) /\ Moves(f, p, a, m, fp_sent[f])
               /\ Between(f, m, d, Tail(decap.todo), flight, fpdu.packed, held[f], fp_sent[f])
  <2>1. PICK a, d : Carries(f, a, d)
    BY <1>1 DEF LosslessInv
  <2> DEFINE s == fp_sent[f]
  <2>2. Between(f, a, d, decap.todo, flight, fpdu.packed, held[f], s)
    BY <2>1 DEF Carries
  <2> HIDE DEF s
  <2>3. \E m : /\ Moves(f, p, a, m, s)
               /\ Between(f, m, d, Tail(decap.todo), flight, fpdu.packed, held[f], s)
    BY <1>2, <2>2, BetweenNext
  <2> QED
    BY <2>1, <2>3 DEF s
<1> HIDE DEF p, more
<1>5. /\ rx_ret'.status # "C_ERROR"
      /\ \A f \in FragIds : \A c, d :
           /\ Moves(f, p, c, d, fp_sent[f])
           /\ RxAt(c, rx_free[f], rx_rasm[f], rx_seq[f], rx_seq_init[f], rx_conf)
           /\ GotAt(c, fp_sent[f], fp_got[f])
           => /\ RxAt(d, rx_free'[f], rx_rasm'[f], rx_seq'[f], rx_seq_init'[f], rx_conf)
              /\ GotAt(d, fp_sent[f], more[f])
  <2>1. \A f \in FragIds : \E c, d :
          /\ Moves(f, p, c, d, fp_sent[f])
          /\ RxAt(c, rx_free[f], rx_rasm[f], rx_seq[f], rx_seq_init[f], rx_conf)
    BY <1>4 DEF Carries
  <2> QED
    BY <1>1, <1>2, <2>1, ReceiveMoves
<1>6. ASSUME NEW f \in FragIds PROVE more[f] \in Seq(SduItems) /\ \E a, d : Carries(f, a, d)'
  <2>1. PICK a, m, d :
          /\ Carries(f, a, d) /\ Moves(f, p, a, m, fp_sent[f])
          /\ Between(f, m, d, Tail(decap.todo), flight, fpdu.packed, held[f], fp_sent[f])
    BY <1>4
  <2>2. /\ RxAt(m, rx_free'[f], rx_rasm'[f], rx_seq'[f], rx_seq_init'[f], rx_conf)
        /\ GotAt(m, fp_sent[f], more[f])
        /\ TxAt(f, d, fp_sent[f], tx_free[f], tx_buf[f], tx_seq[f])
    BY <1>5, <2>1 DEF Carries
  <2>3. Carries(f, m, d)'
    BY <1>1, <1>2, <1>3, <2>1, <2>2 DEF Carries, more
  <2> QED
    BY <2>2, <2>3 DEF GotAt
<1>7. fp_got' \in [FragIds -> Seq(SduItems)]
  <2>1. DOMAIN more = FragIds /\ more = [f \in FragIds |-> more[f]]
    BY <1>1, <1>2
  <2> QED
    BY <1>6, <2>1 DEF more
<1>8. decap'.status \in {"none", "DECAP_OK"}
  BY <1>1, <1>2, <1>5 DEF LosslessInv
<1> QED
  BY <1>2, <1>6, <1>7, <1>8 DEF LosslessInv

LEMMA DecapReturnLossless ==
  ASSUME FpBase, LosslessInv, FpDecapReturn
  PROVE  LosslessInv'
<1> SUFFICES ASSUME ~fp_disturbed' PROVE LosslessInv'
  BY DEF LosslessInv
<1>1. /\ ~fp_disturbed /\ decap_round # "DECAP_ERR_SOME_DROP"
      /\ UNCHANGED <<held, fpdu, flight, fp_sent, fp_got>>
      /\ UNCHANGED tx_vars /\ UNCHANGED rx_vars
  BY DEF FpDecapReturn
<1>2. decap.todo = << >> /\ decap'.todo = << >> /\ decap'.status = decap.status
  BY <1>1, DecapReturnBase
<1>3. /\ UNCHANGED <<tx_free, tx_buf, tx_seq>>
      /\ UNCHANGED <<rx_conf, rx_free, rx_rasm, rx_seq, rx_seq_init>>
  BY <1>1 DEF tx_vars, rx_vars
<1> QED
  BY <1>1, <1>2, <1>3 DEF LosslessInv, Carries

LEMMA LosslessNext ==
  ASSUME NoneAsVlan, FpBase, LosslessInv, [FpNext]_fpdu_all
  PROVE  LosslessInv'
<1>1. CASE FpLose
  BY <1>1 DEF FpLose, LosslessInv
<1>2. CASE FpPackInit
  <2>1. /\ UNCHANGED <<held, flight, decap, fp_sent, fp_got, fp_disturbed>>
        /\ UNCHANGED tx_vars /\ UNCHANGED rx_vars /\ fpdu'.packed = fpdu.packed
    BY <1>2, PackInitBase DEF FpPackInit
  <2> QED
    BY <2>1, RepackLossless
<1>3. CASE UNCHANGED fpdu_all
  BY <1>3 DEF fpdu_all, fp_vars, tx_vars, rx_vars, LosslessInv, Carries
<1> QED
  BY <1>1, <1>2, <1>3, EncapLossless, AskLossless, PackLossless, FlushLossless,
     DecapsulateLossless, DecapPpduLossless, DecapReturnLossless DEF FpNext

LEMMA LosslessHolds ==
  ASSUME FpBase, LosslessInv
  PROVE  NothingLostInFpdus
<1> SUFFICES ASSUME ~fp_disturbed PROVE NothingLostInFpdus
  BY DEF NothingLostInFpdus
<1>1. decap.status \in {"none", "DECAP_OK"}
  BY DEF LosslessInv
<1>2. ASSUME AllReceived, NEW f \in FragIds PROVE fp_got[f] = fp_sent[f]
  <2> DEFINE s == fp_sent[f]
             g == fp_got[f]
  <2>1. PICK a, d : Carries(f, a, d)
    BY DEF LosslessInv
  <2>2. /\ tx_free[f] /\ held[f] = NoPpdu /\ flight = << >> /\ decap.todo = << >>
        /\ fpdu.packed = << >>
    BY <1>2 DEF AllReceived, LosslessInv, FpBase, FillOK
  <2>3. /\ g \in Seq(SduItems) /\ s \in Seq(SduItems) /\ a.n = Len(g)
        /\ \A i \in 1 .. Len(g) : g[i] = s[i]
        /\ Between(f, a, d, << >>, << >>, << >>, NoPpdu, s)
        /\ TxAt(f, d, s, tx_free[f], tx_buf[f], tx_seq[f])
    BY <2>1, <2>2 DEF Carries, GotAt, FpBase, Ends, SentOK
  <2> HIDE DEF s, g
  <2>4. a = d
    BY <2>3, BetweenNone
  <2>5. Len(g) = Len(s)
    BY <2>2, <2>3, <2>4 DEF TxAt
  <2>6. DOMAIN g = 1 .. Len(g) /\ DOMAIN s = 1 .. Len(s)
    BY <2>3
  <2>7. g = s
    BY <2>3, <2>5, <2>6
  <2> QED
    BY <2>7 DEF s, g
<1>3. AllReceived => fp_got = fp_sent
  BY <1>2 DEF LosslessInv, FpBase, Ends, SentOK
<1> QED
  BY <1>1, <1>3 DEF NothingLostInFpdus

-----------------------------------------------------------------------------
(* Order, with CRC trailers *)

\* The SDUs of f with a number up to v have gone by, and p is a PPDU of a later one; w
\* of them have once p has.
Lifts(f, p, v, w) ==
  v <= w /\ (p.al.frag = f => v < p.al.id /\ (Final(p) => p.al.id <= w))

\* The same of the PPDUs ps, among which those of an SDU that is complete come before
\* those of later ones.
Rises(f, ps, v, w) ==
  /\ v <= w
  /\ \A i \in 1 .. Len(ps) :
       /\ Lifts(f, ps[i], v, w)
       /\ ps[i].al.frag = f /\ Final(ps[i]) =>
            \A j \in 1 .. Len(ps) : i < j /\ ps[j].al.frag = f => ps[i].al.id < ps[j].al.id

\* The same of the FPDUs fl.
FlowRises(f, fl, v, w) ==
  \E c : /\ c[0] = v /\ c[Len(fl)] = w
         /\ \A i \in 0 .. Len(fl) : c[i] \in Nat /\ \A j \in i .. Len(fl) : c[i] <= c[j]
         /\ \A i \in 1 .. Len(fl) : Rises(f, fl[i].packed, c[i - 1], c[i])

\* The same of all that is between the receiver and the transmitter; FPDUs may be
\* missing where they are lost, and PPDUs where a call returned early.
Below(f, v, w, todo, fl, ps, h) ==
  \E m \in Nat, k \in Nat, n \in Nat, b \in Nat :
    /\ Rises(f, todo, v, m) /\ m <= k
    /\ FlowRises(f, fl, k, n)
    /\ Rises(f, ps, n, b)
    /\ IF h = NoPpdu THEN b <= w ELSE Lifts(f, h, b, w)

LEMMA PpduIds == \A p \in Ppdu : p.al.id \in Nat
  BY DEF Ppdu, Alpdu

LEMMA RisesEmpty == \A f : \A v \in Nat : Rises(f, << >>, v, v)
<1>1. Len(<< >>) = 0
  OBVIOUS
<1> QED
  BY <1>1 DEF Rises

LEMMA RisesAppend ==
  ASSUME NEW f, NEW ps \in Seq(Ppdu), NEW p \in Ppdu, NEW u \in Nat, NEW v \in Nat,
         NEW w \in Nat, Rises(f, ps, u, v), Lifts(f, p, v, w)
  PROVE  Rises(f, Append(ps, p), u, w)
<1> DEFINE n == Len(ps)
           qs == Append(ps, p)
<1>1. /\ n \in Nat /\ Len(qs) = n + 1 /\ qs[n + 1] = p
      /\ \A i \in 1 .. n : qs[i] = ps[i] /\ ps[i] \in Ppdu
  BY Appended
<1>2. u <= v /\ v <= w /\ p.al.id \in Nat /\ \A i \in 1 .. n : ps[i].al.id \in Nat
  BY <1>1, PpduIds DEF Rises, Lifts
<1>3. \A i \in 1 .. n : Lifts(f, ps[i], u, v)
  BY DEF Rises
<1>4. Lifts(f, p, u, w) /\ \A i \in 1 .. n : Lifts(f, ps[i], u, w)
  BY <1>2, <1>3 DEF Lifts
<1>5. \A i \in 1 .. n : ps[i].al.frag = f /\ Final(ps[i]) /\ p.al.frag = f => ps[i].al.id < p.al.id
  BY <1>2, <1>3 DEF Lifts
<1>6. \A i \in 1 .. n : \A j \in 1 .. n :
        ps[i].al.frag = f /\ Final(ps[i]) /\ i < j /\ ps[j].al.frag = f => ps[i].al.id < ps[j].al.id
  BY DEF Rises
<1> HIDE DEF qs, n
<1>7. \A i \in 1 .. n + 1 : i \in 1 .. n \/ i = n + 1
  BY <1>1
<1>8. \A i \in 1 .. n : ~(n + 1 < i)
  BY <1>1
<1>9. ~(n + 1 < n + 1) /\ u <= w
  BY <1>1, <1>2
<1>10. ASSUME NEW i \in 1 .. n + 1
       PROVE  /\ Lifts(f, qs[i], u, w)
              /\ qs[i].al.frag = f /\ Final(qs[i]) =>
                   \A j \in 1 .. n + 1 : i < j /\ qs[j].al.frag = f => qs[i].al.id < qs[j].al.id
  <2>1. CASE i = n + 1
    BY <1>1, <1>4, <1>7, <1>8, <1>9, <2>1
  <2>2. CASE i \in 1 .. n
    BY <1>1, <1>4, <1>5, <1>6, <1>7, <2>2
  <2> QED
    BY <1>7, <2>1, <2>2
<1> QED
  BY <1>1, <1>9, <1>10 DEF Rises, qs

\* What is left once the first PPDU has gone by.
Lifted(f, p, v) == IF p.al.frag = f /\ Final(p) THEN p.al.id ELSE v

LEMMA RisesTail ==
  ASSUME NEW f, NEW ps \in Seq(Ppdu), ps # << >>, NEW v \in Nat, NEW w \in Nat,
         Rises(f, ps, v, w)
  PROVE  LET u == Lifted(f, Head(ps), v)
         IN /\ u \in Nat /\ v <= u /\ Rises(f, Tail(ps), u, w)
            /\ Head(ps).al.frag = f => v < Head(ps).al.id
            /\ Head(ps).al.id \in Nat
<1> DEFINE n == Len(ps)
           qs == Tail(ps)
           p == Head(ps)
           u == Lifted(f, p, v)
<1>1. /\ n \in Nat \ {0} /\ Len(qs) = n - 1 /\ p = ps[1] /\ 1 \in 1 .. n
      /\ \A i \in 1 .. n - 1 : qs[i] = ps[i + 1]
      /\ \A i \in 1 .. n : ps[i].al.id \in Nat
  <2>1. /\ n \in Nat \ {0} /\ Len(qs) = n - 1 /\ p = ps[1]
        /\ \A i \in 1 .. n - 1 : qs[i] = ps[i + 1]
    BY Received
  <2>2. \A i \in 1 .. n : ps[i] \in Ppdu
    BY Elements
  <2> QED
    BY <2>1, <2>2, PpduIds
<1>2. Lifts(f, p, v, w)
  BY <1>1 DEF Rises
<1>3. \A i \in 1 .. n : \A j \in 1 .. n :
        ps[i].al.frag = f /\ Final(ps[i]) /\ i < j /\ ps[j].al.frag = f => ps[i].al.id < ps[j].al.id
  BY DEF Rises
<1>4. \A i \in 1 .. n : Lifts(f, ps[i], v, w)
  BY DEF Rises
<1>5. p.al.id \in Nat /\ (p.al.frag = f => v < p.al.id /\ (Final(p) => p.al.id <= w)) /\ v <= w
  BY <1>1, <1>2 DEF Lifts
<1> HIDE DEF p
<1>6. u \in Nat /\ v <= u /\ u <= w
  BY <1>5 DEF Lifted
<1> HIDE DEF qs, n
<1>7. \A i \in 1 .. n - 1 : i + 1 \in 1 .. n /\ 1 < i + 1
  BY <1>1
<1>8. \A i \in 1 .. n - 1 : qs[i].al.frag = f => u < qs[i].al.id
  <2> TAKE i \in 1 .. n - 1
  <2>1. qs[i] = ps[i + 1] /\ i + 1 \in 1 .. n /\ 1 < i + 1 /\ ps[i + 1].al.id \in Nat
    BY <1>1, <1>7
  <2>2. qs[i].al.frag = f => v < qs[i].al.id
    BY <1>4, <2>1 DEF Lifts
  <2>3. qs[i].al.frag = f /\ p.al.frag = f /\ Final(p) => p.al.id < qs[i].al.id
    BY <1>1, <1>3, <2>1
  <2> QED
    BY <2>2, <2>3 DEF Lifted
<1>9. \A i \in 1 .. n - 1 : Lifts(f, qs[i], u, w)
  <2> TAKE i \in 1 .. n - 1
  <2>1. Lifts(f, qs[i], v, w)
    BY <1>1, <1>4, <1>7
  <2> HIDE DEF u
  <2> QED
    BY <1>6, <1>8, <2>1 DEF Lifts
<1>10. \A i \in 1 .. n - 1 : \A j \in 1 .. n - 1 :
         qs[i].al.frag = f /\ Final(qs[i]) /\ i < j /\ qs[j].al.frag = f =>
           qs[i].al.id < qs[j].al.id
  <2> TAKE i \in 1 .. n - 1
  <2> TAKE j \in 1 .. n - 1
  <2>1. i < j => i + 1 < j + 1
    BY <1>1
  <2> QED
    BY <1>1, <1>3, <1>7, <2>1
<1> HIDE DEF u
<1>11. Rises(f, qs, u, w)
  BY <1>1, <1>6, <1>9, <1>10 DEF Rises
<1> QED
  BY <1>5, <1>6, <1>11 DEF p, qs, u

LEMMA FlowRisesAppend ==
  ASSUME NEW f, NEW fl \in Seq(Fpdus), NEW x \in Fpdus, NEW u, NEW v, NEW w \in Nat,
         FlowRises(f, fl, u, v), Rises(f, x.packed, v, w)
  PROVE  FlowRises(f, Append(fl, x), u, w)
<1>1. PICK c : /\ c[0] = u /\ c[Len(fl)] = v
               /\ \A i \in 0 .. Len(fl) : c[i] \in Nat /\ \A j \in i .. Len(fl) : c[i] <= c[j]
               /\ \A i \in 1 .. Len(fl) : Rises(f, fl[i].packed, c[i - 1], c[i])
  BY DEF FlowRises
<1> DEFINE n == Len(fl)
           e == [i \in 0 .. n + 1 |-> IF i = n + 1 THEN w ELSE c[i]]
           gl == Append(fl, x)
<1>2. /\ n \in Nat /\ Len(gl) = n + 1 /\ gl[n + 1] = x
      /\ \A i \in 1 .. n : gl[i] = fl[i]
  BY Appended
<1>3. /\ e[n + 1] = w /\ e[0] = u /\ e[n] = v
      /\ \A i \in 1 .. n : e[i - 1] = c[i - 1] /\ e[i] = c[i]
      /\ \A i \in 0 .. n : e[i] = c[i]
  BY <1>1, <1>2
<1> HIDE DEF e, gl, n
<1>4. ASSUME NEW i \in 1 .. Len(gl) PROVE Rises(f, gl[i].packed, e[i - 1], e[i])
  <2>1. CASE i = n + 1
    <3>1. i - 1 = n
      BY <1>2, <2>1
    <3> QED
      BY <1>2, <1>3, <2>1, <3>1
  <2>2. CASE i \in 1 .. n
    BY <1>1, <1>2, <1>3, <2>2 DEF n
  <2> QED
    BY <1>2, <2>1, <2>2
<1>5. v <= w
  BY DEF Rises
<1>6. ASSUME NEW i \in 0 .. n + 1
      PROVE  e[i] \in Nat /\ \A j \in i .. n + 1 : e[i] <= e[j]
  <2>1. CASE i = n + 1
    <3>1. \A j \in i .. n + 1 : j = n + 1
      BY <1>2, <2>1
    <3> QED
      BY <1>3, <2>1, <3>1
  <2>2. CASE i \in 0 .. n
    <3>1. e[i] = c[i] /\ c[i] \in Nat /\ \A j \in i .. n : c[i] <= c[j]
      BY <1>1, <1>3, <2>2 DEF n
    <3>2. c[i] <= v /\ v \in Nat
      BY <1>1, <1>2, <2>2 DEF n
    <3>3. ASSUME NEW j \in i .. n + 1 PROVE e[i] <= e[j]
      <4>1. CASE j = n + 1
        BY <1>3, <1>5, <3>1, <3>2, <4>1
      <4>2. CASE j \in i .. n
        <5>1. j \in 0 .. n
          BY <1>2, <2>2, <4>2
        <5> QED
          BY <1>3, <3>1, <4>2, <5>1
      <4> QED
        BY <1>2, <2>2, <4>1, <4>2
    <3> QED
      BY <3>1, <3>3
  <2> QED
    BY <1>2, <2>1, <2>2
<1> QED
  BY <1>2, <1>3, <1>4, <1>6 DEF FlowRises, gl

LEMMA FlowRisesTail ==
  ASSUME NEW f, NEW fl \in Seq(Fpdus), fl # << >>, NEW v, NEW w, FlowRises(f, fl, v, w)
  PROVE  \E u \in Nat : /\ v \in Nat /\ v <= u /\ Rises(f, Head(fl).packed, v, u)
                        /\ FlowRises(f, Tail(fl), u, w)
<1>1. PICK c : /\ c[0] = v /\ c[Len(fl)] = w
               /\ \A i \in 0 .. Len(fl) : c[i] \in Nat /\ \A j \in i .. Len(fl) : c[i] <= c[j]
               /\ \A i \in 1 .. Len(fl) : Rises(f, fl[i].packed, c[i - 1], c[i])
  BY DEF FlowRises
<1> DEFINE n == Len(fl)
           gl == Tail(fl)
           e == [i \in 0 .. n - 1 |-> c[i + 1]]
<1>2. /\ n \in Nat \ {0} /\ Len(gl) = n - 1 /\ Head(fl) = fl[1]
      /\ \A i \in 1 .. n - 1 : gl[i] = fl[i + 1]
  BY Received
<1>3. /\ e[0] = c[1] /\ e[n - 1] = c[n]
      /\ \A i \in 1 .. n - 1 : e[i - 1] = c[i] /\ e[i] = c[i + 1]
      /\ \A i \in 0 .. n - 1 : e[i] = c[i + 1]
  <2>1. 0 \in 0 .. n - 1 /\ n - 1 \in 0 .. n - 1 /\ (n - 1) + 1 = n /\ 0 + 1 = 1
    BY <1>2
  <2>2. \A i \in 1 .. n - 1 : i - 1 \in 0 .. n - 1 /\ i \in 0 .. n - 1 /\ (i - 1) + 1 = i
    BY <1>2
  <2> QED
    BY <2>1, <2>2
<1>4. /\ Rises(f, Head(fl).packed, v, c[1]) /\ v \in Nat /\ c[1] \in Nat /\ v <= c[1]
  <2>1. 1 \in 1 .. Len(fl) /\ 1 - 1 = 0 /\ 0 \in 0 .. Len(fl) /\ 1 \in 0 .. Len(fl)
    BY <1>2
  <2> QED
    BY <1>1, <1>2, <2>1
<1> HIDE DEF e, gl, n
<1>5. ASSUME NEW i \in 1 .. Len(gl) PROVE Rises(f, gl[i].packed, e[i - 1], e[i])
  <2>1. i \in 1 .. n - 1 /\ i + 1 \in 1 .. Len(fl) /\ (i + 1) - 1 = i
    BY <1>2 DEF n
  <2> QED
    BY <1>1, <1>2, <1>3, <2>1
<1>6. ASSUME NEW i \in 0 .. Len(gl)
      PROVE  e[i] \in Nat /\ \A j \in i .. Len(gl) : e[i] <= e[j]
  <2>1. i \in 0 .. n - 1 /\ i + 1 \in 0 .. Len(fl)
    BY <1>2 DEF n
  <2>2. \A j \in i .. Len(gl) : j \in 0 .. n - 1 /\ j + 1 \in i + 1 .. Len(fl)
    BY <1>2, <2>1 DEF n
  <2> QED
    BY <1>1, <1>3, <2>1, <2>2
<1>7. FlowRises(f, gl, c[1], w)
  <2>1. e[0] = c[1] /\ e[Len(gl)] = w
    BY <1>1, <1>2, <1>3 DEF n
  <2> QED
    BY <1>5, <1>6, <2>1 DEF FlowRises
<1> QED
  BY <1>4, <1>7 DEF gl

LEMMA BelowNone == \A f : Below(f, 0, 0, << >>, << >>, << >>, NoPpdu)
<1> TAKE f
<1>1. Rises(f, << >>, 0, 0) /\ 0 \in Nat /\ 0 <= 0
  BY RisesEmpty
<1>2. FlowRises(f, << >>, 0, 0)
  <2> DEFINE c == [i \in {0} |-> 0]
  <2>1. c[0] = 0 /\ Len(<< >>) = 0
    OBVIOUS
  <2> HIDE DEF c
  <2> QED
    BY <2>1 DEF FlowRises
<1> QED
  BY <1>1, <1>2 DEF Below

LEMMA BelowHold ==
  ASSUME NEW f, NEW v, NEW w \in Nat, NEW todo, NEW fl, NEW ps,
         Below(f, v, w, todo, fl, ps, NoPpdu),
         NEW p \in Ppdu, p # NoPpdu, p.al.frag = f => w < p.al.id, NEW u \in Nat, w <= u,
         p.al.frag = f /\ Final(p) => p.al.id <= u
  PROVE  Below(f, v, u, todo, fl, ps, p)
<1>1. PICK m \in Nat, k \in Nat, n \in Nat, b \in Nat :
        /\ Rises(f, todo, v, m) /\ m <= k /\ FlowRises(f, fl, k, n) /\ Rises(f, ps, n, b)
        /\ b <= w
  BY DEF Below
<1>2. Lifts(f, p, b, u)
  <2>1. p.al.id \in Nat
    BY PpduIds
  <2> QED
    BY <1>1, <2>1 DEF Lifts
<1> QED
  BY <1>1, <1>2 DEF Below

LEMMA BelowPack ==
  ASSUME NEW f, NEW v, NEW w \in Nat, NEW todo, NEW fl, NEW ps \in Seq(Ppdu), NEW p \in Ppdu,
         p # NoPpdu
  PROVE  /\ Below(f, v, w, todo, fl, ps, p) => Below(f, v, w, todo, fl, Append(ps, p), NoPpdu)
         /\ \A h : p.al.frag # f /\ Below(f, v, w, todo, fl, ps, h) =>
                     Below(f, v, w, todo, fl, Append(ps, p), h)
<1>1. ASSUME Below(f, v, w, todo, fl, ps, p)
      PROVE  Below(f, v, w, todo, fl, Append(ps, p), NoPpdu)
  <2>1. PICK m \in Nat, k \in Nat, n \in Nat, b \in Nat :
          /\ Rises(f, todo, v, m) /\ m <= k /\ FlowRises(f, fl, k, n) /\ Rises(f, ps, n, b)
          /\ Lifts(f, p, b, w)
    BY <1>1 DEF Below
  <2>2. Rises(f, Append(ps, p), n, w) /\ w <= w
    BY <2>1, RisesAppend
  <2> QED
    BY <2>1, <2>2 DEF Below
<1>2. ASSUME NEW h, p.al.frag # f, Below(f, v, w, todo, fl, ps, h)
      PROVE  Below(f, v, w, todo, fl, Append(ps, p), h)
  <2>1. PICK m \in Nat, k \in Nat, n \in Nat, b \in Nat :
          /\ Rises(f, todo, v, m) /\ m <= k /\ FlowRises(f, fl, k, n) /\ Rises(f, ps, n, b)
          /\ IF h = NoPpdu THEN b <= w ELSE Lifts(f, h, b, w)
    BY <1>2 DEF Below
  <2>2. Lifts(f, p, b, b)
    BY <1>2 DEF Lifts
  <2>3. Rises(f, Append(ps, p), n, b)
    BY <2>1, <2>2, RisesAppend
  <2> QED
    BY <2>1, <2>3 DEF Below
<1> QED
  BY <1>1, <1>2

LEMMA BelowFlush ==
  ASSUME NEW f, NEW v, NEW w, NEW todo, NEW fl \in Seq(Fpdus), NEW h, NEW x \in Fpdus,
         Below(f, v, w, todo, fl, x.packed, h)
  PROVE  Below(f, v, w, todo, Append(fl, x), << >>, h)
<1>1. PICK m \in Nat, k \in Nat, n \in Nat, b \in Nat :
        /\ Rises(f, todo, v, m) /\ m <= k /\ FlowRises(f, fl, k, n) /\ Rises(f, x.packed, n, b)
        /\ IF h = NoPpdu THEN b <= w ELSE Lifts(f, h, b, w)
  BY DEF Below
<1>2. FlowRises(f, Append(fl, x), k, b)
  BY <1>1, FlowRisesAppend
<1>3. Rises(f, << >>, b, b)
  BY RisesEmpty
<1> QED
  BY <1>1, <1>2, <1>3 DEF Below

\* The oldest FPDU is lost, or it arrives; PPDUs of an earlier one may be left over.
LEMMA BelowLeave ==
  ASSUME NEW f, NEW v \in Nat, NEW w, NEW todo, NEW fl \in Seq(Fpdus), fl # << >>, NEW ps,
         NEW h, Below(f, v, w, todo, fl, ps, h)
  PROVE  /\ Below(f, v, w, todo, Tail(fl), ps, h)
         /\ \E u \in Nat : v <= u /\ Below(f, u, w, Head(fl).packed, Tail(fl), ps, h)
<1>1. PICK m \in Nat, k \in Nat, n \in Nat, b \in Nat :
        /\ Rises(f, todo, v, m) /\ m <= k /\ FlowRises(f, fl, k, n) /\ Rises(f, ps, n, b)
        /\ IF h = NoPpdu THEN b <= w ELSE Lifts(f, h, b, w)
  BY DEF Below
<1>2. PICK u \in Nat : k <= u /\ Rises(f, Head(fl).packed, k, u) /\ FlowRises(f, Tail(fl), u, n)
  BY <1>1, FlowRisesTail
<1>3. v <= m
  BY <1>1 DEF Rises
<1>4. m <= u /\ u <= u /\ v <= k
  BY <1>1, <1>2, <1>3
<1>5. Below(f, v, w, todo, Tail(fl), ps, h)
  BY <1>1, <1>2, <1>4 DEF Below
<1>6. Below(f, k, w, Head(fl).packed, Tail(fl), ps, h)
  BY <1>1, <1>2, <1>4 DEF Below
<1> QED
  BY <1>4, <1>5, <1>6

LEMMA BelowNext ==
  ASSUME NEW f, NEW v \in Nat, NEW w, NEW todo \in Seq(Ppdu), todo # << >>, NEW fl, NEW ps,
         NEW h, Below(f, v, w, todo, fl, ps, h)
  PROVE  LET u == Lifted(f, Head(todo), v)
         IN /\ u \in Nat /\ v <= u /\ Below(f, u, w, Tail(todo), fl, ps, h)
            /\ Head(todo).al.frag = f => v < Head(todo).al.id
            /\ Head(todo).al.id \in Nat
<1>1. PICK m \in Nat, k \in Nat, n \in Nat, b \in Nat :
        /\ Rises(f, todo, v, m) /\ m <= k /\ FlowRises(f, fl, k, n) /\ Rises(f, ps, n, b)
        /\ IF h = NoPpdu THEN b <= w ELSE Lifts(f, h, b, w)
  BY DEF Below
<1> DEFINE u == Lifted(f, Head(todo), v)
<1>2. /\ u \in Nat /\ v <= u /\ Rises(f, Tail(todo), u, m)
      /\ Head(todo).al.frag = f => v < Head(todo).al.id
      /\ Head(todo).al.id \in Nat
  BY <1>1, RisesTail
<1> HIDE DEF u
<1>3. Below(f, u, w, Tail(todo), fl, ps, h)
  BY <1>1, <1>2 DEF Below
<1> QED
  BY <1>2, <1>3 DEF u

\* SDUs of f up to v have been handed over at most, and those up to w have left the
\* transmitter.
Ordered(f, v, w) ==
  /\ v \in Nat /\ w \in Nat
  /\ \A i \in 1 .. Len(fp_got[f]) : fp_got[f][i].id <= v
  /\ Below(f, v, w, decap.todo, flight, fpdu.packed, held[f])
  /\ w <= tx_count /\ (~tx_free[f] => w < tx_buf[f].id)

OrderInv ==
  /\ fp_got \in [FragIds -> Seq(SduItems)]
  /\ \A f \in FragIds : \E v, w : Ordered(f, v, w)

LEMMA OrderInit ==
  ASSUME FpInit
  PROVE  OrderInv
<1>1. fp_got \in [FragIds -> Seq(SduItems)]
  BY DEF FpInit
<1>2. ASSUME NEW f \in FragIds PROVE Ordered(f, 0, 0)
  <2>1. /\ tx_free[f] /\ tx_count = 0 /\ fp_got[f] = << >> /\ flight = << >>
        /\ held[f] = NoPpdu /\ fpdu.packed = << >> /\ decap.todo = << >>
    BY DEF FpInit, TxInit, NewFpdu
  <2>2. Len(<< >>) = 0 /\ 0 \in Nat /\ 0 <= 0
    OBVIOUS
  <2>3. Below(f, 0, 0, << >>, << >>, << >>, NoPpdu)
    BY BelowNone
  <2> QED
    BY <2>1, <2>2, <2>3 DEF Ordered
<1> QED
  BY <1>1, <1>2 DEF OrderInv

LEMMA Numbers ==
  ASSUME FpBase
  PROVE  /\ tx_count \in Nat /\ tx_free \in [FragIds -> BOOLEAN]
         /\ \A f \in FragIds : ~tx_free[f] => tx_buf[f].id \in 1 .. tx_count
  BY DEF FpBase, Ends, TxInv, TxTypeOK, TxAlpdus

LEMMA EncapOrder ==
  ASSUME FpBase, OrderInv, NEW f \in FragIds, NEW sdu \in TxSdus, FpEncap(f, sdu)
  PROVE  OrderInv'
<1>1. /\ UNCHANGED <<fpdu, flight, decap, fp_got>> /\ (Accepts(f, sdu) \/ Refuses(f))
      /\ \A g \in FragIds : held'[g] = held[g] \/ held'[g] = NoPpdu
  BY EncapBase
<1>2. tx_count \in Nat /\ tx_free \in [FragIds -> BOOLEAN]
  BY Numbers
<1>3. ASSUME NEW g \in FragIds PROVE \E v, w : Ordered(g, v, w)'
  <2>1. PICK v, w : Ordered(g, v, w)
    BY DEF OrderInv
  <2>2. v \in Nat /\ w \in Nat /\ w <= tx_count /\ (~tx_free[g] => w < tx_buf[g].id)
    BY <2>1 DEF Ordered
  <2>3. w <= tx_count' /\ (~tx_free'[g] => w < tx_buf'[g].id)
    <3>1. CASE Accepts(f, sdu)
      <4>1. /\ tx_count' = tx_count + 1 /\ ~tx_free'[f] /\ tx_buf'[f].id = tx_count + 1
            /\ \A h \in FragIds \ {f} : tx_buf'[h] = tx_buf[h] /\ tx_free'[h] = tx_free[h]
        BY <1>2, <3>1 DEF Accepts
      <4>2. w <= tx_count + 1 /\ w < tx_count + 1
        BY <1>2, <2>2
      <4> QED
        BY <2>2, <4>1, <4>2
    <3>2. CASE Refuses(f)
      <4>1. /\ tx_count' = tx_count /\ tx_buf' = tx_buf
            /\ \A h \in FragIds : ~tx_free'[h] => ~tx_free[h]
        BY <1>2, <3>2 DEF Refuses
      <4> QED
        BY <2>2, <4>1
    <3> QED
      BY <1>1, <3>1, <3>2
  <2>4. Below(g, v, w, decap.todo, flight, fpdu.packed, held'[g])
    BY <1>1, <2>1 DEF Ordered, Below, Lifts
  <2> QED
    BY <1>1, <2>1, <2>3, <2>4 DEF Ordered
<1> QED
  BY <1>1, <1>3 DEF OrderInv

LEMMA AskOrder ==
  ASSUME FpBase, OrderInv, NEW f \in FragIds, NEW burst \in Bursts, FpAsk(f, burst)
  PROVE  OrderInv'
<1>1. /\ UNCHANGED <<fpdu, flight, decap, fp_got, tx_count>> /\ held[f] = NoPpdu
      /\ \/ SendsNothing /\ held' = held
         \/ /\ Sends(f, tx_ppdu') /\ tx_ppdu' # NoPpdu /\ held'[f] = tx_ppdu'
            /\ \A g \in FragIds \ {f} : held'[g] = held[g]
  BY AskBase
<1>2. /\ tx_count \in Nat /\ tx_free \in [FragIds -> BOOLEAN]
      /\ \A g \in FragIds : ~tx_free[g] => tx_buf[g].id \in 1 .. tx_count
  BY Numbers
<1>3. ASSUME NEW g \in FragIds PROVE \E v, w : Ordered(g, v, w)'
  <2>1. PICK v, w : Ordered(g, v, w)
    BY DEF OrderInv
  <2>2. /\ v \in Nat /\ w \in Nat /\ w <= tx_count /\ (~tx_free[g] => w < tx_buf[g].id)
        /\ Below(g, v, w, decap.todo, flight, fpdu.packed, held[g])
        /\ \A i \in 1 .. Len(fp_got[g]) : fp_got[g][i].id <= v
    BY <2>1 DEF Ordered
  <2>3. \E u \in Nat : /\ u <= tx_count /\ (~tx_free'[g] => u < tx_buf'[g].id)
                       /\ Below(g, v, u, decap.todo, flight, fpdu.packed, held'[g])
    <3>1. CASE SendsNothing /\ held' = held
      <4>1. tx_free' = tx_free /\ tx_buf'[g].id = tx_buf[g].id
        BY <3>1 DEF SendsNothing
      <4> QED
        BY <2>2, <3>1, <4>1
    <3>2. CASE /\ Sends(f, tx_ppdu') /\ tx_ppdu' # NoPpdu /\ held'[f] = tx_ppdu'
               /\ \A h \in FragIds \ {f} : held'[h] = held[h]
      <4> DEFINE p == tx_ppdu'
      <4>1. /\ ~tx_free[f] /\ p.al = alpdu_of(tx_buf'[f], f) /\ p.al.id = tx_buf[f].id
            /\ tx_free' = [tx_free EXCEPT ![f] = Final(p)] /\ p \in Ppdu
            /\ \A h \in FragIds \ {f} : tx_buf'[h] = tx_buf[h]
        BY <3>2 DEF Sends, Final, PpduOK
      <4>2. p.al.frag = f /\ tx_buf'[f].id = p.al.id
        BY <4>1 DEF alpdu_of
      <4>3. p # NoPpdu /\ held'[f] = p
        BY <3>2
      <4> HIDE DEF p
      <4>4. CASE g # f
        <5>1. tx_free'[g] = tx_free[g] /\ tx_buf'[g] = tx_buf[g] /\ held'[g] = held[g]
          BY <1>2, <3>2, <4>1, <4>4
        <5> QED
          BY <2>2, <5>1
      <4>5. CASE g = f
        <5>1. tx_free'[f] = Final(p)
          BY <1>2, <4>1
        <5>2. w < p.al.id /\ p.al.id \in 1 .. tx_count
          BY <1>2, <2>2, <4>1, <4>5
        <5> DEFINE u == IF Final(p) THEN p.al.id ELSE w
        <5>3. /\ u \in Nat /\ w <= u /\ u <= tx_count /\ (Final(p) => p.al.id <= u)
              /\ (~Final(p) => u < p.al.id)
          BY <1>2, <2>2, <5>2
        <5> HIDE DEF u
        <5>4. Below(f, v, u, decap.todo, flight, fpdu.packed, p)
          BY <1>1, <2>2, <4>1, <4>3, <4>5, <5>2, <5>3, BelowHold
        <5> QED
          BY <4>2, <4>3, <4>5, <5>1, <5>3, <5>4
      <4> QED
        BY <4>4, <4>5
    <3> QED
      BY <1>1, <3>1, <3>2
  <2> QED
    BY <1>1, <2>2, <2>3 DEF Ordered
<1> QED
  BY <1>1, <1>3 DEF OrderInv

\* Steps of neither end.
LEMMA RepackOrder ==
  ASSUME OrderInv, UNCHANGED tx_vars, UNCHANGED fp_got,
         \A f \in FragIds : \A v \in Nat, w \in Nat :
           Below(f, v, w, decap.todo, flight, fpdu.packed, held[f]) =>
             \E u \in Nat :
               /\ v <= u
               /\ Below(f, u, w, decap'.todo, flight', fpdu'.packed, held'[f])
  PROVE  OrderInv'
<1>1. UNCHANGED <<tx_count, tx_free, tx_buf>>
  BY DEF tx_vars
<1>2. ASSUME NEW f \in FragIds PROVE \E v, w : Ordered(f, v, w)'
  <2>1. PICK v, w : Ordered(f, v, w)
    BY DEF OrderInv
  <2>2. PICK u \in Nat : /\ v <= u
                         /\ Below(f, u, w, decap'.todo, flight', fpdu'.packed, held'[f])
    BY <2>1 DEF Ordered
  <2>3. ASSUME NEW i \in 1 .. Len(fp_got[f]) PROVE fp_got[f][i].id <= u
    <3>1. fp_got[f] \in Seq(SduItems)
      BY DEF OrderInv
    <3>2. fp_got[f][i] \in SduItems
      BY <3>1, Elements
    <3>3. fp_got[f][i].id \in Nat /\ fp_got[f][i].id <= v /\ v \in Nat
      BY <2>1, <3>2 DEF Ordered, SduItems
    <3> QED
      BY <2>2, <3>3
  <2>4. Ordered(f, u, w)'
    BY <1>1, <2>1, <2>2, <2>3 DEF Ordered
  <2> QED
    BY <2>4
<1> QED
  BY <1>2 DEF OrderInv

LEMMA PackOrder ==
  ASSUME FpBase, OrderInv, NEW f \in FragIds, FpPack(f)
  PROVE  OrderInv'
<1> DEFINE p == held[f]
           ps == fpdu.packed
<1>1. UNCHANGED <<flight, decap, fp_got>> /\ UNCHANGED tx_vars
  BY DEF FpPack
<1>2. /\ p # NoPpdu /\ p \in Ppdu /\ p.al.frag = f
      /\ \/ held' = held /\ fpdu'.packed = ps
         \/ held' = [held EXCEPT ![f] = NoPpdu] /\ fpdu'.packed = Append(ps, p)
  BY PackBase
<1>3. ps \in Seq(Ppdu) /\ DOMAIN held = FragIds
  BY DEF FpBase, FillOK, HeldOK
<1> HIDE DEF ps
<1>4. ASSUME NEW g \in FragIds, NEW v \in Nat, NEW w \in Nat,
             Below(g, v, w, decap.todo, flight, ps, held[g])
      PROVE  Below(g, v, w, decap.todo, flight, fpdu'.packed, held'[g])
  <2>1. CASE held' = held /\ fpdu'.packed = ps
    BY <1>4, <2>1
  <2>2. CASE held' = [held EXCEPT ![f] = NoPpdu] /\ fpdu'.packed = Append(ps, p)
    <3>1. CASE g = f
      <4>1. held'[g] = NoPpdu
        BY <1>3, <2>2, <3>1
      <4>2. Below(g, v, w, decap.todo, flight, ps, p)
        BY <1>4, <3>1
      <4> HIDE DEF p
      <4>3. Below(g, v, w, decap.todo, flight, Append(ps, p), NoPpdu)
        BY <1>2, <1>3, <4>2, BelowPack
      <4> QED
        BY <2>2, <4>1, <4>3
    <3>2. CASE g # f
      <4>1. held'[g] = held[g]
        BY <1>3, <2>2, <3>2
      <4> HIDE DEF p
      <4>2. Below(g, v, w, decap.todo, flight, Append(ps, p), held[g])
        BY <1>2, <1>3, <1>4, <3>2, BelowPack
      <4> QED
        BY <2>2, <4>1, <4>2
    <3> QED
      BY <3>1, <3>2
  <2> QED
    BY <1>2, <2>1, <2>2
<1>5. \A v \in Nat : v <= v
  OBVIOUS
<1> QED
  BY <1>1, <1>4, <1>5, RepackOrder DEF ps

LEMMA FlushOrder ==
  ASSUME FpBase, OrderInv, FpFlush
  PROVE  OrderInv'
<1>1. UNCHANGED <<held, decap, fp_got>> /\ UNCHANGED tx_vars /\ flight \in Seq(Fpdus)
  BY DEF FpFlush, FpBase, FlightOK
<1>2. PICK x \in Fpdus : flight' = Append(flight, x) /\ x.packed = fpdu.packed
  BY FlushBase
<1>3. fpdu'.packed = << >>
  BY FlushBase
<1>4. ASSUME NEW g \in FragIds, NEW v \in Nat, NEW w \in Nat,
             Below(g, v, w, decap.todo, flight, fpdu.packed, held[g])
      PROVE  Below(g, v, w, decap.todo, flight', fpdu'.packed, held[g])
  <2>1. Below(g, v, w, decap.todo, Append(flight, x), << >>, held[g])
    BY <1>1, <1>2, <1>4, BelowFlush
  <2> QED
    BY <1>2, <1>3, <2>1
<1>5. \A v \in Nat : v <= v
  OBVIOUS
<1> QED
  BY <1>1, <1>4, <1>5, RepackOrder

LEMMA LeaveOrder ==
  ASSUME FpBase, OrderInv, FpLose \/ FpDecapsulate
  PROVE  OrderInv'
<1>1. /\ UNCHANGED <<held, fpdu, fp_got>> /\ UNCHANGED tx_vars /\ flight \in Seq(Fpdus)
      /\ flight # << >> /\ flight' = Tail(flight)
      /\ decap'.todo = decap.todo \/ decap'.todo = Head(flight).packed
  BY DecapsulateBase DEF FpLose, FpDecapsulate, FpBase, FlightOK
<1>2. ASSUME NEW g \in FragIds, NEW v \in Nat, NEW w \in Nat,
             Below(g, v, w, decap.todo, flight, fpdu.packed, held[g])
      PROVE  \E u \in Nat :
               v <= u /\ Below(g, u, w, decap'.todo, flight', fpdu'.packed, held'[g])
  <2>1. /\ Below(g, v, w, decap.todo, Tail(flight), fpdu.packed, held[g])
        /\ \E u \in Nat :
             v <= u /\ Below(g, u, w, Head(flight).packed, Tail(flight), fpdu.packed, held[g])
    BY <1>1, <1>2, BelowLeave
  <2>2. v <= v
    OBVIOUS
  <2> QED
    BY <1>1, <2>1, <2>2
<1> QED
  BY <1>1, <1>2, RepackOrder

\* A PPDU is parsed: what it makes the receiver hand over comes after all that has been.
LEMMA DecapPpduOrder ==
  ASSUME CrcProtected, FpBase, OrderInv, FpDecapPpdu
  PROVE  OrderInv'
<1> DEFINE p == Head(decap.todo)
           al == rx_sdu'.al
           f == al.frag
           item == [id |-> al.id, sdu |-> rx_sdu'.sdu]
<1>1. /\ UNCHANGED <<held, fpdu, flight, fp_sent>> /\ UNCHANGED <<tx_count, tx_free, tx_buf>>
      /\ fp_got' = IF rx_sdu'.some THEN [fp_got EXCEPT ![f] = Append(@, item)] ELSE fp_got
  BY DEF FpDecapPpdu, tx_vars
<1>2. /\ Ends(fp_sent) /\ Sent(p, fp_sent) /\ decap.todo \in Seq(Ppdu)
      /\ decap.todo # << >> /\ decap'.todo = Tail(decap.todo)
      /\ rx_sdu'.some => CompHandsOver(p) \/ EndHandsOver(p)
  BY DecapPpduBase DEF FpBase, DecapOK, DecapRecord
<1>3. fp_got \in [FragIds -> Seq(SduItems)]
  BY DEF OrderInv
<1> HIDE DEF p
<1>4. rx_sdu'.some => /\ f \in FragIds /\ item \in SduItems /\ item.id = p.al.id
                      /\ Final(p) /\ p.al.frag = f
  <2> SUFFICES ASSUME rx_sdu'.some
               PROVE  /\ f \in FragIds /\ item \in SduItems /\ item.id = p.al.id
                      /\ Final(p) /\ p.al.frag = f
    OBVIOUS
  <2>1. /\ f \in FragIds /\ Known(al, fp_sent) /\ rx_sdu'.sdu = al.sdu
        /\ Final(p) /\ f = p.al.frag /\ al.id = p.al.id
    BY <1>2, HandsOverItem
  <2>2. al.id \in 1 .. tx_count /\ tx_count \in Nat /\ al.sdu \in TxSdus
    BY <1>2, <2>1, KnownItem
  <2> QED
    BY <2>1, <2>2 DEF SduItems
<1> HIDE DEF f, item
<1>5. /\ fp_got' \in [FragIds -> Seq(SduItems)]
      /\ \A g \in FragIds :
           \/ fp_got'[g] = fp_got[g]
           \/ g = f /\ rx_sdu'.some /\ fp_got'[g] = Append(fp_got[g], item)
  <2>1. CASE ~rx_sdu'.some
    BY <1>1, <1>3, <2>1
  <2>2. CASE rx_sdu'.some
    <3>1. Append(fp_got[f], item) \in Seq(SduItems)
      BY <1>3, <1>4, <2>2, Appended
    <3> QED
      BY <1>1, <1>3, <1>4, <2>2, <3>1
  <2> QED
    BY <2>1, <2>2
<1>6. ASSUME NEW g \in FragIds PROVE \E v, w : Ordered(g, v, w)'
  <2>1. PICK v, w : Ordered(g, v, w)
    BY DEF OrderInv
  <2> DEFINE u == Lifted(g, p, v)
  <2>2. /\ v \in Nat /\ w \in Nat /\ w <= tx_count /\ (~tx_free[g] => w < tx_buf[g].id)
        /\ Below(g, v, w, decap.todo, flight, fpdu.packed, held[g])
        /\ \A i \in 1 .. Len(fp_got[g]) : fp_got[g][i].id <= v
    BY <2>1 DEF Ordered
  <2>3. /\ u \in Nat /\ v <= u
        /\ Below(g, u, w, Tail(decap.todo), flight, fpdu.packed, held[g])
    BY <1>2, <2>2, BelowNext DEF p
  <2>4. rx_sdu'.some /\ g = f => u = item.id
    BY <1>4 DEF Lifted
  <2> HIDE DEF u
  <2>5. ASSUME NEW i \in 1 .. Len(fp_got[g]) PROVE fp_got[g][i].id <= u
    <3>1. fp_got[g] \in Seq(SduItems)
      BY <1>3
    <3>2. fp_got[g][i] \in SduItems
      BY <3>1, Elements
    <3>3. fp_got[g][i].id \in Nat /\ fp_got[g][i].id <= v
      BY <2>2, <3>2 DEF SduItems
    <3> QED
      BY <2>2, <2>3, <3>3
  <2>6. ASSUME NEW i \in 1 .. Len(fp_got'[g]) PROVE fp_got'[g][i].id <= u
    <3>1. CASE fp_got'[g] = fp_got[g]
      BY <2>5, <3>1
    <3>2. CASE g = f /\ rx_sdu'.some /\ fp_got'[g] = Append(fp_got[g], item)
      <4>1. fp_got[g] \in Seq(SduItems) /\ item \in SduItems
        BY <1>3, <1>4, <3>2
      <4>2. /\ Len(fp_got'[g]) = Len(fp_got[g]) + 1 /\ Len(fp_got[g]) \in Nat
            /\ fp_got'[g][Len(fp_got[g]) + 1] = item
            /\ \A j \in 1 .. Len(fp_got[g]) : fp_got'[g][j] = fp_got[g][j]
        BY <3>2, <4>1, Appended
      <4>3. i \in 1 .. Len(fp_got[g]) \/ i = Len(fp_got[g]) + 1
        BY <4>2
      <4>4. CASE i = Len(fp_got[g]) + 1
        <5>1. fp_got'[g][i].id = u /\ u <= u
          BY <2>3, <2>4, <3>2, <4>2, <4>4
        <5> QED
          BY <5>1
      <4>5. CASE i \in 1 .. Len(fp_got[g])
        BY <2>5, <4>2, <4>5
      <4> QED
        BY <4>3, <4>4, <4>5
    <3> QED
      BY <1>5, <3>1, <3>2
  <2>7. PICK r : r = u
    OBVIOUS
  <2>8. Ordered(g, r, w)'
    BY <1>1, <1>2, <2>2, <2>3, <2>6, <2>7 DEF Ordered
  <2> QED
    BY <2>8
<1> QED
  BY <1>5, <1>6 DEF OrderInv

LEMMA OrderNext ==
  ASSUME CrcProtected, FpBase, OrderInv, [FpNext]_fpdu_all
  PROVE  OrderInv'
<1>1. CASE FpPackInit \/ FpDecapReturn \/ UNCHANGED fpdu_all
  <2>1. /\ UNCHANGED <<held, flight, fp_got>> /\ UNCHANGED <<tx_count, tx_free, tx_buf>>
        /\ decap'.todo = decap.todo /\ fpdu'.packed = fpdu.packed
    BY <1>1, PackInitBase, DecapReturnBase
       DEF FpPackInit, FpDecapReturn, fpdu_all, fp_vars, tx_vars
  <2> QED
    BY <2>1 DEF OrderInv, Ordered
<1> QED
  BY <1>1, EncapOrder, AskOrder, PackOrder, FlushOrder, LeaveOrder, DecapPpduOrder DEF FpNext

-----------------------------------------------------------------------------
(* Refinement *)

\* With CRC trailers every step is one of RleService, or changes nothing there.
LEMMA ServiceStep ==
  ASSUME CrcProtected, FpBase, OrderInv, [FpNext]_fpdu_all
  PROVE  [Service!ServiceNext]_(Service!service_vars)
<1>1. ASSUME NEW f \in FragIds, NEW sdu \in TxSdus, FpEncap(f, sdu)
      PROVE  [Service!ServiceNext]_(Service!service_vars)
  <2> DEFINE item == [id |-> tx_count', sdu |-> sdu]
  <2>1. /\ fp_got' = fp_got
        /\ fp_sent' = IF tx_ret'.status = "ENCAP_OK"
                        THEN [fp_sent EXCEPT ![f] = Append(@, item)] ELSE fp_sent
        /\ Accepts(f, sdu) \/ Refuses(f)
    BY <1>1, EncapBase DEF FpEncap
  <2>2. CASE Accepts(f, sdu)
    <3>1. tx_count' \in 1 .. MaxSdus /\ tx_ret'.status = "ENCAP_OK"
      BY <2>2, Numbers, TxAssumption DEF Accepts
    <3>2. Service!TakeIn(f, item)
      BY <2>1, <3>1 DEF Service!TakeIn
    <3>3. item \in [id : 1 .. MaxSdus, sdu : TxSdus]
      BY <3>1
    <3> QED
      BY <3>2, <3>3 DEF Service!ServiceNext
  <2>3. CASE Refuses(f)
    BY <2>1, <2>3 DEF Refuses, Service!service_vars
  <2> QED
    BY <2>1, <2>2, <2>3
<1>2. ASSUME FpDecapPpdu
      PROVE  [Service!ServiceNext]_(Service!service_vars)
  <2> DEFINE al == rx_sdu'.al
             f == al.frag
             p == Head(decap.todo)
  <2>1. /\ UNCHANGED fp_sent
        /\ fp_got' = IF rx_sdu'.some
                       THEN [fp_got EXCEPT ![f] =
                               Append(@, [id |-> al.id, sdu |-> rx_sdu'.sdu])]
                       ELSE fp_got
    BY <1>2 DEF FpDecapPpdu
  <2>2. CASE ~rx_sdu'.some
    BY <2>1, <2>2 DEF Service!service_vars
  <2>3. CASE rx_sdu'.some
    <3>1. /\ Ends(fp_sent) /\ Sent(p, fp_sent) /\ decap.todo \in Seq(Ppdu)
          /\ decap.todo # << >> /\ (CompHandsOver(p) \/ EndHandsOver(p))
      BY <1>2, <2>3, DecapPpduBase DEF FpBase, DecapOK, DecapRecord
    <3>2. /\ f \in FragIds /\ Known(al, fp_sent) /\ rx_sdu'.sdu = al.sdu
          /\ f = p.al.frag /\ al.id = p.al.id
      BY <3>1, HandsOverItem
    <3>3. PICK k \in 1 .. Len(fp_sent[f]) :
            /\ fp_sent[f][k] = Item(al)
            /\ \A j \in k .. Len(fp_sent[f]) : fp_sent[f][j].id >= al.id
      BY <3>1, <3>2, KnownItem
    <3>4. al.id \in Int
      BY <3>1, <3>2, KnownItem
    <3>5. /\ fp_sent[f] \in Seq(SduItems) /\ Len(fp_sent[f]) \in Nat
          /\ DOMAIN fp_sent[f] = 1 .. Len(fp_sent[f])
      <4>1. fp_sent[f] \in Seq(SduItems)
        BY <3>1, <3>2 DEF Ends, SentOK
      <4> QED
        BY <4>1
    <3>6. fp_got[f] \in Seq(SduItems)
      BY <3>2 DEF OrderInv
    <3>7. DOMAIN fp_got[f] = 1 .. Len(fp_got[f])
      BY <3>6
    <3>8. PICK v, w : Ordered(f, v, w)
      BY <3>2 DEF OrderInv
    <3>9. v \in Nat /\ v < p.al.id /\ \A i \in 1 .. Len(fp_got[f]) : fp_got[f][i].id <= v
      <4>1. \A g \in FragIds : Ordered(g, v, w) =>
              v \in Nat /\ (p.al.frag = g => v < p.al.id)
        <5> SUFFICES ASSUME NEW g \in FragIds, Ordered(g, v, w)
                     PROVE  v \in Nat /\ (p.al.frag = g => v < p.al.id)
          OBVIOUS
        <5>1. v \in Nat /\ w \in Nat
              /\ Below(g, v, w, decap.todo, flight, fpdu.packed, held[g])
          BY DEF Ordered
        <5> HIDE DEF p
        <5> QED
          BY <3>1, <5>1, BelowNext DEF p
      <4> QED
        BY <3>2, <3>8, <4>1 DEF Ordered
    <3> HIDE DEF f, al, p
    <3>10. \A i \in 1 .. Len(fp_got[f]) : fp_got[f][i].id \in Nat /\ fp_got[f][i].id < al.id
      <4>1. \A i \in 1 .. Len(fp_got[f]) : fp_got[f][i] \in SduItems
        BY <3>6, Elements
      <4>2. \A i \in 1 .. Len(fp_got[f]) : fp_got[f][i].id \in Nat
        BY <4>1 DEF SduItems
      <4> QED
        BY <3>2, <3>4, <3>9, <4>2
    <3>11. ASSUME NEW j \in k .. Len(fp_sent[f])
           PROVE  fp_sent[f][j] \notin Service!Range(fp_got[f])
      <4>1. fp_sent[f][j].id >= al.id /\ fp_sent[f][j].id \in Nat
        <5>1. j \in 1 .. Len(fp_sent[f])
          BY <3>5
        <5>2. fp_sent[f][j] \in SduItems
          BY <3>5, <5>1, Elements
        <5> QED
          BY <3>3, <5>2 DEF SduItems
      <4>2. \A i \in 1 .. Len(fp_got[f]) : fp_got[f][i].id # fp_sent[f][j].id
        BY <3>4, <3>10, <4>1
      <4> QED
        BY <3>7, <4>2 DEF Service!Range
    <3>12. fp_got' = [fp_got EXCEPT ![f] = Append(@, fp_sent[f][k])]
      BY <2>1, <2>3, <3>2, <3>3 DEF Item, f, al
    <3>13. Service!GiveOut(f)
      BY <2>1, <3>5, <3>11, <3>12 DEF Service!GiveOut
    <3> QED
      BY <3>2, <3>13 DEF Service!ServiceNext
  <2> QED
    BY <2>2, <2>3
<1>3. ASSUME UNCHANGED <<fp_sent, fp_got>>
      PROVE  [Service!ServiceNext]_(Service!service_vars)
  BY <1>3 DEF Service!service_vars
<1> QED
  BY <1>1, <1>2, <1>3 DEF FpNext, FpAsk, FpPackInit, FpPack, FpFlush, FpLose, FpDecapsulate,
                          FpDecapReturn, fpdu_all, fp_vars

-----------------------------------------------------------------------------
(* Theorems *)

\* For FPDUs and labels of every size, PPDUs of every length and whatever was in the
\* FPDU buffer before: rle_decapsulate meets the PPDUs that were packed, one by one and
\* nothing else, behind the label, and says RLE_DECAP_ERR_SOME_DROP when PPDUs are left
\* and only then.
THEOREM DecapsulatesWhatWasPacked == FpSpec => ParsedAsPacked
<1>1. FpBase /\ [FpNext]_fpdu_all =>
        [/\ decap.on /\ decap'.on /\ decap' # decap =>
              decap.todo # << >> /\ decap.octets[decap.offset] = Head(decap.todo)
         /\ ~decap.on /\ decap'.on =>
              \A i \in 0 .. LabelSize - 1 : decap'.octets[i] = Label
         /\ decap.on /\ ~decap'.on =>
              (decap'.status = "DECAP_ERR_SOME_DROP" <=> decap.todo # << >>)]_fpdu_all
  <2> SUFFICES ASSUME FpBase, FpNext
               PROVE  /\ decap.on /\ decap'.on /\ decap' # decap =>
                           decap.todo # << >> /\ decap.octets[decap.offset] = Head(decap.todo)
                      /\ ~decap.on /\ decap'.on =>
                           \A i \in 0 .. LabelSize - 1 : decap'.octets[i] = Label
                      /\ decap.on /\ ~decap'.on =>
                           (decap'.status = "DECAP_ERR_SOME_DROP" <=> decap.todo # << >>)
    OBVIOUS
  <2>1. CASE FpDecapsulate
    BY <2>1, DecapsulateBase DEF Labelled
  <2>2. CASE FpDecapPpdu
    BY <2>2, DecapPpduBase
  <2>3. CASE FpDecapReturn
    BY <2>3, DecapReturnBase
  <2>4. CASE decap' = decap
    BY <2>4
  <2> QED
    BY <2>1, <2>2, <2>3, <2>4
       DEF FpNext, FpEncap, FpAsk, FpPackInit, FpPack, FpFlush, FpLose
<1> QED
  BY <1>1, BaseInit, BaseNext, PTL DEF FpSpec, ParsedAsPacked

\* While no FPDU is lost, no SDU is driven out of its context and the caller of
\* rle_decapsulate has SDU buffers enough, with CRC trailers or sequence numbers, every
\* call of it says RLE_DECAP_OK, and all that rle_encapsulate took in has been handed
\* over, in that order, once nothing is under way.  No SDU is one that the receiver takes
\* for a VLAN frame.
THEOREM FpdusLoseNothing == NoneAsVlan => (FpSpec => []NothingLostInFpdus)
<1> SUFFICES ASSUME NoneAsVlan PROVE FpSpec => []NothingLostInFpdus
  OBVIOUS
<1>1. FpInit => LosslessInv
  BY LosslessInit
<1>2. FpBase /\ LosslessInv /\ [FpNext]_fpdu_all => LosslessInv'
  BY LosslessNext
<1>3. FpBase /\ LosslessInv => NothingLostInFpdus
  BY LosslessHolds
<1> QED
  BY <1>1, <1>2, <1>3, BaseInit, BaseNext, PTL DEF FpSpec

\* With CRC trailers a sender that packs, a link that loses FPDUs and a receiver that
\* calls rle_decapsulate with too few SDU buffers implement RleService: SDUs are handed
\* over unaltered, in the order in which rle_encapsulate took them in and each at most
\* once, for FPDUs and labels of every size, any number of FPDUs under way or lost and
\* SDUs none of which the receiver takes for a VLAN frame.
THEOREM FpdusRefineService == CrcProtected => (FpSpec => FpduImplementsService)
<1> SUFFICES ASSUME CrcProtected PROVE FpSpec => FpduImplementsService
  OBVIOUS
<1>1. FpInit => Service!ServiceInit
  BY DEF FpInit, Service!ServiceInit
<1>2. FpInit => OrderInv
  BY OrderInit
<1>3. FpBase /\ OrderInv /\ [FpNext]_fpdu_all => OrderInv'
  BY OrderNext
<1>4. FpBase /\ OrderInv /\ [FpNext]_fpdu_all => [Service!ServiceNext]_(Service!service_vars)
  BY ServiceStep
<1> QED
  BY <1>1, <1>2, <1>3, <1>4, BaseInit, BaseNext, PTL
     DEF FpSpec, FpduImplementsService, Service!ServiceSpec

=============================================================================
