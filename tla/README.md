# A TLA+ verification of librle

librle implements Return Link Encapsulation (RLE), the layer that carries network
packets over the return link of a DVB-RCS2 satellite system. A transmitter wraps
SDUs (packets) into ALPDUs, cuts ALPDUs into PPDUs that fit the bursts the terminal
is granted, and packs PPDUs into FPDUs; a receiver undoes all of that. This
directory holds TLA+ modules translated from the C code, TLC configurations that
check them on small instances, and TLAPS proofs for all values of the parameters.

## 1. Inventory

| component | code | state | operations |
|---|---|---|---|
| encapsulation | `encap.c` | the context's buffer, free flag, counters | `rle_encapsulate`, `rle_encap_contextless` |
| fragmentation | `fragmentation.c`, `header.c` (`push_ppdu_hdr`) | position in the ALPDU, sequence number, free flag | `rle_fragment`, `rle_frag_contextless` |
| fragmentation buffer | `fragmentation_buffer.[ch]` | three pairs of pointers (SDU, ALPDU, PPDU) and a position in one array | `frag_buf_*_push`, `_put`, `_init` |
| protocol types | `rle_conf.c`, `rle_header_proto_type_field.c`, `header.c` | none | omission, compression, extraction |
| trailer | `trailer.c` | sequence numbers on both sides | `push_alpdu_trailer`, `check_alpdu_trailer` |
| reassembly | `reassembly.c`, `rle_receiver.c` | free flags, buffers, `use_crc`, `is_ctx_seqnum_init`, counters | `rle_receiver_deencap_data` and one function per type of PPDU |
| reassembly buffer | `reassembly_buffer.[ch]` | expected and received length | `rasm_buf_*` |
| contexts and statistics | `rle_ctx.[ch]` | eight contexts per transmitter and receiver, seven counters each | increments, reset, getters |
| lifecycle, configuration | `rle_transmitter.c`, `rle_receiver.c`, `rle_conf.c` | `struct rle_config` | `_new`, `_destroy`, `rle_config_check`, `rle_get_header_size` |
| framing | `pack.c`, `deencap.c` | an FPDU, the position in it, the octets that are left | `rle_pack_init`, `rle_pack`, `rle_pad`, `rle_decapsulate` |
| contextless API | `fragmentation_buffer.c`, `encap.c`, `fragmentation.c` | a fragmentation buffer of the caller | `rle_frag_buf_new`, `_init`, `_cpy_sdu`, `_del`, `rle_encap_contextless`, `rle_frag_contextless` |
| CRC, logging, kernel module | `crc.c`, `rle_log.c`, `linux/` | - | - |

The library is sequential and called back by nobody: its caller encapsulates SDUs
into one of eight contexts (fragment ids), asks for PPDUs of one context at a time
with the burst size that it has at hand, and hands received FPDUs to the receiver.
What makes it hard is the environment:

* *bursts*: any burst size can be asked for at any point of an ALPDU, and header,
  trailer and payload boundaries must survive every combination;
* *losses*: the link is unreliable and gives no feedback, so that the PPDUs of one
  SDU may be missing at any place, and what remains of two SDUs meets in one buffer;
* *restarts*: a terminal logs off and on again while its peer keeps its state;
* *interleaving*: the PPDUs of eight contexts share the link;
* *aliasing and reuse*: PPDUs are pointers into the fragmentation buffer, senders use
  one FPDU buffer and one contextless buffer again and again;
* *lack of SDU buffers*: `rle_decapsulate` stops in the middle of an FPDU;
* *limits*: 11-bit and 12-bit length fields, an 8-bit sequence number, 4088-byte SDUs.

What makes the components correct: PPDUs that fit, tell the truth about their length
and keep the header and the trailer whole (transmitter); no copy beyond a buffer in
whatever order, with whatever losses and repetitions the PPDUs of a peer that follows the
standard arrive, and only complete, unaltered SDUs handed over (receiver); the same
SDU out as in for every protocol type and configuration (protocol types); service
that resumes soon after losses and restarts, in order and without duplicates (link);
the PPDUs found in an FPDU are those packed (framing).
`PROJECT.json` lists the hazards at their lines.

## 2. Modules

| module | models | role |
|---|---|---|
| `RleDefs` | sizes, length fields, counters | shared constants and `LimitsAssumption` |
| `RleProtoType` | protocol type functions of both ends | pure operators |
| `RlePtypeCodec` | one SDU through both | round trip of the operators |
| `RleFragBuf` | fragmentation buffers, and the PPDUs cut out of them | operators shared by the two modules below |
| `RleTransmitter` | contexts, encapsulation, fragmentation | component |
| `RleContextless` | a buffer of the caller: copy, encapsulate, one COMP PPDU | component |
| `RleReceiver` | contexts, reassembly, trailer check | component |
| `RleService` | FIFO service that may lose SDUs | abstract specification |
| `RleLink` | transmitter, link that loses PPDUs, receiver, restarts | composition, refinement of `RleService` |
| `RleFpdu` | transmitter, packing, link that loses FPDUs, `rle_decapsulate`, receiver | composition, refinement of `RleService` |
| `RleFragBufProofs` | | lemmas on protocol types, buffers and the PPDUs cut out of them |
| `RlePtypeCodecProofs`, `RleTransmitterProofs`, `RleContextlessProofs`, `RleReceiverProofs` | | theorems on the components |
| `RleChannelProofs` | | lemmas on a transmitter and a receiver with a channel between them, shared by the two modules below |
| `RleLinkProofs`, `RleFpduProofs` | | theorems on the compositions |
| `MCRlePtypeCodec`, `MCRleTransmitter`, `MCRleContextless`, `MCRleReceiver`, `MCRleLink`, `MCRleFpdu` | | instances for TLC |

Definitions keep the names of the C functions where there is one; actions are one per
call and outcome, because the outcomes of one call change different things.

**Transmitter.** `tx_buf[f]` has the pointers of `struct rle_frag_buf` as offsets in
its array. `EncapOk`, `EncapBusy`, `EncapTooBig` are the ends of `rle_encapsulate`;
`FragFree`, `FragTooSmall`, `FragComp`, `FragStart`, `FragCont`, `FragEnd` those of
`rle_fragment`. `encap_asserts` and `ppdu_asserts` collect the `assert()`s passed on
the way; one that fails sets `tx_abort`. Two variables are there for the properties
only: `tx_sum` adds up what the length fields of an ALPDU's PPDUs say, `tx_count`
gives each accepted SDU an identity. (`frag_buf_is_fragmented` compares the ALPDU with
the start of the PPDU, which `frag_buf_ppdu_init` has just set to the current
position; the model uses the current position.)

**Receiver.** A PPDU is a record with its header fields and the byte range `lo .. hi-1`
of the ALPDU it was cut from. `rx_rasm[f]` keeps expected and received lengths, what
was extracted from the START PPDU, and `whole`: whether the bytes so far are, in
order, those of the ALPDU that the START PPDU belongs to. There is one action for
each way through the four `reassembly_*_ppdu` functions that changes state
differently; the second `rle_receiver_free_context`, in `rle_decapsulate`, changes
nothing more. `rasm_asserts` collects the `assert()`s but for three that cannot fail: at
`reassembly.c:230` and `588` the type is the one that the decompression table has for
0x31, and at `558` the two lengths are set together by the START PPDU.

**Link.** The variables of `RleLink` other than `chan` are there for the properties only:
what went in and came out (`link_sent`, `link_got`), how many ALPDUs in a row have been
received in full (`link_run`, `link_open`), which numbers the transmitter has given
(`link_nums`) and up to which SDU the receiver has followed them (`link_sync`).

**Contextless buffers.** `cl_buf` is a buffer like those of the contexts; `cl_holds` is
what the caller has put there, which decides on the calls that `rle.h` allows: nothing
but initialisation on a raw buffer, encapsulation of a buffer with an SDU, PPDUs of a
buffer "containing an ALPDU". The library does not know these stages: it sees pointers
only, and `ClBufOK` says that the two agree. A second request for a PPDU after the
first is a call that `rle.h` does not exclude; it ends in `assert(rle_ctx != NULL)`
(`ClFragAgain`), and `ClAbortsOnlyAskedAgain` says that no other call does.

**FPDUs.** An octet of an FPDU is zero, part of the label, the first octet of a PPDU
(which stands for that PPDU) or a further one. `rle_pack_init`, `rle_pack` and `rle_pad`
are functions on the record of position, remaining size and octets. The sender has
one buffer: what an FPDU leaves there is what `rle_pack` and `rle_pad` of the next one
have to cover. Between `rle_fragment` and `rle_pack` it holds the PPDU (`held`), a
pointer into the buffer of a context that may be free again; it follows the warning in
`rle.h` not to ask for another PPDU before. `rle_encapsulate` may be called at any time.
When it is refused nothing happens to the PPDU held; when the context takes the SDU its
buffer is cleared, and the sender gives the PPDU up. `FpDecapsulate`, `FpDecapPpdu` and
`FpDecapReturn` are the beginning, one round of the loop and the end of
`rle_decapsulate`; `decap_round` has the checks of a round in their order, one inside the
`ELSE` of the other, since more than one may hold (a single octet left at the end is not
a PPDU either, and is not an error). `packed` and
`todo` are for the properties only: they carry the list of the PPDUs packed along with
the octets.

**Abstractions.** SDUs are records of the fields the code branches on (protocol type,
size, the nibbles and the fields of Ethernet/VLAN headers). Distinct SDUs have distinct
contents and the CRC is perfect: it matches only the SDU and protocol type it was
computed for. The bytes of a mixture of SDUs are arbitrary, so that the reconstruction
of a VLAN field in a mixture may succeed or fail (`rebuilt_choices`). PPDUs that reach
the receiver are those of a peer that follows the standard (`WellFormed`): header
lengths agree with their payload and the total length has room for the ALPDU header that
the receiver finds, the trailer and a byte of SDU (`reassembly.c:352` subtracts without a
check; `LinkNeverAborts` shows that the PPDUs of a transmitter always have it). Both ends have the same configuration, and a restart keeps it.
The receiver's reassembly buffer of 2^13 - 1 bytes (`(2 << 12) - 1`) is `2 * TotalMod - 1`.
Checks of arguments for NULL return before anything changes and have no action. The
initial contents of the sender's FPDU buffer are zero.

## 3. Runs

Limits are scaled down (SDUs of 20 bytes, PPDU payloads of 15, fields of 4 and 5 bits)
so that each limit is reached in a few steps; header and trailer sizes are the real
ones, so that all alignments of headers, trailers and bursts occur. Counters have
modulus 1 (they are switched off) except in the runs about counters.

| run | instance | shows |
|---|---|---|
| `ptype_codec` | 11 protocol types, sizes 1, 18, 19, 20, all nibbles that matter, 19 implicit types x 8 configurations | `PtypeRoundTrip`: the receiver rebuilds the SDU exactly, but for the frames of the finding below |
| `transmitter` | bursts from 2 to 26, SDUs of 0, 1, 9, 14 and 21 bytes, ALPDU headers of 0 to 3 bytes, both trailers, 2 SDUs, a restart, resets; sequence numbers modulo 2 so that they wrap | `TxTypeOK`, `TxBufOK` (headers and trailers never split), `TxAssertsHold`, `TotalHonest`, `PpduFits`, `QueueSizeTellsBusy`, `MinBurstSuffices`, and `TxDrains` under fairness |
| `receiver` | PPDUs of four ALPDUs cut in several ways, START PPDUs with a wrong total, END PPDUs with part of a trailer, any order, any number of times | `RxTypeOK`, `RxBufOK`, `RxAssertsHold`, `HandedOverComplete`, `CrcProtects` |
| `link` | CRC, 3 SDUs, up to 3 losses, a restart on each side | `ImplementsService` (refinement of `RleService`) and `Recovers` |
| `link_seq` | sequence numbers modulo 3, so that they wrap around, 5 SDUs, up to 3 losses, a restart on each side | `SeqNoProtects` and `Recovers` |
| `link_lossless` | two fragment ids, both protections, a transmitter restart, no loss | `NothingLostUndisturbed`, and `EventuallyHandedOver` under fairness |
| `contextless` | 8 configurations, signalling, IPv4, VLAN and other SDUs of 0, 5, 12, 19, 24 (too long for a PPDU) and 25 bytes (too long for a buffer), requests from 1 to 40 bytes, 3 SDUs | `ClBufOK` (refused and failed calls leave the buffer as it should be), `ClDelivers` (the receiver rebuilds the SDU copied last), `ClAbortsOnlyAskedAgain` |
| `fpdu` | CRC, 2 SDUs of 1 to 3 PPDUs and refused ones, FPDUs of 20 octets with a label of 3, one SDU buffer, one lost FPDU | `ParsedAsPacked`, `NothingLostInFpdus`, `FpduImplementsService` (refinement of `RleService`), and `EventuallyDecapsulated` under fairness |
| `ptype_omission`, `transmitter_stats`, `link_dropped`, `link_lost` | | findings, section 5 |

The link holds one PPDU at a time (`ChanMax = 1`) and keeps their order: since the
transmitter never reads from the link, a longer one only delays. A lost FPDU is the loss
of its PPDUs one after the other. Losses, restarts and SDUs are bounded by `MaxLoss`,
`MaxRestarts`, `MaxRxRestarts`, `MaxSdus`: three losses are enough to lose the END of one
SDU, a CONT and the START of the next, in any combination, and `Recovers` needs two (CRC)
or three (sequence number) undisturbed SDUs after that.

The sizes of `fpdu` are chosen for the cases that matter: a COMP PPDU fills an empty FPDU
to its last octet, an END and a START PPDU fill one together, and the END PPDU then takes
the only SDU buffer, so that the START PPDU is dropped and the CONT and END PPDUs of the
next FPDU meet a receiver that has not seen it. One fragment id is enough there: contexts
share nothing but the order of PPDUs, which `link_lossless` covers for two. FPDUs are
lost as a whole, and one at a time is on its way.

**Fairness.** The library does nothing unasked. `TxFairness` says that the caller keeps
asking for PPDUs of each context and offers at least `MinBurst` (4 + 3 + 1 = 8 bytes)
again and again, with any number of smaller offers and refused SDUs in between; this is
what a terminal with a share of the return link does. `LinkFairSpec` adds that what is on
the link reaches the receiver; `FpFairSpec` that the sender packs the PPDU it holds and
sends what it packed, and that `rle_decapsulate` is called for what arrives and goes
through its loop.

**What the protections give.** With CRC trailers the link implements `RleService`: SDUs
come out unaltered, in order, at most once per fragment id. With sequence numbers
a mixture of two SDUs of the same size can be handed over in two cases, and
`SeqNoProtects` says that there are no others. Either the context has no number yet:
`check_alpdu_trailer` accepts the first one whatever it is. Or the transmitter has given the
number zero again, because its numbers wrapped around or because it logged on again, since
the receiver got in step with it: `check_alpdu_trailer` accepts zero whenever it comes,
and the number that it expects may come round again. (SDU 1 with number 0 arrives, so that 1
is expected; the START PPDU of SDU 2, number 1, arrives and the transmitter logs on again;
SDU 3, number 0, and the START PPDU of SDU 4, number 1, are lost; the END PPDU of SDU 4
completes a mixture of 2 and 4.) The run reaches both by a restart and by a wrap around.

## 4. Proofs

For every value of the constants that satisfies the assumptions of the modules: the limits
fit their fields (`LimitsAssumption`, true of 4088, 2047, 2^11 and 2^12), fragment ids, SDUs,
configurations, bursts and bounds have their types (`TxAssumption`, `RxAssumption`,
`ClAssumption`, `LinkAssumption`, `FpduAssumption`), the PPDUs given to a receiver alone are
`WellFormed`, and bursts fit FPDUs.

| theorem | statement |
|---|---|
| `TxTypeCorrect`, `TxBufCorrect`, `TxNeverAborts`, `TxQueueSize`, `TxMinBurst`, `TxPpduFits`, `TxTotalHonest` | `TxSpec => []P` for `TxTypeOK`, `TxBufOK`, `TxAssertsHold`, `QueueSizeTellsBusy`, `MinBurstSuffices`, `PpduFits`, `TotalHonest` |
| `RxTypeCorrect`, `RxBufCorrect`, `RxNeverAborts`, `RxHandsOverComplete`, `RxCrcProtects` | `RxSpec => []P` for `RxTypeOK`, `RxBufOK`, `RxAssertsHold`, `HandedOverComplete`, `CrcProtects` |
| `CodecRoundTrip` | `CodecSpec => []PtypeRoundTrip` |
| `ClBufCorrect`, `ClDeliversSdu`, `ClAborts` | `ClSpec => []P` for `ClBufOK`, `ClDelivers`, `ClAbortsOnlyAskedAgain` |
| `LinkNeverAborts` | `LinkSpec => [](TxAssertsHold /\ RxAssertsHold)` |
| `LinkRefinesService` | `CrcProtected => (LinkSpec => ImplementsService)` |
| `LinkLosesNothing` | `NoneAsVlan => (LinkSpec => []NothingLostUndisturbed)` |
| `LinkRecovers` | `NoneAsVlan => (LinkSpec => Recovers)`, an action property |
| `LinkSeqNoProtects` | `LinkSpec => SeqNoProtects`, an action property |
| `DecapsulatesWhatWasPacked` | `FpSpec => ParsedAsPacked`, an action property |
| `FpdusLoseNothing` | `NoneAsVlan => (FpSpec => []NothingLostInFpdus)` |
| `FpdusRefineService` | `CrcProtected => (FpSpec => FpduImplementsService)` |

Two hypotheses on constants are there because the statement is false without them.
`NoneAsVlan`: no SDU of `TxSdus` is one of the frames of finding `ptype_omission`.
`CrcProtected`: in addition every configuration has CRC trailers (with sequence numbers a
mixture can be handed over, section 3). The instances of `link_lossless`, `link` and `fpdu`
satisfy them, and so does that of `link_seq` for `NoneAsVlan`.

**Transmitter.** The inductive invariant is
`TxInv == TxTypeOK /\ TxBufOK /\ TxAssertsHold`. None of the three is inductive alone: that
no assertion fails in the next PPDU needs the layout of the buffer (`Adjacent` and either
`Unsent` or `PartlySent`), and that the layout survives a step needs pointers that are in
range. The heart are lemmas on the four kinds of PPDU (`CompFragment`, `StartFragment`,
`ContFragment`, `EndFragment`): how many bytes each takes, that START takes the whole ALPDU
header and a byte of SDU but not the last one, that CONT stops before the trailer (for
sequence numbers because an END PPDU was not possible, for CRCs because of
`cont_alpdu_frag_len`), and that END takes exactly what is left. `TotalHonest` needs one
more strengthening, `SumOK`: before the START PPDU nothing is announced and nothing
carried, after it both sums are exact. `TxPpduFits` follows from the same lemmas and the
fact that a PPDU payload is below `LenMod`.

**Protocol types.** `FragmentRoundTrip` says, case by case along `push_alpdu_hdr` and
`alpdu_extract_sdu_frag`, that the header put in front of an SDU is taken off again with
the protocol type it stood for; it also holds for the first part of an ALPDU in a START
PPDU, which is what the link needs.

**Receiver.** `RxInv == RxTypeOK /\ RxBufs /\ RxAssertsHold /\ HandedOverComplete /\
CrcProtects`. `RxBufs` is `RxBufOK` strengthened with what the START PPDU of a context in
use fixed: the announced size, the header found, and `whole`, which ties the bytes received
so far to the ALPDU of that START PPDU. There is one lemma per way through the
`reassembly_*_ppdu` functions.

**Contextless buffers.** `ClInv` says (`StageOK`) where the pointers of a buffer are in each
stage, `ClBufOK` among it, so that the lemmas on COMP PPDUs of the transmitter apply, and
`RoundTrip` to what they carry.

**Both ends.** `Ends(sent)` in `RleChannelProofs` has `TxInv` and `RxInv` for the same
configuration, SDU numbers that rise along `sent`, and: whatever is in a context of either
end is of an SDU that was accepted. A PPDU cut by `rle_fragment` is `PpduOK`, hence
`WellFormed` (`FragmentSends`, `PpduWellFormed`): the receiver's theorems are used through
their lemmas, and their assumption on PPDUs is discharged.

* *Refinement.* Needed on top of `Ends`: numbers on the way rise (`OrderInv`). In `RleLink`
  every PPDU on the link is of a later SDU than those handed over, and once the last PPDU of
  an SDU is on the link only later SDUs follow. In `RleFpdu` the same PPDUs are in four
  places (the FPDU being parsed, FPDUs on their way, the FPDU being filled, the PPDU held),
  with gaps where FPDUs were lost or a call returned early: there the invariant is a rising
  chain of numbers between these places (`Rises`, `FlowRises`, `Below`). `ServiceStep` then
  maps `rle_encapsulate` to `TakeIn`, a PPDU that completes an SDU to `GiveOut`, anything
  else to a stutter.
* *Losing nothing.* `LosslessInv`: for each fragment id the receiver stands at a cursor (SDUs
  complete, bytes of the next one, sequence number), the transmitter at another, and the
  PPDUs between them lead from the one to the other without a gap (`RxAt`, `TxAt`, `Stream`;
  `Flow` and `Between` for FPDUs). `ReceiveMoves` shows that a PPDU which fits the cursor is
  accepted and moves it, `SendFollows` the same for the transmitter.
* *Recovering.* `RunInv` keeps the cursors without asking that SDUs be complete: the
  fragments on the link still form a line (`Line`), in which a START PPDU may follow an
  ALPDU cut short, but a CONT or END PPDU only its own ALPDU. How much the receiver knows
  of its cursor depends on `link_run` (`RxLine`): nothing at zero; after one ALPDU received
  in full its context is free between ALPDUs and has all that has gone by of the next one
  (an END PPDU frees the context on every path); after two the sequence number expected is
  the next one, for the second was complete and so synchronised it. With a loss `link_run`
  is zero again. That `Recovers` needs three ALPDUs with sequence numbers and two with a
  CRC is what these levels say.
* *With sequence numbers.* `PosInv`: in each context what the receiver has seen, the PPDUs
  on the link and the transmitter come one after the other, by ALPDU and by byte. The
  receiver's buffer is of an earlier ALPDU than a PPDU that arrives, or of the same one with
  no more bytes than come before that PPDU, and then, if they are as many, with the first
  ones of that ALPDU. `NumInv`: numbers rise from one zero to the next (`Rising`), and the
  number expected follows that of the ALPDU `link_sync`. So take an END PPDU whose number is
  the one expected, with no zero given since `link_sync`. The ALPDU that opened the context
  comes after `link_sync` and not after that of the END PPDU, and there is no number left
  for it between the two (`NumbersTell`): they are the same ALPDU. As the bytes are as many
  as its START PPDU announced, none is missing (`EndTrailer`), and the SDU is whole. No
  bound on `SeqMod` or on restarts is needed: the exception is in the property.

**FPDUs.** `FpBase` says what the octets are. `FillOK`: the FPDU being filled is a label and
then the PPDUs packed, one where the last one ends (`Lies`). `Readable`: from the position of
`rle_decapsulate` on there are the PPDUs not met yet and then zeros, for which `rle_pad` must
have written over the octets of earlier FPDUs. `RoundOK` shows that a loop which starts there
ends neither early nor late. `HeldOK`: the PPDU held of a context is one of an SDU accepted
on that context.

**Only model-checked.** Liveness (`TxDrains`, `EventuallyHandedOver`,
`EventuallyDecapsulated`), which TLAPS cannot prove under fairness. The four findings are
runs in which TLC shows a counterexample.

## 5. Findings

* `ptype_omission` (`rle_conf.c`, `ptype_is_omissible`): with implicit type 0x31 the
  decision looks at the bytes of the frame and not at its protocol type, so that an SDU
  of another type whose bytes look like Ethernet/VLAN/IP loses its type and comes out
  as a VLAN frame two bytes longer, or not at all. `OmittedAsVlan` names these frames.
* `transmitter_stats` (`encap.c`): an SDU of refused size frees the context, even when
  the context holds another SDU, which is lost without being counted.
* `link_dropped` (`reassembly.c`): one SDU whose START PPDU is lost is counted as
  dropped once per CONT PPDU and twice for its END PPDU.
* `link_lost` (`trailer.c`): the number of missing sequence numbers is a signed
  remainder; across a wrap around it is negative and becomes a huge unsigned count.

Observations that no run is spent on, seen while modelling:

* `current_counter` is not reset when a context is freed and grows with PPDUs that find
  the context free, so that the octets dropped can exceed the octets received;
* `rle_receiver_stats_get_queue_size` does not ask whether the context is in use and
  returns the size of the last SDU until the next START PPDU;
* the initialiser of `rle_header_ptype_decomp` has 255 values for 256 entries: from index
  0x47 on, values come one index before the one their comments announce, and entry 0xff
  is zero. `rle_header_ptype_decompression` has the table as it is;
* `rle.h` warns that a PPDU not copied or sent "before asking for another one" might be
  corrupted; when it was the last one of its ALPDU, the next `rle_encapsulate` on the
  context that has become free overwrites it as well, which the warning does not say;
* `rle_get_header_size` ignores the configuration: its size for FPDUs with traffic and
  control counts no protocol type, and is too small when protocol types are not omitted;
* in a kernel build `constants.h` defines `assert` as `BUG_ON`, which stops when its
  condition is true, the opposite of `assert`. The model is of the user-space build.

## 6. Not modelled

CRC computation (no bytes to run it on), `rle_get_header_size` (a constant per type of
traffic that nothing in the library uses), logging, the buffer dump functions, memory
allocation and its failures, the kernel module, which exports the library's functions, and
its test drivers, byte order and bit-field layout, peers that do not follow the standard
(PPDUs whose length fields contradict each other), the warning about padding that is not
zero, what becomes of a PPDU that the sender packs after its buffer has taken another SDU.
Restarts are modelled in `RleLink` and not once more in `RleFpdu`.

## 7. Plan

The model is complete but for section 6, and all invariants, action properties and
refinements that the passing runs check are proved; liveness stays with TLC. Section 6 is
what could still be modelled, peers that do not follow the standard first.
