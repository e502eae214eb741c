----------------------------- MODULE RleService -----------------------------
(***************************************************************************)
(* What RLE promises its user on each fragment id, whatever is lost in     *)
(* between: SDUs come out unaltered, in the order they were taken in, each *)
(* at most once.  Some may not come out.                                   *)
(***************************************************************************)
EXTENDS Sequences, Functions

CONSTANTS
  Flows,   \* fragment ids
  Items    \* SDUs, each with an identity of its own

VARIABLES
  sent,    \* per flow, the SDUs taken in
  got      \* per flow, the SDUs handed over

service_vars == <<sent, got>>

ServiceInit ==
  /\ sent = [f \in Flows |-> << >>]
  /\ got = [f \in Flows |-> << >>]

TakeIn(f, item) ==
  /\ sent' = [sent EXCEPT ![f] = Append(@, item)]
  /\ UNCHANGED got

\* Any SDU taken in after the last one handed over.
GiveOut(f) ==
  \E i \in DOMAIN sent[f] :
    /\ \A j \in i .. Len(sent[f]) : sent[f][j] \notin Range(got[f])
    /\ got' = [got EXCEPT ![f] = Append(@, sent[f][i])]
    /\ UNCHANGED sent

ServiceNext == \E f \in Flows : GiveOut(f) \/ \E item \in Items : TakeIn(f, item)

ServiceSpec == ServiceInit /\ [][ServiceNext]_service_vars
=============================================================================
