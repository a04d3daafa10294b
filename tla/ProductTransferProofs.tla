------------------------ MODULE ProductTransferProofs ------------------------
(***************************************************************************)
(* Theorems about ProductTransfer, for every set of products, their sizes  *)
(* and any number of transfers and restarts.                               *)
(***************************************************************************)
EXTENDS ProductTransfer, SequenceTheorems, FiniteSetTheorems, TLAPS

(***************************************************************************)
(* The inductive invariant.                                                *)
(***************************************************************************)
Transfers == 1 .. Len(rows)
BundleOf(e) == rows[e.transfer].product

\* The frame being sent, and every frame on its way, is of a transfer in the
\* journal; chunks are numbered from 1.
SenderInv ==
    /\ active # NoTransfer => active.id \in Transfers /\ rows[active.id].state = "SENDING"
    /\ \A i \in 1 .. Len(inbox) :
          inbox[i].transfer \in Transfers /\ (inbox[i].kind = "DATA" => inbox[i].seq # 0)

\* An epoch holds chunks of its bundle's size, its product has a row, and a
\* verified one has been published.
SoundEpoch(e) ==
    /\ e.transfer \in Transfers
    /\ DOMAIN e.got \subseteq 1 .. Size[BundleOf(e)]
    /\ \A c \in DOMAIN e.got : e.got[c] \in Transfers
    /\ products[BundleOf(e)] # "NONE"
    /\ e.state = "VERIFIED" => BundleOf(e) \in DOMAIN final

\* The bytes received are the bundle START promised.
WholeBundle(e) ==
    /\ DOMAIN e.got = 1 .. Size[BundleOf(e)]
    /\ \A c \in DOMAIN e.got : rows[e.got[c]].product = BundleOf(e)

\* One epoch is receiving at most, with its part file.
ReceiverInv ==
    /\ \A j, k \in Receiving : j = k
    /\ Receiving \subseteq parts

OpeningPhases == {"reserved", "created"}
PublishingPhases == {"verified", "staged", "renamed", "published", "recorded"}
ClosingPhases == {"persisted", "released"}

\* What the handler has done so far holds of its epoch, its product and the
\* reservations.
WorkInv ==
    /\ work.phase \notin OpeningPhases \cup {"persisted"} => reserved \subseteq Receiving
    /\ work.phase \in OpeningPhases =>
          /\ work.key \notin DOMAIN epochs /\ Receiving = {} /\ reserved \subseteq {work.key}
          /\ work.transfer \in Transfers
    /\ work.phase = "created" => work.key \in parts
    /\ work.phase \in PublishingPhases => work.key \in Receiving /\ WholeBundle(epochs[work.key])
    /\ work.phase \in {"staged", "renamed", "published"} =>
          products[BundleOf(epochs[work.key])] \in {"VERIFIED", "PUBLISHED"}
    /\ work.phase = "published" => products[BundleOf(epochs[work.key])] = "PUBLISHED"
    /\ work.phase = "staged" => BundleOf(epochs[work.key]) \notin DOMAIN final
    /\ work.phase \in {"renamed", "published", "recorded"} =>
          BundleOf(epochs[work.key]) \in DOMAIN final
    /\ work.phase \in ClosingPhases => work.key \in DOMAIN epochs \ Receiving
    /\ work.phase = "persisted" => reserved \subseteq Receiving \cup {work.key}

\* What the tables claim of the products is on disk, each directory whole.
StoreInv ==
    /\ \A p \in Products : products[p] = "PUBLISHED" => p \in DOMAIN final
    /\ \A p \in artifacts : products[p] = "PUBLISHED"
    /\ PublishedIsWhole

GroundInv ==
    /\ \A k \in DOMAIN epochs : SoundEpoch(epochs[k])
    /\ ReceiverInv /\ WorkInv /\ StoreInv

TransferInv == TypeOK /\ SenderInv /\ GroundInv

-----------------------------------------------------------------------------
(***************************************************************************)
(* The journal, and what the ground keeps when it grows.                   *)
(***************************************************************************)
\* The journal's rows are transfers of products.
LEMMA RowTypes ==
    ASSUME TypeOK
    PROVE  /\ Len(rows) \in Nat /\ DOMAIN rows = Transfers
           /\ \A t \in Transfers :
                 /\ rows[t].product \in Products
                 /\ rows[t].state \in OpenTransferStates \cup {"SEND_COMPLETED", "SEND_FAILED"}
                 /\ rows[t] = [product |-> rows[t].product, state |-> rows[t].state]
PROOF
<1> DEFINE S == [product : Products,
                 state : OpenTransferStates \cup {"SEND_COMPLETED", "SEND_FAILED"}]
<1>1. rows \in Seq(S)
  BY DEF TypeOK
<1>2. Len(rows) \in Nat /\ DOMAIN rows = Transfers /\ \A t \in Transfers : rows[t] \in S
  BY <1>1, LenProperties, ElementOfSeq DEF Transfers
<1> QED BY <1>2

\* What the ground knows of products survives whatever the satellite does to
\* its journal, as long as no transfer changes its product.
LEMMA RowsGrow ==
    ASSUME TransferInv, UNCHANGED <<epochs, reserved, parts, storeVars, work>>,
           \A t \in Transfers : t \in Transfers' /\ rows'[t].product = rows[t].product
    PROVE  GroundInv'
PROOF
<1>1. /\ epochs' = epochs /\ reserved' = reserved /\ parts' = parts /\ products' = products
      /\ final' = final /\ artifacts' = artifacts /\ work' = work
  BY DEF storeVars
<1>2. \A k \in DOMAIN epochs : SoundEpoch(epochs[k])
  BY DEF TransferInv, GroundInv
<1>3. \A k \in DOMAIN epochs :
         /\ rows'[epochs[k].transfer].product = rows[epochs[k].transfer].product
         /\ \A c \in DOMAIN epochs[k].got :
               rows'[epochs[k].got[c]].product = rows[epochs[k].got[c]].product
  BY <1>2 DEF SoundEpoch
<1>4. ASSUME NEW k \in DOMAIN epochs PROVE SoundEpoch(epochs[k])'
  BY <1>1, <1>2, <1>3 DEF SoundEpoch, BundleOf
<1>6. Receiving' = Receiving
  BY <1>1 DEF Receiving
<1>7. ReceiverInv'
  BY <1>1, <1>6 DEF TransferInv, GroundInv, ReceiverInv
<1>8. StoreInv'
  BY <1>1 DEF TransferInv, GroundInv, StoreInv, PublishedIsWhole
<1>9. WorkInv'
  <2>1. WorkInv
    BY DEF TransferInv, GroundInv
  <2>2. work.phase \in PublishingPhases \cup ClosingPhases => work.key \in DOMAIN epochs
    BY <2>1 DEF WorkInv, Receiving
  <2>3. work.phase \in OpeningPhases => work.transfer \in Transfers'
    BY <2>1 DEF WorkInv
  <2> QED BY <1>1, <1>3, <1>6, <2>1, <2>2, <2>3
          DEF WorkInv, PublishingPhases, WholeBundle, BundleOf
<1> QED BY <1>1, <1>4, <1>7, <1>8, <1>9 DEF GroundInv

-----------------------------------------------------------------------------
(***************************************************************************)
(* Steps of the satellite and the link.                                    *)
(***************************************************************************)
\* What the satellite and the link have, by their types.
LEMMA SenderTypes ==
    ASSUME TransferInv
    PROVE  /\ active \in [id : Nat, next : Nat, sent : BOOLEAN, session : Nat]
           /\ session \in Nat /\ gsession \in Nat /\ nextEpoch \in Nat
           /\ attempt \in [epoch : Nat, state : {"CLOSED", "STARTED", "DRAINING"}]
           /\ inbox \in Seq([kind : Kinds, seq : Nat, transfer : Nat, key : Keys])
           /\ Len(inbox) \in Nat
           /\ active # NoTransfer => active.id \in Transfers /\ rows[active.id].state = "SENDING"
           /\ \A i \in 1 .. Len(inbox) :
                 inbox[i].transfer \in Transfers /\ (inbox[i].kind = "DATA" => inbox[i].seq # 0)
BY LenProperties DEF TransferInv, TypeOK, SenderInv

\* A step that moves the satellite or the link and leaves the ground alone.
LEMMA SenderMoves ==
    ASSUME TransferInv, UNCHANGED groundVars,
           rows' \in Seq([product : Products,
                          state : OpenTransferStates \cup {"SEND_COMPLETED", "SEND_FAILED"}]),
           \A t \in Transfers : t \in Transfers' /\ rows'[t].product = rows[t].product,
           active' \in [id : Nat, next : Nat, sent : BOOLEAN, session : Nat],
           active' # NoTransfer => active'.id \in Transfers' /\ rows'[active'.id].state = "SENDING",
           session' \in Nat, nextEpoch' \in Nat,
           attempt' \in [epoch : Nat, state : {"CLOSED", "STARTED", "DRAINING"}],
           inbox' \in Seq([kind : Kinds, seq : Nat, transfer : Nat, key : Keys]),
           \A i \in 1 .. Len(inbox') :
              inbox'[i].transfer \in Transfers' /\ (inbox'[i].kind = "DATA" => inbox'[i].seq # 0)
    PROVE  TransferInv'
PROOF
<1>1. GroundInv'
  BY RowsGrow DEF groundVars, storeVars
<1>2. TypeOK'
  BY DEF TransferInv, TypeOK, groundVars
<1>3. SenderInv'
  BY DEF SenderInv
<1> QED BY <1>1, <1>2, <1>3 DEF TransferInv

\* The same, when the frames on their way are as they were.
LEMMA JournalMoves ==
    ASSUME TransferInv, UNCHANGED <<groundVars, inbox>>,
           rows' \in Seq([product : Products,
                          state : OpenTransferStates \cup {"SEND_COMPLETED", "SEND_FAILED"}]),
           \A t \in Transfers : t \in Transfers' /\ rows'[t].product = rows[t].product,
           active' \in [id : Nat, next : Nat, sent : BOOLEAN, session : Nat],
           active' # NoTransfer => active'.id \in Transfers' /\ rows'[active'.id].state = "SENDING",
           session' \in Nat, nextEpoch' \in Nat,
           attempt' \in [epoch : Nat, state : {"CLOSED", "STARTED", "DRAINING"}]
    PROVE  TransferInv'
BY SenderTypes, SenderMoves

\* Rows that keep their number and their products are a journal.
LEMMA RowsKept ==
    ASSUME TypeOK, DOMAIN rows' = Transfers, rows' = [t \in Transfers |-> rows'[t]],
           \A t \in Transfers :
              rows'[t] \in [product : Products,
                            state : OpenTransferStates \cup {"SEND_COMPLETED", "SEND_FAILED"}]
    PROVE  /\ rows' \in Seq([product : Products,
                             state : OpenTransferStates \cup {"SEND_COMPLETED", "SEND_FAILED"}])
           /\ Transfers' = Transfers
PROOF
<1> DEFINE S == [product : Products,
                 state : OpenTransferStates \cup {"SEND_COMPLETED", "SEND_FAILED"}]
           n == Len(rows)
<1>1. n \in Nat /\ Transfers = 1 .. n
  BY RowTypes DEF Transfers
<1>2. rows' \in [1 .. n -> S]
  BY <1>1
<1> HIDE DEF S, n
<1>3. rows' \in Seq(S) /\ Len(rows') = n
  BY <1>1, <1>2
<1> QED BY <1>1, <1>3 DEF S, Transfers

\* An appended row is the next transfer.
LEMMA RowAdded ==
    ASSUME TypeOK, NEW p \in Products, NEW s \in OpenTransferStates,
           rows' = Append(rows, [product |-> p, state |-> s])
    PROVE  /\ rows' \in Seq([product : Products,
                             state : OpenTransferStates \cup {"SEND_COMPLETED", "SEND_FAILED"}])
           /\ Len(rows) + 1 \in Transfers' /\ rows'[Len(rows) + 1].state = s
           /\ \A t \in Transfers : t \in Transfers' /\ rows'[t] = rows[t]
PROOF
<1> DEFINE S == [product : Products,
                 state : OpenTransferStates \cup {"SEND_COMPLETED", "SEND_FAILED"}]
           r == [product |-> p, state |-> s]
<1>1. rows \in Seq(S) /\ r \in S /\ r.state = s /\ Len(rows) \in Nat
  BY RowTypes DEF TypeOK
<1> HIDE DEF r, S
<1>2. /\ Append(rows, r) \in Seq(S) /\ Len(Append(rows, r)) = Len(rows) + 1
      /\ \A i \in 1 .. Len(rows) : Append(rows, r)[i] = rows[i]
      /\ Append(rows, r)[Len(rows) + 1] = r
  BY <1>1, AppendProperties
<1>3. rows' = Append(rows, r)
  BY DEF r
<1>4. /\ Len(rows') = Len(rows) + 1 /\ rows' \in Seq(S) /\ rows'[Len(rows) + 1] = r
      /\ \A i \in 1 .. Len(rows) : rows'[i] = rows[i]
  BY <1>2, <1>3
<1> QED BY <1>1, <1>4 DEF S, Transfers

\* A journal that only gains rows suits every condition on the old ones.
LEMMA AdmitStep ==
    ASSUME TransferInv, NEW p \in Products, AdmitDownlink(p) \/ AdmitDownlinkRaises(p)
    PROVE  TransferInv'
PROOF
<1>1. TypeOK
  BY DEF TransferInv
<1>2. CASE AdmitDownlink(p)
  <2>1. /\ rows' = Append(rows, [product |-> p, state |-> "SENDING"])
        /\ active' = [id |-> Len(rows) + 1, next |-> 0, sent |-> FALSE, session |-> session]
        /\ UNCHANGED <<linkVars, groundVars>>
    BY <1>2 DEF AdmitDownlink
  <2>2. /\ rows' \in Seq([product : Products,
                          state : OpenTransferStates \cup {"SEND_COMPLETED", "SEND_FAILED"}])
        /\ Len(rows) + 1 \in Transfers' /\ rows'[Len(rows) + 1].state = "SENDING"
        /\ \A t \in Transfers : t \in Transfers' /\ rows'[t] = rows[t]
    <3>1. "SENDING" \in OpenTransferStates
      BY DEF OpenTransferStates
    <3> QED BY <1>1, <2>1, <3>1, RowAdded
  <2>3. active' \in [id : Nat, next : Nat, sent : BOOLEAN, session : Nat]
        /\ active'.id = Len(rows) + 1
    BY <1>1, <2>1, RowTypes DEF TypeOK
  <2>4. UNCHANGED <<session, nextEpoch, attempt, inbox>>
    BY <2>1 DEF linkVars
  <2> QED BY <2>1, <2>2, <2>3, <2>4, SenderTypes, JournalMoves
<1>3. CASE AdmitDownlinkRaises(p)
  <2>1. /\ rows' = Append(rows, [product |-> p, state |-> "QUEUED"])
        /\ UNCHANGED <<active, linkVars, groundVars>>
    BY <1>3 DEF AdmitDownlinkRaises
  <2>2. /\ rows' \in Seq([product : Products,
                          state : OpenTransferStates \cup {"SEND_COMPLETED", "SEND_FAILED"}])
        /\ \A t \in Transfers : t \in Transfers' /\ rows'[t] = rows[t]
    <3>1. "QUEUED" \in OpenTransferStates
      BY DEF OpenTransferStates
    <3> QED BY <1>1, <2>1, <3>1, RowAdded
  <2>3. UNCHANGED <<session, nextEpoch, attempt, inbox>>
    BY <2>1 DEF linkVars
  <2> QED BY <2>1, <2>2, <2>3, SenderTypes, JournalMoves
<1> QED BY <1>2, <1>3

\* The transfer under way ends; the others stay as they are.
LEMMA CloseForm ==
    ASSUME TransferInv, active # NoTransfer, NEW s \in {"SEND_COMPLETED", "SEND_FAILED"},
           CloseTransfer(s)
    PROVE  /\ rows' \in Seq([product : Products,
                             state : OpenTransferStates \cup {"SEND_COMPLETED", "SEND_FAILED"}])
           /\ Transfers' = Transfers /\ active' = NoTransfer
           /\ \A t \in Transfers : /\ rows'[t].product = rows[t].product
                                   /\ t # active.id => rows'[t] = rows[t]
           /\ rows[active.id].state = "SENDING"
PROOF
<1>1. TypeOK /\ active.id \in Transfers /\ rows[active.id].state = "SENDING"
  BY SenderTypes DEF TransferInv
<1>2. rows' = [rows EXCEPT ![active.id].state = s] /\ active' = NoTransfer
  BY DEF CloseTransfer
<1>3. /\ DOMAIN rows = Transfers
      /\ \A t \in Transfers :
            /\ rows[t].product \in Products
            /\ rows[t].state \in OpenTransferStates \cup {"SEND_COMPLETED", "SEND_FAILED"}
            /\ rows[t] = [product |-> rows[t].product, state |-> rows[t].state]
  BY <1>1, RowTypes
<1>4. /\ DOMAIN rows' = Transfers /\ rows' = [t \in Transfers |-> rows'[t]]
      /\ \A t \in Transfers : t # active.id => rows'[t] = rows[t]
  BY <1>1, <1>2, <1>3
<1>5. rows'[active.id] = [product |-> rows[active.id].product, state |-> s]
  <2>1. rows'[active.id] = [rows[active.id] EXCEPT !.state = s]
    BY <1>1, <1>2, <1>3
  <2> QED BY <1>1, <1>3, <2>1
<1>6. \A t \in Transfers :
         /\ rows'[t] \in [product : Products,
                          state : OpenTransferStates \cup {"SEND_COMPLETED", "SEND_FAILED"}]
         /\ rows'[t].product = rows[t].product
  BY <1>3, <1>4, <1>5
<1> QED BY <1>1, <1>2, <1>4, <1>6, RowsKept

\* SendFails, NextFrameFails and the last frame of a transfer close it.
LEMMA CloseStep ==
    ASSUME TransferInv, active # NoTransfer, NEW s \in {"SEND_COMPLETED", "SEND_FAILED"},
           CloseTransfer(s), UNCHANGED <<linkVars, groundVars>>
    PROVE  TransferInv'
PROOF
<1>1. NoTransfer \in [id : Nat, next : Nat, sent : BOOLEAN, session : Nat]
  BY DEF NoTransfer
<1>2. UNCHANGED <<session, nextEpoch, attempt, inbox>>
  BY DEF linkVars
<1> QED BY <1>1, <1>2, CloseForm, SenderTypes, JournalMoves

LEMMA SendingSteps ==
    ASSUME TransferInv, SendFails \/ CompleteFrame \/ NextFrameFails
    PROVE  TransferInv'
PROOF
<1>1. CASE SendFails
  BY <1>1, CloseStep DEF SendFails
<1>2. CASE NextFrameFails
  BY <1>2, CloseStep DEF NextFrameFails
<1>3. CASE CompleteFrame
  <2>1. active # NoTransfer /\ UNCHANGED <<linkVars, groundVars>>
    BY <1>3 DEF CompleteFrame
  <2>2. CASE KindOfNext(active) = "END"
    BY <1>3, <2>1, <2>2, CloseStep DEF CompleteFrame
  <2>3. CASE KindOfNext(active) # "END"
    <3>1. active' = [active EXCEPT !.next = @ + 1, !.sent = FALSE] /\ UNCHANGED rows
      BY <1>3, <2>3 DEF CompleteFrame
    <3>2. active \in [id : Nat, next : Nat, sent : BOOLEAN, session : Nat]
      BY SenderTypes
    <3>3. active' = [id |-> active.id, next |-> active.next + 1, sent |-> FALSE,
                     session |-> active.session]
      BY <3>1, <3>2
    <3>4. active' \in [id : Nat, next : Nat, sent : BOOLEAN, session : Nat]
          /\ active'.id = active.id
      BY <3>2, <3>3
    <3>5. UNCHANGED <<session, nextEpoch, attempt, inbox>>
      BY <2>1 DEF linkVars
    <3>6. rows' \in Seq([product : Products,
                         state : OpenTransferStates \cup {"SEND_COMPLETED", "SEND_FAILED"}])
          /\ Transfers' = Transfers
      BY <3>1 DEF TransferInv, TypeOK, Transfers
    <3> QED BY <2>1, <3>1, <3>4, <3>5, <3>6, SenderTypes, JournalMoves
  <2> QED BY <2>2, <2>3
<1> QED BY <1>1, <1>2, <1>3

\* A frame goes to the link, which loses, refuses or admits it.
LEMMA TransmitStep ==
    ASSUME TransferInv, TransmitFrame
    PROVE  TransferInv'
PROOF
<1> DEFINE f == FrameOf(active)
           a == AdmittedAttempt(f)
           g == Keyed(f)
           A == [epoch : Nat, state : {"CLOSED", "STARTED", "DRAINING"}]
           F == [kind : Kinds, seq : Nat, transfer : Nat, key : Keys]
<1>1. /\ active # NoTransfer /\ active' = [active EXCEPT !.sent = TRUE]
      /\ LostBeforeLink \/ RefusedByLink(f) \/ LostInLink(f) \/ Delivered(f)
      /\ UNCHANGED <<rows, groundVars>>
  BY DEF TransmitFrame
<1>2. /\ active \in [id : Nat, next : Nat, sent : BOOLEAN, session : Nat]
      /\ active.id \in Transfers /\ rows[active.id].state = "SENDING"
      /\ session \in Nat /\ nextEpoch \in Nat /\ attempt \in A
      /\ inbox \in Seq(F) /\ Len(inbox) \in Nat
      /\ \A i \in 1 .. Len(inbox) :
            inbox[i].transfer \in Transfers /\ (inbox[i].kind = "DATA" => inbox[i].seq # 0)
  BY <1>1, SenderTypes
<1>3. /\ f.kind \in Kinds /\ f.seq = active.next /\ f.transfer = active.id
      /\ f.kind = "DATA" => f.seq # 0
  BY <1>2 DEF FrameOf, KindOfNext, Kinds
<1>4. NoAttempt \in A
  BY DEF NoAttempt
<1> HIDE DEF f
<1>5. a \in A
  <2>1. CASE f.kind = "START"
    BY <1>2, <2>1 DEF AdmittedAttempt
  <2>2. CASE f.kind = "END"
    <3>1. a = [attempt EXCEPT !.state = "DRAINING"]
      BY <2>2 DEF AdmittedAttempt
    <3> QED BY <1>2, <3>1
  <2>3. CASE f.kind = "DATA"
    BY <1>2, <2>3 DEF AdmittedAttempt
  <2> QED BY <1>3, <2>1, <2>2, <2>3 DEF Kinds
<1>6. DeliveredAttempt(f) \in A
  BY <1>4, <1>5 DEF DeliveredAttempt
<1>7. AdmitEpoch(f) => nextEpoch' \in Nat
  BY <1>2 DEF AdmitEpoch
<1>8. g \in F /\ g.kind = f.kind /\ g.seq = f.seq /\ g.transfer = f.transfer
  <2>1. active.id \in Nat /\ active.next \in Nat
    BY <1>2
  <2>2. <<session, a.epoch>> \in Keys
    BY <1>2, <1>5 DEF Keys
  <2>3. g = [kind |-> f.kind, seq |-> f.seq, transfer |-> f.transfer, key |-> <<session, a.epoch>>]
    BY DEF Keyed
  <2> HIDE DEF g, a
  <2> QED BY <1>3, <2>1, <2>2, <2>3
<1> HIDE DEF a, g
<1>9. /\ session' = session /\ nextEpoch' \in Nat /\ attempt' \in A
      /\ inbox' = inbox \/ inbox' = Append(inbox, g)
  <2>1. CASE LostBeforeLink \/ RefusedByLink(f)
    BY <1>2, <2>1 DEF LostBeforeLink, RefusedByLink, linkVars
  <2>2. CASE LostInLink(f)
    BY <1>5, <1>7, <2>2 DEF LostInLink, a
  <2>3. CASE Delivered(f)
    BY <1>6, <1>7, <2>3 DEF Delivered, g
  <2> QED BY <1>1, <2>1, <2>2, <2>3
<1>10. /\ inbox' \in Seq(F)
       /\ \A i \in 1 .. Len(inbox') :
             inbox'[i].transfer \in Transfers /\ (inbox'[i].kind = "DATA" => inbox'[i].seq # 0)
  <2>1. CASE inbox' = inbox
    BY <1>2, <2>1
  <2>2. CASE inbox' = Append(inbox, g)
    <3>1. /\ Append(inbox, g) \in Seq(F) /\ Len(Append(inbox, g)) = Len(inbox) + 1
          /\ \A i \in 1 .. Len(inbox) : Append(inbox, g)[i] = inbox[i]
          /\ Append(inbox, g)[Len(inbox) + 1] = g
      BY <1>2, <1>8, AppendProperties
    <3>2. \A i \in 1 .. Len(inbox) + 1 : i \in 1 .. Len(inbox) \/ i = Len(inbox) + 1
      BY <1>2
    <3> HIDE DEF F
    <3> QED BY <1>2, <1>3, <1>8, <2>2, <3>1, <3>2
  <2> QED BY <1>9, <2>1, <2>2
<1>11. active' \in [id : Nat, next : Nat, sent : BOOLEAN, session : Nat] /\ active'.id = active.id
  BY <1>1, <1>2
<1>12. rows' \in Seq([product : Products,
                      state : OpenTransferStates \cup {"SEND_COMPLETED", "SEND_FAILED"}])
       /\ Transfers' = Transfers /\ rows' = rows
  BY <1>1 DEF TransferInv, TypeOK, Transfers
<1> QED BY <1>1, <1>2, <1>9, <1>10, <1>11, <1>12, SenderMoves

\* The satellite or the link starts anew.
LEMMA RestartSteps ==
    ASSUME TransferInv, SatelliteRestart \/ LinkRestart
    PROVE  TransferInv'
PROOF
<1>1. NoAttempt \in [epoch : Nat, state : {"CLOSED", "STARTED", "DRAINING"}]
      /\ NoTransfer \in [id : Nat, next : Nat, sent : BOOLEAN, session : Nat]
  BY DEF NoAttempt, NoTransfer
<1>2. TypeOK
  BY DEF TransferInv
<1>3. CASE SatelliteRestart
  <2>1. /\ rows' = [t \in DOMAIN rows |->
                      IF rows[t].state \in OpenTransferStates
                        THEN [rows[t] EXCEPT !.state = "SEND_FAILED"] ELSE rows[t]]
        /\ active' = NoTransfer /\ session' = session + 1 /\ attempt' = NoAttempt
        /\ UNCHANGED <<nextEpoch, inbox, groundVars>>
    BY <1>3 DEF SatelliteRestart
  <2>2. DOMAIN rows = Transfers
        /\ \A t \in Transfers :
            /\ rows[t].product \in Products
            /\ rows[t].state \in OpenTransferStates \cup {"SEND_COMPLETED", "SEND_FAILED"}
            /\ rows[t] = [product |-> rows[t].product, state |-> rows[t].state]
    BY <1>2, RowTypes
  <2>3. \A t \in Transfers :
           rows'[t] = IF rows[t].state \in OpenTransferStates
                      THEN [product |-> rows[t].product, state |-> "SEND_FAILED"]
                      ELSE [product |-> rows[t].product, state |-> rows[t].state]
    BY <2>1, <2>2
  <2>4. DOMAIN rows' = Transfers /\ rows' = [t \in Transfers |-> rows'[t]]
    BY <2>1, <2>2
  <2>5. \A t \in Transfers :
           /\ rows'[t] \in [product : Products,
                            state : OpenTransferStates \cup {"SEND_COMPLETED", "SEND_FAILED"}]
           /\ rows'[t].product = rows[t].product
    <3> SUFFICES ASSUME NEW t \in Transfers
                 PROVE  /\ rows'[t] \in [product : Products,
                                         state : OpenTransferStates \cup {"SEND_COMPLETED", "SEND_FAILED"}]
                        /\ rows'[t].product = rows[t].product
      OBVIOUS
    <3>1. \/ rows'[t] = [product |-> rows[t].product, state |-> "SEND_FAILED"]
          \/ rows'[t] = [product |-> rows[t].product, state |-> rows[t].state]
      BY <2>3
    <3> QED BY <2>2, <3>1
  <2>6. session' \in Nat
    BY <2>1, SenderTypes
  <2> QED BY <1>1, <1>2, <2>1, <2>4, <2>5, <2>6, RowsKept, SenderTypes, JournalMoves
<1>4. CASE LinkRestart
  <2>1. /\ session' = session + 1 /\ attempt' = NoAttempt /\ nextEpoch' = 1
        /\ UNCHANGED <<rows, active, inbox, groundVars>>
    BY <1>4 DEF LinkRestart, satelliteVars
  <2>2. session' \in Nat /\ nextEpoch' \in Nat
    BY <2>1, SenderTypes
  <2>3. Transfers' = Transfers
    BY <2>1 DEF Transfers
  <2> QED BY <1>1, <1>2, <2>1, <2>2, <2>3, SenderTypes, JournalMoves DEF TypeOK
<1> QED BY <1>3, <1>4

-----------------------------------------------------------------------------
(***************************************************************************)
(* Steps of the ground.                                                    *)
(***************************************************************************)
\* What the ground has, by its types and the invariant.
LEMMA GroundFacts ==
    ASSUME TransferInv
    PROVE  /\ \A k \in DOMAIN epochs :
                 /\ epochs[k].state \in EpochStates
                 /\ SoundEpoch(epochs[k])
                 /\ BundleOf(epochs[k]) \in Products
           /\ products \in [Products -> ProductStates]
           /\ DOMAIN final \subseteq Products /\ artifacts \subseteq Products
           /\ work \in [phase : Phases, key : Keys, transfer : Nat]
           /\ Receiving \subseteq DOMAIN epochs
           /\ ReceiverInv /\ WorkInv /\ StoreInv
PROOF
<1>1. TypeOK /\ GroundInv
  BY DEF TransferInv
<1>2. \A k \in DOMAIN epochs : epochs[k].transfer \in Transfers
  BY <1>1 DEF GroundInv, SoundEpoch
<1> QED BY <1>1, <1>2, RowTypes DEF TypeOK, GroundInv, BundleOf, Receiving

\* A frame taken off the socket leaves frames of transfers behind it.
LEMMA InboxMoves ==
    ASSUME TransferInv,
           inbox' \in {inbox, <<>>} \/ (inbox # <<>> /\ inbox' = Tail(inbox))
    PROVE  /\ inbox' \in Seq([kind : Kinds, seq : Nat, transfer : Nat, key : Keys])
           /\ \A i \in 1 .. Len(inbox') :
                 inbox'[i].transfer \in Transfers /\ (inbox'[i].kind = "DATA" => inbox'[i].seq # 0)
PROOF
<1> DEFINE F == [kind : Kinds, seq : Nat, transfer : Nat, key : Keys]
<1>1. inbox \in Seq(F) /\ Len(inbox) \in Nat
      /\ \A i \in 1 .. Len(inbox) :
            inbox[i].transfer \in Transfers /\ (inbox[i].kind = "DATA" => inbox[i].seq # 0)
  BY SenderTypes
<1>2. CASE inbox' = inbox
  BY <1>1, <1>2
<1>3. CASE inbox' = <<>>
  BY <1>3
<1>4. CASE inbox # <<>> /\ inbox' = Tail(inbox)
  <2> HIDE DEF F
  <2>1. /\ inbox' \in Seq(F) /\ Len(inbox') = Len(inbox) - 1
        /\ \A i \in 1 .. Len(inbox') : inbox'[i] = inbox[i + 1]
    BY <1>1, <1>4, HeadTailProperties
  <2>2. \A i \in 1 .. Len(inbox') : i + 1 \in 1 .. Len(inbox)
    BY <1>1, <2>1
  <2> QED BY <1>1, <2>1, <2>2 DEF F
<1> QED BY <1>2, <1>3, <1>4

\* A step of the ground alone.
LEMMA GroundMoves ==
    ASSUME TransferInv, UNCHANGED <<satelliteVars, session, attempt, nextEpoch>>,
           inbox' \in {inbox, <<>>} \/ (inbox # <<>> /\ inbox' = Tail(inbox)),
           gsession' \in Nat,
           \A k \in DOMAIN epochs' : epochs'[k].state \in EpochStates,
           products' \in [Products -> ProductStates],
           DOMAIN final' \subseteq Products, artifacts' \subseteq Products,
           work' \in [phase : Phases, key : Keys, transfer : Nat],
           GroundInv'
    PROVE  TransferInv'
PROOF
<1>1. rows' = rows /\ active' = active /\ session' = session /\ attempt' = attempt
      /\ nextEpoch' = nextEpoch
  BY DEF satelliteVars
<1>2. Transfers' = Transfers
  BY <1>1 DEF Transfers
<1>3. /\ inbox' \in Seq([kind : Kinds, seq : Nat, transfer : Nat, key : Keys])
      /\ \A i \in 1 .. Len(inbox') :
            inbox'[i].transfer \in Transfers /\ (inbox'[i].kind = "DATA" => inbox'[i].seq # 0)
  BY InboxMoves
<1>4. TypeOK'
  BY <1>1, <1>3 DEF TransferInv, TypeOK
<1>5. SenderInv'
  BY <1>1, <1>2, <1>3 DEF TransferInv, SenderInv
<1> QED BY <1>4, <1>5 DEF TransferInv

\* The tables stay as they are and the handler goes idle or stays idle.
LEMMA GroundStays ==
    ASSUME TransferInv, UNCHANGED <<satelliteVars, session, attempt, nextEpoch>>,
           inbox' \in {inbox, <<>>} \/ (inbox # <<>> /\ inbox' = Tail(inbox)),
           gsession' \in Nat, UNCHANGED <<epochs, reserved, parts, storeVars, work>>
    PROVE  TransferInv'
PROOF
<1>1. rows' = rows /\ Transfers' = Transfers
  BY DEF satelliteVars, Transfers
<1>2. GroundInv'
  BY <1>1, RowsGrow
<1> QED BY <1>2, GroundFacts, GroundMoves DEF storeVars

\* While the table of epochs stays and products only get further, epochs are
\* sound and received as before.
LEMMA EpochsStay ==
    ASSUME TransferInv, UNCHANGED <<rows, epochs>>,
           \A p \in Products : products[p] # "NONE" => products'[p] # "NONE",
           \A p \in DOMAIN final : p \in DOMAIN final'
    PROVE  /\ \A k \in DOMAIN epochs : SoundEpoch(epochs[k])'
           /\ Receiving' = Receiving
           /\ \A k \in DOMAIN epochs :
                 /\ BundleOf(epochs[k])' = BundleOf(epochs[k])
                 /\ WholeBundle(epochs[k]) => WholeBundle(epochs[k])'
PROOF
<1>1. \A k \in DOMAIN epochs : SoundEpoch(epochs[k]) /\ BundleOf(epochs[k]) \in Products
  BY GroundFacts
<1>2. Transfers' = Transfers
  BY DEF Transfers
<1>3. ASSUME NEW k \in DOMAIN epochs PROVE SoundEpoch(epochs[k])'
  BY <1>1, <1>2 DEF SoundEpoch, BundleOf
<1>4. Receiving' = Receiving
  BY DEF Receiving
<1>5. ASSUME NEW k \in DOMAIN epochs
      PROVE  /\ BundleOf(epochs[k])' = BundleOf(epochs[k])
             /\ WholeBundle(epochs[k]) => WholeBundle(epochs[k])'
  BY DEF WholeBundle, BundleOf
<1> QED BY <1>3, <1>4, <1>5

\* An epoch that is closed leaves none receiving.
LEMMA Terminated ==
    ASSUME TransferInv, UNCHANGED <<rows, products, final>>,
           NEW k \in Receiving, NEW state \in EpochStates \ {"RECEIVING"},
           state = "VERIFIED" => BundleOf(epochs[k]) \in DOMAIN final,
           Terminate(k, state)
    PROVE  /\ DOMAIN epochs' = DOMAIN epochs /\ Receiving' = {}
           /\ \A j \in DOMAIN epochs' : epochs'[j].state \in EpochStates
           /\ \A j \in DOMAIN epochs' : SoundEpoch(epochs[j])'
PROOF
<1> DEFINE e == Settled(k, state)
<1>1. /\ \A j \in DOMAIN epochs : epochs[j].state \in EpochStates /\ SoundEpoch(epochs[j])
      /\ k \in DOMAIN epochs /\ \A i, j \in Receiving : i = j
  BY GroundFacts DEF ReceiverInv
<1>2. /\ DOMAIN epochs' = DOMAIN epochs /\ epochs'[k] = e
      /\ \A j \in DOMAIN epochs : j # k => epochs'[j] = epochs[j]
  BY <1>1 DEF Terminate
<1>3. /\ e.state = state /\ e.transfer = epochs[k].transfer /\ DOMAIN e.got = {}
  BY DEF Settled, NoChunks
<1>4. Transfers' = Transfers
  BY DEF Transfers
<1> HIDE DEF e
<1>5. SoundEpoch(epochs[k])'
  BY <1>1, <1>2, <1>3, <1>4 DEF SoundEpoch, BundleOf
<1>6. ASSUME NEW j \in DOMAIN epochs, j # k PROVE SoundEpoch(epochs[j])'
  BY <1>1, <1>2, <1>4, <1>6 DEF SoundEpoch, BundleOf
<1>7. Receiving' = {}
  BY <1>1, <1>2, <1>3 DEF Receiving
<1>8. \A j \in DOMAIN epochs' : epochs'[j].state \in EpochStates
  BY <1>1, <1>2, <1>3
<1> QED BY <1>2, <1>5, <1>6, <1>7, <1>8

\* What taking a frame off the socket leaves alone.
LEMMA Taking ==
    ASSUME TransferInv, TakeFrame
    PROVE  /\ work = NoWork /\ inbox # <<>> /\ inbox' = Tail(inbox)
           /\ UNCHANGED <<satelliteVars, session, attempt, nextEpoch>>
           /\ rows' = rows /\ Transfers' = Transfers
           /\ gsession' = gsession /\ gsession \in Nat
           /\ products' = products /\ final' = final /\ artifacts' = artifacts
           /\ reserved \subseteq Receiving
           /\ Head(inbox) \in [kind : Kinds, seq : Nat, transfer : Nat, key : Keys]
           /\ Head(inbox).transfer \in Transfers
           /\ Head(inbox).kind = "DATA" => Head(inbox).seq # 0
PROOF
<1>1. /\ work = NoWork /\ inbox # <<>> /\ inbox' = Tail(inbox)
      /\ UNCHANGED <<satelliteVars, session, attempt, nextEpoch, gsession, storeVars>>
  BY DEF TakeFrame
<1>2. rows' = rows /\ Transfers' = Transfers
  BY <1>1 DEF satelliteVars, Transfers
<1>3. reserved \subseteq Receiving
  BY <1>1, GroundFacts DEF WorkInv, NoWork, OpeningPhases
<1>4. /\ inbox \in Seq([kind : Kinds, seq : Nat, transfer : Nat, key : Keys]) /\ Len(inbox) \in Nat
      /\ \A i \in 1 .. Len(inbox) :
            inbox[i].transfer \in Transfers /\ (inbox[i].kind = "DATA" => inbox[i].seq # 0)
      /\ gsession \in Nat
  BY SenderTypes
<1>5. /\ Head(inbox) = inbox[1] /\ 1 \in 1 .. Len(inbox)
      /\ Head(inbox) \in [kind : Kinds, seq : Nat, transfer : Nat, key : Keys]
  <2> DEFINE F == [kind : Kinds, seq : Nat, transfer : Nat, key : Keys]
  <2>1. inbox \in Seq(F) /\ Len(inbox) \in Nat /\ inbox # <<>>
    BY <1>1, <1>4
  <2> HIDE DEF F
  <2>2. Head(inbox) = inbox[1] /\ Head(inbox) \in F /\ Len(inbox) >= 1
    BY <2>1, HeadTailProperties, EmptySeq
  <2> QED BY <2>1, <2>2 DEF F
<1> QED BY <1>1, <1>2, <1>3, <1>4, <1>5 DEF storeVars

LEMMA RebindStep ==
    ASSUME TransferInv, RebindSession
    PROVE  TransferInv'
PROOF
<1>1. /\ gsession' = session /\ UNCHANGED <<satelliteVars, linkVars, epochs, reserved, parts, storeVars, work>>
  BY DEF RebindSession
<1>2. session \in Nat
  BY SenderTypes
<1> QED BY <1>1, <1>2, GroundStays DEF linkVars

LEMMA DropStep ==
    ASSUME TransferInv, DropForeignFrame
    PROVE  TransferInv'
PROOF
<1>1. TakeFrame /\ UNCHANGED <<epochs, reserved, parts, work>>
  BY DEF DropForeignFrame
<1> QED BY <1>1, Taking, GroundStays DEF storeVars

\* START opens an epoch: its storage is reserved while nothing is received.
LEMMA StartStep ==
    ASSUME TransferInv, ReceiveStart
    PROVE  TransferInv'
PROOF
<1> DEFINE f == Head(inbox)
<1>1. /\ TakeFrame /\ epochs' = epochs /\ parts' = parts
      /\ \/ reserved' = reserved /\ work' = work
         \/ /\ StartAccepted(f.key)
            /\ reserved' = reserved \cup {f.key}
            /\ work' = [phase |-> "reserved", key |-> f.key, transfer |-> f.transfer]
  BY DEF ReceiveStart, AtHead
<1>2. CASE reserved' = reserved /\ work' = work
  BY <1>1, <1>2, Taking, GroundStays DEF storeVars
<1>3. CASE /\ StartAccepted(f.key)
           /\ reserved' = reserved \cup {f.key}
           /\ work' = [phase |-> "reserved", key |-> f.key, transfer |-> f.transfer]
  <2>1. f.key \in Keys /\ f.transfer \in Nat /\ f.transfer \in Transfers
    BY <1>1, Taking
  <2>2. work'.phase = "reserved" /\ work'.key = f.key /\ work'.transfer = f.transfer
        /\ work' \in [phase : Phases, key : Keys, transfer : Nat]
    BY <1>3, <2>1 DEF Phases
  <2>3. f.key \notin DOMAIN epochs /\ Receiving = {}
    BY <1>3 DEF StartAccepted
  <2>4. reserved' \subseteq {f.key}
    BY <1>1, <1>3, <2>3, Taking
  <2> HIDE DEF f
  <2>5. /\ \A k \in DOMAIN epochs' : SoundEpoch(epochs[k])'
        /\ Receiving' = {}
    BY <1>1, <2>3, Taking, EpochsStay
  <2>6. ReceiverInv'
    BY <2>5 DEF ReceiverInv
  <2>7. WorkInv'
    BY <1>1, <2>1, <2>2, <2>3, <2>4, <2>5, Taking
       DEF WorkInv, OpeningPhases, PublishingPhases, ClosingPhases
  <2>8. StoreInv'
    BY <1>1, Taking, GroundFacts DEF StoreInv, PublishedIsWhole
  <2>9. GroundInv'
    BY <1>1, <2>5, <2>6, <2>7, <2>8 DEF GroundInv
  <2> QED BY <1>1, <2>2, <2>9, Taking, GroundFacts, GroundMoves
<1> QED BY <1>1, <1>2, <1>3

\* DATA adds a chunk within the bundle to the epoch that is receiving.
LEMMA DataStep ==
    ASSUME TransferInv, ReceiveData
    PROVE  TransferInv'
PROOF
<1> DEFINE f == Head(inbox)
<1>1. /\ TakeFrame /\ f.kind = "DATA" /\ UNCHANGED <<reserved, parts, work>>
      /\ epochs' = IF DataAccepted(f) THEN [epochs EXCEPT ![f.key] = Recorded(f)] ELSE epochs
  BY DEF ReceiveData, AtHead
<1>2. CASE ~DataAccepted(f)
  BY <1>1, <1>2, Taking, GroundStays DEF storeVars
<1>3. CASE DataAccepted(f)
  <2> PICK h : h = f.key
    OBVIOUS
  <2> PICK e : e = Recorded(f)
    OBVIOUS
  <2>1. h \in Receiving /\ h \in DOMAIN epochs /\ f.seq <= Size[BundleOf(epochs[h])]
    BY <1>3, GroundFacts DEF DataAccepted, ProductOf, BundleOf
  <2>2. f.seq \in Nat /\ f.seq # 0 /\ f.transfer \in Transfers
    BY <1>1, Taking
  <2>3. /\ SoundEpoch(epochs[h]) /\ BundleOf(epochs[h]) \in Products
        /\ epochs[h].state = "RECEIVING"
    BY <2>1, GroundFacts DEF Receiving
  <2>4. Size[BundleOf(epochs[h])] \in Nat
    BY <2>3, TransferAssumption
  <2>5. /\ e.state = "RECEIVING" /\ e.transfer = epochs[h].transfer
        /\ DOMAIN e.got = DOMAIN epochs[h].got \cup {f.seq}
        /\ \A c \in DOMAIN e.got : e.got[c] \in {epochs[h].got[c], f.transfer}
        /\ e.got[f.seq] = f.transfer
        /\ \A c \in DOMAIN epochs[h].got : c # f.seq => e.got[c] = epochs[h].got[c]
    <3>1. /\ e = [state |-> "RECEIVING", transfer |-> epochs[h].transfer, got |-> e.got]
          /\ e.got = Put(epochs[h].got, f.seq, f.transfer)
      BY DEF Recorded
    <3> HIDE DEF f
    <3>2. /\ DOMAIN e.got = DOMAIN epochs[h].got \cup {f.seq} /\ e.got[f.seq] = f.transfer
          /\ \A c \in DOMAIN epochs[h].got : c # f.seq => e.got[c] = epochs[h].got[c]
      BY <3>1 DEF Put
    <3>3. e.state = "RECEIVING" /\ e.transfer = epochs[h].transfer
      BY <3>1
    <3> QED BY <3>2, <3>3
  <2>6. /\ DOMAIN epochs' = DOMAIN epochs /\ epochs'[h] = e
        /\ \A j \in DOMAIN epochs : j # h => epochs'[j] = epochs[j]
    BY <1>1, <1>3, <2>1
  <2>7. /\ rows' = rows /\ Transfers' = Transfers /\ products' = products /\ final' = final
        /\ artifacts' = artifacts /\ work = NoWork /\ work' = work /\ reserved \subseteq Receiving
    BY <1>1, Taking
  <2> HIDE DEF f
  <2>8. \A c \in DOMAIN e.got : c \in 1 .. Size[BundleOf(epochs[h])] /\ e.got[c] \in Transfers
    BY <2>1, <2>2, <2>3, <2>4, <2>5 DEF SoundEpoch
  <2>9. SoundEpoch(epochs[h])'
    BY <2>3, <2>5, <2>6, <2>7, <2>8 DEF SoundEpoch, BundleOf
  <2>10. ASSUME NEW k \in DOMAIN epochs, k # h PROVE SoundEpoch(epochs[k])'
    BY <2>6, <2>7, <2>10, GroundFacts DEF SoundEpoch, BundleOf
  <2>11. Receiving' = Receiving
    BY <2>3, <2>5, <2>6 DEF Receiving
  <2>12. ReceiverInv'
    BY <1>1, <2>11, GroundFacts DEF ReceiverInv
  <2>13. WorkInv'
    BY <1>1, <2>7, <2>11 DEF WorkInv, NoWork, OpeningPhases, PublishingPhases, ClosingPhases
  <2>14. StoreInv'
    BY <2>7, GroundFacts DEF StoreInv, PublishedIsWhole
  <2>15. GroundInv'
    BY <2>6, <2>9, <2>10, <2>12, <2>13, <2>14 DEF GroundInv
  <2>16. \A k \in DOMAIN epochs' : epochs'[k].state \in EpochStates
    BY <2>3, <2>5, <2>6, GroundFacts
  <2> QED BY <1>1, <2>7, <2>15, <2>16, Taking, GroundFacts, GroundMoves
<1> QED BY <1>2, <1>3

\* END closes the epoch, or hands a bundle that is what START promised to the
\* product store.
LEMMA EndStep ==
    ASSUME TransferInv, ReceiveEnd
    PROVE  TransferInv'
PROOF
<1> DEFINE f == Head(inbox)
<1> PICK h : h = f.key
  OBVIOUS
<1>1. TakeFrame /\ UNCHANGED <<reserved, parts>>
  BY DEF ReceiveEnd, AtHead
<1>2. /\ work = NoWork /\ rows' = rows /\ Transfers' = Transfers /\ products' = products
      /\ final' = final /\ artifacts' = artifacts /\ reserved \subseteq Receiving /\ h \in Keys
  BY <1>1, Taking
<1>3. StoreInv'
  BY <1>2, GroundFacts DEF StoreInv, PublishedIsWhole
<1>4. \/ epochs' = epochs /\ work' = work
      \/ /\ h \in Receiving
         /\ \/ Terminate(h, "INCOMPLETE") \/ Terminate(h, "CHECKSUM_FAILED")
         /\ work' = Working("persisted", h)
      \/ /\ h \in Receiving /\ CoverageComplete(h) /\ IntegrityHolds(f)
         /\ work' = Working("verified", h)
         /\ epochs' = epochs
  BY DEF ReceiveEnd, EndAccepted
<1>5. CASE epochs' = epochs /\ work' = work
  BY <1>1, <1>5, Taking, GroundStays DEF storeVars
<1>6. CASE /\ h \in Receiving
           /\ \/ Terminate(h, "INCOMPLETE") \/ Terminate(h, "CHECKSUM_FAILED")
           /\ work' = Working("persisted", h)
  <2>1. PICK state \in EpochStates \ {"RECEIVING", "VERIFIED"} : Terminate(h, state)
    BY <1>6 DEF EpochStates
  <2>2. /\ DOMAIN epochs' = DOMAIN epochs /\ Receiving' = {}
        /\ \A j \in DOMAIN epochs' : epochs'[j].state \in EpochStates
        /\ \A j \in DOMAIN epochs' : SoundEpoch(epochs[j])'
    BY <1>2, <1>6, <2>1, Terminated
  <2>3. work'.phase = "persisted" /\ work'.key = h
        /\ work' \in [phase : Phases, key : Keys, transfer : Nat]
    BY <1>2, <1>6 DEF Working, Phases
  <2>4. h \in DOMAIN epochs /\ reserved' \subseteq {h}
    BY <1>1, <1>2, <1>6, GroundFacts DEF ReceiverInv
  <2> HIDE DEF f
  <2>5. ReceiverInv'
    BY <2>2 DEF ReceiverInv
  <2>6. WorkInv'
    BY <2>2, <2>3, <2>4 DEF WorkInv, OpeningPhases, PublishingPhases, ClosingPhases
  <2>7. GroundInv'
    BY <1>3, <2>2, <2>5, <2>6 DEF GroundInv
  <2> QED BY <1>1, <2>2, <2>3, <2>7, Taking, GroundFacts, GroundMoves
<1>7. CASE /\ h \in Receiving /\ CoverageComplete(h) /\ IntegrityHolds(f)
           /\ work' = Working("verified", h)
           /\ epochs' = epochs
  <2>1. WholeBundle(epochs[h])
    BY <1>7 DEF CoverageComplete, IntegrityHolds, WholeBundle, BundleOf, ProductOf
  <2>2. work'.phase = "verified" /\ work'.key = h
        /\ work' \in [phase : Phases, key : Keys, transfer : Nat]
    BY <1>2, <1>7 DEF Working, Phases
  <2> HIDE DEF f
  <2>3. /\ \A k \in DOMAIN epochs : SoundEpoch(epochs[k])'
        /\ Receiving' = Receiving
    BY <1>2, <1>7, EpochsStay
  <2>4. ReceiverInv'
    BY <1>1, <2>3, GroundFacts DEF ReceiverInv
  <2>5. WholeBundle(epochs[work.key])'
    BY <1>2, <1>7, <2>1, <2>2 DEF WholeBundle, BundleOf
  <2>6. WorkInv'
    BY <1>1, <1>2, <1>7, <2>2, <2>3, <2>5
       DEF WorkInv, OpeningPhases, PublishingPhases, ClosingPhases
  <2>7. GroundInv'
    BY <1>3, <1>7, <2>3, <2>4, <2>6 DEF GroundInv
  <2> QED BY <1>1, <1>2, <1>7, <2>2, <2>7, Taking, GroundFacts, GroundMoves
<1> QED BY <1>4, <1>5, <1>6, <1>7

-----------------------------------------------------------------------------
\* What a step of a handler leaves alone.
LEMMA Handling ==
    ASSUME TransferInv, NEW phase, InWork(phase)
    PROVE  /\ work.phase = phase
           /\ work.key \in Keys /\ work.transfer \in Nat
           /\ UNCHANGED <<satelliteVars, session, attempt, nextEpoch, inbox, gsession>>
           /\ rows' = rows /\ Transfers' = Transfers
           /\ gsession' \in Nat
BY SenderTypes, GroundFacts DEF InWork, linkVars, satelliteVars, Transfers

\* A step of a handler that keeps the ground's part of the invariant.
LEMMA HandlerMoves ==
    ASSUME TransferInv, NEW phase, InWork(phase),
           \A k \in DOMAIN epochs' : epochs'[k].state \in EpochStates,
           products' \in [Products -> ProductStates],
           DOMAIN final' \subseteq Products, artifacts' \subseteq Products,
           work' \in [phase : Phases, key : Keys, transfer : Nat],
           GroundInv'
    PROVE  TransferInv'
BY Handling, GroundMoves

\* The part file of the epoch that is being opened.
LEMMA CreateStep ==
    ASSUME TransferInv, CreatePart
    PROVE  TransferInv'
PROOF
<1>1. /\ InWork("reserved") /\ parts' = parts \cup {work.key}
      /\ UNCHANGED <<epochs, reserved, products, final, artifacts>>
      /\ work' = [work EXCEPT !.phase = "created"]
  BY DEF CreatePart, storeVars
<1>2. /\ work.phase = "reserved" /\ rows' = rows /\ Transfers' = Transfers
  BY <1>1, Handling
<1>3. /\ work' \in [phase : Phases, key : Keys, transfer : Nat]
      /\ work'.phase = "created" /\ work'.key = work.key /\ work'.transfer = work.transfer
  BY <1>1, GroundFacts DEF Phases
<1>4. /\ \A k \in DOMAIN epochs : SoundEpoch(epochs[k])'
      /\ Receiving' = Receiving
  BY <1>1, <1>2, EpochsStay
<1>5. ReceiverInv'
  BY <1>1, <1>4, GroundFacts DEF ReceiverInv
<1>6. /\ work.key \notin DOMAIN epochs /\ Receiving = {} /\ reserved \subseteq {work.key}
      /\ work.transfer \in Transfers
  BY <1>2, GroundFacts DEF WorkInv, OpeningPhases
<1>7. WorkInv'
  BY <1>1, <1>2, <1>3, <1>4, <1>6 DEF WorkInv, OpeningPhases, PublishingPhases, ClosingPhases
<1>8. StoreInv'
  BY <1>1, GroundFacts DEF StoreInv, PublishedIsWhole
<1>9. GroundInv'
  BY <1>1, <1>4, <1>5, <1>7, <1>8 DEF GroundInv
<1> QED BY <1>1, <1>3, <1>9, GroundFacts, HandlerMoves

\* The row of the epoch: it is the only one receiving.
LEMMA PersistStep ==
    ASSUME TransferInv, PersistStart
    PROVE  TransferInv'
PROOF
<1> PICK h : h = work.key
  OBVIOUS
<1> PICK t : t = work.transfer
  OBVIOUS
<1> PICK e : e = [state |-> "RECEIVING", transfer |-> t, got |-> NoChunks]
  OBVIOUS
<1> PICK p : p = rows[t].product
  OBVIOUS
<1>1. /\ InWork("created") /\ work' = NoWork
      /\ epochs' = Put(epochs, h, e)
      /\ products' = [products EXCEPT ![p] = IF @ = "NONE" THEN "RECEIVING" ELSE @]
      /\ UNCHANGED <<reserved, parts, final, artifacts>>
  BY DEF PersistStart
<1>2. /\ work.phase = "created" /\ rows' = rows /\ Transfers' = Transfers
  BY <1>1, Handling
<1>3. /\ h \notin DOMAIN epochs /\ Receiving = {} /\ reserved \subseteq {h} /\ t \in Transfers
      /\ h \in parts
  BY <1>2, GroundFacts DEF WorkInv, OpeningPhases
<1>4. p \in Products
  BY <1>3, RowTypes DEF TransferInv
<1>5. e.state = "RECEIVING" /\ e.transfer = t /\ DOMAIN e.got = {}
  BY DEF NoChunks
<1>6. /\ DOMAIN epochs' = DOMAIN epochs \cup {h} /\ epochs'[h] = e
      /\ \A k \in DOMAIN epochs : k # h => epochs'[k] = epochs[k]
  BY <1>1 DEF Put
<1>7. /\ products' \in [Products -> ProductStates] /\ products'[p] # "NONE"
      /\ \A q \in Products :
            /\ products[q] # "NONE" => products'[q] = products[q]
            /\ products'[q] = "PUBLISHED" => products[q] = "PUBLISHED"
  BY <1>1, <1>4, GroundFacts DEF ProductStates
<1>8. Receiving' = {h}
  BY <1>3, <1>5, <1>6 DEF Receiving
<1>9. SoundEpoch(epochs[h])'
  BY <1>2, <1>3, <1>5, <1>6, <1>7 DEF SoundEpoch, BundleOf
<1>10. ASSUME NEW k \in DOMAIN epochs PROVE SoundEpoch(epochs[k])'
  BY <1>1, <1>2, <1>3, <1>6, <1>7, GroundFacts DEF SoundEpoch, BundleOf
<1>11. ReceiverInv'
  BY <1>1, <1>3, <1>8 DEF ReceiverInv
<1>12. WorkInv'
  BY <1>1, <1>3, <1>8 DEF WorkInv, NoWork, OpeningPhases, PublishingPhases, ClosingPhases
<1>13. StoreInv'
  BY <1>1, <1>7, GroundFacts DEF StoreInv, PublishedIsWhole
<1>14. GroundInv'
  BY <1>6, <1>9, <1>10, <1>11, <1>12, <1>13 DEF GroundInv
<1>15. \A k \in DOMAIN epochs' : epochs'[k].state \in EpochStates
  BY <1>5, <1>6, GroundFacts DEF EpochStates
<1>16. work' \in [phase : Phases, key : Keys, transfer : Nat]
  BY <1>1 DEF NoWork, Phases, Keys
<1> QED BY <1>1, <1>7, <1>14, <1>15, <1>16, GroundFacts, HandlerMoves

\* An epoch that could not be opened gives its storage back.
LEMMA StartFailsStep ==
    ASSUME TransferInv, StartFails
    PROVE  TransferInv'
PROOF
<1>1. /\ InWork(work.phase) /\ work.phase \in OpeningPhases /\ work' = NoWork
      /\ reserved' = reserved \ {work.key} /\ parts' = parts \ {work.key}
      /\ UNCHANGED <<epochs, products, final, artifacts>>
  BY DEF StartFails, storeVars, OpeningPhases
<1>2. rows' = rows /\ Transfers' = Transfers
  BY <1>1, Handling
<1>3. /\ \A k \in DOMAIN epochs : SoundEpoch(epochs[k])'
      /\ Receiving' = Receiving
  BY <1>1, <1>2, EpochsStay
<1>4. Receiving = {} /\ reserved \subseteq {work.key}
  BY <1>1, GroundFacts DEF WorkInv
<1>5. ReceiverInv'
  BY <1>3, <1>4 DEF ReceiverInv
<1>6. WorkInv'
  BY <1>1, <1>3, <1>4 DEF WorkInv, NoWork, OpeningPhases, PublishingPhases, ClosingPhases
<1>7. StoreInv'
  BY <1>1, GroundFacts DEF StoreInv, PublishedIsWhole
<1>8. GroundInv'
  BY <1>1, <1>3, <1>5, <1>6, <1>7 DEF GroundInv
<1>9. work' \in [phase : Phases, key : Keys, transfer : Nat]
  BY <1>1 DEF NoWork, Phases, Keys
<1> QED BY <1>1, <1>8, <1>9, GroundFacts, HandlerMoves

-----------------------------------------------------------------------------
(***************************************************************************)
(* Publishing a bundle, one durable effect after the other.                *)
(***************************************************************************)
\* A publishing step leaves the epoch and the reservations alone; what it does
\* to products and directories keeps them sound, and the next phase says more.
LEMMA PublishMoves ==
    ASSUME TransferInv, NEW phase \in PublishingPhases, InWork(phase),
           NEW next \in PublishingPhases, work' = [work EXCEPT !.phase = next],
           UNCHANGED <<epochs, reserved, parts>>,
           products' \in [Products -> ProductStates],
           \A p \in Products : products[p] # "NONE" => products'[p] # "NONE",
           DOMAIN final \subseteq DOMAIN final', DOMAIN final' \subseteq Products,
           artifacts' \subseteq Products, StoreInv',
           next \in {"staged", "renamed", "published"} =>
              products'[BundleOf(epochs[work.key])] \in {"VERIFIED", "PUBLISHED"},
           next = "published" => products'[BundleOf(epochs[work.key])] = "PUBLISHED",
           next = "staged" => BundleOf(epochs[work.key]) \notin DOMAIN final',
           next \in {"renamed", "published", "recorded"} =>
              BundleOf(epochs[work.key]) \in DOMAIN final'
    PROVE  TransferInv'
PROOF
<1> PICK h : h = work.key
  OBVIOUS
<1>1. work.phase = phase /\ rows' = rows
  BY Handling
<1>2. /\ work' \in [phase : Phases, key : Keys, transfer : Nat]
      /\ work'.phase = next /\ work'.key = h
  <2>1. work \in [phase : Phases, key : Keys, transfer : Nat] /\ next \in Phases
    BY GroundFacts DEF Phases, PublishingPhases
  <2> QED BY <2>1
<1>3. h \in Receiving /\ h \in DOMAIN epochs /\ WholeBundle(epochs[h]) /\ reserved \subseteq Receiving
  BY <1>1, GroundFacts DEF WorkInv, OpeningPhases, PublishingPhases
<1>4. /\ \A k \in DOMAIN epochs : SoundEpoch(epochs[k])'
      /\ Receiving' = Receiving
  BY <1>1, EpochsStay
<1>5. WholeBundle(epochs[work.key])'
  BY <1>1, <1>2, <1>3 DEF WholeBundle, BundleOf
<1>6. BundleOf(epochs[work.key])' = BundleOf(epochs[work.key])
  BY <1>1, <1>2 DEF BundleOf
<1>7. ReceiverInv'
  BY <1>4, GroundFacts DEF ReceiverInv
<1>8. WorkInv'
  <2>1. /\ work'.phase \notin OpeningPhases \cup ClosingPhases
        /\ work'.key \in Receiving' /\ reserved' \subseteq Receiving'
    BY <1>2, <1>3, <1>4 DEF OpeningPhases, PublishingPhases, ClosingPhases
  <2> QED BY <1>2, <1>5, <1>6, <2>1
          DEF WorkInv, OpeningPhases, PublishingPhases, ClosingPhases
<1>9. GroundInv'
  BY <1>4, <1>7, <1>8 DEF GroundInv
<1> QED BY <1>2, <1>9, GroundFacts, HandlerMoves

\* The product of the bundle that is being published.
LEMMA PublishedBundle ==
    ASSUME TransferInv, work.phase \in PublishingPhases
    PROVE  /\ work.key \in Receiving /\ work.key \in DOMAIN epochs
           /\ WholeBundle(epochs[work.key])
           /\ ProductOf(work.key) = BundleOf(epochs[work.key])
           /\ BundleOf(epochs[work.key]) \in Products
           /\ products[BundleOf(epochs[work.key])] # "NONE"
           /\ work.phase \in {"staged", "renamed", "published"} =>
                 products[BundleOf(epochs[work.key])] \in {"VERIFIED", "PUBLISHED"}
           /\ work.phase = "published" => products[BundleOf(epochs[work.key])] = "PUBLISHED"
           /\ work.phase = "staged" => BundleOf(epochs[work.key]) \notin DOMAIN final
           /\ work.phase \in {"renamed", "published", "recorded"} =>
                 BundleOf(epochs[work.key]) \in DOMAIN final
PROOF
<1>1. WorkInv /\ Receiving \subseteq DOMAIN epochs
      /\ \A k \in DOMAIN epochs : SoundEpoch(epochs[k]) /\ BundleOf(epochs[k]) \in Products
  BY GroundFacts
<1>2. work.key \in Receiving /\ work.key \in DOMAIN epochs /\ WholeBundle(epochs[work.key])
  BY <1>1 DEF WorkInv
<1>3. products[BundleOf(epochs[work.key])] # "NONE" /\ BundleOf(epochs[work.key]) \in Products
  BY <1>1, <1>2 DEF SoundEpoch
<1> QED BY <1>1, <1>2, <1>3 DEF WorkInv, ProductOf, BundleOf

LEMMA ExistingStep ==
    ASSUME TransferInv, PublishExisting
    PROVE  TransferInv'
PROOF
<1>1. /\ InWork("verified") /\ work' = [work EXCEPT !.phase = "recorded"]
      /\ UNCHANGED <<epochs, reserved, parts, products, final, artifacts>>
      /\ ProductOf(work.key) \in DOMAIN final
  BY DEF PublishExisting, storeVars
<1>2. work.phase = "verified"
  BY <1>1, Handling
<1>3. StoreInv'
  BY <1>1, GroundFacts DEF StoreInv, PublishedIsWhole
<1> QED BY <1>1, <1>2, <1>3, GroundFacts, PublishedBundle, PublishMoves DEF PublishingPhases

LEMMA VerifiedStep ==
    ASSUME TransferInv, MarkVerified
    PROVE  TransferInv'
PROOF
<1> PICK p : p = BundleOf(epochs[work.key])
  OBVIOUS
<1>1. work.phase = "verified"
  BY DEF MarkVerified, InWork
<1>2. p \in Products /\ ProductOf(work.key) = p /\ products[p] # "NONE"
  BY <1>1, PublishedBundle DEF PublishingPhases
<1>3. /\ InWork("verified") /\ work' = [work EXCEPT !.phase = "staged"]
      /\ UNCHANGED <<epochs, reserved, parts, final, artifacts>>
      /\ p \notin DOMAIN final
      /\ products' = [products EXCEPT ![p] = VerifiedRow(@)]
  BY <1>2 DEF MarkVerified
<1>4. /\ products' \in [Products -> ProductStates] /\ products'[p] \in {"VERIFIED", "PUBLISHED"}
      /\ products'[p] = "PUBLISHED" => products[p] = "PUBLISHED"
      /\ products[p] \in {"VERIFIED", "PUBLISHED"} => products'[p] = products[p]
      /\ \A q \in Products : q # p => products'[q] = products[q]
  <2>1. products \in [Products -> ProductStates]
    BY GroundFacts
  <2>2. products'[p] = VerifiedRow(products[p]) /\ \A q \in Products : q # p => products'[q] = products[q]
    BY <1>2, <1>3, <2>1
  <2>3. /\ VerifiedRow(products[p]) \in {"VERIFIED", "PUBLISHED"}
        /\ VerifiedRow(products[p]) = "PUBLISHED" => products[p] = "PUBLISHED"
        /\ products[p] \in {"VERIFIED", "PUBLISHED"} => VerifiedRow(products[p]) = products[p]
    BY <1>2, <2>1 DEF VerifiedRow, ProductStates
  <2>4. products' \in [Products -> ProductStates]
    BY <1>3, <2>1, <2>3 DEF ProductStates
  <2> QED BY <2>2, <2>3, <2>4
<1>5. StoreInv'
  BY <1>3, <1>4, GroundFacts DEF StoreInv, PublishedIsWhole
<1> QED BY <1>1, <1>2, <1>3, <1>4, <1>5, GroundFacts, PublishMoves DEF PublishingPhases

LEMMA RenameStep ==
    ASSUME TransferInv, RenameStaged
    PROVE  TransferInv'
PROOF
<1> PICK p : p = BundleOf(epochs[work.key])
  OBVIOUS
<1> PICK got : got = epochs[work.key].got
  OBVIOUS
<1>1. work.phase = "staged"
  BY DEF RenameStaged, InWork
<1>2. /\ p \in Products /\ ProductOf(work.key) = p /\ p \notin DOMAIN final
      /\ products[p] \in {"VERIFIED", "PUBLISHED"}
      /\ DOMAIN got = 1 .. Size[p] /\ \A c \in DOMAIN got : rows[got[c]].product = p
  BY <1>1, PublishedBundle DEF PublishingPhases, WholeBundle
<1>3. /\ InWork("staged") /\ work' = [work EXCEPT !.phase = "renamed"]
      /\ UNCHANGED <<epochs, reserved, parts, products, artifacts>>
      /\ final' = Put(final, p, [c \in DOMAIN got |-> rows[got[c]].product])
  BY <1>2 DEF RenameStaged
<1>4. [c \in DOMAIN got |-> rows[got[c]].product] = [c \in 1 .. Size[p] |-> p]
  BY <1>2
<1>5. /\ DOMAIN final' = DOMAIN final \cup {p}
      /\ final'[p] = [c \in 1 .. Size[p] |-> p]
      /\ \A q \in DOMAIN final : final'[q] = final[q]
  BY <1>2, <1>3, <1>4 DEF Put
<1>6. StoreInv'
  BY <1>3, <1>5, GroundFacts DEF StoreInv, PublishedIsWhole
<1> QED BY <1>1, <1>2, <1>3, <1>5, <1>6, GroundFacts, PublishMoves DEF PublishingPhases

LEMMA PublishedStep ==
    ASSUME TransferInv, MarkPublished
    PROVE  TransferInv'
PROOF
<1> PICK p : p = BundleOf(epochs[work.key])
  OBVIOUS
<1>1. work.phase = "renamed"
  BY DEF MarkPublished, InWork
<1>2. /\ p \in Products /\ ProductOf(work.key) = p /\ p \in DOMAIN final
      /\ products[p] \in {"VERIFIED", "PUBLISHED"}
  BY <1>1, PublishedBundle DEF PublishingPhases
<1>3. /\ InWork("renamed") /\ work' = [work EXCEPT !.phase = "published"]
      /\ UNCHANGED <<epochs, reserved, parts, final, artifacts>>
      /\ products' = [products EXCEPT ![p] = IF @ = "VERIFIED" THEN "PUBLISHED" ELSE @]
  BY <1>2 DEF MarkPublished
<1>4. /\ products' \in [Products -> ProductStates] /\ products'[p] = "PUBLISHED"
      /\ \A q \in Products : q # p => products'[q] = products[q]
  BY <1>2, <1>3, GroundFacts DEF ProductStates
<1>5. StoreInv'
  BY <1>2, <1>3, <1>4, GroundFacts DEF StoreInv, PublishedIsWhole
<1> QED BY <1>1, <1>2, <1>3, <1>4, <1>5, GroundFacts, PublishMoves DEF PublishingPhases

LEMMA ArtifactsStep ==
    ASSUME TransferInv, RecordArtifacts
    PROVE  TransferInv'
PROOF
<1> PICK p : p = BundleOf(epochs[work.key])
  OBVIOUS
<1>1. work.phase = "published"
  BY DEF RecordArtifacts, InWork
<1>2. /\ p \in Products /\ ProductOf(work.key) = p /\ p \in DOMAIN final
      /\ products[p] = "PUBLISHED"
  BY <1>1, PublishedBundle DEF PublishingPhases
<1>3. /\ InWork("published") /\ work' = [work EXCEPT !.phase = "recorded"]
      /\ UNCHANGED <<epochs, reserved, parts, products, final>>
      /\ artifacts' = artifacts \cup {p}
  BY <1>2 DEF RecordArtifacts
<1>4. artifacts' \subseteq Products
  BY <1>2, <1>3, GroundFacts
<1>5. StoreInv'
  BY <1>2, <1>3, GroundFacts DEF StoreInv, PublishedIsWhole
<1> QED BY <1>1, <1>2, <1>3, <1>4, <1>5, GroundFacts, PublishMoves DEF PublishingPhases

\* The epoch is settled: its storage and its part file are given back next.
LEMMA SettleStep ==
    ASSUME TransferInv, PublishFails \/ PersistVerified
    PROVE  TransferInv'
PROOF
<1> PICK h : h = work.key
  OBVIOUS
<1> PICK p : p = work.phase
  OBVIOUS
<1>1. /\ InWork(p) /\ p \in PublishingPhases
      /\ work' = [work EXCEPT !.phase = "persisted"]
      /\ UNCHANGED <<reserved, parts, products, final, artifacts>>
  BY DEF PublishFails, PersistVerified, InWork, PublishingPhases, storeVars
<1>2. h \in Receiving /\ h \in DOMAIN epochs /\ rows' = rows /\ Transfers' = Transfers
      /\ h \in Keys /\ reserved \subseteq Receiving /\ \A k \in Receiving : k = h
  BY <1>1, Handling, PublishedBundle, GroundFacts
     DEF WorkInv, OpeningPhases, PublishingPhases, ReceiverInv
<1>3. \E state \in EpochStates \ {"RECEIVING"} :
         /\ state = "VERIFIED" => BundleOf(epochs[h]) \in DOMAIN final
         /\ Terminate(h, state)
  <2>1. CASE PublishFails
    BY <2>1 DEF PublishFails, EpochStates
  <2>2. CASE PersistVerified
    <3>1. Terminate(h, "VERIFIED") /\ work.phase = "recorded"
      BY <2>2 DEF PersistVerified, InWork
    <3> QED BY <3>1, PublishedBundle DEF EpochStates, PublishingPhases
  <2> QED BY <2>1, <2>2
<1>4. /\ DOMAIN epochs' = DOMAIN epochs /\ Receiving' = {}
      /\ \A j \in DOMAIN epochs' : epochs'[j].state \in EpochStates
      /\ \A j \in DOMAIN epochs' : SoundEpoch(epochs[j])'
  BY <1>1, <1>2, <1>3, Terminated
<1>5. /\ work' \in [phase : Phases, key : Keys, transfer : Nat]
      /\ work'.phase = "persisted" /\ work'.key = h
  BY <1>1, GroundFacts DEF Phases
<1>6. ReceiverInv'
  BY <1>4 DEF ReceiverInv
<1>7. WorkInv'
  BY <1>1, <1>2, <1>4, <1>5 DEF WorkInv, OpeningPhases, PublishingPhases, ClosingPhases
<1>8. StoreInv'
  BY <1>1, GroundFacts DEF StoreInv, PublishedIsWhole
<1>9. GroundInv'
  BY <1>4, <1>6, <1>7, <1>8 DEF GroundInv
<1> QED BY <1>1, <1>4, <1>5, <1>9, GroundFacts, HandlerMoves

\* The storage and the part file of a settled epoch.
LEMMA ReleaseStep ==
    ASSUME TransferInv, ReleaseState \/ RemovePart
    PROVE  TransferInv'
PROOF
<1> PICK h : h = work.key
  OBVIOUS
<1> PICK p : p = work.phase
  OBVIOUS
<1>1. /\ InWork(p) /\ p \in ClosingPhases
      /\ UNCHANGED <<epochs, products, final, artifacts>>
      /\ \/ p = "persisted" /\ work' = [work EXCEPT !.phase = "released"]
            /\ reserved' = reserved \ {h} /\ parts' = parts
         \/ p = "released" /\ work' = NoWork /\ reserved' = reserved /\ parts' = parts \ {h}
  BY DEF ReleaseState, RemovePart, InWork, ClosingPhases, storeVars
<1>2. rows' = rows /\ Transfers' = Transfers
  BY <1>1, Handling
<1>3. /\ h \in DOMAIN epochs \ Receiving /\ reserved' \subseteq Receiving
      /\ Receiving \subseteq parts'
  BY <1>1, GroundFacts DEF WorkInv, OpeningPhases, ClosingPhases, ReceiverInv
<1>4. /\ \A k \in DOMAIN epochs : SoundEpoch(epochs[k])'
      /\ Receiving' = Receiving
  BY <1>1, <1>2, EpochsStay
<1>5. /\ work' \in [phase : Phases, key : Keys, transfer : Nat]
      /\ work'.phase \in {"released", "idle"} /\ (work'.phase = "released" => work'.key = h)
  BY <1>1, GroundFacts DEF NoWork, Phases, Keys
<1>6. ReceiverInv'
  BY <1>3, <1>4, GroundFacts DEF ReceiverInv
<1>7. WorkInv'
  BY <1>1, <1>3, <1>4, <1>5 DEF WorkInv, OpeningPhases, PublishingPhases, ClosingPhases
<1>8. StoreInv'
  BY <1>1, GroundFacts DEF StoreInv, PublishedIsWhole
<1>9. GroundInv'
  BY <1>1, <1>4, <1>6, <1>7, <1>8 DEF GroundInv
<1> QED BY <1>1, <1>5, <1>9, GroundFacts, HandlerMoves

\* The ground restarts: an epoch goes on as long as its part file and its
\* reservation do.
LEMMA GroundRestartStep ==
    ASSUME TransferInv, NEW outage \in Outages, GroundRestart(outage)
    PROVE  TransferInv'
PROOF
<1>1. /\ gsession' = session /\ inbox' = <<>> /\ work' = NoWork
      /\ epochs' = [k \in DOMAIN epochs |-> ReloadedEpoch(k, outage)]
      /\ reserved' = {k \in reserved : outage = "short" /\ k \in Receiving}
      /\ parts' = {k \in parts : outage = "day" => k \notin Receiving}
      /\ UNCHANGED <<satelliteVars, session, attempt, nextEpoch>>
      /\ UNCHANGED <<products, final, artifacts>>
  BY DEF GroundRestart, storeVars
<1>2. rows' = rows /\ Transfers' = Transfers /\ session \in Nat
  BY <1>1, SenderTypes DEF satelliteVars, Transfers
<1>3. /\ Receiving \subseteq parts /\ Receiving \subseteq DOMAIN epochs
      /\ \A j, k \in Receiving : j = k
  BY GroundFacts DEF ReceiverInv
<1>4. DOMAIN epochs' = DOMAIN epochs
      /\ \A k \in DOMAIN epochs :
            epochs'[k] = IF k \in Receiving /\ outage = "day" THEN Settled(k, "CANCELED") ELSE epochs[k]
  BY <1>1, <1>3 DEF ReloadedEpoch, Receiving
<1>5. \A k \in DOMAIN epochs :
         /\ Settled(k, "CANCELED").state = "CANCELED"
         /\ Settled(k, "CANCELED").transfer = epochs[k].transfer
         /\ DOMAIN Settled(k, "CANCELED").got = {}
  BY DEF Settled, NoChunks
<1>6. ASSUME NEW k \in DOMAIN epochs PROVE SoundEpoch(epochs[k])'
  <2>1. SoundEpoch(epochs[k])
    BY GroundFacts
  <2>2. CASE epochs'[k] = epochs[k]
    BY <1>1, <1>2, <2>1, <2>2 DEF SoundEpoch, BundleOf
  <2>3. CASE epochs'[k] = Settled(k, "CANCELED")
    BY <1>1, <1>2, <1>5, <2>1, <2>3 DEF SoundEpoch, BundleOf
  <2> QED BY <1>4, <2>2, <2>3
<1>7. Receiving' = {k \in Receiving : outage # "day"}
  BY <1>4, <1>5 DEF Receiving
<1>8. ReceiverInv'
  BY <1>1, <1>3, <1>7 DEF ReceiverInv
<1>9. WorkInv'
  <2>1. reserved' \subseteq Receiving'
    BY <1>1, <1>7
  <2> QED BY <1>1, <2>1 DEF WorkInv, NoWork, OpeningPhases, PublishingPhases, ClosingPhases
<1>10. StoreInv'
  BY <1>1, GroundFacts DEF StoreInv, PublishedIsWhole
<1>11. GroundInv'
  BY <1>4, <1>6, <1>8, <1>9, <1>10 DEF GroundInv
<1>12. \A k \in DOMAIN epochs' : epochs'[k].state \in EpochStates
  BY <1>4, <1>5, GroundFacts DEF EpochStates
<1>13. work' \in [phase : Phases, key : Keys, transfer : Nat]
  BY <1>1 DEF NoWork, Phases, Keys
<1> QED BY <1>1, <1>2, <1>11, <1>12, <1>13, GroundFacts, GroundMoves

-----------------------------------------------------------------------------
LEMMA InitialState == Init => TransferInv
PROOF
<1> SUFFICES ASSUME Init PROVE TransferInv
  OBVIOUS
<1>1. /\ rows = <<>> /\ active = NoTransfer /\ session = 1 /\ attempt = NoAttempt /\ nextEpoch = 1
      /\ inbox = <<>> /\ gsession = 1 /\ epochs = [k \in {} |-> 0] /\ reserved = {} /\ parts = {}
      /\ products = [p \in Products |-> "NONE"] /\ final = [p \in {} |-> 0] /\ artifacts = {}
      /\ work = NoWork
  BY DEF Init
<1>2. DOMAIN epochs = {} /\ DOMAIN final = {} /\ Receiving = {}
  BY <1>1 DEF Receiving
<1>3. TypeOK
  <2>1. products \in [Products -> ProductStates]
    BY <1>1 DEF ProductStates
  <2>2. work \in [phase : Phases, key : Keys, transfer : Nat]
    BY <1>1 DEF NoWork, Phases, Keys
  <2>3. active \in [id : Nat, next : Nat, sent : BOOLEAN, session : Nat]
        /\ attempt \in [epoch : Nat, state : {"CLOSED", "STARTED", "DRAINING"}]
    BY <1>1 DEF NoTransfer, NoAttempt
  <2> QED BY <1>1, <1>2, <2>1, <2>2, <2>3 DEF TypeOK
<1>4. SenderInv
  BY <1>1 DEF SenderInv
<1>5. GroundInv
  BY <1>1, <1>2 DEF GroundInv, ReceiverInv, WorkInv, StoreInv, PublishedIsWhole, NoWork,
                    OpeningPhases, PublishingPhases, ClosingPhases
<1> QED BY <1>3, <1>4, <1>5 DEF TransferInv

LEMMA StutterStep ==
    ASSUME TransferInv, UNCHANGED vars
    PROVE  TransferInv'
PROOF
<1>1. UNCHANGED <<satelliteVars, linkVars, groundVars>>
  BY DEF vars
<1> QED BY <1>1, SenderTypes, GroundStays DEF linkVars, groundVars, storeVars

LEMMA EveryStep == TransferInv /\ [Next]_vars => TransferInv'
PROOF
<1> SUFFICES ASSUME TransferInv, [Next]_vars PROVE TransferInv'
  OBVIOUS
<1>1. ASSUME NEW p \in Products, AdmitDownlink(p) \/ AdmitDownlinkRaises(p)
      PROVE  TransferInv'
  BY <1>1, AdmitStep
<1>2. CASE SatelliteSends \/ SendFails \/ NextFrameFails
  BY <1>2, SendingSteps, TransmitStep DEF SatelliteSends
<1>3. CASE GroundWorks
  BY <1>3, DropStep, StartStep, DataStep, EndStep, CreateStep, PersistStep, ExistingStep,
     VerifiedStep, RenameStep, PublishedStep, ArtifactsStep, SettleStep, ReleaseStep
     DEF GroundWorks
<1>4. CASE StartFails \/ PublishFails \/ RebindSession
  BY <1>4, StartFailsStep, SettleStep, RebindStep
<1>5. CASE SatelliteRestart \/ LinkRestart
  BY <1>5, RestartSteps
<1>6. ASSUME NEW outage \in Outages, GroundRestart(outage) PROVE TransferInv'
  BY <1>6, GroundRestartStep
<1>7. CASE UNCHANGED vars
  BY <1>7, StutterStep
<1> QED BY <1>1, <1>2, <1>3, <1>4, <1>5, <1>6, <1>7 DEF Next

\* The inductive invariant, for all three processes and wherever they are
\* stopped (FileDownlinkCoordinator, FileEpochManager, FileReassembler,
\* ProductStore).
THEOREM TransferInvariant == Spec => []TransferInv
PROOF
<1> QED BY InitialState, EveryStep, PTL DEF Spec

\* Every variable has its type.
THEOREM TransferTypes == Spec => []TypeOK
PROOF
<1>1. TransferInv => TypeOK
  BY DEF TransferInv
<1> QED BY <1>1, TransferInvariant, PTL

\* A published directory holds the whole bundle of its product
\* (ProductStore.publish after FileReassembler's coverage and checksums).
THEOREM WholeProducts == Spec => []PublishedIsWhole
PROOF
<1>1. TransferInv => PublishedIsWhole
  BY DEF TransferInv, GroundInv, StoreInv
<1> QED BY <1>1, TransferInvariant, PTL

\* PUBLISHED rows, artifact rows and VERIFIED epochs have their directory
\* (the order of publish: rename, mark_product_published, record_artifacts).
THEOREM BackedRecords == Spec => []RecordsAreBacked
PROOF
<1>1. ASSUME TransferInv PROVE RecordsAreBacked
  <2>1. \A k \in DOMAIN epochs : epochs[k].state = "VERIFIED" => ProductOf(k) \in DOMAIN final
    BY <1>1, GroundFacts DEF SoundEpoch, ProductOf, BundleOf
  <2> QED BY <1>1, <2>1, GroundFacts DEF RecordsAreBacked, StoreInv
<1> QED BY <1>1, TransferInvariant, PTL

\* One epoch is received at a time, with its part file, and storage is
\* reserved for nothing else (TRANSFER_BUSY, _release_state).
THEOREM SingleReceiver == Spec => []OneReceiver
PROOF
<1>1. ASSUME TransferInv PROVE OneReceiver
  <2>1. ReceiverInv /\ WorkInv
    BY <1>1, GroundFacts
  <2>2. Cardinality(Receiving) <= 1
    <3>1. CASE Receiving = {}
      BY <3>1, FS_EmptySet
    <3>2. CASE Receiving # {}
      <4>1. PICK k : Receiving = {k}
        BY <2>1, <3>2 DEF ReceiverInv
      <4> QED BY <4>1, FS_Singleton
    <3> QED BY <3>1, <3>2
  <2>3. reserved \subseteq Receiving \cup {work.key}
    BY <2>1 DEF WorkInv, OpeningPhases
  <2> QED BY <2>1, <2>2, <2>3 DEF OneReceiver, ReceiverInv
<1> QED BY <1>1, TransferInvariant, PTL

-----------------------------------------------------------------------------
(***************************************************************************)
(* What no step takes back.                                                *)
(***************************************************************************)
\* A transfer that is closed keeps its row.
LEMMA RowsSettled ==
    ASSUME TransferInv, Next
    PROVE  \A t \in DOMAIN rows : Terminal(rows[t].state) => rows'[t] = rows[t]
PROOF
<1> SUFFICES ASSUME NEW t \in DOMAIN rows, Terminal(rows[t].state) PROVE rows'[t] = rows[t]
  OBVIOUS
<1>1. rows \in Seq([product : Products,
                    state : OpenTransferStates \cup {"SEND_COMPLETED", "SEND_FAILED"}])
      /\ Len(rows) \in Nat /\ t \in 1 .. Len(rows)
  BY RowTypes DEF TransferInv, TypeOK, Transfers
<1>2. rows[t].state \notin OpenTransferStates
  BY DEF Terminal
<1>3. CASE rows' = rows
  BY <1>3
<1>4. ASSUME NEW r, rows' = Append(rows, r) PROVE rows'[t] = rows[t]
  BY <1>1, <1>4
<1>5. ASSUME NEW state, active # NoTransfer, CloseTransfer(state) PROVE rows'[t] = rows[t]
  <2>1. t # active.id
    BY <1>2, <1>5, SenderTypes DEF OpenTransferStates
  <2> QED BY <1>5, <2>1 DEF CloseTransfer
<1>6. CASE SatelliteRestart
  BY <1>2, <1>6 DEF SatelliteRestart
<1>7. CASE \/ \E p \in Products : AdmitDownlink(p) \/ AdmitDownlinkRaises(p)
           \/ SendFails \/ NextFrameFails \/ SatelliteSends
  BY <1>3, <1>4, <1>5, <1>7
     DEF AdmitDownlink, AdmitDownlinkRaises, SendFails, NextFrameFails, SatelliteSends,
         TransmitFrame, CompleteFrame
<1>8. CASE GroundWorks \/ StartFails \/ PublishFails \/ RebindSession \/ LinkRestart
           \/ \E outage \in Outages : GroundRestart(outage)
  BY <1>3, <1>8
     DEF GroundWorks, DropForeignFrame, ReceiveStart, ReceiveData, ReceiveEnd, CreatePart,
         PersistStart, PublishExisting, MarkVerified, RenameStaged, MarkPublished, RecordArtifacts,
         PersistVerified, ReleaseState, RemovePart, StartFails, PublishFails, RebindSession,
         LinkRestart, GroundRestart, AtHead, TakeFrame, InWork, satelliteVars
<1> QED BY <1>6, <1>7, <1>8 DEF Next

\* An epoch that is settled keeps its row.
LEMMA EpochsSettled ==
    ASSUME TransferInv, Next
    PROVE  \A k \in DOMAIN epochs : Terminal(epochs[k].state) => epochs'[k] = epochs[k]
PROOF
<1> SUFFICES ASSUME NEW k \in DOMAIN epochs, Terminal(epochs[k].state) PROVE epochs'[k] = epochs[k]
  OBVIOUS
<1>1. k \notin Receiving /\ epochs[k].state # "RECEIVING"
  BY DEF Terminal, Receiving
<1>2. CASE epochs' = epochs
  BY <1>2
<1>3. ASSUME NEW h \in Receiving, NEW e, epochs' = [epochs EXCEPT ![h] = e]
      PROVE  epochs'[k] = epochs[k]
  BY <1>1, <1>3
<1>4. ASSUME NEW state, NEW h \in Receiving, Terminate(h, state) PROVE epochs'[k] = epochs[k]
  BY <1>1, <1>4 DEF Terminate
<1>5. CASE ReceiveData
  BY <1>2, <1>3, <1>5 DEF ReceiveData, DataAccepted
<1>6. CASE ReceiveEnd
  BY <1>2, <1>4, <1>6 DEF ReceiveEnd, EndAccepted
<1>7. CASE PublishFails \/ PersistVerified
  <2>1. work.key \in Receiving
    BY <1>7, PublishedBundle DEF PublishFails, PersistVerified, InWork, PublishingPhases
  <2> QED BY <1>4, <1>7, <2>1 DEF PublishFails, PersistVerified
<1>8. CASE PersistStart
  <2>1. work.key \notin DOMAIN epochs
    BY <1>8, GroundFacts DEF PersistStart, InWork, WorkInv, OpeningPhases
  <2> QED BY <1>8, <2>1 DEF PersistStart, Put
<1>9. ASSUME NEW outage \in Outages, GroundRestart(outage) PROVE epochs'[k] = epochs[k]
  BY <1>1, <1>9 DEF GroundRestart, ReloadedEpoch
<1>10. CASE \/ DropForeignFrame \/ ReceiveStart \/ CreatePart \/ PublishExisting \/ MarkVerified
            \/ RenameStaged \/ MarkPublished \/ RecordArtifacts \/ ReleaseState \/ RemovePart
            \/ StartFails \/ RebindSession
  BY <1>2, <1>10
     DEF DropForeignFrame, ReceiveStart, CreatePart, PublishExisting, MarkVerified, RenameStaged,
         MarkPublished, RecordArtifacts, ReleaseState, RemovePart, StartFails, RebindSession
<1>11. CASE \/ \E p \in Products : AdmitDownlink(p) \/ AdmitDownlinkRaises(p)
            \/ SatelliteSends \/ SendFails \/ NextFrameFails \/ SatelliteRestart \/ LinkRestart
  BY <1>2, <1>11
     DEF AdmitDownlink, AdmitDownlinkRaises, SatelliteSends, TransmitFrame, CompleteFrame,
         SendFails, NextFrameFails, SatelliteRestart, LinkRestart, groundVars
<1> QED BY <1>5, <1>6, <1>7, <1>8, <1>9, <1>10, <1>11 DEF Next, GroundWorks

\* A product's row only advances.
LEMMA ProductsAdvance ==
    ASSUME TransferInv, Next
    PROVE  \A p \in Products : ProductRank(products'[p]) >= ProductRank(products[p])
PROOF
<1> SUFFICES ASSUME NEW p \in Products
             PROVE  ProductRank(products'[p]) >= ProductRank(products[p])
  OBVIOUS
<1>1. products \in [Products -> ProductStates]
  BY GroundFacts
<1>2. /\ ProductRank("NONE") = 0 /\ ProductRank("RECEIVING") = 1
      /\ ProductRank("VERIFIED") = 2 /\ ProductRank("PUBLISHED") = 3
  BY DEF ProductRank
<1>3. ProductRank(products[p]) \in 0 .. 3
  BY <1>1, <1>2 DEF ProductStates
<1>4. CASE products'[p] = products[p]
  BY <1>3, <1>4
<1>5. CASE PersistStart
  <2>1. \/ products'[p] = products[p]
        \/ products[p] = "NONE" /\ products'[p] = "RECEIVING"
    BY <1>1, <1>5 DEF PersistStart
  <2> QED BY <1>2, <1>4, <2>1
<1>6. CASE MarkVerified
  <2>1. \/ products'[p] = products[p]
        \/ products[p] \in {"RECEIVING", "VERIFIED"} /\ products'[p] = "VERIFIED"
    BY <1>1, <1>6 DEF MarkVerified, VerifiedRow
  <2> QED BY <1>2, <1>4, <2>1
<1>7. CASE MarkPublished
  <2>1. \/ products'[p] = products[p]
        \/ products[p] = "VERIFIED" /\ products'[p] = "PUBLISHED"
    BY <1>1, <1>7 DEF MarkPublished
  <2> QED BY <1>2, <1>4, <2>1
<1>8. CASE \/ DropForeignFrame \/ ReceiveStart \/ ReceiveData \/ ReceiveEnd \/ CreatePart
           \/ PublishExisting \/ RenameStaged \/ RecordArtifacts \/ PersistVerified
           \/ ReleaseState \/ RemovePart \/ StartFails \/ PublishFails \/ RebindSession
           \/ \E outage \in Outages : GroundRestart(outage)
  BY <1>4, <1>8
     DEF DropForeignFrame, ReceiveStart, ReceiveData, ReceiveEnd, AtHead, TakeFrame, CreatePart,
         PublishExisting, RenameStaged, RecordArtifacts, PersistVerified, ReleaseState, RemovePart,
         StartFails, PublishFails, RebindSession, GroundRestart, storeVars
<1>9. CASE \/ \E q \in Products : AdmitDownlink(q) \/ AdmitDownlinkRaises(q)
           \/ SatelliteSends \/ SendFails \/ NextFrameFails \/ SatelliteRestart \/ LinkRestart
  BY <1>4, <1>9
     DEF AdmitDownlink, AdmitDownlinkRaises, SatelliteSends, TransmitFrame, CompleteFrame,
         SendFails, NextFrameFails, SatelliteRestart, LinkRestart, groundVars
<1> QED BY <1>5, <1>6, <1>7, <1>8, <1>9 DEF Next, GroundWorks

\* A product directory stays as it was renamed into place.
LEMMA DirectoriesStay ==
    ASSUME TransferInv, Next
    PROVE  \A p \in DOMAIN final : p \in DOMAIN final' /\ final'[p] = final[p]
PROOF
<1>1. CASE final' = final
  BY <1>1
<1>2. CASE RenameStaged
  <2>1. ProductOf(work.key) \notin DOMAIN final
    BY <1>2, PublishedBundle DEF RenameStaged, InWork, PublishingPhases
  <2> QED BY <1>2, <2>1 DEF RenameStaged, Put
<1>3. CASE \/ DropForeignFrame \/ ReceiveStart \/ ReceiveData \/ ReceiveEnd \/ CreatePart
           \/ PersistStart \/ PublishExisting \/ MarkVerified \/ MarkPublished \/ RecordArtifacts
           \/ PersistVerified \/ ReleaseState \/ RemovePart \/ StartFails \/ PublishFails
           \/ RebindSession \/ \E outage \in Outages : GroundRestart(outage)
  BY <1>1, <1>3
     DEF DropForeignFrame, ReceiveStart, ReceiveData, ReceiveEnd, AtHead, TakeFrame, CreatePart,
         PersistStart, PublishExisting, MarkVerified, MarkPublished, RecordArtifacts,
         PersistVerified, ReleaseState, RemovePart, StartFails, PublishFails, RebindSession,
         GroundRestart, storeVars
<1>4. CASE \/ \E q \in Products : AdmitDownlink(q) \/ AdmitDownlinkRaises(q)
           \/ SatelliteSends \/ SendFails \/ NextFrameFails \/ SatelliteRestart \/ LinkRestart
  BY <1>1, <1>4
     DEF AdmitDownlink, AdmitDownlinkRaises, SatelliteSends, TransmitFrame, CompleteFrame,
         SendFails, NextFrameFails, SatelliteRestart, LinkRestart, groundVars
<1> QED BY <1>2, <1>3, <1>4 DEF Next, GroundWorks

\* No frame, failure or restart takes back a settled transfer or epoch, a
\* product's row or a product directory (the guarded UPDATEs of product_store
\* and reassembly, and os.replace into a directory that is not there).
THEOREM Settlement == Spec => NothingUndone
PROOF
<1> DEFINE Kept == /\ \A t \in DOMAIN rows : Terminal(rows[t].state) => rows'[t] = rows[t]
                   /\ \A k \in DOMAIN epochs : Terminal(epochs[k].state) => epochs'[k] = epochs[k]
                   /\ \A p \in Products : ProductRank(products'[p]) >= ProductRank(products[p])
                   /\ \A p \in DOMAIN final : p \in DOMAIN final' /\ final'[p] = final[p]
<1>1. TransferInv /\ [Next]_vars => [Kept]_vars
  BY RowsSettled, EpochsSettled, ProductsAdvance, DirectoriesStay
<1> QED BY <1>1, TransferInvariant, PTL DEF Spec, NothingUndone

-----------------------------------------------------------------------------
(***************************************************************************)
(* The refinement of ProductRelease: what a step does to the journal's     *)
(* products, the ground's rows and directories is at most one of its       *)
(* actions.                                                                *)
(***************************************************************************)
\* At most one action of ProductRelease happens.
Advances == [Release!Next]_<<RequestedProducts, products, final, artifacts>>

\* A transfer keeps its product, so what was requested stays requested.
LEMMA RequestsOfRows ==
    ASSUME TransferInv
    PROVE  /\ \A t \in Transfers : rows[t].product \in RequestedProducts
           /\ \A q \in RequestedProducts : \E t \in Transfers : q = rows[t].product
BY RowTypes DEF TransferInv, RequestedProducts

\* An admitted command requests its product.
LEMMA AdmitReleases ==
    ASSUME TransferInv, NEW p \in Products, AdmitDownlink(p) \/ AdmitDownlinkRaises(p)
    PROVE  Advances
PROOF
<1>1. PICK state : rows' = Append(rows, [product |-> p, state |-> state])
  BY DEF AdmitDownlink, AdmitDownlinkRaises
<1>2. UNCHANGED <<products, final, artifacts>>
  BY DEF AdmitDownlink, AdmitDownlinkRaises, groundVars, storeVars
<1>3. rows \in Seq([product : Products,
                    state : OpenTransferStates \cup {"SEND_COMPLETED", "SEND_FAILED"}])
      /\ Len(rows) \in Nat /\ DOMAIN rows = 1 .. Len(rows)
  BY RowTypes DEF TransferInv, TypeOK, Transfers
<1>4. /\ DOMAIN rows' = 1 .. Len(rows) + 1
      /\ rows'[Len(rows) + 1].product = p
      /\ \A t \in 1 .. Len(rows) : rows'[t] = rows[t]
  BY <1>1, <1>3
<1>5. RequestedProducts' = RequestedProducts \cup {p}
  <2>1. ASSUME NEW q \in RequestedProducts' PROVE q \in RequestedProducts \cup {p}
    <3>1. PICK t \in 1 .. Len(rows) + 1 : q = rows'[t].product
      BY <1>4 DEF RequestedProducts
    <3>2. t = Len(rows) + 1 \/ t \in 1 .. Len(rows)
      BY <1>3
    <3> QED BY <1>3, <1>4, <3>1, <3>2 DEF RequestedProducts
  <2>2. ASSUME NEW q \in RequestedProducts PROVE q \in RequestedProducts'
    <3>1. PICK t \in 1 .. Len(rows) : q = rows[t].product
      BY <1>3 DEF RequestedProducts
    <3>2. t \in 1 .. Len(rows) + 1
      BY <1>3
    <3> QED BY <1>4, <3>1, <3>2 DEF RequestedProducts
  <2>3. p \in RequestedProducts'
    <3>1. Len(rows) + 1 \in 1 .. Len(rows) + 1
      BY <1>3
    <3> QED BY <1>4, <3>1 DEF RequestedProducts
  <2> QED BY <2>1, <2>2, <2>3
<1> QED BY <1>2, <1>5 DEF Advances, Release!Next, Release!Request

\* A step that moves no product and no row's product is a stutter.
LEMMA NothingReleased ==
    ASSUME RequestedProducts' = RequestedProducts, UNCHANGED <<products, final, artifacts>>
    PROVE  Advances
BY DEF Advances

\* Rows that change their state only name the same products.
LEMMA RequestsStay ==
    ASSUME DOMAIN rows' = DOMAIN rows, \A t \in DOMAIN rows : rows'[t].product = rows[t].product
    PROVE  RequestedProducts' = RequestedProducts
BY DEF RequestedProducts

\* The satellite's and the link's steps after admission request nothing.
LEMMA SatelliteReleases ==
    ASSUME TransferInv, SatelliteSends \/ SendFails \/ NextFrameFails \/ SatelliteRestart \/ LinkRestart
    PROVE  Advances
PROOF
<1>1. UNCHANGED <<products, final, artifacts>>
  BY DEF SatelliteSends, TransmitFrame, CompleteFrame, SendFails, NextFrameFails,
         SatelliteRestart, LinkRestart, groundVars, storeVars
<1>2. \A t \in DOMAIN rows : rows[t] = [product |-> rows[t].product, state |-> rows[t].state]
  BY RowTypes DEF TransferInv
<1>3. CASE rows' = rows
  BY <1>1, <1>3, NothingReleased, RequestsStay
<1>4. ASSUME NEW state, CloseTransfer(state) PROVE Advances
  <2>1. DOMAIN rows' = DOMAIN rows /\ \A t \in DOMAIN rows : rows'[t].product = rows[t].product
    BY <1>2, <1>4 DEF CloseTransfer
  <2> QED BY <1>1, <2>1, NothingReleased, RequestsStay
<1>5. CASE SatelliteRestart
  <2>1. DOMAIN rows' = DOMAIN rows /\ \A t \in DOMAIN rows : rows'[t].product = rows[t].product
    BY <1>2, <1>5 DEF SatelliteRestart
  <2> QED BY <1>1, <2>1, NothingReleased, RequestsStay
<1>6. CASE SatelliteSends \/ SendFails \/ NextFrameFails \/ LinkRestart
  BY <1>3, <1>4, <1>6
     DEF SatelliteSends, TransmitFrame, CompleteFrame, SendFails, NextFrameFails, LinkRestart,
         satelliteVars
<1> QED BY <1>5, <1>6

\* START announces the product of a transfer in the journal, unless its row is
\* there already.
LEMMA AnnounceReleases ==
    ASSUME TransferInv, PersistStart
    PROVE  Advances
PROOF
<1> PICK p : p = rows[work.transfer].product
  OBVIOUS
<1>1. /\ rows' = rows /\ UNCHANGED <<final, artifacts>>
      /\ products' = [products EXCEPT ![p] = IF @ = "NONE" THEN "RECEIVING" ELSE @]
  BY DEF PersistStart, InWork, satelliteVars
<1>2. work.transfer \in Transfers
  BY GroundFacts DEF PersistStart, InWork, WorkInv, OpeningPhases
<1>3. p \in Products /\ p \in RequestedProducts /\ products \in [Products -> ProductStates]
  BY <1>2, RowTypes, RequestsOfRows, GroundFacts DEF TransferInv
<1>4. RequestedProducts' = RequestedProducts
  BY <1>1, RequestsStay
<1>5. CASE products[p] = "NONE"
  <2>1. products' = [products EXCEPT ![p] = "RECEIVING"]
    BY <1>1, <1>3, <1>5
  <2> QED BY <1>1, <1>3, <1>4, <1>5, <2>1 DEF Advances, Release!Next, Release!Announce
<1>6. CASE products[p] # "NONE"
  <2>1. products' = products
    BY <1>1, <1>3, <1>6
  <2> QED BY <1>1, <1>4, <2>1, NothingReleased
<1> QED BY <1>5, <1>6

\* A complete bundle is verified before its directory is there.
LEMMA VerifyReleases ==
    ASSUME TransferInv, MarkVerified
    PROVE  Advances
PROOF
<1> PICK p : p = BundleOf(epochs[work.key])
  OBVIOUS
<1>1. p \in Products /\ ProductOf(work.key) = p /\ products[p] # "NONE"
  BY PublishedBundle DEF MarkVerified, InWork, PublishingPhases
<1>2. /\ rows' = rows /\ UNCHANGED <<final, artifacts>> /\ p \notin DOMAIN final
      /\ products' = [products EXCEPT ![p] = VerifiedRow(@)]
  BY <1>1 DEF MarkVerified, InWork, satelliteVars
<1>3. products \in [Products -> ProductStates] /\ products[p] # "PUBLISHED"
  BY <1>1, <1>2, GroundFacts DEF StoreInv
<1>4. RequestedProducts' = RequestedProducts
  BY <1>2, RequestsStay
<1>5. CASE products[p] = "RECEIVING"
  <2>1. products' = [products EXCEPT ![p] = "VERIFIED"]
    BY <1>1, <1>2, <1>3, <1>5 DEF VerifiedRow
  <2> QED BY <1>1, <1>2, <1>4, <1>5, <2>1 DEF Advances, Release!Next, Release!Verify
<1>6. CASE products[p] = "VERIFIED"
  <2>1. products' = products
    BY <1>1, <1>2, <1>3, <1>6 DEF VerifiedRow
  <2> QED BY <1>2, <1>4, <2>1, NothingReleased
<1> QED BY <1>1, <1>3, <1>5, <1>6 DEF ProductStates

\* The renamed directory holds the whole bundle of a verified product.
LEMMA RenameReleases ==
    ASSUME TransferInv, RenameStaged
    PROVE  Advances
PROOF
<1> PICK p : p = BundleOf(epochs[work.key])
  OBVIOUS
<1> PICK got : got = epochs[work.key].got
  OBVIOUS
<1>1. work.phase = "staged"
  BY DEF RenameStaged, InWork
<1>2. /\ p \in Products /\ ProductOf(work.key) = p /\ p \notin DOMAIN final
      /\ products[p] \in {"VERIFIED", "PUBLISHED"}
      /\ DOMAIN got = 1 .. Size[p] /\ \A c \in DOMAIN got : rows[got[c]].product = p
  BY <1>1, PublishedBundle DEF PublishingPhases, WholeBundle
<1>3. products[p] = "VERIFIED"
  BY <1>2, GroundFacts DEF StoreInv
<1>4. /\ rows' = rows /\ UNCHANGED <<products, artifacts>>
      /\ final' = Put(final, p, [c \in DOMAIN got |-> rows[got[c]].product])
  BY <1>2 DEF RenameStaged, InWork, satelliteVars
<1>5. [c \in DOMAIN got |-> rows[got[c]].product] = Release!WholeOf(p)
  BY <1>2 DEF Release!WholeOf
<1>6. final' = [q \in DOMAIN final \cup {p} |->
                  IF q = p THEN Release!WholeOf(p) ELSE final[q]]
  BY <1>4, <1>5 DEF Put
<1>7. RequestedProducts' = RequestedProducts
  BY <1>4, RequestsStay
<1> QED BY <1>2, <1>3, <1>4, <1>6, <1>7 DEF Advances, Release!Next, Release!Release

\* The row is completed when the directory is there.
LEMMA CompleteReleases ==
    ASSUME TransferInv, MarkPublished
    PROVE  Advances
PROOF
<1> PICK p : p = BundleOf(epochs[work.key])
  OBVIOUS
<1>1. /\ p \in Products /\ ProductOf(work.key) = p /\ p \in DOMAIN final
      /\ products[p] \in {"VERIFIED", "PUBLISHED"}
  BY PublishedBundle DEF MarkPublished, InWork, PublishingPhases
<1>2. /\ rows' = rows /\ UNCHANGED <<final, artifacts>>
      /\ products' = [products EXCEPT ![p] = IF @ = "VERIFIED" THEN "PUBLISHED" ELSE @]
  BY <1>1 DEF MarkPublished, InWork, satelliteVars
<1>3. products \in [Products -> ProductStates]
  BY GroundFacts
<1>4. RequestedProducts' = RequestedProducts
  BY <1>2, RequestsStay
<1>5. CASE products[p] = "VERIFIED"
  <2>1. products' = [products EXCEPT ![p] = "PUBLISHED"]
    BY <1>1, <1>2, <1>3, <1>5
  <2> QED BY <1>1, <1>2, <1>4, <1>5, <2>1 DEF Advances, Release!Next, Release!Complete
<1>6. CASE products[p] = "PUBLISHED"
  <2>1. products' = products
    BY <1>1, <1>2, <1>3, <1>6
  <2> QED BY <1>2, <1>4, <2>1, NothingReleased
<1> QED BY <1>1, <1>5, <1>6

\* Artifacts are listed of a product that is published.
LEMMA ListReleases ==
    ASSUME TransferInv, RecordArtifacts
    PROVE  Advances
PROOF
<1> PICK p : p = BundleOf(epochs[work.key])
  OBVIOUS
<1>1. p \in Products /\ ProductOf(work.key) = p /\ products[p] = "PUBLISHED"
  BY PublishedBundle DEF RecordArtifacts, InWork, PublishingPhases
<1>2. /\ rows' = rows /\ UNCHANGED <<products, final>> /\ artifacts' = artifacts \cup {p}
  BY <1>1 DEF RecordArtifacts, InWork, satelliteVars
<1>3. RequestedProducts' = RequestedProducts
  BY <1>2, RequestsStay
<1> QED BY <1>1, <1>2, <1>3 DEF Advances, Release!Next, Release!List

\* Every other step of the ground leaves the products where they are.
LEMMA GroundReleases ==
    ASSUME \/ DropForeignFrame \/ ReceiveStart \/ ReceiveData \/ ReceiveEnd \/ CreatePart
           \/ PublishExisting \/ PersistVerified \/ ReleaseState \/ RemovePart \/ StartFails
           \/ PublishFails \/ RebindSession \/ \E outage \in Outages : GroundRestart(outage)
    PROVE  Advances
PROOF
<1>1. rows' = rows /\ UNCHANGED <<products, final, artifacts>>
  BY DEF DropForeignFrame, ReceiveStart, ReceiveData, ReceiveEnd, AtHead, TakeFrame, CreatePart,
         PublishExisting, PersistVerified, ReleaseState, RemovePart, StartFails, PublishFails,
         RebindSession, GroundRestart, InWork, satelliteVars, storeVars
<1> QED BY <1>1, NothingReleased, RequestsStay

\* The downlink implements ProductRelease: on the ground a product is announced,
\* verified, released whole, completed and listed in this order, each once and
\* only if it was asked for, whatever satellite, link and disk do in between
\* (ProductStore.publish and the reassembler that calls it).
THEOREM ReleaseRefinement == Spec => ImplementsRelease
PROOF
<1>1. Init => Release!Init
  BY DEF Init, Release!Init, RequestedProducts
<1>2. TransferInv /\ [Next]_vars => [Release!Next]_<<RequestedProducts, products, final, artifacts>>
  <2> SUFFICES ASSUME TransferInv, [Next]_vars PROVE Advances
    BY DEF Advances
  <2>1. CASE UNCHANGED vars
    BY <2>1, NothingReleased, RequestsStay
       DEF vars, satelliteVars, groundVars, storeVars
  <2>2. CASE Next
    BY <2>2, AdmitReleases, SatelliteReleases, AnnounceReleases, VerifyReleases,
       RenameReleases, CompleteReleases, ListReleases, GroundReleases DEF Next, GroundWorks
  <2> QED BY <2>1, <2>2
<1> QED BY <1>1, <1>2, TransferInvariant, PTL
       DEF Spec, ImplementsRelease, Release!Spec, Release!release
=============================================================================
