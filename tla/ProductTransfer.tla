--------------------------- MODULE ProductTransfer ---------------------------
(***************************************************************************)
(* The downlink of a product bundle, end to end, in the deployed UDP       *)
(* topology: the file downlink coordinator of the satellite                *)
(* (flight/file_downlink.py, flight/cloud_payload.py), the file epoch      *)
(* manager of the link simulator (link_sim/file_epoch.py,                  *)
(* link_sim/link_simulator.py), and the reassembler and product store of   *)
(* the ground (gds/file_reassembly.py, gds/product_store.py).              *)
(*                                                                         *)
(* A transfer sends START, one DATA frame per chunk, and END.  The link    *)
(* puts every frame it admits into a file epoch; the ground keys its       *)
(* reassembly by <<link session, file epoch>> and never looks at the       *)
(* transfer a DATA or END frame belongs to, because the frame does not     *)
(* say.  The model remembers it, as a ghost, in every recorded chunk.      *)
(*                                                                         *)
(* The contents of a bundle are abstracted to the product they belong to:  *)
(* a SHA-256 or checksum comparison is a comparison of products.           *)
(***************************************************************************)
EXTENDS Naturals, Sequences, FiniteSets, FiniteSetsExt

CONSTANTS
    Products,        \* products that are READY on board
    Size,            \* the number of chunks of each product's bundle
    MaxTransfers,    \* bound: DOWNLINK_PRODUCT commands admitted
    MaxRestarts      \* bound: restarts of the three processes, together

ASSUME TransferAssumption ==
    /\ Size \in [Products -> Nat \ {0}]
    /\ MaxTransfers \in Nat
    /\ MaxRestarts \in Nat

VARIABLES
    \* satellite
    rows,        \* journal table transfers: transfer id -> [product, state]
    active,      \* FileDownlinkCoordinator.active, while it is not terminal
    \* link simulator
    session,     \* the active link session
    attempt,     \* FileEpochManager._current_attempt
    nextEpoch,   \* FileEpochManager._next_attempt_id
    inbox,       \* frames delivered to the ground's UDP socket, in order
    \* ground
    gsession,    \* the session the ground's endpoint is bound to
    epochs,      \* table file_reassemblies, by <<session, epoch>>
    reserved,    \* epochs with an ACTIVE row in storage_reservations
    parts,       \* epochs with a .part file
    products,    \* table products: the state of each row
    final,       \* published product directories: product -> its chunks
    artifacts,   \* products with rows in product_artifacts
    work,        \* where the ground's pump thread is in a handler
    \* history
    restarts,    \* restarts so far
    clean        \* no loss, failure or restart has happened yet

satelliteVars == <<rows, active>>
linkVars == <<session, attempt, nextEpoch, inbox>>
storeVars == <<products, final, artifacts>>
groundVars == <<gsession, epochs, reserved, parts, products, final, artifacts, work>>
vars == <<satelliteVars, linkVars, groundVars, restarts, clean>>

NoTransfer == [id |-> 0, next |-> 0, sent |-> FALSE, session |-> 0]
NoAttempt == [epoch |-> 0, state |-> "CLOSED"]
NoWork == [phase |-> "idle", key |-> <<0, 0>>, transfer |-> 0]

\* A table with the row of one key written.
Put(table, key, row) ==
    [k \in DOMAIN table \cup {key} |-> IF k = key THEN row ELSE table[k]]

-----------------------------------------------------------------------------
(* Satellite: one transfer at a time, one frame at a time.                  *)

OpenTransferStates == {"QUEUED", "SENDING"}

\* get_active_transfer: a transfer in an open state makes the next command
\* TRANSFER_BUSY.
TransferOpen == \E t \in DOMAIN rows : rows[t].state \in OpenTransferStates

\* The single-threaded pump hands a command to the payload only between two
\* drains of its frame queue, so no command arrives while a transfer is sent.
\* The command is answered, its row inserted as QUEUED and the coordinator
\* started with START as its leased frame.
AdmitDownlink(p) ==
    /\ Len(rows) < MaxTransfers
    /\ ~TransferOpen
    /\ rows' = Append(rows, [product |-> p, state |-> "SENDING"])
    /\ active' = [id |-> Len(rows) + 1, next |-> 0, sent |-> FALSE, session |-> session]
    /\ UNCHANGED <<linkVars, groundVars, restarts, clean>>

\* Publishing the command's telemetry, or opening the bundle, raises after
\* the row is committed.  Nothing catches it: the process exits with the row
\* QUEUED, and the next start of the satellite closes the row.
AdmitDownlinkRaises(p) ==
    /\ Len(rows) < MaxTransfers
    /\ ~TransferOpen
    /\ rows' = Append(rows, [product |-> p, state |-> "QUEUED"])
    /\ clean' = FALSE
    /\ UNCHANGED <<active, linkVars, groundVars, restarts>>

BundleSize(t) == Size[rows[t].product]

\* The packet that _next_packet leases: START, the chunks in order, END.
KindOfNext(a) ==
    IF a.next = 0 THEN "START"
    ELSE IF a.next <= BundleSize(a.id) THEN "DATA" ELSE "END"

FrameOf(a) == [kind |-> KindOfNext(a), seq |-> a.next, transfer |-> a.id]

CloseTransfer(state) ==
    /\ rows' = [rows EXCEPT ![active.id].state = state]
    /\ active' = NoTransfer

\* The endpoint cannot send: FRAME_FAILED, ABORTING, COOLDOWN, SEND_FAILED.
\* No CANCEL and no ABORT_FILE_EPOCH goes to the link.
SendFails ==
    /\ active # NoTransfer
    /\ ~active.sent
    /\ CloseTransfer("SEND_FAILED")
    /\ clean' = FALSE
    /\ UNCHANGED <<linkVars, groundVars, restarts>>

\* UDP_SENT: the lease is completed, whatever became of the datagram, and
\* the next frame is leased, or the transfer goes through COOLDOWN.
CompleteFrame ==
    /\ active # NoTransfer
    /\ active.sent
    /\ IF KindOfNext(active) = "END"
         THEN CloseTransfer("SEND_COMPLETED")
         ELSE /\ active' = [active EXCEPT !.next = @ + 1, !.sent = FALSE]
              /\ UNCHANGED rows
    /\ UNCHANGED <<linkVars, groundVars, restarts, clean>>

\* The bundle cannot be read for the next frame (BUNDLE_MUTATED,
\* BUNDLE_TRUNCATED): the transfer is aborted between two frames.
NextFrameFails ==
    /\ active # NoTransfer
    /\ active.sent
    /\ KindOfNext(active) # "END"
    /\ CloseTransfer("SEND_FAILED")
    /\ clean' = FALSE
    /\ UNCHANGED <<linkVars, groundVars, restarts>>

-----------------------------------------------------------------------------
(* Link: admission into a file epoch and delivery, in one step, because the *)
(* server runs its clock until idle after every admitted frame.             *)

\* _admit_file_epoch: only START opens an epoch, and only when there is no
\* attempt; DATA and END go into whatever attempt is STARTED.
LinkAdmits(f) ==
    IF f.kind = "START" THEN attempt = NoAttempt ELSE attempt.state = "STARTED"

\* The attempt after admission: START creates one, END sets it DRAINING.
AdmittedAttempt(f) ==
    CASE f.kind = "START" -> [epoch |-> nextEpoch, state |-> "STARTED"]
      [] f.kind = "END"   -> [attempt EXCEPT !.state = "DRAINING"]
      [] OTHER            -> attempt

\* Mutant of DeliveredAttempt: the delivered END does not release the fence.
DeliveredAttemptKept(f) == AdmittedAttempt(f)

\* complete_attempt, when END is delivered: the fence is released.
DeliveredAttempt(f) ==
    IF f.kind = "END" THEN NoAttempt ELSE AdmittedAttempt(f)

AdmitEpoch(f) ==
    nextEpoch' = IF f.kind = "START" THEN nextEpoch + 1 ELSE nextEpoch

\* The frame never gets to the link's admission: the datagram is lost, the
\* contact schedule is in BLACKOUT, or its session is no longer the active one.
LostBeforeLink ==
    /\ clean' = FALSE
    /\ UNCHANGED linkVars

\* FILE_EPOCH_REJECTED; the sender has already been told UDP_SENT.
RefusedByLink(f) ==
    /\ active.session = session
    /\ ~LinkAdmits(f)
    /\ UNCHANGED <<linkVars, clean>>

\* Admitted and then lost by the fault model: an END leaves the attempt
\* DRAINING, and nothing ever completes it.
LostInLink(f) ==
    /\ active.session = session
    /\ LinkAdmits(f)
    /\ attempt' = AdmittedAttempt(f)
    /\ AdmitEpoch(f)
    /\ clean' = FALSE
    /\ UNCHANGED <<session, inbox>>

Keyed(f) == [kind |-> f.kind, seq |-> f.seq, transfer |-> f.transfer,
             key |-> <<session, AdmittedAttempt(f).epoch>>]

\* Admitted and sent to the ground.  A frame lost or corrupted after this
\* completes the attempt too, without reaching the reassembler.
Delivered(f) ==
    /\ active.session = session
    /\ LinkAdmits(f)
    /\ attempt' = DeliveredAttempt(f)
    /\ AdmitEpoch(f)
    /\ \/ /\ inbox' = Append(inbox, Keyed(f))
          /\ UNCHANGED clean
       \/ /\ UNCHANGED inbox
          /\ clean' = FALSE
    /\ UNCHANGED session

TransmitFrame ==
    /\ active # NoTransfer
    /\ ~active.sent
    /\ active' = [active EXCEPT !.sent = TRUE]
    /\ LET f == FrameOf(active)
       IN  LostBeforeLink \/ RefusedByLink(f) \/ LostInLink(f) \/ Delivered(f)
    /\ UNCHANGED <<rows, groundVars, restarts>>

\* The satellite restarts: reconcile_after_restart fails every open transfer,
\* and its new boot id makes the link reset the session, which closes the
\* attempt; the epoch counter goes on.
SatelliteRestart ==
    /\ restarts < MaxRestarts
    /\ restarts' = restarts + 1
    /\ rows' = [t \in DOMAIN rows |->
                  IF rows[t].state \in OpenTransferStates
                    THEN [rows[t] EXCEPT !.state = "SEND_FAILED"] ELSE rows[t]]
    /\ active' = NoTransfer
    /\ session' = session + 1
    /\ attempt' = NoAttempt
    /\ clean' = FALSE
    /\ UNCHANGED <<nextEpoch, inbox, groundVars>>

\* The link restarts: sessions go on from the checkpoint, the epoch manager
\* starts anew.  The satellite learns the new session after its drain.
LinkRestart ==
    /\ restarts < MaxRestarts
    /\ restarts' = restarts + 1
    /\ session' = session + 1
    /\ attempt' = NoAttempt
    /\ nextEpoch' = 1
    /\ clean' = FALSE
    /\ UNCHANGED <<satelliteVars, inbox, groundVars>>

-----------------------------------------------------------------------------
(* Ground: the pump thread handles one frame at a time; a step is one       *)
(* durable effect, so that a restart may come between any two.              *)

Receiving == {k \in DOMAIN epochs : epochs[k].state = "RECEIVING"}
ProductOf(k) == rows[epochs[k].transfer].product
NoChunks == [c \in {} |-> 0]
\* A settled epoch keeps no chunks.
Settled(k, state) == [state |-> state, transfer |-> epochs[k].transfer, got |-> NoChunks]

\* The endpoint takes the binding the link publishes.
RebindSession ==
    /\ work = NoWork
    /\ gsession # session
    /\ gsession' = session
    /\ UNCHANGED <<satelliteVars, linkVars, epochs, reserved, parts, storeVars, work,
                   restarts, clean>>

TakeFrame ==
    /\ work = NoWork
    /\ inbox # <<>>
    /\ inbox' = Tail(inbox)
    /\ UNCHANGED <<satelliteVars, session, attempt, nextEpoch, gsession, storeVars, restarts>>

\* validate_egress refuses a frame of a session the endpoint is not bound to.
DropForeignFrame ==
    /\ TakeFrame
    /\ Head(inbox).key[1] # gsession
    /\ UNCHANGED <<epochs, reserved, parts, work, clean>>

Working(phase, key) == [phase |-> phase, key |-> key, transfer |-> 0]

AtHead(kind) ==
    /\ TakeFrame
    /\ Head(inbox).key[1] = gsession
    /\ Head(inbox).kind = kind

\* Mutant of StartAccepted: only the epoch's own key is looked up.
StartAcceptedAlways(k) == k \notin DOMAIN epochs

\* A START of an epoch already known, or while another epoch is receiving, is
\* refused (START_CONFLICT, TRANSFER_BUSY).
StartAccepted(k) == k \notin DOMAIN epochs /\ Receiving = {}

\* The transfer that START names is found in its metadata; it is kept with the
\* handler until the row is written.
ReceiveStart ==
    /\ AtHead("START")
    /\ LET f == Head(inbox)
       IN  IF StartAccepted(f.key)
             THEN \/ /\ reserved' = reserved \cup {f.key}
                     /\ work' = [phase |-> "reserved", key |-> f.key, transfer |-> f.transfer]
                     /\ UNCHANGED clean
                  \/ \* STORAGE_FULL
                     /\ clean' = FALSE
                     /\ UNCHANGED <<reserved, work>>
             ELSE UNCHANGED <<reserved, work, clean>>
    /\ UNCHANGED <<epochs, parts>>

InWork(phase) ==
    /\ work.phase = phase
    /\ UNCHANGED <<satelliteVars, linkVars, gsession, restarts>>

CreatePart ==
    /\ InWork("reserved")
    /\ parts' = parts \cup {work.key}
    /\ work' = [work EXCEPT !.phase = "created"]
    /\ UNCHANGED <<epochs, reserved, storeVars, clean>>

\* _persist_start: the row of the epoch, and the product's row if it is new.
PersistStart ==
    /\ InWork("created")
    /\ epochs' = Put(epochs, work.key, [state |-> "RECEIVING", transfer |-> work.transfer,
                                        got |-> NoChunks])
    /\ LET p == rows[work.transfer].product
       IN  products' = [products EXCEPT ![p] = IF @ = "NONE" THEN "RECEIVING" ELSE @]
    /\ work' = NoWork
    /\ UNCHANGED <<reserved, parts, final, artifacts, clean>>

\* STAGING_OPEN_FAILED and DURABLE_STATE_FAILED: the reservation is released
\* and the part file removed.
StartFails ==
    /\ InWork(work.phase)
    /\ work.phase \in {"reserved", "created"}
    /\ reserved' = reserved \ {work.key}
    /\ parts' = parts \ {work.key}
    /\ work' = NoWork
    /\ clean' = FALSE
    /\ UNCHANGED <<epochs, storeVars>>

\* A DATA frame is recorded when its epoch is receiving, it lies within the
\* size START gave and its sequence number is new.  A repeated one is either
\* identical or a FILE_PACKET_CONFLICT; neither changes anything.
DataAccepted(f) ==
    /\ f.key \in Receiving
    /\ f.seq <= Size[ProductOf(f.key)]
    /\ f.seq \notin DOMAIN epochs[f.key].got

Recorded(f) == [state |-> "RECEIVING", transfer |-> epochs[f.key].transfer,
                got |-> Put(epochs[f.key].got, f.seq, f.transfer)]

ReceiveData ==
    /\ AtHead("DATA")
    /\ LET f == Head(inbox)
       IN  epochs' = IF DataAccepted(f) THEN [epochs EXCEPT ![f.key] = Recorded(f)] ELSE epochs
    /\ UNCHANGED <<reserved, parts, work, clean>>

NextSequence(k) == Max(DOMAIN epochs[k].got \cup {0}) + 1

\* INVALID_END unless END has the next sequence number and the exact size.
EndAccepted(f) ==
    /\ f.key \in Receiving
    /\ f.seq = NextSequence(f.key)
    /\ BundleSize(f.transfer) = Size[ProductOf(f.key)]

CoverageComplete(k) == DOMAIN epochs[k].got = 1..Size[ProductOf(k)]

\* Mutant of IntegrityHolds: the bytes agree with END, not with START.
IntegrityOfEnd(f) ==
    \A c \in DOMAIN epochs[f.key].got :
        rows[epochs[f.key].got[c]].product = rows[f.transfer].product

\* The checksum END carries and the SHA-256 START promised, over the bytes
\* that were received.
IntegrityHolds(f) ==
    /\ rows[f.transfer].product = ProductOf(f.key)
    /\ \A c \in DOMAIN epochs[f.key].got :
          rows[epochs[f.key].got[c]].product = ProductOf(f.key)

\* _persist_state with clear_metadata: the terminal state of an epoch.
Terminate(k, state) == epochs' = [epochs EXCEPT ![k] = Settled(k, state)]

ReceiveEnd ==
    /\ AtHead("END")
    /\ LET f == Head(inbox)
       IN  \/ /\ ~EndAccepted(f)
              /\ UNCHANGED <<epochs, work>>
           \/ /\ EndAccepted(f)
              /\ ~CoverageComplete(f.key)
              /\ Terminate(f.key, "INCOMPLETE")
              /\ work' = Working("persisted", f.key)
           \/ /\ EndAccepted(f)
              /\ CoverageComplete(f.key)
              /\ ~IntegrityHolds(f)
              /\ Terminate(f.key, "CHECKSUM_FAILED")
              /\ work' = Working("persisted", f.key)
           \/ /\ EndAccepted(f)
              /\ CoverageComplete(f.key)
              /\ IntegrityHolds(f)
              /\ work' = Working("verified", f.key)
              /\ UNCHANGED epochs
    /\ UNCHANGED <<reserved, parts, clean>>

\* ProductStore.publish, when the directory is there already: it is compared
\* with the bundle, and the product's row is left as it is.
PublishExisting ==
    /\ InWork("verified")
    /\ ProductOf(work.key) \in DOMAIN final
    /\ work' = [work EXCEPT !.phase = "recorded"]
    /\ UNCHANGED <<epochs, reserved, parts, storeVars, clean>>

\* Mutant of VerifiedRow: the row is published before the directory is.
VerifiedRowPublished(state) == IF state \in {"RECEIVING", "VERIFIED"} THEN "PUBLISHED" ELSE state

\* mark_product_verified leaves a row that has got further alone.
VerifiedRow(state) == IF state \in {"RECEIVING", "VERIFIED"} THEN "VERIFIED" ELSE state

\* The bundle is staged beside the directory and the row marked VERIFIED.
MarkVerified ==
    /\ InWork("verified")
    /\ LET p == ProductOf(work.key)
       IN  /\ p \notin DOMAIN final
           /\ products' = [products EXCEPT ![p] = VerifiedRow(@)]
    /\ work' = [work EXCEPT !.phase = "staged"]
    /\ UNCHANGED <<epochs, reserved, parts, final, artifacts, clean>>

\* os.replace of the staged directory.
RenameStaged ==
    /\ InWork("staged")
    /\ LET got == epochs[work.key].got
       IN  final' = Put(final, ProductOf(work.key), [c \in DOMAIN got |-> rows[got[c]].product])
    /\ work' = [work EXCEPT !.phase = "renamed"]
    /\ UNCHANGED <<epochs, reserved, parts, products, artifacts, clean>>

MarkPublished ==
    /\ InWork("renamed")
    /\ products' = [products EXCEPT
         ![ProductOf(work.key)] = IF @ = "VERIFIED" THEN "PUBLISHED" ELSE @]
    /\ work' = [work EXCEPT !.phase = "published"]
    /\ UNCHANGED <<epochs, reserved, parts, final, artifacts, clean>>

RecordArtifacts ==
    /\ InWork("published")
    /\ artifacts' = artifacts \cup {ProductOf(work.key)}
    /\ work' = [work EXCEPT !.phase = "recorded"]
    /\ UNCHANGED <<epochs, reserved, parts, products, final, clean>>

\* Verifying or staging the bundle raises: the epoch is CHECKSUM_FAILED.
PublishFails ==
    /\ InWork(work.phase)
    /\ work.phase \in {"verified", "staged"}
    /\ Terminate(work.key, "CHECKSUM_FAILED")
    /\ work' = [work EXCEPT !.phase = "persisted"]
    /\ clean' = FALSE
    /\ UNCHANGED <<reserved, parts, storeVars>>

PersistVerified ==
    /\ InWork("recorded")
    /\ Terminate(work.key, "VERIFIED")
    /\ work' = [work EXCEPT !.phase = "persisted"]
    /\ UNCHANGED <<reserved, parts, storeVars, clean>>

\* _release_state and then _remove_part close every terminal path.
ReleaseState ==
    /\ InWork("persisted")
    /\ reserved' = reserved \ {work.key}
    /\ work' = [work EXCEPT !.phase = "released"]
    /\ UNCHANGED <<epochs, parts, storeVars, clean>>

RemovePart ==
    /\ InWork("released")
    /\ parts' = parts \ {work.key}
    /\ work' = NoWork
    /\ UNCHANGED <<epochs, reserved, storeVars, clean>>

\* How long the ground was down, as far as its timeouts tell: a reservation
\* lives for an hour, a receiving epoch for a day.
Outages == {"short", "hour", "day"}

\* Mutant of ReloadedEpoch: every row is loaded, also the settled ones, whose
\* part files are gone.
ReloadedEpochAny(k, outage) ==
    IF k \notin parts \/ outage = "day"
      THEN Settled(k, "CANCELED")
      ELSE epochs[k]

\* A RECEIVING epoch is loaded, canceled when its part file is gone
\* (STAGING_MISSING) and when its day is over (REASSEMBLY_TIMEOUT).
ReloadedEpoch(k, outage) ==
    IF epochs[k].state = "RECEIVING" /\ (k \notin parts \/ outage = "day")
      THEN Settled(k, "CANCELED")
      ELSE epochs[k]

\* The ground restarts.  It comes up again only as long as generation 1 is
\* its binding (see StartupRefused of CommandOutbox); _load_durable_states,
\* _release_orphaned_reservations and reconcile run before the first frame.
GroundRestart(outage) ==
    /\ restarts < MaxRestarts
    /\ gsession = 1
    /\ restarts' = restarts + 1
    /\ gsession' = session
    /\ inbox' = <<>>
    /\ epochs' = [k \in DOMAIN epochs |-> ReloadedEpoch(k, outage)]
    /\ reserved' = {k \in reserved : outage = "short" /\ k \in Receiving}
    /\ parts' = {k \in parts : outage = "day" => k \notin Receiving}
    /\ work' = NoWork
    /\ clean' = FALSE
    /\ UNCHANGED <<satelliteVars, session, attempt, nextEpoch, storeVars>>

-----------------------------------------------------------------------------
Init ==
    /\ rows = <<>>
    /\ active = NoTransfer
    /\ session = 1
    /\ attempt = NoAttempt
    /\ nextEpoch = 1
    /\ inbox = <<>>
    /\ gsession = 1
    /\ epochs = [k \in {} |-> 0]
    /\ reserved = {}
    /\ parts = {}
    /\ products = [p \in Products |-> "NONE"]
    /\ final = [p \in {} |-> 0]
    /\ artifacts = {}
    /\ work = NoWork
    /\ restarts = 0
    /\ clean = TRUE

SatelliteSends == TransmitFrame \/ CompleteFrame

GroundWorks ==
    \/ DropForeignFrame \/ ReceiveStart \/ ReceiveData \/ ReceiveEnd
    \/ CreatePart \/ PersistStart
    \/ PublishExisting \/ MarkVerified \/ RenameStaged \/ MarkPublished
    \/ RecordArtifacts \/ PersistVerified \/ ReleaseState \/ RemovePart

Next ==
    \/ \E p \in Products : AdmitDownlink(p) \/ AdmitDownlinkRaises(p)
    \/ SatelliteSends
    \/ SendFails
    \/ NextFrameFails
    \/ GroundWorks
    \/ StartFails
    \/ PublishFails
    \/ RebindSession
    \/ SatelliteRestart
    \/ LinkRestart
    \/ \E outage \in Outages : GroundRestart(outage)

Spec == Init /\ [][Next]_vars

\* The satellite's main loop drains its queue in one go, and the ground's
\* pump thread loops for ever: neither stops between two frames.
FairSpec == Spec /\ WF_vars(SatelliteSends) /\ WF_vars(GroundWorks)

-----------------------------------------------------------------------------
EpochStates == {"RECEIVING", "INCOMPLETE", "CHECKSUM_FAILED", "VERIFIED", "CANCELED"}
ProductStates == {"NONE", "RECEIVING", "VERIFIED", "PUBLISHED"}
Phases == {"idle", "reserved", "created", "verified", "staged", "renamed",
           "published", "recorded", "persisted", "released"}

Kinds == {"START", "DATA", "END"}
Keys == Nat \X Nat

\* Every variable has its type: transfers and epochs are in the states the
\* two databases allow.
TypeOK ==
    /\ rows \in Seq([product : Products,
                     state : OpenTransferStates \cup {"SEND_COMPLETED", "SEND_FAILED"}])
    /\ active \in [id : Nat, next : Nat, sent : BOOLEAN, session : Nat]
    /\ session \in Nat /\ gsession \in Nat /\ nextEpoch \in Nat
    /\ attempt \in [epoch : Nat, state : {"CLOSED", "STARTED", "DRAINING"}]
    /\ inbox \in Seq([kind : Kinds, seq : Nat, transfer : Nat, key : Keys])
    /\ \A k \in DOMAIN epochs : epochs[k].state \in EpochStates
    /\ products \in [Products -> ProductStates]
    /\ DOMAIN final \subseteq Products /\ artifacts \subseteq Products
    /\ work \in [phase : Phases, key : Keys, transfer : Nat]

\* A product directory holds the whole bundle of its own product, whatever
\* was lost, repeated, refused or sent into the wrong epoch, and wherever the
\* ground was stopped (a consequence of ImplementsRelease, below).
PublishedIsWhole ==
    \A p \in DOMAIN final : final[p] = [c \in 1..Size[p] |-> p]

\* What the ground's tables claim is on its disk: a PUBLISHED product, a
\* product with artifact rows and the product of a VERIFIED epoch all have
\* their directory, whichever step a restart came after.
RecordsAreBacked ==
    /\ \A p \in Products : products[p] = "PUBLISHED" => p \in DOMAIN final
    /\ \A p \in artifacts : products[p] = "PUBLISHED"
    /\ \A k \in DOMAIN epochs : epochs[k].state = "VERIFIED" => ProductOf(k) \in DOMAIN final

\* The ground receives one file at a time, with its part file in place, and
\* storage is reserved for that file and the one being opened or closed, so
\* that no lost frame, failure or restart leaks a reservation.
OneReceiver ==
    /\ Cardinality(Receiving) <= 1
    /\ Receiving \subseteq parts
    /\ reserved \subseteq Receiving \cup {work.key}

Terminal(state) == state \notin OpenTransferStates \cup {"RECEIVING"}
ProductRank(state) ==
    CASE state = "NONE" -> 0 [] state = "RECEIVING" -> 1
      [] state = "VERIFIED" -> 2 [] state = "PUBLISHED" -> 3

\* No frame, failure or restart takes back what was settled: a terminal
\* transfer or epoch keeps its state, a product's row only advances and a
\* product directory stays as it was renamed into place.
NothingUndone ==
    [][/\ \A t \in DOMAIN rows : Terminal(rows[t].state) => rows'[t] = rows[t]
       /\ \A k \in DOMAIN epochs : Terminal(epochs[k].state) => epochs'[k] = epochs[k]
       /\ \A p \in Products : ProductRank(products'[p]) >= ProductRank(products[p])
       /\ \A p \in DOMAIN final : p \in DOMAIN final' /\ final'[p] = final[p]]_vars

\* The products that the satellite has admitted a downlink of.
RequestedProducts == {rows[t].product : t \in DOMAIN rows}

Release == INSTANCE ProductRelease
             WITH requested <- RequestedProducts, stage <- products,
                  released <- final, listed <- artifacts

\* The whole downlink implements ProductRelease: frames of other transfers,
\* losses, failures and restarts between any two steps never make the ground
\* announce a product nobody asked for, release a directory that is not the
\* whole bundle of its product or before its row says VERIFIED, complete a row
\* or list artifacts before the directory is there, or take any of it back.
ImplementsRelease == Release!Spec

Landed(t) ==
    /\ t \in DOMAIN rows
    /\ rows[t].state = "SEND_COMPLETED"
    /\ products[rows[t].product] = "PUBLISHED"

\* As long as nothing is lost and nothing fails or restarts, every transfer
\* that the satellite starts ends with its product published, one after the
\* other: no fence at the link and no busy check at the ground stays closed.
CleanDownlinkPublishes ==
    \A t \in 1..MaxTransfers : (t \in DOMAIN rows) ~> (~clean \/ Landed(t))

\* What the epoch manager of the link promises of its drain fence: what one
\* transfer sent is never recorded in the epoch another one opened.
EpochsDoNotMix ==
    \A k \in DOMAIN epochs : \A c \in DOMAIN epochs[k].got :
        epochs[k].got[c] = epochs[k].transfer
=============================================================================
