# Cube mission system: TLA+ models, checks and proofs

This directory models the command and data paths of the repository: a ground
data system (GDS, `src/gds`), a satellite simulator with its payload
(`src/flight`), the link simulator between them (`src/link_sim`), and the
training of the models it flies and the decision on a capture (`src/src` and the
notebooks at the root). Models
are translated from the source; the documents under `src/docs` are used
only where a run compares the code with what they say.

## 1. The system

| part | state it keeps | operations | talks to |
|---|---|---|---|
| command API (`gds/api.py`, `http_app.py`) | none | `post_commands` and read endpoints | ledger, outbox |
| ledger (`gds/ledger.py`, `idempotency.py`) | `commands`, `http_idempotency_retired`, `product_downlink_ledger`, deferred APID 3 observations | admit, admit product downlink, correlate transfers and files, retire | request keys, outbox tables |
| request keys (`gds/request_keys.py`) | namespaces, next request id | initialize, allocate, drain, rotate | ledger |
| outbox (`gds/outbox.py`) | `command_outbox`, `command_attempts` | claim, prepare, mark sent, roll back, reconcile, contact changes, ingest receipt | sequence allocator, binding fence |
| TC sequences (`gds/sequence.py`) | next sequence, epoch | allocate, reset | outbox |
| link binding (`gds/binding.py`) | `spacecraft_instances`, bound instance, in-memory fence | bind, migrate, refresh, read and write fence | outbox |
| mission runtime (`gds/local_sil.py`) | threads, dispatch lock | startup, pump, dispatch due work, rebind, set contact | all of the above, link endpoint |
| writer (`gds/writer.py`) | a bounded priority queue, one SQLite connection | submit, run | every mutation |
| ingest (`gds/ingest.py`, `tm.py`, `telemetry.py`) | counters, samples | decode, receipt, file packet | outbox, ledger, reassembly, events |
| reassembly and products (`gds/file_reassembly.py`, `product_store.py`) | partial files, published bundles | accept packet, verify, publish | ingest, retention |
| events and realtime (`gds/events.py`, `realtime.py`, web store) | event log, client queues | append, publish, replay, reset | ingest, UI |
| retention and storage (`gds/retention.py`, `storage.py`) | tombstones, reservations | evict, pin, prune, admission guard | product store |
| flight journal (`flight/journal.py`) | requests, jobs, products, transfers, events | record, transition, restart reconcile | payload |
| payload (`flight/cloud_payload.py`) | volatile job and worker state | handle command, analysis, cancel, downlink, worker results | journal, worker client |
| worker client (`flight/worker_client.py`) | pending requests, restart budget | submit, cancel, receive, restart | worker process |
| downlink and COM (`flight/file_downlink.py`, `mission_com_scheduler.py`, `mission_udp_adapter.py`) | transfers, two queues, one frame in flight | start, next packet, schedule, complete | link |
| training (`src/train_segmentation.py`, `train.py`, `eval_segmentation.py`) | weights, best epoch, checkpoint, locked threshold | train, validate, select, calibrate, evaluate | notebooks |
| notebooks (`colab_train_segformer_95cloud*.ipynb`) | a virtual machine's disk, one Drive folder | cells: data, cache, train, calibrate, test, export, package | training, Drive, W&B, git |
| patch results (`src/patch_result_writer.py`, `decision_policy.py`, `inference_adapter.py`) | a staging directory, a published directory, the writer's records and buffer | open, resume, append, finalize, abort, verify, decide | onboard inference |
| link simulator (`link_sim/*`) | sessions, generations, delay queues, file epochs, fault plan | handshake, ingress, tick, egress | both endpoints |
| protocol (`protocol/*`) | none | encode, decode, digest | everyone |
| onboard inference (`sat_ai`, the rest of `src/src`) | artifacts | numeric pipelines | worker |

Hard behaviours: several GDS threads (HTTP handlers, the pump, UDP receivers)
share one database through a single writer thread, so decisions taken between
two transactions may be stale; the link loses, repeats, delays and reorders;
sessions are replaced while commands are in flight; either process may crash
between any two transactions; everything has a lease, a timeout or an expiry.
`PROJECT.json` lists the hazards line by line with the properties aimed at
them.

What makes the parts correct: a command is settled once and never reported
acknowledged unless the satellite decided it; request keys, sequence counts and
generations are never reused or moved back; no send happens under a dead
binding; a migration leaves nothing open for the retired spacecraft; every
admitted command is eventually settled while the link works; telemetry is acted
upon once and in order; after any restart both ends and the link agree on a
session again; a published product is whole; the operator's screen comes to show
what happened; a checkpoint, its threshold and the evidence packaged with it
belong to each other; a capture is deleted only on the strength of all its
patches.

## 2. Modules

| module | models |
|---|---|
| `TcSequenceAllocator` | the allocation arithmetic of `gds/sequence.py`: counter, rollover, epoch, exhaustion |
| `CommandOutbox` | the command path: admission, claim, attempt, fence, send, rollback, retry, contact, bind and migration, receipts, crash and restart, with the satellite's answers and an unreliable link |
| `CommandDelivery` | the promise to clients: submit, decide, acknowledge or fail, once |
| `CommandOutboxProofs` | theorems about `CommandOutbox`: types, leases, outcomes, refinement; then its bindings, sequence counts and attempts |
| `CommandLedger` | the ledger: idempotency keys and their retirement, request key namespaces, product downlinks and their correlation with telemetry |
| `CommandLedgerProofs` | theorems about `CommandLedger` |
| `SatellitePayload` | analysis jobs on board: command handling, the worker client and its process, the journal, products, restart |
| `SatellitePayloadProofs` | theorems about `SatellitePayload` |
| `ProductTransfer` | the downlink of a product end to end: coordinator on board, file epochs of the link, reassembly and publication on the ground |
| `ProductRelease` | the promise of the ground about a product: announced, verified, released whole, completed, listed, once |
| `ProductTransferProofs` | theorems about `ProductTransfer` |
| `LinkSession` | the session handshake of both endpoints with the link, its allocators and their checkpoint, and the passage of mission frames |
| `LinkSessionProofs` | theorems about `LinkSession` |
| `TelemetryDownlink` | telemetry from the satellite's journal and queues over the link to the ground's frame counters |
| `GroundFeed` | stored events from the pump thread over hub, websocket and poll to the operator's page |
| `TelemetryProofs` | theorems about `TelemetryDownlink` and `GroundFeed` |
| `PatchResults` | the patch-result artifact of a capture: writing, resuming, sealing, publishing and verifying it, and the decision taken from it |
| `PatchResultsProofs` | theorems about `PatchResults` |
| `SegmentationTraining` | the SegFormer and the classifier training loops and threshold calibration |
| `ColabSession` | the operations the SegFormer notebooks are made of, over disk and Drive |
| `ColabNotebooks` | the cells of the four notebooks |
| `TrainingProofs` | theorems about `SegmentationTraining` and `ColabNotebooks` |
| `MCCommandOutbox`, `MCCommandLedger`, `MCSatellitePayload`, `MCProductTransfer`, `MCLinkSession`, `MCGroundFeed`, `MCImagery` | instances for TLC |

The modules meet at shared facts rather than in one product state space:
`CommandOutbox` delivers commands to a satellite that answers with its journal,
`SatellitePayload` is what that satellite does with an analysis command,
`ProductTransfer` with a downlink command, and `CommandLedger` is how the
ground correlates the reports of such transfers with the commands.
`LinkSession` makes the sessions that `CommandOutbox` binds and `TelemetryDownlink`
counts in; `TelemetryDownlink` ends with an accepted event, where `GroundFeed`
begins. `PatchResults` stands beside them: its verdict is about the capture that
an analysis job on board looks at. `MCGroundFeed` and `MCImagery` check modules that share no state in one
run: their variable `subject` (two subjects in the first, five in the second) says whose behaviour it is, so the state space is
the sum of theirs.

### How `CommandOutbox` corresponds to the code

Every database mutation goes through `SQLiteWriter.mutate` and is one
transaction, hence one action; the variables `rows`, `attempts`, `inst`,
`bound` and `seqs` are the tables. What a thread remembers between two
transactions is its own variable: a dispatcher's lease snapshot (`disp`), a
handler's contact reading (`api`), a refresh that has not been published
(`refresh`), a received frame stamped with the link generation (`receiving`),
a bind waiting for the write fence (`bindReq`). `published` is
`BindingFence._bindings`. `Crash` clears exactly these and keeps the tables.

One pass of `GdsMissionRuntime._dispatch` is the chain `BeginDispatch`,
`ClaimReconcile`, `Claim`, `PrepareAttempt`, `FenceRead`, `MarkSent`, `Send` (or
`SendFails`, `Rollback`), each a transaction or a lock operation of its own,
with a failing alternative for each exception the code raises. Time is a
counter; `available_at_us`, `expires_at_us`, `lease_expires_at_us` and
`ack_deadline_at_us` are compared with it as the SQL does, and 0 stands for
NULL. Frames are sets that only grow: a frame may be taken late, twice or
never. The satellite answers a request key with the verdict its journal
recorded and also publishes a journal event, as `SatelliteSimulator` does.

`DispatchLock` chooses between the mission runtime, where dispatches and rebinds
exclude each other, and the services on their own, which must stay correct for
any number of dispatchers.

Left out of the model: audit rows, error texts, encodings, `register_instance`
and `persist_attempt` (only tests call them), and the three closed contact
states' differences (the code only asks whether contact is open).

### How `CommandLedger` corresponds to the code

Every ledger and request-key mutation is one writer transaction, hence one
action: `Initialize` and `RotateIfDrained` of `request_keys.py` (an exhausted
namespace drains and is replaced once its commands are settled), `Admit` and
`Replay` of `admit`, `AdmitDownlink` of `admit_product_downlink`,
`RetireCommand` of `retire_terminal_command`, `ReceiveReceipt` and
`ReceiveFile` of `update_product_downlink_transfer` and `_file_state`,
`ReconcilePending` of the periodic reconciliation. `Settle` stands for
everything the outbox does to a row, and `RetireTarget` for a migration.
`issued`, `answered` and `observed` are history: what was ever handed out, told
to a client or reported by file reassembly. The satellite opens transfers
(`Carry`); the ground learns of them by receipts and by file reports, in any
order and any number of times. A report whose receipt is missing waits in
`pending` (`product_downlink_pending_files`) until the receipt joins it or its
time is over. `update_product_downlink_transfer` would fail on a missing
transfer id, but none of its callers passes one; the model has no such call.

### How `SatellitePayload` corresponds to the code

Two threads share the journal: the pump thread runs `handle_command`, the
monitor thread runs `WorkerProcessClient._monitor_loop`. A journal transaction,
or a section under the client's condition, is one step; between two steps the
other thread, the worker or a crash may come in. `pump` and `monitor` say where
each thread is, `callback` where it is inside `_handle_worker_result`, which
both may execute (the pump when it cancels a pending request). `pending`,
`active`, `ready`, `fault`, `cancelSent`, `deadlineSent` and `restarts` are the
client's fields; a restart older than the window is forgotten by the choice of
`kept` in `Lose`. `control` and `outgoing` are the worker's queues, and a full
control queue is the choice that leaves `control` unchanged. `late` says that
the active job's deadline has passed; a worker tests for cancellation before it
tests its deadline, so both ends are possible. `Restart` is a crash at any
point followed by `reconcile_after_restart` and a new client. A repeated
command for another spacecraft violates the journal's primary key and ends the
service (`RepeatForeign`).

Left out: the progress events `JOB_QUEUED` and `JOB_STARTED`, catalog, status
and configuration commands, the orderly `close`, compaction (only tests call
it). Reads on the shared connection are taken as committed state. Downlink
commands are in `ProductTransfer`.

### How `ProductTransfer` corresponds to the code

The topology is the deployed one: three processes over UDP. On board, `rows` is
the journal's `transfers` table and `active` the coordinator's transfer with
its one leased frame. The satellite's loop is single-threaded and drains a file
inside one pump, which has three consequences the model keeps: no command
arrives while a file is sent, so a cancel never overtakes it; a new link
session is learnt only between two drains (`active.session`); and an exception
on the way ends the process, so a row left QUEUED blocks the next downlink
until the satellite is restarted (`AdmitDownlinkRaises`, `SatelliteRestart`).

`TransmitFrame` is the datagram, its admission by the link and its delivery in
one step, since the server runs its clock until idle after each admitted frame.
A frame may be lost before the link, be refused by the file epoch, be lost
inside (an END lost there leaves the attempt DRAINING), be delivered, or be
delivered and lost after. Repeated and stale frames are dropped by the ground's
telemetry counters, so they appear as lost ones. The sender is told UDP_SENT in every
case. `CompleteFrame`, `SendFails` and `NextFrameFails` are the rest of the
coordinator.

On the ground, `epochs` is `file_reassemblies`, keyed as the code keys it;
`reserved`, `parts`, `products`, `final` and `artifacts` are storage
reservations, `.part` files, the `products` table, published directories and
`product_artifacts`. `work` is the place of the pump thread in a handler: each
durable effect of opening, publishing and closing a file is one step, so that
`GroundRestart` may fall between any two. Writing a chunk and recording it is
one step, because bytes that were not recorded are always overwritten. How long
the ground was down decides which of its timeouts have run out (`Outages`). It
restarts only in generation 1: the constructor's bind is refused by a database
that is ahead.

A chunk carries its transfer as a ghost; contents are abstracted to the product
they come from, so a checksum comparison is a comparison of products. `clean` is
history: nothing was lost, failed or restarted yet.

Left out: CANCEL packets, which the deployed satellite never sends;
`ProductStore.reconcile`, which nothing calls; eviction and pins. Orphaned
`.part` files stay for ever in the code as in the model, which makes no claim
about them.

### How `LinkSession` corresponds to the code

`link` is the server process of `link_sim/__main__.py`, single-threaded: it takes
one datagram (`ReceiveHello`, `ReceiveFrame`), and what follows is a `task` whose
steps are the change in memory, `SaveCheckpoint` and what is sent
(`PublishBinding`, `DeliverFrame`), so that `LinkCrash` falls between any two.
`alloc` is the session manager and `disk` its checkpoint file. `sat` and `gds`
are the two `UdpMissionEndpoint`s with what they accept while they are ready and
while they are not. Datagrams in `net` are lost and overtaken; they are addressed
to a port, so that a restarted satellite receives its predecessor's. A frame
carries the boot of the process that made it as a ghost, from which `crossed` is
kept; `adopted` are the boots of satellites that took a binding of another boot,
which `_apply_session_binding` permits before the endpoint is ready. The
properties set these aside and `ReadyUnderOwnBoot` states what is missed.

Left out: contact windows and delays of the link, its bounded queues (a full
queue is a loss), file epochs (in `ProductTransfer`).

### How `TelemetryDownlink` corresponds to the code

One pass of the satellite's pump is `PumpReceive`, `PumpStatus`, `PumpMove`,
`PumpSend`, `PumpEnd`: commands answered, journal events and status queued,
pending telemetry moved into the scheduler, one frame sent at a time under the
completion gate. Counters are allocated when a frame is queued (`NewFrame`,
`Counted`, durable in `journal`), and `NextQueue` chooses the queue whose head
has the lowest ordering key. On the ground `Observe` is `TmCounterLedger.observe`
with the modular comparison `Relation`, per session; counters are stored before
the event is acted upon, and the ground may stop in between. The real moduli are
CONSTANTS. The wire repeats and loses frames and keeps their order, as the link's
server does. `outcome.overflow` marks that the pending queue overflowed, where
the code loses a frame whose counters are already allocated (a listed hazard).

### How `GroundFeed` corresponds to the code

`table` is the event table and what the pump thread does with one event: append,
publish, commit the consequences. `GET /api/state` is the handler in
`http_app.py`, not `RealtimeHub.snapshot`, which the running application does not
call: it reads the cursor first (`BeginSnapshot`), then the commands, the list of
events, and jobs and products, one read a step (`ReadSnapshot`, `NextRead`), and
never takes the hub's lock, so its answer may show and list what is beyond its
cursor. `JobEvents` are the events whose consequences are in jobs and products
only, which are read last; those of the others show in the commands, read first.
`hub` is the holder of `RealtimeHub`'s lock, which only a connection takes: it
makes the same reads with the lock held (`BeginConnect`, `ReadConnect`), then the
cursor, replay and registration (`EndConnect`). Publication waits for the lock;
appending and committing do not. `ServeSocket` sends what is queued. The page has
one socket, one poll and at most one load or resync under way; JavaScript handlers
are atomic. The poll's `setInterval` does not wait for an answer; the model keeps
one request of each kind at a time, a bound.

Left out: byte bounds (they act as the event bound), the retention floor of
replay, which nothing in the running system sets, and everything the page draws.

### How `PatchResults` corresponds to the code

`staging` are the `.<target>.staging-*` directories beside the target, `target` the
published one, `writer` the `PatchResultWriter` of the one process at work. A
line of the records file is written in three pieces (two parts of the JSON text
and the newline), because a stop between two `write` calls of the stream leaves a
torn line: `AppendRecord` puts the payload into the buffer and each `Flush` moves
one piece to the file. `AppendFails` is a flush or `fsync` that raises: the record
is not counted and the rest of the payload stays in the buffer, so a later append
or `close` may still write it. `OpenResumed` is `_resolve_staging` and
`_load_existing`, `Finalize`, `Seal` and `Publish` are the steps of `finalize`
(`PublishRefused` when another run has published), `Crash` leaves the files and
takes the process. `Readable` is `verify_patch_results`; `EvaluateResult` and
`EvaluatePath` are the two ways into `DecisionPolicy.evaluate`. A record remembers
as a ghost the request it was computed for; the code writes only part of that
request into it (`link`) and trusts the header for the rest (`source`).

`Verdict` weighs patches by their number, where the policy weighs them by their
valid area, and resuming is wider than its one caller in the repository:
`InferenceAdapter.run` always starts at patch 0.

Left out: a power loss that takes back written data or an unsynced header; a
resumed run that asks for another threshold or compute profile; the numbers in
the records.

### How `SegmentationTraining` corresponds to the code

`TrainEpoch` is a pass of `train`'s loop with what it validated chosen by the
environment; `WriteCheckpoint` is what follows the loop. The weights are named by
the epoch that made them, and since `build_checkpoint` keeps references, the
checkpoint gets the weights of the last epoch. `ClassifierEpoch`,
`ClassifierValidate` and `SaveBestModel` are the loop of `train.py`, which can be
interrupted while it writes. Calibration works on pixels with a probability
level and a target; ratios are compared by cross multiplication, with `_safe`'s
zero for an empty denominator.

### How `ColabSession` and `ColabNotebooks` correspond to the code

`ColabSession` has one operator per operation that the notebooks share (copy
unless different, checkout, download, audit, extract, preprocess, archive, train,
save, calibrate, test, export, package), and `ColabNotebooks` has one action per
cell of each notebook, with that notebook's arguments: what it reuses, what it
refuses, what it only warns of. `kernel` is the running cell and what the notebook
holds in memory, `disk` the machine's disk, `drive` the one folder that all four
use. A kernel restart keeps the disk, a lost machine does not. A cell raises where
its code raises, and "Run all" starts over. A model, and what is made from it, is
the number of its training.

Either fault may cut off the write to Drive that is under way (`CutOff`): the audit,
which is rewritten in place, and every copy made by `copy_if_absent_or_same`, whose
`shutil.copy2` is not atomic, namely cache metadata, checkpoint, report, P0/P1
calibration, comparison across seeds, each deliverable and the bundle. What a torn
file does later follows from the code that meets it. Another copy to its name
raises, since the content differs. Readers of JSON take a torn report, calibration or
deliverable for absent; torn metadata do not match in the notebooks that preprocess
and raise in those that only read the cache, and a torn calibration makes the
comparison raise. A torn bundle would be taken unread (`Package`), and what keeps it
from being packaged is that no later session gets past the checkpoint. Only a
checkpoint, a report and so on that is whole is followed by the next file, which is
the second half of `EvidenceIsOneModel`. Torn files on the local disk are left out:
a kernel restart after which they matter would have to get past the training and the
checkpoint on Drive. So are the files that are only written or only validated
against a copy of their own (error atlas, decision spec, training summary, caches of
validation and encoder).

Numeric work is left out: tests, parity checks and quality gates may raise or
not. Checks that depend on W&B, on credentials or on the GPU are the choice in
`Check`.

Two facts of the code show in the guards. `find_reusable_training_report`
compares 25 fields with 17 and never reuses a training (`SharedReusable`), and
the packaging cell of the P0/P1 notebook names a file that the notebook writes
under another name and always raises (`P0P1Package`).

## 3. Runs

| run | instance | shows |
|---|---|---|
| `runtime` | one command, one dispatcher under the lock, one receiver, two sessions, two attempts, one crash | leases and outcomes of rows, sequence uniqueness through rollover, generations never go back, refinement of `CommandDelivery`, and that every command is settled |
| `binding` | two dispatchers, one refresher, two spacecraft, a rebind or migration, no lock | no send under a dead binding; nothing stays open for a retired spacecraft; attempts only move forward |
| `rejected` (violation) | journal event without the direct answer | a rejected command becomes acknowledged |
| `ledger` | two namespaces of two ids, one idempotency key with two bodies, one product requested again, reports in any order, retirement | rows are unique; no request key is issued twice; a repeated Idempotency-Key gets the same command; each downlink shows only what was reported of its own transfer; transfers only advance; no deferred report is stranded |
| `jobs` | two analyses, one cancel, one foreign command; one pending place, one restart, one worker death, any number of crashes | products agree with their jobs on every path, one truthful final event, stable ends and answers, every job ends |
| `deadline` (violation, with fairness) | one analysis whose deadline passes while it runs | the worker is asked to stop, answers CANCELED, and the job stays RUNNING |
| `transfer` | two downlinks of three products of one, one and two chunks, one restart of any process | whatever is lost, refused or interrupted, a published directory is the whole bundle of its own product, tables claim only what is on disk (refinement of `ProductRelease`), one file is received at a time and no reservation leaks, nothing settled is undone; without faults every downlink is published |
| `crossed` (violation) | the same instance | after a transfer that failed without an END, the next one's chunks are recorded in the failed one's epoch |
| `link` | two endpoints, any restarts of the satellite, one crash of the link, one mission frame | identifiers stay unique across the link's crashes; no frame crosses boots; the three processes come to agree on a session |
| `feed` | telemetry: two boots, six frames, counters modulo 6; feed: three events, a client queue of one, one failure | frames are acted upon at most once and, until the satellite's queue has overflowed, in the order of their counting; a frame is refused only as a second copy, as half a modulus ahead or after an overflow; the stream has no gap; the screen catches up |
| `imagery` | four epochs; three pixels at six levels; four notebooks, two trainings, one fault, one push to main; a capture of two patches, three requests, three runs, two faults | the best epoch and the best file are the best, refinement never loses, Drive holds the evidence of one model and nothing beyond a torn file, the cache is sound and trainings use the data they declare (`DataIsDeclared`); an artifact that is accepted holds every patch of one capture, a clean run publishes such an artifact, and no capture is deleted on less |
| `weights` (violation) | the same with one training | the checkpoint that names the best epoch holds other weights |

Bounds. One request is enough for the row properties because no transition
reads another request's row except the capacity count; two attempts, two
generations and a modulus of 1 make retry, rebind and sequence rollover happen
within the clock's four ticks (lease and ACK timeout are one tick, the expiry
three). In `binding` two dispatchers are what a lease race needs, and an expiry
of one tick ends a command within the clock's two, so that leases, expiry and
migration meet; dispatchers and spacecraft are interchangeable (symmetry, no
liveness). The proofs remove these bounds for the properties they cover. The
clock stops at `MaxTime` and request keys run out, so the finite instance may
stop: deadlock is not checked.

For the ledger, two request ids in each of two namespaces make exhaustion and
rotation happen; a client's key against a product's, two bodies under one
idempotency key, and one product requested again are what a mix-up needs. Its
ids and clock run out, so deadlock is not checked.

For the payload, two jobs with one pending place make the worker
refuse work (the second job with the first pending while the worker is not
ready), one restart and one death exhaust the budget, and crashes are unbounded.
`jobs` checks deadlock: a satellite can always be restarted.

For the file transfer, two transfers are what crossing needs; two products of
equal size can be taken for each other by everything but their digests, and the
product of two chunks can have a gap. One restart, of any process, falls between
any two steps; a second restart is beyond this instance, and the proofs cover any
number of them. Commands and restarts run out and a
satellite that exited stays down, so deadlock is not checked.

For the link, two boots and one crash, with at most two of crash, frame and
further restart together (`MaxTrouble`), put each fault between any two steps of
a handshake; one datagram per address and kind in flight still lets a stale one
arrive. For telemetry, six frames and a modulus of six are the smallest numbers
where half the modulus, from which a gap is ambiguous, lies within reach of
losses; the file queue and the event queue then hold frames at the same time. For
the feed, three events overflow a queue of one and exceed a list of one, and the
second of them has its consequences in jobs and products only (`JobEvents`), so that
the reads of a snapshot can each miss another one. In all
of these, counters run out and the instance may stop. For the notebooks, two
trainings are what mixed evidence needs, two commits a cache of the wrong
revision, one fault any one torn or half-finished state (the proofs cover any number); the seeds are interchangeable.
For patch results, two patches are what an order and a gap need, two requests
that differ only in what the header alone is checked for can be mixed by a
resumed run, a third names another engine; three runs with two faults let a run
stop, be resumed, fail and be resumed again (`weights` needs none of this and has
one of each). For calibration, three pixels give every order of Dice, overlap and false-clear
rate at two thresholds, and a refinement step that misses the coarse optimum. A
training loop ends, so `MCImagery` does not check deadlock.

Fairness of `LinkSession`: the processes keep running and keep greeting, and a
greeting or binding that is sent again and again is received at last (strong
fairness: `MaxInFlight` and loss may disable it in between). `EndpointsAgree` is
claimed only for processes that stay up. Fairness of `GroundFeed`: the pump
thread and the coroutines run, a connection that holds the hub's lock goes on with
its reads, publication gets the lock when it is free again and again (strong
fairness), and the page polls every second, has its polls answered and handles what
arrives; the socket is not assumed to work.

Fairness of `ProductTransfer` (`FairSpec`): the satellite goes on with a file it
has started and the ground's pump thread goes on with its frames and handlers;
both are loops that never wait for the other side. Nothing is assumed of the
link: `CleanDownlinkPublishes` is a promise for as long as `clean` holds. It is
no more, because of two hazards listed in `PROJECT.json`: a lost last chunk
leaves the epoch receiving and the ground busy, and a stop between the rename and
`mark_product_published` leaves the product VERIFIED for good.

Fairness of `SatellitePayload` (`FairSpec`): both threads run, time passes, and
a process that was started gets ready or dies, because the client has no
timeout for a worker that never sends its first heartbeat. The worker is not
assumed to finish anything: the deadline and its grace time end the job. Worker
deaths are finite in the instance, which matters for no property, since each
one ends the active job. `JobsEnd` leaves out the jobs of the `deadline`
finding, recorded in `lapsed`; `EveryJobEnds` is the full claim.

Fairness of `CommandOutbox` (`FairSpec`): the clock advances, a stopped process is restarted and
its constructor ends, and the pump thread keeps reconciling, as `_run_pump`
does every 250 ms while contact is open. Nothing is assumed of the link, the
satellite or the dispatchers, and settlement is claimed only for a process that
stays up in contact (`InContact`).

## 4. Proofs

`CommandOutboxProofs` proves, for any finite or infinite sets of instances,
sessions and threads, any finite set of requests and any policy:

* `TypeCorrect`, `LeaseSafety`, `OutcomeSafety`: the invariants `TypeOK`,
  `LeaseCoherent` and `OutcomeAgrees`;
* `SettledOnce`: the action property `TerminalIsFinal`;
* `Refinement`: `Spec => ImplementsDelivery`.

The argument. None of these is inductive alone. `IndInv` adds to the types and
the well-formedness of each row (`GoodRow`) that a dispatcher at work holds an
admitted request whose attempt is in the log (`WorkOK`), so its updates hit an
existing row, and that frames and receipts exist only for admitted and decided
requests (`KnownOK`), so an acknowledgement comes after a decision. Each
transaction is first reduced to what it does to one row (`RowStep`: only a live
row changes, and it stays live or fails); each action lemma then shows that it
preserves `IndInv` and has one of four shapes (`StepShape`: settle, admit,
acknowledge, decide), which are the actions of `CommandDelivery`.
The assumptions are the named ones of `CommandOutbox` and `TcSequenceAllocator`
(positive policy values, a session to start with, `None` distinct from names).

The second part of `CommandOutboxProofs` goes on from there, for any number of dispatchers,
receivers, instances and sessions and without the dispatch lock:

* `SendsAreFenced` (`SendUnderBinding`) and `RetirementSettles`
  (`RetiredTargetsSettled`);
* `SequencesAreUnique` (`NoSequenceReuse`), through rollovers and restarts;
* `AttemptsNeverReturn` and `BindingsNeverReturn`, the action properties.

`BindInv` adds to `IndInv` that a dispatcher that still owns its lease took it
under the binding the database has now (`OwnedIsCurrent`), which a rebind makes
true by taking the leases away and not by looking at the dispatchers; that only
the bound instance is active (`OneActive`); that a process which is down has no
dispatcher (`Stopped`); and that every attempt's count lies behind its allocator
in the order of epoch and count (`AttemptsBefore`), without which uniqueness is
not inductive. `RowsKept` is what every step does to every row and carries
`RetiredTargetsSettled` through all of them.

`CommandLedgerProofs` proves, for any sets of namespaces, clients, products and
transfers and any range of ids: `Invariance`, `LedgerSafety` (coherent
namespaces, `FileStateIsOwn`), `ReportsJoin` (`NothingStranded`), `KeysAreFresh`,
`AdmissionIsIdempotent`, `TransfersAdvance` and `RowsAreUnique` (`UniqueRows`).
The last needs, beside `IndInv`, that a row's key is either a client's or made of
its product and ordinal, and that ordinals of one product differ (`RowsKeyed`).
Its `IndInv` adds that every
issued key lies below its namespace's next id (`IssuedBelow`, without which
freshness is not inductive), that rows have issued keys (`RowsBacked`), that an
answer is backed by a command or by its retirement marker (`AnswersBacked`,
which carries idempotency through retirement), and that what the ground
correlates really happened (`Correlated`).

`SatellitePayloadProofs` proves, for any sets of jobs and commands and any
policy: `TypeCorrect`, `EndedOnce` (`OneTerminalState`), `AnsweredOnce`
(`AnswersAreStable`), `ProductsMatch` (`ProductMatchesJob`) and `TrueEvents`
(`EventsAreTrue`). Its `IndInv` adds to the types that a job exists only for
a recorded command, so an admission never overwrites a finished job; that an
answer given is the stored result; and that the command the pump is at has been
answered to nobody, so a refusal committed in pieces contradicts no answer
(`PumpOK`). Whoever handles a result has a job (`ThreadsOK`), so every
transition is `Transition` from live states. It is split into parts that share
few variables, and each action is shown to keep each part.

Products and events need who owns a job (`OwnInv`, over `IndInv`). An admitted
job in work is in one place: with the pump that admits it, in the queue of
pending requests, among those left over by a lost worker, active, or in the
callback of a thread (`OwnedOnce`; the active job may also be in the monitor's
callback, `MonitorOwns`). The worker and its result are about the active job
(`WorkerSide`). Each place says how far the job's commits have come (`Holding`):
live until its owner ends it, then without a settled product, then without an
event. What remains is a statement about one job's rows (`Consistent`), which no
other thread can disturb because it does not own the job. It follows that the
branch of `_handle_worker_result` for a job that has already ended is a
precaution: no execution of this model takes it.
The assumptions are `PolicyAssumption` and `RequestAssumption`: positive queue
length, and distinct keys for distinct kinds of command.

`ProductTransferProofs` proves, for any products and sizes and any number of
transfers, faults and restarts of the three processes: `WholeProducts`
(`PublishedIsWhole`), `BackedRecords` (`RecordsAreBacked`), `SingleReceiver`
(`OneReceiver`), `Settlement` (`NothingUndone`) and `ReleaseRefinement`
(`ImplementsRelease`). `TransferInv` says for each
phase of the ground's handler (`WorkInv`) what it has made durable so far, so that
a restart between any two steps leaves tables, reservations and directories in a
state the next handler accepts: from "verified" on the epoch holds the whole
bundle, at "staged" the directory is not there yet, from "renamed" on it is.
`StoreInv` is what the tables claim of the disk, `ReceiverInv` that one epoch is
received at a time, `SenderInv` that every frame under way is of a transfer in
the journal. That `crossed` finds chunks of another transfer in an epoch does not
contradict `WholeProducts`: the checksums are what carries it (`WholeBundle`).
The refinement maps the journal's rows to what was requested and the ground's
tables and directories to stage, released and listed. Each action then is one of
`ProductRelease` or a stutter: a transfer announces only a product that is still
unknown, verification of a released product is skipped, the rename finds the row
VERIFIED because a PUBLISHED one would have its directory, and artifacts are
listed after the row was completed (the part of `WorkInv` about "published").

`LinkSessionProofs` proves, for any number of crashes, sessions, boots and
datagrams: `FreshIdentifiers` (`IdentifiersAreFresh`) and `NoFrameCrossesBoots`
(`FramesStayInTheirBoot`). Memory is ahead of the checkpoint only while it is
being saved (`CheckpointOK`); whatever is visible is behind the checkpoint a crash
would fall back to, and a later generation names a later session (`BindingsOK`);
a frame belongs to the boot of its session unless its sender had adopted another
boot's binding (`FramesOK`, `SatelliteOK`).

`TelemetryProofs` proves, for any capacities, moduli and numbers of events:
`FramesActedOnceInOrder`, `RefusalsHaveCause` and `StreamSafety`
(`ActedOnceInOrder`, `RefusedForCause`, `StreamIsContiguous`). For telemetry,
frames in queues and on the wire have counters of their own, below what the
journal has counted (`QueuesInv`, `WireInv`); the ground's counters are behind the
journal's (`StationInv`); what was acted upon is gone from queue and wire but for
a copy at the head (`ActedInv`); and without an overflow everything still to come
is newer than what the ground counted (`OrderInv`). For the feed, what a socket
has sent, holds and has queued is one run of consecutive identifiers that ends
where publication stands, or at the snapshot's cursor (`StreamInv`), which rests
on who holds the hub's lock (`LockHeld`).

`PatchResultsProofs` proves, for any grid, requests, findings, threshold and
number of runs and faults: `ReadableWhole`, `CleanRuns`, `Deletion` and `Stays`
(`ReadableIsWhole`, `CleanRunsAreReadable`, `DeletionIsJustified`,
`PublishedStays`). In `PatchInv` every piece of a file was computed for the
directory's header and only the last line may lack its end (`Pure`); the writer's
records are one request's in the order of the patches (`InOrder`); and as long as
nothing went wrong the file holds what the writer remembers, up to the payload
under way (`Coherent`). `clean` is needed in `CleanRunsAreReadable`: a file that
lost only its last newline is taken up by a resumed run, since `json.loads` does
not ask for one; the next append joins that line, and `finalize` publishes, with
matching checksums, a file that the module's own reader refuses. Such an artifact
makes the policy retain the capture, so `DeletionIsJustified` does not need it.

`TrainingProofs` proves, for any number of epochs, patiences, metrics, pixels,
levels, steps and limits: `TrainingInvariant`, `SelectionHolds`
(`SelectionIsBest`) and `CalibrationHolds` (`CalibrationNeverWorse`). `FitInv`
says that the best epoch in memory is the best of those validated so far, and that
the epochs since then are what the stopping rule has counted; `ClfInv` says the
same of the file on disk at each point an interruption may fall between
validation and save. Calibration needs that every non-empty set of candidates has
a best one, so that the `CHOOSE` in `SelectThreshold` finds it: `Beats` is asymmetric,
total and transitive (`BeatsAsymmetric`, `BeatsTotal`, `BeatsTransitive`), which
for ratios compared by cross multiplication is where the arithmetic lies, and the
best of the thresholds up to `n + 1` comes from the best of those up to `n`. That
induction is over a set (`SetInduction`, from the least element of a set of
numbers), because the library's induction takes an operator as a parameter. The
coarse optimum is among the refined candidates, which is the claim.

It also proves, for any number of seeds, trainings, commits and faults and four
notebooks in any order: `ColabInvariant`, `EvidenceOfOneModel`
(`EvidenceIsOneModel`) and `DeclaredData` (`DataIsDeclared`). `SessionInv` has a
part about files that holds everywhere and, for each cell, what it knows when it
starts: `ModelAt` and `DataAt`. Evidence stays one model because from the moment a
checkpoint is saved the model in memory, the file on the machine and the one on
Drive are the same for the slot until the kernel ends, and because a copy to Drive
never replaces a file of another content (`CanSave`); without the per-cell part the
cells that copy reports could not know it. Every copy has a lemma for the file it
writes, whole or torn (`CheckpointWritten`, `ReportWritten`, `CalibrationWritten`,
`AggregateWritten`, `DeliverableWritten`, `BundleWritten`), and `CutOffInv` is their
use: a torn file takes the place of none, so nothing on Drive rests on it, and
`ModelAt` knows which files are whole by the time the next is copied. Data are what they declare because
metadata are believed only beside their archive, and the contract found there is
carried through processing and extraction to training. There is one lemma per
operation and one per notebook. The assumptions are `TrainingAssumption` (positive
steps, a finite set of pixels) and `ColabAssumption`.

Only model-checked: liveness (`EventuallySettled`, `JobsEnd`,
`CleanDownlinkPublishes`, `EndpointsAgree`, `ScreenCatchesUp`), which is outside
the prover's reach because it needs `ENABLED`. Every invariant and every action
property that a passing run checks is stated by a theorem.

## 5. Not modelled

* `register_instance`, `persist_attempt`, `reset` of the sequence allocator,
  journal compaction, `ProductStore.reconcile`: only tests call them, or nothing.
* Wire encodings (`protocol/*`), numeric image processing (`sat_ai`, most of
  `src/src`, TensorRT), presentation (`gds/web` beyond store and client),
  bookkeeping tables, launchers and deployment files: no control state, or
  properties of numbers and bytes that a small instance says nothing about.
* Retention (`gds/retention.py`), the writer's queue limits and priorities, the
  link's bounded queues and blackout replay, the other staged artifact writers
  (`PatchResults` has the one that decisions rest on): within reach, not done.
* The Kaggle and the classifier notebooks, and two Colab sessions at once on one
  Drive folder, for which Drive gives no ordering that the code could rely on.
* Hazards without a property: those whose note in `PROJECT.json` says why. Three
  more were met while modelling. A command may leave after its expiry, because
  `mark_sent` checks only the lease. An event whose counters are stored but whose
  handling was cut off is never acted upon (`TelemetryDownlink` has the step). A
  machine lost within or between the copies of checkpoint, report and bundle leaves a
  Drive folder on which no later training can finish, because a new training makes other bytes
  and the copy refuses them.

## 6. Plan

Done: the modules above. Next:

1. Retention, eviction, pins and tombstones of products, as actions of
   `ProductTransfer` that `ProductRelease` would have to allow.
2. Bounded queues and blackout of the link; the other staged artifact writers and
   their recovery; a power loss under `PatchResults`.
