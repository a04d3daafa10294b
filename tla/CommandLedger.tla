--------------------------- MODULE CommandLedger ---------------------------
(***************************************************************************)
(* The durable command ledger of the ground data system: request keys and  *)
(* their namespaces (gds/request_keys.py), idempotent admission, product   *)
(* downlinks and their transfers, and the retirement of finished commands  *)
(* (gds/ledger.py).                                                        *)
(*                                                                         *)
(* Each operation is one transaction of the SQLite writer, so it is one    *)
(* step; an operation that raises is rolled back and is no step at all.    *)
(* How a command gets from LIVE to its outcome is CommandOutbox's matter:  *)
(* here it is the one step Settle.                                         *)
(***************************************************************************)
EXTENDS Integers, FiniteSets

CONSTANTS
    Grounds,        \* ground_instance_ids the random source may draw
    MaxRequestId,   \* MAX_U32
    ClientKeys,     \* Idempotency-Keys of HTTP clients
    Bodies,         \* semantic digests of HTTP bodies
    Products,       \* a product together with the request that made it
    Transfers,      \* transfer ids of the satellite, counted up by its journal
    FileReports,    \* bound: the file states that reassembly reports
    None,           \* SQL NULL
    Capacity,       \* outbox_capacity
    Retention,      \* HTTP_IDEMPOTENCY_RETENTION
    PendingTTL,     \* PENDING_FILE_OBSERVATION_TTL
    MaxOrdinal,     \* bound: admissions of one product
    MaxTime         \* bound: the clock stops here

ASSUME LimitsAssumption ==
    /\ MaxRequestId \in Nat \ {0}
    /\ Capacity \in Nat \ {0}
    /\ Retention \in Nat \ {0}
    /\ PendingTTL \in Nat \ {0}
    /\ MaxOrdinal \in Nat \ {0}
    /\ MaxTime \in Nat
ASSUME KeysAssumption ==
    /\ None \notin Grounds \cup Products \cup Transfers
    /\ None \notin Grounds \X (1 .. MaxRequestId)
    /\ ClientKeys \cap (Products \X (1 .. MaxOrdinal)) = {}
    /\ Bodies \cap Products = {}
    /\ Transfers \subseteq Nat
    /\ FileReports \subseteq {"RECEIVING", "VERIFIED", "FAILED", "CANCELED"}

VARIABLES
    now,            \* the clock
    namespaces,     \* ground_namespaces
    active,         \* gds_metadata.active_ground_instance_id
    commands,       \* commands joined with command_outbox, by RequestKey
    retired,        \* http_idempotency_retired, by idempotency key
    downlinks,      \* product_downlink_ledger, by RequestKey
    pending,        \* product_downlink_pending_files
    targetRetired,  \* the spacecraft instance is RETIRED
    issued,         \* history: every RequestKey ever handed out
    answered,       \* history: the RequestKey each client key was last accepted with
    carried,        \* the satellite: which downlink each transfer id serves
    observed        \* history: what file reassembly reported of each transfer

allocation == <<namespaces, active, issued>>
ledger     == <<commands, retired, targetRetired, answered>>
transfers  == <<downlinks, pending>>
satellite  == <<carried, observed>>
vars       == <<now, allocation, ledger, transfers, satellite>>

(***************************************************************************)
(* Types.                                                                  *)
(***************************************************************************)
RequestKeys     == Grounds \X (1 .. MaxRequestId)
Ordinals        == 1 .. MaxOrdinal
IdempotencyKeys == ClientKeys \cup (Products \X Ordinals)
Outcomes        == {"ACKED", "FAILED"}
FileStates      == {"RECEIVING", "VERIFIED", "FAILED", "CANCELED"}
TransferStates  == {"ADMITTED", "DISPATCHED"} \cup FileStates

Namespace == [state : {"ABSENT", "ACTIVE", "DRAINING", "RETIRED"},
              next : 1 .. MaxRequestId + 1]
Command   == [state : {"ABSENT", "LIVE"} \cup Outcomes,
              key : IdempotencyKeys \cup {None},
              digest : Bodies \cup Products \cup {None}]
Marker    == [original : RequestKeys \cup {None},
              digest : Bodies \cup Products \cup {None}, until : Nat]
Downlink  == [product : Products \cup {None}, ordinal : 0 .. MaxOrdinal,
              transfer : Transfers \cup {None}, state : TransferStates]
Observation == [state : FileStates \cup {"NONE"}, until : Nat]
Carriage  == [req : RequestKeys \cup {None}, product : Products \cup {None}]

NoNamespace   == [state |-> "ABSENT", next |-> 1]
NoCommand     == [state |-> "ABSENT", key |-> None, digest |-> None]
NoMarker      == [original |-> None, digest |-> None, until |-> 0]
NoDownlink    == [product |-> None, ordinal |-> 0, transfer |-> None,
                  state |-> "ADMITTED"]
NoObservation == [state |-> "NONE", until |-> 0]
NoCarriage    == [req |-> None, product |-> None]

TypeOK ==
    /\ now \in Nat
    /\ namespaces \in [Grounds -> Namespace]
    /\ active \in Grounds \cup {None}
    /\ issued \subseteq RequestKeys
    /\ commands \in [RequestKeys -> Command]
    /\ retired \in [IdempotencyKeys -> Marker]
    /\ targetRetired \in BOOLEAN
    /\ answered \in [ClientKeys -> RequestKeys \cup {None}]
    /\ downlinks \in [RequestKeys -> Downlink]
    /\ pending \in [Products \X Transfers -> Observation]
    /\ carried \in [Transfers -> Carriage]
    /\ observed \in [Transfers -> SUBSET FileStates]

Init ==
    /\ now = 1
    /\ namespaces = [g \in Grounds |-> NoNamespace]
    /\ active = None
    /\ issued = {}
    /\ commands = [r \in RequestKeys |-> NoCommand]
    /\ retired = [k \in IdempotencyKeys |-> NoMarker]
    /\ targetRetired = FALSE
    /\ answered = [k \in ClientKeys |-> None]
    /\ downlinks = [r \in RequestKeys |-> NoDownlink]
    /\ pending = [o \in Products \X Transfers |-> NoObservation]
    /\ carried = [t \in Transfers |-> NoCarriage]
    /\ observed = [t \in Transfers |-> {}]

Tick ==
    /\ now < MaxTime
    /\ now' = now + 1
    /\ UNCHANGED <<allocation, ledger, transfers, satellite>>

(***************************************************************************)
(* Request keys (gds/request_keys.py).                                     *)
(***************************************************************************)
\* Mutant of Unused: the random source is trusted not to repeat itself.
UnusedOrRetired(g) == namespaces[g].state \in {"ABSENT", "RETIRED"}

\* _new_unique_u64: a draw that is in the table already is drawn again.
Unused(g) == namespaces[g].state = "ABSENT"

Exhausted(g) == namespaces[g].next > MaxRequestId

\* No command of the namespace is under way, on either table.
Drained(g) == \A i \in 1 .. MaxRequestId : commands[<<g, i>>].state # "LIVE"

\* The namespaces once g has handed out its next id.
AfterAllocate(table, g) ==
    [table EXCEPT ![g] = [next |-> @.next + 1,
                          state |-> IF @.next + 1 > MaxRequestId
                                    THEN "DRAINING" ELSE "ACTIVE"]]

\* The namespaces once the active one has given way to g.
AfterRotate(g) ==
    [namespaces EXCEPT ![active].state = "RETIRED",
                       ![g] = [state |-> "ACTIVE", next |-> 1]]

\* _initialize_in_transaction on an empty database.  On a later start it only
\* checks what NamespacesCoherent states, and raises if that does not hold.
Initialize ==
    /\ active = None
    /\ \E g \in Grounds :
          /\ Unused(g)
          /\ active' = g
          /\ namespaces' = [namespaces EXCEPT ![g] = [state |-> "ACTIVE", next |-> 1]]
    /\ UNCHANGED <<now, issued, ledger, transfers, satellite>>

\* allocate_in_transaction hands out r; an exhausted namespace is replaced
\* first, or RequestNamespaceDrainingError aborts the whole admission.
Allocate(r) ==
    /\ active # None
    /\ \/ /\ ~Exhausted(active)
          /\ r = <<active, namespaces[active].next>>
          /\ namespaces' = AfterAllocate(namespaces, active)
          /\ UNCHANGED active
       \/ /\ Exhausted(active)
          /\ Drained(active)
          /\ \E g \in Grounds :
                /\ Unused(g)
                /\ r = <<g, 1>>
                /\ namespaces' = AfterAllocate(AfterRotate(g), g)
                /\ active' = g
    /\ issued' = issued \cup {r}

\* rotate_if_drained, on its own.
RotateIfDrained ==
    /\ active # None
    /\ Exhausted(active)
    /\ Drained(active)
    /\ \E g \in Grounds :
          /\ Unused(g)
          /\ namespaces' = AfterRotate(g)
          /\ active' = g
    /\ UNCHANGED <<now, issued, ledger, transfers, satellite>>

(***************************************************************************)
(* Admission of HTTP commands (AtomicCommandLedger.admit).                 *)
(***************************************************************************)
Present(r) == commands[r].state # "ABSENT"
HasRoom    == Cardinality({r \in RequestKeys : commands[r].state = "LIVE"}) < Capacity
Holder(k)  == {r \in RequestKeys : Present(r) /\ commands[r].key = k}

\* Mutant of Forgotten: only a command that still exists blocks its key.
ForgottenWithCommand(k) == TRUE

\* The retirement marker of k is absent, or expired and so deleted by admit.
Forgotten(k) == retired[k].original = None \/ retired[k].until <= now

\* A key and body seen before: the stored result, whatever the contact, the
\* capacity or the target have become meanwhile.
Replay(k, b) ==
    /\ \E r \in Holder(k) :
          /\ commands[r].digest = b
          /\ answered' = [answered EXCEPT ![k] = r]
    /\ UNCHANGED <<now, allocation, commands, retired, targetRetired, transfers,
                   satellite>>

\* A new command: the expired marker goes and the command, its outbox row and
\* its RequestKey come in the same transaction.
Admit(k, b) ==
    /\ Holder(k) = {}
    /\ Forgotten(k)
    /\ ~targetRetired
    /\ HasRoom
    /\ \E r \in RequestKeys :
          /\ Allocate(r)
          /\ commands' = [commands EXCEPT ![r] = [state |-> "LIVE", key |-> k,
                                                  digest |-> b]]
          /\ answered' = [answered EXCEPT ![k] = r]
    /\ retired' = [retired EXCEPT ![k] = NoMarker]
    /\ UNCHANGED <<now, targetRetired, transfers, satellite>>

\* What the outbox does with a command, in one step.
Settle(r, outcome) ==
    /\ commands[r].state = "LIVE"
    /\ commands' = [commands EXCEPT ![r].state = outcome]
    /\ UNCHANGED <<now, allocation, retired, targetRetired, answered, transfers,
                   satellite>>

\* Migration to another spacecraft instance fails every live command of this.
RetireTarget ==
    /\ ~targetRetired
    /\ targetRetired' = TRUE
    /\ commands' = [r \in RequestKeys |->
                       IF commands[r].state = "LIVE"
                       THEN [commands[r] EXCEPT !.state = "FAILED"] ELSE commands[r]]
    /\ UNCHANGED <<now, allocation, retired, answered, transfers, satellite>>

\* retire_terminal_command: the marker takes the place of the command, whose
\* outbox, attempt and downlink rows go with it.  A marker that is still in
\* the table makes the insertion fail.
RetireCommand(r) ==
    /\ commands[r].state \in Outcomes
    /\ retired[commands[r].key].original = None
    /\ retired' = [retired EXCEPT ![commands[r].key] =
                      [original |-> r, digest |-> commands[r].digest,
                       until |-> now + Retention]]
    /\ commands' = [commands EXCEPT ![r] = NoCommand]
    /\ downlinks' = [downlinks EXCEPT ![r] = NoDownlink]
    /\ UNCHANGED <<now, allocation, targetRetired, answered, pending, satellite>>

(***************************************************************************)
(* Product downlinks.                                                      *)
(***************************************************************************)
Admissions(p) == {r \in RequestKeys : downlinks[r].product = p}
Latest(p) == CHOOSE r \in Admissions(p) :
                \A s \in Admissions(p) : downlinks[s].ordinal <= downlinks[r].ordinal

\* Mutant of NextOrdinal: a retry is numbered like the admission it repeats.
NextOrdinalSame(p) ==
    IF Admissions(p) = {} THEN 1 ELSE downlinks[Latest(p)].ordinal

NextOrdinal(p) ==
    IF Admissions(p) = {} THEN 1 ELSE downlinks[Latest(p)].ordinal + 1

\* admit_product_downlink that does not replay: the first admission of the
\* product, or a retry of one that has its outcome.  Retirement markers are
\* not consulted.
AdmitDownlink(p) ==
    /\ Admissions(p) # {} => commands[Latest(p)].state # "LIVE"
    /\ NextOrdinal(p) <= MaxOrdinal
    /\ ~targetRetired
    /\ HasRoom
    /\ \E r \in RequestKeys :
          /\ Allocate(r)
          /\ commands' = [commands EXCEPT ![r] =
                [state |-> "LIVE", key |-> <<p, NextOrdinal(p)>>, digest |-> p]]
          /\ downlinks' = [downlinks EXCEPT ![r] =
                [product |-> p, ordinal |-> NextOrdinal(p), transfer |-> None,
                 state |-> "ADMITTED"]]
    /\ UNCHANGED <<now, retired, targetRetired, answered, pending, satellite>>

\* Mutant of Monotonic: the last report wins.
MonotonicLastWins(current, candidate) == candidate

Rank(s) == CASE s = "ADMITTED" -> 0 [] s = "DISPATCHED" -> 1
             [] s = "RECEIVING" -> 2 [] OTHER -> 3

\* _monotonic_downlink_state: reordered telemetry never moves a transfer back.
Monotonic(current, candidate) ==
    IF Rank(candidate) < Rank(current) \/ Rank(current) = 3
    THEN current ELSE candidate

\* The deferred observations that a transaction with clock at keeps.
PendingAt(at) ==
    [o \in Products \X Transfers |->
        IF pending[o].until <= at THEN NoObservation ELSE pending[o]]

\* The satellite admits the downlink command r under its next transfer id.  The
\* command may be settled on the ground by then, it was sent before.
Carry(r, t) ==
    /\ downlinks[r].product # None
    /\ carried[t] = NoCarriage
    /\ \A u \in Transfers : u < t => carried[u] # NoCarriage
    /\ \A u \in Transfers : carried[u].req # r
    /\ carried' = [carried EXCEPT ![t] = [req |-> r, product |-> downlinks[r].product]]
    /\ UNCHANGED <<now, allocation, ledger, transfers, observed>>

\* A deferred observation joins the receipt that explains it.
Merged(state, observation) ==
    IF observation.state = "NONE" THEN state ELSE Monotonic(state, observation.state)

Owners(t) == {r \in RequestKeys : downlinks[r].transfer = t}

\* Mutant of AfterReceipt: the deferred observation is left to its expiry.
AfterReceiptKept(kept, o) == kept

\* The observation a receipt has merged is deleted.
AfterReceipt(kept, o) == [kept EXCEPT ![o] = NoObservation]

\* update_product_downlink_transfer, for the receipt (APID 2) of transfer t; at
\* is the clock when the caller read it, before it waited for the writer.
ReceiveReceipt(t, report, at) ==
    LET r == carried[t].req
        o == <<downlinks[r].product, t>>
    IN  /\ carried[t] # NoCarriage
        /\ IF downlinks[r].product = None
           THEN pending' = PendingAt(at) /\ UNCHANGED downlinks
           ELSE /\ downlinks[r].transfer \in {None, t}
                /\ Owners(t) \subseteq {r}
                /\ downlinks' = [downlinks EXCEPT
                      ![r].transfer = t,
                      ![r].state = Merged(Monotonic(@, report), PendingAt(at)[o])]
                /\ pending' = AfterReceipt(PendingAt(at), o)
        /\ UNCHANGED <<now, allocation, ledger, satellite>>

\* Mutant of Claimants: a file also claims a retry that has no transfer yet.
ClaimantsOrUnassigned(p, t) ==
    {r \in RequestKeys : downlinks[r].product = p /\ downlinks[r].transfer \in {t, None}}

\* The admission a file of product p and transfer t belongs to, if it is known.
Claimants(p, t) ==
    {r \in RequestKeys : downlinks[r].product = p /\ downlinks[r].transfer = t}

\* A report that nothing explains yet is kept; a further one only advances it.
Deferred(old, report, at) ==
    IF old.state = "NONE" THEN [state |-> report, until |-> at + PendingTTL]
    ELSE [old EXCEPT !.state = Monotonic(@, report)]

\* update_product_downlink_file_state, for what reassembly reports (APID 3).
ReceiveFile(t, report, at) ==
    LET p == carried[t].product
        o == <<p, t>>
        kept == PendingAt(at)
    IN  /\ carried[t] # NoCarriage
        /\ IF Claimants(p, t) # {}
           THEN /\ \E r \in Claimants(p, t) :
                      downlinks' = [downlinks EXCEPT ![r].state = Monotonic(@, report)]
                /\ pending' = kept
           ELSE /\ pending' = [kept EXCEPT ![o] = Deferred(kept[o], report, at)]
                /\ UNCHANGED downlinks
        /\ observed' = [observed EXCEPT ![t] = @ \cup {report}]
        /\ UNCHANGED <<now, allocation, ledger, carried>>

\* reconcile_pending_product_downlink_files, on its own.
ReconcilePending(at) ==
    /\ pending' = PendingAt(at)
    /\ UNCHANGED <<now, allocation, ledger, downlinks, satellite>>

Next ==
    \/ Tick
    \/ Initialize
    \/ RotateIfDrained
    \/ RetireTarget
    \/ \E k \in ClientKeys, b \in Bodies : Replay(k, b) \/ Admit(k, b)
    \/ \E r \in RequestKeys :
          \/ \E outcome \in Outcomes : Settle(r, outcome)
          \/ RetireCommand(r)
          \/ \E t \in Transfers : Carry(r, t)
    \/ \E p \in Products : AdmitDownlink(p)
    \/ \E at \in 1 .. now :
          \/ ReconcilePending(at)
          \/ \E t \in Transfers :
                \/ \E report \in {"DISPATCHED", "FAILED"} : ReceiveReceipt(t, report, at)
                \/ \E report \in FileReports : ReceiveFile(t, report, at)

Spec == Init /\ [][Next]_vars
(***************************************************************************)
(* Properties.                                                             *)
(***************************************************************************)
\* A RequestKey is handed out once in the life of the installation, through
\* exhaustion, rotation and the deletion of the command that had it: the
\* satellite answers a key it knows from its journal without executing.
FreshKey == \A r \in RequestKeys : ~Present(r) /\ Present(r)' => r \notin issued
NoKeyReuse == [][FreshKey]_vars

\* What every start of the allocator checks and raises on: the metadata names
\* the one namespace that is not retired, which is DRAINING exactly when its
\* ids are used up; and no command of a retired namespace is under way.
NamespacesCoherent ==
    /\ active # None => namespaces[active].state \in {"ACTIVE", "DRAINING"}
    /\ \A g \in Grounds :
          /\ namespaces[g].state \in {"ACTIVE", "DRAINING"} => g = active
          /\ g = active => (namespaces[g].state = "DRAINING" <=> Exhausted(g))
          /\ namespaces[g].state = "RETIRED" =>
                \A i \in 1 .. MaxRequestId : commands[<<g, i>>].state # "LIVE"

\* A client that repeats its Idempotency-Key is accepted with another
\* RequestKey only after the first command was retired and its marker has
\* outlived the retention time: one command is never executed as two.
SameAnswer ==
    \A k \in ClientKeys :
       answered[k] # None /\ answered'[k] # answered[k] =>
          retired[k].original = answered[k] /\ retired[k].until <= now
OneCommandPerKey == [][SameAnswer]_vars

\* The UNIQUE constraints of commands and product_downlink_ledger never stop
\* an admission or a receipt: one command per idempotency key, one admission
\* per product and ordinal, one owner per transfer.
UniqueRows ==
    \A r, s \in RequestKeys :
       r # s =>
          /\ Present(r) /\ Present(s) => commands[r].key # commands[s].key
          /\ downlinks[r].product # None /\ downlinks[r].product = downlinks[s].product =>
                downlinks[r].ordinal # downlinks[s].ordinal
          /\ downlinks[r].transfer # None => downlinks[r].transfer # downlinks[s].transfer

\* Whatever a downlink says of its file was reported of the transfer that the
\* satellite opened for that very request: a file that arrives before its
\* receipt, or late, is never credited to a retry of the same product.
FileStateIsOwn ==
    \A r \in RequestKeys :
       downlinks[r].state \in {"RECEIVING", "VERIFIED", "CANCELED"} =>
          \E t \in Transfers :
             /\ carried[t].req = r
             /\ downlinks[r].transfer = t
             /\ downlinks[r].state \in observed[t]

\* Repeated and reordered telemetry never moves a transfer back, never changes
\* its final state and never gives it another transfer id.
Advance ==
    \A r \in RequestKeys :
       downlinks[r].product # None /\ downlinks'[r].product # None =>
          /\ Rank(downlinks'[r].state) >= Rank(downlinks[r].state)
          /\ Rank(downlinks[r].state) = 3 => downlinks'[r].state = downlinks[r].state
          /\ downlinks[r].transfer # None =>
                downlinks'[r].transfer = downlinks[r].transfer
TransferOnlyAdvances == [][Advance]_vars

\* No file report stays deferred once the receipt that explains it is there: a
\* downlink with its transfer has taken everything reported of it so far.
NothingStranded ==
    \A r \in RequestKeys, t \in Transfers :
       downlinks[r].product # None /\ downlinks[r].transfer = t =>
          pending[<<downlinks[r].product, t>>].state = "NONE"
=============================================================================
