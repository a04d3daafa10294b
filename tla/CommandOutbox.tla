--------------------------- MODULE CommandOutbox ---------------------------
(***************************************************************************)
(* The command path of the ground data system (GDS): admission into the    *)
(* durable outbox (gds/ledger.py), leasing, attempts, retries and receipts *)
(* (gds/outbox.py), link binding and its send fence (gds/binding.py) and   *)
(* the runtime that drives them (gds/local_sil.py), against a satellite    *)
(* that answers each request key once and a link that loses, repeats and   *)
(* reorders.                                                               *)
(*                                                                         *)
(* Every database mutation runs as one transaction of the single SQLite    *)
(* writer thread, so each is one step here; what the code does between two *)
(* transactions (a lease, a captured binding, a stamped receipt) is local  *)
(* state of the thread, and any other step may come in between.            *)
(***************************************************************************)
EXTENDS TcSequenceAllocator, Sequences, FiniteSets

CONSTANTS
    Requests,        \* RequestKeys the allocator may hand out
    Instances,       \* spacecraft instance ids
    Sessions,        \* link session ids
    LinkBindings,    \* the [gen, session] pairs the link announces
    StartupSession,  \* the session LocalSilRuntime binds at start (1)
    Dispatchers,     \* lease owners
    Receivers,       \* threads that pump telemetry
    Handlers,        \* HTTP handler threads that submit commands
    Refreshers,      \* threads that call LinkBindingService.refresh
    None,            \* SQL NULL and Python None
    DispatchLock,    \* TRUE: dispatches and rebinds exclude each other, as under
                     \* GdsMissionRuntime._dispatch_lock; FALSE: the services alone
    LeaseDuration, AckTimeout, BaseBackoff, MaxBackoff, MaxAttempts,  \* OutboxPolicy
    Capacity,        \* outbox_capacity of the ledger
    TTLs,            \* expiry intervals a client may ask for
    MaxGeneration,   \* bound: link generations 1 .. MaxGeneration
    MaxTime,         \* bound: the clock stops here
    MaxCrashes       \* bound: crashes of the GDS process

ASSUME PolicyAssumption ==
    /\ LeaseDuration \in Nat \ {0}
    /\ AckTimeout \in Nat \ {0}
    /\ BaseBackoff \in Nat \ {0}
    /\ MaxBackoff \in Nat
    /\ MaxBackoff >= BaseBackoff
    /\ MaxAttempts \in Nat \ {0}
ASSUME BoundsAssumption ==
    /\ Capacity \in Nat \ {0}
    /\ TTLs \subseteq Nat \ {0}
    /\ MaxGeneration \in Nat \ {0}
    /\ MaxTime \in Nat
    /\ MaxCrashes \in Nat
ASSUME NamesAssumption ==
    /\ StartupSession \in Sessions
    /\ LinkBindings \subseteq [gen : 1 .. MaxGeneration, session : Sessions]
    /\ DispatchLock \in BOOLEAN
    /\ None \notin Requests \cup Instances \cup Sessions \cup Dispatchers
ASSUME RequestsAssumption == IsFiniteSet(Requests)

VARIABLES
    now,        \* the clock; 0 stands for a NULL timestamp
    rows,       \* commands and command_outbox, joined on the RequestKey
    attempts,   \* command_attempts of each request, oldest first
    inst,       \* spacecraft_instances
    bound,      \* gds_metadata.bound_spacecraft_instance_id
    seqs,       \* tc_sequence_allocators of the TC APID
    phase,      \* the GDS process: down, booting (services built), up
    crashes,    \* crashes so far
    published,  \* BindingFence._bindings (generation 0: no entry)
    bindReq,    \* the bind() holding or waiting for the write fence
    refresh,    \* what each refresh() has read and not yet published
    api,        \* the contact_available each HTTP handler has read
    disp,       \* the dispatcher threads
    receiving,  \* a received frame, stamped with the link generation
    uplink,     \* TC frames handed to the link
    downlink,   \* APID 2 frames sent by the satellite
    onboard     \* the satellite journal's verdict on each request

durable == <<rows, attempts, inst, bound, seqs>>
process == <<phase, published, bindReq, refresh, api, disp, receiving>>
world   == <<uplink, downlink, onboard>>
vars    == <<now, crashes, durable, process, world>>

(***************************************************************************)
(* Types.                                                                  *)
(***************************************************************************)
NonterminalStates == {"HELD_NO_CONTACT", "OUTBOX_PENDING", "DISPATCHING", "SENT"}
TerminalStates    == {"ACKED", "EXPIRED", "DELIVERY_FAILED"}
RowStates         == {"ABSENT"} \cup NonterminalStates \cup TerminalStates
CommandStates     == {"NONE", "ADMITTED", "ACKED", "FAILED"}
Modes             == {"immediate", "next_contact"}
Reasons           == {"NONE", "EXPIRED", "CONTACT_LOST", "MAX_ATTEMPTS", "NACK",
                      "TARGET_INSTANCE_RETIRED", "REBIND"}
Contacts          == {"CONTACT_OPEN", "CONTACT_CLOSED"}  \* closed: NO_CONTACT, BLACKOUT
SendResults       == {"PERSISTED_NOT_SENT", "SENT", "NOT_SENT", "ACKED"}
Steps             == {"idle", "reconciling", "claiming", "claimed", "prepared",
                      "fenced", "armed", "failing", "mismatch"}
Verdicts          == {"UNSEEN", "ACCEPTED", "REJECTED"}
Generations       == 1 .. MaxGeneration

\* reason is last_delivery_reason once the row is terminal; the codes written
\* on the way (LINK_REBOUND, SEND_ERROR) are read by nobody and left out.
Row == [state : RowStates, command : CommandStates, mode : Modes,
        target : Instances \cup {None}, available : Nat, expires : Nat,
        owner : Dispatchers \cup {None}, leaseUntil : Nat, ackBy : Nat,
        reason : Reasons]
Attempt == [result : SendResults, gen : 0 .. MaxGeneration, session : Sessions,
            sequence : Nat, epoch : Nat]
Binding == [gen : 0 .. MaxGeneration, session : Sessions, contact : Contacts]
Instance == [state : {"ABSENT", "ACTIVE", "RETIRED"},
             gen : 0 .. MaxGeneration, session : Sessions, contact : Contacts]
BindArgs == [inst : Instances, gen : Generations, session : Sessions]
Snapshot == [inst : Instances, binding : Binding]
Submission == [inst : Instances, open : BOOLEAN]
Thread == [pc : Steps, req : Requests \cup {None}, gen : 0 .. MaxGeneration,
           session : Sessions, number : Nat]
Tc == [req : Requests, inst : Instances, session : Sessions]
Tm == [req : Requests, inst : Instances, session : Sessions, ok : BOOLEAN]
Receipt == [req : Requests, inst : Instances, gen : 0 .. MaxGeneration,
            session : Sessions, ok : BOOLEAN]

AbsentRow == [state |-> "ABSENT", command |-> "NONE", mode |-> "immediate",
              target |-> None, available |-> 0, expires |-> 0, owner |-> None,
              leaseUntil |-> 0, ackBy |-> 0, reason |-> "NONE"]
AbsentInstance == [state |-> "ABSENT", gen |-> 0, session |-> StartupSession,
                   contact |-> "CONTACT_CLOSED"]
Unpublished == [gen |-> 0, session |-> StartupSession, contact |-> "CONTACT_CLOSED"]
IdleThread == [pc |-> "idle", req |-> None, gen |-> 0,
               session |-> StartupSession, number |-> 0]

TypeOK ==
    /\ now \in Nat \ {0}
    /\ rows \in [Requests -> Row]
    /\ attempts \in [Requests -> Seq(Attempt)]
    /\ inst \in [Instances -> Instance]
    /\ bound \in Instances \cup {None}
    /\ seqs \in [Instances -> Allocator]
    /\ phase \in {"down", "booting", "up"}
    /\ crashes \in Nat
    /\ published \in [Instances -> Binding]
    /\ bindReq \in BindArgs \cup {None}
    /\ refresh \in [Refreshers -> Snapshot \cup {None}]
    /\ api \in [Handlers -> Submission \cup {None}]
    /\ disp \in [Dispatchers -> Thread]
    /\ receiving \in [Receivers -> Receipt \cup {None}]
    /\ uplink \subseteq Tc
    /\ downlink \subseteq Tm
    /\ onboard \in [Requests -> Verdicts]

Init ==
    /\ now = 1
    /\ rows = [r \in Requests |-> AbsentRow]
    /\ attempts = [r \in Requests |-> <<>>]
    /\ inst = [i \in Instances |-> AbsentInstance]
    /\ bound = None
    /\ seqs = [i \in Instances |-> FreshAllocator]
    /\ phase = "down"
    /\ crashes = 0
    /\ published = [i \in Instances |-> Unpublished]
    /\ bindReq = None
    /\ refresh = [f \in Refreshers |-> None]
    /\ api = [h \in Handlers |-> None]
    /\ disp = [d \in Dispatchers |-> IdleThread]
    /\ receiving = [v \in Receivers |-> None]
    /\ uplink = {}
    /\ downlink = {}
    /\ onboard = [r \in Requests |-> "UNSEEN"]

(***************************************************************************)
(* What one transaction does to one row.                                   *)
(***************************************************************************)
Live(o)        == o.state \in NonterminalStates
Expired(o)     == o.expires <= now
ContactOpen(i) == i \in Instances /\ inst[i].contact = "CONTACT_OPEN"
Active(i)      == i \in Instances /\ inst[i].state = "ACTIVE"
AttemptCount(r) == Len(attempts[r])

\* min(max_backoff, base_backoff * 2^(attempt_count - 1))
Backoff(n) ==
    LET delay == BaseBackoff * 2^(IF n > 1 THEN n - 1 ELSE 0)
    IN  IF delay \in 0 .. MaxBackoff THEN delay ELSE MaxBackoff

\* Mutant of Terminalize: the outbox row is settled, the command is forgotten.
TerminalizeOutboxOnly(o, state, reason) ==
    [o EXCEPT !.state = state, !.reason = reason, !.owner = None,
              !.leaseUntil = 0, !.ackBy = 0]

\* _terminalize: only ever applied to a live row.
Terminalize(o, state, reason) ==
    [o EXCEPT !.state = state, !.command = "FAILED", !.reason = reason,
              !.owner = None, !.leaseUntil = 0, !.ackBy = 0]
\* Mutant of Requeue: the row goes back without giving up its lease.
RequeueKeepsLease(o, state, available) ==
    [o EXCEPT !.state = state, !.available = available, !.ackBy = 0]

\* Back to the queue: lease and ACK deadline are dropped.
Requeue(o, state, available) ==
    [o EXCEPT !.state = state, !.available = available,
              !.owner = None, !.leaseUntil = 0, !.ackBy = 0]

\* Where a retry waits: next_contact commands are held while contact is closed.
RetryState(o) ==
    IF o.mode = "next_contact" /\ ~ContactOpen(o.target)
    THEN "HELD_NO_CONTACT" ELSE "OUTBOX_PENDING"

ContactLost(o) == o.mode = "immediate" /\ ~ContactOpen(o.target)

LeaseExpired(o) == o.state = "DISPATCHING" /\ o.leaseUntil <= now
AckTimedOut(o)  == o.state = "SENT" /\ o.ackBy # 0 /\ o.ackBy <= now
\* Mutant of Reconciled: expiry of a SENT row is left to its ACK timer.
ReconciledSentNeverExpires(o, n) ==
    IF ~Live(o) THEN o
    ELSE IF Expired(o) /\ o.state # "SENT" THEN Terminalize(o, "EXPIRED", "EXPIRED")
    ELSE IF LeaseExpired(o) THEN Requeue(o, RetryState(o), o.available)
    ELSE IF AckTimedOut(o)
         THEN IF n >= MaxAttempts
              THEN Terminalize(o, "DELIVERY_FAILED", "MAX_ATTEMPTS")
              ELSE Requeue(o, RetryState(o), now + Backoff(n))
    ELSE o

\* One iteration of the loop in reconcile(), for a row with n attempts.
Reconciled(o, n) ==
    IF ~Live(o) THEN o
    ELSE IF Expired(o) THEN Terminalize(o, "EXPIRED", "EXPIRED")
    ELSE IF LeaseExpired(o)
         THEN IF ContactLost(o)
              THEN Terminalize(o, "DELIVERY_FAILED", "CONTACT_LOST")
              ELSE Requeue(o, RetryState(o), o.available)
    ELSE IF AckTimedOut(o)
         THEN IF n >= MaxAttempts
              THEN Terminalize(o, "DELIVERY_FAILED", "MAX_ATTEMPTS")
              ELSE IF ContactLost(o)
              THEN Terminalize(o, "DELIVERY_FAILED", "CONTACT_LOST")
              ELSE Requeue(o, RetryState(o), now + Backoff(n))
    ELSE o

\* The whole reconcile transaction.
ReconcileAll == [r \in Requests |-> Reconciled(rows[r], AttemptCount(r))]

\* set_contact_state, contact opening: held work becomes due and paused ACK
\* timers start again.  Rows already past expiry are left for reconcile().
OnContactOpened(o) ==
    IF o.mode # "next_contact" \/ Expired(o) THEN o
    ELSE IF o.state = "HELD_NO_CONTACT"
         THEN [o EXCEPT !.state = "OUTBOX_PENDING", !.available = now]
    ELSE IF o.state = "SENT" /\ o.ackBy = 0
         THEN [o EXCEPT !.ackBy = now + AckTimeout]
    ELSE o

\* set_contact_state, contact closing: next_contact work is held and its ACK
\* timer paused, immediate work fails with the contact episode.
OnContactClosed(o) ==
    IF ~Live(o) \/ Expired(o) THEN o
    ELSE IF o.mode = "immediate"
         THEN Terminalize(o, "DELIVERY_FAILED", "CONTACT_LOST")
    ELSE IF o.state \in {"OUTBOX_PENDING", "DISPATCHING"}
         THEN Requeue(o, "HELD_NO_CONTACT", o.available)
    ELSE [o EXCEPT !.ackBy = 0]

\* An update of the attempts of one request whose results are in from.
Relabel(log, from, to) ==
    [k \in DOMAIN log |->
        IF log[k].result \in from THEN [log[k] EXCEPT !.result = to] ELSE log[k]]

(***************************************************************************)
(* Time, and the life of the GDS process.                                  *)
(***************************************************************************)
Tick ==
    /\ now < MaxTime
    /\ now' = now + 1
    /\ UNCHANGED <<crashes, durable, process, world>>

\* OutboxService.__init__ reconciles before anything else can run.
Boot ==
    /\ phase = "down"
    /\ phase' = "booting"
    /\ rows' = ReconcileAll
    /\ UNCHANGED <<now, crashes, attempts, inst, bound, seqs, published, bindReq,
                   refresh, api, disp, receiving, world>>

\* The durable state survives; every thread, the fence and the frames in the
\* process are gone.
Crash ==
    /\ phase # "down"
    /\ crashes < MaxCrashes
    /\ crashes' = crashes + 1
    /\ phase' = "down"
    /\ published' = [i \in Instances |-> Unpublished]
    /\ bindReq' = None
    /\ refresh' = [f \in Refreshers |-> None]
    /\ api' = [h \in Handlers |-> None]
    /\ disp' = [d \in Dispatchers |-> IdleThread]
    /\ receiving' = [v \in Receivers |-> None]
    /\ UNCHANGED <<now, durable, world>>

(***************************************************************************)
(* Link binding (gds/binding.py).  The runtime always binds with contact   *)
(* open (LocalSilRuntime.__init__, bind_link).                             *)
(***************************************************************************)
InstanceBinding(i) ==
    [gen |-> inst[i].gen, session |-> inst[i].session, contact |-> inst[i].contact]
OpenBinding(g, s) == [gen |-> g, session |-> s, contact |-> "CONTACT_OPEN"]
\* Mutant of BindAccepted: a generation may go back.
BindAcceptedAnyGeneration(i, g, s) ==
    /\ inst[i].state # "RETIRED"
    /\ (bound = i /\ g = inst[i].gen /\ s = inst[i].session) =>
          inst[i].contact = "CONTACT_OPEN"

\* The errors _bind_in_transaction raises before it writes anything: a retired
\* target, a generation that went back or kept its number under another
\* session, and a contact change smuggled in through bind().
BindAccepted(i, g, s) ==
    /\ inst[i].state # "RETIRED"
    /\ (bound # None /\ inst[i].state = "ACTIVE") =>
          /\ g >= inst[i].gen
          /\ g = inst[i].gen => s = inst[i].session
    /\ (bound = i /\ g = inst[i].gen /\ s = inst[i].session) =>
          inst[i].contact = "CONTACT_OPEN"

Rebind(i, g, s)  == bound = i /\ InstanceBinding(i) # OpenBinding(g, s)
Migration(i)     == bound # None /\ bound # i

\* A new session of the same instance requeues its live commands; another
\* instance fails them.
RowAfterBind(o, i, g, s) ==
    IF ~Live(o) \/ o.target # bound THEN o
    ELSE IF Rebind(i, g, s) THEN Requeue(o, "OUTBOX_PENDING", now)
    ELSE IF Migration(i)
         THEN Terminalize(o, "DELIVERY_FAILED", "TARGET_INSTANCE_RETIRED")
    ELSE o
\* Mutant of AttemptsAfterBind: attempts sent in the old session are taken for
\* never sent.
AttemptsAfterBindReset(r, i, g, s) ==
    IF rows[r].target # bound \/ ~Rebind(i, g, s) THEN attempts[r]
    ELSE Relabel(attempts[r], {"SENT"}, "PERSISTED_NOT_SENT")

AttemptsAfterBind(r, i, g, s) ==
    IF rows[r].target # bound THEN attempts[r]
    ELSE IF Rebind(i, g, s)
         THEN Relabel(attempts[r], {"PERSISTED_NOT_SENT", "SENT"}, "NOT_SENT")
    ELSE IF Migration(i) THEN Relabel(attempts[r], {"PERSISTED_NOT_SENT"}, "NOT_SENT")
    ELSE attempts[r]
InstanceAfterBind(j, i, g, s) ==
    IF j = i THEN [state |-> "ACTIVE", gen |-> g, session |-> s,
                   contact |-> "CONTACT_OPEN"]
    ELSE IF j = bound THEN [inst[j] EXCEPT !.state = "RETIRED", !.contact = "CONTACT_CLOSED"]
    ELSE inst[j]

\* fence.retire of the old instance, then fence.publish of the new binding.
PublishedAfterBind(j, i, g, s) ==
    IF j = i THEN OpenBinding(g, s)
    ELSE IF j = bound THEN Unpublished
    ELSE published[j]

\* The transaction and the publication, both inside the write fence.
BindTransaction(i, g, s) ==
    /\ BindAccepted(i, g, s)
    /\ rows' = [r \in Requests |-> RowAfterBind(rows[r], i, g, s)]
    /\ attempts' = [r \in Requests |-> AttemptsAfterBind(r, i, g, s)]
    /\ inst' = [j \in Instances |-> InstanceAfterBind(j, i, g, s)]
    /\ bound' = i
    /\ published' = [j \in Instances |-> PublishedAfterBind(j, i, g, s)]

\* LocalSilRuntime.__init__ binds the profile's instance with generation 1 and
\* session 1.  A refused bind ends the process.
StartupBind(i) ==
    /\ phase = "booting"
    /\ BindTransaction(i, 1, StartupSession)
    /\ phase' = "up"
    /\ UNCHANGED <<now, crashes, seqs, bindReq, refresh, api, disp, receiving, world>>

StartupRefused(i) ==
    /\ phase = "booting"
    /\ ~BindAccepted(i, 1, StartupSession)
    /\ phase' = "down"
    /\ UNCHANGED <<now, crashes, durable, published, bindReq, refresh, api, disp,
                   receiving, world>>
\* Mutant of Readers: a rebind does not wait for the sends in progress.
ReadersIgnored == {}

\* BindingFence._readers: the threads between read() and its exit.
Readers == {d \in Dispatchers : disp[d].pc \in {"fenced", "armed", "failing"}}

\* The dispatches between taking and releasing _dispatch_lock.
Dispatching == {d \in Dispatchers : disp[d].pc # "idle"}

\* write() raises _write_active at once and then waits for the readers.
BindBegin(i, g, s) ==
    /\ phase = "up"
    /\ bindReq = None
    /\ DispatchLock => Dispatching = {}
    /\ bindReq' = [inst |-> i, gen |-> g, session |-> s]
    /\ UNCHANGED <<now, crashes, durable, phase, published, refresh, api, disp,
                   receiving, world>>

BindCommit ==
    /\ bindReq # None
    /\ Readers = {}
    /\ BindTransaction(bindReq.inst, bindReq.gen, bindReq.session)
    /\ bindReq' = None
    /\ UNCHANGED <<now, crashes, seqs, phase, refresh, api, disp, receiving, world>>

BindRefused ==
    /\ bindReq # None
    /\ Readers = {}
    /\ ~BindAccepted(bindReq.inst, bindReq.gen, bindReq.session)
    /\ bindReq' = None
    /\ UNCHANGED <<now, crashes, durable, phase, published, refresh, api, disp,
                   receiving, world>>

\* refresh() reads the binding on a reader connection and publishes it later,
\* outside the write fence (set_contact, _dispatch_due).
RefreshRead(f) ==
    /\ phase = "up"
    /\ refresh[f] = None
    /\ Active(bound)
    /\ refresh' = [refresh EXCEPT ![f] =
                      [inst |-> bound, binding |-> InstanceBinding(bound)]]
    /\ UNCHANGED <<now, crashes, durable, phase, published, bindReq, api, disp,
                   receiving, world>>

RefreshPublish(f) ==
    /\ refresh[f] # None
    /\ published' = [published EXCEPT ![refresh[f].inst] = refresh[f].binding]
    /\ refresh' = [refresh EXCEPT ![f] = None]
    /\ UNCHANGED <<now, crashes, durable, phase, bindReq, api, disp, receiving, world>>

\* A change of the contact state, between the two closed ones too; setting the
\* current one again writes nothing.
SetContactState(i, c) ==
    /\ phase = "up"
    /\ Active(i)
    /\ ~(c = "CONTACT_OPEN" /\ ContactOpen(i))
    /\ inst' = [inst EXCEPT ![i].contact = c]
    /\ rows' = [r \in Requests |->
                   IF rows[r].target # i THEN rows[r]
                   ELSE IF c = "CONTACT_OPEN" THEN OnContactOpened(rows[r])
                   ELSE OnContactClosed(rows[r])]
    /\ UNCHANGED <<now, crashes, attempts, bound, seqs, process, world>>

(***************************************************************************)
(* Admission (gds/api.py, gds/ledger.py).  Idempotency keys and RequestKey *)
(* allocation are the subject of CommandLedger; here a request is admitted *)
(* once.                                                                   *)
(***************************************************************************)
LiveRequests == {r \in Requests : Live(rows[r])}

\* post_commands reads the contact on a reader connection, before the
\* admission transaction is queued.
AdmitCheck(h, i) ==
    /\ phase = "up"
    /\ api[h] = None
    /\ \E r \in Requests : rows[r].state = "ABSENT"  \* bound: RequestKeys left
    /\ api' = [api EXCEPT ![h] = [inst |-> i, open |-> Active(i) /\ ContactOpen(i)]]
    /\ UNCHANGED <<now, crashes, durable, phase, published, bindReq, refresh, disp,
                   receiving, world>>
\* Mutant of AdmissionAllowed: the target's retirement is not looked at again.
AdmissionAllowedRetired(a, mode) ==
    /\ mode = "immediate" => a.open
    /\ Cardinality(LiveRequests) < Capacity

\* The refusals of admit(), in its order: retired target, no contact, full.
AdmissionAllowed(a, mode) ==
    /\ inst[a.inst].state # "RETIRED"
    /\ mode = "immediate" => a.open
    /\ Cardinality(LiveRequests) < Capacity

AdmittedRow(a, mode, ttl) ==
    [AbsentRow EXCEPT
       !.state = IF mode = "next_contact" /\ ~a.open
                 THEN "HELD_NO_CONTACT" ELSE "OUTBOX_PENDING",
       !.command = "ADMITTED", !.mode = mode, !.target = a.inst,
       !.available = now, !.expires = now + ttl]

Admit(h, r, mode, ttl) ==
    /\ api[h] # None
    /\ rows[r].state = "ABSENT"
    /\ AdmissionAllowed(api[h], mode)
    /\ now + ttl <= MaxTime                 \* bound: the expiry can be reached
    /\ rows' = [rows EXCEPT ![r] = AdmittedRow(api[h], mode, ttl)]
    /\ api' = [api EXCEPT ![h] = None]
    /\ UNCHANGED <<now, crashes, attempts, inst, bound, seqs, phase, published,
                   bindReq, refresh, disp, receiving, world>>

AdmitRefused(h, mode) ==
    /\ api[h] # None
    /\ ~AdmissionAllowed(api[h], mode)
    /\ api' = [api EXCEPT ![h] = None]
    /\ UNCHANGED <<now, crashes, durable, phase, published, bindReq, refresh, disp,
                   receiving, world>>

(***************************************************************************)
(* Dispatch: claim, prepare, fence, arm, send (GdsMissionRuntime._dispatch *)
(* and OutboxService.send_with_fence).                                     *)
(***************************************************************************)
\* The row of the request a dispatcher works on.
RowOf(d) == rows[disp[d].req]

\* _reconcile_outbox_if_due, reached from _dispatch_due only while the bound
\* instance has contact.
ReconcileDue ==
    /\ phase = "up"
    /\ Active(bound)
    /\ ContactOpen(bound)
    /\ rows' = ReconcileAll
    /\ UNCHANGED <<now, crashes, attempts, inst, bound, seqs, process, world>>

\* A due request is picked and active_binding() publishes what it read.
BeginDispatch(d, r) ==
    /\ phase = "up"
    /\ disp[d].pc = "idle"
    /\ DispatchLock => Dispatching = {} /\ bindReq = None
    /\ Active(bound)
    /\ ContactOpen(bound)
    /\ rows[r].target = bound
    /\ rows[r].state = "OUTBOX_PENDING"
    /\ rows[r].available <= now
    /\ ~Expired(rows[r])
    /\ published' = [published EXCEPT ![bound] = InstanceBinding(bound)]
    /\ disp' = [disp EXCEPT ![d] = [pc |-> "reconciling", req |-> r,
                                    gen |-> inst[bound].gen,
                                    session |-> inst[bound].session, number |-> 0]]
    /\ UNCHANGED <<now, crashes, durable, phase, bindReq, refresh, api, receiving, world>>

\* _claim starts with a reconcile transaction of its own.
ClaimReconcile(d) ==
    /\ disp[d].pc = "reconciling"
    /\ rows' = ReconcileAll
    /\ disp' = [disp EXCEPT ![d].pc = "claiming"]
    /\ UNCHANGED <<now, crashes, attempts, inst, bound, seqs, phase, published,
                   bindReq, refresh, api, receiving, world>>

\* The instance row still carries the binding the dispatcher snapshotted.
BindingCurrent(d) ==
    LET i == RowOf(d).target
    IN  /\ Active(i)
        /\ inst[i].gen = disp[d].gen
        /\ inst[i].session = disp[d].session

Claimable(d) ==
    /\ RowOf(d).state = "OUTBOX_PENDING"
    /\ RowOf(d).available <= now
    /\ ~Expired(RowOf(d))
    /\ ContactOpen(RowOf(d).target)
    /\ BindingCurrent(d)

Claim(d) ==
    /\ disp[d].pc = "claiming"
    /\ Claimable(d)
    /\ rows' = [rows EXCEPT ![disp[d].req] =
          [@ EXCEPT !.state = "DISPATCHING", !.owner = d,
                    !.leaseUntil = now + LeaseDuration]]
    /\ disp' = [disp EXCEPT ![d].pc = "claimed"]
    /\ UNCHANGED <<now, crashes, attempts, inst, bound, seqs, phase, published,
                   bindReq, refresh, api, receiving, world>>

\* Give up and return to the pump loop; whatever was leased stays leased.
ReturnIdle(d) == disp' = [disp EXCEPT ![d] = IdleThread]

ClaimNothing(d) ==
    /\ disp[d].pc = "claiming"
    /\ ~Claimable(d)
    /\ ReturnIdle(d)
    /\ UNCHANGED <<now, crashes, durable, phase, published, bindReq, refresh, api,
                   receiving, world>>

\* The row is DISPATCHING under this owner and the lease has not run out.
LeaseHeld(d) ==
    /\ RowOf(d).state = "DISPATCHING"
    /\ RowOf(d).owner = d
    /\ RowOf(d).leaseUntil > now

\* prepare_attempt: LeaseLostError and AttemptLimitError end the dispatch and
\* leave the row as it is.
CanPrepare(d) ==
    /\ LeaseHeld(d)
    /\ AttemptCount(disp[d].req) < MaxAttempts
    /\ BindingCurrent(d)
    /\ ContactOpen(RowOf(d).target)
    /\ ~Exhausted(seqs[RowOf(d).target])

PrepareAttempt(d) ==
    LET r == disp[d].req
        i == RowOf(d).target
    IN  /\ disp[d].pc = "claimed"
        /\ CanPrepare(d)
        /\ attempts' = [attempts EXCEPT ![r] = Append(@,
              [result |-> "PERSISTED_NOT_SENT", gen |-> disp[d].gen,
               session |-> disp[d].session,
               sequence |-> Allocated(seqs[i]).sequence,
               epoch |-> Allocated(seqs[i]).epoch])]
        /\ seqs' = [seqs EXCEPT ![i] = AfterAllocate(@)]
        /\ disp' = [disp EXCEPT ![d].pc = "prepared",
                                ![d].number = AttemptCount(r) + 1]
        /\ UNCHANGED <<now, crashes, rows, inst, bound, phase, published, bindReq,
                       refresh, api, receiving, world>>

PrepareFails(d) ==
    /\ disp[d].pc = "claimed"
    /\ ~CanPrepare(d)
    /\ ReturnIdle(d)
    /\ UNCHANGED <<now, crashes, durable, phase, published, bindReq, refresh, api,
                   receiving, world>>

\* BindingFence.read: wait out a writer, then compare the published binding
\* with the leased one, contact state included.
FenceMatches(d) ==
    published[RowOf(d).target] = OpenBinding(disp[d].gen, disp[d].session)

FenceRead(d) ==
    /\ disp[d].pc = "prepared"
    /\ bindReq = None
    /\ disp' = [disp EXCEPT ![d].pc = IF FenceMatches(d) THEN "fenced" ELSE "mismatch"]
    /\ UNCHANGED <<now, crashes, durable, phase, published, bindReq, refresh, api,
                   receiving, world>>

\* The attempt a dispatcher prepared, and its update.
AttemptOf(d) == attempts[disp[d].req][disp[d].number]
LabelAttempt(d, result) ==
    attempts' = [attempts EXCEPT ![disp[d].req][disp[d].number].result = result]

\* mark_sent arms the row for correlation before the frame leaves.
CanMarkSent(d) == LeaseHeld(d) /\ AttemptOf(d).result = "PERSISTED_NOT_SENT"

MarkSent(d) ==
    /\ disp[d].pc = "fenced"
    /\ CanMarkSent(d)
    /\ rows' = [rows EXCEPT ![disp[d].req] =
          [@ EXCEPT !.state = "SENT", !.ackBy = now + AckTimeout,
                    !.owner = None, !.leaseUntil = 0]]
    /\ LabelAttempt(d, "SENT")
    /\ disp' = [disp EXCEPT ![d].pc = "armed"]
    /\ UNCHANGED <<now, crashes, inst, bound, seqs, phase, published, bindReq,
                   refresh, api, receiving, world>>

\* LeaseLostError out of mark_sent: the fence is released, nothing is undone.
MarkSentFails(d) ==
    /\ disp[d].pc = "fenced"
    /\ ~CanMarkSent(d)
    /\ ReturnIdle(d)
    /\ UNCHANGED <<now, crashes, durable, phase, published, bindReq, refresh, api,
                   receiving, world>>

Frame(d) == [req |-> disp[d].req, inst |-> RowOf(d).target, session |-> disp[d].session]

\* The frame is handed to the link and the read fence released.
Send(d) ==
    /\ disp[d].pc = "armed"
    /\ uplink' = uplink \cup {Frame(d)}
    /\ ReturnIdle(d)
    /\ UNCHANGED <<now, crashes, durable, phase, published, bindReq, refresh, api,
                   receiving, downlink, onboard>>

\* A send that reports an error may have put the frame on the link.
SendFails(d) ==
    /\ disp[d].pc = "armed"
    /\ \E escaped \in SUBSET {Frame(d)} : uplink' = uplink \cup escaped
    /\ disp' = [disp EXCEPT ![d].pc = "failing"]
    /\ UNCHANGED <<now, crashes, durable, phase, published, bindReq, refresh, api,
                   receiving, downlink, onboard>>
\* Mutant of CanRollback: only the attempt is asked, not the row.
CanRollbackSettled(d) == AttemptOf(d).result = "SENT"

\* rollback_sent_attempt: a no-op unless the row is SENT and this attempt is
\* still SENT.  It does not ask whether this attempt is the latest one.
CanRollback(d) == RowOf(d).state = "SENT" /\ AttemptOf(d).result = "SENT"

RowAfterRollback(o, n) ==
    IF Expired(o) THEN Terminalize(o, "EXPIRED", "EXPIRED")
    ELSE IF ContactLost(o) THEN Terminalize(o, "DELIVERY_FAILED", "CONTACT_LOST")
    ELSE Requeue(o, RetryState(o), now + Backoff(n))

Rollback(d) ==
    /\ disp[d].pc = "failing"
    /\ CanRollback(d)
    /\ rows' = [rows EXCEPT ![disp[d].req] =
                    RowAfterRollback(@, AttemptCount(disp[d].req))]
    /\ LabelAttempt(d, "NOT_SENT")
    /\ ReturnIdle(d)
    /\ UNCHANGED <<now, crashes, inst, bound, seqs, phase, published, bindReq,
                   refresh, api, receiving, world>>

RollbackNothing(d) ==
    /\ disp[d].pc = "failing"
    /\ ~CanRollback(d)
    /\ ReturnIdle(d)
    /\ UNCHANGED <<now, crashes, durable, phase, published, bindReq, refresh, api,
                   receiving, world>>

\* NOT_SENT_REBIND: mark_not_sent, or mark_attempt_not_sent once the lease is
\* gone.
MarkNotSent(d) ==
    /\ disp[d].pc = "mismatch"
    /\ LeaseHeld(d)
    /\ AttemptOf(d).result = "PERSISTED_NOT_SENT"
    /\ rows' = [rows EXCEPT ![disp[d].req] =
                    IF Expired(@) THEN Terminalize(@, "EXPIRED", "REBIND")
                    ELSE Requeue(@, "OUTBOX_PENDING", now)]
    /\ LabelAttempt(d, "NOT_SENT")
    /\ ReturnIdle(d)
    /\ UNCHANGED <<now, crashes, inst, bound, seqs, phase, published, bindReq,
                   refresh, api, receiving, world>>

MarkAttemptNotSent(d) ==
    /\ disp[d].pc = "mismatch"
    /\ ~(LeaseHeld(d) /\ AttemptOf(d).result = "PERSISTED_NOT_SENT")
    /\ IF AttemptOf(d).result = "PERSISTED_NOT_SENT"
       THEN LabelAttempt(d, "NOT_SENT") ELSE UNCHANGED attempts
    /\ ReturnIdle(d)
    /\ UNCHANGED <<now, crashes, rows, inst, bound, seqs, phase, published, bindReq,
                   refresh, api, receiving, world>>

(***************************************************************************)
(* Telemetry: receive_transport_frame validates the frame against the      *)
(* binding it reads and stamps that binding's generation; the receipt is   *)
(* ingested in a later transaction.                                        *)
(***************************************************************************)
ReceiveTm(v, m) ==
    /\ phase = "up"
    /\ receiving[v] = None
    /\ Active(m.inst)
    /\ inst[m.inst].session = m.session
    /\ receiving' = [receiving EXCEPT ![v] =
          [req |-> m.req, inst |-> m.inst, gen |-> inst[m.inst].gen,
           session |-> m.session, ok |-> m.ok]]
    /\ UNCHANGED <<now, crashes, durable, phase, published, bindReq, refresh, api,
                   disp, world>>

\* Some attempt of the request went out under the receipt's link identity.
SentUnder(t) ==
    \E k \in DOMAIN attempts[t.req] :
        /\ attempts[t.req][k].result = "SENT"
        /\ attempts[t.req][k].gen = t.gen
        /\ attempts[t.req][k].session = t.session
\* Mutant of Correlated: a late receipt counts whatever became of the row.
CorrelatedLate(t) == rows[t.req].target = t.inst /\ SentUnder(t)

\* _ingest_ack_in_transaction acts on this receipt; otherwise it only writes
\* an audit row (LATE_RECEIPT, TM_ACK_UNCORRELATED).
Correlated(t) ==
    /\ rows[t.req].state = "SENT"
    /\ rows[t.req].target = t.inst
    /\ SentUnder(t)

IngestAck(v) ==
    LET t == receiving[v]
    IN  /\ t # None
        /\ t.ok
        /\ Correlated(t)
        /\ rows' = [rows EXCEPT ![t.req] =
              [@ EXCEPT !.state = "ACKED", !.command = "ACKED", !.owner = None,
                        !.leaseUntil = 0, !.ackBy = 0]]
        /\ attempts' = [attempts EXCEPT ![t.req] = Relabel(@, {"SENT"}, "ACKED")]
        /\ receiving' = [receiving EXCEPT ![v] = None]
        /\ UNCHANGED <<now, crashes, inst, bound, seqs, phase, published, bindReq,
                       refresh, api, disp, world>>

IngestNack(v) ==
    LET t == receiving[v]
    IN  /\ t # None
        /\ ~t.ok
        /\ Correlated(t)
        /\ rows' = [rows EXCEPT ![t.req] = Terminalize(@, "DELIVERY_FAILED", "NACK")]
        /\ receiving' = [receiving EXCEPT ![v] = None]
        /\ UNCHANGED <<now, crashes, attempts, inst, bound, seqs, phase, published,
                       bindReq, refresh, api, disp, world>>

IngestAudit(v) ==
    /\ receiving[v] # None
    /\ ~Correlated(receiving[v])
    /\ receiving' = [receiving EXCEPT ![v] = None]
    /\ UNCHANGED <<now, crashes, durable, phase, published, bindReq, refresh, api,
                   disp, world>>

(***************************************************************************)
(* The satellite and the link.  Both message sets only grow: a frame may   *)
(* be taken late, again, or never.  The journal decides a request key once *)
(* and repeats its verdict; the first decision also appends a journal      *)
(* event, published as APID 2 telemetry under the same request key with    *)
(* its error code nested in the body, so the GDS reads it as a success.    *)
(***************************************************************************)
Answer(f, s, verdict) ==
    [req |-> f.req, inst |-> f.inst, session |-> s, ok |-> verdict = "ACCEPTED"]
JournalEvent(f, s) ==
    [req |-> f.req, inst |-> f.inst, session |-> s, ok |-> TRUE]

\* The link's session when the answer goes out: the frame's, or the one the
\* GDS has bound since.
AnswerSessions(f) == {f.session, inst[f.inst].session}

SatelliteDecides(f, s, verdict) ==
    /\ onboard[f.req] = "UNSEEN"
    /\ onboard' = [onboard EXCEPT ![f.req] = verdict]
    /\ downlink' = downlink \cup {Answer(f, s, verdict), JournalEvent(f, s)}
    /\ UNCHANGED <<now, crashes, durable, process, uplink>>

SatelliteRepeats(f, s) ==
    /\ onboard[f.req] # "UNSEEN"
    /\ downlink' = downlink \cup {Answer(f, s, onboard[f.req])}
    /\ UNCHANGED <<now, crashes, durable, process, uplink, onboard>>

(***************************************************************************)
(* The specification.                                                      *)
(***************************************************************************)
ProcessLife == Boot \/ Crash \/ \E i \in Instances : StartupBind(i) \/ StartupRefused(i)

Linking ==
    \/ \E i \in Instances, b \in LinkBindings : BindBegin(i, b.gen, b.session)
    \/ BindCommit
    \/ BindRefused
    \/ \E f \in Refreshers : RefreshRead(f) \/ RefreshPublish(f)
    \/ \E i \in Instances, c \in Contacts : SetContactState(i, c)

Admission(h) ==
    \/ \E i \in Instances : AdmitCheck(h, i)
    \/ \E r \in Requests, m \in Modes, ttl \in TTLs : Admit(h, r, m, ttl)
    \/ \E m \in Modes : AdmitRefused(h, m)

Dispatch(d) ==
    \/ \E r \in Requests : BeginDispatch(d, r)
    \/ ClaimReconcile(d) \/ Claim(d) \/ ClaimNothing(d)
    \/ PrepareAttempt(d) \/ PrepareFails(d)
    \/ FenceRead(d) \/ MarkSent(d) \/ MarkSentFails(d)
    \/ Send(d) \/ SendFails(d) \/ Rollback(d) \/ RollbackNothing(d)
    \/ MarkNotSent(d) \/ MarkAttemptNotSent(d)

Receive(v) ==
    \/ \E m \in downlink : ReceiveTm(v, m)
    \/ IngestAck(v) \/ IngestNack(v) \/ IngestAudit(v)

Satellite ==
    \E f \in uplink : \E s \in AnswerSessions(f) :
        \/ \E verdict \in {"ACCEPTED", "REJECTED"} : SatelliteDecides(f, s, verdict)
        \/ SatelliteRepeats(f, s)

Next ==
    \/ Tick
    \/ ProcessLife
    \/ Linking
    \/ \E h \in Handlers : Admission(h)
    \/ ReconcileDue
    \/ \E d \in Dispatchers : Dispatch(d)
    \/ \E v \in Receivers : Receive(v)
    \/ Satellite

Spec == Init /\ [][Next]_vars

\* The clock advances, a stopped GDS is restarted and its constructor runs to an
\* end, and the pump thread keeps polling: _run_pump reconciles every 250 ms while contact is open.
Fairness ==
    /\ WF_vars(Tick)
    /\ WF_vars(Boot)
    /\ WF_vars(\E i \in Instances : StartupBind(i) \/ StartupRefused(i))
    /\ WF_vars(ReconcileDue)

FairSpec == Spec /\ Fairness

(***************************************************************************)
(* Safety.                                                                 *)
(***************************************************************************)
RowLeaseCoherent(o) ==
    /\ (o.owner # None) <=> (o.state = "DISPATCHING")
    /\ (o.leaseUntil # 0) <=> (o.state = "DISPATCHING")
    /\ o.ackBy # 0 => o.state = "SENT"

\* A lease and its deadline exist exactly while a row is DISPATCHING, and an
\* ACK deadline only while it is SENT: no transition of the outbox, crash or
\* lost lease leaves a half-cleared row (the NULLing clauses of every UPDATE).
LeaseCoherent == \A r \in Requests : RowLeaseCoherent(rows[r])

RowOutcomeAgrees(o) ==
    /\ (o.command = "NONE") <=> (o.state = "ABSENT")
    /\ (o.command = "ADMITTED") <=> Live(o)
    /\ (o.command = "ACKED") <=> (o.state = "ACKED")
    /\ (o.command = "FAILED") <=> (o.state \in {"EXPIRED", "DELIVERY_FAILED"})

\* The commands table and the outbox row never disagree on a command's outcome,
\* although every transition updates the two with separate statements.
OutcomeAgrees == \A r \in Requests : RowOutcomeAgrees(rows[r])

\* Between mark_sent and the end of the send, the leased binding is the one the
\* database holds: a rebind or a migration cannot overtake a send
\* (send_with_fence against LinkBindingService.bind).
SendUnderBinding ==
    \A d \in Dispatchers : disp[d].pc = "armed" => BindingCurrent(d)

\* No two attempts to one instance share an (epoch, sequence count), through
\* rollover, retries and restarts.
NoSequenceReuse ==
    \A r, q \in Requests :
        \A k \in DOMAIN attempts[r], m \in DOMAIN attempts[q] :
            (rows[r].target = rows[q].target /\ <<r, k>> # <<q, m>>) =>
                \/ attempts[r][k].sequence # attempts[q][m].sequence
                \/ attempts[r][k].epoch # attempts[q][m].epoch

\* Migration settles everything addressed to the retired instance, and nothing
\* is admitted for it afterwards.
RetiredTargetsSettled ==
    \A r \in Requests :
        rows[r].target \in Instances /\ inst[rows[r].target].state = "RETIRED" =>
            ~Live(rows[r])

\* A settled command never changes again: neither a late receipt nor a stale
\* dispatcher reopens or relabels it.
TerminalIsFinal ==
    [][\A r \in Requests : rows[r].state \in TerminalStates => rows'[r] = rows[r]]_vars

\* Attempts are append-only, and an attempt's result only moves forward: one
\* marked NOT_SENT or ACKED is never sent or relabelled by a late dispatcher.
AttemptsOnlyAdvance ==
    [][\A r \in Requests :
          /\ Len(attempts'[r]) >= Len(attempts[r])
          /\ \A k \in DOMAIN attempts[r] :
                LET a == attempts[r][k]
                    b == attempts'[r][k]
                IN  /\ a = [b EXCEPT !.result = a.result]
                    /\ a.result \in {"NOT_SENT", "ACKED"} => b.result = a.result
                    /\ a.result = "SENT" => b.result # "PERSISTED_NOT_SENT"]_vars

\* Generations of an instance never go back while the database lives, and a
\* retired instance stays retired.
BindingsOnlyAdvance ==
    [][\A i \in Instances :
          /\ inst'[i].gen >= inst[i].gen
          /\ inst[i].state = "RETIRED" => inst'[i].state = "RETIRED"]_vars

\* The part of the state a client sees.
DeliveryStatus ==
    [r \in Requests |->
        CASE rows[r].command = "NONE"     -> "none"
          [] rows[r].command = "ADMITTED" -> "pending"
          [] rows[r].command = "ACKED"    -> "acked"
          [] rows[r].command = "FAILED"   -> "failed"]

Delivery == INSTANCE CommandDelivery WITH status <- DeliveryStatus, verdict <- onboard

\* The whole command path implements CommandDelivery: each command is settled
\* once, and acknowledged only after the satellite decided it.
ImplementsDelivery == Delivery!Spec

(***************************************************************************)
(* Liveness.                                                               *)
(***************************************************************************)
InContact == phase = "up" /\ Active(bound) /\ ContactOpen(bound)

\* Once the process stays up in contact, every admitted command is settled:
\* no lost lease, missing receipt or refused send leaves it open for ever.
EventuallySettled ==
    <>[]InContact =>
        \A r \in Requests : Live(rows[r]) ~> rows[r].state \in TerminalStates

(***************************************************************************)
(* What the documentation says and the code does not do.                   *)
(***************************************************************************)
\* docs/gds_satellite_ccsds_simulation_plan.md: a command the satellite rejected
\* is a terminal failure, never a confirmed receipt of an accepted command.
RejectedNeverAcked ==
    \A r \in Requests : onboard[r] = "REJECTED" => rows[r].state # "ACKED"
=============================================================================
