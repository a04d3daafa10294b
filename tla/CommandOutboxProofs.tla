------------------------ MODULE CommandOutboxProofs ------------------------
(***************************************************************************)
(* Theorems about CommandOutbox, for every number of requests, instances,  *)
(* sessions, threads and for every policy.  The transitions of one row     *)
(* come first (what each transaction does to a row keeps it well formed    *)
(* and settles it at most once), then the attempts, then one lemma per     *)
(* action.  The second part adds the bindings, the sequence counts and the *)
(* order in which attempts and bindings advance.                           *)
(***************************************************************************)
EXTENDS CommandOutbox, SequenceTheorems, TLAPS

(***************************************************************************)
(* Rows.                                                                   *)
(***************************************************************************)
GoodRow(o) == o \in Row /\ RowLeaseCoherent(o) /\ RowOutcomeAgrees(o)

\* What a transaction that may settle several commands at once does to a row:
\* only a live row changes, and then it is live or failed, for the same target.
RowStep(o, p) ==
    /\ GoodRow(p)
    /\ p.target = o.target
    /\ \/ p = o
       \/ Live(o) /\ (Live(p) \/ p.command = "FAILED")

\* _backoff yields a delay whatever the attempt count is.
LEMMA BackoffType == \A n : Backoff(n) \in Nat
BY PolicyAssumption DEF Backoff

\* _terminalize settles a live row.
LEMMA TerminalizeStep ==
    ASSUME NEW o, GoodRow(o), Live(o),
           NEW state \in {"EXPIRED", "DELIVERY_FAILED"}, NEW reason \in Reasons
    PROVE  RowStep(o, Terminalize(o, state, reason))
BY DEF RowStep, GoodRow, Terminalize, Row, RowLeaseCoherent, RowOutcomeAgrees, Live,
       RowStates, NonterminalStates, TerminalStates, CommandStates

\* A requeued row is live and holds neither a lease nor an ACK deadline.
LEMMA RequeueStep ==
    ASSUME NEW o, GoodRow(o), Live(o),
           NEW state \in {"HELD_NO_CONTACT", "OUTBOX_PENDING"}, NEW available \in Nat
    PROVE  RowStep(o, Requeue(o, state, available))
BY DEF RowStep, GoodRow, Requeue, Row, RowLeaseCoherent, RowOutcomeAgrees, Live,
       RowStates, NonterminalStates, TerminalStates, CommandStates

\* RetryState is one of the two queue states.
LEMMA RetryStateType == \A o : RetryState(o) \in {"HELD_NO_CONTACT", "OUTBOX_PENDING"}
BY DEF RetryState

\* One iteration of reconcile().
LEMMA ReconciledStep ==
    ASSUME NEW o, GoodRow(o), NEW n, now \in Nat
    PROVE  RowStep(o, Reconciled(o, n))
<1>1. RowStep(o, o)
  BY DEF RowStep
<1>2. o.available \in Nat /\ now + Backoff(n) \in Nat
  BY BackoffType DEF GoodRow, Row
<1>3. ASSUME Live(o) PROVE
        /\ RowStep(o, Terminalize(o, "EXPIRED", "EXPIRED"))
        /\ RowStep(o, Terminalize(o, "DELIVERY_FAILED", "CONTACT_LOST"))
        /\ RowStep(o, Terminalize(o, "DELIVERY_FAILED", "MAX_ATTEMPTS"))
        /\ RowStep(o, Requeue(o, RetryState(o), o.available))
        /\ RowStep(o, Requeue(o, RetryState(o), now + Backoff(n)))
  BY <1>2, <1>3, TerminalizeStep, RequeueStep, RetryStateType DEF Reasons
<1>4. QED
  BY <1>1, <1>3 DEF Reconciled

\* set_contact_state, contact opening.
LEMMA OpenedStep ==
    ASSUME NEW o, GoodRow(o), now \in Nat \ {0}
    PROVE  RowStep(o, OnContactOpened(o))
<1>1. RowStep(o, o)
  BY DEF RowStep
<1>2. CASE o.state = "HELD_NO_CONTACT"
  BY <1>1, <1>2 DEF OnContactOpened, RowStep, GoodRow, Row, RowLeaseCoherent,
       RowOutcomeAgrees, Live, RowStates, NonterminalStates
<1>3. CASE o.state = "SENT"
  <2>1. now + AckTimeout \in Nat
    BY PolicyAssumption
  <2>2. RowStep(o, [o EXCEPT !.ackBy = now + AckTimeout])
    BY <1>3, <2>1 DEF RowStep, GoodRow, Row, RowLeaseCoherent, RowOutcomeAgrees, Live,
         NonterminalStates
  <2>3. QED
    BY <1>1, <1>3, <2>2 DEF OnContactOpened
<1>4. QED
  BY <1>1, <1>2, <1>3 DEF OnContactOpened

\* set_contact_state, contact closing.
LEMMA ClosedStep ==
    ASSUME NEW o, GoodRow(o)
    PROVE  RowStep(o, OnContactClosed(o))
<1>1. RowStep(o, o)
  BY DEF RowStep
<1>2. ASSUME Live(o) PROVE
        /\ RowStep(o, Terminalize(o, "DELIVERY_FAILED", "CONTACT_LOST"))
        /\ RowStep(o, Requeue(o, "HELD_NO_CONTACT", o.available))
  BY <1>2, TerminalizeStep, RequeueStep DEF Reasons, GoodRow, Row
<1>3. ASSUME Live(o), o.state \notin {"OUTBOX_PENDING", "DISPATCHING"}
      PROVE  RowStep(o, [o EXCEPT !.ackBy = 0])
  BY <1>3 DEF RowStep, GoodRow, Row, RowLeaseCoherent, RowOutcomeAgrees, Live
<1>4. QED
  BY <1>1, <1>2, <1>3 DEF OnContactClosed

\* A bind requeues or fails the live commands of the bound instance.
LEMMA BindStep ==
    ASSUME NEW o, GoodRow(o), now \in Nat, NEW i, NEW g, NEW s
    PROVE  RowStep(o, RowAfterBind(o, i, g, s))
<1>1. RowStep(o, o)
  BY DEF RowStep
<1>2. ASSUME Live(o) PROVE
        /\ RowStep(o, Requeue(o, "OUTBOX_PENDING", now))
        /\ RowStep(o, Terminalize(o, "DELIVERY_FAILED", "TARGET_INSTANCE_RETIRED"))
  BY <1>2, TerminalizeStep, RequeueStep DEF Reasons
<1>3. QED
  BY <1>1, <1>2 DEF RowAfterBind

\* rollback_sent_attempt of a SENT row.
LEMMA RollbackStep ==
    ASSUME NEW o, GoodRow(o), o.state = "SENT", now \in Nat, NEW n
    PROVE  RowStep(o, RowAfterRollback(o, n))
<1>1. Live(o) /\ now + Backoff(n) \in Nat
  BY BackoffType DEF Live, NonterminalStates
<1>2. /\ RowStep(o, Terminalize(o, "EXPIRED", "EXPIRED"))
      /\ RowStep(o, Terminalize(o, "DELIVERY_FAILED", "CONTACT_LOST"))
      /\ RowStep(o, Requeue(o, RetryState(o), now + Backoff(n)))
  BY <1>1, TerminalizeStep, RequeueStep, RetryStateType DEF Reasons
<1>3. QED
  BY <1>2 DEF RowAfterRollback

(***************************************************************************)
(* Attempts.                                                               *)
(***************************************************************************)
\* An attempt with another result is an attempt.
LEMMA ResultType ==
    ASSUME NEW a \in Attempt, NEW to \in SendResults
    PROVE  [a EXCEPT !.result = to] \in Attempt
BY DEF Attempt

\* An UPDATE of attempts keeps their number and every field but the result.
LEMMA RelabelType ==
    ASSUME NEW log \in Seq(Attempt), NEW from, NEW to \in SendResults
    PROVE  /\ Relabel(log, from, to) \in Seq(Attempt)
           /\ Len(Relabel(log, from, to)) = Len(log)
<1>1. DOMAIN log = 1 .. Len(log) /\ Len(log) \in Nat
  OBVIOUS
<1>2. \A k \in 1 .. Len(log) :
         (IF log[k].result \in from THEN [log[k] EXCEPT !.result = to] ELSE log[k]) \in Attempt
  <2>1. \A k \in 1 .. Len(log) : log[k] \in Attempt
    BY <1>1, ElementOfSeq
  <2>2. QED
    BY <2>1, ResultType
<1>3. Relabel(log, from, to) \in [1 .. Len(log) -> Attempt]
  BY <1>1, <1>2 DEF Relabel
<1>4. QED
  BY <1>1, <1>3, SeqDef, LenProperties

\* A bind relabels attempts and adds or drops none.
LEMMA AttemptsAfterBindType ==
    ASSUME attempts \in [Requests -> Seq(Attempt)], NEW r \in Requests,
           NEW i, NEW g, NEW s
    PROVE  /\ AttemptsAfterBind(r, i, g, s) \in Seq(Attempt)
           /\ Len(AttemptsAfterBind(r, i, g, s)) = Len(attempts[r])
BY RelabelType DEF AttemptsAfterBind, SendResults

\* The update of one attempt by the dispatcher that prepared it.
LEMMA LabelAttemptType ==
    ASSUME attempts \in [Requests -> Seq(Attempt)], NEW d,
           disp[d].req \in Requests, disp[d].number \in DOMAIN attempts[disp[d].req],
           NEW result \in SendResults, LabelAttempt(d, result)
    PROVE  /\ attempts' \in [Requests -> Seq(Attempt)]
           /\ \A r \in Requests : Len(attempts'[r]) = Len(attempts[r])
<1> DEFINE q == disp[d].req
           k == disp[d].number
           e == [attempts[q][k] EXCEPT !.result = result]
<1>1. attempts[q] \in Seq(Attempt) /\ k \in 1 .. Len(attempts[q])
  OBVIOUS
<1>2. e \in Attempt
  <2>1. attempts[q][k] \in Attempt
    BY <1>1, ElementOfSeq
  <2>2. QED
    BY <2>1, ResultType
<1>3. /\ [attempts[q] EXCEPT ![k] = e] \in Seq(Attempt)
      /\ Len([attempts[q] EXCEPT ![k] = e]) = Len(attempts[q])
  BY <1>1, <1>2, ExceptSeq
<1>4. attempts' = [attempts EXCEPT ![q] = [attempts[q] EXCEPT ![k] = e]]
  BY DEF LabelAttempt
<1>5. QED
  BY <1>3, <1>4

(***************************************************************************)
(* The inductive invariant.                                                *)
(***************************************************************************)
Prepared == {"prepared", "fenced", "armed", "failing", "mismatch"}

\* A dispatcher at work holds an admitted request for a known instance, and
\* once it has prepared an attempt, that attempt is in the log.
WorkOK ==
    \A d \in Dispatchers :
        disp[d].pc # "idle" =>
            /\ disp[d].req \in Requests
            /\ rows[disp[d].req].state # "ABSENT"
            /\ rows[disp[d].req].target \in Instances
            /\ disp[d].pc \in Prepared =>
                   disp[d].number \in 1 .. Len(attempts[disp[d].req])

\* Frames on the uplink belong to admitted requests, and every answer on the
\* downlink or in a receiver belongs to a request the satellite has decided.
KnownOK ==
    /\ \A f \in uplink : rows[f.req].state # "ABSENT"
    /\ \A m \in downlink : onboard[m.req] # "UNSEEN"
    /\ \A v \in Receivers : receiving[v] # None => onboard[receiving[v].req] # "UNSEEN"

GoodRows == \A r \in Requests : GoodRow(rows[r])

IndInv == TypeOK /\ GoodRows /\ WorkOK /\ KnownOK

\* Every step keeps rows well formed, and an admitted row admitted.
RowsAdvance ==
    \A r \in Requests :
        /\ GoodRow(rows'[r])
        /\ rows[r].state # "ABSENT" =>
               rows'[r].state # "ABSENT" /\ rows'[r].target = rows[r].target

AttemptsGrow == \A r \in Requests : Len(attempts'[r]) >= Len(attempts[r])

\* A step of no dispatcher, or one that only ends a dispatch.
NoNewWork ==
    \A d \in Dispatchers : disp'[d] = disp[d] \/ disp'[d].pc = "idle"

\* Rows that do not change advance.
LEMMA RowsSame == IndInv /\ rows' = rows => RowsAdvance
BY DEF IndInv, GoodRows, RowsAdvance

\* Rows that a transaction moves by RowStep advance.
LEMMA RowsByStep ==
    ASSUME IndInv, \A r \in Requests : RowStep(rows[r], rows'[r])
    PROVE  RowsAdvance
BY DEF IndInv, GoodRows, RowsAdvance, RowStep, GoodRow, RowOutcomeAgrees, Live,
       NonterminalStates

\* Threads that start nothing keep their hold on admitted requests.
LEMMA WorkStable ==
    ASSUME IndInv, RowsAdvance, AttemptsGrow, NoNewWork,
           attempts' \in [Requests -> Seq(Attempt)]
    PROVE  WorkOK'
<1>1. \A r \in Requests : Len(attempts[r]) \in Nat /\ Len(attempts'[r]) \in Nat
  BY LenProperties DEF IndInv, TypeOK
<1>2. QED
  BY <1>1 DEF IndInv, WorkOK, RowsAdvance, AttemptsGrow, NoNewWork

\* What is on the link stays known as long as nothing new is put there.
LEMMA KnownStable ==
    ASSUME IndInv, RowsAdvance, uplink' = uplink, downlink' = downlink,
           onboard' = onboard, receiving' \in [Receivers -> Receipt \cup {None}],
           \A v \in Receivers : receiving'[v] \in {receiving[v], None}
    PROVE  KnownOK'
<1>1. \A f \in uplink : f.req \in Requests
  BY DEF IndInv, TypeOK, Tc
<1>2. QED
  BY <1>1 DEF IndInv, KnownOK, RowsAdvance

\* A step that settles or requeues any number of commands and leaves the
\* satellite alone.
SettleStep ==
    /\ \A r \in Requests : RowStep(rows[r], rows'[r])
    /\ UNCHANGED onboard

\* The whole reconcile transaction moves every row by RowStep.
LEMMA ReconcileStep ==
    ASSUME IndInv, rows' = ReconcileAll
    PROVE  /\ rows' \in [Requests -> Row]
           /\ \A r \in Requests : RowStep(rows[r], rows'[r])
<1>1. \A r \in Requests : RowStep(rows[r], Reconciled(rows[r], AttemptCount(r)))
  BY ReconciledStep DEF IndInv, GoodRows, TypeOK
<1>2. QED
  BY <1>1 DEF ReconcileAll, RowStep, GoodRow

\* The invariant after a step, from its parts.
LEMMA Combine ==
    ASSUME TypeOK', RowsAdvance, WorkOK', KnownOK'
    PROVE  IndInv'
BY DEF IndInv, RowsAdvance, GoodRows

\* A step that puts nothing on the link and starts no dispatch.
LEMMA Quiet ==
    ASSUME IndInv, TypeOK', RowsAdvance, AttemptsGrow, NoNewWork,
           UNCHANGED world, \A v \in Receivers : receiving'[v] \in {receiving[v], None}
    PROVE  IndInv'
<1>1. WorkOK'
  BY WorkStable DEF TypeOK
<1>2. KnownOK'
  BY KnownStable DEF TypeOK, world
<1>3. QED
  BY <1>1, <1>2, Combine

\* Attempts that do not change do not shrink.
LEMMA AttemptsSame == IndInv /\ attempts' = attempts => AttemptsGrow
<1>1. ASSUME IndInv PROVE \A r \in Requests : Len(attempts[r]) \in Nat
  BY <1>1, LenProperties DEF IndInv, TypeOK
<1>2. QED
  BY <1>1 DEF AttemptsGrow

(***************************************************************************)
(* One lemma per action.  First those that change no row, then those that  *)
(* do.                                                                     *)
(***************************************************************************)
\* The clock.
LEMMA TickInv ==
    ASSUME IndInv, Tick
    PROVE  IndInv'
<1>1. TypeOK'
  BY BoundsAssumption, NamesAssumption DEF IndInv, TypeOK, Tick, durable, process, world
<1>2. NoNewWork /\ UNCHANGED world
  BY DEF IndInv, TypeOK, NoNewWork, Tick, durable, process, world
<1>3. \A v \in Receivers : receiving'[v] \in {receiving[v], None}
  BY DEF IndInv, TypeOK, Tick, durable, process, world
<1>4. QED
  BY <1>1, <1>2, <1>3, Quiet, RowsSame, AttemptsSame DEF Tick, durable

\* A crash keeps the durable state.
LEMMA CrashInv ==
    ASSUME IndInv, Crash
    PROVE  IndInv'
<1>1. TypeOK'
  BY BoundsAssumption, NamesAssumption DEF IndInv, TypeOK, Crash, IdleThread, Unpublished, Thread, Steps, Binding, Contacts, durable, process, world
<1>2. NoNewWork /\ UNCHANGED world
  BY DEF IndInv, TypeOK, NoNewWork, Crash, IdleThread, Unpublished, Thread, Steps, Binding, Contacts, durable, process, world
<1>3. \A v \in Receivers : receiving'[v] \in {receiving[v], None}
  BY DEF IndInv, TypeOK, Crash, IdleThread, Unpublished, Thread, Steps, Binding, Contacts, durable, process, world
<1>4. QED
  BY <1>1, <1>2, <1>3, Quiet, RowsSame, AttemptsSame DEF Crash, durable

\* A refused startup bind.
LEMMA StartupRefusedInv ==
    ASSUME IndInv, NEW i \in Instances, StartupRefused(i)
    PROVE  IndInv'
<1>1. TypeOK'
  BY BoundsAssumption, NamesAssumption DEF IndInv, TypeOK, StartupRefused, durable, process, world
<1>2. NoNewWork /\ UNCHANGED world
  BY DEF IndInv, TypeOK, NoNewWork, StartupRefused, durable, process, world
<1>3. \A v \in Receivers : receiving'[v] \in {receiving[v], None}
  BY DEF IndInv, TypeOK, StartupRefused, durable, process, world
<1>4. QED
  BY <1>1, <1>2, <1>3, Quiet, RowsSame, AttemptsSame DEF StartupRefused, durable

\* A rebind takes the write fence.
LEMMA BindBeginInv ==
    ASSUME IndInv, NEW i \in Instances, NEW b \in LinkBindings, BindBegin(i, b.gen, b.session)
    PROVE  IndInv'
<1>1. TypeOK'
  BY BoundsAssumption, NamesAssumption DEF IndInv, TypeOK, BindBegin, BindArgs, Generations, durable, process, world
<1>2. NoNewWork /\ UNCHANGED world
  BY DEF IndInv, TypeOK, NoNewWork, BindBegin, BindArgs, Generations, durable, process, world
<1>3. \A v \in Receivers : receiving'[v] \in {receiving[v], None}
  BY DEF IndInv, TypeOK, BindBegin, BindArgs, Generations, durable, process, world
<1>4. QED
  BY <1>1, <1>2, <1>3, Quiet, RowsSame, AttemptsSame DEF BindBegin, durable

\* A rebind that is refused.
LEMMA BindRefusedInv ==
    ASSUME IndInv, BindRefused
    PROVE  IndInv'
<1>1. TypeOK'
  BY BoundsAssumption, NamesAssumption DEF IndInv, TypeOK, BindRefused, durable, process, world
<1>2. NoNewWork /\ UNCHANGED world
  BY DEF IndInv, TypeOK, NoNewWork, BindRefused, durable, process, world
<1>3. \A v \in Receivers : receiving'[v] \in {receiving[v], None}
  BY DEF IndInv, TypeOK, BindRefused, durable, process, world
<1>4. QED
  BY <1>1, <1>2, <1>3, Quiet, RowsSame, AttemptsSame DEF BindRefused, durable

\* refresh() reads the binding.
LEMMA RefreshReadInv ==
    ASSUME IndInv, NEW f \in Refreshers, RefreshRead(f)
    PROVE  IndInv'
<1>1. TypeOK'
  BY BoundsAssumption, NamesAssumption DEF IndInv, TypeOK, RefreshRead, Snapshot, InstanceBinding, Instance, Binding, Active, durable, process, world
<1>2. NoNewWork /\ UNCHANGED world
  BY DEF IndInv, TypeOK, NoNewWork, RefreshRead, Snapshot, InstanceBinding, Instance, Binding, Active, durable, process, world
<1>3. \A v \in Receivers : receiving'[v] \in {receiving[v], None}
  BY DEF IndInv, TypeOK, RefreshRead, Snapshot, InstanceBinding, Instance, Binding, Active, durable, process, world
<1>4. QED
  BY <1>1, <1>2, <1>3, Quiet, RowsSame, AttemptsSame DEF RefreshRead, durable

\* refresh() publishes what it read.
LEMMA RefreshPublishInv ==
    ASSUME IndInv, NEW f \in Refreshers, RefreshPublish(f)
    PROVE  IndInv'
<1>1. TypeOK'
  BY BoundsAssumption, NamesAssumption DEF IndInv, TypeOK, RefreshPublish, Snapshot, Binding, durable, process, world
<1>2. NoNewWork /\ UNCHANGED world
  BY DEF IndInv, TypeOK, NoNewWork, RefreshPublish, Snapshot, Binding, durable, process, world
<1>3. \A v \in Receivers : receiving'[v] \in {receiving[v], None}
  BY DEF IndInv, TypeOK, RefreshPublish, Snapshot, Binding, durable, process, world
<1>4. QED
  BY <1>1, <1>2, <1>3, Quiet, RowsSame, AttemptsSame DEF RefreshPublish, durable

\* A handler reads the contact state.
LEMMA AdmitCheckInv ==
    ASSUME IndInv, NEW h \in Handlers, NEW i \in Instances, AdmitCheck(h, i)
    PROVE  IndInv'
<1>1. TypeOK'
  BY BoundsAssumption, NamesAssumption DEF IndInv, TypeOK, AdmitCheck, Submission, Active, ContactOpen, durable, process, world
<1>2. NoNewWork /\ UNCHANGED world
  BY DEF IndInv, TypeOK, NoNewWork, AdmitCheck, Submission, Active, ContactOpen, durable, process, world
<1>3. \A v \in Receivers : receiving'[v] \in {receiving[v], None}
  BY DEF IndInv, TypeOK, AdmitCheck, Submission, Active, ContactOpen, durable, process, world
<1>4. QED
  BY <1>1, <1>2, <1>3, Quiet, RowsSame, AttemptsSame DEF AdmitCheck, durable

\* A refused admission.
LEMMA AdmitRefusedInv ==
    ASSUME IndInv, NEW h \in Handlers, NEW m, AdmitRefused(h, m)
    PROVE  IndInv'
<1>1. TypeOK'
  BY BoundsAssumption, NamesAssumption DEF IndInv, TypeOK, AdmitRefused, durable, process, world
<1>2. NoNewWork /\ UNCHANGED world
  BY DEF IndInv, TypeOK, NoNewWork, AdmitRefused, durable, process, world
<1>3. \A v \in Receivers : receiving'[v] \in {receiving[v], None}
  BY DEF IndInv, TypeOK, AdmitRefused, durable, process, world
<1>4. QED
  BY <1>1, <1>2, <1>3, Quiet, RowsSame, AttemptsSame DEF AdmitRefused, durable

\* The claim finds nothing.
LEMMA ClaimNothingInv ==
    ASSUME IndInv, NEW d \in Dispatchers, ClaimNothing(d)
    PROVE  IndInv'
<1>1. TypeOK'
  BY BoundsAssumption, NamesAssumption DEF IndInv, TypeOK, ClaimNothing, ReturnIdle, IdleThread, Thread, Steps, durable, process, world
<1>2. NoNewWork /\ UNCHANGED world
  BY DEF IndInv, TypeOK, NoNewWork, ClaimNothing, ReturnIdle, IdleThread, Thread, Steps, durable, process, world
<1>3. \A v \in Receivers : receiving'[v] \in {receiving[v], None}
  BY DEF IndInv, TypeOK, ClaimNothing, ReturnIdle, IdleThread, Thread, Steps, durable, process, world
<1>4. QED
  BY <1>1, <1>2, <1>3, Quiet, RowsSame, AttemptsSame DEF ClaimNothing, durable

\* The lease or the attempt budget is gone.
LEMMA PrepareFailsInv ==
    ASSUME IndInv, NEW d \in Dispatchers, PrepareFails(d)
    PROVE  IndInv'
<1>1. TypeOK'
  BY BoundsAssumption, NamesAssumption DEF IndInv, TypeOK, PrepareFails, ReturnIdle, IdleThread, Thread, Steps, durable, process, world
<1>2. NoNewWork /\ UNCHANGED world
  BY DEF IndInv, TypeOK, NoNewWork, PrepareFails, ReturnIdle, IdleThread, Thread, Steps, durable, process, world
<1>3. \A v \in Receivers : receiving'[v] \in {receiving[v], None}
  BY DEF IndInv, TypeOK, PrepareFails, ReturnIdle, IdleThread, Thread, Steps, durable, process, world
<1>4. QED
  BY <1>1, <1>2, <1>3, Quiet, RowsSame, AttemptsSame DEF PrepareFails, durable

\* The lease is lost before the send.
LEMMA MarkSentFailsInv ==
    ASSUME IndInv, NEW d \in Dispatchers, MarkSentFails(d)
    PROVE  IndInv'
<1>1. TypeOK'
  BY BoundsAssumption, NamesAssumption DEF IndInv, TypeOK, MarkSentFails, ReturnIdle, IdleThread, Thread, Steps, durable, process, world
<1>2. NoNewWork /\ UNCHANGED world
  BY DEF IndInv, TypeOK, NoNewWork, MarkSentFails, ReturnIdle, IdleThread, Thread, Steps, durable, process, world
<1>3. \A v \in Receivers : receiving'[v] \in {receiving[v], None}
  BY DEF IndInv, TypeOK, MarkSentFails, ReturnIdle, IdleThread, Thread, Steps, durable, process, world
<1>4. QED
  BY <1>1, <1>2, <1>3, Quiet, RowsSame, AttemptsSame DEF MarkSentFails, durable

\* The failed send has been settled meanwhile.
LEMMA RollbackNothingInv ==
    ASSUME IndInv, NEW d \in Dispatchers, RollbackNothing(d)
    PROVE  IndInv'
<1>1. TypeOK'
  BY BoundsAssumption, NamesAssumption DEF IndInv, TypeOK, RollbackNothing, ReturnIdle, IdleThread, Thread, Steps, durable, process, world
<1>2. NoNewWork /\ UNCHANGED world
  BY DEF IndInv, TypeOK, NoNewWork, RollbackNothing, ReturnIdle, IdleThread, Thread, Steps, durable, process, world
<1>3. \A v \in Receivers : receiving'[v] \in {receiving[v], None}
  BY DEF IndInv, TypeOK, RollbackNothing, ReturnIdle, IdleThread, Thread, Steps, durable, process, world
<1>4. QED
  BY <1>1, <1>2, <1>3, Quiet, RowsSame, AttemptsSame DEF RollbackNothing, durable

\* A receipt that only leaves an audit row.
LEMMA IngestAuditInv ==
    ASSUME IndInv, NEW v \in Receivers, IngestAudit(v)
    PROVE  IndInv'
<1>1. TypeOK'
  BY BoundsAssumption, NamesAssumption DEF IndInv, TypeOK, IngestAudit, durable, process, world
<1>2. NoNewWork /\ UNCHANGED world
  BY DEF IndInv, TypeOK, NoNewWork, IngestAudit, durable, process, world
<1>3. \A x \in Receivers : receiving'[x] \in {receiving[x], None}
  BY DEF IndInv, TypeOK, IngestAudit, durable, process, world
<1>4. QED
  BY <1>1, <1>2, <1>3, Quiet, RowsSame, AttemptsSame DEF IngestAudit, durable

\* OutboxService.__init__ reconciles.
LEMMA BootInv ==
    ASSUME IndInv, Boot
    PROVE  IndInv' /\ SettleStep
<1>1. /\ rows' \in [Requests -> Row]
      /\ \A r \in Requests : RowStep(rows[r], rows'[r])
  BY ReconcileStep DEF Boot
<1>2. TypeOK'
  BY <1>1 DEF IndInv, TypeOK, Boot, world
<1>3. NoNewWork /\ UNCHANGED world /\ UNCHANGED receiving /\ UNCHANGED attempts
  BY DEF NoNewWork, Boot, world
<1>4. QED
  BY <1>1, <1>2, <1>3, Quiet, RowsByStep, AttemptsSame DEF SettleStep, world

\* The periodic reconcile of the pump thread.
LEMMA ReconcileDueInv ==
    ASSUME IndInv, ReconcileDue
    PROVE  IndInv' /\ SettleStep
<1>1. /\ rows' \in [Requests -> Row]
      /\ \A r \in Requests : RowStep(rows[r], rows'[r])
  BY ReconcileStep DEF ReconcileDue
<1>2. TypeOK'
  BY <1>1 DEF IndInv, TypeOK, ReconcileDue, process, world
<1>3. NoNewWork /\ UNCHANGED world /\ UNCHANGED receiving /\ UNCHANGED attempts
  BY DEF NoNewWork, ReconcileDue, process, world
<1>4. QED
  BY <1>1, <1>2, <1>3, Quiet, RowsByStep, AttemptsSame DEF SettleStep, world

\* The transaction of a bind: rows move by RowStep, attempts are relabelled.
LEMMA BindTransactionStep ==
    ASSUME IndInv, NEW i \in Instances, NEW g \in Generations, NEW s \in Sessions,
           BindTransaction(i, g, s)
    PROVE  /\ rows' \in [Requests -> Row]
           /\ \A r \in Requests : RowStep(rows[r], rows'[r])
           /\ attempts' \in [Requests -> Seq(Attempt)]
           /\ AttemptsGrow
           /\ inst' \in [Instances -> Instance]
           /\ bound' \in Instances \cup {None}
           /\ published' \in [Instances -> Binding]
<1>1. \A r \in Requests : RowStep(rows[r], RowAfterBind(rows[r], i, g, s))
  BY BindStep DEF IndInv, GoodRows, TypeOK
<1>2. \A r \in Requests : /\ AttemptsAfterBind(r, i, g, s) \in Seq(Attempt)
                          /\ Len(AttemptsAfterBind(r, i, g, s)) = Len(attempts[r])
                          /\ Len(attempts[r]) \in Nat
  BY AttemptsAfterBindType, LenProperties DEF IndInv, TypeOK
<1>3. /\ rows' \in [Requests -> Row]
      /\ \A r \in Requests : RowStep(rows[r], rows'[r])
  BY <1>1 DEF BindTransaction, RowStep, GoodRow
<1>4. attempts' \in [Requests -> Seq(Attempt)] /\ AttemptsGrow
  BY <1>2 DEF BindTransaction, AttemptsGrow
<1>5. \A j \in Instances : /\ InstanceAfterBind(j, i, g, s) \in Instance
                           /\ PublishedAfterBind(j, i, g, s) \in Binding
  <2>1. g \in 0 .. MaxGeneration /\ 0 \in 0 .. MaxGeneration /\ StartupSession \in Sessions
    BY BoundsAssumption, NamesAssumption DEF Generations
  <2>2. \A j \in Instances : inst[j] \in Instance /\ published[j] \in Binding
    BY DEF IndInv, TypeOK
  <2>3. \A j \in Instances : InstanceAfterBind(j, i, g, s) \in Instance
    BY <2>1, <2>2 DEF InstanceAfterBind, Instance, Contacts
  <2>4. \A j \in Instances : PublishedAfterBind(j, i, g, s) \in Binding
    BY <2>1, <2>2 DEF PublishedAfterBind, Binding, OpenBinding, Unpublished, Contacts
  <2>5. QED
    BY <2>3, <2>4
<1>6. QED
  BY <1>3, <1>4, <1>5 DEF BindTransaction

\* LocalSilRuntime.__init__ binds generation 1.
LEMMA StartupBindInv ==
    ASSUME IndInv, NEW i \in Instances, StartupBind(i)
    PROVE  IndInv' /\ SettleStep
<1>1. BindTransaction(i, 1, StartupSession) /\ 1 \in Generations /\ StartupSession \in Sessions
  BY BoundsAssumption, NamesAssumption DEF StartupBind, Generations
<1>2. TypeOK'
  BY <1>1, BindTransactionStep DEF IndInv, TypeOK, StartupBind, world
<1>3. NoNewWork /\ UNCHANGED world /\ UNCHANGED receiving
  BY DEF NoNewWork, StartupBind, world
<1>4. QED
  BY <1>1, <1>2, <1>3, BindTransactionStep, Quiet, RowsByStep DEF SettleStep, world

\* A rebind or a migration.
LEMMA BindCommitInv ==
    ASSUME IndInv, BindCommit
    PROVE  IndInv' /\ SettleStep
<1>1. /\ BindTransaction(bindReq.inst, bindReq.gen, bindReq.session)
      /\ bindReq.inst \in Instances /\ bindReq.gen \in Generations
      /\ bindReq.session \in Sessions
  BY DEF IndInv, TypeOK, BindCommit, BindArgs
<1>2. TypeOK'
  BY <1>1, BindTransactionStep DEF IndInv, TypeOK, BindCommit, world
<1>3. NoNewWork /\ UNCHANGED world /\ UNCHANGED receiving
  BY DEF NoNewWork, BindCommit, world
<1>4. QED
  BY <1>1, <1>2, <1>3, BindTransactionStep, Quiet, RowsByStep DEF SettleStep, world

\* Contact opens or closes.
LEMMA SetContactStateInv ==
    ASSUME IndInv, NEW i \in Instances, NEW c \in Contacts, SetContactState(i, c)
    PROVE  IndInv' /\ SettleStep
<1>1. \A r \in Requests : /\ RowStep(rows[r], rows[r])
                          /\ RowStep(rows[r], OnContactOpened(rows[r]))
                          /\ RowStep(rows[r], OnContactClosed(rows[r]))
  BY OpenedStep, ClosedStep DEF IndInv, GoodRows, TypeOK, RowStep
<1>2. /\ rows' \in [Requests -> Row]
      /\ \A r \in Requests : RowStep(rows[r], rows'[r])
  <2>1. \A r \in Requests : RowStep(rows[r], rows'[r])
    BY <1>1 DEF SetContactState
  <2>2. QED
    BY <2>1 DEF SetContactState, RowStep, GoodRow
<1>3. inst' \in [Instances -> Instance]
  BY DEF IndInv, TypeOK, SetContactState, Instance
<1>4. TypeOK'
  BY <1>2, <1>3 DEF IndInv, TypeOK, SetContactState, process, world
<1>5. NoNewWork /\ UNCHANGED world /\ UNCHANGED receiving /\ UNCHANGED attempts
  BY DEF NoNewWork, SetContactState, process, world
<1>6. QED
  BY <1>2, <1>4, <1>5, Quiet, RowsByStep, AttemptsSame DEF SettleStep, world

\* Admission inserts the command and its outbox row together.
LEMMA AdmitInv ==
    ASSUME IndInv, NEW h \in Handlers, NEW r \in Requests, NEW m \in Modes,
           NEW ttl \in TTLs, Admit(h, r, m, ttl)
    PROVE  IndInv'
<1>1. api[h].inst \in Instances /\ now + ttl \in Nat /\ now \in Nat
  BY BoundsAssumption DEF IndInv, TypeOK, Admit, Submission
<1>2. GoodRow(AdmittedRow(api[h], m, ttl)) /\ AdmittedRow(api[h], m, ttl).state # "ABSENT"
  BY <1>1 DEF AdmittedRow, AbsentRow, GoodRow, Row, RowLeaseCoherent, RowOutcomeAgrees,
     Live, RowStates, NonterminalStates, TerminalStates, CommandStates, Reasons, Modes
<1>3. rows' = [rows EXCEPT ![r] = AdmittedRow(api[h], m, ttl)] /\ rows[r].state = "ABSENT"
  BY DEF Admit
<1>4. rows' \in [Requests -> Row] /\ RowsAdvance
  BY <1>2, <1>3 DEF IndInv, TypeOK, GoodRows, RowsAdvance, GoodRow
<1>5. TypeOK'
  BY <1>4 DEF IndInv, TypeOK, Admit, world
<1>6. NoNewWork /\ UNCHANGED world /\ UNCHANGED receiving /\ UNCHANGED attempts
  BY DEF NoNewWork, Admit, world
<1>7. QED
  BY <1>4, <1>5, <1>6, Quiet, AttemptsSame

\* A failed send is rolled back.
LEMMA RollbackInv ==
    ASSUME IndInv, NEW d \in Dispatchers, Rollback(d)
    PROVE  IndInv' /\ SettleStep
<1> DEFINE q == disp[d].req
<1>1. q \in Requests /\ disp[d].number \in DOMAIN attempts[q] /\ rows[q].state = "SENT"
  BY LenProperties DEF IndInv, TypeOK, WorkOK, Rollback, CanRollback, RowOf, Prepared
<1>2. RowStep(rows[q], RowAfterRollback(rows[q], AttemptCount(q)))
  BY <1>1, RollbackStep DEF IndInv, TypeOK, GoodRows
<1>3. /\ rows' \in [Requests -> Row]
      /\ \A r \in Requests : RowStep(rows[r], rows'[r])
  <2>1. \A r \in Requests : RowStep(rows[r], rows[r])
    BY DEF IndInv, GoodRows, RowStep
  <2>2. rows' = [rows EXCEPT ![q] = RowAfterRollback(rows[q], AttemptCount(q))]
    BY DEF Rollback
  <2>3. \A r \in Requests : RowStep(rows[r], rows'[r])
    BY <1>1, <1>2, <2>1, <2>2 DEF IndInv, TypeOK
  <2>4. QED
    BY <2>2, <2>3 DEF RowStep, GoodRow, IndInv, TypeOK
<1>4. attempts' \in [Requests -> Seq(Attempt)] /\ AttemptsGrow
  <2>1. LabelAttempt(d, "NOT_SENT") /\ "NOT_SENT" \in SendResults
    BY DEF Rollback, SendResults
  <2>2. /\ attempts' \in [Requests -> Seq(Attempt)]
        /\ \A r \in Requests : Len(attempts'[r]) = Len(attempts[r])
    BY <1>1, <2>1, LabelAttemptType DEF IndInv, TypeOK
  <2>3. QED
    BY <2>2, LenProperties DEF IndInv, TypeOK, AttemptsGrow
<1>5. TypeOK'
  BY <1>3, <1>4, BoundsAssumption, NamesAssumption DEF IndInv, TypeOK, Rollback,
     ReturnIdle, IdleThread, Thread, Steps, world
<1>6. NoNewWork /\ UNCHANGED world /\ UNCHANGED receiving
  BY DEF IndInv, TypeOK, NoNewWork, Rollback, ReturnIdle, IdleThread, world
<1>7. QED
  BY <1>3, <1>4, <1>5, <1>6, Quiet, RowsByStep DEF SettleStep, world

\* A dispatcher moves on with the request it holds.
MovesOn(d) ==
    /\ disp[d].pc # "idle"
    /\ disp'[d].req = disp[d].req
    /\ disp'[d].pc \in Prepared =>
          disp'[d].number \in 1 .. Len(attempts'[disp[d].req])

\* A step of one dispatcher keeps every thread's hold on its request.
LEMMA WorkMoves ==
    ASSUME IndInv, RowsAdvance, AttemptsGrow, attempts' \in [Requests -> Seq(Attempt)],
           NEW d \in Dispatchers, MovesOn(d),
           \A e \in Dispatchers \ {d} : disp'[e] = disp[e]
    PROVE  WorkOK'
<1>1. \A r \in Requests : Len(attempts[r]) \in Nat /\ Len(attempts'[r]) \in Nat
  BY LenProperties DEF IndInv, TypeOK
<1>2. QED
  BY <1>1 DEF IndInv, WorkOK, RowsAdvance, AttemptsGrow, MovesOn

\* One row moves by RowStep and the others stay.
LEMMA OneRowStep ==
    ASSUME IndInv, NEW q \in Requests, NEW p, RowStep(rows[q], p),
           rows' = [rows EXCEPT ![q] = p]
    PROVE  rows' \in [Requests -> Row] /\ \A r \in Requests : RowStep(rows[r], rows'[r])
<1>1. \A r \in Requests : RowStep(rows[r], rows[r])
  BY DEF IndInv, GoodRows, RowStep
<1>2. \A r \in Requests : RowStep(rows[r], rows'[r])
  BY <1>1 DEF IndInv, TypeOK
<1>3. QED
  BY <1>2 DEF RowStep, GoodRow, IndInv, TypeOK

\* The dispatcher's own attempt is relabelled.
LEMMA OwnAttempt ==
    ASSUME IndInv, NEW d \in Dispatchers, disp[d].pc \in Prepared,
           NEW result \in SendResults, LabelAttempt(d, result)
    PROVE  /\ attempts' \in [Requests -> Seq(Attempt)]
           /\ \A r \in Requests : Len(attempts'[r]) = Len(attempts[r])
           /\ AttemptsGrow
<1>1. disp[d].req \in Requests /\ disp[d].number \in DOMAIN attempts[disp[d].req]
  BY LenProperties DEF IndInv, TypeOK, WorkOK, Prepared
<1>2. /\ attempts' \in [Requests -> Seq(Attempt)]
      /\ \A r \in Requests : Len(attempts'[r]) = Len(attempts[r])
  BY <1>1, LabelAttemptType DEF IndInv, TypeOK
<1>3. QED
  BY <1>2, LenProperties DEF IndInv, TypeOK, AttemptsGrow

\* _dispatch picks a due request of the bound instance.
LEMMA BeginDispatchInv ==
    ASSUME IndInv, NEW d \in Dispatchers, NEW r \in Requests, BeginDispatch(d, r)
    PROVE  IndInv'
<1>1. bound \in Instances /\ inst[bound] \in Instance
  BY DEF IndInv, TypeOK, BeginDispatch, Active
<1>2. InstanceBinding(bound) \in Binding
  BY <1>1 DEF InstanceBinding, Instance, Binding
<1>3. [pc |-> "reconciling", req |-> r, gen |-> inst[bound].gen,
       session |-> inst[bound].session, number |-> 0] \in Thread
  BY <1>1 DEF Instance, Thread, Steps
<1>4. TypeOK'
  BY <1>2, <1>3 DEF IndInv, TypeOK, BeginDispatch, durable, world
<1>5. rows[r].state # "ABSENT" /\ rows[r].target \in Instances
  BY <1>1 DEF BeginDispatch
<1>6. WorkOK'
  BY <1>5 DEF IndInv, TypeOK, WorkOK, BeginDispatch, Prepared, durable
<1>7. RowsAdvance /\ KnownOK'
  <2>1. UNCHANGED rows /\ UNCHANGED world /\ UNCHANGED receiving
    BY DEF BeginDispatch, durable, world
  <2>2. QED
    BY <1>4, <2>1, RowsSame, KnownStable DEF world, TypeOK
<1>8. QED
  BY <1>4, <1>6, <1>7, Combine

\* claim() reconciles first.
LEMMA ClaimReconcileInv ==
    ASSUME IndInv, NEW d \in Dispatchers, ClaimReconcile(d)
    PROVE  IndInv' /\ SettleStep
<1>1. /\ rows' \in [Requests -> Row]
      /\ \A r \in Requests : RowStep(rows[r], rows'[r])
  BY ReconcileStep DEF ClaimReconcile
<1>2. RowsAdvance /\ AttemptsGrow
  BY <1>1, RowsByStep, AttemptsSame DEF ClaimReconcile
<1>3. TypeOK'
  BY <1>1 DEF IndInv, TypeOK, ClaimReconcile, Thread, Steps, world
<1>4. MovesOn(d) /\ \A e \in Dispatchers \ {d} : disp'[e] = disp[e]
  BY DEF IndInv, TypeOK, ClaimReconcile, MovesOn, Prepared
<1>5. WorkOK' /\ KnownOK'
  BY <1>2, <1>3, <1>4, WorkMoves, KnownStable DEF ClaimReconcile, world, TypeOK
<1>6. QED
  BY <1>1, <1>2, <1>3, <1>5, Combine DEF SettleStep, ClaimReconcile, world

\* The lease is taken.
LEMMA ClaimInv ==
    ASSUME IndInv, NEW d \in Dispatchers, Claim(d)
    PROVE  IndInv' /\ SettleStep
<1> DEFINE q == disp[d].req
           p == [rows[q] EXCEPT !.state = "DISPATCHING", !.owner = d,
                                !.leaseUntil = now + LeaseDuration]
<1>1. q \in Requests /\ rows[q].state = "OUTBOX_PENDING"
  BY DEF IndInv, WorkOK, Claim, Claimable, RowOf
<1>2. RowStep(rows[q], p)
  <2>1. now + LeaseDuration \in Nat \ {0} /\ d # None
    BY PolicyAssumption, NamesAssumption DEF IndInv, TypeOK
  <2>2. GoodRow(rows[q])
    BY <1>1 DEF IndInv, GoodRows
  <2>3. QED
    BY <1>1, <2>1, <2>2 DEF RowStep, GoodRow, Row, RowLeaseCoherent, RowOutcomeAgrees, Live,
       RowStates, NonterminalStates
<1>3. /\ rows' \in [Requests -> Row]
      /\ \A r \in Requests : RowStep(rows[r], rows'[r])
  BY <1>1, <1>2, OneRowStep DEF Claim
<1>4. RowsAdvance /\ AttemptsGrow
  BY <1>3, RowsByStep, AttemptsSame DEF Claim
<1>5. TypeOK'
  BY <1>3 DEF IndInv, TypeOK, Claim, Thread, Steps, world
<1>6. MovesOn(d) /\ \A e \in Dispatchers \ {d} : disp'[e] = disp[e]
  BY DEF IndInv, TypeOK, Claim, MovesOn, Prepared
<1>7. WorkOK' /\ KnownOK'
  BY <1>4, <1>5, <1>6, WorkMoves, KnownStable DEF Claim, world, TypeOK
<1>8. QED
  BY <1>3, <1>4, <1>5, <1>7, Combine DEF SettleStep, Claim, world

\* An attempt is logged with a fresh sequence count.
LEMMA PrepareAttemptInv ==
    ASSUME IndInv, NEW d \in Dispatchers, PrepareAttempt(d)
    PROVE  IndInv'
<1> DEFINE q == disp[d].req
           i == rows[q].target
           t == [disp[d] EXCEPT !.pc = "prepared", !.number = Len(attempts[q]) + 1]
           a == [result |-> "PERSISTED_NOT_SENT", gen |-> disp[d].gen,
                 session |-> disp[d].session,
                 sequence |-> Allocated(seqs[i]).sequence,
                 epoch |-> Allocated(seqs[i]).epoch]
<1>1. q \in Requests /\ i \in Instances /\ seqs[i] \in Allocator /\ ~Exhausted(seqs[i])
  BY DEF IndInv, TypeOK, WorkOK, PrepareAttempt, CanPrepare, RowOf
<1>2. /\ AfterAllocate(seqs[i]) \in Allocator
      /\ Allocated(seqs[i]).sequence \in Nat
      /\ Allocated(seqs[i]).epoch \in Nat
  BY <1>1, SeqModulusAssumption, MaxEpochAssumption
     DEF AfterAllocate, Allocated, Allocator, Rollover, Exhausted
<1>3. a \in Attempt
  BY <1>2 DEF IndInv, TypeOK, Thread, Attempt, SendResults
<1>4. /\ attempts' = [attempts EXCEPT ![q] = Append(attempts[q], a)]
      /\ seqs' = [seqs EXCEPT ![i] = AfterAllocate(seqs[i])]
  BY DEF PrepareAttempt, RowOf
<1>5. /\ Append(attempts[q], a) \in Seq(Attempt)
      /\ Len(Append(attempts[q], a)) = Len(attempts[q]) + 1
      /\ \A r \in Requests : Len(attempts[r]) \in Nat
  BY <1>1, <1>3, AppendProperties, LenProperties DEF IndInv, TypeOK
<1>6. attempts' \in [Requests -> Seq(Attempt)] /\ AttemptsGrow
      /\ Len(attempts'[q]) = Len(attempts[q]) + 1
  BY <1>1, <1>4, <1>5 DEF IndInv, TypeOK, AttemptsGrow
<1>7. TypeOK'
  <2>1. disp[d] \in Thread
    BY DEF IndInv, TypeOK
  <2>2. t \in Thread
    <3>1. Len(attempts[q]) + 1 \in Nat /\ "prepared" \in Steps
      BY <1>1, <1>5 DEF Steps
    <3>2. QED
      BY <2>1, <3>1 DEF Thread
  <2>3. disp' = [disp EXCEPT ![d] = t]
    BY DEF PrepareAttempt, AttemptCount
  <2>4. disp' \in [Dispatchers -> Thread]
    BY <2>2, <2>3 DEF IndInv, TypeOK
  <2>5. seqs' \in [Instances -> Allocator]
    BY <1>1, <1>2, <1>4 DEF IndInv, TypeOK
  <2>6. QED
    BY <1>6, <2>4, <2>5 DEF IndInv, TypeOK, PrepareAttempt, world
<1>8. RowsAdvance
  BY RowsSame DEF PrepareAttempt
<1>9. MovesOn(d) /\ \A e \in Dispatchers \ {d} : disp'[e] = disp[e]
  <2>1. disp[d] \in Thread /\ d \in DOMAIN disp
    BY DEF IndInv, TypeOK
  <2>2. disp' = [disp EXCEPT ![d] = t] /\ disp[d].pc = "claimed"
    BY DEF PrepareAttempt, AttemptCount
  <2>3. t.req = q /\ t.number = Len(attempts[q]) + 1
    BY <2>1 DEF Thread
  <2>4. disp'[d] = t /\ \A e \in Dispatchers \ {d} : disp'[e] = disp[e]
    BY <2>1, <2>2 DEF IndInv, TypeOK
  <2>5. Len(attempts[q]) + 1 \in 1 .. Len(attempts'[q])
    BY <1>1, <1>5, <1>6
  <2> HIDE DEF t
  <2>6. QED
    BY <2>2, <2>3, <2>4, <2>5 DEF MovesOn
<1>10. WorkOK' /\ KnownOK'
  BY <1>6, <1>7, <1>8, <1>9, WorkMoves, KnownStable DEF PrepareAttempt, world, TypeOK
<1>11. QED
  BY <1>7, <1>8, <1>10, Combine

\* The fence is entered, or found to have moved.
LEMMA FenceReadInv ==
    ASSUME IndInv, NEW d \in Dispatchers, FenceRead(d)
    PROVE  IndInv'
<1>1. RowsAdvance /\ AttemptsGrow
  BY RowsSame, AttemptsSame DEF FenceRead, durable
<1>2. TypeOK'
  <2>1. PICK pc \in Steps : disp' = [disp EXCEPT ![d].pc = pc]
    BY DEF FenceRead, Steps
  <2>2. disp' \in [Dispatchers -> Thread]
    BY <2>1 DEF IndInv, TypeOK, Thread
  <2>3. QED
    BY <2>2 DEF IndInv, TypeOK, FenceRead, durable, world
<1>3. MovesOn(d) /\ \A e \in Dispatchers \ {d} : disp'[e] = disp[e]
  BY DEF IndInv, TypeOK, WorkOK, FenceRead, MovesOn, Prepared, durable
<1>4. WorkOK' /\ KnownOK'
  BY <1>1, <1>2, <1>3, WorkMoves, KnownStable DEF FenceRead, world, TypeOK
<1>5. QED
  BY <1>1, <1>2, <1>4, Combine

\* mark_sent arms the row and the attempt in one transaction.
LEMMA MarkSentInv ==
    ASSUME IndInv, NEW d \in Dispatchers, MarkSent(d)
    PROVE  IndInv' /\ SettleStep
<1> DEFINE q == disp[d].req
           p == [rows[q] EXCEPT !.state = "SENT", !.ackBy = now + AckTimeout,
                                !.owner = None, !.leaseUntil = 0]
<1>1. q \in Requests /\ rows[q].state = "DISPATCHING" /\ disp[d].pc \in Prepared
  BY DEF IndInv, WorkOK, MarkSent, CanMarkSent, LeaseHeld, RowOf, Prepared
<1>2. RowStep(rows[q], p)
  <2>1. now + AckTimeout \in Nat
    BY PolicyAssumption DEF IndInv, TypeOK
  <2>2. GoodRow(rows[q])
    BY <1>1 DEF IndInv, GoodRows
  <2>3. QED
    BY <1>1, <2>1, <2>2 DEF RowStep, GoodRow, Row, RowLeaseCoherent, RowOutcomeAgrees, Live,
       RowStates, NonterminalStates
<1>3. /\ rows' \in [Requests -> Row]
      /\ \A r \in Requests : RowStep(rows[r], rows'[r])
  BY <1>1, <1>2, OneRowStep DEF MarkSent
<1>4. RowsAdvance
  BY <1>3, RowsByStep
<1>5. /\ attempts' \in [Requests -> Seq(Attempt)]
      /\ \A r \in Requests : Len(attempts'[r]) = Len(attempts[r])
      /\ AttemptsGrow
  BY <1>1, OwnAttempt DEF MarkSent, SendResults
<1>6. TypeOK'
  BY <1>3, <1>5 DEF IndInv, TypeOK, MarkSent, Thread, Steps, world
<1>7. MovesOn(d) /\ \A e \in Dispatchers \ {d} : disp'[e] = disp[e]
  BY <1>1, <1>5 DEF IndInv, TypeOK, WorkOK, MarkSent, MovesOn, Prepared
<1>8. WorkOK' /\ KnownOK'
  BY <1>4, <1>5, <1>6, <1>7, WorkMoves, KnownStable DEF MarkSent, world, TypeOK
<1>9. QED
  BY <1>3, <1>4, <1>6, <1>8, Combine DEF SettleStep, MarkSent, world

\* A frame of a dispatcher at work is well formed.
LEMMA FrameType ==
    ASSUME IndInv, NEW d \in Dispatchers, disp[d].pc = "armed"
    PROVE  Frame(d) \in Tc /\ rows[Frame(d).req].state # "ABSENT"
BY DEF IndInv, TypeOK, WorkOK, Frame, RowOf, Tc, Thread

\* The link after a send: old frames and perhaps the dispatcher's.
LEMMA UplinkKnown ==
    ASSUME IndInv, NEW d \in Dispatchers, disp[d].pc = "armed", UNCHANGED rows,
           NEW S \in SUBSET {Frame(d)}, uplink' = uplink \cup S,
           UNCHANGED <<downlink, onboard, receiving>>
    PROVE  uplink' \subseteq Tc /\ KnownOK'
<1>1. Frame(d) \in Tc /\ rows[Frame(d).req].state # "ABSENT"
  BY FrameType
<1>2. QED
  BY <1>1 DEF IndInv, TypeOK, KnownOK

\* The frame leaves and the dispatch ends.
LEMMA SendInv ==
    ASSUME IndInv, NEW d \in Dispatchers, Send(d)
    PROVE  IndInv'
<1>1. uplink' \subseteq Tc /\ KnownOK'
  BY UplinkKnown DEF Send, durable
<1>2. TypeOK'
  BY <1>1, BoundsAssumption, NamesAssumption DEF IndInv, TypeOK, Send, ReturnIdle,
     IdleThread, Thread, Steps, durable
<1>3. NoNewWork
  BY DEF IndInv, TypeOK, NoNewWork, Send, ReturnIdle, IdleThread
<1>4. RowsAdvance /\ AttemptsGrow
  BY RowsSame, AttemptsSame DEF Send, durable
<1>5. WorkOK'
  BY <1>2, <1>3, <1>4, WorkStable DEF TypeOK
<1>6. QED
  BY <1>1, <1>2, <1>4, <1>5, Combine

\* A send that reports an error.
LEMMA SendFailsInv ==
    ASSUME IndInv, NEW d \in Dispatchers, SendFails(d)
    PROVE  IndInv'
<1>1. uplink' \subseteq Tc /\ KnownOK'
  BY UplinkKnown DEF SendFails, durable
<1>2. TypeOK'
  BY <1>1 DEF IndInv, TypeOK, SendFails, Thread, Steps, durable
<1>3. RowsAdvance /\ AttemptsGrow
  BY RowsSame, AttemptsSame DEF SendFails, durable
<1>4. MovesOn(d) /\ \A e \in Dispatchers \ {d} : disp'[e] = disp[e]
  BY DEF IndInv, TypeOK, WorkOK, SendFails, MovesOn, Prepared, durable
<1>5. WorkOK'
  BY <1>2, <1>3, <1>4, WorkMoves DEF TypeOK
<1>6. QED
  BY <1>1, <1>2, <1>3, <1>5, Combine

\* The fence did not match: the leased row goes back or expires.
LEMMA MarkNotSentInv ==
    ASSUME IndInv, NEW d \in Dispatchers, MarkNotSent(d)
    PROVE  IndInv' /\ SettleStep
<1> DEFINE q == disp[d].req
           p == IF Expired(rows[q]) THEN Terminalize(rows[q], "EXPIRED", "REBIND")
                ELSE Requeue(rows[q], "OUTBOX_PENDING", now)
<1>1. /\ q \in Requests /\ GoodRow(rows[q]) /\ Live(rows[q]) /\ now \in Nat
      /\ disp[d].pc \in Prepared
  BY DEF IndInv, TypeOK, WorkOK, GoodRows, MarkNotSent, LeaseHeld, RowOf, Live,
     NonterminalStates, Prepared
<1>2. RowStep(rows[q], p)
  BY <1>1, TerminalizeStep, RequeueStep DEF Reasons
<1>3. /\ rows' \in [Requests -> Row]
      /\ \A r \in Requests : RowStep(rows[r], rows'[r])
  <2>1. rows' = [rows EXCEPT ![q] = p]
    BY DEF MarkNotSent
  <2>2. QED
    BY <1>1, <1>2, <2>1, OneRowStep
<1>4. attempts' \in [Requests -> Seq(Attempt)] /\ AttemptsGrow
  BY <1>1, OwnAttempt DEF MarkNotSent, SendResults
<1>5. TypeOK'
  BY <1>3, <1>4, BoundsAssumption, NamesAssumption DEF IndInv, TypeOK, MarkNotSent,
     ReturnIdle, IdleThread, Thread, Steps, world
<1>6. NoNewWork /\ UNCHANGED world /\ UNCHANGED receiving
  BY DEF IndInv, TypeOK, NoNewWork, MarkNotSent, ReturnIdle, IdleThread, world
<1>7. QED
  BY <1>3, <1>4, <1>5, <1>6, Quiet, RowsByStep DEF SettleStep, world

\* The fence did not match and the lease is gone too.
LEMMA MarkAttemptNotSentInv ==
    ASSUME IndInv, NEW d \in Dispatchers, MarkAttemptNotSent(d)
    PROVE  IndInv'
<1>1. attempts' \in [Requests -> Seq(Attempt)] /\ AttemptsGrow
  <2>1. CASE LabelAttempt(d, "NOT_SENT")
    BY <2>1, OwnAttempt DEF MarkAttemptNotSent, SendResults, Prepared
  <2>2. CASE UNCHANGED attempts
    BY <2>2, AttemptsSame DEF IndInv, TypeOK
  <2>3. QED
    BY <2>1, <2>2 DEF MarkAttemptNotSent
<1>2. TypeOK'
  BY <1>1, BoundsAssumption, NamesAssumption DEF IndInv, TypeOK, MarkAttemptNotSent,
     ReturnIdle, IdleThread, Thread, Steps, world
<1>3. NoNewWork /\ UNCHANGED world /\ UNCHANGED receiving /\ UNCHANGED rows
  BY DEF IndInv, TypeOK, NoNewWork, MarkAttemptNotSent, ReturnIdle, IdleThread, world
<1>4. QED
  BY <1>1, <1>2, <1>3, Quiet, RowsSame

\* A frame is stamped with the link generation.
LEMMA ReceiveTmInv ==
    ASSUME IndInv, NEW v \in Receivers, NEW m \in downlink, ReceiveTm(v, m)
    PROVE  IndInv'
<1>1. m \in Tm /\ onboard[m.req] # "UNSEEN"
  BY DEF IndInv, TypeOK, KnownOK
<1>2. [req |-> m.req, inst |-> m.inst, gen |-> inst[m.inst].gen,
       session |-> m.session, ok |-> m.ok] \in Receipt
  BY <1>1 DEF IndInv, TypeOK, Tm, Receipt, Instance
<1>3. TypeOK'
  BY <1>2 DEF IndInv, TypeOK, ReceiveTm, durable, world
<1>4. RowsAdvance /\ AttemptsGrow
  BY RowsSame, AttemptsSame DEF ReceiveTm, durable
<1>5. WorkOK'
  BY <1>3, <1>4, WorkStable DEF TypeOK, NoNewWork, ReceiveTm
<1>6. KnownOK'
  BY <1>1 DEF IndInv, TypeOK, KnownOK, ReceiveTm, durable, world
<1>7. QED
  BY <1>3, <1>4, <1>5, <1>6, Combine

\* A correlated receipt acknowledges the command.
LEMMA IngestAckInv ==
    ASSUME IndInv, NEW v \in Receivers, IngestAck(v)
    PROVE  IndInv'
<1> DEFINE q == receiving[v].req
           p == [rows[q] EXCEPT !.state = "ACKED", !.command = "ACKED", !.owner = None,
                                !.leaseUntil = 0, !.ackBy = 0]
<1>1. q \in Requests /\ rows[q].state = "SENT" /\ GoodRow(rows[q])
  BY DEF IndInv, TypeOK, GoodRows, IngestAck, Correlated, Receipt
<1>2. GoodRow(p) /\ p.state # "ABSENT" /\ p.target = rows[q].target
  BY <1>1 DEF GoodRow, Row, RowLeaseCoherent, RowOutcomeAgrees, Live, RowStates,
     NonterminalStates, TerminalStates, CommandStates
<1>3. rows' = [rows EXCEPT ![q] = p]
  BY DEF IngestAck
<1>4. rows' \in [Requests -> Row] /\ RowsAdvance
  BY <1>1, <1>2, <1>3 DEF IndInv, TypeOK, GoodRows, RowsAdvance, GoodRow
<1>5. attempts' \in [Requests -> Seq(Attempt)] /\ AttemptsGrow
  <2>1. attempts[q] \in Seq(Attempt) /\ "ACKED" \in SendResults
    BY <1>1 DEF IndInv, TypeOK, SendResults
  <2>2. /\ Relabel(attempts[q], {"SENT"}, "ACKED") \in Seq(Attempt)
        /\ Len(Relabel(attempts[q], {"SENT"}, "ACKED")) = Len(attempts[q])
    BY <2>1, RelabelType
  <2>3. attempts' = [attempts EXCEPT ![q] = Relabel(attempts[q], {"SENT"}, "ACKED")]
    BY DEF IngestAck
  <2>4. \A r \in Requests : Len(attempts[r]) \in Nat
    BY LenProperties DEF IndInv, TypeOK
  <2>5. QED
    BY <1>1, <2>2, <2>3, <2>4 DEF IndInv, TypeOK, AttemptsGrow
<1>6. TypeOK'
  BY <1>4, <1>5 DEF IndInv, TypeOK, IngestAck, world
<1>7. NoNewWork /\ UNCHANGED world
  BY DEF NoNewWork, IngestAck, world
<1>8. \A w \in Receivers : receiving'[w] \in {receiving[w], None}
  BY DEF IndInv, TypeOK, IngestAck
<1>9. QED
  BY <1>4, <1>5, <1>6, <1>7, <1>8, Quiet

\* A correlated refusal fails the command.
LEMMA IngestNackInv ==
    ASSUME IndInv, NEW v \in Receivers, IngestNack(v)
    PROVE  IndInv' /\ SettleStep
<1> DEFINE q == receiving[v].req
<1>1. q \in Requests /\ GoodRow(rows[q]) /\ Live(rows[q])
  BY DEF IndInv, TypeOK, GoodRows, IngestNack, Correlated, Receipt, Live, NonterminalStates
<1>2. RowStep(rows[q], Terminalize(rows[q], "DELIVERY_FAILED", "NACK"))
  BY <1>1, TerminalizeStep DEF Reasons
<1>3. /\ rows' \in [Requests -> Row]
      /\ \A r \in Requests : RowStep(rows[r], rows'[r])
  BY <1>1, <1>2, OneRowStep DEF IngestNack
<1>4. TypeOK'
  BY <1>3 DEF IndInv, TypeOK, IngestNack, world
<1>5. NoNewWork /\ UNCHANGED world /\ UNCHANGED attempts
  BY DEF NoNewWork, IngestNack, world
<1>6. \A w \in Receivers : receiving'[w] \in {receiving[w], None}
  BY DEF IndInv, TypeOK, IngestNack
<1>7. QED
  BY <1>3, <1>4, <1>5, <1>6, Quiet, RowsByStep, AttemptsSame DEF SettleStep, world

\* The satellite decides a request, or repeats its verdict.
LEMMA SatelliteInv ==
    ASSUME IndInv, Satellite
    PROVE  IndInv'
<1>0. PICK f \in uplink : \E s \in AnswerSessions(f) :
         \/ \E verdict \in {"ACCEPTED", "REJECTED"} : SatelliteDecides(f, s, verdict)
         \/ SatelliteRepeats(f, s)
  BY DEF Satellite
<1>1. PICK s \in AnswerSessions(f) :
         \/ \E verdict \in {"ACCEPTED", "REJECTED"} : SatelliteDecides(f, s, verdict)
         \/ SatelliteRepeats(f, s)
  BY <1>0
<1>2. f \in Tc /\ s \in Sessions /\ f.req \in Requests
  BY DEF IndInv, TypeOK, AnswerSessions, Tc, Instance
<1>3. \A verdict : Answer(f, s, verdict) \in Tm /\ Answer(f, s, verdict).req = f.req
  BY <1>2 DEF Answer, Tm, Tc
<1>4. JournalEvent(f, s) \in Tm /\ JournalEvent(f, s).req = f.req
  BY <1>2 DEF JournalEvent, Tm, Tc
<1>5. RowsAdvance /\ AttemptsGrow /\ NoNewWork
  BY <1>1, RowsSame, AttemptsSame DEF SatelliteDecides, SatelliteRepeats, NoNewWork,
     durable, process
<1>6. TypeOK' /\ KnownOK'
  <2>1. CASE SatelliteRepeats(f, s)
    BY <1>2, <1>3, <2>1 DEF IndInv, TypeOK, KnownOK, SatelliteRepeats, durable, process
  <2>2. ASSUME NEW verdict \in {"ACCEPTED", "REJECTED"}, SatelliteDecides(f, s, verdict)
        PROVE  TypeOK' /\ KnownOK'
    <3>1. /\ onboard' = [onboard EXCEPT ![f.req] = verdict]
          /\ onboard' \in [Requests -> Verdicts]
          /\ \A r \in Requests : onboard[r] # "UNSEEN" => onboard'[r] # "UNSEEN"
          /\ onboard'[f.req] # "UNSEEN"
      BY <1>2, <2>2 DEF IndInv, TypeOK, SatelliteDecides, Verdicts
    <3>2. downlink' = downlink \cup {Answer(f, s, verdict), JournalEvent(f, s)}
      BY <2>2 DEF SatelliteDecides
    <3>3. TypeOK'
      BY <1>3, <1>4, <2>2, <3>1, <3>2 DEF IndInv, TypeOK, SatelliteDecides, durable, process
    <3>4. KnownOK'
      <4>1. \A m \in downlink : m.req \in Requests
        BY DEF IndInv, TypeOK, Tm
      <4>2. \A v \in Receivers : receiving[v] # None => receiving[v].req \in Requests
        BY DEF IndInv, TypeOK, Receipt
      <4>3. \A m \in downlink' : onboard'[m.req] # "UNSEEN"
        BY <1>3, <1>4, <3>1, <3>2, <4>1 DEF IndInv, KnownOK
      <4>4. QED
        BY <2>2, <3>1, <4>2, <4>3 DEF IndInv, KnownOK, SatelliteDecides, durable, process
    <3>5. QED
      BY <3>3, <3>4
  <2>3. QED
    BY <1>1, <2>1, <2>2
<1>7. WorkOK'
  BY <1>5, <1>6, WorkStable DEF TypeOK
<1>8. QED
  BY <1>5, <1>6, <1>7, Combine

(***************************************************************************)
(* The invariant and what follows from it.                                 *)
(***************************************************************************)
\* The invariant holds on an empty database with no process running.
LEMMA InitInv == Init => IndInv
<1> SUFFICES ASSUME Init PROVE IndInv
  OBVIOUS
<1>1. FreshAllocator \in Allocator
  BY SeqModulusAssumption, MaxEpochAssumption DEF FreshAllocator, Allocator
<1>2. AbsentRow \in Row /\ IdleThread \in Thread /\ AbsentInstance \in Instance
      /\ Unpublished \in Binding
  BY NamesAssumption, BoundsAssumption DEF AbsentRow, IdleThread, AbsentInstance,
     Unpublished, Row, Thread, Instance, Binding, RowStates, CommandStates, Modes,
     Reasons, Contacts, Steps
<1>3. <<>> \in Seq(Attempt)
  BY EmptySeq
<1>4. TypeOK
  BY <1>1, <1>2, <1>3 DEF Init, TypeOK, Verdicts
<1>5. GoodRow(AbsentRow)
  BY <1>2 DEF GoodRow, AbsentRow, RowLeaseCoherent, RowOutcomeAgrees, Live, NonterminalStates
<1>6. GoodRows /\ WorkOK /\ KnownOK
  BY <1>5 DEF Init, GoodRows, WorkOK, KnownOK, IdleThread
<1>7. QED
  BY <1>4, <1>6 DEF IndInv

\* An admission, an acknowledgement and a decision on board, as seen from the
\* rows and the satellite's verdicts.
AdmitStep ==
    \E r \in Requests :
        /\ rows[r].command = "NONE"
        /\ \E o : o.command = "ADMITTED" /\ rows' = [rows EXCEPT ![r] = o]
        /\ UNCHANGED onboard

AckStep ==
    \E r \in Requests :
        /\ rows[r].command = "ADMITTED"
        /\ onboard[r] # "UNSEEN"
        /\ \E o : /\ o.command = "ACKED" /\ o.target = rows[r].target
                 /\ rows' = [rows EXCEPT ![r] = o]
        /\ UNCHANGED onboard

DecideStep ==
    \E r \in Requests, v \in {"ACCEPTED", "REJECTED"} :
        /\ rows[r].command # "NONE"
        /\ onboard[r] = "UNSEEN"
        /\ onboard' = [onboard EXCEPT ![r] = v]
        /\ UNCHANGED rows

\* Every step is one of the four, and keeps the invariant.
StepShape == SettleStep \/ AdmitStep \/ AckStep \/ DecideStep

\* A step that touches neither rows nor verdicts settles nothing.
LEMMA SameRows ==
    ASSUME IndInv, UNCHANGED rows, UNCHANGED onboard
    PROVE  SettleStep
BY DEF IndInv, GoodRows, SettleStep, RowStep

\* admit() inserts one row for a request that had none.
LEMMA AdmitShape ==
    ASSUME IndInv, NEW h \in Handlers, NEW r \in Requests, NEW m, NEW ttl,
           Admit(h, r, m, ttl)
    PROVE  AdmitStep
<1>1. AdmittedRow(api[h], m, ttl).command = "ADMITTED"
  BY DEF AdmittedRow, AbsentRow
<1>2. rows[r].command = "NONE"
  BY DEF IndInv, GoodRows, GoodRow, RowOutcomeAgrees, Admit
<1>3. QED
  BY <1>1, <1>2 DEF Admit, AdmitStep, world

\* A correlated positive receipt acknowledges one admitted, decided request.
LEMMA AckShape ==
    ASSUME IndInv, NEW v \in Receivers, IngestAck(v)
    PROVE  AckStep
<1> DEFINE q == receiving[v].req
           p == [rows[q] EXCEPT !.state = "ACKED", !.command = "ACKED", !.owner = None,
                                !.leaseUntil = 0, !.ackBy = 0]
<1>1. /\ q \in Requests /\ rows[q].state = "SENT" /\ GoodRow(rows[q])
      /\ onboard[q] # "UNSEEN"
  BY DEF IndInv, TypeOK, GoodRows, KnownOK, IngestAck, Correlated, Receipt
<1>2. rows[q].command = "ADMITTED" /\ p.command = "ACKED" /\ p.target = rows[q].target
  BY <1>1 DEF GoodRow, Row, RowOutcomeAgrees, Live, NonterminalStates
<1>3. rows' = [rows EXCEPT ![q] = p] /\ UNCHANGED onboard
  BY DEF IngestAck, world
<1>4. QED
  BY <1>1, <1>2, <1>3 DEF AckStep

\* The satellite decides a submitted request once, or repeats itself.
LEMMA SatelliteShape ==
    ASSUME IndInv, Satellite
    PROVE  SettleStep \/ DecideStep
<1>1. PICK f \in uplink : \E s \in AnswerSessions(f) :
         \/ \E verdict \in {"ACCEPTED", "REJECTED"} : SatelliteDecides(f, s, verdict)
         \/ SatelliteRepeats(f, s)
  BY DEF Satellite
<1>2. f.req \in Requests /\ rows[f.req].command # "NONE"
  BY DEF IndInv, TypeOK, Tc, KnownOK, GoodRows, GoodRow, RowOutcomeAgrees
<1>3. QED
  BY <1>1, <1>2, SameRows DEF SatelliteDecides, SatelliteRepeats, DecideStep, durable

\* Every step of a dispatcher.
LEMMA DispatchStep ==
    ASSUME IndInv, NEW d \in Dispatchers, Dispatch(d)
    PROVE  IndInv' /\ StepShape
<1>1. ASSUME NEW r \in Requests, BeginDispatch(d, r) PROVE IndInv' /\ StepShape
  BY <1>1, BeginDispatchInv, SameRows DEF BeginDispatch, durable, world, StepShape
<1>2. CASE ClaimReconcile(d) \/ Claim(d) \/ MarkSent(d) \/ Rollback(d) \/ MarkNotSent(d)
  BY <1>2, ClaimReconcileInv, ClaimInv, MarkSentInv, RollbackInv, MarkNotSentInv
     DEF StepShape
<1>3. CASE ClaimNothing(d) \/ PrepareFails(d) \/ MarkSentFails(d) \/ RollbackNothing(d)
  BY <1>3, ClaimNothingInv, PrepareFailsInv, MarkSentFailsInv, RollbackNothingInv, SameRows
     DEF ClaimNothing, PrepareFails, MarkSentFails, RollbackNothing, durable, world, StepShape
<1>4. CASE PrepareAttempt(d) \/ FenceRead(d) \/ MarkAttemptNotSent(d)
  BY <1>4, PrepareAttemptInv, FenceReadInv, MarkAttemptNotSentInv, SameRows
     DEF PrepareAttempt, FenceRead, MarkAttemptNotSent, durable, world, StepShape
<1>5. CASE Send(d) \/ SendFails(d)
  BY <1>5, SendInv, SendFailsInv, SameRows DEF Send, SendFails, durable, StepShape
<1>6. QED
  BY <1>1, <1>2, <1>3, <1>4, <1>5 DEF Dispatch

\* Every bind, refresh and contact change.
LEMMA LinkingStep ==
    ASSUME IndInv, Linking
    PROVE  IndInv' /\ StepShape
<1>1. ASSUME NEW i \in Instances, NEW b \in LinkBindings, BindBegin(i, b.gen, b.session)
      PROVE  IndInv' /\ StepShape
  BY <1>1, BindBeginInv, SameRows DEF BindBegin, durable, world, StepShape
<1>2. CASE BindCommit
  BY <1>2, BindCommitInv DEF StepShape
<1>3. CASE BindRefused
  BY <1>3, BindRefusedInv, SameRows DEF BindRefused, durable, world, StepShape
<1>4. ASSUME NEW f \in Refreshers, RefreshRead(f) \/ RefreshPublish(f)
      PROVE  IndInv' /\ StepShape
  BY <1>4, RefreshReadInv, RefreshPublishInv, SameRows
     DEF RefreshRead, RefreshPublish, durable, world, StepShape
<1>5. ASSUME NEW i \in Instances, NEW c \in Contacts, SetContactState(i, c)
      PROVE  IndInv' /\ StepShape
  BY <1>5, SetContactStateInv DEF StepShape
<1>6. QED
  BY <1>1, <1>2, <1>3, <1>4, <1>5 DEF Linking

\* Every step of an HTTP handler.
LEMMA AdmissionStep ==
    ASSUME IndInv, NEW h \in Handlers, Admission(h)
    PROVE  IndInv' /\ StepShape
<1>1. ASSUME NEW i \in Instances, AdmitCheck(h, i) PROVE IndInv' /\ StepShape
  BY <1>1, AdmitCheckInv, SameRows DEF AdmitCheck, durable, world, StepShape
<1>2. ASSUME NEW r \in Requests, NEW m \in Modes, NEW ttl \in TTLs, Admit(h, r, m, ttl)
      PROVE  IndInv' /\ StepShape
  BY <1>2, AdmitInv, AdmitShape DEF StepShape
<1>3. ASSUME NEW m \in Modes, AdmitRefused(h, m) PROVE IndInv' /\ StepShape
  BY <1>3, AdmitRefusedInv, SameRows DEF AdmitRefused, durable, world, StepShape
<1>4. QED
  BY <1>1, <1>2, <1>3 DEF Admission

\* Every step of a telemetry receiver.
LEMMA ReceiveStep ==
    ASSUME IndInv, NEW v \in Receivers, Receive(v)
    PROVE  IndInv' /\ StepShape
<1>1. ASSUME NEW m \in downlink, ReceiveTm(v, m) PROVE IndInv' /\ StepShape
  BY <1>1, ReceiveTmInv, SameRows DEF ReceiveTm, durable, world, StepShape
<1>2. CASE IngestAck(v)
  BY <1>2, IngestAckInv, AckShape DEF StepShape
<1>3. CASE IngestNack(v)
  BY <1>3, IngestNackInv DEF StepShape
<1>4. CASE IngestAudit(v)
  BY <1>4, IngestAuditInv, SameRows DEF IngestAudit, durable, world, StepShape
<1>5. QED
  BY <1>1, <1>2, <1>3, <1>4 DEF Receive

\* Every step of the command path keeps the invariant and has one of the four
\* shapes.
LEMMA NextInv == IndInv /\ [Next]_vars => IndInv' /\ StepShape
<1> SUFFICES ASSUME IndInv, [Next]_vars PROVE IndInv' /\ StepShape
  OBVIOUS
<1>1. CASE UNCHANGED vars
  <2>1. TypeOK'
    BY <1>1 DEF IndInv, TypeOK, vars, durable, process, world
  <2>2. NoNewWork /\ UNCHANGED world /\ UNCHANGED receiving /\ UNCHANGED rows
        /\ UNCHANGED attempts /\ UNCHANGED onboard
    BY <1>1 DEF NoNewWork, vars, durable, process, world
  <2>3. QED
    BY <2>1, <2>2, Quiet, RowsSame, AttemptsSame, SameRows DEF StepShape
<1>2. CASE Tick
  BY <1>2, TickInv, SameRows DEF Tick, durable, world, StepShape
<1>3. CASE ProcessLife
  <2>1. CASE Boot
    BY <2>1, BootInv DEF StepShape
  <2>2. CASE Crash
    BY <2>2, CrashInv, SameRows DEF Crash, durable, world, StepShape
  <2>3. ASSUME NEW i \in Instances, StartupBind(i) \/ StartupRefused(i)
        PROVE  IndInv' /\ StepShape
    BY <2>3, StartupBindInv, StartupRefusedInv, SameRows
       DEF StartupRefused, durable, world, StepShape
  <2>4. QED
    BY <1>3, <2>1, <2>2, <2>3 DEF ProcessLife
<1>4. CASE Linking
  BY <1>4, LinkingStep
<1>5. ASSUME NEW h \in Handlers, Admission(h) PROVE IndInv' /\ StepShape
  BY <1>5, AdmissionStep
<1>6. CASE ReconcileDue
  BY <1>6, ReconcileDueInv DEF StepShape
<1>7. ASSUME NEW d \in Dispatchers, Dispatch(d) PROVE IndInv' /\ StepShape
  BY <1>7, DispatchStep
<1>8. ASSUME NEW v \in Receivers, Receive(v) PROVE IndInv' /\ StepShape
  BY <1>8, ReceiveStep
<1>9. CASE Satellite
  BY <1>9, SatelliteInv, SatelliteShape DEF StepShape
<1>10. QED
  BY <1>1, <1>2, <1>3, <1>4, <1>5, <1>6, <1>7, <1>8, <1>9 DEF Next

\* The inductive invariant holds in every reachable state.
THEOREM Invariance == Spec => []IndInv
BY InitInv, NextInv, PTL DEF Spec

\* Type correctness.
THEOREM TypeCorrect == Spec => []TypeOK
<1>1. IndInv => TypeOK
  BY DEF IndInv
<1>2. QED
  BY <1>1, Invariance, PTL

\* No transition of any row leaves a lease or an ACK deadline behind.
THEOREM LeaseSafety == Spec => []LeaseCoherent
<1>1. IndInv => LeaseCoherent
  BY DEF IndInv, GoodRows, GoodRow, LeaseCoherent
<1>2. QED
  BY <1>1, Invariance, PTL

\* The commands table and the outbox agree on every outcome.
THEOREM OutcomeSafety == Spec => []OutcomeAgrees
<1>1. IndInv => OutcomeAgrees
  BY DEF IndInv, GoodRows, GoodRow, OutcomeAgrees
<1>2. QED
  BY <1>1, Invariance, PTL

(***************************************************************************)
(* Steps, and the refinement.                                              *)
(***************************************************************************)
\* A settled row is left alone by each of the four kinds of step.
LEMMA SettledStays ==
    ASSUME IndInv, StepShape, NEW r \in Requests, rows[r].state \in TerminalStates
    PROVE  rows'[r] = rows[r]
<1>1. GoodRow(rows[r]) /\ rows \in [Requests -> Row]
  BY DEF IndInv, GoodRows, TypeOK
<1>2. ~Live(rows[r]) /\ rows[r].command \notin {"NONE", "ADMITTED"}
  BY <1>1 DEF GoodRow, RowOutcomeAgrees, Live, TerminalStates, NonterminalStates
<1>3. CASE SettleStep
  BY <1>2, <1>3 DEF SettleStep, RowStep
<1>4. CASE AdmitStep \/ AckStep
  BY <1>1, <1>2, <1>4 DEF AdmitStep, AckStep
<1>5. CASE DecideStep
  BY <1>5 DEF DecideStep
<1>6. QED
  BY <1>3, <1>4, <1>5 DEF StepShape

\* A settled command never changes again, whatever arrives late.
THEOREM SettledOnce == Spec => TerminalIsFinal
<1>1. IndInv /\ [Next]_vars =>
         [\A r \in Requests : rows[r].state \in TerminalStates => rows'[r] = rows[r]]_vars
  BY NextInv, SettledStays
<1>2. QED
  BY <1>1, Invariance, PTL DEF Spec, TerminalIsFinal

\* The status a client sees is a function of the commands table.
Shown(o) == CASE o.command = "NONE"     -> "none"
              [] o.command = "ADMITTED" -> "pending"
              [] o.command = "ACKED"    -> "acked"
              [] o.command = "FAILED"   -> "failed"

\* DeliveryStatus shows each row by itself.
LEMMA StatusShown ==
    /\ DeliveryStatus = [r \in Requests |-> Shown(rows[r])]
    /\ DeliveryStatus' = [r \in Requests |-> Shown(rows'[r])]
BY DEF DeliveryStatus, Shown

\* A settlement is a Fail of exactly the commands it failed.
LEMMA SettleRefines ==
    ASSUME IndInv, SettleStep
    PROVE  Delivery!Next
<1> DEFINE S == {r \in Requests : rows'[r] # rows[r] /\ rows'[r].command = "FAILED"}
<1>1. \A r \in Requests : GoodRow(rows[r]) /\ RowStep(rows[r], rows'[r])
  BY DEF IndInv, GoodRows, SettleStep
<1>2. \A r \in S : Shown(rows[r]) = "pending" /\ Shown(rows'[r]) = "failed"
  <2>1. \A r \in S : Live(rows[r])
    BY <1>1 DEF RowStep
  <2>2. \A r \in S : rows[r].command = "ADMITTED" /\ rows'[r].command = "FAILED"
    BY <1>1, <2>1 DEF GoodRow, RowOutcomeAgrees
  <2>3. QED
    BY <2>2 DEF Shown
<1>3. \A r \in Requests \ S : Shown(rows'[r]) = Shown(rows[r])
  <2>1. SUFFICES ASSUME NEW r \in Requests \ S, rows'[r] # rows[r]
                 PROVE  Shown(rows'[r]) = Shown(rows[r])
    OBVIOUS
  <2>2. Live(rows[r]) /\ Live(rows'[r]) /\ GoodRow(rows[r]) /\ GoodRow(rows'[r])
    BY <1>1, <2>1 DEF RowStep
  <2>3. rows[r].command = "ADMITTED" /\ rows'[r].command = "ADMITTED"
    BY <2>2 DEF GoodRow, RowOutcomeAgrees
  <2>4. QED
    BY <2>3 DEF Shown
<1>4. \A r \in S : DeliveryStatus[r] = "pending"
  BY <1>2, StatusShown
<1>5. DeliveryStatus' = [r \in Requests |-> IF r \in S THEN "failed" ELSE DeliveryStatus[r]]
  BY <1>2, <1>3, StatusShown
<1>6. Delivery!Fail(S)
  BY <1>4, <1>5 DEF SettleStep, Delivery!Fail
<1>7. S \in SUBSET Requests
  OBVIOUS
<1>8. QED
  BY <1>6, <1>7 DEF Delivery!Next

\* Replacing one row replaces one status.
LEMMA OneStatus ==
    ASSUME IndInv, NEW r \in Requests, NEW o, rows' = [rows EXCEPT ![r] = o]
    PROVE  DeliveryStatus' = [DeliveryStatus EXCEPT ![r] = Shown(o)]
<1>1. \A q \in Requests : rows'[q] = IF q = r THEN o ELSE rows[q]
  BY DEF IndInv, TypeOK
<1>2. QED
  BY <1>1, StatusShown

\* An admission is a Submit.
LEMMA AdmitRefines ==
    ASSUME IndInv, AdmitStep
    PROVE  Delivery!Next
<1>1. PICK r \in Requests :
        /\ rows[r].command = "NONE"
        /\ \E o : o.command = "ADMITTED" /\ rows' = [rows EXCEPT ![r] = o]
        /\ UNCHANGED onboard
  BY DEF AdmitStep
<1>2. PICK o : o.command = "ADMITTED" /\ rows' = [rows EXCEPT ![r] = o]
  BY <1>1
<1>3. DeliveryStatus[r] = "none" /\ Shown(o) = "pending"
  BY <1>1, <1>2, StatusShown DEF Shown
<1>4. DeliveryStatus' = [DeliveryStatus EXCEPT ![r] = "pending"]
  BY <1>2, <1>3, OneStatus
<1>5. Delivery!Submit(r)
  BY <1>1, <1>3, <1>4 DEF Delivery!Submit
<1>6. QED
  BY <1>5 DEF Delivery!Next

\* A correlated ACK is an Acknowledge of a command the satellite decided.
LEMMA AckRefines ==
    ASSUME IndInv, AckStep
    PROVE  Delivery!Next
<1>1. PICK r \in Requests :
        /\ rows[r].command = "ADMITTED"
        /\ onboard[r] # "UNSEEN"
        /\ \E o : o.command = "ACKED" /\ rows' = [rows EXCEPT ![r] = o]
        /\ UNCHANGED onboard
  BY DEF AckStep
<1>2. PICK o : o.command = "ACKED" /\ rows' = [rows EXCEPT ![r] = o]
  BY <1>1
<1>3. DeliveryStatus[r] = "pending" /\ Shown(o) = "acked"
  BY <1>1, <1>2, StatusShown DEF Shown
<1>4. DeliveryStatus' = [DeliveryStatus EXCEPT ![r] = "acked"]
  BY <1>2, <1>3, OneStatus
<1>5. Delivery!Acknowledge(r)
  BY <1>1, <1>3, <1>4 DEF Delivery!Acknowledge
<1>6. QED
  BY <1>5 DEF Delivery!Next

\* A decision on board is a Decide.
LEMMA DecideRefines ==
    ASSUME IndInv, DecideStep
    PROVE  Delivery!Next
<1>1. PICK r \in Requests, v \in {"ACCEPTED", "REJECTED"} :
        /\ rows[r].command # "NONE"
        /\ onboard[r] = "UNSEEN"
        /\ onboard' = [onboard EXCEPT ![r] = v]
        /\ UNCHANGED rows
  BY DEF DecideStep
<1>2. rows[r].command \in CommandStates
  BY DEF IndInv, TypeOK, Row
<1>3. DeliveryStatus[r] # "none"
  BY <1>1, <1>2, StatusShown DEF Shown, CommandStates
<1>4. UNCHANGED DeliveryStatus
  BY <1>1, StatusShown
<1>5. Delivery!Decide(r, v)
  BY <1>1, <1>3, <1>4 DEF Delivery!Decide
<1>6. QED
  BY <1>5 DEF Delivery!Next

\* The command path, with its leases, retries, crashes and late telemetry,
\* implements the delivery promise.
THEOREM Refinement == Spec => ImplementsDelivery
<1>1. Init => Delivery!Init
  <2>1. ASSUME Init PROVE DeliveryStatus = [r \in Requests |-> "none"]
    BY <2>1, StatusShown DEF Init, AbsentRow, Shown
  <2>2. QED
    BY <2>1 DEF Init, Delivery!Init
<1>2. IndInv /\ [Next]_vars => [Delivery!Next]_<<DeliveryStatus, onboard>>
  BY NextInv, SettleRefines, AdmitRefines, AckRefines, DecideRefines DEF StepShape
<1>3. QED
  BY <1>1, <1>2, Invariance, PTL DEF Spec, ImplementsDelivery, Delivery!Spec, Delivery!delivery

-----------------------------------------------------------------------------
(***************************************************************************)
(* More about CommandOutbox, on top of the invariant above: a send happens *)
(* under the binding the database holds, a retired instance is settled, no *)
(* TC sequence count is used twice, and attempts and bindings only         *)
(* advance.                                                                *)
(***************************************************************************)

(***************************************************************************)
(* What any step does to a row.                                            *)
(***************************************************************************)
\* An admitted row stays admitted for its target, and only an admission makes
\* a row live.
RowsKept ==
    \A r \in Requests :
        /\ rows[r].state # "ABSENT" =>
               /\ rows'[r].state # "ABSENT"
               /\ rows'[r].target = rows[r].target
               /\ Live(rows'[r]) => Live(rows[r])
        /\ rows'[r] # rows[r] => rows'[r].state # "ABSENT"

LEMMA StepKeepsRows ==
    ASSUME IndInv, [Next]_vars
    PROVE  RowsKept
<1>1. IndInv' /\ StepShape
  BY NextInv
<1>2. \A r \in Requests : GoodRow(rows[r]) /\ GoodRow(rows'[r])
  BY <1>1 DEF IndInv, GoodRows
<1>3. rows \in [Requests -> Row]
  BY DEF IndInv, TypeOK
<1>4. CASE SettleStep
  BY <1>2, <1>4 DEF SettleStep, RowStep, RowsKept, GoodRow, RowOutcomeAgrees, Live,
     NonterminalStates
<1>5. CASE AdmitStep
  BY <1>2, <1>3, <1>5 DEF AdmitStep, RowsKept, GoodRow, RowOutcomeAgrees
<1>6. CASE AckStep
  BY <1>2, <1>3, <1>6 DEF AckStep, RowsKept, GoodRow, RowOutcomeAgrees, Live
<1>7. CASE DecideStep
  BY <1>7 DEF DecideStep, RowsKept
<1>8. QED
  BY <1>1, <1>4, <1>5, <1>6, <1>7 DEF StepShape

\* A row is leased by nobody new.
LeasesKept == \A r \in Requests : rows'[r].owner \in {rows[r].owner, None}

\* Whatever settles or requeues a row takes its lease away or leaves it.
LEMMA SettlingTakesLease ==
    ASSUME NEW o \in Row, NEW state, NEW reason, NEW available
    PROVE  /\ Terminalize(o, state, reason).owner = None
           /\ Requeue(o, state, available).owner = None
BY DEF Terminalize, Requeue, Row

LEMMA ReconcileKeepsLeases ==
    ASSUME IndInv, rows' = ReconcileAll
    PROVE  LeasesKept
<1>1. \A r \in Requests : rows[r] \in Row
  BY DEF IndInv, TypeOK
<1>2. \A r \in Requests : Reconciled(rows[r], AttemptCount(r)).owner \in {rows[r].owner, None}
  BY <1>1, SettlingTakesLease DEF Reconciled
<1>3. QED
  BY <1>2 DEF ReconcileAll, LeasesKept

LEMMA BindKeepsLeases ==
    ASSUME IndInv, NEW i, NEW g, NEW s, BindTransaction(i, g, s)
    PROVE  LeasesKept
<1>1. \A r \in Requests : rows[r] \in Row
  BY DEF IndInv, TypeOK
<1>2. \A r \in Requests : RowAfterBind(rows[r], i, g, s).owner \in {rows[r].owner, None}
  BY <1>1, SettlingTakesLease DEF RowAfterBind
<1>3. QED
  BY <1>2 DEF BindTransaction, LeasesKept

LEMMA ContactKeepsLeases ==
    ASSUME IndInv, NEW i \in Instances, NEW c \in Contacts, SetContactState(i, c)
    PROVE  LeasesKept
<1>1. \A r \in Requests : rows[r] \in Row
  BY DEF IndInv, TypeOK
<1>2. \A r \in Requests : OnContactOpened(rows[r]).owner = rows[r].owner
  BY <1>1 DEF OnContactOpened, Row
<1>3. \A r \in Requests : OnContactClosed(rows[r]).owner \in {rows[r].owner, None}
  <2>1. ASSUME NEW r \in Requests
        PROVE  [rows[r] EXCEPT !.ackBy = 0].owner = rows[r].owner
    BY <1>1 DEF Row
  <2>2. QED
    BY <1>1, <2>1, SettlingTakesLease DEF OnContactClosed
<1>4. QED
  BY <1>2, <1>3 DEF SetContactState, LeasesKept

\* A single row that changes without being leased.
LEMMA OneRowKeepsLeases ==
    ASSUME IndInv, NEW q, NEW p, p.owner = None, rows' = [rows EXCEPT ![q] = p]
    PROVE  LeasesKept
BY DEF IndInv, TypeOK, LeasesKept

LEMMA DispatchKeepsLeases ==
    ASSUME IndInv, NEW d \in Dispatchers, Dispatch(d), ~Claim(d)
    PROVE  LeasesKept
<1>1. CASE rows' = rows
  BY <1>1 DEF LeasesKept
<1>2. CASE ClaimReconcile(d)
  BY <1>2, ReconcileKeepsLeases DEF ClaimReconcile
<1>3. ASSUME MarkSent(d) \/ Rollback(d) \/ MarkNotSent(d) PROVE LeasesKept
  <2>1. rows[disp[d].req] \in Row
    BY <1>3 DEF IndInv, TypeOK, WorkOK, MarkSent, Rollback, MarkNotSent
  <2>2. CASE MarkSent(d)
    <3> DEFINE p == [rows[disp[d].req] EXCEPT !.state = "SENT", !.ackBy = now + AckTimeout,
                                              !.owner = None, !.leaseUntil = 0]
    <3>1. p.owner = None
      BY <2>1 DEF Row
    <3>2. rows' = [rows EXCEPT ![disp[d].req] = p]
      BY <2>2 DEF MarkSent
    <3> HIDE DEF p
    <3>3. QED
      BY <3>1, <3>2, OneRowKeepsLeases
  <2>3. CASE Rollback(d)
    <3>1. RowAfterRollback(rows[disp[d].req], AttemptCount(disp[d].req)).owner = None
      BY <2>1, SettlingTakesLease DEF RowAfterRollback
    <3>2. QED
      BY <2>3, <3>1, OneRowKeepsLeases DEF Rollback
  <2>4. CASE MarkNotSent(d)
    <3> DEFINE p == IF Expired(rows[disp[d].req])
                    THEN Terminalize(rows[disp[d].req], "EXPIRED", "REBIND")
                    ELSE Requeue(rows[disp[d].req], "OUTBOX_PENDING", now)
    <3>1. p.owner = None
      BY <2>1, SettlingTakesLease
    <3>2. rows' = [rows EXCEPT ![disp[d].req] = p]
      BY <2>4 DEF MarkNotSent
    <3> HIDE DEF p
    <3>3. QED
      BY <3>1, <3>2, OneRowKeepsLeases
  <2>5. QED
    BY <1>3, <2>2, <2>3, <2>4
<1>4. QED
  BY <1>1, <1>2, <1>3 DEF Dispatch, BeginDispatch, ClaimNothing, PrepareAttempt, PrepareFails,
     FenceRead, MarkSentFails, Send, SendFails, RollbackNothing, MarkAttemptNotSent, durable

\* An admission and a receipt lease nothing.
LEMMA AdmissionKeepsLeases ==
    ASSUME IndInv, NEW h \in Handlers, Admission(h)
    PROVE  LeasesKept
<1>1. ASSUME NEW r \in Requests, NEW m, NEW ttl, Admit(h, r, m, ttl) PROVE LeasesKept
  <2>1. AdmittedRow(api[h], m, ttl).owner = None
    BY DEF AdmittedRow, AbsentRow
  <2>2. rows' = [rows EXCEPT ![r] = AdmittedRow(api[h], m, ttl)]
    BY <1>1 DEF Admit
  <2>3. QED
    BY <2>1, <2>2, OneRowKeepsLeases
<1>2. CASE rows' = rows
  BY <1>2 DEF LeasesKept
<1>3. QED
  BY <1>1, <1>2 DEF Admission, AdmitCheck, AdmitRefused, durable

LEMMA ReceiveKeepsLeases ==
    ASSUME IndInv, NEW v \in Receivers, Receive(v)
    PROVE  LeasesKept
<1>1. CASE IngestAck(v) \/ IngestNack(v)
  <2>1. rows[receiving[v].req] \in Row
    BY <1>1 DEF IndInv, TypeOK, IngestAck, IngestNack, Receipt
  <2> DEFINE q == receiving[v].req
             p == [rows[q] EXCEPT !.state = "ACKED", !.command = "ACKED", !.owner = None,
                                  !.leaseUntil = 0, !.ackBy = 0]
             n == Terminalize(rows[q], "DELIVERY_FAILED", "NACK")
  <2>2. p.owner = None /\ n.owner = None
    BY <2>1, SettlingTakesLease DEF Row
  <2>3. rows' = [rows EXCEPT ![q] = p] \/ rows' = [rows EXCEPT ![q] = n]
    BY <1>1 DEF IngestAck, IngestNack
  <2> HIDE DEF p, n
  <2>4. QED
    BY <2>2, <2>3, OneRowKeepsLeases
<1>2. CASE rows' = rows
  BY <1>2 DEF LeasesKept
<1>3. QED
  BY <1>1, <1>2 DEF Receive, ReceiveTm, IngestAudit, durable

(***************************************************************************)
(* The bindings.                                                           *)
(***************************************************************************)
\* A process that is not up dispatches nothing.
Stopped == phase # "up" => \A d \in Dispatchers : disp[d].pc = "idle"

\* Only the bound instance is active, and one that is absent had no generation.
OneActive ==
    \A i \in Instances :
        /\ inst[i].state = "ACTIVE" => bound = i
        /\ inst[i].state = "ABSENT" => inst[i].gen = 0

\* A dispatcher that still holds its lease holds it under the binding the
\* database has: a rebind takes the leases of the bound instance away.
Holding == {"claimed", "prepared", "fenced"}
OwnedIsCurrent ==
    \A d \in Dispatchers :
        (disp[d].pc \in Holding /\ RowOf(d).owner = d) => BindingCurrent(d)

BindingOK ==
    /\ Stopped
    /\ OneActive
    /\ OwnedIsCurrent
    /\ SendUnderBinding
    /\ RetiredTargetsSettled

\* No instance changes its state, generation or session.
InstancesKept ==
    /\ bound' = bound
    /\ \A i \in Instances : /\ inst'[i].state = inst[i].state
                             /\ inst'[i].gen = inst[i].gen
                             /\ inst'[i].session = inst[i].session

\* What is admitted is not for a retired instance.
AdmittedAlive ==
    \A r \in Requests :
        (rows[r].state = "ABSENT" /\ rows'[r].state # "ABSENT"
            /\ rows'[r].target \in Instances) =>
            inst[rows'[r].target].state # "RETIRED"

LEMMA InstancesKeptOK ==
    ASSUME IndInv, BindingOK, RowsKept, InstancesKept, AdmittedAlive
    PROVE  OneActive' /\ RetiredTargetsSettled'
<1>1. OneActive'
  BY DEF BindingOK, OneActive, InstancesKept
<1>2. ASSUME NEW r \in Requests, rows'[r].target \in Instances,
             inst'[rows'[r].target].state = "RETIRED", Live(rows'[r])
      PROVE  FALSE
  <2>1. inst[rows'[r].target].state = "RETIRED"
    BY <1>2 DEF InstancesKept
  <2>2. rows[r].state # "ABSENT"
    BY <1>2, <2>1 DEF AdmittedAlive, Live, NonterminalStates
  <2>3. QED
    BY <1>2, <2>1, <2>2 DEF RowsKept, BindingOK, RetiredTargetsSettled
<1>3. QED
  BY <1>1, <1>2 DEF RetiredTargetsSettled, Live

\* The dispatcher works on an admitted request for an instance.
LEMMA WorkHeld ==
    ASSUME IndInv, NEW d \in Dispatchers, disp[d].pc # "idle"
    PROVE  /\ disp[d].req \in Requests /\ RowOf(d).state # "ABSENT"
           /\ RowOf(d).target \in Instances /\ d # None
BY NamesAssumption DEF IndInv, WorkOK, RowOf

\* A binding that is current stays current when no instance changes.
LEMMA CurrentStays ==
    ASSUME IndInv, RowsKept, InstancesKept, NEW d \in Dispatchers, disp[d].pc # "idle",
           disp'[d].req = disp[d].req, disp'[d].gen = disp[d].gen,
           disp'[d].session = disp[d].session, BindingCurrent(d)
    PROVE  BindingCurrent(d)'
<1>1. RowOf(d)' = rows'[disp[d].req]
  BY DEF RowOf
<1>2. RowOf(d)'.target = RowOf(d).target
  BY <1>1, WorkHeld DEF RowsKept, RowOf
<1>3. QED
  BY <1>2, WorkHeld DEF BindingCurrent, Active, InstancesKept

\* Dispatchers go on with the lease they have, and arm a row only under it.
DispatchersHold ==
    \A d \in Dispatchers :
        disp'[d].pc \in Holding \cup {"armed"} =>
            /\ disp'[d].req = disp[d].req
            /\ disp'[d].gen = disp[d].gen
            /\ disp'[d].session = disp[d].session
            /\ \/ disp[d].pc = "armed"
               \/ disp[d].pc \in Holding /\ (disp'[d].pc = "armed" => RowOf(d).owner = d)

LEMMA DispatchersHoldOK ==
    ASSUME IndInv, BindingOK, RowsKept, LeasesKept, InstancesKept, DispatchersHold
    PROVE  OwnedIsCurrent' /\ SendUnderBinding'
<1>1. ASSUME NEW d \in Dispatchers,
             \/ disp'[d].pc \in Holding /\ RowOf(d)'.owner = d
             \/ disp'[d].pc = "armed"
      PROVE  BindingCurrent(d)'
  <2>1. /\ disp'[d].req = disp[d].req /\ disp'[d].gen = disp[d].gen
        /\ disp'[d].session = disp[d].session
        /\ \/ disp[d].pc = "armed"
           \/ disp[d].pc \in Holding /\ (disp'[d].pc = "armed" => RowOf(d).owner = d)
    BY <1>1 DEF DispatchersHold
  <2>2. disp[d].pc # "idle"
    BY <2>1 DEF Holding
  <2>3. RowOf(d)'.owner \in {RowOf(d).owner, None} /\ d # None
    BY <2>1, <2>2, WorkHeld DEF LeasesKept, RowOf
  <2>4. disp[d].pc = "armed" \/ (disp[d].pc \in Holding /\ RowOf(d).owner = d)
    BY <1>1, <2>1, <2>3
  <2>5. BindingCurrent(d)
    BY <2>4 DEF BindingOK, OwnedIsCurrent, SendUnderBinding
  <2>6. QED
    BY <2>1, <2>2, <2>5, CurrentStays
<1>2. QED
  BY <1>1 DEF OwnedIsCurrent, SendUnderBinding


\* Only an admission makes an absent row appear.
LEMMA NothingAdmitted ==
    ASSUME IndInv, rows' = rows \/ SettleStep \/ AckStep
    PROVE  AdmittedAlive
<1>1. \A r \in Requests : GoodRow(rows[r])
  BY DEF IndInv, GoodRows
<1>2. CASE rows' = rows
  BY <1>2 DEF AdmittedAlive
<1>3. CASE SettleStep
  BY <1>1, <1>3 DEF SettleStep, RowStep, AdmittedAlive, Live, NonterminalStates
<1>4. CASE AckStep
  BY <1>1, <1>4 DEF AckStep, AdmittedAlive, GoodRow, RowOutcomeAgrees, IndInv, TypeOK
<1>5. QED
  BY <1>2, <1>3, <1>4

\* A step that changes no instance and starts no dispatch.
LEMMA QuietBinding ==
    ASSUME IndInv, BindingOK, RowsKept, LeasesKept, InstancesKept, AdmittedAlive, Stopped',
           \A d \in Dispatchers : disp'[d] = disp[d] \/ disp'[d].pc = "idle"
    PROVE  BindingOK'
<1>1. DispatchersHold
  BY DEF DispatchersHold, Holding, BindingOK, OwnedIsCurrent
<1>2. QED
  BY <1>1, DispatchersHoldOK, InstancesKeptOK DEF BindingOK

\* A dispatcher other than the one that claims.
LEMMA DispatchBinding ==
    ASSUME IndInv, BindingOK, RowsKept, NEW d \in Dispatchers, Dispatch(d), ~Claim(d)
    PROVE  BindingOK'
<1>1. LeasesKept
  BY DispatchKeepsLeases
<1>2. inst' = inst /\ bound' = bound /\ phase' = phase
      /\ \A e \in Dispatchers \ {d} : disp'[e] = disp[e]
  BY DEF IndInv, TypeOK, Dispatch, BeginDispatch, ClaimReconcile, ClaimNothing, PrepareAttempt,
     PrepareFails, FenceRead, MarkSent, MarkSentFails, Send, SendFails, Rollback,
     RollbackNothing, MarkNotSent, MarkAttemptNotSent, ReturnIdle, durable
<1>3. phase = "up"
  BY DEF BindingOK, Stopped, Dispatch, BeginDispatch, ClaimReconcile, ClaimNothing,
     PrepareAttempt, PrepareFails, FenceRead, MarkSent, MarkSentFails, Send, SendFails,
     Rollback, RollbackNothing, MarkNotSent, MarkAttemptNotSent
<1>4. \/ disp'[d].pc \notin Holding \cup {"armed"}
      \/ /\ disp'[d].req = disp[d].req /\ disp'[d].gen = disp[d].gen
         /\ disp'[d].session = disp[d].session
         /\ disp[d].pc \in Holding
         /\ disp'[d].pc = "armed" => RowOf(d).owner = d
  <2>1. disp[d] \in Thread
    BY DEF IndInv, TypeOK
  <2>2. CASE PrepareAttempt(d)
    BY <2>1, <2>2 DEF IndInv, TypeOK, PrepareAttempt, Holding, Thread
  <2>3. CASE FenceRead(d)
    BY <2>1, <2>3 DEF IndInv, TypeOK, FenceRead, Holding, Thread
  <2>4. CASE MarkSent(d)
    BY <2>1, <2>4 DEF IndInv, TypeOK, MarkSent, CanMarkSent, LeaseHeld, Holding, Thread
  <2>5. CASE ClaimReconcile(d) \/ SendFails(d)
    BY <2>1, <2>5 DEF IndInv, TypeOK, ClaimReconcile, SendFails, Holding, Thread
  <2>6. ASSUME NEW r \in Requests, BeginDispatch(d, r)
        PROVE  disp'[d].pc \notin Holding \cup {"armed"}
    BY <2>6 DEF IndInv, TypeOK, BeginDispatch, Holding
  <2>7. CASE ReturnIdle(d)
    BY <2>7 DEF IndInv, TypeOK, ReturnIdle, IdleThread, Holding
  <2>8. QED
    BY <2>2, <2>3, <2>4, <2>5, <2>6, <2>7 DEF Dispatch, ClaimNothing, PrepareFails,
       MarkSentFails, Send, Rollback, RollbackNothing, MarkNotSent, MarkAttemptNotSent
<1>5. DispatchersHold
  BY <1>2, <1>4 DEF DispatchersHold
<1>6. AdmittedAlive
  <2>1. SettleStep \/ rows' = rows
    BY ClaimReconcileInv, MarkSentInv, RollbackInv, MarkNotSentInv DEF Dispatch, BeginDispatch,
       ClaimNothing, PrepareAttempt, PrepareFails, FenceRead, MarkSentFails, Send, SendFails,
       RollbackNothing, MarkAttemptNotSent, durable
  <2>2. QED
    BY <2>1, NothingAdmitted
<1>7. InstancesKept /\ Stopped'
  BY <1>2, <1>3 DEF InstancesKept, Stopped
<1>8. QED
  BY <1>1, <1>5, <1>6, <1>7, DispatchersHoldOK, InstancesKeptOK DEF BindingOK

\* claim() compares the binding with the database in the transaction that takes
\* the lease.
LEMMA ClaimBinding ==
    ASSUME IndInv, BindingOK, RowsKept, NEW d \in Dispatchers, Claim(d)
    PROVE  BindingOK'
<1> DEFINE q == disp[d].req
<1>1. /\ q \in Requests /\ disp[d].pc = "claiming" /\ BindingCurrent(d)
      /\ inst' = inst /\ bound' = bound /\ phase' = phase
      /\ \A e \in Dispatchers \ {d} : disp'[e] = disp[e]
      /\ \A r \in Requests \ {q} : rows'[r] = rows[r]
      /\ rows'[q].owner = d
      /\ disp'[d] = [disp[d] EXCEPT !.pc = "claimed"]
  BY WorkHeld DEF IndInv, TypeOK, Row, Claim, Claimable
<1>2. /\ disp'[d].req = q /\ disp'[d].gen = disp[d].gen
      /\ disp'[d].session = disp[d].session /\ disp'[d].pc = "claimed"
  BY <1>1 DEF IndInv, TypeOK, Thread
<1>3. InstancesKept /\ AdmittedAlive
  BY <1>1, ClaimInv, NothingAdmitted DEF InstancesKept
<1>4. BindingCurrent(d)'
  BY <1>1, <1>2, <1>3, CurrentStays
<1>5. ASSUME NEW e \in Dispatchers \ {d},
             \/ disp[e].pc \in Holding /\ RowOf(e)'.owner = e
             \/ disp[e].pc = "armed"
      PROVE  BindingCurrent(e)'
  <2>1. disp[e].pc # "idle" /\ disp'[e] = disp[e]
    BY <1>1, <1>5 DEF Holding
  <2>2. disp[e].pc = "armed" \/ (disp[e].pc \in Holding /\ RowOf(e).owner = e)
    BY <1>1, <1>5, <2>1, WorkHeld DEF RowOf
  <2>3. BindingCurrent(e)
    BY <2>2 DEF BindingOK, OwnedIsCurrent, SendUnderBinding
  <2>4. QED
    BY <1>3, <2>1, <2>3, CurrentStays
<1>6. OwnedIsCurrent' /\ SendUnderBinding'
  BY <1>1, <1>4, <1>5 DEF OwnedIsCurrent, SendUnderBinding
<1>7. Stopped'
  BY <1>1 DEF BindingOK, Stopped
<1>8. QED
  BY <1>3, <1>6, <1>7, InstancesKeptOK DEF BindingOK

\* A bind settles what the old instance had and takes the leases of the bound
\* one, unless it changes nothing.
LEMMA BindBinding ==
    ASSUME IndInv, BindingOK, RowsKept, NEW i \in Instances, NEW g, NEW s,
           BindTransaction(i, g, s), UNCHANGED disp, Readers = {}
    PROVE  OneActive' /\ OwnedIsCurrent' /\ SendUnderBinding' /\ RetiredTargetsSettled'
<1>1. /\ \A r \in Requests : rows'[r] = RowAfterBind(rows[r], i, g, s)
      /\ \A j \in Instances : inst'[j] = InstanceAfterBind(j, i, g, s)
      /\ bound' = i /\ i # None
  BY NamesAssumption DEF BindTransaction
<1>2. LeasesKept
  BY BindKeepsLeases
<1>3. \A j \in Instances :
         /\ j = i => /\ inst'[j].state = "ACTIVE" /\ inst'[j].gen = g
                     /\ inst'[j].session = s
         /\ j # i /\ j = bound => inst'[j].state = "RETIRED"
         /\ j # i /\ j # bound => inst'[j] = inst[j]
  <2>1. SUFFICES ASSUME NEW j \in Instances
                 PROVE  /\ j = i => /\ inst'[j].state = "ACTIVE" /\ inst'[j].gen = g
                                    /\ inst'[j].session = s
                        /\ j # i /\ j = bound => inst'[j].state = "RETIRED"
                        /\ j # i /\ j # bound => inst'[j] = inst[j]
    OBVIOUS
  <2>2. inst[j] \in Instance /\ inst'[j] = InstanceAfterBind(j, i, g, s)
    BY <1>1 DEF IndInv, TypeOK
  <2>3. CASE j = i
    BY <2>2, <2>3 DEF InstanceAfterBind
  <2>4. CASE j # i /\ j = bound
    BY <2>2, <2>4 DEF InstanceAfterBind, Instance
  <2>5. QED
    BY <2>2, <2>3, <2>4 DEF InstanceAfterBind
<1>4. OneActive'
  BY <1>1, <1>3 DEF BindingOK, OneActive
<1>5. RetiredTargetsSettled'
  <2>1. SUFFICES ASSUME NEW r \in Requests, rows'[r].target \in Instances,
                        inst'[rows'[r].target].state = "RETIRED"
                 PROVE  ~Live(rows'[r])
    BY DEF RetiredTargetsSettled, Live
  <2>2. rows[r] \in Row /\ rows'[r].target = rows[r].target
    <3>1. RowStep(rows[r], RowAfterBind(rows[r], i, g, s))
      BY BindStep DEF IndInv, GoodRows, TypeOK
    <3>2. QED
      BY <1>1, <3>1 DEF RowStep, IndInv, TypeOK
  <2>3. rows[r].target # i
    BY <1>3, <2>1, <2>2
  <2>4. CASE rows[r].target = bound
    <3>1. Migration(i) /\ ~Rebind(i, g, s)
      BY <1>1, <2>1, <2>2, <2>3, <2>4, NamesAssumption DEF Migration, Rebind
    <3>2. \/ rows'[r] = rows[r] /\ ~Live(rows[r])
          \/ rows'[r] = Terminalize(rows[r], "DELIVERY_FAILED", "TARGET_INSTANCE_RETIRED")
      BY <1>1, <2>4, <3>1 DEF RowAfterBind
    <3>3. QED
      BY <2>2, <3>2 DEF Terminalize, Row, Live, NonterminalStates
  <2>5. CASE rows[r].target # bound
    <3>1. inst[rows[r].target].state = "RETIRED" /\ rows'[r] = rows[r]
      BY <1>1, <1>3, <2>1, <2>2, <2>3, <2>5 DEF RowAfterBind
    <3>2. QED
      BY <2>1, <3>1 DEF BindingOK, RetiredTargetsSettled
  <2>6. QED
    BY <2>4, <2>5
<1>6. OwnedIsCurrent'
  <2>1. SUFFICES ASSUME NEW d \in Dispatchers, disp[d].pc \in Holding, RowOf(d)'.owner = d
                 PROVE  BindingCurrent(d)'
    BY DEF OwnedIsCurrent
  <2> DEFINE q == disp[d].req
             t == rows[q].target
  <2>2. /\ q \in Requests /\ t \in Instances /\ d # None
        /\ rows[q] \in Row
    BY <2>1, WorkHeld DEF Holding, RowOf, IndInv, TypeOK
  <2>3. RowOf(d)' = rows'[q] /\ rows[q].owner = d
    BY <1>2, <2>1, <2>2 DEF LeasesKept, RowOf
  <2>4. Live(rows[q])
    BY <2>2, <2>3 DEF IndInv, GoodRows, GoodRow, RowLeaseCoherent, Live, NonterminalStates
  <2>5. BindingCurrent(d)
    BY <2>1, <2>3 DEF BindingOK, OwnedIsCurrent, RowOf
  <2>6. t = bound /\ inst[t].state = "ACTIVE" /\ inst[t].gen = disp[d].gen
        /\ inst[t].session = disp[d].session
    BY <2>2, <2>5 DEF BindingCurrent, RowOf, Active, BindingOK, OneActive
  <2>7. ~Rebind(i, g, s) /\ ~Migration(i)
    <3>1. /\ Requeue(rows[q], "OUTBOX_PENDING", now).owner = None
          /\ Terminalize(rows[q], "DELIVERY_FAILED", "TARGET_INSTANCE_RETIRED").owner = None
      BY <2>2, SettlingTakesLease
    <3>2. rows'[q] = RowAfterBind(rows[q], i, g, s) /\ rows'[q].owner = d
      BY <1>1, <2>1, <2>2, <2>3
    <3>3. QED
      BY <2>2, <2>4, <2>6, <3>1, <3>2 DEF RowAfterBind
  <2>8. bound = i /\ inst[i].gen = g /\ inst[i].session = s
    <3>1. bound = i
      BY <2>2, <2>6, <2>7, NamesAssumption DEF Migration
    <3>2. InstanceBinding(i) = OpenBinding(g, s)
      BY <2>7, <3>1 DEF Rebind
    <3>3. QED
      BY <3>1, <3>2 DEF InstanceBinding, OpenBinding
  <2>9. rows'[q] = rows[q]
    BY <1>1, <2>2, <2>7 DEF RowAfterBind
  <2>10. QED
    BY <1>3, <2>2, <2>3, <2>6, <2>8, <2>9 DEF BindingCurrent, Active
<1>7. SendUnderBinding'
  BY DEF Readers, SendUnderBinding
<1>8. QED
  BY <1>4, <1>5, <1>6, <1>7

\* Either a bind, or no instance changes its state, generation or session.
LEMMA LinkingBinding ==
    ASSUME IndInv, BindingOK, RowsKept, Linking
    PROVE  BindingOK'
<1>1. disp' = disp /\ phase' = phase
  BY DEF Linking, BindBegin, BindCommit, BindRefused, RefreshRead, RefreshPublish,
     SetContactState, process
<1>2. Stopped'
  BY <1>1 DEF BindingOK, Stopped
<1>3. CASE BindCommit
  <2>1. bindReq.inst \in Instances
    BY <1>3 DEF IndInv, TypeOK, BindCommit, BindArgs
  <2>2. QED
    BY <1>1, <1>2, <1>3, <2>1, BindBinding DEF BindCommit, BindingOK
<1>4. CASE UNCHANGED <<rows, inst, bound>>
  BY <1>1, <1>2, <1>4, NothingAdmitted, QuietBinding DEF InstancesKept, LeasesKept
<1>5. ASSUME NEW i \in Instances, NEW c \in Contacts, SetContactState(i, c)
      PROVE  BindingOK'
  <2>1. InstancesKept
    BY <1>5 DEF SetContactState, InstancesKept, IndInv, TypeOK, Instance
  <2>2. QED
    BY <1>1, <1>2, <1>5, <2>1, SetContactStateInv, NothingAdmitted, ContactKeepsLeases,
       QuietBinding
<1>6. QED
  BY <1>3, <1>4, <1>5 DEF Linking, BindBegin, BindRefused, RefreshRead, RefreshPublish, durable

\* An admission reads the target's state in its own transaction.
LEMMA AdmissionBinding ==
    ASSUME IndInv, BindingOK, RowsKept, NEW h \in Handlers, Admission(h)
    PROVE  BindingOK'
<1>1. disp' = disp /\ phase' = phase /\ inst' = inst /\ bound' = bound
  BY DEF Admission, AdmitCheck, Admit, AdmitRefused, durable
<1>2. InstancesKept /\ Stopped'
  BY <1>1 DEF InstancesKept, BindingOK, Stopped
<1>3. LeasesKept
  BY AdmissionKeepsLeases
<1>4. AdmittedAlive
  <2>1. ASSUME NEW r \in Requests, NEW m \in Modes, NEW ttl \in TTLs, Admit(h, r, m, ttl)
        PROVE  AdmittedAlive
    <3>1. rows' = [rows EXCEPT ![r] = AdmittedRow(api[h], m, ttl)]
      BY <2>1 DEF Admit
    <3>2. AdmittedRow(api[h], m, ttl).target = api[h].inst
      BY DEF AdmittedRow, AbsentRow
    <3>3. inst[api[h].inst].state # "RETIRED"
      BY <2>1 DEF Admit, AdmissionAllowed
    <3>4. QED
      BY <3>1, <3>2, <3>3 DEF AdmittedAlive, IndInv, TypeOK
  <2>2. QED
    BY <2>1, NothingAdmitted DEF Admission, AdmitCheck, AdmitRefused, durable
<1>5. QED
  BY <1>1, <1>2, <1>3, <1>4, QuietBinding

\* Every step keeps the bindings in order.
LEMMA StepBinding ==
    ASSUME IndInv, BindingOK, [Next]_vars
    PROVE  BindingOK'
<1>1. RowsKept
  BY StepKeepsRows
<1>2. CASE Linking
  BY <1>1, <1>2, LinkingBinding
<1>3. ASSUME NEW h \in Handlers, Admission(h) PROVE BindingOK'
  BY <1>1, <1>3, AdmissionBinding
<1>4. ASSUME NEW d \in Dispatchers, Dispatch(d) PROVE BindingOK'
  BY <1>1, <1>4, DispatchBinding, ClaimBinding
<1>5. ASSUME NEW i \in Instances, StartupBind(i) PROVE BindingOK'
  <2>1. Readers = {} /\ UNCHANGED disp /\ BindTransaction(i, 1, StartupSession)
    BY <1>5 DEF StartupBind, BindingOK, Stopped, Readers
  <2>2. phase' = "up"
    BY <1>5 DEF StartupBind
  <2>3. QED
    BY <1>1, <2>1, <2>2, BindBinding DEF BindingOK, Stopped
<1>6. CASE Boot \/ ReconcileDue
  <2>1. LeasesKept /\ AdmittedAlive
    BY <1>6, BootInv, ReconcileDueInv, ReconcileKeepsLeases, NothingAdmitted
       DEF Boot, ReconcileDue
  <2>2. UNCHANGED <<inst, bound, disp>> /\ Stopped'
    BY <1>6 DEF Boot, ReconcileDue, process, BindingOK, Stopped
  <2>3. QED
    BY <1>1, <2>1, <2>2, QuietBinding DEF InstancesKept
<1>7. ASSUME NEW v \in Receivers, Receive(v) PROVE BindingOK'
  <2>1. LeasesKept /\ AdmittedAlive
    <3>1. SettleStep \/ AckStep \/ rows' = rows
      BY <1>7, AckShape, IngestNackInv DEF Receive, ReceiveTm, IngestAudit, durable
    <3>2. QED
      BY <1>7, <3>1, ReceiveKeepsLeases, NothingAdmitted
  <2>2. UNCHANGED <<inst, bound, disp, phase>>
    BY <1>7 DEF Receive, ReceiveTm, IngestAck, IngestNack, IngestAudit, durable
  <2>3. QED
    BY <1>1, <2>1, <2>2, QuietBinding DEF InstancesKept, BindingOK, Stopped
<1>8. CASE Tick \/ Satellite \/ UNCHANGED vars
  <2>1. UNCHANGED <<rows, inst, bound, disp, phase>>
    BY <1>8 DEF Tick, Satellite, SatelliteDecides, SatelliteRepeats, vars, durable, process
  <2>2. QED
    BY <1>1, <2>1, NothingAdmitted, QuietBinding DEF InstancesKept, LeasesKept, BindingOK, Stopped
<1>9. CASE Crash \/ \E i \in Instances : StartupRefused(i)
  <2>1. UNCHANGED <<rows, inst, bound>>
    BY <1>9 DEF Crash, StartupRefused, durable
  <2>2. \A d \in Dispatchers : disp'[d].pc = "idle"
    BY <1>9 DEF Crash, StartupRefused, IdleThread, BindingOK, Stopped
  <2>3. QED
    BY <1>1, <2>1, <2>2, NothingAdmitted, QuietBinding DEF InstancesKept, LeasesKept, Stopped
<1>10. QED
  BY <1>2, <1>3, <1>4, <1>5, <1>6, <1>7, <1>8, <1>9 DEF Next, ProcessLife

(***************************************************************************)
(* Attempts and their sequence counts.                                     *)
(***************************************************************************)
\* What AttemptsOnlyAdvance says of one attempt.
AttemptStep(a, b) ==
    /\ a = [b EXCEPT !.result = a.result]
    /\ a.result \in {"NOT_SENT", "ACKED"} => b.result = a.result
    /\ a.result = "SENT" => b.result # "PERSISTED_NOT_SENT"

LogStep(log, later) ==
    /\ Len(later) = Len(log)
    /\ \A k \in 1 .. Len(log) : AttemptStep(log[k], later[k])

\* No attempt is added, and results only move forward.
AttemptsKept == \A r \in Requests : LogStep(attempts[r], attempts'[r])

\* A result that moves forward.
LEMMA ResultStep ==
    ASSUME NEW a \in Attempt, NEW to \in SendResults,
           \/ a.result = "PERSISTED_NOT_SENT"
           \/ a.result = "SENT" /\ to # "PERSISTED_NOT_SENT"
    PROVE  AttemptStep(a, [a EXCEPT !.result = to])
<1>1. [a EXCEPT !.result = to].result = to
  BY DEF Attempt
<1>2. a = [[a EXCEPT !.result = to] EXCEPT !.result = a.result]
  BY DEF Attempt
<1>3. QED
  BY <1>1, <1>2 DEF AttemptStep

LEMMA SameAttempt ==
    ASSUME NEW a \in Attempt
    PROVE  AttemptStep(a, a)
BY DEF AttemptStep, Attempt

LEMMA SameLog ==
    ASSUME NEW log \in Seq(Attempt)
    PROVE  LogStep(log, log)
BY SameAttempt, ElementOfSeq DEF LogStep

\* An UPDATE of the attempts that are not settled.
LEMMA RelabelStep ==
    ASSUME NEW log \in Seq(Attempt), NEW from \in SUBSET {"PERSISTED_NOT_SENT", "SENT"},
           NEW to \in {"NOT_SENT", "ACKED"}
    PROVE  LogStep(log, Relabel(log, from, to))
<1>1. DOMAIN log = 1 .. Len(log) /\ to \in SendResults /\ to # "PERSISTED_NOT_SENT"
  BY DEF SendResults
<1>2. Len(Relabel(log, from, to)) = Len(log)
  BY <1>1, RelabelType
<1>3. ASSUME NEW k \in 1 .. Len(log)
      PROVE  AttemptStep(log[k], Relabel(log, from, to)[k])
  <2>1. log[k] \in Attempt
    BY ElementOfSeq
  <2>2. Relabel(log, from, to)[k] =
           IF log[k].result \in from THEN [log[k] EXCEPT !.result = to] ELSE log[k]
    BY <1>1 DEF Relabel
  <2>3. CASE log[k].result \in from
    BY <1>1, <2>1, <2>2, <2>3, ResultStep
  <2>4. CASE log[k].result \notin from
    BY <2>1, <2>2, <2>4, SameAttempt
  <2>5. QED
    BY <2>3, <2>4
<1>4. QED
  BY <1>2, <1>3 DEF LogStep

\* The UPDATE of one attempt.
LEMMA LabelStep ==
    ASSUME IndInv, NEW d \in Dispatchers, disp[d].pc \in Prepared,
           NEW result \in SendResults, LabelAttempt(d, result),
           \/ AttemptOf(d).result = "PERSISTED_NOT_SENT"
           \/ AttemptOf(d).result = "SENT" /\ result # "PERSISTED_NOT_SENT"
    PROVE  AttemptsKept
<1> DEFINE q == disp[d].req
           k == disp[d].number
           e == [attempts[q][k] EXCEPT !.result = result]
<1>1. q \in Requests /\ k \in 1 .. Len(attempts[q]) /\ attempts \in [Requests -> Seq(Attempt)]
  BY DEF IndInv, TypeOK, WorkOK, Prepared
<1>2. AttemptStep(attempts[q][k], e)
  <2>1. attempts[q][k] \in Attempt
    BY <1>1, ElementOfSeq
  <2>2. QED
    BY <2>1, ResultStep DEF AttemptOf
<1>3. attempts' = [attempts EXCEPT ![q] = [attempts[q] EXCEPT ![k] = e]]
  BY DEF LabelAttempt
<1>4. \A r \in Requests : LogStep(attempts[r], attempts[r])
  BY <1>1, SameLog
<1>5. LogStep(attempts[q], [attempts[q] EXCEPT ![k] = e])
  <2>1. Len([attempts[q] EXCEPT ![k] = e]) = Len(attempts[q])
    BY <1>1, OwnAttempt, <1>3
  <2>2. \A j \in 1 .. Len(attempts[q]) :
           [attempts[q] EXCEPT ![k] = e][j] = IF j = k THEN e ELSE attempts[q][j]
    BY <1>1
  <2>3. QED
    BY <1>1, <1>2, <1>4, <2>1, <2>2 DEF LogStep
<1> HIDE DEF e
<1>6. QED
  BY <1>1, <1>3, <1>4, <1>5 DEF AttemptsKept

LEMMA BindKeepsAttempts ==
    ASSUME IndInv, NEW i, NEW g, NEW s, BindTransaction(i, g, s)
    PROVE  AttemptsKept
<1>1. \A r \in Requests : attempts[r] \in Seq(Attempt)
  BY DEF IndInv, TypeOK
<1>2. \A r \in Requests : LogStep(attempts[r], AttemptsAfterBind(r, i, g, s))
  BY <1>1, SameLog, RelabelStep DEF AttemptsAfterBind
<1>3. QED
  BY <1>2 DEF BindTransaction, AttemptsKept

LEMMA UnchangedAttempts ==
    ASSUME IndInv, UNCHANGED attempts
    PROVE  AttemptsKept
BY SameLog DEF IndInv, TypeOK, AttemptsKept

LEMMA DispatchKeepsAttempts ==
    ASSUME IndInv, NEW d \in Dispatchers, Dispatch(d)
    PROVE  (AttemptsKept /\ UNCHANGED seqs) \/ PrepareAttempt(d)
<1>1. CASE MarkSent(d)
  BY <1>1, LabelStep DEF MarkSent, CanMarkSent, Prepared, SendResults
<1>2. CASE Rollback(d)
  BY <1>2, LabelStep DEF Rollback, CanRollback, Prepared, SendResults
<1>3. CASE MarkNotSent(d)
  BY <1>3, LabelStep DEF MarkNotSent, Prepared, SendResults
<1>4. CASE MarkAttemptNotSent(d)
  BY <1>4, LabelStep, UnchangedAttempts DEF MarkAttemptNotSent, Prepared, SendResults
<1>5. CASE UNCHANGED <<attempts, seqs>>
  BY <1>5, UnchangedAttempts
<1>6. QED
  BY <1>1, <1>2, <1>3, <1>4, <1>5 DEF Dispatch, BeginDispatch, ClaimReconcile, Claim,
     ClaimNothing, PrepareFails, FenceRead, MarkSentFails, Send, SendFails, RollbackNothing,
     durable

\* Only prepare_attempt adds an attempt or takes a sequence count.
LEMMA StepKeepsAttempts ==
    ASSUME IndInv, [Next]_vars
    PROVE  \/ AttemptsKept /\ UNCHANGED seqs
           \/ \E d \in Dispatchers : PrepareAttempt(d)
<1>1. CASE UNCHANGED <<attempts, seqs>>
  BY <1>1, UnchangedAttempts
<1>2. ASSUME NEW d \in Dispatchers, Dispatch(d)
      PROVE  (AttemptsKept /\ UNCHANGED seqs) \/ PrepareAttempt(d)
  BY <1>2, DispatchKeepsAttempts
<1>3. CASE BindCommit \/ \E i \in Instances : StartupBind(i)
  BY <1>3, BindKeepsAttempts DEF BindCommit, StartupBind
<1>4. ASSUME NEW v \in Receivers, IngestAck(v) PROVE AttemptsKept /\ UNCHANGED seqs
  <2> DEFINE q == receiving[v].req
  <2>1. q \in Requests /\ attempts \in [Requests -> Seq(Attempt)]
    BY <1>4 DEF IndInv, TypeOK, IngestAck, Receipt
  <2>2. /\ attempts' = [attempts EXCEPT ![q] = Relabel(attempts[q], {"SENT"}, "ACKED")]
        /\ UNCHANGED seqs
    BY <1>4 DEF IngestAck
  <2>3. LogStep(attempts[q], Relabel(attempts[q], {"SENT"}, "ACKED"))
    BY <2>1, RelabelStep
  <2>4. \A r \in Requests : LogStep(attempts[r], attempts[r])
    BY <2>1, SameLog
  <2>5. QED
    BY <2>1, <2>2, <2>3, <2>4 DEF AttemptsKept
<1>5. QED
  BY <1>1, <1>2, <1>3, <1>4 DEF Next, ProcessLife, Boot, Crash, StartupRefused, Tick, Linking,
     BindBegin, BindRefused, RefreshRead, RefreshPublish, SetContactState, Admission,
     AdmitCheck, Admit, AdmitRefused, ReconcileDue, Receive, ReceiveTm, IngestNack,
     IngestAudit, Satellite, SatelliteDecides, SatelliteRepeats, vars, durable

\* What has not been admitted has not been attempted.
Unattempted == \A r \in Requests : rows[r].state = "ABSENT" => Len(attempts[r]) = 0

\* The counts an allocator has handed out, in their order.
Before(a, s) == a.epoch < s.epoch \/ (a.epoch = s.epoch /\ a.sequence < s.next)

AttemptsBefore ==
    \A r \in Requests : rows[r].target \in Instances =>
        \A k \in 1 .. Len(attempts[r]) : Before(attempts[r][k], seqs[rows[r].target])

SequencesOK == Unattempted /\ AttemptsBefore /\ NoSequenceReuse

\* An allocation is of a count that was not handed out before, and is handed
\* out from then on; across a rollover of the counter too.
LEMMA AllocationIsNew ==
    ASSUME NEW s \in Allocator, ~Exhausted(s)
    PROVE  /\ AfterAllocate(s) \in Allocator
           /\ Before(Allocated(s), AfterAllocate(s))
           /\ \A a \in Attempt : Before(a, s) =>
                 /\ Before(a, AfterAllocate(s))
                 /\ a.sequence # Allocated(s).sequence \/ a.epoch # Allocated(s).epoch
BY SeqModulusAssumption, MaxEpochAssumption
   DEF Allocator, Exhausted, Rollover, AfterAllocate, Allocated, Before, Attempt

\* A step that adds no attempt.
LEMMA KeptSequences ==
    ASSUME IndInv, IndInv', SequencesOK, RowsKept, AttemptsKept, UNCHANGED seqs
    PROVE  SequencesOK'
<1>1. \A r \in Requests : Len(attempts'[r]) = Len(attempts[r])
  BY DEF AttemptsKept, LogStep
<1>2. Unattempted'
  BY <1>1 DEF SequencesOK, Unattempted, RowsKept
<1>3. \A r \in Requests : \A k \in 1 .. Len(attempts[r]) :
         /\ attempts'[r][k].sequence = attempts[r][k].sequence
         /\ attempts'[r][k].epoch = attempts[r][k].epoch
  <2>1. SUFFICES ASSUME NEW r \in Requests, NEW k \in 1 .. Len(attempts[r])
                 PROVE  /\ attempts'[r][k].sequence = attempts[r][k].sequence
                        /\ attempts'[r][k].epoch = attempts[r][k].epoch
    OBVIOUS
  <2>2. attempts[r][k] = [attempts'[r][k] EXCEPT !.result = attempts[r][k].result]
    BY DEF AttemptsKept, LogStep, AttemptStep
  <2>3. attempts'[r][k] \in Attempt
    BY <1>1, ElementOfSeq DEF IndInv, TypeOK
  <2>4. QED
    BY <2>2, <2>3 DEF Attempt
<1>4. \A r \in Requests : Len(attempts[r]) # 0 => rows'[r].target = rows[r].target
  BY DEF SequencesOK, Unattempted, RowsKept
<1>5. \A r \in Requests : Len(attempts[r]) \in Nat /\ DOMAIN attempts[r] = 1 .. Len(attempts[r])
                                /\ DOMAIN attempts'[r] = 1 .. Len(attempts[r])
  <2>1. IndInv => attempts \in [Requests -> Seq(Attempt)]
    BY DEF IndInv, TypeOK
  <2>2. \A r \in Requests : DOMAIN attempts[r] = 1 .. Len(attempts[r]) /\ Len(attempts[r]) \in Nat
    BY <2>1
  <2>3. \A r \in Requests : DOMAIN attempts'[r] = 1 .. Len(attempts'[r])
    BY DEF IndInv, TypeOK
  <2>4. QED
    BY <1>1, <2>2, <2>3
<1>6. AttemptsBefore'
  BY <1>1, <1>3, <1>4, <1>5 DEF SequencesOK, AttemptsBefore, Before
<1>7. NoSequenceReuse'
  <2>1. SUFFICES ASSUME NEW r \in Requests, NEW q \in Requests,
                        NEW k \in DOMAIN attempts'[r], NEW m \in DOMAIN attempts'[q],
                        rows'[r].target = rows'[q].target, <<r, k>> # <<q, m>>
                 PROVE  \/ attempts'[r][k].sequence # attempts'[q][m].sequence
                        \/ attempts'[r][k].epoch # attempts'[q][m].epoch
    BY DEF NoSequenceReuse
  <2>2. /\ k \in 1 .. Len(attempts[r]) /\ k \in DOMAIN attempts[r]
        /\ m \in 1 .. Len(attempts[q]) /\ m \in DOMAIN attempts[q]
    BY <1>5
  <2>3. rows[r].target = rows[q].target
    <3>1. Len(attempts[r]) # 0 /\ Len(attempts[q]) # 0
      BY <1>5, <2>2
    <3>2. QED
      BY <1>4, <2>1, <3>1
  <2>4. \/ attempts[r][k].sequence # attempts[q][m].sequence
        \/ attempts[r][k].epoch # attempts[q][m].epoch
    BY <2>1, <2>2, <2>3 DEF SequencesOK, NoSequenceReuse
  <2>5. QED
    BY <1>3, <2>2, <2>4
<1>8. QED
  BY <1>2, <1>6, <1>7 DEF SequencesOK

\* prepare_attempt takes the next count of the target's allocator.
LEMMA PrepareSequences ==
    ASSUME IndInv, SequencesOK, NEW d \in Dispatchers, PrepareAttempt(d)
    PROVE  SequencesOK'
<1> DEFINE q == disp[d].req
           i == rows[q].target
           n == Len(attempts[q]) + 1
           e == [result |-> "PERSISTED_NOT_SENT", gen |-> disp[d].gen,
                 session |-> disp[d].session,
                 sequence |-> Allocated(seqs[i]).sequence,
                 epoch |-> Allocated(seqs[i]).epoch]
<1>1. /\ q \in Requests /\ i \in Instances /\ rows[q].state # "ABSENT"
      /\ rows' = rows
      /\ attempts' = [attempts EXCEPT ![q] = Append(@, e)]
      /\ seqs' = [seqs EXCEPT ![i] = AfterAllocate(@)]
      /\ ~Exhausted(seqs[i])
  BY WorkHeld DEF PrepareAttempt, CanPrepare, RowOf
<1>2. /\ attempts \in [Requests -> Seq(Attempt)] /\ seqs \in [Instances -> Allocator]
      /\ seqs[i] \in Allocator
  BY <1>1 DEF IndInv, TypeOK
<1>3. /\ \A r \in Requests \ {q} : attempts'[r] = attempts[r]
      /\ attempts'[q] = Append(attempts[q], e)
      /\ seqs'[i] = AfterAllocate(seqs[i])
      /\ \A j \in Instances \ {i} : seqs'[j] = seqs[j]
  BY <1>1, <1>2
<1>4. e.sequence = Allocated(seqs[i]).sequence /\ e.epoch = Allocated(seqs[i]).epoch
  OBVIOUS
<1> HIDE DEF e
<1>5. /\ Len(attempts'[q]) = n /\ Len(attempts[q]) \in Nat
      /\ attempts'[q][n] = e
      /\ \A k \in 1 .. Len(attempts[q]) : attempts'[q][k] = attempts[q][k]
      /\ \A k \in 1 .. n : k = n \/ k \in 1 .. Len(attempts[q])
  BY <1>1, <1>2, <1>3
<1>6. \A r \in Requests : /\ DOMAIN attempts[r] = 1 .. Len(attempts[r])
                           /\ \A k \in 1 .. Len(attempts[r]) : attempts[r][k] \in Attempt
  BY <1>2, ElementOfSeq
<1>7. DOMAIN attempts'[q] = 1 .. n
  BY <1>1, <1>2, <1>3, <1>5
<1>8. Unattempted'
  BY <1>1, <1>3 DEF SequencesOK, Unattempted
<1>9. /\ Before(e, seqs'[i])
      /\ \A r \in Requests : rows[r].target = i =>
            \A k \in 1 .. Len(attempts[r]) :
                /\ Before(attempts[r][k], seqs'[i])
                /\ attempts[r][k].sequence # e.sequence \/ attempts[r][k].epoch # e.epoch
  <2>1. Before(Allocated(seqs[i]), AfterAllocate(seqs[i]))
    BY <1>1, <1>2, AllocationIsNew
  <2>2. Before(e, seqs'[i])
    BY <1>3, <1>4, <2>1 DEF Before
  <2>3. ASSUME NEW r \in Requests, rows[r].target = i, NEW k \in 1 .. Len(attempts[r])
        PROVE  /\ Before(attempts[r][k], seqs'[i])
               /\ attempts[r][k].sequence # e.sequence \/ attempts[r][k].epoch # e.epoch
    <3>1. attempts[r][k] \in Attempt /\ Before(attempts[r][k], seqs[i])
      BY <1>1, <1>6, <2>3 DEF SequencesOK, AttemptsBefore
    <3>2. /\ Before(attempts[r][k], AfterAllocate(seqs[i]))
          /\ \/ attempts[r][k].sequence # Allocated(seqs[i]).sequence
             \/ attempts[r][k].epoch # Allocated(seqs[i]).epoch
      BY <1>1, <1>2, <3>1, AllocationIsNew
    <3>3. QED
      BY <1>3, <1>4, <3>2
  <2>4. QED
    BY <2>2, <2>3
<1>10. AttemptsBefore'
  <2>1. SUFFICES ASSUME NEW r \in Requests, rows[r].target \in Instances,
                        NEW k \in 1 .. Len(attempts'[r])
                 PROVE  Before(attempts'[r][k], seqs'[rows[r].target])
    BY <1>1 DEF AttemptsBefore, Before
  <2>2. CASE r = q /\ k = n
    BY <1>5, <1>9, <2>2
  <2>3. CASE ~(r = q /\ k = n)
    <3>1. k \in 1 .. Len(attempts[r]) /\ attempts'[r][k] = attempts[r][k]
      BY <1>3, <1>5, <2>3
    <3>2. CASE rows[r].target = i
      BY <1>9, <3>1, <3>2
    <3>3. CASE rows[r].target # i
      BY <1>3, <2>1, <3>1, <3>3 DEF SequencesOK, AttemptsBefore
    <3>4. QED
      BY <3>2, <3>3
  <2>4. QED
    BY <2>2, <2>3
<1>11. NoSequenceReuse'
  <2>1. SUFFICES ASSUME NEW r \in Requests, NEW p \in Requests,
                        NEW k \in DOMAIN attempts'[r], NEW m \in DOMAIN attempts'[p],
                        rows[r].target = rows[p].target, <<r, k>> # <<p, m>>
                 PROVE  \/ attempts'[r][k].sequence # attempts'[p][m].sequence
                        \/ attempts'[r][k].epoch # attempts'[p][m].epoch
    BY <1>1 DEF NoSequenceReuse
  <2>2. \A x \in Requests : \A y \in DOMAIN attempts'[x] :
           \/ x = q /\ y = n /\ attempts'[x][y] = e
           \/ y \in 1 .. Len(attempts[x]) /\ y \in DOMAIN attempts[x]
              /\ attempts'[x][y] = attempts[x][y]
    BY <1>3, <1>5, <1>6, <1>7
  <2>3. CASE r = q /\ k = n /\ attempts'[r][k] = e
    BY <1>9, <2>1, <2>2, <2>3
  <2>4. CASE p = q /\ m = n /\ attempts'[p][m] = e
    BY <1>9, <2>1, <2>2, <2>4
  <2>5. CASE /\ k \in DOMAIN attempts[r] /\ attempts'[r][k] = attempts[r][k]
             /\ m \in DOMAIN attempts[p] /\ attempts'[p][m] = attempts[p][m]
    BY <2>1, <2>5 DEF SequencesOK, NoSequenceReuse
  <2>6. QED
    BY <2>2, <2>3, <2>4, <2>5
<1>12. QED
  BY <1>8, <1>10, <1>11 DEF SequencesOK

(***************************************************************************)
(* The specification.                                                      *)
(***************************************************************************)
BindInv == IndInv /\ BindingOK /\ SequencesOK

LEMMA BindInit == Init => BindInv
<1> SUFFICES ASSUME Init PROVE BindInv
  OBVIOUS
<1>1. BindingOK
  BY DEF Init, BindingOK, Stopped, OneActive, OwnedIsCurrent, SendUnderBinding,
     RetiredTargetsSettled, IdleThread, Holding, AbsentInstance, AbsentRow, Live,
     NonterminalStates
<1>2. SequencesOK
  BY NamesAssumption DEF Init, SequencesOK, Unattempted, AttemptsBefore, NoSequenceReuse, AbsentRow
<1>3. QED
  BY <1>1, <1>2, InitInv DEF BindInv

LEMMA BindNext == BindInv /\ [Next]_vars => BindInv'
<1> SUFFICES ASSUME BindInv, [Next]_vars PROVE BindInv'
  OBVIOUS
<1>1. IndInv' /\ BindingOK'
  BY NextInv, StepBinding DEF BindInv
<1>2. SequencesOK'
  BY StepKeepsRows, StepKeepsAttempts, KeptSequences, PrepareSequences, <1>1 DEF BindInv
<1>3. QED
  BY <1>1, <1>2 DEF BindInv

\* The invariant behind the results below: a lease that is still held was taken
\* under the binding the database has, only the bound instance is active, and
\* every attempt's sequence count is behind its allocator.
THEOREM BindInvariance == Spec => []BindInv
BY BindInit, BindNext, PTL DEF Spec

\* Between mark_sent and the end of the send the database holds the binding the
\* frame is sent under, for any number of threads, rebinds and stale refreshes
\* (send_with_fence against LinkBindingService.bind).
THEOREM SendsAreFenced == Spec => []SendUnderBinding
<1>1. BindInv => SendUnderBinding
  BY DEF BindInv, BindingOK
<1>2. QED
  BY <1>1, BindInvariance, PTL

\* A migration leaves nothing open for the retired instance, and no admission
\* that was checked before it adds anything (_bind_in_transaction, admit).
THEOREM RetirementSettles == Spec => []RetiredTargetsSettled
<1>1. BindInv => RetiredTargetsSettled
  BY DEF BindInv, BindingOK
<1>2. QED
  BY <1>1, BindInvariance, PTL

\* No (epoch, sequence count) is used for two attempts to one instance, through
\* rollovers, retries, rebinds and restarts (allocate_in_transaction).
THEOREM SequencesAreUnique == Spec => []NoSequenceReuse
<1>1. BindInv => NoSequenceReuse
  BY DEF BindInv, SequencesOK
<1>2. QED
  BY <1>1, BindInvariance, PTL

\* A log that grows at its end and whose results move forward.
LEMMA AttemptsAdvance ==
    ASSUME IndInv, [Next]_vars, NEW r \in Requests
    PROVE  /\ Len(attempts'[r]) >= Len(attempts[r])
           /\ \A k \in DOMAIN attempts[r] : AttemptStep(attempts[r][k], attempts'[r][k])
<1>1. /\ attempts \in [Requests -> Seq(Attempt)] /\ Len(attempts[r]) \in Nat
      /\ DOMAIN attempts[r] = 1 .. Len(attempts[r])
  BY LenProperties DEF IndInv, TypeOK
<1>2. CASE AttemptsKept
  BY <1>1, <1>2 DEF AttemptsKept, LogStep
<1>3. ASSUME NEW d \in Dispatchers, PrepareAttempt(d)
      PROVE  /\ Len(attempts'[r]) >= Len(attempts[r])
             /\ \A k \in DOMAIN attempts[r] : attempts'[r][k] = attempts[r][k]
  <2>1. PICK e : attempts' = [attempts EXCEPT ![disp[d].req] = Append(@, e)]
    BY <1>3 DEF PrepareAttempt
  <2>2. CASE r = disp[d].req
    BY <1>1, <2>1, <2>2
  <2>3. CASE r # disp[d].req
    BY <1>1, <2>1, <2>3
  <2>4. QED
    BY <2>2, <2>3
<1>4. \A k \in DOMAIN attempts[r] : AttemptStep(attempts[r][k], attempts[r][k])
  BY <1>1, SameAttempt, ElementOfSeq
<1>5. QED
  BY <1>2, <1>3, <1>4, StepKeepsAttempts

\* No late dispatcher relabels an attempt that was settled, and none takes one
\* back to not sent yet (mark_sent, rollback_sent_attempt, mark_attempt_not_sent).
THEOREM AttemptsNeverReturn == Spec => AttemptsOnlyAdvance
<1>1. IndInv /\ [Next]_vars =>
         [\A r \in Requests :
             /\ Len(attempts'[r]) >= Len(attempts[r])
             /\ \A k \in DOMAIN attempts[r] :
                   LET a == attempts[r][k]
                       b == attempts'[r][k]
                   IN  /\ a = [b EXCEPT !.result = a.result]
                       /\ a.result \in {"NOT_SENT", "ACKED"} => b.result = a.result
                       /\ a.result = "SENT" => b.result # "PERSISTED_NOT_SENT"]_vars
  BY AttemptsAdvance DEF AttemptStep
<1>2. QED
  BY <1>1, Invariance, PTL DEF Spec, AttemptsOnlyAdvance

\* A bind that is accepted moves the generation on.
LEMMA BindAdvances ==
    ASSUME IndInv, BindingOK, NEW i \in Instances, NEW g \in Generations, NEW s,
           BindTransaction(i, g, s), NEW j \in Instances
    PROVE  /\ inst'[j].gen >= inst[j].gen
           /\ inst[j].state = "RETIRED" => inst'[j].state = "RETIRED"
<1>1. /\ inst[j] \in Instance /\ inst'[j] = InstanceAfterBind(j, i, g, s)
      /\ inst[j].gen \in Nat /\ g \in Nat
  BY BoundsAssumption DEF IndInv, TypeOK, BindTransaction, Instance, Generations
<1>2. CASE j = i
  <2>1. inst'[i].gen = g /\ inst[i].state # "RETIRED" /\ i # None
    BY <1>1, <1>2, NamesAssumption DEF InstanceAfterBind, BindTransaction, BindAccepted
  <2>2. CASE inst[i].state = "ACTIVE"
    BY <1>1, <1>2, <2>1, <2>2 DEF BindTransaction, BindAccepted, BindingOK, OneActive
  <2>3. CASE inst[i].state = "ABSENT"
    BY <1>1, <1>2, <2>1, <2>3 DEF BindingOK, OneActive
  <2>4. QED
    BY <1>1, <1>2, <2>1, <2>2, <2>3 DEF Instance
<1>3. CASE j # i /\ j = bound
  BY <1>1, <1>3 DEF InstanceAfterBind, Instance
<1>4. CASE j # i /\ j # bound
  BY <1>1, <1>4 DEF InstanceAfterBind
<1>5. QED
  BY <1>2, <1>3, <1>4

\* No bind, startup, contact change or restart takes a generation back or wakes
\* a retired instance (_bind_in_transaction).
THEOREM BindingsNeverReturn == Spec => BindingsOnlyAdvance
<1>1. BindInv /\ [Next]_vars =>
         [\A i \in Instances :
             /\ inst'[i].gen >= inst[i].gen
             /\ inst[i].state = "RETIRED" => inst'[i].state = "RETIRED"]_vars
  <2> SUFFICES ASSUME BindInv, Next
               PROVE  \A j \in Instances :
                         /\ inst'[j].gen >= inst[j].gen
                         /\ inst[j].state = "RETIRED" => inst'[j].state = "RETIRED"
    OBVIOUS
  <2>1. \A j \in Instances : inst[j].gen \in Nat /\ inst[j] \in Instance
    BY BoundsAssumption DEF BindInv, IndInv, TypeOK, Instance
  <2>2. CASE inst' = inst
    BY <2>1, <2>2
  <2>3. CASE BindCommit
    BY <2>3, BindAdvances DEF BindCommit, BindInv, IndInv, TypeOK, BindArgs
  <2>4. ASSUME NEW i \in Instances, StartupBind(i)
        PROVE  \A j \in Instances :
                  /\ inst'[j].gen >= inst[j].gen
                  /\ inst[j].state = "RETIRED" => inst'[j].state = "RETIRED"
    BY <2>4, BoundsAssumption, BindAdvances DEF StartupBind, BindInv, Generations
  <2>5. ASSUME NEW i \in Instances, NEW c \in Contacts, SetContactState(i, c)
        PROVE  \A j \in Instances :
                  /\ inst'[j].gen >= inst[j].gen
                  /\ inst[j].state = "RETIRED" => inst'[j].state = "RETIRED"
    BY <2>1, <2>5 DEF SetContactState, BindInv, IndInv, TypeOK, Instance
  <2>6. QED
    BY <2>2, <2>3, <2>4, <2>5 DEF Next, ProcessLife, Boot, Crash, StartupRefused, Tick, Linking,
       BindBegin, BindRefused, RefreshRead, RefreshPublish, Admission, AdmitCheck, Admit,
       AdmitRefused, ReconcileDue, Dispatch, BeginDispatch, ClaimReconcile, Claim,
       ClaimNothing, PrepareAttempt, PrepareFails, FenceRead, MarkSent, MarkSentFails, Send,
       SendFails, Rollback, RollbackNothing, MarkNotSent, MarkAttemptNotSent, Receive,
       ReceiveTm, IngestAck, IngestNack, IngestAudit, Satellite, SatelliteDecides,
       SatelliteRepeats, durable
<1>2. QED
  BY <1>1, BindInvariance, PTL DEF Spec, BindingsOnlyAdvance
=============================================================================
