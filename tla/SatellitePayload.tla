-------------------------- MODULE SatellitePayload --------------------------
(***************************************************************************)
(* Analysis jobs on board: command handling (flight/cloud_payload.py) on   *)
(* the pump thread, the worker client (flight/worker_client.py) on its     *)
(* monitor thread, the worker process (sat_ai/worker_process.py) and the   *)
(* journal they share (flight/journal.py).                                 *)
(*                                                                         *)
(* A journal transaction, or a section under the client's lock, is one     *)
(* step.  Between two of them the other thread, the worker or a crash may  *)
(* come in.  Each analysis owns one product, named like its RequestKey.    *)
(***************************************************************************)
EXTENDS Integers, Sequences, FiniteSets

CONSTANTS
    Jobs,          \* RequestKeys of SCENE_ANALYZE and ROI_REQUEST commands
    Cancels,       \* RequestKeys of JOB_CANCEL commands
    TargetOf,      \* the analysis each of them names
    Foreigns,      \* RequestKeys of commands for another spacecraft instance
    None,
    MaxPending,    \* policy.max_pending_jobs
    MaxRestarts,   \* policy.max_restarts
    MaxDeaths      \* bound: worker deaths and silences

Keys == Jobs \cup Cancels \cup Foreigns

ASSUME PolicyAssumption ==
    /\ MaxPending \in Nat \ {0}
    /\ MaxRestarts \in Nat
    /\ MaxDeaths \in Nat
ASSUME RequestAssumption ==
    /\ TargetOf \in [Cancels -> Jobs]
    /\ Jobs \cap (Cancels \cup Foreigns) = {}
    /\ Cancels \cap Foreigns = {}
    /\ None \notin Keys

VARIABLES
    \* the journal
    commands,      \* the stage in the stored result of each command
    jobs, products,
    events,        \* the events written on the end of each job
    \* the product directories on disk
    files,
    \* the pump thread and the monitor thread
    pump, monitor,
    callback,      \* _handle_worker_result, as far as either thread is in it
    \* WorkerProcessClient
    pending, active, ready, fault, cancelSent, deadlineSent, restarts,
    \* the worker process and its queues
    worker, control, outgoing,
    \* the environment
    late,          \* the deadline of the active job has passed
    deaths,
    \* history
    answers,       \* what the ground was told of each command
    lapsed         \* jobs canceled by their worker although nobody canceled them

journal == <<commands, jobs, products, events>>
client  == <<pending, active, ready, fault, cancelSent, deadlineSent, restarts>>
process == <<worker, control, outgoing>>
rest    == <<late, deaths, lapsed>>
vars    == <<journal, files, pump, monitor, callback, client, process, rest, answers>>

(***************************************************************************)
(* Types.                                                                  *)
(***************************************************************************)
Live        == {"QUEUED", "RUNNING", "CANCEL_REQUESTED"}
Terminal    == {"SUCCEEDED", "FAILED", "TIMEOUT", "CANCELED"}
Stages      == {"DISPATCHED", "EXECUTED", "COMMAND_REJECTED"}
Results     == {"SUCCEEDED", "REJECTED", "FAILED", "TIMEOUT", "CANCELED"}
EventNames  == {"JOB_COMPLETED", "SCIENCE_DECISION_REJECTED", "JOB_FAILED",
                "JOB_TIMEOUT", "JOB_CANCELED", "ADMISSION_REFUSED"}
Threads     == {"pump", "monitor"}

PumpState    == [at : {"IDLE", "SUBMIT", "REFUSED", "REFUSED_JOB", "REFUSED_PRODUCT",
                       "MARK", "ASK", "RECORD"},
                 key : Keys \cup {None}]
MonitorState == [at : {"LOOP", "STARTED", "RESULT", "LOSS"},
                 todo : Seq(Jobs), again : BOOLEAN]
Callback     == [stage : {"NONE", "READ", "APPLY", "PRODUCT", "SAY"},
                 job : Jobs \cup {None}, result : Results, say : EventNames]
WorkerState  == [state : {"STARTING", "IDLE", "RUNNING", "DEAD"},
                 job : Jobs \cup {None}]
Message      == [job : Jobs, result : Results]

Idle       == [at |-> "IDLE", key |-> None]
Looping    == [at |-> "LOOP", todo |-> << >>, again |-> FALSE]
NoCallback == [stage |-> "NONE", job |-> None, result |-> "FAILED", say |-> "JOB_FAILED"]

TypeOK ==
    /\ commands \in [Keys -> Stages \cup {"ABSENT"}]
    /\ jobs \in [Jobs -> Live \cup Terminal \cup {"ABSENT"}]
    /\ products \in [Jobs -> {"ABSENT", "STAGING", "READY", "FAILED"}]
    /\ events \in [Jobs -> SUBSET EventNames]
    /\ files \subseteq Jobs
    /\ pump \in PumpState
    /\ monitor \in MonitorState
    /\ callback \in [Threads -> Callback]
    /\ pending \in Seq(Jobs)
    /\ Len(pending) <= MaxPending + 1
    /\ active \in Jobs \cup {None}
    /\ ready \in BOOLEAN /\ fault \in BOOLEAN
    /\ cancelSent \in BOOLEAN /\ deadlineSent \in BOOLEAN
    /\ restarts \in 0 .. MaxRestarts
    /\ worker \in WorkerState
    /\ control \subseteq Jobs
    /\ outgoing \in Message \cup {None}
    /\ late \in BOOLEAN
    /\ deaths \in 0 .. MaxDeaths
    /\ answers \in [Keys -> Stages \cup {None}]
    /\ lapsed \subseteq Jobs

\* CloudPayload waits in WorkerProcessClient.start until the worker is ready.
Init ==
    /\ commands = [k \in Keys |-> "ABSENT"]
    /\ jobs = [j \in Jobs |-> "ABSENT"]
    /\ products = [j \in Jobs |-> "ABSENT"]
    /\ events = [j \in Jobs |-> {}]
    /\ files = {}
    /\ pump = Idle
    /\ monitor = Looping
    /\ callback = [th \in Threads |-> NoCallback]
    /\ pending = << >>
    /\ active = None
    /\ ready = TRUE
    /\ fault = FALSE
    /\ cancelSent = FALSE
    /\ deadlineSent = FALSE
    /\ restarts = 0
    /\ worker = [state |-> "IDLE", job |-> None]
    /\ control = {}
    /\ outgoing = None
    /\ late = FALSE
    /\ deaths = 0
    /\ answers = [k \in Keys |-> None]
    /\ lapsed = {}

(***************************************************************************)
(* The journal.                                                            *)
(***************************************************************************)
\* Mutant of Transition: update_job's assignment, whatever the state is.
TransitionAlways(table, j, expected, state) == [table EXCEPT ![j] = state]

\* transition_job: only from an expected state.
Transition(table, j, expected, state) ==
    [table EXCEPT ![j] = IF @ \in expected THEN state ELSE @]

\* fail_product_for_job.
FailedProduct(j) == [products EXCEPT ![j] = IF @ = "STAGING" THEN "FAILED" ELSE @]

AppendEvent(j, name) == events' = [events EXCEPT ![j] = @ \cup {name}]

Store(k, stage)  == commands' = [commands EXCEPT ![k] = stage]
Answer(k, stage) == answers' = [answers EXCEPT ![k] = stage]

(***************************************************************************)
(* The pump thread: handle_command.                                        *)
(***************************************************************************)
PumpAt(at)     == pump.at = at /\ callback["pump"].stage = "NONE"
PumpTo(at)     == pump' = [pump EXCEPT !.at = at]
FreeFor(k)     == PumpAt("IDLE") /\ commands[k] = "ABSENT"

\* A command that is in the journal gets its stored result again.
Duplicate(k) ==
    /\ PumpAt("IDLE")
    /\ k \notin Foreigns
    /\ commands[k] # "ABSENT"
    /\ Answer(k, commands[k])
    /\ UNCHANGED <<journal, files, pump, monitor, callback, client, process, rest>>

\* TARGET_INSTANCE_MISMATCH is recorded before the journal is asked.
ReceiveForeign(k) ==
    /\ FreeFor(k)
    /\ Store(k, "COMMAND_REJECTED")
    /\ Answer(k, "COMMAND_REJECTED")
    /\ UNCHANGED <<jobs, products, events, files, pump, monitor, callback, client,
                   process, rest>>

\* _admit_analysis, up to the commit of command, product and job.
AdmitAnalysis(j) ==
    /\ FreeFor(j)
    /\ Store(j, "DISPATCHED")
    /\ jobs' = [jobs EXCEPT ![j] = "QUEUED"]
    /\ products' = [products EXCEPT ![j] = "STAGING"]
    /\ pump' = [at |-> "SUBMIT", key |-> j]
    /\ UNCHANGED <<events, files, monitor, callback, client, process, rest, answers>>

\* An analysis that does not fit the catalog, the domain or the configuration.
RejectAnalysis(j) ==
    /\ FreeFor(j)
    /\ Store(j, "COMMAND_REJECTED")
    /\ Answer(j, "COMMAND_REJECTED")
    /\ UNCHANGED <<jobs, products, events, files, pump, monitor, callback, client,
                   process, rest>>

\* Mutant of HasRoom: the idle worker's extra place is there for everyone.
HasRoomAlways == TRUE

HasRoom == Len(pending) < MaxPending + (IF ready /\ active = None THEN 1 ELSE 0)

\* WorkerProcessClient.submit, and the answer if there is a place.
Submit ==
    /\ PumpAt("SUBMIT")
    /\ IF ~fault /\ HasRoom
       THEN /\ pending' = Append(pending, pump.key)
            /\ Answer(pump.key, "DISPATCHED")
            /\ pump' = Idle
       ELSE PumpTo("REFUSED") /\ UNCHANGED <<pending, answers>>
    /\ UNCHANGED <<journal, files, monitor, callback, active, ready, fault, cancelSent,
                   deadlineSent, restarts, process, rest>>

\* QUEUE_FULL and SERVICE_FAULT take the admission back, commit by commit.
RefuseJob ==
    /\ PumpAt("REFUSED")
    /\ jobs' = Transition(jobs, pump.key, {"QUEUED"}, "FAILED")
    /\ PumpTo("REFUSED_JOB")
    /\ UNCHANGED <<commands, products, events, files, monitor, callback, client,
                   process, rest, answers>>

RefuseProduct ==
    /\ PumpAt("REFUSED_JOB")
    /\ products' = FailedProduct(pump.key)
    /\ PumpTo("REFUSED_PRODUCT")
    /\ UNCHANGED <<commands, jobs, events, files, monitor, callback, client, process,
                   rest, answers>>

\* Mutant of RefusedStage: the result stored at admission stays.
RefusedStageKept == "DISPATCHED"

RefusedStage == "COMMAND_REJECTED"

RefuseCommand ==
    /\ PumpAt("REFUSED_PRODUCT")
    /\ Store(pump.key, RefusedStage)
    /\ AppendEvent(pump.key, "ADMISSION_REFUSED")
    /\ Answer(pump.key, "COMMAND_REJECTED")
    /\ pump' = Idle
    /\ UNCHANGED <<jobs, products, files, monitor, callback, client, process, rest>>

\* _job_cancel of an unknown or finished job is answered at once.
ReceiveCancel(c) ==
    LET state == jobs[TargetOf[c]]
        stage == IF state = "ABSENT" THEN "COMMAND_REJECTED" ELSE "EXECUTED"
    IN  /\ FreeFor(c)
        /\ IF state \in Live
           THEN pump' = [at |-> "MARK", key |-> c] /\ UNCHANGED <<commands, answers>>
           ELSE Store(c, stage) /\ Answer(c, stage) /\ UNCHANGED pump
        /\ UNCHANGED <<jobs, products, events, files, monitor, callback, client,
                       process, rest>>

\* The job may have ended since its state was read.
MarkCancel ==
    /\ PumpAt("MARK")
    /\ jobs' = Transition(jobs, TargetOf[pump.key], {"QUEUED", "RUNNING"},
                          "CANCEL_REQUESTED")
    /\ PumpTo("ASK")
    /\ UNCHANGED <<commands, products, events, files, monitor, callback, client,
                   process, rest, answers>>

Call(th, j, result) ==
    callback' = [callback EXCEPT ![th] = [stage |-> "READ", job |-> j, result |-> result,
                                          say |-> "JOB_FAILED"]]

Without(seq, i) == SubSeq(seq, 1, i - 1) \o SubSeq(seq, i + 1, Len(seq))

\* WorkerProcessClient.cancel: a pending job is taken out and its CANCELED
\* result handled on this thread; the worker is told to stop an active one, if
\* the control queue has room; any other job has its result already.
AskWorker ==
    LET j == TargetOf[pump.key]
    IN  /\ PumpAt("ASK")
        /\ \/ /\ \E i \in 1 .. Len(pending) :
                    pending[i] = j /\ pending' = Without(pending, i)
              /\ Call("pump", j, "CANCELED")
              /\ UNCHANGED <<control, cancelSent>>
           \/ /\ \A i \in 1 .. Len(pending) : pending[i] # j
              /\ active = j
              /\ control' \in {control, control \cup {j}}
              /\ cancelSent' = TRUE
              /\ UNCHANGED <<pending, callback>>
           \/ /\ \A i \in 1 .. Len(pending) : pending[i] # j
              /\ active # j
              /\ UNCHANGED <<pending, callback, control, cancelSent>>
        /\ PumpTo("RECORD")
        /\ UNCHANGED <<journal, files, monitor, active, ready, fault, deadlineSent,
                       restarts, worker, outgoing, rest, answers>>

RecordCancel ==
    /\ PumpAt("RECORD")
    /\ Store(pump.key, "EXECUTED")
    /\ Answer(pump.key, "EXECUTED")
    /\ pump' = Idle
    /\ UNCHANGED <<jobs, products, events, files, monitor, callback, client, process,
                   rest>>

(***************************************************************************)
(* _handle_worker_result, on either thread.                                *)
(***************************************************************************)
Returns(th) == callback' = [callback EXCEPT ![th] = NoCallback]
Goes(th, stage, name) ==
    callback' = [callback EXCEPT ![th].stage = stage, ![th].say = name]

\* A result for a job that has ended is dropped, with its product.
ReadJob(th) ==
    LET j == callback[th].job
    IN  /\ callback[th].stage = "READ"
        /\ IF jobs[j] \in Terminal
           THEN /\ files' = IF callback[th].result = "SUCCEEDED" THEN files \ {j}
                            ELSE files
                /\ Returns(th)
           ELSE Goes(th, "APPLY", "JOB_FAILED") /\ UNCHANGED files
        /\ UNCHANGED <<journal, pump, monitor, client, process, rest, answers>>

\* complete_job_with_product: job and product in one transaction.
CompleteJob(j) ==
    /\ products[j] = "STAGING"
    /\ jobs' = [jobs EXCEPT ![j] = "SUCCEEDED"]
    /\ products' = [products EXCEPT ![j] = "READY"]

ApplySuccess(th) ==
    LET j == callback[th].job
    IN  /\ callback[th].stage = "APPLY"
        /\ callback[th].result = "SUCCEEDED"
        /\ IF jobs[j] \in {"RUNNING", "CANCEL_REQUESTED"}
           THEN /\ CompleteJob(j)
                /\ Goes(th, "SAY", "JOB_COMPLETED")
                /\ UNCHANGED files
           ELSE files' = files \ {j} /\ Returns(th) /\ UNCHANGED <<jobs, products>>
        /\ UNCHANGED <<commands, events, pump, monitor, client, process, rest, answers>>

\* Too little valid data: the job succeeds without a product.  The answer of
\* transition_job is not looked at.
ApplyRejected(th) ==
    /\ callback[th].stage = "APPLY"
    /\ callback[th].result = "REJECTED"
    /\ jobs' = Transition(jobs, callback[th].job, {"RUNNING", "CANCEL_REQUESTED"},
                          "SUCCEEDED")
    /\ Goes(th, "PRODUCT", "SCIENCE_DECISION_REJECTED")
    /\ UNCHANGED <<commands, products, events, files, pump, monitor, client, process,
                   rest, answers>>

Expected(result) == IF result = "CANCELED" THEN {"CANCEL_REQUESTED"} ELSE Live

\* Mutant of Ends: the answer of transition_job is not looked at.
EndsAlways(j, result) == TRUE

Ends(j, result) == jobs[j] \in Expected(result)

FinalEvent(result) == CASE result = "CANCELED" -> "JOB_CANCELED"
                        [] result = "TIMEOUT" -> "JOB_TIMEOUT"
                        [] OTHER -> "JOB_FAILED"

ApplyFailure(th) ==
    LET j == callback[th].job
        result == callback[th].result
    IN  /\ callback[th].stage = "APPLY"
        /\ result \in {"FAILED", "TIMEOUT", "CANCELED"}
        /\ jobs' = Transition(jobs, j, Expected(result), result)
        /\ IF Ends(j, result) THEN Goes(th, "PRODUCT", FinalEvent(result))
           ELSE Returns(th)
        /\ lapsed' = IF result = "CANCELED" /\ jobs[j] = "RUNNING"
                     THEN lapsed \cup {j} ELSE lapsed
        /\ UNCHANGED <<commands, products, events, files, pump, monitor, client,
                       process, late, deaths, answers>>

\* The handler raises: _terminalize_worker_protocol_error fails the job.
ApplyRaises(th) ==
    /\ callback[th].stage = "APPLY"
    /\ callback[th].result # "FAILED"
    /\ Call(th, callback[th].job, "FAILED")
    /\ UNCHANGED <<journal, files, pump, monitor, client, process, rest, answers>>

\* fail_product_for_job and the removal of what was published.
DropProduct(th) ==
    /\ callback[th].stage = "PRODUCT"
    /\ products' = FailedProduct(callback[th].job)
    /\ files' = files \ {callback[th].job}
    /\ Goes(th, "SAY", callback[th].say)
    /\ UNCHANGED <<commands, jobs, events, pump, monitor, client, process, rest, answers>>

Say(th) ==
    /\ callback[th].stage = "SAY"
    /\ AppendEvent(callback[th].job, callback[th].say)
    /\ Returns(th)
    /\ UNCHANGED <<commands, jobs, products, files, pump, monitor, client, process,
                   rest, answers>>

HandleResult(th) ==
    \/ ReadJob(th) \/ ApplySuccess(th) \/ ApplyRejected(th) \/ ApplyFailure(th)
    \/ ApplyRaises(th) \/ DropProduct(th) \/ Say(th)

(***************************************************************************)
(* The monitor thread of WorkerProcessClient.                              *)
(***************************************************************************)
MonitorAt(at) == monitor.at = at /\ callback["monitor"].stage = "NONE"
MonitorTo(at) == monitor' = [monitor EXCEPT !.at = at]

\* _dispatch_next; the process may be dead without the client knowing.
Dispatch ==
    /\ MonitorAt("LOOP")
    /\ ready
    /\ active = None
    /\ pending # << >>
    /\ active' = Head(pending)
    /\ pending' = Tail(pending)
    /\ worker' = IF worker.state = "IDLE"
                 THEN [state |-> "RUNNING", job |-> Head(pending)] ELSE worker
    /\ cancelSent' = FALSE
    /\ deadlineSent' = FALSE
    /\ late' = FALSE
    /\ MonitorTo("STARTED")
    /\ UNCHANGED <<journal, files, pump, callback, ready, fault, restarts, control,
                   outgoing, deaths, lapsed, answers>>

\* _handle_worker_started: a job already canceled stays so.
Started ==
    /\ MonitorAt("STARTED")
    /\ jobs' = Transition(jobs, active, {"QUEUED"}, "RUNNING")
    /\ MonitorTo("LOOP")
    /\ UNCHANGED <<commands, products, events, files, pump, callback, client, process,
                   rest, answers>>

\* _handle_heartbeat of a worker that has its model loaded.
Heartbeat ==
    /\ MonitorAt("LOOP")
    /\ ~ready
    /\ worker.state \in {"IDLE", "RUNNING"}
    /\ ready' = TRUE
    /\ fault' = FALSE
    /\ UNCHANGED <<journal, files, pump, monitor, callback, pending, active, cancelSent,
                   deadlineSent, restarts, process, rest, answers>>

\* _handle_result.
TakeResult ==
    /\ MonitorAt("LOOP")
    /\ outgoing # None
    /\ active = outgoing.job
    /\ Call("monitor", outgoing.job, outgoing.result)
    /\ outgoing' = None
    /\ MonitorTo("RESULT")
    /\ UNCHANGED <<journal, files, pump, client, worker, control, rest, answers>>

\* Ownership is kept until the callback has returned.
Release ==
    /\ MonitorAt("RESULT")
    /\ active' = None
    /\ cancelSent' = FALSE
    /\ deadlineSent' = FALSE
    /\ late' = FALSE
    /\ MonitorTo("LOOP")
    /\ UNCHANGED <<journal, files, pump, callback, pending, ready, fault, restarts,
                   process, deaths, lapsed, answers>>

\* _check_deadline, first the worker is asked to stop.
CheckDeadline ==
    /\ MonitorAt("LOOP")
    /\ active # None
    /\ late
    /\ ~deadlineSent
    /\ control' \in {control, control \cup {active}}
    /\ deadlineSent' = TRUE
    /\ UNCHANGED <<journal, files, pump, monitor, callback, pending, active, ready,
                   fault, cancelSent, restarts, worker, outgoing, rest, answers>>

\* Mutant of Abandoned: pending requests are cleared and forgotten.
AbandonedSilently(exhausted) == << >>

\* What _handle_loss fails besides the active request.
Abandoned(exhausted) == IF exhausted THEN pending ELSE << >>

Exhausted(kept) == kept >= MaxRestarts

\* _handle_loss: the process is stopped, and restarted if fewer than
\* max_restarts restarts remain in the window.  Older ones have left it.  The
\* queues of a dead process are no longer of interest.
Lose(result) ==
    \E kept \in 0 .. restarts :
       LET exhausted == Exhausted(kept)
       IN  /\ monitor' = [at |-> "LOSS", todo |-> Abandoned(exhausted),
                          again |-> ~exhausted]
           /\ pending' = IF exhausted THEN << >> ELSE pending
           /\ restarts' = IF exhausted THEN kept ELSE kept + 1
           /\ ready' = FALSE
           /\ cancelSent' = (active = None /\ cancelSent)
           /\ deadlineSent' = (active = None /\ deadlineSent)
           /\ worker' = [state |-> "DEAD", job |-> None]
           /\ control' = {}
           /\ outgoing' = None
           /\ late' = FALSE
           /\ IF active = None THEN UNCHANGED callback
              ELSE Call("monitor", active, result)
           /\ UNCHANGED <<journal, files, pump, active, fault, deaths, lapsed, answers>>

\* The process has died or its heartbeat has stopped.
LoseWorker ==
    /\ MonitorAt("LOOP")
    /\ worker.state = "DEAD"
    /\ Lose("FAILED")

\* The grace time after the deadline is over.
LoseToDeadline ==
    /\ MonitorAt("LOOP")
    /\ active # None
    /\ late
    /\ deadlineSent
    /\ Lose("TIMEOUT")

\* _check_cancel_watchdog.
LoseToCancel ==
    /\ MonitorAt("LOOP")
    /\ active # None
    /\ cancelSent
    /\ Lose("CANCELED")

ReleaseLost ==
    /\ MonitorAt("LOSS")
    /\ active # None
    /\ active' = None
    /\ late' = FALSE
    /\ UNCHANGED <<journal, files, pump, monitor, callback, pending, ready, fault,
                   cancelSent, deadlineSent, restarts, process, deaths, lapsed, answers>>

FailPending ==
    /\ MonitorAt("LOSS")
    /\ active = None
    /\ monitor.todo # << >>
    /\ Call("monitor", Head(monitor.todo), "FAILED")
    /\ monitor' = [monitor EXCEPT !.todo = Tail(@)]
    /\ UNCHANGED <<journal, files, pump, client, process, rest, answers>>

\* _spawn_locked: a new process and new queues.
Spawned ==
    /\ worker' = [state |-> "STARTING", job |-> None]
    /\ control' = {}
    /\ outgoing' = None
    /\ cancelSent' = FALSE
    /\ deadlineSent' = FALSE

\* The client is in FAULT, or it is DEGRADED with a new process.
EndLoss ==
    /\ MonitorAt("LOSS")
    /\ active = None
    /\ monitor.todo = << >>
    /\ fault' = ~monitor.again
    /\ IF monitor.again
       THEN Spawned
       ELSE UNCHANGED <<process, cancelSent, deadlineSent>>
    /\ monitor' = Looping
    /\ UNCHANGED <<journal, files, pump, callback, pending, active, ready, restarts,
                   rest, answers>>

(***************************************************************************)
(* The worker process.                                                     *)
(***************************************************************************)
WorkerBoots ==
    /\ worker.state = "STARTING"
    /\ worker' = [worker EXCEPT !.state = "IDLE"]
    /\ UNCHANGED <<journal, files, pump, monitor, callback, client, control, outgoing,
                   rest, answers>>

\* build_products renames the finished directory into place.
Publish ==
    /\ worker.state = "RUNNING"
    /\ worker.job \notin files
    /\ files' = files \cup {worker.job}
    /\ UNCHANGED <<journal, pump, monitor, callback, client, process, rest, answers>>

\* What _execute_request may end with; a cancel request has the same effect
\* whether the mission or the deadline was its reason, and may come too late.
Possible(result) ==
    CASE result = "SUCCEEDED" -> worker.job \in files
      [] result = "REJECTED"  -> worker.job \notin files
      [] result = "CANCELED"  -> worker.job \in control
      [] result = "TIMEOUT"   -> late
      [] OTHER                -> TRUE

WorkerEnds(result) ==
    /\ worker.state = "RUNNING"
    /\ Possible(result)
    /\ outgoing' = [job |-> worker.job, result |-> result]
    /\ files' = IF result = "SUCCEEDED" THEN files ELSE files \ {worker.job}
    /\ control' = control \ {worker.job}
    /\ worker' = [state |-> "IDLE", job |-> None]
    /\ UNCHANGED <<journal, pump, monitor, callback, client, rest, answers>>

\* The process dies or falls silent.
WorkerDies ==
    /\ worker.state # "DEAD"
    /\ deaths < MaxDeaths
    /\ worker' = [state |-> "DEAD", job |-> None]
    /\ deaths' = deaths + 1
    /\ UNCHANGED <<journal, files, pump, monitor, callback, client, control, outgoing,
                   late, lapsed, answers>>

(***************************************************************************)
(* Time, crashes and restarts.                                             *)
(***************************************************************************)
\* A deadline that passes while its job waits is noticed once the job is active.
DeadlinePasses ==
    /\ active # None
    /\ ~late
    /\ late' = TRUE
    /\ UNCHANGED <<journal, files, pump, monitor, callback, client, process, deaths,
                   lapsed, answers>>

\* Mutant of ReconciledProduct: only jobs and transfers are reconciled.
ReconciledProductKept(state) == state

ReconciledProduct(state) == IF state = "STAGING" THEN "FAILED" ELSE state

\* A crash, reconcile_after_restart, and a new client with a new worker.
Restart ==
    /\ jobs' = [j \in Jobs |-> IF jobs[j] \in Live THEN "FAILED" ELSE jobs[j]]
    /\ products' = [j \in Jobs |-> ReconciledProduct(products[j])]
    /\ pump' = Idle
    /\ monitor' = Looping
    /\ callback' = [th \in Threads |-> NoCallback]
    /\ pending' = << >>
    /\ active' = None
    /\ ready' = TRUE
    /\ fault' = FALSE
    /\ cancelSent' = FALSE
    /\ deadlineSent' = FALSE
    /\ restarts' = 0
    /\ worker' = [state |-> "IDLE", job |-> None]
    /\ control' = {}
    /\ outgoing' = None
    /\ late' = FALSE
    /\ UNCHANGED <<commands, events, files, deaths, lapsed, answers>>

\* A repeated command for another spacecraft breaks the journal's primary key.
\* handle_command does not catch that, so the service ends and is started anew.
RepeatForeign(k) ==
    /\ PumpAt("IDLE")
    /\ commands[k] # "ABSENT"
    /\ Restart

HandleCommand ==
    \/ Submit \/ RefuseJob \/ RefuseProduct \/ RefuseCommand
    \/ MarkCancel \/ AskWorker \/ RecordCancel

Monitor ==
    \/ Dispatch \/ Started \/ Heartbeat \/ TakeResult \/ Release
    \/ CheckDeadline \/ LoseWorker \/ LoseToDeadline \/ LoseToCancel
    \/ ReleaseLost \/ FailPending \/ EndLoss

Next ==
    \/ \E k \in Keys : Duplicate(k)
    \/ \E j \in Jobs : AdmitAnalysis(j) \/ RejectAnalysis(j)
    \/ \E c \in Cancels : ReceiveCancel(c)
    \/ \E k \in Foreigns : ReceiveForeign(k) \/ RepeatForeign(k)
    \/ HandleCommand
    \/ \E th \in Threads : HandleResult(th)
    \/ Monitor
    \/ WorkerBoots \/ Publish \/ WorkerDies \/ DeadlinePasses
    \/ \E result \in Results : WorkerEnds(result)
    \/ Restart

Spec == Init /\ [][Next]_vars

\* Both threads run; time passes; a process that was started loads its model
\* (the client has no timeout for a restarted one).  The worker itself may
\* never finish.
FairSpec ==
    /\ Spec
    /\ WF_vars(HandleCommand)
    /\ \A th \in Threads : WF_vars(HandleResult(th))
    /\ WF_vars(Monitor)
    /\ WF_vars(WorkerBoots)
    /\ WF_vars(DeadlinePasses)

(***************************************************************************)
(* Properties.                                                             *)
(***************************************************************************)
\* A product that may be downlinked belongs to a job that succeeded and is on
\* disk; and once nobody works on a finished job its product is settled too,
\* although the journal commits the two separately on every failing path.
Handling(j) ==
    \/ \E th \in Threads : callback[th].stage # "NONE" /\ callback[th].job = j
    \/ pump.key = j
ProductMatchesJob ==
    \A j \in Jobs :
       /\ products[j] = "READY" => jobs[j] = "SUCCEEDED" /\ j \in files
       /\ jobs[j] \in Terminal /\ ~Handling(j) => products[j] \in {"READY", "FAILED"}

\* A job gets one terminal state: no late result, cancel or restart changes it.
FinalState ==
    \A j \in Jobs : jobs[j] \in Terminal => jobs'[j] = jobs[j]
OneTerminalState == [][FinalState]_vars

\* The ground hears at most one end of a job, and it is what the journal holds.
EventsAreTrue ==
    \A j \in Jobs :
       /\ Cardinality(events[j]) <= 1
       /\ "JOB_COMPLETED" \in events[j] =>
             jobs[j] = "SUCCEEDED" /\ products[j] = "READY"
       /\ "SCIENCE_DECISION_REJECTED" \in events[j] =>
             jobs[j] = "SUCCEEDED" /\ products[j] = "FAILED"
       /\ events[j] \cap {"JOB_FAILED", "ADMISSION_REFUSED"} # {} => jobs[j] = "FAILED"
       /\ "JOB_TIMEOUT" \in events[j] => jobs[j] = "TIMEOUT"
       /\ "JOB_CANCELED" \in events[j] => jobs[j] = "CANCELED"

\* The ground repeats commands until it is answered: a command that was
\* answered gets the same answer for ever, through refusals and crashes.
SameAnswerAgain ==
    \A k \in Keys : answers[k] # None => answers'[k] = answers[k]
AnswersAreStable == [][SameAnswerAgain]_vars

\* Every admitted job ends, whatever the worker does, apart from the jobs that
\* were stopped for their deadline and reported as canceled.
JobsEnd == \A j \in Jobs : jobs[j] \in Live ~> jobs[j] \in Terminal \/ j \in lapsed

\* What the remediation plan requires: worker loss, deadline and cancel races
\* all produce a terminal job state.
EveryJobEnds == \A j \in Jobs : jobs[j] \in Live ~> jobs[j] \in Terminal
=============================================================================
