----------------------- MODULE SatellitePayloadProofs -----------------------
(***************************************************************************)
(* What SatellitePayload guarantees for every number of jobs, cancels,     *)
(* foreign commands, pending places and restarts: its types, that a job's  *)
(* end is final, that a command's answer never changes, and, since every   *)
(* job in work has one owner, that its product and its events are true.    *)
(***************************************************************************)
EXTENDS SatellitePayload, SequenceTheorems, FiniteSetTheorems, TLAPS

(***************************************************************************)
(* The inductive invariant, in three parts that each concern few variables.*)
(***************************************************************************)
Admitting == {"SUBMIT", "REFUSED", "REFUSED_JOB", "REFUSED_PRODUCT"}
Canceling == {"MARK", "ASK", "RECORD"}

\* The pump works on a command nobody was told of yet: an analysis it has
\* admitted, or a cancel it has not recorded.
PumpOK ==
    /\ pump.at \in Admitting =>
          /\ pump.key \in Jobs
          /\ commands[pump.key] = "DISPATCHED"
          /\ answers[pump.key] = None
    /\ pump.at \in Canceling =>
          /\ pump.key \in Cancels
          /\ answers[pump.key] = None

\* Jobs belong to recorded commands, and answers are what was recorded.
CommandsOK ==
    /\ commands \in [Keys -> Stages \cup {"ABSENT"}]
    /\ jobs \in [Jobs -> Live \cup Terminal \cup {"ABSENT"}]
    /\ answers \in [Keys -> Stages \cup {None}]
    /\ pump \in PumpState
    /\ PumpOK
    /\ \A j \in Jobs : jobs[j] # "ABSENT" => commands[j] # "ABSENT"
    /\ \A k \in Keys : answers[k] # None => answers[k] = commands[k]

DataOK ==
    /\ products \in [Jobs -> {"ABSENT", "STAGING", "READY", "FAILED"}]
    /\ events \in [Jobs -> SUBSET EventNames]
    /\ files \subseteq Jobs
    /\ lapsed \subseteq Jobs

\* Whoever handles a result, or starts a job, has one; so has a worker at work.
ThreadsOK ==
    /\ monitor \in MonitorState
    /\ callback \in [Threads -> Callback]
    /\ \A th \in Threads : callback[th].stage # "NONE" => callback[th].job \in Jobs
    /\ active \in Jobs \cup {None}
    /\ monitor.at = "STARTED" => active \in Jobs

ClientOK ==
    /\ pending \in Seq(Jobs)
    /\ Len(pending) <= MaxPending + 1
    /\ ready \in BOOLEAN /\ fault \in BOOLEAN
    /\ cancelSent \in BOOLEAN /\ deadlineSent \in BOOLEAN
    /\ restarts \in 0 .. MaxRestarts
    /\ worker \in WorkerState
    /\ worker.state = "RUNNING" => worker.job \in Jobs
    /\ control \subseteq Jobs
    /\ outgoing \in Message \cup {None}
    /\ late \in BOOLEAN
    /\ deaths \in 0 .. MaxDeaths

IndInv == CommandsOK /\ DataOK /\ ThreadsOK /\ ClientOK

LEMMA IndInvIsTyped == IndInv => TypeOK
BY DEF IndInv, CommandsOK, DataOK, ThreadsOK, ClientOK, TypeOK

LEMMA InitOK == Init => IndInv
<1>1. Init => CommandsOK
  BY RequestAssumption DEF Init, CommandsOK, PumpOK, Admitting, Canceling, PumpState,
     Idle, Keys, Stages, Live, Terminal
<1>2. Init => DataOK
  BY DEF Init, DataOK
<1>3. Init => ThreadsOK
  BY DEF Init, ThreadsOK, Looping, NoCallback, MonitorState, Callback, Results, EventNames
<1>4. Init => ClientOK
  <2>1. << >> \in Seq(Jobs) /\ Len(<< >>) <= MaxPending + 1
    BY PolicyAssumption
  <2>2. Init => worker \in WorkerState /\ worker.state # "RUNNING"
    BY DEF Init, WorkerState
  <2>3. 0 \in 0 .. MaxRestarts /\ 0 \in 0 .. MaxDeaths
    BY PolicyAssumption
  <2>4. Init => pending = << >> /\ restarts = 0 /\ deaths = 0
    BY DEF Init
  <2>5. Init => /\ ready \in BOOLEAN /\ fault \in BOOLEAN
                /\ cancelSent \in BOOLEAN /\ deadlineSent \in BOOLEAN
                /\ control \subseteq Jobs /\ outgoing \in Message \cup {None}
                /\ late \in BOOLEAN
    BY DEF Init
  <2>. QED BY <2>1, <2>2, <2>3, <2>4, <2>5, Zenon DEF ClientOK
<1>. QED BY <1>1, <1>2, <1>3, <1>4 DEF IndInv

\* What one step must keep of commands, jobs and answers.
CommandStep == CommandsOK' /\ FinalState /\ SameAnswerAgain

LEMMA CommandStutter ==
    ASSUME CommandsOK, UNCHANGED <<commands, jobs, answers, pump>>
    PROVE  CommandStep
BY DEF CommandStep, CommandsOK, PumpOK, FinalState, SameAnswerAgain

LEMMA DataStutter ==
    ASSUME DataOK, UNCHANGED <<products, events, files, lapsed>>
    PROVE  DataOK'
BY DEF DataOK

LEMMA ThreadsStutter ==
    ASSUME ThreadsOK, UNCHANGED <<monitor, callback, active>>
    PROVE  ThreadsOK'
BY DEF ThreadsOK

LEMMA ClientStutter ==
    ASSUME ClientOK, UNCHANGED <<pending, ready, fault, cancelSent, deadlineSent,
                                 restarts, worker, control, outgoing, late, deaths>>
    PROVE  ClientOK'
BY DEF ClientOK

(***************************************************************************)
(* The pump thread.                                                        *)
(***************************************************************************)
LEMMA TransitionOK ==
    ASSUME NEW j \in Jobs, NEW expected, NEW state \in Live \cup Terminal,
           expected \subseteq Live, CommandsOK,
           jobs' = Transition(jobs, j, expected, state)
    PROVE  /\ jobs' \in [Jobs -> Live \cup Terminal \cup {"ABSENT"}]
           /\ FinalState
           /\ \A i \in Jobs : jobs'[i] # "ABSENT" => commands[i] # "ABSENT"
BY DEF CommandsOK, Transition, FinalState, Live, Terminal

\* A step that only moves a job, within the pump's work or outside it.
LEMMA JobMoves ==
    ASSUME NEW j \in Jobs, NEW expected, NEW state \in Live \cup Terminal,
           expected \subseteq Live, CommandsOK,
           jobs' = Transition(jobs, j, expected, state),
           UNCHANGED <<commands, answers, pump>>
    PROVE  CommandStep
<1>1. /\ jobs' \in [Jobs -> Live \cup Terminal \cup {"ABSENT"}]
      /\ FinalState
      /\ \A i \in Jobs : jobs'[i] # "ABSENT" => commands[i] # "ABSENT"
  BY TransitionOK
<1>. QED BY <1>1 DEF CommandStep, CommandsOK, PumpOK, SameAnswerAgain

LEMMA DuplicateStep ==
    ASSUME IndInv, NEW k \in Keys, Duplicate(k)
    PROVE  CommandStep
<1>. USE DEF IndInv
<1>1. PumpAt("IDLE") /\ commands[k] # "ABSENT" /\ Answer(k, commands[k])
      /\ UNCHANGED <<commands, jobs, pump>>
  BY DEF Duplicate, journal
<1>2. answers' \in [Keys -> Stages \cup {None}]
  BY <1>1 DEF CommandsOK, Answer
<1>3. \A x \in Keys : answers'[x] # None => answers'[x] = commands[x]
  BY <1>1 DEF CommandsOK, Answer
<1>4. SameAnswerAgain
  BY <1>1 DEF CommandsOK, Answer, SameAnswerAgain
<1>5. PumpOK'
  BY <1>1 DEF PumpAt, PumpOK, Admitting, Canceling
<1>. QED BY <1>1, <1>2, <1>3, <1>4, <1>5 DEF CommandStep, CommandsOK, FinalState

\* Storing a first result and answering with it, while the pump is idle.
LEMMA FirstAnswer ==
    ASSUME CommandsOK, NEW k \in Keys, NEW stage \in Stages, FreeFor(k),
           Store(k, stage), Answer(k, stage), UNCHANGED <<jobs, pump>>
    PROVE  CommandStep
<1>1. commands[k] = "ABSENT" /\ pump.at = "IDLE"
  BY DEF FreeFor, PumpAt
<1>2. answers[k] = None
  BY <1>1 DEF CommandsOK, Stages
<1>3. commands' \in [Keys -> Stages \cup {"ABSENT"}] /\ answers' \in [Keys -> Stages \cup {None}]
  BY DEF CommandsOK, Store, Answer
<1>4. \A j \in Jobs : jobs'[j] # "ABSENT" => commands'[j] # "ABSENT"
  BY DEF CommandsOK, Store, Stages, Keys
<1>5. \A x \in Keys : answers'[x] # None => answers'[x] = commands'[x]
  BY DEF CommandsOK, Store, Answer
<1>6. SameAnswerAgain
  BY <1>2 DEF CommandsOK, Answer, SameAnswerAgain
<1>7. PumpOK'
  BY <1>1 DEF PumpOK, Admitting, Canceling
<1>. QED BY <1>3, <1>4, <1>5, <1>6, <1>7 DEF CommandStep, CommandsOK, FinalState

LEMMA AdmitStep ==
    ASSUME IndInv, NEW j \in Jobs, AdmitAnalysis(j)
    PROVE  CommandStep
<1>. USE DEF IndInv
<1>1. /\ commands[j] = "ABSENT" /\ pump.at = "IDLE" /\ j \in Keys
      /\ Store(j, "DISPATCHED") /\ jobs' = [jobs EXCEPT ![j] = "QUEUED"]
      /\ pump' = [at |-> "SUBMIT", key |-> j] /\ UNCHANGED answers
  BY DEF AdmitAnalysis, FreeFor, PumpAt, Keys
<1>2. answers[j] = None /\ jobs[j] = "ABSENT"
  BY <1>1 DEF CommandsOK, Stages
<1>3. commands' \in [Keys -> Stages \cup {"ABSENT"}]
  BY <1>1 DEF CommandsOK, Store, Stages
<1>4. jobs' \in [Jobs -> Live \cup Terminal \cup {"ABSENT"}] /\ FinalState
  BY <1>1, <1>2 DEF CommandsOK, Live, Terminal, FinalState
<1>5. \A x \in Jobs : jobs'[x] # "ABSENT" => commands'[x] # "ABSENT"
  BY <1>1 DEF CommandsOK, Store, Keys
<1>6. \A x \in Keys : answers'[x] # None => answers'[x] = commands'[x]
  BY <1>1, <1>2 DEF CommandsOK, Store
<1>7. pump' \in PumpState /\ PumpOK'
  BY <1>1, <1>2 DEF CommandsOK, PumpState, PumpOK, Store, Admitting, Canceling, Keys
<1>. QED BY <1>1, <1>3, <1>4, <1>5, <1>6, <1>7 DEF CommandStep, CommandsOK, SameAnswerAgain

\* The pump ends its work by an answer that is the stored result.
LEMMA LastAnswer ==
    ASSUME CommandsOK, pump.at \in Admitting \cup Canceling, NEW stage \in Stages,
           Answer(pump.key, stage), pump' = Idle, UNCHANGED jobs,
           \/ Store(pump.key, stage)
           \/ UNCHANGED commands /\ commands[pump.key] = stage
    PROVE  CommandStep
<1>1. pump.key \in Keys /\ answers[pump.key] = None
  BY DEF CommandsOK, PumpOK, Keys
<1>2. commands' \in [Keys -> Stages \cup {"ABSENT"}] /\ answers' \in [Keys -> Stages \cup {None}]
  BY <1>1 DEF CommandsOK, Store, Answer
<1>3. \A j \in Jobs : jobs'[j] # "ABSENT" => commands'[j] # "ABSENT"
  BY <1>1 DEF CommandsOK, Store, Stages, Keys
<1>4. \A x \in Keys : answers'[x] # None => answers'[x] = commands'[x]
  BY <1>1 DEF CommandsOK, Store, Answer
<1>5. SameAnswerAgain
  BY <1>1 DEF CommandsOK, Answer, SameAnswerAgain
<1>6. pump' \in PumpState /\ PumpOK'
  BY DEF Idle, PumpState, PumpOK, Admitting, Canceling
<1>. QED BY <1>2, <1>3, <1>4, <1>5, <1>6 DEF CommandStep, CommandsOK, FinalState

\* The pump goes on to its next commit on the same command.
LEMMA PumpMoves ==
    ASSUME CommandsOK, NEW at,
           \/ pump.at \in Admitting /\ at \in Admitting
           \/ pump.at \in Canceling /\ at \in Canceling,
           PumpTo(at), UNCHANGED <<commands, answers>>
    PROVE  /\ pump' \in PumpState
           /\ PumpOK'
<1>1. pump' \in PumpState
  BY DEF CommandsOK, PumpState, PumpTo, Admitting, Canceling
<1>2. pump'.at = at /\ pump'.key = pump.key
  BY DEF CommandsOK, PumpState, PumpTo
<1>. QED BY <1>1, <1>2 DEF CommandsOK, PumpOK, Admitting, Canceling

LEMMA SubmitStep ==
    ASSUME IndInv, Submit
    PROVE  CommandStep
<1>. USE DEF IndInv
<1>1. pump.at = "SUBMIT" /\ pump.at \in Admitting /\ UNCHANGED <<commands, jobs>>
  BY DEF Submit, PumpAt, Admitting, journal
<1>2. CASE Answer(pump.key, "DISPATCHED") /\ pump' = Idle
  BY <1>1, <1>2, LastAnswer DEF CommandsOK, PumpOK, Stages
<1>3. CASE PumpTo("REFUSED") /\ UNCHANGED answers
  <2>1. "REFUSED" \in Admitting
    BY DEF Admitting
  <2>2. pump' \in PumpState /\ PumpOK'
    BY <1>1, <1>3, <2>1, PumpMoves
  <2>. QED BY <1>1, <1>3, <2>2 DEF CommandStep, CommandsOK, FinalState, SameAnswerAgain
<1>. QED BY <1>2, <1>3 DEF Submit

LEMMA RefuseStep ==
    ASSUME IndInv, RefuseJob \/ RefuseProduct \/ RefuseCommand
    PROVE  CommandStep
<1>. USE DEF IndInv
<1>1. CASE RefuseJob
  <2>1. pump.at \in Admitting /\ "REFUSED_JOB" \in Admitting
    BY <1>1 DEF RefuseJob, PumpAt, Admitting
  <2>2. pump' \in PumpState /\ PumpOK'
    BY <1>1, <2>1, PumpMoves DEF RefuseJob
  <2>3. pump.key \in Jobs
    BY <2>1 DEF CommandsOK, PumpOK
  <2>4. "FAILED" \in Live \cup Terminal /\ {"QUEUED"} \subseteq Live
    BY DEF Live, Terminal
  <2>5. /\ jobs' \in [Jobs -> Live \cup Terminal \cup {"ABSENT"}]
        /\ FinalState
        /\ \A i \in Jobs : jobs'[i] # "ABSENT" => commands[i] # "ABSENT"
    BY <1>1, <2>3, <2>4, TransitionOK DEF RefuseJob
  <2>. QED BY <1>1, <2>2, <2>5 DEF RefuseJob, CommandStep, CommandsOK, SameAnswerAgain
<1>2. CASE RefuseProduct
  <2>1. pump.at \in Admitting /\ "REFUSED_PRODUCT" \in Admitting
    BY <1>2 DEF RefuseProduct, PumpAt, Admitting
  <2>2. pump' \in PumpState /\ PumpOK'
    BY <1>2, <2>1, PumpMoves DEF RefuseProduct
  <2>. QED BY <1>2, <2>2 DEF RefuseProduct, CommandStep, CommandsOK, FinalState, SameAnswerAgain
<1>3. CASE RefuseCommand
  <2>1. pump.at \in Admitting
    BY <1>3 DEF RefuseCommand, PumpAt, Admitting
  <2>2. "COMMAND_REJECTED" \in Stages
    BY DEF Stages
  <2>. QED BY <1>3, <2>1, <2>2, LastAnswer DEF RefuseCommand, RefusedStage
<1>. QED BY <1>1, <1>2, <1>3

LEMMA CancelStep ==
    ASSUME IndInv, MarkCancel \/ AskWorker \/ RecordCancel
    PROVE  CommandStep
<1>. USE DEF IndInv
<1>1. CASE MarkCancel
  <2>1. pump.at \in Canceling /\ "ASK" \in Canceling
    BY <1>1 DEF MarkCancel, PumpAt, Canceling
  <2>2. pump' \in PumpState /\ PumpOK'
    BY <1>1, <2>1, PumpMoves DEF MarkCancel
  <2>3. TargetOf[pump.key] \in Jobs
    BY <2>1, RequestAssumption DEF CommandsOK, PumpOK
  <2>4. "CANCEL_REQUESTED" \in Live \cup Terminal /\ {"QUEUED", "RUNNING"} \subseteq Live
    BY DEF Live, Terminal
  <2>5. /\ jobs' \in [Jobs -> Live \cup Terminal \cup {"ABSENT"}]
        /\ FinalState
        /\ \A i \in Jobs : jobs'[i] # "ABSENT" => commands[i] # "ABSENT"
    BY <1>1, <2>3, <2>4, TransitionOK DEF MarkCancel
  <2>. QED BY <1>1, <2>2, <2>5 DEF MarkCancel, CommandStep, CommandsOK, SameAnswerAgain
<1>2. CASE AskWorker
  <2>1. /\ pump.at \in Canceling /\ "RECORD" \in Canceling
        /\ PumpTo("RECORD") /\ UNCHANGED <<commands, jobs, answers>>
    BY <1>2 DEF AskWorker, PumpAt, Canceling, journal
  <2>2. pump' \in PumpState /\ PumpOK'
    BY <2>1, PumpMoves
  <2>. QED BY <2>1, <2>2 DEF CommandStep, CommandsOK, FinalState, SameAnswerAgain
<1>3. CASE RecordCancel
  <2>1. pump.at \in Canceling /\ "EXECUTED" \in Stages
    BY <1>3 DEF RecordCancel, PumpAt, Canceling, Stages
  <2>. QED BY <1>3, <2>1, LastAnswer DEF RecordCancel
<1>. QED BY <1>1, <1>2, <1>3

LEMMA ReceiveStep ==
    ASSUME IndInv, NEW c \in Cancels, ReceiveCancel(c)
    PROVE  CommandStep
<1>. USE DEF IndInv
<1>. DEFINE state == jobs[TargetOf[c]]
            stage == IF state = "ABSENT" THEN "COMMAND_REJECTED" ELSE "EXECUTED"
<1>1. c \in Keys /\ FreeFor(c) /\ UNCHANGED jobs /\ stage \in Stages
  BY DEF ReceiveCancel, Keys, Stages
<1>2. CASE pump' = [at |-> "MARK", key |-> c] /\ UNCHANGED <<commands, answers>>
  <2>1. answers[c] = None
    BY <1>1 DEF FreeFor, CommandsOK, Stages
  <2>2. pump' \in PumpState /\ PumpOK'
    BY <1>1, <1>2, <2>1 DEF PumpState, PumpOK, Admitting, Canceling
  <2>. QED BY <1>1, <1>2, <2>2 DEF CommandStep, CommandsOK, FinalState, SameAnswerAgain
<1>3. CASE Store(c, stage) /\ Answer(c, stage) /\ UNCHANGED pump
  <2>. HIDE DEF stage
  <2>. QED BY <1>1, <1>3, FirstAnswer
<1>. QED BY <1>2, <1>3 DEF ReceiveCancel

(***************************************************************************)
(* Results, on either thread.                                              *)
(***************************************************************************)
LEMMA ResultStep ==
    ASSUME IndInv, NEW th \in Threads, HandleResult(th)
    PROVE  CommandStep
<1>. USE DEF IndInv
<1>. DEFINE j == callback[th].job
<1>1. callback[th].stage # "NONE" /\ j \in Jobs /\ UNCHANGED <<commands, answers, pump>>
  BY DEF HandleResult, ReadJob, ApplySuccess, ApplyRejected, ApplyFailure, ApplyRaises,
     DropProduct, Say, ThreadsOK, journal
<1>2. CASE UNCHANGED jobs
  BY <1>1, <1>2, CommandStutter
<1>3. CASE ApplySuccess(th) /\ jobs[j] \in {"RUNNING", "CANCEL_REQUESTED"}
  <2>1. jobs' = Transition(jobs, j, {"RUNNING", "CANCEL_REQUESTED"}, "SUCCEEDED")
    BY <1>3 DEF ApplySuccess, CompleteJob, Transition
  <2>2. "SUCCEEDED" \in Live \cup Terminal /\ {"RUNNING", "CANCEL_REQUESTED"} \subseteq Live
    BY DEF Live, Terminal
  <2>. QED BY <1>1, <2>1, <2>2, JobMoves
<1>4. CASE ApplyRejected(th)
  <2>1. jobs' = Transition(jobs, j, {"RUNNING", "CANCEL_REQUESTED"}, "SUCCEEDED")
    BY <1>4 DEF ApplyRejected
  <2>2. "SUCCEEDED" \in Live \cup Terminal /\ {"RUNNING", "CANCEL_REQUESTED"} \subseteq Live
    BY DEF Live, Terminal
  <2>. QED BY <1>1, <2>1, <2>2, JobMoves
<1>5. CASE ApplyFailure(th)
  <2>. DEFINE result == callback[th].result
  <2>1. jobs' = Transition(jobs, j, Expected(result), result)
    BY <1>5 DEF ApplyFailure
  <2>2. result \in Live \cup Terminal /\ Expected(result) \subseteq Live
    BY <1>5 DEF ApplyFailure, Expected, Live, Terminal
  <2>. HIDE DEF result
  <2>. QED BY <1>1, <2>1, <2>2, JobMoves
<1>. QED
  BY <1>2, <1>3, <1>4, <1>5
  DEF HandleResult, ReadJob, ApplySuccess, ApplyRaises, DropProduct, Say, journal

\* The types of what the handlers write: products, events and files.
LEMMA ResultData ==
    ASSUME IndInv, NEW th \in Threads, HandleResult(th)
    PROVE  DataOK'
<1>. USE DEF IndInv
<1>. DEFINE j == callback[th].job
<1>1. /\ callback[th].stage # "NONE" /\ j \in Jobs
      /\ callback[th] \in Callback /\ callback[th].say \in EventNames
  BY DEF HandleResult, ReadJob, ApplySuccess, ApplyRejected, ApplyFailure, ApplyRaises,
     DropProduct, Say, ThreadsOK, Callback
<1>2. CASE ReadJob(th) \/ ApplyRaises(th) \/ ApplyRejected(th)
  BY <1>2 DEF ReadJob, ApplyRaises, ApplyRejected, DataOK, journal, rest
<1>3. CASE ApplySuccess(th)
  BY <1>1, <1>3 DEF ApplySuccess, CompleteJob, DataOK, rest
<1>4. CASE ApplyFailure(th)
  BY <1>1, <1>4 DEF ApplyFailure, DataOK
<1>5. CASE DropProduct(th)
  BY <1>1, <1>5 DEF DropProduct, FailedProduct, DataOK, rest
<1>6. CASE Say(th)
  <2>. DEFINE name == callback[th].say
  <2>1. events' = [events EXCEPT ![j] = @ \cup {name}] /\ name \in EventNames
    BY <1>1, <1>6 DEF Say, AppendEvent
  <2>. HIDE DEF j, name
  <2>2. events' \in [Jobs -> SUBSET EventNames]
    BY <1>1, <2>1 DEF DataOK
  <2>. QED BY <1>6, <2>2 DEF Say, DataOK, rest
<1>. QED BY <1>2, <1>3, <1>4, <1>5, <1>6 DEF HandleResult

\* A callback is entered with a job and left without one.
LEMMA CallOK ==
    ASSUME ThreadsOK, NEW th \in Threads, NEW j \in Jobs, NEW result \in Results,
           Call(th, j, result)
    PROVE  /\ callback' \in [Threads -> Callback]
           /\ \A x \in Threads : callback'[x].stage # "NONE" => callback'[x].job \in Jobs
<1>. DEFINE new == [stage |-> "READ", job |-> j, result |-> result, say |-> "JOB_FAILED"]
<1>1. new \in Callback /\ new.job \in Jobs
  BY DEF Callback, EventNames
<1>2. callback' = [callback EXCEPT ![th] = new]
  BY DEF Call
<1>. HIDE DEF new
<1>. QED BY <1>1, <1>2 DEF ThreadsOK

LEMMA ResultThreads ==
    ASSUME IndInv, NEW th \in Threads, HandleResult(th)
    PROVE  ThreadsOK'
<1>. USE DEF IndInv
<1>. DEFINE j == callback[th].job
<1>1. /\ callback[th].stage # "NONE" /\ j \in Jobs /\ UNCHANGED <<monitor, active>>
      /\ callback[th] \in Callback
  BY DEF HandleResult, ReadJob, ApplySuccess, ApplyRejected, ApplyFailure, ApplyRaises,
     DropProduct, Say, ThreadsOK, client
<1>2. CASE Returns(th)
  <2>1. NoCallback \in Callback /\ NoCallback.stage = "NONE"
    BY DEF NoCallback, Callback, Results, EventNames
  <2>. QED BY <1>1, <1>2, <2>1 DEF Returns, ThreadsOK
<1>3. ASSUME NEW stage \in {"APPLY", "PRODUCT", "SAY"}, NEW name \in EventNames,
             Goes(th, stage, name)
      PROVE  ThreadsOK'
  <2>. DEFINE new == [callback[th] EXCEPT !.stage = stage, !.say = name]
  <2>1. new \in Callback /\ new.job \in Jobs
    BY <1>1, <1>3 DEF Callback
  <2>2. callback' = [callback EXCEPT ![th] = new]
    BY <1>3 DEF Goes, ThreadsOK
  <2>. HIDE DEF new
  <2>. QED BY <1>1, <2>1, <2>2 DEF ThreadsOK
<1>4. CASE ApplyRaises(th)
  <2>1. "FAILED" \in Results
    BY DEF Results
  <2>. QED BY <1>1, <1>4, <2>1, CallOK DEF ApplyRaises, ThreadsOK
<1>5. "JOB_FAILED" \in EventNames /\ "JOB_COMPLETED" \in EventNames
      /\ "SCIENCE_DECISION_REJECTED" \in EventNames
      /\ callback[th].say \in EventNames /\ FinalEvent(callback[th].result) \in EventNames
  BY <1>1 DEF EventNames, FinalEvent, Callback
<1>. QED
  BY <1>2, <1>3, <1>4, <1>5
  DEF HandleResult, ReadJob, ApplySuccess, ApplyRejected, ApplyFailure, DropProduct, Say

LEMMA ResultOK ==
    ASSUME IndInv, NEW th \in Threads, HandleResult(th)
    PROVE  IndInv' /\ CommandStep
<1>1. UNCHANGED <<pending, ready, fault, cancelSent, deadlineSent,
                  restarts, worker, control, outgoing, late, deaths>>
  BY DEF HandleResult, ReadJob, ApplySuccess, ApplyRejected, ApplyFailure, ApplyRaises,
     DropProduct, Say, client, process, rest
<1>2. ClientOK'
  BY <1>1, ClientStutter DEF IndInv
<1>. QED BY <1>2, ResultStep, ResultData, ResultThreads DEF IndInv, CommandStep

(***************************************************************************)
(* The monitor thread.                                                     *)
(***************************************************************************)
LEMMA MonitorData ==
    ASSUME IndInv, Monitor
    PROVE  CommandStep /\ DataOK'
<1>. USE DEF IndInv
<1>1. UNCHANGED <<products, events, files, lapsed, commands, answers, pump>>
  BY DEF Monitor, Dispatch, Started, Heartbeat, TakeResult, Release, CheckDeadline,
     LoseWorker, LoseToDeadline, LoseToCancel, Lose, ReleaseLost, FailPending, EndLoss,
     journal, rest
<1>2. CASE Started
  <2>1. active \in Jobs
    BY <1>2 DEF Started, MonitorAt, ThreadsOK
  <2>2. "RUNNING" \in Live \cup Terminal /\ {"QUEUED"} \subseteq Live
    BY DEF Live, Terminal
  <2>3. CommandStep
    BY <1>1, <1>2, <2>1, <2>2, JobMoves DEF Started
  <2>. QED BY <1>1, <2>3, DataStutter
<1>3. CASE UNCHANGED jobs
  BY <1>1, <1>3, CommandStutter, DataStutter
<1>. QED
  BY <1>2, <1>3 DEF Monitor, Dispatch, Heartbeat, TakeResult, Release, CheckDeadline,
     LoseWorker, LoseToDeadline, LoseToCancel, Lose, ReleaseLost, FailPending, EndLoss,
     journal

LEMMA LoseOK ==
    ASSUME IndInv, NEW result \in Results, Lose(result)
    PROVE  ThreadsOK' /\ ClientOK'
<1>. USE DEF IndInv
<1>1. PICK kept \in 0 .. restarts :
         LET exhausted == Exhausted(kept)
         IN  /\ monitor' = [at |-> "LOSS", todo |-> Abandoned(exhausted),
                            again |-> ~exhausted]
             /\ pending' = IF exhausted THEN << >> ELSE pending
             /\ restarts' = IF exhausted THEN kept ELSE kept + 1
  BY DEF Lose
<1>2. /\ ready' = FALSE /\ UNCHANGED <<active, fault, deaths>>
      /\ cancelSent' = (active = None /\ cancelSent)
      /\ deadlineSent' = (active = None /\ deadlineSent)
      /\ worker' = [state |-> "DEAD", job |-> None]
      /\ control' = {} /\ outgoing' = None /\ late' = FALSE
      /\ IF active = None THEN UNCHANGED callback ELSE Call("monitor", active, result)
  BY DEF Lose
<1>. DEFINE exhausted == Exhausted(kept)
<1>3. exhausted \in BOOLEAN
  BY DEF Exhausted
<1>4. monitor' \in MonitorState /\ monitor'.at = "LOSS"
  <2>1. Abandoned(exhausted) \in Seq(Jobs)
    BY DEF Abandoned, ClientOK
  <2>. DEFINE todo == Abandoned(exhausted)
              again == ~exhausted
  <2>2. again \in BOOLEAN
    BY <1>3, Zenon
  <2>3. monitor' = [at |-> "LOSS", todo |-> todo, again |-> again]
    BY <1>1
  <2>4. todo \in Seq(Jobs)
    BY <2>1
  <2>. HIDE DEF todo, again
  <2>. QED BY <2>2, <2>3, <2>4 DEF MonitorState
<1>5. restarts' \in 0 .. MaxRestarts
  BY <1>1, PolicyAssumption DEF ClientOK, Exhausted
<1>6. pending' \in Seq(Jobs) /\ Len(pending') <= MaxPending + 1
  BY <1>1, PolicyAssumption DEF ClientOK
<1>7. ThreadsOK'
  <2>1. CASE active = None
    BY <1>2, <1>4, <2>1 DEF ThreadsOK
  <2>2. CASE active # None
    <3>1. active \in Jobs /\ "monitor" \in Threads
      BY <2>2 DEF ThreadsOK, Threads
    <3>. QED BY <1>2, <1>4, <2>2, <3>1, CallOK DEF ThreadsOK
  <2>. QED BY <2>1, <2>2
<1>8. worker' \in WorkerState /\ worker'.state # "RUNNING"
  BY <1>2 DEF WorkerState
<1>9. /\ ready' \in BOOLEAN /\ fault' \in BOOLEAN /\ late' \in BOOLEAN
      /\ cancelSent' \in BOOLEAN /\ deadlineSent' \in BOOLEAN
  BY <1>2, Zenon DEF ClientOK
<1>10. control' \subseteq Jobs /\ outgoing' \in Message \cup {None} /\ deaths' \in 0 .. MaxDeaths
  BY <1>2 DEF ClientOK
<1>11. ClientOK'
  BY <1>5, <1>6, <1>8, <1>9, <1>10 DEF ClientOK
<1>. QED BY <1>7, <1>11

LEMMA MonitorMoves ==
    ASSUME ThreadsOK, NEW at \in {"LOOP", "STARTED", "RESULT", "LOSS"}, MonitorTo(at)
    PROVE  monitor' \in MonitorState /\ monitor'.at = at
BY DEF ThreadsOK, MonitorState, MonitorTo

LEMMA MonitorThreads ==
    ASSUME IndInv, Monitor
    PROVE  ThreadsOK'
<1>. USE DEF IndInv
<1>1. CASE Dispatch
  <2>1. active' \in Jobs /\ MonitorTo("STARTED") /\ UNCHANGED callback
    BY <1>1, HeadTailProperties DEF Dispatch, ClientOK
  <2>. QED BY <2>1, MonitorMoves DEF ThreadsOK
<1>2. CASE Started
  BY <1>2, MonitorMoves DEF Started, ThreadsOK, client
<1>3. CASE Heartbeat \/ CheckDeadline
  BY <1>3, ThreadsStutter DEF Heartbeat, CheckDeadline
<1>4. CASE TakeResult
  <2>1. /\ outgoing \in Message /\ outgoing.job \in Jobs /\ outgoing.result \in Results
        /\ "monitor" \in Threads
    BY <1>4 DEF TakeResult, ClientOK, Message, Threads
  <2>2. /\ callback' \in [Threads -> Callback]
        /\ \A x \in Threads : callback'[x].stage # "NONE" => callback'[x].job \in Jobs
    BY <1>4, <2>1, CallOK DEF TakeResult
  <2>3. MonitorTo("RESULT") /\ UNCHANGED active
    BY <1>4 DEF TakeResult, client
  <2>. QED BY <2>2, <2>3, MonitorMoves DEF ThreadsOK
<1>5. CASE Release
  BY <1>5, MonitorMoves DEF Release, ThreadsOK
<1>6. CASE LoseWorker \/ LoseToDeadline \/ LoseToCancel
  BY <1>6, LoseOK DEF LoseWorker, LoseToDeadline, LoseToCancel, Results
<1>7. CASE ReleaseLost
  BY <1>7 DEF ReleaseLost, MonitorAt, ThreadsOK
<1>8. CASE FailPending
  <2>. DEFINE todo == monitor.todo
  <2>1. todo \in Seq(Jobs) /\ todo # << >> /\ monitor.at = "LOSS" /\ "monitor" \in Threads
    BY <1>8 DEF FailPending, MonitorAt, ThreadsOK, MonitorState, Threads
  <2>2. Head(todo) \in Jobs /\ Tail(todo) \in Seq(Jobs)
    BY <2>1, HeadTailProperties
  <2>3. /\ callback' \in [Threads -> Callback]
        /\ \A x \in Threads : callback'[x].stage # "NONE" => callback'[x].job \in Jobs
    BY <1>8, <2>1, <2>2, CallOK DEF FailPending, Results
  <2>4. monitor' \in MonitorState /\ monitor'.at = "LOSS" /\ UNCHANGED active
    BY <1>8, <2>1, <2>2 DEF FailPending, ThreadsOK, MonitorState, client
  <2>. QED BY <2>3, <2>4 DEF ThreadsOK
<1>9. CASE EndLoss
  BY <1>9 DEF EndLoss, ThreadsOK, Looping, MonitorState
<1>. QED BY <1>1, <1>2, <1>3, <1>4, <1>5, <1>6, <1>7, <1>8, <1>9 DEF Monitor

LEMMA MonitorClient ==
    ASSUME IndInv, Monitor
    PROVE  ClientOK'
<1>. USE DEF IndInv
<1>1. CASE Dispatch
  <2>1. Head(pending) \in Jobs /\ Tail(pending) \in Seq(Jobs)
        /\ Len(Tail(pending)) = Len(pending) - 1
    BY <1>1, HeadTailProperties DEF Dispatch, ClientOK
  <2>2. pending' \in Seq(Jobs) /\ Len(pending') <= MaxPending + 1
    BY <1>1, <2>1, PolicyAssumption DEF Dispatch, ClientOK
  <2>3. worker' \in WorkerState /\ (worker'.state = "RUNNING" => worker'.job \in Jobs)
    BY <1>1, <2>1 DEF Dispatch, ClientOK, WorkerState
  <2>4. /\ UNCHANGED <<ready, fault, restarts, control, outgoing, deaths>>
        /\ cancelSent' = FALSE /\ deadlineSent' = FALSE /\ late' = FALSE
    BY <1>1 DEF Dispatch
  <2>. QED BY <2>2, <2>3, <2>4, Zenon DEF ClientOK
<1>2. CASE Started \/ FailPending
  BY <1>2, ClientStutter DEF Started, FailPending, client, process, rest
<1>3. CASE Heartbeat
  BY <1>3, Zenon DEF Heartbeat, ClientOK, process, rest
<1>4. CASE TakeResult
  BY <1>4, Zenon DEF TakeResult, ClientOK, client, rest
<1>5. CASE Release
  BY <1>5, Zenon DEF Release, ClientOK, process
<1>6. CASE CheckDeadline
  <2>1. control' \subseteq Jobs
    BY <1>6 DEF CheckDeadline, ClientOK, ThreadsOK
  <2>. QED BY <1>6, <2>1, Zenon DEF CheckDeadline, ClientOK, rest
<1>7. CASE LoseWorker \/ LoseToDeadline \/ LoseToCancel
  BY <1>7, LoseOK DEF LoseWorker, LoseToDeadline, LoseToCancel, Results
<1>8. CASE ReleaseLost
  BY <1>8, Zenon DEF ReleaseLost, ClientOK, process
<1>9. CASE EndLoss
  <2>1. worker' \in WorkerState /\ (worker'.state = "RUNNING" => worker'.job \in Jobs)
    BY <1>9 DEF EndLoss, Spawned, ClientOK, process, WorkerState
  <2>2. control' \subseteq Jobs /\ outgoing' \in Message \cup {None}
    BY <1>9 DEF EndLoss, Spawned, ClientOK, process
  <2>3. cancelSent' \in BOOLEAN /\ deadlineSent' \in BOOLEAN
    BY <1>9 DEF EndLoss, Spawned, ClientOK
  <2>4. fault' \in BOOLEAN
    BY <1>9, Zenon DEF EndLoss
  <2>5. UNCHANGED <<pending, ready, restarts, late, deaths>>
    BY <1>9 DEF EndLoss, rest
  <2>. QED BY <2>1, <2>2, <2>3, <2>4, <2>5, Zenon DEF ClientOK
<1>. QED BY <1>1, <1>2, <1>3, <1>4, <1>5, <1>6, <1>7, <1>8, <1>9 DEF Monitor

LEMMA MonitorOK ==
    ASSUME IndInv, Monitor
    PROVE  IndInv' /\ CommandStep
BY MonitorData, MonitorThreads, MonitorClient DEF IndInv, CommandStep

(***************************************************************************)
(* The pump, the worker process, time and restarts.                        *)
(***************************************************************************)
LEMMA ReceivesOK ==
    ASSUME IndInv,
           \/ \E k \in Keys : Duplicate(k)
           \/ \E j \in Jobs : AdmitAnalysis(j) \/ RejectAnalysis(j)
           \/ \E c \in Cancels : ReceiveCancel(c)
           \/ \E k \in Foreigns : ReceiveForeign(k)
    PROVE  IndInv' /\ CommandStep
<1>. USE DEF IndInv
<1>1. UNCHANGED <<monitor, callback, client, process, rest, events, files>>
  BY DEF Duplicate, AdmitAnalysis, RejectAnalysis, ReceiveCancel, ReceiveForeign, journal
<1>2. products' \in [Jobs -> {"ABSENT", "STAGING", "READY", "FAILED"}]
  BY DEF Duplicate, AdmitAnalysis, RejectAnalysis, ReceiveCancel, ReceiveForeign, journal,
     DataOK
<1>3. DataOK' /\ ThreadsOK' /\ ClientOK'
  BY <1>1, <1>2, ThreadsStutter, ClientStutter DEF DataOK, client, process, rest
<1>4. CommandStep
  <2>1. ASSUME NEW k \in Keys, Duplicate(k) PROVE CommandStep
    BY <2>1, DuplicateStep
  <2>2. ASSUME NEW j \in Jobs, AdmitAnalysis(j) PROVE CommandStep
    BY <2>2, AdmitStep
  <2>3. ASSUME NEW j \in Jobs, RejectAnalysis(j) PROVE CommandStep
    BY <2>3, FirstAnswer DEF RejectAnalysis, Keys, Stages
  <2>4. ASSUME NEW c \in Cancels, ReceiveCancel(c) PROVE CommandStep
    BY <2>4, ReceiveStep
  <2>5. ASSUME NEW k \in Foreigns, ReceiveForeign(k) PROVE CommandStep
    BY <2>5, FirstAnswer DEF ReceiveForeign, Keys, Stages
  <2>. QED BY <2>1, <2>2, <2>3, <2>4, <2>5
<1>. QED BY <1>3, <1>4 DEF CommandStep

LEMMA WithoutOK ==
    ASSUME NEW seq \in Seq(Jobs), NEW i \in 1 .. Len(seq)
    PROVE  Without(seq, i) \in Seq(Jobs) /\ Len(Without(seq, i)) = Len(seq) - 1
<1>. DEFINE front == SubSeq(seq, 1, i - 1)
            back  == SubSeq(seq, i + 1, Len(seq))
<1>1. Len(seq) \in Nat /\ \A x \in 1 .. Len(seq) : seq[x] \in Jobs
  OBVIOUS
<1>2. front \in Seq(Jobs) /\ Len(front) = i - 1
  <2>1. \A x \in 1 .. i - 1 : seq[x] \in Jobs
    BY <1>1
  <2>2. SubSeq(seq, 1, i - 1) \in Seq(Jobs)
        /\ Len(SubSeq(seq, 1, i - 1)) = IF 1 <= i - 1 THEN i - 1 - 1 + 1 ELSE 0
    BY <2>1, <1>1, SubSeqProperties
  <2>. QED BY <2>2
<1>3. back \in Seq(Jobs) /\ Len(back) = Len(seq) - i
  <2>1. \A x \in i + 1 .. Len(seq) : seq[x] \in Jobs
    BY <1>1
  <2>2. SubSeq(seq, i + 1, Len(seq)) \in Seq(Jobs)
        /\ Len(SubSeq(seq, i + 1, Len(seq))) =
              IF i + 1 <= Len(seq) THEN Len(seq) - (i + 1) + 1 ELSE 0
    BY <2>1, <1>1, SubSeqProperties
  <2>. QED BY <2>2, <1>1
<1>4. Without(seq, i) = front \o back
  BY DEF Without
<1>. HIDE DEF front, back
<1>5. front \o back \in Seq(Jobs) /\ Len(front \o back) = Len(front) + Len(back)
  BY <1>2, <1>3, ConcatProperties
<1>. QED BY <1>1, <1>2, <1>3, <1>4, <1>5

LEMMA HandleOK ==
    ASSUME IndInv, HandleCommand
    PROVE  IndInv' /\ CommandStep
<1>. USE DEF IndInv
<1>1. CASE Submit
  <2>1. pump.key \in Jobs
    BY <1>1 DEF Submit, PumpAt, CommandsOK, PumpOK, Admitting
  <2>2. pending' \in Seq(Jobs) /\ Len(pending') <= MaxPending + 1
    <3>1. CASE HasRoom /\ pending' = Append(pending, pump.key)
      <4>1. Len(pending) < MaxPending + 1
        BY <3>1, PolicyAssumption DEF HasRoom, ClientOK
      <4>. QED BY <3>1, <4>1, <2>1, PolicyAssumption, AppendProperties DEF ClientOK
    <3>2. CASE UNCHANGED pending
      BY <3>2 DEF ClientOK
    <3>. QED BY <1>1, <3>1, <3>2 DEF Submit
  <2>3. ClientOK'
    BY <1>1, <2>2, Zenon DEF Submit, ClientOK, process, rest
  <2>4. DataOK' /\ ThreadsOK'
    BY <1>1, DataStutter, ThreadsStutter DEF Submit, journal, rest
  <2>. QED BY <1>1, <2>3, <2>4, SubmitStep DEF CommandStep
<1>2. CASE RefuseJob \/ RefuseProduct \/ RefuseCommand
  <2>1. ThreadsOK' /\ ClientOK'
    BY <1>2, ThreadsStutter, ClientStutter DEF RefuseJob, RefuseProduct, RefuseCommand,
       client, process, rest
  <2>2. pump.key \in Jobs
    BY <1>2 DEF RefuseJob, RefuseProduct, RefuseCommand, PumpAt, CommandsOK, PumpOK, Admitting
  <2>3. products' \in [Jobs -> {"ABSENT", "STAGING", "READY", "FAILED"}]
    BY <1>2 DEF RefuseJob, RefuseProduct, RefuseCommand, FailedProduct, DataOK
  <2>4. events' \in [Jobs -> SUBSET EventNames]
    <3>1. CASE RefuseCommand
      BY <2>2, <3>1 DEF RefuseCommand, AppendEvent, DataOK, EventNames
    <3>2. CASE UNCHANGED events
      BY <3>2 DEF DataOK
    <3>. QED BY <1>2, <3>1, <3>2 DEF RefuseJob, RefuseProduct
  <2>5. DataOK'
    BY <1>2, <2>3, <2>4 DEF RefuseJob, RefuseProduct, RefuseCommand, DataOK, rest
  <2>. QED BY <1>2, <2>1, <2>5, RefuseStep DEF CommandStep
<1>3. CASE MarkCancel \/ RecordCancel
  <2>1. DataOK' /\ ThreadsOK' /\ ClientOK'
    BY <1>3, DataStutter, ThreadsStutter, ClientStutter DEF MarkCancel, RecordCancel,
       client, process, rest
  <2>. QED BY <1>3, <2>1, CancelStep DEF CommandStep
<1>4. CASE AskWorker
  <2>. DEFINE j == TargetOf[pump.key]
  <2>1. j \in Jobs
    BY <1>4, RequestAssumption DEF AskWorker, PumpAt, CommandsOK, PumpOK, Canceling
  <2>2. pending' \in Seq(Jobs) /\ Len(pending') <= MaxPending + 1
    <3>1. ASSUME NEW i \in 1 .. Len(pending), pending' = Without(pending, i)
          PROVE  pending' \in Seq(Jobs) /\ Len(pending') <= MaxPending + 1
      BY <3>1, WithoutOK, PolicyAssumption DEF ClientOK
    <3>2. CASE UNCHANGED pending
      BY <3>2 DEF ClientOK
    <3>. QED BY <1>4, <3>1, <3>2 DEF AskWorker
  <2>3. control' \subseteq Jobs
    BY <1>4, <2>1 DEF AskWorker, ClientOK
  <2>4. cancelSent' \in BOOLEAN
    BY <1>4 DEF AskWorker, ClientOK
  <2>5. UNCHANGED <<ready, fault, deadlineSent, restarts, worker, outgoing, late, deaths>>
    BY <1>4 DEF AskWorker, rest
  <2>6. ClientOK'
    BY <2>2, <2>3, <2>4, <2>5, Zenon DEF ClientOK
  <2>7. CASE Call("pump", j, "CANCELED")
    <3>1. "pump" \in Threads /\ "CANCELED" \in Results
      BY DEF Threads, Results
    <3>. HIDE DEF j
    <3>2. ThreadsOK'
      BY <1>4, <2>1, <2>7, <3>1, CallOK DEF AskWorker, ThreadsOK
    <3>. QED BY <1>4, <2>6, <3>2, DataStutter, CancelStep DEF AskWorker, journal, rest, CommandStep
  <2>8. CASE UNCHANGED callback
    <3>1. ThreadsOK'
      BY <1>4, <2>8, ThreadsStutter DEF AskWorker
    <3>. QED BY <1>4, <2>6, <3>1, DataStutter, CancelStep DEF AskWorker, journal, rest, CommandStep
  <2>. QED BY <1>4, <2>7, <2>8 DEF AskWorker
<1>. QED BY <1>1, <1>2, <1>3, <1>4 DEF HandleCommand

LEMMA WorkerOK ==
    ASSUME IndInv,
           \/ WorkerBoots \/ Publish \/ WorkerDies \/ DeadlinePasses
           \/ \E result \in Results : WorkerEnds(result)
    PROVE  IndInv' /\ CommandStep
<1>. USE DEF IndInv
<1>1. UNCHANGED <<commands, jobs, answers, pump, products, events, lapsed, monitor,
                  callback, active, pending, ready, fault, cancelSent, deadlineSent, restarts>>
  BY DEF WorkerBoots, Publish, WorkerDies, DeadlinePasses, WorkerEnds, journal, client, rest
<1>2. CommandStep /\ ThreadsOK'
  BY <1>1, CommandStutter, ThreadsStutter
<1>3. DataOK'
  BY <1>1 DEF WorkerBoots, Publish, WorkerDies, DeadlinePasses, WorkerEnds, DataOK, ClientOK
<1>4. /\ worker' \in WorkerState
      /\ worker'.state = "RUNNING" => worker'.job \in Jobs
      /\ control' \subseteq Jobs
  <2>1. CASE WorkerBoots \/ WorkerDies
    BY <2>1 DEF WorkerBoots, WorkerDies, ClientOK, WorkerState
  <2>2. CASE Publish \/ DeadlinePasses
    BY <2>2 DEF Publish, DeadlinePasses, ClientOK, process
  <2>3. ASSUME NEW result \in Results, WorkerEnds(result)
        PROVE  /\ worker' \in WorkerState /\ worker'.state # "RUNNING"
               /\ control' \subseteq Jobs
    BY <2>3 DEF WorkerEnds, ClientOK, WorkerState
  <2>. QED BY <2>1, <2>2, <2>3
<1>5. outgoing' \in Message \cup {None}
  <2>1. CASE UNCHANGED outgoing
    BY <2>1 DEF ClientOK
  <2>2. ASSUME NEW result \in Results, WorkerEnds(result)
        PROVE  outgoing' \in Message
    BY <2>2 DEF WorkerEnds, ClientOK, Message
  <2>. QED
    BY <2>1, <2>2 DEF WorkerBoots, Publish, WorkerDies, DeadlinePasses, process
<1>6. late' \in BOOLEAN /\ deaths' \in 0 .. MaxDeaths
  <2>1. CASE UNCHANGED <<late, deaths>>
    BY <2>1 DEF ClientOK
  <2>2. CASE WorkerDies
    BY <2>2, PolicyAssumption DEF WorkerDies, ClientOK
  <2>3. CASE DeadlinePasses
    BY <2>3 DEF DeadlinePasses, ClientOK
  <2>. QED BY <2>1, <2>2, <2>3 DEF WorkerBoots, Publish, WorkerEnds, rest
<1>7. ClientOK'
  BY <1>1, <1>4, <1>5, <1>6 DEF ClientOK
<1>. QED BY <1>2, <1>3, <1>7 DEF CommandStep

LEMMA RestartOK ==
    ASSUME IndInv, Restart
    PROVE  IndInv' /\ CommandStep
<1>. USE DEF IndInv
<1>1. /\ jobs' \in [Jobs -> Live \cup Terminal \cup {"ABSENT"}] /\ FinalState
      /\ \A j \in Jobs : jobs'[j] # "ABSENT" => commands[j] # "ABSENT"
  BY DEF Restart, CommandsOK, FinalState, Live, Terminal
<1>2. pump' \in PumpState /\ PumpOK'
  BY DEF Restart, Idle, PumpState, PumpOK, Admitting, Canceling
<1>3. CommandStep
  BY <1>1, <1>2 DEF Restart, CommandStep, CommandsOK, SameAnswerAgain
<1>4. DataOK'
  BY DEF Restart, ReconciledProduct, DataOK
<1>5. ThreadsOK'
  BY DEF Restart, ThreadsOK, Looping, NoCallback, MonitorState, Callback, Results, EventNames
<1>6. ClientOK'
  <2>1. << >> \in Seq(Jobs) /\ Len(<< >>) <= MaxPending + 1
    BY PolicyAssumption
  <2>2. worker' \in WorkerState /\ worker'.state = "IDLE"
    BY DEF Restart, WorkerState
  <2>3. restarts' \in 0 .. MaxRestarts /\ deaths' \in 0 .. MaxDeaths
    BY PolicyAssumption DEF Restart, ClientOK
  <2>4. /\ ready' \in BOOLEAN /\ fault' \in BOOLEAN /\ late' \in BOOLEAN
        /\ cancelSent' \in BOOLEAN /\ deadlineSent' \in BOOLEAN
        /\ control' \subseteq Jobs /\ outgoing' \in Message \cup {None} /\ pending' = << >>
    BY DEF Restart
  <2>. QED BY <2>1, <2>2, <2>3, <2>4 DEF ClientOK
<1>. QED BY <1>3, <1>4, <1>5, <1>6 DEF CommandStep

(***************************************************************************)
(* The theorems.                                                           *)
(***************************************************************************)
LEMMA NextOK ==
    ASSUME IndInv, [Next]_vars
    PROVE  IndInv' /\ CommandStep
<1>1. CASE Next
  BY <1>1, ReceivesOK, HandleOK, ResultOK, MonitorOK, WorkerOK, RestartOK
  DEF Next, RepeatForeign
<1>2. CASE UNCHANGED vars
  BY <1>2, CommandStutter, DataStutter, ThreadsStutter, ClientStutter
  DEF vars, journal, client, process, rest, IndInv, CommandStep
<1>. QED BY <1>1, <1>2

\* The invariant holds in every reachable state.
THEOREM Invariance == Spec => []IndInv
<1>1. IndInv /\ [Next]_vars => IndInv'
  BY NextOK
<1>. QED BY InitOK, <1>1, PTL DEF Spec

\* Every variable keeps its type: in particular the queue of pending requests
\* stays within its bound and the restarts within their budget.
THEOREM TypeCorrect == Spec => []TypeOK
BY Invariance, IndInvIsTyped, PTL

\* A job's terminal state is final, whichever thread, result, cancel, refusal
\* or restart comes later (transition_job, complete_job_with_product and
\* reconcile_after_restart).
THEOREM EndedOnce == Spec => OneTerminalState
<1>1. IndInv /\ [Next]_vars => [FinalState]_vars
  BY NextOK DEF CommandStep
<1>. QED BY Invariance, <1>1, PTL DEF Spec, OneTerminalState

\* A command the ground was told the result of is never answered otherwise
\* (handle_command, record_command and the refusal path of _admit_analysis).
THEOREM AnsweredOnce == Spec => AnswersAreStable
<1>1. IndInv /\ [Next]_vars => [SameAnswerAgain]_vars
  BY NextOK DEF CommandStep
<1>. QED BY Invariance, <1>1, PTL DEF Spec, AnswersAreStable

(***************************************************************************)
(* Ownership.  An admitted job is in one place at a time: with the pump    *)
(* that admits it, waiting, left over by a lost worker, active, or in the  *)
(* callback of one of the threads.  Only the active job may also be in the *)
(* monitor's callback.                                                     *)
(***************************************************************************)
Items(seq)  == {seq[i] : i \in 1 .. Len(seq)}
Single(seq) == \A i, k \in 1 .. Len(seq) : seq[i] = seq[k] => i = k

Called(th, j) == callback[th].stage # "NONE" /\ callback[th].job = j
Admitted(j)   == pump.at \in Admitting /\ pump.key = j

Exclusive(j) ==
    /\ Admitted(j) => /\ j \notin Items(pending) \cup Items(monitor.todo)
                      /\ active # j
                      /\ \A th \in Threads : ~Called(th, j)
    /\ j \in Items(pending) => /\ j \notin Items(monitor.todo)
                               /\ active # j
                               /\ \A th \in Threads : ~Called(th, j)
    /\ j \in Items(monitor.todo) => /\ active # j
                                    /\ \A th \in Threads : ~Called(th, j)
    /\ Called("pump", j) => active # j /\ ~Called("monitor", j)

OwnedOnce ==
    /\ Single(pending) /\ Single(monitor.todo)
    /\ \A j \in Jobs : Exclusive(j)

\* The monitor handles the result of the active job, or of one left over.
MonitorOwns ==
    callback["monitor"].stage # "NONE" =>
       \/ monitor.at \in {"RESULT", "LOSS"} /\ active = callback["monitor"].job
       \/ monitor.at = "LOSS" /\ active = None

\* The worker works on the active job, and so is its result.
WorkerSide ==
    /\ worker.state = "RUNNING" => /\ active = worker.job
                                   /\ monitor.at \in {"STARTED", "LOOP"}
                                   /\ outgoing = None
    /\ outgoing # None => /\ active = outgoing.job
                          /\ monitor.at \in {"STARTED", "LOOP"}
                          /\ worker.state # "RUNNING"
                          /\ outgoing.result = "SUCCEEDED" => outgoing.job \in files

\* The state and the product that an event reports.
EndOf(name) == CASE name \in {"JOB_COMPLETED", "SCIENCE_DECISION_REJECTED"} -> "SUCCEEDED"
                 [] name = "JOB_TIMEOUT" -> "TIMEOUT"
                 [] name = "JOB_CANCELED" -> "CANCELED"
                 [] OTHER -> "FAILED"
ProductOf(name) == IF name = "JOB_COMPLETED" THEN "READY" ELSE "FAILED"

\* A job that is still in some place is live until its owner ends it.
PumpHolds(j) ==
    /\ pump.at \in {"SUBMIT", "REFUSED"} => jobs[j] = "QUEUED"
    /\ pump.at = "REFUSED_JOB" => jobs[j] = "FAILED" /\ products[j] = "STAGING"
    /\ pump.at = "REFUSED_PRODUCT" => jobs[j] = "FAILED" /\ products[j] = "FAILED"
    /\ events[j] = {}

ActiveHolds(j) ==
    /\ jobs[j] # "ABSENT"
    /\ monitor.at = "STARTED" => jobs[j] \in Live
    /\ monitor.at = "LOOP" => jobs[j] \in Live \ {"QUEUED"}

CallHolds(call) ==
    /\ call.stage \in {"READ", "APPLY"} =>
          /\ jobs[call.job] \in Live
          /\ call.result \in {"SUCCEEDED", "REJECTED"} => jobs[call.job] # "QUEUED"
          /\ call.result = "SUCCEEDED" => call.job \in files
    /\ call.stage = "PRODUCT" =>
          /\ call.say # "JOB_COMPLETED"
          /\ jobs[call.job] = EndOf(call.say)
          /\ products[call.job] = "STAGING"
          /\ events[call.job] = {}
    /\ call.stage = "SAY" =>
          /\ jobs[call.job] = EndOf(call.say)
          /\ products[call.job] = ProductOf(call.say)
          /\ events[call.job] = {}

Holding ==
    /\ \A j \in Jobs : Admitted(j) => PumpHolds(j)
    /\ \A j \in Items(pending) \cup Items(monitor.todo) : jobs[j] \in Live
    /\ \A j \in Jobs : active = j => ActiveHolds(j)
    /\ \A th \in Threads : callback[th].stage # "NONE" => CallHolds(callback[th])

\* What the journal and the disk say of a job together.
Ending(j) ==
    \/ \E th \in Threads : callback[th].stage = "PRODUCT" /\ callback[th].job = j
    \/ pump.at = "REFUSED_JOB" /\ pump.key = j

JournalOK(j) ==
    /\ jobs[j] \in Live => products[j] = "STAGING"
    /\ jobs[j] \in Terminal => products[j] \in {"READY", "FAILED"} \/ Ending(j)
    /\ products[j] = "READY" => jobs[j] = "SUCCEEDED" /\ j \in files
    /\ events[j] # {} => \E name \in EventNames : /\ events[j] = {name}
                                                  /\ jobs[j] = EndOf(name)
                                                  /\ products[j] = ProductOf(name)

Consistent == \A j \in Jobs : JournalOK(j)

OwnInv == OwnedOnce /\ MonitorOwns /\ WorkerSide /\ Holding /\ Consistent

(***************************************************************************)
(* Queues of jobs.                                                         *)
(***************************************************************************)
LEMMA NoItems == Items(<< >>) = {} /\ Single(<< >>)
BY DEF Items, Single

LEMMA AppendItem ==
    ASSUME NEW seq \in Seq(Jobs), NEW j \in Jobs, Single(seq), j \notin Items(seq)
    PROVE  Items(Append(seq, j)) = Items(seq) \cup {j} /\ Single(Append(seq, j))
<1>1. /\ Len(seq) \in Nat /\ Len(Append(seq, j)) = Len(seq) + 1
      /\ Append(seq, j)[Len(seq) + 1] = j
      /\ \A i \in 1 .. Len(seq) : Append(seq, j)[i] = seq[i]
  BY AppendProperties
<1>2. Items(Append(seq, j)) = Items(seq) \cup {j}
  <2>1. ASSUME NEW x \in Items(Append(seq, j)) PROVE x \in Items(seq) \cup {j}
    BY <1>1, <2>1 DEF Items
  <2>2. ASSUME NEW x \in Items(seq) PROVE x \in Items(Append(seq, j))
    <3>1. PICK i \in 1 .. Len(seq) : x = seq[i]
      BY DEF Items
    <3>. QED BY <1>1, <3>1 DEF Items
  <2>3. j \in Items(Append(seq, j))
    BY <1>1 DEF Items
  <2>. QED BY <2>1, <2>2, <2>3
<1>3. Single(Append(seq, j))
  BY <1>1 DEF Single, Items
<1>. QED BY <1>2, <1>3

LEMMA TakeItem ==
    ASSUME NEW seq \in Seq(Jobs), seq # << >>, Single(seq)
    PROVE  /\ Head(seq) \in Items(seq) /\ Head(seq) \in Jobs
           /\ Items(Tail(seq)) \subseteq Items(seq) \ {Head(seq)}
           /\ Single(Tail(seq))
<1>1. /\ Len(seq) \in Nat /\ Len(seq) >= 1 /\ Head(seq) = seq[1] /\ Head(seq) \in Jobs
      /\ Len(Tail(seq)) = Len(seq) - 1
      /\ \A i \in 1 .. Len(Tail(seq)) : Tail(seq)[i] = seq[i + 1]
  BY HeadTailProperties, EmptySeq
<1>2. Head(seq) \in Items(seq)
  BY <1>1 DEF Items
<1>3. ASSUME NEW x \in Items(Tail(seq)) PROVE x \in Items(seq) /\ x # Head(seq)
  <2>1. PICK i \in 1 .. Len(Tail(seq)) : x = Tail(seq)[i]
    BY DEF Items
  <2>2. i + 1 \in 1 .. Len(seq) /\ 1 \in 1 .. Len(seq) /\ x = seq[i + 1] /\ i + 1 # 1
    BY <1>1, <2>1
  <2>. QED BY <1>1, <2>2 DEF Items, Single
<1>4. Single(Tail(seq))
  <2>1. SUFFICES ASSUME NEW i \in 1 .. Len(Tail(seq)), NEW k \in 1 .. Len(Tail(seq)),
                        Tail(seq)[i] = Tail(seq)[k]
                 PROVE  i = k
    BY DEF Single
  <2>2. i + 1 \in 1 .. Len(seq) /\ k + 1 \in 1 .. Len(seq) /\ seq[i + 1] = seq[k + 1]
    BY <1>1, <2>1
  <2>3. i + 1 = k + 1
    BY <2>2 DEF Single
  <2>. QED BY <2>3
<1>. QED BY <1>1, <1>2, <1>3, <1>4

LEMMA RemoveItem ==
    ASSUME NEW seq \in Seq(Jobs), NEW i \in 1 .. Len(seq), Single(seq)
    PROVE  /\ Items(Without(seq, i)) \subseteq Items(seq) \ {seq[i]}
           /\ Single(Without(seq, i))
<1>. DEFINE rest1 == Without(seq, i)
            from(x) == IF x <= i - 1 THEN x ELSE x + 1
<1>1. Len(seq) \in Nat /\ Len(rest1) = Len(seq) - 1
  BY WithoutOK
<1>2. ASSUME NEW x \in 1 .. Len(rest1)
      PROVE  from(x) \in 1 .. Len(seq) /\ from(x) # i /\ rest1[x] = seq[from(x)]
  <2>1. /\ SubSeq(seq, 1, i - 1) \in Seq(Jobs) /\ Len(SubSeq(seq, 1, i - 1)) = i - 1
        /\ \A y \in 1 .. i - 1 : SubSeq(seq, 1, i - 1)[y] = seq[y]
    <3>1. \A y \in 1 .. i - 1 : seq[y] \in Jobs
      BY <1>1
    <3>2. /\ SubSeq(seq, 1, i - 1) \in Seq(Jobs)
          /\ Len(SubSeq(seq, 1, i - 1)) = IF 1 <= i - 1 THEN i - 1 - 1 + 1 ELSE 0
          /\ \A y \in 1 .. i - 1 - 1 + 1 : SubSeq(seq, 1, i - 1)[y] = seq[1 + y - 1]
      BY <3>1, <1>1, SubSeqProperties
    <3>. QED BY <3>2
  <2>2. /\ SubSeq(seq, i + 1, Len(seq)) \in Seq(Jobs)
        /\ Len(SubSeq(seq, i + 1, Len(seq))) = Len(seq) - i
        /\ \A y \in 1 .. Len(seq) - i : SubSeq(seq, i + 1, Len(seq))[y] = seq[i + y]
    <3>1. \A y \in i + 1 .. Len(seq) : seq[y] \in Jobs
      BY <1>1
    <3>2. /\ SubSeq(seq, i + 1, Len(seq)) \in Seq(Jobs)
          /\ Len(SubSeq(seq, i + 1, Len(seq))) =
                IF i + 1 <= Len(seq) THEN Len(seq) - (i + 1) + 1 ELSE 0
          /\ \A y \in 1 .. Len(seq) - (i + 1) + 1 :
                SubSeq(seq, i + 1, Len(seq))[y] = seq[i + 1 + y - 1]
      BY <3>1, <1>1, SubSeqProperties
    <3>. QED BY <3>2, <1>1
  <2>3. rest1[x] = IF x <= i - 1 THEN SubSeq(seq, 1, i - 1)[x]
                   ELSE SubSeq(seq, i + 1, Len(seq))[x - (i - 1)]
    <3>1. PICK front : front = SubSeq(seq, 1, i - 1)
      OBVIOUS
    <3>2. PICK back : back = SubSeq(seq, i + 1, Len(seq))
      OBVIOUS
    <3>3. rest1 = front \o back /\ front \in Seq(Jobs) /\ back \in Seq(Jobs)
          /\ Len(front) = i - 1
      BY <2>1, <2>2, <3>1, <3>2 DEF Without
    <3>4. \A y \in 1 .. Len(front) + Len(back) :
             (front \o back)[y] = IF y <= Len(front) THEN front[y] ELSE back[y - Len(front)]
      BY <3>3, ConcatProperties
    <3>5. x \in 1 .. Len(front) + Len(back)
      BY <3>3, ConcatProperties
    <3>. QED BY <3>1, <3>2, <3>3, <3>4, <3>5
  <2>. HIDE DEF rest1
  <2>4. CASE x <= i - 1
    <3>1. x \in 1 .. i - 1 /\ x \in 1 .. Len(seq) /\ from(x) = x
      BY <1>1, <2>4
    <3>. HIDE DEF from
    <3>. QED BY <2>1, <2>3, <2>4, <3>1
  <2>5. CASE ~(x <= i - 1)
    <3>1. PICK y : y = x - (i - 1)
      OBVIOUS
    <3>2. y \in 1 .. Len(seq) - i /\ i + y = x + 1 /\ from(x) = x + 1
          /\ x + 1 \in 1 .. Len(seq) /\ x + 1 # i
      BY <1>1, <2>5, <3>1
    <3>3. rest1[x] = SubSeq(seq, i + 1, Len(seq))[y]
      BY <2>3, <2>5, <3>1
    <3>. HIDE DEF from
    <3>. QED BY <2>2, <3>2, <3>3
  <2>. QED BY <2>4, <2>5
<1>. HIDE DEF rest1
<1>3. ASSUME NEW y \in Items(rest1) PROVE y \in Items(seq) /\ y # seq[i]
  <2>1. PICK x \in 1 .. Len(rest1) : y = rest1[x]
    BY DEF Items
  <2>. QED BY <1>2, <2>1 DEF Items, Single
<1>4. Single(rest1)
  <2>1. SUFFICES ASSUME NEW x \in 1 .. Len(rest1), NEW y \in 1 .. Len(rest1),
                        rest1[x] = rest1[y]
                 PROVE  x = y
    BY DEF Single
  <2>2. from(x) = from(y)
    BY <1>2, <2>1 DEF Single
  <2>. QED BY <1>1, <2>2
<1>. QED BY <1>3, <1>4 DEF rest1

(***************************************************************************)
(* What a step leaves alone.                                               *)
(***************************************************************************)
JobSame(j) ==
    /\ jobs'[j] = jobs[j] /\ products'[j] = products[j] /\ events'[j] = events[j]
    /\ j \in files => j \in files'

LEMMA EndsAre ==
    /\ \A name : EndOf(name) \in Terminal /\ ProductOf(name) \in {"READY", "FAILED"}
    /\ Live \cap Terminal = {} /\ "ABSENT" \notin Live \cup Terminal
BY DEF EndOf, ProductOf, Live, Terminal

LEMMA ExclusiveKept ==
    ASSUME NEW j, Exclusive(j),
           Admitted(j)' => Admitted(j),
           j \in Items(pending)' => j \in Items(pending),
           j \in Items(monitor.todo)' => j \in Items(monitor.todo),
           active' = j => active = j,
           \A th \in Threads : Called(th, j)' => Called(th, j)
    PROVE  Exclusive(j)'
<1>1. "pump" \in Threads /\ "monitor" \in Threads
  BY DEF Threads
<1>. QED BY <1>1 DEF Exclusive

LEMMA CallKept ==
    ASSUME NEW call, CallHolds(call), JobSame(call.job)
    PROVE  CallHolds(call)'
BY DEF CallHolds, JobSame

LEMMA PumpKept ==
    ASSUME NEW j, PumpHolds(j), JobSame(j), UNCHANGED pump
    PROVE  PumpHolds(j)'
BY DEF PumpHolds, JobSame

LEMMA ActiveKept ==
    ASSUME NEW j, ActiveHolds(j), JobSame(j), UNCHANGED monitor
    PROVE  ActiveHolds(j)'
BY DEF ActiveHolds, JobSame

LEMMA JournalKept ==
    ASSUME NEW j, JournalOK(j), JobSame(j), Ending(j) => Ending(j)'
    PROVE  JournalOK(j)'
BY DEF JournalOK, JobSame

LEMMA ItemsAreJobs ==
    ASSUME IndInv
    PROVE  Items(pending) \subseteq Jobs /\ Items(monitor.todo) \subseteq Jobs
BY DEF Items, IndInv, ClientOK, ThreadsOK, MonitorState

\* A job that was never admitted is nowhere.
LEMMA Nowhere ==
    ASSUME IndInv, OwnInv, NEW j \in Jobs, jobs[j] = "ABSENT"
    PROVE  /\ ~Admitted(j) /\ active # j
           /\ j \notin Items(pending) \cup Items(monitor.todo)
           /\ \A th \in Threads : ~Called(th, j)
           /\ events[j] = {}
<1>1. ~Admitted(j)
  BY DEF OwnInv, Holding, Admitted, Admitting, PumpHolds
<1>2. active # j /\ j \notin Items(pending) \cup Items(monitor.todo)
  BY DEF OwnInv, Holding, ActiveHolds, Live
<1>3. ASSUME NEW th \in Threads, Called(th, j) PROVE FALSE
  <2>1. CallHolds(callback[th]) /\ callback[th].job = j
        /\ callback[th].stage \in {"READ", "APPLY", "PRODUCT", "SAY"}
    BY <1>3 DEF Called, OwnInv, Holding, IndInv, ThreadsOK, Callback
  <2>. QED BY <2>1, EndsAre DEF CallHolds
<1>4. events[j] = {}
  BY EndsAre DEF OwnInv, Consistent, JournalOK
<1>. QED BY <1>1, <1>2, <1>3, <1>4

\* A step that changes no place, no job and no product.
LEMMA OwnStutter ==
    ASSUME IndInv, OwnInv,
           UNCHANGED <<jobs, products, events, pending, monitor, active, callback, outgoing>>,
           files \subseteq files',
           worker'.state = "RUNNING" => worker'.state = worker.state /\ worker'.job = worker.job,
           \/ UNCHANGED pump
           \/ pump.at \notin Admitting /\ pump'.at \notin Admitting
    PROVE  OwnInv'
<1>1. \A j \in Jobs : JobSame(j)
  BY DEF JobSame
<1>2. \A j \in Jobs : Admitted(j)' <=> Admitted(j)
  BY DEF Admitted
<1>3. \A j \in Jobs : Ending(j)' <=> Ending(j)
  BY DEF Ending, Admitting
<1>4. OwnedOnce' /\ MonitorOwns'
  <2>1. ASSUME NEW j \in Jobs PROVE Exclusive(j)'
    <3>1. Exclusive(j)
      BY DEF OwnInv, OwnedOnce
    <3>2. /\ j \in Items(pending)' => j \in Items(pending)
          /\ j \in Items(monitor.todo)' => j \in Items(monitor.todo)
          /\ active' = j => active = j
          /\ \A th \in Threads : Called(th, j)' => Called(th, j)
      BY DEF Items, Called
    <3>. QED BY <1>2, <3>1, <3>2, ExclusiveKept
  <2>2. Single(pending)' /\ Single(monitor.todo)'
    BY DEF OwnInv, OwnedOnce, Single
  <2>3. MonitorOwns'
    BY DEF OwnInv, MonitorOwns
  <2>. QED BY <2>1, <2>2, <2>3 DEF OwnedOnce
<1>5. WorkerSide'
  BY DEF OwnInv, WorkerSide
<1>6. Holding'
  <2>1. ASSUME NEW j \in Jobs, Admitted(j)' PROVE PumpHolds(j)'
    BY <1>1, <1>2, <2>1, PumpKept DEF OwnInv, Holding, Admitted
  <2>2. \A j \in (Items(pending) \cup Items(monitor.todo))' : jobs'[j] \in Live
    BY DEF OwnInv, Holding, Items
  <2>3. ASSUME NEW j \in Jobs, active' = j PROVE ActiveHolds(j)'
    BY <1>1, <2>3, ActiveKept DEF OwnInv, Holding
  <2>4. ASSUME NEW th \in Threads, callback'[th].stage # "NONE" PROVE CallHolds(callback[th])'
    <3>1. PICK call : call = callback[th]
      OBVIOUS
    <3>2. CallHolds(call) /\ call.job \in Jobs
      BY <2>4, <3>1 DEF OwnInv, Holding, IndInv, ThreadsOK
    <3>3. CallHolds(call)'
      BY <1>1, <3>2, CallKept
    <3>. QED BY <3>1, <3>3
  <2>. QED BY <2>1, <2>2, <2>3, <2>4 DEF Holding
<1>7. Consistent'
  BY <1>1, <1>3, JournalKept DEF OwnInv, Consistent
<1>. QED BY <1>4, <1>5, <1>6, <1>7 DEF OwnInv

(***************************************************************************)
(* Ownership and the pump thread.                                          *)
(***************************************************************************)
\* Holding, for a step after which the callbacks and the active job are as
\* before and the jobs they and the queues have are unchanged.
LEMMA HoldingKept ==
    ASSUME IndInv, OwnInv, UNCHANGED <<callback, active, monitor>>,
           \A j \in Jobs : Admitted(j)' => PumpHolds(j)',
           \A j \in Items(pending)' : jobs'[j] \in Live,
           \A j \in Items(monitor.todo) : JobSame(j),
           \A j \in Jobs : active = j => JobSame(j),
           \A th \in Threads : callback[th].stage # "NONE" => JobSame(callback[th].job)
    PROVE  Holding'
<1>1. \A j \in (Items(pending) \cup Items(monitor.todo))' : jobs'[j] \in Live
  BY DEF OwnInv, Holding, Items, JobSame
<1>2. ASSUME NEW j \in Jobs, active' = j PROVE ActiveHolds(j)'
  BY <1>2, ActiveKept DEF OwnInv, Holding
<1>3. ASSUME NEW th \in Threads, callback'[th].stage # "NONE" PROVE CallHolds(callback[th])'
  <2>1. PICK call : call = callback[th]
    OBVIOUS
  <2>2. CallHolds(call) /\ JobSame(call.job)
    BY <1>3, <2>1 DEF OwnInv, Holding
  <2>3. CallHolds(call)'
    BY <2>2, CallKept
  <2>. QED BY <2>1, <2>3
<1>. QED BY <1>1, <1>2, <1>3 DEF Holding

LEMMA AdmitOwns ==
    ASSUME IndInv, OwnInv, NEW x \in Jobs, AdmitAnalysis(x)
    PROVE  OwnInv'
<1>1. /\ pump.at = "IDLE" /\ jobs[x] = "ABSENT"
      /\ jobs' = [jobs EXCEPT ![x] = "QUEUED"] /\ products' = [products EXCEPT ![x] = "STAGING"]
      /\ pump' = [at |-> "SUBMIT", key |-> x]
      /\ UNCHANGED <<events, files, monitor, callback, pending, active, worker, outgoing>>
  BY DEF AdmitAnalysis, FreeFor, PumpAt, IndInv, CommandsOK, client, process
<1>2. /\ active # x /\ x \notin Items(pending) \cup Items(monitor.todo)
      /\ \A th \in Threads : ~Called(th, x)
      /\ events[x] = {}
  BY <1>1, Nowhere
<1>3. /\ jobs'[x] = "QUEUED" /\ products'[x] = "STAGING"
      /\ \A j \in Jobs : j # x => JobSame(j)
  BY <1>1 DEF IndInv, CommandsOK, DataOK, JobSame
<1>4. \A j \in Jobs : Admitted(j)' <=> j = x
  BY <1>1 DEF Admitted, Admitting
<1>5. \A j \in Jobs : /\ Items(pending)' = Items(pending)
                      /\ Items(monitor.todo)' = Items(monitor.todo)
                      /\ \A th \in Threads : Called(th, j)' <=> Called(th, j)
  BY <1>1 DEF Items, Called
<1>6. OwnedOnce' /\ MonitorOwns' /\ WorkerSide'
  <2>1. ASSUME NEW j \in Jobs, j # x PROVE Exclusive(j)'
    BY <1>1, <1>4, <1>5, <2>1, ExclusiveKept DEF OwnInv, OwnedOnce
  <2>2. Exclusive(x)'
    <3>1. "pump" \in Threads
      BY DEF Threads
    <3>. QED BY <1>1, <1>2, <1>5, <3>1 DEF Exclusive
  <2>3. OwnedOnce'
    BY <1>1, <2>1, <2>2 DEF OwnInv, OwnedOnce, Single
  <2>. QED BY <1>1, <2>3 DEF OwnInv, MonitorOwns, WorkerSide
<1>7. Holding'
  <2>1. PumpHolds(x)'
    BY <1>1, <1>2, <1>3 DEF PumpHolds
  <2>2. \A j \in Items(pending)' : jobs'[j] \in Live
    <3>1. Items(pending)' = Items(pending)
      BY <1>1 DEF Items
    <3>. QED BY <1>2, <1>3, <3>1, ItemsAreJobs DEF OwnInv, Holding, JobSame
  <2>3. \A j \in Items(monitor.todo) : j \in Jobs
    BY ItemsAreJobs
  <2>4. \A th \in Threads : callback[th].stage # "NONE" => JobSame(callback[th].job)
    BY <1>2, <1>3 DEF Called, IndInv, ThreadsOK
  <2>. QED BY <1>1, <1>2, <1>3, <1>4, <2>1, <2>2, <2>3, <2>4, HoldingKept
<1>8. Consistent'
  <2>1. ASSUME NEW j \in Jobs, j # x PROVE JournalOK(j)'
    <3>1. Ending(j) => Ending(j)'
      BY <1>1 DEF Ending
    <3>. QED BY <1>3, <2>1, <3>1, JournalKept DEF OwnInv, Consistent
  <2>2. JournalOK(x)'
    BY <1>1, <1>2, <1>3, EndsAre DEF JournalOK, Live, Terminal
  <2>. QED BY <2>1, <2>2 DEF Consistent
<1>. QED BY <1>6, <1>7, <1>8 DEF OwnInv

LEMMA SubmitOwns ==
    ASSUME IndInv, OwnInv, Submit
    PROVE  OwnInv'
<1>1. /\ pump.at = "SUBMIT" /\ pump.key \in Jobs
      /\ UNCHANGED <<jobs, products, events, files, monitor, callback, active, worker, outgoing>>
  BY DEF Submit, PumpAt, IndInv, CommandsOK, PumpOK, Admitting, journal, process
<1>2. \A j \in Jobs : JobSame(j)
  BY <1>1 DEF JobSame
<1>3. PICK x \in Jobs : x = pump.key
  BY <1>1
<1>4. Admitted(x) /\ (\A j \in Jobs : Admitted(j) => j = x)
  BY <1>1, <1>3 DEF Admitted, Admitting
<1>5. /\ active # x /\ x \notin Items(pending) \cup Items(monitor.todo)
      /\ \A th \in Threads : ~Called(th, x)
      /\ jobs[x] = "QUEUED"
  BY <1>1, <1>3, <1>4 DEF OwnInv, OwnedOnce, Exclusive, Holding, PumpHolds
<1>6. /\ Items(monitor.todo)' = Items(monitor.todo)
      /\ \A j, th : Called(th, j)' <=> Called(th, j)
  BY <1>1 DEF Items, Called
<1>7. Consistent'
  <2>1. ASSUME NEW j \in Jobs PROVE JournalOK(j)'
    <3>1. Ending(j) => Ending(j)'
      BY <1>1 DEF Ending
    <3>. QED BY <1>2, <3>1, JournalKept DEF OwnInv, Consistent
  <2>. QED BY <2>1 DEF Consistent
<1>8. MonitorOwns' /\ WorkerSide'
  BY <1>1 DEF OwnInv, MonitorOwns, WorkerSide
<1>9. /\ \A j \in Items(monitor.todo) : JobSame(j)
      /\ \A j \in Jobs : active = j => JobSame(j)
      /\ \A th \in Threads : callback[th].stage # "NONE" => JobSame(callback[th].job)
  BY <1>2, ItemsAreJobs DEF IndInv, ThreadsOK
<1>10. CASE pending' = Append(pending, pump.key) /\ pump' = Idle
  <2>1. Items(pending)' = Items(pending) \cup {x} /\ Single(pending)'
    <3>1. pending \in Seq(Jobs) /\ Single(pending)
      BY DEF IndInv, ClientOK, OwnInv, OwnedOnce
    <3>2. PICK seq : seq = pending
      OBVIOUS
    <3>3. Items(Append(seq, x)) = Items(seq) \cup {x} /\ Single(Append(seq, x))
      BY <1>5, <3>1, <3>2, AppendItem
    <3>4. pending' = Append(seq, x)
      BY <1>3, <1>10, <3>2
    <3>. QED BY <3>2, <3>3, <3>4 DEF Items, Single
  <2>2. \A j \in Jobs : ~Admitted(j)'
    BY <1>10 DEF Admitted, Admitting, Idle
  <2>3. ASSUME NEW j \in Jobs, j # x PROVE Exclusive(j)'
    BY <1>1, <1>6, <2>1, <2>2, <2>3, ExclusiveKept DEF OwnInv, OwnedOnce
  <2>4. Exclusive(x)'
    <3>1. "pump" \in Threads
      BY DEF Threads
    <3>. QED BY <1>1, <1>5, <1>6, <2>1, <2>2, <3>1 DEF Exclusive
  <2>5. OwnedOnce'
    BY <1>1, <2>1, <2>3, <2>4 DEF OwnInv, OwnedOnce, Single
  <2>6. \A j \in Items(pending)' : jobs'[j] \in Live
    BY <1>1, <1>5, <2>1 DEF OwnInv, Holding, Live
  <2>7. Holding'
    BY <1>1, <1>9, <2>2, <2>6, HoldingKept
  <2>. QED BY <1>7, <1>8, <2>5, <2>7 DEF OwnInv
<1>11. CASE PumpTo("REFUSED") /\ UNCHANGED pending
  <2>1. Items(pending)' = Items(pending) /\ (Single(pending)' <=> Single(pending))
    BY <1>11 DEF Items, Single
  <2>2. pump'.at = "REFUSED" /\ pump'.key = pump.key
    BY <1>11 DEF PumpTo, IndInv, CommandsOK, PumpState
  <2>3. \A j \in Jobs : Admitted(j)' <=> j = x
    BY <1>3, <2>2 DEF Admitted, Admitting
  <2>4. ASSUME NEW j \in Jobs PROVE Exclusive(j)'
    BY <1>1, <1>4, <1>6, <2>1, <2>3, ExclusiveKept DEF OwnInv, OwnedOnce
  <2>5. OwnedOnce'
    BY <1>1, <2>1, <2>4 DEF OwnInv, OwnedOnce, Single
  <2>6. PumpHolds(x)'
    BY <1>1, <1>4, <1>5, <2>2 DEF OwnInv, Holding, PumpHolds
  <2>7. \A j \in Items(pending)' : jobs'[j] \in Live
    BY <1>1, <2>1 DEF OwnInv, Holding
  <2>8. Holding'
    BY <1>1, <1>9, <2>3, <2>6, <2>7, HoldingKept
  <2>. QED BY <1>7, <1>8, <2>5, <2>8 DEF OwnInv
<1>. QED BY <1>10, <1>11 DEF Submit

\* A refusal changes the job the pump holds, which nobody else has.
LEMMA RefuseOwns ==
    ASSUME IndInv, OwnInv, RefuseJob \/ RefuseProduct \/ RefuseCommand
    PROVE  OwnInv'
<1>1. /\ pump.at \in Admitting /\ pump.key \in Jobs
      /\ UNCHANGED <<files, monitor, callback, pending, active, worker, outgoing>>
  BY DEF RefuseJob, RefuseProduct, RefuseCommand, PumpAt, IndInv, CommandsOK, PumpOK,
     Admitting, client, process
<1>2. PICK x \in Jobs : x = pump.key
  BY <1>1
<1>3. Admitted(x) /\ (\A j \in Jobs : Admitted(j) => j = x)
  BY <1>1, <1>2 DEF Admitted
<1>4. /\ active # x /\ x \notin Items(pending) \cup Items(monitor.todo)
      /\ \A th \in Threads : ~Called(th, x)
      /\ PumpHolds(x) /\ JournalOK(x)
  BY <1>3 DEF OwnInv, OwnedOnce, Exclusive, Holding, Consistent
<1>5. /\ \A j \in Jobs : j # x => JobSame(j)
      /\ \A j \in Jobs : Admitted(j)' => j = x
  BY <1>1, <1>2 DEF RefuseJob, RefuseProduct, RefuseCommand, Transition, FailedProduct,
     AppendEvent, JobSame, Admitted, PumpTo, Idle, Admitting, IndInv, CommandsOK, DataOK,
     PumpState
<1>6. /\ Admitted(x)' => PumpHolds(x)'
      /\ JournalOK(x)'
  <2>1. CASE RefuseJob
    <3>1. /\ pump.at = "REFUSED" /\ jobs[x] = "QUEUED" /\ products[x] = "STAGING" /\ events[x] = {}
          /\ jobs'[x] = "FAILED" /\ UNCHANGED <<products, events>>
          /\ pump'.at = "REFUSED_JOB" /\ pump'.key = x
      BY <1>2, <1>4, <2>1 DEF RefuseJob, PumpAt, PumpTo, PumpHolds, JournalOK, Transition,
         Live, IndInv, CommandsOK, PumpState
    <3>. QED BY <3>1 DEF PumpHolds, JournalOK, Ending, Live, Terminal
  <2>2. CASE RefuseProduct
    <3>1. /\ pump.at = "REFUSED_JOB" /\ jobs[x] = "FAILED" /\ events[x] = {}
          /\ products'[x] = "FAILED" /\ UNCHANGED <<jobs, events>>
          /\ pump'.at = "REFUSED_PRODUCT" /\ pump'.key = x
      BY <1>2, <1>4, <2>2 DEF RefuseProduct, PumpAt, PumpTo, PumpHolds, FailedProduct,
         IndInv, CommandsOK, DataOK, PumpState
    <3>. QED BY <3>1 DEF PumpHolds, JournalOK, Live, Terminal
  <2>3. CASE RefuseCommand
    <3>1. /\ jobs[x] = "FAILED" /\ products[x] = "FAILED" /\ events[x] = {}
          /\ events'[x] = {"ADMISSION_REFUSED"} /\ UNCHANGED <<jobs, products>>
          /\ pump'.at = "IDLE"
      BY <1>2, <1>4, <2>3 DEF RefuseCommand, PumpAt, Idle, PumpHolds, AppendEvent,
         IndInv, DataOK
    <3>2. EndOf("ADMISSION_REFUSED") = "FAILED" /\ ProductOf("ADMISSION_REFUSED") = "FAILED"
          /\ "ADMISSION_REFUSED" \in EventNames
      BY DEF EndOf, ProductOf, EventNames
    <3>. QED BY <3>1, <3>2 DEF Admitted, Admitting, JournalOK, Live, Terminal
  <2>. QED BY <2>1, <2>2, <2>3
<1>7. /\ Items(pending)' = Items(pending) /\ Items(monitor.todo)' = Items(monitor.todo)
      /\ \A j, th : Called(th, j)' <=> Called(th, j)
  BY <1>1 DEF Items, Called
<1>8. OwnedOnce' /\ MonitorOwns' /\ WorkerSide'
  <2>1. ASSUME NEW j \in Jobs PROVE Exclusive(j)'
    BY <1>1, <1>3, <1>5, <1>7, ExclusiveKept DEF OwnInv, OwnedOnce
  <2>. QED BY <1>1, <2>1 DEF OwnInv, OwnedOnce, Single, MonitorOwns, WorkerSide
<1>9. Holding'
  <2>1. \A j \in Items(pending)' : jobs'[j] \in Live
    BY <1>4, <1>5, <1>7, ItemsAreJobs DEF OwnInv, Holding, JobSame
  <2>2. \A th \in Threads : callback[th].stage # "NONE" => JobSame(callback[th].job)
    BY <1>4, <1>5 DEF Called, IndInv, ThreadsOK
  <2>3. \A j \in Items(monitor.todo) : JobSame(j)
    BY <1>4, <1>5, ItemsAreJobs
  <2>. QED BY <1>1, <1>4, <1>5, <1>6, <2>1, <2>2, <2>3, HoldingKept
<1>10. Consistent'
  <2>1. ASSUME NEW j \in Jobs, j # x PROVE JournalOK(j)'
    <3>1. Ending(j) => Ending(j)'
      BY <1>1, <1>2, <2>1 DEF Ending
    <3>. QED BY <1>5, <2>1, <3>1, JournalKept DEF OwnInv, Consistent
  <2>. QED BY <1>6, <2>1 DEF Consistent
<1>. QED BY <1>8, <1>9, <1>10 DEF OwnInv

\* A job moved from one live state to another, never back to QUEUED, keeps
\* every promise; the places are unchanged.
LEMMA LiveMoveOwns ==
    ASSUME IndInv, OwnInv, NEW x \in Jobs, NEW from, NEW to \in Live \ {"QUEUED"},
           from \subseteq Live, jobs' = Transition(jobs, x, from, to), ~Admitted(x),
           UNCHANGED <<products, events, files, callback, pending, active, worker, outgoing>>,
           \A j \in Jobs : Admitted(j)' <=> Admitted(j),
           \A j \in Jobs : Ending(j)' <=> Ending(j),
           \/ UNCHANGED monitor
           \/ /\ monitor.at = "STARTED" /\ monitor'.at = "LOOP" /\ monitor'.todo = monitor.todo
              /\ active = x /\ "QUEUED" \in from
              /\ callback["monitor"].stage = "NONE",
           \/ UNCHANGED pump
           \/ \A j \in Jobs : ~Admitted(j)
    PROVE  OwnInv'
<1>1. /\ \A j \in Jobs : j # x => JobSame(j)
      /\ \/ jobs[x] \in from /\ jobs'[x] = to
         \/ jobs[x] \notin from /\ jobs'[x] = jobs[x]
  BY DEF Transition, JobSame, IndInv, CommandsOK
<1>2. /\ jobs[x] \in Live => jobs'[x] \in Live
      /\ jobs[x] \in Live /\ jobs[x] # "QUEUED" => jobs'[x] # "QUEUED"
      /\ jobs[x] \notin Live => jobs'[x] = jobs[x]
      /\ products'[x] = products[x] /\ events'[x] = events[x]
  BY <1>1
<1>3. /\ Items(pending)' = Items(pending) /\ Items(monitor.todo)' = Items(monitor.todo)
      /\ \A j, th : Called(th, j)' <=> Called(th, j)
      /\ (Single(pending)' <=> Single(pending)) /\ (Single(monitor.todo)' <=> Single(monitor.todo))
  BY DEF Items, Called, Single
<1>4. OwnedOnce'
  <2>1. ASSUME NEW j \in Jobs PROVE Exclusive(j)'
    BY <1>3, ExclusiveKept DEF OwnInv, OwnedOnce
  <2>. QED BY <1>3, <2>1 DEF OwnInv, OwnedOnce
<1>5. MonitorOwns' /\ WorkerSide'
  BY DEF OwnInv, MonitorOwns, WorkerSide
<1>6. Holding'
  <2>1. ASSUME NEW j \in Jobs, Admitted(j)' PROVE PumpHolds(j)'
    <3>1. j # x /\ Admitted(j) /\ UNCHANGED pump
      BY <2>1
    <3>. QED BY <1>1, <3>1, PumpKept DEF OwnInv, Holding
  <2>2. ASSUME NEW j \in (Items(pending) \cup Items(monitor.todo))' PROVE jobs'[j] \in Live
    <3>1. j \in Jobs /\ jobs[j] \in Live
      BY <1>3, ItemsAreJobs DEF OwnInv, Holding
    <3>. QED BY <1>1, <1>2, <3>1 DEF JobSame
  <2>3. ASSUME NEW j \in Jobs, active' = j PROVE ActiveHolds(j)'
    <3>1. ActiveHolds(j) /\ active = j
      BY <2>3 DEF OwnInv, Holding
    <3>2. CASE UNCHANGED monitor
      BY <1>1, <1>2, <3>1, <3>2, EndsAre DEF ActiveHolds, JobSame
    <3>3. CASE monitor.at = "STARTED" /\ monitor'.at = "LOOP" /\ active = x /\ "QUEUED" \in from
      BY <1>1, <1>2, <3>1, <3>3, EndsAre DEF ActiveHolds
    <3>. QED BY <3>2, <3>3
  <2>4. ASSUME NEW th \in Threads, callback'[th].stage # "NONE" PROVE CallHolds(callback[th])'
    <3>1. PICK call : call = callback[th]
      OBVIOUS
    <3>2. CallHolds(call) /\ call.job \in Jobs
      BY <2>4, <3>1 DEF OwnInv, Holding, IndInv, ThreadsOK
    <3>3. CallHolds(call)'
      <4>1. CASE call.job # x
        BY <1>1, <3>2, <4>1, CallKept
      <4>2. CASE call.job = x
        <5>1. EndOf(call.say) \notin Live
          BY EndsAre
        <5>. QED BY <1>2, <3>2, <4>2, <5>1 DEF CallHolds
      <4>. QED BY <4>1, <4>2
    <3>. QED BY <3>1, <3>3
  <2>. QED BY <2>1, <2>2, <2>3, <2>4 DEF Holding
<1>7. Consistent'
  <2>1. ASSUME NEW j \in Jobs, j # x PROVE JournalOK(j)'
    BY <1>1, <2>1, JournalKept DEF OwnInv, Consistent
  <2>2. JournalOK(x)'
    <3>1. JournalOK(x)
      BY DEF OwnInv, Consistent
    <3>2. CASE jobs[x] \in Live
      <4>1. events[x] = {} /\ products[x] = "STAGING"
        BY <3>1, <3>2, EndsAre DEF JournalOK
      <4>. QED BY <1>2, <3>2, <4>1, EndsAre DEF JournalOK
    <3>3. CASE jobs[x] \notin Live
      BY <1>2, <3>1, <3>3 DEF JournalOK
    <3>. QED BY <3>2, <3>3
  <2>. QED BY <2>1, <2>2 DEF Consistent
<1>. QED BY <1>4, <1>5, <1>6, <1>7 DEF OwnInv

LEMMA MarkOwns ==
    ASSUME IndInv, OwnInv, MarkCancel
    PROVE  OwnInv'
<1>1. /\ pump.at = "MARK" /\ pump'.at = "ASK" /\ TargetOf[pump.key] \in Jobs
      /\ jobs' = Transition(jobs, TargetOf[pump.key], {"QUEUED", "RUNNING"}, "CANCEL_REQUESTED")
      /\ UNCHANGED <<products, events, files, monitor, callback, pending, active, worker, outgoing>>
  BY RequestAssumption DEF MarkCancel, PumpAt, PumpTo, Canceling, IndInv, CommandsOK, PumpOK,
     PumpState, client, process
<1>2. PICK x \in Jobs : x = TargetOf[pump.key]
  BY <1>1
<1>3. \A j \in Jobs : ~Admitted(j) /\ ~Admitted(j)' /\ (Ending(j)' <=> Ending(j))
  BY <1>1 DEF Admitted, Admitting, Ending
<1>4. {"QUEUED", "RUNNING"} \subseteq Live /\ "CANCEL_REQUESTED" \in Live \ {"QUEUED"}
  BY DEF Live
<1>. QED BY <1>1, <1>2, <1>3, <1>4, LiveMoveOwns

LEMMA StartedOwns ==
    ASSUME IndInv, OwnInv, Started
    PROVE  OwnInv'
<1>1. /\ monitor.at = "STARTED" /\ monitor'.at = "LOOP" /\ monitor'.todo = monitor.todo
      /\ active \in Jobs /\ callback["monitor"].stage = "NONE"
      /\ jobs' = Transition(jobs, active, {"QUEUED"}, "RUNNING")
      /\ UNCHANGED <<products, events, files, pump, callback, pending, active, worker, outgoing>>
  BY DEF Started, MonitorAt, MonitorTo, IndInv, ThreadsOK, MonitorState, client, process
<1>2. PICK x \in Jobs : x = active
  BY <1>1
<1>3. ~Admitted(x)
  BY <1>2 DEF OwnInv, OwnedOnce, Exclusive
<1>4. \A j \in Jobs : (Admitted(j)' <=> Admitted(j)) /\ (Ending(j)' <=> Ending(j))
  BY <1>1 DEF Admitted, Ending
<1>5. {"QUEUED"} \subseteq Live /\ "RUNNING" \in Live \ {"QUEUED"} /\ "QUEUED" \in {"QUEUED"}
  BY DEF Live
<1>. QED BY <1>1, <1>2, <1>3, <1>4, <1>5, LiveMoveOwns

\* The callback that a thread enters, and the places of the other jobs.
LEMMA CallEnters ==
    ASSUME IndInv, NEW th \in Threads, NEW x \in Jobs, NEW result \in Results,
           callback[th].stage = "NONE", Call(th, x, result)
    PROVE  /\ callback'[th] = [stage |-> "READ", job |-> x, result |-> result,
                               say |-> "JOB_FAILED"]
           /\ \A j : Called(th, j)' <=> j = x
           /\ \A j : \A t \in Threads \ {th} : callback'[t] = callback[t]
                                               /\ (Called(t, j)' <=> Called(t, j))
           /\ \A j \in Jobs : Ending(j) => Ending(j)' \/ jobs[j] \notin Terminal
                                                    \/ pump'.at # pump.at
                                                    \/ pump'.key # pump.key
<1>. DEFINE new == [stage |-> "READ", job |-> x, result |-> result, say |-> "JOB_FAILED"]
<1>1. callback' = [callback EXCEPT ![th] = new] /\ new.stage = "READ" /\ new.job = x
  BY DEF Call
<1>. HIDE DEF new
<1>2. callback'[th] = new /\ \A t \in Threads \ {th} : callback'[t] = callback[t]
  BY <1>1 DEF IndInv, ThreadsOK
<1>3. \A j : Called(th, j)' <=> j = x
  BY <1>1, <1>2 DEF Called
<1>4. \A j \in Jobs : Ending(j) /\ pump'.at = pump.at /\ pump'.key = pump.key => Ending(j)'
  BY <1>2 DEF Ending
<1>. QED BY <1>2, <1>3, <1>4 DEF Called, new

LEMMA AskOwns ==
    ASSUME IndInv, OwnInv, AskWorker
    PROVE  OwnInv'
<1>1. /\ pump.at = "ASK" /\ pump'.at = "RECORD" /\ callback["pump"].stage = "NONE"
      /\ UNCHANGED <<jobs, products, events, files, monitor, active, worker, outgoing>>
  BY DEF AskWorker, PumpAt, PumpTo, IndInv, CommandsOK, PumpState, journal
<1>2. CASE UNCHANGED <<pending, callback>>
  <2>1. pump.at \notin Admitting /\ pump'.at \notin Admitting
    BY <1>1 DEF Admitting
  <2>. QED BY <1>1, <1>2, <2>1, OwnStutter
<1>3. ASSUME NEW i \in 1 .. Len(pending), pending[i] = TargetOf[pump.key],
             pending' = Without(pending, i), Call("pump", TargetOf[pump.key], "CANCELED")
      PROVE  OwnInv'
  <2>1. PICK seq : seq = pending
    OBVIOUS
  <2>2. PICK x : x = seq[i]
    OBVIOUS
  <2>3. /\ Items(Without(seq, i)) \subseteq Items(seq) \ {x} /\ Single(Without(seq, i))
        /\ x \in Items(seq)
    <3>1. seq \in Seq(Jobs) /\ Single(seq) /\ i \in 1 .. Len(seq)
      BY <2>1 DEF IndInv, ClientOK, OwnInv, OwnedOnce
    <3>. QED BY <2>2, <3>1, RemoveItem DEF Items
  <2>4. /\ x \in Jobs /\ x \in Items(pending) /\ jobs[x] \in Live /\ x = TargetOf[pump.key]
        /\ pending' = Without(seq, i)
    BY <1>3, <2>1, <2>2, <2>3, ItemsAreJobs DEF OwnInv, Holding
  <2>5. Items(pending)' \subseteq Items(pending) \ {x} /\ Single(pending)'
    <3>1. Items(pending)' = Items(Without(seq, i)) /\ (Single(pending)' <=> Single(Without(seq, i)))
      BY <2>4 DEF Items, Single
    <3>. QED BY <2>1, <2>3, <3>1
  <2>6. "pump" \in Threads /\ "CANCELED" \in Results /\ Threads \ {"pump"} = {"monitor"}
    BY DEF Threads, Results
  <2>7. Call("pump", x, "CANCELED")
    BY <1>3, <2>4
  <2>8. /\ callback'["pump"] = [stage |-> "READ", job |-> x, result |-> "CANCELED",
                                say |-> "JOB_FAILED"]
        /\ callback'["monitor"] = callback["monitor"]
        /\ \A j : Called("pump", j)' <=> j = x
        /\ \A j : Called("monitor", j)' <=> Called("monitor", j)
    BY <1>1, <2>4, <2>6, <2>7, CallEnters
  <2>9. /\ Items(monitor.todo)' = Items(monitor.todo)
        /\ (Single(monitor.todo)' <=> Single(monitor.todo))
        /\ \A j \in Jobs : JobSame(j) /\ ~Admitted(j)'
    BY <1>1 DEF Items, Single, JobSame, Admitted, Admitting
  <2>10. OwnedOnce'
    <3>1. ASSUME NEW j \in Jobs, j # x PROVE Exclusive(j)'
      <4>1. \A th \in Threads : Called(th, j)' => Called(th, j)
        BY <2>6, <2>8, <3>1
      <4>. QED BY <1>1, <2>5, <2>9, <3>1, <4>1, ExclusiveKept DEF OwnInv, OwnedOnce
    <3>2. Exclusive(x)'
      <4>1. Exclusive(x)
        BY <2>4 DEF OwnInv, OwnedOnce
      <4>. QED BY <1>1, <2>4, <2>5, <2>6, <2>8, <2>9, <4>1 DEF Exclusive
    <3>. QED BY <2>5, <2>9, <3>1, <3>2 DEF OwnInv, OwnedOnce
  <2>11. MonitorOwns' /\ WorkerSide'
    BY <1>1, <2>8 DEF OwnInv, MonitorOwns, WorkerSide
  <2>12. Holding'
    <3>1. \A j \in (Items(pending) \cup Items(monitor.todo))' : jobs'[j] \in Live
      BY <1>1, <2>5, <2>9 DEF OwnInv, Holding
    <3>2. ASSUME NEW j \in Jobs, active' = j PROVE ActiveHolds(j)'
      BY <1>1, <2>9, <3>2, ActiveKept DEF OwnInv, Holding
    <3>3. CallHolds(callback["pump"])'
      BY <1>1, <2>4, <2>8 DEF CallHolds
    <3>4. callback'["monitor"].stage # "NONE" => CallHolds(callback["monitor"])'
      <4>1. PICK call : call = callback["monitor"]
        OBVIOUS
      <4>2. call.stage # "NONE" => CallHolds(call) /\ JobSame(call.job)
        BY <2>6, <2>9, <4>1 DEF OwnInv, Holding, IndInv, ThreadsOK
      <4>3. call.stage # "NONE" => CallHolds(call)'
        BY <4>2, CallKept
      <4>. QED BY <2>8, <4>1, <4>3
    <3>. QED BY <2>6, <2>9, <3>1, <3>2, <3>3, <3>4 DEF Holding
  <2>13. Consistent'
    <3>1. ASSUME NEW j \in Jobs PROVE Ending(j) => Ending(j)'
      BY <1>1, <2>6, <2>8 DEF Ending
    <3>. QED BY <2>9, <3>1, JournalKept DEF OwnInv, Consistent
  <2>. QED BY <2>10, <2>11, <2>12, <2>13 DEF OwnInv
<1>. QED BY <1>2, <1>3 DEF AskWorker

LEMMA HandleOwns ==
    ASSUME IndInv, OwnInv, HandleCommand
    PROVE  OwnInv'
<1>1. CASE RecordCancel
  <2>1. /\ pump.at \notin Admitting /\ pump'.at \notin Admitting
        /\ UNCHANGED <<jobs, products, events, files, pending, monitor, active, callback,
                       worker, outgoing>>
    BY <1>1 DEF RecordCancel, PumpAt, Idle, Admitting, client, process
  <2>. QED BY <2>1, OwnStutter
<1>. QED BY <1>1, SubmitOwns, RefuseOwns, MarkOwns, AskOwns DEF HandleCommand

(***************************************************************************)
(* Ownership and the results.                                              *)
(***************************************************************************)
\* A handler works on one job, which stays with it.
LEMMA ResultPlaces ==
    ASSUME IndInv, OwnInv, NEW th \in Threads, HandleResult(th)
    PROVE  /\ callback[th].stage # "NONE" /\ callback[th].job \in Jobs
           /\ UNCHANGED <<pump, monitor, active, pending, worker, outgoing>>
           /\ \A t \in Threads \ {th} : callback'[t] = callback[t]
           /\ callback'[th].stage # "NONE" => callback'[th].job = callback[th].job
           /\ OwnedOnce' /\ MonitorOwns'
<1>1. /\ callback[th].stage # "NONE" /\ callback[th].job \in Jobs
      /\ UNCHANGED <<pump, monitor, active, pending, worker, outgoing>>
      /\ callback[th] \in Callback
  BY DEF HandleResult, ReadJob, ApplySuccess, ApplyRejected, ApplyFailure, ApplyRaises,
     DropProduct, Say, IndInv, ThreadsOK, client, process
<1>2. /\ \A t \in Threads \ {th} : callback'[t] = callback[t]
      /\ callback'[th].stage # "NONE" => callback'[th].job = callback[th].job
  BY <1>1 DEF HandleResult, ReadJob, ApplySuccess, ApplyRejected, ApplyFailure, ApplyRaises,
     DropProduct, Say, Returns, Goes, Call, NoCallback, IndInv, ThreadsOK, Callback
<1>3. \A j : \A t \in Threads : Called(t, j)' => Called(t, j)
  BY <1>1, <1>2 DEF Called
<1>4. /\ Items(pending)' = Items(pending) /\ Items(monitor.todo)' = Items(monitor.todo)
      /\ \A j : Admitted(j)' <=> Admitted(j)
  BY <1>1 DEF Items, Admitted
<1>5. OwnedOnce'
  <2>1. ASSUME NEW j \in Jobs PROVE Exclusive(j)'
    BY <1>1, <1>3, <1>4, ExclusiveKept DEF OwnInv, OwnedOnce
  <2>. QED BY <1>1, <2>1 DEF OwnInv, OwnedOnce, Single
<1>6. MonitorOwns'
  <2>1. "monitor" \in Threads
    BY DEF Threads
  <2>. QED BY <1>1, <1>2, <2>1 DEF OwnInv, MonitorOwns
<1>. QED BY <1>1, <1>2, <1>5, <1>6

\* What is left to show of a step of a handler: its own job and its next stage.
LEMMA ResultOwns ==
    ASSUME IndInv, OwnInv, NEW th \in Threads, HandleResult(th),
           NEW x \in Jobs, x = callback[th].job,
           \A j \in Jobs : j # x => JobSame(j),
           jobs'[x] # "ABSENT",
           callback'[th].stage # "NONE" => CallHolds(callback[th])',
           JournalOK(x)'
    PROVE  OwnInv'
<1>1. /\ callback[th].stage # "NONE"
      /\ UNCHANGED <<pump, monitor, active, pending, worker, outgoing>>
      /\ \A t \in Threads \ {th} : callback'[t] = callback[t]
      /\ OwnedOnce' /\ MonitorOwns'
  BY ResultPlaces
<1>2. Called(th, x) /\ Exclusive(x) /\ MonitorOwns /\ Threads = {"pump", "monitor"}
  BY <1>1 DEF Called, OwnInv, OwnedOnce, Threads
<1>3. /\ ~Admitted(x) /\ x \notin Items(pending) \cup Items(monitor.todo)
      /\ active = x => th = "monitor" /\ monitor.at \in {"RESULT", "LOSS"}
      /\ \A t \in Threads \ {th} : ~Called(t, x)
      /\ active # x \/ monitor.at \notin {"STARTED", "LOOP"}
  BY <1>2 DEF Exclusive, MonitorOwns, Called
<1>4. WorkerSide'
  <2>1. ASSUME outgoing # None, outgoing.result = "SUCCEEDED" PROVE outgoing.job \in files'
    <3>1. active = outgoing.job /\ monitor.at \in {"STARTED", "LOOP"} /\ active \in Jobs
          /\ active \in files
      BY <2>1 DEF OwnInv, WorkerSide, IndInv, ClientOK, Message
    <3>. QED BY <1>3, <3>1 DEF JobSame
  <2>. QED BY <1>1, <2>1 DEF OwnInv, WorkerSide
<1>5. Holding'
  <2>1. ASSUME NEW j \in Jobs, Admitted(j)' PROVE PumpHolds(j)'
    <3>1. Admitted(j) /\ j # x
      BY <1>1, <1>3, <2>1 DEF Admitted
    <3>. QED BY <1>1, <3>1, PumpKept DEF OwnInv, Holding
  <2>2. ASSUME NEW j \in (Items(pending) \cup Items(monitor.todo))' PROVE jobs'[j] \in Live
    <3>1. j \in Items(pending) \cup Items(monitor.todo)
      BY <1>1 DEF Items
    <3>. QED BY <1>3, <3>1, ItemsAreJobs DEF OwnInv, Holding, JobSame
  <2>3. ASSUME NEW j \in Jobs, active' = j PROVE ActiveHolds(j)'
    <3>1. CASE j # x
      BY <1>1, <2>3, <3>1, ActiveKept DEF OwnInv, Holding
    <3>2. CASE j = x
      BY <1>1, <1>3, <2>3, <3>2 DEF ActiveHolds
    <3>. QED BY <3>1, <3>2
  <2>4. ASSUME NEW t \in Threads \ {th}, callback'[t].stage # "NONE" PROVE CallHolds(callback[t])'
    <3>1. PICK call : call = callback[t]
      OBVIOUS
    <3>2. CallHolds(call) /\ call.job \in Jobs /\ call.job # x /\ callback'[t] = call
      BY <1>1, <1>3, <2>4, <3>1 DEF OwnInv, Holding, IndInv, ThreadsOK, Called
    <3>3. CallHolds(call)'
      BY <3>2, CallKept
    <3>. QED BY <3>2, <3>3
  <2>. QED BY <2>1, <2>2, <2>3, <2>4 DEF Holding
<1>6. Consistent'
  <2>1. ASSUME NEW j \in Jobs, j # x PROVE JournalOK(j)'
    <3>1. Ending(j) => Ending(j)'
      BY <1>1, <2>1 DEF Ending
    <3>. QED BY <2>1, <3>1, JournalKept DEF OwnInv, Consistent
  <2>. QED BY <2>1 DEF Consistent
<1>. QED BY <1>1, <1>4, <1>5, <1>6 DEF OwnInv

LEMMA HandlerOwns ==
    ASSUME IndInv, OwnInv, NEW th \in Threads, HandleResult(th)
    PROVE  OwnInv'
<1>1. callback[th].stage # "NONE" /\ callback[th].job \in Jobs /\ callback[th] \in Callback
      /\ UNCHANGED pump
  BY ResultPlaces DEF IndInv, ThreadsOK
<1>2. PICK call \in Callback : call = callback[th]
  BY <1>1
<1>3. PICK x \in Jobs : x = call.job
  BY <1>1, <1>2
<1>4. CallHolds(call) /\ JournalOK(x) /\ jobs[x] # "ABSENT"
  <2>1. CallHolds(call) /\ JournalOK(x)
    BY <1>1, <1>2 DEF OwnInv, Holding, Consistent
  <2>2. call.stage \in {"READ", "APPLY", "PRODUCT", "SAY"}
    BY <1>1, <1>2 DEF Callback
  <2>. QED BY <1>3, <2>1, <2>2, EndsAre DEF CallHolds
<1>. DEFINE Shown == /\ \A j \in Jobs : j # x => JobSame(j)
                     /\ jobs'[x] # "ABSENT"
                     /\ callback'[th].stage # "NONE" => CallHolds(callback[th])'
                     /\ JournalOK(x)'
<1>5. CASE ReadJob(th)
  <2>1. call.stage = "READ" /\ jobs[x] \in Live
    BY <1>2, <1>3, <1>4, <1>5 DEF ReadJob, CallHolds
  <2>2. /\ callback' = [callback EXCEPT ![th].stage = "APPLY", ![th].say = "JOB_FAILED"]
        /\ UNCHANGED <<files, jobs, products, events>>
    BY <1>2, <1>3, <1>5, <2>1, EndsAre DEF ReadJob, Goes, journal
  <2>3. PICK new : new = callback'[th]
    OBVIOUS
  <2>4. new.stage = "APPLY" /\ new.job = x /\ new.result = call.result
    BY <1>2, <1>3, <2>2, <2>3 DEF IndInv, ThreadsOK, Callback
  <2>5. CallHolds(new)'
    BY <1>3, <1>4, <2>1, <2>2, <2>4 DEF CallHolds
  <2>6. ~Ending(x) \/ Ending(x)' \/ jobs[x] \notin Terminal
    BY <2>1, EndsAre
  <2>7. JournalOK(x)'
    BY <1>4, <2>1, <2>2, EndsAre DEF JournalOK
  <2>8. Shown
    BY <1>4, <2>2, <2>3, <2>5, <2>7 DEF JobSame
  <2>. QED BY <1>2, <1>3, <2>8, ResultOwns
<1>6. CASE ApplySuccess(th)
  <2>1. call.stage = "APPLY" /\ call.result = "SUCCEEDED" /\ jobs[x] \in Live /\ x \in files
        /\ jobs[x] # "QUEUED" /\ products[x] = "STAGING" /\ events[x] = {}
    BY <1>2, <1>3, <1>4, <1>6, EndsAre DEF ApplySuccess, CallHolds, JournalOK
  <2>2. /\ jobs' = [jobs EXCEPT ![x] = "SUCCEEDED"] /\ products' = [products EXCEPT ![x] = "READY"]
        /\ callback' = [callback EXCEPT ![th].stage = "SAY", ![th].say = "JOB_COMPLETED"]
        /\ UNCHANGED <<files, events>>
    BY <1>2, <1>3, <1>6, <2>1 DEF ApplySuccess, CompleteJob, Goes, Live
  <2>3. /\ jobs'[x] = "SUCCEEDED" /\ products'[x] = "READY"
        /\ \A j \in Jobs : j # x => JobSame(j)
    BY <2>2 DEF IndInv, CommandsOK, DataOK, JobSame
  <2>4. PICK new : new = callback'[th]
    OBVIOUS
  <2>5. new.stage = "SAY" /\ new.job = x /\ new.say = "JOB_COMPLETED"
    BY <1>2, <1>3, <2>2, <2>4 DEF IndInv, ThreadsOK, Callback
  <2>6. CallHolds(new)'
    BY <2>1, <2>2, <2>3, <2>5 DEF CallHolds, EndOf, ProductOf
  <2>7. JournalOK(x)'
    BY <2>1, <2>2, <2>3 DEF JournalOK, Live
  <2>8. Shown
    BY <2>3, <2>4, <2>6, <2>7
  <2>. QED BY <1>2, <1>3, <2>8, ResultOwns
<1>7. CASE ApplyRejected(th)
  <2>1. call.stage = "APPLY" /\ call.result = "REJECTED" /\ jobs[x] \in {"RUNNING", "CANCEL_REQUESTED"}
        /\ products[x] = "STAGING" /\ events[x] = {}
    BY <1>2, <1>3, <1>4, <1>7, EndsAre DEF ApplyRejected, CallHolds, JournalOK, Live
  <2>2. /\ jobs' = Transition(jobs, x, {"RUNNING", "CANCEL_REQUESTED"}, "SUCCEEDED")
        /\ callback' = [callback EXCEPT ![th].stage = "PRODUCT",
                                        ![th].say = "SCIENCE_DECISION_REJECTED"]
        /\ UNCHANGED <<files, products, events>>
    BY <1>2, <1>3, <1>7 DEF ApplyRejected, Goes
  <2>3. jobs'[x] = "SUCCEEDED" /\ (\A j \in Jobs : j # x => JobSame(j))
    BY <2>1, <2>2 DEF IndInv, CommandsOK, JobSame, Transition
  <2>4. PICK new : new = callback'[th]
    OBVIOUS
  <2>5. new.stage = "PRODUCT" /\ new.job = x /\ new.say = "SCIENCE_DECISION_REJECTED"
    BY <1>2, <1>3, <2>2, <2>4 DEF IndInv, ThreadsOK, Callback
  <2>6. CallHolds(new)'
    BY <2>1, <2>2, <2>3, <2>5 DEF CallHolds, EndOf
  <2>7. Ending(x)'
    BY <2>4, <2>5 DEF Ending
  <2>8. JournalOK(x)'
    BY <2>1, <2>2, <2>3, <2>7 DEF JournalOK, Live
  <2>9. Shown
    BY <2>3, <2>4, <2>6, <2>8
  <2>. QED BY <1>2, <1>3, <2>9, ResultOwns
<1>8. CASE ApplyFailure(th)
  <2>1. /\ call.stage = "APPLY" /\ call.result \in {"FAILED", "TIMEOUT", "CANCELED"}
        /\ jobs[x] \in Live /\ products[x] = "STAGING" /\ events[x] = {}
        /\ jobs' = Transition(jobs, x, Expected(call.result), call.result)
        /\ UNCHANGED <<files, products, events>>
    BY <1>2, <1>3, <1>4, <1>8, EndsAre DEF ApplyFailure, CallHolds, JournalOK
  <2>2. CASE Ends(x, call.result)
    <3>1. callback' = [callback EXCEPT ![th].stage = "PRODUCT",
                                       ![th].say = FinalEvent(call.result)]
      BY <1>2, <1>3, <1>8, <2>2 DEF ApplyFailure, Goes
    <3>2. jobs'[x] = call.result /\ (\A j \in Jobs : j # x => JobSame(j))
      BY <2>1, <2>2 DEF IndInv, CommandsOK, JobSame, Transition, Ends
    <3>3. /\ FinalEvent(call.result) # "JOB_COMPLETED"
          /\ EndOf(FinalEvent(call.result)) = call.result
          /\ call.result \in Terminal \ {"SUCCEEDED"}
      BY <2>1 DEF FinalEvent, EndOf, Terminal
    <3>4. PICK new : new = callback'[th]
      OBVIOUS
    <3>5. new.stage = "PRODUCT" /\ new.job = x /\ new.say = FinalEvent(call.result)
      BY <1>2, <1>3, <3>1, <3>4 DEF IndInv, ThreadsOK, Callback
    <3>6. CallHolds(new)'
      BY <2>1, <3>2, <3>3, <3>5 DEF CallHolds
    <3>7. Ending(x)'
      BY <3>4, <3>5 DEF Ending
    <3>8. JournalOK(x)'
      BY <2>1, <3>2, <3>3, <3>7, EndsAre DEF JournalOK
    <3>9. Shown
      BY <3>2, <3>3, <3>4, <3>6, <3>8, EndsAre
    <3>. QED BY <1>2, <1>3, <3>9, ResultOwns
  <2>3. CASE ~Ends(x, call.result)
    <3>1. callback' = [callback EXCEPT ![th] = NoCallback]
      BY <1>2, <1>3, <1>8, <2>3 DEF ApplyFailure, Returns
    <3>2. jobs'[x] = jobs[x] /\ (\A j \in Jobs : j # x => JobSame(j))
      BY <2>1, <2>3 DEF IndInv, CommandsOK, JobSame, Transition, Ends
    <3>3. callback'[th].stage = "NONE"
      BY <3>1 DEF NoCallback, IndInv, ThreadsOK
    <3>4. JournalOK(x)'
      BY <2>1, <3>2, EndsAre DEF JournalOK
    <3>5. Shown
      BY <1>4, <3>2, <3>3, <3>4
    <3>. QED BY <1>2, <1>3, <3>5, ResultOwns
  <2>. QED BY <2>2, <2>3
<1>9. CASE ApplyRaises(th)
  <2>1. /\ call.stage = "APPLY" /\ jobs[x] \in Live
        /\ Call(th, x, "FAILED") /\ UNCHANGED <<files, jobs, products, events>>
    BY <1>2, <1>3, <1>4, <1>9 DEF ApplyRaises, CallHolds, journal
  <2>2. PICK new : new = callback'[th]
    OBVIOUS
  <2>3. new.stage = "READ" /\ new.job = x /\ new.result = "FAILED"
    BY <2>1, <2>2 DEF Call, IndInv, ThreadsOK
  <2>4. CallHolds(new)'
    BY <2>1, <2>3 DEF CallHolds
  <2>5. JournalOK(x)'
    BY <1>4, <2>1, EndsAre DEF JournalOK
  <2>6. Shown
    BY <1>4, <2>1, <2>2, <2>4, <2>5 DEF JobSame
  <2>. QED BY <1>2, <1>3, <2>6, ResultOwns
<1>10. CASE DropProduct(th)
  <2>1. /\ call.stage = "PRODUCT" /\ call.say # "JOB_COMPLETED" /\ jobs[x] = EndOf(call.say)
        /\ products[x] = "STAGING" /\ events[x] = {}
        /\ products' = FailedProduct(x) /\ files' = files \ {x}
        /\ callback' = [callback EXCEPT ![th].stage = "SAY", ![th].say = call.say]
        /\ UNCHANGED <<jobs, events>>
    BY <1>2, <1>3, <1>4, <1>10 DEF DropProduct, CallHolds, Goes
  <2>2. products'[x] = "FAILED" /\ (\A j \in Jobs : j # x => JobSame(j))
    BY <2>1 DEF IndInv, DataOK, JobSame, FailedProduct
  <2>3. PICK new : new = callback'[th]
    OBVIOUS
  <2>4. new.stage = "SAY" /\ new.job = x /\ new.say = call.say
    BY <1>2, <1>3, <2>1, <2>3 DEF IndInv, ThreadsOK, Callback
  <2>5. CallHolds(new)'
    BY <2>1, <2>2, <2>4 DEF CallHolds, ProductOf
  <2>6. JournalOK(x)'
    BY <2>1, <2>2, EndsAre DEF JournalOK
  <2>7. Shown
    BY <1>4, <2>1, <2>2, <2>3, <2>5, <2>6
  <2>. QED BY <1>2, <1>3, <2>7, ResultOwns
<1>11. CASE Say(th)
  <2>1. /\ call.stage = "SAY" /\ jobs[x] = EndOf(call.say) /\ products[x] = ProductOf(call.say)
        /\ events[x] = {} /\ call.say \in EventNames
        /\ events' = [events EXCEPT ![x] = @ \cup {call.say}]
        /\ callback' = [callback EXCEPT ![th] = NoCallback]
        /\ UNCHANGED <<jobs, products, files>>
    BY <1>2, <1>3, <1>4, <1>11 DEF Say, CallHolds, Returns, AppendEvent, Callback
  <2>2. events'[x] = {call.say} /\ (\A j \in Jobs : j # x => JobSame(j))
    BY <2>1 DEF IndInv, DataOK, JobSame
  <2>3. callback'[th].stage = "NONE"
    BY <2>1 DEF NoCallback, IndInv, ThreadsOK
  <2>4. JournalOK(x)'
    BY <1>4, <2>1, <2>2, EndsAre DEF JournalOK
  <2>5. Shown
    BY <1>4, <2>1, <2>2, <2>3, <2>4
  <2>. QED BY <1>2, <1>3, <2>5, ResultOwns
<1>. QED BY <1>5, <1>6, <1>7, <1>8, <1>9, <1>10, <1>11 DEF HandleResult

(***************************************************************************)
(* Ownership and the monitor thread.                                       *)
(***************************************************************************)
\* Consistent, for a step that moves jobs between places only.
LEMMA ConsistentKept ==
    ASSUME IndInv, OwnInv, UNCHANGED <<jobs, products, events, files, pump>>,
           \A th \in Threads : callback[th].stage = "PRODUCT" => callback'[th] = callback[th]
    PROVE  Consistent' /\ \A j \in Jobs : JobSame(j)
<1>1. \A j \in Jobs : JobSame(j)
  BY DEF JobSame
<1>2. \A j \in Jobs : Ending(j) => Ending(j)'
  BY DEF Ending
<1>. QED BY <1>1, <1>2, JournalKept DEF OwnInv, Consistent

\* What the callbacks hold, for those that the step leaves alone.
LEMMA CallsKept ==
    ASSUME IndInv, OwnInv, NEW th \in Threads, callback'[th] = callback[th],
           callback[th].stage # "NONE" => JobSame(callback[th].job)
    PROVE  callback'[th].stage # "NONE" => CallHolds(callback[th])'
<1>1. PICK call : call = callback[th]
  OBVIOUS
<1>2. call.stage # "NONE" => CallHolds(call) /\ JobSame(call.job)
  BY <1>1 DEF OwnInv, Holding
<1>3. call.stage # "NONE" => CallHolds(call)'
  BY <1>2, CallKept
<1>. QED BY <1>1, <1>3

LEMMA DispatchOwns ==
    ASSUME IndInv, OwnInv, Dispatch
    PROVE  OwnInv'
<1>1. /\ monitor.at = "LOOP" /\ callback["monitor"].stage = "NONE"
      /\ active = None /\ pending # << >>
      /\ active' = Head(pending) /\ pending' = Tail(pending)
      /\ monitor'.at = "STARTED" /\ monitor'.todo = monitor.todo
      /\ UNCHANGED <<jobs, products, events, files, pump, callback, outgoing>>
  BY DEF Dispatch, MonitorAt, MonitorTo, IndInv, ThreadsOK, MonitorState, journal
<1>2. PICK seq : seq = pending
  OBVIOUS
<1>3. PICK x : x = Head(seq)
  OBVIOUS
<1>4. /\ x \in Items(pending) /\ x \in Jobs
      /\ Items(pending)' \subseteq Items(pending) \ {x} /\ Single(pending)'
  <2>1. seq \in Seq(Jobs) /\ Single(seq) /\ seq # << >>
    BY <1>1, <1>2 DEF IndInv, ClientOK, OwnInv, OwnedOnce
  <2>2. /\ Head(seq) \in Items(seq) /\ Head(seq) \in Jobs
        /\ Items(Tail(seq)) \subseteq Items(seq) \ {Head(seq)} /\ Single(Tail(seq))
    BY <2>1, TakeItem
  <2>3. Items(pending)' = Items(Tail(seq)) /\ (Single(pending)' <=> Single(Tail(seq)))
    BY <1>1, <1>2 DEF Items, Single
  <2>. QED BY <1>2, <1>3, <2>2, <2>3
<1>5. /\ active' = x /\ jobs[x] \in Live
      /\ ~Admitted(x) /\ x \notin Items(monitor.todo) /\ (\A th \in Threads : ~Called(th, x))
  BY <1>1, <1>2, <1>3, <1>4 DEF OwnInv, OwnedOnce, Exclusive, Holding
<1>6. /\ Items(monitor.todo)' = Items(monitor.todo)
      /\ (Single(monitor.todo)' <=> Single(monitor.todo))
      /\ \A j : (Admitted(j)' <=> Admitted(j)) /\ \A th : Called(th, j)' <=> Called(th, j)
  BY <1>1 DEF Items, Single, Admitted, Called
<1>7. OwnedOnce'
  <2>1. ASSUME NEW j \in Jobs, j # x PROVE Exclusive(j)'
    BY <1>4, <1>5, <1>6, <2>1, ExclusiveKept DEF OwnInv, OwnedOnce
  <2>2. Exclusive(x)'
    <3>1. "pump" \in Threads
      BY DEF Threads
    <3>. QED BY <1>4, <1>5, <1>6, <3>1 DEF Exclusive
  <2>. QED BY <1>4, <1>6, <2>1, <2>2 DEF OwnInv, OwnedOnce
<1>8. MonitorOwns'
  BY <1>1 DEF MonitorOwns
<1>9. WorkerSide'
  <2>1. worker.state # "RUNNING" /\ outgoing = None
    <3>1. worker.state = "RUNNING" => worker.job # None
      BY RequestAssumption DEF IndInv, ClientOK, Keys
    <3>2. outgoing # None => outgoing.job # None
      BY RequestAssumption DEF IndInv, ClientOK, Keys, Message
    <3>. QED BY <1>1, <3>1, <3>2 DEF OwnInv, WorkerSide
  <2>2. worker'.state = "RUNNING" => worker'.job = x
    BY <1>2, <1>3, <2>1 DEF Dispatch
  <2>. QED BY <1>1, <1>5, <2>1, <2>2 DEF WorkerSide
<1>10. Consistent' /\ (\A j \in Jobs : JobSame(j))
  BY <1>1, ConsistentKept
<1>11. Holding'
  <2>1. ASSUME NEW j \in Jobs, Admitted(j)' PROVE PumpHolds(j)'
    BY <1>1, <1>6, <1>10, <2>1, PumpKept DEF OwnInv, Holding
  <2>2. \A j \in (Items(pending) \cup Items(monitor.todo))' : jobs'[j] \in Live
    BY <1>1, <1>4, <1>6 DEF OwnInv, Holding
  <2>3. ASSUME NEW j \in Jobs, active' = j PROVE ActiveHolds(j)'
    BY <1>1, <1>5, <2>3, EndsAre DEF ActiveHolds
  <2>4. ASSUME NEW th \in Threads, callback'[th].stage # "NONE" PROVE CallHolds(callback[th])'
    BY <1>1, <1>10, <2>4, CallsKept DEF IndInv, ThreadsOK
  <2>. QED BY <2>1, <2>2, <2>3, <2>4 DEF Holding
<1>. QED BY <1>7, <1>8, <1>9, <1>10, <1>11 DEF OwnInv

\* The monitor lets go of the active job, or starts over.
LEMMA ReleaseOwns ==
    ASSUME IndInv, OwnInv,
           monitor.at \in {"RESULT", "LOSS"}, callback["monitor"].stage = "NONE",
           active' = None, Items(monitor.todo)' \subseteq Items(monitor.todo),
           Single(monitor.todo)',
           UNCHANGED <<jobs, products, events, files, pump, callback, pending>>,
           worker' = worker \/ worker'.state # "RUNNING",
           outgoing' \in {outgoing, None}
    PROVE  OwnInv'
<1>1. /\ Items(pending)' = Items(pending) /\ (Single(pending)' <=> Single(pending))
      /\ \A j : (Admitted(j)' <=> Admitted(j)) /\ \A th : Called(th, j)' <=> Called(th, j)
  BY DEF Items, Single, Admitted, Called
<1>2. \A j \in Jobs : active' # j
  BY RequestAssumption DEF Keys
<1>3. OwnedOnce'
  <2>1. ASSUME NEW j \in Jobs PROVE Exclusive(j)'
    BY <1>1, <1>2, ExclusiveKept DEF OwnInv, OwnedOnce
  <2>. QED BY <1>1, <2>1 DEF OwnInv, OwnedOnce
<1>4. MonitorOwns'
  BY DEF MonitorOwns
<1>5. WorkerSide'
  BY DEF OwnInv, WorkerSide
<1>6. Consistent' /\ (\A j \in Jobs : JobSame(j))
  BY ConsistentKept
<1>7. Holding'
  <2>1. ASSUME NEW j \in Jobs, Admitted(j)' PROVE PumpHolds(j)'
    BY <1>1, <1>6, <2>1, PumpKept DEF OwnInv, Holding
  <2>2. \A j \in (Items(pending) \cup Items(monitor.todo))' : jobs'[j] \in Live
    BY <1>1 DEF OwnInv, Holding
  <2>3. ASSUME NEW th \in Threads, callback'[th].stage # "NONE" PROVE CallHolds(callback[th])'
    BY <1>6, <2>3, CallsKept DEF IndInv, ThreadsOK
  <2>. QED BY <1>2, <2>1, <2>2, <2>3 DEF Holding
<1>. QED BY <1>3, <1>4, <1>5, <1>6, <1>7 DEF OwnInv

LEMMA ReleasesOwn ==
    ASSUME IndInv, OwnInv, Release \/ ReleaseLost \/ EndLoss
    PROVE  OwnInv'
<1>1. /\ monitor.at \in {"RESULT", "LOSS"} /\ callback["monitor"].stage = "NONE"
      /\ active' = None
      /\ UNCHANGED <<jobs, products, events, files, pump, callback, pending>>
      /\ worker' = worker \/ worker'.state # "RUNNING"
      /\ outgoing' \in {outgoing, None}
  BY DEF Release, ReleaseLost, EndLoss, MonitorAt, Spawned, journal, process
<1>2. monitor'.todo = monitor.todo \/ monitor'.todo = << >>
  BY DEF Release, ReleaseLost, EndLoss, MonitorTo, Looping, IndInv, ThreadsOK, MonitorState
<1>3. Items(monitor.todo)' \subseteq Items(monitor.todo) /\ Single(monitor.todo)'
  <2>1. CASE monitor'.todo = monitor.todo
    BY <2>1 DEF Items, Single, OwnInv, OwnedOnce
  <2>2. CASE monitor'.todo = << >>
    BY <2>2 DEF Items, Single
  <2>. QED BY <1>2, <2>1, <2>2
<1>. QED BY <1>1, <1>3, ReleaseOwns

LEMMA TakeOwns ==
    ASSUME IndInv, OwnInv, TakeResult
    PROVE  OwnInv'
<1>1. /\ monitor.at = "LOOP" /\ callback["monitor"].stage = "NONE"
      /\ outgoing # None /\ active = outgoing.job
      /\ outgoing.job \in Jobs /\ outgoing.result \in Results
      /\ Call("monitor", outgoing.job, outgoing.result) /\ outgoing' = None
      /\ monitor'.at = "RESULT" /\ monitor'.todo = monitor.todo
      /\ UNCHANGED <<jobs, products, events, files, pump, active, pending, worker>>
  BY DEF TakeResult, MonitorAt, MonitorTo, IndInv, ThreadsOK, MonitorState, ClientOK,
     Message, journal, client
<1>2. PICK x \in Jobs : x = outgoing.job
  BY <1>1
<1>3. PICK result \in Results : result = outgoing.result
  BY <1>1
<1>4. "monitor" \in Threads /\ Threads \ {"monitor"} = {"pump"}
  BY DEF Threads
<1>5. /\ callback'["monitor"] = [stage |-> "READ", job |-> x, result |-> result,
                                 say |-> "JOB_FAILED"]
      /\ callback'["pump"] = callback["pump"]
      /\ \A j : Called("monitor", j)' <=> j = x
      /\ \A j : Called("pump", j)' <=> Called("pump", j)
  BY <1>1, <1>2, <1>3, <1>4, CallEnters
<1>6. /\ active = x /\ jobs[x] \in Live /\ jobs[x] # "QUEUED"
      /\ worker.state # "RUNNING"
      /\ result = "SUCCEEDED" => x \in files
  BY <1>1, <1>2, <1>3 DEF OwnInv, WorkerSide, Holding, ActiveHolds
<1>7. /\ Items(pending)' = Items(pending) /\ Items(monitor.todo)' = Items(monitor.todo)
      /\ (Single(pending)' <=> Single(pending)) /\ (Single(monitor.todo)' <=> Single(monitor.todo))
      /\ \A j : Admitted(j)' <=> Admitted(j)
  BY <1>1 DEF Items, Single, Admitted
<1>8. OwnedOnce'
  <2>1. ASSUME NEW j \in Jobs, j # x PROVE Exclusive(j)'
    <3>1. \A th \in Threads : Called(th, j)' => Called(th, j)
      BY <1>4, <1>5, <2>1
    <3>. QED BY <1>1, <1>7, <2>1, <3>1, ExclusiveKept DEF OwnInv, OwnedOnce
  <2>2. Exclusive(x)'
    BY <1>1, <1>4, <1>5, <1>6, <1>7 DEF OwnInv, OwnedOnce, Exclusive
  <2>. QED BY <1>7, <2>1, <2>2 DEF OwnInv, OwnedOnce
<1>9. MonitorOwns' /\ WorkerSide'
  BY <1>1, <1>5, <1>6 DEF MonitorOwns, WorkerSide
<1>10. Consistent' /\ (\A j \in Jobs : JobSame(j))
  BY <1>1, <1>4, <1>5, ConsistentKept
<1>11. Holding'
  <2>1. ASSUME NEW j \in Jobs, Admitted(j)' PROVE PumpHolds(j)'
    BY <1>1, <1>7, <1>10, <2>1, PumpKept DEF OwnInv, Holding
  <2>2. \A j \in (Items(pending) \cup Items(monitor.todo))' : jobs'[j] \in Live
    BY <1>1, <1>7 DEF OwnInv, Holding
  <2>3. ASSUME NEW j \in Jobs, active' = j PROVE ActiveHolds(j)'
    BY <1>1, <1>6, <2>3, EndsAre DEF ActiveHolds
  <2>4. callback'["pump"].stage # "NONE" => CallHolds(callback["pump"])'
    BY <1>4, <1>5, <1>10, CallsKept DEF IndInv, ThreadsOK
  <2>5. CallHolds(callback["monitor"])'
    BY <1>1, <1>5, <1>6 DEF CallHolds
  <2>. QED BY <1>4, <2>1, <2>2, <2>3, <2>4, <2>5 DEF Holding
<1>. QED BY <1>8, <1>9, <1>10, <1>11 DEF OwnInv

\* A lost worker: the active job goes to the monitor's callback, and all that
\* waited may be left over.
LEMMA LoseOwns ==
    ASSUME IndInv, OwnInv, NEW result \in {"FAILED", "TIMEOUT", "CANCELED"},
           MonitorAt("LOOP"), Lose(result)
    PROVE  OwnInv'
<1>1. /\ monitor.at = "LOOP" /\ callback["monitor"].stage = "NONE"
      /\ worker' = [state |-> "DEAD", job |-> None] /\ outgoing' = None
      /\ monitor'.at = "LOSS"
      /\ IF active = None THEN UNCHANGED callback ELSE Call("monitor", active, result)
      /\ UNCHANGED <<jobs, products, events, files, pump, active>>
      /\ result \in Results
  BY DEF MonitorAt, Lose, journal, Results
<1>2. \/ pending' = << >> /\ monitor'.todo = pending
      \/ pending' = pending /\ monitor'.todo = << >>
  BY DEF Lose, Abandoned
<1>3. /\ Items(pending)' \cup Items(monitor.todo)' \subseteq Items(pending)
      /\ Items(pending)' \cap Items(monitor.todo)' = {}
      /\ Single(pending)' /\ Single(monitor.todo)'
  <2>1. CASE pending' = << >> /\ monitor'.todo = pending
    BY <2>1 DEF Items, Single, OwnInv, OwnedOnce
  <2>2. CASE pending' = pending /\ monitor'.todo = << >>
    BY <2>2 DEF Items, Single, OwnInv, OwnedOnce
  <2>. QED BY <1>2, <2>1, <2>2
<1>4. "monitor" \in Threads /\ Threads \ {"monitor"} = {"pump"} /\ "pump" \in Threads
  BY DEF Threads
<1>5. /\ callback'["pump"] = callback["pump"]
      /\ \A j : Called("pump", j)' <=> Called("pump", j)
      /\ \A j \in Jobs : Called("monitor", j)' => j = active
      /\ callback'["monitor"].stage # "NONE" =>
            /\ active \in Jobs
            /\ callback'["monitor"] = [stage |-> "READ", job |-> active, result |-> result,
                                       say |-> "JOB_FAILED"]
  <2>1. CASE active = None
    BY <1>1, <2>1 DEF Called
  <2>2. CASE active # None
    <3>1. PICK x \in Jobs : x = active
      BY <2>2 DEF IndInv, ThreadsOK
    <3>2. Call("monitor", x, result)
      BY <1>1, <2>2, <3>1
    <3>. QED BY <1>1, <1>4, <3>1, <3>2, CallEnters
  <2>. QED BY <2>1, <2>2
<1>6. \A j : Admitted(j)' <=> Admitted(j)
  BY <1>1 DEF Admitted
<1>7. OwnedOnce'
  <2>1. ASSUME NEW j \in Jobs PROVE Exclusive(j)'
    <3>1. Exclusive(j)
      BY DEF OwnInv, OwnedOnce
    <3>2. /\ j \in Items(pending)' => j \in Items(pending) /\ j \notin Items(monitor.todo)'
          /\ j \in Items(monitor.todo)' => j \in Items(pending)
      BY <1>3
    <3>3. ASSUME NEW th \in Threads, Called(th, j)'
          PROVE  \/ th = "pump" /\ Called("pump", j)
                 \/ th = "monitor" /\ active = j
      BY <1>4, <1>5, <3>3 DEF Called
    <3>4. Called("pump", j)' => Called("pump", j)
      BY <1>5
    <3>. QED BY <1>1, <1>4, <1>6, <3>1, <3>2, <3>3, <3>4 DEF Exclusive
  <2>. QED BY <1>3, <2>1 DEF OwnedOnce
<1>8. MonitorOwns' /\ WorkerSide'
  BY <1>1, <1>5 DEF MonitorOwns, WorkerSide
<1>9. Consistent' /\ (\A j \in Jobs : JobSame(j))
  BY <1>1, <1>4, <1>5, ConsistentKept
<1>10. Holding'
  <2>1. ASSUME NEW j \in Jobs, Admitted(j)' PROVE PumpHolds(j)'
    BY <1>1, <1>6, <1>9, <2>1, PumpKept DEF OwnInv, Holding
  <2>2. \A j \in (Items(pending) \cup Items(monitor.todo))' : jobs'[j] \in Live
    BY <1>1, <1>3 DEF OwnInv, Holding
  <2>3. ASSUME NEW j \in Jobs, active' = j PROVE ActiveHolds(j)'
    BY <1>1, <2>3 DEF ActiveHolds, OwnInv, Holding
  <2>4. callback'["pump"].stage # "NONE" => CallHolds(callback["pump"])'
    BY <1>4, <1>5, <1>9, CallsKept DEF IndInv, ThreadsOK
  <2>5. callback'["monitor"].stage # "NONE" => CallHolds(callback["monitor"])'
    <3>1. active \in Jobs => jobs[active] \in Live
      BY <1>1 DEF OwnInv, Holding, ActiveHolds
    <3>. QED BY <1>1, <1>5, <3>1 DEF CallHolds
  <2>. QED BY <1>4, <2>1, <2>2, <2>3, <2>4, <2>5 DEF Holding
<1>. QED BY <1>7, <1>8, <1>9, <1>10 DEF OwnInv

LEMMA FailPendingOwns ==
    ASSUME IndInv, OwnInv, FailPending
    PROVE  OwnInv'
<1>1. /\ monitor.at = "LOSS" /\ callback["monitor"].stage = "NONE"
      /\ active = None /\ monitor.todo # << >>
      /\ Call("monitor", Head(monitor.todo), "FAILED")
      /\ monitor'.at = "LOSS" /\ monitor'.todo = Tail(monitor.todo)
      /\ UNCHANGED <<jobs, products, events, files, pump, active, pending, worker, outgoing>>
  BY DEF FailPending, MonitorAt, IndInv, ThreadsOK, MonitorState, journal, client, process
<1>2. PICK seq : seq = monitor.todo
  OBVIOUS
<1>3. PICK x : x = Head(seq)
  OBVIOUS
<1>4. /\ x \in Items(monitor.todo) /\ x \in Jobs
      /\ Items(monitor.todo)' \subseteq Items(monitor.todo) \ {x} /\ Single(monitor.todo)'
  <2>1. seq \in Seq(Jobs) /\ Single(seq) /\ seq # << >>
    BY <1>1, <1>2 DEF IndInv, ThreadsOK, MonitorState, OwnInv, OwnedOnce
  <2>2. /\ Head(seq) \in Items(seq) /\ Head(seq) \in Jobs
        /\ Items(Tail(seq)) \subseteq Items(seq) \ {Head(seq)} /\ Single(Tail(seq))
    BY <2>1, TakeItem
  <2>3. Items(monitor.todo)' = Items(Tail(seq)) /\ (Single(monitor.todo)' <=> Single(Tail(seq)))
    BY <1>1, <1>2 DEF Items, Single
  <2>. QED BY <1>2, <1>3, <2>2, <2>3
<1>5. /\ jobs[x] \in Live /\ active # x
      /\ ~Admitted(x) /\ x \notin Items(pending) /\ (\A th \in Threads : ~Called(th, x))
  BY <1>4 DEF OwnInv, OwnedOnce, Exclusive, Holding
<1>6. "monitor" \in Threads /\ Threads \ {"monitor"} = {"pump"} /\ "pump" \in Threads
      /\ "FAILED" \in Results
  BY DEF Threads, Results
<1>7. /\ callback'["monitor"] = [stage |-> "READ", job |-> x, result |-> "FAILED",
                                 say |-> "JOB_FAILED"]
      /\ callback'["pump"] = callback["pump"]
      /\ \A j : Called("monitor", j)' <=> j = x
      /\ \A j : Called("pump", j)' <=> Called("pump", j)
  <2>1. Call("monitor", x, "FAILED")
    BY <1>1, <1>2, <1>3
  <2>. QED BY <1>1, <1>4, <1>6, <2>1, CallEnters
<1>8. /\ Items(pending)' = Items(pending) /\ (Single(pending)' <=> Single(pending))
      /\ \A j : Admitted(j)' <=> Admitted(j)
  BY <1>1 DEF Items, Single, Admitted
<1>9. OwnedOnce'
  <2>1. ASSUME NEW j \in Jobs, j # x PROVE Exclusive(j)'
    <3>1. \A th \in Threads : Called(th, j)' => Called(th, j)
      BY <1>6, <1>7, <2>1
    <3>. QED BY <1>1, <1>4, <1>8, <2>1, <3>1, ExclusiveKept DEF OwnInv, OwnedOnce
  <2>2. Exclusive(x)'
    BY <1>1, <1>4, <1>5, <1>6, <1>7, <1>8 DEF Exclusive
  <2>. QED BY <1>4, <1>8, <2>1, <2>2 DEF OwnInv, OwnedOnce
<1>10. MonitorOwns' /\ WorkerSide'
  BY <1>1 DEF OwnInv, MonitorOwns, WorkerSide
<1>11. Consistent' /\ (\A j \in Jobs : JobSame(j))
  BY <1>1, <1>6, <1>7, ConsistentKept
<1>12. Holding'
  <2>1. ASSUME NEW j \in Jobs, Admitted(j)' PROVE PumpHolds(j)'
    BY <1>1, <1>8, <1>11, <2>1, PumpKept DEF OwnInv, Holding
  <2>2. \A j \in (Items(pending) \cup Items(monitor.todo))' : jobs'[j] \in Live
    BY <1>1, <1>4, <1>8 DEF OwnInv, Holding
  <2>3. \A j \in Jobs : active' # j
    BY <1>1, RequestAssumption DEF Keys
  <2>4. callback'["pump"].stage # "NONE" => CallHolds(callback["pump"])'
    BY <1>6, <1>7, <1>11, CallsKept DEF IndInv, ThreadsOK
  <2>5. CallHolds(callback["monitor"])'
    BY <1>1, <1>5, <1>7 DEF CallHolds
  <2>. QED BY <1>6, <2>1, <2>2, <2>3, <2>4, <2>5 DEF Holding
<1>. QED BY <1>9, <1>10, <1>11, <1>12 DEF OwnInv

LEMMA MonitorStepOwns ==
    ASSUME IndInv, OwnInv, Monitor
    PROVE  OwnInv'
<1>1. CASE Heartbeat \/ CheckDeadline
  <2>1. /\ UNCHANGED <<jobs, products, events, files, pump, pending, monitor, active, callback,
                       worker, outgoing>>
    BY <1>1 DEF Heartbeat, CheckDeadline, journal, process
  <2>. QED BY <2>1, OwnStutter
<1>2. CASE LoseWorker \/ LoseToDeadline \/ LoseToCancel
  BY <1>2, LoseOwns DEF LoseWorker, LoseToDeadline, LoseToCancel
<1>. QED
  BY <1>1, <1>2, DispatchOwns, StartedOwns, TakeOwns, ReleasesOwn, FailPendingOwns DEF Monitor

(***************************************************************************)
(* Ownership, the worker process and restarts.                             *)
(***************************************************************************)
LEMMA WorkerStepOwns ==
    ASSUME IndInv, OwnInv,
           \/ WorkerBoots \/ Publish \/ WorkerDies \/ DeadlinePasses
           \/ \E result \in Results : WorkerEnds(result)
    PROVE  OwnInv'
<1>1. UNCHANGED <<jobs, products, events, pump, pending, monitor, active, callback>>
  BY DEF WorkerBoots, Publish, WorkerDies, DeadlinePasses, WorkerEnds, journal, client
<1>2. CASE WorkerBoots \/ Publish \/ WorkerDies \/ DeadlinePasses
  <2>1. /\ UNCHANGED outgoing /\ files \subseteq files'
        /\ worker'.state = "RUNNING" => worker' = worker
    BY <1>2 DEF WorkerBoots, Publish, WorkerDies, DeadlinePasses, process, IndInv, ClientOK,
       WorkerState
  <2>. QED BY <1>1, <2>1, OwnStutter
<1>3. ASSUME NEW result \in Results, WorkerEnds(result) PROVE OwnInv'
  <2>1. /\ worker.state = "RUNNING" /\ worker.job \in Jobs
        /\ outgoing' = [job |-> worker.job, result |-> result]
        /\ result = "SUCCEEDED" => worker.job \in files'
        /\ \A j \in Jobs : j # worker.job => (j \in files => j \in files')
        /\ worker'.state = "IDLE"
    BY <1>3 DEF WorkerEnds, Possible, IndInv, ClientOK
  <2>2. PICK x \in Jobs : x = worker.job
    BY <2>1
  <2>3. active = x /\ monitor.at \in {"STARTED", "LOOP"} /\ jobs[x] \in Live
    BY <2>1, <2>2 DEF OwnInv, WorkerSide, Holding, ActiveHolds
  <2>4. /\ \A th \in Threads : ~Called(th, x)
        /\ ~Admitted(x)
    BY <2>3 DEF OwnInv, OwnedOnce, Exclusive, MonitorOwns, Called, Threads
  <2>5. /\ \A j \in Jobs : j # x => JobSame(j)
        /\ \A j : Admitted(j)' <=> Admitted(j)
        /\ \A j, th : Called(th, j)' <=> Called(th, j)
        /\ Items(pending)' = Items(pending) /\ Items(monitor.todo)' = Items(monitor.todo)
    BY <1>1, <2>1, <2>2 DEF JobSame, Admitted, Called, Items
  <2>6. OwnedOnce'
    <3>1. ASSUME NEW j \in Jobs PROVE Exclusive(j)'
      BY <1>1, <2>5, ExclusiveKept DEF OwnInv, OwnedOnce
    <3>. QED BY <1>1, <3>1 DEF OwnInv, OwnedOnce, Single
  <2>7. MonitorOwns' /\ WorkerSide'
    BY <1>1, <2>1, <2>2, <2>3 DEF OwnInv, MonitorOwns, WorkerSide
  <2>8. Holding'
    <3>1. ASSUME NEW j \in Jobs, Admitted(j)' PROVE PumpHolds(j)'
      BY <1>1, <2>4, <2>5, <3>1, PumpKept DEF OwnInv, Holding
    <3>2. \A j \in (Items(pending) \cup Items(monitor.todo))' : jobs'[j] \in Live
      BY <1>1, <2>5 DEF OwnInv, Holding
    <3>3. ASSUME NEW j \in Jobs, active' = j PROVE ActiveHolds(j)'
      BY <1>1, <3>3 DEF ActiveHolds, OwnInv, Holding
    <3>4. ASSUME NEW th \in Threads, callback'[th].stage # "NONE" PROVE CallHolds(callback[th])'
      BY <1>1, <2>4, <2>5, <3>4, CallsKept DEF Called, IndInv, ThreadsOK
    <3>. QED BY <3>1, <3>2, <3>3, <3>4 DEF Holding
  <2>9. Consistent'
    <3>1. ASSUME NEW j \in Jobs, j # x PROVE JournalOK(j)'
      <4>1. Ending(j) => Ending(j)'
        BY <1>1 DEF Ending
      <4>. QED BY <2>5, <3>1, <4>1, JournalKept DEF OwnInv, Consistent
    <3>2. JournalOK(x)'
      BY <1>1, <2>3, EndsAre DEF OwnInv, Consistent, JournalOK
    <3>. QED BY <3>1, <3>2 DEF Consistent
  <2>. QED BY <2>6, <2>7, <2>8, <2>9 DEF OwnInv
<1>. QED BY <1>2, <1>3

\* After a restart no job is in any place, and the journal has been reconciled.
LEMMA FreshPlaces ==
    ASSUME pump.at = "IDLE", monitor = Looping, pending = << >>, active = None,
           callback = [th \in Threads |-> NoCallback],
           worker.state = "IDLE", outgoing = None
    PROVE  OwnedOnce /\ MonitorOwns /\ WorkerSide /\ Holding
<1>1. /\ \A j : ~Admitted(j) /\ \A th \in Threads : ~Called(th, j)
      /\ \A th \in Threads : callback[th].stage = "NONE"
      /\ "monitor" \in Threads /\ "pump" \in Threads
  BY DEF Admitted, Admitting, Called, NoCallback, Threads
<1>2. Items(pending) = {} /\ Items(monitor.todo) = {} /\ Single(pending) /\ Single(monitor.todo)
  BY DEF Items, Single, Looping
<1>3. \A j \in Jobs : active # j
  BY RequestAssumption DEF Keys
<1>4. OwnedOnce
  BY <1>1, <1>2, <1>3 DEF OwnedOnce, Exclusive
<1>5. MonitorOwns /\ WorkerSide
  BY <1>1 DEF MonitorOwns, WorkerSide
<1>6. Holding
  BY <1>1, <1>2, <1>3 DEF Holding
<1>. QED BY <1>4, <1>5, <1>6

LEMMA RestartOwns ==
    ASSUME IndInv, OwnInv, Restart
    PROVE  OwnInv'
<1>1. (OwnedOnce /\ MonitorOwns /\ WorkerSide /\ Holding)'
  <2>1. (/\ pump.at = "IDLE" /\ monitor = Looping /\ pending = << >> /\ active = None
         /\ callback = [th \in Threads |-> NoCallback]
         /\ worker.state = "IDLE" /\ outgoing = None)'
    BY DEF Restart, Idle
  <2>2. (/\ pump.at = "IDLE" /\ monitor = Looping /\ pending = << >> /\ active = None
         /\ callback = [th \in Threads |-> NoCallback]
         /\ worker.state = "IDLE" /\ outgoing = None
         => OwnedOnce /\ MonitorOwns /\ WorkerSide /\ Holding)'
    BY FreshPlaces, PTL
  <2>. QED BY <2>1, <2>2
<1>2. ASSUME NEW j \in Jobs PROVE JournalOK(j)'
  <2>1. /\ jobs'[j] = IF jobs[j] \in Live THEN "FAILED" ELSE jobs[j]
        /\ products'[j] = IF products[j] = "STAGING" THEN "FAILED" ELSE products[j]
        /\ UNCHANGED <<events, files>>
    BY DEF Restart, ReconciledProduct
  <2>2. /\ JournalOK(j)
        /\ products[j] \in {"ABSENT", "STAGING", "READY", "FAILED"}
        /\ jobs[j] \in Live \cup Terminal \cup {"ABSENT"}
    BY DEF OwnInv, Consistent, IndInv, DataOK, CommandsOK
  <2>3. Ending(j) => products[j] = "STAGING"
    <3>1. ASSUME NEW th \in Threads, callback[th].stage = "PRODUCT", callback[th].job = j
          PROVE  products[j] = "STAGING"
      <4>1. CallHolds(callback[th])
        BY <3>1 DEF OwnInv, Holding
      <4>. QED BY <3>1, <4>1 DEF CallHolds
    <3>2. ASSUME pump.at = "REFUSED_JOB", pump.key = j PROVE products[j] = "STAGING"
      BY <3>2 DEF OwnInv, Holding, Admitted, Admitting, PumpHolds
    <3>. QED BY <3>1, <3>2 DEF Ending
  <2>4. events[j] # {} => jobs[j] \notin Live /\ products[j] # "STAGING"
    BY <2>2, EndsAre DEF JournalOK
  <2>. QED BY <2>1, <2>2, <2>3, <2>4, EndsAre DEF JournalOK, Live, Terminal
<1>. QED BY <1>1, <1>2 DEF OwnInv, Consistent

LEMMA InitOwns == Init => OwnInv
<1>1. SUFFICES ASSUME Init PROVE OwnInv
  OBVIOUS
<1>2. OwnedOnce /\ MonitorOwns /\ WorkerSide /\ Holding
  BY <1>1, FreshPlaces DEF Init, Idle
<1>3. Consistent
  BY <1>1 DEF Init, Consistent, JournalOK, Live, Terminal
<1>. QED BY <1>2, <1>3 DEF OwnInv

LEMMA NextOwns ==
    ASSUME IndInv, OwnInv, [Next]_vars
    PROVE  OwnInv'
<1>1. ASSUME \/ \E k \in Keys : Duplicate(k)
             \/ \E j \in Jobs : RejectAnalysis(j)
             \/ \E c \in Cancels : ReceiveCancel(c)
             \/ \E k \in Foreigns : ReceiveForeign(k)
      PROVE  OwnInv'
  <2>1. /\ UNCHANGED <<jobs, products, events, files, pending, monitor, active, callback,
                       worker, outgoing>>
        /\ \/ UNCHANGED pump
           \/ pump.at \notin Admitting /\ pump'.at \notin Admitting
    BY <1>1 DEF Duplicate, RejectAnalysis, ReceiveCancel, ReceiveForeign, FreeFor, PumpAt,
       Admitting, journal, client, process
  <2>. QED BY <2>1, OwnStutter
<1>2. ASSUME NEW j \in Jobs, AdmitAnalysis(j) PROVE OwnInv'
  BY <1>2, AdmitOwns
<1>3. ASSUME NEW k \in Foreigns, RepeatForeign(k) PROVE OwnInv'
  BY <1>3, RestartOwns DEF RepeatForeign
<1>4. ASSUME NEW th \in Threads, HandleResult(th) PROVE OwnInv'
  BY <1>4, HandlerOwns
<1>5. CASE UNCHANGED vars
  <2>1. UNCHANGED <<jobs, products, events, files, pending, monitor, active, callback,
                    worker, outgoing, pump>>
    BY <1>5 DEF vars, journal, client, process
  <2>. QED BY <2>1, OwnStutter
<1>. QED
  BY <1>1, <1>2, <1>3, <1>4, <1>5, HandleOwns, MonitorStepOwns, WorkerStepOwns, RestartOwns DEF Next

(***************************************************************************)
(* The theorems that ownership carries.                                    *)
(***************************************************************************)
LEMMA Ownership == Spec => []OwnInv
<1>1. IndInv /\ OwnInv /\ [Next]_vars => OwnInv'
  BY NextOwns
<1>. QED BY Invariance, InitOwns, <1>1, PTL DEF Spec

\* A product offered for downlink belongs to a job that succeeded and is on
\* disk, and a finished job that nobody works on has a settled product,
\* although the journal commits the two separately on every failing path
\* (_handle_worker_result, _admit_analysis, reconcile_after_restart).
THEOREM ProductsMatch == Spec => []ProductMatchesJob
<1>1. OwnInv => ProductMatchesJob
  BY DEF OwnInv, Consistent, JournalOK, ProductMatchesJob, Handling, Ending
<1>. QED BY Ownership, <1>1, PTL

\* The ground is told at most one end of each job, and it is the end that the
\* journal holds for the job and for its product (append_event after every
\* transition).
THEOREM TrueEvents == Spec => []EventsAreTrue
<1>1. ASSUME OwnInv PROVE EventsAreTrue
  <2>1. SUFFICES ASSUME NEW j \in Jobs, NEW name \in EventNames, events[j] = {name},
                        jobs[j] = EndOf(name), products[j] = ProductOf(name)
                 PROVE  /\ Cardinality(events[j]) <= 1
                        /\ "JOB_COMPLETED" \in events[j] =>
                              jobs[j] = "SUCCEEDED" /\ products[j] = "READY"
                        /\ "SCIENCE_DECISION_REJECTED" \in events[j] =>
                              jobs[j] = "SUCCEEDED" /\ products[j] = "FAILED"
                        /\ events[j] \cap {"JOB_FAILED", "ADMISSION_REFUSED"} # {} =>
                              jobs[j] = "FAILED"
                        /\ "JOB_TIMEOUT" \in events[j] => jobs[j] = "TIMEOUT"
                        /\ "JOB_CANCELED" \in events[j] => jobs[j] = "CANCELED"
    <3>1. Cardinality({}) = 0
      BY FS_EmptySet
    <3>. QED BY <1>1, <3>1 DEF OwnInv, Consistent, JournalOK, EventsAreTrue
  <2>2. Cardinality(events[j]) = 1
    BY <2>1, FS_Singleton
  <2>. QED BY <2>1, <2>2 DEF EndOf, ProductOf
<1>. QED BY Ownership, <1>1, PTL
=============================================================================
