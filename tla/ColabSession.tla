---------------------------- MODULE ColabSession ----------------------------
(***************************************************************************)
(* The SegFormer training notebooks (src/colab_train_segformer_95cloud...):   *)
(* the state they share and the operations their cells are made of.        *)
(*                                                                         *)
(* A notebook runs on a virtual machine whose disk goes with it, and keeps  *)
(* what must survive in one Google Drive folder that all notebooks use.    *)
(* Drive slots are written once: a file already there must be the same.    *)
(* Runs of the cells are interrupted (the kernel restarts) or cut off (the  *)
(* machine is reclaimed) at any point.                                     *)
(*                                                                         *)
(* A training is named by its number; so is every file made from its       *)
(* checkpoint.  No two trainings write the same checkpoint bytes, whose     *)
(* metadata hold the id of the W&B run.  0 is a missing file and Torn one   *)
(* whose copy was cut off.                                                 *)
(***************************************************************************)
EXTENDS Integers, FiniteSets

CONSTANTS
    Seeds,         \* seed_group of the P0/P1 notebook
    MaxCommits,    \* bound: commits of the branch main
    MaxTrainings,  \* bound: trainings
    MaxFaults      \* bound: interruptions and lost machines

ASSUME ColabAssumption ==
    /\ IsFiniteSet(Seeds)
    /\ {MaxCommits, MaxTrainings} \subseteq Nat \ {0}
    /\ MaxFaults \in Nat

VARIABLES
    kernel,  \* the cell that runs and what the notebook holds in memory
    disk,    \* /content of the machine
    drive,   \* the Drive folder
    world    \* commits, faults, trainings, and whether all were declared

colabVars == <<kernel, disk, drive, world>>

Torn == -1

\* The names a checkpoint can have: one for the plain, shared-drive and
\* cache-only notebooks, one per seed of the P0/P1 experiment.
Slots == {"rgb"} \cup Seeds

\* The files of the evidence bundle that depend on the checkpoint.
Evidence == {"ckpt", "calib", "test", "onnx"}

\* The contract of processed data: the raw manifest and the source revision.
NoRaw == <<"none", "none">>
NoContract == [raw |-> NoRaw, commit |-> 0]

\* A file on Drive whose copy was cut off: the metadata of the processed data,
\* the comparison across seeds, the evidence bundle.
TornContract == [raw |-> NoRaw, commit |-> Torn]
TornAggregate == <<Torn>>
TornBundle == [f \in Evidence |-> Torn]

\* Local processed data: absent; scenes (preprocessing has not written the
\* metadata); meta (an extraction got to the metadata but not to every split);
\* accepted (it got far enough for split_ready, files are missing); whole.
NoData == [part |-> "none", of |-> NoContract]

NoFiles == [s \in Slots |-> 0]
NoEvidence == [f \in Evidence |-> 0]

EmptyDisk ==
    [src |-> 0, proc |-> NoData, ckpt |-> NoFiles, calib |-> NoFiles, test |-> 0, onnx |-> 0,
     deliv |-> NoEvidence, zip |-> NoEvidence]

EmptyDrive ==
    [raw |-> "empty", audit |-> NoRaw, archive |-> NoContract, meta |-> NoContract,
     ckpt |-> NoFiles, report |-> NoFiles, calib |-> NoFiles, aggregate |-> <<>>,
     deliv |-> NoEvidence, zip |-> NoEvidence]

Idle(book) ==
    [book |-> book, cell |-> "idle", slot |-> "rgb", commit |-> 0,
     raw |-> NoRaw, model |-> 0, todo |-> {}]

ColabInit ==
    /\ kernel = Idle("none")
    /\ disk = EmptyDisk
    /\ drive = EmptyDrive
    /\ world = [head |-> 1, faults |-> 0, trained |-> 0, declared |-> TRUE]

At(book, cell) == kernel.book = book /\ kernel.cell = cell

Goto(cell) == kernel' = [kernel EXCEPT !.cell = cell]

\* A cell raises: "Run all" stops, and the operator runs the notebook again.
Raise == kernel' = Idle(kernel.book)

\* A cell that keeps nothing: it goes on, or what it depends on makes it raise.
Check(next) == (Goto(next) \/ Raise) /\ UNCHANGED <<disk, drive, world>>

-----------------------------------------------------------------------------
(* Files on Drive.                                                         *)

\* Mutant of CanSave: a different file is overwritten.
CanSaveOver(source, destination) == source # 0

\* copy_if_absent_or_same and save_to_drive: an identical file is kept, a
\* different one makes the cell raise.
CanSave(source, destination) == source # 0 /\ destination \in {0, source}

\* restore_drive_artifact for the artifact of a model: the local file stays if
\* there is one, however stale; the Drive file is taken if it is the model's.
Restore(local, remote, model) == IF local = 0 /\ remote = model THEN remote ELSE local

-----------------------------------------------------------------------------
(* Source and raw data.                                                    *)

\* Where main can be by the time it is fetched: others push to it.
Main == world.head .. MaxCommits

\* A checkout of the requested ref; with reuse, an earlier checkout whose
\* provenance file was written is kept though the branch has moved.
Checkout(commits, reuse, next) ==
    \E c \in IF reuse /\ disk.src # 0 THEN {disk.src} ELSE commits :
        /\ kernel' = [kernel EXCEPT !.cell = next, !.commit = c]
        /\ disk' = [disk EXCEPT !.src = c]
        /\ world' = [world EXCEPT !.head = IF c > @ THEN c ELSE @]
        /\ UNCHANGED drive

\* kaggle datasets download --unzip into the empty raw directory, one state of
\* the directory after the other: the archive, the archive and some TIFFs, all.
Download(next) ==
    /\ drive.raw = "empty" \/ kernel.cell = "unzip"
    /\ drive' = [drive EXCEPT !.raw = CASE @ = "empty" -> "zip" [] @ = "zip" -> "part" [] OTHER -> "whole"]
    /\ Goto(IF drive.raw = "part" THEN next ELSE "unzip")
    /\ UNCHANGED <<disk, world>>

\* The manifest id of an audit names how it was made and which files were there.
\* The fingerprint of the plain notebook holds the root and the times of the
\* files: it never matches an audit of the shared-drive one.  That notebook
\* reuses an audit with its portable fingerprint, and one of the plain notebook
\* after a migration, which gives it another id.
AuditId ==
    IF kernel.book = "plain" THEN <<"plain", drive.raw>>
    ELSE IF drive.audit[2] # drive.raw THEN <<"fresh", drive.raw>>
    ELSE IF drive.audit[1] = "plain" THEN <<"migrated", drive.raw>>
    ELSE drive.audit

\* The audit of the raw pairs: raw_dataset_audit.json is replaced unless it is
\* reused.
Audit(next) ==
    /\ kernel' = [kernel EXCEPT !.cell = next, !.raw = AuditId]
    /\ drive' = [drive EXCEPT !.audit = AuditId]
    /\ UNCHANGED <<disk, world>>

-----------------------------------------------------------------------------
(* Processed data.                                                         *)

Expected == [raw |-> kernel.raw, commit |-> kernel.commit]

\* cache_metadata_matches.
CacheMatches(metadata) == metadata = Expected

\* processed_cache_ready: split_ready looks for the directories and one mask of
\* each split.
LocalReady == disk.proc.part \in {"accepted", "whole"} /\ CacheMatches(disk.proc.of)

DriveReady == drive.archive # NoContract /\ CacheMatches(drive.meta)

\* What a cell does first: use the local split, extract the archive, or
\* preprocess.
Process ==
    /\ Goto(CASE LocalReady -> "validate" [] ~LocalReady /\ DriveReady -> "extract" [] OTHER -> "preprocess")
    /\ UNCHANGED <<disk, drive, world>>

\* extract_processed_cache: the metadata come first out of the archive, and the
\* validity masks of val last.  onError is where a bad archive or a full disk
\* leads.
Extract(onError) ==
    \/ /\ disk' = [disk EXCEPT !.proc = [part |-> "meta", of |-> drive.archive]]
       /\ Goto("extracting")
       /\ UNCHANGED <<drive, world>>
    \/ /\ disk' = [disk EXCEPT !.proc = NoData]
       /\ IF onError = "raise" THEN Raise ELSE Goto(onError)
       /\ UNCHANGED <<drive, world>>

Extracting(next) ==
    /\ disk' = [disk EXCEPT !.proc.part = IF @ = "meta" THEN "accepted" ELSE "whole"]
    /\ Goto(IF disk.proc.part = "meta" THEN "extracting" ELSE next)
    /\ UNCHANGED <<drive, world>>

\* preprocess_direct_to_splits: the scenes, then the manifests and metadata.
Preprocess ==
    \/ /\ disk.proc.part # "scenes"
       /\ disk' = [disk EXCEPT !.proc = [part |-> "scenes", of |-> NoContract]]
       /\ UNCHANGED <<kernel, drive, world>>
    \/ /\ disk.proc.part = "scenes"
       /\ disk' = [disk EXCEPT !.proc = [part |-> "whole", of |-> Expected]]
       /\ Goto("archive")
       /\ UNCHANGED <<drive, world>>

\* archive_processed_cache, up to the partial file, which replaces one left by
\* a run that was cut off.  Anything else under the names of the cache makes it
\* raise; the local data are kept.
Archive ==
    LET present == drive.archive # NoContract \/ drive.meta # NoContract
    IN  /\ IF ~present THEN Goto("replace") ELSE IF DriveReady THEN Goto("validate") ELSE Raise
        /\ UNCHANGED <<disk, drive, world>>

\* The partial file becomes the archive, and then the metadata are saved.
Replace ==
    /\ drive' = [drive EXCEPT !.archive = disk.proc.of]
    /\ Goto("metadata")
    /\ UNCHANGED <<disk, world>>

SaveMetadata ==
    /\ drive' = [drive EXCEPT !.meta = disk.proc.of]
    /\ Goto("validate")
    /\ UNCHANGED <<disk, world>>

\* Mutant of DatasetOpens: validity masks are optional per image.
DatasetOpensPartly == disk.proc.part \in {"accepted", "whole"}

\* SegmentationDataset: an image without its mask or validity mask is refused.
DatasetOpens == disk.proc.part = "whole"

\* The validation cell opens every split.  With caching, the summary of an
\* earlier validation of the same revision, manifest and lineage may stand for
\* it; which summaries there are is left open.
Validate(caching) ==
    /\ \/ (caching \/ DatasetOpens) /\ Goto("encoder")
       \/ ~DatasetOpens /\ Raise
    /\ UNCHANGED <<disk, drive, world>>

-----------------------------------------------------------------------------
(* Training and what is made from the checkpoint.                          *)

\* What a checkpoint says of its data is true: no file is missing, the raw pairs
\* are the manifest's and, in a notebook that preprocesses, the revision too.
Declared ==
    /\ disk.proc.part = "whole"
    /\ disk.proc.of.raw = kernel.raw
    /\ kernel.book \in {"plain", "shared"} => disk.proc.of.commit = kernel.commit

\* train of src/train_segmentation.py: it opens the splits, trains, writes the
\* checkpoint and then its report.
Train ==
    \/ /\ DatasetOpens
       /\ world.trained < MaxTrainings
       /\ world' = [world EXCEPT !.trained = @ + 1, !.declared = @ /\ Declared]
       /\ disk' = [disk EXCEPT !.ckpt[kernel.slot] = world.trained + 1]
       /\ Goto("report")
       /\ UNCHANGED drive
    \/ ~DatasetOpens /\ Raise /\ UNCHANGED <<disk, drive, world>>

\* The report is written, and the checkpoint hashed.
TrainReport ==
    /\ kernel' = [kernel EXCEPT !.cell = "save", !.model = disk.ckpt[kernel.slot]]
    /\ UNCHANGED <<disk, drive, world>>

SaveCheckpoint ==
    LET s == kernel.slot
    IN  /\ IF CanSave(disk.ckpt[s], drive.ckpt[s])
             THEN drive' = [drive EXCEPT !.ckpt[s] = disk.ckpt[s]] /\ Goto("savereport")
             ELSE UNCHANGED drive /\ Raise
        /\ UNCHANGED <<disk, world>>

SaveReport ==
    LET s == kernel.slot
    IN  /\ IF CanSave(kernel.model, drive.report[s])
             THEN drive' = [drive EXCEPT !.report[s] = kernel.model] /\ Goto("calibrate")
             ELSE UNCHANGED drive /\ Raise
        /\ UNCHANGED <<disk, world>>

\* The report on the model in memory: the one on the disk, the one on Drive, or
\* one computed from the local checkpoint.
Cached(caching, local, remote) ==
    IF caching /\ Restore(local, remote, kernel.model) = kernel.model
      THEN kernel.model ELSE disk.ckpt[kernel.slot]

Calibrate(caching, remote, next) ==
    /\ disk' = [disk EXCEPT !.calib[kernel.slot] = Cached(caching, @, remote)]
    /\ Goto(next)
    /\ UNCHANGED <<drive, world>>

\* The calibration of this seed goes to Drive: the P0/P1 notebook only.
SaveCalibration ==
    LET s == kernel.slot
    IN  /\ IF CanSave(disk.calib[s], drive.calib[s])
             THEN drive' = [drive EXCEPT !.calib[s] = disk.calib[s]] /\ Goto("aggregate")
             ELSE UNCHANGED drive /\ Raise
        /\ UNCHANGED <<disk, world>>

\* segformer_experiment_report.py reads the calibration of every seed.
Comparable == \A s \in Seeds : drive.calib[s] \notin {0, Torn}

\* The comparison across seeds, once every seed has its calibration: one that
\* cannot be read makes it raise.  It depends on the bootstrap seed, so that
\* only one seed's run can save it.
Aggregate ==
    LET content == <<drive.calib, kernel.slot>>
    IN  /\ IF \E s \in Seeds : drive.calib[s] = 0 THEN UNCHANGED drive /\ Goto("test")
           ELSE IF Comparable /\ drive.aggregate \in {<<>>, content}
             THEN drive' = [drive EXCEPT !.aggregate = content] /\ Goto("test")
             ELSE UNCHANGED drive /\ Raise
        /\ UNCHANGED <<disk, world>>

\* The frozen test evaluation, with the quality gates it is put through.
FrozenTest(caching, next) ==
    /\ disk' = [disk EXCEPT !.test = Cached(caching, @, drive.deliv["test"])]
    /\ Goto(next)
    /\ UNCHANGED <<drive, world>>

\* The ONNX graph: its contract names the checkpoint.  The parity check that
\* follows may raise.
Export(caching) ==
    /\ disk' = [disk EXCEPT !.onnx = Cached(caching, @, drive.deliv["onnx"])]
    /\ Goto("package") \/ Raise
    /\ UNCHANGED <<drive, world>>

-----------------------------------------------------------------------------
(* Packaging.                                                              *)

Bundle == [f \in Evidence |->
    CASE f = "ckpt" -> disk.ckpt[kernel.slot] [] f = "calib" -> disk.calib[kernel.slot]
      [] f = "test" -> disk.test [] OTHER -> disk.onnx]

\* The bundle is copied to the deliverables, and these are zipped.  An earlier
\* archive makes the cell raise; with reuse, the one on the disk or on Drive is
\* taken as it is, unread.
Package(reuse) ==
    /\ IF (\A f \in Evidence : CanSave(Bundle[f], disk.deliv[f])) /\ (reuse \/ disk.zip = NoEvidence)
         THEN /\ disk' = [disk EXCEPT !.deliv = Bundle,
                     !.zip = IF @ # NoEvidence THEN @
                             ELSE IF reuse /\ drive.zip # NoEvidence THEN drive.zip ELSE Bundle]
              /\ kernel' = [kernel EXCEPT !.cell = "upload", !.todo = Evidence]
         ELSE UNCHANGED disk /\ Raise
    /\ UNCHANGED <<drive, world>>

\* The deliverables go to Drive one by one, in the order of the directory; then
\* the archive, and the local processed data are removed.
Upload ==
    \/ \E f \in kernel.todo :
         /\ IF CanSave(disk.deliv[f], drive.deliv[f])
              THEN /\ drive' = [drive EXCEPT !.deliv[f] = disk.deliv[f]]
                   /\ kernel' = [kernel EXCEPT !.todo = @ \ {f}]
              ELSE UNCHANGED drive /\ Raise
         /\ UNCHANGED <<disk, world>>
    \/ /\ kernel.todo = {}
       /\ IF drive.zip \in {NoEvidence, disk.zip}
            THEN /\ drive' = [drive EXCEPT !.zip = disk.zip]
                 /\ disk' = [disk EXCEPT !.proc = NoData]
            ELSE UNCHANGED <<drive, disk>>
       /\ Raise
       /\ UNCHANGED world

-----------------------------------------------------------------------------
(* What happens to a session.                                              *)

\* The operator opens a notebook on a machine of its own.
Open(book) ==
    /\ kernel.cell = "idle"
    /\ kernel' = Idle(book)
    /\ disk' = EmptyDisk
    /\ UNCHANGED <<drive, world>>

\* What can be left of the file a cell is writing to Drive when it is cut off.
\* copy_if_absent_or_same copies in place where there is no file yet, and the
\* audit is rewritten in place; a torn audit is as good as none.  A torn file on
\* the local disk is left out: a later session trains anew and does not get past
\* the checkpoint on Drive, so that no cell comes to use it.
CutOff ==
    LET s == kernel.slot
    IN  \/ /\ kernel.cell = "audit" /\ AuditId # drive.audit
           /\ drive' = [drive EXCEPT !.audit = NoRaw]
        \/ /\ kernel.cell = "metadata" /\ drive.meta = NoContract
           /\ drive' = [drive EXCEPT !.meta = TornContract]
        \/ /\ kernel.cell = "save" /\ drive.ckpt[s] = 0
           /\ drive' = [drive EXCEPT !.ckpt[s] = Torn]
        \/ /\ kernel.cell = "savereport" /\ drive.report[s] = 0
           /\ drive' = [drive EXCEPT !.report[s] = Torn]
        \/ /\ kernel.cell = "savecalib" /\ drive.calib[s] = 0
           /\ drive' = [drive EXCEPT !.calib[s] = Torn]
        \/ /\ kernel.cell = "aggregate" /\ Comparable /\ drive.aggregate = <<>>
           /\ drive' = [drive EXCEPT !.aggregate = TornAggregate]
        \/ /\ kernel.cell = "upload"
           /\ \E f \in kernel.todo :
                /\ drive.deliv[f] = 0
                /\ drive' = [drive EXCEPT !.deliv[f] = Torn]
        \/ /\ kernel.cell = "upload" /\ kernel.todo = {} /\ drive.zip = NoEvidence
           /\ drive' = [drive EXCEPT !.zip = TornBundle]

Fault(losesDisk) ==
    /\ kernel.cell # "idle"
    /\ world.faults < MaxFaults
    /\ world' = [world EXCEPT !.faults = @ + 1]
    /\ UNCHANGED drive \/ CutOff
    /\ IF losesDisk THEN kernel' = Idle("none") /\ disk' = EmptyDisk
       ELSE kernel' = Idle(kernel.book) /\ UNCHANGED disk

KernelRestart == Fault(FALSE)
MachineLost == Fault(TRUE)

-----------------------------------------------------------------------------
\* The evidence on Drive is of one model, whatever sessions wrote it and
\* wherever a session was cut off: report, calibration, deliverables and bundle
\* belong to the checkpoint that is on Drive, and beyond a torn file there is
\* nothing: whatever is on Drive rests on files that are whole.
ReportsFollow ==
    \A s \in Slots :
        /\ drive.report[s] \in {0, Torn, drive.ckpt[s]}
        /\ drive.report[s] # 0 => drive.ckpt[s] > 0
        /\ drive.calib[s] \in {0, Torn, drive.ckpt[s]}
        /\ drive.calib[s] # 0 => drive.ckpt[s] > 0 /\ drive.report[s] = drive.ckpt[s]

DeliverablesFollow ==
    \A f \in Evidence :
        /\ drive.deliv[f] \in {0, Torn, drive.ckpt["rgb"]}
        /\ drive.deliv[f] # 0 => drive.ckpt["rgb"] > 0 /\ drive.report["rgb"] = drive.ckpt["rgb"]

BundleFollows ==
    drive.zip # NoEvidence =>
        /\ drive.ckpt["rgb"] > 0
        /\ \A f \in Evidence : drive.deliv[f] = drive.ckpt["rgb"]
        /\ drive.zip = TornBundle \/ \A f \in Evidence : drive.zip[f] = drive.ckpt["rgb"]

\* A comparison is of the calibrations that belong to the checkpoints on Drive.
AggregateFollows ==
    drive.aggregate \notin {<<>>, TornAggregate} =>
        \A s \in Seeds : drive.aggregate[1][s] = drive.ckpt[s] /\ drive.ckpt[s] > 0

EvidenceIsOneModel == ReportsFollow /\ DeliverablesFollow /\ BundleFollows /\ AggregateFollows

\* The metadata of the processed cache vouch for a complete archive made under
\* the contract they state; torn ones are read by nobody.
CacheIsSound == drive.meta \notin {NoContract, TornContract} => drive.archive = drive.meta

\* No training used processed data with files missing, and one of a notebook
\* that preprocesses used data of the very contract its checkpoint names.
TrainedOnDeclaredData == world.declared

\* The data a checkpoint was trained on is what its notebook declares, whatever
\* was cut off or replaced between the cache's two files and the training.
DataIsDeclared == CacheIsSound /\ TrainedOnDeclaredData
=============================================================================
