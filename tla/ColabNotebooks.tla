--------------------------- MODULE ColabNotebooks ---------------------------
(***************************************************************************)
(* The cells of the four SegFormer notebooks, in the order "Run all" takes  *)
(* them: plain (src/colab_train_segformer_95cloud.ipynb), shared            *)
(* (..._shared_drive.ipynb), cache (..._cache_only.ipynb) and p0p1          *)
(* (..._cache_only_p0_p1.ipynb).                                           *)
(***************************************************************************)
EXTENDS ColabSession

Books == {"plain", "shared", "cache", "p0p1"}

\* The commit the P0/P1 notebook is pinned to.
PinnedCommit == 1

-----------------------------------------------------------------------------
(* The plain notebook: raw data to bundle, nothing reused but the audit, the *)
(* processed data and Drive files that are identical.                       *)

PlainSetup == At("plain", "idle") /\ Check("mount")
PlainMount == At("plain", "mount") /\ Check("source")
PlainSource == At("plain", "source") /\ Checkout(Main, FALSE, "raw")

\* TIFFs that are there are used if some scene is complete, even beside an
\* archive, which is then removed; an archive alone is refused.
PlainRaw ==
    \/ At("plain", "raw") /\ Download("contracts")
    \/ At("plain", "unzip") /\ Download("contracts")
    \/ /\ At("plain", "raw") /\ drive.raw \notin {"empty", "zip"}
       /\ drive' = [drive EXCEPT !.raw = IF @ = "part" THEN "fewer" ELSE @]
       /\ Goto("contracts")
       /\ UNCHANGED <<disk, world>>
    \/ At("plain", "raw") /\ drive.raw \in {"zip", "part"} /\ Raise /\ UNCHANGED <<disk, drive, world>>

PlainContracts == At("plain", "contracts") /\ Check("audit")

PlainAudit == At("plain", "audit") /\ Audit("regression")
PlainRegression == At("plain", "regression") /\ Check("process")

PlainProcess ==
    \/ At("plain", "process") /\ Process
    \/ At("plain", "extract") /\ Extract("preprocess")
    \/ At("plain", "extracting") /\ Extracting("validate")
PlainPreprocess == At("plain", "preprocess") /\ Preprocess
PlainArchive ==
    \/ At("plain", "archive") /\ Archive
    \/ At("plain", "replace") /\ Replace
    \/ At("plain", "metadata") /\ SaveMetadata

PlainValidate == At("plain", "validate") /\ Validate(FALSE)

\* The pretrained encoder, kept on the local disk; the key of W&B may be missing.
PlainEncoder == At("plain", "encoder") /\ Check("train")
PlainTrain == (At("plain", "train") /\ Train) \/ (At("plain", "report") /\ TrainReport)
PlainSave == (At("plain", "save") /\ SaveCheckpoint) \/ (At("plain", "savereport") /\ SaveReport)
PlainCalibrate == At("plain", "calibrate") /\ Calibrate(FALSE, 0, "test")
PlainTest == At("plain", "test") /\ FrozenTest(FALSE, "export")
PlainExport == At("plain", "export") /\ Export(FALSE)
PlainPackage == (At("plain", "package") /\ Package(FALSE)) \/ (At("plain", "upload") /\ Upload)

PlainNext ==
    \/ PlainSetup \/ PlainMount \/ PlainSource \/ PlainRaw \/ PlainContracts \/ PlainAudit
    \/ PlainRegression \/ PlainProcess \/ PlainPreprocess \/ PlainArchive \/ PlainValidate
    \/ PlainEncoder \/ PlainTrain \/ PlainSave \/ PlainCalibrate \/ PlainTest \/ PlainExport
    \/ PlainPackage

-----------------------------------------------------------------------------
(* The shared-drive notebook: it also reuses the checkout, the scene index,  *)
(* the validation, the encoder and reports on the same checkpoint.          *)

SharedSetup == At("shared", "idle") /\ Check("mount")
SharedMount == At("shared", "mount") /\ Check("source")
SharedSource == At("shared", "source") /\ Checkout(Main, TRUE, "raw")

\* Whatever is in the raw directory is used unless an archive is there.
SharedRaw ==
    \/ At("shared", "raw") /\ Download("index")
    \/ At("shared", "unzip") /\ Download("index")
    \/ /\ At("shared", "raw") /\ drive.raw # "empty"
       /\ IF drive.raw \in {"zip", "part"} THEN Raise ELSE Goto("index")
       /\ UNCHANGED <<disk, drive, world>>

\* The scene index, kept on Drive for the number of TIFF files there are, or
\* made again by a scan.
SharedIndex == At("shared", "index") /\ Check("contracts")

SharedContracts == At("shared", "contracts") /\ Check("audit")

SharedAudit == At("shared", "audit") /\ Audit("regression")
SharedRegression == At("shared", "regression") /\ Check("process")

SharedProcess ==
    \/ At("shared", "process") /\ Process
    \/ At("shared", "extract") /\ Extract("preprocess")
    \/ At("shared", "extracting") /\ Extracting("validate")
SharedPreprocess == At("shared", "preprocess") /\ Preprocess
SharedArchive ==
    \/ At("shared", "archive") /\ Archive
    \/ At("shared", "replace") /\ Replace
    \/ At("shared", "metadata") /\ SaveMetadata

SharedValidate == At("shared", "validate") /\ Validate(TRUE)

\* find_reusable_training_report compares the configuration of the report, the
\* 25 fields of SegmentationTrainingConfig, with the 17 the notebook lists.
ReportFields == 25
ListedFields == 17
SharedReusable ==
    ReportFields = ListedFields /\ {disk.ckpt["rgb"], drive.report["rgb"]} \ {0, Torn} # {}

\* The encoder is kept on Drive, with its checksum, which is checked.
SharedEncoder == At("shared", "encoder") /\ Check("train")
SharedTrain ==
    \/ At("shared", "train") /\ ~SharedReusable /\ Train
    \/ At("shared", "report") /\ TrainReport
SharedSave == (At("shared", "save") /\ SaveCheckpoint) \/ (At("shared", "savereport") /\ SaveReport)
SharedCalibrate == At("shared", "calibrate") /\ Calibrate(TRUE, drive.deliv["calib"], "test")
SharedTest == At("shared", "test") /\ FrozenTest(TRUE, "export")
SharedExport == At("shared", "export") /\ Export(TRUE)
SharedPackage == (At("shared", "package") /\ Package(TRUE)) \/ (At("shared", "upload") /\ Upload)

SharedNext ==
    \/ SharedSetup \/ SharedMount \/ SharedSource \/ SharedRaw \/ SharedIndex \/ SharedContracts
    \/ SharedAudit \/ SharedRegression \/ SharedProcess \/ SharedPreprocess \/ SharedArchive
    \/ SharedValidate \/ SharedEncoder \/ SharedTrain \/ SharedSave \/ SharedCalibrate
    \/ SharedTest \/ SharedExport \/ SharedPackage

-----------------------------------------------------------------------------
(* The cache-only notebook: it takes the processed data from Drive.         *)

\* The contracts come from the metadata of the archive, which are parsed
\* unguarded; a different source
\* revision is only warned about.
RestoreContracts ==
    IF drive.archive = NoContract \/ drive.meta \in {NoContract, TornContract}
      THEN Raise /\ UNCHANGED <<disk, drive, world>>
      ELSE /\ kernel' = [kernel EXCEPT !.cell = "regression", !.raw = drive.meta.raw]
           /\ UNCHANGED <<disk, drive, world>>

CacheSetup == At("cache", "idle") /\ Check("mount")
CacheMount == At("cache", "mount") /\ Check("source")
CacheSource == At("cache", "source") /\ Checkout(Main, TRUE, "contracts")
CacheContracts == At("cache", "contracts") /\ RestoreContracts
CacheRegression == At("cache", "regression") /\ Check("extract")
CacheRestore ==
    \/ At("cache", "extract") /\ Extract("raise")
    \/ At("cache", "extracting") /\ Extracting("validate")
CacheValidate == At("cache", "validate") /\ Validate(TRUE)
CacheEncoder == At("cache", "encoder") /\ Check("train")
CacheTrain == (At("cache", "train") /\ Train) \/ (At("cache", "report") /\ TrainReport)
CacheSave == (At("cache", "save") /\ SaveCheckpoint) \/ (At("cache", "savereport") /\ SaveReport)
CacheCalibrate == At("cache", "calibrate") /\ Calibrate(TRUE, drive.deliv["calib"], "test")
CacheTest == At("cache", "test") /\ FrozenTest(TRUE, "smoke")
CacheSmoke == At("cache", "smoke") /\ Check("large")
CacheLarge == At("cache", "large") /\ Check("export")
CacheExport == At("cache", "export") /\ Export(TRUE)
CachePackage == (At("cache", "package") /\ Package(TRUE)) \/ (At("cache", "upload") /\ Upload)

CacheNext ==
    \/ CacheSetup \/ CacheMount \/ CacheSource \/ CacheContracts \/ CacheRegression \/ CacheRestore
    \/ CacheValidate \/ CacheEncoder \/ CacheTrain \/ CacheSave \/ CacheCalibrate \/ CacheTest
    \/ CacheSmoke \/ CacheLarge \/ CacheExport \/ CachePackage

-----------------------------------------------------------------------------
(* The P0/P1 notebook: one seed of an experiment per run, its files named    *)
(* for the seed, and the frozen test only when the operator has enabled it.  *)

P0P1Setup ==
    /\ At("p0p1", "idle")
    /\ \E s \in Seeds : kernel' = [kernel EXCEPT !.cell = "mount", !.slot = s]
    /\ UNCHANGED <<disk, drive, world>>
P0P1Mount == At("p0p1", "mount") /\ Check("source")
P0P1Source == At("p0p1", "source") /\ Checkout({PinnedCommit}, TRUE, "contracts")
P0P1Contracts == At("p0p1", "contracts") /\ RestoreContracts
P0P1Regression == At("p0p1", "regression") /\ Check("extract")
P0P1Restore ==
    \/ At("p0p1", "extract") /\ Extract("raise")
    \/ At("p0p1", "extracting") /\ Extracting("validate")
P0P1Validate == At("p0p1", "validate") /\ Validate(TRUE)
P0P1Encoder == At("p0p1", "encoder") /\ Check("train")
P0P1Train == (At("p0p1", "train") /\ Train) \/ (At("p0p1", "report") /\ TrainReport)
P0P1Save == (At("p0p1", "save") /\ SaveCheckpoint) \/ (At("p0p1", "savereport") /\ SaveReport)

\* The calibration also goes to Drive; the error atlas and the decision spec
\* saved after it are only written, never read.
P0P1Calibrate ==
    \/ At("p0p1", "calibrate") /\ Calibrate(TRUE, drive.calib[kernel.slot], "savecalib")
    \/ At("p0p1", "savecalib") /\ SaveCalibration

P0P1Aggregate == At("p0p1", "aggregate") /\ Aggregate

\* run_frozen_test is disabled until the candidate is locked.
P0P1Test ==
    /\ At("p0p1", "test")
    /\ FrozenTest(TRUE, "smoke") \/ (Raise /\ UNCHANGED <<disk, drive, world>>)
P0P1Smoke == At("p0p1", "smoke") /\ Check("large")
P0P1Large == At("p0p1", "large") /\ Check("export")
P0P1Export == At("p0p1", "export") /\ Export(TRUE)

\* The bundle lists training_summary.json, which this notebook writes under the
\* name of the experiment and seed: the cell always raises.
P0P1Package == At("p0p1", "package") /\ Raise /\ UNCHANGED <<disk, drive, world>>

P0P1Next ==
    \/ P0P1Setup \/ P0P1Mount \/ P0P1Source \/ P0P1Contracts \/ P0P1Regression \/ P0P1Restore
    \/ P0P1Validate \/ P0P1Encoder \/ P0P1Train \/ P0P1Save \/ P0P1Calibrate \/ P0P1Aggregate
    \/ P0P1Test \/ P0P1Smoke \/ P0P1Large \/ P0P1Export \/ P0P1Package

-----------------------------------------------------------------------------
ColabNext ==
    \/ \E b \in Books : Open(b)
    \/ PlainNext \/ SharedNext \/ CacheNext \/ P0P1Next
    \/ KernelRestart \/ MachineLost

ColabSpec == ColabInit /\ [][ColabNext]_colabVars
=============================================================================
