------------------------ MODULE SegmentationTraining ------------------------
(***************************************************************************)
(* The training loops and the threshold calibration.                       *)
(*                                                                         *)
(* fit: SegFormer training (src/train_segmentation.py), which keeps the    *)
(* best epoch in memory and writes it when the loop is over.               *)
(* clf: classifier training (src/train.py), which writes every epoch and   *)
(* every best epoch to disk and can be interrupted.                        *)
(* cal: calibration of the pixel threshold on the validation predictions   *)
(* and the evaluation at the locked threshold (src/eval_segmentation.py).  *)
(*                                                                         *)
(* Weights are named by the epoch whose optimizer steps made them.  What   *)
(* an epoch's validation measures is chosen by the environment.  Metrics   *)
(* of a confusion matrix are ratios <<numerator, denominator>>, compared   *)
(* by cross multiplication.                                                *)
(***************************************************************************)
EXTENDS Integers, FiniteSets, FiniteSetsExt, Sequences

CONSTANTS
    Epochs,           \* config.epochs
    StopPatience,     \* config.early_stopping_patience
    PlateauPatience,  \* config.lr_plateau_patience
    WarmupEpochs,     \* config.warmup_epochs
    SchedulerStart,   \* config.scheduler_start_epoch
    MaxFalseClear,    \* config.max_false_clear_rate, in units of MaxMetric
    MaxMetric,        \* bound: losses, Dice and rates are 0 .. MaxMetric
    Pixels,           \* pixels of the validation predictions
    MaxLevel,         \* probabilities and thresholds are 0 .. MaxLevel
    CoarseStep,       \* step of the coarse threshold sweep
    RefineStep,       \* step of the refinement around its optimum
    FalseClearLimit   \* max_false_clear_rate of the calibration, a ratio

ASSUME TrainingAssumption ==
    /\ {Epochs, StopPatience, CoarseStep, RefineStep} \subseteq Nat \ {0}
    /\ {PlateauPatience, WarmupEpochs, SchedulerStart, MaxFalseClear, MaxMetric, MaxLevel}
         \subseteq Nat
    /\ IsFiniteSet(Pixels)
    /\ FalseClearLimit \in Nat \X (Nat \ {0})

VARIABLES
    fit,  \* the SegFormer loop: its state and the checkpoint it wrote
    clf,  \* the classifier loop and the files it wrote
    cal   \* the calibration

trainingVars == <<fit, clf, cal>>

NoEpoch == -1

\* A file whose writing was interrupted.
CutOffFile == -2

-----------------------------------------------------------------------------
(* SegFormer training.                                                     *)

\* What evaluate_loss and _epoch_segmentation_metrics report of an epoch.
Measurement == [valid : BOOLEAN, loss : 0 .. MaxMetric, dice : 0 .. MaxMetric,
                falseClear : 0 .. MaxMetric]

\* _selection_summary: the score of an epoch, and whether it satisfies the
\* false-clear constraint.
Score(metric, m) ==
    IF metric = "loss" THEN -m.loss
    ELSE IF m.falseClear <= MaxFalseClear THEN m.dice
    ELSE -m.falseClear

Satisfies(metric, m) == metric = "loss" \/ m.falseClear <= MaxFalseClear

\* apply_linear_warmup: until the warm-up is over the rate is set from its
\* base, whatever the scheduler has made of it.
WarmRate(epoch, rate) ==
    IF epoch < WarmupEpochs THEN [warm |-> epoch + 1, cuts |-> 0] ELSE rate

\* ReduceLROnPlateau.step with mode min and threshold 0.
PlateauStep(p, loss) ==
    LET better == p.best = NoEpoch \/ loss < p.best
        bad == IF better THEN 0 ELSE p.bad + 1
    IN  [best |-> IF better THEN loss ELSE p.best,
         bad |-> IF bad > PlateauPatience THEN 0 ELSE bad,
         cut |-> bad > PlateauPatience]

\* Mutant of Improves: a tie replaces the best epoch.
ImprovesOrTies(m, score) == m.valid /\ (fit.best = NoEpoch \/ score >= fit.bestScore)

Improves(m, score) == m.valid /\ (fit.best = NoEpoch \/ score > fit.bestScore)

\* One pass of train's loop.  The weights change unless every batch was
\* skipped as invalid.  best_state refers to the live parameters of the model:
\* the loop keeps no copy of them.
TrainEpoch(m, stepped) ==
    /\ fit.phase = "running"
    /\ fit.epoch < Epochs
    /\ LET rate == WarmRate(fit.epoch, fit.rate)
           score == Score(fit.metric, m)
           p == IF fit.epoch >= SchedulerStart THEN PlateauStep(fit.plateau, m.loss)
                ELSE [best |-> fit.plateau.best, bad |-> fit.plateau.bad, cut |-> FALSE]
           stale == IF Improves(m, score) THEN 0 ELSE fit.stale + 1
           common == [fit EXCEPT
               !.epoch = @ + 1,
               !.weights = IF stepped THEN fit.epoch ELSE @,
               !.plateau = [best |-> p.best, bad |-> p.bad],
               !.rate = IF p.cut THEN [rate EXCEPT !.cuts = @ + 1] ELSE rate,
               !.stale = stale,
               !.history = Append(@, [valid |-> m.valid, score |-> score,
                                      satisfied |-> Satisfies(fit.metric, m),
                                      weights |-> IF stepped THEN fit.epoch ELSE fit.weights])]
       IN  fit' = IF Improves(m, score)
                    THEN [common EXCEPT !.best = fit.epoch, !.bestScore = score]
                    ELSE [common EXCEPT !.phase = IF stale >= StopPatience THEN "stopped" ELSE @]
    /\ UNCHANGED <<clf, cal>>

\* After the loop: no checkpoint without a valid epoch; otherwise best_state is
\* serialized, with whatever its parameters are by now, and the report written.
WriteCheckpoint ==
    /\ fit.phase \in {"running", "stopped"}
    /\ fit.phase = "running" => fit.epoch = Epochs
    /\ fit' = IF fit.best = NoEpoch THEN [fit EXCEPT !.phase = "failed"]
              ELSE [fit EXCEPT !.phase = "written",
                               !.checkpoint = [epoch |-> fit.best, weights |-> fit.weights]]
    /\ UNCHANGED <<clf, cal>>

InitFit ==
    fit \in {[metric |-> m, phase |-> "running", epoch |-> 0, weights |-> NoEpoch,
              best |-> NoEpoch, bestScore |-> 0, stale |-> 0, history |-> <<>>,
              plateau |-> [best |-> NoEpoch, bad |-> 0], rate |-> [warm |-> 0, cuts |-> 0],
              checkpoint |-> [epoch |-> NoEpoch, weights |-> NoEpoch]] : m \in {"loss", "dice"}}

-----------------------------------------------------------------------------
(* Classifier training.                                                    *)

\* train_epoch, after which the weights are written as last_model.pth.
ClassifierEpoch ==
    /\ clf.phase = "train"
    /\ clf.epoch < Epochs
    /\ clf' = [clf EXCEPT !.phase = IF clf.validation THEN "validate" ELSE "save",
                          !.weights = clf.epoch]
    /\ UNCHANGED <<fit, cal>>

Better(f1) == f1 > clf.bestF1

\* val_epoch and the comparison with best_f1.
ClassifierValidate(f1) ==
    /\ clf.phase = "validate"
    /\ clf' = IF Better(f1) THEN [clf EXCEPT !.phase = "save", !.bestF1 = f1, !.scores = Append(@, f1)]
              ELSE [clf EXCEPT !.phase = "train", !.epoch = @ + 1, !.scores = Append(@, f1)]
    /\ UNCHANGED <<fit, cal>>

\* torch.save over best_model.pth: for a better epoch, or for every epoch when
\* there is no validation set.
SaveBestModel ==
    /\ clf.phase = "save"
    /\ clf' = [clf EXCEPT !.phase = "train", !.epoch = @ + 1, !.bestFile = clf.weights]
    /\ UNCHANGED <<fit, cal>>

\* The loop ends or is interrupted, and finally uploads the files there are;
\* one that was being written is cut off.
ClassifierEnd ==
    /\ clf.phase \in {"train", "validate", "save"}
    /\ \E torn \in BOOLEAN :
         clf' = [clf EXCEPT !.phase = "ended",
                            !.bestFile = IF torn /\ clf.phase = "save" THEN CutOffFile ELSE @]
    /\ UNCHANGED <<fit, cal>>

InitClf ==
    clf \in {[phase |-> "train", validation |-> v, epoch |-> 0, weights |-> NoEpoch,
              bestF1 |-> -1, bestFile |-> NoEpoch, scores |-> <<>>] : v \in BOOLEAN}

-----------------------------------------------------------------------------
(* Calibration.  A validation pixel has a probability and a target: clear,  *)
(* cloud or ignored (invalid, or padding of the stack of scenes).           *)

PixelValue == [p : 0 .. MaxLevel, target : {"clear", "cloud", "ignored"}]

Less(a, b) == a[1] * b[2] < b[1] * a[2]

\* _safe: a ratio with the denominator 0 is 0.
Safe(n, d) == IF d = 0 THEN <<0, 1>> ELSE <<n, d>>

\* confusion_counts: the pixels of the target that are predicted cloud or not.
Count(px, target, t, predicted) ==
    Cardinality({i \in Pixels : px[i].target = target /\ ((px[i].p >= t) <=> predicted)})

\* metrics_from_counts, those that threshold selection looks at.
Metrics(px, t) ==
    LET tp == Count(px, "cloud", t, TRUE)
        fn == Count(px, "cloud", t, FALSE)
        fp == Count(px, "clear", t, TRUE)
    IN  [dice |-> Safe(2 * tp, 2 * tp + fp + fn), iou |-> Safe(tp, tp + fp + fn),
         falseClear |-> Safe(fn, tp + fn)]

Eligible(px, t) == ~Less(FalseClearLimit, Metrics(px, t).falseClear)

\* t comes after u in the order of max's key: Dice, then IoU, then the smaller
\* threshold.
Beats(px, t, u) ==
    LET a == Metrics(px, t)
        b == Metrics(px, u)
    IN  \/ Less(b.dice, a.dice)
        \/ ~Less(a.dice, b.dice) /\ Less(b.iou, a.iou)
        \/ ~Less(a.dice, b.dice) /\ ~Less(a.iou, b.iou) /\ t < u

\* select_pixel_threshold: the best eligible candidate, or the best of all
\* when none is eligible.
SelectThreshold(px, candidates) ==
    LET eligible == {t \in candidates : Eligible(px, t)}
        pool == IF eligible = {} THEN candidates ELSE eligible
    IN  CHOOSE t \in pool : \A u \in pool \ {t} : Beats(px, t, u)

Coarse == {t \in 0 .. MaxLevel : t % CoarseStep = 0}

\* Mutant of Refined: the coarse optimum is not put back among the candidates.
RefinedWithout(c) ==
    LET lower == Max({0, c - CoarseStep})
    IN  {t \in lower .. Min({MaxLevel, c + CoarseStep}) : (t - lower) % RefineStep = 0}

\* The refined candidates: one coarse step to either side, and the optimum.
Refined(c) ==
    LET lower == Max({0, c - CoarseStep})
    IN  {t \in lower .. Min({MaxLevel, c + CoarseStep}) : (t - lower) % RefineStep = 0} \cup {c}

SelectCoarse ==
    /\ cal.step = "predicted"
    /\ cal' = [cal EXCEPT !.step = "coarse", !.coarse = SelectThreshold(cal.px, Coarse),
                          !.threshold = SelectThreshold(cal.px, Coarse)]
    /\ UNCHANGED <<fit, clf>>

SelectRefined ==
    /\ cal.step = "coarse"
    /\ cal' = [cal EXCEPT !.step = "calibrated",
                          !.threshold = SelectThreshold(cal.px, Refined(cal.coarse))]
    /\ UNCHANGED <<fit, clf>>

\* coverage_ratio_bp, null for a scene without a valid pixel.
CoverageBp(n, valid) == IF valid = 0 THEN NoEpoch ELSE (n * 10000) \div valid

\* evaluate_predictions at the locked threshold.
Evaluate ==
    /\ cal.step = "calibrated"
    /\ LET valid == {i \in Pixels : cal.px[i].target # "ignored"}
       IN  cal' = [cal EXCEPT !.step = "evaluated",
              !.predicted = CoverageBp(Cardinality({i \in valid : cal.px[i].p >= cal.threshold}),
                                       Cardinality(valid)),
              !.observed = CoverageBp(Cardinality({i \in valid : cal.px[i].target = "cloud"}),
                                      Cardinality(valid))]
    /\ UNCHANGED <<fit, clf>>

InitCal ==
    cal \in {[px |-> f, step |-> "predicted", coarse |-> 0, threshold |-> 0,
              predicted |-> NoEpoch, observed |-> NoEpoch] : f \in [Pixels -> PixelValue]}

-----------------------------------------------------------------------------
FitNext == (\E m \in Measurement, s \in BOOLEAN : TrainEpoch(m, s)) \/ WriteCheckpoint
ClfNext == ClassifierEpoch \/ (\E f1 \in 0 .. MaxMetric : ClassifierValidate(f1)) \/ SaveBestModel \/ ClassifierEnd
CalNext == SelectCoarse \/ SelectRefined \/ Evaluate

TrainingInit == InitFit /\ InitClf /\ InitCal
TrainingNext == FitNext \/ ClfNext \/ CalNext

TrainingSpec == TrainingInit /\ [][TrainingNext]_trainingVars

-----------------------------------------------------------------------------
\* The epoch the SegFormer loop reports as best is the first with the highest
\* score among those that validated a pixel, and violates the false-clear
\* constraint only if every one of them did; training stops early only after
\* StopPatience epochs in a row without a better one.
BestEpochIsBest ==
    /\ fit.best # NoEpoch =>
         LET b == fit.history[fit.best + 1]
         IN  /\ b.valid
             /\ \A i \in DOMAIN fit.history : fit.history[i].valid =>
                   /\ fit.history[i].score <= b.score
                   /\ i <= fit.best => fit.history[i].score < b.score
                   /\ fit.history[i].satisfied => b.satisfied
    /\ fit.phase = "stopped" =>
         \A i \in DOMAIN fit.history :
            i > Len(fit.history) - StopPatience => i # fit.best + 1

\* Whenever the classifier loop stops, best_model.pth was being written or holds
\* the weights of the first of the finished epochs that validated best.
BestFileIsBest ==
    clf.validation /\ clf.bestFile # CutOffFile /\ clf.epoch > 0 =>
        /\ clf.bestFile \in 0 .. clf.epoch - 1
        /\ \A i \in 1 .. clf.epoch :
             /\ clf.scores[i] <= clf.scores[clf.bestFile + 1]
             /\ i <= clf.bestFile => clf.scores[i] < clf.scores[clf.bestFile + 1]

\* What both training loops keep is the best of what they validated, ties and
\* interruptions included (train of train_segmentation.py, main of train.py).
SelectionIsBest == BestEpochIsBest /\ BestFileIsBest

\* The refined threshold is never worse than the coarse one, and it keeps the
\* false-clear constraint whenever some threshold of the coarse sweep does.
CalibrationNeverWorse ==
    cal.step \in {"calibrated", "evaluated"} =>
        /\ (\E t \in Coarse : Eligible(cal.px, t)) => Eligible(cal.px, cal.threshold)
        /\ Eligible(cal.px, cal.threshold) = Eligible(cal.px, cal.coarse)
             => ~Beats(cal.px, cal.coarse, cal.threshold)

\* What the notebooks say of the checkpoint they package: it was selected by
\* its validation metric, so its weights are those of the epoch it names.
CheckpointIsBestEpoch ==
    fit.phase = "written" =>
        fit.checkpoint.weights = fit.history[fit.checkpoint.epoch + 1].weights
=============================================================================
