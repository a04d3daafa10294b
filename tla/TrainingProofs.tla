--------------------------- MODULE TrainingProofs ---------------------------
(***************************************************************************)
(* Theorems about the training loops and the calibration                   *)
(* (SegmentationTraining), for every number of epochs, patience, metric,    *)
(* pixel set and threshold sweep, and about the notebooks                  *)
(* (ColabNotebooks), for every number of seeds, commits, trainings and     *)
(* faults.                                                                 *)
(*                                                                         *)
(* The loops: an invariant that ties what a loop remembers to the history   *)
(* of its epochs.  Calibration: the order of select_pixel_threshold is a   *)
(* strict total order of the thresholds, so every finite set of candidates *)
(* has one best, and CHOOSE finds it.  Notebooks: an invariant of the files *)
(* and, per cell, of what the notebook holds in memory and on its disk;    *)
(* one lemma per operation, then one per notebook.                         *)
(***************************************************************************)
EXTENDS SegmentationTraining, ColabNotebooks, FiniteSetTheorems, SequenceTheorems,
        WellFoundedInduction, TLAPS

-----------------------------------------------------------------------------
(* Induction over the naturals, for a set instead of a predicate.          *)

\* A set of naturals has a least element.
LEMMA LeastElement ==
    ASSUME NEW T \in SUBSET Nat, T # {}
    PROVE  \E x \in T : \A y \in T : x <= y
<1>1. IsWellFoundedOn(OpToRel(<, Nat), Nat)
  BY NatLessThanWellFounded
<1>2. PICK x \in T : \A y \in T : ~(<<y, x>> \in OpToRel(<, Nat))
  BY <1>1, WFMin
<1>3. \A y \in T : <<y, x>> \in OpToRel(<, Nat) <=> y < x
  BY DEF OpToRel
<1>4. \A y \in T : y \in Nat /\ x \in Nat /\ ~(y < x)
  BY <1>2, <1>3
<1>5. QED
  BY <1>4

\* A set that holds 0 and every successor holds every natural.
LEMMA SetInduction ==
    ASSUME NEW S, 0 \in S, \A n \in S \cap Nat : n + 1 \in S
    PROVE  Nat \subseteq S
<1>1. SUFFICES ASSUME Nat \ S # {} PROVE FALSE
  OBVIOUS
<1>2. PICK x \in Nat \ S : \A y \in Nat \ S : x <= y
  BY <1>1, LeastElement
<1>3. x # 0 /\ x - 1 \in Nat /\ ~(x <= x - 1) /\ (x - 1) + 1 = x
  BY <1>2
<1>4. x - 1 \in S
  BY <1>2, <1>3
<1>5. x \in S
  BY <1>3, <1>4
<1>6. QED
  BY <1>2, <1>5

-----------------------------------------------------------------------------
(* The SegFormer loop.                                                     *)
HistoryRow == [valid : BOOLEAN, score : Int, satisfied : BOOLEAN, weights : Int]

Histories == Seq(HistoryRow)
PlateauStates == [best : Int, bad : Int]
Rates == [warm : Nat, cuts : Nat]
Checkpoints == [epoch : Int, weights : Int]

Loops ==
    [metric : {"loss", "dice"}, phase : {"running", "stopped", "failed", "written"},
     epoch : Nat, weights : Int, best : Int, bestScore : Int, stale : Int,
     history : Histories, plateau : PlateauStates, rate : Rates, checkpoint : Checkpoints]

FitTypes == fit \in Loops

\* The history has a row for every epoch, and its scores tell whether an epoch
\* satisfied the false-clear constraint.
HistoryOK ==
    /\ Len(fit.history) = fit.epoch
    /\ \A i \in 1 .. fit.epoch :
         fit.history[i].satisfied <=> (fit.metric = "loss" \/ fit.history[i].score >= 0)

\* What the loop remembers of the epochs it has been through.
BestOK ==
    /\ fit.best \in NoEpoch .. fit.epoch - 1
    /\ fit.stale = fit.epoch - 1 - fit.best
    /\ \A i \in 1 .. fit.epoch : fit.history[i].valid =>
         /\ fit.best # NoEpoch
         /\ fit.history[i].score <= fit.bestScore
         /\ i <= fit.best => fit.history[i].score < fit.bestScore
    /\ fit.best # NoEpoch => /\ fit.history[fit.best + 1].valid
                             /\ fit.history[fit.best + 1].score = fit.bestScore
    /\ fit.phase = "stopped" => fit.stale >= StopPatience

FitInv == FitTypes /\ HistoryOK /\ BestOK

\* The loop starts with nothing remembered.
LEMMA FitInit == InitFit => FitInv
<1> SUFFICES ASSUME InitFit PROVE FitInv
  OBVIOUS
<1>1. PICK m \in {"loss", "dice"} :
        fit = [metric |-> m, phase |-> "running", epoch |-> 0, weights |-> NoEpoch,
              best |-> NoEpoch, bestScore |-> 0, stale |-> 0, history |-> <<>>,
              plateau |-> [best |-> NoEpoch, bad |-> 0], rate |-> [warm |-> 0, cuts |-> 0],
              checkpoint |-> [epoch |-> NoEpoch, weights |-> NoEpoch]]
  BY DEF InitFit
<1>2. /\ [best |-> NoEpoch, bad |-> 0] \in PlateauStates /\ [warm |-> 0, cuts |-> 0] \in Rates
      /\ [epoch |-> NoEpoch, weights |-> NoEpoch] \in Checkpoints /\ <<>> \in Histories
  BY DEF PlateauStates, Rates, Checkpoints, Histories, NoEpoch
<1>3. FitTypes
  BY <1>1, <1>2 DEF FitTypes, Loops, NoEpoch
<1>4. QED
  BY <1>1, <1>3 DEF FitInv, HistoryOK, BestOK, NoEpoch

\* Scores are integers that show whether the constraint was satisfied.
LEMMA ScoreTells ==
    ASSUME NEW m \in Measurement, NEW metric \in {"loss", "dice"}
    PROVE  /\ Score(metric, m) \in Int
           /\ Satisfies(metric, m) \in BOOLEAN
           /\ Satisfies(metric, m) <=> (metric = "loss" \/ Score(metric, m) >= 0)
  BY TrainingAssumption DEF Measurement, Score, Satisfies

\* The scheduler's state stays in its type.
LEMMA PlateauType ==
    ASSUME NEW p \in [best : Int, bad : Int], NEW loss \in Int
    PROVE  /\ PlateauStep(p, loss).best \in Int /\ PlateauStep(p, loss).bad \in Int
  BY DEF PlateauStep

\* An epoch: better than the best so far, or one more without improvement.
LEMMA TrainEpochInv ==
    ASSUME FitInv, NEW m \in Measurement, NEW s \in BOOLEAN, TrainEpoch(m, s)
    PROVE  FitInv'
<1> DEFINE row == [valid |-> m.valid, score |-> Score(fit.metric, m),
                   satisfied |-> Satisfies(fit.metric, m),
                   weights |-> IF s THEN fit.epoch ELSE fit.weights]
           score == Score(fit.metric, m)
           better == Improves(m, score)
<1> USE DEF NoEpoch
<1>0. fit.metric \in {"loss", "dice"} /\ fit.epoch \in Nat /\ StopPatience \in Nat
  BY TrainingAssumption DEF FitInv, FitTypes, Loops
<1>1. row \in HistoryRow /\ score \in Int /\ m.valid \in BOOLEAN
  <2>1. m.valid \in BOOLEAN /\ fit.weights \in Int
    BY DEF Measurement, FitInv, FitTypes, Loops
  <2>2. score \in Int /\ Satisfies(fit.metric, m) \in BOOLEAN
    BY <1>0, ScoreTells
  <2>3. QED
    BY <1>0, <2>1, <2>2 DEF HistoryRow
<1> DEFINE rate == WarmRate(fit.epoch, fit.rate)
           p == IF fit.epoch >= SchedulerStart THEN PlateauStep(fit.plateau, m.loss)
                ELSE [best |-> fit.plateau.best, bad |-> fit.plateau.bad, cut |-> FALSE]
           stale == IF better THEN 0 ELSE fit.stale + 1
           plateau == [best |-> p.best, bad |-> p.bad]
           newRate == IF p.cut THEN [rate EXCEPT !.cuts = @ + 1] ELSE rate
           weights == IF s THEN fit.epoch ELSE fit.weights
           history == Append(fit.history, row)
           common == [fit EXCEPT !.epoch = @ + 1, !.weights = weights, !.plateau = plateau,
                                 !.rate = newRate, !.stale = stale, !.history = history]
<1>2. fit' = IF better THEN [common EXCEPT !.best = fit.epoch, !.bestScore = score]
             ELSE [common EXCEPT !.phase = IF stale >= StopPatience THEN "stopped" ELSE @]
  BY Zenon DEF TrainEpoch
<1>3. /\ plateau \in PlateauStates /\ newRate \in Rates
      /\ weights \in Int /\ stale \in Int /\ history \in Histories
  <2>1. fit.rate \in Rates /\ fit.plateau \in PlateauStates /\ fit.history \in Histories
        /\ fit.weights \in Int /\ fit.stale \in Int
    BY DEF FitInv, FitTypes, Loops
  <2>2. rate \in Rates
    BY <1>0, <2>1, TrainingAssumption DEF WarmRate, Rates
  <2>3. newRate \in Rates
    BY <2>2 DEF Rates
  <2>4. m.loss \in Int
    BY TrainingAssumption DEF Measurement
  <2>5. p.best \in Int /\ p.bad \in Int
    BY <2>1, <2>4, PlateauType DEF PlateauStates
  <2>6. plateau \in PlateauStates
    BY <2>5 DEF PlateauStates
  <2>7. history \in Histories
    BY <1>1, <2>1 DEF Histories
  <2>8. weights \in Int /\ stale \in Int
    BY <1>0, <2>1
  <2>9. QED
    BY <2>3, <2>6, <2>7, <2>8
<1>4. fit \in Loops /\ fit.phase = "running"
  BY DEF FitInv, FitTypes, TrainEpoch
<1> HIDE DEF row, score, better, stale, plateau, newRate, weights, history
<1>5. /\ common \in Loops
      /\ common.metric = fit.metric /\ common.epoch = fit.epoch + 1
      /\ common.history = history /\ common.best = fit.best
      /\ common.bestScore = fit.bestScore /\ common.stale = stale /\ common.phase = "running"
  <2>1. common \in Loops
    <3>1. fit.epoch + 1 \in Nat
      BY <1>0
    <3>2. QED
      BY <3>1, <1>3, <1>4 DEF Loops
  <2>2. common.metric = fit.metric /\ common.best = fit.best /\ common.bestScore = fit.bestScore
    BY <1>4 DEF Loops
  <2>3. common.epoch = fit.epoch + 1 /\ common.history = history /\ common.stale = stale
    BY <1>4 DEF Loops
  <2>4. common.phase = "running"
    BY <1>4 DEF Loops
  <2>5. QED
    BY <2>1, <2>2, <2>3, <2>4
<1> HIDE DEF common
<1>6. /\ FitTypes'
      /\ fit'.metric = fit.metric /\ fit'.epoch = fit.epoch + 1
      /\ fit'.history = history
      /\ fit'.best = IF better THEN fit.epoch ELSE fit.best
      /\ fit'.bestScore = IF better THEN score ELSE fit.bestScore
      /\ fit'.stale = stale
      /\ fit'.phase = IF ~better /\ stale >= StopPatience THEN "stopped" ELSE "running"
  <2>1. CASE better
    <3>1. score \in Int /\ fit.epoch \in Int
      BY <1>0, <1>1
    <3>2. fit' = [common EXCEPT !.best = fit.epoch, !.bestScore = score]
      BY <2>1, <1>2
    <3>3. QED
      BY <2>1, <3>1, <3>2, <1>5 DEF FitTypes, Loops
  <2>2. CASE ~better
    <3>1. CASE stale >= StopPatience
      BY <3>1, <2>2, <1>2, <1>5 DEF FitTypes, Loops
    <3>2. CASE ~(stale >= StopPatience)
      BY <3>2, <2>2, <1>2, <1>5 DEF FitTypes, Loops
    <3>3. QED
      BY <3>1, <3>2
  <2>3. QED
    BY <2>1, <2>2
<1>7. /\ Len(fit'.history) = fit.epoch + 1
      /\ fit'.history[fit.epoch + 1] = row
      /\ \A i \in 1 .. fit.epoch : fit'.history[i] = fit.history[i]
  BY <1>0, <1>1, <1>4, <1>6, AppendProperties DEF FitInv, Loops, Histories, HistoryOK, history
<1>8. HistoryOK'
  <2>1. row.satisfied <=> (fit.metric = "loss" \/ row.score >= 0)
    BY <1>0, ScoreTells DEF row
  <2>2. Len(fit'.history) = fit'.epoch
    BY <1>6, <1>7
  <2>3. ASSUME NEW i \in 1 .. fit'.epoch
        PROVE  fit'.history[i].satisfied <=> (fit'.metric = "loss" \/ fit'.history[i].score >= 0)
    <3>1. CASE i = fit.epoch + 1
      BY <3>1, <2>1, <1>6, <1>7
    <3>2. CASE i \in 1 .. fit.epoch
      BY <3>2, <1>6, <1>7 DEF FitInv, HistoryOK
    <3>3. QED
      BY <3>1, <3>2, <1>0, <1>6
  <2>4. QED
    BY <2>2, <2>3 DEF HistoryOK
<1>9. BestOK'
  <2>0. /\ fit.best \in NoEpoch .. fit.epoch - 1 /\ fit.stale = fit.epoch - 1 - fit.best
        /\ fit.bestScore \in Int /\ score \in Int
        /\ row.valid = m.valid /\ row.score = score
        /\ \A i \in 1 .. fit.epoch : fit.history[i] \in HistoryRow
    <3>1. /\ fit.best \in NoEpoch .. fit.epoch - 1 /\ fit.stale = fit.epoch - 1 - fit.best
          /\ fit.bestScore \in Int /\ score \in Int
      BY <1>1, <1>4 DEF FitInv, BestOK, Loops
    <3>2. row.valid = m.valid /\ row.score = score
      BY DEF row, score
    <3>3. fit.history \in Seq(HistoryRow) /\ Len(fit.history) = fit.epoch
      BY <1>4 DEF FitInv, HistoryOK, Loops, Histories
    <3>4. QED
      BY <3>1, <3>2, <3>3
  <2>1. CASE better
    <3>1. m.valid /\ (fit.best = NoEpoch \/ score > fit.bestScore)
      BY <2>1 DEF better, Improves
    <3>2. fit'.best = fit.epoch /\ fit'.stale = 0 /\ fit'.bestScore = score /\ fit'.phase = "running"
      BY <2>1, <1>6 DEF stale
    <3>3. ASSUME NEW i \in 1 .. fit.epoch, fit.history[i].valid
          PROVE  fit.history[i].score < score
      BY <3>3, <3>1, <2>0 DEF FitInv, BestOK, HistoryRow
    <3>4. ASSUME NEW i \in 1 .. fit.epoch + 1, fit'.history[i].valid
          PROVE  fit'.history[i].score <= score /\ (i <= fit.epoch => fit'.history[i].score < score)
      <4>1. CASE i = fit.epoch + 1
        <5>1. fit'.history[i] = row
          BY <4>1, <1>7
        <5>2. QED
          BY <4>1, <5>1, <2>0, <1>0
      <4>2. CASE i \in 1 .. fit.epoch
        <5>1. fit'.history[i] = fit.history[i] /\ fit.history[i].score \in Int
          BY <4>2, <1>7, <2>0 DEF HistoryRow
        <5>2. fit.history[i].score < score
          BY <4>2, <5>1, <3>3, <3>4
        <5>3. QED
          BY <5>1, <5>2, <2>0
      <4>3. i = fit.epoch + 1 \/ i \in 1 .. fit.epoch
        BY <1>0
      <4>4. QED
        BY <4>1, <4>2, <4>3
    <3>5. fit'.best \in NoEpoch .. fit'.epoch - 1 /\ fit'.stale = fit'.epoch - 1 - fit'.best
      BY <3>2, <1>0, <1>6
    <3>6. fit'.history[fit'.best + 1].valid /\ fit'.history[fit'.best + 1].score = fit'.bestScore
      BY <3>1, <3>2, <1>7, <2>0
    <3>7. fit'.epoch = fit.epoch + 1 /\ fit'.best # NoEpoch /\ fit'.phase # "stopped"
      BY <3>2, <1>0, <1>6
    <3>8. QED
      BY <3>2, <3>4, <3>5, <3>6, <3>7 DEF BestOK
  <2>2. CASE ~better
    <3>1. ~m.valid \/ (fit.best # NoEpoch /\ score <= fit.bestScore)
      BY <2>2, <2>0 DEF better, Improves
    <3>2. /\ fit'.best = fit.best /\ fit'.stale = fit.stale + 1 /\ fit'.bestScore = fit.bestScore
          /\ fit'.phase = "stopped" => fit'.stale >= StopPatience
      BY <2>2, <1>6 DEF stale
    <3>3. ASSUME NEW i \in 1 .. fit.epoch + 1, fit'.history[i].valid
          PROVE  /\ fit.best # NoEpoch
                 /\ fit'.history[i].score <= fit.bestScore
                 /\ i <= fit.best => fit'.history[i].score < fit.bestScore
      <4>1. CASE i = fit.epoch + 1
        BY <4>1, <3>1, <3>3, <1>0, <1>7, <2>0
      <4>2. CASE i \in 1 .. fit.epoch
        BY <4>2, <3>3, <1>7 DEF FitInv, BestOK
      <4>3. QED
        BY <4>1, <4>2, <1>0
    <3>4. fit.best # NoEpoch => fit.best + 1 \in 1 .. fit.epoch
      BY <2>0, <1>0
    <3>5. fit'.best # NoEpoch => /\ fit'.history[fit'.best + 1].valid
                                 /\ fit'.history[fit'.best + 1].score = fit'.bestScore
      BY <3>2, <3>4, <1>7 DEF FitInv, BestOK
    <3>6. fit'.best \in NoEpoch .. fit'.epoch - 1 /\ fit'.stale = fit'.epoch - 1 - fit'.best
      BY <3>2, <1>0, <1>6, <2>0
    <3>7. QED
      BY <3>2, <3>3, <3>5, <3>6, <1>6 DEF BestOK
  <2>3. QED
    BY <2>1, <2>2
<1>10. QED
  BY <1>6, <1>8, <1>9 DEF FitInv

\* Writing the checkpoint changes nothing the loop remembers.
LEMMA WriteCheckpointInv ==
    ASSUME FitInv, WriteCheckpoint
    PROVE  FitInv'
<1>1. fit \in Loops
  BY DEF FitInv, FitTypes
<1>2. CASE fit.best = NoEpoch
  <2>1. fit' = [fit EXCEPT !.phase = "failed"]
    BY <1>2 DEF WriteCheckpoint
  <2>2. fit' \in Loops /\ fit'.phase = "failed"
    BY <1>1, <2>1 DEF Loops
  <2>3. /\ fit'.history = fit.history /\ fit'.epoch = fit.epoch /\ fit'.metric = fit.metric
        /\ fit'.best = fit.best /\ fit'.bestScore = fit.bestScore /\ fit'.stale = fit.stale
    BY <1>1, <2>1 DEF Loops
  <2>4. QED
    BY <2>2, <2>3 DEF FitInv, FitTypes, HistoryOK, BestOK
<1>3. CASE fit.best # NoEpoch
  <2> DEFINE file == [epoch |-> fit.best, weights |-> fit.weights]
  <2>0. file \in Checkpoints
    BY <1>1 DEF Loops, Checkpoints
  <2>1. fit' = [fit EXCEPT !.phase = "written", !.checkpoint = file]
    BY <1>3 DEF WriteCheckpoint
  <2> HIDE DEF file
  <2>2. fit' \in Loops /\ fit'.phase = "written"
    BY <1>1, <2>0, <2>1 DEF Loops
  <2>3. /\ fit'.history = fit.history /\ fit'.epoch = fit.epoch /\ fit'.metric = fit.metric
        /\ fit'.best = fit.best /\ fit'.bestScore = fit.bestScore /\ fit'.stale = fit.stale
    BY <1>1, <2>1 DEF Loops
  <2>4. QED
    BY <2>2, <2>3 DEF FitInv, FitTypes, HistoryOK, BestOK
<1>4. QED
  BY <1>2, <1>3

\* A step of another part.
LEMMA FitStays ==
    ASSUME FitInv, UNCHANGED fit
    PROVE  FitInv'
  BY DEF FitInv, FitTypes, HistoryOK, BestOK

\* What the loop remembers is the first of the best epochs.
LEMMA FitBest == FitInv => BestEpochIsBest
<1> SUFFICES ASSUME FitInv PROVE BestEpochIsBest
  OBVIOUS
<1> USE DEF NoEpoch
<1>1. /\ fit.history \in Seq(HistoryRow) /\ Len(fit.history) = fit.epoch
      /\ fit.metric \in {"loss", "dice"} /\ fit.epoch \in Nat /\ StopPatience \in Nat \ {0}
      /\ fit.best \in NoEpoch .. fit.epoch - 1 /\ fit.bestScore \in Int /\ fit.stale \in Int
  BY TrainingAssumption DEF FitInv, FitTypes, Loops, Histories, HistoryOK, BestOK
<1>2. DOMAIN fit.history = 1 .. fit.epoch
  BY <1>1
<1>3. \A i \in 1 .. fit.epoch : fit.history[i] \in HistoryRow
  BY <1>1
<1>4. ASSUME fit.best # NoEpoch
      PROVE  LET b == fit.history[fit.best + 1]
             IN  /\ b.valid
                 /\ \A i \in DOMAIN fit.history : fit.history[i].valid =>
                       /\ fit.history[i].score <= b.score
                       /\ i <= fit.best => fit.history[i].score < b.score
                       /\ fit.history[i].satisfied => b.satisfied
  <2> DEFINE b == fit.history[fit.best + 1]
  <2>1. fit.best + 1 \in 1 .. fit.epoch /\ b.valid /\ b.score = fit.bestScore
    BY <1>1, <1>4 DEF FitInv, BestOK
  <2>2. ASSUME NEW i \in 1 .. fit.epoch, fit.history[i].valid
        PROVE  /\ fit.history[i].score <= b.score
               /\ i <= fit.best => fit.history[i].score < b.score
               /\ fit.history[i].satisfied => b.satisfied
    <3>1. /\ fit.history[i].score <= b.score
          /\ i <= fit.best => fit.history[i].score < b.score
      BY <2>1, <2>2 DEF FitInv, BestOK
    <3>2. fit.history[i].score \in Int /\ b.score \in Int
      BY <1>3, <2>1 DEF HistoryRow
    <3>3. ASSUME fit.history[i].satisfied PROVE b.satisfied
      <4>1. fit.metric = "loss" \/ fit.history[i].score >= 0
        BY <3>3 DEF FitInv, HistoryOK
      <4>2. fit.metric = "loss" \/ b.score >= 0
        BY <4>1, <3>1, <3>2
      <4>3. QED
        BY <4>2, <2>1 DEF FitInv, HistoryOK
    <3>4. QED
      BY <3>1, <3>3
  <2>3. QED
    BY <1>2, <2>1, <2>2
<1>5. ASSUME fit.phase = "stopped", NEW i \in DOMAIN fit.history,
             i > Len(fit.history) - StopPatience
      PROVE  i # fit.best + 1
  <2>1. fit.stale >= StopPatience /\ fit.stale = fit.epoch - 1 - fit.best
    BY <1>5 DEF FitInv, BestOK
  <2>2. QED
    BY <1>1, <1>2, <1>5, <2>1
<1>6. QED
  BY <1>4, <1>5 DEF BestEpochIsBest

-----------------------------------------------------------------------------
(* The classifier loop.                                                    *)
ClassifierLoops ==
    [phase : {"train", "validate", "save", "ended"}, validation : BOOLEAN, epoch : Nat,
     weights : Int, bestF1 : Int, bestFile : Int, scores : Seq(Nat)]

\* k is the first of the epochs 0 .. n - 1 with the best score.
FirstBest(scores, n, k) ==
    /\ k \in 0 .. n - 1
    /\ \A i \in 1 .. n : /\ scores[i] <= scores[k + 1]
                         /\ i <= k => scores[i] < scores[k + 1]

\* While the loop runs, best_f1 is the score of the epoch whose weights are in
\* best_model.pth, or of the epoch whose weights are to be saved next.
ClfBest ==
    /\ clf.phase \in {"train", "validate"} =>
         /\ Len(clf.scores) = clf.epoch
         /\ IF clf.epoch = 0 THEN clf.bestF1 = -1 ELSE clf.bestF1 = clf.scores[clf.bestFile + 1]
    /\ clf.phase = "save" =>
         /\ Len(clf.scores) = clf.epoch + 1
         /\ clf.bestF1 = clf.scores[clf.epoch + 1]
         /\ \A i \in 1 .. clf.epoch : clf.scores[i] < clf.bestF1
    /\ clf.phase \in {"validate", "save"} => clf.weights = clf.epoch
    /\ Len(clf.scores) >= clf.epoch
    /\ clf.bestFile # CutOffFile /\ clf.epoch > 0 => FirstBest(clf.scores, clf.epoch, clf.bestFile)

ClfInv ==
    /\ clf \in ClassifierLoops
    /\ clf.weights # CutOffFile
    /\ clf.phase = "validate" => clf.validation
    /\ clf.phase # "ended" => clf.bestFile # CutOffFile
    /\ clf.validation => ClfBest

\* The classifier loop starts with no file written.
LEMMA ClfInit == InitClf => ClfInv
<1> SUFFICES ASSUME InitClf PROVE ClfInv
  OBVIOUS
<1>1. PICK v \in BOOLEAN :
        clf = [phase |-> "train", validation |-> v, epoch |-> 0, weights |-> NoEpoch,
               bestF1 |-> -1, bestFile |-> NoEpoch, scores |-> <<>>]
  BY DEF InitClf
<1>2. clf \in ClassifierLoops
  BY <1>1 DEF ClassifierLoops, NoEpoch
<1>3. QED
  BY <1>1, <1>2 DEF ClfInv, ClfBest, NoEpoch, CutOffFile

\* An epoch of training, before its validation.
LEMMA ClassifierEpochInv ==
    ASSUME ClfInv, ClassifierEpoch
    PROVE  ClfInv'
<1> DEFINE phase == IF clf.validation THEN "validate" ELSE "save"
<1>1. clf \in ClassifierLoops /\ clf.phase = "train"
  BY DEF ClfInv, ClassifierEpoch
<1>2. clf' = [clf EXCEPT !.phase = phase, !.weights = clf.epoch]
  BY DEF ClassifierEpoch
<1>3. phase \in {"validate", "save"} /\ clf.epoch \in Int
  BY <1>1 DEF ClassifierLoops
<1> HIDE DEF phase
<1>4. clf' \in ClassifierLoops
  BY <1>1, <1>2, <1>3 DEF ClassifierLoops
<1>5. /\ clf'.phase = phase /\ clf'.weights = clf.epoch /\ clf'.validation = clf.validation
      /\ clf'.epoch = clf.epoch /\ clf'.bestF1 = clf.bestF1 /\ clf'.bestFile = clf.bestFile
      /\ clf'.scores = clf.scores
  BY <1>1, <1>2 DEF ClassifierLoops
<1>6. clf.validation <=> phase = "validate"
  BY DEF phase
<1>7. clf'.validation => ClfBest'
  BY <1>1, <1>5, <1>6 DEF ClfInv, ClfBest, FirstBest
<1>8. clf.epoch # CutOffFile
  BY <1>1 DEF ClassifierLoops, CutOffFile
<1>9. QED
  BY <1>1, <1>3, <1>4, <1>5, <1>6, <1>7, <1>8 DEF ClfInv

\* A validation: its epoch is to be saved, or over.
LEMMA ClassifierValidateInv ==
    ASSUME ClfInv, NEW f1 \in 0 .. MaxMetric, ClassifierValidate(f1)
    PROVE  ClfInv'
<1>0. f1 \in Nat
  BY TrainingAssumption
<1>1. clf \in ClassifierLoops /\ clf.phase = "validate" /\ clf.validation
  BY DEF ClfInv, ClassifierValidate
<1>2. /\ Len(clf.scores) = clf.epoch /\ clf.weights = clf.epoch /\ clf.bestFile # CutOffFile
      /\ clf.scores \in Seq(Nat) /\ clf.epoch \in Nat /\ clf.bestF1 \in Int /\ clf.bestFile \in Int
      /\ IF clf.epoch = 0 THEN clf.bestF1 = -1 ELSE clf.bestF1 = clf.scores[clf.bestFile + 1]
      /\ clf.epoch > 0 => FirstBest(clf.scores, clf.epoch, clf.bestFile)
  BY <1>1 DEF ClfInv, ClfBest, ClassifierLoops
<1> DEFINE scores == Append(clf.scores, f1)
<1>3. /\ scores \in Seq(Nat) /\ Len(scores) = clf.epoch + 1 /\ scores[clf.epoch + 1] = f1
      /\ \A i \in 1 .. clf.epoch : scores[i] = clf.scores[i] /\ scores[i] \in Nat
  BY <1>0, <1>2
<1> HIDE DEF scores
<1>4. CASE Better(f1)
  <2>1. clf' = [clf EXCEPT !.phase = "save", !.bestF1 = f1, !.scores = scores]
    BY <1>4 DEF ClassifierValidate, scores
  <2>2. clf' \in ClassifierLoops
    <3>1. f1 \in Int
      BY <1>0
    <3>2. QED
      BY <1>1, <1>3, <2>1, <3>1 DEF ClassifierLoops
  <2>3. /\ clf'.phase = "save" /\ clf'.weights = clf.weights /\ clf'.validation = clf.validation
        /\ clf'.epoch = clf.epoch /\ clf'.bestF1 = f1 /\ clf'.bestFile = clf.bestFile
        /\ clf'.scores = scores
    BY <1>1, <2>1 DEF ClassifierLoops
  <2>4. \A i \in 1 .. clf.epoch : scores[i] < f1
    <3>1. ASSUME NEW i \in 1 .. clf.epoch PROVE scores[i] < f1
      <4>1. clf.epoch > 0 /\ FirstBest(clf.scores, clf.epoch, clf.bestFile)
        BY <1>2
      <4>2. clf.scores[i] <= clf.bestF1 /\ f1 > clf.bestF1
        BY <4>1, <1>2, <1>4 DEF FirstBest, Better
      <4>3. scores[i] \in Nat /\ scores[i] = clf.scores[i]
        BY <1>3
      <4>4. QED
        BY <1>0, <1>2, <4>2, <4>3
    <3>2. QED
      BY <3>1
  <2>5. ASSUME clf.epoch > 0 PROVE FirstBest(scores, clf.epoch, clf.bestFile)
    <3>1. FirstBest(clf.scores, clf.epoch, clf.bestFile)
      BY <1>2, <2>5
    <3>2. clf.bestFile \in 0 .. clf.epoch - 1 /\ clf.bestFile + 1 \in 1 .. clf.epoch
      BY <1>2, <3>1 DEF FirstBest
    <3>3. scores[clf.bestFile + 1] = clf.scores[clf.bestFile + 1]
      BY <1>3, <3>2
    <3>4. QED
      BY <1>3, <3>1, <3>2, <3>3 DEF FirstBest
  <2>6. ClfBest'
    <3>1. Len(scores) >= clf.epoch
      BY <1>2, <1>3
    <3>2. QED
      BY <1>2, <1>3, <2>3, <2>4, <2>5, <3>1 DEF ClfBest
  <2>7. QED
    BY <1>2, <2>2, <2>3, <2>6 DEF ClfInv
<1>5. CASE ~Better(f1)
  <2>1. clf' = [clf EXCEPT !.phase = "train", !.epoch = @ + 1, !.scores = scores]
    BY <1>5 DEF ClassifierValidate, scores
  <2>0. clf.epoch + 1 \in Nat
    BY <1>2
  <2>2. clf' \in ClassifierLoops
    BY <1>1, <1>3, <2>0, <2>1 DEF ClassifierLoops
  <2>3. /\ clf'.phase = "train" /\ clf'.weights = clf.weights /\ clf'.validation = clf.validation
        /\ clf'.epoch = clf.epoch + 1 /\ clf'.bestF1 = clf.bestF1 /\ clf'.bestFile = clf.bestFile
        /\ clf'.scores = scores
    BY <1>1, <2>1 DEF ClassifierLoops
  <2>4. f1 <= clf.bestF1 /\ clf.epoch > 0
    BY <1>0, <1>2, <1>5 DEF Better
  <2>5. FirstBest(clf.scores, clf.epoch, clf.bestFile) /\ clf.bestF1 = clf.scores[clf.bestFile + 1]
    BY <1>2, <2>4
  <2>6. clf.bestFile + 1 \in 1 .. clf.epoch /\ clf.bestFile \in 0 .. clf.epoch - 1
    BY <1>2, <2>5 DEF FirstBest
  <2>7. scores[clf.bestFile + 1] = clf.bestF1
    BY <1>3, <2>5, <2>6
  <2>8. FirstBest(scores, clf.epoch + 1, clf.bestFile)
    <3>1. ASSUME NEW i \in 1 .. clf.epoch + 1
          PROVE  scores[i] <= clf.bestF1 /\ (i <= clf.bestFile => scores[i] < clf.bestF1)
      <4>1. CASE i = clf.epoch + 1
        BY <4>1, <1>2, <1>3, <2>4, <2>6
      <4>2. CASE i \in 1 .. clf.epoch
        BY <4>2, <1>3, <2>5 DEF FirstBest
      <4>3. i = clf.epoch + 1 \/ i \in 1 .. clf.epoch
        BY <1>2
      <4>4. QED
        BY <4>1, <4>2, <4>3
    <3>2. QED
      BY <1>2, <2>6, <2>7, <3>1 DEF FirstBest
  <2>9. ClfBest'
    <3>1. Len(scores) >= clf.epoch + 1 /\ clf.epoch + 1 # 0
      BY <1>2, <1>3
    <3>2. QED
      BY <1>2, <1>3, <2>3, <2>7, <2>8, <3>1 DEF ClfBest
  <2>10. QED
    BY <1>2, <2>2, <2>3, <2>9 DEF ClfInv
<1>6. QED
  BY <1>4, <1>5

\* The best file holds the weights of the epoch that is now over.
LEMMA SaveBestModelInv ==
    ASSUME ClfInv, SaveBestModel
    PROVE  ClfInv'
<1>1. clf \in ClassifierLoops /\ clf.phase = "save"
  BY DEF ClfInv, SaveBestModel
<1>2. clf' = [clf EXCEPT !.phase = "train", !.epoch = @ + 1, !.bestFile = clf.weights]
  BY DEF SaveBestModel
<1>3. clf.epoch \in Nat /\ clf.epoch + 1 \in Nat /\ clf.weights \in Int /\ clf.scores \in Seq(Nat)
  BY <1>1 DEF ClassifierLoops
<1>4. clf' \in ClassifierLoops
  BY <1>1, <1>2, <1>3 DEF ClassifierLoops
<1>5. /\ clf'.phase = "train" /\ clf'.validation = clf.validation
      /\ clf'.epoch = clf.epoch + 1 /\ clf'.bestF1 = clf.bestF1 /\ clf'.bestFile = clf.weights
      /\ clf'.scores = clf.scores
  BY <1>1, <1>2 DEF ClassifierLoops
<1>6. ASSUME clf.validation PROVE ClfBest'
  <2>1. /\ Len(clf.scores) = clf.epoch + 1 /\ clf.bestF1 = clf.scores[clf.epoch + 1]
        /\ \A i \in 1 .. clf.epoch : clf.scores[i] < clf.bestF1
        /\ clf.weights = clf.epoch
    BY <1>1, <1>6 DEF ClfInv, ClfBest
  <2>2. clf.scores[clf.epoch + 1] \in Nat
    BY <1>3, <2>1
  <2>3. FirstBest(clf.scores, clf.epoch + 1, clf.epoch)
    <3>1. ASSUME NEW i \in 1 .. clf.epoch + 1
          PROVE  /\ clf.scores[i] <= clf.scores[clf.epoch + 1]
                 /\ i <= clf.epoch => clf.scores[i] < clf.scores[clf.epoch + 1]
      <4>1. clf.scores[i] \in Nat
        BY <1>3, <2>1
      <4>2. i = clf.epoch + 1 \/ i \in 1 .. clf.epoch
        BY <1>3
      <4>3. QED
        BY <2>1, <2>2, <4>1, <4>2, <1>3
    <3>2. QED
      BY <1>3, <3>1 DEF FirstBest
  <2>4. clf.epoch + 1 # 0 /\ Len(clf.scores) >= clf.epoch + 1
    BY <1>3, <2>1
  <2>5. QED
    BY <1>5, <2>1, <2>3, <2>4 DEF ClfBest
<1>7. clf'.weights = clf.weights /\ clf.weights # CutOffFile
  BY <1>1, <1>2 DEF ClassifierLoops, ClfInv
<1>8. QED
  BY <1>4, <1>5, <1>6, <1>7 DEF ClfInv

\* An end or interruption keeps the file or cuts it off.
LEMMA ClassifierEndInv ==
    ASSUME ClfInv, ClassifierEnd
    PROVE  ClfInv'
<1>1. PICK torn \in BOOLEAN :
        clf' = [clf EXCEPT !.phase = "ended",
                           !.bestFile = IF torn /\ clf.phase = "save" THEN CutOffFile ELSE @]
  BY DEF ClassifierEnd
<1>2. clf \in ClassifierLoops /\ clf.phase # "ended"
  BY DEF ClfInv, ClassifierEnd
<1> DEFINE file == IF torn /\ clf.phase = "save" THEN CutOffFile ELSE clf.bestFile
<1>3. clf' = [clf EXCEPT !.phase = "ended", !.bestFile = file]
  BY <1>1
<1>4. file \in Int /\ (file = CutOffFile \/ file = clf.bestFile)
  BY <1>2 DEF ClassifierLoops, CutOffFile
<1> HIDE DEF file
<1>5. clf' \in ClassifierLoops
  BY <1>2, <1>3, <1>4 DEF ClassifierLoops
<1>6. /\ clf'.phase = "ended" /\ clf'.validation = clf.validation /\ clf'.weights = clf.weights
      /\ clf'.epoch = clf.epoch /\ clf'.scores = clf.scores
      /\ clf'.bestFile = clf.bestFile \/ clf'.bestFile = CutOffFile
  BY <1>2, <1>3, <1>4 DEF ClassifierLoops
<1>7. clf'.validation => ClfBest'
  BY <1>2, <1>6 DEF ClfInv, ClfBest
<1>8. QED
  BY <1>5, <1>6, <1>7 DEF ClfInv

\* A step of another part.
LEMMA ClfStays ==
    ASSUME ClfInv, UNCHANGED clf
    PROVE  ClfInv'
  BY DEF ClfInv, ClfBest

\* The file holds the first of the best epochs.
LEMMA ClfFirstBest == ClfInv => BestFileIsBest
<1> SUFFICES ASSUME ClfInv, clf.validation, clf.bestFile # CutOffFile, clf.epoch > 0
             PROVE  FirstBest(clf.scores, clf.epoch, clf.bestFile)
  BY Zenon DEF BestFileIsBest, FirstBest
<1> QED
  BY DEF ClfInv, ClfBest

-----------------------------------------------------------------------------
(* Calibration.                                                            *)
Ratios == Nat \X (Nat \ {0})

\* Less compares ratios: a ratio that is not less than a second, which is not
\* less than a third, is not less than the third.
LEMMA LessTransitive ==
    ASSUME NEW a \in Ratios, NEW b \in Ratios, NEW c \in Ratios, ~Less(a, b), ~Less(b, c)
    PROVE  ~Less(a, c)
<1>1. PICK p \in Nat, q \in Nat \ {0} : a = <<p, q>>
  BY DEF Ratios
<1>2. PICK r \in Nat, s \in Nat \ {0} : b = <<r, s>>
  BY DEF Ratios
<1>3. PICK t \in Nat, u \in Nat \ {0} : c = <<t, u>>
  BY DEF Ratios
<1>4. p * s >= r * q /\ r * u >= t * s
  BY <1>1, <1>2, <1>3 DEF Less
<1>5. (p * s) * u >= (r * q) * u /\ (r * u) * q >= (t * s) * q
  BY <1>4
<1>6. (p * u) * s >= (t * q) * s
  BY <1>5
<1>7. p * u >= t * q
  BY <1>6
<1>8. QED
  BY <1>1, <1>3, <1>7 DEF Less

\* No ratio is less than one that is less than it.
LEMMA LessAsymmetric ==
    ASSUME NEW a \in Ratios, NEW b \in Ratios, Less(a, b)
    PROVE  ~Less(b, a)
  BY DEF Ratios, Less

PixelMaps == [Pixels -> PixelValue]

\* The metrics of any predictions at any threshold are ratios.
LEMMA MetricsType ==
    ASSUME NEW px, NEW t
    PROVE  /\ Metrics(px, t).dice \in Ratios
           /\ Metrics(px, t).iou \in Ratios
           /\ Metrics(px, t).falseClear \in Ratios
<1> DEFINE tp == Count(px, "cloud", t, TRUE)
           fn == Count(px, "cloud", t, FALSE)
           fp == Count(px, "clear", t, TRUE)
<1>1. ASSUME NEW x, NEW predicted
      PROVE  Count(px, x, t, predicted) \in Nat
  <2> DEFINE P == {i \in Pixels : px[i].target = x /\ ((px[i].p >= t) <=> predicted)}
  <2>1. IsFiniteSet(P)
    BY TrainingAssumption, FS_Subset
  <2>2. QED
    BY <2>1, FS_CardinalityType DEF Count
<1>2. tp \in Nat /\ fn \in Nat /\ fp \in Nat
  BY <1>1
<1>3. ASSUME NEW n \in Nat, NEW d \in Nat
      PROVE  Safe(n, d) \in Ratios
  BY DEF Safe, Ratios
<1>4. /\ Metrics(px, t).dice = Safe(2 * tp, 2 * tp + fp + fn)
      /\ Metrics(px, t).iou = Safe(tp, tp + fp + fn)
      /\ Metrics(px, t).falseClear = Safe(fn, tp + fn)
  BY DEF Metrics
<1> HIDE DEF tp, fn, fp
<1>5. /\ 2 * tp \in Nat /\ 2 * tp + fp + fn \in Nat /\ tp + fp + fn \in Nat /\ tp + fn \in Nat
  BY <1>2
<1>6. QED
  BY <1>2, <1>3, <1>4, <1>5

\* Beats is a strict total order of the thresholds.
LEMMA BeatsAsymmetric ==
    ASSUME NEW px, NEW t \in Nat, NEW u \in Nat, Beats(px, t, u)
    PROVE  ~Beats(px, u, t)
<1> DEFINE a == Metrics(px, t)
           b == Metrics(px, u)
<1>1. a.dice \in Ratios /\ a.iou \in Ratios /\ b.dice \in Ratios /\ b.iou \in Ratios
  BY MetricsType
<1>2. /\ ~(Less(a.dice, b.dice) /\ Less(b.dice, a.dice))
      /\ ~(Less(a.iou, b.iou) /\ Less(b.iou, a.iou))
  BY <1>1, LessAsymmetric
<1>3. QED
  BY <1>2 DEF Beats

\* Of two thresholds one beats the other.
LEMMA BeatsTotal ==
    ASSUME NEW px, NEW t \in Nat, NEW u \in Nat, t # u
    PROVE  Beats(px, t, u) \/ Beats(px, u, t)
  BY DEF Beats

\* What beats a threshold beats what that beats.
LEMMA BeatsTransitive ==
    ASSUME NEW px, NEW t \in Nat, NEW u \in Nat, NEW v \in Nat,
           Beats(px, t, u), Beats(px, u, v)
    PROVE  Beats(px, t, v)
<1> DEFINE a == Metrics(px, t)
           b == Metrics(px, u)
           c == Metrics(px, v)
<1>1. /\ a.dice \in Ratios /\ a.iou \in Ratios /\ b.dice \in Ratios /\ b.iou \in Ratios
      /\ c.dice \in Ratios /\ c.iou \in Ratios
  BY MetricsType
<1>2. ASSUME NEW x \in Ratios, NEW y \in Ratios, NEW z \in Ratios
      PROVE  /\ ~Less(x, y) /\ ~Less(y, z) => ~Less(x, z)
             /\ Less(x, y) /\ ~Less(z, y) => Less(x, z)
             /\ ~Less(y, x) /\ Less(y, z) => Less(x, z)
             /\ Less(x, y) => ~Less(y, x)
  BY LessTransitive, LessAsymmetric
<1> DEFINE tu == \/ Less(b.dice, a.dice)
                 \/ ~Less(a.dice, b.dice) /\ Less(b.iou, a.iou)
                 \/ ~Less(a.dice, b.dice) /\ ~Less(a.iou, b.iou) /\ t < u
           uv == \/ Less(c.dice, b.dice)
                 \/ ~Less(b.dice, c.dice) /\ Less(c.iou, b.iou)
                 \/ ~Less(b.dice, c.dice) /\ ~Less(b.iou, c.iou) /\ u < v
<1>3. tu /\ uv
  BY DEF Beats
<1>4. t < u /\ u < v => t < v
  OBVIOUS
<1>5. /\ ~Less(a.dice, b.dice) /\ ~Less(b.dice, c.dice)
      /\ ~Less(a.dice, c.dice)
      /\ Less(b.dice, a.dice) \/ Less(c.dice, b.dice) => Less(c.dice, a.dice)
  BY <1>1, <1>2, <1>3
<1>6. CASE Less(c.dice, a.dice)
  BY <1>6 DEF Beats
<1>7. CASE ~Less(c.dice, a.dice)
  <2>1. /\ ~Less(b.dice, a.dice) /\ ~Less(c.dice, b.dice)
    BY <1>5, <1>7
  <2>2. /\ Less(b.iou, a.iou) \/ (~Less(a.iou, b.iou) /\ t < u)
        /\ Less(c.iou, b.iou) \/ (~Less(b.iou, c.iou) /\ u < v)
    <3> HIDE DEF a, b, c
    <3> QED
      BY <1>3, <2>1
  <2>3. ~Less(a.iou, b.iou) /\ ~Less(b.iou, c.iou)
    <3> HIDE DEF a, b, c
    <3>1. Less(b.iou, a.iou) => ~Less(a.iou, b.iou)
      BY <1>1, LessAsymmetric
    <3>2. Less(c.iou, b.iou) => ~Less(b.iou, c.iou)
      BY <1>1, LessAsymmetric
    <3>3. QED
      BY <2>2, <3>1, <3>2
  <2>4. ~Less(a.iou, c.iou)
    BY <1>1, <1>2, <2>3
  <2>5. Less(b.iou, a.iou) \/ Less(c.iou, b.iou) => Less(c.iou, a.iou)
    BY <1>1, <1>2, <2>3
  <2>6. Less(c.iou, a.iou) \/ (~Less(a.iou, c.iou) /\ t < v)
    BY <1>4, <2>2, <2>4, <2>5
  <2>7. QED
    BY <1>5, <2>6 DEF Beats
<1>8. QED
  BY <1>6, <1>7

\* t is the best of T.
IsBest(px, T, t) == \A u \in T \ {t} : Beats(px, t, u)

\* Every set of thresholds that is not empty has a best one: by induction over
\* the highest.
LEMMA BestExists ==
    ASSUME NEW px, NEW n \in Nat, NEW T \in SUBSET (0 .. n), T # {}
    PROVE  \E t \in T : IsBest(px, T, t)
<1> DEFINE S == {k \in Nat : \A U \in SUBSET (0 .. k) : U # {} => \E t \in U : IsBest(px, U, t)}
<1>1. 0 \in S
  <2>1. ASSUME NEW U \in SUBSET (0 .. 0), U # {} PROVE \E t \in U : IsBest(px, U, t)
    <3>1. \A x \in U : x = 0
      BY <2>1
    <3>2. U = {0}
      BY <2>1, <3>1
    <3>3. IsBest(px, U, 0)
      BY <3>2 DEF IsBest
    <3>4. QED
      BY <3>2, <3>3
  <2>2. QED
    BY <2>1
<1>2. ASSUME NEW k \in S \cap Nat PROVE k + 1 \in S
  <2>1. ASSUME NEW U \in SUBSET (0 .. k + 1), U # {} PROVE \E t \in U : IsBest(px, U, t)
    <3> DEFINE V == U \ {k + 1}
    <3>1. V \in SUBSET (0 .. k) /\ U \subseteq Nat
      BY <1>2
    <3>2. CASE V = {}
      <4>1. U = {k + 1}
        BY <2>1, <3>2
      <4>2. QED
        BY <4>1 DEF IsBest
    <3>3. CASE V # {} /\ k + 1 \notin U
      <4>1. V = U
        BY <3>3
      <4>2. QED
        BY <1>2, <3>1, <3>3, <4>1
    <3>4. CASE V # {} /\ k + 1 \in U
      <4>1. PICK t \in V : IsBest(px, V, t)
        BY <1>2, <3>1, <3>4
      <4>2. t \in Nat /\ k + 1 \in Nat /\ t # k + 1 /\ t \in U
        BY <3>1, <1>2
      <4>3. CASE Beats(px, t, k + 1)
        BY <4>1, <4>2, <4>3 DEF IsBest
      <4>4. CASE Beats(px, k + 1, t)
        <5>1. ASSUME NEW u \in U \ {k + 1} PROVE Beats(px, k + 1, u)
          <6>1. CASE u = t
            BY <4>4, <6>1
          <6>2. CASE u # t
            <7>1. u \in Nat /\ Beats(px, t, u)
              BY <3>1, <4>1, <5>1, <6>2 DEF IsBest
            <7>2. QED
              BY <4>2, <4>4, <7>1, BeatsTransitive
          <6>3. QED
            BY <6>1, <6>2
        <5>2. QED
          BY <3>4, <5>1 DEF IsBest
      <4>5. QED
        BY <4>2, <4>3, <4>4, BeatsTotal
    <3>5. QED
      BY <3>2, <3>3, <3>4
  <2>2. QED
    BY <2>1, <1>2
<1>3. Nat \subseteq S
  <2> HIDE DEF S
  <2> QED
    BY <1>1, <1>2, SetInduction
<1>4. QED
  BY <1>3

\* What select_pixel_threshold returns: an eligible candidate when there is one,
\* and the best of those it chose from.
LEMMA SelectedThreshold ==
    ASSUME NEW px, NEW C \in SUBSET (0 .. MaxLevel), C # {}
    PROVE  LET eligible == {t \in C : Eligible(px, t)}
               pool == IF eligible = {} THEN C ELSE eligible
           IN  /\ SelectThreshold(px, C) \in pool
               /\ IsBest(px, pool, SelectThreshold(px, C))
<1> DEFINE eligible == {t \in C : Eligible(px, t)}
           pool == IF eligible = {} THEN C ELSE eligible
<1>1. pool \in SUBSET (0 .. MaxLevel) /\ pool # {}
  OBVIOUS
<1>2. SelectThreshold(px, C) = CHOOSE t \in pool : IsBest(px, pool, t)
  BY Zenon DEF SelectThreshold, IsBest
<1> HIDE DEF pool
<1>3. \E t \in pool : IsBest(px, pool, t)
  BY <1>1, TrainingAssumption, BestExists
<1>4. SelectThreshold(px, C) \in pool /\ IsBest(px, pool, SelectThreshold(px, C))
  BY <1>2, <1>3
<1>5. QED
  BY <1>4 DEF pool

\* The coarse sweep has candidates, all of them levels.
LEMMA CoarseLevels == Coarse \in SUBSET (0 .. MaxLevel) /\ 0 \in Coarse
<1>1. CoarseStep \in Nat \ {0} /\ MaxLevel \in Nat
  BY TrainingAssumption
<1>2. 0 % CoarseStep = 0
  BY <1>1
<1>3. QED
  BY <1>1, <1>2 DEF Coarse

\* The refined candidates are levels, and the coarse optimum is one of them.
LEMMA RefinedLevels ==
    ASSUME NEW c \in 0 .. MaxLevel
    PROVE  Refined(c) \in SUBSET (0 .. MaxLevel) /\ c \in Refined(c)
<1>1. CoarseStep \in Nat \ {0} /\ MaxLevel \in Nat
  BY TrainingAssumption
<1> DEFINE lower == Max({0, c - CoarseStep})
           upper == Min({MaxLevel, c + CoarseStep})
<1>2. lower \in Nat
  <2>1. \E x \in {0, c - CoarseStep} : \A y \in {0, c - CoarseStep} : x >= y
    BY <1>1
  <2>2. lower \in {0, c - CoarseStep} /\ lower >= 0
    BY <2>1 DEF Max
  <2>3. QED
    BY <1>1, <2>2
<1>3. upper \in Nat /\ upper <= MaxLevel
  <2>1. \E x \in {MaxLevel, c + CoarseStep} : \A y \in {MaxLevel, c + CoarseStep} : x <= y
    BY <1>1
  <2>2. upper \in {MaxLevel, c + CoarseStep} /\ upper <= MaxLevel
    BY <2>1 DEF Min
  <2>3. QED
    BY <1>1, <2>2
<1>4. Refined(c) = {t \in lower .. upper : (t - lower) % RefineStep = 0} \cup {c}
  BY DEF Refined
<1> HIDE DEF lower, upper
<1>5. lower .. upper \in SUBSET (0 .. MaxLevel)
  BY <1>1, <1>2, <1>3
<1>6. QED
  BY <1>4, <1>5

\* The refined threshold against the coarse one.
LEMMA RefinementHelps ==
    ASSUME NEW px, NEW c, c = SelectThreshold(px, Coarse),
           NEW r, r = SelectThreshold(px, Refined(c))
    PROVE  /\ c \in 0 .. MaxLevel
           /\ (\E t \in Coarse : Eligible(px, t)) => Eligible(px, r)
           /\ Eligible(px, r) = Eligible(px, c) => ~Beats(px, c, r)
<1> DEFINE eligibleC == {t \in Coarse : Eligible(px, t)}
           poolC == IF eligibleC = {} THEN Coarse ELSE eligibleC
<1>1. c \in poolC
  BY CoarseLevels, SelectedThreshold
<1>2. c \in Coarse /\ c \in 0 .. MaxLevel
  BY <1>1, CoarseLevels
<1>3. (\E t \in Coarse : Eligible(px, t)) => Eligible(px, c)
  BY <1>1
<1>4. Refined(c) \in SUBSET (0 .. MaxLevel) /\ c \in Refined(c)
  BY <1>2, RefinedLevels
<1> DEFINE eligibleR == {t \in Refined(c) : Eligible(px, t)}
           poolR == IF eligibleR = {} THEN Refined(c) ELSE eligibleR
<1>5. r \in poolR /\ IsBest(px, poolR, r)
  BY <1>4, SelectedThreshold
<1>6. Eligible(px, c) => Eligible(px, r)
  BY <1>4, <1>5
<1>7. Eligible(px, r) = Eligible(px, c) => c \in poolR
  BY <1>4, <1>5
<1>8. r \in Nat /\ c \in Nat
  BY <1>2, <1>4, <1>5, TrainingAssumption
<1>9. ASSUME c \in poolR PROVE ~Beats(px, c, r)
  <2>1. CASE c = r
    BY <1>8, <2>1, BeatsAsymmetric
  <2>2. CASE c # r
    <3>1. Beats(px, r, c)
      BY <1>5, <1>9, <2>2 DEF IsBest
    <3>2. QED
      BY <1>8, <3>1, BeatsAsymmetric
  <2>3. QED
    BY <2>1, <2>2
<1>10. QED
  BY <1>2, <1>3, <1>6, <1>7, <1>9

\* The calibration has its fields, and the thresholds are the ones selected.
Steps == {"predicted", "coarse", "calibrated", "evaluated"}

CalInv ==
    /\ cal = [px |-> cal.px, step |-> cal.step, coarse |-> cal.coarse,
              threshold |-> cal.threshold, predicted |-> cal.predicted, observed |-> cal.observed]
    /\ cal.step \in Steps
    /\ cal.step # "predicted" => cal.coarse = SelectThreshold(cal.px, Coarse)
    /\ cal.step \in {"calibrated", "evaluated"} =>
         cal.threshold = SelectThreshold(cal.px, Refined(cal.coarse))

\* A calibration starts with nothing selected.
LEMMA CalInit == InitCal => CalInv
  BY DEF InitCal, CalInv, Steps

\* A step of another part.
LEMMA CalStays == CalInv /\ UNCHANGED cal => CalInv'
  BY DEF CalInv

\* Each step of the calibration selects what select_pixel_threshold returns.
LEMMA CalNextInv ==
    ASSUME CalInv, CalNext
    PROVE  CalInv'
<1>1. CASE SelectCoarse
  <2> DEFINE T == SelectThreshold(cal.px, Coarse)
  <2>1. /\ cal.step = "predicted"
        /\ cal' = [cal EXCEPT !.step = "coarse", !.coarse = T, !.threshold = T]
    BY <1>1, Zenon DEF SelectCoarse
  <2> HIDE DEF T
  <2>2. cal'.step = "coarse" /\ cal'.coarse = T /\ cal'.px = cal.px
    BY <2>1 DEF CalInv
  <2>3. cal' = [px |-> cal'.px, step |-> cal'.step, coarse |-> cal'.coarse,
                threshold |-> cal'.threshold, predicted |-> cal'.predicted,
                observed |-> cal'.observed]
    BY <2>1 DEF CalInv
  <2>4. cal'.coarse = SelectThreshold(cal'.px, Coarse)
    BY <2>2 DEF T
  <2>5. QED
    BY <2>2, <2>3, <2>4 DEF CalInv, Steps
<1>2. CASE SelectRefined
  <2> DEFINE T == SelectThreshold(cal.px, Refined(cal.coarse))
  <2>1. cal.step = "coarse" /\ cal' = [cal EXCEPT !.step = "calibrated", !.threshold = T]
    BY <1>2, Zenon DEF SelectRefined
  <2> HIDE DEF T
  <2>2. /\ cal'.step = "calibrated" /\ cal'.coarse = cal.coarse /\ cal'.px = cal.px
        /\ cal'.threshold = T
    BY <2>1 DEF CalInv
  <2>3. cal' = [px |-> cal'.px, step |-> cal'.step, coarse |-> cal'.coarse,
                threshold |-> cal'.threshold, predicted |-> cal'.predicted,
                observed |-> cal'.observed]
    BY <2>1 DEF CalInv
  <2>4. cal'.threshold = SelectThreshold(cal'.px, Refined(cal'.coarse))
    BY <2>2 DEF T
  <2>5. cal'.coarse = SelectThreshold(cal'.px, Coarse)
    BY <2>1, <2>2 DEF CalInv
  <2>6. QED
    BY <2>2, <2>3, <2>4, <2>5 DEF CalInv, Steps
<1>3. CASE Evaluate
  <2>1. PICK p, o :
          /\ cal.step = "calibrated"
          /\ cal' = [cal EXCEPT !.step = "evaluated", !.predicted = p, !.observed = o]
    BY <1>3, Zenon DEF Evaluate
  <2>2. /\ cal'.step = "evaluated" /\ cal'.coarse = cal.coarse /\ cal'.px = cal.px
        /\ cal'.threshold = cal.threshold
    BY <2>1 DEF CalInv
  <2>3. cal' = [px |-> cal'.px, step |-> cal'.step, coarse |-> cal'.coarse,
                threshold |-> cal'.threshold, predicted |-> cal'.predicted,
                observed |-> cal'.observed]
    BY <2>1 DEF CalInv
  <2>4. QED
    BY <2>1, <2>2, <2>3 DEF CalInv, Steps
<1>4. QED
  BY <1>1, <1>2, <1>3 DEF CalNext

\* The thresholds selected are as the property says.
LEMMA CalNeverWorse == CalInv => CalibrationNeverWorse
<1>1. SUFFICES ASSUME CalInv, cal.step \in {"calibrated", "evaluated"}
               PROVE  /\ (\E t \in Coarse : Eligible(cal.px, t)) => Eligible(cal.px, cal.threshold)
                      /\ Eligible(cal.px, cal.threshold) = Eligible(cal.px, cal.coarse)
                           => ~Beats(cal.px, cal.coarse, cal.threshold)
  BY DEF CalibrationNeverWorse
<1>2. /\ cal.coarse = SelectThreshold(cal.px, Coarse)
      /\ cal.threshold = SelectThreshold(cal.px, Refined(cal.coarse))
  BY <1>1 DEF CalInv
<1>3. QED
  BY <1>2, RefinementHelps

-----------------------------------------------------------------------------
(* The three together.                                                     *)

TrainingInv == FitInv /\ ClfInv /\ CalInv

\* Every step preserves the three invariants.
LEMMA TrainingNextInv ==
    ASSUME TrainingInv, [TrainingNext]_trainingVars
    PROVE  TrainingInv'
<1>1. CASE FitNext
  <2>1. UNCHANGED clf /\ UNCHANGED cal
    BY <1>1, Zenon DEF FitNext, TrainEpoch, WriteCheckpoint
  <2>2. FitInv'
    BY <1>1, TrainEpochInv, WriteCheckpointInv DEF FitNext, TrainingInv
  <2>3. QED
    BY <2>1, <2>2, ClfStays, CalStays DEF TrainingInv
<1>2. CASE ClfNext
  <2>1. UNCHANGED fit /\ UNCHANGED cal
    BY <1>2, Zenon DEF ClfNext, ClassifierEpoch, ClassifierValidate, SaveBestModel, ClassifierEnd
  <2>2. ClfInv'
    BY <1>2, ClassifierEpochInv, ClassifierValidateInv, SaveBestModelInv, ClassifierEndInv
       DEF ClfNext, TrainingInv
  <2>3. QED
    BY <2>1, <2>2, FitStays, CalStays DEF TrainingInv
<1>3. CASE CalNext
  <2>1. UNCHANGED fit /\ UNCHANGED clf
    BY <1>3, Zenon DEF CalNext, SelectCoarse, SelectRefined, Evaluate
  <2>2. QED
    BY <1>3, <2>1, FitStays, ClfStays, CalNextInv DEF TrainingInv
<1>4. CASE UNCHANGED trainingVars
  BY <1>4, FitStays, ClfStays, CalStays DEF TrainingInv, trainingVars
<1>5. QED
  BY <1>1, <1>2, <1>3, <1>4 DEF TrainingNext

\* The three invariants hold of every training and calibration, whatever the
\* epochs measure.
THEOREM TrainingInvariant == TrainingSpec => []TrainingInv
<1>1. TrainingInit => TrainingInv
  BY FitInit, ClfInit, CalInit DEF TrainingInit, TrainingInv
<1>2. TrainingInv /\ [TrainingNext]_trainingVars => TrainingInv'
  BY TrainingNextInv
<1>3. QED
  BY <1>1, <1>2, PTL DEF TrainingSpec

\* Both training loops keep the best of what they validated, for every number of
\* epochs and every patience (train of train_segmentation.py, main of train.py).
THEOREM SelectionHolds == TrainingSpec => []SelectionIsBest
<1>1. TrainingInv => SelectionIsBest
  BY FitBest, ClfFirstBest DEF TrainingInv, SelectionIsBest
<1>2. QED
  BY <1>1, TrainingInvariant, PTL

\* The refined threshold is never worse than the coarse one, for every set of
\* validation pixels, sweep and limit (select_pixel_threshold).
THEOREM CalibrationHolds == TrainingSpec => []CalibrationNeverWorse
<1>1. TrainingInv => CalibrationNeverWorse
  BY CalNeverWorse DEF TrainingInv
<1>2. QED
  BY <1>1, TrainingInvariant, PTL

-----------------------------------------------------------------------------
(* The notebooks.                                                          *)
Cells ==
    {"idle", "mount", "source", "raw", "unzip", "index", "contracts", "audit", "regression",
     "process", "extract", "extracting", "preprocess", "archive", "replace", "metadata",
     "validate", "encoder", "train", "report", "save", "savereport", "calibrate",
     "savecalib", "aggregate",
     "test", "smoke", "large", "export", "package", "upload"}
BookNames == Books \cup {"none"}
RawStates == {"none", "empty", "zip", "part", "fewer", "whole"}
Parts == {"none", "scenes", "meta", "accepted", "whole"}
RawIds == {"none", "plain", "fresh", "migrated"} \X RawStates
Contracts == [raw : RawIds, commit : Nat]
LocalData == [part : Parts, of : Contracts]
SlotFiles == [Slots -> Nat]
EvidenceFiles == [Evidence -> Nat]
DriveSlotFiles == [Slots -> Nat \cup {Torn}]
DriveEvidenceFiles == [Evidence -> Nat \cup {Torn}]
Aggregates == {<<>>, TornAggregate} \cup (DriveSlotFiles \X Slots)
Todos == SUBSET Evidence

Kernels ==
    [book : BookNames, cell : Cells, slot : Slots, commit : Nat, raw : RawIds, model : Nat,
     todo : Todos]

Disks ==
    [src : Nat, proc : LocalData, ckpt : SlotFiles, calib : SlotFiles, test : Nat, onnx : Nat,
     deliv : EvidenceFiles, zip : DriveEvidenceFiles]

Drives ==
    [raw : RawStates, audit : RawIds, archive : Contracts, meta : Contracts \cup {TornContract},
     ckpt : DriveSlotFiles, report : DriveSlotFiles, calib : DriveSlotFiles,
     aggregate : Aggregates, deliv : DriveEvidenceFiles, zip : DriveEvidenceFiles]

Worlds == [head : Nat, faults : Nat, trained : Nat, declared : BOOLEAN]

SessionTypes == kernel \in Kernels /\ disk \in Disks /\ drive \in Drives /\ world \in Worlds

\* What holds of the files wherever the notebook is.  An archive taken from Drive
\* may be a torn one.
ZipIsOneModel ==
    disk.zip # NoEvidence =>
        /\ drive.ckpt["rgb"] > 0
        /\ disk.zip = TornBundle \/ \A f \in Evidence : disk.zip[f] = drive.ckpt["rgb"]

FilesOK == EvidenceIsOneModel /\ ZipIsOneModel /\ DataIsDeclared

\* What a contract says of processed data is what the notebook declares.
DeclaredBy(contract) ==
    /\ contract.raw = kernel.raw
    /\ kernel.book \in {"plain", "shared"} => contract.commit = kernel.commit

\* The cells after a step of the pipeline.
Tested == {"smoke", "large", "export", "package", "upload"}
Calibrated == {"savecalib", "aggregate", "test"} \cup Tested
Reported == {"calibrate"} \cup Calibrated
Saved == {"savereport"} \cup Reported
Exported == {"package", "upload"}

\* What the cells made of the checkpoint belongs to it.
ModelAt(cell) ==
    /\ cell = "report" => disk.ckpt[kernel.slot] > 0
    /\ cell \in {"save"} \cup Saved => kernel.model = disk.ckpt[kernel.slot] /\ kernel.model > 0
    /\ cell \in Saved => drive.ckpt[kernel.slot] = kernel.model
    /\ cell \in Reported => drive.report[kernel.slot] = kernel.model
    /\ cell \in Calibrated => disk.calib[kernel.slot] = kernel.model
    /\ cell \in Tested => disk.test = kernel.model
    /\ cell \in Exported => disk.onnx = kernel.model
    /\ cell = "upload" =>
         /\ kernel.book # "p0p1"
         /\ \A f \in Evidence : disk.deliv[f] = kernel.model
         /\ \A f \in Evidence \ kernel.todo : drive.deliv[f] = kernel.model

\* What the cells do with the processed data keeps its contract.
DataAt(cell) ==
    /\ cell \notin {"idle", "mount", "source"} => kernel.commit > 0
    /\ cell = "extract" \/ (cell = "regression" /\ kernel.book \in {"cache", "p0p1"}) =>
         DeclaredBy(drive.archive)
    /\ cell \in {"archive", "replace", "metadata", "extracting", "validate", "encoder", "train"} =>
         DeclaredBy(disk.proc.of)
    /\ cell = "replace" => drive.archive = NoContract /\ drive.meta = NoContract
    /\ cell = "metadata" => drive.archive = disk.proc.of /\ drive.meta = NoContract

SessionInv ==
    /\ SessionTypes
    /\ FilesOK
    /\ kernel.book # "p0p1" => kernel.slot = "rgb"
    /\ world.head > 0
    /\ ModelAt(kernel.cell)
    /\ DataAt(kernel.cell)

\* What an empty disk and an empty Drive folder are made of.
LEMMA EmptyTypes ==
    /\ NoFiles \in SlotFiles /\ NoFiles \in DriveSlotFiles /\ NoEvidence \in EvidenceFiles
    /\ NoEvidence \in DriveEvidenceFiles /\ <<>> \in Aggregates /\ {} \in Todos /\ "rgb" \in Slots
    /\ NoContract \in Contracts /\ NoData \in LocalData /\ NoRaw \in RawIds
<1>1. NoFiles \in SlotFiles /\ NoFiles \in DriveSlotFiles /\ "rgb" \in Slots
  BY DEF NoFiles, SlotFiles, DriveSlotFiles, Slots
<1>2. NoEvidence \in EvidenceFiles /\ NoEvidence \in DriveEvidenceFiles
  BY DEF NoEvidence, EvidenceFiles, DriveEvidenceFiles
<1>3. <<>> \in Aggregates /\ {} \in Todos
  BY DEF Aggregates, Todos
<1>4. NoRaw \in RawIds
  BY DEF NoRaw, RawIds, RawStates
<1>5. NoContract \in Contracts
  BY <1>4 DEF NoContract, Contracts
<1>6. NoData \in LocalData
  BY <1>5 DEF NoData, LocalData, Parts
<1>7. QED
  BY <1>1, <1>2, <1>3, <1>4, <1>5, <1>6

\* No notebook is open and nothing is on Drive.
LEMMA ColabInitInv == ColabInit => SessionInv
<1>1. SUFFICES ASSUME ColabInit PROVE SessionInv
  OBVIOUS
<1>2. kernel = Idle("none") /\ disk = EmptyDisk /\ drive = EmptyDrive
      /\ world = [head |-> 1, faults |-> 0, trained |-> 0, declared |-> TRUE]
  BY <1>1 DEF ColabInit
<1>3. /\ NoFiles \in SlotFiles /\ NoFiles \in DriveSlotFiles /\ NoEvidence \in EvidenceFiles
      /\ NoEvidence \in DriveEvidenceFiles /\ <<>> \in Aggregates /\ {} \in Todos /\ "rgb" \in Slots
      /\ NoContract \in Contracts /\ NoData \in LocalData /\ NoRaw \in RawIds
  BY EmptyTypes
<1>4. kernel \in Kernels
  BY <1>2, <1>3 DEF Kernels, Idle, Cells, BookNames
<1>5. disk \in Disks
  BY <1>2, <1>3 DEF Disks, EmptyDisk
<1>6. drive \in Drives
  BY <1>2, <1>3 DEF Drives, EmptyDrive, RawStates
<1>7. world \in Worlds
  BY <1>2 DEF Worlds
<1>8. FilesOK
  BY <1>2, <1>3 DEF FilesOK, EvidenceIsOneModel, ReportsFollow, DeliverablesFollow, BundleFollows,
     AggregateFollows, ZipIsOneModel, DataIsDeclared, CacheIsSound, TrainedOnDeclaredData,
     EmptyDisk, EmptyDrive, NoFiles, NoEvidence, Slots
<1>9. ModelAt(kernel.cell) /\ DataAt(kernel.cell)
  BY <1>2 DEF ModelAt, DataAt, Idle, Saved, Reported, Calibrated, Tested, Exported
<1>10. QED
  BY <1>2, <1>4, <1>5, <1>6, <1>7, <1>8, <1>9 DEF SessionInv, SessionTypes, Idle

\* The evidence on Drive holds as long as its files are left alone.
LEMMA EvidenceStays ==
    ASSUME EvidenceIsOneModel, drive'.ckpt = drive.ckpt, drive'.report = drive.report,
           drive'.calib = drive.calib, drive'.aggregate = drive.aggregate,
           drive'.deliv = drive.deliv, drive'.zip = drive.zip
    PROVE  EvidenceIsOneModel'
<1>1. ReportsFollow'
  BY DEF EvidenceIsOneModel, ReportsFollow
<1>2. DeliverablesFollow' /\ BundleFollows'
  BY DEF EvidenceIsOneModel, DeliverablesFollow, BundleFollows
<1>3. AggregateFollows'
  BY DEF EvidenceIsOneModel, AggregateFollows
<1>4. QED
  BY <1>1, <1>2, <1>3 DEF EvidenceIsOneModel

\* The archive on the disk, likewise, or it is lost with the disk.
LEMMA ZipStays ==
    ASSUME FilesOK, disk'.zip \in {disk.zip, NoEvidence}, drive'.ckpt = drive.ckpt
    PROVE  ZipIsOneModel'
  BY DEF FilesOK, ZipIsOneModel

\* What the processed data are declared to be, likewise.
LEMMA DataStays ==
    ASSUME FilesOK, drive'.archive = drive.archive, drive'.meta = drive.meta,
           world'.declared = world.declared
    PROVE  DataIsDeclared'
  BY DEF FilesOK, DataIsDeclared, CacheIsSound, TrainedOnDeclaredData

\* So do all files, those of a machine that is lost included.
LEMMA FilesStay ==
    ASSUME FilesOK, disk'.zip \in {disk.zip, NoEvidence}, drive'.ckpt = drive.ckpt,
           drive'.report = drive.report, drive'.calib = drive.calib,
           drive'.aggregate = drive.aggregate, drive'.deliv = drive.deliv,
           drive'.zip = drive.zip, drive'.archive = drive.archive, drive'.meta = drive.meta,
           world'.declared = world.declared
    PROVE  FilesOK'
<1>1. EvidenceIsOneModel'
  BY EvidenceStays DEF FilesOK
<1>2. ZipIsOneModel' /\ DataIsDeclared'
  BY ZipStays, DataStays
<1>3. QED
  BY <1>1, <1>2 DEF FilesOK

\* Going to another cell.
LEMMA GotoKernel ==
    ASSUME kernel \in Kernels, NEW next \in Cells, Goto(next)
    PROVE  /\ kernel' \in Kernels
           /\ kernel'.cell = next /\ kernel'.book = kernel.book /\ kernel'.slot = kernel.slot
           /\ kernel'.commit = kernel.commit /\ kernel'.raw = kernel.raw
           /\ kernel'.model = kernel.model /\ kernel'.todo = kernel.todo
  BY DEF Goto, Kernels

\* A notebook that is not running.
LEMMA IdleKernel ==
    ASSUME NEW book \in BookNames
    PROVE  /\ Idle(book) \in Kernels
           /\ Idle(book).cell = "idle" /\ Idle(book).book = book /\ Idle(book).slot = "rgb"
  BY EmptyTypes DEF Idle, Kernels, Cells

\* A session that stops holds nothing of the pipeline.
LEMMA IdleInv ==
    ASSUME NEW book \in BookNames, kernel' = Idle(book), disk' \in Disks, drive' \in Drives,
           world' \in Worlds, FilesOK', world'.head > 0
    PROVE  SessionInv'
<1>1. /\ kernel' \in Kernels
      /\ kernel'.cell = "idle" /\ kernel'.slot = "rgb"
  BY IdleKernel
<1>2. ModelAt(kernel.cell)' /\ DataAt(kernel.cell)'
  BY <1>1 DEF ModelAt, DataAt, Saved, Reported, Calibrated, Tested, Exported
<1>3. QED
  BY <1>1, <1>2 DEF SessionInv, SessionTypes

\* A cell raises.
LEMMA RaiseInv ==
    ASSUME SessionInv, Raise, disk' \in Disks, drive' \in Drives, world' \in Worlds, FilesOK',
           world'.head > 0
    PROVE  SessionInv'
<1>1. kernel.book \in BookNames
  BY DEF SessionInv, SessionTypes, Kernels
<1>2. QED
  BY <1>1, IdleInv DEF Raise

\* A step to a cell.
LEMMA StepInv ==
    ASSUME SessionInv, NEW next \in Cells, Goto(next), disk' \in Disks, drive' \in Drives,
           world' \in Worlds, FilesOK', world'.head > 0, ModelAt(kernel.cell)', DataAt(kernel.cell)'
    PROVE  SessionInv'
<1>1. /\ kernel' \in Kernels /\ kernel'.book = kernel.book /\ kernel'.slot = kernel.slot
  BY GotoKernel DEF SessionInv, SessionTypes
<1>2. QED
  BY <1>1 DEF SessionInv, SessionTypes

\* A step that leaves the files alone.
LEMMA GotoInv ==
    ASSUME SessionInv, NEW next \in Cells, Goto(next), UNCHANGED <<disk, drive, world>>,
           ModelAt(next), DataAt(next)
    PROVE  SessionInv'
<1>1. /\ kernel'.cell = next /\ kernel'.book = kernel.book /\ kernel'.slot = kernel.slot
      /\ kernel'.commit = kernel.commit /\ kernel'.raw = kernel.raw
      /\ kernel'.model = kernel.model /\ kernel'.todo = kernel.todo
  BY GotoKernel DEF SessionInv, SessionTypes
<1>2. FilesOK'
  BY FilesStay DEF SessionInv
<1>3. ModelAt(kernel.cell)'
  BY <1>1 DEF ModelAt
<1>4. DataAt(kernel.cell)'
  BY <1>1 DEF DataAt, DeclaredBy
<1>5. QED
  BY <1>2, <1>3, <1>4, StepInv DEF SessionInv, SessionTypes

\* A cell raises and has written nothing.
LEMMA RaiseOnlyInv ==
    ASSUME SessionInv, Raise, UNCHANGED <<disk, drive, world>>
    PROVE  SessionInv'
<1>1. FilesOK'
  BY FilesStay DEF SessionInv
<1>2. QED
  BY <1>1, RaiseInv DEF SessionInv, SessionTypes

\* A cell that keeps nothing.
LEMMA CheckInv ==
    ASSUME SessionInv, NEW next \in Cells, Check(next), ModelAt(next), DataAt(next)
    PROVE  SessionInv'
  BY GotoInv, RaiseOnlyInv DEF Check

\* Source and raw data.
LEMMA CheckoutInv ==
    ASSUME SessionInv, NEW commits \in SUBSET (Nat \ {0}), NEW reuse \in BOOLEAN,
           NEW next \in {"raw", "contracts"}, Checkout(commits, reuse, next)
    PROVE  SessionInv'
<1>1. PICK c \in IF reuse /\ disk.src # 0 THEN {disk.src} ELSE commits :
        /\ kernel' = [kernel EXCEPT !.cell = next, !.commit = c]
        /\ disk' = [disk EXCEPT !.src = c]
        /\ world' = [world EXCEPT !.head = IF c > @ THEN c ELSE @]
        /\ drive' = drive
  BY Zenon DEF Checkout
<1>2. c \in Nat \ {0}
  <2>1. disk.src \in Nat
    BY DEF SessionInv, SessionTypes, Disks
  <2>2. QED
    BY <2>1
<1>3. /\ kernel' \in Kernels /\ kernel'.cell = next /\ kernel'.commit = c
      /\ kernel'.book = kernel.book /\ kernel'.slot = kernel.slot
  <2>1. next \in Cells
    BY DEF Cells
  <2>2. QED
    BY <1>1, <1>2, <2>1 DEF SessionInv, SessionTypes, Kernels
<1>4. disk' \in Disks /\ disk'.zip = disk.zip
  BY <1>1, <1>2 DEF SessionInv, SessionTypes, Disks
<1>5. world' \in Worlds /\ world'.head > 0 /\ world'.declared = world.declared
  BY <1>1, <1>2 DEF SessionInv, SessionTypes, Worlds
<1>6. FilesOK'
  BY <1>1, <1>4, <1>5, FilesStay DEF SessionInv
<1>7. ModelAt(kernel.cell)' /\ DataAt(kernel.cell)'
  BY <1>2, <1>3 DEF ModelAt, DataAt, Saved, Reported, Calibrated, Tested, Exported
<1>8. QED
  BY <1>1, <1>3, <1>4, <1>5, <1>6, <1>7 DEF SessionInv, SessionTypes

\* A drive whose raw directory or audit is other than before.
LEMMA RawDriveInv ==
    ASSUME SessionInv, NEW r \in RawStates, drive' = [drive EXCEPT !.raw = r],
           NEW next \in {"unzip", "contracts", "index"}, Goto(next), kernel.commit > 0,
           UNCHANGED <<disk, world>>
    PROVE  SessionInv'
<1>1. next \in Cells
  BY DEF Cells
<1>2. /\ drive' \in Drives
      /\ drive'.ckpt = drive.ckpt /\ drive'.report = drive.report /\ drive'.calib = drive.calib
      /\ drive'.deliv = drive.deliv /\ drive'.zip = drive.zip
      /\ drive'.aggregate = drive.aggregate
      /\ drive'.archive = drive.archive /\ drive'.meta = drive.meta
  BY DEF SessionInv, SessionTypes, Drives
<1>3. FilesOK'
  BY <1>2, FilesStay DEF SessionInv
<1>4. kernel'.cell = next /\ kernel'.commit = kernel.commit
  BY <1>1, GotoKernel DEF SessionInv, SessionTypes
<1>5. ModelAt(kernel.cell)' /\ DataAt(kernel.cell)'
  BY <1>4 DEF ModelAt, DataAt, Saved, Reported, Calibrated, Tested, Exported
<1>6. QED
  BY <1>1, <1>2, <1>3, <1>5, StepInv DEF SessionInv, SessionTypes

\* The download, one state of the raw directory after the other.
LEMMA DownloadInv ==
    ASSUME SessionInv, NEW next \in {"contracts", "index"}, kernel.cell \in {"raw", "unzip"},
           Download(next)
    PROVE  SessionInv'
<1>1. kernel.commit > 0
  BY DEF SessionInv, DataAt
<1> DEFINE r == CASE drive.raw = "empty" -> "zip" [] drive.raw = "zip" -> "part" [] OTHER -> "whole"
           next2 == IF drive.raw = "part" THEN next ELSE "unzip"
<1>2. r \in RawStates
  BY DEF RawStates
<1>3. next2 \in {"unzip", "contracts", "index"}
  OBVIOUS
<1>4. drive' = [drive EXCEPT !.raw = r] /\ Goto(next2) /\ UNCHANGED <<disk, world>>
  BY DEF Download
<1> HIDE DEF r, next2
<1>5. QED
  BY <1>1, <1>2, <1>3, <1>4, RawDriveInv

\* The audit is new, migrated or reused, and of the files that are there.
LEMMA AuditIds ==
    ASSUME SessionInv
    PROVE  AuditId \in RawIds
<1>1. drive.raw \in RawStates /\ drive.audit \in RawIds
  BY DEF SessionInv, SessionTypes, Drives
<1>2. QED
  BY <1>1 DEF AuditId, RawIds

\* The audit: the notebook holds its id from here on.
LEMMA AuditInv ==
    ASSUME SessionInv, kernel.cell = "audit", kernel.book \in {"plain", "shared"},
           Audit("regression")
    PROVE  SessionInv'
<1> DEFINE id == AuditId
<1>0. id \in RawIds
  BY AuditIds
<1>1. kernel.commit > 0
  BY DEF SessionInv, DataAt
<1>2. /\ kernel' = [kernel EXCEPT !.cell = "regression", !.raw = id]
      /\ drive' = [drive EXCEPT !.audit = id] /\ UNCHANGED <<disk, world>>
  BY DEF Audit
<1> HIDE DEF id
<1>3. "regression" \in Cells
  BY DEF Cells
<1>4. /\ kernel' \in Kernels /\ kernel'.cell = "regression" /\ kernel'.commit = kernel.commit
      /\ kernel'.book = kernel.book /\ kernel'.slot = kernel.slot
  BY <1>0, <1>2, <1>3 DEF SessionInv, SessionTypes, Kernels
<1>5. /\ drive' \in Drives
      /\ drive'.ckpt = drive.ckpt /\ drive'.report = drive.report /\ drive'.calib = drive.calib
      /\ drive'.deliv = drive.deliv /\ drive'.zip = drive.zip
      /\ drive'.aggregate = drive.aggregate
      /\ drive'.archive = drive.archive /\ drive'.meta = drive.meta
  BY <1>0, <1>2 DEF SessionInv, SessionTypes, Drives
<1>6. FilesOK'
  BY <1>2, <1>5, FilesStay DEF SessionInv
<1>7. ModelAt(kernel.cell)' /\ DataAt(kernel.cell)'
  BY <1>1, <1>4 DEF ModelAt, DataAt, Saved, Reported, Calibrated, Tested, Exported
<1>8. QED
  BY <1>2, <1>4, <1>5, <1>6, <1>7 DEF SessionInv, SessionTypes

\* Processed data.
LEMMA ProcessInv ==
    ASSUME SessionInv, kernel.cell = "process", Process
    PROVE  SessionInv'
<1>1. kernel.commit > 0 /\ kernel.commit \in Nat
  BY DEF SessionInv, DataAt, SessionTypes, Kernels
<1>2. UNCHANGED <<disk, drive, world>>
  BY DEF Process
<1>3. {"validate", "extract", "preprocess"} \subseteq Cells
  BY DEF Cells
<1>4. CASE LocalReady
  <2>1. Goto("validate")
    BY <1>4 DEF Process
  <2>2. disk.proc.of = [raw |-> kernel.raw, commit |-> kernel.commit]
    BY <1>4 DEF LocalReady, CacheMatches, Expected
  <2>3. DeclaredBy(disk.proc.of)
    BY <2>2 DEF DeclaredBy
  <2>4. ModelAt("validate") /\ DataAt("validate")
    BY <1>1, <2>3 DEF ModelAt, DataAt, Saved, Reported, Calibrated, Tested, Exported
  <2>5. QED
    BY <1>2, <1>3, <2>1, <2>4, GotoInv
<1>5. CASE ~LocalReady /\ DriveReady
  <2>1. Goto("extract")
    BY <1>5 DEF Process
  <2>2. drive.meta = [raw |-> kernel.raw, commit |-> kernel.commit]
    BY <1>5 DEF DriveReady, CacheMatches, Expected
  <2>3. drive.meta \notin {NoContract, TornContract}
    BY <1>1, <2>2 DEF NoContract, TornContract, Torn
  <2>4. drive.archive = drive.meta
    BY <2>3 DEF SessionInv, FilesOK, DataIsDeclared, CacheIsSound
  <2>5. DeclaredBy(drive.archive)
    BY <2>2, <2>4 DEF DeclaredBy
  <2>6. ModelAt("extract") /\ DataAt("extract")
    BY <1>1, <2>5 DEF ModelAt, DataAt, Saved, Reported,
       Calibrated, Tested, Exported
  <2>7. QED
    BY <1>2, <1>3, <2>1, <2>6, GotoInv
<1>6. CASE ~LocalReady /\ ~DriveReady
  <2>1. Goto("preprocess")
    BY <1>6 DEF Process
  <2>2. ModelAt("preprocess") /\ DataAt("preprocess")
    BY <1>1 DEF ModelAt, DataAt, Saved, Reported, Calibrated, Tested, Exported
  <2>3. QED
    BY <1>2, <1>3, <2>1, <2>2, GotoInv
<1>7. QED
  BY <1>4, <1>5, <1>6

\* The local processed data are other than before.
LEMMA LocalDataDisk ==
    ASSUME SessionInv, NEW p \in LocalData, disk' = [disk EXCEPT !.proc = p],
           UNCHANGED <<drive, world>>
    PROVE  /\ disk' \in Disks /\ disk'.proc = p /\ disk'.ckpt = disk.ckpt
           /\ disk'.calib = disk.calib
           /\ drive' \in Drives /\ world' \in Worlds /\ world'.head > 0
           /\ FilesOK'
<1>1. disk' \in Disks /\ disk'.zip = disk.zip /\ disk'.proc = p /\ disk'.ckpt = disk.ckpt
      /\ disk'.calib = disk.calib
  BY DEF SessionInv, SessionTypes, Disks
<1>2. FilesOK'
  BY <1>1, FilesStay DEF SessionInv
<1>3. QED
  BY <1>1, <1>2 DEF SessionInv, SessionTypes

\* The metadata of the archive come to the disk, or nothing does.
LEMMA ExtractInv ==
    ASSUME SessionInv, NEW onError \in {"raise", "preprocess"}, kernel.cell = "extract",
           Extract(onError)
    PROVE  SessionInv'
<1>1. kernel.commit > 0 /\ DeclaredBy(drive.archive)
  BY DEF SessionInv, DataAt
<1>2. {"extracting", "preprocess"} \subseteq Cells
  BY DEF Cells
<1>3. CASE /\ disk' = [disk EXCEPT !.proc = [part |-> "meta", of |-> drive.archive]]
           /\ Goto("extracting")
           /\ UNCHANGED <<drive, world>>
  <2> DEFINE p == [part |-> "meta", of |-> drive.archive]
  <2>1. p \in LocalData
    BY DEF SessionInv, SessionTypes, Drives, LocalData, Parts
  <2>2. p.of = drive.archive
    OBVIOUS
  <2> HIDE DEF p
  <2>3. disk' = [disk EXCEPT !.proc = p]
    BY <1>3 DEF p
  <2>4. /\ disk' \in Disks /\ disk'.proc = p /\ drive' \in Drives /\ world' \in Worlds
        /\ world'.head > 0 /\ FilesOK'
    BY <1>3, <2>1, <2>3, LocalDataDisk
  <2>5. /\ kernel'.cell = "extracting" /\ kernel'.commit = kernel.commit
        /\ kernel'.raw = kernel.raw /\ kernel'.book = kernel.book
    BY <1>2, <1>3, GotoKernel DEF SessionInv, SessionTypes
  <2>6. ModelAt(kernel.cell)'
    BY <2>5 DEF ModelAt, Saved, Reported, Calibrated, Tested, Exported
  <2>7. DataAt(kernel.cell)'
    BY <1>1, <2>2, <2>4, <2>5 DEF DataAt, DeclaredBy
  <2>8. QED
    BY <1>2, <1>3, <2>4, <2>6, <2>7, StepInv
<1>4. CASE /\ disk' = [disk EXCEPT !.proc = NoData]
           /\ IF onError = "raise" THEN Raise ELSE Goto(onError)
           /\ UNCHANGED <<drive, world>>
  <2>1. /\ disk' \in Disks /\ drive' \in Drives /\ world' \in Worlds
        /\ world'.head > 0 /\ FilesOK'
    BY <1>4, EmptyTypes, LocalDataDisk
  <2>2. CASE onError = "raise"
    BY <1>4, <2>1, <2>2, RaiseInv
  <2>3. CASE onError = "preprocess"
    <3>1. Goto("preprocess")
      BY <1>4, <2>3
    <3>2. kernel'.cell = "preprocess" /\ kernel'.commit = kernel.commit
      BY <1>2, <3>1, GotoKernel DEF SessionInv, SessionTypes
    <3>3. ModelAt(kernel.cell)' /\ DataAt(kernel.cell)'
      BY <1>1, <3>2 DEF ModelAt, DataAt, Saved, Reported, Calibrated, Tested, Exported
    <3>4. QED
      BY <1>2, <2>1, <3>1, <3>3, StepInv
  <2>4. QED
    BY <2>2, <2>3
<1>5. QED
  BY <1>3, <1>4 DEF Extract

\* The rest of the archive comes to the disk.
LEMMA ExtractingInv ==
    ASSUME SessionInv, kernel.cell = "extracting", Extracting("validate")
    PROVE  SessionInv'
<1>1. kernel.commit > 0 /\ DeclaredBy(disk.proc.of)
  BY DEF SessionInv, DataAt
<1> DEFINE p == [disk.proc EXCEPT !.part = IF disk.proc.part = "meta" THEN "accepted" ELSE "whole"]
           next == IF disk.proc.part = "meta" THEN "extracting" ELSE "validate"
<1>2. disk.proc \in LocalData
  BY DEF SessionInv, SessionTypes, Disks
<1>3. p \in LocalData /\ p.of = disk.proc.of
  BY <1>2 DEF LocalData, Parts
<1>4. next \in {"extracting", "validate"} /\ next \in Cells
  BY DEF Cells
<1>5. disk' = [disk EXCEPT !.proc = p] /\ Goto(next) /\ UNCHANGED <<drive, world>>
  BY DEF Extracting, SessionInv, SessionTypes, Disks
<1> HIDE DEF p, next
<1>6. /\ disk' \in Disks /\ disk'.proc = p /\ drive' \in Drives /\ world' \in Worlds
      /\ world'.head > 0 /\ FilesOK'
  BY <1>3, <1>5, LocalDataDisk
<1>7. /\ kernel'.cell = next /\ kernel'.commit = kernel.commit
      /\ kernel'.raw = kernel.raw /\ kernel'.book = kernel.book
  BY <1>4, <1>5, GotoKernel DEF SessionInv, SessionTypes
<1>8. ModelAt(kernel.cell)'
  BY <1>4, <1>7 DEF ModelAt, Saved, Reported, Calibrated, Tested, Exported
<1>9. DataAt(kernel.cell)'
  BY <1>1, <1>3, <1>4, <1>6, <1>7 DEF DataAt, DeclaredBy
<1>10. QED
  BY <1>4, <1>5, <1>6, <1>8, <1>9, StepInv

\* Preprocessing, whose metadata state the contract last.
LEMMA PreprocessInv ==
    ASSUME SessionInv, kernel.cell = "preprocess", Preprocess
    PROVE  SessionInv'
<1>1. kernel.commit > 0
  BY DEF SessionInv, DataAt
<1>2. "archive" \in Cells
  BY DEF Cells
<1>3. CASE /\ disk' = [disk EXCEPT !.proc = [part |-> "scenes", of |-> NoContract]]
           /\ UNCHANGED <<kernel, drive, world>>
  <2> DEFINE p == [part |-> "scenes", of |-> NoContract]
  <2>1. p \in LocalData
    BY EmptyTypes DEF LocalData, Parts
  <2> HIDE DEF p
  <2>2. disk' = [disk EXCEPT !.proc = p]
    BY <1>3 DEF p
  <2>3. disk' \in Disks /\ drive' \in Drives /\ world' \in Worlds /\ world'.head > 0 /\ FilesOK'
    BY <1>3, <2>1, <2>2, LocalDataDisk
  <2>4. ModelAt(kernel.cell)' /\ DataAt(kernel.cell)'
    BY <1>1, <1>3 DEF ModelAt, DataAt, Saved, Reported, Calibrated, Tested, Exported
  <2>5. QED
    BY <1>3, <2>3, <2>4 DEF SessionInv, SessionTypes
<1>4. CASE /\ disk' = [disk EXCEPT !.proc = [part |-> "whole", of |-> Expected]]
           /\ Goto("archive")
           /\ UNCHANGED <<drive, world>>
  <2> DEFINE p == [part |-> "whole", of |-> Expected]
  <2>1. p \in LocalData /\ p.of.raw = kernel.raw /\ p.of.commit = kernel.commit
    BY DEF SessionInv, SessionTypes, Kernels, Expected, Contracts, LocalData, Parts
  <2> HIDE DEF p
  <2>2. disk' = [disk EXCEPT !.proc = p]
    BY <1>4 DEF p
  <2>3. /\ disk' \in Disks /\ disk'.proc = p /\ drive' \in Drives /\ world' \in Worlds
        /\ world'.head > 0 /\ FilesOK'
    BY <1>4, <2>1, <2>2, LocalDataDisk
  <2>4. /\ kernel'.cell = "archive" /\ kernel'.commit = kernel.commit
        /\ kernel'.raw = kernel.raw /\ kernel'.book = kernel.book
    BY <1>2, <1>4, GotoKernel DEF SessionInv, SessionTypes
  <2>5. ModelAt(kernel.cell)'
    BY <2>4 DEF ModelAt, Saved, Reported, Calibrated, Tested, Exported
  <2>6. DataAt(kernel.cell)'
    BY <1>1, <2>1, <2>3, <2>4 DEF DataAt, DeclaredBy
  <2>7. QED
    BY <1>2, <1>4, <2>3, <2>5, <2>6, StepInv
<1>5. QED
  BY <1>3, <1>4 DEF Preprocess

\* The archive is made only where there is neither archive nor metadata.
LEMMA ArchiveInv ==
    ASSUME SessionInv, kernel.cell = "archive", Archive
    PROVE  SessionInv'
<1>1. kernel.commit > 0 /\ DeclaredBy(disk.proc.of)
  BY DEF SessionInv, DataAt
<1>2. {"replace", "validate"} \subseteq Cells
  BY DEF Cells
<1>3. UNCHANGED <<disk, drive, world>>
  BY DEF Archive
<1>4. CASE drive.archive = NoContract /\ drive.meta = NoContract
  <2>1. Goto("replace")
    BY <1>4 DEF Archive
  <2>2. ModelAt("replace") /\ DataAt("replace")
    BY <1>1, <1>4 DEF ModelAt, DataAt, Saved, Reported, Calibrated, Tested, Exported
  <2>3. QED
    BY <1>2, <1>3, <2>1, <2>2, GotoInv
<1>5. CASE ~(drive.archive = NoContract /\ drive.meta = NoContract)
  <2>1. Goto("validate") \/ Raise
    BY <1>5 DEF Archive
  <2>2. ModelAt("validate") /\ DataAt("validate")
    BY <1>1 DEF ModelAt, DataAt, Saved, Reported, Calibrated, Tested, Exported
  <2>3. QED
    BY <1>2, <1>3, <2>1, <2>2, GotoInv, RaiseOnlyInv
<1>6. QED
  BY <1>4, <1>5

\* The archive is there and its metadata are not yet.
LEMMA ReplaceInv ==
    ASSUME SessionInv, kernel.cell = "replace", Replace
    PROVE  SessionInv'
<1>1. /\ kernel.commit > 0 /\ DeclaredBy(disk.proc.of)
      /\ drive.meta = NoContract
  BY DEF SessionInv, DataAt
<1>2. "metadata" \in Cells
  BY DEF Cells
<1>3. /\ drive' = [drive EXCEPT !.archive = disk.proc.of]
      /\ Goto("metadata") /\ UNCHANGED <<disk, world>>
  BY DEF Replace
<1>4. disk.proc.of \in Contracts
  BY DEF SessionInv, SessionTypes, Disks, LocalData
<1>5. /\ drive' \in Drives /\ drive'.archive = disk.proc.of /\ drive'.meta = drive.meta
      /\ drive'.ckpt = drive.ckpt /\ drive'.report = drive.report /\ drive'.calib = drive.calib
      /\ drive'.deliv = drive.deliv /\ drive'.zip = drive.zip
      /\ drive'.aggregate = drive.aggregate
  BY <1>3, <1>4 DEF SessionInv, SessionTypes, Drives
<1>6. FilesOK'
  <2>1. EvidenceIsOneModel'
    BY <1>5, EvidenceStays DEF SessionInv, FilesOK
  <2>2. ZipIsOneModel'
    BY <1>3, <1>5 DEF SessionInv, FilesOK, ZipIsOneModel
  <2>3. DataIsDeclared'
    BY <1>1, <1>3, <1>5 DEF SessionInv, FilesOK, DataIsDeclared, CacheIsSound,
       TrainedOnDeclaredData
  <2>4. QED
    BY <2>1, <2>2, <2>3 DEF FilesOK
<1>7. /\ kernel'.cell = "metadata" /\ kernel'.commit = kernel.commit
      /\ kernel'.raw = kernel.raw /\ kernel'.book = kernel.book
  BY <1>2, <1>3, GotoKernel DEF SessionInv, SessionTypes
<1>8. ModelAt(kernel.cell)'
  BY <1>7 DEF ModelAt, Saved, Reported, Calibrated, Tested, Exported
<1>9. DataAt(kernel.cell)'
  BY <1>1, <1>3, <1>5, <1>7 DEF DataAt, DeclaredBy
<1>10. QED
  BY <1>2, <1>3, <1>5, <1>6, <1>8, <1>9, StepInv DEF SessionInv, SessionTypes

\* The metadata vouch for the archive next to them.
LEMMA SaveMetadataInv ==
    ASSUME SessionInv, kernel.cell = "metadata", SaveMetadata
    PROVE  SessionInv'
<1>1. /\ kernel.commit > 0 /\ DeclaredBy(disk.proc.of)
      /\ drive.archive = disk.proc.of
  BY DEF SessionInv, DataAt
<1>2. "validate" \in Cells
  BY DEF Cells
<1>3. /\ drive' = [drive EXCEPT !.meta = disk.proc.of]
      /\ Goto("validate") /\ UNCHANGED <<disk, world>>
  BY DEF SaveMetadata
<1>4. disk.proc.of \in Contracts
  BY DEF SessionInv, SessionTypes, Disks, LocalData
<1>5. /\ drive' \in Drives /\ drive'.meta = disk.proc.of /\ drive'.archive = drive.archive
      /\ drive'.ckpt = drive.ckpt /\ drive'.report = drive.report /\ drive'.calib = drive.calib
      /\ drive'.deliv = drive.deliv /\ drive'.zip = drive.zip
      /\ drive'.aggregate = drive.aggregate
  BY <1>3, <1>4 DEF SessionInv, SessionTypes, Drives
<1>6. FilesOK'
  <2>1. EvidenceIsOneModel'
    BY <1>5, EvidenceStays DEF SessionInv, FilesOK
  <2>2. ZipIsOneModel'
    BY <1>3, <1>5 DEF SessionInv, FilesOK, ZipIsOneModel
  <2>3. DataIsDeclared'
    BY <1>1, <1>3, <1>5 DEF SessionInv, FilesOK, DataIsDeclared, CacheIsSound,
       TrainedOnDeclaredData
  <2>4. QED
    BY <2>1, <2>2, <2>3 DEF FilesOK
<1>7. /\ kernel'.cell = "validate" /\ kernel'.commit = kernel.commit
      /\ kernel'.raw = kernel.raw /\ kernel'.book = kernel.book
  BY <1>2, <1>3, GotoKernel DEF SessionInv, SessionTypes
<1>8. ModelAt(kernel.cell)'
  BY <1>7 DEF ModelAt, Saved, Reported, Calibrated, Tested, Exported
<1>9. DataAt(kernel.cell)'
  BY <1>1, <1>3, <1>7 DEF DataAt, DeclaredBy
<1>10. QED
  BY <1>2, <1>3, <1>5, <1>6, <1>8, <1>9, StepInv DEF SessionInv, SessionTypes

\* The validation cell, by itself or by an earlier summary.
LEMMA ValidateInv ==
    ASSUME SessionInv, kernel.cell = "validate", NEW caching \in BOOLEAN, Validate(caching)
    PROVE  SessionInv'
<1>1. kernel.commit > 0 /\ DeclaredBy(disk.proc.of)
  BY DEF SessionInv, DataAt
<1>2. "encoder" \in Cells
  BY DEF Cells
<1>3. ModelAt("encoder") /\ DataAt("encoder")
  BY <1>1 DEF ModelAt, DataAt, Saved, Reported, Calibrated, Tested, Exported
<1>4. (Goto("encoder") \/ Raise) /\ UNCHANGED <<disk, drive, world>>
  BY DEF Validate
<1>5. QED
  BY <1>2, <1>3, <1>4, GotoInv, RaiseOnlyInv

\* RestoreContracts of the notebooks that take the processed data from Drive.
LEMMA RestoreContractsInv ==
    ASSUME SessionInv, kernel.cell = "contracts", kernel.book \in {"cache", "p0p1"},
           RestoreContracts
    PROVE  SessionInv'
<1>1. kernel.commit > 0
  BY DEF SessionInv, DataAt
<1>2. UNCHANGED <<disk, drive, world>>
  BY DEF RestoreContracts
<1>3. CASE drive.archive = NoContract \/ drive.meta \in {NoContract, TornContract}
  BY <1>2, <1>3, RaiseOnlyInv DEF RestoreContracts
<1>4. CASE ~(drive.archive = NoContract \/ drive.meta \in {NoContract, TornContract})
  <2>1. kernel' = [kernel EXCEPT !.cell = "regression", !.raw = drive.meta.raw]
    BY <1>4 DEF RestoreContracts
  <2>2. drive.meta.raw \in RawIds /\ "regression" \in Cells
    BY <1>4 DEF SessionInv, SessionTypes, Drives, Contracts, Cells
  <2>3. /\ kernel' \in Kernels /\ kernel'.cell = "regression" /\ kernel'.commit = kernel.commit
        /\ kernel'.raw = drive.meta.raw /\ kernel'.book = kernel.book /\ kernel'.slot = kernel.slot
    BY <2>1, <2>2 DEF SessionInv, SessionTypes, Kernels
  <2>4. drive.archive = drive.meta
    BY <1>4 DEF SessionInv, FilesOK, DataIsDeclared, CacheIsSound
  <2>5. ModelAt(kernel.cell)'
    BY <2>3 DEF ModelAt, Saved, Reported, Calibrated, Tested, Exported
  <2>6. DataAt(kernel.cell)'
    BY <1>1, <1>2, <2>3, <2>4 DEF DataAt, DeclaredBy
  <2>7. FilesOK'
    BY <1>2, FilesStay DEF SessionInv
  <2>8. QED
    BY <1>2, <2>3, <2>5, <2>6, <2>7 DEF SessionInv, SessionTypes
<1>5. QED
  BY <1>3, <1>4

\* Training.
LEMMA TrainInv ==
    ASSUME SessionInv, kernel.cell = "train", Train
    PROVE  SessionInv'
<1>1. kernel.commit > 0 /\ DeclaredBy(disk.proc.of)
  BY DEF SessionInv, DataAt
<1>2. CASE Raise /\ UNCHANGED <<disk, drive, world>>
  BY <1>2, RaiseOnlyInv
<1>3. CASE /\ DatasetOpens
           /\ world' = [world EXCEPT !.trained = @ + 1, !.declared = @ /\ Declared]
           /\ disk' = [disk EXCEPT !.ckpt[kernel.slot] = world.trained + 1]
           /\ Goto("report")
           /\ UNCHANGED drive
  <2>1. "report" \in Cells
    BY DEF Cells
  <2>2. Declared
    BY <1>1, <1>3 DEF Declared, DatasetOpens, DeclaredBy
  <2>3. world.trained \in Nat /\ world.declared = TRUE
    BY DEF SessionInv, SessionTypes, Worlds, FilesOK, DataIsDeclared, TrainedOnDeclaredData
  <2>4. world' \in Worlds /\ world'.head = world.head /\ world'.declared = TRUE
    <3> DEFINE d == world.declared /\ Declared
               t == world.trained + 1
    <3>1. d = TRUE
      BY <2>2, <2>3
    <3>2. d \in BOOLEAN
      BY <3>1
    <3>3. world' = [world EXCEPT !.trained = t, !.declared = d]
      BY <1>3
    <3>4. world \in Worlds /\ t \in Nat
      BY <2>3 DEF SessionInv, SessionTypes
    <3> HIDE DEF d, t
    <3>5. world' \in Worlds /\ world'.head = world.head /\ world'.declared = d
      <4>1. world' \in Worlds
        BY <3>2, <3>3, <3>4 DEF Worlds
      <4>2. world'.head = world.head /\ world'.declared = d
        BY <3>3, <3>4 DEF Worlds
      <4>3. QED
        BY <4>1, <4>2
    <3>6. QED
      BY <3>1, <3>5
  <2> DEFINE files == [disk.ckpt EXCEPT ![kernel.slot] = world.trained + 1]
  <2>5. files \in SlotFiles /\ files[kernel.slot] > 0
    BY <2>3 DEF SessionInv, SessionTypes, Disks, Kernels, SlotFiles
  <2>6. disk' = [disk EXCEPT !.ckpt = files]
    BY <1>3
  <2> HIDE DEF files
  <2>7. disk' \in Disks /\ disk'.ckpt = files /\ disk'.zip = disk.zip
    BY <2>5, <2>6 DEF SessionInv, SessionTypes, Disks
  <2>8. FilesOK'
    BY <1>3, <2>3, <2>4, <2>7, FilesStay DEF SessionInv
  <2>9. kernel'.cell = "report" /\ kernel'.slot = kernel.slot /\ kernel'.commit = kernel.commit
    BY <1>3, <2>1, GotoKernel DEF SessionInv, SessionTypes
  <2>10. ModelAt(kernel.cell)' /\ DataAt(kernel.cell)'
    BY <1>1, <2>5, <2>7, <2>9 DEF ModelAt, DataAt, Saved, Reported, Calibrated, Tested, Exported
  <2>11. QED
    BY <1>3, <2>1, <2>4, <2>7, <2>8, <2>10, StepInv DEF SessionInv, SessionTypes
<1>4. QED
  BY <1>2, <1>3 DEF Train

\* The checkpoint is hashed, which names the model for the cells to come.
LEMMA TrainReportInv ==
    ASSUME SessionInv, kernel.cell = "report", TrainReport
    PROVE  SessionInv'
<1>1. kernel.commit > 0 /\ disk.ckpt[kernel.slot] > 0
  BY DEF SessionInv, DataAt, ModelAt
<1> DEFINE m == disk.ckpt[kernel.slot]
<1>2. m \in Nat /\ "save" \in Cells
  BY DEF SessionInv, SessionTypes, Disks, Kernels, SlotFiles, Cells
<1>3. kernel' = [kernel EXCEPT !.cell = "save", !.model = m] /\ UNCHANGED <<disk, drive, world>>
  BY DEF TrainReport
<1> HIDE DEF m
<1>4. /\ kernel' \in Kernels /\ kernel'.cell = "save" /\ kernel'.commit = kernel.commit
      /\ kernel'.model = m /\ kernel'.book = kernel.book /\ kernel'.slot = kernel.slot
  BY <1>2, <1>3 DEF SessionInv, SessionTypes, Kernels
<1>5. FilesOK'
  BY <1>3, FilesStay DEF SessionInv
<1>6. ModelAt(kernel.cell)' /\ DataAt(kernel.cell)'
  BY <1>1, <1>3, <1>4 DEF ModelAt, DataAt, Saved, Reported, Calibrated, Tested, Exported, m
<1>7. QED
  BY <1>3, <1>4, <1>5, <1>6 DEF SessionInv, SessionTypes

\* What is written to Drive.  A checkpoint only takes the place of nothing, and
\* then there is nothing else of its name.
LEMMA CheckpointWritten ==
    ASSUME SessionTypes, FilesOK, NEW s \in Slots, NEW x \in Nat \cup {Torn}, x # 0,
           drive.ckpt[s] \in {0, x}, drive' = [drive EXCEPT !.ckpt[s] = x],
           disk'.zip \in {disk.zip, NoEvidence}, world'.declared = world.declared
    PROVE  /\ drive' \in Drives /\ FilesOK'
           /\ drive'.ckpt[s] = x
<1> DEFINE files == [drive.ckpt EXCEPT ![s] = x]
<1>1. drive.ckpt \in DriveSlotFiles /\ "rgb" \in Slots /\ Seeds \subseteq Slots
  BY DEF SessionTypes, Drives, Slots
<1>2. /\ files \in DriveSlotFiles /\ files[s] = x
      /\ \A t \in Slots : files[t] = drive.ckpt[t] \/ drive.ckpt[t] = 0
  BY <1>1 DEF DriveSlotFiles
<1>3. drive' = [drive EXCEPT !.ckpt = files]
  BY DEF SessionTypes, Drives
<1> HIDE DEF files
<1>4. /\ drive' \in Drives /\ drive'.ckpt = files
      /\ drive'.report = drive.report /\ drive'.calib = drive.calib /\ drive'.deliv = drive.deliv
      /\ drive'.zip = drive.zip /\ drive'.aggregate = drive.aggregate
      /\ drive'.archive = drive.archive /\ drive'.meta = drive.meta
  BY <1>2, <1>3 DEF SessionTypes, Drives
<1>5. ReportsFollow'
  <2>1. SUFFICES ASSUME NEW t \in Slots
                 PROVE  /\ drive.report[t] \in {0, Torn, files[t]}
                        /\ drive.report[t] # 0 => files[t] > 0
                        /\ drive.calib[t] \in {0, Torn, files[t]}
                        /\ drive.calib[t] # 0 => files[t] > 0 /\ drive.report[t] = files[t]
    BY <1>4 DEF ReportsFollow
  <2>2. CASE files[t] = drive.ckpt[t]
    BY <2>2 DEF FilesOK, EvidenceIsOneModel, ReportsFollow
  <2>3. CASE drive.ckpt[t] = 0
    BY <2>3 DEF FilesOK, EvidenceIsOneModel, ReportsFollow
  <2>4. QED
    BY <1>2, <2>2, <2>3
<1>6. DeliverablesFollow' /\ BundleFollows' /\ ZipIsOneModel'
  <2>1. CASE files["rgb"] = drive.ckpt["rgb"]
    <3>1. DeliverablesFollow'
      BY <1>4, <2>1 DEF FilesOK, EvidenceIsOneModel, DeliverablesFollow
    <3>2. BundleFollows'
      BY <1>4, <2>1 DEF FilesOK, EvidenceIsOneModel, BundleFollows
    <3>3. ZipIsOneModel'
      BY <1>4, <2>1 DEF FilesOK, ZipIsOneModel
    <3>4. QED
      BY <3>1, <3>2, <3>3
  <2>2. CASE drive.ckpt["rgb"] = 0
    <3>1. (\A f \in Evidence : drive.deliv[f] = 0) /\ drive.zip = NoEvidence /\ disk.zip = NoEvidence
      BY <2>2 DEF FilesOK, EvidenceIsOneModel, DeliverablesFollow, BundleFollows, ZipIsOneModel
    <3>2. DeliverablesFollow'
      BY <1>4, <3>1 DEF DeliverablesFollow
    <3>3. BundleFollows' /\ ZipIsOneModel'
      BY <1>4, <3>1 DEF BundleFollows, ZipIsOneModel
    <3>4. QED
      BY <3>2, <3>3
  <2>3. QED
    BY <1>1, <1>2, <2>1, <2>2
<1>7. AggregateFollows'
  <2>1. SUFFICES ASSUME drive.aggregate \notin {<<>>, TornAggregate}, NEW t \in Seeds
                 PROVE  drive.aggregate[1][t] = files[t] /\ files[t] > 0
    BY <1>4 DEF AggregateFollows
  <2>2. drive.aggregate[1][t] = drive.ckpt[t] /\ drive.ckpt[t] > 0
    BY <2>1 DEF FilesOK, EvidenceIsOneModel, AggregateFollows
  <2>3. QED
    BY <1>1, <1>2, <2>2
<1>8. DataIsDeclared'
  BY <1>4, DataStays
<1>9. QED
  BY <1>2, <1>4, <1>5, <1>6, <1>7, <1>8 DEF FilesOK, EvidenceIsOneModel

\* A report on the checkpoint that is on Drive, or a torn one where there was none
\* and so nothing that rests on it.
LEMMA ReportWritten ==
    ASSUME SessionTypes, FilesOK, NEW s \in Slots, drive.ckpt[s] > 0, NEW x \in Nat \cup {Torn},
           x = drive.ckpt[s] \/ (x = Torn /\ drive.report[s] = 0),
           drive' = [drive EXCEPT !.report[s] = x],
           disk'.zip \in {disk.zip, NoEvidence}, world'.declared = world.declared
    PROVE  /\ drive' \in Drives /\ FilesOK' /\ drive'.ckpt = drive.ckpt
           /\ drive'.report[s] = x
<1> DEFINE files == [drive.report EXCEPT ![s] = x]
<1>1. drive.report \in DriveSlotFiles /\ drive.ckpt \in DriveSlotFiles /\ "rgb" \in Slots
  BY DEF SessionTypes, Drives, Slots
<1>2. /\ files \in DriveSlotFiles /\ files[s] = x
      /\ \A t \in Slots \ {s} : files[t] = drive.report[t]
  BY <1>1 DEF DriveSlotFiles
<1>3. drive' = [drive EXCEPT !.report = files]
  BY DEF SessionTypes, Drives
<1> HIDE DEF files
<1>4. /\ drive' \in Drives /\ drive'.report = files
      /\ drive'.ckpt = drive.ckpt /\ drive'.calib = drive.calib /\ drive'.deliv = drive.deliv
      /\ drive'.zip = drive.zip /\ drive'.aggregate = drive.aggregate
      /\ drive'.archive = drive.archive /\ drive'.meta = drive.meta
  BY <1>2, <1>3 DEF SessionTypes, Drives
<1>5. ReportsFollow'
  <2>1. SUFFICES ASSUME NEW t \in Slots
                 PROVE  /\ files[t] \in {0, Torn, drive.ckpt[t]}
                        /\ files[t] # 0 => drive.ckpt[t] > 0
                        /\ drive.calib[t] \in {0, Torn, drive.ckpt[t]}
                        /\ drive.calib[t] # 0 => drive.ckpt[t] > 0 /\ files[t] = drive.ckpt[t]
    BY <1>4 DEF ReportsFollow
  <2>2. CASE t # s
    BY <1>2, <2>2 DEF FilesOK, EvidenceIsOneModel, ReportsFollow
  <2>3. CASE t = s /\ x = drive.ckpt[s]
    BY <1>2, <2>3 DEF FilesOK, EvidenceIsOneModel, ReportsFollow
  <2>4. CASE t = s /\ x = Torn /\ drive.report[s] = 0
    BY <1>2, <2>4 DEF FilesOK, EvidenceIsOneModel, ReportsFollow
  <2>5. QED
    BY <2>2, <2>3, <2>4
<1>6. DeliverablesFollow'
  <2>1. SUFFICES ASSUME NEW f \in Evidence
                 PROVE  /\ drive.deliv[f] \in {0, Torn, drive.ckpt["rgb"]}
                        /\ drive.deliv[f] # 0 =>
                             drive.ckpt["rgb"] > 0 /\ files["rgb"] = drive.ckpt["rgb"]
    BY <1>4 DEF DeliverablesFollow
  <2>2. /\ drive.deliv[f] \in {0, Torn, drive.ckpt["rgb"]}
        /\ drive.deliv[f] # 0 =>
             drive.ckpt["rgb"] > 0 /\ drive.report["rgb"] = drive.ckpt["rgb"]
    BY DEF FilesOK, EvidenceIsOneModel, DeliverablesFollow
  <2>3. QED
    BY <1>1, <1>2, <2>2
<1>7. BundleFollows' /\ AggregateFollows'
  BY <1>4 DEF FilesOK, EvidenceIsOneModel, BundleFollows, AggregateFollows
<1>8. ZipIsOneModel' /\ DataIsDeclared'
  BY <1>4, ZipStays, DataStays
<1>9. QED
  BY <1>2, <1>4, <1>5, <1>6, <1>7, <1>8 DEF FilesOK, EvidenceIsOneModel

\* A calibration of the checkpoint that is on Drive with its report, or a torn one.
LEMMA CalibrationWritten ==
    ASSUME SessionTypes, FilesOK, NEW s \in Slots, drive.ckpt[s] > 0,
           drive.report[s] = drive.ckpt[s], NEW x \in {Torn, drive.ckpt[s]},
           drive' = [drive EXCEPT !.calib[s] = x],
           disk'.zip \in {disk.zip, NoEvidence}, world'.declared = world.declared
    PROVE  /\ drive' \in Drives /\ FilesOK' /\ drive'.ckpt = drive.ckpt
           /\ drive'.report = drive.report
<1> DEFINE files == [drive.calib EXCEPT ![s] = x]
<1>1. drive.calib \in DriveSlotFiles /\ drive.ckpt \in DriveSlotFiles
  BY DEF SessionTypes, Drives
<1>2. /\ files \in DriveSlotFiles /\ files[s] = x
      /\ \A t \in Slots \ {s} : files[t] = drive.calib[t]
  BY <1>1 DEF DriveSlotFiles
<1>3. drive' = [drive EXCEPT !.calib = files]
  BY DEF SessionTypes, Drives
<1> HIDE DEF files
<1>4. /\ drive' \in Drives /\ drive'.calib = files
      /\ drive'.ckpt = drive.ckpt /\ drive'.report = drive.report /\ drive'.deliv = drive.deliv
      /\ drive'.zip = drive.zip /\ drive'.aggregate = drive.aggregate
      /\ drive'.archive = drive.archive /\ drive'.meta = drive.meta
  BY <1>2, <1>3 DEF SessionTypes, Drives
<1>5. ReportsFollow'
  <2>1. SUFFICES ASSUME NEW t \in Slots
                 PROVE  /\ drive.report[t] \in {0, Torn, drive.ckpt[t]}
                        /\ drive.report[t] # 0 => drive.ckpt[t] > 0
                        /\ files[t] \in {0, Torn, drive.ckpt[t]}
                        /\ files[t] # 0 => drive.ckpt[t] > 0 /\ drive.report[t] = drive.ckpt[t]
    BY <1>4 DEF ReportsFollow
  <2>2. CASE t # s
    BY <1>2, <2>2 DEF FilesOK, EvidenceIsOneModel, ReportsFollow
  <2>3. CASE t = s
    BY <1>2, <2>3
  <2>4. QED
    BY <2>2, <2>3
<1>6. DeliverablesFollow'
  BY <1>4 DEF FilesOK, EvidenceIsOneModel, DeliverablesFollow
<1>7. BundleFollows' /\ AggregateFollows'
  BY <1>4 DEF FilesOK, EvidenceIsOneModel, BundleFollows, AggregateFollows
<1>8. ZipIsOneModel' /\ DataIsDeclared'
  BY <1>4, ZipStays, DataStays
<1>9. QED
  BY <1>4, <1>5, <1>6, <1>7, <1>8 DEF FilesOK, EvidenceIsOneModel

\* The comparison of the calibrations that are on Drive, or a torn one.
LEMMA AggregateWritten ==
    ASSUME SessionTypes, FilesOK, NEW s \in Slots, Comparable,
           NEW x \in {TornAggregate, <<drive.calib, s>>},
           drive' = [drive EXCEPT !.aggregate = x],
           disk'.zip \in {disk.zip, NoEvidence}, world'.declared = world.declared
    PROVE  /\ drive' \in Drives /\ FilesOK' /\ drive'.ckpt = drive.ckpt
           /\ drive'.report = drive.report
<1>1. drive.calib \in DriveSlotFiles /\ Seeds \subseteq Slots
  BY DEF SessionTypes, Drives, Slots
<1>2. x \in Aggregates
  BY <1>1 DEF Aggregates
<1>3. /\ drive' \in Drives /\ drive'.aggregate = x
      /\ drive'.ckpt = drive.ckpt /\ drive'.report = drive.report /\ drive'.deliv = drive.deliv
      /\ drive'.zip = drive.zip /\ drive'.calib = drive.calib
      /\ drive'.archive = drive.archive /\ drive'.meta = drive.meta
  BY <1>2 DEF SessionTypes, Drives
<1>4. AggregateFollows'
  <2>1. SUFFICES ASSUME x # TornAggregate, NEW t \in Seeds
                 PROVE  x[1][t] = drive.ckpt[t] /\ drive.ckpt[t] > 0
    BY <1>3 DEF AggregateFollows
  <2>2. x[1] = drive.calib
    BY <2>1
  <2>3. drive.calib[t] \notin {0, Torn}
    BY DEF Comparable
  <2>4. /\ drive.calib[t] \in {0, Torn, drive.ckpt[t]}
        /\ drive.calib[t] # 0 => drive.ckpt[t] > 0
    BY <1>1 DEF FilesOK, EvidenceIsOneModel, ReportsFollow
  <2>5. QED
    BY <2>2, <2>3, <2>4
<1>5. ReportsFollow'
  BY <1>3 DEF FilesOK, EvidenceIsOneModel, ReportsFollow
<1>6. DeliverablesFollow' /\ BundleFollows'
  BY <1>3 DEF FilesOK, EvidenceIsOneModel, DeliverablesFollow, BundleFollows
<1>7. ZipIsOneModel' /\ DataIsDeclared'
  BY <1>3, ZipStays, DataStays
<1>8. QED
  BY <1>3, <1>4, <1>5, <1>6, <1>7 DEF FilesOK, EvidenceIsOneModel

\* A deliverable made from the checkpoint that is on Drive with its report, or a
\* torn one where there was none and so no bundle.
LEMMA DeliverableWritten ==
    ASSUME SessionTypes, FilesOK, NEW f \in Evidence, drive.ckpt["rgb"] > 0,
           drive.report["rgb"] = drive.ckpt["rgb"], NEW x \in Nat \cup {Torn},
           x = drive.ckpt["rgb"] \/ (x = Torn /\ drive.deliv[f] = 0),
           drive' = [drive EXCEPT !.deliv[f] = x],
           disk'.zip \in {disk.zip, NoEvidence}, world'.declared = world.declared
    PROVE  /\ drive' \in Drives /\ FilesOK' /\ drive'.ckpt = drive.ckpt
           /\ drive'.report = drive.report /\ drive'.archive = drive.archive
           /\ drive'.deliv = [drive.deliv EXCEPT ![f] = x]
<1> DEFINE files == [drive.deliv EXCEPT ![f] = x]
<1>1. drive.deliv \in DriveEvidenceFiles
  BY DEF SessionTypes, Drives
<1>2. /\ files \in DriveEvidenceFiles /\ files[f] = x
      /\ \A g \in Evidence \ {f} : files[g] = drive.deliv[g]
  BY <1>1 DEF DriveEvidenceFiles
<1>3. drive' = [drive EXCEPT !.deliv = files] /\ files = [drive.deliv EXCEPT ![f] = x]
  BY DEF SessionTypes, Drives
<1> HIDE DEF files
<1>4. /\ drive' \in Drives /\ drive'.deliv = files
      /\ drive'.ckpt = drive.ckpt /\ drive'.calib = drive.calib /\ drive'.report = drive.report
      /\ drive'.zip = drive.zip /\ drive'.aggregate = drive.aggregate
      /\ drive'.archive = drive.archive /\ drive'.meta = drive.meta
  BY <1>2, <1>3 DEF SessionTypes, Drives
<1>5. DeliverablesFollow'
  <2>1. SUFFICES ASSUME NEW g \in Evidence
                 PROVE  /\ files[g] \in {0, Torn, drive.ckpt["rgb"]}
                        /\ files[g] # 0 =>
                             drive.ckpt["rgb"] > 0 /\ drive.report["rgb"] = drive.ckpt["rgb"]
    BY <1>4 DEF DeliverablesFollow
  <2>2. drive.deliv[g] \in {0, Torn, drive.ckpt["rgb"]}
    BY DEF FilesOK, EvidenceIsOneModel, DeliverablesFollow
  <2>3. QED
    BY <1>2, <2>2
<1>6. BundleFollows'
  <2>1. CASE drive.zip = NoEvidence
    BY <1>4, <2>1 DEF BundleFollows
  <2>2. CASE drive.zip # NoEvidence
    <3>1. /\ \A g \in Evidence : drive.deliv[g] = drive.ckpt["rgb"]
          /\ drive.zip = TornBundle \/ \A g \in Evidence : drive.zip[g] = drive.ckpt["rgb"]
      BY <2>2 DEF FilesOK, EvidenceIsOneModel, BundleFollows
    <3>2. \A g \in Evidence : files[g] = drive.ckpt["rgb"]
      BY <1>2, <3>1
    <3>3. QED
      BY <1>4, <3>1, <3>2 DEF BundleFollows
  <2>3. QED
    BY <2>1, <2>2
<1>7. ReportsFollow'
  BY <1>4 DEF FilesOK, EvidenceIsOneModel, ReportsFollow
<1>8. AggregateFollows'
  BY <1>4 DEF FilesOK, EvidenceIsOneModel, AggregateFollows
<1>9. ZipIsOneModel' /\ DataIsDeclared'
  BY <1>4, ZipStays, DataStays
<1>10. QED
  BY <1>3, <1>4, <1>5, <1>6, <1>7, <1>8, <1>9 DEF FilesOK, EvidenceIsOneModel

\* An archive that may be on Drive: torn, or made from the checkpoint there.
BundleOfModel(zip) == zip = TornBundle \/ \A f \in Evidence : zip[f] = drive.ckpt["rgb"]

\* The archive, once every deliverable is on Drive.
LEMMA BundleWritten ==
    ASSUME SessionTypes, FilesOK, drive.ckpt["rgb"] > 0,
           \A f \in Evidence : drive.deliv[f] = drive.ckpt["rgb"],
           NEW x \in DriveEvidenceFiles, x = NoEvidence \/ BundleOfModel(x),
           drive' = [drive EXCEPT !.zip = x],
           disk'.zip \in {disk.zip, NoEvidence}, world'.declared = world.declared
    PROVE  drive' \in Drives /\ FilesOK'
<1>1. /\ drive' \in Drives /\ drive'.zip = x
      /\ drive'.ckpt = drive.ckpt /\ drive'.calib = drive.calib /\ drive'.report = drive.report
      /\ drive'.deliv = drive.deliv /\ drive'.aggregate = drive.aggregate
      /\ drive'.archive = drive.archive /\ drive'.meta = drive.meta
  BY DEF SessionTypes, Drives
<1>2. BundleFollows'
  <2>1. CASE x = NoEvidence
    BY <1>1, <2>1 DEF BundleFollows
  <2>2. CASE BundleOfModel(x)
    BY <1>1, <2>2 DEF BundleFollows, BundleOfModel
  <2>3. QED
    BY <2>1, <2>2
<1>3. ReportsFollow'
  BY <1>1 DEF FilesOK, EvidenceIsOneModel, ReportsFollow
<1>4. DeliverablesFollow' /\ AggregateFollows'
  BY <1>1 DEF FilesOK, EvidenceIsOneModel, DeliverablesFollow, AggregateFollows
<1>5. ZipIsOneModel' /\ DataIsDeclared'
  BY <1>1, ZipStays, DataStays
<1>6. QED
  BY <1>1, <1>2, <1>3, <1>4, <1>5 DEF FilesOK, EvidenceIsOneModel

\* The checkpoint goes to Drive unless another is there.
LEMMA SaveCheckpointInv ==
    ASSUME SessionInv, kernel.cell = "save", SaveCheckpoint
    PROVE  SessionInv'
<1> DEFINE s == kernel.slot
           m == disk.ckpt[s]
<1>1. /\ kernel.commit > 0 /\ kernel.model = m /\ m > 0
      /\ s \in Slots /\ m \in Nat /\ "savereport" \in Cells
  BY DEF SessionInv, DataAt, ModelAt, SessionTypes, Disks, Kernels, SlotFiles, Cells
<1>2. UNCHANGED <<disk, world>>
  BY DEF SaveCheckpoint
<1>3. CASE CanSave(m, drive.ckpt[s])
  <2>1. drive' = [drive EXCEPT !.ckpt[s] = m] /\ Goto("savereport")
    BY <1>3 DEF SaveCheckpoint
  <2>2. m # 0 /\ drive.ckpt[s] \in {0, m}
    BY <1>3 DEF CanSave
  <2> HIDE DEF s, m
  <2>3. drive' \in Drives /\ FilesOK' /\ drive'.ckpt[s] = m
    BY <1>1, <1>2, <2>1, <2>2, CheckpointWritten DEF SessionInv
  <2>4. /\ kernel'.cell = "savereport" /\ kernel'.slot = kernel.slot
        /\ kernel'.commit = kernel.commit /\ kernel'.model = kernel.model
    BY <1>1, <2>1, GotoKernel DEF SessionInv, SessionTypes
  <2>5. ModelAt(kernel.cell)' /\ DataAt(kernel.cell)'
    BY <1>1, <1>2, <2>3, <2>4 DEF ModelAt, DataAt, Saved, Reported, Calibrated,
       Tested, Exported, s, m
  <2>6. QED
    BY <1>1, <1>2, <2>1, <2>3, <2>5, StepInv DEF SessionInv, SessionTypes
<1>4. CASE ~CanSave(m, drive.ckpt[s])
  <2>1. UNCHANGED drive /\ Raise
    BY <1>4 DEF SaveCheckpoint
  <2>2. QED
    BY <1>2, <2>1, RaiseOnlyInv
<1>5. QED
  BY <1>3, <1>4

\* The report goes to Drive unless another is there.
LEMMA SaveReportInv ==
    ASSUME SessionInv, kernel.cell = "savereport", SaveReport
    PROVE  SessionInv'
<1> DEFINE s == kernel.slot
           m == kernel.model
<1>1. /\ kernel.commit > 0 /\ disk.ckpt[s] = m /\ m > 0 /\ drive.ckpt[s] = m
      /\ s \in Slots /\ m \in Nat /\ "calibrate" \in Cells
  BY DEF SessionInv, DataAt, ModelAt, SessionTypes, Kernels, Cells, Saved, Reported, Calibrated,
     Tested
<1>2. UNCHANGED <<disk, world>>
  BY DEF SaveReport
<1>3. CASE CanSave(m, drive.report[s])
  <2>1. drive' = [drive EXCEPT !.report[s] = m] /\ Goto("calibrate")
    BY <1>3 DEF SaveReport
  <2> HIDE DEF s, m
  <2>2. m = drive.ckpt[s] /\ drive.ckpt[s] > 0
    BY <1>1
  <2>3. drive' \in Drives /\ FilesOK' /\ drive'.ckpt = drive.ckpt /\ drive'.report[s] = m
    BY <1>1, <1>2, <2>1, <2>2, ReportWritten DEF SessionInv
  <2>4. /\ kernel'.cell = "calibrate" /\ kernel'.slot = kernel.slot
        /\ kernel'.commit = kernel.commit /\ kernel'.model = kernel.model
    BY <1>1, <2>1, GotoKernel DEF SessionInv, SessionTypes
  <2>5. ModelAt(kernel.cell)' /\ DataAt(kernel.cell)'
    BY <1>1, <1>2, <2>3, <2>4 DEF ModelAt, DataAt, Saved, Reported, Calibrated, Tested,
       Exported, s, m
  <2>6. QED
    BY <1>1, <1>2, <2>1, <2>3, <2>5, StepInv DEF SessionInv, SessionTypes
<1>4. CASE ~CanSave(m, drive.report[s])
  <2>1. UNCHANGED drive /\ Raise
    BY <1>4 DEF SaveReport
  <2>2. QED
    BY <1>2, <2>1, RaiseOnlyInv
<1>5. QED
  BY <1>3, <1>4

\* What is made from a checkpoint, or found in its stead, is the model's.
LEMMA CachedIsModel ==
    ASSUME NEW caching, NEW local, NEW remote, kernel.model = disk.ckpt[kernel.slot]
    PROVE  Cached(caching, local, remote) = kernel.model
  BY DEF Cached

\* The calibration, found or computed.
LEMMA CalibrateInv ==
    ASSUME SessionInv, kernel.cell = "calibrate", NEW caching, NEW remote,
           NEW next \in {"test", "savecalib"}, Calibrate(caching, remote, next)
    PROVE  SessionInv'
<1> DEFINE s == kernel.slot
           m == kernel.model
           files == [disk.calib EXCEPT ![s] = m]
<1>1. /\ kernel.commit > 0 /\ disk.ckpt[s] = m /\ m > 0 /\ drive.ckpt[s] = m
      /\ drive.report[s] = m
      /\ s \in Slots /\ m \in Nat /\ next \in Cells
  BY DEF SessionInv, DataAt, ModelAt, SessionTypes, Kernels, Cells, Saved, Reported,
     Calibrated, Tested
<1>2. Goto(next) /\ UNCHANGED <<drive, world>>
  BY DEF Calibrate
<1>3. disk' = [disk EXCEPT !.calib[s] = m]
  <2>1. Cached(caching, disk.calib[s], remote) = m
    BY <1>1, CachedIsModel
  <2>2. disk' = [disk EXCEPT !.calib[s] = Cached(caching, disk.calib[s], remote)]
    BY DEF Calibrate
  <2>3. QED
    BY <2>1, <2>2
<1>4. files \in SlotFiles /\ files[s] = m
  BY <1>1 DEF SessionInv, SessionTypes, Disks, SlotFiles
<1>5. disk' = [disk EXCEPT !.calib = files]
  BY <1>3
<1> HIDE DEF files
<1>6. disk' \in Disks /\ disk'.calib = files /\ disk'.ckpt = disk.ckpt /\ disk'.zip = disk.zip
  BY <1>4, <1>5 DEF SessionInv, SessionTypes, Disks
<1>7. FilesOK'
  BY <1>2, <1>6, FilesStay DEF SessionInv
<1>8. /\ kernel'.cell = next /\ kernel'.slot = kernel.slot
      /\ kernel'.commit = kernel.commit /\ kernel'.model = kernel.model
  BY <1>1, <1>2, GotoKernel DEF SessionInv, SessionTypes
<1>9. ModelAt(kernel.cell)' /\ DataAt(kernel.cell)'
  BY <1>1, <1>2, <1>4, <1>6, <1>8 DEF ModelAt, DataAt, Saved, Reported, Calibrated, Tested, Exported
<1>10. QED
  BY <1>1, <1>2, <1>6, <1>7, <1>9, StepInv DEF SessionInv, SessionTypes

\* The frozen test, found or computed.
LEMMA FrozenTestInv ==
    ASSUME SessionInv, kernel.cell = "test", NEW caching, NEW next \in {"export", "smoke"},
           FrozenTest(caching, next)
    PROVE  SessionInv'
<1> DEFINE s == kernel.slot
           m == kernel.model
<1>1. /\ kernel.commit > 0 /\ disk.ckpt[s] = m /\ m > 0 /\ drive.ckpt[s] = m
      /\ drive.report[s] = m /\ disk.calib[s] = m /\ m \in Nat /\ next \in Cells
  BY DEF SessionInv, DataAt, ModelAt, SessionTypes, Kernels, Cells, Saved, Reported, Calibrated
<1>2. Goto(next) /\ UNCHANGED <<drive, world>>
  BY DEF FrozenTest
<1>3. disk' = [disk EXCEPT !.test = m]
  <2>1. Cached(caching, disk.test, drive.deliv["test"]) = m
    BY <1>1, CachedIsModel
  <2>2. disk' = [disk EXCEPT !.test = Cached(caching, disk.test, drive.deliv["test"])]
    BY DEF FrozenTest
  <2>3. QED
    BY <2>1, <2>2
<1>4. /\ disk' \in Disks /\ disk'.test = m /\ disk'.ckpt = disk.ckpt /\ disk'.zip = disk.zip
      /\ disk'.calib = disk.calib
  BY <1>1, <1>3 DEF SessionInv, SessionTypes, Disks
<1>5. FilesOK'
  BY <1>2, <1>4, FilesStay DEF SessionInv
<1>6. /\ kernel'.cell = next /\ kernel'.slot = kernel.slot
      /\ kernel'.commit = kernel.commit /\ kernel'.model = kernel.model
  BY <1>1, <1>2, GotoKernel DEF SessionInv, SessionTypes
<1>7. ModelAt(kernel.cell)' /\ DataAt(kernel.cell)'
  BY <1>1, <1>2, <1>4, <1>6 DEF ModelAt, DataAt, Saved, Reported, Calibrated, Tested, Exported
<1>8. QED
  BY <1>1, <1>2, <1>4, <1>5, <1>7, StepInv DEF SessionInv, SessionTypes

\* The ONNX graph, found or exported.
LEMMA ExportInv ==
    ASSUME SessionInv, kernel.cell = "export", NEW caching, Export(caching)
    PROVE  SessionInv'
<1> DEFINE s == kernel.slot
           m == kernel.model
<1>1. /\ kernel.commit > 0 /\ disk.ckpt[s] = m /\ m > 0 /\ drive.ckpt[s] = m
      /\ drive.report[s] = m /\ disk.calib[s] = m /\ disk.test = m /\ m \in Nat
      /\ "package" \in Cells
  BY DEF SessionInv, DataAt, ModelAt, SessionTypes, Kernels, Cells, Saved, Reported,
     Calibrated, Tested
<1>2. (Goto("package") \/ Raise) /\ UNCHANGED <<drive, world>>
  BY DEF Export
<1>3. disk' = [disk EXCEPT !.onnx = m]
  <2>1. Cached(caching, disk.onnx, drive.deliv["onnx"]) = m
    BY <1>1, CachedIsModel
  <2>2. disk' = [disk EXCEPT !.onnx = Cached(caching, disk.onnx, drive.deliv["onnx"])]
    BY DEF Export
  <2>3. QED
    BY <2>1, <2>2
<1>4. /\ disk' \in Disks /\ disk'.onnx = m /\ disk'.ckpt = disk.ckpt /\ disk'.zip = disk.zip
      /\ disk'.calib = disk.calib /\ disk'.test = disk.test
  BY <1>1, <1>3 DEF SessionInv, SessionTypes, Disks
<1>5. FilesOK'
  BY <1>2, <1>4, FilesStay DEF SessionInv
<1>6. CASE Goto("package")
  <2>1. /\ kernel'.cell = "package" /\ kernel'.slot = kernel.slot
        /\ kernel'.commit = kernel.commit /\ kernel'.model = kernel.model
    BY <1>1, <1>6, GotoKernel DEF SessionInv, SessionTypes
  <2>2. ModelAt(kernel.cell)' /\ DataAt(kernel.cell)'
    BY <1>1, <1>2, <1>4, <2>1 DEF ModelAt, DataAt, Saved, Reported, Calibrated, Tested, Exported
  <2>3. QED
    BY <1>1, <1>2, <1>4, <1>5, <1>6, <2>2, StepInv DEF SessionInv, SessionTypes
<1>7. CASE Raise
  BY <1>2, <1>4, <1>5, <1>7, RaiseInv DEF SessionInv, SessionTypes
<1>8. QED
  BY <1>2, <1>6, <1>7

\* The bundle and its archive, or the archive of an earlier session.
LEMMA PackageInv ==
    ASSUME SessionInv, kernel.cell = "package", kernel.book # "p0p1", NEW reuse \in BOOLEAN,
           Package(reuse)
    PROVE  SessionInv'
<1> DEFINE m == kernel.model
<1>1. /\ kernel.commit > 0 /\ disk.ckpt["rgb"] = m /\ m > 0 /\ drive.ckpt["rgb"] = m
      /\ drive.report["rgb"] = m
      /\ disk.calib["rgb"] = m /\ disk.test = m /\ disk.onnx = m /\ m \in Nat
      /\ kernel.slot = "rgb"
  BY DEF SessionInv, DataAt, ModelAt, SessionTypes, Kernels, Saved, Reported,
     Calibrated, Tested, Exported
<1>2. UNCHANGED <<drive, world>>
  BY DEF Package
<1>3. Bundle \in EvidenceFiles /\ \A f \in Evidence : Bundle[f] = m
  BY <1>1 DEF Bundle, EvidenceFiles, Evidence
<1>4. CASE Raise /\ UNCHANGED disk
  BY <1>2, <1>4, RaiseOnlyInv
<1> DEFINE z == IF disk.zip # NoEvidence THEN disk.zip
                ELSE IF reuse /\ drive.zip # NoEvidence THEN drive.zip ELSE Bundle
<1>5. CASE /\ disk' = [disk EXCEPT !.deliv = Bundle, !.zip = z]
           /\ kernel' = [kernel EXCEPT !.cell = "upload", !.todo = Evidence]
  <2>1. z \in DriveEvidenceFiles
    BY <1>3 DEF SessionInv, SessionTypes, Disks, Drives, EvidenceFiles, DriveEvidenceFiles
  <2>2. z = TornBundle \/ \A f \in Evidence : z[f] = drive.ckpt["rgb"]
    <3>1. CASE disk.zip # NoEvidence
      BY <3>1 DEF SessionInv, FilesOK, ZipIsOneModel
    <3>2. CASE disk.zip = NoEvidence /\ reuse /\ drive.zip # NoEvidence
      BY <3>2 DEF SessionInv, FilesOK, EvidenceIsOneModel, BundleFollows
    <3>3. CASE disk.zip = NoEvidence /\ ~(reuse /\ drive.zip # NoEvidence)
      BY <1>1, <1>3, <3>3
    <3>4. QED
      BY <3>1, <3>2, <3>3
  <2> HIDE DEF z
  <2>3. /\ disk' \in Disks /\ disk'.deliv = Bundle /\ disk'.zip = z /\ disk'.ckpt = disk.ckpt
        /\ disk'.calib = disk.calib /\ disk'.test = disk.test /\ disk'.onnx = disk.onnx
    BY <1>3, <1>5, <2>1 DEF SessionInv, SessionTypes, Disks
  <2>4. "upload" \in Cells /\ Evidence \in Todos
    BY DEF Cells, Todos
  <2>5. /\ kernel' \in Kernels /\ kernel'.cell = "upload" /\ kernel'.slot = kernel.slot
        /\ kernel'.commit = kernel.commit /\ kernel'.model = kernel.model
        /\ kernel'.book = kernel.book /\ kernel'.todo = Evidence
    BY <1>5, <2>4 DEF SessionInv, SessionTypes, Kernels
  <2>6. ModelAt(kernel.cell)' /\ DataAt(kernel.cell)'
    BY <1>1, <1>2, <1>3, <2>3, <2>5 DEF ModelAt, DataAt, Saved, Reported,
       Calibrated, Tested, Exported
  <2>7. FilesOK'
    <3>1. EvidenceIsOneModel'
      BY <1>2, EvidenceStays DEF SessionInv, FilesOK
    <3>2. ZipIsOneModel'
      BY <1>1, <1>2, <2>2, <2>3 DEF ZipIsOneModel
    <3>3. DataIsDeclared'
      BY <1>2 DEF SessionInv, FilesOK, DataIsDeclared, CacheIsSound, TrainedOnDeclaredData
    <3>4. QED
      BY <3>1, <3>2, <3>3 DEF FilesOK
  <2>8. QED
    BY <1>1, <1>2, <2>3, <2>5, <2>6, <2>7 DEF SessionInv, SessionTypes
<1>6. QED
  BY <1>4, <1>5, Zenon DEF Package

\* A deliverable goes to Drive, or the archive does and the session ends.
LEMMA UploadInv ==
    ASSUME SessionInv, kernel.cell = "upload", Upload
    PROVE  SessionInv'
<1> DEFINE m == kernel.model
<1>1. /\ kernel.commit > 0 /\ m > 0 /\ kernel.slot = "rgb" /\ drive.ckpt["rgb"] = m
      /\ drive.report["rgb"] = m
      /\ \A f \in Evidence : disk.deliv[f] = m
      /\ \A f \in Evidence \ kernel.todo : drive.deliv[f] = m
      /\ m \in Nat /\ kernel.todo \subseteq Evidence
  BY DEF SessionInv, DataAt, ModelAt, SessionTypes, Kernels, Todos, Saved, Reported,
     Calibrated, Tested, Exported
<1>2. UNCHANGED world
  BY DEF Upload
<1>3. CASE Raise /\ UNCHANGED <<disk, drive>>
  BY <1>2, <1>3, RaiseOnlyInv
<1>4. ASSUME NEW f \in kernel.todo, UNCHANGED disk, drive.deliv[f] \in {0, disk.deliv[f]},
             drive' = [drive EXCEPT !.deliv[f] = disk.deliv[f]],
             kernel' = [kernel EXCEPT !.todo = @ \ {f}]
      PROVE  SessionInv'
  <2>1. f \in Evidence /\ disk.deliv[f] = m
    BY <1>1
  <2>2. drive' = [drive EXCEPT !.deliv[f] = m]
    BY <1>4, <2>1
  <2> HIDE DEF m
  <2>3. /\ drive' \in Drives /\ FilesOK' /\ drive'.ckpt = drive.ckpt
        /\ drive'.report = drive.report /\ drive'.archive = drive.archive
        /\ drive'.deliv = [drive.deliv EXCEPT ![f] = m]
    BY <1>1, <1>2, <1>4, <2>1, <2>2, DeliverableWritten DEF SessionInv
  <2> DEFINE rest == kernel.todo \ {f}
  <2>4. rest \in Todos
    BY <1>1 DEF Todos
  <2>5. kernel' = [kernel EXCEPT !.todo = rest]
    BY <1>4
  <2> HIDE DEF rest
  <2>6. /\ kernel' \in Kernels /\ kernel'.cell = kernel.cell /\ kernel'.slot = kernel.slot
        /\ kernel'.commit = kernel.commit /\ kernel'.model = kernel.model
        /\ kernel'.book = kernel.book /\ kernel'.raw = kernel.raw /\ kernel'.todo = rest
    BY <2>4, <2>5 DEF SessionInv, SessionTypes, Kernels
  <2>7. ModelAt(kernel.cell)'
    <3>1. \A g \in Evidence \ rest : drive'.deliv[g] = m
      BY <1>1, <2>1, <2>3 DEF rest, SessionInv, SessionTypes, Drives, DriveEvidenceFiles
    <3>2. QED
      BY <1>4, <2>3, <2>6, <3>1 DEF SessionInv, ModelAt, m
  <2>8. DataAt(kernel.cell)'
    BY <1>1, <2>6 DEF DataAt
  <2>9. QED
    BY <1>2, <1>4, <2>3, <2>6, <2>7, <2>8 DEF SessionInv, SessionTypes
<1>5. CASE /\ kernel.todo = {}
           /\ drive.zip \in {NoEvidence, disk.zip}
           /\ drive' = [drive EXCEPT !.zip = disk.zip]
           /\ disk' = [disk EXCEPT !.proc = NoData]
           /\ Raise
  <2>1. disk' \in Disks /\ disk'.zip = disk.zip
    BY <1>5, EmptyTypes DEF SessionInv, SessionTypes, Disks
  <2>2. disk.zip = NoEvidence \/ BundleOfModel(disk.zip)
    BY DEF SessionInv, FilesOK, ZipIsOneModel, BundleOfModel
  <2>3. disk.zip \in DriveEvidenceFiles /\ (\A f \in Evidence : drive.deliv[f] = drive.ckpt["rgb"])
    BY <1>1, <1>5 DEF SessionInv, SessionTypes, Disks
  <2> HIDE DEF m
  <2>4. drive' \in Drives /\ FilesOK'
    BY <1>1, <1>2, <1>5, <2>1, <2>2, <2>3, BundleWritten DEF SessionInv
  <2>5. QED
    BY <1>2, <1>5, <2>1, <2>4, RaiseInv DEF SessionInv, SessionTypes
<1>6. CASE \E f \in kernel.todo :
         /\ IF CanSave(disk.deliv[f], drive.deliv[f])
              THEN /\ drive' = [drive EXCEPT !.deliv[f] = disk.deliv[f]]
                   /\ kernel' = [kernel EXCEPT !.todo = @ \ {f}]
              ELSE UNCHANGED drive /\ Raise
         /\ UNCHANGED <<disk, world>>
  BY <1>3, <1>4, <1>6, Zenon DEF CanSave
<1>7. CASE /\ kernel.todo = {}
           /\ IF drive.zip \in {NoEvidence, disk.zip}
                THEN /\ drive' = [drive EXCEPT !.zip = disk.zip]
                     /\ disk' = [disk EXCEPT !.proc = NoData]
                ELSE UNCHANGED <<drive, disk>>
           /\ Raise
           /\ UNCHANGED world
  BY <1>3, <1>5, <1>7, Zenon
<1>8. QED
  BY <1>6, <1>7, Zenon DEF Upload

\* What happens to a session.
LEMMA EmptyDiskType == EmptyDisk \in Disks /\ EmptyDisk.zip = NoEvidence
  BY EmptyTypes DEF EmptyDisk, Disks

\* A notebook is opened on an empty machine.
LEMMA OpenInv ==
    ASSUME SessionInv, NEW book \in Books, Open(book)
    PROVE  SessionInv'
<1>1. kernel' = Idle(book) /\ disk' = EmptyDisk /\ UNCHANGED <<drive, world>>
  BY DEF Open
<1>2. book \in BookNames
  BY DEF BookNames
<1>3. FilesOK'
  BY <1>1, EmptyDiskType, FilesStay DEF SessionInv
<1>4. QED
  BY <1>1, <1>2, <1>3, EmptyDiskType, IdleInv DEF SessionInv, SessionTypes

\* A copy to Drive that is cut off, wherever it was: what is torn takes the place of
\* nothing, so that nothing rests on it.
LEMMA CutOffInv ==
    ASSUME SessionInv, CutOff, disk'.zip \in {disk.zip, NoEvidence},
           world'.declared = world.declared
    PROVE  drive' \in Drives /\ FilesOK'
<1> DEFINE s == kernel.slot
           m == kernel.model
<1>1. s \in Slots /\ Torn \in Nat \cup {Torn} /\ Torn # 0 /\ drive \in Drives
  BY DEF SessionInv, SessionTypes, Kernels, Torn
<1>2. CASE kernel.cell = "audit" /\ drive' = [drive EXCEPT !.audit = NoRaw]
  <2>1. /\ drive' \in Drives
        /\ drive'.ckpt = drive.ckpt /\ drive'.report = drive.report /\ drive'.calib = drive.calib
        /\ drive'.aggregate = drive.aggregate /\ drive'.deliv = drive.deliv
        /\ drive'.zip = drive.zip /\ drive'.archive = drive.archive /\ drive'.meta = drive.meta
    BY <1>1, <1>2, EmptyTypes DEF Drives
  <2>2. QED
    BY <2>1, FilesStay DEF SessionInv
<1>3. CASE kernel.cell = "metadata" /\ drive' = [drive EXCEPT !.meta = TornContract]
  <2>1. /\ drive' \in Drives /\ drive'.meta = TornContract
        /\ drive'.ckpt = drive.ckpt /\ drive'.report = drive.report /\ drive'.calib = drive.calib
        /\ drive'.aggregate = drive.aggregate /\ drive'.deliv = drive.deliv
        /\ drive'.zip = drive.zip /\ drive'.archive = drive.archive
    BY <1>1, <1>3 DEF Drives
  <2>2. EvidenceIsOneModel' /\ ZipIsOneModel'
    BY <2>1, EvidenceStays, ZipStays DEF SessionInv, FilesOK
  <2>3. DataIsDeclared'
    BY <2>1 DEF SessionInv, FilesOK, DataIsDeclared, CacheIsSound, TrainedOnDeclaredData
  <2>4. QED
    BY <2>1, <2>2, <2>3 DEF FilesOK
<1>4. CASE /\ kernel.cell = "save" /\ drive.ckpt[s] = 0
           /\ drive' = [drive EXCEPT !.ckpt[s] = Torn]
  <2> HIDE DEF s
  <2>1. QED
    BY <1>1, <1>4, CheckpointWritten DEF SessionInv
<1>5. CASE /\ kernel.cell = "savereport" /\ drive.report[s] = 0
           /\ drive' = [drive EXCEPT !.report[s] = Torn]
  <2>1. drive.ckpt[s] > 0
    BY <1>5 DEF SessionInv, ModelAt, Saved
  <2> HIDE DEF s
  <2>2. QED
    BY <1>1, <1>5, <2>1, ReportWritten DEF SessionInv
<1>6. CASE kernel.cell = "savecalib" /\ drive' = [drive EXCEPT !.calib[s] = Torn]
  <2>1. drive.ckpt[s] > 0 /\ drive.report[s] = drive.ckpt[s]
    BY <1>6 DEF SessionInv, ModelAt, Saved, Reported, Calibrated
  <2> HIDE DEF s
  <2>2. QED
    BY <1>1, <1>6, <2>1, CalibrationWritten DEF SessionInv
<1>7. CASE Comparable /\ drive' = [drive EXCEPT !.aggregate = TornAggregate]
  <2> HIDE DEF s
  <2>1. QED
    BY <1>1, <1>7, AggregateWritten DEF SessionInv
<1>8. CASE kernel.cell = "upload"
           /\ \E f \in kernel.todo :
                drive.deliv[f] = 0 /\ drive' = [drive EXCEPT !.deliv[f] = Torn]
  <2>1. PICK f \in kernel.todo :
          drive.deliv[f] = 0 /\ drive' = [drive EXCEPT !.deliv[f] = Torn]
    BY <1>8
  <2>2. f \in Evidence
    BY DEF SessionInv, SessionTypes, Kernels, Todos
  <2>3. drive.ckpt["rgb"] > 0 /\ drive.report["rgb"] = drive.ckpt["rgb"]
    BY <1>8 DEF SessionInv, ModelAt, Saved, Reported, Calibrated, Tested
  <2>4. QED
    BY <1>1, <2>1, <2>2, <2>3, DeliverableWritten DEF SessionInv
<1>9. CASE kernel.cell = "upload" /\ kernel.todo = {} /\ drive' = [drive EXCEPT !.zip = TornBundle]
  <2>1. drive.ckpt["rgb"] > 0 /\ \A f \in Evidence : drive.deliv[f] = drive.ckpt["rgb"]
    BY <1>9 DEF SessionInv, ModelAt, Saved, Reported, Calibrated, Tested
  <2>2. TornBundle \in DriveEvidenceFiles /\ BundleOfModel(TornBundle)
    BY <1>1 DEF TornBundle, DriveEvidenceFiles, BundleOfModel
  <2>3. QED
    BY <1>9, <2>1, <2>2, BundleWritten DEF SessionInv
<1>10. QED
  BY <1>2, <1>3, <1>4, <1>5, <1>6, <1>7, <1>8, <1>9 DEF CutOff

\* An interruption or a lost machine, between or within two steps.
LEMMA FaultInv ==
    ASSUME SessionInv, NEW losesDisk \in BOOLEAN, Fault(losesDisk)
    PROVE  SessionInv'
<1>1. world' = [world EXCEPT !.faults = @ + 1] /\ (UNCHANGED drive \/ CutOff)
  BY DEF Fault
<1>2. /\ world' \in Worlds /\ world'.head = world.head /\ world'.declared = world.declared
  BY <1>1 DEF SessionInv, SessionTypes, Worlds
<1>3. CASE losesDisk
  <2>1. kernel' = Idle("none") /\ disk' = EmptyDisk
    BY <1>3 DEF Fault
  <2>2. "none" \in BookNames
    BY DEF BookNames
  <2>3. drive' \in Drives /\ FilesOK'
    BY <1>1, <1>2, <2>1, EmptyDiskType, CutOffInv, FilesStay DEF SessionInv, SessionTypes
  <2>4. QED
    BY <1>2, <2>1, <2>2, <2>3, EmptyDiskType, IdleInv DEF SessionInv
<1>4. CASE ~losesDisk
  <2>1. kernel' = Idle(kernel.book) /\ disk' = disk
    BY <1>4 DEF Fault
  <2>2. kernel.book \in BookNames
    BY DEF SessionInv, SessionTypes, Kernels
  <2>3. drive' \in Drives /\ FilesOK'
    BY <1>1, <1>2, <2>1, CutOffInv, FilesStay DEF SessionInv, SessionTypes
  <2>4. QED
    BY <1>2, <2>1, <2>2, <2>3, IdleInv DEF SessionInv, SessionTypes
<1>5. QED
  BY <1>3, <1>4

\* The cells of one notebook only.
LEMMA PlainRawInv ==
    ASSUME SessionInv, PlainRaw
    PROVE  SessionInv'
<1>1. CASE At("plain", "raw") /\ drive.raw \in {"zip", "part"} /\ Raise
           /\ UNCHANGED <<disk, drive, world>>
  BY <1>1, RaiseOnlyInv
<1>2. CASE (At("plain", "raw") \/ At("plain", "unzip")) /\ Download("contracts")
  BY <1>2, DownloadInv DEF At
<1>3. CASE /\ At("plain", "raw")
           /\ drive' = [drive EXCEPT !.raw = IF @ = "part" THEN "fewer" ELSE @]
           /\ Goto("contracts")
           /\ UNCHANGED <<disk, world>>
  <2> DEFINE r == IF drive.raw = "part" THEN "fewer" ELSE drive.raw
  <2>1. r \in RawStates
    BY DEF SessionInv, SessionTypes, Drives, RawStates
  <2>2. drive' = [drive EXCEPT !.raw = r]
    BY <1>3
  <2>3. kernel.commit > 0
    BY <1>3 DEF SessionInv, DataAt, At
  <2> HIDE DEF r
  <2>4. QED
    BY <1>3, <2>1, <2>2, <2>3, RawDriveInv
<1>4. QED
  BY <1>1, <1>2, <1>3 DEF PlainRaw

\* The raw data of the shared-drive notebook.
LEMMA SharedRawInv ==
    ASSUME SessionInv, SharedRaw
    PROVE  SessionInv'
<1>1. CASE (At("shared", "raw") \/ At("shared", "unzip")) /\ Download("index")
  BY <1>1, DownloadInv DEF At
<1>2. CASE /\ At("shared", "raw")
           /\ IF drive.raw \in {"zip", "part"} THEN Raise ELSE Goto("index")
           /\ UNCHANGED <<disk, drive, world>>
  <2>1. kernel.commit > 0 /\ "index" \in Cells
    BY <1>2 DEF SessionInv, DataAt, At, Cells
  <2>2. ModelAt("index") /\ DataAt("index")
    BY <2>1 DEF ModelAt, DataAt, Saved, Reported, Calibrated, Tested, Exported
  <2>3. QED
    BY <1>2, <2>1, <2>2, GotoInv, RaiseOnlyInv
<1>3. QED
  BY <1>1, <1>2 DEF SharedRaw

\* The P0/P1 notebook takes a seed.
LEMMA P0P1SetupInv ==
    ASSUME SessionInv, P0P1Setup
    PROVE  SessionInv'
<1>1. PICK s \in Seeds : kernel' = [kernel EXCEPT !.cell = "mount", !.slot = s]
  BY Zenon DEF P0P1Setup
<1>2. kernel.book = "p0p1" /\ UNCHANGED <<disk, drive, world>>
  BY DEF P0P1Setup, At
<1>3. s \in Slots /\ "mount" \in Cells
  BY DEF Slots, Cells
<1>4. /\ kernel' \in Kernels /\ kernel'.cell = "mount" /\ kernel'.book = kernel.book
  BY <1>1, <1>3 DEF SessionInv, SessionTypes, Kernels
<1>5. ModelAt(kernel.cell)' /\ DataAt(kernel.cell)'
  BY <1>4 DEF ModelAt, DataAt, Saved, Reported, Calibrated, Tested, Exported
<1>6. FilesOK'
  BY <1>2, FilesStay DEF SessionInv
<1>7. QED
  BY <1>2, <1>4, <1>5, <1>6 DEF SessionInv, SessionTypes

\* The calibration of a seed goes to Drive unless another is there.
LEMMA SaveCalibrationInv ==
    ASSUME SessionInv, kernel.cell = "savecalib", SaveCalibration
    PROVE  SessionInv'
<1> DEFINE s == kernel.slot
           m == kernel.model
<1>1. /\ kernel.commit > 0 /\ disk.ckpt[s] = m /\ m > 0 /\ drive.ckpt[s] = m
      /\ drive.report[s] = m /\ disk.calib[s] = m
      /\ s \in Slots /\ "aggregate" \in Cells
  BY DEF SessionInv, DataAt, ModelAt, SessionTypes, Kernels, Cells, Saved, Reported, Calibrated,
     Tested
<1>2. UNCHANGED <<disk, world>>
  BY DEF SaveCalibration
<1>3. CASE CanSave(disk.calib[s], drive.calib[s])
  <2>1. drive' = [drive EXCEPT !.calib[s] = disk.calib[s]] /\ Goto("aggregate")
    BY <1>3 DEF SaveCalibration
  <2>2. drive' = [drive EXCEPT !.calib[s] = drive.ckpt[s]]
    BY <1>1, <2>1
  <2>3. drive.report[s] = drive.ckpt[s] /\ drive.ckpt[s] > 0
    BY <1>1
  <2> HIDE DEF s, m
  <2>4. /\ drive' \in Drives /\ FilesOK' /\ drive'.ckpt = drive.ckpt
        /\ drive'.report = drive.report
    BY <1>1, <1>2, <2>2, <2>3, CalibrationWritten DEF SessionInv
  <2>5. /\ kernel'.cell = "aggregate" /\ kernel'.slot = kernel.slot
        /\ kernel'.commit = kernel.commit /\ kernel'.model = kernel.model
    BY <1>1, <2>1, GotoKernel DEF SessionInv, SessionTypes
  <2>6. ModelAt(kernel.cell)' /\ DataAt(kernel.cell)'
    BY <1>1, <1>2, <2>4, <2>5 DEF ModelAt, DataAt, Saved, Reported, Calibrated, Tested,
       Exported, s, m
  <2>7. QED
    BY <1>1, <1>2, <2>1, <2>4, <2>6, StepInv DEF SessionInv, SessionTypes
<1>4. CASE ~CanSave(disk.calib[s], drive.calib[s])
  <2>1. UNCHANGED drive /\ Raise
    BY <1>4 DEF SaveCalibration
  <2>2. QED
    BY <1>2, <2>1, RaiseOnlyInv
<1>5. QED
  BY <1>3, <1>4

\* The comparison across seeds is made of the calibrations on Drive.
LEMMA AggregateInv ==
    ASSUME SessionInv, kernel.cell = "aggregate", Aggregate
    PROVE  SessionInv'
<1> DEFINE s == kernel.slot
           m == kernel.model
           x == <<drive.calib, s>>
<1>1. /\ kernel.commit > 0 /\ disk.ckpt[s] = m /\ m > 0 /\ drive.ckpt[s] = m
      /\ drive.report[s] = m /\ disk.calib[s] = m
      /\ s \in Slots /\ "test" \in Cells
  BY DEF SessionInv, DataAt, ModelAt, SessionTypes, Kernels, Cells, Saved, Reported, Calibrated,
     Tested
<1>2. UNCHANGED <<disk, world>>
  BY DEF Aggregate
<1>3. ModelAt("test") /\ DataAt("test")
  BY <1>1 DEF ModelAt, DataAt, Saved, Reported, Calibrated, Tested, Exported
<1>4. CASE UNCHANGED drive /\ Goto("test")
  BY <1>1, <1>2, <1>3, <1>4, GotoInv
<1>5. CASE UNCHANGED drive /\ Raise
  BY <1>2, <1>5, RaiseOnlyInv
<1>6. CASE Comparable /\ drive' = [drive EXCEPT !.aggregate = x] /\ Goto("test")
  <2>1. /\ drive' \in Drives /\ FilesOK' /\ drive'.ckpt = drive.ckpt
        /\ drive'.report = drive.report
    BY <1>1, <1>2, <1>6, AggregateWritten DEF SessionInv
  <2>2. /\ kernel'.cell = "test" /\ kernel'.slot = kernel.slot
        /\ kernel'.commit = kernel.commit /\ kernel'.model = kernel.model
    BY <1>1, <1>6, GotoKernel DEF SessionInv, SessionTypes
  <2>3. ModelAt(kernel.cell)' /\ DataAt(kernel.cell)'
    BY <1>1, <1>2, <2>1, <2>2 DEF ModelAt, DataAt, Saved, Reported, Calibrated, Tested, Exported
  <2>4. QED
    BY <1>1, <1>2, <1>6, <2>1, <2>3, StepInv DEF SessionInv, SessionTypes
<1>7. QED
  BY <1>4, <1>5, <1>6, Zenon DEF Aggregate

\* The cells that check something and keep nothing.
LEMMA CheckSetupInv ==
    ASSUME SessionInv, NEW next \in {"mount", "source"}, Check(next)
    PROVE  SessionInv'
<1>1. next \in Cells /\ ModelAt(next) /\ DataAt(next)
  BY DEF Cells, ModelAt, DataAt, Saved, Reported, Calibrated, Tested, Exported
<1>2. QED
  BY <1>1, CheckInv

\* On the way to the processed data.
LEMMA CheckRawInv ==
    ASSUME SessionInv, kernel.cell \in {"index", "contracts", "regression"},
           NEW next \in {"contracts", "audit", "process"}, Check(next)
    PROVE  SessionInv'
<1>1. kernel.commit > 0
  BY DEF SessionInv, DataAt
<1>2. next \in Cells /\ ModelAt(next) /\ DataAt(next)
  BY <1>1 DEF Cells, ModelAt, DataAt, Saved, Reported, Calibrated, Tested, Exported
<1>3. QED
  BY <1>2, CheckInv

\* On the way to the archive whose contract was restored.
LEMMA CheckRestoredInv ==
    ASSUME SessionInv, kernel.cell = "regression", kernel.book \in {"cache", "p0p1"},
           Check("extract")
    PROVE  SessionInv'
<1>1. kernel.commit > 0 /\ DeclaredBy(drive.archive)
  BY DEF SessionInv, DataAt
<1>2. "extract" \in Cells /\ ModelAt("extract") /\ DataAt("extract")
  BY <1>1 DEF Cells, ModelAt, DataAt, Saved, Reported, Calibrated, Tested, Exported
<1>3. QED
  BY <1>2, CheckInv

\* On the way to the training.
LEMMA CheckEncoderInv ==
    ASSUME SessionInv, kernel.cell = "encoder", Check("train")
    PROVE  SessionInv'
<1>1. kernel.commit > 0 /\ DeclaredBy(disk.proc.of)
  BY DEF SessionInv, DataAt
<1>2. "train" \in Cells /\ ModelAt("train") /\ DataAt("train")
  BY <1>1 DEF Cells, ModelAt, DataAt, Saved, Reported, Calibrated, Tested, Exported
<1>3. QED
  BY <1>2, CheckInv

\* Between two cells that use the checkpoint.
LEMMA CheckModelInv ==
    ASSUME SessionInv, kernel.cell \in {"smoke", "large"}, NEW next \in {"large", "export"},
           Check(next)
    PROVE  SessionInv'
<1>1. kernel.commit > 0 /\ ModelAt(kernel.cell)
  BY DEF SessionInv, DataAt
<1>2. next \in Cells /\ ModelAt(next) /\ DataAt(next)
  BY <1>1 DEF Cells, ModelAt, DataAt, Saved, Reported, Calibrated, Tested, Exported
<1>3. QED
  BY <1>2, CheckInv

\* Every commit that can be checked out has a number above 0.
LEMMA CommitsArePositive ==
    ASSUME SessionInv
    PROVE  Main \in SUBSET (Nat \ {0}) /\ {PinnedCommit} \in SUBSET (Nat \ {0})
<1>1. world.head \in Nat /\ world.head > 0 /\ MaxCommits \in Nat
  BY ColabAssumption DEF SessionInv, SessionTypes, Worlds
<1>2. Main \in SUBSET (Nat \ {0})
  BY <1>1 DEF Main
<1>3. QED
  BY <1>2 DEF PinnedCommit

\* The plain notebook.
LEMMA PlainNextInv ==
    ASSUME SessionInv, PlainNext
    PROVE  SessionInv'
<1>1. CASE PlainSetup
  BY <1>1, CheckSetupInv DEF PlainSetup
<1>2. CASE PlainMount
  BY <1>2, CheckSetupInv DEF PlainMount
<1>3. CASE PlainSource
  BY <1>3, CommitsArePositive, CheckoutInv DEF PlainSource, At
<1>4. CASE PlainRaw
  BY <1>4, PlainRawInv
<1>5. CASE PlainContracts
  BY <1>5, CheckRawInv DEF PlainContracts, At
<1>6. CASE PlainAudit
  BY <1>6, AuditInv DEF PlainAudit, At
<1>7. CASE PlainRegression
  BY <1>7, CheckRawInv DEF PlainRegression, At
<1>8. CASE PlainProcess
  BY <1>8, ProcessInv, ExtractInv, ExtractingInv DEF PlainProcess, At
<1>9. CASE PlainPreprocess
  BY <1>9, PreprocessInv DEF PlainPreprocess, At
<1>10. CASE PlainArchive
  BY <1>10, ArchiveInv, ReplaceInv, SaveMetadataInv DEF PlainArchive, At
<1>11. CASE PlainValidate
  BY <1>11, ValidateInv DEF PlainValidate, At
<1>12. CASE PlainEncoder
  BY <1>12, CheckEncoderInv DEF PlainEncoder, At
<1>13. CASE PlainTrain
  BY <1>13, TrainInv, TrainReportInv DEF PlainTrain, At
<1>14. CASE PlainSave
  BY <1>14, SaveCheckpointInv, SaveReportInv DEF PlainSave, At
<1>15. CASE PlainCalibrate
  BY <1>15, CalibrateInv DEF PlainCalibrate, At
<1>16. CASE PlainTest
  BY <1>16, FrozenTestInv DEF PlainTest, At
<1>17. CASE PlainExport
  BY <1>17, ExportInv DEF PlainExport, At
<1>18. CASE PlainPackage
  BY <1>18, PackageInv, UploadInv DEF PlainPackage, At
<1>19. QED
  BY <1>1, <1>2, <1>3, <1>4, <1>5, <1>6, <1>7, <1>8, <1>9, <1>10, <1>11, <1>12, <1>13,
     <1>14, <1>15, <1>16, <1>17, <1>18 DEF PlainNext

\* The shared-drive notebook.
LEMMA SharedNextInv ==
    ASSUME SessionInv, SharedNext
    PROVE  SessionInv'
<1>1. CASE SharedSetup
  BY <1>1, CheckSetupInv DEF SharedSetup
<1>2. CASE SharedMount
  BY <1>2, CheckSetupInv DEF SharedMount
<1>3. CASE SharedSource
  BY <1>3, CommitsArePositive, CheckoutInv DEF SharedSource, At
<1>4. CASE SharedRaw
  BY <1>4, SharedRawInv
<1>5. CASE SharedIndex
  BY <1>5, CheckRawInv DEF SharedIndex, At
<1>6. CASE SharedContracts
  BY <1>6, CheckRawInv DEF SharedContracts, At
<1>7. CASE SharedAudit
  BY <1>7, AuditInv DEF SharedAudit, At
<1>8. CASE SharedRegression
  BY <1>8, CheckRawInv DEF SharedRegression, At
<1>9. CASE SharedProcess
  BY <1>9, ProcessInv, ExtractInv, ExtractingInv DEF SharedProcess, At
<1>10. CASE SharedPreprocess
  BY <1>10, PreprocessInv DEF SharedPreprocess, At
<1>11. CASE SharedArchive
  BY <1>11, ArchiveInv, ReplaceInv, SaveMetadataInv DEF SharedArchive, At
<1>12. CASE SharedValidate
  BY <1>12, ValidateInv DEF SharedValidate, At
<1>13. CASE SharedEncoder
  BY <1>13, CheckEncoderInv DEF SharedEncoder, At
<1>14. CASE SharedTrain
  BY <1>14, TrainInv, TrainReportInv DEF SharedTrain, At
<1>15. CASE SharedSave
  BY <1>15, SaveCheckpointInv, SaveReportInv DEF SharedSave, At
<1>16. CASE SharedCalibrate
  BY <1>16, CalibrateInv DEF SharedCalibrate, At
<1>17. CASE SharedTest
  BY <1>17, FrozenTestInv DEF SharedTest, At
<1>18. CASE SharedExport
  BY <1>18, ExportInv DEF SharedExport, At
<1>19. CASE SharedPackage
  BY <1>19, PackageInv, UploadInv DEF SharedPackage, At
<1>20. QED
  BY <1>1, <1>2, <1>3, <1>4, <1>5, <1>6, <1>7, <1>8, <1>9, <1>10, <1>11, <1>12, <1>13,
     <1>14, <1>15, <1>16, <1>17, <1>18, <1>19 DEF SharedNext

\* The cache-only notebook.
LEMMA CacheNextInv ==
    ASSUME SessionInv, CacheNext
    PROVE  SessionInv'
<1>1. CASE CacheSetup
  BY <1>1, CheckSetupInv DEF CacheSetup
<1>2. CASE CacheMount
  BY <1>2, CheckSetupInv DEF CacheMount
<1>3. CASE CacheSource
  BY <1>3, CommitsArePositive, CheckoutInv DEF CacheSource, At
<1>4. CASE CacheContracts
  BY <1>4, RestoreContractsInv DEF CacheContracts, At
<1>5. CASE CacheRegression
  BY <1>5, CheckRestoredInv DEF CacheRegression, At
<1>6. CASE CacheRestore
  BY <1>6, ExtractInv, ExtractingInv DEF CacheRestore, At
<1>7. CASE CacheValidate
  BY <1>7, ValidateInv DEF CacheValidate, At
<1>8. CASE CacheEncoder
  BY <1>8, CheckEncoderInv DEF CacheEncoder, At
<1>9. CASE CacheTrain
  BY <1>9, TrainInv, TrainReportInv DEF CacheTrain, At
<1>10. CASE CacheSave
  BY <1>10, SaveCheckpointInv, SaveReportInv DEF CacheSave, At
<1>11. CASE CacheCalibrate
  BY <1>11, CalibrateInv DEF CacheCalibrate, At
<1>12. CASE CacheTest
  BY <1>12, FrozenTestInv DEF CacheTest, At
<1>13. CASE CacheSmoke
  BY <1>13, CheckModelInv DEF CacheSmoke, At
<1>14. CASE CacheLarge
  BY <1>14, CheckModelInv DEF CacheLarge, At
<1>15. CASE CacheExport
  BY <1>15, ExportInv DEF CacheExport, At
<1>16. CASE CachePackage
  BY <1>16, PackageInv, UploadInv DEF CachePackage, At
<1>17. QED
  BY <1>1, <1>2, <1>3, <1>4, <1>5, <1>6, <1>7, <1>8, <1>9, <1>10, <1>11, <1>12, <1>13,
     <1>14, <1>15, <1>16 DEF CacheNext

\* The P0/P1 notebook.
LEMMA P0P1NextInv ==
    ASSUME SessionInv, P0P1Next
    PROVE  SessionInv'
<1>1. CASE P0P1Setup
  BY <1>1, P0P1SetupInv
<1>2. CASE P0P1Mount
  BY <1>2, CheckSetupInv DEF P0P1Mount
<1>3. CASE P0P1Source
  BY <1>3, CommitsArePositive, CheckoutInv DEF P0P1Source, At
<1>4. CASE P0P1Contracts
  BY <1>4, RestoreContractsInv DEF P0P1Contracts, At
<1>5. CASE P0P1Regression
  BY <1>5, CheckRestoredInv DEF P0P1Regression, At
<1>6. CASE P0P1Restore
  BY <1>6, ExtractInv, ExtractingInv DEF P0P1Restore, At
<1>7. CASE P0P1Validate
  BY <1>7, ValidateInv DEF P0P1Validate, At
<1>8. CASE P0P1Encoder
  BY <1>8, CheckEncoderInv DEF P0P1Encoder, At
<1>9. CASE P0P1Train
  BY <1>9, TrainInv, TrainReportInv DEF P0P1Train, At
<1>10. CASE P0P1Save
  BY <1>10, SaveCheckpointInv, SaveReportInv DEF P0P1Save, At
<1>11. CASE P0P1Calibrate
  BY <1>11, CalibrateInv, SaveCalibrationInv DEF P0P1Calibrate, At
<1>12. CASE P0P1Aggregate
  BY <1>12, AggregateInv DEF P0P1Aggregate, At
<1>13. CASE P0P1Test
  BY <1>13, FrozenTestInv, RaiseOnlyInv DEF P0P1Test, At
<1>14. CASE P0P1Smoke
  BY <1>14, CheckModelInv DEF P0P1Smoke, At
<1>15. CASE P0P1Large
  BY <1>15, CheckModelInv DEF P0P1Large, At
<1>16. CASE P0P1Export
  BY <1>16, ExportInv DEF P0P1Export, At
<1>17. CASE P0P1Package
  BY <1>17, RaiseOnlyInv DEF P0P1Package
<1>18. QED
  BY <1>1, <1>2, <1>3, <1>4, <1>5, <1>6, <1>7, <1>8, <1>9, <1>10, <1>11, <1>12, <1>13,
     <1>14, <1>15, <1>16, <1>17 DEF P0P1Next

\* A step that changes nothing.
LEMMA SessionStays ==
    ASSUME SessionInv, UNCHANGED colabVars
    PROVE  SessionInv'
<1>1. UNCHANGED <<kernel, disk, drive, world>>
  BY DEF colabVars
<1>2. FilesOK'
  BY <1>1, FilesStay DEF SessionInv
<1>3. ModelAt(kernel.cell)' /\ DataAt(kernel.cell)'
  BY <1>1 DEF SessionInv, ModelAt, DataAt, DeclaredBy
<1>4. QED
  BY <1>1, <1>2, <1>3 DEF SessionInv, SessionTypes

\* Every step preserves the invariant.
LEMMA ColabNextInv ==
    ASSUME SessionInv, [ColabNext]_colabVars
    PROVE  SessionInv'
<1>1. CASE \E b \in Books : Open(b)
  BY <1>1, OpenInv
<1>2. CASE KernelRestart \/ MachineLost
  BY <1>2, FaultInv DEF KernelRestart, MachineLost
<1>3. QED
  BY <1>1, <1>2, PlainNextInv, SharedNextInv, CacheNextInv, P0P1NextInv, SessionStays
     DEF ColabNext

\* The invariant of files and cells holds of the four notebooks in any order, with
\* sessions interrupted or lost at any point.
THEOREM ColabInvariant == ColabSpec => []SessionInv
<1>1. ColabInit => SessionInv
  BY ColabInitInv
<1>2. SessionInv /\ [ColabNext]_colabVars => SessionInv'
  BY ColabNextInv
<1>3. QED
  BY <1>1, <1>2, PTL DEF ColabSpec

\* The reports, calibrations, deliverables, comparison and bundle on Drive belong
\* to the checkpoint on Drive and rest on whole files, wherever a copy of any of
\* them was cut off, for every number of seeds, trainings and faults (the cells
\* that copy to Drive).
THEOREM EvidenceOfOneModel == ColabSpec => []EvidenceIsOneModel
<1>1. SessionInv => EvidenceIsOneModel
  BY DEF SessionInv, FilesOK
<1>2. QED
  BY <1>1, ColabInvariant, PTL

\* Metadata that are not torn vouch for the archive beside them and every training
\* used data of the contract it declares, for every number of commits and faults,
\* metadata whose copy was cut off included (the processed-data
\* cells of the four notebooks).
THEOREM DeclaredData == ColabSpec => []DataIsDeclared
<1>1. SessionInv => DataIsDeclared
  BY DEF SessionInv, FilesOK
<1>2. QED
  BY <1>1, ColabInvariant, PTL
=============================================================================
