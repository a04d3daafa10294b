------------------------------ MODULE MCImagery ------------------------------
(***************************************************************************)
(* What the TLC runs of SegmentationTraining, of the notebooks that call it *)
(* and of PatchResults explore.  A behaviour is one of the SegFormer loop,  *)
(* the classifier loop, the calibration, the notebooks or the patch        *)
(* results of a capture: they share no variable.                           *)
(***************************************************************************)
EXTENDS SegmentationTraining, ColabNotebooks, PatchResults, TLC

VARIABLE subject

vars == <<subject, trainingVars, colabVars, patchVars>>

\* A false-clear rate of at most one third.
OneThird == <<1, 3>>

\* Two requests that differ only in what the header alone is checked for,
\* and one of another engine.
MCRequests == {[link |-> "engine1", source |-> "image1"],
               [link |-> "engine1", source |-> "image2"],
               [link |-> "engine2", source |-> "image1"]}

\* Overcast, half clear, and a patch inference could not judge.
MCFinding == [r \in MCRequests |-> [c \in Coordinates |->
    IF r.link = "engine2" THEN <<"clear", "invalid", "clear">>[c + 1]
    ELSE IF r.source = "image2" THEN <<"clear", "cloud", "clear">>[c + 1]
    ELSE "cloud"]]

Init ==
    /\ subject \in {"fit", "clf", "cal", "notebooks", "patches"}
    /\ IF subject = "fit" THEN InitFit ELSE fit = [phase |-> "unused", best |-> NoEpoch]
    /\ IF subject = "clf" THEN InitClf ELSE clf = [phase |-> "unused", validation |-> FALSE]
    /\ IF subject = "cal" THEN InitCal ELSE cal = [step |-> "unused"]
    /\ ColabInit
    /\ PatchInit

Next ==
    /\ UNCHANGED subject
    /\ \/ TrainingNext /\ UNCHANGED <<colabVars, patchVars>>
       \/ subject = "notebooks" /\ ColabNext /\ UNCHANGED <<trainingVars, patchVars>>
       \/ subject = "patches" /\ PatchNext /\ UNCHANGED <<trainingVars, colabVars>>

Spec == Init /\ [][Next]_vars

\* The seeds of an experiment are interchangeable.
SeedSymmetry == Permutations(Seeds)
=============================================================================
