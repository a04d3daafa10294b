---------------------------- MODULE PatchResults ----------------------------
(***************************************************************************)
(* The patch-result artifact of one capture and the decision taken from    *)
(* it: src/patch_result_writer.py, its caller InferenceAdapter.run and     *)
(* src/decision_policy.py.                                                 *)
(*                                                                         *)
(* One process at a time writes the records of a capture, one per patch in *)
(* row-major order, into a staging directory beside the target, seals the  *)
(* directory with a manifest and renames it.  A run that stops leaves its  *)
(* staging, and a later run may take it up with resume = True.  Patches    *)
(* are numbered in row-major order; the number Total is a coordinate       *)
(* outside the grid.  A line of the records file is written in pieces: the *)
(* head and the rest of the JSON text and the newline.                     *)
(***************************************************************************)
EXTENDS Integers, Sequences, FiniteSets

CONSTANTS
    Total,      \* patches of the grid
    StagingNames,      \* names a staging directory can get
    Requests,   \* what a run is asked for: [link, source]
    Finding,    \* what inference makes of each patch: request -> coordinate -> label
    Threshold,  \* cloud coverage, in percent, at which a capture is deleted
    NoDir, NoWriter, NoManifest, NoHeader, NoResult, NoExpectation,
    MaxRuns,    \* bound: constructions of a writer
    MaxStops   \* bound: crashes and failing writes

Coordinates == 0 .. Total
Labels == {"cloud", "clear", "invalid"}

VARIABLES
    staging,    \* slot -> directory
    target,     \* the published directory
    writer,     \* the PatchResultWriter of the process
    result,     \* the PatchResultArtifact finalize returned to the process
    decision,   \* the process's last DecisionRecord and the records it was made from
    runs, faults

patchVars == <<staging, target, writer, result, decision, runs, faults>>

(***************************************************************************)
(* Records and the file that holds them.  `of' is the request of the run   *)
(* that computed a record: its link (capture, profile, engine) is written  *)
(* in the record, its source (image, grid, patch size) is not.             *)
(***************************************************************************)
Records == [coord : Coordinates, of : Requests]
Label(r) == Finding[r.of][r.coord]

Parts == {"head", "rest"}
Pieces == [record : Records, part : Parts \cup {"newline"}]
Payload(r) == << [record |-> r, part |-> "head"],
                 [record |-> r, part |-> "rest"],
                 [record |-> r, part |-> "newline"] >>

Lines == [text : Seq([record : Records, part : Parts]), ended : BOOLEAN]

\* The file after one more piece: a newline ends the last line, text joins
\* the last line unless that one has ended.
Written(lines, p) ==
    LET n == Len(lines)
        fresh == n = 0 \/ lines[n].ended
        before == IF fresh THEN lines ELSE SubSeq(lines, 1, n - 1)
        text == IF fresh THEN <<>> ELSE lines[n].text
    IN Append(before, [text |-> IF p.part = "newline" THEN text ELSE Append(text, p),
                       ended |-> p.part = "newline"])

Text(r) == << [record |-> r, part |-> "head"], [record |-> r, part |-> "rest"] >>
Parses(line) == \E r \in Records : line.text = Text(r)
RecordOf(line) == line.text[1].record
RecordsOf(lines) == [k \in 1 .. Len(lines) |-> RecordOf(lines[k])]

Manifests == [of : Requests, count : Nat, lines : Seq(Lines), header : Requests,
              clean : BOOLEAN]
Directories == [header : Requests \cup {NoHeader}, opened : BOOLEAN, lines : Seq(Lines),
                manifest : Manifests \cup {NoManifest}]
Phases == {"starting", "open", "appending", "sealing", "sealed", "closing"}
Writers == [slot : StagingNames, request : Requests, phase : Phases, records : Seq(Records),
            buffer : Seq(Pieces), pending : Seq(Records), clean : BOOLEAN]

ASSUME PatchAssumption ==
    /\ Total \in Nat \ {0} /\ Threshold \in Nat /\ MaxRuns \in Nat /\ MaxStops \in Nat
    /\ Requests # {} /\ \A r \in Requests : r = [link |-> r.link, source |-> r.source]
    /\ Finding \in [Requests -> [Coordinates -> Labels]]
    /\ NoHeader \notin Requests /\ NoManifest \notin Manifests
    /\ NoDir \notin Directories /\ NoWriter \notin Writers

EmptyDir == [header |-> NoHeader, opened |-> FALSE, lines |-> <<>>, manifest |-> NoManifest]

(***************************************************************************)
(* Construction: _resolve_staging, _load_existing, _write_header.          *)
(***************************************************************************)
Candidates == {s \in StagingNames : staging[s] # NoDir}

Opened(s, r, phase, records, clean) ==
    [slot |-> s, request |-> r, phase |-> phase, records |-> records, buffer |-> <<>>,
     pending |-> <<>>, clean |-> clean]

\* Mutant of InTurn: any patch that is not there yet may come next.
InTurnAnyOrder(records, coord) == \A k \in 1 .. Len(records) : records[k].coord # coord

\* _expected_coordinate: no order is asked of a record past the grid's end.
InTurn(records, coord) ==
    /\ \A k \in 1 .. Len(records) : records[k].coord # coord
    /\ Len(records) < Total => coord = Len(records)

\* Mutant of LinkageHolds: the source fingerprint is left out of the comparison.
LinkageHoldsLink(header, r) == header.link = r.link
LinkageHolds(header, r) == header.link = r.link /\ header.source = r.source

Loads(d, r) ==
    /\ d.header # NoHeader /\ LinkageHolds(d.header, r)
    /\ \A k \in 1 .. Len(d.lines) :
          /\ Parses(d.lines[k])
          /\ RecordOf(d.lines[k]).of.link = r.link
          /\ InTurn(SubSeq(RecordsOf(d.lines), 1, k - 1), RecordOf(d.lines[k]).coord)

Ended(lines) == lines = <<>> \/ lines[Len(lines)].ended

NoDecision == [verdict |-> "RETAIN_FOR_GROUND", records |-> <<>>,
               of |-> CHOOSE r \in Requests : TRUE, expected |-> NoExpectation]

StartRun == /\ writer = NoWriter /\ runs < MaxRuns
            /\ runs' = runs + 1
            /\ result' = NoResult /\ decision' = NoDecision
            /\ UNCHANGED <<target, faults>>

NewStaging(r) ==
    \E s \in StagingNames \ Candidates :
        /\ staging' = [staging EXCEPT ![s] = EmptyDir]
        /\ writer' = Opened(s, r, "starting", <<>>, TRUE)

OpenFresh(r) == StartRun /\ target = NoDir /\ NewStaging(r)

OpenResumed(r) ==
    /\ StartRun
    /\ \/ Candidates = {} /\ NewStaging(r)
       \/ \E s \in StagingNames :
            /\ Candidates = {s}
            /\ \/ /\ ~staging[s].opened
                  /\ writer' = Opened(s, r, "starting", <<>>, TRUE)
               \/ /\ staging[s].opened /\ Loads(staging[s], r)
                  /\ writer' = Opened(s, r, "open", RecordsOf(staging[s].lines),
                                      Ended(staging[s].lines))
            /\ UNCHANGED staging

WriteHeader ==
    /\ writer # NoWriter /\ writer.phase = "starting"
    /\ staging' = [staging EXCEPT ![writer.slot] =
                        [@ EXCEPT !.header = writer.request, !.opened = TRUE]]
    /\ writer' = [writer EXCEPT !.phase = "open"]
    /\ UNCHANGED <<target, result, decision, runs, faults>>

(***************************************************************************)
(* append: the payload goes through the stream's buffer; a flush or fsync  *)
(* that fails raises with the record uncounted and the rest of the payload *)
(* still in the buffer.  A refused record changes nothing.                 *)
(***************************************************************************)
AppendRecord(coord) ==
    LET r == [coord |-> coord, of |-> writer.request] IN
    /\ writer # NoWriter /\ writer.phase = "open"
    /\ InTurn(writer.records, coord)
    /\ writer' = [writer EXCEPT !.phase = "appending", !.pending = <<r>>,
                                !.buffer = @ \o Payload(r)]
    /\ UNCHANGED <<staging, target, result, decision, runs, faults>>

\* One piece of the buffer reaches the file.
Flush ==
    /\ writer # NoWriter /\ writer.phase \in {"appending", "sealing", "closing"}
    /\ writer.buffer # <<>>
    /\ staging' = [staging EXCEPT ![writer.slot] =
                        [@ EXCEPT !.lines = Written(staging[writer.slot].lines,
                                                    Head(writer.buffer))]]
    /\ writer' = [writer EXCEPT !.buffer = Tail(@)]
    /\ UNCHANGED <<target, result, decision, runs, faults>>

AppendDone ==
    /\ writer # NoWriter /\ writer.phase = "appending" /\ writer.buffer = <<>>
    /\ writer' = [writer EXCEPT !.phase = "open", !.records = @ \o writer.pending,
                                !.pending = <<>>]
    /\ UNCHANGED <<staging, target, result, decision, runs, faults>>

AppendFails ==
    /\ writer # NoWriter /\ writer.phase = "appending"
    /\ faults < MaxStops /\ faults' = faults + 1
    /\ writer' = [writer EXCEPT !.phase = "open", !.pending = <<>>, !.clean = FALSE]
    /\ UNCHANGED <<staging, target, result, decision, runs>>

(***************************************************************************)
(* finalize and abort.  finalize refuses, and the writer stays open, while *)
(* a patch is missing or the records are not as many as the patches.       *)
(***************************************************************************)
Missing(records) == {c \in 0 .. Total - 1 : \A k \in 1 .. Len(records) : records[k].coord # c}
\* Mutant of Complete: any non-empty result will do.
CompleteEnough(records) == records # <<>>
Complete(records) == Missing(records) = {} /\ Len(records) = Total

Finalize ==
    /\ writer # NoWriter /\ writer.phase = "open" /\ Complete(writer.records)
    /\ writer' = [writer EXCEPT !.phase = "sealing"]
    /\ UNCHANGED <<staging, target, result, decision, runs, faults>>

\* The checksums are those of the files as they now stand, the parameters
\* those of this writer.
Manifest(d) == [of |-> writer.request, count |-> Len(writer.records), lines |-> d.lines,
                header |-> d.header, clean |-> writer.clean]

Seal ==
    /\ writer # NoWriter /\ writer.phase = "sealing" /\ writer.buffer = <<>>
    /\ staging' = [staging EXCEPT ![writer.slot] =
                        [@ EXCEPT !.manifest = Manifest(staging[writer.slot])]]
    /\ writer' = [writer EXCEPT !.phase = "sealed"]
    /\ UNCHANGED <<target, result, decision, runs, faults>>

Publish ==
    /\ writer # NoWriter /\ writer.phase = "sealed"
    /\ target = NoDir
    /\ target' = staging[writer.slot]
    /\ staging' = [staging EXCEPT ![writer.slot] = NoDir]
    /\ result' = [manifest |-> staging[writer.slot].manifest, records |-> writer.records]
    /\ writer' = NoWriter
    /\ UNCHANGED <<decision, runs, faults>>

\* Another run has published meanwhile: finalize gives up, the staging stays.
PublishRefused ==
    /\ writer # NoWriter /\ writer.phase = "sealed" /\ target # NoDir
    /\ writer' = NoWriter
    /\ UNCHANGED <<staging, target, result, decision, runs, faults>>

FinalizeFails ==
    /\ writer # NoWriter /\ writer.phase \in {"sealing", "sealed"}
    /\ faults < MaxStops /\ faults' = faults + 1
    /\ writer' = IF writer.phase = "sealed" THEN NoWriter
                 ELSE [writer EXCEPT !.phase = "closing"]
    /\ UNCHANGED <<staging, target, result, decision, runs>>

\* abort(remove_staging=False), also by leaving the with block.
Abort ==
    /\ writer # NoWriter /\ writer.phase = "open"
    /\ writer' = [writer EXCEPT !.phase = "closing"]
    /\ UNCHANGED <<staging, target, result, decision, runs, faults>>

\* close() flushes what the buffer still holds; an OSError is swallowed.
Closed ==
    /\ writer # NoWriter /\ writer.phase = "closing" /\ writer.buffer = <<>>
    /\ writer' = NoWriter
    /\ UNCHANGED <<staging, target, result, decision, runs, faults>>

CloseFails ==
    /\ writer # NoWriter /\ writer.phase = "closing" /\ writer.buffer # <<>>
    /\ faults < MaxStops /\ faults' = faults + 1
    /\ writer' = NoWriter
    /\ UNCHANGED <<staging, target, result, decision, runs>>

\* The process dies; what the system has been given stays in the files.
Crash ==
    /\ writer # NoWriter
    /\ faults < MaxStops /\ faults' = faults + 1
    /\ writer' = NoWriter /\ result' = NoResult
    /\ UNCHANGED <<staging, target, decision, runs>>

\* "multiple patch-result staging directories require operator selection"
OperatorSelects ==
    /\ writer = NoWriter /\ Cardinality(Candidates) > 1
    /\ \E s \in Candidates : staging' = [staging EXCEPT ![s] = NoDir]
    /\ UNCHANGED <<target, writer, result, decision, runs, faults>>

(***************************************************************************)
(* verify_patch_results and DecisionPolicy.evaluate.                       *)
(***************************************************************************)
Readable(d) ==
    /\ d # NoDir /\ d.manifest # NoManifest /\ d.header # NoHeader
    /\ d.lines = d.manifest.lines /\ d.header = d.manifest.header
    /\ LinkageHolds(d.header, d.manifest.of)
    /\ \A k \in 1 .. Len(d.lines) :
          Parses(d.lines[k]) /\ RecordOf(d.lines[k]).coord = k - 1
    /\ Len(d.lines) = d.manifest.count /\ Len(d.lines) = Total

Cloudy(records) == Cardinality({k \in 1 .. Len(records) : Label(records[k]) = "cloud"})

Verdict(records, source, expected) ==
    IF \/ expected # NoExpectation /\ source # expected
       \/ records = <<>>
       \/ \E k \in 1 .. Len(records) : Label(records[k]) = "invalid"
    THEN "RETAIN_FOR_GROUND"
    ELSE IF Cloudy(records) * 100 >= Threshold * Len(records)
         THEN "DELETE_CAPTURE" ELSE "KEEP_FOR_DOWNLINK"

Expectations == {r.source : r \in Requests} \cup {NoExpectation}

\* The caller hands over the artifact finalize returned ...
EvaluateResult(expected) ==
    /\ result # NoResult
    /\ decision' = [verdict |-> Verdict(result.records, result.manifest.of.source, expected),
                    records |-> result.records, of |-> result.manifest.of,
                    expected |-> expected]
    /\ UNCHANGED <<staging, target, writer, result, runs, faults>>

\* ... or the path, which is verified first.
EvaluatePath(expected) ==
    /\ writer = NoWriter /\ target # NoDir
    /\ LET records == RecordsOf(target.lines) IN
       decision' = IF Readable(target)
                   THEN [verdict |-> Verdict(records, target.manifest.of.source, expected),
                         records |-> records, of |-> target.manifest.of,
                         expected |-> expected]
                   ELSE [verdict |-> "RETAIN_FOR_GROUND", records |-> <<>>,
                         of |-> target.manifest.of, expected |-> expected]
    /\ UNCHANGED <<staging, target, writer, result, runs, faults>>

PatchInit ==
    /\ staging = [s \in StagingNames |-> NoDir] /\ target = NoDir
    /\ writer = NoWriter /\ result = NoResult /\ decision = NoDecision
    /\ runs = 0 /\ faults = 0

PatchNext ==
    \/ \E r \in Requests : OpenFresh(r) \/ OpenResumed(r)
    \/ WriteHeader
    \/ \E c \in Coordinates : AppendRecord(c)
    \/ Flush \/ AppendDone \/ AppendFails
    \/ Finalize \/ Seal \/ Publish \/ PublishRefused \/ FinalizeFails
    \/ Abort \/ Closed \/ CloseFails \/ Crash \/ OperatorSelects
    \/ \E x \in Expectations : EvaluateResult(x) \/ EvaluatePath(x)

PatchSpec == PatchInit /\ [][PatchNext]_patchVars

-----------------------------------------------------------------------------
(***************************************************************************)
(* Properties.                                                             *)
(***************************************************************************)
Results == [manifest : Manifests, records : Seq(Records)]
Decisions == [verdict : {"RETAIN_FOR_GROUND", "DELETE_CAPTURE", "KEEP_FOR_DOWNLINK"},
              records : Seq(Records), of : Requests, expected : Expectations]

\* Every variable has its type; the directory of a writer is there.
TypeOK ==
    /\ staging \in [StagingNames -> Directories \cup {NoDir}]
    /\ target \in Directories \cup {NoDir}
    /\ writer \in Writers \cup {NoWriter}
    /\ writer # NoWriter => staging[writer.slot] # NoDir
    /\ result \in Results \cup {NoResult}
    /\ decision \in Decisions
    /\ runs \in 0 .. MaxRuns /\ faults \in 0 .. MaxStops

\* Every patch once, in order, computed by runs asked for the same capture,
\* image, profile and engine.
WholeCapture(records, r) ==
    /\ Len(records) = Total
    /\ \A k \in 1 .. Total : records[k].coord = k - 1 /\ records[k].of = r

\* An artifact that open_patch_results accepts holds every patch once, all
\* of them from the capture, image and engine its manifest names, whichever
\* runs wrote it, stopped or resumed (_validate_header, _validate_record).
ReadableIsWhole == Readable(target) => WholeCapture(RecordsOf(target.lines), target.manifest.of)

\* A run that met no failing write, and took up no file whose last line
\* lacked its newline, publishes what open_patch_results accepts.
CleanRunsAreReadable == target # NoDir /\ target.manifest.clean => Readable(target)

\* A capture is deleted on the strength of every one of its patches, none
\* invalid and none of another image, whether the policy is given the
\* artifact finalize returned or the path (evaluate, finalize).
DeletionIsJustified ==
    decision.verdict # "RETAIN_FOR_GROUND" =>
        /\ WholeCapture(decision.records, decision.of)
        /\ \A k \in 1 .. Total : Label(decision.records[k]) # "invalid"
        /\ decision.expected \in {NoExpectation, decision.of.source}
        /\ decision.verdict = "DELETE_CAPTURE" =>
              Cloudy(decision.records) * 100 >= Threshold * Total

\* What is published is never replaced, though a run may resume, append and
\* finalize beside a published target (finalize, _resolve_staging).
PublishedStays == [][target # NoDir => target' = target]_patchVars

=============================================================================
