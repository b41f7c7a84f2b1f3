---------------------------- MODULE ArsenalEvaluate ----------------------------
(***************************************************************************)
(* One run of arsenal_evaluate.py repository-recon after another: read the *)
(* corpus and the method record, resolve the adapter, load the cases, run  *)
(* the procedure once per case, write the artifact, emit a revised record  *)
(* when one is asked for, and exit with a code.  The files it reads may    *)
(* change between any two steps, the revised record may be copied among    *)
(* the records, and the artifact may be edited by hand.                    *)
(*                                                                         *)
(* A corpus file is [state, method_id, capability_id, cases]; a case       *)
(* directory is [exists, repo, expected], with expected "unreadable" in    *)
(* its state when it is missing or no object.  The counts of the metrics   *)
(* follow from the results and are left out.                               *)
(***************************************************************************)
EXTENDS ArsenalMethodRecord, ArsenalRecon

CONSTANTS
    Corpora,        \* what the corpus files hold: name -> contents
    Disks,          \* what the disk may hold at first: [records, cases, findings, loadout]
    CaseDirs,       \* what the case directories may hold: path -> directory
    Answers,        \* results a Loadout may answer with
    Options,        \* command lines: [corpus, adapter, input, root, revised]
    MaxEdits,       \* bound on the changes made between the steps
    MaxRuns         \* bound on the evaluations

\* A disk has its four parts, and the records of a directory, the findings of a case
\* and the anchors of an answer are lists.
ASSUME ListsAreSequences ==
    /\ \A d \in Disks : /\ DOMAIN d = {"records", "cases", "findings", "loadout"}
                        /\ d.records \in Seq(ToSet(d.records))
                        /\ \A id \in DOMAIN d.findings.findings :
                              d.findings.findings[id] \in Seq(ToSet(d.findings.findings[id]))
    /\ \A answer \in Answers : answer.anchors \in Seq(ToSet(answer.anchors))

ASSUME BoundsAreNatural == MaxEdits \in Nat /\ MaxRuns \in Nat

VARIABLES
    disk,       \* the records, the case directories, the findings file, and
                \* whether node and Loadout's procedure are installed
    run,        \* the evaluation that runs
    artifact,   \* the artifact file
    revised,    \* the revised record file
    exit,       \* the code of the last evaluation
    edits,      \* changes made so far
    runs,       \* evaluations started so far
    said,       \* history: what the procedure answered, per case of this run
    emitted     \* history: the last artifact written, and what it rests on

evaluateVars == <<disk, run, artifact, revised, exit, edits, runs, said, emitted>>

TargetMethod == "repository-recon/architecture-anchor-incremental"
TargetCapability == "capability.recon"
Nothing == <<>>
Torn == [schema |-> "torn"]

Codes ==
    {"PASS", "MISSING_CORPUS", "INVALID_CORPUS", "MISSING_METHOD_RECORD",
     "METHOD_RECORD_INVALID", "CASE_ERROR", "UNSUPPORTED", "UNKNOWN"}

\* What Python exits with when an exception is not caught.
Uncaught == "1"

AllowedGaps ==
    {"no-qualification-receipt-bound-to-capability", "no-behavioral-efficacy-evidence",
     "bounded-evaluator-only", "experimental-to-experimental"}
AllowedConclusions == {"experimental"}

-----------------------------------------------------------------------------
(* Reading.                                                                *)

CorpusValid(corpus) ==
    /\ corpus.state = "read"
    /\ corpus.method_id = TargetMethod
    /\ corpus.capability_id = TargetCapability
    /\ corpus.cases # <<>>
    /\ \A i, j \in DOMAIN corpus.cases :
          /\ corpus.cases[i].id # ""
          /\ corpus.cases[i].path # ""
          /\ corpus.cases[i].id = corpus.cases[j].id => i = j

\* The files looked at, up to the first with the method: its index, or 0.
MethodAt(files) ==
    LET named == { i \in DOMAIN files : /\ files[i].yaml
                                        /\ "method_id" \in DOMAIN files[i].record
                                        /\ files[i].record.method_id = TargetMethod }
    IN  IF named = {} THEN 0 ELSE Earliest(named)

Unparsed(files) ==
    \E i \in DOMAIN files : ~files[i].yaml /\ (MethodAt(files) = 0 \/ i < MethodAt(files))

\* The record is parsed and summarized; it is not validated here.
MethodSummary(record) ==
    [method_id |-> record.method_id, status |-> record.status,
     contexts |-> record.qualified_for.contexts,
     record_digest |-> record.provenance.digest, procedure_ref |-> record.procedure_ref]

CaseLoads(case) ==
    /\ disk.cases[case.path].exists
    /\ disk.cases[case.path].expected.state = "read"

Loaded(cases) ==
    [i \in DOMAIN cases |-> [id |-> cases[i].id, path |-> cases[i].path,
                             context |-> cases[i].context,
                             expected |-> disk.cases[cases[i].path].expected]]

-----------------------------------------------------------------------------
(* The artifact.                                                           *)

Gaps(results) ==
    {"no-behavioral-efficacy-evidence", "no-qualification-receipt-bound-to-capability",
     "experimental-to-experimental"}
        \cup (IF \E i \in DOMAIN results : results[i].misses \cup results[i].failures # {}
              THEN {"bounded-evaluator-only"} ELSE {})

AdapterBlock(opts) ==
    [name |-> opts.adapter,
     input |-> IF opts.adapter = "shell-loadout-recon" THEN opts.input ELSE "none",
     loadout_root |-> IF opts.adapter = "loadout-runtime" THEN opts.root ELSE "none"]

\* MUTANT of Body: the digest does not cover the results.
BodyWithoutResults(a) == [field \in DOMAIN a \ {"run_digest", "results"} |-> a[field]]

\* What the run digest covers: everything but itself.
Body(a) == [field \in DOMAIN a \ {"run_digest"} |-> a[field]]

\* The corpus path is that of the default corpus, whichever was read; the digest is
\* taken of everything but itself, and set last.
Artifact(r) ==
    LET body == [run_digest |-> Placeholder, schema |-> "arsenal/method-evaluation/v0", method |-> r.method,
                 declared |-> r.method.contexts,
                 exercised |-> { r.results[i].context : i \in DOMAIN r.results } \ {"none"},
                 corpus |-> "default", adapter |-> AdapterBlock(r.opts),
                 results |-> r.results, gap |-> "experimental-to-experimental",
                 gaps |-> Gaps(r.results), conclusion |-> "experimental",
                 promotes |-> FALSE, revised_status |-> "experimental"]
    IN  [body EXCEPT !.run_digest = Sha256(Body(body))]

\* cmd_validate.
ArtifactExit(a) ==
    IF a = Nothing THEN "MISSING_CORPUS"
    ELSE IF a = Torn THEN "UNKNOWN"
    ELSE IF /\ a.schema = "arsenal/method-evaluation/v0"
            /\ a.method.method_id = TargetMethod
            /\ a.conclusion \in AllowedConclusions
            /\ a.gap \in AllowedGaps
            /\ ~a.promotes
            /\ a.revised_status = "experimental"
            /\ a.run_digest = Sha256(Body(a))
         THEN "PASS" ELSE "INVALID_CORPUS"

Clear(result) == result.successes # {} /\ result.misses = {} /\ result.failures = {}

\* MUTANT of RevisedRecord: the placeholder stays where the digest belongs.
RevisedRecordKeepsPlaceholder(a) ==
    [schema |-> SchemaId, method_id |-> a.method.method_id, method_version |-> "0.1.0",
     status |-> "experimental",
     qualified_for |-> [contexts |-> {"governed"}, exclusions |-> {"incomplete"}],
     inputs |-> {"repository-state"}, outputs |-> {"anchor-map"},
     procedure_ref |-> IF a.method.procedure_ref.kind = "sha256"
                       THEN a.method.procedure_ref ELSE Placeholder,
     evaluation |-> [strengths |-> { i \in DOMAIN a.results : Clear(a.results[i]) },
                     failures |-> {"no receipt", "no behavioral evidence"},
                     confidence |-> "bounded", run_digest |-> a.run_digest],
     provenance |-> [commit |-> "none", digest |-> Placeholder], authority |-> {}]

\* The contexts and exclusions are fixed texts; every case is listed among the
\* failures, and the cases that passed clearly among the strengths.
RevisedRecord(a) ==
    LET body == [schema |-> SchemaId, method_id |-> a.method.method_id,
                 method_version |-> "0.1.0", status |-> "experimental",
                 qualified_for |-> [contexts |-> {"governed"}, exclusions |-> {"incomplete"}],
                 inputs |-> {"repository-state"}, outputs |-> {"anchor-map"},
                 procedure_ref |-> IF a.method.procedure_ref.kind = "sha256"
                                   THEN a.method.procedure_ref ELSE Placeholder,
                 evaluation |-> [strengths |-> { i \in DOMAIN a.results : Clear(a.results[i]) },
                                 failures |-> {"no receipt", "no behavioral evidence"},
                                 confidence |-> "bounded", run_digest |-> a.run_digest],
                 provenance |-> [commit |-> "none", digest |-> Placeholder],
                 authority |-> {}]
    IN  [body EXCEPT !.provenance.digest = Sha256(Canonical(body))]

-----------------------------------------------------------------------------
(* The steps.                                                              *)

EvaluateInit ==
    /\ disk \in Disks
    /\ run = Nothing
    /\ artifact = Nothing
    /\ revised = Nothing
    /\ exit = "none"
    /\ edits = 0
    /\ runs = 0
    /\ said = <<>>
    /\ emitted = Nothing

Exit(code) == exit' = code /\ run' = Nothing

At(pc) == run # Nothing /\ run.pc = pc

\* The command line parses: the adapter is one of those the evaluator knows.
Parses(opts) ==
    opts.adapter \in {"internal-fixture-procedure", "shell-loadout-recon", "loadout-runtime"}

Start(opts) ==
    /\ run = Nothing
    /\ Parses(opts)
    /\ runs < MaxRuns
    /\ runs' = runs + 1
    /\ said' = <<>>
    /\ LET corpus == Corpora[opts.corpus] IN
       IF corpus.state = "absent" THEN Exit("MISSING_CORPUS")
       ELSE IF ~CorpusValid(corpus) THEN Exit("INVALID_CORPUS")
       ELSE /\ run' = [pc |-> "method", opts |-> opts, cases |-> corpus.cases, results |-> <<>>,
                       method |-> Nothing, findings |-> Nothing]
            /\ exit' = "running"
    /\ UNCHANGED <<disk, artifact, revised, edits, emitted>>

\* _find_method_record is called outside the try: no record is UNKNOWN, and a file
\* that is not YAML ends the process.
ReadMethod ==
    /\ At("method")
    /\ IF Unparsed(disk.records) THEN Exit(Uncaught)
       ELSE IF MethodAt(disk.records) = 0 THEN Exit("UNKNOWN")
       ELSE /\ run' = [run EXCEPT
                       !.pc = "adapter",
                       !.method = MethodSummary(disk.records[MethodAt(disk.records)].record)]
            /\ UNCHANGED exit
    /\ UNCHANGED <<disk, artifact, revised, edits, runs, said, emitted>>

\* The shell adapter reads and validates its whole file here.
ResolveAdapter ==
    /\ At("adapter")
    /\ IF \/ run.opts.adapter = "shell-loadout-recon"
               /\ (run.opts.input = "none" \/ ~FindingsFileValid(disk.findings))
          \/ run.opts.adapter = "loadout-runtime" /\ run.opts.root = "none"
       THEN Exit("UNKNOWN")
       ELSE /\ run' = [run EXCEPT !.pc = "cases", !.findings = disk.findings.findings]
            /\ UNCHANGED exit
    /\ UNCHANGED <<disk, artifact, revised, edits, runs, said, emitted>>

LoadCases ==
    /\ At("cases")
    /\ IF \E i \in DOMAIN run.cases : ~CaseLoads(run.cases[i])
       THEN Exit("CASE_ERROR")
       ELSE run' = [run EXCEPT !.pc = "run", !.cases = Loaded(@)] /\ UNCHANGED exit
    /\ UNCHANGED <<disk, artifact, revised, edits, runs, said, emitted>>

Current == run.cases[Len(run.results) + 1]
Waiting == At("run") /\ Len(run.results) < Len(run.cases)

\* The procedure has answered for the current case.
Judged(answer, findings) ==
    /\ run' = [run EXCEPT !.pc = "run", !.results = Append(@, CaseResult(Current, findings))]
    /\ said' = Append(said, answer)
    /\ UNCHANGED <<disk, artifact, revised, exit, edits, runs, emitted>>

RunInternal ==
    /\ Waiting
    /\ run.opts.adapter = "internal-fixture-procedure"
    /\ Judged(disk.cases[Current.path].repo, ReconProcedure(disk.cases[Current.path].repo))

\* A case without findings is a FileNotFoundError.
RunShell ==
    /\ Waiting
    /\ run.opts.adapter = "shell-loadout-recon"
    /\ LET id == CaseAt(run.cases, Current.path) IN
       IF id \in DOMAIN run.findings
       THEN Judged([findings |-> run.findings[id]], run.findings[id])
       ELSE /\ Exit("UNKNOWN")
            /\ UNCHANGED <<disk, artifact, revised, edits, runs, said, emitted>>

\* run_result looks for node, then for the procedure, then starts the process.
StartLoadout ==
    /\ Waiting
    /\ run.opts.adapter = "loadout-runtime"
    /\ IF ~disk.loadout.node THEN Exit(Uncaught)
       ELSE IF ~disk.loadout.procedure THEN Exit("UNKNOWN")
       ELSE run' = [run EXCEPT !.pc = "loadout"] /\ UNCHANGED exit
    /\ UNCHANGED <<disk, artifact, revised, edits, runs, said, emitted>>

LoadoutAnswers ==
    /\ At("loadout")
    /\ \E answer \in Answers : Judged(answer, Translate(answer))

\* Whatever is not a result of a known schema is a RuntimeError.
LoadoutBreaks ==
    /\ At("loadout")
    /\ \E answer \in Broken : Exit(Uncaught)
    /\ UNCHANGED <<disk, artifact, revised, edits, runs, said, emitted>>

\* MUTANT of LoadoutTimesOut: subprocess.run without a timeout.
LoadoutHangs ==
    /\ At("loadout")
    /\ FALSE
    /\ UNCHANGED evaluateVars

\* subprocess.TimeoutExpired after 60 seconds.
LoadoutTimesOut ==
    /\ At("loadout")
    /\ Exit(Uncaught)
    /\ UNCHANGED <<disk, artifact, revised, edits, runs, said, emitted>>

Write ==
    /\ At("run")
    /\ Len(run.results) = Len(run.cases)
    /\ artifact' = Artifact(run)
    /\ emitted' = [artifact |-> Artifact(run), cases |-> run.cases, said |-> said]
    /\ IF run.opts.revised THEN run' = [run EXCEPT !.pc = "revise"] /\ UNCHANGED exit
       ELSE Exit("PASS")
    /\ UNCHANGED <<disk, revised, edits, runs, said>>

\* The file is opened for writing, which empties it, and the write fails.
WriteFails ==
    /\ At("run")
    /\ Len(run.results) = Len(run.cases)
    /\ artifact' = Torn
    /\ Exit("UNKNOWN")
    /\ UNCHANGED <<disk, revised, edits, runs, said, emitted>>

Revise ==
    /\ At("revise")
    /\ revised' = RevisedRecord(Artifact(run))
    /\ Exit("PASS")
    /\ UNCHANGED <<disk, artifact, edits, runs, said, emitted>>

\* The revised record cannot be opened, or is opened for writing, which empties it,
\* and the write fails; the artifact already is written.
ReviseFails ==
    /\ At("revise")
    /\ revised' \in {revised, Torn}
    /\ Exit("UNKNOWN")
    /\ UNCHANGED <<disk, artifact, edits, runs, said, emitted>>

-----------------------------------------------------------------------------
(* What others do to the files.                                            *)

Edited == edits < MaxEdits /\ edits' = edits + 1

\* The user takes the revised record, written whole, for the canonical one, or sets
\* it beside it, where its name sorts after.
Adopt ==
    /\ Edited
    /\ revised \notin {Nothing, Torn}
    /\ \E records \in { <<[yaml |-> TRUE, record |-> revised]>>,
                        Append(disk.records, [yaml |-> TRUE, record |-> revised]) } :
          disk' = [disk EXCEPT !.records = records]
    /\ UNCHANGED <<run, artifact, revised, exit, runs, said, emitted>>

EditCases ==
    /\ Edited
    /\ \E cases \in CaseDirs \ {disk.cases} : disk' = [disk EXCEPT !.cases = cases]
    /\ UNCHANGED <<run, artifact, revised, exit, runs, said, emitted>>

\* A hand-edited artifact: the misses of a case are turned into successes, or the
\* conclusion is raised.
EditArtifact ==
    /\ Edited
    /\ artifact \notin {Nothing, Torn}
    /\ \/ \E i \in DOMAIN artifact.results :
             /\ artifact.results[i].misses # {}
             /\ artifact' = [artifact EXCEPT !.results[i].successes = @ \cup artifact.results[i].misses,
                                             !.results[i].misses = {}]
       \/ artifact' = [artifact EXCEPT !.conclusion = "qualified"]
    /\ UNCHANGED <<disk, run, revised, exit, runs, said, emitted>>

Step ==
    \/ ReadMethod \/ ResolveAdapter \/ LoadCases
    \/ RunInternal \/ RunShell \/ StartLoadout \/ LoadoutTimesOut
    \/ Write \/ Revise

EvaluateNext ==
    \/ \E opts \in Options : Start(opts)
    \/ Step
    \/ LoadoutAnswers \/ LoadoutBreaks \/ WriteFails \/ ReviseFails
    \/ Adopt \/ EditCases \/ EditArtifact

\* The process is scheduled; neither Loadout's answer nor the user's next command
\* is promised.
EvaluateSpec == EvaluateInit /\ [][EvaluateNext]_evaluateVars /\ WF_evaluateVars(Step)

-----------------------------------------------------------------------------
(* Properties.                                                             *)

\* TYPE INVARIANT.  A code is left behind exactly when nothing runs.
EvaluateTypeOK ==
    /\ exit \in Codes \cup {Uncaught, "none", "running"}
    /\ (run = Nothing) = (exit # "running")
    /\ run # Nothing =>
          /\ run.pc \in {"method", "adapter", "cases", "run", "loadout", "revise"}
          /\ Len(run.results) <= Len(run.cases)
          /\ Len(said) = Len(run.results)
    /\ edits \in 0 .. MaxEdits /\ runs \in 0 .. MaxRuns

\* What a file of findings says of an assertion: its first finding about the path.
ToldOf(findings, assertion) ==
    \E i \in DOMAIN findings :
        /\ findings[i].evidence = assertion.evidence
        /\ \/ /\ assertion.kind = "capability_identity"
              /\ findings[i].kind = "capability_identity"
              /\ CapabilityMatches(findings[i].actual, assertion.expected)
           \/ /\ \/ assertion.kind = "presence" /\ findings[i].actual = Yes
                 \/ assertion.kind = "absence" /\ findings[i].actual = No
              /\ \A j \in DOMAIN findings : findings[j].evidence = assertion.evidence => i <= j

\* Whether the procedure that was asked said what the assertion wants.
Observed(adapter, answer, assertion) ==
    \/ /\ adapter = "internal-fixture-procedure"
       /\ \/ assertion.kind = "presence" /\ assertion.evidence \in answer.paths
          \/ assertion.kind = "absence" /\ assertion.evidence \notin answer.paths
          \/ /\ assertion.kind = "capability_identity"
             /\ CapabilityPath \in answer.paths
             /\ CapabilityMatches(answer.capability, assertion.expected)
    \/ /\ adapter = "shell-loadout-recon"
       /\ ToldOf(answer.findings, assertion)
    \/ /\ adapter = "loadout-runtime"
       /\ \/ assertion.kind = "presence" /\ assertion.evidence \in Detected(answer)
          \/ assertion.kind = "absence" /\ assertion.evidence \in Missing(answer)

\* No adapter is helped by what it does not say: every success of the artifact is
\* of an assertion the procedure the artifact names bore out, for that case, in that
\* run; there is no fallback, and silence is no absence (_evaluate_assertion, the
\* adapters).
SuccessesWereObserved ==
    emitted # Nothing =>
        \A i \in DOMAIN emitted.artifact.results :
            \A id \in emitted.artifact.results[i].successes :
                \E a \in ToSet(emitted.cases[i].expected.assertions) :
                    a.id = id /\ Observed(emitted.artifact.adapter.name, emitted.said[i], a)

\* cmd_validate passes an artifact as it was written, and no other.
ValidatesAsEmitted ==
    artifact \notin {Nothing, Torn} =>
        (ArtifactExit(artifact) = "PASS" <=> artifact = emitted.artifact)

\* The record an evaluation writes whole passes the validator, whatever the cases
\* and the record it started from were (_emit_revised_qmr, validate_directory).
RevisedRecordIsAdmissible ==
    revised \notin {Nothing, Torn} => RecordsExit(<<[yaml |-> TRUE, record |-> revised]>>) = "PASS"

\* Every evaluation that starts exits: Loadout, which need not answer, is given up.
EvaluationEnds == exit = "running" ~> exit # "running"

=============================================================================
