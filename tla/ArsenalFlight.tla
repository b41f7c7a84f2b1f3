----------------------------- MODULE ArsenalFlight -----------------------------
(***************************************************************************)
(* An executable world from its proof gate to its flight record, on one    *)
(* working tree.  Each of Runners may execute arsenal_dagger run; they     *)
(* share the two receipt paths.  arsenal_observe record-dagger and         *)
(* record-bench read a receipt and then take its digest.  Between any two  *)
(* steps the pack, the policy, the installed dagger or a file may change,  *)
(* and a run may die.  validate, preflight, select, verify and compare     *)
(* change nothing: they are ManifestAccepted, GateOpen, Select,            *)
(* ReceiptVerifies, RecordValid and Compare.                               *)
(*                                                                         *)
(* A file is written whole.                                                *)
(***************************************************************************)
EXTENDS ArsenalObserve

CONSTANTS
    Runners,
    Outputs,         \* paths a flight record may be written to
    Instances, Shas, \* --instance-id and --repository-sha
    InitialPack, InitialPolicy, InitialBench,
    Packs, Policies, DaggerVersions, Benches,   \* what an edit may put in place
    MaxChanges, MaxFiles

ASSUME BoundsAreNatural == MaxChanges \in Nat /\ MaxFiles \in Nat

Raw == "raw.json"
Receipt == "receipt.json"
Bench == "bench.json"
Paths == {Raw, Receipt, Bench} \cup Outputs

KnownPacks == Packs \cup {InitialPack}
KnownPolicies == Policies \cup {InitialPolicy}

\* A catalog lists its substrates, the receipts of every pack are among the files, and
\* arsenal_bench writes nothing but its receipt.
ASSUME SubstratesAreListed ==
    \A pol \in KnownPolicies : pol.catalog.substrates \in Seq(Substrates(pol.catalog))
ASSUME ReceiptPathsAreFiles ==
    \A p \in KnownPacks : {p.manifest.raw_receipt_path, p.manifest.receipt_path} \subseteq Paths
ASSUME BenchesAreReceipts == \A b \in Benches \cup {InitialBench} : b.kind = "bench"

VARIABLES
    pack, policy, dagger,   \* what the commands read and run
    files,                  \* path -> content
    run,                    \* runner -> where its run stands
    recorder,               \* the recording that is under way
    changes,                \* how many edits there were: of the tree, of files
    executed,               \* history: the packs whose world ran to its end
    composed,               \* history: the receipts ever composed
    torn                    \* history: records made of other bytes than they digest

flightVars == <<pack, policy, dagger, files, run, recorder, changes, executed, composed, torn>>

AtRest == [step |-> "idle"]

FlightInit ==
    /\ pack = InitialPack
    /\ policy = InitialPolicy
    /\ dagger = InitialPack.manifest.dagger_version
    /\ files = [p \in Paths |-> IF p = Bench THEN InitialBench ELSE NoFile]
    /\ run = [r \in Runners |-> AtRest]
    /\ recorder = AtRest
    /\ changes = [tree |-> 0, files |-> 0]
    /\ executed = {}
    /\ composed = {}
    /\ torn = {}

-----------------------------------------------------------------------------
(* arsenal_dagger run                                                      *)

Goto(r, state) == run' = [run EXCEPT ![r] = state]
OnlyRun == UNCHANGED <<pack, policy, dagger, recorder, changes>>

\* The manifest holds and the installed dagger is the pinned one.
RunStart(r) ==
    /\ run[r] = AtRest
    /\ ManifestAccepted(pack, policy)
    /\ dagger = pack.manifest.dagger_version
    /\ Goto(r, [step |-> "gate", context |-> Context(pack), version |-> dagger])
    /\ OnlyRun /\ UNCHANGED <<files, executed, composed, torn>>

\* One selector process per requirement; each of them reads the policy again.
RunGate(r) ==
    /\ run[r].step = "gate"
    /\ IF GateOpen(run[r].context.world, policy)
       THEN Goto(r, [step |-> "unlink", context |-> run[r].context, version |-> run[r].version,
                     reports |-> Reports(run[r].context.world, policy)])
       ELSE Goto(r, AtRest)
    /\ OnlyRun /\ UNCHANGED <<files, executed, composed, torn>>

RunUnlink(r) ==
    /\ run[r].step = "unlink"
    /\ files' = [files EXCEPT ![run[r].context.world.raw_receipt_path] = NoFile,
                              ![run[r].context.world.receipt_path] = NoFile]
    /\ Goto(r, [run[r] EXCEPT !.step = "launch"])
    /\ torn' = torn \ {run[r].context.world.raw_receipt_path, run[r].context.world.receipt_path}
    /\ OnlyRun /\ UNCHANGED <<executed, composed>>

\* dagger reads the script and mounts the pack as they are now.
WorldStarts(r) ==
    /\ run[r].step = "launch"
    /\ Goto(r, [step |-> "world", context |-> run[r].context, version |-> run[r].version,
                reports |-> run[r].reports, mounted |-> pack])
    /\ OnlyRun /\ UNCHANGED <<files, executed, composed, torn>>

\* The cases behaved and the raw receipt was exported to the path the script names.
WorldExports(r) ==
    /\ run[r].step = "world"
    /\ CasesBehave(run[r].mounted)
    /\ executed' = executed \cup {run[r].mounted}
    /\ files' = IF run[r].mounted.script.export \in Paths
                THEN [files EXCEPT ![run[r].mounted.script.export] = RawReceipt(run[r].mounted)]
                ELSE files
    /\ Goto(r, [step |-> "compose", context |-> run[r].context, version |-> run[r].version,
                reports |-> run[r].reports])
    /\ torn' = torn \ {run[r].mounted.script.export}
    /\ OnlyRun /\ UNCHANGED composed

\* dagger exits with another code: a case misbehaved, or dagger could not run the world.
WorldFails(r) ==
    /\ run[r].step = "world"
    /\ Goto(r, AtRest)
    /\ OnlyRun /\ UNCHANGED <<files, executed, composed, torn>>

\* Load the raw receipt, whoever wrote it, verify it, and write the receipt composed of it.
RunCompose(r) ==
    /\ run[r].step = "compose"
    /\ LET world == run[r].context.world
           raw == files[world.raw_receipt_path]
           receipt == Composed(run[r].context, run[r].reports, raw, run[r].version)
       IN  IF raw # NoFile /\ WorldReceiptVerified(run[r].context, raw)
           THEN /\ files' = [files EXCEPT ![world.receipt_path] = receipt]
                /\ composed' = composed \cup {receipt}
                /\ torn' = torn \ {world.receipt_path}
           ELSE UNCHANGED <<files, composed, torn>>
    /\ Goto(r, AtRest)
    /\ OnlyRun /\ UNCHANGED executed

RunDies(r) ==
    /\ run[r] # AtRest
    /\ Goto(r, AtRest)
    /\ OnlyRun /\ UNCHANGED <<files, executed, composed, torn>>

-----------------------------------------------------------------------------
(* arsenal_observe record-dagger, record-bench                             *)

OnlyRecorder == UNCHANGED <<pack, policy, dagger, run, changes, executed, composed>>

\* The source is read.
RecordRead(kind, path, sha) ==
    /\ recorder = AtRest
    /\ files[path].kind = IF kind = "dagger" THEN "arsenal-executable-world" ELSE "bench"
    /\ recorder' = [step |-> "write", kind |-> kind, path |-> path, sha |-> sha,
                    source |-> files[path]]
    /\ OnlyRecorder /\ UNCHANGED <<files, torn>>

Accepted(kind, pol, source, sha) ==
    IF kind = "dagger" THEN DaggerAccepted(pol, source) ELSE BenchAccepted(pol, source, sha)

Normalized(kind, pol, source, path, content, instance, sha) ==
    IF kind = "dagger" THEN DaggerRecord(pol, source, path, content, instance, sha)
    ELSE BenchRecord(pol, source, path, content, instance, sha)

\* The source is judged by the policy, its digest is taken of what the file holds now, and the
\* record is validated and written.
RecordWrite(output, instance) ==
    /\ recorder # AtRest
    /\ recorder' = AtRest
    /\ LET content == files[recorder.path]
           record == Normalized(recorder.kind, policy, recorder.source, recorder.path,
                                content, instance, recorder.sha)
       IN  IF /\ Accepted(recorder.kind, policy, recorder.source, recorder.sha)
              /\ content # NoFile
              /\ RecordValid(record, files)
           THEN /\ files' = [files EXCEPT ![output] = record]
                /\ torn' = IF content = recorder.source THEN torn \ {output} ELSE torn \cup {output}
           ELSE UNCHANGED <<files, torn>>
    /\ OnlyRecorder

-----------------------------------------------------------------------------
(* The outside.                                                            *)

Untouched == UNCHANGED <<run, recorder, executed, composed, torn>>

EditTree ==
    /\ changes.tree < MaxChanges
    /\ changes' = [changes EXCEPT !.tree = @ + 1]
    /\ Untouched /\ UNCHANGED files

EditFiles ==
    /\ changes.files < MaxFiles
    /\ changes' = [changes EXCEPT !.files = @ + 1]
    /\ Untouched /\ UNCHANGED <<pack, policy, dagger>>

EditPack == EditTree /\ pack' \in Packs \ {pack} /\ UNCHANGED <<policy, dagger>>
EditPolicy == EditTree /\ policy' \in Policies \ {policy} /\ UNCHANGED <<pack, dagger>>
InstallDagger == EditTree /\ dagger' \in DaggerVersions \ {dagger} /\ UNCHANGED <<pack, policy>>

\* arsenal_bench writes its receipt.
WriteBench ==
    /\ EditFiles
    /\ \E b \in Benches \ {files[Bench]} : files' = [files EXCEPT ![Bench] = b]

\* Someone rewrites a record's verdict; the fingerprint stays what it was.
EditRecord ==
    /\ EditFiles
    /\ \E p \in Outputs, v \in {"PASS", "FAIL"} :
           /\ files[p].kind = "arsenal-flight-record"
           /\ files' = [files EXCEPT ![p].status = v, ![p].verdict = v]

FlightNext ==
    \/ \E r \in Runners :
           \/ RunStart(r) \/ RunGate(r) \/ RunUnlink(r) \/ WorldStarts(r) \/ WorldExports(r)
           \/ WorldFails(r) \/ RunCompose(r) \/ RunDies(r)
    \/ \E kind \in {"dagger", "bench"}, path \in Paths, sha \in Shas : RecordRead(kind, path, sha)
    \/ \E output \in Outputs, instance \in Instances : RecordWrite(output, instance)
    \/ EditPack \/ EditPolicy \/ InstallDagger \/ WriteBench \/ EditRecord

FlightSpec == FlightInit /\ [][FlightNext]_flightVars

-----------------------------------------------------------------------------
(* Properties.                                                             *)

\* Every step of a run carries what the later steps need, and every file holds something the
\* commands write.
FlightTypeOK ==
    /\ pack \in KnownPacks
    /\ policy \in KnownPolicies
    /\ \A p \in Paths : files[p].kind \in {"no file", "dagger-world-evidence", "bench",
                                           "arsenal-executable-world", "arsenal-flight-record"}
    /\ \A r \in Runners : run[r].step \notin {"idle", "gate"} =>
           DOMAIN run[r].reports = DOMAIN run[r].context.world.verification_requirements
    /\ recorder.step \in {"idle", "write"}
    /\ changes \in [tree : 0..MaxChanges, files : 0..MaxFiles]
    /\ torn \subseteq Outputs
    /\ executed \subseteq KnownPacks

SelectRequests ==
    [capability : DOMAIN policy.capabilities,
     requirement : UNION {policy.capabilities[c].requirements : c \in DOMAIN policy.capabilities},
     authority_profile : DOMAIN policy.graph,
     availability_profile : DOMAIN policy.catalog.availability_profiles,
     extra_traits : {{}, {"container-runtime"}},
     omitted : {{}, {"substrate.local-process"}}]

\* s may be used for the request, said without the order in which the selector asks.
MayUse(request, s) ==
    LET cap == policy.capabilities[request.capability]
        proof == CHOOSE p \in Bindings(policy, request) : TRUE
    IN  /\ proof.required_traits \cup request.extra_traits \subseteq s.traits
        /\ Satisfies(policy.catalog, s, proof, {})
        /\ s.execution_surface \in cap.allowed
        /\ s.execution_surface \notin cap.prohibited
        /\ s.selection_mode = "automatic"
        /\ s.id \in policy.catalog.availability_profiles[request.availability_profile]
        /\ s.id \notin request.omitted
        /\ cap.required_authority \cup s.required_authority
               \subseteq policy.graph[request.authority_profile]

\* The selector answers SELECTED exactly when some substrate may be used, and then with the one
\* of the lowest reality rank; it never selects one that needs remote, production or secret
\* authority, nor one on a surface that must be asked for by name.
SelectionIsLowestSufficient ==
    PolicyValid(policy) => \A request \in SelectRequests :
        RequestKnown(policy, request) =>
            LET report == Select(policy, request)
                usable == {s \in Substrates(policy.catalog) : MayUse(request, s)}
            IN  /\ report.verdict = "SELECTED" <=> usable # {}
                /\ \A s \in usable :
                       /\ report.selected.reality_rank <= s.reality_rank
                       /\ s.required_authority \cap HighConsequence = {}
                       /\ s.execution_surface \notin ExplicitOnlySurfaces
                /\ usable # {} => \E s \in usable : report.selected = Brief(s)

\* A receipt of any run, however old and whichever runner wrote its raw evidence, verifies only
\* against a definition whose pinned parts a container really saw behave: red failed, green
\* passed.  What the manifest does not pin may have changed.
VerifiedReceiptObserved ==
    \A receipt \in composed :
        ReceiptVerifies(pack, policy, receipt) =>
            \E p \in executed :
                /\ CasesBehave(p)
                /\ DefinitionDigest(p, p.manifest.definition_inputs) = Context(pack).definition_digest

\* The capability contract and the grants are what they were when the record was made.
ContractsUnchanged(record) ==
    /\ record.capability.id \in DOMAIN policy.capabilities
    /\ record.context[1].digest = policy.capabilities[record.capability.id]
    /\ record.profile # NoProfile =>
           /\ record.profile \in DOMAIN policy.graph
           /\ record.granted = policy.graph[record.profile]

\* A flight record that verifies says what its source says: normalising the source once more,
\* under another instance id, gives a record that compares equal.  Three things are outside what
\* verify looks at: a source that changed while it was recorded, the capability contract, and
\* the grants of the authority profile.
VerifiedRecordReproduces ==
    \A p \in Outputs \ torn :
        LET record == files[p] IN
        /\ record.kind = "arsenal-flight-record"
        /\ RecordValid(record, files)
        /\ ContractsUnchanged(record)
        => LET path == record.evidence[1].source
               kind == IF record.run_kind = "evaluation" THEN "bench" ELSE "dagger"
           IN  Compare(record, Normalized(kind, policy, files[path], path, files[path],
                                          "another instance", record.repository_sha)) = 0
===============================================================================
