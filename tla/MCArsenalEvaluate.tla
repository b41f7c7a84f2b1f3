--------------------------- MODULE MCArsenalEvaluate ---------------------------
(***************************************************************************)
(* A corpus of two cases whose directories, records, findings and Loadout  *)
(* take every shape the evaluator tells apart, and one edit between any    *)
(* two steps; the directories change by that edit.                         *)
(***************************************************************************)
EXTENDS ArsenalEvaluate

Case(id, path, context) == [id |-> id, path |-> path, context |-> context]
CorpusOf(method, cases) ==
    [state |-> "read", method_id |-> method, capability_id |-> TargetCapability, cases |-> cases]
MCCorpora ==
    [default |-> CorpusOf(TargetMethod, <<Case("governed", "A", "with-AGENTS"), Case("bare", "B", "none")>>),
     other |-> CorpusOf(TargetMethod, <<Case("bare", "B", "none"), Case("bare", "A", "none")>>),
     foreign |-> CorpusOf("another-method", <<Case("bare", "B", "none")>>),
     missing |-> [state |-> "absent", cases |-> <<>>]]

Body0 ==
    [schema |-> SchemaId, method_id |-> TargetMethod, method_version |-> "0.1.0",
     status |-> "experimental",
     qualified_for |-> [contexts |-> {"governed"}, exclusions |-> {"unversioned"}],
     inputs |-> {"repository-state"}, outputs |-> {"anchor-map"},
     procedure_ref |-> [kind |-> "sha256", of |-> "procedure"],
     evaluation |-> [failures |-> {"no receipt"}, confidence |-> "bounded"],
     provenance |-> [commit |-> "none", digest |-> Placeholder], authority |-> {}]
Sealed(body) == [body EXCEPT !.provenance.digest = Sha256(Canonical(body))]
File(record) == [yaml |-> TRUE, record |-> record]
\* Another method's record sorts before, or a file that is not YAML; the canonical
\* record claims to be qualified and was not sealed again, or is not there.
Canonical0 == <<File(Sealed(Body0))>>
OddRecords ==
    { <<File(Sealed([Body0 EXCEPT !.method_id = "another-method"])), File(Sealed(Body0))>>,
      <<[yaml |-> FALSE], File(Sealed(Body0))>>,
      <<File([Sealed(Body0) EXCEPT !.status = "qualified"])>>,
      <<>> }

Assertion(id, kind, evidence) ==
    [id |-> id, kind |-> kind, evidence |-> evidence,
     expected |-> IF kind = "capability_identity" THEN [lifecycle |-> "draft"] ELSE [exists |-> TRUE]]
Expected(assertions) ==
    [state |-> "read", assertions |-> assertions, unknowns |-> {"u"}, unsupported |-> {"c"}]
Dir(paths, lifecycle, expected) ==
    [exists |-> TRUE, expected |-> expected,
     repo |-> [paths |-> paths,
               capability |-> IF lifecycle = "unreadable" THEN NoCapability
                              ELSE [id |-> TargetCapability, lifecycle |-> lifecycle,
                                    evaluation_status |-> "unassessed"]]]
Governed == Expected(<<Assertion("agents", "presence", "AGENTS.md"),
                       Assertion("recon", "capability_identity", CapabilityPath)>>)
Bare == Expected(<<Assertion("no agents", "absence", "AGENTS.md"),
                   Assertion("no contracts", "absence", "engineering/")>>)
Cases0 ==
    [A |-> Dir({"AGENTS.md", CapabilityPath}, "draft", Governed), B |-> Dir({"README.md"}, "unreadable", Bare)]
MCCaseDirs ==
    { Cases0,
      [A |-> Dir({CapabilityPath}, "unreadable", Governed), B |-> Dir({"AGENTS.md"}, "draft", Bare)],
      [A |-> Dir({"AGENTS.md"}, "draft", Governed), B |-> Dir({}, "draft", [state |-> "missing"])] }

Finding(kind, evidence, actual) == [kind |-> kind, evidence |-> evidence, actual |-> actual]
FileOf(findings) ==
    [schema |-> "arsenal/repository-recon-findings/v0", findings |-> findings]
Findings0 ==
    FileOf([governed |-> <<Finding("presence", "AGENTS.md", Yes)>>,
            bare |-> <<Finding("presence", "AGENTS.md", No)>>])
OddFindings ==
    { FileOf([governed |-> <<Finding("presence", "AGENTS.md", No)>>]),
      FileOf([governed |-> <<Finding("guess", "AGENTS.md", Yes)>>]) }

\* One part of the disk at a time is not as it should be.
Disk0 ==
    [records |-> Canonical0, cases |-> Cases0, findings |-> Findings0,
     loadout |-> [node |-> TRUE, procedure |-> TRUE]]
MCDisks ==
    {Disk0}
        \cup { [Disk0 EXCEPT !.records = r] : r \in OddRecords }
        \cup { [Disk0 EXCEPT !.findings = f] : f \in OddFindings }
        \cup { [Disk0 EXCEPT !.loadout.node = FALSE], [Disk0 EXCEPT !.loadout.procedure = FALSE] }
MCAnswers ==
    { [anchors |-> <<[path |-> "AGENTS.md"]>>, unknowns |-> <<"readme">>],
      [anchors |-> <<>>, unknowns |-> <<"governance", "license">>] }

Line(corpus, adapter, input, root, revise) ==
    [corpus |-> corpus, adapter |-> adapter, input |-> input, root |-> root, revised |-> revise]
MCOptions ==
    { Line("default", "internal-fixture-procedure", "none", "none", TRUE),
      Line("default", "shell-loadout-recon", "findings.json", "none", FALSE),
      Line("default", "shell-loadout-recon", "none", "none", FALSE),
      Line("default", "loadout-runtime", "none", "../loadout", TRUE),
      Line("default", "loadout-runtime", "none", "none", FALSE),
      Line("other", "internal-fixture-procedure", "none", "none", FALSE),
      Line("foreign", "internal-fixture-procedure", "none", "none", FALSE),
      Line("missing", "internal-fixture-procedure", "none", "none", FALSE),
      Line("default", "kiln-runtime", "none", "none", FALSE) }
=============================================================================
