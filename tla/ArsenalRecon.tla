------------------------------ MODULE ArsenalRecon ------------------------------
(***************************************************************************)
(* What an evaluation case is judged by: the internal recon procedure, the *)
(* adapters that replace it, and the comparison of their findings with a   *)
(* case's expected assertions (arsenal_evaluate, evaluation/adapters).     *)
(*                                                                         *)
(* A repository is [paths, capability]: the paths that exist in it and     *)
(* what its capability fragment says, NoCapability when it cannot be read. *)
(* A finding is [kind, evidence, actual]; its subject, which nothing       *)
(* compares, is left out, and so is the number of findings.                *)
(***************************************************************************)
EXTENDS Integers, SequencesExt

CapabilityPath == "arsenal/capabilities/recon.json"

\* Without the capability fragment, which is passed over and reported last.
PresenceAnchors ==
    <<"AGENTS.md", "README.md", "src/main.py", "engineering/doctrine/CORE.md",
      "evaluation/method-records/example.yaml", "scripts/recon_method.py">>
AbsenceAnchors == <<"engineering/", "arsenal/capabilities/", "evaluation/method-records/">>

NoCapability == [id |-> "none"]
IsCapability(actual) == DOMAIN actual # {"id"}

Yes == [exists |-> TRUE]
No == [exists |-> FALSE]
Exists(found) == [exists |-> found]

AllowedKinds == {"presence", "absence", "capability_identity"}

Seen(repo, kind, path) ==
    [kind |-> kind, evidence |-> path, actual |-> Exists(path \in repo.paths)]

\* _run_recon_procedure: presence, then absence, then the capability fragment.
ReconProcedure(repo) ==
    [i \in DOMAIN PresenceAnchors |-> Seen(repo, "presence", PresenceAnchors[i])]
        \o [i \in DOMAIN AbsenceAnchors |-> Seen(repo, "absence", AbsenceAnchors[i])]
        \o << Seen(repo, "presence", CapabilityPath),
              [kind |-> "capability_identity", evidence |-> CapabilityPath,
               actual |-> IF CapabilityPath \in repo.paths THEN repo.capability
                          ELSE NoCapability] >>

-----------------------------------------------------------------------------
(* The Loadout runtime adapter.                                            *)

Catalogue ==
    [governance |-> <<"AGENTS.md", "CLAUDE.md", ".cursorrules", "CONVENTIONS.md", "CONTRIBUTING.md">>,
     readme |-> <<"README.md", "README", "README.txt", "readme.md", "readme">>,
     manifest |-> <<"package.json", "pyproject.toml", "setup.py", "Cargo.toml", "go.mod", "pom.xml",
                    "build.gradle", "build.gradle.kts", "composer.json", "Gemfile", "mix.exs",
                    "pubspec.yaml">>,
     source_root |-> <<"src/", "lib/", "app/", "source/">>,
     docs_architecture |-> <<"ARCHITECTURE.md", "ARCHITECTURE", "DESIGN.md", "docs/architecture",
                             "docs/design", "docs">>,
     test_root |-> <<"tests/", "test/", "spec/", "__tests__/">>,
     ci_workflow |-> <<".github/workflows", ".circleci", ".buildkite", "azure-pipelines.yml",
                       ".travis.yml", ".gitlab-ci.yml", "appveyor.yml", "Jenkinsfile">>,
     build_config |-> <<"tsconfig.json", "webpack.config.js", "rollup.config.js", "vite.config.ts",
                        "vite.config.js", "esbuild.config.js", "Makefile", "CMakeLists.txt">>,
     project_config |-> <<".editorconfig", ".eslintrc.json", ".eslintrc.js", ".prettierrc",
                          ".prettierrc.json", ".prettierignore", "Dockerfile",
                          "docker-compose.yml", ".gitignore", ".dockerignore">>]

\* What a Loadout answers that is no result of it.
Broken == {"exit", "empty", "not-json", "not-object", "wrong-schema"}

Detected(result) == { a.path : a \in ToSet(result.anchors) }

\* The paths of the catalogue of every kind Loadout calls unknown, but its anchors.
Missing(result) ==
    UNION { ToSet(Catalogue[kind]) : kind \in ToSet(result.unknowns) \cap DOMAIN Catalogue }
        \ Detected(result)

\* Every anchor is present, every missing path absent.  Findings of the missing
\* paths say the same, so their order, and a path that is listed twice, is left out.
Translate(result) ==
    [i \in DOMAIN result.anchors |->
        [kind |-> "presence", evidence |-> result.anchors[i].path, actual |-> Yes]]
    \o SetToSeq({ [kind |-> "presence", evidence |-> path, actual |-> No] :
                     path \in Missing(result) })

-----------------------------------------------------------------------------
(* The shell adapter.                                                      *)

FindingsValid(findings) ==
    \A i \in DOMAIN findings :
        findings[i].kind \in AllowedKinds /\ findings[i].evidence # ""

FindingsFileValid(file) ==
    /\ file.schema = "arsenal/repository-recon-findings/v0"
    /\ \A id \in DOMAIN file.findings : id # "" /\ FindingsValid(file.findings[id])

\* The first of some places of a list.
Earliest(places) == CHOOSE i \in places : \A j \in places : i <= j

\* The first case loaded whose repository is at the path.
CaseAt(cases, path) == cases[Earliest({ i \in DOMAIN cases : cases[i].path = path })].id

-----------------------------------------------------------------------------
(* The comparison.                                                         *)

\* Where the findings are that an assertion is compared with: presence and absence
\* take any finding of the path, capability_identity its own.
Matching(assertion, findings) ==
    { i \in DOMAIN findings :
        /\ findings[i].evidence = assertion.evidence
        /\ \/ assertion.kind \in {"presence", "absence"}
           \/ assertion.kind = "capability_identity" /\ findings[i].kind = "capability_identity" }

\* An expected field that is not stated is not compared.
CapabilityMatches(actual, expected) ==
    \A field \in DOMAIN expected : actual[field] = expected[field]

Judge(assertion, actual) ==
    CASE assertion.kind = "presence" -> IF actual = Yes THEN "SUCCESS" ELSE "MISS"
      [] assertion.kind = "absence" -> IF actual = No THEN "SUCCESS" ELSE "MISS"
      [] assertion.kind = "capability_identity" ->
            IF ~IsCapability(actual) THEN "FAILURE"
            ELSE IF CapabilityMatches(actual, assertion.expected) THEN "SUCCESS" ELSE "MISS"

\* MUTANT of Outcome: what the procedure does not speak of is absent.
OutcomeSilenceIsAbsence(assertion, findings) ==
    LET matches == Matching(assertion, findings) IN
    IF assertion.evidence = "" THEN "FAILURE"
    ELSE IF matches # {} THEN Judge(assertion, findings[Earliest(matches)].actual)
    ELSE IF assertion.kind = "absence" THEN "SUCCESS" ELSE "FAILURE"

\* No finding is a failure, never a success.
Outcome(assertion, findings) ==
    LET matches == Matching(assertion, findings) IN
    IF assertion.evidence = "" \/ matches = {} THEN "FAILURE"
    ELSE Judge(assertion, findings[Earliest(matches)].actual)

With(assertions, findings, outcome) ==
    { a.id : a \in { x \in ToSet(assertions) : Outcome(x, findings) = outcome } }

\* Unknowns and unsupported claims are the case's own, reported as they are.
CaseResult(case, findings) ==
    [case_id |-> case.id, context |-> case.context, repo |-> case.path,
     successes |-> With(case.expected.assertions, findings, "SUCCESS"),
     misses |-> With(case.expected.assertions, findings, "MISS"),
     failures |-> With(case.expected.assertions, findings, "FAILURE"),
     unknowns |-> case.expected.unknowns,
     unsupported |-> case.expected.unsupported]
=============================================================================
