----------------------------- MODULE ArsenalBench -----------------------------
(***************************************************************************)
(* Arsenal Bench: which evaluation suites are valid, what one case         *)
(* observes of a checked-in package or of the local-cloud router, and what *)
(* a receipt concludes from the results.  A case of the distribution       *)
(* track expects every boolean it observes to be true, as those of both    *)
(* checked-in suites do, so an observation is the conjunction of them.     *)
(***************************************************************************)
EXTENDS ArsenalCompile

CONSTANTS
    Routes,     \* the router's table: task kind -> [providers, primary, escalation_required]
    LocalSuiteAsset

-----------------------------------------------------------------------------
(* Valid suites.                                                           *)

DistributionAxes ==
    {"activation", "behavioral_efficacy", "boundary_preservation", "context_efficiency"}
DistributionModes ==
    {"distribution-structural", "distribution-collision", "distribution-behavioral"}
ExecutionModes == {"agent-control-treatment", "local-cloud-router", "local-cloud-runtime"}
HealthChecks ==
    {"starting_state_reproducible", "failure_reachable", "success_reachable",
     "acceptance_observable", "expected_outcome_explicit", "solution_not_leaked",
     "verifier_independent", "no_remote_credentials"}
StructuralChecks ==
    {"structural-discovery-preservation", "structural-discovery-exclusion",
     "manifest-capability-identity", "manifest-mutation", "manifest-authority",
     "manifest-execution", "manifest-invocation", "skill-body-size",
     "bundle-reference-count", "always-loaded-size-policy",
     "package-digest-binding", "manifest-suite-alignment"}

\* An active case is executable in a mode v0 runs; any other stays designed-not-run.
ExecutionValid(c) ==
    /\ c.mode \in ExecutionModes \cup DistributionModes
    /\ IF c.active
       THEN /\ c.status = "executable"
            /\ c.mode \in {"local-cloud-router"} \cup DistributionModes
            /\ c.mode = "distribution-structural" => c.check \in StructuralChecks
       ELSE c.status = "designed-not-run"

\* MUTANT of CaseValid: a behavioral case may be active.
CaseValidBehavioral(c) ==
    /\ ExecutionValid(c)
    /\ c.track = "distribution-qualification" => c.axis \in DistributionAxes
    /\ Range(c.required_checks) \subseteq HealthChecks

CaseValid(c) ==
    /\ ExecutionValid(c)
    /\ c.track = "distribution-qualification" =>
          /\ c.axis \in DistributionAxes
          /\ ~(c.active /\ c.axis = "behavioral_efficacy")
    /\ c.required_checks # <<>>
    /\ IsInjective(c.required_checks)
    /\ Range(c.required_checks) \subseteq HealthChecks

CaseIds(cases) == { cases[i].id : i \in DOMAIN cases }
CaseNamed(cases, id) == CHOOSE c \in Range(cases) : c.id = id
Runnable(c) == c.active /\ c.status = "executable"

\* The gate of a local-cloud suite.
LifecycleGateValid(s) ==
    LET required == s.lifecycle_gate.required_case_ids IN
    /\ s.lifecycle_gate.target_lifecycle = "testing"
    /\ s.lifecycle_gate.minimum_executed_cases \in 1 .. Len(required)
    /\ required # <<>>
    /\ IsInjective(required)
    /\ \A id \in Range(required) : /\ id \in CaseIds(s.cases)
                                   /\ Runnable(CaseNamed(s.cases, id))

\* The gate of a distribution suite.
QualificationGateValid(s) ==
    LET gate == s.qualification_gate
        candidate == gate.candidate_required_case_ids
        qualified == gate.qualified_required_case_ids
    IN  /\ candidate # <<>>
        /\ qualified # <<>>
        /\ IsInjective(candidate)
        /\ IsInjective(qualified)
        /\ gate.candidate_minimum_executed_cases \in 1 .. Len(candidate)
        /\ \A id \in Range(candidate) : /\ id \in CaseIds(s.cases)
                                        /\ Runnable(CaseNamed(s.cases, id))
        /\ \A id \in Range(qualified) :
              /\ id \in CaseIds(s.cases)
              /\ CaseNamed(s.cases, id).axis = "behavioral_efficacy"

SuiteValid(s) ==
    /\ s.cases # <<>>
    /\ \A i, j \in DOMAIN s.cases : s.cases[i].id = s.cases[j].id => i = j
    /\ \A c \in Range(s.cases) : /\ CaseValid(c)
                                 /\ c.track = s.track
    /\ s.track = "distribution-qualification" =>
          /\ \A c \in Range(s.cases) : c.capability_id = s.capability_id
          /\ QualificationGateValid(s)
    /\ "lifecycle_gate" \in DOMAIN s => LifecycleGateValid(s)

\* The counts of the core and local tracks (8 and 11) are fixed numbers of this
\* repository and are left out; ids are unique across suites.
SuitesValid(suites) ==
    /\ \A s \in suites : SuiteValid(s)
    /\ \A s, r \in suites :
          s # r => s.id # r.id /\ CaseIds(s.cases) \cap CaseIds(r.cases) = {}
    /\ \E s \in suites : s.track = "distribution-qualification"

-----------------------------------------------------------------------------
(* The twelve observations of a package.  t is the tree, files the package *)
(* and m its manifest.                                                     *)

Canonical(t, m) == t.caps[m.source.capability_path]

\* Every canonical statement appears in the generated body.
DiscoveryPreserved(t, m, skill) == Canonical(t, m).use_when \subseteq skill.use_when

\* ... and so does every exclusion; the request of both suites overlaps any
\* exclusion, so the other key asks only that there is one.
ExclusionsPreserved(t, m, skill) ==
    /\ Canonical(t, m).do_not_use_when \subseteq skill.do_not_use_when
    /\ Canonical(t, m).do_not_use_when # {}

IdentityMatches(t, m) ==
    LET d == Canonical(t, m) IN
    /\ m.capability.id = d.id
    /\ m.capability.version = d.version
    /\ m.source.capability_sha256 = d
    /\ m.source.primary_asset_id = d.primary_asset

WriteTokens == {"filesystem.write", "network.write", "git.write", "tracker.write",
                "cloud.local", "cloud.remote", "production.mutate"}

MutationMatches(t, m) ==
    LET d == Canonical(t, m)
        written == m.authority.required \cap WriteTokens
    IN  /\ m.mutation = d.mutation
        /\ IF m.mutation.class = "read-only" THEN written = {}
           ELSE written \subseteq d.authority.required

AuthorityMatches(t, m) ==
    LET d == Canonical(t, m)
        tokens(a) == a.required \cup a.optional \cup a.forbidden
    IN  /\ m.authority = d.authority
        /\ tokens(m.authority) \subseteq tokens(d.authority)
        /\ d.authority.forbidden \subseteq m.authority.forbidden

ExecutionMatches(t, m) ==
    LET d == Canonical(t, m) IN
    /\ m.execution = d.execution
    /\ m.execution.preferred \subseteq m.execution.allowed
    /\ m.execution.allowed \cap m.execution.prohibited = {}

InvocationMatches(t, m, skill) ==
    LET d == Canonical(t, m) IN
    /\ m.invocation = d.invocation
    /\ skill.invocation = d.invocation
    /\ m.compiler.target = "agent-skills"
    /\ d.invocation # "human"

BodyWithinPolicy(c, skill) == skill.size <= c.body_max

BundleMatches(m, files) ==
    LET packaged == DOMAIN files \ {SkillFile, ManifestFile}
        declared == { r.path : r \in m.resource_digests }
    IN  /\ \E p \in packaged : p[1] = "references"
        /\ declared = packaged

\* An always-loaded resource whose bytes are not the declared ones, or are not
\* there, raises and ends the run (ObservationRaises).
AlwaysLoadedDigests(m) ==
    { g \in m.resource_digests :
        \E r \in Range(m.resources) : /\ r.asset_id = g.asset_id
                                      /\ r.role = "instructions"
                                      /\ r.load = "always" }

AlwaysLoadedWithinPolicy(m, files) ==
    LET policy == m.always_loaded_policy
        actual == [a \in { g.asset_id : g \in AlwaysLoadedDigests(m) } |->
                      files[(CHOOSE g \in AlwaysLoadedDigests(m) : g.asset_id = a).path].size]
    IN  /\ \A a \in DOMAIN actual : actual[a] <= policy.soft_limit_bytes
        /\ Total(actual) <= policy.soft_limit_bytes
        /\ policy.per_resource_bytes = actual
        /\ policy.total_bytes = Total(actual)
        /\ policy.soft_limit_bytes = SoftLimit

PackageDigestMatches(m, files) ==
    m.package.content_sha256 = [p \in DOMAIN files \ {ManifestFile} |-> files[p]]

SuiteAligned(m, s) == m.capability.id = s.capability_id

ObservationRaises(c, files) ==
    \/ ManifestFile \notin DOMAIN files
    \/ SkillFile \notin DOMAIN files
    \/ /\ c.check = "always-loaded-size-policy"
       /\ \E g \in AlwaysLoadedDigests(files[ManifestFile]) :
             g.path \notin DOMAIN files \/ files[g.path] # g.sha256

\* run_distribution_structural: the verdict of one case on the package at its path.
CasePasses(t, s, c, files) ==
    LET m == files[ManifestFile]
        skill == files[SkillFile]
    IN  CASE c.check = "structural-discovery-preservation" -> DiscoveryPreserved(t, m, skill)
          [] c.check = "structural-discovery-exclusion" -> ExclusionsPreserved(t, m, skill)
          [] c.check = "manifest-capability-identity" -> IdentityMatches(t, m)
          [] c.check = "manifest-mutation" -> MutationMatches(t, m)
          [] c.check = "manifest-authority" -> AuthorityMatches(t, m)
          [] c.check = "manifest-execution" -> ExecutionMatches(t, m)
          [] c.check = "manifest-invocation" -> InvocationMatches(t, m, skill)
          [] c.check = "skill-body-size" -> BodyWithinPolicy(c, skill)
          [] c.check = "bundle-reference-count" -> BundleMatches(m, files)
          [] c.check = "always-loaded-size-policy" -> AlwaysLoadedWithinPolicy(m, files)
          [] c.check = "package-digest-binding" -> PackageDigestMatches(m, files)
          [] c.check = "manifest-suite-alignment" -> SuiteAligned(m, s)

-----------------------------------------------------------------------------
(* Receipts.                                                               *)

ActiveCases(s) == SelectSeq(s.cases, LAMBDA c : c.active)

Passed(results) == { id \in DOMAIN results : results[id] = "PASS" }

\* results: case id -> "PASS" or "FAIL", for the cases that were executed.
QualificationStatus(s, results) ==
    LET gate == s.qualification_gate
        candidate == Range(gate.candidate_required_case_ids) \subseteq Passed(results)
    IN  IF candidate /\ Range(gate.qualified_required_case_ids) \subseteq Passed(results)
        THEN "qualified"
        ELSE IF candidate THEN "candidate" ELSE "unassessed"

\* Computed after the cases ran, from what is then on disk; the path is that of
\* the first active case, the capability the one the suite names.
\* Digests of a manifest that is not there are null, which no digest equals.
NoDigest == [absent |-> TRUE]

Binding(t, s, disk) ==
    LET path == ActiveCases(s)[1].distribution_path
        files == FilesAt(disk, path)
        present == ManifestFile \in DOMAIN files
    IN  [distribution_path |-> path,
         manifest_sha256 |-> IF present THEN files[ManifestFile] ELSE NoDigest,
         package_content_sha256 |->
             IF present THEN files[ManifestFile].package.content_sha256 ELSE NoDigest,
         capability_sha256 |-> t.caps[CapabilityPath(t, s.capability_id)]]

\* What a run of the suite's active cases against the disk finds, when none raises.
Rerun(t, s, disk) ==
    [id \in CaseIds(ActiveCases(s)) |->
        LET c == CaseNamed(s.cases, id) IN
        IF CasePasses(t, s, c, FilesAt(disk, c.distribution_path)) THEN "PASS" ELSE "FAIL"]

-----------------------------------------------------------------------------
(* The local-cloud track.                                                  *)

\* The router, after the provider resolver (detected: rc, provider, confidence).
RouteOf(task, detected) ==
    LET route == Routes[task] IN
    IF detected.rc \in {3, 4}
    THEN [rc |-> detected.rc, status |-> detected.confidence, provider |-> "none",
          primary |-> "none", boundary |-> "unresolved"]
    ELSE IF detected.provider \notin route.providers
    THEN [rc |-> 5, status |-> "UNSUPPORTED_ROUTE", provider |-> detected.provider,
          primary |-> "none", boundary |-> "local-capability-gap"]
    ELSE [rc |-> 0, provider |-> detected.provider, primary |-> route.primary,
          status |-> IF route.escalation_required THEN "ESCALATION_REVIEW" ELSE "ROUTED",
          boundary |-> IF route.escalation_required THEN "explicit-provider-review"
                       ELSE "local-first"]

\* What the v0 adapter can establish of a case's health.
HealthCheckPasses(c, check) ==
    CASE check = "starting_state_reproducible" -> c.fixture.inline
      [] check = "failure_reachable" ->
            c.expected.rc # 0 \/ c.expected.status \in {"AMBIGUOUS", "UNKNOWN", "UNSUPPORTED_ROUTE"}
      [] check = "expected_outcome_explicit" -> TRUE
      [] check = "verifier_independent" -> TRUE
      [] check = "no_remote_credentials" -> c.remote_denied
      [] OTHER -> FALSE

Healthy(c) == \A check \in Range(c.required_checks) : HealthCheckPasses(c, check)

RouterCasePasses(c) ==
    LET actual == RouteOf(c.task_kind, c.fixture.detected) IN
    /\ \A field \in DOMAIN c.expected : actual[field] = c.expected[field]
    /\ Healthy(c)

\* build_receipt over the results of the active cases.
RunReceipt(s, results) ==
    [suite_id |-> s.id, results |-> results,
     verdict |-> IF /\ \A id \in DOMAIN results : results[id] = "PASS"
                    /\ DOMAIN results = CaseIds(ActiveCases(s))
                 THEN "PASS" ELSE "FAIL"]

RunOf(s) ==
    RunReceipt(s, [id \in CaseIds(ActiveCases(s)) |->
                      IF RouterCasePasses(CaseNamed(s.cases, id)) THEN "PASS" ELSE "FAIL"])

\* validate_lifecycle: what a receipt earns a capability.
LifecycleEarned(suites, d, receipt) ==
    \E s \in suites :
        /\ s.id = receipt.suite_id
        /\ "lifecycle_gate" \in DOMAIN s
        /\ d.lifecycle = "testing"
        /\ d.evaluation \in {"candidate", "qualified"}
        /\ LocalSuiteAsset \in d.suite_asset_ids
        /\ receipt.verdict = "PASS"
        /\ Cardinality(DOMAIN receipt.results) >= s.lifecycle_gate.minimum_executed_cases
        /\ \A id \in Range(s.lifecycle_gate.required_case_ids) :
              id \in DOMAIN receipt.results /\ receipt.results[id] = "PASS"
=============================================================================
