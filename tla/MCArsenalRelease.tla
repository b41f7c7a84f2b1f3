--------------------------- MODULE MCArsenalRelease ---------------------------
(***************************************************************************)
(* One capability exported to one package, with a rule of every kind: two  *)
(* resources (one loaded always), a suite whose twelve structural cases    *)
(* gate candidate and whose behavioral case gates qualified, and edits to  *)
(* a document with other authority, no notes and a body over the suite's   *)
(* policy.                                                                 *)
(***************************************************************************)
EXTENDS ArsenalRelease

Out == <<"distribution", "agent-skills", "truth">>
Out2 == <<"distribution", "agent-skills", "plan">>

MCTargets == [t \in {"agent-skills"} |->
                 [adapter_version |-> "1", invocation_support |-> {"agent", "composed"}]]
MCRegistry == [a \in {"workflow", "notes"} |-> [path |-> a, name |-> a]]
MCRoutes == [k \in {"feature", "iac", "provider-proof"} |->
    [providers |-> IF k = "iac" THEN {"aws"} ELSE {"aws", "azure"},
     primary |-> k, escalation_required |-> k = "provider-proof"]]
MCLocalSuiteAsset == "local-cloud"

Small == [text |-> "small", size |-> 1]
Large == [text |-> "large", size |-> 4]
MCContents == {Small, Large}

Doc(version, allowed, size, invocation) ==
    [id |-> "truth", version |-> version, lifecycle |-> "draft", evaluation |-> "unassessed",
     suite_asset_ids |-> {}, invocation |-> invocation,
     use_when |-> {"inherit"}, do_not_use_when |-> {"implement"},
     authority |-> [required |-> {"read"}, optional |-> {}, forbidden |-> {"git.write"}],
     execution |-> [preferred |-> {"read"}, allowed |-> allowed, prohibited |-> {"production"}],
     mutation |-> [class |-> "read-only", reversible |-> TRUE],
     primary_asset |-> "workflow", size |-> size,
     resources |-> << [asset_id |-> "workflow", role |-> "reference", load |-> "on-demand"],
                      [asset_id |-> "notes", role |-> "instructions", load |-> "always"] >>]

Doc1 == Doc(1, {"read"}, 1, "agent")
Doc2 == [Doc(2, {"read", "local"}, 9, "agent") EXCEPT !.resources = <<>>]
MCDocuments == {Doc1, Doc2, Doc(1, {"read"}, 1, "human")}

\* A second capability that is never exported.
PlanDoc == [Doc(1, {"read"}, 1, "agent") EXCEPT !.id = "plan", !.authority.required = {"write"}]

Structural(check, axis) ==
    [id |-> check, track |-> "distribution-qualification", capability_id |-> "truth",
     active |-> TRUE, status |-> "executable", mode |-> "distribution-structural",
     check |-> check, axis |-> axis, required_checks |-> <<"verifier_independent">>,
     distribution_path |-> Out, body_max |-> 5]

Checks == <<"structural-discovery-preservation", "structural-discovery-exclusion",
            "manifest-capability-identity", "manifest-mutation", "manifest-authority",
            "manifest-execution", "manifest-invocation", "skill-body-size",
            "bundle-reference-count", "always-loaded-size-policy",
            "package-digest-binding", "manifest-suite-alignment">>

Behavioral ==
    [Structural("behavioral", "behavioral_efficacy") EXCEPT
        !.active = FALSE, !.status = "designed-not-run", !.mode = "distribution-behavioral"]

SuiteOf(checks) ==
    [id |-> "dq", track |-> "distribution-qualification", capability_id |-> "truth",
     target |-> "agent-skills", adapter_version |-> "1",
     cases |-> [i \in DOMAIN checks |-> Structural(checks[i], "boundary_preservation")]
                 \o <<Behavioral>>,
     qualification_gate |-> [candidate_minimum_executed_cases |-> 1,
                             candidate_required_case_ids |-> checks,
                             qualified_required_case_ids |-> <<"behavioral">>]]

\* The suite with every check, and the same suite without its size policy.
FullSuite == SuiteOf(Checks)
ShortSuite == SuiteOf(SelectSeq(Checks, LAMBDA c : c # "skill-body-size"))

\* A suite validation refuses: its behavioral case is active and would pass.
EagerSuite ==
    [FullSuite EXCEPT
        !.cases = << Structural("skill-body-size", "context_efficiency"),
                     Structural("manifest-authority", "behavioral_efficacy") >>,
        !.qualification_gate.candidate_required_case_ids = <<"skill-body-size">>,
        !.qualification_gate.qualified_required_case_ids = <<"manifest-authority">>]
MCSuiteSets == {{FullSuite}, {ShortSuite}, {EagerSuite}}

Export == [capability_id |-> "truth", target |-> "agent-skills", adapter_version |-> "1",
           package_name |-> "truth", output_path |-> Out, qualification_suite_id |-> "dq",
           description |-> {"Use when", "audit"}]

Plan(e) == [versions_match |-> TRUE, exports |-> <<e>>]
MCPlans == {Plan(Export), Plan([Export EXCEPT !.output_path = Out2, !.package_name = "plan"]),
            [versions_match |-> FALSE, exports |-> <<Export>>]}
MCProjects == {[present |-> TRUE, enabled |-> {}], [present |-> TRUE, enabled |-> {"agent-skills"}]}

MCInitialTree ==
    [caps |-> [p \in {"truth.json", "plan.json"} |-> IF p = "truth.json" THEN Doc1 ELSE PlanDoc],
     sources |-> [p \in {"workflow", "notes"} |-> Small],
     suites |-> {FullSuite}, plan |-> Plan(Export),
     project |-> [present |-> FALSE, enabled |-> {}]]

-----------------------------------------------------------------------------
(* An audit route of one capability and a delivery route that needs both.  *)

Step(id, after) == [capability_id |-> id, after |-> after, minimum_version |-> 1,
                    minimum_lifecycle |-> "draft", minimum_evaluation |-> "unassessed"]
MCGraph ==
    [profiles |-> [p \in {"read-only", "workspace-safe"} |->
                      IF p = "read-only" THEN {"read"} ELSE {"read", "write"}],
     routes |-> [r \in {"audit", "delivery"} |->
        IF r = "audit" THEN [default_profile |-> "read-only", steps |-> <<Step("truth", {})>>]
        ELSE [default_profile |-> "workspace-safe",
              steps |-> <<Step("truth", {}), Step("plan", {"truth"})>>]]]

Request(route, inventory) ==
    [route |-> route, inventory |-> inventory, authority_profile |-> Unset, omitted |-> {},
     minimum_lifecycle |-> Unset, minimum_evaluation |-> Unset]
MCRequests ==
    { Request(route, inventory) : route \in {"audit", "delivery"}, inventory \in {"canonical", "lock"} }
    \cup { [Request("audit", "lock") EXCEPT !.minimum_lifecycle = "testing"],
           [Request("audit", "canonical") EXCEPT !.minimum_evaluation = "candidate"],
           [Request("delivery", "canonical") EXCEPT !.authority_profile = "read-only"] }

\* The verdicts on the initial tree, with an empty lock.
ASSUME PreflightVerdicts ==
    /\ Preflight(MCInitialTree, <<>>, Request("delivery", "canonical")) = "READY"
    /\ Preflight(MCInitialTree, <<>>, Request("delivery", "lock")) = "CAPABILITY_GAP"
    /\ Preflight(MCInitialTree, <<>>, [Request("delivery", "canonical") EXCEPT
                                          !.authority_profile = "read-only"]) = "AUTHORITY_GAP"
    /\ Preflight(MCInitialTree, <<>>, [Request("audit", "canonical") EXCEPT
                                          !.minimum_lifecycle = "testing"]) = "QUALIFICATION_GAP"

-----------------------------------------------------------------------------
(* The local-cloud track's five executable cases, as the suite declares    *)
(* them, against the router.                                               *)

RouterCase(id, task, rc, provider, confidence, expected, checks) ==
    [id |-> id, track |-> "local-cloud", capability_id |-> "delivery", active |-> TRUE,
     status |-> "executable", mode |-> "local-cloud-router", check |-> "none", axis |-> "none",
     task_kind |-> task, remote_denied |-> TRUE, required_checks |-> checks,
     fixture |-> [inline |-> TRUE,
                  detected |-> [rc |-> rc, provider |-> provider, confidence |-> confidence]],
     expected |-> expected]

Deny == <<"starting_state_reproducible", "expected_outcome_explicit",
          "verifier_independent", "no_remote_credentials">>

LocalSuite ==
    [id |-> "local", track |-> "local-cloud", capability_id |-> "delivery",
     cases |-> <<
       RouterCase("aws", "feature", 0, "aws", "EXACT",
                  [rc |-> 0, status |-> "ROUTED", provider |-> "aws", primary |-> "feature"], Deny),
       RouterCase("azure", "feature", 0, "azure", "EXACT",
                  [rc |-> 0, status |-> "ROUTED", provider |-> "azure", primary |-> "feature"], Deny),
       RouterCase("ambiguous", "feature", 3, "none", "AMBIGUOUS",
                  [rc |-> 3, status |-> "AMBIGUOUS", provider |-> "none", primary |-> "none"],
                  Append(Deny, "failure_reachable")),
       RouterCase("azure-iac", "iac", 0, "azure", "EXACT",
                  [rc |-> 5, status |-> "UNSUPPORTED_ROUTE", provider |-> "azure",
                   primary |-> "none", boundary |-> "local-capability-gap"],
                  Append(Deny, "failure_reachable")),
       RouterCase("proof", "provider-proof", 0, "aws", "EXACT",
                  [rc |-> 0, status |-> "ESCALATION_REVIEW", provider |-> "aws",
                   boundary |-> "explicit-provider-review"], Deny) >>,
     lifecycle_gate |-> [target_lifecycle |-> "testing", minimum_executed_cases |-> 5,
                         required_case_ids |-> <<"aws", "azure", "ambiguous", "azure-iac", "proof">>]]

Delivery == [lifecycle |-> "testing", evaluation |-> "candidate",
             suite_asset_ids |-> {MCLocalSuiteAsset}]

ASSUME LocalSuiteEarnsTesting ==
    /\ SuitesValid({LocalSuite, FullSuite})
    /\ RunOf(LocalSuite).verdict = "PASS"
    /\ LifecycleEarned({LocalSuite}, Delivery, RunOf(LocalSuite))
=============================================================================
