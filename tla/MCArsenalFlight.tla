---------------------------- MODULE MCArsenalFlight ----------------------------
(***************************************************************************)
(* One world of one capability, two runners, and the edits that matter: a  *)
(* fixture that changes or stops behaving, a manifest that pins one file   *)
(* three times, a capability that moves on, grants that shrink, and        *)
(* catalogs that are invalid or put another substrate below the container. *)
(***************************************************************************)
EXTENDS ArsenalFlight, TLC

CONSTANTS r1, r2

Manifest ==
    [id |-> "world.tdd", version |-> "0.1.0", dagger_version |-> "0.21.7",
     substrate_id |-> "substrate.local-container", reality_rank |-> 1,
     capability_id |-> "capability.tdd", capability_version |-> "0.1.0",
     verification_requirements |-> <<"red_observed", "green_observed">>,
     authority_profile |-> "workspace-safe", availability_profile |-> "container-local",
     additional_required_traits |-> {"container-runtime"},
     image |-> "3.12.11", needs |-> {},
     raw_receipt_path |-> "raw.json", receipt_path |-> "receipt.json",
     host_writes |-> <<"raw.json", "receipt.json">>,
     definition_inputs |-> <<"manifest", "script", "fixture">>]

Script == [from |-> "3.12.11", export |-> "raw.json"]
Fixture == [tests |-> "t1", red_exit_code |-> 1, green_exit_code |-> 0]

MCPack == [manifest |-> Manifest, script |-> Script, fixture |-> Fixture]
MCPacks ==
    {MCPack,
     [MCPack EXCEPT !.fixture.tests = "t2"],
     [MCPack EXCEPT !.fixture.green_exit_code = 1],
     [MCPack EXCEPT !.manifest.definition_inputs = <<"manifest", "manifest", "script">>]}

Process ==
    [id |-> "substrate.local-process", reality_rank |-> 0, execution_surface |-> "local-process",
     selection_mode |-> "automatic", required_authority |-> {"shell.execute"},
     isolation |-> "process", reproducibility |-> "resettable",
     traits |-> {"behavior-observation", "repeatable-test"},
     escalation_to |-> "substrate.local-container"]
Container ==
    [id |-> "substrate.local-container", reality_rank |-> 1, execution_surface |-> "local-container",
     selection_mode |-> "automatic", required_authority |-> {"shell.execute"},
     isolation |-> "container", reproducibility |-> "resettable",
     traits |-> {"behavior-observation", "repeatable-test", "container-runtime"},
     escalation_to |-> "substrate.remote-disposable"]
Remote ==
    [id |-> "substrate.remote-disposable", reality_rank |-> 2, execution_surface |-> "remote-sandbox",
     selection_mode |-> "explicit-only", required_authority |-> {"cloud.remote"},
     isolation |-> "disposable", reproducibility |-> "resettable",
     traits |-> {"behavior-observation", "repeatable-test", "container-runtime", "provider-iam"},
     escalation_to |-> "none"]

Catalog ==
    [isolation_strength |-> [none |-> 0, process |-> 1, container |-> 2, disposable |-> 3],
     substrates |-> <<Remote, Container, Process>>,
     availability_profiles |->
        [i \in {"minimal-local", "container-local"} |->
            IF i = "minimal-local" THEN {"substrate.local-process"}
            ELSE {"substrate.local-process", "substrate.local-container"}]]

Binding(id, req) ==
    [id |-> id, capability_id |-> "capability.tdd", verification_requirement_id |-> req,
     required_traits |-> {"behavior-observation", "repeatable-test"},
     minimum_isolation |-> "process", minimum_reproducibility |-> "resettable"]

Tdd ==
    [version |-> "0.1.0", required_authority |-> {"filesystem.write", "shell.execute"},
     allowed |-> {"local-process", "local-container", "remote-sandbox"}, prohibited |-> {"remote-sandbox"},
     requirements |-> {"red_observed", "green_observed"}]

MCPolicy ==
    [catalog |-> Catalog,
     proof |-> <<Binding("proof.red", "red_observed"), Binding("proof.green", "green_observed")>>,
     capabilities |-> ("capability.tdd" :> Tdd),
     graph |-> ("workspace-safe" :> {"filesystem.write", "shell.execute"})]
MCPolicies ==
    {MCPolicy,
     [MCPolicy EXCEPT !.capabilities["capability.tdd"].version = "0.2.0"],
     [MCPolicy EXCEPT !.graph["workspace-safe"] = {"shell.execute"}],
     \* One requirement needs a real provider, everything is granted and nothing prohibited.
     [MCPolicy EXCEPT !.graph["workspace-safe"] = Authority,
                      !.capabilities["capability.tdd"].prohibited = {},
                      !.proof[1].required_traits = {"provider-iam"},
                      !.proof[2].minimum_reproducibility = "deterministic"],
     \* The process proves what the container proves.
     [MCPolicy EXCEPT !.catalog.substrates[3].traits = Container.traits],
     \* An automatic remote sandbox: the catalog is invalid.
     [MCPolicy EXCEPT !.catalog.substrates[1].selection_mode = "automatic",
                      !.catalog.availability_profiles["container-local"] = @ \cup {Remote.id}]}

BenchReceipt(verdict, sha) ==
    [kind |-> "bench", suite_id |-> "suite.tdd", verdict |-> verdict, repository_sha |-> sha,
     capability |-> [id |-> "capability.tdd", version |-> "0.1.0"],
     model |-> "not-applicable", remote_credentials_used |-> FALSE]
MCBench == BenchReceipt("PASS", "sha1")
MCBenches == {MCBench, BenchReceipt("FAIL", "unknown")}

Symmetry == Permutations(Runners)
================================================================================
