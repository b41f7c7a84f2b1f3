----------------------------- MODULE ArsenalWorld -----------------------------
(***************************************************************************)
(* scripts/arsenal_dagger.py and the program it runs in the container,     *)
(* run_world.py: what a world manifest must say, the proof gate in front   *)
(* of the container, the raw receipt the container writes and the receipt  *)
(* composed of both.                                                       *)
(*                                                                         *)
(* A pack is the directory a world runs from: [manifest, script, fixture]. *)
(* A digest is the value digested.  Version formats, the identity of the   *)
(* adapter and the texts of limitations and claims are left out.           *)
(***************************************************************************)
EXTENDS ArsenalSubstrate

NoFile == [kind |-> "no file"]

-----------------------------------------------------------------------------
(* The manifest.                                                           *)

\* hash_files: the digest of the parts of the pack the manifest names.
DefinitionDigest(pack, inputs) == [part \in Range(inputs) |-> pack[part]]

CapabilityAgrees(world, policy) ==
    /\ world.capability_id \in DOMAIN policy.capabilities
    /\ LET cap == policy.capabilities[world.capability_id] IN
       /\ cap.version = world.capability_version
       /\ world.verification_requirements # <<>>
       /\ Range(world.verification_requirements) \subseteq cap.requirements
       /\ "local-container" \in cap.allowed \ cap.prohibited

\* The catalog is only looked up here; it is the selector that validates it.
SubstrateAgrees(world, policy) ==
    /\ world.substrate_id \in Ids(policy.catalog)
    /\ LET s == Named(policy.catalog, world.substrate_id) IN
       /\ s.reality_rank = world.reality_rank
       /\ s.execution_surface = "local-container"
       /\ s.selection_mode = "automatic"
       /\ "container-runtime" \in s.traits

BudgetAgrees(world) ==
    /\ world.authority_profile = "workspace-safe"
    /\ world.availability_profile = "container-local"
    /\ world.additional_required_traits = {"container-runtime"}

\* No network, no secrets, and only the two receipts are written on the host.
BoundaryAgrees(world) ==
    /\ world.image # "latest"
    /\ world.needs = {}
    /\ world.raw_receipt_path # world.receipt_path
    /\ world.host_writes = <<world.raw_receipt_path, world.receipt_path>>

ScriptAgrees(world, script) == script.from = world.image /\ script.export = world.raw_receipt_path

\* Three inputs must be declared; that they are three different ones is not asked.
InputsExist(world, pack) ==
    /\ Len(world.definition_inputs) >= 3
    /\ Range(world.definition_inputs) \subseteq DOMAIN pack

\* validate_manifest.
ManifestAccepted(pack, policy) ==
    LET world == pack.manifest IN
    /\ CapabilityAgrees(world, policy)
    /\ SubstrateAgrees(world, policy)
    /\ BudgetAgrees(world)
    /\ BoundaryAgrees(world)
    /\ InputsExist(world, pack)
    /\ ScriptAgrees(world, pack.script)

\* What validate_manifest returns to its caller.
Context(pack) ==
    [world |-> pack.manifest,
     definition_digest |-> DefinitionDigest(pack, pack.manifest.definition_inputs)]

-----------------------------------------------------------------------------
(* The proof gate.                                                         *)

Request(world, requirement) ==
    [capability |-> world.capability_id, requirement |-> requirement,
     authority_profile |-> world.authority_profile,
     availability_profile |-> world.availability_profile,
     extra_traits |-> world.additional_required_traits, omitted |-> {}]

\* validate_selection_report.
ReportAccepted(world, report) ==
    /\ report.verdict = "SELECTED"
    /\ report.selected = [id |-> world.substrate_id, reality_rank |-> world.reality_rank]

Reports(world, policy) ==
    [i \in DOMAIN world.verification_requirements |->
        Select(policy, Request(world, world.verification_requirements[i]))]

\* reality_budget_reports gives an answer: every selector call exits 0 with the declared substrate.
GateOpen(world, policy) ==
    \A requirement \in Range(world.verification_requirements) :
        /\ SelectExit(policy, Request(world, requirement)) = 0
        /\ ReportAccepted(world, Select(policy, Request(world, requirement)))

-----------------------------------------------------------------------------
(* The receipts.                                                           *)

\* run_case: the exit code of one case's tests.
CaseExit(pack, name) ==
    IF name = "red" THEN pack.fixture.red_exit_code ELSE pack.fixture.green_exit_code

\* run_world.py reaches its end: the red case failed and the green case passed for the same test.
CasesBehave(pack) == CaseExit(pack, "red") # 0 /\ CaseExit(pack, "green") = 0

\* tree_digest: the container's own digest of the parts of the pack it has mounted.
TreeDigest(pack, inputs) == [part \in Range(inputs) |-> pack[part]]

\* What run_world.py writes about the pack it was given.
RawReceipt(pack) ==
    LET world == pack.manifest IN
    [kind |-> "dagger-world-evidence",
     world |-> [id |-> world.id, version |-> world.version],
     definition_digest |-> TreeDigest(pack, world.definition_inputs),
     expected_version |-> world.dagger_version,
     substrate |-> [id |-> world.substrate_id, reality_rank |-> world.reality_rank],
     capability |-> [id |-> world.capability_id, version |-> world.capability_version],
     verification_requirements |-> world.verification_requirements,
     image |-> world.image,
     needs |-> world.needs,
     host_writes |-> world.host_writes,
     red_exit_code |-> CaseExit(pack, "red"),
     green_exit_code |-> CaseExit(pack, "green")]

\* MUTANT of WorldReceiptVerified: the definition digest is not compared.
WorldReceiptVerifiedLoosely(context, receipt) ==
    LET world == context.world IN
    /\ receipt.kind = "dagger-world-evidence"
    /\ receipt.world = [id |-> world.id, version |-> world.version]
    /\ receipt.red_exit_code # 0
    /\ receipt.green_exit_code = 0

\* verify_world_receipt.
WorldReceiptVerified(context, receipt) ==
    LET world == context.world IN
    /\ receipt.kind = "dagger-world-evidence"
    /\ receipt.world = [id |-> world.id, version |-> world.version]
    /\ receipt.definition_digest = context.definition_digest
    /\ receipt.expected_version = world.dagger_version
    /\ receipt.substrate = [id |-> world.substrate_id, reality_rank |-> world.reality_rank]
    /\ receipt.capability = [id |-> world.capability_id, version |-> world.capability_version]
    /\ receipt.verification_requirements = world.verification_requirements
    /\ receipt.image = world.image
    /\ receipt.needs = world.needs
    /\ receipt.host_writes = world.host_writes
    /\ receipt.red_exit_code # 0
    /\ receipt.green_exit_code = 0

\* compose_receipt.
Composed(context, reports, raw, version) ==
    LET world == context.world IN
    [kind |-> "arsenal-executable-world",
     world |-> [id |-> world.id, version |-> world.version],
     capability |-> [id |-> world.capability_id, version |-> world.capability_version],
     additional_required_traits |-> world.additional_required_traits,
     reports |-> reports,
     runtime |-> version,
     world_evidence |-> raw]

\* verify_composed_receipt: the reports are read, the selector is not asked again.
ComposedVerified(context, receipt) ==
    LET world == context.world IN
    /\ receipt.kind = "arsenal-executable-world"
    /\ receipt.world = [id |-> world.id, version |-> world.version]
    /\ receipt.runtime = world.dagger_version
    /\ receipt.additional_required_traits = world.additional_required_traits
    /\ DOMAIN receipt.reports = DOMAIN world.verification_requirements
    /\ \A i \in DOMAIN receipt.reports : ReportAccepted(world, receipt.reports[i])
    /\ WorldReceiptVerified(context, receipt.world_evidence)

\* The verify command exits 0.
ReceiptVerifies(pack, policy, receipt) ==
    ManifestAccepted(pack, policy) /\ ComposedVerified(Context(pack), receipt)
===============================================================================
