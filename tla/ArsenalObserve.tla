---------------------------- MODULE ArsenalObserve ----------------------------
(***************************************************************************)
(* scripts/arsenal_observe.py: the flight recorder.  Two normalizers turn  *)
(* a receipt into a flight record, validate_record says which records are  *)
(* admitted, and compare asks whether two records tell of the same facts.  *)
(*                                                                         *)
(* A record's blocks are flattened into one record.  A digest is the value *)
(* digested.  The privacy and telemetry blocks, the forbidden field names, *)
(* token volumes, claims and limitations are constant texts and left out,  *)
(* and so is the check of every block's shape.                             *)
(***************************************************************************)
EXTENDS ArsenalWorld

Verdicts == {"PASS", "FAIL", "BLOCKED", "UNKNOWN"}
NoProfile == "none"
NotApplicable == [status |-> "not-applicable", id |-> "none"]
Observed(id) == [status |-> "observed", id |-> id]

\* stable_payload and its digest: everything but who ran it and the fingerprint itself.
Fingerprint(record) == [f \in DOMAIN record \ {"instance_id", "fingerprint"} |-> record[f]]
WithFingerprint(record) == [record EXCEPT !.fingerprint = Fingerprint(record)]

Source(kind, id, content) == [kind |-> kind, id |-> id, digest |-> content]

\* The context of either record: the contract and the receipt that were read.
ContextBlock(capability_id, cap, path, content) ==
    <<Source("capability-contract", capability_id, cap), Source("source-receipt", path, content)>>

\* load_capability finds the capability, in the version the receipt names.
CapabilityHolds(policy, capability) ==
    /\ capability.id \in DOMAIN policy.capabilities
    /\ policy.capabilities[capability.id].version = capability.version

\* authority_grants.
Grants(policy, profile) == IF profile = NoProfile THEN {} ELSE policy.graph[profile]

EvidenceItem(id, path, content) ==
    [id |-> id, source |-> path, sha256 |-> content, accepted |-> TRUE]

Timeline(statuses, evidence_id) ==
    [i \in DOMAIN statuses |->
        [sequence |-> i, status |-> statuses[i],
         evidence_ids |-> IF i = 1 THEN {} ELSE {evidence_id}]]

-----------------------------------------------------------------------------
(* record-dagger                                                           *)

Profiles(source) == {source.reports[i].authority_profile : i \in DOMAIN source.reports}
TheProfile(source) == CHOOSE p \in Profiles(source) : TRUE

\* The checks of dagger_record; the world evidence inside the receipt is not one of them.
DaggerAccepted(policy, source) ==
    /\ source.kind = "arsenal-executable-world"
    /\ CapabilityHolds(policy, source.capability)
    /\ source.reports # <<>>
    /\ \A i \in DOMAIN source.reports : source.reports[i].verdict = "SELECTED"
    /\ Cardinality(Profiles(source)) = 1
    /\ TheProfile(source) \in DOMAIN policy.graph
    /\ policy.capabilities[source.capability.id].required_authority
           \subseteq Grants(policy, TheProfile(source))

\* content is what the source file holds when its digest is taken.
DaggerBody(policy, source, path, content, instance, sha) ==
    LET evidence == "evidence.executable-world"
        cap == policy.capabilities[source.capability.id]
        grants == Grants(policy, TheProfile(source))
        selected == source.reports[1].selected
    IN  [kind |-> "arsenal-flight-record",
         instance_id |-> instance,
         fingerprint |-> "sha256:0",
         run_kind |-> "capability-verification",
         status |-> "PASS",
         capability |-> source.capability,
         suite_id |-> "none",
         repository_sha |-> sha,
         model |-> NotApplicable,
         adapter |-> Observed(source.runtime),
         profile |-> TheProfile(source),
         required |-> cap.required_authority,
         granted |-> grants,
         missing |-> cap.required_authority \ grants,
         remote_credentials_used |-> FALSE,
         context |-> ContextBlock(source.capability.id, cap, path, content),
         tools |-> <<[result |-> selected.id, evidence_ids |-> {evidence}],
                     [result |-> "PASS", evidence_ids |-> {evidence}]>>,
         evidence |-> <<EvidenceItem(evidence, path, content)>>,
         timeline |-> Timeline(<<"STARTED", selected.id, "PASS", "ACCEPTED", "PASS">>, evidence),
         verdict |-> "PASS",
         accepted_evidence_ids |-> {evidence}]

DaggerRecord(policy, source, path, content, instance, sha) ==
    WithFingerprint(DaggerBody(policy, source, path, content, instance, sha))

-----------------------------------------------------------------------------
(* record-bench                                                            *)

BenchAccepted(policy, source, sha) ==
    /\ source.kind = "bench"
    /\ source.verdict \in {"PASS", "FAIL"}
    /\ CapabilityHolds(policy, source.capability)
    /\ source.repository_sha \in {"unknown", sha}

\* The evaluator holds no authority; a failed evaluation is still accepted evidence.
BenchBody(policy, source, path, content, instance, sha) ==
    LET evidence == "evidence.bench-receipt"
        cap == policy.capabilities[source.capability.id]
    IN  [kind |-> "arsenal-flight-record",
         instance_id |-> instance,
         fingerprint |-> "sha256:0",
         run_kind |-> "evaluation",
         status |-> source.verdict,
         capability |-> source.capability,
         suite_id |-> source.suite_id,
         repository_sha |-> sha,
         model |-> IF source.model = "not-applicable" THEN NotApplicable ELSE Observed(source.model),
         adapter |-> Observed("scripts/arsenal_bench.py"),
         profile |-> NoProfile,
         required |-> {},
         granted |-> {},
         missing |-> {},
         remote_credentials_used |-> source.remote_credentials_used,
         context |-> ContextBlock(source.capability.id, cap, path, content),
         tools |-> <<[result |-> source.verdict, evidence_ids |-> {evidence}]>>,
         evidence |-> <<EvidenceItem(evidence, path, content)>>,
         timeline |-> Timeline(<<"STARTED", source.verdict,
                                 IF source.verdict = "PASS" THEN "ACCEPTED" ELSE "REJECTED",
                                 source.verdict>>, evidence),
         verdict |-> source.verdict,
         accepted_evidence_ids |-> {evidence}]

BenchRecord(policy, source, path, content, instance, sha) ==
    WithFingerprint(BenchBody(policy, source, path, content, instance, sha))

-----------------------------------------------------------------------------
(* validate_record                                                         *)

IdentityValid(identity) ==
    /\ identity.status \in {"observed", "not-observed", "not-applicable"}
    /\ identity.status = "not-applicable" => identity.id = "none"

AuthorityValid(record) ==
    IF record.profile = NoProfile
    THEN record.required = {} /\ record.granted = {} /\ record.missing = {}
    ELSE record.missing = record.required \ record.granted

EvidenceIds(record) == {record.evidence[i].id : i \in DOMAIN record.evidence}
AcceptedIds(record) ==
    {record.evidence[i].id : i \in {j \in DOMAIN record.evidence : record.evidence[j].accepted}}

\* Every part of the record that names evidence names evidence the record has.
ReferencesResolve(record) ==
    /\ record.evidence # <<>>
    /\ AllDifferent([i \in DOMAIN record.evidence |-> record.evidence[i].id])
    /\ \A i \in DOMAIN record.tools : record.tools[i].evidence_ids \subseteq EvidenceIds(record)
    /\ record.timeline # <<>>
    /\ \A i \in DOMAIN record.timeline :
           /\ record.timeline[i].sequence = i
           /\ record.timeline[i].evidence_ids \subseteq EvidenceIds(record)
    /\ record.accepted_evidence_ids # {}
    /\ record.accepted_evidence_ids \subseteq AcceptedIds(record)

FingerprintHolds(record) == record.fingerprint = Fingerprint(record)

\* MUTANT of SourcesHold: a source that is still there is good enough.
SourcesExist(record, files) ==
    \A i \in DOMAIN record.evidence :
        LET item == record.evidence[i] IN item.source \in DOMAIN files /\ files[item.source] # NoFile

\* Evidence is looked up again; the capability contract in the context is not.
SourcesHold(record, files) ==
    \A i \in DOMAIN record.evidence :
        LET item == record.evidence[i] IN
        /\ item.source \in DOMAIN files
        /\ files[item.source] # NoFile
        /\ files[item.source] = item.sha256

\* validate_record(verify_sources=False).
RecordWellFormed(record) ==
    /\ record.kind = "arsenal-flight-record"
    /\ record.run_kind \in {"capability-verification", "evaluation"}
    /\ record.status \in Verdicts
    /\ FingerprintHolds(record)
    /\ IdentityValid(record.model)
    /\ IdentityValid(record.adapter)
    /\ AuthorityValid(record)
    /\ ReferencesResolve(record)
    /\ record.verdict = record.status

RecordValid(record, files) == RecordWellFormed(record) /\ SourcesHold(record, files)

\* command_compare: 0 the same facts, 1 other facts, 2 an invalid record.
Compare(left, right) ==
    IF ~(RecordWellFormed(left) /\ RecordWellFormed(right)) THEN 2
    ELSE IF left.fingerprint = right.fingerprint THEN 0 ELSE 1
===============================================================================
