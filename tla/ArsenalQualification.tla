------------------------- MODULE ArsenalQualification -------------------------
(***************************************************************************)
(* From a role to an assignment: arsenal_m0_qualification materializes one *)
(* profile per role, runs the campaign through Kiln's command line, writes *)
(* the receipt, the status event and the eligibility snapshot; Manifold's  *)
(* selector chooses a profile among the documents it is handed.  Each      *)
(* command reads the files of the one before it, and Kiln, the policies    *)
(* and the clock move on in between.                                       *)
(*                                                                         *)
(* The semantic digest of a profile is what varies in its body.  A receipt *)
(* and a snapshot carry an identifier that is drawn once, which stands for *)
(* their digest; the identifiers of profiles and events, which nothing     *)
(* compares, are not told apart.  Time counts in steps of which            *)
(* CurrentnessHours make 168 hours.                                        *)
(***************************************************************************)
EXTENDS Integers, SequencesExt

CONSTANTS
    Implementations,    \* digests Kiln's adapter may have
    Policies,           \* contents the policy files of a role may have
    Suites,             \* [cases, replications]: contents the suite file may have
    Outcomes,           \* what an invocation of Kiln may answer
    Rank,               \* the lexical order of profile digests
    Requirements,       \* intelligence requirements the selector may be given
    StrayProfiles,      \* profile documents other than those materialized here
    StraySnapshots,     \* eligibility documents other than those derived here
    CurrentnessHours,
    MaxTime,            \* bound on the clock
    MaxFiles            \* bound on the identifiers that are drawn

ASSUME WindowIsNatural == CurrentnessHours \in Nat /\ MaxTime \in Nat /\ MaxFiles \in Nat

VARIABLES
    profiles,   \* evaluation/profiles/m0: role -> profile
    out,        \* the output directory: role -> [receipt, event], once written
    campaign,   \* the campaign that runs
    shelf,      \* [profiles, snapshots]: documents the selector can be handed
    now,
    ids,        \* identifiers drawn so far
    issued      \* history: every receipt written

qualificationVars == <<profiles, out, campaign, shelf, now, ids, issued>>

Roles == {"IMPLEMENTER", "REVIEWER"}
None == <<>>
Room == ids < MaxFiles

\* The file among those of a directory, written again or for the first time.
Written(files, name, content) ==
    [n \in DOMAIN files \cup {name} |-> IF n = name THEN content ELSE files[n]]

-----------------------------------------------------------------------------
(* Documents.                                                              *)

\* What varies in a profile, its identifier aside, which is not digested.
ProfileDigest(role, implementation, policy) == <<role, implementation, policy>>

Profile(role, implementation, policy) ==
    [schema |-> "intelligence-profile", profile_id |-> ProfileDigest(role, implementation, policy),
     semantic_digest |-> ProfileDigest(role, implementation, policy),
     role |-> role, model |-> "MiniMax-M3", provider |-> "minimax", runtime |-> "runtime",
     adapter |-> implementation,
     role_package |-> policy, system_config |-> policy,
     tool_policy |-> policy, context_policy |-> policy]

ProfileRef(profile) == [id |-> profile.profile_id, digest |-> profile.semantic_digest]

\* Every case of the role, as often as the suite replicates it.
Executions(suite, role) ==
    FlattenSeq([i \in DOMAIN SelectSeq(suite.cases, LAMBDA c : c.role = role) |->
                   [r \in 1 .. suite.replications |->
                       SelectSeq(suite.cases, LAMBDA c : c.role = role)[i]]])

\* An exit code other than 0, an answer that is not JSON and one whose data is
\* not schema-valid all fail.
Classify(outcome) == IF outcome = "schema-valid" THEN "PASS" ELSE "FAIL"

\* The hard-zero counters are written to the receipt and never counted up.  No
\* execution at all is QUALIFIED too.
Verdict(rows) == IF rows.passed = rows.total THEN "QUALIFIED" ELSE "NOT_QUALIFIED"

Receipt(c, id) ==
    [qualification_id |-> id, role |-> c.role, profile_ref |-> ProfileRef(c.profile),
     evaluated_at |-> now, verdict |-> Verdict(c.rows),
     passed |-> c.rows.passed, required |-> c.required]

\* The state is ACTIVE whatever the verdict is; only the reason differs.
StatusEvent(role, receipt) ==
    [status_event_id |-> receipt.qualification_id, profile_ref |-> ProfileRef(profiles[role]),
     qualification_ref |-> receipt.qualification_id, state |-> "ACTIVE",
     reason |-> IF receipt.verdict = "QUALIFIED" THEN "campaign passed" ELSE "campaign failed"]

Eligibility(receipt, event) ==
    IF /\ receipt.verdict = "QUALIFIED"
       /\ now - receipt.evaluated_at <= CurrentnessHours
       /\ event.state = "ACTIVE"
    THEN "QUALIFIED" ELSE "NOT_ELIGIBLE"

\* The profile is the one on disk now, the receipt the one in the directory.
EligibilitySnapshot(role, receipt, event, id) ==
    [schema |-> "eligibility-snapshot", eligibility_id |-> id, role |-> role,
     profile_ref |-> ProfileRef(profiles[role]),
     qualification_ref |-> [id |-> receipt.qualification_id, digest |-> receipt.qualification_id],
     status_event_refs |-> <<[id |-> event.status_event_id, digest |-> event.status_event_id]>>,
     derived_at |-> now, valid_until |-> receipt.evaluated_at + CurrentnessHours,
     eligibility |-> Eligibility(receipt, event), semantic_digest |-> id]

-----------------------------------------------------------------------------
(* The selector.                                                           *)

IsRef(ref) == DOMAIN ref = {"id", "digest"}

\* Every property but metadata is required, and no other is allowed.
RequirementValid(doc) ==
    /\ DOMAIN doc \ {"metadata"} =
           {"schema", "requirement_id", "semantic_digest", "plan_ref", "role", "task_kind",
            "required_capabilities", "context_requirements", "disclosure_class", "independence"}
    /\ doc.schema = "intelligence-requirement"
    /\ doc.role \in Roles
    /\ doc.task_kind = "SOFTWARE_CHANGE"
    /\ doc.disclosure_class \in {"REMOTE_BY_EXPLICIT_MANIFEST", "LOCAL_ONLY"}
    /\ IsRef(doc.plan_ref)
    /\ {"must_not_receive_implementer_transcript",
        "must_use_separate_context_manifest"} \subseteq doc.independence
    /\ doc.required_capabilities # {}

ProfileValid(doc) ==
    /\ DOMAIN doc \ {"metadata"} =
           {"schema", "profile_id", "semantic_digest", "role", "model", "provider", "runtime",
            "adapter", "role_package", "system_config", "tool_policy", "context_policy"}
    /\ doc.schema = "intelligence-profile"
    /\ doc.role \in Roles

EligibilityValid(doc) ==
    /\ DOMAIN doc \ {"metadata"} =
           {"schema", "eligibility_id", "semantic_digest", "profile_ref", "qualification_ref",
            "role", "status_event_refs", "derived_at", "valid_until", "eligibility"}
    /\ doc.schema = "eligibility-snapshot"
    /\ doc.eligibility \in {"QUALIFIED", "NOT_ELIGIBLE"}
    /\ doc.role \in Roles
    /\ IsRef(doc.profile_ref)
    /\ IsRef(doc.qualification_ref)
    /\ doc.status_event_refs # <<>>
    /\ \A i \in DOMAIN doc.status_event_refs : IsRef(doc.status_event_refs[i])

\* MUTANT of WithinCurrentness: the window starts when the snapshot was derived.
WithinWindowOfSnapshot(snapshot, t) ==
    snapshot.derived_at <= t /\ t - snapshot.derived_at <= CurrentnessHours

WithinCurrentness(snapshot, t) ==
    /\ snapshot.derived_at <= t
    /\ t <= snapshot.valid_until
    /\ t - snapshot.derived_at <= CurrentnessHours

\* Snapshots are indexed by the profile digest they name: the last one stays.
Indexed(snapshots, digest) ==
    { i \in DOMAIN snapshots : /\ snapshots[i].profile_ref.digest = digest
                               /\ \A j \in DOMAIN snapshots :
                                     snapshots[j].profile_ref.digest = digest => j <= i }

\* Why a profile is not chosen, or "eligible".
Reason(requirement, profile, snapshots, t) ==
    LET bound == { snapshots[i] : i \in Indexed(snapshots, profile.semantic_digest) } IN
    IF profile.role # requirement.role THEN "E_ROLE_MISMATCH"
    ELSE IF \A s \in bound : s.eligibility # "QUALIFIED" THEN "E_PROFILE_NOT_QUALIFIED"
    ELSE IF \A s \in bound : ~WithinCurrentness(s, t) THEN "E_QUALIFICATION_NOT_CURRENT"
    ELSE "eligible"

\* Where the profiles that may be chosen stand among those that were named.
Candidates(requirement, named, snapshots, t) ==
    { i \in DOMAIN named : Reason(requirement, named[i], snapshots, t) = "eligible" }

\* MUTANT of Chosen: the first profile that was named.
ChosenFirst(named, candidates) ==
    named[CHOOSE i \in candidates : \A j \in candidates : i <= j]

\* Of two that sort alike the first named comes first: the sort is stable.
SortsFirst(named, i, j) ==
    LET a == Rank[named[i].semantic_digest]
        b == Rank[named[j].semantic_digest]
    IN  a < b \/ (a = b /\ i <= j)

\* The first of them in the order of their digests.
Chosen(named, candidates) ==
    named[CHOOSE i \in candidates : \A j \in candidates : SortsFirst(named, i, j)]

\* The artifact without a selection names no profile and no snapshot, but every
\* candidate that was named, with the reason it was rejected for.
NoSelection(requirement, named, snapshots, t) ==
    [no_selection |-> TRUE, requirement_ref |-> requirement.requirement_id,
     role |-> requirement.role,
     rejected |-> { <<p.profile_id, Reason(requirement, p, snapshots, t)>> : p \in ToSet(named) }]

\* Assignment or no-selection artifact.
Selection(requirement, named, snapshots, t) ==
    LET candidates == Candidates(requirement, named, snapshots, t)
        chosen == Chosen(named, candidates)
    IN  IF candidates = {} THEN NoSelection(requirement, named, snapshots, t)
        ELSE [no_selection |-> FALSE, requirement_ref |-> requirement.requirement_id,
              role |-> requirement.role, selected_at |-> t, profile_ref |-> ProfileRef(chosen),
              eligibility_ref |->
                  snapshots[CHOOSE i \in Indexed(snapshots, chosen.semantic_digest) : TRUE].eligibility_id]

\* Digests are texts, which sort: each has its own place.
ASSUME DigestsSort ==
    LET digests == { ProfileDigest(role, implementation, policy) :
                        role \in Roles, implementation \in Implementations, policy \in Policies }
                   \cup { p.semantic_digest : p \in { q \in StrayProfiles : ProfileValid(q) } }
    IN  \A a, b \in digests : Rank[a] \in Nat /\ (Rank[a] = Rank[b] => a = b)

\* Documents in the order they are named on the command line.
Named(documents, from, to) ==
    { s \in UNION { [1 .. n -> documents] : n \in from .. to } : IsInjective(s) }

\* What the selector may be handed: a requirement, one or two profiles and up to two
\* snapshots, each of the shape its schema asks for.  One document that is not ends
\* it without an artifact; no digest is computed again.  Nothing here reads what the
\* selector writes, so selecting is an operator and not an action.
Invocations ==
    [requirement : { r \in Requirements : RequirementValid(r) },
     named : Named({ p \in shelf.profiles : ProfileValid(p) }, 1, 2),
     snapshots : Named({ s \in shelf.snapshots : EligibilityValid(s) }, 0, 2)]

-----------------------------------------------------------------------------
(* The commands.                                                           *)

QualificationInit ==
    /\ profiles = None
    /\ out = None
    /\ campaign = None
    /\ shelf = [profiles |-> StrayProfiles, snapshots |-> StraySnapshots]
    /\ now = 0
    /\ ids = 0
    /\ issued = {}

\* cmd_materialize writes the profile of each role, with the digest Kiln reports
\* and the policy files as they are at that time.
Materialize ==
    /\ \E implementation \in Implementations, policy \in Policies :
          profiles' = [role \in Roles |-> Profile(role, implementation, policy)]
    /\ shelf' = [shelf EXCEPT !.profiles = @ \cup { profiles'[role] : role \in Roles }]
    /\ UNCHANGED <<out, campaign, now, ids, issued>>

\* cmd_run reads the profile and the suite once.  The role must have a case; its
\* cases may be replicated no times.
RunStart(role) ==
    /\ campaign = None
    /\ profiles # None
    /\ \E suite \in Suites :
          /\ \E i \in DOMAIN suite.cases : suite.cases[i].role = role
          /\ campaign' = [role |-> role, profile |-> profiles[role],
                          required |-> Len(Executions(suite, role)),
                          rows |-> [passed |-> 0, total |-> 0]]
    /\ UNCHANGED <<profiles, out, shelf, now, ids, issued>>

RunCase ==
    /\ campaign # None
    /\ campaign.rows.total < campaign.required
    /\ \E outcome \in Outcomes :
          campaign' = [campaign EXCEPT !.rows =
                          [passed |-> IF Classify(outcome) = "PASS" THEN @.passed + 1 ELSE @.passed,
                           total |-> @.total + 1]]
    /\ UNCHANGED <<profiles, out, shelf, now, ids, issued>>

RunEnd ==
    /\ Room
    /\ campaign # None
    /\ campaign.rows.total = campaign.required
    /\ LET receipt == Receipt(campaign, ids)
           files == IF campaign.role \in DOMAIN out THEN out[campaign.role] ELSE None
       IN  /\ out' = Written(out, campaign.role, Written(files, "receipt", receipt))
           /\ issued' = issued \cup {receipt}
    /\ ids' = ids + 1
    /\ campaign' = None
    /\ UNCHANGED <<profiles, shelf, now>>

\* An invocation that times out ends the command before anything is written.
RunDies ==
    /\ campaign # None
    /\ campaign' = None
    /\ UNCHANGED <<profiles, out, shelf, now, ids, issued>>

Status(role) ==
    /\ role \in DOMAIN out
    /\ out' = [out EXCEPT ![role] = Written(@, "event", StatusEvent(role, out[role].receipt))]
    /\ UNCHANGED <<profiles, campaign, shelf, now, ids, issued>>

Snapshot(role) ==
    /\ Room
    /\ role \in DOMAIN out
    /\ "event" \in DOMAIN out[role]
    /\ shelf' = [shelf EXCEPT !.snapshots =
                    @ \cup {EligibilitySnapshot(role, out[role].receipt, out[role].event, ids)}]
    /\ ids' = ids + 1
    /\ UNCHANGED <<profiles, out, campaign, now, issued>>

Tick ==
    /\ now < MaxTime
    /\ now' = now + 1
    /\ UNCHANGED <<profiles, out, campaign, shelf, ids, issued>>

QualificationNext ==
    \/ Materialize \/ RunCase \/ RunEnd \/ RunDies \/ Tick
    \/ \E role \in Roles : RunStart(role) \/ Status(role) \/ Snapshot(role)

QualificationSpec == QualificationInit /\ [][QualificationNext]_qualificationVars

-----------------------------------------------------------------------------
(* Properties.                                                             *)

\* TYPE INVARIANT.  Every identifier was drawn; a snapshot's state is one the
\* selector's closed enumeration knows.
QualificationTypeOK ==
    /\ now \in 0 .. MaxTime
    /\ ids \in 0 .. MaxFiles
    /\ \A r \in issued :
          /\ r.qualification_id \in 0 .. ids - 1
          /\ r.verdict \in {"QUALIFIED", "NOT_QUALIFIED"}
          /\ r.evaluated_at \in 0 .. now
    /\ \A s \in shelf.snapshots \ StraySnapshots :
          s.eligibility_id \in 0 .. ids - 1 /\ EligibilityValid(s)
    /\ \A p \in shelf.profiles \ StrayProfiles : ProfileValid(p)

\* Whatever ran, moved or was replaced between the commands, a selection made from
\* a snapshot that cmd_snapshot derived rests on a campaign in which no execution
\* failed and that ended at most 168 hours before the selection; a campaign of the
\* role selected for, unless the profile document was made or edited elsewhere
\* (cmd_snapshot, select, _within_currentness).  A campaign of no executions is such
\* a campaign, and a snapshot made or edited elsewhere is taken at its word.
SelectionRestsOnCampaign ==
    \A i \in Invocations :
        LET assignment == Selection(i.requirement, i.named, i.snapshots, now) IN
        ~assignment.no_selection =>
            \E p \in ToSet(i.named), s \in ToSet(i.snapshots) :
                /\ assignment.profile_ref = ProfileRef(p)
                /\ assignment.eligibility_ref = s.eligibility_id
                /\ s.profile_ref.digest = p.semantic_digest
                /\ s \notin StraySnapshots => \E r \in issued :
                      /\ s.qualification_ref.id = r.qualification_id
                      /\ r.passed = r.required
                      /\ now - r.evaluated_at \in 0 .. CurrentnessHours
                      /\ p \notin StrayProfiles => r.role = assignment.role

\* The order in which profiles are named does not change which digest is selected,
\* whoever made the documents (the tie-break of select; two documents with one
\* digest are one profile).  The order of the snapshots may: the last one stays.
SelectionIgnoresProfileOrder ==
    \A i \in Invocations :
        LET one == Selection(i.requirement, i.named, i.snapshots, now)
            other == Selection(i.requirement, Reverse(i.named), i.snapshots, now)
        IN  /\ one.no_selection = other.no_selection
            /\ ~one.no_selection => one.profile_ref.digest = other.profile_ref.digest

=============================================================================
