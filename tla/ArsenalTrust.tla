----------------------------- MODULE ArsenalTrust -----------------------------
(***************************************************************************)
(* Admission of an imported package: discover inventories its bytes,       *)
(* assess compares a review with the canonical capability and the local    *)
(* policy, revoke supersedes an approval, and verify says whether a        *)
(* decision still authorizes the package.  Every command reads and writes  *)
(* whole files, so what it writes may be stale when the next one reads it: *)
(* the package, the policy and the capability may change in between.       *)
(*                                                                         *)
(* A package is a function from paths to [data, executable].  The data of  *)
(* SKILL.md is the set of its allowed-tools, the data of the manifest is a *)
(* compiler manifest, and a digest is the value it digests.                *)
(***************************************************************************)
EXTENDS FiniteSets, Integers

CONSTANTS
    Authority,      \* the canonical authority vocabulary
    Packages,       \* what the package directory may hold
    Policies,       \* what policy.json may hold
    Capabilities,   \* what the target capability's file may hold
    Assets,         \* what the primary asset of that capability may hold
    Neighbours,     \* what the other files of the repository hold, by path
    Reviews,        \* reviews, without the digest they are bound to
    Sources,        \* [kind, pinned]: how the operator describes the origin
    MaxEdits,       \* bound on the edits between commands
    MaxFiles        \* bound on the candidate and decision files kept

ASSUME BoundsAreNatural == MaxEdits \in Nat /\ MaxFiles \in Nat

VARIABLES
    package,    \* the imported directory
    policy,     \* arsenal/trust/policy.json
    capability, \* the target's file under arsenal/capabilities
    asset,      \* its primary asset
    candidates, \* candidate files written by discover
    decisions,  \* decision files written by assess and revoke
    edits

trustVars == <<package, policy, capability, asset, candidates, decisions, edits>>

Skill == "SKILL.md"
ManifestPath == "arsenal-manifest.json"
TargetFile == "arsenal/capabilities/target.json"
AssetFile == "arsenal/workflows/target.md"

-----------------------------------------------------------------------------
(* discover                                                                *)

\* Only the paths and the bytes reach the digest; the executable bit does not.
PackageDigest(p) == [path \in DOMAIN p |-> p[path].data]

ReadTools == {"Read", "Grep", "Glob"}
WriteTools == {"Write", "Edit"}
WebTools == {"WebFetch", "WebSearch"}
\* A Bash command is a read-only git command, another git command, or not git.
ToolAuthority(token) ==
    CASE token \in ReadTools -> {"filesystem.read"}
      [] token \in WriteTools -> {"filesystem.write"}
      [] token \in WebTools -> {"network.read"}
      [] token = "Bash(git status)" -> {"shell.execute", "git.read"}
      [] token = "Bash(git push)" -> {"shell.execute", "git.read", "git.write"}
      [] token = "Bash(make)" -> {"shell.execute"}
      [] OTHER -> {}

\* What map_tools understands; a command that is not git leaves its token unmapped.
Understood == ReadTools \cup WriteTools \cup WebTools \cup {"Bash(git status)", "Bash(git push)"}

MapTools(tokens) ==
    [authority |-> UNION { ToolAuthority(t) : t \in tokens }, unmapped |-> tokens \ Understood]

Tokens(p) == IF Skill \in DOMAIN p THEN p[Skill].data ELSE {}

\* A manifest says itself which files of the repository it was compiled from: those
\* of the target, or any others.
SourceStands(source, cap, primary) ==
    CASE source.path = TargetFile -> source.sha256 = cap
      [] source.path = AssetFile -> source.sha256 = primary
      [] OTHER -> /\ source.path \in DOMAIN Neighbours
                  /\ source.sha256 = Neighbours[source.path]

\* Every listed file has the listed digest, the content digest is that of the
\* listed files which exist, and the sources it names are what was compiled.
ManifestVerifies(p, cap, primary) ==
    LET m == p[ManifestPath].data
        listed == { path \in DOMAIN m.files : path \in DOMAIN p }
    IN  /\ listed = DOMAIN m.files
        /\ \A path \in listed : p[path].data = m.files[path]
        /\ m.content_sha256 = [path \in listed |-> m.files[path]]
        /\ SourceStands(m.capability, cap, primary)
        /\ SourceStands(m.primary_asset, cap, primary)

Assurance(source, verified) ==
    CASE source.kind = "git" ->
            IF source.pinned THEN "source-revision-pinned" ELSE "incomplete"
      [] source.kind # "git" /\ verified -> "compiler-manifest-verified"
      [] source.kind = "arsenal-compiled" /\ ~verified /\ source.pinned -> "source-revision-pinned"
      [] OTHER -> "digest-only"

ExecutablePaths(p) == { path \in DOMAIN p : p[path].executable \/ path = "scripts/run" }

\* A verified manifest's authority replaces what the tools signal, and clears the
\* tools that are not understood.
Candidate(p, cap, primary, source) ==
    LET compiled == ManifestPath \in DOMAIN p
        verified == compiled /\ ManifestVerifies(p, cap, primary)
        tools == MapTools(Tokens(p))
    IN  [format |-> IF compiled THEN "arsenal-package"
                    ELSE IF Skill \in DOMAIN p THEN "agent-skill" ELSE "unknown",
         sha256 |-> PackageDigest(p),
         authority_signals |-> IF verified THEN p[ManifestPath].data.authority ELSE tools.authority,
         unmapped_tools |-> IF verified THEN {} ELSE tools.unmapped,
         assurance |-> Assurance(source, verified),
         manifest_failed |-> compiled /\ ~verified,
         executable_paths |-> ExecutablePaths(p)]

-----------------------------------------------------------------------------
(* assess                                                                  *)

PolicyValid(pol) ==
    /\ ~pol.auto_approval
    /\ pol.baseline \cup pol.escalation \cup pol.prohibited \subseteq Authority
    /\ pol.baseline \cap pol.escalation = {}
    /\ pol.baseline \cap pol.prohibited = {}
    /\ pol.escalation \cap pol.prohibited = {}
    /\ pol.challenge \subseteq pol.escalation

ReviewValid(review, candidate) ==
    /\ review.candidate_sha256 = candidate.sha256
    /\ review.requested \cup review.approved \subseteq Authority

Allowed(cap) == cap.required \cup cap.optional

\* MUTANT of Rejects: what the package declares is not compared with the request.
RejectsUndeclared(candidate, review, pol, cap) ==
    \/ review.disposition = "reject"
    \/ ~(review.approved \subseteq review.requested)
    \/ review.requested \cap cap.forbidden # {}
    \/ ~(review.requested \subseteq Allowed(cap))
    \/ ~(cap.required \subseteq review.approved)
    \/ review.requested \cap pol.prohibited # {}
    \/ candidate.manifest_failed

\* The reasons that set REJECTED whatever the verdict was before.
Rejects(candidate, review, pol, cap) ==
    \/ review.disposition = "reject"
    \/ ~(candidate.authority_signals \subseteq review.requested)
    \/ ~(review.approved \subseteq review.requested)
    \/ review.requested \cap cap.forbidden # {}
    \/ ~(review.requested \subseteq Allowed(cap))
    \/ ~(cap.required \subseteq review.approved)
    \/ review.requested \cap pol.prohibited # {}
    \/ candidate.manifest_failed

Unreviewed(candidate, review) ==
    \/ ~(candidate.unmapped_tools \subseteq review.acknowledged_unmapped_tools)
    \/ ~(candidate.executable_paths \subseteq review.reviewed_executable_paths)

EscalationNeeded(review, pol) == review.requested \cap pol.escalation

\* Later reasons only lower a verdict that is still APPROVED.
Verdict(candidate, review, pol, cap) ==
    IF Rejects(candidate, review, pol, cap) THEN "REJECTED"
    ELSE IF candidate.assurance = "incomplete" \/ Unreviewed(candidate, review)
         THEN "REVIEW_REQUIRED"
    ELSE IF EscalationNeeded(review, pol) # {} /\ ~review.confirmed
         THEN "ESCALATION_REQUIRED"
    ELSE "APPROVED"

\* supersedes holds the decision a revocation was made from: its decision_id is a
\* digest of what determined it.
Decision(candidate, review, pol, cap) ==
    LET verdict == Verdict(candidate, review, pol, cap) IN
    [verdict |-> verdict, supersedes |-> {},
     candidate_sha256 |-> candidate.sha256, policy_sha256 |-> pol,
     capability_sha256 |-> cap, review |-> review,
     effective |-> IF verdict = "APPROVED" THEN review.approved ELSE {},
     authorized |-> verdict = "APPROVED",
     challenge |-> EscalationNeeded(review, pol) \cap pol.challenge]

-----------------------------------------------------------------------------
(* revoke and verify                                                       *)

Revocation(decision) ==
    [decision EXCEPT !.verdict = "REVOKED", !.effective = {}, !.authorized = FALSE,
                     !.supersedes = {decision}]

\* MUTANT of Drift: the policy is not compared.
DriftButPolicy(decision, p, pol, cap) ==
    [candidate |-> PackageDigest(p) # decision.candidate_sha256,
     bindings |-> \/ cap # decision.capability_sha256
                  \/ ~(decision.effective \subseteq Allowed(cap))
                  \/ decision.effective \cap cap.forbidden # {}]

Drift(decision, p, pol, cap) ==
    [candidate |-> PackageDigest(p) # decision.candidate_sha256,
     bindings |-> \/ pol # decision.policy_sha256
                  \/ cap # decision.capability_sha256
                  \/ ~(decision.effective \subseteq Allowed(cap))
                  \/ decision.effective \cap cap.forbidden # {}]

VerifyDecision(decision, p, pol, cap) ==
    IF decision.verdict = "REVOKED" THEN "REVOKED"
    ELSE IF decision.verdict # "APPROVED" THEN "NOT_AUTHORIZED"
    ELSE LET drift == Drift(decision, p, pol, cap) IN
         IF drift.candidate THEN "REQUARANTINE"
         ELSE IF drift.bindings THEN "REVIEW_REQUIRED" ELSE "AUTHORIZED"

\* The exit code of verify, which is what a route looks at.
VerifyExit(decision, p, pol, cap) ==
    CASE VerifyDecision(decision, p, pol, cap) = "AUTHORIZED" -> 0
      [] VerifyDecision(decision, p, pol, cap) = "REVOKED" -> 7
      [] VerifyDecision(decision, p, pol, cap) = "REQUARANTINE" -> 3
      [] OTHER -> 4

-----------------------------------------------------------------------------
(* The commands, and what happens between them.                            *)

Room == Cardinality(candidates) + Cardinality(decisions) < MaxFiles

TrustInit ==
    /\ package \in Packages
    /\ policy \in { pol \in Policies : PolicyValid(pol) }
    /\ capability \in Capabilities
    /\ asset \in Assets
    /\ candidates = {}
    /\ decisions = {}
    /\ edits = 0

\* cmd_discover: an empty directory is refused.
Discover ==
    /\ Room
    /\ DOMAIN package # {}
    /\ \E source \in Sources :
          candidates' = candidates \cup {Candidate(package, capability, asset, source)}
    /\ UNCHANGED <<package, policy, capability, asset, decisions, edits>>

\* cmd_assess: the candidate is a file an earlier discover wrote, the review is
\* one made for it, policy and capability are read now.
Assess ==
    /\ Room
    /\ PolicyValid(policy)
    /\ \E c \in candidates, r \in Reviews :
          LET review == [candidate_sha256 |-> c.sha256, requested |-> r.requested,
                         approved |-> r.approved, disposition |-> r.disposition,
                         acknowledged_unmapped_tools |-> r.acknowledged_unmapped_tools,
                         reviewed_executable_paths |-> r.reviewed_executable_paths,
                         confirmed |-> r.confirmed]
          IN  /\ ReviewValid(review, c)
              /\ decisions' = decisions \cup {Decision(c, review, policy, capability)}
    /\ UNCHANGED <<package, policy, capability, asset, candidates, edits>>

\* cmd_revoke writes the revocation to a file of its own.
Revoke ==
    /\ Room
    /\ \E d \in decisions :
          /\ d.verdict = "APPROVED"
          /\ decisions' = decisions \cup {Revocation(d)}
    /\ UNCHANGED <<package, policy, capability, asset, candidates, edits>>

Edited ==
    /\ edits < MaxEdits
    /\ edits' = edits + 1
    /\ UNCHANGED <<candidates, decisions>>

EditPackage ==
    /\ Edited
    /\ package' \in Packages \ {package}
    /\ UNCHANGED <<policy, capability, asset>>

EditPolicy ==
    /\ Edited
    /\ policy' \in Policies \ {policy}
    /\ UNCHANGED <<package, capability, asset>>

EditCanonical ==
    /\ Edited
    /\ \/ capability' \in Capabilities \ {capability} /\ UNCHANGED asset
       \/ asset' \in Assets \ {asset} /\ UNCHANGED capability
    /\ UNCHANGED <<package, policy>>

TrustNext == Discover \/ Assess \/ Revoke \/ EditPackage \/ EditPolicy \/ EditCanonical

TrustSpec == TrustInit /\ [][TrustNext]_trustVars

-----------------------------------------------------------------------------
(* Properties.                                                             *)

Authorizes(d) == VerifyExit(d, package, policy, capability) = 0

\* TYPE INVARIANT.  Files hold what the commands write; a review that reached a
\* decision speaks the canonical vocabulary; only an approval is superseded.
TrustTypeOK ==
    /\ package \in Packages
    /\ policy \in Policies
    /\ capability \in Capabilities
    /\ asset \in Assets
    /\ \A c \in candidates :
          c.assurance \in {"incomplete", "digest-only", "source-revision-pinned",
                          "compiler-manifest-verified"}
    /\ \A d \in decisions :
          /\ d.verdict \in {"APPROVED", "REJECTED", "REVIEW_REQUIRED",
                            "ESCALATION_REQUIRED", "REVOKED"}
          /\ d.review.requested \subseteq Authority
          /\ d.review.approved \subseteq Authority
          /\ \A prior \in d.supersedes : prior.verdict = "APPROVED"
    /\ edits \in 0 .. MaxEdits

\* Whatever changed since the candidate was discovered and the review assessed, a
\* decision that verify accepts grants authority the capability of now requires
\* or allows, none the policy of now prohibits, and none it escalates without a
\* confirmation (Authority arithmetic, Drift; assess_candidate, verify_decision).
AuthorizedWithinAuthority ==
    \A d \in decisions : Authorizes(d) =>
        /\ capability.required \subseteq d.effective
        /\ d.effective \subseteq Allowed(capability) \ capability.forbidden
        /\ d.effective \cap policy.prohibited = {}
        /\ d.effective \cap policy.escalation # {} => d.review.confirmed

\* Whatever was edited meanwhile, the package a decision authorizes asks for
\* nothing its review left out: the authority and the unknown tools of SKILL.md,
\* or the authority of its compiler manifest (discover_package,
\* assess_candidate, verify_decision).
AuthorizedAskedForNothingElse ==
    \A d \in decisions : Authorizes(d) =>
        IF ManifestPath \in DOMAIN package
        THEN package[ManifestPath].data.authority \subseteq d.review.requested
        ELSE LET tools == MapTools(Tokens(package)) IN
             /\ tools.authority \subseteq d.review.requested
             /\ tools.unmapped \subseteq d.review.acknowledged_unmapped_tools

=============================================================================
