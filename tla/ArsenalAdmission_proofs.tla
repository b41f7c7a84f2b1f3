---------------------- MODULE ArsenalAdmission_proofs -----------------------
(***************************************************************************)
(* Proofs about ArsenalTrust and ArsenalKnowledge, which decide what may   *)
(* be relied on.  Of ArsenalTrust, for any packages, policies,             *)
(* capabilities, reviews and bounds: what a decision that verify accepts   *)
(* grants, and what the package it accepts asks for.  Of ArsenalKnowledge, *)
(* for any snapshots, claims, records and number of edits: compile computes*)
(* the least closure of its query, and an authorization is earned.  The two*)
(* share no state: each theorem is of one specification.                   *)
(***************************************************************************)
EXTENDS ArsenalTrust, ArsenalKnowledge, FiniteSetTheorems, WellFoundedInduction, TLAPS

-----------------------------------------------------------------------------
(* The inductive invariant: where the files come from.                     *)

Discovered(c) ==
    \E p \in Packages, cap \in Capabilities, primary \in Assets, source \in Sources :
        c = Candidate(p, cap, primary, source)

BoundReview(c, r) ==
    [candidate_sha256 |-> c.sha256, requested |-> r.requested,
     approved |-> r.approved, disposition |-> r.disposition,
     acknowledged_unmapped_tools |-> r.acknowledged_unmapped_tools,
     reviewed_executable_paths |-> r.reviewed_executable_paths,
     confirmed |-> r.confirmed]

\* d is what assess wrote for the candidate c.
AssessedFrom(d, c) ==
    \E r \in Reviews, pol \in Policies, cap \in Capabilities :
        /\ ReviewValid(BoundReview(c, r), c)
        /\ d = Decision(c, BoundReview(c, r), pol, cap)

Assessed(d) == \E c : Discovered(c) /\ AssessedFrom(d, c)

\* d is the revocation of an approval.
Revoked(d) == \E prior : Assessed(prior) /\ prior.verdict = "APPROVED" /\ d = Revocation(prior)

Files ==
    /\ \A c \in candidates : Discovered(c)
    /\ \A d \in decisions : Assessed(d) \/ Revoked(d)

Typed ==
    /\ package \in Packages
    /\ policy \in Policies
    /\ capability \in Capabilities
    /\ asset \in Assets
    /\ edits \in 0 .. MaxEdits

TrustInv == Typed /\ Files

-----------------------------------------------------------------------------
(* What one decision is.                                                   *)

\* The fields of an assessed decision, as functions of what it was made from.
LEMMA DecisionFields ==
    ASSUME NEW c, NEW r, NEW pol, NEW cap, NEW d, d = Decision(c, r, pol, cap)
    PROVE  /\ d.verdict = Verdict(c, r, pol, cap)
           /\ d.candidate_sha256 = c.sha256
           /\ d.policy_sha256 = pol
           /\ d.capability_sha256 = cap
           /\ d.review = r
           /\ d.supersedes = {}
           /\ d.effective = (IF d.verdict = "APPROVED" THEN r.approved ELSE {})
           /\ d.authorized = (d.verdict = "APPROVED")
  BY DEF Decision

\* The fields of a revocation.
LEMMA RevocationFields ==
    ASSUME NEW d, Revoked(d)
    PROVE  /\ d.verdict = "REVOKED"
           /\ d.effective = {}
           /\ d.authorized = FALSE
           /\ \E prior : /\ Assessed(prior)
                         /\ prior.verdict = "APPROVED"
                         /\ d.review = prior.review
                         /\ d.supersedes = {prior}
<1>1. PICK prior : Assessed(prior) /\ prior.verdict = "APPROVED" /\ d = Revocation(prior)
  BY DEF Revoked
<1>2. PICK c, r, pol, cap : prior = Decision(c, r, pol, cap)
  BY <1>1 DEF Assessed, AssessedFrom
<1>3. /\ d.verdict = "REVOKED" /\ d.effective = {} /\ d.authorized = FALSE
      /\ d.review = prior.review /\ d.supersedes = {prior}
  BY <1>1, <1>2 DEF Revocation, Decision
<1> QED BY <1>1, <1>3

\* What verify answers 0 for.
LEMMA AuthorizesMeans ==
    ASSUME NEW d, Authorizes(d)
    PROVE  /\ d.verdict = "APPROVED"
           /\ PackageDigest(package) = d.candidate_sha256
           /\ policy = d.policy_sha256
           /\ capability = d.capability_sha256
<1>1. VerifyDecision(d, package, policy, capability) = "AUTHORIZED"
  BY DEF Authorizes, VerifyExit
<1> QED BY <1>1 DEF VerifyDecision, Drift

\* An approval was not rejected, left nothing unreviewed and has its escalations
\* confirmed.
LEMMA ApprovalMeans ==
    ASSUME NEW c, NEW r, NEW pol, NEW cap, Verdict(c, r, pol, cap) = "APPROVED"
    PROVE  /\ ~Rejects(c, r, pol, cap)
           /\ ~Unreviewed(c, r)
           /\ EscalationNeeded(r, pol) # {} => r.confirmed
  BY DEF Verdict

-----------------------------------------------------------------------------
(* Every command keeps the invariant.                                      *)

LEMMA TrustBegins == TrustInit => TrustInv
  BY BoundsAreNatural DEF TrustInit, TrustInv, Typed, Files

LEMMA TrustKeeps == TrustInv /\ [TrustNext]_trustVars => TrustInv'
<1> SUFFICES ASSUME TrustInv, [TrustNext]_trustVars PROVE TrustInv'
  OBVIOUS
<1> USE DEF TrustInv
<1>1. CASE Discover
  <2>1. PICK source \in Sources :
            candidates' = candidates \cup {Candidate(package, capability, asset, source)}
    BY <1>1 DEF Discover
  <2>2. Discovered(Candidate(package, capability, asset, source))
    BY DEF Typed, Discovered
  <2>3. Files'
    BY <1>1, <2>1, <2>2 DEF Discover, Files
  <2> QED BY <1>1, <2>3 DEF Discover, Typed
<1>2. CASE Assess
  <2>1. PICK c \in candidates, r \in Reviews :
            /\ ReviewValid(BoundReview(c, r), c)
            /\ decisions' = decisions \cup {Decision(c, BoundReview(c, r), policy, capability)}
    BY <1>2 DEF Assess, BoundReview
  <2>2. Discovered(c)
    BY DEF Files
  <2>3. Assessed(Decision(c, BoundReview(c, r), policy, capability))
    BY <2>1, <2>2 DEF Typed, Assessed, AssessedFrom
  <2>4. Files'
    BY <1>2, <2>1, <2>3 DEF Assess, Files
  <2> QED BY <1>2, <2>4 DEF Assess, Typed
<1>3. CASE Revoke
  <2>1. PICK d \in decisions :
            d.verdict = "APPROVED" /\ decisions' = decisions \cup {Revocation(d)}
    BY <1>3 DEF Revoke
  <2>2. Assessed(d)
    BY <2>1, RevocationFields DEF Files
  <2>3. Revoked(Revocation(d))
    BY <2>1, <2>2 DEF Revoked
  <2>4. Files'
    BY <1>3, <2>1, <2>3 DEF Revoke, Files
  <2> QED BY <1>3, <2>4 DEF Revoke, Typed
<1>4. CASE EditPackage
  BY <1>4, BoundsAreNatural DEF EditPackage, Edited, Typed, Files
<1>5. CASE EditPolicy
  BY <1>5, BoundsAreNatural DEF EditPolicy, Edited, Typed, Files
<1>6. CASE EditCanonical
  BY <1>6, BoundsAreNatural DEF EditCanonical, Edited, Typed, Files
<1>7. CASE UNCHANGED trustVars
  BY <1>7 DEF trustVars, Typed, Files
<1> QED BY <1>1, <1>2, <1>3, <1>4, <1>5, <1>6, <1>7 DEF TrustNext

\* Every candidate file comes from a package, every decision file from a
\* candidate and a review or from an approval.
THEOREM TrustInvariant == TrustSpec => []TrustInv
  BY TrustBegins, TrustKeeps, PTL DEF TrustSpec

-----------------------------------------------------------------------------
(* The properties.                                                         *)

\* An authorized decision is an assessment under the policy and the capability of
\* now, of a candidate with the package's digest.
LEMMA AuthorizedIsAssessed ==
    ASSUME TrustInv, NEW d \in decisions, Authorizes(d)
    PROVE  \E c, r :
              /\ Discovered(c)
              /\ d = Decision(c, BoundReview(c, r), policy, capability)
              /\ Verdict(c, BoundReview(c, r), policy, capability) = "APPROVED"
              /\ PackageDigest(package) = c.sha256
<1>1. Assessed(d)
  BY AuthorizesMeans, RevocationFields DEF TrustInv, Files
<1>2. PICK c : Discovered(c) /\ AssessedFrom(d, c)
  BY <1>1 DEF Assessed
<1>3. PICK r \in Reviews, pol \in Policies, cap \in Capabilities :
          d = Decision(c, BoundReview(c, r), pol, cap)
  BY <1>2 DEF AssessedFrom
<1>4. /\ d.verdict = Verdict(c, BoundReview(c, r), pol, cap)
      /\ d.candidate_sha256 = c.sha256
      /\ d.policy_sha256 = pol
      /\ d.capability_sha256 = cap
  BY <1>3, DecisionFields
<1>5. pol = policy /\ cap = capability
  BY <1>4, AuthorizesMeans
<1> QED BY <1>2, <1>3, <1>4, <1>5, AuthorizesMeans

\* What verify accepts grants what the capability of now requires and allows,
\* nothing the policy of now prohibits, and escalations only when confirmed.
THEOREM AuthorizedWithinAuthorityHolds == TrustSpec => []AuthorizedWithinAuthority
<1>1. TrustInv => AuthorizedWithinAuthority
  <2> SUFFICES ASSUME TrustInv, NEW d \in decisions, Authorizes(d)
               PROVE  /\ capability.required \subseteq d.effective
                      /\ d.effective \subseteq Allowed(capability) \ capability.forbidden
                      /\ d.effective \cap policy.prohibited = {}
                      /\ d.effective \cap policy.escalation # {} => d.review.confirmed
    BY DEF AuthorizedWithinAuthority
  <2>1. PICK c, r :
            /\ d = Decision(c, BoundReview(c, r), policy, capability)
            /\ Verdict(c, BoundReview(c, r), policy, capability) = "APPROVED"
    BY AuthorizedIsAssessed
  <2> DEFINE review == BoundReview(c, r)
  <2> HIDE DEF review
  <2>2. d.effective = review.approved /\ d.review = review
    BY <2>1, DecisionFields DEF review
  <2>3. /\ ~Rejects(c, review, policy, capability)
        /\ EscalationNeeded(review, policy) # {} => review.confirmed
    BY <2>1, ApprovalMeans DEF review
  <2>4. /\ review.approved \subseteq review.requested
        /\ review.requested \cap capability.forbidden = {}
        /\ review.requested \subseteq Allowed(capability)
        /\ capability.required \subseteq review.approved
        /\ review.requested \cap policy.prohibited = {}
    BY <2>3 DEF Rejects
  <2>5. review.approved \cap policy.escalation # {} => review.confirmed
    BY <2>3, <2>4 DEF EscalationNeeded
  <2> QED BY <2>2, <2>4, <2>5
<1> QED BY <1>1, TrustInvariant, PTL

\* Packages with one digest hold the same data at the same paths.
LEMMA DigestDeterminesData ==
    ASSUME NEW p, NEW q, PackageDigest(p) = PackageDigest(q)
    PROVE  /\ DOMAIN p = DOMAIN q
           /\ \A path \in DOMAIN p : p[path].data = q[path].data
<1>1. DOMAIN p = DOMAIN PackageDigest(p) /\ DOMAIN q = DOMAIN PackageDigest(q)
  BY DEF PackageDigest
<1>2. \A path \in DOMAIN p : PackageDigest(p)[path] = p[path].data
  BY DEF PackageDigest
<1>3. \A path \in DOMAIN q : PackageDigest(q)[path] = q[path].data
  BY DEF PackageDigest
<1> QED BY <1>1, <1>2, <1>3

\* Whatever was edited since, the package a decision authorizes asks for nothing
\* its review left out.
THEOREM AuthorizedAskedForNothingElseHolds == TrustSpec => []AuthorizedAskedForNothingElse
<1>1. TrustInv => AuthorizedAskedForNothingElse
  <2> SUFFICES ASSUME TrustInv, NEW d \in decisions, Authorizes(d)
               PROVE  IF ManifestPath \in DOMAIN package
                      THEN package[ManifestPath].data.authority \subseteq d.review.requested
                      ELSE /\ MapTools(Tokens(package)).authority \subseteq d.review.requested
                           /\ MapTools(Tokens(package)).unmapped
                                 \subseteq d.review.acknowledged_unmapped_tools
    BY DEF AuthorizedAskedForNothingElse
  <2>1. PICK c, r :
            /\ Discovered(c)
            /\ d = Decision(c, BoundReview(c, r), policy, capability)
            /\ Verdict(c, BoundReview(c, r), policy, capability) = "APPROVED"
            /\ PackageDigest(package) = c.sha256
    BY AuthorizedIsAssessed
  <2> DEFINE review == BoundReview(c, r)
  <2> HIDE DEF review
  <2>2. d.review = review
    BY <2>1, DecisionFields DEF review
  <2>3. /\ c.authority_signals \subseteq review.requested
        /\ ~c.manifest_failed
        /\ c.unmapped_tools \subseteq review.acknowledged_unmapped_tools
    BY <2>1, ApprovalMeans DEF review, Rejects, Unreviewed
  <2>4. PICK p \in Packages, cap \in Capabilities, primary \in Assets, source \in Sources :
            c = Candidate(p, cap, primary, source)
    BY <2>1 DEF Discovered
  <2> DEFINE verified == ManifestPath \in DOMAIN p /\ ManifestVerifies(p, cap, primary)
             tools == MapTools(Tokens(p))
  <2>5. /\ c.sha256 = PackageDigest(p)
        /\ c.authority_signals = IF verified THEN p[ManifestPath].data.authority
                                 ELSE tools.authority
        /\ c.unmapped_tools = IF verified THEN {} ELSE tools.unmapped
        /\ c.manifest_failed = (ManifestPath \in DOMAIN p /\ ~verified)
    BY <2>4 DEF Candidate
  <2> HIDE DEF verified, tools
  <2>6. /\ DOMAIN package = DOMAIN p
        /\ \A path \in DOMAIN package : package[path].data = p[path].data
    BY <2>1, <2>5, DigestDeterminesData
  <2>7. CASE ManifestPath \in DOMAIN package
    <3>1. verified
      BY <2>3, <2>5, <2>6, <2>7
    <3>2. package[ManifestPath].data.authority = c.authority_signals
      BY <2>5, <2>6, <2>7, <3>1
    <3> QED BY <2>2, <2>3, <2>7, <3>2
  <2>8. CASE ManifestPath \notin DOMAIN package
    <3>1. MapTools(Tokens(package)) = tools
      BY <2>6 DEF Tokens, tools
    <3>2. c.authority_signals = tools.authority /\ c.unmapped_tools = tools.unmapped
      BY <2>5, <2>6, <2>8 DEF verified
    <3> QED BY <2>2, <2>3, <2>8, <3>1, <3>2
  <2> QED BY <2>7, <2>8
<1> QED BY <1>1, TrustInvariant, PTL

-----------------------------------------------------------------------------
(* The inductive invariant.                                                *)

Fields == {"sha", "sources", "knowledge", "claims", "relationships", "records", "queries"}

Ranked(sources) ==
    \A src \in DOMAIN sources :
        "authority_rank" \in DOMAIN sources[src] /\ sources[src].authority_rank \in Nat

Document ==
    /\ DOMAIN snapshot = Fields
    /\ snapshot.relationships \in Seq(Range(snapshot.relationships))
    /\ IsFiniteSet(snapshot.claims)
    /\ Ranked(snapshot.sources)

\* What has been selected belongs to every closed set, and what the present pass
\* went by is followed as long as the pass found nothing.
Walk(edges, seeds, selected, next, changed) ==
    /\ edges \in Seq(Range(edges))
    /\ next \in Nat \ {0}
    /\ seeds \subseteq selected
    /\ \A S : Closed(S, seeds, edges) => selected \subseteq S
    /\ ~changed => \A i \in DOMAIN edges : i < next => Reached(edges[i], selected) \subseteq selected

Walking ==
    \E edges, seeds, selected, next, changed :
        /\ compile = [step |-> "walk", edges |-> edges, seeds |-> seeds,
                      selected |-> selected, next |-> next, changed |-> changed]
        /\ Walk(edges, seeds, selected, next, changed)

Done ==
    /\ compile.step = "done"
    /\ Closed(compile.selected, compile.seeds, compile.edges)
    /\ \A S : Closed(S, compile.seeds, compile.edges) => compile.selected \subseteq S

KnowledgeInv == Document /\ (compile = Idle \/ Walking \/ Done)

-----------------------------------------------------------------------------
(* The walk.                                                               *)

\* More selected entries reach at least as much.
LEMMA ReachedMonotone ==
    ASSUME NEW edge, NEW A, NEW B, A \subseteq B, NEW x \in Reached(edge, A)
    PROVE  x \in Reached(edge, B) \/ x \in B
  BY DEF Reached

\* A relationship that is followed keeps the walk's invariant.
LEMMA WalkEdge ==
    ASSUME NEW edges, NEW seeds, NEW selected, NEW next, NEW changed,
           Walk(edges, seeds, selected, next, changed), next \in DOMAIN edges,
           NEW found, ~found => ~changed /\ Reached(edges[next], selected) \subseteq selected
    PROVE  Walk(edges, seeds, selected \cup Reached(edges[next], selected), next + 1, found)
<1> DEFINE reached == Reached(edges[next], selected)
           after == selected \cup reached
<1>1. edges \in Seq(Range(edges)) /\ next + 1 \in Nat \ {0} /\ seeds \subseteq after
  BY DEF Walk
<1>2. ASSUME NEW S, Closed(S, seeds, edges) PROVE after \subseteq S
  <2>1. selected \subseteq S
    BY <1>2 DEF Walk
  <2>2. Reached(edges[next], S) \subseteq S
    BY <1>2 DEF Closed
  <2>3. reached \subseteq S
    BY <2>1, <2>2, ReachedMonotone
  <2> QED BY <2>1, <2>3
<1>3. ASSUME ~found, NEW i \in DOMAIN edges, i < next + 1
      PROVE  Reached(edges[i], after) \subseteq after
  <2>1. after = selected /\ ~changed
    BY <1>3
  <2>2. i \in Nat /\ next \in Nat
    BY DEF Walk
  <2>3. CASE i < next
    BY <2>1, <2>3 DEF Walk
  <2>4. CASE i = next
    BY <2>1, <2>4, <1>3
  <2>5. i < next \/ i = next
    BY <1>3, <2>2
  <2> QED BY <2>3, <2>4, <2>5, Zenon
<1> HIDE DEF reached, after
<1>4. Walk(edges, seeds, after, next + 1, found)
  BY <1>1, <1>2, <1>3 DEF Walk
<1> QED BY <1>4 DEF reached, after

\* A pass that ends without finding anything has closed what is selected.
LEMMA WalkEnds ==
    ASSUME NEW edges, NEW seeds, NEW selected, NEW next,
           Walk(edges, seeds, selected, next, FALSE), next > Len(edges)
    PROVE  /\ Closed(selected, seeds, edges)
           /\ \A S : Closed(S, seeds, edges) => selected \subseteq S
<1>1. DOMAIN edges = 1 .. Len(edges) /\ Len(edges) \in Nat
  BY DEF Walk
<1>2. \A i \in DOMAIN edges : i < next
  BY <1>1 DEF Walk
<1> QED BY <1>2 DEF Walk, Closed

-----------------------------------------------------------------------------
(* Every step keeps the invariant.                                         *)

LEMMA KnowledgeBegins == KnowledgeInit => KnowledgeInv
  BY SnapshotsAreDocuments DEF KnowledgeInit, KnowledgeInv, Document, Fields, Ranked

\* An author's edit leaves a document a document.
LEMMA EditsKeepDocument == Document /\ Authoring => Document' /\ UNCHANGED compile
<1> SUFFICES ASSUME Document, Authoring PROVE Document' /\ UNCHANGED compile
  OBVIOUS
<1>1. UNCHANGED compile
  BY DEF Authoring, AddClaim, AddRecord, EndRecord, Retrieve, Lose, Commit, Edit
<1>2. CASE AddClaim
  <2>1. PICK c : snapshot' = [snapshot EXCEPT !.claims = @ \cup {c}]
    BY <1>2 DEF AddClaim
  <2>2. /\ DOMAIN snapshot' = DOMAIN snapshot
        /\ snapshot'.claims = snapshot.claims \cup {c}
        /\ snapshot'.relationships = snapshot.relationships
        /\ snapshot'.sources = snapshot.sources
    BY <2>1 DEF Document, Fields
  <2>3. IsFiniteSet(snapshot'.claims)
    BY <2>2, FS_AddElement DEF Document
  <2> QED BY <1>1, <2>2, <2>3 DEF Document, Ranked
<1>3. ASSUME NEW records, snapshot' = [snapshot EXCEPT !.records = records]
      PROVE  Document'
  BY <1>3 DEF Document, Fields, Ranked
<1>4. CASE AddRecord
  BY <1>1, <1>3, <1>4 DEF AddRecord
<1>5. CASE EndRecord
  BY <1>1, <1>3, <1>5 DEF EndRecord
<1>6. ASSUME NEW sources, snapshot' = [snapshot EXCEPT !.sources = sources], Ranked(sources)
      PROVE  Document'
  BY <1>6 DEF Document, Fields, Ranked
<1>7. CASE Retrieve
  <2>1. PICK src \in DOMAIN snapshot.sources :
            snapshot' = [snapshot EXCEPT !.sources[src].retrieval = "retrieved",
                                         !.sources[src].repository_sha = snapshot.sha]
    BY <1>7 DEF Retrieve
  <2> DEFINE source == [snapshot.sources[src] EXCEPT !.retrieval = "retrieved",
                                                     !.repository_sha = snapshot.sha]
             sources == [snapshot.sources EXCEPT ![src] = source]
  <2>2. snapshot' = [snapshot EXCEPT !.sources = sources]
    BY <2>1 DEF Document, Fields
  <2>3. /\ "authority_rank" \in DOMAIN source
        /\ source.authority_rank = snapshot.sources[src].authority_rank
    BY DEF Document, Ranked
  <2>4. Ranked(sources)
    BY <2>3 DEF Document, Ranked
  <2> QED BY <1>1, <1>6, <2>2, <2>4
<1>8. CASE Lose
  <2>1. PICK src \in DOMAIN snapshot.sources :
            snapshot' = [snapshot EXCEPT !.sources[src].retrieval = "unavailable"]
    BY <1>8 DEF Lose
  <2> DEFINE source == [snapshot.sources[src] EXCEPT !.retrieval = "unavailable"]
             sources == [snapshot.sources EXCEPT ![src] = source]
  <2>2. snapshot' = [snapshot EXCEPT !.sources = sources]
    BY <2>1 DEF Document, Fields
  <2>3. /\ "authority_rank" \in DOMAIN source
        /\ source.authority_rank = snapshot.sources[src].authority_rank
    BY DEF Document, Ranked
  <2>4. Ranked(sources)
    BY <2>3 DEF Document, Ranked
  <2> QED BY <1>1, <1>6, <2>2, <2>4
<1>9. CASE Commit
  <2>1. PICK sha \in Shas \ {snapshot.sha} :
            \/ snapshot' = [snapshot EXCEPT !.sha = sha]
            \/ \E queries : snapshot' = [snapshot EXCEPT !.sha = sha, !.queries = queries]
    BY <1>9 DEF Commit
  <2>2. /\ DOMAIN snapshot' = DOMAIN snapshot
        /\ snapshot'.claims = snapshot.claims
        /\ snapshot'.relationships = snapshot.relationships
        /\ snapshot'.sources = snapshot.sources
    BY <2>1 DEF Document, Fields
  <2> QED BY <1>1, <2>2 DEF Document, Ranked
<1> QED BY <1>2, <1>4, <1>5, <1>7, <1>8, <1>9 DEF Authoring

LEMMA KnowledgeKeeps == KnowledgeInv /\ [KnowledgeNext]_knowledgeVars => KnowledgeInv'
<1> SUFFICES ASSUME KnowledgeInv, [KnowledgeNext]_knowledgeVars PROVE KnowledgeInv'
  OBVIOUS
<1> USE DEF KnowledgeInv
<1>1. CASE UNCHANGED knowledgeVars
  BY <1>1 DEF knowledgeVars, Document, Walking, Done
<1>2. CASE Authoring
  BY <1>2, EditsKeepDocument DEF Walking, Done
<1>3. ASSUME NEW q \in DOMAIN snapshot.queries, CompileStart(q) PROVE KnowledgeInv'
  <2> DEFINE edges == snapshot.relationships
             seeds == snapshot.queries[q].context_entity_ids
  <2>1. Walk(edges, seeds, seeds, 1, FALSE)
    <3>1. \A S : Closed(S, seeds, edges) => seeds \subseteq S
      BY DEF Closed
    <3>2. \A i \in DOMAIN edges : ~(i < 1)
      BY DEF Document
    <3> QED BY <3>1, <3>2 DEF Walk, Document
  <2>2. compile' = [step |-> "walk", edges |-> edges, seeds |-> seeds, selected |-> seeds,
                    next |-> 1, changed |-> FALSE]
    BY <1>3 DEF CompileStart
  <2>3. Walking'
    BY <2>1, <2>2 DEF Walking
  <2>4. Document'
    BY <1>3 DEF CompileStart, Document
  <2> QED BY <2>3, <2>4
<1>4. CASE Compiling
  <2>1. compile.step = "walk" /\ Document'
    BY <1>4 DEF Compiling, CompileEdge, CompileAgain, CompileEnd, Document
  <2>2. PICK edges, seeds, selected, next, changed :
            /\ compile = [step |-> "walk", edges |-> edges, seeds |-> seeds,
                          selected |-> selected, next |-> next, changed |-> changed]
            /\ Walk(edges, seeds, selected, next, changed)
    BY <2>1 DEF Walking, Done, Idle
  <2>3. CASE CompileEdge
    <3>1. next \in DOMAIN edges
      BY <2>2, <2>3 DEF CompileEdge, Walk
    <3> DEFINE reached == Reached(edges[next], selected)
               found == changed \/ ~(reached \subseteq selected)
    <3>2. compile' = [step |-> "walk", edges |-> edges, seeds |-> seeds,
                      selected |-> selected \cup reached, next |-> next + 1, changed |-> found]
      BY <2>2, <2>3 DEF CompileEdge
    <3>3. ~found => ~changed /\ reached \subseteq selected
      OBVIOUS
    <3> HIDE DEF found
    <3>4. Walk(edges, seeds, selected \cup reached, next + 1, found)
      BY <2>2, <3>1, <3>3, WalkEdge
    <3> QED BY <2>1, <3>2, <3>4 DEF Walking
  <2>4. CASE CompileAgain
    <3>1. compile' = [step |-> "walk", edges |-> edges, seeds |-> seeds,
                      selected |-> selected, next |-> 1, changed |-> FALSE]
      BY <2>2, <2>4 DEF CompileAgain
    <3>2. \A i \in DOMAIN edges : ~(i < 1)
      BY <2>2 DEF Walk
    <3>3. Walk(edges, seeds, selected, 1, FALSE)
      BY <2>2, <3>2 DEF Walk
    <3> QED BY <2>1, <3>1, <3>3 DEF Walking
  <2>5. CASE CompileEnd
    <3>1. /\ next > Len(edges)
          /\ ~changed
          /\ compile' = [step |-> "done", edges |-> edges, seeds |-> seeds, selected |-> selected]
      BY <2>2, <2>5 DEF CompileEnd
    <3>2. Walk(edges, seeds, selected, next, FALSE)
      BY <2>2, <3>1 DEF Walk
    <3>3. Done'
      BY <3>1, <3>2, WalkEnds DEF Done
    <3> QED BY <2>1, <3>3
  <2> QED BY <1>4, <2>3, <2>4, <2>5 DEF Compiling
<1> QED BY <1>1, <1>2, <1>3, <1>4 DEF KnowledgeNext

\* A snapshot stays a document, and a compile between any two edits stays inside
\* every closed set around its seeds.
THEOREM KnowledgeInvariant == KnowledgeSpec => []KnowledgeInv
  BY KnowledgeBegins, KnowledgeKeeps, PTL DEF KnowledgeSpec

-----------------------------------------------------------------------------
(* The properties.                                                         *)

\* A compiled context is the least closed set of entries around its seeds, for
\* every set of relationships in every order.
THEOREM ContextIsLeastClosureHolds == KnowledgeSpec => []ContextIsLeastClosure
<1>1. KnowledgeInv => ContextIsLeastClosure
  BY DEF KnowledgeInv, Walking, Done, Idle, ContextIsLeastClosure
<1> QED BY <1>1, KnowledgeInvariant, PTL
-----------------------------------------------------------------------------
(* An authorization is earned.                                             *)

\* A set of naturals that is not empty has a least element.
LEMMA LeastNatural ==
    ASSUME NEW T, T \subseteq Nat, T # {}
    PROVE  \E x \in T : \A y \in T : x <= y
<1>1. PICK x \in T : \A y \in T : <<y, x>> \notin OpToRel(<, Nat)
  BY WFMin, NatLessThanWellFounded
<1>2. ASSUME NEW y \in T PROVE x <= y
  <2>1. ~(y < x)
    BY <1>1 DEF OpToRel
  <2> QED BY <2>1
<1> QED BY <1>2

\* Among ranked claims, some have the highest authority.
LEMMA TopIsThere ==
    ASSUME NEW claims, claims # {}, \A c \in claims : RankOf(snapshot, c) \in Nat
    PROVE  Top(snapshot, claims) # {}
<1> DEFINE ranks == { RankOf(snapshot, c) : c \in claims }
<1>1. PICK x \in ranks : \A y \in ranks : x <= y
  <2>1. ranks \subseteq Nat /\ ranks # {}
    OBVIOUS
  <2> QED BY <2>1, LeastNatural
<1>2. PICK c \in claims : RankOf(snapshot, c) = x
  OBVIOUS
<1>3. c \in Top(snapshot, claims)
  BY <1>1, <1>2 DEF Top
<1> QED BY <1>3

\* The claims of a valid document have a rank.
LEMMA ClaimsAreRanked ==
    ASSUME Document, SnapshotValid(snapshot), NEW c \in snapshot.claims
    PROVE  RankOf(snapshot, c) \in Nat
<1>1. c.source_ref \in DOMAIN snapshot.sources
  BY DEF SnapshotValid, ReferencesResolve
<1> QED BY <1>1 DEF Document, Ranked, RankOf

\* The values of finitely many claims are finitely many.
LEMMA FiniteValues ==
    ASSUME NEW claims, IsFiniteSet(claims)
    PROVE  IsFiniteSet({ c.value : c \in claims })
<1> DEFINE values == { c.value : c \in claims }
           f == [c \in claims |-> c.value]
<1>1. f \in Surjection(claims, values)
  BY DEF Surjection
<1> HIDE DEF f, values
<1>2. IsFiniteSet(values)
  BY <1>1, FS_Surjection
<1> QED BY <1>2 DEF values

\* What a resolution is: none, or the one value of the highest authority.
LEMMA ResolveCases ==
    ASSUME Document, SnapshotValid(snapshot), NEW subject, NEW predicate
    PROVE  LET res == Resolve(snapshot, subject, predicate)
               current == Current(snapshot, subject, predicate)
           IN  \/ res.status \in {"UNKNOWN", "STALE", "CONTRADICTORY"} /\ res.value = "none"
               \/ /\ res.status = "RESOLVED"
                  /\ Top(snapshot, current) # {}
                  /\ \A c \in Top(snapshot, current) : c.value = res.value
<1> DEFINE claims == ClaimsOf(snapshot, subject, predicate)
           current == Current(snapshot, subject, predicate)
           top == Top(snapshot, current)
           values == { c.value : c \in top }
           res == Resolve(snapshot, subject, predicate)
<1>1. /\ top \subseteq current
      /\ current \subseteq claims
      /\ claims \subseteq snapshot.claims
  BY DEF Top, Current, ClaimsOf
<1>2. IsFiniteSet(values)
  <2>1. IsFiniteSet(top)
    BY <1>1, FS_Subset DEF Document
  <2> QED BY <2>1, FiniteValues
<1>3. current # {} => top # {}
  BY <1>1, ClaimsAreRanked, TopIsThere
<1>4. current # {} => Cardinality(values) > 1 \/ Cardinality(values) = 1
  <2> SUFFICES ASSUME current # {} PROVE Cardinality(values) > 1 \/ Cardinality(values) = 1
    OBVIOUS
  <2>1. values # {}
    BY <1>3
  <2>2. Cardinality(values) \in Nat /\ Cardinality(values) # 0
    BY <1>2, <2>1, FS_CardinalityType, FS_EmptySet
  <2> QED BY <2>2
<1>5. CASE current = {}
  <2>1. values = {}
    BY <1>1, <1>5
  <2>2. Cardinality(values) = 0
    BY <2>1, FS_EmptySet
  <2>3. res \in {[status |-> "UNKNOWN", value |-> "none"], [status |-> "STALE", value |-> "none"]}
    BY <1>5, <2>2 DEF Resolve
  <2> QED BY <2>3
<1>6. CASE current # {} /\ Cardinality(values) > 1
  <2>1. claims # {}
    BY <1>1, <1>6
  <2>2. Cardinality(values) # 1
    BY <1>6
  <2>3. res = [status |-> "CONTRADICTORY", value |-> "none"]
    BY <1>6, <2>1, <2>2 DEF Resolve
  <2> QED BY <2>3
<1>7. CASE current # {} /\ Cardinality(values) = 1
  <2>1. claims # {}
    BY <1>1, <1>7
  <2>2. PICK v : values = {v}
    BY <1>2, <1>7, FS_Singleton
  <2>3. ~(Cardinality(values) > 1)
    BY <1>7
  <2>4. res = [status |-> "RESOLVED", value |-> CHOOSE w \in values : TRUE]
    BY <1>7, <2>1, <2>3 DEF Resolve
  <2>5. res.status = "RESOLVED" /\ res.value = v
    BY <2>2, <2>4
  <2>6. \A c \in top : c.value = v
    BY <2>2
  <2> QED BY <1>3, <1>7, <2>5, <2>6
<1> QED BY <1>4, <1>5, <1>6, <1>7

\* The verdict AUTHORIZED means the resolution says so and a record covers it.
LEMMA AuthorityMeans ==
    ASSUME Document, SnapshotValid(snapshot), NEW query, QueryAuthority(snapshot, query) = "AUTHORIZED"
    PROVE  LET res == Resolve(snapshot, query.subject_id, "implementation_authorization")
               current == Current(snapshot, query.subject_id, "implementation_authorization")
           IN  /\ Top(snapshot, current) # {}
               /\ \A c \in Top(snapshot, current) : c.value = "authorized"
               /\ \E r \in ActiveRecords(snapshot, query.subject_id) : Exact(snapshot, query.target, r)
<1> DEFINE res == Resolve(snapshot, query.subject_id, "implementation_authorization")
           current == Current(snapshot, query.subject_id, "implementation_authorization")
           top == Top(snapshot, current)
           covered == \E r \in ActiveRecords(snapshot, query.subject_id) :
                         Exact(snapshot, query.target, r)
<1>1. \/ res.status \in {"UNKNOWN", "STALE", "CONTRADICTORY"} /\ res.value = "none"
      \/ /\ res.status = "RESOLVED"
         /\ top # {}
         /\ \A c \in top : c.value = res.value
  BY ResolveCases
<1>2. \A c \in top : c.value \in {"not-authorized", "authorized", "revoked"}
  <2> SUFFICES ASSUME NEW c \in top
               PROVE  c.value \in {"not-authorized", "authorized", "revoked"}
    OBVIOUS
  <2>1. c \in snapshot.claims /\ c.predicate = "implementation_authorization"
    BY DEF Top, Current, ClaimsOf
  <2>2. c.value \in Predicates[c.predicate]
    BY <2>1 DEF SnapshotValid
  <2> QED BY <2>1, <2>2 DEF Predicates
<1> HIDE DEF res, top
<1>3. CASE res.status \in {"UNKNOWN", "STALE", "CONTRADICTORY"} /\ res.value = "none"
  BY <1>3 DEF QueryAuthority, res
<1>4. CASE /\ res.status = "RESOLVED"
           /\ top # {}
           /\ \A c \in top : c.value = res.value
  <2>1. res.value \in {"not-authorized", "authorized", "revoked"}
    BY <1>2, <1>4
  <2>2. res.value = "authorized" /\ covered
    BY <1>4, <2>1 DEF QueryAuthority, res
  <2> QED BY <1>4, <2>2 DEF top
<1> QED BY <1>1, <1>3, <1>4

\* A query is authorized only while the sources read at this commit with the
\* highest authority all say so, and an owner's active record covers this subject,
\* scope and plan,
\* for every snapshot and every sequence of edits.
THEOREM AuthorizedIsEarnedHolds == KnowledgeSpec => []AuthorizedIsEarned
<1>1. KnowledgeInv => AuthorizedIsEarned
  <2> SUFFICES ASSUME Document, NEW q \in AuthorityQueries(snapshot), Authorized(snapshot, q)
               PROVE  LET s == snapshot
                          query == s.queries[q]
                          Read(ref) == /\ s.sources[ref].retrieval = "retrieved"
                                       /\ s.sources[ref].repository_sha = s.sha
                          said == {c \in s.claims : /\ c.subject_id = query.subject_id
                                                    /\ c.predicate = "implementation_authorization"
                                                    /\ Read(c.source_ref)}
                      IN  /\ \E c \in said :
                                 /\ c.value = "authorized"
                                 /\ \A d \in said : d.value # "authorized" =>
                                        s.sources[d.source_ref].authority_rank
                                          > s.sources[c.source_ref].authority_rank
                          /\ \E r \in s.records :
                                 /\ r.status = "active" /\ r.subject_id = query.subject_id
                                 /\ \A term \in {"owner", "scope", "plan_path", "plan_sha256"} :
                                        r[term] = query.target[term]
                                 /\ r.base_repository_sha = s.sha
                                 /\ Read(r.source_ref)
                                 /\ s.sources[r.source_ref].kind = "owner-authorization"
    BY DEF KnowledgeInv, AuthorizedIsEarned
  <2> DEFINE query == snapshot.queries[q]
             current == Current(snapshot, query.subject_id, "implementation_authorization")
             top == Top(snapshot, current)
             said == {c \in snapshot.claims :
                         /\ c.subject_id = query.subject_id
                         /\ c.predicate = "implementation_authorization"
                         /\ snapshot.sources[c.source_ref].retrieval = "retrieved"
                         /\ snapshot.sources[c.source_ref].repository_sha = snapshot.sha}
  <2>1. q \in DOMAIN snapshot.queries /\ SnapshotValid(snapshot)
    BY DEF AuthorityQueries
  <2>2. QueryAuthority(snapshot, query) = "AUTHORIZED"
    BY <2>1 DEF Authorized, AdjudicateExit
  <2>3. /\ top # {}
        /\ \A c \in top : c.value = "authorized"
        /\ \E r \in ActiveRecords(snapshot, query.subject_id) : Exact(snapshot, query.target, r)
    BY <2>1, <2>2, AuthorityMeans
  <2>4. said = current
    BY DEF Current, ClaimsOf, IsCurrent
  <2>5. PICK c \in top : TRUE
    BY <2>3
  <2>6. c \in said /\ \A d \in said : RankOf(snapshot, c) <= RankOf(snapshot, d)
    BY <2>4, <2>5 DEF Top
  <2>7. ASSUME NEW d \in said, d.value # "authorized"
        PROVE  RankOf(snapshot, d) > RankOf(snapshot, c)
    <3>1. d \notin top
      BY <2>3, <2>7
    <3>2. PICK e \in said : ~(RankOf(snapshot, d) <= RankOf(snapshot, e))
      BY <2>4, <3>1 DEF Top
    <3>3. RankOf(snapshot, c) <= RankOf(snapshot, e)
      BY <2>6
    <3>4. /\ RankOf(snapshot, c) \in Nat
          /\ RankOf(snapshot, d) \in Nat
          /\ RankOf(snapshot, e) \in Nat
      BY <2>1, <2>6, ClaimsAreRanked
    <3> QED BY <3>2, <3>3, <3>4
  <2>8. PICK r \in ActiveRecords(snapshot, query.subject_id) : Exact(snapshot, query.target, r)
    BY <2>3
  <2>9. query.target.repository_sha = snapshot.sha
    BY <2>1 DEF SnapshotValid, QueriesValid
  <2>10. /\ r \in snapshot.records
         /\ r.status = "active"
         /\ r.subject_id = query.subject_id
         /\ \A term \in {"owner", "scope", "plan_path", "plan_sha256"} :
                r[term] = query.target[term]
         /\ r.base_repository_sha = snapshot.sha
         /\ snapshot.sources[r.source_ref].retrieval = "retrieved"
         /\ snapshot.sources[r.source_ref].repository_sha = snapshot.sha
    BY <2>8, <2>9 DEF ActiveRecords, Exact
  <2>11. snapshot.sources[r.source_ref].kind = "owner-authorization"
    BY <2>1, <2>10 DEF SnapshotValid, RecordsRest
  <2>12. c.value = "authorized"
    BY <2>3, <2>5
  <2>13. \E e \in said :
            /\ e.value = "authorized"
            /\ \A d \in said : d.value # "authorized" =>
                   snapshot.sources[d.source_ref].authority_rank
                     > snapshot.sources[e.source_ref].authority_rank
    BY <2>6, <2>7, <2>12 DEF RankOf
  <2> QED BY <2>10, <2>11, <2>13
<1> QED BY <1>1, KnowledgeInvariant, PTL

-----------------------------------------------------------------------------
(* A strictly valid snapshot tells its story in order.                     *)

Said(subject, predicate) == { c.value : c \in Current(snapshot, subject, predicate) }

\* Without contradictions a current value is the only one, and the resolution.
LEMMA SaidIsResolved ==
    ASSUME Document, SnapshotValid(snapshot), Contradictions(snapshot) = {},
           NEW subject, NEW predicate, NEW value \in Said(subject, predicate)
    PROVE  /\ Said(subject, predicate) = {value}
           /\ Value(snapshot, subject, predicate) = value
<1> DEFINE current == Current(snapshot, subject, predicate)
           said == { c.value : c \in current }
<1>1. /\ current \subseteq snapshot.claims
      /\ \A c \in current : c.subject_id = subject /\ c.predicate = predicate
  BY DEF Current, ClaimsOf
<1>2. PICK claim \in current : claim.value = value
  BY DEF Said
<1>3. IsFiniteSet(said)
  <2>1. IsFiniteSet(current)
    BY <1>1, FS_Subset DEF Document
  <2> QED BY <2>1, FiniteValues
<1>4. ~(Cardinality(said) > 1)
  <2> DEFINE sp == <<subject, predicate>>
  <2>1. sp \in { <<c.subject_id, c.predicate>> : c \in snapshot.claims }
    BY <1>1, <1>2
  <2>2. sp[1] = subject /\ sp[2] = predicate
    OBVIOUS
  <2> HIDE DEF sp
  <2>3. ~(Cardinality({ c.value : c \in Current(snapshot, sp[1], sp[2]) }) > 1)
    BY <2>1 DEF Contradictions
  <2> QED BY <2>2, <2>3
<1>5. said = {value}
  <2>1. Cardinality(said) \in Nat /\ Cardinality(said) # 0
    <3>1. said # {}
      BY <1>2
    <3> QED BY <1>3, <3>1, FS_CardinalityType, FS_EmptySet
  <2>2. Cardinality(said) = 1
    BY <1>4, <2>1
  <2>3. PICK v : said = {v}
    BY <1>3, <2>2, FS_Singleton
  <2> QED BY <1>2, <2>3
<1>6. Value(snapshot, subject, predicate) = value
  <2> DEFINE res == Resolve(snapshot, subject, predicate)
             top == Top(snapshot, current)
             values == { c.value : c \in top }
  <2>1. top # {} /\ \A c \in top : c.value = value
    <3>1. top # {}
      BY <1>1, <1>2, ClaimsAreRanked, TopIsThere
    <3> QED BY <1>5, <3>1 DEF Top
  <2>2. values = {value}
    BY <2>1
  <2>3. Cardinality(values) = 1 /\ ~(Cardinality(values) > 1)
    <3>1. Cardinality(values) = 1
      BY <2>2, FS_Singleton
    <3> QED BY <3>1
  <2>4. ClaimsOf(snapshot, subject, predicate) # {} /\ current # {}
    BY <1>2 DEF Current
  <2>5. res = [status |-> "RESOLVED", value |-> CHOOSE v \in values : TRUE]
    BY <2>3, <2>4 DEF Resolve
  <2>6. res.value = value
    BY <2>2, <2>5
  <2> QED BY <2>6 DEF Value
<1> QED BY <1>5, <1>6 DEF Said

\* A value that is not "none" was said.
LEMMA ResolvedIsSaid ==
    ASSUME Document, SnapshotValid(snapshot), NEW subject, NEW predicate,
           Value(snapshot, subject, predicate) # "none"
    PROVE  Value(snapshot, subject, predicate) \in Said(subject, predicate)
<1> DEFINE res == Resolve(snapshot, subject, predicate)
           current == Current(snapshot, subject, predicate)
<1>1. /\ Top(snapshot, current) # {}
      /\ \A c \in Top(snapshot, current) : c.value = res.value
  BY ResolveCases DEF Value
<1>2. PICK c \in Top(snapshot, current) : c.value = res.value
  BY <1>1
<1>3. c \in current
  BY DEF Top
<1> QED BY <1>2, <1>3 DEF Said, Value

\* In a valid snapshot without findings, what is accepted was only ever verified,
\* what is verified is implemented and what is implemented is authorized, for
\* every snapshot and every sequence of edits.
THEOREM StrictValidationChainsHolds == KnowledgeSpec => []StrictValidationChains
<1>1. KnowledgeInv => StrictValidationChains
  <2> SUFFICES ASSUME Document, ValidateExit(snapshot) = 0, NEW c \in snapshot.claims
               PROVE  LET said(predicate) ==
                              {d.value : d \in {d \in snapshot.claims :
                                  /\ d.subject_id = c.subject_id /\ d.predicate = predicate
                                  /\ snapshot.sources[d.source_ref].retrieval = "retrieved"
                                  /\ snapshot.sources[d.source_ref].repository_sha = snapshot.sha}}
                      IN  /\ "accepted" \in said("acceptance_status") =>
                                 said("verification_status") = {"verified"}
                          /\ "verified" \in said("verification_status") =>
                                 said("implementation_status") = {"implemented"}
                          /\ "implemented" \in said("implementation_status") =>
                                 said("implementation_authorization") = {"authorized"}
    BY Zenon DEF KnowledgeInv, StrictValidationChains
  <2> DEFINE V(predicate) == Value(snapshot, c.subject_id, predicate)
             said(predicate) ==
                 {d.value : d \in {d \in snapshot.claims :
                     /\ d.subject_id = c.subject_id /\ d.predicate = predicate
                     /\ snapshot.sources[d.source_ref].retrieval = "retrieved"
                     /\ snapshot.sources[d.source_ref].repository_sha = snapshot.sha}}
  <2>0. ASSUME NEW predicate
        PROVE  said(predicate) = Said(c.subject_id, predicate)
    <3>1. Current(snapshot, c.subject_id, predicate)
              = {d \in snapshot.claims :
                     /\ d.subject_id = c.subject_id /\ d.predicate = predicate
                     /\ snapshot.sources[d.source_ref].retrieval = "retrieved"
                     /\ snapshot.sources[d.source_ref].repository_sha = snapshot.sha}
      BY DEF Current, ClaimsOf, IsCurrent
    <3> QED BY <3>1, Zenon DEF Said
  <2>1. /\ SnapshotValid(snapshot)
        /\ Contradictions(snapshot) = {}
        /\ LifecycleFindings(snapshot, c.subject_id) = {}
    BY DEF ValidateExit
  <2>2. /\ V("acceptance_status") = "accepted" => V("verification_status") = "verified"
        /\ V("verification_status") = "verified" => V("implementation_status") = "implemented"
        /\ V("implementation_status") = "implemented" =>
               V("implementation_authorization") = "authorized"
    BY <2>1 DEF LifecycleFindings
  <2>3. ASSUME NEW predicate, NEW value \in said(predicate)
        PROVE  V(predicate) = value
    <3>1. value \in Said(c.subject_id, predicate)
      BY <2>0, <2>3, Zenon
    <3> QED BY <2>1, <3>1, SaidIsResolved
  <2>4. ASSUME NEW predicate, NEW value, value # "none", V(predicate) = value
        PROVE  said(predicate) = {value}
    <3>1. value \in Said(c.subject_id, predicate)
      BY <2>1, <2>4, ResolvedIsSaid
    <3>2. Said(c.subject_id, predicate) = {value}
      BY <2>1, <3>1, SaidIsResolved
    <3> QED BY <2>0, <3>2, Zenon
  <2> HIDE DEF V, said
  <2>5. "accepted" \in said("acceptance_status") => said("verification_status") = {"verified"}
    BY <2>2, <2>3, <2>4
  <2>6. "verified" \in said("verification_status") =>
            said("implementation_status") = {"implemented"}
    BY <2>2, <2>3, <2>4
  <2>7. "implemented" \in said("implementation_status") =>
            said("implementation_authorization") = {"authorized"}
    BY <2>2, <2>3, <2>4
  <2> QED BY <2>5, <2>6, <2>7 DEF said
<1> QED BY <1>1, KnowledgeInvariant, PTL
=============================================================================
