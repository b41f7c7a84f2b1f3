---------------------- MODULE ArsenalEvaluation_proofs ----------------------
(***************************************************************************)
(* Proofs about ArsenalQualification and ArsenalEvaluate, which try roles  *)
(* and methods on cases.  Of ArsenalQualification, for any roles, profiles,*)
(* stray files and clocks: a selection rests on a campaign that passed, and*)
(* does not depend on how the profiles are named.  Of ArsenalEvaluate, for *)
(* any corpora, disks, answers and edits: a success of an artifact was     *)
(* borne out by the procedure it names, an artifact validates only as it   *)
(* was written, and the record made of it is admissible.  The two share no *)
(* state: each theorem is of one specification.                            *)
(***************************************************************************)
EXTENDS ArsenalQualification, ArsenalEvaluate, FiniteSetTheorems, SequenceTheorems,
        WellFoundedInduction, TLAPS

-----------------------------------------------------------------------------
(* The invariant.                                                          *)

\* The digests profiles of a role have.
Digests(role) ==
    { ProfileDigest(role, implementation, policy) :
        implementation \in Implementations, policy \in Policies }

IsProfileOf(profile, role) == profile.role = role /\ profile.semantic_digest \in Digests(role)

ClockHolds == now \in Nat

ProfilesHold ==
    profiles # None => \A role \in Roles : IsProfileOf(profiles[role], role)

CampaignHolds ==
    campaign # None =>
        /\ campaign.role \in Roles
        /\ profiles # None
        /\ campaign = [role |-> campaign.role, profile |-> campaign.profile,
                       required |-> campaign.required,
                       rows |-> [passed |-> campaign.rows.passed, total |-> campaign.rows.total]]

\* A receipt is QUALIFIED only when no execution failed.
IssuedHold ==
    \A r \in issued :
        /\ r.evaluated_at \in Nat
        /\ r.evaluated_at <= now
        /\ r.verdict = "QUALIFIED" => r.passed = r.required

OutHolds ==
    \A role \in DOMAIN out :
        /\ role \in Roles
        /\ profiles # None
        /\ "receipt" \in DOMAIN out[role]
        /\ out[role].receipt \in issued
        /\ out[role].receipt.role = role

ShelfHolds ==
    /\ shelf = [profiles |-> shelf.profiles, snapshots |-> shelf.snapshots]
    /\ \A p \in shelf.profiles \ StrayProfiles : \E role \in Roles : IsProfileOf(p, role)

\* The receipt a snapshot was derived from.
Rests(s, r) ==
    /\ s.qualification_ref.id = r.qualification_id
    /\ r.role = s.role
    /\ s.valid_until = r.evaluated_at + CurrentnessHours
    /\ r.evaluated_at <= s.derived_at
    /\ s.eligibility = "QUALIFIED" => r.verdict = "QUALIFIED"

SnapshotsHold ==
    \A s \in shelf.snapshots \ StraySnapshots :
        /\ s.role \in Roles
        /\ s.profile_ref.digest \in Digests(s.role)
        /\ s.derived_at \in Nat
        /\ \E r \in issued : Rests(s, r)

QualificationInv ==
    /\ ClockHolds
    /\ ProfilesHold
    /\ CampaignHolds
    /\ IssuedHold
    /\ OutHolds
    /\ ShelfHolds
    /\ SnapshotsHold

-----------------------------------------------------------------------------
(* What the commands write.                                                *)

LEMMA WrittenFiles ==
    ASSUME NEW files, NEW name, NEW content
    PROVE  /\ DOMAIN Written(files, name, content) = DOMAIN files \cup {name}
           /\ Written(files, name, content)[name] = content
           /\ \A n \in DOMAIN files \ {name} : Written(files, name, content)[n] = files[n]
BY DEF Written

LEMMA ReceiptIsWritten ==
    ASSUME NEW files, NEW receipt
    PROVE  Written(files, "receipt", receipt).receipt = receipt
BY DEF Written

LEMMA ReceiptIsLeft ==
    ASSUME NEW files, NEW event, "receipt" \in DOMAIN files
    PROVE  Written(files, "event", event).receipt = files.receipt
BY DEF Written

LEMMA MaterializedProfile ==
    ASSUME NEW role, NEW implementation \in Implementations, NEW policy \in Policies
    PROVE  IsProfileOf(Profile(role, implementation, policy), role)
BY DEF IsProfileOf, Profile, Digests

LEMMA RoleOfDigest ==
    ASSUME NEW one, NEW other, NEW digest, digest \in Digests(one), digest \in Digests(other)
    PROVE  one = other
BY DEF Digests, ProfileDigest

LEMMA ReceiptFields ==
    ASSUME NEW c, NEW id
    PROVE  /\ Receipt(c, id).role = c.role
           /\ Receipt(c, id).evaluated_at = now
           /\ Receipt(c, id).verdict = "QUALIFIED" => c.rows.passed = c.rows.total
           /\ Receipt(c, id).passed = c.rows.passed
           /\ Receipt(c, id).required = c.required
BY DEF Receipt, Verdict

LEMMA SnapshotRests ==
    ASSUME NEW role, NEW receipt, NEW event, NEW id, receipt.role = role,
           receipt.evaluated_at <= now
    PROVE  LET s == EligibilitySnapshot(role, receipt, event, id)
           IN  /\ Rests(s, receipt)
               /\ s.role = role
               /\ s.profile_ref.digest = profiles[role].semantic_digest
               /\ s.derived_at = now
BY DEF EligibilitySnapshot, Rests, Eligibility, ProfileRef

-----------------------------------------------------------------------------
(* The steps.                                                              *)

LEMMA QualificationBegins == QualificationInit => QualificationInv
BY WindowIsNatural
   DEF QualificationInit, QualificationInv, ClockHolds, ProfilesHold, CampaignHolds,
       IssuedHold, OutHolds, ShelfHolds, SnapshotsHold, None

LEMMA MaterializeKeeps == QualificationInv /\ Materialize => QualificationInv'
<1> SUFFICES ASSUME QualificationInv, Materialize PROVE QualificationInv'
  OBVIOUS
<1>1. PICK implementation \in Implementations, policy \in Policies :
        profiles' = [role \in Roles |-> Profile(role, implementation, policy)]
  BY DEF Materialize
<1>2. \A role \in Roles : IsProfileOf(profiles'[role], role)
  BY <1>1, MaterializedProfile
<1>3. profiles' # None
  BY <1>1 DEF None, Roles
<1>4. /\ shelf'.snapshots = shelf.snapshots
      /\ shelf'.profiles = shelf.profiles \cup { profiles'[role] : role \in Roles }
      /\ shelf' = [profiles |-> shelf'.profiles, snapshots |-> shelf'.snapshots]
  BY DEF Materialize, QualificationInv, ShelfHolds
<1>5. UNCHANGED <<out, campaign, now, ids, issued>>
  BY DEF Materialize
<1>6. ProfilesHold'
  BY <1>2 DEF ProfilesHold, IsProfileOf, Digests
<1>7. ShelfHolds'
  BY <1>2, <1>4 DEF QualificationInv, ShelfHolds, IsProfileOf, Digests
<1>8. SnapshotsHold'
  BY <1>4, <1>5 DEF QualificationInv, SnapshotsHold, Rests, Digests
<1>9. ClockHolds' /\ CampaignHolds' /\ IssuedHold' /\ OutHolds'
  BY <1>3, <1>5 DEF QualificationInv, ClockHolds, CampaignHolds, IssuedHold, OutHolds
<1> QED BY <1>6, <1>7, <1>8, <1>9 DEF QualificationInv

\* Steps that move only the campaign.
LEMMA CampaignMoves ==
    ASSUME QualificationInv, CampaignHolds', UNCHANGED <<profiles, out, shelf, now, issued>>
    PROVE  QualificationInv'
BY DEF QualificationInv, ClockHolds, ProfilesHold, IssuedHold, OutHolds, ShelfHolds, SnapshotsHold,
       IsProfileOf, Digests, Rests

LEMMA RunKeeps ==
    QualificationInv /\ (RunCase \/ RunDies \/ \E role \in Roles : RunStart(role))
        => QualificationInv'
<1>1. ASSUME QualificationInv, RunCase PROVE QualificationInv'
  <2>1. CampaignHolds'
    BY <1>1 DEF RunCase, QualificationInv, CampaignHolds
  <2> QED BY <1>1, <2>1, CampaignMoves DEF RunCase
<1>2. ASSUME QualificationInv, RunDies PROVE QualificationInv'
  <2>1. CampaignHolds'
    BY <1>2 DEF RunDies, CampaignHolds
  <2> QED BY <1>2, <2>1, CampaignMoves DEF RunDies
<1>3. ASSUME QualificationInv, NEW role \in Roles, RunStart(role) PROVE QualificationInv'
  <2>1. CampaignHolds'
    BY <1>3 DEF RunStart, CampaignHolds
  <2> QED BY <1>3, <2>1, CampaignMoves DEF RunStart
<1> QED BY <1>1, <1>2, <1>3

LEMMA RunEndKeeps == QualificationInv /\ RunEnd => QualificationInv'
<1> SUFFICES ASSUME QualificationInv, RunEnd PROVE QualificationInv'
  OBVIOUS
<1> DEFINE receipt == Receipt(campaign, ids)
           role == campaign.role
           files == IF role \in DOMAIN out THEN out[role] ELSE None
<1>1. /\ out' = Written(out, role, Written(files, "receipt", receipt))
      /\ issued' = issued \cup {receipt}
      /\ campaign' = None
      /\ campaign # None
      /\ UNCHANGED <<profiles, shelf, now>>
  BY DEF RunEnd
<1>2. /\ role \in Roles
      /\ profiles # None
      /\ campaign.rows.total = campaign.required
  BY DEF QualificationInv, CampaignHolds, RunEnd
<1>3. /\ receipt.evaluated_at = now
      /\ receipt.role = role
      /\ receipt.verdict = "QUALIFIED" => receipt.passed = receipt.required
  BY <1>2, ReceiptFields
<1> HIDE DEF receipt, files
<1>4. IssuedHold'
  BY <1>1, <1>3 DEF QualificationInv, IssuedHold, ClockHolds
<1>5. OutHolds'
  <2>1. DOMAIN out' = DOMAIN out \cup {role}
    BY <1>1 DEF Written
  <2>2. out'[role] = Written(files, "receipt", receipt)
    BY <1>1 DEF Written
  <2>3. \A other \in DOMAIN out \ {role} : out'[other] = out[other]
    BY <1>1 DEF Written
  <2>4. "receipt" \in DOMAIN out'[role] /\ out'[role].receipt = receipt
    BY <2>2, ReceiptIsWritten DEF Written
  <2> HIDE DEF role
  <2> SUFFICES ASSUME NEW other \in DOMAIN out'
               PROVE  /\ other \in Roles
                      /\ profiles' # None
                      /\ "receipt" \in DOMAIN out'[other]
                      /\ out'[other].receipt \in issued'
                      /\ out'[other].receipt.role = other
    BY DEF OutHolds
  <2>5. CASE other = role
    BY <2>4, <2>5, <1>1, <1>2, <1>3
  <2>6. CASE other # role
    BY <2>1, <2>3, <2>6, <1>1, <1>2 DEF QualificationInv, OutHolds
  <2> QED BY <2>5, <2>6
<1>6. SnapshotsHold'
  BY <1>1 DEF QualificationInv, SnapshotsHold, Rests, Digests
<1>7. ClockHolds' /\ ProfilesHold' /\ CampaignHolds' /\ ShelfHolds'
  BY <1>1 DEF QualificationInv, ClockHolds, ProfilesHold, CampaignHolds, ShelfHolds,
              IsProfileOf, Digests
<1> QED BY <1>4, <1>5, <1>6, <1>7 DEF QualificationInv

LEMMA StatusKeeps ==
    ASSUME QualificationInv, NEW role \in Roles, Status(role)
    PROVE  QualificationInv'
<1> DEFINE event == StatusEvent(role, out[role].receipt)
<1>1. /\ role \in DOMAIN out
      /\ out' = [out EXCEPT ![role] = Written(out[role], "event", event)]
      /\ UNCHANGED <<profiles, campaign, shelf, now, issued>>
  BY DEF Status
<1> HIDE DEF event
<1>2. OutHolds'
  <2>1. /\ "receipt" \in DOMAIN out[role]
        /\ DOMAIN Written(out[role], "event", event) = DOMAIN out[role] \cup {"event"}
        /\ Written(out[role], "event", event).receipt = out[role].receipt
    BY <1>1, WrittenFiles, ReceiptIsLeft DEF QualificationInv, OutHolds
  <2> QED BY <1>1, <2>1 DEF QualificationInv, OutHolds
<1> QED
  BY <1>1, <1>2
  DEF QualificationInv, ClockHolds, ProfilesHold, CampaignHolds, IssuedHold, ShelfHolds,
      SnapshotsHold, IsProfileOf, Digests, Rests

LEMMA SnapshotKeeps ==
    ASSUME QualificationInv, NEW role \in Roles, Snapshot(role)
    PROVE  QualificationInv'
<1> DEFINE receipt == out[role].receipt
           s == EligibilitySnapshot(role, receipt, out[role].event, ids)
<1>1. /\ role \in DOMAIN out
      /\ shelf' = [shelf EXCEPT !.snapshots = @ \cup {s}]
      /\ UNCHANGED <<profiles, out, campaign, now, issued>>
  BY DEF Snapshot
<1>2. /\ receipt \in issued
      /\ receipt.role = role
      /\ receipt.evaluated_at <= now
      /\ profiles # None
  BY <1>1 DEF QualificationInv, OutHolds, IssuedHold
<1>3. /\ Rests(s, receipt)
      /\ s.role = role
      /\ s.profile_ref.digest = profiles[role].semantic_digest
      /\ s.derived_at = now
  BY <1>2, SnapshotRests
<1>4. profiles[role].semantic_digest \in Digests(role)
  BY <1>2 DEF QualificationInv, ProfilesHold, IsProfileOf
<1> HIDE DEF receipt, s
<1>5. /\ shelf'.profiles = shelf.profiles
      /\ shelf'.snapshots = shelf.snapshots \cup {s}
      /\ shelf' = [profiles |-> shelf'.profiles, snapshots |-> shelf'.snapshots]
  BY <1>1 DEF QualificationInv, ShelfHolds
<1>6. SnapshotsHold'
  <2> SUFFICES ASSUME NEW x \in shelf'.snapshots \ StraySnapshots
               PROVE  /\ x.role \in Roles
                      /\ x.profile_ref.digest \in Digests(x.role)
                      /\ x.derived_at \in Nat
                      /\ \E r \in issued : Rests(x, r)
    BY <1>1 DEF SnapshotsHold, Rests, Digests
  <2>1. CASE x = s
    BY <2>1, <1>2, <1>3, <1>4 DEF QualificationInv, ClockHolds
  <2>2. CASE x \in shelf.snapshots
    BY <2>2 DEF QualificationInv, SnapshotsHold
  <2> QED BY <1>5, <2>1, <2>2
<1>7. ShelfHolds'
  BY <1>5 DEF QualificationInv, ShelfHolds, IsProfileOf, Digests
<1> QED
  BY <1>1, <1>6, <1>7
  DEF QualificationInv, ClockHolds, ProfilesHold, CampaignHolds, IssuedHold, OutHolds,
      IsProfileOf, Digests

LEMMA TickKeeps == QualificationInv /\ Tick => QualificationInv'
<1> SUFFICES ASSUME QualificationInv, Tick PROVE QualificationInv'
  OBVIOUS
<1>1. /\ now' = now + 1
      /\ UNCHANGED <<profiles, out, campaign, shelf, issued>>
  BY DEF Tick
<1>2. ClockHolds' /\ IssuedHold'
  BY <1>1 DEF QualificationInv, ClockHolds, IssuedHold
<1> QED
  BY <1>1, <1>2
  DEF QualificationInv, ProfilesHold, CampaignHolds, OutHolds, ShelfHolds, SnapshotsHold,
      IsProfileOf, Digests, Rests

LEMMA QualificationInvHolds == QualificationSpec => []QualificationInv
<1>1. QualificationInv /\ [QualificationNext]_qualificationVars => QualificationInv'
  <2> SUFFICES ASSUME QualificationInv, [QualificationNext]_qualificationVars
               PROVE  QualificationInv'
    OBVIOUS
  <2>1. CASE QualificationNext
    BY <2>1, MaterializeKeeps, RunKeeps, RunEndKeeps, StatusKeeps, SnapshotKeeps, TickKeeps
    DEF QualificationNext
  <2>2. CASE UNCHANGED qualificationVars
    BY <2>2
    DEF qualificationVars, QualificationInv, ClockHolds, ProfilesHold, CampaignHolds, IssuedHold,
        OutHolds, ShelfHolds, SnapshotsHold, IsProfileOf, Digests, Rests
  <2> QED BY <2>1, <2>2
<1> QED BY QualificationBegins, <1>1, PTL DEF QualificationSpec

-----------------------------------------------------------------------------
(* The selector.                                                           *)

LEMMA LeastNatural ==
    ASSUME NEW T, T \subseteq Nat, T # {}
    PROVE  \E x \in T : \A y \in T : x <= y
<1>1. PICK x \in T : \A y \in T : <<y, x>> \notin OpToRel(<, Nat)
  BY WFMin, NatLessThanWellFounded
<1>2. ASSUME NEW y \in T PROVE x <= y
  <2>1. ~(y < x)
    BY <1>1 DEF OpToRel
  <2> QED BY <2>1
<1> QED BY <1>2

\* When the candidates have places in the order, one of them is chosen.
LEMMA OneIsChosen ==
    ASSUME NEW named, NEW candidates, candidates # {}, candidates \subseteq Nat,
           \A i \in candidates : Rank[named[i].semantic_digest] \in Nat
    PROVE  \E i \in candidates :
               /\ Chosen(named, candidates) = named[i]
               /\ \A j \in candidates : SortsFirst(named, i, j)
<1> DEFINE rank(i) == Rank[named[i].semantic_digest]
           ranks == { rank(i) : i \in candidates }
<1>1. PICK least \in ranks : \A r \in ranks : least <= r
  <2>1. ranks # {} /\ ranks \subseteq Nat
    OBVIOUS
  <2> HIDE DEF ranks
  <2> QED BY <2>1, LeastNatural
<1> DEFINE first == { i \in candidates : rank(i) = least }
<1>2. PICK i \in first : \A j \in first : i <= j
  <2>1. first # {} /\ first \subseteq Nat
    BY <1>1
  <2> HIDE DEF first
  <2> QED BY <2>1, LeastNatural
<1>3. ASSUME NEW j \in candidates PROVE SortsFirst(named, i, j)
  <2>1. rank(i) = least /\ rank(i) <= rank(j) /\ i \in Nat /\ j \in Nat
    BY <1>1, <1>2
  <2>2. CASE rank(i) = rank(j)
    BY <2>1, <2>2, <1>2 DEF SortsFirst
  <2>3. CASE rank(i) # rank(j)
    BY <2>1, <2>3, <1>2 DEF SortsFirst
  <2> QED BY <2>2, <2>3
<1>4. i \in candidates
  BY <1>2
<1> HIDE DEF first, ranks, rank
<1> QED BY <1>3, <1>4 DEF Chosen

LEMMA NamedDocuments ==
    ASSUME NEW documents, NEW from \in Nat, NEW to \in Nat, NEW named \in Named(documents, from, to)
    PROVE  /\ \E n \in from .. to : named \in [1 .. n -> documents]
           /\ \A i, j \in DOMAIN named : named[i] = named[j] => i = j
BY DEF Named, IsInjective

\* At most one snapshot is found under a digest.
LEMMA IndexedOnce ==
    ASSUME NEW snapshots, NEW digest, DOMAIN snapshots \subseteq Nat,
           NEW i \in Indexed(snapshots, digest), NEW j \in Indexed(snapshots, digest)
    PROVE  i = j
BY DEF Indexed

LEMMA EligibleIsCurrent ==
    ASSUME NEW requirement, NEW profile, NEW snapshots, NEW t, DOMAIN snapshots \subseteq Nat,
           Reason(requirement, profile, snapshots, t) = "eligible"
    PROVE  /\ profile.role = requirement.role
           /\ \E i \in DOMAIN snapshots :
                  /\ Indexed(snapshots, profile.semantic_digest) = {i}
                  /\ snapshots[i].profile_ref.digest = profile.semantic_digest
                  /\ snapshots[i].eligibility = "QUALIFIED"
                  /\ WithinCurrentness(snapshots[i], t)
<1> DEFINE found == Indexed(snapshots, profile.semantic_digest)
<1>1. /\ profile.role = requirement.role
      /\ \E s \in { snapshots[i] : i \in found } : s.eligibility = "QUALIFIED"
      /\ \E s \in { snapshots[i] : i \in found } : WithinCurrentness(s, t)
  BY DEF Reason
<1>2. PICK i \in found : snapshots[i].eligibility = "QUALIFIED"
  BY <1>1
<1>3. PICK j \in found : WithinCurrentness(snapshots[j], t)
  BY <1>1
<1>4. \A k \in found : k = i
  BY IndexedOnce
<1>5. i \in DOMAIN snapshots /\ snapshots[i].profile_ref.digest = profile.semantic_digest
  BY DEF Indexed
<1> QED BY <1>1, <1>2, <1>3, <1>4, <1>5

\* A qualified snapshot that was derived here and is current.
LEMMA QualifiedRests ==
    ASSUME QualificationInv, NEW s \in shelf.snapshots, s \notin StraySnapshots,
           s.eligibility = "QUALIFIED", WithinCurrentness(s, now)
    PROVE  /\ s.profile_ref.digest \in Digests(s.role)
           /\ s.role \in Roles
           /\ \E r \in issued :
                 /\ s.qualification_ref.id = r.qualification_id
                 /\ r.role = s.role
                 /\ r.passed = r.required
                 /\ now - r.evaluated_at \in 0 .. CurrentnessHours
<1>1. PICK r \in issued : Rests(s, r)
  BY DEF QualificationInv, SnapshotsHold
<1>2. /\ r.evaluated_at \in Nat /\ s.derived_at \in Nat /\ now \in Nat
      /\ r.verdict = "QUALIFIED" => r.passed = r.required
  BY DEF QualificationInv, SnapshotsHold, IssuedHold, ClockHolds
<1>3. now - r.evaluated_at \in 0 .. CurrentnessHours
  BY <1>1, <1>2, WindowIsNatural DEF Rests, WithinCurrentness
<1> QED BY <1>1, <1>2, <1>3 DEF QualificationInv, SnapshotsHold, Rests

\* A profile that was materialized here and has a digest of a role has that role.
LEMMA DigestTellsRole ==
    ASSUME QualificationInv, NEW p \in shelf.profiles, p \notin StrayProfiles,
           NEW role \in Roles, p.semantic_digest \in Digests(role)
    PROVE  p.role = role
<1>1. PICK own \in Roles : IsProfileOf(p, own)
  BY DEF QualificationInv, ShelfHolds
<1> QED BY <1>1, RoleOfDigest DEF IsProfileOf

\* Each digest of a document that can be handed over has its place.
LEMMA DigestsHavePlaces ==
    ASSUME QualificationInv, NEW p \in shelf.profiles, ProfileValid(p),
           NEW q \in shelf.profiles, ProfileValid(q)
    PROVE  LET a == p.semantic_digest
               b == q.semantic_digest
           IN  Rank[a] \in Nat /\ (Rank[a] = Rank[b] => a = b)
<1> DEFINE own == { ProfileDigest(role, implementation, policy) :
                      role \in Roles, implementation \in Implementations, policy \in Policies }
           others == { x.semantic_digest : x \in { y \in StrayProfiles : ProfileValid(y) } }
<1>1. ASSUME NEW x \in shelf.profiles, ProfileValid(x)
      PROVE  x.semantic_digest \in own \cup others
  <2>1. CASE x \in StrayProfiles
    BY <1>1, <2>1
  <2>2. CASE x \notin StrayProfiles
    <3>1. PICK role \in Roles : x.semantic_digest \in Digests(role)
      BY <1>1, <2>2 DEF QualificationInv, ShelfHolds, IsProfileOf
    <3> QED BY <3>1 DEF Digests
  <2> QED BY <2>1, <2>2
<1>2. \A a, b \in own \cup others : Rank[a] \in Nat /\ (Rank[a] = Rank[b] => a = b)
  BY DigestsSort
<1> HIDE DEF own, others
<1> QED BY <1>1, <1>2

-----------------------------------------------------------------------------
(* The theorems.                                                           *)

\* What can be handed over are documents of the shelf of the right shape.
LEMMA Invoked ==
    ASSUME NEW i \in Invocations
    PROVE  /\ DOMAIN i.named \subseteq Nat /\ DOMAIN i.snapshots \subseteq Nat
           /\ \A k \in DOMAIN i.named : i.named[k] \in shelf.profiles /\ ProfileValid(i.named[k])
           /\ \A k \in DOMAIN i.named : i.named[k] \in ToSet(i.named)
           /\ \A k \in DOMAIN i.snapshots : i.snapshots[k] \in shelf.snapshots
           /\ \A k \in DOMAIN i.snapshots : i.snapshots[k] \in ToSet(i.snapshots)
           /\ \E n \in {1, 2} : i.named \in [1 .. n -> shelf.profiles]
<1> DEFINE valid == { p \in shelf.profiles : ProfileValid(p) }
           eligible == { s \in shelf.snapshots : EligibilityValid(s) }
<1>1. i.named \in Named(valid, 1, 2) /\ i.snapshots \in Named(eligible, 0, 2)
  BY DEF Invocations
<1> HIDE DEF valid, eligible
<1>2. PICK n \in 1 .. 2 : i.named \in [1 .. n -> valid]
  BY <1>1, NamedDocuments
<1>3. PICK m \in 0 .. 2 : i.snapshots \in [1 .. m -> eligible]
  BY <1>1, NamedDocuments
<1>4. /\ DOMAIN i.named \subseteq Nat /\ DOMAIN i.snapshots \subseteq Nat
      /\ \A k \in DOMAIN i.named : i.named[k] \in valid
      /\ \A k \in DOMAIN i.snapshots : i.snapshots[k] \in eligible
  BY <1>2, <1>3
<1>5. \E k \in {1, 2} : i.named \in [1 .. k -> shelf.profiles]
  <2>1. n \in {1, 2}
    BY <1>2
  <2>2. valid \subseteq shelf.profiles
    BY DEF valid
  <2> QED BY <1>2, <2>1, <2>2
<1> QED BY <1>4, <1>5 DEF valid, eligible, ToSet

LEMMA SelectionRests == QualificationInv => SelectionRestsOnCampaign
<1> SUFFICES ASSUME QualificationInv, NEW i \in Invocations,
                    ~Selection(i.requirement, i.named, i.snapshots, now).no_selection
             PROVE  LET assignment == Selection(i.requirement, i.named, i.snapshots, now) IN
                    \E p \in ToSet(i.named), s \in ToSet(i.snapshots) :
                        /\ assignment.profile_ref = ProfileRef(p)
                        /\ assignment.eligibility_ref = s.eligibility_id
                        /\ s.profile_ref.digest = p.semantic_digest
                        /\ s \notin StraySnapshots => \E r \in issued :
                              /\ s.qualification_ref.id = r.qualification_id
                              /\ r.passed = r.required
                              /\ now - r.evaluated_at \in 0 .. CurrentnessHours
                              /\ p \notin StrayProfiles => r.role = assignment.role
  BY DEF SelectionRestsOnCampaign
<1> DEFINE assignment == Selection(i.requirement, i.named, i.snapshots, now)
           candidates == Candidates(i.requirement, i.named, i.snapshots, now)
           p == Chosen(i.named, candidates)
<1>1. candidates # {}
  BY DEF Selection, NoSelection
<1>2. PICK c \in candidates : p = i.named[c]
  <2>1. candidates \subseteq Nat
    BY Invoked DEF Candidates
  <2>2. \A k \in candidates : Rank[i.named[k].semantic_digest] \in Nat
    <3>1. candidates \subseteq DOMAIN i.named
      BY DEF Candidates
    <3> QED BY <3>1, Invoked, DigestsHavePlaces
  <2> HIDE DEF candidates
  <2> QED BY <1>1, <2>1, <2>2, OneIsChosen
<1>3. /\ p \in shelf.profiles /\ ProfileValid(p) /\ p \in ToSet(i.named)
      /\ Reason(i.requirement, p, i.snapshots, now) = "eligible"
  <2>1. c \in DOMAIN i.named /\ Reason(i.requirement, i.named[c], i.snapshots, now) = "eligible"
    BY DEF Candidates
  <2> HIDE DEF p, candidates
  <2> QED BY <1>2, <2>1, Invoked
<1>4. /\ assignment.role = i.requirement.role
      /\ assignment.profile_ref = ProfileRef(p)
      /\ assignment.eligibility_ref =
            i.snapshots[CHOOSE j \in Indexed(i.snapshots, p.semantic_digest) : TRUE].eligibility_id
  BY <1>1 DEF Selection
<1> HIDE DEF p, candidates, assignment
<1>5. DOMAIN i.snapshots \subseteq Nat
  BY Invoked
<1>6. p.role = i.requirement.role
  BY <1>3, <1>5, EligibleIsCurrent
<1>7. PICK k \in DOMAIN i.snapshots :
          /\ Indexed(i.snapshots, p.semantic_digest) = {k}
          /\ i.snapshots[k].profile_ref.digest = p.semantic_digest
          /\ i.snapshots[k].eligibility = "QUALIFIED"
          /\ WithinCurrentness(i.snapshots[k], now)
  BY <1>3, <1>5, EligibleIsCurrent
<1> DEFINE s == i.snapshots[k]
<1>8. s \in ToSet(i.snapshots) /\ s \in shelf.snapshots
  BY Invoked
<1>9. assignment.eligibility_ref = s.eligibility_id
  <2>1. (CHOOSE j \in Indexed(i.snapshots, p.semantic_digest) : TRUE) = k
    BY <1>7
  <2> QED BY <1>4, <2>1
<1>10. ASSUME s \notin StraySnapshots
       PROVE  \E r \in issued :
                 /\ s.qualification_ref.id = r.qualification_id
                 /\ r.passed = r.required
                 /\ now - r.evaluated_at \in 0 .. CurrentnessHours
                 /\ p \notin StrayProfiles => r.role = assignment.role
  <2>1. /\ s.profile_ref.digest \in Digests(s.role)
        /\ s.role \in Roles
        /\ \E r \in issued :
              /\ s.qualification_ref.id = r.qualification_id
              /\ r.role = s.role
              /\ r.passed = r.required
              /\ now - r.evaluated_at \in 0 .. CurrentnessHours
    <3> HIDE DEF s
    <3>1. s.eligibility = "QUALIFIED" /\ WithinCurrentness(s, now)
      BY <1>7 DEF s
    <3> QED BY <1>8, <1>10, <3>1, QualifiedRests
  <2>2. p \notin StrayProfiles => p.role = s.role
    <3>1. s.profile_ref.digest = p.semantic_digest
      BY <1>7
    <3> HIDE DEF s
    <3> QED BY <1>3, <2>1, <3>1, DigestTellsRole
  <2> QED BY <1>4, <1>6, <2>1, <2>2
<1>11. s.profile_ref.digest = p.semantic_digest
  BY <1>7
<1> HIDE DEF s
<1> QED BY <1>3, <1>4, <1>8, <1>9, <1>10, <1>11 DEF assignment

\* Whatever ran, moved or was replaced between the commands, a selection made from
\* a derived snapshot rests on a campaign of its role in which no execution failed,
\* and that ended at most 168 hours before; what a document made elsewhere says is
\* taken at its word (cmd_snapshot, select, _within_currentness).
THEOREM SelectionsRest == QualificationSpec => []SelectionRestsOnCampaign
BY QualificationInvHolds, SelectionRests, PTL

LEMMA SelectionIgnoresOrder == QualificationInv => SelectionIgnoresProfileOrder
<1> SUFFICES ASSUME QualificationInv, NEW x \in Invocations
             PROVE  LET one == Selection(x.requirement, x.named, x.snapshots, now)
                        other == Selection(x.requirement, Reverse(x.named), x.snapshots, now)
                    IN  /\ one.no_selection = other.no_selection
                        /\ ~one.no_selection => one.profile_ref.digest = other.profile_ref.digest
  BY DEF SelectionIgnoresProfileOrder
<1> DEFINE requirement == x.requirement
           named == x.named
           snapshots == x.snapshots
           valid == { p \in shelf.profiles : ProfileValid(p) }
           back == Reverse(named)
           here == Candidates(requirement, named, snapshots, now)
           there == Candidates(requirement, back, snapshots, now)
           Eligible(p) == Reason(requirement, p, snapshots, now) = "eligible"
<1>1. PICK m \in {1, 2} : named \in [1 .. m -> valid]
  BY Invoked
<1>2. /\ back \in [1 .. m -> valid]
      /\ \A i \in 1 .. m : m + 1 - i \in 1 .. m /\ back[i] = named[m + 1 - i]
  <2>1. Len(named) = m
    BY <1>1
  <2> HIDE DEF named, valid
  <2> QED BY <1>1, <2>1 DEF Reverse
<1>3. /\ here \subseteq 1 .. m /\ there \subseteq 1 .. m
      /\ \A i \in 1 .. m : i \in here <=> Eligible(named[i])
      /\ \A i \in 1 .. m : i \in there <=> Eligible(back[i])
  BY <1>1, <1>2 DEF Candidates
<1> HIDE DEF requirement, named, snapshots, back, here, there, Eligible
<1>4. \A i \in here : m + 1 - i \in there /\ back[m + 1 - i] = named[i]
  BY <1>2, <1>3
<1>5. \A i \in there : m + 1 - i \in here /\ named[m + 1 - i] = back[i]
  BY <1>2, <1>3
<1>6. /\ Selection(requirement, named, snapshots, now).no_selection = (here = {})
      /\ here # {} =>
            Selection(requirement, named, snapshots, now).profile_ref.digest
                = Chosen(named, here).semantic_digest
  BY DEF Selection, NoSelection, here, ProfileRef
<1>7. /\ Selection(requirement, back, snapshots, now).no_selection = (there = {})
      /\ there # {} =>
            Selection(requirement, back, snapshots, now).profile_ref.digest
                = Chosen(back, there).semantic_digest
  BY DEF Selection, NoSelection, there, ProfileRef
<1>8. here = {} <=> there = {}
  BY <1>4, <1>5
<1>9. ASSUME here # {}
      PROVE  Chosen(named, here).semantic_digest = Chosen(back, there).semantic_digest
  <2>1. \A p, q \in valid : /\ Rank[p.semantic_digest] \in Nat
                            /\ Rank[p.semantic_digest] = Rank[q.semantic_digest] =>
                                  p.semantic_digest = q.semantic_digest
    BY DigestsHavePlaces
  <2> HIDE DEF valid
  <2>2. /\ \A i \in here : Rank[named[i].semantic_digest] \in Nat
        /\ \A i \in there : Rank[back[i].semantic_digest] \in Nat
    BY <1>1, <1>2, <1>3, <2>1
  <2>3. PICK i \in here : /\ Chosen(named, here) = named[i]
                          /\ \A k \in here : SortsFirst(named, i, k)
    <3>1. here # {} /\ here \subseteq Nat
      BY <1>3, <1>9
    <3> QED BY <2>2, <3>1, OneIsChosen
  <2>4. PICK j \in there : /\ Chosen(back, there) = back[j]
                           /\ \A k \in there : SortsFirst(back, j, k)
    <3>1. there # {} /\ there \subseteq Nat
      BY <1>3, <1>8, <1>9
    <3> QED BY <2>2, <3>1, OneIsChosen
  <2>5. Rank[named[i].semantic_digest] <= Rank[back[j].semantic_digest]
    <3>1. SortsFirst(named, i, m + 1 - j) /\ named[m + 1 - j] = back[j]
      BY <1>5, <2>3
    <3> QED BY <2>2, <3>1 DEF SortsFirst
  <2>6. Rank[back[j].semantic_digest] <= Rank[named[i].semantic_digest]
    <3>1. SortsFirst(back, j, m + 1 - i) /\ back[m + 1 - i] = named[i]
      BY <1>4, <2>4
    <3> QED BY <2>2, <3>1 DEF SortsFirst
  <2>7. Rank[named[i].semantic_digest] = Rank[back[j].semantic_digest]
    BY <2>2, <2>5, <2>6
  <2>8. named[i] \in valid /\ back[j] \in valid
    BY <1>1, <1>2, <1>3
  <2>9. named[i].semantic_digest = back[j].semantic_digest
    BY <2>1, <2>7, <2>8
  <2> QED BY <2>3, <2>4, <2>9
<1> QED BY <1>6, <1>7, <1>8, <1>9 DEF back, requirement, named, snapshots

\* What is selected does not depend on the order in which the profiles are named:
\* the tie-break of select goes by the digest.
THEOREM SelectionsIgnoreOrder == QualificationSpec => []SelectionIgnoresProfileOrder
BY QualificationInvHolds, SelectionIgnoresOrder, PTL

\* Every document written here is one the selector's closed schemas accept.
LEMMA ProfilesAreValid ==
    ASSUME NEW role \in Roles, NEW implementation, NEW policy
    PROVE  ProfileValid(Profile(role, implementation, policy))
<1>1. DOMAIN Profile(role, implementation, policy) =
          {"schema", "profile_id", "semantic_digest", "role", "model", "provider", "runtime",
           "adapter", "role_package", "system_config", "tool_policy", "context_policy"}
  BY DEF Profile
<1>2. /\ Profile(role, implementation, policy).schema = "intelligence-profile"
      /\ Profile(role, implementation, policy).role = role
  BY DEF Profile
<1> QED BY <1>1, <1>2 DEF ProfileValid

LEMMA SnapshotsAreValid ==
    ASSUME NEW role \in Roles, NEW receipt, NEW event, NEW id
    PROVE  EligibilityValid(EligibilitySnapshot(role, receipt, event, id))
<1> DEFINE s == EligibilitySnapshot(role, receipt, event, id)
<1>1. DOMAIN s =
          {"schema", "eligibility_id", "semantic_digest", "profile_ref", "qualification_ref",
           "role", "status_event_refs", "derived_at", "valid_until", "eligibility"}
  BY DEF EligibilitySnapshot
<1>2. /\ s.schema = "eligibility-snapshot"
      /\ s.eligibility = Eligibility(receipt, event)
      /\ s.role = role
      /\ s.profile_ref = ProfileRef(profiles[role])
      /\ s.qualification_ref = [id |-> receipt.qualification_id, digest |-> receipt.qualification_id]
      /\ s.status_event_refs = <<[id |-> event.status_event_id, digest |-> event.status_event_id]>>
  BY DEF EligibilitySnapshot
<1> HIDE DEF s
<1>3. s.eligibility \in {"QUALIFIED", "NOT_ELIGIBLE"}
  BY <1>2 DEF Eligibility
<1>4. IsRef(s.profile_ref)
  BY <1>2 DEF IsRef, ProfileRef
<1>5. IsRef(s.qualification_ref)
  BY <1>2 DEF IsRef
<1>6. /\ s.status_event_refs # <<>>
      /\ \A i \in DOMAIN s.status_event_refs : IsRef(s.status_event_refs[i])
  BY <1>2 DEF IsRef
<1>7. EligibilityValid(s)
  BY <1>1, <1>2, <1>3, <1>4, <1>5, <1>6 DEF EligibilityValid
<1> QED BY <1>7 DEF s

LEMMA QualificationTypes ==
    QualificationInv /\ QualificationTypeOK /\ [QualificationNext]_qualificationVars
        => QualificationTypeOK'
<1> SUFFICES ASSUME QualificationInv, QualificationTypeOK, [QualificationNext]_qualificationVars
             PROVE  QualificationTypeOK'
  OBVIOUS
<1> USE WindowIsNatural DEF QualificationTypeOK
<1>1. CASE Materialize
  <2>1. PICK implementation \in Implementations, policy \in Policies :
          profiles' = [role \in Roles |-> Profile(role, implementation, policy)]
    BY <1>1 DEF Materialize
  <2>2. \A role \in Roles : ProfileValid(profiles'[role])
    BY <2>1, ProfilesAreValid
  <2>3. /\ shelf'.snapshots = shelf.snapshots
        /\ shelf'.profiles = shelf.profiles \cup { profiles'[role] : role \in Roles }
        /\ UNCHANGED <<now, ids, issued>>
    BY <1>1 DEF Materialize, QualificationInv, ShelfHolds
  <2> QED BY <2>2, <2>3
<1>2. CASE RunCase \/ RunDies \/ \E role \in Roles : RunStart(role) \/ Status(role)
  <2>1. UNCHANGED <<shelf, now, ids, issued>>
    BY <1>2 DEF RunCase, RunDies, RunStart, Status
  <2> QED BY <2>1
<1>3. CASE RunEnd
  <2> DEFINE receipt == Receipt(campaign, ids)
  <2>1. /\ issued' = issued \cup {receipt} /\ ids' = ids + 1 /\ ids < MaxFiles
        /\ UNCHANGED <<shelf, now>>
    BY <1>3 DEF RunEnd, Room
  <2>2. /\ receipt.qualification_id = ids /\ receipt.evaluated_at = now
        /\ receipt.verdict \in {"QUALIFIED", "NOT_QUALIFIED"}
    BY DEF Receipt, Verdict
  <2>3. \A r \in issued : r.qualification_id \in 0 .. ids' - 1
    BY <2>1
  <2> QED BY <2>1, <2>2, <2>3
<1>4. ASSUME NEW role \in Roles, Snapshot(role) PROVE QualificationTypeOK'
  <2> DEFINE s == EligibilitySnapshot(role, out[role].receipt, out[role].event, ids)
  <2>1. /\ shelf'.snapshots = shelf.snapshots \cup {s} /\ shelf'.profiles = shelf.profiles
        /\ ids' = ids + 1 /\ ids < MaxFiles
        /\ UNCHANGED <<now, issued>>
    BY <1>4 DEF Snapshot, Room, QualificationInv, ShelfHolds
  <2>2. EligibilityValid(s) /\ s.eligibility_id = ids
    <3>1. s.eligibility_id = ids
      BY DEF EligibilitySnapshot
    <3> QED BY <3>1, SnapshotsAreValid
  <2> QED BY <2>1, <2>2
<1>5. CASE Tick
  BY <1>5 DEF Tick
<1>6. CASE UNCHANGED qualificationVars
  BY <1>6 DEF qualificationVars
<1> QED BY <1>1, <1>2, <1>3, <1>4, <1>5, <1>6 DEF QualificationNext

\* Every identifier was drawn, and every document written here is one the
\* selector's closed schemas accept.
THEOREM QualificationTyped == QualificationSpec => []QualificationTypeOK
<1>1. QualificationInit => QualificationTypeOK
  BY WindowIsNatural DEF QualificationInit, QualificationTypeOK
<1> QED BY <1>1, QualificationInvHolds, QualificationTypes, PTL DEF QualificationSpec

-----------------------------------------------------------------------------
(* Lists.                                                                  *)

IsList(s) == s \in Seq(ToSet(s))

LEMMA ListGrows ==
    ASSUME NEW s, NEW x, IsList(s)
    PROVE  /\ IsList(Append(s, x))
           /\ Len(s) \in Nat
           /\ DOMAIN s = 1 .. Len(s)
           /\ Len(Append(s, x)) = Len(s) + 1
           /\ DOMAIN Append(s, x) = 1 .. Len(s) + 1
           /\ \A i \in 1 .. Len(s) : Append(s, x)[i] = s[i]
           /\ Append(s, x)[Len(s) + 1] = x
<1> DEFINE T == ToSet(s) \cup {x}
           longer == Append(s, x)
<1>1. s \in Seq(T) /\ x \in T
  BY DEF IsList
<1> HIDE DEF T
<1>2. /\ longer \in Seq(T)
      /\ Len(longer) = Len(s) + 1
      /\ \A i \in 1 .. Len(s) : longer[i] = s[i]
      /\ longer[Len(s) + 1] = x
  BY <1>1, AppendProperties
<1>3. Len(s) \in Nat /\ DOMAIN s = 1 .. Len(s)
  BY <1>1
<1> HIDE DEF longer
<1>4. DOMAIN longer = 1 .. Len(s) + 1
  BY <1>2
<1>5. longer \in Seq(ToSet(longer))
  BY <1>2 DEF ToSet
<1> QED BY <1>2, <1>3, <1>4, <1>5 DEF longer, IsList

LEMMA ShortLists ==
    /\ IsList(<<>>) /\ Len(<<>>) = 0
    /\ \A x : IsList(<<x>>)
BY DEF IsList, ToSet

LEMMA EarliestPlace ==
    ASSUME NEW places, places \subseteq Nat, places # {}
    PROVE  Earliest(places) \in places /\ \A j \in places : Earliest(places) <= j
BY LeastNatural DEF Earliest

\* A finite set is listed.
LEMMA SetIsListed ==
    ASSUME NEW S, IsFiniteSet(S)
    PROVE  Cardinality(S) \in Nat /\ SetToSeq(S) \in [1 .. Cardinality(S) -> S]
<1> DEFINE n == Cardinality(S)
<1>1. n \in Nat /\ ExistsBijection(1 .. n, S)
  BY FS_CardinalityType
<1>2. PICK g : g \in Bijection(1 .. n, S)
  BY <1>1 DEF ExistsBijection
<1>3. g \in [1 .. n -> S] /\ IsInjective(g)
  BY <1>2 DEF Bijection, Injection
<1> QED BY <1>1, <1>3 DEF SetToSeq

LEMMA ListIsFinite ==
    ASSUME NEW s, NEW n \in Nat, DOMAIN s = 1 .. n
    PROVE  IsFiniteSet(ToSet(s))
<1> DEFINE f == [i \in 1 .. n |-> s[i]]
<1>1. f \in Surjection(1 .. n, ToSet(s))
  BY DEF Surjection, ToSet
<1>2. IsFiniteSet(1 .. n)
  BY FS_Interval
<1> QED BY <1>1, <1>2, FS_Surjection

-----------------------------------------------------------------------------
(* What the adapters find.                                                 *)

\* A finding that says whether its own path exists.
Looked(finding, repo) ==
    /\ finding.actual = Exists(finding.evidence \in repo.paths)
    /\ finding.kind # "capability_identity"

Identity(repo) ==
    [kind |-> "capability_identity", evidence |-> CapabilityPath,
     actual |-> IF CapabilityPath \in repo.paths THEN repo.capability ELSE NoCapability]

LEMMA SeenIsLooked ==
    ASSUME NEW repo, NEW kind, NEW path, kind # "capability_identity"
    PROVE  Looked(Seen(repo, kind, path), repo) /\ Seen(repo, kind, path).evidence = path
<1>1. /\ Seen(repo, kind, path).evidence = path
      /\ Seen(repo, kind, path).kind = kind
      /\ Seen(repo, kind, path).actual = Exists(path \in repo.paths)
  BY DEF Seen
<1> QED BY <1>1 DEF Looked

\* What stands where in two lists that are joined.
LEMMA Joined ==
    ASSUME NEW T, NEW s \in Seq(T), NEW t \in Seq(T), NEW n \in Nat, NEW m \in Nat,
           Len(s) = n, Len(t) = m
    PROVE  /\ s \o t \in Seq(T)
           /\ Len(s \o t) = n + m
           /\ DOMAIN (s \o t) = 1 .. n + m
           /\ \A i \in 1 .. n : (s \o t)[i] = s[i]
           /\ \A i \in 1 .. m : (s \o t)[n + i] = t[i]
<1>1. /\ s \o t \in Seq(T)
      /\ Len(s \o t) = Len(s) + Len(t)
      /\ \A i \in 1 .. Len(s) + Len(t) :
             (s \o t)[i] = IF i <= Len(s) THEN s[i] ELSE t[i - Len(s)]
  BY ConcatProperties
<1>2. ASSUME NEW i \in 1 .. m PROVE (s \o t)[n + i] = t[i]
  <2>1. n + i \in 1 .. n + m /\ ~(n + i <= n) /\ (n + i) - n = i
    OBVIOUS
  <2> QED BY <1>1, <2>1
<1>3. DOMAIN (s \o t) = 1 .. Len(s \o t)
  BY <1>1
<1> QED BY <1>1, <1>2, <1>3

\* The procedure's last finding is the capability's identity, the one before it its
\* presence; every other finding is of whether its own path exists.
LEMMA ReconFindings ==
    ASSUME NEW repo
    PROVE  \E m \in Nat :
               /\ DOMAIN ReconProcedure(repo) = 1 .. m + 1
               /\ \A i \in 1 .. m : Looked(ReconProcedure(repo)[i], repo)
               /\ m \in 1 .. m
               /\ ReconProcedure(repo)[m].evidence = CapabilityPath
               /\ ReconProcedure(repo)[m + 1] = Identity(repo)
<1> DEFINE p == [i \in DOMAIN PresenceAnchors |-> Seen(repo, "presence", PresenceAnchors[i])]
           a == [i \in DOMAIN AbsenceAnchors |-> Seen(repo, "absence", AbsenceAnchors[i])]
           c == <<Seen(repo, "presence", CapabilityPath), Identity(repo)>>
           T == ToSet(p) \cup ToSet(a) \cup ToSet(c)
<1>1. DOMAIN PresenceAnchors = 1 .. 6 /\ DOMAIN AbsenceAnchors = 1 .. 3
  BY DEF PresenceAnchors, AbsenceAnchors
<1>2. /\ p \in Seq(T) /\ \A i \in DOMAIN p : Looked(p[i], repo)
      /\ a \in Seq(T) /\ \A i \in DOMAIN a : Looked(a[i], repo)
  BY <1>1, SeenIsLooked DEF ToSet
<1>3. /\ c \in Seq(T) /\ Len(c) = 2
      /\ c[1] = Seen(repo, "presence", CapabilityPath)
      /\ c[2] = Identity(repo)
  BY DEF ToSet
<1>4. Looked(c[1], repo) /\ c[1].evidence = CapabilityPath
  BY <1>3, SeenIsLooked
<1>5. ReconProcedure(repo) = (p \o a) \o c
  BY DEF ReconProcedure, Identity
<1> HIDE DEF p, a, c, T
<1> DEFINE n == Len(p) + Len(a)
<1>6. /\ Len(p) \in Nat /\ DOMAIN p = 1 .. Len(p)
      /\ Len(a) \in Nat /\ DOMAIN a = 1 .. Len(a)
  BY <1>2
<1>7. /\ p \o a \in Seq(T) /\ Len(p \o a) = n
      /\ \A i \in 1 .. Len(p) : (p \o a)[i] = p[i]
      /\ \A i \in 1 .. Len(a) : (p \o a)[Len(p) + i] = a[i]
  BY <1>2, <1>6, Joined
<1>8. ASSUME NEW i \in 1 .. n PROVE Looked((p \o a)[i], repo)
  <2>1. CASE i \in 1 .. Len(p)
    BY <1>2, <1>6, <1>7, <2>1
  <2>2. CASE i \notin 1 .. Len(p)
    <3>1. i - Len(p) \in 1 .. Len(a) /\ i = Len(p) + (i - Len(p))
      BY <1>6, <2>2
    <3>2. (p \o a)[Len(p) + (i - Len(p))] = a[i - Len(p)]
      BY <1>7, <3>1
    <3> QED BY <1>2, <1>6, <3>1, <3>2
  <2> QED BY <2>1, <2>2
<1>9. n \in Nat
  BY <1>6
<1> DEFINE pa == p \o a
<1> HIDE DEF pa, n
<1>10. /\ DOMAIN (pa \o c) = 1 .. n + 2
       /\ \A i \in 1 .. n : (pa \o c)[i] = pa[i]
       /\ \A i \in 1 .. 2 : (pa \o c)[n + i] = c[i]
  <2>1. pa \in Seq(T) /\ Len(pa) = n
    BY <1>7 DEF pa
  <2>2. c \in Seq(T) /\ Len(c) \in Nat
    BY <1>3
  <2>3. /\ DOMAIN (pa \o c) = 1 .. n + Len(c)
        /\ \A i \in 1 .. n : (pa \o c)[i] = pa[i]
        /\ \A i \in 1 .. Len(c) : (pa \o c)[n + i] = c[i]
    BY <1>9, <2>1, <2>2, Joined
  <2> QED BY <1>3, <2>3
<1>11. ReconProcedure(repo) = pa \o c
  BY <1>5 DEF pa
<1>12. (pa \o c)[n + 1] = c[1] /\ (pa \o c)[n + 2] = c[2]
  <2>1. 1 \in 1 .. 2 /\ 2 \in 1 .. 2
    OBVIOUS
  <2> QED BY <1>10, <2>1
<1>13. \A i \in 1 .. n : Looked(pa[i], repo)
  BY <1>8 DEF pa
<1>14. ASSUME NEW i \in 1 .. n + 1 PROVE Looked((pa \o c)[i], repo)
  <2>1. CASE i \in 1 .. n
    <3>1. (pa \o c)[i] = pa[i]
      BY <1>10, <2>1
    <3> QED BY <1>13, <2>1, <3>1
  <2>2. CASE i = n + 1
    <3>1. (pa \o c)[i] = c[1]
      BY <1>12, <2>2
    <3> QED BY <1>4, <3>1
  <2>3. i \in 1 .. n \/ i = n + 1
    BY <1>9
  <2> QED BY <2>1, <2>2, <2>3
<1>15. /\ n + 1 \in Nat /\ n + 1 \in 1 .. n + 1 /\ (n + 1) + 1 = n + 2
  BY <1>9
<1> QED BY <1>3, <1>4, <1>10, <1>11, <1>12, <1>14, <1>15

LEMMA IntervalIsFinite == \A n \in Nat : IsFiniteSet(1 .. n)
BY FS_Interval

\* The paths of the catalogue are finitely many.
LEMMA MissingIsFinite == \A result : IsFiniteSet(Missing(result))
<1> DEFINE kinds == <<"governance", "readme", "manifest", "source_root", "docs_architecture",
                      "test_root", "ci_workflow", "build_config", "project_config">>
           listed == [i \in 1 .. 9 |-> ToSet(Catalogue[kinds[i]])]
           lists == { listed[i] : i \in 1 .. 9 }
<1>1. DOMAIN Catalogue = { kinds[i] : i \in 1 .. 9 }
  BY DEF Catalogue
<1>2. /\ IsFiniteSet(ToSet(Catalogue.governance))
      /\ IsFiniteSet(ToSet(Catalogue.readme))
      /\ IsFiniteSet(ToSet(Catalogue.manifest))
      /\ IsFiniteSet(ToSet(Catalogue.source_root))
      /\ IsFiniteSet(ToSet(Catalogue.docs_architecture))
      /\ IsFiniteSet(ToSet(Catalogue.test_root))
      /\ IsFiniteSet(ToSet(Catalogue.ci_workflow))
      /\ IsFiniteSet(ToSet(Catalogue.build_config))
      /\ IsFiniteSet(ToSet(Catalogue.project_config))
  <2>1. IsFiniteSet(ToSet(Catalogue.governance))
    <3>1. DOMAIN Catalogue.governance = 1 .. 5
      BY DEF Catalogue
    <3> QED BY <3>1, ListIsFinite
  <2>2. IsFiniteSet(ToSet(Catalogue.readme))
    <3>1. DOMAIN Catalogue.readme = 1 .. 5
      BY DEF Catalogue
    <3> QED BY <3>1, ListIsFinite
  <2>3. IsFiniteSet(ToSet(Catalogue.manifest))
    <3>1. DOMAIN Catalogue.manifest = 1 .. 12
      BY DEF Catalogue
    <3> QED BY <3>1, ListIsFinite
  <2>4. IsFiniteSet(ToSet(Catalogue.source_root))
    <3>1. DOMAIN Catalogue.source_root = 1 .. 4
      BY DEF Catalogue
    <3> QED BY <3>1, ListIsFinite
  <2>5. IsFiniteSet(ToSet(Catalogue.docs_architecture))
    <3>1. DOMAIN Catalogue.docs_architecture = 1 .. 6
      BY DEF Catalogue
    <3> QED BY <3>1, ListIsFinite
  <2>6. IsFiniteSet(ToSet(Catalogue.test_root))
    <3>1. DOMAIN Catalogue.test_root = 1 .. 4
      BY DEF Catalogue
    <3> QED BY <3>1, ListIsFinite
  <2>7. IsFiniteSet(ToSet(Catalogue.ci_workflow))
    <3>1. DOMAIN Catalogue.ci_workflow = 1 .. 8
      BY DEF Catalogue
    <3> QED BY <3>1, ListIsFinite
  <2>8. IsFiniteSet(ToSet(Catalogue.build_config))
    <3>1. DOMAIN Catalogue.build_config = 1 .. 8
      BY DEF Catalogue
    <3> QED BY <3>1, ListIsFinite
  <2>9. IsFiniteSet(ToSet(Catalogue.project_config))
    <3>1. DOMAIN Catalogue.project_config = 1 .. 10
      BY DEF Catalogue
    <3> QED BY <3>1, ListIsFinite
  <2> QED BY <2>1, <2>2, <2>3, <2>4, <2>5, <2>6, <2>7, <2>8, <2>9
<1>3. ASSUME NEW i \in 1 .. 9 PROVE IsFiniteSet(listed[i])
  <2>1. CASE i = 1
    BY <1>2, <2>1
  <2>2. CASE i = 2
    BY <1>2, <2>2
  <2>3. CASE i = 3
    BY <1>2, <2>3
  <2>4. CASE i = 4
    BY <1>2, <2>4
  <2>5. CASE i = 5
    BY <1>2, <2>5
  <2>6. CASE i = 6
    BY <1>2, <2>6
  <2>7. CASE i = 7
    BY <1>2, <2>7
  <2>8. CASE i = 8
    BY <1>2, <2>8
  <2>9. CASE i = 9
    BY <1>2, <2>9
  <2> QED BY <2>1, <2>2, <2>3, <2>4, <2>5, <2>6, <2>7, <2>8, <2>9
<1> HIDE DEF kinds, listed
<1>4. \A T \in lists : IsFiniteSet(T)
  BY <1>3
<1>5. IsFiniteSet(lists)
  <2>1. listed \in Surjection(1 .. 9, lists)
    BY DEF Surjection, listed
  <2>2. IsFiniteSet(1 .. 9)
    BY IntervalIsFinite
  <2> QED BY <2>1, <2>2, FS_Surjection
<1> HIDE DEF lists
<1>6. IsFiniteSet(UNION lists)
  BY <1>4, <1>5, FS_UNION
<1>7. ASSUME NEW result PROVE Missing(result) \in SUBSET (UNION lists)
  BY <1>1 DEF Missing, lists, listed
<1> QED BY <1>6, <1>7, FS_Subset

-----------------------------------------------------------------------------
(* What a success rests on.                                                *)

LEMMA Judgement ==
    ASSUME NEW assertion, NEW actual, Judge(assertion, actual) = "SUCCESS"
    PROVE  /\ assertion.kind = "presence" => actual = Yes
           /\ assertion.kind = "absence" => actual = No
           /\ assertion.kind = "capability_identity" =>
                  IsCapability(actual) /\ CapabilityMatches(actual, assertion.expected)
BY DEF Judge

LEMMA YesIsNotNo == Yes # No /\ Exists(TRUE) = Yes /\ Exists(FALSE) = No
BY DEF Yes, No, Exists

LEMMA OutsideIsNo ==
    ASSUME NEW e, NEW S, e \notin S
    PROVE  Exists(e \in S) = No
<1>1. (e \in S) = FALSE
  OBVIOUS
<1> QED BY <1>1 DEF Exists, No

\* A success was judged on the first finding that matches.
LEMMA SuccessMatches ==
    ASSUME NEW assertion, NEW findings, DOMAIN findings \subseteq Nat,
           Outcome(assertion, findings) = "SUCCESS"
    PROVE  \E i \in DOMAIN findings :
               /\ findings[i].evidence = assertion.evidence
               /\ \/ assertion.kind \in {"presence", "absence"}
                  \/ /\ assertion.kind = "capability_identity"
                     /\ findings[i].kind = "capability_identity"
               /\ Judge(assertion, findings[i].actual) = "SUCCESS"
               /\ assertion.kind # "capability_identity" =>
                      \A j \in DOMAIN findings :
                          findings[j].evidence = assertion.evidence => i <= j
<1> DEFINE matches == Matching(assertion, findings)
           i == Earliest(matches)
<1>1. matches # {} /\ Judge(assertion, findings[i].actual) = "SUCCESS"
  BY DEF Outcome
<1>2. matches \subseteq Nat
  BY DEF Matching
<1>3. i \in matches /\ \A j \in matches : i <= j
  <2> HIDE DEF matches
  <2> QED BY <1>1, <1>2, EarliestPlace
<1> HIDE DEF i
<1> QED BY <1>1, <1>3 DEF Matching

LEMMA InternalObserves ==
    ASSUME NEW repo, NEW assertion, Outcome(assertion, ReconProcedure(repo)) = "SUCCESS"
    PROVE  Observed("internal-fixture-procedure", repo, assertion)
<1> DEFINE f == ReconProcedure(repo)
<1>1. PICK m \in Nat :
        /\ DOMAIN f = 1 .. m + 1
        /\ \A i \in 1 .. m : Looked(f[i], repo)
        /\ m \in 1 .. m
        /\ f[m].evidence = CapabilityPath
        /\ f[m + 1] = Identity(repo)
  BY ReconFindings
<1> HIDE DEF f
<1>2. DOMAIN f \subseteq Nat /\ Outcome(assertion, f) = "SUCCESS"
  BY <1>1 DEF f
<1>3. PICK i \in DOMAIN f :
         /\ f[i].evidence = assertion.evidence
         /\ \/ assertion.kind \in {"presence", "absence"}
            \/ assertion.kind = "capability_identity" /\ f[i].kind = "capability_identity"
         /\ Judge(assertion, f[i].actual) = "SUCCESS"
         /\ assertion.kind # "capability_identity" =>
                \A j \in DOMAIN f : f[j].evidence = assertion.evidence => i <= j
  BY <1>2, SuccessMatches
<1>4. CASE assertion.kind = "capability_identity"
  <2>1. i = m + 1
    BY <1>1, <1>3, <1>4 DEF Looked
  <2>2. IsCapability(f[i].actual) /\ CapabilityMatches(f[i].actual, assertion.expected)
    BY <1>3, <1>4, Judgement
  <2>3. f[i].actual = IF CapabilityPath \in repo.paths THEN repo.capability ELSE NoCapability
    BY <1>1, <2>1 DEF Identity
  <2>4. ~IsCapability(NoCapability)
    BY DEF IsCapability, NoCapability
  <2> QED BY <1>4, <2>2, <2>3, <2>4 DEF Observed
<1>5. CASE assertion.kind \in {"presence", "absence"}
  <2>1. i \in 1 .. m
    <3>1. CASE i = m + 1
      <4>1. f[m].evidence = assertion.evidence
        BY <1>1, <1>3, <3>1 DEF Identity
      <4> QED BY <1>1, <1>3, <1>5, <3>1, <4>1
    <3> QED BY <1>1, <1>3, <3>1
  <2>2. f[i].actual = Exists(assertion.evidence \in repo.paths)
    BY <1>1, <1>3, <2>1 DEF Looked
  <2>3. CASE assertion.evidence \in repo.paths
    <3>1. f[i].actual = Yes
      BY <2>2, <2>3, YesIsNotNo
    <3> QED BY <1>3, <1>5, <2>3, <3>1, Judgement, YesIsNotNo DEF Observed
  <2>4. CASE assertion.evidence \notin repo.paths
    <3>1. f[i].actual = No
      BY <2>2, <2>4, OutsideIsNo
    <3> QED BY <1>3, <1>5, <2>4, <3>1, Judgement, YesIsNotNo DEF Observed
  <2> QED BY <2>3, <2>4
<1> QED BY <1>3, <1>4, <1>5

LEMMA ShellObserves ==
    ASSUME NEW answer, IsList(answer.findings),
           NEW assertion, Outcome(assertion, answer.findings) = "SUCCESS"
    PROVE  Observed("shell-loadout-recon", answer, assertion)
<1> DEFINE f == answer.findings
<1>1. DOMAIN f \subseteq Nat /\ Outcome(assertion, f) = "SUCCESS"
  BY DEF IsList
<1> HIDE DEF f
<1>2. PICK i \in DOMAIN f :
         /\ f[i].evidence = assertion.evidence
         /\ \/ assertion.kind \in {"presence", "absence"}
            \/ assertion.kind = "capability_identity" /\ f[i].kind = "capability_identity"
         /\ Judge(assertion, f[i].actual) = "SUCCESS"
         /\ assertion.kind # "capability_identity" =>
                \A j \in DOMAIN f : f[j].evidence = assertion.evidence => i <= j
  BY <1>1, SuccessMatches
<1>3. /\ assertion.kind = "presence" => f[i].actual = Yes
      /\ assertion.kind = "absence" => f[i].actual = No
      /\ assertion.kind = "capability_identity" =>
             CapabilityMatches(f[i].actual, assertion.expected)
  BY <1>2, Judgement
<1>4. ToldOf(f, assertion)
  BY <1>2, <1>3 DEF ToldOf
<1> QED BY <1>4 DEF f, Observed

\* Loadout's anchors are present, and every other finding is of a missing path.
LEMMA LoadoutFindings ==
    ASSUME NEW answer, answer.anchors \in Seq(ToSet(answer.anchors))
    PROVE  LET f == Translate(answer)
           IN  /\ DOMAIN f \subseteq Nat
               /\ \A i \in DOMAIN f :
                      /\ f[i].kind = "presence"
                      /\ \/ f[i].actual = Yes /\ f[i].evidence \in Detected(answer)
                         \/ f[i].actual = No /\ f[i].evidence \in Missing(answer)
<1> DEFINE Present(path) == [kind |-> "presence", evidence |-> path, actual |-> Yes]
           Absent(path) == [kind |-> "presence", evidence |-> path, actual |-> No]
           gone == { Absent(path) : path \in Missing(answer) }
           here == { Present(path) : path \in Detected(answer) }
           n == Len(answer.anchors)
           s == [i \in DOMAIN answer.anchors |-> Present(answer.anchors[i].path)]
           t == SetToSeq(gone)
<1>1. n \in Nat /\ DOMAIN answer.anchors = 1 .. n
  OBVIOUS
<1>2. s \in Seq(here \cup gone) /\ Len(s) = n
  <2>1. ASSUME NEW i \in 1 .. n PROVE answer.anchors[i].path \in Detected(answer)
    BY <1>1 DEF Detected, ToSet
  <2>2. s = [i \in 1 .. n |-> Present(answer.anchors[i].path)]
    BY <1>1
  <2>3. \A i \in 1 .. n : Present(answer.anchors[i].path) \in here \cup gone
    BY <2>1
  <2> HIDE DEF n, here, gone, Present
  <2> QED BY <1>1, <2>2, <2>3
<1>3. IsFiniteSet(gone)
  <2> DEFINE g == [path \in Missing(answer) |-> Absent(path)]
  <2>1. g \in Surjection(Missing(answer), gone)
    BY DEF Surjection
  <2> HIDE DEF g, gone
  <2> QED BY <2>1, MissingIsFinite, FS_Surjection
<1> HIDE DEF gone, here
<1>4. Cardinality(gone) \in Nat /\ t \in [1 .. Cardinality(gone) -> gone]
  BY <1>3, SetIsListed
<1> HIDE DEF s, t
<1>5. t \in Seq(here \cup gone)
  BY <1>4
<1>6. s \o t \in Seq(here \cup gone)
  BY <1>2, <1>5, ConcatProperties
<1> DEFINE st == s \o t
<1> HIDE DEF st
<1>7. DOMAIN st \subseteq Nat /\ \A i \in DOMAIN st : st[i] \in here \cup gone
  <2>1. st \in Seq(here \cup gone)
    BY <1>6 DEF st
  <2> QED BY <2>1
<1>8. Translate(answer) = st
  BY DEF Translate, st, s, t, gone
<1>9. ASSUME NEW x \in here \cup gone
      PROVE  /\ x.kind = "presence"
             /\ \/ x.actual = Yes /\ x.evidence \in Detected(answer)
                \/ x.actual = No /\ x.evidence \in Missing(answer)
  BY DEF here, gone
<1> QED BY <1>7, <1>8, <1>9

LEMMA LoadoutObserves ==
    ASSUME NEW answer, answer.anchors \in Seq(ToSet(answer.anchors)),
           NEW assertion, Outcome(assertion, Translate(answer)) = "SUCCESS"
    PROVE  Observed("loadout-runtime", answer, assertion)
<1> DEFINE f == Translate(answer)
<1>1. /\ DOMAIN f \subseteq Nat
      /\ \A i \in DOMAIN f :
            /\ f[i].kind = "presence"
            /\ \/ f[i].actual = Yes /\ f[i].evidence \in Detected(answer)
               \/ f[i].actual = No /\ f[i].evidence \in Missing(answer)
  BY LoadoutFindings
<1>2. Outcome(assertion, f) = "SUCCESS"
  OBVIOUS
<1> HIDE DEF f
<1>3. PICK i \in DOMAIN f :
         /\ f[i].evidence = assertion.evidence
         /\ \/ assertion.kind \in {"presence", "absence"}
            \/ assertion.kind = "capability_identity" /\ f[i].kind = "capability_identity"
         /\ Judge(assertion, f[i].actual) = "SUCCESS"
  BY <1>1, <1>2, SuccessMatches
<1>4. /\ assertion.kind = "presence" => f[i].actual = Yes
      /\ assertion.kind = "absence" => f[i].actual = No
  BY <1>3, Judgement
<1> QED BY <1>1, <1>3, <1>4, YesIsNotNo DEF Observed

-----------------------------------------------------------------------------
(* The invariant.                                                          *)

\* The findings an adapter makes of what its procedure answers.
Found(adapter, answer, findings) ==
    \/ adapter = "internal-fixture-procedure" /\ findings = ReconProcedure(answer)
    \/ adapter = "shell-loadout-recon" /\ findings = answer.findings /\ IsList(findings)
    \/ /\ adapter = "loadout-runtime"
       /\ answer \in Answers
       /\ findings = Translate(answer)

BornOut(adapter, case, answer, result) ==
    \E findings : Found(adapter, answer, findings) /\ result = CaseResult(case, findings)

AreLists(findings) == \A id \in DOMAIN findings : IsList(findings[id])

DiskHolds ==
    /\ DOMAIN disk = {"records", "cases", "findings", "loadout"}
    /\ IsList(disk.records)
    /\ AreLists(disk.findings.findings)

\* What a run has so far rests on what was said in it, case by case.
RunHolds ==
    run # Nothing =>
        /\ DOMAIN run = {"pc", "opts", "cases", "results", "method", "findings"}
        /\ IsList(run.results)
        /\ IsList(said)
        /\ Len(said) = Len(run.results)
        /\ run.pc \in {"method", "adapter", "cases"} => run.results = <<>>
        /\ run.pc # "method" => run.method.method_id = TargetMethod
        /\ run.pc = "loadout" => run.opts.adapter = "loadout-runtime"
        /\ run.pc \notin {"method", "adapter"} => AreLists(run.findings)
        /\ \A i \in 1 .. Len(run.results) :
               BornOut(run.opts.adapter, run.cases[i], said[i], run.results[i])

EmittedHolds ==
    emitted # Nothing =>
        /\ \A i \in DOMAIN emitted.artifact.results :
               BornOut(emitted.artifact.adapter.name, emitted.cases[i], emitted.said[i],
                       emitted.artifact.results[i])
        /\ \E r : emitted.artifact = Artifact(r) /\ r.method.method_id = TargetMethod

\* Whatever was done to the artifact by hand, its fields and its digest stayed.
ArtifactHolds ==
    artifact \notin {Nothing, Torn} =>
        /\ emitted # Nothing
        /\ artifact = [field \in DOMAIN emitted.artifact |-> artifact[field]]
        /\ artifact.run_digest = emitted.artifact.run_digest

RevisedHolds == revised \notin {Nothing, Torn} => \E a : revised = RevisedRecord(a)

EvaluateInv ==
    /\ DiskHolds
    /\ RunHolds
    /\ EmittedHolds
    /\ ArtifactHolds
    /\ RevisedHolds

-----------------------------------------------------------------------------
(* The artifact and the revised record.                                    *)

\* The digest is no part of what it is taken of.
LEMMA DigestIsNoPart ==
    ASSUME NEW body, NEW digest
    PROVE  Body([body EXCEPT !.run_digest = digest]) = Body(body)
BY DEF Body

LEMMA ArtifactFields ==
    ASSUME NEW r
    PROVE  /\ "run_digest" \in DOMAIN Artifact(r)
           /\ Artifact(r) = [field \in DOMAIN Artifact(r) |-> Artifact(r)[field]]
           /\ Artifact(r).run_digest = Sha256(Body(Artifact(r)))
           /\ Artifact(r).results = r.results
           /\ Artifact(r).adapter.name = r.opts.adapter
           /\ Artifact(r).method = r.method
           /\ Artifact(r).schema = "arsenal/method-evaluation/v0"
           /\ Artifact(r).conclusion = "experimental"
           /\ Artifact(r).gap = "experimental-to-experimental"
           /\ Artifact(r).promotes = FALSE
           /\ Artifact(r).revised_status = "experimental"
<1> DEFINE body == [run_digest |-> Placeholder,
                 schema |-> "arsenal/method-evaluation/v0", method |-> r.method,
                 declared |-> r.method.contexts,
                 exercised |-> { r.results[i].context : i \in DOMAIN r.results } \ {"none"},
                 corpus |-> "default", adapter |-> AdapterBlock(r.opts),
                 results |-> r.results, gap |-> "experimental-to-experimental",
                 gaps |-> Gaps(r.results), conclusion |-> "experimental",
                 promotes |-> FALSE, revised_status |-> "experimental"]
           digest == Sha256(Body(body))
<1>1. Artifact(r) = [body EXCEPT !.run_digest = digest]
  BY DEF Artifact
<1> HIDE DEF digest
<1>2. /\ "run_digest" \in DOMAIN Artifact(r)
      /\ Artifact(r) = [field \in DOMAIN Artifact(r) |-> Artifact(r)[field]]
      /\ Artifact(r).run_digest = digest
      /\ Artifact(r).results = r.results
      /\ Artifact(r).adapter = AdapterBlock(r.opts)
      /\ Artifact(r).method = r.method
      /\ Artifact(r).schema = "arsenal/method-evaluation/v0"
      /\ Artifact(r).conclusion = "experimental"
      /\ Artifact(r).gap = "experimental-to-experimental"
      /\ Artifact(r).promotes = FALSE
      /\ Artifact(r).revised_status = "experimental"
  BY <1>1
<1> HIDE DEF body
<1>3. Body(Artifact(r)) = Body(body)
  BY <1>1, DigestIsNoPart
<1> QED BY <1>2, <1>3 DEF digest, AdapterBlock

\* An artifact passes as it was written, and no other with its fields and digest.
LEMMA OnlyTheOriginalPasses ==
    ASSUME NEW r, NEW a, a \notin {Nothing, Torn}, r.method.method_id = TargetMethod,
           a = [field \in DOMAIN Artifact(r) |-> a[field]],
           a.run_digest = Artifact(r).run_digest
    PROVE  ArtifactExit(a) = "PASS" <=> a = Artifact(r)
<1> DEFINE b == Artifact(r)
<1>1. /\ "run_digest" \in DOMAIN b
      /\ b = [field \in DOMAIN b |-> b[field]]
      /\ b.run_digest = Sha256(Body(b))
  BY ArtifactFields
<1>2. ASSUME a = b PROVE ArtifactExit(a) = "PASS"
  <2>1. /\ b.method = r.method
        /\ b.schema = "arsenal/method-evaluation/v0"
        /\ b.conclusion = "experimental"
        /\ b.gap = "experimental-to-experimental"
        /\ b.promotes = FALSE
        /\ b.revised_status = "experimental"
    BY ArtifactFields
  <2> HIDE DEF b
  <2> QED BY <1>1, <1>2, <2>1 DEF ArtifactExit, AllowedConclusions, AllowedGaps
<1>3. ASSUME ArtifactExit(a) = "PASS" PROVE a = b
  <2>1. a.run_digest = Sha256(Body(a))
    BY <1>3 DEF ArtifactExit
  <2> HIDE DEF b
  <2>2. Sha256(Body(a)) = Sha256(Body(b))
    BY <1>1, <2>1 DEF b
  <2>3. Body(a) = Body(b)
    BY <2>2 DEF Sha256
  <2>4. DOMAIN a = DOMAIN b
    BY DEF b
  <2>5. \A field \in DOMAIN b \ {"run_digest"} : a[field] = b[field]
    <3>1. \A field \in DOMAIN b \ {"run_digest"} :
              /\ Body(a)[field] = a[field]
              /\ Body(b)[field] = b[field]
      BY <2>4 DEF Body
    <3> QED BY <2>3, <3>1
  <2>6. a["run_digest"] = b["run_digest"]
    BY DEF b
  <2>7. \A field \in DOMAIN b : a[field] = b[field]
    BY <2>5, <2>6
  <2>8. a = [field \in DOMAIN b |-> a[field]]
    BY DEF b
  <2> QED BY <1>1, <2>7, <2>8
<1> QED BY <1>2, <1>3

\* Sealing a record does not change what is sealed.
LEMMA SealIsNoPart ==
    ASSUME NEW body, NEW digest, "provenance" \in DOMAIN body,
           "commit" \in DOMAIN body.provenance
    PROVE  Canonical([body EXCEPT !.provenance.digest = digest]) = Canonical(body)
<1> DEFINE sealed == [body EXCEPT !.provenance.digest = digest]
<1>1. DOMAIN sealed = DOMAIN body
  OBVIOUS
<1>2. \A field \in DOMAIN body \ {"provenance"} : sealed[field] = body[field]
  OBVIOUS
<1>3. sealed.provenance.commit = body.provenance.commit
  OBVIOUS
<1> HIDE DEF sealed
<1> QED BY <1>1, <1>2, <1>3 DEF Canonical, sealed

LEMMA RevisedFields ==
    ASSUME NEW a
    PROVE  LET r == RevisedRecord(a)
           IN  /\ DOMAIN r = {"schema", "method_id", "method_version", "status", "qualified_for",
                              "inputs", "outputs", "procedure_ref", "evaluation", "provenance",
                              "authority"}
               /\ r.schema = SchemaId
               /\ r.status = "experimental"
               /\ r.qualified_for.contexts = {"governed"}
               /\ r.qualified_for.exclusions = {"incomplete"}
               /\ r.outputs = {"anchor-map"}
               /\ r.procedure_ref.kind = "sha256"
               /\ r.evaluation.failures = {"no receipt", "no behavioral evidence"}
               /\ r.evaluation.confidence = "bounded"
               /\ r.provenance.digest = Sha256(Canonical(r))
               /\ r.authority = {}
<1> DEFINE ref == IF a.method.procedure_ref.kind = "sha256"
                  THEN a.method.procedure_ref ELSE Placeholder
           evaluation == [strengths |-> { i \in DOMAIN a.results : Clear(a.results[i]) },
                          failures |-> {"no receipt", "no behavioral evidence"},
                          confidence |-> "bounded", run_digest |-> a.run_digest]
           body == [schema |-> SchemaId, method_id |-> a.method.method_id,
                    method_version |-> "0.1.0", status |-> "experimental",
                    qualified_for |-> [contexts |-> {"governed"}, exclusions |-> {"incomplete"}],
                    inputs |-> {"repository-state"}, outputs |-> {"anchor-map"},
                    procedure_ref |-> ref, evaluation |-> evaluation,
                    provenance |-> [commit |-> "none", digest |-> Placeholder],
                    authority |-> {}]
           digest == Sha256(Canonical(body))
           r == RevisedRecord(a)
<1>1. r = [body EXCEPT !.provenance.digest = digest]
  BY DEF RevisedRecord
<1>2. ref.kind = "sha256"
  BY DEF Placeholder
<1>3. /\ evaluation.failures = {"no receipt", "no behavioral evidence"}
      /\ evaluation.confidence = "bounded"
  OBVIOUS
<1> HIDE DEF digest, ref, evaluation, r
<1>4. /\ DOMAIN r = {"schema", "method_id", "method_version", "status", "qualified_for",
                     "inputs", "outputs", "procedure_ref", "evaluation", "provenance",
                     "authority"}
      /\ r.schema = SchemaId
      /\ r.status = "experimental"
      /\ r.qualified_for = [contexts |-> {"governed"}, exclusions |-> {"incomplete"}]
      /\ r.outputs = {"anchor-map"}
      /\ r.procedure_ref = ref
      /\ r.evaluation = evaluation
      /\ r.provenance.digest = digest
      /\ r.authority = {}
  BY <1>1
<1>5. "provenance" \in DOMAIN body /\ "commit" \in DOMAIN body.provenance
  OBVIOUS
<1> HIDE DEF body
<1>6. Canonical(r) = Canonical(body)
  BY <1>1, <1>5, SealIsNoPart
<1>7. digest = Sha256(Canonical(r))
  BY <1>6 DEF digest
<1>8. /\ r.qualified_for.contexts = {"governed"}
      /\ r.qualified_for.exclusions = {"incomplete"}
  BY <1>4
<1>9. /\ r.procedure_ref.kind = "sha256"
      /\ r.evaluation.failures = {"no receipt", "no behavioral evidence"}
      /\ r.evaluation.confidence = "bounded"
      /\ r.provenance.digest = Sha256(Canonical(r))
  BY <1>2, <1>3, <1>4, <1>7
<1> QED BY <1>4, <1>8, <1>9 DEF r

LEMMA RevisedIsAdmissible ==
    ASSUME NEW a
    PROVE  RecordsExit(<<[yaml |-> TRUE, record |-> RevisedRecord(a)]>>) = "PASS"
<1> DEFINE r == RevisedRecord(a)
           files == <<[yaml |-> TRUE, record |-> r]>>
<1>1. /\ DOMAIN r = {"schema", "method_id", "method_version", "status", "qualified_for",
                     "inputs", "outputs", "procedure_ref", "evaluation", "provenance",
                     "authority"}
      /\ r.schema = SchemaId
      /\ r.status = "experimental"
      /\ r.qualified_for.contexts = {"governed"}
      /\ r.qualified_for.exclusions = {"incomplete"}
      /\ r.outputs = {"anchor-map"}
      /\ r.procedure_ref.kind = "sha256"
      /\ r.evaluation.failures = {"no receipt", "no behavioral evidence"}
      /\ r.evaluation.confidence = "bounded"
      /\ r.provenance.digest = Sha256(Canonical(r))
      /\ r.authority = {}
  BY RevisedFields
<1>2. /\ DOMAIN files = {1}
      /\ files # <<>>
      /\ files[1].yaml
      /\ files[1].record = r
  OBVIOUS
<1> HIDE DEF r, files
<1>3. ~IsFixture(r) /\ r.provenance.digest.kind = "sha256"
  <2>1. ~IsFixture(r)
    BY <1>1 DEF IsFixture
  <2>2. Sha256(Canonical(r)).kind = "sha256"
    BY DEF Sha256
  <2> QED BY <1>1, <2>1, <2>2
<1>4. SchemaErrors(r) = {}
  <2>1. MissingFields(r) = {} /\ AdditionalFields(r) = {}
    BY <1>1 DEF MissingFields, AdditionalFields, Required
  <2>2. ~PatternBroken(r)
    BY <1>1, <1>3 DEF PatternBroken
  <2>3. ~EnumBroken(r)
    BY <1>1 DEF EnumBroken, Statuses, Confidences, ExperimentalConfidence
  <2>4. ~ConstBroken(r) /\ ~TooFewItems(r)
    BY <1>1 DEF ConstBroken, TooFewItems
  <2> QED BY <2>1, <2>2, <2>3, <2>4 DEF SchemaErrors
<1>5. ClaimErrors(r) = {}
  <2>1. DigestMatches(r, r.provenance.digest)
    BY <1>1 DEF DigestMatches
  <2> QED BY <1>1, <1>3, <2>1 DEF ClaimErrors
<1>6. ValidateRecord(r) = {}
  BY <1>1, <1>4, <1>5 DEF ValidateRecord
<1>7. Duplicates(files) = {}
  BY <1>2 DEF Duplicates
<1>8. ValidateDirectory(files) = {}
  <2>1. \A i \in DOMAIN files :
           (IF files[i].yaml THEN ValidateRecord(files[i].record) ELSE {"invalid yaml"}) = {}
    BY <1>2, <1>6
  <2> QED BY <1>2, <1>7, <2>1 DEF ValidateDirectory
<1> QED BY <1>8 DEF RecordsExit, files, r

-----------------------------------------------------------------------------
(* The steps.                                                              *)

LEMMA EvaluateBegins == EvaluateInit => EvaluateInv
BY ListsAreSequences
   DEF EvaluateInit, EvaluateInv, DiskHolds, RunHolds, EmittedHolds, ArtifactHolds, RevisedHolds,
       IsList, AreLists

\* The record that is found is of the method.
LEMMA RecordIsOfMethod ==
    ASSUME NEW files, IsList(files), MethodAt(files) # 0
    PROVE  files[MethodAt(files)].record.method_id = TargetMethod
<1> DEFINE named == { i \in DOMAIN files : /\ files[i].yaml
                                           /\ "method_id" \in DOMAIN files[i].record
                                           /\ files[i].record.method_id = TargetMethod }
<1>1. named # {} /\ MethodAt(files) = Earliest(named)
  BY DEF MethodAt
<1>2. named \subseteq Nat
  BY DEF IsList
<1>3. Earliest(named) \in named
  <2> HIDE DEF named
  <2> QED BY <1>1, <1>2, EarliestPlace
<1> QED BY <1>1, <1>3

LEMMA RunMoves ==
    ASSUME EvaluateInv, RunHolds', UNCHANGED <<disk, artifact, revised, emitted>>
    PROVE  EvaluateInv'
BY DEF EvaluateInv, DiskHolds, EmittedHolds, ArtifactHolds, RevisedHolds

LEMMA RunEnds == run' = Nothing => RunHolds'
BY DEF RunHolds

\* Steps that come before the first answer.
LEMMA PreparingKeeps ==
    EvaluateInv /\ ((\E opts \in Options : Start(opts)) \/ ReadMethod \/ ResolveAdapter \/ LoadCases)
        => EvaluateInv'
<1>1. ASSUME EvaluateInv, NEW opts \in Options, Start(opts) PROVE EvaluateInv'
  <2>1. UNCHANGED <<disk, artifact, revised, emitted>> /\ said' = <<>>
    BY <1>1 DEF Start
  <2>2. \/ run' = Nothing
        \/ run' = [pc |-> "method", opts |-> opts, cases |-> Corpora[opts.corpus].cases,
                   results |-> <<>>, method |-> Nothing, findings |-> Nothing]
    BY <1>1 DEF Start, Exit
  <2>3. RunHolds'
    BY <2>1, <2>2, ShortLists DEF RunHolds
  <2> QED BY <1>1, <2>1, <2>3, RunMoves
<1>2. ASSUME EvaluateInv, ReadMethod PROVE EvaluateInv'
  <2> DEFINE method == MethodSummary(disk.records[MethodAt(disk.records)].record)
  <2>1. /\ UNCHANGED <<disk, artifact, revised, emitted, said>>
        /\ run # Nothing /\ run.pc = "method"
        /\ \/ run' = Nothing
           \/ /\ MethodAt(disk.records) # 0
              /\ run' = [run EXCEPT !.pc = "adapter", !.method = method]
    BY <1>2 DEF ReadMethod, Exit, At
  <2>2. CASE run' = Nothing
    BY <1>2, <2>1, <2>2, RunEnds, RunMoves
  <2>3. CASE MethodAt(disk.records) # 0 /\ run' = [run EXCEPT !.pc = "adapter", !.method = method]
    <3>1. method.method_id = TargetMethod
      BY <1>2, <2>3, RecordIsOfMethod DEF EvaluateInv, DiskHolds, MethodSummary
    <3> HIDE DEF method
    <3>2. RunHolds'
      BY <1>2, <2>1, <2>3, <3>1, ShortLists DEF EvaluateInv, RunHolds
    <3> QED BY <1>2, <2>1, <3>2, RunMoves
  <2> QED BY <2>1, <2>2, <2>3
<1>3. ASSUME EvaluateInv, ResolveAdapter PROVE EvaluateInv'
  <2>1. /\ UNCHANGED <<disk, artifact, revised, emitted, said>>
        /\ run # Nothing /\ run.pc = "adapter"
        /\ \/ run' = Nothing
           \/ run' = [run EXCEPT !.pc = "cases", !.findings = disk.findings.findings]
        /\ AreLists(disk.findings.findings)
    BY <1>3 DEF ResolveAdapter, Exit, At, EvaluateInv, DiskHolds
  <2>2. RunHolds'
    BY <1>3, <2>1, ShortLists DEF EvaluateInv, RunHolds
  <2> QED BY <1>3, <2>1, <2>2, RunMoves
<1>4. ASSUME EvaluateInv, LoadCases PROVE EvaluateInv'
  <2> DEFINE loaded == Loaded(run.cases)
  <2>1. /\ UNCHANGED <<disk, artifact, revised, emitted, said>>
        /\ run # Nothing /\ run.pc = "cases"
        /\ \/ run' = Nothing
           \/ run' = [run EXCEPT !.pc = "run", !.cases = loaded]
    BY <1>4 DEF LoadCases, Exit, At
  <2> HIDE DEF loaded
  <2>2. CASE run' = Nothing
    BY <1>4, <2>1, <2>2, RunEnds, RunMoves
  <2>3. CASE run' = [run EXCEPT !.pc = "run", !.cases = loaded]
    <3>1. /\ DOMAIN run = {"pc", "opts", "cases", "results", "method", "findings"}
          /\ run.results = <<>> /\ IsList(said) /\ Len(said) = 0
          /\ run.method.method_id = TargetMethod
          /\ AreLists(run.findings)
      BY <1>4, <2>1, ShortLists DEF EvaluateInv, RunHolds
    <3>2. /\ DOMAIN run' = DOMAIN run
          /\ run'.pc = "run" /\ run'.results = <<>> /\ run'.method = run.method
          /\ run'.findings = run.findings
      BY <2>3, <3>1
    <3>3. RunHolds'
      BY <2>1, <3>1, <3>2, ShortLists DEF RunHolds
    <3> QED BY <1>4, <2>1, <3>3, RunMoves
  <2> QED BY <2>1, <2>2, <2>3
<1> QED BY <1>1, <1>2, <1>3, <1>4

\* An answer of the adapter the run asked for is judged for the current case.
LEMMA JudgedKeeps ==
    ASSUME EvaluateInv, NEW answer, NEW findings, run # Nothing, run.pc \in {"run", "loadout"},
           Found(run.opts.adapter, answer, findings), Judged(answer, findings)
    PROVE  EvaluateInv'
<1> DEFINE n == Len(run.results)
           result == CaseResult(Current, findings)
<1>1. /\ run' = [run EXCEPT !.pc = "run", !.results = Append(run.results, result)]
      /\ said' = Append(said, answer)
      /\ UNCHANGED <<disk, artifact, revised, emitted>>
  BY DEF Judged
<1>2. /\ DOMAIN run = {"pc", "opts", "cases", "results", "method", "findings"}
      /\ IsList(run.results)
      /\ IsList(said)
      /\ Len(said) = n
      /\ run.method.method_id = TargetMethod
      /\ AreLists(run.findings)
      /\ \A i \in 1 .. n : BornOut(run.opts.adapter, run.cases[i], said[i], run.results[i])
  BY DEF EvaluateInv, RunHolds
<1>3. BornOut(run.opts.adapter, run.cases[n + 1], answer, result)
  BY DEF BornOut, Current
<1> HIDE DEF result
<1>4. /\ run'.pc = "run"
      /\ run'.opts = run.opts
      /\ run'.cases = run.cases
      /\ run'.method = run.method
      /\ run'.findings = run.findings
      /\ run'.results = Append(run.results, result)
      /\ DOMAIN run' = DOMAIN run
  BY <1>1, <1>2
<1> HIDE DEF n
<1>5. /\ IsList(run'.results) /\ Len(run'.results) = n + 1 /\ n \in Nat
      /\ \A i \in 1 .. n : run'.results[i] = run.results[i]
      /\ run'.results[n + 1] = result
  BY <1>2, <1>4, ListGrows DEF n
<1>6. /\ IsList(said') /\ Len(said') = n + 1
      /\ \A i \in 1 .. n : said'[i] = said[i]
      /\ said'[n + 1] = answer
  BY <1>1, <1>2, ListGrows
<1>7. ASSUME NEW i \in 1 .. n + 1
      PROVE  BornOut(run'.opts.adapter, run'.cases[i], said'[i], run'.results[i])
  <2>1. CASE i \in 1 .. n
    BY <1>2, <1>4, <1>5, <1>6, <2>1
  <2>2. CASE i = n + 1
    BY <1>3, <1>4, <1>5, <1>6, <2>2
  <2> QED BY <1>5, <2>1, <2>2
<1>8. RunHolds'
  BY <1>2, <1>4, <1>5, <1>6, <1>7 DEF RunHolds
<1> QED BY <1>1, <1>8, RunMoves

\* The procedure answers, in each of its three forms.
LEMMA AnsweringKeeps ==
    EvaluateInv /\ (RunInternal \/ RunShell \/ StartLoadout \/ LoadoutAnswers) => EvaluateInv'
<1>1. ASSUME EvaluateInv, RunInternal PROVE EvaluateInv'
  <2> DEFINE repo == disk.cases[Current.path].repo
  <2>1. /\ run # Nothing /\ run.pc = "run"
        /\ run.opts.adapter = "internal-fixture-procedure"
        /\ Judged(repo, ReconProcedure(repo))
    BY <1>1 DEF RunInternal, Waiting, At
  <2> HIDE DEF repo
  <2>2. Found(run.opts.adapter, repo, ReconProcedure(repo))
    BY <2>1 DEF Found
  <2> QED BY <1>1, <2>1, <2>2, JudgedKeeps
<1>2. ASSUME EvaluateInv, RunShell PROVE EvaluateInv'
  <2> DEFINE id == CaseAt(run.cases, Current.path)
             findings == run.findings[id]
             answer == [findings |-> findings]
  <2>1. /\ run # Nothing /\ run.pc = "run"
        /\ run.opts.adapter = "shell-loadout-recon"
        /\ \/ id \in DOMAIN run.findings /\ Judged(answer, findings)
           \/ run' = Nothing /\ UNCHANGED <<disk, artifact, revised, emitted>>
    BY <1>2 DEF RunShell, Waiting, At, Exit
  <2> HIDE DEF id
  <2>2. id \in DOMAIN run.findings => IsList(findings)
    BY <1>2, <2>1 DEF EvaluateInv, RunHolds, AreLists
  <2>3. answer.findings = findings
    OBVIOUS
  <2> HIDE DEF answer, findings
  <2>4. IsList(findings) => Found(run.opts.adapter, answer, findings)
    BY <2>1, <2>3 DEF Found
  <2> QED BY <1>2, <2>1, <2>2, <2>4, JudgedKeeps, RunEnds, RunMoves
<1>3. ASSUME EvaluateInv, StartLoadout PROVE EvaluateInv'
  <2>1. /\ UNCHANGED <<disk, artifact, revised, emitted, said>>
        /\ run # Nothing /\ run.pc = "run" /\ run.opts.adapter = "loadout-runtime"
        /\ run' = Nothing \/ run' = [run EXCEPT !.pc = "loadout"]
    BY <1>3 DEF StartLoadout, Waiting, At, Exit
  <2>2. CASE run' = Nothing
    BY <1>3, <2>1, <2>2, RunEnds, RunMoves
  <2>3. CASE run' = [run EXCEPT !.pc = "loadout"]
    <3>1. DOMAIN run = {"pc", "opts", "cases", "results", "method", "findings"}
      BY <1>3, <2>1 DEF EvaluateInv, RunHolds
    <3>2. /\ DOMAIN run' = DOMAIN run
          /\ run'.pc = "loadout" /\ run'.results = run.results /\ run'.method = run.method
          /\ run'.opts = run.opts /\ run'.cases = run.cases /\ run'.findings = run.findings
      BY <2>3, <3>1
    <3>3. RunHolds'
      BY <1>3, <2>1, <3>1, <3>2 DEF EvaluateInv, RunHolds
    <3> QED BY <1>3, <2>1, <3>3, RunMoves
  <2> QED BY <2>1, <2>2, <2>3
<1>4. ASSUME EvaluateInv, LoadoutAnswers PROVE EvaluateInv'
  <2>1. PICK answer \in Answers : Judged(answer, Translate(answer))
    BY <1>4 DEF LoadoutAnswers
  <2>2. run # Nothing /\ run.pc = "loadout"
    BY <1>4 DEF LoadoutAnswers, At
  <2>3. run.opts.adapter = "loadout-runtime"
    BY <1>4, <2>2 DEF EvaluateInv, RunHolds
  <2>4. Found(run.opts.adapter, answer, Translate(answer))
    BY <2>3 DEF Found
  <2> QED BY <1>4, <2>1, <2>2, <2>4, JudgedKeeps
<1> QED BY <1>1, <1>2, <1>3, <1>4

\* Steps that end an evaluation and write nothing, or only a torn file.
LEMMA GivingUpKeeps ==
    EvaluateInv /\ (LoadoutBreaks \/ LoadoutTimesOut \/ WriteFails \/ ReviseFails) => EvaluateInv'
<1>1. ASSUME EvaluateInv, LoadoutBreaks \/ LoadoutTimesOut PROVE EvaluateInv'
  <2>1. run' = Nothing /\ UNCHANGED <<disk, artifact, revised, emitted>>
    BY <1>1 DEF LoadoutBreaks, LoadoutTimesOut, Exit
  <2> QED BY <1>1, <2>1, RunEnds, RunMoves
<1>2. ASSUME EvaluateInv, WriteFails PROVE EvaluateInv'
  <2>1. run' = Nothing /\ artifact' = Torn /\ UNCHANGED <<disk, revised, emitted>>
    BY <1>2 DEF WriteFails, Exit
  <2> QED BY <1>2, <2>1, RunEnds
          DEF EvaluateInv, DiskHolds, EmittedHolds, ArtifactHolds, RevisedHolds
<1>3. ASSUME EvaluateInv, ReviseFails PROVE EvaluateInv'
  <2>1. run' = Nothing /\ revised' \in {revised, Torn} /\ UNCHANGED <<disk, artifact, emitted>>
    BY <1>3 DEF ReviseFails, Exit
  <2>2. RevisedHolds'
    BY <1>3, <2>1 DEF EvaluateInv, RevisedHolds
  <2> QED BY <1>3, <2>1, <2>2, RunEnds DEF EvaluateInv, DiskHolds, EmittedHolds, ArtifactHolds
<1> QED BY <1>1, <1>2, <1>3

\* The artifact is written: it rests on what the run rested on.
LEMMA WriteKeeps == EvaluateInv /\ Write => EvaluateInv'
<1> SUFFICES ASSUME EvaluateInv, Write PROVE EvaluateInv'
  OBVIOUS
<1> DEFINE a == Artifact(run)
<1>1. /\ run # Nothing /\ run.pc = "run"
      /\ artifact' = a
      /\ emitted' = [artifact |-> a, cases |-> run.cases, said |-> said]
      /\ run' = Nothing \/ run' = [run EXCEPT !.pc = "revise"]
      /\ UNCHANGED <<disk, revised, said>>
  BY DEF Write, At, Exit
<1>2. /\ DOMAIN run = {"pc", "opts", "cases", "results", "method", "findings"}
      /\ IsList(run.results)
      /\ run.method.method_id = TargetMethod
      /\ \A i \in 1 .. Len(run.results) :
            BornOut(run.opts.adapter, run.cases[i], said[i], run.results[i])
  BY <1>1 DEF EvaluateInv, RunHolds
<1>3. /\ a = [field \in DOMAIN a |-> a[field]]
      /\ a.results = run.results
      /\ a.adapter.name = run.opts.adapter
  BY ArtifactFields
<1>4. \E r : a = Artifact(r) /\ r.method.method_id = TargetMethod
  BY <1>2
<1> HIDE DEF a
<1>5. /\ emitted' # Nothing
      /\ emitted'.artifact = a /\ emitted'.cases = run.cases /\ emitted'.said = said
  BY <1>1 DEF Nothing
<1>6. EmittedHolds'
  <2>1. \A i \in DOMAIN a.results :
            BornOut(a.adapter.name, run.cases[i], said[i], a.results[i])
    BY <1>2, <1>3 DEF IsList
  <2> QED BY <1>4, <1>5, <2>1 DEF EmittedHolds
<1>7. ArtifactHolds'
  BY <1>1, <1>3, <1>5 DEF ArtifactHolds
<1>8. RunHolds'
  <2>1. CASE run' = Nothing
    BY <2>1, RunEnds
  <2>2. CASE run' = [run EXCEPT !.pc = "revise"]
    <3>1. /\ DOMAIN run' = DOMAIN run
          /\ run'.pc = "revise" /\ run'.results = run.results /\ run'.method = run.method
          /\ run'.opts = run.opts /\ run'.cases = run.cases /\ run'.findings = run.findings
      BY <1>2, <2>2
    <3> QED BY <1>1, <1>2, <3>1 DEF EvaluateInv, RunHolds
  <2> QED BY <1>1, <2>1, <2>2
<1>9. DiskHolds' /\ RevisedHolds'
  BY <1>1 DEF EvaluateInv, DiskHolds, RevisedHolds
<1> QED BY <1>6, <1>7, <1>8, <1>9 DEF EvaluateInv

LEMMA ReviseKeeps == EvaluateInv /\ Revise => EvaluateInv'
<1> SUFFICES ASSUME EvaluateInv, Revise PROVE EvaluateInv'
  OBVIOUS
<1>1. /\ revised' = RevisedRecord(Artifact(run)) /\ run' = Nothing
      /\ UNCHANGED <<disk, artifact, emitted>>
  BY DEF Revise, Exit
<1>2. RevisedHolds'
  BY <1>1 DEF RevisedHolds
<1> QED BY <1>1, <1>2, RunEnds DEF EvaluateInv, DiskHolds, EmittedHolds, ArtifactHolds

\* The files change under the evaluation: the records stay a list, and an artifact
\* that is edited by hand keeps its fields and its digest.
LEMMA EditingKeeps == EvaluateInv /\ (Adopt \/ EditCases \/ EditArtifact) => EvaluateInv'
<1>1. ASSUME EvaluateInv, DiskHolds', UNCHANGED <<run, artifact, revised, said, emitted>>
      PROVE  EvaluateInv'
  BY <1>1 DEF EvaluateInv, RunHolds, EmittedHolds, ArtifactHolds, RevisedHolds
<1>2. ASSUME EvaluateInv, Adopt PROVE EvaluateInv'
  <2> DEFINE file == [yaml |-> TRUE, record |-> revised]
  <2>1. PICK records \in {<<file>>, Append(disk.records, file)} :
            disk' = [disk EXCEPT !.records = records]
    BY <1>2 DEF Adopt
  <2>2. UNCHANGED <<run, artifact, revised, said, emitted>>
    BY <1>2 DEF Adopt
  <2> HIDE DEF file
  <2>3. IsList(records)
    <3>1. IsList(<<file>>)
      BY ShortLists
    <3>2. IsList(Append(disk.records, file))
      BY <1>2, ListGrows DEF EvaluateInv, DiskHolds
    <3> QED BY <2>1, <3>1, <3>2
  <2>4. DiskHolds'
    BY <1>2, <2>1, <2>3 DEF EvaluateInv, DiskHolds
  <2> QED BY <1>1, <1>2, <2>2, <2>4
<1>3. ASSUME EvaluateInv, EditCases PROVE EvaluateInv'
  <2>1. PICK cases \in CaseDirs \ {disk.cases} : disk' = [disk EXCEPT !.cases = cases]
    BY <1>3 DEF EditCases
  <2>2. UNCHANGED <<run, artifact, revised, said, emitted>>
    BY <1>3 DEF EditCases
  <2>3. DiskHolds'
    BY <1>3, <2>1 DEF EvaluateInv, DiskHolds
  <2> QED BY <1>1, <1>3, <2>2, <2>3
<1>4. ASSUME EvaluateInv, EditArtifact PROVE EvaluateInv'
  <2>1. /\ artifact \notin {Nothing, Torn}
        /\ UNCHANGED <<disk, run, revised, said, emitted>>
        /\ \/ \E i \in DOMAIN artifact.results :
                 artifact' = [artifact EXCEPT
                                !.results[i].successes = @ \cup artifact.results[i].misses,
                                !.results[i].misses = {}]
           \/ artifact' = [artifact EXCEPT !.conclusion = "qualified"]
    BY <1>4 DEF EditArtifact
  <2>2. /\ emitted # Nothing
        /\ artifact = [field \in DOMAIN emitted.artifact |-> artifact[field]]
        /\ artifact.run_digest = emitted.artifact.run_digest
        /\ "run_digest" \in DOMAIN emitted.artifact
    BY <1>4, <2>1, ArtifactFields DEF EvaluateInv, ArtifactHolds, EmittedHolds
  <2>3. /\ DOMAIN artifact' = DOMAIN artifact
        /\ artifact' = [field \in DOMAIN artifact |-> artifact'[field]]
        /\ artifact'.run_digest = artifact.run_digest
    BY <2>1, <2>2
  <2>4. ArtifactHolds'
    BY <2>1, <2>2, <2>3 DEF ArtifactHolds
  <2> QED BY <1>4, <2>1, <2>4 DEF EvaluateInv, DiskHolds, RunHolds, EmittedHolds, RevisedHolds
<1> QED BY <1>2, <1>3, <1>4

LEMMA EvaluateKeeps == EvaluateInv /\ [EvaluateNext]_evaluateVars => EvaluateInv'
<1> SUFFICES ASSUME EvaluateInv, [EvaluateNext]_evaluateVars PROVE EvaluateInv'
  OBVIOUS
<1>1. CASE EvaluateNext
  BY <1>1, PreparingKeeps, AnsweringKeeps, GivingUpKeeps, WriteKeeps, ReviseKeeps, EditingKeeps
     DEF EvaluateNext, Step
<1>2. CASE UNCHANGED evaluateVars
  BY <1>2 DEF evaluateVars, EvaluateInv, DiskHolds, RunHolds, EmittedHolds, ArtifactHolds,
              RevisedHolds
<1> QED BY <1>1, <1>2

LEMMA EvaluateInvHolds == EvaluateSpec => []EvaluateInv
<1>1. EvaluateInit => EvaluateInv
  BY EvaluateBegins
<1>2. EvaluateInv /\ [EvaluateNext]_evaluateVars => EvaluateInv'
  BY EvaluateKeeps
<1> QED BY <1>1, <1>2, PTL DEF EvaluateSpec

-----------------------------------------------------------------------------
(* The theorems.                                                           *)

\* A result that was born out observed what it calls a success.
LEMMA BornOutObserves ==
    ASSUME NEW adapter, NEW case, NEW answer, NEW result,
           BornOut(adapter, case, answer, result), NEW id \in result.successes
    PROVE  \E a \in ToSet(case.expected.assertions) :
               a.id = id /\ Observed(adapter, answer, a)
<1>1. PICK findings : Found(adapter, answer, findings) /\ result = CaseResult(case, findings)
  BY DEF BornOut
<1>2. result.successes = With(case.expected.assertions, findings, "SUCCESS")
  BY <1>1 DEF CaseResult
<1>3. PICK a \in ToSet(case.expected.assertions) :
         a.id = id /\ Outcome(a, findings) = "SUCCESS"
  BY <1>2 DEF With
<1>4. CASE adapter = "internal-fixture-procedure" /\ findings = ReconProcedure(answer)
  BY <1>3, <1>4, InternalObserves
<1>5. CASE /\ adapter = "shell-loadout-recon"
           /\ findings = answer.findings
           /\ IsList(findings)
  BY <1>3, <1>5, ShellObserves
<1>6. CASE adapter = "loadout-runtime" /\ answer \in Answers /\ findings = Translate(answer)
  BY <1>3, <1>6, LoadoutObserves, ListsAreSequences
<1> QED BY <1>1, <1>4, <1>5, <1>6 DEF Found

\* THEOREM.  Whatever the corpus, the cases, Loadout's answers and the edits made
\* between the steps: no success stands in an artifact that the procedure named in
\* it did not bear out, for that case and in that run (_evaluate_assertion).
THEOREM SuccessesObserved == EvaluateSpec => []SuccessesWereObserved
<1>1. EvaluateInv => SuccessesWereObserved
  BY BornOutObserves DEF EvaluateInv, EmittedHolds, SuccessesWereObserved
<1> QED BY <1>1, EvaluateInvHolds, PTL

\* THEOREM.  An artifact validates exactly as it was written, whatever was edited in
\* it by hand: its digest is of everything but itself (cmd_validate).
THEOREM ValidatesOriginal == EvaluateSpec => []ValidatesAsEmitted
<1>1. ASSUME EvaluateInv, artifact \notin {Nothing, Torn}
      PROVE  ArtifactExit(artifact) = "PASS" <=> artifact = emitted.artifact
  <2>1. PICK r : emitted.artifact = Artifact(r) /\ r.method.method_id = TargetMethod
    BY <1>1 DEF EvaluateInv, ArtifactHolds, EmittedHolds
  <2>2. /\ artifact = [field \in DOMAIN Artifact(r) |-> artifact[field]]
        /\ artifact.run_digest = Artifact(r).run_digest
    BY <1>1, <2>1 DEF EvaluateInv, ArtifactHolds
  <2> QED BY <1>1, <2>1, <2>2, OnlyTheOriginalPasses
<1>2. EvaluateInv => ValidatesAsEmitted
  BY <1>1 DEF ValidatesAsEmitted
<1> QED BY <1>2, EvaluateInvHolds, PTL

\* THEOREM.  The record an evaluation emits passes the validator of the records'
\* directory, whatever record and results it was made from (_emit_revised_qmr).
THEOREM RevisedAdmissible == EvaluateSpec => []RevisedRecordIsAdmissible
<1>1. EvaluateInv => RevisedRecordIsAdmissible
  BY RevisedIsAdmissible DEF EvaluateInv, RevisedHolds, RevisedRecordIsAdmissible
<1> QED BY <1>1, EvaluateInvHolds, PTL
=============================================================================
