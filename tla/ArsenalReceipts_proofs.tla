----------------------- MODULE ArsenalReceipts_proofs -----------------------
(***************************************************************************)
(* Proofs about ArsenalRelease and ArsenalFlight, whose receipts say what a*)
(* build, a bench or a world has shown.  Of ArsenalRelease, for any trees, *)
(* edits, suites and bounds: no sequence of builds, qualifications and     *)
(* edits writes a receipt that says "qualified"; a build that nothing      *)
(* disturbs leaves what the dry build of verify produces; and the lock's   *)
(* rows are what a preflight may take them for.  Of ArsenalFlight, for any *)
(* runners, packs, policies and edits: what the selector selects, what a   *)
(* receipt that verifies was witnessed by, and what a record that verifies *)
(* says.  The two share no state: each theorem is of one specification.    *)
(***************************************************************************)
EXTENDS ArsenalRelease, ArsenalFlight, FiniteSetTheorems, WellFoundedInduction, TLAPS

-----------------------------------------------------------------------------
(* The inductive invariant.                                                *)

KnownSuites ==
    /\ "suites" \in DOMAIN tree
    /\ tree.suites \in SuiteSets \cup {InitialTree.suites}

\* The suite a qualification works on passed validation when it started.
Validated(s) ==
    /\ SuiteValid(s)
    /\ s.track = "distribution-qualification"
    /\ s.cases \in Seq(Range(s.cases))
    /\ LET qualified == s.qualification_gate.qualified_required_case_ids IN
       qualified \in Seq(Range(qualified))

\* Only active cases of the suite have a result.
ResultsOfActiveCases(s, results) ==
    \A id \in DOMAIN results : \E c \in Range(s.cases) : c.id = id /\ c.active

Qualifying ==
    \E s, todo, results :
        /\ qualify = [step |-> "cases", suite |-> s, todo |-> todo, results |-> results]
        /\ Validated(s)
        /\ todo \in Seq(Range(s.cases))
        /\ ResultsOfActiveCases(s, results)

ReleaseInv ==
    /\ KnownSuites
    /\ qualify = Idle \/ Qualifying
    /\ QualifiedIsUnreachable

-----------------------------------------------------------------------------
(* A valid suite cannot earn "qualified".                                  *)

\* A list that is not empty has an element.
LEMMA ListHasElement ==
    ASSUME NEW list, list \in Seq(Range(list)), list # <<>>
    PROVE  list[1] \in Range(list)
  BY DEF Range

\* A required behavioral case is the only case of its name, and a valid one is
\* inactive, so it has no result and the gate stays shut.
LEMMA ValidSuiteNeverQualifies ==
    ASSUME NEW s, NEW results, Validated(s), ResultsOfActiveCases(s, results)
    PROVE  QualificationStatus(s, results) # "qualified"
<1> DEFINE qualified == s.qualification_gate.qualified_required_case_ids
<1>1. qualified # <<>> /\ qualified \in Seq(Range(qualified))
  BY DEF Validated, SuiteValid, QualificationGateValid
<1>2. PICK id \in Range(qualified) : TRUE
  BY <1>1, ListHasElement
<1>3. id \in CaseIds(s.cases) /\ CaseNamed(s.cases, id).axis = "behavioral_efficacy"
  BY <1>2 DEF Validated, SuiteValid, QualificationGateValid
<1>4. \E c \in Range(s.cases) : c.id = id
  BY <1>3 DEF CaseIds, Range
<1>5. CaseNamed(s.cases, id) \in Range(s.cases) /\ CaseNamed(s.cases, id).id = id
  BY <1>4 DEF CaseNamed
<1>6. ASSUME NEW c \in Range(s.cases), c.id = id PROVE c = CaseNamed(s.cases, id)
  <2>1. PICK i \in DOMAIN s.cases, j \in DOMAIN s.cases :
            c = s.cases[i] /\ CaseNamed(s.cases, id) = s.cases[j]
    BY <1>5 DEF Range
  <2>2. i = j
    BY <1>5, <1>6, <2>1 DEF Validated, SuiteValid
  <2> QED BY <2>1, <2>2
<1>7. ASSUME NEW c \in Range(s.cases), c.id = id PROVE ~c.active
  BY <1>3, <1>6, <1>7 DEF Validated, SuiteValid, CaseValid
<1>8. id \notin DOMAIN results
  BY <1>7 DEF ResultsOfActiveCases
<1>9. ~(Range(qualified) \subseteq Passed(results))
  BY <1>2, <1>8 DEF Passed
<1> QED BY <1>9 DEF QualificationStatus

\* Once validated, a suite of the tree is one the lemma above is about.
LEMMA ValidatedFromTree ==
    ASSUME KnownSuites, SuitesValid(tree.suites), NEW s \in tree.suites,
           s.track = "distribution-qualification"
    PROVE  Validated(s)
  BY SuitesList DEF KnownSuites, SuitesValid, Validated

-----------------------------------------------------------------------------
(* Every step keeps the invariant.                                         *)

LEMMA ReleaseBegins == ReleaseInit => ReleaseInv
  BY SuitesList DEF ReleaseInit, ReleaseInv, KnownSuites, QualifiedIsUnreachable

LEMMA QualifyStartKeeps == ReleaseInv /\ QualifyStart => ReleaseInv'
<1> SUFFICES ASSUME ReleaseInv, QualifyStart PROVE ReleaseInv'
  OBVIOUS
<1>1. PICK s \in tree.suites :
          /\ s.track = "distribution-qualification"
          /\ qualify' = [step |-> "cases", suite |-> s, todo |-> s.cases, results |-> <<>>]
  BY DEF QualifyStart
<1>2. Validated(s)
  BY <1>1, ValidatedFromTree DEF ReleaseInv, QualifyStart
<1>3. ResultsOfActiveCases(s, <<>>)
  BY DEF ResultsOfActiveCases
<1>4. Qualifying'
  BY <1>1, <1>2, <1>3 DEF Qualifying, Validated
<1> QED BY <1>4 DEF ReleaseInv, QualifyStart, KnownSuites, QualifiedIsUnreachable

LEMMA QualifySkipKeeps == ReleaseInv /\ QualifySkip => ReleaseInv'
<1> SUFFICES ASSUME ReleaseInv, QualifySkip PROVE ReleaseInv'
  OBVIOUS
<1>1. PICK s, todo, results :
          /\ qualify = [step |-> "cases", suite |-> s, todo |-> todo, results |-> results]
          /\ Validated(s)
          /\ todo \in Seq(Range(s.cases))
          /\ ResultsOfActiveCases(s, results)
  BY DEF ReleaseInv, Qualifying, QualifySkip, Idle
<1>2. qualify' = [step |-> "cases", suite |-> s, todo |-> Tail(todo), results |-> results]
  BY <1>1 DEF QualifySkip
<1>3. Tail(todo) \in Seq(Range(s.cases))
  BY <1>1 DEF QualifySkip
<1>4. Qualifying'
  BY <1>1, <1>2, <1>3 DEF Qualifying
<1> QED BY <1>4 DEF ReleaseInv, QualifySkip, KnownSuites, QualifiedIsUnreachable

LEMMA QualifyCaseKeeps == ReleaseInv /\ QualifyCase => ReleaseInv'
<1> SUFFICES ASSUME ReleaseInv, QualifyCase PROVE ReleaseInv'
  OBVIOUS
<1>1. PICK s, todo, results :
          /\ qualify = [step |-> "cases", suite |-> s, todo |-> todo, results |-> results]
          /\ Validated(s)
          /\ todo \in Seq(Range(s.cases))
          /\ ResultsOfActiveCases(s, results)
  BY DEF ReleaseInv, Qualifying, QualifyCase, Idle
<1>2. todo # <<>> /\ Head(todo).active
  BY <1>1 DEF QualifyCase
<1>3. PICK verdict :
          qualify' = [step |-> "cases", suite |-> s, todo |-> Tail(todo),
                      results |-> With(results, Head(todo).id, verdict)]
  BY <1>1 DEF QualifyCase
<1>4. Tail(todo) \in Seq(Range(s.cases)) /\ Head(todo) \in Range(s.cases)
  BY <1>1, <1>2
<1>5. ResultsOfActiveCases(s, With(results, Head(todo).id, verdict))
  BY <1>1, <1>2, <1>4 DEF ResultsOfActiveCases, With
<1>6. Qualifying'
  BY <1>1, <1>3, <1>4, <1>5 DEF Qualifying
<1> QED BY <1>6 DEF ReleaseInv, QualifyCase, KnownSuites, QualifiedIsUnreachable

LEMMA QualifyBindKeeps == ReleaseInv /\ QualifyBind => ReleaseInv'
<1> SUFFICES ASSUME ReleaseInv, QualifyBind PROVE ReleaseInv'
  OBVIOUS
<1>1. Validated(qualify.suite) /\ ResultsOfActiveCases(qualify.suite, qualify.results)
  BY DEF ReleaseInv, Qualifying, QualifyBind, Idle
<1>2. QualificationStatus(qualify.suite, qualify.results) # "qualified"
  BY <1>1, ValidSuiteNeverQualifies
<1>3. PICK receipt :
          /\ receipt.status # "qualified"
          /\ receipts' = With(receipts, qualify.suite.id, receipt)
  BY <1>2 DEF QualifyBind
<1>4. QualifiedIsUnreachable'
  BY <1>3 DEF ReleaseInv, QualifiedIsUnreachable, With
<1> QED BY <1>4 DEF ReleaseInv, QualifyBind, KnownSuites

LEMMA EditsKeep ==
    ReleaseInv /\ (EditCapability \/ EditSource \/ EditPlan \/ EditPackage) => ReleaseInv'
<1> SUFFICES ASSUME ReleaseInv, EditCapability \/ EditSource \/ EditPlan \/ EditPackage
             PROVE  ReleaseInv'
  OBVIOUS
<1>1. UNCHANGED <<receipts, qualify>>
  BY DEF EditCapability, EditSource, EditPlan, EditPackage, Edited
<1>2. CASE EditCapability
  <2>1. PICK p \in DOMAIN tree.caps, d \in Documents : tree' = [tree EXCEPT !.caps[p] = d]
    BY <1>2 DEF EditCapability
  <2>2. KnownSuites'
    BY <2>1 DEF ReleaseInv, KnownSuites
  <2> QED BY <1>1, <2>2 DEF ReleaseInv, Qualifying, QualifiedIsUnreachable
<1>3. CASE EditSource
  <2>1. PICK sources : tree' = [tree EXCEPT !.sources = sources]
    BY <1>3 DEF EditSource
  <2>2. KnownSuites'
    BY <2>1 DEF ReleaseInv, KnownSuites
  <2> QED BY <1>1, <2>2 DEF ReleaseInv, Qualifying, QualifiedIsUnreachable
<1>4. CASE EditPlan
  <2>1. KnownSuites'
    BY <1>4 DEF EditPlan, ReleaseInv, KnownSuites
  <2> QED BY <1>1, <2>1 DEF ReleaseInv, Qualifying, QualifiedIsUnreachable
<1>5. CASE EditPackage
  BY <1>1, <1>5 DEF EditPackage, ReleaseInv, KnownSuites, Qualifying, QualifiedIsUnreachable
<1> QED BY <1>2, <1>3, <1>4, <1>5

LEMMA ReleaseKeeps == ReleaseInv /\ [ReleaseNext]_releaseVars => ReleaseInv'
<1> SUFFICES ASSUME ReleaseInv, [ReleaseNext]_releaseVars PROVE ReleaseInv'
  OBVIOUS
<1>1. CASE UNCHANGED <<tree, receipts, qualify>>
  BY <1>1 DEF ReleaseInv, KnownSuites, Qualifying, QualifiedIsUnreachable
<1>2. CASE \/ BuildStart \/ BuildRender \/ BuildSeal \/ BuildClear \/ BuildWrite
           \/ BuildRow \/ BuildLock \/ BuildDies
  <2>1. UNCHANGED <<tree, receipts, qualify>>
    BY <1>2 DEF BuildStart, BuildRender, BuildSeal, BuildClear, BuildWrite, BuildRow,
                BuildLock, BuildDies
  <2> QED BY <1>1, <2>1
<1>3. CASE QualifyDies
  BY <1>3 DEF QualifyDies, ReleaseInv, KnownSuites, QualifiedIsUnreachable
<1>4. CASE UNCHANGED releaseVars
  BY <1>1, <1>4 DEF releaseVars
<1> QED BY <1>2, <1>3, <1>4, QualifyStartKeeps, QualifySkipKeeps, QualifyCaseKeeps,
           QualifyBindKeeps, EditsKeep DEF ReleaseNext

\* No receipt says "qualified", for every suite, tree and sequence of commands and
\* edits: the cases it needs are behavioral, and validation keeps those inactive.
THEOREM QualifiedIsUnreachableHolds == ReleaseSpec => []QualifiedIsUnreachable
<1>1. ReleaseSpec => []ReleaseInv
  BY ReleaseBegins, ReleaseKeeps, PTL DEF ReleaseSpec
<1>2. ReleaseInv => QualifiedIsUnreachable
  BY DEF ReleaseInv
<1> QED BY <1>1, <1>2, PTL

-----------------------------------------------------------------------------
(* The dry build, export by export.                                        *)

\* A set of naturals that holds 0 and the successors of its members holds all.
LEMMA NaturalsFrom ==
    ASSUME NEW S, 0 \in S, \A n \in Nat : n \in S => n + 1 \in S
    PROVE  Nat \subseteq S
<1> DEFINE T == Nat \ S
           less == OpToRel(<, Nat)
<1> SUFFICES ASSUME T # {} PROVE FALSE
  OBVIOUS
<1>1. IsWellFoundedOn(less, Nat) /\ T \subseteq Nat
  BY NatLessThanWellFounded
<1> HIDE DEF less
<1>2. PICK x \in T : \A y \in T : <<y, x>> \notin less
  BY <1>1, WFMin
<1>3. \A y \in T : ~(y < x)
  BY <1>2 DEF less, OpToRel
<1>4. x # 0 /\ x - 1 \in Nat /\ x - 1 \in S
  BY <1>3
<1> QED BY <1>4

\* A greatest member is the maximum.
LEMMA MaxIs ==
    ASSUME NEW S \in SUBSET Nat, NEW x \in S, \A y \in S : x >= y
    PROVE  Max(S) = x
<1>1. \A y \in S : (\A z \in S : y >= z) => y = x
  <2> SUFFICES ASSUME NEW y \in S, \A z \in S : y >= z PROVE y = x
    OBVIOUS
  <2>1. x >= y /\ y >= x /\ x \in Nat /\ y \in Nat
    OBVIOUS
  <2> QED BY <2>1
<1>2. (CHOOSE y \in S : \A z \in S : y >= z) = x
  BY <1>1
<1> QED BY <1>2 DEF Max

\* P[k] is the dry build of the first k exports.
DryChain(t, P) ==
    /\ P[0] = NothingBuilt
    /\ \A k \in 0 .. Len(t.plan.exports) - 1 : P[k + 1] = DryStep(t, P[k], t.plan.exports[k + 1])

DryBody(t, s, f) ==
    IF s = {} THEN NothingBuilt ELSE DryStep(t, f[s \ {Max(s)}], t.plan.exports[Max(s)])

\* The fold over the exports has a value at every set of them.
LEMMA DryRecursion ==
    ASSUME NEW t, NEW n \in Nat
    PROVE  \E f : f = [s \in SUBSET (1 .. n) |-> DryBody(t, s, f)]
<1> DEFINE S == { m \in Nat : \E f : f = [s \in SUBSET (1 .. m) |-> DryBody(t, s, f)] }
<1>1. 0 \in S
  <2> DEFINE f == [s \in SUBSET (1 .. 0) |-> NothingBuilt]
  <2>1. f = [s \in SUBSET (1 .. 0) |-> DryBody(t, s, f)]
    BY DEF DryBody
  <2> QED BY <2>1
<1>2. ASSUME NEW m \in Nat, m \in S PROVE m + 1 \in S
  <2>1. PICK f : f = [s \in SUBSET (1 .. m) |-> DryBody(t, s, f)]
    BY <1>2
  <2> DEFINE g == [s \in SUBSET (1 .. m + 1) |->
                      IF m + 1 \in s THEN DryStep(t, f[s \ {m + 1}], t.plan.exports[m + 1])
                      ELSE f[s]]
  <2>2. ASSUME NEW s \in SUBSET (1 .. m + 1) PROVE g[s] = DryBody(t, s, g)
    <3>1. CASE m + 1 \in s
      <4>1. Max(s) = m + 1 /\ s # {}
        <5>1. s \in SUBSET Nat /\ \A y \in s : m + 1 >= y
          OBVIOUS
        <5> HIDE DEF g
        <5> QED BY <3>1, <5>1, MaxIs
      <4>2. s \ {m + 1} \in SUBSET (1 .. m + 1) /\ m + 1 \notin s \ {m + 1}
        OBVIOUS
      <4>3. g[s \ {m + 1}] = f[s \ {m + 1}]
        BY <4>2
      <4>4. g[s] = DryStep(t, f[s \ {m + 1}], t.plan.exports[m + 1])
        BY <3>1
      <4> HIDE DEF g
      <4> QED BY <4>1, <4>3, <4>4 DEF DryBody
    <3>2. CASE m + 1 \notin s
      <4>1. s \in SUBSET (1 .. m) /\ g[s] = f[s]
        BY <3>2
      <4>2. f[s] = DryBody(t, s, f)
        BY <2>1, <4>1
      <4>3. /\ s \ {Max(s)} \in SUBSET (1 .. m + 1)
            /\ m + 1 \notin s \ {Max(s)}
        BY <3>2
      <4>4. g[s \ {Max(s)}] = f[s \ {Max(s)}]
        BY <4>3
      <4> HIDE DEF g
      <4> QED BY <4>1, <4>2, <4>4 DEF DryBody
    <3> QED BY <3>1, <3>2
  <2>3. g = [s \in SUBSET (1 .. m + 1) |-> DryBody(t, s, g)]
    BY <2>2
  <2> HIDE DEF g
  <2> QED BY <2>3
<1> HIDE DEF S
<1>3. n \in S
  BY <1>1, <1>2, NaturalsFrom
<1> QED BY <1>3 DEF S

\* The dry build of all exports ends the chain of its prefixes.
LEMMA DryIsChain ==
    ASSUME NEW t, t.plan.exports \in Seq(Range(t.plan.exports))
    PROVE  \E P : DryChain(t, P) /\ Dry(t) = P[Len(t.plan.exports)]
<1> DEFINE n == Len(t.plan.exports)
           f == CHOOSE f : f = [s \in SUBSET (1 .. n) |-> DryBody(t, s, f)]
           P == [k \in 0 .. n |-> f[1 .. k]]
<1>1. n \in Nat /\ DOMAIN t.plan.exports = 1 .. n
  OBVIOUS
<1>2. f = [s \in SUBSET (1 .. n) |-> DryBody(t, s, f)]
  <2>1. \E g : g = [s \in SUBSET (1 .. n) |-> DryBody(t, s, g)]
    BY <1>1, DryRecursion
  <2> QED BY <2>1
<1>3. Dry(t) = f[1 .. n]
  BY <1>1 DEF Dry, FoldLeft, MapThenFoldSet, DryBody
<1> HIDE DEF f, n
<1>4. P[0] = NothingBuilt
  <2>1. 1 .. 0 = {} /\ 1 .. 0 \in SUBSET (1 .. n)
    OBVIOUS
  <2>2. f[1 .. 0] = DryBody(t, 1 .. 0, f)
    BY <1>2, <2>1
  <2> QED BY <1>1, <2>1, <2>2 DEF DryBody
<1>5. ASSUME NEW k \in 0 .. n - 1 PROVE P[k + 1] = DryStep(t, P[k], t.plan.exports[k + 1])
  <2>0. k \in Nat /\ k + 1 \in 0 .. n /\ k \in 0 .. n
    BY <1>1
  <2>1. k + 1 \in 1 .. k + 1 /\ 1 .. k + 1 \in SUBSET (1 .. n)
    BY <1>1, <2>0
  <2>2. Max(1 .. k + 1) = k + 1
    <3>1. 1 .. k + 1 \in SUBSET Nat /\ \A y \in 1 .. k + 1 : k + 1 >= y
      BY <2>0
    <3> QED BY <2>1, <3>1, MaxIs
  <2>3. (1 .. k + 1) \ {k + 1} = 1 .. k
    BY <2>0
  <2>4. f[1 .. k + 1] = DryBody(t, 1 .. k + 1, f)
    BY <1>2, <2>1
  <2>5. f[1 .. k + 1] = DryStep(t, f[1 .. k], t.plan.exports[k + 1])
    BY <2>1, <2>2, <2>3, <2>4 DEF DryBody
  <2> QED BY <2>0, <2>5
<1>6. DryChain(t, P)
  BY <1>4, <1>5 DEF DryChain, n
<1>7. P[n] = f[1 .. n]
  BY <1>1
<1> HIDE DEF P
<1> QED BY <1>3, <1>6, <1>7 DEF n

\* The chain that ends in the dry build.
DryOf(t) == CHOOSE P : DryChain(t, P) /\ Dry(t) = P[Len(t.plan.exports)]

LEMMA DryOfIs ==
    ASSUME NEW t, t.plan.exports \in Seq(Range(t.plan.exports))
    PROVE  DryChain(t, DryOf(t)) /\ Dry(t) = DryOf(t)[Len(t.plan.exports)]
  BY DryIsChain DEF DryOf

\* Every export built so far has a package, and every row is the capability's.
ChainSound(t, P, k) ==
    /\ \A i \in 1 .. k : t.plan.exports[i].output_path \in DOMAIN P[k].disk
    /\ \A id \in DOMAIN P[k].rows : Declares(t, id) /\ LockedEntryMatches(t, id, P[k].rows[id])

\* A row is added, or kept with one more export.
LEMMA RowMatches ==
    ASSUME NEW t, NEW rows, NEW e, NEW package, CapabilityIdsUnique(t), Declares(t, e.capability_id),
           \A id \in DOMAIN rows : Declares(t, id) /\ LockedEntryMatches(t, id, rows[id])
    PROVE  \A id \in DOMAIN WithRow(t, rows, Normalize(t, e), package) :
               /\ Declares(t, id)
               /\ LockedEntryMatches(t, id, WithRow(t, rows, Normalize(t, e), package)[id])
<1> DEFINE n == Normalize(t, e)
           d == n.doc
           row == [version |-> d.version, lifecycle |-> d.lifecycle, evaluation |-> d.evaluation,
                   capability_path |-> n.cap_path, capability_sha256 |-> t.caps[n.cap_path],
                   primary_asset |-> [id |-> d.primary_asset, sha256 |-> t.sources[n.source_path]],
                   exports |-> {}]
           locked == IF d.id \in DOMAIN rows THEN rows[d.id] ELSE row
           export == [target |-> n.export.target, adapter_version |-> n.export.adapter_version,
                      path |-> n.export.output_path, package_sha256 |-> package]
           after == [locked EXCEPT !.exports = @ \cup {export}]
           rows2 == WithRow(t, rows, n, package)
<1>1. /\ CapabilityPath(t, e.capability_id) \in DOMAIN t.caps
      /\ t.caps[CapabilityPath(t, e.capability_id)].id = e.capability_id
  BY DEF Declares, CapabilityPath
<1>2. /\ n.cap_path = CapabilityPath(t, e.capability_id)
      /\ d = t.caps[n.cap_path]
      /\ d.id = e.capability_id
  BY <1>1 DEF Normalize
<1>3. rows2 = [id \in DOMAIN rows \cup {d.id} |-> IF id = d.id THEN after ELSE rows[id]]
  BY DEF WithRow, With
<1> HIDE DEF n
<1>4. LockedEntryMatches(t, d.id, row)
  BY <1>2 DEF LockedEntryMatches
<1>5. LockedEntryMatches(t, d.id, locked)
  <2> HIDE DEF row
  <2> QED BY <1>4
<1> HIDE DEF locked
<1>6. LockedEntryMatches(t, d.id, after)
  BY <1>5 DEF LockedEntryMatches
<1> HIDE DEF after, rows2
<1>7. ASSUME NEW id \in DOMAIN rows2
      PROVE  Declares(t, id) /\ LockedEntryMatches(t, id, rows2[id])
  <2>1. CASE id = d.id
    BY <1>2, <1>3, <1>6, <2>1
  <2>2. CASE id # d.id
    <3>1. id \in DOMAIN rows /\ rows2[id] = rows[id]
      BY <1>3, <2>2
    <3> QED BY <3>1
  <2> QED BY <2>1, <2>2
<1> QED BY <1>7 DEF rows2, n

\* All prefixes of the dry build of an accepted plan are sound.
LEMMA ChainIsSound ==
    ASSUME NEW t, NEW P, DryChain(t, P), PlanAccepted(t),
           t.plan.exports \in Seq(Range(t.plan.exports))
    PROVE  \A k \in 0 .. Len(t.plan.exports) : ChainSound(t, P, k)
<1> DEFINE exports == t.plan.exports
           n == Len(exports)
           S == { k \in Nat : k <= n => ChainSound(t, P, k) }
<1>1. n \in Nat
  OBVIOUS
<1>2. 0 \in S
  BY DEF ChainSound, DryChain, NothingBuilt
<1>3. ASSUME NEW k \in Nat, k \in S PROVE k + 1 \in S
  <2> SUFFICES ASSUME k + 1 <= n PROVE ChainSound(t, P, k + 1)
    OBVIOUS
  <2> DEFINE e == exports[k + 1]
             package == Package(t, e)
  <2>1. ChainSound(t, P, k)
    BY <1>1, <1>3
  <2>2. P[k + 1] = DryStep(t, P[k], e)
    <3>1. k \in 0 .. n - 1
      BY <1>1
    <3> QED BY <3>1 DEF DryChain
  <2>3. /\ P[k + 1].disk = With(P[k].disk, e.output_path, package)
        /\ P[k + 1].rows = WithRow(t, P[k].rows, Normalize(t, e), package)
    BY <2>2 DEF DryStep
  <2>4. \A i \in 1 .. k + 1 : exports[i].output_path \in DOMAIN P[k + 1].disk
    <3>1. DOMAIN P[k + 1].disk = DOMAIN P[k].disk \cup {e.output_path}
      BY <2>3 DEF With
    <3>2. \A i \in 1 .. k + 1 : i = k + 1 \/ i \in 1 .. k
      OBVIOUS
    <3> QED BY <2>1, <3>1, <3>2 DEF ChainSound
  <2>5. e \in Range(exports)
    <3>1. k + 1 \in DOMAIN exports
      BY <1>1
    <3> QED BY <3>1 DEF Range
  <2>6. CapabilityIdsUnique(t) /\ Declares(t, e.capability_id)
    BY <2>5 DEF PlanAccepted, ExportAccepted
  <2>7. \A id \in DOMAIN P[k + 1].rows :
            Declares(t, id) /\ LockedEntryMatches(t, id, P[k + 1].rows[id])
    <3> HIDE DEF e, package
    <3> QED BY <2>1, <2>3, <2>6, RowMatches DEF ChainSound
  <2> QED BY <2>4, <2>7 DEF ChainSound
<1> HIDE DEF S
<1>4. Nat \subseteq S
  BY <1>2, <1>3, NaturalsFrom
<1> QED BY <1>1, <1>4 DEF S

-----------------------------------------------------------------------------
(* One package, written file by file.                                      *)

\* A finite set is listed in full.
LEMMA SetIsListed ==
    ASSUME NEW S, IsFiniteSet(S)
    PROVE  /\ Cardinality(S) \in Nat
           /\ SetToSeq(S) \in [1 .. Cardinality(S) -> S]
           /\ \A x \in S : \E i \in 1 .. Cardinality(S) : SetToSeq(S)[i] = x
<1> DEFINE n == Cardinality(S)
           f == SetToSeq(S)
<1>1. n \in Nat /\ ExistsBijection(1 .. n, S)
  BY FS_CardinalityType
<1>2. PICK g : g \in Bijection(1 .. n, S)
  BY <1>1 DEF ExistsBijection
<1>3. g \in [1 .. n -> S] /\ IsInjective(g)
  BY <1>2 DEF Bijection, Injection
<1>4. f \in [1 .. n -> S] /\ IsInjective(f)
  BY <1>3 DEF SetToSeq
<1> HIDE DEF f
<1>5. f \in Injection(1 .. n, S)
  BY <1>4 DEF Injection
<1>6. IsFiniteSet(1 .. n) /\ Cardinality(1 .. n) = n
  BY <1>1, FS_Interval
<1>7. f \in Surjection(1 .. n, S)
  <2> HIDE DEF n
  <2>1. Cardinality(1 .. n) = Cardinality(S) <=> f \in Surjection(1 .. n, S)
    BY <1>5, FS_Injection
  <2> QED BY <1>6, <2>1 DEF n
<1> QED BY <1>1, <1>4, <1>7 DEF Surjection, f

\* The order of writing names every file of the package, with its content.
LEMMA WriteOrderIsWhole ==
    ASSUME NEW generated, NEW manifest, IsFiniteSet(DOMAIN generated),
           SkillFile \in DOMAIN generated, ManifestFile \notin DOMAIN generated
    PROVE  LET order == WriteOrder(generated, manifest)
               package == With(generated, ManifestFile, manifest)
           IN  /\ order \in Seq(Range(order))
               /\ \A i \in 1 .. Len(order) : /\ order[i].name \in DOMAIN package
                                             /\ order[i].data = package[order[i].name]
               /\ \A name \in DOMAIN package : \E i \in 1 .. Len(order) : order[i].name = name
<1> DEFINE S == DOMAIN generated \ {SkillFile}
           resources == SetToSeq(S)
           m == Cardinality(S)
           first == [name |-> SkillFile, data |-> generated[SkillFile]]
           mid == [i \in DOMAIN resources |->
                      [name |-> resources[i], data |-> generated[resources[i]]]]
           last == [name |-> ManifestFile, data |-> manifest]
           X == {first, last} \cup Range(mid)
           order == WriteOrder(generated, manifest)
           package == With(generated, ManifestFile, manifest)
<1>1. /\ m \in Nat
      /\ resources \in [1 .. m -> S]
      /\ \A x \in S : \E i \in 1 .. m : resources[i] = x
  <2>1. IsFiniteSet(S)
    BY FS_RemoveElement
  <2> HIDE DEF S
  <2> QED BY <2>1, SetIsListed
<1>2. order = <<first>> \o mid \o <<last>>
  BY DEF WriteOrder
<1> HIDE DEF S, resources, m
<1>3. mid \in Seq(X) /\ Len(mid) = m /\ <<first>> \in Seq(X) /\ <<last>> \in Seq(X)
  <2>1. mid \in [1 .. m -> X]
    BY <1>1 DEF Range
  <2>2. mid \in Seq(X)
    BY <1>1, <2>1
  <2>3. DOMAIN mid = 1 .. m
    BY <1>1
  <2> HIDE DEF mid
  <2> QED BY <1>1, <2>2, <2>3
<1>4. \A i \in 1 .. m : mid[i] = [name |-> resources[i], data |-> generated[resources[i]]]
  BY <1>1
<1> HIDE DEF mid, first, last, X, order
<1>5. /\ <<first>> \o mid \in Seq(X) /\ Len(<<first>> \o mid) = m + 1
      /\ (<<first>> \o mid)[1] = first
      /\ \A i \in 1 .. m : (<<first>> \o mid)[i + 1] = mid[i]
  BY <1>1, <1>3
<1>6. /\ order \in Seq(X) /\ Len(order) = m + 2
      /\ order[1] = first
      /\ \A i \in 1 .. m : order[i + 1] = mid[i]
      /\ order[m + 2] = last
  <2> DEFINE front == <<first>> \o mid
  <2>1. /\ front \in Seq(X) /\ Len(front) = m + 1 /\ front[1] = first
        /\ \A i \in 1 .. m : front[i + 1] = mid[i]
        /\ order = front \o <<last>>
    BY <1>2, <1>5
  <2> HIDE DEF front
  <2>2. order \in Seq(X) /\ Len(order) = m + 2 /\ order[m + 2] = last
    BY <1>1, <1>3, <2>1
  <2>3. \A i \in 1 .. m + 1 : order[i] = front[i]
    BY <1>1, <1>3, <2>1
  <2> QED BY <1>1, <2>1, <2>2, <2>3
<1>7. order \in Seq(Range(order))
  <2>1. \A i \in 1 .. Len(order) : order[i] \in Range(order)
    BY <1>6 DEF Range
  <2> QED BY <1>6, <2>1
<1>8. /\ DOMAIN package = DOMAIN generated \cup {ManifestFile}
      /\ package[ManifestFile] = manifest
      /\ \A x \in DOMAIN generated : package[x] = generated[x]
  BY DEF With
<1> HIDE DEF package
<1>9. /\ first.name = SkillFile /\ first.data = package[SkillFile]
      /\ last.name = ManifestFile /\ last.data = package[ManifestFile]
      /\ \A i \in 1 .. m : /\ mid[i].name = resources[i] /\ resources[i] \in S
                           /\ mid[i].data = package[resources[i]]
  <2>1. \A i \in 1 .. m : resources[i] \in S /\ resources[i] \in DOMAIN generated
    BY <1>1 DEF S
  <2>2. first.name = SkillFile /\ first.data = package[SkillFile]
    BY <1>8 DEF first
  <2>3. last.name = ManifestFile /\ last.data = package[ManifestFile]
    BY <1>8 DEF last
  <2>4. ASSUME NEW i \in 1 .. m
        PROVE  mid[i].name = resources[i] /\ mid[i].data = package[resources[i]]
    <3>1. mid[i] = [name |-> resources[i], data |-> generated[resources[i]]]
      BY <1>4
    <3> QED BY <1>8, <2>1, <3>1
  <2> QED BY <2>1, <2>2, <2>3, <2>4
<1>10. \A i \in 1 .. Len(order) : order[i].name \in DOMAIN package /\ order[i].data = package[order[i].name]
  <2> SUFFICES ASSUME NEW i \in 1 .. Len(order)
               PROVE  order[i].name \in DOMAIN package /\ order[i].data = package[order[i].name]
    OBVIOUS
  <2>1. i = 1 \/ i = m + 2 \/ (i - 1 \in 1 .. m /\ order[i] = mid[i - 1])
    <3>1. i \in Int /\ 1 <= i /\ i <= m + 2
      BY <1>1, <1>6
    <3>2. i # 1 /\ i # m + 2 => i - 1 \in 1 .. m /\ (i - 1) + 1 = i
      BY <1>1, <3>1
    <3> QED BY <1>6, <3>2
  <2>2. CASE i = 1
    BY <1>6, <1>8, <1>9, <2>2
  <2>3. CASE i = m + 2
    BY <1>6, <1>8, <1>9, <2>3
  <2>4. CASE i - 1 \in 1 .. m /\ order[i] = mid[i - 1]
    BY <1>8, <1>9, <2>4 DEF S
  <2> QED BY <2>1, <2>2, <2>3, <2>4
<1>11. \A name \in DOMAIN package : \E i \in 1 .. Len(order) : order[i].name = name
  <2> SUFFICES ASSUME NEW name \in DOMAIN package PROVE \E i \in 1 .. Len(order) : order[i].name = name
    OBVIOUS
  <2>1. CASE name = SkillFile
    BY <1>1, <1>6, <1>9, <2>1
  <2>2. CASE name = ManifestFile
    BY <1>1, <1>6, <1>9, <2>2
  <2>3. CASE name # SkillFile /\ name # ManifestFile
    <3>1. name \in S
      BY <1>8, <2>3 DEF S
    <3>2. PICK i \in 1 .. m : resources[i] = name
      BY <1>1, <3>1
    <3>3. order[i + 1] = mid[i] /\ mid[i].name = name
      BY <1>6, <1>9, <3>2
    <3>4. i + 1 \in 1 .. Len(order)
      BY <1>1, <1>6
    <3> QED BY <3>3, <3>4
  <2> QED BY <2>1, <2>2, <2>3
<1> QED BY <1>7, <1>10, <1>11 DEF order, package

\* A package has finitely many files, one of them the skill, and its manifest is
\* not among those it digests.
LEMMA RenderedFiles ==
    ASSUME NEW t, NEW n, n.doc.resources \in Seq(Range(n.doc.resources))
    PROVE  /\ IsFiniteSet(DOMAIN Rendered(t, n))
           /\ SkillFile \in DOMAIN Rendered(t, n)
           /\ ManifestFile \notin DOMAIN Rendered(t, n)
<1> DEFINE list == Resources(n.doc)
           paths == { ResourcePath(r) : r \in Range(list) }
           len == Len(list)
           f == [i \in 1 .. len |-> ResourcePath(list[i])]
<1>1. DOMAIN Rendered(t, n) = paths \cup {SkillFile}
  BY DEF Rendered, With, Bundle
<1>2. len \in Nat /\ DOMAIN list = 1 .. len
  <2>1. CASE n.doc.resources = <<>>
    <3>1. PICK r : list = <<r>>
      BY <2>1 DEF Resources
    <3> HIDE DEF list
    <3> QED BY <3>1
  <2>2. CASE n.doc.resources # <<>>
    <3>1. list = n.doc.resources
      BY <2>2 DEF Resources
    <3> HIDE DEF list
    <3> QED BY <3>1
  <2> QED BY <2>1, <2>2
<1> HIDE DEF list, len
<1>3. IsFiniteSet(paths)
  <2>1. f \in Surjection(1 .. len, paths)
    BY <1>2 DEF Surjection, Range
  <2>2. IsFiniteSet(1 .. len)
    BY <1>2, FS_Interval
  <2> HIDE DEF f, paths
  <2> QED BY <2>1, <2>2, FS_Surjection
<1>4. ManifestFile \notin paths
  <2>1. \A r : Len(ResourcePath(r)) = 2
    BY DEF ResourcePath
  <2>2. Len(ManifestFile) = 1
    BY DEF ManifestFile
  <2>3. \A r : ResourcePath(r) # ManifestFile
    <3> SUFFICES ASSUME NEW r, ResourcePath(r) = ManifestFile PROVE FALSE
      OBVIOUS
    <3>1. Len(ResourcePath(r)) = 2
      BY <2>1
    <3>2. Len(ManifestFile) = 2
      BY <3>1, Zenon
    <3>3. 1 = 2
      BY <2>2, <3>2, Zenon
    <3> QED BY <3>3
  <2> QED BY <2>3
<1>5. ManifestFile # SkillFile
  BY DEF ManifestFile, SkillFile
<1> HIDE DEF paths
<1> QED BY <1>1, <1>3, <1>4, <1>5, FS_AddElement

-----------------------------------------------------------------------------
(* A build that nothing disturbs, step by step.                            *)

Gen(t, e) == Rendered(t, Normalize(t, e))
Man(t, e) == Manifest(t, Normalize(t, e), Gen(t, e), AlwaysLoadedSizes(t, Normalize(t, e).doc))
Order(t, e) == WriteOrder(Gen(t, e), Man(t, e))

\* The package after j of its files were written.
Written(t, e, j) == [name \in { Order(t, e)[i].name : i \in 1 .. j } |-> Package(t, e)[name]]

Exportable(t, e) == e.target = "agent-skills" /\ Packageable(t, Normalize(t, e).doc)

\* Where the build b of the export e stands, with the packages d on disk.
Stage(t, b, d, e) ==
    \/ /\ b.step = "seal"
       /\ b.generated = Gen(t, e)
       /\ b.sizes = AlwaysLoadedSizes(t, Normalize(t, e).doc)
    \/ b.step = "clear" /\ b.files = Package(t, e) /\ b.writes = Order(t, e)
    \/ /\ b.step = "write"
       /\ b.files = Package(t, e)
       /\ \E j \in 0 .. Len(Order(t, e)) :
             /\ b.writes = SubSeq(Order(t, e), j + 1, Len(Order(t, e)))
             /\ FilesAt(d, e.output_path) = Written(t, e, j)

\* The build has done the first k exports: their packages and rows are those of
\* the dry build, but for the package that is being replaced.
BuiltTo(t, b, d, k) ==
    LET exports == t.plan.exports
        dry == DryOf(t)[k]
    IN  /\ b.todo = [i \in 1 .. Len(exports) - k |-> Normalize(t, exports[i + k])]
        /\ b.rows = dry.rows
        /\ \A i \in 1 .. k : Exportable(t, exports[i])
        /\ \A path \in DOMAIN dry.disk :
              \/ b.step \in {"clear", "write"} /\ path = exports[k + 1].output_path
              \/ FilesAt(d, path) = dry.disk[path]
        /\ b.step # "export" => /\ k < Len(exports)
                                /\ Exportable(t, exports[k + 1])
                                /\ Stage(t, b, d, exports[k + 1])

Faithful(t, b, d) ==
    b # Idle /\ b.quiet =>
        /\ PlanAccepted(t)
        /\ \E k \in 0 .. Len(t.plan.exports) : BuiltTo(t, b, d, k)

Listed(t) ==
    /\ DOMAIN t = {"caps", "sources", "suites", "plan", "project"}
    /\ t.plan.exports \in Seq(Range(t.plan.exports))
    /\ \A p \in DOMAIN t.caps : t.caps[p].resources \in Seq(Range(t.caps[p].resources))

\* What a build keeps from step to step.
Shaped(b) ==
    \/ b = Idle
    \/ /\ b.quiet \in BOOLEAN
       /\ \/ b.step = "export" /\ DOMAIN b = {"step", "rows", "quiet", "todo"}
          \/ b.step = "seal" /\ DOMAIN b = {"step", "rows", "quiet", "todo", "generated", "sizes"}
          \/ /\ b.step \in {"clear", "write"}
             /\ DOMAIN b = {"step", "rows", "quiet", "todo", "files", "writes"}

BuildBase ==
    /\ Listed(tree)
    /\ Shaped(build)
    /\ undisturbed \in BOOLEAN
    /\ build # Idle => ~undisturbed

BuildInv == BuildBase /\ Faithful(tree, build, disk) /\ UndisturbedBuildVerifies

Editing == EditCapability \/ EditSource \/ EditPlan \/ EditPackage
Qualify == QualifyStart \/ QualifySkip \/ QualifyCase \/ QualifyBind \/ QualifyDies

\* A build that goes on is in one of its steps, and not done.
LEMMA StepOf ==
    ASSUME BuildBase, build.step # "idle"
    PROVE  /\ build # Idle /\ ~undisturbed /\ build.quiet \in BOOLEAN
           /\ {"step", "rows", "quiet", "todo"} \subseteq DOMAIN build
           /\ build.step \in {"clear", "write"} =>
                  DOMAIN build = {"step", "rows", "quiet", "todo", "files", "writes"}
<1>1. build # Idle
  BY DEF Idle
<1> QED BY <1>1 DEF BuildBase, Shaped

\* An edit puts lists where lists were.
LEMMA EditedTreeIsListed ==
    ASSUME Listed(tree), Editing
    PROVE  Listed(tree')
<1>1. CASE EditCapability
  <2>1. PICK p \in DOMAIN tree.caps, d \in Documents : tree' = [tree EXCEPT !.caps[p] = d]
    BY <1>1 DEF EditCapability
  <2>2. /\ DOMAIN tree' = DOMAIN tree
        /\ tree'.plan = tree.plan
        /\ tree'.caps = [tree.caps EXCEPT ![p] = d]
    BY <2>1 DEF Listed
  <2>3. d.resources \in Seq(Range(d.resources))
    BY TreesList
  <2>4. \A q \in DOMAIN tree'.caps : tree'.caps[q].resources \in Seq(Range(tree'.caps[q].resources))
    BY <2>2, <2>3 DEF Listed
  <2> QED BY <2>2, <2>4 DEF Listed
<1>2. CASE EditSource
  <2>1. PICK sources : tree' = [tree EXCEPT !.sources = sources]
    BY <1>2 DEF EditSource
  <2>2. DOMAIN tree' = DOMAIN tree /\ tree'.plan = tree.plan /\ tree'.caps = tree.caps
    BY <2>1 DEF Listed
  <2> QED BY <2>2 DEF Listed
<1>3. CASE EditPlan
  <2>1. CASE \E plan \in Plans : tree' = [tree EXCEPT !.plan = plan]
    <3>1. PICK plan \in Plans : tree' = [tree EXCEPT !.plan = plan]
      BY <2>1
    <3>2. DOMAIN tree' = DOMAIN tree /\ tree'.plan = plan /\ tree'.caps = tree.caps
      BY <3>1 DEF Listed
    <3>3. plan.exports \in Seq(Range(plan.exports))
      BY TreesList
    <3> QED BY <3>2, <3>3 DEF Listed
  <2>2. CASE \/ \E project \in Projects : tree' = [tree EXCEPT !.project = project]
             \/ \E suites \in SuiteSets : tree' = [tree EXCEPT !.suites = suites]
    <3>1. DOMAIN tree' = DOMAIN tree /\ tree'.plan = tree.plan /\ tree'.caps = tree.caps
      BY <2>2 DEF Listed
    <3> QED BY <3>1 DEF Listed
  <2> QED BY <1>3, <2>1, <2>2 DEF EditPlan
<1>4. CASE EditPackage
  BY <1>4 DEF EditPackage
<1> QED BY <1>1, <1>2, <1>3, <1>4 DEF Editing

LEMMA BuildBaseInit == ReleaseInit => BuildInv
<1> SUFFICES ASSUME ReleaseInit PROVE BuildInv
  OBVIOUS
<1>1. Listed(tree)
  <2>1. \A p \in DOMAIN InitialTree.caps : InitialTree.caps[p] \in Range(InitialTree.caps)
    BY DEF Range
  <2> QED BY <2>1, TreesList DEF ReleaseInit, Listed
<1> QED BY <1>1 DEF ReleaseInit, BuildInv, BuildBase, Shaped, Faithful, UndisturbedBuildVerifies

\* Every step of a command or an edit keeps what the argument needs of the shapes.
LEMMA BuildBaseNext == BuildBase /\ [ReleaseNext]_releaseVars => BuildBase'
<1> SUFFICES ASSUME BuildBase, [ReleaseNext]_releaseVars PROVE BuildBase'
  OBVIOUS
<1>1. CASE Editing
  <2>1. Listed(tree')
    BY <1>1, EditedTreeIsListed DEF BuildBase
  <2>2. undisturbed' = FALSE /\ build' = IF build = Idle THEN Idle ELSE [build EXCEPT !.quiet = FALSE]
    BY <1>1 DEF Editing, EditCapability, EditSource, EditPlan, EditPackage, Edited
  <2>3. Shaped(build')
    <3>1. CASE build = Idle
      BY <2>2, <3>1 DEF Shaped
    <3>2. CASE build # Idle
      <4>1. /\ build' = [build EXCEPT !.quiet = FALSE]
            /\ "quiet" \in DOMAIN build /\ "step" \in DOMAIN build
        BY <2>2, <3>2 DEF BuildBase, Shaped
      <4>2. DOMAIN build' = DOMAIN build /\ build'.quiet = FALSE /\ build'.step = build.step
        BY <4>1
      <4> QED BY <3>2, <4>2 DEF BuildBase, Shaped
    <3> QED BY <3>1, <3>2
  <2> QED BY <2>1, <2>2, <2>3 DEF BuildBase
<1>2. CASE Qualify \/ UNCHANGED releaseVars
  BY <1>2 DEF Qualify, QualifyStart, QualifySkip, QualifyCase, QualifyBind, QualifyDies, releaseVars, BuildBase
<1>3. CASE BuildStart
  <2>1. PICK todo : build' = [step |-> "export", rows |-> <<>>, quiet |-> TRUE, todo |-> todo]
    BY <1>3 DEF BuildStart
  <2>2. tree' = tree /\ undisturbed' = FALSE
    BY <1>3 DEF BuildStart
  <2> QED BY <2>1, <2>2 DEF BuildBase, Shaped
<1>4. CASE BuildRender \/ BuildSeal \/ BuildRow
  <2>1. tree' = tree /\ undisturbed' = undisturbed /\ ~undisturbed /\ build.quiet \in BOOLEAN
    BY <1>4, StepOf DEF BuildRender, BuildSeal, BuildRow, At
  <2>2. CASE BuildRender
    <3>1. PICK generated, sizes :
              build' = [step |-> "seal", rows |-> build.rows, quiet |-> build.quiet,
                        todo |-> build.todo, generated |-> generated, sizes |-> sizes]
      BY <2>2 DEF BuildRender
    <3> QED BY <2>1, <3>1 DEF BuildBase, Shaped
  <2>3. CASE BuildSeal
    <3>1. PICK package, writes :
              build' = [step |-> "clear", rows |-> build.rows, quiet |-> build.quiet,
                        todo |-> build.todo, files |-> package, writes |-> writes]
      BY <2>3 DEF BuildSeal
    <3> QED BY <2>1, <3>1 DEF BuildBase, Shaped
  <2>4. CASE BuildRow
    <3>1. PICK todo, rows :
              build' = [step |-> "export", quiet |-> build.quiet, todo |-> todo, rows |-> rows]
      BY <2>4 DEF BuildRow
    <3> QED BY <2>1, <3>1 DEF BuildBase, Shaped
  <2> QED BY <1>4, <2>2, <2>3, <2>4
<1>5. CASE BuildClear \/ BuildWrite
  <2>1. /\ tree' = tree /\ undisturbed' = undisturbed /\ ~undisturbed /\ build.quiet \in BOOLEAN
        /\ DOMAIN build = {"step", "rows", "quiet", "todo", "files", "writes"}
    BY <1>5, StepOf DEF BuildClear, BuildWrite, At
  <2>2. /\ DOMAIN build' = DOMAIN build /\ build'.quiet = build.quiet
        /\ build'.step = "write"
    BY <1>5, <2>1 DEF BuildClear, BuildWrite, At
  <2> QED BY <2>1, <2>2 DEF BuildBase, Shaped
<1>6. CASE BuildLock
  <2>1. build.quiet \in BOOLEAN
    BY <1>6, StepOf DEF BuildLock, At
  <2> QED BY <1>6, <2>1 DEF BuildLock, BuildBase, Shaped
<1>7. CASE BuildDies
  BY <1>7 DEF BuildDies, BuildBase, Shaped
<1> QED BY <1>1, <1>2, <1>3, <1>4, <1>5, <1>6, <1>7 DEF ReleaseNext, Editing, Qualify

\* The files of the export at hand and the order in which they are written.
LEMMA PackageOrder ==
    ASSUME NEW t, NEW e, Listed(t), Declares(t, e.capability_id)
    PROVE  /\ Order(t, e) \in Seq(Range(Order(t, e)))
           /\ \A i \in 1 .. Len(Order(t, e)) :
                 /\ Order(t, e)[i].name \in DOMAIN Package(t, e)
                 /\ Order(t, e)[i].data = Package(t, e)[Order(t, e)[i].name]
           /\ \A name \in DOMAIN Package(t, e) :
                 \E i \in 1 .. Len(Order(t, e)) : Order(t, e)[i].name = name
<1> DEFINE n == Normalize(t, e)
<1>1. CapabilityPath(t, e.capability_id) \in DOMAIN t.caps
  BY DEF Declares, CapabilityPath
<1>2. n.doc.resources \in Seq(Range(n.doc.resources))
  BY <1>1 DEF Listed, Normalize
<1>3. /\ IsFiniteSet(DOMAIN Gen(t, e))
      /\ SkillFile \in DOMAIN Gen(t, e)
      /\ ManifestFile \notin DOMAIN Gen(t, e)
  BY <1>2, RenderedFiles DEF Gen
<1>4. Package(t, e) = With(Gen(t, e), ManifestFile, Man(t, e))
  BY DEF Package, Gen, Man
<1> QED BY <1>3, <1>4, WriteOrderIsWhole DEF Order

\* An accepted plan's exports name declared capabilities.
LEMMA ExportsDeclared ==
    ASSUME NEW t, Listed(t), PlanAccepted(t), NEW k \in 1 .. Len(t.plan.exports)
    PROVE  Declares(t, t.plan.exports[k].capability_id)
<1>1. t.plan.exports[k] \in Range(t.plan.exports)
  BY DEF Listed, Range
<1> QED BY <1>1 DEF PlanAccepted, ExportAccepted

\* The export a build works on is the first one left to do.
LEMMA CurrentIs ==
    ASSUME NEW k \in 0 .. Len(tree.plan.exports), Listed(tree), BuiltTo(tree, build, disk, k)
    PROVE  /\ Len(tree.plan.exports) \in Nat
           /\ build.todo = <<>> <=> k = Len(tree.plan.exports)
           /\ build.todo # <<>> =>
                 /\ k + 1 \in 1 .. Len(tree.plan.exports)
                 /\ Current = Normalize(tree, tree.plan.exports[k + 1])
                 /\ Current.export = tree.plan.exports[k + 1]
<1> DEFINE exports == tree.plan.exports
           n == Len(exports)
<1>1. n \in Nat /\ k \in Nat /\ n - k \in Nat
  BY DEF Listed
<1>2. build.todo = [i \in 1 .. n - k |-> Normalize(tree, exports[i + k])]
  BY DEF BuiltTo
<1>3. build.todo = <<>> <=> k = n
  <2>1. ASSUME build.todo = <<>> PROVE k = n
    <3>1. 1 .. n - k = {}
      BY <1>2, <2>1
    <3>2. ~(1 \in 1 .. n - k)
      BY <3>1
    <3> QED BY <1>1, <3>2
  <2>2. k = n => build.todo = <<>>
    <3>1. k = n => 1 .. n - k = {}
      BY <1>1
    <3> QED BY <1>2, <3>1
  <2> QED BY <2>1, <2>2
<1>4. ASSUME build.todo # <<>>
      PROVE  k + 1 \in 1 .. n /\ Current = Normalize(tree, exports[k + 1])
  <2>1. k + 1 \in 1 .. n /\ 1 \in 1 .. n - k
    BY <1>1, <1>3, <1>4
  <2>2. build.todo[1] = Normalize(tree, exports[1 + k])
    BY <1>2, <2>1
  <2>3. 1 + k = k + 1
    BY <1>1
  <2> QED BY <2>1, <2>2, <2>3 DEF Current
<1>5. \A e : Normalize(tree, e).export = e
  BY DEF Normalize
<1> QED BY <1>1, <1>3, <1>4, <1>5

\* What the steps of a build go by while nothing disturbs it.
LEMMA QuietBuild ==
    ASSUME BuildInv, build.step # "idle", build.quiet
    PROVE  /\ Listed(tree) /\ PlanAccepted(tree)
           /\ Len(tree.plan.exports) \in Nat
           /\ \E k \in 0 .. Len(tree.plan.exports) : BuiltTo(tree, build, disk, k)
  BY StepOf DEF BuildInv, BuildBase, Faithful, Listed

LEMMA BuildStartKeeps == BuildInv /\ BuildStart => Faithful(tree', build', disk')
<1> SUFFICES ASSUME BuildInv, BuildStart PROVE Faithful(tree', build', disk')
  OBVIOUS
<1> DEFINE exports == tree.plan.exports
           n == Len(exports)
<1>1. /\ tree' = tree /\ disk' = disk /\ PlanAccepted(tree)
      /\ build' = [step |-> "export", rows |-> <<>>, quiet |-> TRUE,
                   todo |-> [i \in DOMAIN exports |-> Normalize(tree, exports[i])]]
  BY DEF BuildStart
<1>2. n \in Nat /\ DOMAIN exports = 1 .. n /\ DryChain(tree, DryOf(tree))
  BY DryOfIs DEF BuildInv, BuildBase, Listed
<1>3. /\ DryOf(tree)[0].disk = <<>> /\ DryOf(tree)[0].rows = <<>>
  BY <1>2 DEF DryChain, NothingBuilt
<1>4. build'.todo = [i \in 1 .. n - 0 |-> Normalize(tree, exports[i + 0])]
  <2>1. n - 0 = n /\ \A i \in 1 .. n : i + 0 = i
    BY <1>2
  <2> QED BY <1>1, <1>2, <2>1
<1>5. BuiltTo(tree, build', disk, 0)
  BY <1>1, <1>3, <1>4 DEF BuiltTo
<1>6. 0 \in 0 .. n
  BY <1>2
<1> QED BY <1>1, <1>5, <1>6 DEF Faithful

LEMMA BuildRenderKeeps == BuildInv /\ BuildRender => Faithful(tree', build', disk')
<1> SUFFICES ASSUME BuildInv, BuildRender, build'.quiet PROVE Faithful(tree', build', disk')
  BY DEF Faithful
<1> DEFINE exports == tree.plan.exports
<1>1. /\ build.step = "export" /\ tree' = tree /\ disk' = disk /\ build.todo # <<>>
      /\ build' = [step |-> "seal", rows |-> build.rows, quiet |-> build.quiet,
                   todo |-> build.todo, generated |-> Rendered(tree, Current),
                   sizes |-> AlwaysLoadedSizes(tree, Current.doc)]
      /\ Current.export.target = "agent-skills" /\ Packageable(tree, Current.doc)
  BY DEF BuildRender, At
<1>2. build.quiet
  BY <1>1
<1>3. PICK k \in 0 .. Len(exports) : BuiltTo(tree, build, disk, k)
  BY <1>1, <1>2, QuietBuild
<1>4. Listed(tree) /\ PlanAccepted(tree) /\ Len(exports) \in Nat
  BY <1>1, <1>2, QuietBuild
<1> DEFINE e == exports[k + 1]
<1>5. k < Len(exports) /\ Current = Normalize(tree, e) /\ Current.export = e
  BY <1>1, <1>3, <1>4, CurrentIs
<1>6. Exportable(tree, e)
  BY <1>1, <1>5 DEF Exportable
<1>7. Stage(tree, build', disk, e)
  BY <1>1, <1>5 DEF Stage, Gen
<1>8. build'.todo = build.todo /\ build'.rows = build.rows /\ build'.step = "seal"
  BY <1>1
<1>9. BuiltTo(tree, build', disk, k)
  BY <1>1, <1>3, <1>5, <1>6, <1>7, <1>8 DEF BuiltTo
<1> QED BY <1>1, <1>4, <1>9 DEF Faithful

LEMMA BuildSealKeeps == BuildInv /\ BuildSeal => Faithful(tree', build', disk')
<1> SUFFICES ASSUME BuildInv, BuildSeal, build'.quiet PROVE Faithful(tree', build', disk')
  BY DEF Faithful
<1> DEFINE exports == tree.plan.exports
           manifest == Manifest(tree, Current, build.generated, build.sizes)
<1>1. /\ build.step = "seal" /\ tree' = tree /\ disk' = disk
      /\ build' = [step |-> "clear", rows |-> build.rows, quiet |-> build.quiet,
                   todo |-> build.todo,
                   files |-> With(build.generated, ManifestFile, manifest),
                   writes |-> WriteOrder(build.generated, manifest)]
  BY DEF BuildSeal, At
<1>2. build.quiet
  BY <1>1
<1>3. PICK k \in 0 .. Len(exports) : BuiltTo(tree, build, disk, k)
  BY <1>1, <1>2, QuietBuild
<1>4. Listed(tree) /\ PlanAccepted(tree) /\ Len(exports) \in Nat
  BY <1>1, <1>2, QuietBuild
<1> DEFINE e == exports[k + 1]
<1>5. k < Len(exports) /\ Exportable(tree, e) /\ Stage(tree, build, disk, e)
  BY <1>1, <1>3 DEF BuiltTo
<1>6. Current = Normalize(tree, e)
  BY <1>3, <1>4, <1>5, CurrentIs
<1>7. build.generated = Gen(tree, e) /\ build.sizes = AlwaysLoadedSizes(tree, Normalize(tree, e).doc)
  BY <1>1, <1>5 DEF Stage
<1>8. manifest = Man(tree, e)
  BY <1>6, <1>7 DEF Man
<1>9. build'.files = Package(tree, e) /\ build'.writes = Order(tree, e)
  <2> HIDE DEF manifest
  <2>1. /\ build'.files = With(Gen(tree, e), ManifestFile, Man(tree, e))
        /\ build'.writes = WriteOrder(Gen(tree, e), Man(tree, e))
    BY <1>1, <1>7, <1>8
  <2> QED BY <2>1 DEF Package, Order, Gen, Man
<1>10. build'.todo = build.todo /\ build'.rows = build.rows /\ build'.step = "clear"
  BY <1>1
<1>11. Stage(tree, build', disk, e)
  BY <1>9, <1>10 DEF Stage
<1>12. BuiltTo(tree, build', disk, k)
  BY <1>1, <1>3, <1>5, <1>10, <1>11 DEF BuiltTo
<1> QED BY <1>1, <1>4, <1>12 DEF Faithful

LEMMA BuildClearKeeps == BuildInv /\ BuildClear => Faithful(tree', build', disk')
<1> SUFFICES ASSUME BuildInv, BuildClear, build'.quiet PROVE Faithful(tree', build', disk')
  BY DEF Faithful
<1> DEFINE exports == tree.plan.exports
<1>1. /\ build.step = "clear" /\ tree' = tree
      /\ disk' = [p \in DOMAIN disk \ {Current.export.output_path} |-> disk[p]]
      /\ build' = [build EXCEPT !.step = "write"]
  BY DEF BuildClear, At
<1>2. /\ build.quiet
      /\ build'.step = "write" /\ build'.todo = build.todo /\ build'.rows = build.rows
      /\ build'.files = build.files /\ build'.writes = build.writes
  BY <1>1, StepOf DEF BuildInv
<1>3. PICK k \in 0 .. Len(exports) : BuiltTo(tree, build, disk, k)
  BY <1>1, <1>2, QuietBuild
<1>4. Listed(tree) /\ PlanAccepted(tree) /\ Len(exports) \in Nat
  BY <1>1, <1>2, QuietBuild
<1> DEFINE e == exports[k + 1]
           order == Order(tree, e)
<1>5. k < Len(exports) /\ Exportable(tree, e) /\ Stage(tree, build, disk, e)
  BY <1>1, <1>3 DEF BuiltTo
<1>6. Current.export = e
  BY <1>3, <1>4, <1>5, CurrentIs
<1>7. build.files = Package(tree, e) /\ build.writes = order
  BY <1>1, <1>5 DEF Stage
<1>8. order \in Seq(Range(order))
  BY <1>4, <1>5, ExportsDeclared, PackageOrder
<1>9. Stage(tree, build', disk', e)
  <2>1. FilesAt(disk', e.output_path) = <<>>
    BY <1>1, <1>6 DEF FilesAt
  <2>2. Written(tree, e, 0) = <<>>
    BY DEF Written
  <2>3. 0 \in 0 .. Len(order) /\ order = SubSeq(order, 0 + 1, Len(order))
    <3> HIDE DEF order
    <3> QED BY <1>8
  <2> HIDE DEF order
  <2>4. build'.writes = SubSeq(order, 0 + 1, Len(order))
    BY <1>2, <1>7, <2>3
  <2> QED BY <1>2, <1>7, <2>1, <2>2, <2>3, <2>4 DEF Stage, order
<1>10. \A path : path # e.output_path => FilesAt(disk', path) = FilesAt(disk, path)
  BY <1>1, <1>6 DEF FilesAt
<1>11. BuiltTo(tree, build', disk', k)
  BY <1>2, <1>3, <1>5, <1>9, <1>10 DEF BuiltTo
<1> QED BY <1>1, <1>4, <1>11 DEF Faithful

LEMMA BuildWriteKeeps == BuildInv /\ BuildWrite => Faithful(tree', build', disk')
<1> SUFFICES ASSUME BuildInv, BuildWrite, build'.quiet PROVE Faithful(tree', build', disk')
  BY DEF Faithful
<1> DEFINE exports == tree.plan.exports
           w == Head(build.writes)
           path == Current.export.output_path
<1>1. /\ build.step = "write" /\ tree' = tree /\ build.writes # <<>>
      /\ disk' = With(disk, path, With(FilesAt(disk, path), w.name, w.data))
      /\ build' = [build EXCEPT !.writes = Tail(@)]
  BY DEF BuildWrite, At
<1>2. /\ build.quiet
      /\ build'.step = "write" /\ build'.todo = build.todo /\ build'.rows = build.rows
      /\ build'.files = build.files /\ build'.writes = Tail(build.writes)
  BY <1>1, StepOf DEF BuildInv
<1>3. PICK k \in 0 .. Len(exports) : BuiltTo(tree, build, disk, k)
  BY <1>1, <1>2, QuietBuild
<1>4. Listed(tree) /\ PlanAccepted(tree) /\ Len(exports) \in Nat
  BY <1>1, <1>2, QuietBuild
<1> DEFINE e == exports[k + 1]
           order == Order(tree, e)
           package == Package(tree, e)
<1>5. k < Len(exports) /\ Exportable(tree, e) /\ Stage(tree, build, disk, e)
  BY <1>1, <1>3 DEF BuiltTo
<1>6. Current.export = e
  BY <1>3, <1>4, <1>5, CurrentIs
<1>7. PICK j \in 0 .. Len(order) :
          /\ build.writes = SubSeq(order, j + 1, Len(order))
          /\ FilesAt(disk, path) = Written(tree, e, j)
  BY <1>1, <1>5, <1>6 DEF Stage
<1>8. build.files = package
  BY <1>1, <1>5 DEF Stage
<1>9. /\ order \in Seq(Range(order))
      /\ \A i \in 1 .. Len(order) : order[i].data = package[order[i].name]
  BY <1>4, <1>5, ExportsDeclared, PackageOrder
<1> HIDE DEF order, package
<1>10. /\ Len(order) \in Nat /\ j + 1 \in 0 .. Len(order) /\ j + 1 \in 1 .. Len(order)
       /\ w = order[j + 1]
       /\ Tail(build.writes) = SubSeq(order, (j + 1) + 1, Len(order))
  <2>1. Len(order) \in Nat /\ j \in Nat /\ j <= Len(order)
    BY <1>9
  <2>2. j # Len(order)
    <3>1. SubSeq(order, Len(order) + 1, Len(order)) = <<>>
      BY <1>9, <2>1
    <3> QED BY <1>1, <1>7, <3>1
  <2>3. j + 1 \in 1 .. Len(order)
    BY <2>1, <2>2
  <2>4. w = order[j + 1]
    BY <1>7, <1>9, <2>1, <2>3
  <2>5. Tail(build.writes) = SubSeq(order, (j + 1) + 1, Len(order))
    BY <1>7, <1>9, <2>1, <2>3
  <2> QED BY <2>1, <2>3, <2>4, <2>5
<1>11. FilesAt(disk', path) = With(Written(tree, e, j), w.name, w.data)
  BY <1>1, <1>7 DEF FilesAt, With
<1>12. With(Written(tree, e, j), w.name, w.data) = Written(tree, e, j + 1)
  <2> DEFINE N(m) == { order[i].name : i \in 1 .. m }
  <2>1. N(j + 1) = N(j) \cup {w.name}
    <3>1. \A i \in 1 .. j + 1 : i = j + 1 \/ i \in 1 .. j
      BY <1>7, <1>9
    <3>2. 1 .. j \subseteq 1 .. j + 1 /\ j + 1 \in 1 .. j + 1
      BY <1>7, <1>9
    <3> QED BY <1>10, <3>1, <3>2
  <2>2. w.data = package[w.name]
    BY <1>9, <1>10
  <2>3. /\ Written(tree, e, j) = [name \in N(j) |-> package[name]]
        /\ Written(tree, e, j + 1) = [name \in N(j + 1) |-> package[name]]
    BY DEF Written, order, package
  <2> HIDE DEF N
  <2> QED BY <2>1, <2>2, <2>3 DEF With
<1>13. Stage(tree, build', disk', e)
  <2>1. FilesAt(disk', e.output_path) = Written(tree, e, j + 1)
    BY <1>6, <1>11, <1>12
  <2>2. build'.writes = SubSeq(order, (j + 1) + 1, Len(order))
    BY <1>2, <1>10
  <2> QED BY <1>2, <1>8, <1>10, <2>1, <2>2 DEF Stage, order, package
<1>14. \A p : p # e.output_path => FilesAt(disk', p) = FilesAt(disk, p)
  BY <1>1, <1>6 DEF FilesAt, With
<1>15. BuiltTo(tree, build', disk', k)
  BY <1>1, <1>2, <1>3, <1>5, <1>13, <1>14 DEF BuiltTo
<1> QED BY <1>1, <1>4, <1>15 DEF Faithful

LEMMA BuildRowKeeps == BuildInv /\ BuildRow => Faithful(tree', build', disk')
<1> SUFFICES ASSUME BuildInv, BuildRow, build'.quiet PROVE Faithful(tree', build', disk')
  BY DEF Faithful
<1> DEFINE exports == tree.plan.exports
           n == Len(exports)
<1>1. /\ build.step = "write" /\ tree' = tree /\ disk' = disk /\ build.writes = <<>>
      /\ build' = [step |-> "export", quiet |-> build.quiet, todo |-> Tail(build.todo),
                   rows |-> WithRow(tree, build.rows, Current, build.files)]
  BY DEF BuildRow, At
<1>2. build.quiet
  BY <1>1
<1>3. PICK k \in 0 .. n : BuiltTo(tree, build, disk, k)
  BY <1>1, <1>2, QuietBuild
<1>4. Listed(tree) /\ PlanAccepted(tree) /\ n \in Nat
  BY <1>1, <1>2, QuietBuild
<1> DEFINE e == exports[k + 1]
           order == Order(tree, e)
           package == Package(tree, e)
           P == DryOf(tree)
<1>5. k < n /\ k + 1 \in 0 .. n /\ Exportable(tree, e) /\ Stage(tree, build, disk, e)
  BY <1>1, <1>3, <1>4 DEF BuiltTo
<1>6. Current = Normalize(tree, e)
  BY <1>3, <1>4, <1>5, CurrentIs
<1>7. PICK j \in 0 .. Len(order) :
          /\ build.writes = SubSeq(order, j + 1, Len(order))
          /\ FilesAt(disk, e.output_path) = Written(tree, e, j)
  BY <1>1, <1>5 DEF Stage
<1>8. build.files = package
  BY <1>1, <1>5 DEF Stage
<1>9. /\ order \in Seq(Range(order))
      /\ \A i \in 1 .. Len(order) : order[i].name \in DOMAIN package
      /\ \A name \in DOMAIN package : \E i \in 1 .. Len(order) : order[i].name = name
  <2>1. k + 1 \in 1 .. n
    BY <1>4, <1>5
  <2>2. Declares(tree, e.capability_id)
    BY <1>4, <2>1, ExportsDeclared
  <2> HIDE DEF e
  <2> QED BY <1>4, <2>2, PackageOrder
<1>10. FilesAt(disk, e.output_path) = package
  <2>1. j = Len(order)
    <3> HIDE DEF order
    <3>1. Len(order) \in Nat /\ (j < Len(order) => Len(SubSeq(order, j + 1, Len(order))) # 0)
      BY <1>9
    <3> QED BY <1>1, <1>7, <3>1
  <2>2. { order[i].name : i \in 1 .. Len(order) } = DOMAIN package
    <3> HIDE DEF order, package
    <3> QED BY <1>9
  <2>3. package = [name \in DOMAIN package |-> package[name]]
    BY DEF Package, With
  <2>4. Written(tree, e, Len(order)) = [name \in DOMAIN package |-> package[name]]
    BY <2>2 DEF Written
  <2> QED BY <1>7, <2>1, <2>3, <2>4
<1>11. /\ P[k + 1].disk = With(P[k].disk, e.output_path, package)
       /\ P[k + 1].rows = WithRow(tree, P[k].rows, Normalize(tree, e), package)
  <2>1. k \in 0 .. n - 1
    BY <1>4, <1>5
  <2>2. P[k + 1] = DryStep(tree, P[k], e)
    BY <1>4, <2>1, DryOfIs DEF DryChain, Listed
  <2> QED BY <2>2 DEF DryStep
<1>12. build'.rows = P[k + 1].rows
  BY <1>1, <1>3, <1>6, <1>8, <1>11 DEF BuiltTo
<1>13. build'.todo = [i \in 1 .. n - (k + 1) |-> Normalize(tree, exports[i + (k + 1)])]
  <2> DEFINE N(i) == Normalize(tree, exports[i])
  <2>1. build.todo = [i \in 1 .. n - k |-> N(i + k)]
    BY <1>3 DEF BuiltTo
  <2> HIDE DEF N, e, order, package, P, n
  <2>2. /\ n - k \in Nat \ {0} /\ (n - k) - 1 = n - (k + 1)
        /\ \A i \in Nat : (i + 1) + k = i + (k + 1)
    <3>1. n \in Nat /\ k \in Nat /\ k < n
      BY <1>4, <1>5
    <3> QED BY <3>1
  <2>3. build.todo \in Seq(Range(build.todo)) /\ Len(build.todo) = n - k
    <3> DEFINE m == n - k
               X == Range(build.todo)
    <3>1. m \in Nat /\ build.todo = [i \in 1 .. m |-> N(i + k)]
      BY <2>1, <2>2
    <3> HIDE DEF m
    <3>2. \A i \in 1 .. m : build.todo[i] \in X
      BY <3>1 DEF Range
    <3> HIDE DEF X
    <3>3. build.todo \in Seq(X) /\ Len(build.todo) = m
      BY <3>1, <3>2
    <3> QED BY <3>3 DEF m, X
  <2>4. Tail(build.todo) = [i \in 1 .. (n - k) - 1 |-> build.todo[i + 1]]
    <3> DEFINE X == Range(build.todo)
    <3>1. build.todo \in Seq(X)
      BY <2>3
    <3> HIDE DEF X
    <3>2. build.todo # <<>>
      BY <2>2, <2>3
    <3>3. Tail(build.todo) = [i \in 1 .. Len(build.todo) - 1 |-> build.todo[i + 1]]
      BY <3>1, <3>2
    <3> QED BY <2>3, <3>3
  <2>5. \A i \in 1 .. (n - k) - 1 : build.todo[i + 1] = N(i + (k + 1))
    <3> SUFFICES ASSUME NEW i \in 1 .. (n - k) - 1 PROVE build.todo[i + 1] = N(i + (k + 1))
      OBVIOUS
    <3>1. i + 1 \in 1 .. n - k /\ i \in Nat
      BY <2>2
    <3>2. build.todo[i + 1] = N((i + 1) + k)
      BY <2>1, <3>1
    <3> QED BY <2>2, <3>1, <3>2
  <2>6. Tail(build.todo) = [i \in 1 .. n - (k + 1) |-> N(i + (k + 1))]
    BY <2>2, <2>4, <2>5
  <2> QED BY <1>1, <2>6 DEF N
<1>14. \A path \in DOMAIN P[k + 1].disk : FilesAt(disk', path) = P[k + 1].disk[path]
  <2> SUFFICES ASSUME NEW path \in DOMAIN P[k + 1].disk
               PROVE  FilesAt(disk', path) = P[k + 1].disk[path]
    OBVIOUS
  <2>1. CASE path = e.output_path
    BY <1>1, <1>10, <1>11, <2>1 DEF With
  <2>2. CASE path # e.output_path
    <3>1. path \in DOMAIN P[k].disk /\ P[k + 1].disk[path] = P[k].disk[path]
      BY <1>11, <2>2 DEF With
    <3> QED BY <1>1, <1>3, <2>2, <3>1 DEF BuiltTo
  <2> QED BY <2>1, <2>2
<1>15. \A i \in 1 .. k + 1 : Exportable(tree, exports[i])
  <2>1. \A i \in 1 .. k + 1 : i = k + 1 \/ i \in 1 .. k
    BY <1>4, <1>5
  <2> QED BY <1>3, <1>5, <2>1 DEF BuiltTo
<1>16. build'.step = "export"
  BY <1>1
<1> HIDE DEF P, package, order
<1>17. BuiltTo(tree, build', disk', k + 1)
  BY <1>12, <1>13, <1>14, <1>15, <1>16 DEF BuiltTo, P
<1> QED BY <1>1, <1>4, <1>5, <1>17 DEF Faithful

\* A quiet build that is done leaves the dry build on disk and locks its rows.
LEMMA BuildLockVerifies ==
    ASSUME BuildInv, BuildLock, build.quiet
    PROVE  Buildable(tree) /\ TreesMatch(tree, disk) /\ Lock(tree, build.rows) = DryLock(tree)
<1> DEFINE exports == tree.plan.exports
           n == Len(exports)
           P == DryOf(tree)
<1>1. build.step = "export" /\ build.todo = <<>>
  BY DEF BuildLock, At
<1>2. PICK k \in 0 .. n : BuiltTo(tree, build, disk, k)
  BY <1>1, QuietBuild
<1>3. Listed(tree) /\ PlanAccepted(tree) /\ n \in Nat /\ DOMAIN exports = 1 .. n
  BY <1>1, QuietBuild DEF Listed
<1>4. k = n
  BY <1>1, <1>2, <1>3, CurrentIs
<1>5. DryChain(tree, P) /\ Dry(tree) = P[n]
  BY <1>3, DryOfIs DEF Listed
<1>6. ChainSound(tree, P, n)
  BY <1>3, <1>5, ChainIsSound DEF Listed
<1>7. \A e \in Range(exports) : \E i \in 1 .. n : e = exports[i]
  BY <1>3 DEF Range
<1>8. Buildable(tree)
  <2>1. \A e \in Range(exports) : Exportable(tree, e)
    BY <1>2, <1>4, <1>7 DEF BuiltTo
  <2> QED BY <1>3, <2>1 DEF Buildable, Exportable
<1>9. TreesMatch(tree, disk)
  <2>1. \A path \in DOMAIN P[n].disk : FilesAt(disk, path) = P[n].disk[path]
    BY <1>1, <1>2, <1>4 DEF BuiltTo
  <2>2. \A e \in Range(exports) : e.output_path \in DOMAIN P[n].disk
    BY <1>6, <1>7 DEF ChainSound
  <2> QED BY <1>5, <2>1, <2>2 DEF TreesMatch, DryBuild
<1>10. Lock(tree, build.rows) = DryLock(tree)
  BY <1>2, <1>4, <1>5 DEF BuiltTo, DryLock
<1> QED BY <1>8, <1>9, <1>10

LEMMA BuildNext == BuildInv /\ [ReleaseNext]_releaseVars => BuildInv'
<1> SUFFICES ASSUME BuildInv, [ReleaseNext]_releaseVars PROVE BuildInv'
  OBVIOUS
<1>1. BuildBase'
  BY BuildBaseNext DEF BuildInv
<1>2. ASSUME Faithful(tree', build', disk'), ~undisturbed' PROVE BuildInv'
  BY <1>1, <1>2 DEF BuildInv, UndisturbedBuildVerifies
<1>3. CASE BuildStart
  <2>1. ~undisturbed'
    BY <1>3 DEF BuildStart
  <2> QED BY <1>2, <1>3, <2>1, BuildStartKeeps
<1>4. CASE BuildRender \/ BuildSeal \/ BuildClear \/ BuildWrite \/ BuildRow
  <2>1. ~undisturbed'
    <3>1. build.step # "idle" /\ undisturbed' = undisturbed
      BY <1>4 DEF BuildRender, BuildSeal, BuildClear, BuildWrite, BuildRow, At
    <3> QED BY <3>1, StepOf DEF BuildInv
  <2> QED BY <1>2, <1>4, <2>1, BuildRenderKeeps, BuildSealKeeps, BuildClearKeeps,
             BuildWriteKeeps, BuildRowKeeps
<1>5. CASE BuildLock
  <2>1. /\ build' = Idle /\ undisturbed' = build.quiet /\ tree' = tree /\ disk' = disk
        /\ lock' = Lock(tree, build.rows)
    BY <1>5 DEF BuildLock
  <2>2. Faithful(tree', build', disk')
    BY <2>1 DEF Faithful
  <2>3. CASE build.quiet
    <3>1. Buildable(tree) /\ TreesMatch(tree, disk) /\ Lock(tree, build.rows) = DryLock(tree)
      BY <1>5, <2>3, BuildLockVerifies
    <3>2. UndisturbedBuildVerifies'
      BY <2>1, <3>1 DEF UndisturbedBuildVerifies
    <3> QED BY <1>1, <2>2, <3>2 DEF BuildInv
  <2>4. CASE ~build.quiet
    BY <1>2, <2>1, <2>2, <2>4
  <2> QED BY <2>3, <2>4
<1>6. CASE BuildDies
  <2>1. build' = Idle /\ build # Idle /\ undisturbed' = undisturbed
    BY <1>6 DEF BuildDies
  <2> QED BY <1>2, <2>1 DEF Faithful, BuildInv, BuildBase
<1>7. CASE Qualify \/ UNCHANGED releaseVars
  <2>1. UNCHANGED <<tree, disk, lock, build, undisturbed>>
    BY <1>7 DEF Qualify, QualifyStart, QualifySkip, QualifyCase, QualifyBind, QualifyDies, releaseVars
  <2> QED BY <1>1, <2>1 DEF BuildInv, UndisturbedBuildVerifies
<1>8. CASE Editing
  <2>1. undisturbed' = FALSE /\ build' = IF build = Idle THEN Idle ELSE [build EXCEPT !.quiet = FALSE]
    BY <1>8 DEF Editing, EditCapability, EditSource, EditPlan, EditPackage, Edited
  <2>2. build' = Idle \/ build'.quiet = FALSE
    BY <2>1 DEF BuildInv, BuildBase, Shaped
  <2>3. Faithful(tree', build', disk')
    BY <2>2 DEF Faithful
  <2> QED BY <1>2, <2>1, <2>3
<1> QED BY <1>3, <1>4, <1>5, <1>6, <1>7, <1>8 DEF ReleaseNext, Editing, Qualify

\* A build stays in step with the dry build as long as nothing is edited.
THEOREM BuildInvariant == ReleaseSpec => []BuildInv
  BY BuildBaseInit, BuildNext, PTL DEF ReleaseSpec

\* A build that nothing disturbed leaves what verify's dry build produces, for
\* every plan, every number of exports, also several at one path, and whatever was
\* on disk and locked before.
THEOREM UndisturbedBuildVerifiesHolds == ReleaseSpec => []UndisturbedBuildVerifies
<1>1. BuildInv => UndisturbedBuildVerifies
  BY DEF BuildInv
<1> QED BY <1>1, BuildInvariant, PTL

-----------------------------------------------------------------------------
(* What the preflight takes from the lock.                                 *)

\* A preflight that goes on found every step covered.
LEMMA ProceedsCovers ==
    ASSUME NEW t, NEW rows, NEW r, Proceeds(t, rows, r),
           NEW step \in Range(Graph.routes[r.route].steps)
    PROVE  StepState(t, rows, Graph.profiles[Profile(r)], r, step) = "covered"
<1> DEFINE state(s) == StepState(t, rows, Graph.profiles[Profile(r)], r, s)
           states == { state(s) : s \in Range(Graph.routes[r.route].steps) }
<1>1. Preflight(t, rows, r) \in {"RAISED", Verdict(states)}
  BY DEF Preflight
<1>2. Verdict(states) \in {"UNKNOWN", "CAPABILITY_GAP", "AUTHORITY_GAP", "QUALIFICATION_GAP", "READY"}
  BY DEF Verdict
<1>3. Preflight(t, rows, r) = "READY" /\ Verdict(states) = "READY"
  <2> HIDE DEF states
  <2> QED BY <1>1, <1>2 DEF Proceeds, PreflightExit
<1>4. states \cap {"unknown", "missing", "incompatible", "unauthorized",
                   "insufficient-qualification"} = {}
  BY <1>3 DEF Verdict
<1>5. state(step) \in {"unknown", "missing", "incompatible", "unauthorized",
                       "insufficient-qualification", "covered"}
  BY DEF StepState
<1>6. state(step) \in states
  OBVIOUS
<1> HIDE DEF state, states
<1>7. state(step) = "covered"
  BY <1>4, <1>5, <1>6
<1> QED BY <1>7 DEF state

\* With sound rows for what the route needs, the lock answers as the tree does.
LEMMA SoundLockAnswers ==
    ASSUME NEW t, NEW rows, NEW r,
           DOMAIN r = {"route", "inventory", "authority_profile", "omitted",
                       "minimum_lifecycle", "minimum_evaluation"},
           r.inventory = "lock", Needs(r) \subseteq DOMAIN rows,
           \A id \in DOMAIN rows : Declares(t, id) /\ LockedEntryMatches(t, id, rows[id])
    PROVE  Preflight(t, rows, r) = Preflight(t, rows, [r EXCEPT !.inventory = "canonical"])
<1> DEFINE q == [r EXCEPT !.inventory = "canonical"]
           grants == Graph.profiles[Profile(r)]
           steps == Range(Graph.routes[r.route].steps)
<1>1. /\ q.route = r.route /\ q.inventory = "canonical"
      /\ q.authority_profile = r.authority_profile /\ q.omitted = r.omitted
      /\ q.minimum_lifecycle = r.minimum_lifecycle /\ q.minimum_evaluation = r.minimum_evaluation
  OBVIOUS
<1> HIDE DEF q
<1>2. Profile(q) = Profile(r)
  BY <1>1 DEF Profile
<1>3. RequestAccepted(t, q) <=> RequestAccepted(t, r)
  BY <1>1, <1>2 DEF RequestAccepted
<1>4. ASSUME NEW step \in steps
      PROVE  StepState(t, rows, grants, q, step) = StepState(t, rows, grants, r, step)
  <2> DEFINE id == step.capability_id
             d == t.caps[CapabilityPath(t, id)]
  <2>1. id \in DOMAIN rows /\ Declares(t, id) /\ LockedEntryMatches(t, id, rows[id])
    BY DEF Needs
  <2>2. id \in Available(t, rows, q) <=> id \in Available(t, rows, r)
    <3>1. id \in { t.caps[p].id : p \in DOMAIN t.caps }
      BY <2>1 DEF Declares
    <3> QED BY <1>1, <2>1, <3>1 DEF Available
  <2>3. Qualification(d, step, q) = Qualification(d, step, r)
    BY <1>1 DEF Qualification
  <2> QED BY <1>1, <2>1, <2>2, <2>3 DEF StepState
<1>5. { StepState(t, rows, grants, q, step) : step \in steps }
        = { StepState(t, rows, grants, r, step) : step \in steps }
  BY <1>4
<1>6. Preflight(t, rows, q) = Preflight(t, rows, r)
  BY <1>1, <1>2, <1>3, <1>5 DEF Preflight
<1> QED BY <1>6 DEF q

\* A preflight that goes on with the lock goes on with the capabilities of the
\* tree, and after an undisturbed build the lock answers what the tree answers,
\* for every graph, request and history of builds and edits.
THEOREM LockPreflightIsCurrentHolds == ReleaseSpec => []LockPreflightIsCurrent
<1>1. BuildInv => LockPreflightIsCurrent
  <2> SUFFICES ASSUME BuildInv, NEW r \in LockRequests
               PROVE  /\ Proceeds(tree, lock.capabilities, r) =>
                            \A id \in Needs(r) :
                                lock.capabilities[id].capability_sha256
                                  = tree.caps[CapabilityPath(tree, id)]
                      /\ undisturbed /\ Needs(r) \subseteq DOMAIN lock.capabilities =>
                            Preflight(tree, lock.capabilities, r)
                              = Preflight(tree, lock.capabilities, [r EXCEPT !.inventory = "canonical"])
    BY DEF LockPreflightIsCurrent
  <2>1. r \in Requests /\ r.inventory = "lock"
    BY DEF LockRequests
  <2>2. ASSUME Proceeds(tree, lock.capabilities, r), NEW id \in Needs(r)
        PROVE  lock.capabilities[id].capability_sha256 = tree.caps[CapabilityPath(tree, id)]
    <3>1. PICK step \in Range(Graph.routes[r.route].steps) : id = step.capability_id
      BY <2>2 DEF Needs
    <3>2. StepState(tree, lock.capabilities, Graph.profiles[Profile(r)], r, step) = "covered"
      BY <2>2, <3>1, ProceedsCovers
    <3>3. LockedEntryMatches(tree, id, lock.capabilities[id])
      BY <2>1, <3>1, <3>2 DEF StepState
    <3> QED BY <3>3 DEF LockedEntryMatches
  <2>3. ASSUME undisturbed, Needs(r) \subseteq DOMAIN lock.capabilities
        PROVE  Preflight(tree, lock.capabilities, r)
                 = Preflight(tree, lock.capabilities, [r EXCEPT !.inventory = "canonical"])
    <3>1. Listed(tree) /\ PlanAccepted(tree) /\ lock = DryLock(tree)
      BY <2>3 DEF BuildInv, BuildBase, UndisturbedBuildVerifies, Buildable
    <3>2. /\ DryChain(tree, DryOf(tree))
          /\ Dry(tree) = DryOf(tree)[Len(tree.plan.exports)]
          /\ Len(tree.plan.exports) \in 0 .. Len(tree.plan.exports)
      BY <3>1, DryOfIs DEF Listed
    <3>3. lock.capabilities = DryOf(tree)[Len(tree.plan.exports)].rows
      BY <3>1, <3>2 DEF DryLock, Lock
    <3>4. ChainSound(tree, DryOf(tree), Len(tree.plan.exports))
      BY <3>1, <3>2, ChainIsSound DEF Listed
    <3>5. \A id \in DOMAIN lock.capabilities :
              Declares(tree, id) /\ LockedEntryMatches(tree, id, lock.capabilities[id])
      BY <3>3, <3>4 DEF ChainSound
    <3>6. DOMAIN r = {"route", "inventory", "authority_profile", "omitted",
                      "minimum_lifecycle", "minimum_evaluation"}
      BY <2>1, RequestsAreArguments
    <3> QED BY <2>1, <2>3, <3>5, <3>6, SoundLockAnswers
  <2> QED BY <2>2, <2>3
<1> QED BY <1>1, BuildInvariant, PTL

-----------------------------------------------------------------------------
(* The selector.                                                           *)

\* A set of naturals that is not empty has a least element.
LEMMA LeastNatural ==
    ASSUME NEW T, T \subseteq Nat, T # {}
    PROVE  \E x \in T : \A y \in T : x <= y
<1>1. PICK x \in T : \A y \in T : <<y, x>> \notin OpToRel(<, Nat)
  BY WFMin, NatLessThanWellFounded
<1>2. ASSUME NEW y \in T PROVE x <= y
  <2>1. ~(y < x)
    BY <1>1 DEF OpToRel
  <2> QED BY <2>1
<1> QED BY <1>2

\* The ranks of a valid ladder are naturals.
LEMMA RanksAreNaturals ==
    ASSUME NEW pol \in KnownPolicies, LadderValid(pol.catalog)
    PROVE  \A s \in Substrates(pol.catalog) : s.reality_rank \in Nat
<1>1. Len(pol.catalog.substrates) \in Nat
  BY SubstratesAreListed
<1>2. {s.reality_rank : s \in Substrates(pol.catalog)} = 0..(Len(pol.catalog.substrates) - 1)
  BY DEF LadderValid
<1> QED BY <1>1, <1>2

\* What a substrate may be used for is what the narrowing leaves of the ladder.
LEMMA UsableIsAuthorized ==
    ASSUME NEW request
    PROVE  {s \in Substrates(policy.catalog) : MayUse(request, s)}
               = Narrowed(policy, request).authorized
<1> DEFINE cap == policy.capabilities[request.capability]
           offered == policy.catalog.availability_profiles[request.availability_profile]
           proof == CHOOSE p \in Bindings(policy, request) : TRUE
           evidence == EvidenceCandidates(policy, request)
           legal == {s \in evidence : s.execution_surface \in cap.allowed \ cap.prohibited}
           automatic == {s \in legal : s.selection_mode = "automatic"}
           available == {s \in automatic : s.id \in offered \ request.omitted}
<1>1. Narrowed(policy, request).authorized = Authorized(policy, request, available)
  BY DEF Narrowed
<1>2. ASSUME NEW s \in Substrates(policy.catalog)
      PROVE  s \in evidence <=> /\ proof.required_traits \cup request.extra_traits \subseteq s.traits
                                /\ Satisfies(policy.catalog, s, proof, {})
  BY DEF EvidenceCandidates, Satisfies
<1>3. evidence \subseteq Substrates(policy.catalog)
  BY DEF EvidenceCandidates
<1> HIDE DEF evidence, proof
<1>4. ASSUME NEW s \in Substrates(policy.catalog)
      PROVE  MissingAuthority(policy, request, s) = {}
                 <=> cap.required_authority \cup s.required_authority
                         \subseteq policy.graph[request.authority_profile]
  BY DEF MissingAuthority
<1>5. ASSUME NEW s \in Substrates(policy.catalog)
      PROVE  MayUse(request, s) <=> s \in available /\ MissingAuthority(policy, request, s) = {}
  BY <1>2, <1>4 DEF MayUse, proof
<1> QED BY <1>1, <1>3, <1>5 DEF Authorized

\* Each question narrows what the one before it left.
LEMMA Narrowing ==
    ASSUME NEW request
    PROVE  LET left == Narrowed(policy, request) IN
           /\ left.authorized \subseteq left.available
           /\ left.available \subseteq left.automatic
           /\ left.automatic \subseteq left.evidence
  BY DEF Narrowed, Authorized

LEMMA LowestIsLowest ==
    ASSUME NEW S, S # {}, \A s \in S : s.reality_rank \in Nat
    PROVE  Lowest(S) \in S /\ \A t \in S : Lowest(S).reality_rank <= t.reality_rank
<1>1. PICK n \in {s.reality_rank : s \in S} : \A m \in {s.reality_rank : s \in S} : n <= m
  BY LeastNatural
<1>2. \E s \in S : \A t \in S : s.reality_rank <= t.reality_rank
  BY <1>1
<1> QED BY <1>2 DEF Lowest

\* A substrate that may be used is automatic; the catalog keeps remote surfaces and high
\* authority from those.
LEMMA UsableIsHarmless ==
    ASSUME PolicyValid(policy), NEW request, NEW s \in Substrates(policy.catalog), MayUse(request, s)
    PROVE  /\ s.required_authority \cap HighConsequence = {}
           /\ s.execution_surface \notin ExplicitOnlySurfaces
<1>1. SubstrateValid(policy.catalog, s) /\ s.selection_mode = "automatic"
  BY DEF PolicyValid, CatalogValid, MayUse
<1> QED BY <1>1 DEF SubstrateValid

LEMMA SelectionIsLowest ==
    ASSUME policy \in KnownPolicies
    PROVE  SelectionIsLowestSufficient
<1> SUFFICES ASSUME PolicyValid(policy), NEW request
             PROVE  LET report == Select(policy, request)
                        usable == {s \in Substrates(policy.catalog) : MayUse(request, s)}
                    IN  /\ report.verdict = "SELECTED" <=> usable # {}
                        /\ \A s \in usable :
                               /\ report.selected.reality_rank <= s.reality_rank
                               /\ s.required_authority \cap HighConsequence = {}
                               /\ s.execution_surface \notin ExplicitOnlySurfaces
                        /\ usable # {} => \E s \in usable : report.selected = Brief(s)
  BY Zenon DEF SelectionIsLowestSufficient
<1> DEFINE left == Narrowed(policy, request)
           report == Select(policy, request)
           usable == {s \in Substrates(policy.catalog) : MayUse(request, s)}
<1>1. usable = left.authorized
  BY UsableIsAuthorized
<1>2. report.verdict = SelectVerdict(left)
  BY DEF Select
<1>3. SelectVerdict(left) = "SELECTED" <=> usable # {}
  BY <1>1, Narrowing DEF SelectVerdict
<1>4. ASSUME usable # {}
      PROVE  /\ report.selected = Brief(Lowest(usable))
             /\ Lowest(usable) \in usable
             /\ \A t \in usable : Lowest(usable).reality_rank <= t.reality_rank
  <2>1. \A s \in usable : s.reality_rank \in Nat
    BY RanksAreNaturals DEF PolicyValid, CatalogValid
  <2>2. report.selected = Brief(Lowest(usable))
    BY <1>1, <1>3, <1>4 DEF Select
  <2> HIDE DEF usable, report
  <2> QED BY <1>4, <2>1, <2>2, LowestIsLowest
<1>5. \A s \in usable : /\ s.required_authority \cap HighConsequence = {}
                        /\ s.execution_surface \notin ExplicitOnlySurfaces
  BY UsableIsHarmless
<1> HIDE DEF usable, report, left
<1>6. \A s \in usable : report.selected.reality_rank <= s.reality_rank
  BY <1>4 DEF Brief
<1>7. usable # {} => \E s \in usable : report.selected = Brief(s)
  BY <1>4
<1> QED BY <1>2, <1>3, <1>5, <1>6, <1>7 DEF usable, report

-----------------------------------------------------------------------------
(* The normalizers.                                                        *)

RecordFields ==
    {"kind", "instance_id", "fingerprint", "run_kind", "status", "capability", "suite_id",
     "repository_sha", "model", "adapter", "profile", "required", "granted", "missing",
     "remote_credentials_used", "context", "tools", "evidence", "timeline", "verdict",
     "accepted_evidence_ids"}
Facts == RecordFields \ {"instance_id", "fingerprint"}

\* Taking the fingerprint changes no fact, and the fingerprint is that of the record.
LEMMA FingerprintTaken ==
    ASSUME NEW body, DOMAIN body = RecordFields
    PROVE  LET record == WithFingerprint(body) IN
           /\ DOMAIN record = RecordFields
           /\ \A f \in RecordFields \ {"fingerprint"} : record[f] = body[f]
           /\ record.fingerprint = [f \in Facts |-> record[f]]
<1> DEFINE record == WithFingerprint(body)
<1>1. DOMAIN record = RecordFields
  BY DEF WithFingerprint
<1>2. \A f \in RecordFields \ {"fingerprint"} : record[f] = body[f]
  BY DEF WithFingerprint
<1>3. record.fingerprint = [f \in Facts |-> body[f]]
  BY DEF WithFingerprint, Fingerprint, Facts, RecordFields
<1>4. \A f \in Facts : record[f] = body[f]
  BY <1>2 DEF Facts
<1> HIDE DEF record
<1>5. [f \in Facts |-> body[f]] = [f \in Facts |-> record[f]]
  BY <1>4
<1> QED BY <1>1, <1>2, <1>3, <1>5 DEF record

\* What the normalizers put where verify looks.
LEMMA DaggerFields ==
    ASSUME NEW pol, NEW source, NEW path, NEW content, NEW instance, NEW sha
    PROVE  LET body == DaggerBody(pol, source, path, content, instance, sha) IN
           /\ DOMAIN body = RecordFields
           /\ body.kind = "arsenal-flight-record"
           /\ body.run_kind = "capability-verification"
           /\ body.capability = source.capability
           /\ body.repository_sha = sha
           /\ body.profile = TheProfile(source)
           /\ body.granted = Grants(pol, TheProfile(source))
           /\ body.context[1].digest = pol.capabilities[source.capability.id]
           /\ body.evidence = <<EvidenceItem("evidence.executable-world", path, content)>>
  BY DEF DaggerBody, RecordFields, ContextBlock, Source

LEMMA BenchFields ==
    ASSUME NEW pol, NEW source, NEW path, NEW content, NEW instance, NEW sha
    PROVE  LET body == BenchBody(pol, source, path, content, instance, sha) IN
           /\ DOMAIN body = RecordFields
           /\ body.kind = "arsenal-flight-record"
           /\ body.run_kind = "evaluation"
           /\ body.capability = source.capability
           /\ body.repository_sha = sha
           /\ body.context[1].digest = pol.capabilities[source.capability.id]
           /\ body.evidence = <<EvidenceItem("evidence.bench-receipt", path, content)>>
  BY DEF BenchBody, RecordFields, ContextBlock, Source

SameFacts(one, other) == \A f \in Facts : one[f] = other[f]

\* A policy enters a record by the contract and the grants only, and the instance id by
\* itself only.
LEMMA DaggerAgain ==
    ASSUME NEW pol, NEW pol2, NEW source, NEW path, NEW content, NEW i, NEW j, NEW sha,
           pol.capabilities[source.capability.id] = pol2.capabilities[source.capability.id],
           Grants(pol, TheProfile(source)) = Grants(pol2, TheProfile(source))
    PROVE  SameFacts(DaggerBody(pol, source, path, content, i, sha),
                     DaggerBody(pol2, source, path, content, j, sha))
<1>1. DaggerBody(pol, source, path, content, i, sha) = DaggerBody(pol2, source, path, content, i, sha)
  BY DEF DaggerBody
<1> DEFINE one == DaggerBody(pol2, source, path, content, i, sha)
           other == DaggerBody(pol2, source, path, content, j, sha)
<1>2. /\ one.kind = other.kind
      /\ one.run_kind = other.run_kind
      /\ one.status = other.status
      /\ one.capability = other.capability
      /\ one.suite_id = other.suite_id
      /\ one.repository_sha = other.repository_sha
      /\ one.model = other.model
      /\ one.adapter = other.adapter
      /\ one.profile = other.profile
      /\ one.required = other.required
      /\ one.granted = other.granted
      /\ one.missing = other.missing
      /\ one.remote_credentials_used = other.remote_credentials_used
      /\ one.context = other.context
      /\ one.tools = other.tools
      /\ one.evidence = other.evidence
      /\ one.timeline = other.timeline
      /\ one.verdict = other.verdict
      /\ one.accepted_evidence_ids = other.accepted_evidence_ids
  BY DEF DaggerBody
<1> HIDE DEF one, other
<1>3. \A f \in Facts : one[f] = other[f]
  BY <1>2 DEF Facts, RecordFields
<1> QED BY <1>1, <1>3 DEF SameFacts, one, other

LEMMA BenchAgain ==
    ASSUME NEW pol, NEW pol2, NEW source, NEW path, NEW content, NEW i, NEW j, NEW sha,
           pol.capabilities[source.capability.id] = pol2.capabilities[source.capability.id]
    PROVE  SameFacts(BenchBody(pol, source, path, content, i, sha),
                     BenchBody(pol2, source, path, content, j, sha))
<1>1. BenchBody(pol, source, path, content, i, sha) = BenchBody(pol2, source, path, content, i, sha)
  BY DEF BenchBody
<1> DEFINE one == BenchBody(pol2, source, path, content, i, sha)
           other == BenchBody(pol2, source, path, content, j, sha)
<1>2. /\ one.kind = other.kind
      /\ one.run_kind = other.run_kind
      /\ one.status = other.status
      /\ one.capability = other.capability
      /\ one.suite_id = other.suite_id
      /\ one.repository_sha = other.repository_sha
      /\ one.model = other.model
      /\ one.adapter = other.adapter
      /\ one.profile = other.profile
      /\ one.required = other.required
      /\ one.granted = other.granted
      /\ one.missing = other.missing
      /\ one.remote_credentials_used = other.remote_credentials_used
      /\ one.context = other.context
      /\ one.tools = other.tools
      /\ one.evidence = other.evidence
      /\ one.timeline = other.timeline
      /\ one.verdict = other.verdict
      /\ one.accepted_evidence_ids = other.accepted_evidence_ids
  BY DEF BenchBody
<1> HIDE DEF one, other
<1>3. \A f \in Facts : one[f] = other[f]
  BY <1>2 DEF Facts, RecordFields
<1> QED BY <1>1, <1>3 DEF SameFacts, one, other

-----------------------------------------------------------------------------
(* A record that verifies.                                                 *)

Body(kind, pol, source, path, content, instance, sha) ==
    IF kind = "dagger" THEN DaggerBody(pol, source, path, content, instance, sha)
    ELSE BenchBody(pol, source, path, content, instance, sha)

\* record is body with its fingerprint taken.
Sealed(record, body) ==
    /\ DOMAIN record = RecordFields
    /\ record.fingerprint = [f \in Facts |-> record[f]]
    /\ \A f \in RecordFields \ {"fingerprint"} : record[f] = body[f]

LEMMA NormalizedIsSealed ==
    ASSUME NEW kind, NEW pol, NEW source, NEW path, NEW content, NEW instance, NEW sha
    PROVE  Sealed(Normalized(kind, pol, source, path, content, instance, sha),
                  Body(kind, pol, source, path, content, instance, sha))
<1>1. Normalized(kind, pol, source, path, content, instance, sha)
          = WithFingerprint(Body(kind, pol, source, path, content, instance, sha))
  BY DEF Normalized, DaggerRecord, BenchRecord, Body
<1>2. DOMAIN Body(kind, pol, source, path, content, instance, sha) = RecordFields
  BY DaggerFields, BenchFields DEF Body
<1> QED BY <1>1, <1>2, FingerprintTaken DEF Sealed

LEMMA NormalizedFields ==
    ASSUME NEW kind \in {"dagger", "bench"}, NEW pol, NEW source, NEW path, NEW content,
           NEW instance, NEW sha,
           NEW made, made = Normalized(kind, pol, source, path, content, instance, sha)
    PROVE  /\ made.kind = "arsenal-flight-record"
           /\ made.run_kind = IF kind = "bench" THEN "evaluation" ELSE "capability-verification"
           /\ made.capability = source.capability
           /\ made.repository_sha = sha
           /\ made.context[1].digest = pol.capabilities[source.capability.id]
           /\ kind = "dagger" => /\ made.profile = TheProfile(source)
                                 /\ made.granted = Grants(pol, TheProfile(source))
           /\ made.evidence[1].source = path
           /\ made.evidence[1].sha256 = content
           /\ 1 \in DOMAIN made.evidence
<1> DEFINE body == Body(kind, pol, source, path, content, instance, sha)
<1>1. /\ body.kind = "arsenal-flight-record"
      /\ body.run_kind = IF kind = "bench" THEN "evaluation" ELSE "capability-verification"
      /\ body.capability = source.capability
      /\ body.repository_sha = sha
      /\ body.context[1].digest = pol.capabilities[source.capability.id]
      /\ kind = "dagger" => /\ body.profile = TheProfile(source)
                            /\ body.granted = Grants(pol, TheProfile(source))
  BY DaggerFields, BenchFields DEF Body
<1>2. \E id : body.evidence = <<EvidenceItem(id, path, content)>>
  BY DaggerFields, BenchFields DEF Body
<1>3. /\ body.evidence[1].source = path
      /\ body.evidence[1].sha256 = content
      /\ 1 \in DOMAIN body.evidence
  BY <1>2 DEF EvidenceItem
<1>4. Sealed(made, body)
  BY NormalizedIsSealed
<1> HIDE DEF body
<1>5. /\ made.kind = body.kind
      /\ made.run_kind = body.run_kind
      /\ made.capability = body.capability
      /\ made.repository_sha = body.repository_sha
      /\ made.context = body.context
      /\ made.profile = body.profile
      /\ made.granted = body.granted
      /\ made.evidence = body.evidence
  BY <1>4 DEF Sealed, RecordFields
<1> QED BY <1>1, <1>3, <1>5

\* record is made, but for a status and a verdict that were written over.
Derived(record, made) ==
    /\ DOMAIN record = RecordFields
    /\ \A f \in RecordFields \ {"status", "verdict"} : record[f] = made[f]

\* The fingerprint holds only where no fact was written over.
LEMMA FingerprintTells ==
    ASSUME NEW record, NEW made, Derived(record, made), FingerprintHolds(record),
           made.fingerprint = [f \in Facts |-> made[f]]
    PROVE  \A f \in Facts : record[f] = made[f]
<1>1. record.fingerprint = [f \in Facts |-> record[f]]
  BY DEF FingerprintHolds, Fingerprint, Derived, Facts
<1>2. record.fingerprint = made.fingerprint
  BY DEF Derived, RecordFields
<1>3. [f \in Facts |-> record[f]] = [f \in Facts |-> made[f]]
  BY <1>1, <1>2
<1>4. \A f \in Facts : [g \in Facts |-> record[g]][f] = [g \in Facts |-> made[g]][f]
  BY <1>3
<1> QED BY <1>4

\* Nothing that makes a record well formed reads its instance id.
LEMMA WellFormedAgain ==
    ASSUME NEW record, NEW other,
           DOMAIN record = RecordFields, DOMAIN other = RecordFields,
           \A f \in Facts : record[f] = other[f],
           other.fingerprint = [f \in Facts |-> other[f]],
           RecordWellFormed(record)
    PROVE  RecordWellFormed(other)
<1>1. /\ record.kind = other.kind
      /\ record.run_kind = other.run_kind
      /\ record.status = other.status
      /\ record.model = other.model
      /\ record.adapter = other.adapter
      /\ record.profile = other.profile
      /\ record.required = other.required
      /\ record.granted = other.granted
      /\ record.missing = other.missing
      /\ record.tools = other.tools
      /\ record.evidence = other.evidence
      /\ record.timeline = other.timeline
      /\ record.verdict = other.verdict
      /\ record.accepted_evidence_ids = other.accepted_evidence_ids
  BY DEF Facts, RecordFields
<1>2. FingerprintHolds(other)
  BY DEF FingerprintHolds, Fingerprint, Facts
<1>3. AuthorityValid(record) = AuthorityValid(other)
  BY <1>1 DEF AuthorityValid
<1>4. ReferencesResolve(record) = ReferencesResolve(other)
  BY <1>1 DEF ReferencesResolve, EvidenceIds, AcceptedIds
<1> QED BY <1>1, <1>2, <1>3, <1>4 DEF RecordWellFormed

-----------------------------------------------------------------------------
(* The inductive invariant: where the files come from.                     *)

\* A world of the project ran to its end and wrote this.
Witnessed(raw) == \E p \in executed : CasesBehave(p) /\ raw = RawReceipt(p)

RunHolds(r) ==
    /\ run[r].step # "idle" => /\ {"step", "context"} \subseteq DOMAIN run[r]
                               /\ \E p \in KnownPacks : run[r].context = Context(p)
    /\ run[r].step = "world" => run[r].mounted \in KnownPacks

\* What the file at p was normalized from.  Unless it is torn, the digest in it is that of the
\* source that was normalized.
Recorded(p) ==
    \E kind \in {"dagger", "bench"} : \E pol, source, path, content, instance, sha :
        /\ p \notin torn => content = source
        /\ Derived(files[p], Normalized(kind, pol, source, path, content, instance, sha))

Typed ==
    /\ pack \in KnownPacks
    /\ policy \in KnownPolicies
    /\ DOMAIN files = Paths
    /\ DOMAIN run = Runners
    /\ recorder # AtRest => recorder.kind \in {"dagger", "bench"}

FileHolds(p) ==
    /\ files[p].kind = "dagger-world-evidence" => Witnessed(files[p])
    /\ files[p].kind = "arsenal-flight-record" => Recorded(p)

FlightInv ==
    /\ Typed
    /\ \A r \in Runners : RunHolds(r)
    /\ \A p \in Paths : FileHolds(p)
    /\ \A receipt \in composed :
           receipt.world_evidence.kind = "dagger-world-evidence" => Witnessed(receipt.world_evidence)

LEMMA FlightBegins == FlightInit => FlightInv
<1> SUFFICES ASSUME FlightInit PROVE FlightInv
  OBVIOUS
<1>1. Typed
  BY DEF FlightInit, Typed, KnownPacks, KnownPolicies
<1>2. \A r \in Runners : RunHolds(r)
  BY DEF FlightInit, AtRest, RunHolds
<1>3. \A p \in Paths : files[p].kind \in {"no file", "bench"}
  BY BenchesAreReceipts DEF FlightInit, NoFile
<1> QED BY <1>1, <1>2, <1>3 DEF FlightInv, FileHolds, FlightInit

\* A file that was not written, or that became torn, holds what it held.
LEMMA FileKept ==
    ASSUME NEW p \in Paths, FileHolds(p), executed \subseteq executed',
           files'[p] = files[p], p \in torn => p \in torn'
    PROVE  FileHolds(p)'
<1>1. Witnessed(files[p]) => Witnessed(files[p])'
  BY DEF Witnessed
<1>2. Recorded(p) => Recorded(p)'
  BY DEF Recorded
<1> QED BY <1>1, <1>2 DEF FileHolds

\* Neither a missing file nor a receipt says anything the invariant is about.
LEMMA FileFree ==
    ASSUME NEW p \in Paths,
           files'[p].kind \in {"no file", "bench", "arsenal-executable-world"}
    PROVE  FileHolds(p)'
  BY DEF FileHolds

LEMMA ReceiptKept ==
    ASSUME NEW receipt, executed \subseteq executed',
           receipt.world_evidence.kind = "dagger-world-evidence" => Witnessed(receipt.world_evidence)
    PROVE  receipt.world_evidence.kind = "dagger-world-evidence" => Witnessed(receipt.world_evidence)'
  BY DEF Witnessed

-----------------------------------------------------------------------------
(* Every step keeps the invariant.                                         *)

\* A step that writes no file and completes no world.
LEMMA NoFileWritten ==
    ASSUME FlightInv, UNCHANGED <<files, executed, composed, torn>>,
           Typed', \A r \in Runners : RunHolds(r)'
    PROVE  FlightInv'
<1>1. \A p \in Paths : FileHolds(p)'
  BY FileKept DEF FlightInv
<1>2. \A receipt \in composed' :
          receipt.world_evidence.kind = "dagger-world-evidence" => Witnessed(receipt.world_evidence)'
  BY ReceiptKept DEF FlightInv
<1> QED BY <1>1, <1>2 DEF FlightInv

\* The runs other than r stand where they stood.
LEMMA RunMoves ==
    ASSUME NEW r \in Runners, NEW state, Goto(r, state), OnlyRun, FlightInv,
           state.step # "idle" => /\ {"step", "context"} \subseteq DOMAIN state
                                  /\ \E p \in KnownPacks : state.context = Context(p),
           state.step = "world" => state.mounted \in KnownPacks,
           DOMAIN files' = DOMAIN files
    PROVE  Typed' /\ \A q \in Runners : RunHolds(q)'
<1>1. Typed'
  BY DEF FlightInv, Typed, Goto, OnlyRun
<1>2. ASSUME NEW q \in Runners PROVE RunHolds(q)'
  <2>1. run'[q] = IF q = r THEN state ELSE run[q]
    BY DEF FlightInv, Typed, Goto
  <2>2. RunHolds(q)
    BY DEF FlightInv
  <2> QED BY <2>1, <2>2 DEF RunHolds
<1> QED BY <1>1, <1>2

LEMMA RunStartKeeps == ASSUME FlightInv, NEW r \in Runners, RunStart(r) PROVE FlightInv'
<1> DEFINE state == [step |-> "gate", context |-> Context(pack), version |-> dagger]
<1>1. /\ Goto(r, state) /\ OnlyRun /\ UNCHANGED <<files, executed, composed, torn>>
  BY DEF RunStart
<1>2. /\ {"step", "context"} \subseteq DOMAIN state
      /\ state.context = Context(pack)
      /\ state.step = "gate"
  OBVIOUS
<1>3. pack \in KnownPacks
  BY DEF FlightInv, Typed
<1> HIDE DEF state
<1> QED BY <1>1, <1>2, <1>3, RunMoves, NoFileWritten

LEMMA RunGateKeeps == ASSUME FlightInv, NEW r \in Runners, RunGate(r) PROVE FlightInv'
<1> DEFINE open == [step |-> "unlink", context |-> run[r].context, version |-> run[r].version,
                    reports |-> Reports(run[r].context.world, policy)]
<1>1. /\ Goto(r, open) \/ Goto(r, AtRest)
      /\ OnlyRun /\ UNCHANGED <<files, executed, composed, torn>>
  BY DEF RunGate
<1>2. /\ {"step", "context"} \subseteq DOMAIN open
      /\ open.context = run[r].context
      /\ open.step = "unlink"
  OBVIOUS
<1>3. \E p \in KnownPacks : run[r].context = Context(p)
  BY DEF FlightInv, RunHolds, RunGate
<1>4. AtRest.step = "idle"
  BY DEF AtRest
<1> HIDE DEF open
<1>5. CASE Goto(r, open)
  BY <1>1, <1>2, <1>3, <1>5, RunMoves, NoFileWritten
<1>6. CASE Goto(r, AtRest)
  BY <1>1, <1>4, <1>6, RunMoves, NoFileWritten
<1> QED BY <1>1, <1>5, <1>6

LEMMA RunUnlinkKeeps == ASSUME FlightInv, NEW r \in Runners, RunUnlink(r) PROVE FlightInv'
<1> DEFINE raw == run[r].context.world.raw_receipt_path
           receipt == run[r].context.world.receipt_path
           state == [run[r] EXCEPT !.step = "launch"]
<1>1. /\ Goto(r, state) /\ OnlyRun /\ UNCHANGED <<executed, composed>>
      /\ files' = [files EXCEPT ![raw] = NoFile, ![receipt] = NoFile]
      /\ torn' = torn \ {raw, receipt}
  BY DEF RunUnlink
<1>2. /\ {"step", "context"} \subseteq DOMAIN run[r]
      /\ \E p \in KnownPacks : run[r].context = Context(p)
  BY DEF FlightInv, RunHolds, RunUnlink
<1>3. /\ {"step", "context"} \subseteq DOMAIN state
      /\ state.context = run[r].context
      /\ state.step = "launch"
  BY <1>2
<1>4. DOMAIN files = Paths
  BY DEF FlightInv, Typed
<1> HIDE DEF raw, receipt, state
<1>5. ASSUME NEW p \in Paths PROVE FileHolds(p)'
  <2>1. CASE p \in {raw, receipt}
    BY <1>1, <1>4, <2>1, FileFree DEF NoFile
  <2>2. CASE p \notin {raw, receipt}
    BY <1>1, <1>4, <2>2, FileKept DEF FlightInv
  <2> QED BY <2>1, <2>2
<1>6. Typed' /\ \A q \in Runners : RunHolds(q)'
  BY <1>1, <1>2, <1>3, <1>4, RunMoves
<1> QED BY <1>1, <1>5, <1>6, ReceiptKept DEF FlightInv

LEMMA WorldStartsKeeps == ASSUME FlightInv, NEW r \in Runners, WorldStarts(r) PROVE FlightInv'
<1> DEFINE state == [step |-> "world", context |-> run[r].context, version |-> run[r].version,
                     reports |-> run[r].reports, mounted |-> pack]
<1>1. /\ Goto(r, state) /\ OnlyRun /\ UNCHANGED <<files, executed, composed, torn>>
  BY DEF WorldStarts
<1>2. /\ {"step", "context"} \subseteq DOMAIN state
      /\ state.context = run[r].context
      /\ state.mounted = pack
  OBVIOUS
<1>3. /\ pack \in KnownPacks
      /\ \E p \in KnownPacks : run[r].context = Context(p)
  BY DEF FlightInv, Typed, RunHolds, WorldStarts
<1> HIDE DEF state
<1> QED BY <1>1, <1>2, <1>3, RunMoves, NoFileWritten

\* The raw receipt is that of the pack that was mounted, wherever it was exported to.
LEMMA WorldExportsKeeps == ASSUME FlightInv, NEW r \in Runners, WorldExports(r) PROVE FlightInv'
<1> DEFINE mounted == run[r].mounted
           path == mounted.script.export
           state == [step |-> "compose", context |-> run[r].context, version |-> run[r].version,
                     reports |-> run[r].reports]
<1>1. /\ CasesBehave(mounted)
      /\ executed' = executed \cup {mounted}
      /\ files' = IF path \in Paths THEN [files EXCEPT ![path] = RawReceipt(mounted)] ELSE files
      /\ Goto(r, state) /\ OnlyRun /\ UNCHANGED composed
      /\ torn' = torn \ {path}
  BY DEF WorldExports
<1>2. /\ {"step", "context"} \subseteq DOMAIN state
      /\ state.context = run[r].context
      /\ state.step = "compose"
  OBVIOUS
<1>3. \E p \in KnownPacks : run[r].context = Context(p)
  BY DEF FlightInv, RunHolds, WorldExports
<1>4. DOMAIN files = Paths
  BY DEF FlightInv, Typed
<1>5. RawReceipt(mounted).kind = "dagger-world-evidence"
  BY DEF RawReceipt
<1> HIDE DEF mounted, path, state
<1>6. ASSUME NEW p \in Paths PROVE FileHolds(p)'
  <2>1. CASE p = path
    <3>1. files'[p] = RawReceipt(mounted)
      BY <1>1, <1>4, <2>1
    <3>2. Witnessed(files[p])'
      BY <1>1, <3>1 DEF Witnessed
    <3> QED BY <1>5, <3>1, <3>2 DEF FileHolds
  <2>2. CASE p # path
    BY <1>1, <1>4, <2>2, FileKept DEF FlightInv
  <2> QED BY <2>1, <2>2
<1>7. Typed' /\ \A q \in Runners : RunHolds(q)'
  BY <1>1, <1>2, <1>3, <1>4, RunMoves
<1> QED BY <1>1, <1>6, <1>7, ReceiptKept DEF FlightInv

LEMMA WorldFailsKeeps == ASSUME FlightInv, NEW r \in Runners, WorldFails(r) \/ RunDies(r) PROVE FlightInv'
<1>1. Goto(r, AtRest) /\ OnlyRun /\ UNCHANGED <<files, executed, composed, torn>>
  BY DEF WorldFails, RunDies
<1>2. AtRest.step = "idle"
  BY DEF AtRest
<1> QED BY <1>1, <1>2, RunMoves, NoFileWritten

\* The receipt is composed of a raw receipt that is there.
LEMMA RunComposeKeeps == ASSUME FlightInv, NEW r \in Runners, RunCompose(r) PROVE FlightInv'
<1> DEFINE world == run[r].context.world
           raw == files[world.raw_receipt_path]
           receipt == Composed(run[r].context, run[r].reports, raw, run[r].version)
<1>1. /\ Goto(r, AtRest) /\ OnlyRun /\ UNCHANGED executed
      /\ \/ /\ files' = [files EXCEPT ![world.receipt_path] = receipt]
            /\ composed' = composed \cup {receipt}
            /\ torn' = torn \ {world.receipt_path}
         \/ UNCHANGED <<files, composed, torn>>
  BY DEF RunCompose
<1>2. PICK p \in KnownPacks : run[r].context = Context(p)
  BY DEF FlightInv, RunHolds, RunCompose
<1>3. world.raw_receipt_path \in Paths
  BY <1>2, ReceiptPathsAreFiles DEF Context
<1>4. raw.kind = "dagger-world-evidence" => Witnessed(raw)
  BY <1>3 DEF FlightInv, FileHolds
<1>5. receipt.kind = "arsenal-executable-world" /\ receipt.world_evidence = raw
  BY DEF Composed
<1>6. DOMAIN files = Paths /\ AtRest.step = "idle"
  BY DEF FlightInv, Typed, AtRest
<1>7. Witnessed(raw) => \E q \in executed' : CasesBehave(q) /\ raw = RawReceipt(q)
  BY <1>1 DEF Witnessed
<1> HIDE DEF world, raw, receipt
<1>8. CASE UNCHANGED <<files, composed, torn>>
  BY <1>1, <1>6, <1>8, RunMoves, NoFileWritten
<1>9. CASE /\ files' = [files EXCEPT ![world.receipt_path] = receipt]
           /\ composed' = composed \cup {receipt}
           /\ torn' = torn \ {world.receipt_path}
  <2>1. ASSUME NEW q \in Paths PROVE FileHolds(q)'
    <3>1. CASE q = world.receipt_path
      BY <1>5, <1>6, <1>9, <3>1, FileFree
    <3>2. CASE q # world.receipt_path
      BY <1>1, <1>6, <1>9, <3>2, FileKept DEF FlightInv
    <3> QED BY <3>1, <3>2
  <2>2. ASSUME NEW c \in composed'
        PROVE  c.world_evidence.kind = "dagger-world-evidence" => Witnessed(c.world_evidence)'
    <3>1. CASE c \in composed
      BY <1>1, <3>1, ReceiptKept DEF FlightInv
    <3>2. CASE c = receipt
      BY <1>4, <1>5, <1>7, <3>2 DEF Witnessed
    <3> QED BY <1>9, <3>1, <3>2
  <2>3. Typed' /\ \A q \in Runners : RunHolds(q)'
    BY <1>1, <1>6, <1>9, RunMoves
  <2> QED BY <2>1, <2>2, <2>3 DEF FlightInv
<1> QED BY <1>1, <1>8, <1>9

LEMMA RecordReadKeeps ==
    ASSUME FlightInv, NEW kind \in {"dagger", "bench"}, NEW path, NEW sha, RecordRead(kind, path, sha)
    PROVE  FlightInv'
<1>1. recorder'.kind = kind /\ OnlyRecorder /\ UNCHANGED <<files, torn>>
  BY DEF RecordRead
<1>2. Typed' /\ \A r \in Runners : RunHolds(r)'
  BY <1>1 DEF FlightInv, Typed, OnlyRecorder, RunHolds
<1> QED BY <1>1, <1>2, NoFileWritten DEF OnlyRecorder

\* A record is torn unless its source is what it was when it was read.
LEMMA RecordWriteKeeps ==
    ASSUME FlightInv, NEW output, NEW instance, RecordWrite(output, instance)
    PROVE  FlightInv'
<1> DEFINE content == files[recorder.path]
           record == Normalized(recorder.kind, policy, recorder.source, recorder.path,
                                content, instance, recorder.sha)
<1>1. /\ OnlyRecorder /\ recorder' = AtRest
      /\ \/ /\ files' = [files EXCEPT ![output] = record]
            /\ torn' = IF content = recorder.source THEN torn \ {output} ELSE torn \cup {output}
         \/ UNCHANGED <<files, torn>>
  BY DEF RecordWrite
<1>2. recorder.kind \in {"dagger", "bench"} /\ DOMAIN files = Paths
  BY DEF RecordWrite, FlightInv, Typed
<1>3. record.kind = "arsenal-flight-record" /\ DOMAIN record = RecordFields
  <2>1. Sealed(record, Body(recorder.kind, policy, recorder.source, recorder.path, content,
                           instance, recorder.sha))
    BY NormalizedIsSealed
  <2>2. record.kind = "arsenal-flight-record"
    BY <1>2, NormalizedFields
  <2> QED BY <2>1, <2>2 DEF Sealed
<1>4. Derived(record, record)
  BY <1>3 DEF Derived
<1>5. ASSUME NEW p \in Paths, p = output, files' = [files EXCEPT ![output] = record],
             torn' = IF content = recorder.source THEN torn \ {output} ELSE torn \cup {output}
      PROVE  FileHolds(p)'
  <2>1. files'[p] = record
    BY <1>2, <1>5
  <2>2. p \notin torn' => content = recorder.source
    BY <1>5
  <2>3. Recorded(p)'
    BY <1>2, <1>4, <2>1, <2>2 DEF Recorded
  <2> HIDE DEF record
  <2> QED BY <1>3, <2>1, <2>3 DEF FileHolds
<1> HIDE DEF content, record
<1>6. ASSUME NEW p \in Paths PROVE FileHolds(p)'
  <2>1. CASE UNCHANGED <<files, torn>>
    BY <1>1, <2>1, FileKept DEF FlightInv, OnlyRecorder
  <2>2. CASE /\ files' = [files EXCEPT ![output] = record]
             /\ torn' = IF content = recorder.source THEN torn \ {output} ELSE torn \cup {output}
    <3>1. CASE p = output
      BY <1>5, <2>2, <3>1
    <3>2. CASE p # output
      BY <1>1, <1>2, <2>2, <3>2, FileKept DEF FlightInv, OnlyRecorder
    <3> QED BY <3>1, <3>2
  <2> QED BY <1>1, <2>1, <2>2
<1>7. Typed' /\ \A r \in Runners : RunHolds(r)'
  BY <1>1, <1>2 DEF FlightInv, Typed, OnlyRecorder, RunHolds
<1> QED BY <1>1, <1>6, <1>7, ReceiptKept DEF FlightInv, OnlyRecorder

\* Policies, packs and daggers come and go; the files stay.
LEMMA EditTreeKeeps ==
    ASSUME FlightInv, EditPack \/ EditPolicy \/ InstallDagger
    PROVE  FlightInv'
<1>1. Untouched /\ UNCHANGED files /\ pack' \in KnownPacks /\ policy' \in KnownPolicies
  BY DEF EditPack, EditPolicy, InstallDagger, EditTree, FlightInv, Typed, KnownPacks, KnownPolicies
<1>2. Typed' /\ \A r \in Runners : RunHolds(r)'
  BY <1>1 DEF FlightInv, Typed, Untouched, RunHolds
<1> QED BY <1>1, <1>2, NoFileWritten DEF Untouched

LEMMA WriteBenchKeeps == ASSUME FlightInv, WriteBench PROVE FlightInv'
<1>1. PICK b \in Benches : files' = [files EXCEPT ![Bench] = b]
  BY DEF WriteBench
<1>2. Untouched /\ UNCHANGED <<pack, policy>>
  BY DEF WriteBench, EditFiles
<1>3. b.kind = "bench" /\ DOMAIN files = Paths
  BY BenchesAreReceipts DEF FlightInv, Typed
<1>4. ASSUME NEW p \in Paths PROVE FileHolds(p)'
  <2>1. CASE p = Bench
    BY <1>1, <1>3, <2>1, FileFree
  <2>2. CASE p # Bench
    BY <1>1, <1>2, <1>3, <2>2, FileKept DEF FlightInv, Untouched
  <2> QED BY <2>1, <2>2
<1>5. Typed' /\ \A r \in Runners : RunHolds(r)'
  BY <1>1, <1>2, <1>3 DEF FlightInv, Typed, Untouched, RunHolds
<1> QED BY <1>2, <1>4, <1>5, ReceiptKept DEF FlightInv, Untouched

\* Someone who rewrites a verdict leaves the fingerprint, by which it will be known.
LEMMA EditRecordKeeps == ASSUME FlightInv, EditRecord PROVE FlightInv'
<1>1. PICK p \in Outputs, v \in {"PASS", "FAIL"} :
          /\ files[p].kind = "arsenal-flight-record"
          /\ files' = [files EXCEPT ![p].status = v, ![p].verdict = v]
  BY DEF EditRecord
<1>2. Untouched /\ UNCHANGED <<pack, policy>>
  BY DEF EditRecord, EditFiles
<1>3. DOMAIN files = Paths /\ p \in Paths
  BY DEF FlightInv, Typed, Paths
<1>4. PICK kind \in {"dagger", "bench"} : \E pol, source, path, content, instance, sha :
          /\ p \notin torn => content = source
          /\ Derived(files[p], Normalized(kind, pol, source, path, content, instance, sha))
  BY <1>1, <1>3, Zenon DEF FlightInv, FileHolds, Recorded
<1>5. PICK pol, source, path, content, instance, sha :
          /\ p \notin torn => content = source
          /\ Derived(files[p], Normalized(kind, pol, source, path, content, instance, sha))
  BY <1>4
<1>6. /\ DOMAIN files'[p] = RecordFields
      /\ \A f \in RecordFields \ {"status", "verdict"} : files'[p][f] = files[p][f]
  BY <1>1, <1>3, <1>5 DEF Derived
<1>7. Derived(files'[p], Normalized(kind, pol, source, path, content, instance, sha))
  BY <1>5, <1>6 DEF Derived
<1>8. Recorded(p)'
  BY <1>2, <1>5, <1>7 DEF Recorded, Untouched
<1>9. files'[p].kind = "arsenal-flight-record"
  BY <1>1, <1>6 DEF RecordFields
<1>10. ASSUME NEW q \in Paths PROVE FileHolds(q)'
  <2>1. CASE q = p
    BY <1>8, <1>9, <2>1 DEF FileHolds
  <2>2. CASE q # p
    BY <1>1, <1>2, <1>3, <2>2, FileKept DEF FlightInv, Untouched
  <2> QED BY <2>1, <2>2
<1>11. Typed' /\ \A r \in Runners : RunHolds(r)'
  BY <1>1, <1>2, <1>3 DEF FlightInv, Typed, Untouched, RunHolds
<1> QED BY <1>2, <1>10, <1>11, ReceiptKept DEF FlightInv, Untouched

LEMMA FlightKeeps == FlightInv /\ [FlightNext]_flightVars => FlightInv'
<1> SUFFICES ASSUME FlightInv, [FlightNext]_flightVars PROVE FlightInv'
  OBVIOUS
<1>1. CASE \E r \in Runners :
           \/ RunStart(r) \/ RunGate(r) \/ RunUnlink(r) \/ WorldStarts(r) \/ WorldExports(r)
           \/ WorldFails(r) \/ RunCompose(r) \/ RunDies(r)
  BY <1>1, RunStartKeeps, RunGateKeeps, RunUnlinkKeeps, WorldStartsKeeps, WorldExportsKeeps,
     WorldFailsKeeps, RunComposeKeeps
<1>2. CASE \E kind \in {"dagger", "bench"}, path \in Paths, sha \in Shas : RecordRead(kind, path, sha)
  BY <1>2, RecordReadKeeps
<1>3. CASE \E output \in Outputs, instance \in Instances : RecordWrite(output, instance)
  BY <1>3, RecordWriteKeeps
<1>4. CASE EditPack \/ EditPolicy \/ InstallDagger
  BY <1>4, EditTreeKeeps
<1>5. CASE WriteBench
  BY <1>5, WriteBenchKeeps
<1>6. CASE EditRecord
  BY <1>6, EditRecordKeeps
<1>7. CASE UNCHANGED flightVars
  <2>1. Typed' /\ \A r \in Runners : RunHolds(r)'
    BY <1>7 DEF flightVars, FlightInv, Typed, RunHolds
  <2> QED BY <1>7, <2>1, NoFileWritten DEF flightVars
<1> QED BY <1>1, <1>2, <1>3, <1>4, <1>5, <1>6, <1>7 DEF FlightNext

LEMMA FlightInvHolds == FlightSpec => []FlightInv
  BY FlightBegins, FlightKeeps, PTL DEF FlightSpec

-----------------------------------------------------------------------------
(* What the invariant promises.                                            *)

\* Whatever policy is in place: the selector selects exactly when some substrate
\* may be used, one of the lowest rank among those, and never one with remote,
\* production or secret authority nor one that must be asked for (select_substrate).
THEOREM SelectionCorrect == FlightSpec => []SelectionIsLowestSufficient
<1>1. FlightInv => SelectionIsLowestSufficient
  BY SelectionIsLowest DEF FlightInv, Typed
<1> QED BY <1>1, FlightInvHolds, PTL

\* Whoever ran, died or edited in between: a receipt that verifies was composed of
\* the raw receipt of a world that ran to its end and behaved, of the definition
\* the receipt pins (cmd_run, verify_world_evidence).
THEOREM ReceiptsWitnessed == FlightSpec => []VerifiedReceiptObserved
<1>1. FlightInv => VerifiedReceiptObserved
  <2> SUFFICES ASSUME FlightInv, NEW receipt \in composed, ReceiptVerifies(pack, policy, receipt)
               PROVE  \E p \in executed :
                          /\ CasesBehave(p)
                          /\ DefinitionDigest(p, p.manifest.definition_inputs)
                                 = Context(pack).definition_digest
    BY DEF VerifiedReceiptObserved
  <2>1. /\ receipt.world_evidence.kind = "dagger-world-evidence"
        /\ receipt.world_evidence.definition_digest = Context(pack).definition_digest
    BY DEF ReceiptVerifies, ComposedVerified, WorldReceiptVerified
  <2>2. PICK p \in executed : CasesBehave(p) /\ receipt.world_evidence = RawReceipt(p)
    BY <2>1 DEF FlightInv, Witnessed
  <2>3. receipt.world_evidence.definition_digest = TreeDigest(p, p.manifest.definition_inputs)
    BY <2>2 DEF RawReceipt
  <2>4. TreeDigest(p, p.manifest.definition_inputs)
            = DefinitionDigest(p, p.manifest.definition_inputs)
    BY DEF TreeDigest, DefinitionDigest
  <2> QED BY <2>1, <2>2, <2>3, <2>4
<1> QED BY <1>1, FlightInvHolds, PTL

LEMMA Reproduces ==
    ASSUME NEW p, FileHolds(p), p \notin torn,
           files[p].kind = "arsenal-flight-record",
           RecordValid(files[p], files), ContractsUnchanged(files[p])
    PROVE  LET record == files[p]
               path == record.evidence[1].source
               kind == IF record.run_kind = "evaluation" THEN "bench" ELSE "dagger"
           IN  Compare(record, Normalized(kind, policy, files[path], path, files[path],
                                          "another instance", record.repository_sha)) = 0
<1> DEFINE record == files[p]
           path == record.evidence[1].source
<1>1. PICK kind \in {"dagger", "bench"} : \E pol, source, q, content, instance, sha :
          /\ p \notin torn => content = source
          /\ Derived(record, Normalized(kind, pol, source, q, content, instance, sha))
  BY Zenon DEF FileHolds, Recorded
<1>2. PICK pol, source, q, instance, sha :
          Derived(record, Normalized(kind, pol, source, q, source, instance, sha))
  BY <1>1
<1> DEFINE made == Normalized(kind, pol, source, q, source, instance, sha)
           again == Normalized(kind, policy, source, q, source, "another instance", sha)
<1>3. Sealed(made, Body(kind, pol, source, q, source, instance, sha))
  BY NormalizedIsSealed
<1>4. Sealed(again, Body(kind, policy, source, q, source, "another instance", sha))
  BY NormalizedIsSealed
<1>5. /\ made.run_kind = IF kind = "bench" THEN "evaluation" ELSE "capability-verification"
      /\ made.capability = source.capability
      /\ made.repository_sha = sha
      /\ made.context[1].digest = pol.capabilities[source.capability.id]
      /\ kind = "dagger" => /\ made.profile = TheProfile(source)
                            /\ made.granted = Grants(pol, TheProfile(source))
      /\ made.evidence[1].source = q
      /\ made.evidence[1].sha256 = source
      /\ 1 \in DOMAIN made.evidence
  BY NormalizedFields
<1>6. Derived(record, made)
  BY <1>2
<1> HIDE DEF made, again
<1>7. \A f \in Facts : record[f] = made[f]
  BY <1>3, <1>6, FingerprintTells DEF Sealed, RecordValid, RecordWellFormed
<1>8. /\ record.run_kind = made.run_kind /\ record.capability = made.capability
      /\ record.repository_sha = made.repository_sha /\ record.context = made.context
      /\ record.profile = made.profile /\ record.granted = made.granted
      /\ record.evidence = made.evidence
  BY <1>7 DEF Facts, RecordFields
<1>9. path = q /\ files[path] = source
  BY <1>5, <1>8 DEF RecordValid, SourcesHold
<1>10. pol.capabilities[source.capability.id] = policy.capabilities[source.capability.id]
  BY <1>5, <1>8 DEF ContractsUnchanged
<1>11. kind = "dagger" => Grants(pol, TheProfile(source)) = Grants(policy, TheProfile(source))
  BY <1>5, <1>8 DEF ContractsUnchanged, Grants
<1>12. SameFacts(Body(kind, pol, source, q, source, instance, sha),
                 Body(kind, policy, source, q, source, "another instance", sha))
  <2>1. CASE kind = "dagger"
    BY <1>10, <1>11, <2>1, DaggerAgain DEF Body
  <2>2. CASE kind = "bench"
    BY <1>10, <2>2, BenchAgain DEF Body
  <2> QED BY <2>1, <2>2
<1>13. ASSUME NEW f \in Facts PROVE record[f] = again[f]
  <2>1. f \in RecordFields \ {"fingerprint"}
    BY DEF Facts
  <2>2. made[f] = Body(kind, pol, source, q, source, instance, sha)[f]
    BY <1>3, <2>1 DEF Sealed
  <2>3. again[f] = Body(kind, policy, source, q, source, "another instance", sha)[f]
    BY <1>4, <2>1 DEF Sealed
  <2>4. Body(kind, pol, source, q, source, instance, sha)[f]
            = Body(kind, policy, source, q, source, "another instance", sha)[f]
    BY <1>12 DEF SameFacts
  <2> QED BY <1>7, <2>2, <2>3, <2>4
<1>14. RecordWellFormed(again)
  BY <1>4, <1>6, <1>13, WellFormedAgain DEF RecordValid, Derived, Sealed
<1>15. record.fingerprint = again.fingerprint
  <2>1. record.fingerprint = made.fingerprint
    BY <1>6 DEF Derived, RecordFields
  <2>2. [f \in Facts |-> made[f]] = [f \in Facts |-> again[f]]
    BY <1>7, <1>13
  <2> QED BY <1>3, <1>4, <2>1, <2>2 DEF Sealed
<1>16. Compare(record, again) = 0
  BY <1>14, <1>15 DEF Compare, RecordValid
<1>17. kind = IF record.run_kind = "evaluation" THEN "bench" ELSE "dagger"
  BY <1>5, <1>8
<1>18. record.repository_sha = sha
  BY <1>5, <1>8
<1> QED BY <1>9, <1>16, <1>17, <1>18 DEF again

\* A flight record that verifies, and was not torn while it was made, is what its
\* source gives again: nothing in it was written over (verify_record, compare).
THEOREM VerifiedRecordsReproduce == FlightSpec => []VerifiedRecordReproduces
<1>1. FlightInv => VerifiedRecordReproduces
  BY Reproduces DEF FlightInv, VerifiedRecordReproduces, Paths
<1> QED BY <1>1, FlightInvHolds, PTL
=============================================================================
