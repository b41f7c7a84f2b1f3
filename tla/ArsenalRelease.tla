---------------------------- MODULE ArsenalRelease ----------------------------
(***************************************************************************)
(* A release of Arsenal as its commands run on one working tree:           *)
(* arsenal_compile build renders, seals, clears, writes and locks one      *)
(* export after the other; arsenal_bench qualify observes a package case   *)
(* by case and then binds a receipt; the tree may be edited and either     *)
(* command may die between any two of these steps.  verify and the         *)
(* preflight change nothing: they are Verified and Preflight.              *)
(*                                                                         *)
(* Commands run one at a time, as the operator and the CI job start them.  *)
(* A file is written whole.                                                *)
(***************************************************************************)
EXTENDS ArsenalBench, ArsenalGraph

CONSTANTS
    InitialTree,
    Documents,      \* documents an edit may put in a capability file
    Contents,       \* bytes an edit may put in a source file
    Plans, Projects, SuiteSets,
    Requests,       \* what callers ask the preflight
    MaxEdits

ASSUME MaxEditsIsNatural == MaxEdits \in Nat

\* The suites a tree may hold are read from JSON: what they list is a list.
ASSUME SuitesList ==
    /\ "suites" \in DOMAIN InitialTree
    /\ \A suites \in SuiteSets \cup {InitialTree.suites} : \A s \in suites :
          /\ s.cases \in Seq(Range(s.cases))
          /\ LET qualified == s.qualification_gate.qualified_required_case_ids IN
             s.track = "distribution-qualification" => qualified \in Seq(Range(qualified))

\* So are the exports of a plan and the resources of a capability document.
ASSUME TreesList ==
    /\ DOMAIN InitialTree = {"caps", "sources", "suites", "plan", "project"}
    /\ \A plan \in Plans \cup {InitialTree.plan} : plan.exports \in Seq(Range(plan.exports))
    /\ \A d \in Documents \cup Range(InitialTree.caps) : d.resources \in Seq(Range(d.resources))

\* A request is the arguments of the command, every one of them with a value.
ASSUME RequestsAreArguments ==
    \A r \in Requests :
        DOMAIN r = {"route", "inventory", "authority_profile", "omitted",
                    "minimum_lifecycle", "minimum_evaluation"}

VARIABLES
    tree,       \* what the commands read
    disk,       \* distribution/: output path -> package
    lock,       \* .arsenal.lock
    receipts,   \* evaluation/qualifications: suite id -> receipt
    build,      \* the build that runs
    qualify,    \* the qualification that runs
    edits,      \* how many edits the tree has had
    undisturbed \* history: the last build finished and nothing was edited since it began

releaseVars == <<tree, disk, lock, receipts, build, qualify, edits, undisturbed>>

Idle == [step |-> "idle"]
NoLock == [plan_sha256 |-> NoDigest, capabilities |-> <<>>]

ReleaseInit ==
    /\ tree = InitialTree
    /\ disk = <<>>
    /\ lock = NoLock
    /\ receipts = <<>>
    /\ build = Idle
    /\ qualify = Idle
    /\ edits = 0
    /\ undisturbed = FALSE

NoCommandRuns == build = Idle /\ qualify = Idle

-----------------------------------------------------------------------------
(* build                                                                   *)

\* Load and validate the whole plan before anything is written.
BuildStart ==
    /\ NoCommandRuns
    /\ PlanAccepted(tree)
    /\ build' = [step |-> "export", rows |-> <<>>, quiet |-> TRUE,
                 todo |-> [i \in DOMAIN tree.plan.exports |-> Normalize(tree, tree.plan.exports[i])]]
    /\ undisturbed' = FALSE
    /\ UNCHANGED <<tree, disk, lock, receipts, qualify, edits>>

At(step) == build.step = step
Current == Head(build.todo)

\* Read the resources and render SKILL.md.
BuildRender ==
    /\ At("export")
    /\ build.todo # <<>>
    /\ Current.export.target = "agent-skills"
    /\ Packageable(tree, Current.doc)
    /\ build' = [step |-> "seal", rows |-> build.rows, quiet |-> build.quiet, todo |-> build.todo,
                 generated |-> Rendered(tree, Current),
                 sizes |-> AlwaysLoadedSizes(tree, Current.doc)]
    /\ UNCHANGED <<tree, disk, lock, receipts, qualify, edits, undisturbed>>

\* Put the manifest together; the capability and the primary source are read again.
BuildSeal ==
    /\ At("seal")
    /\ Current.source_path \in DOMAIN tree.sources
    /\ LET manifest == Manifest(tree, Current, build.generated, build.sizes) IN
       build' = [step |-> "clear", rows |-> build.rows, quiet |-> build.quiet, todo |-> build.todo,
                 files |-> With(build.generated, ManifestFile, manifest),
                 writes |-> WriteOrder(build.generated, manifest)]
    /\ UNCHANGED <<tree, disk, lock, receipts, qualify, edits, undisturbed>>

\* MUTANT of BuildClear: the files of the previous package stay.
BuildClearNothing ==
    /\ At("clear")
    /\ build' = [build EXCEPT !.step = "write"]
    /\ UNCHANGED <<tree, disk, lock, receipts, qualify, edits, undisturbed>>

\* shutil.rmtree.
BuildClear ==
    /\ At("clear")
    /\ disk' = [p \in DOMAIN disk \ {Current.export.output_path} |-> disk[p]]
    /\ build' = [build EXCEPT !.step = "write"]
    /\ UNCHANGED <<tree, lock, receipts, qualify, edits, undisturbed>>

BuildWrite ==
    /\ At("write")
    /\ build.writes # <<>>
    /\ LET w == Head(build.writes)
           path == Current.export.output_path
       IN  disk' = With(disk, path, With(FilesAt(disk, path), w.name, w.data))
    /\ build' = [build EXCEPT !.writes = Tail(@)]
    /\ UNCHANGED <<tree, lock, receipts, qualify, edits, undisturbed>>

\* Pin the export; the capability and the primary source are read once more.
BuildRow ==
    /\ At("write")
    /\ build.writes = <<>>
    /\ Current.source_path \in DOMAIN tree.sources
    /\ build' = [step |-> "export", quiet |-> build.quiet, todo |-> Tail(build.todo),
                 rows |-> WithRow(tree, build.rows, Current, build.files)]
    /\ UNCHANGED <<tree, disk, lock, receipts, qualify, edits, undisturbed>>

\* The plan is read again for its digest.
BuildLock ==
    /\ At("export")
    /\ build.todo = <<>>
    /\ lock' = Lock(tree, build.rows)
    /\ undisturbed' = build.quiet
    /\ build' = Idle
    /\ UNCHANGED <<tree, disk, receipts, qualify, edits>>

\* An exception (what the guards above refuse) or the end of the process: what
\* was written stays.
BuildDies ==
    /\ build # Idle
    /\ build' = Idle
    /\ UNCHANGED <<tree, disk, lock, receipts, qualify, edits, undisturbed>>

-----------------------------------------------------------------------------
(* qualify                                                                 *)

QualifyStart ==
    /\ NoCommandRuns
    /\ SuitesValid(tree.suites)
    /\ \E s \in tree.suites :
          /\ s.track = "distribution-qualification"
          /\ qualify' = [step |-> "cases", suite |-> s, todo |-> s.cases, results |-> <<>>]
    /\ UNCHANGED <<tree, disk, lock, receipts, build, edits, undisturbed>>

\* An inactive case is passed over.
QualifySkip ==
    /\ qualify.step = "cases"
    /\ qualify.todo # <<>>
    /\ ~Head(qualify.todo).active
    /\ qualify' = [qualify EXCEPT !.todo = Tail(@)]
    /\ UNCHANGED <<tree, disk, lock, receipts, build, edits, undisturbed>>

QualifyCase ==
    /\ qualify.step = "cases"
    /\ qualify.todo # <<>>
    /\ LET c == Head(qualify.todo)
           files == FilesAt(disk, c.distribution_path)
           verdict == IF CasePasses(tree, qualify.suite, c, files) THEN "PASS" ELSE "FAIL"
       IN  /\ c.active
           /\ c.mode = "distribution-structural"
           /\ ~ObservationRaises(c, files)
           /\ qualify' = [qualify EXCEPT !.todo = Tail(@),
                                         !.results = With(@, c.id, verdict)]
    /\ UNCHANGED <<tree, disk, lock, receipts, build, edits, undisturbed>>

\* The receipt binds what is on disk after the last case ran.
QualifyBind ==
    /\ qualify.step = "cases"
    /\ qualify.todo = <<>>
    /\ Declares(tree, qualify.suite.capability_id)
    /\ receipts' =
          With(receipts, qualify.suite.id,
               [suite |-> qualify.suite,
                status |-> QualificationStatus(qualify.suite, qualify.results),
                binding |-> Binding(tree, qualify.suite, disk)])
    /\ qualify' = Idle
    /\ UNCHANGED <<tree, disk, lock, build, edits, undisturbed>>

QualifyDies ==
    /\ qualify # Idle
    /\ qualify' = Idle
    /\ UNCHANGED <<tree, disk, lock, receipts, build, edits, undisturbed>>

-----------------------------------------------------------------------------
(* Edits of the tree and of the packages.                                  *)

Edited ==
    /\ edits < MaxEdits
    /\ edits' = edits + 1
    /\ undisturbed' = FALSE
    /\ build' = IF build = Idle THEN Idle ELSE [build EXCEPT !.quiet = FALSE]
    /\ UNCHANGED <<lock, receipts, qualify>>

EditCapability ==
    /\ Edited
    /\ \E p \in DOMAIN tree.caps, d \in Documents :
          tree' = [tree EXCEPT !.caps[p] = d]
    /\ UNCHANGED disk

EditSource ==
    /\ Edited
    /\ \E p \in DOMAIN tree.sources :
          \/ \E b \in Contents : tree' = [tree EXCEPT !.sources[p] = b]
          \/ tree' = [tree EXCEPT !.sources = [q \in DOMAIN @ \ {p} |-> @[q]]]
    /\ UNCHANGED disk

EditPlan ==
    /\ Edited
    /\ \/ \E plan \in Plans : tree' = [tree EXCEPT !.plan = plan]
       \/ \E project \in Projects : tree' = [tree EXCEPT !.project = project]
       \/ \E suites \in SuiteSets : tree' = [tree EXCEPT !.suites = suites]
    /\ UNCHANGED disk

\* A generated file is deleted, or changed by hand.
EditPackage ==
    /\ Edited
    /\ \E p \in DOMAIN disk : \E name \in DOMAIN disk[p] :
          \/ disk' = [disk EXCEPT ![p] = [n \in DOMAIN @ \ {name} |-> @[n]]]
          \/ name = SkillFile /\ disk' = [disk EXCEPT ![p][name].use_when = {}]
          \/ name = ManifestFile /\ disk' = [disk EXCEPT ![p][name].capability.version = NotSemver]
          \/ /\ name \notin {SkillFile, ManifestFile}
             /\ \E b \in Contents : disk' = [disk EXCEPT ![p][name] = b]
    /\ UNCHANGED tree

ReleaseNext ==
    \/ BuildStart \/ BuildRender \/ BuildSeal \/ BuildClear \/ BuildWrite
    \/ BuildRow \/ BuildLock \/ BuildDies
    \/ QualifyStart \/ QualifySkip \/ QualifyCase \/ QualifyBind \/ QualifyDies
    \/ EditCapability \/ EditSource \/ EditPlan \/ EditPackage

ReleaseSpec == ReleaseInit /\ [][ReleaseNext]_releaseVars

-----------------------------------------------------------------------------
(* Properties.                                                             *)

Verified == Verifies(tree, disk, lock, { receipts[i].binding : i \in DOMAIN receipts })

ExportedPaths == { e.output_path : e \in Range(tree.plan.exports) }

\* TYPE INVARIANT.  A package is only ever written under a path some accepted
\* plan exports; a receipt carries a known status; commands exclude each other.
ReleaseTypeOK ==
    /\ build.step \in {"idle", "export", "seal", "clear", "write"}
    /\ qualify.step \in {"idle", "cases"}
    /\ build = Idle \/ qualify = Idle
    /\ \A i \in DOMAIN receipts :
          receipts[i].status \in {"unassessed", "candidate", "qualified"}
    /\ edits \in 0 .. MaxEdits
    /\ undisturbed \in BOOLEAN

\* A candidate receipt that verify accepts for an exported package is one its own
\* suite would give that package now, although the tree and the package may have
\* been edited between any two cases and before the binding was computed
\* (build_qualification_receipt, _compute_qualification_binding).
VerifiedReceiptsReproduce ==
    Verified =>
        \A i \in DOMAIN receipts :
            LET r == receipts[i] IN
            r.status # "unassessed" /\ r.binding.distribution_path \in ExportedPaths =>
                QualificationStatus(r.suite, Rerun(tree, r.suite, disk)) = r.status

\* A build that finished with nothing edited since it began leaves exactly what
\* verify's dry build produces (Determinism in the compiler's contract).
UndisturbedBuildVerifies ==
    undisturbed => Buildable(tree) /\ TreesMatch(tree, disk) /\ lock = DryLock(tree)

\* No receipt reaches "qualified": the cases it needs are behavioral, and a valid
\* suite keeps those designed-not-run (validate_case, validate_qualification_gate).
QualifiedIsUnreachable ==
    \A i \in DOMAIN receipts : receipts[i].status # "qualified"

LockRequests == { r \in Requests : r.inventory = "lock" }
Needs(r) == { step.capability_id : step \in Range(Graph.routes[r.route].steps) }

\* A preflight that goes on with the lock goes on with capabilities the lock
\* pins as they are now, however old the lock is and wherever the build that
\* wrote it was disturbed; and right after an undisturbed build the lock answers
\* what the tree answers about the capabilities it compiled (preflight,
\* locked_entry_state, write_lock).
LockPreflightIsCurrent ==
    \A r \in LockRequests :
        /\ Proceeds(tree, lock.capabilities, r) =>
              \A id \in Needs(r) :
                  lock.capabilities[id].capability_sha256 = tree.caps[CapabilityPath(tree, id)]
        /\ undisturbed /\ Needs(r) \subseteq DOMAIN lock.capabilities =>
              Preflight(tree, lock.capabilities, r)
                = Preflight(tree, lock.capabilities, [r EXCEPT !.inventory = "canonical"])

\* What the graph's contract says of the order of evaluation states: a preflight
\* goes on only with capabilities that reach every minimum it was given.
ContractOrder == <<"unassessed", "planned", "candidate", "qualified">>
Rank(state) == CHOOSE i \in DOMAIN ContractOrder : ContractOrder[i] = state
ReadyMeetsMinimum ==
    \A r \in Requests :
        Proceeds(tree, lock.capabilities, r) /\ r.minimum_evaluation # Unset =>
            \A id \in Needs(r) :
                Rank(tree.caps[CapabilityPath(tree, id)].evaluation) >= Rank(r.minimum_evaluation)

=============================================================================
