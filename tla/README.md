# Invariant: TLA+ models, model checking and proofs

This directory holds TLA+ modules that model the core of the Invariant
repository, the TLC configurations that check them on small instances, and
theorems about them checked by TLAPS.  The models are translated from the code
under `src/products`; where prose and code disagree the models follow the code
and the disagreement is listed under *Where the documentation says otherwise*.

## 1. The system and its parts

The repository is a monorepo of small products around one daemon, **Kiln**
(Elixir), and of **Arsenal**, a catalogue of engineering capabilities with the
Python programs that compile, qualify, admit and observe them.  Kiln keeps a *Session* - one task, one Root Run, one external
operation, one pending question - as a journal in SQLite.  Everything else
(the command line, the RPC handlers, the **Temper** client, **Loadout**)
reads that Session or asks Kiln to append to it.  Arsenal's programs have no
daemon: each is a command that reads files other commands wrote, on a working
tree people edit, and writes files the next command will trust.

| Component | State | Operations | Interacts with | What makes it correct |
|---|---|---|---|---|
| Journal reducer and projection (`journal/reducer.ex`, `projections/session.ex`, `domain/transition.ex`) | none: a pure function of projection and entry | `reduce`, `validate` | called by the append and by the replay | the separate guards, taken together, keep Run, Task, Session, question and operation in step over every sequence of entries |
| Durable journal (`store/journal.ex`, `journal/replay.ex`) | tables of entries and actions, an AUTOINCREMENT sequence | `commit`, `classify`, `rebuild`, `rebuild_for_action` | Workflow, patch handler, restart | one commit per key, dense revisions, replay gives the stored results, damage blocks rather than shortens the history |
| Projection cache and restart (`store/projections.ex`, `restart.ex`) | one cached projection per Session | `compare`, `reconcile`, `reconstruct` | journal | the cache never speaks against the journal; a restart claims nothing that is not known |
| Application boundary (`workflow.ex`) | none of its own; a call is several transactions | `start`, `resume`, `cancel`, `record_pending_decision`, `record_user_decision`, queries | journal | racing, retried and crashed calls return what was committed; advertised operations are executable |
| Patch application (`rpc/handlers/patch.ex`, `patch_service.ex`) | the files of a repository | `patch.apply`: intent, check, write, verify, observe, reply | journal, file system, the user's edits | no effect before its intent, no patch half applied that the journal takes for done |
| Run supervision (`supervision.ex`) | `work_id` -> Run, links from Runs to artifacts and evidence | `supervise`, `inspect_run` | artifact and evidence stores, authority | a Run found again reads as it was reported |
| Change verification (`verification/supervision.ex`) | the same rows | `supervise` | the same | a verified Run is complete or says that it is not |
| Artifact store (`artifact/store.ex`) | metadata rows and content-addressed blobs | `put`, `fetch`, `read` | supervision, evidence | a row always names a published blob; a retry replays |
| Evidence store and currentness (`evidence/*`) | evidence rows | `record`, `fetch`, currentness | artifacts, supervision | a row refers to artifacts that exist; staleness is judged by what was admitted |
| Activity hub and WebSocket (`activity/*`) | subscriptions by identifier | register, notify, unregister | Temper | a live subscription sees each notification, a dead one none |
| Temper live client (`temper/src/live.ts`, `stream.ts`) | connection, last revision seen | connect, notify, resync, stop | activity hub | what is shown never goes back and catches up after a gap |
| RPC daemon, router, handlers | authentication, request processes | dispatch | Workflow, PatchApply | thin: the calls they make are those of the modules above |
| SQLite, configuration, migrations | the database | transactions | all stores | external: `BEGIN IMMEDIATE` is atomic and isolated |
| Command line; proposals, reviews, workers, providers; authority; repository observation | none shared | pure or one-shot | | examined, not modelled |
| Arsenal compiler and targets (`scripts/arsenal_compile.py`, `arsenal_targets.py`) | `distribution/`, `.arsenal.lock` | `build`, `verify` | bench, graph | verify accepts only what the present tree builds |
| Arsenal bench (`arsenal_bench.py`) | qualification receipts | `qualify` | compiler | a receipt that still verifies is one its suite would give now |
| Arsenal graph (`arsenal_graph.py`) | none; reads tree and lock | `preflight` | compiler | a route is READY only with capabilities that are what the lock says |
| Arsenal trust (`arsenal_trust.py`) | candidate and decision files | `discover`, `assess`, `verify`, `revoke` | imported packages, policy, capabilities | a decision authorizes only what was reviewed, as it is now |
| Role qualification and Manifold (`arsenal_m0_qualification.py`, `manifold/src/selector.py`) | profiles, receipts, status events, snapshots | `materialize`, `run`, `status`, `snapshot`; `select` | Kiln's command line, the clock | a selection by a derived snapshot rests on a campaign without failures, recently |
| Method evaluation (`arsenal_evaluate.py`, `arsenal_method_record.py`, `evaluation/adapters`) | artifact, revised record | `repository-recon`, `validate` | Node and Loadout through adapters | successes were observed; an evaluation ends |
| Reality budget and execution worlds (`arsenal_substrate.py`, `arsenal_dagger.py`, `run_world.py`) | raw and composed receipts | `select`, `run`, `verify` | Dagger, compiler | a receipt that verifies was observed |
| Flight recorder (`arsenal_observe.py`) | flight records | `record-*`, `verify`, `compare` | bench, Dagger receipts | a record that verifies says what its source says |
| Knowledge (`arsenal_knowledge.py`) | none; reads a snapshot | `validate`, `adjudicate`, `compile` | the snapshot's authors | an authorization is earned at this commit; a context is complete |
| Arsenal source model, registry, governance, audits | none | linters | | examined, not modelled |
| Loadout, scenarios, contracts | none shared | one-shot | Kiln's command line | examined, not modelled |

**What is hard here.**  Every request runs in a process of its own, and a call
is several SQLite transactions with other processes in between: what is checked
on a loaded projection may be stale when the append happens.  Callers retry with
the same idempotency key after a lost reply or a crash.  Kiln may die between
an intent, the writes it announces, and the observation of them.  The reducer's
guards and the validation after it are written separately, and several states
are unreachable only because the two meet.  The file system holds effects the
journal knows of only by observation, and the user edits it at the same time.
In Arsenal what was checked and what is used are different readings of one file:
a build, a campaign or a recording takes many steps, the tree moves between any
two of them, commands are killed half way, and evidence outlives what it is
evidence of.  What protects a reader is that digests are compared again, and the
models ask whether the comparisons that are made suffice.
`PROJECT.json` lists every such hazard at its line, with the properties that
cover it, the module of the plan that will, or why no property can.

## 2. Modules

```
SessionReducer           pure: which entry a projection accepts, and what it becomes
   |
SessionLedger            the promise of the store: commits, heads, revisions
   |        |        \
   |        |         SessionLedger_proofs   theorems for any values of the constants
   |        |
   |     SessionJournal        tables, replay, cache, faults; implements SessionLedger
   |        |
   |        SessionJournal_proofs  the same, and the refinement, proved
   |
   +---- Workflow              racing, retrying callers over the ledger
   |        Workflow_proofs
   +---- PatchApply            patch handlers, files, crashes, over the ledger
            PatchApply_proofs
Supervision              Runs, artifacts, evidence and their links; stands alone
   |
Supervision_proofs       theorems for any values of the constants

ArsenalCompile           pure: accepted plans, packages, lock rows, what verify compares
   |         \
ArsenalBench  ArsenalGraph      suites, cases, receipts; preflight
   |         /
ArsenalRelease           build and qualify step by step on a tree that is edited

ArsenalTrust             admission of a package
ArsenalQualification     campaign, snapshot, selection
ArsenalMethodRecord, ArsenalRecon   pure: admissible records; procedure, adapters, judging
   \         /
ArsenalEvaluate          an evaluation from command line to exit code
ArsenalSubstrate - ArsenalWorld - ArsenalObserve    pure: selector; worlds; flight records
                                      |
                                 ArsenalFlight   runners and recorders on shared files
ArsenalKnowledge         snapshot, adjudication, compile

ArsenalReceipts_proofs    theorems of ArsenalRelease and ArsenalFlight
ArsenalAdmission_proofs   theorems of ArsenalTrust and ArsenalKnowledge
ArsenalEvaluation_proofs  theorems of ArsenalQualification and ArsenalEvaluate

MC<module>               the instance of each state machine for TLC
```

The last three modules prove about two state machines each, which share no state and
no command.  A module of theorems extends both, so that their names are kept apart:
`ReleaseInit`, `ReleaseNext`, `ReleaseSpec` and `releaseVars` beside `FlightInit`,
`FlightNext`, `FlightSpec` and `flightVars`, and in the same way in the other two.

`SessionLedger` is the abstract specification.  `SessionJournal` is shown to
implement it (property `ImplementsLedger`, by `INSTANCE SessionLedger WITH` the
accepted commits for `commits` and what they leave behind for `head` and
`revision`).  `Workflow` and `PatchApply` are then built on the ledger rather
than on the tables: their transactions are single ledger steps, which keeps
their state spaces to what the interleavings of calls need.

### SessionReducer

A projection is flattened to the fields some rule reads: `run`, `task`,
`session`, `opId`, `opState`, `decision`, `permitted`, `envelope`, `criteria`.
The objective, constraints, workflow step and references carry no rule and are
left out.  `Accepts` is the guard of each clause of `Reducer.reduce/2`; `Apply`
is the projection it builds; `Valid` is `Projections.Session.validate/1`, which
runs on every result; `Reducible` is the two together.  The same three serve
append and replay, as in the code.

### SessionLedger

State: the set of `commits` (key, request, session, revision, entry, projection
after it), and per Session the `head` projection and `revision`.  One action,
`CommitEntry`: the key is unused, a start finds no Session at all, the caller
expects the current revision (0 on an empty journal *and* on a Session at
revision 0, as `validate_expected_revision` has it), the entry reduces.  Every
caller of `Journal.commit` in `lib/` passes exactly one entry, so an action
appends one.

### SessionJournal

State: `rows` (journal entries), `actions`, `cache`, `nextSequence`; and, for
the properties, the history variables `accepted` (what was acknowledged),
`tampered` (Sessions whose authoritative rows were altered), `forged` (keys whose
stored result was altered together with its digest) and `faults`.
`Commit` is the append transaction whole: rebuild from the tables, check the
cache, classify the key, check precondition, revision and reduction, write row,
action and cache.  `Compare` is the read a query or restart begins with: rebuild
and reconcile the cache.  `Replay` is written as a recursive function over
sequences: each action extends the rebuilt prefix by its row, or blocks
(`ReplayStep`).
`Classify` answers a retry, which includes rebuilding the Session *at the stored
action*.  It stands for the store's classifier and for what the workflow makes of the
row it finds, and the latter depends on the request: the stored result of a start, a
resume or a cancel is compared with the rebuild (`ComparedWithRebuild`), that of a
decision only with the Run state it must report (`AnswerHolds`).
Four actions damage the medium: the cache is lost, malformed,
inconsistent or an older copy; a row or an action is deleted or altered in
a field that a digest or a bound is compared with; a stored result is altered, with
its digest left as it was or recomputed (`Forgeries`).
At most one row or action is altered in a behaviour (`tampered = {}` guards both
actions), whatever `MaxFaults` is: the store keeps no chain over its rows, so that
losing the last action together with its row leaves nothing to notice.

### Workflow

Each of `Callers` runs `Submit`, then the transactions of a call: `Lookup` (only
start, resume and cancel look the key up first), `Load` (with the checks made on
the loaded projection), `AppendCall` (which classifies again).  `Crash` ends a
call between two of these, or drops its reply.  `PatchAppend` stands for the
patch handler's commits to the same Session.  A request is what its digest
covers, so the identifiers minted for one attempt (Session, action) are kept
apart, as `call[c].session` and `attempt`: this is what lets a retry with fresh
identifiers be recognised.  A call scoped to a Session that does not exist
raises: `load_projection` returns `{:ok, :empty}`, which no clause of the `with`
matches; `Raised` is that outcome.

### PatchApply

Each of `Handlers` goes through `Intent` (the first commit), `Check` (decision
binding, then the preimage of each file), `Truncate`/`Fill`/`Delete` (a write
empties the file before it fills it), `Verify` (the postimage of each file), and
`Observe` (the second commit, whose result the handler ignores, and the reply).
`Raise` is a file operation that fails, giving the verdict `unknown`;
`StoreRefuses` a transaction that errors (a busy writer); `Crash` takes all
handlers and leaves journal and files; `Edit` is the user; `WorkflowAppend` is
`Kiln.Workflow` moving the same Session.  The digest of a request is a field of its
own, because the handler takes it from the caller and computes nothing: the store
replays an intent to any request with the same key and digest (`TakenFor`), and only
where no two requests share both (`Truthful`) is that the request's own.

### Supervision

State: the five tables (`runs`, `artifacts`, `links`, `evidence`,
`evidenceLinks`), what HEAD of the repository resolves to (`Heads`: the commit the
envelopes are based on, others, or nothing), and the call of each process.  An envelope
may ask for `git.read` of the observed repository, of another scope, or for something
else; `Decision` denies the second as `authority.ex` does.  `Resolve` and `Insert` are two statements
with no transaction around them, so that the unique index decides a race;
`Observe` reads the repository and fixes the decisions of the attempt; `Find`
answers from existing evidence; `Publish` and `Link` are taken once for the
observation and once per decision; `Record` and `LinkEvidence` follow.  A Run is
identified by the attempt that inserted it, an artifact by its attempt and
position: every attempt mints fresh identifiers, and since they are part of the
request digest, a second put under the same key conflicts.  `Publish` swallows
that conflict, and any other refusal, as `publish_*_artifact` does; `Record` does
not.  `Inspect` is what `inspect_run` derives from the rows.

### ArsenalCompile, ArsenalBench, ArsenalGraph, ArsenalRelease

A *tree* is what the commands read: capability documents, implementation files,
suites, the export plan, the project's targets.  The first three modules are
functions of a tree: `PlanAccepted` (`validate_plan_data` with the loaders it
calls), `Dry`, the fold of `build_outputs` over the exports, which gives `DryBuild`
and `DryLock`, and `Verifies` (`verify_build`: the
trees match, the lock is the dry lock, every receipt's binding holds);
`CaseValid`, the structural checks and the local-cloud router a case drives,
`QualificationStatus`; `GraphValid`, `StepState`, `Preflight` and its exit code.
`ArsenalRelease` runs them in steps.  A build goes export by export through
`BuildRender`, `BuildSeal`, `BuildClear`, `BuildWrite`, `BuildRow`, and ends with
`BuildLock`; a row takes the document validated at the start and the bytes read at
its own step, as `build_outputs` does.  A qualification goes case by case
(`QualifySkip`, `QualifyCase`) and binds its receipt afterwards (`QualifyBind`).
`BuildDies` and `QualifyDies` kill either anywhere; four edits change a
document, a source, the plan or a package.  A file is written whole.

### ArsenalTrust

State: the imported package, the policy, the capability and its primary asset, all
of which anyone edits, and the candidate and decision files.  `Discover`
inventories the package and maps its tools; `Assess` compares a review with
candidate, policy and capability and writes a decision; `Revoke` copies one.
`VerifyExit` is `verify_decision` with the exit code.  A digest is the data.  A package
that carries a compiler's manifest names the files it was compiled from, the target's or
any others of the repository (`Neighbours`), and they are read where it says
(`SourceStands`).

### ArsenalQualification

State: profiles, the output directory (receipt and status event per role), the
campaign that runs, the shelf of documents Manifold can be handed, the clock.
`Materialize`, `RunStart`, `RunCase`, `RunEnd`, `RunDies`, `Status`, `Snapshot`
and `Tick`.  A suite may ask for no replications: such a campaign executes nothing, and
since nothing failed its receipt is QUALIFIED.  `Selection` is `select` with the schemas
that close its inputs; the selector recomputes no digest, so a profile or a snapshot made
or edited elsewhere (`StrayProfiles`, `StraySnapshots`) is read like any other.

### ArsenalMethodRecord, ArsenalRecon, ArsenalEvaluate

`ValidateRecord` and `RecordsExit` are the method record validator; `ReconProcedure`,
the adapters and `Outcome` are what a case is judged by.  `ArsenalEvaluate` is the
evaluation: `Start`, then its `Step`s (method, adapter, cases, one case at a time,
the artifact, the revised record), with Loadout answering, breaking or hanging,
writes that fail half way, of the artifact and of the revised record (`Torn`), and files edited between any two steps.  The
exit code is part of the state, an uncaught exception included.

### ArsenalSubstrate, ArsenalWorld, ArsenalObserve, ArsenalFlight

`Select` narrows the ladder of substrates as `select` does; `ManifestAccepted`,
`GateOpen`, `Composed` and `ReceiptVerifies` are the execution world;
`Normalized`, `RecordValid` and `Compare` the flight recorder.  `ArsenalFlight`
runs two runners that share the raw and the composed receipt path, from gate to
unlink to container to receipt; a recorder that reads a source and then digests
it; and edits of the pack, the policy, the installed Dagger, the bench report and
a record.

### ArsenalKnowledge

State: one snapshot and the compile that runs.  The authors add claims and records,
withdraw a record, retrieve a source again or lose it, and the repository moves to
another commit, with or without its queries.  `Resolve`, `Authority`,
`LifecycleFindings` and the exit codes are functions of the snapshot.  `compile`
loads it once and then takes one relationship a step (`CompileEdge`), another pass
(`CompileAgain`) or ends (`CompileEnd`).

## 3. Runs

| Run | Question | Bounds |
|---|---|---|
| `ledger` | Do the reducer's guards and validations, over every sequence of entries, keep the history one replayable line and the waiting, operating, orphaned and closed Runs what they are? | 2 Sessions, 2 operations, 1 question with 2 answers, 1 criteria revision, 6 keys, so histories of up to 6 entries |
| `journal` | Do the tables implement the ledger, and is one fault of the medium repaired, reported, or blocking? | 2 Sessions, 4 keys, 2 request digests, up to 4 appends, 1 fault anywhere |
| `workflow` | Do racing, retried and crashed calls return what was committed? | 2 callers, 5 calls, 7 submissions (two starts, one key used for two operations, one question in two contexts), 2 patch commits |
| `patch` | Do the repository and the journal agree across crashes, retries, edits? | 2 handlers, 3 requests, 4 patches (one replaces one file and deletes another, one adds the deleted file, one is not approved, one carries the key and the digest of the first), 2 files, 1 edit |
| `supervision` | Are Runs, artifacts, evidence and what is inspected of them consistent when processes race, retry and die while the repository moves? | 2 processes, 3 calls, 1 `work_id` as two different requests, one of them half granted and half denied, 1 move of HEAD (from or to the base commit) |
| `release` | Is what `verify` and `preflight` accept what the present tree gives, whatever was edited or killed half way? | 2 capabilities, 1 export (a second plan moves it), 13 cases, 2 edits, builds and campaigns without bound |
| `trust` | Does a decision authorize only what was reviewed, after any edits? | 9 packages (3 of them compiled: from the target, from another capability, from one that is gone), 4 policies, 2 capabilities, 2 edits, 3 files |
| `qualification` | Does a selection rest on a recent campaign without failures, in any order of its profiles? | 2 adapter digests, 1 case replicated once or not at all, clock of 2 windows, 2 drawn identifiers, all pairs of profiles, 2 profiles and 2 snapshots made elsewhere |
| `evaluation` | Are successes observed, artifacts whole, records admissible, and does every evaluation end? | 4 corpora of up to 2 cases, 3 adapters, 1 edit, 2 evaluations |
| `flight` | Does a receipt or a record that verifies say what was observed? | 2 runners, 1 edit of the tree, 1 of the files, 1 record path |
| `knowledge` | Is an authorization earned, and a context the least closure? | 3 sources of 3 ranks, 4 entries, records of other owners, scopes and plans, 2 orders of 3 relationships, 2 commits, 4 edits |
| `ready_minimum` | refutes one statement of the documentation: section 6 | as `release` |

The bounds are chosen by the shortest histories that reach each case.  In
`ledger` the longest is: start, intent, observation as started, observation as
unknown, and then whatever may come after; a question with its answer takes
three entries, so six entries put a question after an operation or the other way
round.  In `journal` four appends give a first, a middle and a last action for
the fault to hit, with the second Session there only to be refused.  Two callers
are enough for a race, five calls for start, ask, answer and the retry of two of
them.  Two handlers and three requests give a retry that overlaps the original
and a second patch in between.  Three supervisions of one `work_id` give a first
attempt, a racing one and a later retry; Runs of different `work_id`s share no
row and no key, so one is enough.  The producer reports a completed procedure there: what
else it may report reaches only the reply of its own call, and the proofs allow any report.

In `release` two edits change the tree under a running command and put it back, or
change two of what it reads; two exports would interleave with nothing, since
a build takes them in turn.  In `trust` three files are a candidate, a decision and its
revocation, and two edits are one before and one after the approval.  In
`qualification` two identifiers are a receipt and, by the same draw, a second campaign or a
snapshot; that a receipt is replaced before its snapshot is derived takes a third, and is
left to the proof.  In `evaluation` two runs give an artifact of an older one to be
left behind.  In `flight` a third runner would meet the same two paths; one edit
between any two of a run's steps already parts what is validated, what is mounted
and what is receipted.  In `knowledge` four edits are: commit, read one source
again, add a claim, withdraw a record.  Keys, Sessions, handlers, callers, requests
and fresh keys that no configuration names are symmetric.

Deadlock is not checked: every run ends when its keys, calls or edits are used
up.  The bounds on counters (`MaxCalls`, `MaxEdits`, `MaxChanges`, `MaxAuthored`,
`MaxFaults`, `MaxFiles`, `MaxRuns`, `MaxTime`) appear as guards of the actions that count.

Each state machine but `ArsenalKnowledge` has a type invariant: `TypeOK`, `LedgerTypeOK` in
the ledger, and `ReleaseTypeOK`, `FlightTypeOK`, `TrustTypeOK`, `QualificationTypeOK` and
`EvaluateTypeOK` in the Arsenal.  It is proved for the ledger, the journal, the workflow,
patches, supervision, trust and qualification, and left out of the configurations, which
are kept to the properties that say more; adding it to the `INVARIANTS` of a
configuration checks it for that instance.

**What the properties say**

- `LedgerInv`: one commit per key, revisions dense, and each stored projection
  the reduction of its predecessor's; and one Session only (`AtMostOneSession`):
  whoever loses the race to start never wrote.
- `HistoryConsistent`: what no single validation says - the question, its
  answers and its envelope come and go together, and a Run is closed only when
  its operation's effect is settled.
- `WaitingLeftOnlyByAnswer`, `OpenOperationExclusive`, `SettledStays`: what a
  step may never do.  The transition table alone would allow each of them; the
  validations forbid it.
- `ReplayReproducesHead`, `TamperIsEvident`: an unaltered Session replays to its
  head whatever happened to the cache; an altered one does not replay at all.
  `RetryIsFaithful`: a retry is answered of its own Session; a start, a resume or a
  cancel with the original result or an error, whatever happened to the stored one; a
  decision with the original result or an error unless its stored result was altered
  and its digest recomputed (section 6).
  `RestartIsConservative`: what is reported after a restart is what observing
  the operation as unknown would have recorded.
  `ImplementsLedger`: the refinement.
- `AnswersAreCommitted`, `TransitionRetriesReturnOriginal`,
  `AdvertisedIsExecutable`, `AnswerBindsContext`: of Workflow.  The last one
  holds although the context is compared only when the Session is loaded: a
  caller submits a revision it has observed, the append requires that revision
  to be current, and the question cannot change without a new one.
- `IntentPrecedesEffect`, `DiskFollowsJournal`, `OkReplyIsSettled`: of
  PatchApply.  The intent that precedes an effect is the request's own where its digest
  is truthful, and otherwise that of the request it is taken for.  `DiskFollowsJournal`
  excludes behaviours in which an operation was executed a second time, or another one
  under its intent; section 6 says why it has to.  No property covers that hazard.
- `RunsBindRequests`, `FactsAreReachable`, `CompletedIsEvidenced`,
  `InspectionAdvances`: of Supervision.  One Run per `work_id` and its decisions
  those its request asked for; one observation per Run, and evidence that names
  only linked artifacts; nobody is told `completed` without linked evidence that
  was granted; and inspection only moves on, from incomplete over unknown and
  completed to blocked, whatever is retried.

- `VerifiedReceiptsReproduce`: a candidate receipt that verify accepts is the one
  its suite would give the package now, although package and tree may have been
  edited between two cases and before the receipt was bound.
  `UndisturbedBuildVerifies`: with nothing edited in between, the stepwise build
  leaves what the dry build produces.  `QualifiedIsUnreachable`: no receipt says
  qualified, since what that needs is not executed in v0.  `LockPreflightIsCurrent`:
  a READY from the lock is about capabilities as they are now, and after an
  undisturbed build the lock and the tree give the same answer.
- `AuthorizedWithinAuthority`, `AuthorizedAskedForNothingElse`: what verify
  authorizes stays within the capability and the policy of today, and the package of
  today asks for nothing the review did not list, its unknown tools included.
- `SelectionRestsOnCampaign`: the receipt, the event and the snapshot are three
  files replaced one by one; a selection by a snapshot that was derived is still backed by
  a campaign of the same role in which no execution failed, within the window.  Of a
  profile made elsewhere it does not say the role, and of a snapshot made elsewhere
  nothing: the selector believes both.
  `SelectionIgnoresProfileOrder`: the tie-break is one.  The order of snapshots does
  matter (section 6).
- `SuccessesWereObserved`: a success was stated by the procedure the artifact
  names, for that case, in that run.  `ValidatesAsEmitted`: `validate` passes an
  artifact as it was written and no other.  `RevisedRecordIsAdmissible`: a
  record that was written whole passes the record validator.  `EvaluationEnds`: liveness.
- `SelectionIsLowestSufficient`: the five narrowings of the selector, in their order,
  against a definition that has no order.  `VerifiedReceiptObserved`: some container
  really saw red fail and green pass on what the receipt pins, whichever of two runs
  wrote the raw file.  `VerifiedRecordReproduces`: recording the source again gives
  an equal record, if the capability and the grants are what they were and the source
  held still while it was read; the three exceptions are what verify does not
  look at.
- `AuthorizedIsEarned`: stated over sources, commits and ranks, not over the
  verdicts of `Resolve`, and over a record of the queried subject, owner, scope and plan.  `StrictValidationChains`: in a snapshot without findings, a subject that a source
  read at this commit calls accepted is said to be verified, implemented and
  authorized, and nothing else, by the sources read at this commit.  `ContextIsLeastClosure`, `CompileEnds`:
  the loop that grows the set it iterates on is right and stops.

**Fairness.**  None is assumed in the modules of Kiln, in `ArsenalRelease`,
`ArsenalTrust`, `ArsenalQualification` and `ArsenalFlight`: callers may crash anywhere, the
store may refuse, a campaign may be killed, the Dagger subprocess has no timeout,
and a behaviour may stop at any point.  Their properties are safety properties, so
this is the strongest setting for them.

Two specifications state weak fairness.  `ArsenalEvaluate`: `WF_evaluateVars(Step)`, the
evaluator is one process the operating system schedules, and `LoadoutTimesOut` is one
of its steps because `subprocess.run` is given `timeout=60`; that Loadout answers,
that a write succeeds and that the user starts another evaluation is not
promised.  `ArsenalKnowledge`: `WF_knowledgeVars(Compiling)`, a loop of one process without
input or output; the authors' edits are not promised, and cannot delay it, because
`compile` never reads the file again.

## 4. Proofs

`SessionLedger_proofs` proves, for **any** sets of Sessions, keys, requests,
operations, decisions, answers and contexts (assuming only that `None` is
not an identifier and that revisions and criteria revisions are naturals):

- `LedgerInvariant`: `LedgerSpec => []IInv`, and from it `LedgerTypeCorrect`,
  `LedgerHistory`, `LedgerSingleSession`, `LedgerConsistent`;
- `LedgerWaiting`, `LedgerOperation`, `LedgerSettled`: the three action
  properties.

The inductive invariant `IInv` has the type invariant, the three parts of
`LedgerInv`, `HistoryConsistent`, and the single Session.  None of them stands
alone.  A step is taken from `head`, and says nothing of the history unless
`HeadIsLast` ties the two together.  That a new revision is not yet taken needs
`DenseRevisions`.  `Valid`, which the code checks, is not preserved on its own:
a closed Run with an unsettled operation satisfies it, and an envelope left
behind satisfies it; `Consistent` is the strengthening that is preserved
(`ReductionConsistent`), given that it held before.  `AtMostOneSession` is
inductive because a first commit of a Session can only be a start
(`OnlyStartOnAbsent`), which requires an empty history.

The layout: lemmas about one reduction of one projection (`ApplyType`,
`ReductionConsistent`, `WaitingStep`, `OpenStep`, `SettledStep`), one step per
entry type; then `Step`, which names the commit a ledger step makes; then
`AppendsInv`, with one step per conjunct of the invariant, and `AppendPromises`, with one per
action property; then the temporal theorems.

`SessionJournal_proofs` proves the same of the tables, for **any** Sessions, keys,
requests and number of faults: `JournalInvariant`, then `JournalReplay`, `JournalTamper`,
`JournalRetry`, `JournalRestart`, and the refinement `JournalRefinesLedger`.  The
acknowledged commits satisfy the ledger's invariant (`LP!IInv`, by instance of
`SessionLedger_proofs`), and `JInv` ties the tables to them: as long as nothing was
altered every commit owns the row and the action its transaction wrote, and there are
no others (`Untouched`); afterwards the altered Session is blocked for good
(`Blocked`), because either one of its batches is unsound by itself or replay arrives at
the altered place with everything before it intact (`StopsAt`).  The second case is why the
properties are not inductive: that a replay *fails* says nothing of where, and the next
append, or a fault of the cache, has to leave that place as it is.  `JournalRetry` needs of
the stored results only that those not in `forged` are the acknowledged ones and that every
row keeps its Session; what a forged start, resume or cancel may say is settled by the
rebuild, and a forged decision is answered as it stands.  `Sequenced` relates
sequence, action and revision, which the code advances in three different statements.

`Replay` is a recursive function and what it gives at each sequence is proved, not
assumed.  No induction theorem of the library can be used, since those take an operator
as a parameter; a set can be passed instead.  `Least` (a set of naturals has a least
element, from the well-foundedness of naturals) gives `SetInduction`: a set that holds 0
and, with each of its elements, the next, holds every natural.  With the set of the
naturals up to which a recursion is defined and right, this proves the defining equation of
`Replay`, the least claim of `ArsenalKnowledge` and the fold of `ArsenalCompile`.

`Workflow_proofs` proves, for **any** callers, submissions and number of calls:
`WorkflowInvariant`, `WorkflowTypeCorrect`, `WorkflowAnswers`, `WorkflowRetries`,
`WorkflowAdvertised`, `WorkflowAnswerContext`, `WorkflowKeepsPromises`,
`WorkflowRefinesLedger`.  Each property speaks of a reply or of an
append, and what it needs was read transactions before.  `WInv` says, caller by caller,
which of it is still true: `Asked`, the request has passed its checks and its revision
was reached; `Current`, the projection loaded is the head *if* the revision
expected is the present one, and only then will the append be taken; `Committed` and
`Retried`, what an answer repeats is a commit, and stays one.  A step of anybody else is
one commit or nothing (`Moves`), and lemmas of the ledger say what a commit leaves as it
was.  `WorkflowAdvertised` needs the ledger's `Consistent`: the projections that are merely
valid include some for which an advertised operation would be refused.

`PatchApply_proofs` proves, for **any** handlers, patches, files, calls and edits:
`PatchInvariant`, `PatchTypeCorrect`, `PatchIntent`, `PatchReply`, `PatchDisk`,
`PatchKeepsPromises`, `PatchRefinesLedger`.  `PInv` rests on
three facts.  An intent that no later entry about an operation follows is the last commit
of its Session (`LatestIsHead`): an open operation shuts out every entry but its
observation, so "in flight" may be read off the head.  Until an operation is executed a
second time, one handler at most works on the repository, and what it works on is in
flight (`OneWorks`): the intent was committed by it, or it has begun to write.  Each file
outside the patch in flight is what the journal accounts for (`RestAccounted`), and within
it the last operation done on each file is on disk (`Applied`), so that when the patch is
recorded as succeeded the account moves to where the files are.  A handler past its first
commit is `Intended`: the journal holds an intent it is taken for, and for a truthful
request that one is its own (`TruthfulIsIntent`).  Three hypotheses are in
the property and in the invariant (`Clean`, `Quiet`): no edit by the user, no operation run
twice or under the intent of another, no effect left unknown (a repository left partly written keeps its operation unsettled).  Section 5
and section 6 say why the first two are needed.

`WorkflowRefinesLedger` and `PatchRefinesLedger` close the composition: `Spec => LedgerSpec`,
so the module the tables implement is also the one its clients keep to.  They assume
`Revisions = Nat`, that is, that callers of the ledger may expect any revision, as
the code lets them; with fewer, a client that appends at the current revision may take a step
that `LedgerNext` does not list.  `WorkflowKeepsPromises` and `PatchKeepsPromises` state the
three action properties of the ledger for the two clients without that assumption;
both, like the ledger's own theorems, rest on what one append may do to a Session
(`AppendPromises`).

`Supervision_proofs` proves, for **any** processes, envelopes, completions and
bounds:

- `SupervisionInvariant`: `Spec => []IInv`;
- `SupervisionRuns`: `RunsBindRequests`.  A `work_id` has one Run whichever
  process resolved it first, a call is answered with the Run of its own request,
  and a stored decision is about a capability that request asked for;
- `SupervisionFacts`: `FactsAreReachable`.  A Run has one observation over all its
  attempts, and evidence names linked artifacts only;
- `SupervisionCompletion`: `CompletedIsEvidenced`;
- `SupervisionInspection`: `InspectionAdvances`, an action property: no step of any process takes
  the derived status of a Run back.

None of the properties is inductive: they speak of replies and of what is stored, and
nothing in them says what a process in the middle of a call is about to store.
`IInv` adds it.  `Resolved`: from its resolution to its reply a process holds a
`run` that is bound to its own envelope; a reply and a decision then inherit the
binding.  `MineLinked`: what a process will name in its evidence is linked
already, to the Run it holds.  `Unstarted`: before the resolution, which changes
the Run a process holds, there is nothing to name.  `Unblocked` and `Recorded` say that who gets
to its evidence was granted what it asked for and has a row of evidence to link, so
that a reply `completed` leaves linked, granted evidence (`CompletedLinked`).  The uniqueness of the Run rests
on the index alone (`RunAbsent` in `Insert`), never on the read that precedes it.

Three frame lemmas carry the layout: a step moves only its own process
(`OthersStay`), nothing stored is taken back (`StoreGrows`), and a call keeps its
Run once it has resolved it (`WorkKeepsRun`); then one lemma per conjunct of
`IInv`, by the actions that can disturb it.

`ArsenalReceipts_proofs` proves of `ArsenalRelease`, for **any** trees, documents, suites, routes, exports and
number of edits:

- `QualifiedIsUnreachableHolds`.  It follows from suite validation and `Range` alone at the
  step that binds a receipt; what `ReleaseInv` adds is that the suite and the results a
  running qualification carries are a valid suite and results of its executable
  cases only, which no edit reaches.
- `UndisturbedBuildVerifiesHolds`.  The stepwise build and the dry build are two different
  programs over the same list: one takes five kinds of step per export and shares the disk
  with what was there before, the other is a fold into an empty directory.  The fold is
  unfolded into the chain `DryOf(t)` of its prefixes (`DryRecursion`, `DryIsChain`), and
  `BuildInv` (`Faithful`, `BuiltTo`) says where on the chain a build stands that nothing has
  disturbed: after k exports the rows are those of `DryOf(t)[k]` and so is every
  package, except the one being cleared or written, of which the first j files are there
  (`Written`).  That the files come out whole rests on `WriteOrderIsWhole`.  Output paths need not
  be unique: an export that takes the path of an earlier one replaces its package in both
  programs.
- `LockPreflightIsCurrentHolds`.  The first half needs only `Proceeds` and `LockedEntryMatches`,
  whatever wrote the lock (`ProceedsCovers`); the second that the rows of an undisturbed build are
  those of the documents (`ChainIsSound`, `SoundLockAnswers`).

Of `ArsenalFlight` it proves, for **any** packs, policies, runners, files and number of
changes:

- `SelectionCorrect`.  The selector narrows a list five times and stops at the first
  narrowing that leaves nothing; what is left after all five is `Usable`, a set defined
  without an order (`UsableIsAuthorized`, `Narrowing`), and the answer is an element of the
  lowest rank in it, or a refusal when it is empty (`SelectionIsLowest`).  What may be
  used needs no remote, production or secret authority, because the catalog gives none
  to what is selected automatically (`UsableIsHarmless`).  It needs no more of the behaviour than that the
  policy on disk is one somebody may have written.
- `ReceiptsWitnessed`.  A receipt is composed from whatever raw file is at the path when it
  is read, and another run may have written it.  `FlightInv` therefore speaks of
  *files*: every raw evidence, wherever it is, is one that an executed world wrote
  with red failing and green passing (`Witnessed`).  That a run was started from a known
  pack (`RunHolds`) ties the context it writes to what it mounts.
- `VerifiedRecordsReproduce`.  A flight record on disk was normalized from *some* policy, path
  and content (`Recorded`), and a hand may have edited it since (`Derived`).  The
  fingerprint tells whether it did (`FingerprintTells`), for it is taken over every field but
  two (`FingerprintTaken`).  The second recording starts from what is there now; it is well formed
  because the first one was (`WellFormedAgain`), and has the same facts (`DaggerAgain`,
  `BenchAgain`, `Reproduces`) unless the source changed while it was read (`torn`).

`ArsenalAdmission_proofs` proves of `ArsenalTrust`, for **any** vocabulary, packages, policies, capabilities
and reviews: `TrustInvariant`, `AuthorizedWithinAuthorityHolds` and `AuthorizedAskedForNothingElseHolds`.  An
authorization speaks of files that have changed since the decision was written; the
invariant says that every decision was assessed from *some* candidate, policy and
capability (`AuthorizedIsAssessed`), the comparisons of `verify_decision` say that they
are today's (`AuthorizesMeans`), and `DigestDeterminesData` carries the tools of
the candidate over to the package.

Of `ArsenalKnowledge` it proves, for **any** snapshots that are documents
(`SnapshotsAreDocuments`) and any edits: `KnowledgeInvariant`,
`ContextIsLeastClosureHolds`, `AuthorizedIsEarnedHolds` and
`StrictValidationChainsHolds`.  The invariant of the walk
says that what is selected lies in every closed set, and that what the present pass
went by is closed as long as the pass found nothing (`WalkEdge`, `WalkEnds`); a
pass that ends unchanged has then closed everything.  The second theorem rests on
`TopIsThere`, that some claim has the highest authority, which needs that ranks are
naturals (`LeastNatural`, by well-foundedness), and on `ResolveCases`, that a resolution
is none or the one value of that authority, which needs that claims are finite.  The last
goes from what sources said to what resolution makes of it and back (`SaidIsResolved`,
`ResolvedIsSaid`): a contradiction is a finding of its own, so that a value resolved without
one is the only value said.

`ArsenalEvaluation_proofs` proves of `ArsenalQualification`, for **any** roles,
implementations, policies, requirements, documents made elsewhere and lengths of the window:

- `SelectionsRest`.  `QualificationInv` follows a campaign through the three files it
  leaves.  A QUALIFIED receipt was issued for a campaign in which as many executions
  passed as there were, none included (`IssuedHold`); the receipt in a directory is one
  that was issued, though the event beside it may belong to another (`OutHolds`); a snapshot kept its verdict, its
  role and its window from an issued receipt (`Rests`, `SnapshotsHold`), *not* from the
  profile, which may have been materialized again in between; and a profile's digest is
  one of its role's (`ProfilesHold`, `ShelfHolds`), which joins a snapshot to the profile
  it is matched with (`DigestTellsRole`, `QualifiedRests`).
- `SelectionsIgnoreOrder`.  The candidate that sorts first is the same whichever order the
  profiles are named in, since digests have a place each (`DigestsHavePlaces`,
  `OneIsChosen`).  Two profiles with one digest are the same profile to the selection.
- `QualificationTyped`: `QualificationTypeOK`; the profiles and snapshots the commands write pass the
  validators they are read with (`ProfilesAreValid`, `SnapshotsAreValid`).

Of `ArsenalEvaluate` it proves, for **any** disks, case directories, answers, command
lines and numbers of edits and runs:

- `SuccessesObserved`.  `EvaluateInv` goes case by case: the results a run has so far are those
  of what was said in it (`BornOut` in `RunHolds`), and the artifact keeps them
  (`EmittedHolds`) with the cases as they were when it was judged, whatever is edited
  later.  Then the three adapters are inverted: which observation a finding of the internal procedure
  (`ReconFindings`), of the shell procedure, or of the translation of Loadout's
  anchors (`LoadoutFindings`) stands for, so that a matched finding is something seen or
  something looked for and missing (`BornOutObserves`).
- `ValidatesOriginal`.  Hand edits keep the digest that is written in the artifact
  (`ArtifactHolds`); a body with that digest is the body emitted (`OnlyTheOriginalPasses`).
- `RevisedAdmissible`.  A revised record is a record of some artifact (`RevisedHolds`), and any such
  record passes each rule of the record validator (`RevisedIsAdmissible`); its digest is
  the one the validator takes, because the seal is no part of what it is taken of
  (`SealIsNoPart`).

**Assumptions on constants.**  Each is in the module that declares the constant and TLC
evaluates it for the instance it checks.

| Assumption | What the code has for it |
|---|---|
| `ExpectedAreNaturals` (SessionJournal) | `Kiln.Domain.Action` takes non-negative integers only (`validate_revision`) |
| `SubmissionsAreNormalized` (Workflow) | a call that reaches the store has passed `normalize_*_opts`: its fields are there, and a question permits at least one response |
| `PatchAppendsAreRequests` (Workflow), `WorkflowAppendsAreRequests` (PatchApply) | what the other module's callers commit is a request under a key, like any other |
| `PatchesAreRequests` (PatchApply) | the required parameters of `patch.apply`; `E_PATCH_OPERATIONS_EMPTY` for a proposal without operations |
| `FreshKeysAreNew` (PatchApply) | the handler generates the key of its observation, with 128 random bits |
| `DiskIsFiles` (PatchApply) | at the start no file is half written |
| `SuitesList`, `TreesList`, `RequestsAreArguments` (ArsenalRelease) | suites, plans and documents are JSON, so what they list is a list; the command line gives every argument of preflight a value |
| `SnapshotsAreDocuments` (ArsenalKnowledge) | a snapshot is JSON: claims and records are finitely many and ranks are naturals |
| `SubstratesAreListed` (ArsenalFlight) | a catalog is JSON and lists its substrates |
| `ReceiptPathsAreFiles`, `BenchesAreReceipts` (ArsenalFlight) | the paths a manifest names are among the files of the model; `arsenal_bench` writes nothing but its receipt |
| `DigestsSort` (ArsenalQualification) | digests, those of profiles made elsewhere included, are hexadecimal texts, which the selector sorts |
| `ListsAreSequences` (ArsenalEvaluate) | a case directory is read in the order of its sorted file names; a findings file and Loadout's answer are JSON |
| `HeadsHaveBase` (Supervision) | an envelope names a base commit, which HEAD may be at |

The others say that a bound is a natural and that `None` is no identifier.

**Only model-checked**, and why:

- `EvaluationEnds` and `CompileEnds`: liveness under fairness, out of the prover's reach.
- `VerifiedReceiptsReproduce` of ArsenalRelease: a case is executed on the package as it is at that
  moment, and the receipt binds the package as it is at the end.  The edits of a package that the
  model has (a file lost, the text of the skill emptied, the manifest's version broken, a
  resource with other contents) make a case fail rather than pass; an edit
  that made a case pass which the package fails, undone before the binding, would refute the
  property.  It is therefore about which edits there are as much as about the code, and
  there is no inductive invariant for any edit whatever.
- The type invariants of ArsenalRelease, ArsenalFlight and ArsenalEvaluate as they are
  written; `KnownSuites` and `BuildBase`, `Typed`, and `DiskHolds` with `RunHolds` say what the
  proofs need of them.
- The findings of `ready_minimum` are a counterexample and have nothing to prove.

The project declares no RECURSIVE operator.

## 5. Abstractions

- A transaction of SQLite is one step (`BEGIN IMMEDIATE`, one writer); a crash
  keeps what committed.  A transaction that does not get the lock is an error to
  its caller (`StoreRefuses`, and `Crash` of a caller who never learns).
- A digest is the value it is a digest of: no collisions; the exception is the request
  digest of `PatchApply`, which is what the caller says it is.  A row is `intact` or
  not; `intact` stands for the payload and its stored digest agreeing.
- The clock, identifiers' format, JSON and logging are left out.
- `MaxFaults` is 1 in the run; the proofs allow any number, of which one alters a row or an
  action.  Cutting the last action *and* its row together leaves a
  shorter journal that is consistent in itself and that the code cannot tell
  from the truth; two coordinated alterations are beyond what the digests
  promise and beyond the model.
- In `Workflow`, `Observed` assumes that a caller submits a revision the Session
  has reached.  A caller who guesses a future revision may have its answer
  appended to a question asked after its checks ran.
- In `PatchApply` the user's edits are outside what `DiskFollowsJournal` speaks
  of: an edit between the check of a file and its write is lost, which the code
  does not claim to prevent.
- A reply may be ok although the store refused to record the observation; the
  history variable `lost` marks these behaviours and `OkReplyIsSettled` excludes
  them.

- In Arsenal, commands of `ArsenalRelease`, `ArsenalTrust` and `ArsenalQualification` run
  one at a time, as an operator or a CI job starts them; only `ArsenalFlight` runs two
  at once, because it is there that they share files by design.  A file is written
  whole, except the artifact and the revised record of an evaluation.
- Texts are members of small sets, and what no rule reads (wording, counts, limitations,
  token volumes) is left out.  Two output paths are equal or disjoint.
- A case id or a path with a forbidden authority name in it would make a
  revised record inadmissible, and the ids of `ArsenalEvaluate` hold none.

## 6. Where the documentation says otherwise

One statement is refuted by a run and listed as a finding in `PROJECT.json`.
`ready_minimum`: `arsenal/graph/CONTRACT.md:80-90` orders `draft < testing < stable` and
`unassessed < planned < candidate < qualified`; `arsenal_graph.py:24-25` numbers the
states in the order of their names.  A caller who asks for at least `candidate` is
answered READY with a capability that is `unassessed`, a `testing` capability satisfies
`stable`, and a `qualified` one fails `unassessed`.

The others were met while modelling; each is a definition or a guard of the module named,
and no run is kept for it.  `docs/ROOT-RUN-LIFECYCLE-AND-JOURNAL.md` of Kiln is marked as
a proposal, so the first and the third may be read as work not done rather than as
mistakes.

1. `SessionReducer`: the lifecycle document has a reconciliation out of
   `orphaned`; in the code an unknown operation has no successor state and
   requires its Run to be orphaned, so only a criteria revision is accepted.
2. `Workflow`: `Kiln.Workflow` promises that every mutating operation looks
   its key up first; `record_user_decision` checks the pending decision first,
   which its own first attempt cleared.
3. `PatchApply`: a retried `patch.apply` replays its intent and then writes the
   files again, over later changes or next to a handler still writing.
4. `PatchApply`: the observation `failed` is refused by the reducer (the
   operation it judges the Run against is still open) and the refusal is
   ignored, so a rejected patch leaves its operation in flight.
5. `Supervision`: `inspect_run` is documented as the way to recover the
   outcome after a process death; if the put of the observation was refused, or
   its process died before the link, a call is still answered `completed` but
   its Run has no observation and can never be inspected.
6. `ArsenalTrust`: the trust contract has verification return `REVOKED` when an explicit
   revocation supersedes the approval; `verify_decision` looks at the file it is given,
   so the superseded approval still verifies as AUTHORIZED.
7. `ArsenalRelease`: a receipt of a package the plan no longer exports, or exports under
   another path, still verifies as long as its files are there: `verify_build` compares a
   receipt with the files on disk, not with what the compiler currently produces.
8. `ArsenalQualification`: a snapshot "binds the exact Profile digest" that was
   evaluated; `cmd_snapshot` takes the profile that is on disk when it runs, which may
   be another than the receipt names.
9. `ArsenalEvaluate`: exit code `METHOD_RECORD_INVALID` is documented and unreachable; a
   record that does not validate is evaluated, and one that is missing exits `UNKNOWN`.
   The artifact names the default corpus whichever was read.

10. `SessionJournal`: `Kiln.Workflow` promises that a retry returns the original stable
   result and that a stored result which disagrees with the rebuild is "never returned as
   `{:ok, _}`" (`workflow.ex:68-79`, `1897-1902`).  That comparison is made for start, resume
   and cancel; `pending_decision_result_from_stored` and `user_decision_result_from_stored`
   (`1591-1628`) check schema, formats and Run state, so a stored decision that was altered
   together with its digest is returned as the original.
11. `ArsenalQualification`: the docstring of the selector (`selector.py:21-23`) has it
   recompute the digest of every reference and reject a mismatch; it compares digests with
   each other and recomputes none, so an edited profile or snapshot that keeps its digest
   is accepted.
12. `ArsenalQualification`: with `replications_per_case` 0 a campaign executes nothing
   and its receipt says QUALIFIED, `all([])` being true
   (`arsenal_m0_qualification.py:391-394,470`).
13. `PatchApply`: `request_digest` is a parameter of `patch.apply` that nothing compares
   with the request (`patch.ex:64-109,456-473`).  Another request under the same key and
   digest is answered with the first one's intent and its own operations are applied;
   `operation_observed` then reports them under the operation the intent announced,
   if the two carry the same identifier.
14. `ArsenalTrust`: a manifest names the capability and the asset it was compiled from, and
   `compiler_manifest_status` compares with whatever file it names
   (`arsenal_trust.py:145-155`): a package compiled from one capability is
   `compiler-manifest-verified` when it is assessed for another.

Smaller ones:

- The tests of the selector promise the same selection for any "incidental ordering of
  profiles / eligibility snapshots" (`test_selector.py:492-495`); of two snapshots of one
  profile the last one named is taken (`selector.py:492-494`).
- `arsenal_evaluate.py:56` says the script never returns 1; an exception that is not
  caught (`Uncaught`) does.
- A supervision half granted and half denied is answered `completed`, since one request was
  granted (`supervision.ex:500-501`), and inspected as `blocked`, since one was denied
  (`1098-1104`).

- The lifecycle document and the transition table let a waiting Run be canceled;
  the projection validation always rejects the entry (this is what
  `WaitingLeftOnlyByAnswer` shows).
- A retry of `record_pending_decision` returns the original result under a fresh
   action identifier.
- `workflow.ex:49` says every return is a tagged tuple; a call on an unknown
  Session raises (`Raised`).
- A patch whose files are already at their target is refused as a preimage
  mismatch, so a retry after a crash between the last write and the observation
  ends as `failed`, which (4) cannot record.
- A Run whose producer reported `failed` is answered `failed` and inspected as
  `completed`; one refused for asking more than `git.read` is answered `blocked`
  and cannot be inspected, since no observation is stored for it.
- A Run denied once (the repository had moved) stays `blocked` to inspection even
  when a later attempt is granted, records evidence and is answered `completed`.

## 7. Plan

In order; what exists is marked.

1. `SessionReducer`, `SessionLedger`, the ledger theorems - done.
2. `SessionJournal` and its refinement - done, proved.
3. `Workflow`, `PatchApply` - done, proved.
4. `Supervision` - done, proved.
5. The Arsenal: release, trust, qualification, evaluation, execution worlds and flight
   records, knowledge - done, proved, except what section 4 names.
6. Change verification, `ArtifactStore` and `EvidenceStore`: the supervision protocol with
   commands in between; stage, verify, rename, insert with crashes between them.
7. `Activity` composed with `TemperLive`: registration, notification, reconnect,
   resync; a client eventually catches up under weak fairness of delivery and timers.
8. Proofs: `VerifiedReceiptsReproduce` under an assumption on what an edit may do to
   a case; it is the one safety property of a passing run that no theorem states.

**Not modelled**, and why: the artifact and evidence stores, change verification, the
activity hub and the Temper client wait for steps 6 and 7; the hazards they have are in
`PROJECT.json`.  The router, daemon, command line, migrations, and the builders of
proposals and reviews keep no state of their own between two steps.  Arsenal's linters
(source model, registry, governance, audits) and Loadout read a tree once and print.  Test
programs are read as statements about the code.

## 8. Running it

```
tlc -workers 2 -config MCSessionLedger.cfg MCSessionLedger
tlc -workers 2 -config MCArsenalTrust.cfg MCArsenalTrust
tlc -workers 2 -config ReadyMinimum.cfg MCArsenalRelease
tlapm SessionLedger_proofs.tla
tlapm SessionJournal_proofs.tla
tlapm Workflow_proofs.tla
tlapm PatchApply_proofs.tla
tlapm Supervision_proofs.tla
tlapm ArsenalReceipts_proofs.tla
tlapm ArsenalAdmission_proofs.tla
tlapm ArsenalEvaluation_proofs.tla
```

Each run of `PROJECT.json` names its module and configuration the same way.  The
operators marked as mutants in the modules are plausible mistakes in the
definition they precede; replacing the definition by its mutant makes the
property named in `PROJECT.json` fail, which shows that the property depends on
that piece of the code.
