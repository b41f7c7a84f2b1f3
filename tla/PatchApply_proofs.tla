-------------------------- MODULE PatchApply_proofs --------------------------
(***************************************************************************)
(* What patch.apply keeps, for any set of handlers, patches and files and  *)
(* any number of calls, crashes and edits.  Three facts carry the proofs:  *)
(* an intent with no later entry about an operation is the last commit of  *)
(* its Session; as long as no operation was executed a second time, one    *)
(* handler at most works on the repository, and what it works on is in     *)
(* flight; and outside the files of the patch in flight the repository is  *)
(* what the journal accounts for.                                          *)
(***************************************************************************)
EXTENDS PatchApply, SessionLedger_proofs

-----------------------------------------------------------------------------
(* The inductive invariant.                                                *)

\* Every commit is one of this module's, and an intent stands at the revision its
\* patch expected.
CommitKnown(c) ==
    /\ c.entry.type \in {"session_started", "run_transitioned"} \cup OperationEntries
    /\ c.request \in Patches <=> c.entry.type \in OperationEntries
    /\ c.request \in Patches => c.session = c.request.session
    /\ c.request \notin Patches => c.request.digest \in WorkflowAppends
    /\ c.entry.type = "operation_observed" => c.key \in FreshKeys
    /\ c.entry.type = "operation_intent_recorded" =>
          IsIntent(c, c.request) /\ c.revision = c.request.expected + 1

\* An intent that no entry about an operation follows is the last commit.
LatestIsHead(c) ==
    c.entry.type = "operation_intent_recorded" /\ Latest(c) =>
        /\ c.revision = revision[c.session]
        /\ head[c.session].opState \in OpenOps /\ head[c.session].opId = c.entry.op

JournalInv == \A c \in commits : CommitKnown(c) /\ LatestIsHead(c)

Past == {"check", "write", "fill", "verify", "observe"}

\* The journal holds an intent this request may act on: its own, unless other requests
\* share its key and its digest.
Intended(p) ==
    \E c \in commits : TakenFor(c, p) /\ (Truthful(p) => IsIntent(c, p))

HandlerOK(h) ==
    /\ pc[h] \in Past \/ reply[h] = "ok" => Intended(job[h])
    /\ pc[h] = "observe" => verdict[h] \in {"succeeded", "failed", "unknown"}
    /\ reply[h] = "ok" /\ ~lost => ~InFlight(job[h])

\* A handler that committed its intent, or has begun to change files.
Owner(h) == pc[h] \in Past /\ ~replayed[h]

Engaged(h) ==
    \/ pc[h] \in {"fill", "verify"}
    \/ pc[h] = "write" /\ step[h] > 1
    \/ pc[h] = "observe" /\ verdict[h] = "succeeded"

Working(h) == Owner(h) \/ Engaged(h)

\* Of the operations done, the last on each file is in the repository; a file that
\* is being written is not looked at.
DoneUpTo(h) ==
    IF pc[h] \in {"verify", "observe"} THEN Len(job[h].operations) ELSE step[h] - 1

ReachedUpTo(h) == IF pc[h] = "fill" THEN step[h] ELSE DoneUpTo(h)

Applied(h) ==
    LET ops == job[h].operations IN
    \A i \in 1 .. DoneUpTo(h) :
        (\A j \in 1 .. ReachedUpTo(h) : ops[j].path = ops[i].path => j <= i) =>
            disk[ops[i].path] = ops[i].after

Clean == edits = 0 /\ ~repeated /\ \A s \in Sessions : head[s].opState # "unknown"

OneWorks ==
    /\ \A h \in Handlers : Working(h) => InFlight(job[h])
    /\ \A g, h \in Handlers : Working(g) /\ Working(h) => g = h

RestAccounted ==
    \A f \in Files : (\A p \in Patches : InFlight(p) => OperationsOn(p, f) = {}) =>
                         disk[f] = Accounted(f)

DiskInv == Clean => /\ OneWorks /\ RestAccounted
                    /\ \A h \in Handlers : Engaged(h) => Applied(h)

PInv == IInv /\ TypeOK /\ JournalInv /\ (\A h \in Handlers : HandlerOK(h)) /\ DiskInv

-----------------------------------------------------------------------------
(* Patches and their operations.                                           *)

LEMMA PatchTyped ==
    ASSUME NEW p \in Patches
    PROVE  /\ p \in Requests /\ p.key \in Keys /\ p.session \in Sessions /\ p.op \in OpIds
           /\ p.expected \in Nat /\ p.key \notin FreshKeys
           /\ p.operations \in Seq(Operations) /\ p.operations # <<>>
           /\ Len(p.operations) \in Nat \ {0}
           /\ DOMAIN p.operations = 1 .. Len(p.operations)
           /\ \A i \in 1 .. Len(p.operations) :
                 /\ p.operations[i].path \in Files
                 /\ p.operations[i].after \in Bytes \cup {NoFile}
           /\ IntentEntry(p) \in Entries /\ IntentEntry(p).type = "operation_intent_recorded"
           /\ IntentEntry(p).op = p.op
<1>1. p \in PatchRequests
  BY PatchesAreRequests
<1>2. /\ p \in Requests /\ p.key \in Keys /\ p.session \in Sessions /\ p.op \in OpIds
      /\ p.expected \in Nat /\ p.operations \in Seq(Operations) /\ p.operations # <<>>
  BY <1>1, RevisionsAreNaturals DEF PatchRequests
<1>3. /\ Len(p.operations) \in Nat \ {0} /\ DOMAIN p.operations = 1 .. Len(p.operations)
      /\ \A i \in 1 .. Len(p.operations) : p.operations[i] \in Operations
  BY <1>2
<1>4. p.key \notin FreshKeys
  BY FreshKeysAreNew
<1>5. IntentEntry(p) \in Entries /\ IntentEntry(p).type = "operation_intent_recorded"
      /\ IntentEntry(p).op = p.op
  BY <1>2 DEF IntentEntry, Entries
<1> QED BY <1>2, <1>3, <1>4, <1>5 DEF Operations

LEMMA WorkflowIsNoPatch ==
    ASSUME NEW type
    PROVE  WorkflowRequest(type) \notin Patches
<1> SUFFICES ASSUME WorkflowRequest(type) \in PatchRequests PROVE FALSE
  BY PatchesAreRequests
<1>1. DOMAIN WorkflowRequest(type) = {"op", "digest"}
  BY DEF WorkflowRequest
<1>2. "key" \in DOMAIN WorkflowRequest(type)
  BY DEF PatchRequests
<1> QED BY <1>1, <1>2

\* The operation of a patch on a file that is last.
LEMMA LastOperation ==
    ASSUME NEW p \in Patches, NEW f, OperationsOn(p, f) # {}
    PROVE  \E i \in OperationsOn(p, f) :
              /\ i \in 1 .. Len(p.operations) /\ p.operations[i].path = f
              /\ \A j \in OperationsOn(p, f) : j <= i
              /\ (CHOOSE x \in OperationsOn(p, f) : \A j \in OperationsOn(p, f) : j <= x) = i
<1>1. OperationsOn(p, f) \in SUBSET (1 .. Len(p.operations)) /\ Len(p.operations) \in Nat
  BY PatchTyped DEF OperationsOn
<1>2. OperationsOn(p, f) \in SUBSET (0 .. Len(p.operations))
  BY <1>1
<1>3. PICK i \in OperationsOn(p, f) : \A j \in OperationsOn(p, f) : j <= i
  BY <1>1, <1>2, Greatest
<1>4. i \in 1 .. Len(p.operations) /\ p.operations[i].path = f
  BY <1>1, <1>3 DEF OperationsOn
<1>5. \A x \in OperationsOn(p, f) : (\A j \in OperationsOn(p, f) : j <= x) => x = i
  BY <1>1, <1>3
<1> QED BY <1>3, <1>4, <1>5

-----------------------------------------------------------------------------
(* What the journal says of an operation.                                  *)

\* Two intents of one patch are one commit, and two in flight are one patch.
LEMMA FlightFacts ==
    ASSUME PInv, NEW p \in Patches, InFlight(p)
    PROVE  /\ Intended(p) /\ revision[p.session] = p.expected + 1
           /\ head[p.session].opState \in OpenOps /\ head[p.session].opId = p.op
           /\ \A q \in Patches : InFlight(q) => q = p
<1>1. PICK c \in commits : IsIntent(c, p) /\ Latest(c)
  BY DEF InFlight
<1>2. c.entry.type = "operation_intent_recorded" /\ c.entry.op = p.op /\ c.request = p
  BY <1>1, PatchTyped DEF IsIntent
<1>3. /\ c.session = p.session /\ c.revision = p.expected + 1
      /\ c.revision = revision[c.session]
      /\ head[c.session].opState \in OpenOps /\ head[c.session].opId = c.entry.op
  BY <1>1, <1>2 DEF PInv, JournalInv, CommitKnown, LatestIsHead
<1>4. ASSUME NEW q \in Patches, InFlight(q) PROVE q = p
  <2>1. PICK d \in commits : IsIntent(d, q) /\ Latest(d)
    BY <1>4 DEF InFlight
  <2>2. d.entry.type = "operation_intent_recorded" /\ d.request = q
    BY <2>1, PatchTyped DEF IsIntent
  <2>3. d.revision = revision[d.session]
    BY <2>1, <2>2 DEF PInv, JournalInv, LatestIsHead
  <2>4. d.session = c.session
    BY DEF PInv, IInv, LedgerInv, AtMostOneSession
  <2>5. d = c
    BY <1>3, <2>3, <2>4 DEF PInv, IInv, LedgerInv, DenseRevisions
  <2> QED BY <1>2, <2>2, <2>5
<1>5. Intended(p)
  BY <1>1 DEF Intended, IsIntent, TakenFor
<1> QED BY <1>2, <1>3, <1>4, <1>5

\* An open operation can only be observed, and not as a failure: the Run may not
\* become terminal over an effect that is still open.
LEMMA OpenHead ==
    ASSUME IInv, NEW s \in Sessions, NEW e \in Entries, Reducible(head[s], e),
           head[s].opState \in OpenOps
    PROVE  \/ e.type = "criteria_revised"
           \/ e.type = "operation_observed" /\ e.to # "failed"
<1>1. head[s] \in Projections /\ Consistent(head[s])
  BY HeadKnown DEF Absent, OpenOps
<1>2. e.type = "operation_observed" /\ e.to = "failed" =>
         Apply(head[s], e).run \in TerminalRuns
  BY <1>1 DEF Apply, Coordinated, Projections, TerminalRuns
<1> QED BY <1>1, <1>2, OpenStep

\* Nothing but an intent opens an operation, and an unknown effect is for good.
LEMMA UnknownHead ==
    ASSUME IInv, NEW s \in Sessions, NEW e \in Entries, Reducible(head[s], e),
           head[s].opState = "unknown"
    PROVE  e.type = "criteria_revised"
<1>1. head[s] \in Projections /\ Consistent(head[s])
  BY HeadKnown DEF Absent
<1> QED BY <1>1, SettledStep DEF Settled

\* The observation that succeeded reduces while its operation is open.
LEMMA SuccessReduces ==
    ASSUME IInv, NEW s \in Sessions, head[s].opState \in OpenOps, NEW e \in Entries,
           e.type = "operation_observed", e.op = head[s].opId, e.state = "succeeded",
           e.to = "ready"
    PROVE  Reducible(head[s], e)
<1> DEFINE p == head[s]
           q == Apply(p, e)
<1>1. /\ p \in Projections /\ Consistent(p) /\ p # Absent
  BY HeadKnown DEF Absent, OpenOps
<1>2. /\ p.run = "running" /\ p.decision = None /\ p.task = "in_progress"
      /\ p.session = "active"
  BY <1>1 DEF Consistent, Valid, DecisionCoherent, OperationCoherent, StatesCoordinated
<1>3. q = [p EXCEPT !.run = "ready", !.opState = "succeeded"]
  BY <1>1 DEF Apply, Coordinated, Projections
<1>4. Valid(q)
  BY <1>1, <1>2, <1>3
     DEF Valid, DecisionCoherent, OperationCoherent, StatesCoordinated, Projections, OpenOps
<1>5. ObservesCurrent(p, e)
  BY DEF ObservesCurrent, OpProgression, OpStates, OpenOps, ClosedOps
<1>6. MayObserve(p, "succeeded", "ready")
  BY <1>2 DEF MayObserve, MayTransition, RunTransitions, TerminalPermitted, TerminalRuns
<1> HIDE DEF q
<1> QED BY <1>1, <1>4, <1>5, <1>6 DEF Reducible, Accepts, q

\* After an append, the commits before it are earlier ones of the same Session.
LEMMA AppendFlight ==
    ASSUME IInv, NEW s \in Sessions, NEW e \in Entries, NEW d \in Commits, Appends(d, s, e)
    PROVE  /\ IInv' /\ commits' = commits \cup {d} /\ d \notin commits
           /\ \A c \in commits : c.session = s /\ c.revision < d.revision
           /\ Latest(d)'
           /\ \A c \in commits : Latest(c)' <=> Latest(c) /\ e.type \notin OperationEntries
<1>1. IInv'
  BY AppendsInv
<1>2. /\ commits' = commits \cup {d} /\ d \notin commits /\ d.session = s /\ d.entry = e
      /\ d.revision = revision[s] + 1 /\ d.revision \in Nat
  BY DEF Appends, Commits
<1>3. ASSUME NEW c \in commits PROVE c.session = s /\ c.revision < d.revision
  <2>1. c.session = s
    BY <1>1, <1>2 DEF IInv, LedgerInv, AtMostOneSession
  <2>2. c.revision \in 0 .. revision[s] /\ revision[s] \in Nat \cup {NoRevision}
    BY <2>1 DEF IInv, LedgerInv, DenseRevisions, LedgerTypeOK
  <2> QED BY <1>2, <2>1, <2>2 DEF NoRevision
<1>4. Latest(d)'
  <2>1. \A c \in commits' : ~(c.revision > d.revision)
    BY <1>2, <1>3 DEF IInv, LedgerTypeOK, Commits
  <2> QED BY <2>1 DEF Latest
<1>5. ASSUME NEW c \in commits
      PROVE  Latest(c)' <=> Latest(c) /\ e.type \notin OperationEntries
  <2>1. d.session = c.session /\ d.revision > c.revision
    BY <1>2, <1>3 DEF IInv, LedgerTypeOK, Commits
  <2> QED BY <1>2, <2>1 DEF Latest
<1> QED BY <1>1, <1>2, <1>3, <1>4, <1>5

LEMMA AppendIntents ==
    ASSUME PInv, NEW s \in Sessions, NEW e \in Entries, NEW d \in Commits, Appends(d, s, e),
           NEW p
    PROVE  /\ Intended(p) => Intended(p)'
           /\ Intended(p) /\ InFlight(p)' => InFlight(p)
           /\ e.type \notin OperationEntries => (InFlight(p)' <=> InFlight(p))
           /\ e.type = "operation_observed" /\ d.key # p.key => ~InFlight(p)'
           /\ IsIntent(d, p) => InFlight(p)'
<1>1. /\ commits' = commits \cup {d} /\ Latest(d)'
      /\ \A c \in commits : Latest(c)' <=> Latest(c) /\ e.type \notin OperationEntries
  BY AppendFlight DEF PInv
<1>2. Intended(p) => Intended(p)'
  BY <1>1 DEF Intended
<1>3. ASSUME Intended(p), InFlight(p)' PROVE InFlight(p)
  <2>1. PICK c \in commits' : IsIntent(c, p) /\ Latest(c)'
    BY <1>3 DEF InFlight
  <2>2. d.key # p.key
    BY <1>3 DEF Intended, TakenFor, Appends, KeyUnused
  <2>3. c \in commits /\ Latest(c)
    BY <1>1, <2>1, <2>2 DEF IsIntent
  <2> QED BY <2>1, <2>3 DEF InFlight
<1>4. ASSUME e.type \notin OperationEntries PROVE InFlight(p)' <=> InFlight(p)
  <2>1. ~IsIntent(d, p)
    BY <1>4 DEF IsIntent, IntentEntry, OperationEntries, Appends
  <2>2. ASSUME InFlight(p)' PROVE InFlight(p)
    <3>1. PICK c \in commits' : IsIntent(c, p) /\ Latest(c)'
      BY <2>2 DEF InFlight
    <3>2. c \in commits /\ Latest(c)
      BY <1>1, <2>1, <3>1
    <3> QED BY <3>1, <3>2 DEF InFlight
  <2>3. ASSUME InFlight(p) PROVE InFlight(p)'
    <3>1. PICK c \in commits : IsIntent(c, p) /\ Latest(c)
      BY <2>3 DEF InFlight
    <3>2. c \in commits' /\ Latest(c)'
      BY <1>1, <1>4, <3>1
    <3> QED BY <3>1, <3>2 DEF InFlight
  <2> QED BY <2>2, <2>3
<1>5. ASSUME e.type = "operation_observed", d.key # p.key PROVE ~InFlight(p)'
  <2>1. \A c \in commits : ~Latest(c)'
    BY <1>1, <1>5 DEF OperationEntries
  <2> QED BY <1>1, <1>5, <2>1 DEF InFlight, IsIntent
<1>6. IsIntent(d, p) => InFlight(p)'
  BY <1>1 DEF InFlight
<1> QED BY <1>2, <1>3, <1>4, <1>5, <1>6

LEMMA AppendJournal ==
    ASSUME PInv, NEW s \in Sessions, NEW e \in Entries, NEW d \in Commits, Appends(d, s, e),
           CommitKnown(d)
    PROVE  JournalInv'
<1>1. /\ commits' = commits \cup {d} /\ d.session = s /\ d.entry = e
      /\ Reducible(head[s], e)
      /\ head' = [head EXCEPT ![s] = Apply(head[s], e)]
      /\ revision' = [revision EXCEPT ![s] = d.revision]
  BY DEF Appends
<1>2. /\ head \in [Sessions -> Projections] /\ revision \in [Sessions -> Nat \cup {NoRevision}]
  BY DEF PInv, IInv, LedgerTypeOK
<1>3. ASSUME NEW c \in commits PROVE CommitKnown(c)' /\ LatestIsHead(c)'
  <2>1. CommitKnown(c) /\ LatestIsHead(c)
    BY DEF PInv, JournalInv
  <2>2. CommitKnown(c)'
    BY <2>1 DEF CommitKnown
  <2>3. ASSUME c.entry.type = "operation_intent_recorded", Latest(c)' PROVE FALSE
    <3>1. c.session = s /\ Latest(c) /\ e.type \notin OperationEntries
      BY <2>3, AppendFlight DEF PInv
    <3>2. head[s].opState \in OpenOps
      BY <2>1, <2>3, <3>1 DEF LatestIsHead
    <3>3. e.type \in {"session_started", "run_transitioned"}
      BY <1>1, <3>1 DEF CommitKnown
    <3> QED BY <1>1, <3>1, <3>2, <3>3, OpenHead DEF PInv
  <2> QED BY <2>2, <2>3 DEF LatestIsHead
<1>4. CommitKnown(d)'
  BY DEF CommitKnown
<1>5. LatestIsHead(d)'
  <2> SUFFICES ASSUME e.type = "operation_intent_recorded"
               PROVE  /\ d.revision = revision'[s]
                      /\ head'[s].opState \in OpenOps /\ head'[s].opId = e.op
    BY <1>1 DEF LatestIsHead
  <2>1. head'[s] = Apply(head[s], e) /\ revision'[s] = d.revision
    BY <1>1, <1>2
  <2> QED BY <1>2, <2>1 DEF Apply, Projections, OpenOps
<1> QED BY <1>1, <1>3, <1>4, <1>5 DEF JournalInv

\* A step of the ledger: none, or one append of a commit this module knows.
Moves ==
    \/ UNCHANGED ledgerVars
    \/ \E s \in Sessions, e \in Entries, d \in Commits : Appends(d, s, e) /\ CommitKnown(d)

LEMMA MovesKeep ==
    ASSUME PInv, Moves
    PROVE  /\ IInv' /\ JournalInv'
           /\ \A p : Intended(p) => Intended(p)'
           /\ \A p : Intended(p) /\ InFlight(p)' => InFlight(p)
<1>1. CASE UNCHANGED ledgerVars
  <2>1. IInv'
    BY <1>1, StutterInv DEF PInv
  <2>2. JournalInv' /\ (\A p : Intended(p)' <=> Intended(p)) /\ \A p : InFlight(p)' <=> InFlight(p)
    BY <1>1 DEF PInv, JournalInv, CommitKnown, LatestIsHead, Latest, Intended, InFlight, ledgerVars
  <2> QED BY <2>1, <2>2
<1>2. CASE \E s \in Sessions, e \in Entries, d \in Commits : Appends(d, s, e) /\ CommitKnown(d)
  <2>1. PICK s \in Sessions, e \in Entries, d \in Commits : Appends(d, s, e) /\ CommitKnown(d)
    BY <1>2
  <2> QED BY <2>1, AppendFlight, AppendIntents, AppendJournal DEF PInv
<1> QED BY <1>1, <1>2 DEF Moves

\* A handler that does not move keeps what is known of it.
LEMMA HandlerKeeps ==
    ASSUME PInv, Moves, NEW h \in Handlers, lost => lost',
           pc'[h] = pc[h], job'[h] = job[h], verdict'[h] = verdict[h], reply'[h] = reply[h]
    PROVE  HandlerOK(h)'
<1> DEFINE p == job[h]
<1>1. HandlerOK(h)
  BY DEF PInv
<1>2. /\ Intended(p) => Intended(p)'
      /\ Intended(p) /\ InFlight(p)' => InFlight(p)
  BY MovesKeep
<1>3. Intended(p)' <=> Intended(job[h])'
  BY DEF Intended
<1>4. InFlight(p)' <=> InFlight(job[h])'
  OBVIOUS
<1> QED BY <1>1, <1>2 DEF HandlerOK

-----------------------------------------------------------------------------
(* The commits of this module.                                             *)

LEMMA IntentCommits ==
    ASSUME PInv, NEW p \in Patches,
           CommitEntry(p.key, p, p.session, p.expected, IntentEntry(p))
    PROVE  \E d \in Commits : /\ Appends(d, p.session, IntentEntry(p)) /\ CommitKnown(d)
                              /\ IsIntent(d, p)
<1> DEFINE s == p.session
           e == IntentEntry(p)
<1>1. /\ p \in Requests /\ p.key \in Keys /\ s \in Sessions /\ e \in Entries
      /\ e.type = "operation_intent_recorded"
  BY PatchTyped
<1>2. PICK d \in Commits : Appends(d, s, e) /\ d.key = p.key /\ d.request = p
  BY <1>1, CommitAppends DEF PInv
<1>3. p.expected = Expectable(s) /\ Reducible(head[s], e)
  BY DEF CommitEntry
<1>4. head[s] # Absent
  BY <1>1, <1>3 DEF Reducible, Accepts
<1>5. revision[s] # NoRevision
  BY <1>1, <1>4, HeadKnown DEF PInv
<1>6. d.entry = e /\ d.session = s /\ d.revision = p.expected + 1
  BY <1>2, <1>3, <1>5 DEF Appends, Expectable
<1>7. IsIntent(d, p)
  BY <1>2, <1>6 DEF IsIntent
<1>8. CommitKnown(d)
  BY <1>1, <1>2, <1>6, <1>7 DEF CommitKnown, OperationEntries
<1> QED BY <1>2, <1>7, <1>8

LEMMA ObservationTyped ==
    ASSUME NEW h \in Handlers, job[h] \in Patches,
           verdict[h] \in {"succeeded", "failed", "unknown"}
    PROVE  /\ ObservationEntry(h) \in Entries
           /\ ObservationEntry(h).type = "operation_observed"
           /\ ObservationEntry(h).op = job[h].op
           /\ ObservationEntry(h).state = verdict[h]
           /\ ObservationEntry(h).to = RunAfter(verdict[h])
           /\ verdict[h] = "succeeded" => ObservationEntry(h).to = "ready"
           /\ verdict[h] = "failed" => ObservationEntry(h).to = "failed"
<1>1. job[h].op \in OpIds
  BY PatchTyped
<1>2. RunAfter(verdict[h]) \in RunStates
  BY DEF RunAfter, RunStates, TerminalRuns
<1>3. verdict[h] \in OpStates
  BY DEF OpStates, OpenOps, ClosedOps
<1>4. /\ verdict[h] = "succeeded" => RunAfter(verdict[h]) = "ready"
      /\ verdict[h] = "failed" => RunAfter(verdict[h]) = "failed"
  BY DEF RunAfter
<1> QED BY <1>1, <1>2, <1>3, <1>4 DEF ObservationEntry, Entries

LEMMA ObservationCommits ==
    ASSUME PInv, NEW h \in Handlers, pc[h] = "observe", NEW k \in FreshKeys,
           CommitEntry(k, job[h], job[h].session, job[h].expected + 1, ObservationEntry(h))
    PROVE  \E d \in Commits : /\ Appends(d, job[h].session, ObservationEntry(h))
                              /\ CommitKnown(d) /\ d.key = k /\ d.request = job[h]
<1> DEFINE p == job[h]
           e == ObservationEntry(h)
<1>1. p \in Patches /\ verdict[h] \in {"succeeded", "failed", "unknown"}
  BY DEF PInv, TypeOK, HandlerOK
<1>2. p \in Requests /\ p.session \in Sessions /\ k \in Keys
  BY <1>1, PatchTyped, FreshKeysAreNew
<1>3. e \in Entries /\ e.type = "operation_observed"
  BY <1>1, ObservationTyped
<1>4. PICK d \in Commits : Appends(d, p.session, e) /\ d.key = k /\ d.request = p
  BY <1>2, <1>3, CommitAppends DEF PInv
<1>5. CommitKnown(d)
  BY <1>1, <1>3, <1>4 DEF CommitKnown, Appends, OperationEntries
<1> QED BY <1>4, <1>5

\* What the calls of Kiln.Workflow append is an entry once it reduces.
LEMMA WorkflowEntryTyped ==
    ASSUME NEW s \in Sessions,
           NEW e \in {[ type |-> "session_started" ]} \cup
                     {[ type |-> "run_transitioned", from |-> head[s].run, to |-> to ] :
                          to \in {"running", "canceled"}},
           NEW k, NEW r, NEW expected, CommitEntry(k, r, s, expected, e)
    PROVE  e \in Entries /\ e.type \in {"session_started", "run_transitioned"}
<1>1. Reducible(head[s], e)
  BY DEF CommitEntry
<1>2. CASE e = [ type |-> "session_started" ]
  BY <1>2 DEF Entries
<1>3. CASE \E to \in {"running", "canceled"} :
              e = [ type |-> "run_transitioned", from |-> head[s].run, to |-> to ]
  <2>1. PICK to \in {"running", "canceled"} :
           e = [ type |-> "run_transitioned", from |-> head[s].run, to |-> to ]
    BY <1>3
  <2>2. MayTransition(head[s], to)
    BY <1>1, <2>1 DEF Reducible, Accepts
  <2>3. head[s].run \in RunStates /\ to \in RunStates
    BY <2>2 DEF MayTransition, RunTransitions, RunStates, TerminalRuns
  <2> QED BY <2>1, <2>3 DEF Entries
<1> QED BY <1>2, <1>3

LEMMA WorkflowCommits ==
    ASSUME PInv, NEW k \in WorkflowKeys, NEW s \in Sessions, WorkflowAppend(k, s)
    PROVE  \E e \in Entries, d \in Commits : /\ Appends(d, s, e) /\ CommitKnown(d)
                                             /\ e.type \notin OperationEntries
<1>1. PICK e \in {[ type |-> "session_started" ]} \cup
                 {[ type |-> "run_transitioned", from |-> head[s].run, to |-> to ] :
                      to \in {"running", "canceled"}} :
         CommitEntry(k, WorkflowRequest(e.type), s, Expectable(s), e)
  BY DEF WorkflowAppend
<1>2. e \in Entries /\ e.type \in {"session_started", "run_transitioned"}
  BY <1>1, WorkflowEntryTyped
<1>3. k \in Keys /\ WorkflowRequest(e.type) \in Requests
  BY <1>2, WorkflowAppendsAreRequests DEF WorkflowAppends
<1>4. PICK d \in Commits : Appends(d, s, e) /\ d.request = WorkflowRequest(e.type)
  BY <1>1, <1>2, <1>3, CommitAppends DEF PInv
<1>5. e.type \notin OperationEntries
  BY <1>2 DEF OperationEntries
<1>6. CommitKnown(d)
  BY <1>2, <1>4, <1>5, WorkflowIsNoPatch DEF CommitKnown, Appends, WorkflowRequest, WorkflowAppends
<1> QED BY <1>2, <1>4, <1>5, <1>6

-----------------------------------------------------------------------------
(* One step of a handler: the ledger moves by a known commit at most, and  *)
(* what a handler says of its patch stays true.                            *)

Handled == TypeOK' /\ Moves /\ \A h \in Handlers : HandlerOK(h)'

\* The variables of handler h alone change, and what is known of h is kept.
LEMMA OthersKeep ==
    ASSUME PInv, Moves, TypeOK', lost => lost', NEW h \in Handlers, HandlerOK(h)',
           \A g \in Handlers \ {h} : /\ pc'[g] = pc[g] /\ job'[g] = job[g]
                                     /\ verdict'[g] = verdict[g] /\ reply'[g] = reply[g]
    PROVE  Handled
<1>1. ASSUME NEW g \in Handlers, g # h PROVE HandlerOK(g)'
  BY <1>1, HandlerKeeps
<1> QED BY <1>1 DEF Handled

LEMMA StillMoves ==
    ASSUME PInv, UNCHANGED ledgerVars
    PROVE  /\ Moves
           /\ \A p : (Intended(p)' <=> Intended(p)) /\ (InFlight(p)' <=> InFlight(p))
BY DEF Moves, Intended, InFlight, Latest, ledgerVars

LEMMA SubmitHandled ==
    ASSUME PInv, NEW h \in Handlers, NEW p \in Patches, Submit(h, p)
    PROVE  Handled
<1>1. TypeOK'
  <2>1. TypeOK /\ Len(p.operations) \in Nat \ {0}
    BY PatchTyped DEF PInv
  <2>2. /\ step' \in [Handlers -> Nat \ {0}]
        /\ \A g \in Handlers : step'[g] <= Len(job'[g].operations)
    <3>1. step' \in [Handlers -> Nat \ {0}]
      BY <2>1 DEF TypeOK, Submit
    <3>2. ASSUME NEW g \in Handlers, g # h PROVE step'[g] <= Len(job'[g].operations)
      <4>1. step'[g] = step[g] /\ job'[g] = job[g] /\ step[g] <= Len(job[g].operations)
        BY <2>1, <3>2 DEF TypeOK, Submit
      <4> QED BY <4>1
    <3>3. step'[h] = 1 /\ job'[h] = p
      BY <2>1 DEF TypeOK, Submit
    <3> QED BY <2>1, <3>1, <3>2, <3>3
  <2>3. /\ pc' \in [Handlers -> {"idle", "intent", "check", "write", "fill", "verify", "observe"}]
        /\ job' \in [Handlers -> Patches] /\ replayed' \in [Handlers -> BOOLEAN]
        /\ verdict' \in [Handlers -> {"none", "succeeded", "failed", "unknown"}]
        /\ reply' \in [Handlers -> {"none", "ok", "error"}]
    BY <2>1 DEF TypeOK, Submit
  <2>4. calls' \in 0 .. MaxCalls
    BY <2>1, BoundsAreNaturals DEF TypeOK, Submit
  <2>5. UNCHANGED <<disk, edits, repeated, lost>>
    BY DEF Submit
  <2> QED BY <2>1, <2>2, <2>3, <2>4, <2>5 DEF TypeOK
<1>2. Moves
  BY StillMoves DEF Submit
<1>3. pc'[h] = "intent" /\ reply'[h] = "none"
  BY DEF Submit, PInv, TypeOK
<1>4. HandlerOK(h)'
  BY <1>3 DEF HandlerOK, Past
<1>5. \A g \in Handlers \ {h} : /\ pc'[g] = pc[g] /\ job'[g] = job[g]
                                /\ verdict'[g] = verdict[g] /\ reply'[g] = reply[g]
  BY DEF Submit, PInv, TypeOK
<1> QED BY <1>1, <1>2, <1>4, <1>5, OthersKeep DEF Submit

\* What a truthful request is taken for is its own intent.
LEMMA TruthfulIsIntent ==
    ASSUME PInv, NEW p \in Patches, NEW c \in commits, TakenFor(c, p), Truthful(p)
    PROVE  IsIntent(c, p)
<1>1. CommitKnown(c) /\ c.key = p.key /\ c.request.digest = p.digest
  BY DEF PInv, JournalInv, TakenFor
<1>2. c.request \in Patches
  BY <1>1 DEF CommitKnown, Truthful
<1>3. c.entry.type = "operation_intent_recorded"
  BY <1>1, <1>2, PatchTyped DEF CommitKnown, OperationEntries
<1>4. IsIntent(c, c.request)
  BY <1>1, <1>3 DEF CommitKnown
<1>5. c.request = p
  BY <1>1, <1>2, <1>4 DEF IsIntent, Truthful
<1> QED BY <1>4, <1>5

LEMMA IntentHandled ==
    ASSUME PInv, NEW h \in Handlers, Intent(h)
    PROVE  Handled
<1>0. PICK p \in Patches : p = job[h]
  BY DEF PInv, TypeOK
<1>1. job[h] = p /\ p \in Patches /\ job' = job /\ UNCHANGED <<step, verdict, disk, historyVars>>
  BY <1>0 DEF PInv, TypeOK, Intent
<1>2. reply[h] = "ok" => Intended(p) /\ (~lost => ~InFlight(p))
  BY <1>0 DEF PInv, HandlerOK
<1>3. CASE /\ CommitEntry(p.key, p, p.session, p.expected, IntentEntry(p))
           /\ pc' = [pc EXCEPT ![h] = "check"]
           /\ UNCHANGED <<replayed, reply>>
  <2>1. PICK d \in Commits : /\ Appends(d, p.session, IntentEntry(p)) /\ CommitKnown(d)
                             /\ IsIntent(d, p)
    BY <1>1, <1>3, IntentCommits
  <2>2. p.session \in Sessions /\ IntentEntry(p) \in Entries
    BY <1>1, PatchTyped
  <2>3. Moves
    BY <2>1, <2>2 DEF Moves
  <2>4. Intended(p)'
    BY <2>1 DEF Appends, Intended, IsIntent, TakenFor
  <2>5. TypeOK'
    BY <1>1, <1>3 DEF PInv, TypeOK, historyVars
  <2>6. ~Intended(p)
    BY <2>1 DEF Intended, IsIntent, TakenFor, Appends, KeyUnused
  <2>7. reply[h] # "ok"
    BY <1>2, <2>6
  <2>8. HandlerOK(h)'
    <3>1. Intended(job[h])'
      BY <1>1, <2>4 DEF Intended
    <3> QED BY <1>1, <1>3, <2>7, <3>1 DEF HandlerOK, PInv, TypeOK
  <2>9. \A g \in Handlers \ {h} : /\ pc'[g] = pc[g] /\ job'[g] = job[g]
                                  /\ verdict'[g] = verdict[g] /\ reply'[g] = reply[g]
    BY <1>1, <1>3 DEF PInv, TypeOK
  <2> QED BY <1>1, <2>3, <2>5, <2>8, <2>9, OthersKeep DEF historyVars
<1>4. CASE /\ \E c \in commits : TakenFor(c, p)
           /\ replayed' = [replayed EXCEPT ![h] = TRUE]
           /\ pc' = [pc EXCEPT ![h] = "check"]
           /\ UNCHANGED <<ledgerVars, reply>>
  <2>1. PICK c \in commits : TakenFor(c, p)
    BY <1>4
  <2>2. Truthful(p) => IsIntent(c, p)
    BY <1>1, <2>1, TruthfulIsIntent
  <2>3. Intended(p)
    BY <2>1, <2>2 DEF Intended
  <2>4. Moves /\ (Intended(p)' <=> Intended(p)) /\ (InFlight(p)' <=> InFlight(p))
    BY <1>4, StillMoves
  <2>5. TypeOK'
    BY <1>1, <1>4 DEF PInv, TypeOK, historyVars
  <2>6. HandlerOK(h)'
    BY <1>1, <1>2, <1>4, <2>3, <2>4 DEF HandlerOK, PInv, TypeOK, historyVars
  <2>7. \A g \in Handlers \ {h} : /\ pc'[g] = pc[g] /\ job'[g] = job[g]
                                  /\ verdict'[g] = verdict[g] /\ reply'[g] = reply[g]
    BY <1>1, <1>4 DEF PInv, TypeOK
  <2> QED BY <1>1, <2>4, <2>5, <2>6, <2>7, OthersKeep DEF historyVars
<1>5. CASE Refuse(h) /\ UNCHANGED <<ledgerVars, replayed>>
  <2>1. Moves
    BY <1>5, StillMoves
  <2>2. TypeOK'
    BY <1>1, <1>5 DEF PInv, TypeOK, Refuse, historyVars
  <2>3. HandlerOK(h)'
    BY <1>5 DEF HandlerOK, PInv, TypeOK, Refuse, Past
  <2>4. \A g \in Handlers \ {h} : /\ pc'[g] = pc[g] /\ job'[g] = job[g]
                                  /\ verdict'[g] = verdict[g] /\ reply'[g] = reply[g]
    BY <1>1, <1>5 DEF PInv, TypeOK, Refuse
  <2> QED BY <1>1, <2>1, <2>2, <2>3, <2>4, OthersKeep DEF historyVars
<1> QED BY <1>0, <1>3, <1>4, <1>5 DEF Intent

\* The steps between the intent and the observation: the handler stays past its
\* intent, and answers nothing.
LEMMA WorkHandled ==
    ASSUME PInv, NEW h \in Handlers, pc[h] \in Past, UNCHANGED <<ledgerVars, job, reply, lost>>,
           TypeOK', pc'[h] \in Past,
           pc'[h] = "observe" => verdict'[h] \in {"succeeded", "failed", "unknown"},
           \A g \in Handlers \ {h} : pc'[g] = pc[g] /\ verdict'[g] = verdict[g]
    PROVE  Handled
<1>1. Moves /\ (Intended(job[h])' <=> Intended(job[h])) /\ (InFlight(job[h])' <=> InFlight(job[h]))
  BY StillMoves
<1>2. HandlerOK(h)'
  BY <1>1 DEF PInv, HandlerOK
<1> QED BY <1>1, <1>2, OthersKeep

\* Where a handler goes stays within its patch.
StepTyped ==
    step \in [Handlers -> Nat \ {0}] /\ \A h \in Handlers : step[h] <= Len(job[h].operations)

LEMMA StepsTyped ==
    ASSUME TypeOK, NEW h \in Handlers, job' = job
    PROVE  /\ step' = step \/ step' = [step EXCEPT ![h] = 1] => StepTyped'
           /\ step[h] < Len(job[h].operations) /\ step' = [step EXCEPT ![h] = @ + 1] => StepTyped'
<1>1. /\ step \in [Handlers -> Nat \ {0}]
      /\ \A g \in Handlers : step[g] <= Len(job[g].operations)
  BY DEF TypeOK
<1>2. \A g \in Handlers : Len(job[g].operations) \in Nat \ {0}
  BY PatchTyped DEF TypeOK
<1>3. step' = step => StepTyped'
  BY <1>1 DEF StepTyped
<1>4. step' = [step EXCEPT ![h] = 1] => StepTyped'
  BY <1>1, <1>2 DEF StepTyped
<1>5. step[h] < Len(job[h].operations) /\ step' = [step EXCEPT ![h] = @ + 1] => StepTyped'
  BY <1>1, <1>2 DEF StepTyped
<1> QED BY <1>3, <1>4, <1>5

LEMMA WorkingHandled ==
    ASSUME PInv, NEW h \in Handlers,
           Check(h) \/ Truncate(h) \/ Fill(h) \/ Delete(h) \/ Raise(h) \/ Verify(h)
    PROVE  Handled
<1> DEFINE PCs == {"idle", "intent", "check", "write", "fill", "verify", "observe"}
<1>1. /\ job \in [Handlers -> Patches] /\ Len(job[h].operations) \in Nat \ {0}
      /\ step[h] \in 1 .. Len(job[h].operations)
      /\ disk \in [Files -> Bytes \cup {NoFile, Torn}] /\ pc \in [Handlers -> PCs]
      /\ replayed \in [Handlers -> BOOLEAN]
  BY PatchTyped DEF PInv, TypeOK
<1>2. Current(h).path \in Files /\ Current(h).after \in Bytes \cup {NoFile}
  BY <1>1, PatchTyped DEF Current
<1>3. UNCHANGED <<ledgerVars, job, replayed, reply, calls, edits, lost>>
  BY DEF Check, Truncate, Fill, Delete, Raise, Verify, historyVars
<1>4. pc[h] \in {"check", "write", "fill", "verify"}
  BY DEF Check, Truncate, Fill, Delete, Raise, Verify
<1>5. StepTyped'
  BY <1>3, StepsTyped DEF Check, Truncate, Fill, Delete, Raise, Verify, Advance, Conclude, PInv
<1>6. /\ pc' \in [Handlers -> PCs] /\ pc'[h] \in Past
      /\ \A g \in Handlers \ {h} : pc'[g] = pc[g]
  BY <1>1, <1>4 DEF Check, Truncate, Fill, Delete, Raise, Verify, Advance, Conclude, Past
<1>7. /\ verdict' \in [Handlers -> {"none", "succeeded", "failed", "unknown"}]
      /\ pc'[h] = "observe" => verdict'[h] \in {"succeeded", "failed", "unknown"}
      /\ \A g \in Handlers \ {h} : verdict'[g] = verdict[g]
  <2>1. verdict \in [Handlers -> {"none", "succeeded", "failed", "unknown"}]
    BY DEF PInv, TypeOK
  <2> QED BY <1>1, <2>1 DEF Check, Truncate, Fill, Delete, Raise, Verify, Advance, Conclude
<1>8. disk' \in [Files -> Bytes \cup {NoFile, Torn}]
  BY <1>1, <1>2 DEF Check, Truncate, Fill, Delete, Raise, Verify
<1>9. repeated' \in BOOLEAN
  BY <1>1 DEF Check, Truncate, Fill, Delete, Raise, Verify, Repeats, PInv, TypeOK, historyVars
<1>10. TypeOK'
  BY <1>3, <1>5, <1>6, <1>7, <1>8, <1>9 DEF PInv, TypeOK, StepTyped
<1> QED BY <1>3, <1>4, <1>6, <1>7, <1>10, WorkHandled DEF Past

LEMMA ObserveHandled ==
    ASSUME PInv, NEW h \in Handlers, Observe(h)
    PROVE  Handled
<1>0. PICK p \in Patches : p = job[h]
  BY DEF PInv, TypeOK
<1>1. /\ job[h] = p /\ pc[h] = "observe" /\ Reply(h)
      /\ UNCHANGED <<job, step, replayed, verdict, disk, historyVars>>
  BY <1>0 DEF Observe
<1>2. Intended(p) /\ verdict[h] \in {"succeeded", "failed", "unknown"}
  BY <1>1 DEF PInv, HandlerOK, Past
<1>3. TypeOK'
  BY <1>1 DEF PInv, TypeOK, Reply, historyVars
<1>4. /\ pc'[h] = "idle" /\ job'[h] = p
      /\ reply'[h] = "ok" => verdict[h] = "succeeded"
      /\ \A g \in Handlers \ {h} : /\ pc'[g] = pc[g] /\ job'[g] = job[g]
                                   /\ verdict'[g] = verdict[g] /\ reply'[g] = reply[g]
  BY <1>1 DEF PInv, TypeOK, Reply
<1>5. p.key \notin FreshKeys /\ p.session \in Sessions
  BY PatchTyped
<1>6. /\ ObservationEntry(h) \in Entries /\ ObservationEntry(h).type = "operation_observed"
      /\ ObservationEntry(h).op = p.op /\ ObservationEntry(h).state = verdict[h]
      /\ verdict[h] = "succeeded" => ObservationEntry(h).to = "ready"
  BY <1>1, <1>2, ObservationTyped
<1>7. Moves /\ (reply'[h] = "ok" => ~InFlight(p)')
  <2>1. CASE \E k \in FreshKeys :
                CommitEntry(k, p, p.session, p.expected + 1, ObservationEntry(h))
    <3>1. PICK k \in FreshKeys :
             CommitEntry(k, p, p.session, p.expected + 1, ObservationEntry(h))
      BY <2>1
    <3>2. PICK d \in Commits : /\ Appends(d, p.session, ObservationEntry(h))
                               /\ CommitKnown(d) /\ d.key = k
      BY <1>1, <3>1, ObservationCommits
    <3>3. Moves
      BY <1>5, <1>6, <3>2 DEF Moves
    <3>4. ~InFlight(p)'
      BY <1>5, <1>6, <3>2, AppendIntents
    <3> QED BY <3>3, <3>4
  <2>2. CASE /\ p.expected + 1 # Expectable(p.session)
                   \/ ~Reducible(head[p.session], ObservationEntry(h))
             /\ UNCHANGED ledgerVars
    <3>1. Moves /\ (InFlight(p)' <=> InFlight(p))
      BY <2>2, StillMoves
    <3>2. ASSUME verdict[h] = "succeeded" PROVE ~InFlight(p)
      <4> SUFFICES ASSUME InFlight(p) PROVE FALSE
        OBVIOUS
      <4>1. /\ revision[p.session] = p.expected + 1 /\ p.expected \in Nat
            /\ head[p.session].opState \in OpenOps /\ head[p.session].opId = p.op
        BY FlightFacts, PatchTyped
      <4>2. p.expected + 1 = Expectable(p.session)
        BY <4>1 DEF Expectable, NoRevision
      <4>3. Reducible(head[p.session], ObservationEntry(h))
        BY <1>5, <1>6, <3>2, <4>1, SuccessReduces DEF PInv
      <4> QED BY <2>2, <4>2, <4>3
    <3> QED BY <1>4, <3>1, <3>2
  <2> QED BY <1>1, <2>1, <2>2 DEF Observe
<1>8. HandlerOK(h)'
  <2>1. Intended(p)'
    BY <1>2, <1>7, MovesKeep
  <2>2. Intended(job[h])' /\ (reply'[h] = "ok" => ~InFlight(job[h])')
    BY <1>4, <1>7, <2>1 DEF Intended, InFlight
  <2> QED BY <1>4, <2>2 DEF HandlerOK
<1> QED BY <1>1, <1>3, <1>4, <1>7, <1>8, OthersKeep DEF historyVars

LEMMA RefusedHandled ==
    ASSUME PInv, NEW h \in Handlers, StoreRefuses(h)
    PROVE  Handled
<1>1. UNCHANGED <<ledgerVars, job, step, replayed, verdict, disk, calls, edits, repeated>>
  BY DEF StoreRefuses
<1>2. TypeOK'
  BY <1>1 DEF PInv, TypeOK, StoreRefuses, Refuse, Reply
<1>3. Moves /\ (Intended(job[h])' <=> Intended(job[h]))
  BY <1>1, StillMoves
<1>4. /\ \A g \in Handlers \ {h} : pc'[g] = pc[g] /\ reply'[g] = reply[g]
      /\ pc'[h] = "idle" /\ (lost => lost')
  BY DEF PInv, TypeOK, StoreRefuses, Refuse, Reply
<1>5. HandlerOK(h)'
  <2>1. CASE pc[h] = "intent"
    BY <1>4, <2>1 DEF PInv, TypeOK, HandlerOK, StoreRefuses, Refuse, Past
  <2>2. CASE pc[h] = "observe"
    BY <1>3, <1>4, <2>2 DEF PInv, HandlerOK, StoreRefuses, Past
  <2> QED BY <2>1, <2>2 DEF StoreRefuses
<1> QED BY <1>1, <1>2, <1>3, <1>4, <1>5, OthersKeep

LEMMA OutsideHandled ==
    ASSUME PInv,
           \/ Crash
           \/ \E f \in Files : Edit(f)
           \/ \E k \in WorkflowKeys, s \in Sessions : WorkflowAppend(k, s)
           \/ UNCHANGED vars
    PROVE  Handled
<1>1. CASE Crash
  <2>1. AnyPatch \in Patches
    BY PatchesAreRequests DEF AnyPatch
  <2>2. TypeOK'
    BY <1>1, <2>1, PatchTyped DEF PInv, TypeOK, Crash, historyVars
  <2>3. Moves
    BY <1>1, StillMoves DEF Crash
  <2>4. \A h \in Handlers : HandlerOK(h)'
    BY <1>1 DEF Crash, HandlerOK, Past
  <2> QED BY <2>2, <2>3, <2>4 DEF Handled
<1>2. CASE \E f \in Files : Edit(f)
  <2>1. PICK f \in Files : Edit(f)
    BY <1>2
  <2>2. TypeOK'
    BY <2>1, BoundsAreNaturals DEF PInv, TypeOK, Edit, handlerVars
  <2>3. Moves
    BY <2>1, StillMoves DEF Edit
  <2>4. \A h \in Handlers : HandlerOK(h)'
    BY <2>1, <2>3, HandlerKeeps DEF Edit, handlerVars
  <2> QED BY <2>2, <2>3, <2>4 DEF Handled
<1>3. CASE \E k \in WorkflowKeys, s \in Sessions : WorkflowAppend(k, s)
  <2>1. PICK k \in WorkflowKeys, s \in Sessions : WorkflowAppend(k, s)
    BY <1>3
  <2>2. TypeOK'
    BY <2>1 DEF PInv, TypeOK, WorkflowAppend, handlerVars, historyVars
  <2>3. Moves
    BY <2>1, WorkflowCommits DEF Moves
  <2>4. \A h \in Handlers : HandlerOK(h)'
    BY <2>1, <2>3, HandlerKeeps DEF WorkflowAppend, handlerVars, historyVars
  <2> QED BY <2>2, <2>3, <2>4 DEF Handled
<1>4. CASE UNCHANGED vars
  <2>1. TypeOK'
    BY <1>4 DEF PInv, TypeOK, vars, handlerVars, historyVars
  <2>2. Moves
    BY <1>4, StillMoves DEF vars
  <2>3. \A h \in Handlers : HandlerOK(h)'
    BY <1>4, <2>2, HandlerKeeps DEF vars, handlerVars, historyVars
  <2> QED BY <2>1, <2>2, <2>3 DEF Handled
<1> QED BY <1>1, <1>2, <1>3, <1>4

LEMMA NextHandled ==
    ASSUME PInv, [Next]_vars
    PROVE  Handled
<1>1. ASSUME NEW h \in Handlers,
             \/ \E p \in Patches : Submit(h, p)
             \/ Intent(h) \/ Check(h) \/ Truncate(h) \/ Fill(h) \/ Delete(h) \/ Raise(h)
             \/ Verify(h) \/ Observe(h) \/ StoreRefuses(h)
      PROVE  Handled
  BY <1>1, SubmitHandled, IntentHandled, WorkingHandled, ObserveHandled, RefusedHandled
<1> QED BY <1>1, OutsideHandled DEF Next

-----------------------------------------------------------------------------
(* The repository, as long as no operation is executed a second time.      *)

\* What was clean stays clean only backwards: no edit, repetition or unknown
\* effect is ever forgotten.
LEMMA CleanBefore ==
    ASSUME PInv, Moves, edits' = edits, repeated => repeated', Clean'
    PROVE  Clean
<1>1. edits = 0 /\ ~repeated /\ \A s \in Sessions : head'[s].opState # "unknown"
  BY DEF Clean
<1>2. ASSUME NEW s \in Sessions PROVE head[s].opState # "unknown"
  <2>1. CASE UNCHANGED ledgerVars
    BY <1>1, <2>1 DEF ledgerVars
  <2>2. CASE \E t \in Sessions, e \in Entries, d \in Commits : Appends(d, t, e) /\ CommitKnown(d)
    <3>1. PICK t \in Sessions, e \in Entries, d \in Commits : Appends(d, t, e) /\ CommitKnown(d)
      BY <2>2
    <3>2. e.type # "criteria_revised" /\ Reducible(head[t], e)
      BY <3>1 DEF CommitKnown, Appends, OperationEntries
    <3>3. head[t].opState # "unknown"
      BY <3>2, UnknownHead DEF PInv
    <3>4. s # t => head'[s] = head[s]
      BY <3>1 DEF Appends, PInv, IInv, LedgerTypeOK
    <3> QED BY <1>1, <3>3, <3>4
  <2> QED BY <2>1, <2>2 DEF Moves
<1> QED BY <1>1, <1>2 DEF Clean

\* The journal says of a file what it said: neither a patch in flight nor what is
\* accounted for changed.
SameJournal ==
    /\ \A p \in Patches : InFlight(p)' <=> InFlight(p)
    /\ \A f : Accounted(f)' = Accounted(f)

LEMMA StillSame ==
    ASSUME UNCHANGED ledgerVars
    PROVE  SameJournal
<1>1. commits' = commits
  BY DEF ledgerVars
<1>2. \A p \in Patches : InFlight(p)' <=> InFlight(p)
  BY <1>1 DEF InFlight, Latest
<1>3. ASSUME NEW f PROVE Accounted(f)' = Accounted(f)
  BY <1>1 DEF Accounted, SucceededOn
<1> QED BY <1>2, <1>3 DEF SameJournal

\* The journal and the repository stay, and no handler begins to work.
LEMMA DiskKeeps ==
    ASSUME PInv, SameJournal, disk' = disk, Clean' => Clean, job' \in [Handlers -> Patches],
           \A h \in Handlers : Working(h)' => Working(h) /\ job'[h] = job[h],
           \A h \in Handlers : Clean' /\ Engaged(h)' => Applied(h)'
    PROVE  DiskInv'
<1> SUFFICES ASSUME Clean' PROVE OneWorks' /\ RestAccounted'
  BY DEF DiskInv
<1>1. OneWorks /\ RestAccounted
  BY DEF PInv, DiskInv
<1>2. OneWorks'
  BY <1>1 DEF OneWorks, SameJournal
<1>3. RestAccounted'
  BY <1>1 DEF RestAccounted, SameJournal
<1> QED BY <1>2, <1>3

\* Handler h alone moved, its patch and the repository did not: what the others
\* applied is still there.
LEMMA OthersApplied ==
    ASSUME PInv, NEW h \in Handlers, NEW g \in Handlers \ {h}, disk' = disk,
           job'[g] = job[g], pc'[g] = pc[g], step'[g] = step[g], verdict'[g] = verdict[g],
           Clean, Engaged(g)'
    PROVE  Applied(g)'
<1>1. Engaged(g)
  BY DEF Engaged
<1>2. Applied(g)
  BY <1>1 DEF PInv, DiskInv
<1> QED BY <1>2 DEF Applied, DoneUpTo, ReachedUpTo

LEMMA SubmitDisk ==
    ASSUME PInv, NEW h \in Handlers, NEW p \in Patches, Submit(h, p)
    PROVE  DiskInv'
<1>1. SameJournal
  BY StillSame DEF Submit
<1>2. Clean' => Clean
  BY DEF Submit, Clean, ledgerVars
<1>3. /\ job' \in [Handlers -> Patches] /\ disk' = disk /\ pc'[h] = "intent"
      /\ \A g \in Handlers \ {h} : /\ pc'[g] = pc[g] /\ job'[g] = job[g] /\ step'[g] = step[g]
                                   /\ replayed'[g] = replayed[g] /\ verdict'[g] = verdict[g]
  BY DEF Submit, PInv, TypeOK
<1>4. \A g \in Handlers : Working(g)' => Working(g) /\ job'[g] = job[g]
  BY <1>3 DEF Working, Owner, Engaged, Past
<1>5. \A g \in Handlers : Clean' /\ Engaged(g)' => Applied(g)'
  <2>1. ~Engaged(h)'
    BY <1>3 DEF Engaged
  <2> QED BY <1>2, <1>3, <2>1, OthersApplied
<1> QED BY <1>1, <1>2, <1>3, <1>4, <1>5, DiskKeeps

\* A handler that neither writes nor commits, and becomes no worker by it.
LEMMA IdleDisk ==
    ASSUME PInv, NEW h \in Handlers,
           UNCHANGED <<ledgerVars, disk, edits, repeated>>,
           job' = job,
           \A g \in Handlers \ {h} : /\ pc'[g] = pc[g] /\ step'[g] = step[g]
                                     /\ replayed'[g] = replayed[g] /\ verdict'[g] = verdict[g],
           Working(h)' => Working(h),
           Clean /\ Engaged(h)' => Applied(h)'
    PROVE  DiskInv'
<1>1. SameJournal
  BY StillSame
<1>2. Clean' => Clean
  BY DEF Clean, ledgerVars
<1>3. \A g \in Handlers : Working(g)' => Working(g) /\ job'[g] = job[g]
  BY DEF Working, Owner, Engaged
<1>4. \A g \in Handlers : Clean' /\ Engaged(g)' => Applied(g)'
  BY <1>2, OthersApplied
<1>5. job' \in [Handlers -> Patches]
  BY DEF PInv, TypeOK
<1> QED BY <1>1, <1>2, <1>3, <1>4, <1>5, DiskKeeps

LEMMA CheckRaiseDisk ==
    ASSUME PInv, NEW h \in Handlers, Check(h) \/ Raise(h) \/ StoreRefuses(h)
    PROVE  DiskInv'
<1>1. /\ UNCHANGED <<ledgerVars, disk, edits, repeated, replayed>> /\ job' = job
      /\ \A g \in Handlers \ {h} : /\ pc'[g] = pc[g] /\ step'[g] = step[g]
                                   /\ replayed'[g] = replayed[g] /\ verdict'[g] = verdict[g]
  BY DEF Check, Raise, StoreRefuses, Refuse, Reply, Advance, Conclude, historyVars, PInv, TypeOK
<1>2. ~Engaged(h)'
  BY DEF Check, Raise, StoreRefuses, Refuse, Reply, Advance, Conclude, Engaged, PInv, TypeOK
<1>3. Owner(h)' => Owner(h)
  BY <1>1 DEF Check, Raise, StoreRefuses, Refuse, Reply, Advance, Conclude, Owner, Past, PInv, TypeOK
<1>4. Working(h)' => Working(h)
  BY <1>2, <1>3 DEF Working
<1> QED BY <1>1, <1>2, <1>4, IdleDisk

LEMMA VerifyDisk ==
    ASSUME PInv, NEW h \in Handlers, Verify(h)
    PROVE  DiskInv'
<1>1. /\ UNCHANGED <<ledgerVars, disk, edits, repeated, replayed>> /\ job' = job
      /\ \A g \in Handlers \ {h} : /\ pc'[g] = pc[g] /\ step'[g] = step[g]
                                   /\ replayed'[g] = replayed[g] /\ verdict'[g] = verdict[g]
  BY DEF Verify, Advance, Conclude, historyVars, PInv, TypeOK
<1>2. pc[h] = "verify" /\ pc'[h] \in {"verify", "observe"}
  BY DEF Verify, Advance, Conclude, PInv, TypeOK
<1>3. Engaged(h)
  BY <1>2 DEF Engaged
<1>4. Clean => Applied(h)'
  <2>1. Clean => Applied(h)
    BY <1>3 DEF PInv, DiskInv
  <2> QED BY <1>1, <1>2, <2>1 DEF Applied, DoneUpTo, ReachedUpTo
<1> QED BY <1>1, <1>3, <1>4, IdleDisk DEF Working

\* The operation a handler is at is one of its patch.
LEMMA CurrentOperation ==
    ASSUME PInv, NEW h \in Handlers
    PROVE  /\ job[h] \in Patches /\ Len(job[h].operations) \in Nat
           /\ step[h] \in 1 .. Len(job[h].operations)
           /\ Current(h).path \in Files /\ Current(h).path \in DOMAIN disk
           /\ step[h] \in OperationsOn(job[h], Current(h).path)
<1>1. /\ job[h] \in Patches /\ step[h] \in Nat \ {0} /\ step[h] <= Len(job[h].operations)
      /\ DOMAIN disk = Files
  BY DEF PInv, TypeOK
<1>2. /\ Len(job[h].operations) \in Nat
      /\ DOMAIN job[h].operations = 1 .. Len(job[h].operations)
      /\ \A i \in 1 .. Len(job[h].operations) : job[h].operations[i].path \in Files
  BY <1>1, PatchTyped
<1> QED BY <1>1, <1>2 DEF Current, OperationsOn

\* A handler that writes without repeating has its patch in flight, and is alone.
LEMMA WritesAlone ==
    ASSUME PInv, NEW h \in Handlers, Truncate(h) \/ Delete(h), Clean'
    PROVE  Clean /\ InFlight(job[h]) /\ \A g \in Handlers \ {h} : ~Working(g)
<1>1. ~repeated /\ ~Repeats(h) /\ UNCHANGED <<ledgerVars, edits>>
  BY DEF Truncate, Delete, Clean
<1>2. Clean
  BY <1>1 DEF Clean, ledgerVars
<1>3. OneWorks
  BY <1>2 DEF PInv, DiskInv
<1>4. CASE replayed[h]
  <2>1. InFlight(job[h]) /\ \A g \in Handlers \ {h} : pc[g] = "idle"
    BY <1>1, <1>4 DEF Repeats, Active
  <2> QED BY <1>2, <2>1 DEF Working, Owner, Engaged, Past
<1>5. CASE ~replayed[h]
  <2>1. Working(h)
    BY <1>5 DEF Truncate, Delete, Working, Owner, Past
  <2> QED BY <1>2, <1>3, <2>1 DEF OneWorks
<1> QED BY <1>4, <1>5 DEF PInv, TypeOK

\* Such a handler changes a file of its patch.
LEMMA WriteDisk ==
    ASSUME PInv, NEW h \in Handlers, NEW bytes, UNCHANGED ledgerVars, job' = job,
           disk' = [disk EXCEPT ![Current(h).path] = bytes],
           \A g \in Handlers \ {h} : /\ pc'[g] = pc[g] /\ step'[g] = step[g]
                                     /\ replayed'[g] = replayed[g] /\ verdict'[g] = verdict[g],
           Clean' => Clean /\ InFlight(job[h]) /\ \A g \in Handlers \ {h} : ~Working(g),
           Clean' => Applied(h)'
    PROVE  DiskInv'
<1> SUFFICES ASSUME Clean'
             PROVE  OneWorks' /\ RestAccounted' /\ \A g \in Handlers : Engaged(g)' => Applied(g)'
  BY DEF DiskInv
<1>1. SameJournal
  BY StillSame
<1>2. \A g \in Handlers : Working(g)' => g = h
  BY DEF Working, Owner, Engaged
<1>3. InFlight(job[h]) /\ job[h] \in Patches
  BY DEF PInv, TypeOK
<1>4. OneWorks'
  <2>1. InFlight(job[h])' <=> InFlight(job[h])
    BY StillMoves
  <2> QED BY <1>2, <1>3, <2>1 DEF OneWorks
<1>5. RestAccounted'
  <2> SUFFICES ASSUME NEW f \in Files,
                      \A p \in Patches : InFlight(p)' => OperationsOn(p, f) = {}
               PROVE  disk'[f] = Accounted(f)'
    BY DEF RestAccounted, OperationsOn
  <2>1. \A p \in Patches : InFlight(p) => OperationsOn(p, f) = {}
    BY <1>1 DEF SameJournal
  <2>2. disk[f] = Accounted(f)
    BY <2>1 DEF PInv, DiskInv, RestAccounted
  <2>3. f # Current(h).path
    BY <1>3, <2>1, CurrentOperation
  <2>4. disk'[f] = disk[f]
    BY <2>3
  <2> QED BY <1>1, <2>2, <2>4 DEF SameJournal
<1>6. \A g \in Handlers : Engaged(g)' => Applied(g)'
  BY <1>2 DEF Working
<1> QED BY <1>4, <1>5, <1>6

LEMMA TruncateDisk ==
    ASSUME PInv, NEW h \in Handlers, Truncate(h)
    PROVE  DiskInv'
<1> DEFINE ops == job[h].operations
<1>1. /\ UNCHANGED ledgerVars /\ job' = job /\ step' = step
      /\ pc[h] = "write" /\ pc'[h] = "fill"
      /\ disk' = [disk EXCEPT ![Current(h).path] = Torn]
      /\ \A g \in Handlers \ {h} : /\ pc'[g] = pc[g] /\ step'[g] = step[g]
                                   /\ replayed'[g] = replayed[g] /\ verdict'[g] = verdict[g]
  BY DEF Truncate, PInv, TypeOK
<1>2. Clean' => Clean /\ InFlight(job[h]) /\ \A g \in Handlers \ {h} : ~Working(g)
  BY WritesAlone
<1>3. /\ step[h] \in 1 .. Len(ops) /\ Len(ops) \in Nat
      /\ Current(h) = ops[step[h]] /\ Current(h).path \in DOMAIN disk
  BY CurrentOperation DEF Current
<1>4. ASSUME Clean' PROVE Applied(h)'
  <2>1. step[h] > 1 => Applied(h)
    BY <1>1, <1>2, <1>4 DEF Engaged, PInv, DiskInv
  <2>2. /\ DoneUpTo(h) = step[h] - 1 /\ DoneUpTo(h)' = step[h] - 1
        /\ ReachedUpTo(h) = step[h] - 1 /\ ReachedUpTo(h)' = step[h]
    BY <1>1 DEF DoneUpTo, ReachedUpTo
  <2>3. ASSUME NEW i \in 1 .. step[h] - 1,
               \A j \in 1 .. step[h] : ops[j].path = ops[i].path => j <= i
        PROVE  disk'[ops[i].path] = ops[i].after
    <3>1. ops[step[h]].path # ops[i].path
      BY <1>3, <2>3
    <3>2. \A j \in 1 .. step[h] - 1 : ops[j].path = ops[i].path => j <= i
      BY <1>3, <2>3
    <3>3. disk[ops[i].path] = ops[i].after
      BY <1>3, <2>1, <2>2, <3>2 DEF Applied
    <3> QED BY <1>1, <1>3, <3>1, <3>3
  <2> QED BY <1>1, <2>2, <2>3 DEF Applied
<1> QED BY <1>1, <1>2, <1>4, WriteDisk

\* An operation is done: the file holds its postimage, and the operations before
\* it on other files are untouched.
LEMMA DoneApplied ==
    ASSUME PInv, NEW h \in Handlers, job' = job,
           disk' = [disk EXCEPT ![Current(h).path] = Current(h).after],
           \/ step[h] < Len(job[h].operations) /\ step'[h] = step[h] + 1 /\ pc'[h] = "write"
           \/ step[h] = Len(job[h].operations) /\ pc'[h] = "verify",
           pc[h] \in {"write", "fill"}, step[h] > 1 => Applied(h)
    PROVE  Applied(h)'
<1> DEFINE ops == job[h].operations
<1>1. /\ step[h] \in 1 .. Len(ops) /\ Len(ops) \in Nat
      /\ Current(h) = ops[step[h]] /\ Current(h).path \in DOMAIN disk
  BY CurrentOperation DEF Current
<1>2. /\ DoneUpTo(h) = step[h] - 1 /\ DoneUpTo(h)' = step[h]
      /\ ReachedUpTo(h) \in {step[h] - 1, step[h]} /\ ReachedUpTo(h)' = step[h]
  BY <1>1 DEF DoneUpTo, ReachedUpTo
<1>3. ASSUME NEW i \in 1 .. step[h],
             \A j \in 1 .. step[h] : ops[j].path = ops[i].path => j <= i
      PROVE  disk'[ops[i].path] = ops[i].after
  <2>1. CASE i = step[h]
    BY <1>1, <2>1
  <2>2. CASE i < step[h]
    <3>1. ops[step[h]].path # ops[i].path
      BY <1>1, <1>3, <2>2
    <3>2. i \in 1 .. DoneUpTo(h)
      BY <1>1, <1>2, <1>3, <2>2
    <3>3. \A j \in 1 .. ReachedUpTo(h) : ops[j].path = ops[i].path => j <= i
      BY <1>1, <1>2, <1>3
    <3>4. disk[ops[i].path] = ops[i].after
      BY <1>1, <2>2, <3>2, <3>3 DEF Applied
    <3> QED BY <1>1, <3>1, <3>4
  <2> QED BY <1>1, <2>1, <2>2
<1> QED BY <1>2, <1>3 DEF Applied

LEMMA FillDisk ==
    ASSUME PInv, NEW h \in Handlers, Fill(h)
    PROVE  DiskInv'
<1>1. /\ UNCHANGED <<ledgerVars, edits, repeated>> /\ job' = job /\ pc[h] = "fill"
      /\ disk' = [disk EXCEPT ![Current(h).path] = Current(h).after]
      /\ \A g \in Handlers \ {h} : /\ pc'[g] = pc[g] /\ step'[g] = step[g]
                                   /\ replayed'[g] = replayed[g] /\ verdict'[g] = verdict[g]
  BY DEF Fill, historyVars, PInv, TypeOK
<1>2. \/ step[h] < Len(job[h].operations) /\ step'[h] = step[h] + 1 /\ pc'[h] = "write"
      \/ step[h] = Len(job[h].operations) /\ pc'[h] = "verify"
  BY CurrentOperation DEF Fill, PInv, TypeOK
<1>3. Clean' => Clean
  BY <1>1 DEF Clean, ledgerVars
<1>4. Engaged(h) /\ Working(h)
  BY <1>1 DEF Engaged, Working
<1>5. Clean => InFlight(job[h]) /\ \A g \in Handlers \ {h} : ~Working(g)
  BY <1>4 DEF PInv, DiskInv, OneWorks
<1>6. Clean => Applied(h)
  BY <1>4 DEF PInv, DiskInv
<1>7. Clean => Applied(h)'
  BY <1>1, <1>2, <1>6, DoneApplied
<1> QED BY <1>1, <1>3, <1>5, <1>7, WriteDisk

LEMMA DeleteDisk ==
    ASSUME PInv, NEW h \in Handlers, Delete(h)
    PROVE  DiskInv'
<1>1. /\ UNCHANGED ledgerVars /\ job' = job /\ pc[h] = "write"
      /\ disk' = [disk EXCEPT ![Current(h).path] = Current(h).after]
      /\ \A g \in Handlers \ {h} : /\ pc'[g] = pc[g] /\ step'[g] = step[g]
                                   /\ replayed'[g] = replayed[g] /\ verdict'[g] = verdict[g]
  BY DEF Delete, Advance, PInv, TypeOK
<1>2. \/ step[h] < Len(job[h].operations) /\ step'[h] = step[h] + 1 /\ pc'[h] = "write"
      \/ step[h] = Len(job[h].operations) /\ pc'[h] = "verify"
  BY <1>1, CurrentOperation DEF Delete, Advance, PInv, TypeOK
<1>3. Clean' => Clean /\ InFlight(job[h]) /\ \A g \in Handlers \ {h} : ~Working(g)
  BY WritesAlone
<1>4. Clean /\ step[h] > 1 => Applied(h)
  BY <1>1 DEF Engaged, PInv, DiskInv
<1>5. Clean' => Applied(h)'
  BY <1>1, <1>2, <1>3, <1>4, DoneApplied
<1> QED BY <1>1, <1>3, <1>5, WriteDisk

\* An append that records no success leaves what is accounted for.
LEMMA AppendAccounts ==
    ASSUME NEW s, NEW e, NEW d, Appends(d, s, e), e.type # "operation_observed", NEW f
    PROVE  Accounted(f)' = Accounted(f)
<1>1. commits' = commits \cup {d} /\ d.entry.type # "operation_observed"
  BY DEF Appends
<1>2. SucceededOn(f)' = SucceededOn(f)
  BY <1>1 DEF SucceededOn
<1> QED BY <1>2 DEF Accounted

LEMMA WorkflowDisk ==
    ASSUME PInv, NEW k \in WorkflowKeys, NEW s \in Sessions, WorkflowAppend(k, s)
    PROVE  DiskInv'
<1>1. PICK e \in Entries, d \in Commits : /\ Appends(d, s, e) /\ CommitKnown(d)
                                          /\ e.type \notin OperationEntries
  BY WorkflowCommits
<1>2. e.type # "operation_observed"
  BY <1>1 DEF OperationEntries
<1>3. SameJournal
  <2>1. \A p \in Patches : InFlight(p)' <=> InFlight(p)
    BY <1>1, AppendIntents
  <2>2. \A f : Accounted(f)' = Accounted(f)
    BY <1>1, <1>2, AppendAccounts
  <2> QED BY <2>1, <2>2 DEF SameJournal
<1>4. UNCHANGED <<handlerVars, disk, historyVars>>
  BY DEF WorkflowAppend
<1>5. Moves
  BY <1>1 DEF Moves
<1>6. Clean' => Clean
  BY <1>4, <1>5, CleanBefore DEF historyVars
<1>7. \A h \in Handlers : /\ Working(h)' => Working(h) /\ job'[h] = job[h]
                          /\ Engaged(h)' => Engaged(h)
  BY <1>4 DEF handlerVars, Working, Owner, Engaged
<1>8. \A h \in Handlers : Clean' /\ Engaged(h)' => Applied(h)'
  <2>1. \A h \in Handlers : Clean /\ Engaged(h) => Applied(h)
    BY DEF PInv, DiskInv
  <2> QED BY <1>4, <1>6, <1>7, <2>1 DEF Applied, DoneUpTo, ReachedUpTo, handlerVars
<1>9. job' \in [Handlers -> Patches] /\ disk' = disk
  BY <1>4 DEF handlerVars, PInv, TypeOK
<1> QED BY <1>3, <1>6, <1>7, <1>8, <1>9, DiskKeeps

\* A new intent is committed: no operation was open, so nobody worked.
LEMMA IntentDisk ==
    ASSUME PInv, NEW h \in Handlers, Intent(h)
    PROVE  DiskInv'
<1>0. PICK p \in Patches : p = job[h]
  BY DEF PInv, TypeOK
<1>1. job[h] = p /\ pc[h] = "intent" /\ job' = job /\ UNCHANGED <<step, verdict, disk, historyVars>>
  BY <1>0 DEF Intent
<1>2. CASE \/ /\ replayed' = [replayed EXCEPT ![h] = TRUE]
              /\ pc' = [pc EXCEPT ![h] = "check"]
              /\ UNCHANGED <<ledgerVars, reply>>
           \/ Refuse(h) /\ UNCHANGED <<ledgerVars, replayed>>
  <2>1. /\ UNCHANGED <<ledgerVars, disk, edits, repeated>>
        /\ \A g \in Handlers \ {h} : /\ pc'[g] = pc[g] /\ step'[g] = step[g]
                                     /\ replayed'[g] = replayed[g] /\ verdict'[g] = verdict[g]
    BY <1>1, <1>2 DEF Refuse, historyVars, PInv, TypeOK
  <2>2. ~Working(h)'
    BY <1>2 DEF Refuse, PInv, TypeOK, Working, Owner, Engaged, Past
  <2> QED BY <1>1, <2>1, <2>2, IdleDisk DEF Working
<1>3. CASE /\ CommitEntry(p.key, p, p.session, p.expected, IntentEntry(p))
           /\ pc' = [pc EXCEPT ![h] = "check"]
           /\ UNCHANGED <<replayed, reply>>
  <2> DEFINE s == p.session
             e == IntentEntry(p)
  <2>1. PICK d \in Commits : Appends(d, s, e) /\ CommitKnown(d) /\ IsIntent(d, p)
    BY <1>3, IntentCommits
  <2>2. s \in Sessions /\ e \in Entries /\ e.type = "operation_intent_recorded"
    BY PatchTyped
  <2>3. /\ \A c \in commits : c.session = s /\ ~Latest(c)'
        /\ commits' = commits \cup {d}
    BY <2>1, <2>2, AppendFlight DEF PInv, OperationEntries
  <2>4. head[s].opState \notin OpenOps
    BY <2>1, <2>2 DEF Appends, Reducible, Accepts, NoOpenOperation
  <2>5. \A q \in Patches : ~InFlight(q)
    <3> SUFFICES ASSUME NEW q \in Patches, InFlight(q) PROVE FALSE
      OBVIOUS
    <3>1. head[q.session].opState \in OpenOps
      BY FlightFacts
    <3>2. q.session = s
      BY <2>3 DEF InFlight, IsIntent, PInv, JournalInv, CommitKnown
    <3> QED BY <2>4, <3>1, <3>2
  <2>6. \A q \in Patches : InFlight(q)' <=> q = p
    <3>1. InFlight(p)'
      BY <2>1, <2>2, AppendIntents
    <3>2. ASSUME NEW q \in Patches, InFlight(q)' PROVE q = p
      <4>1. PICK c \in commits' : IsIntent(c, q) /\ Latest(c)'
        BY <3>2 DEF InFlight
      <4>2. c = d
        BY <2>3, <4>1
      <4> QED BY <2>1, <4>1, <4>2 DEF IsIntent
    <3> QED BY <3>1, <3>2
  <2>7. \A f : Accounted(f)' = Accounted(f)
    BY <2>1, <2>2, AppendAccounts
  <2>8. Clean' => Clean
    <3>1. Moves
      BY <2>1, <2>2 DEF Moves
    <3> QED BY <1>1, <3>1, CleanBefore DEF historyVars
  <2> SUFFICES ASSUME Clean'
               PROVE  OneWorks' /\ RestAccounted' /\ \A g \in Handlers : ~Engaged(g)'
    BY DEF DiskInv
  <2>9. /\ OneWorks /\ RestAccounted
        /\ \A g \in Handlers : ~Working(g)
    BY <2>5, <2>8 DEF PInv, DiskInv, OneWorks, TypeOK
  <2>10. \A g \in Handlers : g # h => ~Working(g)'
    BY <1>1, <1>3, <2>9 DEF Working, Owner, Engaged, PInv, TypeOK
  <2>11. ~Engaged(h)'
    BY <1>3 DEF Engaged, PInv, TypeOK
  <2>12. OneWorks'
    <3>1. InFlight(p)' /\ job'[h] = p
      BY <1>1, <2>6
    <3>2. InFlight(job[h])'
      BY <3>1 DEF InFlight
    <3> QED BY <2>10, <3>2 DEF OneWorks
  <2>13. RestAccounted'
    BY <1>1, <2>5, <2>7, <2>9 DEF RestAccounted
  <2> QED BY <2>10, <2>11, <2>12, <2>13 DEF Working
<1> QED BY <1>0, <1>2, <1>3 DEF Intent

\* A success recorded by the last commit changes nothing on other files.
LEMMA SuccessKeeps ==
    ASSUME NEW s, NEW e, NEW d, Appends(d, s, e), NEW f, OperationsOn(d.request, f) = {}
    PROVE  Accounted(f)' = Accounted(f)
<1>1. SucceededOn(f)' = SucceededOn(f)
  BY DEF SucceededOn, Appends
<1> QED BY <1>1 DEF Accounted

\* On the files of its patch it is what is accounted for.
LEMMA SuccessAccounts ==
    ASSUME PInv, NEW s \in Sessions, NEW e \in Entries, NEW d \in Commits, Appends(d, s, e),
           e.type = "operation_observed", e.state = "succeeded",
           NEW p \in Patches, d.request = p, NEW f \in Files, OperationsOn(p, f) # {}
    PROVE  \E i \in 1 .. Len(p.operations) :
              /\ p.operations[i].path = f
              /\ \A j \in OperationsOn(p, f) : j <= i
              /\ Accounted(f)' = p.operations[i].after
<1>1. /\ commits' = commits \cup {d} /\ d.entry = e
      /\ \A c \in commits : c.revision < d.revision
      /\ commits' \subseteq Commits
  BY AppendFlight DEF PInv, Appends, IInv, LedgerTypeOK
<1> DEFINE S == SucceededOn(f)'
<1>2. d \in S /\ S \subseteq commits'
  BY <1>1 DEF SucceededOn
<1>3. \A c \in S : c.revision <= d.revision /\ (d.revision <= c.revision => c = d)
  <2>1. \A c \in commits' : c.revision \in Nat
    BY <1>1 DEF Commits
  <2> QED BY <1>1, <1>2, <2>1
<1>4. \A c \in S : (\A b \in S : b.revision <= c.revision) <=> c = d
  BY <1>2, <1>3
<1>5. (CHOOSE c \in S : \A b \in S : b.revision <= c.revision) = d
  BY <1>2, <1>4
<1>6. PICK i \in OperationsOn(p, f) :
         /\ i \in 1 .. Len(p.operations) /\ p.operations[i].path = f
         /\ \A j \in OperationsOn(p, f) : j <= i
         /\ (CHOOSE x \in OperationsOn(p, f) : \A j \in OperationsOn(p, f) : j <= x) = i
  BY LastOperation
<1>7. Accounted(f)' = p.operations[i].after
  BY <1>2, <1>5, <1>6 DEF Accounted
<1> QED BY <1>6, <1>7

LEMMA ObserveDisk ==
    ASSUME PInv, NEW h \in Handlers, Observe(h)
    PROVE  DiskInv'
<1>0. PICK p \in Patches : p = job[h]
  BY DEF PInv, TypeOK
<1>1. /\ job[h] = p /\ pc[h] = "observe" /\ Reply(h) /\ job' = job
      /\ UNCHANGED <<step, replayed, verdict, disk, historyVars>>
      /\ pc'[h] = "idle"
      /\ \A g \in Handlers \ {h} : /\ pc'[g] = pc[g] /\ step'[g] = step[g]
                                   /\ replayed'[g] = replayed[g] /\ verdict'[g] = verdict[g]
  BY <1>0 DEF Observe, Reply, PInv, TypeOK
<1>2. ~Working(h)' /\ ~Engaged(h)' /\ verdict[h] \in {"succeeded", "failed", "unknown"}
  BY <1>1 DEF Working, Owner, Engaged, Past, PInv, HandlerOK
<1>3. CASE UNCHANGED ledgerVars
  BY <1>1, <1>2, <1>3, IdleDisk DEF historyVars
<1>4. CASE \E k \in FreshKeys :
              CommitEntry(k, p, p.session, p.expected + 1, ObservationEntry(h))
  <2> DEFINE s == p.session
             e == ObservationEntry(h)
  <2>1. PICK k \in FreshKeys, d \in Commits : /\ Appends(d, s, e) /\ CommitKnown(d)
                                              /\ d.key = k /\ d.request = p
    BY <1>1, <1>4, ObservationCommits
  <2>2. /\ s \in Sessions /\ e \in Entries /\ e.type = "operation_observed"
        /\ e.state = verdict[h] /\ e.op = p.op /\ (verdict[h] = "failed" => e.to = "failed")
    BY <1>1, <1>2, ObservationTyped, PatchTyped
  <2>3. Clean' => Clean
    <3>1. Moves
      BY <2>1, <2>2 DEF Moves
    <3> QED BY <1>1, <3>1, CleanBefore DEF historyVars
  <2> SUFFICES ASSUME Clean'
               PROVE  OneWorks' /\ RestAccounted' /\ \A g \in Handlers : ~Engaged(g)'
    BY DEF DiskInv
  <2>4. head[s].opState \in OpenOps
    BY <2>1, <2>2 DEF Appends, Reducible, Accepts, ObservesCurrent, OpProgression, OpenOps
  <2>5. verdict[h] # "failed"
    BY <2>1, <2>2, <2>4, OpenHead DEF PInv, Appends
  <2>6. verdict[h] # "unknown"
    <3>1. head'[s] = Apply(head[s], e) /\ head[s] \in Projections
      BY <2>1, <2>2 DEF Appends, PInv, IInv, LedgerTypeOK
    <3>2. head'[s].opState = e.state
      BY <2>2, <3>1 DEF Apply, Coordinated, Projections
    <3> QED BY <2>2, <3>2 DEF Clean
  <2>7. verdict[h] = "succeeded" /\ Engaged(h)
    BY <1>1, <1>2, <2>5, <2>6 DEF Engaged
  <2>8. /\ OneWorks /\ RestAccounted /\ Applied(h) /\ InFlight(p)
        /\ \A g \in Handlers : Working(g) => g = h
    BY <1>1, <2>3, <2>7 DEF PInv, DiskInv, OneWorks, Working
  <2>9. \A g \in Handlers : ~Working(g)'
    BY <1>1, <1>2, <2>8 DEF Working, Owner, Engaged
  <2>10. \A q \in Patches : InFlight(q) => q = p
    BY <2>8, FlightFacts
  <2>11. ASSUME NEW f \in Files PROVE disk[f] = Accounted(f)'
    <3>1. CASE OperationsOn(p, f) = {}
      <4>1. Accounted(f)' = Accounted(f)
        BY <2>1, <3>1, SuccessKeeps
      <4>2. disk[f] = Accounted(f)
        BY <2>8, <2>10, <3>1 DEF RestAccounted
      <4> QED BY <4>1, <4>2
    <3>2. CASE OperationsOn(p, f) # {}
      <4>1. PICK i \in 1 .. Len(p.operations) :
               /\ p.operations[i].path = f
               /\ \A j \in OperationsOn(p, f) : j <= i
               /\ Accounted(f)' = p.operations[i].after
        <5>1. /\ s \in Sessions /\ e \in Entries /\ Appends(d, s, e) /\ d.request = p
              /\ e.type = "operation_observed" /\ e.state = "succeeded"
          BY <2>1, <2>2, <2>7
        <5> HIDE DEF s, e
        <5> QED BY <5>1, <3>2, SuccessAccounts
      <4>2. DoneUpTo(h) = Len(p.operations) /\ ReachedUpTo(h) = Len(p.operations)
        BY <1>1 DEF DoneUpTo, ReachedUpTo
      <4>3. \A j \in 1 .. Len(p.operations) : p.operations[j].path = f => j <= i
        BY <4>1, PatchTyped DEF OperationsOn
      <4>4. disk[f] = p.operations[i].after
        BY <1>1, <2>8, <4>1, <4>2, <4>3 DEF Applied
      <4> QED BY <4>1, <4>4
    <3> QED BY <3>1, <3>2
  <2>12. RestAccounted'
    BY <1>1, <2>11 DEF RestAccounted
  <2>13. OneWorks'
    BY <2>9 DEF OneWorks
  <2> QED BY <2>9, <2>12, <2>13 DEF Working
<1> QED BY <1>0, <1>3, <1>4 DEF Observe

LEMMA OutsideDisk ==
    ASSUME PInv, Crash \/ (\E f \in Files : Edit(f)) \/ UNCHANGED vars
    PROVE  DiskInv'
<1>1. CASE Crash
  <2>1. \A h \in Handlers : ~Working(h)' /\ ~Engaged(h)'
    BY <1>1 DEF Crash, Working, Owner, Engaged, Past
  <2>2. SameJournal
    BY <1>1, StillSame DEF Crash
  <2>3. Clean' => Clean
    BY <1>1 DEF Crash, Clean, ledgerVars, historyVars
  <2>4. job' \in [Handlers -> Patches] /\ disk' = disk
    BY <1>1, PatchesAreRequests DEF Crash, AnyPatch
  <2> QED BY <2>1, <2>2, <2>3, <2>4, DiskKeeps
<1>2. CASE \E f \in Files : Edit(f)
  <2>1. ~Clean'
    BY <1>2 DEF Edit, Clean, PInv, TypeOK
  <2> QED BY <2>1 DEF DiskInv
<1>3. CASE UNCHANGED vars
  <2>1. SameJournal
    BY <1>3, StillSame DEF vars
  <2>2. /\ Clean' => Clean
        /\ job' \in [Handlers -> Patches] /\ disk' = disk
        /\ \A h \in Handlers : Working(h)' => Working(h) /\ job'[h] = job[h]
    BY <1>3 DEF vars, handlerVars, historyVars, ledgerVars, Clean, Working, Owner, Engaged,
                PInv, TypeOK
  <2>3. \A h \in Handlers : Clean' /\ Engaged(h)' => Applied(h)'
    <3>1. \A h \in Handlers : Clean /\ Engaged(h) => Applied(h)
      BY DEF PInv, DiskInv
    <3> QED BY <1>3, <2>2, <3>1 DEF vars, handlerVars, Engaged, Applied, DoneUpTo, ReachedUpTo
  <2> QED BY <2>1, <2>2, <2>3, DiskKeeps
<1> QED BY <1>1, <1>2, <1>3

-----------------------------------------------------------------------------
(* The theorems.                                                           *)

LEMMA InitInv == Init => PInv
<1> SUFFICES ASSUME Init PROVE PInv
  OBVIOUS
<1>1. IInv
  BY LedgerInitInv DEF Init
<1>2. AnyPatch \in Patches
  BY PatchesAreRequests DEF AnyPatch
<1>3. TypeOK
  <2>1. /\ job \in [Handlers -> Patches] /\ step \in [Handlers -> Nat \ {0}]
        /\ \A h \in Handlers : job[h] = AnyPatch /\ step[h] = 1
    BY <1>2 DEF Init
  <2>2. \A h \in Handlers : step[h] <= Len(job[h].operations)
    BY <1>2, <2>1, PatchTyped
  <2>3. disk \in [Files -> Bytes \cup {NoFile, Torn}]
    BY DiskIsFiles DEF Init
  <2>4. calls \in 0 .. MaxCalls /\ edits \in 0 .. MaxEdits
    BY BoundsAreNaturals DEF Init
  <2> QED BY <2>1, <2>2, <2>3, <2>4 DEF Init, TypeOK
<1>4. JournalInv
  BY DEF Init, LedgerInit, JournalInv
<1>5. \A h \in Handlers : HandlerOK(h) /\ ~Working(h)
  BY DEF Init, HandlerOK, Working, Owner, Engaged, Past
<1>6. RestAccounted
  BY DEF Init, LedgerInit, RestAccounted, Accounted, SucceededOn
<1>7. DiskInv
  BY <1>5, <1>6 DEF DiskInv, OneWorks, Working
<1> QED BY <1>1, <1>3, <1>4, <1>5, <1>7 DEF PInv

LEMMA NextInv == PInv /\ [Next]_vars => PInv'
<1> SUFFICES ASSUME PInv, [Next]_vars PROVE PInv'
  OBVIOUS
<1>1. Handled
  BY NextHandled
<1>2. IInv' /\ JournalInv'
  BY <1>1, MovesKeep DEF Handled
<1>3. DiskInv'
  <2>1. ASSUME NEW h \in Handlers,
               \/ \E p \in Patches : Submit(h, p)
               \/ Intent(h) \/ Check(h) \/ Truncate(h) \/ Fill(h) \/ Delete(h) \/ Raise(h)
               \/ Verify(h) \/ Observe(h) \/ StoreRefuses(h)
        PROVE  DiskInv'
    BY <2>1, SubmitDisk, IntentDisk, CheckRaiseDisk, TruncateDisk, FillDisk, DeleteDisk,
       VerifyDisk, ObserveDisk
  <2>2. ASSUME NEW k \in WorkflowKeys, NEW s \in Sessions, WorkflowAppend(k, s) PROVE DiskInv'
    BY <2>2, WorkflowDisk
  <2> QED BY <2>1, <2>2, OutsideDisk DEF Next
<1> QED BY <1>1, <1>2, <1>3 DEF PInv, Handled

\* The inductive invariant: the journal is the ledger's, an operation in flight is
\* the last commit, and while nothing was repeated one handler at most works on
\* the repository, which outside its patch is what the journal accounts for.
THEOREM PatchInvariant == Spec => []PInv
<1> QED BY InitInv, NextInv, PTL DEF Spec

\* The types of the handler's state, of the repository and of the ledger.
THEOREM PatchTypeCorrect == Spec => [](TypeOK /\ LedgerTypeOK)
<1>1. PInv => TypeOK /\ LedgerTypeOK
  BY DEF PInv, IInv
<1> QED BY <1>1, PatchInvariant, PTL

\* No file is touched before the journal holds the intent: the crash that follows
\* the first write always finds it (Kiln.RPC.Handlers.Patch).  It is the intent of the
\* request itself when its digest tells it from all others, and otherwise that of
\* the request it is taken for.
THEOREM PatchIntent == Spec => IntentPrecedesEffect
<1>1. ASSUME PInv, [Next]_vars, disk' # disk, edits' = edits
      PROVE  \E h \in Handlers :
                /\ pc[h] \in {"write", "fill"}
                /\ \E c \in commits : /\ TakenFor(c, job[h])
                                      /\ Truthful(job[h]) => IsIntent(c, job[h])
  <2>1. ~(\E f \in Files : Edit(f))
    BY <1>1 DEF Edit, PInv, TypeOK
  <2>2. PICK h \in Handlers : Truncate(h) \/ Fill(h) \/ Delete(h)
    BY <1>1, <2>1 DEF Next, Submit, Intent, Check, Raise, Verify, Observe, StoreRefuses,
                      Crash, WorkflowAppend, vars
  <2>3. pc[h] \in {"write", "fill"}
    BY <2>2 DEF Truncate, Fill, Delete
  <2>4. Intended(job[h])
    BY <1>1, <2>3 DEF PInv, HandlerOK, Past
  <2> QED BY <2>3, <2>4 DEF Intended
<1> QED BY <1>1, PatchInvariant, PTL DEF Spec, IntentPrecedesEffect

\* A request answered ok leaves no operation of its own in flight, whichever of
\* its retries was observed, unless the store refused the observation.
THEOREM PatchReply == Spec => []OkReplyIsSettled
<1>1. PInv => OkReplyIsSettled
  BY DEF PInv, HandlerOK, OkReplyIsSettled
<1> QED BY <1>1, PatchInvariant, PTL

\* A patch is applied whole or not at all and the journal says which, for any
\* interleaving of any number of handlers, crashes and retries that executes no
\* operation a second time.
THEOREM PatchDisk == Spec => []DiskFollowsJournal
<1>1. ASSUME PInv, Quiet, ~repeated PROVE \A f \in Files : disk[f] = Accounted(f)
  <2>1. Clean
    BY <1>1 DEF Quiet, Clean, Unresolved
  <2>2. RestAccounted
    BY <1>1, <2>1 DEF PInv, DiskInv
  <2>3. \A p \in Patches : ~InFlight(p)
    BY <1>1, FlightFacts, PatchTyped DEF Quiet, Unresolved
  <2> QED BY <2>2, <2>3 DEF RestAccounted
<1>2. PInv => DiskFollowsJournal
  BY <1>1 DEF DiskFollowsJournal
<1> QED BY <1>2, PatchInvariant, PTL

\* Whatever handlers and crashes do, an open operation shuts out all other work on its
\* Session, and its own observation cannot close the Run; a settled Run stays so and
\* a waiting one is left by an answer only (the ledger's promises, for patch.apply).
THEOREM PatchKeepsPromises ==
    Spec => WaitingLeftOnlyByAnswer /\ OpenOperationExclusive /\ SettledStays
<1>1. ASSUME PInv, [Next]_vars, NEW t \in Sessions
      PROVE  UNCHANGED ledgerVars \/ (LeftByAnswer(t) /\ Exclusive(t) /\ Stays(t))
  <2>1. IInv /\ Moves
    BY <1>1, NextHandled DEF PInv, Handled
  <2> QED BY <2>1, AppendPromises DEF Moves
<1>2. PInv /\ [Next]_vars => /\ [\A s \in Sessions : LeftByAnswer(s)]_ledgerVars
                            /\ [\A s \in Sessions : Exclusive(s)]_ledgerVars
                            /\ [\A s \in Sessions : Stays(s)]_ledgerVars
  BY <1>1
<1> QED BY <1>2, PatchInvariant, PTL
        DEF Spec, WaitingLeftOnlyByAnswer, OpenOperationExclusive, SettledStays

\* patch.apply implements the ledger: intents, observations and the commits of others
\* are single commits the ledger admits, and no other step touches it.
THEOREM PatchRefinesLedger ==
    ASSUME Revisions = Nat
    PROVE  Spec => LedgerSpec
<1>1. Init => LedgerInit
  BY DEF Init
<1>2. ASSUME PInv, NEW h \in Handlers, Intent(h) PROVE [LedgerNext]_ledgerVars
  <2> DEFINE p == job[h]
  <2>1. CASE CommitEntry(p.key, p, p.session, p.expected, IntentEntry(p))
    <3>1. p \in Patches
      BY <1>2 DEF PInv, TypeOK
    <3>2. p \in Requests /\ p.key \in Keys /\ p.session \in Sessions /\ IntentEntry(p) \in Entries
      BY <3>1, PatchTyped
    <3> QED BY <1>2, <2>1, <3>2, CommitIsStep DEF PInv
  <2>2. CASE UNCHANGED ledgerVars
    BY <2>2
  <2> QED BY <1>2, <2>1, <2>2 DEF Intent
<1>3. ASSUME PInv, NEW h \in Handlers, Observe(h) PROVE [LedgerNext]_ledgerVars
  <2> DEFINE p == job[h]
  <2>1. CASE \E k \in FreshKeys : CommitEntry(k, p, p.session, p.expected + 1, ObservationEntry(h))
    <3>1. p \in Patches /\ verdict[h] \in {"succeeded", "failed", "unknown"}
      BY <1>3 DEF PInv, TypeOK, HandlerOK, Observe
    <3>2. p \in Requests /\ p.session \in Sessions /\ ObservationEntry(h) \in Entries
      BY <3>1, PatchTyped, ObservationTyped
    <3> QED BY <1>3, <2>1, <3>2, FreshKeysAreNew, CommitIsStep DEF PInv
  <2>2. CASE UNCHANGED ledgerVars
    BY <2>2
  <2> QED BY <1>3, <2>1, <2>2 DEF Observe
<1>4. ASSUME PInv, NEW k \in WorkflowKeys, NEW s \in Sessions, WorkflowAppend(k, s)
      PROVE  LedgerNext
  <2>1. PICK e \in {[ type |-> "session_started" ]} \cup
                   {[ type |-> "run_transitioned", from |-> head[s].run, to |-> to ] :
                        to \in {"running", "canceled"}} :
           CommitEntry(k, WorkflowRequest(e.type), s, Expectable(s), e)
    BY <1>4 DEF WorkflowAppend
  <2>2. e \in Entries /\ e.type \in WorkflowAppends
    BY <1>4, <2>1, WorkflowEntryTyped DEF WorkflowAppends
  <2>3. k \in Keys /\ WorkflowRequest(e.type) \in Requests
    BY <2>2, WorkflowAppendsAreRequests
  <2> QED BY <1>4, <2>1, <2>2, <2>3, CommitIsStep DEF PInv
<1>5. ASSUME NEW h \in Handlers,
             \/ \E p \in Patches : Submit(h, p)
             \/ Check(h) \/ Truncate(h) \/ Fill(h) \/ Delete(h) \/ Raise(h) \/ Verify(h)
             \/ StoreRefuses(h) \/ Crash \/ \E f \in Files : Edit(f)
      PROVE  UNCHANGED ledgerVars
  BY <1>5 DEF Submit, Check, Truncate, Fill, Delete, Raise, Verify, StoreRefuses, Crash, Edit
<1>6. Crash \/ (\E f \in Files : Edit(f)) \/ UNCHANGED vars => UNCHANGED ledgerVars
  BY DEF Crash, Edit, vars
<1>7. PInv /\ [Next]_vars => [LedgerNext]_ledgerVars
  BY <1>2, <1>3, <1>4, <1>5, <1>6 DEF Next
<1> QED BY <1>1, <1>7, PatchInvariant, PTL DEF Spec, LedgerSpec
=============================================================================
