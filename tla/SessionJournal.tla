--------------------------- MODULE SessionJournal ---------------------------
(***************************************************************************)
(* The Kiln store as its tables: the ordered journal_entries rows, the     *)
(* action_commits rows that carry the idempotency key and the stored       *)
(* result, and the optional session_projections cache.  Every read of a    *)
(* Session rebuilds it from the first two; every append classifies its     *)
(* key, checks its precondition, rebuilds, checks the expected revision    *)
(* and the cache, and writes all three tables in one transaction.          *)
(*                                                                         *)
(* SQLite serializes transactions (BEGIN IMMEDIATE) and a fault inside one *)
(* rolls it back, so a transaction is one step.  Faults of the medium are  *)
(* actions: the cache may be lost, damaged or restored from an older copy, *)
(* and one row of the authoritative tables may be deleted or altered.      *)
(*                                                                         *)
(* A digest is the value it digests; a row's payload digest, and a stored  *)
(* result's, is the flag that it still verifies.  A stored result may also *)
(* be altered together with its digest.  Random identifiers of actions are *)
(* numbers never used before.                                              *)
(***************************************************************************)
EXTENDS SessionReducer, FiniteSets

CONSTANTS Sessions, Keys, Requests, Revisions,
          MaxFaults     \* how many faults of the medium a behaviour may have

ASSUME MaxFaultsIsNatural == MaxFaults \in Nat

ASSUME ExpectedAreNaturals == Revisions \subseteq Nat

VARIABLES
    rows,           \* journal_entries
    actions,        \* action_commits
    cache,          \* session_projections, one record per Session
    nextSequence,   \* AUTOINCREMENT: a sequence is never handed out twice
    accepted,       \* history: the commits the store has acknowledged
    tampered,       \* history: the Sessions whose authoritative rows were altered
    forged,         \* history: the keys whose result was altered with its digest
    faults          \* history: how many faults the medium has had

tables == <<rows, actions, nextSequence>>
vars == <<rows, actions, cache, nextSequence, accepted, tampered, forged, faults>>

NoRevision == -1

-----------------------------------------------------------------------------
(* Replay.                                                                 *)

\* The Sessions a journal or an action row mentions; the cache names none.
SessionsPresent == { r.session : r \in rows } \cup { a.session : a \in actions }

RowsOf(s) == { r \in rows : r.session = s }
ActionsOf(s) == { a \in actions : a.session = s }
RowsOfAction(a) == { r \in RowsOf(a.session) : r.action = a.action }

\* Every row belongs to an action of the Session, and every action has exactly
\* the rows its bounds declare, under its own key and request digest.
BatchSound(a) ==
    LET batch == RowsOfAction(a) IN
    /\ batch # {}
    /\ Cardinality(batch) = a.last - a.first + 1
    /\ { r.sequence : r \in batch } = a.first .. a.last
    /\ \A r \in batch : r.key = a.key /\ r.request = a.request

BatchesSound(s) ==
    /\ \A r \in RowsOf(s) : \E a \in ActionsOf(s) : a.action = r.action
    /\ \A a \in ActionsOf(s) : BatchSound(a)

\* A report of a rebuilt Session.  Rebuilding gives the set of one report, or no
\* report at all when the journal blocks.
Report(projection, rev) == [ projection |-> projection, revision |-> rev ]
Empty == Report(Absent, NoRevision)

\* The revision an append on this prefix must expect.
Expected(report) == IF report.revision = NoRevision THEN 0 ELSE report.revision

\* Mutant: the first action of a Session must expect the revision before it, not 0.
ExtendsFromNothing(a, r, prefix) ==
    /\ a.expected = prefix.revision
    /\ r.revision = prefix.revision + 1
    /\ r.intact
    /\ Reducible(prefix.projection, r.entry)

\* Mutant: the payload digest of a row is not verified.
ExtendsUnverified(a, r, prefix) ==
    /\ a.expected = Expected(prefix)
    /\ r.revision = prefix.revision + 1
    /\ Reducible(prefix.projection, r.entry)

\* The row of action a extends a rebuilt prefix: the action expected its revision,
\* the row carries the next one, its payload verifies, and its entry reduces.
Extends(a, r, prefix) ==
    /\ a.expected = Expected(prefix)
    /\ r.revision = prefix.revision + 1
    /\ r.intact
    /\ Reducible(prefix.projection, r.entry)

Extended(r, prefix) == Report(Apply(prefix.projection, r.entry), r.revision)

\* What sequence n of the journal makes of the reports before it: an action that
\* begins there replays with its one row, any other sequence leaves them alone.
ReplayStep(s, n, before) ==
    IF \A a \in ActionsOf(s) : a.first # n THEN before
    ELSE UNION { { Extended(ar[2], prefix) : prefix \in
                       {x \in before : Extends(ar[1], ar[2], x)} } :
                 ar \in { p \in ActionsOf(s) \X RowsOf(s) :
                              p[1].first = n /\ p[2].action = p[1].action } }

\* The Session after each sequence of the journal, its actions in the order of
\* their first sequence.
Replay(s) ==
    LET after[n \in 0 .. nextSequence - 1] ==
            IF n = 0 THEN {Empty} ELSE ReplayStep(s, n, after[n - 1])
    IN  after

Rebuild(s) == IF BatchesSound(s) THEN Replay(s)[nextSequence - 1] ELSE {}

\* The Session right after one of its actions.  The whole journal must replay: a
\* block after the action blocks it too.
RebuildForAction(a) ==
    IF Rebuild(a.session) = {} THEN {} ELSE Replay(a.session)[a.last]

-----------------------------------------------------------------------------
(* The idempotency classifier and the answer of a retry.                   *)

\* Mutant: the key is looked for among the latest actions only.
KeyFreeLately(k) == \A a \in actions : a.last = nextSequence - 1 => a.key # k

KeyFree(k) == \A a \in actions : a.key # k

\* The requests whose stored answer is held against the Session rebuilt at the
\* stored action: a start, and the transition of a resume or a cancel.
ComparedWithRebuild == {"session_started", "run_transitioned"}

\* The workflow returns the stored result of these only with the revision and
\* the projection digest of the rebuild.  Of a stored decision it checks the Run
\* state and the form of the identifiers and the digest, and nothing else.
AnswerHolds(type, result, at) ==
    /\ type \in ComparedWithRebuild => result \in at
    /\ type = "pending_decision_recorded" => result.projection.run = "waiting_for_user"
    /\ type = "user_decision_recorded" => result.projection.run = "ready"

\* Mutant: the stored result is returned without rebuilding the Session at it.
ClassifyUnreplayed(k, request, type) ==
    IF KeyFree(k) THEN "none"
    ELSE LET a == CHOOSE x \in actions : x.key = k
         IN  CASE a.request # request -> "conflict"
               [] ~a.intact           -> "corrupt_result"
               [] OTHER               -> "replay"

\* What a key and a request digest amount to, for a request that would append an
\* entry of the given type.
Classify(k, request, type) ==
    IF KeyFree(k) THEN "none"
    ELSE LET a == CHOOSE x \in actions : x.key = k
             at == RebuildForAction(a)
         IN  CASE a.request # request  -> "conflict"
               [] ~a.intact            -> "corrupt_result"
               [] at = {}              -> "journal_invalid"
               [] ~AnswerHolds(type, a.result, at) -> "boundary_mismatch"
               [] OTHER                -> "replay"

StoredAnswer(k) ==
    LET a == CHOOSE x \in actions : x.key = k
    IN  [ session |-> a.session, revision |-> a.result.revision,
          projection |-> a.result.projection ]

-----------------------------------------------------------------------------
(* The cache.                                                              *)

NoCache == [ status |-> "missing", revision |-> NoRevision, projection |-> Absent ]

Cached(report) ==
    [ status |-> "record", revision |-> report.revision, projection |-> report.projection ]

Refresh(s, report) == cache' = [cache EXCEPT ![s] = Cached(report)]

\* An append tolerates a missing cache and one that equals the rebuild; any
\* record at all passes for a Session the journal does not hold.
CacheAllowsAppend(s, report) ==
    \/ cache[s].status = "missing"
    \/ cache[s].status = "record" /\ (report = Empty \/ cache[s] = Cached(report))

-----------------------------------------------------------------------------
(* The store's transactions.                                               *)

Init ==
    /\ rows = {} /\ actions = {} /\ nextSequence = 1
    /\ cache = [s \in Sessions |-> NoCache]
    /\ accepted = {} /\ tampered = {} /\ forged = {} /\ faults = 0

\* The three writes of an append.
Write(k, request, s, expected, e, next) ==
    /\ rows' = rows \cup
         { [ sequence |-> nextSequence, session |-> s, revision |-> next.revision,
             action |-> nextSequence, key |-> k, request |-> request,
             entry |-> e, intact |-> TRUE ] }
    /\ actions' = actions \cup
         { [ action |-> nextSequence, session |-> s, key |-> k, request |-> request,
             expected |-> expected, first |-> nextSequence, last |-> nextSequence,
             result |-> next, intact |-> TRUE ] }
    /\ nextSequence' = nextSequence + 1
    /\ Refresh(s, next)

\* A new action on Session s.  A key that names an action already is classified
\* (a replay, a conflict, a block) and writes nothing.
Commit(s) ==
    \E base \in Rebuild(s) :
        /\ CacheAllowsAppend(s, base)
        /\ \E e \in {x \in Entries : Reducible(base.projection, x)},
              expected \in Revisions, k \in Keys, request \in Requests :
              LET next == Report(Apply(base.projection, e), base.revision + 1)
              IN  /\ KeyFree(k)
                  /\ e.type = "session_started" => SessionsPresent = {}
                  /\ expected = Expected(base)
                  /\ Write(k, request, s, expected, e, next)
                  /\ accepted' = accepted \cup
                       { [ key |-> k, request |-> request, session |-> s,
                           revision |-> next.revision, entry |-> e, after |-> next.projection ] }
        /\ UNCHANGED <<tampered, forged, faults>>

\* The read every query and restart begins with: rebuild the Session and replace
\* a cache that is missing, malformed, inconsistent in itself or stale.
Compare(s) ==
    \E report \in Rebuild(s) \ {Empty} :
        /\ cache[s] # Cached(report)
        /\ Refresh(s, report)
        /\ UNCHANGED <<tables, accepted, tampered, forged, faults>>

-----------------------------------------------------------------------------
(* Faults of the medium.                                                   *)

Fault(sessions) ==
    /\ faults < MaxFaults
    /\ faults' = faults + 1
    /\ tampered' = tampered \cup sessions
    /\ UNCHANGED <<nextSequence, accepted>>

\* The cache is lost, unreadable, self-inconsistent, or an older copy.
DamageCache(s) ==
    /\ Fault({})
    /\ \E damaged \in
            { [cache[s] EXCEPT !.status = kind] : kind \in {"malformed", "bad_metadata"} }
            \cup { NoCache }
            \cup { Cached(Report(c.after, c.revision)) :
                   c \in {x \in accepted : x.session = s} } :
          /\ damaged # cache[s]
          /\ cache' = [cache EXCEPT ![s] = damaged]
    /\ UNCHANGED <<rows, actions, forged>>

\* One row of the authoritative tables is altered at most: the store keeps no chain
\* over its rows, and losing the last action together with its row leaves no trace.
TamperRow(r) ==
    /\ tampered = {}
    /\ Fault({r.session})
    /\ \/ rows' = rows \ {r}
       \/ \E altered \in { [r EXCEPT !.intact = FALSE],
                           [r EXCEPT !.revision = @ + 1],
                           [r EXCEPT !.action = 0] }
                         \cup { [r EXCEPT !.request = q] : q \in Requests \ {r.request} } :
             rows' = (rows \ {r}) \cup {altered}
    /\ UNCHANGED <<actions, cache, forged>>

TamperAction(a) ==
    /\ tampered = {}
    /\ Fault({a.session})
    /\ \/ actions' = actions \ {a}
       \/ \E altered \in { [a EXCEPT !.expected = @ + 1],
                           [a EXCEPT !.last = @ + 1],
                           [a EXCEPT !.action = 0] }
                         \cup { [a EXCEPT !.request = q] : q \in Requests \ {a.request} } :
             actions' = (actions \ {a}) \cup {altered}
    /\ UNCHANGED <<rows, cache, forged>>

\* What a stored result may be altered to: another revision, a projection of no
\* Session, or the result of another action.
Forgeries(a) ==
    { [a.result EXCEPT !.revision = @ + 1], [a.result EXCEPT !.projection = Absent] }
    \cup { Report(c.after, c.revision) : c \in {x \in accepted : x.key # a.key} }

\* The stored result is not part of the journal: the Session still replays.  Its
\* digest is recomputed over what it was altered to, or it is not.
TamperResult(a) ==
    /\ Fault({})
    /\ \/ /\ actions' = (actions \ {a}) \cup {[a EXCEPT !.intact = FALSE]}
          /\ UNCHANGED forged
       \/ /\ \E result \in Forgeries(a) :
                actions' = (actions \ {a}) \cup {[a EXCEPT !.result = result]}
          /\ forged' = forged \cup {a.key}
    /\ UNCHANGED <<rows, cache>>

Next ==
    \/ \E s \in Sessions : Commit(s) \/ Compare(s) \/ DamageCache(s)
    \/ \E r \in rows : TamperRow(r)
    \/ \E a \in actions : TamperAction(a) \/ TamperResult(a)

Spec == Init /\ [][Next]_vars

-----------------------------------------------------------------------------
(* The ledger this store implements.                                       *)

LastAccepted(s) ==
    LET mine == { c \in accepted : c.session = s }
    IN  CHOOSE c \in mine : \A d \in mine : d.revision <= c.revision

Accepted(s) == \E c \in accepted : c.session = s

LedgerHead == [s \in Sessions |-> IF Accepted(s) THEN LastAccepted(s).after ELSE Absent]
LedgerRevision ==
    [s \in Sessions |-> IF Accepted(s) THEN LastAccepted(s).revision ELSE NoRevision]

Ledger == INSTANCE SessionLedger
          WITH commits <- accepted, head <- LedgerHead, revision <- LedgerRevision

\* Every append the tables admit is one the ledger admits, and nothing else -
\* a cache repair, a lost cache, a damaged row - moves the ledger.
ImplementsLedger == Ledger!LedgerSpec

-----------------------------------------------------------------------------

Reports == [ projection : Projections, revision : Nat ]

JournalRows ==
    [ sequence : Nat, session : Sessions, revision : Nat, action : Nat, key : Keys,
      request : Requests, entry : Entries, intact : BOOLEAN ]

ActionCommits ==
    [ action : Nat, session : Sessions, key : Keys, request : Requests, expected : Nat,
      first : Nat, last : Nat, result : Reports, intact : BOOLEAN ]

CacheRecords ==
    [ status : {"missing", "malformed", "bad_metadata", "record"},
      revision : Nat \cup {NoRevision}, projection : Projections ]

TypeOK ==
    /\ rows \subseteq JournalRows /\ actions \subseteq ActionCommits
    /\ cache \in [Sessions -> CacheRecords]
    /\ nextSequence \in Nat \ {0} /\ tampered \subseteq Sessions
    /\ forged \subseteq Keys /\ faults \in 0 .. MaxFaults

\* Rebuilding a Session that nobody altered never blocks, and gives the head
\* the accepted actions left behind, whatever happened to the cache.
ReplayReproducesHead ==
    \A s \in Sessions \ tampered : Rebuild(s) = {Report(LedgerHead[s], LedgerRevision[s])}

\* A deleted or altered row or action blocks the Session: no partial journal is
\* ever taken for the truth.
TamperIsEvident == \A s \in tampered : Rebuild(s) = {}

\* A retry of an accepted request is never taken for new work in a Session nobody
\* altered, and what it is answered with is an answer of its own Session.  A start,
\* a resume or a cancel gets the original answer, as it was when the action
\* committed, or an error.  So does every other request whose stored result was not
\* altered together with its digest; the answer to a decision that was is returned.
RetryIsFaithful ==
    \A c \in accepted : \A verdict \in {Classify(c.key, c.request, c.entry.type)} :
        /\ verdict = "replay" =>
              /\ StoredAnswer(c.key).session = c.session
              /\ c.entry.type \in ComparedWithRebuild \/ c.key \notin forged =>
                    StoredAnswer(c.key) = [ session |-> c.session, revision |-> c.revision,
                                            projection |-> c.after ]
        /\ c.session \notin tampered => verdict # "none"
        /\ faults = 0 => verdict = "replay"

-----------------------------------------------------------------------------
(* Restart.                                                                *)

\* Mutant: the operation is reported unknown and the Run still running.
ReconstructedRunning(p) == IF p.opState \in OpenOps THEN [p EXCEPT !.opState = "unknown"] ELSE p

\* The Session as a restarted Kiln reports it: an operation left open is unknown
\* and its Run orphaned.  Only the report changes; the journal and cache do not.
Reconstructed(p) ==
    IF p.opState \in OpenOps THEN [p EXCEPT !.opState = "unknown", !.run = "orphaned"] ELSE p

\* Whatever was in flight when the process died, the Session reported after a
\* restart satisfies the projection invariants, claims no operation in flight,
\* and is one the reducer could have produced: what an observation of that
\* operation as unknown would record.
RestartIsConservative ==
    \A s \in Sessions : \A report \in Rebuild(s) \ {Empty} :
        LET p == report.projection
            q == Reconstructed(p)
            unknown == [ type |-> "operation_observed", op |-> p.opId,
                         state |-> "unknown", to |-> "orphaned" ]
        IN  /\ Valid(q) /\ q.opState \notin OpenOps
            /\ q # p => Reducible(p, unknown) /\ q = Apply(p, unknown)
=============================================================================
