---------------------------- MODULE SessionLedger ----------------------------
(***************************************************************************)
(* What the Kiln store promises of a Session, with its tables left out: a  *)
(* set of commits, at most one per idempotency key, each recording the     *)
(* entry it appended and the projection it produced, and per Session the   *)
(* head revision and the head projection.  SessionJournal models the       *)
(* tables, the replay that rebuilds a Session from them and the projection *)
(* cache, and implements this module.                                      *)
(*                                                                         *)
(* An action appends one entry: every caller of Journal.commit passes a    *)
(* list of exactly one.  The transaction is one step (BEGIN IMMEDIATE).    *)
(***************************************************************************)
EXTENDS SessionReducer

CONSTANTS
    Sessions,               \* Session identifiers
    Keys,                   \* idempotency keys
    Requests,               \* request digests
    Revisions               \* the revisions callers expect a Session to be at

ASSUME RevisionsAreNaturals == Revisions \subseteq Nat

VARIABLES
    commits,    \* the accepted actions
    head,       \* the current projection of each Session
    revision    \* the current revision of each Session, NoRevision before the first commit

ledgerVars == <<commits, head, revision>>

NoRevision == -1

Commits == [ key : Keys, request : Requests, session : Sessions, revision : Nat,
             entry : Entries, after : Projections ]

LedgerTypeOK ==
    /\ commits \subseteq Commits
    /\ head \in [Sessions -> Projections]
    /\ revision \in [Sessions -> Nat \cup {NoRevision}]

-----------------------------------------------------------------------------

LedgerInit ==
    /\ commits = {}
    /\ head = [s \in Sessions |-> Absent]
    /\ revision = [s \in Sessions |-> NoRevision]

\* The revision a caller must expect: 0 before the first commit too.
Expectable(s) == IF revision[s] = NoRevision THEN 0 ELSE revision[s]

\* Mutant: only the head of a Session is searched for the key.
KeyUnusedAtHead(k) == \A c \in commits : c.revision = revision[c.session] => c.key # k

KeyUnused(k) == \A c \in commits : c.key # k

\* Session start carries the precondition that no Session exists at all.
StartPrecondition(e) == e.type = "session_started" => commits = {}

\* The commit of one new action: its key is unused, the caller expects the
\* current revision, and the entry reduces.
CommitEntry(k, r, s, expected, e) ==
    /\ KeyUnused(k)
    /\ StartPrecondition(e)
    /\ expected = Expectable(s)
    /\ Reducible(head[s], e)
    /\ commits' = commits \cup
         { [ key |-> k, request |-> r, session |-> s, revision |-> revision[s] + 1,
             entry |-> e, after |-> Apply(head[s], e) ] }
    /\ head' = [head EXCEPT ![s] = Apply(@, e)]
    /\ revision' = [revision EXCEPT ![s] = @ + 1]

LedgerNext ==
    \E s \in Sessions : \E e \in {x \in Entries : Reducible(head[s], x)} :
        \E k \in Keys, r \in Requests, expected \in Revisions : CommitEntry(k, r, s, expected, e)

LedgerSpec == LedgerInit /\ [][LedgerNext]_ledgerVars

-----------------------------------------------------------------------------
(* Safety.                                                                 *)

\* An idempotency key names one action for good, whatever Session it is in.
OneCommitPerKey == \A c, d \in commits : c.key = d.key => c = d

\* The revisions of a Session's commits are 0 up to its head, each once.
DenseRevisions ==
    /\ \A c \in commits : c.revision \in 0 .. revision[c.session]
    /\ \A s \in Sessions : \A n \in 0 .. revision[s] :
          \E c \in commits : c.session = s /\ c.revision = n
    /\ \A c, d \in commits :
          c.session = d.session /\ c.revision = d.revision => c = d

\* The projection recorded with each action is what reducing its entry on the
\* projection of the action before it gives, and the last one is the head:
\* replaying the history reproduces every stored result.
ReducesFrom(p, c) == Reducible(p, c.entry) /\ c.after = Apply(p, c.entry)

Follows(c) ==
    IF c.revision = 0
    THEN ReducesFrom(Absent, c)
    ELSE \E d \in commits : /\ d.session = c.session
                            /\ d.revision = c.revision - 1
                            /\ ReducesFrom(d.after, c)

HeadIsLast(s) ==
    IF revision[s] = NoRevision
    THEN head[s] = Absent
    ELSE \E c \in commits : c.session = s /\ c.revision = revision[s] /\ c.after = head[s]

HistoryReplays == (\A c \in commits : Follows(c)) /\ (\A s \in Sessions : HeadIsLast(s))

\* The journal holds one Session: whoever lost the race to start never wrote.
AtMostOneSession == \A c, d \in commits : c.session = d.session

\* Together: the history is one replayable line, of one Session.
LedgerInv == OneCommitPerKey /\ DenseRevisions /\ HistoryReplays /\ AtMostOneSession

\* What no single validation checks: the question and the envelope it was asked
\* in are present together, exactly while the Run waits for the user, and a Run
\* is closed only when the effect of its operation is settled.
Consistent(p) ==
    /\ Valid(p)
    /\ p.envelope # None <=> p.run = "waiting_for_user"
    /\ p.permitted # {} <=> p.run = "waiting_for_user"
    /\ p.opState = "none" <=> p.opId = None
    /\ p.run \in TerminalRuns => ~Unresolved(p)

HistoryConsistent == \A c \in commits : Consistent(c.after)

-----------------------------------------------------------------------------
(* Action properties.                                                      *)

Appended == commits' \ commits

\* The transition table lets a waiting Run be canceled and lets any transition
\* make it ready; the projection invariants leave an answer the only way out.
LeftByAnswer(s) ==
    head[s].run = "waiting_for_user" /\ head'[s].run # "waiting_for_user" =>
        /\ head'[s].run = "ready"
        /\ \E c \in Appended : /\ c.entry.type = "user_decision_recorded"
                               /\ c.entry.decision = head[s].decision

WaitingLeftOnlyByAnswer == [][\A s \in Sessions : LeftByAnswer(s)]_ledgerVars

\* While an operation is open the Session changes by an observation of that very
\* operation (a criteria revision aside), and that observation never closes the Run.
Exclusive(s) ==
    head[s].opState \in OpenOps =>
        \A c \in Appended : c.session = s =>
            \/ c.entry.type = "criteria_revised"
            \/ /\ c.entry.type = "operation_observed"
               /\ c.entry.op = head[s].opId
               /\ c.after.run \notin TerminalRuns

OpenOperationExclusive == [][\A s \in Sessions : Exclusive(s)]_ledgerVars

\* A closed Run and a Run orphaned by an unknown effect stay as they are: no
\* entry, in any order, reopens them.  Only the criteria may still be revised.
Settled(p) == p.run \in TerminalRuns \/ p.opState = "unknown"

Stays(s) ==
    Settled(head[s]) => head'[s] = [head[s] EXCEPT !.criteria = head'[s].criteria]

SettledStays == [][\A s \in Sessions : Stays(s)]_ledgerVars
=============================================================================
