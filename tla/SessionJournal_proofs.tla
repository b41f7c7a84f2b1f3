------------------------ MODULE SessionJournal_proofs ------------------------
(***************************************************************************)
(* What the tables keep, for any set of Sessions, keys and requests and    *)
(* any number of faults of the medium.  The accepted commits are a ledger, *)
(* so what SessionLedger_proofs proves of every ledger is used here under  *)
(* LP; what is added is the link between that line and the tables: each    *)
(* commit owns the row and the action written in its transaction, until    *)
(* one row is altered, and from then on the Session is blocked.            *)
(*                                                                         *)
(* Replay is a recursive function over the sequences of the journal.  Its  *)
(* defining equation, and what it computes at each sequence, are proved by *)
(* induction on a set of naturals (SetInduction).                          *)
(***************************************************************************)
EXTENDS SessionJournal, TLAPS, FiniteSetTheorems

\* The ledger, with what is proved of it.
LP == INSTANCE SessionLedger_proofs
      WITH commits <- accepted, head <- LedgerHead, revision <- LedgerRevision

\* The row and the action a commit writes; a stored result may be altered later.
RowFor(c) ==
    [ sequence |-> c.revision + 1, session |-> c.session, revision |-> c.revision,
      action |-> c.revision + 1, key |-> c.key, request |-> c.request,
      entry |-> c.entry, intact |-> TRUE ]

ExpectedBy(c) == IF c.revision = 0 THEN 0 ELSE c.revision - 1

Writes(c, a) ==
    /\ a.session = c.session /\ a.key = c.key /\ a.request = c.request
    /\ a.action = c.revision + 1 /\ a.first = c.revision + 1 /\ a.last = c.revision + 1
    /\ a.expected = ExpectedBy(c)

ResultOf(c) == Report(c.after, c.revision)

\* Sequence and revision advance together, since one Session is all there is.
Sequenced ==
    /\ nextSequence \in Nat \ {0}
    /\ \A c \in accepted : c.revision + 1 \in 1 .. nextSequence - 1
    /\ \A n \in 1 .. nextSequence - 1 : \E c \in accepted : c.revision = n - 1
    /\ \A c, d \in accepted : c.revision = d.revision => c = d

\* The tables hold what commit c wrote, and nothing else in its place.
Kept(c) ==
    /\ RowFor(c) \in rows
    /\ \A r \in RowsOf(c.session) : r.action = c.revision + 1 => r = RowFor(c)
    /\ \E a \in actions : Writes(c, a)
    /\ \A a \in ActionsOf(c.session) : a.first = c.revision + 1 => Writes(c, a)

KeptBefore(c) == \A d \in accepted : d.revision < c.revision => Kept(d)

Untouched ==
    /\ \A c \in accepted : Kept(c)
    /\ \A r \in rows : \E c \in accepted : r = RowFor(c)
    /\ \A a \in actions : \E c \in accepted : Writes(c, a)
    /\ \A a, b \in actions : a.action = b.action => a = b

\* Replay reaches the sequence of commit c and finds an action that no row extends.
StopsAt(c) ==
    /\ KeptBefore(c)
    /\ \E a \in ActionsOf(c.session) : a.first = c.revision + 1
    /\ \A a \in ActionsOf(c.session), r \in RowsOf(c.session) :
          a.first = c.revision + 1 /\ r.action = a.action =>
              ~r.intact \/ r.revision # c.revision \/ a.expected # ExpectedBy(c)

Blocked ==
    /\ \E c \in accepted : /\ tampered = {c.session}
                           /\ ~BatchesSound(c.session) \/ StopsAt(c)
    /\ SessionsPresent # {}
    /\ \A s \in SessionsPresent : \E c \in accepted : s = c.session

\* A stored result is the one its commit wrote until it is altered with its digest.
ResultsKept ==
    /\ faults = 0 => forged = {} /\ \A a \in actions : a.intact
    /\ tampered = {} => \A a \in actions, c \in accepted :
                          Writes(c, a) /\ a.key \notin forged => a.result = ResultOf(c)

JInv ==
    /\ TypeOK
    /\ LP!IInv
    /\ Sequenced
    /\ tampered = {} => Untouched
    /\ tampered # {} => Blocked
    /\ faults = 0 => tampered = {}
    /\ ResultsKept

-----------------------------------------------------------------------------
(* Replay.                                                                 *)

ReplayBody(s, n, f) == IF n = 0 THEN {Empty} ELSE ReplayStep(s, n, f[n - 1])

\* The recursion of Replay has a solution, so Replay unfolds.
LEMMA ReplayUnfolds ==
    ASSUME NEW s, nextSequence \in Nat \ {0}
    PROVE  \A n \in 0 .. nextSequence - 1 : Replay(s)[n] = ReplayBody(s, n, Replay(s))
<1> DEFINE S == { m \in Nat : \E f : f = [n \in 0 .. m |-> ReplayBody(s, n, f)] }
<1>1. 0 \in S
  <2> DEFINE f == [n \in 0 .. 0 |-> {Empty}]
  <2>1. f = [n \in 0 .. 0 |-> ReplayBody(s, n, f)]
    BY DEF ReplayBody
  <2> QED BY <2>1
<1>2. ASSUME NEW m \in Nat, m \in S PROVE m + 1 \in S
  <2>1. PICK f : f = [n \in 0 .. m |-> ReplayBody(s, n, f)]
    BY <1>2
  <2> DEFINE g == [n \in 0 .. m + 1 |-> IF n = m + 1 THEN ReplayStep(s, n, f[m]) ELSE f[n]]
  <2>2. ASSUME NEW n \in 0 .. m + 1 PROVE g[n] = ReplayBody(s, n, g)
    <3>1. CASE n = m + 1
      BY <3>1 DEF ReplayBody
    <3>2. CASE n # m + 1
      <4>1. n \in 0 .. m /\ g[n] = f[n] /\ f[n] = ReplayBody(s, n, f)
        BY <2>1, <3>2
      <4>2. n # 0 => n - 1 \in 0 .. m + 1 /\ g[n - 1] = f[n - 1]
        BY <3>2
      <4> QED BY <4>1, <4>2 DEF ReplayBody
    <3> QED BY <3>1, <3>2
  <2>3. g = [n \in 0 .. m + 1 |-> ReplayBody(s, n, g)]
    BY <2>2
  <2> HIDE DEF g
  <2> QED BY <2>3
<1>3. nextSequence - 1 \in S
  <2> HIDE DEF S
  <2> QED BY <1>1, <1>2, LP!SetInduction, NoneIsNoValue, CriteriaRevisionsAreNaturals,
               ExpectedAreNaturals
<1>4. PICK g : g = [n \in 0 .. nextSequence - 1 |-> ReplayBody(s, n, g)]
  BY <1>3
<1>5. Replay(s) = CHOOSE f : f = [n \in 0 .. nextSequence - 1 |-> ReplayBody(s, n, f)]
  BY DEF Replay, ReplayBody
<1>6. Replay(s) = [n \in 0 .. nextSequence - 1 |-> ReplayBody(s, n, Replay(s))]
  BY <1>4, <1>5
<1> QED BY <1>6

-----------------------------------------------------------------------------
(* The accepted line.                                                      *)

\* The reducer of the ledger is the reducer of this module.
LEMMA SameReducer ==
    /\ LP!Absent = Absent /\ LP!Entries = Entries /\ LP!NoRevision = NoRevision
    /\ LP!Projections = Projections
    /\ \A p, e : LP!Apply(p, e) = Apply(p, e)
    /\ \A p, e : LP!Reducible(p, e) <=> Reducible(p, e)
    /\ \A p : LP!Valid(p) <=> Valid(p)
<1> USE DEF LP!RunStates, RunStates, LP!TerminalRuns, TerminalRuns, LP!OpStates, OpStates,
            LP!OpenOps, OpenOps, LP!ClosedOps, ClosedOps
<1>1. LP!Absent = Absent
  BY DEF LP!Absent, Absent
<1>2. LP!Entries = Entries
  BY DEF LP!Entries, Entries
<1>3. LP!NoRevision = NoRevision
  BY DEF LP!NoRevision, NoRevision
<1>4. LP!Projections = Projections
  BY DEF LP!Projections, Projections
<1>5. ASSUME NEW p, NEW e PROVE LP!Apply(p, e) = Apply(p, e)
  BY <1>1 DEF LP!Apply, Apply, LP!Coordinated, Coordinated, LP!Answered, Answered
<1>6. ASSUME NEW p PROVE LP!Valid(p) <=> Valid(p)
  BY DEF LP!Valid, Valid, LP!DecisionCoherent, DecisionCoherent, LP!OperationCoherent,
         OperationCoherent, LP!StatesCoordinated, StatesCoordinated
<1>7. ASSUME NEW p, NEW e PROVE LP!Accepts(p, e) <=> Accepts(p, e)
  <2>1. \A to : LP!MayTransition(p, to) <=> MayTransition(p, to)
    BY DEF LP!MayTransition, MayTransition, LP!RunTransitions, RunTransitions
  <2>2. \A to : LP!TerminalPermitted(p, to) <=> TerminalPermitted(p, to)
    BY DEF LP!TerminalPermitted, TerminalPermitted, LP!Unresolved, Unresolved
  <2>3. \A state, to : LP!MayObserve(p, state, to) <=> MayObserve(p, state, to)
    BY <2>1, <2>2 DEF LP!MayObserve, MayObserve
  <2>4. LP!ObservesCurrent(p, e) <=> ObservesCurrent(p, e)
    BY DEF LP!ObservesCurrent, ObservesCurrent, LP!OpProgression, OpProgression
  <2>5. LP!NoOpenOperation(p) <=> NoOpenOperation(p)
    BY DEF LP!NoOpenOperation, NoOpenOperation
  <2>6. LP!AnswersPending(p, e) <=> AnswersPending(p, e)
    BY DEF LP!AnswersPending, AnswersPending
  <2> HIDE DEF LP!RunStates, RunStates, LP!TerminalRuns, TerminalRuns, LP!OpStates, OpStates,
               LP!OpenOps, OpenOps, LP!ClosedOps, ClosedOps
  <2> QED BY <1>1, <2>1, <2>2, <2>3, <2>4, <2>5, <2>6 DEF LP!Accepts, Accepts
<1>8. ASSUME NEW p, NEW e PROVE LP!Reducible(p, e) <=> Reducible(p, e)
  BY <1>5, <1>6, <1>7 DEF LP!Reducible, Reducible
<1> QED BY <1>1, <1>2, <1>3, <1>4, <1>5, <1>6, <1>8

\* The report a commit extends, and what the ledger's invariant says of the line.
Base(c) == IF c.revision = 0 THEN Empty
           ELSE ResultOf(CHOOSE d \in accepted : d.revision = c.revision - 1)

LEMMA Line ==
    ASSUME JInv
    PROVE  /\ nextSequence \in Nat \ {0}
           /\ \A c \in accepted : /\ c \in LP!Commits /\ c.revision \in Nat
                                  /\ c.revision + 1 \in 1 .. nextSequence - 1
                                  /\ Reducible(Base(c).projection, c.entry)
                                  /\ c.after = Apply(Base(c).projection, c.entry)
                                  /\ Base(c).revision = c.revision - 1
                                  /\ Expected(Base(c)) = ExpectedBy(c)
           /\ \A c, d \in accepted : /\ c.session = d.session
                                     /\ c.key = d.key \/ c.revision = d.revision => c = d
<1>1. /\ nextSequence \in Nat \ {0}
      /\ \A c \in accepted : c.revision + 1 \in 1 .. nextSequence - 1
      /\ \A n \in 1 .. nextSequence - 1 : \E c \in accepted : c.revision = n - 1
      /\ \A c, d \in accepted : c.revision = d.revision => c = d
  BY DEF JInv, Sequenced
<1>2. /\ accepted \subseteq LP!Commits
      /\ \A c \in accepted : LP!Follows(c)
      /\ \A c, d \in accepted : c.key = d.key => c = d
      /\ \A c, d \in accepted : c.session = d.session
  BY DEF JInv, LP!IInv, LP!LedgerTypeOK, LP!LedgerInv, LP!HistoryReplays, LP!OneCommitPerKey,
         LP!AtMostOneSession
<1>3. \A c \in accepted : c.revision \in Nat
  BY <1>2 DEF LP!Commits
<1>4. ASSUME NEW c \in accepted
      PROVE  /\ Reducible(Base(c).projection, c.entry)
             /\ c.after = Apply(Base(c).projection, c.entry)
             /\ Base(c).revision = c.revision - 1
             /\ Expected(Base(c)) = ExpectedBy(c)
  <2>1. LP!Follows(c) /\ c.revision \in Nat
    BY <1>2, <1>3
  <2>2. CASE c.revision = 0
    <3>1. Base(c) = Empty
      BY <2>2 DEF Base
    <3> QED BY <2>1, <2>2, <3>1, SameReducer
        DEF LP!Follows, LP!ReducesFrom, Empty, Report, Expected, ExpectedBy, NoRevision
  <2>3. CASE c.revision # 0
    <3>1. PICK d \in accepted : /\ d.revision = c.revision - 1
                                /\ Reducible(d.after, c.entry)
                                /\ c.after = Apply(d.after, c.entry)
      BY <2>1, <2>3, SameReducer DEF LP!Follows, LP!ReducesFrom
    <3>2. d = CHOOSE x \in accepted : x.revision = c.revision - 1
      BY <1>1, <3>1
    <3>3. Base(c) = ResultOf(d)
      BY <2>3, <3>2 DEF Base
    <3> QED BY <2>1, <2>3, <3>1, <3>3, <1>3 DEF ResultOf, Report, Expected, ExpectedBy, NoRevision
  <2> QED BY <2>2, <2>3
<1> QED BY <1>1, <1>2, <1>3, <1>4

\* One step of the replay of any Session.
LEMMA ReplayNext ==
    ASSUME JInv, NEW s, NEW n \in Int, n \in 1 .. nextSequence - 1
    PROVE  Replay(s)[n] = ReplayStep(s, n, Replay(s)[n - 1])
<1>1. n \in 0 .. nextSequence - 1 /\ n # 0
  BY Line
<1> QED BY <1>1, ReplayUnfolds, Line DEF ReplayBody

\* Before its first sequence a Session is empty.
LEMMA ReplayZero ==
    ASSUME JInv, NEW s
    PROVE  Replay(s)[0] = {Empty}
<1>1. 0 \in 0 .. nextSequence - 1
  BY Line
<1> QED BY <1>1, ReplayUnfolds, Line DEF ReplayBody

\* The one row and action that commit c wrote take replay from the report c
\* extends to the report c stored.
LEMMA KeptStep ==
    ASSUME JInv, NEW c \in accepted, Kept(c)
    PROVE  ReplayStep(c.session, c.revision + 1, {Base(c)}) = {ResultOf(c)}
<1> DEFINE s == c.session
           n == c.revision + 1
           Pairs == { p \in ActionsOf(s) \X RowsOf(s) : p[1].first = n /\ p[2].action = p[1].action }
<1>1. PICK a \in actions : Writes(c, a)
  BY DEF Kept
<1>2. a \in ActionsOf(s) /\ RowFor(c) \in RowsOf(s)
  BY <1>1 DEF Writes, Kept, RowFor, ActionsOf, RowsOf
<1>3. \A p \in Pairs : Writes(c, p[1]) /\ p[2] = RowFor(c)
  BY DEF Kept, Writes
<1>4. <<a, RowFor(c)>> \in Pairs
  BY <1>1, <1>2 DEF Writes, RowFor
<1>5. ASSUME NEW b, Writes(c, b)
      PROVE  Extends(b, RowFor(c), Base(c)) /\ Extended(RowFor(c), Base(c)) = ResultOf(c)
  BY <1>5, Line DEF Extends, Extended, Writes, RowFor, ResultOf
<1>6. \A p \in Pairs : { Extended(p[2], x) : x \in {y \in {Base(c)} : Extends(p[1], p[2], y)} }
                         = {ResultOf(c)}
  BY <1>3, <1>5
<1>7. UNION { { Extended(p[2], x) : x \in {y \in {Base(c)} : Extends(p[1], p[2], y)} } : p \in Pairs }
        = {ResultOf(c)}
  <2> HIDE DEF Pairs
  <2> QED BY <1>4, <1>6
<1>8. ~ \A b \in ActionsOf(s) : b.first # n
  BY <1>1, <1>2 DEF Writes
<1> QED BY <1>7, <1>8 DEF ReplayStep

\* Replay reaches commit c with the report c stored, when everything up to c is kept.
LEMMA ReplayReaches ==
    ASSUME JInv, NEW c \in accepted, KeptBefore(c), Kept(c)
    PROVE  Replay(c.session)[c.revision + 1] = {ResultOf(c)}
<1> DEFINE P(m, d) == d.revision = m /\ KeptBefore(d) /\ Kept(d) =>
                         Replay(d.session)[d.revision + 1] = {ResultOf(d)}
           S == { m \in Nat : \A d \in accepted : P(m, d) }
<1>1. ASSUME NEW d \in accepted, KeptBefore(d), Kept(d),
             Replay(d.session)[d.revision] = {Base(d)}
      PROVE  Replay(d.session)[d.revision + 1] = {ResultOf(d)}
  <2>1. /\ d.revision \in Nat /\ d.revision + 1 \in 0 .. nextSequence - 1
        /\ d.revision + 1 # 0 /\ (d.revision + 1) - 1 = d.revision
    BY Line
  <2>2. Replay(d.session)[d.revision + 1] =
          ReplayStep(d.session, d.revision + 1, Replay(d.session)[d.revision])
    BY <2>1, ReplayUnfolds, Line DEF ReplayBody
  <2> QED BY <1>1, <2>2, KeptStep
<1>2. \A s : Replay(s)[0] = {Empty}
  BY ReplayUnfolds, Line DEF ReplayBody
<1>3. 0 \in S
  <2> SUFFICES ASSUME NEW d \in accepted, d.revision = 0, KeptBefore(d), Kept(d)
               PROVE  Replay(d.session)[d.revision + 1] = {ResultOf(d)}
    OBVIOUS
  <2>1. Base(d) = Empty
    BY DEF Base
  <2> QED BY <1>1, <1>2, <2>1
<1>4. ASSUME NEW m \in Nat, m \in S PROVE m + 1 \in S
  <2> SUFFICES ASSUME NEW d \in accepted, d.revision = m + 1, KeptBefore(d), Kept(d)
               PROVE  Replay(d.session)[d.revision + 1] = {ResultOf(d)}
    OBVIOUS
  <2>1. PICK b \in accepted : b.revision = m
    BY Line DEF JInv, Sequenced
  <2>2. KeptBefore(b) /\ Kept(b) /\ b.session = d.session
    BY <2>1, Line DEF KeptBefore
  <2>3. Replay(d.session)[m + 1] = {ResultOf(b)}
    BY <1>4, <2>1, <2>2
  <2>4. Base(d) = ResultOf(b)
    BY <2>1, Line DEF Base
  <2> QED BY <1>1, <2>3, <2>4
<1>5. c.revision \in S
  <2>1. c.revision \in Nat
    BY Line
  <2> HIDE DEF S
  <2> QED BY <1>3, <1>4, <2>1, LP!SetInduction, NoneIsNoValue, CriteriaRevisionsAreNaturals,
               ExpectedAreNaturals
<1> QED BY <1>5

\* An action that no row extends stops replay for good.
LEMMA ReplayStops ==
    ASSUME JInv, NEW c \in accepted, StopsAt(c)
    PROVE  Replay(c.session)[nextSequence - 1] = {}
<1> DEFINE s == c.session
           S == { m \in Nat : c.revision + 1 + m \in 0 .. nextSequence - 1
                                 => Replay(s)[c.revision + 1 + m] = {} }
<1>1. c.revision \in Nat /\ c.revision + 1 \in 1 .. nextSequence - 1 /\ nextSequence \in Nat
  BY Line
<1>2. Replay(s)[c.revision] = {Base(c)}
  <2>1. CASE c.revision = 0
    BY <2>1, ReplayUnfolds, Line DEF ReplayBody, Base
  <2>2. CASE c.revision # 0
    <3>1. PICK d \in accepted : d.revision = c.revision - 1
      BY <2>2, <1>1, Line DEF JInv, Sequenced
    <3>2. KeptBefore(d) /\ Kept(d) /\ d.session = s /\ d.revision + 1 = c.revision
      BY <3>1, <1>1, Line DEF KeptBefore, StopsAt
    <3>3. Base(c) = ResultOf(d)
      BY <2>2, <3>1, Line DEF Base
    <3> QED BY <3>2, <3>3, ReplayReaches
  <2> QED BY <2>1, <2>2
<1>3. 0 \in S
  <2>1. Replay(s)[c.revision + 1] = ReplayStep(s, c.revision + 1, {Base(c)})
    <3> DEFINE n == c.revision + 1
    <3>1. n \in Int /\ n \in 1 .. nextSequence - 1 /\ n - 1 = c.revision
      BY <1>1
    <3> HIDE DEF n
    <3>2. Replay(s)[n] = ReplayStep(s, n, {Base(c)})
      BY <1>2, <3>1, ReplayNext
    <3> QED BY <3>2 DEF n
  <2>2. ASSUME NEW p \in ActionsOf(s) \X RowsOf(s),
               p[1].first = c.revision + 1, p[2].action = p[1].action
        PROVE  ~Extends(p[1], p[2], Base(c))
    <3>1. ~p[2].intact \/ p[2].revision # c.revision \/ p[1].expected # ExpectedBy(c)
      BY <2>2 DEF StopsAt
    <3>2. Base(c).revision = c.revision - 1 /\ Expected(Base(c)) = ExpectedBy(c)
      BY Line
    <3>3. (c.revision - 1) + 1 = c.revision
      BY <1>1
    <3> QED BY <3>1, <3>2, <3>3 DEF Extends
  <2>3. ReplayStep(s, c.revision + 1, {Base(c)}) = {}
    BY <2>2 DEF ReplayStep, StopsAt
  <2>4. c.revision + 1 + 0 = c.revision + 1
    BY <1>1
  <2> QED BY <2>1, <2>3, <2>4
<1>4. ASSUME NEW m \in Nat, m \in S PROVE m + 1 \in S
  <2> SUFFICES ASSUME c.revision + 1 + (m + 1) \in 0 .. nextSequence - 1
               PROVE  Replay(s)[c.revision + 1 + (m + 1)] = {}
    OBVIOUS
  <2> DEFINE n == c.revision + 1 + (m + 1)
  <2>1. n - 1 = c.revision + 1 + m /\ n # 0 /\ c.revision + 1 + m \in 0 .. nextSequence - 1
    BY <1>1
  <2>2. Replay(s)[n - 1] = {}
    BY <1>4, <2>1
  <2>3. Replay(s)[n] = ReplayStep(s, n, {})
    <3>1. n \in Int /\ n \in 1 .. nextSequence - 1
      BY <1>1
    <3> HIDE DEF n
    <3> QED BY <2>2, <3>1, ReplayNext
  <2>4. ReplayStep(s, n, {}) = {}
    BY DEF ReplayStep
  <2> QED BY <2>3, <2>4
<1>5. (nextSequence - 1) - (c.revision + 1) \in S
  <2>1. (nextSequence - 1) - (c.revision + 1) \in Nat
    BY <1>1
  <2> HIDE DEF S
  <2> QED BY <1>3, <1>4, <2>1, LP!SetInduction, NoneIsNoValue, CriteriaRevisionsAreNaturals,
               ExpectedAreNaturals
<1> QED BY <1>1, <1>5

\* A Session no action mentions replays to nothing.
LEMMA ReplayElsewhere ==
    ASSUME JInv, NEW s, ActionsOf(s) = {}
    PROVE  Replay(s)[nextSequence - 1] = {Empty}
<1> DEFINE S == { m \in Nat : m \in 0 .. nextSequence - 1 => Replay(s)[m] = {Empty} }
<1>1. 0 \in S
  BY ReplayUnfolds, Line DEF ReplayBody
<1>2. ASSUME NEW m \in Nat, m \in S PROVE m + 1 \in S
  <2> SUFFICES ASSUME m + 1 \in 0 .. nextSequence - 1 PROVE Replay(s)[m + 1] = {Empty}
    OBVIOUS
  <2>1. Replay(s)[m] = {Empty}
    BY <1>2, Line
  <2>2. Replay(s)[m + 1] = ReplayStep(s, m + 1, Replay(s)[(m + 1) - 1])
    BY ReplayUnfolds, Line DEF ReplayBody
  <2> QED BY <2>1, <2>2 DEF ReplayStep
<1>3. nextSequence - 1 \in S
  <2> HIDE DEF S
  <2> QED BY <1>1, <1>2, LP!SetInduction, Line, NoneIsNoValue,
               CriteriaRevisionsAreNaturals, ExpectedAreNaturals
<1> QED BY <1>3, Line

-----------------------------------------------------------------------------
(* What rebuilding a Session gives.                                        *)

\* Untouched tables hold exactly the rows their actions declare.
LEMMA UntouchedIsSound ==
    ASSUME JInv, tampered = {}, NEW s
    PROVE  BatchesSound(s)
<1>1. Untouched
  BY DEF JInv
<1>2. ASSUME NEW r \in RowsOf(s) PROVE \E a \in ActionsOf(s) : a.action = r.action
  <2>1. PICK c \in accepted : r = RowFor(c)
    BY <1>1 DEF Untouched, RowsOf
  <2>2. PICK a \in actions : Writes(c, a)
    BY <1>1 DEF Untouched, Kept
  <2>3. r.session = s /\ r.session = c.session /\ r.action = c.revision + 1
    BY <2>1 DEF RowsOf, RowFor
  <2> QED BY <2>2, <2>3 DEF Writes, ActionsOf
<1>3. ASSUME NEW a \in ActionsOf(s) PROVE BatchSound(a)
  <2>1. PICK c \in accepted : Writes(c, a)
    BY <1>1 DEF Untouched, ActionsOf
  <2> DEFINE r == RowFor(c)
             n == c.revision + 1
  <2>2. RowsOfAction(a) = {r}
    <3>1. r \in RowsOfAction(a)
      BY <1>1, <2>1 DEF Untouched, Kept, RowsOfAction, RowsOf, Writes, RowFor
    <3>2. ASSUME NEW x \in RowsOfAction(a) PROVE x = r
      BY <1>1, <2>1 DEF Untouched, Kept, RowsOfAction, RowsOf, Writes
    <3> QED BY <3>1, <3>2
  <2>3. Cardinality({r}) = 1
    BY FS_Singleton
  <2>4. n \in Int /\ a.first = n /\ a.last = n /\ r.sequence = n
    BY <2>1, Line DEF Writes, RowFor
  <2>5. a.last - a.first + 1 = 1 /\ {r.sequence} = a.first .. a.last
    <3> HIDE DEF n, r
    <3> QED BY <2>4
  <2>6. r.key = a.key /\ r.request = a.request
    BY <2>1 DEF Writes, RowFor
  <2> HIDE DEF r
  <2> QED BY <2>2, <2>3, <2>5, <2>6 DEF BatchSound
<1> QED BY <1>2, <1>3 DEF BatchesSound

\* The head of the ledger is the commit with the last sequence.
LEMMA HeadIs ==
    ASSUME JInv, NEW s \in Sessions
    PROVE  /\ ~Accepted(s) => LedgerHead[s] = Absent /\ LedgerRevision[s] = NoRevision
           /\ \A c \in accepted : c.session = s /\ c.revision = nextSequence - 2 =>
                 LedgerHead[s] = c.after /\ LedgerRevision[s] = c.revision
<1>1. ~Accepted(s) => LedgerHead[s] = Absent /\ LedgerRevision[s] = NoRevision
  BY DEF LedgerHead, LedgerRevision
<1>2. ASSUME NEW c \in accepted, c.session = s, c.revision = nextSequence - 2
      PROVE  LedgerHead[s] = c.after /\ LedgerRevision[s] = c.revision
  <2> DEFINE mine == { d \in accepted : d.session = s }
  <2>1. \A d \in mine : d.revision <= c.revision /\ d.revision \in Int /\ c.revision \in Int
    BY <1>2, Line
  <2>2. \A d \in mine : (\A x \in mine : x.revision <= d.revision) <=> d = c
    BY <1>2, <2>1, Line
  <2>3. LastAccepted(s) = c
    BY <1>2, <2>2 DEF LastAccepted
  <2> QED BY <1>2, <2>3 DEF LedgerHead, LedgerRevision, Accepted
<1> QED BY <1>1, <1>2

\* The commit with the last sequence.
LEMMA LastCommit ==
    ASSUME JInv, NEW c \in accepted
    PROVE  \E d \in accepted : d.revision = nextSequence - 2 /\ d.session = c.session
<1>1. nextSequence - 1 \in 1 .. nextSequence - 1 /\ nextSequence \in Nat
  BY Line
<1>2. PICK d \in accepted : d.revision = (nextSequence - 1) - 1
  BY <1>1 DEF JInv, Sequenced
<1> QED BY <1>1, <1>2, Line

LEMMA RebuildIs ==
    ASSUME JInv, NEW s \in Sessions
    PROVE  /\ s \in tampered => Rebuild(s) = {}
           /\ s \notin tampered =>
                 Rebuild(s) = {Report(LedgerHead[s], LedgerRevision[s])}
           /\ tampered # {} => ~Accepted(s) \/ s \in tampered
<1>1. CASE tampered = {} /\ Accepted(s)
  <2>1. PICK c \in accepted : c.session = s /\ c.revision = nextSequence - 2
    BY <1>1, LastCommit DEF Accepted
  <2>2. Kept(c) /\ KeptBefore(c)
    BY <1>1 DEF JInv, Untouched, KeptBefore
  <2>3. Replay(s)[nextSequence - 1] = {ResultOf(c)}
    <3>1. c.revision + 1 = nextSequence - 1
      BY <2>1, Line
    <3> QED BY <2>1, <2>2, <3>1, ReplayReaches
  <2>4. Rebuild(s) = {Report(LedgerHead[s], LedgerRevision[s])}
    BY <1>1, <2>1, <2>3, HeadIs, UntouchedIsSound DEF Rebuild, ResultOf
  <2> QED BY <1>1, <2>4
<1>2. CASE tampered = {} /\ ~Accepted(s)
  <2>1. ActionsOf(s) = {}
    BY <1>2 DEF JInv, Untouched, Writes, ActionsOf, Accepted
  <2>2. Rebuild(s) = {Empty}
    BY <1>2, <2>1, ReplayElsewhere, UntouchedIsSound DEF Rebuild
  <2> QED BY <1>2, <2>2, HeadIs DEF Empty
<1>3. CASE tampered # {} /\ s \in tampered
  <2>1. PICK c \in accepted : /\ tampered = {c.session}
                              /\ ~BatchesSound(c.session) \/ StopsAt(c)
    BY <1>3 DEF JInv, Blocked
  <2>2. Rebuild(s) = {}
    BY <1>3, <2>1, ReplayStops DEF Rebuild
  <2> QED BY <1>3, <2>2
<1>4. CASE tampered # {} /\ s \notin tampered
  <2>1. /\ \E c \in accepted : tampered = {c.session}
        /\ \A t \in SessionsPresent : \E c \in accepted : t = c.session
    BY <1>4 DEF JInv, Blocked
  <2>2. ~Accepted(s)
    BY <1>4, <2>1, Line DEF Accepted
  <2>3. ActionsOf(s) = {} /\ RowsOf(s) = {}
    BY <2>1, <2>2 DEF SessionsPresent, ActionsOf, RowsOf, Accepted
  <2>4. Rebuild(s) = {Empty}
    BY <2>3, ReplayElsewhere DEF Rebuild, BatchesSound
  <2> QED BY <1>4, <2>2, <2>4, HeadIs DEF Empty
<1> QED BY <1>1, <1>2, <1>3, <1>4

-----------------------------------------------------------------------------
(* The inductive invariant.                                                *)

LEMMA JournalInit == Init => JInv
<1> SUFFICES ASSUME Init PROVE JInv
  OBVIOUS
<1>1. TypeOK
  BY MaxFaultsIsNatural
     DEF Init, TypeOK, CacheRecords, NoCache, NoRevision, Projections, Absent
<1>2. LP!LedgerInit
  BY SameReducer
     DEF Init, LP!LedgerInit, LedgerHead, LedgerRevision, Accepted, NoRevision, LP!NoRevision
<1>3. LP!IInv
  BY <1>2, LP!LedgerInitInv, NoneIsNoValue, CriteriaRevisionsAreNaturals, ExpectedAreNaturals
<1> QED BY <1>1, <1>3 DEF Init, JInv, Sequenced, Untouched, ResultsKept

\* The three tables after the commit of c.
Committed(c) ==
    /\ tampered = {} /\ c.revision = nextSequence - 1
    /\ accepted' = accepted \cup {c}
    /\ rows' = rows \cup {RowFor(c)}
    /\ \E a \in ActionCommits : /\ Writes(c, a) /\ a.intact /\ a.result = ResultOf(c)
                                /\ actions' = actions \cup {a}
    /\ nextSequence' = nextSequence + 1
    /\ cache' = [cache EXCEPT ![c.session] = Cached(ResultOf(c))]
    /\ UNCHANGED <<tampered, forged, faults>>

\* A commit on the tables is a commit of the ledger, on a journal nobody altered.
LEMMA CommitStep ==
    ASSUME JInv, NEW s \in Sessions, Commit(s)
    PROVE  \E e \in Entries, expected \in Revisions, k \in Keys, request \in Requests :
              \E c \in LP!Commits :
                 /\ c.session = s /\ Committed(c)
                 /\ LP!CommitEntry(k, request, s, expected, e)
<1> DEFINE base == Report(LedgerHead[s], LedgerRevision[s])
<1>1. Rebuild(s) = {base} /\ s \notin tampered /\ (tampered # {} => ~Accepted(s))
  BY RebuildIs DEF Commit
<1>2. PICK e \in Entries, expected \in Revisions, k \in Keys, request \in Requests :
         LET next == Report(Apply(base.projection, e), base.revision + 1)
         IN  /\ Reducible(base.projection, e)
             /\ KeyFree(k)
             /\ e.type = "session_started" => SessionsPresent = {}
             /\ expected = Expected(base)
             /\ Write(k, request, s, expected, e, next)
             /\ accepted' = accepted \cup
                  { [ key |-> k, request |-> request, session |-> s,
                      revision |-> next.revision, entry |-> e, after |-> next.projection ] }
             /\ UNCHANGED <<tampered, forged, faults>>
  BY <1>1 DEF Commit
<1> DEFINE next == Report(Apply(base.projection, e), base.revision + 1)
           c == [ key |-> k, request |-> request, session |-> s,
                  revision |-> next.revision, entry |-> e, after |-> next.projection ]
<1>3. /\ base.projection = LedgerHead[s] /\ base.revision = LedgerRevision[s]
      /\ c.revision = LedgerRevision[s] + 1 /\ c.after = Apply(LedgerHead[s], e)
      /\ Reducible(LedgerHead[s], e)
  BY <1>2 DEF Report
<1>4. LP!IInv
  BY DEF JInv
<1>5. ~Accepted(s) => e.type = "session_started"
  BY <1>3, HeadIs, LP!OnlyStartOnAbsent, SameReducer, NoneIsNoValue,
     CriteriaRevisionsAreNaturals, ExpectedAreNaturals
<1>6. tampered = {}
  BY <1>1, <1>2, <1>5 DEF JInv, Blocked
<1>7. e.type = "session_started" => accepted = {}
  <2>1. \A d \in accepted : RowFor(d) \in rows
    BY <1>6 DEF JInv, Untouched, Kept
  <2>2. SessionsPresent = {} => rows = {}
    BY DEF SessionsPresent
  <2>3. e.type = "session_started" => SessionsPresent = {}
    BY <1>2
  <2> HIDE DEF c, next, base
  <2> QED BY <2>1, <2>2, <2>3
<1>8. LedgerRevision[s] = nextSequence - 2
  <2>1. CASE Accepted(s)
    BY <2>1, LastCommit, HeadIs DEF Accepted
  <2>2. CASE ~Accepted(s)
    <3>1. accepted = {}
      BY <2>2, <1>5, <1>7
    <3>2. nextSequence = 1
      BY <3>1 DEF JInv, Sequenced
    <3> QED BY <2>2, <3>2, HeadIs DEF NoRevision
  <2> QED BY <2>1, <2>2
<1>9. nextSequence \in Nat \ {0} /\ c.revision \in Nat /\ c.revision = nextSequence - 1
  BY <1>3, <1>8, Line
<1>10. expected = ExpectedBy(c) /\ expected = LP!Expectable(s) /\ expected \in Nat
  BY <1>2, <1>3, <1>8, <1>9, ExpectedAreNaturals, SameReducer
     DEF Expected, ExpectedBy, LP!Expectable, NoRevision
<1>11. c \in LP!Commits /\ c.after \in Projections
  <2>1. LedgerHead[s] \in Projections
    BY <1>4, SameReducer DEF LP!IInv, LP!LedgerTypeOK
  <2>2. c.after \in Projections
    BY <1>3, <2>1, LP!ApplyType, SameReducer, NoneIsNoValue, CriteriaRevisionsAreNaturals,
       ExpectedAreNaturals
  <2> QED BY <1>9, <2>2, SameReducer DEF LP!Commits
<1>12. Committed(c)
  <2> DEFINE a == [ action |-> nextSequence, session |-> s, key |-> k, request |-> request,
                    expected |-> expected, first |-> nextSequence, last |-> nextSequence,
                    result |-> next, intact |-> TRUE ]
  <2>1. rows' = rows \cup {RowFor(c)}
    BY <1>2, <1>9 DEF Write, RowFor
  <2>2. actions' = actions \cup {a} /\ nextSequence' = nextSequence + 1
    BY <1>2 DEF Write
  <2>3. Writes(c, a) /\ a.intact /\ a.result = ResultOf(c)
    BY <1>9, <1>10 DEF Writes, ResultOf, Report
  <2>4. a \in ActionCommits
    BY <1>9, <1>10, <1>11 DEF ActionCommits, Reports, Report
  <2>5. cache' = [cache EXCEPT ![s] = Cached(ResultOf(c))]
    BY <1>2 DEF Write, Refresh, ResultOf, Report
  <2> HIDE DEF a
  <2> QED BY <1>2, <1>6, <1>9, <2>1, <2>2, <2>3, <2>4, <2>5 DEF Committed
<1>13. LP!CommitEntry(k, request, s, expected, e)
  <2>1. LP!KeyUnused(k)
    BY <1>2, <1>6 DEF KeyFree, LP!KeyUnused, JInv, Untouched, Kept, Writes
  <2>2. \A d \in accepted : d.revision < c.revision /\ d.revision \in Nat
    BY <1>9, Line
  <2>3. LastAccepted(s)' = c /\ Accepted(s)'
    <3> DEFINE mine == { d \in accepted \cup {c} : d.session = s }
    <3>1. c \in mine /\ \A d \in mine : d.revision <= c.revision /\ (d # c => ~(c.revision <= d.revision))
      BY <1>9, <2>2
    <3>2. (CHOOSE d \in mine : \A x \in mine : x.revision <= d.revision) = c
      BY <3>1
    <3>3. accepted' = accepted \cup {c}
      BY <1>2
    <3> QED BY <3>1, <3>2, <3>3 DEF LastAccepted, Accepted
  <2>4. ASSUME NEW t \in Sessions \ {s}
        PROVE  LastAccepted(t)' = LastAccepted(t) /\ (Accepted(t)' <=> Accepted(t))
    <3>1. accepted' = accepted \cup {c} /\ c.session # t
      BY <1>2
    <3>2. { d \in accepted' : d.session = t } = { d \in accepted : d.session = t }
      BY <3>1
    <3> QED BY <3>1, <3>2 DEF LastAccepted, Accepted
  <2>5. LedgerHead' = [LedgerHead EXCEPT ![s] = Apply(@, e)]
    BY <1>3, <2>3, <2>4 DEF LedgerHead
  <2>6. LedgerRevision' = [LedgerRevision EXCEPT ![s] = @ + 1]
    BY <1>3, <2>3, <2>4 DEF LedgerRevision
  <2>7. accepted' = accepted \cup { [ key |-> k, request |-> request, session |-> s,
                                      revision |-> LedgerRevision[s] + 1, entry |-> e,
                                      after |-> Apply(LedgerHead[s], e) ] }
    BY <1>2, <1>3 DEF Report
  <2>8. LP!Apply(LedgerHead[s], e) = Apply(LedgerHead[s], e) /\ LP!Reducible(LedgerHead[s], e)
    BY <1>3, SameReducer
  <2> QED BY <1>7, <1>10, <2>1, <2>5, <2>6, <2>7, <2>8
      DEF LP!CommitEntry, LP!StartPrecondition
<1> HIDE DEF c
<1>14. c.session = s
  BY DEF c
<1> QED BY <1>11, <1>12, <1>13, <1>14

LEMMA CommitInv ==
    ASSUME JInv, NEW s \in Sessions, Commit(s)
    PROVE  JInv'
<1>1. PICK e \in Entries, expected \in Revisions, k \in Keys, request \in Requests,
           c \in LP!Commits :
              c.session = s /\ Committed(c) /\ LP!CommitEntry(k, request, s, expected, e)
  BY CommitStep
<1>2. PICK a \in ActionCommits : /\ Writes(c, a) /\ a.intact /\ a.result = ResultOf(c)
                                 /\ actions' = actions \cup {a}
  BY <1>1 DEF Committed
<1>3. /\ tampered = {} /\ c.revision = nextSequence - 1 /\ accepted' = accepted \cup {c}
      /\ rows' = rows \cup {RowFor(c)} /\ nextSequence' = nextSequence + 1
      /\ tampered' = {} /\ faults' = faults /\ forged' = forged
      /\ c.revision \in Nat /\ nextSequence \in Nat \ {0}
  BY <1>1, Line DEF Committed, LP!Commits
<1>4. \A d \in accepted : /\ d.revision \in Nat /\ d.revision + 1 \in 1 .. nextSequence - 1
                          /\ d.revision # c.revision
  BY <1>3, Line
<1>5. Untouched
  BY <1>3 DEF JInv
<1>6. LP!IInv'
  <2>1. LP!IInv
    BY DEF JInv
  <2> QED BY <1>1, <2>1, LP!CommitAppends, LP!AppendsInv, SameReducer, NoneIsNoValue,
             CriteriaRevisionsAreNaturals, ExpectedAreNaturals
<1>7. TypeOK'
  <2>1. RowFor(c) \in JournalRows
    BY <1>1, <1>3, SameReducer DEF RowFor, JournalRows, LP!Commits
  <2>2. cache' \in [Sessions -> CacheRecords]
    <3>1. Cached(ResultOf(c)) \in CacheRecords
      BY <1>1, SameReducer DEF Cached, ResultOf, Report, CacheRecords, LP!Commits
    <3> QED BY <1>1, <3>1 DEF Committed, JInv, TypeOK
  <2> QED BY <1>2, <1>3, <2>1, <2>2 DEF JInv, TypeOK
<1>8. Sequenced'
  <2>1. \A d \in accepted' : d.revision + 1 \in 1 .. nextSequence' - 1
    BY <1>3, <1>4
  <2>2. ASSUME NEW n \in 1 .. nextSequence' - 1 PROVE \E d \in accepted' : d.revision = n - 1
    <3>1. CASE n = nextSequence
      BY <1>3, <3>1
    <3>2. CASE n # nextSequence
      <4>1. n \in 1 .. nextSequence - 1
        BY <1>3, <3>2
      <4> QED BY <1>3, <4>1 DEF JInv, Sequenced
    <3> QED BY <3>1, <3>2
  <2>3. \A x, y \in accepted' : x.revision = y.revision => x = y
    BY <1>3, <1>4, Line
  <2> QED BY <1>3, <2>1, <2>2, <2>3 DEF Sequenced
<1>9. Untouched'
  <2>1. \A d \in accepted' : d.revision + 1 = c.revision + 1 => d = c
    BY <1>3, <1>4
  <2>2. \A r \in rows' : \E d \in accepted' : r = RowFor(d)
    BY <1>3, <1>5 DEF Untouched
  <2>3. \A b \in actions' : \E d \in accepted' : Writes(d, b)
    BY <1>2, <1>3, <1>5 DEF Untouched
  <2>4. \A b \in actions : b.action # a.action
    BY <1>2, <1>5, <2>1, <1>3, <1>4 DEF Untouched, Writes
  <2>5. \A x, y \in actions' : x.action = y.action => x = y
    BY <1>2, <1>5, <2>4 DEF Untouched
  <2>6. ASSUME NEW d \in accepted' PROVE Kept(d)'
    <3>1. \A x, y \in accepted' : x.revision + 1 = y.revision + 1 => x = y
      BY <1>3, <1>4, Line
    <3>2. RowFor(d) \in rows' /\ \E b \in actions' : Writes(d, b)
      BY <1>2, <1>3, <1>5 DEF Untouched, Kept
    <3>3. ASSUME NEW r \in rows', r.action = d.revision + 1 PROVE r = RowFor(d)
      BY <2>2, <3>1, <3>3 DEF RowFor
    <3>4. ASSUME NEW b \in actions', b.first = d.revision + 1 PROVE Writes(d, b)
      BY <2>3, <3>1, <3>4 DEF Writes
    <3> QED BY <3>2, <3>3, <3>4 DEF Kept, RowsOf, ActionsOf, Writes, RowFor
  <2> QED BY <2>2, <2>3, <2>5, <2>6 DEF Untouched
<1>10. ResultsKept'
  <2>1. faults' = 0 => forged' = {} /\ \A b \in actions' : b.intact
    BY <1>2, <1>3 DEF JInv, ResultsKept
  <2>2. ASSUME NEW b \in actions', NEW d \in accepted', Writes(d, b), b.key \notin forged
        PROVE  b.result = ResultOf(d)
    <3>1. CASE b \in actions /\ d \in accepted
      BY <1>3, <2>2, <3>1 DEF JInv, ResultsKept
    <3>2. CASE b = a
      BY <1>2, <1>3, <1>4, <2>2, <3>2 DEF Writes
    <3>3. CASE b \in actions /\ d = c
      <4>1. PICK x \in accepted : Writes(x, b)
        BY <1>5, <3>3 DEF Untouched
      <4>2. x.revision + 1 = c.revision + 1
        BY <2>2, <3>3, <4>1 DEF Writes
      <4> QED BY <1>3, <1>4, <4>1, <4>2
    <3> QED BY <1>2, <1>3, <2>2, <3>1, <3>2, <3>3
  <2> QED BY <1>3, <2>1, <2>2 DEF ResultsKept, Writes, ResultOf
<1> QED BY <1>3, <1>6, <1>7, <1>8, <1>9, <1>10 DEF JInv

\* A step that leaves the authoritative tables alone.
LEMMA TablesInv ==
    ASSUME JInv, UNCHANGED <<tables, accepted, tampered, forged>>, TypeOK',
           faults' = faults \/ faults' = faults + 1
    PROVE  JInv'
<1>1. UNCHANGED <<rows, actions, nextSequence, accepted, tampered, forged>>
  BY DEF tables
<1>2. LP!IInv'
  <2>1. UNCHANGED <<LedgerHead, LedgerRevision>>
    BY <1>1 DEF LedgerHead, LedgerRevision, Accepted, LastAccepted
  <2> QED BY <1>1, <2>1, LP!StutterInv, NoneIsNoValue, CriteriaRevisionsAreNaturals,
             ExpectedAreNaturals DEF JInv, LP!ledgerVars
<1>3. Sequenced'
  BY <1>1 DEF JInv, Sequenced
<1>4. \A c : Kept(c)' <=> Kept(c)
  BY <1>1 DEF Kept, RowsOf, ActionsOf, RowFor, Writes
<1>5. Untouched' <=> Untouched
  BY <1>1, <1>4 DEF Untouched, RowFor, Writes
<1>6. \A s : BatchesSound(s)' <=> BatchesSound(s)
  BY <1>1 DEF BatchesSound, BatchSound, RowsOfAction, RowsOf, ActionsOf
<1>7. \A c : StopsAt(c)' <=> StopsAt(c)
  BY <1>1, <1>4 DEF StopsAt, KeptBefore, RowsOf, ActionsOf
<1>8. Blocked' <=> Blocked
  BY <1>1, <1>6, <1>7 DEF Blocked, SessionsPresent
<1>9. faults' = 0 => faults = 0
  BY DEF JInv, TypeOK
<1>10. ResultsKept'
  BY <1>1, <1>9 DEF JInv, ResultsKept, Writes, ResultOf
<1> QED BY <1>1, <1>2, <1>3, <1>5, <1>8, <1>9, <1>10 DEF JInv

\* The cache alone moves: a repair, a loss, a damage, an older copy.
LEMMA CacheInv ==
    ASSUME JInv, NEW s \in Sessions, Compare(s) \/ DamageCache(s)
    PROVE  JInv'
<1>1. CASE Compare(s)
  <2>1. PICK report \in Rebuild(s) \ {Empty} :
           Refresh(s, report) /\ UNCHANGED <<tables, accepted, tampered, forged, faults>>
    BY <1>1 DEF Compare
  <2>2. report = Report(LedgerHead[s], LedgerRevision[s]) /\ LedgerRevision[s] \in Nat \cup {NoRevision}
        /\ LedgerHead[s] \in Projections
    BY <2>1, RebuildIs, SameReducer DEF JInv, LP!IInv, LP!LedgerTypeOK
  <2>3. Cached(report) \in CacheRecords
    BY <2>2 DEF Cached, Report, CacheRecords
  <2>4. TypeOK'
    BY <2>1, <2>3 DEF Refresh, tables, JInv, TypeOK
  <2> QED BY <2>1, <2>4, TablesInv
<1>2. CASE DamageCache(s)
  <2>1. PICK damaged \in
            { [cache[s] EXCEPT !.status = kind] : kind \in {"malformed", "bad_metadata"} }
            \cup { NoCache }
            \cup { Cached(Report(c.after, c.revision)) : c \in {x \in accepted : x.session = s} } :
               cache' = [cache EXCEPT ![s] = damaged]
    BY <1>2 DEF DamageCache
  <2>2. cache[s] \in CacheRecords
    BY DEF JInv, TypeOK
  <2>3. \A kind \in {"malformed", "bad_metadata"} : [cache[s] EXCEPT !.status = kind] \in CacheRecords
    BY <2>2 DEF CacheRecords
  <2>4. NoCache \in CacheRecords
    BY DEF NoCache, CacheRecords, NoRevision, Projections, Absent
  <2>5. \A c \in accepted : Cached(Report(c.after, c.revision)) \in CacheRecords
    BY Line, SameReducer DEF Cached, Report, CacheRecords, LP!Commits
  <2>6. damaged \in CacheRecords
    BY <2>1, <2>3, <2>4, <2>5
  <2>7. faults \in 0 .. MaxFaults /\ faults < MaxFaults
    BY <1>2 DEF DamageCache, Fault, JInv, TypeOK
  <2>8. UNCHANGED <<tables, accepted, tampered, forged>> /\ faults' = faults + 1
    BY <1>2 DEF DamageCache, Fault, tables
  <2>9. TypeOK'
    BY <2>1, <2>6, <2>7, <2>8, MaxFaultsIsNatural DEF tables, JInv, TypeOK
  <2> QED BY <2>8, <2>9, TablesInv
<1> QED BY <1>1, <1>2

\* One fault of the authoritative tables: what it leaves alone, and what is to show.
LEMMA TamperFacts ==
    ASSUME JInv, NEW c \in accepted, tampered = {}, Fault({c.session}), TypeOK',
           SessionsPresent' = {c.session}, (~BatchesSound(c.session) \/ StopsAt(c))'
    PROVE  JInv'
<1>1. /\ tampered' = {c.session} /\ faults' = faults + 1 /\ UNCHANGED <<nextSequence, accepted>>
  BY DEF Fault
<1>2. faults' # 0
  BY <1>1 DEF JInv, TypeOK
<1>3. LP!IInv'
  <2>1. UNCHANGED <<LedgerHead, LedgerRevision>>
    BY <1>1 DEF LedgerHead, LedgerRevision, Accepted, LastAccepted
  <2> QED BY <1>1, <2>1, LP!StutterInv, NoneIsNoValue, CriteriaRevisionsAreNaturals,
             ExpectedAreNaturals DEF JInv, LP!ledgerVars
<1>4. Sequenced'
  BY <1>1 DEF JInv, Sequenced
<1>5. Blocked'
  BY <1>1 DEF Blocked
<1> QED BY <1>1, <1>2, <1>3, <1>4, <1>5 DEF JInv, ResultsKept

\* On untouched tables a sequence names one commit, one row and one action.
LEMMA UntouchedFacts ==
    ASSUME JInv, tampered = {}
    PROVE  /\ Untouched
           /\ \A c, d \in accepted : c.session = d.session
           /\ \A c, d \in accepted : c.revision + 1 = d.revision + 1 => c = d
           /\ \A c \in accepted : c.revision \in Nat /\ c.session \in Sessions
           /\ \A c \in accepted : Kept(c)
           /\ \A r \in rows : \E c \in accepted : r = RowFor(c)
           /\ \A a \in actions : \E c \in accepted : Writes(c, a)
           /\ \A a, b \in actions : a.action = b.action => a = b
           /\ rows \subseteq JournalRows /\ actions \subseteq ActionCommits
           /\ faults < MaxFaults => faults + 1 \in 0 .. MaxFaults
<1>1. \A c \in accepted : c.revision \in Nat /\ c.session \in Sessions
  BY Line DEF LP!Commits
<1>2. Untouched /\ TypeOK
  BY DEF JInv
<1>3. \A c, d \in accepted : c.revision + 1 = d.revision + 1 => c = d
  BY <1>1, Line
<1>4. faults < MaxFaults => faults + 1 \in 0 .. MaxFaults
  BY <1>2, MaxFaultsIsNatural DEF TypeOK
<1> QED BY <1>1, <1>2, <1>3, <1>4, Line DEF Untouched, TypeOK

\* The ways a row is altered, and what each leaves as it was.
Alterations(r) ==
    { [r EXCEPT !.intact = FALSE], [r EXCEPT !.revision = @ + 1], [r EXCEPT !.action = 0] }
        \cup { [r EXCEPT !.request = q] : q \in Requests \ {r.request} }

LEMMA AlteredRow ==
    ASSUME NEW r \in JournalRows, NEW x \in Alterations(r)
    PROVE  /\ x \in JournalRows /\ x.session = r.session /\ x.sequence = r.sequence
           /\ \/ x.action = 0
              \/ x.action = r.action /\ x.request # r.request
              \/ x.action = r.action /\ (~x.intact \/ x.revision # r.revision)
<1>1. CASE x = [r EXCEPT !.intact = FALSE]
  BY <1>1 DEF JournalRows
<1>2. CASE x = [r EXCEPT !.revision = @ + 1]
  <2>1. r.revision \in Nat /\ r.revision + 1 \in Nat /\ r.revision + 1 # r.revision
    BY DEF JournalRows
  <2> QED BY <1>2, <2>1 DEF JournalRows
<1>3. CASE x = [r EXCEPT !.action = 0]
  BY <1>3 DEF JournalRows
<1>4. CASE x \in { [r EXCEPT !.request = q] : q \in Requests \ {r.request} }
  BY <1>4 DEF JournalRows
<1> QED BY <1>1, <1>2, <1>3, <1>4 DEF Alterations

\* A row is deleted or altered: its action no longer has the row it declares, or
\* replay stops there.
LEMMA TamperRowInv ==
    ASSUME JInv, NEW r \in rows, TamperRow(r)
    PROVE  JInv'
<1>1. /\ tampered = {} /\ Fault({r.session}) /\ UNCHANGED <<actions, cache, forged>>
      /\ faults < MaxFaults /\ faults' = faults + 1 /\ UNCHANGED <<nextSequence, accepted>>
      /\ tampered' = {r.session}
  BY DEF TamperRow, Fault
<1> USE UntouchedFacts
<1>2. PICK c \in accepted : r = RowFor(c)
  BY <1>1
<1>3. PICK a \in actions : Writes(c, a)
  BY <1>1 DEF Kept
<1> DEFINE s == c.session
           n == c.revision + 1
<1>4. /\ r.session = s /\ r.action = n /\ r.sequence = n /\ r.revision = c.revision
      /\ r.request = c.request /\ r.key = c.key /\ n \in Nat \ {0} /\ s \in Sessions
      /\ a \in ActionsOf(s)' /\ a.action = n /\ a.first = n /\ a.last = n /\ a.session = s
      /\ a.request = c.request
  BY <1>1, <1>2, <1>3 DEF RowFor, Writes, ActionsOf
<1>5. \A x \in rows : x.action = n => x = r
  BY <1>1, <1>2 DEF RowFor
<1>6. \A b \in ActionsOf(s)' : (b.action = n <=> b.first = n) /\ b.action # 0
                               /\ \E d \in accepted : Writes(d, b)
  BY <1>1, <1>2 DEF ActionsOf, Writes
<1>7. SessionsPresent' = {s} /\ TypeOK'
  <2>1. \A x \in rows : x.session = s
    BY <1>1, <1>2 DEF RowFor
  <2>2. \A b \in actions : b.session = s
    BY <1>1, <1>2 DEF Writes
  <2>3. rows' \subseteq JournalRows /\ \A x \in rows' : x.session = s
    <3>1. CASE rows' = rows \ {r}
      BY <1>1, <2>1, <3>1
    <3>2. CASE rows' # rows \ {r}
      <4>1. r \in JournalRows
        BY <1>1
      <4>2. PICK altered \in Alterations(r) : rows' = (rows \ {r}) \cup {altered}
        BY <3>2 DEF TamperRow, Alterations
      <4>3. altered \in JournalRows /\ altered.session = s
        BY <1>4, <4>1, AlteredRow
      <4> QED BY <1>1, <2>1, <4>2, <4>3
    <3> QED BY <3>1, <3>2
  <2>4. SessionsPresent' = {s}
    BY <1>1, <1>3, <2>2, <2>3 DEF SessionsPresent
  <2>5. TypeOK'
    BY <1>1, <1>4, <2>3 DEF JInv, TypeOK
  <2> QED BY <2>4, <2>5
<1>8. (~BatchesSound(s) \/ StopsAt(c))'
  <2>1. CASE rows' = rows \ {r}
    <3>1. RowsOfAction(a)' = {}
      BY <1>4, <1>5, <2>1 DEF RowsOfAction, RowsOf
    <3> QED BY <1>4, <3>1 DEF BatchesSound, BatchSound
  <2>2. ASSUME NEW altered \in JournalRows, rows' = (rows \ {r}) \cup {altered},
               altered.session = s,
               altered.action = 0 \/ (altered.action = n /\ altered.request # c.request)
        PROVE  ~BatchesSound(s)'
    <3>1. altered \in RowsOf(s)'
      BY <2>2 DEF RowsOf
    <3>2. CASE altered.action = 0
      BY <1>6, <3>1, <3>2 DEF BatchesSound
    <3>3. CASE altered.action = n /\ altered.request # c.request
      <4>1. altered \in RowsOfAction(a)'
        BY <1>1, <1>4, <2>2, <3>3 DEF RowsOfAction, RowsOf
      <4>2. ~BatchSound(a)'
        BY <1>1, <1>4, <3>3, <4>1 DEF BatchSound
      <4> QED BY <1>4, <4>2 DEF BatchesSound
    <3> QED BY <2>2, <3>2, <3>3
  <2>3. ASSUME NEW altered \in JournalRows, rows' = (rows \ {r}) \cup {altered},
               altered.session = s, altered.action = n, altered.sequence = n,
               ~altered.intact \/ altered.revision # c.revision
        PROVE  StopsAt(c)'
    <3>1. ASSUME NEW d \in accepted, d.revision < c.revision PROVE Kept(d)'
      <4>1. RowFor(d) # r /\ d.revision + 1 # n
        BY <1>1, <1>4, <3>1 DEF RowFor
      <4>2. Kept(d)
        BY <1>1
      <4> QED BY <1>1, <2>3, <4>1, <4>2 DEF Kept, RowsOf, ActionsOf, RowFor, Writes
    <3>2. \A x \in RowsOf(s)' : x.action = n => x = altered
      BY <1>5, <2>3 DEF RowsOf
    <3> QED BY <1>1, <1>4, <1>6, <2>3, <3>1, <3>2 DEF StopsAt, KeptBefore
  <2>4. CASE rows' # rows \ {r}
    <3>1. PICK altered \in Alterations(r) : rows' = (rows \ {r}) \cup {altered}
      BY <2>4 DEF TamperRow, Alterations
    <3>2. r \in JournalRows
      BY <1>1
    <3>3. /\ altered \in JournalRows /\ altered.session = s /\ altered.sequence = n
          /\ \/ altered.action = 0
             \/ altered.action = n /\ altered.request # c.request
             \/ altered.action = n /\ (~altered.intact \/ altered.revision # c.revision)
      BY <1>4, <3>2, AlteredRow
    <3> QED BY <2>2, <2>3, <3>1, <3>3
  <2> QED BY <2>1, <2>4
<1> QED BY <1>1, <1>4, <1>7, <1>8, TamperFacts

\* The ways an action is altered, and what each leaves as it was.
ActionAlterations(a) ==
    { [a EXCEPT !.expected = @ + 1], [a EXCEPT !.last = @ + 1], [a EXCEPT !.action = 0] }
        \cup { [a EXCEPT !.request = q] : q \in Requests \ {a.request} }

LEMMA AlteredAction ==
    ASSUME NEW a \in ActionCommits, NEW x \in ActionAlterations(a)
    PROVE  /\ x \in ActionCommits /\ x.session = a.session /\ x.first = a.first
           /\ \/ x.action = 0
              \/ x.action = a.action /\ x.request # a.request
              \/ x.action = a.action /\ x.last = a.last + 1
              \/ x.action = a.action /\ x.expected = a.expected + 1
<1>1. a.expected + 1 \in Nat /\ a.last + 1 \in Nat
  BY DEF ActionCommits
<1>2. CASE x = [a EXCEPT !.expected = @ + 1]
  BY <1>1, <1>2 DEF ActionCommits
<1>3. CASE x = [a EXCEPT !.last = @ + 1]
  BY <1>1, <1>3 DEF ActionCommits
<1>4. CASE x = [a EXCEPT !.action = 0]
  BY <1>4 DEF ActionCommits
<1>5. CASE x \in { [a EXCEPT !.request = q] : q \in Requests \ {a.request} }
  BY <1>5 DEF ActionCommits
<1> QED BY <1>2, <1>3, <1>4, <1>5 DEF ActionAlterations

\* An action is deleted or altered: its row has no action, or not the bounds and
\* the request of one, or replay stops there.
LEMMA TamperActionInv ==
    ASSUME JInv, NEW a \in actions, TamperAction(a)
    PROVE  JInv'
<1>1. /\ tampered = {} /\ Fault({a.session}) /\ UNCHANGED <<rows, cache, forged>>
      /\ faults < MaxFaults /\ faults' = faults + 1 /\ UNCHANGED <<nextSequence, accepted>>
      /\ tampered' = {a.session}
  BY DEF TamperAction, Fault
<1> USE UntouchedFacts
<1>2. PICK c \in accepted : Writes(c, a)
  BY <1>1
<1> DEFINE s == c.session
           n == c.revision + 1
           r == RowFor(c)
<1>3. /\ n \in Nat \ {0} /\ s \in Sessions /\ r \in RowsOf(s)' /\ a \in ActionCommits
      /\ r.session = s /\ r.action = n /\ r.sequence = n /\ r.request = c.request
      /\ a.session = s /\ a.action = n /\ a.first = n /\ a.last = n /\ a.request = c.request
      /\ a.expected = ExpectedBy(c) /\ ExpectedBy(c) \in Nat
  BY <1>1, <1>2 DEF RowFor, RowsOf, Kept, Writes, ExpectedBy, ActionCommits
<1>4. \A b \in actions \ {a} : b.action # n /\ b.first # n
  BY <1>1, <1>2 DEF Writes
<1>5. \A x \in rows : x.action = n => x = r
  BY <1>1 DEF RowFor
<1>6. PICK kept \in SUBSET ActionAlterations(a) :
         actions' = (actions \ {a}) \cup kept /\ (kept = {} \/ \E altered \in ActionAlterations(a) : kept = {altered})
  <2>1. CASE actions' = actions \ {a}
    BY <2>1
  <2>2. CASE actions' # actions \ {a}
    <3>1. PICK altered \in ActionAlterations(a) : actions' = (actions \ {a}) \cup {altered}
      BY <2>2 DEF TamperAction, ActionAlterations
    <3> QED BY <3>1
  <2> QED BY <2>1, <2>2
<1>7. SessionsPresent' = {s} /\ TypeOK'
  <2>1. (\A x \in rows : x.session = s) /\ \A b \in actions : b.session = s
    BY <1>1, <1>2 DEF RowFor, Writes
  <2>2. actions' \subseteq ActionCommits /\ \A b \in actions' : b.session = s
    BY <1>1, <1>3, <1>6, <2>1, AlteredAction
  <2>3. SessionsPresent' = {s}
    BY <1>1, <1>3, <2>1, <2>2 DEF SessionsPresent, RowsOf
  <2>4. TypeOK'
    BY <1>1, <1>3, <2>2 DEF JInv, TypeOK
  <2> QED BY <2>3, <2>4
<1>8. (~BatchesSound(s) \/ StopsAt(c))'
  <2>1. CASE \A b \in ActionsOf(s)' : b.action # n
    BY <1>3, <2>1 DEF BatchesSound
  <2>2. ASSUME NEW b \in ActionsOf(s)', b.action = n
        PROVE  b \in ActionAlterations(a) /\ actions' = (actions \ {a}) \cup {b}
    BY <1>4, <1>6, <2>2 DEF ActionsOf
  <2>3. ASSUME NEW b \in ActionsOf(s)', b.action = n,
               b.request # a.request \/ b.last = a.last + 1
        PROVE  ~BatchesSound(s)'
    <3>1. b.session = s /\ b.first = n
      BY <1>3, <2>2, <2>3, AlteredAction
    <3>2. RowsOfAction(b)' = {r}
      BY <1>1, <1>3, <1>5, <2>3, <3>1 DEF RowsOfAction, RowsOf
    <3>3. CASE b.request # a.request
      BY <1>3, <2>3, <3>2, <3>3 DEF BatchesSound, BatchSound
    <3>4. CASE b.last = a.last + 1
      <4>1. n + 1 \in b.first .. b.last /\ n + 1 # n
        BY <1>3, <3>1, <3>4
      <4>2. { x.sequence : x \in {r} } = {n}
        BY <1>3
      <4>3. ~BatchSound(b)'
        BY <3>2, <4>1, <4>2 DEF BatchSound
      <4> QED BY <2>3, <4>3 DEF BatchesSound
    <3> QED BY <2>3, <3>3, <3>4
  <2>4. ASSUME NEW b \in ActionsOf(s)', b.action = n, b.expected = a.expected + 1
        PROVE  StopsAt(c)'
    <3>1. b.first = n /\ actions' = (actions \ {a}) \cup {b}
      BY <1>3, <2>2, <2>4, AlteredAction
    <3>2. ASSUME NEW d \in accepted, d.revision < c.revision PROVE Kept(d)'
      <4>1. d.revision + 1 # n /\ d.revision # c.revision
        BY <1>1, <3>2
      <4>2. Kept(d) /\ ~Writes(d, a)
        BY <1>1, <1>3, <4>1 DEF Writes
      <4> QED BY <1>1, <3>1, <4>1, <4>2 DEF Kept, RowsOf, ActionsOf, RowFor, Writes
    <3>3. \A x \in ActionsOf(s)' : x.first = n => x = b
      BY <1>4, <3>1 DEF ActionsOf
    <3>4. b.expected # ExpectedBy(c)
      BY <1>3, <2>4
    <3> QED BY <1>1, <3>1, <3>2, <3>3, <3>4 DEF StopsAt, KeptBefore
  <2>5. ASSUME NEW b \in ActionsOf(s)', b.action = n
        PROVE  b.request # a.request \/ b.last = a.last + 1 \/ b.expected = a.expected + 1
    BY <1>3, <2>2, <2>5, AlteredAction
  <2> QED BY <2>1, <2>3, <2>4, <2>5
<1> QED BY <1>1, <1>3, <1>7, <1>8, TamperFacts

\* A stored result is altered: replay does not look at it.
LEMMA TamperResultInv ==
    ASSUME JInv, NEW a \in actions, TamperResult(a)
    PROVE  JInv'
<1>1. /\ UNCHANGED <<rows, cache, nextSequence, accepted>> /\ tampered' = tampered
      /\ faults < MaxFaults /\ faults' = faults + 1
  BY DEF TamperResult, Fault
<1>2. a \in ActionCommits /\ faults \in 0 .. MaxFaults
  BY DEF JInv, TypeOK
<1>3. PICK b : /\ actions' = (actions \ {a}) \cup {b}
               /\ \/ b = [a EXCEPT !.intact = FALSE] /\ forged' = forged
                  \/ /\ \E result \in Forgeries(a) : b = [a EXCEPT !.result = result]
                     /\ forged' = forged \cup {a.key}
  BY DEF TamperResult
<1>4. /\ b \in ActionCommits /\ b.action = a.action /\ b.session = a.session /\ b.key = a.key
      /\ b.request = a.request /\ b.expected = a.expected /\ b.first = a.first
      /\ b.last = a.last
  <2>1. CASE b = [a EXCEPT !.intact = FALSE]
    BY <1>2, <2>1 DEF ActionCommits
  <2>2. ASSUME NEW result \in Forgeries(a) PROVE result \in Reports
    <3>1. a.result \in Reports
      BY <1>2 DEF ActionCommits
    <3>2. /\ [a.result EXCEPT !.revision = @ + 1] \in Reports
          /\ [a.result EXCEPT !.projection = Absent] \in Reports
      BY <3>1 DEF Reports, Projections, Absent
    <3>3. \A c \in accepted : Report(c.after, c.revision) \in Reports
      BY Line, SameReducer DEF Report, Reports, LP!Commits
    <3> QED BY <2>2, <3>2, <3>3 DEF Forgeries
  <2>3. CASE \E result \in Forgeries(a) : b = [a EXCEPT !.result = result]
    BY <1>2, <2>2, <2>3 DEF ActionCommits
  <2> QED BY <1>3, <2>1, <2>3
<1>5. TypeOK'
  <2>1. a.key \in Keys /\ forged' \subseteq forged \cup {a.key}
    BY <1>2, <1>3 DEF ActionCommits
  <2>2. actions' \subseteq ActionCommits
    BY <1>3, <1>4 DEF JInv, TypeOK
  <2>3. faults' \in 0 .. MaxFaults
    BY <1>1, <1>2, MaxFaultsIsNatural
  <2> QED BY <1>1, <2>1, <2>2, <2>3 DEF JInv, TypeOK
<1>6. faults' # 0
  BY <1>1, <1>2
<1>7. LP!IInv'
  <2>1. UNCHANGED <<LedgerHead, LedgerRevision>>
    BY <1>1 DEF LedgerHead, LedgerRevision, Accepted, LastAccepted
  <2> QED BY <1>1, <2>1, LP!StutterInv, NoneIsNoValue, CriteriaRevisionsAreNaturals,
             ExpectedAreNaturals DEF JInv, LP!ledgerVars
<1>8. Sequenced'
  BY <1>1 DEF JInv, Sequenced
<1>9. \A c : Writes(c, b) <=> Writes(c, a)
  BY <1>4 DEF Writes
<1>10. \A c : Kept(c) => Kept(c)'
  BY <1>1, <1>3, <1>4, <1>9 DEF Kept, RowsOf, ActionsOf, RowFor, Writes
<1>11. Untouched => Untouched'
  BY <1>1, <1>3, <1>4, <1>9, <1>10 DEF Untouched, RowFor, Writes
<1>12. \A s : BatchesSound(s)' => BatchesSound(s)
  <2> SUFFICES ASSUME NEW s, BatchesSound(s)' PROVE BatchesSound(s)
    OBVIOUS
  <2>1. ASSUME NEW x \in ActionsOf(s), x # a PROVE x \in ActionsOf(s)' /\ BatchSound(x)
    BY <1>1, <1>3, <2>1 DEF ActionsOf, BatchesSound, BatchSound, RowsOfAction, RowsOf
  <2>2. CASE a \in ActionsOf(s)
    <3>1. b \in ActionsOf(s)' /\ BatchSound(b)'
      BY <1>3, <1>4, <2>2 DEF ActionsOf, BatchesSound
    <3>2. RowsOfAction(b)' = RowsOfAction(a)
      BY <1>1, <1>4 DEF RowsOfAction, RowsOf
    <3>3. BatchSound(a)
      BY <1>4, <3>1, <3>2 DEF BatchSound
    <3> QED BY <1>1, <1>3, <1>4, <2>1, <2>2, <3>3 DEF BatchesSound, RowsOf, ActionsOf
  <2>3. CASE a \notin ActionsOf(s)
    BY <1>1, <1>3, <1>4, <2>1, <2>3 DEF BatchesSound, RowsOf, ActionsOf
  <2> QED BY <2>2, <2>3
<1>13. \A c : StopsAt(c) => StopsAt(c)'
  BY <1>1, <1>3, <1>4, <1>10 DEF StopsAt, KeptBefore, RowsOf, ActionsOf, ExpectedBy
<1>14. SessionsPresent' = SessionsPresent
  BY <1>1, <1>3, <1>4 DEF SessionsPresent
<1>15. Blocked => Blocked'
  BY <1>1, <1>12, <1>13, <1>14 DEF Blocked
<1>16. ResultsKept'
  <2> SUFFICES ASSUME tampered = {}, NEW x \in actions', NEW c \in accepted,
                      Writes(c, x), x.key \notin forged'
               PROVE  x.result = ResultOf(c)
    BY <1>1, <1>6 DEF ResultsKept, Writes, ResultOf
  <2>1. CASE x \in actions /\ x.key \notin forged
    BY <2>1 DEF JInv, ResultsKept
  <2>2. CASE x = b
    <3>1. b = [a EXCEPT !.intact = FALSE] /\ forged' = forged
      BY <1>3, <1>4, <2>2
    <3>2. b.result = a.result /\ a.key \notin forged /\ Writes(c, a)
      BY <1>2, <1>4, <1>9, <2>2, <3>1 DEF ActionCommits
    <3> QED BY <2>2, <3>2 DEF JInv, ResultsKept
  <2> QED BY <1>3, <2>1, <2>2
<1> QED BY <1>1, <1>5, <1>6, <1>7, <1>8, <1>11, <1>15, <1>16 DEF JInv

\* The tables, whatever happens to them, stay an account of the accepted line, or
\* show that they are not.
THEOREM JournalInvariant == Spec => []JInv
<1>1. JInv /\ [Next]_vars => JInv'
  <2> SUFFICES ASSUME JInv, [Next]_vars PROVE JInv'
    OBVIOUS
  <2>1. CASE \E s \in Sessions : Commit(s)
    BY <2>1, CommitInv
  <2>2. CASE \E s \in Sessions : Compare(s) \/ DamageCache(s)
    BY <2>2, CacheInv
  <2>3. CASE \E r \in rows : TamperRow(r)
    BY <2>3, TamperRowInv
  <2>4. CASE \E a \in actions : TamperAction(a) \/ TamperResult(a)
    BY <2>4, TamperActionInv, TamperResultInv
  <2>5. CASE UNCHANGED vars
    <3>1. TypeOK'
      BY <2>5 DEF vars, JInv, TypeOK
    <3> QED BY <2>5, <3>1, TablesInv DEF vars, tables
  <2> QED BY <2>1, <2>2, <2>3, <2>4, <2>5 DEF Next
<1> QED BY <1>1, JournalInit, PTL DEF Spec

-----------------------------------------------------------------------------
(* What follows for rebuilds, retries and restarts.                        *)

\* Rebuilding a Session nobody altered gives the head its commits left behind,
\* after any number of faults of the cache and the stored results.
THEOREM JournalReplay == Spec => []ReplayReproducesHead
<1>1. JInv => ReplayReproducesHead
  BY RebuildIs DEF ReplayReproducesHead
<1> QED BY <1>1, JournalInvariant, PTL

\* One altered or deleted row or action of a Session blocks it, and it stays blocked.
THEOREM JournalTamper == Spec => []TamperIsEvident
<1>1. JInv => TamperIsEvident
  BY RebuildIs DEF TamperIsEvident, JInv, TypeOK
<1> QED BY <1>1, JournalInvariant, PTL

\* The first answer to a decision names the Run state a retry of it checks.
LEMMA DecisionStates ==
    ASSUME JInv, NEW c \in accepted
    PROVE  /\ c.entry.type = "pending_decision_recorded" => c.after.run = "waiting_for_user"
           /\ c.entry.type = "user_decision_recorded" => c.after.run = "ready"
<1>1. Base(c).projection \in Projections
  <2>1. \A d \in accepted : ResultOf(d).projection \in Projections
    BY Line, SameReducer DEF LP!Commits, ResultOf, Report
  <2>2. Empty.projection \in Projections
    BY DEF Empty, Report, Projections, Absent
  <2>3. CASE c.revision = 0
    BY <2>2, <2>3 DEF Base
  <2>4. CASE c.revision # 0
    <3>1. \E d \in accepted : d.revision = c.revision - 1
      BY <2>4, Line DEF JInv, Sequenced
    <3> QED BY <2>1, <2>4, <3>1 DEF Base
  <2> QED BY <2>3, <2>4
<1>2. c.after = Apply(Base(c).projection, c.entry)
  BY Line
<1> QED BY <1>1, <1>2 DEF Apply, Answered, Projections

\* A retry gets the answer the store gave, as it was then, or an error, except that
\* the answer to a decision may be a result altered together with its digest.
THEOREM JournalRetry == Spec => []RetryIsFaithful
<1>1. ASSUME JInv, NEW c \in accepted, NEW verdict, verdict = Classify(c.key, c.request, c.entry.type)
      PROVE  /\ verdict = "replay" =>
                   /\ StoredAnswer(c.key).session = c.session
                   /\ c.entry.type \in ComparedWithRebuild \/ c.key \notin forged =>
                         StoredAnswer(c.key) = [ session |-> c.session, revision |-> c.revision,
                                                 projection |-> c.after ]
             /\ c.session \notin tampered => verdict # "none"
             /\ faults = 0 => verdict = "replay"
  <2> DEFINE a == CHOOSE x \in actions : x.key = c.key
  <2>1. CASE tampered = {}
    <3>1. ~KeyFree(c.key)
      BY <1>1, <2>1, UntouchedFacts DEF Kept, Writes, KeyFree
    <3>2. a \in actions /\ a.key = c.key
      BY <3>1 DEF KeyFree
    <3> HIDE DEF a
    <3>3. \A d \in accepted : Writes(d, a) => d = c
      BY <1>1, <3>2, Line DEF Writes
    <3>4. Writes(c, a)
      BY <1>1, <2>1, <3>2, <3>3, UntouchedFacts
    <3>5. RebuildForAction(a) = {ResultOf(c)}
      <4>1. Rebuild(c.session) # {}
        BY <1>1, <2>1, RebuildIs, UntouchedFacts
      <4>2. Kept(c) /\ KeptBefore(c)
        BY <1>1, <2>1, UntouchedFacts DEF KeptBefore
      <4>3. Replay(c.session)[c.revision + 1] = {ResultOf(c)}
        BY <1>1, <4>2, ReplayReaches
      <4> QED BY <3>4, <4>1, <4>3 DEF RebuildForAction, Writes
    <3>6. Classify(c.key, c.request, c.entry.type) =
             CASE a.request # c.request -> "conflict"
               [] ~a.intact -> "corrupt_result"
               [] RebuildForAction(a) = {} -> "journal_invalid"
               [] ~AnswerHolds(c.entry.type, a.result, RebuildForAction(a)) -> "boundary_mismatch"
               [] OTHER -> "replay"
      BY <3>1 DEF Classify, a
    <3>7. a.request = c.request /\ a.session = c.session
      BY <3>4 DEF Writes
    <3>8. /\ verdict = "replay" /\ c.entry.type \in ComparedWithRebuild => a.result = ResultOf(c)
          /\ c.key \notin forged => a.result = ResultOf(c)
      <4>1. c.key \notin forged => a.result = ResultOf(c)
        BY <1>1, <2>1, <3>2, <3>4 DEF JInv, ResultsKept
      <4>2. verdict = "replay" => AnswerHolds(c.entry.type, a.result, {ResultOf(c)})
        BY <1>1, <3>5, <3>6, <3>7
      <4> QED BY <4>1, <4>2 DEF AnswerHolds
    <3>9. StoredAnswer(c.key) = [ session |-> a.session, revision |-> a.result.revision,
                                  projection |-> a.result.projection ]
      BY DEF StoredAnswer, a
    <3>10. faults = 0 => a.intact /\ a.result = ResultOf(c)
      BY <1>1, <3>2, <3>8 DEF JInv, ResultsKept
    <3>11. faults = 0 => verdict = "replay"
      <4>1. AnswerHolds(c.entry.type, ResultOf(c), {ResultOf(c)})
        BY <1>1, DecisionStates DEF AnswerHolds, ResultOf, Report
      <4> QED BY <1>1, <3>5, <3>6, <3>7, <3>10, <4>1
    <3>12. verdict # "none"
      BY <1>1, <3>6
    <3> QED BY <3>7, <3>8, <3>9, <3>11, <3>12 DEF ResultOf, Report
  <2>2. CASE tampered # {}
    <3>1. /\ c.session \in tampered /\ faults # 0
          /\ \A s \in SessionsPresent : s = c.session
      BY <1>1, <2>2, Line DEF JInv, Blocked
    <3>2. Rebuild(c.session) = {}
      BY <1>1, <3>1, RebuildIs DEF JInv, TypeOK
    <3>3. CASE KeyFree(c.key)
      BY <1>1, <3>1, <3>3 DEF Classify
    <3>4. CASE ~KeyFree(c.key)
      <4>1. a \in actions
        BY <3>4 DEF KeyFree
      <4> HIDE DEF a
      <4>2. RebuildForAction(a) = {}
        BY <3>1, <3>2, <4>1 DEF SessionsPresent, RebuildForAction
      <4>3. verdict = CASE a.request # c.request -> "conflict"
               [] ~a.intact -> "corrupt_result"
               [] RebuildForAction(a) = {} -> "journal_invalid"
               [] ~AnswerHolds(c.entry.type, a.result, RebuildForAction(a)) -> "boundary_mismatch"
               [] OTHER -> "replay"
        BY <1>1, <3>4 DEF Classify, a
      <4>4. verdict # "replay"
        BY <4>2, <4>3
      <4> QED BY <3>1, <4>4
    <3> QED BY <3>3, <3>4
  <2> QED BY <2>1, <2>2
<1>2. JInv => RetryIsFaithful
  BY <1>1 DEF RetryIsFaithful
<1> QED BY <1>2, JournalInvariant, PTL

\* A restart reports what the observation of an unknown effect would have recorded.
THEOREM JournalRestart == Spec => []RestartIsConservative
<1>1. ASSUME JInv, NEW s \in Sessions, NEW report \in Rebuild(s) \ {Empty}
      PROVE  LET p == report.projection
                 q == Reconstructed(p)
                 unknown == [ type |-> "operation_observed", op |-> p.opId,
                              state |-> "unknown", to |-> "orphaned" ]
             IN  /\ Valid(q) /\ q.opState \notin OpenOps
                 /\ q # p => Reducible(p, unknown) /\ q = Apply(p, unknown)
  <2> DEFINE p == report.projection
             q == Reconstructed(p)
             unknown == [ type |-> "operation_observed", op |-> p.opId,
                          state |-> "unknown", to |-> "orphaned" ]
  <2>1. report = Report(LedgerHead[s], LedgerRevision[s])
    BY <1>1, RebuildIs
  <2>2. p = LedgerHead[s] /\ (p = Absent => report = Empty) /\ LP!IInv
    <3>1. LP!IInv
      BY <1>1 DEF JInv
    <3> QED BY <2>1, <3>1, LP!HeadKnown, SameReducer, NoneIsNoValue,
               CriteriaRevisionsAreNaturals, ExpectedAreNaturals DEF Report, Empty
  <2>3. p \in Projections /\ Valid(p) /\ p # Absent
    BY <1>1, <2>2, LP!HeadKnown, SameReducer, NoneIsNoValue,
       CriteriaRevisionsAreNaturals, ExpectedAreNaturals DEF LP!Consistent
  <2>4. CASE p.opState \notin OpenOps
    BY <2>3, <2>4 DEF Reconstructed
  <2>5. CASE p.opState \in OpenOps
    <3>1. q = [p EXCEPT !.opState = "unknown", !.run = "orphaned"]
      BY <2>5 DEF Reconstructed
    <3>2. p.run = "running" /\ p.decision = None /\ p.task = "in_progress" /\ p.session = "active"
      BY <2>3, <2>5 DEF Valid, OperationCoherent, DecisionCoherent, StatesCoordinated, TerminalRuns
    <3>3. Valid(q) /\ q.opState \notin OpenOps
      BY <2>3, <3>1, <3>2 DEF Projections, Valid, OperationCoherent, DecisionCoherent,
                              StatesCoordinated, OpenOps
    <3>4. Apply(p, unknown) = q
      BY <2>3, <3>1 DEF Apply, Coordinated, Projections
    <3>5. Accepts(p, unknown)
      <4>1. ObservesCurrent(p, unknown)
        BY <2>5 DEF ObservesCurrent, OpProgression, OpStates, OpenOps
      <4>2. MayObserve(p, "unknown", "orphaned")
        BY <3>2 DEF MayObserve, MayTransition, RunTransitions
      <4> QED BY <2>3, <4>1, <4>2 DEF Accepts
    <3>6. Reducible(p, unknown)
      <4> HIDE DEF q, unknown
      <4> QED BY <3>3, <3>4, <3>5 DEF Reducible
    <3> QED BY <3>3, <3>4, <3>6
  <2> QED BY <2>4, <2>5
<1>2. JInv => RestartIsConservative
  BY <1>1 DEF RestartIsConservative
<1> QED BY <1>2, JournalInvariant, PTL

-----------------------------------------------------------------------------
(* The refinement.                                                         *)

\* And so is that of the specification it refines.
LEMMA SameLedgerReducer ==
    /\ Ledger!Absent = Absent /\ Ledger!Entries = Entries /\ Ledger!NoRevision = NoRevision
    /\ Ledger!Projections = Projections
    /\ \A p, e : Ledger!Apply(p, e) = Apply(p, e)
    /\ \A p, e : Ledger!Reducible(p, e) <=> Reducible(p, e)
    /\ \A p : Ledger!Valid(p) <=> Valid(p)
<1> USE DEF Ledger!RunStates, RunStates, Ledger!TerminalRuns, TerminalRuns, Ledger!OpStates, OpStates,
            Ledger!OpenOps, OpenOps, Ledger!ClosedOps, ClosedOps
<1>1. Ledger!Absent = Absent
  BY DEF Ledger!Absent, Absent
<1>2. Ledger!Entries = Entries
  BY DEF Ledger!Entries, Entries
<1>3. Ledger!NoRevision = NoRevision
  BY DEF Ledger!NoRevision, NoRevision
<1>4. Ledger!Projections = Projections
  BY DEF Ledger!Projections, Projections
<1>5. ASSUME NEW p, NEW e PROVE Ledger!Apply(p, e) = Apply(p, e)
  BY <1>1 DEF Ledger!Apply, Apply, Ledger!Coordinated, Coordinated, Ledger!Answered, Answered
<1>6. ASSUME NEW p PROVE Ledger!Valid(p) <=> Valid(p)
  BY DEF Ledger!Valid, Valid, Ledger!DecisionCoherent, DecisionCoherent, Ledger!OperationCoherent,
         OperationCoherent, Ledger!StatesCoordinated, StatesCoordinated
<1>7. ASSUME NEW p, NEW e PROVE Ledger!Accepts(p, e) <=> Accepts(p, e)
  <2>1. \A to : Ledger!MayTransition(p, to) <=> MayTransition(p, to)
    BY DEF Ledger!MayTransition, MayTransition, Ledger!RunTransitions, RunTransitions
  <2>2. \A to : Ledger!TerminalPermitted(p, to) <=> TerminalPermitted(p, to)
    BY DEF Ledger!TerminalPermitted, TerminalPermitted, Ledger!Unresolved, Unresolved
  <2>3. \A state, to : Ledger!MayObserve(p, state, to) <=> MayObserve(p, state, to)
    BY <2>1, <2>2 DEF Ledger!MayObserve, MayObserve
  <2>4. Ledger!ObservesCurrent(p, e) <=> ObservesCurrent(p, e)
    BY DEF Ledger!ObservesCurrent, ObservesCurrent, Ledger!OpProgression, OpProgression
  <2>5. Ledger!NoOpenOperation(p) <=> NoOpenOperation(p)
    BY DEF Ledger!NoOpenOperation, NoOpenOperation
  <2>6. Ledger!AnswersPending(p, e) <=> AnswersPending(p, e)
    BY DEF Ledger!AnswersPending, AnswersPending
  <2> HIDE DEF Ledger!RunStates, RunStates, Ledger!TerminalRuns, TerminalRuns, Ledger!OpStates, OpStates,
               Ledger!OpenOps, OpenOps, Ledger!ClosedOps, ClosedOps
  <2> QED BY <1>1, <2>1, <2>2, <2>3, <2>4, <2>5, <2>6 DEF Ledger!Accepts, Accepts
<1>8. ASSUME NEW p, NEW e PROVE Ledger!Reducible(p, e) <=> Reducible(p, e)
  BY <1>5, <1>6, <1>7 DEF Ledger!Reducible, Reducible
<1> QED BY <1>1, <1>2, <1>3, <1>4, <1>5, <1>6, <1>8

\* The tables implement the ledger: every commit they admit, at the revision its
\* caller expected and under an unused key, is one the ledger admits; a repair and a
\* fault of the medium leave the ledger as it is.
THEOREM JournalRefinesLedger == Spec => ImplementsLedger
<1>1. Init => Ledger!LedgerInit
  BY DEF Init, Ledger!LedgerInit, LedgerHead, LedgerRevision, Accepted, Ledger!Absent,
         Absent, Ledger!NoRevision, NoRevision
<1>2. JInv /\ [Next]_vars => [Ledger!LedgerNext]_(Ledger!ledgerVars)
  <2> SUFFICES ASSUME JInv, [Next]_vars PROVE Ledger!LedgerNext \/ UNCHANGED Ledger!ledgerVars
    OBVIOUS
  <2>1. CASE \E s \in Sessions : Commit(s)
    <3>1. PICK s \in Sessions, e \in Entries, expected \in Revisions, k \in Keys,
               request \in Requests : LP!CommitEntry(k, request, s, expected, e)
      BY <2>1, CommitStep
    <3>2. Ledger!CommitEntry(k, request, s, expected, e)
      BY <3>1, SameReducer, SameLedgerReducer
         DEF LP!CommitEntry, Ledger!CommitEntry, LP!KeyUnused, Ledger!KeyUnused,
             LP!StartPrecondition, Ledger!StartPrecondition, LP!Expectable, Ledger!Expectable
    <3>3. e \in Ledger!Entries /\ Ledger!Reducible(LedgerHead[s], e)
      BY <3>2, SameLedgerReducer DEF Ledger!CommitEntry
    <3> QED BY <3>2, <3>3 DEF Ledger!LedgerNext
  <2>2. CASE UNCHANGED accepted
    BY <2>2 DEF Ledger!ledgerVars, LedgerHead, LedgerRevision, Accepted, LastAccepted
  <2>3. CASE ~(\E s \in Sessions : Commit(s))
    BY <2>2, <2>3 DEF Next, Compare, DamageCache, TamperRow, TamperAction, TamperResult, Fault, vars
  <2> QED BY <2>1, <2>3
<1> QED BY <1>1, <1>2, JournalInvariant, PTL DEF Spec, ImplementsLedger, Ledger!LedgerSpec
=============================================================================
