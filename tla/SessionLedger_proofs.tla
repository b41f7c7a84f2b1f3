------------------------ MODULE SessionLedger_proofs ------------------------
(***************************************************************************)
(* Proofs about SessionLedger, for any sets of Sessions, keys, requests,   *)
(* operations, decisions, answers and contexts.                            *)
(*                                                                         *)
(* First the reducer alone: what one reduction does to one projection.     *)
(* Then the inductive invariant of the ledger, and the action properties   *)
(* that follow from it.                                                    *)
(***************************************************************************)
EXTENDS SessionLedger, TLAPS, WellFoundedInduction

-----------------------------------------------------------------------------
(* Induction over the naturals, for sets.                                  *)

\* A non-empty set of naturals has a least member: < is well founded on them.
LEMMA Least ==
    ASSUME NEW T \in SUBSET Nat, T # {}
    PROVE  \E x \in T : \A y \in T : x <= y
<1> DEFINE less == OpToRel(<, Nat)
<1>1. IsWellFoundedOn(less, Nat)
  BY NatLessThanWellFounded
<1> HIDE DEF less
<1>2. PICK x \in T : \A y \in T : <<y, x>> \notin less
  BY <1>1, WFMin
<1>3. \A y \in T : ~ (y < x)
  BY <1>2 DEF less, OpToRel
<1> QED BY <1>3

\* A set that holds 0 and the successors of its members holds every natural.
LEMMA SetInduction ==
    ASSUME NEW S, 0 \in S, \A n \in Nat : n \in S => n + 1 \in S
    PROVE  Nat \subseteq S
<1> SUFFICES ASSUME Nat \ S # {} PROVE FALSE
  OBVIOUS
<1>1. PICK x \in Nat \ S : \A y \in Nat \ S : x <= y
  BY Least
<1>2. x # 0 /\ x - 1 \in Nat /\ x - 1 \in S
  BY <1>1
<1> QED BY <1>1, <1>2

\* A non-empty set of naturals with a bound has a greatest member.
LEMMA Greatest ==
    ASSUME NEW n \in Nat, NEW T \in SUBSET (0 .. n), T # {}
    PROVE  \E x \in T : \A y \in T : y <= x
<1> DEFINE U == { n - x : x \in T }
<1>1. U \in SUBSET Nat /\ U # {}
  <2>1. \A x \in T : x \in 0 .. n /\ n - x \in Nat
    OBVIOUS
  <2> QED BY <2>1
<1>2. PICK u \in U : \A v \in U : u <= v
  BY <1>1, Least
<1>3. PICK x \in T : u = n - x
  BY <1>2
<1>4. ASSUME NEW y \in T PROVE y <= x
  <2>1. n - x <= n - y
    BY <1>2, <1>3
  <2> QED BY <2>1
<1> QED BY <1>4

-----------------------------------------------------------------------------
(* The reducer.                                                            *)

\* An entry of an accepted type reduces a projection to a projection.
LEMMA ApplyType ==
    ASSUME NEW p \in Projections, NEW e \in Entries, Reducible(p, e)
    PROVE  Apply(p, e) \in Projections
<1>1. CASE e.type = "session_started"
  BY <1>1 DEF Apply, Projections, Absent, RunStates
<1>2. CASE e.type = "criteria_revised"
  <2>1. e.criteria \in Nat
    BY <1>2, CriteriaRevisionsAreNaturals DEF Entries
  <2> QED BY <1>2, <2>1 DEF Apply, Projections
<1>3. CASE e.type = "run_transitioned"
  <2>1. e.to \in RunStates
    BY <1>3 DEF Entries
  <2> QED BY <1>3, <2>1 DEF Apply, Coordinated, Projections
<1>4. CASE e.type = "pending_decision_recorded"
  <2>1. e.decision \in DecisionIds /\ e.permitted \in SUBSET Responses /\ e.context \in Contexts
    BY <1>4 DEF Entries
  <2> QED BY <1>4, <2>1 DEF Apply, Projections, RunStates
<1>5. CASE e.type = "user_decision_recorded"
  BY <1>5 DEF Apply, Answered, Projections, RunStates
<1>6. CASE e.type = "operation_intent_recorded"
  <2>1. e.op \in OpIds
    BY <1>6 DEF Entries
  <2> QED BY <1>6, <2>1 DEF Apply, Projections, RunStates, OpStates, OpenOps
<1>7. CASE e.type = "operation_observed"
  <2>1. e.to \in RunStates /\ e.state \in OpStates
    BY <1>7 DEF Entries
  <2>2. Coordinated(p, e.to) \in Projections
    BY <2>1 DEF Coordinated, Projections
  <2> QED BY <1>7, <2>1, <2>2 DEF Apply, Projections
<1> QED BY <1>1, <1>2, <1>3, <1>4, <1>5, <1>6, <1>7 DEF Entries

\* A projection that satisfies the projection invariants is not the empty one.
LEMMA ValidIsPresent ==
    ASSUME NEW p, Valid(p)
    PROVE  p # Absent
BY DEF Valid, StatesCoordinated, Absent

\* No accepted entry but a start applies to a Session that has none.
LEMMA OnlyStartOnAbsent ==
    ASSUME NEW e \in Entries, Reducible(Absent, e)
    PROVE  e.type = "session_started"
BY DEF Reducible, Accepts, NoOpenOperation, AnswersPending, ObservesCurrent, Entries

\* One reduction preserves what no single validation checks.
LEMMA ReductionConsistent ==
    ASSUME NEW p \in Projections, NEW e \in Entries,
           p = Absent \/ Consistent(p), Reducible(p, e)
    PROVE  Consistent(Apply(p, e))
<1> DEFINE q == Apply(p, e)
<1> USE NoneIsNoValue
<1>1. Valid(q) /\ Accepts(p, e)
  BY DEF Reducible
<1>2. CASE e.type = "session_started"
  BY <1>1, <1>2 DEF Apply, Absent, Consistent, TerminalRuns
<1>3. CASE e.type = "criteria_revised"
  <2>1. Consistent(p)
    BY <1>1, <1>3 DEF Accepts, NoOpenOperation, AnswersPending, ObservesCurrent
  <2> QED BY <1>1, <1>3, <2>1 DEF Apply, Consistent, Projections, Unresolved
<1>4. CASE e.type = "run_transitioned"
  <2>1. Consistent(p) /\ MayTransition(p, e.to) /\ TerminalPermitted(p, e.to)
    BY <1>1, <1>4 DEF Accepts, NoOpenOperation, AnswersPending, ObservesCurrent
  <2>2. /\ q.run = e.to /\ q.decision = p.decision /\ q.envelope = p.envelope
        /\ q.permitted = p.permitted /\ q.opId = p.opId /\ q.opState = p.opState
    BY <1>4 DEF Apply, Coordinated, Projections
  <2>3. q.run = "waiting_for_user" <=> p.run = "waiting_for_user"
    BY <1>1, <2>1, <2>2 DEF Consistent, Valid, DecisionCoherent
  <2> QED BY <1>1, <2>1, <2>2, <2>3 DEF Consistent, TerminalPermitted, Unresolved
<1>5. CASE e.type = "pending_decision_recorded"
  <2>1. Consistent(p)
    BY <1>1, <1>5 DEF Accepts, NoOpenOperation, AnswersPending, ObservesCurrent
  <2>2. e.permitted # {} /\ e.context # None
    BY <1>5 DEF Entries
  <2> QED BY <1>1, <1>5, <2>1, <2>2 DEF Apply, Consistent, Projections, TerminalRuns
<1>6. CASE e.type = "user_decision_recorded"
  <2>1. Consistent(p)
    BY <1>1, <1>6 DEF Accepts, NoOpenOperation, AnswersPending, ObservesCurrent
  <2> QED BY <1>1, <1>6, <2>1 DEF Apply, Answered, Consistent, Projections, TerminalRuns
<1>7. CASE e.type = "operation_intent_recorded"
  <2>1. Consistent(p)
    BY <1>1, <1>7 DEF Accepts, NoOpenOperation, AnswersPending, ObservesCurrent
  <2>2. e.op # None
    BY <1>7 DEF Entries
  <2>3. p.run # "waiting_for_user"
    BY <1>1, <1>7
       DEF Accepts, NoOpenOperation, AnswersPending, ObservesCurrent, MayTransition, RunTransitions
  <2> QED BY <1>1, <1>7, <2>1, <2>2, <2>3 DEF Apply, Consistent, Projections, TerminalRuns
<1>8. CASE e.type = "operation_observed"
  <2>1. /\ Consistent(p) /\ p.opId = e.op /\ e.op # None
        /\ e.state \in OpProgression(p.opState) /\ MayObserve(p, e.state, e.to)
    BY <1>1, <1>8 DEF Accepts, NoOpenOperation, AnswersPending, ObservesCurrent, Entries
  <2>2. p.opState \in OpenOps /\ e.state # "none"
    BY <2>1 DEF OpProgression, OpStates, OpenOps, ClosedOps
  <2>3. p.run = "running" /\ Unresolved(p)
    BY <2>1, <2>2 DEF Consistent, Valid, OperationCoherent, Unresolved
  <2>4. e.to \notin TerminalRuns
    BY <2>1, <2>3 DEF MayObserve, TerminalPermitted, TerminalRuns
  <2>5. /\ q.run = e.to /\ q.decision = p.decision /\ q.envelope = p.envelope
        /\ q.permitted = p.permitted /\ q.opId = p.opId /\ q.opState = e.state
    BY <1>8 DEF Apply, Coordinated, Projections
  <2>6. q.run # "waiting_for_user"
    BY <1>1, <2>1, <2>3, <2>5 DEF Consistent, Valid, DecisionCoherent
  <2> QED BY <1>1, <2>1, <2>2, <2>3, <2>4, <2>5, <2>6 DEF Consistent
<1> QED BY <1>2, <1>3, <1>4, <1>5, <1>6, <1>7, <1>8 DEF Entries

-----------------------------------------------------------------------------
(* What one reduction may do to a waiting, a busy and a settled Session.   *)

\* The answer to its own question is the only way out of `waiting_for_user`.
LEMMA WaitingStep ==
    ASSUME NEW p \in Projections, NEW e \in Entries, Consistent(p), Reducible(p, e),
           p.run = "waiting_for_user", Apply(p, e).run # "waiting_for_user"
    PROVE  /\ e.type = "user_decision_recorded" /\ e.decision = p.decision
           /\ Apply(p, e).run = "ready"
<1> DEFINE q == Apply(p, e)
<1>1. /\ Accepts(p, e) /\ Valid(q) /\ p # Absent /\ p.decision # None
      /\ p.opState \notin OpenOps
  BY ValidIsPresent DEF Reducible, Consistent, Valid, DecisionCoherent, OperationCoherent
<1>2. CASE e.type = "session_started"
  BY <1>1, <1>2 DEF Accepts, NoOpenOperation, AnswersPending, ObservesCurrent
<1>3. CASE e.type = "criteria_revised"
  BY <1>3 DEF Apply, Projections
<1>4. CASE e.type = "run_transitioned"
  <2>1. q.run = e.to /\ q.decision = p.decision
    BY <1>4 DEF Apply, Coordinated, Projections
  <2> QED BY <1>1, <2>1 DEF Valid, DecisionCoherent
<1>5. CASE e.type = "pending_decision_recorded"
  BY <1>5 DEF Apply, Projections
<1>6. CASE e.type = "user_decision_recorded"
  BY <1>1, <1>6
     DEF Accepts, NoOpenOperation, AnswersPending, ObservesCurrent, Apply, Answered, Projections
<1>7. CASE e.type = "operation_intent_recorded"
  BY <1>1, <1>7
     DEF Accepts, NoOpenOperation, AnswersPending, ObservesCurrent, MayTransition, RunTransitions
<1>8. CASE e.type = "operation_observed"
  BY <1>1, <1>8
     DEF Accepts, NoOpenOperation, AnswersPending, ObservesCurrent, OpProgression, OpenOps
<1> QED BY <1>2, <1>3, <1>4, <1>5, <1>6, <1>7, <1>8 DEF Entries

\* An open operation leaves room for its own observation, which does not close
\* the Run, and for a criteria revision.
LEMMA OpenStep ==
    ASSUME NEW p \in Projections, NEW e \in Entries, Consistent(p), Reducible(p, e),
           p.opState \in OpenOps
    PROVE  \/ e.type = "criteria_revised"
           \/ /\ e.type = "operation_observed" /\ e.op = p.opId
              /\ Apply(p, e).run \notin TerminalRuns
<1> DEFINE q == Apply(p, e)
<1>1. /\ Accepts(p, e) /\ Valid(q) /\ p # Absent /\ p.run = "running" /\ p.decision = None
      /\ Unresolved(p)
  BY ValidIsPresent DEF Reducible, Consistent, Valid, DecisionCoherent, OperationCoherent, Unresolved
<1>2. CASE e.type = "session_started"
  BY <1>1, <1>2 DEF Accepts, NoOpenOperation, AnswersPending, ObservesCurrent
<1>3. CASE e.type = "run_transitioned"
  <2>1. q.run = e.to /\ q.opState = p.opState
    BY <1>3 DEF Apply, Coordinated, Projections
  <2>2. e.to = "running"
    BY <1>1, <2>1 DEF Valid, OperationCoherent
  <2> QED BY <1>1, <1>3, <2>2
     DEF Accepts, NoOpenOperation, AnswersPending, ObservesCurrent, MayTransition, RunTransitions
<1>4. CASE e.type = "user_decision_recorded"
  <2>1. p.permitted = {}
    BY <1>1 DEF Consistent
  <2> QED BY <1>1, <1>4, <2>1 DEF Accepts, NoOpenOperation, AnswersPending, ObservesCurrent
<1>5. CASE e.type \in {"pending_decision_recorded", "operation_intent_recorded"}
  BY <1>1, <1>5 DEF Accepts, NoOpenOperation, AnswersPending, ObservesCurrent
<1>6. CASE e.type = "operation_observed"
  <2>1. e.op = p.opId /\ MayObserve(p, e.state, e.to)
    BY <1>1, <1>6 DEF Accepts, NoOpenOperation, AnswersPending, ObservesCurrent
  <2>2. e.to \notin TerminalRuns
    BY <1>1, <2>1 DEF MayObserve, TerminalPermitted, TerminalRuns
  <2>3. q.run = e.to
    BY <1>6 DEF Apply, Coordinated, Projections
  <2> QED BY <1>6, <2>1, <2>2, <2>3
<1> QED BY <1>2, <1>3, <1>4, <1>5, <1>6 DEF Entries

\* Nothing but a criteria revision reduces a settled projection.
LEMMA SettledStep ==
    ASSUME NEW p \in Projections, NEW e \in Entries, Consistent(p), Reducible(p, e), Settled(p)
    PROVE  e.type = "criteria_revised"
<1> DEFINE q == Apply(p, e)
<1>1. /\ Accepts(p, e) /\ Valid(q) /\ p # Absent /\ p.opState \notin OpenOps
      /\ p.run \in TerminalRuns \cup {"orphaned"} /\ p.permitted = {}
      /\ p.run = "orphaned" => p.opState = "unknown"
  BY ValidIsPresent
     DEF Settled, Reducible, Consistent, Valid, OperationCoherent, TerminalRuns, Unresolved
<1>2. CASE e.type = "session_started"
  BY <1>1, <1>2 DEF Accepts, NoOpenOperation, AnswersPending, ObservesCurrent
<1>3. CASE e.type = "run_transitioned"
  <2>1. q.run = e.to /\ q.opState = p.opState /\ <<p.run, e.to>> \in RunTransitions
    BY <1>1, <1>3
       DEF Accepts, NoOpenOperation, AnswersPending, ObservesCurrent, MayTransition, Apply, Coordinated, Projections
  <2>2. p.run = "orphaned" /\ e.to # "orphaned"
    BY <1>1, <2>1 DEF RunTransitions, TerminalRuns
  <2> QED BY <1>1, <2>1, <2>2 DEF Valid, OperationCoherent
<1>4. CASE e.type = "user_decision_recorded"
  BY <1>1, <1>4 DEF Accepts, NoOpenOperation, AnswersPending, ObservesCurrent
<1>5. CASE e.type \in {"pending_decision_recorded", "operation_intent_recorded"}
  BY <1>1, <1>5
     DEF Accepts, NoOpenOperation, AnswersPending, ObservesCurrent, MayTransition, RunTransitions, TerminalRuns
<1>6. CASE e.type = "operation_observed"
  BY <1>1, <1>6
     DEF Accepts, NoOpenOperation, AnswersPending, ObservesCurrent, OpProgression, OpenOps
<1> QED BY <1>2, <1>3, <1>4, <1>5, <1>6 DEF Entries

-----------------------------------------------------------------------------
(* The ledger.                                                             *)

\* The inductive invariant: the type, the one replayable line of one Session, and
\* the consistency of every recorded projection, which the next reduction depends on.
IInv == LedgerTypeOK /\ LedgerInv /\ HistoryConsistent

LEMMA LedgerInitInv == LedgerInit => IInv
BY DEF LedgerInit, IInv, LedgerTypeOK, LedgerInv, OneCommitPerKey, DenseRevisions,
       HistoryReplays, HeadIsLast, AtMostOneSession, HistoryConsistent, NoRevision,
       Absent, Projections

\* The head of a Session is absent exactly when it has no commit, and consistent
\* otherwise.
LEMMA HeadKnown ==
    ASSUME IInv, NEW s \in Sessions
    PROVE  /\ head[s] \in Projections /\ revision[s] \in Nat \cup {NoRevision}
           /\ head[s] = Absent <=> revision[s] = NoRevision
           /\ head[s] = Absent \/ Consistent(head[s])
           /\ head[s] # Absent => \E c \in commits : /\ c.session = s /\ c.after = head[s]
                                                    /\ c.revision = revision[s]
<1>1. head[s] \in Projections /\ revision[s] \in Nat \cup {NoRevision}
  BY DEF IInv, LedgerTypeOK
<1>2. HeadIsLast(s)
  BY DEF IInv, LedgerInv, HistoryReplays
<1>3. \A c \in commits : Consistent(c.after) /\ c.after # Absent
  BY ValidIsPresent DEF IInv, HistoryConsistent, Consistent
<1> QED BY <1>1, <1>2, <1>3 DEF HeadIsLast

\* One append: entry e moves Session s, and commit d is added for it.
Appends(d, s, e) ==
    /\ KeyUnused(d.key) /\ StartPrecondition(e) /\ Reducible(head[s], e)
    /\ d.session = s /\ d.entry = e /\ d.revision = revision[s] + 1
    /\ d.after = Apply(head[s], e) /\ Consistent(d.after) /\ d \notin commits
    /\ commits' = commits \cup {d}
    /\ head' = [head EXCEPT ![s] = d.after]
    /\ revision' = [revision EXCEPT ![s] = d.revision]

\* Every commit is such an append, whatever revision its caller expected.
LEMMA CommitAppends ==
    ASSUME IInv, NEW k \in Keys, NEW r \in Requests, NEW s \in Sessions, NEW expected,
           NEW e \in Entries, CommitEntry(k, r, s, expected, e)
    PROVE  \E d \in Commits : Appends(d, s, e) /\ d.key = k /\ d.request = r
<1> DEFINE d == [ key |-> k, request |-> r, session |-> s, revision |-> revision[s] + 1,
                  entry |-> e, after |-> Apply(head[s], e) ]
<1>1. /\ KeyUnused(k) /\ StartPrecondition(e) /\ Reducible(head[s], e)
      /\ commits' = commits \cup {d}
      /\ head' = [head EXCEPT ![s] = d.after]
      /\ revision' = [revision EXCEPT ![s] = d.revision]
  BY DEF CommitEntry
<1>2. head[s] \in Projections /\ revision[s] \in Nat \cup {NoRevision}
      /\ (head[s] = Absent \/ Consistent(head[s]))
  BY HeadKnown
<1>3. Apply(head[s], e) \in Projections /\ Consistent(Apply(head[s], e))
  BY <1>1, <1>2, ApplyType, ReductionConsistent
<1>4. d \in Commits
  BY <1>2, <1>3 DEF Commits, NoRevision
<1>5. d \notin commits
  BY <1>1 DEF KeyUnused
<1>6. Appends(d, s, e)
  BY <1>1, <1>3, <1>5 DEF Appends
<1> QED BY <1>4, <1>6

\* Where callers may expect any revision, whatever commits is a step of the ledger.
LEMMA CommitIsStep ==
    ASSUME Revisions = Nat, IInv, NEW k \in Keys, NEW r \in Requests, NEW s \in Sessions,
           NEW expected, NEW e \in Entries, CommitEntry(k, r, s, expected, e)
    PROVE  LedgerNext
<1>1. expected \in Revisions /\ Reducible(head[s], e)
  BY HeadKnown DEF CommitEntry, Expectable, NoRevision
<1> QED BY <1>1 DEF LedgerNext

LEMMA Step ==
    ASSUME IInv, LedgerNext
    PROVE  \E s \in Sessions, e \in Entries, d \in Commits : Appends(d, s, e)
<1>1. PICK s \in Sessions : \E e \in {x \in Entries : Reducible(head[s], x)} :
         \E k \in Keys, r \in Requests, expected \in Revisions : CommitEntry(k, r, s, expected, e)
  BY DEF LedgerNext
<1>2. PICK e \in Entries, k \in Keys, r \in Requests, expected \in Revisions :
         CommitEntry(k, r, s, expected, e)
  BY <1>1
<1> QED BY <1>2, CommitAppends

LEMMA AppendsInv ==
    ASSUME IInv, NEW s \in Sessions, NEW e \in Entries, NEW new \in Commits,
           Appends(new, s, e)
    PROVE  IInv'
<1>1. /\ new.session = s /\ new.entry = e /\ new.revision = revision[s] + 1
      /\ new.after = Apply(head[s], e) /\ Reducible(head[s], e)
  BY DEF Appends
<1>2. /\ commits \subseteq Commits /\ head \in [Sessions -> Projections]
      /\ revision \in [Sessions -> Nat \cup {NoRevision}]
  BY DEF IInv, LedgerTypeOK
<1>3. /\ commits' = commits \cup {new}
      /\ head'[s] = new.after /\ revision'[s] = new.revision
      /\ \A t \in Sessions \ {s} : head'[t] = head[t] /\ revision'[t] = revision[t]
      /\ revision[s] \in Nat \cup {-1} /\ new.revision \in Nat
  BY <1>1, <1>2 DEF Appends, NoRevision, Commits
<1>4. \A c \in commits : c.session \in Sessions /\ c.revision \in 0 .. revision[c.session]
  BY <1>2 DEF IInv, LedgerInv, DenseRevisions, Commits
<1>5. LedgerTypeOK'
  BY <1>1, <1>2, <1>3 DEF Appends, LedgerTypeOK, Commits
<1>6. OneCommitPerKey'
  BY <1>3 DEF Appends, IInv, LedgerInv, OneCommitPerKey, KeyUnused
<1>7. DenseRevisions'
  <2>1. \A c \in commits' : c.revision \in 0 .. revision'[c.session]
    BY <1>1, <1>3, <1>4
  <2>2. ASSUME NEW t \in Sessions, NEW n \in 0 .. revision'[t]
        PROVE  \E c \in commits' : c.session = t /\ c.revision = n
    <3>1. CASE t = s /\ n = new.revision
      BY <1>1, <1>3, <3>1
    <3>2. CASE ~(t = s /\ n = new.revision)
      <4>1. n \in 0 .. revision[t]
        BY <1>1, <1>3, <3>2
      <4> QED BY <1>3, <4>1 DEF IInv, LedgerInv, DenseRevisions
    <3> QED BY <3>1, <3>2
  <2>3. ASSUME NEW c \in commits', NEW d \in commits', c.session = d.session,
               c.revision = d.revision
        PROVE  c = d
    <3>1. \A x \in commits : x.session = s => x.revision # new.revision
      BY <1>1, <1>3, <1>4
    <3> QED BY <1>1, <1>3, <2>3, <3>1 DEF IInv, LedgerInv, DenseRevisions
  <2> QED BY <2>1, <2>2, <2>3 DEF DenseRevisions
<1>8. HistoryReplays'
  <2>1. ASSUME NEW c \in commits PROVE Follows(c)'
    BY <1>3 DEF IInv, LedgerInv, HistoryReplays, Follows
  <2>2. Follows(new)'
    <3> USE DEF Follows, ReducesFrom
    <3>1. ReducesFrom(head[s], new)
      BY <1>1 DEF ReducesFrom
    <3>2. CASE head[s] = Absent
      <4>1. new.revision = 0
        BY <1>1, <3>2, HeadKnown DEF NoRevision
      <4> QED BY <3>1, <3>2, <4>1
    <3>3. CASE head[s] # Absent
      <4>1. PICK c \in commits : /\ c.session = s /\ c.after = head[s]
                                 /\ c.revision = revision[s]
        BY <3>3, HeadKnown
      <4>2. new.revision # 0 /\ c.revision = new.revision - 1 /\ c \in commits'
        BY <1>1, <1>3, <3>3, <4>1, HeadKnown DEF NoRevision
      <4> QED BY <1>1, <3>1, <4>1, <4>2
    <3> QED BY <3>2, <3>3
  <2>3. ASSUME NEW t \in Sessions PROVE HeadIsLast(t)'
    <3>1. CASE t = s
      BY <1>1, <1>3, <3>1 DEF HeadIsLast, NoRevision
    <3>2. CASE t # s
      BY <1>3, <3>2 DEF IInv, LedgerInv, HistoryReplays, HeadIsLast
    <3> QED BY <3>1, <3>2
  <2> QED BY <1>3, <2>1, <2>2, <2>3 DEF HistoryReplays
<1>9. AtMostOneSession'
  <2>1. ASSUME NEW c \in commits PROVE c.session = s
    <3>1. e.type # "session_started"
      BY DEF Appends, StartPrecondition
    <3>2. head[s] # Absent
      BY <1>1, <3>1, OnlyStartOnAbsent
    <3> QED BY <3>2, HeadKnown DEF IInv, LedgerInv, AtMostOneSession
  <2> QED BY <1>1, <1>3, <2>1 DEF AtMostOneSession
<1>10. HistoryConsistent'
  BY <1>3 DEF Appends, IInv, HistoryConsistent
<1> QED BY <1>5, <1>6, <1>7, <1>8, <1>9, <1>10 DEF IInv, LedgerInv

LEMMA StutterInv ==
    ASSUME IInv, UNCHANGED ledgerVars
    PROVE  IInv'
BY DEF ledgerVars, IInv, LedgerTypeOK, LedgerInv, OneCommitPerKey, DenseRevisions,
       HistoryReplays, Follows, HeadIsLast, AtMostOneSession, HistoryConsistent

\* Every reachable state of the ledger satisfies the inductive invariant.
THEOREM LedgerInvariant == LedgerSpec => []IInv
<1>1. LedgerInit => IInv
  BY LedgerInitInv
<1>2. IInv /\ [LedgerNext]_ledgerVars => IInv'
  <2> SUFFICES ASSUME IInv, [LedgerNext]_ledgerVars PROVE IInv'
    OBVIOUS
  <2>1. CASE LedgerNext
    BY <2>1, Step, AppendsInv
  <2>2. CASE UNCHANGED ledgerVars
    BY <2>2, StutterInv
  <2> QED BY <2>1, <2>2
<1> QED BY <1>1, <1>2, PTL DEF LedgerSpec

\* Commits, heads and revisions are well formed: what journal and replay reduce
\* is always a projection.
THEOREM LedgerTypeCorrect == LedgerSpec => []LedgerTypeOK
<1>1. IInv => LedgerTypeOK
  BY DEF IInv
<1> QED BY <1>1, LedgerInvariant, PTL

\* One commit per idempotency key, revisions without gaps or repetitions, and a
\* history whose replay reproduces every stored result and the head.
THEOREM LedgerHistory == LedgerSpec => []LedgerInv
<1>1. IInv => LedgerInv
  BY DEF IInv
<1> QED BY <1>1, LedgerInvariant, PTL

\* However many callers race to start a Session, the store holds one.
THEOREM LedgerSingleSession == LedgerSpec => []AtMostOneSession
<1>1. IInv => AtMostOneSession
  BY DEF IInv, LedgerInv
<1> QED BY <1>1, LedgerInvariant, PTL

\* Every projection ever recorded is consistent: question, answers and envelope
\* together, and no Run closed over an unsettled effect.
THEOREM LedgerConsistent == LedgerSpec => []HistoryConsistent
<1>1. IInv => HistoryConsistent
  BY DEF IInv
<1> QED BY <1>1, LedgerInvariant, PTL

-----------------------------------------------------------------------------
(* The action properties.                                                  *)

\* The facts an action property needs of one append: the projection it started
\* from is consistent unless absent, and only its own Session moves.
LEMMA AppendFacts ==
    ASSUME IInv, NEW s \in Sessions, NEW e \in Entries, NEW d \in Commits, Appends(d, s, e)
    PROVE  /\ head[s] \in Projections /\ (head[s] = Absent \/ Consistent(head[s]))
           /\ Reducible(head[s], e)
           /\ d.session = s /\ d.entry = e /\ d.after = Apply(head[s], e)
           /\ Appended = {d} /\ head'[s] = Apply(head[s], e)
           /\ \A t \in Sessions \ {s} : head'[t] = head[t]
BY HeadKnown DEF Appends, Appended, IInv, LedgerTypeOK

\* What an append may never do to a Session, its own or another.
LEMMA AppendPromises ==
    ASSUME IInv, NEW s \in Sessions, NEW e \in Entries, NEW d \in Commits, Appends(d, s, e),
           NEW t \in Sessions
    PROVE  LeftByAnswer(t) /\ Exclusive(t) /\ Stays(t)
<1>1. ASSUME t = s PROVE LeftByAnswer(t)
  <2> SUFFICES ASSUME head[s].run = "waiting_for_user", head'[s].run # "waiting_for_user"
               PROVE  /\ head'[s].run = "ready"
                      /\ d.entry.type = "user_decision_recorded"
                      /\ d.entry.decision = head[s].decision
    BY <1>1, AppendFacts DEF LeftByAnswer
  <2>1. Consistent(head[s])
    BY AppendFacts DEF Absent
  <2> QED BY <2>1, AppendFacts, WaitingStep
<1>2. ASSUME t = s PROVE Exclusive(t)
  <2> SUFFICES ASSUME head[s].opState \in OpenOps
               PROVE  \/ e.type = "criteria_revised"
                      \/ /\ e.type = "operation_observed" /\ e.op = head[s].opId
                         /\ Apply(head[s], e).run \notin TerminalRuns
    BY <1>2, AppendFacts DEF Exclusive
  <2>1. Consistent(head[s])
    BY AppendFacts DEF Absent, OpenOps
  <2> QED BY <2>1, AppendFacts, OpenStep
<1>3. ASSUME t = s, Settled(head[t])
      PROVE  head'[t] = [head[t] EXCEPT !.criteria = head'[t].criteria]
  <2>1. Consistent(head[s])
    BY <1>3, AppendFacts DEF Absent, Settled, TerminalRuns
  <2>2. e.type = "criteria_revised"
    BY <1>3, <2>1, AppendFacts, SettledStep
  <2>3. head'[s] = Apply(head[s], e) /\ head[s] \in Projections
    BY AppendFacts
  <2>4. Apply(head[s], e) = [head[s] EXCEPT !.criteria = e.criteria]
    BY <2>2 DEF Apply
  <2> QED BY <1>3, <2>3, <2>4 DEF Projections
<1>4. ASSUME t # s PROVE LeftByAnswer(t) /\ Exclusive(t) /\ Stays(t)
  BY <1>4, AppendFacts DEF LeftByAnswer, Exclusive, Stays, Projections, IInv, LedgerTypeOK
<1> QED BY <1>1, <1>2, <1>3, <1>4 DEF Stays

\* A waiting Run is left by the answer to its question and becomes ready: no
\* cancellation, transition, operation or second question takes it elsewhere.
THEOREM LedgerWaiting == LedgerSpec => WaitingLeftOnlyByAnswer
<1>1. IInv /\ [LedgerNext]_ledgerVars => [\A s \in Sessions : LeftByAnswer(s)]_ledgerVars
  BY Step, AppendPromises
<1> QED BY <1>1, LedgerInvariant, PTL DEF LedgerSpec, WaitingLeftOnlyByAnswer

\* An open operation excludes every other work on its Session, and its own
\* observation cannot close the Run.
THEOREM LedgerOperation == LedgerSpec => OpenOperationExclusive
<1>1. IInv /\ [LedgerNext]_ledgerVars => [\A s \in Sessions : Exclusive(s)]_ledgerVars
  BY Step, AppendPromises
<1> QED BY <1>1, LedgerInvariant, PTL DEF LedgerSpec, OpenOperationExclusive

\* A closed Run never reopens, and a Run orphaned by an unknown effect never moves.
THEOREM LedgerSettled == LedgerSpec => SettledStays
<1>1. IInv /\ [LedgerNext]_ledgerVars => [\A s \in Sessions : Stays(s)]_ledgerVars
  BY Step, AppendPromises
<1> QED BY <1>1, LedgerInvariant, PTL DEF LedgerSpec, SettledStays
=============================================================================
