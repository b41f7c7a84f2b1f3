--------------------------- MODULE Workflow_proofs ---------------------------
(***************************************************************************)
(* What a caller of Kiln.Workflow is promised, for any number of callers,  *)
(* submissions and calls.  A call is several transactions, so what it has  *)
(* checked may be stale when it appends; the inductive invariant says what *)
(* of it is still true: a key found used stays used by the same commit, a  *)
(* revision observed is never ahead of the Session, and a projection       *)
(* loaded is the head for as long as the revision expected is the current  *)
(* one.  The ledger's own invariant comes from SessionLedger_proofs.       *)
(***************************************************************************)
EXTENDS Workflow, SessionLedger_proofs

-----------------------------------------------------------------------------
(* The inductive invariant, caller by caller.                              *)

ScopedCall(c) == call[c].request.op # "start_session"

\* A call in progress carries a request the boundary let through, at a revision
\* its Session has reached.
Asked(c) ==
    pc[c] # "idle" =>
        /\ call[c].key \in Keys /\ call[c].request \in CallRequests
        /\ Observed(call[c].request)
        /\ ScopedCall(c) => call[c].session = call[c].request.session
        /\ pc[c] = "lookup" => call[c].request.op \in LookupFirst
        /\ pc[c] = "load" => ScopedCall(c)
        /\ pc[c] = "append" => call[c].session \in Sessions

\* What a call has loaded is the head unless its append is refused as stale.
Current(c) ==
    pc[c] = "append" /\ ScopedCall(c) =>
        LET r == call[c].request
            s == call[c].session
        IN  /\ loaded[c] # Absent /\ Checks(r, loaded[c])
            /\ revision[s] \in Nat /\ r.expected <= revision[s]
            /\ r.expected = revision[s] => head[s] = loaded[c]

Committed(c) ==
    answer[c].status = "ok" =>
        \E d \in commits : /\ d.key = call[c].key /\ d.request = call[c].request
                           /\ answer[c] = Result(d, answer[c].action)

\* A retry is answered by the lookup alone.
Retried(c) ==
    call[c].retry =>
        /\ call[c].key \in Keys /\ Classify(call[c].key, call[c].request) = "replay"
        /\ call[c].request.op \in LookupFirst =>
              /\ pc[c] \in {"idle", "lookup"}
              /\ answer[c].status # "none" => answer[c] = StoredResult(call[c].key)

CallOK(c) == Asked(c) /\ Current(c) /\ Committed(c) /\ Retried(c)

WInv == IInv /\ TypeOK /\ \A c \in Callers : CallOK(c)

-----------------------------------------------------------------------------
(* How the ledger moves under a call.                                      *)

\* A step leaves the ledger alone, or appends one commit and stores its action.
Moves ==
    \/ UNCHANGED <<ledgerVars, actionOf>>
    \/ \E s \in Sessions, e \in Entries, d \in Commits :
          Appends(d, s, e) /\ \A k \in Keys \ {d.key} : actionOf'[k] = actionOf[k]

LEMMA MovesInv ==
    ASSUME IInv, Moves
    PROVE  IInv'
BY AppendsInv, StutterInv DEF Moves

\* No move takes a commit away or puts a Session back.
LEMMA MovesForward ==
    ASSUME IInv, Moves
    PROVE  /\ commits \subseteq commits'
           /\ \A s \in Sessions :
                 /\ revision[s] \in Nat \cup {NoRevision}
                 /\ revision'[s] \in Nat \cup {NoRevision}
                 /\ revision[s] <= revision'[s]
                 /\ revision'[s] = revision[s] => head'[s] = head[s]
<1>1. IInv'
  BY MovesInv
<1>2. /\ head \in [Sessions -> Projections] /\ revision \in [Sessions -> Nat \cup {NoRevision}]
      /\ revision' \in [Sessions -> Nat \cup {NoRevision}]
  BY <1>1 DEF IInv, LedgerTypeOK
<1>3. CASE UNCHANGED <<ledgerVars, actionOf>>
  BY <1>2, <1>3 DEF ledgerVars, NoRevision
<1>4. ASSUME NEW s \in Sessions, NEW e \in Entries, NEW d \in Commits, Appends(d, s, e)
      PROVE  /\ commits \subseteq commits'
             /\ \A t \in Sessions : /\ revision[t] <= revision'[t]
                                    /\ revision'[t] = revision[t] => head'[t] = head[t]
  BY <1>2, <1>4 DEF Appends, NoRevision
<1> QED BY <1>2, <1>3, <1>4 DEF Moves

\* A key that names a commit names it for good, with the action stored beside it.
LEMMA MovesKeepKey ==
    ASSUME IInv, Moves, NEW k \in Keys, ~KeyUnused(k)
    PROVE  /\ ~KeyUnused(k)' /\ CommitOf(k)' = CommitOf(k) /\ CommitOf(k) \in commits
           /\ CommitOf(k).key = k /\ actionOf'[k] = actionOf[k]
<1>1. PICK d \in commits : d.key = k
  BY DEF KeyUnused
<1>2. IInv' /\ commits \subseteq commits'
  BY MovesInv, MovesForward
<1>3. \A x \in commits' : x.key = k => x = d
  BY <1>1, <1>2 DEF IInv, LedgerInv, OneCommitPerKey
<1>4. CommitOf(k) = d /\ CommitOf(k)' = d
  BY <1>1, <1>2, <1>3 DEF CommitOf
<1>5. actionOf'[k] = actionOf[k]
  BY <1>1 DEF Moves, Appends, KeyUnused
<1> QED BY <1>1, <1>2, <1>4, <1>5 DEF KeyUnused

LEMMA UsedKey ==
    ASSUME NEW k, ~KeyUnused(k)
    PROVE  CommitOf(k) \in commits /\ CommitOf(k).key = k
BY DEF KeyUnused, CommitOf

LEMMA ReplayIsUsed ==
    ASSUME NEW k, NEW r
    PROVE  /\ Classify(k, r) = "none" <=> KeyUnused(k)
           /\ Classify(k, r) = "replay" <=> ~KeyUnused(k) /\ CommitOf(k).request = r
BY DEF Classify

LEMMA MovesKeepReplay ==
    ASSUME IInv, Moves, NEW k \in Keys, NEW r, Classify(k, r) = "replay"
    PROVE  Classify(k, r)' = "replay" /\ StoredResult(k)' = StoredResult(k)
BY MovesKeepKey DEF Classify, StoredResult, Result

\* A revision observed stays observed.
LEMMA MovesKeepObserved ==
    ASSUME IInv, Moves, NEW r \in CallRequests, Observed(r)
    PROVE  Observed(r)'
<1>1. CASE r.op = "start_session"
  BY <1>1 DEF Observed
<1>2. CASE r.op # "start_session"
  <2>1. r.session \in Sessions /\ r.expected \in Nat
    BY <1>2, RevisionsAreNaturals DEF CallRequests, Scoped, Asking, Answering
  <2> QED BY <2>1, MovesForward DEF Observed, Expectable, NoRevision
<1> QED BY <1>1, <1>2

\* So a step of others, or one that only ends a call, leaves its facts standing.
LEMMA OthersKeep ==
    ASSUME WInv, Moves, NEW c \in Callers,
           pc'[c] = pc[c], call'[c] = call[c], loaded'[c] = loaded[c], answer'[c] = answer[c]
    PROVE  CallOK(c)'
<1>1. IInv /\ CallOK(c)
  BY DEF WInv
<1>2. Asked(c)'
  BY <1>1, MovesKeepObserved DEF CallOK, Asked, ScopedCall, Observed
<1>3. Current(c)'
  <2> SUFFICES ASSUME pc[c] = "append", ScopedCall(c) PROVE Current(c)'
    BY DEF Current, ScopedCall
  <2> DEFINE r == call[c].request
             s == call[c].session
  <2>1. /\ loaded[c] # Absent /\ Checks(r, loaded[c]) /\ r.expected <= revision[s]
        /\ revision[s] \in Nat
        /\ r.expected = revision[s] => head[s] = loaded[c]
    BY <1>1 DEF CallOK, Current
  <2>2. s \in Sessions /\ r \in CallRequests
    BY <1>1 DEF CallOK, Asked
  <2>3. r.expected \in Nat
    BY <2>2, RevisionsAreNaturals DEF ScopedCall, CallRequests, Scoped, Asking, Answering
  <2>4. /\ revision'[s] \in Nat /\ revision[s] <= revision'[s]
        /\ revision'[s] = revision[s] => head'[s] = head[s]
    BY <1>1, <2>1, <2>2, MovesForward DEF NoRevision
  <2>5. r.expected <= revision'[s] /\ (r.expected = revision'[s] => head'[s] = loaded[c])
    BY <2>1, <2>3, <2>4
  <2> QED BY <2>1, <2>4, <2>5 DEF Current, Checks, ScopedCall, Authorized
<1>4. Committed(c)'
  BY <1>1, MovesForward DEF CallOK, Committed, Result
<1>5. Retried(c)'
  BY <1>1, MovesKeepReplay DEF CallOK, Retried
<1> QED BY <1>2, <1>3, <1>4, <1>5 DEF CallOK

LEMMA StepInv ==
    ASSUME WInv, Moves, TypeOK', NEW c \in Callers, CallOK(c)',
           \A o \in Callers \ {c} : /\ pc'[o] = pc[o] /\ call'[o] = call[o]
                                    /\ loaded'[o] = loaded[o] /\ answer'[o] = answer[o]
    PROVE  WInv'
BY OthersKeep, MovesInv DEF WInv

\* The entry of a checked request is one the reducer knows.
LEMMA EntryTyped ==
    ASSUME NEW r \in CallRequests, NEW p \in Projections,
           r.op # "start_session" => Checks(r, p)
    PROVE  EntryOf(r, p) \in Entries
<1>1. CASE r.op = "start_session"
  <2>1. [ type |-> "session_started" ] \in [ type : {"session_started"} ]
    OBVIOUS
  <2>2. EntryOf(r, p) = [ type |-> "session_started" ]
    BY <1>1 DEF EntryOf, Transitions
  <2> QED BY <2>1, <2>2 DEF Entries
<1>2. CASE r.op \in Transitions
  <2>1. p.run \in RunStates /\ TargetState(r.op) \in RunStates
    BY <1>2 DEF Checks, Authorized, RunTransitions, RunStates, TerminalRuns, TargetState,
                Transitions
  <2> HIDE DEF RunStates
  <2> QED BY <1>2, <2>1 DEF EntryOf, Entries, Transitions
<1>3. CASE r \in Asking
  BY <1>3 DEF Asking, EntryOf, Entries, Transitions
<1>4. CASE r \in Answering
  BY <1>4 DEF Answering, EntryOf, Entries, Transitions
<1> QED BY <1>1, <1>2, <1>3, <1>4 DEF CallRequests, Scoped

-----------------------------------------------------------------------------
(* The steps.                                                              *)

LEMMA InitInv == Init => WInv
<1> SUFFICES ASSUME Init PROVE WInv
  OBVIOUS
<1>1. IInv
  BY LedgerInitInv DEF Init
<1>2. TypeOK
  BY MaxCallsIsNatural
     DEF Init, TypeOK, NoCall, Absent, Projections, Answers, NoAnswer
<1>3. ASSUME NEW c \in Callers PROVE CallOK(c)
  BY DEF Init, CallOK, Asked, Current, Committed, Retried, NoCall, NoAnswer
<1> QED BY <1>1, <1>2, <1>3 DEF WInv

LEMMA SubmitInv ==
    ASSUME WInv, NEW c \in Callers, NEW submission \in Submissions, Submit(c, submission)
    PROVE  WInv' /\ Moves
<1> DEFINE k == submission.key
           r == submission.request
<1>1. k \in Keys /\ r \in CallRequests
  BY SubmissionsAreNormalized
<1>2. r.op # "start_session" => r.session \in Sessions /\ r.expected \in Nat
  BY <1>1, RevisionsAreNaturals DEF CallRequests, Scoped, Asking, Answering
<1>3. TypeOK /\ IInv
  BY DEF WInv
<1>4. Moves
  BY DEF Submit, Moves
<1>5. /\ pc' = [pc EXCEPT ![c] = IF r.op \in LookupFirst THEN "lookup" ELSE "load"]
      /\ call' = [call EXCEPT ![c] =
            [ key |-> k, request |-> r, attempt |-> calls + 1,
              session |-> IF r.op = "start_session" THEN None ELSE r.session,
              retry |-> Classify(k, r) = "replay" ]]
      /\ answer' = [answer EXCEPT ![c] = NoAnswer] /\ Observed(r)
      /\ calls' = calls + 1 /\ calls < MaxCalls
      /\ UNCHANGED <<commits, head, revision, loaded, minted, actionOf>>
  BY DEF Submit, ledgerVars
<1>6. TypeOK'
  <2>1. (Classify(k, r) = "replay") \in BOOLEAN
    OBVIOUS
  <2> HIDE DEF k, r
  <2> QED BY <1>1, <1>2, <1>3, <1>5, <2>1, MaxCallsIsNatural DEF TypeOK, Answers, NoAnswer
<1>7. /\ pc'[c] = IF r.op \in LookupFirst THEN "lookup" ELSE "load"
      /\ call'[c].key = k /\ call'[c].request = r
      /\ call'[c].session = IF r.op = "start_session" THEN None ELSE r.session
      /\ call'[c].retry => Classify(k, r) = "replay"
      /\ answer'[c] = NoAnswer
      /\ \A o \in Callers \ {c} : /\ pc'[o] = pc[o] /\ call'[o] = call[o]
                                  /\ loaded'[o] = loaded[o] /\ answer'[o] = answer[o]
  BY <1>3, <1>5 DEF TypeOK
<1>8. Observed(r)' /\ (Classify(k, r) = "replay" => Classify(k, r)' = "replay")
  BY <1>5 DEF Observed, Expectable, Classify, KeyUnused, CommitOf
<1>9. CallOK(c)'
  <2>1. Asked(c)'
    BY <1>1, <1>7, <1>8 DEF Asked, ScopedCall, LookupFirst
  <2>2. Current(c)' /\ Committed(c)'
    BY <1>7 DEF Current, Committed, NoAnswer
  <2>3. Retried(c)'
    BY <1>1, <1>7, <1>8 DEF Retried, NoAnswer, LookupFirst
  <2> QED BY <2>1, <2>2, <2>3 DEF CallOK
<1> QED BY <1>4, <1>6, <1>7, <1>9, StepInv

LEMMA CrashInv ==
    ASSUME WInv, NEW c \in Callers, Crash(c)
    PROVE  WInv' /\ Moves
<1>1. Moves
  BY DEF Crash, Moves
<1>2. TypeOK
  BY DEF WInv
<1>3. TypeOK' /\ pc'[c] = "idle" /\ answer'[c] = NoAnswer /\ call'[c] = NoCall
  BY <1>2 DEF Crash, Return, TypeOK, Answers, NoAnswer, NoCall, Absent, Projections
<1>4. \A o \in Callers \ {c} : /\ pc'[o] = pc[o] /\ call'[o] = call[o]
                               /\ loaded'[o] = loaded[o] /\ answer'[o] = answer[o]
  BY <1>2 DEF Crash, Return, TypeOK
<1>5. CallOK(c)'
  BY <1>3 DEF CallOK, Asked, Current, Committed, Retried, NoAnswer, NoCall
<1> QED BY <1>1, <1>3, <1>4, <1>5, StepInv

\* What a call returns when it finds its own commit.
LEMMA StoredAnswer ==
    ASSUME WInv, NEW k \in Keys, NEW r, Classify(k, r) = "replay", NEW action \in Nat
    PROVE  /\ Result(CommitOf(k), action) \in Answers
           /\ Result(CommitOf(k), action).status = "ok"
           /\ Result(CommitOf(k), action).action = action
           /\ CommitOf(k) \in commits /\ CommitOf(k).key = k /\ CommitOf(k).request = r
<1>1. CommitOf(k) \in commits /\ CommitOf(k).key = k /\ CommitOf(k).request = r
  BY UsedKey, ReplayIsUsed
<1>2. CommitOf(k) \in Commits
  BY <1>1 DEF WInv, IInv, LedgerTypeOK
<1> QED BY <1>1, <1>2 DEF Commits, Result, Answers

\* The facts every step of a call starts from.
LEMMA InCall ==
    ASSUME WInv, NEW c \in Callers, pc[c] # "idle"
    PROVE  /\ call[c].key \in Keys /\ call[c].request \in CallRequests
           /\ ScopedCall(c) => /\ call[c].session = call[c].request.session
                               /\ call[c].session \in Sessions
                               /\ call[c].request.expected \in Nat
           /\ call[c].attempt \in Nat /\ loaded[c] \in Projections
           /\ actionOf[call[c].key] \in Nat
<1>1. Asked(c) /\ TypeOK
  BY DEF WInv, CallOK
<1> QED BY <1>1, RevisionsAreNaturals
        DEF Asked, ScopedCall, TypeOK, CallRequests, Scoped, Asking, Answering

\* A call that ends without touching the ledger, with an error or an answer.
LEMMA ReturnInv ==
    ASSUME WInv, NEW c \in Callers, NEW value \in Answers, pc[c] # "idle", Return(c, value),
           UNCHANGED <<ledgerVars, call, minted, calls, actionOf>>,
           value.status = "ok" =>
               \E d \in commits : /\ d.key = call[c].key /\ d.request = call[c].request
                                  /\ value = Result(d, value.action),
           call[c].retry /\ call[c].request.op \in LookupFirst =>
               value = StoredResult(call[c].key)
    PROVE  WInv' /\ Moves
<1>1. Moves
  BY DEF Moves
<1>2. TypeOK /\ CallOK(c)
  BY DEF WInv
<1>3. TypeOK' /\ pc'[c] = "idle" /\ answer'[c] = value /\ call' = call
  BY <1>2 DEF Return, TypeOK, Absent, Projections
<1>4. \A o \in Callers \ {c} : /\ pc'[o] = pc[o] /\ call'[o] = call[o]
                               /\ loaded'[o] = loaded[o] /\ answer'[o] = answer[o]
  BY <1>2 DEF Return, TypeOK
<1>5. Retried(c)'
  BY <1>2, <1>3 DEF CallOK, Retried, Classify, KeyUnused, CommitOf, StoredResult, Result, ledgerVars
<1>6. Committed(c)'
  BY <1>3 DEF Committed, Result, ledgerVars
<1>7. CallOK(c)'
  BY <1>3, <1>5, <1>6 DEF CallOK, Asked, Current
<1> QED BY <1>1, <1>3, <1>4, <1>7, StepInv

LEMMA LookupInv ==
    ASSUME WInv, NEW c \in Callers, Lookup(c)
    PROVE  WInv' /\ Moves
<1> DEFINE k == call[c].key
           r == call[c].request
<1>1. /\ pc[c] = "lookup" /\ TypeOK /\ CallOK(c) /\ r.op \in LookupFirst
      /\ UNCHANGED <<ledgerVars, calls, actionOf>>
  BY DEF Lookup, WInv, CallOK, Asked
<1>2. k \in Keys /\ actionOf[k] \in Nat
  BY <1>1, InCall
<1>3. CASE Classify(k, r) = "none"
  <2>1. ~call[c].retry /\ Moves
    BY <1>1, <1>3 DEF CallOK, Retried, Moves
  <2> DEFINE Loads == /\ r.op # "start_session" /\ pc' = [pc EXCEPT ![c] = "load"]
                      /\ UNCHANGED <<call, loaded, minted, answer>>
             Mints(s) == /\ r.op = "start_session" /\ pc' = [pc EXCEPT ![c] = "append"]
                         /\ call' = [call EXCEPT ![c].session = s]
                         /\ minted' = minted \cup {s} /\ UNCHANGED <<loaded, answer>>
             Moved == /\ TypeOK' /\ UNCHANGED <<loaded, answer>> /\ pc'[c] \in {"load", "append"}
                      /\ pc'[c] = "append" <=> r.op = "start_session"
                      /\ call'[c] = [call[c] EXCEPT !.session = call'[c].session]
                      /\ r.op = "start_session" => call'[c].session \in Sessions
                      /\ r.op # "start_session" => call'[c] = call[c]
                      /\ \A o \in Callers \ {c} : pc'[o] = pc[o] /\ call'[o] = call[o]
  <2>2. Loads \/ \E s \in Sessions : Mints(s)
    BY <1>3 DEF Lookup, Transitions
  <2>3. ASSUME Loads PROVE Moved
    BY <1>1, <2>3 DEF TypeOK
  <2>4. ASSUME NEW s \in Sessions, Mints(s) PROVE Moved
    <3>1. TypeOK'
      BY <1>1, <2>4 DEF TypeOK
    <3> QED BY <1>1, <2>4, <3>1 DEF TypeOK
  <2>5. Moved
    <3> HIDE DEF Loads, Mints, Moved
    <3> QED BY <2>2, <2>3, <2>4
  <2>6. /\ call'[c].key = k /\ call'[c].request = r /\ call'[c].retry = call[c].retry
        /\ answer'[c] = answer[c] /\ commits' = commits /\ head' = head
        /\ revision' = revision
    BY <1>1, <2>5 DEF TypeOK, ledgerVars
  <2>7. Asked(c)'
    BY <1>1, <2>5, <2>6 DEF CallOK, Asked, ScopedCall, Observed, Expectable, LookupFirst, Transitions
  <2>8. Current(c)' /\ Retried(c)'
    BY <2>1, <2>5, <2>6 DEF Current, Retried, ScopedCall
  <2>9. Committed(c)'
    BY <1>1, <2>6 DEF CallOK, Committed, Result
  <2> HIDE DEF k, r
  <2> QED BY <2>1, <2>5, <2>7, <2>8, <2>9, StepInv DEF CallOK
<1>4. CASE Classify(k, r) = "replay"
  <2>1. Return(c, StoredResult(k)) /\ UNCHANGED <<call, minted>>
    BY <1>4 DEF Lookup
  <2>2. StoredResult(k) \in Answers
    BY <1>2, <1>4, StoredAnswer DEF StoredResult
  <2>3. \E d \in commits : /\ d.key = k /\ d.request = r
                           /\ StoredResult(k) = Result(d, StoredResult(k).action)
    BY <1>2, <1>4, StoredAnswer DEF StoredResult
  <2> HIDE DEF k, r
  <2> QED BY <1>1, <2>1, <2>2, <2>3, ReturnInv DEF k, r
<1>5. CASE Classify(k, r) = "conflict"
  <2>1. Return(c, Error("idempotency_conflict")) /\ UNCHANGED <<call, minted>>
    BY <1>5 DEF Lookup
  <2>2. ~call[c].retry
    BY <1>1, <1>5 DEF CallOK, Retried
  <2>3. Error("idempotency_conflict") \in Answers /\ Error("idempotency_conflict").status # "ok"
    BY DEF Answers, Error
  <2> QED BY <1>1, <2>1, <2>2, <2>3, ReturnInv
<1> QED BY <1>3, <1>4, <1>5 DEF Classify

LEMMA LoadInv ==
    ASSUME WInv, NEW c \in Callers, Load(c)
    PROVE  WInv' /\ Moves
<1> DEFINE r == call[c].request
           s == call[c].session
           p == head[s]
<1>1. /\ pc[c] = "load" /\ TypeOK /\ CallOK(c) /\ IInv /\ ScopedCall(c)
      /\ UNCHANGED <<ledgerVars, call, minted, calls, actionOf>>
  BY DEF Load, WInv, CallOK, Asked
<1>2. /\ r \in CallRequests /\ s \in Sessions /\ r.session = s /\ r.expected \in Nat
      /\ r.expected <= Expectable(s)
  BY <1>1, InCall DEF CallOK, Asked, Observed, ScopedCall
<1>3. call[c].retry => r.op \notin LookupFirst
  BY <1>1 DEF CallOK, Retried
<1>4. CASE p = Absent
  <2>1. Return(c, Raised)
    BY <1>4 DEF Load
  <2>2. Raised \in Answers /\ Raised.status # "ok"
    BY DEF Raised, Answers
  <2> QED BY <1>1, <1>3, <2>1, <2>2, ReturnInv
<1>5. CASE p # Absent /\ ~Checks(r, p)
  <2>1. Return(c, Error("not_permitted"))
    BY <1>5 DEF Load
  <2>2. Error("not_permitted") \in Answers /\ Error("not_permitted").status # "ok"
    BY DEF Answers, Error
  <2> QED BY <1>1, <1>3, <2>1, <2>2, ReturnInv
<1>6. CASE p # Absent /\ Checks(r, p)
  <2>1. /\ loaded' = [loaded EXCEPT ![c] = p] /\ pc' = [pc EXCEPT ![c] = "append"]
        /\ answer' = answer
    BY <1>6 DEF Load
  <2>2. Moves
    BY <1>1 DEF Moves
  <2>3. p \in Projections /\ revision[s] \in Nat /\ r.expected <= revision[s]
    BY <1>1, <1>2, <1>6, HeadKnown DEF Expectable, NoRevision
  <2>4. TypeOK'
    <3> HIDE DEF p
    <3> QED BY <1>1, <2>1, <2>3 DEF TypeOK
  <2>5. /\ pc'[c] = "append" /\ loaded'[c] = p /\ call' = call /\ answer' = answer
        /\ commits' = commits /\ head' = head /\ revision' = revision /\ actionOf' = actionOf
        /\ \A o \in Callers \ {c} : pc'[o] = pc[o] /\ loaded'[o] = loaded[o]
    BY <1>1, <2>1 DEF TypeOK, ledgerVars
  <2>6. Asked(c)'
    BY <1>1, <1>2, <2>5 DEF CallOK, Asked, ScopedCall, Observed, Expectable
  <2>7. Current(c)'
    BY <1>1, <1>6, <2>3, <2>5 DEF Current, ScopedCall, Checks, Authorized
  <2>8. Committed(c)'
    BY <1>1, <2>5 DEF CallOK, Committed, Result
  <2>9. Retried(c)'
    BY <1>1, <1>3, <2>5 DEF CallOK, Retried, Classify, KeyUnused, CommitOf
  <2> HIDE DEF p, r, s
  <2> QED BY <2>2, <2>4, <2>5, <2>6, <2>7, <2>8, <2>9, StepInv DEF CallOK
<1> QED BY <1>4, <1>5, <1>6

LEMMA AppendStep ==
    ASSUME WInv, NEW c \in Callers, pc[c] = "append",
           Classify(call[c].key, call[c].request) = "none",
           CommitEntry(call[c].key, call[c].request, call[c].session,
                       ExpectedRevision(call[c].request), EntryOf(call[c].request, loaded[c]))
    PROVE  /\ call[c].session \in Sessions
           /\ EntryOf(call[c].request, loaded[c]) \in Entries
           /\ \E d \in Commits :
                /\ Appends(d, call[c].session, EntryOf(call[c].request, loaded[c]))
                /\ d.key = call[c].key /\ d.request = call[c].request
                /\ Appended = {d} /\ commits' = commits \cup {d}
<1> DEFINE r == call[c].request
           s == call[c].session
           e == EntryOf(r, loaded[c])
<1>1. /\ IInv /\ TypeOK /\ CallOK(c) /\ s \in Sessions /\ r \in CallRequests
      /\ loaded[c] \in Projections /\ call[c].key \in Keys
  BY InCall DEF WInv, CallOK, Asked
<1>2. e \in Entries
  BY <1>1, EntryTyped DEF CallOK, Current, ScopedCall
<1>3. r \in Requests
  BY <1>1 DEF CallRequests
<1>4. PICK d \in Commits : Appends(d, s, e) /\ d.key = call[c].key /\ d.request = r
  <2> HIDE DEF e
  <2> QED BY <1>1, <1>2, <1>3, CommitAppends DEF e
<1>5. Appended = {d} /\ commits' = commits \cup {d}
  BY <1>4 DEF Appends, Appended
<1> QED BY <1>1, <1>2, <1>4, <1>5

LEMMA AppendInv ==
    ASSUME WInv, NEW c \in Callers, AppendCall(c)
    PROVE  WInv' /\ Moves
<1> DEFINE k == call[c].key
           r == call[c].request
           s == call[c].session
           e == EntryOf(r, loaded[c])
<1>1. /\ pc[c] = "append" /\ TypeOK /\ CallOK(c)
      /\ UNCHANGED <<call, minted, calls>>
  BY DEF AppendCall, WInv
<1>2. /\ k \in Keys /\ actionOf[k] \in Nat /\ call[c].attempt \in Nat
      /\ ~(call[c].retry /\ r.op \in LookupFirst)
  BY <1>1, InCall DEF CallOK, Retried
<1>3. ASSUME Classify(k, r) = "none",
             CommitEntry(k, r, s, ExpectedRevision(r), e),
             actionOf' = [actionOf EXCEPT ![k] = call[c].attempt],
             \E d \in Appended : Return(c, Result(d, call[c].attempt))
      PROVE  WInv' /\ Moves
  <2>1. PICK d \in Commits : /\ Appends(d, s, e) /\ d.key = k /\ d.request = r
                             /\ Appended = {d} /\ commits' = commits \cup {d}
    BY <1>1, <1>3, AppendStep
  <2>2. s \in Sessions /\ e \in Entries
    BY <1>1, <1>3, AppendStep
  <2>3. Moves
    <3> HIDE DEF e
    <3> QED BY <1>1, <1>2, <1>3, <2>1, <2>2 DEF Moves, TypeOK
  <2>4. Return(c, Result(d, call[c].attempt))
    BY <1>3, <2>1
  <2>5. Result(d, call[c].attempt) \in Answers /\ Result(d, call[c].attempt).status = "ok"
    BY <1>2, <2>1 DEF Result, Answers, Commits
  <2>6. TypeOK'
    BY <1>1, <1>2, <1>3, <2>4, <2>5 DEF Return, TypeOK, Absent, Projections
  <2>7. /\ pc'[c] = "idle" /\ answer'[c] = Result(d, call[c].attempt) /\ call' = call
        /\ \A o \in Callers \ {c} : /\ pc'[o] = pc[o] /\ call'[o] = call[o]
                                    /\ loaded'[o] = loaded[o] /\ answer'[o] = answer[o]
    BY <1>1, <2>4 DEF Return, TypeOK
  <2>8. ~call[c].retry
    BY <1>1, <1>3 DEF CallOK, Retried
  <2>9. Committed(c)'
    BY <2>1, <2>7 DEF Committed, Result
  <2>10. CallOK(c)'
    BY <2>7, <2>8, <2>9 DEF CallOK, Asked, Current, Retried
  <2> QED BY <2>3, <2>6, <2>7, <2>10, StepInv
<1>4. ASSUME Return(c, Error("not_appended")), UNCHANGED <<ledgerVars, actionOf>>
      PROVE  WInv' /\ Moves
  <2>1. Error("not_appended") \in Answers /\ Error("not_appended").status # "ok"
    BY DEF Answers, Error
  <2> QED BY <1>1, <1>2, <1>4, <2>1, ReturnInv
<1>5. ASSUME Classify(k, r) = "replay", UNCHANGED <<ledgerVars, actionOf>>,
             Return(c, AppendReplay(k, r, call[c].attempt))
      PROVE  WInv' /\ Moves
  <2> DEFINE value == AppendReplay(k, r, call[c].attempt)
  <2>1. PICK action \in Nat : value = Result(CommitOf(k), action)
    BY <1>2 DEF AppendReplay, StoredResult
  <2>2. /\ value \in Answers /\ value.action = action
        /\ CommitOf(k) \in commits /\ CommitOf(k).key = k /\ CommitOf(k).request = r
    BY <1>2, <1>5, <2>1, StoredAnswer
  <2> HIDE DEF value
  <2>3. Return(c, value)
    BY <1>5 DEF value
  <2> QED BY <1>1, <1>2, <1>5, <2>1, <2>2, <2>3, ReturnInv
<1>6. ASSUME Return(c, Error("idempotency_conflict")), UNCHANGED <<ledgerVars, actionOf>>
      PROVE  WInv' /\ Moves
  <2>1. Error("idempotency_conflict") \in Answers /\ Error("idempotency_conflict").status # "ok"
    BY DEF Answers, Error
  <2> QED BY <1>1, <1>2, <1>6, <2>1, ReturnInv
<1> HIDE DEF e
<1> QED BY <1>3, <1>4, <1>5, <1>6 DEF AppendCall, e

LEMMA PatchAppendInv ==
    ASSUME WInv, NEW k \in PatchKeys, NEW s \in Sessions, NEW e \in Entries, PatchAppend(k, s, e)
    PROVE  WInv' /\ Moves
<1>1. CommitEntry(k, [ op |-> "patch.apply" ], s, Expectable(s), e) /\ UNCHANGED workflowVars
  BY DEF PatchAppend
<1>2. PICK d \in Commits : Appends(d, s, e)
  BY <1>1, CommitAppends, PatchAppendsAreRequests DEF WInv
<1>3. Moves
  BY <1>1, <1>2 DEF Moves, workflowVars
<1>4. TypeOK'
  BY <1>1 DEF WInv, TypeOK, workflowVars
<1>5. ASSUME NEW c \in Callers PROVE CallOK(c)'
  BY <1>1, <1>3, OthersKeep DEF workflowVars
<1>6. IInv'
  BY <1>3, MovesInv DEF WInv
<1> QED BY <1>3, <1>4, <1>5, <1>6 DEF WInv

LEMMA NextInv ==
    ASSUME WInv, [Next]_vars
    PROVE  WInv' /\ Moves
<1>1. CASE UNCHANGED vars
  <2>1. Moves /\ UNCHANGED workflowVars
    BY <1>1 DEF Moves, vars, workflowVars
  <2>2. TypeOK' /\ IInv'
    BY <1>1, <2>1, MovesInv DEF WInv, TypeOK, vars, workflowVars
  <2>3. ASSUME NEW c \in Callers PROVE CallOK(c)'
    BY <2>1, OthersKeep DEF workflowVars
  <2> QED BY <2>1, <2>2, <2>3 DEF WInv
<1>2. CASE \E c \in Callers :
              \/ \E submission \in Submissions : Submit(c, submission)
              \/ Lookup(c) \/ Load(c) \/ AppendCall(c) \/ Crash(c)
  BY <1>2, SubmitInv, LookupInv, LoadInv, AppendInv, CrashInv
<1>3. CASE \E s \in Sessions : \E e \in {x \in Entries : Reducible(head[s], x)} :
              \E k \in PatchKeys : PatchAppend(k, s, e)
  BY <1>3, PatchAppendInv
<1> QED BY <1>1, <1>2, <1>3 DEF Next

-----------------------------------------------------------------------------
(* The theorems.                                                           *)

\* Every reachable state satisfies the inductive invariant, that of the ledger
\* included: what SessionLedger_proofs says of commits, heads and revisions holds
\* under the calls of Kiln.Workflow and the appends of the patch handler.
THEOREM WorkflowInvariant == Spec => []WInv
<1>1. WInv /\ [Next]_vars => WInv'
  BY NextInv
<1> QED BY InitInv, <1>1, PTL DEF Spec

\* The variables keep their types.
THEOREM WorkflowTypeCorrect == Spec => []TypeOK
<1>1. WInv => TypeOK
  BY DEF WInv
<1> QED BY <1>1, WorkflowInvariant, PTL

\* An ok answer is a commit of the caller's own request under its own key, with
\* the revision and projection of that commit, whoever made it.
THEOREM WorkflowAnswers == Spec => []AnswersAreCommitted
<1>1. ASSUME WInv PROVE AnswersAreCommitted
  <2> SUFFICES ASSUME NEW c \in Callers, answer[c].status = "ok"
               PROVE  \E d \in commits :
                         /\ d.key = call[c].key /\ d.request = call[c].request
                         /\ [answer[c] EXCEPT !.action = 0] = Result(d, 0)
    BY DEF AnswersAreCommitted
  <2>1. PICK d \in commits : /\ d.key = call[c].key /\ d.request = call[c].request
                             /\ answer[c] = Result(d, answer[c].action)
    BY <1>1 DEF WInv, CallOK, Committed
  <2>2. [answer[c] EXCEPT !.action = 0] = Result(d, 0)
    BY <2>1 DEF Result
  <2> QED BY <2>1, <2>2
<1> QED BY <1>1, WorkflowInvariant, PTL

\* A start, resume or cancel retried after it committed returns what it returned
\* then, the action identifier included, however far the Session has moved.
THEOREM WorkflowRetries == Spec => []TransitionRetriesReturnOriginal
<1>1. WInv => TransitionRetriesReturnOriginal
  BY DEF WInv, CallOK, Retried, TransitionRetriesReturnOriginal, StoredResult
<1> QED BY <1>1, WorkflowInvariant, PTL

\* What a query advertises can be done: no advertised operation is refused by the
\* matrix, by the transition table or by the validation of its reduction.
THEOREM WorkflowAdvertised == Spec => []AdvertisedIsExecutable
<1>1. ASSUME IInv, NEW s \in Sessions, NEW op \in Advertised(head[s])
      PROVE  /\ Authorized(op, head[s])
             /\ Reducible(head[s], EntryOf([ op |-> op ], head[s]))
  <2> DEFINE p == head[s]
             e == EntryOf([ op |-> op ], p)
  <2>1. /\ p.opState \notin OpenOps /\ op \in CapabilityMatrix(p.run)
        /\ p.run \in {"ready", "running"} /\ op \in Transitions
        /\ op = "resume_session" => p.run = "ready"
    BY <1>1 DEF Advertised, CapabilityMatrix, Transitions
  <2>2. p \in Projections /\ Consistent(p)
    BY <1>1, <2>1, HeadKnown DEF Absent
  <2>3. Authorized(op, p)
    BY <2>1 DEF Authorized, TargetState, RunTransitions, Transitions, CapabilityMatrix
  <2>4. e = [ type |-> "run_transitioned", from |-> p.run, to |-> TargetState(op) ]
    BY <2>1 DEF EntryOf, Transitions
  <2>5. /\ p.decision = None /\ p.opState # "unknown" /\ p # Absent
        /\ p.task = "in_progress" /\ p.session = "active"
    BY <2>1, <2>2 DEF Consistent, Valid, DecisionCoherent, OperationCoherent,
                      StatesCoordinated, Absent
  <2> HIDE DEF e
  <2>6. Accepts(p, e)
    BY <2>1, <2>3, <2>4, <2>5
       DEF Accepts, Authorized, MayTransition, TerminalPermitted, Unresolved, TargetState
  <2>7. Apply(p, e) = Coordinated(p, TargetState(op))
    BY <2>4 DEF Apply
  <2>8. Valid(Coordinated(p, TargetState(op)))
    BY <2>1, <2>2, <2>5 DEF Coordinated, TargetState, Valid, DecisionCoherent,
           OperationCoherent, StatesCoordinated, Projections, Transitions, OpenOps
  <2> QED BY <2>3, <2>6, <2>7, <2>8 DEF Reducible, e
<1>2. WInv => AdvertisedIsExecutable
  BY <1>1 DEF WInv, AdvertisedIsExecutable
<1> QED BY <1>2, WorkflowInvariant, PTL

\* An answer is appended in the context the question was asked in, although the
\* context is compared in an earlier transaction: the expected revision is the
\* only thing that is checked again, and it stands for the whole projection.
THEOREM WorkflowAnswerContext == Spec => AnswerBindsContext
<1> DEFINE Bound == \A d \in Appended : d.request.op = "record_user_decision" =>
                        d.request.context = head[d.session].envelope
<1>1. ASSUME WInv, [Next]_vars PROVE Bound \/ UNCHANGED vars
  <2> SUFFICES ASSUME NEW d \in Appended, d.request.op = "record_user_decision"
               PROVE  d.request.context = head[d.session].envelope
    OBVIOUS
  <2>1. commits' # commits
    BY DEF Appended
  <2>2. CASE \E c \in Callers : AppendCall(c)
    <3>1. PICK c \in Callers : AppendCall(c)
      BY <2>2
    <3> DEFINE r == call[c].request
               s == call[c].session
               e == EntryOf(r, loaded[c])
    <3>2. /\ pc[c] = "append" /\ Classify(call[c].key, r) = "none"
          /\ CommitEntry(call[c].key, r, s, ExpectedRevision(r), e)
      BY <2>1, <3>1 DEF AppendCall, ledgerVars
    <3>3. s \in Sessions /\ \E x \in Commits : /\ Appends(x, s, e) /\ x.request = r
                                               /\ Appended = {x}
      BY <1>1, <3>2, AppendStep
    <3>4. d.request = r /\ d.session = s
      BY <3>3 DEF Appends
    <3>5. ScopedCall(c) /\ r.expected = Expectable(s)
      BY <3>2, <3>4 DEF ScopedCall, CommitEntry, ExpectedRevision
    <3>6. /\ Checks(r, loaded[c]) /\ revision[s] \in Nat
          /\ r.expected = revision[s] => head[s] = loaded[c]
      BY <1>1, <3>2, <3>5 DEF WInv, CallOK, Current
    <3>7. head[s] = loaded[c]
      BY <3>5, <3>6 DEF Expectable, NoRevision
    <3> QED BY <3>4, <3>6, <3>7 DEF Checks, Transitions
  <2>3. CASE \E s \in Sessions : \E e \in {x \in Entries : Reducible(head[s], x)} :
                \E k \in PatchKeys : PatchAppend(k, s, e)
    <3>1. PICK s \in Sessions, e \in Entries, k \in PatchKeys : PatchAppend(k, s, e)
      BY <2>3
    <3>2. d.request = [ op |-> "patch.apply" ]
      BY <3>1 DEF PatchAppend, CommitEntry, Appended
    <3> QED BY <3>2
  <2>4. CASE commits' = commits
    BY <2>1, <2>4
  <2> QED BY <1>1, <2>2, <2>3, <2>4
          DEF Next, Submit, Lookup, Load, Crash, vars, ledgerVars
<1> QED BY <1>1, WorkflowInvariant, PTL DEF Spec, AnswerBindsContext

\* Whoever calls, and whoever crashes, a Session is left waiting by an answer only, an
\* open operation shuts out other work, and a settled Run stays so: what the ledger promises
\* of its own steps holds of the calls of Kiln.Workflow and the patch handler's appends.
THEOREM WorkflowKeepsPromises ==
    Spec => WaitingLeftOnlyByAnswer /\ OpenOperationExclusive /\ SettledStays
<1>1. ASSUME WInv, [Next]_vars, NEW t \in Sessions
      PROVE  UNCHANGED ledgerVars \/ (LeftByAnswer(t) /\ Exclusive(t) /\ Stays(t))
  <2>1. IInv /\ Moves
    BY <1>1, NextInv DEF WInv
  <2> QED BY <2>1, AppendPromises DEF Moves
<1>2. WInv /\ [Next]_vars => /\ [\A s \in Sessions : LeftByAnswer(s)]_ledgerVars
                            /\ [\A s \in Sessions : Exclusive(s)]_ledgerVars
                            /\ [\A s \in Sessions : Stays(s)]_ledgerVars
  BY <1>1
<1> QED BY <1>2, WorkflowInvariant, PTL
        DEF Spec, WaitingLeftOnlyByAnswer, OpenOperationExclusive, SettledStays

\* The boundary implements the ledger, whose callers may expect any revision: each
\* step of a call is one commit the ledger admits, or leaves it as it is.
THEOREM WorkflowRefinesLedger ==
    ASSUME Revisions = Nat
    PROVE  Spec => LedgerSpec
<1>1. Init => LedgerInit
  BY DEF Init
<1>2. ASSUME WInv, NEW c \in Callers, AppendCall(c) PROVE [LedgerNext]_ledgerVars
  <2> DEFINE k == call[c].key
             r == call[c].request
             s == call[c].session
             e == EntryOf(r, loaded[c])
  <2>1. CASE CommitEntry(k, r, s, ExpectedRevision(r), e) /\ Classify(k, r) = "none"
    <3>1. s \in Sessions /\ e \in Entries /\ pc[c] = "append"
      BY <1>2, <2>1, AppendStep DEF AppendCall
    <3>2. k \in Keys /\ r \in Requests
      BY <1>2, <3>1 DEF WInv, CallOK, Asked, CallRequests
    <3> HIDE DEF e
    <3> QED BY <1>2, <2>1, <3>1, <3>2, CommitIsStep DEF WInv
  <2>2. CASE UNCHANGED ledgerVars
    BY <2>2
  <2> HIDE DEF e
  <2> QED BY <1>2, <2>1, <2>2 DEF AppendCall, e
<1>3. ASSUME WInv, NEW k \in PatchKeys, NEW s \in Sessions, NEW e \in Entries, PatchAppend(k, s, e)
      PROVE  LedgerNext
  BY <1>3, PatchAppendsAreRequests, CommitIsStep DEF PatchAppend, WInv
<1>4. ASSUME NEW c \in Callers,
             (\E submission \in Submissions : Submit(c, submission)) \/ Lookup(c) \/ Load(c) \/ Crash(c)
      PROVE  UNCHANGED ledgerVars
  BY <1>4 DEF Submit, Lookup, Load, Crash
<1>5. WInv /\ [Next]_vars => [LedgerNext]_ledgerVars
  <2>1. UNCHANGED vars => UNCHANGED ledgerVars
    BY DEF vars
  <2> QED BY <1>2, <1>3, <1>4, <2>1 DEF Next
<1> QED BY <1>1, <1>5, WorkflowInvariant, PTL DEF Spec, LedgerSpec
=============================================================================
