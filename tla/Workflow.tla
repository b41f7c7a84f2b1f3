------------------------------ MODULE Workflow ------------------------------
(***************************************************************************)
(* The application boundary of Kiln (Kiln.Workflow): callers that start,   *)
(* resume and cancel a Session and record or answer a decision, retry with *)
(* the same idempotency key, die at any point and lose replies, while the  *)
(* patch handler appends operation entries to the same Session.            *)
(*                                                                         *)
(* A call is a sequence of transactions with other callers in between: a   *)
(* lookup of its key (start, resume and cancel only), a load of the        *)
(* Session that its checks run on, and the append, which looks the key up  *)
(* again.  Each transaction is one step on the ledger of SessionLedger.    *)
(*                                                                         *)
(* A request is what its digest covers: the operation and its parameters,  *)
(* without the key and without the identifiers minted for an attempt.      *)
(***************************************************************************)
EXTENDS SessionLedger

CONSTANTS
    Callers,
    Submissions,    \* the (key, request) pairs callers submit, and retry
    PatchKeys,      \* keys of the patch handler's own appends
    MaxCalls        \* how many calls a behaviour has, retries included

ASSUME MaxCallsIsNatural == MaxCalls \in Nat

VARIABLES
    pc,             \* where each caller is in its call
    call,           \* the call in progress, or the last one
    loaded,         \* the projection the call's checks ran on
    answer,         \* what the last call returned
    minted,         \* Session identifiers generated so far
    calls,          \* how many calls have been made: the nth mints action n
    actionOf        \* the action identifier stored with each key

workflowVars == <<pc, call, loaded, answer, minted, calls, actionOf>>
vars == <<ledgerVars, workflowVars>>

Transitions == {"cancel_session", "resume_session"}
LookupFirst == Transitions \cup {"start_session"}

\* What the normalization of a call's options lets through.
Scoped(op) == [ op : op, session : Sessions, expected : Revisions ]

Asking == [ op : {"record_pending_decision"}, session : Sessions, expected : Revisions,
            decision : DecisionIds, permitted : (SUBSET Responses) \ {{}}, context : Contexts ]

Answering == [ op : {"record_user_decision"}, session : Sessions, expected : Revisions,
               decision : DecisionIds, response : Responses, context : Contexts ]

CallRequests ==
    ([ op : {"start_session"} ] \cup Scoped(Transitions) \cup Asking \cup Answering)
        \cap Requests

ASSUME SubmissionsAreNormalized ==
    Submissions \subseteq [ key : Keys, request : CallRequests ]

ASSUME PatchAppendsAreRequests == PatchKeys \subseteq Keys /\ [ op |-> "patch.apply" ] \in Requests

NoCall == [ key |-> None, request |-> None, session |-> None, attempt |-> 0, retry |-> FALSE ]
NoAnswer == [ status |-> "none" ]

Error(code) == [ status |-> "error", code |-> code ]

\* Raised by the `with` of a session-scoped call on a Session that does not exist:
\* load_projection returns {:ok, :empty}, which no clause takes.
Raised == [ status |-> "raised" ]

-----------------------------------------------------------------------------
(* The capability matrix, the checks on a loaded projection, the entries.  *)

\* Mutant: a waiting Session may be canceled, as the transition table has it.
CancelWhileWaiting(run) ==
    CASE run = "ready"   -> {"cancel_session", "resume_session"}
      [] run \in {"running", "waiting_for_user"} -> {"cancel_session"}
      [] OTHER           -> {}

CapabilityMatrix(run) ==
    CASE run = "ready"   -> {"cancel_session", "resume_session"}
      [] run = "running" -> {"cancel_session"}
      [] OTHER           -> {}

\* What a query advertises: nothing while an operation is open.
Advertised(p) == IF p.opState \in OpenOps THEN {} ELSE CapabilityMatrix(p.run)

TargetState(op) == IF op = "cancel_session" THEN "canceled" ELSE "running"

\* The check before a resume or cancel consults the matrix by Run state alone.
Authorized(op, p) ==
    op \in CapabilityMatrix(p.run) /\ <<p.run, TargetState(op)>> \in RunTransitions

\* Mutant: an answer is matched to the question by its identifier alone.
ChecksIdentifier(r, p) ==
    CASE r.op \in Transitions -> Authorized(r.op, p)
      [] r.op = "record_user_decision" -> p.decision = r.decision
      [] OTHER -> TRUE

\* The checks each operation makes on the projection it loaded.
Checks(r, p) ==
    CASE r.op \in Transitions -> Authorized(r.op, p)
      [] r.op = "record_user_decision" ->
            p.decision = r.decision /\ p.envelope = r.context
      [] OTHER -> TRUE

EntryOf(r, p) ==
    CASE r.op = "start_session" -> [ type |-> "session_started" ]
      [] r.op \in Transitions ->
            [ type |-> "run_transitioned", from |-> p.run, to |-> TargetState(r.op) ]
      [] r.op = "record_pending_decision" ->
            [ type |-> "pending_decision_recorded", decision |-> r.decision,
              permitted |-> r.permitted, context |-> r.context ]
      [] r.op = "record_user_decision" ->
            [ type |-> "user_decision_recorded", decision |-> r.decision,
              response |-> r.response ]

ExpectedRevision(r) == IF r.op = "start_session" THEN 0 ELSE r.expected

-----------------------------------------------------------------------------
(* Classification of a key.                                                *)

CommitOf(k) == CHOOSE d \in commits : d.key = k

\* Mutant: the request digest is not compared.
ClassifyByKey(k, r) == IF KeyUnused(k) THEN "none" ELSE "replay"

Classify(k, r) ==
    IF KeyUnused(k) THEN "none"
    ELSE IF CommitOf(k).request = r THEN "replay" ELSE "conflict"

\* The application result of a commit.
Result(d, action) ==
    [ status |-> "ok", action |-> action, session |-> d.session,
      revision |-> d.revision, after |-> d.after ]

\* Mutant: a replay is answered from the head of the Session.
HeadResult(k) ==
    [Result(CommitOf(k), actionOf[k]) EXCEPT !.after = head[CommitOf(k).session]]

StoredResult(k) == Result(CommitOf(k), actionOf[k])

\* A replay found by the append itself: start, resume and cancel return the stored
\* action identifier, the decision operations that of the retry.
AppendReplay(k, r, attempt) ==
    IF r.op \in LookupFirst THEN StoredResult(k) ELSE Result(CommitOf(k), attempt)

-----------------------------------------------------------------------------

Init ==
    /\ LedgerInit
    /\ pc = [c \in Callers |-> "idle"]
    /\ call = [c \in Callers |-> NoCall]
    /\ loaded = [c \in Callers |-> Absent]
    /\ answer = [c \in Callers |-> NoAnswer]
    /\ calls = 0
    /\ minted = {}
    /\ actionOf = [k \in Keys |-> 0]

\* A caller submits a revision it has observed: one the Session has reached.
Observed(r) == r.op # "start_session" => r.expected <= Expectable(r.session)

Submit(c, submission) ==
    LET k == submission.key
        r == submission.request
    IN
    /\ pc[c] = "idle" /\ calls < MaxCalls
    /\ Observed(r)
    /\ calls' = calls + 1
    /\ call' = [call EXCEPT ![c] =
            [ key |-> k, request |-> r, attempt |-> calls + 1,
              session |-> IF r.op = "start_session" THEN None ELSE r.session,
              retry |-> Classify(k, r) = "replay" ]]
    /\ pc' = [pc EXCEPT ![c] = IF r.op \in LookupFirst THEN "lookup" ELSE "load"]
    /\ answer' = [answer EXCEPT ![c] = NoAnswer]
    /\ UNCHANGED <<ledgerVars, loaded, minted, actionOf>>

Return(c, value) ==
    /\ pc' = [pc EXCEPT ![c] = "idle"]
    /\ answer' = [answer EXCEPT ![c] = value]
    /\ loaded' = [loaded EXCEPT ![c] = Absent]

\* The lookup by key alone; a new start mints its identifiers after it.
Lookup(c) ==
    LET k == call[c].key
        r == call[c].request
        verdict == Classify(k, r)
    IN
    /\ pc[c] = "lookup"
    /\ \/ /\ verdict = "none" /\ r.op = "start_session"
          /\ \E s \in Sessions \ minted :
                /\ call' = [call EXCEPT ![c].session = s]
                /\ minted' = minted \cup {s}
          /\ pc' = [pc EXCEPT ![c] = "append"]
          /\ UNCHANGED <<loaded, answer>>
       \/ /\ verdict = "none" /\ r.op \in Transitions
          /\ pc' = [pc EXCEPT ![c] = "load"]
          /\ UNCHANGED <<call, loaded, minted, answer>>
       \/ /\ verdict = "replay"
          /\ Return(c, StoredResult(k))
          /\ UNCHANGED <<call, minted>>
       \/ /\ verdict = "conflict"
          /\ Return(c, Error("idempotency_conflict"))
          /\ UNCHANGED <<call, minted>>
    /\ UNCHANGED <<ledgerVars, calls, actionOf>>

\* The load of the Session, with the checks that run on what it returned.
Load(c) ==
    LET p == head[call[c].session] IN
    /\ pc[c] = "load"
    /\ \/ /\ p = Absent
          /\ Return(c, Raised)
       \/ /\ p # Absent /\ ~Checks(call[c].request, p)
          /\ Return(c, Error("not_permitted"))
       \/ /\ p # Absent /\ Checks(call[c].request, p)
          /\ loaded' = [loaded EXCEPT ![c] = p]
          /\ pc' = [pc EXCEPT ![c] = "append"]
          /\ UNCHANGED answer
    /\ UNCHANGED <<ledgerVars, call, minted, calls, actionOf>>

\* The append transaction: it classifies the key again and, for a new action,
\* checks the precondition, the expected revision and the reduction.
AppendCall(c) ==
    LET k == call[c].key
        r == call[c].request
        s == call[c].session
        e == EntryOf(r, loaded[c])
        verdict == Classify(k, r)
    IN
    /\ pc[c] = "append"
    /\ \/ /\ verdict = "none"
          /\ CommitEntry(k, r, s, ExpectedRevision(r), e)
          /\ actionOf' = [actionOf EXCEPT ![k] = call[c].attempt]
          /\ \E d \in Appended : Return(c, Result(d, call[c].attempt))
       \/ /\ verdict = "none"
          /\ \/ ~StartPrecondition(e)
             \/ ExpectedRevision(r) # Expectable(s)
             \/ ~Reducible(head[s], e)
          /\ Return(c, Error("not_appended"))
          /\ UNCHANGED <<ledgerVars, actionOf>>
       \/ /\ verdict = "replay"
          /\ Return(c, AppendReplay(k, r, call[c].attempt))
          /\ UNCHANGED <<ledgerVars, actionOf>>
       \/ /\ verdict = "conflict"
          /\ Return(c, Error("idempotency_conflict"))
          /\ UNCHANGED <<ledgerVars, actionOf>>
    /\ UNCHANGED <<call, minted, calls>>

\* The caller dies: before its next transaction, or after the append but before
\* anyone saw what it returned.
Crash(c) ==
    /\ pc[c] # "idle" \/ answer[c] # NoAnswer
    /\ Return(c, NoAnswer)
    /\ call' = [call EXCEPT ![c] = NoCall]
    /\ UNCHANGED <<ledgerVars, minted, calls, actionOf>>

\* The patch handler appends an operation entry, under a key and at the revision
\* of its own (PatchApply models the handler).
PatchAppend(k, s, e) ==
    /\ e.type \in {"operation_intent_recorded", "operation_observed"}
    /\ CommitEntry(k, [ op |-> "patch.apply" ], s, Expectable(s), e)
    /\ UNCHANGED workflowVars

Next ==
    \/ \E c \in Callers :
          \/ \E submission \in Submissions : Submit(c, submission)
          \/ Lookup(c) \/ Load(c) \/ AppendCall(c) \/ Crash(c)
    \/ \E s \in Sessions : \E e \in {x \in Entries : Reducible(head[s], x)} :
          \E k \in PatchKeys : PatchAppend(k, s, e)

Spec == Init /\ [][Next]_vars

-----------------------------------------------------------------------------

Answers ==
         [ status : {"none", "raised"} ]
    \cup [ status : {"error"},
           code : {"idempotency_conflict", "not_permitted", "not_appended"} ]
    \cup [ status : {"ok"}, action : Nat, session : Sessions, revision : Nat,
           after : Projections ]

TypeOK ==
    /\ pc \in [Callers -> {"idle", "lookup", "load", "append"}]
    /\ call \in [Callers -> [ key : Keys \cup {None}, request : CallRequests \cup {None},
                              session : Sessions \cup {None}, attempt : Nat,
                              retry : BOOLEAN ]]
    /\ loaded \in [Callers -> Projections]
    /\ answer \in [Callers -> Answers]
    /\ minted \subseteq Sessions
    /\ calls \in 0 .. MaxCalls
    /\ actionOf \in [Keys -> Nat]

\* A call that returned ok committed, or found committed, exactly its own request.
AnswersAreCommitted ==
    \A c \in Callers : answer[c].status = "ok" =>
        \E d \in commits :
            /\ d.key = call[c].key /\ d.request = call[c].request
            /\ [answer[c] EXCEPT !.action = 0] = Result(d, 0)

\* Start, resume and cancel, retried at any later point of the Session, by the
\* same or another caller, after a lost reply or a crash, return what they did.
TransitionRetriesReturnOriginal ==
    \A c \in Callers :
        call[c].retry /\ call[c].request.op \in LookupFirst /\ answer[c].status # "none" =>
            answer[c] = Result(CommitOf(call[c].key), actionOf[call[c].key])

\* Every operation advertised for a Session would be accepted from it.
AdvertisedIsExecutable ==
    \A s \in Sessions : \A op \in Advertised(head[s]) :
        /\ Authorized(op, head[s])
        /\ Reducible(head[s], EntryOf([ op |-> op ], head[s]))

\* The answer a decision gets was given in the context the question was asked in,
\* although the context is compared when the Session is loaded and not again when
\* the answer is appended.
AnswerBindsContext ==
    [][\A d \in Appended : d.request.op = "record_user_decision" =>
          d.request.context = head[d.session].envelope]_vars
=============================================================================
