--------------------------- MODULE SessionReducer ---------------------------
(***************************************************************************)
(* The pure reducer of the Kiln journal: which entry a Session projection  *)
(* accepts, and the projection it produces.  Journal append and journal    *)
(* replay share it (Kiln.Journal.Reducer), as does the projection          *)
(* validation that runs after every reduction (Kiln.Projections.Session).  *)
(*                                                                         *)
(* A projection is flattened to the fields the rules read: the states of   *)
(* the Root Run, its Task and its Session, the one external operation, the *)
(* pending decision with the answers it permits, the decision envelope     *)
(* (the context the decision was asked in) and the criteria revision.      *)
(* Objective, constraints, workflow step and references carry no rule and  *)
(* are left out.                                                           *)
(***************************************************************************)
EXTENDS Integers

CONSTANTS
    OpIds,          \* identifiers of external operations
    DecisionIds,    \* identifiers of decisions
    Responses,      \* the answers a decision may permit
    Contexts,       \* plan, patch, result-state and review references of a decision
    CriteriaRevisions,  \* the revisions a criteria revision may carry
    None            \* the value of an absent field

ASSUME NoneIsNoValue == None \notin OpIds \cup DecisionIds \cup Contexts

ASSUME CriteriaRevisionsAreNaturals == CriteriaRevisions \subseteq Nat

-----------------------------------------------------------------------------
(* The states and the accepted Run transitions.                            *)

TerminalRuns == {"completed", "failed", "canceled"}

RunStates == {"ready", "running", "waiting_for_user", "orphaned"} \cup TerminalRuns

RunTransitions ==
    { <<"ready", "running">>,   <<"running", "ready">>,
      <<"running", "waiting_for_user">>, <<"waiting_for_user", "ready">>,
      <<"ready", "completed">>, <<"ready", "failed">>,   <<"running", "failed">>,
      <<"ready", "canceled">>,  <<"running", "canceled">>,
      <<"waiting_for_user", "canceled">>,
      <<"running", "orphaned">>, <<"ready", "orphaned">>,
      <<"orphaned", "ready">>,  <<"orphaned", "failed">>, <<"orphaned", "canceled">> }

OpenOps == {"intent_recorded", "started"}
ClosedOps == {"succeeded", "failed", "canceled"}
OpStates == OpenOps \cup ClosedOps \cup {"unknown"}

\* The next states of an operation; a closed or unknown one has none.
OpProgression(state) ==
    CASE state = "intent_recorded" -> OpStates \ {"intent_recorded"}
      [] state = "started"         -> OpStates \ OpenOps
      [] OTHER                     -> {}

-----------------------------------------------------------------------------
(* Projections and entries.                                                *)

Projections ==
    [ run       : RunStates \cup {"absent"},
      task      : {"in_progress", "satisfied", "abandoned", "absent"},
      session   : {"active", "completed", "abandoned", "absent"},
      opId      : OpIds \cup {None},
      opState   : OpStates \cup {"none"},
      decision  : DecisionIds \cup {None},
      permitted : SUBSET Responses,
      envelope  : Contexts \cup {None},
      criteria  : Nat ]

\* The reducer's nil: no entry has been accepted for the Session.
Absent == [ run |-> "absent", task |-> "absent", session |-> "absent",
            opId |-> None, opState |-> "none", decision |-> None,
            permitted |-> {}, envelope |-> None, criteria |-> 0 ]

Entries ==
         [ type : {"session_started"} ]
    \cup [ type : {"criteria_revised"}, criteria : CriteriaRevisions ]
    \cup [ type : {"run_transitioned"}, from : RunStates, to : RunStates ]
    \cup [ type : {"pending_decision_recorded"}, decision : DecisionIds,
           permitted : (SUBSET Responses) \ {{}}, context : Contexts ]
    \cup [ type : {"user_decision_recorded"}, decision : DecisionIds, response : Responses ]
    \cup [ type : {"operation_intent_recorded"}, op : OpIds ]
    \cup [ type : {"operation_observed"}, op : OpIds, state : OpStates, to : RunStates ]

-----------------------------------------------------------------------------
(* The guards of each entry type.                                          *)

MayTransition(p, to) == <<p.run, to>> \in RunTransitions

Unresolved(p) == p.opState \in OpenOps \cup {"unknown"}

\* Completion refuses a pending decision; every terminal state refuses an
\* operation whose effect is not settled.
TerminalPermitted(p, to) ==
    /\ to = "completed" => p.decision = None
    /\ to \in TerminalRuns => ~Unresolved(p)

\* `started` keeps the Run running, `unknown` orphans it, and a terminal
\* observation moves it like a transition: the operation it is judged against
\* is the one before the observation.
MayObserve(p, state, to) ==
    CASE state = "started" -> to = "running" /\ p.run = "running"
      [] state = "unknown" -> to = "orphaned" /\ MayTransition(p, "orphaned")
      [] OTHER             -> MayTransition(p, to) /\ TerminalPermitted(p, to)

NoOpenOperation(p) == p.opState \notin OpenOps

AnswersPending(p, e) == p.decision = e.decision /\ e.response \in p.permitted

ObservesCurrent(p, e) == p.opId = e.op /\ e.state \in OpProgression(p.opState)

Accepts(p, e) ==
    CASE e.type = "session_started"  -> p = Absent
      [] e.type = "criteria_revised" -> p # Absent /\ e.criteria > p.criteria
      [] e.type = "run_transitioned" ->
            /\ p # Absent
            /\ e.from = p.run
            /\ MayTransition(p, e.to)
            /\ TerminalPermitted(p, e.to)
      [] e.type = "pending_decision_recorded" ->
            /\ p # Absent
            /\ NoOpenOperation(p)
            /\ MayTransition(p, "waiting_for_user")
      [] e.type = "user_decision_recorded" ->
            /\ p # Absent
            /\ AnswersPending(p, e)
            /\ MayTransition(p, "ready")
      [] e.type = "operation_intent_recorded" ->
            /\ p # Absent
            /\ NoOpenOperation(p)
            /\ MayTransition(p, "running")
      [] e.type = "operation_observed" ->
            /\ p # Absent
            /\ ObservesCurrent(p, e)
            /\ MayObserve(p, e.state, e.to)

-----------------------------------------------------------------------------
(* The projection each entry produces.                                     *)

\* Put the Run in a state; a terminal one takes its Task and Session along.
Coordinated(p, to) ==
    CASE to = "completed" ->
            [p EXCEPT !.run = to, !.task = "satisfied", !.session = "completed"]
      [] to \in {"failed", "canceled"} ->
            [p EXCEPT !.run = to, !.task = "abandoned", !.session = "abandoned"]
      [] OTHER -> [p EXCEPT !.run = to]

\* Mutant: the envelope of the question outlives its answer.
AnsweredKeepsEnvelope(p) ==
    [p EXCEPT !.run = "ready", !.decision = None, !.permitted = {}]

\* The question, its answers and its envelope are cleared together.
Answered(p) ==
    [p EXCEPT !.run = "ready", !.decision = None, !.permitted = {}, !.envelope = None]

Apply(p, e) ==
    CASE e.type = "session_started" ->
            [Absent EXCEPT !.run = "ready", !.task = "in_progress", !.session = "active"]
      [] e.type = "criteria_revised" -> [p EXCEPT !.criteria = e.criteria]
      [] e.type = "run_transitioned" -> Coordinated(p, e.to)
      [] e.type = "pending_decision_recorded" ->
            [p EXCEPT !.run = "waiting_for_user", !.decision = e.decision,
                      !.permitted = e.permitted, !.envelope = e.context]
      [] e.type = "user_decision_recorded" -> Answered(p)
      [] e.type = "operation_intent_recorded" ->
            [p EXCEPT !.run = "running", !.opId = e.op, !.opState = "intent_recorded"]
      [] e.type = "operation_observed" ->
            [Coordinated(p, e.to) EXCEPT !.opState = e.state]

-----------------------------------------------------------------------------
(* The invariants checked on every reduced projection.                     *)

\* Mutant: a decision may stay behind when the Run leaves `waiting_for_user`.
WaitingHasDecision(p) == p.run = "waiting_for_user" => p.decision # None

DecisionCoherent(p) == p.run = "waiting_for_user" <=> p.decision # None

\* Mutants: one of the two rules on the operation is not enforced.
UnknownIsOrphaned(p) == p.opState = "unknown" => p.run = "orphaned"

OpenIsRunning(p) == p.opState \in OpenOps => p.run = "running"

OperationCoherent(p) ==
    /\ p.opState = "unknown" => p.run = "orphaned"
    /\ p.opState \in OpenOps => p.run = "running"

StatesCoordinated(p) ==
    <<p.task, p.session>> =
        CASE p.run = "completed"             -> <<"satisfied", "completed">>
          [] p.run \in {"failed", "canceled"} -> <<"abandoned", "abandoned">>
          [] OTHER                            -> <<"in_progress", "active">>

Valid(p) == DecisionCoherent(p) /\ OperationCoherent(p) /\ StatesCoordinated(p)

\* One reduction: the entry is accepted and the projection it gives is valid.
Reducible(p, e) == Accepts(p, e) /\ Valid(Apply(p, e))
=============================================================================
