----------------------------- MODULE MCWorkflow -----------------------------
(* Workflow on a small instance: two callers and the submissions below, each *)
(* retried or raced in every order.                                          *)
EXTENDS Workflow, TLC

CONSTANTS ses1, dec1, accept, ctx1, ctx2, kStart, kResume, kAsk, kAnswer, kCancel

Start == [ op |-> "start_session" ]
Resume(n) == [ op |-> "resume_session", session |-> ses1, expected |-> n ]
Cancel(n) == [ op |-> "cancel_session", session |-> ses1, expected |-> n ]
Ask(n, context) == [ op |-> "record_pending_decision", session |-> ses1, expected |-> n,
                     decision |-> dec1, permitted |-> {accept}, context |-> context ]
Answer(n, context) == [ op |-> "record_user_decision", session |-> ses1, expected |-> n,
                        decision |-> dec1, response |-> accept, context |-> context ]

\* Two starts race; kResume is a start's key too, and kAsk that of a question asked
\* in two contexts, of which the answer matches one.
MCSubmissions ==
    { [ key |-> kStart,  request |-> Start ],
      [ key |-> kResume, request |-> Start ],
      [ key |-> kResume, request |-> Resume(0) ],
      [ key |-> kAsk,    request |-> Ask(1, ctx1) ],
      [ key |-> kAsk,    request |-> Ask(1, ctx2) ],
      [ key |-> kAnswer, request |-> Answer(2, ctx1) ],
      [ key |-> kCancel, request |-> Cancel(1) ] }

MCRequests == { s.request : s \in MCSubmissions } \cup { [ op |-> "patch.apply" ] }

Symmetry == Permutations(Callers) \cup Permutations(PatchKeys)
=============================================================================
