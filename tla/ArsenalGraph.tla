----------------------------- MODULE ArsenalGraph -----------------------------
(***************************************************************************)
(* The Capability Gap Preflight: is a declared route executable with the   *)
(* capabilities of the tree, or with those the lock pins?  A function of   *)
(* the graph, a tree, the lock's rows and what the caller asked.           *)
(*                                                                         *)
(* A semantic version is its place in the order of versions; NotSemver is  *)
(* a text that is not one.                                                 *)
(***************************************************************************)
EXTENDS ArsenalCompile

CONSTANT Graph  \* [profiles: id -> set of grants, routes: id -> [default_profile, steps]]

NotSemver == 0
Unset == "unset"

\* enumerate(sorted(states)): a state's place is that of its name in the alphabet.
LifecycleOrder == [deprecated |-> 0, draft |-> 1, stable |-> 2, testing |-> 3]
EvaluationOrder == [candidate |-> 0, planned |-> 1, qualified |-> 2, unassessed |-> 3]

DangerousAuthority == {"secrets.read", "cloud.remote", "production.mutate", "network.write"}

-----------------------------------------------------------------------------
(* validate_graph_data                                                     *)

StepValid(t, steps, i) ==
    LET s == steps[i]
        before == { steps[j].capability_id : j \in 1 .. i - 1 }
    IN  /\ Declares(t, s.capability_id)
        /\ s.capability_id \notin before
        /\ i > 1 => s.after # {}
        /\ s.after \subseteq before
        /\ s.minimum_version # NotSemver
        /\ s.minimum_lifecycle \in DOMAIN LifecycleOrder
        /\ s.minimum_evaluation \in DOMAIN EvaluationOrder

GraphValid(t) ==
    /\ CapabilityIdsUnique(t)
    /\ DOMAIN Graph.profiles # {}
    /\ \A p \in DOMAIN Graph.profiles : Graph.profiles[p] \cap DangerousAuthority = {}
    /\ DOMAIN Graph.routes # {}
    /\ \A r \in DOMAIN Graph.routes :
          LET route == Graph.routes[r] IN
          /\ route.default_profile \in DOMAIN Graph.profiles
          /\ route.steps # <<>>
          /\ \A i \in DOMAIN route.steps : StepValid(t, route.steps, i)

-----------------------------------------------------------------------------
(* One step.                                                               *)

\* None, in the code, when the state is not one it knows.
AtLeast(actual, minimum, order) ==
    IF actual = "deprecated" THEN "no"
    ELSE IF actual \notin DOMAIN order THEN "unknown"
    ELSE IF order[actual] >= order[minimum] THEN "yes" ELSE "no"

\* A caller's minimum counts when it comes after the route's in the order.
StricterMinimum(minimum, asked, order) ==
    IF asked # Unset /\ order[asked] > order[minimum] THEN asked ELSE minimum

\* MUTANT of LockedEntryMatches: one version is one document.
LockedVersionMatches(t, id, row) == row.version = t.caps[CapabilityPath(t, id)].version

LockedEntryMatches(t, id, row) ==
    LET d == t.caps[CapabilityPath(t, id)] IN
    /\ row.version = d.version
    /\ row.capability_sha256 = d
    /\ row.lifecycle = d.lifecycle
    /\ row.evaluation = d.evaluation

Qualification(d, step, request) ==
    { AtLeast(d.lifecycle,
              StricterMinimum(step.minimum_lifecycle, request.minimum_lifecycle, LifecycleOrder),
              LifecycleOrder),
      AtLeast(d.evaluation,
              StricterMinimum(step.minimum_evaluation, request.minimum_evaluation, EvaluationOrder),
              EvaluationOrder) }

\* implementation_state: the registered primary asset is there as a file.
Implemented(t, d) == SourceExists(t, d.primary_asset)

Available(t, rows, request) ==
    (IF request.inventory = "lock" THEN DOMAIN rows
     ELSE { t.caps[p].id : p \in DOMAIN t.caps }) \ request.omitted

\* The first obstacle a step meets names its state; a missing implementation
\* comes before a stale lock entry.
StepState(t, rows, grants, request, step) ==
    LET id == step.capability_id
        d == t.caps[CapabilityPath(t, id)]
        qualification == Qualification(d, step, request)
    IN  IF id \notin Available(t, rows, request) \/ ~Implemented(t, d)
        THEN "missing"
        ELSE IF request.inventory = "lock" /\ ~LockedEntryMatches(t, id, rows[id])
        THEN "incompatible"
        ELSE IF d.version = NotSemver THEN "unknown"
        ELSE IF d.version < step.minimum_version THEN "incompatible"
        ELSE IF ~(d.authority.required \subseteq grants) THEN "unauthorized"
        ELSE IF "no" \in qualification THEN "insufficient-qualification"
        ELSE IF "unknown" \in qualification THEN "unknown"
        ELSE "covered"

-----------------------------------------------------------------------------
(* The route.                                                              *)

Profile(request) ==
    IF request.authority_profile = Unset THEN Graph.routes[request.route].default_profile
    ELSE request.authority_profile

\* What preflight and its parser refuse with an exception.
RequestAccepted(t, request) ==
    /\ GraphValid(t)
    /\ request.route \in DOMAIN Graph.routes
    /\ request.inventory \in {"canonical", "lock"}
    /\ request.minimum_lifecycle \in DOMAIN LifecycleOrder \cup {Unset}
    /\ request.minimum_evaluation \in DOMAIN EvaluationOrder \cup {Unset}
    /\ Profile(request) \in DOMAIN Graph.profiles

Verdict(states) ==
    IF "unknown" \in states THEN "UNKNOWN"
    ELSE IF states \cap {"missing", "incompatible"} # {} THEN "CAPABILITY_GAP"
    ELSE IF "unauthorized" \in states THEN "AUTHORITY_GAP"
    ELSE IF "insufficient-qualification" \in states THEN "QUALIFICATION_GAP"
    ELSE "READY"

Preflight(t, rows, request) ==
    IF ~RequestAccepted(t, request) THEN "RAISED"
    ELSE Verdict({ StepState(t, rows, Graph.profiles[Profile(request)], request, step) :
                     step \in Range(Graph.routes[request.route].steps) })

\* EXIT_CODES; an exception leaves through the interpreter.
PreflightExit(verdict) ==
    [READY |-> 0, RAISED |-> 1, CAPABILITY_GAP |-> 3, AUTHORITY_GAP |-> 4,
     QUALIFICATION_GAP |-> 5, UNKNOWN |-> 6][verdict]

\* The caller goes on: the command answered READY.
Proceeds(t, rows, request) == PreflightExit(Preflight(t, rows, request)) = 0
=============================================================================
