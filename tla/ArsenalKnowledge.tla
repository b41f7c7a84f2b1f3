--------------------------- MODULE ArsenalKnowledge ---------------------------
(***************************************************************************)
(* scripts/arsenal_knowledge.py on one snapshot that its authors keep      *)
(* editing: sources are retrieved again or lost, claims and authorization  *)
(* records come and are withdrawn, the repository moves on.  adjudicate    *)
(* and validate are functions of the snapshot; compile loads it and then   *)
(* walks the relationships until nothing changes.                          *)
(*                                                                         *)
(* A snapshot is [sha, sources, knowledge, claims, relationships, records, *)
(* queries].  Entries something refers to are functions of their ids, the  *)
(* relationships are a sequence, because compile goes through them in      *)
(* order, and the rest are sets.  Statements and the shape of a field are  *)
(* left out, and so are field observations, which nothing reads.           *)
(***************************************************************************)
EXTENDS Naturals, Sequences, FiniteSets, Functions

CONSTANTS
    InitialSnapshots,
    Claims, Records,    \* what an author may add
    Shas,
    MaxAuthored

ASSUME MaxAuthoredIsNatural == MaxAuthored \in Nat

\* A snapshot is a JSON document: its lists are lists, its sets finite, its ranks numbers.
ASSUME SnapshotsAreDocuments ==
    \A s \in InitialSnapshots :
        /\ DOMAIN s = {"sha", "sources", "knowledge", "claims", "relationships", "records", "queries"}
        /\ s.relationships \in Seq(Range(s.relationships))
        /\ IsFiniteSet(s.claims)
        /\ \A src \in DOMAIN s.sources :
              "authority_rank" \in DOMAIN s.sources[src] /\ s.sources[src].authority_rank \in Nat

VARIABLES
    snapshot,
    compile,    \* the compile that runs, or how the last one ended
    authored

knowledgeVars == <<snapshot, compile, authored>>

-----------------------------------------------------------------------------
(* validate_snapshot                                                       *)

Predicates == [
    planning_status |-> {"unplanned", "proposed", "accepted"},
    implementation_authorization |-> {"not-authorized", "authorized", "revoked"},
    implementation_status |-> {"not-started", "in-progress", "implemented"},
    verification_status |-> {"unverified", "verified", "failed"},
    acceptance_status |-> {"unaccepted", "accepted", "rejected"},
    permission_status |-> {"unspecified", "permitted", "forbidden"}]

\* One name for one entry, over all kinds of entries.
IdsUnique(s) ==
    /\ DOMAIN s.sources \cap DOMAIN s.knowledge = {}
    /\ DOMAIN s.sources \cap DOMAIN s.queries = {}
    /\ DOMAIN s.knowledge \cap DOMAIN s.queries = {}

ReferencesResolve(s) ==
    /\ \A k \in DOMAIN s.knowledge :
           s.knowledge[k].source_refs # {} /\ s.knowledge[k].source_refs \subseteq DOMAIN s.sources
    /\ \A c \in s.claims : c.source_ref \in DOMAIN s.sources
    /\ \A i \in DOMAIN s.relationships :
           {s.relationships[i].from, s.relationships[i].to} \subseteq DOMAIN s.knowledge
    /\ \A q \in DOMAIN s.queries :
           /\ s.queries[q].context_entity_ids # {}
           /\ s.queries[q].context_entity_ids \subseteq DOMAIN s.knowledge

\* An authorization record rests on an owner's source whose bytes are pinned.
RecordsRest(s) ==
    \A r \in s.records :
        /\ r.source_ref \in DOMAIN s.sources
        /\ s.sources[r.source_ref].kind = "owner-authorization"
        /\ s.sources[r.source_ref].content_sha256 # "none"

\* Every query is about the commit the snapshot is about.
QueriesValid(s) ==
    \A q \in DOMAIN s.queries :
        /\ s.queries[q].kind \in {"implementation-authority", "task-context"}
        /\ s.queries[q].target.repository_sha = s.sha

\* validate_snapshot finds nothing.
SnapshotValid(s) ==
    /\ DOMAIN s.sources # {}
    /\ DOMAIN s.queries # {}
    /\ IdsUnique(s)
    /\ \A c \in s.claims : c.predicate \in DOMAIN Predicates /\ c.value \in Predicates[c.predicate]
    /\ ReferencesResolve(s)
    /\ RecordsRest(s)
    /\ QueriesValid(s)

-----------------------------------------------------------------------------
(* Claims and their resolution.                                            *)

ClaimsOf(s, subject, predicate) ==
    {c \in s.claims : c.subject_id = subject /\ c.predicate = predicate}

\* MUTANT of IsCurrent: a claim of another commit is as good.
IsRetrieved(s, c) == s.sources[c.source_ref].retrieval = "retrieved"

\* The claim's source was retrieved, and at the commit the snapshot is about.
IsCurrent(s, c) ==
    /\ s.sources[c.source_ref].retrieval = "retrieved"
    /\ s.sources[c.source_ref].repository_sha = s.sha

Current(s, subject, predicate) == {c \in ClaimsOf(s, subject, predicate) : IsCurrent(s, c)}

RankOf(s, c) == s.sources[c.source_ref].authority_rank

\* The claims of the highest authority among them: rank 0 is the highest.
Top(s, claims) == {c \in claims : \A d \in claims : RankOf(s, c) <= RankOf(s, d)}

\* resolve_claim: [status, value].
Resolve(s, subject, predicate) ==
    LET current == Current(s, subject, predicate)
        values == {c.value : c \in Top(s, current)}
    IN  CASE ClaimsOf(s, subject, predicate) = {} -> [status |-> "UNKNOWN", value |-> "none"]
          [] current = {} /\ ClaimsOf(s, subject, predicate) # {} ->
                 [status |-> "STALE", value |-> "none"]
          [] Cardinality(values) > 1 -> [status |-> "CONTRADICTORY", value |-> "none"]
          [] Cardinality(values) = 1 ->
                 [status |-> "RESOLVED", value |-> CHOOSE v \in values : TRUE]

\* The subjects and predicates with two current values, whatever their authority.
Contradictions(s) ==
    {sp \in {<<c.subject_id, c.predicate>> : c \in s.claims} :
        Cardinality({c.value : c \in Current(s, sp[1], sp[2])}) > 1}

Value(s, subject, predicate) == Resolve(s, subject, predicate).value

\* MUTANT of LifecycleFindings: verification without implementation is not reported.
LifecycleFindingsFewer(s, subject) ==
    LET Is(predicate, values) == Value(s, subject, predicate) \in values IN
    {code \in {"IMPLEMENTATION_WITHOUT_AUTHORIZATION", "ACCEPTED_WITHOUT_VERIFICATION"} :
        CASE code = "IMPLEMENTATION_WITHOUT_AUTHORIZATION" ->
                 /\ Is("implementation_status", {"in-progress", "implemented"})
                 /\ ~Is("implementation_authorization", {"authorized"})
          [] OTHER -> /\ Is("acceptance_status", {"accepted"})
                      /\ ~Is("verification_status", {"verified"})}

\* lifecycle_findings; a predicate that is not resolved has no value.
LifecycleFindings(s, subject) ==
    LET Is(predicate, values) == Value(s, subject, predicate) \in values
        Finding(code, found) == IF found THEN {code} ELSE {}
        active == Is("implementation_status", {"in-progress", "implemented"})
    IN  Finding("PROPOSED_PLAN_HAS_IMPLEMENTATION", Is("planning_status", {"proposed"}) /\ active)
        \cup Finding("IMPLEMENTATION_WITHOUT_AUTHORIZATION",
                     active /\ ~Is("implementation_authorization", {"authorized"}))
        \cup Finding("VERIFIED_WITHOUT_IMPLEMENTATION",
                     Is("verification_status", {"verified"})
                     /\ ~Is("implementation_status", {"implemented"}))
        \cup Finding("ACCEPTED_WITHOUT_VERIFICATION",
                     Is("acceptance_status", {"accepted"})
                     /\ ~Is("verification_status", {"verified"}))

\* The exit code of validate --strict-findings.
ValidateExit(s) ==
    IF ~SnapshotValid(s) THEN 2
    ELSE IF Contradictions(s) # {} \/ \E c \in s.claims : LifecycleFindings(s, c.subject_id) # {}
         THEN 1 ELSE 0

-----------------------------------------------------------------------------
(* adjudicate                                                              *)

ActiveRecords(s, subject) == {r \in s.records : r.subject_id = subject /\ r.status = "active"}

\* The record is for exactly what the query is about, and its source is current.
Exact(s, target, r) ==
    /\ r.owner = target.owner
    /\ r.scope = target.scope
    /\ r.base_repository_sha = target.repository_sha
    /\ r.plan_path = target.plan_path
    /\ r.plan_sha256 = target.plan_sha256
    /\ s.sources[r.source_ref].retrieval = "retrieved"
    /\ s.sources[r.source_ref].repository_sha = target.repository_sha

\* evaluate_authority's verdict.
QueryAuthority(s, query) ==
    LET subject == query.subject_id
        resolution == Resolve(s, subject, "implementation_authorization")
        active == ActiveRecords(s, subject)
    IN  CASE resolution.status = "CONTRADICTORY" -> "BLOCKED"
          [] resolution.status = "STALE" -> "STALE"
          [] resolution.status = "UNKNOWN" -> "UNKNOWN"
          [] resolution.value \in {"not-authorized", "revoked"} -> "NOT_AUTHORIZED"
          [] resolution.value = "authorized" ->
                 IF \E r \in active : Exact(s, query.target, r) THEN "AUTHORIZED"
                 ELSE IF active # {} THEN "STALE" ELSE "BLOCKED"

AdjudicateExit(s, q) ==
    IF ~SnapshotValid(s) \/ q \notin DOMAIN s.queries THEN 2
    ELSE IF s.queries[q].kind # "implementation-authority" THEN 2
    ELSE IF QueryAuthority(s, s.queries[q]) = "AUTHORIZED" THEN 0 ELSE 3

-----------------------------------------------------------------------------
(* compile                                                                 *)

Idle == [step |-> "idle"]

\* The snapshot is loaded and validated; compile never looks at the file again.
CompileStart(q) ==
    /\ compile.step # "walk"
    /\ SnapshotValid(snapshot)
    /\ q \in DOMAIN snapshot.queries
    /\ compile' = [step |-> "walk", edges |-> snapshot.relationships,
                   seeds |-> snapshot.queries[q].context_entity_ids,
                   selected |-> snapshot.queries[q].context_entity_ids,
                   next |-> 1, changed |-> FALSE]
    /\ UNCHANGED <<snapshot, authored>>

\* Along an edge everything is followed; against it, only what supports, challenges or governs.
Backward == {"supported-by", "challenged-by", "governed-by"}
Reached(edge, selected) ==
    IF edge.from \in selected THEN {edge.to}
    ELSE IF edge.to \in selected /\ edge.kind \in Backward THEN {edge.from}
    ELSE {}

\* MUTANT of CompileEdge: what a pass found is forgotten.
CompileEdgeForgets ==
    /\ compile.step = "walk"
    /\ compile.next <= Len(compile.edges)
    /\ compile' = [compile EXCEPT !.selected = @ \cup Reached(compile.edges[compile.next], @),
                                  !.next = @ + 1]
    /\ UNCHANGED <<snapshot, authored>>

\* MUTANT of CompileEdge: an entry that is already selected counts as found.
CompileEdgeFindsAgain ==
    /\ compile.step = "walk"
    /\ compile.next <= Len(compile.edges)
    /\ LET reached == Reached(compile.edges[compile.next], compile.selected) IN
       compile' = [compile EXCEPT !.selected = @ \cup reached, !.next = @ + 1,
                                  !.changed = @ \/ reached # {}]
    /\ UNCHANGED <<snapshot, authored>>

CompileEdge ==
    /\ compile.step = "walk"
    /\ compile.next <= Len(compile.edges)
    /\ LET reached == Reached(compile.edges[compile.next], compile.selected) IN
       compile' = [compile EXCEPT !.selected = @ \cup reached, !.next = @ + 1,
                                  !.changed = @ \/ ~(reached \subseteq compile.selected)]
    /\ UNCHANGED <<snapshot, authored>>

\* A pass that found something is followed by another.
CompileAgain ==
    /\ compile.step = "walk"
    /\ compile.next > Len(compile.edges)
    /\ compile.changed
    /\ compile' = [compile EXCEPT !.next = 1, !.changed = FALSE]
    /\ UNCHANGED <<snapshot, authored>>

CompileEnd ==
    /\ compile.step = "walk"
    /\ compile.next > Len(compile.edges)
    /\ ~compile.changed
    /\ compile' = [step |-> "done", edges |-> compile.edges, seeds |-> compile.seeds,
                   selected |-> compile.selected]
    /\ UNCHANGED <<snapshot, authored>>

-----------------------------------------------------------------------------
(* The authors.                                                            *)

Edit == authored < MaxAuthored /\ authored' = authored + 1 /\ UNCHANGED compile

AddClaim == Edit /\ \E c \in Claims \ snapshot.claims :
    snapshot' = [snapshot EXCEPT !.claims = @ \cup {c}]

AddRecord == Edit /\ \E r \in Records \ snapshot.records :
    snapshot' = [snapshot EXCEPT !.records = @ \cup {r}]

\* A record is used up, runs out or is revoked.
EndRecord == Edit /\ \E r \in snapshot.records, status \in {"revoked", "expired", "consumed"} :
    /\ r.status = "active"
    /\ snapshot' = [snapshot EXCEPT !.records = (@ \ {r}) \cup {[r EXCEPT !.status = status]}]

\* A source is read at the present commit, or cannot be read any more.
Retrieve == Edit /\ \E src \in DOMAIN snapshot.sources :
    snapshot' = [snapshot EXCEPT !.sources[src].retrieval = "retrieved",
                                 !.sources[src].repository_sha = snapshot.sha]
Lose == Edit /\ \E src \in DOMAIN snapshot.sources :
    snapshot' = [snapshot EXCEPT !.sources[src].retrieval = "unavailable"]

\* The snapshot is now about another commit; the queries may follow.
Commit == Edit /\ \E sha \in Shas \ {snapshot.sha} :
    \/ snapshot' = [snapshot EXCEPT !.sha = sha]
    \/ snapshot' = [snapshot EXCEPT !.sha = sha,
           !.queries = [q \in DOMAIN @ |-> [@[q] EXCEPT !.target.repository_sha = sha]]]

KnowledgeInit == snapshot \in InitialSnapshots /\ compile = Idle /\ authored = 0

Compiling == CompileEdge \/ CompileAgain \/ CompileEnd
Authoring == AddClaim \/ AddRecord \/ EndRecord \/ Retrieve \/ Lose \/ Commit
KnowledgeNext == (\E q \in DOMAIN snapshot.queries : CompileStart(q)) \/ Compiling \/ Authoring

\* A compile is a loop of one process and goes on by itself.
KnowledgeSpec == KnowledgeInit /\ [][KnowledgeNext]_knowledgeVars /\ WF_knowledgeVars(Compiling)

-----------------------------------------------------------------------------
(* Properties.                                                             *)

\* The adjudicated queries of a valid snapshot.
AuthorityQueries(s) ==
    {q \in DOMAIN s.queries : s.queries[q].kind = "implementation-authority" /\ SnapshotValid(s)}
Authorized(s, q) == AdjudicateExit(s, q) = 0

\* A query is authorized only while some source read at the present commit says so, every source
\* read at that commit that says otherwise is of lower authority, and a record that is still
\* active, read from an owner's authorization, gives the owner the query asks about leave for this
\* subject, scope and plan, where it lies and as it reads, at this very commit.  No order of
\* commits, retrievals and withdrawals gets around it.
AuthorizedIsEarned ==
    \A q \in AuthorityQueries(snapshot) :
        LET s == snapshot
            query == s.queries[q]
            Read(ref) == /\ s.sources[ref].retrieval = "retrieved"
                         /\ s.sources[ref].repository_sha = s.sha
            said == {c \in s.claims : /\ c.subject_id = query.subject_id
                                      /\ c.predicate = "implementation_authorization"
                                      /\ Read(c.source_ref)}
        IN  Authorized(s, q) =>
            /\ \E c \in said :
                   /\ c.value = "authorized"
                   /\ \A d \in said : d.value # "authorized" =>
                          s.sources[d.source_ref].authority_rank > s.sources[c.source_ref].authority_rank
            /\ \E r \in s.records :
                   /\ r.status = "active" /\ r.subject_id = query.subject_id
                   /\ \A term \in {"owner", "scope", "plan_path", "plan_sha256"} :
                          r[term] = query.target[term]
                   /\ r.base_repository_sha = s.sha
                   /\ Read(r.source_ref) /\ s.sources[r.source_ref].kind = "owner-authorization"

\* A snapshot that passes validate --strict-findings tells a story in order: what is accepted is
\* verified, what is verified is implemented, and what is implemented is authorized, each said
\* without contradiction by a source read at the present commit.
StrictValidationChains ==
    ValidateExit(snapshot) = 0 =>
        \A c \in snapshot.claims :
            LET said(predicate) ==
                    {d.value : d \in {d \in snapshot.claims :
                        /\ d.subject_id = c.subject_id /\ d.predicate = predicate
                        /\ snapshot.sources[d.source_ref].retrieval = "retrieved"
                        /\ snapshot.sources[d.source_ref].repository_sha = snapshot.sha}}
            IN  /\ "accepted" \in said("acceptance_status") =>
                       said("verification_status") = {"verified"}
                /\ "verified" \in said("verification_status") =>
                       said("implementation_status") = {"implemented"}
                /\ "implemented" \in said("implementation_status") =>
                       said("implementation_authorization") = {"authorized"}

\* S has the seeds and everything that can be reached from one of its entries.
Closed(S, seeds, edges) ==
    /\ seeds \subseteq S
    /\ \A i \in DOMAIN edges : Reached(edges[i], S) \subseteq S

\* A compiled context is the least closed set of entries around the seeds, in whatever order the
\* relationships are listed: nothing relevant is left out and nothing else gets in.
ContextIsLeastClosure ==
    compile.step = "done" =>
        LET entries == compile.seeds \cup
                UNION {{compile.edges[i].from, compile.edges[i].to} : i \in DOMAIN compile.edges}
        IN  /\ Closed(compile.selected, compile.seeds, compile.edges)
            /\ \A S \in SUBSET entries :
                   Closed(S, compile.seeds, compile.edges) => compile.selected \subseteq S

\* The walk over the relationships always comes to its end.
CompileEnds == compile.step = "walk" ~> compile.step = "done"
===============================================================================
