-------------------------- MODULE MCArsenalKnowledge --------------------------
(***************************************************************************)
(* One feature: an owner's note (rank 0), a plan (rank 1) and the history  *)
(* (rank 2) say what became of it.  It starts authorized and all the way   *)
(* to accepted, with its relationships listed in an order that one pass    *)
(* follows and in one that needs two; edits then take it apart.            *)
(***************************************************************************)
EXTENDS ArsenalKnowledge

MCSource(kind, rank) ==
    [kind |-> kind, authority_rank |-> rank, retrieval |-> "retrieved", repository_sha |-> "sha1",
     content_sha256 |-> "sha256:1"]

Claim(predicate, value, source) ==
    [subject_id |-> "feature", predicate |-> predicate, value |-> value, source_ref |-> source]

Record(plan, source) ==
    [subject_id |-> "feature", owner |-> "owner", scope |-> "feature only",
     source_ref |-> source, plan_path |-> "plan.md", plan_sha256 |-> plan,
     base_repository_sha |-> "sha1", status |-> "active"]

Edge(from, to, kind) == [from |-> from, to |-> to, kind |-> kind]
OnePass == <<Edge("goal", "rule", "requires"), Edge("proof", "rule", "supported-by"),
             Edge("wish", "proof", "blocks")>>
TwoPasses == <<OnePass[3], OnePass[2], OnePass[1]>>

Snapshot(edges) ==
    [sha |-> "sha1",
     sources |-> [src \in {"note", "plan", "git"} |->
         CASE src = "note" -> MCSource("owner-authorization", 0)
           [] src = "plan" -> MCSource("accepted-plan", 1)
           [] OTHER -> MCSource("git", 2)],
     knowledge |-> [k \in {"goal", "rule", "proof", "wish"} |-> [source_refs |-> {"plan"}]],
     claims |-> {Claim("implementation_authorization", "authorized", "plan"),
                 Claim("implementation_status", "implemented", "git"),
                 Claim("verification_status", "verified", "plan"),
                 Claim("acceptance_status", "accepted", "plan")},
     relationships |-> edges,
     records |-> {Record("sha256:plan", "note")},
     queries |-> [q \in {"may-implement", "context"} |->
         [kind |-> IF q = "context" THEN "task-context" ELSE "implementation-authority",
          subject_id |-> "feature", context_entity_ids |-> {"goal"},
          target |-> [repository_sha |-> "sha1", owner |-> "owner", scope |-> "feature only",
                      plan_path |-> "plan.md", plan_sha256 |-> "sha256:plan"]]]]

MCSnapshots == {Snapshot(OnePass), Snapshot(TwoPasses)}
MCClaims ==
    {Claim("implementation_authorization", "authorized", "git"),
     Claim("implementation_authorization", "not-authorized", "plan"),
     Claim("implementation_authorization", "revoked", "note"),
     Claim("implementation_authorization", "revoked", "git"),
     Claim("implementation_status", "in-progress", "plan"),
     Claim("verification_status", "failed", "git"),
     Claim("planning_status", "proposed", "plan")}
MCRecords ==
    {Record("sha256:other", "note"), Record("sha256:plan", "plan"),
     [Record("sha256:plan", "note") EXCEPT !.base_repository_sha = "sha2"],
     [Record("sha256:plan", "note") EXCEPT !.owner = "another"],
     [Record("sha256:plan", "note") EXCEPT !.scope = "everything"],
     [Record("sha256:plan", "note") EXCEPT !.plan_path = "draft.md"]}
===============================================================================
