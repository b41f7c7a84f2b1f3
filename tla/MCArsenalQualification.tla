------------------------ MODULE MCArsenalQualification ------------------------
(***************************************************************************)
(* Two digests of Kiln's adapter, one case for the implementer, run once   *)
(* or not at all, a window of one step in two, and two documents drawn: a  *)
(* receipt, and a second one or a snapshot.  Of the documents made         *)
(* elsewhere, one profile and one snapshot are refused by the closed       *)
(* schemas; another profile is the implementer's with its role edited, and *)
(* another snapshot is the derived one edited to stay QUALIFIED: both keep *)
(* identifier and digest.                                                  *)
(***************************************************************************)
EXTENDS ArsenalQualification

MCSuites ==
    {[cases |-> << [id |-> "scope", role |-> "IMPLEMENTER"] >>, replications |-> n] : n \in 0 .. 1}

MCOutcomes == {"schema-valid", "not-json"}

\* k2 sorts before k1, and the implementer's digests before the reviewer's.
MCRank ==
    [digest \in Roles \X Implementations \X Policies |->
        (IF digest[1] = "IMPLEMENTER" THEN 0 ELSE 2) + (IF digest[2] = "k1" THEN 1 ELSE 0)]

Requirement(role) ==
    [schema |-> "intelligence-requirement", requirement_id |-> role, semantic_digest |-> role,
     plan_ref |-> [id |-> "plan", digest |-> "plan"], role |-> role,
     task_kind |-> "SOFTWARE_CHANGE", required_capabilities |-> {"code"},
     context_requirements |-> {}, disclosure_class |-> "LOCAL_ONLY",
     independence |-> {"must_not_receive_implementer_transcript",
                       "must_use_separate_context_manifest"}]
MCRequirements ==
    { Requirement(role) : role \in Roles }
        \cup { [Requirement("IMPLEMENTER") EXCEPT !.independence = {}] }

MaterializedElsewhere ==
    [schema |-> "intelligence-profile", profile_id |-> <<"IMPLEMENTER", "k1", "p">>,
     role |-> "REVIEWER", semantic_digest |-> <<"IMPLEMENTER", "k1", "p">>,
     model |-> "MiniMax-M3", provider |-> "minimax", runtime |-> "runtime", adapter |-> "k1",
     role_package |-> "p", system_config |-> "p", tool_policy |-> "p", context_policy |-> "p"]
MCStrayProfiles ==
    { MaterializedElsewhere,
      [authority |-> "git.write"] @@ [MaterializedElsewhere EXCEPT !.role = "IMPLEMENTER"] }

DerivedElsewhere ==
    [schema |-> "eligibility-snapshot", eligibility_id |-> 1, role |-> "IMPLEMENTER",
     profile_ref |-> [id |-> <<"IMPLEMENTER", "k1", "p">>, digest |-> <<"IMPLEMENTER", "k1", "p">>],
     qualification_ref |-> [id |-> 0, digest |-> 0], status_event_refs |-> <<[id |-> 0, digest |-> 0]>>,
     derived_at |-> 1, valid_until |-> 9, eligibility |-> "QUALIFIED", semantic_digest |-> 1]
MCStraySnapshots == { DerivedElsewhere, [DerivedElsewhere EXCEPT !.status_event_refs = <<>>] }
=============================================================================
