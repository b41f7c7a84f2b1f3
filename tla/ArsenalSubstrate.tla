--------------------------- MODULE ArsenalSubstrate ---------------------------
(***************************************************************************)
(* scripts/arsenal_substrate.py: which execution substrate may establish a *)
(* verification requirement.  select validates the catalog and the proof   *)
(* requirements it has just read and then narrows the ladder of substrates *)
(* by proof, by the capability's contract, by availability and by          *)
(* authority, in that order; the first narrowing that leaves nothing names *)
(* the verdict.                                                            *)
(*                                                                         *)
(* A policy is what one call reads: [catalog, proof, capabilities, graph]. *)
(* Lists whose order and repetition the code does not look at are sets;    *)
(* texts (display names, limitations, the fixture_reset and teardown       *)
(* contracts) and the shape of a field are left out.                       *)
(***************************************************************************)
EXTENDS Naturals, Sequences, FiniteSets, Functions

\* The authority vocabulary and the surfaces of arsenal_protocol.py.
Authority == {"filesystem.read", "filesystem.write", "shell.execute", "network.read",
    "network.write", "git.read", "git.write", "tracker.read", "tracker.write",
    "secrets.read", "cloud.local", "cloud.remote", "production.mutate", "human.confirmation"}
ExecutionSurfaces == {"reasoning-only", "repository-read", "local-process", "local-container",
    "local-emulator", "local-cluster", "remote-sandbox", "shared-nonproduction", "staging",
    "production", "user-mediated"}
ExplicitOnlySurfaces == {"remote-sandbox", "shared-nonproduction", "staging", "production"}

HighConsequence == {"cloud.remote", "production.mutate", "secrets.read"}
ReproRank == [r \in {"best-effort", "resettable", "deterministic"} |->
    CASE r = "best-effort" -> 0 [] r = "resettable" -> 1 [] OTHER -> 2]

-----------------------------------------------------------------------------
(* What a valid policy is.                                                 *)

Substrates(catalog) == Range(catalog.substrates)
Ids(catalog) == {s.id : s \in Substrates(catalog)}
Named(catalog, id) == CHOOSE s \in Substrates(catalog) : s.id = id

AllDifferent(f) == \A i, j \in DOMAIN f : f[i] = f[j] => i = j

SubstrateValid(catalog, s) ==
    /\ s.execution_surface \in ExecutionSurfaces
    /\ s.selection_mode \in {"automatic", "explicit-only"}
    /\ s.execution_surface \in ExplicitOnlySurfaces => s.selection_mode = "explicit-only"
    /\ s.selection_mode = "automatic" => s.required_authority \cap HighConsequence = {}
    /\ s.required_authority \subseteq Authority
    /\ s.isolation \in DOMAIN catalog.isolation_strength
    /\ s.reproducibility \in DOMAIN ReproRank
    /\ s.traits # {}

\* The ranks are 0..N without a gap, every escalation climbs, and only the top may have none.
LadderValid(catalog) ==
    LET subs == catalog.substrates IN
    /\ subs # <<>>
    /\ AllDifferent([i \in DOMAIN subs |-> subs[i].id])
    /\ AllDifferent([i \in DOMAIN subs |-> subs[i].reality_rank])
    /\ {s.reality_rank : s \in Substrates(catalog)} = 0..(Len(subs) - 1)
    /\ \A s \in Substrates(catalog) :
           IF s.escalation_to = "none"
           THEN s.reality_rank = Len(subs) - 1
           ELSE /\ s.escalation_to \in Ids(catalog)
                /\ Named(catalog, s.escalation_to).reality_rank > s.reality_rank

\* An availability profile may only name known substrates that are selected automatically.
AvailabilityValid(catalog) ==
    /\ catalog.availability_profiles # <<>>
    /\ \A p \in DOMAIN catalog.availability_profiles :
           LET entries == catalog.availability_profiles[p] IN
           /\ entries # {}
           /\ entries \subseteq Ids(catalog)
           /\ \A id \in entries : Named(catalog, id).selection_mode # "explicit-only"

CatalogValid(catalog) ==
    /\ \A s \in Substrates(catalog) : SubstrateValid(catalog, s)
    /\ LadderValid(catalog)
    /\ AvailabilityValid(catalog)

\* One binding for a capability's requirement; a binding names proof traits, never a substrate.
ProofValid(policy) ==
    /\ policy.proof # <<>>
    /\ AllDifferent([i \in DOMAIN policy.proof |-> policy.proof[i].id])
    /\ AllDifferent([i \in DOMAIN policy.proof |->
           <<policy.proof[i].capability_id, policy.proof[i].verification_requirement_id>>])
    /\ \A p \in Range(policy.proof) :
           /\ p.capability_id \in DOMAIN policy.capabilities
           /\ p.verification_requirement_id \in policy.capabilities[p.capability_id].requirements
           /\ p.required_traits # {}
           /\ p.required_traits \cap Ids(policy.catalog) = {}
           /\ p.minimum_isolation \in DOMAIN policy.catalog.isolation_strength
           /\ p.minimum_reproducibility \in DOMAIN ReproRank

Bindings(policy, request) ==
    {p \in Range(policy.proof) : /\ p.capability_id = request.capability
                                 /\ p.verification_requirement_id = request.requirement}

PolicyValid(policy) == CatalogValid(policy.catalog) /\ ProofValid(policy)

\* select raises, and the process dies with a traceback, unless the policy is valid and knows
\* everything the request names.
RequestKnown(policy, request) ==
    /\ request.capability \in DOMAIN policy.capabilities
    /\ Bindings(policy, request) # {}
    /\ request.authority_profile \in DOMAIN policy.graph
    /\ request.availability_profile \in DOMAIN policy.catalog.availability_profiles

-----------------------------------------------------------------------------
(* The narrowing.                                                          *)

Satisfies(catalog, s, proof, traits) ==
    /\ traits \subseteq s.traits
    /\ catalog.isolation_strength[s.isolation] >= catalog.isolation_strength[proof.minimum_isolation]
    /\ ReproRank[s.reproducibility] >= ReproRank[proof.minimum_reproducibility]

\* The substrates that can establish the proof, the caller's stricter traits included.
EvidenceCandidates(policy, request) ==
    LET proof == CHOOSE p \in Bindings(policy, request) : TRUE IN
    {s \in Substrates(policy.catalog) :
        Satisfies(policy.catalog, s, proof, proof.required_traits \cup request.extra_traits)}

MissingAuthority(policy, request, s) ==
    (policy.capabilities[request.capability].required_authority \cup s.required_authority)
        \ policy.graph[request.authority_profile]

\* MUTANT of Authorized: the substrate's own authority is enough.
AuthorizedWithoutContract(policy, request, S) ==
    {s \in S : s.required_authority \subseteq policy.graph[request.authority_profile]}

Authorized(policy, request, S) == {s \in S : MissingAuthority(policy, request, s) = {}}

\* The candidates that are left after each question.
Narrowed(policy, request) ==
    LET cap == policy.capabilities[request.capability]
        offered == policy.catalog.availability_profiles[request.availability_profile]
        evidence == EvidenceCandidates(policy, request)
        legal == {s \in evidence : s.execution_surface \in cap.allowed \ cap.prohibited}
        automatic == {s \in legal : s.selection_mode = "automatic"}
        available == {s \in automatic : s.id \in offered \ request.omitted}
    IN  [evidence |-> evidence, legal |-> legal, automatic |-> automatic, available |-> available,
         authorized |-> Authorized(policy, request, available)]

Lowest(S) == CHOOSE s \in S : \A t \in S : s.reality_rank <= t.reality_rank

\* The first question nothing is left for; without a legal substrate, and with none but
\* explicit-only ones, the answer is the same.
SelectVerdict(left) ==
    IF left.evidence = {} THEN "EVIDENCE_GAP"
    ELSE IF left.automatic = {} THEN "ESCALATION_REQUIRED"
    ELSE IF left.available = {} THEN "SUBSTRATE_GAP"
    ELSE IF left.authorized = {} THEN "AUTHORITY_GAP"
    ELSE "SELECTED"

NoSubstrate == [id |-> "none", reality_rank |-> 0]
Brief(s) == [id |-> s.id, reality_rank |-> s.reality_rank]

\* The substrate a refusal points at: the lowest of the last stage that still had one.
Candidate(left) ==
    LET at == CHOOSE S \in {left.evidence, left.legal, left.automatic, left.available} :
                  /\ S # {}
                  /\ \A T \in {left.evidence, left.legal, left.automatic, left.available} :
                         T # {} => S \subseteq T
    IN  Brief(Lowest(at))

\* The report of select --json.
Select(policy, request) ==
    LET left == Narrowed(policy, request)
        verdict == SelectVerdict(left)
    IN  [requirement |-> request.requirement,
         authority_profile |-> request.authority_profile,
         verdict |-> verdict,
         selected |-> IF verdict = "SELECTED" THEN Brief(Lowest(left.authorized)) ELSE NoSubstrate,
         candidate |-> IF verdict \in {"SELECTED", "EVIDENCE_GAP"} THEN NoSubstrate
                       ELSE Candidate(left)]

\* The process's exit code; 1 is the interpreter's for an uncaught AssertionError.
SelectExit(policy, request) ==
    IF ~(PolicyValid(policy) /\ RequestKnown(policy, request)) THEN 1
    ELSE [SELECTED |-> 0, AUTHORITY_GAP |-> 4, SUBSTRATE_GAP |-> 5, ESCALATION_REQUIRED |-> 6,
          EVIDENCE_GAP |-> 7][SelectVerdict(Narrowed(policy, request))]
===============================================================================
