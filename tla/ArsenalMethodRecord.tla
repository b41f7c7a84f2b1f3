-------------------------- MODULE ArsenalMethodRecord --------------------------
(***************************************************************************)
(* arsenal_method_record: what makes a qualified-method record admissible  *)
(* in evaluation/method-records, and the exit code the directory earns.    *)
(*                                                                         *)
(* A record holds the fields its schema requires, flat, and "fixture" when *)
(* it is one; a field the schema does not know may be there too.  A digest *)
(* is [kind, of]: what a sha256 is of; the placeholder is of nothing.  The   *)
(* digest of a record is taken with the placeholder in its own field.  A   *)
(* file is [yaml, record]; texts are members of small sets, and authority  *)
(* is the set of authority names that occur anywhere in the record.        *)
(***************************************************************************)
EXTENDS Integers, Sequences

SchemaId == "engineering-system/qualified-method-record/v0"

Required ==
    {"schema", "method_id", "method_version", "status", "qualified_for", "inputs",
     "outputs", "procedure_ref", "evaluation", "provenance"}

Statuses == {"experimental", "qualified"}
ExperimentalConfidence == {"unqualified-fixture", "bounded", "limited"}
Confidences == ExperimentalConfidence \cup {"qualified-for-declared-context"}

ForbiddenAuthority ==
    {"filesystem.write", "network.write", "git.write", "production.mutate", "cloud.remote"}

Sha256(body) == [kind |-> "sha256", of |-> body]
Placeholder == [kind |-> "sha256"]

IsFixture(record) == "fixture" \in DOMAIN record

\* The body that is hashed.
Canonical(record) ==
    [field \in DOMAIN record \ {"authority"} |->
        IF field = "provenance" THEN [commit |-> record.provenance.commit] ELSE record[field]]

\* _compute_record_digest returns whether the declared digest is the record's.
DigestMatches(record, declared) == declared = Sha256(Canonical(record))

-----------------------------------------------------------------------------
(* The schema: every violation the walk reports, by the words its message  *)
(* is recognized by.                                                       *)

MissingFields(record) == Required \ DOMAIN record

\* additionalProperties is false at the top level.
AdditionalFields(record) == DOMAIN record \ (Required \cup {"fixture", "authority"})

PatternBroken(record) ==
    \/ "procedure_ref" \in DOMAIN record
         /\ record.procedure_ref.kind \notin {"sha256", "fixture-only"}
    \/ "provenance" \in DOMAIN record
         /\ record.provenance.digest.kind \notin {"sha256", "fixture-only"}
    \* the branch for fixtures
    \/ /\ IsFixture(record)
       /\ \/ "procedure_ref" \in DOMAIN record /\ record.procedure_ref.kind # "fixture-only"
          \/ "provenance" \in DOMAIN record /\ record.provenance.digest.kind # "fixture-only"

EnumBroken(record) ==
    \/ "status" \in DOMAIN record /\ record.status \notin Statuses
    \/ "evaluation" \in DOMAIN record /\ record.evaluation.confidence \notin Confidences
    \* the branch for experimental records
    \/ /\ {"status", "evaluation"} \subseteq DOMAIN record
       /\ record.status = "experimental"
       /\ record.evaluation.confidence \notin ExperimentalConfidence

\* The branch for qualified records, and the identity of the schema.
ConstBroken(record) ==
    \/ "schema" \in DOMAIN record /\ record.schema # SchemaId
    \/ /\ {"status", "evaluation"} \subseteq DOMAIN record
       /\ record.status = "qualified"
       /\ record.evaluation.confidence # "qualified-for-declared-context"

TooFewItems(record) ==
    \/ "outputs" \in DOMAIN record /\ record.outputs = {}
    \/ /\ {"status", "evaluation"} \subseteq DOMAIN record
       /\ record.status = "experimental"
       /\ record.evaluation.failures = {}

SchemaErrors(record) ==
    { e \in {"missing required", "additional properties", "pattern", "enum", "const", "minitems"} :
        CASE e = "missing required" -> MissingFields(record) # {}
          [] e = "additional properties" -> AdditionalFields(record) # {}
          [] e = "pattern" -> PatternBroken(record)
          [] e = "enum" -> EnumBroken(record)
          [] e = "const" -> ConstBroken(record)
          [] e = "minitems" -> TooFewItems(record) }

\* A record that is not a fixture is held to more: its own digest, contexts and
\* exclusions, and the confidence a qualified record needs.
ClaimErrors(record) ==
    { e \in {"record_digest must be", "record_digest does not match", "contexts", "exclusions",
             "status=qualified requires"} :
        /\ ~IsFixture(record)
        /\ CASE e = "record_digest must be" ->
                  "provenance" \notin DOMAIN record \/ record.provenance.digest.kind # "sha256"
             [] e = "record_digest does not match" ->
                  /\ "provenance" \in DOMAIN record
                  /\ record.provenance.digest.kind = "sha256"
                  /\ ~DigestMatches(record, record.provenance.digest)
             [] e = "contexts" ->
                  "qualified_for" \notin DOMAIN record \/ record.qualified_for.contexts = {}
             [] e = "exclusions" ->
                  "qualified_for" \notin DOMAIN record \/ record.qualified_for.exclusions = {}
             [] e = "status=qualified requires" ->
                  /\ "status" \in DOMAIN record
                  /\ record.status = "qualified"
                  /\ \/ "evaluation" \notin DOMAIN record
                     \/ record.evaluation.confidence # "qualified-for-declared-context" }

ValidateRecord(record) ==
    SchemaErrors(record) \cup ClaimErrors(record)
        \cup (IF "schema" \in DOMAIN record /\ record.schema = SchemaId
              THEN {} ELSE {"schema identity must be"})
        \cup (IF record.authority \cap ForbiddenAuthority # {} THEN {"runtime authority"} ELSE {})

-----------------------------------------------------------------------------
(* The directory.                                                          *)

\* Some earlier file has the same method_id.
Duplicates(files) ==
    { i \in DOMAIN files :
        /\ files[i].yaml
        /\ "method_id" \in DOMAIN files[i].record
        /\ \E j \in 1 .. i - 1 :
              /\ files[j].yaml
              /\ "method_id" \in DOMAIN files[j].record
              /\ files[j].record.method_id = files[i].record.method_id }

ValidateDirectory(files) ==
    IF files = <<>> THEN {"no method records found"}
    ELSE UNION { IF files[i].yaml THEN ValidateRecord(files[i].record) ELSE {"invalid yaml"} :
                   i \in DOMAIN files }
         \cup (IF Duplicates(files) # {} THEN {"duplicate method_id"} ELSE {})

\* Needles in the order they are looked for.  A missing field and an empty
\* directory are in none of them.
SchemaNeedles ==
    {"schema identity must be", "additional properties", "enum", "const", "pattern", "minitems"}
ContractNeedles == {"status=qualified requires", "contexts", "exclusions", "runtime authority"}
DigestNeedles == {"record_digest does not match", "record_digest must be"}

RecordsExit(files) ==
    LET errors == ValidateDirectory(files) IN
    IF errors = {} THEN "PASS"
    ELSE IF "invalid yaml" \in errors THEN "INVALID_YAML"
    ELSE IF errors \cap SchemaNeedles # {} THEN "SCHEMA_VIOLATION"
    ELSE IF errors \cap ContractNeedles # {} THEN "CONTRACT_VIOLATION"
    ELSE IF errors \cap DigestNeedles # {} THEN "INVALID_DIGEST"
    ELSE IF "duplicate method_id" \in errors THEN "DUPLICATE_METHOD_ID"
    ELSE "UNKNOWN"
=============================================================================
