---------------------------- MODULE ArsenalCompile ----------------------------
(***************************************************************************)
(* The Arsenal compiler: what it takes from the working tree, which export *)
(* plans it accepts, the package and the lock row it derives for one       *)
(* export, and what verify compares.  Everything here is a function of a   *)
(* tree; ArsenalRelease reads the tree step by step.                       *)
(*                                                                         *)
(* A tree is a record: caps (path -> capability document), sources (path   *)
(* -> bytes of the implementation files that exist), suites (the set of    *)
(* evaluation suites), plan and project.  A digest is the value it         *)
(* digests.  An output path is the sequence of its segments, and two       *)
(* output paths are equal or disjoint.                                     *)
(***************************************************************************)
EXTENDS Naturals, FiniteSets, SequencesExt, TLC, Functions

CONSTANTS
    Targets,    \* distribution/compiler/targets.json
    Registry,   \* the merged asset registry: asset id -> [path, name]
    SoftLimit   \* bytes of always-loaded instructions

ASSUME SoftLimitIsNatural == SoftLimit \in Nat

RoleDir == [instructions |-> "references", reference |-> "references",
            template |-> "templates", script |-> "scripts",
            fixture |-> "fixtures", asset |-> "assets"]

SkillFile == <<"SKILL.md">>
ManifestFile == <<"arsenal-manifest.json">>

\* f with the entry k -> v, new or instead of the old one.
With(f, k, v) == [x \in DOMAIN f \cup {k} |-> IF x = k THEN v ELSE f[x]]

-----------------------------------------------------------------------------
(* Which plans are accepted.                                               *)

\* load_capabilities refuses two files that declare one id.
CapabilityIdsUnique(t) ==
    \A p, q \in DOMAIN t.caps : t.caps[p].id = t.caps[q].id => p = q

Declares(t, id) == \E p \in DOMAIN t.caps : t.caps[p].id = id
CapabilityPath(t, id) == CHOOSE p \in DOMAIN t.caps : t.caps[p].id = id

\* load_supported_targets raises unless every target names its invocations.
Invocations == {"human", "agent", "composed"}
RegistryValid ==
    /\ DOMAIN Targets # {}
    /\ \A id \in DOMAIN Targets :
          /\ Targets[id].invocation_support # {}
          /\ Targets[id].invocation_support \subseteq Invocations
          /\ Targets[id].adapter_version # ""

\* An absent project file enables every supported target; a present one enables
\* what it lists, and [] compiles nothing.
EnabledTargets(t) == IF t.project.present THEN t.project.enabled ELSE DOMAIN Targets

SuiteAgrees(t, e) ==
    \E s \in t.suites : /\ s.id = e.qualification_suite_id
                      /\ s.capability_id = e.capability_id
                      /\ s.target = e.target
                      /\ s.adapter_version = e.adapter_version

\* use_when is joined and looked for in the description as a whole.
RestatesDiscovery(d, e) == d.use_when # {} /\ d.use_when \subseteq e.description

SourceExists(t, asset) == asset \in DOMAIN Registry /\ Registry[asset].path \in DOMAIN t.sources

ExportAccepted(t, e) ==
    /\ Declares(t, e.capability_id)
    /\ e.target \in DOMAIN Targets
    /\ EnabledTargets(t) \subseteq DOMAIN Targets
    /\ e.target \in EnabledTargets(t)
    /\ e.adapter_version = Targets[e.target].adapter_version
    /\ SuiteAgrees(t, e)
    /\ SubSeq(e.output_path, 1, 2) = <<"distribution", "agent-skills">>
    /\ Last(e.output_path) = e.package_name
    /\ "Use when" \in e.description
    /\ LET d == t.caps[CapabilityPath(t, e.capability_id)] IN
       /\ d.invocation \in Targets[e.target].invocation_support
       /\ ~RestatesDiscovery(d, e)
       /\ SourceExists(t, d.primary_asset)

PlanAccepted(t) ==
    /\ t.plan.versions_match
    /\ t.plan.exports # <<>>
    /\ RegistryValid
    /\ CapabilityIdsUnique(t)
    /\ \A i, j \in DOMAIN t.plan.exports :
          /\ t.plan.exports[i].capability_id = t.plan.exports[j].capability_id
          /\ t.plan.exports[i].target = t.plan.exports[j].target
          => i = j
    /\ \A e \in Range(t.plan.exports) : ExportAccepted(t, e)

\* What validation hands to the build: the export with the document, its path
\* and the primary source path, all as they were when the plan was validated.
Normalize(t, e) ==
    LET p == CapabilityPath(t, e.capability_id) IN
    [export |-> e, cap_path |-> p, doc |-> t.caps[p],
     source_path |-> Registry[t.caps[p].primary_asset].path]

-----------------------------------------------------------------------------
(* One package.                                                            *)

\* Declared resources, or the primary asset as an on-demand reference.
Resources(d) ==
    IF d.resources # <<>> THEN d.resources
    ELSE <<[asset_id |-> d.primary_asset, role |-> "reference", load |-> "on-demand"]>>

ResourcePath(r) == <<RoleDir[r.role], Registry[r.asset_id].name>>
ResourceBytes(t, r) == t.sources[Registry[r.asset_id].path]

AlwaysLoaded(d) ==
    { r \in Range(Resources(d)) : r.role = "instructions" /\ r.load = "always" }
AlwaysLoadedSizes(t, d) ==
    [a \in { r.asset_id : r \in AlwaysLoaded(d) } |-> t.sources[Registry[a].path].size]
Total(sizes) == FoldFunction(LAMBDA x, y : x + y, 0, sizes)

\* build_agent_skill raises on an unregistered or missing asset, on two
\* resources with one packaging path or one asset, and on too many bytes
\* that are always loaded.
Packageable(t, d) ==
    /\ \A r \in Range(Resources(d)) : SourceExists(t, r.asset_id)
    /\ \A i, j \in DOMAIN Resources(d) :
          \/ ResourcePath(Resources(d)[i]) = ResourcePath(Resources(d)[j])
          \/ Resources(d)[i].asset_id = Resources(d)[j].asset_id
          => i = j
    /\ Total(AlwaysLoadedSizes(t, d)) <= SoftLimit

Bundle(t, d) ==
    [p \in { ResourcePath(r) : r \in Range(Resources(d)) } |->
        ResourceBytes(t, CHOOSE r \in Range(Resources(d)) : ResourcePath(r) = p)]

\* SKILL.md renders the export's text, the capability document and the
\* always-loaded instructions; size stands for its length.
Skill(t, n) ==
    LET d == n.doc IN
    [description |-> n.export.description, id |-> d.id, version |-> d.version,
     primary_asset |-> d.primary_asset, invocation |-> d.invocation,
     use_when |-> d.use_when, do_not_use_when |-> d.do_not_use_when,
     authority |-> d.authority, allowed |-> d.execution.allowed,
     prohibited |-> d.execution.prohibited, mutation_class |-> d.mutation.class,
     lifecycle |-> d.lifecycle, evaluation |-> d.evaluation,
     instructions |-> { ResourceBytes(t, r) : r \in AlwaysLoaded(d) },
     size |-> d.size + Total(AlwaysLoadedSizes(t, d))]

\* The files of a package other than its manifest, read and rendered at once.
Rendered(t, n) == With(Bundle(t, n.doc), SkillFile, Skill(t, n))

\* The manifest carries the document that was validated next to digests of the
\* bytes that are on disk when the manifest is put together (t).
Manifest(t, n, generated, sizes) ==
    LET d == n.doc IN
    [compiler |-> [target |-> n.export.target, adapter_version |-> n.export.adapter_version],
     capability |-> [id |-> d.id, version |-> d.version,
                     lifecycle |-> d.lifecycle, evaluation |-> d.evaluation],
     authority |-> d.authority, mutation |-> d.mutation,
     execution |-> d.execution, invocation |-> d.invocation,
     resources |-> Resources(d),
     resource_digests |-> { [asset_id |-> r.asset_id, path |-> ResourcePath(r),
                             sha256 |-> generated[ResourcePath(r)]] : r \in Range(Resources(d)) },
     always_loaded_policy |-> [soft_limit_bytes |-> SoftLimit, per_resource_bytes |-> sizes,
                               total_bytes |-> Total(sizes)],
     source |-> [capability_path |-> n.cap_path, capability_sha256 |-> t.caps[n.cap_path],
                 primary_asset_id |-> d.primary_asset,
                 primary_asset_sha256 |-> t.sources[n.source_path]],
     distribution_qualification |-> [status |-> "unassessed",
                                     suite_id |-> n.export.qualification_suite_id],
     package |-> [name |-> n.export.package_name, content_sha256 |-> generated]]

\* The order in which the files of a package reach the disk.
WriteOrder(generated, manifest) ==
    LET resources == SetToSeq(DOMAIN generated \ {SkillFile}) IN
    <<[name |-> SkillFile, data |-> generated[SkillFile]]>>
      \o [i \in DOMAIN resources |-> [name |-> resources[i], data |-> generated[resources[i]]]]
      \o <<[name |-> ManifestFile, data |-> manifest]>>

-----------------------------------------------------------------------------
(* The lock.                                                               *)

\* The first export of a capability fixes its row; every export adds itself.
WithRow(t, rows, n, files) ==
    LET d == n.doc
        row == [version |-> d.version, lifecycle |-> d.lifecycle, evaluation |-> d.evaluation,
                capability_path |-> n.cap_path, capability_sha256 |-> t.caps[n.cap_path],
                primary_asset |-> [id |-> d.primary_asset, sha256 |-> t.sources[n.source_path]],
                exports |-> {}]
        locked == IF d.id \in DOMAIN rows THEN rows[d.id] ELSE row
        export == [target |-> n.export.target, adapter_version |-> n.export.adapter_version,
                   path |-> n.export.output_path, package_sha256 |-> files]
    IN  With(rows, d.id, [locked EXCEPT !.exports = @ \cup {export}])

Lock(t, rows) == [plan_sha256 |-> t.plan, capabilities |-> rows]

-----------------------------------------------------------------------------
(* verify: a dry build of an undisturbed tree, compared with the disk.     *)

\* The files of an export's package when nothing changes during the build.
Package(t, e) ==
    LET n == Normalize(t, e)
        generated == Rendered(t, n)
    IN  With(generated, ManifestFile, Manifest(t, n, generated, AlwaysLoadedSizes(t, n.doc)))

\* What one export adds to the dry build; a later export at a path replaces the
\* package there.
DryStep(t, dry, e) ==
    LET package == Package(t, e) IN
    [disk |-> With(dry.disk, e.output_path, package),
     rows |-> WithRow(t, dry.rows, Normalize(t, e), package)]

\* build_outputs into an empty directory.
NothingBuilt == [disk |-> <<>>, rows |-> <<>>]
Dry(t) == FoldLeft(LAMBDA dry, e : DryStep(t, dry, e), NothingBuilt, t.plan.exports)

DryBuild(t) == Dry(t).disk
DryLock(t) == Lock(t, Dry(t).rows)

Buildable(t) ==
    /\ PlanAccepted(t)
    /\ \A e \in Range(t.plan.exports) :
          e.target = "agent-skills" /\ Packageable(t, Normalize(t, e).doc)

\* A directory that does not exist has no files.
FilesAt(disk, path) == IF path \in DOMAIN disk THEN disk[path] ELSE <<>>

\* compare_trees, for the exports of the plan only.
TreesMatch(t, disk) ==
    \A e \in Range(t.plan.exports) :
        FilesAt(disk, e.output_path) = DryBuild(t)[e.output_path]

\* MUTANT of BindingHolds: presence is enough.
BindingPresent(t, disk, b) == ManifestFile \in DOMAIN FilesAt(disk, b.distribution_path)

\* _verify_qualification_bindings looks at every receipt, whatever the plan: the
\* manifest's bytes, the content digest the manifest claims, and the capability.
BindingHolds(t, disk, b) ==
    LET files == FilesAt(disk, b.distribution_path) IN
    /\ ManifestFile \in DOMAIN files
    /\ b.manifest_sha256 = files[ManifestFile]
    /\ b.package_content_sha256 = files[ManifestFile].package.content_sha256
    /\ LET p == files[ManifestFile].source.capability_path IN
       p \in DOMAIN t.caps => b.capability_sha256 = t.caps[p]

Verifies(t, disk, lock, bindings) ==
    /\ Buildable(t)
    /\ TreesMatch(t, disk)
    /\ lock = DryLock(t)
    /\ \A b \in bindings : BindingHolds(t, disk, b)
=============================================================================
