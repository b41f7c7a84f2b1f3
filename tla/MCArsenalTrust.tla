---------------------------- MODULE MCArsenalTrust ----------------------------
(***************************************************************************)
(* Packages of each kind: plain skills with known, mutating and unknown    *)
(* tools, a skill with a script, and packages compiled from the target,    *)
(* from another capability or from one that is gone; a capability that     *)
(* narrows what it allows; a policy that escalates and one that prohibits  *)
(* writing; reviews that are right, too wide, too narrow or unconfirmed.   *)
(***************************************************************************)
EXTENDS ArsenalTrust, TLC

MCAuthority == {"filesystem.read", "filesystem.write", "shell.execute", "git.read",
                "git.write", "network.read", "network.write"}

Plain(data) == [data |-> data, executable |-> FALSE]
Cap(required, optional, forbidden) ==
    [required |-> required, optional |-> optional, forbidden |-> forbidden]

Wide == Cap({"filesystem.read"}, {"filesystem.write", "shell.execute", "git.read"}, {"git.write"})
Narrow == Cap({"filesystem.read"}, {"shell.execute", "git.read"}, {"filesystem.write"})
MCCapabilities == {Wide, Narrow}

MCAssets == {"workflow", "edited"}

\* Another capability of the repository, and the asset of it.
MCNeighbours == "other.json" :> Narrow @@ "other.md" :> "workflow"

From(capability_path, cap, asset_path) ==
    [capability |-> [path |-> capability_path, sha256 |-> cap],
     primary_asset |-> [path |-> asset_path, sha256 |-> "workflow"]]
Own == From(TargetFile, Wide, AssetFile)
Borrowed == From("other.json", Narrow, "other.md")
Gone == From("gone.json", Wide, AssetFile)

Compiled(authority, origin) ==
    LET files == [path \in {Skill} |-> {"Read"}] IN
    [files |-> files, content_sha256 |-> files, authority |-> authority,
     capability |-> origin.capability, primary_asset |-> origin.primary_asset]

MCPackages ==
    { <<>>,
      Skill :> Plain({"Read"}),
      Skill :> Plain({"Read", "Edit", "Task"}),
      Skill :> Plain({"Read", "WebFetch"}),
      (Skill :> Plain({"Read", "Bash(git status)"})) @@
          ("scripts/run" :> [data |-> {"run"}, executable |-> TRUE]),
      (Skill :> Plain({"Read"})) @@ (ManifestPath :> Plain(Compiled({"filesystem.read", "filesystem.write"}, Own))),
      (Skill :> Plain({"Read"})) @@ (ManifestPath :> Plain(Compiled({"filesystem.read", "filesystem.write"}, Borrowed))),
      (Skill :> Plain({"Read"})) @@ (ManifestPath :> Plain(Compiled({"filesystem.read"}, Gone))),
      (Skill :> Plain({"Read", "Edit"})) @@ (ManifestPath :> Plain(Compiled({"filesystem.read"}, Own))) }

Policy(auto, escalation, prohibited) ==
    [auto_approval |-> auto, baseline |-> {"filesystem.read", "git.read", "shell.execute"},
     escalation |-> escalation, prohibited |-> prohibited,
     challenge |-> escalation \cap {"filesystem.write"}]
MCPolicies ==
    { Policy(FALSE, {"filesystem.write", "git.write"}, {"network.write"}),
      Policy(FALSE, {"git.write"}, {"network.write", "filesystem.write"}),
      Policy(TRUE, {}, {}),
      Policy(FALSE, {"git.read"}, {}) }

Review(requested, approved, confirmed, tools, paths) ==
    [requested |-> requested, approved |-> approved, disposition |-> "approve",
     acknowledged_unmapped_tools |-> tools, reviewed_executable_paths |-> paths,
     confirmed |-> confirmed]
ReadOnly == {"filesystem.read"}
Writing == {"filesystem.read", "filesystem.write"}
MCReviews ==
    { Review(ReadOnly, ReadOnly, FALSE, {}, {}),
      Review(Writing, Writing, FALSE, {"Task"}, {}),
      Review(Writing, Writing, TRUE, {"Task"}, {}),
      Review(Writing, ReadOnly, TRUE, {}, {}),
      Review(ReadOnly, Writing, TRUE, {}, {}),
      Review(ReadOnly \cup {"made.up"}, ReadOnly, FALSE, {}, {}),
      Review({"filesystem.read", "shell.execute", "git.read"}, ReadOnly, FALSE, {}, {"scripts/run"}),
      [Review(ReadOnly, ReadOnly, FALSE, {}, {}) EXCEPT !.disposition = "reject"] }

MCSources == { [kind |-> "git", pinned |-> FALSE], [kind |-> "git", pinned |-> TRUE],
               [kind |-> "arsenal-compiled", pinned |-> TRUE],
               [kind |-> "local-directory", pinned |-> FALSE] }
=============================================================================
