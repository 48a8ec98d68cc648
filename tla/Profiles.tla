------------------------------ MODULE Profiles ------------------------------
(***************************************************************************)
(* The contract delegate-to-claude derives from the arguments of `run':    *)
(* the capability profile (profiles.py), the native-sandbox policy built   *)
(* for it (runtime_policy.py) and the refusals of command_run that only    *)
(* read arguments, the installed CLI and existing files.                   *)
(*                                                                         *)
(* Tools are names; the tools of the pinned read-only MCP registry are     *)
(* represented by two of them, the tools denied to everybody by three, and *)
(* a permission rule such as Bash(pytest -q) by its own name and its base. *)
(***************************************************************************)
EXTENDS Naturals, Sequences, FiniteSets

CONSTANT None   \* an absent argument

PinnedTools == {"mcp__memory__search", "mcp__memory__trace"}

GloballyDenied == {"WebFetch", "Agent", "mcp__memory__delete"}

McpTools == PinnedTools \union {"mcp__memory__delete", "mcp__other__query"}

\* required_servers: the namespace an MCP tool belongs to.
ServerOf(t) == IF t = "mcp__other__query" THEN "other" ELSE "memory"

Rules == {"Bash(test)", "Write(x)"}

RuleBase(rule) == IF rule = "Bash(test)" THEN "Bash" ELSE "Write"

\* "bad" stands for a command with shell composition, a wildcard, or nothing in it.
Commands == {"test", "bad"}

CommandRule(c) == "Bash(test)"

-----------------------------------------------------------------------------
ReadTools == {"Read", "Grep", "Glob", "Skill"}

WriteTools == {"Write", "Edit", "NotebookEdit"}

Profiles == {"strict-readonly", "verified-review", "artifact-review",
             "implementation", "implementation-auto"}

Names == Profiles \union {"readonly-review"}

Canonical(name) == IF name = "readonly-review" THEN "strict-readonly" ELSE name

StrictReadonly ==
  [ permission |-> "dontAsk", tools |-> ReadTools,
    denied |-> {"Bash"} \union WriteTools, commands |-> FALSE,
    nativeSandbox |-> FALSE, scratchCwd |-> FALSE, artifact |-> FALSE,
    owned |-> FALSE, autoMode |-> FALSE ]

\* Bug: the review worker runs in the project itself.
VerifiedReviewInProject ==
  [ permission |-> "dontAsk", tools |-> ReadTools \union {"Bash"},
    denied |-> WriteTools, commands |-> TRUE,
    nativeSandbox |-> TRUE, scratchCwd |-> FALSE, artifact |-> FALSE,
    owned |-> FALSE, autoMode |-> FALSE ]

\* `commands' is both requires_command and allows_command: they agree in every row.
VerifiedReview ==
  [ permission |-> "dontAsk", tools |-> ReadTools \union {"Bash"},
    denied |-> WriteTools, commands |-> TRUE,
    nativeSandbox |-> TRUE, scratchCwd |-> TRUE, artifact |-> FALSE,
    owned |-> FALSE, autoMode |-> FALSE ]

Implementation ==
  [ permission |-> "acceptEdits", tools |-> ReadTools \union {"Bash", "Write", "Edit"},
    denied |-> {}, commands |-> FALSE,
    nativeSandbox |-> TRUE, scratchCwd |-> FALSE, artifact |-> FALSE,
    owned |-> TRUE, autoMode |-> FALSE ]

Definition(p) ==
  CASE p = "strict-readonly"     -> StrictReadonly
    [] p = "verified-review"     -> VerifiedReview
    [] p = "artifact-review"     -> [VerifiedReview EXCEPT !.artifact = TRUE]
    [] p = "implementation"      -> Implementation
    [] p = "implementation-auto" ->
         [Implementation EXCEPT !.permission = "auto", !.autoMode = TRUE]

-----------------------------------------------------------------------------
(* A request q is what the command line says; q.profile = None is the       *)
(* custom mode, where the caller supplies the permission mode and the tools.*)

DefinitionOf(q) == Definition(Canonical(q.profile))

\* What resolve_profile denies before it looks at the allowed tools.
DeniedFirst(q) == GloballyDenied \union DefinitionOf(q).denied \union q.disallowed

\* The refusals of resolve_profile.
Resolves(q) ==
  /\ q.profile \in Names
  /\ q.permission \in {None, DefinitionOf(q).permission}
  /\ q.tools \subseteq DefinitionOf(q).tools
  /\ q.allowed \intersect DeniedFirst(q) = {}
  /\ q.allowed \intersect McpTools \subseteq PinnedTools
  /\ (q.commands # {}) = DefinitionOf(q).commands
  /\ "bad" \notin q.commands

\* Bug: the rule alone brings its tool back.
ExpectedToolsOfRules(tools, allowed) ==
  tools \union {IF t \in Rules THEN RuleBase(t) ELSE t : t \in allowed}

\* expected_startup_tools: a rule such as Bash(x) stands for its base tool, which
\* must have been requested and so is there already.
ExpectedTools(tools, allowed) == tools \union (allowed \ Rules)

Resolved(q) ==
  IF q.profile = None
  THEN [ permission |-> q.permission, tools |-> q.tools, allowed |-> q.allowed,
         denied |-> q.disallowed, expected |-> ExpectedTools(q.tools, q.allowed) ]
  ELSE LET tools == IF q.tools = {} THEN DefinitionOf(q).tools ELSE q.tools
           allowed == q.allowed \union {CommandRule(c) : c \in q.commands}
       IN [ permission |-> DefinitionOf(q).permission, tools |-> tools,
            allowed |-> allowed,
            denied |-> DeniedFirst(q) \union (PinnedTools \ q.allowed),
            expected |-> ExpectedTools(tools, allowed) ]

\* Bug: a manifest that was never seen counts as an empty one.
ClassifyUnseen(expected, denied, observed) ==
  IF observed = None THEN "narrower"
  ELSE IF ~(observed \subseteq expected \union denied) THEN "broader"
  ELSE IF expected \subseteq observed THEN "match" ELSE "narrower"

ClassifyManifest(expected, denied, observed) ==
  IF observed = None THEN "unknown"
  ELSE IF ~(observed \subseteq expected \union denied) THEN "broader"
  ELSE IF expected \subseteq observed THEN "match" ELSE "narrower"

StrictManifestProfiles == {"strict-readonly", "verified-review", "artifact-review"}

-----------------------------------------------------------------------------
(* The runtime policy.                                                     *)

\* Bug: a review profile without a row of its own falls back to no sandbox.
PolicyModeWithoutArtifact(q) ==
  IF q.profile = None THEN "custom"
  ELSE CASE Canonical(q.profile) = "strict-readonly" -> "strict"
         [] Canonical(q.profile) = "verified-review" -> "verified"
         [] Canonical(q.profile) = "artifact-review" -> "strict"
         [] OTHER -> "implementation"

PolicyMode(q) ==
  IF q.profile = None THEN "custom"
  ELSE CASE Canonical(q.profile) = "strict-readonly" -> "strict"
         [] Canonical(q.profile) = "verified-review" -> "verified"
         [] Canonical(q.profile) = "artifact-review" -> "artifact"
         [] OTHER -> "implementation"

SandboxModes == {"verified", "artifact", "implementation"}

RequiresSandbox(q) == PolicyMode(q) \in SandboxModes

\* q.cli: the capabilities the installed CLI shows.  "sandbox" stands for the
\* three flags --settings, --mcp-config and --strict-mcp-config together.
MissingCapabilities(q) == DefinitionOf(q).nativeSandbox /\ "sandbox" \notin q.cli

RequiredServers(q) == {ServerOf(t) : t \in q.allowed \intersect McpTools}

\* _validate_mcp_configs over the declared files: each a record of the servers
\* it names, whether it parses, and whether its servers are local, without
\* arguments or environment, with an executable that can be hashed.
McpConfigsValid(q) ==
  /\ \A i \in 1 .. Len(q.mcp) : q.mcp[i].parses /\ q.mcp[i].admitted
  /\ \A i, j \in 1 .. Len(q.mcp) : i # j => q.mcp[i].servers \intersect q.mcp[j].servers = {}
  /\ UNION {q.mcp[i].servers : i \in 1 .. Len(q.mcp)} = RequiredServers(q)

\* build_runtime_policy refuses only what a profiled run declares.
PolicyBuilds(q) == q.profile # None => McpConfigsValid(q)

\* The settings of the worker: writable beyond its directory is the scratch root.
Settings(q, scratch) ==
  [ defaultMode |-> Resolved(q).permission,
    allow |-> Resolved(q).allowed,
    deny |-> Resolved(q).denied,
    sandbox |-> RequiresSandbox(q),
    allowWrite |-> IF RequiresSandbox(q) /\ scratch # None THEN {scratch} ELSE {},
    denyGit |-> RequiresSandbox(q) /\ q.profile # None,
    ownSourcesOnly |-> "setting-sources" \in q.cli /\ q.profile # None /\ DefinitionOf(q).nativeSandbox ]

-----------------------------------------------------------------------------
(* The refusals of command_run up to the creation of the run directory.    *)
(* All of them return 2 and change nothing, so their order does not matter.*)

AuthorityAgrees(q) ==
  IF q.profile = None
  THEN ~q.owned /\ ~q.artifact /\ q.scratch = None /\ q.permission # None /\ q.commands = {}
  ELSE q.artifact = DefinitionOf(q).artifact /\ q.owned = DefinitionOf(q).owned

CapabilitiesShown(q) ==
  q.profile # None =>
    /\ ~MissingCapabilities(q)
    /\ DefinitionOf(q).autoMode => "auto-mode" \in q.cli

McpDeclared(q) ==
  /\ \A i \in 1 .. Len(q.mcp) : q.mcp[i].exists
  /\ q.mcp = << >> => Resolved(q).allowed \intersect McpTools = {}

\* q.paths: the working directory exists, the owned paths are paths of a
\* repository, and the artifact's place is free and not behind a link.
ArgumentsAccepted(q) ==
  /\ q.profile # None => Resolves(q)
  /\ AuthorityAgrees(q)
  /\ CapabilitiesShown(q)
  /\ McpDeclared(q)
  /\ q.paths
=============================================================================
