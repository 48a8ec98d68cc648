----------------------------- MODULE PolicyDiff -----------------------------
(***************************************************************************)
(* scripts/delegation_policy: what normalize_policy (schema.py) derives    *)
(* from a policy, and how compare_policies (diff.py) classifies the step   *)
(* from one policy to another.  The comparison is pure; the behaviours are *)
(* those of somebody revising a policy one field at a time, and every pair *)
(* met on the way is compared and held against Powers, which says, field   *)
(* by field and without looking at the comparison, what a policy lets a    *)
(* worker do.                                                              *)
(*                                                                         *)
(* git stands for the three capability sections (installation and          *)
(* descendants are read alike), limit for the six resources, writing for   *)
(* the two file operations.  A command template is its id and one of       *)
(* Definitions, the content its hash identifies; activation is whether the *)
(* document states that the runtime's is unavailable.                      *)
(***************************************************************************)
EXTENDS Integers, FiniteSets

CONSTANTS Roots, Tools, McpServers, McpNames, Commands, Destinations, HostGrants, Paths,
          OtherId,          \* rule_id of a path's deny rule that is no root's name
          Definitions,      \* contents a command template can have
          OutsideDefs,      \* those whose sandbox field is "outside"
          NoTemplate, NoPath,
          MaxLimit,         \* largest bounded resource value
          MaxEdits          \* bound: edits of one policy

\* There is something of each kind for a policy to select.
ASSUME PolicyAssumption ==
  /\ OutsideDefs \subseteq Definitions
  /\ {} \notin {McpServers, McpNames, Commands, Destinations, HostGrants, Paths, OutsideDefs}
  /\ NoTemplate \notin Definitions /\ NoPath \notin Paths /\ OtherId \notin Roots
  /\ MaxLimit \in Nat /\ MaxEdits \in Nat \ {0}

VARIABLES before, after, edits
vars == <<before, after, edits>>

Unbounded == MaxLimit + 1
Unavailable == 0

\* A tool's name begins with that of its server: mcp__server__name.
McpTools == McpServers \X McpNames

\* The values each field of a policy document can take.
Values ==
  [ default_write |-> {"deny", "allow"},
    roots |-> [Roots -> {"undeclared", "unbound", "bound"}],
    rules |-> SUBSET ({"allow", "hard-deny"} \X Roots),
    denied_paths |-> [Roots \cup {OtherId} -> Paths \cup {NoPath}],
    builtins |-> SUBSET Tools, tools_deny |-> SUBSET Tools,
    mcp_mode |-> {"deny", "readonly", "selected", "unrestricted", "unavailable"},
    servers |-> SUBSET McpServers, selected_tools |-> SUBSET McpTools,
    commands_mode |-> {"deny", "selected", "unrestricted", "unavailable"},
    templates |-> [Commands -> Definitions \cup {NoTemplate}],
    subprocess |-> {"deny", "allowlist", "unrestricted"},
    mcp_open_world |-> {"deny", "allowlist", "unrestricted"},
    allowed_destinations |-> SUBSET Destinations,
    host_mode |-> {"deny", "selected", "unrestricted", "unavailable"},
    host_grants |-> SUBSET HostGrants,
    git |-> {"deny", "allow", "unavailable"},
    output_mode |-> {"manager", "worker", "unavailable"},
    output_roots |-> SUBSET Roots,
    sandbox_mode |-> {"required", "preferred", "off"},
    unavailable |-> {"fail", "warn-and-run", "run"},
    unsandboxed_commands |-> SUBSET Commands,
    limit |-> Unavailable..Unbounded,
    activation |-> {"available", "unavailable"},
    authority_expansion |-> {"ask", "never"},
    unsandboxed_command |-> {"ask", "never"} ]

Declared(p) == {r \in Roots : p.roots[r] # "undeclared"}
DeniedIds(p) == {i \in Roots \cup {OtherId} : p.denied_paths[i] # NoPath}
Templates(p) == {c \in Commands : p.templates[c] # NoTemplate}

\* What normalize_policy refuses.
Valid(p) ==
  /\ \A rule \in p.rules : rule[2] \in Declared(p)
  /\ p.output_roots \subseteq Declared(p)
  /\ p.mcp_mode = "selected"
       => p.selected_tools # {} /\ \A t \in p.selected_tools : t[1] \in p.servers
  /\ p.commands_mode = "selected" => Templates(p) # {}
  /\ p.host_mode = "selected" => p.host_grants # {}
  /\ \A c \in p.unsandboxed_commands : p.templates[c] \in OutsideDefs

\* An allowlist without destinations denies.
ClosedWhenEmpty(mode, destinations) ==
  IF mode = "allowlist" /\ destinations = {} THEN "deny" ELSE mode
Normalised(p) ==
  [p EXCEPT !.subprocess = ClosedWhenEmpty(@, p.allowed_destinations),
            !.mcp_open_world = ClosedWhenEmpty(@, p.allowed_destinations)]

-----------------------------------------------------------------------------
(* The atoms.  The first component names the section an atom belongs to.   *)

FileGrants(p) ==
  {<<"filesystem", "write", rule[2]>> : rule \in {x \in p.rules : x[1] = "allow"}}
    \cup (IF p.default_write = "allow" THEN {<<"filesystem", "default">>} ELSE {})

McpGrants(p) ==
  CASE p.mcp_mode = "selected" -> {<<"mcp", "tool", t>> : t \in p.selected_tools}
    [] p.mcp_mode \in {"readonly", "unrestricted"} -> {<<"mcp", p.mcp_mode>>}
    [] OTHER -> {}

CommandGrants(p) ==
  CASE p.commands_mode = "selected" -> {<<"commands", c, p.templates[c]>> : c \in Templates(p)}
    [] p.commands_mode = "unrestricted" -> {<<"commands", "unrestricted">>}
    [] OTHER -> {}

NetworkGrants(p, section, mode) ==
  CASE mode = "unrestricted" -> {<<section, "unrestricted">>}
    [] mode = "allowlist" -> {<<section, "destination", d>> : d \in p.allowed_destinations}
    [] OTHER -> {}

HostEffectGrants(p) ==
  CASE p.host_mode = "selected" -> {<<"host_effects", "grant", g>> : g \in p.host_grants}
    [] p.host_mode = "unrestricted" -> {<<"host_effects", "unrestricted">>}
    [] OTHER -> {}

OutputGrants(p) ==
  IF p.output_mode # "worker" THEN {}
  ELSE {<<"output", "worker">>} \cup {<<"output", "root", r>> : r \in p.output_roots}

Grants(p) ==
  FileGrants(p) \cup {<<"tools", "builtin", t>> : t \in p.builtins}
    \cup McpGrants(p) \cup CommandGrants(p)
    \cup NetworkGrants(p, "subprocess", p.subprocess)
    \cup NetworkGrants(p, "mcp_open_world", p.mcp_open_world)
    \cup HostEffectGrants(p) \cup OutputGrants(p)
    \cup (IF p.git = "allow" THEN {<<"git", "allow">>} ELSE {})

\* The rule against a root is called by the root's name, that against a path by
\* its rule_id, and both by the same prefix: one atom if the names are the same.
Denies(p) ==
  {<<"filesystem", "deny", rule[2]>> : rule \in {x \in p.rules : x[1] = "hard-deny"}}
    \cup {<<"filesystem", "deny", i>> : i \in DeniedIds(p)}
    \cup {<<"tools", "deny", t>> : t \in p.tools_deny}

Unresolved(p) ==
  {d \in {"activation", "mcp_mode", "commands_mode", "host_mode", "git", "output_mode"} :
     p[d] = "unavailable"}
    \cup (IF p.mcp_mode = "readonly" THEN {"mcp.registry"} ELSE {})

\* What authority_sha256 identifies: of a path's rule its id, the path is private.
Authority(p) ==
  [f \in DOMAIN p \ {"activation", "authority_expansion", "unsandboxed_command"}
     |-> IF f = "denied_paths" THEN DeniedIds(p) ELSE p[f]]
AuthorityChanged(b, a) == Authority(b) # Authority(a)

-----------------------------------------------------------------------------
(* The comparison.                                                         *)

Delta(up, down, open) == [broader |-> up, narrower |-> down, unresolved |-> open]
Nothing == Delta({}, {}, {})
Join(deltas) == Delta(UNION {d.broader : d \in deltas}, UNION {d.narrower : d \in deltas},
                      UNION {d.unresolved : d \in deltas})
\* One atom, on the side the ladder says.
Climb(ladder, from, to, atom) ==
  IF ladder[to] > ladder[from] THEN Delta({atom}, {}, {}) ELSE Delta({}, {atom}, {})

SandboxOrder == [required |-> 0, preferred |-> 1, off |-> 2]
FallbackOrder == [f \in Values.unavailable |->
                    CASE f = "fail" -> 0 [] f = "warn-and-run" -> 1 [] f = "run" -> 2]
\* Bug: a selection as high on the ladder as no restriction at all.
ActivatableOrderFlat == [deny |-> 0, selected |-> 2, allowlist |-> 1, unrestricted |-> 2]
ActivatableOrder == [deny |-> 0, selected |-> 1, allowlist |-> 1, unrestricted |-> 2]

AtomsDiff(b, a) ==
  Delta((Grants(a) \ Grants(b)) \cup (Denies(b) \ Denies(a)),
        (Grants(b) \ Grants(a)) \cup (Denies(a) \ Denies(b)), {})

SandboxDiff(b, a) ==
  Join({IF a.sandbox_mode = b.sandbox_mode THEN Nothing
        ELSE Climb(SandboxOrder, b.sandbox_mode, a.sandbox_mode, <<"sandbox", "mode">>),
        IF a.unavailable = b.unavailable THEN Nothing
        ELSE Climb(FallbackOrder, b.unavailable, a.unavailable, <<"sandbox", "unavailable">>),
        Delta({<<"sandbox", "unsandboxed", c>> :
                 c \in a.unsandboxed_commands \ b.unsandboxed_commands},
              {<<"sandbox", "unsandboxed", c>> :
                 c \in b.unsandboxed_commands \ a.unsandboxed_commands}, {})})

ResourcesDiff(b, a) ==
  CASE a.limit = b.limit -> Nothing
    [] a.limit # b.limit /\ Unavailable \in {a.limit, b.limit} -> Delta({}, {}, {"limit"})
    [] OTHER -> Climb([l \in Values.limit |-> l], b.limit, a.limit, <<"resources", "limit">>)

\* The mode of each section that has a ladder, by the name its atoms carry.
Modes(p) == [commands |-> p.commands_mode, subprocess |-> p.subprocess,
             mcp_open_world |-> p.mcp_open_world, host_effects |-> p.host_mode]
Jumped(b, a) == {s \in DOMAIN Modes(b) : Modes(b)[s] # Modes(a)[s]}

\* A section whose mode changed is classified by its ladder, not by its atoms.
ModeOrderedDiff(b, a, section) ==
  IF "unavailable" \in {Modes(b)[section], Modes(a)[section]} THEN Delta({}, {}, {section})
  ELSE Climb(ActivatableOrder, Modes(b)[section], Modes(a)[section], <<section, "mode">>)

WithoutJumped(delta, jumped) ==
  Delta({x \in delta.broader : x[1] \notin jumped},
        {x \in delta.narrower : x[1] \notin jumped}, delta.unresolved)

\* Bug: a deny rule moved to another path changes no atom.
RebindingDiffIgnored(b, a) == Nothing

\* A path's rule that now names another path.
RebindingDiff(b, a) ==
  Delta({}, {}, IF \E i \in DeniedIds(b) \cap DeniedIds(a) : b.denied_paths[i] # a.denied_paths[i]
                THEN {"binding"} ELSE {})
ClassifyKnown(broader, narrower) ==
  CASE broader = {} /\ narrower = {} -> "exact"
    [] broader # {} /\ narrower = {} -> "broader"
    [] broader = {} /\ narrower # {} -> "narrower"
    [] OTHER -> "mixed"

\* Bug: one question for everything.
RequiresConfirmationOnce(category, triggered, kind, unsandboxedAdded, a) ==
  /\ category = "authority_change"
  /\ triggered /\ kind \in {"broader", "mixed", "unknown"}
  /\ a.authority_expansion = "ask"

RequiresConfirmation(category, triggered, kind, unsandboxedAdded, a) ==
  \/ /\ category = "authority_change"
     /\ triggered /\ kind \in {"broader", "mixed", "unknown"}
     /\ a.authority_expansion = "ask"
  \/ /\ category = "sandbox_change"
     /\ triggered /\ unsandboxedAdded
     /\ a.unsandboxed_command = "ask"

\* What the sections found, together.
Difference(b, a) ==
  Join({WithoutJumped(AtomsDiff(b, a), Jumped(b, a)), SandboxDiff(b, a),
        ResourcesDiff(b, a), RebindingDiff(b, a)}
         \cup {ModeOrderedDiff(b, a, section) : section \in Jumped(b, a)})

\* The report of compare_policies, as far as somebody acts on it.
Compare(b, a) ==
  LET delta == Difference(b, a)
      known == ClassifyKnown(delta.broader, delta.narrower)
      rehashed == AuthorityChanged(b, a)
      hidden == known = "exact" /\ rehashed
      unresolved == Unresolved(b) \cup Unresolved(a) \cup delta.unresolved
                      \cup (IF a.roots # b.roots THEN {"filesystem.roots"} ELSE {})
                      \cup (IF hidden THEN {"authority.projection"} ELSE {})
      kind == IF unresolved # {} THEN "unknown" ELSE known
      sandboxFields == {"sandbox_mode", "unavailable", "unsandboxed_commands"}
      triggered ==
        [ authority_change |-> \/ known # "exact" \/ rehashed
                               \/ unresolved \ {"activation"} # {},
          sandbox_change |-> \E f \in sandboxFields : b[f] # a[f] ]
      added == a.unsandboxed_commands \ b.unsandboxed_commands # {}
  IN [ kind |-> kind, known |-> known, unresolved |-> unresolved,
       confirmations |->
         {c \in DOMAIN triggered : RequiresConfirmation(c, triggered[c], kind, added, a)} ]

-----------------------------------------------------------------------------
(* Policies to start from, and the revisions of the one in force.          *)

\* The document nobody wrote anything into.
Default ==
  [ default_write |-> "deny", roots |-> [r \in Roots |-> "undeclared"], rules |-> {},
    denied_paths |-> [i \in Roots \cup {OtherId} |-> NoPath],
    builtins |-> {}, tools_deny |-> {}, mcp_mode |-> "deny", servers |-> {},
    selected_tools |-> {}, commands_mode |-> "deny",
    templates |-> [c \in Commands |-> NoTemplate], subprocess |-> "deny",
    mcp_open_world |-> "deny", allowed_destinations |-> {}, host_mode |-> "deny",
    host_grants |-> {}, git |-> "deny", output_mode |-> "manager", output_roots |-> {},
    sandbox_mode |-> "off", unavailable |-> "fail", unsandboxed_commands |-> {},
    limit |-> Unavailable, activation |-> "unavailable",
    authority_expansion |-> "ask", unsandboxed_command |-> "ask" ]

Closed == [Default EXCEPT !.activation = "available"]

Selected ==
  [ Closed EXCEPT
    !.roots = [r \in Roots |-> "bound"], !.rules = {"allow"} \X Roots,
    !.denied_paths[OtherId] = CHOOSE q \in Paths : TRUE, !.builtins = Tools,
    !.mcp_mode = "selected", !.servers = McpServers, !.selected_tools = McpTools,
    !.commands_mode = "selected",
    !.templates = [c \in Commands |-> CHOOSE d \in OutsideDefs : TRUE],
    !.subprocess = "allowlist", !.mcp_open_world = "allowlist",
    !.allowed_destinations = {CHOOSE d \in Destinations : TRUE},
    !.host_mode = "selected", !.host_grants = HostGrants,
    !.output_mode = "worker", !.output_roots = Roots,
    !.sandbox_mode = "preferred", !.unavailable = "warn-and-run", !.limit = 1 ]

Open ==
  [ Selected EXCEPT
    !.default_write = "allow", !.denied_paths[OtherId] = NoPath, !.mcp_mode = "unrestricted",
    !.commands_mode = "unrestricted", !.subprocess = "unrestricted",
    !.mcp_open_world = "unrestricted", !.host_mode = "unrestricted", !.git = "allow",
    !.unsandboxed_commands = Commands, !.unavailable = "run", !.limit = Unbounded ]

\* A preset of delegate-to-claude: nothing it names is activated yet.
Preset(roots, sandbox) ==
  [ Default EXCEPT
    !.roots = [r \in Roots |-> IF r \in roots THEN "unbound" ELSE "undeclared"],
    !.rules = {"allow"} \X roots,
    !.mcp_mode = "unavailable", !.commands_mode = "unavailable",
    !.sandbox_mode = sandbox, !.limit = 1 ]

\* strict-readonly; and the profiles that write, in scratch and owned roots.
Presets == {Preset({}, "off"), Preset(Roots, "required")}

\* A policy of one's own, or `explain --profile --compare-profile' of two presets,
\* which is an edit already.
Init ==
  \/ before \in {Closed, Selected, Open} /\ after = before /\ edits = 0
  \/ before \in Presets /\ after \in Presets \ {before} /\ edits = 1

\* `explain --write-root': a new name and the rule that opens it.
WithWriteRoot(p, r) == [p EXCEPT !.roots[r] = "bound", !.rules = @ \cup {<<"allow", r>>}]

\* `explain --output-dir': the root is bound again if it is there already.
WithOutputDir(p, r) == [p EXCEPT !.roots[r] = "bound", !.output_roots = @ \cup {r}]

Revise ==
  /\ edits < MaxEdits
  /\ edits' = edits + 1
  /\ \E f \in DOMAIN Values : \E v \in Values[f] :
       LET p == Normalised([after EXCEPT ![f] = v]) IN
         /\ p # after /\ Valid(p)
         /\ after' = p
  /\ UNCHANGED before

Explain ==
  /\ edits < MaxEdits
  /\ edits' = edits + 1
  /\ \E r \in Roots :
       \/ after.roots[r] = "undeclared" /\ after' = WithWriteRoot(after, r)
       \/ after' = WithOutputDir(after, r) /\ after' # after
  /\ UNCHANGED before

\* The worker is resumed under the revised policy, which the next is compared with.
Resume ==
  /\ after # before
  /\ before' = after
  /\ UNCHANGED <<after, edits>>

Next == Revise \/ Explain \/ Resume
Spec == Init /\ [][Next]_vars

-----------------------------------------------------------------------------
(* What a policy lets the worker do.  Where any command may run, a command *)
(* is what its definition says only if it may run outside the sandbox.     *)

FilePowers(p) ==
  {<<"write", r>> : r \in {x \in Roots : /\ <<"allow", x>> \in p.rules \/ p.default_write = "allow"
                                         /\ <<"hard-deny", x>> \notin p.rules}}
    \cup {<<"path", q>> : q \in Paths \ {p.denied_paths[i] : i \in DeniedIds(p)}}

McpPowers(p) ==
  {<<"mcp", t>> : t \in {x \in McpTools : \/ p.mcp_mode = "unrestricted" /\ x[1] \in p.servers
                                          \/ p.mcp_mode = "selected" /\ x \in p.selected_tools}}

CommandPowers(p) ==
  {<<"run", x>> : x \in {y \in Commands \X Definitions :
                           \/ p.commands_mode = "unrestricted"
                           \/ p.commands_mode = "selected" /\ p.templates[y[1]] = y[2]}}

NetworkPowers(p) ==
  {<<x[1], x[2]>> : x \in {y \in {"subprocess", "mcp_open_world"} \X Destinations :
                             \/ p[y[1]] = "unrestricted"
                             \/ p[y[1]] = "allowlist" /\ y[2] \in p.allowed_destinations}}

HostPowers(p) ==
  {<<"host", g>> : g \in {x \in HostGrants : \/ p.host_mode = "unrestricted"
                                             \/ p.host_mode = "selected" /\ x \in p.host_grants}}

\* How far the sandbox gives way, by degrees.
SandboxPowers(p) ==
  {<<"without sandbox", m>> : m \in {x \in Values.sandbox_mode :
                                       SandboxOrder[x] <= SandboxOrder[p.sandbox_mode]}}
    \cup {<<"fallback", m>> : m \in {x \in Values.unavailable :
                                       FallbackOrder[x] <= FallbackOrder[p.unavailable]}}
    \cup {<<"unsandboxed", c, p.templates[c]>> :
            c \in {x \in p.unsandboxed_commands : p.commands_mode \in {"selected", "unrestricted"}}}

Powers(p) ==
  FilePowers(p) \cup {<<"tool", t>> : t \in p.builtins \ p.tools_deny}
    \cup McpPowers(p) \cup CommandPowers(p) \cup NetworkPowers(p) \cup HostPowers(p)
    \cup (IF p.git = "allow" THEN {<<"git", "mutation">>} ELSE {})
    \cup (IF p.output_mode = "worker" THEN {<<"output", r>> : r \in p.output_roots} ELSE {})
    \cup SandboxPowers(p) \cup {<<"limit", l>> : l \in 1..p.limit}

\* What a step can open without an atom that says so: a root whose deny rule gave
\* its name to a path's rule, or the other way round; the tools of a new server
\* and a redefined command, where all tools or all commands are allowed anyway.
\* The changed hash of such a step is looked at only if no atom changed
\* (diff.py:224).
Unseen(b, a) ==
  {<<"write", r>> : r \in {x \in Roots \cap DeniedIds(a) : <<"hard-deny", x>> \in b.rules}}
    \cup {<<"path", b.denied_paths[r]>> :
            r \in {x \in Roots \cap DeniedIds(b) : <<"hard-deny", x>> \in a.rules}}
    \cup {<<"mcp", t>> : t \in {x \in McpTools : {b.mcp_mode, a.mcp_mode} = {"unrestricted"}}}
    \cup {<<"unsandboxed", x[1], x[2]>> :
            x \in {y \in Commands \X OutsideDefs : b.commands_mode = "unrestricted"}}

Gained == Powers(after) \ Powers(before)
Report == Compare(before, after)

-----------------------------------------------------------------------------
(* Type invariant: both policies are valid documents in normal form, so    *)
(* every revision went through normalize_policy.                           *)
TypeOK ==
  /\ \A p \in {before, after} :
       /\ DOMAIN p = DOMAIN Values
       /\ \A f \in DOMAIN Values : p[f] \in Values[f]
       /\ Valid(p)
       /\ "allowlist" \in {p.subprocess, p.mcp_open_world} => p.allowed_destinations # {}
  /\ edits \in 0..MaxEdits

(* A step reported as exact gives the worker nothing it did not have, and  *)
(* one reported as narrower nothing but what no atom stands for: through   *)
(* whichever sections it goes, no ladder atom, dropped content atom or     *)
(* private path hides another widening (compare_policies).                 *)
NoHiddenExpansion ==
  LET kind == Report.kind IN
    /\ kind = "exact" => Gained = {}
    /\ kind = "narrower" => Gained \subseteq Unseen(before, after)

(* Under a policy that asks, a widening is confirmed by somebody before it *)
(* is used, unless it is all of the kind no atom stands for and comes with *)
(* a narrowing; a command newly let out of the sandbox is confirmed also   *)
(* where expansions in general are not asked about (compare_policies,      *)
(* confirmation_events).                                                   *)
ExpansionIsConfirmed ==
  /\ Gained # {} /\ after.authority_expansion = "ask"
       => \/ "authority_change" \in Report.confirmations
          \/ Report.kind = "narrower" /\ Gained \subseteq Unseen(before, after)
  /\ ~ after.unsandboxed_commands \subseteq before.unsandboxed_commands
       /\ after.unsandboxed_command = "ask"
       => "sandbox_change" \in Report.confirmations

(* Going back is the mirror image of going: what widened one way narrows   *)
(* the other, what is unknown one way is unknown the other.  Each section  *)
(* decides its two directions by itself (_sandbox_diff, _resources_diff,   *)
(* _mode_ordered_diff), and one that leaned to a side would break this.    *)
Mirror(kind) ==
  CASE kind = "broader" -> "narrower" [] kind = "narrower" -> "broader" [] OTHER -> kind
ReverseIsMirror ==
  LET report == Report
      back == Compare(after, before)
  IN back.kind = Mirror(report.kind) /\ back.known = Mirror(report.known)
=============================================================================
