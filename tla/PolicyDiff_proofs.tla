-------------------------- MODULE PolicyDiff_proofs --------------------------
(***************************************************************************)
(* Proofs about the comparison of policies, for any names a policy can     *)
(* use, any contents of commands and any limits.  The theorems about a     *)
(* report come from lemmas about every two policies of the right types;    *)
(* the behaviours are needed only for those types.                         *)
(***************************************************************************)
EXTENDS PolicyDiff, TLAPS

-----------------------------------------------------------------------------
(* What the proofs know of a policy.                                       *)

Typed(p) == DOMAIN p = DOMAIN Values /\ \A f \in DOMAIN Values : p[f] \in Values[f]

\* The fields the comparison and the powers are about.
LEMMA FieldTypes ==
  ASSUME NEW p, Typed(p)
  PROVE  /\ p.default_write \in {"deny", "allow"}
         /\ p.rules \subseteq {"allow", "hard-deny"} \X Roots
         /\ p.denied_paths \in [Roots \cup {OtherId} -> Paths \cup {NoPath}]
         /\ p.mcp_mode \in {"deny", "readonly", "selected", "unrestricted", "unavailable"}
         /\ p.commands_mode \in {"deny", "selected", "unrestricted", "unavailable"}
         /\ p.subprocess \in {"deny", "allowlist", "unrestricted"}
         /\ p.mcp_open_world \in {"deny", "allowlist", "unrestricted"}
         /\ p.host_mode \in {"deny", "selected", "unrestricted", "unavailable"}
         /\ p.git \in {"deny", "allow", "unavailable"}
         /\ p.output_mode \in {"manager", "worker", "unavailable"}
         /\ p.sandbox_mode \in {"required", "preferred", "off"}
         /\ p.unavailable \in {"fail", "warn-and-run", "run"}
         /\ p.limit \in Unavailable..Unbounded
<1> USE DEF Values
<1>1. p.default_write \in {"deny", "allow"} /\ p.rules \subseteq {"allow", "hard-deny"} \X Roots
      /\ p.denied_paths \in [Roots \cup {OtherId} -> Paths \cup {NoPath}]
  BY DEF Typed
<1>2. p.mcp_mode \in {"deny", "readonly", "selected", "unrestricted", "unavailable"}
      /\ p.commands_mode \in {"deny", "selected", "unrestricted", "unavailable"}
      /\ p.host_mode \in {"deny", "selected", "unrestricted", "unavailable"}
  BY DEF Typed
<1>3. p.subprocess \in {"deny", "allowlist", "unrestricted"}
      /\ p.mcp_open_world \in {"deny", "allowlist", "unrestricted"}
  BY DEF Typed
<1>4. p.git \in {"deny", "allow", "unavailable"}
      /\ p.output_mode \in {"manager", "worker", "unavailable"}
  BY DEF Typed
<1>5. p.sandbox_mode \in {"required", "preferred", "off"}
      /\ p.unavailable \in {"fail", "warn-and-run", "run"}
      /\ p.limit \in Unavailable..Unbounded
  BY DEF Typed
<1> QED BY <1>1, <1>2, <1>3, <1>4, <1>5

LEMMA FieldNames ==
  DOMAIN Values =
    {"default_write", "roots", "rules", "denied_paths", "builtins", "tools_deny", "mcp_mode",
     "servers", "selected_tools", "commands_mode", "templates", "subprocess", "mcp_open_world",
     "allowed_destinations", "host_mode", "host_grants", "git", "output_mode", "output_roots",
     "sandbox_mode", "unavailable", "unsandboxed_commands", "limit", "activation",
     "authority_expansion", "unsandboxed_command"}
BY DEF Values

-----------------------------------------------------------------------------
(* The difference, section by section.                                     *)

LEMMA Sections ==
  ASSUME NEW b, NEW a
  PROVE  Jumped(b, a) = {s \in {"commands", "subprocess", "mcp_open_world", "host_effects"} :
                           Modes(b)[s] # Modes(a)[s]}
BY DEF Jumped, Modes

LEMMA DifferenceParts ==
  ASSUME NEW b, NEW a
  PROVE  /\ Difference(b, a).broader = {}
            <=> /\ WithoutJumped(AtomsDiff(b, a), Jumped(b, a)).broader = {}
                /\ SandboxDiff(b, a).broader = {} /\ ResourcesDiff(b, a).broader = {}
                /\ RebindingDiff(b, a).broader = {}
                /\ \A s \in Jumped(b, a) : ModeOrderedDiff(b, a, s).broader = {}
         /\ Difference(b, a).narrower = {}
            <=> /\ WithoutJumped(AtomsDiff(b, a), Jumped(b, a)).narrower = {}
                /\ SandboxDiff(b, a).narrower = {} /\ ResourcesDiff(b, a).narrower = {}
                /\ RebindingDiff(b, a).narrower = {}
                /\ \A s \in Jumped(b, a) : ModeOrderedDiff(b, a, s).narrower = {}
         /\ Difference(b, a).unresolved
              = WithoutJumped(AtomsDiff(b, a), Jumped(b, a)).unresolved
                  \cup SandboxDiff(b, a).unresolved \cup ResourcesDiff(b, a).unresolved
                  \cup RebindingDiff(b, a).unresolved
                  \cup UNION {ModeOrderedDiff(b, a, s).unresolved : s \in Jumped(b, a)}
BY DEF Difference, Join, Delta

\* What the climb of a ladder reports.
LEMMA ClimbParts ==
  ASSUME NEW ladder, NEW x, NEW y, NEW atom
  PROVE  /\ Climb(ladder, x, y, atom).broader = {} <=> ~ ladder[y] > ladder[x]
         /\ Climb(ladder, x, y, atom).narrower = {} <=> ladder[y] > ladder[x]
         /\ Climb(ladder, x, y, atom).unresolved = {}
BY DEF Climb, Delta

LEMMA SandboxParts ==
  ASSUME NEW b, NEW a, Typed(b), Typed(a)
  PROVE  /\ SandboxDiff(b, a).broader = {}
            <=> /\ SandboxOrder[a.sandbox_mode] <= SandboxOrder[b.sandbox_mode]
                /\ FallbackOrder[a.unavailable] <= FallbackOrder[b.unavailable]
                /\ a.unsandboxed_commands \subseteq b.unsandboxed_commands
         /\ SandboxDiff(b, a).narrower = {}
            <=> /\ SandboxOrder[b.sandbox_mode] <= SandboxOrder[a.sandbox_mode]
                /\ FallbackOrder[b.unavailable] <= FallbackOrder[a.unavailable]
                /\ b.unsandboxed_commands \subseteq a.unsandboxed_commands
         /\ SandboxDiff(b, a).unresolved = {}
<1> DEFINE mode == IF a.sandbox_mode = b.sandbox_mode THEN Nothing
                   ELSE Climb(SandboxOrder, b.sandbox_mode, a.sandbox_mode, <<"sandbox", "mode">>)
           fallback == IF a.unavailable = b.unavailable THEN Nothing
                       ELSE Climb(FallbackOrder, b.unavailable, a.unavailable, <<"sandbox", "unavailable">>)
           commands == Delta({<<"sandbox", "unsandboxed", c>> :
                                c \in a.unsandboxed_commands \ b.unsandboxed_commands},
                             {<<"sandbox", "unsandboxed", c>> :
                                c \in b.unsandboxed_commands \ a.unsandboxed_commands}, {})
<1>1. SandboxDiff(b, a) = Join({mode, fallback, commands})
  BY DEF SandboxDiff
<1>2. /\ SandboxOrder[a.sandbox_mode] \in 0 .. 2 /\ SandboxOrder[b.sandbox_mode] \in 0 .. 2
      /\ SandboxOrder[a.sandbox_mode] = SandboxOrder[b.sandbox_mode]
         <=> a.sandbox_mode = b.sandbox_mode
  BY FieldTypes DEF SandboxOrder
<1>3. /\ FallbackOrder[a.unavailable] \in 0 .. 2 /\ FallbackOrder[b.unavailable] \in 0 .. 2
      /\ FallbackOrder[a.unavailable] = FallbackOrder[b.unavailable]
         <=> a.unavailable = b.unavailable
  <2>1. Values.unavailable = {"fail", "warn-and-run", "run"}
    BY DEF Values
  <2> QED BY <2>1, FieldTypes DEF FallbackOrder
<1>4. /\ mode.broader = {} <=> SandboxOrder[a.sandbox_mode] <= SandboxOrder[b.sandbox_mode]
      /\ mode.narrower = {} <=> SandboxOrder[b.sandbox_mode] <= SandboxOrder[a.sandbox_mode]
      /\ mode.unresolved = {}
  BY <1>2, ClimbParts DEF Nothing, Delta
<1>5. /\ fallback.broader = {} <=> FallbackOrder[a.unavailable] <= FallbackOrder[b.unavailable]
      /\ fallback.narrower = {} <=> FallbackOrder[b.unavailable] <= FallbackOrder[a.unavailable]
      /\ fallback.unresolved = {}
  BY <1>3, ClimbParts DEF Nothing, Delta
<1>6. /\ commands.broader = {} <=> a.unsandboxed_commands \subseteq b.unsandboxed_commands
      /\ commands.narrower = {} <=> b.unsandboxed_commands \subseteq a.unsandboxed_commands
      /\ commands.unresolved = {}
  BY DEF Delta
<1> HIDE DEF mode, fallback, commands
<1> QED BY <1>1, <1>4, <1>5, <1>6 DEF Join, Delta

LEMMA ResourcesParts ==
  ASSUME NEW b, NEW a, Typed(b), Typed(a)
  PROVE  /\ "limit" \notin ResourcesDiff(b, a).unresolved
            => /\ ResourcesDiff(b, a).broader = {} <=> a.limit <= b.limit
               /\ ResourcesDiff(b, a).narrower = {} <=> b.limit <= a.limit
         /\ ResourcesDiff(b, a).unresolved = ResourcesDiff(a, b).unresolved
         /\ ResourcesDiff(b, a).broader = {} <=> ResourcesDiff(a, b).narrower = {}
<1> DEFINE order == [l \in Values.limit |-> l]
<1>1. a.limit \in Int /\ b.limit \in Int /\ order[a.limit] = a.limit /\ order[b.limit] = b.limit
  <2>1. a.limit \in Unavailable .. Unbounded /\ b.limit \in Unavailable .. Unbounded
    BY FieldTypes
  <2>2. Values.limit = Unavailable .. Unbounded
    BY DEF Values
  <2>3. Unavailable \in Int /\ Unbounded \in Int
    BY PolicyAssumption DEF Unavailable, Unbounded
  <2>4. a.limit \in Int /\ b.limit \in Int
    BY <2>1, <2>3
  <2>5. \A l \in Values.limit : order[l] = l
    OBVIOUS
  <2>6. order[a.limit] = a.limit /\ order[b.limit] = b.limit
    BY <2>1, <2>2, <2>5
  <2> QED BY <2>4, <2>6
<1> HIDE DEF order
<1>2. CASE a.limit = b.limit
  BY <1>1, <1>2 DEF ResourcesDiff, Nothing, Delta
<1>3. CASE a.limit # b.limit /\ Unavailable \in {a.limit, b.limit}
  BY <1>3 DEF ResourcesDiff, Delta
<1>4. CASE a.limit # b.limit /\ Unavailable \notin {a.limit, b.limit}
  <2>1. /\ ResourcesDiff(b, a) = Climb(order, b.limit, a.limit, <<"resources", "limit">>)
        /\ ResourcesDiff(a, b) = Climb(order, a.limit, b.limit, <<"resources", "limit">>)
    BY <1>4 DEF ResourcesDiff, order
  <2>2. /\ ResourcesDiff(b, a).broader = {} <=> ~ order[a.limit] > order[b.limit]
        /\ ResourcesDiff(b, a).narrower = {} <=> order[a.limit] > order[b.limit]
        /\ ResourcesDiff(b, a).unresolved = {}
    BY <2>1, ClimbParts
  <2>3. /\ ResourcesDiff(a, b).narrower = {} <=> order[b.limit] > order[a.limit]
        /\ ResourcesDiff(a, b).unresolved = {}
    BY <2>1, ClimbParts
  <2> QED BY <1>1, <1>4, <2>2, <2>3
<1> QED BY <1>2, <1>3, <1>4

\* Modes that are compared and differ stand on different steps of the ladder.
LEMMA ModeParts ==
  ASSUME NEW b, NEW a, Typed(b), Typed(a), NEW s \in Jumped(b, a)
  PROVE  /\ ModeOrderedDiff(b, a, s).unresolved = ModeOrderedDiff(a, b, s).unresolved
         /\ ModeOrderedDiff(b, a, s).broader = {} <=> ModeOrderedDiff(a, b, s).narrower = {}
         /\ "unavailable" \in {Modes(b)[s], Modes(a)[s]}
            => s \in ModeOrderedDiff(b, a, s).unresolved
         /\ "unavailable" \notin {Modes(b)[s], Modes(a)[s]} /\ ModeOrderedDiff(b, a, s).broader = {}
            => Modes(a)[s] = "deny" \/ Modes(b)[s] = "unrestricted"
<1> DEFINE x == Modes(b)[s]
           y == Modes(a)[s]
<1>1. s \in {"commands", "subprocess", "mcp_open_world", "host_effects"} /\ x # y
  BY Sections
<1>2. \/ {x, y} \subseteq {"deny", "selected", "unrestricted", "unavailable"}
      \/ {x, y} \subseteq {"deny", "allowlist", "unrestricted"}
  BY <1>1, FieldTypes DEF Modes
<1> HIDE DEF x, y
<1>3. CASE "unavailable" \in {x, y}
  <2>1. ModeOrderedDiff(b, a, s) = Delta({}, {}, {s}) /\ ModeOrderedDiff(a, b, s) = Delta({}, {}, {s})
    BY <1>3 DEF ModeOrderedDiff, x, y
  <2>2. /\ ModeOrderedDiff(b, a, s).unresolved = {s} /\ ModeOrderedDiff(b, a, s).broader = {}
        /\ ModeOrderedDiff(a, b, s).unresolved = {s} /\ ModeOrderedDiff(a, b, s).narrower = {}
    BY <2>1 DEF Delta
  <2> QED BY <1>3, <2>2 DEF x, y
<1>4. CASE "unavailable" \notin {x, y}
  <2>1. /\ ModeOrderedDiff(b, a, s) = Climb(ActivatableOrder, x, y, <<s, "mode">>)
        /\ ModeOrderedDiff(a, b, s) = Climb(ActivatableOrder, y, x, <<s, "mode">>)
    BY <1>4 DEF ModeOrderedDiff, x, y
  <2>2. /\ ActivatableOrder[x] \in Int /\ ActivatableOrder[y] \in Int
        /\ ActivatableOrder[x] # ActivatableOrder[y]
        /\ ActivatableOrder[y] < ActivatableOrder[x] => y = "deny" \/ x = "unrestricted"
    BY <1>1, <1>2, <1>4 DEF ActivatableOrder
  <2>3. /\ ModeOrderedDiff(b, a, s).broader = {} <=> ~ ActivatableOrder[y] > ActivatableOrder[x]
        /\ ModeOrderedDiff(b, a, s).unresolved = {}
    BY <2>1, ClimbParts
  <2>4. /\ ModeOrderedDiff(a, b, s).narrower = {} <=> ActivatableOrder[x] > ActivatableOrder[y]
        /\ ModeOrderedDiff(a, b, s).unresolved = {}
    BY <2>1, ClimbParts
  <2>5. ModeOrderedDiff(b, a, s).broader = {} <=> ModeOrderedDiff(a, b, s).narrower = {}
    BY <2>2, <2>3, <2>4
  <2>6. ModeOrderedDiff(b, a, s).broader = {} => y = "deny" \/ x = "unrestricted"
    BY <2>2, <2>3
  <2> QED BY <1>4, <2>3, <2>4, <2>5, <2>6 DEF x, y
<1> QED BY <1>3, <1>4

LEMMA RebindingParts ==
  ASSUME NEW b, NEW a
  PROVE  /\ RebindingDiff(b, a).broader = {} /\ RebindingDiff(b, a).narrower = {}
         /\ RebindingDiff(b, a).unresolved = RebindingDiff(a, b).unresolved
         /\ "binding" \notin RebindingDiff(b, a).unresolved
            <=> \A i \in DeniedIds(b) \cap DeniedIds(a) : b.denied_paths[i] = a.denied_paths[i]
<1>1. \A x, y : /\ RebindingDiff(x, y).broader = {} /\ RebindingDiff(x, y).narrower = {}
                /\ RebindingDiff(x, y).unresolved
                     = IF \E i \in DeniedIds(x) \cap DeniedIds(y) : x.denied_paths[i] # y.denied_paths[i]
                       THEN {"binding"} ELSE {}
  BY DEF RebindingDiff, Delta
<1>2. (\E i \in DeniedIds(b) \cap DeniedIds(a) : b.denied_paths[i] # a.denied_paths[i])
        <=> \E i \in DeniedIds(a) \cap DeniedIds(b) : a.denied_paths[i] # b.denied_paths[i]
  OBVIOUS
<1> QED BY <1>1, <1>2

\* No section's denials are dropped with its mode.
LEMMA AtomsParts ==
  ASSUME NEW b, NEW a
  PROVE  /\ WithoutJumped(AtomsDiff(b, a), Jumped(b, a)).broader = {}
            <=> /\ \A x \in Grants(a) \ Grants(b) : x[1] \in Jumped(b, a)
                /\ Denies(b) \subseteq Denies(a)
         /\ WithoutJumped(AtomsDiff(b, a), Jumped(b, a)).narrower = {}
            <=> /\ \A x \in Grants(b) \ Grants(a) : x[1] \in Jumped(b, a)
                /\ Denies(a) \subseteq Denies(b)
         /\ WithoutJumped(AtomsDiff(b, a), Jumped(b, a)).unresolved = {}
<1>1. \A p : \A x \in Denies(p) : x[1] \in {"filesystem", "tools"}
  BY DEF Denies
<1>2. \A x \in Denies(b) \cup Denies(a) : x[1] \notin Jumped(b, a)
  BY <1>1, Sections
<1> QED BY <1>2 DEF WithoutJumped, AtomsDiff, Delta

-----------------------------------------------------------------------------
(* A difference without a broader part, and without open questions, widens *)
(* nothing.                                                                *)

\* Every dimension that compare_policies finds unresolved, except that an exact
\* relation hides a changed authority.
Dimensions(b, a) ==
  Unresolved(b) \cup Unresolved(a) \cup Difference(b, a).unresolved
    \cup (IF a.roots # b.roots THEN {"filesystem.roots"} ELSE {})

Narrowing(b, a) ==
  /\ Typed(b) /\ Typed(a)
  /\ Difference(b, a).broader = {} /\ Dimensions(b, a) \subseteq {"activation"}

\* What such a difference says, section by section.
LEMMA NarrowingParts ==
  ASSUME NEW b, NEW a, Narrowing(b, a)
  PROVE  /\ \A x \in Grants(a) : x \in Grants(b) \/ x[1] \in Jumped(b, a)
         /\ Denies(b) \subseteq Denies(a)
         /\ \A s \in Jumped(b, a) : Modes(a)[s] = "deny" \/ Modes(b)[s] = "unrestricted"
         /\ SandboxDiff(b, a).broader = {} /\ a.limit <= b.limit
         /\ \A i \in DeniedIds(b) \cap DeniedIds(a) : b.denied_paths[i] = a.denied_paths[i]
         /\ "readonly" \notin {b.mcp_mode, a.mcp_mode}
<1> USE DEF Narrowing
<1>1. /\ WithoutJumped(AtomsDiff(b, a), Jumped(b, a)).broader = {}
      /\ SandboxDiff(b, a).broader = {} /\ ResourcesDiff(b, a).broader = {}
      /\ \A s \in Jumped(b, a) : ModeOrderedDiff(b, a, s).broader = {}
  BY DifferenceParts
<1>2. /\ ResourcesDiff(b, a).unresolved \subseteq Difference(b, a).unresolved
      /\ RebindingDiff(b, a).unresolved \subseteq Difference(b, a).unresolved
      /\ \A s \in Jumped(b, a) :
           ModeOrderedDiff(b, a, s).unresolved \subseteq Difference(b, a).unresolved
  BY DifferenceParts
<1>3. Difference(b, a).unresolved \subseteq {"activation"}
  BY DEF Dimensions
<1>4. \A x \in Grants(a) : x \in Grants(b) \/ x[1] \in Jumped(b, a)
  BY <1>1, AtomsParts
<1>5. Denies(b) \subseteq Denies(a)
  BY <1>1, AtomsParts
<1>6. ASSUME NEW s \in Jumped(b, a)
      PROVE  Modes(a)[s] = "deny" \/ Modes(b)[s] = "unrestricted"
  <2>1. s # "activation"
    BY Sections
  <2> QED BY <1>1, <1>2, <1>3, <2>1, ModeParts
<1>7. a.limit <= b.limit
  BY <1>1, <1>2, <1>3, ResourcesParts
<1>8. \A i \in DeniedIds(b) \cap DeniedIds(a) : b.denied_paths[i] = a.denied_paths[i]
  BY <1>2, <1>3, RebindingParts
<1>9. "readonly" \notin {b.mcp_mode, a.mcp_mode}
  BY DEF Dimensions, Unresolved
<1> QED BY <1>1, <1>4, <1>5, <1>6, <1>7, <1>8, <1>9

\* An atom tells which field it comes from.
LEMMA GrantSources ==
  ASSUME NEW p, Typed(p)
  PROVE  /\ \A r : <<"filesystem", "write", r>> \in Grants(p) <=> <<"allow", r>> \in p.rules
         /\ <<"filesystem", "default">> \in Grants(p) <=> p.default_write = "allow"
         /\ \A t : <<"tools", "builtin", t>> \in Grants(p) <=> t \in p.builtins
         /\ \A t : <<"mcp", "tool", t>> \in Grants(p)
                   <=> p.mcp_mode = "selected" /\ t \in p.selected_tools
         /\ <<"mcp", "unrestricted">> \in Grants(p) <=> p.mcp_mode = "unrestricted"
         /\ <<"git", "allow">> \in Grants(p) <=> p.git = "allow"
         /\ \A r : <<"output", "root", r>> \in Grants(p)
                   <=> p.output_mode = "worker" /\ r \in p.output_roots
<1>1. \A r : <<"filesystem", "write", r>> \in Grants(p) <=> <<"allow", r>> \in p.rules
  BY FieldTypes DEF Grants, FileGrants, McpGrants, CommandGrants, NetworkGrants, HostEffectGrants, OutputGrants
<1>2. <<"filesystem", "default">> \in Grants(p) <=> p.default_write = "allow"
  BY FieldTypes DEF Grants, FileGrants, McpGrants, CommandGrants, NetworkGrants, HostEffectGrants, OutputGrants
<1>3. \A t : <<"tools", "builtin", t>> \in Grants(p) <=> t \in p.builtins
  BY FieldTypes DEF Grants, FileGrants, McpGrants, CommandGrants, NetworkGrants, HostEffectGrants, OutputGrants
<1>4. \A t : <<"mcp", "tool", t>> \in Grants(p) <=> p.mcp_mode = "selected" /\ t \in p.selected_tools
  BY FieldTypes DEF Grants, FileGrants, McpGrants, CommandGrants, NetworkGrants, HostEffectGrants, OutputGrants
<1>5. <<"mcp", "unrestricted">> \in Grants(p) <=> p.mcp_mode = "unrestricted"
  BY FieldTypes DEF Grants, FileGrants, McpGrants, CommandGrants, NetworkGrants, HostEffectGrants, OutputGrants
<1>6. <<"git", "allow">> \in Grants(p) <=> p.git = "allow"
  BY FieldTypes DEF Grants, FileGrants, McpGrants, CommandGrants, NetworkGrants, HostEffectGrants, OutputGrants
<1>7. \A r : <<"output", "root", r>> \in Grants(p) <=> p.output_mode = "worker" /\ r \in p.output_roots
  BY FieldTypes DEF Grants, FileGrants, McpGrants, CommandGrants, NetworkGrants, HostEffectGrants, OutputGrants
<1> QED BY <1>1, <1>2, <1>3, <1>4, <1>5, <1>6, <1>7

LEMMA LadderSources ==
  ASSUME NEW p, Typed(p)
  PROVE  /\ \A c, d : <<"commands", c, d>> \in Grants(p)
                      <=> p.commands_mode = "selected" /\ c \in Templates(p) /\ d = p.templates[c]
         /\ \A s \in {"subprocess", "mcp_open_world"} : \A d :
              <<s, "destination", d>> \in Grants(p)
                 <=> p[s] = "allowlist" /\ d \in p.allowed_destinations
         /\ \A g : <<"host_effects", "grant", g>> \in Grants(p)
                   <=> p.host_mode = "selected" /\ g \in p.host_grants
<1>1. \A c, d : <<"commands", c, d>> \in Grants(p)
                <=> p.commands_mode = "selected" /\ c \in Templates(p) /\ d = p.templates[c]
  BY FieldTypes DEF Grants, FileGrants, McpGrants, CommandGrants, NetworkGrants, HostEffectGrants, OutputGrants
<1>2. \A d : <<"subprocess", "destination", d>> \in Grants(p)
             <=> p["subprocess"] = "allowlist" /\ d \in p.allowed_destinations
  BY FieldTypes DEF Grants, FileGrants, McpGrants, CommandGrants, NetworkGrants, HostEffectGrants, OutputGrants
<1>3. \A d : <<"mcp_open_world", "destination", d>> \in Grants(p)
             <=> p["mcp_open_world"] = "allowlist" /\ d \in p.allowed_destinations
  BY FieldTypes DEF Grants, FileGrants, McpGrants, CommandGrants, NetworkGrants, HostEffectGrants, OutputGrants
<1>4. \A g : <<"host_effects", "grant", g>> \in Grants(p) <=> p.host_mode = "selected" /\ g \in p.host_grants
  BY FieldTypes DEF Grants, FileGrants, McpGrants, CommandGrants, NetworkGrants, HostEffectGrants, OutputGrants
<1> QED BY <1>1, <1>2, <1>3, <1>4

LEMMA DenySources ==
  ASSUME NEW p, Typed(p)
  PROVE  /\ \A i : <<"filesystem", "deny", i>> \in Denies(p)
                   <=> <<"hard-deny", i>> \in p.rules \/ i \in DeniedIds(p)
         /\ \A t : <<"tools", "deny", t>> \in Denies(p) <=> t \in p.tools_deny
<1>1. \A i : <<"filesystem", "deny", i>> \in Denies(p)
             <=> <<"hard-deny", i>> \in p.rules \/ i \in DeniedIds(p)
  BY FieldTypes DEF Denies
<1>2. \A t : <<"tools", "deny", t>> \in Denies(p) <=> t \in p.tools_deny
  BY DEF Denies
<1> QED BY <1>1, <1>2

LEMMA NarrowingKeepsFiles ==
  ASSUME NEW b, NEW a, Narrowing(b, a)
  PROVE  FilePowers(a) \subseteq FilePowers(b) \cup Unseen(b, a)
<1> USE DEF Narrowing
<1>1. ASSUME NEW r \in Roots, <<"allow", r>> \in a.rules \/ a.default_write = "allow",
             <<"hard-deny", r>> \notin a.rules, <<"write", r>> \notin Unseen(b, a)
      PROVE  /\ <<"allow", r>> \in b.rules \/ b.default_write = "allow"
             /\ <<"hard-deny", r>> \notin b.rules
  <2>1. "filesystem" \notin Jumped(b, a)
    BY Sections
  <2>2. <<"allow", r>> \in a.rules => <<"allow", r>> \in b.rules
    <3>1. <<"filesystem", "write", r>> \in Grants(a) => <<"filesystem", "write", r>> \in Grants(b)
      BY <2>1, NarrowingParts
    <3> QED BY <3>1, GrantSources
  <2>3. a.default_write = "allow" => b.default_write = "allow"
    <3>1. <<"filesystem", "default">> \in Grants(a) => <<"filesystem", "default">> \in Grants(b)
      BY <2>1, NarrowingParts
    <3> QED BY <3>1, GrantSources
  <2>4. <<"hard-deny", r>> \notin b.rules
    <3> SUFFICES ASSUME <<"hard-deny", r>> \in b.rules PROVE FALSE
      OBVIOUS
    <3>1. r \in DeniedIds(a)
      BY <1>1, NarrowingParts, DenySources
    <3> QED BY <1>1, <3>1 DEF Unseen
  <2> QED BY <1>1, <2>2, <2>3, <2>4
<1>2. ASSUME NEW q \in Paths, \A i \in DeniedIds(a) : a.denied_paths[i] # q,
             <<"path", q>> \notin Unseen(b, a)
      PROVE  \A i \in DeniedIds(b) : b.denied_paths[i] # q
  <2> SUFFICES ASSUME NEW i \in DeniedIds(b), b.denied_paths[i] = q PROVE FALSE
    OBVIOUS
  <2>1. i \notin DeniedIds(a)
    BY <1>2, NarrowingParts
  <2>2. <<"hard-deny", i>> \in a.rules
    BY <2>1, NarrowingParts, DenySources
  <2>3. i \in Roots
    BY <2>2, FieldTypes
  <2> QED BY <1>2, <2>2, <2>3 DEF Unseen
<1> QED BY <1>1, <1>2 DEF FilePowers

LEMMA NarrowingKeepsTools ==
  ASSUME NEW b, NEW a, Narrowing(b, a)
  PROVE  /\ a.builtins \ a.tools_deny \subseteq b.builtins \ b.tools_deny
         /\ a.git = "allow" => b.git = "allow"
         /\ a.output_mode = "worker" => \A r \in a.output_roots : b.output_mode = "worker" /\ r \in b.output_roots
         /\ McpPowers(a) \subseteq McpPowers(b) \cup Unseen(b, a)
<1> USE DEF Narrowing
<1>1. \A x \in Grants(a) : x[1] \in {"tools", "git", "output", "mcp"} => x \in Grants(b)
  BY NarrowingParts, Sections
<1>2. \A t \in a.builtins : t \in b.builtins
  <2> TAKE t \in a.builtins
  <2>1. <<"tools", "builtin", t>> \in Grants(b)
    BY <1>1, GrantSources
  <2> QED BY <2>1, GrantSources
<1>3. b.tools_deny \subseteq a.tools_deny
  BY NarrowingParts, DenySources
<1>4. a.git = "allow" => b.git = "allow"
  BY <1>1, GrantSources
<1>5. a.output_mode = "worker" => \A r \in a.output_roots : b.output_mode = "worker" /\ r \in b.output_roots
  <2> SUFFICES ASSUME a.output_mode = "worker", NEW r \in a.output_roots
               PROVE  b.output_mode = "worker" /\ r \in b.output_roots
    OBVIOUS
  <2>1. <<"output", "root", r>> \in Grants(b)
    BY <1>1, GrantSources
  <2> QED BY <2>1, GrantSources
<1>6. a.mcp_mode = "unrestricted" => b.mcp_mode = "unrestricted"
  BY <1>1, GrantSources
<1>7. ASSUME NEW t, a.mcp_mode = "selected", t \in a.selected_tools
      PROVE  b.mcp_mode = "selected" /\ t \in b.selected_tools
  <2>1. <<"mcp", "tool", t>> \in Grants(b)
    BY <1>1, <1>7, GrantSources
  <2> QED BY <2>1, GrantSources
<1>8. McpPowers(a) \subseteq McpPowers(b) \cup Unseen(b, a)
  <2>1. CASE a.mcp_mode = "unrestricted"
    BY <1>6, <2>1 DEF McpPowers, Unseen
  <2>2. CASE a.mcp_mode # "unrestricted"
    BY <1>7, <2>2 DEF McpPowers
  <2> QED BY <2>1, <2>2
<1> QED BY <1>2, <1>3, <1>4, <1>5, <1>8

LEMMA NarrowingKeepsCommands ==
  ASSUME NEW b, NEW a, Narrowing(b, a)
  PROVE  CommandPowers(a) \subseteq CommandPowers(b)
<1> USE DEF Narrowing
<1> SUFFICES ASSUME NEW c \in Commands, NEW d \in Definitions,
                    a.commands_mode = "unrestricted"
                      \/ (a.commands_mode = "selected" /\ a.templates[c] = d)
             PROVE  b.commands_mode = "unrestricted"
                      \/ (b.commands_mode = "selected" /\ b.templates[c] = d)
  BY DEF CommandPowers
<1>1. CASE "commands" \in Jumped(b, a)
  <2>1. Modes(a)["commands"] = "deny" \/ Modes(b)["commands"] = "unrestricted"
    BY <1>1, NarrowingParts
  <2> QED BY <2>1 DEF Modes
<1>2. CASE "commands" \notin Jumped(b, a)
  <2>1. a.commands_mode = b.commands_mode
    BY <1>2, Sections DEF Modes
  <2>2. CASE a.commands_mode = "selected"
    <3>1. c \in Templates(a)
      BY <2>2, PolicyAssumption DEF Templates
    <3>2. <<"commands", c, d>> \in Grants(b)
      BY <1>2, <2>2, <3>1, NarrowingParts, LadderSources
    <3> QED BY <3>2, LadderSources
  <2> QED BY <2>1, <2>2
<1> QED BY <1>1, <1>2

LEMMA NarrowingKeepsNetwork ==
  ASSUME NEW b, NEW a, Narrowing(b, a)
  PROVE  NetworkPowers(a) \subseteq NetworkPowers(b)
<1> USE DEF Narrowing
<1> SUFFICES ASSUME NEW s \in {"subprocess", "mcp_open_world"}, NEW d \in Destinations,
                    a[s] = "unrestricted" \/ (a[s] = "allowlist" /\ d \in a.allowed_destinations)
             PROVE  b[s] = "unrestricted" \/ (b[s] = "allowlist" /\ d \in b.allowed_destinations)
  BY DEF NetworkPowers
<1>1. Modes(a)[s] = a[s] /\ Modes(b)[s] = b[s]
  BY DEF Modes
<1>2. CASE s \in Jumped(b, a)
  BY <1>1, <1>2, NarrowingParts
<1>3. CASE s \notin Jumped(b, a)
  <2>1. a[s] = b[s]
    BY <1>1, <1>3, Sections
  <2>2. CASE a[s] = "allowlist"
    <3>1. <<s, "destination", d>> \in Grants(a)
      BY <2>2, LadderSources
    <3>2. <<s, "destination", d>> \in Grants(b)
      BY <1>3, <3>1, NarrowingParts
    <3> QED BY <3>2, LadderSources
  <2> QED BY <2>1, <2>2
<1> QED BY <1>2, <1>3

LEMMA NarrowingKeepsHost ==
  ASSUME NEW b, NEW a, Narrowing(b, a)
  PROVE  HostPowers(a) \subseteq HostPowers(b)
<1> USE DEF Narrowing
<1> SUFFICES ASSUME NEW g \in HostGrants,
                    a.host_mode = "unrestricted" \/ (a.host_mode = "selected" /\ g \in a.host_grants)
             PROVE  b.host_mode = "unrestricted" \/ (b.host_mode = "selected" /\ g \in b.host_grants)
  BY DEF HostPowers
<1>1. CASE "host_effects" \in Jumped(b, a)
  <2>1. Modes(a)["host_effects"] = "deny" \/ Modes(b)["host_effects"] = "unrestricted"
    BY <1>1, NarrowingParts
  <2> QED BY <2>1 DEF Modes
<1>2. CASE "host_effects" \notin Jumped(b, a)
  <2>1. a.host_mode = b.host_mode
    BY <1>2, Sections DEF Modes
  <2>2. CASE a.host_mode = "selected"
    <3>1. <<"host_effects", "grant", g>> \in Grants(b)
      BY <1>2, <2>2, NarrowingParts, LadderSources
    <3> QED BY <3>1, LadderSources
  <2> QED BY <2>1, <2>2
<1> QED BY <1>1, <1>2

\* A command allowed to run outside the sandbox keeps its definition, or it was
\* allowed because any command was.
LEMMA NarrowingKeepsDefinitions ==
  ASSUME NEW b, NEW a, Narrowing(b, a), Valid(a), NEW c \in a.unsandboxed_commands,
         a.commands_mode \in {"selected", "unrestricted"},
         <<"unsandboxed", c, a.templates[c]>> \notin Unseen(b, a)
  PROVE  /\ c \in b.unsandboxed_commands
         /\ b.commands_mode \in {"selected", "unrestricted"}
         /\ b.templates[c] = a.templates[c]
<1> USE DEF Narrowing
<1>1. c \in b.unsandboxed_commands
  BY NarrowingParts, SandboxParts
<1>2. c \in Commands /\ a.templates[c] \in OutsideDefs
  <2>1. Values.unsandboxed_commands = SUBSET Commands /\ "unsandboxed_commands" \in DOMAIN Values
    BY DEF Values
  <2> QED BY <2>1 DEF Valid, Typed
<1>3. b.commands_mode # "unrestricted"
  <2> SUFFICES ASSUME b.commands_mode = "unrestricted" PROVE FALSE
    OBVIOUS
  <2> DEFINE y == <<c, a.templates[c]>>
  <2>1. y \in {x \in Commands \X OutsideDefs : b.commands_mode = "unrestricted"}
    BY <1>2
  <2>2. <<"unsandboxed", y[1], y[2]>> \in Unseen(b, a)
    BY <2>1 DEF Unseen
  <2> QED BY <2>2
<1>4. "commands" \notin Jumped(b, a)
  <2> SUFFICES ASSUME "commands" \in Jumped(b, a) PROVE FALSE
    OBVIOUS
  <2>1. Modes(a)["commands"] = "deny" \/ Modes(b)["commands"] = "unrestricted"
    BY NarrowingParts
  <2> QED BY <1>3, <2>1 DEF Modes
<1>5. a.commands_mode = b.commands_mode
  BY <1>4, Sections DEF Modes
<1>6. c \in Templates(a)
  BY <1>2, PolicyAssumption DEF Templates
<1>7. <<"commands", c, a.templates[c]>> \in Grants(b)
  BY <1>3, <1>4, <1>5, <1>6, NarrowingParts, LadderSources
<1> QED BY <1>1, <1>5, <1>7, LadderSources

LEMMA NarrowingKeepsSandbox ==
  ASSUME NEW b, NEW a, Narrowing(b, a), Valid(a)
  PROVE  SandboxPowers(a) \subseteq SandboxPowers(b) \cup Unseen(b, a)
<1> USE DEF Narrowing
<1>1. /\ SandboxOrder[a.sandbox_mode] <= SandboxOrder[b.sandbox_mode]
      /\ FallbackOrder[a.unavailable] <= FallbackOrder[b.unavailable]
  BY NarrowingParts, SandboxParts
<1>2. Values.sandbox_mode = {"required", "preferred", "off"}
      /\ Values.unavailable = {"fail", "warn-and-run", "run"}
  BY DEF Values
<1>3. \A m \in Values.sandbox_mode : SandboxOrder[m] \in Int
  BY <1>2 DEF SandboxOrder
<1>4. \A m \in Values.unavailable : FallbackOrder[m] \in Int
  BY <1>2 DEF FallbackOrder
<1>5. \A m \in Values.sandbox_mode :
        SandboxOrder[m] <= SandboxOrder[a.sandbox_mode] => SandboxOrder[m] <= SandboxOrder[b.sandbox_mode]
  BY <1>1, <1>2, <1>3, FieldTypes
<1>6. \A m \in Values.unavailable :
        FallbackOrder[m] <= FallbackOrder[a.unavailable] => FallbackOrder[m] <= FallbackOrder[b.unavailable]
  BY <1>1, <1>2, <1>4, FieldTypes
<1>7. \A c \in a.unsandboxed_commands :
        a.commands_mode \in {"selected", "unrestricted"}
        => <<"unsandboxed", c, a.templates[c]>> \in SandboxPowers(b) \cup Unseen(b, a)
  BY NarrowingKeepsDefinitions DEF SandboxPowers
<1> QED BY <1>5, <1>6, <1>7 DEF SandboxPowers

LEMMA NarrowingKeepsPowers ==
  ASSUME NEW b, NEW a, Narrowing(b, a), Valid(a)
  PROVE  Powers(a) \ Powers(b) \subseteq Unseen(b, a)
<1>1. 1 .. a.limit \subseteq 1 .. b.limit
  <2>1. a.limit \in Unavailable .. Unbounded /\ b.limit \in Unavailable .. Unbounded
    BY FieldTypes DEF Narrowing
  <2> QED BY <2>1, NarrowingParts, PolicyAssumption DEF Unavailable, Unbounded
<1>2. {<<"tool", t>> : t \in a.builtins \ a.tools_deny} \subseteq {<<"tool", t>> : t \in b.builtins \ b.tools_deny}
  BY NarrowingKeepsTools
<1>3. {<<"limit", l>> : l \in 1..a.limit} \subseteq {<<"limit", l>> : l \in 1..b.limit}
  BY <1>1
<1>4. (IF a.output_mode = "worker" THEN {<<"output", r>> : r \in a.output_roots} ELSE {})
        \subseteq (IF b.output_mode = "worker" THEN {<<"output", r>> : r \in b.output_roots} ELSE {})
  BY NarrowingKeepsTools
<1>5. (IF a.git = "allow" THEN {<<"git", "mutation">>} ELSE {})
        \subseteq (IF b.git = "allow" THEN {<<"git", "mutation">>} ELSE {})
  BY NarrowingKeepsTools
<1> QED BY <1>2, <1>3, <1>4, <1>5, NarrowingKeepsTools, NarrowingKeepsFiles, NarrowingKeepsCommands,
           NarrowingKeepsNetwork, NarrowingKeepsHost, NarrowingKeepsSandbox DEF Powers

-----------------------------------------------------------------------------
(* The report.                                                             *)

Known(b, a) == ClassifyKnown(Difference(b, a).broader, Difference(b, a).narrower)

Unknowns(b, a) ==
  Dimensions(b, a)
    \cup (IF Known(b, a) = "exact" /\ AuthorityChanged(b, a) THEN {"authority.projection"} ELSE {})

LEMMA ReportParts ==
  ASSUME NEW b, NEW a
  PROVE  /\ Compare(b, a).known = Known(b, a)
         /\ Compare(b, a).kind = IF Unknowns(b, a) # {} THEN "unknown" ELSE Known(b, a)
         /\ /\ \/ Known(b, a) # "exact" \/ AuthorityChanged(b, a)
               \/ Unknowns(b, a) \ {"activation"} # {}
            /\ Compare(b, a).kind \in {"broader", "mixed", "unknown"}
            /\ a.authority_expansion = "ask"
            => "authority_change" \in Compare(b, a).confirmations
         /\ /\ b.unsandboxed_commands # a.unsandboxed_commands
            /\ a.unsandboxed_commands \ b.unsandboxed_commands # {}
            /\ a.unsandboxed_command = "ask"
            => "sandbox_change" \in Compare(b, a).confirmations
<1>1. Compare(b, a).known = Known(b, a)
  BY DEF Compare, Known
<1>2. Compare(b, a).kind = IF Unknowns(b, a) # {} THEN "unknown" ELSE Known(b, a)
  BY DEF Compare, Known, Unknowns, Dimensions
<1> DEFINE sandboxFields == {"sandbox_mode", "unavailable", "unsandboxed_commands"}
           triggered ==
             [ authority_change |-> \/ Known(b, a) # "exact" \/ AuthorityChanged(b, a)
                                    \/ Unknowns(b, a) \ {"activation"} # {},
               sandbox_change |-> \E f \in sandboxFields : b[f] # a[f] ]
           added == a.unsandboxed_commands \ b.unsandboxed_commands # {}
<1>3. Compare(b, a).confirmations
        = {c \in DOMAIN triggered :
             RequiresConfirmation(c, triggered[c], Compare(b, a).kind, added, a)}
  BY DEF Compare, Known, Unknowns, Dimensions
<1>4. DOMAIN triggered = {"authority_change", "sandbox_change"}
  OBVIOUS
<1>5. ASSUME \/ Known(b, a) # "exact" \/ AuthorityChanged(b, a)
             \/ Unknowns(b, a) \ {"activation"} # {},
             Compare(b, a).kind \in {"broader", "mixed", "unknown"},
             a.authority_expansion = "ask"
      PROVE  "authority_change" \in Compare(b, a).confirmations
  <2>1. triggered["authority_change"]
    BY <1>5
  <2>2. RequiresConfirmation("authority_change", triggered["authority_change"],
                             Compare(b, a).kind, added, a)
    BY <1>5, <2>1 DEF RequiresConfirmation
  <2> QED BY <1>3, <1>4, <2>2
<1>6. ASSUME b.unsandboxed_commands # a.unsandboxed_commands,
             a.unsandboxed_commands \ b.unsandboxed_commands # {},
             a.unsandboxed_command = "ask"
      PROVE  "sandbox_change" \in Compare(b, a).confirmations
  <2>1. triggered["sandbox_change"] /\ added
    BY <1>6
  <2>2. RequiresConfirmation("sandbox_change", triggered["sandbox_change"],
                             Compare(b, a).kind, added, a)
    BY <1>6, <2>1 DEF RequiresConfirmation
  <2> QED BY <1>3, <1>4, <2>2
<1> QED BY <1>1, <1>2, <1>5, <1>6

\* Whatever widens what a worker may do shows as a broader part of the
\* difference or as a question it leaves open, or is one of what no atom shows.
LEMMA WideningShows ==
  ASSUME NEW b, NEW a, Typed(b), Typed(a), Valid(a),
         ~ Powers(a) \ Powers(b) \subseteq Unseen(b, a)
  PROVE  Difference(b, a).broader # {} \/ Dimensions(b, a) \ {"activation"} # {}
BY NarrowingKeepsPowers DEF Narrowing

\* Two policies with one hash whose rules name the same paths allow the same.
LEMMA SameAuthority ==
  ASSUME NEW b, NEW a, Typed(b), Typed(a), ~ AuthorityChanged(b, a),
         "binding" \notin RebindingDiff(b, a).unresolved
  PROVE  Powers(a) = Powers(b)
<1> DEFINE open == {"activation", "authority_expansion", "unsandboxed_command"}
<1>1. Authority(b) = Authority(a)
  BY DEF AuthorityChanged
<1>2. \A p : Typed(p) => \A f \in DOMAIN Values \ open :
        Authority(p)[f] = IF f = "denied_paths" THEN DeniedIds(p) ELSE p[f]
  BY DEF Authority, Typed
<1>3. \A f \in DOMAIN Values \ (open \cup {"denied_paths"}) : b[f] = a[f]
  <2> TAKE f \in DOMAIN Values \ (open \cup {"denied_paths"})
  <2>1. Authority(b)[f] = b[f] /\ Authority(a)[f] = a[f]
    BY <1>2
  <2> QED BY <1>1, <2>1
<1>4. DeniedIds(b) = DeniedIds(a)
  <2>1. "denied_paths" \in DOMAIN Values \ open
    BY DEF Values
  <2>2. Authority(b)["denied_paths"] = DeniedIds(b) /\ Authority(a)["denied_paths"] = DeniedIds(a)
    BY <1>2, <2>1
  <2> QED BY <1>1, <2>2
<1>5. {b.denied_paths[i] : i \in DeniedIds(b)} = {a.denied_paths[i] : i \in DeniedIds(a)}
  BY <1>4, RebindingParts
<1> HIDE DEF open
<1>6. /\ b.default_write = a.default_write /\ b.rules = a.rules
      /\ b.builtins = a.builtins /\ b.tools_deny = a.tools_deny
      /\ b.mcp_mode = a.mcp_mode /\ b.servers = a.servers /\ b.selected_tools = a.selected_tools
      /\ b.commands_mode = a.commands_mode /\ b.templates = a.templates
  BY <1>3, FieldNames DEF open
<1>7. /\ b.subprocess = a.subprocess /\ b.mcp_open_world = a.mcp_open_world
      /\ b.allowed_destinations = a.allowed_destinations
      /\ b.host_mode = a.host_mode /\ b.host_grants = a.host_grants /\ b.git = a.git
      /\ b.output_mode = a.output_mode /\ b.output_roots = a.output_roots
  BY <1>3, FieldNames DEF open
<1>8. /\ b.sandbox_mode = a.sandbox_mode /\ b.unavailable = a.unavailable
      /\ b.unsandboxed_commands = a.unsandboxed_commands /\ b.limit = a.limit
  BY <1>3, FieldNames DEF open
<1>9. FilePowers(a) = FilePowers(b)
  BY <1>5, <1>6 DEF FilePowers
<1>10. McpPowers(a) = McpPowers(b) /\ CommandPowers(a) = CommandPowers(b)
  BY <1>6 DEF McpPowers, CommandPowers
<1>11. NetworkPowers(a) = NetworkPowers(b)
  <2>1. \A s \in {"subprocess", "mcp_open_world"} : a[s] = b[s]
    BY <1>7
  <2> QED BY <1>7, <2>1 DEF NetworkPowers
<1>12. HostPowers(a) = HostPowers(b)
  BY <1>7 DEF HostPowers
<1>13. SandboxPowers(a) = SandboxPowers(b)
  BY <1>6, <1>8 DEF SandboxPowers
<1> QED BY <1>6, <1>7, <1>8, <1>9, <1>10, <1>11, <1>12, <1>13 DEF Powers

\* A comparison that leaves no question open found no rule moved to another path.
LEMMA NothingOpen ==
  ASSUME NEW b, NEW a, Dimensions(b, a) \subseteq {"activation"}
  PROVE  "binding" \notin RebindingDiff(b, a).unresolved
<1>1. RebindingDiff(b, a).unresolved \subseteq Difference(b, a).unresolved
  BY DifferenceParts
<1> QED BY <1>1 DEF Dimensions

LEMMA NoHidden ==
  ASSUME NEW b, NEW a, Typed(b), Typed(a), Valid(a)
  PROVE  /\ Compare(b, a).kind = "exact" => Powers(a) = Powers(b)
         /\ Compare(b, a).kind = "narrower" => Powers(a) \ Powers(b) \subseteq Unseen(b, a)
<1>1. ASSUME Compare(b, a).kind \in {"exact", "narrower"}
      PROVE  /\ Unknowns(b, a) = {} /\ Dimensions(b, a) = {} /\ Difference(b, a).broader = {}
             /\ Known(b, a) = Compare(b, a).kind
  <2>1. Unknowns(b, a) = {} /\ Known(b, a) = Compare(b, a).kind
    BY <1>1, ReportParts
  <2>2. Difference(b, a).broader = {}
    BY <1>1, <2>1 DEF Known, ClassifyKnown
  <2>3. Dimensions(b, a) = {}
    BY <2>1 DEF Unknowns
  <2> QED BY <2>1, <2>2, <2>3
<1>2. ASSUME Compare(b, a).kind = "exact"
      PROVE  Powers(a) = Powers(b)
  <2>1. ~ AuthorityChanged(b, a)
    BY <1>1, <1>2 DEF Unknowns
  <2> QED BY <1>1, <1>2, <2>1, NothingOpen, SameAuthority
<1>3. ASSUME Compare(b, a).kind = "narrower"
      PROVE  Powers(a) \ Powers(b) \subseteq Unseen(b, a)
  BY <1>1, <1>3, WideningShows
<1> QED BY <1>2, <1>3

LEMMA WideningIsConfirmed ==
  ASSUME NEW b, NEW a, Typed(b), Typed(a), Valid(a),
         Powers(a) \ Powers(b) # {}, a.authority_expansion = "ask"
  PROVE  \/ "authority_change" \in Compare(b, a).confirmations
         \/ /\ Compare(b, a).kind = "narrower"
            /\ Powers(a) \ Powers(b) \subseteq Unseen(b, a)
<1>1. CASE Difference(b, a).broader # {}
  <2>1. Known(b, a) \in {"broader", "mixed"}
    BY <1>1 DEF Known, ClassifyKnown
  <2> QED BY <2>1, ReportParts
<1>2. CASE Dimensions(b, a) \ {"activation"} # {}
  <2>1. Unknowns(b, a) \ {"activation"} # {}
    BY <1>2 DEF Unknowns
  <2> QED BY <2>1, ReportParts
<1>3. CASE Difference(b, a).broader = {} /\ Dimensions(b, a) \subseteq {"activation"}
  <2>1. Powers(a) \ Powers(b) \subseteq Unseen(b, a)
    BY <1>3, WideningShows
  <2>2. Known(b, a) \in {"exact", "narrower"}
    BY <1>3 DEF Known, ClassifyKnown
  <2>3. CASE Known(b, a) = "exact"
    <3>1. AuthorityChanged(b, a)
      BY <1>3, NothingOpen, SameAuthority
    <3>2. "authority.projection" \in Unknowns(b, a)
      BY <2>3, <3>1 DEF Unknowns
    <3> QED BY <3>1, <3>2, ReportParts
  <2>4. CASE Known(b, a) = "narrower"
    <3>1. Compare(b, a).kind \in {"narrower", "unknown"}
      BY <2>4, ReportParts
    <3> QED BY <2>1, <2>4, <3>1, ReportParts
  <2> QED BY <2>2, <2>3, <2>4
<1> QED BY <1>1, <1>2, <1>3

\* Each section decides its two directions alike.
LEMMA DifferenceMirrors ==
  ASSUME NEW b, NEW a, Typed(b), Typed(a)
  PROVE  /\ Difference(b, a).broader = {} <=> Difference(a, b).narrower = {}
         /\ Difference(b, a).unresolved = Difference(a, b).unresolved
<1>1. Jumped(b, a) = Jumped(a, b)
  BY Sections
<1>2. WithoutJumped(AtomsDiff(b, a), Jumped(b, a)).broader = {}
        <=> WithoutJumped(AtomsDiff(a, b), Jumped(a, b)).narrower = {}
  BY <1>1, AtomsParts
<1>3. SandboxDiff(b, a).broader = {} <=> SandboxDiff(a, b).narrower = {}
  BY SandboxParts
<1>4. ResourcesDiff(b, a).broader = {} <=> ResourcesDiff(a, b).narrower = {}
  BY ResourcesParts
<1>5. \A s \in Jumped(b, a) :
        /\ ModeOrderedDiff(b, a, s).broader = {} <=> ModeOrderedDiff(a, b, s).narrower = {}
        /\ ModeOrderedDiff(b, a, s).unresolved = ModeOrderedDiff(a, b, s).unresolved
  BY ModeParts
<1>6. Difference(b, a).broader = {} <=> Difference(a, b).narrower = {}
  BY <1>1, <1>2, <1>3, <1>4, <1>5, DifferenceParts, RebindingParts
<1>7. UNION {ModeOrderedDiff(b, a, s).unresolved : s \in Jumped(b, a)}
        = UNION {ModeOrderedDiff(a, b, s).unresolved : s \in Jumped(a, b)}
  BY <1>1, <1>5
<1>8. /\ SandboxDiff(b, a).unresolved = SandboxDiff(a, b).unresolved
      /\ ResourcesDiff(b, a).unresolved = ResourcesDiff(a, b).unresolved
      /\ RebindingDiff(b, a).unresolved = RebindingDiff(a, b).unresolved
      /\ WithoutJumped(AtomsDiff(b, a), Jumped(b, a)).unresolved
           = WithoutJumped(AtomsDiff(a, b), Jumped(a, b)).unresolved
  BY SandboxParts, ResourcesParts, RebindingParts, AtomsParts
<1>9. Difference(b, a).unresolved = Difference(a, b).unresolved
  <2> DEFINE Found(x, y) == WithoutJumped(AtomsDiff(x, y), Jumped(x, y)).unresolved
                              \cup SandboxDiff(x, y).unresolved \cup ResourcesDiff(x, y).unresolved
                              \cup RebindingDiff(x, y).unresolved
             Climbed(x, y) == UNION {ModeOrderedDiff(x, y, s).unresolved : s \in Jumped(x, y)}
  <2>1. Difference(b, a).unresolved = Found(b, a) \cup Climbed(b, a)
    BY DifferenceParts, Zenon
  <2>2. Difference(a, b).unresolved = Found(a, b) \cup Climbed(a, b)
    BY DifferenceParts, Zenon
  <2>3. Found(b, a) = Found(a, b)
    BY <1>8, Zenon
  <2>4. Climbed(b, a) = Climbed(a, b)
    BY <1>7, Zenon
  <2> QED BY <2>1, <2>2, <2>3, <2>4, Zenon
<1> QED BY <1>6, <1>9

LEMMA ReportMirrors ==
  ASSUME NEW b, NEW a, Typed(b), Typed(a)
  PROVE  /\ Compare(a, b).kind = Mirror(Compare(b, a).kind)
         /\ Compare(a, b).known = Mirror(Compare(b, a).known)
<1>1. Known(a, b) = Mirror(Known(b, a))
  BY DifferenceMirrors DEF Known, ClassifyKnown, Mirror
<1>2. Known(a, b) = "exact" <=> Known(b, a) = "exact"
  BY DifferenceMirrors DEF Known, ClassifyKnown
<1>3. Dimensions(b, a) = Dimensions(a, b)
  BY DifferenceMirrors DEF Dimensions
<1>4. AuthorityChanged(b, a) <=> AuthorityChanged(a, b)
  BY DEF AuthorityChanged
<1>5. Unknowns(b, a) = Unknowns(a, b)
  BY <1>2, <1>3, <1>4 DEF Unknowns
<1>6. Mirror("unknown") = "unknown"
  BY DEF Mirror
<1> QED BY <1>1, <1>5, <1>6, ReportParts

-----------------------------------------------------------------------------
(* Types along the behaviours.                                             *)

\* What the type invariant says of each of the two policies.
WellFormed(p) ==
  /\ Typed(p) /\ Valid(p)
  /\ "allowlist" \in {p.subprocess, p.mcp_open_world} => p.allowed_destinations # {}

LEMMA TypeParts ==
  TypeOK <=> WellFormed(before) /\ WellFormed(after) /\ edits \in 0..MaxEdits
BY DEF TypeOK, WellFormed, Typed

LEMMA RetypedField ==
  ASSUME NEW p, Typed(p), NEW f \in DOMAIN Values, NEW v \in Values[f]
  PROVE  Typed([p EXCEPT ![f] = v])
BY DEF Typed

LEMMA NormalisedIsTyped ==
  ASSUME NEW p, Typed(p)
  PROVE  /\ Typed(Normalised(p))
         /\ LET n == Normalised(p) IN
              "allowlist" \in {n.subprocess, n.mcp_open_world} => n.allowed_destinations # {}
<1> DEFINE q == [p EXCEPT !.subprocess = ClosedWhenEmpty(@, p.allowed_destinations)]
           n == [q EXCEPT !.mcp_open_world = ClosedWhenEmpty(@, p.allowed_destinations)]
<1>1. {"subprocess", "mcp_open_world", "allowed_destinations"} \subseteq DOMAIN Values
  BY DEF Values
<1>2. "deny" \in Values["subprocess"] /\ "deny" \in Values["mcp_open_world"]
  BY DEF Values
<1>3. Typed(q)
  BY <1>1, <1>2, RetypedField DEF ClosedWhenEmpty, Typed
<1>4. Typed(n)
  BY <1>1, <1>2, <1>3, RetypedField DEF ClosedWhenEmpty, Typed
<1>5. Normalised(p) = n
  BY DEF Normalised
<1>6. /\ n.subprocess = ClosedWhenEmpty(p.subprocess, p.allowed_destinations)
      /\ n.mcp_open_world = ClosedWhenEmpty(p.mcp_open_world, p.allowed_destinations)
      /\ n.allowed_destinations = p.allowed_destinations
  BY <1>1 DEF Typed
<1> HIDE DEF n
<1> QED BY <1>4, <1>5, <1>6 DEF ClosedWhenEmpty

LEMMA DefaultIsTyped == Typed(Default)
<1>1. DOMAIN Default = DOMAIN Values
  BY FieldNames DEF Default
<1>2. Default.roots \in Values.roots /\ Default.templates \in Values.templates
      /\ Default.denied_paths \in Values.denied_paths
  BY DEF Default, Values
<1>3. Default.limit \in Values.limit
  BY PolicyAssumption DEF Default, Values, Unavailable, Unbounded
<1>4. \A f \in DOMAIN Values \ {"roots", "templates", "denied_paths", "limit"} : Default[f] \in Values[f]
  BY FieldNames DEF Default, Values
<1> QED BY <1>1, <1>2, <1>3, <1>4 DEF Typed

LEMMA ClosedIsTyped == Typed(Closed)
<1>1. "activation" \in DOMAIN Values /\ "available" \in Values["activation"]
  BY DEF Values
<1> QED BY <1>1, DefaultIsTyped, RetypedField DEF Closed

\* The fields of the policy that selects something everywhere.
LEMMA SelectedFields ==
  /\ DOMAIN Selected = DOMAIN Values
  /\ Selected.roots = [r \in Roots |-> "bound"] /\ Selected.rules = {"allow"} \X Roots
  /\ Selected.denied_paths \in Values.denied_paths /\ Selected.builtins = Tools
  /\ Selected.servers = McpServers
  /\ Selected.mcp_mode = "selected" /\ Selected.selected_tools = McpTools
  /\ Selected.commands_mode = "selected"
  /\ Selected.templates \in [Commands -> OutsideDefs]
  /\ Selected.subprocess = "allowlist" /\ Selected.mcp_open_world = "allowlist"
  /\ Selected.allowed_destinations # {} /\ Selected.allowed_destinations \subseteq Destinations
  /\ Selected.host_mode = "selected" /\ Selected.host_grants = HostGrants
  /\ Selected.output_mode = "worker" /\ Selected.output_roots = Roots
  /\ Selected.sandbox_mode = "preferred" /\ Selected.unavailable = "warn-and-run"
  /\ Selected.limit = 1
  /\ \A f \in {"default_write", "tools_deny", "git", "unsandboxed_commands", "activation",
              "authority_expansion", "unsandboxed_command"} : Selected[f] = Closed[f]
<1>1. DOMAIN Closed = DOMAIN Values
  BY ClosedIsTyped DEF Typed
<1>2. /\ (CHOOSE q \in Paths : TRUE) \in Paths
      /\ (CHOOSE d \in OutsideDefs : TRUE) \in OutsideDefs
      /\ (CHOOSE d \in Destinations : TRUE) \in Destinations
  BY PolicyAssumption
<1> USE <1>1, FieldNames DEF Selected
<1>3. DOMAIN Selected = DOMAIN Values
  OBVIOUS
<1>4. /\ Selected.roots = [r \in Roots |-> "bound"] /\ Selected.rules = {"allow"} \X Roots
      /\ Selected.denied_paths = [Closed.denied_paths EXCEPT ![OtherId] = CHOOSE q \in Paths : TRUE]
      /\ Selected.builtins = Tools /\ Selected.servers = McpServers
  OBVIOUS
<1>5. /\ Selected.mcp_mode = "selected" /\ Selected.selected_tools = McpTools
      /\ Selected.commands_mode = "selected"
      /\ Selected.templates = [c \in Commands |-> CHOOSE d \in OutsideDefs : TRUE]
  OBVIOUS
<1>6. /\ Selected.subprocess = "allowlist" /\ Selected.mcp_open_world = "allowlist"
      /\ Selected.allowed_destinations = {CHOOSE d \in Destinations : TRUE}
      /\ Selected.host_mode = "selected" /\ Selected.host_grants = HostGrants
  OBVIOUS
<1>7. /\ Selected.output_mode = "worker" /\ Selected.output_roots = Roots
      /\ Selected.sandbox_mode = "preferred" /\ Selected.unavailable = "warn-and-run"
      /\ Selected.limit = 1
  OBVIOUS
<1>8. /\ Selected.default_write = Closed.default_write /\ Selected.tools_deny = Closed.tools_deny
      /\ Selected.git = Closed.git
  OBVIOUS
<1>9. /\ Selected.unsandboxed_commands = Closed.unsandboxed_commands
      /\ Selected.activation = Closed.activation
  OBVIOUS
<1>10. /\ Selected.authority_expansion = Closed.authority_expansion
       /\ Selected.unsandboxed_command = Closed.unsandboxed_command
  OBVIOUS
<1>11. \A f \in {"default_write", "tools_deny", "git", "unsandboxed_commands", "activation",
                "authority_expansion", "unsandboxed_command"} : Selected[f] = Closed[f]
  BY <1>8, <1>9, <1>10
<1>12. Selected.denied_paths \in Values.denied_paths
  <2>1. Closed.denied_paths \in Values.denied_paths
    BY ClosedIsTyped DEF Typed
  <2> QED BY <1>2, <1>4, <2>1 DEF Values
<1> HIDE DEF Selected
<1> QED BY <1>2, <1>3, <1>4, <1>5, <1>6, <1>7, <1>11, <1>12

LEMMA SelectedIsWellFormed == WellFormed(Selected)
<1> USE SelectedFields, PolicyAssumption
<1>1. Selected.roots \in Values.roots /\ Selected.rules \in Values.rules
      /\ Selected.denied_paths \in Values.denied_paths /\ Selected.builtins \in Values.builtins
  BY DEF Values
<1>2. Selected.servers \in Values.servers
      /\ Selected.selected_tools \in Values.selected_tools /\ Selected.templates \in Values.templates
      /\ Selected.allowed_destinations \in Values.allowed_destinations
  BY DEF Values
<1>3. Selected.host_grants \in Values.host_grants /\ Selected.output_roots \in Values.output_roots
      /\ Selected.limit \in Values.limit
  BY DEF Values, Unavailable, Unbounded
<1>4. \A f \in {"mcp_mode", "commands_mode", "subprocess", "mcp_open_world", "host_mode",
               "output_mode", "sandbox_mode", "unavailable"} : Selected[f] \in Values[f]
  BY DEF Values
<1>5. \A f \in {"default_write", "tools_deny", "git", "unsandboxed_commands", "activation",
               "authority_expansion", "unsandboxed_command"} : Selected[f] \in Values[f]
  BY ClosedIsTyped, FieldNames DEF Typed
<1>6. Typed(Selected)
  BY <1>1, <1>2, <1>3, <1>4, <1>5, FieldNames DEF Typed
<1>7. Selected.unsandboxed_commands = {}
  BY DEF Closed, Default
<1>8. Declared(Selected) = Roots /\ Templates(Selected) = Commands
  BY DEF Declared, Templates
<1>9. Valid(Selected)
  <2>1. Selected.selected_tools # {} /\ \A t \in Selected.selected_tools : t[1] \in Selected.servers
    <3>1. PICK s \in McpServers, n \in McpNames : TRUE
      OBVIOUS
    <3>2. <<s, n>> \in McpTools /\ \A t \in McpTools : t[1] \in McpServers
      BY DEF McpTools
    <3> QED BY <3>2
  <2> QED BY <1>7, <1>8, <2>1 DEF Valid
<1> QED BY <1>6, <1>9 DEF WellFormed

LEMMA OpenIsWellFormed == WellFormed(Open)
<1>1. DOMAIN Selected = DOMAIN Values
  BY SelectedFields
<1>2. /\ Open.default_write = "allow" /\ Open.denied_paths = [Selected.denied_paths EXCEPT ![OtherId] = NoPath]
      /\ Open.mcp_mode = "unrestricted"
      /\ Open.commands_mode = "unrestricted" /\ Open.subprocess = "unrestricted"
      /\ Open.mcp_open_world = "unrestricted" /\ Open.host_mode = "unrestricted" /\ Open.git = "allow"
      /\ Open.unsandboxed_commands = Commands /\ Open.unavailable = "run" /\ Open.limit = Unbounded
      /\ DOMAIN Open = DOMAIN Values
  BY <1>1, FieldNames DEF Open
<1>3. \A f \in {"roots", "rules", "builtins", "tools_deny", "servers", "selected_tools", "templates",
               "allowed_destinations", "host_grants", "output_mode", "output_roots",
               "sandbox_mode", "activation", "authority_expansion", "unsandboxed_command"} :
        Open[f] = Selected[f]
  <2>1. \A f \in {"roots", "rules", "builtins", "tools_deny", "servers", "selected_tools", "templates",
                 "allowed_destinations"} : Open[f] = Selected[f]
    BY <1>1, FieldNames DEF Open
  <2>2. \A f \in {"host_grants", "output_mode", "output_roots", "sandbox_mode", "activation",
                 "authority_expansion", "unsandboxed_command"} : Open[f] = Selected[f]
    BY <1>1, FieldNames DEF Open
  <2> QED BY <2>1, <2>2
<1>4. \A f \in {"default_write", "mcp_mode", "commands_mode", "subprocess",
               "mcp_open_world", "host_mode", "git", "unsandboxed_commands", "unavailable"} :
        Open[f] \in Values[f]
  BY <1>2 DEF Values
<1>5. Open.limit \in Values.limit
  BY <1>2, PolicyAssumption DEF Values, Unavailable, Unbounded
<1>6. Open.denied_paths \in Values.denied_paths
  BY <1>2, SelectedFields DEF Values
<1>7. Typed(Open)
  BY <1>2, <1>3, <1>4, <1>5, <1>6, SelectedIsWellFormed, FieldNames DEF WellFormed, Typed
<1>8. Declared(Open) = Roots
  BY <1>3, SelectedFields DEF Declared
<1>9. Open.templates \in [Commands -> OutsideDefs]
  BY <1>3, SelectedFields
<1>10. Valid(Open)
  BY <1>2, <1>3, <1>8, <1>9, SelectedFields DEF Valid
<1> QED BY <1>2, <1>7, <1>10 DEF WellFormed

LEMMA DefaultIsWellFormed == WellFormed(Default)
<1>1. Valid(Default)
  BY DEF Valid, Default
<1> QED BY <1>1, DefaultIsTyped DEF WellFormed, Default

LEMMA ClosedIsWellFormed == WellFormed(Closed)
<1>1. \A f \in DOMAIN Values \ {"activation"} : Closed[f] = Default[f]
  BY DefaultIsTyped DEF Closed, Typed
<1>2. Valid(Closed)
  BY <1>1, FieldNames DEF Valid, Default
<1> QED BY <1>1, <1>2, FieldNames, ClosedIsTyped DEF WellFormed, Default

LEMMA PresetIsWellFormed ==
  ASSUME NEW roots \in SUBSET Roots, NEW sandbox \in {"required", "preferred", "off"}
  PROVE  WellFormed(Preset(roots, sandbox))
<1> DEFINE p == Preset(roots, sandbox)
<1>1. DOMAIN Default = DOMAIN Values
  BY DefaultIsTyped DEF Typed
<1>2. /\ p.roots = [r \in Roots |-> IF r \in roots THEN "unbound" ELSE "undeclared"]
      /\ p.rules = {"allow"} \X roots /\ p.mcp_mode = "unavailable"
      /\ p.commands_mode = "unavailable" /\ p.sandbox_mode = sandbox /\ p.limit = 1
      /\ DOMAIN p = DOMAIN Values
  BY <1>1, FieldNames DEF Preset
<1>3. \A f \in DOMAIN Values \ {"roots", "rules", "mcp_mode", "commands_mode", "sandbox_mode", "limit"} :
        p[f] = Default[f]
  BY <1>1, FieldNames DEF Preset
<1> HIDE DEF p
<1>4. p.roots \in Values.roots /\ p.rules \in Values.rules
  BY <1>2 DEF Values
<1>5. p.mcp_mode \in Values.mcp_mode /\ p.commands_mode \in Values.commands_mode
      /\ p.sandbox_mode \in Values.sandbox_mode
  BY <1>2 DEF Values
<1>6. p.limit \in Values.limit
  BY <1>2, PolicyAssumption DEF Values, Unavailable, Unbounded
<1>7. Typed(p)
  BY <1>2, <1>3, <1>4, <1>5, <1>6, DefaultIsTyped, FieldNames DEF Typed
<1>8. p.output_roots = {} /\ p.host_mode = "deny" /\ p.unsandboxed_commands = {}
      /\ p.subprocess = "deny" /\ p.mcp_open_world = "deny"
  BY <1>3, FieldNames DEF Default
<1>9. Valid(p)
  BY <1>2, <1>8 DEF Valid, Declared
<1> QED BY <1>7, <1>8, <1>9 DEF WellFormed, p

LEMMA InitTypeOK == Init => TypeOK
<1> SUFFICES ASSUME Init PROVE TypeOK
  OBVIOUS
<1>1. CASE before \in {Closed, Selected, Open} /\ after = before /\ edits = 0
  BY <1>1, ClosedIsWellFormed, SelectedIsWellFormed, OpenIsWellFormed, PolicyAssumption, TypeParts
<1>2. CASE before \in Presets /\ after \in Presets \ {before} /\ edits = 1
  BY <1>2, PresetIsWellFormed, PolicyAssumption, TypeParts DEF Presets
<1> QED BY <1>1, <1>2 DEF Init

LEMMA ReviseKeepsTypes ==
  ASSUME TypeOK, Revise
  PROVE  TypeOK'
<1>0. PICK f \in DOMAIN Values : \E v \in Values[f] :
        LET p == Normalised([after EXCEPT ![f] = v]) IN Valid(p) /\ after' = p
  BY DEF Revise
<1>1. PICK v \in Values[f] :
        LET p == Normalised([after EXCEPT ![f] = v]) IN Valid(p) /\ after' = p
  BY <1>0
<1>2. Typed([after EXCEPT ![f] = v])
  BY TypeParts, RetypedField DEF WellFormed
<1>3. WellFormed(after')
  BY <1>1, <1>2, NormalisedIsTyped DEF WellFormed
<1>4. before' = before /\ edits' \in 0..MaxEdits
  BY TypeParts, PolicyAssumption DEF Revise
<1> QED BY <1>3, <1>4, TypeParts DEF TypeOK, WellFormed, Typed, Valid, Templates, Declared

\* A root more, bound, breaks no rule of the document.
LEMMA WriteRootIsWellFormed ==
  ASSUME NEW p, WellFormed(p), NEW r \in Roots
  PROVE  WellFormed(WithWriteRoot(p, r))
<1> DEFINE q == WithWriteRoot(p, r)
<1>1. DOMAIN p = DOMAIN Values
  BY DEF WellFormed, Typed
<1>2. /\ DOMAIN q = DOMAIN Values
      /\ q.roots = [p.roots EXCEPT ![r] = "bound"] /\ q.rules = p.rules \cup {<<"allow", r>>}
      /\ \A f \in DOMAIN Values \ {"roots", "rules"} : q[f] = p[f]
  BY <1>1, FieldNames DEF WithWriteRoot
<1> HIDE DEF q
<1>3. p.roots \in Values.roots /\ p.rules \in Values.rules
  BY FieldNames DEF WellFormed, Typed
<1>4. q.roots \in Values.roots /\ q.rules \in Values.rules
  BY <1>2, <1>3 DEF Values
<1>5. Typed(q)
  BY <1>2, <1>4 DEF WellFormed, Typed
<1>6. Declared(p) \cup {r} \subseteq Declared(q)
  BY <1>2, <1>3 DEF Declared, Values
<1>7. Templates(q) = Templates(p)
  BY <1>2, FieldNames DEF Templates
<1>8. Valid(q)
  <2>1. Valid(p)
    BY DEF WellFormed
  <2>2. \A rule \in q.rules : rule[2] \in Declared(q)
    BY <1>2, <1>6, <2>1 DEF Valid
  <2>3. q.output_roots \subseteq Declared(q)
    BY <1>2, <1>6, <2>1, FieldNames DEF Valid
  <2> QED BY <1>2, <1>7, <2>1, <2>2, <2>3, FieldNames DEF Valid
<1> QED BY <1>2, <1>5, <1>8, FieldNames DEF WellFormed, q

LEMMA OutputDirIsWellFormed ==
  ASSUME NEW p, WellFormed(p), NEW r \in Roots
  PROVE  WellFormed(WithOutputDir(p, r))
<1> DEFINE q == WithOutputDir(p, r)
<1>1. DOMAIN p = DOMAIN Values
  BY DEF WellFormed, Typed
<1>2. /\ DOMAIN q = DOMAIN Values
      /\ q.roots = [p.roots EXCEPT ![r] = "bound"] /\ q.output_roots = p.output_roots \cup {r}
      /\ \A f \in DOMAIN Values \ {"roots", "output_roots"} : q[f] = p[f]
  BY <1>1, FieldNames DEF WithOutputDir
<1> HIDE DEF q
<1>3. p.roots \in Values.roots /\ p.output_roots \in Values.output_roots
  BY FieldNames DEF WellFormed, Typed
<1>4. q.roots \in Values.roots /\ q.output_roots \in Values.output_roots
  BY <1>2, <1>3 DEF Values
<1>5. Typed(q)
  BY <1>2, <1>4 DEF WellFormed, Typed
<1>6. Declared(p) \cup {r} \subseteq Declared(q)
  BY <1>2, <1>3 DEF Declared, Values
<1>7. Templates(q) = Templates(p)
  BY <1>2, FieldNames DEF Templates
<1>8. Valid(q)
  <2>1. Valid(p)
    BY DEF WellFormed
  <2>2. \A rule \in q.rules : rule[2] \in Declared(q)
    BY <1>2, <1>6, <2>1, FieldNames DEF Valid
  <2>3. q.output_roots \subseteq Declared(q)
    BY <1>2, <1>6, <2>1, FieldNames DEF Valid
  <2> QED BY <1>2, <1>7, <2>1, <2>2, <2>3, FieldNames DEF Valid
<1> QED BY <1>2, <1>5, <1>8, FieldNames DEF WellFormed, q

LEMMA NextTypeOK == TypeOK /\ [Next]_vars => TypeOK'
<1> SUFFICES ASSUME TypeOK, [Next]_vars PROVE TypeOK'
  OBVIOUS
<1> DEFINE Primed == WellFormed(before') /\ WellFormed(after') /\ edits' \in 0..MaxEdits
<1>1. WellFormed(before) /\ WellFormed(after) /\ edits \in 0..MaxEdits
  BY TypeParts
<1>2. CASE Revise
  BY <1>2, ReviseKeepsTypes
<1>3. CASE Explain
  <2>1. PICK r \in Roots : after' = WithWriteRoot(after, r) \/ after' = WithOutputDir(after, r)
    BY <1>3 DEF Explain
  <2>2. WellFormed(after')
    BY <1>1, <2>1, WriteRootIsWellFormed, OutputDirIsWellFormed
  <2>3. before' = before /\ edits' \in 0..MaxEdits
    BY <1>1, <1>3, PolicyAssumption DEF Explain
  <2> QED BY <1>1, <2>2, <2>3 DEF TypeOK, WellFormed, Typed
<1>4. CASE Resume
  BY <1>1, <1>4 DEF Resume, TypeOK, WellFormed, Typed
<1>5. CASE UNCHANGED vars
  BY <1>1, <1>5 DEF vars, TypeOK, WellFormed, Typed
<1> QED BY <1>2, <1>3, <1>4, <1>5 DEF Next

\* Both policies compared are documents normalize_policy accepts, in normal form.
THEOREM PolicyTypeCorrect == Spec => []TypeOK
BY InitTypeOK, NextTypeOK, PTL DEF Spec

\* The comparison never calls a step exact that gives a worker something it did
\* not have, nor one narrower but for what no atom stands for (compare_policies).
THEOREM ExpansionsShow == Spec => []NoHiddenExpansion
<1>1. TypeOK => NoHiddenExpansion
  BY TypeParts, NoHidden DEF WellFormed, NoHiddenExpansion, Report, Gained
<1> QED BY <1>1, PolicyTypeCorrect, PTL

\* Under a policy that asks, no widening goes without a confirmation but one that
\* no atom shows beside a narrowing, and no command leaves the sandbox without its own (confirmation_events).
THEOREM ExpansionsAreConfirmed == Spec => []ExpansionIsConfirmed
<1>1. TypeOK => ExpansionIsConfirmed
  <2> SUFFICES ASSUME TypeOK PROVE ExpansionIsConfirmed
    OBVIOUS
  <2>1. Gained # {} /\ after.authority_expansion = "ask"
          => \/ "authority_change" \in Report.confirmations
             \/ Report.kind = "narrower" /\ Gained \subseteq Unseen(before, after)
    BY TypeParts, WideningIsConfirmed DEF WellFormed, Report, Gained
  <2>2. ~ after.unsandboxed_commands \subseteq before.unsandboxed_commands
          /\ after.unsandboxed_command = "ask" => "sandbox_change" \in Report.confirmations
    BY ReportParts DEF Report
  <2> QED BY <2>1, <2>2 DEF ExpansionIsConfirmed
<1> QED BY <1>1, PolicyTypeCorrect, PTL

\* What widens one way narrows the other, in every section (compare_policies).
THEOREM ComparisonsMirror == Spec => []ReverseIsMirror
<1>1. TypeOK => ReverseIsMirror
  BY TypeParts, ReportMirrors DEF WellFormed, ReverseIsMirror, Report
<1> QED BY <1>1, PolicyTypeCorrect, PTL
=============================================================================
