------------------------------ MODULE MCLaunch ------------------------------
(* Launch on small instances: every profile with the arguments that its     *)
(* tables tell apart, and pairs of runs that meet in one scratch directory. *)
EXTENDS Launch

CONSTANTS r1, r2

Outside == <<"tmp">>
Inside == <<"state", "shared">>
Orphaned == <<"nowhere", "tmp">>

AllPlaces == {Outside, Inside, Orphaned, RunDir(r1)}

AllFlags == {"sandbox", "setting-sources", "auto-mode"}

Memory == [servers |-> {"memory"}, exists |-> TRUE, parses |-> TRUE, admitted |-> TRUE]

\* What a well-behaved caller asks of profile p, and what its worker shows.
Usual(p) ==
  [ profile |-> p, permission |-> None, tools |-> {}, allowed |-> {}, disallowed |-> {},
    commands |-> IF Definition(Canonical(p)).commands THEN {"test"} ELSE {},
    artifact |-> Definition(Canonical(p)).artifact, owned |-> Definition(Canonical(p)).owned,
    scratch |-> None, mcp |-> << >>, cli |-> AllFlags, paths |-> TRUE,
    shows |-> Definition(Canonical(p)).tools \union {"WebFetch"}, log |-> 1, limit |-> 4 ]

Custom ==
  [ Usual("strict-readonly") EXCEPT !.profile = None, !.permission = "dontAsk",
    !.tools = {"Read"}, !.cli = {} ]

\* One argument off at a time.
Variants(q) ==
  {q} \union {[q EXCEPT !.permission = m] : m \in {"dontAsk", "acceptEdits"}}
  \union {[q EXCEPT !.tools = t] : t \in {{"Read"}, {"Read", "Bash"}, {"Write"}}}
  \union {[q EXCEPT !.tools = {"Read"}, !.shows = s] : s \in {{"Read"}, {"Read", "Bash"}, None}}
  \union {[q EXCEPT !.allowed = a] : a \in {{"Bash(test)"}, {"Write"}, {"mcp__other__query"},
                                            {"mcp__memory__search"}}}
  \union {[q EXCEPT !.allowed = {"mcp__memory__search"}, !.mcp = c,
                    !.shows = {"Read", "mcp__memory__search", "mcp__memory__trace"}] :
            c \in {<<Memory>>, <<Memory, Memory>>, <<[Memory EXCEPT !.servers = {"other"}]>>,
                   <<[Memory EXCEPT !.admitted = FALSE]>>, <<[Memory EXCEPT !.parses = FALSE]>>,
                   <<[Memory EXCEPT !.exists = FALSE]>>}}
  \union {[q EXCEPT !.disallowed = {"Grep"}, !.allowed = a] : a \in {{}, {"Grep"}}}
  \union {[q EXCEPT !.commands = c] : c \in SUBSET Commands}
  \union {[q EXCEPT !.artifact = ~@], [q EXCEPT !.owned = ~@], [q EXCEPT !.paths = FALSE]}
  \union {[q EXCEPT !.cli = AllFlags \ {f}] : f \in AllFlags}
  \union {[q EXCEPT !.scratch = d] : d \in AllPlaces}
  \union {[q EXCEPT !.shows = @ \union {"Edit", "Monitor"}], [q EXCEPT !.shows = None]}
  \union {[q EXCEPT !.limit = n, !.log = h] : n \in {3, 4, 5}, h \in 0 .. 2}

Alone(q) == (r1 :> q) @@ (r2 :> None)

Together(q, s) == (r1 :> q) @@ (r2 :> s)

Review(d) == [Usual("verified-review") EXCEPT !.scratch = d]
Implement(d) == [Usual("implementation") EXCEPT !.scratch = d]

SmallScenarios ==
  {Alone(q) : q \in UNION {Variants(Usual(p)) : p \in Names} \union Variants(Custom)
                    \union {[Custom EXCEPT !.profile = "reviewer"]}}
  \union {Together(Review(Outside), Implement(Outside)),
          Together(Review(Inside), Review(None)),
          Together(Review(None), Review(RunDir(r1)))}
=============================================================================
