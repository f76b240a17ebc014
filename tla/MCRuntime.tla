------------------------------ MODULE MCRuntime -------------------------------
(***************************************************************************)
(* A Fixture Run, Ctrl-C and what a Run rests on, on small instances, one  *)
(* component at a time: the plan of a Fixture Run, the credentials and the sign-in, *)
(* the provider's answers, Tool calls and Tool processes, the selected     *)
(* Executor, the Flow home, its registry and the values of a Flow.         *)
(***************************************************************************)
EXTENDS Cancellation, Integers, Sequences

CONSTANTS
  Exercised,  \* components
  PlanScenes  \* of the Fixture Runs

Free == "nobody"

\* Two commands of `flow login` and of Runs that refresh the token; the time is in units of
\* the refresh window.
Commands == {"p", "q"}

\* Tools with every kind of parameter, some of which no registry accepts.
Parameter(name, type, required, sets, min, max) ==
  [name |-> name, type |-> type, required |-> required, sets |-> sets, min |-> min, max |-> max]
Limits == {"value_pattern", "max_length"}
Between == {"min", "max"}
Tools ==
  [a |-> <<Parameter(1, "String", TRUE, Limits, 0, 1), Parameter(2, "Integer", FALSE, Between, 0, 1)>>,
   b |-> <<Parameter(1, "None", FALSE, {}, 0, 0), Parameter(2, "Path", FALSE, Limits, 0, 1)>>,
   c |-> <<Parameter(1, "Enum", TRUE, {"allowed_values"}, 0, 0)>>,
   d |-> <<Parameter(1, "Enum", FALSE, {"allowed_values"}, 0, 0)>>,
   e |-> <<Parameter(1, "Integer", TRUE, {"min"}, -1, 0), Parameter(2, "Path", TRUE, {}, 0, 0)>>,
   f |-> <<Parameter(1, "Integer", TRUE, Between, 1, 0)>>,
   g |-> <<Parameter(1, "String", TRUE, {"max_length"}, 0, 1)>>]

\* Programs an administrator installs one after another, and what is asked for meanwhile.
Program(ready, own, safe) == [ready |-> ready, own |-> own, safe |-> safe]
Custom == Program(TRUE, FALSE, TRUE)
Images ==
  [default |-> <<Program(TRUE, TRUE, TRUE), Custom>>,
   custom |-> <<Custom, Program(FALSE, FALSE, TRUE), Program(TRUE, FALSE, FALSE)>>,
   other |-> <<Custom>>, third |-> <<Custom>>]
Configure(path) == [op |-> "configure", path |-> path]
Restore == [op |-> "default", path |-> "none"]
RunTool == [op |-> "run", path |-> "none"]
Selected(tasks, before) == [tasks |-> tasks, config |-> before]
SelectionScenes ==
  {Selected([p |-> Configure("other"), q |-> Restore], "none"),
   Selected([p |-> Configure("other"), q |-> Configure("third")], "none"),
   Selected([p |-> Configure("custom"), q |-> Restore], "custom"),
   Selected([p |-> Configure("other"), q |-> RunTool], "third"),
   Selected([q |-> RunTool], "none"),
   Selected([q |-> RunTool], "custom")}

\* flow init and flow create.
Asked(op, root, id, title) == [op |-> op, root |-> root, at |-> "start", id |-> id, name |-> title, beside |-> FALSE]
Initialize(root) == Asked("init", root, "", "")
Create(id, title) == Asked("create", "", id, title)
AuthoringScenes ==
  {[p |-> Initialize("a"), q |-> Initialize("a"), r |-> Initialize("b")],
   [p |-> Initialize("a"), q |-> Create("x", "n"), r |-> Create("y", "n")],
   [p |-> Initialize("a"), q |-> Create("x", "n"), r |-> Create("x", "m")]}
------------------------------------------------------------------------------
(* Small Flows: those a Fixture Run executes, the registries they are loaded from, and their
   contracts, predicates and prompts. *)

Leaf(tools, oversized) ==
  [kind |-> "leaf", tools |-> tools, oversized |-> oversized, outOfPhase |-> FALSE, until |-> 0, max |-> 1, skip |-> 0]
Composite(phases, from) ==
  [kind |-> "composite", phases |-> phases, from |-> from, until |-> 0, max |-> 1, skip |-> 0]
Flow(id, phases, subflows) == [id |-> id, phases |-> phases, subflows |-> subflows]
Quick == [progress |-> FALSE, denied |-> FALSE]
Long == [progress |-> TRUE, denied |-> FALSE]
Denied == [progress |-> FALSE, denied |-> TRUE]

\* `large`, `outer` and `largeNested` run into the input budget, in a Phase of the Flow, of its
\* subflow, or within another Phase.
Tiny == Flow(9, <<Leaf(<<>>, 0)>>, <<>>)
Large == Flow(6, <<Leaf(<<Quick>>, 2)>>, <<>>)
FixtureFlows ==
  [nested |-> Flow(1, <<Composite(<<Composite(<<Leaf(<<Long>>, 0)>>, 1)>>, 0)>>, <<Flow(2, <<Leaf(<<Quick>>, 0)>>, <<>>)>>),
   looping |-> Flow(3, <<[Leaf(<<>>, 0) EXCEPT !.until = 2, !.max = 2, !.skip = 1], Leaf(<<>>, 0),
                         [Leaf(<<>>, 0) EXCEPT !.until = 3, !.max = 2]>>, <<Tiny>>),
   refusing |-> Flow(4, <<Leaf(<<Quick, Denied>>, 0)>>, <<>>),
   strange |-> Flow(5, <<[Leaf(<<Quick>>, 0) EXCEPT !.outOfPhase = TRUE]>>, <<>>),
   large |-> Large,
   outer |-> Flow(8, <<Leaf(<<>>, 0)>>, <<Tiny, Large>>),
   largeNested |-> Flow(7, <<Composite(<<Leaf(<<>>, 1)>>, 0)>>, <<>>),
   tiny |-> Tiny,
   pair |-> Flow(10, <<Leaf(<<>>, 0)>>, <<Flow(11, <<Leaf(<<Quick>>, 0)>>, <<>>)>>)]
FixtureScenes ==
  {[flows |-> [r |-> f], crashes |-> 2] : f \in DOMAIN FixtureFlows \ {"tiny", "largeNested"}}
  \cup {[flows |-> [r |-> "pair", s |-> "tiny"], crashes |-> 1]}

\* The input budget is exceeded in a Phase within a Phase.
OversizedScenes == {[flows |-> [r |-> f], crashes |-> 0] : f \in {"large", "largeNested"}}
------------------------------------------------------------------------------
(* Registries: what the directories hold, which Flows are loaded, and what is created or edited. *)

Node(kind, id, name) ==
  [kind |-> kind, id |-> id, name |-> name, phases |-> <<>>, flows |-> <<>>, tools |-> <<>>,
   from |-> {}, jumps |-> <<>>, output |-> 1]
FlowNode(id, name, phases, flows) == [Node("flow", id, name) EXCEPT !.phases = phases, !.flows = flows]
PhaseNode(id, name, phases) ==
  [Node("phase", id, name) EXCEPT !.phases = phases, !.from = IF phases = <<>> THEN {} ELSE {phases[1]}]
LeafNode(id, name, tools) == [Node("phase", id, name) EXCEPT !.tools = tools]
ToolNode(id, name) == Node("tool", id, name)

Directory == [flow |-> 1, phase |-> 2, tool |-> 3]
Of(blocks) == [p \in {<<Directory[blocks[i].kind], i>> : i \in DOMAIN blocks} |-> blocks[p[2]]]
Loading(blocks, flows) ==
  [files |-> Of(blocks), flows |-> flows, creates |-> <<>>, edits |-> {}, valid |-> FALSE]
At(path, block) == [path |-> path, block |-> block]

References == UNION {[1..n -> {1, 2, 3, 15}] : n \in 0..2}

\* Phases within Phases, cyclic, too deep or too many.
Nesting ==
  {Loading(<<FlowNode(7, 8, <<r>>, <<>>), PhaseNode(1, 4, a), PhaseNode(2, 5, b), PhaseNode(3, 6, c)>>, {8}) :
     a \in References, b \in References, c \in {<<>>, <<1>>, <<2>>, <<3>>, <<1, 2>>, <<2, 15>>}, r \in {1, 3}}

\* Ids and names that meet, and references by either.
Naming ==
  {Loading(<<FlowNode(7, 7, <<r>>, <<>>), LeafNode(1, n, <<t>>), LeafNode(2, m, <<>>), ToolNode(1, k), ToolNode(3, 14)>>, {7}) :
     r \in {1, 2, 4, 14, 5}, n \in {1, 2, 4, 14}, m \in {1, 2, 4, 14}, t \in {1, 3, 4, 14}, k \in {1, 3, 4}}

\* Flows within Flows.
Subflows ==
  {Loading(<<FlowNode(1, 4, <<9>>, a), FlowNode(2, 5, <<9>>, b), FlowNode(3, 6, <<9>>, c), LeafNode(9, 9, <<>>)>>, {1}) :
     a \in References, b \in References, c \in {<<>>, <<1>>, <<2>>}}

\* Transitions, and the output of a composite Phase.
Jumps ==
  {Loading(<<[FlowNode(7, 8, <<1, 2>>, <<>>) EXCEPT !.jumps = <<[from |-> f, to |-> t, when |-> w]>>],
             LeafNode(1, 4, <<>>), [LeafNode(2, 5, <<>>) EXCEPT !.output = 2], LeafNode(3, 6, <<>>)>>, {7}) :
     f \in {1, 2, 3, 4, 15}, t \in {1, 2, 3, 5}, w \in {1, 2}}
  \cup
  {Loading(<<FlowNode(7, 8, <<1>>, <<>>), [PhaseNode(1, 4, <<2, 3>>) EXCEPT !.from = f, !.output = o],
             [LeafNode(2, 5, <<>>) EXCEPT !.output = 2], LeafNode(3, 6, <<>>)>>, {7}) :
     f \in {{}, {1}, {2}, {3}, {16}}, o \in {1, 2}}

\* flow create, while a Flow is loaded.
Created ==
  {[Loading(<<FlowNode(7, 8, <<1>>, <<>>), LeafNode(1, 4, <<>>)>>, {7, 6}) EXCEPT !.valid = TRUE,
      !.creates = <<At(<<2, 3>>, LeafNode(2, n, <<>>)), At(<<1, 5>>, FlowNode(6, 6, <<2>>, <<7>>)),
                    At(<<2, 4>>, PhaseNode(3, 9, <<1, 2>>))>>] :
     n \in {4, 5, 1, 14}}

\* A user's edits of the files, while a Flow is loaded.
EditedNodes ==
  {[Loading(<<FlowNode(7, 8, <<1>>, <<>>), LeafNode(1, 4, <<1>>), LeafNode(2, 5, <<>>), ToolNode(1, 1)>>, {7}) EXCEPT
      !.edits = {At(<<2, 2>>, b), At(<<2, 3>>, c), At(<<1, 1>>, f)}] :
     b \in {LeafNode(2, 5, <<>>), LeafNode(1, 5, <<>>), PhaseNode(1, 4, <<2>>), LeafNode(3, 4, <<>>)},
     c \in {LeafNode(2, 6, <<>>), LeafNode(1, 4, <<>>), PhaseNode(2, 5, <<1>>)},
     f \in {FlowNode(6, 8, <<1>>, <<>>), FlowNode(5, 6, <<1, 2>>, <<>>)}}

Registries == Nesting \cup Naming \cup Subflows \cup Jumps \cup Created \cup EditedNodes
------------------------------------------------------------------------------
(* Contracts, predicates and prompts. *)

Contract(type, min, max, parts) == [type |-> type, min |-> min, max |-> max, parts |-> parts]
Part(name, required, contract) == [name |-> name, required |-> required, contract |-> contract]

Flag == Contract("boolean", {}, {}, <<>>)
Text == Contract("string", {}, {1}, <<>>)
Numbers == {Contract("integer", {}, {}, <<>>), Contract("integer", {1}, {1}, <<>>), Contract("integer", {1}, {0}, <<>>)}
Basic == {Flag, Text} \cup Numbers
Lists(contracts) == {Contract("list", {}, max, <<Part("", TRUE, c)>>) : max \in {{}, {0}, {1}}, c \in contracts}
Maps(contracts) ==
  {Contract("map", {}, {}, <<>>)}
  \cup {Contract("map", {}, {}, <<Part("k1", r, c)>>) : r \in BOOLEAN, c \in contracts}
  \cup {Contract("map", {}, {}, <<Part("k1", r, c), Part(k, TRUE, Flag)>>) : r \in BOOLEAN, c \in contracts, k \in {"k1", "k2"}}
SmallContracts == Basic \cup Lists(Basic) \cup Maps(Basic) \cup Lists(Maps({Flag, Text})) \cup Maps(Lists({Flag, Text}))

PathSteps == {<<"k1", 0>>, <<"k2", 0>>, <<"", 0>>, <<"", 1>>, <<"", 2>>, <<"bad", 0>>}
True == <<"boolean", 1, <<>>>>
SmallValues ==
  {True, <<"integer", 1, <<>>>>, <<"integer", 2, <<>>>>, <<"string", 1, <<>>>>, <<"string", 2, <<>>>>,
   <<"list", 0, <<>>>>, <<"list", 0, <<True>>>>, <<"map", 0, <<>>>>, <<"map", 0, <<<<"k1", 0, <<True>>>>>>>>}
SmallPredicates == {[path |-> p, equals |-> e] : p \in UNION {[1..n -> PathSteps] : n \in 0..2}, e \in SmallValues}

Placeholder(name) == <<"{", "{", name, "}", "}">>
SmallPrompts ==
  UNION {[1..n -> {"{", "}", "a", "t"}] : n \in 1..6}
  \cup {Placeholder("a") \o x \o Placeholder("b") : x \in UNION {[1..n -> {"{", "}", "a", "b"}] : n \in 0..3}}
SmallParameters == SUBSET {"a", "b"}
------------------------------------------------------------------------------
VARIABLES
  component,   \* the one that is exercised; the others stay at rest
  plan, fixture_run, live, ran, lost, down, disk, durable, lock, stages, proc, clock, tokens,
  promised, mishaps, mode, at, elapsed, interval, asked, polled, page, response_at,
  response_cancelled, text, decoder, events, result, tool, arguments, value, call_tokens,
  leader, status, member, written, read, process_cancelled, overdue, process_at, primary,
  observed, class, signals, expired, installed, config, select_durable, select_stages,
  select_lock, select_proc, child, losses, admitted, settled, entries, unsynced, lease,
  author_lock, author_proc, author_losses, files, loader, scene, touched, subject, given,
  verdict

Fixture == INSTANCE FixturePlan WITH
  Flows <- FixtureFlows, Scenes <- PlanScenes, MaxEvents <- 28, MaxLive <- 2, Cuts <- 1,
  run <- fixture_run

Credential == INSTANCE Credentials WITH
  Procs <- Commands, Nobody <- Free, Window <- 1, Lifetimes <- {0, 1, 3}, MaxExpiry <- 3,
  MaxTime <- 1, MaxTokens <- 3, Mishaps <- 1

Device == INSTANCE Login WITH
  AuthOverall <- 12, DeviceOverall <- 180, MaxPollInterval <- 12, ConnectionDeadline <- 1

Response == INSTANCE Responses WITH
  Tokens <- {"n", "r", "d", "j"},
  Openings <- {<<"j", "n", "j", "j", "n", "n">>, <<"d", "j", "n", "n", "j", "n">>, <<"d", "j", "n", "n", "d", "j", "n", "n">>},
  Chunk <- 2, MaxLine <- 2, MaxEvent <- 2, MaxEvents <- 2, MaxWire <- 12, at <- response_at,
  cancelled <- response_cancelled

Call == INSTANCE ToolCalls WITH
  MaxEntries <- 3, MaxBytes <- 1, tokens <- call_tokens

Process == INSTANCE ToolProcess WITH
  Cap <- 1, MaxOutput <- 3, cancelled <- process_cancelled, at <- process_at

Select == INSTANCE Selection WITH
  Scenes <- SelectionScenes, Nobody <- Free, Limit <- 1, Dispatches <- 1, MaxLosses <- 1,
  durable <- select_durable, stages <- select_stages, lock <- select_lock, proc <- select_proc

Author == INSTANCE Authoring WITH
  Scenes <- AuthoringScenes, Nobody <- Free, MaxLosses <- 1, lock <- author_lock,
  proc <- author_proc, losses <- author_losses

Reg == INSTANCE Registry WITH
  MaxNesting <- 2, MaxFanout <- 2, MaxEntries <- 6, Scenes <- Registries

Value == INSTANCE FlowValues WITH
  MaxDepth <- 3, MaxMembers <- 2, Contracts <- SmallContracts, Predicates <- SmallPredicates,
  Prompts <- SmallPrompts, Parameters <- SmallParameters

FixtureRests == plan = 0 /\ fixture_run = 0 /\ live = 0 /\ ran = 0 /\ lost = 0 /\ down = 0
CredentialRests == disk = 0 /\ durable = 0 /\ lock = 0 /\ stages = 0 /\ proc = 0 /\ clock = 0 /\
                    tokens = 0 /\ promised = 0 /\ mishaps = 0
DeviceRests == mode = 0 /\ at = 0 /\ elapsed = 0 /\ interval = 0 /\ asked = 0 /\ polled = 0 /\
                page = 0
ResponseRests == response_at = 0 /\ response_cancelled = 0 /\ text = 0 /\ decoder = 0 /\ events = 0 /\
                  result = 0
CallRests == tool = 0 /\ arguments = 0 /\ value = 0 /\ call_tokens = 0
ProcessRests == leader = 0 /\ status = 0 /\ member = 0 /\ written = 0 /\ read = 0 /\
                 process_cancelled = 0 /\ overdue = 0 /\ process_at = 0 /\ primary = 0 /\ observed = 0 /\
                 class = 0 /\ signals = 0 /\ expired = 0
SelectRests == installed = 0 /\ config = 0 /\ select_durable = 0 /\ select_stages = 0 /\
                select_lock = 0 /\ select_proc = 0 /\ child = 0 /\ losses = 0 /\ admitted = 0 /\
                settled = 0
AuthorRests == entries = 0 /\ unsynced = 0 /\ lease = 0 /\ author_lock = 0 /\ author_proc = 0 /\
                author_losses = 0
RegRests == files = 0 /\ loader = 0 /\ scene = 0 /\ touched = 0
ValueRests == subject = 0 /\ given = 0 /\ verdict = 0

FixtureVars == <<plan, fixture_run, live, ran, lost, down>>
CredentialVars == <<disk, durable, lock, stages, proc, clock, tokens, promised, mishaps>>
DeviceVars == <<mode, at, elapsed, interval, asked, polled, page>>
ResponseVars == <<response_at, response_cancelled, text, decoder, events, result>>
CallVars == <<tool, arguments, value, call_tokens>>
ProcessVars == <<leader, status, member, written, read, process_cancelled, overdue, process_at,
                 primary, observed, class, signals, expired>>
SelectVars == <<installed, config, select_durable, select_stages, select_lock, select_proc,
                child, losses, admitted, settled>>
AuthorVars == <<entries, unsynced, lease, author_lock, author_proc, author_losses>>
RegVars == <<files, loader, scene, touched>>
ValueVars == <<subject, given, verdict>>
all == <<component, vars, FixtureVars, CredentialVars, DeviceVars, ResponseVars, CallVars,
         ProcessVars, SelectVars, AuthorVars, RegVars, ValueVars>>

AllInit ==
  /\ component \in Exercised
  /\ \/ component = "interrupts" /\ Init /\ FixtureRests /\ CredentialRests /\ DeviceRests /\
           ResponseRests /\ CallRests /\ ProcessRests /\ SelectRests /\ AuthorRests /\ RegRests /\
           ValueRests
     \/ component = "plans" /\ Init /\ Fixture!Init /\ CredentialRests /\ DeviceRests /\
           ResponseRests /\ CallRests /\ ProcessRests /\ SelectRests /\ AuthorRests /\ RegRests /\
           ValueRests
     \/ component = "credentials" /\ Init /\ Credential!Init /\ FixtureRests /\ DeviceRests /\
           ResponseRests /\ CallRests /\ ProcessRests /\ SelectRests /\ AuthorRests /\ RegRests /\
           ValueRests
     \/ component = "login" /\ Init /\ Device!Init /\ FixtureRests /\ CredentialRests /\
           ResponseRests /\ CallRests /\ ProcessRests /\ SelectRests /\ AuthorRests /\ RegRests /\
           ValueRests
     \/ component = "responses" /\ Init /\ Response!Init /\ FixtureRests /\ CredentialRests /\
           DeviceRests /\ CallRests /\ ProcessRests /\ SelectRests /\ AuthorRests /\ RegRests /\
           ValueRests
     \/ component = "calls" /\ Init /\ Call!Init /\ FixtureRests /\ CredentialRests /\ DeviceRests /\
           ResponseRests /\ ProcessRests /\ SelectRests /\ AuthorRests /\ RegRests /\ ValueRests
     \/ component = "process" /\ Init /\ Process!Init /\ FixtureRests /\ CredentialRests /\
           DeviceRests /\ ResponseRests /\ CallRests /\ SelectRests /\ AuthorRests /\ RegRests /\
           ValueRests
     \/ component = "selection" /\ Init /\ Select!Init /\ FixtureRests /\ CredentialRests /\
           DeviceRests /\ ResponseRests /\ CallRests /\ ProcessRests /\ AuthorRests /\ RegRests /\
           ValueRests
     \/ component = "authoring" /\ Init /\ Author!Init /\ FixtureRests /\ CredentialRests /\
           DeviceRests /\ ResponseRests /\ CallRests /\ ProcessRests /\ SelectRests /\ RegRests /\
           ValueRests
     \/ component = "registry" /\ Init /\ Reg!Init /\ FixtureRests /\ CredentialRests /\ DeviceRests /\
           ResponseRests /\ CallRests /\ ProcessRests /\ SelectRests /\ AuthorRests /\ ValueRests
     \/ component = "values" /\ Init /\ Value!Init /\ FixtureRests /\ CredentialRests /\ DeviceRests /\
           ResponseRests /\ CallRests /\ ProcessRests /\ SelectRests /\ AuthorRests /\ RegRests

AllNext ==
  \/ component = "interrupts" /\ Next /\ UNCHANGED <<component, FixtureVars, CredentialVars,
        DeviceVars, ResponseVars, CallVars, ProcessVars, SelectVars, AuthorVars, RegVars,
        ValueVars>>
  \/ component = "plans" /\ Fixture!Next /\ UNCHANGED <<component, vars, CredentialVars,
        DeviceVars, ResponseVars, CallVars, ProcessVars, SelectVars, AuthorVars, RegVars,
        ValueVars>>
  \/ component = "credentials" /\ Credential!Next /\ UNCHANGED <<component, vars, FixtureVars,
        DeviceVars, ResponseVars, CallVars, ProcessVars, SelectVars, AuthorVars, RegVars,
        ValueVars>>
  \/ component = "login" /\ Device!Next /\ UNCHANGED <<component, vars, FixtureVars,
        CredentialVars, ResponseVars, CallVars, ProcessVars, SelectVars, AuthorVars, RegVars,
        ValueVars>>
  \/ component = "responses" /\ Response!Next /\ UNCHANGED <<component, vars, FixtureVars,
        CredentialVars, DeviceVars, CallVars, ProcessVars, SelectVars, AuthorVars, RegVars,
        ValueVars>>
  \/ component = "calls" /\ Call!Next /\ UNCHANGED <<component, vars, FixtureVars,
        CredentialVars, DeviceVars, ResponseVars, ProcessVars, SelectVars, AuthorVars, RegVars,
        ValueVars>>
  \/ component = "process" /\ Process!Next /\ UNCHANGED <<component, vars, FixtureVars,
        CredentialVars, DeviceVars, ResponseVars, CallVars, SelectVars, AuthorVars, RegVars,
        ValueVars>>
  \/ component = "selection" /\ Select!Next /\ UNCHANGED <<component, vars, FixtureVars,
        CredentialVars, DeviceVars, ResponseVars, CallVars, ProcessVars, AuthorVars, RegVars,
        ValueVars>>
  \/ component = "authoring" /\ Author!Next /\ UNCHANGED <<component, vars, FixtureVars,
        CredentialVars, DeviceVars, ResponseVars, CallVars, ProcessVars, SelectVars, RegVars,
        ValueVars>>
  \/ component = "registry" /\ Reg!Next /\ UNCHANGED <<component, vars, FixtureVars,
        CredentialVars, DeviceVars, ResponseVars, CallVars, ProcessVars, SelectVars, AuthorVars,
        ValueVars>>
  \/ component = "values" /\ Value!Next /\ UNCHANGED <<component, vars, FixtureVars,
        CredentialVars, DeviceVars, ResponseVars, CallVars, ProcessVars, SelectVars, AuthorVars,
        RegVars>>

AllSpec == AllInit /\ [][AllNext]_all
------------------------------------------------------------------------------
\* The stream of a Fixture session, however often its process crashes, is one that the
\* lifecycle validator accepts; each effect runs at most once; a Resume is refused only for a
\* cause; and every slot of a live Flow is returned (apply_plan, resume_fixture_run).
FixtureStreams ==
  component = "plans" =>
    Fixture!StreamAccepted /\ Fixture!EffectsOnce /\ Fixture!RefusalsJustified /\ Fixture!SlotsReturned

\* A Fixture Run whose context is too large ends with a recorded error and a failed session.
OversizedRecorded == component = "plans" => Fixture!OversizedRecorded

\* A rotated refresh token is never used twice nor lost, so no command signs the user out;
\* what a login or refresh reported is on disk, and a resolved token is usable.  A sign-in
\* ends within its time, and polls no faster than the service last asked for.
CredentialsKept ==
  /\ component = "credentials" =>
       /\ Credential!NeverSignedOut /\ Credential!RefreshInPlace
       /\ Credential!ReportedIsDurable /\ Credential!ResolvedUsable
  /\ component = "login" => Device!EndsInTime /\ Device!PollsPaced

\* A provider's streamed answer is decoded whole however it is cut, a turn ends once, with
\* everything the provider sent, and an error is called definitive only when the provider
\* answered.
ResponsesWhole ==
  component = "responses" =>
    Response!DecodedWhole /\ Response!TurnComplete /\ Response!DefinitiveIsAnswered

\* The schema a provider is shown accepts exactly what the Tool's own check accepts, but for
\* what a schema does not say; a signal never reaches a process group that is gone, and a
\* Tool's outcome is what happened first.
ToolsAsDeclared ==
  /\ component = "calls" => Call!SchemaAgrees /\ Call!AcceptedRuns
  /\ component = "process" => Process!NoStraySignal /\ Process!OutcomeTold

\* The selected Executor is one that was probed, a reported selection survives a power loss,
\* a Run starts only the image it probed, and neither probes nor staging files are left.
SelectionHolds ==
  component = "selection" =>
    Select!SelectionSettled /\ Select!RunsAdmitted /\ Select!ProbesEnd /\ Select!StagesSwept

\* A Flow home that counts as settled is whole and on disk, what init and create reported
\* holds, and no two definitions share a name, whoever creates them at the same time.  A
\* Flow is refused only for a cause, a loaded one is the closure of what the files said at
\* one time, and flow create keeps the registry valid.  A predicate that a Flow is accepted
\* with holds for some value of its contract, and a prompt is rendered with exactly its
\* parameters.
FlowsSound ==
  /\ component = "authoring" => Author!SettledIsWhole /\ Author!ReportsHold /\ Author!NamesUnique
  /\ component = "registry" => Reg!RefusedForCause /\ Reg!LoadedWhole /\ Reg!StaysValid
  /\ component = "values" => Value!PredicatesReachable /\ Value!RenderedWhole
==============================================================================
