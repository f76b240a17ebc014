------------------------------- MODULE Registry -------------------------------
(***************************************************************************)
(* The registry of Flows, Phases and Tools (core-script: naming.rs,        *)
(* registry.rs, load.rs and load/): blocks with an id and a name, found by *)
(* either; the validation of a whole registry; the loading of one Flow     *)
(* with all it refers to, in two passes over the files; and the addition   *)
(* of a definition, with users editing the files beside it.                *)
(*                                                                         *)
(* Ids and names come from one set of numbers; a name n that is no id may  *)
(* be written in another Unicode form as n + 10.  Instructions are referred to as Tools  *)
(* are and are left out.  A contract is a number, and a predicate fits the *)
(* contract with its number (FlowValues has both).                         *)
(***************************************************************************)
EXTENDS Naturals, Sequences, FiniteSets

CONSTANTS MaxNesting, MaxFanout, MaxEntries,
          Scenes   \* the files there are, who loads, who creates, who edits

VARIABLES files,   \* the blocks of the registry, by path
          loader, scene, touched

vars == <<files, loader, scene, touched>>

\* normalize_string
Norm(token) == token % 10

Ids(blocks) == {blocks[i] : i \in DOMAIN blocks}

\* canonicalize_registry_block: every text in its normal form
canonicalize_registry_block(b) ==
  LET All(refs) == [i \in DOMAIN refs |-> Norm(refs[i])]
  IN  [b EXCEPT !.name = Norm(@), !.phases = All(@), !.flows = All(@), !.tools = All(@),
                !.from = {Norm(r) : r \in @},
                !.jumps = [i \in DOMAIN @ |-> [@[i] EXCEPT !.from = Norm(@), !.to = Norm(@)]]]
-----------------------------------------------------------------------------
\* Mutant: an id may be the name of another block.
Clashes_apart(x, b) == x.kind = b.kind /\ (x.id = b.id \/ Norm(x.name) = Norm(b.name))

\* insert_named_block refuses a block with another's id or name as its own id or
\* name.
Clashes(x, b) ==
  x.kind = b.kind /\ (x.id = b.id \/ Norm(x.name) = b.id \/ x.id = b.name \/ Norm(x.name) = Norm(b.name))

insert_named_block(blocks, b) == \A i \in DOMAIN blocks : ~Clashes(blocks[i], b)

\* named_block, RegistryCatalog::resolve: by id, or else by name
named_block(blocks, kind, ref) ==
  LET byId == {b \in Ids(blocks) : b.kind = kind /\ b.id = ref}
  IN  IF byId # {} THEN byId ELSE {b \in Ids(blocks) : b.kind = kind /\ Norm(b.name) = Norm(ref)}

Id(blocks, kind, ref) == (CHOOSE b \in named_block(blocks, kind, ref) : TRUE).id

validate_phase_semantics(b) ==
  IF b.phases = <<>> THEN b.from = {} /\ b.jumps = <<>> ELSE b.tools = <<>> /\ b.from # {}

validate_flow_semantics(b) == b.phases # <<>>

validate_registry_block_semantics(b) ==
  /\ b.kind = "phase" => validate_phase_semantics(b)
  /\ b.kind = "flow" => validate_flow_semantics(b)

Require(blocks, kind, refs) == \A i \in DOMAIN refs : named_block(blocks, kind, refs[i]) # {}

\* phase_positions, and the same for Tools: each is there, once
Distinct(blocks, kind, refs) ==
  /\ Require(blocks, kind, refs)
  /\ \A i, j \in DOMAIN refs : Id(blocks, kind, refs[i]) = Id(blocks, kind, refs[j]) => i = j

Position(blocks, refs, ref) == {i \in DOMAIN refs : named_block(blocks, "phase", refs[i]) = named_block(blocks, "phase", ref)}

\* Mutant: a transition may also lead back.
Forward_any(source, target) == source # {} /\ target # {}

Forward(source, target) == \E i \in source, j \in target : i < j

validate_transitions(blocks, b) ==
  \A k \in DOMAIN b.jumps :
    LET jump == b.jumps[k] IN
      /\ Require(blocks, "phase", <<jump.from, jump.to>>)
      /\ Forward(Position(blocks, b.phases, jump.from), Position(blocks, b.phases, jump.to))
      /\ \A source \in named_block(blocks, "phase", jump.from) : source.output = jump.when

ValidReferences(blocks, b) ==
  /\ Distinct(blocks, "tool", b.tools)
  /\ Distinct(blocks, "phase", b.phases)
  /\ \A r \in b.from :
       \E x \in named_block(blocks, "phase", r) :
         Position(blocks, b.phases, r) # {} /\ x.output = b.output
  /\ Require(blocks, "flow", b.flows)
  /\ validate_transitions(blocks, b)
-----------------------------------------------------------------------------
Children(b) == IF b.kind = "phase" THEN b.phases ELSE b.flows
TailOf(visited, id) == CHOOSE d \in 0..MaxNesting : <<id, d>> \in visited

\* Mutant: what was visited is not looked at again.
Known_trusted(visited, id, depth) == TRUE

\* A block that was visited is as deep as its tail.
Known(visited, id, depth) == depth + TailOf(visited, id) - 1 <= MaxNesting

\* visit_phase, visit_flow: refused at a cycle, a chain too long or a fan-out too
\* wide; otherwise what is known of tails afterwards.
RECURSIVE visit(_, _, _, _, _)
visit(blocks, b, depth, visiting, visited) ==
  LET RECURSIVE each(_, _, _)
      each(i, known, tail) ==
        IF i > Len(Children(b)) THEN {known \cup {<<b.id, tail>>}}
        ELSE LET child == CHOOSE c \in named_block(blocks, b.kind, Children(b)[i]) : TRUE
             IN  UNION {each(i + 1, after, IF TailOf(after, child.id) + 1 > tail
                                           THEN TailOf(after, child.id) + 1 ELSE tail) :
                          after \in visit(blocks, child, depth + 1, visiting \cup {b.id}, known)}
  IN  IF depth > MaxNesting THEN {}
      ELSE IF \E d \in 0..MaxNesting : <<b.id, d>> \in visited
      THEN IF Known(visited, b.id, depth) THEN {visited} ELSE {}
      ELSE IF b.id \in visiting \/ Len(Children(b)) > MaxFanout THEN {}
      ELSE each(1, visited, 1)

\* validate_phase_cycles, validate_flow_cycles: with one cache for the pass, over
\* the blocks by id
validate_cycles(blocks, kind) ==
  LET RECURSIVE pass(_, _)
      pass(left, visited) ==
        IF left = {} THEN TRUE
        ELSE LET b == CHOOSE x \in left : \A y \in left : x.id <= y.id
             IN  \E after \in visit(blocks, b, 1, {}, visited) : pass(left \ {b}, after)
  IN  pass({b \in Ids(blocks) : b.kind = kind}, {})

validate_references(blocks) ==
  /\ \A b \in Ids(blocks) : ValidReferences(blocks, b)
  /\ validate_cycles(blocks, "phase") /\ validate_cycles(blocks, "flow")

RECURSIVE Inserted(_, _)
Inserted(blocks, done) ==
  \/ blocks = <<>>
  \/ /\ validate_registry_block_semantics(Head(blocks)) /\ insert_named_block(done, Head(blocks))
     /\ Inserted(Tail(blocks), Append(done, Head(blocks)))

\* ResolvedRegistry::from_blocks
from_blocks(blocks) ==
  LET canonical == [i \in DOMAIN blocks |-> canonicalize_registry_block(blocks[i])]
  IN  Inserted(canonical, <<>>) /\ validate_references(canonical)

\* Mutant: a reference that is a name is kept.
canonicalize_reference_kept(blocks, kind, ref) == ref

canonicalize_reference(blocks, kind, ref) ==
  LET named == {b \in Ids(blocks) : b.kind = kind /\ b.name = ref}
  IN  IF named = {} THEN ref ELSE (CHOOSE b \in named : TRUE).id

with_canonical_references(blocks) ==
  LET canonical == [i \in DOMAIN blocks |-> canonicalize_registry_block(blocks[i])]
      All(kind, refs) == [i \in DOMAIN refs |-> canonicalize_reference(canonical, kind, refs[i])]
      One(ref) == canonicalize_reference(canonical, "phase", ref)
  IN  {[b EXCEPT !.phases = All("phase", @), !.flows = All("flow", @), !.tools = All("tool", @),
                 !.from = {One(r) : r \in @},
                 !.jumps = [i \in DOMAIN @ |-> [@[i] EXCEPT !.from = One(@), !.to = One(@)]]] :
         b \in Ids(canonical)}
-----------------------------------------------------------------------------
Dirs == {1, 2, 3}
Nothing == [at |-> "idle", flow |-> 0, dirs |-> {}, paths |-> {}, catalog |-> <<>>, pending |-> <<>>,
            loaded |-> {}, blocks |-> <<>>, began |-> <<>>]

Before(p, q) == p[1] < q[1] \/ (p[1] = q[1] /\ p[2] <= q[2])
First(paths) == CHOOSE p \in paths : \A q \in paths : Before(p, q)
Refuse == loader' = [loader EXCEPT !.at = "refused"]

\* load_for_flow_from_root opens the registry.
Load ==
  /\ loader.at = "idle"
  /\ \E ref \in scene.flows :
       loader' = [Nothing EXCEPT !.at = "collect", !.flow = ref, !.dirs = Dirs, !.began = files]
  /\ touched' = {} /\ UNCHANGED <<files, scene>>

\* collect_registry_files_with_limits: a directory is listed
Collect(dir) ==
  /\ loader.at = "collect" /\ dir \in loader.dirs
  /\ LET found == loader.paths \cup {p \in DOMAIN files : p[1] = dir}
     IN  IF Cardinality(found) > MaxEntries THEN Refuse
         ELSE loader' = [loader EXCEPT !.paths = found, !.dirs = @ \ {dir},
                                       !.at = IF loader.dirs = {dir} THEN "read" ELSE @]
  /\ UNCHANGED <<files, scene, touched>>

\* The first pass: every file is parsed, and its identity noted.
Read ==
  /\ loader.at = "read" /\ loader.paths # {}
  /\ LET p == First(loader.paths) IN
       IF /\ p \in DOMAIN files
          /\ validate_registry_block_semantics(files[p])
          /\ insert_named_block(loader.catalog, files[p])
       THEN loader' = [loader EXCEPT !.paths = @ \ {p},
              !.catalog = Append(@, [path |-> p, kind |-> files[p].kind, id |-> files[p].id,
                                     name |-> files[p].name])]
       ELSE Refuse
  /\ UNCHANGED <<files, scene, touched>>

RequireRoot ==
  /\ loader.at = "read" /\ loader.paths = {}
  /\ LET root == named_block(loader.catalog, "flow", loader.flow)
     IN  IF root = {} THEN Refuse
         ELSE loader' = [loader EXCEPT !.at = "close",
                           !.pending = <<<<"flow", Id(loader.catalog, "flow", loader.flow)>>>>]
  /\ UNCHANGED <<files, scene, touched>>

\* Mutant: a Flow's own Flows are not loaded.
enqueue_dependencies_phases(catalog, b) ==
  LET Refs(kind, refs) == [i \in DOMAIN refs |-> <<kind, refs[i]>>]
  IN  Refs("tool", b.tools) \o Refs("phase", b.phases)

\* enqueue_dependencies
enqueue_dependencies(catalog, b) ==
  LET Refs(kind, refs) == [i \in DOMAIN refs |-> <<kind, refs[i]>>]
  IN  Refs("tool", b.tools) \o Refs("phase", b.phases) \o Refs("flow", b.flows)

\* Mutant: the file is not compared with what the first pass found.
Unchanged_any(entry, b) == TRUE

Unchanged(entry, b) == b.kind = entry.kind /\ b.id = entry.id /\ b.name = entry.name

\* The second pass: what the Flow refers to is read again, the last found first.
Close ==
  /\ loader.at = "close" /\ loader.pending # <<>>
  /\ LET next == loader.pending[Len(loader.pending)]
         rest == SubSeq(loader.pending, 1, Len(loader.pending) - 1)
         entry == CHOOSE e \in named_block(loader.catalog, next[1], next[2]) : TRUE
         p == entry.path
         refs == enqueue_dependencies(loader.catalog, files[p])
         Found(r) == <<r[1], Id(loader.catalog, r[1], r[2])>>
     IN  IF next \in loader.loaded THEN loader' = [loader EXCEPT !.pending = rest]
         ELSE IF /\ p \in DOMAIN files
                 /\ validate_registry_block_semantics(files[p]) /\ Unchanged(entry, files[p])
                 /\ \A i \in DOMAIN refs : named_block(loader.catalog, refs[i][1], refs[i][2]) # {}
              THEN loader' = [loader EXCEPT !.loaded = @ \cup {next}, !.blocks = Append(@, files[p]),
                                !.pending = rest \o [i \in DOMAIN refs |-> Found(refs[i])]]
              ELSE Refuse
  /\ UNCHANGED <<files, scene, touched>>

Resolve ==
  /\ loader.at = "close" /\ loader.pending = <<>>
  /\ IF from_blocks(loader.blocks) THEN loader' = [loader EXCEPT !.at = "loaded"] ELSE Refuse
  /\ UNCHANGED <<files, scene, touched>>

RECURSIVE All(_)
All(paths) == IF paths = {} THEN <<>> ELSE <<files[First(paths)]>> \o All(paths \ {First(paths)})

\* Mutant: only the block itself is validated.
validate_addition_alone(b) == validate_registry_block_semantics(b)

\* validate_addition_from_root_dir: with everything that is there
validate_addition(b) ==
  /\ Cardinality(DOMAIN files) < MaxEntries
  /\ from_blocks(All(DOMAIN files) \o <<b>>)

\* flow create, under the lock that Authoring models.
CreateBlock ==
  /\ scene.creates # <<>>
  /\ LET c == Head(scene.creates) IN
       IF c.path \notin DOMAIN files /\ validate_addition(c.block)
       THEN /\ files' = [p \in DOMAIN files \cup {c.path} |-> IF p = c.path THEN c.block ELSE files[p]]
            /\ touched' = touched \cup {"created"}
       ELSE UNCHANGED <<files, touched>>
  /\ scene' = [scene EXCEPT !.creates = Tail(@)]
  /\ UNCHANGED loader

\* A user saves a definition in an editor.
Edit ==
  /\ \E e \in scene.edits :
       /\ files' = [p \in DOMAIN files \cup {e.path} |-> IF p = e.path THEN e.block ELSE files[p]]
       /\ scene' = [scene EXCEPT !.edits = @ \ {e}]
  /\ touched' = touched \cup {"edited"}
  /\ UNCHANGED loader

Init ==
  /\ loader = Nothing /\ touched = {}
  /\ scene \in Scenes /\ files = scene.files

Next ==
  \/ Load \/ (\E dir \in Dirs : Collect(dir)) \/ Read \/ RequireRoot \/ Close \/ Resolve
  \/ CreateBlock \/ Edit

Spec == Init /\ [][Next]_vars
-----------------------------------------------------------------------------
\* What it means for the files to define a Flow, said without the loader: a
\* reference names a block by its id or its name.
Names(p, reg) == {reg[p].id, Norm(reg[p].name)}
Denoted(reg, kind, ref) == {p \in DOMAIN reg : reg[p].kind = kind /\ Norm(ref) \in Names(p, reg)}

Refs(b) ==
  {<<"tool", b.tools[i]>> : i \in DOMAIN b.tools} \cup {<<"phase", b.phases[i]>> : i \in DOMAIN b.phases}
    \cup {<<"flow", b.flows[i]>> : i \in DOMAIN b.flows}
Below(reg, p) == UNION {Denoted(reg, r[1], r[2]) : r \in Refs(reg[p])}

RECURSIVE Reach(_, _)
Reach(reg, from) ==
  LET more == from \cup UNION {Below(reg, p) : p \in from} IN IF more = from THEN from ELSE Reach(reg, more)

\* No chain of blocks of one kind is longer than the limit; so there is no cycle.
Shallow(reg, within) ==
  LET RECURSIVE Chains(_)
      Chains(n) == IF n = 1 THEN {<<p>> : p \in within}
                   ELSE UNION {{Append(c, q) : q \in {x \in Below(reg, c[n - 1]) : reg[x].kind = reg[c[n - 1]].kind}} :
                                 c \in Chains(n - 1)}
  IN  Chains(MaxNesting + 1) = {}

Indices(reg, refs, ref) == {i \in DOMAIN refs : Denoted(reg, "phase", refs[i]) = Denoted(reg, "phase", ref)}

Acceptable(reg, flow) ==
  /\ Cardinality(DOMAIN reg) <= MaxEntries
  /\ \A p \in DOMAIN reg : validate_registry_block_semantics(reg[p])
  /\ \A p, q \in DOMAIN reg : p # q /\ reg[p].kind = reg[q].kind => Names(p, reg) \cap Names(q, reg) = {}
  /\ Denoted(reg, "flow", flow) # {}
  /\ LET within == Reach(reg, Denoted(reg, "flow", flow)) IN
       /\ Shallow(reg, within)
       /\ \A p \in within :
            LET b == reg[p] IN
              /\ \A r \in Refs(b) : Denoted(reg, r[1], r[2]) # {}
              /\ \A i, j \in DOMAIN b.phases :
                   Denoted(reg, "phase", b.phases[i]) = Denoted(reg, "phase", b.phases[j]) => i = j
              /\ \A i, j \in DOMAIN b.tools :
                   Denoted(reg, "tool", b.tools[i]) = Denoted(reg, "tool", b.tools[j]) => i = j
              /\ b.kind = "phase" => Len(b.phases) <= MaxFanout
              /\ Len(b.flows) <= MaxFanout
              /\ \A r \in b.from : /\ Indices(reg, b.phases, r) # {}
                                   /\ \A q \in Denoted(reg, "phase", r) : reg[q].output = b.output
              /\ \A k \in DOMAIN b.jumps :
                   /\ \E i \in Indices(reg, b.phases, b.jumps[k].from), j \in Indices(reg, b.phases, b.jumps[k].to) : i < j
                   /\ \A q \in Denoted(reg, "phase", b.jumps[k].from) : reg[q].output = b.jumps[k].when

\* A Flow loads exactly when the files define it, and what is created beside the
\* load never makes it fail.
RefusedForCause ==
  /\ loader.at = "refused" /\ "edited" \notin touched => ~Acceptable(loader.began, loader.flow)
  /\ loader.at = "loaded" /\ touched = {} => Acceptable(loader.began, loader.flow)

\* A registry that was loaded is complete, whatever was saved while it was read:
\* every reference in it is the id of one of its blocks, nothing in it is beyond
\* the Flow's reach, and no chain in it is too long.
LoadedWhole ==
  loader.at = "loaded" =>
    LET blocks == with_canonical_references(loader.blocks)
        reg == [b \in blocks |-> b]
        root == Denoted(reg, "flow", loader.flow)
    IN  /\ root # {} /\ Reach(reg, root) = blocks
        /\ \A b \in blocks :
             /\ \A r \in Refs(b) : Cardinality({c \in blocks : c.kind = r[1] /\ c.id = r[2]}) = 1
             /\ \A r \in b.from : \E i \in DOMAIN b.phases : b.phases[i] = r
        /\ Shallow(reg, blocks)

\* Definitions that only commands make are always a registry that validates.
StaysValid == scene.valid => from_blocks(All(DOMAIN files))
=============================================================================
