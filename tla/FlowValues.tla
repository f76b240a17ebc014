------------------------------ MODULE FlowValues ------------------------------
(***************************************************************************)
(* The values of a Flow (core-script values.rs, semantics.rs and           *)
(* proto's flow_value.rs): closed recursive values, the contracts they are *)
(* validated against, the path predicates of loops and transitions with    *)
(* their check against a contract, and the rendering of an Instruction's   *)
(* prompt.                                                                 *)
(*                                                                         *)
(* A value is <<type, n, parts>>: n is a Boolean (0 or 1), an integer, or  *)
(* the length of a string; the parts of a list are its members and those   *)
(* of a map its fields <<key, 0, <<value>>>>.  A contract is a record with *)
(* the same parts; an absent bound is the empty set.  Texts are sequences  *)
(* of characters.  The limits on nodes and bytes of a value are left out:  *)
(* only its depth and its members are bounded.                             *)
(***************************************************************************)
EXTENDS Naturals, Integers, Sequences, FiniteSets

CONSTANTS MaxDepth, MaxMembers,
          Contracts, Predicates, \* what is checked against what
          Prompts, Parameters    \* and what is rendered with what

VARIABLES subject,  \* a contract or a prompt
          given,    \* a predicate or the names of the parameters declared
          verdict   \* what was decided of them

vars == <<subject, given, verdict>>

Keys == {"k1", "k2"}

\* validate_key: 1 to 128 characters, in normal form
validate_key(key) == key \in Keys
-----------------------------------------------------------------------------
\* validate_flow_value_v0
RECURSIVE validate_at(_, _)
validate_at(value, depth) ==
  /\ depth <= MaxDepth
  /\ value[1] \in {"list", "map"} => Len(value[3]) <= MaxMembers
  /\ value[1] = "list" => \A i \in DOMAIN value[3] : validate_at(value[3][i], depth + 1)
  /\ value[1] = "map" => \A i \in DOMAIN value[3] :
                           validate_key(value[3][i][1]) /\ validate_at(value[3][i][3][1], depth + 1)

validate_flow_value(value) == validate_at(value, 1)

\* validate_value_contract_definition
RECURSIVE validate_value_contract_at(_, _)
validate_value_contract_at(contract, depth) ==
  /\ depth <= MaxDepth
  /\ contract.type = "integer" => \A low \in contract.min, high \in contract.max : low <= high
  /\ contract.type = "list" => \A count \in contract.max : count <= MaxMembers
  /\ contract.type = "map" =>
       /\ Len(contract.parts) <= MaxMembers
       /\ \A i, j \in DOMAIN contract.parts : contract.parts[i].name = contract.parts[j].name => i = j
       /\ \A i \in DOMAIN contract.parts : validate_key(contract.parts[i].name)
  /\ \A i \in DOMAIN contract.parts : validate_value_contract_at(contract.parts[i].contract, depth + 1)

validate_value_contract_definition(contract) == validate_value_contract_at(contract, 1)

\* The value a map holds for a key.
Field(value, key) == {value[3][i][3][1] : i \in {j \in DOMAIN value[3] : value[3][j][1] = key}}

RECURSIVE validate_against_contract_at(_, _)
validate_against_contract_at(value, contract) ==
  /\ value[1] = contract.type
  /\ value[1] = "integer" => /\ \A low \in contract.min : value[2] >= low
                             /\ \A high \in contract.max : value[2] <= high
  /\ value[1] = "string" => \A high \in contract.max : value[2] <= high
  /\ value[1] = "list" =>
       /\ \A high \in contract.max : Len(value[3]) <= high
       /\ \A i \in DOMAIN value[3] : validate_against_contract_at(value[3][i], contract.parts[1].contract)
  /\ value[1] = "map" =>
       /\ \A i \in DOMAIN contract.parts :
            LET field == contract.parts[i] IN
              /\ field.required => Field(value, field.name) # {}
              /\ \A part \in Field(value, field.name) : validate_against_contract_at(part, field.contract)
       /\ \A i \in DOMAIN value[3] :
            \E j \in DOMAIN contract.parts : contract.parts[j].name = value[3][i][1]

validate_flow_value_against_contract(value, contract) ==
  /\ validate_flow_value(value) /\ validate_value_contract_definition(contract)
  /\ validate_against_contract_at(value, contract)
-----------------------------------------------------------------------------
\* A predicate's path is a sequence of fields <<key, 0>> and indices <<"", i>>.
IsField(segment) == segment[1] # ""

validate_predicate_definition(predicate) ==
  /\ \A i \in DOMAIN predicate.path : IsField(predicate.path[i]) => validate_key(predicate.path[i][1])
  /\ validate_flow_value(predicate.equals)

\* predicate_matches: what the path selects in the value, if anything
RECURSIVE Selected(_, _)
Selected(value, path) ==
  IF path = <<>> THEN {value}
  ELSE LET segment == Head(path)
           next == IF value[1] = "map" /\ IsField(segment) THEN Field(value, segment[1])
                   ELSE IF value[1] = "list" /\ ~IsField(segment) /\ segment[2] < Len(value[3])
                        THEN {value[3][segment[2] + 1]}
                        ELSE {}
       IN  UNION {Selected(part, Tail(path)) : part \in next}

predicate_matches(value, predicate) == Selected(value, predicate.path) = {predicate.equals}

\* Mutant: an index equal to the number of items a list may have.
SelectsIndex_past(contract, segment) ==
  LET maximum_items == IF contract.max = {} THEN {MaxMembers} ELSE contract.max
  IN  \A high \in maximum_items : segment[2] <= high

SelectsIndex(contract, segment) ==
  LET maximum_items == IF contract.max = {} THEN {MaxMembers} ELSE contract.max
  IN  \A high \in maximum_items : segment[2] < high

\* The contract of what a path selects, if it can select anything.
RECURSIVE SelectedContract(_, _)
SelectedContract(contract, path) ==
  IF path = <<>> THEN {contract}
  ELSE LET segment == Head(path)
           next == IF contract.type = "map" /\ IsField(segment)
                   THEN {contract.parts[i].contract : i \in {j \in DOMAIN contract.parts :
                                                               contract.parts[j].name = segment[1]}}
                   ELSE IF contract.type = "list" /\ ~IsField(segment) /\ SelectsIndex(contract, segment)
                        THEN {contract.parts[1].contract}
                        ELSE {}
       IN  UNION {SelectedContract(part, Tail(path)) : part \in next}

validate_predicate_against_contract(predicate, contract) ==
  /\ validate_predicate_definition(predicate)
  /\ validate_value_contract_definition(contract)
  /\ \E selected \in SelectedContract(contract, predicate.path) :
       validate_flow_value_against_contract(predicate.equals, selected)
-----------------------------------------------------------------------------
\* An Instruction's prompt.  Names are single characters; the rendered value of
\* a parameter is the character itself, marked.
Names == {"a", "b"}
Value(name) == <<"value", name>>
Chars(text) == [i \in DOMAIN text |-> <<"char", text[i]>>]
Open == <<"{", "{">>
Close == <<"}", "}">>

\* str::find: what comes before the first occurrence, if there is one
Before(text, part) ==
  LET at == {i \in 1..(Len(text) - Len(part) + 1) : SubSeq(text, i, i + Len(part) - 1) = part}
  IN  IF at = {} THEN {} ELSE {SubSeq(text, 1, CHOOSE i \in 0..Len(text) : i + 1 \in at
                                                 /\ \A j \in at : i + 1 <= j)}

Contains(text, part) == Before(text, part) # {}
After(text, count) == SubSeq(text, count + 1, Len(text))
IsName(text) == Len(text) = 1 /\ text[1] \in Names

\* Mutant: text after the last placeholder is not looked at.
instruction_placeholders_loose(prompt) ==
  LET RECURSIVE scan(_)
      scan(rest) ==
        IF ~Contains(rest, Open) THEN {{}}
        ELSE LET before == CHOOSE b \in Before(rest, Open) : TRUE
                 after == After(rest, Len(before) + 2)
                 ok == ~Contains(before, Close) /\ Contains(after, Close)
                 name == CHOOSE n \in Before(after, Close) : TRUE
             IN  IF ~ok \/ ~IsName(name) THEN {}
                 ELSE {found \cup {name[1]} : found \in scan(After(after, Len(name) + 2))}
  IN  scan(prompt)

\* The placeholders of a prompt, or nothing when it is malformed.
instruction_placeholders(prompt) ==
  LET RECURSIVE scan(_)
      scan(rest) ==
        IF ~Contains(rest, Open) THEN IF Contains(rest, Close) THEN {} ELSE {{}}
        ELSE LET before == CHOOSE b \in Before(rest, Open) : TRUE
                 after == After(rest, Len(before) + 2)
                 ok == ~Contains(before, Close) /\ Contains(after, Close)
                 name == CHOOSE n \in Before(after, Close) : TRUE
             IN  IF ~ok \/ ~IsName(name) THEN {}
                 ELSE {found \cup {name[1]} : found \in scan(After(after, Len(name) + 2))}
  IN  scan(prompt)

Placeholder(name) == Open \o <<name>> \o Close

validate_instruction_semantics(prompt, parameters) ==
  /\ \A name \in parameters : Contains(prompt, Placeholder(name))
  /\ \E names \in instruction_placeholders(prompt) : names \subseteq parameters

\* render_instruction, for parameters that were given as declared
RECURSIVE render_instruction(_, _)
render_instruction(prompt, parameters) ==
  IF ~Contains(prompt, Open) THEN Chars(prompt)
  ELSE LET before == CHOOSE b \in Before(prompt, Open) : TRUE
           after == After(prompt, Len(before) + 2)
           name == CHOOSE n \in Before(after, Close) : TRUE
       IN  IF ~Contains(after, Close) THEN Chars(prompt)
           ELSE IF IsName(name) /\ name[1] \in parameters
                THEN Chars(before) \o <<Value(name[1])>>
                       \o render_instruction(After(after, Len(name) + 2), parameters)
                ELSE Chars(before) \o Chars(Open) \o render_instruction(after, parameters)
-----------------------------------------------------------------------------
Init ==
  \E at \in {"contract", "prompt"} :
    /\ verdict = [at |-> at, ok |-> FALSE, text |-> <<>>]
    /\ \/ at = "contract" /\ subject \in Contracts /\ given \in Predicates
       \/ at = "prompt" /\ subject \in Prompts /\ given \in Parameters

\* A loop's or a transition's predicate is validated.
CheckPredicate ==
  /\ verdict.at = "contract"
  /\ verdict' = [at |-> "predicate", text |-> <<>>,
                 ok |-> validate_predicate_against_contract(given, subject)]
  /\ UNCHANGED <<subject, given>>

\* An Instruction is validated, and rendered when it is accepted.
CheckInstruction ==
  /\ verdict.at = "prompt"
  /\ LET ok == validate_instruction_semantics(subject, given)
     IN  verdict' = [at |-> "instruction", ok |-> ok,
                     text |-> IF ok THEN render_instruction(subject, given) ELSE <<>>]
  /\ UNCHANGED <<subject, given>>

Next == CheckPredicate \/ CheckInstruction

Spec == Init /\ [][Next]_vars
-----------------------------------------------------------------------------
\* The values of a contract, with its free integers in a small range and its
\* unbounded lists and strings cut at one part more than a path here selects.
RECURSIVE ValuesOf(_)
ValuesOf(contract) ==
  CASE contract.type = "boolean" -> {<<"boolean", n, <<>>>> : n \in 0..1}
    [] contract.type = "integer" ->
         {<<"integer", n, <<>>>> : n \in {m \in 0..2 : /\ \A low \in contract.min : low <= m
                                                       /\ \A high \in contract.max : m <= high}}
    [] contract.type = "string" ->
         {<<"string", n, <<>>>> : n \in {m \in 0..2 : \A high \in contract.max : m <= high}}
    [] contract.type = "list" ->
         LET counts == {m \in 0..MaxMembers : \A high \in contract.max : m <= high}
         IN  UNION {{<<"list", 0, parts>> : parts \in [1..n -> ValuesOf(contract.parts[1].contract)]} :
                      n \in counts}
    [] contract.type = "map" ->
         LET fields == contract.parts
             Choices(i) == {<<<<fields[i].name, 0, <<v>>>>>> : v \in ValuesOf(fields[i].contract)}
                             \cup (IF fields[i].required THEN {} ELSE {<<>>})
         IN  IF fields = <<>> THEN {<<"map", 0, <<>>>>}
             ELSE IF Len(fields) = 1 THEN {<<"map", 0, x>> : x \in Choices(1)}
             ELSE {<<"map", 0, x \o y>> : x \in Choices(1), y \in Choices(2)}

\* A predicate is accepted for a loop or a transition exactly when some value
\* its Phase may produce satisfies it: an accepted one can become true, and a
\* refused one never could (validate_predicate_against_contract with
\* predicate_matches).
PredicatesReachable ==
  verdict.at = "predicate" /\ validate_value_contract_definition(subject)
    /\ validate_predicate_definition(given) =>
      (verdict.ok <=> \E value \in ValuesOf(subject) : predicate_matches(value, given))

Count(text, part) ==
  Cardinality({i \in 1..(Len(text) - Len(part) + 1) : SubSeq(text, i, i + Len(part) - 1) = part})

\* The rendering of an accepted Instruction has every placeholder replaced, each
\* as often as it is written, and nothing else of the prompt changed: no brace
\* pair is left for the model to read.
RenderedWhole ==
  verdict.at = "instruction" /\ verdict.ok =>
    /\ ~Contains(verdict.text, Chars(Open)) /\ ~Contains(verdict.text, Chars(Close))
    /\ \A name \in Names : Count(verdict.text, <<Value(name)>>) = Count(subject, Placeholder(name))
    /\ Len(verdict.text) = Len(subject) - 4 * Count(verdict.text, <<Value("a")>>)
                                        - 4 * Count(verdict.text, <<Value("b")>>)
=============================================================================
