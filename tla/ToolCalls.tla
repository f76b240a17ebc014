------------------------------ MODULE ToolCalls ------------------------------
(***************************************************************************)
(* From a Tool's declared parameters to the schema the provider is given,  *)
(* from the provider's arguments to the value that is recorded, and from   *)
(* that value to the command's tokens (openai_codex/protocol.rs,           *)
(* tool_runner/invocation.rs).                                             *)
(*                                                                         *)
(* A text is told apart by its length, by whether it matches the           *)
(* parameter's pattern, by whether it is a path in the workspace and by    *)
(* whether it is in Unicode's form NFC.  No Tool has as many parameters as *)
(* a FlowValue may have members.                                           *)
(***************************************************************************)
EXTENDS Integers, Sequences, FiniteSetsExt

CONSTANTS
  Tools,       \* the declared parameters of each Tool: a sequence of AllowedParameter
  MaxEntries,  \* MAX_EXECUTOR_EXEC_VECTOR_ENTRIES_V0
  MaxBytes     \* FLOW_VALUE_MAX_BYTES_V0, of the texts alone

VARIABLES
  tool,
  arguments,   \* the provider's object: parameter name -> JSON value
  value,       \* the FlowValue of the call, as it is recorded
  tokens       \* the rendered parameters

vars == <<tool, arguments, value, tokens>>

Texts == {t \in [length : 0 .. 2, matches : BOOLEAN, safe : BOOLEAN, nfc : BOOLEAN] : ~t.nfc => t.matches /\ t.safe}
Plain == [length |-> 1, matches |-> TRUE, safe |-> TRUE, nfc |-> TRUE]

\* Json values. An integer of 9 stands for one that is not an i64.
Json(kind, v) == [kind |-> kind, v |-> v]
JsonValues ==
  {Json("null", Plain), Json("true", Plain), Json("false", Plain), Json("other", Plain)}
  \cup {Json("string", t) : t \in Texts} \cup {Json("integer", n) : n \in {-1, 0, 1, 9}}

\* The values of an Enum are texts: it allows those of length 1.
Allowed(text) == text.length = 1

Names(t) == {Tools[t][i].name : i \in DOMAIN Tools[t]}
Declared(t, name) == LET i == CHOOSE i \in DOMAIN Tools[t] : Tools[t][i].name = name IN Tools[t][i]

Failed == [ok |-> FALSE]
Ok(v) == [ok |-> TRUE, value |-> v]

------------------------------------------------------------------------------
\* AllowedParameter::validate: what a parameter of each type sets.
validate(parameter) ==
  /\ parameter.name > 0
  /\ CASE parameter.type = "String" -> parameter.sets = {"value_pattern", "max_length"}
       [] parameter.type = "Enum" -> parameter.sets = {"allowed_values"}
       [] parameter.type = "Integer" -> /\ parameter.sets \subseteq {"min", "max"}
                                        /\ parameter.sets = {"min", "max"} => parameter.min <= parameter.max
       [] parameter.type = "None" -> parameter.sets = {}
       [] parameter.type = "Path" -> parameter.sets \subseteq {"value_pattern", "max_length"}

\* validate_tool_semantics, of the parameters: each valid, and declared once.
validate_tool_semantics(parameters) ==
  /\ \A i \in DOMAIN parameters : validate(parameters[i])
  /\ \A i, j \in DOMAIN parameters : parameters[i].name = parameters[j].name => i = j

\* validate_text_bounds and validate_pattern, and the bounds of an integer, where they are set.
WithinText(parameter, text) == "max_length" \in parameter.sets => text.length <= parameter.max
Matches(parameter, text) == "value_pattern" \in parameter.sets => text.matches
Within(parameter, n) ==
  /\ "min" \in parameter.sets => n >= parameter.min
  /\ "max" \in parameter.sets => n <= parameter.max

\* provider_tool_schema: the JSON values the provider may give for a parameter.
\* Every name is required; one the Tool does not require may be null.
InSchema(parameter, json) ==
  \/ json.kind = "null" /\ ~parameter.required
  \/ CASE parameter.type = "None" -> json.kind = "true"
       [] parameter.type \in {"String", "Path"} -> json.kind = "string" /\ WithinText(parameter, json.v)
       [] parameter.type = "Integer" -> json.kind = "integer" /\ Within(parameter, json.v)
       [] parameter.type = "Enum" -> json.kind = "string" /\ Allowed(json.v)

SchemaAllows(t, object) == DOMAIN object = Names(t) /\ \A name \in Names(t) : InSchema(Declared(t, name), object[name])

\* validate_parameter_value, with validate_text_bounds, validate_pattern and
\* normalize_safe_relative_path: the token, none for a flag.
validate_parameter_value(parameter, v) ==
  CASE parameter.type = "None" /\ v.kind = "true" -> Ok(<<>>)
    [] parameter.type = "String" /\ v.kind = "string" -> IF WithinText(parameter, v.v) /\ Matches(parameter, v.v) THEN Ok(<<v.v>>) ELSE Failed
    [] parameter.type = "Path" /\ v.kind = "string" ->
         IF WithinText(parameter, v.v) /\ Matches(parameter, v.v) /\ v.v.safe THEN Ok(<<v.v>>) ELSE Failed
    [] parameter.type = "Enum" /\ v.kind = "string" -> IF Allowed(v.v) THEN Ok(<<v.v>>) ELSE Failed
    [] parameter.type = "Integer" /\ v.kind = "integer" ->
         IF Within(parameter, v.v) THEN Ok(<<v.v>>) ELSE Failed
    [] OTHER -> Failed

\* Mutant: the conversion does not look at the parameter's contract.
provider_parameter_value_typed(parameter, json) ==
  IF CASE parameter.type = "None" -> json.kind = "true"
       [] parameter.type \in {"String", "Path", "Enum"} -> json.kind = "string"
       [] parameter.type = "Integer" -> json.kind = "integer" /\ json.v # 9
  THEN Ok(json) ELSE Failed

\* provider_parameter_value: the JSON value as a FlowValue of the declared type, within its contract.
provider_parameter_value(parameter, json) ==
  IF /\ CASE parameter.type = "None" -> json.kind = "true"
          [] parameter.type \in {"String", "Path", "Enum"} -> json.kind = "string"
          [] parameter.type = "Integer" -> json.kind = "integer" /\ json.v # 9
     /\ validate_parameter_value(parameter, json).ok
  THEN Ok(json) ELSE Failed

\* validate_flow_value, of a map of values of these kinds: its texts are NFC and it is not too large.
validate_flow_value(map) ==
  LET texts == {name \in DOMAIN map : map[name].kind = "string"} IN
  /\ \A name \in texts : map[name].v.nfc
  /\ MapThenSumSet(LAMBDA name : map[name].v.length, texts) <= MaxBytes

\* Mutant: a null is a value like any other.
Given_null(t, object) == DOMAIN object

\* The parameters an object gives: a null for one that is not required is none.
Given(t, object) == {name \in DOMAIN object : name \in Names(t) => ~(object[name].kind = "null" /\ ~Declared(t, name).required)}

\* provider_arguments_to_flow_value.
provider_arguments_to_flow_value(t, object) ==
  LET given == Given(t, object)
      map == [name \in given |-> provider_parameter_value(Declared(t, name), object[name]).value] IN
  IF \/ ~(DOMAIN object \subseteq Names(t))
     \/ \E name \in given : ~provider_parameter_value(Declared(t, name), object[name]).ok
     \/ \E name \in Names(t) \ given : Declared(t, name).required
     \/ ~validate_flow_value(map)
  THEN Failed ELSE Ok(map)

\* render_tool_parameters: each given parameter by its name, in the order of the names, with its token.
RECURSIVE Rendered(_, _, _)
Rendered(t, map, names) ==
  IF names = {} THEN <<>>
  ELSE LET name == CHOOSE n \in names : \A m \in names : n <= m
       IN <<name>> \o validate_parameter_value(Declared(t, name), map[name]).value \o Rendered(t, map, names \ {name})

render_tool_parameters(t, map) ==
  IF \/ ~validate_flow_value(map)
     \/ \E name \in Names(t) \ DOMAIN map : Declared(t, name).required
     \/ ~(DOMAIN map \subseteq Names(t))
     \/ \E name \in DOMAIN map : ~validate_parameter_value(Declared(t, name), map[name]).ok
  THEN Failed ELSE Ok(Rendered(t, map, DOMAIN map))

\* build_tool_invocation: the exec vector must fit.
Fits(rendered) == Len(rendered) <= MaxEntries

------------------------------------------------------------------------------
Convert ==
  /\ value = Failed /\ tokens = "none"
  /\ value' = provider_arguments_to_flow_value(tool, arguments)
  /\ tokens' = IF value'.ok THEN "none" ELSE "refused"
  /\ UNCHANGED <<tool, arguments>>

Render ==
  /\ value.ok /\ tokens = "none"
  /\ LET rendered == render_tool_parameters(tool, value.value) IN
     tokens' = IF ~rendered.ok THEN "invalid" ELSE IF Fits(rendered.value) THEN rendered.value ELSE "too large"
  /\ UNCHANGED <<tool, arguments, value>>

\* The provider may leave a parameter out, and may name one the Tool does not declare.
Init ==
  /\ tool \in {t \in DOMAIN Tools : validate_tool_semantics(Tools[t])}
  /\ \E names \in SUBSET (Names(tool) \cup {0}) : arguments \in [names -> JsonValues]
  /\ value = Failed /\ tokens = "none"

Next == Convert \/ Render

Spec == Init /\ [][Next]_vars

------------------------------------------------------------------------------
\* What the provider is told and what the Tool takes agree: an object within
\* the schema is refused only for what the schema does not say (a pattern, a
\* path in the workspace, an integer of 64 bits, a text in NFC, the size of a
\* FlowValue), and every call that is accepted is one the schema allows, its missing
\* parameters being null.
SchemaAgrees ==
  LET asAsked == [name \in Names(tool) |-> IF name \in DOMAIN arguments THEN arguments[name] ELSE Json("null", Plain)]
      unsaid == \/ ~validate_flow_value(arguments)
                \/ \E name \in DOMAIN arguments :
                     \/ arguments[name].kind = "string" /\ ~(arguments[name].v.matches /\ arguments[name].v.safe)
                     \/ arguments[name].kind = "integer" /\ arguments[name].v = 9
  IN /\ value.ok => SchemaAllows(tool, asAsked)
     /\ tokens = "refused" /\ SchemaAllows(tool, arguments) => unsaid

\* A call that was accepted, and recorded as such, can be run: its parameters
\* are never found invalid only when the command is built.
AcceptedRuns == tokens # "invalid"
=============================================================================
