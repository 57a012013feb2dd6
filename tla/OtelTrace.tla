------------------------------ MODULE OtelTrace ------------------------------
(***************************************************************************)
(* OTLP/JSON exports of GenAI traces: how a span is decoded, which of its  *)
(* events and attributes carry messages, and what the importer makes of    *)
(* the three forms in which the conventions have carried them: attributes, *)
(* the details event, and one event per message (version 1.36 and older).  *)
(* No state: OtelPlan orders the spans and plans the journal events.       *)
(*                                                                         *)
(* A text is <<"word", w>>, <<"blank">> or <<"json", v>>: one that parses  *)
(* as the JSON value v.  A JSON value is <<"null">>, <<"str", text>>,      *)
(* <<"num", n>>, <<"arr", sequence>>, <<"obj">> (the empty object), a      *)
(* message <<"msg", role, parts, finish>> or another object.  A name with  *)
(* dots is the sequence of its segments.  Structured values (arrays and    *)
(* key-value lists) are given as the JSON they convert to.                 *)
(***************************************************************************)
EXTENDS JournalEvents, SequencesExt

-----------------------------------------------------------------------------
(* Decoding.  An integer is a JSON number or a decimal string; a scalar that *)
(* is malformed spoils that one value.  A span time or an attribute without  *)
(* a value is missing.                                                       *)

Int64Max == 9  \* the largest integer that fits an attribute or a clock

int_like(raw) ==
  CASE raw[1] \in {"number", "decimal"} -> <<"valid", raw[2]>>
    [] raw[1] = "null" -> <<"missing">>
    [] OTHER -> <<"invalid">>

status_code(raw) ==
  CASE raw[1] \in {"number", "decimal"} -> raw[2]
    [] raw[1] \in {"null", "STATUS_CODE_UNSET"} -> 0
    [] raw[1] = "STATUS_CODE_OK" -> 1
    [] raw[1] = "STATUS_CODE_ERROR" -> 2
    [] OTHER -> -1

\* One field of a value; the fields of later versions are skipped.
AnyField(field) ==
  LET n == int_like(field[2])
  IN CASE field[1] = "stringValue" -> IF field[2] = None THEN <<"empty">> ELSE <<"string", field[2][1]>>
       [] field[1] = "intValue" -> CASE n[1] = "missing" -> <<"empty">>
                                     [] n[1] = "valid" /\ n[2] <= Int64Max -> <<"int", n[2]>>
                                     [] OTHER -> <<"invalid">>
       [] field[1] = "arrayValue" -> <<"structured", field[2]>>
       [] OTHER -> <<"empty">>

\* The last field that holds something.
any_value(fields) ==
  LET holding == {i \in DOMAIN fields : AnyField(fields[i]) # <<"empty">>}
  IN IF holding = {} THEN <<"empty">>
     ELSE AnyField(fields[CHOOSE i \in holding : \A k \in holding : k <= i])

\* A repeated key: the last one.
flatten(attributes) ==
  [key \in {attributes[i][1] : i \in DOMAIN attributes} |->
     any_value(attributes[CHOOSE i \in DOMAIN attributes :
                 /\ attributes[i][1] = key
                 /\ \A k \in DOMAIN attributes : attributes[k][1] = key => k <= i][2])]

normalize_span(s) ==
  [id |-> s.id, parent |-> s.parent, trace |-> s.trace,
   start |-> int_like(s.start), end |-> int_like(s.end),
   is_error |-> status_code(s.status.code) = 2,
   message |-> IF s.status.message \in {None, Some(<<"blank">>)} THEN None ELSE s.status.message,
   attributes |-> flatten(s.attributes),
   events |-> [i \in DOMAIN s.events |->
                 [name |-> s.events[i].name, attributes |-> flatten(s.events[i].attributes)]]]

\* Spans are flattened across the batches of a request.
parse_and_normalize(batches) ==
  [spans |-> FlattenSeq([b \in DOMAIN batches |->
               [i \in DOMAIN batches[b].spans |-> normalize_span(batches[b].spans[i])]]),
   schema_urls |-> UNION {Range(batches[b].schema_url) : b \in DOMAIN batches}]

\* An attribute of a span or of an event, and those read as one type.
attr(x, key) == IF key \in DOMAIN x.attributes THEN x.attributes[key] ELSE <<"empty">>
attr_str(x, key) == IF attr(x, key)[1] = "string" THEN Some(attr(x, key)[2]) ELSE None
attr_i64(x, key) == IF attr(x, key)[1] = "int" THEN Some(attr(x, key)[2]) ELSE None
OrElse(a, b) == IF a # None THEN a ELSE b

-----------------------------------------------------------------------------
(* What spans and events are.                                                *)

GenAi(rest) == <<"gen_ai">> \o rest
Details == GenAi(<<"client", "inference", "operation", "details">>)
LegacyEvents == {GenAi(<<role, "message">>) : role \in {"system", "user", "assistant", "tool"}}
                  \cup {GenAi(<<"choice">>)}

classify_event(name) ==
  CASE name \in {<<"exception">>, GenAi(<<"client", "operation", "exception">>)} -> "exception"
    [] name[1] # "gen_ai" -> "not_gen_ai"
    [] name \in LegacyEvents -> "supported_legacy"
    [] name = Details -> "details"
    [] Len(name) = 3 /\ name[3] = "message" /\ name \notin LegacyEvents -> "unknown_legacy"
    [] OTHER -> "structural_metadata"

EventsOf(span, class) == SelectSeq(span.events, LAMBDA e : classify_event(e.name) = class)
EventsNamed(span, name) == SelectSeq(span.events, LAMBDA e : e.name = name)

\* The kind of operation by its name; "other" for none and unknown ones.
span_operation(span) ==
  LET name == attr_str(span, "operation.name")
      named(words) == name \in {Some(<<"word", w>>) : w \in words}
  IN CASE named({"chat", "generate_content", "text_completion"}) -> "provider"
       [] named({"embeddings"}) -> "embeddings"
       [] named({"execute_tool"}) -> "tool"
       [] named({"invoke_agent", "invoke_workflow"}) -> "root"
       [] OTHER -> "other"

emits_event(span) == span_operation(span) \in {"provider", "embeddings", "tool"}

\* A failure: an error status, an error.type or an exception event.
failure(span) ==
  LET exceptions == EventsOf(span, "exception")
      of(key) == IF exceptions = <<>> THEN None ELSE attr_str(exceptions[1], key)
      type == attr_str(span, "error.type")
      label == OrElse(OrElse(type, of("exception.type")),
                 Some(<<"word", IF span.is_error THEN "span_status_error" ELSE "exception">>))
  IN IF ~span.is_error /\ type = None /\ exceptions = <<>> THEN None
     ELSE Some([label |-> label[1],
                message |-> OrElse(OrElse(span.message, of("exception.message")), type)])

-----------------------------------------------------------------------------
(* Content.  Blank texts, null, [] and {} are no content.                    *)

parse_json_or_string(text) == IF text[1] = "json" THEN text[2] ELSE <<"str", text>>

is_empty_json(value) ==
  value \in {<<"null">>, <<"str", <<"blank">>>>, <<"arr", <<>>>>, <<"obj">>}

content_value(value) ==
  LET json == CASE value[1] = "string" -> parse_json_or_string(value[2])
                [] value[1] = "structured" -> value[2]
                [] value[1] = "int" -> <<"num", value[2]>>
                [] OTHER -> <<"null">>
  IN IF is_empty_json(json) THEN None ELSE Some(json)

Message(role, parts) == <<"msg", role, parts, None>>
is_user(m) == m[1] = "msg" /\ m[2] = "user"

\* The messages of a slot.
Slice(slot) == IF slot # None /\ slot[1][1] = "arr" THEN slot[1][2] ELSE <<>>

-----------------------------------------------------------------------------
(* The legacy form: one event per message, reduced to the structured value.  *)

body(event, key) == IF attr_str(event, key) = Some(<<"blank">>) THEN None ELSE attr_str(event, key)

IsPart(value) == value[1] \in {"text", "tool_call", "tool_call_response", "reasoning"}

\* A text that is a JSON array of parts is those parts, any other is a text part.
content_to_parts(text) ==
  IF /\ text[1] = "json" /\ text[2][1] = "arr" /\ text[2][2] # <<>>
     /\ \A i \in DOMAIN text[2][2] : IsPart(text[2][2][i])
  THEN text[2][2] ELSE <<<<"text", text>>>>

OptionalParts(text) == IF text = None THEN <<>> ELSE content_to_parts(text[1])

\* A call is <<"call", id, name, arguments>>; arguments that are a text are parsed.
tool_calls_value_to_parts(value) ==
  LET arguments(call) == IF call[4][1] = "str" THEN parse_json_or_string(call[4][2]) ELSE call[4]
  IN IF value = None \/ value[1][1] # "arr" THEN <<>>
     ELSE [i \in DOMAIN value[1][2] |->
             LET call == value[1][2][i] IN <<"tool_call", call[2], call[3], arguments(call)>>]

ParsedAttribute(event, key) ==
  LET text == attr_str(event, key)
  IN IF text # None /\ text[1][1] = "json" THEN Some(text[1][2]) ELSE None

legacy_user_message(event) ==
  LET content == body(event, "content")
      role == OrElse(attr_str(event, "role"), Some(<<"word", "user">>))[1][2]
  IN IF content = None THEN <<>> ELSE <<Message(role, content_to_parts(content[1]))>>

legacy_tool_message(event) ==
  LET content == body(event, "content")
  IN IF content = None THEN <<>>
     ELSE <<Message("tool", <<<<"tool_call_response", attr_str(event, "id"),
                               parse_json_or_string(content[1])>>>>)>>

legacy_assistant_message(event) ==
  LET parts == OptionalParts(body(event, "content"))
                 \o tool_calls_value_to_parts(ParsedAttribute(event, "tool_calls"))
  IN IF parts = <<>> THEN <<>> ELSE <<Message("assistant", parts)>>

\* A choice carries its message, <<"choice", content, calls>>, or the message's
\* fields themselves.
legacy_choice_message(event) ==
  LET message == ParsedAttribute(event, "message")
      of(i) == IF message = None \/ message[1][1] # "choice" THEN None ELSE message[1][i]
      content == OrElse(of(2), attr_str(event, "content"))
      calls == OrElse(of(3), ParsedAttribute(event, "tool_calls"))
      parts == OptionalParts(IF content = Some(<<"blank">>) THEN None ELSE content)
                 \o tool_calls_value_to_parts(calls)
  IN IF parts = <<>> THEN <<>>
     ELSE <<<<"msg", "assistant", parts, attr_str(event, "finish_reason")>>>>

\* Mutant: choices stay as they came.
AsTheyCame(choices) == choices

\* Choices by their index, ties as they came.
InIndexOrder(choices) ==
  LET index(i) == LET n == attr_i64(choices[i], "index") IN IF n = None THEN 0 ELSE n[1]
      before(i, k) == index(i) < index(k) \/ (index(i) = index(k) /\ i < k)
      at == SetToSortSeq(DOMAIN choices, before)
  IN [n \in DOMAIN at |-> choices[at[n]]]

\* An assistant message is the response, unless there are choices.
synthesize_structured_from_legacy(span) ==
  LET choices == EventsNamed(span, GenAi(<<"choice">>))
      each(events, reduced(_)) == FlattenSeq([i \in DOMAIN events |-> reduced(events[i])])
      is(e, role) == e.name = GenAi(<<role, "message">>)
      inputOf(e) == CASE is(e, "user") -> legacy_user_message(e)
                      [] is(e, "tool") -> legacy_tool_message(e)
                      [] is(e, "assistant") /\ choices # <<>> -> legacy_assistant_message(e)
                      [] OTHER -> <<>>
      outputOf(e) == IF is(e, "assistant") /\ choices = <<>> THEN legacy_assistant_message(e) ELSE <<>>
      systemOf(e) == IF is(e, "system") THEN OptionalParts(body(e, "content")) ELSE <<>>
      slot(seq) == IF seq = <<>> THEN None ELSE Some(<<"arr", seq>>)
  IN [system |-> slot(each(span.events, systemOf)),
      input |-> slot(each(span.events, inputOf)),
      output |-> slot(each(span.events, outputOf)
                        \o each(InIndexOrder(choices), legacy_choice_message))]

\* Each slot from the attribute, else from the first details event, else from the
\* legacy events; and the forms that were used.
Slots == [system |-> "system_instructions", input |-> "input.messages", output |-> "output.messages"]

FilledSlots(own, told, legacy) ==
  LET form(s) == CASE own[s] # None -> {"structured_attributes"}
                   [] own[s] = None /\ told[s] # None -> {"inference_details_event"}
                   [] OTHER -> IF legacy[s] # None THEN {"legacy_events"} ELSE {}
  IN [slots |-> [s \in DOMAIN Slots |-> OrElse(own[s], OrElse(told[s], legacy[s]))],
      forms |-> UNION {form(s) : s \in DOMAIN Slots}]

span_content(span) ==
  LET details == EventsNamed(span, Details)
      own == [s \in DOMAIN Slots |-> content_value(attr(span, Slots[s]))]
      told == [s \in DOMAIN Slots |->
                 IF details = <<>> THEN None ELSE content_value(attr(details[1], Slots[s]))]
  IN FilledSlots(own, told, synthesize_structured_from_legacy(span))

\* The turns of the output: its assistant messages, texts and calls apart; parts of
\* other types (reasoning, files) stay in the response object alone.
assistant_contents(output) ==
  LET turns == SelectSeq(Slice(output), LAMBDA m : m[1] = "msg" /\ m[2] = "assistant")
      calls(m) == SelectSeq(m[3], LAMBDA p : p[1] = "tool_call")
  IN [i \in DOMAIN turns |->
        [message |-> <<"arr", SelectSeq(turns[i][3], LAMBDA p : p[1] = "text")>>,
         tool_calls |-> IF calls(turns[i]) = <<>> THEN None ELSE Some(<<"arr", calls(turns[i])>>),
         others |-> Len(SelectSeq(turns[i][3], LAMBDA p : p[1] \notin {"text", "tool_call"}))]]

has_real_content(turn) ==
  \/ turn.tool_calls # None
  \/ \E i \in DOMAIN turn.message[2] : turn.message[2][i][2] # <<"blank">>
=============================================================================
