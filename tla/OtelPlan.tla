------------------------------ MODULE OtelPlan ------------------------------
(***************************************************************************)
(* The plan that `akmon otel import` makes of an OTLP export of a GenAI    *)
(* trace, before it writes anything: which events, in which order, with    *)
(* which objects.  No state: BundleCommands writes the plan into a         *)
(* journal.                                                                *)
(*                                                                         *)
(* An export is a sequence of batches of spans: collectors batch, reorder  *)
(* and, on a retry, repeat them.  Ids are numbers, 0 for none.             *)
(***************************************************************************)
EXTENDS OtelTrace

SpansOf(spans) == {spans[i] : i \in DOMAIN spans}

\* Without --trace-id the export must hold one trace; with it, that one.
select_trace(spans, requested) ==
  IF requested = None THEN spans ELSE SelectSeq(spans, LAMBDA s : s.trace = requested[1])

TraceSelected(spans, requested) ==
  LET ids == {s.trace : s \in SpansOf(spans)} \ {0}
  IN IF requested = None THEN Cardinality(ids) <= 1 ELSE requested[1] \in ids

\* A repeated span is dropped, a different span with its ids refuses the import.
Conflicting(spans) ==
  \E s, t \in SpansOf(spans) : s.trace = t.trace /\ s.id = t.id /\ s.id # 0 /\ s # t

dedupe_spans(spans) ==
  LET first == {i \in DOMAIN spans : spans[i].id = 0 \/ \A k \in 1..(i-1) : spans[k] # spans[i]}
  IN [n \in 1..Cardinality(first) |->
        spans[CHOOSE i \in first : Cardinality({k \in first : k <= i}) = n]]

refuse_unknown_legacy(spans) ==
  \E s \in SpansOf(spans) : EventsOf(s, "unknown_legacy") # <<>>

resolve_conversation(spans) ==
  UNION {Range(attr_str(s, "conversation.id")) : s \in SpansOf(spans)}

\* A time that is missing, malformed, zero, negative or out of range refuses the
\* import, and so does an end before the start.
span_times(span) ==
  LET ok(time) == time[1] = "valid" /\ time[2] \in 1..Int64Max
  IN ok(span.start) /\ ok(span.end) /\ span.start[2] <= span.end[2]

\* The number of a span's ancestors in the trace; a parent that is not in the
\* export counts as one, and a cycle stops after as many steps as there are spans.
depth(span, spans) ==
  LET parentOf(id) == IF \E s \in SpansOf(spans) : s.id = id
                      THEN (CHOOSE s \in SpansOf(spans) : s.id = id).parent ELSE 0
      up[n \in 0..(Len(spans) + 1)] == IF n = 0 THEN span.parent
                                       ELSE IF up[n-1] = 0 THEN 0 ELSE parentOf(up[n-1])
  IN Cardinality({n \in 0..Len(spans) : up[n] # 0})

\* Mutant: a stable sort by start and depth, ties in the order of the export.
StartsBefore(s, t, spans) ==
  \/ s.start[2] < t.start[2]
  \/ s.start[2] = t.start[2] /\ depth(s, spans) < depth(t, spans)

\* The sort key: start, depth, span id.
SortsBefore(s, t, spans) ==
  \/ StartsBefore(s, t, spans)
  \/ ~StartsBefore(t, s, spans) /\ s.id < t.id

\* sort_by_cached_key is stable: equal keys stay in the order of the export.
InOrder(emitting, spans) ==
  LET before(i, k) == \/ SortsBefore(emitting[i], emitting[k], spans)
                      \/ ~SortsBefore(emitting[k], emitting[i], spans) /\ i < k
      at == SetToSortSeq(DOMAIN emitting, before)
  IN [n \in DOMAIN at |-> emitting[at[n]]]

-----------------------------------------------------------------------------
(* What stands in an object when there is no content: an envelope of the     *)
(* span's metadata, told apart by its field.                                 *)

Strings(span, keys) == {<<k, attr_str(span, k)[1]>> : k \in {x \in keys : attr_str(span, x) # None}}
Ints(span, keys) == {<<k, attr_i64(span, k)[1]>> : k \in {x \in keys : attr_i64(span, x) # None}}

metadata_envelope(field, attributes) == <<"otel_metadata", field, attributes>>

request_envelope(span) ==
  LET tools == content_value(attr(span, "tool.definitions"))
  IN metadata_envelope("request",
       Strings(span, {"request.model"})
         \cup Ints(span, {"request.max_tokens", "usage.input_tokens"})
         \cup {<<"tool_definitions", t>> : t \in Range(tools)})

response_envelope(span) ==
  metadata_envelope("response",
    Strings(span, {"response.model", "response.id"}) \cup Ints(span, {"usage.output_tokens"}))

\* The system instructions and the input messages, when there are any.
request(slots) == <<"request", slots.system, slots.input>>

tool_input(span, args) ==
  IF args # None THEN args[1]
  ELSE metadata_envelope("tool_input", Strings(span, {"tool.name", "tool.call.id"}))

\* A tool call has no status: a failure is told by its output, with the result.
tool_output(span, result) ==
  LET failed == failure(span)
  IN IF failed # None
     THEN <<"otel_tool_error", failed[1].label, failed[1].message, span.is_error, result>>
     ELSE IF result # None THEN result[1]
     ELSE metadata_envelope("tool_output", Strings(span, {"tool.name"}))

-----------------------------------------------------------------------------
(* Builder: walks the spans in order.  A conversation resends its messages   *)
(* with every call, so only those past the previous call's input are new;    *)
(* when the input is not a continuation (a compaction, another agent), only  *)
(* its last user message is, and the others are counted as omitted.          *)

Planned(tag, contents) == [tag |-> tag, contents |-> contents]

NewBuilder == [events |-> <<>>, prev_input |-> <<>>, emitted_users |-> {}, last_user |-> None,
               forms |-> {}, real |-> 0, total |-> 0, omitted |-> 0, failed |-> 0]

Users(input) == SelectSeq(input, is_user)

EmitUsers(b, users) ==
  [b EXCEPT !.events = @ \o [i \in DOMAIN users |-> Planned("UserTurn", <<users[i]>>)],
            !.emitted_users = @ \cup Range(users),
            !.last_user = IF users = <<>> THEN @ ELSE Some(users[Len(users)])]

Omitted(b, users) ==
  Cardinality({i \in 1..(Len(users) - 1) : users[i] \notin b.emitted_users})

user_turns(b, input) ==
  LET users == Users(input)
      new == IF IsPrefix(b.prev_input, input)
             THEN Users(SubSeq(input, Len(b.prev_input) + 1, Len(input)))
             ELSE IF users = <<>> \/ b.last_user = Some(users[Len(users)]) THEN <<>>
             ELSE <<users[Len(users)]>>
      omitted == IF IsPrefix(b.prev_input, input) THEN 0 ELSE Omitted(b, users)
  IN IF input = <<>> THEN b
     ELSE [EmitUsers(b, new) EXCEPT !.prev_input = input, !.omitted = @ + omitted]

count_slots(b, slots) ==
  [b EXCEPT !.total = @ + Len(slots),
            !.real = @ + Cardinality({i \in DOMAIN slots : slots[i] # None})]

\* Embeddings have no slots and no turns.
provider_span(b, span, content) ==
  LET slots == content.slots
      asked == user_turns(b, Slice(slots.input))
      failed == failure(span)
      call == [tag |-> "ProviderCall", started_at |-> span.start[2],
               status |-> IF failed = None THEN <<"success">> ELSE failed[1].label,
               contents |->
                 <<IF slots.system = None /\ slots.input = None THEN request_envelope(span)
                   ELSE request(slots),
                   IF slots.output = None THEN response_envelope(span) ELSE slots.output[1]>>]
      turns == IF span_operation(span) = "embeddings" THEN <<>>
               ELSE SelectSeq(assistant_contents(slots.output), has_real_content)
      counted == IF span_operation(span) = "embeddings" THEN asked
                 ELSE count_slots(asked, <<slots.input, slots.output>>)
  IN [counted EXCEPT !.events = Append(@, call) \o
                       [i \in DOMAIN turns |->
                          Planned("AssistantTurn", <<turns[i].message>> \o turns[i].tool_calls)],
                     !.forms = @ \cup content.forms,
                     !.failed = @ + Len(failed)]

tool_span(b, span) ==
  LET args == content_value(attr(span, "tool.call.arguments"))
      result == content_value(attr(span, "tool.call.result"))
  IN [count_slots(b, <<args, result>>) EXCEPT
        !.events = Append(@, Planned("ToolCall", <<tool_input(span, args), tool_output(span, result)>>)),
        !.forms = @ \cup (IF args = None /\ result = None THEN {} ELSE {"structured_attributes"}),
        !.failed = @ + Len(failure(span))]

Built(spans) ==
  LET f[n \in 0..Len(spans)] ==
        IF n = 0 THEN NewBuilder
        ELSE IF span_operation(spans[n]) = "tool" THEN tool_span(f[n-1], spans[n])
        ELSE provider_span(f[n-1], spans[n], span_content(spans[n]))
  IN f[Len(spans)]

\* Mutant: a slot of metadata counts.
FromAnySlot(real, total) == IF total = 0 THEN "structural" ELSE "full"

from_slots(real, total) ==
  IF real = 0 THEN "structural" ELSE IF real >= total THEN "full" ELSE "partial"

-----------------------------------------------------------------------------
(* The configuration object records the capture level and the first          *)
(* provider, model and agent found in the order of the export: the one place *)
(* where that order shows.                                                   *)

first_attr(spans, key) ==
  LET having == {i \in DOMAIN spans : attr_str(spans[i], key) # None}
  IN IF having = {} THEN None
     ELSE attr_str(spans[CHOOSE i \in having : \A k \in having : i <= k], key)

agent(spans) ==
  LET roots == SelectSeq(spans, LAMBDA s : s.parent = 0 /\ span_operation(s) = "root")
  IN IF roots = <<>> THEN None ELSE Some(roots[1].id)

structural_events(spans) ==
  FlattenSeq([i \in DOMAIN spans |->
    LET events == EventsOf(spans[i], "structural_metadata")
    IN [k \in DOMAIN events |-> <<spans[i].id, events[k].name>>]])

ConfigFacts(spans, built, schema_urls) ==
  <<"otel_config",
    <<OrElse(first_attr(spans, "provider.name"), first_attr(spans, "system")),
      OrElse(first_attr(spans, "request.model"), first_attr(spans, "response.model")),
      resolve_conversation(spans), agent(spans), schema_urls, built.forms,
      structural_events(spans)>>,
    from_slots(built.real, built.total)>>

Refusal(category) == [error |-> Some(category)]

\* The config object comes first, then what the builder has made of the spans.
PlanFrom(built, spans, schema_urls) ==
  LET cwd == <<"otel_not_captured", "cwd">>
      start == Planned("SessionStart", <<cwd, ConfigFacts(spans, built, schema_urls)>>)
  IN [error |-> None, built |-> built,
      capture_level |-> from_slots(built.real, built.total),
      events |-> <<start>> \o built.events \o <<Planned("SessionEnd", <<>>)>>]

build_plan(batches, requested) ==
  LET parsed == parse_and_normalize(batches)
      chosen == select_trace(parsed.spans, requested)
      spans == dedupe_spans(chosen)
      emitting == SelectSeq(spans, emits_event)
  IN CASE parsed.spans = <<>> -> Refusal("empty_trace")
       [] parsed.spans # <<>> /\ ~TraceSelected(parsed.spans, requested) -> Refusal("trace_selection")
       [] OTHER ->
          IF Conflicting(chosen) THEN Refusal("duplicate_span_id")
          ELSE IF refuse_unknown_legacy(spans) THEN Refusal("legacy_semconv_unsupported")
          ELSE IF Cardinality(resolve_conversation(spans)) > 1 THEN Refusal("multiple_sessions")
          ELSE IF emitting = <<>> THEN Refusal("no_genai_spans")
          ELSE IF \E s \in SpansOf(emitting) : ~span_times(s) THEN Refusal("invalid_timestamp")
          ELSE PlanFrom(Built(InOrder(emitting, spans)), spans, parsed.schema_urls)

\* The event kind that emit appends for a planned event, once its objects are put.
KindOfPlanned(e) ==
  EventKind(e.tag, [i \in DOMAIN e.contents |-> digest_bytes(e.contents[i])],
            IF e.tag = "ProviderCall"
            THEN <<[attempt_number |-> 1, started_at |-> e.started_at, status |-> e.status]>> ELSE <<>>)
=============================================================================
