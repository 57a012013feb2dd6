---------------------------- MODULE InspectViews ----------------------------
(***************************************************************************)
(* `akmon inspect`: what the JSON report, the summary and the verbose view *)
(* show of a session's events, and what of the objects they refer to when  *)
(* --resolve is given.  Contents are classified by their bytes alone: a    *)
(* redaction sentinel is recognised by parsing it.  No state.              *)
(***************************************************************************)
EXTENDS BundleFile, SequencesExt

\* The parsed marker when the bytes are a valid sentinel.
try_parse_sentinel(bytes) == IF bytes[1] = "redacted" THEN Some(bytes[2]) ELSE None
is_sentinel(bytes) == try_parse_sentinel(bytes) # None

EmptyText == <<"text", "">>

classify_content(bytes) == IF bytes = EmptyText THEN <<"empty">> ELSE <<"text", bytes>>

classify_resolved(bytes) ==
  IF is_sentinel(bytes) THEN <<"redacted", try_parse_sentinel(bytes)[1]>> ELSE classify_content(bytes)

\* In the JSON report an object that is missing and one that is not resolved both
\* show nothing; a text has its size, a sentinel the original's hash and size.
resolved_content(store, h, resolve) ==
  IF resolve /\ h \in DOMAIN store THEN classify_resolved(store[h]) ELSE <<>>

\* The human views say that an object is missing.
format_resolved_human(store, h) ==
  IF h \in DOMAIN store THEN classify_resolved(store[h]) ELSE <<"unresolved">>

-----------------------------------------------------------------------------
(* The references of an event under their names, in field order.  A provider *)
(* call names those of its attempts and then its own stream.                 *)

FieldNames ==
  [SessionStart |-> <<"cwd", "config">>, UserTurn |-> <<"prompt">>,
   ProviderCall |-> <<"request", "response", "stream">>,
   ToolCall |-> <<"input", "output", "side_effects">>,
   RetrievalCall |-> <<"query", "results">>, PermissionGate |-> <<"context">>,
   AssistantTurn |-> <<"message", "tool_calls">>, SessionEnd |-> <<"summary">>]

Field(kind, i) == [name |-> FieldNames[kind.tag][i], hash |-> kind.refs[i]]

summarize_attempts(attempts) ==
  LET with(status) == Cardinality({i \in DOMAIN attempts : attempts[i].status = status})
  IN {<<status, with(status)>> : status \in {attempts[i].status : i \in DOMAIN attempts}}

\* Every field, with what it refers to.
inspect_event_kind(kind, store, resolve) ==
  [i \in DOMAIN kind.refs |->
     [field |-> Field(kind, i), content |-> resolved_content(store, kind.refs[i], resolve)]]

\* A line for each hash, and under it the content.
Shown(kind, fields, store, resolve) ==
  [n \in DOMAIN fields |->
     [field |-> Field(kind, fields[n]),
      content |-> IF resolve THEN format_resolved_human(store, kind.refs[fields[n]]) ELSE <<>>]]

\* The summary counts a provider call's attempts by their status and shows none of
\* their objects, the stream of the call alone.
SummaryFields(kind) ==
  SelectSeq([i \in DOMAIN kind.refs |-> i],
            LAMBDA i : kind.tag = "ProviderCall" => FieldNames[kind.tag][i] = "stream")

format_event_summary(kind, store, resolve) ==
  [lines |-> Shown(kind, SummaryFields(kind), store, resolve),
   attempts |-> summarize_attempts(kind.attempts)]

format_event_verbose(event, store, resolve) ==
  [parents |-> event.parents, emitted_at |-> event.emitted_at,
   lines |-> Shown(event.kind, [i \in DOMAIN event.kind.refs |-> i], store, resolve)]

inspect_report_v1(history, store, resolve) ==
  [i \in DOMAIN history |->
     [sequence |-> history[i].event.sequence, event_hash |-> history[i].hash,
      parent_hashes |-> history[i].event.parents, emitted_at |-> history[i].event.emitted_at,
      kind |-> inspect_event_kind(history[i].event.kind, store, resolve)]]

\* The command: a preview of binary contents needs --resolve; the session must be
\* in the journal.
run_inspect(sessions, store, s, o) ==
  LET history == sessions[s].history
      shown(i) == IF o.verbose THEN format_event_verbose(history[i].event, store, o.resolve)
                  ELSE format_event_summary(history[i].event.kind, store, o.resolve)
  IN CASE o.binary # "meta" /\ ~o.resolve -> [exit |-> 2]
       [] s \notin DOMAIN sessions -> [exit |-> 3]
       [] OTHER -> [exit |-> 0,
                    events |-> IF o.json THEN inspect_report_v1(history, store, o.resolve)
                               ELSE [i \in DOMAIN history |-> shown(i)]]
=============================================================================
