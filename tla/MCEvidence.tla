----------------------------- MODULE MCEvidence -----------------------------
(***************************************************************************)
(* Two machines in behaviours of their own: a session history that is      *)
(* damaged and verified (JournalVerify), and the commands on bundle files. *)
(***************************************************************************)
EXTENDS BundleCommands, JournalVerify, TLC

\* Contents are tuples, so that TLC can compare them with sentinels.
Text(t) == <<"text", t>>

Refs(contents) == [i \in DOMAIN contents |-> digest_bytes(contents[i])]

\* The row that appends of these kinds leave; clocks read fractions of a second.
RowOf(kinds) ==
  LET h[n \in 0..Len(kinds)] ==
        IF n = 0 THEN <<>> ELSE AppendTo(h[n-1], kinds[n], [sec |-> n, nanos |-> 1])
      past == h[Len(kinds)]
  IN [head |-> Some(past[Len(past)].hash), history |-> past]

Start == EventKind("SessionStart", Refs(<<Text("cwd"), Text("config")>>), <<>>)
Turn == EventKind("UserTurn", Refs(<<Text("prompt")>>), <<>>)
End == EventKind("SessionEnd", <<>>, <<>>)

\* A session that ended, one that was resumed and ended twice, one that is open.
MCInitialRows ==
  [clean |-> RowOf(<<Start, Turn, End>>),
   resumed |-> RowOf(<<Start, End, End>>),
   open |-> RowOf(<<Start, Turn>>)]

Store(contents) == [h \in {digest_bytes(c) : c \in contents} |-> h[2]]
MCInitialStore == Store({Text("cwd"), Text("config"), Text("prompt")})

\* Empty, or with an object whose bytes have been damaged on disk.
MCThereStores == {<<>>, digest_bytes(Text("prompt")) :> Text("rotten")}

\* Nothing, or the clean session as version 0.1.2 exported it or sealed it, with
\* an operator.
OldBundle == [OnWire(assemble_session_bundle("clean", MCInitialRows.clean, MCInitialStore))
                EXCEPT !.agef_version = "0.1.2"]
OldSigned(k) == [OldBundle EXCEPT !.signatures =
                   <<[key_id |-> k, signature |-> Signature(k, signing_statement(OldBundle))]>>]
OldAttested(k, o) == [OldSigned(k) EXCEPT !.attestations =
                       <<[key_id |-> o, identity |-> "operator",
                          signature |-> Signature(o, operator_statement(OldBundle, "operator"))]>>]
OldSeal(k, o) == [bundle |-> Whole(OldAttested(k, o)), pub |-> Some(k), operator_pub |-> Some(o)]
MCOldFiles ==
  {NoFiles, [NoFiles EXCEPT !.bundle = Whole(OldBundle)]} \cup {OldSeal(k, o) : k, o \in Keys}

-----------------------------------------------------------------------------
(* Traces as instrumented programs export them.                              *)

Word(w) == <<"word", w>>
Json(v) == <<"json", v>>
InText(text) == <<<<"stringValue", Some(text)>>>>
InArray(v) == <<<<"arrayValue", v>>>>

Says(role, w) == Message(role, <<<<"text", Word(w)>>>>)
Arguments == <<"value", "arguments">>
Asks == Message("assistant", <<<<"tool_call", "c", "f", Arguments>>>>)
Result == <<"value", "result">>
Tells == Message("tool", <<<<"tool_call_response", Some(Word("c")), Result>>>>)
Finished(m, w) == <<m[1], m[2], m[3], Some(Word(w))>>

\* The messages of a call, in each form.
Attributes(input, output, in(_)) ==
  <<<<"input.messages", in(<<"arr", input>>)>>, <<"output.messages", in(<<"arr", output>>)>>>>

LegacyCalls == <<"arr", <<<<"call", "c", "f", <<"str", Json(Arguments)>>>>>>>>

LegacyBody(m) ==
  CASE m[3][1][1] = "text" -> <<<<"content", InText(m[3][1][2])>>>>
    [] m[3][1][1] = "tool_call" -> <<<<"tool_calls", InText(Json(LegacyCalls))>>>>
    [] OTHER -> <<<<"content", InText(Json(m[3][1][3]))>>, <<"id", InText(m[3][1][2][1])>>>>

LegacyMessage(m) == [name |-> GenAi(<<m[2], "message">>), attributes |-> LegacyBody(m)]
LegacyChoice(m, index) ==
  [name |-> GenAi(<<"choice">>),
   attributes |-> LegacyBody(m) \o <<<<"index", <<<<"intValue", <<"decimal", index>>>>>>>>,
                                    <<"finish_reason", InText(m[4][1])>>>>]

\* The choices are logged as they arrive, the last one first.
InForm(form, input, output) ==
  LET n == Len(output)
  IN CASE form = "text" -> [attributes |-> Attributes(input, output, LAMBDA v : InText(Json(v))), events |-> <<>>]
       [] form = "structured" -> [attributes |-> Attributes(input, output, InArray), events |-> <<>>]
       [] form = "details" ->
            [attributes |-> <<>>,
             events |-> <<[name |-> Details, attributes |-> Attributes(input, output, InArray)]>>]
       [] form = "legacy" ->
            [attributes |-> <<>>,
             events |-> [i \in DOMAIN input |-> LegacyMessage(input[i])]
                          \o [i \in 1..n |-> LegacyChoice(output[n + 1 - i], n + 1 - i)]]

\* A span that starts in the same instant as all the others; its times are written
\* as decimal strings or as numbers.
Span(id, parent, op, content, digits) ==
  [trace |-> 1, id |-> id, parent |-> parent, start |-> <<digits, 1>>, end |-> <<digits, 2>>,
   status |-> [code |-> <<"null">>, message |-> None],
   attributes |-> <<<<"operation.name", InText(Word(op))>>>> \o content.attributes,
   events |-> content.events]

Nothing == [attributes |-> <<>>, events |-> <<>>]
Failed(span) == [span EXCEPT !.status = [code |-> <<"STATUS_CODE_ERROR">>, message |-> None]]

\* Two calls, the second with these choices, and a tool in between.
Conversation(form1, form2, choices, digits) ==
  <<Span(1, 0, "invoke_agent", Nothing, digits),
    Span(2, 1, "chat", InForm(form1, <<Says("user", "a")>>, <<Finished(Asks, "tool_calls")>>), digits),
    Span(3, 1, "execute_tool",
         [Nothing EXCEPT !.attributes = <<<<"tool.call.arguments", InText(Json(Arguments))>>,
                                          <<"tool.call.result", InText(Json(Result))>>>>], digits),
    Span(4, 1, "chat", InForm(form2, <<Says("user", "a"), Asks, Tells>>, choices), digits)>>

Captured(form1, form2, digits) ==
  Conversation(form1, form2, <<Finished(Says("assistant", "b"), "stop"),
                               Finished(Says("assistant", "c"), "length")>>, digits)

\* The second call got no answer.
Unanswered(form1, form2) ==
  [Conversation(form1, form2, <<>>, "number") EXCEPT ![4] = Failed(@)]

\* Beside them a span of another library, with attributes nobody can read.
Stray == [Span(9, 7, "GET", Nothing, "fraction") EXCEPT !.attributes =
            <<<<"http.status", <<<<"intValue", <<"words">>>>>>>>>>]

\* A call that failed, with what was captured of its messages, a tool that failed,
\* and embeddings.
Poor(captured) ==
  <<Failed(Span(2, 0, "chat", captured, "number")),
    Failed(Span(3, 2, "execute_tool", Nothing, "number")),
    Span(4, 2, "embeddings", Nothing, "number")>>

Export_(spans, order, of, captured) ==
  [batches |-> <<[spans |-> [i \in DOMAIN order |-> spans[order[i]]], schema_url |-> None]>>,
   requested |-> None, of |-> of, captured |-> captured]

Asked(form) == InForm(form, <<Says("user", "a")>>, <<>>)

MCExports ==
  {Export_(Captured("text", "details", "number"), <<1, 2, 3, 4>>, "captured", "full"),
   Export_(Captured("structured", "legacy", "decimal") \o <<Stray>>, <<5, 4, 3, 2, 1, 4>>, "captured", "full"),
   Export_(Unanswered("text", "structured"), <<1, 2, 3, 4>>, "unanswered", "partial"),
   Export_(Unanswered("details", "legacy"), <<4, 3, 2, 1>>, "unanswered", "partial"),
   Export_(Poor(Asked("structured")), <<3, 2, 1>>, "poor", "partial"),
   Export_(Poor(Asked("legacy")), <<1, 2, 3>>, "poor", "partial"),
   Export_(Poor(Nothing), <<1, 2, 3>>, "empty", "structural")}

Attempt(number, start) == [attempt_number |-> number, started_at |-> start]

\* The first and the last event; between them provider calls, retried in order,
\* without an attempt, and without the first one.
MCForms ==
  {[tag |-> "SessionStart", attempts |-> <<>>], [tag |-> "SessionEnd", attempts |-> <<>>]} \cup
  {[tag |-> "ProviderCall", attempts |-> tries] :
     tries \in {<<Attempt(1, 1), Attempt(2, 2)>>, <<>>, <<Attempt(2, 2)>>}}

MCClock == {[sec |-> 1, nanos |-> 0]}

\* An edit moves a time into another second, or within the second.
MCInstants == {[sec |-> 0, nanos |-> 0], [sec |-> 1, nanos |-> 1]}

\* The contents are only compared for equality.
MCSymmetry ==
  Permutations(Paths) \cup Permutations(Keys) \cup Permutations(Bytes)

VARIABLE part

BundlesRest ==
  /\ journals = <<>> /\ files = [p \in Paths |-> NoFiles] /\ cmd = NoCommand
  /\ imported = {} /\ hidden = <<>> /\ sealed = {} /\ commands = 0 /\ faults = 0

EvidenceInit ==
  \/ part = "history" /\ VerifyInit /\ BundlesRest
  \/ part = "bundles" /\ BundleInit /\ VerifyInit

EvidenceNext ==
  \/ part = "history" /\ VerifyNext /\ UNCHANGED bundleVars /\ UNCHANGED part
  \/ part = "bundles" /\ BundleNext /\ UNCHANGED verifyVars /\ UNCHANGED part

EvidenceSpec == EvidenceInit /\ [][EvidenceNext]_<<part, bundleVars, verifyVars>>
=============================================================================
