---------------------------- MODULE Conversation ----------------------------
(***************************************************************************)
(* The messages a session keeps for the model: AgentSession.context of     *)
(* akmon-query over turns, tool batches, truncated answers, summaries,     *)
(* trimming, clearing and a restart, and the request each backend makes    *)
(* of it.  What a turn does besides is AgentSession's.                     *)
(*                                                                         *)
(* Every message said (a task, an answer, a tool result, the line that     *)
(* asks for the rest of a truncated answer) has the next number as its id. *)
(* A row is a message or, with role "system", what the model is told about *)
(* messages that were folded into a summary.                               *)
(***************************************************************************)
EXTENDS SubSequences

CONSTANTS
  Backends,         \* [wire, short]: the request format, and looks_like_ollama_model
  KeepRecent,       \* ContextManager::keep_recent (10)
  ShortKeep,        \* rows a short model is sent (6)
  MicroKeep,        \* newest rows whose tool results stay whole (20 or 12)
  MaxTruncated,     \* truncated answers of a turn that are continued (3)
  MaxPasses,        \* summaries tried before one request (8)
  ClearableCalls,   \* positions in a batch with a tool whose old output is cleared
  MaxExtras,        \* bound: system rows composed beyond those the manager counts
  MaxBatch,         \* bound: calls in an answer
  MaxRequests,      \* bound: model calls
  MaxTasks,         \* bound: tasks
  MaxLosses         \* bound: restarts and clears

Wires == {"anthropic", "bedrock", "openai", "ollama"}

ASSUME ConversationAssumption ==
  /\ Backends \subseteq [wire : Wires, short : BOOLEAN]
  /\ {KeepRecent, ShortKeep, MicroKeep, MaxTruncated, MaxPasses, MaxExtras,
      MaxBatch, MaxRequests, MaxTasks, MaxLosses} \subseteq Nat
  /\ ClearableCalls \subseteq Nat

VARIABLES
  backend,    \* the model of this session
  context,    \* AgentSession.context
  phase,      \* "idle", at the "head" of the loop, "composing", "asked", or in its "tools"
  turn,       \* the locals of run: the task, user_line_committed, continuations, passes
  request,    \* the last request: summaries and rows the model is sent
  said,       \* number of messages said
  trimmed,    \* messages dropped to make the request smaller
  lost,       \* messages that left the context otherwise
  unanswered, \* answers whose calls never got results
  spent       \* counters of the bounds

talkVars == <<backend, context, phase, turn, request, said, trimmed, lost, unanswered, spent>>

Row(role, id) ==
  [role |-> role, id |-> id, calls |-> 0, of |-> <<0, 0>>, cleared |-> FALSE, covers |-> {}]
UserRow(id) == Row("user", id)
AnswerRow(id, n) == [Row("assistant", id) EXCEPT !.calls = n]
ResultRow(id, answer, k) == [Row("tool", id) EXCEPT !.of = <<answer, k>>]
Summary(covers) == [Row("system", 0) EXCEPT !.covers = covers]

IdsOf(row) == IF row.role = "system" THEN row.covers ELSE {row.id}
Ids(rows) == UNION {IdsOf(rows[k]) : k \in DOMAIN rows}
IsSystem(row) == row.role = "system"
SystemRowsOf(rows) == At(rows, {k \in DOMAIN rows : IsSystem(rows[k])})
MessagesOf(rows) == At(rows, {k \in DOMAIN rows : ~IsSystem(rows[k])})
LastRows(rows, n) == IF Len(rows) <= n THEN rows ELSE SubSeq(rows, Len(rows) - n + 1, Len(rows))

\* The number of system rows in front.
Leading(rows) ==
  Cardinality({n \in DOMAIN rows : \A k \in 1..n : IsSystem(rows[k])})

(***************************************************************************)
(* build_messages and build_followup_messages: the rules (one counted row, *)
(* with AKMON.md two), the extra blocks of this moment (specs, handoff,    *)
(* tasks, memories, language rules), the context, the task.                *)
(***************************************************************************)
FixedSystem == 1
Preamble(extras) == [k \in 1..(FixedSystem + extras) |-> Row("system", 0)]

PendingTask == IF turn.committed THEN <<>> ELSE <<UserRow(turn.task)>>
Composed(extras) == Preamble(extras) \o context \o PendingTask

(***************************************************************************)
(* Summaries.                                                              *)
(***************************************************************************)
Body(head) == SubSeq(head, FixedSystem + 1, Len(head))

messages_to_summarize(head) ==
  LET rest == SubSeq(Body(head), Leading(Body(head)) + 1, Len(Body(head)))
  IN  IF Len(rest) <= KeepRecent THEN <<>> ELSE SubSeq(rest, 1, Len(rest) - KeepRecent)

\* Mutant of FoldStart: the first row after the summaries is left in place.
FoldAfterFirst(head) == Leading(Body(head)) + 1

FoldStart(head) == Leading(Body(head))

CanFold(head) == Len(Body(head)) = Len(context)

Fold(head) ==
  LET j == FoldStart(head)
      k == Len(messages_to_summarize(head))
  IN  /\ context' = SubSeq(context, 1, j) \o <<Summary(Ids(messages_to_summarize(head)))>>
                    \o SubSeq(context, j + k + 1, Len(context))
      /\ UNCHANGED trimmed

\* A fifth of the rows that are not summaries, the oldest ones, rounded up.
TrimOldest ==
  LET rows == {k \in DOMAIN context : ~IsSystem(context[k])}
      drop == {k \in rows : 5 * Cardinality({i \in rows : i < k}) < Cardinality(rows)}
  IN  /\ trimmed' = trimmed \cup {context[k].id : k \in drop}
      /\ context' = At(context, DOMAIN context \ drop)

(***************************************************************************)
(* Turns.                                                                  *)
(***************************************************************************)
Idle == [task |-> 0, committed |-> TRUE, continued |-> 0, passes |-> 0]

StartTurn ==
  /\ phase = "idle" /\ spent.turns < MaxTasks /\ spent.requests < MaxRequests
  /\ spent' = [spent EXCEPT !.turns = @ + 1]
  /\ said' = said + 1
  /\ turn' = [Idle EXCEPT !.task = said', !.committed = FALSE]
  /\ phase' = "head"
  /\ UNCHANGED <<backend, context, request, trimmed, lost, unanswered>>

\* run returns; a task that no row holds yet is gone.
Leave ==
  /\ phase' = "idle" /\ turn' = Idle
  /\ lost' = IF turn.committed THEN lost ELSE lost \cup {turn.task}

\* The iteration limit, the budget, or an error outside the model's answer.
StopAtHead ==
  /\ phase \in {"head", "composing"}
  /\ Leave
  /\ UNCHANGED <<backend, context, request, said, trimmed, unanswered, spent>>

Clearable(k) ==
  /\ context[k].role = "tool" /\ context[k].of[2] \in ClearableCalls
  /\ k > Leading(context) /\ k <= Len(context) - MicroKeep

\* apply_microcompact_context
Microcompact ==
  /\ phase = "head" /\ spent.requests < MaxRequests
  /\ context' = [k \in DOMAIN context |->
                   IF Clearable(k) THEN [context[k] EXCEPT !.cleared = TRUE] ELSE context[k]]
  /\ phase' = "composing" /\ turn' = [turn EXCEPT !.passes = 0]
  /\ UNCHANGED <<backend, request, said, trimmed, lost, unanswered, spent>>

\* One pass of run_context_summarization_pass over what is there to send, but
\* for the task.  Any failure of the model's summary trims the context instead.
FoldOrTrim ==
  /\ phase = "composing" /\ turn.passes < MaxPasses
  /\ turn' = [turn EXCEPT !.passes = @ + 1]
  /\ \E extras \in 0..MaxExtras :
       LET head == Preamble(extras) \o context
       IN  \/ TrimOldest
           \/ /\ messages_to_summarize(head) # <<>> /\ CanFold(head)
              /\ Fold(head)
  /\ UNCHANGED <<backend, phase, request, said, lost, unanswered, spent>>

(***************************************************************************)
(* The request.                                                            *)
(***************************************************************************)
trim_messages_for_model(rows) ==
  IF ~backend.short THEN rows
  ELSE SystemRowsOf(SubSeq(rows, 1, 1)) \o LastRows(MessagesOf(rows), ShortKeep)

\* The first system rows become system blocks at Anthropic, and a later one
\* has no form there; Bedrock and OpenAI join them all, Ollama keeps the order.
SystemRows(rows) ==
  IF backend.wire = "anthropic" THEN SubSeq(rows, 1, Leading(rows))
  ELSE SystemRowsOf(rows)

OnWire(rows) ==
  LET systems == SystemRows(rows)
      summaries == At(systems, {k \in DOMAIN systems : systems[k].covers # {}})
  IN  [summaries |-> [k \in DOMAIN summaries |-> summaries[k].covers],
       rows |-> MessagesOf(rows)]

Ask ==
  /\ phase = "composing" /\ spent.requests < MaxRequests
  /\ spent' = [spent EXCEPT !.requests = @ + 1]
  /\ \E extras \in 0..MaxExtras :
       request' = OnWire(trim_messages_for_model(Composed(extras)))
  /\ phase' = "asked"
  /\ UNCHANGED <<backend, context, turn, said, trimmed, lost, unanswered>>

(***************************************************************************)
(* The answer.                                                             *)
(***************************************************************************)
Committed == [turn EXCEPT !.committed = TRUE]
WithTask == context \o PendingTask
NextId == said + 1

FinalAnswer ==
  /\ phase = "asked"
  /\ context' = WithTask \o <<AnswerRow(NextId, 0)>>
  /\ said' = NextId
  /\ phase' = "idle" /\ turn' = Idle
  /\ UNCHANGED <<backend, request, trimmed, lost, unanswered, spent>>

\* Calls, whatever the stop reason: truncated, end of turn or tool use.
CallTools ==
  /\ phase = "asked"
  /\ \E n \in 1..MaxBatch : context' = WithTask \o <<AnswerRow(NextId, n)>>
  /\ said' = NextId
  /\ phase' = "tools" /\ turn' = [Committed EXCEPT !.continued = 0]
  /\ UNCHANGED <<backend, request, trimmed, lost, unanswered, spent>>

ContinueTruncated ==
  /\ phase = "asked" /\ turn.continued < MaxTruncated
  /\ context' = WithTask \o <<AnswerRow(NextId, 0), UserRow(NextId + 1)>>
  /\ said' = said + 2
  /\ phase' = "head" /\ turn' = [Committed EXCEPT !.continued = @ + 1]
  /\ UNCHANGED <<backend, request, trimmed, lost, unanswered, spent>>

\* An error of the model, or a truncated answer too many: nothing is pushed.
AnswerFails ==
  /\ phase = "asked"
  /\ Leave
  /\ UNCHANGED <<backend, context, request, said, trimmed, unanswered, spent>>

\* Mutant of Results: the first call's result is last.
ResultsAsFinished(answer) ==
  [k \in 1..answer.calls |-> ResultRow(said + k, answer.id, 1 + (k % answer.calls))]

\* The results of a batch, in the order of its calls.
Results(answer) == [k \in 1..answer.calls |-> ResultRow(said + k, answer.id, k)]

ToolsDone ==
  /\ phase = "tools"
  /\ LET answer == context[Len(context)]
     IN  /\ context' = context \o Results(answer)
         /\ said' = said + answer.calls
  /\ \/ phase' = "head" /\ turn' = turn
     \/ phase' = "idle" /\ turn' = Idle   \* the user interrupted the turn
  /\ UNCHANGED <<backend, request, trimmed, lost, unanswered, spent>>

\* An error in dispatch_tool_calls_batch: no result of the batch is pushed.
BatchFails ==
  /\ phase = "tools"
  /\ unanswered' = unanswered \cup {context[Len(context)].id}
  /\ phase' = "idle" /\ turn' = Idle
  /\ UNCHANGED <<backend, context, request, said, trimmed, lost, spent>>

(***************************************************************************)
(* Between turns.                                                          *)
(***************************************************************************)
Replaced(rows) ==
  /\ phase = "idle" /\ spent.losses < MaxLosses
  /\ spent' = [spent EXCEPT !.losses = @ + 1]
  /\ context' = rows
  /\ lost' = lost \cup (Ids(context) \ Ids(rows))
  /\ UNCHANGED <<backend, phase, turn, request, said, trimmed>>

Texts == At(context, {k \in DOMAIN context : context[k].role \in {"user", "assistant"}})

\* A later headless process: the transcript has the user and assistant rows.
RestoreHeadless ==
  /\ Replaced(Texts)
  /\ unanswered' = unanswered
       \cup {context[k].id : k \in {i \in DOMAIN context : context[i].calls > 0}}

\* A later terminal session: of its rows the texts shown on the screen.
RestoreTui ==
  /\ Replaced([k \in DOMAIN Texts |-> [Texts[k] EXCEPT !.calls = 0]])
  /\ UNCHANGED unanswered

\* clear_transcript_soft
Clear == Replaced(<<>>) /\ UNCHANGED unanswered

TalkInit ==
  /\ backend \in Backends
  /\ context = <<>> /\ phase = "idle" /\ turn = Idle
  /\ request = [summaries |-> <<>>, rows |-> <<>>]
  /\ said = 0 /\ trimmed = {} /\ lost = {} /\ unanswered = {}
  /\ spent = [turns |-> 0, requests |-> 0, losses |-> 0]

TalkNext ==
  \/ StartTurn \/ StopAtHead \/ Microcompact \/ FoldOrTrim \/ Ask
  \/ FinalAnswer \/ CallTools \/ ContinueTruncated \/ AnswerFails
  \/ ToolsDone \/ BatchFails
  \/ RestoreHeadless \/ RestoreTui \/ Clear

TalkSpec == TalkInit /\ [][TalkNext]_talkVars

(***************************************************************************)
(* Properties of every request.                                            *)
(***************************************************************************)
Sent == {request.rows[k].id : k \in DOMAIN request.rows}
Covered == UNION {request.summaries[k] : k \in DOMAIN request.summaries}
Held == (1..said) \ (trimmed \cup lost)
Folded == UNION {context[k].covers : k \in DOMAIN context}

\* The model is sent the conversation: the messages in the order they were
\* said, each once, as itself or within one summary that comes before, and of
\* those that were neither trimmed nor lost none is missing; what is trimmed or
\* summarized is older than all that is sent, and a recent tool result is sent
\* as it was.  A short model is sent its newest messages, and no summary.
NothingForgotten ==
  phase = "asked" =>
    LET rows == request.rows
    IN  /\ \A i, j \in DOMAIN rows : i < j => rows[i].id < rows[j].id
        /\ \A i, j \in DOMAIN request.summaries :
             i # j => request.summaries[i] \cap request.summaries[j] = {}
        /\ \A old \in Covered \cup trimmed, new \in Sent : old < new
        /\ \A k \in DOMAIN rows : rows[k].cleared => k <= Len(rows) - MicroKeep
        /\ IF backend.short
           THEN /\ Sent \subseteq Held
                /\ \A id \in Held \ (Sent \cup Folded) :
                     Cardinality({new \in Sent : id < new}) = ShortKeep
           ELSE Held = Sent \cup Covered

\* Right behind an answer with calls are their results, one for each in the
\* order of the calls, unless the batch failed or a restart lost them; results
\* without their calls are only those of one batch at the very front, where
\* older rows were folded or trimmed away.
CallsAnswered ==
  LET rows == request.rows
      Behind(i, k) == i + k \in DOMAIN rows /\ rows[i + k].of = <<rows[i].id, k>>
      Follows(i) ==
        \/ i > 1 /\ rows[i - 1].id = rows[i].of[1] /\ rows[i].of[2] = 1
        \/ i > 1 /\ rows[i - 1].of = <<rows[i].of[1], rows[i].of[2] - 1>>
        \/ i = 1
  IN  \A i \in DOMAIN rows :
        /\ rows[i].id \notin unanswered => \A k \in 1..rows[i].calls : Behind(i, k)
        /\ rows[i].role = "tool" => Follows(i)
=============================================================================
