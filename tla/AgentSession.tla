---------------------------- MODULE AgentSession ----------------------------
(***************************************************************************)
(* AgentSession::run: one user turn after another, each a loop of model    *)
(* completions and tool batches, driving the state machine of AgentFsm by  *)
(* events that are also sent to the caller.                                *)
(*                                                                         *)
(* pc is where run stands; todo holds the events that the current step has *)
(* still to apply, one Emit step each, before the step at pc is taken.  An *)
(* event that cannot be applied or sent ends the run at once with an error.*)
(***************************************************************************)
EXTENDS AgentFsm, PolicyEngine, FiniteSetsExt, Functions

CONSTANTS
  Tools,             \* tool name -> [perms, mcp, asks]: what concrete_permissions
                     \* returns, the MCP server and tool if any, whether it asks
  Messages,          \* tool calls of one model message: sequences of [tool, valid]
  Modes,             \* policy modes
  Budgeted,          \* whether max_budget_usd is set
  MaxIterations,     \* AgentConfig::max_iterations
  MaxContinuations,  \* 3 in the code
  MaxSummaries,      \* 8 in the code: summarization rounds before a completion
  RepeatLimit,       \* TOOL_REPEAT_LIMIT, 5 in the code
  WriteLimit,        \* MAX_WRITE_FILE_CALLS_PER_ASSISTANT_MESSAGE, 2 in the code
  MaxTurns,          \* bound: user turns
  MaxModelCalls      \* bound: completions of one run

\* A tool needs a list of permissions and belongs to one MCP server at most.
ASSUME ToolsAssumption ==
  \A t \in DOMAIN Tools :
    /\ Len(Tools[t].perms) \in Nat
    /\ DOMAIN Tools[t].perms = 1..Len(Tools[t].perms)
    /\ DOMAIN Tools[t].mcp \subseteq {1}

\* A message of the model carries a list of calls.
ASSUME MessagesAssumption ==
  \A m \in Messages : Len(m) \in Nat /\ DOMAIN m = 1..Len(m)

ASSUME SessionBounds ==
  /\ MaxIterations \in Nat /\ MaxContinuations \in Nat /\ MaxSummaries \in Nat
  /\ RepeatLimit \in Nat /\ WriteLimit \in Nat /\ MaxTurns \in Nat
  /\ MaxModelCalls > MaxIterations * (MaxContinuations + 1)

VARIABLES
  state,       \* AgentState
  resume,      \* post_summary_resume, "none" when absent
  remaining,   \* parallel_tool_batch_remaining
  remembered,  \* approvals kept for the session: [allowlist, prefixes, all_writes]
  counts,      \* tool_call_counts of the turn
  mode,        \* the policy mode, fixed
  pc, todo,    \* where run stands
  loop,        \* locals of run: [iteration, continuations, summaries, budget_stop, stop]
  batch,       \* locals of dispatch_tool_calls_batch, see NewBatch
  running,     \* calls of the batch that are executing
  result,      \* how the last run returned
  chan,        \* the channels on which the user replies: [verdicts, questions]
  interrupt,   \* interrupt_after_current_tools
  turns,       \* turns asked for
  log          \* counts of this run: [model_calls, messages, assistant_turns]

vars == <<state, resume, remaining, remembered, counts, mode, pc, todo, loop,
          batch, running, result, chan, interrupt, turns, log>>

fsmVars == <<state, resume, remaining>>
sessionVars == <<remembered, mode, turns>>
callerVars == <<chan, interrupt>>

NewBatch(calls) ==
  [calls |-> calls, at |-> 1, perm |-> 1, writes |-> 0, approved |-> <<>>,
   slots |-> [i \in DOMAIN calls |-> "empty"], outputs |-> [i \in DOMAIN calls |-> "none"],
   gates |-> {}]

Init ==
  /\ state = "Idle" /\ resume = "none" /\ remaining = 0
  /\ remembered = [allowlist |-> {}, prefixes |-> {}, all_writes |-> FALSE]
  /\ counts = [t \in DOMAIN Tools |-> 0]
  /\ mode \in Modes
  /\ pc = "idle" /\ todo = <<>>
  /\ loop = [iteration |-> 0, continuations |-> 0, summaries |-> 0,
             budget_stop |-> FALSE, stop |-> "none"]
  /\ batch = NewBatch(<<>>) /\ running = {}
  /\ result = "none"
  /\ chan \in [verdicts : {"open", "none"}, questions : {"none"}]
  /\ interrupt = FALSE /\ turns = 0
  /\ log = [model_calls |-> 0, messages |-> 0, assistant_turns |-> 0]

\* run returns: Ok, or the error that it hands to its caller.
Return(r) ==
  /\ pc' = "idle" /\ todo' = <<>> /\ result' = r

\* The step at pc: no event is left to apply.
Ready(label) == pc = label /\ todo = <<>>

GoTo(label, events) == pc' = label /\ todo' = events

(***************************************************************************)
(* apply_event.                                                            *)
(***************************************************************************)
apply_event ==
  /\ todo # <<>>
  /\ LET event == Head(todo)
         next  == next_state_after(state, event, remaining, resume)
     IN \/ /\ ~validate_transition(state, event) \/ next = "none"
           /\ Return("InvalidTransition")
           /\ UNCHANGED <<fsmVars>>
        \/ /\ validate_transition(state, event) /\ next # "none"
           /\ state' = next
           /\ remaining' = IF state = "ToolExecution" /\ event.type = "ToolCallCompleted"
                           THEN IF remaining <= 1 THEN 0 ELSE remaining - 1
                           ELSE remaining
           /\ resume' = IF event.type = "ContextSummarized" THEN "none" ELSE resume
           /\ \/ todo' = Tail(todo) /\ UNCHANGED <<pc, result>>
              \/ Return("SessionFailed")   \* the receiver has been dropped
  /\ UNCHANGED <<remembered, counts, mode, loop, batch, running, callerVars, turns, log>>

(***************************************************************************)
(* The start of a turn: prepare_for_new_user_turn, then the UserTurn event *)
(* in the journal, whose failure ends the run.                             *)
(***************************************************************************)
prepare_for_new_user_turn ==
  /\ pc = "idle" /\ turns < MaxTurns /\ turns' = turns + 1
  /\ \E questions \in {"open", "none"} :
       chan' = [chan EXCEPT !.questions = questions]
  /\ interrupt' = FALSE
  /\ \/ /\ state \notin {"Idle", "Complete", "Failed"}
        /\ Return("refused")
        /\ UNCHANGED <<state, remaining, counts, loop, log, batch, running>>
     \/ /\ state \in {"Idle", "Complete", "Failed"}
        /\ state' = "Idle"
        /\ remaining' = IF state = "Idle" THEN remaining ELSE 0
        /\ counts' = [t \in DOMAIN Tools |-> 0]
        /\ loop' = [iteration |-> 0, continuations |-> 0, summaries |-> 0,
                    budget_stop |-> FALSE, stop |-> "none"]
        /\ log' = [model_calls |-> 0, messages |-> 0, assistant_turns |-> 0]
        /\ batch' = NewBatch(<<>>) /\ running' = {}
        /\ \/ GoTo("top", <<>>) /\ result' = "none"
           \/ Return("SessionFailed")   \* emit_user_turn failed
  /\ UNCHANGED <<resume, remembered, mode>>

(***************************************************************************)
(* One iteration up to the model's answer.                                 *)
(***************************************************************************)

\* check_iteration_limit, the budget, and apply_microcompact_context, which may
\* have cleared something.
LoopTop ==
  /\ Ready("top")
  /\ \/ /\ loop.iteration >= MaxIterations
        /\ Return("IterationLimitReached")
        /\ UNCHANGED loop
     \/ /\ loop.iteration < MaxIterations /\ loop.budget_stop
        /\ GoTo("budget", <<AgentEvent("StatusInfo"), AgentEvent("Done")>>)
        /\ UNCHANGED <<result, loop>>
     \/ /\ loop.iteration < MaxIterations /\ ~loop.budget_stop
        /\ \E cleared \in {<<>>, <<AgentEvent("MicrocompactEstimate")>>} :
             GoTo("compose",
                  cleared \o IF state = "Idle"
                             THEN <<IterationStarted(loop.iteration + 1)>> ELSE <<>>)
        /\ loop' = [loop EXCEPT !.summaries = 0]
        /\ UNCHANGED result
  /\ UNCHANGED <<fsmVars, counts, batch, running, callerVars, log, sessionVars>>

BudgetStop ==
  /\ Ready("budget")
  /\ Return("BudgetLimit")
  /\ UNCHANGED <<fsmVars, counts, loop, batch, running, callerVars, log, sessionVars>>

\* needs_summarization decides; a pass with nothing to summarize only trims.
Compose ==
  /\ Ready("compose")
  /\ \/ /\ \E trimmed \in {<<>>, <<AgentEvent("StatusInfo")>>} : GoTo("complete", trimmed)
        /\ UNCHANGED <<resume, loop, result>>
     \/ /\ loop.summaries < MaxSummaries
        /\ loop' = [loop EXCEPT !.summaries = @ + 1]
        /\ \/ UNCHANGED <<pc, todo, resume, result>>
           \/ /\ state \in {"Planning", "Thinking"}
              /\ resume' = state
              /\ GoTo("summarize", <<AgentEvent("SummarizationStarted")>>)
              /\ UNCHANGED result
           \/ /\ state \notin {"Planning", "Thinking"}
              /\ Return("SummarizationRefused")
              /\ UNCHANGED resume
  /\ UNCHANGED <<state, remaining, counts, batch, running, callerVars, log, sessionVars>>

\* The completion of run_context_summarization_pass: a summary, anything
\* unusable (restore_state_after_summarization_abort), or a rate limit.
Summarize ==
  /\ Ready("summarize")
  /\ \/ /\ GoTo("compose", <<AgentEvent("ContextSummarized")>>)
        /\ UNCHANGED <<state, resume>>
     \/ /\ state' = resume /\ resume' = "none"
        /\ GoTo("compose", <<>>)
     \/ /\ GoTo("fail", <<AgentEvent("StatusInfo")>>)
        /\ UNCHANGED <<state, resume>>
  /\ UNCHANGED <<remaining, counts, loop, batch, running, result, callerVars, log, sessionVars>>

\* handle_model_error_for_run: a rate limit is reported but leaves the state.
ModelErrorEvents ==
  {<<AgentEvent("StatusInfo")>>, <<ErrorEvent("ModelError")>>,
   <<AgentEvent("StatusInfo"), ErrorEvent("ModelError")>>}

Complete ==
  /\ Ready("complete") /\ log.model_calls < MaxModelCalls
  /\ log' = [log EXCEPT !.model_calls = @ + 1]
  /\ \/ GoTo("stream", <<>>)
     \/ \E events \in ModelErrorEvents : GoTo("fail", events)
  /\ UNCHANGED <<fsmVars, counts, loop, batch, running, result, callerVars, sessionVars>>

\* A stream item that is not the last one; a usage report may use up the budget.
StreamItem ==
  /\ Ready("stream")
  /\ \/ /\ \E type \in {"ProviderConfirmed", "StatusInfo", "TextDelta"} :
             GoTo("stream", <<AgentEvent(type)>>)
        /\ UNCHANGED loop
     \/ /\ GoTo("stream", <<AgentEvent("UsageReport")>>)
        /\ \E over \in {FALSE, Budgeted} :
             loop' = [loop EXCEPT !.budget_stop = @ \/ over]
  /\ UNCHANGED <<fsmVars, counts, batch, running, result, callerVars, log, sessionVars>>

\* The stream fails, ends without Done, or delivers Done with its tool calls.
StreamEnds ==
  /\ Ready("stream")
  /\ \/ /\ \E events \in ModelErrorEvents : GoTo("fail", events)
        /\ UNCHANGED <<loop, batch, log>>
     \/ \E stop \in {"MaxTokens", "EndTurn", "ToolUse"}, calls \in Messages \cup {<<>>} :
          /\ GoTo("done", IF state = "Planning" THEN <<AgentEvent("TextDelta")>> ELSE <<>>)
          /\ loop' = [loop EXCEPT !.stop = stop]
          /\ batch' = NewBatch(calls)
          /\ log' = [log EXCEPT !.messages = @ + 1]
  /\ UNCHANGED <<fsmVars, counts, running, result, callerVars, sessionVars>>

(***************************************************************************)
(* The model's message is complete: truncated, final, or with tool calls.  *)
(***************************************************************************)

\* MaxTokens without tool calls: ask to continue, MaxContinuations times.
Truncated ==
  /\ Ready("done") /\ loop.stop = "MaxTokens" /\ batch.calls = <<>>
  /\ \/ /\ loop.continuations < MaxContinuations
        /\ loop' = [loop EXCEPT !.continuations = @ + 1]
        /\ GoTo("continued", <<AgentEvent("StatusInfo")>>)
     \/ /\ loop.continuations >= MaxContinuations
        /\ loop' = [loop EXCEPT !.continuations = 0]
        /\ GoTo("fail", <<AgentEvent("StatusInfo"), ErrorEvent("ResponseTruncated")>>)
  /\ UNCHANGED <<fsmVars, counts, batch, running, result, callerVars, log, sessionVars>>

\* warn_emit_assistant_turn_cbor, then the next completion of the same iteration.
Continued ==
  /\ Ready("continued")
  /\ log' = [log EXCEPT !.assistant_turns = @ + 1]
  /\ GoTo("top", <<>>)
  /\ UNCHANGED <<fsmVars, counts, loop, batch, running, result, callerVars, sessionVars>>

\* EndTurn without tool calls ends the turn; ToolUse without them is an error.
Final ==
  /\ Ready("done") /\ loop.stop # "MaxTokens" /\ batch.calls = <<>>
  /\ loop' = [loop EXCEPT !.continuations = 0]
  /\ \/ loop.stop = "EndTurn" /\ GoTo("finish", <<AgentEvent("Done")>>)
     \/ loop.stop = "ToolUse" /\ GoTo("fail", <<ErrorEvent("ModelError")>>)
  /\ UNCHANGED <<fsmVars, counts, batch, running, result, callerVars, log, sessionVars>>

Finish ==
  /\ Ready("finish")
  /\ log' = [log EXCEPT !.assistant_turns = @ + 1]
  /\ Return(IF loop.budget_stop THEN "BudgetLimit" ELSE "Completed")
  /\ UNCHANGED <<fsmVars, counts, loop, batch, running, callerVars, sessionVars>>

Fail ==
  /\ Ready("fail")
  /\ Return("failed")
  /\ UNCHANGED <<fsmVars, counts, loop, batch, running, callerVars, log, sessionVars>>

(***************************************************************************)
(* dispatch_tool_calls_batch, first part: every call is rejected or        *)
(* approved, in order, before any is dispatched.                           *)
(***************************************************************************)
StartBatch ==
  /\ Ready("done") /\ batch.calls # <<>>
  /\ loop' = [loop EXCEPT !.continuations = IF loop.stop = "MaxTokens" THEN @ ELSE 0]
  /\ remaining' = 0
  /\ GoTo("gate", <<>>)
  /\ UNCHANGED <<state, resume, counts, batch, running, result, callerVars, log, sessionVars>>

Call == batch.calls[batch.at]
ToolOf(c) == Tools[c.tool]

\* Call `at` gets a failed result without having been dispatched.
Rejected(b, events) ==
  /\ batch' = [b EXCEPT !.slots[b.at] = "rejected", !.at = @ + 1]
  /\ GoTo("gate", <<ToolCallCompleted(FALSE)>> \o events)

\* The checks of the call under consideration, in the order of the code.
Known == Call.tool \in DOMAIN Tools /\ Call.valid
WriteFiles == batch.writes + (IF Known /\ Call.tool = "write_file" THEN 1 ELSE 0)
TooManyWrites == Call.tool = "write_file" /\ WriteFiles > WriteLimit
\* The fingerprint of the call was seen too often in this turn.
Repeated ==
  /\ Call.tool \in {"read_file", "list_directory"}
  /\ counts[Call.tool] >= RepeatLimit
McpVerdict ==
  CASE ToolOf(Call).mcp # <<>> -> evaluate_mcp_automatic(mode, Call.tool, ToolOf(Call).mcp[1])
    [] ToolOf(Call).mcp = <<>> /\ Call.tool = "mcp_tool" -> "deny"
    [] OTHER -> "allow"

\* What rejects a call before its permissions are looked at: an unknown tool,
\* invalid arguments (or an ambiguous MCP server), too many write_file calls in
\* the message, a repeated exploration, the MCP policy.
Gate ==
  /\ Ready("gate") /\ batch.at <= Len(batch.calls)
  /\ LET b == [batch EXCEPT !.writes = WriteFiles, !.perm = 1]
     IN \/ /\ ~Known \/ TooManyWrites
           /\ Rejected(b, <<>>)
        \/ /\ Known /\ ~TooManyWrites /\ Repeated
           /\ Rejected(b, <<AgentEvent("StatusInfo")>>)
        \/ /\ Known /\ ~TooManyWrites /\ ~Repeated /\ McpVerdict = "deny"
           /\ Rejected(b, <<>>)
        \/ /\ Known /\ ~TooManyWrites /\ ~Repeated /\ McpVerdict = "allow"
           /\ batch' = b
           /\ GoTo("perm", <<>>)
  /\ UNCHANGED <<fsmVars, counts, loop, running, result, callerVars, log, sessionVars>>

\* The permission under consideration, and the PermissionGate event about it.
Perm == ToolOf(Call).perms[batch.perm]
Gated(b, verdict) ==
  [b EXCEPT !.gates = @ \cup {[call |-> b.at, perm |-> b.perm, verdict |-> verdict]}]

Remembered(p) ==
  \/ remembered.all_writes /\ p.kind = "WriteFile"
  \/ p.kind = "ExecuteCommand" /\ p.prefix \in remembered.prefixes
  \/ p \in remembered.allowlist

\* Mutant of Permit: a denial does not leave the loop over the permissions.
PermitAfterDenial ==
  /\ Ready("perm") /\ batch.perm <= Len(ToolOf(Call).perms)
  /\ LET verdict == IF Remembered(Perm) THEN "allow"
                    ELSE evaluate_automatic_for_tool(mode, Call.tool, Perm)
     IN IF verdict = "ask"
        THEN GoTo("confirm", <<AgentEvent("ConfirmationRequired")>>) /\ UNCHANGED batch
        ELSE batch' = [Gated(batch, verdict) EXCEPT !.perm = @ + 1] /\ GoTo("perm", <<>>)
  /\ UNCHANGED <<fsmVars, counts, loop, running, result, callerVars, log, sessionVars>>

\* One permission: remembered by the session, or decided by the policy, or
\* asked of the user.  (What a session remembers, an interactive mode put
\* there, so resolve_interactive cannot refuse.)
Permit ==
  /\ Ready("perm") /\ batch.perm <= Len(ToolOf(Call).perms)
  /\ LET verdict == IF Remembered(Perm) THEN "allow"
                    ELSE evaluate_automatic_for_tool(mode, Call.tool, Perm)
     IN \/ /\ verdict = "allow"
           /\ batch' = [Gated(batch, "allow") EXCEPT !.perm = @ + 1]
           /\ GoTo("perm", <<>>)
        \/ /\ verdict = "deny"
           /\ Rejected(Gated(batch, "deny"), <<>>)
        \/ /\ verdict = "ask"
           /\ GoTo("confirm", <<AgentEvent("ConfirmationRequired")>>)
           /\ UNCHANGED batch
  /\ UNCHANGED <<fsmVars, counts, loop, running, result, callerVars, log, sessionVars>>

Approve ==
  /\ Ready("perm") /\ batch.perm > Len(ToolOf(Call).perms)
  /\ batch' = [batch EXCEPT !.approved = Append(@, batch.at), !.at = @ + 1]
  /\ GoTo("gate", <<>>)
  /\ UNCHANGED <<fsmVars, counts, loop, running, result, callerVars, log, sessionVars>>

\* fail_tool_batch.
FailBatch ==
  /\ remaining' = 0
  /\ GoTo("fail", <<ErrorEvent("SessionFailed")>>)

\* Mutant of Remember: "all writes" is taken from a reply about a command.
RememberAnyBroad(p) ==
  {remembered, [remembered EXCEPT !.allowlist = @ \cup {p}],
   [remembered EXCEPT !.all_writes = TRUE]}

\* What a reply may ask the session to remember about the permission: nothing,
\* this permission, all writes (of a write) or the command prefix (of a command).
Remember(p) ==
  {remembered, [remembered EXCEPT !.allowlist = @ \cup {p}]} \cup
  CASE p.kind = "WriteFile"      -> {[remembered EXCEPT !.all_writes = TRUE]}
    [] p.kind = "ExecuteCommand" -> {[remembered EXCEPT !.prefixes = @ \cup {p.prefix}]}
    [] OTHER -> {}

\* The user's reply to the ConfirmationRequired that is pending.
Confirm ==
  /\ Ready("confirm") /\ chan.verdicts = "open"
  /\ \/ /\ batch' = [Gated(batch, "deny") EXCEPT !.slots[batch.at] = "rejected", !.at = @ + 1]
        /\ GoTo("gate", <<AgentEvent("TextDelta"), ToolCallCompleted(FALSE)>>)
        /\ UNCHANGED remembered
     \/ /\ batch' = [Gated(batch, "allow") EXCEPT !.perm = @ + 1]
        /\ GoTo("perm", <<AgentEvent("TextDelta")>>)
        /\ remembered' \in Remember(Perm)
  /\ UNCHANGED <<fsmVars, counts, mode, loop, running, result, callerVars, turns, log>>

ConfirmImpossible ==
  /\ Ready("confirm") /\ chan.verdicts # "open"
  /\ FailBatch
  /\ UNCHANGED <<state, resume, counts, loop, batch, running, result, callerVars, log, sessionVars>>

(***************************************************************************)
(* Second part: the approved calls are dispatched, run concurrently and    *)
(* completed in the order of the message.                                  *)
(***************************************************************************)
Dispatch ==
  /\ Ready("gate") /\ batch.at > Len(batch.calls)
  /\ GoTo(IF batch.approved = <<>> THEN "append" ELSE "launch",
          [k \in DOMAIN batch.approved |-> AgentEvent("ToolCallDispatched")])
  /\ UNCHANGED <<fsmVars, counts, loop, batch, running, result, callerVars, log, sessionVars>>

Launch ==
  /\ Ready("launch")
  /\ remaining' = Len(batch.approved)
  /\ running' = {batch.approved[k] : k \in DOMAIN batch.approved}
  /\ GoTo("execute", <<>>)
  /\ UNCHANGED <<state, resume, counts, loop, batch, result, callerVars, log, sessionVars>>

\* A tool returns; only ask_followup returns a question.
ToolReturns(i) ==
  /\ Ready("execute") /\ i \in running
  /\ running' = running \ {i}
  /\ \E output \in {"success", "error"} \cup
                   (IF Tools[batch.calls[i].tool].asks THEN {"question"} ELSE {}) :
       batch' = [batch EXCEPT !.outputs[i] = output]
  /\ UNCHANGED <<fsmVars, counts, pc, todo, loop, result, callerVars, log, sessionVars>>

\* All have returned: the results are taken up in the order of the message.
Collect ==
  /\ Ready("execute") /\ running = {}
  /\ batch' = [batch EXCEPT !.at = 1]
  /\ GoTo("collect", <<>>)
  /\ UNCHANGED <<fsmVars, counts, loop, running, result, callerVars, log, sessionVars>>

Completed(b, i, success) ==
  /\ batch' = [b EXCEPT !.slots[i] = IF success THEN "success" ELSE "error", !.at = @ + 1]
  /\ GoTo("collect", <<ToolCallCompleted(success)>>)

CollectNext ==
  /\ Ready("collect") /\ batch.at <= Len(batch.approved)
  /\ LET i == batch.approved[batch.at]
     IN /\ counts' = [counts EXCEPT ![batch.calls[i].tool] = @ + 1]
        /\ \/ /\ batch.outputs[i] # "question"
              /\ Completed(batch, i, batch.outputs[i] = "success")
           \/ /\ batch.outputs[i] = "question" /\ chan.questions = "none"
              /\ Completed(batch, i, FALSE)
           \/ /\ batch.outputs[i] = "question" /\ chan.questions # "none"
              /\ GoTo("answer", <<AgentEvent("QuestionRequired")>>)
              /\ UNCHANGED batch
  /\ UNCHANGED <<fsmVars, loop, running, result, callerVars, log, sessionVars>>

Answer ==
  /\ Ready("answer") /\ chan.questions = "open"
  /\ Completed(batch, batch.approved[batch.at], TRUE)
  /\ UNCHANGED <<fsmVars, counts, loop, running, result, callerVars, log, sessionVars>>

\* Mutant of AnswerImpossible: a closed channel is waited on.
AnswerWaitsForever ==
  /\ Ready("answer") /\ chan.questions = "closed" /\ FALSE
  /\ UNCHANGED vars

AnswerImpossible ==
  /\ Ready("answer") /\ chan.questions = "closed"
  /\ FailBatch
  /\ UNCHANGED <<state, resume, counts, loop, batch, running, result, callerVars, log, sessionVars>>

CollectDone ==
  /\ Ready("collect") /\ batch.at > Len(batch.approved)
  /\ GoTo("append", <<>>)
  /\ UNCHANGED <<fsmVars, counts, loop, batch, running, result, callerVars, log, sessionVars>>

\* Mutant of AppendResults: the AssistantTurn is left to the final message.
AppendResultsSilently ==
  /\ Ready("append")
  /\ GoTo("after", <<>>)
  /\ UNCHANGED <<fsmVars, counts, loop, batch, running, result, callerVars, log, sessionVars>>

\* The results become tool messages, one per call (a call without one is an
\* internal error); then the AssistantTurn of the message is journaled.
MissingSlot == \E i \in DOMAIN batch.slots : batch.slots[i] = "empty"

AppendResults ==
  /\ Ready("append")
  /\ \/ /\ ~MissingSlot
        /\ log' = [log EXCEPT !.assistant_turns = @ + 1]
        /\ GoTo("after", <<>>)
        /\ UNCHANGED remaining
     \/ /\ MissingSlot
        /\ FailBatch
        /\ UNCHANGED log
  /\ UNCHANGED <<state, resume, counts, loop, batch, running, result, callerVars, sessionVars>>

\* After the batch the next iteration begins, unless the turn was interrupted;
\* after a truncated message the interrupt is not looked at.
After ==
  /\ Ready("after")
  /\ \/ /\ loop.stop # "MaxTokens" /\ interrupt
        /\ GoTo("interrupted", <<AgentEvent("Done")>>)
        /\ UNCHANGED loop
     \/ /\ loop.stop = "MaxTokens" \/ ~interrupt
        /\ loop' = [loop EXCEPT !.iteration = @ + 1, !.stop = "none"]
        /\ GoTo("top", IF loop.stop = "MaxTokens" THEN <<AgentEvent("StatusInfo")>> ELSE <<>>)
  /\ batch' = NewBatch(<<>>)
  /\ UNCHANGED <<fsmVars, counts, running, result, callerVars, log, sessionVars>>

Interrupted ==
  /\ Ready("interrupted")
  /\ Return(IF loop.budget_stop THEN "BudgetLimit" ELSE "Completed")
  /\ UNCHANGED <<fsmVars, counts, loop, batch, running, callerVars, log, sessionVars>>

(***************************************************************************)
(* The caller.  The user may interrupt, and the sender of the replies may  *)
(* go away, at any moment; the flag is only read after a batch and a       *)
(* channel only when a reply is awaited, so it happens here just before.   *)
(***************************************************************************)
Interrupt ==
  /\ pc \in {"append", "after"} /\ ~interrupt /\ interrupt' = TRUE
  /\ UNCHANGED <<fsmVars, counts, pc, todo, loop, batch, running, result, chan, log, sessionVars>>

CloseChannel ==
  /\ \E c \in DOMAIN chan :
       /\ Ready(IF c = "verdicts" THEN "confirm" ELSE "answer")
       /\ chan[c] = "open" /\ chan' = [chan EXCEPT ![c] = "closed"]
  /\ UNCHANGED <<fsmVars, counts, pc, todo, loop, batch, running, result, interrupt, log,
                 sessionVars>>

RunSteps ==
  \/ apply_event \/ LoopTop \/ BudgetStop \/ Compose \/ Summarize \/ Complete
  \/ Truncated \/ Continued \/ Final \/ Finish \/ Fail
  \/ StartBatch \/ Gate \/ Permit \/ Approve \/ ConfirmImpossible
  \/ Dispatch \/ Launch \/ Collect \/ CollectNext \/ AnswerImpossible \/ CollectDone
  \/ AppendResults \/ After \/ Interrupted

UserReplies == Confirm \/ Answer

Next ==
  \/ prepare_for_new_user_turn \/ RunSteps \/ UserReplies
  \/ StreamItem \/ StreamEnds \/ Interrupt \/ CloseChannel
  \/ \E i \in running : ToolReturns(i)

Spec == Init /\ [][Next]_vars

\* The executor polls the run; provider streams end (they have a stall
\* timeout) and tools return (they have a timeout).  The user may not reply.
RunFairness ==
  /\ WF_vars(RunSteps) /\ SF_vars(StreamEnds)
  /\ WF_vars(\E i \in running : ToolReturns(i))

\* A user who answers every prompt.
AttendedSpec == Spec /\ RunFairness /\ WF_vars(UserReplies)

(***************************************************************************)
(* Properties.                                                             *)
(***************************************************************************)

\* run never meets one of the errors that stand for a mistake in run itself: an
\* event that the table does not allow in the current state, a tool call without
\* a result, a summarization from the wrong state.  The loop and the two
\* transition tables agree on every path, including interrupts, closed channels
\* and failures in the middle of a batch.  Between two completions the session is
\* Thinking, with no tool call outstanding and no summarization pending; on the
\* first it is Planning or Thinking.  This is what each iteration relies on.
LoopStateSound ==
  /\ result \notin {"InvalidTransition", "SummarizationRefused"}
  /\ Ready("append") => ~MissingSlot
  /\ Ready("complete") =>
       /\ state \in {"Planning", "Thinking"}
       /\ remaining = 0 /\ resume = "none" /\ running = {}
       /\ loop.iteration > 0 => state = "Thinking"

\* A tool call runs only when every permission it needs was allowed in this
\* batch (a PermissionGate event says so) and none was denied; and while one
\* runs no call of the batch is still waiting for its verdict.
GatedExecution ==
  \A i \in running :
    /\ \A k \in DOMAIN Tools[batch.calls[i].tool].perms :
         [call |-> i, perm |-> k, verdict |-> "allow"] \in batch.gates
    /\ \A g \in batch.gates : g.call = i => g.verdict = "allow"
    /\ state = "ToolExecution"

\* What the policy denies outright does not run: the approvals that the session
\* remembers, in this turn or an earlier one, are looked up before the policy is
\* asked, and yet never admit a permission, a tool or an MCP server that the
\* policy would refuse.
PolicyNeverOverridden ==
  \A i \in running :
    LET name == batch.calls[i].tool IN
    /\ \A p \in Range(Tools[name].perms) : evaluate_automatic_for_tool(mode, name, p) # "deny"
    /\ \A c \in Range(Tools[name].mcp) : evaluate_mcp_automatic(mode, name, c) = "allow"

\* When run asks for the next completion, or returns successfully, every model
\* message of the run has its AssistantTurn in the journal; when it fails at
\* most the last one lacks it.
MessagesJournaled ==
  /\ log.messages - log.assistant_turns \in {0, 1}
  /\ \/ pc \in {"top", "compose", "complete"}
     \/ pc = "idle" /\ result \in {"Completed", "BudgetLimit"}
     => log.messages = log.assistant_turns

\* Every run returns, when the user answers every prompt.
RunReturns == pc # "idle" ~> pc = "idle"
=============================================================================
