------------------------------ MODULE AgentFsm ------------------------------
(***************************************************************************)
(* The agent's state machine: which event is legal in which state, and the *)
(* state it leads to.  The validator (akmon-core) and the transition       *)
(* function (akmon-query) are two tables in the code, and two here.        *)
(*                                                                         *)
(* The iteration counter that the states carry is always 0 (it is set once *)
(* and copied), so a state is its name.                                    *)
(***************************************************************************)
EXTENDS Integers, Sequences

AgentErrors == {"IterationLimitReached", "ModelError", "ToolError", "PolicyDenied",
                "ResponseTruncated", "SessionFailed", "InvalidTransition"}

\* An event is its type with, for an Error, the error, for a ToolCallCompleted
\* whether the call succeeded and for an IterationStarted whether n is 1.
AgentEvent(type) == [type |-> type, arg |-> "none"]
ErrorEvent(error) == [type |-> "Error", arg |-> error]
ToolCallCompleted(success) ==
  [type |-> "ToolCallCompleted", arg |-> IF success THEN "success" ELSE "failure"]

IterationStarted(n) ==
  [type |-> "IterationStarted", arg |-> IF n = 1 THEN "first" ELSE "later"]

\* Events that are legal in a state whatever they carry.
LegalEvents ==
  [Idle |-> {"TextDelta", "MicrocompactEstimate"},
   Planning |-> {"TextDelta", "UsageReport", "ProviderConfirmed", "StatusInfo",
                 "MicrocompactEstimate", "SummarizationStarted"},
   Thinking |-> {"TextDelta", "UsageReport", "ProviderConfirmed", "StatusInfo",
                 "MicrocompactEstimate", "SummarizationStarted",
                 "ToolCallDispatched", "ConfirmationRequired", "Done"},
   ToolExecution |-> {"UsageReport", "StatusInfo", "MicrocompactEstimate",
                      "ToolCallCompleted", "QuestionRequired", "ToolCallDispatched"},
   AwaitingConfirmation |-> {"TextDelta", "MicrocompactEstimate"},
   Summarizing |-> {"UsageReport", "StatusInfo", "MicrocompactEstimate",
                    "ContextSummarized"},
   Complete |-> {}, Failed |-> {}]

LegalErrors ==
  [Idle |-> {},
   Planning |-> {"ModelError", "PolicyDenied", "IterationLimitReached"},
   Thinking |-> AgentErrors \ {"InvalidTransition"},
   ToolExecution |-> {"ToolError", "SessionFailed", "ModelError"},
   AwaitingConfirmation |-> {"SessionFailed"},
   Summarizing |-> {"SessionFailed", "ModelError"},
   Complete |-> {}, Failed |-> {}]

validate_transition(from, event) ==
  \/ event.type \in LegalEvents[from]
  \/ event.type = "Error" /\ event.arg \in LegalErrors[from]
  \/ from = "Idle" /\ event = IterationStarted(1)
  \/ from = "Thinking" /\ event = ToolCallCompleted(FALSE)

\* Mutant of next_state_after: the first completion ends the batch.
next_state_after_first(from, event, remaining, resume) ==
  CASE event.type \in {"TextDelta", "ToolCallCompleted"} -> "Thinking"
    [] event.type = "IterationStarted"     -> "Planning"
    [] event.type = "Done"                 -> "Complete"
    [] event.type = "Error"                -> "Failed"
    [] event.type = "ToolCallDispatched"   -> "ToolExecution"
    [] event.type = "ConfirmationRequired" -> "AwaitingConfirmation"
    [] event.type = "SummarizationStarted" -> "Summarizing"
    [] event.type = "ContextSummarized"    -> resume
    [] OTHER -> from

\* The state after a legal event; remaining is parallel_tool_batch_remaining
\* and resume the state saved for the end of a summarization.  "none" stands
\* for an error: no arm for the pair, or no state saved.
next_state_after(from, event, remaining, resume) ==
  CASE event.type = "TextDelta"            -> IF from = "Idle" THEN "none" ELSE "Thinking"
    [] event.type = "ToolCallCompleted"    -> IF from = "ToolExecution" /\ remaining > 1
                                              THEN "ToolExecution" ELSE "Thinking"
    [] event.type = "IterationStarted"     -> "Planning"
    [] event.type = "Done"                 -> "Complete"
    [] event.type = "Error"                -> "Failed"
    [] event.type = "ToolCallDispatched"   -> "ToolExecution"
    [] event.type = "ConfirmationRequired" -> "AwaitingConfirmation"
    [] event.type = "SummarizationStarted" -> "Summarizing"
    [] event.type = "ContextSummarized"    -> resume
    [] OTHER -> from
=============================================================================
