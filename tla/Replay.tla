------------------------------- MODULE Replay -------------------------------
(***************************************************************************)
(* `akmon replay`: an agent session is recorded in a journal, then run     *)
(* again against its own record.  The replay is another AgentSession, with *)
(* the recorded prompts, a provider and tools that play the recorded calls *)
(* back in order, and the DenyAll policy; the history it journals is       *)
(* compared with the recorded one.                                         *)
(*                                                                         *)
(* Both sessions take the actions of one agent loop.  The recorded one     *)
(* meets a model, tools, a user and a process that do as they like, the    *)
(* replay finds each answer in the record.                                 *)
(***************************************************************************)
EXTENDS SessionCompare, SubSequences

CONSTANTS
  PermissionsOf,   \* registered tools -> "plain" (needs no permission), "named"
                   \* (the session knows its permission by its name) or
                   \* "declared" (the tool itself declares one)
  Prompts, Outputs,
  Responses,       \* [text, stop, calls], calls a sequence of [tool, input, valid]
  ModelRuns,       \* how a model call goes: "once", "retried", "late", "failed"
  Gates,           \* what policy and user may decide: [policy, decision, path]
  ProviderNames,   \* a name up to its slash: "ollama", "groq/", "stub"
  Requests,        \* replay commands: [mode, dir, persist], the directory the replay
                   \* is run in, the journal it is persisted to as an Option
  Imports,         \* histories of sessions that came from an OpenTelemetry export
  SourceDir, SourceJournal,
  MaxIterations,   \* AgentConfig::max_iterations
  MaxContinuations,\* 3 in the code
  MaxTurns,        \* bound: prompts of the recorded session
  MaxModelCalls,   \* bound: model calls of the recorded session
  MaxDeviations,   \* bound: kinds of deviations in one recorded session
  Interruptions    \* subset of {"interrupt", "crash", "resume"}

ASSUME ReplayBounds ==
  {MaxIterations, MaxContinuations, MaxTurns, MaxModelCalls, MaxDeviations} \subseteq Nat

\* An answer has a sequence of calls; no tool has the name of the model's cursor;
\* an import is marked as one by its configuration, see OtelConfig.
ASSUME ReplayInputs ==
  /\ \A r \in Responses : r.calls \in Seq({r.calls[k] : k \in DOMAIN r.calls})
  /\ ModelRuns \subseteq {"once", "retried", "late", "failed"}
  /\ "model" \notin DOMAIN PermissionsOf
  /\ \A h \in Imports : h[1].config = <<"akmon_otel_config">>

VARIABLES
  histories,       \* "source", "replay" -> the events the session journaled
  provider,        \* name of the recorded session's provider
  session,         \* the running agent session, see Idle
  request,         \* the replay command, NoRequest before it is given
  cursors,         \* playback cursors: "model" and every recorded tool
  divergences,     \* what playback itself recorded
  report,          \* how the command ended, Pending before
  deviations       \* ghost: what the record holds that a replay meets differently

replayVars ==
  <<histories, provider, session, request, cursors, divergences, report, deviations>>

Pending == [result |-> "pending", divergences |-> {}]
NoRequest == [mode |-> "none", dir |-> SourceDir, persist |-> None]

source == histories["source"]
replay == histories["replay"]

Idle(side) == [side |-> side, phase |-> "idle", iteration |-> 0, continuation |-> 0,
               answer |-> None]

OfKind(history, kind) == At(history, {n \in DOMAIN history : history[n].kind = kind})
Turns(history) == Len(OfKind(history, "UserTurn"))
ModelCalls(history) == Len(OfKind(history, "ProviderCall"))

Journal(side, events) == histories' = [histories EXCEPT ![side] = @ \o events]

\* canonical_provider_id: what a provider's name says, by its start.
canonical_provider_id(name) ==
  CASE name \in {"anthropic", "ollama"} -> name
    [] name = "bedrock/"    -> "bedrock"
    [] name = "openrouter/" -> "openrouter"
    [] name = "azure/"      -> "azure_openai"
    [] name = "groq/"       -> "groq"
    [] name = "openai/"     -> "openai"
    [] OTHER                -> "openai_compatible"

\* AgentConfig names the session, so no two sessions have the same.
Config(side) == <<"config", side>>
OtelConfig == <<"akmon_otel_config">>

Init ==
  /\ provider \in ProviderNames
  /\ \/ /\ histories = [source |-> <<SessionStart(SourceDir, Config("source"))>>,
                        replay |-> <<>>]
        /\ session = Idle("source")
     \/ /\ \E imported \in Imports : histories = [source |-> imported, replay |-> <<>>]
        /\ session = [Idle("source") EXCEPT !.phase = "ended"]
  /\ request = NoRequest /\ report = Pending /\ divergences = {}
  /\ cursors = <<>>
  /\ deviations = IF canonical_provider_id(canonical_provider_id(provider))
                       = canonical_provider_id(provider) THEN {} ELSE {"provider"}

Deviates(d) ==
  /\ Cardinality(deviations \cup d) <= MaxDeviations
  /\ deviations' = deviations \cup d
Step(side, phase) == session.side = side /\ session.phase = phase

-----------------------------------------------------------------------------
(* The agent loop, of either session.                                       *)

\* AgentSession::run starts: the prompt is journaled.
Prompted(prompt) ==
  /\ Journal(session.side, <<UserTurn(prompt)>>)
  /\ session' = [Idle(session.side) EXCEPT !.phase = "calling"]

\* A run ends in an error: the recorded session's process goes on to drop it,
\* the replay ends with it.
RunFails ==
  IF session.side = "source"
  THEN /\ session' = [session EXCEPT !.phase = "failed"]
       /\ Deviates({"failed"})
       /\ UNCHANGED report
  ELSE /\ session' = [session EXCEPT !.phase = "over"]
       /\ report' = [result |-> "failed", divergences |-> {}]
       /\ UNCHANGED deviations

IterationLimit ==
  /\ session.phase = "calling" /\ session.iteration >= MaxIterations
  /\ RunFails
  /\ UNCHANGED <<histories, provider, request, cursors, divergences>>

Answered(response) ==
  session' = [session EXCEPT !.phase = "answered", !.answer = Some(response)]

Answer == session.answer[1]
PlainAnswer == session.phase = "answered" /\ Answer.calls = <<>>

loopUnchanged == <<provider, request, cursors, divergences, report, deviations>>

\* The model is done: the turn ends.
TurnEnds ==
  /\ PlainAnswer /\ Answer.stop = "EndTurn"
  /\ Journal(session.side, <<AssistantTurn(Answer.text, None)>>)
  /\ session' = Idle(session.side)
  /\ UNCHANGED loopUnchanged

\* The answer was cut off: the model is asked to go on.
Continues ==
  /\ PlainAnswer /\ Answer.stop = "MaxTokens" /\ session.continuation < MaxContinuations
  /\ Journal(session.side, <<AssistantTurn(Answer.text, None)>>)
  /\ session' = [session EXCEPT !.phase = "calling", !.continuation = @ + 1, !.answer = None]
  /\ UNCHANGED loopUnchanged

Unanswerable ==
  /\ PlainAnswer
  /\ \/ Answer.stop = "ToolUse"
     \/ Answer.stop = "MaxTokens" /\ session.continuation >= MaxContinuations
  /\ RunFails
  /\ UNCHANGED <<histories, provider, request, cursors, divergences>>

\* After a batch: its events and the AssistantTurn, then the next model call or,
\* interrupted, the end of the turn.
BatchDone(events, interrupted) ==
  /\ Journal(session.side, events \o <<AssistantTurn(Answer.text, Some(Answer.calls))>>)
  /\ session' = IF interrupted THEN Idle(session.side)
                ELSE [session EXCEPT !.phase = "calling", !.iteration = @ + 1, !.answer = None,
                        !.continuation = IF Answer.stop = "MaxTokens" THEN @ ELSE 0]

GateEvent(call, gate) ==
  PermissionGate(gate.policy, gate.decision, [tool |-> call.tool, input |-> call.input,
                                              path |-> gate.path])

-----------------------------------------------------------------------------
(* The recorded session.                                                    *)

SourcePrompt ==
  /\ Step("source", "idle") /\ Turns(source) < MaxTurns
  /\ \E p \in Prompts : Prompted(p)
  /\ UNCHANGED loopUnchanged

\* What the provider wrapper journals of a call.  Failed attempts leave no
\* response; with some recorded, a success that is not recorded yet when the
\* stream yields Done is lost ("late").
Recorded(run, response) ==
  LET ok == Attempt("Success", "request", Some(response), None)
      failed == Attempt("ServerError", "request", None, Some("unavailable"))
      id == canonical_provider_id(provider)
  IN CASE run = "once"    -> ProviderCall(id, <<ok>>, Some(response))
       [] run = "retried" -> ProviderCall(id, <<failed, ok>>, Some(response))
       [] run \in {"late", "failed"} -> ProviderCall(id, <<failed>>, None)

SourceModelCall ==
  /\ Step("source", "calling") /\ session.iteration < MaxIterations
  /\ ModelCalls(source) < MaxModelCalls
  /\ \E response \in Responses, run \in ModelRuns :
       /\ Journal("source", <<Recorded(run, response)>>)
       /\ IF run = "failed"
          THEN RunFails
          ELSE /\ Answered(response) /\ Deviates({run} \ {"once"}) /\ UNCHANGED report
  /\ UNCHANGED <<provider, request, cursors, divergences>>

\* A call is checked in the order of the answer: its tool must be registered,
\* its arguments valid; a permission it needs is asked for.
Known(call) == call.tool \in DOMAIN PermissionsOf /\ call.valid
Gated(call) == Known(call) /\ PermissionsOf[call.tool] # "plain"

\* The interrupt flag is read after a batch of an answer that was not cut off.
MayInterrupt == IF "interrupt" \in Interruptions /\ Answer.stop # "MaxTokens" THEN BOOLEAN ELSE {FALSE}

\* The orders in which calls may finish.
Orders(S) ==
  {f \in [1..Cardinality(S) -> S] : \A i, j \in DOMAIN f : f[i] = f[j] => i = j}

\* Tools run at the same time: the ToolCalls come in the order they finish.
SourceBatch ==
  /\ Step("source", "answered") /\ Answer.calls # <<>>
  /\ LET calls == Answer.calls
         gated == {i \in DOMAIN calls : Gated(calls[i])}
         asked == InOrder(gated)
     IN \E gates \in [gated -> Gates], interrupted \in MayInterrupt :
          LET approved == {i \in DOMAIN calls : Known(calls[i])
                             /\ (Gated(calls[i]) => gates[i].decision = "allowed")}
          IN \E finished \in Orders(approved), output \in [approved -> Outputs] :
               /\ BatchDone([n \in DOMAIN asked |-> GateEvent(calls[asked[n]], gates[asked[n]])]
                            \o [n \in DOMAIN finished |->
                                  ToolCall(calls[finished[n]].tool, calls[finished[n]].input,
                                           output[finished[n]])], interrupted)
               /\ Deviates({d \in {"permission", "order", "invalid", "unstored", "interrupted"} :
                     CASE d = "permission"  -> asked # <<>>
                       [] d = "order"       -> finished # InOrder(approved)
                       [] d = "invalid"     -> \E i \in DOMAIN calls : ~calls[i].valid
                       [] d = "unstored"    -> \E i \in approved : output[i] = Unstored
                       [] d = "interrupted" -> interrupted})
  /\ UNCHANGED <<provider, request, cursors, divergences, report>>

\* end, or the session is dropped: SessionEnd once.
SourceEnds ==
  /\ session.side = "source" /\ session.phase \in {"idle", "failed"}
  /\ Journal("source", <<SessionEnd>>)
  /\ session' = [session EXCEPT !.phase = "ended"]
  /\ UNCHANGED loopUnchanged

\* The process is killed; what it had appended stays.
SourceCrash ==
  /\ "crash" \in Interruptions
  /\ session.side = "source" /\ session.phase \notin {"ended", "crashed"}
  /\ session' = [session EXCEPT !.phase = "crashed"]
  /\ Deviates({"crashed"})
  /\ UNCHANGED <<histories, provider, request, cursors, divergences, report>>

\* A new process opens the session (akmon -c): no SessionStart.
SourceResumes ==
  /\ "resume" \in Interruptions
  /\ session.side = "source" /\ session.phase \in {"ended", "crashed"}
  /\ source[1].config # OtelConfig /\ "resumed" \notin deviations
  /\ session' = Idle("source")
  /\ Deviates({"resumed"})
  /\ UNCHANGED <<histories, provider, request, cursors, divergences, report>>

-----------------------------------------------------------------------------
(* The replay command.                                                      *)

RecordedCalls == OfKind(source, "ProviderCall")
\* The positions of a tool's calls in the record.
CallsOf(history, tool) ==
  {n \in DOMAIN history : history[n].kind = "ToolCall" /\ history[n].tool = tool}
RecordedTool(tool) == InOrder(CallsOf(source, tool))
RecordedTools ==
  {source[n].tool : n \in {m \in DOMAIN source : source[m].kind = "ToolCall"}}
RecordedPrompts == [n \in 1..Turns(source) |-> OfKind(source, "UserTurn")[n].prompt]
RecordedProviders == {RecordedCalls[n].provider : n \in DOMAIN RecordedCalls}

\* Usage errors, found before the engine is built.
RefusesUsage(r) == r.persist = Some(SourceJournal) \/ source[1].config = OtelConfig

\* ReplayEngine::new and select_single_provider.
Playable ==
  /\ validate_source_preconditions(source)
  /\ RecordedPrompts # <<>> => Cardinality(RecordedProviders) = 1

ReplayCommand ==
  /\ session.side = "source" /\ session.phase \in {"ended", "crashed"} /\ report = Pending
  /\ request' \in Requests
  /\ IF RefusesUsage(request') \/ ~Playable
     THEN /\ report' = [result |-> IF RefusesUsage(request') THEN "usage" ELSE "failed",
                        divergences |-> {}]
          /\ session' = [session EXCEPT !.side = "replay", !.phase = "over"]
          /\ UNCHANGED <<histories, cursors>>
     ELSE /\ session' = Idle("replay")
          /\ Journal("replay", <<SessionStart(request'.dir, Config("replay"))>>)
          /\ cursors' = [t \in RecordedTools \cup {"model"} |-> 0]
          /\ UNCHANGED report
  /\ UNCHANGED <<provider, divergences, deviations>>

ReplayPrompt ==
  /\ Step("replay", "idle") /\ Turns(replay) < Turns(source)
  /\ Prompted(RecordedPrompts[Turns(replay) + 1])
  /\ UNCHANGED loopUnchanged

\* PlaybackProvider::complete, through the provider wrapper: one attempt.  The
\* playback provider is named as the recorded one was identified.
ReplayedCall(attempt, stream) ==
  ProviderCall(canonical_provider_id(LastOf(RecordedCalls).provider), <<attempt>>, stream)

Played(response) ==
  /\ Journal("replay", <<ReplayedCall(Attempt("Success", "replay request", Some(response), None),
                                      Some(response))>>)
  /\ Answered(response)
  /\ UNCHANGED <<report, deviations>>

Exhausted == [text |-> "", stop |-> "EndTurn", calls |-> <<>>]

Advance(name) == cursors' = [cursors EXCEPT ![name] = @ + 1]

ReplayModelCall ==
  /\ Step("replay", "calling") /\ session.iteration < MaxIterations
  /\ IF cursors["model"] = Len(RecordedCalls)
     THEN /\ divergences' = divergences \cup {Divergence(None, "ProviderCallUnexpected")}
          /\ Played(Exhausted)
          /\ UNCHANGED cursors
     ELSE LET attempts == RecordedCalls[cursors["model"] + 1].attempts
              succeeded == At(attempts, {n \in DOMAIN attempts : attempts[n].status = "Success"})
          IN /\ Advance("model")
             /\ IF succeeded # <<>>
                THEN Played(succeeded[1].response[1]) /\ UNCHANGED divergences
                ELSE /\ Journal("replay",
                          <<ReplayedCall(Attempt("ServerError", "replay request", None,
                                                 Some("no success")), None)>>)
                     /\ divergences' = divergences
                          \cup {Divergence(Some(cursors["model"] + 1), "AttemptStatusDivergence")}
                     /\ RunFails
  /\ UNCHANGED <<provider, request>>

\* Mutant of Plays: a tool always plays its first recorded call.
PlaysFirst(play, call) ==
  LET recorded == source[RecordedTool(call.tool)[1]]
  IN [play EXCEPT !.events = Append(@, ToolCall(call.tool, call.input, recorded.output)),
                  !.divergences = @ \cup (IF recorded.input = call.input THEN {}
                     ELSE {Divergence(Some(RecordedTool(call.tool)[1]), "ToolInputMismatch")})]

\* PlaybackTool::execute: the next recorded output of the tool, whatever the
\* input in default mode.  `play` is [events, cursors, divergences].
Plays(play, call) ==
  LET recorded == RecordedTool(call.tool)
      n == play.cursors[call.tool] + 1
      exhausted == n > Len(recorded)
      mismatch == ~exhausted /\ source[recorded[n]].input # call.input
      output == IF exhausted \/ (mismatch /\ request.mode = "strict") THEN "replay error"
                ELSE source[recorded[n]].output
  IN [events  |-> Append(play.events, ToolCall(call.tool, call.input, output)),
      cursors |-> IF exhausted THEN play.cursors ELSE [play.cursors EXCEPT ![call.tool] = n],
      divergences |-> play.divergences
        \cup (IF exhausted THEN {Divergence(None, "ToolCallUnexpected")} ELSE {})
        \cup (IF mismatch THEN {Divergence(Some(recorded[n]), "ToolInputMismatch")} ELSE {})]

\* A batch's approved calls are played in their order.
PlayedInOrder(approved) ==
  LET played[n \in 0..Len(approved)] ==
        IF n = 0 THEN [events |-> <<>>, cursors |-> cursors, divergences |-> divergences]
        ELSE Plays(played[n - 1], approved[n])
  IN played[Len(approved)]

\* The replay's tools are those that were recorded; they take any arguments and
\* declare no permission, but a permission the session knows by the tool's name
\* is refused by DenyAll.
DenyAllGate == [policy |-> "tool:auto", decision |-> "denied", path |-> "deny-all"]

ReplayBatch ==
  /\ Step("replay", "answered") /\ Answer.calls # <<>>
  /\ LET known == {n \in DOMAIN Answer.calls : Answer.calls[n].tool \in RecordedTools}
         named == {n \in known : PermissionsOf[Answer.calls[n].tool] = "named"}
         denied == At(Answer.calls, named)
         played == PlayedInOrder(At(Answer.calls, known \ named))
     IN /\ BatchDone([i \in DOMAIN denied |-> GateEvent(denied[i], DenyAllGate)]
                     \o played.events, FALSE)
        /\ cursors' = played.cursors /\ divergences' = played.divergences
  /\ UNCHANGED <<provider, request, report, deviations>>

\* Every prompt was run: the session ends and the histories are compared.
ReplayEnds ==
  /\ Step("replay", "idle") /\ Turns(replay) = Turns(source)
  /\ Journal("replay", <<SessionEnd>>)
  /\ session' = [session EXCEPT !.phase = "over"]
  /\ LET found == divergences \cup compare(request.mode, source, Append(replay, SessionEnd))
     IN report' = [result |-> IF found = {} THEN "passed" ELSE "diverged",
                   divergences |-> found]
  /\ UNCHANGED <<provider, request, cursors, divergences, deviations>>

Next ==
  \/ SourcePrompt \/ SourceModelCall \/ SourceBatch
  \/ SourceEnds \/ SourceCrash \/ SourceResumes
  \/ IterationLimit \/ TurnEnds \/ Continues \/ Unanswerable
  \/ ReplayCommand \/ ReplayPrompt \/ ReplayModelCall \/ ReplayBatch \/ ReplayEnds

Spec == Init /\ [][Next]_replayVars

-----------------------------------------------------------------------------
(* Properties *)

Finished == report # Pending
Passed == report.result = "passed"

\* A recorded session in which every tool ran without a permission, in the
\* order it was called, and nothing failed or was interrupted replays with no
\* divergence, from the same directory: playback by cursors, the agent loop and
\* both comparisons fit together.  Retries are what only strict mode counts.
ReplayReproduces ==
  /\ Finished
  /\ deviations \subseteq (IF request.mode = "strict" THEN {} ELSE {"retried"})
  /\ request.dir = SourceDir
  /\ ~RefusesUsage(request)
  => Passed

\* What a session did, without what the comparisons leave to the surroundings.
Conduct(history) ==
  [n \in DOMAIN history |->
     LET e == history[n]
     IN CASE e.kind = "SessionStart" -> <<e.kind, e.cwd>>
          [] e.kind = "ProviderCall" -> <<e.kind, e.stream>>
          [] e.kind = "ToolCall" -> <<e.kind, e.tool, e.input, e.output>>
          [] e.kind = "PermissionGate" -> <<e.kind, e.decision, e.context>>
          [] e.kind = "AssistantTurn" -> <<e.kind, e.message, e.tool_calls>>
          [] OTHER -> <<e.kind>>]

\* A replay that passed did all the recorded session did, in the same order, and
\* nothing else: no recorded model or tool call was left unplayed.  And diff,
\* whose comparison is written apart, agrees with a strict replay: there is no
\* strict divergence exactly when diff finds no difference but the requests and
\* the configuration that names the session.
VerdictsAreRight ==
  /\ Passed =>
       /\ Conduct(replay) = Conduct(source)
       /\ cursors["model"] = ModelCalls(source)
       /\ \A t \in RecordedTools : cursors[t] = Len(RecordedTool(t))
  /\ Finished /\ replay # <<>> /\ LastOf(replay).kind = "SessionEnd" =>
       LET diff == run_inner(source, replay)
       IN compare_strict_mode(source, replay) = {}
            <=> /\ diff.structural_break = None
                /\ \A d \in diff.differences : is_informational(d) \/ d.field = "config"
=============================================================================
