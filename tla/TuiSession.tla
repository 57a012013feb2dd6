------------------------------ MODULE TuiSession ------------------------------
(***************************************************************************)
(* The terminal UI: the terminal thread with its modal key handling, the    *)
(* task that forwards its commands, and the task that owns the agent        *)
(* session and runs one turn after another (akmon-tui: runner.rs, agent.rs, *)
(* app.rs, slash_exec.rs, session_persist.rs).                              *)
(*                                                                         *)
(* The parts share only channels, the interrupt flag, the configuration and *)
(* the slots that hold the senders of verdicts and answers.  What a turn    *)
(* does inside is AgentSession; here it prompts, asks, and ends.  Keys that *)
(* only scroll, edit the composer or show an overlay are left out.          *)
(***************************************************************************)
EXTENDS Naturals, Sequences, FiniteSets

CONSTANTS
  Sessions,     \* session ids, two or more
  FirstSession, \* the one the program is started with
  MaxTurns,     \* bound: turns the user submits
  MaxPrompts,   \* bound: prompts and questions of all turns
  MaxCommands,  \* bound: slash commands that rebuild, load or clear
  MaxExtras,    \* bound: prompts, questions and slash commands together
  BridgeCap     \* capacity of the bridge (512 in the code)

ASSUME SessionAssumption == FirstSession \in Sessions
ASSUME BoundAssumption ==
  /\ {MaxTurns, MaxPrompts, MaxCommands, MaxExtras} \subseteq Nat
  /\ BridgeCap \in Nat \ {0}

VARIABLES
  ui,        \* the terminal thread's state, see NewTerminal
  config,    \* session id in the shared configuration
  saved,     \* snapshot files: turns whose message the file of a session holds
  tasks,     \* turns queued for the agent task
  commands,  \* queue to the forwarding task: verdicts, answers, interrupts
  effects,   \* queued /clear requests
  bridge,    \* queue to the terminal thread
  reload,    \* reload_notify holds a permit
  flag,      \* the interrupt flag
  connected, \* the slot's verdict sender belongs to the live session's receiver
  verdicts,  \* the verdict channel of the live session
  answers,   \* the answer channel of the running turn
  agent,     \* the agent task, see NewAgent
  used       \* counters for the bounds: turns, prompts, commands

channels == <<tasks, commands, effects, bridge, verdicts, answers>>
vars == <<ui, config, saved, channels, reload, flag, connected, agent, used>>

Turns == 1..MaxTurns
Prompts == 1..MaxPrompts

MoreExtras == used.prompts + used.commands < MaxExtras
None == 0

Kinds == {"plain", "plan", "architect"}
Task == [turn: Turns, kind: Kinds]
NoTask == [turn |-> None, kind |-> "plain"]

\* The terminal thread.  `dialog` and `question` are the prompt that is shown
\* (awaiting_confirmation, awaiting_question), `messages` the turns whose user
\* message is in the transcript, `cleared` whether /clear was used in this
\* session, `plan` the turn whose plan /implement would run.
NewTerminal ==
  [open |-> TRUE, running |-> FALSE, dialog |-> None, question |-> None,
   messages |-> {}, cleared |-> FALSE, plan |-> None]

\* The agent task.  `session` is the live session (or the one that could not be
\* opened), `prompt` what a waiting run waits for.
NewAgent ==
  [pc |-> "starting", session |-> None, task |-> NoTask, ok |-> TRUE, prompt |-> None]

NoneUsed == [turns |-> 0, prompts |-> 0, commands |-> 0]

Init ==
  /\ ui = NewTerminal
  /\ config = FirstSession
  /\ saved = [s \in Sessions |-> {}]
  /\ tasks = <<>> /\ commands = <<>> /\ effects = <<>> /\ bridge = <<>>
  /\ verdicts = <<>> /\ answers = <<>>
  /\ reload = FALSE /\ flag = FALSE /\ connected = FALSE
  /\ agent = NewAgent
  /\ used = NoneUsed

-----------------------------------------------------------------------------
(* The agent task *)

Tell(message) ==
  /\ Len(bridge) < BridgeCap
  /\ bridge' = Append(bridge, message)

\* build_agent_session puts a new sender in the slot and only then opens the
\* journal.  The live session holds the journal's exclusive lock, so a build
\* succeeds only while there is none; after a failure the sender in the slot has
\* no receiver.
MayOpenJournal == agent.session = None

BuildFails ==
  /\ connected' = FALSE
  /\ Tell([kind |-> "Error"])

Start ==
  /\ agent.pc = "starting"
  /\ \/ /\ MayOpenJournal
        /\ agent' = [agent EXCEPT !.pc = "idle", !.session = config]
        /\ connected' = TRUE
        /\ UNCHANGED <<bridge, tasks, effects>>
     \/ /\ BuildFails   \* the provider does not resolve, or another process has the journal
        /\ agent' = [agent EXCEPT !.pc = "gone"]
        /\ tasks' = <<>> /\ effects' = <<>>   \* the receivers are dropped
  /\ UNCHANGED <<ui, config, saved, commands, verdicts, answers, reload, flag, used>>

Rebuild ==
  /\ agent.pc = "idle" /\ reload
  /\ reload' = FALSE
  /\ ~MayOpenJournal /\ BuildFails
  /\ UNCHANGED <<ui, config, saved, tasks, commands, effects, verdicts, answers, flag, agent, used>>

ClearContext ==
  /\ agent.pc = "idle" /\ effects # <<>>
  /\ effects' = Tail(effects)
  /\ Tell([kind |-> "StatusInfo"])
  /\ UNCHANGED <<ui, config, saved, tasks, commands, verdicts, answers, reload, flag, connected, agent, used>>

\* A turn begins with a lowered flag.  An architect turn builds a planner session
\* while the live one still holds the journal, reports the error, and waits for
\* the next task without RunFinished.
TakeTurn ==
  /\ agent.pc = "idle" /\ tasks # <<>>
  /\ tasks' = Tail(tasks)
  /\ flag' = FALSE
  /\ \/ /\ Head(tasks).kind = "architect"
        /\ ~MayOpenJournal /\ BuildFails
        /\ UNCHANGED agent
     \/ /\ Head(tasks).kind # "architect"
        /\ agent' = [agent EXCEPT !.pc = "run", !.task = Head(tasks), !.ok = TRUE]
        /\ UNCHANGED <<bridge, connected>>
  /\ UNCHANGED <<ui, config, saved, commands, effects, verdicts, answers, reload, used>>

\* Mutant: the run waits for a verdict although no sender is left.
PromptWaits ==
  /\ agent.pc = "run" /\ used.prompts < MaxPrompts /\ MoreExtras
  /\ used' = [used EXCEPT !.prompts = @ + 1]
  /\ Tell([kind |-> "ConfirmationRequired", prompt |-> used.prompts + 1])
  /\ agent' = [agent EXCEPT !.pc = "prompt", !.prompt = used.prompts + 1]
  /\ UNCHANGED <<ui, config, saved, tasks, commands, effects, verdicts, answers, reload, flag, connected>>

\* The prompt is shown before the run looks at its channel; a closed channel fails
\* the batch and with it the run.
Prompt ==
  /\ agent.pc = "run" /\ used.prompts < MaxPrompts /\ MoreExtras
  /\ used' = [used EXCEPT !.prompts = @ + 1]
  /\ Tell([kind |-> "ConfirmationRequired", prompt |-> used.prompts + 1])
  /\ agent' = IF connected
              THEN [agent EXCEPT !.pc = "prompt", !.prompt = used.prompts + 1]
              ELSE [agent EXCEPT !.pc = "finish", !.ok = FALSE]
  /\ UNCHANGED <<ui, config, saved, tasks, commands, effects, verdicts, answers, reload, flag, connected>>

Question ==
  /\ agent.pc = "run" /\ used.prompts < MaxPrompts /\ MoreExtras
  /\ used' = [used EXCEPT !.prompts = @ + 1]
  /\ Tell([kind |-> "QuestionRequired", prompt |-> used.prompts + 1])
  /\ agent' = [agent EXCEPT !.pc = "question", !.prompt = used.prompts + 1]
  /\ UNCHANGED <<ui, config, saved, tasks, commands, effects, verdicts, answers, reload, flag, connected>>

ReceiveVerdict ==
  /\ agent.pc = "prompt" /\ verdicts # <<>>
  /\ verdicts' = Tail(verdicts)
  /\ agent' = [agent EXCEPT !.pc = "run", !.prompt = None]
  /\ UNCHANGED <<ui, config, saved, tasks, commands, effects, bridge, answers, reload, flag, connected, used>>

ReceiveAnswer ==
  /\ agent.pc = "question" /\ answers # <<>>
  /\ answers' = Tail(answers)
  /\ agent' = [agent EXCEPT !.pc = "run", !.prompt = None]
  /\ UNCHANGED <<ui, config, saved, tasks, commands, effects, bridge, verdicts, reload, flag, connected, used>>

\* A run ends on its own, fails, or ends because the flag is raised.
EndRun ==
  /\ agent.pc = "run"
  /\ \/ Tell([kind |-> "Done"]) /\ agent' = [agent EXCEPT !.pc = "finish"]
     \/ Tell([kind |-> "Error"]) /\ agent' = [agent EXCEPT !.pc = "finish", !.ok = FALSE]
     \/ /\ flag
        /\ Tell([kind |-> "Done"])
        /\ agent' = [agent EXCEPT !.pc = "finish"]
  /\ UNCHANGED <<ui, config, saved, tasks, commands, effects, verdicts, answers, reload, flag, connected, used>>

\* The answer channel dies with the run; RunFinished comes after all its events.
Finish ==
  /\ agent.pc = "finish"
  /\ answers' = <<>>
  /\ Tell([kind |-> "RunFinished", turn |-> agent.task.turn,
           plan |-> IF agent.task.kind = "plan" /\ agent.ok THEN agent.task.turn ELSE None])
  /\ agent' = [agent EXCEPT !.pc = "idle", !.task = NoTask, !.prompt = None]
  /\ UNCHANGED <<ui, config, saved, tasks, commands, effects, verdicts, reload, flag, connected, used>>

AgentStep ==
  \/ Start \/ Rebuild \/ ClearContext \/ TakeTurn
  \/ Prompt \/ Question \/ ReceiveVerdict \/ ReceiveAnswer \/ EndRun \/ Finish

\* The forwarding task.  The verdict slot keeps its sender between turns; the
\* answer slot holds one only during a run.
Forward ==
  /\ commands # <<>>
  /\ commands' = Tail(commands)
  /\ LET c == Head(commands) IN
       /\ verdicts' = IF c.kind = "Confirm" /\ connected THEN Append(verdicts, c.prompt)
                      ELSE verdicts
       /\ answers' = IF c.kind = "QuestionAnswer" /\ agent.pc \in {"run", "prompt", "question"}
                     THEN Append(answers, c.prompt) ELSE answers
       /\ flag' = (flag \/ c.kind = "Interrupt")
  /\ UNCHANGED <<ui, config, saved, tasks, effects, bridge, reload, connected, agent, used>>

-----------------------------------------------------------------------------
(* The terminal thread *)

\* save_session_snapshot writes the transcript to the file of the session that the
\* configuration names now.
Snapshot(messages) == saved' = [saved EXCEPT ![config] = messages]

\* apply_agent_event; an Error is a row of the transcript and nothing else.
ApplyAgentEvent(m) ==
  /\ \/ m.kind = "ConfirmationRequired" /\ ui' = [ui EXCEPT !.dialog = m.prompt]
     \/ m.kind = "QuestionRequired" /\ ui' = [ui EXCEPT !.question = m.prompt]
     \/ m.kind = "Done" /\ ui' = [ui EXCEPT !.running = FALSE]
     \/ m.kind \in {"Error", "StatusInfo"} /\ UNCHANGED ui
  /\ UNCHANGED <<saved, reload, flag>>

RunFinished(m) ==
  /\ m.kind = "RunFinished"
  /\ ui' = [ui EXCEPT !.running = FALSE, !.plan = IF m.plan = None THEN @ ELSE m.plan]
  /\ flag' = FALSE
  /\ Snapshot(ui.messages)
  /\ UNCHANGED reload

ProjectJobDone(m) ==
  /\ m.kind = "ProjectJobDone"
  /\ reload' = TRUE
  /\ UNCHANGED <<ui, saved, flag>>

Drain ==
  /\ bridge # <<>>
  /\ bridge' = Tail(bridge)
  /\ \/ ApplyAgentEvent(Head(bridge))
     \/ RunFinished(Head(bridge))
     \/ ProjectJobDone(Head(bridge))
  /\ UNCHANGED <<config, tasks, commands, effects, connected, verdicts, answers, agent, used>>

Send(command) == commands' = Append(commands, command)

\* Mutant: the dialog stays, and a second key answers it again.
AnswerPromptTwice ==
  /\ ui.dialog # None
  /\ Send([kind |-> "Confirm", prompt |-> ui.dialog])
  /\ ui' = IF commands = <<>> THEN ui ELSE [ui EXCEPT !.dialog = None]
  /\ UNCHANGED <<config, saved, tasks, effects, bridge, reload, flag, connected, verdicts, answers, agent, used>>

\* Any key that answers the dialog: it captures all keys but those of a question.
AnswerPrompt ==
  /\ ui.dialog # None
  /\ Send([kind |-> "Confirm", prompt |-> ui.dialog])
  /\ ui' = [ui EXCEPT !.dialog = None]
  /\ UNCHANGED <<config, saved, tasks, effects, bridge, reload, flag, connected, verdicts, answers, agent, used>>

AnswerQuestion ==
  /\ ui.question # None
  /\ Send([kind |-> "QuestionAnswer", prompt |-> ui.question])
  /\ ui' = [ui EXCEPT !.question = None]
  /\ UNCHANGED <<config, saved, tasks, effects, bridge, reload, flag, connected, verdicts, answers, agent, used>>

Typing == ui.dialog = None /\ ui.question = None

\* Mutant: an interrupt closes the question.
InterruptClosesQuestion ==
  /\ ui.dialog = None /\ ui.running
  /\ Send([kind |-> "Interrupt"])
  /\ ui' = [ui EXCEPT !.running = FALSE, !.question = None]
  /\ UNCHANGED <<config, saved, tasks, effects, bridge, reload, flag, connected, verdicts, answers, agent, used>>

\* Ctrl+C, which also works while a question is shown.
Interrupt ==
  /\ ui.dialog = None /\ ui.running
  /\ Send([kind |-> "Interrupt"])
  /\ ui' = [ui EXCEPT !.running = FALSE]
  /\ UNCHANGED <<config, saved, tasks, effects, bridge, reload, flag, connected, verdicts, answers, agent, used>>

\* A send fails without notice once the agent task is gone.
Queue(task) == tasks' = IF agent.pc = "gone" THEN tasks ELSE Append(tasks, task)

Submit(kind) ==
  /\ Typing /\ ~ui.running /\ used.turns < MaxTurns
  /\ used' = [used EXCEPT !.turns = @ + 1]
  /\ flag' = FALSE
  /\ Queue([turn |-> used.turns + 1, kind |-> kind])
  /\ ui' = [ui EXCEPT !.running = TRUE, !.messages = @ \cup {used.turns + 1}]
  /\ UNCHANGED <<config, saved, commands, effects, bridge, reload, connected, verdicts, answers, agent>>

\* /implement is no message of the transcript and leaves the flag alone.
Implement ==
  /\ ui.dialog = None /\ ~ui.running /\ used.turns < MaxTurns /\ ui.plan # None /\ agent.pc # "gone"
  /\ used' = [used EXCEPT !.turns = @ + 1]
  /\ Queue([turn |-> used.turns + 1, kind |-> "plain"])
  /\ ui' = [ui EXCEPT !.running = TRUE]
  /\ UNCHANGED <<config, saved, commands, effects, bridge, reload, flag, connected, verdicts, answers, agent>>

\* Tab runs the command that the autocomplete offers, even while a question is shown;
\* a command with arguments, and a choice from a list, needs Enter.
SlashCommand ==
  /\ ui.dialog = None /\ used.commands < MaxCommands /\ MoreExtras
  /\ used' = [used EXCEPT !.commands = @ + 1]

\* /reset saves the transcript, then moves on to an unused session id.
Reset ==
  /\ SlashCommand /\ ~ui.running
  /\ Snapshot(ui.messages)
  /\ \E s \in Sessions \ {config} : saved[s] = {} /\ config' = s
  /\ ui' = [ui EXCEPT !.messages = {}, !.cleared = FALSE, !.plan = None]
  /\ reload' = TRUE
  /\ UNCHANGED <<channels, flag, connected, agent>>

\* Mutant: the messages are loaded but the session id stays.
LoadMessages(fromList) ==
  /\ SlashCommand /\ Typing /\ (fromList \/ ~ui.running)
  /\ \E s \in Sessions :
       /\ saved[s] # {}
       /\ ui' = [ui EXCEPT !.messages = saved[s], !.cleared = FALSE]
  /\ reload' = TRUE
  /\ UNCHANGED <<config, saved, channels, flag, connected, agent>>

\* /resume is refused while the UI shows a run; the list of sessions is not.
LoadSession(fromList) ==
  /\ SlashCommand /\ Typing /\ (fromList \/ ~ui.running)
  /\ \E s \in Sessions :
       /\ saved[s] # {}
       /\ config' = s
       /\ ui' = [ui EXCEPT !.messages = saved[s], !.cleared = FALSE]
  /\ reload' = TRUE
  /\ UNCHANGED <<saved, channels, flag, connected, agent>>

\* /model, the model picker and saved estimates, allowed at any time.
ChangeModel ==
  /\ SlashCommand /\ Typing
  /\ reload' = TRUE
  /\ UNCHANGED <<ui, config, saved, channels, flag, connected, agent>>

Clear ==
  /\ SlashCommand
  /\ effects' = IF agent.pc = "gone" THEN effects ELSE Append(effects, "ClearAgentContext")
  /\ ui' = [ui EXCEPT !.messages = {}, !.cleared = TRUE]
  /\ UNCHANGED <<config, saved, tasks, commands, bridge, verdicts, answers, reload, flag, connected, agent>>

\* /init and /new run in a task of their own, whose result comes over the bridge.
ProjectJob ==
  /\ SlashCommand /\ ~ui.running
  /\ Tell([kind |-> "ProjectJobDone"])
  /\ UNCHANGED <<ui, config, saved, tasks, commands, effects, verdicts, answers, reload, flag, connected, agent>>

\* The process ends with the snapshot; only the files remain.
Quit ==
  /\ ui.dialog = None
  /\ Snapshot(ui.messages)
  /\ ui' = [NewTerminal EXCEPT !.open = FALSE]
  /\ tasks' = <<>> /\ commands' = <<>> /\ effects' = <<>> /\ bridge' = <<>>
  /\ verdicts' = <<>> /\ answers' = <<>>
  /\ reload' = FALSE /\ flag' = FALSE /\ connected' = FALSE
  /\ agent' = NewAgent /\ used' = NoneUsed
  /\ UNCHANGED config

UserStep ==
  \/ AnswerPrompt \/ AnswerQuestion \/ Interrupt \/ Implement
  \/ \E kind \in Kinds : Submit(kind)
  \/ Reset \/ ChangeModel \/ Clear \/ ProjectJob \/ Quit
  \/ \E fromList \in BOOLEAN : LoadSession(fromList)

Next == ui.open /\ (AgentStep \/ Forward \/ Drain \/ UserStep)

Spec == Init /\ [][Next]_vars

\* The tasks are scheduled, the terminal thread drains the bridge at every tick,
\* and the user, who is there, answers what is asked.
AttendedSpec ==
  /\ Spec
  /\ WF_vars(ui.open /\ AgentStep)
  /\ WF_vars(ui.open /\ Forward)
  /\ WF_vars(ui.open /\ Drain)
  /\ WF_vars(ui.open /\ (AnswerPrompt \/ AnswerQuestion))

-----------------------------------------------------------------------------
(* Properties *)

Sent(kind) == {i \in DOMAIN commands : commands[i].kind = kind}

\* A reply is used for the prompt that the user saw: nothing is in the verdict or
\* the answer channel but the one reply to the prompt that the run waits for
\* (handle_key answers a dialog once, the forwarding task writes to the channel of
\* the live session, a failed rebuild cuts it off, answers die with the run).
RepliesMatch ==
  /\ verdicts # <<>> => agent.pc = "prompt" /\ verdicts = <<agent.prompt>>
  /\ answers # <<>> => agent.pc = "question" /\ answers = <<agent.prompt>>

\* A run never waits for a user who is not asked: when the messages are drained
\* and no reply is on its way, the dialog (or question) of the prompt that the run
\* waits for is on the screen, whatever was loaded, cleared or interrupted.
PromptOnScreen ==
  LET onItsWay(kind, channel) ==
        channel # <<>> \/ bridge # <<>> \/ Sent(kind) # {}
  IN /\ agent.pc = "prompt" =>
          onItsWay("Confirm", verdicts) \/ ui.dialog = agent.prompt
     /\ agent.pc = "question" =>
          onItsWay("QuestionAnswer", answers) \/ ui.question = agent.prompt

\* A snapshot file loses a message only because /clear was used: whatever order
\* runs end, sessions are loaded and reset in, no transcript is saved under the id
\* of another session that had more (save_session_snapshot reads the configuration
\* when it is called, not when the turn began).
SnapshotsGrow ==
  [][\A s \in Sessions : saved[s] \subseteq saved'[s] \/ ui.cleared]_vars

Unfinished ==
  \/ \E i \in DOMAIN tasks : tasks[i].kind # "architect"
  \/ agent.task # NoTask
  \/ \E i \in DOMAIN bridge : bridge[i].kind = "RunFinished"

\* Every turn that was handed to the agent task is worked off and reported, however
\* many others were queued behind it after an early Done or an interrupt, and
\* whatever was rebuilt in between; the terminal never blocks the agent for good
\* (the bridge is bounded, a run may wait for the user).  Architect turns are left
\* out: they end without a report.
TurnsFinish == Unfinished ~> ~Unfinished
=============================================================================
