-------------------------- MODULE TuiSessionProofs --------------------------
(***************************************************************************)
(* Machine-checked proofs about TuiSession, for any number of sessions,     *)
(* turns, prompts and commands and a bridge of any capacity: a reply is     *)
(* used for the prompt it was given for, a waiting run is always about to   *)
(* be answered or shown, and snapshot files never lose a message unasked.   *)
(***************************************************************************)
EXTENDS TuiSession, TLAPS

(***************************************************************************)
(* The inductive invariant: types.                                         *)
(***************************************************************************)
Message ==
  [kind: {"Error", "StatusInfo", "Done", "ProjectJobDone"}]
    \cup [kind: {"ConfirmationRequired", "QuestionRequired"}, prompt: Nat \ {None}]
    \cup [kind: {"RunFinished"}, turn: Nat, plan: Nat]
Command == [kind: {"Confirm", "QuestionAnswer"}, prompt: Nat] \cup [kind: {"Interrupt"}]
AnyTask == [turn: Nat, kind: Kinds]
Terminal == [open: BOOLEAN, running: BOOLEAN, dialog: Nat, question: Nat,
             messages: SUBSET Nat, cleared: BOOLEAN, plan: Nat]
Agent == [pc: {"starting", "gone", "idle", "run", "prompt", "question", "finish"},
          session: Sessions \cup {None}, task: AnyTask, ok: BOOLEAN, prompt: Nat]
Counters == [turns: Nat, prompts: Nat, commands: Nat]

\* Type correctness.
TypeOK ==
  /\ ui \in Terminal /\ agent \in Agent
  /\ config \in Sessions /\ saved \in [Sessions -> SUBSET Nat]
  /\ tasks \in Seq(AnyTask) /\ commands \in Seq(Command)
  /\ effects \in Seq({"ClearAgentContext"}) /\ bridge \in Seq(Message)
  /\ verdicts \in Seq(Nat) /\ answers \in Seq(Nat)
  /\ reload \in BOOLEAN /\ flag \in BOOLEAN /\ connected \in BOOLEAN
  /\ used \in Counters

(***************************************************************************)
(* The inductive invariant: where the reply to a prompt is.                *)
(***************************************************************************)
Holds(queue, kind) == \E i \in DOMAIN queue : queue[i].kind = kind

HoldsOne(queue, kind, prompt) ==
  \E i \in DOMAIN queue :
    /\ queue[i].kind = kind /\ queue[i].prompt = prompt
    /\ \A j \in DOMAIN queue : queue[j].kind = kind => j = i

\* Nothing asks and nothing replies: no message of kind `m` is on the bridge `b`,
\* nothing `shown` on the screen, no command of kind `c` among the commands `q`, and
\* nothing in the channel `ch`.
NoReply(b, m, shown, q, c, ch) ==
  ~Holds(b, m) /\ shown = None /\ ~Holds(q, c) /\ ch = <<>>

\* The one prompt `p`, or the one reply to it, is in exactly one of these places.
OneReply(p, b, m, shown, q, c, ch) ==
  /\ p # None
  /\ \/ HoldsOne(b, m, p) /\ shown = None /\ ~Holds(q, c) /\ ch = <<>>
     \/ ~Holds(b, m) /\ shown = p /\ ~Holds(q, c) /\ ch = <<>>
     \/ ~Holds(b, m) /\ shown = None /\ HoldsOne(q, c, p) /\ ch = <<>>
     \/ ~Holds(b, m) /\ shown = None /\ ~Holds(q, c) /\ ch = <<p>>

NoVerdict == NoReply(bridge, "ConfirmationRequired", ui.dialog, commands, "Confirm", verdicts)
OneVerdict ==
  OneReply(agent.prompt, bridge, "ConfirmationRequired", ui.dialog, commands, "Confirm", verdicts)

\* A run waits for a verdict only while the slot holds the sender of its channel;
\* before and while that is so the dialogs and the verdicts are those of the run.
\* (Afterwards a dialog may be on the screen for which no run waits.)
VerdictOnTheWay ==
  /\ agent.pc = "prompt" => connected /\ OneVerdict
  /\ agent.pc # "prompt" /\ (connected \/ agent.pc = "starting") => NoVerdict
  /\ ~connected => verdicts = <<>>

NoAnswer == NoReply(bridge, "QuestionRequired", ui.question, commands, "QuestionAnswer", answers)
OneAnswer ==
  OneReply(agent.prompt, bridge, "QuestionRequired", ui.question, commands, "QuestionAnswer", answers)

AnswerOnTheWay ==
  IF agent.pc = "question" THEN OneAnswer ELSE NoAnswer

\* The transcript contains the file of the session that it would be saved as.
TranscriptCoversFile == ui.open => ui.cleared \/ saved[config] \subseteq ui.messages

IInv == TypeOK /\ VerdictOnTheWay /\ AnswerOnTheWay /\ TranscriptCoversFile

(***************************************************************************)
(* Facts about queues.                                                     *)
(***************************************************************************)
LEMMA HoldsAppend ==
  ASSUME NEW S, NEW q \in Seq(S), NEW x \in S, NEW k
  PROVE  /\ Holds(Append(q, x), k) <=> Holds(q, k) \/ x.kind = k
         /\ \A p : HoldsOne(q, k, p) /\ x.kind # k => HoldsOne(Append(q, x), k, p)
         /\ ~Holds(q, k) /\ x.kind = k => HoldsOne(Append(q, x), k, x.prompt)
<1>1. /\ DOMAIN Append(q, x) = DOMAIN q \cup {Len(q) + 1}
      /\ \A i \in DOMAIN q : Append(q, x)[i] = q[i] /\ i # Len(q) + 1
      /\ Append(q, x)[Len(q) + 1] = x
  OBVIOUS
<1>2. \A p : HoldsOne(q, k, p) /\ x.kind # k => HoldsOne(Append(q, x), k, p)
  BY <1>1, Zenon DEF HoldsOne
<1>3. ~Holds(q, k) /\ x.kind = k => HoldsOne(Append(q, x), k, x.prompt)
  BY <1>1 DEF Holds, HoldsOne
<1> QED BY <1>1, <1>2, <1>3 DEF Holds

LEMMA HoldsTail ==
  ASSUME NEW S, NEW q \in Seq(S), q # <<>>, NEW k
  PROVE  /\ ~Holds(q, k) => Head(q).kind # k /\ ~Holds(Tail(q), k)
         /\ Holds(q, k) /\ Head(q).kind # k => Holds(Tail(q), k)
         /\ \A p : HoldsOne(q, k, p) /\ Head(q).kind # k => HoldsOne(Tail(q), k, p)
         /\ \A p : HoldsOne(q, k, p) /\ Head(q).kind = k
                     => Head(q).prompt = p /\ ~Holds(Tail(q), k)
<1>1. /\ DOMAIN Tail(q) = 1..(Len(q) - 1) /\ DOMAIN q = 1..Len(q) /\ Len(q) \in Nat \ {0}
      /\ \A i \in DOMAIN Tail(q) : Tail(q)[i] = q[i + 1] /\ i + 1 \in DOMAIN q
      /\ Head(q) = q[1]
  OBVIOUS
<1>2. \A i \in DOMAIN q : i # 1 => i - 1 \in DOMAIN Tail(q) /\ q[i] = Tail(q)[i - 1]
  BY <1>1
<1>3. ~Holds(q, k) => Head(q).kind # k /\ ~Holds(Tail(q), k)
  BY <1>1 DEF Holds
<1>4. Holds(q, k) /\ Head(q).kind # k => Holds(Tail(q), k)
  BY <1>1, <1>2 DEF Holds
<1>5. ASSUME NEW p, HoldsOne(q, k, p), Head(q).kind # k
      PROVE  HoldsOne(Tail(q), k, p)
  <2>1. PICK i \in DOMAIN q : /\ q[i].kind = k /\ q[i].prompt = p
                              /\ \A j \in DOMAIN q : q[j].kind = k => j = i
    BY <1>5 DEF HoldsOne
  <2>2. i - 1 \in DOMAIN Tail(q) /\ Tail(q)[i - 1] = q[i]
    BY <1>1, <1>2, <1>5, <2>1
  <2>3. \A j \in DOMAIN Tail(q) : Tail(q)[j].kind = k => j = i - 1
    BY <1>1, <2>1
  <2> QED BY <2>1, <2>2, <2>3 DEF HoldsOne
<1>6. ASSUME NEW p, HoldsOne(q, k, p), Head(q).kind = k
      PROVE  Head(q).prompt = p /\ ~Holds(Tail(q), k)
  BY <1>1, <1>6 DEF HoldsOne, Holds
<1> QED BY <1>3, <1>4, <1>5, <1>6

(***************************************************************************)
(* Facts about the way of a prompt.                                        *)
(***************************************************************************)
\* Other messages and commands are queued and taken past it.
LEMMA BridgeOther ==
  ASSUME NEW p, NEW S, NEW b \in Seq(S), NEW m, NEW shown, NEW q, NEW c, NEW ch
  PROVE  /\ \A x \in S : x.kind # m =>
              /\ OneReply(p, b, m, shown, q, c, ch) => OneReply(p, Append(b, x), m, shown, q, c, ch)
              /\ NoReply(b, m, shown, q, c, ch) => NoReply(Append(b, x), m, shown, q, c, ch)
         /\ b # <<>> /\ Head(b).kind # m =>
              /\ OneReply(p, b, m, shown, q, c, ch) => OneReply(p, Tail(b), m, shown, q, c, ch)
              /\ NoReply(b, m, shown, q, c, ch) => NoReply(Tail(b), m, shown, q, c, ch)
<1>1. \A x \in S : x.kind # m =>
        /\ HoldsOne(b, m, p) => HoldsOne(Append(b, x), m, p)
        /\ ~Holds(b, m) => ~Holds(Append(b, x), m)
  BY HoldsAppend, Zenon
<1>2. b # <<>> /\ Head(b).kind # m =>
        /\ HoldsOne(b, m, p) => HoldsOne(Tail(b), m, p)
        /\ ~Holds(b, m) => ~Holds(Tail(b), m)
  BY HoldsTail, Zenon
<1> QED BY <1>1, <1>2 DEF OneReply, NoReply

LEMMA CommandsOther ==
  ASSUME NEW p, NEW b, NEW m, NEW shown, NEW S, NEW q \in Seq(S), NEW c, NEW ch
  PROVE  /\ \A x \in S : x.kind # c =>
              /\ OneReply(p, b, m, shown, q, c, ch) => OneReply(p, b, m, shown, Append(q, x), c, ch)
              /\ NoReply(b, m, shown, q, c, ch) => NoReply(b, m, shown, Append(q, x), c, ch)
         /\ q # <<>> /\ Head(q).kind # c =>
              /\ OneReply(p, b, m, shown, q, c, ch) => OneReply(p, b, m, shown, Tail(q), c, ch)
              /\ NoReply(b, m, shown, q, c, ch) => NoReply(b, m, shown, Tail(q), c, ch)
<1>1. \A x \in S : x.kind # c =>
        /\ HoldsOne(q, c, p) => HoldsOne(Append(q, x), c, p)
        /\ ~Holds(q, c) => ~Holds(Append(q, x), c)
  BY HoldsAppend, Zenon
<1>2. q # <<>> /\ Head(q).kind # c =>
        /\ HoldsOne(q, c, p) => HoldsOne(Tail(q), c, p)
        /\ ~Holds(q, c) => ~Holds(Tail(q), c)
  BY HoldsTail, Zenon
<1> QED BY <1>1, <1>2 DEF OneReply, NoReply

\* A run asks.
LEMMA Asks ==
  ASSUME NEW p, p # None, NEW S, NEW b \in Seq(S), NEW m, NEW shown, NEW q, NEW c, NEW ch,
         NoReply(b, m, shown, q, c, ch), NEW x \in S, x.kind = m, x.prompt = p
  PROVE  OneReply(p, Append(b, x), m, shown, q, c, ch)
<1>1. HoldsOne(Append(b, x), m, x.prompt)
  BY HoldsAppend, Zenon DEF NoReply
<1> QED BY <1>1 DEF OneReply, NoReply

\* The terminal shows the prompt.
LEMMA Shows ==
  ASSUME NEW p, NEW S, NEW b \in Seq(S), b # <<>>, NEW m, NEW shown, NEW q, NEW c, NEW ch,
         Head(b).kind = m
  PROVE  /\ OneReply(p, b, m, shown, q, c, ch) => OneReply(p, Tail(b), m, Head(b).prompt, q, c, ch)
         /\ ~NoReply(b, m, shown, q, c, ch)
<1>1. Holds(b, m) /\ (HoldsOne(b, m, p) => Head(b).prompt = p /\ ~Holds(Tail(b), m))
  BY HoldsTail, Zenon
<1> QED BY <1>1 DEF OneReply, NoReply

\* The user replies.
LEMMA Replies ==
  ASSUME NEW p, NEW b, NEW m, NEW shown, shown # None, NEW S, NEW q \in Seq(S), NEW c, NEW ch,
         NEW x \in S, x.kind = c, x.prompt = shown
  PROVE  /\ OneReply(p, b, m, shown, q, c, ch) => OneReply(p, b, m, None, Append(q, x), c, ch)
         /\ ~NoReply(b, m, shown, q, c, ch)
<1>1. ~Holds(q, c) => HoldsOne(Append(q, x), c, x.prompt)
  BY HoldsAppend, Zenon
<1> QED BY <1>1 DEF OneReply, NoReply

\* The reply is forwarded to the channel.
LEMMA Forwards ==
  ASSUME NEW p, NEW b, NEW m, NEW shown, NEW S, NEW q \in Seq(S), q # <<>>, NEW c, NEW ch,
         Head(q).kind = c
  PROVE  /\ OneReply(p, b, m, shown, q, c, ch)
              => OneReply(p, b, m, shown, Tail(q), c, Append(ch, Head(q).prompt))
         /\ ~NoReply(b, m, shown, q, c, ch)
<1>1. Holds(q, c) /\ (HoldsOne(q, c, p) => Head(q).prompt = p /\ ~Holds(Tail(q), c))
  BY HoldsTail, Zenon
<1>2. Append(<<>>, p) = <<p>>
  OBVIOUS
<1> QED BY <1>1, <1>2 DEF OneReply, NoReply

\* The run receives it.
LEMMA Receives ==
  ASSUME NEW p, NEW b, NEW m, NEW shown, NEW q, NEW c, NEW ch, ch # <<>>,
         OneReply(p, b, m, shown, q, c, ch)
  PROVE  NoReply(b, m, shown, q, c, Tail(ch))
<1>1. Tail(<<p>>) = <<>>
  OBVIOUS
<1> QED BY <1>1 DEF OneReply, NoReply

(***************************************************************************)
(* Types.                                                                  *)
(***************************************************************************)
LEMMA TellType ==
  ASSUME bridge \in Seq(Message), NEW x \in Message, Tell(x)
  PROVE  bridge' \in Seq(Message)
BY DEF Tell

LEMMA Counts ==
  ASSUME NEW u \in Counters
  PROVE  /\ u.turns + 1 \in Nat \ {None} /\ u.prompts + 1 \in Nat \ {None}
         /\ [u EXCEPT !.turns = @ + 1] \in Counters
         /\ [u EXCEPT !.prompts = @ + 1] \in Counters
         /\ [u EXCEPT !.commands = @ + 1] \in Counters
BY DEF Counters, None

LEMMA InitType == Init => TypeOK
<1> SUFFICES ASSUME Init PROVE TypeOK
  OBVIOUS
<1>1. ui \in Terminal /\ agent \in Agent /\ used \in Counters
  BY DEF Init, NewTerminal, NewAgent, NoneUsed, NoTask, None, Terminal, Agent, AnyTask, Kinds, Counters
<1>2. tasks \in Seq(AnyTask) /\ commands \in Seq(Command) /\ bridge \in Seq(Message)
  BY DEF Init
<1>3. /\ effects \in Seq({"ClearAgentContext"}) /\ verdicts \in Seq(Nat) /\ answers \in Seq(Nat)
      /\ saved \in [Sessions -> SUBSET Nat]
  BY DEF Init
<1> QED BY <1>1, <1>2, <1>3, SessionAssumption DEF Init, TypeOK

\* The messages of the agent task.
LEMMA Messages ==
  /\ \A k \in {"Error", "StatusInfo", "Done", "ProjectJobDone"} : [kind |-> k] \in Message
  /\ \A p \in Nat \ {None} : /\ [kind |-> "ConfirmationRequired", prompt |-> p] \in Message
                            /\ [kind |-> "QuestionRequired", prompt |-> p] \in Message
  /\ \A t, p \in Nat : [kind |-> "RunFinished", turn |-> t, plan |-> p] \in Message
BY DEF Message

LEMMA AgentType == TypeOK /\ AgentStep => TypeOK'
<1> SUFFICES ASSUME TypeOK, AgentStep PROVE TypeOK'
  OBVIOUS
<1> USE DEF TypeOK
<1>0. used.prompts + 1 \in Nat \ {None} /\ agent.task \in AnyTask /\ agent.task.turn \in Nat
  BY Counts DEF Agent, AnyTask
<1>1. CASE Start
  <2>1. agent' \in Agent
    BY <1>1 DEF Start, Agent
  <2>2. bridge' \in Seq(Message) /\ connected' \in BOOLEAN
    BY <1>1, TellType, Messages DEF Start, BuildFails
  <2>3. tasks' \in {tasks, <<>>} /\ effects' \in {effects, <<>>}
    BY <1>1 DEF Start
  <2>4. <<>> \in Seq(AnyTask) /\ <<>> \in Seq({"ClearAgentContext"})
    OBVIOUS
  <2>5. tasks' \in Seq(AnyTask) /\ effects' \in Seq({"ClearAgentContext"})
    BY <2>3, <2>4, Zenon
  <2> QED BY <1>1, <2>1, <2>2, <2>5 DEF Start
<1>2. CASE Rebuild
  BY <1>2, TellType, Messages DEF Rebuild, BuildFails
<1>3. CASE ClearContext
  BY <1>3, TellType, Messages DEF ClearContext
<1>4. CASE TakeTurn
  <2>1. Head(tasks) \in AnyTask /\ Tail(tasks) \in Seq(AnyTask)
    BY <1>4 DEF TakeTurn
  <2>2. agent' \in Agent
    BY <1>4, <2>1 DEF TakeTurn, Agent
  <2>3. bridge' \in Seq(Message) /\ connected' \in BOOLEAN
    BY <1>4, TellType, Messages DEF TakeTurn, BuildFails
  <2> QED BY <1>4, <2>1, <2>2, <2>3 DEF TakeTurn
<1>5. CASE Prompt
  <2>1. agent' \in Agent
    BY <1>5, <1>0 DEF Prompt, Agent
  <2>2. bridge' \in Seq(Message)
    BY <1>5, <1>0, TellType, Messages DEF Prompt
  <2>3. used' \in Counters
    BY Counts, <1>5 DEF Prompt
  <2> QED BY <1>5, <2>1, <2>2, <2>3 DEF Prompt
<1>6. CASE Question
  <2>1. agent' \in Agent
    BY <1>6, <1>0 DEF Question, Agent
  <2>2. bridge' \in Seq(Message)
    BY <1>6, <1>0, TellType, Messages DEF Question
  <2>3. used' \in Counters
    BY Counts, <1>6 DEF Question
  <2> QED BY <1>6, <2>1, <2>2, <2>3 DEF Question
<1>7. CASE ReceiveVerdict
  <2>1. agent' \in Agent
    BY <1>7 DEF ReceiveVerdict, Agent, None
  <2>2. verdicts' \in Seq(Nat)
    BY <1>7 DEF ReceiveVerdict
  <2> QED BY <1>7, <2>1, <2>2 DEF ReceiveVerdict
<1>8. CASE ReceiveAnswer
  <2>1. agent' \in Agent
    BY <1>8 DEF ReceiveAnswer, Agent, None
  <2>2. answers' \in Seq(Nat)
    BY <1>8 DEF ReceiveAnswer
  <2> QED BY <1>8, <2>1, <2>2 DEF ReceiveAnswer
<1>9. CASE EndRun
  BY <1>9, TellType, Messages DEF EndRun, Agent
<1>10. CASE Finish
  <2>1. agent' \in Agent
    BY <1>10 DEF Finish, Agent, NoTask, None, AnyTask, Kinds
  <2>2. bridge' \in Seq(Message)
    BY <1>10, <1>0, TellType, Messages DEF Finish, None
  <2> QED BY <1>10, <2>1, <2>2 DEF Finish
<1> QED BY <1>1, <1>2, <1>3, <1>4, <1>5, <1>6, <1>7, <1>8, <1>9, <1>10 DEF AgentStep

LEMMA ForwardType == TypeOK /\ Forward => TypeOK'
<1> SUFFICES ASSUME TypeOK, Forward PROVE TypeOK'
  OBVIOUS
<1> USE DEF TypeOK
<1>1. Head(commands) \in Command /\ Tail(commands) \in Seq(Command)
  BY DEF Forward
<1>2. verdicts' \in Seq(Nat)
  BY <1>1 DEF Forward, Command
<1>3. answers' \in Seq(Nat)
  BY <1>1 DEF Forward, Command
<1> QED BY <1>1, <1>2, <1>3 DEF Forward

LEMMA DrainType == TypeOK /\ Drain => TypeOK'
<1> SUFFICES ASSUME TypeOK, Drain PROVE TypeOK'
  OBVIOUS
<1> USE DEF TypeOK
<1>1. Head(bridge) \in Message /\ Tail(bridge) \in Seq(Message)
  BY DEF Drain
<1>2. ui' \in Terminal
  <2>1. CASE ApplyAgentEvent(Head(bridge))
    BY <1>1, <2>1, ZenonT(60) DEF ApplyAgentEvent, Message, Terminal
  <2>2. CASE RunFinished(Head(bridge))
    BY <1>1, <2>2 DEF RunFinished, Message, Terminal
  <2>3. CASE ProjectJobDone(Head(bridge))
    BY <2>3 DEF ProjectJobDone
  <2> QED BY <2>1, <2>2, <2>3 DEF Drain
<1>3. saved' \in [Sessions -> SUBSET Nat] /\ reload' \in BOOLEAN /\ flag' \in BOOLEAN
  BY DEF Drain, ApplyAgentEvent, RunFinished, ProjectJobDone, Snapshot, Terminal
<1> QED BY <1>1, <1>2, <1>3 DEF Drain

LEMMA UserType == TypeOK /\ UserStep => TypeOK'
<1> SUFFICES ASSUME TypeOK, UserStep PROVE TypeOK'
  OBVIOUS
<1> USE DEF TypeOK
<1>0. /\ \A p \in Nat : /\ [kind |-> "Confirm", prompt |-> p] \in Command
                       /\ [kind |-> "QuestionAnswer", prompt |-> p] \in Command
      /\ [kind |-> "Interrupt"] \in Command
  BY DEF Command
<1>1. CASE AnswerPrompt
  <2>1. ui' \in Terminal /\ [kind |-> "Confirm", prompt |-> ui.dialog] \in Command
    BY <1>0, <1>1 DEF AnswerPrompt, Terminal, None
  <2>2. commands' \in Seq(Command)
    BY <1>1, <2>1 DEF AnswerPrompt, Send
  <2> QED BY <1>1, <2>1, <2>2 DEF AnswerPrompt
<1>2. CASE AnswerQuestion
  <2>1. ui' \in Terminal /\ [kind |-> "QuestionAnswer", prompt |-> ui.question] \in Command
    BY <1>0, <1>2 DEF AnswerQuestion, Terminal, None
  <2>2. commands' \in Seq(Command)
    BY <1>2, <2>1 DEF AnswerQuestion, Send
  <2> QED BY <1>2, <2>1, <2>2 DEF AnswerQuestion
<1>3. CASE Interrupt
  <2>1. ui' \in Terminal
    BY <1>3 DEF Interrupt, Terminal
  <2>2. commands' \in Seq(Command)
    BY <1>0, <1>3 DEF Interrupt, Send
  <2> QED BY <1>3, <2>1, <2>2 DEF Interrupt
<1>4. CASE Implement
  <2>1. [turn |-> used.turns + 1, kind |-> "plain"] \in AnyTask
    BY Counts DEF AnyTask, Kinds
  <2>2. ui' \in Terminal
    BY <1>4 DEF Implement, Terminal
  <2>3. tasks' \in Seq(AnyTask)
    BY <1>4, <2>1 DEF Implement, Queue
  <2>4. used' \in Counters
    BY Counts, <1>4 DEF Implement
  <2> QED BY <1>4, <2>2, <2>3, <2>4 DEF Implement
<1>5. ASSUME NEW kind \in Kinds, Submit(kind)
      PROVE  TypeOK'
  <2>1. [turn |-> used.turns + 1, kind |-> kind] \in AnyTask
    BY Counts DEF AnyTask
  <2>2. tasks' \in Seq(AnyTask)
    BY <1>5, <2>1 DEF Submit, Queue
  <2>3. used.turns + 1 \in Nat
    BY Counts
  <2>5. used' \in Counters
    BY Counts, <1>5 DEF Submit
  <2>4. ui' \in Terminal
    BY <1>5, <2>3 DEF Submit, Terminal
  <2> QED BY <1>5, <2>2, <2>3, <2>4, <2>5 DEF Submit
<1>6. CASE Reset
  <2>1. ui' \in Terminal
    BY <1>6 DEF Reset, Terminal, None
  <2>2. saved' \in [Sessions -> SUBSET Nat] /\ config' \in Sessions
    BY <1>6 DEF Reset, Snapshot, Terminal
  <2>3. used' \in Counters
    BY Counts, <1>6 DEF Reset, SlashCommand
  <2> QED BY <1>6, <2>1, <2>2, <2>3 DEF Reset, channels
<1>7. CASE ChangeModel
  <2>1. used' \in Counters
    BY Counts, <1>7 DEF ChangeModel, SlashCommand
  <2> QED BY <1>7, <2>1 DEF ChangeModel, channels
<1>8. CASE Clear
  <2>1. ui' \in Terminal
    BY <1>8 DEF Clear, Terminal
  <2>2. effects' \in Seq({"ClearAgentContext"})
    BY <1>8 DEF Clear
  <2>3. used' \in Counters
    BY Counts, <1>8 DEF Clear, SlashCommand
  <2> QED BY <1>8, <2>1, <2>2, <2>3 DEF Clear
<1>9. CASE ProjectJob
  <2>1. bridge' \in Seq(Message)
    BY <1>9, TellType, Messages DEF ProjectJob
  <2>2. used' \in Counters
    BY Counts, <1>9 DEF ProjectJob, SlashCommand
  <2> QED BY <1>9, <2>1, <2>2 DEF ProjectJob
<1>10. CASE Quit
  <2>1. ui' \in Terminal /\ agent' \in Agent /\ used' \in Counters
    BY Counts, <1>10 DEF Quit, NewTerminal, NewAgent, NoneUsed, NoTask, None, Terminal, Agent, AnyTask, Kinds, Counters
  <2>2. saved' \in [Sessions -> SUBSET Nat]
    BY <1>10 DEF Quit, Snapshot, Terminal
  <2>3. /\ tasks' \in Seq(AnyTask) /\ commands' \in Seq(Command) /\ bridge' \in Seq(Message)
        /\ effects' \in Seq({"ClearAgentContext"}) /\ verdicts' \in Seq(Nat) /\ answers' \in Seq(Nat)
    BY <1>10 DEF Quit
  <2> QED BY <1>10, <2>1, <2>2, <2>3 DEF Quit
<1>11. ASSUME NEW fromList \in BOOLEAN, LoadSession(fromList)
       PROVE  TypeOK'
  <2>1. ui' \in Terminal /\ config' \in Sessions
    BY <1>11 DEF LoadSession, Terminal
  <2>2. used' \in Counters
    BY Counts, <1>11 DEF LoadSession, SlashCommand
  <2> QED BY <1>11, <2>1, <2>2 DEF LoadSession, channels
<1> QED BY <1>1, <1>2, <1>3, <1>4, <1>5, <1>6, <1>7, <1>8, <1>9, <1>10, <1>11 DEF UserStep

LEMMA StepType == TypeOK /\ [Next]_vars => TypeOK'
<1>1. TypeOK /\ UNCHANGED vars => TypeOK'
  BY DEF TypeOK, vars, channels
<1> QED BY <1>1, AgentType, ForwardType, DrainType, UserType DEF Next

\* Every part of the state always has its type: the queues hold the messages of
\* their kind, in particular every prompt on the bridge has a number.
THEOREM TuiTypeCorrect == Spec => []TypeOK
<1> QED BY InitType, StepType, PTL DEF Spec

(***************************************************************************)
(* Prompts and replies.                                                    *)
(***************************************************************************)
AskKinds == {"ConfirmationRequired", "QuestionRequired"}
Reply == VerdictOnTheWay /\ AnswerOnTheWay

\* Nothing happens on the way of a prompt, except that the agent task says
\* something else.
LEMMA Unmoved ==
  ASSUME TypeOK, ui'.dialog = ui.dialog, ui'.question = ui.question,
         UNCHANGED <<commands, verdicts, answers>>,
         bridge' = bridge \/ \E x \in Message : x.kind \notin AskKinds /\ bridge' = Append(bridge, x)
  PROVE  /\ NoVerdict => NoVerdict'
         /\ NoAnswer => NoAnswer'
         /\ agent' = agent /\ OneVerdict => OneVerdict'
         /\ agent' = agent /\ OneAnswer => OneAnswer'
<1>1. CASE bridge' = bridge
  BY <1>1 DEF NoVerdict, NoAnswer, OneVerdict, OneAnswer
<1>2. ASSUME NEW x \in Message, x.kind \notin AskKinds, bridge' = Append(bridge, x)
      PROVE  /\ NoVerdict => NoVerdict'
             /\ NoAnswer => NoAnswer'
             /\ agent' = agent /\ OneVerdict => OneVerdict'
             /\ agent' = agent /\ OneAnswer => OneAnswer'
  <2>1. bridge \in Seq(Message) /\ x.kind # "ConfirmationRequired" /\ x.kind # "QuestionRequired"
    BY <1>2 DEF TypeOK, AskKinds
  <2> QED BY <1>2, <2>1, BridgeOther DEF NoVerdict, NoAnswer, OneVerdict, OneAnswer
<1> QED BY <1>1, <1>2

LEMMA OtherKinds ==
  /\ \A k \in {"Error", "StatusInfo", "Done", "ProjectJobDone"} :
       [kind |-> k] \in Message /\ [kind |-> k].kind \notin AskKinds
  /\ \A t, p \in Nat : LET m == [kind |-> "RunFinished", turn |-> t, plan |-> p]
                        IN m \in Message /\ m.kind \notin AskKinds
BY DEF Message, AskKinds

\* While no run waits nothing is in the channels.
LEMMA ChannelsEmpty ==
  /\ VerdictOnTheWay /\ agent.pc # "prompt" => verdicts = <<>>
  /\ AnswerOnTheWay /\ agent.pc # "question" => answers = <<>>
BY DEF VerdictOnTheWay, NoVerdict, AnswerOnTheWay, NoAnswer, NoReply

\* The agent task is somewhere where no run waits, before and after.
LEMMA StillNotWaiting ==
  ASSUME TypeOK, Reply, agent.pc \notin {"prompt", "question"},
         agent'.pc \notin {"starting", "prompt", "question"},
         connected' => connected \/ agent.pc = "starting",
         UNCHANGED <<ui, commands, verdicts>>, answers' \in {answers, <<>>},
         bridge' = bridge \/ \E x \in Message : x.kind \notin AskKinds /\ bridge' = Append(bridge, x)
  PROVE  Reply'
<1>1. answers' = answers /\ verdicts = <<>>
  BY ChannelsEmpty DEF Reply
<1>2. NoAnswer'
  BY <1>1, Unmoved DEF Reply, AnswerOnTheWay
<1>3. connected' => NoVerdict'
  BY <1>1, Unmoved DEF Reply, VerdictOnTheWay
<1> QED BY <1>1, <1>2, <1>3 DEF Reply, VerdictOnTheWay, AnswerOnTheWay

LEMMA PromptReply == TypeOK /\ Reply /\ Prompt => Reply'
<1> SUFFICES ASSUME TypeOK, Reply, Prompt PROVE Reply'
  OBVIOUS
<1> DEFINE n == used.prompts + 1
           x == [kind |-> "ConfirmationRequired", prompt |-> n]
<1>1. n \in Nat \ {None} /\ bridge \in Seq(Message)
  BY Counts DEF TypeOK
<1>2. x \in Message /\ x.kind = "ConfirmationRequired" /\ x.prompt = n /\ x.kind # "QuestionRequired"
  BY <1>1, Messages
<1>3. bridge' = Append(bridge, x) /\ agent.pc = "run"
  BY DEF Prompt, Tell
<1>4. NoAnswer' /\ agent'.pc # "question"
  <2>1. NoAnswer
    BY <1>3 DEF Reply, AnswerOnTheWay
  <2>2. NoAnswer'
    BY <1>1, <1>2, <1>3, <2>1, BridgeOther DEF Prompt, NoAnswer
  <2> QED BY <2>2 DEF Prompt, TypeOK, Agent
<1>5. CASE connected
  <2>1. agent'.pc = "prompt" /\ agent'.prompt = n
    BY <1>5 DEF Prompt, TypeOK, Agent
  <2>2. NoVerdict
    BY <1>3, <1>5 DEF Reply, VerdictOnTheWay
  <2>3. OneVerdict'
    BY <1>1, <1>2, <1>3, <2>1, <2>2, Asks DEF Prompt, NoVerdict, OneVerdict
  <2> QED BY <1>4, <1>5, <2>1, <2>3 DEF Prompt, Reply, VerdictOnTheWay, AnswerOnTheWay
<1>6. CASE ~connected
  <2>1. agent'.pc = "finish" /\ ~connected'
    BY <1>6 DEF Prompt, TypeOK, Agent
  <2> QED BY <1>4, <1>6, <2>1 DEF Prompt, Reply, VerdictOnTheWay, AnswerOnTheWay
<1> QED BY <1>5, <1>6

LEMMA QuestionReply == TypeOK /\ Reply /\ Question => Reply'
<1> SUFFICES ASSUME TypeOK, Reply, Question PROVE Reply'
  OBVIOUS
<1> DEFINE n == used.prompts + 1
           x == [kind |-> "QuestionRequired", prompt |-> n]
<1>1. n \in Nat \ {None} /\ bridge \in Seq(Message)
  BY Counts DEF TypeOK
<1>2. x \in Message /\ x.kind = "QuestionRequired" /\ x.prompt = n /\ x.kind # "ConfirmationRequired"
  BY <1>1, Messages
<1>3. /\ bridge' = Append(bridge, x) /\ agent.pc = "run"
      /\ agent'.pc = "question" /\ agent'.prompt = n
  BY DEF Question, Tell, TypeOK, Agent
<1>4. NoAnswer
  BY <1>3 DEF Reply, AnswerOnTheWay
<1>5. OneAnswer'
  BY <1>1, <1>2, <1>3, <1>4, Asks DEF Question, NoAnswer, OneAnswer
<1>6. NoVerdict => NoVerdict'
  BY <1>1, <1>2, <1>3, BridgeOther DEF Question, NoVerdict
<1> QED BY <1>3, <1>5, <1>6 DEF Question, Reply, VerdictOnTheWay, AnswerOnTheWay

LEMMA AgentReply == TypeOK /\ Reply /\ AgentStep => Reply'
<1> SUFFICES ASSUME TypeOK, Reply, AgentStep PROVE Reply'
  OBVIOUS
<1> DEFINE Told == \E x \in Message : x.kind \notin AskKinds /\ bridge' = Append(bridge, x)
<1>0. \A k \in {"Error", "StatusInfo", "Done"} : Tell([kind |-> k]) => Told
  BY OtherKinds DEF Tell
<1>1. CASE Start
  BY <1>0, <1>1, StillNotWaiting DEF Start, BuildFails, TypeOK, Agent
<1>2. CASE Rebuild
  BY <1>0, <1>2, StillNotWaiting DEF Rebuild, BuildFails
<1>3. CASE ClearContext
  BY <1>0, <1>3, StillNotWaiting DEF ClearContext
<1>4. CASE TakeTurn
  <2>1. CASE Head(tasks).kind = "architect"
    BY <1>0, <1>4, <2>1, StillNotWaiting DEF TakeTurn, BuildFails
  <2>2. CASE Head(tasks).kind # "architect"
    <3>1. agent.pc = "idle" /\ agent'.pc = "run" /\ bridge' = bridge /\ connected' = connected
      BY <1>4, <2>2 DEF TakeTurn, TypeOK, Agent
    <3> QED BY <1>4, <3>1, StillNotWaiting DEF TakeTurn
  <2> QED BY <2>1, <2>2
<1>5. CASE ReceiveVerdict
  <2>1. agent'.pc = "run" /\ connected /\ OneVerdict /\ NoAnswer
    BY <1>5 DEF ReceiveVerdict, TypeOK, Agent, Reply, VerdictOnTheWay, AnswerOnTheWay
  <2>2. NoVerdict'
    BY <1>5, <2>1, Receives DEF ReceiveVerdict, NoVerdict, OneVerdict
  <2>3. NoAnswer'
    BY <1>5, <2>1 DEF ReceiveVerdict, NoAnswer
  <2> QED BY <1>5, <2>1, <2>2, <2>3 DEF ReceiveVerdict, Reply, VerdictOnTheWay, AnswerOnTheWay
<1>6. CASE ReceiveAnswer
  <2>1. agent'.pc = "run" /\ OneAnswer
    BY <1>6 DEF ReceiveAnswer, TypeOK, Agent, Reply, AnswerOnTheWay
  <2>2. NoAnswer'
    BY <1>6, <2>1, Receives DEF ReceiveAnswer, NoAnswer, OneAnswer
  <2>3. NoVerdict => NoVerdict'
    BY <1>6 DEF ReceiveAnswer, NoVerdict
  <2> QED BY <1>6, <2>1, <2>2, <2>3 DEF ReceiveAnswer, Reply, VerdictOnTheWay, AnswerOnTheWay
<1>7. CASE EndRun
  BY <1>0, <1>7, StillNotWaiting DEF EndRun, TypeOK, Agent
<1>8. CASE Finish
  <2>1. Told
    <3>1. agent.task.turn \in Nat /\ None \in Nat
      BY DEF TypeOK, Agent, AnyTask, None
    <3> QED BY <1>8, <3>1, OtherKinds DEF Finish, Tell
  <2>2. agent'.pc = "idle" /\ agent.pc = "finish"
    BY <1>8 DEF Finish, TypeOK, Agent
  <2> QED BY <1>8, <2>1, <2>2, StillNotWaiting DEF Finish
<1> QED BY <1>1, <1>2, <1>3, <1>4, PromptReply, QuestionReply, <1>5, <1>6, <1>7, <1>8 DEF AgentStep

\* The forwarding task: a reply among the commands is for the prompt that a run
\* waits for, so it is neither dropped nor too late.
LEMMA ForwardReply == TypeOK /\ Reply /\ Forward => Reply'
<1> SUFFICES ASSUME TypeOK, Reply, Forward PROVE Reply'
  OBVIOUS
<1> DEFINE c == Head(commands)
<1>1. /\ commands \in Seq(Command) /\ commands # <<>> /\ commands' = Tail(commands)
      /\ UNCHANGED <<ui, bridge, connected, agent>>
  BY DEF Forward, TypeOK
<1>2. VerdictOnTheWay'
  <2>1. CASE c.kind = "Confirm" /\ (connected \/ agent.pc = "starting")
    <3>1. ~NoVerdict
      BY <1>1, <2>1, Forwards DEF NoVerdict
    <3>2. agent.pc = "prompt" /\ connected /\ OneVerdict
      BY <2>1, <3>1 DEF Reply, VerdictOnTheWay
    <3>3. verdicts' = Append(verdicts, c.prompt)
      BY <2>1, <3>2 DEF Forward
    <3>4. OneVerdict'
      BY <1>1, <2>1, <3>2, <3>3, Forwards DEF OneVerdict
    <3> QED BY <1>1, <3>2, <3>4 DEF VerdictOnTheWay
  <2>2. CASE c.kind = "Confirm" /\ ~connected /\ agent.pc # "starting"
    BY <1>1, <2>2 DEF Forward, Reply, VerdictOnTheWay
  <2>3. CASE c.kind # "Confirm"
    <3>1. verdicts' = verdicts
      BY <2>3 DEF Forward
    <3>2. /\ NoVerdict => NoVerdict'
          /\ OneVerdict => OneVerdict'
      BY <1>1, <2>3, <3>1, CommandsOther DEF NoVerdict, OneVerdict
    <3> QED BY <1>1, <3>1, <3>2 DEF Reply, VerdictOnTheWay
  <2> QED BY <2>1, <2>2, <2>3
<1>3. AnswerOnTheWay'
  <2>1. CASE c.kind = "QuestionAnswer"
    <3>1. ~NoAnswer
      BY <1>1, <2>1, Forwards DEF NoAnswer
    <3>2. agent.pc = "question" /\ OneAnswer
      BY <3>1 DEF Reply, AnswerOnTheWay
    <3>3. answers' = Append(answers, c.prompt)
      BY <2>1, <3>2 DEF Forward
    <3>4. OneAnswer'
      BY <1>1, <2>1, <3>2, <3>3, Forwards DEF OneAnswer
    <3> QED BY <1>1, <3>2, <3>4 DEF AnswerOnTheWay
  <2>2. CASE c.kind # "QuestionAnswer"
    <3>1. answers' = answers
      BY <2>2 DEF Forward
    <3>2. /\ NoAnswer => NoAnswer'
          /\ OneAnswer => OneAnswer'
      BY <1>1, <2>2, <3>1, CommandsOther DEF NoAnswer, OneAnswer
    <3> QED BY <1>1, <3>2 DEF Reply, AnswerOnTheWay
  <2> QED BY <2>1, <2>2
<1> QED BY <1>2, <1>3 DEF Reply

\* The terminal thread takes a message from the bridge.
LEMMA DrainReply == TypeOK /\ Reply /\ Drain => Reply'
<1> SUFFICES ASSUME TypeOK, Reply, Drain PROVE Reply'
  OBVIOUS
<1> DEFINE m == Head(bridge)
<1>1. /\ bridge \in Seq(Message) /\ bridge # <<>> /\ bridge' = Tail(bridge)
      /\ UNCHANGED <<commands, verdicts, answers, connected, agent>>
      /\ ui \in Terminal
  BY DEF Drain, TypeOK
<1>2. CASE m.kind = "ConfirmationRequired"
  <2>1. ui'.dialog = m.prompt /\ ui'.question = ui.question
    BY <1>1, <1>2 DEF Drain, ApplyAgentEvent, RunFinished, ProjectJobDone, Terminal
  <2>2. ~NoVerdict /\ (OneVerdict => OneVerdict')
    BY <1>1, <1>2, <2>1, Shows DEF NoVerdict, OneVerdict
  <2>3. /\ NoAnswer => NoAnswer'
        /\ OneAnswer => OneAnswer'
    BY <1>1, <1>2, <2>1, BridgeOther DEF NoAnswer, OneAnswer
  <2> QED BY <1>1, <2>2, <2>3 DEF Reply, VerdictOnTheWay, AnswerOnTheWay
<1>3. CASE m.kind = "QuestionRequired"
  <2>1. ui'.dialog = ui.dialog /\ ui'.question = m.prompt
    BY <1>1, <1>3 DEF Drain, ApplyAgentEvent, RunFinished, ProjectJobDone, Terminal
  <2>2. ~NoAnswer /\ (OneAnswer => OneAnswer')
    BY <1>1, <1>3, <2>1, Shows DEF NoAnswer, OneAnswer
  <2>3. /\ NoVerdict => NoVerdict'
        /\ OneVerdict => OneVerdict'
    BY <1>1, <1>3, <2>1, BridgeOther DEF NoVerdict, OneVerdict
  <2> QED BY <1>1, <2>2, <2>3 DEF Reply, VerdictOnTheWay, AnswerOnTheWay
<1>4. CASE m.kind \notin AskKinds
  <2>1. ui'.dialog = ui.dialog /\ ui'.question = ui.question
    BY <1>1, <1>4 DEF Drain, ApplyAgentEvent, RunFinished, ProjectJobDone, Terminal, AskKinds
  <2>2. m.kind # "ConfirmationRequired" /\ m.kind # "QuestionRequired"
    BY <1>4 DEF AskKinds
  <2>3. /\ NoVerdict => NoVerdict'
        /\ OneVerdict => OneVerdict'
    BY <1>1, <2>1, <2>2, BridgeOther DEF NoVerdict, OneVerdict
  <2>4. /\ NoAnswer => NoAnswer'
        /\ OneAnswer => OneAnswer'
    BY <1>1, <2>1, <2>2, BridgeOther DEF NoAnswer, OneAnswer
  <2> QED BY <1>1, <2>3, <2>4 DEF Reply, VerdictOnTheWay, AnswerOnTheWay
<1> QED BY <1>2, <1>3, <1>4 DEF AskKinds

LEMMA NothingHolds == \A k : ~Holds(<<>>, k)
BY DEF Holds

\* The user.
LEMMA UserReply == TypeOK /\ Reply /\ UserStep => Reply'
<1> SUFFICES ASSUME TypeOK, Reply, UserStep PROVE Reply'
  OBVIOUS
<1>0. ui \in Terminal /\ commands \in Seq(Command)
  BY DEF TypeOK
\* Most of what the user does is not on the way of a prompt.
<1>a. ASSUME ui'.dialog = ui.dialog, ui'.question = ui.question,
             UNCHANGED <<commands, verdicts, answers, agent, connected>>,
             bridge' = bridge \/ \E x \in Message : x.kind \notin AskKinds /\ bridge' = Append(bridge, x)
      PROVE  Reply'
  <2>1. /\ NoVerdict => NoVerdict'
        /\ OneVerdict => OneVerdict'
        /\ NoAnswer => NoAnswer'
        /\ OneAnswer => OneAnswer'
    BY <1>a, Unmoved
  <2> QED BY <1>a, <2>1 DEF Reply, VerdictOnTheWay, AnswerOnTheWay
<1>1. CASE AnswerPrompt
  <2>1. ui'.dialog = None /\ ui'.question = ui.question
    BY <1>0, <1>1 DEF AnswerPrompt, Terminal
  <2> DEFINE x == [kind |-> "Confirm", prompt |-> ui.dialog]
  <2>2. x \in Command /\ x.kind = "Confirm" /\ x.prompt = ui.dialog /\ x.kind # "QuestionAnswer"
    BY <1>0 DEF Command, Terminal
  <2>3. commands' = Append(commands, x) /\ UNCHANGED <<bridge, verdicts, answers, agent, connected>>
    BY <1>1 DEF AnswerPrompt, Send
  <2>4. ~NoVerdict /\ (OneVerdict => OneVerdict')
    BY <1>0, <1>1, <2>1, <2>2, <2>3, Replies DEF AnswerPrompt, NoVerdict, OneVerdict
  <2>5. /\ NoAnswer => NoAnswer'
        /\ OneAnswer => OneAnswer'
    BY <1>0, <2>1, <2>2, <2>3, CommandsOther DEF NoAnswer, OneAnswer
  <2> QED BY <2>3, <2>4, <2>5 DEF Reply, VerdictOnTheWay, AnswerOnTheWay
<1>2. CASE AnswerQuestion
  <2>1. ui'.dialog = ui.dialog /\ ui'.question = None
    BY <1>0, <1>2 DEF AnswerQuestion, Terminal
  <2> DEFINE x == [kind |-> "QuestionAnswer", prompt |-> ui.question]
  <2>2. x \in Command /\ x.kind = "QuestionAnswer" /\ x.prompt = ui.question /\ x.kind # "Confirm"
    BY <1>0 DEF Command, Terminal
  <2>3. commands' = Append(commands, x) /\ UNCHANGED <<bridge, verdicts, answers, agent, connected>>
    BY <1>2 DEF AnswerQuestion, Send
  <2>4. ~NoAnswer /\ (OneAnswer => OneAnswer')
    BY <1>0, <1>2, <2>1, <2>2, <2>3, Replies DEF AnswerQuestion, NoAnswer, OneAnswer
  <2>5. /\ NoVerdict => NoVerdict'
        /\ OneVerdict => OneVerdict'
    BY <1>0, <2>1, <2>2, <2>3, CommandsOther DEF NoVerdict, OneVerdict
  <2> QED BY <2>3, <2>4, <2>5 DEF Reply, VerdictOnTheWay, AnswerOnTheWay
<1>3. CASE Interrupt
  <2>1. ui'.dialog = ui.dialog /\ ui'.question = ui.question
    BY <1>0, <1>3 DEF Interrupt, Terminal
  <2> DEFINE x == [kind |-> "Interrupt"]
  <2>2. x \in Command /\ x.kind # "QuestionAnswer" /\ x.kind # "Confirm"
    BY DEF Command
  <2>3. commands' = Append(commands, x) /\ UNCHANGED <<bridge, verdicts, answers, agent, connected>>
    BY <1>3 DEF Interrupt, Send
  <2>4. /\ NoVerdict => NoVerdict'
        /\ OneVerdict => OneVerdict'
    BY <1>0, <2>1, <2>2, <2>3, CommandsOther DEF NoVerdict, OneVerdict
  <2>5. /\ NoAnswer => NoAnswer'
        /\ OneAnswer => OneAnswer'
    BY <1>0, <2>1, <2>2, <2>3, CommandsOther DEF NoAnswer, OneAnswer
  <2> QED BY <2>3, <2>4, <2>5 DEF Reply, VerdictOnTheWay, AnswerOnTheWay
<1>4. CASE Implement
  BY <1>0, <1>a, <1>4 DEF Implement, Terminal
<1>5. ASSUME NEW kind \in Kinds, Submit(kind)
      PROVE  Reply'
  BY <1>0, <1>a, <1>5 DEF Submit, Terminal
<1>6. CASE Reset
  BY <1>0, <1>a, <1>6 DEF Reset, Terminal, channels
<1>7. CASE ChangeModel
  BY <1>a, <1>7 DEF ChangeModel, channels
<1>8. CASE Clear
  BY <1>0, <1>a, <1>8 DEF Clear, Terminal
<1>9. CASE ProjectJob
  <2>1. \E x \in Message : x.kind \notin AskKinds /\ bridge' = Append(bridge, x)
    BY <1>9, OtherKinds DEF ProjectJob, Tell
  <2> QED BY <1>a, <1>9, <2>1 DEF ProjectJob
<1>10. CASE Quit
  <2>1. /\ ui'.dialog = None /\ ui'.question = None /\ agent'.pc = "starting" /\ ~connected'
        /\ bridge' = <<>> /\ commands' = <<>> /\ verdicts' = <<>> /\ answers' = <<>>
    BY <1>10 DEF Quit, NewTerminal, NewAgent
  <2> QED BY <2>1, NothingHolds DEF Reply, VerdictOnTheWay, AnswerOnTheWay, NoVerdict, NoAnswer, NoReply
<1>11. ASSUME NEW fromList \in BOOLEAN, LoadSession(fromList)
       PROVE  Reply'
  BY <1>0, <1>a, <1>11 DEF LoadSession, Terminal, channels
<1> QED BY <1>1, <1>2, <1>3, <1>4, <1>5, <1>6, <1>7, <1>8, <1>9, <1>10, <1>11 DEF UserStep

(***************************************************************************)
(* Transcripts and snapshot files.                                         *)
(***************************************************************************)
Kept == \A s \in Sessions : saved[s] \subseteq saved'[s] \/ ui.cleared

\* Whoever saves, saves the transcript of the session that the configuration names.
LEMMA SnapshotKeeps ==
  ASSUME TypeOK, TranscriptCoversFile, ui.open, Snapshot(ui.messages)
  PROVE  /\ Kept
         /\ saved'[config] = ui.messages
         /\ \A s \in Sessions \ {config} : saved'[s] = saved[s]
BY DEF TypeOK, TranscriptCoversFile, Snapshot, Kept

LEMMA TranscriptStep ==
  TypeOK /\ TranscriptCoversFile /\ Next => TranscriptCoversFile' /\ Kept
<1> SUFFICES ASSUME TypeOK, TranscriptCoversFile, Next
             PROVE  TranscriptCoversFile' /\ Kept
  OBVIOUS
<1>0. ui \in Terminal /\ ui.open /\ config \in Sessions /\ saved \in [Sessions -> SUBSET Nat]
  BY DEF TypeOK, Next
<1>1. ui.cleared \/ saved[config] \subseteq ui.messages
  BY <1>0 DEF TranscriptCoversFile
\* Most steps save nothing, stay in the session and lose no message.
<1>a. ASSUME UNCHANGED <<config, saved>>, ui.cleared => ui'.cleared,
             ui'.cleared \/ ui.messages \subseteq ui'.messages
      PROVE  TranscriptCoversFile' /\ Kept
  BY <1>1, <1>a DEF TranscriptCoversFile, Kept
<1>2. CASE AgentStep
  <2>1. UNCHANGED <<ui, config, saved>>
    BY <1>2 DEF AgentStep, Start, Rebuild, ClearContext, TakeTurn, Prompt, Question,
                ReceiveVerdict, ReceiveAnswer, EndRun, Finish
  <2> QED BY <1>a, <2>1
<1>3. CASE Forward
  BY <1>a, <1>3 DEF Forward
<1>4. CASE Drain
  <2>1. CASE ApplyAgentEvent(Head(bridge))
    BY <1>0, <1>a, <1>4, <2>1 DEF Drain, ApplyAgentEvent, Terminal
  <2>2. CASE RunFinished(Head(bridge))
    <3>1. /\ Snapshot(ui.messages) /\ config' = config
          /\ ui'.messages = ui.messages /\ ui'.cleared = ui.cleared
      BY <1>0, <1>4, <2>2 DEF Drain, RunFinished, Terminal
    <3> QED BY <1>0, <3>1, SnapshotKeeps DEF TranscriptCoversFile
  <2>3. CASE ProjectJobDone(Head(bridge))
    BY <1>a, <1>4, <2>3 DEF Drain, ProjectJobDone
  <2> QED BY <1>4, <2>1, <2>2, <2>3 DEF Drain
<1>5. CASE UserStep
  <2>1. CASE AnswerPrompt
    BY <1>0, <1>a, <2>1 DEF AnswerPrompt, Terminal
  <2>2. CASE AnswerQuestion
    BY <1>0, <1>a, <2>2 DEF AnswerQuestion, Terminal
  <2>3. CASE Interrupt
    BY <1>0, <1>a, <2>3 DEF Interrupt, Terminal
  <2>4. CASE Implement
    BY <1>0, <1>a, <2>4 DEF Implement, Terminal
  <2>5. ASSUME NEW kind \in Kinds, Submit(kind)
        PROVE  TranscriptCoversFile' /\ Kept
    BY <1>0, <1>a, <2>5 DEF Submit, Terminal
  <2>6. CASE Reset
    <3>1. PICK s \in Sessions \ {config} : saved[s] = {} /\ config' = s
      BY <2>6 DEF Reset
    <3>2. Snapshot(ui.messages)
      BY <2>6 DEF Reset
    <3>3. saved'[config'] = {}
      BY <1>0, <3>1, <3>2, SnapshotKeeps
    <3> QED BY <1>0, <3>2, <3>3, SnapshotKeeps DEF TranscriptCoversFile
  <2>7. CASE ChangeModel
    BY <1>a, <2>7 DEF ChangeModel
  <2>8. CASE Clear
    BY <1>0, <1>a, <2>8 DEF Clear, Terminal
  <2>9. CASE ProjectJob
    BY <1>a, <2>9 DEF ProjectJob
  <2>10. CASE Quit
    <3>1. Snapshot(ui.messages) /\ ~ui'.open
      BY <2>10 DEF Quit, NewTerminal
    <3> QED BY <1>0, <3>1, SnapshotKeeps DEF TranscriptCoversFile
  <2>11. ASSUME NEW fromList \in BOOLEAN, LoadSession(fromList)
         PROVE  TranscriptCoversFile' /\ Kept
    <3>1. saved' = saved /\ ui'.messages = saved[config']
      BY <1>0, <2>11 DEF LoadSession, Terminal
    <3> QED BY <3>1 DEF TranscriptCoversFile, Kept
  <2> QED BY <1>5, <2>1, <2>2, <2>3, <2>4, <2>5, <2>6, <2>7, <2>8, <2>9, <2>10, <2>11 DEF UserStep
<1> QED BY <1>2, <1>3, <1>4, <1>5 DEF Next

(***************************************************************************)
(* The theorems.                                                           *)
(***************************************************************************)
LEMMA InitInv == Init => IInv
<1> SUFFICES ASSUME Init PROVE IInv
  OBVIOUS
<1>1. Reply
  BY NothingHolds DEF Init, NewTerminal, NewAgent, Reply, VerdictOnTheWay, AnswerOnTheWay,
                      NoVerdict, NoAnswer, NoReply
<1>2. TranscriptCoversFile
  BY SessionAssumption DEF Init, TranscriptCoversFile
<1> QED BY <1>1, <1>2, InitType DEF IInv, Reply

\* The inductive invariant holds in every state that the program can reach.
THEOREM TuiInductive == Spec => []IInv
<1>1. IInv /\ [Next]_vars => IInv'
  <2> SUFFICES ASSUME IInv, [Next]_vars PROVE IInv'
    OBVIOUS
  <2>1. CASE Next
    <3>1. Reply'
      BY <2>1, AgentReply, ForwardReply, DrainReply, UserReply DEF IInv, Reply, Next
    <3>2. TypeOK' /\ TranscriptCoversFile'
      BY <2>1, StepType, TranscriptStep DEF IInv
    <3> QED BY <3>1, <3>2 DEF IInv, Reply
  <2>2. CASE UNCHANGED vars
    BY <2>2 DEF vars, channels, IInv, TypeOK, VerdictOnTheWay, AnswerOnTheWay,
                NoVerdict, OneVerdict, NoAnswer, OneAnswer, TranscriptCoversFile
  <2> QED BY <2>1, <2>2
<1> QED BY InitInv, <1>1, PTL DEF Spec

\* A reply in the verdict or the answer channel is the one reply to the prompt that
\* the run waits for (handle_key, the forwarding task, the slots of the senders).
THEOREM RepliesAlwaysMatch == Spec => []RepliesMatch
<1>1. IInv => RepliesMatch
  <2> SUFFICES ASSUME IInv PROVE RepliesMatch
    OBVIOUS
  <2>1. verdicts # <<>> => agent.pc = "prompt" /\ verdicts = <<agent.prompt>>
    BY ChannelsEmpty DEF IInv, VerdictOnTheWay, OneVerdict, OneReply
  <2>2. answers # <<>> => agent.pc = "question" /\ answers = <<agent.prompt>>
    BY ChannelsEmpty DEF IInv, AnswerOnTheWay, OneAnswer, OneReply
  <2> QED BY <2>1, <2>2 DEF RepliesMatch
<1> QED BY TuiInductive, <1>1, PTL

\* A run that waits has its prompt on the bridge or on the screen, or the reply to it
\* on its way; the terminal thread cannot lose it.
THEOREM PromptAlwaysShown == Spec => []PromptOnScreen
<1>1. IInv => PromptOnScreen
  <2> SUFFICES ASSUME IInv PROVE PromptOnScreen
    OBVIOUS
  <2>1. ASSUME NEW p, NEW m, NEW shown, NEW c, NEW ch,
               OneReply(p, bridge, m, shown, commands, c, ch)
        PROVE  ch # <<>> \/ bridge # <<>> \/ Sent(c) # {} \/ shown = p
    <3>1. <<p>> # <<>>
      OBVIOUS
    <3>2. HoldsOne(bridge, m, p) => bridge # <<>>
      BY DEF HoldsOne
    <3>3. HoldsOne(commands, c, p) => Sent(c) # {}
      BY DEF HoldsOne, Sent
    <3> QED BY <2>1, <3>1, <3>2, <3>3 DEF OneReply
  <2>2. agent.pc = "prompt" => OneVerdict
    BY DEF IInv, VerdictOnTheWay
  <2>3. agent.pc = "question" => OneAnswer
    BY DEF IInv, AnswerOnTheWay
  <2> QED BY <2>1, <2>2, <2>3 DEF PromptOnScreen, OneVerdict, OneAnswer
<1> QED BY TuiInductive, <1>1, PTL

\* No snapshot file loses a message of the session it belongs to, unless the user
\* cleared the transcript (save_session_snapshot, /reset, /resume, the session list).
THEOREM SnapshotsAlwaysGrow == Spec => SnapshotsGrow
<1>1. IInv /\ [Next]_vars => [\A s \in Sessions : saved[s] \subseteq saved'[s] \/ ui.cleared]_vars
  BY TranscriptStep DEF IInv, Kept
<1> QED BY TuiInductive, <1>1, PTL DEF Spec, SnapshotsGrow
=============================================================================
