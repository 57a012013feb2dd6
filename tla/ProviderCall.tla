---------------------------- MODULE ProviderCall ----------------------------
(***************************************************************************)
(* A model call and its ProviderCall event: JournalingProvider around a    *)
(* backend.  An HTTP backend (Anthropic, OpenAI-compatible) spawns a task  *)
(* that makes the HTTP attempts, records each one with the collector of    *)
(* the call and sends stream items through a bounded channel; the agent    *)
(* loop polls the JournalingStream at the other end, which drains the      *)
(* collector and appends the event when it meets the terminal item.  Task  *)
(* and agent loop run in parallel: the runtimes are multi-threaded.        *)
(*                                                                         *)
(* Calls are made one after the other, but the task of a call may outlive  *)
(* it.  An attempt is its number, its status (Success, RateLimited or any  *)
(* other, Failed) and the call it was made for; the objects it refers to   *)
(* are the subject of SessionGraph.                                        *)
(***************************************************************************)
EXTENDS Naturals, Sequences

CONSTANTS
  Providers,    \* which providers the session may have: "http", "playback"
  RetryMax,     \* RETRY_MAX: rate-limited attempts that are retried
  Capacity,     \* size of the channel between task and stream
  Scripts,      \* what a playback provider may answer: sequences of items
  MaxCalls,     \* bound: calls of complete
  MaxChunks,    \* bound: text chunks the task reads for one call
  MaxFaults     \* bound: failing object or event writes

ASSUME ProviderCallAssumption ==
  /\ Providers \subseteq {"http", "playback"}
  /\ RetryMax \in Nat /\ Capacity \in Nat \ {0}
  /\ MaxCalls \in Nat /\ MaxChunks \in Nat /\ MaxFaults \in Nat

ASSUME ScriptsAssumption ==
  Scripts \subseteq Seq({"ready", "hint", "text", "done", "err"})

VARIABLES
  provider,   \* the provider of the session
  call,       \* the latest call of complete, 0 before the first
  consumer,   \* the agent loop: "idle", "polling" the stream, or past its "terminal" item
  stream,     \* the JournalingStream of the latest call
  task,       \* per call: the backend's task [pc, tried, sent]
  chan,       \* per call: items in the channel
  collector,  \* per call: AttemptCollector::attempts
  events,     \* per call: the attempts of each ProviderCall event appended
  http,       \* history, per call: the status of every HTTP attempt that is over
  hit,        \* history, per call: a write failed on the consumer's side
  faults      \* counter of the bound

vars == <<provider, call, consumer, stream, task, chan, collector, events,
          http, hit, faults>>

Calls == 1..MaxCalls
Statuses == {"Success", "RateLimited", "Failed"}
ChunkItems == {"ready", "hint", "text"}
Items == ChunkItems \cup {"done", "err"}

Attempt(c, number, status) == [call |-> c, number |-> number, status |-> status]

NewStream == [last_error |-> FALSE, done_seen |-> FALSE, finalized |-> FALSE]
NewTask == [pc |-> "none", tried |-> 0, sent |-> 0]

Init ==
  /\ provider \in Providers
  /\ call = 0 /\ consumer = "idle" /\ stream = NewStream
  /\ task = [c \in Calls |-> NewTask]
  /\ chan = [c \in Calls |-> <<>>]
  /\ collector = [c \in Calls |-> <<>>]
  /\ events = [c \in Calls |-> <<>>]
  /\ http = [c \in Calls |-> <<>>]
  /\ hit = [c \in Calls |-> FALSE]
  /\ faults = 0

Fault == faults < MaxFaults /\ faults' = faults + 1

(***************************************************************************)
(* JournalingProvider::complete.  It installs a fresh collector and stores *)
(* the request before it calls the backend.                                *)
(***************************************************************************)
NextCall == consumer \in {"idle", "terminal"} /\ call < MaxCalls /\ call' = call + 1

\* The HTTP backend spawns its task; the playback provider has its answer.
Complete ==
  /\ NextCall
  /\ consumer' = "polling" /\ stream' = NewStream
  /\ \/ /\ provider = "http"
        /\ task' = [task EXCEPT ![call + 1].pc = "attempt"]
        /\ UNCHANGED chan
     \/ /\ provider = "playback"
        /\ task' = [task EXCEPT ![call + 1].pc = "exit"]
        /\ \E script \in Scripts : chan' = [chan EXCEPT ![call + 1] = script]
  /\ UNCHANGED <<provider, collector, events, http, hit, faults>>

\* The request cannot be stored: complete fails before the backend is called.
RequestNotStored ==
  /\ NextCall /\ Fault
  /\ consumer' = "idle" /\ stream' = NewStream
  /\ hit' = [hit EXCEPT ![call + 1] = TRUE]
  /\ UNCHANGED <<provider, task, chan, collector, events, http>>

\* The backend refuses the call: one synthesized attempt, unless append fails.
CompleteFails ==
  /\ NextCall
  /\ consumer' = "idle" /\ stream' = NewStream
  /\ \/ /\ events' = [events EXCEPT ![call + 1] =
               Append(@, <<Attempt(call + 1, 1, "Failed")>>)]
        /\ UNCHANGED <<hit, faults>>
     \/ /\ Fault
        /\ hit' = [hit EXCEPT ![call + 1] = TRUE]
        /\ UNCHANGED events
  /\ UNCHANGED <<provider, task, chan, collector, http>>

(***************************************************************************)
(* The backend's task.                                                     *)
(***************************************************************************)
\* The stream of the call is dropped when the agent loop leaves it.
Gone(c) == c # call \/ consumer # "polling"

\* tx.send(...).await returns: there is room, or the receiver is gone.
Room(c) == Len(chan[c]) < Capacity \/ Gone(c)

Send(c, item) ==
  /\ Room(c)
  /\ chan' = IF Gone(c) THEN chan ELSE [chan EXCEPT ![c] = Append(@, item)]

\* Mutant of Observer: the task asks the backend for its observer when it records.
LatestObserver(c) == call

\* The observer of a task is the one that was installed when it was spawned.
Observer(c) == c

\* record_attempt for the current attempt of the task.
Record(c, number, status) ==
  /\ collector' = [collector EXCEPT ![Observer(c)] = Append(@, Attempt(c, number, status))]
  /\ http' = [http EXCEPT ![c] = IF Len(@) < number THEN Append(@, status) ELSE @]

consumerVars == <<provider, call, consumer, stream, events, hit>>

\* The request of this attempt is stored, or the task records a failed attempt
\* with the sentinel hash and gives up.
Request(c) ==
  /\ task[c].pc = "attempt"
  /\ \/ /\ task' = [task EXCEPT ![c].pc = "http"]
        /\ UNCHANGED <<collector, http, faults>>
     \/ /\ Fault
        /\ Record(c, task[c].tried + 1, "Failed")
        /\ task' = [task EXCEPT ![c].pc = "err"]
  /\ UNCHANGED <<consumerVars, chan>>

\* 429 or 529: recorded, then retried or given up.
RateLimited(c) ==
  /\ task[c].pc = "http"
  /\ Record(c, task[c].tried + 1, "RateLimited")
  /\ task' = [task EXCEPT ![c].tried = @ + 1,
                          ![c].pc = IF task[c].tried + 1 > RetryMax THEN "err" ELSE "wait"]
  /\ UNCHANGED <<consumerVars, chan, faults>>

\* The countdown before a retry, one hint for all its seconds; a receiver that
\* is gone does not stop it.
Wait(c) ==
  /\ task[c].pc = "wait"
  /\ Send(c, "hint")
  /\ task' = [task EXCEPT ![c].pc = "attempt"]
  /\ UNCHANGED <<consumerVars, collector, http, faults>>

\* A success status: ProviderReady is sent before the first token is awaited.
Ready(c) ==
  /\ task[c].pc = "http"
  /\ Send(c, "ready")
  /\ task' = [task EXCEPT ![c].pc = "stream"]
  /\ UNCHANGED <<consumerVars, collector, http, faults>>

\* The request, the status, the first token or the rest of the stream fails: the
\* attempt is recorded before the error is sent.
AttemptFails(c) ==
  /\ task[c].pc \in {"http", "stream"}
  /\ Record(c, task[c].tried + 1, "Failed")
  /\ task' = [task EXCEPT ![c].pc = "err"]
  /\ UNCHANGED <<consumerVars, chan, faults>>

\* A chunk: a failing put only leaves it out of the attempt's stream object; the
\* task returns when nobody listens.
Chunk(c) ==
  /\ task[c].pc = "stream" /\ task[c].sent < MaxChunks
  /\ Send(c, "text")
  /\ task' = [task EXCEPT ![c].sent = @ + 1, ![c].pc = IF Gone(c) THEN "exit" ELSE @]
  /\ UNCHANGED <<consumerVars, collector, http, faults>>

\* Done is read and sent: if it came from the server and nobody listens, the task
\* returns; the Done that stands for an ended stream is sent in any case.
Done(c) ==
  /\ task[c].pc = "stream"
  /\ Send(c, "done")
  /\ http' = [http EXCEPT ![c] = Append(@, "Success")]
  /\ \E pc \in IF Gone(c) THEN {"record", "exit"} ELSE {"record"} :
       task' = [task EXCEPT ![c].pc = pc]
  /\ UNCHANGED <<consumerVars, collector, faults>>

\* The success is recorded after Done was sent; a failing put of the response or
\* of the stream object only leaves its hash out.
RecordSuccess(c) ==
  /\ task[c].pc = "record"
  /\ Record(c, task[c].tried + 1, "Success")
  /\ task' = [task EXCEPT ![c].pc = "exit"]
  /\ UNCHANGED <<consumerVars, chan, faults>>

\* The error is the last item of the channel.
SendErr(c) ==
  /\ task[c].pc = "err"
  /\ Send(c, "err")
  /\ task' = [task EXCEPT ![c].pc = "exit"]
  /\ UNCHANGED <<consumerVars, collector, http, faults>>

TaskStep(c) ==
  \/ Request(c) \/ RateLimited(c) \/ Wait(c) \/ Ready(c) \/ AttemptFails(c)
  \/ Chunk(c) \/ Done(c) \/ RecordSuccess(c) \/ SendErr(c)

(***************************************************************************)
(* JournalingStream.                                                       *)
(***************************************************************************)
\* What finalize appends: the drained attempts, or one that stands for the call.
FinalAttempts(s) ==
  IF collector[call] # <<>> THEN collector[call]
  ELSE <<Attempt(call, 1, IF s.last_error THEN "Failed" ELSE "Success")>>

\* Mutant of finalize: it may run again.
finalizeAgain(s) ==
  \/ /\ stream' = [s EXCEPT !.finalized = TRUE]
     /\ collector' = [collector EXCEPT ![call] = <<>>]
     /\ events' = [events EXCEPT ![call] = Append(@, FinalAttempts(s))]
     /\ UNCHANGED <<hit, faults>>
  \/ /\ Fault
     /\ stream' = [s EXCEPT !.finalized = TRUE]
     /\ collector' = [collector EXCEPT ![call] = <<>>]
     /\ hit' = [hit EXCEPT ![call] = TRUE]
     /\ UNCHANGED events

\* finalize, once per stream: drains the collector and appends the event, unless
\* an object or the event cannot be written.
finalize(s) ==
  \/ /\ s.finalized
     /\ stream' = s
     /\ UNCHANGED <<collector, events, hit, faults>>
  \/ /\ ~s.finalized
     /\ stream' = [s EXCEPT !.finalized = TRUE]
     /\ collector' = [collector EXCEPT ![call] = <<>>]
     /\ \/ /\ events' = [events EXCEPT ![call] = Append(@, FinalAttempts(s))]
           /\ UNCHANGED <<hit, faults>>
        \/ /\ Fault
           /\ hit' = [hit EXCEPT ![call] = TRUE]
           /\ UNCHANGED events

taskVars == <<provider, call, task, http>>

Receive == Head(chan[call])
Pop == chan' = [chan EXCEPT ![call] = Tail(@)]

\* An item that is not the last: its chunk is stored and it is handed on.
PollChunk ==
  /\ consumer = "polling" /\ chan[call] # <<>> /\ Receive \in ChunkItems
  /\ Pop
  /\ UNCHANGED <<taskVars, consumer, stream, collector, events, hit, faults>>

\* Mutant of PollDone: Done is handed on first and the next poll finalizes.
PollDoneLazily ==
  /\ consumer = "polling" /\ chan[call] # <<>> /\ Receive = "done"
  /\ Pop
  /\ consumer' = "terminal"
  /\ stream' = [stream EXCEPT !.done_seen = TRUE]
  /\ UNCHANGED <<taskVars, collector, events, hit, faults>>

\* Done: finalize before it is handed on.
PollDone ==
  /\ consumer = "polling" /\ chan[call] # <<>> /\ Receive = "done"
  /\ Pop
  /\ consumer' = "terminal"
  /\ finalize([stream EXCEPT !.done_seen = TRUE])
  /\ UNCHANGED taskVars

\* The chunk of an item cannot be stored: the call ends with that error, which
\* finalize journals if it can.
PollChunkNotStored ==
  /\ consumer = "polling" /\ chan[call] # <<>> /\ Receive # "err"
  /\ Fault
  /\ Pop
  /\ consumer' = "terminal"
  /\ hit' = [hit EXCEPT ![call] = TRUE]
  /\ stream' = [stream EXCEPT !.last_error = TRUE, !.done_seen = TRUE, !.finalized = TRUE]
  /\ collector' = [collector EXCEPT ![call] = <<>>]
  /\ \/ events' = [events EXCEPT ![call] =
                      Append(@, FinalAttempts([stream EXCEPT !.last_error = TRUE]))]
     \/ UNCHANGED events
  /\ UNCHANGED taskVars

\* The backend's error, or the end of a stream that had no terminal item.
PollErr ==
  /\ consumer = "polling" /\ chan[call] # <<>> /\ Receive = "err"
  /\ Pop
  /\ consumer' = "terminal"
  /\ finalize([stream EXCEPT !.last_error = TRUE, !.done_seen = TRUE])
  /\ UNCHANGED taskVars

PollNone ==
  /\ consumer = "polling" /\ chan[call] = <<>> /\ task[call].pc = "exit"
  /\ consumer' = "terminal"
  /\ finalize([stream EXCEPT !.done_seen = TRUE])
  /\ UNCHANGED <<taskVars, chan>>

\* A consumer may poll on after the terminal item.
PollAgain ==
  /\ consumer = "terminal" /\ stream.done_seen
  /\ finalize(stream)
  /\ UNCHANGED <<taskVars, consumer, chan>>

\* run returns while the stream goes on (its event channel is closed).
DropStream ==
  /\ consumer = "polling"
  /\ consumer' = "idle"
  /\ UNCHANGED <<provider, call, stream, task, chan, collector, events, http, hit, faults>>

\* Mutant of Poll: the end of the inner stream is not taken for an end.
PollPastEnd == PollChunk \/ PollDone \/ PollChunkNotStored \/ PollErr

Poll == PollChunk \/ PollDone \/ PollChunkNotStored \/ PollErr \/ PollNone

Next ==
  \/ Complete \/ RequestNotStored \/ CompleteFails
  \/ \E c \in Calls : TaskStep(c)
  \/ Poll \/ PollAgain \/ DropStream

\* The runtime polls the task and the agent loop; HTTP requests and streams end
\* (client timeouts), so a task at any point has a next step.
Fairness == WF_vars(Poll) /\ \A c \in Calls : WF_vars(TaskStep(c))

Spec == Init /\ [][Next]_vars /\ Fairness

(***************************************************************************)
(* Properties.                                                             *)
(***************************************************************************)
TaskPcs == {"none", "attempt", "http", "wait", "stream", "record", "err", "exit"}

\* The state keeps its shape, the channel its capacity and the retries their limit.
TypeOK ==
  /\ provider \in Providers /\ call \in 0..MaxCalls
  /\ consumer \in {"idle", "polling", "terminal"}
  /\ stream \in [last_error: BOOLEAN, done_seen: BOOLEAN, finalized: BOOLEAN]
  /\ task \in [Calls -> [pc: TaskPcs, tried: 0..(RetryMax + 1), sent: 0..MaxChunks]]
  /\ chan \in [Calls -> Seq(Items)]
  /\ provider = "http" => \A c \in Calls : Len(chan[c]) <= Capacity
  /\ collector \in [Calls -> Seq([call: Calls, number: 1..(RetryMax + 1), status: Statuses])]
  /\ http \in [Calls -> Seq(Statuses)]
  /\ hit \in [Calls -> BOOLEAN] /\ faults \in 0..MaxFaults
  /\ \A c \in Calls : c > call => task[c] = NewTask /\ events[c] = <<>>

\* A call has at most one ProviderCall event, however its stream ends and
\* whether or not it is polled on.
CallJournaledOnce == \A c \in Calls : Len(events[c]) <= 1

\* The synchronous append that JournalingProvider promises: when the terminal
\* item has been handed on, the event is in the journal, unless a write failed.
TerminalIsJournaled ==
  consumer = "terminal" /\ ~hit[call] => Len(events[call]) = 1

\* The task of an earlier call, which may still be recording, never adds to the
\* evidence of a later one.
OwnAttempts ==
  \A c \in Calls : \A i \in DOMAIN events[c] :
    \A n \in DOMAIN events[c][i] : events[c][i][n].call = c

\* The agent loop gets to the end of every stream it polls.
CallReturns == consumer = "polling" ~> consumer # "polling"
=============================================================================
